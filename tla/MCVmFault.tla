----------------------------- MODULE MCVmFault ------------------------------
(* Model values for VmFault: see the configurations VmFault*.cfg. *)
EXTENDS VmFault, TLC
CONSTANTS m1, m2, m3, f1, f2, f3, f4
TwoMaps == {m1, m2}
ThreeMaps == {m1, m2, m3}
FourFrames == {f1, f2, f3, f4}
Bits == {0, 1}
AnyProtection == BOOLEAN
ReadOnly == {FALSE}
Symmetry == Permutations(Maps \ {Root}) \cup Permutations(Frames)
=============================================================================
