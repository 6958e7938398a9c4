------------------------------ MODULE MCRWLock ------------------------------
(* Model values for RWLock: see the configurations RWLock*.cfg. *)
EXTENDS RWLock, TLC
CONSTANTS t1, t2, t3
ThreeThreads == {t1, t2, t3}
Nobody == {}
=============================================================================
