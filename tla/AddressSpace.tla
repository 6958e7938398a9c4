---------------------------- MODULE AddressSpace ----------------------------
(***************************************************************************)
(* What mmap, munmap, fork and memory accesses promise to processes, for   *)
(* one page of each address space: a private mapping belongs to its        *)
(* process alone, starts out as a copy of the parent's at fork and is      *)
(* changed by the process's own writes only; a shared mapping is one page  *)
(* of memory for everybody who inherited it.  No frames, page tables or    *)
(* reference counts.  VmFault implements this specification.               *)
(***************************************************************************)
CONSTANTS Maps,    \* address spaces
          Root,    \* the first one
          Values,  \* contents of a page
          ZERO,    \* the content of fresh anonymous memory
          Ids,     \* names of shared memory
          PRIVATE, NULL

VARIABLES running, \* the process of the address space runs
          region,  \* NULL, PRIVATE, or the name of the shared memory
          mem,     \* what the process sees in the page
          kernel   \* the kernel's own records: free to change, except that
                   \* a store of a process leaves them alone

vars == <<running, region, mem>>

Init ==
  /\ running = [m \in Maps |-> m = Root]
  /\ region = [m \in Maps |-> NULL]
  /\ mem = [m \in Maps |-> ZERO]

Map(m, r) ==
  /\ running[m] /\ region[m] = NULL
  /\ r \in Ids => \A n \in Maps : region[n] # r
  /\ region' = [region EXCEPT ![m] = r]
  /\ mem' = [mem EXCEPT ![m] = ZERO]
  /\ UNCHANGED running

Unmap(m) ==
  /\ region[m] # NULL
  /\ region' = [region EXCEPT ![m] = NULL]
  /\ mem' = [mem EXCEPT ![m] = ZERO]
  /\ UNCHANGED running

Write(m, v) ==
  /\ running[m] /\ region[m] # NULL
  /\ mem' = [n \in Maps |->
               IF n = m \/ (region[m] \in Ids /\ region[n] = region[m])
               THEN v ELSE mem[n]]
  /\ UNCHANGED <<running, region, kernel>>

Fork(m, n) ==
  /\ running[m] /\ ~running[n] /\ region[n] = NULL
  /\ running' = [running EXCEPT ![n] = TRUE]
  /\ region' = [region EXCEPT ![n] = region[m]]
  /\ mem' = [mem EXCEPT ![n] = mem[m]]

Exit(m) ==
  /\ running[m]
  /\ running' = [running EXCEPT ![m] = FALSE]
  /\ UNCHANGED <<region, mem>>

Next ==
  \E m \in Maps :
    \/ \E r \in Ids \cup {PRIVATE} : Map(m, r)
    \/ \E v \in Values : Write(m, v)
    \/ \E n \in Maps : Fork(m, n)
    \/ Unmap(m) \/ Exit(m)

\* Only a Write changes memory that stays mapped, so whatever the kernel does
\* about a fault preserves it.
Spec == Init /\ [][Next]_vars
=============================================================================
