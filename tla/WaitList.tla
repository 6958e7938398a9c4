------------------------------ MODULE WaitList ------------------------------
(***************************************************************************)
(* The wait list of a kernel object (obj_wait_list, a TAILQ of wait        *)
(* blocks).  A thread has at most one block per list, so a list is a       *)
(* sequence of threads without repetition and obj_wait_count is its        *)
(* length.                                                                 *)
(***************************************************************************)
EXTENDS SequencesExt

\* TAILQ_REMOVE of the block of thread t.
Unlink(q, t) == RemoveAt(q, CHOOSE i \in DOMAIN q : q[i] = t)
=============================================================================
