----------------------------- MODULE PageSpace ------------------------------
(* What an address map promises, page by page: a page shows one page of one  *)
(* object with one protection.  A call changes the pages of the range it is  *)
(* given and no other page of the address space.                             *)
EXTENDS Integers

CONSTANTS Pages, Free, Objects, Prots

VARIABLE space   \* page -> Free or [obj, page, prot, max]

Init == space = [p \in Pages |-> Free]

\* The pages of the range show consecutive pages of an object.
Mapped(first, last, obj, prot, p, was) ==
  IF p \in first .. last THEN [obj |-> obj, page |-> p - first, prot |-> prot, max |-> prot]
  ELSE was

Unmapped(first, last, p, was) == IF p \in first .. last THEN Free ELSE was

\* No page gets more than the most that was granted for it, unless the grant is
\* what changes.  A call that is refused half way has changed a shorter range.
Protected(first, last, prot, setmax, p, was) ==
  IF p \in first .. last /\ was # Free /\ (setmax \/ prot <= was.max)
  THEN [obj |-> was.obj, page |-> was.page,
        prot |-> prot, max |-> IF setmax THEN prot ELSE was.max]
  ELSE was

Next ==
  LET old == space
      new == space'
  IN /\ new # old   \* a call that changes nothing is a stuttering step
     /\ \E first, last \in Pages :
       /\ \A p \in Pages : p \notin first .. last => new[p] = old[p]
       /\ \/ \E obj \in Objects, prot \in Prots :
               \A p \in Pages : new[p] = Mapped(first, last, obj, prot, p, old[p])
          \/ \A p \in Pages : new[p] = Unmapped(first, last, p, old[p])
          \/ \E prot \in Prots, setmax \in BOOLEAN :
               \A p \in Pages : new[p] = Protected(first, last, prot, setmax, p, old[p])

Spec == Init /\ [][Next]_space
=============================================================================
