------------------------------- MODULE KEvent -------------------------------
(***************************************************************************)
(* The kevent of kernel/core/kevent.c as its clients see it: every         *)
(* operation runs under obj_lock, so to a client it is one step on the     *)
(* pair (signal count, wait list).  A wait list is a sequence of threads,  *)
(* one queued wait block each.  KWait.tla is the detailed model, with the  *)
(* locks and the wait phases.                                              *)
(*                                                                         *)
(* "expired" is the set of threads whose wait already ended by a timeout   *)
(* (WB_UNWAITED is set) but which have not yet run wb_dequeue.             *)
(***************************************************************************)
EXTENDS WaitList, Integers

\* event_init(event, false, 0): a sync event, unsignaled, nobody waiting.
event_init == [sig |-> 0, q |-> <<>>]

\* Positions of the blocks that still can be woken.
LiveAt(ev, expired) == {i \in DOMAIN ev.q : ev.q[i] \notin expired}

\* kobject_signal_locked stops at the first block that is not WB_UNWAITED.
FirstLive(ev, expired) ==
  CHOOSE i \in LiveAt(ev, expired) :
    \A j \in LiveAt(ev, expired) : i <= j

\* kobject_signal_locked(hdr, false): the blocks in front of the first live
\* one are dropped, the live one is dequeued and its thread is unwaited.
\* When every block is dead the list is emptied and nobody is woken.
signal_locked(ev, expired) ==
  IF LiveAt(ev, expired) = {}
    THEN [ev |-> [sig |-> ev.sig, q |-> <<>>], woken |-> {}]
    ELSE LET i == FirstLive(ev, expired)
         IN  [ev    |-> [sig |-> ev.sig, q |-> SubSeq(ev.q, i + 1, Len(ev.q))],
              woken |-> {ev.q[i]}]

\* A missing "no waiters" branch: an alarm nobody waits for is dropped.
event_alarm_NoLatch(ev, expired) ==
  IF ev.sig = 0 /\ ev.q # <<>>
    THEN signal_locked(ev, expired)
    ELSE [ev |-> ev, woken |-> {}]

\* An alarm that counts instead of latching.
event_alarm_Counts(ev, expired) ==
  IF ev.q # <<>> THEN signal_locked(ev, expired)
  ELSE [ev |-> [sig |-> ev.sig + 1, q |-> ev.q], woken |-> {}]

\* event_alarm(event, false) on a sync event.
event_alarm(ev, expired) ==
  IF ev.sig # 0 THEN [ev |-> ev, woken |-> {}]
  ELSE IF ev.q # <<>> THEN signal_locked(ev, expired)
  ELSE [ev |-> [sig |-> 1, q |-> ev.q], woken |-> {}]

\* The successful check of sched_wait / poll_single on a sync object.
Signaled(ev) == ev.sig > 0
Acquire(ev)  == [sig |-> ev.sig - 1, q |-> ev.q]

\* The unsuccessful check of sched_wait: queue the block at the tail.
Enqueue(ev, t) == [sig |-> ev.sig, q |-> Append(ev.q, t)]

\* wb_dequeue: unlink the block unless a signal already did (WB_DEQUEUED).
wb_dequeue(ev, t) ==
  IF t \in ToSet(ev.q) THEN [sig |-> ev.sig, q |-> Unlink(ev.q, t)] ELSE ev
=============================================================================
