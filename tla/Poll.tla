-------------------------------- MODULE Poll ----------------------------------
(* poll (core/syscall/poll.c) and the wait on several objects it makes         *)
(* (sched_wait_many, core/wait.c).  Only terminals signal the poll_event of    *)
(* their vnode; read_mutex is held from the input to the alarm, and VOP_POLL   *)
(* takes it, so input and alarm are one step.  A step of a wait is what it     *)
(* does under one obj_lock or thread_lock.                                     *)
LOCAL INSTANCE Integers
LOCAL INSTANCE Sequences
LOCAL INSTANCE SequencesExt

CONSTANTS
  Pollers,   \* threads
  Vnodes,    \* open terminals
  FdSets,    \* the sequences of files a poll names (descriptors that are open)
  Timeouts,  \* of the calls: "none", "some" or "zero"
  MaxInputs  \* bound on the inputs

VARIABLES
  ready,     \* vnode -> there is something to read
  sig,       \* vnode -> poll_event is signaled
  list,      \* vnode -> wait blocks queued on poll_event: [thread, i, freed]
  poller,    \* thread -> record
  inputs,    \* inputs so far
  stale,     \* history: a wait has returned and left blocks queued
  stopped    \* why the kernel stopped, or what undefined step came next

vars == <<ready, sig, list, poller, inputs, stale, stopped>>

\* found: entries with revents.  unwaited: WB_UNWAITED of the blocks.  robbed:
\* files whose alarm, since the last look at them, has gone to somebody else.
NotPolling == [pc |-> "user", fds |-> <<>>, i |-> 1, found |-> 0, timeout |-> "none", phase |-> "NONE",
               unwaited |-> FALSE, robbed |-> {}]

Init ==
  /\ ready = [v \in Vnodes |-> FALSE] /\ sig = [v \in Vnodes |-> FALSE]
  /\ list = [v \in Vnodes |-> <<>>]
  /\ poller = [t \in Pollers |-> NotPolling]
  /\ inputs = 0 /\ stale = FALSE /\ stopped = "no"

Block(t, i) == [thread |-> t, i |-> i, freed |-> FALSE]
Linked(t) == {i \in DOMAIN poller[t].fds : Contains(list[poller[t].fds[i]], Block(t, i))}
Set(t, r) == poller' = [poller EXCEPT ![t] = r]
At(t, pc) == poller[t].pc = pc
Stop(why) == stopped' = why /\ UNCHANGED <<ready, sig, list, poller, inputs, stale>>

\* Those whose look at v is past and whose wait does not get this alarm.
Robbed(P, v, but) ==
  [t \in Pollers |-> IF t \notin but /\ ToSet(P[t].fds) \cap {v} # {}
                     THEN [P[t] EXCEPT !.robbed = @ \cup {v}] ELSE P[t]]

-----------------------------------------------------------------------------
\* The event is alarmed for everybody: kobject_signal_locked takes every block off
\* the list and unwaits its thread once.  The assertion is thread_unwait's.
Waiting(t) == poller[t].phase \in {"IN_PROGRESS", "COMITTED"}
thread_unwait(t) ==
  [poller[t] EXCEPT !.unwaited = TRUE,
     !.phase = IF @ = "IN_PROGRESS" THEN "ABORTED" ELSE @,
     !.pc = IF @ = "off" THEN "woken" ELSE @]
event_alarm(v) ==
  LET live == {b \in ToSet(list[v]) : b.freed \/ ~poller[b.thread].unwaited}
      threads == {b.thread : b \in live}
  IN IF sig[v] THEN UNCHANGED <<sig, list, poller, stale, stopped>>
     ELSE IF list[v] = <<>>
     THEN sig' = [sig EXCEPT ![v] = TRUE] /\ UNCHANGED <<list, poller, stale, stopped>>
     ELSE /\ UNCHANGED <<sig, stale>>
          /\ IF \E b \in live : b.freed \/ ~Waiting(b.thread)
             THEN /\ stopped' = IF \E b \in live : b.freed THEN "freed" ELSE "unwait"
                  /\ UNCHANGED <<list, poller>>
             ELSE /\ list' = [list EXCEPT ![v] = <<>>]
                  /\ poller' = Robbed([t \in Pollers |-> IF t \in threads THEN thread_unwait(t) ELSE poller[t]],
                                      v, threads)
                  /\ UNCHANGED stopped
receive_char(v) ==
  /\ inputs < MaxInputs /\ inputs' = inputs + 1 /\ ready' = [ready EXCEPT ![v] = TRUE] /\ event_alarm(v)
\* A read, by anybody, takes what there is and does not touch poll_event.
Read(v) == ready[v] /\ ready' = [ready EXCEPT ![v] = FALSE] /\ UNCHANGED <<inputs, sig, list, poller, stale, stopped>>

-----------------------------------------------------------------------------
\* The call, and VOP_POLL of one file after the other.
poll(t, fds, timeout) ==
  /\ At(t, "user")
  /\ Set(t, [NotPolling EXCEPT !.pc = "look", !.fds = fds, !.timeout = timeout])
  /\ UNCHANGED <<inputs, ready, sig, list, stale, stopped>>
VOP_POLL(t) ==
  LET r == poller[t]
      v == r.fds[r.i]
      n == r.found + (IF ready[v] THEN 1 ELSE 0)
      last == r.i = Len(r.fds)
  IN /\ At(t, "look")
     /\ Set(t, [r EXCEPT !.found = n, !.robbed = @ \ {v}, !.i = IF last THEN 1 ELSE @ + 1,
                         !.pc = IF ~last THEN "look" ELSE IF n > 0 \/ r.timeout = "zero" THEN "finish" ELSE "wait"])
     /\ UNCHANGED <<inputs, ready, sig, list, stale, stopped>>
\* The wait blocks are freed, also those an event still has in its list.
Finish(t) ==
  /\ At(t, "finish") /\ Set(t, NotPolling)
  /\ list' = [v \in Vnodes |-> [k \in DOMAIN list[v] |->
                IF list[v][k].thread = t THEN [list[v][k] EXCEPT !.freed = TRUE] ELSE list[v][k]]]
  /\ UNCHANGED <<inputs, ready, sig, stale, stopped>>

\* sched_wait_many: the flags of all blocks are cleared.
BeginWait(t) ==
  /\ At(t, "wait")
  /\ Set(t, [poller[t] EXCEPT !.pc = "queue", !.i = 1, !.phase = "IN_PROGRESS", !.unwaited = FALSE])
  /\ UNCHANGED <<inputs, ready, sig, list, stale, stopped>>

\* After a wait, whatever ended it, every file is polled again.
LookAgain(r) == [r EXCEPT !.pc = "look", !.i = 1, !.found = 0, !.phase = "NONE"]

\* The next object: signaled, it is taken and the wait returns at once, with the
\* blocks of the objects before it still queued; or the block is queued.
Queue(t) ==
  LET r == poller[t]
      v == r.fds[r.i]
  IN /\ At(t, "queue")
     /\ IF sig[v]
        THEN /\ sig' = [sig EXCEPT ![v] = FALSE] /\ stale' = (stale \/ Linked(t) # {})
             /\ poller' = Robbed([poller EXCEPT ![t] = LookAgain(r)], v, {t})
             /\ UNCHANGED <<inputs, ready, list, stopped>>
        ELSE IF Contains(list[v], Block(t, r.i)) THEN Stop("relinked")
        ELSE /\ list' = [list EXCEPT ![v] = Append(@, Block(t, r.i))]
             /\ Set(t, [r EXCEPT !.i = IF r.i < Len(r.fds) THEN @ + 1 ELSE 1,
                                 !.pc = IF r.i < Len(r.fds) THEN "queue" ELSE "commit"])
             /\ UNCHANGED <<inputs, ready, sig, stale, stopped>>

\* Under thread_lock: an aborted wait takes its blocks back, another one sleeps.
Commit(t) ==
  /\ At(t, "commit")
  /\ Set(t, IF poller[t].phase = "ABORTED" THEN [poller[t] EXCEPT !.pc = "woken"]
            ELSE [poller[t] EXCEPT !.pc = "off", !.phase = "COMITTED"])
  /\ UNCHANGED <<inputs, ready, sig, list, stale, stopped>>
\* The timer of the wait aborts it or ends it; the call waits again after that.
Timeout(t) ==
  /\ poller[t].timeout = "some" /\ poller[t].pc \in {"commit", "off"} /\ ~poller[t].unwaited
  /\ Set(t, thread_unwait(t)) /\ UNCHANGED <<inputs, ready, sig, list, stale, stopped>>

\* wb_dequeue of one block after the other.
LastBlock_First(r) == TRUE
LastBlock(r) == r.i = Len(r.fds)
wb_dequeue(t) ==
  LET r == poller[t]
      v == r.fds[r.i]
  IN /\ At(t, "woken")
     /\ list' = [list EXCEPT ![v] = SelectSeq(@, LAMBDA b : b # Block(t, r.i))]
     /\ Set(t, IF LastBlock(r) THEN LookAgain(r) ELSE [r EXCEPT !.i = @ + 1])
     /\ UNCHANGED <<inputs, ready, sig, stale, stopped>>

Next ==
  /\ stopped = "no"
  /\ \/ \E v \in Vnodes : receive_char(v) \/ Read(v)
     \/ \E t \in Pollers :
          \/ \E fds \in FdSets, timeout \in Timeouts : poll(t, fds, timeout)
          \/ VOP_POLL(t) \/ Finish(t)
          \/ BeginWait(t) \/ Queue(t) \/ Commit(t) \/ Timeout(t) \/ wb_dequeue(t)

-----------------------------------------------------------------------------
\* A sleeping poller is queued on every file it named, and when one of them is
\* ready its alarm has gone to another poller; until a wait returns at a later
\* object, only waits that go on have blocks in a list and the kernel runs.
PollIsSound ==
  /\ \A t \in Pollers : At(t, "off") =>
       /\ Linked(t) = DOMAIN poller[t].fds
       /\ stopped = "no" => \A v \in ToSet(poller[t].fds) : ready[v] => v \in poller[t].robbed
  /\ ~stale => /\ stopped = "no"
               /\ \A v \in Vnodes : \A b \in ToSet(list[v]) :
                    ~b.freed /\ poller[b.thread].pc \in {"queue", "commit", "off", "woken"}
=============================================================================
