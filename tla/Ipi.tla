--------------------------------- MODULE Ipi ---------------------------------
(* Remote calls (core/irq/ipi.c): a CPU puts a call into the queue of each     *)
(* target, interrupts it, and may wait on its stack until all have executed.   *)
(* The lock of a queue is taken at IPL_DPC by senders, so that the interrupt   *)
(* of a sender's own CPU arrives while it holds the lock of another's.         *)
LOCAL INSTANCE Integers
LOCAL INSTANCE FiniteSets
LOCAL INSTANCE Sequences

CONSTANTS
  NULL,
  Cpus,       \* active CPUs, numbers
  Capacity    \* calls that fit into rcq_buffer

VARIABLES
  queue,      \* CPU -> sequence of calls [from, fn, counted]
  rcq_lock,   \* CPU -> the sender that holds the lock of the CPU's queue, or NULL
  pending,    \* CPU -> the inter-processor interrupt is raised
  handling,   \* CPU -> NULL, <<>> in ipi_handler, or <<the call that it executes>>
  sender      \* CPU -> [phase, fn, left, counted, done, total]

ipiVars == <<queue, rcq_lock, pending, handling, sender>>

NotSending == [phase |-> "idle", fn |-> NULL, left |-> {}, counted |-> FALSE, done |-> 0, total |-> 0]

rcq_init ==
  /\ queue = [c \in Cpus |-> <<>>] /\ rcq_lock = [c \in Cpus |-> NULL]
  /\ pending = [c \in Cpus |-> FALSE] /\ handling = [c \in Cpus |-> NULL]
  /\ sender = [c \in Cpus |-> NotSending]

\* A CPU in its interrupt handler does nothing else.
Runs(c) == handling[c] = NULL
At(c, phase) == Runs(c) /\ sender[c].phase = phase
\* for_each_cpu goes upwards.
Dest(c) == CHOOSE d \in sender[c].left : \A e \in sender[c].left : d <= e

-----------------------------------------------------------------------------
Send(c, targets, fn, counted) ==
  /\ At(c, "idle")
  /\ sender' = [sender EXCEPT ![c] =
       [phase |-> IF targets # {} THEN "lock" ELSE IF counted THEN "wait" ELSE "idle", fn |-> fn, left |-> targets,
        counted |-> counted, done |-> 0, total |-> Cardinality(targets)]]
  /\ UNCHANGED <<queue, rcq_lock, pending, handling>>
ipi_mask_send(c, mask, fn, wait) == Send(c, mask \ {c}, fn, wait)
ipi_send(c, fn) == Send(c, Cpus \ {c}, fn, FALSE)
ipi_send_wait(c, fn) == Send(c, Cpus \ {c}, fn, TRUE)

\* do_ipi takes the lock of the target's queue, puts the call in if it fits, and
\* tries again if it does not.
do_ipi(c) ==
  /\ At(c, "lock") /\ rcq_lock[Dest(c)] = NULL
  /\ rcq_lock' = [rcq_lock EXCEPT ![Dest(c)] = c]
  /\ sender' = [sender EXCEPT ![c].phase = "put"]
  /\ UNCHANGED <<queue, pending, handling>>
\* Success although the buffer is full.
Fits_Always(d) == TRUE
Fits(d) == Len(queue[d]) < Capacity
PutCall(c) ==
  LET d == Dest(c)
      call == [from |-> c, fn |-> sender[c].fn, counted |-> sender[c].counted]
  IN /\ At(c, "put") /\ rcq_lock' = [rcq_lock EXCEPT ![d] = NULL]
     /\ queue' = IF Len(queue[d]) < Capacity THEN [queue EXCEPT ![d] = Append(@, call)] ELSE queue
     /\ sender' = [sender EXCEPT ![c].phase = IF Fits(d) THEN "poke" ELSE "lock"]
     /\ UNCHANGED <<pending, handling>>
plat_ipi(c) ==
  LET rest == sender[c].left \ {Dest(c)}
  IN /\ At(c, "poke") /\ pending' = [pending EXCEPT ![Dest(c)] = TRUE]
     /\ sender' = [sender EXCEPT ![c].left = rest,
          ![c].phase = IF rest # {} THEN "lock" ELSE IF sender[c].counted THEN "wait" ELSE "idle"]
     /\ UNCHANGED <<queue, rcq_lock, handling>>
\* The calls have executed: the counter on the stack goes away.
AllDone(c) == At(c, "wait") /\ sender[c].done = sender[c].total
SendDone(c) ==
  /\ AllDone(c) /\ sender' = [sender EXCEPT ![c] = NotSending]
  /\ UNCHANGED <<queue, rcq_lock, pending, handling>>

\* softint_issue_other raises the same interrupt, without a call.
softint_issue_other(c, d) ==
  /\ Runs(c) /\ c # d /\ ~pending[d] /\ pending' = [pending EXCEPT ![d] = TRUE]
  /\ UNCHANGED <<queue, rcq_lock, handling, sender>>

-----------------------------------------------------------------------------
ipi_handler(c) ==
  /\ Runs(c) /\ pending[c]
  /\ pending' = [pending EXCEPT ![c] = FALSE] /\ handling' = [handling EXCEPT ![c] = <<>>]
  /\ UNCHANGED <<queue, rcq_lock, sender>>
\* The next call is taken out under the lock; without one the handler returns.
TakeCall(c) ==
  /\ handling[c] = <<>> /\ rcq_lock[c] = NULL
  /\ IF queue[c] = <<>> THEN handling' = [handling EXCEPT ![c] = NULL] /\ UNCHANGED queue
     ELSE /\ handling' = [handling EXCEPT ![c] = <<Head(queue[c])>>]
          /\ queue' = [queue EXCEPT ![c] = Tail(@)]
  /\ UNCHANGED <<rcq_lock, pending, sender>>
Executing(c) == handling[c] \notin {NULL, <<>>}
Executed(c) ==
  /\ Executing(c) /\ handling' = [handling EXCEPT ![c] = <<>>]
  /\ sender' = IF handling[c][1].counted THEN [sender EXCEPT ![handling[c][1].from].done = @ + 1] ELSE sender
  /\ UNCHANGED <<queue, rcq_lock, pending>>

\* The steps between the start of a send and its end, but for the effect of a call.
IpiStep(c) ==
  \/ do_ipi(c)
  \/ PutCall(c)
  \/ plat_ipi(c)
  \/ ipi_handler(c)
  \/ TakeCall(c)

IpiNext ==
  \E c \in Cpus :
    \/ IpiStep(c)
    \/ \E d \in Cpus : softint_issue_other(c, d)
    \/ Executed(c)
    \/ SendDone(c)
    \/ ipi_send(c, NULL)
    \/ ipi_send_wait(c, NULL)
    \/ ipi_mask_send(c, Cpus, NULL, TRUE)

-----------------------------------------------------------------------------
From(c) == {<<d, i>> \in Cpus \X (1 .. Capacity) :
              i \in DOMAIN queue[d] /\ queue[d][i].counted /\ queue[d][i].from = c}
InHands(c) == {d \in Cpus : Executing(d) /\ handling[d][1].counted /\ handling[d][1].from = c}
\* The target that has its call although it is still in left.
Poked(c) == IF sender[c].phase = "poke" THEN 1 ELSE 0

\* A waiting sender counts each of its calls exactly once, so that none of them
\* runs after its stack is gone, and no call lies in a queue nobody will look at.
CallsAreExact ==
  /\ \A c \in Cpus :
       IF ~sender[c].counted THEN From(c) = {} /\ InHands(c) = {}
       ELSE sender[c].total = sender[c].done + Cardinality(From(c)) + Cardinality(InHands(c))
                              + Cardinality(sender[c].left) - Poked(c)
  /\ \A d \in Cpus : queue[d] # <<>> =>
       \/ pending[d] \/ ~Runs(d)
       \/ \E c \in Cpus : sender[c].phase = "poke" /\ Dest(c) = d

=============================================================================
