------------------------------- MODULE KWait --------------------------------
(***************************************************************************)
(* The blocking wait on one kernel object: sched_wait and thread_unwait    *)
(* (kernel/core/wait.c), kobject_signal_locked (object.c), events          *)
(* (kevent.c), semaphores (semaphore.c) and the timeout timer of a thread  *)
(* (timer.c).                                                              *)
(*                                                                         *)
(* A wait has two phases.  IN_PROGRESS: the thread still runs while its    *)
(* wait block is already visible on the object, and a signal aborts the    *)
(* wait.  COMITTED: the thread is off its CPU and a signal makes it ready. *)
(* A step is what the code does between two lock acquisitions.  obj_lock   *)
(* is a variable, because kobject_signal_locked keeps it over its whole    *)
(* loop; thread_lock is taken and dropped within one step of the loop, or  *)
(* handed to the switch by do_wait, so its critical sections are single    *)
(* steps.  Every thread is given a CPU of its own: threads that share one  *)
(* interleave less, since all of this runs at IPL_DPC.                     *)
(***************************************************************************)
EXTENDS WaitList, Integers

CONSTANTS Threads,      \* threads that call sched_wait
          Sems,         \* semaphores
          SyncEvents,   \* events of type OBJ_SYNC
          NotifEvents,  \* events of type OBJ_NOTIF
          Signallers,   \* contexts that signal: DPCs, or threads elsewhere
          MaxSignals,   \* bound on the signal operations of one behaviour
          NULL

Objects == Sems \cup SyncEvents \cup NotifEvents

ASSUME WaitAssumption ==
  /\ Sems \cap SyncEvents = {} /\ Sems \cap NotifEvents = {}
  /\ SyncEvents \cap NotifEvents = {}
  /\ NULL \notin Signallers /\ NULL \notin Objects
  /\ MaxSignals \in Nat

VARIABLES
  status,       \* thread->status: "RUNNING", "WAITING" or "READY"
  phase,        \* thread->wait_phase
  wait_status,  \* thread->wait_status
  unwaited,     \* WB_UNWAITED, set in all blocks of the thread at once
  dequeued,     \* WB_DEQUEUED of the thread's block on its object
  pc,           \* where the thread is in sched_wait
  wobj,         \* the object of the current wait, or NULL
  timed,        \* has_timeout of that wait
  timer,        \* thread->timeout_timer.state
  tqueued,      \* timeout_wait_block is linked on the timer
  sig,          \* obj_signal_count
  list,         \* obj_wait_list
  lock,         \* the signaller inside obj_lock, or NULL
  sobj,         \* the object a signaller has locked, or NULL
  sall,         \* its unblock_all argument
  swoken,       \* its count of threads unblocked so far
  issued,       \* signal operations on each object (history)
  granted,      \* signals of each semaphore consumed by waits (history)
  discarded,    \* counted signals dropped by semaphore_reset (history)
  swallowed,    \* signals that only lifted a count from -1 to 0 (history)
  overruns,     \* resets that fell into an acquire and left -1 (history)
  got,          \* signals consumed by the thread's current wait (history)
  result        \* what the last finished wait returned

threadVars == <<status, phase, wait_status, unwaited, dequeued, pc, wobj, timed>>
timerVars  == <<timer, tqueued>>
objVars    == <<sig, list, lock>>
sigVars    == <<sobj, sall, swoken>>
lossVars   == <<discarded, swallowed, overruns>>
history    == <<issued, granted, lossVars, got, result>>
vars == <<threadVars, timerVars, objVars, sigVars, history>>

Phases   == {"NONE", "IN_PROGRESS", "COMITTED", "ABORTED"}
Statuses == {"NONE", "SUCCESS", "TIMEOUT"}
PCs == {"run",      \* not waiting
        "check",    \* wait set up, object not yet looked at
        "arm",      \* block queued, set_timeout to do
        "commit",   \* about to test wait_phase under thread_lock
        "abort",    \* the wait was aborted: cancel the timeout
        "dequeue",  \* aborted: wb_dequeue to do
        "off",      \* inside do_wait, switched off its CPU
        "woken",    \* inside do_wait, running again: wb_dequeue to do
        "disarm",   \* inside do_wait: take the timeout block off the timer
        "uninstall"}\* inside do_wait: timer_uninstall and return

IsSync(o) == o \in Sems \cup SyncEvents

Init ==
  /\ status = [t \in Threads |-> "RUNNING"]
  /\ phase = [t \in Threads |-> "NONE"]
  /\ wait_status = [t \in Threads |-> "NONE"]
  /\ unwaited = [t \in Threads |-> FALSE]
  /\ dequeued = [t \in Threads |-> FALSE]
  /\ pc = [t \in Threads |-> "run"]
  /\ wobj = [t \in Threads |-> NULL]
  /\ timed = [t \in Threads |-> FALSE]
  /\ timer = [t \in Threads |-> "UNUSED"]
  /\ tqueued = [t \in Threads |-> FALSE]
  /\ sig = [o \in Objects |-> 0]
  /\ list = [o \in Objects |-> <<>>]
  /\ lock = [o \in Objects |-> NULL]
  /\ sobj = [s \in Signallers |-> NULL]
  /\ sall = [s \in Signallers |-> FALSE]
  /\ swoken = [s \in Signallers |-> 0]
  /\ issued = [o \in Objects |-> 0]
  /\ granted = [o \in Objects |-> 0]
  /\ discarded = [o \in Objects |-> 0]
  /\ swallowed = [o \in Objects |-> 0]
  /\ overruns = [o \in Objects |-> 0]
  /\ got = [t \in Threads |-> 0]
  /\ result = [t \in Threads |-> "NONE"]
-----------------------------------------------------------------------------
(* The waiting thread *)

Goto(t, label) == pc' = [pc EXCEPT ![t] = label]

\* sched_wait returns st; its locals are gone.
Return(t, st) ==
  /\ Goto(t, "run")
  /\ wobj' = [wobj EXCEPT ![t] = NULL]
  /\ timed' = [timed EXCEPT ![t] = FALSE]
  /\ result' = [result EXCEPT ![t] = st]

\* History: one more signal of semaphore o reached a thread.
CountGrant(o) == granted' = [granted EXCEPT ![o] = IF o \in Sems THEN @ + 1 ELSE @]

\* sched_wait, WAIT_MODE_BLOCK: initialise the wait block and, under
\* thread_lock, enter phase IN_PROGRESS.
BeginWait(t, o, to) ==
  /\ pc[t] = "run"
  /\ Goto(t, "check")
  /\ wobj' = [wobj EXCEPT ![t] = o]
  /\ timed' = [timed EXCEPT ![t] = to]
  /\ phase' = [phase EXCEPT ![t] = "IN_PROGRESS"]
  /\ unwaited' = [unwaited EXCEPT ![t] = FALSE]
  /\ dequeued' = [dequeued EXCEPT ![t] = FALSE]
  /\ got' = [got EXCEPT ![t] = 0]
  /\ result' = [result EXCEPT ![t] = "NONE"]
  /\ UNCHANGED <<status, wait_status, timerVars, objVars, sigVars,
                 issued, granted, lossVars>>

\* Under obj_lock, the object is signaled: consume and return at once.
CheckSignaled(t) ==
  LET o == wobj[t]
  IN  /\ pc[t] = "check"
      /\ lock[o] = NULL
      /\ sig[o] > 0
      /\ sig' = [sig EXCEPT ![o] = IF IsSync(o) THEN @ - 1 ELSE @]
      /\ phase' = [phase EXCEPT ![t] = "NONE"]
      /\ CountGrant(o)
      /\ got' = [got EXCEPT ![t] = @ + 1]
      /\ Return(t, "SUCCESS")
      /\ UNCHANGED <<status, wait_status, unwaited, dequeued,
                     timerVars, list, lock, sigVars, issued, lossVars>>

\* Under obj_lock, the object is not signaled: queue the wait block.
CheckEnqueue(t) ==
  LET o == wobj[t]
  IN  /\ pc[t] = "check"
      /\ lock[o] = NULL
      /\ sig[o] <= 0
      /\ list' = [list EXCEPT ![o] = Append(@, t)]
      /\ Goto(t, "arm")
      /\ UNCHANGED <<status, phase, wait_status, unwaited, dequeued, wobj,
                     timed, timerVars, sig, lock, sigVars, history>>

\* set_timeout: timer_reset, timer_install, link the timeout block.  The
\* timer is on this CPU, which is at IPL_DPC, so it cannot fire meanwhile.
SetTimeout(t) ==
  /\ pc[t] = "arm"
  /\ Goto(t, "commit")
  /\ \/ timed[t] /\ timer' = [timer EXCEPT ![t] = "QUEUED"]
                 /\ tqueued' = [tqueued EXCEPT ![t] = TRUE]
     \/ ~timed[t] /\ UNCHANGED timerVars
  /\ UNCHANGED <<status, phase, wait_status, unwaited, dequeued, wobj,
                 timed, objVars, sigVars, history>>

\* Commits without looking at wait_phase again.
Commit_NoRecheck(t) ==
  /\ pc[t] = "commit"
  /\ phase' = [phase EXCEPT ![t] = "COMITTED"]
  /\ status' = [status EXCEPT ![t] = "WAITING"]
  /\ Goto(t, "off")
  /\ UNCHANGED <<wait_status, unwaited, dequeued, wobj, timed,
                 timerVars, objVars, sigVars, history>>

\* Under thread_lock: nobody aborted the wait, so do_wait commits to it and
\* yields; the lock is released by sched_finalize_swtch, off the CPU.
Commit(t) ==
  /\ pc[t] = "commit"
  /\ phase[t] # "ABORTED"
  /\ phase' = [phase EXCEPT ![t] = "COMITTED"]
  /\ status' = [status EXCEPT ![t] = "WAITING"]
  /\ Goto(t, "off")
  /\ UNCHANGED <<wait_status, unwaited, dequeued, wobj, timed,
                 timerVars, objVars, sigVars, history>>

\* Under thread_lock: the wait was aborted.
SeeAbort(t) ==
  /\ pc[t] = "commit"
  /\ phase[t] = "ABORTED"
  /\ Goto(t, "abort")
  /\ UNCHANGED <<status, phase, wait_status, unwaited, dequeued, wobj,
                 timed, timerVars, objVars, sigVars, history>>

\* Forgets to take the timer off the heap.
timer_uninstall_Skip(t) == UNCHANGED timer

\* timer_uninstall: a timer that is not queued is left alone.
timer_uninstall(t) ==
  timer' = [timer EXCEPT ![t] = IF @ = "QUEUED" THEN "CANCELED" ELSE @]

\* if (has_timeout): cancel the timer and take the timeout block off it.
CancelTimeout(t) ==
  \/ timed[t] /\ timer_uninstall(t)
              /\ tqueued' = [tqueued EXCEPT ![t] = FALSE]
  \/ ~timed[t] /\ UNCHANGED timerVars

AbortTimeout(t) ==
  /\ pc[t] = "abort"
  /\ CancelTimeout(t)
  /\ Goto(t, "dequeue")
  /\ UNCHANGED <<status, phase, wait_status, unwaited, dequeued, wobj,
                 timed, objVars, sigVars, history>>

\* A wb_dequeue that leaves the block where it is.
dequeue_block_Skip(t) == lock[wobj[t]] = NULL /\ UNCHANGED list

\* wb_dequeue under obj_lock: unlink the block unless a signal did.
dequeue_block(t) ==
  LET o == wobj[t]
  IN  /\ lock[o] = NULL
      /\ list' = [list EXCEPT ![o] = IF dequeued[t] THEN @ ELSE Unlink(@, t)]

AbortDequeue(t) ==
  /\ pc[t] = "dequeue"
  /\ dequeue_block(t)
  /\ phase' = [phase EXCEPT ![t] = "NONE"]
  /\ Return(t, wait_status[t])
  /\ UNCHANGED <<status, wait_status, unwaited, dequeued,
                 timerVars, sig, lock, sigVars, issued, granted, lossVars, got>>

\* External: the scheduler puts a ready thread back on its CPU.
Dispatch(t) ==
  /\ pc[t] = "off"
  /\ status[t] = "READY"
  /\ status' = [status EXCEPT ![t] = "RUNNING"]
  /\ Goto(t, "woken")
  /\ UNCHANGED <<phase, wait_status, unwaited, dequeued, wobj, timed,
                 timerVars, objVars, sigVars, history>>

\* do_wait after the switch back: dequeue the block from its object.
WokenDequeue(t) ==
  /\ pc[t] = "woken"
  /\ dequeue_block(t)
  /\ Goto(t, IF timed[t] THEN "disarm" ELSE "uninstall")
  /\ UNCHANGED <<status, phase, wait_status, unwaited, dequeued, wobj, timed,
                 timerVars, sig, lock, sigVars, history>>

\* if (has_timeout), first half: wb_dequeue(&thread->timeout_wait_block).
WokenDisarm(t) ==
  /\ pc[t] = "disarm"
  /\ tqueued' = [tqueued EXCEPT ![t] = FALSE]
  /\ Goto(t, "uninstall")
  /\ UNCHANGED <<status, phase, wait_status, unwaited, dequeued, wobj, timed,
                 timer, objVars, sigVars, history>>

\* Second half: timer_uninstall, and do_wait returns.
WokenReturn(t) ==
  /\ pc[t] = "uninstall"
  /\ \/ timed[t] /\ timer_uninstall(t)
     \/ ~timed[t] /\ UNCHANGED timer
  /\ Return(t, wait_status[t])
  /\ UNCHANGED <<status, phase, wait_status, unwaited, dequeued,
                 tqueued, objVars, sigVars, issued, granted, lossVars, got>>
-----------------------------------------------------------------------------
(* Signals *)

\* thread_unwait without the phase change of a thread that still runs.
thread_unwait_NoAbort(t, st) ==
  /\ wait_status' = [wait_status EXCEPT ![t] = st]
  /\ unwaited' = [unwaited EXCEPT ![t] = TRUE]
  /\ status' = [status EXCEPT ![t] = IF @ = "WAITING" THEN "READY" ELSE @]
  /\ UNCHANGED phase

\* thread_unwait, under thread_lock: abort a wait in progress, or resume the
\* thread that committed to it (sched_resume_locked makes it ready).
thread_unwait(t, st) ==
  /\ phase' = [phase EXCEPT ![t] = IF status[t] = "RUNNING" THEN "ABORTED" ELSE @]
  /\ wait_status' = [wait_status EXCEPT ![t] = st]
  /\ unwaited' = [unwaited EXCEPT ![t] = TRUE]
  /\ status' = [status EXCEPT ![t] = IF @ = "WAITING" THEN "READY" ELSE @]

\* The signals a semaphore counts, and what a count below zero owes.
Counted(o) == IF sig[o] > 0 THEN sig[o] ELSE 0
Owed(o) == IF sig[o] < 0 THEN -sig[o] ELSE 0

\* The bound of the model: signal operations on all objects together.
SignalBudget == FoldFunction(+, 0, issued) < MaxSignals

\* Latches the signal without looking at the wait count.
AlarmLatch_Blind(o) ==
  /\ SignalBudget
  /\ lock[o] = NULL
  /\ o \notin Sems
  /\ sig' = [sig EXCEPT ![o] = 1]
  /\ issued' = [issued EXCEPT ![o] = @ + 1]
  /\ UNCHANGED <<threadVars, timerVars, list, lock, sigVars,
                 granted, lossVars, got, result>>

\* event_alarm that returns at once: the event is signaled already, or
\* nobody waits and the signal is latched.
AlarmLatch(o) ==
  /\ SignalBudget
  /\ lock[o] = NULL
  /\ o \notin Sems
  /\ sig[o] # 0 \/ list[o] = <<>>
  /\ sig' = [sig EXCEPT ![o] = IF @ = 0 THEN 1 ELSE @]
  /\ issued' = [issued EXCEPT ![o] = @ + 1]
  /\ UNCHANGED <<threadVars, timerVars, list, lock, sigVars,
                 granted, lossVars, got, result>>

\* event_alarm with waiters, and semaphore_signal: take obj_lock and enter
\* kobject_signal_locked.  A notification event always wakes all.
SignalBegin(s, o, all) ==
  /\ SignalBudget
  /\ sobj[s] = NULL
  /\ lock[o] = NULL
  /\ \/ o \in Sems /\ ~all
     \/ o \notin Sems /\ sig[o] = 0 /\ list[o] # <<>>
  /\ lock' = [lock EXCEPT ![o] = s]
  /\ sobj' = [sobj EXCEPT ![s] = o]
  /\ sall' = [sall EXCEPT ![s] = all \/ o \in NotifEvents]
  /\ swoken' = [swoken EXCEPT ![s] = 0]
  /\ issued' = [issued EXCEPT ![o] = @ + 1]
  /\ UNCHANGED <<threadVars, timerVars, sig, list,
                 granted, lossVars, got, result>>

\* kobject_signal_locked keeps looking for waiters?
MoreToWake(s) ==
  /\ list[sobj[s]] # <<>>
  /\ sall[s] \/ swoken[s] = 0

\* One round of the loop, the first block being dead: drop it.
SignalSkip(s) ==
  LET o == sobj[s]
      t == Head(list[o])
  IN  /\ o # NULL
      /\ MoreToWake(s)
      /\ unwaited[t]
      /\ list' = [list EXCEPT ![o] = Tail(@)]
      /\ dequeued' = [dequeued EXCEPT ![t] = TRUE]
      /\ UNCHANGED <<status, phase, wait_status, unwaited, pc, wobj, timed,
                     timerVars, sig, lock, sigVars, history>>

\* One round of the loop, the first block being live: unwait its thread.
SignalWake(s) ==
  LET o == sobj[s]
      t == Head(list[o])
  IN  /\ o # NULL
      /\ MoreToWake(s)
      /\ ~unwaited[t]
      /\ list' = [list EXCEPT ![o] = Tail(@)]
      /\ dequeued' = [dequeued EXCEPT ![t] = TRUE]
      /\ thread_unwait(t, "SUCCESS")
      /\ swoken' = [swoken EXCEPT ![s] = @ + 1]
      /\ CountGrant(o)
      /\ got' = [got EXCEPT ![t] = @ + 1]
      /\ UNCHANGED <<pc, wobj, timed, timerVars, sig, lock, sobj, sall,
                     issued, lossVars, result>>

\* A semaphore_signal that counts even when it woke somebody.
SignalCount_Always(s) ==
  LET o == sobj[s]
  IN  CASE o \in Sems        -> sig[o] + 1
        [] o \in NotifEvents -> 1
        [] OTHER             -> sig[o]

\* What the caller of kobject_signal_locked stores in obj_signal_count.
SignalCount(s) ==
  LET o == sobj[s]
  IN  CASE o \in Sems /\ swoken[s] = 0 -> sig[o] + 1
        [] o \in NotifEvents           -> 1
        [] OTHER                       -> sig[o]

\* History: a signal that is added to a negative count is never seen again.
CountSwallowed(s) ==
  LET o == sobj[s]
  IN  swallowed' = [swallowed EXCEPT ![o] =
                      IF o \in Sems /\ swoken[s] = 0 /\ sig[o] < 0 THEN @ + 1 ELSE @]

\* The loop is over; the caller updates the count and drops obj_lock.
SignalEnd(s) ==
  LET o == sobj[s]
  IN  /\ o # NULL
      /\ ~MoreToWake(s)
      /\ sig' = [sig EXCEPT ![o] = SignalCount(s)]
      /\ CountSwallowed(s)
      /\ lock' = [lock EXCEPT ![o] = NULL]
      /\ sobj' = [sobj EXCEPT ![s] = NULL]
      /\ sall' = [sall EXCEPT ![s] = FALSE]
      /\ swoken' = [swoken EXCEPT ![s] = 0]
      /\ UNCHANGED <<threadVars, timerVars, list, issued, granted, discarded,
                     overruns, got, result>>

\* event_clear, under obj_lock.
event_clear(o) ==
  /\ o \notin Sems
  /\ lock[o] = NULL
  /\ sig' = [sig EXCEPT ![o] = 0]
  /\ UNCHANGED <<threadVars, timerVars, list, lock, sigVars, history>>

\* semaphore_reset stores the count without taking obj_lock.  It touches
\* nothing else, and everybody else who reads or writes the count holds
\* obj_lock, so a store that falls into such a critical section is modelled
\* as one step with it: see the two actions below.
semaphore_reset(o) ==
  /\ o \in Sems
  /\ sig[o] # 0
  /\ sig' = [sig EXCEPT ![o] = 0]
  /\ discarded' = [discarded EXCEPT ![o] = @ + Counted(o)]
  /\ UNCHANGED <<threadVars, timerVars, list, lock, sigVars,
                 issued, granted, swallowed, overruns, got, result>>

\* The store falls into the acquire of a thread, after its test of the count.
\* Before the decrement has loaded the count, the decrement acts on the zero;
\* between its load and its store, the reset is overwritten.
semaphore_reset_RacingAcquire(t) ==
  LET o == wobj[t]
  IN  /\ pc[t] = "check"
      /\ o \in Sems
      /\ lock[o] = NULL
      /\ sig[o] > 0
      /\ \/ /\ sig' = [sig EXCEPT ![o] = -1]
            /\ discarded' = [discarded EXCEPT ![o] = @ + sig[o] - 1]
            /\ overruns' = [overruns EXCEPT ![o] = @ + 1]
         \/ /\ sig' = [sig EXCEPT ![o] = @ - 1]
            /\ UNCHANGED <<discarded, overruns>>
      /\ phase' = [phase EXCEPT ![t] = "NONE"]
      /\ CountGrant(o)
      /\ got' = [got EXCEPT ![t] = @ + 1]
      /\ Return(t, "SUCCESS")
      /\ UNCHANGED <<status, wait_status, unwaited, dequeued, timerVars, list, lock,
                     sigVars, issued, swallowed>>

\* The store falls between the load and the store of a signaller that adds to
\* the count: it is overwritten, and what was counted before stays counted.
semaphore_reset_RacingSignal(s) ==
  /\ sobj[s] \in Sems
  /\ swoken[s] = 0
  /\ SignalEnd(s)

\* timer_update runs as a DPC on the CPU of t, which t occupies at IPL_DPC
\* until it yields, and again once it is back: swtch pins a thread to the CPU
\* it leaves (affinity_cpu).
TimerMayFire(t) == timer[t] = "QUEUED" /\ pc[t] = "off"

\* The timeout block is signaled whatever its WB_UNWAITED flag.
TimerFire_Unchecked(t) ==
  /\ TimerMayFire(t)
  /\ timer' = [timer EXCEPT ![t] = "FIRED"]
  /\ tqueued' = [tqueued EXCEPT ![t] = FALSE]
  /\ \/ tqueued[t] /\ thread_unwait(t, "TIMEOUT")
     \/ ~tqueued[t] /\ UNCHANGED <<status, phase, wait_status, unwaited>>
  /\ UNCHANGED <<dequeued, pc, wobj, timed, objVars, sigVars, history>>

\* timer_update: the timeout timer of t expired.  The timeout block is
\* dequeued and, if no signal came first, the thread is unwaited with
\* YAK_TIMEOUT.
TimerFire(t) ==
  /\ TimerMayFire(t)
  /\ timer' = [timer EXCEPT ![t] = "FIRED"]
  /\ tqueued' = [tqueued EXCEPT ![t] = FALSE]
  /\ \/ tqueued[t] /\ ~unwaited[t] /\ thread_unwait(t, "TIMEOUT")
     \/ ~(tqueued[t] /\ ~unwaited[t])
        /\ UNCHANGED <<status, phase, wait_status, unwaited>>
  /\ UNCHANGED <<dequeued, pc, wobj, timed, objVars, sigVars, history>>
-----------------------------------------------------------------------------
ThreadStep(t) ==
  \/ CheckSignaled(t) \/ CheckEnqueue(t) \/ SetTimeout(t)
  \/ Commit(t) \/ SeeAbort(t) \/ AbortTimeout(t) \/ AbortDequeue(t)
  \/ WokenDequeue(t) \/ WokenDisarm(t) \/ WokenReturn(t)

SignallerStep(s) == SignalSkip(s) \/ SignalWake(s) \/ SignalEnd(s)

Next ==
  \/ \E t \in Threads :
       \/ \E o \in Objects, to \in BOOLEAN : BeginWait(t, o, to)
       \/ ThreadStep(t) \/ Dispatch(t) \/ TimerFire(t)
       \/ semaphore_reset_RacingAcquire(t)
  \/ \E s \in Signallers :
       \/ \E o \in Objects, all \in BOOLEAN : SignalBegin(s, o, all)
       \/ SignallerStep(s) \/ semaphore_reset_RacingSignal(s)
  \/ \E o \in Objects : AlarmLatch(o) \/ event_clear(o) \/ semaphore_reset(o)

Spec == Init /\ [][Next]_vars

\* Code that runs at IPL_DPC is not preempted and finishes; the scheduler
\* dispatches a ready thread; an armed timer interrupt arrives.  Nobody is
\* obliged to start a wait or to signal.
Fairness ==
  /\ \A t \in Threads : WF_vars(ThreadStep(t)) /\ WF_vars(Dispatch(t))
                        /\ WF_vars(TimerFire(t))
  /\ \A s \in Signallers : WF_vars(SignallerStep(s))

FairSpec == Spec /\ Fairness
-----------------------------------------------------------------------------
(* Properties *)

\* Types of all variables.
TypeOK ==
  /\ status \in [Threads -> {"RUNNING", "WAITING", "READY"}]
  /\ phase \in [Threads -> Phases]
  /\ wait_status \in [Threads -> Statuses]
  /\ unwaited \in [Threads -> BOOLEAN]
  /\ dequeued \in [Threads -> BOOLEAN]
  /\ pc \in [Threads -> PCs]
  /\ wobj \in [Threads -> Objects \cup {NULL}]
  /\ timed \in [Threads -> BOOLEAN]
  /\ timer \in [Threads -> {"UNUSED", "QUEUED", "CANCELED", "FIRED"}]
  /\ tqueued \in [Threads -> BOOLEAN]
  /\ sig \in [Objects -> Int]
  /\ \A o \in Objects \ Sems : sig[o] \in {0, 1}
  /\ list \in [Objects -> Seq(Threads)]
  /\ lock \in [Objects -> Signallers \cup {NULL}]
  /\ sobj \in [Signallers -> Objects \cup {NULL}]
  /\ sall \in [Signallers -> BOOLEAN]
  /\ swoken \in [Signallers -> Nat]
  /\ issued \in [Objects -> Nat]
  /\ granted \in [Objects -> Nat]
  /\ discarded \in [Objects -> Nat]
  /\ swallowed \in [Objects -> Nat]
  /\ overruns \in [Objects -> Nat]
  /\ got \in [Threads -> Nat]
  /\ result \in [Threads -> Statuses]

\* A wait block is on a list exactly while its thread is in a wait on that
\* object and no signal unlinked it (WB_DEQUEUED): wb_dequeue never unlinks
\* a block that is not linked, and none is left behind when sched_wait
\* returns and the block is reused.
LinkedBlocks ==
  /\ \A o \in Objects : IsInjective(list[o])
  /\ \A o \in Objects, t \in Threads :
       t \in ToSet(list[o]) <=>
         /\ wobj[t] = o
         /\ pc[t] \notin {"run", "check", "disarm", "uninstall"}
         /\ ~dequeued[t]

\* The assertion of thread_unwait: a thread reached through a live block is
\* WAITING or has its wait IN_PROGRESS, never committed-but-running, aborted
\* or out of the wait.
LiveBlockIsWaiting ==
  \A o \in Objects : \A t \in ToSet(list[o]) :
    ~unwaited[t] => status[t] = "WAITING" \/ phase[t] = "IN_PROGRESS"

\* The blocks on a list are those of the waits of now, and may be unwaited.
BlocksAreExact == TypeOK /\ LinkedBlocks /\ LiveBlockIsWaiting

\* No lost wakeup at the object: while it is signaled, every block still on
\* its list belongs to a wait that already ended.
SignaledHasNoWaiter ==
  \A o \in Objects : \A t \in ToSet(list[o]) : sig[o] > 0 => unwaited[t]

\* A signal of o that was issued and neither counted nor handed out yet.
InFlight(o) == IF lock[o] # NULL /\ swoken[lock[o]] = 0 THEN 1 ELSE 0

\* Every signal of a semaphore has one fate, whatever the races of signals,
\* timeouts and resets: it is on its way, counted, consumed by exactly one
\* wait, dropped by a reset, or swallowed by a count below zero.  The count is
\* below zero, by one, only after a reset that overran an acquire, and each
\* overrun swallows at most one signal: without one, every signal that no
\* reset dropped wakes a thread or stays counted (semaphore.c, wait.c).
SemaphoreConservation ==
  \A o \in Sems :
    /\ issued[o] = Counted(o) + granted[o] + discarded[o] + swallowed[o] + InFlight(o)
    /\ swallowed[o] + Owed(o) <= overruns[o]
    /\ sig[o] >= -1

\* A wait that returns YAK_SUCCESS consumed one signal and a wait that
\* returns YAK_TIMEOUT none, also when the timer and a signal race.
OutcomeMatchesSignals ==
  \A t \in Threads : pc[t] = "run" =>
    /\ result[t] = "SUCCESS" => got[t] = 1
    /\ result[t] = "TIMEOUT" => got[t] = 0

\* The timeout timer does not outlive the wait: timer_reset's assertion holds
\* at the next wait, and a stale timeout cannot end that wait.
TimerEndsWithWait ==
  \A t \in Threads : pc[t] \in {"run", "check", "arm"} =>
    timer[t] # "QUEUED" /\ ~tqueued[t]

\* sched_wait with a timeout returns.
TimedWaitReturns ==
  \A t \in Threads : (pc[t] = "check" /\ timed[t]) ~> (pc[t] = "run")

\* A thread that was unwaited comes out of sched_wait.
UnwaitedReturns ==
  \A t \in Threads : (pc[t] # "run" /\ unwaited[t]) ~> (pc[t] = "run")

\* event_alarm on an unsignaled sync event wakes a waiter or leaves the event
\* signaled ("Wake a single waiter, signal is consumed").
AlarmIsDelivered ==
  [][\A s \in Signallers :
       sobj[s] \in SyncEvents /\ sobj'[s] = NULL =>
         swoken[s] > 0 \/ sig'[sobj[s]] > 0]_vars
=============================================================================
