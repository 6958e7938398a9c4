----------------------------- MODULE KWaitProofs -----------------------------
(***************************************************************************)
(* The blocking wait, for every set of threads, objects and signallers and *)
(* every bound on the signals.  The five properties below are not          *)
(* inductive: that a signal reaches only threads in a wait, that the timer *)
(* ends with the wait and that its outcome fits the signals it got depends *)
(* on what wait_phase, the status, WB_UNWAITED and the timer mean at each  *)
(* point of sched_wait (WaitState), and that a signal is neither lost nor  *)
(* doubled on who is inside obj_lock and how far its loop is (LockState).  *)
(***************************************************************************)
EXTENDS KWait, KernelLemmas

\* The points of sched_wait at which a block may be on its object's list,
\* and those at which the timeout timer may be armed.
LinkedPCs == PCs \ {"run", "check", "disarm", "uninstall"}
ArmedPCs == PCs \ {"run", "check", "arm", "dequeue"}

\* What the words of a thread mean at each point of sched_wait.
WaitState ==
  \A t \in Threads :
    /\ wobj[t] = NULL <=> pc[t] = "run"
    /\ status[t] = "RUNNING" <=> pc[t] # "off"
    /\ pc[t] = "check" => phase[t] = "IN_PROGRESS" /\ ~unwaited[t] /\ ~dequeued[t]
    /\ pc[t] \in {"arm", "commit"} =>
         phase[t] = IF unwaited[t] THEN "ABORTED" ELSE "IN_PROGRESS"
    /\ pc[t] = "off" => (status[t] = "WAITING" <=> ~unwaited[t])
    /\ pc[t] \in {"abort", "dequeue", "woken", "disarm", "uninstall"} => unwaited[t]

\* The timer and its block are armed for a timed wait only, and what is armed
\* is taken back before the wait returns.
TimerState ==
  \A t \in Threads :
    /\ timer[t] = "QUEUED" \/ tqueued[t] => timed[t] /\ pc[t] \in ArmedPCs
    /\ pc[t] = "uninstall" => ~tqueued[t]

\* What the current wait of a thread has consumed, and what the last returned.
OutcomeState ==
  /\ \A t \in Threads : pc[t] # "run" =>
       got[t] = IF unwaited[t] /\ wait_status[t] = "SUCCESS" THEN 1 ELSE 0
  /\ OutcomeMatchesSignals

\* The signaller inside obj_lock, and how far its loop is.
LockState ==
  /\ \A o \in Objects, s \in Signallers : lock[o] = s <=> sobj[s] = o
  /\ \A s \in Signallers :
       /\ sobj[s] \in Sems => ~sall[s] /\ swoken[s] \in {0, 1}
       /\ sobj[s] \in NotifEvents => sall[s]

IInv == /\ TypeOK /\ LinkedBlocks /\ WaitState /\ TimerState /\ OutcomeState
        /\ LockState /\ SignaledHasNoWaiter /\ SemaphoreConservation

\* The signals of a semaphore that have not reached a thread and are not on
\* their way, and the account of the resets that overran an acquire.
Kept(p) == Counted(p) + discarded[p] + swallowed[p]
Paid(p) == swallowed[p] + Owed(p) <= overruns[p] /\ sig[p] >= -1
-----------------------------------------------------------------------------
\* The actions on a thread, by what they touch besides the thread's own words:
\* nothing, its object, or the list of its object.
OwnStep(t) ==
  \/ \E o \in Objects, to \in BOOLEAN : BeginWait(t, o, to)
  \/ SetTimeout(t) \/ Commit(t) \/ SeeAbort(t) \/ AbortTimeout(t)
  \/ Dispatch(t) \/ WokenDisarm(t) \/ WokenReturn(t) \/ TimerFire(t)

Acquire(t) == CheckSignaled(t) \/ semaphore_reset_RacingAcquire(t)

ListStep(t) == CheckEnqueue(t) \/ AbortDequeue(t) \/ WokenDequeue(t)

\* The actions on an object that leave its list and the threads alone.
SignalStep ==
  \/ \E s \in Signallers :
       (\E o \in Objects, all \in BOOLEAN : SignalBegin(s, o, all)) \/ SignalEnd(s)
  \/ \E o \in Objects : AlarmLatch(o) \/ event_clear(o) \/ semaphore_reset(o)

\* Every step is one of these.
LEMMA NextCases ==
  ASSUME Next
  PROVE  \/ \E t \in Threads : OwnStep(t) \/ Acquire(t) \/ ListStep(t)
         \/ \E s \in Signallers : SignalSkip(s) \/ SignalWake(s)
         \/ SignalStep
BY DEF Next, ThreadStep, SignallerStep, OwnStep, Acquire, ListStep, SignalStep,
       semaphore_reset_RacingSignal

\* SemaphoreConservation in these terms, before a step ...
LEMMA Conserved ==
  ASSUME TypeOK, SemaphoreConservation, NEW p \in Sems
  PROVE  /\ p \in Objects /\ Paid(p)
         /\ issued[p] = Kept(p) + granted[p] + InFlight(p)
         /\ issued[p] \in Int /\ Kept(p) \in Int /\ granted[p] \in Int
         /\ InFlight(p) \in {0, 1} /\ lock[p] \in Signallers \cup {NULL}
<1>1. p \in Objects
  BY DEF Objects
<1>2. /\ sig[p] \in Int /\ issued[p] \in Nat /\ granted[p] \in Nat /\ discarded[p] \in Nat
      /\ swallowed[p] \in Nat /\ lock[p] \in Signallers \cup {NULL}
  BY <1>1 DEF TypeOK
<1>3. InFlight(p) \in {0, 1} /\ Counted(p) \in Nat
  BY <1>2 DEF InFlight, Counted
<1>4. /\ issued[p] = Counted(p) + granted[p] + discarded[p] + swallowed[p] + InFlight(p)
      /\ Paid(p)
  BY DEF SemaphoreConservation, Paid
<1> QED BY <1>1, <1>2, <1>3, <1>4 DEF Kept

\* ... and after it.
LEMMA ConservedNext ==
  ASSUME TypeOK',
         \A p \in Sems : issued'[p] = Kept(p)' + granted'[p] + InFlight(p)' /\ Paid(p)'
  PROVE  SemaphoreConservation'
<1> SUFFICES ASSUME NEW p \in Sems
             PROVE  /\ issued'[p] = Counted(p)' + granted'[p] + discarded'[p] + swallowed'[p]
                                      + InFlight(p)'
                    /\ Paid(p)'
  BY DEF SemaphoreConservation, Paid
<1>1. p \in Objects
  BY DEF Objects
<1>2. /\ sig'[p] \in Int /\ granted'[p] \in Nat /\ discarded'[p] \in Nat
      /\ swallowed'[p] \in Nat
  BY <1>1 DEF TypeOK
<1>3. InFlight(p)' \in {0, 1} /\ Counted(p)' \in Nat
  BY <1>2 DEF InFlight, Counted
<1> QED BY <1>2, <1>3 DEF Kept

\* A step that changes none of these words changes nothing of that.
LEMMA KeptRests ==
  ASSUME NEW p, sig'[p] = sig[p], discarded'[p] = discarded[p],
         swallowed'[p] = swallowed[p], overruns'[p] = overruns[p]
  PROVE  Kept(p)' = Kept(p) /\ (Paid(p)' <=> Paid(p))
BY DEF Kept, Paid, Counted, Owed

\* The words of a thread keep their types.
LEMMA OwnType ==
  ASSUME TypeOK, NEW t \in Threads, OwnStep(t)
  PROVE  TypeOK'
<1> USE DEF TypeOK, Phases, Statuses, PCs, Goto, Return, objVars, sigVars, timerVars, history, lossVars
<1>1. ASSUME NEW o \in Objects, NEW to \in BOOLEAN, BeginWait(t, o, to) PROVE TypeOK'
  BY <1>1 DEF BeginWait
<1>2. CASE SetTimeout(t)
  BY ZenonT(40), <1>2 DEF SetTimeout
<1>3. CASE SeeAbort(t)
  BY <1>3 DEF SeeAbort
<1>4. CASE Commit(t)
  BY <1>4 DEF Commit
<1>5. CASE AbortTimeout(t)
  BY ZenonT(40), <1>5 DEF AbortTimeout, CancelTimeout, timer_uninstall
<1>6. CASE WokenDisarm(t)
  BY <1>6 DEF WokenDisarm
<1>7. CASE WokenReturn(t)
  BY <1>7 DEF WokenReturn, timer_uninstall
<1>8. CASE Dispatch(t)
  BY <1>8 DEF Dispatch
<1>9. CASE TimerFire(t)
  BY ZenonT(40), <1>9 DEF TimerFire, TimerMayFire, thread_unwait
<1> QED BY ZenonT(40), <1>1, <1>2, <1>3, <1>4, <1>5, <1>6, <1>7, <1>8, <1>9 DEF OwnStep

\* So do those of the thread and of the object when the object is acquired.
LEMMA AcquireType ==
  ASSUME TypeOK, WaitState, NEW t \in Threads, Acquire(t)
  PROVE  TypeOK' /\ wobj[t] \in Objects
<1>1. pc[t] = "check" /\ sig[wobj[t]] > 0
  BY DEF Acquire, CheckSignaled, semaphore_reset_RacingAcquire
<1>2. wobj[t] \in Objects
  BY <1>1 DEF TypeOK, WaitState
<1> USE <1>2 DEF TypeOK, Phases, Statuses, PCs, Goto, Return, CountGrant, objVars, sigVars,
                 timerVars, history, lossVars
<1>3. CASE CheckSignaled(t)
  BY SMTT(30), <1>1, <1>3 DEF CheckSignaled, IsSync
<1>4. CASE semaphore_reset_RacingAcquire(t)
  <2>1. sig' \in [Objects -> Int] /\ \A o \in Objects \ Sems : sig'[o] \in {0, 1}
    <3>1. \E n \in {-1, sig[wobj[t]] - 1} : sig' = [sig EXCEPT ![wobj[t]] = n]
      BY <1>4 DEF semaphore_reset_RacingAcquire
    <3>2. wobj[t] \in Sems /\ sig \in [Objects -> Int]
      BY <1>4 DEF semaphore_reset_RacingAcquire
    <3> QED BY SMTT(30), <3>1, <3>2, <1>2
  <2>2. granted' \in [Objects -> Nat]
    BY <1>4 DEF semaphore_reset_RacingAcquire
  <2>6. discarded' \in [Objects -> Nat] /\ overruns' \in [Objects -> Nat]
    <3>1. sig[wobj[t]] \in Int /\ sig[wobj[t]] - 1 \in Nat
      BY <1>1
    <3>2. /\ discarded \in [Objects -> Nat] /\ overruns \in [Objects -> Nat]
          /\ \/ /\ discarded' = [discarded EXCEPT ![wobj[t]] = @ + sig[wobj[t]] - 1]
                /\ overruns' = [overruns EXCEPT ![wobj[t]] = @ + 1]
             \/ UNCHANGED <<discarded, overruns>>
      BY <1>4 DEF semaphore_reset_RacingAcquire
    <3>3. CASE UNCHANGED <<discarded, overruns>>
      BY <3>2, <3>3
    <3>4. ASSUME NEW n \in Int, n - 1 \in Nat,
                 discarded' = [discarded EXCEPT ![wobj[t]] = @ + n - 1],
                 overruns' = [overruns EXCEPT ![wobj[t]] = @ + 1]
          PROVE  discarded' \in [Objects -> Nat] /\ overruns' \in [Objects -> Nat]
      <4>1. \A i \in Nat : i + n - 1 \in Nat /\ i + 1 \in Nat
        BY <3>4
      <4> HIDE DEF TypeOK
      <4> QED BY SMTT(30), <4>1, <3>2, <3>4, <1>2
    <3> QED BY <3>1, <3>2, <3>3, <3>4
  <2>3. phase' \in [Threads -> Phases] /\ got' \in [Threads -> Nat]
    BY <1>4 DEF semaphore_reset_RacingAcquire
  <2>4. /\ pc' \in [Threads -> PCs] /\ wobj' \in [Threads -> Objects \cup {NULL}]
        /\ timed' \in [Threads -> BOOLEAN] /\ result' \in [Threads -> Statuses]
    BY <1>4 DEF semaphore_reset_RacingAcquire
  <2>5. UNCHANGED <<status, wait_status, unwaited, dequeued, timer, tqueued, list, lock,
                    sobj, sall, swoken, issued, swallowed>>
    BY <1>4 DEF semaphore_reset_RacingAcquire
  <2> QED BY <2>1, <2>2, <2>3, <2>4, <2>5, <2>6
<1> QED BY <1>3, <1>4 DEF Acquire

\* A block is queued where it is not linked and unlinked where it is.
LEMMA ListType ==
  ASSUME TypeOK, LinkedBlocks, WaitState, NEW t \in Threads, ListStep(t)
  PROVE  /\ TypeOK' /\ wobj[t] \in Objects
         /\ \A o \in Objects : IsInjective(list'[o])
         /\ \A o \in Objects : o # wobj[t] => list'[o] = list[o]
         /\ pc[t] = "check" => ToSet(list'[wobj[t]]) = ToSet(list[wobj[t]]) \cup {t}
         /\ pc[t] # "check" => ToSet(list'[wobj[t]]) = ToSet(list[wobj[t]]) \ {t}
<1> DEFINE o == wobj[t]
<1>1. pc[t] \in {"check", "dequeue", "woken"}
  BY DEF ListStep, CheckEnqueue, AbortDequeue, WokenDequeue
<1>2. o \in Objects
  BY <1>1 DEF TypeOK, WaitState
<1>3. list[o] \in Seq(Threads) /\ IsInjective(list[o])
  BY <1>2 DEF TypeOK, LinkedBlocks
<1> HIDE DEF o
<1>4. t \in ToSet(list[o]) <=> pc[t] \in {"dequeue", "woken"} /\ ~dequeued[t]
  BY <1>1, <1>2 DEF LinkedBlocks, o
<1>5. PICK q \in Seq(Threads) :
        /\ list' = [list EXCEPT ![o] = q] /\ IsInjective(q)
        /\ pc[t] = "check" => ToSet(q) = ToSet(list[o]) \cup {t}
        /\ pc[t] # "check" => ToSet(q) = ToSet(list[o]) \ {t}
  <2>1. CASE CheckEnqueue(t)
    <3>1. pc[t] = "check" /\ list' = [list EXCEPT ![o] = Append(list[o], t)]
      BY <2>1 DEF CheckEnqueue, o
    <3> QED BY <3>1, <1>3, <1>4, AppendProps
  <2>2. CASE AbortDequeue(t) \/ WokenDequeue(t)
    <3>1. /\ pc[t] \in {"dequeue", "woken"}
          /\ list' = [list EXCEPT ![o] = IF dequeued[t] THEN list[o] ELSE Unlink(list[o], t)]
      BY <2>2 DEF AbortDequeue, WokenDequeue, dequeue_block, o
    <3>2. CASE dequeued[t]
      <4>1. ToSet(list[o]) = ToSet(list[o]) \ {t}
        BY <3>2, <1>4
      <4> QED BY <3>1, <3>2, <4>1, <1>3
    <3>3. CASE ~dequeued[t]
      BY <3>1, <3>3, <1>3, <1>4, UnlinkProps
    <3> QED BY <3>2, <3>3
  <2> QED BY <2>1, <2>2 DEF ListStep
<1>6. TypeOK'
  <2> USE DEF TypeOK, Phases, Statuses, PCs, Goto, Return, sigVars, timerVars, history, lossVars
  <2>1. CASE CheckEnqueue(t)
    BY SMTT(30), <1>2, <1>5, <2>1 DEF CheckEnqueue
  <2>2. CASE AbortDequeue(t)
    BY <1>2, <1>5, <2>2 DEF AbortDequeue
  <2>3. CASE WokenDequeue(t)
    BY <1>2, <1>5, <2>3 DEF WokenDequeue
  <2> QED BY <2>1, <2>2, <2>3 DEF ListStep
<1>7. list'[o] = q /\ \A p \in Objects : p # o => list'[p] = list[p]
  BY <1>2, <1>5 DEF TypeOK
<1> QED BY <1>2, <1>5, <1>6, <1>7 DEF o, LinkedBlocks

\* A signaller's round takes the first block, and no other, off the list.
LEMMA RoundType ==
  ASSUME TypeOK, LinkedBlocks, LockState, NEW s \in Signallers,
         SignalSkip(s) \/ SignalWake(s)
  PROVE  LET o == sobj[s]
             t == Head(list[o])
         IN  /\ TypeOK' /\ o \in Objects /\ t \in Threads /\ t \in ToSet(list[o])
             /\ lock[o] = s
             /\ \A p \in Objects : IsInjective(list'[p])
             /\ \A p \in Objects : p # o => list'[p] = list[p]
             /\ ToSet(list'[o]) = ToSet(list[o]) \ {t}
             /\ dequeued' = [dequeued EXCEPT ![t] = TRUE]
<1> DEFINE o == sobj[s]
           t == Head(list[o])
<1>1. o # NULL /\ list[o] # <<>>
  BY DEF SignalSkip, SignalWake, MoreToWake
<1>2. o \in Objects /\ list[o] \in Seq(Threads) /\ IsInjective(list[o]) /\ lock[o] = s
  BY <1>1 DEF TypeOK, LinkedBlocks, LockState
<1>3. /\ t \in Threads /\ t \in ToSet(list[o])
      /\ Tail(list[o]) \in Seq(Threads) /\ IsInjective(Tail(list[o]))
      /\ ToSet(Tail(list[o])) = ToSet(list[o]) \ {t}
  BY <1>1, <1>2, TailProps
<1>4. /\ list' = [list EXCEPT ![o] = Tail(list[o])]
      /\ dequeued' = [dequeued EXCEPT ![t] = TRUE]
  BY DEF SignalSkip, SignalWake
<1> HIDE DEF o, t
<1>5. TypeOK'
  <2> USE DEF TypeOK, Phases, Statuses, sigVars, timerVars, history, lossVars
  <2>1. CASE SignalSkip(s)
    <3>1. UNCHANGED <<status, phase, wait_status, unwaited, pc, wobj, timed, timer, tqueued,
                      sig, lock, sobj, sall, swoken, issued, granted, discarded, swallowed,
                      overruns, got, result>>
      BY <2>1 DEF SignalSkip
    <3> QED BY <1>2, <1>3, <1>4, <3>1
  <2>2. CASE SignalWake(s)
    <3>1. granted' \in [Objects -> Nat]
      BY <2>2 DEF SignalWake, CountGrant
    <3>2. /\ thread_unwait(t, "SUCCESS") /\ got' = [got EXCEPT ![t] = @ + 1]
          /\ swoken' = [swoken EXCEPT ![s] = @ + 1]
          /\ UNCHANGED <<pc, wobj, timed, timer, tqueued, sig, lock, sobj, sall, issued,
                         discarded, swallowed, overruns, result>>
      BY <2>2 DEF SignalWake, o, t
    <3>3. /\ status' \in [Threads -> {"RUNNING", "WAITING", "READY"}]
          /\ phase' \in [Threads -> Phases] /\ wait_status' \in [Threads -> Statuses]
          /\ unwaited' \in [Threads -> BOOLEAN]
      BY <1>3, <3>2 DEF thread_unwait
    <3>4. /\ got' \in [Threads -> Nat] /\ swoken' \in [Signallers -> Nat]
          /\ list' \in [Objects -> Seq(Threads)] /\ dequeued' \in [Threads -> BOOLEAN]
      BY SMTT(30), <1>2, <1>3, <1>4, <3>2
    <3> QED BY <3>1, <3>2, <3>3, <3>4
  <2> QED BY <2>1, <2>2
<1>6. list'[o] = Tail(list[o]) /\ \A p \in Objects : p # o => list'[p] = list[p]
  BY <1>2, <1>4 DEF TypeOK
<1> QED BY <1>2, <1>3, <1>4, <1>5, <1>6 DEF o, t, LinkedBlocks

\* The words of an object keep their types.
LEMMA SignalType ==
  ASSUME TypeOK, SignalStep
  PROVE  TypeOK'
<1> USE DEF TypeOK, threadVars, timerVars, objVars, sigVars, history, lossVars
<1>1. ASSUME NEW s \in Signallers, NEW o \in Objects, NEW all \in BOOLEAN, SignalBegin(s, o, all)
      PROVE  TypeOK'
  BY SMTT(30), <1>1 DEF SignalBegin
<1>2. ASSUME NEW s \in Signallers, SignalEnd(s) PROVE TypeOK'
  <2>1. sobj[s] \in Objects
    BY <1>2 DEF SignalEnd
  <2>2. SignalCount(s) \in Int /\ (sobj[s] \notin Sems => SignalCount(s) \in {0, 1})
    BY <2>1 DEF SignalCount
  <2>3. swallowed' \in [Objects -> Nat]
    BY <1>2, <2>1 DEF SignalEnd, CountSwallowed
  <2>4. /\ sig' = [sig EXCEPT ![sobj[s]] = SignalCount(s)] /\ lock' = [lock EXCEPT ![sobj[s]] = NULL]
        /\ sobj' = [sobj EXCEPT ![s] = NULL] /\ sall' = [sall EXCEPT ![s] = FALSE]
        /\ swoken' = [swoken EXCEPT ![s] = 0]
        /\ UNCHANGED <<status, phase, wait_status, unwaited, dequeued, pc, wobj, timed, timer,
                       tqueued, list, issued, granted, discarded, overruns, got, result>>
    BY <1>2 DEF SignalEnd
  <2> QED BY SMTT(30), <2>1, <2>2, <2>3, <2>4
<1>3. ASSUME NEW o \in Objects, AlarmLatch(o) PROVE TypeOK'
  <2>1. /\ o \notin Sems /\ sig' = [sig EXCEPT ![o] = IF sig[o] = 0 THEN 1 ELSE sig[o]]
        /\ issued' = [issued EXCEPT ![o] = issued[o] + 1]
        /\ UNCHANGED <<status, phase, wait_status, unwaited, dequeued, pc, wobj, timed, timer,
                       tqueued, list, lock, sobj, sall, swoken, granted, discarded, swallowed,
                       overruns, got, result>>
    BY <1>3 DEF AlarmLatch
  <2> QED BY SMTT(30), <2>1
<1>4. ASSUME NEW o \in Objects, event_clear(o) PROVE TypeOK'
  BY <1>4 DEF event_clear
<1>5. ASSUME NEW o \in Objects, semaphore_reset(o) PROVE TypeOK'
  <2>1. sig[o] \in Int /\ Counted(o) \in Nat
    BY DEF Counted
  <2>2. discarded' \in [Objects -> Nat]
    BY <1>5, <2>1 DEF semaphore_reset
  <2> QED BY SMTT(30), <1>5, <2>2 DEF semaphore_reset
<1> QED BY ZenonT(40), <1>1, <1>2, <1>3, <1>4, <1>5 DEF SignalStep
-----------------------------------------------------------------------------
\* A step of a thread on its own words keeps what they mean ...
LEMMA OwnWords ==
  ASSUME TypeOK, WaitState, TimerState, OutcomeState, NEW t \in Threads, OwnStep(t)
  PROVE  WaitState' /\ TimerState' /\ OutcomeState'
<1> USE WaitAssumption DEF TypeOK, WaitState, TimerState, OutcomeState, OutcomeMatchesSignals,
        Phases, Statuses, PCs, ArmedPCs, Goto, Return, timerVars, history, lossVars
<1>1. ASSUME NEW o \in Objects, NEW to \in BOOLEAN, BeginWait(t, o, to)
      PROVE  WaitState' /\ TimerState' /\ OutcomeState'
  BY <1>1 DEF BeginWait
<1>2. CASE SetTimeout(t)
  BY <1>2 DEF SetTimeout
<1>3. CASE SeeAbort(t)
  BY <1>3 DEF SeeAbort
<1>4. CASE Commit(t)
  BY <1>4 DEF Commit
<1>5. CASE AbortTimeout(t)
  BY <1>5 DEF AbortTimeout, CancelTimeout, timer_uninstall
<1>6. CASE WokenDisarm(t)
  BY <1>6 DEF WokenDisarm
<1>7. CASE WokenReturn(t)
  BY <1>7 DEF WokenReturn, timer_uninstall
<1>8. CASE Dispatch(t)
  BY <1>8 DEF Dispatch
<1>9. CASE TimerFire(t)
  <2>1. /\ pc[t] = "off" /\ timer' = [timer EXCEPT ![t] = "FIRED"]
        /\ tqueued' = [tqueued EXCEPT ![t] = FALSE]
        /\ UNCHANGED <<pc, wobj, timed, dequeued, got, result>>
    BY <1>9 DEF TimerFire, TimerMayFire
  <2>2. CASE UNCHANGED <<status, phase, wait_status, unwaited>>
    BY <2>1, <2>2
  <2>3. CASE ~unwaited[t] /\ thread_unwait(t, "TIMEOUT")
    <3>1. status[t] = "WAITING" /\ got[t] = 0
      BY <2>1, <2>3
    <3>2. /\ status' = [status EXCEPT ![t] = "READY"]
          /\ wait_status' = [wait_status EXCEPT ![t] = "TIMEOUT"]
          /\ unwaited' = [unwaited EXCEPT ![t] = TRUE]
          /\ phase' = phase
      BY <2>3, <3>1 DEF thread_unwait
    <3> QED BY <2>1, <3>1, <3>2
  <2> QED BY <1>9, <2>2, <2>3 DEF TimerFire
<1> QED BY <1>1, <1>2, <1>3, <1>4, <1>5, <1>6, <1>7, <1>8, <1>9 DEF OwnStep

\* ... and is no business of the objects: a thread leaves a wait with its
\* block off the list, and begins one with it off.
LEMMA OwnObjects ==
  ASSUME IInv, NEW t \in Threads, OwnStep(t)
  PROVE  LinkedBlocks' /\ LockState' /\ SignaledHasNoWaiter' /\ SemaphoreConservation'
<1> USE DEF IInv
<1>1. UNCHANGED <<sig, list, lock, sobj, sall, swoken, issued, granted, discarded, swallowed,
                  overruns>>
  BY DEF OwnStep, BeginWait, SetTimeout, Commit, SeeAbort, AbortTimeout, Dispatch,
         WokenDisarm, WokenReturn, TimerFire, objVars, sigVars, history, lossVars
<1> DEFINE Moves ==
      /\ \A u \in Threads : u # t =>
           /\ pc'[u] = pc[u] /\ wobj'[u] = wobj[u]
           /\ dequeued'[u] = dequeued[u] /\ unwaited'[u] = unwaited[u]
      /\ \/ pc[t] = "run" /\ pc'[t] = "check"
         \/ pc[t] \in {"disarm", "uninstall"} /\ pc'[t] \in {"run", "uninstall"}
         \/ /\ pc[t] \in LinkedPCs /\ pc'[t] \in LinkedPCs
            /\ wobj'[t] = wobj[t] /\ dequeued'[t] = dequeued[t]
            /\ unwaited[t] => unwaited'[t]
<1>2. Moves
  <2> USE DEF TypeOK, PCs, LinkedPCs, Goto, Return
  <2>1. ASSUME NEW o \in Objects, NEW to \in BOOLEAN, BeginWait(t, o, to) PROVE Moves
    BY <2>1 DEF BeginWait
  <2>2. CASE SetTimeout(t) \/ SeeAbort(t) \/ Commit(t) \/ Dispatch(t)
    BY <2>2 DEF SetTimeout, SeeAbort, Commit, Dispatch
  <2>3. CASE AbortTimeout(t)
    BY <2>3 DEF AbortTimeout
  <2>4. CASE WokenDisarm(t) \/ WokenReturn(t)
    BY <2>4 DEF WokenDisarm, WokenReturn
  <2>5. CASE TimerFire(t)
    BY <2>5 DEF TimerFire, TimerMayFire, thread_unwait
  <2> QED BY <2>1, <2>2, <2>3, <2>4, <2>5 DEF OwnStep
<1> HIDE DEF Moves
<1>3. LinkedBlocks'
  <2>1. ASSUME NEW o \in Objects, NEW u \in Threads
        PROVE  u \in ToSet(list[o]) <=> /\ wobj'[u] = o
                                        /\ pc'[u] \notin {"run", "check", "disarm", "uninstall"}
                                        /\ ~dequeued'[u]
    <3>1. u \in ToSet(list[o]) <=> /\ wobj[u] = o
                                   /\ pc[u] \notin {"run", "check", "disarm", "uninstall"}
                                   /\ ~dequeued[u]
      BY DEF LinkedBlocks
    <3> QED BY <3>1, <1>2 DEF Moves, LinkedPCs
  <2>2. \A o \in Objects : IsInjective(list[o])
    BY DEF LinkedBlocks
  <2> QED BY <1>1, <2>1, <2>2 DEF LinkedBlocks
<1>4. SignaledHasNoWaiter'
  <2>1. ASSUME NEW o \in Objects, NEW u \in ToSet(list[o]), unwaited[u] PROVE unwaited'[u]
    <3>1. u \in Threads
      BY ListAt DEF TypeOK
    <3>2. pc[u] \notin {"run", "check", "disarm", "uninstall"}
      BY <3>1 DEF LinkedBlocks
    <3> QED BY <2>1, <3>1, <3>2, <1>2 DEF Moves
  <2> QED BY <1>1, <2>1 DEF SignaledHasNoWaiter
<1>5. LockState' /\ SemaphoreConservation'
  BY <1>1 DEF LockState, SemaphoreConservation, InFlight, Counted, Owed
<1> QED BY <1>3, <1>4, <1>5

\* A thread that finds its object signaled takes one signal of it; nobody is
\* inside obj_lock, and no block of the thread is on the list.
LEMMA AcquireIInv ==
  ASSUME IInv, NEW t \in Threads, Acquire(t)
  PROVE  IInv'
<1> USE DEF IInv
<1> DEFINE o == wobj[t]
<1>1. TypeOK' /\ o \in Objects
  BY AcquireType
<1>2. /\ pc[t] = "check" /\ lock[o] = NULL /\ sig[o] > 0
      /\ pc' = [pc EXCEPT ![t] = "run"] /\ wobj' = [wobj EXCEPT ![t] = NULL]
      /\ timed' = [timed EXCEPT ![t] = FALSE] /\ result' = [result EXCEPT ![t] = "SUCCESS"]
      /\ got' = [got EXCEPT ![t] = @ + 1] /\ phase' = [phase EXCEPT ![t] = "NONE"]
      /\ granted' = [granted EXCEPT ![o] = IF o \in Sems THEN @ + 1 ELSE @]
      /\ UNCHANGED <<status, wait_status, unwaited, dequeued, timer, tqueued, list, lock,
                     sobj, sall, swoken, issued>>
  BY DEF Acquire, CheckSignaled, semaphore_reset_RacingAcquire, Goto, Return, CountGrant,
         timerVars, sigVars
<1> HIDE DEF o
<1>3. /\ sig \in [Objects -> Int] /\ sig' \in [Objects -> Int]
      /\ discarded \in [Objects -> Nat] /\ swallowed \in [Objects -> Nat]
      /\ overruns \in [Objects -> Nat] /\ granted \in [Objects -> Nat]
  BY <1>1 DEF TypeOK
<1>a. /\ \A p \in Objects : p # o => Kept(p)' = Kept(p) /\ (Paid(p)' <=> Paid(p))
      /\ \A p \in Objects : p # o => sig'[p] = sig[p]
      /\ sig'[o] <= sig[o]
      /\ \A p \in Sems : p = o /\ Paid(p) => Kept(p)' + 1 = Kept(p) /\ Paid(p)'
  <2>1. CASE CheckSignaled(t)
    <3>1. /\ sig' = [sig EXCEPT ![o] = IF IsSync(o) THEN sig[o] - 1 ELSE sig[o]]
          /\ UNCHANGED <<discarded, swallowed, overruns>>
      BY <2>1 DEF CheckSignaled, o, lossVars
    <3>2. /\ \A p \in Objects : p # o => sig'[p] = sig[p]
          /\ sig'[o] = IF IsSync(o) THEN sig[o] - 1 ELSE sig[o]
      BY <3>1, <1>1, <1>3
    <3>3. sig[o] \in Nat \ {0} /\ discarded[o] \in Nat /\ swallowed[o] \in Nat /\ overruns[o] \in Nat
      BY <1>1, <1>2, <1>3
    <3>4. ASSUME NEW p \in Sems, p = o, Paid(p) PROVE Kept(p)' + 1 = Kept(p) /\ Paid(p)'
      <4>1. sig[p] \in Nat \ {0} /\ discarded[p] \in Nat /\ swallowed[p] \in Nat /\ overruns[p] \in Nat
        BY <3>3, <3>4
      <4>2. sig'[p] = sig[p] - 1 /\ UNCHANGED <<discarded, swallowed, overruns>>
        BY <3>1, <3>2, <3>4, <1>1 DEF IsSync
      <4> HIDE DEF IInv
      <4> QED BY <4>1, <4>2, <3>4 DEF Kept, Paid, Counted, Owed
    <3> QED BY <3>1, <3>2, <3>3, <3>4, KeptRests
  <2>2. CASE semaphore_reset_RacingAcquire(t)
    <3>1. /\ swallowed' = swallowed
          /\ \/ /\ sig' = [sig EXCEPT ![o] = -1]
                /\ discarded' = [discarded EXCEPT ![o] = discarded[o] + sig[o] - 1]
                /\ overruns' = [overruns EXCEPT ![o] = overruns[o] + 1]
             \/ sig' = [sig EXCEPT ![o] = sig[o] - 1] /\ UNCHANGED <<discarded, overruns>>
      BY <2>2 DEF semaphore_reset_RacingAcquire, o
    <3>2. \A p \in Objects : p # o => /\ sig'[p] = sig[p] /\ discarded'[p] = discarded[p]
                                     /\ swallowed'[p] = swallowed[p] /\ overruns'[p] = overruns[p]
      BY <3>1, <1>1, <1>3
    <3>3. sig[o] \in Nat \ {0} /\ discarded[o] \in Nat /\ swallowed[o] \in Nat /\ overruns[o] \in Nat
      BY <1>1, <1>2, <1>3
    <3>4. /\ swallowed'[o] = swallowed[o]
          /\ \/ /\ sig'[o] = -1 /\ discarded'[o] = discarded[o] + sig[o] - 1
                /\ overruns'[o] = overruns[o] + 1
             \/ sig'[o] = sig[o] - 1 /\ discarded'[o] = discarded[o] /\ overruns'[o] = overruns[o]
      BY <3>1, <1>1, <1>3
    <3>5. ASSUME NEW p \in Sems, p = o, Paid(p) PROVE Kept(p)' + 1 = Kept(p) /\ Paid(p)'
      <4>1. sig[p] \in Nat \ {0} /\ discarded[p] \in Nat /\ swallowed[p] \in Nat /\ overruns[p] \in Nat
        BY <3>3, <3>5
      <4>2. /\ swallowed'[p] = swallowed[p]
            /\ \/ /\ sig'[p] = -1 /\ discarded'[p] = discarded[p] + sig[p] - 1
                  /\ overruns'[p] = overruns[p] + 1
               \/ /\ sig'[p] = sig[p] - 1 /\ discarded'[p] = discarded[p]
                  /\ overruns'[p] = overruns[p]
        BY <3>4, <3>5
      <4> HIDE DEF IInv
      <4> QED BY <4>1, <4>2, <3>5 DEF Kept, Paid, Counted, Owed
    <3>6. sig'[o] <= sig[o]
      BY <3>3, <3>4
    <3> QED BY <3>2, <3>5, <3>6, KeptRests
  <2> QED BY <2>1, <2>2 DEF Acquire
<1>4. LinkedBlocks'
  <2>1. ASSUME NEW p \in Objects, NEW u \in Threads
        PROVE  u \in ToSet(list[p]) <=> /\ wobj'[u] = p
                                        /\ pc'[u] \notin {"run", "check", "disarm", "uninstall"}
                                        /\ ~dequeued[u]
    BY <1>2 DEF LinkedBlocks, TypeOK, PCs
  <2> QED BY <1>2, <2>1 DEF LinkedBlocks
<1>5. WaitState'
  BY <1>2 DEF WaitState, TypeOK, PCs
<1>6. TimerState' /\ OutcomeState'
  BY <1>2 DEF TimerState, ArmedPCs, WaitState, OutcomeState, OutcomeMatchesSignals, TypeOK, PCs
<1>7. SignaledHasNoWaiter'
  <2>1. \A p \in Objects : sig'[p] > 0 => sig[p] > 0
    BY <1>1, <1>2, <1>3, <1>a
  <2> QED BY <1>2, <2>1 DEF SignaledHasNoWaiter
<1>8. LockState'
  BY <1>2 DEF LockState
<1>9. SemaphoreConservation'
  <2>1. ASSUME NEW p \in Sems
        PROVE  issued'[p] = Kept(p)' + granted'[p] + InFlight(p)' /\ Paid(p)'
    <3>1. /\ p \in Objects /\ Paid(p) /\ issued[p] = Kept(p) + granted[p] + InFlight(p)
          /\ Kept(p) \in Int /\ granted[p] \in Int /\ InFlight(p) \in {0, 1}
      BY Conserved
    <3>2. issued'[p] = issued[p] /\ InFlight(p)' = InFlight(p)
      BY <1>2 DEF InFlight
    <3>3. granted'[p] = IF p = o THEN granted[p] + 1 ELSE granted[p]
      BY <3>1, <1>2, <1>3
    <3>4. CASE p = o
      <4>1. Kept(p)' + 1 = Kept(p) /\ Paid(p)'
        BY <3>1, <3>4, <1>a
      <4>2. Kept(p)' \in Int
        <5>1. Counted(p)' \in Int /\ discarded'[p] \in Nat /\ swallowed'[p] \in Nat
          BY <3>1, <1>1 DEF TypeOK, Counted
        <5> QED BY <5>1 DEF Kept
      <4> HIDE DEF IInv
      <4> QED BY <3>1, <3>2, <3>3, <3>4, <4>1, <4>2
    <3>5. CASE p # o
      BY <3>1, <3>2, <3>3, <3>5, <1>a
    <3> QED BY <3>4, <3>5
  <2> QED BY <2>1, <1>1, ConservedNext
<1> QED BY <1>1, <1>4, <1>5, <1>6, <1>7, <1>8, <1>9

\* A thread queues its block on an unsignaled object, or takes it off: nobody
\* is inside obj_lock.
LEMMA ListIInv ==
  ASSUME IInv, NEW t \in Threads, ListStep(t)
  PROVE  IInv'
<1> USE DEF IInv
<1> DEFINE o == wobj[t]
<1>1. /\ TypeOK' /\ o \in Objects
      /\ \A p \in Objects : IsInjective(list'[p])
      /\ \A p \in Objects : p # o => list'[p] = list[p]
      /\ pc[t] = "check" => ToSet(list'[o]) = ToSet(list[o]) \cup {t}
      /\ pc[t] # "check" => ToSet(list'[o]) = ToSet(list[o]) \ {t}
  BY ListType
<1> HIDE DEF o
<1>2. /\ \/ pc[t] = "check" /\ pc' = [pc EXCEPT ![t] = "arm"] /\ sig[o] <= 0
            /\ UNCHANGED <<phase, wobj, timed, result>>
         \/ /\ pc[t] = "woken"
            /\ pc' = [pc EXCEPT ![t] = IF timed[t] THEN "disarm" ELSE "uninstall"]
            /\ UNCHANGED <<phase, wobj, timed, result>>
         \/ /\ pc[t] = "dequeue" /\ pc' = [pc EXCEPT ![t] = "run"]
            /\ wobj' = [wobj EXCEPT ![t] = NULL] /\ timed' = [timed EXCEPT ![t] = FALSE]
            /\ result' = [result EXCEPT ![t] = wait_status[t]]
            /\ phase' = [phase EXCEPT ![t] = "NONE"]
      /\ UNCHANGED <<status, wait_status, unwaited, dequeued, timer, tqueued, sig, lock,
                     sobj, sall, swoken, issued, granted, discarded, swallowed, overruns, got>>
  BY DEF ListStep, CheckEnqueue, AbortDequeue, WokenDequeue, Goto, Return, timerVars,
         sigVars, history, lossVars, o
<1>3. LinkedBlocks'
  <2>1. ASSUME NEW p \in Objects, NEW u \in Threads
        PROVE  u \in ToSet(list'[p]) <=> /\ wobj'[u] = p
                                         /\ pc'[u] \notin {"run", "check", "disarm", "uninstall"}
                                         /\ ~dequeued[u]
    <3>1. u \in ToSet(list[p]) <=> /\ wobj[u] = p
                                   /\ pc[u] \notin {"run", "check", "disarm", "uninstall"}
                                   /\ ~dequeued[u]
      BY DEF LinkedBlocks
    <3>2. CASE u = t
      <4>1. u \in ToSet(list'[p]) <=> p = o /\ pc[t] = "check"
        BY <3>1, <3>2, <1>1 DEF o
      <4>2. pc[t] = "check" => ~dequeued[t] /\ pc'[t] = "arm" /\ wobj'[t] = o
        BY <1>2 DEF WaitState, TypeOK, o
      <4>3. pc[t] # "check" => pc'[t] \in {"run", "disarm", "uninstall"}
        BY <1>2 DEF TypeOK
      <4> QED BY <4>1, <4>2, <4>3, <3>2
    <3>3. CASE u # t
      <4>1. u \in ToSet(list'[p]) <=> u \in ToSet(list[p])
        BY <3>3, <1>1
      <4>2. pc'[u] = pc[u] /\ wobj'[u] = wobj[u]
        BY <3>3, <1>2 DEF TypeOK
      <4> QED BY <3>1, <4>1, <4>2
    <3> QED BY <3>2, <3>3
  <2> QED BY <1>1, <1>2, <2>1 DEF LinkedBlocks
<1>4. WaitState'
  <2>1. CASE pc[t] = "check"
    BY <1>2, <2>1 DEF WaitState, TypeOK, PCs
  <2>2. CASE pc[t] = "woken"
    BY <1>2, <2>2 DEF WaitState, TypeOK, PCs
  <2>3. CASE pc[t] = "dequeue"
    BY <1>2, <2>3, WaitAssumption DEF WaitState, TypeOK, PCs
  <2> QED BY <1>2, <2>1, <2>2, <2>3
<1>5. TimerState' /\ OutcomeState'
  <2> USE DEF TimerState, ArmedPCs, WaitState, OutcomeState, OutcomeMatchesSignals, TypeOK, PCs
  <2>1. CASE pc[t] = "check"
    BY <1>2, <2>1
  <2>2. CASE pc[t] = "woken"
    BY <1>2, <2>2
  <2>3. CASE pc[t] = "dequeue"
    <3>1. /\ pc' = [pc EXCEPT ![t] = "run"] /\ timed' = [timed EXCEPT ![t] = FALSE]
          /\ result' = [result EXCEPT ![t] = wait_status[t]]
          /\ UNCHANGED <<wait_status, unwaited, timer, tqueued, got>>
      BY <1>2, <2>3
    <3>2. unwaited[t] /\ timer[t] # "QUEUED" /\ ~tqueued[t]
      BY <2>3
    <3> QED BY <2>3, <3>1, <3>2
  <2> QED BY <1>2, <2>1, <2>2, <2>3
<1>6. SignaledHasNoWaiter'
  <2>1. \A p \in Objects : sig[p] > 0 => ToSet(list'[p]) \subseteq ToSet(list[p])
    <3>1. sig[o] \in Int /\ (pc[t] = "check" => ~(sig[o] > 0))
      BY SMTT(30), <1>1, <1>2 DEF TypeOK
    <3> QED BY <1>1, <3>1
  <2>2. sig' = sig /\ unwaited' = unwaited
    BY <1>2
  <2> QED BY <2>1, <2>2 DEF SignaledHasNoWaiter
<1>7. LockState' /\ SemaphoreConservation'
  <2>1. UNCHANGED <<sig, lock, sobj, sall, swoken, issued, granted, discarded, swallowed,
                    overruns>>
    BY <1>2
  <2> QED BY <2>1 DEF LockState, SemaphoreConservation, InFlight, Counted, Owed
<1> QED BY <1>1, <1>3, <1>4, <1>5, <1>6, <1>7

\* A live block belongs to a wait in progress or to a committed thread.
LEMMA LiveBlocks ==
  ASSUME TypeOK, LinkedBlocks, WaitState, NEW o \in Objects, NEW t \in ToSet(list[o])
  PROVE  /\ t \in Threads /\ pc[t] \in LinkedPCs /\ wobj[t] = o /\ ~dequeued[t]
         /\ ~unwaited[t] => \/ pc[t] \in {"arm", "commit"} /\ status[t] = "RUNNING"
                                                         /\ phase[t] = "IN_PROGRESS"
                            \/ pc[t] = "off" /\ status[t] = "WAITING"
<1>1. t \in Threads
  BY ListAt DEF TypeOK
<1>2. /\ wobj[t] = o /\ ~dequeued[t]
      /\ pc[t] \notin {"run", "check", "disarm", "uninstall"} /\ pc[t] \in PCs
  BY <1>1 DEF LinkedBlocks, TypeOK
<1> QED BY <1>1, <1>2 DEF WaitState, LinkedPCs, PCs

\* One round of kobject_signal_locked drops a dead block, or unwaits the
\* thread of a live one and hands it the signal.
LEMMA RoundIInv ==
  ASSUME IInv, NEW s \in Signallers, SignalSkip(s) \/ SignalWake(s)
  PROVE  IInv'
<1> USE DEF IInv
<1> DEFINE o == sobj[s]
           t == Head(list[o])
<1>1. /\ TypeOK' /\ o \in Objects /\ t \in Threads /\ t \in ToSet(list[o])
      /\ lock[o] = s
      /\ \A p \in Objects : IsInjective(list'[p])
      /\ \A p \in Objects : p # o => list'[p] = list[p]
      /\ ToSet(list'[o]) = ToSet(list[o]) \ {t}
      /\ dequeued' = [dequeued EXCEPT ![t] = TRUE]
  BY RoundType
<1>2. /\ UNCHANGED <<pc, wobj, timed, timer, tqueued, sig, lock, sobj, sall, issued,
                     discarded, swallowed, overruns, result>>
      /\ \/ /\ unwaited[t]
            /\ UNCHANGED <<phase, status, wait_status, unwaited, swoken, granted, got>>
         \/ /\ ~unwaited[t] /\ thread_unwait(t, "SUCCESS")
            /\ (sall[s] \/ swoken[s] = 0) /\ swoken' = [swoken EXCEPT ![s] = @ + 1]
            /\ CountGrant(o) /\ got' = [got EXCEPT ![t] = @ + 1]
  BY DEF SignalSkip, SignalWake, MoreToWake, timerVars, sigVars, history, lossVars
<1> HIDE DEF o, t
<1>3. /\ pc[t] \in LinkedPCs /\ wobj[t] = o
      /\ ~unwaited[t] => \/ pc[t] \in {"arm", "commit"} /\ status[t] = "RUNNING"
                                                      /\ phase[t] = "IN_PROGRESS"
                         \/ pc[t] = "off" /\ status[t] = "WAITING"
  BY <1>1, LiveBlocks
<1>4. LinkedBlocks'
  <2>1. ASSUME NEW p \in Objects, NEW u \in Threads
        PROVE  u \in ToSet(list'[p]) <=> /\ wobj[u] = p
                                         /\ pc[u] \notin {"run", "check", "disarm", "uninstall"}
                                         /\ ~dequeued'[u]
    <3>1. u \in ToSet(list[p]) <=> /\ wobj[u] = p
                                   /\ pc[u] \notin {"run", "check", "disarm", "uninstall"}
                                   /\ ~dequeued[u]
      BY DEF LinkedBlocks
    <3>2. dequeued'[u] = (u = t \/ dequeued[u])
      BY <1>1 DEF TypeOK
    <3> QED BY <3>1, <3>2, <1>1, <1>3
  <2> QED BY <1>1, <1>2, <2>1 DEF LinkedBlocks
<1>5. \A p \in Objects : ToSet(list'[p]) \subseteq ToSet(list[p])
  BY <1>1
<1>6. CASE unwaited[t]
  <2>1. UNCHANGED <<phase, status, wait_status, unwaited, swoken, granted, got>>
    BY <1>2, <1>6
  <2>2. pc[t] # "check"
    BY <1>3 DEF LinkedPCs
  <2>3. WaitState'
    BY <1>1, <1>2, <2>1, <2>2 DEF WaitState, TypeOK
  <2>4. TimerState' /\ OutcomeState'
    BY <1>2, <2>1 DEF TimerState, OutcomeState, OutcomeMatchesSignals
  <2>5. SignaledHasNoWaiter'
    BY <1>2, <1>5, <2>1 DEF SignaledHasNoWaiter
  <2>6. LockState' /\ SemaphoreConservation'
    BY <1>2, <2>1 DEF LockState, SemaphoreConservation, InFlight, Counted, Owed
  <2> QED BY <1>1, <1>4, <2>3, <2>4, <2>5, <2>6
<1>7. CASE ~unwaited[t]
  <2>1. /\ (sall[s] \/ swoken[s] = 0) /\ swoken' = [swoken EXCEPT ![s] = @ + 1]
        /\ granted' = [granted EXCEPT ![o] = IF o \in Sems THEN @ + 1 ELSE @]
        /\ got' = [got EXCEPT ![t] = @ + 1] /\ wait_status' = [wait_status EXCEPT ![t] = "SUCCESS"]
        /\ unwaited' = [unwaited EXCEPT ![t] = TRUE]
    BY <1>2, <1>7 DEF thread_unwait, CountGrant
  <2>2. \/ /\ pc[t] \in {"arm", "commit"}
           /\ phase' = [phase EXCEPT ![t] = "ABORTED"] /\ status' = status
        \/ /\ pc[t] = "off"
           /\ phase' = phase /\ status' = [status EXCEPT ![t] = "READY"]
    BY <1>2, <1>3, <1>7 DEF thread_unwait, TypeOK
  <2>3. WaitState'
    <3>1. CASE pc[t] = "off"
      BY SMTT(30), <1>1, <1>2, <2>1, <2>2, <3>1 DEF WaitState, TypeOK, PCs
    <3>2. CASE pc[t] \in {"arm", "commit"}
      BY SMTT(30), <1>1, <1>2, <2>1, <2>2, <3>2 DEF WaitState, TypeOK, PCs
    <3> QED BY <2>2, <3>1, <3>2
  <2>4. TimerState'
    BY <1>2 DEF TimerState
  <2>5. OutcomeState'
    <3>1. pc[t] # "run" /\ got[t] = 0
      BY <1>1, <1>3, <1>7 DEF OutcomeState, LinkedPCs
    <3> QED BY <1>1, <1>2, <2>1, <3>1 DEF OutcomeState, OutcomeMatchesSignals, TypeOK
  <2>6. SignaledHasNoWaiter'
    <3>1. ASSUME NEW u \in Threads, unwaited[u] PROVE unwaited'[u]
      BY <2>1, <3>1 DEF TypeOK
    <3> QED BY <1>2, <1>5, <3>1, LiveBlocks DEF SignaledHasNoWaiter
  <2>7. /\ o \in Sems => swoken[s] = 0 /\ swoken'[s] = 1
        /\ \A r \in Signallers : r # s => swoken'[r] = swoken[r]
        /\ \A r \in Signallers : sobj[r] = o => r = s
    BY SMTT(30), <1>1, <2>1 DEF LockState, TypeOK, o
  <2>8. LockState'
    BY <1>2, <2>7 DEF LockState, o
  <2>9. SemaphoreConservation'
    <3>1. ASSUME NEW p \in Sems
          PROVE  issued'[p] = Kept(p)' + granted'[p] + InFlight(p)' /\ Paid(p)'
      <4>1. /\ issued[p] = Kept(p) + granted[p] + InFlight(p) /\ p \in Objects /\ Paid(p)
            /\ Kept(p) \in Int /\ granted[p] \in Int /\ lock[p] \in Signallers \cup {NULL}
        BY Conserved
      <4>2. Kept(p)' = Kept(p) /\ Paid(p)' /\ issued' = issued
        BY <1>2, <4>1, KeptRests
      <4>3. CASE p = o
        <5>1. granted'[p] = granted[p] + 1
          BY <4>1, <4>3, <2>1 DEF TypeOK
        <5>2. InFlight(p) = 1 /\ InFlight(p)' = 0
          BY <4>3, <1>1, <1>2, <2>7, WaitAssumption DEF InFlight
        <5> HIDE DEF IInv
        <5> QED BY <4>1, <4>2, <5>1, <5>2
      <4>4. CASE p # o
        <5>1. granted'[p] = granted[p]
          BY <4>1, <4>4, <2>1 DEF TypeOK
        <5>2. lock[p] # NULL => lock[p] # s
          BY <4>1, <4>4 DEF LockState, o
        <5>3. InFlight(p)' = InFlight(p)
          BY <1>2, <2>7, <4>1, <5>2 DEF InFlight
        <5> QED BY <4>1, <4>2, <5>1, <5>3
      <4> QED BY <4>3, <4>4
    <3> QED BY <1>1, <3>1, ConservedNext
  <2> QED BY <1>1, <1>4, <2>3, <2>4, <2>5, <2>6, <2>8, <2>9
<1> QED BY <1>6, <1>7

\* What an action on an object must show: threads, timers and lists rest.
LEMMA ObjectIInv ==
  ASSUME IInv, TypeOK', UNCHANGED <<threadVars, timerVars, list, got, result>>,
         LockState', SemaphoreConservation',
         \A o \in Objects : sig'[o] > 0 => sig[o] > 0 \/ list[o] = <<>>
  PROVE  IInv'
<1>1. UNCHANGED <<status, phase, wait_status, unwaited, dequeued, pc, wobj, timed, timer,
                  tqueued, list, got, result>>
  BY DEF threadVars, timerVars
<1>2. LinkedBlocks' /\ WaitState' /\ TimerState' /\ OutcomeState'
  BY <1>1 DEF IInv, LinkedBlocks, WaitState, TimerState, OutcomeState, OutcomeMatchesSignals
<1>3. SignaledHasNoWaiter'
  <2>1. ToSet(<<>>) = {}
    BY DEF ToSet
  <2> QED BY <1>1, <2>1 DEF IInv, SignaledHasNoWaiter
<1> QED BY <1>2, <1>3 DEF IInv

\* A signal begins and ends inside obj_lock: what it issued is in flight in
\* between, and what nobody waited for is counted at the end.
LEMMA SignalIInv ==
  ASSUME IInv, SignalStep
  PROVE  IInv'
<1>1. TypeOK'
  BY SignalType DEF IInv
<1>2. UNCHANGED <<threadVars, timerVars, list, got, result, granted>>
  BY DEF SignalStep, SignalBegin, SignalEnd, AlarmLatch, event_clear, semaphore_reset, history, lossVars
<1>3. ASSUME NEW s \in Signallers, NEW o \in Objects, NEW all \in BOOLEAN, SignalBegin(s, o, all)
      PROVE  IInv'
  <2>1. /\ sobj[s] = NULL /\ lock[o] = NULL /\ (o \in Sems => ~all)
        /\ lock' = [lock EXCEPT ![o] = s] /\ sobj' = [sobj EXCEPT ![s] = o]
        /\ sall' = [sall EXCEPT ![s] = all \/ o \in NotifEvents]
        /\ swoken' = [swoken EXCEPT ![s] = 0] /\ issued' = [issued EXCEPT ![o] = @ + 1]
        /\ UNCHANGED <<sig, discarded, swallowed, overruns>>
    BY <1>3 DEF SignalBegin, lossVars
  <2>2. LockState'
    <3>1. /\ sobj \in [Signallers -> Objects \cup {NULL}] /\ lock \in [Objects -> Signallers \cup {NULL}]
          /\ sall \in [Signallers -> BOOLEAN] /\ swoken \in [Signallers -> Nat]
          /\ \A p \in Objects, r \in Signallers : lock[p] = r <=> sobj[r] = p
          /\ NULL \notin Signallers /\ NULL \notin Objects
      BY WaitAssumption DEF IInv, TypeOK, LockState
    <3>2. \A p \in Objects, r \in Signallers : lock'[p] = r <=> sobj'[r] = p
      BY <2>1, <3>1
    <3>3. ASSUME NEW r \in Signallers, r # s
          PROVE  sobj'[r] = sobj[r] /\ sall'[r] = sall[r] /\ swoken'[r] = swoken[r]
      BY <2>1, <3>1, <3>3
    <3>4. sobj'[s] = o /\ sall'[s] = (all \/ o \in NotifEvents) /\ swoken'[s] = 0
      BY <2>1, <3>1
    <3>5. ASSUME NEW r \in Signallers
          PROVE  /\ sobj'[r] \in Sems => ~sall'[r] /\ swoken'[r] \in {0, 1}
                 /\ sobj'[r] \in NotifEvents => sall'[r]
      <4>1. CASE r = s
        <5>1. o \in Sems => ~all /\ o \notin NotifEvents
          BY <2>1, WaitAssumption
        <5> QED BY <4>1, <5>1, <3>4
      <4>2. CASE r # s
        BY <4>2, <3>3 DEF IInv, LockState
      <4> QED BY <4>1, <4>2
    <3> QED BY <3>2, <3>5 DEF LockState
  <2>3. ASSUME NEW p \in Sems
        PROVE  issued'[p] = Kept(p)' + granted'[p] + InFlight(p)' /\ Paid(p)'
    <3>1. /\ issued[p] = Kept(p) + granted[p] + InFlight(p) /\ p \in Objects /\ Paid(p)
          /\ issued[p] \in Int /\ Kept(p) \in Int /\ granted[p] \in Int
          /\ lock[p] \in Signallers \cup {NULL}
      BY Conserved DEF IInv
    <3>2. Kept(p)' = Kept(p) /\ Paid(p)' /\ granted' = granted
      BY <1>2, <2>1, <3>1, KeptRests
    <3>3. CASE p = o
      <4>1. issued'[p] = issued[p] + 1 /\ lock'[p] = s /\ swoken'[s] = 0
        BY <3>1, <3>3, <2>1 DEF IInv, TypeOK
      <4>2. InFlight(p) = 0 /\ InFlight(p)' = 1
        BY <3>3, <4>1, <2>1, WaitAssumption DEF InFlight
      <4> QED BY <3>1, <3>2, <4>1, <4>2
    <3>4. CASE p # o
      <4>1. issued'[p] = issued[p] /\ lock'[p] = lock[p] /\ lock[p] # s
        BY <3>1, <3>4, <2>1, WaitAssumption DEF IInv, TypeOK, LockState
      <4>2. InFlight(p)' = InFlight(p)
        BY <3>1, <4>1, <2>1 DEF InFlight, IInv, TypeOK
      <4> QED BY <3>1, <3>2, <4>1, <4>2
    <3> QED BY <3>3, <3>4
  <2>4. SemaphoreConservation'
    BY <1>1, <2>3, ConservedNext
  <2> QED BY <1>1, <1>2, <2>1, <2>2, <2>4, ObjectIInv
<1>4. ASSUME NEW s \in Signallers, SignalEnd(s) PROVE IInv'
  <2> DEFINE o == sobj[s]
  <2>1. /\ o # NULL /\ ~MoreToWake(s) /\ sig' = [sig EXCEPT ![o] = SignalCount(s)]
        /\ lock' = [lock EXCEPT ![o] = NULL] /\ sobj' = [sobj EXCEPT ![s] = NULL]
        /\ sall' = [sall EXCEPT ![s] = FALSE] /\ swoken' = [swoken EXCEPT ![s] = 0]
        /\ UNCHANGED <<issued, discarded, overruns>>
        /\ swallowed' = [swallowed EXCEPT ![o] =
                           IF o \in Sems /\ swoken[s] = 0 /\ sig[o] < 0 THEN swallowed[o] + 1
                                                                    ELSE swallowed[o]]
    BY <1>4 DEF SignalEnd, CountSwallowed
  <2>2. o \in Objects /\ lock[o] = s
    BY <2>1 DEF IInv, TypeOK, LockState
  <2>3. \/ o \in Sems /\ swoken[s] = 0 /\ SignalCount(s) = sig[o] + 1 /\ list[o] = <<>>
        \/ o \in NotifEvents /\ list[o] = <<>>
        \/ (o \in Sems => swoken[s] = 1) /\ SignalCount(s) = sig[o]
    BY <2>1, <2>2, WaitAssumption DEF IInv, LockState, MoreToWake, SignalCount, Objects
  <2> HIDE DEF o
  <2>4. LockState'
    <3>1. /\ sobj \in [Signallers -> Objects \cup {NULL}] /\ lock \in [Objects -> Signallers \cup {NULL}]
          /\ sall \in [Signallers -> BOOLEAN] /\ swoken \in [Signallers -> Nat]
          /\ \A p \in Objects, r \in Signallers : lock[p] = r <=> sobj[r] = p
          /\ NULL \notin Signallers /\ NULL \notin Objects
      BY WaitAssumption DEF IInv, TypeOK, LockState
    <3>2. \A p \in Objects, r \in Signallers : lock'[p] = r <=> sobj'[r] = p
      BY <2>1, <2>2, <3>1 DEF o
    <3>3. ASSUME NEW r \in Signallers, r # s
          PROVE  sobj'[r] = sobj[r] /\ sall'[r] = sall[r] /\ swoken'[r] = swoken[r]
      BY <2>1, <3>1, <3>3
    <3>4. sobj'[s] = NULL
      BY <2>1, <3>1
    <3> QED BY <3>2, <3>3, <3>4, <3>1, WaitAssumption DEF IInv, LockState, Objects
  <2>5. ASSUME NEW p \in Sems
        PROVE  issued'[p] = Kept(p)' + granted'[p] + InFlight(p)' /\ Paid(p)'
    <3>1. /\ issued[p] = Kept(p) + granted[p] + InFlight(p) /\ p \in Objects /\ Paid(p)
          /\ issued[p] \in Int /\ Kept(p) \in Int /\ granted[p] \in Int
          /\ lock[p] \in Signallers \cup {NULL}
      BY Conserved DEF IInv
    <3>2. /\ sig[p] \in Int /\ discarded[p] \in Nat /\ swallowed[p] \in Nat /\ overruns[p] \in Nat
          /\ granted' = granted /\ issued' = issued
      BY <3>1, <1>2, <2>1 DEF IInv, TypeOK
    <3>3. CASE p = o
      <4>1. sig'[p] = SignalCount(s) /\ lock'[p] = NULL
        BY <3>1, <3>3, <2>1 DEF IInv, TypeOK
      <4>2. SignalCount(s) = IF swoken[s] = 0 THEN sig[p] + 1 ELSE sig[p]
        BY <3>3, <2>3, WaitAssumption DEF Objects
      <4>3. InFlight(p)' = 0 /\ InFlight(p) = IF swoken[s] = 0 THEN 1 ELSE 0
        BY <3>3, <4>1, <2>2, WaitAssumption DEF InFlight
      <4>4. /\ discarded'[p] = discarded[p] /\ overruns'[p] = overruns[p]
            /\ swallowed'[p] = IF swoken[s] = 0 /\ sig[p] < 0 THEN swallowed[p] + 1
                                                            ELSE swallowed[p]
        BY <3>1, <3>3, <2>1 DEF IInv, TypeOK
      <4>5. CASE swoken[s] = 0
        <5>1. Kept(p)' = Kept(p) + 1 /\ Paid(p)'
          BY <3>1, <3>2, <4>1, <4>2, <4>4, <4>5 DEF Kept, Paid, Counted, Owed
        <5> QED BY <3>1, <3>2, <4>3, <4>5, <5>1
      <4>6. CASE swoken[s] # 0
        <5>1. Kept(p)' = Kept(p) /\ Paid(p)'
          BY <3>1, <4>1, <4>2, <4>4, <4>6, KeptRests
        <5> QED BY <3>1, <3>2, <4>3, <4>6, <5>1
      <4> QED BY <4>5, <4>6
    <3>4. CASE p # o
      <4>1. sig'[p] = sig[p] /\ lock'[p] = lock[p] /\ lock[p] # s /\ swallowed'[p] = swallowed[p]
        BY <3>1, <3>4, <2>1, WaitAssumption DEF IInv, TypeOK, LockState, o
      <4>2. InFlight(p)' = InFlight(p)
        BY <3>1, <4>1, <2>1 DEF InFlight, IInv, TypeOK
      <4>3. Kept(p)' = Kept(p) /\ Paid(p)'
        BY <3>1, <4>1, <2>1, KeptRests
      <4> QED BY <3>1, <3>2, <4>2, <4>3
    <3> QED BY <3>3, <3>4
  <2>6. SemaphoreConservation'
    BY <1>1, <2>5, ConservedNext
  <2>7. \A p \in Objects : sig'[p] > 0 => sig[p] > 0 \/ list[p] = <<>>
    <3>1. \A p \in Objects : sig'[p] = IF p = o THEN SignalCount(s) ELSE sig[p]
      BY <2>1 DEF IInv, TypeOK
    <3> QED BY <2>3, <3>1
  <2> QED BY <1>1, <1>2, <2>4, <2>6, <2>7, ObjectIInv
<1>5. ASSUME NEW o \in Objects, AlarmLatch(o) \/ event_clear(o) PROVE IInv'
  <2>1. /\ o \notin Sems /\ UNCHANGED <<lock, sobj, sall, swoken, discarded, swallowed, overruns>>
        /\ \/ /\ sig' = [sig EXCEPT ![o] = IF @ = 0 THEN 1 ELSE @]
              /\ sig[o] # 0 \/ list[o] = <<>>
           \/ sig' = [sig EXCEPT ![o] = 0]
        /\ \E n : issued' = [issued EXCEPT ![o] = n]
    <3>1. CASE AlarmLatch(o)
      BY <3>1 DEF AlarmLatch, sigVars, lossVars
    <3>2. CASE event_clear(o)
      <4>1. /\ o \notin Sems /\ UNCHANGED <<lock, sobj, sall, swoken, discarded, swallowed,
                                          overruns, issued>>
            /\ sig' = [sig EXCEPT ![o] = 0]
        BY <3>2 DEF event_clear, sigVars, history, lossVars
      <4>2. issued' = [issued EXCEPT ![o] = issued[o]]
        BY <4>1 DEF IInv, TypeOK
      <4> QED BY <4>1, <4>2
    <3> QED BY <1>5, <3>1, <3>2
  <2>2. \A p \in Sems : p \in Objects /\ sig'[p] = sig[p] /\ issued'[p] = issued[p]
    BY <2>1 DEF IInv, TypeOK, Objects
  <2>3. LockState' /\ SemaphoreConservation'
    BY <1>2, <2>1, <2>2 DEF IInv, LockState, SemaphoreConservation, InFlight, Counted, Owed
  <2>4. \A p \in Objects : sig'[p] > 0 => sig[p] > 0 \/ list[p] = <<>>
    <3>1. sig \in [Objects -> Int] /\ sig[o] \in {0, 1}
      BY <2>1 DEF IInv, TypeOK
    <3>2. \A p \in Objects : p # o => sig'[p] = sig[p]
      BY <2>1, <3>1
    <3>3. sig'[o] > 0 => sig[o] > 0 \/ list[o] = <<>>
      BY <2>1, <3>1
    <3> QED BY <3>2, <3>3
  <2> QED BY <1>1, <1>2, <2>3, <2>4, ObjectIInv
<1>6. ASSUME NEW o \in Objects, semaphore_reset(o) PROVE IInv'
  <2>1. /\ sig' = [sig EXCEPT ![o] = 0] /\ UNCHANGED <<lock, sobj, sall, swoken, issued>>
        /\ discarded' = [discarded EXCEPT ![o] = @ + Counted(o)]
        /\ UNCHANGED <<swallowed, overruns, granted>>
    BY <1>6 DEF semaphore_reset, sigVars
  <2>2. /\ sig \in [Objects -> Int] /\ discarded \in [Objects -> Nat]
        /\ swallowed \in [Objects -> Nat] /\ overruns \in [Objects -> Nat]
    BY DEF IInv, TypeOK
  <2>3. ASSUME NEW p \in Sems
        PROVE  issued'[p] = Kept(p)' + granted'[p] + InFlight(p)' /\ Paid(p)'
    <3>1. /\ issued[p] = Kept(p) + granted[p] + InFlight(p) /\ p \in Objects /\ Paid(p)
      BY Conserved DEF IInv
    <3>2. issued' = issued /\ granted' = granted /\ InFlight(p)' = InFlight(p)
      BY <2>1 DEF InFlight
    <3>3. Kept(p)' = Kept(p) /\ Paid(p)'
      <4>1. CASE p = o
        <5>1. sig'[p] = 0 /\ discarded'[p] = discarded[p] + Counted(p)
          BY <3>1, <4>1, <2>1, <2>2
        <5>2. sig[p] \in Int /\ discarded[p] \in Nat /\ swallowed[p] \in Nat /\ overruns[p] \in Nat
          BY <3>1, <2>2
        <5> QED BY <3>1, <5>1, <5>2, <2>1 DEF Kept, Paid, Counted, Owed
      <4>2. CASE p # o
        <5>1. sig'[p] = sig[p] /\ discarded'[p] = discarded[p]
          BY <3>1, <4>2, <2>1, <2>2
        <5> QED BY <3>1, <5>1, <2>1, KeptRests
      <4> QED BY <4>1, <4>2
    <3> QED BY <3>1, <3>2, <3>3
  <2>4. LockState' /\ SemaphoreConservation'
    <3>1. LockState'
      BY <2>1 DEF IInv, LockState
    <3> QED BY <1>1, <2>3, <3>1, ConservedNext
  <2> QED BY <1>1, <1>2, <2>1, <2>2, <2>4, ObjectIInv
<1> QED BY <1>3, <1>4, <1>5, <1>6 DEF SignalStep

\* Nobody waits and nothing is signaled at first.
LEMMA InitIInv == Init => IInv
<1> SUFFICES ASSUME Init PROVE IInv
  OBVIOUS
<1>1. TypeOK
  BY DEF Init, TypeOK, PCs, Phases, Statuses
<1>2. WaitState /\ TimerState /\ OutcomeState /\ LockState
  BY WaitAssumption DEF Init, WaitState, TimerState, OutcomeState, OutcomeMatchesSignals,
                        LockState, Objects
<1>3. LinkedBlocks
  BY DEF Init, LinkedBlocks, ToSet, IsInjective
<1>4. SignaledHasNoWaiter /\ SemaphoreConservation
  BY DEF Init, SignaledHasNoWaiter, SemaphoreConservation, InFlight, Counted, Owed, Objects, ToSet
<1> QED BY <1>1, <1>2, <1>3, <1>4 DEF IInv

\* Every step keeps the invariant.
LEMMA NextIInv == IInv /\ [Next]_vars => IInv'
<1> SUFFICES ASSUME IInv, [Next]_vars PROVE IInv'
  OBVIOUS
<1>1. ASSUME NEW t \in Threads, OwnStep(t) PROVE IInv'
  BY <1>1, OwnType, OwnWords, OwnObjects DEF IInv
<1>2. ASSUME NEW t \in Threads, Acquire(t) \/ ListStep(t) PROVE IInv'
  BY <1>2, AcquireIInv, ListIInv
<1>3. CASE Next
  BY <1>1, <1>2, <1>3, NextCases, RoundIInv, SignalIInv
<1>4. CASE UNCHANGED vars
  <2>1. UNCHANGED <<threadVars, timerVars, sig, list, lock, sobj, sall, swoken, issued,
                    granted, discarded, swallowed, overruns, got, result>>
    BY <1>4 DEF vars, objVars, sigVars, history, lossVars
  <2>2. TypeOK'
    BY <2>1 DEF IInv, TypeOK, threadVars, timerVars
  <2>3. LockState' /\ SemaphoreConservation'
    BY <2>1 DEF IInv, LockState, SemaphoreConservation, InFlight, Counted, Owed
  <2> QED BY <2>1, <2>2, <2>3, ObjectIInv
<1> QED BY <1>3, <1>4

\* The invariant holds in every state.
LEMMA SpecIInv == Spec => []IInv
BY InitIInv, NextIInv, PTL DEF Spec

\* A block is on an object's list exactly while its thread waits there and no
\* signal unlinked it, and a live block's thread is in the wait: wb_dequeue and
\* the assertions of thread_unwait hold (wait.c, object.c).
THEOREM BlocksExact == Spec => []BlocksAreExact
<1>1. IInv => BlocksAreExact
  <2> SUFFICES ASSUME IInv PROVE BlocksAreExact
    OBVIOUS
  <2>1. LiveBlockIsWaiting
    BY LiveBlocks DEF IInv, LiveBlockIsWaiting
  <2> QED BY <2>1 DEF IInv, BlocksAreExact
<1> QED BY <1>1, SpecIInv, PTL

\* No wakeup is lost at the object: while its count is positive no wait on it
\* is still open (kobject_signal_locked, event_alarm).
THEOREM NoLostWakeup == Spec => []SignaledHasNoWaiter
<1>1. IInv => SignaledHasNoWaiter
  BY DEF IInv
<1> QED BY <1>1, SpecIInv, PTL

\* Each signal of a semaphore has one fate in any race of signals, timeouts,
\* aborted waits and resets: on its way, counted, consumed by one wait, dropped
\* by a reset, or swallowed, which takes a reset that overran an acquire and
\* happens once for each of these (semaphore.c, wait.c).
THEOREM TokensConserved == Spec => []SemaphoreConservation
<1>1. IInv => SemaphoreConservation
  BY DEF IInv
<1> QED BY <1>1, SpecIInv, PTL

\* A wait that returns YAK_SUCCESS consumed one signal, and one that returns
\* YAK_TIMEOUT none (sched_wait, thread_unwait, timer_update).
THEOREM OutcomeTold == Spec => []OutcomeMatchesSignals
<1>1. IInv => OutcomeMatchesSignals
  BY DEF IInv, OutcomeState
<1> QED BY <1>1, SpecIInv, PTL

\* The timeout timer is disarmed whenever its thread starts a wait, so a stale
\* timeout cannot end a later one (set_timeout, timer_uninstall).
THEOREM TimerDisarmed == Spec => []TimerEndsWithWait
<1>1. IInv => TimerEndsWithWait
  BY DEF IInv, TimerState, TimerEndsWithWait, ArmedPCs
<1> QED BY <1>1, SpecIInv, PTL
=============================================================================
