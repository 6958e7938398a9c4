---------------------------- MODULE MachineProofs ----------------------------
(***************************************************************************)
(* Proofs about three components on which the larger ones rest: the sleep  *)
(* mutex of kernel/core/mutex.c for every set of threads, the timers of a  *)
(* CPU, and the entries of an address map with the refinement of PageSpace *)
(* by them.                                                                *)
(***************************************************************************)
EXTENDS KMutex, Timers, VmMap, KernelLemmas

-----------------------------------------------------------------------------
\* The mutex: type correctness, mutual exclusion, and that a wakeup is lost only by an
\* alarm spent on wait blocks that already timed out.

\* The alarm of this lock's latch is the one KernelLemmas describes.
LEMMA SameAlarm ==
  \A ev, ex : event_alarm(ev, ex) = Event!event_alarm(ev, ex)
BY DEF event_alarm, Event!event_alarm, signal_locked, Event!signal_locked,
       FirstLive, Event!FirstLive, LiveAt, Event!LiveAt

\* The threads with a block on the event's list are in a wait (blocked, or
\* expired and not yet back on a CPU), and each has one block.
Linked ==
  /\ IsInjective(event.q)
  /\ \A t \in ToSet(event.q) : mpc[t] \in {"blocked", "expired"}

IInv == MutexTypeOK /\ Linked /\ MutualExclusion

\* The initial state satisfies the inductive invariant.
LEMMA InitIInv == kmutex_init => IInv
<1> SUFFICES ASSUME kmutex_init PROVE IInv
  OBVIOUS
<1>1. MutexTypeOK
  BY DEF kmutex_init, MutexTypeOK, event_init, MutexPCs
<1>2. Linked
  BY DEF kmutex_init, Linked, event_init, IsInjective, ToSet
<1>3. MutualExclusion
  BY DEF kmutex_init, MutualExclusion
<1> QED BY <1>1, <1>2, <1>3 DEF IInv

\* Every step of a thread preserves the inductive invariant.
LEMMA StepIInv ==
  ASSUME IInv, NEW t \in Lockers,
         \/ kmutex_acquire(t) \/ kmutex_acquire_polling(t)
         \/ TryLock(t) \/ GiveUpSpinning(t)
         \/ Wait(t) \/ PollHit(t) \/ PollTimeout(t)
         \/ Timeout(t) \/ FailAcquire(t)
         \/ kmutex_release(t) \/ ReleaseAlarm(t)
  PROVE  IInv'
<1>e. /\ event \in [sig : {0, 1}, q : Seq(Lockers)]
      /\ event.q \in Seq(Lockers) /\ event.sig \in {0, 1}
      /\ IsInjective(event.q) /\ ToSet(event.q) \subseteq Lockers
      /\ \A u \in ToSet(event.q) : mpc[u] \in {"blocked", "expired"}
  <2>1. event \in [sig : {0, 1}, q : Seq(Lockers)]
    BY DEF IInv, MutexTypeOK
  <2>2. event.q \in Seq(Lockers) /\ event.sig \in {0, 1}
    BY <2>1
  <2> QED BY <2>1, <2>2, ListAt DEF IInv, Linked
<1>p. /\ mpc \in [Lockers -> MutexPCs] /\ owner \in Lockers \cup {Unowned}
      /\ wasted \in {0, 1}
  BY DEF IInv, MutexTypeOK
<1>1. CASE \/ kmutex_acquire(t) \/ kmutex_acquire_polling(t)
           \/ GiveUpSpinning(t) \/ PollTimeout(t) \/ Timeout(t)
  <2>1. event' = event /\ owner' = owner /\ wasted' = wasted
    BY <1>1 DEF kmutex_acquire, kmutex_acquire_polling, GiveUpSpinning,
                PollTimeout, Timeout
  <2>2. PICK l \in MutexPCs : /\ mpc' = [mpc EXCEPT ![t] = l]
                              /\ l # "in"
                              /\ mpc[t] \in {"blocked", "expired"} => l = "expired"
    BY <1>1, <1>p DEF kmutex_acquire, kmutex_acquire_polling, GiveUpSpinning,
                PollTimeout, Timeout, MutexPCs
  <2>3. MutexTypeOK'
    BY <2>1, <2>2, <1>p, <1>e DEF MutexTypeOK
  <2>4. Linked'
    BY <2>1, <2>2, <1>p, <1>e DEF Linked
  <2>5. MutualExclusion'
    BY <2>1, <2>2, <1>p DEF IInv, MutualExclusion
  <2> QED BY <2>3, <2>4, <2>5 DEF IInv
<1>2. CASE TryLock(t)
  <2>1. MutexTypeOK'
    BY <1>2, <1>p, <1>e DEF MutexTypeOK, TryLock, MutexPCs
  <2>2. Linked'
    BY <1>2, <1>p, <1>e DEF Linked, TryLock
  <2>4. MutualExclusion'
    BY <1>2, <1>p, MutexAssumption DEF IInv, MutualExclusion, TryLock
  <2> QED BY <2>1, <2>2, <2>4 DEF IInv
<1>3. CASE kmutex_release(t)
  <2>1. MutexTypeOK'
    BY <1>3, <1>p, <1>e DEF MutexTypeOK, kmutex_release, MutexPCs
  <2>2. Linked'
    BY <1>3, <1>p, <1>e DEF Linked, kmutex_release
  <2>4. MutualExclusion'
    BY <1>3, <1>p DEF IInv, MutualExclusion, kmutex_release
  <2> QED BY <2>1, <2>2, <2>4 DEF IInv
<1>4. CASE Signaled(event) /\ (Wait(t) \/ PollHit(t))
  <2>1. /\ event' = [sig |-> event.sig - 1, q |-> event.q]
        /\ owner' = owner /\ wasted' = wasted
        /\ \E l \in {"try", "polltry"} : mpc' = [mpc EXCEPT ![t] = l]
        /\ mpc[t] \in {"wait", "poll"}
        /\ event.sig = 1
    BY <1>4, <1>e DEF Wait, PollHit, Signaled, Acquire
  <2>2. MutexTypeOK'
    BY <2>1, <1>p, <1>e DEF MutexTypeOK, MutexPCs
  <2>3. Linked'
    BY <2>1, <1>p, <1>e DEF Linked
  <2>4. MutualExclusion'
    BY <2>1, <1>p DEF IInv, MutualExclusion
  <2> QED BY <2>2, <2>3, <2>4 DEF IInv
<1>5. CASE ~Signaled(event) /\ Wait(t)
  <2>1. /\ event' = [sig |-> event.sig, q |-> Append(event.q, t)]
        /\ owner' = owner /\ wasted' = wasted
        /\ mpc' = [mpc EXCEPT ![t] = "blocked"]
        /\ mpc[t] = "wait"
    BY <1>5 DEF Wait, Enqueue
  <2>2. t \notin ToSet(event.q)
    BY <2>1, <1>e
  <2>3. /\ Append(event.q, t) \in Seq(Lockers)
        /\ ToSet(Append(event.q, t)) = ToSet(event.q) \cup {t}
        /\ IsInjective(Append(event.q, t))
    BY <2>2, <1>e, AppendProps
  <2>4. MutexTypeOK'
    BY <2>1, <2>3, <1>p, <1>e DEF MutexTypeOK, MutexPCs
  <2>5. Linked'
    BY <2>1, <2>3, <1>p, <1>e DEF Linked
  <2>6. MutualExclusion'
    BY <2>1, <1>p DEF IInv, MutualExclusion
  <2> QED BY <2>4, <2>5, <2>6 DEF IInv
<1>6. CASE FailAcquire(t)
  <2>1. /\ event' = wb_dequeue(event, t) /\ owner' = owner
        /\ wasted' = wasted
        /\ mpc' = [mpc EXCEPT ![t] = "out"]
    BY <1>6 DEF FailAcquire
  <2>2. /\ event' \in [sig : {0, 1}, q : Seq(Lockers)]
        /\ IsInjective(event'.q)
        /\ ToSet(event'.q) = ToSet(event.q) \ {t}
    <3>1. CASE t \in ToSet(event.q)
      <4>1. event' = [sig |-> event.sig, q |-> Unlink(event.q, t)]
        BY <3>1, <2>1 DEF wb_dequeue
      <4>2. /\ Unlink(event.q, t) \in Seq(Lockers)
            /\ ToSet(Unlink(event.q, t)) = ToSet(event.q) \ {t}
            /\ IsInjective(Unlink(event.q, t))
        BY <3>1, <1>e, UnlinkProps
      <4> QED BY <4>1, <4>2, <1>e
    <3>2. CASE t \notin ToSet(event.q)
      BY <3>2, <2>1, <1>e DEF wb_dequeue
    <3> QED BY <3>1, <3>2
  <2>3. MutexTypeOK'
    BY <2>1, <2>2, <1>p DEF MutexTypeOK, MutexPCs
  <2>4. Linked'
    BY <2>1, <2>2, <1>p, <1>e DEF Linked
  <2>5. MutualExclusion'
    BY <2>1, <1>p DEF IInv, MutualExclusion
  <2> QED BY <2>3, <2>4, <2>5 DEF IInv
<1>7. CASE ReleaseAlarm(t)
  <2> DEFINE r == event_alarm(event, Expired)
  <2>1. /\ event' = r.ev /\ owner' = owner /\ mpc[t] = "release"
        /\ wasted' = IF event.sig = 0 /\ event.q # <<>> /\ r.woken = {}
                     THEN 1 ELSE wasted
        /\ mpc' = [u \in Lockers |-> IF u = t THEN "out"
                    ELSE IF u \in r.woken THEN "try" ELSE mpc[u]]
    BY <1>7 DEF ReleaseAlarm
  <2>2. /\ r.ev \in [sig : {0, 1}, q : Seq(Lockers)]
        /\ IsInjective(r.ev.q)
        /\ r.woken \subseteq ToSet(event.q) \ ToSet(r.ev.q)
        /\ ToSet(r.ev.q) \subseteq ToSet(event.q)
    <3>1. Expired \in SUBSET Lockers
      BY DEF Expired
    <3> QED BY <3>1, <1>e, SameAlarm, AlarmProps
  <2> HIDE DEF r
  <2>3. MutexTypeOK'
    BY <2>1, <2>2, <1>p DEF MutexTypeOK, MutexPCs
  <2>4. Linked'
    BY <2>1, <2>2, <1>p, <1>e DEF Linked
  <2>5. MutualExclusion'
    BY <2>1, <2>2, <1>p, <1>e DEF IInv, MutualExclusion
  <2> QED BY <2>3, <2>4, <2>5 DEF IInv
<1> QED BY <1>1, <1>2, <1>3, <1>4, <1>5, <1>6, <1>7 DEF PollHit

\* Every step of the mutex, or none, keeps the invariant.
LEMMA NextIInv == IInv /\ [MutexNext]_mutexVars => IInv'
<1> SUFFICES ASSUME IInv, [MutexNext]_mutexVars PROVE IInv'
  OBVIOUS
<1>1. CASE MutexNext
  BY <1>1, StepIInv DEF MutexNext
<1>2. CASE UNCHANGED mutexVars
  BY <1>2 DEF mutexVars, IInv, MutexTypeOK, Linked, MutualExclusion
<1> QED BY <1>1, <1>2

\* The owner word, the event and the program counters keep their types.
THEOREM TypeCorrect == MutexSpec => []MutexTypeOK
<1>1. IInv => MutexTypeOK
  BY DEF IInv
<1> QED BY <1>1, InitIInv, NextIInv, PTL DEF MutexSpec

\* At most one thread is between kmutex_acquire and kmutex_release, with any
\* number of threads and any mix of blocking, polling and timed acquires.
THEOREM MutexExcludes == MutexSpec => []MutualExclusion
<1>1. IInv => MutualExclusion
  BY DEF IInv
<1> QED BY <1>1, InitIInv, NextIInv, PTL DEF MutexSpec

\* An alarm that is not wasted reaches the event or a live waiter, so each
\* step keeps the promise of NoLostWakeup.
LEMMA StepNoLostWakeup ==
  ASSUME IInv, NoLostWakeup, NEW t \in Lockers,
         \/ kmutex_acquire(t) \/ kmutex_acquire_polling(t)
         \/ TryLock(t) \/ GiveUpSpinning(t)
         \/ Wait(t) \/ PollHit(t) \/ PollTimeout(t)
         \/ Timeout(t) \/ FailAcquire(t)
         \/ kmutex_release(t) \/ ReleaseAlarm(t)
  PROVE  NoLostWakeup'
<1>p. /\ mpc \in [Lockers -> MutexPCs] /\ owner \in Lockers \cup {Unowned}
      /\ event \in [sig : {0, 1}, q : Seq(Lockers)]
      /\ event.sig \in {0, 1}
  BY DEF IInv, MutexTypeOK
<1>1. CASE kmutex_acquire(t) \/ kmutex_acquire_polling(t)
  BY <1>1, <1>p DEF kmutex_acquire, kmutex_acquire_polling, NoLostWakeup,
                    Signaled
<1>2. CASE TryLock(t) \/ GiveUpSpinning(t)
  BY <1>2, <1>p, MutexAssumption DEF TryLock, GiveUpSpinning, NoLostWakeup
<1>3. CASE PollTimeout(t) \/ Timeout(t) \/ FailAcquire(t)
  <2>1. /\ owner' = owner /\ wasted' = wasted
        /\ \E l \in {"out", "expired"} : mpc' = [mpc EXCEPT ![t] = l]
        /\ mpc[t] \in {"poll", "blocked", "expired"}
        /\ event'.sig = event.sig
    BY <1>3, <1>p DEF PollTimeout, Timeout, FailAcquire, wb_dequeue
  <2> QED BY <2>1, <1>p DEF NoLostWakeup, Signaled
<1>4. CASE Wait(t)
  <2>1. CASE Signaled(event)
    BY <1>4, <2>1, <1>p DEF Wait, NoLostWakeup
  <2>2. CASE ~Signaled(event)
    <3>1. /\ mpc[t] = "wait" /\ mpc' = [mpc EXCEPT ![t] = "blocked"]
          /\ owner' = owner /\ wasted' = wasted
      BY <1>4, <2>2 DEF Wait
    <3>2. wasted = 0 /\ owner = Unowned =>
            \E u \in Lockers : mpc[u] \in {"release", "try", "polltry"}
      BY <3>1, <2>2 DEF NoLostWakeup
    <3> QED BY <3>1, <3>2, <1>p DEF NoLostWakeup
  <2> QED BY <2>1, <2>2
<1>5. CASE PollHit(t)
  BY <1>5, <1>p DEF PollHit, NoLostWakeup
<1>6. CASE kmutex_release(t)
  BY <1>6, <1>p DEF kmutex_release, NoLostWakeup
<1>7. CASE ReleaseAlarm(t)
  <2> DEFINE r == event_alarm(event, Expired)
  <2>1. /\ event' = r.ev /\ mpc[t] = "release"
        /\ wasted' = IF event.sig = 0 /\ event.q # <<>> /\ r.woken = {}
                     THEN 1 ELSE wasted
        /\ mpc' = [u \in Lockers |-> IF u = t THEN "out"
                    ELSE IF u \in r.woken THEN "try" ELSE mpc[u]]
    BY <1>7 DEF ReleaseAlarm
  <2>2. Expired \in SUBSET Lockers
    BY DEF Expired
  <2>3. /\ r.woken \subseteq ToSet(event.q) /\ r.ev.sig \in {0, 1}
        /\ \/ r.ev.sig = 1 \/ r.woken # {}
           \/ event.sig = 0 /\ event.q # <<>>
    BY <2>2, <1>p, SameAlarm, AlarmProps DEF IInv, Linked
  <2> HIDE DEF r
  <2>4. CASE r.ev.sig = 1
    BY <2>1, <2>4 DEF NoLostWakeup, Signaled
  <2>5. CASE r.woken # {}
    <3>1. PICK u \in r.woken : TRUE
      BY <2>5
    <3>2. u \in Lockers /\ u # t
      BY <3>1, <2>1, <2>3, <1>p, ListAt DEF IInv, Linked
    <3>3. mpc'[u] = "try"
      BY <3>1, <3>2, <2>1
    <3> QED BY <3>2, <3>3 DEF NoLostWakeup
  <2>6. CASE r.woken = {} /\ event.sig = 0 /\ event.q # <<>>
    BY <2>1, <2>6 DEF NoLostWakeup
  <2> QED BY <2>3, <2>4, <2>5, <2>6
<1> QED BY <1>1, <1>2, <1>3, <1>4, <1>5, <1>6, <1>7

\* With any mix of timeouts, a wakeup of the mutex is lost only if an alarm
\* met nothing but the blocks of waits that had already timed out.
THEOREM MutexWakes == MutexSpec => []NoLostWakeup
<1> DEFINE J == IInv /\ NoLostWakeup
<1>1. kmutex_init => J
  BY InitIInv DEF kmutex_init, NoLostWakeup
<1>2. J /\ [MutexNext]_mutexVars => J'
  <2> SUFFICES ASSUME J, [MutexNext]_mutexVars PROVE J'
    OBVIOUS
  <2>1. IInv'
    BY NextIInv
  <2>2. CASE MutexNext
    BY <2>1, <2>2, StepNoLostWakeup DEF MutexNext
  <2>3. CASE UNCHANGED mutexVars
    BY <2>1, <2>3 DEF mutexVars, NoLostWakeup
  <2> QED BY <2>2, <2>3
<1>3. J => NoLostWakeup
  OBVIOUS
<1> QED BY <1>1, <1>2, <1>3, PTL DEF MutexSpec

-----------------------------------------------------------------------------
\* The types of what is counted.  A deadline only gets closer, and the update has read a time that is
\* not in the future.
TimersTyped ==
  /\ timer \in [TimerSet -> [state : {"UNUSED", "QUEUED", "CANCELED", "FIRED"}, left : Int]]
  /\ update \in {"idle", "time", "root"}
  /\ since \in Nat /\ alarm \in Nat
  /\ failed \in {"no", "late", "zero"}
  /\ excess \in Nat

TimersInv == TimersTyped /\ TimersAreArmed

\* The calibrated rate is a number of steps.
LEMMA RateNat == ticks_per_ms \in Nat
<1> DEFINE quotient == (10 * 10 * MS) \div (10 * 11)
           steps == (quotient + Step) \div Step
<1>1. MS \in Nat /\ Step \in Nat \ {0}
  BY TimersAssumption
<1>2. quotient \in Nat
  BY <1>1
<1> HIDE DEF quotient
<1>3. steps \in Nat
  BY <1>1, <1>2
<1> HIDE DEF steps
<1>4. steps * Step \in Nat
  BY <1>1, <1>3
<1> QED BY <1>4 DEF ticks_per_ms, wait_ms, runs, steps, quotient

\* Rounded up to whole milliseconds, a time is less than a millisecond longer.
LEMMA MillisBound ==
  ASSUME NEW d \in Nat
  PROVE  Millis(d) \in Nat /\ MS * Millis(d) <= d + MS - 1
<1> DEFINE s == (d + MS - 1) % TimeMod
<1>1. MS \in Nat \ {0} /\ TimeMod \in Nat \ {0}
  BY TimersAssumption
<1>2. s \in Nat /\ s <= d + MS - 1
  <2>1. d + MS - 1 \in Nat
    BY <1>1
  <2> QED BY <2>1, <1>1
<1> HIDE DEF s
<1>3. s \div MS \in Nat /\ MS * (s \div MS) <= s
  BY <1>1, <1>2
<1> QED BY <1>1, <1>2, <1>3 DEF Millis, s

\* Counted at a rate of r, they are that long and what r is too high.
LEMMA TicksBound ==
  ASSUME NEW n \in Nat, NEW m \in Nat, NEW r \in Nat, NEW l \in Nat \ {0},
         NEW e \in Nat, e = IF r > m THEN n * (r - m) ELSE 0
  PROVE  n * r \in Nat /\ (n * r) % l \in Nat /\ (n * r) % l <= m * n + e
<1>1. n * r \in Nat
  OBVIOUS
<1>2. n * r <= m * n + e
  <2>1. CASE r > m
    <3>1. n * r = m * n + n * (r - m)
      OBVIOUS
    <3> QED BY <2>1, <3>1
  <2>2. CASE ~(r > m)
    <3>1. n * r <= n * m
      BY <2>2
    <3> QED BY <2>2, <3>1
  <2> QED BY <2>1, <2>2
<1> DEFINE ticks == n * r
<1> HIDE DEF ticks
<1>3. \A x \in Nat : x % l \in Nat /\ x % l <= x
  OBVIOUS
<1>4. m * n + e \in Nat
  OBVIOUS
<1> QED BY <1>1, <1>2, <1>3, <1>4 DEF ticks

\* Timer by timer, the form in which the steps are checked.
LEMMA TimersRead ==
  ASSUME TimersInv
  PROVE  /\ \A t \in TimerSet :
              /\ timer[t].left \in Int
              /\ timer[t].state \in {"UNUSED", "QUEUED", "CANCELED", "FIRED"}
              /\ timer[t] = [state |-> timer[t].state, left |-> timer[t].left]
              /\ timer[t].state = "FIRED" => timer[t].left <= 0
         /\ since \in Nat /\ alarm \in Nat /\ excess \in Nat
BY DEF TimersInv, TimersTyped, TimersAreArmed, OnItsWay

\* timer_install, timer_uninstall and the steps that leave the timers alone.
LEMMA TimersCallInv ==
  ASSUME TimersInv,
         \/ \E t \in TimerSet : \/ \E delta \in Deltas : timer_install(t, delta)
                                \/ timer_uninstall(t)
         \/ EnqueueUpdate \/ timer_update \/ ReadTime \/ apic_handler
  PROVE  TimersInv'
<1>1. CASE EnqueueUpdate \/ timer_update \/ ReadTime \/ apic_handler
  BY <1>1 DEF EnqueueUpdate, timer_update, ReadTime, apic_handler, TimersInv,
              TimersTyped, TimersAreArmed, OnItsWay, Heap
<1>2. ASSUME NEW t \in TimerSet, NEW delta \in Deltas, timer_install(t, delta)
      PROVE  TimersInv'
  <2>1. delta \in Int
    BY TimersAssumption
  <2>2. TimersTyped'
    BY <1>2, <2>1 DEF timer_install, TimersInv, TimersTyped
  <2>3. fresh' = TRUE /\ \A u \in TimerSet : timer'[u] = IF u = t
                           THEN [state |-> "QUEUED", left |-> delta] ELSE timer[u]
    BY <1>2 DEF timer_install, TimersInv, TimersTyped
  <2> QED BY <2>2, <2>3, TimersRead DEF TimersInv, TimersAreArmed, OnItsWay
<1>3. ASSUME NEW t \in TimerSet, timer_uninstall(t) PROVE TimersInv'
  <2>1. TimersTyped'
    BY <1>3 DEF timer_uninstall, TimersInv, TimersTyped
  <2>2. \A u \in TimerSet : timer'[u] = IF u = t
                           THEN [state |-> "CANCELED", left |-> 0] ELSE timer[u]
    BY <1>3 DEF timer_uninstall, TimersInv, TimersTyped
  <2> QED BY <2>1, <2>2, <1>3 DEF TimersInv, TimersAreArmed, OnItsWay, timer_uninstall, Heap
<1> QED BY <1>1, <1>2, <1>3

\* timer_update under timer_lock: with nothing queued, the root fired, or the root
\* armed.  The root has the earliest deadline, so its alarm is early enough for all.
LEMMA RootInv == ASSUME TimersInv, Root PROVE TimersInv'
<1>0. since' = 0 /\ UNCHANGED <<fresh, queued, irq>>
  BY DEF Root
<1>1. CASE Heap = {} /\ alarm' = 0 /\ failed' = "no" /\ excess' = 0 /\ update' = "idle" /\ UNCHANGED timer
  BY <1>1, <1>0 DEF TimersInv, TimersTyped, TimersAreArmed, OnItsWay, Heap
<1>2. ASSUME NEW t \in Roots, Due(t), update' = "time", UNCHANGED <<alarm, failed, excess>>,
             timer' = [timer EXCEPT ![t].state = "FIRED"]
      PROVE  TimersInv'
  <2>1. t \in TimerSet /\ timer[t].left <= 0
    <3>1. t \in TimerSet /\ timer[t].left \in Int /\ since \in Nat
      BY TimersRead DEF Roots, Heap
    <3>2. timer[t].left <= -since
      BY <1>2 DEF Due
    <3> QED BY <3>1, <3>2
  <2>2. TimersTyped'
    BY <1>0, <1>2, <2>1 DEF TimersInv, TimersTyped
  <2>3. \A u \in TimerSet : timer'[u].left = timer[u].left
                            /\ timer'[u].state = IF u = t THEN "FIRED" ELSE timer[u].state
    BY <1>2, <2>1 DEF TimersInv, TimersTyped
  <2> QED BY <1>2, <2>1, <2>2, <2>3, TimersRead DEF TimersInv, TimersAreArmed, OnItsWay
<1>3. ASSUME NEW t \in Roots, plat_arm_timer(timer[t].left), update' = "idle", UNCHANGED timer
      PROVE  TimersInv'
  <2> DEFINE left == timer[t].left
             delta == left % TimeMod
             n == Millis(delta)
             ticks == n * ticks_per_ms
             over == IF ticks_per_ms > MS THEN n * (ticks_per_ms - MS) ELSE 0
  <2>1. t \in TimerSet /\ left \in Int /\ \A u \in Heap : left <= timer[u].left
    BY TimersRead DEF Roots, Heap
  <2>2. MS \in Nat \ {0} /\ TimeMod \in Nat \ {0} /\ LapicMod \in Nat \ {0}
    BY TimersAssumption
  <2>3. delta \in Nat /\ (left >= 0 => delta <= left)
    BY <2>1, <2>2
  <2>4. /\ alarm' = IF ticks = 0 \/ delta = 0 THEN 1 ELSE ticks % LapicMod
        /\ failed' = IF ticks = 0 \/ delta = 0 THEN "no"
                     ELSE IF left < 0 THEN "late"
                     ELSE IF ticks % LapicMod = 0 THEN "zero" ELSE "no"
        /\ excess' = IF ticks = 0 \/ delta = 0 THEN 0 ELSE over
    BY <1>3 DEF plat_arm_timer
  <2> HIDE DEF delta
  <2>5. n \in Nat /\ MS * n <= delta + MS - 1
    BY <2>3, MillisBound
  <2> HIDE DEF n
  <2>6. over \in Nat
    <3>1. CASE ticks_per_ms > MS
      <4>1. ticks_per_ms - MS \in Nat
        BY <3>1, <2>2, RateNat
      <4> QED BY <3>1, <4>1, <2>5
    <3> QED BY <3>1
  <2>7. ticks % LapicMod \in Nat /\ ticks % LapicMod <= delta + MS - 1 + over
    <3>1. ticks % LapicMod \in Nat /\ ticks % LapicMod <= MS * n + over
      BY <2>2, <2>5, <2>6, RateNat, TicksBound
    <3>2. MS * n \in Nat
      BY <2>2, <2>5
    <3> HIDE DEF ticks, over
    <3> QED BY <3>1, <3>2, <2>2, <2>3, <2>5, <2>6
  <2> HIDE DEF ticks, over
  <2>8. TimersTyped'
    BY <1>0, <1>3, <2>4, <2>6, <2>7 DEF TimersInv, TimersTyped
  <2>9. failed' # "no" \/ (alarm' # 0 /\ alarm' <= MS + excess' + Pos(left))
    <3>1. CASE ticks = 0 \/ delta = 0
      BY <3>1, <2>1, <2>2, <2>4 DEF Pos
    <3>2. CASE ~(ticks = 0 \/ delta = 0) /\ left >= 0 /\ ticks % LapicMod # 0
      BY <3>2, <2>1, <2>2, <2>3, <2>4, <2>6, <2>7 DEF Pos
    <3> QED BY <3>1, <3>2, <2>1, <2>4
  <2>10. ASSUME NEW u \in Heap, failed' = "no"
         PROVE  alarm' # 0 /\ alarm' <= MS + excess' + Pos(timer[u].left)
    <3>1. timer[u].left \in Int /\ left <= timer[u].left
      BY <2>1, TimersRead DEF Heap
    <3>2. alarm' \in Nat /\ excess' \in Nat
      BY <2>8 DEF TimersTyped
    <3>3. Pos(left) <= Pos(timer[u].left) /\ Pos(left) \in Nat /\ Pos(timer[u].left) \in Nat
      BY <3>1, <2>1 DEF Pos
    <3> QED BY <2>9, <2>10, <3>2, <3>3, <2>2
  <2> QED BY <1>3, <2>8, <2>10 DEF TimersInv, TimersAreArmed, OnItsWay, Heap
<1> QED BY <1>1, <1>2, <1>3 DEF Root

\* While a time unit passes, deadlines and alarm come closer together.
LEMMA TimeInv == ASSUME TimersInv, Time PROVE TimersInv'
<1>1. /\ since' \in Nat
      /\ UNCHANGED <<fresh, queued, update, failed, excess>>
      /\ irq' = (irq \/ alarm = 1)
      /\ alarm' = IF alarm = 0 THEN 0 ELSE alarm - 1
      /\ \A t \in TimerSet : timer'[t] = IF t \in Heap THEN [timer[t] EXCEPT !.left = Later(@)]
                                         ELSE timer[t]
      /\ timer' \in [TimerSet -> {timer'[t] : t \in TimerSet}]
  BY TimersRead DEF Time
<1>2. \A t \in TimerSet : /\ timer'[t].state = timer[t].state
                          /\ timer'[t].left = IF t \in Heap THEN Later(timer[t].left) ELSE timer[t].left
                          /\ timer'[t] = [state |-> timer'[t].state, left |-> timer'[t].left]
  BY <1>1, TimersRead
<1>3. \A x \in Int : Later(x) \in Int /\ Later(x) >= x - 1 /\ Later(x) <= x
  BY TimersAssumption DEF Later
<1>4. TimersTyped'
  <2>1. \A t \in TimerSet :
          timer'[t] \in [state : {"UNUSED", "QUEUED", "CANCELED", "FIRED"}, left : Int]
    <3>1. ASSUME NEW t \in TimerSet
          PROVE  /\ timer'[t].state \in {"UNUSED", "QUEUED", "CANCELED", "FIRED"}
                 /\ timer'[t].left \in Int
                 /\ timer'[t] = [state |-> timer'[t].state, left |-> timer'[t].left]
      <4>1. timer'[t].left \in Int
        BY <1>2, <1>3, TimersRead
      <4> QED BY Zenon, <4>1, <1>2, TimersRead
    <3>2. \A s \in {"UNUSED", "QUEUED", "CANCELED", "FIRED"}, d \in Int :
            [state |-> s, left |-> d]
              \in [state : {"UNUSED", "QUEUED", "CANCELED", "FIRED"}, left : Int]
      OBVIOUS
    <3>3. \A t \in TimerSet : [state |-> timer'[t].state, left |-> timer'[t].left]
              \in [state : {"UNUSED", "QUEUED", "CANCELED", "FIRED"}, left : Int]
      BY <3>1, <3>2
    <3> QED BY Zenon, <3>1, <3>3
  <2>2. alarm' \in Nat
    <3>1. alarm \in Nat
      BY TimersRead
    <3>2. \A x \in Nat : (IF x = 0 THEN 0 ELSE x - 1) \in Nat
      OBVIOUS
    <3> QED BY Zenon, <1>1, <3>1, <3>2
  <2> QED BY <2>1, <2>2, <1>1 DEF TimersInv, TimersTyped
<1>5. ASSUME NEW t \in Heap
      PROVE  \/ fresh' \/ queued' \/ irq' \/ update' # "idle" \/ failed' # "no"
             \/ alarm' # 0 /\ alarm' <= MS + excess' + Pos(timer'[t].left)
  <2>1. \/ fresh \/ queued \/ irq \/ update # "idle" \/ failed # "no"
        \/ alarm # 0 /\ alarm <= MS + excess + Pos(timer[t].left)
    BY DEF TimersInv, TimersAreArmed, OnItsWay
  <2>2. MS \in Nat /\ alarm \in Nat /\ excess \in Nat /\ timer[t].left \in Int /\ t \in TimerSet
    BY TimersRead, TimersAssumption DEF Heap
  <2>3. timer'[t].left \in Int /\ timer'[t].left >= timer[t].left - 1
    BY <1>2, <1>3, <2>2
  <2>4. CASE alarm = 1
    BY <2>4, <1>1
  <2>5. CASE alarm # 0 /\ alarm # 1 /\ alarm <= MS + excess + Pos(timer[t].left)
    <3>1. alarm' # 0 /\ alarm' <= MS + excess' + Pos(timer'[t].left)
      BY <2>5, <2>2, <2>3, <1>1 DEF Pos
    <3> QED BY <3>1
  <2>6. CASE fresh \/ queued \/ irq \/ update # "idle" \/ failed # "no"
    BY <2>6, <1>1
  <2> QED BY <2>1, <2>4, <2>5, <2>6
<1>6. Heap' = Heap
  BY <1>2 DEF Heap
<1>7. ASSUME NEW t \in TimerSet, timer'[t].state = "FIRED" PROVE timer'[t].left <= 0
  BY <1>2, <1>7, TimersRead DEF Heap
<1> QED BY <1>4, <1>5, <1>6, <1>7 DEF TimersInv, TimersAreArmed, OnItsWay

\* Timers: a queued timer is always on its way to being fired, and the hardware is
\* late by a millisecond and by what the calibration adds at most, for every true rate
\* and rounding; except when the difference wrapped around or the count was cut to
\* zero.  None fires early (timer.c, apic.c:116-143, 187-206).
THEOREM TimersArmed == TimersSpec => []TimersAreArmed
<1>1. TimersInit => TimersInv
  BY DEF TimersInit, timer_init, TimersInv, TimersTyped, TimersAreArmed, OnItsWay, Heap
<1>2. TimersInv /\ [TimersNext]_timersVars => TimersInv'
  <2> SUFFICES ASSUME TimersInv, [TimersNext]_timersVars PROVE TimersInv'
    OBVIOUS
  <2>1. CASE UNCHANGED timersVars
    BY <2>1 DEF timersVars, TimersInv, TimersTyped, TimersAreArmed, OnItsWay, Heap
  <2> QED BY <2>1, TimersCallInv, RootInv, TimeInv DEF TimersNext
<1>3. TimersInv => TimersAreArmed
  BY DEF TimersInv
<1> QED BY <1>1, <1>2, <1>3, PTL DEF TimersSpec

-----------------------------------------------------------------------------
\* The entries of an address map.
Entries == [base : Nat, end : Nat, offset : Int, object : Objects, amap : BOOLEAN,
            protection : Prots, max_protection : Prots]
Apart(x, y) == x.end <= y.base \/ y.end <= x.base
Inside(x, lo, hi) == lo <= x.base /\ x.base < x.end /\ x.end <= hi

\* A tree of entries that lie in the map and do not overlap.
Sound(T) ==
  /\ T \subseteq Entries /\ IsFiniteSet(T)
  /\ \A e \in T : Inside(e, min_addr, max_addr)
  /\ \A e, f \in T : e # f => Apart(e, f)

MapInv ==
  /\ Sound(map_tree)
  /\ refcnt \in [Objects -> [object : Nat, amap : Nat]]
  /\ \A o \in Objects : refcnt[o] = CountRefs(map_tree, o)

\* Entries may be replaced by disjoint parts of themselves.
LEMMA SplitSound ==
  ASSUME NEW T, Sound(T), NEW O \in SUBSET T, NEW P, P \subseteq Entries, IsFiniteSet(P),
         \A x \in P : \E e \in O : Inside(x, e.base, e.end),
         \A x, y \in P : \A e \in O :
           x # y /\ Inside(x, e.base, e.end) /\ Inside(y, e.base, e.end) => Apart(x, y)
  PROVE  Sound((T \ O) \cup P) /\ P \cap (T \ O) = {}
<1> DEFINE N == (T \ O) \cup P
<1>1. N \subseteq Entries /\ IsFiniteSet(N)
  BY FS_Subset, FS_Union DEF Sound
<1>n. \A x \in Entries : x.base \in Nat /\ x.end \in Nat
  BY DEF Entries
<1>t. T \subseteq Entries /\ (\A e \in T : Inside(e, min_addr, max_addr))
      /\ \A e, f \in T : e # f => Apart(e, f)
  BY DEF Sound
<1>m. min_addr \in Nat /\ max_addr \in Nat
  BY VmMapAssumption
<1>2. ASSUME NEW x \in P, NEW y \in T \ O PROVE Apart(x, y)
  <2>1. PICK e \in O : Inside(x, e.base, e.end)
    OBVIOUS
  <2>2. Apart(e, y)
    BY <1>t
  <2> QED BY <2>1, <2>2, <1>n, <1>t DEF Inside, Apart
<1>3. ASSUME NEW x \in P PROVE Inside(x, min_addr, max_addr)
  <2>1. PICK e \in O : Inside(x, e.base, e.end)
    OBVIOUS
  <2>2. Inside(e, min_addr, max_addr)
    BY <1>t
  <2> QED BY <2>1, <2>2, <1>n, <1>t, <1>m DEF Inside
<1>4. ASSUME NEW x \in P, NEW y \in P, x # y PROVE Apart(x, y)
  <2>1. PICK e \in O : Inside(x, e.base, e.end)
    OBVIOUS
  <2>2. PICK f \in O : Inside(y, f.base, f.end)
    OBVIOUS
  <2>3. CASE e = f
    BY <2>1, <2>2, <2>3, <1>4
  <2>4. CASE e # f
    <3>1. Apart(e, f)
      BY <2>4, <1>t
    <3> QED BY <3>1, <2>1, <2>2, <1>n, <1>t DEF Inside, Apart
  <2> QED BY <2>3, <2>4
<1>5. ASSUME NEW x \in P \cap (T \ O) PROVE FALSE
  <2>1. Apart(x, x) /\ Inside(x, min_addr, max_addr)
    BY <1>2, <1>t
  <2> QED BY <2>1, <1>n DEF Apart, Inside
<1>6. \A x, y \in N : x # y => Apart(x, y)
  <2> SUFFICES ASSUME NEW x \in N, NEW y \in N, x # y PROVE Apart(x, y)
    OBVIOUS
  <2>1. Apart(x, y) <=> Apart(y, x)
    BY DEF Apart
  <2> QED BY <2>1, <1>2, <1>4, <1>t
<1> QED BY <1>1, <1>3, <1>5, <1>6, <1>t DEF Sound

\* What of K a set has when a part O of it is replaced by P.
Swapped(T, O, P, K) ==
  Cardinality(((T \ O) \cup P) \cap K)
    = (Cardinality(T \cap K) + Cardinality(P \cap K)) - Cardinality(O \cap K)

LEMMA CountSwap ==
  ASSUME NEW T, IsFiniteSet(T), NEW O \in SUBSET T, NEW P, IsFiniteSet(P),
         P \cap (T \ O) = {}, NEW K
  PROVE  Swapped(T, O, P, K)
<1> DEFINE a == (T \ O) \cap K
           b == O \cap K
           c == P \cap K
<1>1. IsFiniteSet(a) /\ IsFiniteSet(b) /\ IsFiniteSet(c)
  BY FS_Subset
<1>2. a \cap b = {} /\ a \cap c = {} /\ T \cap K = a \cup b /\ ((T \ O) \cup P) \cap K = a \cup c
  OBVIOUS
<1> HIDE DEF a, b, c
<1>3. /\ Cardinality(a) \in Nat /\ Cardinality(b) \in Nat /\ Cardinality(c) \in Nat
      /\ Cardinality(a \cup b) = Cardinality(a) + Cardinality(b)
      /\ Cardinality(a \cup c) = Cardinality(a) + Cardinality(c)
  <2>1. Cardinality({}) = 0
    BY FS_EmptySet
  <2>2. /\ Cardinality(a \cup b) = Cardinality(a) + Cardinality(b) - Cardinality(a \cap b)
        /\ Cardinality(a \cup c) = Cardinality(a) + Cardinality(c) - Cardinality(a \cap c)
    BY <1>1, FS_Union
  <2>3. Cardinality(a) \in Nat /\ Cardinality(b) \in Nat /\ Cardinality(c) \in Nat
    BY <1>1, FS_CardinalityType
  <2>4. Cardinality(a \cap b) = 0 /\ Cardinality(a \cap c) = 0
    BY ZenonT(40), <1>2, <2>1
  <2> QED BY <2>2, <2>3, <2>4
<1>4. /\ Cardinality(T \cap K) = Cardinality(a \cup b)
      /\ Cardinality(((T \ O) \cup P) \cap K) = Cardinality(a \cup c)
      /\ Cardinality(P \cap K) = Cardinality(c) /\ Cardinality(O \cap K) = Cardinality(b)
  BY ZenonT(40), <1>2 DEF b, c
<1> QED BY <1>3, <1>4 DEF Swapped

\* carve_entry: the parts left and right of the range lie inside the entry and outside
\* of the range, show what the entry showed, and leave out no page of it.
LEMMA PieceProps ==
  ASSUME NEW e \in Entries, e.base < e.end, NEW base \in Nat, NEW end \in Nat,
         base < end, e.base < end, base < e.end
  PROVE  /\ IsFiniteSet(Pieces(e, base, end))
         /\ \A x \in Pieces(e, base, end) :
              /\ x \in Entries /\ Inside(x, e.base, e.end)
              /\ x.end <= base \/ end <= x.base
              /\ x.object = e.object /\ x.amap = e.amap
              /\ x.protection = e.protection /\ x.max_protection = e.max_protection
              /\ x.offset - x.base = e.offset - e.base
         /\ \A x, y \in Pieces(e, base, end) : x # y => Apart(x, y)
         /\ \A p \in Int : e.base <= p /\ p < e.end /\ (p < base \/ end <= p)
              => \E x \in Pieces(e, base, end) : x.base <= p /\ p < x.end
<1> DEFINE l == [e EXCEPT !.end = base]
           r == [e EXCEPT !.base = end, !.offset = @ + end - e.base]
<1>e. e.base \in Nat /\ e.end \in Nat /\ e.offset \in Int
  BY DEF Entries
<1>o. e.offset + end - e.base \in Int
  BY <1>e
<1>l. l \in Entries /\ r \in Entries
  BY <1>o DEF Entries
<1>f. /\ l.base = e.base /\ l.end = base /\ l.offset = e.offset
      /\ r.base = end /\ r.end = e.end /\ r.offset = e.offset + end - e.base
      /\ \A x \in {l, r} : /\ x.object = e.object /\ x.amap = e.amap
                           /\ x.protection = e.protection
                           /\ x.max_protection = e.max_protection
  BY DEF Entries
<1>1. /\ e.base \in Nat /\ e.end \in Nat /\ e.offset \in Int
      /\ l \in Entries /\ r \in Entries
      /\ l.base = e.base /\ l.end = base /\ l.offset = e.offset
      /\ r.base = end /\ r.end = e.end /\ r.offset = e.offset + end - e.base
      /\ \A x \in {l, r} : /\ x.object = e.object /\ x.amap = e.amap
                           /\ x.protection = e.protection
                           /\ x.max_protection = e.max_protection
  BY <1>e, <1>l, <1>f
<1>2. /\ Left(e, SplitBase(e, base)) = IF base > e.base THEN {l} ELSE {}
      /\ Right(e, SplitEnd(e, end)) = IF end < e.end THEN {r} ELSE {}
  <2>1. /\ SplitBase(e, base) = IF base > e.base THEN base ELSE e.base
        /\ SplitEnd(e, end) = IF end < e.end THEN end ELSE e.end
    BY <1>e DEF SplitBase, SplitEnd, MaxOf, MinOf
  <2>2. ~(e.base > e.base) /\ ~(e.end < e.end)
    BY <1>e
  <2>3. CASE base > e.base
    BY <2>1, <2>2, <2>3 DEF Left, Right
  <2>4. CASE ~(base > e.base)
    BY <2>1, <2>2, <2>4 DEF Left, Right
  <2> QED BY <2>3, <2>4
<1> HIDE DEF l, r
<1> DEFINE L == IF base > e.base THEN {l} ELSE {}
           R == IF end < e.end THEN {r} ELSE {}
<1>3. Pieces(e, base, end) = L \cup R
  BY <1>2 DEF Pieces
<1>4. IsFiniteSet(L \cup R)
  BY FS_Singleton, FS_EmptySet, FS_Union
<1>5. /\ base > e.base => Inside(l, e.base, e.end) /\ l.end <= base
                          /\ l.offset - l.base = e.offset - e.base
      /\ end < e.end => Inside(r, e.base, e.end) /\ end <= r.base
                          /\ r.offset - r.base = e.offset - e.base
      /\ Apart(l, r) /\ Apart(r, l)
  BY <1>1 DEF Inside, Apart
<1>6. \A p \in Int : e.base <= p /\ p < e.end /\ (p < base \/ end <= p)
              => \E x \in L \cup R : x.base <= p /\ p < x.end
  <2> SUFFICES ASSUME NEW p \in Int, e.base <= p, p < e.end, p < base \/ end <= p
               PROVE  \E x \in L \cup R : x.base <= p /\ p < x.end
    OBVIOUS
  <2>1. CASE p < base
    BY <2>1, <1>1
  <2>2. CASE end <= p
    BY <2>2, <1>1
  <2> QED BY <2>1, <2>2
<1> QED BY <1>1, <1>3, <1>4, <1>5, <1>6

\* The entries that a range overlaps.
LEMMA OverProps ==
  ASSUME MapInv, NEW base, NEW end
  PROVE  /\ Overlapping(base, end) \subseteq map_tree
         /\ \A e \in Overlapping(base, end) : e.base < end /\ base < e.end
         /\ \A e \in map_tree \ Overlapping(base, end) : ~(e.base < end /\ base < e.end)
         /\ \A e \in map_tree : e \in Entries /\ e.base \in Nat /\ e.end \in Nat /\ e.base < e.end
BY DEF Overlapping, MapInv, Sound, Entries, Inside

\* What vm_unmap and vm_protect cut off of the entries es that a range overlaps.
CutOff(es, base, end) == UNION {Pieces(e, base, end) : e \in es}

LEMMA CutOffProps ==
  ASSUME MapInv, NEW base \in Nat, NEW end \in Nat, base < end,
         NEW O \in SUBSET Overlapping(base, end)
  PROVE  /\ IsFiniteSet(CutOff(O, base, end)) /\ CutOff(O, base, end) \subseteq Entries
         /\ \A x \in CutOff(O, base, end) :
              /\ x.end <= base \/ end <= x.base
              /\ \E e \in O : x \in Pieces(e, base, end)
         /\ \A e \in O : \A x \in Pieces(e, base, end) :
              /\ x \in CutOff(O, base, end) /\ Inside(x, e.base, e.end)
              /\ x.object = e.object /\ x.amap = e.amap
              /\ x.protection = e.protection /\ x.max_protection = e.max_protection
              /\ x.offset - x.base = e.offset - e.base
         /\ \A x, y \in CutOff(O, base, end) : \A e \in O :
              x # y /\ Inside(x, e.base, e.end) /\ Inside(y, e.base, e.end) => Apart(x, y)
<1> DEFINE P == CutOff(O, base, end)
<1>1. \A e \in O : /\ e \in map_tree /\ e \in Entries
                   /\ e.base \in Nat /\ e.end \in Nat
                   /\ e.base < e.end /\ e.base < end /\ base < e.end
  BY OverProps
<1>2. \A e \in O :
         /\ IsFiniteSet(Pieces(e, base, end))
         /\ \A x \in Pieces(e, base, end) :
              /\ x \in Entries /\ Inside(x, e.base, e.end)
              /\ x.end <= base \/ end <= x.base
              /\ x.object = e.object /\ x.amap = e.amap
              /\ x.protection = e.protection /\ x.max_protection = e.max_protection
              /\ x.offset - x.base = e.offset - e.base
         /\ \A x, y \in Pieces(e, base, end) : x # y => Apart(x, y)
  BY <1>1, PieceProps
<1>3. IsFiniteSet(P)
  <2>1. IsFiniteSet(O)
    BY OverProps, FS_Subset DEF MapInv, Sound
  <2> DEFINE f == [e \in O |-> Pieces(e, base, end)]
             F == {Pieces(e, base, end) : e \in O}
  <2>2. f \in Surjection(O, F)
    BY DEF Surjection
  <2>3. IsFiniteSet(F)
    BY <2>1, <2>2, FS_Surjection
  <2> QED BY <2>3, <1>2, FS_UNION DEF CutOff
<1>4. \A x \in P : \E e \in O : x \in Pieces(e, base, end)
  BY DEF CutOff
<1>5. \A e \in O : Pieces(e, base, end) \subseteq P
  BY DEF CutOff
<1>6. ASSUME NEW x \in P, NEW y \in P, NEW e \in O, x # y,
             Inside(x, e.base, e.end), Inside(y, e.base, e.end)
      PROVE  Apart(x, y)
  <2>1. ASSUME NEW z \in P, Inside(z, e.base, e.end) PROVE z \in Pieces(e, base, end)
    <3>1. PICK f \in O : z \in Pieces(f, base, end)
      BY <1>4
    <3>2. z \in Entries /\ Inside(z, f.base, f.end)
      BY <3>1, <1>2
    <3>3. e # f => Apart(e, f)
      BY <1>1 DEF MapInv, Sound
    <3>4. z.base \in Nat /\ z.end \in Nat
      BY <3>2 DEF Entries
    <3>5. e = f
      BY <3>2, <3>3, <3>4, <2>1, <1>1 DEF Inside, Apart
    <3> QED BY <3>1, <3>5
  <2> QED BY <2>1, <1>2, <1>6
<1> HIDE DEF P
<1>7. P \subseteq Entries /\ \A x \in P : x.end <= base \/ end <= x.base
  BY <1>2, <1>4
<1> QED BY <1>2, <1>3, <1>4, <1>5, <1>6, <1>7 DEF P

LEMMA CountRefsType ==
  ASSUME NEW T, IsFiniteSet(T), NEW o
  PROVE  CountRefs(T, o) \in [object : Nat, amap : Nat]
<1>1. IsFiniteSet({e \in T : e.object = o}) /\ IsFiniteSet({e \in T : e.object = o /\ e.amap})
  BY FS_Subset
<1> QED BY <1>1, FS_CardinalityType DEF CountRefs

\* References are counted right when those of what comes are added and those of what
\* goes are dropped.
LEMMA CountReplaced ==
  ASSUME NEW T, IsFiniteSet(T), NEW O \in SUBSET T, NEW P, IsFiniteSet(P),
         P \cap (T \ O) = {}, NEW o
  PROVE  CountRefs((T \ O) \cup P, o)
           = Sub(Add(CountRefs(T, o), CountRefs(P, o)), CountRefs(O, o))
<1> DEFINE N == (T \ O) \cup P
           K == {e \in T \cup P : e.object = o}
           A == {e \in T \cup P : e.object = o /\ e.amap}
           k(X) == Cardinality(X \cap K)
           a(X) == Cardinality(X \cap A)
<1>1. \A X \in SUBSET (T \cup P) : CountRefs(X, o) = [object |-> k(X), amap |-> a(X)]
  <2> SUFFICES ASSUME NEW X \in SUBSET (T \cup P)
               PROVE  CountRefs(X, o) = [object |-> k(X), amap |-> a(X)]
    OBVIOUS
  <2>1. {e \in X : e.object = o} = X \cap K /\ {e \in X : e.object = o /\ e.amap} = X \cap A
    OBVIOUS
  <2> QED BY ZenonT(40), <2>1 DEF CountRefs
<1> HIDE DEF K, A
<1>2. N \in SUBSET (T \cup P) /\ T \in SUBSET (T \cup P) /\ P \in SUBSET (T \cup P) /\ O \in SUBSET (T \cup P)
  OBVIOUS
<1>3. k(N) = (k(T) + k(P)) - k(O) /\ a(N) = (a(T) + a(P)) - a(O)
  <2>1. Swapped(T, O, P, K) /\ Swapped(T, O, P, A)
    BY CountSwap
  <2> QED BY Zenon, <2>1 DEF Swapped
<1> HIDE DEF N, k, a
<1>4. /\ CountRefs(N, o) = [object |-> k(N), amap |-> a(N)]
      /\ CountRefs(T, o) = [object |-> k(T), amap |-> a(T)]
      /\ CountRefs(P, o) = [object |-> k(P), amap |-> a(P)]
      /\ CountRefs(O, o) = [object |-> k(O), amap |-> a(O)]
  BY <1>1, <1>2
<1>5. CountRefs(N, o) = Sub(Add(CountRefs(T, o), CountRefs(P, o)), CountRefs(O, o))
  BY <1>3, <1>4 DEF Sub, Add
<1> QED BY <1>5 DEF N

\* The loop of vm_unmap: what is left is sound, counted, and outside of the range.
LEMMA UnmapProps ==
  ASSUME MapInv, NEW base \in Nat, NEW end \in Nat, base < end
  PROVE  /\ Sound(UnmappedTree(base, end))
         /\ UnmappedRefs(base, end) \in [Objects -> [object : Nat, amap : Nat]]
         /\ \A o \in Objects : UnmappedRefs(base, end)[o] = CountRefs(UnmappedTree(base, end), o)
         /\ \A x \in UnmappedTree(base, end) :
              /\ x.end <= base \/ end <= x.base
              /\ \E e \in map_tree : e.object = x.object
<1> DEFINE O == Overlapping(base, end)
           P == CutOff(O, base, end)
           N == (map_tree \ O) \cup P
<1>1. UnmappedTree(base, end) = N
  BY DEF UnmappedTree, CutOff
<1>2. O \in SUBSET map_tree /\ IsFiniteSet(map_tree) /\ IsFiniteSet(P)
  BY OverProps, CutOffProps DEF MapInv, Sound
<1>3. Sound(N) /\ P \cap (map_tree \ O) = {}
  <2>1. /\ IsFiniteSet(P) /\ P \subseteq Entries
        /\ \A x \in P : \E e \in O : Inside(x, e.base, e.end)
        /\ \A x, y \in P : \A e \in O :
             x # y /\ Inside(x, e.base, e.end) /\ Inside(y, e.base, e.end) => Apart(x, y)
    BY CutOffProps
  <2> HIDE DEF O, P
  <2> QED BY <2>1, <1>2, SplitSound DEF MapInv
<1>4. ASSUME NEW o \in Objects PROVE UnmappedRefs(base, end)[o] = CountRefs(N, o)
  <2>1. UnmappedRefs(base, end)[o] = Sub(Add(refcnt[o], CountRefs(P, o)), CountRefs(O, o))
    BY DEF UnmappedRefs, CutOff
  <2>2. refcnt[o] = CountRefs(map_tree, o)
    BY DEF MapInv
  <2>3. CountRefs(N, o) = Sub(Add(CountRefs(map_tree, o), CountRefs(P, o)), CountRefs(O, o))
    <3> HIDE DEF O, P
    <3> QED BY <1>2, <1>3, CountReplaced
  <2> HIDE DEF O, P, N
  <2> QED BY <2>1, <2>2, <2>3
<1>5. ASSUME NEW x \in N
      PROVE  (x.end <= base \/ end <= x.base) /\ \E e \in map_tree : e.object = x.object
  <2>1. CASE x \in P
    <3>1. PICK e \in O : x \in Pieces(e, base, end)
      BY <2>1, CutOffProps
    <3> QED BY <2>1, <3>1, <1>2, CutOffProps
  <2>2. CASE x \in map_tree \ O
    BY <2>2, OverProps
  <2> QED BY <2>1, <2>2
<1> HIDE DEF N
<1>6. UnmappedRefs(base, end) \in [Objects -> [object : Nat, amap : Nat]]
  <2>1. \A o \in Objects : CountRefs(N, o) \in [object : Nat, amap : Nat]
    BY <1>3, CountRefsType DEF Sound
  <2>2. UnmappedRefs(base, end) = [o \in Objects |-> UnmappedRefs(base, end)[o]]
    BY DEF UnmappedRefs
  <2> QED BY <2>1, <2>2, <1>4
<1> QED BY <1>1, <1>3, <1>4, <1>5, <1>6

\* An object without references is mapped by no entry.
LEMMA FreshProps ==
  ASSUME MapInv, CanMap
  PROVE  /\ FreshObject \in Objects /\ refcnt[FreshObject] = NoRefs
         /\ \A e \in map_tree : e.object # FreshObject
<1>1. FreshObject \in Objects /\ refcnt[FreshObject] = NoRefs
  BY DEF CanMap, FreshObject
<1> DEFINE E == {e \in map_tree : e.object = FreshObject}
<1>2. Cardinality(E) = 0
  <2>1. CountRefs(map_tree, FreshObject) = NoRefs
    BY <1>1 DEF MapInv
  <2> QED BY <2>1 DEF CountRefs, NoRefs
<1>3. IsFiniteSet(E)
  BY FS_Subset DEF MapInv, Sound
<1> HIDE DEF E
<1>4. E = {}
  BY <1>2, <1>3, FS_EmptySet
<1> QED BY <1>1, <1>4 DEF E

\* RBT_INSERT of a new entry where there is room for it.
LEMMA InsertProps ==
  ASSUME MapInv, CanMap,
         NEW T, Sound(T), NEW R \in [Objects -> [object : Nat, amap : Nat]],
         \A o \in Objects : R[o] = CountRefs(T, o),
         \A x \in T : \E e \in map_tree : e.object = x.object,
         NEW base \in Nat, NEW length \in Nat \ {0}, NEW private \in BOOLEAN, NEW prot \in Prots,
         min_addr <= base, base + length <= max_addr,
         \A x \in T : x.end <= base \/ base + length <= x.base,
         Insert(T, R, base, length, private, prot)
  PROVE  MapInv'
<1> DEFINE e == init_map_entry(base, base + length, FreshObject, private, prot)
<1>1. /\ map_tree' = T \cup {e}
      /\ refcnt' = [R EXCEPT ![FreshObject] = CountRefs({e}, FreshObject)]
  BY DEF Insert
<1>2. /\ FreshObject \in Objects /\ \A x \in T : x.object # FreshObject
  BY FreshProps
<1>3. /\ e \in Entries /\ e.base = base /\ e.end = base + length
      /\ e.object = FreshObject /\ e.amap = private
  BY <1>2 DEF init_map_entry, Entries
<1> HIDE DEF e
<1>4. Sound(T \cup {e})
  <2>1. IsFiniteSet(T \cup {e}) /\ T \cup {e} \subseteq Entries
    BY <1>3, FS_AddElement DEF Sound
  <2>2. Inside(e, min_addr, max_addr)
    BY <1>3 DEF Inside
  <2>3. \A x \in T : Apart(e, x) /\ Apart(x, e)
    BY <1>3 DEF Apart
  <2> QED BY <2>1, <2>2, <2>3 DEF Sound
<1>5. ASSUME NEW o \in Objects PROVE refcnt'[o] = CountRefs(T \cup {e}, o)
  <2>1. CASE o = FreshObject
    <3>1. {x \in T \cup {e} : x.object = o} = {x \in {e} : x.object = o}
      BY <1>2, <2>1
    <3>2. {x \in T \cup {e} : x.object = o /\ x.amap} = {x \in {e} : x.object = o /\ x.amap}
      BY <1>2, <2>1
    <3>3. CountRefs(T \cup {e}, o) = CountRefs({e}, o)
      BY ZenonT(40), <3>1, <3>2 DEF CountRefs
    <3> QED BY <3>3, <1>1, <1>2, <2>1
  <2>2. CASE o # FreshObject
    <3>1. {x \in T \cup {e} : x.object = o} = {x \in T : x.object = o}
      BY <1>3, <2>2
    <3>2. {x \in T \cup {e} : x.object = o /\ x.amap} = {x \in T : x.object = o /\ x.amap}
      BY <1>3, <2>2
    <3>3. CountRefs(T \cup {e}, o) = CountRefs(T, o)
      BY ZenonT(40), <3>1, <3>2 DEF CountRefs
    <3> QED BY <3>3, <1>1, <2>2
  <2> QED BY <2>1, <2>2
<1>6. refcnt' \in [Objects -> [object : Nat, amap : Nat]]
  <2>1. CountRefs({e}, FreshObject) \in [object : Nat, amap : Nat]
    BY FS_Singleton, CountRefsType
  <2> QED BY <2>1, <1>1
<1>7. Sound(map_tree)'
  BY <1>1, <1>4 DEF Sound
<1>8. \A o \in Objects : refcnt'[o] = CountRefs(map_tree', o)
  BY <1>1, <1>5
<1> QED BY <1>6, <1>7, <1>8 DEF MapInv, CountRefs

\* RBT_MIN and RBT_MAX find the entries with the least and the greatest base.
LEMMA LowestProps ==
  ASSUME NEW E \in SUBSET Entries, E # {}
  PROVE  Lowest(E) \in E /\ \A f \in E : Lowest(E).base <= f.base
<1> DEFINE B == {e.base : e \in E}
<1>1. B \subseteq Nat /\ B # {}
  BY DEF Entries
<1>2. PICK b \in B : \A c \in B : b <= c
  BY <1>1, SmallestNat
<1>3. PICK e \in E : e.base = b
  OBVIOUS
<1>4. \A f \in E : e.base <= f.base
  BY <1>2, <1>3
<1> QED BY <1>4 DEF Lowest

LEMMA HighestProps ==
  ASSUME NEW E \in SUBSET Entries, E # {}, \A e \in E : e.base <= max_addr
  PROVE  Highest(E) \in E /\ \A f \in E : f.base <= Highest(E).base
<1> DEFINE B == {max_addr - e.base : e \in E}
<1>0. max_addr \in Nat /\ \A e \in E : e.base \in Nat
  BY VmMapAssumption DEF Entries
<1>1. B \subseteq Nat /\ B # {}
  BY <1>0
<1>2. PICK b \in B : \A c \in B : b <= c
  BY <1>1, SmallestNat
<1>3. PICK e \in E : max_addr - e.base = b
  OBVIOUS
<1>4. \A f \in E : f.base <= e.base
  <2> SUFFICES ASSUME NEW f \in E PROVE f.base <= e.base
    OBVIOUS
  <2>1. b <= max_addr - f.base
    BY <1>2
  <2> QED BY <2>1, <1>3, <1>0
<1> QED BY <1>4 DEF Highest

\* The gap above an entry is free.
LEMMA GapProps ==
  ASSUME MapInv, NEW e \in map_tree
  PROVE  /\ e.end <= GapEnd(e) /\ GapEnd(e) <= max_addr /\ GapEnd(e) \in Nat
         /\ \A x \in map_tree : x.end <= e.end \/ GapEnd(e) <= x.base
<1>1. \A x \in map_tree : /\ x \in Entries /\ x.base \in Nat /\ x.end \in Nat
                          /\ min_addr <= x.base /\ x.base < x.end /\ x.end <= max_addr
  BY DEF MapInv, Sound, Entries, Inside
<1>2. \A x, y \in map_tree : x # y => x.end <= y.base \/ y.end <= x.base
  BY DEF MapInv, Sound, Apart
<1>3. max_addr \in Nat /\ min_addr \in Nat
  BY VmMapAssumption
<1>4. \A x \in map_tree : ~(x.base > e.base) => x.end <= e.end
  BY <1>1, <1>2
<1>5. CASE Above(e) = {}
  <2>1. GapEnd(e) = max_addr
    BY <1>5 DEF GapEnd
  <2>2. \A x \in map_tree : ~(x.base > e.base)
    BY <1>5 DEF Above
  <2> QED BY <2>1, <2>2, <1>1, <1>3, <1>4
<1>6. CASE Above(e) # {}
  <2> DEFINE n == Lowest(Above(e))
  <2>1. n \in Above(e) /\ \A f \in Above(e) : n.base <= f.base
    <3>1. Above(e) \in SUBSET Entries
      BY <1>1 DEF Above
    <3> QED BY <3>1, <1>6, LowestProps
  <2>2. GapEnd(e) = n.base
    BY <1>6 DEF GapEnd
  <2> HIDE DEF n
  <2>3. n \in map_tree /\ n.base > e.base
    BY <2>1 DEF Above
  <2>4. \A x \in map_tree : x.base > e.base => n.base <= x.base
    BY <2>1 DEF Above
  <2>5. e.end <= n.base
    BY <2>3, <1>1, <1>2
  <2> QED BY <2>2, <2>3, <2>4, <2>5, <1>1, <1>3, <1>4
<1> QED BY <1>5, <1>6

\* alloc_map_range_locked: a base that it returns is that of a free range of the map.
FreeAt(base, length) ==
  /\ base \in Nat /\ min_addr <= base /\ base + length <= max_addr
  /\ \A x \in map_tree : x.end <= base \/ base + length <= x.base

LEMMA FreeRangeProps ==
  ASSUME MapInv, NEW hint \in Nat, NEW length \in Nat \ {0}
  PROVE  FreeRange(hint, length) \in {NOSPACE, NO_NEXT, NULL_NEXT} \/ FreeAt(FreeRange(hint, length), length)
<1> DEFINE want == MinOf(MaxOf(hint, min_addr), max_addr)
           below == {e \in map_tree : e.base < want}
           first == IF below = {} THEN Lowest(map_tree) ELSE Highest(below)
           last == Highest(map_tree)
           fits(e, at) == Above(e) # {} /\ GapEnd(e) - MaxOf(e.end, at) >= length
           ahead == {e \in map_tree : e.base >= first.base /\ fits(e, want)}
           wrapped == {e \in map_tree : fits(e, min_addr)}
           lowFits == Lowest(map_tree).base - min_addr >= length
<1>1. /\ min_addr \in Nat /\ max_addr \in Nat /\ min_addr <= max_addr
      /\ want \in Nat /\ min_addr <= want /\ want <= max_addr
  BY VmMapAssumption DEF MinOf, MaxOf
<1>2. map_tree \in SUBSET Entries
      /\ \A x \in map_tree : /\ x.base \in Nat /\ x.end \in Nat
                             /\ min_addr <= x.base /\ x.base < x.end /\ x.end <= max_addr
  BY DEF MapInv, Sound, Entries, Inside
<1> HIDE DEF want
<1>3. ASSUME map_tree = {}, length <= max_addr - min_addr
      PROVE  FreeAt(IF want + length <= max_addr THEN want ELSE min_addr, length)
  BY <1>1, <1>3 DEF FreeAt
<1>4. ASSUME map_tree # {}, lowFits PROVE FreeAt(min_addr, length)
  BY <1>1, <1>2, <1>4, LowestProps DEF FreeAt
<1>5. ASSUME NEW e \in map_tree, NEW at \in Nat, fits(e, at) PROVE FreeAt(MaxOf(e.end, at), length)
  <2>1. /\ GapEnd(e) \in Nat /\ GapEnd(e) <= max_addr
        /\ \A x \in map_tree : x.end <= e.end \/ GapEnd(e) <= x.base
    BY GapProps
  <2> DEFINE b == MaxOf(e.end, at)
  <2>2. b \in Nat /\ e.end <= b /\ at <= b
    BY <1>2 DEF MaxOf
  <2>3. GapEnd(e) - b >= length
    BY <1>5
  <2> HIDE DEF b
  <2>4. FreeAt(b, length)
    BY <1>1, <1>2, <2>1, <2>2, <2>3 DEF FreeAt
  <2> QED BY <2>4 DEF b
<1>6. ASSUME ahead # {} PROVE FreeAt(MaxOf(Lowest(ahead).end, want), length)
  <2>1. ahead \in SUBSET Entries
    BY <1>2
  <2>2. Lowest(ahead) \in ahead
    BY <2>1, <1>6, LowestProps
  <2> QED BY <2>2, <1>1, <1>5
<1>7. ASSUME wrapped # {} PROVE FreeAt(Lowest(wrapped).end, length)
  <2>1. wrapped \in SUBSET Entries
    BY <1>2
  <2>2. Lowest(wrapped) \in wrapped
    BY <2>1, <1>7, LowestProps
  <2>3. FreeAt(MaxOf(Lowest(wrapped).end, min_addr), length)
    BY <2>2, <1>1, <1>5
  <2>4. MaxOf(Lowest(wrapped).end, min_addr) = Lowest(wrapped).end
    BY <2>2, <1>1, <1>2 DEF MaxOf
  <2> QED BY <2>3, <2>4
<1>8. ASSUME map_tree # {}, last.end + length <= max_addr PROVE FreeAt(last.end, length)
  <2>1. \A e \in map_tree : e.base <= max_addr
    BY <1>1, <1>2
  <2>2. last \in map_tree /\ \A e \in map_tree : e.base <= last.base
    BY <2>1, <1>2, <1>8, HighestProps
  <2>3. \A x, y \in map_tree : x # y => x.end <= y.base \/ y.end <= x.base
    BY DEF MapInv, Sound, Apart
  <2>4. \A x \in map_tree : x.end <= last.end
    BY <2>2, <2>3, <1>2
  <2> QED BY <2>2, <2>4, <1>1, <1>2, <1>8 DEF FreeAt
<1> DEFINE r == IF length > max_addr - min_addr THEN NOSPACE
     ELSE IF map_tree = {} THEN IF want + length <= max_addr THEN want ELSE min_addr
     ELSE IF below = map_tree THEN NO_NEXT
     ELSE IF below = {} /\ lowFits THEN min_addr
     ELSE IF ahead # {} THEN MaxOf(Lowest(ahead).end, want)
     ELSE IF last.end + length <= max_addr THEN last.end
     ELSE IF below = {} /\ first = last THEN NULL_NEXT
     ELSE IF hint = 0 THEN NOSPACE
     ELSE IF lowFits THEN min_addr
     ELSE IF wrapped # {} THEN Lowest(wrapped).end
     ELSE NOSPACE
<1>9. FreeRange(hint, length) = r
  BY DEF FreeRange, want
<1>10. ~(length > max_addr - min_addr) => length <= max_addr - min_addr
  BY <1>1
<1> HIDE DEF below, first, last, ahead, wrapped, lowFits
<1>11. r \in {NOSPACE, NO_NEXT, NULL_NEXT} \/ FreeAt(r, length)
  BY <1>3, <1>4, <1>6, <1>7, <1>8, <1>10
<1> QED BY <1>9, <1>11

\* vm_map and vm_map_fixed.
LEMMA MapCallInv ==
  ASSUME MapInv, NEW length \in Lengths, NEW private \in BOOLEAN, NEW prot \in Prots,
         \/ \E hint \in Hints : vm_map(hint, length, private, prot)
         \/ \E base \in Pages : vm_map_fixed(base, length, private, prot)
  PROVE  MapInv'
<1>0. length \in Nat \ {0} /\ Hints \subseteq Nat /\ min_addr \in Nat /\ max_addr \in Nat
  BY VmMapAssumption
<1>s. ASSUME UNCHANGED <<map_tree, refcnt>> PROVE MapInv'
  BY <1>s DEF MapInv, Sound, CountRefs
<1>1. ASSUME NEW hint \in Hints, vm_map(hint, length, private, prot) PROVE MapInv'
  <2> DEFINE base == FreeRange(hint, length)
  <2>1. CASE base \in {NO_NEXT, NULL_NEXT}
    BY <2>1, <1>1, <1>s DEF vm_map, Panic
  <2>2. CASE base \notin {NO_NEXT, NULL_NEXT}
    <3>1. /\ CanMap /\ base # NOSPACE
          /\ Insert(map_tree, refcnt, base, length, private, prot)
      BY <2>2, <1>1 DEF vm_map
    <3>2. FreeAt(base, length)
      BY <2>2, <3>1, <1>0, FreeRangeProps
    <3> HIDE DEF base
    <3>3. /\ Sound(map_tree) /\ refcnt \in [Objects -> [object : Nat, amap : Nat]]
          /\ \A o \in Objects : refcnt[o] = CountRefs(map_tree, o)
      BY DEF MapInv
    <3> QED BY <3>1, <3>2, <3>3, <1>0, InsertProps DEF FreeAt
  <2> QED BY <2>1, <2>2
<1>2. ASSUME NEW base \in Pages, vm_map_fixed(base, length, private, prot) PROVE MapInv'
  <2>1. base \in Nat /\ base + length \in Nat /\ base < base + length
    BY <1>0 DEF Pages
  <2>2. CASE UnmapPanics(base, base + length)
    BY <2>2, <1>2, <1>s DEF vm_map_fixed, Panic
  <2>3. CASE ~UnmapPanics(base, base + length)
    <3> DEFINE T == UnmappedTree(base, base + length)
               R == UnmappedRefs(base, base + length)
    <3>1. /\ CanMap /\ min_addr <= base /\ base + length <= max_addr
          /\ Insert(T, R, base, length, private, prot)
      BY <2>3, <1>2, <2>1, <1>0 DEF vm_map_fixed
    <3>2. /\ Sound(T) /\ R \in [Objects -> [object : Nat, amap : Nat]]
          /\ \A o \in Objects : R[o] = CountRefs(T, o)
          /\ \A x \in T : /\ x.end <= base \/ base + length <= x.base
                          /\ \E e \in map_tree : e.object = x.object
      BY <2>1, UnmapProps
    <3> HIDE DEF T, R
    <3> QED BY <3>1, <3>2, <2>1, <1>0, InsertProps
  <2> QED BY <2>2, <2>3
<1> QED BY <1>1, <1>2

\* vm_unmap.
LEMMA UnmapCallInv ==
  ASSUME MapInv, NEW base \in Pages, NEW length \in Lengths, vm_unmap(base, length)
  PROVE  MapInv'
<1>0. base \in Nat /\ base + length \in Nat /\ base < base + length
  BY VmMapAssumption DEF Pages
<1>1. CASE UnmapPanics(base, base + length)
  BY <1>1 DEF vm_unmap, Panic, MapInv, Sound, CountRefs
<1>2. CASE ~UnmapPanics(base, base + length)
  <2>1. map_tree' = UnmappedTree(base, base + length) /\ refcnt' = UnmappedRefs(base, base + length)
    BY <1>2 DEF vm_unmap
  <2>2. /\ Sound(map_tree') /\ refcnt' \in [Objects -> [object : Nat, amap : Nat]]
        /\ \A o \in Objects : refcnt'[o] = CountRefs(map_tree', o)
    BY <1>0, <2>1, UnmapProps
  <2> QED BY <2>2 DEF MapInv, Sound, CountRefs
<1> QED BY <1>1, <1>2

\* A function that is injective on a finite set has as many values there.
LEMMA ImageCount ==
  ASSUME NEW S, IsFiniteSet(S), NEW f, S \subseteq DOMAIN f,
         \A x, y \in S : f[x] = f[y] => x = y
  PROVE  IsFiniteSet({f[x] : x \in S}) /\ Cardinality({f[x] : x \in S}) = Cardinality(S)
<1> DEFINE g == [x \in S |-> f[x]]
           V == {f[x] : x \in S}
<1>1. g \in Bijection(S, V)
  <2>1. g \in [S -> V] /\ \A x \in S : g[x] = f[x]
    OBVIOUS
  <2>2. \A v \in V : \E x \in S : g[x] = v
    OBVIOUS
  <2> HIDE DEF g, V
  <2> QED BY <2>1, <2>2 DEF Bijection, Injection, Surjection, IsInjective
<1> HIDE DEF g, V
<1>2. ExistsBijection(S, V)
  BY <1>1 DEF ExistsBijection
<1>3. IsFiniteSet(V) /\ Cardinality(V) = Cardinality(S)
  BY <1>2, FS_Bijection
<1> QED BY <1>3 DEF V

\* vm_protect, one entry: the part in the range keeps its place and what it shows.
LEMMA ChangedProps ==
  ASSUME NEW e \in Entries, e.base < e.end, NEW base \in Nat, NEW end \in Nat,
         base < end, e.base < end, base < e.end, NEW prot \in Prots, NEW setmax
  PROVE  LET c == Changed(e, base, end, prot, setmax)
         IN  /\ c \in Entries
             /\ c.base = MaxOf(e.base, base) /\ c.end = MinOf(e.end, end)
             /\ Inside(c, e.base, e.end) /\ base <= c.base /\ c.end <= end
             /\ c.object = e.object /\ c.amap = e.amap
             /\ c.offset - c.base = e.offset - e.base
             /\ e \in Denied(base, end, prot, setmax) =>
                  c.protection = e.protection /\ c.max_protection = e.max_protection
             /\ e \notin Denied(base, end, prot, setmax) =>
                  c.protection = prot
                  /\ c.max_protection = IF setmax THEN prot ELSE e.max_protection
<1> DEFINE b == MaxOf(e.base, base)
           f == MinOf(e.end, end)
           m == [e EXCEPT !.base = b, !.end = f, !.offset = @ + b - e.base]
           n == [m EXCEPT !.protection = prot, !.max_protection = IF setmax THEN prot ELSE @]
<1>e. e.base \in Nat /\ e.end \in Nat /\ e.offset \in Int
  BY DEF Entries
<1>1. /\ b \in Nat /\ f \in Nat /\ b < f /\ base <= b /\ e.base <= b /\ f <= end /\ f <= e.end
      /\ e.offset + b - e.base \in Int
      /\ (e.offset + b - e.base) - b = e.offset - e.base
  BY <1>e DEF MaxOf, MinOf
<1>2. Changed(e, base, end, prot, setmax)
        = IF e \in Denied(base, end, prot, setmax) THEN m ELSE n
  BY DEF Changed, Middle, SplitBase, SplitEnd
<1>3. /\ Inside([base |-> b, end |-> f], e.base, e.end)
  BY <1>1 DEF Inside
<1> HIDE DEF b, f
<1>4. m \in Entries
  BY <1>1 DEF Entries
<1>5. /\ m.base = b /\ m.end = f /\ m.offset = e.offset + b - e.base
      /\ m.object = e.object /\ m.amap = e.amap
      /\ m.protection = e.protection /\ m.max_protection = e.max_protection
  BY DEF Entries
<1> HIDE DEF m
<1>6. n \in Entries
  BY <1>4 DEF Entries
<1>7. /\ n.base = b /\ n.end = f /\ n.offset = e.offset + b - e.base
      /\ n.object = e.object /\ n.amap = e.amap
      /\ n.protection = prot /\ n.max_protection = IF setmax THEN prot ELSE e.max_protection
  BY <1>4, <1>5 DEF Entries
<1> HIDE DEF n
<1>8. CASE e \in Denied(base, end, prot, setmax)
  BY <1>1, <1>2, <1>4, <1>5, <1>8 DEF Inside, b, f
<1>9. CASE e \notin Denied(base, end, prot, setmax)
  BY <1>1, <1>2, <1>6, <1>7, <1>9 DEF Inside, b, f
<1> QED BY <1>8, <1>9

\* The changed entries are as many as there were, and each has its object.
ChangedOf(R, base, end, prot, setmax) == {Changed(e, base, end, prot, setmax) : e \in R}

LEMMA ChangedCount ==
  ASSUME MapInv, NEW base \in Nat, NEW end \in Nat, base < end, NEW prot \in Prots, NEW setmax,
         NEW R \in SUBSET Overlapping(base, end), NEW o
  PROVE  /\ IsFiniteSet(ChangedOf(R, base, end, prot, setmax))
         /\ CountRefs(ChangedOf(R, base, end, prot, setmax), o) = CountRefs(R, o)
<1> DEFINE C == ChangedOf(R, base, end, prot, setmax)
           f == [e \in R |-> Changed(e, base, end, prot, setmax)]
<1>1. C = {f[e] : e \in R}
  BY DEF ChangedOf
<1>2. \A e \in R : /\ e \in map_tree /\ f[e] \in Entries /\ Inside(f[e], e.base, e.end)
                   /\ f[e].object = e.object /\ f[e].amap = e.amap
                   /\ e.base \in Nat /\ e.end \in Nat
  BY OverProps, ChangedProps
<1>d. R = DOMAIN f
  OBVIOUS
<1> HIDE DEF C, f
<1>3. ASSUME NEW x \in R, NEW y \in R, f[x] = f[y] PROVE x = y
  <2>1. x # y => Apart(x, y)
    BY <1>2 DEF MapInv, Sound
  <2>2. f[x].base \in Nat /\ f[x].end \in Nat
    BY <1>2 DEF Entries
  <2> QED BY <2>1, <2>2, <1>2, <1>3 DEF Apart, Inside
<1>4. IsFiniteSet(R)
  BY OverProps, FS_Subset DEF MapInv, Sound
<1>5. ASSUME NEW S \in SUBSET R PROVE Cardinality({f[x] : x \in S}) = Cardinality(S)
  <2>1. IsFiniteSet(S) /\ S \subseteq DOMAIN f /\ \A x, y \in S : f[x] = f[y] => x = y
    BY <1>3, <1>4, <1>d, FS_Subset
  <2> QED BY <2>1, ImageCount
<1> DEFINE S1 == {e \in R : e.object = o}
           S2 == {e \in R : e.object = o /\ e.amap}
<1>6. {x \in C : x.object = o} = {f[e] : e \in S1}
  BY <1>1, <1>2
<1>7. {x \in C : x.object = o /\ x.amap} = {f[e] : e \in S2}
  BY <1>1, <1>2
<1>8. S1 \in SUBSET R /\ S2 \in SUBSET R
  OBVIOUS
<1>9. CountRefs(R, o) = [object |-> Cardinality(S1), amap |-> Cardinality(S2)]
  BY DEF CountRefs
<1> HIDE DEF S1, S2
<1>10. CountRefs(C, o) = CountRefs(R, o)
  <2>1. CountRefs(C, o) = [object |-> Cardinality({f[e] : e \in S1}), amap |-> Cardinality({f[e] : e \in S2})]
    BY Zenon, <1>6, <1>7 DEF CountRefs
  <2> QED BY Zenon, <2>1, <1>5, <1>8, <1>9
<1>11. IsFiniteSet(C)
  <2>1. R \subseteq DOMAIN f /\ \A x, y \in R : f[x] = f[y] => x = y
    BY <1>3, <1>d
  <2> QED BY <2>1, <1>1, <1>4, ImageCount
<1> QED BY <1>10, <1>11 DEF C

\* vm_protect keeps the entries sound and the references exact.
LEMMA ProtectCallInv ==
  ASSUME MapInv, NEW base \in Pages, NEW length \in Lengths, NEW prot \in Prots,
         NEW setmax \in BOOLEAN, vm_protect(base, length, prot, setmax)
  PROVE  MapInv'
<1> DEFINE end == base + length
           R == Reached(base, end, prot, setmax)
           P == CutOff(R, base, end)
           C == ChangedOf(R, base, end, prot, setmax)
           N == (map_tree \ R) \cup (P \cup C)
<1>0. base \in Nat /\ end \in Nat /\ base < end
  BY VmMapAssumption DEF Pages
<1>1. CASE \E e \in R : CarveAsserts(e, base, end)
  BY <1>1 DEF vm_protect, Panic, MapInv, Sound, CountRefs
<1>2. CASE ~\E e \in R : CarveAsserts(e, base, end)
  <2>1. /\ map_tree' = N
        /\ refcnt' = [o \in Objects |-> Add(refcnt[o], CountRefs(P, o))]
    BY <1>2 DEF vm_protect, CutOff, ChangedOf
  <2> HIDE DEF end
  <2>2. R \in SUBSET Overlapping(base, end) /\ R \in SUBSET map_tree
    BY OverProps DEF Reached
  <2> HIDE DEF R
  <2>3. \A e \in R : /\ e \in Entries /\ e.base \in Nat /\ e.end \in Nat
                     /\ e.base < e.end /\ e.base < end /\ base < e.end
    BY <2>2, OverProps
  <2>p. /\ IsFiniteSet(P) /\ P \subseteq Entries
        /\ \A x \in P : (x.end <= base \/ end <= x.base) /\ \E e \in R : Inside(x, e.base, e.end)
        /\ \A x, y \in P : \A e \in R :
              x # y /\ Inside(x, e.base, e.end) /\ Inside(y, e.base, e.end) => Apart(x, y)
    <3>1. base \in Nat /\ end \in Nat /\ base < end
      BY <1>0
    <3> HIDE DEF P
    <3>2. P = CutOff(R, base, end)
      BY DEF P
    <3> HIDE DEF N, C
    <3>3. /\ IsFiniteSet(P) /\ P \subseteq Entries
          /\ \A x \in P : (x.end <= base \/ end <= x.base) /\ \E e \in R : x \in Pieces(e, base, end)
          /\ \A e \in R : \A x \in Pieces(e, base, end) : Inside(x, e.base, e.end)
          /\ \A x, y \in P : \A e \in R :
                x # y /\ Inside(x, e.base, e.end) /\ Inside(y, e.base, e.end) => Apart(x, y)
      <4> DEFINE Q == CutOff(R, base, end)
      <4>1. /\ IsFiniteSet(Q) /\ Q \subseteq Entries
            /\ \A x \in Q : (x.end <= base \/ end <= x.base) /\ \E e \in R : x \in Pieces(e, base, end)
            /\ \A e \in R : \A x \in Pieces(e, base, end) : Inside(x, e.base, e.end)
            /\ \A x, y \in Q : \A e \in R :
                  x # y /\ Inside(x, e.base, e.end) /\ Inside(y, e.base, e.end) => Apart(x, y)
        BY <2>2, <3>1, CutOffProps
      <4> HIDE DEF Q
      <4> QED BY Zenon, <3>2, <4>1 DEF Q
    <3> QED BY Zenon, <3>3
  <2>c. /\ IsFiniteSet(C) /\ C \subseteq Entries
        /\ \A x \in C : base <= x.base /\ x.end <= end /\ x.base < x.end
        /\ \A x \in C : \E e \in R : x = Changed(e, base, end, prot, setmax)
        /\ \A e \in R : Inside(Changed(e, base, end, prot, setmax), e.base, e.end)
    <3>1. IsFiniteSet(C)
      BY <1>0, <2>2, ChangedCount
    <3>2. \A e \in R : LET c == Changed(e, base, end, prot, setmax)
                       IN  c \in Entries /\ Inside(c, e.base, e.end) /\ base <= c.base /\ c.end <= end
      BY <1>0, <2>3, ChangedProps
    <3>3. \A x \in C : \E e \in R : x = Changed(e, base, end, prot, setmax)
      BY DEF ChangedOf
    <3> HIDE DEF C
    <3> QED BY <3>1, <3>2, <3>3 DEF Inside
  <2> HIDE DEF P, C
  <2>4. P \cap C = {} /\ \A x \in P, y \in C : Apart(x, y) /\ Apart(y, x)
    <3>1. \A x \in P : x.base \in Nat /\ x.end \in Nat
      BY <2>p DEF Entries
    <3>2. \A x \in C : x.base \in Nat /\ x.end \in Nat
      BY <2>c DEF Entries
    <3>3. \A x \in P, y \in C : Apart(x, y) /\ Apart(y, x)
      BY <3>1, <3>2, <2>p, <2>c, <1>0 DEF Apart
    <3>4. \A x \in C : ~Apart(x, x)
      BY <3>2, <2>c DEF Apart
    <3> QED BY <3>3, <3>4
  <2>5. ASSUME NEW x \in C, NEW e \in R, Inside(x, e.base, e.end)
        PROVE  x = Changed(e, base, end, prot, setmax)
    <3>1. PICK f \in R : x = Changed(f, base, end, prot, setmax)
      BY <2>c
    <3>2. Inside(x, f.base, f.end) /\ x.base \in Nat /\ x.end \in Nat
      BY <3>1, <2>c DEF Entries
    <3>3. e # f => Apart(e, f)
      BY <2>2 DEF MapInv, Sound
    <3>4. e = f
      BY <3>2, <3>3, <2>3, <2>5 DEF Inside, Apart
    <3> QED BY <3>1, <3>4
  <2>6. Sound(N) /\ (P \cup C) \cap (map_tree \ R) = {}
    <3> DEFINE Q == P \cup C
    <3>1. IsFiniteSet(Q) /\ Q \subseteq Entries
      BY <2>p, <2>c, FS_Union
    <3>2. \A x \in Q : \E e \in R : Inside(x, e.base, e.end)
      BY <2>p, <2>c
    <3>3. \A x, y \in Q : \A e \in R :
             x # y /\ Inside(x, e.base, e.end) /\ Inside(y, e.base, e.end) => Apart(x, y)
      BY <2>p, <2>4, <2>5
    <3> HIDE DEF Q
    <3>4. Sound((map_tree \ R) \cup Q) /\ Q \cap (map_tree \ R) = {}
      BY <3>1, <3>2, <3>3, <2>2, SplitSound DEF MapInv
    <3> QED BY <3>4 DEF Q
  <2>7. ASSUME NEW o \in Objects PROVE refcnt'[o] = CountRefs(N, o)
    <3>1. CountRefs(C, o) = CountRefs(R, o)
      BY <1>0, <2>2, ChangedCount DEF C
    <3>2. CountRefs(P \cup C, o) = Add(CountRefs(P, o), CountRefs(C, o))
      <4> DEFINE none == {}
      <4>1. none \in SUBSET P /\ C \cap (P \ none) = {} /\ (P \ none) \cup C = P \cup C
        BY <2>4
      <4>2. CountRefs(none, o) = NoRefs
        <5>1. {e \in none : e.object = o} = {} /\ {e \in none : e.object = o /\ e.amap} = {}
          OBVIOUS
        <5> QED BY Zenon, <5>1, FS_EmptySet DEF CountRefs, NoRefs
      <4> HIDE DEF none
      <4>3. CountRefs((P \ none) \cup C, o)
              = Sub(Add(CountRefs(P, o), CountRefs(C, o)), CountRefs(none, o))
        BY <4>1, <2>p, <2>c, CountReplaced
      <4>4. CountRefs(P, o) \in [object : Nat, amap : Nat] /\ CountRefs(C, o) \in [object : Nat, amap : Nat]
        BY <2>p, <2>c, CountRefsType
      <4>5. \A r, s \in [object : Nat, amap : Nat] : Sub(Add(r, s), NoRefs) = Add(r, s)
        BY DEF Sub, Add, NoRefs
      <4> QED BY Zenon, <4>1, <4>2, <4>3, <4>4, <4>5
    <3>3. CountRefs(N, o) = Sub(Add(CountRefs(map_tree, o), CountRefs(P \cup C, o)), CountRefs(R, o))
      <4> DEFINE Q == P \cup C
      <4>1. IsFiniteSet(Q) /\ IsFiniteSet(map_tree) /\ Q \cap (map_tree \ R) = {}
        BY <2>p, <2>c, <2>6, FS_Union DEF MapInv, Sound
      <4> HIDE DEF Q
      <4>2. CountRefs((map_tree \ R) \cup Q, o)
              = Sub(Add(CountRefs(map_tree, o), CountRefs(Q, o)), CountRefs(R, o))
        BY <4>1, <2>2, CountReplaced
      <4> QED BY <4>2 DEF Q
    <3>4. /\ CountRefs(map_tree, o) \in [object : Nat, amap : Nat]
          /\ CountRefs(P, o) \in [object : Nat, amap : Nat]
          /\ CountRefs(R, o) \in [object : Nat, amap : Nat]
      <4>1. IsFiniteSet(map_tree) /\ IsFiniteSet(R)
        BY <2>2, FS_Subset DEF MapInv, Sound
      <4> QED BY <4>1, <2>p, CountRefsType
    <3>5. \A r, s, q \in [object : Nat, amap : Nat] : Sub(Add(r, Add(s, q)), q) = Add(r, s)
      BY DEF Sub, Add
    <3>6. refcnt'[o] = Add(CountRefs(map_tree, o), CountRefs(P, o))
      BY <2>1 DEF MapInv
    <3> HIDE DEF N
    <3>7. Sub(Add(CountRefs(map_tree, o), Add(CountRefs(P, o), CountRefs(R, o))), CountRefs(R, o))
            = Add(CountRefs(map_tree, o), CountRefs(P, o))
      BY Zenon, <3>4, <3>5
    <3>8. CountRefs(N, o)
            = Sub(Add(CountRefs(map_tree, o), Add(CountRefs(P, o), CountRefs(R, o))), CountRefs(R, o))
      BY Zenon, <3>1, <3>2, <3>3
    <3> QED BY Zenon, <3>6, <3>7, <3>8
  <2>8. refcnt' \in [Objects -> [object : Nat, amap : Nat]]
    <3>1. \A o \in Objects : CountRefs(N, o) \in [object : Nat, amap : Nat]
      BY <2>6, CountRefsType DEF Sound
    <3> HIDE DEF N
    <3> QED BY <2>1, <2>7, <3>1
  <2> HIDE DEF N
  <2> QED BY <2>1, <2>6, <2>7, <2>8 DEF MapInv, Sound, CountRefs
<1> QED BY <1>1, <1>2

\* An empty map.
LEMMA MapInitInv == vm_map_init => MapInv
<1> SUFFICES ASSUME vm_map_init PROVE MapInv
  OBVIOUS
<1>1. map_tree = {} /\ refcnt = [o \in Objects |-> NoRefs]
  BY DEF vm_map_init
<1>2. NoRefs \in [object : Nat, amap : Nat]
  BY DEF NoRefs
<1>3. \A o : CountRefs({}, o) = NoRefs
  <2>1. \A o : {e \in {} : e.object = o} = {} /\ {e \in {} : e.object = o /\ e.amap} = {}
    OBVIOUS
  <2> QED BY Zenon, <2>1, FS_EmptySet DEF CountRefs, NoRefs
<1>4. Sound({})
  BY FS_EmptySet DEF Sound
<1> QED BY <1>1, <1>2, <1>3, <1>4 DEF MapInv

\* Every call keeps the invariant.
LEMMA MapStepInv == MapInv /\ [VmMapNext]_vmMapVars => MapInv'
<1> SUFFICES ASSUME MapInv, [VmMapNext]_vmMapVars PROVE MapInv'
  OBVIOUS
<1>1. CASE UNCHANGED vmMapVars
  BY <1>1 DEF vmMapVars, MapInv, Sound, CountRefs
<1> QED BY <1>1, MapCallInv, UnmapCallInv, ProtectCallInv DEF VmMapNext

\* VmMap: entries never overlap or leave the map, and each object and amap has exactly
\* one reference per entry, for any calls on a map of any size (map.c:169-540).
THEOREM EntriesSound == VmMapSpec => []EntriesAreSound
<1>1. MapInv => EntriesAreSound
  BY DEF MapInv, Sound, EntriesAreSound, Inside, Apart
<1> QED BY <1>1, MapInitInv, MapStepInv, PTL DEF VmMapSpec

-----------------------------------------------------------------------------
\* The refinement of PageSpace.  What the entries of a tree show at a page.
Has(e, p) == e.base <= p /\ p < e.end
Page(e, p) == [obj |-> e.object, page |-> e.offset + p - e.base,
               prot |-> e.protection, max |-> e.max_protection]
SpaceAt(T, p) ==
  IF \E e \in T : p \in e.base .. e.end - 1
  THEN LET e == CHOOSE x \in T : p \in x.base .. x.end - 1 IN Page(e, p)
  ELSE Free

LEMMA SpaceIs ==
  /\ Space = [p \in Pages |-> SpaceAt(map_tree, p)]
  /\ Space' = [p \in Pages |-> SpaceAt(map_tree', p)]
BY DEF Space, SpaceAt, Page

\* One entry at most has a page, and it says what the page shows.
LEMMA SpaceAtProps ==
  ASSUME NEW T, Sound(T), NEW p \in Pages
  PROVE  /\ p \in Nat
         /\ \A e \in T : Has(e, p) => SpaceAt(T, p) = Page(e, p)
         /\ (\A e \in T : ~Has(e, p)) => SpaceAt(T, p) = Free
<1>0. p \in Nat
  BY VmMapAssumption DEF Pages
<1>1. \A e \in T : e.base \in Nat /\ e.end \in Nat
  BY DEF Sound, Entries
<1>2. \A e \in T : p \in e.base .. e.end - 1 <=> Has(e, p)
  BY <1>0, <1>1 DEF Has
<1>3. \A e, f \in T : Has(e, p) /\ Has(f, p) => e = f
  <2> SUFFICES ASSUME NEW e \in T, NEW f \in T, Has(e, p), Has(f, p), e # f PROVE FALSE
    OBVIOUS
  <2>1. Apart(e, f)
    BY DEF Sound
  <2> QED BY <2>1, <1>0, <1>1 DEF Has, Apart
<1>4. ASSUME NEW e \in T, Has(e, p) PROVE SpaceAt(T, p) = Page(e, p)
  <2>1. e = CHOOSE x \in T : p \in x.base .. x.end - 1
    BY <1>2, <1>3, <1>4
  <2> QED BY <2>1, <1>2, <1>4 DEF SpaceAt
<1>5. ASSUME \A e \in T : ~Has(e, p) PROVE SpaceAt(T, p) = Free
  BY <1>2, <1>5 DEF SpaceAt
<1> QED BY <1>0, <1>4, <1>5

\* A part of an entry shows at its pages what the entry showed there.
LEMMA PartShows ==
  ASSUME NEW e \in Entries, NEW x \in Entries, NEW p \in Nat,
         x.object = e.object, x.offset - x.base = e.offset - e.base
  PROVE  /\ Page(x, p).obj = e.object /\ Page(x, p).page = Page(e, p).page
         /\ x.protection = e.protection /\ x.max_protection = e.max_protection => Page(x, p) = Page(e, p)
<1>1. /\ x.offset \in Int /\ x.base \in Int /\ e.offset \in Int /\ e.base \in Int
  BY DEF Entries
<1>2. x.offset + p - x.base = e.offset + p - e.base
  <2> DEFINE a == x.offset
             b == x.base
             c == e.offset
             d == e.base
  <2>1. a \in Int /\ b \in Int /\ c \in Int /\ d \in Int /\ a - b = c - d
    BY <1>1
  <2> HIDE DEF a, b, c, d
  <2>2. a + p - b = c + p - d
    BY <2>1
  <2> QED BY <2>2 DEF a, b, c, d
<1> QED BY <1>2 DEF Page

\* munmap shows nothing in its range and changes nothing elsewhere.
LEMMA UnmapSpace ==
  ASSUME MapInv, NEW base \in Nat, NEW end \in Nat, base < end, NEW p \in Pages
  PROVE  SpaceAt(UnmappedTree(base, end), p)
           = IF base <= p /\ p < end THEN Free ELSE SpaceAt(map_tree, p)
<1> DEFINE O == Overlapping(base, end)
           P == CutOff(O, base, end)
           N == UnmappedTree(base, end)
<1>1. N = (map_tree \ O) \cup P
  BY DEF UnmappedTree, CutOff
<1>2. Sound(N) /\ Sound(map_tree) /\ \A x \in N : x.end <= base \/ end <= x.base
  BY UnmapProps DEF MapInv
<1>3. p \in Nat /\ \A x \in N : x.base \in Nat /\ x.end \in Nat
  BY <1>2, SpaceAtProps DEF Sound, Entries
<1> HIDE DEF N
<1>4. CASE base <= p /\ p < end
  <2>1. \A x \in N : ~Has(x, p)
    BY <1>2, <1>3, <1>4 DEF Has
  <2> QED BY <2>1, <1>2, <1>4, SpaceAtProps DEF N
<1>5. CASE ~(base <= p /\ p < end)
  <2>1. ASSUME NEW e \in map_tree, Has(e, p) PROVE SpaceAt(N, p) = Page(e, p)
    <3>1. CASE e \notin O
      <4>1. e \in N
        BY <3>1, <1>1
      <4> QED BY <4>1, <2>1, <1>2, SpaceAtProps
    <3>2. CASE e \in O
      <4>1. /\ e \in Entries /\ e.base < e.end /\ e.base < end /\ base < e.end
            /\ e.base \in Nat /\ e.end \in Nat
        BY <3>2, OverProps
      <4>2. PICK x \in Pieces(e, base, end) : Has(x, p)
        <5>1. e.base <= p /\ p < e.end /\ (p < base \/ end <= p)
          BY <2>1, <1>3, <1>5 DEF Has
        <5>2. \A q \in Int : e.base <= q /\ q < e.end /\ (q < base \/ end <= q)
                => \E x \in Pieces(e, base, end) : x.base <= q /\ q < x.end
          BY <4>1, PieceProps
        <5> QED BY <5>1, <5>2, <1>3 DEF Has
      <4>3. /\ x \in N /\ x \in Entries /\ x.object = e.object
            /\ x.protection = e.protection /\ x.max_protection = e.max_protection
            /\ x.offset - x.base = e.offset - e.base
        <5>1. x \in P
          BY <3>2, <4>2, CutOffProps
        <5> QED BY <5>1, <1>1, <4>1, <4>2, PieceProps
      <4>4. Page(x, p) = Page(e, p)
        BY <4>1, <4>3, <1>3, PartShows
      <4> QED BY <4>2, <4>3, <4>4, <1>2, SpaceAtProps
    <3> QED BY <3>1, <3>2
  <2>2. ASSUME \A e \in map_tree : ~Has(e, p) PROVE SpaceAt(N, p) = Free
    <3>1. ASSUME NEW x \in N PROVE ~Has(x, p)
      <4>1. CASE x \in P
        <5>1. PICK e \in O : x \in Pieces(e, base, end)
          BY <4>1, CutOffProps
        <5>2. Inside(x, e.base, e.end)
          BY <5>1, CutOffProps
        <5>3. e \in map_tree /\ e.base \in Nat /\ e.end \in Nat /\ ~Has(e, p)
          BY <5>1, <2>2, OverProps
        <5> QED BY <5>2, <5>3, <1>3 DEF Has, Inside
      <4>2. CASE x \notin P
        BY <4>2, <1>1, <2>2
      <4> QED BY <4>1, <4>2
    <3> QED BY <3>1, <1>2, SpaceAtProps
  <2>3. SpaceAt(N, p) = SpaceAt(map_tree, p)
    <3>1. CASE \E e \in map_tree : Has(e, p)
      BY <3>1, <2>1, <1>2, SpaceAtProps
    <3>2. CASE \A e \in map_tree : ~Has(e, p)
      BY <3>2, <2>2, <1>2, SpaceAtProps
    <3> QED BY <3>1, <3>2
  <2> QED BY <2>3, <1>5 DEF N
<1> QED BY <1>4, <1>5
\* A new entry shows itself in its range and changes nothing elsewhere.
LEMMA InsertSpace ==
  ASSUME NEW T, Sound(T), NEW e, Sound(T \cup {e}), NEW p \in Pages
  PROVE  SpaceAt(T \cup {e}, p) = IF Has(e, p) THEN Page(e, p) ELSE SpaceAt(T, p)
<1> DEFINE N == T \cup {e}
<1>1. T \subseteq N /\ e \in N /\ Sound(N) /\ \A x \in N : x \in T \/ x = e
  OBVIOUS
<1> HIDE DEF N
<1>2. CASE Has(e, p)
  BY <1>1, <1>2, SpaceAtProps DEF N
<1>3. CASE ~Has(e, p)
  <2>1. CASE \E x \in T : Has(x, p)
    <3>1. PICK x \in T : Has(x, p)
      BY <2>1
    <3>2. SpaceAt(T, p) = Page(x, p)
      BY <3>1, SpaceAtProps
    <3>3. SpaceAt(N, p) = Page(x, p)
      BY <3>1, <1>1, SpaceAtProps
    <3> QED BY <3>2, <3>3, <1>3 DEF N
  <2>2. CASE \A x \in T : ~Has(x, p)
    <3>1. SpaceAt(T, p) = Free
      BY <2>2, SpaceAtProps
    <3>2. SpaceAt(N, p) = Free
      BY <2>2, <1>1, <1>3, SpaceAtProps
    <3> QED BY <3>1, <3>2, <1>3 DEF N
  <2> QED BY <2>1, <2>2
<1> QED BY <1>2, <1>3

\* A step of PageSpace, or no step at all when nothing changes.
LEMMA AbstractStep ==
  ASSUME NEW first \in Pages, NEW last \in Pages,
         \/ \E obj \in Objects, prot \in Prots :
              \A p \in Pages : SpaceAt(map_tree', p) = PS!Mapped(first, last, obj, prot, p, SpaceAt(map_tree, p))
         \/ \A p \in Pages : SpaceAt(map_tree', p) = PS!Unmapped(first, last, p, SpaceAt(map_tree, p))
         \/ \E prot \in Prots, setmax \in BOOLEAN :
              \A p \in Pages :
                SpaceAt(map_tree', p) = PS!Protected(first, last, prot, setmax, p, SpaceAt(map_tree, p))
  PROVE  [PS!Next]_Space
<1>1. \A p \in Pages : Space[p] = SpaceAt(map_tree, p) /\ Space'[p] = SpaceAt(map_tree', p)
  BY SpaceIs
<1>2. \A p \in Pages : p \notin first .. last => Space'[p] = Space[p]
  BY <1>1 DEF PS!Mapped, PS!Unmapped, PS!Protected
<1>3. \/ \E obj \in Objects, prot \in Prots :
           \A p \in Pages : Space'[p] = PS!Mapped(first, last, obj, prot, p, Space[p])
      \/ \A p \in Pages : Space'[p] = PS!Unmapped(first, last, p, Space[p])
      \/ \E prot \in Prots, setmax \in BOOLEAN :
           \A p \in Pages : Space'[p] = PS!Protected(first, last, prot, setmax, p, Space[p])
  BY <1>1
<1>4. CASE Space' # Space
  BY Zenon, <1>2, <1>3, <1>4 DEF PS!Next
<1>5. CASE Space' = Space
  BY <1>5
<1> QED BY <1>4, <1>5

\* The pages of a range that lies in the map, and of one that may leave it.
LEMMA PageRange ==
  ASSUME NEW base \in Pages, NEW end \in Nat, base < end
  PROVE  \E last \in Pages : \A p \in Pages : p \in base .. last <=> base <= p /\ p < end
<1>1. base \in Nat /\ max_addr \in Nat /\ min_addr \in Nat /\ min_addr <= base /\ base < max_addr
  BY VmMapAssumption DEF Pages
<1>2. CASE end <= max_addr
  <2>1. end - 1 \in Pages
    BY <1>1, <1>2 DEF Pages
  <2>2. \A p \in Pages : p \in base .. end - 1 <=> base <= p /\ p < end
    BY <1>1 DEF Pages
  <2> QED BY <2>1, <2>2
<1>3. CASE ~(end <= max_addr)
  <2>1. max_addr - 1 \in Pages
    BY <1>1 DEF Pages
  <2>2. \A p \in Pages : p \in base .. max_addr - 1 <=> base <= p /\ p < end
    BY <1>1, <1>3 DEF Pages
  <2> QED BY <2>1, <2>2
<1> QED BY <1>2, <1>3

\* A fresh entry in a tree whose other pages show what they did is a mapping.
LEMMA InsertAbstract ==
  ASSUME MapInv, MapInv', CanMap, NEW T, Sound(T), NEW R, NEW base \in Nat, NEW length \in Nat \ {0},
         NEW private \in BOOLEAN, NEW prot \in Prots,
         min_addr <= base, base + length <= max_addr,
         \A p \in Pages : ~(base <= p /\ p < base + length) => SpaceAt(T, p) = SpaceAt(map_tree, p),
         Insert(T, R, base, length, private, prot)
  PROVE  [PS!Next]_Space
<1> DEFINE e == init_map_entry(base, base + length, FreshObject, private, prot)
<1>1. map_tree' = T \cup {e} /\ Sound(T \cup {e})
  BY DEF Insert, MapInv, Sound
<1>2. e.base = base /\ e.end = base + length /\ e.offset = 0 /\ e.object = FreshObject
      /\ e.protection = prot /\ e.max_protection = prot
  BY DEF init_map_entry
<1> HIDE DEF e
<1>3. FreshObject \in Objects
  BY FreshProps
<1>4. base \in Pages
  BY VmMapAssumption DEF Pages
<1>5. PICK last \in Pages : \A p \in Pages : p \in base .. last <=> base <= p /\ p < base + length
  BY <1>4, PageRange
<1>6. ASSUME NEW p \in Pages
      PROVE  SpaceAt(map_tree', p) = PS!Mapped(base, last, FreshObject, prot, p, SpaceAt(map_tree, p))
  <2>1. SpaceAt(map_tree', p) = IF Has(e, p) THEN Page(e, p) ELSE SpaceAt(T, p)
    BY <1>1, InsertSpace
  <2>2. Has(e, p) <=> p \in base .. last
    BY <1>2, <1>5 DEF Has
  <2>3. Page(e, p) = [obj |-> FreshObject, page |-> p - base, prot |-> prot, max |-> prot]
    <3>1. 0 + p - base = p - base
      BY VmMapAssumption DEF Pages
    <3> QED BY <3>1, <1>2 DEF Page
  <2>4. ~Has(e, p) => SpaceAt(T, p) = SpaceAt(map_tree, p)
    BY <1>2 DEF Has
  <2> QED BY Zenon, <2>1, <2>2, <2>3, <2>4 DEF PS!Mapped
<1> QED BY <1>3, <1>4, <1>6, AbstractStep

\* vm_map and vm_map_fixed show one object in their range.
LEMMA MapCallAbstract ==
  ASSUME MapInv, MapInv', NEW length \in Lengths, NEW private \in BOOLEAN, NEW prot \in Prots,
         \/ \E hint \in Hints : vm_map(hint, length, private, prot)
         \/ \E base \in Pages : vm_map_fixed(base, length, private, prot)
  PROVE  [PS!Next]_Space
<1>0. length \in Nat \ {0} /\ Hints \subseteq Nat /\ min_addr \in Nat /\ max_addr \in Nat
  BY VmMapAssumption
<1>s. ASSUME UNCHANGED map_tree PROVE [PS!Next]_Space
  BY <1>s, SpaceIs
<1>1. ASSUME NEW hint \in Hints, vm_map(hint, length, private, prot) PROVE [PS!Next]_Space
  <2> DEFINE base == FreeRange(hint, length)
  <2>1. CASE base \in {NO_NEXT, NULL_NEXT}
    BY <2>1, <1>1, <1>s DEF vm_map, Panic
  <2>2. CASE base \notin {NO_NEXT, NULL_NEXT}
    <3>1. /\ CanMap /\ base # NOSPACE
          /\ Insert(map_tree, refcnt, base, length, private, prot)
      BY <2>2, <1>1 DEF vm_map
    <3>2. FreeAt(base, length)
      BY <2>2, <3>1, <1>0, FreeRangeProps
    <3>3. Sound(map_tree)
      BY DEF MapInv
    <3> HIDE DEF base
    <3> QED BY <3>1, <3>2, <3>3, <1>0, InsertAbstract DEF FreeAt
  <2> QED BY <2>1, <2>2
<1>2. ASSUME NEW base \in Pages, vm_map_fixed(base, length, private, prot) PROVE [PS!Next]_Space
  <2>1. base \in Nat /\ base + length \in Nat /\ base < base + length
    BY <1>0 DEF Pages
  <2>2. CASE UnmapPanics(base, base + length)
    BY <2>2, <1>2, <1>s DEF vm_map_fixed, Panic
  <2>3. CASE ~UnmapPanics(base, base + length)
    <3> DEFINE T == UnmappedTree(base, base + length)
               R == UnmappedRefs(base, base + length)
    <3>1. /\ CanMap /\ min_addr <= base /\ base + length <= max_addr
          /\ Insert(T, R, base, length, private, prot)
      BY <2>3, <1>2, <2>1, <1>0 DEF vm_map_fixed
    <3>2. Sound(T)
      BY <2>1, UnmapProps
    <3>3. \A p \in Pages : ~(base <= p /\ p < base + length) => SpaceAt(T, p) = SpaceAt(map_tree, p)
      BY <2>1, UnmapSpace
    <3> HIDE DEF T, R
    <3> QED BY <3>1, <3>2, <3>3, <2>1, <1>0, InsertAbstract
  <2> QED BY <2>2, <2>3
<1> QED BY <1>1, <1>2

\* vm_unmap frees its range.
LEMMA UnmapCallAbstract ==
  ASSUME MapInv, NEW base \in Pages, NEW length \in Lengths, vm_unmap(base, length)
  PROVE  [PS!Next]_Space
<1>0. base \in Nat /\ base + length \in Nat /\ base < base + length
  BY VmMapAssumption DEF Pages
<1>1. CASE UnmapPanics(base, base + length)
  BY <1>1, SpaceIs DEF vm_unmap, Panic
<1>2. CASE ~UnmapPanics(base, base + length)
  <2>1. map_tree' = UnmappedTree(base, base + length)
    BY <1>2 DEF vm_unmap
  <2>2. PICK last \in Pages : \A p \in Pages : p \in base .. last <=> base <= p /\ p < base + length
    BY <1>0, PageRange
  <2>3. ASSUME NEW p \in Pages
        PROVE  SpaceAt(map_tree', p) = PS!Unmapped(base, last, p, SpaceAt(map_tree, p))
    BY <1>0, <2>1, <2>2, UnmapSpace DEF PS!Unmapped
  <2> QED BY <2>3, AbstractStep
<1> QED BY <1>1, <1>2
\* What a page shows once it has the protection asked for.
Granted(e, p, prot, setmax) ==
  [obj |-> Page(e, p).obj, page |-> Page(e, p).page, prot |-> prot,
   max |-> IF setmax THEN prot ELSE Page(e, p).max]

\* The tree once the entries R have been changed.
ProtectedTree(R, base, end, prot, setmax) ==
  (map_tree \ R) \cup (CutOff(R, base, end) \cup ChangedOf(R, base, end, prot, setmax))

\* mprotect, page by page: the page of an entry that was reached and does not deny the
\* change gets the protection, every other page shows what it did.
LEMMA ProtectSpace ==
  ASSUME MapInv, MapInv', NEW base \in Nat, NEW end \in Nat, base < end, NEW prot \in Prots,
         NEW setmax \in BOOLEAN, NEW R, R = Reached(base, end, prot, setmax),
         map_tree' = ProtectedTree(R, base, end, prot, setmax),
         NEW p \in Pages
  PROVE  /\ \A e \in map_tree : Has(e, p) =>
              SpaceAt(map_tree', p) =
                IF e \in R /\ e \notin Denied(base, end, prot, setmax) /\ base <= p /\ p < end
                THEN Granted(e, p, prot, setmax)
                ELSE Page(e, p)
         /\ (\A e \in map_tree : ~Has(e, p)) => SpaceAt(map_tree', p) = Free
<1> DEFINE N == map_tree'
           P == CutOff(R, base, end)
           C == ChangedOf(R, base, end, prot, setmax)
<1>1. Sound(N) /\ Sound(map_tree) /\ p \in Nat
  BY VmMapAssumption DEF MapInv, Sound, Pages
<1>2. N = (map_tree \ R) \cup (P \cup C)
  BY DEF ProtectedTree
<1> HIDE DEF N
<1>3. R \in SUBSET Overlapping(base, end) /\ R \in SUBSET map_tree
  BY OverProps DEF Reached
<1>4. \A e \in R : /\ e \in Entries /\ e.base \in Nat /\ e.end \in Nat
                   /\ e.base < e.end /\ e.base < end /\ base < e.end
  BY <1>3, OverProps
<1>5. ASSUME NEW e \in R
      PROVE  LET c == Changed(e, base, end, prot, setmax)
             IN  /\ c \in C /\ c \in Entries /\ Inside(c, e.base, e.end)
                 /\ c.base = MaxOf(e.base, base) /\ c.end = MinOf(e.end, end)
                 /\ c.object = e.object /\ c.offset - c.base = e.offset - e.base
                 /\ e \in Denied(base, end, prot, setmax) =>
                      c.protection = e.protection /\ c.max_protection = e.max_protection
                 /\ e \notin Denied(base, end, prot, setmax) =>
                      c.protection = prot /\ c.max_protection = IF setmax THEN prot ELSE e.max_protection
  <2>1. Changed(e, base, end, prot, setmax) \in C
    BY DEF ChangedOf
  <2> QED BY <2>1, <1>4, ChangedProps
<1>6. ASSUME NEW e \in map_tree, Has(e, p), e \notin R PROVE SpaceAt(N, p) = Page(e, p)
  <2>1. e \in N
    BY <1>2, <1>6
  <2> QED BY <2>1, <1>1, <1>6, SpaceAtProps
<1>7. ASSUME NEW e \in R, Has(e, p), ~(base <= p /\ p < end) PROVE SpaceAt(N, p) = Page(e, p)
  <2>1. PICK x \in Pieces(e, base, end) : Has(x, p)
    <3>1. e.base <= p /\ p < e.end /\ (p < base \/ end <= p) /\ p \in Int
      BY <1>1, <1>7 DEF Has
    <3>2. \A q \in Int : e.base <= q /\ q < e.end /\ (q < base \/ end <= q)
            => \E x \in Pieces(e, base, end) : x.base <= q /\ q < x.end
      BY <1>4, PieceProps
    <3> QED BY <3>1, <3>2 DEF Has
  <2>2. /\ x \in N /\ x \in Entries /\ x.object = e.object
        /\ x.protection = e.protection /\ x.max_protection = e.max_protection
        /\ x.offset - x.base = e.offset - e.base
    <3>1. x \in P
      BY <2>1, <1>3, CutOffProps
    <3> QED BY <3>1, <1>2, <1>4, <2>1, PieceProps
  <2>3. Page(x, p) = Page(e, p)
    BY <1>1, <1>4, <2>2, PartShows
  <2> QED BY <1>1, <2>1, <2>2, <2>3, SpaceAtProps
<1>8. ASSUME NEW e \in R, Has(e, p), base <= p, p < end
      PROVE  SpaceAt(N, p) =
               IF e \notin Denied(base, end, prot, setmax)
               THEN Granted(e, p, prot, setmax)
               ELSE Page(e, p)
  <2> DEFINE c == Changed(e, base, end, prot, setmax)
  <2>1. /\ c \in C /\ c \in Entries /\ c.base = MaxOf(e.base, base) /\ c.end = MinOf(e.end, end)
        /\ c.object = e.object /\ c.offset - c.base = e.offset - e.base
        /\ e \in Denied(base, end, prot, setmax) =>
             c.protection = e.protection /\ c.max_protection = e.max_protection
        /\ e \notin Denied(base, end, prot, setmax) =>
             c.protection = prot /\ c.max_protection = IF setmax THEN prot ELSE e.max_protection
    BY <1>5
  <2> HIDE DEF c
  <2>2. c \in N /\ Has(c, p)
    BY <1>2, <1>4, <1>8, <2>1 DEF Has, MaxOf, MinOf
  <2>3. SpaceAt(N, p) = Page(c, p)
    BY <1>1, <2>2, SpaceAtProps
  <2>4. /\ Page(c, p).obj = e.object /\ Page(c, p).page = Page(e, p).page
        /\ c.protection = e.protection /\ c.max_protection = e.max_protection => Page(c, p) = Page(e, p)
    BY <1>1, <1>4, <2>1, PartShows
  <2>5. CASE e \in Denied(base, end, prot, setmax)
    BY <2>1, <2>3, <2>4, <2>5
  <2>6. CASE e \notin Denied(base, end, prot, setmax)
    <3>1. Page(c, p) = Granted(e, p, prot, setmax)
      BY <2>1, <2>4, <2>6 DEF Page, Granted
    <3> QED BY Zenon, <2>3, <2>6, <3>1
  <2> QED BY <2>5, <2>6
<1>9. ASSUME \A e \in map_tree : ~Has(e, p) PROVE SpaceAt(N, p) = Free
  <2>c. \A x \in C : \E e \in R : x = Changed(e, base, end, prot, setmax)
    BY DEF ChangedOf
  <2>p. \A x \in P : \E e \in R : x \in Pieces(e, base, end) /\ Inside(x, e.base, e.end)
    BY <1>3, CutOffProps
  <2> HIDE DEF P, C
  <2>1. ASSUME NEW x \in N PROVE ~Has(x, p)
    <3>0. ASSUME NEW e \in R, Inside(x, e.base, e.end) PROVE ~Has(x, p)
      <4>1. x \in Entries /\ x.base \in Nat /\ x.end \in Nat
        BY <1>1 DEF Sound, Entries
      <4>2. ~Has(e, p)
        BY <1>3, <1>9
      <4> QED BY <3>0, <4>1, <4>2, <1>1, <1>4 DEF Has, Inside
    <3>1. CASE x \in P
      BY <3>0, <3>1, <2>p
    <3>2. CASE x \in C
      <4>1. PICK e \in R : x = Changed(e, base, end, prot, setmax)
        BY <3>2, <2>c
      <4> QED BY <3>0, <4>1, <1>5
    <3>3. CASE x \notin P \cup C
      BY <3>3, <1>2, <1>9
    <3> QED BY <3>1, <3>2, <3>3
  <2> QED BY <2>1, <1>1, SpaceAtProps
<1>10. ASSUME NEW e \in map_tree, Has(e, p)
       PROVE SpaceAt(N, p) =
                IF e \in R /\ e \notin Denied(base, end, prot, setmax) /\ base <= p /\ p < end
                THEN Granted(e, p, prot, setmax)
                ELSE Page(e, p)
  <2>1. CASE e \notin R
    BY <2>1, <1>6, <1>10
  <2>2. CASE e \in R /\ ~(base <= p /\ p < end)
    BY <2>2, <1>7, <1>10
  <2>3. CASE e \in R /\ base <= p /\ p < end
    BY Zenon, <2>3, <1>8, <1>10
  <2> QED BY Zenon, <2>1, <2>2, <2>3
<1> QED BY <1>9, <1>10 DEF N
\* mprotect changes the pages of a range that grant the protection: the whole range it is
\* given, or what lies below the first entry that denies it.
LEMMA ProtectRange ==
  ASSUME MapInv, NEW base \in Pages, NEW end \in Nat, base < end, NEW prot \in Prots,
         NEW setmax \in BOOLEAN
  PROVE  \E last \in Pages : \A p \in Pages : \A e \in map_tree : Has(e, p) =>
           (e \in Reached(base, end, prot, setmax) /\ e \notin Denied(base, end, prot, setmax)
              /\ base <= p /\ p < end
            <=> p \in base .. last /\ (setmax \/ prot <= e.max_protection))
<1> DEFINE O == Overlapping(base, end)
           D == Denied(base, end, prot, setmax)
           R == Reached(base, end, prot, setmax)
<1>0. /\ base \in Nat /\ min_addr \in Nat /\ max_addr \in Nat /\ min_addr <= base /\ base < max_addr
      /\ \A p \in Pages : p \in Nat
  BY VmMapAssumption DEF Pages
<1>1. \A e \in map_tree : /\ e \in Entries /\ e.base \in Nat /\ e.end \in Nat /\ e.base < e.end
                          /\ min_addr <= e.base /\ e.end <= max_addr
                          /\ e \in O <=> e.base < end /\ base < e.end
  <2>1. \A e \in map_tree : /\ e \in Entries /\ e.base \in Nat /\ e.end \in Nat /\ e.base < e.end
                            /\ min_addr <= e.base /\ e.end <= max_addr
    BY DEF MapInv, Sound, Inside, Entries
  <2>2. O \subseteq map_tree /\ (\A e \in O : e.base < end /\ base < e.end)
        /\ \A e \in map_tree \ O : ~(e.base < end /\ base < e.end)
    BY OverProps
  <2> QED BY <2>1, <2>2
<1>2. \A e, f \in map_tree : e # f => Apart(e, f)
  BY DEF MapInv, Sound
<1>3. \A e \in O : e \in D <=> ~(setmax \/ prot <= e.max_protection)
  <2>1. \A e \in O : e \in map_tree /\ e.max_protection \in {1, 2}
    BY <1>1 DEF Overlapping, Entries, Prots, READ, WRITE
  <2>2. prot \in {1, 2}
    BY DEF Prots, READ, WRITE
  <2>3. \A m \in {1, 2} : vm_check_prot(m, prot) <=> prot <= m
    BY <2>2 DEF vm_check_prot, WRITE
  <2>4. \A e \in O : e \in D <=> ~setmax /\ ~vm_check_prot(e.max_protection, prot)
    BY DEF Denied
  <2> QED BY <2>1, <2>3, <2>4
<1>4. /\ D \subseteq O /\ R \subseteq O /\ O \subseteq map_tree
      /\ \A e \in O : e \in R <=> \A d \in D : e.base <= d.base
  BY DEF Denied, Reached, Overlapping
<1> HIDE DEF O, D, R
<1>5. CASE D = {}
  <2>1. PICK last \in Pages : \A p \in Pages : p \in base .. last <=> base <= p /\ p < end
    BY PageRange
  <2>2. ASSUME NEW p \in Pages, NEW e \in map_tree, Has(e, p)
        PROVE  (e \in R /\ e \notin D /\ base <= p /\ p < end
                <=> p \in base .. last /\ (setmax \/ prot <= e.max_protection))
    <3>1. base <= p /\ p < end => e \in O
      BY <1>0, <1>1, <2>2 DEF Has
    <3> QED BY <2>1, <3>1, <1>3, <1>4, <1>5
  <2> QED BY <2>2 DEF R, D
<1>6. CASE D # {}
  <2>1. PICK d \in D : \A f \in D : d.base <= f.base
    <3>1. D \in SUBSET Entries
      BY <1>1, <1>4
    <3> QED BY <3>1, <1>6, LowestProps
  <2> DEFINE last == MaxOf(d.base, base)
  <2>2. d \in map_tree /\ d \in O /\ d.base < end /\ base < d.end /\ d.base \in Nat /\ d.end \in Nat
        /\ d.base < d.end
    BY <1>1, <1>4, <2>1
  <2>3. last \in Pages /\ last \in Nat /\ base <= last /\ last < end /\ d.base <= last /\ last < d.end
        /\ (last = d.base \/ last = base)
    BY <1>0, <1>1, <2>2 DEF MaxOf, Pages
  <2> HIDE DEF last
  <2>4. ASSUME NEW p \in Pages, NEW e \in map_tree, Has(e, p)
        PROVE  (e \in R /\ e \notin D /\ base <= p /\ p < end
                <=> p \in base .. last /\ (setmax \/ prot <= e.max_protection))
    <3>0. /\ p \in Nat /\ e.base \in Nat /\ e.end \in Nat /\ e.base <= p /\ p < e.end
          /\ (base <= p /\ p < end => e \in O)
      BY <1>0, <1>1, <2>4 DEF Has
    <3>1. e # d => e.end <= d.base \/ d.end <= e.base
      BY <1>2, <2>2 DEF Apart
    <3>2. ASSUME e \in R, e \notin D, base <= p, p < end
          PROVE  p \in base .. last /\ (setmax \/ prot <= e.max_protection)
      <4>1. e \in O /\ e # d /\ e.base <= d.base
        BY <3>2, <1>4, <2>1
      <4>2. p < d.base
        BY <4>1, <3>0, <3>1, <2>2
      <4> QED BY <4>1, <4>2, <3>0, <3>2, <1>0, <1>3, <2>2, <2>3
    <3>3. ASSUME p \in base .. last, setmax \/ prot <= e.max_protection
          PROVE  e \in R /\ e \notin D /\ base <= p /\ p < end
      <4>1. base <= p /\ p <= last /\ p < end
        BY <3>3, <3>0, <1>0, <2>3
      <4>2. e \in O /\ e \notin D
        BY <4>1, <3>0, <3>3, <1>3
      <4>3. e # d
        BY <4>2, <2>1
      <4>4. e.base <= d.base
        BY <4>1, <4>3, <3>0, <3>1, <1>0, <2>2, <2>3
      <4>5. \A f \in D : e.base <= f.base
        <5>1. \A f \in D : f.base \in Nat
          BY <1>1, <1>4
        <5> QED BY <5>1, <4>4, <2>1, <2>2, <3>0
      <4> QED BY <4>1, <4>2, <4>5, <1>4
    <3> QED BY <3>2, <3>3
  <2> QED BY <2>3, <2>4 DEF R, D
<1> QED BY <1>5, <1>6

\* vm_protect changes the protection of the pages that grant it.
LEMMA ProtectCallAbstract ==
  ASSUME MapInv, MapInv', NEW base \in Pages, NEW length \in Lengths, NEW prot \in Prots,
         NEW setmax \in BOOLEAN, vm_protect(base, length, prot, setmax)
  PROVE  [PS!Next]_Space
<1> DEFINE end == base + length
           R == Reached(base, end, prot, setmax)
           D == Denied(base, end, prot, setmax)
<1>0. base \in Nat /\ end \in Nat /\ base < end
  BY VmMapAssumption DEF Pages
<1>1. CASE \E e \in R : CarveAsserts(e, base, end)
  BY <1>1, SpaceIs DEF vm_protect, Panic
<1>2. CASE ~\E e \in R : CarveAsserts(e, base, end)
  <2>0. R = Reached(base, end, prot, setmax)
    OBVIOUS
  <2>1. map_tree' = ProtectedTree(R, base, end, prot, setmax)
    BY <1>2 DEF vm_protect, CutOff, ChangedOf, ProtectedTree
  <2> HIDE DEF end
  <2>2. PICK last \in Pages : \A p \in Pages : \A e \in map_tree : Has(e, p) =>
          (e \in R /\ e \notin D /\ base <= p /\ p < end
           <=> p \in base .. last /\ (setmax \/ prot <= e.max_protection))
    BY <1>0, ProtectRange
  <2> HIDE DEF R
  <2>3. ASSUME NEW p \in Pages
        PROVE  SpaceAt(map_tree', p) = PS!Protected(base, last, prot, setmax, p, SpaceAt(map_tree, p))
    <3>0. Sound(map_tree)
      BY DEF MapInv
    <3>1. CASE \E e \in map_tree : Has(e, p)
      <4>1. PICK e \in map_tree : Has(e, p)
        BY <3>1
      <4> DEFINE new == Granted(e, p, prot, setmax)
      <4>2. SpaceAt(map_tree, p) = Page(e, p)
        BY <3>0, <4>1, SpaceAtProps
      <4>3. SpaceAt(map_tree', p) =
              IF e \in R /\ e \notin D /\ base <= p /\ p < end THEN new ELSE Page(e, p)
        BY <1>0, <2>0, <2>1, <4>1, ProtectSpace
      <4>4. Page(e, p) # Free /\ Page(e, p).max = e.max_protection
        <5>1. e.object # 0
          BY <3>0, VmMapAssumption DEF Sound, Entries
        <5>2. Page(e, p).obj # Free.obj
          BY <5>1 DEF Page, Free
        <5> QED BY <5>2 DEF Page
      <4> HIDE DEF new
      <4>5. e \in R /\ e \notin D /\ base <= p /\ p < end
              <=> p \in base .. last /\ (setmax \/ prot <= e.max_protection)
        BY <2>2, <4>1
      <4>6. PS!Protected(base, last, prot, setmax, p, Page(e, p))
              = IF p \in base .. last /\ (setmax \/ prot <= e.max_protection) THEN new ELSE Page(e, p)
        BY Zenon, <4>4 DEF PS!Protected, new, Granted
      <4> QED BY Zenon, <4>2, <4>3, <4>5, <4>6
    <3>2. CASE \A e \in map_tree : ~Has(e, p)
      <4>1. SpaceAt(map_tree, p) = Free
        BY <3>0, <3>2, SpaceAtProps
      <4>2. SpaceAt(map_tree', p) = Free
        BY <1>0, <2>0, <2>1, <3>2, ProtectSpace
      <4>3. PS!Protected(base, last, prot, setmax, p, Free) = Free
        BY Zenon DEF PS!Protected
      <4> QED BY Zenon, <4>1, <4>2, <4>3
    <3> QED BY <3>1, <3>2
  <2> QED BY <2>3, AbstractStep
<1> QED BY <1>1, <1>2

\* VmMap: every call on the map shows the pages of its range as asked for and leaves the
\* others alone, however the entries are searched, split and put back (map.c:139-540).
THEOREM MapShowsPages == VmMapSpec => ImplementsPageSpace
<1>1. vm_map_init => PS!Init
  <2> SUFFICES ASSUME vm_map_init PROVE PS!Init
    OBVIOUS
  <2>1. \A p \in Pages : SpaceAt(map_tree, p) = Free
    BY DEF vm_map_init, SpaceAt
  <2> QED BY <2>1, SpaceIs DEF PS!Init
<1>2. vm_map_init => MapInv
  BY MapInitInv
<1>3. MapInv /\ [VmMapNext]_vmMapVars => MapInv'
  BY MapStepInv
<1>4. MapInv /\ MapInv' /\ [VmMapNext]_vmMapVars => [PS!Next]_Space
  <2> SUFFICES ASSUME MapInv, MapInv', [VmMapNext]_vmMapVars PROVE [PS!Next]_Space
    OBVIOUS
  <2>1. CASE UNCHANGED vmMapVars
    BY <2>1, SpaceIs DEF vmMapVars
  <2> QED BY <2>1, MapCallAbstract, UnmapCallAbstract, ProtectCallAbstract DEF VmMapNext
<1> QED BY <1>1, <1>2, <1>3, <1>4, PTL DEF VmMapSpec, ImplementsPageSpace, PS!Spec
=============================================================================
