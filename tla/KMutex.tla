------------------------------- MODULE KMutex -------------------------------
(***************************************************************************)
(* kernel/core/mutex.c: a mutex is an owner word taken by compare-and-swap *)
(* and a sync event on which a thread that did not get it sleeps.  The     *)
(* lock is not handed over: the release clears the owner and then, as a    *)
(* separate step, alarms the event; a woken thread competes again.         *)
(***************************************************************************)
EXTENDS KEvent

CONSTANTS Lockers,  \* threads that use the mutex
          Timed,    \* those that pass a finite timeout to kmutex_acquire
          Unowned   \* the owner word of a free mutex

ASSUME MutexAssumption == Timed \subseteq Lockers /\ Unowned \notin Lockers

VARIABLES owner,    \* mutex->owner
          event,    \* mutex->event
          mpc,      \* where each thread is in kmutex_acquire / kmutex_release
          wasted    \* 1 once an alarm found only dead wait blocks (history)

mutexVars == <<owner, event, mpc, wasted>>

MutexPCs == {"out",      \* not using the mutex
             "try",      \* in the LOCK_TRY_COUNT loop of kmutex_acquire
             "polltry",  \* the same, in kmutex_acquire_polling
             "wait",     \* calling sched_wait(mutex, WAIT_MODE_BLOCK, timeout)
             "poll",     \* in poll_single
             "blocked",  \* waiting, the wait block is queued
             "expired",  \* the timeout ended the wait, the block is still queued
             "in",       \* owns the mutex
             "release"}  \* owner cleared, event_alarm still to come

Expired == {t \in Lockers : mpc[t] = "expired"}

kmutex_init ==
  /\ owner = Unowned
  /\ event = event_init
  /\ mpc = [t \in Lockers |-> "out"]
  /\ wasted = 0

\* kmutex_acquire and kmutex_acquire_polling enter the common loop.
kmutex_acquire(t) ==
  /\ mpc[t] = "out"
  /\ mpc' = [mpc EXCEPT ![t] = "try"]
  /\ UNCHANGED <<owner, event, wasted>>

kmutex_acquire_polling(t) ==
  /\ mpc[t] = "out"
  /\ mpc' = [mpc EXCEPT ![t] = "polltry"]
  /\ UNCHANGED <<owner, event, wasted>>

\* A store in place of the compare-and-swap.
TryLock_NoCompare(t) ==
  /\ mpc[t] \in {"try", "polltry"}
  /\ owner' = t
  /\ mpc' = [mpc EXCEPT ![t] = "in"]
  /\ UNCHANGED <<event, wasted>>

\* The compare-and-swap of the loop succeeds.
TryLock(t) ==
  /\ mpc[t] \in {"try", "polltry"}
  /\ owner = Unowned
  /\ owner' = t
  /\ mpc' = [mpc EXCEPT ![t] = "in"]
  /\ UNCHANGED <<event, wasted>>

\* LOCK_TRY_COUNT attempts failed, the last one because the mutex is owned.
GiveUpSpinning(t) ==
  /\ mpc[t] \in {"try", "polltry"}
  /\ owner # Unowned
  /\ mpc' = [mpc EXCEPT ![t] = IF @ = "try" THEN "wait" ELSE "poll"]
  /\ UNCHANGED <<owner, event, wasted>>

\* sched_wait on the event: consume a pending signal or queue and block.
Wait(t) ==
  /\ mpc[t] = "wait"
  /\ \/ /\ Signaled(event)
        /\ event' = Acquire(event)
        /\ mpc' = [mpc EXCEPT ![t] = "try"]
     \/ /\ ~Signaled(event)
        /\ event' = Enqueue(event, t)
        /\ mpc' = [mpc EXCEPT ![t] = "blocked"]
  /\ UNCHANGED <<owner, wasted>>

\* poll_single spins until the event is signaled ...
PollHit(t) ==
  /\ mpc[t] = "poll"
  /\ Signaled(event)
  /\ event' = Acquire(event)
  /\ mpc' = [mpc EXCEPT ![t] = "polltry"]
  /\ UNCHANGED <<owner, wasted>>

\* ... or its deadline passes; the acquire fails with YAK_TIMEOUT.
PollTimeout(t) ==
  /\ mpc[t] = "poll"
  /\ t \in Timed
  /\ mpc' = [mpc EXCEPT ![t] = "out"]
  /\ UNCHANGED <<owner, event, wasted>>

\* The timeout timer unwaits a blocked thread.
Timeout(t) ==
  /\ mpc[t] = "blocked"
  /\ t \in Timed
  /\ mpc' = [mpc EXCEPT ![t] = "expired"]
  /\ UNCHANGED <<owner, event, wasted>>

\* Back on a CPU it dequeues its block and the acquire fails with YAK_TIMEOUT.
FailAcquire(t) ==
  /\ mpc[t] = "expired"
  /\ event' = wb_dequeue(event, t)
  /\ mpc' = [mpc EXCEPT ![t] = "out"]
  /\ UNCHANGED <<owner, wasted>>

\* A release that returns without waking anybody.
kmutex_release_NoAlarm(t) ==
  /\ mpc[t] = "in"
  /\ owner' = Unowned
  /\ mpc' = [mpc EXCEPT ![t] = "out"]
  /\ UNCHANGED <<event, wasted>>

\* kmutex_release, first half: the compare-and-swap of the owner to NULL.
kmutex_release(t) ==
  /\ mpc[t] = "in"
  /\ owner' = Unowned
  /\ mpc' = [mpc EXCEPT ![t] = "release"]
  /\ UNCHANGED <<event, wasted>>

\* kmutex_release, second half: event_alarm(&mutex->event, false).
ReleaseAlarm(t) ==
  /\ mpc[t] = "release"
  /\ LET r == event_alarm(event, Expired)
     IN  /\ event' = r.ev
         /\ mpc' = [u \in Lockers |->
                     IF u = t THEN "out"
                     ELSE IF u \in r.woken THEN "try" ELSE mpc[u]]
         /\ wasted' = IF event.sig = 0 /\ event.q # <<>> /\ r.woken = {}
                      THEN 1 ELSE wasted
  /\ UNCHANGED owner

MutexNext ==
  \E t \in Lockers :
    \/ kmutex_acquire(t) \/ kmutex_acquire_polling(t)
    \/ TryLock(t) \/ GiveUpSpinning(t)
    \/ Wait(t) \/ PollHit(t) \/ PollTimeout(t)
    \/ Timeout(t) \/ FailAcquire(t)
    \/ kmutex_release(t) \/ ReleaseAlarm(t)

MutexSpec == kmutex_init /\ [][MutexNext]_mutexVars

\* A thread that runs finishes the step it is in, and an owner eventually
\* releases; nobody is obliged to ask for the mutex.
MutexFairness ==
  \A t \in Lockers :
    /\ WF_mutexVars(TryLock(t) \/ GiveUpSpinning(t))
    /\ WF_mutexVars(Wait(t))
    /\ WF_mutexVars(PollHit(t))
    /\ WF_mutexVars(FailAcquire(t))
    /\ WF_mutexVars(kmutex_release(t))
    /\ WF_mutexVars(ReleaseAlarm(t))

MutexFairSpec == MutexSpec /\ MutexFairness
-----------------------------------------------------------------------------
(* Properties *)

\* Types of the owner word, the event and the program counters.
MutexTypeOK ==
  /\ owner \in Lockers \cup {Unowned}
  /\ event \in [sig : {0, 1}, q : Seq(Lockers)]
  /\ mpc \in [Lockers -> MutexPCs]
  /\ wasted \in {0, 1}

\* Mutual exclusion of the compare-and-swap protocol: a thread that returned
\* YAK_SUCCESS from kmutex_acquire is the owner until it releases, so two
\* threads never are inside, and the assertion at the head of kmutex_release
\* (mutex->owner == curthread()) holds.
MutualExclusion == \A t \in Lockers : mpc[t] = "in" => owner = t

\* The only way to lose a wakeup is an alarm spent on the blocks of waits
\* that already timed out.  Otherwise, while the mutex is free and a thread
\* sleeps on it (or has decided to), the wakeup is on its way: the event is
\* signaled, a releaser has not yet alarmed, or a woken thread will retry.
NoLostWakeup ==
  /\ wasted = 0
  /\ owner = Unowned
  /\ \E t \in Lockers : mpc[t] \in {"wait", "blocked"}
  => \/ Signaled(event)
     \/ \E t \in Lockers : mpc[t] \in {"release", "try", "polltry"}

\* As long as no alarm is wasted that way, a free mutex on which a thread
\* sleeps is eventually taken again, or the sleep times out.
FreeMutexIsTaken ==
  [](wasted = 0) =>
    \A t \in Lockers :
      (owner = Unowned /\ mpc[t] = "blocked") ~> (owner # Unowned \/ mpc[t] # "blocked")
=============================================================================
