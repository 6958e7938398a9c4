------------------------------- MODULE RWLock -------------------------------
(***************************************************************************)
(* kernel/core/rwlock.c: a reader/writer lock made of one state word       *)
(* (exclusive bit and reader count), a count of exclusive holders and      *)
(* claimants that keeps new readers out, and one sync event for all        *)
(* waiters.  Each atomic access to a shared word is a step of its own; the *)
(* event is the atomic one of KEvent.                                      *)
(***************************************************************************)
EXTENDS KEvent, FiniteSets

CONSTANTS Threads,    \* threads that use the lock
          Timed,      \* those that pass a finite timeout
          Upgraders,  \* those that call rwlock_upgrade_to_exclusive
          NULL

ASSUME RWLockAssumption ==
  /\ IsFiniteSet(Threads)
  /\ Timed \subseteq Threads /\ Upgraders \subseteq Threads
  /\ NULL \notin Threads

VARIABLES state,            \* [excl, readers]: bit 31 and the rest of the word
          exclusive_count,
          exclusive_owner,
          event,
          pc,               \* where each thread is
          seen,             \* the local variable "state" of each thread
          timed             \* its timeout argument is not TIMEOUT_INFINITE

vars == <<state, exclusive_count, exclusive_owner, event, pc, seen, timed>>
lockVars == <<state, exclusive_count, exclusive_owner>>
locals == <<seen, timed>>

UNLOCKED  == [excl |-> FALSE, readers |-> 0]
EXCLUSIVE == [excl |-> TRUE, readers |-> 0]

SharedPCs == {"s_load", "s_test", "s_cas", "s_wait", "s_blocked", "s_expired",
              "shared", "s_alarm"}
ExclPCs   == {"x_claim", "x_load", "x_cas", "x_wait", "x_blocked", "x_expired", "x_owner",
              "excl", "x_rel_owner", "x_rel_state", "x_alarm"}
UpPCs     == {"u_claim", "u_cas", "u_undo", "u_release", "u_alarm"}
PCs       == SharedPCs \cup ExclPCs \cup UpPCs \cup {"out"}

\* Threads counted in the reader half of the word, threads that hold the
\* exclusive bit, threads that add one to exclusive_count.
Readers   == {t \in Threads : pc[t] \in {"shared", "u_claim", "u_cas", "u_undo", "u_release"}}
Writers   == {t \in Threads : pc[t] \in {"x_owner", "excl", "x_rel_owner", "x_rel_state"}}
Claimants == {t \in Threads : pc[t] \in {"x_load", "x_cas", "x_wait", "x_blocked",
                                         "x_expired", "x_owner", "excl",
                                         "u_cas", "u_undo"}}
Expired   == {t \in Threads : pc[t] \in {"s_expired", "x_expired"}}

rwlock_init ==
  /\ state = UNLOCKED
  /\ exclusive_count = 0
  /\ exclusive_owner = NULL
  /\ event = event_init
  /\ pc = [t \in Threads |-> "out"]
  /\ seen = [t \in Threads |-> UNLOCKED]
  /\ timed = [t \in Threads |-> FALSE]

Goto(t, label) == pc' = [pc EXCEPT ![t] = label]
-----------------------------------------------------------------------------
(* sched_wait(&rwlock->event, WAIT_MODE_BLOCK, timeout), from either loop *)

Wait(t, at, blocked, again) ==
  /\ pc[t] = at
  /\ \/ Signaled(event) /\ event' = Acquire(event) /\ Goto(t, again)
     \/ ~Signaled(event) /\ event' = Enqueue(event, t) /\ Goto(t, blocked)
  /\ UNCHANGED <<lockVars, locals>>

SharedWait(t)    == Wait(t, "s_wait", "s_blocked", "s_load")
ExclusiveWait(t) == Wait(t, "x_wait", "x_blocked", "x_load")

\* The timeout ends the wait; the block stays queued until the thread runs.
Timeout(t) ==
  /\ timed[t]
  /\ \/ pc[t] = "s_blocked" /\ Goto(t, "s_expired")
     \/ pc[t] = "x_blocked" /\ Goto(t, "x_expired")
  /\ UNCHANGED <<lockVars, event, locals>>

\* The acquire returns YAK_TIMEOUT; an exclusive one withdraws its claim.
FailAcquire(t) ==
  /\ pc[t] \in {"s_expired", "x_expired"}
  /\ event' = wb_dequeue(event, t)
  /\ exclusive_count' = IF pc[t] = "x_expired" THEN exclusive_count - 1
                                               ELSE exclusive_count
  /\ Goto(t, "out")
  /\ UNCHANGED <<state, exclusive_owner, locals>>

\* event_alarm(&rwlock->event, false); the caller goes on at "after".
Alarm(t, after) ==
  LET r == event_alarm(event, Expired)
  IN  /\ event' = r.ev
      /\ pc' = [u \in Threads |->
                  CASE u = t -> after
                    [] u \in r.woken /\ pc[u] = "s_blocked" -> "s_load"
                    [] u \in r.woken /\ pc[u] = "x_blocked" -> "x_load"
                    [] OTHER -> pc[u]]
      /\ UNCHANGED <<lockVars, locals>>
-----------------------------------------------------------------------------
(* rwlock_acquire_shared, rwlock_release_shared *)

\* A call comes with its timeout argument.
Call(t, label, to) ==
  /\ pc[t] = "out"
  /\ to => t \in Timed
  /\ timed' = [timed EXCEPT ![t] = to]
  /\ Goto(t, label)
  /\ UNCHANGED <<lockVars, event, seen>>

rwlock_acquire_shared(t, to) == Call(t, "s_load", to)

\* Load the word; an exclusive holder sends the reader to sleep.
SharedLoad(t) ==
  /\ pc[t] = "s_load"
  /\ seen' = [seen EXCEPT ![t] = state]
  /\ Goto(t, IF state.excl THEN "s_wait" ELSE "s_test")
  /\ UNCHANGED <<lockVars, event, timed>>

\* Writers that hold or want the lock keep new readers out.
SharedTest(t) ==
  /\ pc[t] = "s_test"
  /\ Goto(t, IF exclusive_count # 0 THEN "s_wait" ELSE "s_cas")
  /\ UNCHANGED <<lockVars, event, locals>>

\* A reader count that is bumped without comparing the word.
SharedCas_NoCompare(t) ==
  /\ pc[t] = "s_cas"
  /\ state' = [state EXCEPT !.readers = @ + 1]
  /\ Goto(t, "shared")
  /\ UNCHANGED <<exclusive_count, exclusive_owner, event, locals>>

\* Compare-and-swap to state + 1.
SharedCas(t) ==
  /\ pc[t] = "s_cas"
  /\ \/ /\ state = seen[t]
        /\ state' = [state EXCEPT !.readers = @ + 1]
        /\ Goto(t, "shared")
     \/ /\ state # seen[t]
        /\ UNCHANGED state
        /\ Goto(t, "s_wait")
  /\ UNCHANGED <<exclusive_count, exclusive_owner, event, locals>>

\* Decrement the reader count; only the last reader alarms.
ReleaseShared(t, at, alarm, after) ==
  /\ pc[t] = at
  /\ state' = [state EXCEPT !.readers = @ - 1]
  /\ Goto(t, IF state.readers = 1 THEN alarm ELSE after)
  /\ UNCHANGED <<exclusive_count, exclusive_owner, event, locals>>

rwlock_release_shared(t) == ReleaseShared(t, "shared", "s_alarm", "out")
SharedAlarm(t) == pc[t] = "s_alarm" /\ Alarm(t, "out")
-----------------------------------------------------------------------------
(* rwlock_acquire_exclusive, rwlock_release_exclusive *)

rwlock_acquire_exclusive(t, to) == Call(t, "x_claim", to)

ExclusiveClaim(t) ==
  /\ pc[t] = "x_claim"
  /\ exclusive_count' = exclusive_count + 1
  /\ Goto(t, "x_load")
  /\ UNCHANGED <<state, exclusive_owner, event, locals>>

ExclusiveLoad(t) ==
  /\ pc[t] = "x_load"
  /\ seen' = [seen EXCEPT ![t] = state]
  /\ Goto(t, IF state # UNLOCKED THEN "x_wait" ELSE "x_cas")
  /\ UNCHANGED <<lockVars, event, timed>>

ExclusiveCas(t) ==
  /\ pc[t] = "x_cas"
  /\ \/ state = seen[t] /\ state' = EXCLUSIVE /\ Goto(t, "x_owner")
     \/ state # seen[t] /\ UNCHANGED state /\ Goto(t, "x_wait")
  /\ UNCHANGED <<exclusive_count, exclusive_owner, event, locals>>

\* The owner is stored after the compare-and-swap took the lock.
StoreOwner(t) ==
  /\ pc[t] = "x_owner"
  /\ exclusive_owner' = t
  /\ Goto(t, "excl")
  /\ UNCHANGED <<state, exclusive_count, event, locals>>

\* rwlock_release_exclusive: withdraw the claim, clear the owner, clear the
\* bit, alarm.
ReleaseClaim(t) ==
  /\ pc[t] = "excl"
  /\ exclusive_count' = exclusive_count - 1
  /\ Goto(t, "x_rel_owner")
  /\ UNCHANGED <<state, exclusive_owner, event, locals>>

ClearOwner(t) ==
  /\ pc[t] = "x_rel_owner"
  /\ exclusive_owner' = NULL
  /\ Goto(t, "x_rel_state")
  /\ UNCHANGED <<state, exclusive_count, event, locals>>

ClearExclusive(t) ==
  /\ pc[t] = "x_rel_state"
  /\ state' = [state EXCEPT !.excl = FALSE]
  /\ Goto(t, "x_alarm")
  /\ UNCHANGED <<exclusive_count, exclusive_owner, event, locals>>

ExclusiveAlarm(t) == pc[t] = "x_alarm" /\ Alarm(t, "out")
-----------------------------------------------------------------------------
(* rwlock_upgrade_to_exclusive *)

\* Whatever follows has no timeout.
UpgradeLoad(t) ==
  /\ pc[t] = "shared"
  /\ t \in Upgraders
  /\ seen' = [seen EXCEPT ![t] = state]
  /\ timed' = [timed EXCEPT ![t] = FALSE]
  /\ Goto(t, "u_claim")
  /\ UNCHANGED <<lockVars, event>>

UpgradeClaim(t) ==
  /\ pc[t] = "u_claim"
  /\ exclusive_count' = exclusive_count + 1
  /\ Goto(t, IF seen[t].readers = 1 THEN "u_cas" ELSE "u_undo")
  /\ UNCHANGED <<state, exclusive_owner, event, locals>>

\* The only reader swaps its shared lock for the exclusive one.
UpgradeCas(t) ==
  /\ pc[t] = "u_cas"
  /\ \/ state = seen[t] /\ state' = EXCLUSIVE /\ Goto(t, "x_owner")
     \/ state # seen[t] /\ UNCHANGED state /\ Goto(t, "u_undo")
  /\ UNCHANGED <<exclusive_count, exclusive_owner, event, locals>>

\* Fallback: withdraw the claim, release the shared lock, acquire afresh.
UpgradeUndo(t) ==
  /\ pc[t] = "u_undo"
  /\ exclusive_count' = exclusive_count - 1
  /\ Goto(t, "u_release")
  /\ UNCHANGED <<state, exclusive_owner, event, locals>>

UpgradeRelease(t) == ReleaseShared(t, "u_release", "u_alarm", "x_claim")
UpgradeAlarm(t) == pc[t] = "u_alarm" /\ Alarm(t, "x_claim")
-----------------------------------------------------------------------------
\* What a thread inside the lock's code does next.
Step(t) ==
  \/ SharedLoad(t) \/ ExclusiveClaim(t) \/ SharedTest(t)
  \/ SharedCas(t) \/ SharedWait(t) \/ SharedAlarm(t)
  \/ ExclusiveLoad(t) \/ ExclusiveCas(t) \/ ExclusiveWait(t) \/ StoreOwner(t)
  \/ ClearOwner(t) \/ ClearExclusive(t) \/ ExclusiveAlarm(t)
  \/ UpgradeClaim(t) \/ UpgradeCas(t) \/ UpgradeUndo(t)
  \/ UpgradeRelease(t) \/ UpgradeAlarm(t)
  \/ FailAcquire(t)

Release(t) == rwlock_release_shared(t) \/ ReleaseClaim(t)

Next ==
  \E t \in Threads :
    \/ \E to \in BOOLEAN : \/ rwlock_acquire_shared(t, to)
                           \/ rwlock_acquire_exclusive(t, to)
    \/ Step(t) \/ Release(t) \/ UpgradeLoad(t) \/ Timeout(t)

Spec == rwlock_init /\ [][Next]_vars

\* Threads finish the code they are in and holders release; nobody is
\* obliged to acquire, to upgrade or to time out.
FairSpec == Spec /\ \A t \in Threads : WF_vars(Step(t)) /\ WF_vars(Release(t))
-----------------------------------------------------------------------------
(* Properties *)

\* Types of the lock words, the event and the program counters.
TypeOK ==
  /\ state \in [excl : BOOLEAN, readers : Int]
  /\ exclusive_count \in Int
  /\ exclusive_owner \in Threads \cup {NULL}
  /\ event \in [sig : {0, 1}, q : Seq(Threads)]
  /\ pc \in [Threads -> PCs]
  /\ seen \in [Threads -> [excl : BOOLEAN, readers : Int]]
  /\ timed \in [Threads -> BOOLEAN]

\* The state word counts exactly the shared holders, and its bit is set
\* exactly while somebody is between taking and dropping the exclusive lock:
\* writers exclude each other and all readers, through upgrades as well.
Exclusion ==
  /\ state.readers = Cardinality(Readers)
  /\ state.excl <=> Writers # {}
  /\ \A t \in Writers : Writers = {t} /\ Readers = {}

\* exclusive_count is the number of threads that hold or claim the lock
\* exclusively: a claim that leaks would shut readers out for ever.
ClaimsCounted == exclusive_count = Cardinality(Claimants)

\* The assertion after each successful compare-and-swap: the previous owner
\* has cleared exclusive_owner before the bit.
OwnerCleared == \A t \in Threads : pc[t] = "x_owner" => exclusive_owner = NULL

\* The four words of the lock say together who holds it.
LockIsExact == TypeOK /\ Exclusion /\ ClaimsCounted /\ OwnerCleared

\* A free lock does not leave a thread asleep: "wait for release" ends.
FreeLockWakesSleepers ==
  \A t \in Threads :
    (pc[t] = "x_blocked" /\ state = UNLOCKED) ~>
      (pc[t] # "x_blocked" \/ state # UNLOCKED)
=============================================================================
