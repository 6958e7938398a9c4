---------------------------- MODULE RWLockProofs ----------------------------
(***************************************************************************)
(* Proofs about kernel/core/rwlock.c for every finite set of threads and   *)
(* any mix of timeouts and upgrades: the state word, the count of claims   *)
(* and the owner say exactly who holds the lock.                           *)
(***************************************************************************)
EXTENDS RWLock, KernelLemmas

\* The alarm of this lock's latch is the one KernelLemmas describes.
LEMMA SameAlarm ==
  \A ev, ex : event_alarm(ev, ex) = Event!event_alarm(ev, ex)
BY DEF event_alarm, Event!event_alarm, signal_locked, Event!signal_locked,
       FirstLive, Event!FirstLive, LiveAt, Event!LiveAt

ReaderPCs   == {"shared", "u_claim", "u_cas", "u_undo", "u_release"}
WriterPCs   == {"x_owner", "excl", "x_rel_owner", "x_rel_state"}
ClaimantPCs == {"x_load", "x_cas", "x_wait", "x_blocked", "x_expired",
                "x_owner", "excl", "u_cas", "u_undo"}
QueuedPCs   == {"s_blocked", "x_blocked", "s_expired", "x_expired"}

\* The threads with a block on the event's list are in a wait, one block each.
Linked ==
  /\ IsInjective(event.q)
  /\ \A t \in ToSet(event.q) : pc[t] \in QueuedPCs

\* What a thread still knows of the state word when it compares and swaps.
SeenIsSafe ==
  \A t \in Threads :
    /\ pc[t] \in {"s_test", "s_cas", "u_claim", "u_cas"} => ~seen[t].excl
    /\ pc[t] = "x_cas" => seen[t] = UNLOCKED
    /\ pc[t] = "u_cas" => seen[t].readers = 1

\* The owner word is set only while its thread has it set: OwnerCleared for
\* the thread that takes the lock next.
OwnerHolds ==
  exclusive_owner # NULL => pc[exclusive_owner] \in {"excl", "x_rel_owner"}

IInv == TypeOK /\ Linked /\ Exclusion /\ ClaimsCounted /\ SeenIsSafe /\ OwnerHolds

\* What a thread that goes from one label to another does to the counts.
LEMMA MoveCounts ==
  ASSUME TypeOK, NEW t \in Threads, NEW l \in PCs, pc' = [pc EXCEPT ![t] = l]
  PROVE  /\ Cardinality(Readers) \in Nat /\ Cardinality(Claimants) \in Nat
         /\ Cardinality(Readers') = Cardinality(Readers)
              + (IF l \in ReaderPCs THEN 1 ELSE 0)
              - (IF pc[t] \in ReaderPCs THEN 1 ELSE 0)
         /\ Cardinality(Claimants') = Cardinality(Claimants)
              + (IF l \in ClaimantPCs THEN 1 ELSE 0)
              - (IF pc[t] \in ClaimantPCs THEN 1 ELSE 0)
         /\ Writers' = IF l \in WriterPCs THEN Writers \cup {t} ELSE Writers \ {t}
         /\ Readers' = IF l \in ReaderPCs THEN Readers \cup {t} ELSE Readers \ {t}
         /\ t \in Readers <=> pc[t] \in ReaderPCs
         /\ t \in Writers <=> pc[t] \in WriterPCs
<1>p. pc \in [Threads -> PCs] /\ IsFiniteSet(Threads)
  BY RWLockAssumption DEF TypeOK
<1>1. /\ Readers \in SUBSET Threads /\ Readers' \in SUBSET Threads
      /\ Claimants \in SUBSET Threads /\ Claimants' \in SUBSET Threads
  BY DEF Readers, Claimants
<1>2. /\ t \in Readers <=> pc[t] \in ReaderPCs
      /\ t \in Readers' <=> l \in ReaderPCs
      /\ \A u \in Threads : u # t => (u \in Readers <=> u \in Readers')
  BY <1>p DEF Readers, ReaderPCs
<1>3. /\ t \in Claimants <=> pc[t] \in ClaimantPCs
      /\ t \in Claimants' <=> l \in ClaimantPCs
      /\ \A u \in Threads : u # t => (u \in Claimants <=> u \in Claimants')
  BY <1>p DEF Claimants, ClaimantPCs
<1>4. /\ t \in Writers <=> pc[t] \in WriterPCs
      /\ t \in Writers' <=> l \in WriterPCs
      /\ \A u \in Threads : u # t => (u \in Writers <=> u \in Writers')
      /\ Writers \subseteq Threads /\ Writers' \subseteq Threads
  BY <1>p DEF Writers, WriterPCs
<1>5. /\ Cardinality(Readers) \in Nat
      /\ Cardinality(Readers') = Cardinality(Readers)
           + (IF t \in Readers' THEN 1 ELSE 0) - (IF t \in Readers THEN 1 ELSE 0)
  <2> HIDE DEF Readers
  <2> QED BY <1>p, <1>1, <1>2, CountStep
<1>6. /\ Cardinality(Claimants) \in Nat
      /\ Cardinality(Claimants') = Cardinality(Claimants)
           + (IF t \in Claimants' THEN 1 ELSE 0) - (IF t \in Claimants THEN 1 ELSE 0)
  BY <1>p, <1>1, <1>3, CountStep
<1>7. Writers' = IF l \in WriterPCs THEN Writers \cup {t} ELSE Writers \ {t}
  BY <1>4
<1>8. Readers' = IF l \in ReaderPCs THEN Readers \cup {t} ELSE Readers \ {t}
  BY <1>1, <1>2
<1> QED BY <1>2, <1>3, <1>4, <1>5, <1>6, <1>7, <1>8

\* The facts about the present state that most steps need.
LEMMA IInvFacts ==
  ASSUME IInv
  PROVE  /\ pc \in [Threads -> PCs] /\ timed \in [Threads -> BOOLEAN]
         /\ seen \in [Threads -> [excl : BOOLEAN, readers : Int]]
         /\ exclusive_count = Cardinality(Claimants)
         /\ exclusive_count \in Int
         /\ exclusive_owner \in Threads \cup {NULL}
         /\ state \in [excl : BOOLEAN, readers : Int]
         /\ event \in [sig : {0, 1}, q : Seq(Threads)]
         /\ event.sig \in {0, 1} /\ event.q \in Seq(Threads)
         /\ IsInjective(event.q) /\ ToSet(event.q) \subseteq Threads
         /\ \A u \in ToSet(event.q) : pc[u] \in QueuedPCs
<1>1. event \in [sig : {0, 1}, q : Seq(Threads)]
  BY DEF IInv, TypeOK
<1>2. event.sig \in {0, 1} /\ event.q \in Seq(Threads)
  BY <1>1
<1> QED BY <1>1, <1>2, ListAt DEF IInv, TypeOK, Linked, ClaimsCounted

\* A step of t from its label to l that leaves the event alone and changes the
\* words of the lock as the labels say.  It takes the lock only when nobody
\* who excludes it has it.
Change(t, l) ==
  /\ pc' = [pc EXCEPT ![t] = l]
  /\ event' = event
  /\ state' \in [excl : BOOLEAN, readers : Int]
  /\ state'.readers = state.readers + (IF l \in ReaderPCs THEN 1 ELSE 0)
                                    - (IF pc[t] \in ReaderPCs THEN 1 ELSE 0)
  /\ state'.excl <=> l \in WriterPCs \/ (state.excl /\ pc[t] \notin WriterPCs)
  /\ exclusive_count' = exclusive_count + (IF l \in ClaimantPCs THEN 1 ELSE 0)
                                        - (IF pc[t] \in ClaimantPCs THEN 1 ELSE 0)
  /\ l \in WriterPCs =>
       /\ l \notin ReaderPCs
       /\ pc[t] \in WriterPCs \/ (Writers = {} /\ Readers \subseteq {t})
  /\ l \in ReaderPCs => pc[t] \in ReaderPCs \/ Writers = {}
  /\ pc[t] \in QueuedPCs => l \in QueuedPCs
  /\ exclusive_owner' # NULL =>
       \/ exclusive_owner' = t /\ l \in {"excl", "x_rel_owner"}
       \/ exclusive_owner' = exclusive_owner /\ exclusive_owner # t
  /\ timed' \in [Threads -> BOOLEAN]
  /\ seen' \in [Threads -> [excl : BOOLEAN, readers : Int]]
  /\ \A u \in Threads : u # t => seen'[u] = seen[u]
  /\ l \in {"s_test", "s_cas", "u_claim", "u_cas"} => ~seen'[t].excl
  /\ l = "x_cas" => seen'[t] = UNLOCKED
  /\ l = "u_cas" => seen'[t].readers = 1

\* A thread that goes on to label l without leaving or entering the wait list.
LEMMA ChangeIInv ==
  ASSUME IInv, NEW t \in Threads, NEW l \in PCs, Change(t, l)
  PROVE  IInv'
<1> USE DEF Change
<1>f. /\ pc \in [Threads -> PCs] /\ event.q \in Seq(Threads)
      /\ ToSet(event.q) \subseteq Threads
      /\ exclusive_count \in Int /\ exclusive_count = Cardinality(Claimants)
      /\ state \in [excl : BOOLEAN, readers : Int]
      /\ exclusive_owner \in Threads \cup {NULL}
  BY IInvFacts
<1>1. /\ Cardinality(Readers) \in Nat /\ Cardinality(Claimants) \in Nat
      /\ Cardinality(Readers') = Cardinality(Readers)
           + (IF l \in ReaderPCs THEN 1 ELSE 0)
           - (IF pc[t] \in ReaderPCs THEN 1 ELSE 0)
      /\ Cardinality(Claimants') = Cardinality(Claimants)
           + (IF l \in ClaimantPCs THEN 1 ELSE 0)
           - (IF pc[t] \in ClaimantPCs THEN 1 ELSE 0)
      /\ Writers' = IF l \in WriterPCs THEN Writers \cup {t} ELSE Writers \ {t}
      /\ Readers' = IF l \in ReaderPCs THEN Readers \cup {t} ELSE Readers \ {t}
      /\ t \in Readers <=> pc[t] \in ReaderPCs
      /\ t \in Writers <=> pc[t] \in WriterPCs
  BY MoveCounts DEF IInv
<1>2. TypeOK'
  <2>1. exclusive_owner' \in Threads \cup {NULL} /\ exclusive_count' \in Int
    BY <1>f
  <2> QED BY <1>f, <2>1 DEF IInv, TypeOK
<1>3. Linked'
  BY <1>f DEF IInv, Linked
<1>4. Exclusion'
  <2>x. /\ state.readers = Cardinality(Readers)
        /\ state.excl <=> Writers # {}
        /\ \A u \in Writers : Writers = {u} /\ Readers = {}
    BY DEF IInv, Exclusion
  <2>1. state'.readers = Cardinality(Readers')
    BY <2>x, <1>1
  <2>2. \A u \in Writers' : Writers' = {u} /\ Readers' = {}
    BY <2>x, <1>1
  <2>3. state'.excl <=> Writers' # {}
    BY <2>x, <1>1
  <2> QED BY <2>1, <2>2, <2>3 DEF Exclusion
<1>5. ClaimsCounted'
  BY <1>1, <1>f DEF ClaimsCounted
<1>6. SeenIsSafe'
  BY SMTT(30), <1>f DEF IInv, SeenIsSafe
<1>7. OwnerHolds'
  <2>1. exclusive_owner # NULL => pc[exclusive_owner] \in {"excl", "x_rel_owner"}
    BY DEF IInv, OwnerHolds
  <2>2. exclusive_owner' # NULL => pc'[exclusive_owner'] \in {"excl", "x_rel_owner"}
    BY <2>1, <1>f
  <2> QED BY <2>2 DEF OwnerHolds
<1> QED BY <1>2, <1>3, <1>4, <1>5, <1>6, <1>7 DEF IInv

\* A step that only moves a thread, and perhaps lets it read the state word.
LEMMA MoveIInv ==
  ASSUME IInv, NEW t \in Threads, NEW l \in PCs,
         pc' = [pc EXCEPT ![t] = l],
         UNCHANGED <<state, exclusive_count, exclusive_owner, event>>,
         l \in ReaderPCs <=> pc[t] \in ReaderPCs,
         l \in WriterPCs <=> pc[t] \in WriterPCs,
         l \in ClaimantPCs <=> pc[t] \in ClaimantPCs,
         pc[t] \in QueuedPCs => l \in QueuedPCs,
         pc[t] \in {"excl", "x_rel_owner"} => l \in {"excl", "x_rel_owner"},
         timed' \in [Threads -> BOOLEAN],
         seen' \in [Threads -> [excl : BOOLEAN, readers : Int]],
         \A u \in Threads : u # t => seen'[u] = seen[u],
         /\ l \in {"s_test", "s_cas", "u_claim", "u_cas"} => ~seen'[t].excl
         /\ l = "x_cas" => seen'[t] = UNLOCKED
         /\ l = "u_cas" => seen'[t].readers = 1
  PROVE  IInv'
<1>1. /\ exclusive_count \in Int /\ state \in [excl : BOOLEAN, readers : Int]
      /\ state.readers \in Int /\ state.excl \in BOOLEAN
  BY IInvFacts
<1>2. exclusive_owner # NULL => pc[exclusive_owner] \in {"excl", "x_rel_owner"}
  BY DEF IInv, OwnerHolds
<1>3. l \in WriterPCs => l \notin ReaderPCs
  BY DEF ReaderPCs, WriterPCs
<1>4. l \in WriterPCs => state.excl
  BY DEF IInv, Exclusion, Writers, WriterPCs
<1>5. Change(t, l)
  BY <1>1, <1>2, <1>3, <1>4 DEF Change
<1> QED BY <1>5, ChangeIInv

\* Calls, loads, tests, failed swaps and timeouts only move a thread.
LEMMA StepMoves ==
  ASSUME IInv, NEW t \in Threads,
         \/ \E to \in BOOLEAN : rwlock_acquire_shared(t, to) \/ rwlock_acquire_exclusive(t, to)
         \/ SharedLoad(t) \/ SharedTest(t) \/ ExclusiveLoad(t)
         \/ SharedCas(t) /\ state # seen[t]
         \/ ExclusiveCas(t) /\ state # seen[t]
         \/ UpgradeCas(t) /\ state # seen[t]
         \/ UpgradeLoad(t) \/ Timeout(t)
  PROVE  IInv'
<1>f. /\ pc \in [Threads -> PCs] /\ timed \in [Threads -> BOOLEAN]
      /\ seen \in [Threads -> [excl : BOOLEAN, readers : Int]]
      /\ state \in [excl : BOOLEAN, readers : Int]
  BY IInvFacts
<1> USE DEF PCs, SharedPCs, ExclPCs, UpPCs, ReaderPCs, WriterPCs, ClaimantPCs, QueuedPCs,
            lockVars, locals, Goto
<1>1. CASE \E to \in BOOLEAN : rwlock_acquire_shared(t, to) \/ rwlock_acquire_exclusive(t, to)
  <2>1. PICK l \in {"s_load", "x_claim"} : \E to \in BOOLEAN : Call(t, l, to)
    BY <1>1 DEF rwlock_acquire_shared, rwlock_acquire_exclusive
  <2>2. PICK to \in BOOLEAN : Call(t, l, to)
    BY <2>1
  <2>3. /\ pc[t] = "out" /\ pc' = [pc EXCEPT ![t] = l] /\ timed' = [timed EXCEPT ![t] = to]
        /\ UNCHANGED <<state, exclusive_count, exclusive_owner, event, seen>>
    BY <2>2 DEF Call
  <2> QED BY <2>3, <1>f, MoveIInv
<1>2. CASE SharedLoad(t)
  <2>1. CASE state.excl
    BY <1>2, <2>1, <1>f, MoveIInv DEF SharedLoad
  <2>2. CASE ~state.excl
    BY <1>2, <2>2, <1>f, MoveIInv DEF SharedLoad
  <2> QED BY <2>1, <2>2
<1>3. CASE SharedTest(t)
  <2>1. PICK l \in {"s_wait", "s_cas"} : pc' = [pc EXCEPT ![t] = l]
    BY <1>3 DEF SharedTest
  <2>2. /\ pc[t] = "s_test" /\ ~seen[t].excl
        /\ UNCHANGED <<state, exclusive_count, exclusive_owner, event, seen, timed>>
    BY <1>3 DEF SharedTest, IInv, SeenIsSafe
  <2> QED BY <2>1, <2>2, <1>f, MoveIInv
<1>4. CASE ExclusiveLoad(t)
  <2>1. CASE state = UNLOCKED
    BY <1>4, <2>1, <1>f, MoveIInv DEF ExclusiveLoad
  <2>2. CASE state # UNLOCKED
    BY <1>4, <2>2, <1>f, MoveIInv DEF ExclusiveLoad
  <2> QED BY <2>1, <2>2
<1>5. CASE SharedCas(t) /\ state # seen[t]
  BY <1>5, <1>f, MoveIInv DEF SharedCas
<1>6. CASE ExclusiveCas(t) /\ state # seen[t]
  BY <1>6, <1>f, MoveIInv DEF ExclusiveCas
<1>7. CASE UpgradeCas(t) /\ state # seen[t]
  BY SMTT(30), <1>7, <1>f, MoveIInv DEF UpgradeCas
<1>8. CASE UpgradeLoad(t)
  <2>1. pc[t] = "shared" /\ t \in Readers
    BY <1>8 DEF UpgradeLoad, Readers
  <2>2. ~state.excl
    BY <2>1 DEF IInv, Exclusion
  <2> QED BY <1>8, <2>1, <2>2, <1>f, MoveIInv DEF UpgradeLoad
<1>9. CASE Timeout(t)
  <2>1. PICK l \in {"s_expired", "x_expired"} :
           /\ pc' = [pc EXCEPT ![t] = l]
           /\ \/ l = "s_expired" /\ pc[t] = "s_blocked"
              \/ l = "x_expired" /\ pc[t] = "x_blocked"
    BY <1>9 DEF Timeout
  <2> QED BY <2>1, <1>9, <1>f, MoveIInv DEF Timeout
<1> QED BY <1>1, <1>2, <1>3, <1>4, <1>5, <1>6, <1>7, <1>8, <1>9

\* Claims, owner and state word change in steps of their own.
LEMMA StepWords ==
  ASSUME IInv, NEW t \in Threads,
         \/ ExclusiveClaim(t) \/ ReleaseClaim(t) \/ UpgradeClaim(t) \/ UpgradeUndo(t)
         \/ StoreOwner(t) \/ ClearOwner(t) \/ ClearExclusive(t)
         \/ SharedCas(t) /\ state = seen[t]
         \/ ExclusiveCas(t) /\ state = seen[t]
         \/ UpgradeCas(t) /\ state = seen[t]
         \/ rwlock_release_shared(t) \/ UpgradeRelease(t)
  PROVE  IInv'
<1>f. /\ pc \in [Threads -> PCs] /\ timed \in [Threads -> BOOLEAN]
      /\ seen \in [Threads -> [excl : BOOLEAN, readers : Int]]
      /\ state \in [excl : BOOLEAN, readers : Int]
      /\ state.readers \in Int /\ state.excl \in BOOLEAN
      /\ exclusive_count \in Int
  BY IInvFacts
<1>x. /\ state.readers = Cardinality(Readers)
      /\ state.excl <=> Writers # {}
      /\ \A u \in Writers : Writers = {u} /\ Readers = {}
  BY DEF IInv, Exclusion
<1>s. /\ pc[t] \in {"s_test", "s_cas", "u_claim", "u_cas"} => ~seen[t].excl
      /\ pc[t] = "x_cas" => seen[t] = UNLOCKED
      /\ pc[t] = "u_cas" => seen[t].readers = 1
  BY DEF IInv, SeenIsSafe
<1>o. exclusive_owner # NULL => pc[exclusive_owner] \in {"excl", "x_rel_owner"}
  BY DEF IInv, OwnerHolds
<1> USE DEF PCs, SharedPCs, ExclPCs, UpPCs, ReaderPCs, WriterPCs, ClaimantPCs, QueuedPCs,
            lockVars, locals, Goto, Change
<1>w. pc[t] \in WriterPCs => state.excl
  BY <1>x DEF Writers
<1>r. pc[t] \in ReaderPCs => Writers = {}
  BY SMTT(30), <1>x DEF Readers
<1>1. CASE ExclusiveClaim(t)
  <2>1. Change(t, "x_load")
    BY <1>1, <1>f, <1>o DEF ExclusiveClaim
  <2> QED BY <2>1, ChangeIInv
<1>2. CASE ReleaseClaim(t)
  <2>1. Change(t, "x_rel_owner")
    BY <1>2, <1>f, <1>o, <1>w DEF ReleaseClaim
  <2> QED BY <2>1, ChangeIInv
<1>3. CASE UpgradeClaim(t)
  <2>1. CASE seen[t].readers = 1
    <3>1. Change(t, "u_cas")
      BY <1>3, <2>1, <1>f, <1>o, <1>s DEF UpgradeClaim
    <3> QED BY <3>1, ChangeIInv
  <2>2. CASE seen[t].readers # 1
    <3>1. Change(t, "u_undo")
      BY <1>3, <2>2, <1>f, <1>o DEF UpgradeClaim
    <3> QED BY <3>1, ChangeIInv
  <2> QED BY <2>1, <2>2
<1>4. CASE UpgradeUndo(t)
  <2>1. Change(t, "u_release")
    BY <1>4, <1>f, <1>o DEF UpgradeUndo
  <2> QED BY <2>1, ChangeIInv
<1>5. CASE StoreOwner(t)
  <2>1. Change(t, "excl")
    BY <1>5, <1>f, <1>w DEF StoreOwner
  <2> QED BY <2>1, ChangeIInv
<1>6. CASE ClearOwner(t)
  <2>1. Change(t, "x_rel_state")
    BY <1>6, <1>f, <1>w DEF ClearOwner
  <2> QED BY <2>1, ChangeIInv
<1>7. CASE ClearExclusive(t)
  <2>1. Change(t, "x_alarm")
    <3>1. /\ pc[t] = "x_rel_state" /\ pc' = [pc EXCEPT ![t] = "x_alarm"]
          /\ state' = [state EXCEPT !.excl = FALSE]
          /\ UNCHANGED <<exclusive_count, exclusive_owner, event, seen, timed>>
      BY <1>7 DEF ClearExclusive
    <3>2. /\ state' \in [excl : BOOLEAN, readers : Int]
          /\ ~state'.excl /\ state'.readers = state.readers
      BY <3>1, <1>f
    <3> QED BY <3>1, <3>2, <1>f, <1>o
  <2> QED BY <2>1, ChangeIInv
<1>8. CASE SharedCas(t) /\ state = seen[t]
  <2>1. Writers = {}
    BY <1>8, <1>x, <1>s DEF SharedCas
  <2>3. Change(t, "shared")
    BY <1>8, <2>1, <1>f, <1>o, <1>s DEF SharedCas
  <2> QED BY <2>3, ChangeIInv
<1>9. CASE ExclusiveCas(t) /\ state = seen[t]
  <2>1. state = UNLOCKED /\ Writers = {} /\ Readers = {}
    <3>1. state.readers = 0 /\ ~state.excl /\ state = UNLOCKED
      BY <1>9, <1>s DEF ExclusiveCas, UNLOCKED
    <3>2. IsFiniteSet(Readers)
      BY RWLockAssumption, FS_Subset DEF Readers
    <3> QED BY <3>1, <3>2, <1>x, FS_EmptySet
  <2>3. Change(t, "x_owner")
    <3>1. /\ pc[t] = "x_cas" /\ pc' = [pc EXCEPT ![t] = "x_owner"]
          /\ UNCHANGED <<exclusive_count, exclusive_owner, event, seen, timed>>
          /\ state' = EXCLUSIVE /\ ~state.excl /\ state.readers = 0
      BY <1>9, <2>1 DEF ExclusiveCas, UNLOCKED
    <3>2. /\ state' \in [excl : BOOLEAN, readers : Int]
          /\ state'.excl /\ state'.readers = 0
      BY <3>1 DEF EXCLUSIVE
    <3> QED BY <3>1, <3>2, <2>1, <1>f, <1>o
  <2> QED BY <2>3, ChangeIInv
<1>10. CASE UpgradeCas(t) /\ state = seen[t]
  <2>1. state.readers = 1 /\ ~state.excl /\ pc[t] = "u_cas"
    BY <1>10, <1>s DEF UpgradeCas
  <2>2. Writers = {} /\ Readers = {t}
    <3>1. t \in Readers
      BY <2>1 DEF Readers
    <3>2. IsFiniteSet(Readers)
      BY RWLockAssumption, FS_Subset DEF Readers
    <3> QED BY <2>1, <3>1, <3>2, <1>x, FS_Singleton
  <2>3. Change(t, "x_owner")
    <3>1. /\ pc[t] = "u_cas" /\ pc' = [pc EXCEPT ![t] = "x_owner"]
          /\ UNCHANGED <<exclusive_count, exclusive_owner, event, seen, timed>>
          /\ state' = EXCLUSIVE
      BY <1>10 DEF UpgradeCas
    <3>2. /\ state' \in [excl : BOOLEAN, readers : Int]
          /\ state'.excl /\ state'.readers = 0
      BY SMTT(30), <3>1 DEF EXCLUSIVE
    <3> QED BY <3>1, <3>2, <2>1, <2>2, <1>f, <1>o
  <2> QED BY <2>3, ChangeIInv
<1>11. CASE rwlock_release_shared(t) \/ UpgradeRelease(t)
  <2>1. PICK l \in {"s_alarm", "out", "u_alarm", "x_claim"} : pc' = [pc EXCEPT ![t] = l]
    BY <1>11 DEF rwlock_release_shared, UpgradeRelease, ReleaseShared
  <2>2. /\ pc[t] \in {"shared", "u_release"}
        /\ state' = [state EXCEPT !.readers = @ - 1]
        /\ UNCHANGED <<exclusive_count, exclusive_owner, event, seen, timed>>
    BY <1>11 DEF rwlock_release_shared, UpgradeRelease, ReleaseShared
  <2>3. Change(t, l)
    BY <2>1, <2>2, <1>f, <1>o
  <2> QED BY ZenonT(40), <2>1, <2>3, ChangeIInv
<1> QED BY <1>1, <1>2, <1>3, <1>4, <1>5, <1>6, <1>7, <1>8, <1>9, <1>10, <1>11

\* A step on the event moves threads between waiting and running and leaves the
\* words of the lock to the holders, except for a claim that is withdrawn.
LEMMA QueueIInv ==
  ASSUME IInv,
         UNCHANGED <<state, exclusive_owner, seen, timed>>,
         pc' \in [Threads -> PCs],
         \A u \in Threads : pc'[u] # pc[u] =>
            /\ pc[u] \notin {"excl", "x_rel_owner"}
            /\ pc'[u] \notin {"s_test", "s_cas", "x_cas", "u_claim", "u_cas"},
         Readers' = Readers, Writers' = Writers,
         exclusive_count' \in Int, exclusive_count' = Cardinality(Claimants'),
         event' \in [sig : {0, 1}, q : Seq(Threads)],
         IsInjective(event'.q),
         \A u \in ToSet(event'.q) : pc'[u] \in QueuedPCs
  PROVE  IInv'
<1>1. TypeOK'
  BY DEF IInv, TypeOK
<1>2. Linked'
  BY DEF Linked
<1>3. Exclusion'
  BY DEF IInv, Exclusion
<1>4. ClaimsCounted'
  BY DEF ClaimsCounted
<1>5. SeenIsSafe'
  BY DEF IInv, SeenIsSafe
<1>6. OwnerHolds'
  BY IInvFacts DEF IInv, OwnerHolds
<1> QED BY <1>1, <1>2, <1>3, <1>4, <1>5, <1>6 DEF IInv

\* event_alarm makes the woken threads try again.
LEMMA AlarmIInv ==
  ASSUME IInv, NEW t \in Threads, NEW after \in {"out", "x_claim"},
         pc[t] \in {"s_alarm", "x_alarm", "u_alarm"}, Alarm(t, after)
  PROVE  IInv'
<1>f. /\ pc \in [Threads -> PCs] /\ exclusive_count \in Int
      /\ exclusive_count = Cardinality(Claimants)
      /\ event \in [sig : {0, 1}, q : Seq(Threads)] /\ IsInjective(event.q)
      /\ \A u \in ToSet(event.q) : pc[u] \in QueuedPCs
  BY IInvFacts
<1> DEFINE r == event_alarm(event, Expired)
<1>1. /\ event' = r.ev
      /\ pc' = [u \in Threads |->
                  CASE u = t -> after
                    [] u \in r.woken /\ pc[u] = "s_blocked" -> "s_load"
                    [] u \in r.woken /\ pc[u] = "x_blocked" -> "x_load"
                    [] OTHER -> pc[u]]
      /\ UNCHANGED <<state, exclusive_count, exclusive_owner, seen, timed>>
  BY DEF Alarm, lockVars, locals
<1>2. /\ r.ev \in [sig : {0, 1}, q : Seq(Threads)]
      /\ IsInjective(r.ev.q)
      /\ r.woken \subseteq ToSet(event.q) \ ToSet(r.ev.q)
      /\ ToSet(r.ev.q) \subseteq ToSet(event.q)
  <2>1. Expired \in SUBSET Threads
    BY DEF Expired
  <2> QED BY <2>1, <1>f, SameAlarm, AlarmProps
<1> HIDE DEF r
<1>3. \A u \in Threads :
        pc'[u] = IF u = t THEN after
                 ELSE IF u \in r.woken /\ pc[u] = "s_blocked" THEN "s_load"
                 ELSE IF u \in r.woken /\ pc[u] = "x_blocked" THEN "x_load"
                 ELSE pc[u]
  BY <1>1
<1>4. pc' \in [Threads -> PCs]
  BY <1>1, <1>3, <1>f DEF PCs, SharedPCs, ExclPCs
<1>5. Readers' = Readers
  BY <1>3 DEF Readers
<1>6. Writers' = Writers
  BY <1>3 DEF Writers
<1>7. Claimants' = Claimants
  BY <1>3 DEF Claimants
<1>8. t \notin ToSet(event.q)
  BY <1>f DEF QueuedPCs
<1>9. \A u \in ToSet(event'.q) : pc'[u] \in QueuedPCs
  <2> SUFFICES ASSUME NEW u \in ToSet(event'.q) PROVE pc'[u] \in QueuedPCs
    OBVIOUS
  <2>1. u \in ToSet(event.q) /\ u \notin r.woken /\ u # t
    BY <1>1, <1>2, <1>8
  <2>2. u \in Threads
    BY <2>1, IInvFacts
  <2> QED BY <2>1, <2>2, <1>3, <1>f
<1>10. \A u \in Threads : pc'[u] # pc[u] =>
            /\ pc[u] \notin {"excl", "x_rel_owner"}
            /\ pc'[u] \notin {"s_test", "s_cas", "x_cas", "u_claim", "u_cas"}
  BY <1>3
<1> QED BY <1>1, <1>2, <1>4, <1>5, <1>6, <1>7, <1>9, <1>10, <1>f, QueueIInv

\* Waiting, ending a wait by timeout, and the alarms of the releases.
LEMMA StepQueue ==
  ASSUME IInv, NEW t \in Threads,
         \/ SharedWait(t) \/ ExclusiveWait(t) \/ FailAcquire(t)
         \/ SharedAlarm(t) \/ ExclusiveAlarm(t) \/ UpgradeAlarm(t)
  PROVE  IInv'
<1>f. /\ pc \in [Threads -> PCs]
      /\ exclusive_count = Cardinality(Claimants) /\ exclusive_count \in Int
      /\ event \in [sig : {0, 1}, q : Seq(Threads)]
      /\ event.sig \in {0, 1} /\ event.q \in Seq(Threads)
      /\ IsInjective(event.q) /\ ToSet(event.q) \subseteq Threads
      /\ \A u \in ToSet(event.q) : pc[u] \in QueuedPCs
  BY IInvFacts
<1>1. CASE SharedWait(t) \/ ExclusiveWait(t)
  <2>1. PICK at \in {"s_wait", "x_wait"}, l \in {"s_blocked", "x_blocked", "s_load", "x_load"} :
           /\ pc[t] = at /\ pc' = [pc EXCEPT ![t] = l]
           /\ at = "s_wait" <=> l \in {"s_blocked", "s_load"}
           /\ \/ Signaled(event) /\ event' = Acquire(event) /\ l \in {"s_load", "x_load"}
              \/ ~Signaled(event) /\ event' = Enqueue(event, t) /\ l \in {"s_blocked", "x_blocked"}
           /\ UNCHANGED <<state, exclusive_count, exclusive_owner, seen, timed>>
    BY <1>1 DEF SharedWait, ExclusiveWait, Wait, Goto, lockVars, locals
  <2>2. l \in PCs
    BY DEF PCs, SharedPCs, ExclPCs
  <2>3. /\ Cardinality(Claimants') = Cardinality(Claimants)
        /\ Readers' = Readers /\ Writers' = Writers
    <3>1. /\ Cardinality(Claimants) \in Nat
          /\ Cardinality(Claimants') = Cardinality(Claimants)
              + (IF l \in ClaimantPCs THEN 1 ELSE 0)
              - (IF pc[t] \in ClaimantPCs THEN 1 ELSE 0)
      BY <2>1, <2>2, MoveCounts DEF IInv
    <3>2. l \in ClaimantPCs <=> pc[t] \in ClaimantPCs
      BY <2>1 DEF ClaimantPCs
    <3> QED BY <3>1, <3>2, <2>1, <1>f DEF Readers, Writers
  <2>4. CASE Signaled(event)
    <3>1. /\ event' = [sig |-> event.sig - 1, q |-> event.q] /\ event.sig = 1
          /\ l \in {"s_load", "x_load"}
      BY <2>1, <2>4, <1>f DEF Signaled, Acquire
    <3>2. \A u \in ToSet(event'.q) : pc'[u] \in QueuedPCs
      BY <3>1, <2>1, <1>f DEF QueuedPCs
    <3>3. /\ event' \in [sig : {0, 1}, q : Seq(Threads)] /\ IsInjective(event'.q)
          /\ pc' \in [Threads -> PCs]
          /\ \A u \in Threads : pc'[u] # pc[u] =>
               /\ pc[u] \notin {"excl", "x_rel_owner"}
               /\ pc'[u] \notin {"s_test", "s_cas", "x_cas", "u_claim", "u_cas"}
      BY <3>1, <2>1, <2>2, <1>f
    <3> QED BY <3>2, <3>3, <2>1, <2>3, <1>f, QueueIInv
  <2>5. CASE ~Signaled(event)
    <3>1. /\ event' = [sig |-> event.sig, q |-> Append(event.q, t)]
          /\ l \in {"s_blocked", "x_blocked"} /\ t \notin ToSet(event.q)
      BY <2>1, <2>5, <1>f DEF Enqueue, QueuedPCs
    <3>2. /\ Append(event.q, t) \in Seq(Threads)
          /\ ToSet(Append(event.q, t)) = ToSet(event.q) \cup {t}
          /\ IsInjective(Append(event.q, t))
      BY <3>1, <1>f, AppendProps
    <3>3. \A u \in ToSet(event'.q) : pc'[u] \in QueuedPCs
      BY <3>1, <3>2, <2>1, <1>f DEF QueuedPCs
    <3>4. /\ event' \in [sig : {0, 1}, q : Seq(Threads)] /\ IsInjective(event'.q)
          /\ pc' \in [Threads -> PCs]
          /\ \A u \in Threads : pc'[u] # pc[u] =>
               /\ pc[u] \notin {"excl", "x_rel_owner"}
               /\ pc'[u] \notin {"s_test", "s_cas", "x_cas", "u_claim", "u_cas"}
      BY <3>1, <3>2, <2>1, <2>2, <1>f
    <3> QED BY <3>3, <3>4, <2>1, <2>3, <1>f, QueueIInv
  <2> QED BY <2>4, <2>5
<1>2. CASE FailAcquire(t)
  <2>1. /\ pc[t] \in {"s_expired", "x_expired"} /\ pc' = [pc EXCEPT ![t] = "out"]
        /\ event' = wb_dequeue(event, t)
        /\ exclusive_count' = IF pc[t] = "x_expired" THEN exclusive_count - 1
                                                     ELSE exclusive_count
        /\ UNCHANGED <<state, exclusive_owner, seen, timed>>
    BY <1>2 DEF FailAcquire, Goto, locals
  <2>2. /\ event' \in [sig : {0, 1}, q : Seq(Threads)]
        /\ IsInjective(event'.q)
        /\ ToSet(event'.q) = ToSet(event.q) \ {t}
    <3>1. CASE t \in ToSet(event.q)
      <4>1. event' = [sig |-> event.sig, q |-> Unlink(event.q, t)]
        BY <3>1, <2>1 DEF wb_dequeue
      <4>2. /\ Unlink(event.q, t) \in Seq(Threads)
            /\ ToSet(Unlink(event.q, t)) = ToSet(event.q) \ {t}
            /\ IsInjective(Unlink(event.q, t))
        BY <3>1, <1>f, UnlinkProps
      <4> QED BY <4>1, <4>2, <1>f
    <3>2. CASE t \notin ToSet(event.q)
      BY <3>2, <2>1, <1>f DEF wb_dequeue
    <3> QED BY <3>1, <3>2
  <2>3. "out" \in PCs
    BY DEF PCs
  <2>4. /\ exclusive_count' = Cardinality(Claimants') /\ exclusive_count' \in Int
        /\ Readers' = Readers /\ Writers' = Writers
    <3>1. /\ Cardinality(Claimants) \in Nat
          /\ Cardinality(Claimants') = Cardinality(Claimants)
              + (IF "out" \in ClaimantPCs THEN 1 ELSE 0)
              - (IF pc[t] \in ClaimantPCs THEN 1 ELSE 0)
      BY <2>1, <2>3, MoveCounts DEF IInv
    <3>2. "out" \notin ClaimantPCs /\ (pc[t] \in ClaimantPCs <=> pc[t] = "x_expired")
      BY <2>1 DEF ClaimantPCs
    <3> QED BY <3>1, <3>2, <2>1, <1>f DEF Readers, Writers
  <2>5. /\ \A u \in ToSet(event'.q) : pc'[u] \in QueuedPCs
        /\ pc' \in [Threads -> PCs]
        /\ \A u \in Threads : pc'[u] # pc[u] =>
             /\ pc[u] \notin {"excl", "x_rel_owner"}
             /\ pc'[u] \notin {"s_test", "s_cas", "x_cas", "u_claim", "u_cas"}
    BY <2>1, <2>2, <2>3, <1>f
  <2> QED BY <2>1, <2>2, <2>4, <2>5, QueueIInv
<1>3. CASE SharedAlarm(t) \/ ExclusiveAlarm(t) \/ UpgradeAlarm(t)
  BY <1>3, AlarmIInv DEF SharedAlarm, ExclusiveAlarm, UpgradeAlarm
<1> QED BY <1>1, <1>2, <1>3

\* The lock is free at first.
LEMMA InitIInv == rwlock_init => IInv
<1> SUFFICES ASSUME rwlock_init PROVE IInv
  OBVIOUS
<1>1. pc = [t \in Threads |-> "out"]
  BY DEF rwlock_init
<1>2. TypeOK
  BY DEF rwlock_init, TypeOK, event_init, PCs, UNLOCKED
<1>3. Linked
  BY DEF rwlock_init, Linked, event_init, IsInjective, ToSet
<1>4. Readers = {} /\ Writers = {} /\ Claimants = {}
  BY <1>1 DEF Readers, Writers, Claimants
<1>5. Exclusion /\ ClaimsCounted
  BY <1>4, FS_EmptySet DEF rwlock_init, Exclusion, ClaimsCounted, UNLOCKED
<1>6. SeenIsSafe /\ OwnerHolds
  BY <1>1 DEF rwlock_init, SeenIsSafe, OwnerHolds
<1> QED BY <1>2, <1>3, <1>5, <1>6 DEF IInv

\* Every step of the lock, or none, keeps the invariant.
LEMMA NextIInv == IInv /\ [Next]_vars => IInv'
<1> SUFFICES ASSUME IInv, [Next]_vars PROVE IInv'
  OBVIOUS
<1>1. CASE Next
  <2>1. PICK t \in Threads :
          \/ \E to \in BOOLEAN : rwlock_acquire_shared(t, to) \/ rwlock_acquire_exclusive(t, to)
          \/ Step(t) \/ Release(t) \/ UpgradeLoad(t) \/ Timeout(t)
    BY <1>1 DEF Next
  <2>2. CASE Step(t)
    <3>1. CASE SharedCas(t) \/ ExclusiveCas(t) \/ UpgradeCas(t)
      BY <3>1, StepMoves, StepWords
    <3>2. CASE SharedLoad(t) \/ SharedTest(t) \/ ExclusiveLoad(t)
      BY <3>2, StepMoves
    <3>3. CASE \/ ExclusiveClaim(t) \/ UpgradeClaim(t) \/ UpgradeUndo(t) \/ StoreOwner(t)
               \/ ClearOwner(t) \/ ClearExclusive(t) \/ UpgradeRelease(t)
      BY <3>3, StepWords
    <3>4. CASE \/ SharedWait(t) \/ ExclusiveWait(t) \/ FailAcquire(t)
               \/ SharedAlarm(t) \/ ExclusiveAlarm(t) \/ UpgradeAlarm(t)
      BY <3>4, StepQueue
    <3> QED BY <2>2, <3>1, <3>2, <3>3, <3>4 DEF Step
  <2>3. CASE Release(t)
    BY <2>3, StepWords DEF Release
  <2>4. CASE \/ \E to \in BOOLEAN : rwlock_acquire_shared(t, to) \/ rwlock_acquire_exclusive(t, to)
             \/ UpgradeLoad(t) \/ Timeout(t)
    BY <2>4, StepMoves
  <2> QED BY <2>1, <2>2, <2>3, <2>4
<1>2. CASE UNCHANGED vars
  BY <1>2 DEF vars, IInv, TypeOK, Linked, Exclusion, ClaimsCounted, SeenIsSafe, OwnerHolds,
              Readers, Writers, Claimants
<1> QED BY <1>1, <1>2

\* The word that readers count in, the count of claims and the owner say who
\* holds the lock: writers exclude each other and all readers through every
\* upgrade, no claim leaks when an acquire times out, and whoever takes the lock
\* finds the owner cleared (rwlock.c).
THEOREM RWLockExact == Spec => []LockIsExact
<1>1. IInv => LockIsExact
  <2> SUFFICES ASSUME IInv PROVE LockIsExact
    OBVIOUS
  <2>1. ASSUME NEW t \in Threads, pc[t] = "x_owner", exclusive_owner # NULL
        PROVE  FALSE
    <3>1. exclusive_owner \in Threads /\ pc[exclusive_owner] \in {"excl", "x_rel_owner"}
      BY <2>1 DEF IInv, TypeOK, OwnerHolds
    <3>2. t \in Writers /\ exclusive_owner \in Writers
      BY <2>1, <3>1 DEF Writers
    <3>3. exclusive_owner = t
      BY <3>2 DEF IInv, Exclusion
    <3> QED BY <2>1, <3>1, <3>3
  <2>2. OwnerCleared
    BY <2>1 DEF OwnerCleared
  <2> QED BY <2>2 DEF IInv, LockIsExact
<1> QED BY <1>1, InitIInv, NextIInv, PTL DEF Spec
=============================================================================
