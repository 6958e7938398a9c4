---------------------------- MODULE KernelLemmas ----------------------------
(***************************************************************************)
(* The lemmas that the proofs about the kernel share.  What the operations *)
(* on a wait list, a sequence without repetition, do to the set of its     *)
(* threads; the least element of a set; what an alarm does to an event;    *)
(* and how a set is counted when one element enters or leaves it.          *)
(***************************************************************************)
EXTENDS WaitList, Integers, SequenceTheorems, FiniteSetTheorems,
        WellFoundedInduction, TLAPS

\* A list is read by position: the form in which the provers use it.
LEMMA ListAt ==
  ASSUME NEW S, NEW q \in Seq(S)
  PROVE  /\ DOMAIN q = 1..Len(q) /\ Len(q) \in Nat
         /\ \A x : x \in ToSet(q) <=> \E i \in 1..Len(q) : q[i] = x
         /\ IsInjective(q) <=>
              \A i, j \in 1..Len(q) : q[i] = q[j] => i = j
         /\ ToSet(q) \subseteq S
BY DEF ToSet, IsInjective

\* TAILQ_REMOVE at a position shifts what comes after it.
LEMMA RemoveAtProps ==
  ASSUME NEW S, NEW q \in Seq(S), NEW i \in 1..Len(q)
  PROVE  /\ RemoveAt(q, i) \in Seq(S)
         /\ Len(RemoveAt(q, i)) = Len(q) - 1
         /\ \A j \in 1..(Len(q) - 1) :
              RemoveAt(q, i)[j] = IF j < i THEN q[j] ELSE q[j + 1]
<1> DEFINE a == SubSeq(q, 1, i - 1)
           b == SubSeq(q, i + 1, Len(q))
<1>1. a \in Seq(S) /\ Len(a) = i - 1 /\ \A j \in 1..(i - 1) : a[j] = q[j]
  OBVIOUS
<1>2. /\ b \in Seq(S) /\ Len(b) = Len(q) - i
      /\ \A j \in 1..(Len(q) - i) : b[j] = q[i + j]
  OBVIOUS
<1>3. RemoveAt(q, i) = a \o b
  BY DEF RemoveAt
<1> HIDE DEF a, b
<1>4. a \o b \in Seq(S) /\ Len(a \o b) = Len(q) - 1
  <2>1. a \o b \in Seq(S) /\ Len(a \o b) = Len(a) + Len(b)
    BY <1>1, <1>2, ConcatProperties
  <2> QED BY <2>1, <1>1, <1>2
<1>5. ASSUME NEW j \in 1..(Len(q) - 1)
      PROVE  (a \o b)[j] = IF j < i THEN q[j] ELSE q[j + 1]
  <2>1. CASE j < i
    BY <2>1, <1>1, <1>2
  <2>2. CASE ~(j < i)
    <3>1. (a \o b)[j] = b[j - Len(a)]
      BY SMTT(30), <2>2, <1>1, <1>2
    <3>2. j - (i - 1) \in 1..(Len(q) - i) /\ i + (j - (i - 1)) = j + 1
      BY <2>2
    <3> QED BY <3>1, <3>2, <2>2, <1>1, <1>2
  <2> QED BY <2>1, <2>2
<1> QED BY <1>3, <1>4, <1>5

\* wb_dequeue takes exactly the block of t off the list.
LEMMA UnlinkProps ==
  ASSUME NEW S, NEW q \in Seq(S), IsInjective(q), NEW t \in ToSet(q)
  PROVE  /\ Unlink(q, t) \in Seq(S)
         /\ ToSet(Unlink(q, t)) = ToSet(q) \ {t}
         /\ IsInjective(Unlink(q, t))
<1> DEFINE i == CHOOSE k \in DOMAIN q : q[k] = t
<1>1. i \in 1..Len(q) /\ q[i] = t
  BY DEF ToSet
<1> HIDE DEF i
<1> DEFINE u == RemoveAt(q, i)
<1>2. /\ u \in Seq(S) /\ Len(u) = Len(q) - 1
      /\ \A j \in 1..(Len(q) - 1) : u[j] = IF j < i THEN q[j] ELSE q[j + 1]
  BY <1>1, RemoveAtProps
<1> HIDE DEF u
<1>q. \A k, l \in 1..Len(q) : q[k] = q[l] => k = l
  BY ListAt
<1>3. IsInjective(u)
  <2> SUFFICES ASSUME NEW k \in 1..Len(u), NEW l \in 1..Len(u), u[k] = u[l]
               PROVE  k = l
    BY <1>2, ListAt
  <2> DEFINE f(n) == IF n < i THEN n ELSE n + 1
  <2>1. f(k) \in 1..Len(q) /\ f(l) \in 1..Len(q)
    BY <1>1, <1>2
  <2>2. u[k] = q[f(k)] /\ u[l] = q[f(l)]
    BY <1>2
  <2>3. f(k) = f(l)
    BY <2>1, <2>2, <1>q
  <2> QED BY <2>3, <1>1
<1>4. ToSet(u) \subseteq ToSet(q) \ {t}
  <2> SUFFICES ASSUME NEW j \in 1..Len(u)
               PROVE  /\ \E k \in 1..Len(q) : q[k] = u[j]
                      /\ u[j] # t
    BY SMTT(30), <1>2, ListAt
  <2>1. CASE j < i
    BY <2>1, <1>1, <1>2, <1>q
  <2>2. CASE ~(j < i)
    <3>1. j + 1 \in 1..Len(q) /\ u[j] = q[j + 1] /\ j + 1 # i
      BY <2>2, <1>1, <1>2
    <3> QED BY <3>1, <1>1, <1>q
  <2> QED BY <2>1, <2>2
<1>5. ToSet(q) \ {t} \subseteq ToSet(u)
  <2> SUFFICES ASSUME NEW k \in 1..Len(q), q[k] # t
               PROVE  \E j \in 1..Len(u) : u[j] = q[k]
    BY <1>2, ListAt
  <2>1. CASE k < i
    BY <2>1, <1>1, <1>2
  <2>2. CASE k > i
    <3>1. k - 1 \in 1..Len(u) /\ u[k - 1] = q[k]
      BY <2>2, <1>1, <1>2
    <3> QED BY <3>1
  <2> QED BY <2>1, <2>2, <1>1
<1> QED BY ZenonT(40), <1>2, <1>3, <1>4, <1>5 DEF u, i, Unlink

\* TAILQ_INSERT_TAIL of a block that is not linked.
LEMMA AppendProps ==
  ASSUME NEW S, NEW q \in Seq(S), IsInjective(q), NEW t \in S, t \notin ToSet(q)
  PROVE  /\ Append(q, t) \in Seq(S)
         /\ ToSet(Append(q, t)) = ToSet(q) \cup {t}
         /\ IsInjective(Append(q, t))
<1> DEFINE u == Append(q, t)
<1>1. /\ u \in Seq(S) /\ Len(u) = Len(q) + 1 /\ u[Len(q) + 1] = t
      /\ \A j \in 1..Len(q) : u[j] = q[j]
  OBVIOUS
<1> HIDE DEF u
<1>2. /\ Len(q) \in Nat
      /\ \A i, j \in 1..Len(q) : q[i] = q[j] => i = j
      /\ \A i \in 1..Len(q) : q[i] # t
      /\ \A x : x \in ToSet(q) <=> \E i \in 1..Len(q) : q[i] = x
  BY ListAt
<1>3. \A i \in 1..Len(u) : i \in 1..Len(q) \/ i = Len(q) + 1
  BY <1>1, <1>2
<1>4. IsInjective(u)
  BY <1>1, <1>2, <1>3, ListAt
<1>5. ASSUME NEW x PROVE x \in ToSet(u) <=> x \in ToSet(q) \cup {t}
  BY <1>1, <1>2, <1>3, ListAt
<1> QED BY <1>1, <1>4, <1>5 DEF u

\* The list without its first i blocks.
LEMMA SuffixProps ==
  ASSUME NEW S, NEW q \in Seq(S), IsInjective(q), NEW i \in 1..Len(q)
  PROVE  LET u == SubSeq(q, i + 1, Len(q))
         IN  /\ u \in Seq(S)
             /\ IsInjective(u)
             /\ ToSet(u) \subseteq ToSet(q) \ {q[i]}
             /\ \A j \in 1..Len(q) : j > i => q[j] \in ToSet(u)
<1> DEFINE u == SubSeq(q, i + 1, Len(q))
<1>1. /\ u \in Seq(S) /\ Len(u) = Len(q) - i
      /\ \A j \in 1..(Len(q) - i) : u[j] = q[i + j]
  OBVIOUS
<1> HIDE DEF u
<1>2. /\ Len(q) \in Nat
      /\ \A k, j \in 1..Len(q) : q[k] = q[j] => k = j
  BY ListAt
<1>3. \A k \in 1..Len(u) : i + k \in 1..Len(q) /\ u[k] = q[i + k] /\ i + k # i
  BY <1>1, <1>2
<1>4. IsInjective(u)
  <2> SUFFICES ASSUME NEW k \in 1..Len(u), NEW l \in 1..Len(u), u[k] = u[l]
               PROVE  k = l
    BY <1>1, ListAt
  <2>1. i + k = i + l
    BY <1>2, <1>3
  <2> QED BY <2>1
<1>5. ToSet(u) \subseteq ToSet(q) \ {q[i]}
  BY SMTT(30), <1>1, <1>2, <1>3, ListAt
<1>6. ASSUME NEW j \in 1..Len(q), j > i PROVE q[j] \in ToSet(u)
  <2>1. j - i \in 1..Len(u) /\ u[j - i] = q[j]
    BY <1>1, <1>2, <1>6
  <2> QED BY <2>1, <1>1, ListAt
<1> QED BY <1>1, <1>4, <1>5, <1>6 DEF u

\* Dropping the first block of a list takes its thread, and no other, off.
LEMMA TailProps ==
  ASSUME NEW S, NEW q \in Seq(S), IsInjective(q), q # <<>>
  PROVE  /\ Head(q) \in S /\ Head(q) \in ToSet(q)
         /\ Tail(q) \in Seq(S)
         /\ ToSet(Tail(q)) = ToSet(q) \ {Head(q)}
         /\ IsInjective(Tail(q))
<1> DEFINE u == Tail(q)
<1>1. /\ Len(q) \in Nat /\ 1 \in 1..Len(q) /\ Head(q) = q[1]
      /\ u \in Seq(S) /\ Len(u) = Len(q) - 1
      /\ \A j \in 1..(Len(q) - 1) : u[j] = q[j + 1]
  OBVIOUS
<1> HIDE DEF u
<1>2. \A k, j \in 1..Len(q) : q[k] = q[j] => k = j
  BY ListAt
<1>3. \A k \in 1..Len(u) : k + 1 \in 1..Len(q) /\ u[k] = q[k + 1] /\ k + 1 # 1
  BY <1>1
<1>4. IsInjective(u)
  BY SMTT(30), <1>1, <1>2, <1>3, ListAt
<1>5. ToSet(u) \subseteq ToSet(q) \ {q[1]}
  BY <1>1, <1>2, <1>3, ListAt
<1>6. ASSUME NEW j \in 1..Len(q), j # 1 PROVE q[j] \in ToSet(u)
  <2>1. j - 1 \in 1..Len(u) /\ u[j - 1] = q[j]
    BY <1>1, <1>6
  <2> QED BY <2>1, <1>1, ListAt
<1>7. ToSet(q) \ {q[1]} \subseteq ToSet(u)
  BY <1>1, <1>6, ListAt
<1> QED BY <1>1, <1>4, <1>5, <1>7, ListAt DEF u

\* The list of one thread.
LEMMA SingletonProps ==
  ASSUME NEW S, NEW t \in S
  PROVE  <<t>> \in Seq(S) /\ ToSet(<<t>>) = {t}
<1> DEFINE u == <<t>>
<1>1. u \in Seq(S) /\ Len(u) = 1 /\ u[1] = t
  OBVIOUS
<1> HIDE DEF u
<1>2. \A x : x \in ToSet(u) <=> x = t
  BY <1>1, ListAt
<1>3. ToSet(u) = {t}
  BY <1>2
<1> QED BY <1>1, <1>3 DEF u

\* Two lists that share no thread, one after the other.
LEMMA ConcatProps ==
  ASSUME NEW S, NEW a \in Seq(S), NEW b \in Seq(S)
  PROVE  /\ a \o b \in Seq(S)
         /\ ToSet(a \o b) = ToSet(a) \cup ToSet(b)
         /\ IsInjective(a) /\ IsInjective(b) /\ ToSet(a) \cap ToSet(b) = {} =>
              IsInjective(a \o b)
<1> DEFINE u == a \o b
<1>1. /\ u \in Seq(S) /\ Len(u) = Len(a) + Len(b)
      /\ \A i \in 1..Len(a) : u[i] = a[i]
      /\ \A i \in 1..Len(u) : i > Len(a) => u[i] = b[i - Len(a)]
      /\ Len(a) \in Nat /\ Len(b) \in Nat
  OBVIOUS
<1> HIDE DEF u
<1>2. \A i \in 1..Len(u) : i \in 1..Len(a) \/ (i > Len(a) /\ i - Len(a) \in 1..Len(b))
  BY <1>1
<1>3. ToSet(u) \subseteq ToSet(a) \cup ToSet(b)
  BY SMTT(30), <1>1, <1>2, ListAt
<1>4. ToSet(a) \subseteq ToSet(u)
  BY <1>1, ListAt
<1>5. ToSet(b) \subseteq ToSet(u)
  <2> SUFFICES ASSUME NEW i \in 1..Len(b) PROVE b[i] \in ToSet(u)
    BY ListAt
  <2> DEFINE k == Len(a) + i
  <2>1. k \in 1..Len(u) /\ k > Len(a) /\ k - Len(a) = i
    BY <1>1
  <2> HIDE DEF k
  <2>2. u[k] = b[i]
    BY <2>1, <1>1
  <2> QED BY <2>1, <2>2, <1>1, ListAt
<1>6. ASSUME IsInjective(a), IsInjective(b), ToSet(a) \cap ToSet(b) = {}
      PROVE  IsInjective(u)
  <2> SUFFICES ASSUME NEW i \in 1..Len(u), NEW j \in 1..Len(u), u[i] = u[j]
               PROVE  i = j
    BY <1>1, ListAt
  <2>1. /\ \A k, l \in 1..Len(a) : a[k] = a[l] => k = l
        /\ \A k, l \in 1..Len(b) : b[k] = b[l] => k = l
        /\ \A k \in 1..Len(a), l \in 1..Len(b) : a[k] # b[l]
    BY <1>6, ListAt
  <2>2. CASE i \in 1..Len(a) /\ j \in 1..Len(a)
    BY ZenonT(40), <2>1, <2>2, <1>1
  <2>3. CASE i > Len(a) /\ j > Len(a)
    <3> DEFINE k == i - Len(a)
               l == j - Len(a)
    <3>1. u[i] = b[k] /\ u[j] = b[l]
      BY <2>3, <1>1
    <3>2. k \in 1..Len(b) /\ l \in 1..Len(b)
      BY <2>3, <1>1, <1>2
    <3> HIDE DEF k, l
    <3>3. k = l
      BY <2>1, <3>1, <3>2
    <3> QED BY <3>3, <1>1 DEF k, l
  <2>4. CASE (i \in 1..Len(a) /\ j > Len(a)) \/ (j \in 1..Len(a) /\ i > Len(a))
    BY SMTT(30), <2>1, <2>4, <1>1, <1>2
  <2> QED BY <2>2, <2>3, <2>4, <1>2
<1> QED BY <1>1, <1>3, <1>4, <1>5, <1>6 DEF u
-----------------------------------------------------------------------------
\* A non-empty set of naturals has a least element.
LEMMA SmallestNat ==
  ASSUME NEW T \in SUBSET Nat, T # {}
  PROVE  \E k \in T : \A j \in T : k <= j
<1> DEFINE R == OpToRel(<, Nat)
<1>1. \E k \in T : \A j \in T : ~(<<j, k>> \in R)
  <2>1. IsWellFoundedOn(R, Nat)
    BY NatLessThanWellFounded
  <2> HIDE DEF R
  <2> QED BY <2>1, WFMin
<1>2. \A j, k \in Nat : j < k => <<j, k>> \in R
  BY DEF OpToRel
<1> HIDE DEF R
<1>3. PICK k \in T : \A j \in T : ~(<<j, k>> \in R)
  BY <1>1
<1>4. ASSUME NEW j \in T PROVE k <= j
  <2>1. ~(j < k)
    BY <1>2, <1>3
  <2> QED BY <2>1
<1> QED BY <1>3, <1>4

-----------------------------------------------------------------------------
Event == INSTANCE KEvent

\* What event_alarm (kevent.c) returns: the list shrinks, at most one thread is woken
\* and it is off the list, and an alarm without effect met dead blocks only.
LEMMA AlarmProps ==
  ASSUME NEW S, NEW ev \in [sig : {0, 1}, q : Seq(S)], IsInjective(ev.q),
         NEW ex \in SUBSET S
  PROVE  LET r == Event!event_alarm(ev, ex)
         IN  /\ r.ev \in [sig : {0, 1}, q : Seq(S)]
             /\ IsInjective(r.ev.q)
             /\ r.woken \subseteq ToSet(ev.q) \ ToSet(r.ev.q)
             /\ ToSet(r.ev.q) \subseteq ToSet(ev.q)
             /\ \/ r.ev.sig = 1 \/ r.woken # {}
                \/ ev.sig = 0 /\ ev.q # <<>>
<1> DEFINE r == Event!event_alarm(ev, ex)
           i == Event!FirstLive(ev, ex)
<1>q. /\ ev.q \in Seq(S) /\ ev.sig \in {0, 1}
      /\ DOMAIN ev.q = 1..Len(ev.q) /\ Len(ev.q) \in Nat
  BY ListAt
<1>1. CASE ev.sig # 0
  BY <1>1, <1>q DEF Event!event_alarm
<1>2. CASE ev.sig = 0 /\ ev.q = <<>>
  BY <1>2, <1>q DEF Event!event_alarm
<1>3. CASE ev.sig = 0 /\ ev.q # <<>> /\ Event!LiveAt(ev, ex) = {}
  <2>1. r = [ev |-> [sig |-> ev.sig, q |-> <<>>], woken |-> {}]
    BY <1>3 DEF Event!event_alarm, Event!signal_locked
  <2>2. <<>> \in Seq(S) /\ IsInjective(<<>>) /\ ToSet(<<>>) = {}
    BY DEF IsInjective, ToSet
  <2> QED BY <2>1, <2>2, <1>q, <1>3
<1>4. CASE ev.sig = 0 /\ ev.q # <<>> /\ Event!LiveAt(ev, ex) # {}
  <2>1. i \in Event!LiveAt(ev, ex)
    <3>1. Event!LiveAt(ev, ex) \subseteq Nat
      BY <1>q DEF Event!LiveAt
    <3>2. \E k \in Event!LiveAt(ev, ex) : \A j \in Event!LiveAt(ev, ex) : k <= j
      BY <3>1, <1>4, SmallestNat
    <3> QED BY <3>2 DEF Event!FirstLive
  <2>2. i \in 1..Len(ev.q)
    BY <2>1, <1>q DEF Event!LiveAt
  <2>3. r = [ev    |-> [sig |-> ev.sig, q |-> SubSeq(ev.q, i + 1, Len(ev.q))],
             woken |-> {ev.q[i]}]
    BY <1>4 DEF Event!event_alarm, Event!signal_locked
  <2> HIDE DEF i
  <2>4. ev.q[i] \in ToSet(ev.q)
    BY <2>2, <1>q, ListAt
  <2> DEFINE u == SubSeq(ev.q, i + 1, Len(ev.q))
  <2>5. /\ u \in Seq(S) /\ IsInjective(u)
        /\ ToSet(u) \subseteq ToSet(ev.q) \ {ev.q[i]}
    BY <2>2, <1>q, SuffixProps
  <2> HIDE DEF u
  <2> HIDE DEF r
  <2>6. r.woken = {ev.q[i]} /\ r.ev.q = u /\ r.ev.sig = ev.sig
        /\ r.ev \in [sig : {0, 1}, q : Seq(S)]
    BY <2>3, <2>5, <1>q DEF u
  <2> QED BY <2>4, <2>5, <2>6 DEF r
<1> QED BY <1>1, <1>2, <1>3, <1>4, <1>q
-----------------------------------------------------------------------------
\* One element may enter or leave a set: its count changes by at most one.
LEMMA CountStep ==
  ASSUME NEW T, IsFiniteSet(T), NEW A \in SUBSET T, NEW B \in SUBSET T, NEW t,
         \A u \in T : u # t => (u \in A <=> u \in B)
  PROVE  /\ Cardinality(A) \in Nat /\ Cardinality(B) \in Nat
         /\ Cardinality(B) = Cardinality(A) + (IF t \in B THEN 1 ELSE 0)
                                            - (IF t \in A THEN 1 ELSE 0)
<1>1. IsFiniteSet(A) /\ IsFiniteSet(B)
  BY FS_Subset
<1>2. Cardinality(A) \in Nat /\ Cardinality(B) \in Nat
  BY <1>1, FS_CardinalityType
<1>3. CASE t \in B
  <2>1. B = A \cup {t}
    BY <1>3
  <2> QED BY <2>1, <1>1, <1>2, <1>3, FS_AddElement
<1>4. CASE t \notin B
  <2>1. B = A \ {t}
    BY <1>4
  <2> QED BY <2>1, <1>1, <1>2, <1>4, FS_RemoveElement
<1> QED BY <1>2, <1>3, <1>4

\* A set that is counted once or not at all.
LEMMA CountSmall ==
  ASSUME NEW A, IsFiniteSet(A)
  PROVE  /\ Cardinality(A) \in Nat
         /\ Cardinality(A) = 0 <=> A = {}
         /\ Cardinality(A) = 1 <=> \E x : A = {x}
  BY FS_CardinalityType, FS_EmptySet, FS_Singleton
=============================================================================
