----------------------------- MODULE SchedProofs -----------------------------
(***************************************************************************)
(* The scheduler, for every set of CPUs and threads and all priorities.    *)
(* That no stack is used twice and no thread lost is not inductive: it     *)
(* depends on what the locals of a switch, thread_lock, switching and the  *)
(* status of a thread mean at each point of the scheduler (CpuState), on   *)
(* who may hold a thread's lock (LockState), on where a thread is          *)
(* (PlaceState) and on what has exited (ReaperState).                      *)
(***************************************************************************)
EXTENDS Sched, KernelLemmas

\* The points where a CPU has chosen nobody to switch to, and where it has
\* begun to leave nobody.
NobodyIn == {"run", "dpc", "exit", "terminating", "yield"}
NobodyOut == NobodyIn \cup {"taken"}

\* Statuses of a preempted thread: it is queued, selected or chosen again.
Preempted == {"READY", "NEXT", "SWITCHING"}

\* What the locals of CPU c, and the words of the threads they name, mean.
CpuOK(c) ==
  /\ current[c] \in Threads \cup {c}
  /\ nxt[c] \in Threads \cup {c, NULL}
  /\ prev[c] \in Threads \cup {c, NULL}
  /\ nxt[c] = NULL <=> cpc[c] \in NobodyIn
  /\ prev[c] = NULL <=> cpc[c] \in NobodyOut
  /\ cpc[c] \in {"taken", "reinsert", "swtch"} => nxt[c] \in Threads
  /\ cpc[c] \in {"reinsert", "swtch", "chosen"} => prev[c] = current[c]
  /\ cpc[c] \in {"fin", "fin2"} => current[c] = nxt[c] /\ prev[c] # nxt[c]
  /\ cpc[c] \in {"reinsert", "exit", "terminating", "yield", "chosen"} =>
       current[c] # c
  /\ nxt[c] \in Threads /\ cpc[c] \in {"reinsert", "swtch", "fin", "fin2"} =>
       ~switching[nxt[c]]
  /\ prev[c] # NULL => tlock[prev[c]] = c
  /\ cpc[c] \in {"exit", "terminating", "yield"} => tlock[current[c]] = c
  /\ cpc[c] \in {"reinsert", "swtch"} => switching[prev[c]]
  /\ cpc[c] = "fin2" => ~switching[prev[c]]
  /\ current[c] # c /\ cpc[c] \in {"run", "dpc", "taken", "reinsert", "exit", "terminating"} =>
       status[current[c]] = "RUNNING"
  /\ cpc[c] \in {"yield", "chosen"} =>
       ~switching[current[c]] /\ status[current[c]] \in {"WAITING", "TERMINATING"}
  /\ prev[c] # c /\ cpc[c] \in {"swtch", "fin"} =>
       status[prev[c]] \in IF switching[prev[c]] THEN Preempted
                           ELSE {"WAITING", "TERMINATING"}

CpuState == \A c \in Cpus : CpuOK(c)

\* A lock is held, and switching is set, only by a CPU that leaves the thread;
\* a thread is current on one CPU.
LockState ==
  /\ \A x \in AllThreads, c \in Cpus : tlock[x] = c =>
       prev[c] = x \/ (cpc[c] \in {"exit", "terminating", "yield"} /\ current[c] = x)
  /\ \A x \in AllThreads : switching[x] =>
       \E c \in Cpus : prev[c] = x /\ cpc[c] \in {"reinsert", "swtch", "fin"}
  /\ \A c, d \in Cpus : current[c] = current[d] => c = d

\* The threads on the queues of a CPU; no queue holds a thread twice.
OnQueue(s) == ToSet(s.current_rq) \cup ToSet(s.next_rq) \cup ToSet(s.idle_rq)

QueuesOK(s) ==
  /\ IsInjective(s.current_rq) /\ IsInjective(s.next_rq) /\ IsInjective(s.idle_rq)
  /\ ToSet(s.current_rq) \cap ToSet(s.next_rq) = {}
  /\ ToSet(s.current_rq) \cap ToSet(s.idle_rq) = {}
  /\ ToSet(s.next_rq) \cap ToSet(s.idle_rq) = {}

\* The status of a thread tells where it is, and it is in one place.
PlaceState ==
  /\ \A c \in Cpus : QueuesOK(sched[c])
  /\ \A t \in Threads :
       /\ status[t] = "READY" <=> \E c \in Cpus : t \in OnQueue(sched[c])
       /\ status[t] = "NEXT" <=> \E c \in Cpus : sched[c].next = t
       /\ status[t] = "SWITCHING" <=> \E c \in Cpus : nxt[c] = t
       /\ status[t] = "RUNNING" => \E c \in Cpus : current[c] = t
  /\ \A c, d \in Cpus, t \in Threads :
       \/ t \in OnQueue(sched[c]) /\ t \in OnQueue(sched[d])
       \/ sched[c].next = t /\ sched[d].next = t
       \/ nxt[c] = t /\ nxt[d] = t
       => c = d

\* What was handed to the reaper has terminated or is about to; what is freed
\* has terminated and switched off.
ReaperState ==
  /\ rpc = "destroy" => victim \in Threads
  /\ \A t \in Threads : t = victim \/ t \in ToSet(reaper_queue) =>
       \/ status[t] = "TERMINATING"
       \/ \E c \in Cpus : current[c] = t /\ cpc[c] \in {"exit", "terminating"}
  /\ \A t \in freed : status[t] = "TERMINATING" /\ tlock[t] = NULL

IInv == TypeOK /\ CpuState /\ LockState /\ PlaceState /\ NextHasSoftint /\ ReaperState
-----------------------------------------------------------------------------
(* The queues. *)

SchedType == [next : Threads \cup {NULL}, current_rq : Seq(Threads),
              next_rq : Seq(Threads), idle_rq : Seq(Threads)]

\* A thread that is queued is added to one queue.
LEMMA InsertRq ==
  ASSUME NEW s \in SchedType, QueuesOK(s), NEW t \in Threads, t \notin OnQueue(s)
  PROVE  /\ sched_rq_insert(s, t) \in SchedType
         /\ sched_rq_insert(s, t).next = s.next
         /\ OnQueue(sched_rq_insert(s, t)) = OnQueue(s) \cup {t}
         /\ QueuesOK(sched_rq_insert(s, t))
<1> DEFINE r == sched_rq_insert(s, t)
           Added(q) == /\ Append(q, t) \in Seq(Threads)
                       /\ ToSet(Append(q, t)) = ToSet(q) \cup {t}
                       /\ IsInjective(Append(q, t))
<1>1. /\ s.current_rq \in Seq(Threads) /\ t \notin ToSet(s.current_rq)
      /\ s.next_rq \in Seq(Threads) /\ t \notin ToSet(s.next_rq)
      /\ s.idle_rq \in Seq(Threads) /\ t \notin ToSet(s.idle_rq)
      /\ IsInjective(s.current_rq) /\ IsInjective(s.next_rq) /\ IsInjective(s.idle_rq)
  BY DEF SchedType, QueuesOK, OnQueue
<1>2. Added(s.current_rq) /\ Added(s.next_rq) /\ Added(s.idle_rq)
  BY <1>1, AppendProps
<1>3. \/ r = [s EXCEPT !.current_rq = Append(s.current_rq, t)]
      \/ r = [s EXCEPT !.next_rq = Append(s.next_rq, t)]
      \/ r = [s EXCEPT !.idle_rq = Append(s.idle_rq, t)]
  BY DEF sched_rq_insert
<1> HIDE DEF r
<1> QED BY ZenonT(40), <1>1, <1>2, <1>3 DEF r, SchedType, QueuesOK, OnQueue

\* The first thread of the highest priority is one of the queue.
LEMMA TopProps ==
  ASSUME NEW q \in Seq(Threads), q # <<>>
  PROVE  TopOf(q) \in ToSet(q)
<1>1. Len(q) \in Nat /\ 1 \in 1..Len(q) /\ DOMAIN q = 1..Len(q)
  OBVIOUS
<1> DEFINE pr == [i \in 1..Len(q) |-> Prio[q[i]]]
<1>2. \A i \in 1..Len(q) : pr[i] = Prio[q[i]] /\ Prio[q[i]] \in 0..32
  <2>1. \A i \in 1..Len(q) : q[i] \in Threads
    OBVIOUS
  <2> QED BY <2>1, SchedAssumption DEF PRIO_MAX
<1> HIDE DEF pr
<1>b. \A i \in 1..Len(q) : pr[i] \in Nat /\ pr[i] <= 32
  <2>1. \A k \in 0..32 : k \in Nat /\ k <= 32
    OBVIOUS
  <2> QED BY <1>2, <2>1
<1> DEFINE Bounds == {b \in Nat : \A i \in 1..Len(q) : pr[i] <= b}
<1>3. PICK m \in Bounds : \A b \in Bounds : m <= b
  <2>1. 32 \in Bounds
    BY <1>b
  <2>2. Bounds \subseteq Nat
    OBVIOUS
  <2> HIDE DEF Bounds
  <2> QED BY <2>1, <2>2, SmallestNat
<1>m. m \in Nat /\ \A i \in 1..Len(q) : pr[i] \in Nat /\ pr[i] <= m
  BY <1>b
<1> DEFINE Tops == {i \in 1..Len(q) : pr[i] = m}
<1>4. Tops # {}
  <2> SUFFICES ASSUME \A i \in 1..Len(q) : pr[i] # m PROVE FALSE
    OBVIOUS
  <2>1. m > 0
    BY <1>m, <1>1
  <2>2. \A i \in 1..Len(q) : pr[i] <= m - 1
    BY <1>m
  <2>3. m - 1 \in Bounds
    BY <1>m, <2>1, <2>2
  <2> QED BY <1>m, <2>3, <1>3
<1>5. PICK i \in Tops : \A j \in Tops : i <= j
  <2>1. Tops \subseteq Nat
    BY <1>1
  <2> HIDE DEF Tops
  <2> QED BY <1>4, <2>1, SmallestNat
<1> DEFINE Best(k) == \A j \in DOMAIN q :
        Prio[q[j]] < Prio[q[k]] \/ (Prio[q[j]] = Prio[q[k]] /\ k <= j)
<1>6. i \in DOMAIN q /\ Best(i)
  BY <1>1, <1>2, <1>m, <1>5
<1>7. TopOf(q) = q[CHOOSE k \in DOMAIN q : Best(k)]
  BY DEF TopOf
<1> HIDE DEF Best
<1>8. (CHOOSE k \in DOMAIN q : Best(k)) \in DOMAIN q
  BY <1>6
<1> QED BY <1>1, <1>7, <1>8, ListAt

\* What is selected leaves the queues, and nothing else does.
LEMMA SelectProps ==
  ASSUME NEW s \in SchedType, QueuesOK(s), ~NothingQueued(s)
  PROVE  LET r == select_next(s)
         IN  /\ r.thread \in OnQueue(s) /\ r.thread \in Threads
             /\ r.s \in SchedType
             /\ r.s.next = s.next
             /\ OnQueue(r.s) = OnQueue(s) \ {r.thread}
             /\ QueuesOK(r.s)
<1> DEFINE r == select_next(s)
           Taken(q, t) == /\ t \in Threads /\ t \in ToSet(q)
                          /\ Unlink(q, t) \in Seq(Threads)
                          /\ ToSet(Unlink(q, t)) = ToSet(q) \ {t}
                          /\ IsInjective(Unlink(q, t))
<1>1. /\ s.current_rq \in Seq(Threads) /\ IsInjective(s.current_rq)
      /\ s.next_rq \in Seq(Threads) /\ IsInjective(s.next_rq)
      /\ s.idle_rq \in Seq(Threads) /\ IsInjective(s.idle_rq)
  BY DEF SchedType, QueuesOK
<1>2. ASSUME NEW q \in Seq(Threads), IsInjective(q), q # <<>>
      PROVE  Taken(q, TopOf(q))
  <2>1. TopOf(q) \in ToSet(q) /\ ToSet(q) \subseteq Threads
    BY <1>2, TopProps, ListAt
  <2> QED BY <1>2, <2>1, UnlinkProps
<1> DEFINE Good(t, u) ==
             /\ t \in OnQueue(s) /\ t \in Threads
             /\ u \in SchedType /\ u.next = s.next
             /\ OnQueue(u) = OnQueue(s) \ {t}
             /\ QueuesOK(u)
<1>3. CASE s.current_rq # <<>>
  <2> DEFINE t == TopOf(s.current_rq)
             u == [s EXCEPT !.current_rq = Unlink(s.current_rq, t)]
  <2>1. r = [thread |-> t, s |-> u]
    BY <1>3 DEF select_next
  <2>2. Taken(s.current_rq, t)
    BY <1>1, <1>2, <1>3
  <2> HIDE DEF t
  <2>3. Good(t, u)
    BY <1>1, <2>2 DEF SchedType, QueuesOK, OnQueue
  <2> HIDE DEF u, Good
  <2>4. r.thread = t /\ r.s = u
    BY <2>1
  <2> QED BY <2>3, <2>4 DEF Good
<1>4. CASE s.current_rq = <<>> /\ s.next_rq # <<>>
  <2> DEFINE t == TopOf(s.next_rq)
             u == [s EXCEPT !.current_rq = Unlink(s.next_rq, t), !.next_rq = <<>>]
  <2>1. r = [thread |-> t, s |-> u]
    BY <1>4 DEF select_next
  <2>2. Taken(s.next_rq, t)
    BY <1>1, <1>2, <1>4
  <2> HIDE DEF t
  <2>3. <<>> \in Seq(Threads) /\ ToSet(<<>>) = {} /\ IsInjective(<<>>)
    BY DEF ToSet, IsInjective
  <2>4. Good(t, u)
    BY <1>1, <1>4, <2>2, <2>3 DEF SchedType, QueuesOK, OnQueue
  <2> HIDE DEF u, Good
  <2>5. r.thread = t /\ r.s = u
    BY <2>1
  <2> QED BY <2>4, <2>5 DEF Good
<1>5. CASE s.current_rq = <<>> /\ s.next_rq = <<>>
  <2> DEFINE t == Head(s.idle_rq)
             u == [s EXCEPT !.idle_rq = Tail(s.idle_rq)]
  <2>1. r = [thread |-> t, s |-> u]
    BY <1>5 DEF select_next
  <2>2. /\ t \in Threads /\ t \in ToSet(s.idle_rq)
        /\ Tail(s.idle_rq) \in Seq(Threads)
        /\ ToSet(Tail(s.idle_rq)) = ToSet(s.idle_rq) \ {t}
        /\ IsInjective(Tail(s.idle_rq))
    BY <1>1, <1>5, TailProps DEF NothingQueued
  <2> HIDE DEF t
  <2>3. Good(t, u)
    BY <1>1, <1>5, <2>2 DEF SchedType, QueuesOK, OnQueue
  <2> HIDE DEF u, Good
  <2>4. r.thread = t /\ r.s = u
    BY <2>1
  <2> QED BY <2>3, <2>4 DEF Good
<1> QED BY <1>3, <1>4, <1>5

\* sched_insert of a thread that is on no queue queues it, or selects it and
\* queues the one it displaces.
LEMMA InsertProps ==
  ASSUME TypeOK, PlaceState, NEW c \in Cpus, NEW t \in Threads, InsertInto(c, t),
         status[t] \notin Preempted
  PROVE  /\ sched' \in [Cpus -> SchedType]
         /\ \A d \in Cpus : d # c => sched'[d] = sched[d]
         /\ QueuesOK(sched'[c])
         /\ sched'[c].next = IF Preempts(c, t) THEN t ELSE sched[c].next
         /\ OnQueue(sched'[c]) = OnQueue(sched[c]) \cup
              (IF Preempts(c, t) THEN {sched[c].next} \ {NULL} ELSE {t})
         /\ status' \in [AllThreads -> Statuses]
         /\ \A u \in AllThreads : status'[u] =
              IF u = t THEN IF Preempts(c, t) THEN "NEXT" ELSE "READY"
              ELSE IF u = sched[c].next /\ Preempts(c, t) THEN "READY" ELSE status[u]
<1> DEFINE s == sched[c]
           n == s.next
           Changed(v) == /\ v \in SchedType /\ QueuesOK(v)
                         /\ v.next = IF Preempts(c, t) THEN t ELSE n
                         /\ OnQueue(v) = OnQueue(s) \cup
                              (IF Preempts(c, t) THEN {n} \ {NULL} ELSE {t})
<1>1. /\ sched \in [Cpus -> SchedType] /\ s \in SchedType
      /\ n \in Threads \cup {NULL} /\ status \in [AllThreads -> Statuses]
      /\ QueuesOK(s) /\ t \notin OnQueue(s) /\ n # t
      /\ n # NULL => n \notin OnQueue(s)
  <2>1. sched \in [Cpus -> SchedType] /\ status \in [AllThreads -> Statuses]
    BY DEF TypeOK, SchedType
  <2>2. s \in SchedType /\ n \in Threads \cup {NULL}
    BY <2>1 DEF SchedType
  <2>3. QueuesOK(s) /\ t \notin OnQueue(s) /\ n # t
    BY DEF PlaceState, Preempted
  <2>4. n # NULL => n \notin OnQueue(s)
    BY <2>2 DEF PlaceState
  <2> QED BY <2>1, <2>2, <2>3, <2>4
<1>2. /\ status' = [u \in AllThreads |->
           IF u = t THEN IF Preempts(c, t) THEN "NEXT" ELSE "READY"
           ELSE IF u = n /\ Preempts(c, t) THEN "READY" ELSE status[u]]
      /\ sched' = [sched EXCEPT ![c] =
           IF ~Preempts(c, t) THEN sched_rq_insert(s, t)
           ELSE IF n = NULL THEN [s EXCEPT !.next = t]
           ELSE sched_rq_insert([s EXCEPT !.next = t], n)]
  BY DEF InsertInto
<1>3. Changed(sched'[c])
  <2> HIDE DEF s
  <2>1. CASE ~Preempts(c, t)
    <3>1. sched'[c] = sched_rq_insert(s, t)
      BY <2>1, <1>1, <1>2
    <3> QED BY <2>1, <3>1, <1>1, InsertRq
  <2>2. CASE Preempts(c, t) /\ n = NULL
    <3>1. sched'[c] = [s EXCEPT !.next = t]
      BY <2>2, <1>1, <1>2
    <3> QED BY <2>2, <3>1, <1>1 DEF SchedType, QueuesOK, OnQueue
  <2>3. CASE Preempts(c, t) /\ n # NULL
    <3> DEFINE v == [s EXCEPT !.next = t]
    <3>1. sched'[c] = sched_rq_insert(v, n)
      BY <2>3, <1>1, <1>2
    <3>2. v \in SchedType /\ QueuesOK(v) /\ v.next = t /\ OnQueue(v) = OnQueue(s)
      BY <1>1 DEF SchedType, QueuesOK, OnQueue
    <3> HIDE DEF v
    <3>3. n \in Threads /\ n \notin OnQueue(v)
      BY <2>3, <1>1, <3>2
    <3> QED BY <2>3, <3>1, <3>2, <3>3, InsertRq
  <2> QED BY <2>1, <2>2, <2>3
<1>4. \A d \in Cpus : d # c => sched'[d] = sched[d]
  BY <1>1, <1>2
<1>5. sched' \in [Cpus -> SchedType]
  <2>1. sched' = [d \in Cpus |-> sched'[d]]
    BY <1>1, <1>2
  <2> QED BY <1>1, <1>3, <1>4, <2>1
<1>6. status' \in [AllThreads -> Statuses]
  BY <1>1, <1>2 DEF Statuses
<1> QED BY <1>2, <1>3, <1>4, <1>5, <1>6

\* ... so that every thread is still in the place its status tells.
LEMMA InsertPlace ==
  ASSUME TypeOK, PlaceState, NEW c \in Cpus, NEW t \in Threads, InsertInto(c, t),
         status[t] \notin Preempted, UNCHANGED <<current, nxt>>
  PROVE  PlaceState'
<1>1. /\ \A d \in Cpus : QueuesOK(sched'[d])
      /\ \A d \in Cpus : sched[d].next \in Threads \cup {NULL} /\ NULL \notin Threads
      /\ t \in AllThreads /\ Threads \subseteq AllThreads
  BY ZenonT(40), InsertProps, SchedAssumption DEF PlaceState, TypeOK, AllThreads
<1> DEFINE ousted(d, u) == d = c /\ Preempts(c, t) /\ u = sched[c].next
<1>q. ASSUME NEW d \in Cpus, NEW u \in Threads
      PROVE  u \in OnQueue(sched'[d]) <=>
               \/ u \in OnQueue(sched[d]) \/ ousted(d, u)
               \/ d = c /\ u = t /\ ~Preempts(c, t)
  <2>1. CASE d = c
    BY <2>1, <1>1, InsertProps
  <2>2. CASE d # c
    BY <2>2, InsertProps
  <2> QED BY <2>1, <2>2
<1>n. \A d \in Cpus : sched'[d].next = IF d = c /\ Preempts(c, t) THEN t ELSE sched[d].next
  BY InsertProps
<1>s. \A u \in Threads : status'[u] = IF u = t THEN IF Preempts(c, t) THEN "NEXT" ELSE "READY"
                                     ELSE IF ousted(c, u) THEN "READY" ELSE status[u]
  BY <1>1, InsertProps
<1>t. /\ status[t] \notin {"READY", "NEXT", "SWITCHING"}
      /\ \A d \in Cpus : t \notin OnQueue(sched[d]) /\ sched[d].next # t /\ nxt[d] # t
  <2>1. status[t] \notin {"READY", "NEXT", "SWITCHING"}
    BY DEF Preempted
  <2> QED BY <2>1 DEF PlaceState
<1> HIDE DEF ousted
<1>2. ASSUME NEW u \in Threads
      PROVE  /\ status'[u] = "READY" <=> \E d \in Cpus : u \in OnQueue(sched'[d])
             /\ status'[u] = "NEXT" <=> \E d \in Cpus : sched'[d].next = u
             /\ status'[u] = "SWITCHING" <=> \E d \in Cpus : nxt'[d] = u
             /\ status'[u] = "RUNNING" => \E d \in Cpus : current'[d] = u
  <2>1. CASE u = t
    <3>1. status'[u] = IF Preempts(c, t) THEN "NEXT" ELSE "READY"
      BY <2>1, <1>s
    <3> QED BY <2>1, <3>1, <1>q, <1>n, <1>t DEF ousted
  <2>2. CASE u # t /\ ousted(c, u)
    <3>1. status'[u] = "READY" /\ status[u] = "NEXT" /\ u \in OnQueue(sched'[c])
      BY <2>2, <1>s, <1>q DEF ousted, PlaceState
    <3>2. \A d \in Cpus : sched'[d].next # u /\ nxt'[d] # u
      BY <2>2, <3>1, <1>n DEF ousted, PlaceState
    <3> QED BY <3>1, <3>2
  <2>3. CASE u # t /\ ~ousted(c, u)
    <3>1. status'[u] = status[u]
      BY <2>3, <1>s
    <3>2. \A d \in Cpus : /\ u \in OnQueue(sched'[d]) <=> u \in OnQueue(sched[d])
                          /\ sched'[d].next = u <=> sched[d].next = u
      BY <2>3, <1>q, <1>n DEF ousted
    <3>3. /\ status[u] = "READY" <=> \E d \in Cpus : u \in OnQueue(sched[d])
          /\ status[u] = "NEXT" <=> \E d \in Cpus : sched[d].next = u
          /\ status[u] = "SWITCHING" <=> \E d \in Cpus : nxt[d] = u
          /\ status[u] = "RUNNING" => \E d \in Cpus : current[d] = u
      BY DEF PlaceState
    <3> QED BY <3>1, <3>2, <3>3
  <2> QED BY <2>1, <2>2, <2>3
<1>3. ASSUME NEW d \in Cpus, NEW e \in Cpus, NEW u \in Threads,
             \/ u \in OnQueue(sched'[d]) /\ u \in OnQueue(sched'[e])
             \/ sched'[d].next = u /\ sched'[e].next = u
             \/ nxt'[d] = u /\ nxt'[e] = u
      PROVE  d = e
  <2>1. CASE u \in OnQueue(sched'[d]) /\ u \in OnQueue(sched'[e])
    <3>1. u \in OnQueue(sched[d]) /\ u \in OnQueue(sched[e]) => d = e
      BY DEF PlaceState
    <3>2. ousted(c, u) => \A f \in Cpus : u \notin OnQueue(sched[f])
      BY DEF ousted, PlaceState
    <3>3. \A f \in Cpus : ousted(f, u) => f = c
      BY DEF ousted
    <3> QED BY <2>1, <3>1, <3>2, <3>3, <1>q, <1>t
  <2>2. CASE sched'[d].next = u /\ sched'[e].next = u
    <3>1. sched[d].next = u /\ sched[e].next = u => d = e
      BY DEF PlaceState
    <3> QED BY <2>2, <3>1, <1>n, <1>t
  <2>3. CASE nxt'[d] = u /\ nxt'[e] = u
    BY <2>3 DEF PlaceState
  <2> QED BY <1>3, <2>1, <2>2, <2>3
<1> QED BY <1>1, <1>2, <1>3 DEF PlaceState
-----------------------------------------------------------------------------
(* The steps, by what the proofs have to know of them. *)

\* A thread that waits or has not started is made ready on d.
Inserted(d, t) ==
  /\ t \in Threads /\ d \in Cpus
  /\ InsertInto(d, t)
  /\ pending' = [pending EXCEPT ![d] = @ \/ (Preempts(d, t) /\ sched[d].next = NULL)]

\* The step of a CPU that alarms the reaper, when the reaper waits.
AlarmWakes(c, d) ==
  /\ cpc[c] = "exit" /\ Resumable(Reaper) /\ Inserted(d, Reaper)
  /\ rpc' = "drain"
  /\ cpc' = [cpc EXCEPT ![c] = "terminating"]
  /\ UNCHANGED <<current, nxt, prev, switching, tlock, affinity, reaper_ev,
                 reaper_queue, victim, freed>>

\* ... and when it does not.
AlarmLatches(c) ==
  /\ cpc[c] = "exit"
  /\ reaper_ev' = TRUE
  /\ cpc' = [cpc EXCEPT ![c] = "terminating"]
  /\ UNCHANGED <<current, nxt, prev, switching, tlock, affinity, sched, status,
                 pending, rpc, reaper_queue, victim, freed>>

\* Another thread is resumed.
Resumes(d, t) ==
  /\ Resumable(t) /\ Inserted(d, t)
  /\ UNCHANGED <<current, cpc, nxt, prev, switching, tlock, affinity, reaperVars>>

\* The current thread of c commits to a wait.
Waits(c) == /\ StartWait(c)
            /\ UNCHANGED <<current, sched, pending, nxt, prev, switching,
                           affinity, reaperVars>>

\* The reaper does something else than commit to a wait.
Reaps(c) ==
  /\ \/ reaper_ev' = FALSE /\ rpc' = "drain" /\ UNCHANGED <<victim, reaper_queue, freed>>
     \/ /\ reaper_queue # <<>>
        /\ victim' = Head(reaper_queue) /\ reaper_queue' = Tail(reaper_queue)
        /\ rpc' = "destroy" /\ UNCHANGED <<reaper_ev, freed>>
     \/ rpc' = "wait" /\ UNCHANGED <<victim, reaper_queue, reaper_ev, freed>>
     \/ /\ rpc = "destroy" /\ tlock[victim] = NULL
        /\ freed' = freed \cup {victim} /\ victim' = NULL /\ rpc' = "drain"
        /\ UNCHANGED <<reaper_queue, reaper_ev>>
  /\ UNCHANGED <<cpuVars, threadVars>>

\* The steps of the scheduler are these.
LEMMA NextCases ==
  ASSUME Next
  PROVE  \E c \in Cpus :
           \/ do_dpc_int(c) \/ PreemptNothing(c) \/ PreemptTake(c) \/ PreemptLock(c)
           \/ PreemptReinsert(c) \/ YieldChoose(c) \/ swtch(c)
           \/ FinalizeSwitching(c) \/ FinalizeUnlock(c) \/ ExitYield(c)
           \/ sched_exit_self(c) \/ Waits(c) \/ Reaps(c) \/ AlarmLatches(c)
           \/ \E d \in Cpus : AlarmWakes(c, d) \/ \E t \in Threads : Resumes(d, t)
<1>1. PICK c \in Cpus : \/ CpuStep(c) \/ ReaperStep(c) \/ do_wait(c)
                        \/ sched_exit_self(c) \/ \E t \in Threads : Resume(c, t)
  BY DEF Next
<1>2. CASE ExitAlarm(c)
  BY <1>2, SchedAssumption
     DEF ExitAlarm, sched_resume, sched_insert, Inserted, AlarmWakes, AlarmLatches, Goto
<1>3. CASE ReaperWait(c)
  BY <1>3 DEF ReaperWait, Waits, Reaps, cpuVars, threadVars, reaperVars, StartWait
<1>4. CASE ReaperTake(c) \/ kthread_destroy(c)
  BY <1>4 DEF ReaperTake, kthread_destroy, Reaps, ensure_reapable
<1>5. CASE do_wait(c)
  BY <1>5 DEF do_wait, Waits, StartWait
<1>6. CASE \E t \in Threads : Resume(c, t)
  BY <1>6 DEF Resume, sched_resume, sched_insert, Inserted, Resumes
<1> QED BY <1>1, <1>2, <1>3, <1>4, <1>5, <1>6 DEF CpuStep, ReaperStep

-----------------------------------------------------------------------------
(* Types. *)

\* Inserting keeps the types of what it changes.
LEMMA InsertedType ==
  ASSUME IInv, NEW d, NEW t, Inserted(d, t), status[t] \notin Preempted
  PROVE  /\ sched' \in [Cpus -> SchedType] /\ status' \in [AllThreads -> Statuses]
         /\ pending' \in [Cpus -> BOOLEAN]
BY InsertProps DEF Inserted, IInv, TypeOK

\* Every step keeps the types.
LEMMA TypeNext ==
  ASSUME IInv, Next
  PROVE  TypeOK'
<1> USE SchedAssumption DEF IInv, AllThreads
<1>0. PICK c \in Cpus :
        \/ do_dpc_int(c) \/ PreemptNothing(c) \/ PreemptTake(c) \/ PreemptLock(c)
        \/ PreemptReinsert(c) \/ YieldChoose(c) \/ swtch(c)
        \/ FinalizeSwitching(c) \/ FinalizeUnlock(c) \/ ExitYield(c)
        \/ sched_exit_self(c) \/ Waits(c) \/ Reaps(c) \/ AlarmLatches(c)
        \/ \E d \in Cpus : AlarmWakes(c, d) \/ \E t \in Threads : Resumes(d, t)
  BY NextCases
<1> USE DEF CPCs, Statuses
<1>c. CpuOK(c)
  BY DEF CpuState
<1>s. sched \in [Cpus -> SchedType] /\ sched[c].next \in Threads \cup {NULL}
  BY DEF TypeOK, SchedType
<1>t. sched' \in [Cpus -> SchedType] =>
        sched' \in [Cpus -> [next : Threads \cup {NULL}, current_rq : Seq(Threads),
                             next_rq : Seq(Threads), idle_rq : Seq(Threads)]]
  BY DEF SchedType
<1>1. CASE do_dpc_int(c) \/ PreemptNothing(c)
  BY ZenonT(40), <1>1 DEF TypeOK, do_dpc_int, PreemptNothing, Goto, threadVars, reaperVars
<1>2. CASE PreemptTake(c)
  <2>1. sched[c].next \in Threads
    BY <1>2, <1>s DEF PreemptTake
  <2>2. sched' \in [Cpus -> SchedType]
    BY ZenonT(40), <1>2, <1>s DEF PreemptTake, SchedType
  <2> QED BY <1>2, <1>t, <2>1, <2>2 DEF TypeOK, PreemptTake, Goto, reaperVars
<1>3. CASE PreemptLock(c)
  BY ZenonT(40), <1>3 DEF TypeOK, PreemptLock, Goto, reaperVars
<1>4. CASE PreemptReinsert(c)
  <2>1. Inserted(c, current[c]) /\ status[current[c]] \notin Preempted
    BY <1>4, <1>c DEF PreemptReinsert, sched_insert, Inserted, CpuOK, Preempted
  <2> QED BY <1>4, <2>1, <1>t, InsertedType DEF TypeOK, PreemptReinsert, Goto, reaperVars
<1>5. CASE YieldChoose(c)
  <2>1. sched' \in [Cpus -> SchedType]
    <3>1. QueuesOK(sched[c]) /\ sched[c] \in SchedType
      BY <1>s DEF PlaceState
    <3>2. ~NothingQueued(sched[c]) => select_next(sched[c]).s \in SchedType
      BY <3>1, SelectProps
    <3>3. [sched[c] EXCEPT !.next = NULL] \in SchedType
      BY <3>1 DEF SchedType
    <3> QED BY <1>5, <1>s, <3>2, <3>3 DEF YieldChoose
  <2>2. nxt'[c] \in AllThreads /\ (nxt'[c] # c => nxt'[c] \in Threads)
    <3>1. QueuesOK(sched[c]) /\ sched[c] \in SchedType
      BY <1>s DEF PlaceState
    <3>2. ~NothingQueued(sched[c]) => select_next(sched[c]).thread \in Threads
      BY <3>1, SelectProps
    <3> QED BY <1>5, <1>s, <3>2 DEF YieldChoose, TypeOK
  <2>3. /\ nxt' = [nxt EXCEPT ![c] = nxt'[c]]
        /\ prev' = [prev EXCEPT ![c] = current[c]]
        /\ status' = status \/ status' = [status EXCEPT ![nxt'[c]] = "SWITCHING"]
        /\ cpc' = [cpc EXCEPT ![c] = "chosen"]
        /\ UNCHANGED <<current, pending, switching, tlock, affinity, reaperVars>>
    BY <1>5 DEF YieldChoose, Goto, TypeOK
  <2> QED BY ZenonT(40), <2>1, <2>2, <2>3, <1>t DEF TypeOK, reaperVars
<1>6. CASE swtch(c)
  BY <1>6, <1>c DEF TypeOK, swtch, Goto, reaperVars, CpuOK, NobodyIn, NobodyOut
<1>7. CASE FinalizeSwitching(c)
  BY <1>7, <1>c DEF TypeOK, FinalizeSwitching, Goto, reaperVars, CpuOK, NobodyOut
<1>8. CASE FinalizeUnlock(c)
  BY <1>8, <1>c DEF TypeOK, FinalizeUnlock, Goto, reaperVars, CpuOK, NobodyIn
<1>9. CASE ExitYield(c)
  BY <1>9, <1>c DEF TypeOK, ExitYield, Goto, reaperVars
<1>10. CASE sched_exit_self(c)
  <2>1. current[c] \in Threads /\ <<current[c]>> \o reaper_queue \in Seq(Threads)
    BY <1>10, <1>c DEF sched_exit_self, CpuOK, TypeOK
  <2> QED BY <1>10, <2>1 DEF TypeOK, sched_exit_self, Goto
<1>11. CASE Waits(c)
  BY <1>11 DEF TypeOK, Waits, StartWait, Goto, reaperVars
<1>12. CASE Reaps(c)
  <2>1. reaper_queue # <<>> => Head(reaper_queue) \in Threads /\ Tail(reaper_queue) \in Seq(Threads)
    BY DEF TypeOK
  <2>2. /\ reaper_queue' \in Seq(Threads) /\ victim' \in Threads \cup {NULL}
        /\ rpc' \in {"wait", "drain", "destroy"} /\ reaper_ev' \in BOOLEAN
        /\ freed' \subseteq Threads
    <3>1. /\ victim \in Threads \cup {NULL} /\ freed \subseteq Threads
          /\ reaper_queue \in Seq(Threads) /\ reaper_ev \in BOOLEAN
          /\ rpc \in {"wait", "drain", "destroy"}
          /\ rpc = "destroy" => victim \in Threads
      BY DEF TypeOK, ReaperState
    <3> QED BY <1>12, <2>1, <3>1 DEF Reaps
  <2> QED BY <1>12, <2>2 DEF TypeOK, Reaps, cpuVars, threadVars
<1>13. CASE AlarmLatches(c)
  BY <1>13 DEF TypeOK, AlarmLatches
<1>14. CASE \E d \in Cpus : AlarmWakes(c, d)
  <2>1. PICK d \in Cpus : AlarmWakes(c, d)
    BY <1>14
  <2>2. Inserted(d, Reaper) /\ status[Reaper] \notin Preempted
    BY <2>1 DEF AlarmWakes, Resumable, Preempted
  <2>3. /\ sched' \in [Cpus -> SchedType] /\ status' \in [AllThreads -> Statuses]
        /\ pending' \in [Cpus -> BOOLEAN]
    BY <2>2, InsertedType
  <2>4. cpc' \in [Cpus -> CPCs] /\ rpc' \in {"wait", "drain", "destroy"}
    BY <2>1 DEF AlarmWakes, TypeOK
  <2> QED BY <2>1, <2>3, <2>4, <1>t DEF TypeOK, AlarmWakes
<1>15. CASE \E d \in Cpus, t \in Threads : Resumes(d, t)
  <2>1. PICK d \in Cpus, t \in Threads : Resumes(d, t)
    BY <1>15
  <2>2. Inserted(d, t) /\ status[t] \notin Preempted
    BY <2>1 DEF Resumes, Resumable, Preempted
  <2> QED BY <2>1, <2>2, <1>t, InsertedType DEF TypeOK, Resumes, reaperVars
<1> QED BY <1>0, <1>1, <1>2, <1>3, <1>4, <1>5, <1>6, <1>7, <1>8, <1>9, <1>10,
           <1>11, <1>12, <1>13, <1>14, <1>15
-----------------------------------------------------------------------------
(* What the steps of a CPU do to the locals of every CPU. *)

\* A CPU is not disturbed by a step of another that leaves the words of the
\* threads it names alone, or selects one it has preempted.
LEMMA CpuKept ==
  ASSUME NEW d \in Cpus, CpuOK(d),
         current'[d] = current[d], nxt'[d] = nxt[d], prev'[d] = prev[d],
         cpc'[d] = cpc[d],
         \A x \in {current[d], prev[d], nxt[d]} \ {NULL} :
           /\ tlock[x] = d => tlock'[x] = d
           /\ switching'[x] => switching[x]
           /\ x = prev[d] => switching'[x] = switching[x]
           /\ x # prev[d] \/ cpc[d] # "fin2" =>
                \/ status'[x] = status[x]
                \/ status[x] \in {"READY", "NEXT"} /\ status'[x] \in Preempted
  PROVE  CpuOK(d)'
BY SchedAssumption DEF CpuOK, NobodyIn, NobodyOut, Preempted, AllThreads

\* A thread that can be resumed is named by no CPU.
LEMMA ResumableIsOff ==
  ASSUME IInv, NEW d \in Cpus, NEW t \in Threads, Resumable(t)
  PROVE  t \notin {current[d], prev[d], nxt[d]}
<1>1. CpuOK(d) /\ cpc[d] \in CPCs
  BY DEF IInv, CpuState, TypeOK
<1>2. nxt[d] \in Threads => status[nxt[d]] = "SWITCHING"
  BY DEF IInv, PlaceState
<1> QED BY <1>1, <1>2, SchedAssumption
        DEF CpuOK, NobodyIn, NobodyOut, Preempted, Resumable, CPCs

\* The running thread of a CPU, once locked by it or lockable, is named by no
\* other.
LEMMA RunningIsOwn ==
  ASSUME IInv, NEW c \in Cpus, NEW d \in Cpus, d # c,
         cpc[c] \in {"run", "dpc", "taken", "reinsert", "exit", "terminating"},
         tlock[current[c]] \in {NULL, c}
  PROVE  current[c] \notin {current[d], prev[d], nxt[d]}
<1>1. CpuOK(c) /\ CpuOK(d) /\ current[c] # current[d]
  BY DEF IInv, CpuState, LockState
<1>2. nxt[d] \in Threads => status[nxt[d]] = "SWITCHING"
  BY DEF IInv, PlaceState
<1> QED BY <1>1, <1>2, SchedAssumption DEF CpuOK

\* Every CPU's locals keep their meaning.
LEMMA CpuNext ==
  ASSUME IInv, Next
  PROVE  CpuState'
<1> USE SchedAssumption DEF IInv, AllThreads
<1>0. PICK c \in Cpus :
        \/ do_dpc_int(c) \/ PreemptNothing(c) \/ PreemptTake(c) \/ PreemptLock(c)
        \/ PreemptReinsert(c) \/ YieldChoose(c) \/ swtch(c)
        \/ FinalizeSwitching(c) \/ FinalizeUnlock(c) \/ ExitYield(c)
        \/ sched_exit_self(c) \/ Waits(c) \/ Reaps(c) \/ AlarmLatches(c)
        \/ \E d \in Cpus : AlarmWakes(c, d) \/ \E t \in Threads : Resumes(d, t)
  BY NextCases
<1>c. CpuOK(c) /\ \A d \in Cpus : CpuOK(d)
  BY DEF CpuState
<1>t. /\ current \in [Cpus -> AllThreads] /\ nxt \in [Cpus -> AllThreads \cup {NULL}]
      /\ prev \in [Cpus -> AllThreads \cup {NULL}] /\ cpc \in [Cpus -> CPCs]
      /\ status \in [AllThreads -> Statuses] /\ switching \in [AllThreads -> BOOLEAN]
      /\ tlock \in [AllThreads -> Cpus \cup {NULL}]
      /\ sched \in [Cpus -> SchedType] /\ sched[c].next \in Threads \cup {NULL}
  BY DEF TypeOK, SchedType
<1>n. \A d \in Cpus : {current[d], prev[d], nxt[d]} \ {NULL} \subseteq AllThreads
  BY <1>t
<1>w. \A d \in Cpus : nxt[d] \in Threads => status[nxt[d]] = "SWITCHING"
  BY DEF PlaceState
<1>1. CASE do_dpc_int(c) \/ PreemptNothing(c)
  <2>1. CpuOK(c)'
    BY <1>1, <1>c, <1>t
       DEF do_dpc_int, PreemptNothing, Goto, threadVars, CpuOK, NobodyIn, NobodyOut
  <2>2. ASSUME NEW d \in Cpus, d # c PROVE CpuOK(d)'
    BY <1>1, <1>c, <1>t, <2>2, CpuKept DEF do_dpc_int, PreemptNothing, Goto, threadVars
  <2> QED BY <2>1, <2>2 DEF CpuState
<1>2. CASE PreemptTake(c)
  <2> DEFINE n == sched[c].next
  <2>0. n \in Threads /\ status[n] = "NEXT" /\ status' = [status EXCEPT ![n] = "SWITCHING"]
    BY <1>2, <1>t DEF PreemptTake, PlaceState
  <2>1. CpuOK(c)'
    BY <1>2, <1>c, <1>t, <2>0 DEF PreemptTake, Goto, CpuOK, NobodyIn, NobodyOut
  <2>2. ASSUME NEW d \in Cpus, d # c PROVE CpuOK(d)'
    BY <1>2, <1>c, <1>t, <1>n, <2>0, <2>2, CpuKept DEF PreemptTake, Goto, Preempted
  <2> QED BY <2>1, <2>2 DEF CpuState
<1>3. CASE PreemptLock(c)
  <2>1. CpuOK(c)'
    BY <1>3, <1>c, <1>t, <1>w DEF PreemptLock, Goto, CpuOK, NobodyIn, NobodyOut
  <2>2. ASSUME NEW d \in Cpus, d # c PROVE CpuOK(d)'
    <3>1. current[c] \notin {current[d], prev[d], nxt[d]}
      BY <1>3, <2>2, RunningIsOwn DEF PreemptLock
    <3>2. \A x \in AllThreads : x # current[c] =>
            tlock'[x] = tlock[x] /\ switching'[x] = switching[x] /\ status'[x] = status[x]
      BY <1>3, <1>t DEF PreemptLock
    <3> QED BY ZenonT(40), <1>3, <1>c, <1>t, <1>n, <2>2, <3>1, <3>2, CpuKept DEF PreemptLock, Goto
  <2> QED BY <2>1, <2>2 DEF CpuState
<1>4. CASE PreemptReinsert(c)
  <2> DEFINE cur == current[c]
  <2>1. Inserted(c, cur) /\ status[cur] = "RUNNING" /\ cpc[c] = "reinsert"
    BY <1>4, <1>c DEF PreemptReinsert, sched_insert, Inserted, CpuOK
  <2>2. /\ status'[cur] \in {"READY", "NEXT"}
        /\ \A x \in AllThreads : x # cur =>
             status'[x] = status[x] \/ (status[x] = "NEXT" /\ status'[x] = "READY")
    <3>1. \A u \in Cpus : sched[u].next # NULL => status[sched[u].next] = "NEXT"
      BY DEF TypeOK, PlaceState
    <3> QED BY <2>1, <3>1, InsertProps DEF Inserted, Preempted
  <2>3. CpuOK(c)'
    BY <1>4, <1>c, <1>t, <1>w, <2>1, <2>2
       DEF PreemptReinsert, Goto, CpuOK, NobodyIn, NobodyOut, Preempted
  <2>4. ASSUME NEW d \in Cpus, d # c PROVE CpuOK(d)'
    <3>1. cur \notin {current[d], prev[d], nxt[d]}
      BY <1>c, <2>1, <2>4, RunningIsOwn DEF CpuOK, NobodyOut
    <3> HIDE DEF cur
    <3> QED BY <1>4, <1>c, <1>t, <1>n, <2>2, <2>4, <3>1, CpuKept
            DEF PreemptReinsert, Goto, Preempted
  <2> QED BY <2>3, <2>4 DEF CpuState
<1>5. CASE YieldChoose(c)
  <2> DEFINE n == nxt'[c]
  <2>1. \/ n = c /\ status' = status
        \/ /\ n \in Threads /\ status[n] \in {"READY", "NEXT"}
           /\ status' = [status EXCEPT ![n] = "SWITCHING"]
    <3>1. QueuesOK(sched[c]) /\ sched[c] \in SchedType
      BY <1>t DEF PlaceState
    <3>2. ~NothingQueued(sched[c]) =>
            /\ select_next(sched[c]).thread \in Threads
            /\ status[select_next(sched[c]).thread] = "READY"
      BY <3>1, SelectProps DEF PlaceState
    <3>3. sched[c].next # NULL => status[sched[c].next] = "NEXT"
      BY <1>t DEF PlaceState
    <3> QED BY <1>5, <1>t, <3>2, <3>3 DEF YieldChoose
  <2>2. /\ cpc[c] = "yield" /\ cpc'[c] = "chosen"
        /\ prev'[c] = current[c]
        /\ UNCHANGED <<current, switching, tlock>>
        /\ \A d \in Cpus : d # c =>
             cpc'[d] = cpc[d] /\ nxt'[d] = nxt[d] /\ prev'[d] = prev[d]
    BY <1>5, <1>t DEF YieldChoose, Goto
  <2> HIDE DEF n
  <2>3. CpuOK(c)'
    BY <1>c, <1>t, <2>1, <2>2 DEF CpuOK, NobodyIn, NobodyOut, n
  <2>4. ASSUME NEW d \in Cpus, d # c PROVE CpuOK(d)'
    BY <1>c, <1>t, <1>n, <2>1, <2>2, <2>4, CpuKept DEF Preempted
  <2> QED BY <2>3, <2>4 DEF CpuState
<1>6. CASE swtch(c)
  <2>1. CpuOK(c)'
    BY <1>6, <1>c, <1>t, <1>w DEF swtch, Goto, CpuOK, NobodyIn, NobodyOut, Preempted
  <2>2. ASSUME NEW d \in Cpus, d # c PROVE CpuOK(d)'
    BY <1>6, <1>c, <1>t, <2>2, CpuKept DEF swtch, Goto
  <2> QED BY <2>1, <2>2 DEF CpuState
<1>7. CASE FinalizeSwitching(c)
  <2>1. CpuOK(c)'
    BY <1>7, <1>c, <1>t DEF FinalizeSwitching, Goto, CpuOK, NobodyIn, NobodyOut
  <2>2. ASSUME NEW d \in Cpus, d # c PROVE CpuOK(d)'
    <3>1. prev[c] # NULL /\ prev[c] # prev[d]
      BY <1>7, <1>c, <2>2 DEF FinalizeSwitching, CpuOK, NobodyOut, NobodyIn
    <3>2. switching' = [switching EXCEPT ![prev[c]] = FALSE]
      BY <1>7 DEF FinalizeSwitching
    <3> QED BY ZenonT(40), <1>7, <1>c, <1>t, <1>n, <2>2, <3>1, <3>2, CpuKept DEF FinalizeSwitching, Goto
  <2> QED BY <2>1, <2>2 DEF CpuState
<1>8. CASE FinalizeUnlock(c)
  <2>0. /\ cpc[c] = "fin2" /\ prev[c] # NULL /\ tlock[prev[c]] = c
        /\ nxt[c] \in Threads \cup {c} /\ current[c] = nxt[c]
        /\ nxt[c] \in Threads => ~switching[nxt[c]]
    BY <1>8, <1>c DEF FinalizeUnlock, CpuOK, NobodyOut, NobodyIn
  <2>1. CpuOK(c)'
    BY <1>8, <1>c, <1>t, <2>0 DEF FinalizeUnlock, Goto, CpuOK, NobodyIn, NobodyOut
  <2>2. ASSUME NEW d \in Cpus, d # c PROVE CpuOK(d)'
    <3>1. nxt[c] # current[d] /\ nxt[c] # nxt[d]
      BY <1>c, <2>0, <2>2 DEF LockState, PlaceState, CpuOK
    <3>2. nxt[c] = prev[d] => cpc[d] = "fin2"
      BY <1>c, <1>t, <1>w, <2>0, <2>2, <3>1 DEF CpuOK, NobodyOut, NobodyIn, Preempted, CPCs
    <3>3. /\ \A x \in AllThreads : tlock[x] = d => tlock'[x] = d
          /\ \A x \in AllThreads : x # nxt[c] => status'[x] = status[x]
          /\ switching' = switching
      BY <1>8, <1>t, <2>0, <2>2 DEF FinalizeUnlock
    <3> QED BY <1>8, <1>c, <1>t, <1>n, <2>2, <3>1, <3>2, <3>3, CpuKept
            DEF FinalizeUnlock, Goto
  <2> QED BY <2>1, <2>2 DEF CpuState
<1>9. CASE ExitYield(c)
  <2>0. cpc[c] = "terminating" /\ tlock[current[c]] = c
    BY <1>9, <1>c DEF ExitYield, CpuOK
  <2>1. CpuOK(c)'
    <3>1. ~switching[current[c]]
      BY <1>c, <2>0 DEF LockState, CpuOK
    <3> QED BY <1>9, <1>c, <1>t, <3>1 DEF ExitYield, Goto, CpuOK, NobodyIn, NobodyOut
  <2>2. ASSUME NEW d \in Cpus, d # c PROVE CpuOK(d)'
    <3>1. current[c] \notin {current[d], prev[d], nxt[d]}
      BY <2>0, <2>2, RunningIsOwn
    <3> QED BY <1>9, <1>c, <1>t, <1>n, <2>2, <3>1, CpuKept DEF ExitYield, Goto
  <2> QED BY <2>1, <2>2 DEF CpuState
<1>10. CASE sched_exit_self(c)
  <2>1. CpuOK(c)'
    BY <1>10, <1>c, <1>t DEF sched_exit_self, Goto, CpuOK, NobodyIn, NobodyOut
  <2>2. ASSUME NEW d \in Cpus, d # c PROVE CpuOK(d)'
    <3>1. current[c] \notin {current[d], prev[d], nxt[d]}
      BY <1>10, <2>2, RunningIsOwn DEF sched_exit_self
    <3> QED BY <1>10, <1>c, <1>t, <1>n, <2>2, <3>1, CpuKept DEF sched_exit_self, Goto
  <2> QED BY <2>1, <2>2 DEF CpuState
<1>11. CASE Waits(c)
  <2>0. cpc[c] = "run" /\ tlock[current[c]] = NULL
    BY <1>11 DEF Waits, StartWait
  <2>1. CpuOK(c)'
    <3>1. ~switching[current[c]]
      BY <1>c, <2>0 DEF LockState, CpuOK
    <3> QED BY <1>11, <1>c, <1>t, <3>1 DEF Waits, StartWait, Goto, CpuOK, NobodyIn, NobodyOut
  <2>2. ASSUME NEW d \in Cpus, d # c PROVE CpuOK(d)'
    <3>1. current[c] \notin {current[d], prev[d], nxt[d]}
      BY <2>0, <2>2, RunningIsOwn
    <3> QED BY <1>11, <1>c, <1>t, <1>n, <2>2, <3>1, CpuKept DEF Waits, StartWait, Goto
  <2> QED BY <2>1, <2>2 DEF CpuState
<1>12. CASE Reaps(c)
  BY <1>12, <1>c DEF Reaps, cpuVars, threadVars, CpuState, CpuOK
<1>13. CASE AlarmLatches(c)
  <2>1. CpuOK(c)'
    BY <1>13, <1>c, <1>t DEF AlarmLatches, CpuOK, NobodyIn, NobodyOut
  <2>2. ASSUME NEW d \in Cpus, d # c PROVE CpuOK(d)'
    BY <1>13, <1>c, <1>t, <2>2, CpuKept DEF AlarmLatches
  <2> QED BY <2>1, <2>2 DEF CpuState
<1>14. ASSUME NEW e \in Cpus, NEW t \in Threads, Inserted(e, t), Resumable(t)
       PROVE  \A d \in Cpus : \A x \in {current[d], prev[d], nxt[d]} \ {NULL} :
                status'[x] = status[x] \/ (status[x] = "NEXT" /\ status'[x] = "READY")
  <2>1. \A d \in Cpus : t \notin {current[d], prev[d], nxt[d]}
    BY <1>14, <1>c, <1>t, ResumableIsOff
  <2>2. \A u \in Cpus : sched[u].next # NULL => status[sched[u].next] = "NEXT"
    BY DEF TypeOK, PlaceState
  <2>3. \A x \in AllThreads : x # t =>
          status'[x] = status[x] \/ (status[x] = "NEXT" /\ status'[x] = "READY")
    BY <1>14, <2>2, InsertProps DEF Inserted, Preempted, Resumable
  <2> QED BY <1>n, <2>1, <2>3
<1>15. CASE \E e \in Cpus : AlarmWakes(c, e)
  <2>0. PICK e \in Cpus : AlarmWakes(c, e)
    BY <1>15
  <2>1. \A d \in Cpus : \A x \in {current[d], prev[d], nxt[d]} \ {NULL} :
          status'[x] = status[x] \/ (status[x] = "NEXT" /\ status'[x] = "READY")
    BY <1>14, <2>0 DEF AlarmWakes, Inserted
  <2>2. CpuOK(c)'
    BY <2>0, <2>1, <1>c, <1>t DEF AlarmWakes, CpuOK, NobodyIn, NobodyOut
  <2>3. ASSUME NEW d \in Cpus, d # c PROVE CpuOK(d)'
    BY <2>0, <2>1, <1>c, <1>t, <2>3, CpuKept DEF AlarmWakes, Preempted
  <2> QED BY <2>2, <2>3 DEF CpuState
<1>16. CASE \E e \in Cpus, t \in Threads : Resumes(e, t)
  <2>0. PICK e \in Cpus, t \in Threads : Resumes(e, t)
    BY <1>16
  <2>1. \A d \in Cpus : \A x \in {current[d], prev[d], nxt[d]} \ {NULL} :
          status'[x] = status[x] \/ (status[x] = "NEXT" /\ status'[x] = "READY")
    BY <1>14, <2>0 DEF Resumes
  <2>2. ASSUME NEW d \in Cpus PROVE CpuOK(d)'
    BY <2>0, <2>1, <1>c, <2>2, CpuKept DEF Resumes, Preempted
  <2> QED BY <2>2 DEF CpuState
<1> QED BY <1>0, <1>1, <1>2, <1>3, <1>4, <1>5, <1>6, <1>7, <1>8, <1>9, <1>10,
           <1>11, <1>12, <1>13, <1>15, <1>16
-----------------------------------------------------------------------------
(* Who holds a thread, what runs where. *)

\* A thread that is switched to is off its stack, and on no other CPU.
LEMMA LockNext ==
  ASSUME IInv, Next
  PROVE  LockState'
<1> USE SchedAssumption DEF IInv, AllThreads
<1>0. PICK c \in Cpus :
        \/ do_dpc_int(c) \/ PreemptNothing(c) \/ PreemptTake(c) \/ PreemptLock(c)
        \/ PreemptReinsert(c) \/ YieldChoose(c) \/ swtch(c)
        \/ FinalizeSwitching(c) \/ FinalizeUnlock(c) \/ ExitYield(c)
        \/ sched_exit_self(c) \/ Waits(c) \/ Reaps(c) \/ AlarmLatches(c)
        \/ \E d \in Cpus : AlarmWakes(c, d) \/ \E t \in Threads : Resumes(d, t)
  BY NextCases
<1>c. CpuOK(c) /\ \A d \in Cpus : CpuOK(d)
  BY DEF CpuState
<1>t. /\ current \in [Cpus -> AllThreads] /\ nxt \in [Cpus -> AllThreads \cup {NULL}]
      /\ prev \in [Cpus -> AllThreads \cup {NULL}] /\ cpc \in [Cpus -> CPCs]
      /\ switching \in [AllThreads -> BOOLEAN]
      /\ tlock \in [AllThreads -> Cpus \cup {NULL}]
  BY DEF TypeOK
<1>1. CASE do_dpc_int(c) \/ PreemptNothing(c) \/ PreemptTake(c)
  BY SMTT(30), <1>1, <1>t DEF do_dpc_int, PreemptNothing, PreemptTake, Goto, threadVars, LockState
<1>2. CASE PreemptLock(c)
  <2>0. cpc[c] = "taken" /\ prev[c] = NULL
    BY <1>2, <1>c DEF PreemptLock, CpuOK, NobodyOut
  <2> QED BY SMTT(30), <1>2, <1>t, <2>0 DEF PreemptLock, Goto, LockState
<1>3. CASE PreemptReinsert(c)
  BY <1>3, <1>t DEF PreemptReinsert, Goto, LockState
<1>4. CASE YieldChoose(c)
  <2>0. cpc[c] = "yield" /\ prev[c] = NULL
    BY <1>4, <1>c DEF YieldChoose, CpuOK, NobodyOut, NobodyIn
  <2> QED BY <1>4, <1>t, <2>0 DEF YieldChoose, Goto, LockState
<1>5. CASE swtch(c)
  <2>0. /\ cpc[c] \in {"swtch", "chosen"} /\ nxt[c] \in Threads \cup {c}
        /\ nxt[c] \in Threads => ~switching[nxt[c]] /\ status[nxt[c]] = "SWITCHING"
    BY <1>5, <1>c DEF swtch, CpuOK, NobodyIn, PlaceState
  <2>1. ASSUME NEW d \in Cpus, d # c PROVE current[d] # nxt[c]
    <3>1. CASE nxt[c] = c
      BY <3>1, <1>c, <2>1 DEF CpuOK
    <3>2. CASE nxt[c] \in Threads
      <4>1. nxt[d] # nxt[c]
        BY <3>2, <2>1 DEF PlaceState
      <4> QED BY <3>2, <4>1, <1>c, <1>t, <2>0, <2>1 DEF CpuOK, CPCs
    <3> QED BY <2>0, <3>1, <3>2
  <2> QED BY <1>5, <1>t, <2>0, <2>1 DEF swtch, Goto, LockState
<1>6. CASE FinalizeSwitching(c)
  <2>0. /\ cpc[c] = "fin" /\ prev[c] # NULL
        /\ \A d \in Cpus : prev[d] = prev[c] => d = c
    BY <1>6, <1>c DEF FinalizeSwitching, CpuOK, NobodyOut, NobodyIn
  <2>1. switching' = [switching EXCEPT ![prev[c]] = FALSE] /\ cpc' = [cpc EXCEPT ![c] = "fin2"]
        /\ UNCHANGED <<current, prev, tlock>>
    BY <1>6 DEF FinalizeSwitching, Goto
  <2> QED BY <1>t, <2>0, <2>1 DEF LockState
<1>7. CASE FinalizeUnlock(c)
  <2>0. cpc[c] = "fin2" /\ prev[c] # NULL
    BY <1>7, <1>c DEF FinalizeUnlock, CpuOK, NobodyOut, NobodyIn
  <2> QED BY <1>7, <1>t, <2>0 DEF FinalizeUnlock, Goto, LockState
<1>8. CASE ExitYield(c)
  BY <1>8, <1>t DEF ExitYield, Goto, LockState
<1>9. CASE sched_exit_self(c)
  <2>1. /\ cpc[c] = "run" /\ cpc' = [cpc EXCEPT ![c] = "exit"]
        /\ tlock' = [tlock EXCEPT ![current[c]] = c]
        /\ UNCHANGED <<current, prev, switching>>
    BY <1>9 DEF sched_exit_self, Goto
  <2> QED BY <1>t, <2>1 DEF LockState
<1>10. CASE Waits(c)
  BY <1>10, <1>t DEF Waits, StartWait, Goto, LockState
<1>11. CASE Reaps(c)
  BY <1>11 DEF Reaps, cpuVars, threadVars, LockState
<1>12. CASE AlarmLatches(c) \/ \E d \in Cpus : AlarmWakes(c, d)
  BY <1>12, <1>t DEF AlarmLatches, AlarmWakes, LockState
<1>13. CASE \E d \in Cpus, t \in Threads : Resumes(d, t)
  BY <1>13 DEF Resumes, LockState
<1> QED BY <1>0, <1>1, <1>2, <1>3, <1>4, <1>5, <1>6, <1>7, <1>8, <1>9, <1>10,
           <1>11, <1>12, <1>13

\* A thread that leaves a place is found in the next one.
LEMMA PlaceNext ==
  ASSUME IInv, Next
  PROVE  PlaceState'
<1> USE SchedAssumption DEF IInv, AllThreads
<1>0. PICK c \in Cpus :
        \/ do_dpc_int(c) \/ PreemptNothing(c) \/ PreemptTake(c) \/ PreemptLock(c)
        \/ PreemptReinsert(c) \/ YieldChoose(c) \/ swtch(c)
        \/ FinalizeSwitching(c) \/ FinalizeUnlock(c) \/ ExitYield(c)
        \/ sched_exit_self(c) \/ Waits(c) \/ Reaps(c) \/ AlarmLatches(c)
        \/ \E d \in Cpus : AlarmWakes(c, d) \/ \E t \in Threads : Resumes(d, t)
  BY NextCases
<1>c. CpuOK(c) /\ \A d \in Cpus : CpuOK(d)
  BY DEF CpuState
<1>t. /\ current \in [Cpus -> AllThreads] /\ nxt \in [Cpus -> AllThreads \cup {NULL}]
      /\ cpc \in [Cpus -> CPCs] /\ status \in [AllThreads -> Statuses]
      /\ sched \in [Cpus -> SchedType] /\ sched[c].next \in Threads \cup {NULL}
  BY DEF TypeOK, SchedType
<1>1. CASE do_dpc_int(c) \/ PreemptNothing(c) \/ FinalizeSwitching(c)
             \/ sched_exit_self(c) \/ Reaps(c) \/ AlarmLatches(c)
  BY <1>1 DEF do_dpc_int, PreemptNothing, FinalizeSwitching, sched_exit_self, Reaps,
              AlarmLatches, cpuVars, threadVars, PlaceState
<1>2. CASE PreemptTake(c)
  <2> DEFINE n == sched[c].next
  <2>1. /\ n \in Threads /\ status[n] = "NEXT" /\ nxt[c] = NULL
        /\ \A t \in Threads : t \notin OnQueue(sched[c]) \/ t # n
    BY SMTT(30), <1>2, <1>c, <1>t DEF PreemptTake, PlaceState, CpuOK, NobodyIn
  <2>2. /\ sched'[c].next = NULL /\ OnQueue(sched'[c]) = OnQueue(sched[c])
        /\ QueuesOK(sched'[c])
        /\ \A d \in Cpus : d # c => sched'[d] = sched[d] /\ nxt'[d] = nxt[d]
        /\ nxt'[c] = n /\ current' = current
        /\ status'[n] = "SWITCHING"
        /\ \A t \in AllThreads : t # n => status'[t] = status[t]
    <3>1. QueuesOK(sched[c]) /\ sched[c] \in SchedType
      BY <1>t DEF PlaceState
    <3>2. /\ sched' = [sched EXCEPT ![c].next = NULL] /\ nxt' = [nxt EXCEPT ![c] = n]
          /\ status' = [status EXCEPT ![n] = "SWITCHING"] /\ current' = current
      BY <1>2 DEF PreemptTake
    <3>3. sched'[c].next = NULL /\ OnQueue(sched'[c]) = OnQueue(sched[c]) /\ QueuesOK(sched'[c])
      BY <1>t, <3>1, <3>2 DEF SchedType, QueuesOK, OnQueue
    <3> HIDE DEF n
    <3> QED BY <1>t, <2>1, <3>2, <3>3
  <2> HIDE DEF n
  <2> QED BY <2>1, <2>2 DEF PlaceState, n
<1>3. CASE PreemptLock(c)
  <2>1. \A t \in Threads : status'[t] = status[t]
    BY <1>3, <1>t DEF PreemptLock
  <2> QED BY <1>3, <2>1 DEF PreemptLock, PlaceState
<1>4. CASE PreemptReinsert(c)
  <2>1. Inserted(c, current[c]) /\ status[current[c]] \notin Preempted
    BY <1>4, <1>c DEF PreemptReinsert, sched_insert, Inserted, CpuOK, Preempted
  <2> QED BY <1>4, <2>1, InsertPlace DEF PreemptReinsert, Inserted
<1>5. CASE swtch(c)
  <2>1. status[current[c]] # "RUNNING" \/ current[c] = c
    BY <1>5, <1>c DEF swtch, CpuOK, Preempted
  <2>2. \A t \in Threads : status[t] = "RUNNING" =>
          \E d \in Cpus : d # c /\ current[d] = t
    BY <2>1 DEF PlaceState
  <2>3. \A d \in Cpus : d # c => current'[d] = current[d]
    BY <1>5, <1>t DEF swtch
  <2> QED BY <1>5, <2>2, <2>3 DEF swtch, PlaceState
<1>6. CASE FinalizeUnlock(c)
  <2>1. /\ nxt[c] \in Threads \cup {c} /\ current[c] = nxt[c]
        /\ nxt[c] \in Threads => status[nxt[c]] = "SWITCHING"
    BY <1>6, <1>c DEF FinalizeUnlock, CpuOK, NobodyIn, PlaceState
  <2>2. /\ sched' = sched /\ current' = current /\ nxt'[c] = NULL
        /\ \A d \in Cpus : d # c => nxt'[d] = nxt[d]
        /\ status'[nxt[c]] = "RUNNING"
        /\ \A t \in AllThreads : t # nxt[c] => status'[t] = status[t]
    BY <1>6, <1>t, <2>1 DEF FinalizeUnlock
  <2> QED BY <2>1, <2>2 DEF PlaceState
<1>7. CASE ExitYield(c) \/ Waits(c)
  <2>1. /\ status[current[c]] = "RUNNING" /\ current[c] \in Threads
        /\ status'[current[c]] \in {"TERMINATING", "WAITING"}
        /\ \A t \in AllThreads : t # current[c] => status'[t] = status[t]
        /\ UNCHANGED <<sched, current, nxt>>
    BY <1>7, <1>c, <1>t DEF ExitYield, Waits, StartWait, CpuOK
  <2> QED BY <2>1 DEF PlaceState
<1>8. CASE \E d \in Cpus : AlarmWakes(c, d)
  BY <1>8, InsertPlace DEF AlarmWakes, Inserted, Resumable, Preempted
<1>9. CASE \E d \in Cpus, t \in Threads : Resumes(d, t)
  BY <1>9, InsertPlace DEF Resumes, Inserted, Resumable, Preempted
<1>10. CASE YieldChoose(c)
  <2> DEFINE s == sched[c]
             n == nxt'[c]
  <2>1. QueuesOK(s) /\ s \in SchedType /\ nxt[c] = NULL
    BY <1>10, <1>c, <1>t DEF PlaceState, CpuOK, YieldChoose, NobodyIn
  <2>2. /\ \A d \in Cpus : d # c => sched'[d] = sched[d] /\ nxt'[d] = nxt[d]
        /\ current' = current
    BY <1>10, <1>t DEF YieldChoose
  <2>3. CASE s.next # NULL
    <3>1. /\ n = s.next /\ status[n] = "NEXT" /\ n \in Threads
          /\ sched'[c].next = NULL /\ OnQueue(sched'[c]) = OnQueue(s) /\ QueuesOK(sched'[c])
          /\ status'[n] = "SWITCHING"
          /\ \A t \in AllThreads : t # n => status'[t] = status[t]
      BY <1>10, <1>t, <2>1, <2>3 DEF YieldChoose, PlaceState, SchedType, QueuesOK, OnQueue
    <3> HIDE DEF n, s
    <3> QED BY <2>1, <2>2, <3>1 DEF PlaceState, n, s
  <2>4. CASE s.next = NULL /\ NothingQueued(s)
    <3>1. n = c /\ sched' = sched /\ status' = status
      BY <1>10, <1>t, <2>4 DEF YieldChoose
    <3> QED BY <2>1, <2>2, <3>1 DEF PlaceState
  <2>5. CASE s.next = NULL /\ ~NothingQueued(s)
    <3>1. /\ n = select_next(s).thread /\ sched'[c] = select_next(s).s
          /\ status' = [status EXCEPT ![n] = "SWITCHING"]
      BY <1>10, <1>t, <2>5 DEF YieldChoose
    <3>2. /\ n \in OnQueue(s) /\ n \in Threads
          /\ sched'[c].next = s.next /\ OnQueue(sched'[c]) = OnQueue(s) \ {n}
          /\ QueuesOK(sched'[c])
      BY <2>1, <2>5, <3>1, SelectProps
    <3>3. /\ status[n] = "READY" /\ status'[n] = "SWITCHING"
          /\ \A t \in AllThreads : t # n => status'[t] = status[t]
      BY <1>t, <3>1, <3>2 DEF PlaceState
    <3> HIDE DEF n
    <3> QED BY <2>1, <2>2, <2>5, <3>2, <3>3 DEF PlaceState, n
  <2> QED BY <2>3, <2>4, <2>5
<1> QED BY <1>0, <1>1, <1>2, <1>3, <1>4, <1>5, <1>6, <1>7, <1>8, <1>9, <1>10
-----------------------------------------------------------------------------
(* The soft interrupt and the reaper. *)

\* Inserting selects a thread only with the soft interrupt pending.
LEMMA InsertedSoft ==
  ASSUME IInv, NEW d, NEW t, Inserted(d, t), status[t] \notin Preempted,
         NEW c \in Cpus, sched'[c].next # NULL,
         sched[c].next # NULL => pending[c] \/ cpc[c] = "dpc"
  PROVE  pending'[c] \/ cpc[c] = "dpc"
<1>1. /\ d \in Cpus /\ pending \in [Cpus -> BOOLEAN]
      /\ pending' = [pending EXCEPT ![d] = @ \/ (Preempts(d, t) /\ sched[d].next = NULL)]
      /\ c # d => sched'[c] = sched[c]
      /\ ~Preempts(d, t) => sched'[d].next = sched[d].next
  BY InsertProps DEF Inserted, IInv, TypeOK
<1>2. CASE c # d
  BY <1>1, <1>2
<1>3. CASE c = d
  <2>1. pending'[d] <=> pending[d] \/ (Preempts(d, t) /\ sched[d].next = NULL)
    BY <1>1
  <2> QED BY <1>1, <1>3, <2>1
<1> QED BY <1>2, <1>3

\* A selected thread keeps the soft interrupt pending until it is taken.
LEMMA SoftNext ==
  ASSUME IInv, Next
  PROVE  NextHasSoftint'
<1> USE DEF IInv
<1>0. PICK c \in Cpus :
        \/ do_dpc_int(c) \/ PreemptNothing(c) \/ PreemptTake(c) \/ PreemptLock(c)
        \/ PreemptReinsert(c) \/ YieldChoose(c) \/ swtch(c)
        \/ FinalizeSwitching(c) \/ FinalizeUnlock(c) \/ ExitYield(c)
        \/ sched_exit_self(c) \/ Waits(c) \/ Reaps(c) \/ AlarmLatches(c)
        \/ \E d \in Cpus : AlarmWakes(c, d) \/ \E t \in Threads : Resumes(d, t)
  BY NextCases
<1>t. /\ sched \in [Cpus -> SchedType] /\ cpc \in [Cpus -> CPCs]
      /\ pending \in [Cpus -> BOOLEAN]
  BY DEF TypeOK, SchedType
<1>1. CASE do_dpc_int(c) \/ PreemptNothing(c)
  BY <1>1, <1>t DEF do_dpc_int, PreemptNothing, Goto, NextHasSoftint
<1>2. CASE PreemptTake(c)
  <2>1. /\ sched'[c].next = NULL
        /\ \A d \in Cpus : d # c => sched'[d] = sched[d] /\ cpc'[d] = cpc[d]
        /\ pending' = pending
    BY <1>2, <1>t DEF PreemptTake, Goto, SchedType
  <2> QED BY <2>1 DEF NextHasSoftint
<1>3. CASE PreemptLock(c) \/ swtch(c) \/ FinalizeSwitching(c) \/ FinalizeUnlock(c)
             \/ ExitYield(c) \/ Waits(c) \/ sched_exit_self(c) \/ AlarmLatches(c)
  <2>1. /\ cpc[c] # "dpc" /\ sched' = sched /\ pending' = pending
        /\ \A d \in Cpus : d # c => cpc'[d] = cpc[d]
    BY <1>3, <1>t DEF PreemptLock, swtch, FinalizeSwitching, FinalizeUnlock,
       ExitYield, Waits, StartWait, sched_exit_self, AlarmLatches, Goto
  <2> QED BY <2>1 DEF NextHasSoftint
<1>4. CASE PreemptReinsert(c)
  <2>1. Inserted(c, current[c]) /\ status[current[c]] \notin Preempted
    BY <1>4 DEF PreemptReinsert, sched_insert, Inserted, CpuState, CpuOK, Preempted
  <2>2. cpc[c] # "dpc" /\ \A d \in Cpus : d # c => cpc'[d] = cpc[d]
    BY <1>4, <1>t DEF PreemptReinsert, Goto
  <2> QED BY <2>1, <2>2, InsertedSoft DEF NextHasSoftint
<1>5. CASE YieldChoose(c)
  <2>1. sched'[c].next = NULL
    <3>1. ~NothingQueued(sched[c]) => select_next(sched[c]).s.next = sched[c].next
      BY <1>t, SelectProps DEF PlaceState
    <3>2. [sched[c] EXCEPT !.next = NULL].next = NULL
      BY <1>t DEF SchedType
    <3> QED BY <1>5, <1>t, <3>1, <3>2 DEF YieldChoose
  <2>2. /\ \A d \in Cpus : d # c => sched'[d] = sched[d] /\ cpc'[d] = cpc[d]
        /\ pending' = pending
    BY <1>5, <1>t DEF YieldChoose, Goto
  <2> QED BY <2>1, <2>2 DEF NextHasSoftint
<1>6. CASE Reaps(c)
  BY <1>6 DEF Reaps, cpuVars, NextHasSoftint
<1>7. CASE \E d \in Cpus : AlarmWakes(c, d)
  <2>1. PICK d \in Cpus : AlarmWakes(c, d)
    BY <1>7
  <2>2. Inserted(d, Reaper) /\ status[Reaper] \notin Preempted /\ cpc[c] # "dpc"
    BY <2>1 DEF AlarmWakes, Resumable, Preempted
  <2>3. \A e \in Cpus : e # c => cpc'[e] = cpc[e]
    BY <2>1, <1>t DEF AlarmWakes
  <2> QED BY <2>2, <2>3, InsertedSoft DEF NextHasSoftint
<1>8. CASE \E d \in Cpus, t \in Threads : Resumes(d, t)
  <2>1. PICK d \in Cpus, t \in Threads : Resumes(d, t)
    BY <1>8
  <2>2. Inserted(d, t) /\ status[t] \notin Preempted /\ cpc' = cpc
    BY <2>1 DEF Resumes, Resumable, Preempted
  <2> QED BY <2>2, InsertedSoft DEF NextHasSoftint
<1> QED BY <1>0, <1>1, <1>2, <1>3, <1>4, <1>5, <1>6, <1>7, <1>8

\* A terminating thread stays so: no step takes it up again.
LEMMA TerminatedStays ==
  ASSUME IInv, Next, NEW t \in Threads, status[t] = "TERMINATING"
  PROVE  status'[t] = "TERMINATING"
<1> USE SchedAssumption DEF IInv, AllThreads
<1>0. PICK c \in Cpus :
        \/ do_dpc_int(c) \/ PreemptNothing(c) \/ PreemptTake(c) \/ PreemptLock(c)
        \/ PreemptReinsert(c) \/ YieldChoose(c) \/ swtch(c)
        \/ FinalizeSwitching(c) \/ FinalizeUnlock(c) \/ ExitYield(c)
        \/ sched_exit_self(c) \/ Waits(c) \/ Reaps(c) \/ AlarmLatches(c)
        \/ \E d \in Cpus : AlarmWakes(c, d) \/ \E u \in Threads : Resumes(d, u)
  BY NextCases
<1>c. CpuOK(c)
  BY DEF CpuState
<1>t. /\ status \in [AllThreads -> Statuses]
      /\ sched \in [Cpus -> SchedType] /\ sched[c].next \in Threads \cup {NULL}
  BY DEF TypeOK, SchedType
<1>i. ASSUME NEW d, NEW u, Inserted(d, u),
             status[u] \in {"RUNNING", "WAITING", "UNDEFINED"}
      PROVE  status'[t] = "TERMINATING"
  <2>1. sched[d].next # NULL => status[sched[d].next] = "NEXT"
    BY <1>i DEF Inserted, TypeOK, PlaceState
  <2> QED BY <1>i, <2>1, InsertProps DEF Inserted, Preempted
<1>1. CASE do_dpc_int(c) \/ PreemptNothing(c) \/ swtch(c) \/ FinalizeSwitching(c)
             \/ sched_exit_self(c) \/ Reaps(c) \/ AlarmLatches(c)
  BY <1>1 DEF do_dpc_int, PreemptNothing, swtch, FinalizeSwitching, sched_exit_self,
              Reaps, AlarmLatches, threadVars
<1>2. CASE PreemptTake(c)
  BY <1>2, <1>t DEF PreemptTake, PlaceState
<1>3. CASE PreemptLock(c)
  BY <1>3, <1>t DEF PreemptLock
<1>4. CASE PreemptReinsert(c)
  BY <1>4, <1>c, <1>i DEF PreemptReinsert, sched_insert, Inserted, CpuOK
<1>5. CASE YieldChoose(c)
  <2>1. ~NothingQueued(sched[c]) => status[select_next(sched[c]).thread] = "READY"
    BY <1>t, SelectProps DEF PlaceState
  <2>2. sched[c].next # NULL => status[sched[c].next] = "NEXT"
    BY <1>t DEF PlaceState
  <2> QED BY <1>5, <1>t, <2>1, <2>2 DEF YieldChoose
<1>6. CASE FinalizeUnlock(c)
  <2>1. nxt[c] \in Threads => status[nxt[c]] = "SWITCHING"
    BY DEF PlaceState
  <2> QED BY <1>6, <1>c, <1>t, <2>1 DEF FinalizeUnlock, CpuOK
<1>7. CASE ExitYield(c) \/ Waits(c)
  BY <1>7, <1>c, <1>t DEF ExitYield, Waits, StartWait, CpuOK
<1>8. CASE \E d \in Cpus : AlarmWakes(c, d)
  BY <1>8, <1>i DEF AlarmWakes, Resumable
<1>9. CASE \E d \in Cpus, u \in Threads : Resumes(d, u)
  BY <1>9, <1>i DEF Resumes, Resumable
<1> QED BY <1>0, <1>1, <1>2, <1>3, <1>4, <1>5, <1>6, <1>7, <1>8, <1>9

\* A thread that terminated and is off its lock is on no CPU.
LEMMA TerminatedIsOff ==
  ASSUME IInv, NEW t \in Threads, status[t] = "TERMINATING", tlock[t] = NULL,
         NEW c \in Cpus
  PROVE  t \notin {current[c], prev[c]}
<1>1. CpuOK(c) /\ cpc[c] \in CPCs
  BY DEF IInv, CpuState, TypeOK
<1>2. nxt[c] \in Threads => status[nxt[c]] = "SWITCHING"
  BY DEF IInv, PlaceState
<1> QED BY <1>1, <1>2, SchedAssumption
        DEF CpuOK, NobodyIn, NobodyOut, Preempted, CPCs

\* What the reaper got has exited, and what it frees has switched off.
LEMMA ReaperNext ==
  ASSUME IInv, Next
  PROVE  ReaperState'
<1> USE SchedAssumption DEF IInv, AllThreads
<1>0. PICK c \in Cpus :
        \/ do_dpc_int(c) \/ PreemptNothing(c) \/ PreemptTake(c) \/ PreemptLock(c)
        \/ PreemptReinsert(c) \/ YieldChoose(c) \/ swtch(c)
        \/ FinalizeSwitching(c) \/ FinalizeUnlock(c) \/ ExitYield(c)
        \/ sched_exit_self(c) \/ Waits(c) \/ Reaps(c) \/ AlarmLatches(c)
        \/ \E d \in Cpus : AlarmWakes(c, d) \/ \E t \in Threads : Resumes(d, t)
  BY NextCases
<1>t. /\ current \in [Cpus -> AllThreads] /\ cpc \in [Cpus -> CPCs]
      /\ status \in [AllThreads -> Statuses]
      /\ tlock \in [AllThreads -> Cpus \cup {NULL}]
      /\ prev \in [Cpus -> AllThreads \cup {NULL}]
      /\ reaper_queue \in Seq(Threads) /\ freed \subseteq Threads
      /\ CpuOK(c)
  BY DEF TypeOK, CpuState
<1> DEFINE Exiting(t) == \E d \in Cpus : current[d] = t /\ cpc[d] \in {"exit", "terminating"}
\* What is freed stays terminated and unlocked.
<1>1. \A t \in freed : status'[t] = "TERMINATING" /\ tlock'[t] = NULL
  <2> SUFFICES ASSUME NEW t \in freed
               PROVE  status'[t] = "TERMINATING" /\ tlock'[t] = NULL
    OBVIOUS
  <2>1. t \in Threads /\ status[t] = "TERMINATING" /\ tlock[t] = NULL
    BY DEF ReaperState, TypeOK
  <2>2. t # current[c] /\ t # prev[c]
    BY <2>1, TerminatedIsOff
  <2>3. \A x \in AllThreads : x \notin {current[c], prev[c]} => tlock'[x] = tlock[x]
    BY <1>0, <1>t DEF do_dpc_int, PreemptNothing, PreemptTake, PreemptLock, PreemptReinsert,
       YieldChoose, swtch, FinalizeSwitching, FinalizeUnlock, ExitYield, sched_exit_self,
       Waits, StartWait, Reaps, AlarmLatches, AlarmWakes, Resumes, threadVars
  <2> QED BY <2>1, <2>2, <2>3, TerminatedStays
\* A thread that exits goes on to terminate.
<1>2. ASSUME NEW t \in Threads, status[t] = "TERMINATING" \/ Exiting(t)
      PROVE  status'[t] = "TERMINATING" \/ Exiting(t)'
  <2>1. CASE status[t] = "TERMINATING"
    BY <2>1, TerminatedStays
  <2>2. CASE \E d \in Cpus : d # c /\ current[d] = t /\ cpc[d] \in {"exit", "terminating"}
    <3>1. \A d \in Cpus : d # c => current'[d] = current[d] /\ cpc'[d] = cpc[d]
      BY <1>0, <1>t DEF do_dpc_int, PreemptNothing, PreemptTake, PreemptLock, PreemptReinsert,
         YieldChoose, swtch, FinalizeSwitching, FinalizeUnlock, ExitYield, sched_exit_self,
         Waits, StartWait, Reaps, AlarmLatches, AlarmWakes, Resumes, cpuVars, Goto
    <3> QED BY <2>2, <3>1
  <2>3. CASE current[c] = t /\ cpc[c] \in {"exit", "terminating"}
    <3>1. \/ ExitYield(c)
          \/ current' = current /\ cpc'[c] \in {"exit", "terminating"}
      BY <1>0, <1>t, <2>3 DEF do_dpc_int, PreemptNothing, PreemptTake, PreemptLock,
         PreemptReinsert, YieldChoose, swtch, FinalizeSwitching, FinalizeUnlock,
         sched_exit_self, Waits, StartWait, Reaps, AlarmLatches, AlarmWakes, Resumes, cpuVars
    <3> QED BY <1>t, <2>3, <3>1 DEF ExitYield
  <2> QED BY <1>2, <2>1, <2>2, <2>3
<1> HIDE DEF Exiting
<1>3. \A t \in Threads : t = victim \/ t \in ToSet(reaper_queue) =>
        status'[t] = "TERMINATING" \/ Exiting(t)'
  BY <1>2 DEF ReaperState, Exiting
<1>4. CASE UNCHANGED <<victim, reaper_queue, freed>> /\ rpc' = rpc
  BY <1>1, <1>3, <1>4 DEF ReaperState, Exiting
<1>5. CASE AlarmLatches(c) \/ \E d \in Cpus : AlarmWakes(c, d)
  BY <1>1, <1>3, <1>5 DEF ReaperState, Exiting, AlarmLatches, AlarmWakes
<1>6. CASE sched_exit_self(c)
  <2> DEFINE t == current[c]
  <2>1. /\ t \in Threads /\ reaper_queue' = <<t>> \o reaper_queue
        /\ victim' = victim /\ freed' = freed /\ rpc' = rpc
        /\ current'[c] = t /\ cpc'[c] = "exit"
    BY <1>6, <1>t DEF sched_exit_self, Goto, CpuOK
  <2>2. Exiting(t)'
    BY <2>1 DEF Exiting
  <2>3. ToSet(reaper_queue') = {t} \cup ToSet(reaper_queue)
    <3>1. <<t>> \in Seq(Threads) /\ ToSet(<<t>>) = {t}
      BY <2>1, SingletonProps
    <3> DEFINE a == <<t>>
    <3>2. reaper_queue' = a \o reaper_queue /\ a \in Seq(Threads) /\ ToSet(a) = {t}
      BY <2>1, <3>1
    <3> HIDE DEF a
    <3>3. ToSet(a \o reaper_queue) = ToSet(a) \cup ToSet(reaper_queue)
      BY <1>t, <3>2, ConcatProps
    <3> QED BY <3>2, <3>3
  <2> HIDE DEF t
  <2> QED BY ZenonT(40), <1>1, <1>3, <2>1, <2>2, <2>3 DEF ReaperState, Exiting
<1>7. CASE Reaps(c)
  <2>1. CASE UNCHANGED <<victim, reaper_queue, freed>> /\ rpc' # "destroy"
    BY <1>1, <1>3, <2>1 DEF ReaperState, Exiting
  <2>2. CASE /\ reaper_queue # <<>>
             /\ victim' = Head(reaper_queue) /\ reaper_queue' = Tail(reaper_queue)
             /\ rpc' = "destroy" /\ freed' = freed
    <3>1. /\ victim' \in Threads /\ victim' \in ToSet(reaper_queue)
          /\ ToSet(reaper_queue') \subseteq ToSet(reaper_queue)
      BY <1>t, <2>2 DEF ToSet
    <3> QED BY <1>1, <1>3, <2>2, <3>1 DEF ReaperState, Exiting
  <2>3. CASE /\ rpc = "destroy" /\ tlock[victim] = NULL /\ freed' = freed \cup {victim}
             /\ victim' = NULL /\ rpc' = "drain" /\ reaper_queue' = reaper_queue
    <3>1. victim \in Threads /\ status[victim] = "TERMINATING"
      <4>1. victim \in Threads /\ (status[victim] = "TERMINATING" \/ Exiting(victim))
        BY <2>3 DEF ReaperState, Exiting
      <4>2. ~Exiting(victim)
        BY <2>3, <1>t DEF Exiting, CpuState, CpuOK
      <4> QED BY <4>1, <4>2
    <3>2. UNCHANGED <<status, tlock>>
      BY <1>7 DEF Reaps, threadVars
    <3> QED BY <1>1, <1>3, <2>3, <3>1, <3>2 DEF ReaperState, Exiting
  <2> QED BY <1>7, <2>1, <2>2, <2>3 DEF Reaps
<1>8. \/ UNCHANGED <<victim, reaper_queue, freed>> /\ rpc' = rpc
      \/ AlarmLatches(c) \/ (\E d \in Cpus : AlarmWakes(c, d))
      \/ sched_exit_self(c) \/ Reaps(c)
  BY <1>0 DEF do_dpc_int, PreemptNothing, PreemptTake, PreemptLock, PreemptReinsert,
     YieldChoose, swtch, FinalizeSwitching, FinalizeUnlock, ExitYield, Waits, Resumes,
     reaperVars
<1> QED BY <1>4, <1>5, <1>6, <1>7, <1>8
-----------------------------------------------------------------------------
(* The theorems. *)

\* Every CPU runs its idle thread at first.
LEMMA InitInv ==
  ASSUME Init
  PROVE  IInv
<1> USE SchedAssumption DEF Init, AllThreads
<1>0. <<>> \in Seq(Threads) /\ ToSet(<<>>) = {} /\ IsInjective(<<>>)
  BY DEF ToSet, IsInjective
<1>1. TypeOK
  BY <1>0 DEF TypeOK, CPCs, Statuses
<1>2. CpuState
  BY DEF CpuState, CpuOK, NobodyIn, NobodyOut
<1>3. LockState
  BY DEF LockState
<1>4. PlaceState
  BY <1>0 DEF PlaceState, QueuesOK, OnQueue
<1>5. NextHasSoftint
  BY DEF NextHasSoftint
<1>6. ReaperState
  BY <1>0 DEF ReaperState
<1> QED BY <1>1, <1>2, <1>3, <1>4, <1>5, <1>6 DEF IInv

\* A step that changes nothing.
LEMMA StutterInv ==
  ASSUME IInv, UNCHANGED vars
  PROVE  IInv'
<1> USE DEF IInv, vars, cpuVars, threadVars, reaperVars
<1>1. TypeOK' /\ NextHasSoftint'
  BY DEF TypeOK, NextHasSoftint
<1>2. CpuState' /\ LockState'
  BY DEF CpuState, CpuOK, LockState
<1>3. PlaceState' /\ ReaperState'
  BY DEF PlaceState, ReaperState
<1> QED BY <1>1, <1>2, <1>3

\* The inductive invariant holds in every reachable state.
LEMMA Invariant == Spec => []IInv
<1>1. Init => IInv
  BY InitInv
<1>2. IInv /\ [Next]_vars => IInv'
  <2>1. ASSUME IInv, Next PROVE IInv'
    BY <2>1, TypeNext, CpuNext, LockNext, PlaceNext, SoftNext, ReaperNext DEF IInv
  <2> QED BY <2>1, StutterInv
<1> QED BY <1>1, <1>2, PTL DEF Spec

\* Two CPUs never run on one stack, nor any on a stack the reaper freed, in
\* whatever order preemption, waits, resumes and exits meet (sched.c).
THEOREM OneStackEach == Spec => []StacksAreSafe
<1>1. IInv => StacksAreSafe
  <2> SUFFICES ASSUME IInv PROVE StacksAreSafe
    OBVIOUS
  <2> USE SchedAssumption DEF IInv
  <2>c. \A c \in Cpus : CpuOK(c) /\ cpc[c] \in CPCs
    BY DEF CpuState, TypeOK
  <2>1. ASSUME NEW c \in Cpus, NEW d \in Cpus, c # d, cpc[c] = "fin"
        PROVE  prev[c] # current[d] /\ (cpc[d] = "fin" => prev[c] # prev[d])
    <3>1. nxt[d] \in Threads => status[nxt[d]] = "SWITCHING"
      BY DEF PlaceState
    <3>2. /\ prev[c] \in Threads \cup {c} /\ tlock[prev[c]] = c
          /\ prev[c] # c => status[prev[c]] \in IF switching[prev[c]] THEN Preempted
                                                ELSE {"WAITING", "TERMINATING"}
      BY <2>c, <2>1 DEF CpuOK, NobodyIn, NobodyOut
    <3>3. prev[c] = prev[d] => tlock[prev[c]] = d
      BY <2>c, <2>1, <3>2 DEF CpuOK
    <3>4. prev[c] # current[d]
      <4> SUFFICES ASSUME prev[c] = current[d] PROVE FALSE
        OBVIOUS
      <4>1. prev[c] \in Threads /\ prev[c] # c /\ prev[c] # d
        BY <2>c, <2>1, <3>2 DEF CpuOK
      <4>2. CASE cpc[d] \in {"fin", "fin2"}
        BY <2>c, <3>1, <3>2, <4>1, <4>2 DEF CpuOK, Preempted
      <4>3. CASE cpc[d] \notin {"fin", "fin2"}
        BY <2>c, <2>1, <3>2, <4>1, <4>3 DEF CpuOK, Preempted, CPCs, NobodyOut, NobodyIn
      <4> QED BY <4>2, <4>3
    <3> QED BY <2>1, <3>2, <3>3, <3>4
  <2>2. ASSUME NEW c \in Cpus, NEW d \in Cpus, c # d
        PROVE  Stacks(c) \cap Stacks(d) = {}
    BY <2>1, <2>2 DEF Stacks, LockState
  <2>3. ASSUME NEW c \in Cpus, NEW t \in freed
        PROVE  t \notin Stacks(c)
    <3>1. t \in Threads /\ status[t] = "TERMINATING" /\ tlock[t] = NULL
      BY DEF TypeOK, ReaperState
    <3> QED BY <3>1, TerminatedIsOff DEF Stacks
  <2> QED BY <2>2, <2>3 DEF StacksAreSafe
<1> QED BY <1>1, Invariant, PTL

\* A place that holds a thread at most once is counted.
LEMMA CountPlace ==
  ASSUME NEW A, \A x, y \in A : x = y
  PROVE  Cardinality(A) = IF A = {} THEN 0 ELSE 1
<1>1. CASE A = {}
  BY <1>1, FS_EmptySet
<1>2. CASE A # {}
  <2>1. \E x : A = {x}
    BY <1>2
  <2> QED BY <1>2, <2>1, FS_Singleton
<1> QED BY <1>1, <1>2

\* No thread is lost, queued twice or selected without a soft interrupt: its
\* status tells the one place it is in (sched_insert, select_next, swtch).
THEOREM NoThreadLost == Spec => []QueuesAreExact
<1>1. IInv => QueuesAreExact
  <2> SUFFICES ASSUME IInv PROVE OnePlace
    BY DEF QueuesAreExact, IInv
  <2> USE DEF IInv
  <2>1. ASSUME NEW c \in Cpus
        PROVE  IsInjective(Queued(c)) /\ ToSet(Queued(c)) = OnQueue(sched[c])
    <3> DEFINE p == sched[c].current_rq
               q == sched[c].next_rq
               r == sched[c].idle_rq
    <3>0. sched[c] \in SchedType
      BY DEF TypeOK, SchedType
    <3>1. /\ p \in Seq(Threads) /\ q \in Seq(Threads) /\ r \in Seq(Threads)
          /\ IsInjective(p) /\ IsInjective(q) /\ IsInjective(r)
          /\ ToSet(p) \cap ToSet(q) = {} /\ (ToSet(p) \cup ToSet(q)) \cap ToSet(r) = {}
      BY <3>0 DEF SchedType, PlaceState, QueuesOK
    <3> DEFINE v == p \o q
               u == v \o r
    <3>2. Queued(c) = u /\ OnQueue(sched[c]) = (ToSet(p) \cup ToSet(q)) \cup ToSet(r)
      BY DEF Queued, OnQueue
    <3> HIDE DEF p, q, r
    <3>3. v \in Seq(Threads) /\ IsInjective(v) /\ ToSet(v) = ToSet(p) \cup ToSet(q)
      BY <3>1, ConcatProps
    <3> HIDE DEF v
    <3>4. /\ IsInjective(u)
          /\ ToSet(u) = (ToSet(p) \cup ToSet(q)) \cup ToSet(r)
      BY <3>1, <3>3, ConcatProps
    <3> HIDE DEF u
    <3> QED BY <3>2, <3>4
  <2>2. ASSUME NEW t \in Threads
        PROVE  LET onq == {c \in Cpus : t \in ToSet(Queued(c))}
                   asnext == {c \in Cpus : sched[c].next = t}
                   incoming == {c \in Cpus : nxt[c] = t}
               IN  /\ Cardinality(onq) = IF status[t] = "READY" THEN 1 ELSE 0
                   /\ Cardinality(asnext) = IF status[t] = "NEXT" THEN 1 ELSE 0
                   /\ Cardinality(incoming) = IF status[t] = "SWITCHING" THEN 1 ELSE 0
                   /\ status[t] = "RUNNING" => \E c \in Cpus : current[c] = t
    <3> DEFINE onq == {c \in Cpus : t \in ToSet(Queued(c))}
               asnext == {c \in Cpus : sched[c].next = t}
               incoming == {c \in Cpus : nxt[c] = t}
    <3>1. /\ \A x, y \in onq : x = y
          /\ onq = {} <=> status[t] # "READY"
      BY <2>1 DEF PlaceState
    <3>2. /\ \A x, y \in asnext : x = y
          /\ asnext = {} <=> status[t] # "NEXT"
      BY DEF PlaceState
    <3>3. /\ \A x, y \in incoming : x = y
          /\ incoming = {} <=> status[t] # "SWITCHING"
      BY DEF PlaceState
    <3>4. status[t] = "RUNNING" => \E c \in Cpus : current[c] = t
      BY DEF PlaceState
    <3> HIDE DEF onq, asnext, incoming
    <3>5. /\ Cardinality(onq) = IF onq = {} THEN 0 ELSE 1
          /\ Cardinality(asnext) = IF asnext = {} THEN 0 ELSE 1
          /\ Cardinality(incoming) = IF incoming = {} THEN 0 ELSE 1
      BY <3>1, <3>2, <3>3, CountPlace
    <3> QED BY <3>1, <3>2, <3>3, <3>4, <3>5 DEF onq, asnext, incoming
  <2> QED BY <2>1, <2>2 DEF OnePlace
<1> QED BY <1>1, Invariant, PTL

\* What the reaper frees has terminated: the assertion of kthread_destroy.
THEOREM ReapsTerminated == Spec => []ReapedIsTerminated
<1>1. IInv => ReapedIsTerminated
  <2> SUFFICES ASSUME IInv, NEW t \in Threads,
                      t \in freed \/ (t = victim /\ tlock[t] = NULL)
               PROVE  status[t] = "TERMINATING"
    BY DEF ReapedIsTerminated
  <2>1. CASE t \in freed
    BY <2>1 DEF IInv, ReaperState
  <2>2. CASE t = victim /\ tlock[t] = NULL
    <3>1. \A c \in Cpus : current[c] = t => cpc[c] \notin {"exit", "terminating"}
      BY <2>2, SchedAssumption DEF IInv, CpuState, CpuOK
    <3> QED BY <2>2, <3>1 DEF IInv, ReaperState
  <2> QED BY <2>1, <2>2
<1> QED BY <1>1, Invariant, PTL
=============================================================================
