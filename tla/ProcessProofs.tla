---------------------------- MODULE ProcessProofs ----------------------------
(***************************************************************************)
(* The process tree, for every number of processes.  That child lists,     *)
(* parent pointers and the pid table agree is not inductive: it depends on *)
(* what fork, waitpid and process_destroy hold in their locals while a     *)
(* process is in no list (Calls), on where every process is (Lists,        *)
(* Placed), and that a parent does not miss a zombie on what the scan of   *)
(* waitpid has left behind (Noticed).                                      *)
(* Then sessions and process groups (JobCtl), which need what a fork has   *)
(* read and not yet used (JobProcs) and that a group keeps its session.    *)
(***************************************************************************)
EXTENDS Process, JobCtl, KernelLemmas

\* Points of fork and of waitpid at which subject names a process.
ForkPCs == {"link", "start"}
ReapPCs == {"destroy", "adopt", "free"}

InNoList(c) == \A p \in Procs : c \notin children[p]

\* Pids are given out in order; what runs is alive and can be looked up, and
\* init always runs.
Life ==
  /\ \A p \in Procs : state[p] = "UNBORN" <=> p >= next_pid
  /\ \A p \in Procs : pc[p] # "none" => state[p] = "ALIVE" /\ p \in pid_table
  /\ \A p \in pid_table : Exists(p)
  /\ pc[Init1] \notin {"none", "exited"}

\* The process that fork makes, the zombie that waitpid reaps, and the orphan
\* that is handed to init.
Forks(p) == LET c == subject[p] IN
  /\ c \in Procs \ {Init1} /\ state[c] = "ALIVE" /\ pc[c] = "none"
  /\ parent[c] = p /\ c \in pid_table
  /\ IF pc[p] = "link" THEN InNoList(c) ELSE c \in children[p]

ReapsChild(p) == LET c == subject[p] IN
  /\ c \in Procs \ {Init1} /\ state[c] = "ZOMBIE"
  /\ parent[c] = p /\ InNoList(c)
  /\ IF pc[p] = "free" THEN c \notin pid_table /\ children[c] = {} ELSE c \in pid_table

Adopts(p) == \A d \in todo[p] :
  /\ d # Init1 /\ Exists(d) /\ parent[d] = Init1 /\ InNoList(d) /\ d \in pid_table
  /\ \A q \in Procs :
       /\ pc[q] \in ForkPCs \cup ReapPCs => subject[q] # d
       /\ pc[q] = "adopt" /\ d \in todo[q] => q = p

CallOK(p) ==
  /\ pc[p] \in ForkPCs => Forks(p)
  /\ pc[p] \in ReapPCs => ReapsChild(p)
  /\ pc[p] = "adopt" => Adopts(p)
  /\ pc[p] = "scan" => todo[p] \subseteq children[p]
  /\ pc[p] \in {"scan"} \cup ReapPCs => owner[p] = p

Calls == \A p \in Procs : CallOK(p)

\* What is in a child list has its parent pointer lead back.
Lists ==
  \A p \in Procs : \A c \in children[p] :
    c # Init1 /\ parent[c] = p /\ Exists(c) /\ c \in pid_table

\* Where a process is, and that its parent exists.
Placed ==
  \A c \in Procs \ {Init1} : Exists(c) =>
    /\ parent[c] \in Procs /\ Exists(parent[c])
    /\ \/ c \in children[parent[c]]
       \/ \E p \in Procs :
            \/ pc[p] = "link" /\ subject[p] = c
            \/ pc[p] = "adopt" /\ c \in todo[p]
            \/ pc[p] \in ReapPCs /\ subject[p] = c

\* Signals are fewer than deaths.
Dead == {c \in Procs : state[c] \in {"ZOMBIE", "FREED"}}
Counted == \A p \in Procs : sem[p] <= Cardinality(Dead)

\* A zombie that the scan has passed left a signal; a blocked parent has none.
Noticed ==
  \A p \in Procs \ {Init1} : \A c \in children[p] :
    want[p] \in {ANY, c} /\ state[c] = "ZOMBIE" =>
      /\ pc[p] = "scan" /\ c \notin todo[p] => sem[p] > 0
      /\ pc[p] = "wait" => sem[p] > 0
      /\ pc[p] # "blocked"

IInv == ProcessTypeOK /\ Life /\ Calls /\ Lists /\ Placed /\ Counted /\ Noticed
-----------------------------------------------------------------------------
(* The names of processes, and the steps. *)

\* Pids are numbers from 1, so that neither NONE nor ANY is one.
LEMMA ProcsProps == Init1 \in Procs /\ NONE \notin Procs /\ ANY \notin Procs
BY ProcessAssumption DEF Procs, Init1, NONE, ANY

\* Pids are numbers, and MaxPid many.
LEMMA PidsProps ==
  Procs \subseteq Nat /\ IsFiniteSet(Procs) /\ Cardinality(Procs) = MaxPid
BY FS_Interval, ProcessAssumption DEF Procs

\* The next pid but one is in range, and it is not init's.
LEMMA NextPid ==
  ASSUME NEW n \in 2..MaxPid + 1, n \in Procs
  PROVE  n + 1 \in 2..MaxPid + 1 /\ n # Init1
BY ProcessAssumption DEF Procs, Init1

\* A set of processes has at most MaxPid elements.
LEMMA CountProcs ==
  ASSUME NEW S \in SUBSET Procs
  PROVE  Cardinality(S) \in 0..MaxPid
<1>1. IsFiniteSet(S) /\ Cardinality(S) <= Cardinality(Procs)
  BY PidsProps, FS_Subset
<1>2. Cardinality(S) \in Nat
  BY <1>1, FS_CardinalityType
<1> QED BY <1>1, <1>2, PidsProps, ProcessAssumption

\* The steps that concern the locals of one system call only.
LocalStep(p) ==
  \/ exit(p) \/ LockChildren(p) \/ ScanEnd(p) \/ WaitSemaphore(p)
  \/ \E pid \in children[p] \cup {ANY}, flag \in BOOLEAN : waitpid(p, pid, flag)
  \/ \E c \in Procs : ScanAlive(p, c)

\* Every step is one of these.
LEMMA NextCases ==
  ASSUME ProcessNext
  PROVE  \E p \in Procs :
           \/ uprocess_init(p) \/ LinkChild(p) \/ StartChild(p)
           \/ kthread_destroy_last(p) \/ LocalStep(p) \/ Adopt(p) \/ RemovePid(p) \/ FreeZombie(p)
           \/ \E c \in Procs : reap_zombie(p, c) \/ Orphan(p, c)
BY DEF ProcessNext, SyscallStep, LocalStep
-----------------------------------------------------------------------------
(* Signals and deaths. *)

\* A death adds one signal at most.
LEMMA CountedNext ==
  ASSUME IInv, ProcessNext
  PROVE  /\ Counted'
         /\ \A p \in Procs : sem'[p] \in 0..MaxPid
<1> USE ProcsProps DEF IInv
<1>0. PICK p \in Procs :
        \/ uprocess_init(p) \/ LinkChild(p) \/ StartChild(p)
        \/ kthread_destroy_last(p) \/ LocalStep(p) \/ Adopt(p) \/ RemovePid(p) \/ FreeZombie(p)
        \/ \E c \in Procs : reap_zombie(p, c) \/ Orphan(p, c)
  BY NextCases
<1>t. /\ sem \in [Procs -> 0..MaxPid] /\ MaxPid \in Nat
      /\ state \in [Procs -> {"UNBORN", "ALIVE", "ZOMBIE", "FREED"}]
      /\ \A q \in Procs : sem[q] \in Nat /\ sem[q] <= Cardinality(Dead)
  BY ProcessAssumption DEF ProcessTypeOK, Counted
<1>d. Cardinality(Dead) \in 0..MaxPid /\ Cardinality(Dead)' \in 0..MaxPid
  <2>1. Dead \in SUBSET Procs /\ Dead' \in SUBSET Procs
    BY DEF Dead
  <2> QED BY <2>1, CountProcs
<1>1. CASE kthread_destroy_last(p)
  <2>1. state[p] = "ALIVE"
    BY <1>1 DEF kthread_destroy_last, Life
  <2>2. \A u \in Procs : u # p => (u \in Dead <=> u \in Dead')
    BY <1>1, <1>t DEF kthread_destroy_last, Dead
  <2>3. p \notin Dead /\ p \in Dead'
    BY <1>1, <1>t, <2>1 DEF kthread_destroy_last, Dead
  <2>4. Dead \in SUBSET Procs /\ Dead' \in SUBSET Procs
    BY DEF Dead
  <2> HIDE DEF Dead
  <2>5. Cardinality(Dead') = Cardinality(Dead) + 1
    <3>0. IsFiniteSet(Procs)
      BY PidsProps
    <3>1. /\ Cardinality(Dead) \in Nat /\ Cardinality(Dead') \in Nat
          /\ Cardinality(Dead') = Cardinality(Dead) + (IF p \in Dead' THEN 1 ELSE 0)
                                                    - (IF p \in Dead THEN 1 ELSE 0)
      BY <2>2, <2>4, <3>0, CountStep
    <3> QED BY <2>3, <3>1
  <2>6. \A q \in Procs : sem'[q] = sem[q] \/ sem'[q] = sem[q] + 1
    BY <1>1, <1>t DEF kthread_destroy_last, SignalParent
  <2> QED BY <1>t, <1>d, <2>5, <2>6 DEF Counted
<1>2. CASE ~kthread_destroy_last(p)
  <2>1. \A q \in Procs : sem'[q] = sem[q] \/ (sem[q] > 0 /\ sem'[q] = sem[q] - 1)
    BY <1>0, <1>2, <1>t DEF uprocess_init, LinkChild, StartChild, LocalStep, Adopt,
       RemovePid, FreeZombie, reap_zombie, Orphan, exit, LockChildren, ScanEnd,
       WaitSemaphore, waitpid, ScanAlive
  <2>2. Dead' = Dead
    <3>1. CASE uprocess_init(p)
      <4>1. next_pid \in Procs /\ state[next_pid] = "UNBORN"
        BY <3>1, <1>t, PidsProps DEF uprocess_init, Life
      <4> QED BY <3>1, <4>1, <1>t DEF uprocess_init, Dead
    <3>2. CASE FreeZombie(p)
      <4>1. state[subject[p]] = "ZOMBIE" /\ subject[p] \in Procs
        BY <3>2 DEF FreeZombie, Calls, CallOK, ReapsChild, ReapPCs
      <4> QED BY <3>2, <4>1, <1>t DEF FreeZombie, Dead
    <3>3. CASE ~uprocess_init(p) /\ ~FreeZombie(p)
      <4>1. state' = state
        BY <1>0, <1>2, <3>3 DEF LinkChild, StartChild, LocalStep, Adopt,
           RemovePid, reap_zombie, Orphan, exit, LockChildren, ScanEnd,
           WaitSemaphore, waitpid, ScanAlive, treeVars
      <4> QED BY <4>1 DEF Dead
    <3> QED BY <3>1, <3>2, <3>3
  <2> QED BY <1>t, <1>d, <2>1, <2>2 DEF Counted
<1> QED BY <1>1, <1>2
-----------------------------------------------------------------------------
(* Types. *)

\* Types are kept; the bound on semaphores is CountedNext.
LEMMA TypeNext ==
  ASSUME IInv, ProcessNext
  PROVE  ProcessTypeOK'
<1> USE ProcsProps DEF IInv
<1>0. PICK p \in Procs :
        \/ uprocess_init(p) \/ LinkChild(p) \/ StartChild(p)
        \/ kthread_destroy_last(p) \/ LocalStep(p) \/ Adopt(p) \/ RemovePid(p) \/ FreeZombie(p)
        \/ \E c \in Procs : reap_zombie(p, c) \/ Orphan(p, c)
  BY NextCases
<1>s. \A q \in Procs : sem'[q] \in 0..MaxPid
  BY CountedNext
<1> USE DEF PCs, treeVars, callVars
<1>1. CASE uprocess_init(p)
  <2>1. next_pid \in 2..MaxPid + 1 /\ next_pid \in Procs
    BY <1>1 DEF ProcessTypeOK, uprocess_init
  <2>2. next_pid + 1 \in 2..MaxPid + 1
    BY <2>1, NextPid
  <2> QED BY <1>1, <2>1, <2>2 DEF ProcessTypeOK, uprocess_init, Enter
<1>2. CASE LinkChild(p) \/ StartChild(p)
  <2>1. pc[p] \in ForkPCs
    BY <1>2 DEF LinkChild, StartChild, ForkPCs
  <2>2. subject[p] \in Procs
    BY <2>1 DEF Calls, CallOK, Forks
  <2> QED BY <1>2, <2>2 DEF ProcessTypeOK, LinkChild, StartChild, Enter
<1>3. CASE kthread_destroy_last(p)
  <2>1. sem' \in [Procs -> 0..MaxPid]
    BY <1>s, <1>3 DEF ProcessTypeOK, kthread_destroy_last, SignalParent
  <2>2. pc' \in [Procs -> PCs] /\ state' \in [Procs -> {"UNBORN", "ALIVE", "ZOMBIE", "FREED"}]
    BY <1>3 DEF ProcessTypeOK, kthread_destroy_last, SignalParent
  <2> QED BY <1>3, <2>1, <2>2 DEF ProcessTypeOK, kthread_destroy_last
<1>4. CASE exit(p)
  BY <1>4 DEF ProcessTypeOK, exit, Enter
<1>5. CASE LockChildren(p)
  BY <1>5 DEF ProcessTypeOK, LockChildren, Enter
<1>6. CASE ScanEnd(p)
  BY ZenonT(40), <1>6 DEF ProcessTypeOK, ScanEnd, Enter, Return
<1>7. CASE WaitSemaphore(p)
  <2>1. sem' \in [Procs -> 0..MaxPid] /\ pc' \in [Procs -> PCs]
    BY <1>s, <1>7 DEF ProcessTypeOK, WaitSemaphore, Enter
  <2> QED BY <1>7, <2>1 DEF ProcessTypeOK, WaitSemaphore
<1>8. CASE \E pid \in children[p] \cup {ANY}, flag \in BOOLEAN : waitpid(p, pid, flag)
  <2>1. PICK pid \in children[p] \cup {ANY}, flag \in BOOLEAN : waitpid(p, pid, flag)
    BY <1>8
  <2>2. pid \in Procs \cup {ANY}
    BY DEF ProcessTypeOK
  <2> QED BY <2>1, <2>2 DEF ProcessTypeOK, waitpid, Enter
<1>9. CASE \E c \in Procs : ScanAlive(p, c)
  BY <1>9 DEF ProcessTypeOK, ScanAlive
<1>10. CASE Adopt(p) \/ RemovePid(p)
  BY <1>10 DEF ProcessTypeOK, Adopt, RemovePid, Enter
<1>11. CASE FreeZombie(p)
  BY <1>11 DEF ProcessTypeOK, FreeZombie, Enter, Return
<1>12. CASE \E c \in Procs : reap_zombie(p, c) \/ Orphan(p, c)
  <2>1. CASE \E c \in Procs : reap_zombie(p, c)
    BY <2>1 DEF ProcessTypeOK, reap_zombie, Enter
  <2>2. CASE \E c \in Procs : Orphan(p, c)
    <3>1. PICK d \in Procs : Orphan(p, d)
      BY <2>2
    <3>2. pc[p] \in ReapPCs /\ subject[p] \in Procs
      BY <3>1 DEF Orphan, ReapPCs, Calls, CallOK, ReapsChild
    <3>3. children' \in [Procs -> SUBSET Procs]
      BY <3>1, <3>2 DEF Orphan, ProcessTypeOK
    <3>4. /\ parent' \in [Procs -> Procs \cup {NONE}] /\ todo' \in [Procs -> SUBSET Procs]
          /\ pc' \in [Procs -> PCs]
      BY <3>1 DEF Orphan, ProcessTypeOK, Enter
    <3> QED BY <3>1, <3>3, <3>4 DEF ProcessTypeOK, Orphan
  <2> QED BY <1>12, <2>1, <2>2
<1> QED BY <1>0, <1>1, <1>2, <1>3, <1>4, <1>5, <1>6, <1>7, <1>8, <1>9, <1>10,
           <1>11, <1>12 DEF LocalStep
-----------------------------------------------------------------------------
(* What fork, waitpid and process_destroy hold. *)

\* What the proofs read off the invariant: who is a child, and whom a system
\* call holds, are never the same process twice.
LEMMA Facts ==
  ASSUME IInv
  PROVE  /\ \A p, q \in Procs : \A c \in children[p] : c \in children[q] => p = q
         /\ \A p, q \in Procs :
              pc[p] \in ForkPCs \cup ReapPCs /\ pc[q] \in ForkPCs \cup ReapPCs
              /\ subject[p] = subject[q] => p = q
         /\ \A p \in Procs : pc[p] \in ForkPCs \cup ReapPCs =>
              subject[p] \in Procs \ {Init1} /\ pc[subject[p]] = "none"
         /\ \A p \in Procs : pc[p] \in ReapPCs => state[subject[p]] = "ZOMBIE"
         /\ \A p \in Procs : pc[p] # "none" => state[p] = "ALIVE"
         /\ \A p, c \in Procs : c \in children[p] => Exists(c)
<1> USE DEF IInv
<1>1. \A p \in Procs : pc[p] \in ForkPCs => Forks(p)
  BY DEF Calls, CallOK
<1>2. \A p \in Procs : pc[p] \in ReapPCs => ReapsChild(p)
  BY DEF Calls, CallOK
<1>3. \A p \in Procs : pc[p] \in ForkPCs \cup ReapPCs =>
        /\ subject[p] \in Procs \ {Init1} /\ pc[subject[p]] = "none"
        /\ parent[subject[p]] = p
  BY <1>1, <1>2 DEF Forks, ReapsChild, Life
<1> QED BY <1>2, <1>3 DEF Lists, Life, ReapsChild

\* No step of another process takes away what a system call holds.
LEMMA CallsNext ==
  ASSUME IInv, ProcessNext
  PROVE  Calls'
<1> USE ProcsProps DEF IInv
<1>0. PICK p \in Procs :
        \/ uprocess_init(p) \/ LinkChild(p) \/ StartChild(p)
        \/ kthread_destroy_last(p) \/ LocalStep(p) \/ Adopt(p) \/ RemovePid(p) \/ FreeZombie(p)
        \/ \E c \in Procs : reap_zombie(p, c) \/ Orphan(p, c)
  BY NextCases
<1>t. /\ state \in [Procs -> {"UNBORN", "ALIVE", "ZOMBIE", "FREED"}]
      /\ parent \in [Procs -> Procs \cup {NONE}] /\ children \in [Procs -> SUBSET Procs]
      /\ owner \in [Procs -> Procs \cup {NONE}] /\ pc \in [Procs -> PCs]
      /\ todo \in [Procs -> SUBSET Procs] /\ subject \in [Procs -> Procs \cup {NONE}]
  BY DEF ProcessTypeOK
<1>c. \A q \in Procs : CallOK(q)
  BY DEF Calls
<1>f. /\ \A q, r \in Procs : \A c \in children[q] : c \in children[r] => q = r
      /\ \A q, r \in Procs :
           pc[q] \in ForkPCs \cup ReapPCs /\ pc[r] \in ForkPCs \cup ReapPCs
           /\ subject[q] = subject[r] => q = r
      /\ \A q \in Procs : pc[q] \in ForkPCs \cup ReapPCs =>
           subject[q] \in Procs \ {Init1} /\ pc[subject[q]] = "none"
      /\ \A q \in Procs : pc[q] \in ReapPCs => state[subject[q]] = "ZOMBIE"
      /\ \A q \in Procs : pc[q] # "none" => state[q] = "ALIVE"
      /\ \A q, c \in Procs : c \in children[q] => Exists(c)
  BY Facts
<1> SUFFICES ASSUME NEW q \in Procs PROVE CallOK(q)'
  BY DEF Calls
<1> USE DEF ForkPCs, ReapPCs, CallOK
<1>1. CASE uprocess_init(p)
  <2> DEFINE n == next_pid
  <2>1. /\ n \in Procs /\ state[n] = "UNBORN" /\ n # Init1 /\ pc[p] = "user"
        /\ pc[n] = "none" /\ InNoList(n) /\ n # p
    BY <1>1, <1>f DEF uprocess_init, Life, ProcessTypeOK, InNoList, Exists
  <2>2. /\ state' = [state EXCEPT ![n] = "ALIVE"] /\ parent' = [parent EXCEPT ![n] = p]
        /\ pid_table' = pid_table \cup {n} /\ subject' = [subject EXCEPT ![p] = n]
        /\ pc' = [pc EXCEPT ![p] = "link"]
        /\ UNCHANGED <<children, owner, todo>>
    BY <1>1 DEF uprocess_init, Enter
  <2> HIDE DEF n
  <2>3. CASE q = p
    BY <1>t, <2>1, <2>2, <2>3 DEF Forks, InNoList
  <2>4. CASE q # p
    BY <1>c, <1>t, <2>1, <2>2, <2>4 DEF Forks, ReapsChild, Adopts, InNoList, Exists
  <2> QED BY <2>3, <2>4
<1>2. CASE LinkChild(p)
  <2> DEFINE c == subject[p]
  <2>1. /\ pc[p] = "link" /\ c \in Procs /\ state[p] = "ALIVE"
        /\ children' = [children EXCEPT ![p] = @ \cup {c}] /\ pc' = [pc EXCEPT ![p] = "start"]
        /\ UNCHANGED <<state, parent, pid_table, owner, todo, subject>>
    BY <1>2, <1>f DEF LinkChild, Enter, callVars
  <2>2. CASE q = p
    BY <1>c, <1>t, <2>1, <2>2 DEF Forks
  <2>3. CASE q # p
    BY <1>c, <1>t, <1>f, <2>1, <2>3 DEF Forks, ReapsChild, Adopts, InNoList, Exists
  <2> QED BY <2>2, <2>3
<1>3. CASE StartChild(p)
  <2> DEFINE c == subject[p]
  <2>1. /\ pc[p] = "start" /\ c \in Procs /\ pc[c] = "none" /\ c # p
        /\ pc' = [pc EXCEPT ![p] = "user", ![c] = "user"]
        /\ subject' = [subject EXCEPT ![p] = NONE]
        /\ UNCHANGED <<state, parent, children, pid_table, owner, todo>>
    BY <1>3, <1>f DEF StartChild, treeVars
  <2>2. CASE q \in {p, c}
    BY <1>t, <2>1, <2>2
  <2>3. CASE q \notin {p, c}
    BY <1>c, <1>t, <1>f, <2>1, <2>3 DEF Forks, ReapsChild, Adopts, InNoList, Exists
  <2> QED BY <2>2, <2>3
<1>4. CASE kthread_destroy_last(p)
  <2>1. /\ pc[p] = "exited" /\ state' = [state EXCEPT ![p] = "ZOMBIE"]
        /\ \A r \in Procs : pc'[r] = IF r = p THEN "none" ELSE IF r = parent[p] /\ pc[r] = "blocked"
                                     THEN "lock" ELSE pc[r]
        /\ UNCHANGED <<parent, children, pid_table, owner, todo, subject>>
    <3>1. pc[p] = "exited" /\ state[p] = "ALIVE" /\ p # Init1
      BY <1>4, <1>f DEF kthread_destroy_last, Life
    <3>2. parent[p] \in Procs
      BY <3>1 DEF Placed, Exists
    <3> QED BY <1>4, <1>t, <3>1, <3>2 DEF kthread_destroy_last, SignalParent, callVars
  <2> QED BY <1>c, <1>t, <1>f, <2>1 DEF Forks, ReapsChild, Adopts, InNoList, Exists
<1>5. CASE LocalStep(p)
  <2>1. /\ pc[p] # "none" /\ UNCHANGED <<state, parent, children, pid_table, subject>>
        /\ pc'[p] \notin {"none"} \cup ForkPCs \cup ReapPCs
        /\ pc[p] \notin ForkPCs \cup ReapPCs
        /\ \A r \in Procs : r # p => pc'[r] = pc[r] /\ owner'[r] = owner[r] /\ todo'[r] = todo[r]
        /\ pc'[p] = "scan" => owner'[p] = p /\ todo'[p] \subseteq children[p]
    BY <1>5, <1>t, <1>c DEF LocalStep, exit, LockChildren, ScanEnd, WaitSemaphore, waitpid,
       ScanAlive, Return, Enter, treeVars, callVars
  <2>2. CASE q = p
    BY <2>1, <2>2
  <2>3. CASE q # p
    BY <1>c, <1>t, <1>f, <2>1, <2>3 DEF Forks, ReapsChild, Adopts, InNoList, Exists
  <2> QED BY <2>2, <2>3
<1>6. CASE Adopt(p)
  <2>1. /\ pc[p] = "adopt" /\ pc' = [pc EXCEPT ![p] = "destroy"]
        /\ children' = [children EXCEPT ![Init1] = @ \cup todo[p]]
        /\ todo' = [todo EXCEPT ![p] = {}]
        /\ UNCHANGED <<state, parent, pid_table, owner, subject>>
    BY <1>6 DEF Adopt, Enter
  <2>2. \A d \in todo[p] : \A r \in Procs :
          /\ pc[r] \in ForkPCs \cup ReapPCs => subject[r] # d
          /\ pc[r] = "adopt" /\ d \in todo[r] => r = p
    BY <1>c, <2>1 DEF Adopts
  <2>3. \A c \in Procs : c \notin todo[p] => (InNoList(c) => InNoList(c)')
    BY <1>t, <2>1 DEF InNoList
  <2>4. \A c \in Procs \ {Init1} : children'[c] = children[c]
    BY <1>t, <2>1
  <2>5. \A r \in Procs : children[r] \subseteq children'[r]
    BY <1>t, <2>1
  <2>6. CASE q = p
    BY <1>c, <1>t, <1>f, <2>1, <2>2, <2>3, <2>4, <2>6 DEF ReapsChild
  <2>7. CASE q # p
    BY <1>c, <1>t, <1>f, <2>1, <2>2, <2>3, <2>4, <2>5, <2>7
       DEF Forks, ReapsChild, Adopts, Exists
  <2> QED BY <2>6, <2>7
<1>7. CASE RemovePid(p)
  <2>1. /\ pc[p] = "destroy" /\ pc' = [pc EXCEPT ![p] = "free"] /\ children[subject[p]] = {}
        /\ pid_table' = pid_table \ {subject[p]}
        /\ UNCHANGED <<state, parent, children, owner, subject, todo>>
    BY <1>7 DEF RemovePid, Enter, callVars
  <2>2. CASE q = p
    BY <1>c, <1>t, <2>1, <2>2 DEF ReapsChild, InNoList
  <2>3. CASE q # p
    BY <1>c, <1>t, <1>f, <2>1, <2>3 DEF Forks, ReapsChild, Adopts, InNoList, Exists
  <2> QED BY <2>2, <2>3
<1>8. CASE FreeZombie(p)
  <2>1. /\ pc[p] = "free" /\ pc' = [pc EXCEPT ![p] = "user"]
        /\ state' = [state EXCEPT ![subject[p]] = "FREED"]
        /\ owner' = [owner EXCEPT ![p] = NONE] /\ subject' = [subject EXCEPT ![p] = NONE]
        /\ UNCHANGED <<parent, children, pid_table, todo>>
    BY <1>8 DEF FreeZombie, Return, Enter
  <2>2. CASE q = p
    BY <1>t, <2>1, <2>2
  <2>3. CASE q # p
    BY <1>c, <1>t, <1>f, <2>1, <2>3 DEF Forks, ReapsChild, Adopts, InNoList, Exists
  <2> QED BY <2>2, <2>3
<1>9. CASE \E c \in Procs : reap_zombie(p, c)
  <2>0. PICK c \in Procs : reap_zombie(p, c)
    BY <1>9
  <2>1. /\ pc[p] = "scan" /\ c \in todo[p] /\ state[c] = "ZOMBIE" /\ pc' = [pc EXCEPT ![p] = "destroy"]
        /\ children' = [children EXCEPT ![p] = @ \ {c}] /\ todo' = [todo EXCEPT ![p] = {}]
        /\ subject' = [subject EXCEPT ![p] = c]
        /\ UNCHANGED <<state, parent, pid_table, owner>>
    BY <2>0 DEF reap_zombie, Enter
  <2>2. c \in children[p] /\ c # Init1 /\ parent[c] = p /\ c \in pid_table /\ owner[p] = p
    BY <1>c, <2>1 DEF Lists
  <2>3. CASE q = p
    BY <1>t, <1>f, <2>1, <2>2, <2>3 DEF ReapsChild, InNoList
  <2>4. CASE q # p
    <3>1. \A d \in Procs : InNoList(d) => d # c /\ InNoList(d)'
      BY <1>t, <2>1, <2>2 DEF InNoList
    <3>2. /\ children'[q] = children[q]
          /\ \A d \in Procs : children[d] = {} => children'[d] = {}
      BY <1>t, <2>1, <2>4
    <3> QED BY <1>c, <1>t, <1>f, <2>1, <2>4, <3>1, <3>2 DEF Forks, ReapsChild, Adopts, Exists
  <2> QED BY <2>3, <2>4
<1>10. CASE \E d \in Procs : Orphan(p, d)
  <2>0. PICK d \in Procs : Orphan(p, d)
    BY <1>10
  <2> DEFINE c == subject[p]
  <2>1. /\ pc[p] = "destroy" /\ d \in children[c] /\ pc' = [pc EXCEPT ![p] = "adopt"]
        /\ children' = [children EXCEPT ![c] = @ \ {d}]
        /\ parent' = [parent EXCEPT ![d] = Init1] /\ todo' = [todo EXCEPT ![p] = {d}]
        /\ UNCHANGED <<state, pid_table, owner, subject>>
    BY <2>0 DEF Orphan, Enter
  <2>2. /\ c \in Procs /\ pc[c] = "none" /\ d # Init1 /\ Exists(d) /\ d \in pid_table
        /\ parent[d] = c
    BY <1>f, <2>1 DEF Lists
  <2>3. \A x \in Procs : InNoList(x) => x # d /\ InNoList(x)'
    BY <1>t, <2>1, <2>2 DEF InNoList
  <2>4. InNoList(d)'
    BY <1>t, <1>f, <2>1, <2>2 DEF InNoList
  <2>5. \A r \in Procs : pc[r] \in ForkPCs \cup ReapPCs => subject[r] # d
    <3> SUFFICES ASSUME NEW r \in Procs, pc[r] \in ForkPCs \cup ReapPCs, subject[r] = d
                 PROVE  FALSE
      OBVIOUS
    <3>1. parent[d] = r
      BY <1>c DEF Forks, ReapsChild
    <3> QED BY <2>2, <3>1
  <2>6. \A r \in Procs : /\ pc[r] # "none" => children'[r] = children[r]
                         /\ children[r] = {} => children'[r] = {}
    BY <1>t, <2>1, <2>2
  <2>7. CASE q = p
    <3>1. Adopts(p)'
      BY <1>c, <1>t, <2>1, <2>2, <2>3, <2>4, <2>5 DEF Adopts, Exists
    <3>2. ReapsChild(p)'
      BY <1>c, <1>t, <2>1, <2>2, <2>3, <2>5 DEF ReapsChild
    <3> QED BY <1>c, <1>t, <2>1, <2>7, <3>1, <3>2
  <2>8. CASE q # p
    BY <1>c, <1>t, <1>f, <2>1, <2>3, <2>5, <2>6, <2>8 DEF Forks, ReapsChild, Adopts, Exists
  <2> QED BY <2>7, <2>8
<1> QED BY <1>0, <1>1, <1>2, <1>3, <1>4, <1>5, <1>6, <1>7, <1>8, <1>9, <1>10
-----------------------------------------------------------------------------
(* Who runs. *)

\* Pids stay in order, and only what is alive runs.
LEMMA LifeNext ==
  ASSUME IInv, ProcessNext
  PROVE  Life'
<1> USE ProcsProps DEF IInv
<1>0. PICK p \in Procs :
        \/ uprocess_init(p) \/ LinkChild(p) \/ StartChild(p)
        \/ kthread_destroy_last(p) \/ LocalStep(p) \/ Adopt(p) \/ RemovePid(p) \/ FreeZombie(p)
        \/ \E c \in Procs : reap_zombie(p, c) \/ Orphan(p, c)
  BY NextCases
<1>t. /\ state \in [Procs -> {"UNBORN", "ALIVE", "ZOMBIE", "FREED"}]
      /\ pc \in [Procs -> PCs] /\ next_pid \in Nat /\ pid_table \subseteq Procs
  BY ProcessAssumption DEF ProcessTypeOK
<1>f. /\ \A q \in Procs : pc[q] \in ForkPCs \cup ReapPCs =>
           subject[q] \in Procs \ {Init1} /\ pc[subject[q]] = "none"
      /\ \A q \in Procs : pc[q] \in ForkPCs => Forks(q)
      /\ \A q \in Procs : pc[q] \in ReapPCs => ReapsChild(q)
  BY Facts DEF Calls, CallOK
<1> USE DEF ForkPCs, ReapPCs
<1>1. CASE uprocess_init(p)
  <2>1. /\ next_pid \in Procs /\ next_pid' = next_pid + 1
        /\ state' = [state EXCEPT ![next_pid] = "ALIVE"]
        /\ pid_table' = pid_table \cup {next_pid} /\ pc' = [pc EXCEPT ![p] = "link"]
    BY <1>1 DEF uprocess_init, Enter
  <2>2. pc[p] = "user"
    BY <1>1 DEF uprocess_init
  <2> QED BY <1>t, <2>1, <2>2 DEF Life, Exists
<1>2. CASE StartChild(p)
  <2>1. /\ subject[p] \in Procs /\ state[subject[p]] = "ALIVE" /\ subject[p] \in pid_table
        /\ pc' = [pc EXCEPT ![p] = "user", ![subject[p]] = "user"] /\ pc[p] # "none"
        /\ UNCHANGED <<state, next_pid, pid_table>>
    BY <1>2, <1>f DEF StartChild, treeVars, Forks
  <2> QED BY <1>t, <2>1 DEF Life, Exists
<1>3. CASE kthread_destroy_last(p)
  <2>1. /\ p # Init1 /\ state[p] = "ALIVE" /\ p < next_pid
        /\ state' = [state EXCEPT ![p] = "ZOMBIE"] /\ UNCHANGED <<next_pid, pid_table>>
    BY <1>3, <1>t, PidsProps DEF kthread_destroy_last, Life
  <2>2. \A q \in Procs : IF q = p THEN pc'[q] = "none"
                         ELSE pc'[q] = pc[q] \/ (pc[q] = "blocked" /\ pc'[q] = "lock")
    <3>1. parent[p] \in Procs
      BY <2>1 DEF Placed, Exists
    <3> QED BY <1>3, <1>t, <3>1 DEF kthread_destroy_last, SignalParent
  <2> QED BY <1>t, <2>1, <2>2 DEF Life, Exists
<1>4. CASE LocalStep(p)
  <2>1. /\ pc[p] # "none" /\ pc'[p] # "none" /\ (p = Init1 => pc'[p] # "exited")
        /\ \A q \in Procs : q # p => pc'[q] = pc[q]
        /\ UNCHANGED <<state, next_pid, pid_table>>
    BY <1>4, <1>t DEF LocalStep, exit, LockChildren, ScanEnd, WaitSemaphore, waitpid,
       ScanAlive, Return, Enter, treeVars, Life
  <2> QED BY <1>t, <2>1 DEF Life, Exists
<1>5. CASE LinkChild(p) \/ Adopt(p) \/ \E c \in Procs : reap_zombie(p, c) \/ Orphan(p, c)
  <2>1. /\ pc[p] # "none" /\ pc'[p] \notin {"none", "exited"}
        /\ \A q \in Procs : q # p => pc'[q] = pc[q]
        /\ UNCHANGED <<state, next_pid, pid_table>>
    BY <1>5, <1>t DEF LinkChild, Adopt, reap_zombie, Orphan, Enter
  <2> QED BY <1>t, <2>1 DEF Life, Exists
<1>6. CASE RemovePid(p)
  <2>1. /\ pc[p] = "destroy" /\ pc' = [pc EXCEPT ![p] = "free"]
        /\ pid_table' = pid_table \ {subject[p]} /\ UNCHANGED <<state, next_pid>>
    BY <1>6 DEF RemovePid, Enter
  <2>2. subject[p] \in Procs /\ pc[subject[p]] = "none"
    BY <1>f, <2>1
  <2> QED BY <1>t, <2>1, <2>2 DEF Life, Exists
<1>7. CASE FreeZombie(p)
  <2>1. /\ pc[p] = "free" /\ pc' = [pc EXCEPT ![p] = "user"]
        /\ state' = [state EXCEPT ![subject[p]] = "FREED"] /\ UNCHANGED <<next_pid, pid_table>>
    BY <1>7 DEF FreeZombie, Return, Enter
  <2>2. /\ subject[p] \in Procs /\ pc[subject[p]] = "none" /\ state[subject[p]] = "ZOMBIE"
        /\ subject[p] \notin pid_table
    BY <1>f, <2>1 DEF ReapsChild
  <2> QED BY <1>t, <2>1, <2>2 DEF Life, Exists
<1> QED BY <1>0, <1>1, <1>2, <1>3, <1>4, <1>5, <1>6, <1>7
-----------------------------------------------------------------------------
(* The child lists. *)

\* What enters a child list has its parent pointer lead back, and keeps it.
LEMMA ListsNext ==
  ASSUME IInv, ProcessNext
  PROVE  Lists'
<1> USE ProcsProps DEF IInv
<1>0. PICK p \in Procs :
        \/ uprocess_init(p) \/ LinkChild(p) \/ StartChild(p)
        \/ kthread_destroy_last(p) \/ LocalStep(p) \/ Adopt(p) \/ RemovePid(p) \/ FreeZombie(p)
        \/ \E c \in Procs : reap_zombie(p, c) \/ Orphan(p, c)
  BY NextCases
<1>t. /\ state \in [Procs -> {"UNBORN", "ALIVE", "ZOMBIE", "FREED"}]
      /\ parent \in [Procs -> Procs \cup {NONE}] /\ children \in [Procs -> SUBSET Procs]
      /\ todo \in [Procs -> SUBSET Procs]
  BY DEF ProcessTypeOK
<1>f. /\ \A q \in Procs : pc[q] \in ForkPCs => Forks(q)
      /\ \A q \in Procs : pc[q] \in ReapPCs => ReapsChild(q)
      /\ \A q \in Procs : pc[q] = "adopt" => Adopts(q)
  BY DEF Calls, CallOK
<1>l. \A q, c \in Procs : c \in children[q] =>
        c # Init1 /\ parent[c] = q /\ Exists(c) /\ c \in pid_table
  BY DEF Lists
<1> SUFFICES ASSUME NEW q \in Procs, NEW c \in Procs, c \in children'[q], ProcessTypeOK'
             PROVE  c # Init1 /\ parent'[c] = q /\ Exists(c)' /\ c \in pid_table'
  BY SMTT(30), TypeNext DEF Lists, ProcessTypeOK
<1> USE DEF ForkPCs, ReapPCs
<1>1. CASE uprocess_init(p)
  <2>1. /\ next_pid \in Procs /\ state[next_pid] = "UNBORN"
        /\ state' = [state EXCEPT ![next_pid] = "ALIVE"]
        /\ parent' = [parent EXCEPT ![next_pid] = p]
        /\ pid_table' = pid_table \cup {next_pid} /\ children' = children
    BY <1>1, <1>t, PidsProps DEF uprocess_init, Life
  <2>2. c \in children[q] /\ c # next_pid
    BY <1>l, <2>1 DEF Exists
  <2> QED BY <1>t, <1>l, <2>1, <2>2 DEF Exists
<1>2. CASE LinkChild(p)
  <2>1. /\ pc[p] = "link" /\ children' = [children EXCEPT ![p] = @ \cup {subject[p]}]
        /\ UNCHANGED <<state, parent, pid_table>>
    BY <1>2 DEF LinkChild
  <2>2. Forks(p)
    BY <1>f, <2>1
  <2> QED BY <1>t, <1>l, <2>1, <2>2 DEF Exists, Forks
<1>3. CASE kthread_destroy_last(p)
  <2>1. /\ state' = [state EXCEPT ![p] = "ZOMBIE"] /\ UNCHANGED <<parent, children, pid_table>>
    BY <1>3 DEF kthread_destroy_last
  <2> QED BY <1>t, <1>l, <2>1 DEF Exists
<1>4. CASE StartChild(p) \/ LocalStep(p)
  <2>1. UNCHANGED <<state, parent, children, pid_table>>
    BY <1>4 DEF StartChild, LocalStep, exit, LockChildren, ScanEnd, WaitSemaphore, waitpid,
       ScanAlive, treeVars
  <2> QED BY <1>l, <2>1 DEF Exists
<1>5. CASE Adopt(p)
  <2>1. /\ pc[p] = "adopt" /\ children' = [children EXCEPT ![Init1] = @ \cup todo[p]]
        /\ UNCHANGED <<state, parent, pid_table>>
    BY <1>5 DEF Adopt
  <2>2. \A d \in todo[p] : d # Init1 /\ Exists(d) /\ parent[d] = Init1 /\ d \in pid_table
    BY <1>f, <2>1 DEF Adopts
  <2> QED BY <1>t, <1>l, <2>1, <2>2 DEF Exists
<1>6. CASE RemovePid(p)
  <2>1. /\ pc[p] = "destroy" /\ pid_table' = pid_table \ {subject[p]}
        /\ UNCHANGED <<state, parent, children>>
    BY <1>6 DEF RemovePid
  <2>2. InNoList(subject[p])
    BY <1>f, <2>1 DEF ReapsChild
  <2> QED BY <1>l, <2>1, <2>2 DEF Exists, InNoList
<1>7. CASE FreeZombie(p)
  <2>1. /\ pc[p] = "free" /\ state' = [state EXCEPT ![subject[p]] = "FREED"]
        /\ UNCHANGED <<parent, children, pid_table>>
    BY <1>7 DEF FreeZombie
  <2>2. InNoList(subject[p])
    BY <1>f, <2>1 DEF ReapsChild
  <2> QED BY <1>t, <1>l, <2>1, <2>2 DEF Exists, InNoList
<1>8. CASE \E d \in Procs : reap_zombie(p, d)
  <2>1. c \in children[q] /\ UNCHANGED <<state, parent, pid_table>>
    BY <1>8, <1>t DEF reap_zombie
  <2> QED BY <1>l, <2>1 DEF Exists
<1>9. CASE \E d \in Procs : Orphan(p, d)
  <2>0. PICK d \in Procs : Orphan(p, d)
    BY <1>9
  <2>1. /\ pc[p] = "destroy" /\ d \in children[subject[p]]
        /\ children' = [children EXCEPT ![subject[p]] = @ \ {d}]
        /\ parent' = [parent EXCEPT ![d] = Init1] /\ UNCHANGED <<state, pid_table>>
    BY <2>0 DEF Orphan
  <2>2. subject[p] \in Procs
    BY <1>f, <2>1 DEF ReapsChild
  <2>3. parent[d] = subject[p]
    BY <1>l, <2>1, <2>2
  <2>4. c \in children[q] /\ c # d
    BY <1>t, <1>l, <2>1, <2>2, <2>3
  <2> QED BY <1>t, <1>l, <2>1, <2>4 DEF Exists
<1> QED BY <1>0, <1>1, <1>2, <1>3, <1>4, <1>5, <1>6, <1>7, <1>8, <1>9
-----------------------------------------------------------------------------
(* Where a process is. *)

\* c is held by the system call of p.
Held(p, c) ==
  \/ pc[p] = "link" /\ subject[p] = c
  \/ pc[p] = "adopt" /\ c \in todo[p]
  \/ pc[p] \in ReapPCs /\ subject[p] = c

\* The parent of a process that is freed has no child left that points to it.
LEMMA NoOrphanLeft ==
  ASSUME IInv, NEW p \in Procs, pc[p] = "free",
         NEW c \in Procs \ {Init1}, Exists(c), c # subject[p]
  PROVE  parent[c] # subject[p]
<1> USE ProcsProps DEF IInv
<1>1. /\ subject[p] \in Procs \ {Init1} /\ children[subject[p]] = {} /\ pc[subject[p]] = "none"
  BY Facts DEF Calls, CallOK, ReapsChild, ReapPCs
<1>2. CASE c \in children[parent[c]]
  BY <1>1, <1>2
<1>3. CASE \E r \in Procs : Held(r, c)
  <2>1. PICK r \in Procs : Held(r, c)
    BY <1>3
  <2>2. CASE pc[r] = "adopt" /\ c \in todo[r]
    BY <1>1, <2>2 DEF Calls, CallOK, Adopts
  <2>3. CASE pc[r] \in {"link"} \cup ReapPCs /\ subject[r] = c
    <3>1. parent[c] = r /\ pc[r] # "none"
      BY <2>3 DEF Calls, CallOK, Forks, ReapsChild, ForkPCs, ReapPCs
    <3> QED BY <1>1, <3>1
  <2> QED BY <2>1, <2>2, <2>3 DEF Held
<1> QED BY <1>2, <1>3 DEF Placed, Held

\* A process goes from one place to the next in a single step, and its parent
\* is freed only when nothing points to it.
LEMMA PlacedNext ==
  ASSUME IInv, ProcessNext
  PROVE  Placed'
<1> USE ProcsProps DEF IInv
<1>0. PICK p \in Procs :
        \/ uprocess_init(p) \/ LinkChild(p) \/ StartChild(p)
        \/ kthread_destroy_last(p) \/ LocalStep(p) \/ Adopt(p) \/ RemovePid(p) \/ FreeZombie(p)
        \/ \E c \in Procs : reap_zombie(p, c) \/ Orphan(p, c)
  BY NextCases
<1>t. /\ state \in [Procs -> {"UNBORN", "ALIVE", "ZOMBIE", "FREED"}]
      /\ parent \in [Procs -> Procs \cup {NONE}] /\ children \in [Procs -> SUBSET Procs]
      /\ pc \in [Procs -> PCs]
      /\ todo \in [Procs -> SUBSET Procs] /\ subject \in [Procs -> Procs \cup {NONE}]
  BY DEF ProcessTypeOK
<1>f. /\ \A q \in Procs : pc[q] \in ForkPCs => Forks(q)
      /\ \A q \in Procs : pc[q] \in ReapPCs => ReapsChild(q)
      /\ \A q \in Procs : pc[q] = "adopt" => Adopts(q)
      /\ \A q \in Procs : pc[q] # "none" => state[q] = "ALIVE"
      /\ \A q \in Procs : pc[q] \in ForkPCs \cup ReapPCs =>
           subject[q] \in Procs \ {Init1} /\ pc[subject[q]] = "none"
  BY Facts DEF Calls, CallOK
<1> SUFFICES ASSUME NEW c \in Procs \ {Init1}, Exists(c)'
             PROVE  /\ parent'[c] \in Procs /\ Exists(parent[c])'
                    /\ c \in children'[parent'[c]] \/ \E r \in Procs : Held(r, c)'
  BY DEF Placed, Held
<1>p. Exists(c) => /\ parent[c] \in Procs /\ Exists(parent[c])
                   /\ c \in children[parent[c]] \/ \E r \in Procs : Held(r, c)
  BY DEF Placed, Held
<1> USE DEF ForkPCs, ReapPCs
<1>1. CASE uprocess_init(p)
  <2>1. /\ next_pid \in Procs /\ state[next_pid] = "UNBORN" /\ pc[p] = "user"
        /\ state' = [state EXCEPT ![next_pid] = "ALIVE"]
        /\ parent' = [parent EXCEPT ![next_pid] = p]
        /\ subject' = [subject EXCEPT ![p] = next_pid]
        /\ pc' = [pc EXCEPT ![p] = "link"] /\ UNCHANGED <<children, todo>>
    BY <1>1, <1>t, PidsProps DEF uprocess_init, Life, Enter
  <2>2. CASE c = next_pid
    <3>1. Held(p, c)'
      BY <1>t, <2>1, <2>2 DEF Held
    <3>2. parent'[c] = p /\ Exists(p)'
      BY <1>t, <1>f, <2>1, <2>2 DEF Exists
    <3> QED BY <3>1, <3>2 DEF Exists
  <2>3. CASE c # next_pid
    <3>1. Exists(c) /\ parent'[c] = parent[c] /\ \A r \in Procs : Exists(r) => Exists(r)'
      BY <1>t, <2>1, <2>3 DEF Exists
    <3>2. \A r \in Procs : Held(r, c) => Held(r, c)'
      BY <1>t, <2>1 DEF Held
    <3> QED BY <1>p, <2>1, <3>1, <3>2 DEF Exists
  <2> QED BY <2>2, <2>3
<1>2. CASE LinkChild(p)
  <2>1. /\ pc[p] = "link" /\ children' = [children EXCEPT ![p] = @ \cup {subject[p]}]
        /\ pc' = [pc EXCEPT ![p] = "start"] /\ UNCHANGED <<state, parent, todo, subject>>
    BY <1>2 DEF LinkChild, Enter, callVars
  <2>2. parent[subject[p]] = p
    BY <1>f, <2>1 DEF Forks
  <2>3. \A r \in Procs : Held(r, c) => Held(r, c)' \/ (r = p /\ c = subject[p])
    BY <1>t, <2>1 DEF Held
  <2>4. \A r \in Procs : children[r] \subseteq children'[r]
    BY <1>t, <2>1
  <2>5. subject[p] \in children'[p]
    BY <1>t, <2>1
  <2> QED BY <1>p, <2>1, <2>2, <2>3, <2>4, <2>5 DEF Exists
<1>3. CASE StartChild(p)
  <2>1. /\ pc[p] = "start" /\ pc' = [pc EXCEPT ![p] = "user", ![subject[p]] = "user"]
        /\ subject' = [subject EXCEPT ![p] = NONE]
        /\ UNCHANGED <<state, parent, children, todo>>
    BY <1>3 DEF StartChild, treeVars
  <2>2. pc[subject[p]] = "none" /\ subject[p] \in Procs
    BY <1>f, <2>1
  <2>3. \A r \in Procs : Held(r, c) => Held(r, c)'
    BY <1>t, <2>1, <2>2 DEF Held
  <2> QED BY <1>p, <2>1, <2>3 DEF Exists
<1>4. CASE kthread_destroy_last(p)
  <2>1. /\ pc[p] = "exited" /\ state[p] = "ALIVE" /\ p # Init1
        /\ state' = [state EXCEPT ![p] = "ZOMBIE"]
        /\ UNCHANGED <<parent, children, todo, subject>>
    BY <1>4, <1>f DEF kthread_destroy_last, Life, callVars
  <2>2. \A q \in Procs : IF q = p THEN pc'[q] = "none"
                         ELSE pc'[q] = pc[q] \/ (pc[q] = "blocked" /\ pc'[q] = "lock")
    <3>1. parent[p] \in Procs
      BY <2>1 DEF Placed, Exists
    <3> QED BY <1>4, <1>t, <3>1 DEF kthread_destroy_last, SignalParent
  <2>3. \A r \in Procs : Held(r, c) => Held(r, c)'
    BY <1>t, <2>1, <2>2 DEF Held
  <2>4. \A r \in Procs : Exists(r) <=> Exists(r)'
    BY <1>t, <2>1 DEF Exists
  <2> QED BY <1>p, <2>1, <2>3, <2>4 DEF Exists
<1>5. CASE LocalStep(p)
  <2>1. /\ UNCHANGED <<state, parent, children, subject>>
        /\ pc'[p] \notin {"none"} \cup ForkPCs \cup ReapPCs
        /\ pc[p] \notin ForkPCs \cup ReapPCs
        /\ \A r \in Procs : r # p => pc'[r] = pc[r] /\ todo'[r] = todo[r]
    BY <1>5, <1>t DEF LocalStep, exit, LockChildren, ScanEnd, WaitSemaphore, waitpid,
       ScanAlive, Return, Enter, treeVars, callVars
  <2>2. \A r \in Procs : Held(r, c) => Held(r, c)'
    BY <1>t, <2>1 DEF Held
  <2> QED BY <1>p, <2>1, <2>2 DEF Exists
<1>6. CASE Adopt(p)
  <2>1. /\ pc[p] = "adopt" /\ children' = [children EXCEPT ![Init1] = @ \cup todo[p]]
        /\ todo' = [todo EXCEPT ![p] = {}] /\ pc' = [pc EXCEPT ![p] = "destroy"]
        /\ UNCHANGED <<state, parent, subject>>
    BY <1>6 DEF Adopt, Enter
  <2>2. \A r \in Procs : Held(r, c) => Held(r, c)' \/ (r = p /\ c \in todo[p])
    BY <1>t, <2>1 DEF Held
  <2>3. c \in todo[p] => parent[c] = Init1 /\ c \in children'[Init1]
    BY <1>t, <1>f, <2>1 DEF Adopts
  <2>4. \A r \in Procs : children[r] \subseteq children'[r]
    BY <1>t, <2>1
  <2> QED BY <1>p, <2>1, <2>2, <2>3, <2>4 DEF Exists
<1>7. CASE RemovePid(p)
  <2>1. /\ pc[p] = "destroy" /\ pc' = [pc EXCEPT ![p] = "free"]
        /\ UNCHANGED <<state, parent, children, todo, subject>>
    BY <1>7 DEF RemovePid, Enter, callVars
  <2>2. \A r \in Procs : Held(r, c) => Held(r, c)'
    BY <1>t, <2>1 DEF Held
  <2> QED BY <1>p, <2>1, <2>2 DEF Exists
<1>8. CASE FreeZombie(p)
  <2>1. /\ pc[p] = "free" /\ pc' = [pc EXCEPT ![p] = "user"]
        /\ state' = [state EXCEPT ![subject[p]] = "FREED"]
        /\ subject' = [subject EXCEPT ![p] = NONE]
        /\ UNCHANGED <<parent, children, todo>>
    BY <1>8 DEF FreeZombie, Return, Enter
  <2>2. subject[p] \in Procs
    BY <1>f, <2>1
  <2>3. c # subject[p] /\ Exists(c)
    BY <1>t, <2>1, <2>2 DEF Exists
  <2>4. parent[c] # subject[p]
    BY <2>1, <2>3, NoOrphanLeft
  <2>5. \A r \in Procs : Held(r, c) => Held(r, c)'
    BY <1>t, <2>1, <2>3 DEF Held
  <2>6. \A r \in Procs : r # subject[p] => (Exists(r) <=> Exists(r)')
    BY <1>t, <2>1, <2>2 DEF Exists
  <2> QED BY <1>p, <2>1, <2>3, <2>4, <2>5, <2>6 DEF Exists
<1>9. CASE \E d \in Procs : reap_zombie(p, d)
  <2>0. PICK d \in Procs : reap_zombie(p, d)
    BY <1>9
  <2>1. /\ pc[p] = "scan" /\ children' = [children EXCEPT ![p] = @ \ {d}]
        /\ todo' = [todo EXCEPT ![p] = {}] /\ subject' = [subject EXCEPT ![p] = d]
        /\ pc' = [pc EXCEPT ![p] = "destroy"] /\ UNCHANGED <<state, parent>>
    BY <2>0 DEF reap_zombie, Enter
  <2>2. \A r \in Procs : Held(r, c) => Held(r, c)'
    BY <1>t, <2>1 DEF Held
  <2>3. c = d => Held(p, c)'
    BY <1>t, <2>1 DEF Held
  <2>4. c # d => \A r \in Procs : c \in children[r] => c \in children'[r]
    BY <1>t, <2>1
  <2> QED BY <1>p, <2>1, <2>2, <2>3, <2>4 DEF Exists
<1>10. CASE \E d \in Procs : Orphan(p, d)
  <2>0. PICK d \in Procs : Orphan(p, d)
    BY <1>10
  <2>1. /\ pc[p] = "destroy" /\ children' = [children EXCEPT ![subject[p]] = @ \ {d}]
        /\ parent' = [parent EXCEPT ![d] = Init1] /\ todo' = [todo EXCEPT ![p] = {d}]
        /\ pc' = [pc EXCEPT ![p] = "adopt"] /\ UNCHANGED <<state, subject>>
    BY <2>0 DEF Orphan, Enter
  <2>2. \A r \in Procs : Held(r, c) => Held(r, c)'
    BY <1>t, <2>1 DEF Held
  <2>3. CASE c = d
    <3>1. Held(p, c)' /\ parent'[c] = Init1
      BY <1>t, <2>1, <2>3 DEF Held
    <3>2. Exists(Init1)'
      BY <1>f, <2>1 DEF Life, Exists
    <3> QED BY <3>1, <3>2 DEF Exists
  <2>4. CASE c # d
    <3>1. parent'[c] = parent[c] /\ \A r \in Procs : c \in children[r] => c \in children'[r]
      BY <1>t, <1>f, <2>1, <2>4
    <3> QED BY <1>p, <2>1, <2>2, <3>1 DEF Exists
  <2> QED BY <2>3, <2>4
<1> QED BY <1>0, <1>1, <1>2, <1>3, <1>4, <1>5, <1>6, <1>7, <1>8, <1>9, <1>10
-----------------------------------------------------------------------------
(* What a parent has not seen. *)

\* A death under the eyes of the parent leaves a signal, and the scan starts
\* anew for each signal.
LEMMA NoticedNext ==
  ASSUME IInv, ProcessNext
  PROVE  Noticed'
<1> USE ProcsProps DEF IInv
<1>0. PICK p \in Procs :
        \/ uprocess_init(p) \/ LinkChild(p) \/ StartChild(p)
        \/ kthread_destroy_last(p) \/ LocalStep(p) \/ Adopt(p) \/ RemovePid(p) \/ FreeZombie(p)
        \/ \E c \in Procs : reap_zombie(p, c) \/ Orphan(p, c)
  BY NextCases
<1>t. /\ state \in [Procs -> {"UNBORN", "ALIVE", "ZOMBIE", "FREED"}]
      /\ parent \in [Procs -> Procs \cup {NONE}] /\ children \in [Procs -> SUBSET Procs]
      /\ pc \in [Procs -> PCs] /\ want \in [Procs -> Procs \cup {ANY}]
      /\ sem \in [Procs -> 0..MaxPid] /\ MaxPid \in Nat
      /\ \A q \in Procs : sem[q] \in Nat
      /\ todo \in [Procs -> SUBSET Procs] /\ subject \in [Procs -> Procs \cup {NONE}]
  BY ProcessAssumption DEF ProcessTypeOK
<1>f. /\ \A q \in Procs : pc[q] \in ForkPCs \cup ReapPCs =>
           subject[q] \in Procs \ {Init1} /\ pc[subject[q]] = "none"
      /\ \A q, c \in Procs : c \in children[q] => parent[c] = q /\ Exists(c)
  BY Facts DEF Lists
<1> USE DEF ForkPCs, ReapPCs
<1> SUFFICES ASSUME NEW q \in Procs \ {Init1}, NEW c \in Procs, c \in children'[q],
                    want'[q] \in {ANY, c}, state'[c] = "ZOMBIE", ProcessTypeOK'
             PROVE  /\ pc'[q] = "scan" /\ c \notin todo'[q] => sem'[q] > 0
                    /\ pc'[q] = "wait" => sem'[q] > 0
                    /\ pc'[q] # "blocked"
  BY SMTT(30), TypeNext DEF Noticed, ProcessTypeOK
<1>n. c \in children[q] /\ want[q] \in {ANY, c} /\ state[c] = "ZOMBIE" =>
        /\ pc[q] = "scan" /\ c \notin todo[q] => sem[q] > 0
        /\ pc[q] = "wait" => sem[q] > 0
        /\ pc[q] # "blocked"
  BY DEF Noticed
<1>1. CASE kthread_destroy_last(p)
  <2>1. /\ pc[p] = "exited" /\ p # Init1 /\ state' = [state EXCEPT ![p] = "ZOMBIE"]
        /\ UNCHANGED <<parent, children, want, todo, subject>>
    BY <1>1 DEF kthread_destroy_last, Life, callVars
  <2>2. parent[p] \in Procs
    BY <2>1 DEF Placed, Life, Exists
  <2>3. /\ \A r \in Procs : pc'[r] = IF r = parent[p] /\ pc[r] = "blocked" THEN "lock"
                                     ELSE IF r = p THEN "none" ELSE pc[r]
        /\ \A r \in Procs : sem'[r] = IF r = parent[p] /\ pc[r] # "blocked" THEN sem[r] + 1
                                      ELSE sem[r]
    BY <1>1, <1>t, <2>1, <2>2 DEF kthread_destroy_last, SignalParent
  <2>4. CASE c = p
    <3>1. q = parent[p]
      BY <1>f, <2>1, <2>4
    <3> QED BY <1>t, <2>1, <2>3, <3>1
  <2>5. CASE c # p
    <3>1. /\ pc[q] = "scan" /\ c \notin todo[q] => sem[q] > 0
          /\ pc[q] = "wait" => sem[q] > 0
          /\ pc[q] # "blocked"
      BY <1>t, <1>n, <2>1, <2>5
    <3>2. /\ pc'[q] = pc[q] \/ pc'[q] = "none"
          /\ sem'[q] = sem[q] \/ sem'[q] = sem[q] + 1
      BY <2>3, <3>1
    <3> QED BY <1>t, <2>1, <3>1, <3>2
  <2> QED BY <2>4, <2>5
<1>2. CASE LocalStep(p)
  <2>1. UNCHANGED <<state, parent, children>>
    BY <1>2 DEF LocalStep, exit, LockChildren, ScanEnd, WaitSemaphore, waitpid, ScanAlive,
       treeVars
  <2>2. CASE q # p
    <3>1. /\ pc'[q] = pc[q] /\ sem'[q] = sem[q] /\ todo'[q] = todo[q] /\ want'[q] = want[q]
      BY <1>2, <1>t, <2>2 DEF LocalStep, exit, LockChildren, ScanEnd, WaitSemaphore, waitpid,
         ScanAlive, Return, Enter, callVars
    <3> QED BY <1>n, <2>1, <3>1
  <2>3. CASE q = p /\ LockChildren(p)
    BY <1>t, <2>1, <2>3 DEF LockChildren, Enter
  <2>4. CASE q = p /\ ScanEnd(p)
    BY <1>t, <1>n, <2>1, <2>4 DEF ScanEnd, Enter, Return
  <2>5. CASE q = p /\ WaitSemaphore(p)
    BY <1>t, <1>n, <2>1, <2>5 DEF WaitSemaphore, Enter, callVars
  <2>6. CASE q = p /\ \E d \in Procs : ScanAlive(p, d)
    BY <1>t, <1>n, <2>1, <2>6 DEF ScanAlive
  <2>7. CASE q = p /\ (exit(p) \/ \E pid \in children[p] \cup {ANY}, flag \in BOOLEAN :
                                    waitpid(p, pid, flag))
    BY <1>t, <2>7 DEF exit, waitpid, Enter
  <2> QED BY <1>2, <2>2, <2>3, <2>4, <2>5, <2>6, <2>7 DEF LocalStep
<1>3. CASE uprocess_init(p) \/ StartChild(p) \/ RemovePid(p) \/ FreeZombie(p)
  <2>1. /\ pc'[p] \in {"link", "user", "free"} /\ UNCHANGED <<children, sem, todo>>
        /\ \A r \in Procs : r # p => want'[r] = want[r] /\ (pc'[r] = pc[r] \/ pc'[r] = "user")
    BY <1>3, <1>t DEF uprocess_init, StartChild, RemovePid, FreeZombie, Enter, Return,
       treeVars, callVars
  <2>2. state[c] = "ZOMBIE"
    BY <1>3, <1>t, <1>f DEF uprocess_init, StartChild, RemovePid, FreeZombie, treeVars
  <2> QED BY <1>n, <2>1, <2>2
<1>4. CASE LinkChild(p) \/ Adopt(p) \/ \E d \in Procs : reap_zombie(p, d) \/ Orphan(p, d)
  <2>1. /\ pc'[p] \in {"start", "destroy", "adopt"} /\ UNCHANGED <<state, sem, want>>
        /\ \A r \in Procs : r # p => pc'[r] = pc[r] /\ todo'[r] = todo[r]
    BY <1>4, <1>t DEF LinkChild, Adopt, reap_zombie, Orphan, Enter, callVars
  <2>2. q # p => c \in children[q]
    BY <1>4, <1>t, <1>f DEF LinkChild, Adopt, reap_zombie, Orphan
  <2> QED BY <1>n, <2>1, <2>2
<1> QED BY <1>0, <1>1, <1>2, <1>3, <1>4
-----------------------------------------------------------------------------
(* The invariant, and what follows. *)

\* Only init is there at first.
LEMMA InitInv ==
  ASSUME ProcessInit
  PROVE  IInv
<1> USE ProcsProps
<1>1. ProcessTypeOK
  BY ProcessAssumption DEF ProcessInit, ProcessTypeOK, PCs, Init1
<1>2. Life /\ Calls /\ Lists /\ Placed /\ Noticed
  BY ProcessAssumption DEF ProcessInit, Life, Calls, CallOK, Lists, Placed, Noticed,
     Exists, ForkPCs, ReapPCs, Procs, Init1
<1>3. Counted
  <2>1. Cardinality(Dead) \in 0..MaxPid
    BY CountProcs DEF Dead
  <2> QED BY <2>1 DEF ProcessInit, Counted
<1> QED BY <1>1, <1>2, <1>3 DEF IInv

\* A step that changes nothing.
LEMMA StutterInv ==
  ASSUME IInv, UNCHANGED processVars
  PROVE  IInv'
BY DEF IInv, ProcessTypeOK, Life, Calls, CallOK, Forks, ReapsChild, Adopts, InNoList, Lists, Placed,
   Counted, Dead, Noticed, Exists, processVars, treeVars, callVars

\* The inductive invariant holds in every state.
THEOREM Invariant == ProcessSpec => []IInv
<1>1. ProcessInit => IInv
  BY InitInv
<1>2. IInv /\ [ProcessNext]_processVars => IInv'
  <2> SUFFICES ASSUME IInv, [ProcessNext]_processVars PROVE IInv'
    OBVIOUS
  <2>1. CASE ProcessNext
    BY <2>1, TypeNext, LifeNext, CallsNext, ListsNext, PlacedNext, CountedNext, NoticedNext
       DEF IInv
  <2>2. CASE UNCHANGED processVars
    BY <2>2, StutterInv
  <2> QED BY <2>1, <2>2
<1> QED BY <1>1, <1>2, PTL DEF ProcessSpec

\* What the invariant says of the tree: whichever way processes are made, die
\* and are reaped, child lists, parent pointers and the pid table agree.
LEMMA InvFamily ==
  ASSUME IInv
  PROVE  FamilyIsSound
<1> USE ProcsProps DEF IInv
<1>1. TreeIsConsistent
  <2> SUFFICES ASSUME NEW c \in Procs \ {Init1}, Exists(c)
               PROVE  \/ \A p \in Procs : c \in children[p] <=> parent[c] = p
                      \/ /\ InNoList(c)
                         /\ \E p \in Procs :
                              \/ pc[p] = "link" /\ subject[p] = c
                              \/ pc[p] = "adopt" /\ c \in todo[p] /\ parent[c] = Init1
                              \/ pc[p] \in ReapPCs /\ subject[p] = c
    BY DEF TreeIsConsistent, InNoList, ReapPCs
  <2>1. CASE c \in children[parent[c]]
    BY <2>1 DEF Lists
  <2>2. CASE \E p \in Procs : Held(p, c)
    BY <2>2 DEF Held, Calls, CallOK, Forks, ReapsChild, Adopts, ForkPCs
  <2> QED BY <2>1, <2>2 DEF Placed, Held
<1>2. ParentExists
  BY DEF ParentExists, Placed
<1>3. PidTableIsSound
  BY DEF PidTableIsSound, Life, Lists, ProcessTypeOK
<1> QED BY <1>1, <1>2, <1>3 DEF FamilyIsSound

\* For every number of processes: in whatever order they are made, exit and
\* are reaped, every child list names the processes whose parent pointer leads
\* back, no parent pointer of a running process leads to a freed structure,
\* and neither does a pid.
THEOREM FamilySound == ProcessSpec => []FamilyIsSound
<1>1. IInv => FamilyIsSound
  BY InvFamily
<1> QED BY <1>1, Invariant, PTL

\* For every number of processes: a process other than init that is blocked in
\* waitpid has no zombie child it waits for, however the exits of its children
\* fall into the scan of the child list.
THEOREM NoZombieMissed == ProcessSpec => []BlockedHasNoZombie
<1>1. IInv => BlockedHasNoZombie
  BY DEF IInv, Noticed, BlockedHasNoZombie
<1> QED BY <1>1, Invariant, PTL

-----------------------------------------------------------------------------
(* Sessions and process groups (JobCtl), for every number of processes.       *)
Pid == Pids \cup {NIL}
Id == Ids \cup {NIL}
Link == Id \X Id
Members == SUBSET Pids
Groups == SUBSET Ids
Status == {"unborn", "alive", "forking", "linking", "destroyed"}
ProcRecord == [parent : Pid, status : Status, session : Id, pgrp : Id, inherits : Link]
SessionRecord == [sid : Pid, refs : Int, members : Members, pgrps : Groups]
GroupRecord == [pgid : Pid, refs : Int, members : Members, session : Id]
IdTable == [Pids -> Id]
With(S, x) == S \cup {x}

JobTyped ==
  /\ proc \in [Pids -> ProcRecord]
  /\ sessions \in [Ids -> SessionRecord] /\ pgrps \in [Ids -> GroupRecord]
  /\ tables \in [pid : Members, pgid : IdTable, sid : IdTable]

\* A process has a group if it has a session, and what a fork has read and not yet
\* used is a session and a group of it.
JobProcs ==
  \A p \in Pids :
    /\ proc[p].session = NIL <=> proc[p].pgrp = NIL
    /\ proc[p].status = "unborn" => proc[p].session = NIL
    /\ proc[p].status = "linking" =>
         /\ proc[p].session = NIL /\ proc[p].inherits[1] \in Ids /\ proc[p].inherits[2] \in Ids
         /\ pgrps[proc[p].inherits[2]].session = proc[p].inherits[1]

\* A session lists its groups; a group that was made keeps a reference, and the table
\* holds no other.
JobGroups ==
  /\ \A i, g \in Ids : g \in sessions[i].pgrps <=> pgrps[g].session = i
  /\ \A g \in Ids : pgrps[g].session # NIL => pgrps[g].refs > 0
  /\ \A n \in Pids : tables.pgid[n] # NIL => pgrps[tables.pgid[n]].session # NIL

JobMembers ==
  \A i \in Ids :
    /\ \A p \in Pids : p \in sessions[i].members <=> proc[p].session = i
    /\ \A p \in Pids : p \in pgrps[i].members <=> proc[p].pgrp = i
    /\ \A p \in Pids : proc[p].pgrp = i => proc[p].session = pgrps[i].session

JobCounts ==
  \A i \in Ids :
    /\ sessions[i].refs = Cardinality(sessions[i].members) + Cardinality(sessions[i].pgrps)
    /\ pgrps[i].refs - Cardinality(pgrps[i].members) \in {0, 1}

JobInv == JobTyped /\ JobProcs /\ JobGroups /\ JobMembers /\ JobCounts

\* The invariant says what SessionsAreExact says.
LEMMA JobExact == JobInv => SessionsAreExact
<1> SUFFICES ASSUME JobInv PROVE SessionsAreExact
  OBVIOUS
<1> USE DEF JobInv
<1>1. ASSUME NEW i \in Ids
      PROVE  /\ sessions[i].members = {p \in Pids : proc[p].session = i}
             /\ pgrps[i].members = {p \in Pids : proc[p].pgrp = i}
  BY DEF JobTyped, JobMembers, SessionRecord, GroupRecord, Members
<1>2. \A i \in Ids : \A p \in pgrps[i].members : proc[p].session = pgrps[i].session
  BY DEF JobTyped, JobMembers, GroupRecord, Members
<1>3. ASSUME NEW n \in Pids, tables.pgid[n] # NIL
      PROVE  pgrps[tables.pgid[n]].refs > 0
  BY <1>3 DEF JobTyped, JobGroups, IdTable, Id
<1> QED BY <1>1, <1>2, <1>3 DEF JobCounts, SessionsAreExact

LEMMA JobInitInv == JobCtlInit => JobInv
<1> SUFFICES ASSUME JobCtlInit PROVE JobInv
  OBVIOUS
<1> NIL \notin Ids /\ NIL \notin Pids /\ 1 \in Pids
  BY JobCtlAssumption DEF NIL
<1>1. /\ NIL \in Pid /\ NIL \in Id /\ <<NIL, NIL>> \in Link /\ {} \in Members /\ {1} \in Members
      /\ {} \in Groups /\ "unborn" \in Status /\ "alive" \in Status
  BY DEF Pid, Id, Link, Members, Groups, Status
<1>2. \A p \in Pids :
        proc[p].session = NIL /\ proc[p].pgrp = NIL /\ proc[p].status # "linking"
  BY DEF JobCtlInit, Unborn
<1>3. /\ \A i \in Ids : sessions[i] = [sid |-> NIL, refs |-> 0, members |-> {}, pgrps |-> {}]
      /\ \A i \in Ids : pgrps[i] = [pgid |-> NIL, refs |-> 0, members |-> {}, session |-> NIL]
      /\ \A n \in Pids : tables.pgid[n] = NIL
  BY DEF JobCtlInit, NoSession, NoGroup
<1>4. JobTyped
  <2>1. proc \in [Pids -> ProcRecord]
    BY <1>1 DEF JobCtlInit, ProcRecord, Unborn
  <2>2. sessions \in [Ids -> SessionRecord]
    BY <1>1 DEF JobCtlInit, NoSession, SessionRecord
  <2>3. pgrps \in [Ids -> GroupRecord]
    BY <1>1 DEF JobCtlInit, NoGroup, GroupRecord
  <2>4. [p \in Pids |-> NIL] \in IdTable
    BY <1>1 DEF IdTable
  <2>5. tables \in [pid : Members, pgid : IdTable, sid : IdTable]
    BY <1>1, <2>4 DEF JobCtlInit
  <2> QED BY <2>1, <2>2, <2>3, <2>5 DEF JobTyped
<1>5. JobProcs
  BY <1>2 DEF JobProcs
<1>6. JobGroups
  BY <1>3 DEF JobGroups
<1>7. JobMembers
  BY <1>2, <1>3 DEF JobMembers
<1>8. JobCounts
  BY <1>3, FS_EmptySet DEF JobCounts
<1> QED BY <1>4, <1>5, <1>6, <1>7, <1>8 DEF JobInv

\* What the helpers of jobctl.c do to one group or session.
LEMMA GroupInsert ==
  ASSUME NEW gs \in [Ids -> GroupRecord], NEW i \in Ids, NEW p \in Pids
  PROVE  LET r == pgrp_insert(gs, i, p)
         IN  /\ r \in [Ids -> GroupRecord]
             /\ \A j \in Ids : j # i => r[j] = gs[j]
             /\ r[i].refs = gs[i].refs + 1 /\ r[i].members = With(gs[i].members, p)
             /\ r[i].session = gs[i].session
<1>1. gs[i].refs + 1 \in Int /\ gs[i].members \cup {p} \in Members
  BY DEF GroupRecord, Members
<1>2. pgrp_insert(gs, i, p) \in [Ids -> GroupRecord]
  BY <1>1 DEF pgrp_insert, GroupRecord
<1>3. \A j \in Ids : j # i => pgrp_insert(gs, i, p)[j] = gs[j]
  BY DEF pgrp_insert
<1>4. LET r == pgrp_insert(gs, i, p)
      IN  /\ r[i].refs = gs[i].refs + 1 /\ r[i].members = With(gs[i].members, p)
          /\ r[i].session = gs[i].session
  BY DEF pgrp_insert, GroupRecord, With
<1> QED BY <1>2, <1>3, <1>4

LEMMA GroupRemove ==
  ASSUME JobTyped, NEW gs \in [Ids -> GroupRecord], NEW p \in Pids
  PROVE  LET r == pgrp_remove(gs, p)
             i == proc[p].pgrp
         IN  /\ r \in [Ids -> GroupRecord] /\ i \in Id
             /\ i = NIL => r = gs
             /\ \A j \in Ids : j # i => r[j] = gs[j]
             /\ i # NIL => /\ r[i].refs = gs[i].refs - 1 /\ r[i].members = gs[i].members \ {p}
                           /\ r[i].session = gs[i].session
<1> DEFINE i == proc[p].pgrp
           r == pgrp_remove(gs, p)
<1>1. i \in Id
  BY DEF JobTyped, ProcRecord
<1>2. CASE i = NIL
  BY <1>1, <1>2 DEF pgrp_remove
<1>3. CASE i # NIL
  <2>1. i \in Ids
    BY <1>1, <1>3 DEF Id
  <2>2. r = [gs EXCEPT ![i].refs = gs[i].refs - 1, ![i].members = gs[i].members \ {p}]
    BY <1>3, <2>1 DEF pgrp_remove
  <2> HIDE DEF i, r
  <2>3. gs[i].refs - 1 \in Int /\ gs[i].members \ {p} \in Members
    BY <2>1 DEF GroupRecord, Members
  <2>4. r \in [Ids -> GroupRecord]
    BY <2>1, <2>2, <2>3 DEF GroupRecord
  <2>5. \A j \in Ids : j # i => r[j] = gs[j]
    BY <2>1, <2>2
  <2>6. /\ r[i].refs = gs[i].refs - 1 /\ r[i].members = gs[i].members \ {p}
        /\ r[i].session = gs[i].session
    BY <2>1, <2>2 DEF GroupRecord
  <2> QED BY <1>1, <1>3, <2>4, <2>5, <2>6 DEF i, r
<1> QED BY <1>2, <1>3

LEMMA SessionInsert ==
  ASSUME NEW ss \in [Ids -> SessionRecord], NEW i \in Ids, NEW p \in Pids
  PROVE  LET r == session_insert(ss, i, p)
         IN  /\ r \in [Ids -> SessionRecord]
             /\ \A j \in Ids : j # i => r[j] = ss[j]
             /\ r[i].refs = ss[i].refs + 1 /\ r[i].members = With(ss[i].members, p)
             /\ r[i].pgrps = ss[i].pgrps
<1>1. ss[i].refs + 1 \in Int /\ ss[i].members \cup {p} \in Members
  BY DEF SessionRecord, Members
<1>2. session_insert(ss, i, p) \in [Ids -> SessionRecord]
  BY <1>1 DEF session_insert, SessionRecord
<1>3. \A j \in Ids : j # i => session_insert(ss, i, p)[j] = ss[j]
  BY DEF session_insert
<1>4. LET r == session_insert(ss, i, p)
      IN  /\ r[i].refs = ss[i].refs + 1 /\ r[i].members = With(ss[i].members, p)
          /\ r[i].pgrps = ss[i].pgrps
  BY DEF session_insert, SessionRecord, With
<1> QED BY <1>2, <1>3, <1>4

LEMMA SessionRemove ==
  ASSUME JobTyped, NEW ss \in [Ids -> SessionRecord], NEW p \in Pids
  PROVE  LET r == session_remove(ss, p)
             i == proc[p].session
         IN  /\ r \in [Ids -> SessionRecord] /\ i \in Id
             /\ i = NIL => r = ss
             /\ \A j \in Ids : j # i => r[j] = ss[j]
             /\ i # NIL => /\ r[i].refs = ss[i].refs - 1 /\ r[i].members = ss[i].members \ {p}
                           /\ r[i].pgrps = ss[i].pgrps
<1> DEFINE i == proc[p].session
           r == session_remove(ss, p)
<1>1. i \in Id
  BY DEF JobTyped, ProcRecord
<1>2. CASE i = NIL
  BY <1>1, <1>2 DEF session_remove
<1>3. CASE i # NIL
  <2>1. i \in Ids
    BY <1>1, <1>3 DEF Id
  <2>2. r = [ss EXCEPT ![i].refs = ss[i].refs - 1, ![i].members = ss[i].members \ {p}]
    BY <1>3, <2>1 DEF session_remove
  <2> HIDE DEF i, r
  <2>3. ss[i].refs - 1 \in Int /\ ss[i].members \ {p} \in Members
    BY <2>1 DEF SessionRecord, Members
  <2>4. r \in [Ids -> SessionRecord]
    BY <2>1, <2>2, <2>3 DEF SessionRecord
  <2>5. \A j \in Ids : j # i => r[j] = ss[j]
    BY <2>1, <2>2
  <2>6. /\ r[i].refs = ss[i].refs - 1 /\ r[i].members = ss[i].members \ {p}
        /\ r[i].pgrps = ss[i].pgrps
    BY <2>1, <2>2 DEF SessionRecord
  <2> QED BY <1>1, <1>3, <2>4, <2>5, <2>6 DEF i, r
<1> QED BY <1>2, <1>3

LEMMA SessionLists ==
  ASSUME NEW ss \in [Ids -> SessionRecord], NEW s \in Ids, NEW i \in Ids
  PROVE  LET r == Listed(ss, s, i)
         IN  /\ r \in [Ids -> SessionRecord]
             /\ \A j \in Ids : j # s => r[j] = ss[j]
             /\ r[s].refs = ss[s].refs + 1 /\ r[s].members = ss[s].members
             /\ r[s].pgrps = With(ss[s].pgrps, i)
<1>1. ss[s].refs + 1 \in Int /\ ss[s].pgrps \cup {i} \in Groups
  BY DEF SessionRecord, Groups
<1>2. Listed(ss, s, i) \in [Ids -> SessionRecord]
  BY <1>1 DEF Listed, SessionRecord
<1>3. \A j \in Ids : j # s => Listed(ss, s, i)[j] = ss[j]
  BY DEF Listed
<1>4. LET r == Listed(ss, s, i)
      IN  /\ r[s].refs = ss[s].refs + 1 /\ r[s].members = ss[s].members
          /\ r[s].pgrps = With(ss[s].pgrps, i)
  BY DEF Listed, SessionRecord, With
<1> QED BY <1>2, <1>3, <1>4

LEMMA GroupCreate ==
  ASSUME JobTyped, NEW i \in Ids, NEW s \in Ids, NEW p \in Pids
  PROVE  LET r == pgrp_create(i, s, p)
         IN  /\ r \in [Ids -> GroupRecord]
             /\ \A j \in Ids : j # i => r[j] = pgrps[j]
             /\ r[i].refs = 1 /\ r[i].members = {} /\ r[i].session = s
<1>1. p \in Pid /\ s \in Id /\ {} \in Members
  BY DEF Pid, Id, Members
<1>2. [pgid |-> p, refs |-> 1, members |-> {}, session |-> s] \in GroupRecord
  BY <1>1 DEF GroupRecord
<1>3. pgrp_create(i, s, p) \in [Ids -> GroupRecord]
  BY <1>2 DEF pgrp_create, JobTyped
<1>4. LET r == pgrp_create(i, s, p)
      IN  /\ \A j \in Ids : j # i => r[j] = pgrps[j]
          /\ r[i].refs = 1 /\ r[i].members = {} /\ r[i].session = s
  BY DEF pgrp_create, JobTyped
<1> QED BY <1>3, <1>4

LEMMA SessionCreate ==
  ASSUME JobTyped, NEW i \in Ids, NEW p \in Pids
  PROVE  LET r == session_create(i, p)
         IN  /\ r \in [Ids -> SessionRecord]
             /\ \A j \in Ids : j # i => r[j] = sessions[j]
             /\ r[i].refs = 1 /\ r[i].members = {} /\ r[i].pgrps = {}
<1>1. p \in Pid /\ {} \in Members /\ {} \in Groups
  BY DEF Pid, Members, Groups
<1>2. [sid |-> p, refs |-> 1, members |-> {}, pgrps |-> {}] \in SessionRecord
  BY <1>1 DEF SessionRecord
<1>3. session_create(i, p) \in [Ids -> SessionRecord]
  BY <1>2 DEF session_create, JobTyped
<1>4. LET r == session_create(i, p)
      IN  /\ \A j \in Ids : j # i => r[j] = sessions[j]
          /\ r[i].refs = 1 /\ r[i].members = {} /\ r[i].pgrps = {}
  BY DEF session_create, JobTyped
<1> QED BY <1>3, <1>4

-----------------------------------------------------------------------------
\* A counter that follows what enters and leaves a set differs from its size by what
\* it differed before.
LEMMA CounterFollows ==
  ASSUME NEW T, IsFiniteSet(T), NEW A \in SUBSET T, NEW B \in SUBSET T, NEW x \in T,
         NEW m \in Int, NEW n \in Int,
         \/ B = A /\ n = m
         \/ x \notin A /\ B = A \cup {x} /\ n = m + 1
         \/ x \in A /\ B = A \ {x} /\ n = m - 1
  PROVE  /\ Cardinality(A) \in Nat /\ Cardinality(B) \in Nat
         /\ n - Cardinality(B) = m - Cardinality(A)
<1>1. IsFiniteSet(A) /\ IsFiniteSet(B)
  BY FS_Subset
<1>2. Cardinality(A) \in Nat /\ Cardinality(B) \in Nat
  BY <1>1, FS_CardinalityType
<1>3. CASE B = A /\ n = m
  BY <1>2, <1>3
<1>4. CASE x \notin A /\ B = A \cup {x} /\ n = m + 1
  BY <1>1, <1>2, <1>4, FS_AddElement
<1>5. CASE x \in A /\ B = A \ {x} /\ n = m - 1
  <2>1. Cardinality(A \ {x}) = Cardinality(A) - 1
    BY <1>1, <1>5, FS_RemoveElement
  <2>2. Cardinality(B) = Cardinality(A) - 1 /\ n = m - 1
    BY <2>1, <1>5
  <2> HIDE <1>5
  <2> QED BY <2>2, <1>2
<1> QED BY <1>2, <1>3, <1>4, <1>5

\* The same of a session and of a group of the invariant.
LEMMA SessionCounted ==
  ASSUME JobInv, JobTyped', NEW i \in Ids, NEW p \in Pids, NEW g \in Ids,
         \/ sessions'[i] = sessions[i]
         \/ /\ sessions'[i].pgrps = sessions[i].pgrps
            /\ \/ /\ p \notin sessions[i].members
                  /\ sessions'[i].members = sessions[i].members \cup {p}
                  /\ sessions'[i].refs = sessions[i].refs + 1
               \/ /\ p \in sessions[i].members
                  /\ sessions'[i].members = sessions[i].members \ {p}
                  /\ sessions'[i].refs = sessions[i].refs - 1
         \/ /\ sessions'[i].members = sessions[i].members
            /\ g \notin sessions[i].pgrps
            /\ sessions'[i].pgrps = sessions[i].pgrps \cup {g}
            /\ sessions'[i].refs = sessions[i].refs + 1
  PROVE  sessions'[i].refs = Cardinality(sessions'[i].members) + Cardinality(sessions'[i].pgrps)
<1> DEFINE A == sessions[i].members
           B == sessions[i].pgrps
           C == sessions'[i].members
           D == sessions'[i].pgrps
           m == sessions[i].refs
           n == sessions'[i].refs
<1>1. A \in SUBSET Pids /\ B \in SUBSET Ids /\ m \in Int
  BY DEF JobInv, JobTyped, SessionRecord, Members, Groups
<1>2. C \in SUBSET Pids /\ D \in SUBSET Ids /\ n \in Int
  BY DEF JobTyped, SessionRecord, Members, Groups
<1>3. m = Cardinality(A) + Cardinality(B)
  BY DEF JobInv, JobCounts
<1>4. IsFiniteSet(Pids) /\ IsFiniteSet(Ids)
  BY JobCtlAssumption
<1>5. Cardinality(A) \in Nat /\ Cardinality(B) \in Nat
  BY <1>1, <1>4, FS_Subset, FS_CardinalityType
<1>6. CASE sessions'[i] = sessions[i]
  BY <1>3, <1>6
<1>7. CASE /\ D = B
           /\ \/ p \notin A /\ C = A \cup {p} /\ n = m + 1
              \/ p \in A /\ C = A \ {p} /\ n = m - 1
  <2> HIDE DEF A, B, C, D, m, n
  <2>1. Cardinality(C) \in Nat /\ n - Cardinality(C) = m - Cardinality(A)
    BY <1>1, <1>2, <1>4, <1>7, CounterFollows
  <2>2. n = Cardinality(C) + Cardinality(D)
    BY <2>1, <1>1, <1>2, <1>3, <1>5, <1>7
  <2> QED BY <2>2 DEF C, D, n
<1>8. CASE C = A /\ g \notin B /\ D = B \cup {g} /\ n = m + 1
  <2> HIDE DEF A, B, C, D, m, n
  <2>1. Cardinality(D) \in Nat /\ n - Cardinality(D) = m - Cardinality(B)
    BY <1>1, <1>2, <1>4, <1>8, CounterFollows
  <2>2. n = Cardinality(C) + Cardinality(D)
    BY <2>1, <1>1, <1>2, <1>3, <1>5, <1>8
  <2> QED BY <2>2 DEF C, D, n
<1> QED BY <1>6, <1>7, <1>8

LEMMA GroupCounted ==
  ASSUME JobInv, JobTyped', NEW i \in Ids, NEW p \in Pids,
         \/ pgrps'[i].members = pgrps[i].members /\ pgrps'[i].refs = pgrps[i].refs
         \/ /\ p \notin pgrps[i].members
            /\ pgrps'[i].members = pgrps[i].members \cup {p}
            /\ pgrps'[i].refs = pgrps[i].refs + 1
         \/ /\ p \in pgrps[i].members
            /\ pgrps'[i].members = pgrps[i].members \ {p}
            /\ pgrps'[i].refs = pgrps[i].refs - 1
  PROVE  pgrps'[i].refs - Cardinality(pgrps'[i].members) \in {0, 1}
<1> DEFINE A == pgrps[i].members
           C == pgrps'[i].members
           m == pgrps[i].refs
           n == pgrps'[i].refs
<1>1. A \in SUBSET Pids /\ m \in Int
  BY DEF JobInv, JobTyped, GroupRecord, Members
<1>2. C \in SUBSET Pids /\ n \in Int
  BY DEF JobTyped, GroupRecord, Members
<1>3. m - Cardinality(A) \in {0, 1}
  BY DEF JobInv, JobCounts
<1>4. IsFiniteSet(Pids)
  BY JobCtlAssumption
<1>5. \/ C = A /\ n = m
      \/ p \notin A /\ C = A \cup {p} /\ n = m + 1
      \/ p \in A /\ C = A \ {p} /\ n = m - 1
  OBVIOUS
<1> HIDE DEF A, C, m, n
<1>6. n - Cardinality(C) = m - Cardinality(A)
  BY <1>1, <1>2, <1>4, <1>5, CounterFollows
<1>7. n - Cardinality(C) \in {0, 1}
  BY <1>3, <1>6
<1> QED BY <1>7 DEF C, n

\* When p changes its session or group, the others stay in theirs, and groups keep their
\* session, the lists of members still tell who is where.
LEMMA MembersMoved ==
  ASSUME JobInv, JobTyped', NEW p \in Pids,
         \A q \in Pids : q # p =>
           proc'[q].session = proc[q].session /\ proc'[q].pgrp = proc[q].pgrp,
         \A i \in Ids : sessions'[i].members = IF proc'[p].session = i
                          THEN sessions[i].members \cup {p} ELSE sessions[i].members \ {p},
         \A i \in Ids : pgrps'[i].members = IF proc'[p].pgrp = i
                          THEN pgrps[i].members \cup {p} ELSE pgrps[i].members \ {p},
         \A i \in Ids : pgrps[i].session # NIL => pgrps'[i].session = pgrps[i].session,
         \A i \in Ids : proc'[p].pgrp = i => proc'[p].session = pgrps'[i].session
  PROVE  JobMembers'
<1> NIL \notin Ids
  BY JobCtlAssumption DEF NIL
<1>1. ASSUME NEW i \in Ids, NEW q \in Pids
      PROVE  q \in sessions'[i].members <=> proc'[q].session = i
  <2>1. q \in sessions[i].members <=> proc[q].session = i
    BY DEF JobInv, JobMembers
  <2>2. sessions'[i].members = IF proc'[p].session = i
          THEN sessions[i].members \cup {p} ELSE sessions[i].members \ {p}
    OBVIOUS
  <2>3. CASE q = p
    BY <2>2, <2>3
  <2>4. CASE q # p
    <3>1. q \in sessions'[i].members <=> q \in sessions[i].members
      BY <2>2, <2>4
    <3> QED BY <3>1, <2>1, <2>4
  <2> QED BY <2>3, <2>4
<1>2. ASSUME NEW i \in Ids, NEW q \in Pids
      PROVE  q \in pgrps'[i].members <=> proc'[q].pgrp = i
  <2>1. q \in pgrps[i].members <=> proc[q].pgrp = i
    BY DEF JobInv, JobMembers
  <2>2. pgrps'[i].members = IF proc'[p].pgrp = i
          THEN pgrps[i].members \cup {p} ELSE pgrps[i].members \ {p}
    OBVIOUS
  <2>3. CASE q = p
    BY <2>2, <2>3
  <2>4. CASE q # p
    <3>1. q \in pgrps'[i].members <=> q \in pgrps[i].members
      BY <2>2, <2>4
    <3> QED BY <3>1, <2>1, <2>4
  <2> QED BY <2>3, <2>4
<1>3. ASSUME NEW i \in Ids, NEW q \in Pids, proc'[q].pgrp = i
      PROVE  proc'[q].session = pgrps'[i].session
  <2>1. CASE q = p
    BY <1>3, <2>1
  <2>2. CASE q # p
    <3>1. proc[q].pgrp = i /\ proc'[q].session = proc[q].session
      BY <1>3, <2>2
    <3>2. proc[q].session = pgrps[i].session /\ proc[q].session # NIL
      BY <3>1 DEF JobInv, JobMembers, JobProcs
    <3> QED BY <3>1, <3>2
  <2> QED BY <2>1, <2>2
<1> QED BY <1>1, <1>2, <1>3 DEF JobMembers

\* An id that was not used yet is nobody's.
LEMMA NotUsed ==
  ASSUME JobInv
  PROVE  /\ \A s \in Unused(sessions, NoSession) :
              /\ s \in Ids /\ sessions[s].refs = 0 /\ sessions[s].members = {}
              /\ sessions[s].pgrps = {} /\ \A p \in Pids : proc[p].session # s
         /\ \A g \in Unused(pgrps, NoGroup) :
              /\ g \in Ids /\ pgrps[g].refs = 0 /\ pgrps[g].members = {}
              /\ pgrps[g].session = NIL /\ \A p \in Pids : proc[p].pgrp # g
<1>1. ASSUME NEW s \in Unused(sessions, NoSession)
      PROVE  /\ s \in Ids /\ sessions[s].refs = 0 /\ sessions[s].members = {}
             /\ sessions[s].pgrps = {}
  <2>1. s \in Ids /\ sessions[s] = NoSession
    BY DEF Unused
  <2> QED BY <2>1 DEF NoSession
<1>2. ASSUME NEW g \in Unused(pgrps, NoGroup)
      PROVE  /\ g \in Ids /\ pgrps[g].refs = 0 /\ pgrps[g].members = {}
             /\ pgrps[g].session = NIL
  <2>1. g \in Ids /\ pgrps[g] = NoGroup
    BY DEF Unused
  <2> QED BY <2>1 DEF NoGroup
<1> QED BY <1>1, <1>2 DEF JobInv, JobMembers

\* A process that has a session is counted in it and in its group; when it is not the
\* last of them it can go.
LEMMA MayGo ==
  ASSUME JobInv, NEW p \in Pids, proc[p].session # NIL
  PROVE  LET s == proc[p].session
             g == proc[p].pgrp
         IN  /\ s \in Ids /\ p \in sessions[s].members
             /\ g \in Ids /\ p \in pgrps[g].members
             /\ pgrps[g].session = s /\ pgrps[g].refs \in Int /\ pgrps[g].refs > 0
             /\ ~LastOfGroup(p) => pgrps[g].refs - 1 > 0
<1> DEFINE s == proc[p].session
           g == proc[p].pgrp
<1>1. s \in Ids /\ g \in Ids
  BY DEF JobInv, JobTyped, JobProcs, ProcRecord, Id
<1>2. p \in sessions[s].members /\ p \in pgrps[g].members /\ pgrps[g].session = s
  BY <1>1 DEF JobInv, JobMembers
<1>3. pgrps[g].refs \in Int /\ pgrps[g].refs > 0
  BY <1>1, <1>2 DEF JobInv, JobTyped, JobGroups, GroupRecord
<1>4. ASSUME ~LastOfGroup(p)
      PROVE  pgrps[g].refs # 1
  BY <1>1, <1>4, JobCtlAssumption DEF LastOfGroup, NIL
<1> QED BY <1>1, <1>2, <1>3, <1>4
-----------------------------------------------------------------------------
(* The steps.                                                                 *)
LEMMA JobSame ==
  ASSUME JobInv, UNCHANGED <<proc, sessions, pgrps, tables>>
  PROVE  JobInv'
BY DEF JobInv, JobTyped, JobProcs, JobGroups, JobMembers, JobCounts

LEMMA JobCrash ==
  ASSUME JobInv, NEW why, Crash(why)
  PROVE  JobInv'
BY JobSame DEF Crash

LEMMA JobIdMapRemove ==
  ASSUME JobInv, NEW p \in Pids, id_map_remove(p)
  PROVE  JobInv'
<1>1. UNCHANGED <<proc, sessions, pgrps>>
  BY DEF id_map_remove
<1>2. tables.pid \ {p} \in Members
  BY DEF JobInv, JobTyped, Members
<1>3. tables' = [tables EXCEPT !.pid = tables.pid \ {p}]
  BY DEF id_map_remove
<1>4. tables' \in [pid : Members, pgid : IdTable, sid : IdTable] /\ tables'.pgid = tables.pgid
  BY <1>2, <1>3 DEF JobInv, JobTyped
<1>5. JobTyped'
  BY <1>1, <1>4 DEF JobInv, JobTyped
<1>6. JobGroups'
  BY <1>1, <1>4 DEF JobInv, JobGroups
<1> QED BY <1>1, <1>5, <1>6 DEF JobInv, JobProcs, JobMembers, JobCounts

\* setsid: the new session, with its first group and p in both.
LEMMA SetsidSessions ==
  ASSUME JobInv, NEW p \in Pids, NEW s \in Unused(sessions, NoSession), NEW g \in Ids
  PROVE  LET ss == session_insert(session_remove(Listed(session_create(s, p), s, g), p), s, p)
             r == [ss EXCEPT ![s].refs = @ - 1]
             old == proc[p].session
         IN  /\ r \in [Ids -> SessionRecord]
             /\ r[s].refs = 2 /\ r[s].members = {p} /\ r[s].pgrps = {g}
             /\ \A i \in Ids : i # s /\ i # old => r[i] = sessions[i]
             /\ old # NIL => /\ r[old].members = sessions[old].members \ {p}
                             /\ r[old].refs = sessions[old].refs - 1
                             /\ r[old].pgrps = sessions[old].pgrps
<1> DEFINE s1 == session_create(s, p)
           s2 == Listed(s1, s, g)
           s3 == session_remove(s2, p)
           s4 == session_insert(s3, s, p)
           r == [s4 EXCEPT ![s].refs = @ - 1]
           old == proc[p].session
<1>1. JobTyped /\ s \in Ids /\ old # s /\ old \in Id
  BY NotUsed DEF JobInv, JobTyped, ProcRecord
<1>2. /\ s1 \in [Ids -> SessionRecord] /\ \A j \in Ids : j # s => s1[j] = sessions[j]
      /\ s1[s].refs = 1 /\ s1[s].members = {} /\ s1[s].pgrps = {}
  BY <1>1, SessionCreate
<1> HIDE DEF s1
<1>3. /\ s2 \in [Ids -> SessionRecord] /\ \A j \in Ids : j # s => s2[j] = s1[j]
      /\ s2[s].refs = s1[s].refs + 1 /\ s2[s].members = s1[s].members
      /\ s2[s].pgrps = With(s1[s].pgrps, g)
  <2>1. s \in Ids /\ s1 \in [Ids -> SessionRecord]
    BY <1>1, <1>2
  <2> HIDE <1>1, <1>2
  <2> QED BY <2>1, SessionLists, SMTT(30)
<1> HIDE DEF s2
<1>4. /\ s3 \in [Ids -> SessionRecord]
      /\ \A j \in Ids : j # old => s3[j] = s2[j]
      /\ old # NIL => /\ s3[old].refs = s2[old].refs - 1
                      /\ s3[old].members = s2[old].members \ {p}
                      /\ s3[old].pgrps = s2[old].pgrps
  BY <1>1, <1>3, SessionRemove
<1> HIDE DEF s3
<1>5. /\ s4 \in [Ids -> SessionRecord] /\ \A j \in Ids : j # s => s4[j] = s3[j]
      /\ s4[s].refs = s3[s].refs + 1 /\ s4[s].members = With(s3[s].members, p)
      /\ s4[s].pgrps = s3[s].pgrps
  BY <1>1, <1>4, SessionInsert
<1> HIDE DEF s4
<1>6. s4[s].refs - 1 \in Int
  BY <1>1, <1>5 DEF SessionRecord
<1>7. r \in [Ids -> SessionRecord]
  BY <1>1, <1>5, <1>6 DEF SessionRecord
<1>8. /\ \A j \in Ids : j # s => r[j] = s4[j]
      /\ r[s].refs = s4[s].refs - 1 /\ r[s].members = s4[s].members /\ r[s].pgrps = s4[s].pgrps
  BY <1>1, <1>5 DEF SessionRecord
<1> HIDE DEF r
<1>9. s3[s] = s2[s]
  BY <1>1, <1>4
<1>10. r[s].refs = 2 /\ r[s].members = {p} /\ r[s].pgrps = {g}
  <2>1. s4[s].refs = 3
    BY <1>2, <1>3, <1>5, <1>9
  <2>2. r[s].refs = 2
    BY <2>1, <1>8
  <2>3. r[s].members = {p} /\ r[s].pgrps = {g}
    BY <1>2, <1>3, <1>5, <1>8, <1>9 DEF With
  <2> QED BY <2>2, <2>3
<1>11. \A i \in Ids : i # s /\ i # old => r[i] = sessions[i]
  BY <1>2, <1>3, <1>4, <1>5, <1>8
<1>12. ASSUME old # NIL
       PROVE  /\ r[old].members = sessions[old].members \ {p}
              /\ r[old].refs = sessions[old].refs - 1
              /\ r[old].pgrps = sessions[old].pgrps
  <2>1. old \in Ids /\ old # s
    BY <1>1, <1>12 DEF Id
  <2>2. r[old] = s3[old] /\ s2[old] = sessions[old]
    BY <2>1, <1>2, <1>3, <1>5, <1>8
  <2> HIDE DEF old
  <2> QED BY <2>2, <1>4, <1>12
<1> QED BY <1>7, <1>10, <1>11, <1>12 DEF r, s1, s2, s3, s4

\* The new group, which the reference of its creation does not outlive in setsid.
LEMMA SetsidGroups ==
  ASSUME JobInv, NEW p \in Pids, NEW g \in Unused(pgrps, NoGroup), NEW s \in Ids
  PROVE  LET gs == pgrp_insert(pgrp_remove(pgrp_create(g, s, p), p), g, p)
             r == [gs EXCEPT ![g].refs = @ - 1]
             old == proc[p].pgrp
         IN  /\ r \in [Ids -> GroupRecord]
             /\ r[g].refs = 1 /\ r[g].members = {p} /\ r[g].session = s
             /\ \A i \in Ids : i # g /\ i # old => r[i] = pgrps[i]
             /\ old # NIL => /\ r[old].members = pgrps[old].members \ {p}
                             /\ r[old].refs = pgrps[old].refs - 1
                             /\ r[old].session = pgrps[old].session
<1> DEFINE g1 == pgrp_create(g, s, p)
           g2 == pgrp_remove(g1, p)
           g3 == pgrp_insert(g2, g, p)
           r == [g3 EXCEPT ![g].refs = @ - 1]
           old == proc[p].pgrp
<1>1. JobTyped /\ g \in Ids /\ old # g /\ old \in Id
  BY NotUsed DEF JobInv, JobTyped, ProcRecord
<1>2. /\ g1 \in [Ids -> GroupRecord] /\ \A j \in Ids : j # g => g1[j] = pgrps[j]
      /\ g1[g].refs = 1 /\ g1[g].members = {} /\ g1[g].session = s
  BY <1>1, GroupCreate
<1> HIDE DEF g1
<1>3. /\ g2 \in [Ids -> GroupRecord]
      /\ \A j \in Ids : j # old => g2[j] = g1[j]
      /\ old # NIL => /\ g2[old].refs = g1[old].refs - 1
                      /\ g2[old].members = g1[old].members \ {p}
                      /\ g2[old].session = g1[old].session
  BY <1>1, <1>2, GroupRemove
<1> HIDE DEF g2
<1>4. /\ g3 \in [Ids -> GroupRecord] /\ \A j \in Ids : j # g => g3[j] = g2[j]
      /\ g3[g].refs = g2[g].refs + 1 /\ g3[g].members = With(g2[g].members, p)
      /\ g3[g].session = g2[g].session
  BY <1>1, <1>3, GroupInsert
<1> HIDE DEF g3
<1>5. g3[g].refs - 1 \in Int
  BY <1>1, <1>4 DEF GroupRecord
<1>6. r \in [Ids -> GroupRecord]
  BY <1>1, <1>4, <1>5 DEF GroupRecord
<1>7. /\ \A j \in Ids : j # g => r[j] = g3[j]
      /\ r[g].refs = g3[g].refs - 1 /\ r[g].members = g3[g].members /\ r[g].session = g3[g].session
  BY <1>1, <1>4 DEF GroupRecord
<1> HIDE DEF r
<1>8. g2[g] = g1[g]
  BY <1>1, <1>3
<1>9. r[g].refs = 1 /\ r[g].members = {p} /\ r[g].session = s
  <2>1. g3[g].refs = 2
    BY <1>2, <1>4, <1>8
  <2>2. r[g].refs = 1
    BY <2>1, <1>7
  <2>3. r[g].members = {p} /\ r[g].session = s
    BY <1>2, <1>4, <1>7, <1>8 DEF With
  <2> QED BY <2>2, <2>3
<1>10. \A i \in Ids : i # g /\ i # old => r[i] = pgrps[i]
  BY <1>2, <1>3, <1>4, <1>7
<1>11. ASSUME old # NIL
       PROVE  /\ r[old].members = pgrps[old].members \ {p}
              /\ r[old].refs = pgrps[old].refs - 1
              /\ r[old].session = pgrps[old].session
  <2>1. old \in Ids /\ old # g
    BY <1>1, <1>11 DEF Id
  <2>2. r[old] = g2[old] /\ g1[old] = pgrps[old]
    BY <2>1, <1>2, <1>4, <1>7
  <2> HIDE DEF old
  <2> QED BY <2>2, <1>3, <1>11
<1> QED BY <1>6, <1>9, <1>10, <1>11 DEF r, g1, g2, g3

LEMMA JobSetsid ==
  ASSUME JobInv, NEW p \in Pids, jobctl_setsid(p)
  PROVE  JobInv'
<1> NIL \notin Ids
  BY JobCtlAssumption DEF NIL
<1>1. PICK s \in Unused(sessions, NoSession), g \in Unused(pgrps, NoGroup) :
        LET ss == session_insert(session_remove(Listed(session_create(s, p), s, g), p), s, p)
            gs == pgrp_insert(pgrp_remove(pgrp_create(g, s, p), p), g, p)
        IN IF LastOfGroup(p) \/ LastOfSession(p) THEN Crash("todo")
           ELSE /\ sessions' = [ss EXCEPT ![s].refs = @ - 1] /\ pgrps' = [gs EXCEPT ![g].refs = @ - 1]
                /\ proc' = [proc EXCEPT ![p].session = s, ![p].pgrp = g]
                /\ tables' = [tables EXCEPT !.sid[p] = s, !.pgid[p] = g]
                /\ UNCHANGED crashed
  BY ZenonT(40) DEF jobctl_setsid
<1>2. CASE LastOfGroup(p) \/ LastOfSession(p)
  BY <1>1, <1>2, JobCrash
<1>3. CASE ~(LastOfGroup(p) \/ LastOfSession(p))
  <2> DEFINE s0 == proc[p].session
             g0 == proc[p].pgrp
  <2>1. /\ s \in Ids /\ sessions[s].refs = 0 /\ sessions[s].members = {}
        /\ sessions[s].pgrps = {} /\ s0 # s
        /\ g \in Ids /\ pgrps[g].refs = 0 /\ pgrps[g].members = {}
        /\ pgrps[g].session = NIL /\ g0 # g
    BY NotUsed
  <2>2. /\ sessions' \in [Ids -> SessionRecord]
        /\ sessions'[s].refs = 2 /\ sessions'[s].members = {p} /\ sessions'[s].pgrps = {g}
        /\ \A i \in Ids : i # s /\ i # s0 => sessions'[i] = sessions[i]
        /\ s0 # NIL => /\ sessions'[s0].members = sessions[s0].members \ {p}
                       /\ sessions'[s0].refs = sessions[s0].refs - 1
                       /\ sessions'[s0].pgrps = sessions[s0].pgrps
    <3>1. LET ss == session_insert(session_remove(Listed(session_create(s, p), s, g), p), s, p)
          IN  sessions' = [ss EXCEPT ![s].refs = @ - 1]
      BY <1>1, <1>3
    <3>2. g \in Ids
      BY <2>1
    <3> HIDE <2>1
    <3> QED BY <3>1, <3>2, SetsidSessions
  <2>3. /\ pgrps' \in [Ids -> GroupRecord]
        /\ pgrps'[g].refs = 1 /\ pgrps'[g].members = {p} /\ pgrps'[g].session = s
        /\ \A i \in Ids : i # g /\ i # g0 => pgrps'[i] = pgrps[i]
        /\ g0 # NIL => /\ pgrps'[g0].members = pgrps[g0].members \ {p}
                       /\ pgrps'[g0].refs = pgrps[g0].refs - 1
                       /\ pgrps'[g0].session = pgrps[g0].session
    <3>1. LET gs == pgrp_insert(pgrp_remove(pgrp_create(g, s, p), p), g, p)
          IN  pgrps' = [gs EXCEPT ![g].refs = @ - 1]
      BY <1>1, <1>3
    <3>2. s \in Ids
      BY <2>1
    <3> HIDE <2>1
    <3> QED BY <3>1, <3>2, SetsidGroups
  <2>4. /\ proc' = [proc EXCEPT ![p].session = s, ![p].pgrp = g]
        /\ tables' = [tables EXCEPT !.sid[p] = s, !.pgid[p] = g]
    BY <1>1, <1>3
  <2>5. s \in Id /\ g \in Id
    BY <2>1 DEF Id
  <2>6. /\ proc' \in [Pids -> ProcRecord]
        /\ \A q \in Pids : q # p => proc'[q] = proc[q]
        /\ proc'[p].session = s /\ proc'[p].pgrp = g /\ proc'[p].status = "alive"
    <3>1. proc \in [Pids -> ProcRecord] /\ proc[p].status = "alive"
      BY DEF JobInv, JobTyped, jobctl_setsid
    <3>2. proc' \in [Pids -> ProcRecord]
      BY <2>4, <2>5, <3>1 DEF ProcRecord
    <3> QED BY <2>4, <3>1, <3>2 DEF ProcRecord
  <2>7. /\ tables' \in [pid : Members, pgid : IdTable, sid : IdTable]
        /\ tables'.pgid[p] = g /\ \A n \in Pids : n # p => tables'.pgid[n] = tables.pgid[n]
    <3>1. tables \in [pid : Members, pgid : IdTable, sid : IdTable]
      BY DEF JobInv, JobTyped
    <3>2. /\ [tables.sid EXCEPT ![p] = s] \in IdTable
          /\ [tables.pgid EXCEPT ![p] = g] \in IdTable
      BY <2>5, <3>1 DEF IdTable
    <3>3. tables' = [tables EXCEPT !.sid = [tables.sid EXCEPT ![p] = s],
                                   !.pgid = [tables.pgid EXCEPT ![p] = g]]
      BY <2>4, <3>1
    <3>4. tables'.pgid = [tables.pgid EXCEPT ![p] = g]
      BY <3>1, <3>3
    <3> QED BY <3>1, <3>2, <3>3, <3>4 DEF IdTable
  <2>8. JobTyped'
    BY <2>2, <2>3, <2>6, <2>7 DEF JobTyped
  <2>9. s0 # NIL => /\ s0 \in Ids /\ p \in sessions[s0].members /\ g0 \in Ids
                    /\ p \in pgrps[g0].members /\ pgrps[g0].session = s0 /\ pgrps[g0].refs - 1 > 0
    BY <1>3, MayGo
  <2>10. s0 = NIL <=> g0 = NIL
    BY DEF JobInv, JobProcs
  <2>11. \A i \in Ids : i # g => pgrps'[i].session = pgrps[i].session
    BY <2>3, <2>9, <2>10
  <2> HIDE <2>4, <1>1, <1>3
  <2>12. JobProcs'
    <3> SUFFICES ASSUME NEW q \in Pids
                 PROVE  /\ proc'[q].session = NIL <=> proc'[q].pgrp = NIL
                        /\ proc'[q].status = "unborn" => proc'[q].session = NIL
                        /\ proc'[q].status = "linking" =>
                             /\ proc'[q].session = NIL
                             /\ proc'[q].inherits[1] \in Ids /\ proc'[q].inherits[2] \in Ids
                             /\ pgrps'[proc'[q].inherits[2]].session = proc'[q].inherits[1]
      BY DEF JobProcs
    <3>1. CASE q = p
      BY <3>1, <2>1, <2>6
    <3>2. CASE q # p
      <4>1. proc'[q] = proc[q]
        BY <3>2, <2>6
      <4>2. CASE proc[q].status = "linking"
        <5>1. /\ proc[q].session = NIL
              /\ proc[q].inherits[1] \in Ids /\ proc[q].inherits[2] \in Ids
              /\ pgrps[proc[q].inherits[2]].session = proc[q].inherits[1]
          BY <4>2 DEF JobInv, JobProcs
        <5>2. proc[q].inherits[2] # g
          BY <5>1, <2>1
        <5>3. pgrps'[proc[q].inherits[2]].session = proc[q].inherits[1]
          BY <5>1, <5>2, <2>11
        <5>4. proc[q].session = NIL <=> proc[q].pgrp = NIL
          BY DEF JobInv, JobProcs
        <5> QED BY <4>1, <4>2, <5>1, <5>3, <5>4
      <4>3. CASE proc[q].status # "linking"
        BY <4>1, <4>3 DEF JobInv, JobProcs
      <4> QED BY <4>2, <4>3
    <3> QED BY <3>1, <3>2
  <2>13. JobGroups'
    <3>1. ASSUME NEW i \in Ids, NEW h \in Ids
          PROVE  h \in sessions'[i].pgrps <=> pgrps'[h].session = i
      <4>1. h \in sessions[i].pgrps <=> pgrps[h].session = i
        BY DEF JobInv, JobGroups
      <4>2. CASE i = s
        BY <4>1, <4>2, <2>1, <2>2, <2>3, <2>11
      <4>3. CASE i # s
        <5>1. sessions'[i].pgrps = sessions[i].pgrps
          BY <4>3, <2>2, <2>9
        <5>2. CASE h = g
          BY <4>1, <4>3, <5>1, <5>2, <2>1, <2>3
        <5>3. CASE h # g
          BY <4>1, <5>1, <5>3, <2>11
        <5> QED BY <5>2, <5>3
      <4> QED BY <4>2, <4>3
    <3>2. ASSUME NEW h \in Ids, pgrps'[h].session # NIL
          PROVE  pgrps'[h].refs > 0
      <4>1. CASE h = g
        BY <4>1, <2>3
      <4>2. CASE h # g /\ h = g0
        BY <4>2, <2>3, <2>9, <2>10
      <4>3. CASE h # g /\ h # g0
        <5>1. pgrps'[h] = pgrps[h]
          BY <4>3, <2>3
        <5> QED BY <5>1, <3>2 DEF JobInv, JobGroups
      <4> QED BY <4>1, <4>2, <4>3
    <3>3. ASSUME NEW n \in Pids, tables'.pgid[n] # NIL
          PROVE  pgrps'[tables'.pgid[n]].session # NIL
      <4>1. CASE n = p
        BY <4>1, <2>1, <2>3, <2>7
      <4>2. CASE n # p
        <5>1. tables'.pgid[n] = tables.pgid[n]
          BY <4>2, <2>7
        <5>2. pgrps[tables.pgid[n]].session # NIL /\ tables.pgid[n] \in Ids
          BY <3>3, <5>1 DEF JobInv, JobTyped, JobGroups, IdTable, Id
        <5> QED BY <5>1, <5>2, <2>1, <2>11
      <4> QED BY <4>1, <4>2
    <3> QED BY <3>1, <3>2, <3>3 DEF JobGroups
  <2>14. JobMembers'
    <3>1. \A i \in Ids : sessions'[i].members = IF proc'[p].session = i
                           THEN sessions[i].members \cup {p} ELSE sessions[i].members \ {p}
      <4> SUFFICES ASSUME NEW i \in Ids
                   PROVE  sessions'[i].members = IF i = s
                           THEN sessions[i].members \cup {p} ELSE sessions[i].members \ {p}
        BY <2>6
      <4>1. CASE i = s
        BY <4>1, <2>1, <2>2
      <4>2. CASE i # s /\ i = s0
        BY <4>2, <2>2
      <4>3. CASE i # s /\ i # s0
        <5>1. p \notin sessions[i].members /\ sessions'[i] = sessions[i]
          BY <4>3, <2>2 DEF JobInv, JobMembers
        <5> QED BY <5>1, <4>3
      <4> QED BY <4>1, <4>2, <4>3
    <3>2. \A i \in Ids : pgrps'[i].members = IF proc'[p].pgrp = i
                           THEN pgrps[i].members \cup {p} ELSE pgrps[i].members \ {p}
      <4> SUFFICES ASSUME NEW i \in Ids
                   PROVE  pgrps'[i].members = IF i = g
                           THEN pgrps[i].members \cup {p} ELSE pgrps[i].members \ {p}
        BY <2>6
      <4>1. CASE i = g
        BY <4>1, <2>1, <2>3
      <4>2. CASE i # g /\ i = g0
        BY <4>2, <2>3
      <4>3. CASE i # g /\ i # g0
        <5>1. p \notin pgrps[i].members /\ pgrps'[i] = pgrps[i]
          BY <4>3, <2>3 DEF JobInv, JobMembers
        <5> QED BY <5>1, <4>3
      <4> QED BY <4>1, <4>2, <4>3
    <3>3. \A i \in Ids : pgrps[i].session # NIL => pgrps'[i].session = pgrps[i].session
      BY <2>1, <2>11
    <3>4. \A q \in Pids : q # p => proc'[q].session = proc[q].session /\ proc'[q].pgrp = proc[q].pgrp
      BY <2>6
    <3>5. \A i \in Ids : proc'[p].pgrp = i => proc'[p].session = pgrps'[i].session
      BY <2>3, <2>6
    <3> QED BY <2>8, <3>1, <3>2, <3>3, <3>4, <3>5, MembersMoved
  <2>15. JobCounts'
    <3> SUFFICES ASSUME NEW i \in Ids
                 PROVE  /\ sessions'[i].refs = Cardinality(sessions'[i].members)
                                               + Cardinality(sessions'[i].pgrps)
                        /\ pgrps'[i].refs - Cardinality(pgrps'[i].members) \in {0, 1}
      BY DEF JobCounts
    <3>1. sessions'[i].refs = Cardinality(sessions'[i].members) + Cardinality(sessions'[i].pgrps)
      <4>1. CASE i = s
        <5>1. Cardinality({p}) = 1 /\ Cardinality({g}) = 1
          BY FS_Singleton
        <5> QED BY <4>1, <5>1, <2>2
      <4>2. CASE i # s /\ i = s0
        BY <4>2, <2>2, <2>8, <2>9, SessionCounted
      <4>3. CASE i # s /\ i # s0
        BY <4>3, <2>1, <2>2, <2>8, SessionCounted
      <4> QED BY <4>1, <4>2, <4>3
    <3>2. pgrps'[i].refs - Cardinality(pgrps'[i].members) \in {0, 1}
      <4>1. CASE i = g
        <5>1. Cardinality({p}) = 1
          BY FS_Singleton
        <5> QED BY <4>1, <5>1, <2>3
      <4>2. CASE i # g /\ i = g0
        BY <4>2, <2>3, <2>8, <2>9, <2>10, GroupCounted
      <4>3. CASE i # g /\ i # g0
        BY <4>3, <2>3, <2>8, GroupCounted
      <4> QED BY <4>1, <4>2, <4>3
    <3> QED BY <3>1, <3>2
  <2> QED BY <2>8, <2>12, <2>13, <2>14, <2>15 DEF JobInv
<1> QED BY <1>2, <1>3

\* fork reads the parent's session and group; nobody moves.
LEMMA JobForkReads ==
  ASSUME JobInv, NEW p \in Pids, NEW c \in Pids, ForkReads(p, c)
  PROVE  JobInv'
<1> DEFINE new == [parent |-> p, status |-> "linking", session |-> NIL, pgrp |-> NIL,
                   inherits |-> <<proc[p].session, proc[p].pgrp>>]
<1>1. /\ proc[p].status = "alive" /\ proc[p].session # NIL /\ proc[c].status = "unborn" /\ c # p
      /\ proc' = [proc EXCEPT ![p].status = "forking", ![c] = new]
      /\ tables' = [tables EXCEPT !.pid = tables.pid \cup {c}]
      /\ UNCHANGED <<sessions, pgrps>>
  BY DEF ForkReads
<1>2. proc \in [Pids -> ProcRecord]
  BY DEF JobInv, JobTyped
<1>3. proc[p].session \in Ids /\ proc[p].pgrp \in Ids
      /\ pgrps[proc[p].pgrp].session = proc[p].session
  BY <1>1, MayGo
<1>4. new \in ProcRecord
  <2>1. p \in Pid /\ NIL \in Id /\ "linking" \in Status
    BY DEF Pid, Id, Status
  <2>2. <<proc[p].session, proc[p].pgrp>> \in Link
    BY <1>3 DEF Link, Id
  <2> QED BY <2>1, <2>2 DEF ProcRecord
<1>5. new.session = NIL /\ new.pgrp = NIL /\ new.status = "linking"
      /\ new.inherits[1] = proc[p].session /\ new.inherits[2] = proc[p].pgrp
  OBVIOUS
<1> HIDE DEF new
<1>6. "forking" \in Status
  BY DEF Status
<1>7. proc' \in [Pids -> ProcRecord]
  BY <1>1, <1>2, <1>4, <1>6 DEF ProcRecord
<1>8. /\ proc'[c] = new /\ \A q \in Pids : q # p /\ q # c => proc'[q] = proc[q]
      /\ proc'[p].session = proc[p].session /\ proc'[p].pgrp = proc[p].pgrp
      /\ proc'[p].status = "forking"
  BY <1>1, <1>2 DEF ProcRecord
<1>9. proc[c].session = NIL /\ proc[c].pgrp = NIL
  BY <1>1 DEF JobInv, JobProcs
<1>10. \A q \in Pids : proc'[q].session = proc[q].session /\ proc'[q].pgrp = proc[q].pgrp
  BY <1>5, <1>8, <1>9
<1>11. tables' \in [pid : Members, pgid : IdTable, sid : IdTable] /\ tables'.pgid = tables.pgid
  <2>1. tables.pid \cup {c} \in Members
    BY DEF JobInv, JobTyped, Members
  <2> QED BY <1>1, <2>1 DEF JobInv, JobTyped
<1>12. JobTyped'
  BY <1>1, <1>7, <1>11 DEF JobInv, JobTyped
<1>13. JobGroups'
  BY <1>1, <1>11 DEF JobInv, JobGroups
<1>14. JobMembers'
  <2>1. UNCHANGED <<sessions, pgrps>>
    BY <1>1
  <2> HIDE <1>1
  <2> QED BY <2>1, <1>10 DEF JobInv, JobMembers
<1>15. JobCounts'
  BY <1>1 DEF JobInv, JobCounts
<1>16. JobProcs'
  <2> SUFFICES ASSUME NEW q \in Pids
               PROVE  /\ proc'[q].session = NIL <=> proc'[q].pgrp = NIL
                      /\ proc'[q].status = "unborn" => proc'[q].session = NIL
                      /\ proc'[q].status = "linking" =>
                           /\ proc'[q].session = NIL
                           /\ proc'[q].inherits[1] \in Ids /\ proc'[q].inherits[2] \in Ids
                           /\ pgrps[proc'[q].inherits[2]].session = proc'[q].inherits[1]
    BY <1>1 DEF JobProcs
  <2>1. CASE q = p
    BY <2>1, <1>3, <1>8 DEF JobInv, JobProcs
  <2>2. CASE q = c
    BY <2>2, <1>3, <1>5, <1>8
  <2>3. CASE q # p /\ q # c
    BY <2>3, <1>8 DEF JobInv, JobProcs
  <2> QED BY <2>1, <2>2, <2>3
<1> QED BY <1>12, <1>13, <1>14, <1>15, <1>16 DEF JobInv

\* The inserts of fork with what was read earlier: the group is still in that session
\* and both are still counted.
LEMMA JobForkInserts ==
  ASSUME JobInv, NEW c \in Pids, ForkInserts(c)
  PROVE  JobInv'
<1> DEFINE s == proc[c].inherits[1]
           g == proc[c].inherits[2]
           a == proc[c].parent
<1>1. /\ proc[c].status = "linking"
      /\ sessions' = session_insert(sessions, s, c) /\ pgrps' = pgrp_insert(pgrps, g, c)
      /\ proc' = [proc EXCEPT ![c].status = "alive", ![c].session = s, ![c].pgrp = g,
                    ![a].status = "alive"]
      /\ UNCHANGED tables
  BY DEF ForkInserts
<1>2. /\ proc[c].session = NIL /\ proc[c].pgrp = NIL /\ s \in Ids /\ g \in Ids
      /\ pgrps[g].session = s
  BY <1>1 DEF JobInv, JobProcs
<1>n. NIL \notin Ids
  BY JobCtlAssumption DEF NIL
<1>3. proc \in [Pids -> ProcRecord] /\ a \in Pid /\ s \in Id /\ g \in Id
  BY <1>2 DEF JobInv, JobTyped, ProcRecord, Id
<1> HIDE DEF s, g, a
<1>4. "alive" \in Status
  BY DEF Status
<1>5. proc' \in [Pids -> ProcRecord]
  <2> DEFINE P == [proc EXCEPT ![c].status = "alive", ![c].session = s, ![c].pgrp = g]
  <2>1. P \in [Pids -> ProcRecord]
    BY <1>3, <1>4 DEF ProcRecord
  <2>2. proc' = [P EXCEPT ![a].status = "alive"]
    BY <1>1
  <2> HIDE DEF P
  <2> QED BY <2>1, <2>2, <1>4 DEF ProcRecord
<1>6. /\ proc'[c].session = s /\ proc'[c].pgrp = g /\ proc'[c].status = "alive"
      /\ \A q \in Pids : q # c =>
           /\ proc'[q].session = proc[q].session /\ proc'[q].pgrp = proc[q].pgrp
           /\ proc'[q].inherits = proc[q].inherits
           /\ proc'[q].status = proc[q].status \/ proc'[q].status = "alive"
  <2>1. /\ proc'[c].session = s /\ proc'[c].pgrp = g /\ proc'[c].status = "alive"
    BY <1>1, <1>3 DEF ProcRecord
  <2>2. ASSUME NEW q \in Pids, q # c
        PROVE  /\ proc'[q].session = proc[q].session /\ proc'[q].pgrp = proc[q].pgrp
               /\ proc'[q].inherits = proc[q].inherits
               /\ proc'[q].status = proc[q].status \/ proc'[q].status = "alive"
    <3>1. CASE q = a
      BY <1>1, <1>3, <2>2, <3>1 DEF ProcRecord
    <3>2. CASE q # a
      <4>1. proc'[q] = proc[q]
        BY <1>1, <1>3, <2>2, <3>2
      <4> QED BY <4>1
    <3> QED BY <3>1, <3>2
  <2> QED BY <2>1, <2>2
<1>7. /\ sessions' \in [Ids -> SessionRecord]
      /\ \A i \in Ids : i # s => sessions'[i] = sessions[i]
      /\ sessions'[s].refs = sessions[s].refs + 1
      /\ sessions'[s].members = With(sessions[s].members, c)
      /\ sessions'[s].pgrps = sessions[s].pgrps
  BY <1>1, <1>2, SessionInsert DEF JobInv, JobTyped
<1>8. /\ pgrps' \in [Ids -> GroupRecord]
      /\ \A i \in Ids : i # g => pgrps'[i] = pgrps[i]
      /\ pgrps'[g].refs = pgrps[g].refs + 1
      /\ pgrps'[g].members = With(pgrps[g].members, c)
      /\ pgrps'[g].session = pgrps[g].session
  BY <1>1, <1>2, GroupInsert DEF JobInv, JobTyped
<1>9. JobTyped'
  BY <1>1, <1>5, <1>7, <1>8 DEF JobInv, JobTyped
<1>10. \A i \in Ids : pgrps'[i].session = pgrps[i].session
  BY <1>8
<1>11. \A i \in Ids : c \notin sessions[i].members /\ c \notin pgrps[i].members
  BY <1>2, <1>n DEF JobInv, JobMembers
<1>12. tables' = tables
  BY <1>1
<1> HIDE <1>1
<1>13. JobProcs'
  <2> SUFFICES ASSUME NEW q \in Pids
               PROVE  /\ proc'[q].session = NIL <=> proc'[q].pgrp = NIL
                      /\ proc'[q].status = "unborn" => proc'[q].session = NIL
                      /\ proc'[q].status = "linking" =>
                           /\ proc'[q].session = NIL
                           /\ proc'[q].inherits[1] \in Ids /\ proc'[q].inherits[2] \in Ids
                           /\ pgrps'[proc'[q].inherits[2]].session = proc'[q].inherits[1]
    BY DEF JobProcs
  <2>1. CASE q = c
    BY <2>1, <1>2, <1>6, <1>n
  <2>2. CASE q # c
    <3>1. /\ proc[q].session = NIL <=> proc[q].pgrp = NIL
          /\ proc[q].status = "unborn" => proc[q].session = NIL
          /\ proc[q].status = "linking" =>
               /\ proc[q].session = NIL
               /\ proc[q].inherits[1] \in Ids /\ proc[q].inherits[2] \in Ids
               /\ pgrps[proc[q].inherits[2]].session = proc[q].inherits[1]
      BY DEF JobInv, JobProcs
    <3> QED BY <2>2, <3>1, <1>6, <1>10
  <2> QED BY <2>1, <2>2
<1>14. JobGroups'
  <2>1. \A i, h \in Ids : h \in sessions'[i].pgrps <=> pgrps'[h].session = i
    BY <1>7, <1>10 DEF JobInv, JobGroups
  <2>2. ASSUME NEW h \in Ids, pgrps'[h].session # NIL
        PROVE  pgrps'[h].refs > 0
    <3>1. pgrps[h].refs \in Int /\ pgrps[h].refs > 0
      BY <2>2, <1>10 DEF JobInv, JobTyped, JobGroups, GroupRecord
    <3>2. pgrps'[h].refs = pgrps[h].refs \/ pgrps'[h].refs = pgrps[h].refs + 1
      BY <1>8
    <3> QED BY <3>1, <3>2
  <2>3. ASSUME NEW n \in Pids, tables.pgid[n] # NIL
        PROVE  pgrps'[tables.pgid[n]].session # NIL
    <3>1. tables.pgid[n] \in Ids /\ pgrps[tables.pgid[n]].session # NIL
      BY <2>3 DEF JobInv, JobTyped, JobGroups, IdTable, Id
    <3> QED BY <3>1, <1>10
  <2> QED BY <2>1, <2>2, <2>3, <1>12 DEF JobGroups
<1>15. JobMembers'
  <2>1. \A i \in Ids : sessions'[i].members = IF proc'[c].session = i
                         THEN sessions[i].members \cup {c} ELSE sessions[i].members \ {c}
    <3> SUFFICES ASSUME NEW i \in Ids
                 PROVE  sessions'[i].members = IF i = s
                         THEN sessions[i].members \cup {c} ELSE sessions[i].members \ {c}
      BY <1>6
    <3>1. CASE i = s
      BY <3>1, <1>7 DEF With
    <3>2. CASE i # s
      BY <3>2, <1>7, <1>11
    <3> QED BY <3>1, <3>2
  <2>2. \A i \in Ids : pgrps'[i].members = IF proc'[c].pgrp = i
                         THEN pgrps[i].members \cup {c} ELSE pgrps[i].members \ {c}
    <3> SUFFICES ASSUME NEW i \in Ids
                 PROVE  pgrps'[i].members = IF i = g
                         THEN pgrps[i].members \cup {c} ELSE pgrps[i].members \ {c}
      BY <1>6
    <3>1. CASE i = g
      BY <3>1, <1>8 DEF With
    <3>2. CASE i # g
      BY <3>2, <1>8, <1>11
    <3> QED BY <3>1, <3>2
  <2>3. \A q \in Pids : q # c => proc'[q].session = proc[q].session /\ proc'[q].pgrp = proc[q].pgrp
    BY <1>6
  <2>4. \A i \in Ids : proc'[c].pgrp = i => proc'[c].session = pgrps'[i].session
    BY <1>2, <1>6, <1>10
  <2>5. \A i \in Ids : pgrps[i].session # NIL => pgrps'[i].session = pgrps[i].session
    BY <1>10
  <2> QED BY <1>9, <2>1, <2>2, <2>3, <2>4, <2>5, MembersMoved
<1>16. JobCounts'
  <2>1. ASSUME NEW i \in Ids
        PROVE  sessions'[i].refs = Cardinality(sessions'[i].members) + Cardinality(sessions'[i].pgrps)
    <3>1. CASE i = s
      <4>1. sessions'[s].members = sessions[s].members \cup {c}
        BY <1>7 DEF With
      <4> QED BY <3>1, <4>1, <1>2, <1>7, <1>9, <1>11, SessionCounted
    <3>2. CASE i # s
      BY <3>2, <1>2, <1>7, <1>9, SessionCounted
    <3> QED BY <3>1, <3>2
  <2>2. ASSUME NEW i \in Ids
        PROVE  pgrps'[i].refs - Cardinality(pgrps'[i].members) \in {0, 1}
    <3>1. CASE i = g
      <4>1. pgrps'[g].members = pgrps[g].members \cup {c}
        BY <1>8 DEF With
      <4> QED BY <3>1, <4>1, <1>8, <1>9, <1>11, GroupCounted
    <3>2. CASE i # g
      BY <3>2, <1>8, <1>9, GroupCounted
    <3> QED BY <3>1, <3>2
  <2> QED BY <2>1, <2>2 DEF JobCounts
<1> QED BY <1>9, <1>13, <1>14, <1>15, <1>16 DEF JobInv

\* process_destroy: unless it was the last, p is counted nowhere afterwards.
LEMMA JobDestroy ==
  ASSUME JobInv, NEW p \in Pids, process_destroy(p)
  PROVE  JobInv'
<1>1. CASE LastOfGroup(p) \/ LastOfSession(p)
  BY <1>1, JobCrash DEF process_destroy
<1>2. CASE ~(LastOfGroup(p) \/ LastOfSession(p))
  <2> DEFINE s0 == proc[p].session
             g0 == proc[p].pgrp
             end == [proc[p] EXCEPT !.session = NIL, !.pgrp = NIL, !.status = "destroyed"]
  <2>1. /\ sessions' = session_remove(sessions, p) /\ pgrps' = pgrp_remove(pgrps, p)
        /\ proc' = [q \in Pids |-> IF q = p THEN end
                       ELSE IF proc[q].parent = p THEN [proc[q] EXCEPT !.parent = 1] ELSE proc[q]]
        /\ UNCHANGED tables
    BY <1>2 DEF process_destroy
  <2>2. proc \in [Pids -> ProcRecord]
    BY DEF JobInv, JobTyped
  <2>3. end \in ProcRecord /\ end.session = NIL /\ end.pgrp = NIL /\ end.status = "destroyed"
    <3>1. NIL \in Id /\ "destroyed" \in Status /\ proc[p] \in ProcRecord
      BY <2>2 DEF Id, Status
    <3> QED BY <3>1 DEF ProcRecord
  <2> HIDE DEF end
  <2>4. ASSUME NEW q \in Pids
        PROVE  [proc[q] EXCEPT !.parent = 1] \in ProcRecord
    <3>1. 1 \in Pid /\ proc[q] \in ProcRecord
      BY <2>2, JobCtlAssumption DEF Pid
    <3> DEFINE one == 1
    <3>2. one \in Pid
      BY <3>1
    <3> HIDE DEF one
    <3>3. [proc[q] EXCEPT !.parent = one] \in ProcRecord
      BY <3>1, <3>2 DEF ProcRecord
    <3> QED BY <3>3 DEF one
  <2>5. proc' \in [Pids -> ProcRecord]
    BY <2>1, <2>2, <2>3, <2>4
  <2>6. /\ proc'[p].session = NIL /\ proc'[p].pgrp = NIL /\ proc'[p].status = "destroyed"
        /\ \A q \in Pids : q # p =>
             /\ proc'[q].session = proc[q].session /\ proc'[q].pgrp = proc[q].pgrp
             /\ proc'[q].inherits = proc[q].inherits /\ proc'[q].status = proc[q].status
    <3>1. proc'[p] = end
      BY <2>1
    <3>2. ASSUME NEW q \in Pids, q # p
          PROVE  /\ proc'[q].session = proc[q].session /\ proc'[q].pgrp = proc[q].pgrp
                 /\ proc'[q].inherits = proc[q].inherits /\ proc'[q].status = proc[q].status
      <4>1. proc'[q] = IF proc[q].parent = p THEN [proc[q] EXCEPT !.parent = 1] ELSE proc[q]
        BY <2>1, <3>2
      <4> QED BY <4>1, <2>2 DEF ProcRecord
    <3> QED BY <3>1, <3>2, <2>3
  <2>7. /\ sessions' \in [Ids -> SessionRecord]
        /\ \A i \in Ids : i # s0 => sessions'[i] = sessions[i]
        /\ s0 # NIL => /\ sessions'[s0].refs = sessions[s0].refs - 1
                       /\ sessions'[s0].members = sessions[s0].members \ {p}
                       /\ sessions'[s0].pgrps = sessions[s0].pgrps
    <3>1. JobTyped /\ sessions \in [Ids -> SessionRecord]
      BY DEF JobInv, JobTyped
    <3>2. sessions' = session_remove(sessions, p)
      BY <2>1
    <3> HIDE <2>1, <2>2, <2>5, <2>6
    <3> QED BY <3>1, <3>2, SessionRemove, SMTT(30)
  <2>8. /\ pgrps' \in [Ids -> GroupRecord]
        /\ \A i \in Ids : i # g0 => pgrps'[i] = pgrps[i]
        /\ g0 # NIL => /\ pgrps'[g0].refs = pgrps[g0].refs - 1
                       /\ pgrps'[g0].members = pgrps[g0].members \ {p}
                       /\ pgrps'[g0].session = pgrps[g0].session
    BY <2>1, GroupRemove DEF JobInv, JobTyped
  <2>9. tables' = tables
    BY <2>1
  <2> HIDE <2>1, <2>4
  <2>n. NIL \notin Ids
    BY JobCtlAssumption DEF NIL
  <2>10. JobTyped'
    BY <2>5, <2>7, <2>8, <2>9 DEF JobInv, JobTyped
  <2>11. s0 # NIL => /\ s0 \in Ids /\ p \in sessions[s0].members /\ g0 \in Ids
                     /\ p \in pgrps[g0].members /\ pgrps[g0].session = s0 /\ pgrps[g0].refs - 1 > 0
    BY <1>2, MayGo
  <2>12. s0 = NIL <=> g0 = NIL
    BY DEF JobInv, JobProcs
  <2>13. \A i \in Ids : pgrps'[i].session = pgrps[i].session
    BY <2>8, <2>n
  <2>14. \A i \in Ids : sessions'[i].pgrps = sessions[i].pgrps
    BY <2>7, <2>n
  <2>15. JobProcs'
    <3> SUFFICES ASSUME NEW q \in Pids
                 PROVE  /\ proc'[q].session = NIL <=> proc'[q].pgrp = NIL
                        /\ proc'[q].status = "unborn" => proc'[q].session = NIL
                        /\ proc'[q].status = "linking" =>
                             /\ proc'[q].session = NIL
                             /\ proc'[q].inherits[1] \in Ids /\ proc'[q].inherits[2] \in Ids
                             /\ pgrps'[proc'[q].inherits[2]].session = proc'[q].inherits[1]
      BY DEF JobProcs
    <3>1. CASE q = p
      BY <3>1, <2>6
    <3>2. CASE q # p
      <4>1. /\ proc[q].session = NIL <=> proc[q].pgrp = NIL
            /\ proc[q].status = "unborn" => proc[q].session = NIL
            /\ proc[q].status = "linking" =>
                 /\ proc[q].session = NIL
                 /\ proc[q].inherits[1] \in Ids /\ proc[q].inherits[2] \in Ids
                 /\ pgrps[proc[q].inherits[2]].session = proc[q].inherits[1]
        BY DEF JobInv, JobProcs
      <4> QED BY <3>2, <4>1, <2>6, <2>13
    <3> QED BY <3>1, <3>2
  <2>16. JobGroups'
    <3>1. \A i, h \in Ids : h \in sessions'[i].pgrps <=> pgrps'[h].session = i
      BY <2>13, <2>14 DEF JobInv, JobGroups
    <3>2. ASSUME NEW h \in Ids, pgrps'[h].session # NIL
          PROVE  pgrps'[h].refs > 0
      <4>1. CASE h = g0
        BY <4>1, <2>8, <2>11, <2>12, <2>n
      <4>2. CASE h # g0
        BY <4>2, <3>2, <2>8 DEF JobInv, JobGroups
      <4> QED BY <4>1, <4>2
    <3>3. ASSUME NEW n \in Pids, tables.pgid[n] # NIL
          PROVE  pgrps'[tables.pgid[n]].session # NIL
      <4>1. tables.pgid[n] \in Ids /\ pgrps[tables.pgid[n]].session # NIL
        BY <3>3 DEF JobInv, JobTyped, JobGroups, IdTable, Id
      <4> QED BY <4>1, <2>13
    <3> QED BY <3>1, <3>2, <3>3, <2>9 DEF JobGroups
  <2>17. JobMembers'
    <3>1. \A i \in Ids : sessions'[i].members = IF proc'[p].session = i
                           THEN sessions[i].members \cup {p} ELSE sessions[i].members \ {p}
      <4> SUFFICES ASSUME NEW i \in Ids
                   PROVE  sessions'[i].members = sessions[i].members \ {p}
        BY <2>6, <2>n
      <4>1. CASE i = s0
        BY <4>1, <2>7, <2>n
      <4>2. CASE i # s0
        <5>1. p \notin sessions[i].members /\ sessions'[i] = sessions[i]
          BY <4>2, <2>7 DEF JobInv, JobMembers
        <5> QED BY <5>1
      <4> QED BY <4>1, <4>2
    <3>2. \A i \in Ids : pgrps'[i].members = IF proc'[p].pgrp = i
                           THEN pgrps[i].members \cup {p} ELSE pgrps[i].members \ {p}
      <4> SUFFICES ASSUME NEW i \in Ids
                   PROVE  pgrps'[i].members = pgrps[i].members \ {p}
        BY <2>6, <2>n
      <4>1. CASE i = g0
        BY <4>1, <2>8, <2>n
      <4>2. CASE i # g0
        <5>1. p \notin pgrps[i].members /\ pgrps'[i] = pgrps[i]
          BY <4>2, <2>8 DEF JobInv, JobMembers
        <5> QED BY <5>1
      <4> QED BY <4>1, <4>2
    <3>3. \A q \in Pids : q # p => proc'[q].session = proc[q].session /\ proc'[q].pgrp = proc[q].pgrp
      BY <2>6
    <3>4. \A i \in Ids : proc'[p].pgrp = i => proc'[p].session = pgrps'[i].session
      BY <2>6, <2>n
    <3>5. \A i \in Ids : pgrps[i].session # NIL => pgrps'[i].session = pgrps[i].session
      BY <2>13
    <3> QED BY <2>10, <3>1, <3>2, <3>3, <3>4, <3>5, MembersMoved
  <2>18. JobCounts'
    <3>1. ASSUME NEW i \in Ids
          PROVE  sessions'[i].refs = Cardinality(sessions'[i].members) + Cardinality(sessions'[i].pgrps)
      <4>1. CASE i = s0
        BY <4>1, <2>7, <2>10, <2>11, <2>n, SessionCounted
      <4>2. CASE i # s0
        BY <4>2, <2>7, <2>10, SessionCounted
      <4> QED BY <4>1, <4>2
    <3>2. ASSUME NEW i \in Ids
          PROVE  pgrps'[i].refs - Cardinality(pgrps'[i].members) \in {0, 1}
      <4>1. CASE i = g0
        BY <4>1, <2>8, <2>10, <2>11, <2>12, <2>n, GroupCounted
      <4>2. CASE i # g0
        BY <4>2, <2>8, <2>10, GroupCounted
      <4> QED BY <4>1, <4>2
    <3> QED BY <3>1, <3>2 DEF JobCounts
  <2> QED BY <2>10, <2>15, <2>16, <2>17, <2>18 DEF JobInv
<1> QED BY <1>1, <1>2

\* setpgid: p changes to a group of its session, which may be a new one or its own.
LEMMA JobJoin ==
  ASSUME JobInv, NEW p \in Pids, NEW g \in Ids, NEW s, s = proc[p].session, s # NIL,
         NEW ss \in [Ids -> SessionRecord], NEW gs \in [Ids -> GroupRecord],
         \A i \in Ids : i # s => ss[i] = sessions[i],
         \A i \in Ids : i # g => gs[i] = pgrps[i],
         ss[s].members = sessions[s].members, gs[g].session = s,
         \/ ss = sessions /\ gs = pgrps
         \/ /\ ss[s].refs = sessions[s].refs + 1 /\ ss[s].pgrps = With(sessions[s].pgrps, g)
            /\ pgrps[g].session = NIL /\ pgrps[g].members = {}
            /\ gs[g].refs = 1 /\ gs[g].members = {},
         Join(ss, gs, g, p)
  PROVE  JobInv'
<1> DEFINE g0 == proc[p].pgrp
<1>n. NIL \notin Ids
  BY JobCtlAssumption DEF NIL
<1>1. CASE LastOfGroup(p)
  BY <1>1, JobCrash DEF Join
<1>2. CASE ~LastOfGroup(p)
  <2>1. /\ sessions' = ss /\ pgrps' = pgrp_insert(pgrp_remove(gs, p), g, p)
        /\ proc' = [proc EXCEPT ![p].pgrp = g] /\ UNCHANGED tables
    BY <1>2 DEF Join
  <2>2. /\ s \in Ids /\ p \in sessions[s].members /\ g0 \in Ids
        /\ p \in pgrps[g0].members /\ pgrps[g0].session = s /\ pgrps[g0].refs - 1 > 0
        /\ pgrps[g0].refs \in Int
    BY <1>2, MayGo
  <2>3. /\ proc' \in [Pids -> ProcRecord] /\ \A q \in Pids : q # p => proc'[q] = proc[q]
        /\ proc'[p].session = s /\ proc'[p].pgrp = g
        /\ proc'[p].status = proc[p].status
    <3>1. g \in Id /\ proc \in [Pids -> ProcRecord]
      BY DEF Id, JobInv, JobTyped
    <3>2. proc' \in [Pids -> ProcRecord] /\ \A q \in Pids : q # p => proc'[q] = proc[q]
      BY <2>1, <3>1 DEF ProcRecord
    <3> QED BY <2>1, <3>1, <3>2 DEF ProcRecord
  <2> DEFINE g1 == pgrp_remove(gs, p)
  <2>4. /\ g1 \in [Ids -> GroupRecord]
        /\ \A j \in Ids : j # g0 => g1[j] = gs[j]
        /\ g0 # NIL => /\ g1[g0].refs = gs[g0].refs - 1
                       /\ g1[g0].members = gs[g0].members \ {p}
                       /\ g1[g0].session = gs[g0].session
    BY GroupRemove DEF JobInv
  <2>5. pgrps' = pgrp_insert(g1, g, p)
    BY <2>1
  <2> HIDE DEF g1
  <2>6. /\ pgrps' \in [Ids -> GroupRecord]
        /\ \A j \in Ids : j # g => pgrps'[j] = g1[j]
        /\ pgrps'[g].refs = g1[g].refs + 1 /\ pgrps'[g].members = With(g1[g].members, p)
        /\ pgrps'[g].session = g1[g].session
    BY <2>4, <2>5, GroupInsert
  <2>7. \A i \in Ids : i # g /\ i # g0 => pgrps'[i] = pgrps[i]
    BY <2>4, <2>6
  <2>8. g # g0 => /\ pgrps'[g0].refs = pgrps[g0].refs - 1
                  /\ pgrps'[g0].members = pgrps[g0].members \ {p}
                  /\ pgrps'[g0].session = pgrps[g0].session
                  /\ pgrps'[g].refs = gs[g].refs + 1
                  /\ pgrps'[g].members = With(gs[g].members, p)
    BY <2>2, <2>4, <2>6, <1>n
  <2>9. g = g0 => /\ gs = pgrps /\ ss = sessions
                  /\ pgrps'[g].refs = pgrps[g].refs /\ pgrps'[g].members = pgrps[g].members
    <3> SUFFICES ASSUME g = g0
                 PROVE  /\ gs = pgrps /\ ss = sessions
                        /\ pgrps'[g].refs = pgrps[g].refs /\ pgrps'[g].members = pgrps[g].members
      OBVIOUS
    <3>1. gs = pgrps /\ ss = sessions
      BY <2>2
    <3>2. pgrps'[g].refs = pgrps[g].refs
      BY <2>2, <2>4, <2>6, <3>1, <1>n
    <3>3. pgrps'[g].members = (pgrps[g].members \ {p}) \cup {p}
      BY <2>2, <2>4, <2>6, <3>1, <1>n DEF With
    <3>4. pgrps'[g].members = pgrps[g].members
      BY <3>3, <2>2
    <3> QED BY <3>1, <3>2, <3>4
  <2>10. pgrps'[g].session = s
    BY <2>2, <2>4, <2>6, <1>n
  <2>11. tables' = tables /\ sessions' = ss
    BY <2>1
  <2> HIDE <2>1
  <2>12. JobTyped'
    BY <2>3, <2>6, <2>11 DEF JobInv, JobTyped
  <2>13. pgrps[g].session \in {NIL, s}
    OBVIOUS
  <2>14. \A i \in Ids : pgrps[i].session # NIL => pgrps'[i].session = pgrps[i].session
    BY <2>7, <2>8, <2>10, <2>13
  <2>15. JobProcs'
    <3> SUFFICES ASSUME NEW q \in Pids
                 PROVE  /\ proc'[q].session = NIL <=> proc'[q].pgrp = NIL
                        /\ proc'[q].status = "unborn" => proc'[q].session = NIL
                        /\ proc'[q].status = "linking" =>
                             /\ proc'[q].session = NIL
                             /\ proc'[q].inherits[1] \in Ids /\ proc'[q].inherits[2] \in Ids
                             /\ pgrps'[proc'[q].inherits[2]].session = proc'[q].inherits[1]
      BY DEF JobProcs
    <3>1. /\ proc[q].session = NIL <=> proc[q].pgrp = NIL
          /\ proc[q].status = "unborn" => proc[q].session = NIL
          /\ proc[q].status = "linking" =>
               /\ proc[q].session = NIL
               /\ proc[q].inherits[1] \in Ids /\ proc[q].inherits[2] \in Ids
               /\ pgrps[proc[q].inherits[2]].session = proc[q].inherits[1]
      BY DEF JobInv, JobProcs
    <3>2. CASE q = p
      BY <3>1, <3>2, <2>2, <2>3, <1>n
    <3>3. CASE q # p
      BY <3>1, <3>3, <2>3, <2>14, <1>n
    <3> QED BY <3>2, <3>3
  <2>16. JobGroups'
    <3>1. ASSUME NEW i \in Ids, NEW h \in Ids
          PROVE  h \in sessions'[i].pgrps <=> pgrps'[h].session = i
      <4>1. h \in sessions[i].pgrps <=> pgrps[h].session = i
        BY DEF JobInv, JobGroups
      <4>2. CASE h # g
        <5>1. pgrps'[h].session = pgrps[h].session
          BY <4>2, <2>7, <2>8
        <5>2. h \in ss[i].pgrps <=> h \in sessions[i].pgrps
          BY <4>2 DEF With
        <5> QED BY <4>1, <5>1, <5>2, <2>11
      <4>3. CASE h = g
        <5>1. g \in ss[i].pgrps <=> i = s
          BY <4>1, <4>3, <2>2, <1>n DEF With
        <5> QED BY <4>3, <5>1, <2>10, <2>11
      <4> QED BY <4>2, <4>3
    <3>2. ASSUME NEW h \in Ids, pgrps'[h].session # NIL
          PROVE  pgrps'[h].refs > 0
      <4>1. CASE h # g /\ h # g0
        BY <4>1, <3>2, <2>7 DEF JobInv, JobGroups
      <4>2. CASE g # g0 /\ h = g0
        BY <4>2, <2>2, <2>8
      <4>3. CASE g = g0 /\ h = g
        BY <4>3, <2>2, <2>9
      <4>4. CASE g # g0 /\ h = g
        <5>1. gs[g].refs \in Int /\ gs[g].refs > 0
          BY <2>2, <1>n DEF JobInv, JobGroups, GroupRecord
        <5> QED BY <4>4, <5>1, <2>8
      <4> QED BY <4>1, <4>2, <4>3, <4>4
    <3>3. ASSUME NEW n \in Pids, tables.pgid[n] # NIL
          PROVE  pgrps'[tables.pgid[n]].session # NIL
      <4>1. tables.pgid[n] \in Ids /\ pgrps[tables.pgid[n]].session # NIL
        BY <3>3 DEF JobInv, JobTyped, JobGroups, IdTable, Id
      <4> QED BY <4>1, <2>14
    <3> QED BY <3>1, <3>2, <3>3, <2>11 DEF JobGroups
  <2>17. JobMembers'
    <3>1. \A i \in Ids : sessions'[i].members = IF proc'[p].session = i
                           THEN sessions[i].members \cup {p} ELSE sessions[i].members \ {p}
      <4> SUFFICES ASSUME NEW i \in Ids
                   PROVE  ss[i].members = IF i = s
                            THEN sessions[i].members \cup {p} ELSE sessions[i].members \ {p}
        BY <2>3, <2>11
      <4>1. ss[i].members = sessions[i].members
        OBVIOUS
      <4>2. i # s => p \notin sessions[i].members
        BY DEF JobInv, JobMembers
      <4> QED BY <4>1, <4>2, <2>2
    <3>2. \A i \in Ids : pgrps'[i].members = IF proc'[p].pgrp = i
                           THEN pgrps[i].members \cup {p} ELSE pgrps[i].members \ {p}
      <4> SUFFICES ASSUME NEW i \in Ids
                   PROVE  pgrps'[i].members = IF i = g
                            THEN pgrps[i].members \cup {p} ELSE pgrps[i].members \ {p}
        BY <2>3
      <4>1. CASE i = g /\ g = g0
        BY <4>1, <2>2, <2>9
      <4>2. CASE i = g /\ g # g0
        <5>1. gs[g].members = pgrps[g].members
          OBVIOUS
        <5> QED BY <4>2, <5>1, <2>8 DEF With
      <4>3. CASE i # g /\ i = g0
        BY <4>3, <2>8
      <4>4. CASE i # g /\ i # g0
        <5>1. p \notin pgrps[i].members /\ pgrps'[i] = pgrps[i]
          BY <4>4, <2>7 DEF JobInv, JobMembers
        <5> QED BY <5>1, <4>4
      <4> QED BY <4>1, <4>2, <4>3, <4>4
    <3>3. \A q \in Pids : q # p => proc'[q].session = proc[q].session /\ proc'[q].pgrp = proc[q].pgrp
      BY <2>3
    <3>4. \A i \in Ids : proc'[p].pgrp = i => proc'[p].session = pgrps'[i].session
      BY <2>3, <2>10
    <3> QED BY <2>12, <2>14, <3>1, <3>2, <3>3, <3>4, MembersMoved
  <2>18. JobCounts'
    <3>1. ASSUME NEW i \in Ids
          PROVE  sessions'[i].refs = Cardinality(sessions'[i].members) + Cardinality(sessions'[i].pgrps)
      <4>1. CASE sessions'[i] = sessions[i]
        BY <4>1, <2>12, SessionCounted
      <4>2. CASE i = s /\ ss # sessions
        <5>1. /\ sessions'[i].refs = sessions[i].refs + 1
              /\ sessions'[i].pgrps = sessions[i].pgrps \cup {g}
              /\ sessions'[i].members = sessions[i].members
          BY <4>2, <2>11 DEF With
        <5>2. g \notin sessions[i].pgrps
          BY <4>2, <1>n DEF JobInv, JobGroups
        <5> QED BY <5>1, <5>2, <2>12, SessionCounted
      <4>3. sessions'[i] = sessions[i] \/ (i = s /\ ss # sessions)
        BY <2>11
      <4> QED BY <4>1, <4>2, <4>3
    <3>2. ASSUME NEW i \in Ids
          PROVE  pgrps'[i].refs - Cardinality(pgrps'[i].members) \in {0, 1}
      <4>1. CASE i = g /\ g = g0
        BY <4>1, <2>9, <2>12, GroupCounted
      <4>2. CASE i = g /\ g # g0 /\ gs = pgrps
        <5>1. p \notin pgrps[g].members
          BY <4>2 DEF JobInv, JobMembers
        <5>2. /\ pgrps'[i].refs = pgrps[i].refs + 1
              /\ pgrps'[i].members = pgrps[i].members \cup {p}
          BY <4>2, <2>8 DEF With
        <5> QED BY <4>2, <5>1, <5>2, <2>12, GroupCounted
      <4>3. CASE i = g /\ g # g0 /\ gs # pgrps
        <5>1. pgrps'[i].members = {p} /\ pgrps'[i].refs = 2
          <6>1. gs[g].refs = 1 /\ gs[g].members = {}
            BY <4>3
          <6> QED BY <4>3, <6>1, <2>8 DEF With
        <5>2. Cardinality({p}) = 1
          BY FS_Singleton
        <5> QED BY <5>1, <5>2
      <4>4. CASE i # g /\ i = g0
        BY <4>4, <2>2, <2>8, <2>12, GroupCounted
      <4>5. CASE i # g /\ i # g0
        BY <4>5, <2>7, <2>12, GroupCounted
      <4> QED BY <4>1, <4>2, <4>3, <4>4, <4>5
    <3> QED BY <3>1, <3>2 DEF JobCounts
  <2> QED BY <2>12, <2>15, <2>16, <2>17, <2>18 DEF JobInv
<1> QED BY <1>1, <1>2

LEMMA JobSetpgid ==
  ASSUME JobInv, NEW p \in Pids, NEW pgid \in Pids, jobctl_setpgid(p, pgid)
  PROVE  JobInv'
<1> DEFINE s == proc[p].session
<1>1. s # NIL /\ s \in Ids /\ JobTyped
  BY MayGo DEF jobctl_setpgid, JobInv
<1>2. \/ \E g \in Unused(pgrps, NoGroup) :
           Join(Listed(sessions, s, g), pgrp_create(g, s, p), g, p)
      \/ FoundGroup(p, pgid) # NIL /\ Join(sessions, pgrps, FoundGroup(p, pgid), p)
  BY DEF jobctl_setpgid
<1>3. ASSUME NEW g \in Unused(pgrps, NoGroup),
             Join(Listed(sessions, s, g), pgrp_create(g, s, p), g, p)
      PROVE  JobInv'
  <2> DEFINE ss == Listed(sessions, s, g)
             gs == pgrp_create(g, s, p)
  <2>1. g \in Ids /\ pgrps[g].session = NIL /\ pgrps[g].members = {}
    BY NotUsed
  <2>2. /\ gs \in [Ids -> GroupRecord] /\ \A j \in Ids : j # g => gs[j] = pgrps[j]
        /\ gs[g].refs = 1 /\ gs[g].members = {} /\ gs[g].session = s
    BY <1>1, <2>1, GroupCreate
  <2>3. sessions \in [Ids -> SessionRecord]
    BY <1>1 DEF JobTyped
  <2>4. /\ ss \in [Ids -> SessionRecord] /\ \A j \in Ids : j # s => ss[j] = sessions[j]
        /\ ss[s].refs = sessions[s].refs + 1 /\ ss[s].members = sessions[s].members
        /\ ss[s].pgrps = With(sessions[s].pgrps, g)
    <3>1. s \in Ids /\ g \in Ids
      BY <1>1, <2>1
    <3> HIDE DEF s
    <3> HIDE <1>1, <2>1, <2>2
    <3> QED BY <2>3, <3>1, SessionLists, SMTT(30)
  <2>5. Join(ss, gs, g, p)
    BY <1>3
  <2> HIDE DEF ss, gs
  <2> QED BY <1>1, <2>1, <2>2, <2>4, <2>5, JobJoin
<1>4. ASSUME FoundGroup(p, pgid) # NIL, Join(sessions, pgrps, FoundGroup(p, pgid), p)
      PROVE  JobInv'
  <2> DEFINE g == FoundGroup(p, pgid)
  <2>1. g \in Ids /\ pgrps[g].session = s
    BY <1>1, <1>4 DEF FoundGroup, JobTyped, IdTable, Id
  <2>2. sessions \in [Ids -> SessionRecord] /\ pgrps \in [Ids -> GroupRecord]
    BY <1>1 DEF JobTyped
  <2>3. Join(sessions, pgrps, g, p)
    BY <1>4
  <2> HIDE DEF g
  <2> QED BY <1>1, <2>1, <2>2, <2>3, JobJoin
<1> QED BY <1>2, <1>3, <1>4

LEMMA JobStepInv == JobInv /\ [JobCtlNext]_jobctlVars => JobInv'
<1> SUFFICES ASSUME JobInv, [JobCtlNext]_jobctlVars PROVE JobInv'
  OBVIOUS
<1>1. ASSUME NEW p \in Pids, jobctl_setsid(p) PROVE JobInv'
  BY <1>1, JobSetsid
<1>2. ASSUME NEW p \in Pids, NEW target \in Pids, NEW pgid \in Pids, SYS_SETPGID(p, target, pgid)
      PROVE  JobInv'
  BY <1>2, JobCrash, JobSetpgid DEF SYS_SETPGID
<1>3. ASSUME NEW p \in Pids, NEW target \in Pids, SYS_GETPGID(p, target) PROVE JobInv'
  BY <1>3, JobCrash DEF SYS_GETPGID
<1>4. ASSUME NEW p \in Pids, NEW c \in Pids, ForkReads(p, c) PROVE JobInv'
  BY <1>4, JobForkReads
<1>5. ASSUME NEW c \in Pids, ForkInserts(c) PROVE JobInv'
  BY <1>5, JobForkInserts
<1>6. ASSUME NEW p \in Pids, process_destroy(p) PROVE JobInv'
  BY <1>6, JobDestroy
<1>7. ASSUME NEW p \in Pids, id_map_remove(p) PROVE JobInv'
  BY <1>7, JobIdMapRemove
<1>8. CASE UNCHANGED jobctlVars
  BY <1>8, JobSame DEF jobctlVars
<1> QED BY <1>1, <1>2, <1>3, <1>4, <1>5, <1>6, <1>7, <1>8 DEF JobCtlNext

\* Sessions and groups count who is in them, list who points to them and outlive what
\* refers to them, also when a fork inserts a child with what it read before its parent
\* was moved (jobctl_setsid, jobctl_setpgid, fork, process_destroy).
THEOREM SessionsExact == JobCtlSpec => []SessionsAreExact
<1>1. JobCtlSpec => []JobInv
  BY JobInitInv, JobStepInv, PTL DEF JobCtlSpec
<1> QED BY <1>1, JobExact, PTL
=============================================================================
