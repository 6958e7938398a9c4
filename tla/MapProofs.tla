------------------------------ MODULE MapProofs ------------------------------
(***************************************************************************)
(* Proof that MapsAreSafe of MapSwitch holds for every set of CPUs, of     *)
(* threads, of processes and of maps.  SwitchInv says what a thread        *)
(* remembers at each place of vm_map_activate and of an exec, where the    *)
(* CPU that it runs on stands, and that whatever a CPU is in belongs to a  *)
(* thread that will come back to that CPU; every step keeps it.            *)
(***************************************************************************)
EXTENDS MapSwitch, KernelLemmas

Spaces == Maps \cup {kmap}
SpaceOrNone == Spaces \cup {Nil}
Everyone == Users \cup Kernels
Places == {"none", "boot", "reap", "user", "enter", "load", "leave", "launched", "adopt", "adopted", "exit"}
ThreadRecord ==
  [owner : Procs \cup {Nil}, ctx : SpaceOrNone,
   status : {"none", "new", "ready", "on", "terminating", "gone"}, pc : Places,
   step : {"none", "read", "cr3", "store", "mask"}, cpu : Cpus \cup {Nil},
   target : SpaceOrNone, old : SpaceOrNone, orig : SpaceOrNone, made : SpaceOrNone]
CpuRecord == [cr3 : Spaces, current_map : Spaces, thread : Everyone \cup {Idle}, inherited : BOOLEAN]
ProcRecord == [status : {"none", "alive", "zombie", "gone"}, map : Maps \cup {Nil}, count : Nat]

SwitchTyped ==
  /\ cpu \in [Cpus -> CpuRecord]
  /\ thread \in [Everyone -> ThreadRecord]
  /\ proc \in [Procs -> ProcRecord]
  /\ mapped_on \in [Spaces -> SUBSET Cpus]
  /\ freed \in SUBSET Maps

\* A CPU runs one thread, and that thread knows it.
Running ==
  \A c \in Cpus, t \in Everyone :
    cpu[c].thread = t <=> thread[t].status = "on" /\ thread[t].cpu = c

Live(t) == thread[t].status \in {"ready", "on"}
Home(t) == IF t \in Users THEN proc[thread[t].owner].map ELSE kmap
\* In the middle of an exec: the map that is made, or the one that is left, is its own.
Making(t) == thread[t].pc \in {"enter", "load", "leave", "launched"}
Leaving(t) == thread[t].pc \in {"adopt", "adopted"}
Private(t) == IF Making(t) THEN thread[t].made ELSE thread[t].orig
Busy(t) == Making(t) \/ Leaving(t)
Uses(t, m) ==
  /\ Live(t)
  /\ \/ t \in Users /\ m = Home(t)
     \/ Busy(t) /\ m = Private(t)

\* What a thread remembers at each place.
Plain(t) ==
  /\ thread[t].step = "none"
  /\ thread[t].target = Nil /\ thread[t].old = Nil /\ thread[t].orig = Nil /\ thread[t].made = Nil
Moving(t, to) ==
  /\ thread[t].step # "none" /\ thread[t].target = to
  /\ thread[t].step # "read" => thread[t].old \in {Home(t), Private(t)}
Settles(t) == thread[t].step = "none" /\ thread[t].target = Nil /\ thread[t].old = Nil
Remembers(t) ==
  CASE thread[t].pc \in {"none", "boot", "reap", "user", "exit"} -> Plain(t)
    [] thread[t].pc = "enter" -> Moving(t, thread[t].made) /\ thread[t].orig = Home(t)
    [] thread[t].pc = "load" -> Settles(t) /\ thread[t].orig = Home(t)
    [] thread[t].pc = "leave" -> Moving(t, Home(t))
    [] thread[t].pc = "launched" -> Settles(t)
    [] thread[t].pc = "adopt" -> Moving(t, thread[t].made)
    [] thread[t].pc = "adopted" -> Settles(t)
ThreadState(t) ==
  /\ Live(t) => thread[t].pc # "none"
  /\ ~Live(t) => Plain(t)
  /\ ~Live(t) => thread[t].pc = IF thread[t].status = "new" THEN "user" ELSE "none"
  /\ thread[t].ctx = IF thread[t].pc \in {"enter", "load"} THEN thread[t].made
                     ELSE IF thread[t].status = "terminating" THEN kmap ELSE Nil
  /\ Remembers(t)
  /\ Making(t) => thread[t].made \in Maps
  /\ Making(t) => \/ thread[t].orig = Home(t)
                  \/ thread[t].orig = Nil /\ t \in Users /\ thread[t].pc \in {"leave", "launched"}
  /\ Leaving(t) => t \in Users /\ thread[t].orig \in Maps /\ thread[t].made = Home(t)
  /\ thread[t].pc \in {"boot", "reap"} => t \in Kernels
  /\ thread[t].status = "on" => thread[t].cpu \in Cpus
  /\ Live(t) /\ thread[t].cpu = Nil => thread[t].pc \in {"boot", "reap", "user"}
  /\ thread[t].status \in {"none", "new"} => thread[t].cpu = Nil
  /\ t \in Users => (thread[t].owner = Nil <=> thread[t].status \in {"none", "gone"})
  /\ t = kmain => thread[t].pc \in {"boot", "enter", "load", "leave", "launched", "exit", "none"}
  /\ t = reaper => thread[t].pc = "reap"
  /\ thread[t].status = "none" => thread[t] = NoThread

\* The threads of a process are counted; one that execs is alone but for the one it made.
ProcState(p) ==
  /\ proc[p].count = Cardinality({u \in Users : thread[u].owner = p})
  /\ proc[p].status \in {"none", "gone"} <=> proc[p].map = Nil
  /\ proc[p].status # "alive" => proc[p].count = 0
Alone ==
  \A t, u \in Users :
    Busy(t) /\ u # t /\ thread[u].owner = thread[t].owner => thread[u].status = "new"

\* No map is used for two purposes, nor after it is freed.
OwnMaps ==
  /\ \A p, q \in Procs : p # q /\ proc[p].map # Nil => proc[p].map # proc[q].map
  /\ \A p \in Procs : proc[p].map \notin freed
  /\ \A t \in Users : Busy(t) =>
       /\ Private(t) \notin freed
       /\ \A p \in Procs : proc[p].map # Private(t)
       /\ \A u \in Users : Busy(u) /\ u # t => Private(u) # Private(t)

\* Until kmain has launched init there is nobody else.
Booting == thread[kmain].pc \in {"boot", "enter", "load", "leave", "launched"}
BootState ==
  Booting =>
    /\ \A u \in Users : thread[u].status \in {"none", "new"}
    /\ thread[kmain].pc = "boot" => \A u \in Users : thread[u].status = "none"
    /\ \A c \in Cpus : thread[kmain].pc = "boot" \/ c # thread[kmain].cpu =>
         cpu[c].cr3 = kmap /\ cpu[c].current_map = kmap
    /\ thread[kmain].pc # "boot" => /\ proc[Init1].map = thread[kmain].made /\ thread[kmain].orig = kmap
                                    /\ proc[Init1].status = "alive"
    /\ freed = {}

\* Where the CPU c of a running thread t is.
Stands(t, c) ==
  CASE thread[t].step = "none" /\ thread[t].pc \in {"user", "exit"} ->
         /\ cpu[c].cr3 = cpu[c].current_map
         /\ cpu[c].cr3 = Home(t) \/ (cpu[c].cr3 = kmap /\ cpu[c].inherited)
    [] thread[t].step = "none" /\ thread[t].pc = "load" ->
         cpu[c].cr3 = thread[t].made /\ cpu[c].current_map = thread[t].made
    [] thread[t].step = "none" /\ thread[t].pc \in {"boot", "launched", "adopted"} ->
         cpu[c].cr3 = Home(t) /\ cpu[c].current_map = Home(t)
    [] thread[t].step = "read" ->
         cpu[c].cr3 = cpu[c].current_map /\ cpu[c].cr3 \in {Home(t), Private(t)}
    [] thread[t].step = "cr3" ->
         cpu[c].cr3 = cpu[c].current_map /\ cpu[c].cr3 \in {thread[t].old, thread[t].target}
    [] thread[t].step = "store" ->
         cpu[c].cr3 = thread[t].target /\ cpu[c].current_map \in {thread[t].old, thread[t].target}
    [] thread[t].step = "mask" ->
         cpu[c].cr3 = thread[t].target /\ cpu[c].current_map = thread[t].target
    [] OTHER -> TRUE
Standing ==
  /\ \A t \in Users, c \in Cpus : cpu[c].thread = t => Stands(t, c)
  /\ Booting /\ thread[kmain].cpu \in Cpus => Stands(kmain, thread[kmain].cpu)

\* What a CPU is in belongs to a thread that will come back to it; cr3, current_map and
\* the masks differ by what threads are about to do.
Doing(t, c, step) == thread[t].cpu = c /\ thread[t].step = step
CpuState(c) ==
  /\ \A m \in Spaces : cpu[c].current_map = m =>
       m = kmap \/ \E t \in Everyone : thread[t].cpu = c /\ Uses(t, m)
  /\ cpu[c].cr3 = cpu[c].current_map
       \/ \E t \in Everyone : Doing(t, c, "store") /\ thread[t].target = cpu[c].cr3
  /\ \A m \in Spaces : c \in mapped_on[m] =>
       m = cpu[c].current_map \/ \E t \in Everyone : Doing(t, c, "mask") /\ thread[t].old = m
  /\ c \in mapped_on[cpu[c].current_map]
       \/ \E t \in Everyone : Doing(t, c, "mask") /\ thread[t].target = cpu[c].current_map

SwitchInv ==
  /\ SwitchTyped /\ stopped # "mapped" /\ Running /\ (\A t \in Everyone : ThreadState(t))
  /\ (\A p \in Procs : ProcState(p)) /\ Alone /\ OwnMaps /\ BootState /\ Standing
  /\ (\A c \in Cpus : CpuState(c))

LEMMA SwitchFacts ==
  ASSUME SwitchInv
  PROVE  /\ \A c \in Cpus : cpu[c] \in CpuRecord /\ CpuState(c)
         /\ \A t \in Everyone : thread[t] \in ThreadRecord /\ ThreadState(t)
         /\ DOMAIN thread = Everyone /\ DOMAIN mapped_on = Spaces
         /\ \A t \in Everyone : On(t) => /\ thread[t].cpu \in Cpus /\ cpu[thread[t].cpu].thread = t
                                         /\ thread[t].status = "on" /\ Live(t)
         /\ \A t \in Users : Live(t) => thread[t].owner \in Procs
<1> USE DEF SwitchInv
<1>1. \A t \in Everyone : thread[t] \in ThreadRecord /\ ThreadState(t)
  BY DEF SwitchTyped
<1>2. ASSUME NEW t \in Everyone, On(t)
      PROVE  /\ thread[t].cpu \in Cpus /\ cpu[thread[t].cpu].thread = t
             /\ thread[t].status = "on" /\ Live(t)
  BY <1>1, <1>2 DEF On, ThreadState, Live
<1>3. ASSUME NEW t \in Users, Live(t)
      PROVE  thread[t].owner \in Procs
  <2>1. t \in Everyone
    BY DEF Everyone
  <2> QED BY <2>1, <1>1, <1>3 DEF ThreadState, Live, ThreadRecord
<1> QED BY <1>1, <1>2, <1>3 DEF SwitchTyped

\* A thread that a step leaves alone remains what it was.
LEMMA ThreadSame ==
  ASSUME NEW t \in Everyone, thread'[t] = thread[t], Live(t) => Home(t)' = Home(t)
  PROVE  /\ ThreadState(t) => ThreadState(t)'
         /\ Live(t)' <=> Live(t)
         /\ Busy(t)' <=> Busy(t)
         /\ Private(t)' = Private(t)
         /\ \A m : Uses(t, m)' <=> Uses(t, m)
<1>1. /\ Live(t)' <=> Live(t)
      /\ Busy(t)' <=> Busy(t)
      /\ Making(t)' <=> Making(t)
      /\ Leaving(t)' <=> Leaving(t)
      /\ Private(t)' = Private(t)
  BY DEF Live, Busy, Making, Leaving, Private
<1>2. \A m : Uses(t, m)' <=> Uses(t, m)
  BY <1>1 DEF Uses
<1>3. ASSUME ThreadState(t) PROVE ThreadState(t)'
  <2>1. CASE Live(t)
    <3>1. Remembers(t)'
      BY <1>1, <1>3, <2>1 DEF ThreadState, Remembers, Plain, Moving, Settles
    <3> QED BY <1>1, <1>3, <2>1, <3>1 DEF ThreadState
  <2>2. CASE ~Live(t)
    <3>1. thread[t].pc \in {"none", "user"}
      BY <1>3, <2>2 DEF ThreadState
    <3>2. Remembers(t)' /\ Plain(t)'
      BY <1>3, <2>2, <3>1 DEF ThreadState, Remembers, Plain
    <3>3. ~Making(t) /\ ~Leaving(t)
      BY <3>1 DEF Making, Leaving
    <3> QED BY <1>1, <1>3, <2>2, <3>1, <3>2, <3>3 DEF ThreadState
  <2> QED BY <2>1, <2>2
<1> QED BY <1>1, <1>2, <1>3

\* Where a CPU stands depends on what it is in and on its thread alone.
LEMMA StandsSame ==
  ASSUME NEW t \in Everyone, NEW c \in Cpus, thread'[t] = thread[t], cpu'[c] = cpu[c],
         Home(t)' = Home(t), Stands(t, c)
  PROVE  Stands(t, c)'
<1>1. Private(t)' = Private(t)
  BY DEF Private, Making
<1> QED BY <1>1 DEF Stands

\* A CPU whose threads do nothing and that nobody changes.
LEMMA CpuSame ==
  ASSUME NEW c \in Cpus, cpu'[c] = cpu[c], CpuState(c),
         \A m \in Spaces : c \in mapped_on'[m] <=> c \in mapped_on[m],
         cpu[c].current_map \in Spaces,
         \A t \in Everyone : thread[t].cpu = c =>
           thread'[t] = thread[t] /\ (Live(t) => Home(t)' = Home(t))
  PROVE  CpuState(c)'
<1>1. ASSUME NEW t \in Everyone, thread[t].cpu = c
      PROVE  thread'[t] = thread[t] /\ \A m : Uses(t, m) => Uses(t, m)'
  BY <1>1, ThreadSame
<1>2. \A m \in Spaces : cpu'[c].current_map = m =>
        m = kmap \/ \E t \in Everyone : thread'[t].cpu = c /\ Uses(t, m)'
  BY <1>1 DEF CpuState
<1>3. \/ cpu'[c].cr3 = cpu'[c].current_map
      \/ \E t \in Everyone : Doing(t, c, "store")' /\ thread'[t].target = cpu'[c].cr3
  BY <1>1 DEF CpuState, Doing
<1>4. \A m \in Spaces : c \in mapped_on'[m] =>
       m = cpu'[c].current_map \/ \E t \in Everyone : Doing(t, c, "mask")' /\ thread'[t].old = m
  BY <1>1 DEF CpuState, Doing
<1>5. c \in mapped_on'[cpu'[c].current_map]
       \/ \E t \in Everyone : Doing(t, c, "mask")' /\ thread'[t].target = cpu'[c].current_map
  BY <1>1 DEF CpuState, Doing
<1> QED BY <1>2, <1>3, <1>4, <1>5 DEF CpuState, Spaces, Everyone

\* While init is not launched, no user thread runs.
LEMMA UsersRunLater ==
  ASSUME SwitchInv, NEW t \in Users, Live(t)
  PROVE  ~Booting
BY DEF SwitchInv, BootState, Live

LEMMA OneRunner ==
  ASSUME SwitchInv, NEW c \in Cpus, NEW d \in Cpus, cpu[c].thread \in Everyone,
         cpu[d].thread = cpu[c].thread
  PROVE  c = d
BY DEF SwitchInv, Running

\* A process keeps its count while its threads remain its own.
LEMMA CountSame ==
  ASSUME NEW p \in Procs, ProcState(p), proc'[p] = proc[p],
         \A u \in Users : thread'[u].owner = thread[u].owner
  PROVE  ProcState(p)'
<1>1. {u \in Users : thread'[u].owner = p} = {u \in Users : thread[u].owner = p}
  OBVIOUS
<1> QED BY <1>1 DEF ProcState

\* A step of the thread t of CPU c, which goes on running.
LEMMA SoloStep ==
  ASSUME SwitchInv, NEW t \in Users \cup {kmain}, NEW c \in Cpus, cpu[c].thread = t,
         thread' \in [Everyone -> ThreadRecord], \A u \in Everyone : u # t => thread'[u] = thread[u],
         thread'[t].status = "on", thread'[t].cpu = c, thread'[t].owner = thread[t].owner,
         cpu' \in [Cpus -> CpuRecord], \A d \in Cpus : d # c => cpu'[d] = cpu[d],
         cpu'[c].thread = t,
         mapped_on' \in [Spaces -> SUBSET Cpus],
         \A d \in Cpus : \A m \in Spaces : d # c => (d \in mapped_on'[m] <=> d \in mapped_on[m]),
         proc' = proc, freed' = freed, stopped' # "mapped",
         ThreadState(t)', Stands(t, c)', CpuState(c)',
         Alone', OwnMaps', BootState'
  PROVE  SwitchInv'
<1> USE DEF SwitchInv
<1>0. t \in Everyone /\ thread[t].status = "on" /\ thread[t].cpu = c /\ Live(t)
  BY DEF Everyone, Kernels, Running, Live
<1>1. SwitchTyped'
  BY DEF SwitchTyped
<1>r. \A d \in Cpus, u \in Everyone :
        cpu[d].thread = u <=> thread[u].status = "on" /\ thread[u].cpu = d
  BY DEF Running
<1>2. Running'
  <2> HIDE DEF SwitchInv
  <2>1. ASSUME NEW d \in Cpus, NEW u \in Everyone
        PROVE  cpu'[d].thread = u <=> thread'[u].status = "on" /\ thread'[u].cpu = d
    <3>1. CASE u = t
      <4>1. d # c => cpu[d].thread # t
        BY <1>0, OneRunner
      <4> QED BY <1>0, <3>1, <4>1
    <3>2. CASE u # t
      <4>1. d = c => cpu'[d].thread # u /\ ~(thread[u].status = "on" /\ thread[u].cpu = d)
        BY <1>r, <3>2
      <4>2. d # c => cpu'[d] = cpu[d]
        OBVIOUS
      <4>3. thread'[u] = thread[u]
        BY <3>2
      <4> QED BY <1>r, <4>1, <4>2, <4>3
    <3> QED BY <3>1, <3>2
  <2> QED BY <2>1 DEF Running
<1>3. \A u \in Everyone : Home(u)' = Home(u)
  BY DEF Home
<1>4. ASSUME NEW u \in Everyone PROVE ThreadState(u)'
  BY <1>3, ThreadSame
<1>5. ASSUME NEW p \in Procs PROVE ProcState(p)'
  <2>1. ProcState(p) /\ \A u \in Users : thread'[u].owner = thread[u].owner
    BY DEF Everyone
  <2> QED BY <2>1, CountSame
<1>6. Standing'
  <2>1. ASSUME NEW u \in Users, NEW d \in Cpus, cpu'[d].thread = u PROVE Stands(u, d)'
    <3>1. CASE d = c
      BY <2>1, <3>1
    <3>2. CASE d # c
      <4>1. u \in Everyone /\ cpu[d].thread = u /\ u # t
        BY <1>0, <2>1, <3>2, OneRunner DEF Everyone
      <4> QED BY <1>3, <3>2, <4>1, StandsSame DEF Standing
    <3> QED BY <3>1, <3>2
  <2>2. ASSUME Booting', thread'[kmain].cpu \in Cpus PROVE Stands(kmain, thread[kmain].cpu)' /\ thread'[kmain].cpu = thread[kmain].cpu
    <3>1. CASE t = kmain
      BY <1>0, <3>1
    <3>2. CASE t # kmain
      <4>1. kmain \in Everyone /\ thread'[kmain] = thread[kmain]
        BY <3>2 DEF Everyone, Kernels
      <4>2. Booting
        BY <2>2, <4>1 DEF Booting
      <4> QED BY <1>0, <3>2, <4>2, UsersRunLater
    <3> QED BY <3>1, <3>2
  <2>3. ASSUME Booting', thread'[kmain].cpu \in Cpus PROVE Stands(kmain, thread[kmain].cpu)'
    BY <2>2, <2>3
  <2> HIDE DEF SwitchInv
  <2> QED BY <2>1, <2>2, <2>3 DEF Standing, Stands
<1>7. ASSUME NEW d \in Cpus PROVE CpuState(d)'
  <2>1. CASE d = c
    BY <2>1
  <2>2. CASE d # c
    <3>1. CpuState(d) /\ cpu[d].current_map \in Spaces
      BY DEF SwitchTyped, CpuRecord
    <3> QED BY <1>0, <1>3, <2>2, <3>1, CpuSame
  <2> QED BY <2>1, <2>2
<1> QED BY <1>1, <1>2, <1>4, <1>5, <1>6, <1>7

LEMMA RunnerStands ==
  ASSUME SwitchInv, NEW c \in Cpus, NEW t \in Users \cup {kmain}, cpu[c].thread = t,
         t = kmain => Booting
  PROVE  Stands(t, c) /\ thread[t].status = "on" /\ thread[t].cpu = c /\ t \in Everyone
<1>1. t \in Everyone
  BY DEF Everyone, Kernels
<1>2. thread[t].status = "on" /\ thread[t].cpu = c
  BY <1>1 DEF SwitchInv, Running
<1>3. CASE t \in Users
  BY <1>1, <1>2, <1>3 DEF SwitchInv, Standing
<1>4. CASE t = kmain
  BY <1>1, <1>2, <1>4 DEF SwitchInv, Standing
<1> QED BY <1>1, <1>2, <1>3, <1>4

\* The process of a running thread has a map.
LEMMA OwnerHome ==
  ASSUME SwitchInv, NEW t \in Users, Live(t)
  PROVE  thread[t].owner \in Procs /\ Home(t) \in Maps /\ Home(t) # Nil /\ thread[t].owner # "kproc0"
<1>1. thread[t].owner \in Procs
  BY SwitchFacts
<1>2. proc[thread[t].owner] \in ProcRecord /\ ProcState(thread[t].owner)
  BY <1>1 DEF SwitchInv, SwitchTyped
<1>3. IsFiniteSet({u \in Users : thread[u].owner = thread[t].owner})
  BY MapSwitchAssumption, FS_Subset
<1>4. proc[thread[t].owner].count # 0
  BY <1>2, <1>3, CountSmall DEF ProcState
<1>5. Home(t) \in Maps
  BY <1>2, <1>4 DEF ProcState, ProcRecord, Home
<1> QED BY <1>1, <1>5, MapSwitchAssumption

\* Who is in vm_map_activate.
LEMMA MoverFacts ==
  ASSUME SwitchInv, NEW t \in Everyone, thread[t].step # "none"
  PROVE  /\ t \in Users \cup {kmain} /\ thread[t].pc \in {"enter", "leave", "adopt"}
         /\ Live(t) /\ Busy(t) /\ (t = kmain => Booting /\ thread[t].pc # "boot")
         /\ Private(t) \in Maps /\ Home(t) \in Spaces
         /\ thread[t].target \in {Home(t), Private(t)}
         /\ thread[t].step # "read" => thread[t].old \in {Home(t), Private(t)}
<1>1. ThreadState(t) /\ thread[t] \in ThreadRecord
  BY SwitchFacts
<1>2. ~Plain(t)
  BY DEF Plain
<1>3. thread[t].pc \in {"enter", "leave", "adopt"} /\ Live(t)
  BY <1>1, <1>2 DEF ThreadState, Remembers, Plain, Settles, ThreadRecord, Places
<1>4. t \in Users \cup {kmain}
  BY <1>1, <1>3 DEF ThreadState, Everyone, Kernels
<1>5. Busy(t) /\ (t = kmain => Booting)
  BY <1>1, <1>3 DEF Busy, Making, Leaving, Booting, ThreadState
<1>6. Private(t) \in Maps
  BY <1>1, <1>3 DEF ThreadState, Making, Leaving, Private
<1>7. Home(t) \in Spaces
  <2>1. CASE t = kmain
    BY <2>1, MapSwitchAssumption DEF Home, Spaces, Kernels
  <2>2. CASE t \in Users
    BY <1>3, <2>2, OwnerHome DEF Spaces
  <2> QED BY <1>4, <2>1, <2>2
<1>8. /\ thread[t].target \in {Home(t), Private(t)}
      /\ thread[t].step # "read" => thread[t].old \in {Home(t), Private(t)}
  <2>1. CASE thread[t].pc = "enter"
    BY <1>1, <2>1 DEF ThreadState, Remembers, Moving, Private, Making
  <2>2. CASE thread[t].pc = "leave"
    BY <1>1, <2>2 DEF ThreadState, Remembers, Moving, Private, Making
  <2>3. CASE thread[t].pc = "adopt"
    BY <1>1, <2>3 DEF ThreadState, Remembers, Moving, Private, Making, Leaving
  <2> QED BY <1>3, <2>1, <2>2, <2>3
<1> QED BY <1>3, <1>4, <1>5, <1>6, <1>7, <1>8

\* A step of vm_map_activate gives and takes no maps.
LEMMA MoverKeeps ==
  ASSUME SwitchInv, NEW t \in Everyone, thread[t].step # "none", On(t),
         \A u \in Everyone : u # t => thread'[u] = thread[u],
         thread'[t].owner = thread[t].owner, thread'[t].status = "on",
         thread'[t].cpu = thread[t].cpu, thread'[t].made = thread[t].made,
         thread'[t].orig = thread[t].orig,
         thread'[t].pc \in {thread[t].pc, After[thread[t].pc]},
         \A d \in Cpus : d # thread[t].cpu => cpu'[d] = cpu[d],
         proc' = proc, freed' = freed
  PROVE  Alone' /\ OwnMaps' /\ BootState'
<1>1. /\ t \in Users \cup {kmain} /\ thread[t].pc \in {"enter", "leave", "adopt"}
      /\ Live(t) /\ Busy(t) /\ (t = kmain => Booting /\ thread[t].pc # "boot")
  BY MoverFacts
<1>2. thread[t].status = "on"
  BY SwitchFacts
<1>3. Busy(t)' /\ Private(t)' = Private(t) /\ (Making(t)' <=> Making(t))
  BY <1>1 DEF Busy, Private, Making, Leaving, After
<1>4. ASSUME NEW u \in Users
      PROVE  /\ u \in Everyone /\ (Busy(u)' <=> Busy(u)) /\ Private(u)' = Private(u)
             /\ thread'[u].owner = thread[u].owner
             /\ thread[u].status = "new" <=> thread'[u].status = "new"
             /\ thread[u].status \in {"none", "new"} <=> thread'[u].status \in {"none", "new"}
  <2>1. u \in Everyone
    BY DEF Everyone
  <2>2. CASE u = t
    BY <1>1, <1>2, <1>3, <2>1, <2>2
  <2>3. CASE u # t
    <3>1. thread'[u] = thread[u]
      BY <2>1, <2>3
    <3> QED BY <2>1, <3>1 DEF Busy, Private, Making, Leaving
  <2> QED BY <2>2, <2>3
<1>5. Alone'
  BY <1>4 DEF SwitchInv, Alone
<1>6. OwnMaps'
  BY <1>4 DEF SwitchInv, OwnMaps
<1>7. BootState'
  <2>1. CASE t = kmain
    <3>1. Booting' /\ thread'[t].pc # "boot" /\ thread[t].pc # "boot" /\ Booting
      BY <1>1, <2>1 DEF Booting, After
    <3> QED BY <1>4, <2>1, <3>1 DEF SwitchInv, BootState
  <2>2. CASE t # kmain
    <3>1. kmain \in Everyone /\ ~Booting
      BY <1>1, <2>2, UsersRunLater DEF Everyone, Kernels
    <3>2. ~Booting'
      BY <2>2, <3>1 DEF Booting
    <3> QED BY <3>2 DEF BootState
  <2> QED BY <2>1, <2>2
<1> QED BY <1>5, <1>6, <1>7

\* What a step of vm_map_activate but the last leaves as it is.
LEMMA MoverState ==
  ASSUME SwitchInv, NEW t \in Everyone, thread[t].step # "none", On(t),
         \A u \in Everyone : u # t => thread'[u] = thread[u],
         thread'[t].owner = thread[t].owner, thread'[t].ctx = thread[t].ctx,
         thread'[t].status = thread[t].status, thread'[t].pc = thread[t].pc,
         thread'[t].cpu = thread[t].cpu, thread'[t].target = thread[t].target,
         thread'[t].orig = thread[t].orig, thread'[t].made = thread[t].made,
         thread'[t].step # "none",
         thread'[t].step # "read" => thread'[t].old \in {Home(t), Private(t)},
         proc' = proc
  PROVE  /\ ThreadState(t)' /\ Home(t)' = Home(t) /\ Private(t)' = Private(t)
         /\ \A u \in Everyone : /\ thread'[u].cpu = thread[u].cpu
                                /\ \A m : Uses(u, m)' <=> Uses(u, m)
<1>1. /\ ThreadState(t) /\ thread[t].status = "on" /\ thread[t] \in ThreadRecord
      /\ thread[t].pc \in {"enter", "leave", "adopt"} /\ Live(t)
      /\ (t \in Users => thread[t].owner \in Procs)
  BY SwitchFacts, MoverFacts
<1>2. /\ Home(t)' = Home(t) /\ Private(t)' = Private(t)
      /\ Live(t)' /\ (Making(t)' <=> Making(t)) /\ (Leaving(t)' <=> Leaving(t))
  BY <1>1 DEF Home, Private, Making, Leaving, Live
<1>3. Remembers(t)'
  <2>1. CASE thread[t].pc = "enter"
    BY <1>1, <1>2, <2>1 DEF ThreadState, Remembers, Moving
  <2>2. CASE thread[t].pc = "leave"
    BY <1>1, <1>2, <2>2 DEF ThreadState, Remembers, Moving
  <2>3. CASE thread[t].pc = "adopt"
    BY <1>1, <1>2, <2>3 DEF ThreadState, Remembers, Moving
  <2> QED BY <1>1, <2>1, <2>2, <2>3
<1>4. ThreadState(t)'
  BY <1>1, <1>2, <1>3 DEF ThreadState, Live
<1>5. ASSUME NEW u \in Everyone
      PROVE  thread'[u].cpu = thread[u].cpu /\ \A m : Uses(u, m)' <=> Uses(u, m)
  <2>1. CASE u = t
    BY <1>1, <1>2, <2>1 DEF Uses, Busy
  <2>2. CASE u # t
    <3>1. thread'[u] = thread[u] /\ Home(u)' = Home(u)
      BY <2>2 DEF Home
    <3> QED BY <3>1, ThreadSame
  <2> QED BY <2>1, <2>2
<1> QED BY <1>2, <1>4, <1>5

LEMMA ReadOldInv ==
  ASSUME SwitchInv, NEW t \in Everyone, NEW c \in Cpus, thread[t].cpu = c, ReadOld(t)
  PROVE  SwitchInv'
<1>1. /\ thread[t].step = "read" /\ On(t) /\ thread[t] \in ThreadRecord
      /\ cpu[c].thread = t /\ thread[t].status = "on" /\ cpu[c] \in CpuRecord
      /\ ThreadState(t) /\ CpuState(c)
  BY SwitchFacts DEF ReadOld, AtStep
<1>2. /\ t \in Users \cup {kmain} /\ thread[t].pc \in {"enter", "leave", "adopt"}
      /\ Busy(t) /\ (t = kmain => Booting)
      /\ thread[t].target \in {Home(t), Private(t)}
  BY <1>1, MoverFacts
<1>3. Stands(t, c)
  BY <1>1, <1>2, RunnerStands
<1>4. cpu[c].cr3 = cpu[c].current_map /\ cpu[c].cr3 \in {Home(t), Private(t)}
  BY <1>1, <1>2, <1>3 DEF Stands
<1>5. /\ thread'[t] = [thread[t] EXCEPT !.old = cpu[c].current_map, !.step = "cr3"]
      /\ \A u \in Everyone : u # t => thread'[u] = thread[u]
      /\ cpu' = cpu /\ proc' = proc /\ mapped_on' = mapped_on /\ freed' = freed /\ stopped' = stopped
  BY SwitchFacts DEF ReadOld, Here
<1>6. thread' \in [Everyone -> ThreadRecord]
  <2>1. thread'[t] \in ThreadRecord
    BY <1>1, <1>5 DEF ThreadRecord, CpuRecord, SpaceOrNone
  <2> QED BY <1>5, <2>1 DEF ReadOld, SwitchInv, SwitchTyped
<1>7. /\ ThreadState(t)' /\ Home(t)' = Home(t) /\ Private(t)' = Private(t)
      /\ \A u \in Everyone : thread'[u].cpu = thread[u].cpu /\ \A m : Uses(u, m)' <=> Uses(u, m)
  BY <1>1, <1>4, <1>5, MoverState DEF ThreadRecord
<1>9. Stands(t, c)'
  BY <1>1, <1>4, <1>5 DEF Stands, ThreadRecord
<1>10. CpuState(c)'
  <2>1. ASSUME NEW u \in Everyone, Doing(u, c, "mask") \/ Doing(u, c, "store")
        PROVE  thread'[u] = thread[u]
    BY <1>1, <1>5, <2>1 DEF Doing
  <2> QED BY <1>1, <1>4, <1>5, <1>7, <2>1 DEF CpuState, Doing
<1>11. Alone' /\ OwnMaps' /\ BootState'
  BY <1>1, <1>5, MoverKeeps DEF ThreadRecord
<1>12. /\ thread'[t].status = "on" /\ thread'[t].cpu = c /\ thread'[t].owner = thread[t].owner
       /\ cpu' \in [Cpus -> CpuRecord] /\ mapped_on' \in [Spaces -> SUBSET Cpus]
       /\ stopped' # "mapped" /\ cpu'[c].thread = t
       /\ \A d \in Cpus : d # c => cpu'[d] = cpu[d]
       /\ \A d \in Cpus : \A m \in Spaces : d # c => (d \in mapped_on'[m] <=> d \in mapped_on[m])
  BY <1>1, <1>5 DEF ThreadRecord, SwitchInv, SwitchTyped
<1> QED BY <1>1, <1>2, <1>5, <1>6, <1>7, <1>9, <1>10, <1>11, <1>12, SoloStep

LEMMA PmapActivateInv ==
  ASSUME SwitchInv, NEW t \in Everyone, NEW c \in Cpus, thread[t].cpu = c, pmap_activate(t)
  PROVE  SwitchInv'
<1>1. /\ thread[t].step = "cr3" /\ On(t) /\ thread[t] \in ThreadRecord
      /\ cpu[c].thread = t /\ thread[t].status = "on" /\ cpu[c] \in CpuRecord
      /\ ThreadState(t) /\ CpuState(c)
  BY SwitchFacts DEF pmap_activate, AtStep
<1>2. /\ t \in Users \cup {kmain} /\ thread[t].pc \in {"enter", "leave", "adopt"}
      /\ Busy(t) /\ (t = kmain => Booting)
      /\ thread[t].target \in {Home(t), Private(t)} /\ thread[t].old \in {Home(t), Private(t)}
      /\ thread[t].target \in Spaces
  BY <1>1, MoverFacts DEF Spaces
<1>3. Stands(t, c)
  BY <1>1, <1>2, RunnerStands
<1>4. cpu[c].cr3 = cpu[c].current_map /\ cpu[c].cr3 \in {thread[t].old, thread[t].target}
  BY <1>1, <1>2, <1>3 DEF Stands
<1>5. /\ thread'[t] = [thread[t] EXCEPT !.step = "store"]
      /\ \A u \in Everyone : u # t => thread'[u] = thread[u]
      /\ cpu'[c] = [cpu[c] EXCEPT !.cr3 = thread[t].target]
      /\ \A d \in Cpus : d # c => cpu'[d] = cpu[d]
      /\ proc' = proc /\ mapped_on' = mapped_on /\ freed' = freed /\ stopped' = stopped
  <2>1. /\ thread' = [thread EXCEPT ![t].step = "store"]
        /\ proc' = proc /\ mapped_on' = mapped_on /\ freed' = freed /\ stopped' = stopped
    BY DEF pmap_activate
  <2>2. CASE thread[t].old = thread[t].target
    BY <1>1, <1>4, <2>1, <2>2, SwitchFacts DEF pmap_activate, Here, CpuRecord
  <2>3. CASE thread[t].old # thread[t].target
    <3>1. cpu' = [cpu EXCEPT ![c].cr3 = thread[t].target]
      BY <2>3 DEF pmap_activate, Here
    <3> QED BY <2>1, <3>1, SwitchFacts DEF SwitchInv, SwitchTyped
  <2> QED BY <2>2, <2>3
<1>6. thread' \in [Everyone -> ThreadRecord] /\ cpu' \in [Cpus -> CpuRecord]
  <2>1. thread'[t] \in ThreadRecord /\ cpu'[c] \in CpuRecord
    BY <1>1, <1>2, <1>5 DEF ThreadRecord, CpuRecord
  <2>2. DOMAIN thread' = Everyone /\ DOMAIN cpu' = Cpus
    BY DEF pmap_activate, SwitchInv, SwitchTyped
  <2> QED BY <1>5, <2>1, <2>2 DEF pmap_activate, SwitchInv, SwitchTyped
<1>7. /\ ThreadState(t)' /\ Home(t)' = Home(t) /\ Private(t)' = Private(t)
      /\ \A u \in Everyone : thread'[u].cpu = thread[u].cpu /\ \A m : Uses(u, m)' <=> Uses(u, m)
  BY <1>1, <1>2, <1>4, <1>5, MoverState DEF ThreadRecord
<1>8. cpu'[c].cr3 = thread'[t].target /\ cpu'[c].current_map = cpu[c].current_map /\ cpu'[c].thread = t
  BY <1>1, <1>5 DEF CpuRecord, ThreadRecord
<1>9. Stands(t, c)'
  BY <1>1, <1>4, <1>5, <1>8 DEF Stands, ThreadRecord
<1>10. CpuState(c)'
  <2>1. ASSUME NEW u \in Everyone, Doing(u, c, "mask")
        PROVE  Doing(u, c, "mask")' /\ thread'[u].old = thread[u].old /\ thread'[u].target = thread[u].target
    BY <1>1, <1>5, <2>1 DEF Doing
  <2>2. Doing(t, c, "store")'
    BY <1>1, <1>5 DEF Doing, ThreadRecord
  <2>3. \A m \in Spaces : cpu'[c].current_map = m =>
          m = kmap \/ \E u \in Everyone : thread'[u].cpu = c /\ Uses(u, m)'
    BY <1>1, <1>7, <1>8 DEF CpuState
  <2>4. \A m \in Spaces : c \in mapped_on'[m] =>
          m = cpu'[c].current_map \/ \E u \in Everyone : Doing(u, c, "mask")' /\ thread'[u].old = m
    <3>1. \A m \in Spaces : c \in mapped_on[m] =>
            m = cpu[c].current_map \/ \E u \in Everyone : Doing(u, c, "mask") /\ thread[u].old = m
      BY <1>1 DEF CpuState
    <3> QED BY <1>5, <1>8, <2>1, <3>1
  <2>5. c \in mapped_on'[cpu'[c].current_map]
          \/ \E u \in Everyone : Doing(u, c, "mask")' /\ thread'[u].target = cpu'[c].current_map
    <3>1. c \in mapped_on[cpu[c].current_map]
            \/ \E u \in Everyone : Doing(u, c, "mask") /\ thread[u].target = cpu[c].current_map
      BY <1>1 DEF CpuState
    <3> QED BY <1>5, <1>8, <2>1, <3>1
  <2> QED BY <1>8, <2>2, <2>3, <2>4, <2>5 DEF CpuState
<1>11. Alone' /\ OwnMaps' /\ BootState'
  BY <1>1, <1>5, MoverKeeps DEF ThreadRecord
<1>12. /\ thread'[t].status = "on" /\ thread'[t].cpu = c /\ thread'[t].owner = thread[t].owner
       /\ mapped_on' \in [Spaces -> SUBSET Cpus] /\ stopped' # "mapped"
       /\ \A d \in Cpus : \A m \in Spaces : d # c => (d \in mapped_on'[m] <=> d \in mapped_on[m])
  BY <1>1, <1>5 DEF ThreadRecord, SwitchInv, SwitchTyped
<1> QED BY <1>1, <1>2, <1>5, <1>6, <1>7, <1>8, <1>9, <1>10, <1>11, <1>12, SoloStep

LEMMA StoreMapInv ==
  ASSUME SwitchInv, NEW t \in Everyone, NEW c \in Cpus, thread[t].cpu = c, StoreMap(t)
  PROVE  SwitchInv'
<1>1. /\ thread[t].step = "store" /\ On(t) /\ thread[t] \in ThreadRecord
      /\ cpu[c].thread = t /\ thread[t].status = "on" /\ cpu[c] \in CpuRecord
      /\ ThreadState(t) /\ CpuState(c)
  BY SwitchFacts DEF StoreMap, AtStep
<1>2. /\ t \in Users \cup {kmain} /\ thread[t].pc \in {"enter", "leave", "adopt"}
      /\ Busy(t) /\ (t = kmain => Booting) /\ Live(t)
      /\ thread[t].target \in {Home(t), Private(t)} /\ thread[t].old \in {Home(t), Private(t)}
      /\ thread[t].target \in Spaces
  BY <1>1, MoverFacts DEF Spaces
<1>3. Stands(t, c)
  BY <1>1, <1>2, RunnerStands
<1>4. cpu[c].cr3 = thread[t].target /\ cpu[c].current_map \in {thread[t].old, thread[t].target}
  BY <1>1, <1>2, <1>3 DEF Stands
<1>5. /\ thread'[t] = [thread[t] EXCEPT !.step = "mask"]
      /\ \A u \in Everyone : u # t => thread'[u] = thread[u]
      /\ cpu'[c] = [cpu[c] EXCEPT !.current_map = thread[t].target]
      /\ \A d \in Cpus : d # c => cpu'[d] = cpu[d]
      /\ proc' = proc /\ mapped_on' = mapped_on /\ freed' = freed /\ stopped' = stopped
  BY SwitchFacts DEF StoreMap, Here, SwitchInv, SwitchTyped
<1>6. thread' \in [Everyone -> ThreadRecord] /\ cpu' \in [Cpus -> CpuRecord]
  <2>1. thread'[t] \in ThreadRecord /\ cpu'[c] \in CpuRecord
    BY <1>1, <1>2, <1>5 DEF ThreadRecord, CpuRecord
  <2> QED BY <1>5, <2>1 DEF StoreMap, SwitchInv, SwitchTyped
<1>7. /\ ThreadState(t)' /\ Home(t)' = Home(t) /\ Private(t)' = Private(t)
      /\ \A u \in Everyone : thread'[u].cpu = thread[u].cpu /\ \A m : Uses(u, m)' <=> Uses(u, m)
  BY <1>1, <1>2, <1>4, <1>5, MoverState DEF ThreadRecord
<1>8. /\ cpu'[c].cr3 = thread[t].target /\ cpu'[c].current_map = thread[t].target /\ cpu'[c].thread = t
      /\ thread'[t].target = thread[t].target /\ thread'[t].old = thread[t].old
  BY <1>1, <1>4, <1>5 DEF CpuRecord, ThreadRecord
<1>9. Stands(t, c)'
  BY <1>1, <1>5, <1>8 DEF Stands, ThreadRecord
<1>10. CpuState(c)'
  <2>1. ASSUME NEW u \in Everyone, Doing(u, c, "mask")
        PROVE  Doing(u, c, "mask")' /\ thread'[u].old = thread[u].old /\ thread'[u].target = thread[u].target
    BY <1>1, <1>5, <2>1 DEF Doing
  <2>2. Doing(t, c, "mask")' /\ thread'[t].cpu = c
    BY <1>1, <1>5 DEF Doing, ThreadRecord
  <2>3. \A m \in Spaces : cpu'[c].current_map = m => m = kmap \/ Uses(t, m)'
    <3>1. \A m \in Spaces : thread[t].target = m => m = kmap \/ Uses(t, m)
      BY <1>2 DEF Uses, Home
    <3> QED BY <1>7, <1>8, <3>1
  <2>4. \A m \in Spaces : c \in mapped_on'[m] =>
          m = cpu'[c].current_map \/ \E u \in Everyone : Doing(u, c, "mask")' /\ thread'[u].old = m
    <3>1. \A m \in Spaces : c \in mapped_on[m] =>
            m = cpu[c].current_map \/ \E u \in Everyone : Doing(u, c, "mask") /\ thread[u].old = m
      BY <1>1 DEF CpuState
    <3>2. thread[t].old = cpu[c].current_map \/ thread[t].target = cpu[c].current_map
      BY <1>4
    <3>3. ASSUME NEW m \in Spaces, c \in mapped_on'[m]
          PROVE  m = cpu'[c].current_map \/ \E u \in Everyone : Doing(u, c, "mask")' /\ thread'[u].old = m
      <4>1. CASE m = cpu[c].current_map
        BY <1>8, <2>2, <3>2, <4>1
      <4>2. CASE m # cpu[c].current_map
        BY <1>5, <2>1, <3>1, <3>3, <4>2
      <4> QED BY <4>1, <4>2
    <3> QED BY <3>3
  <2> QED BY <1>8, <2>2, <2>3, <2>4 DEF CpuState
<1>11. Alone' /\ OwnMaps' /\ BootState'
  BY <1>1, <1>5, MoverKeeps DEF ThreadRecord
<1>12. /\ thread'[t].status = "on" /\ thread'[t].cpu = c /\ thread'[t].owner = thread[t].owner
       /\ mapped_on' \in [Spaces -> SUBSET Cpus] /\ stopped' # "mapped"
       /\ \A d \in Cpus : \A m \in Spaces : d # c => (d \in mapped_on'[m] <=> d \in mapped_on[m])
  BY <1>1, <1>5 DEF ThreadRecord, SwitchInv, SwitchTyped
<1> QED BY <1>1, <1>2, <1>5, <1>6, <1>7, <1>8, <1>9, <1>10, <1>11, <1>12, SoloStep

LEMMA MasksProps ==
  ASSUME SwitchInv, NEW c \in Cpus, NEW o \in Spaces, NEW n \in Spaces
  PROVE  /\ Masks(c, o, n) \in [Spaces -> SUBSET Cpus]
         /\ \A m \in Spaces : \A d \in Cpus :
              d \in Masks(c, o, n)[m] <=>
                IF d = c THEN m = n \/ (m # o /\ c \in mapped_on[m]) ELSE d \in mapped_on[m]
<1>1. mapped_on \in [Spaces -> SUBSET Cpus]
  BY DEF SwitchInv, SwitchTyped
<1>2. Masks(c, o, n) =
        [m \in Spaces |-> IF m = n THEN (IF n = o THEN mapped_on[m] \ {c} ELSE mapped_on[m]) \cup {c}
                          ELSE IF m = o THEN mapped_on[m] \ {c} ELSE mapped_on[m]]
  BY <1>1 DEF Masks
<1>3. \A m \in Spaces : mapped_on[m] \in SUBSET Cpus
  BY <1>1
<1>4. ASSUME NEW m \in Spaces
      PROVE  /\ Masks(c, o, n)[m] \in SUBSET Cpus
             /\ \A d \in Cpus : d \in Masks(c, o, n)[m] <=>
                  IF d = c THEN m = n \/ (m # o /\ c \in mapped_on[m]) ELSE d \in mapped_on[m]
  BY <1>2, <1>3
<1>5. Masks(c, o, n) \in [Spaces -> SUBSET Cpus]
  BY <1>2, <1>3
<1> QED BY <1>4, <1>5

LEMMA SetMasksInv ==
  ASSUME SwitchInv, NEW t \in Everyone, NEW c \in Cpus, thread[t].cpu = c, SetMasks(t)
  PROVE  SwitchInv'
<1>1. /\ thread[t].step = "mask" /\ On(t) /\ thread[t] \in ThreadRecord
      /\ cpu[c].thread = t /\ thread[t].status = "on" /\ cpu[c] \in CpuRecord
      /\ ThreadState(t) /\ CpuState(c)
  BY SwitchFacts DEF SetMasks, AtStep
<1>2. /\ t \in Users \cup {kmain} /\ thread[t].pc \in {"enter", "leave", "adopt"}
      /\ Busy(t) /\ (t = kmain => Booting) /\ Live(t)
      /\ thread[t].target \in {Home(t), Private(t)} /\ thread[t].old \in {Home(t), Private(t)}
      /\ thread[t].target \in Spaces /\ thread[t].old \in Spaces
  BY <1>1, MoverFacts DEF Spaces
<1>3. Stands(t, c)
  BY <1>1, <1>2, RunnerStands
<1>4. cpu[c].cr3 = thread[t].target /\ cpu[c].current_map = thread[t].target
  BY <1>1, <1>2, <1>3 DEF Stands
<1>5. /\ thread'[t] = [thread[t] EXCEPT !.target = Nil, !.old = Nil, !.step = "none", !.pc = After[@]]
      /\ \A u \in Everyone : u # t => thread'[u] = thread[u]
      /\ mapped_on' = Masks(c, thread[t].old, thread[t].target)
      /\ proc' = proc /\ cpu' = cpu /\ freed' = freed /\ stopped' = stopped
  BY SwitchFacts DEF SetMasks, Here
<1>6. /\ thread'[t].target = Nil /\ thread'[t].old = Nil /\ thread'[t].step = "none"
      /\ thread'[t].pc = After[thread[t].pc] /\ thread'[t].owner = thread[t].owner
      /\ thread'[t].ctx = thread[t].ctx /\ thread'[t].status = "on" /\ thread'[t].cpu = c
      /\ thread'[t].orig = thread[t].orig /\ thread'[t].made = thread[t].made
  BY <1>1, <1>5 DEF ThreadRecord
<1>7. thread' \in [Everyone -> ThreadRecord]
  <2>1. After[thread[t].pc] \in Places
    BY <1>2 DEF After, Places
  <2>2. thread'[t] \in ThreadRecord
    BY <1>1, <1>5, <2>1 DEF ThreadRecord, SpaceOrNone
  <2> QED BY <1>5, <2>2 DEF SetMasks, SwitchInv, SwitchTyped
<1>8. /\ mapped_on' \in [Spaces -> SUBSET Cpus]
      /\ \A m \in Spaces : \A d \in Cpus : d # c => (d \in mapped_on'[m] <=> d \in mapped_on[m])
      /\ \A m \in Spaces : c \in mapped_on'[m] <=>
           m = thread[t].target \/ (m # thread[t].old /\ c \in mapped_on[m])
  BY <1>2, <1>5, MasksProps
<1>9. /\ Home(t)' = Home(t) /\ Private(t)' = Private(t) /\ Live(t)'
      /\ (Making(t)' <=> Making(t)) /\ (Leaving(t)' <=> Leaving(t)) /\ (Busy(t)' <=> Busy(t))
  BY <1>1, <1>2, <1>5, <1>6 DEF Home, Private, Making, Leaving, Busy, Live, After
<1>10. ThreadState(t)' /\ Stands(t, c)'
  <2>1. CASE thread[t].pc = "enter"
    <3>1. thread'[t].pc = "load" /\ thread[t].target = thread[t].made /\ thread[t].orig = Home(t)
      BY <1>1, <1>6, <2>1 DEF ThreadState, Remembers, Moving, After
    <3>2. Remembers(t)'
      BY <1>6, <1>9, <3>1 DEF Remembers, Settles
    <3>3. ThreadState(t)'
      BY <1>1, <1>6, <1>9, <2>1, <3>1, <3>2 DEF ThreadState
    <3> QED BY <1>4, <1>5, <1>6, <3>1, <3>3 DEF Stands
  <2>2. CASE thread[t].pc = "leave"
    <3>1. thread'[t].pc = "launched" /\ thread[t].target = Home(t)
      BY <1>1, <1>6, <2>2 DEF ThreadState, Remembers, Moving, After
    <3>2. Remembers(t)'
      BY <1>6, <3>1 DEF Remembers, Settles
    <3>3. ThreadState(t)'
      BY <1>1, <1>6, <1>9, <2>2, <3>1, <3>2 DEF ThreadState
    <3> QED BY <1>4, <1>5, <1>6, <1>9, <3>1, <3>3 DEF Stands
  <2>3. CASE thread[t].pc = "adopt"
    <3>1. thread'[t].pc = "adopted" /\ thread[t].target = thread[t].made
      BY <1>1, <1>6, <2>3 DEF ThreadState, Remembers, Moving, After
    <3>2. Remembers(t)'
      BY <1>6, <3>1 DEF Remembers, Settles
    <3>3. ThreadState(t)'
      BY <1>1, <1>6, <1>9, <2>3, <3>1, <3>2 DEF ThreadState
    <3>4. thread[t].made = Home(t)
      BY <1>1, <2>3 DEF ThreadState, Leaving
    <3> QED BY <1>4, <1>5, <1>6, <1>9, <3>1, <3>3, <3>4 DEF Stands
  <2> QED BY <1>2, <2>1, <2>2, <2>3
<1>11. CpuState(c)'
  <2>1. ASSUME NEW u \in Everyone
        PROVE  thread'[u].cpu = thread[u].cpu /\ \A m : Uses(u, m)' <=> Uses(u, m)
    <3>1. CASE u = t
      BY <1>1, <1>2, <1>6, <1>9, <3>1 DEF Uses
    <3>2. CASE u # t
      <4>1. thread'[u] = thread[u] /\ Home(u)' = Home(u)
        BY <1>5, <3>2 DEF Home
      <4> QED BY <4>1, ThreadSame
    <3> QED BY <3>1, <3>2
  <2>2. \A m \in Spaces : cpu'[c].current_map = m =>
          m = kmap \/ \E u \in Everyone : thread'[u].cpu = c /\ Uses(u, m)'
    BY <1>1, <1>5, <2>1 DEF CpuState
  <2>3. ASSUME NEW m \in Spaces, c \in mapped_on'[m]
        PROVE  m = cpu'[c].current_map \/ \E u \in Everyone : Doing(u, c, "mask")' /\ thread'[u].old = m
    <3>1. CASE m = thread[t].target
      BY <1>4, <1>5, <3>1
    <3>2. CASE m # thread[t].target
      <4>1. m # thread[t].old /\ c \in mapped_on[m]
        BY <1>8, <2>3, <3>2
      <4>2. PICK u \in Everyone : Doing(u, c, "mask") /\ thread[u].old = m
        BY <1>1, <1>4, <3>2, <4>1 DEF CpuState
      <4>3. Doing(u, c, "mask")' /\ thread'[u].old = m
        BY <1>5, <4>1, <4>2 DEF Doing
      <4> QED BY <4>3
    <3> QED BY <3>1, <3>2
  <2>4. c \in mapped_on'[cpu'[c].current_map]
    <3>1. cpu'[c].current_map = thread[t].target
      BY <1>4, <1>5
    <3>2. thread[t].target \in Spaces /\ c \in mapped_on'[thread[t].target]
      BY <1>2, <1>8
    <3> QED BY <3>1, <3>2
  <2>5. cpu'[c].cr3 = cpu'[c].current_map
    BY <1>4, <1>5
  <2> QED BY <2>2, <2>3, <2>4, <2>5 DEF CpuState
<1>12. Alone' /\ OwnMaps' /\ BootState'
  BY <1>1, <1>5, <1>6, MoverKeeps
<1>13. cpu' \in [Cpus -> CpuRecord] /\ stopped' # "mapped" /\ cpu'[c].thread = t
  BY <1>1, <1>5 DEF SwitchInv, SwitchTyped
<1> QED BY <1>1, <1>2, <1>5, <1>6, <1>7, <1>8, <1>10, <1>11, <1>12, <1>13, SoloStep

\* Assertions stop the kernel in the state that it is in.
LEMMA StopInv ==
  ASSUME SwitchInv, NEW why, why # "mapped", Stop(why)
  PROVE  SwitchInv'
<1>1. /\ cpu' = cpu /\ thread' = thread /\ proc' = proc /\ mapped_on' = mapped_on
      /\ freed' = freed /\ stopped' # "mapped"
  BY DEF Stop
<1>2. \A t \in Everyone : thread'[t] = thread[t] /\ Home(t)' = Home(t)
  BY <1>1 DEF Home
<1>3. ASSUME NEW t \in Everyone PROVE ThreadState(t)'
  BY <1>2, ThreadSame, SwitchFacts
<1>4. ASSUME NEW c \in Cpus PROVE CpuState(c)'
  <2>1. CpuState(c) /\ cpu[c].current_map \in Spaces
    BY SwitchFacts DEF CpuRecord
  <2> QED BY <1>1, <1>2, <2>1, CpuSame
<1>5. \A t \in Users : t \in Everyone
  BY DEF Everyone
<1>6. \A t \in Everyone : (Busy(t)' <=> Busy(t)) /\ Private(t)' = Private(t)
  BY <1>2, ThreadSame
<1>7. Alone' /\ OwnMaps' /\ BootState'
  BY <1>1, <1>5, <1>6 DEF SwitchInv, Alone, OwnMaps, BootState, Booting
<1>8. Standing'
  <2>1. ASSUME NEW t \in Users, NEW c \in Cpus, cpu'[c].thread = t PROVE Stands(t, c)'
    BY <1>1, <1>2, <1>5, <2>1, StandsSame DEF SwitchInv, Standing
  <2>2. ASSUME NEW c \in Cpus, c = thread'[kmain].cpu, Booting' PROVE Stands(kmain, c)'
    <3>1. kmain \in Everyone /\ Stands(kmain, c)
      BY <1>1, <2>2 DEF SwitchInv, Standing, Booting, Everyone, Kernels
    <3> QED BY <1>1, <1>2, <3>1, StandsSame
  <2> QED BY <2>1, <2>2 DEF Standing
<1>9. SwitchTyped' /\ Running' /\ \A p \in Procs : ProcState(p)'
  BY <1>1 DEF SwitchInv, SwitchTyped, Running, ProcState
<1> QED BY <1>1, <1>3, <1>4, <1>7, <1>8, <1>9 DEF SwitchInv

\* A thread stops or starts running; it goes on where it was.
Kept(t) ==
  /\ thread'[t].pc = thread[t].pc /\ thread'[t].step = thread[t].step
  /\ thread'[t].ctx = thread[t].ctx /\ thread'[t].target = thread[t].target
  /\ thread'[t].old = thread[t].old /\ thread'[t].orig = thread[t].orig
  /\ thread'[t].made = thread[t].made /\ thread'[t].owner = thread[t].owner

LEMMA GoesOn ==
  ASSUME NEW t \in Everyone, ThreadState(t), Live(t), Live(t)', Home(t)' = Home(t),
         Kept(t),
         thread'[t].cpu \in Cpus, Nil \notin Cpus
  PROVE  /\ ThreadState(t)' /\ (Busy(t)' <=> Busy(t)) /\ Private(t)' = Private(t)
         /\ \A m : Uses(t, m)' <=> Uses(t, m)
<1>1. /\ (Making(t)' <=> Making(t)) /\ (Leaving(t)' <=> Leaving(t)) /\ Private(t)' = Private(t)
      /\ (Busy(t)' <=> Busy(t))
  BY DEF Kept, Making, Leaving, Private, Busy
<1>2. Remembers(t)
  BY DEF ThreadState
<1>3. Remembers(t)'
  BY <1>1, <1>2 DEF Kept, Remembers, Plain, Moving, Settles
<1>4. thread[t].status \in {"ready", "on"} /\ thread'[t].status \in {"ready", "on"}
  BY DEF Live
<1>5. ThreadState(t)'
  BY <1>1, <1>3, <1>4 DEF Kept, ThreadState
<1> QED BY <1>1, <1>5 DEF Uses

\* The CPU c leaves the thread from, which is ready or terminates, for the ready thread t.
LEMMA HandOver ==
  ASSUME SwitchInv, NEW c \in Cpus, NEW t \in Everyone \cup {Idle}, NEW from,
         from = cpu[c].thread, t # from,
         t \in Everyone => /\ thread[t].status = "ready" /\ thread[t].cpu \in {c, Nil}
                           /\ thread'[t].status = "on" /\ thread'[t].cpu = c
                           /\ Kept(t),
         \A u \in Everyone : u \notin {t, from} => thread'[u] = thread[u],
         thread' \in [Everyone -> ThreadRecord],
         from \in Everyone =>
           /\ ThreadState(from)'
           /\ thread'[from].status \in {"ready", "terminating"}
           /\ thread'[from].cpu = thread[from].cpu /\ thread'[from].owner = thread[from].owner
           /\ Busy(from)' => Busy(from) /\ Private(from)' = Private(from),
         cpu' \in [Cpus -> CpuRecord], \A d \in Cpus : d # c => cpu'[d] = cpu[d],
         cpu'[c].thread = t, mapped_on' \in [Spaces -> SUBSET Cpus],
         \A d \in Cpus : \A m \in Spaces : d # c => (d \in mapped_on'[m] <=> d \in mapped_on[m]),
         proc' = proc, freed' = freed, stopped' = stopped,
         CpuState(c)', BootState', t \in Users => Stands(t, c)',
         Booting' /\ thread'[kmain].cpu \in Cpus => Stands(kmain, thread[kmain].cpu)'
  PROVE  SwitchInv'
<1>1. /\ \A d \in Cpus, u \in Everyone :
           cpu[d].thread = u <=> thread[u].status = "on" /\ thread[u].cpu = d
      /\ \A u \in Everyone : thread[u] \in ThreadRecord /\ ThreadState(u)
      /\ t \in Everyone => thread[t] \in ThreadRecord
      /\ from \in Everyone => thread[from].status = "on" /\ thread[from].cpu = c
      /\ Nil \notin Cpus
  BY SwitchFacts, MapSwitchAssumption DEF SwitchInv, Running
<1>2. ASSUME t \in Everyone
      PROVE  (Busy(t)' <=> Busy(t)) /\ Private(t)' = Private(t)
  BY <1>2 DEF Kept, Busy, Private, Making, Leaving
<1>4. SwitchTyped'
  BY DEF SwitchInv, SwitchTyped
<1>5. Running'
  <2>1. ASSUME NEW d \in Cpus, NEW u \in Everyone
        PROVE  cpu'[d].thread = u <=> thread'[u].status = "on" /\ thread'[u].cpu = d
    <3>1. CASE u = t
      BY <1>1, <1>2, <3>1
    <3>2. CASE u = from
      BY <1>1, <3>2
    <3>3. CASE u \notin {t, from}
      BY <1>1, <3>3
    <3> QED BY <3>1, <3>2, <3>3
  <2> QED BY <2>1 DEF Running
<1>6. \A u \in Everyone : thread'[u].owner = thread[u].owner /\ Home(u)' = Home(u)
  <2>1. \A u \in Everyone : thread'[u].owner = thread[u].owner
    BY DEF Kept
  <2> QED BY <2>1 DEF Home
<1>7. ASSUME NEW u \in Everyone PROVE ThreadState(u)'
  <2>1. CASE u = t
    <3>1. Live(t) /\ Live(t)' /\ ThreadState(t) /\ t \in Everyone
      BY <1>1, <1>2, <2>1 DEF Live
    <3>2. Home(t)' = Home(t)
      BY <1>6, <2>1
    <3> QED BY <1>1, <1>2, <2>1, <3>1, <3>2, GoesOn
  <2>2. CASE u = from
    BY <2>2
  <2>3. CASE u \notin {t, from}
    BY <1>1, <1>6, <2>3, ThreadSame
  <2> QED BY <2>1, <2>2, <2>3
<1>8. ASSUME NEW p \in Procs PROVE ProcState(p)'
  <2>1. \A u \in Users : thread'[u].owner = thread[u].owner
    BY <1>6 DEF Everyone
  <2>2. ProcState(p) /\ proc'[p] = proc[p]
    BY DEF SwitchInv
  <2> QED BY <2>1, <2>2, CountSame
<1>9. ASSUME NEW u \in Users
      PROVE  /\ u \in Everyone /\ (Busy(u)' => Busy(u) /\ Private(u)' = Private(u))
             /\ thread[u].status = "new" => thread'[u].status = "new"
  <2>1. u \in Everyone
    BY DEF Everyone
  <2>2. CASE u = t
    BY <1>1, <1>2, <2>1, <2>2
  <2>3. CASE u = from
    BY <1>1, <2>1, <2>3
  <2>4. CASE u \notin {t, from}
    <3>1. thread'[u] = thread[u]
      BY <2>1, <2>4
    <3> QED BY <2>1, <3>1 DEF Busy, Private, Making, Leaving
  <2> QED BY <2>2, <2>3, <2>4
<1>10. Alone'
  BY <1>6, <1>9 DEF SwitchInv, Alone
<1>11. OwnMaps'
  BY <1>9 DEF SwitchInv, OwnMaps
<1>12. Standing'
  <2>1. ASSUME NEW u \in Users, NEW d \in Cpus, cpu'[d].thread = u PROVE Stands(u, d)'
    <3>1. CASE d = c
      BY <2>1, <3>1
    <3>2. CASE d # c
      <4>1. u \in Everyone /\ cpu[d].thread = u /\ u \notin {t, from}
        BY <1>1, <2>1, <3>2 DEF Everyone
      <4>2. Stands(u, d) /\ thread'[u] = thread[u] /\ cpu'[d] = cpu[d] /\ Home(u)' = Home(u)
        BY <1>6, <3>2, <4>1 DEF SwitchInv, Standing
      <4> QED BY <4>1, <4>2, StandsSame
    <3> QED BY <3>1, <3>2
  <2> QED BY <2>1 DEF Standing
<1>13. ASSUME NEW d \in Cpus PROVE CpuState(d)'
  <2>1. CASE d = c
    BY <2>1
  <2>2. CASE d # c
    <3>1. CpuState(d) /\ cpu[d].current_map \in Spaces
      BY SwitchFacts DEF CpuRecord
    <3>2. \A u \in Everyone : thread[u].cpu = d => thread'[u] = thread[u]
      BY <1>1, <2>2
    <3> QED BY <1>6, <2>2, <3>1, <3>2, CpuSame
  <2> QED BY <2>1, <2>2
<1> QED BY <1>4, <1>5, <1>7, <1>8, <1>10, <1>11, <1>12, <1>13 DEF SwitchInv

LEMMA StandsKept ==
  ASSUME NEW t \in Everyone, NEW c \in Cpus, Kept(t), Home(t)' = Home(t),
         cpu'[c].cr3 = cpu[c].cr3, cpu'[c].current_map = cpu[c].current_map,
         cpu'[c].inherited = cpu[c].inherited, Stands(t, c)
  PROVE  Stands(t, c)'
<1>1. Private(t)' = Private(t)
  BY DEF Kept, Private, Making
<1> QED BY <1>1 DEF Kept, Stands

\* A thread with no map context may start in the map of its process.
LEMMA StandsHome ==
  ASSUME SwitchInv, NEW t \in Users, Live(t), thread[t].ctx = Nil, NEW c \in Cpus, Kept(t), Home(t)' = Home(t),
         cpu'[c].cr3 = Home(t), cpu'[c].current_map = Home(t)
  PROVE  Stands(t, c)'
<1>1. t \in Everyone
  BY DEF Everyone
<1>2. ThreadState(t) /\ thread[t] \in ThreadRecord
  BY <1>1, SwitchFacts
<1>3. thread[t].pc \notin {"enter", "load"}
  BY <1>2, MapSwitchAssumption DEF ThreadState, Making
<1>4. thread[t].step # "none" => thread[t].target = Home(t)
  <2>1. CASE thread[t].pc = "leave"
    BY <1>2, <2>1 DEF ThreadState, Remembers, Moving
  <2>2. CASE thread[t].pc = "adopt"
    BY <1>2, <2>2 DEF ThreadState, Remembers, Moving, Leaving
  <2> QED BY <1>1, <1>3, <2>1, <2>2, MoverFacts
<1> QED BY <1>3, <1>4 DEF Kept, Stands

\* A CPU that goes to the map m as a whole, and one that stays where it is.
LEMMA CpuOnto ==
  ASSUME SwitchInv, NEW c \in Cpus, NEW m \in Spaces, cpu'[c].cr3 = m, cpu'[c].current_map = m,
         mapped_on' = Masks(c, cpu[c].current_map, m),
         \A u \in Everyone : Doing(u, c, "mask") => Doing(u, c, "mask")' /\ thread'[u].old = thread[u].old,
         m # kmap => \E u \in Everyone : thread'[u].cpu = c /\ Uses(u, m)'
  PROVE  /\ CpuState(c)' /\ mapped_on' \in [Spaces -> SUBSET Cpus]
         /\ \A d \in Cpus : \A n \in Spaces : d # c => (d \in mapped_on'[n] <=> d \in mapped_on[n])
<1>1. cpu[c].current_map \in Spaces /\ CpuState(c)
  BY SwitchFacts DEF CpuRecord
<1>2. /\ mapped_on' \in [Spaces -> SUBSET Cpus]
      /\ \A n \in Spaces : \A d \in Cpus :
           d \in mapped_on'[n] <=>
             IF d = c THEN n = m \/ (n # cpu[c].current_map /\ c \in mapped_on[n]) ELSE d \in mapped_on[n]
  BY <1>1, MasksProps
<1>3. ASSUME NEW n \in Spaces, c \in mapped_on'[n], n # m
      PROVE  \E u \in Everyone : Doing(u, c, "mask")' /\ thread'[u].old = n
  <2>1. n # cpu[c].current_map /\ c \in mapped_on[n]
    BY <1>2, <1>3
  <2>2. PICK u \in Everyone : Doing(u, c, "mask") /\ thread[u].old = n
    BY <1>1, <2>1 DEF CpuState
  <2> QED BY <2>2
<1>4. c \in mapped_on'[m]
  BY <1>2
<1>5. CpuState(c)'
  BY <1>3, <1>4 DEF CpuState
<1> QED BY <1>2, <1>5

LEMMA CpuStays ==
  ASSUME SwitchInv, NEW c \in Cpus, cpu'[c].cr3 = cpu[c].cr3, cpu'[c].current_map = cpu[c].current_map,
         mapped_on' = mapped_on,
         \A u \in Everyone : thread[u].cpu = c /\ thread[u].step # "none" =>
           /\ thread'[u].cpu = c /\ thread'[u].step = thread[u].step
           /\ thread'[u].old = thread[u].old /\ thread'[u].target = thread[u].target,
         \A u \in Everyone : \A m \in Spaces :
           thread[u].cpu = c /\ m = cpu[c].current_map /\ Uses(u, m) => thread'[u].cpu = c /\ Uses(u, m)'
  PROVE  CpuState(c)'
<1>1. CpuState(c)
  BY SwitchFacts
<1>2. \A m \in Spaces : cpu'[c].current_map = m =>
        m = kmap \/ \E t \in Everyone : thread'[t].cpu = c /\ Uses(t, m)'
  BY <1>1 DEF CpuState
<1>3. \/ cpu'[c].cr3 = cpu'[c].current_map
      \/ \E t \in Everyone : Doing(t, c, "store")' /\ thread'[t].target = cpu'[c].cr3
  BY <1>1 DEF CpuState, Doing
<1>4. \A m \in Spaces : c \in mapped_on'[m] =>
       m = cpu'[c].current_map \/ \E t \in Everyone : Doing(t, c, "mask")' /\ thread'[t].old = m
  BY <1>1 DEF CpuState, Doing
<1>5. c \in mapped_on'[cpu'[c].current_map]
       \/ \E t \in Everyone : Doing(t, c, "mask")' /\ thread'[t].target = cpu'[c].current_map
  BY <1>1 DEF CpuState, Doing
<1> QED BY <1>2, <1>3, <1>4, <1>5 DEF CpuState

\* Which map a thread that runs next asks for.
LEMMA NextMap ==
  ASSUME SwitchInv, NEW from, NEW t \in Everyone \cup {Idle}, NEW m, m = SwitchMap(from, t),
         t \in Everyone => thread[t].status = "ready", ContextAsserted(t)
  PROVE  /\ m # Nil => /\ t \in Everyone /\ m \in Spaces /\ Uses(t, m)
                       /\ t \in Users => m = Home(t)
                       /\ t \notin Users => /\ t = kmain /\ thread[t].pc \in {"enter", "load"}
                                            /\ m = thread[t].made /\ Booting
         /\ t \in Users => thread[t].ctx = Nil
         /\ m = Nil /\ t \in Users => from \in Users /\ thread[from].owner = thread[t].owner
         /\ m = Nil /\ t \in Kernels => thread[t].ctx = Nil
<1>1. /\ DOMAIN thread = Everyone /\ Idle \notin Everyone /\ (t \in Users => thread[t].ctx = Nil)
      /\ Users \cap Kernels = {}
  BY SwitchFacts, MapSwitchAssumption DEF Everyone, Kernels, Idle, kmain, reaper, ContextAsserted
<1>2. CASE t \in Users
  <2>1. t \in Everyone /\ Live(t)
    BY <1>2 DEF Everyone, Live
  <2>2. thread[t].owner \in Procs /\ Home(t) \in Maps /\ Home(t) # Nil /\ thread[t].owner # "kproc0"
    BY <1>2, <2>1, OwnerHome
  <2>3. Home(t) = proc[thread[t].owner].map
    BY <1>2 DEF Home
  <2>n. t \notin Kernels
    BY <1>1, <1>2
  <2>4. CASE Owner(from) # Owner(t)
    <3>1. m = Home(t)
      BY <1>1, <1>2, <2>3, <2>4 DEF SwitchMap
    <3>2. m \in Spaces /\ Uses(t, m)
      BY <1>2, <2>1, <2>2, <3>1 DEF Uses, Spaces
    <3> QED BY <1>1, <1>2, <2>1, <2>2, <2>n, <3>1, <3>2
  <2>5. CASE Owner(from) = Owner(t)
    <3>1. m = Nil
      BY <1>1, <1>2, <2>5 DEF SwitchMap
    <3>2. from \in Users /\ thread[from].owner = thread[t].owner
      BY <1>2, <2>2, <2>5 DEF Owner
    <3> QED BY <1>1, <1>2, <2>n, <3>1, <3>2
  <2> QED BY <2>4, <2>5
<1>3. CASE t \in Kernels
  <2>1. t \in Everyone /\ t \notin Users /\ Live(t) /\ ThreadState(t)
    BY <1>1, <1>3, SwitchFacts DEF Everyone, Live
  <2>2. CASE thread[t].ctx = Nil
    <3>1. m = Nil
      BY <2>1, <2>2 DEF SwitchMap
    <3> QED BY <2>1, <2>2, <3>1
  <2>3. CASE thread[t].ctx # Nil
    <3>1. m = thread[t].ctx
      BY <1>1, <2>1, <2>3 DEF SwitchMap
    <3>2. thread[t].status # "terminating"
      BY <2>1 DEF Live
    <3>3. thread[t].pc \in {"enter", "load"} /\ m = thread[t].made /\ Making(t) /\ m \in Maps
      BY <2>1, <2>3, <3>1, <3>2 DEF ThreadState, Making
    <3>4. t = kmain
      BY <1>3, <2>1, <3>3 DEF ThreadState, Kernels
    <3>5. Busy(t) /\ Private(t) = m
      BY <3>3 DEF Busy, Private
    <3>6. Booting
      BY <3>3, <3>4 DEF Booting
    <3> QED BY <2>1, <2>3, <3>1, <3>3, <3>4, <3>5, <3>6 DEF Uses, Spaces
  <2> QED BY <2>2, <2>3
<1>4. CASE t = Idle
  BY <1>1, <1>4 DEF SwitchMap, Everyone
<1> QED BY <1>1, <1>2, <1>3, <1>4 DEF Everyone

\* Two threads of one process that run in turn are not in an exec.
LEMMA SiblingPlain ==
  ASSUME SwitchInv, NEW t \in Users, NEW u \in Users, u # t, thread[u].owner = thread[t].owner,
         Live(t), Live(u)
  PROVE  /\ ~Busy(t) /\ thread[t].step = "none" /\ thread[t].pc \in {"user", "exit"} /\ Home(u) = Home(t)
<1>1. t \in Everyone /\ ThreadState(t) /\ thread[t] \in ThreadRecord
  BY SwitchFacts DEF Everyone
<1>2. ~Busy(t)
  BY DEF SwitchInv, Alone, Live
<1>3. thread[t].step = "none"
  BY <1>1, <1>2, MoverFacts
<1>4. thread[t].pc \in {"user", "exit"}
  BY <1>1, <1>2, MapSwitchAssumption DEF ThreadState, Busy, Making, Leaving, ThreadRecord, Places
<1> QED BY <1>2, <1>3, <1>4 DEF Home

\* Init is launched alone, so a switch changes no map of a CPU.
LEMMA BootKept ==
  ASSUME SwitchInv, Booting, NEW c \in Cpus, NEW t \in Everyone \cup {Idle},
         t \in Everyone => Live(t),
         \A u \in Users : thread'[u].status = thread[u].status, Kept(kmain),
         thread'[kmain].cpu = IF t = kmain THEN c ELSE thread[kmain].cpu,
         t = kmain => thread[kmain].cpu \in {c, Nil},
         cpu' \in [Cpus -> CpuRecord], \A d \in Cpus : d # c => cpu'[d] = cpu[d],
         (t = kmain /\ thread[kmain].ctx # Nil)
           \/ (cpu'[c].cr3 = cpu[c].cr3 /\ cpu'[c].current_map = cpu[c].current_map),
         proc' = proc, freed' = freed
  PROVE  BootState'
<1>1. /\ Booting' /\ thread'[kmain].pc = thread[kmain].pc /\ thread'[kmain].made = thread[kmain].made
      /\ thread'[kmain].orig = thread[kmain].orig
  BY DEF Kept, Booting
<1>2. kmain \in Everyone /\ Nil \notin Cpus /\ ThreadState(kmain)
  BY SwitchFacts, MapSwitchAssumption DEF Everyone, Kernels
<1>3. /\ \A u \in Users : thread[u].status \in {"none", "new"}
      /\ thread[kmain].pc = "boot" => \A u \in Users : thread[u].status = "none"
      /\ \A d \in Cpus : thread[kmain].pc = "boot" \/ d # thread[kmain].cpu =>
           cpu[d].cr3 = kmap /\ cpu[d].current_map = kmap
      /\ thread[kmain].pc # "boot" => proc[Init1].map = thread[kmain].made /\ thread[kmain].orig = kmap
      /\ thread[kmain].pc # "boot" => proc[Init1].status = "alive"
      /\ freed = {}
  BY DEF SwitchInv, BootState
<1>4. thread[kmain].pc = "boot" => thread[kmain].ctx = Nil
  <2>1. kmain \in Everyone /\ (thread[kmain].pc = "boot" => Live(kmain))
    BY <1>2 DEF ThreadState
  <2> QED BY <1>2, <2>1 DEF ThreadState, Live
<1>5. ASSUME NEW d \in Cpus, thread'[kmain].pc = "boot" \/ d # thread'[kmain].cpu
      PROVE  cpu'[d].cr3 = kmap /\ cpu'[d].current_map = kmap
  <2>1. CASE d = c
    <3>1. thread[kmain].pc = "boot" \/ d # thread[kmain].cpu
      BY <1>1, <1>5, <2>1
    <3>2. ~(t = kmain /\ thread[kmain].ctx # Nil)
      BY <1>1, <1>4, <1>5, <2>1
    <3> QED BY <1>3, <2>1, <3>1, <3>2
  <2>2. CASE d # c
    <3>1. thread[kmain].pc = "boot" \/ d # thread[kmain].cpu
      BY <1>1, <1>2, <1>5, <2>2
    <3> QED BY <1>3, <2>2, <3>1
  <2> QED BY <2>1, <2>2
<1> QED BY <1>1, <1>3, <1>5 DEF BootState

\* The records of the threads after swtch, and what an exec or a launch writes.
SameBut(s, r) ==
  /\ s.pc = r.pc /\ s.step = r.step /\ s.ctx = r.ctx /\ s.target = r.target /\ s.old = r.old
  /\ s.orig = r.orig /\ s.made = r.made /\ s.owner = r.owner
OnRecord(r, c) == [r EXCEPT !.status = "on", !.cpu = c]
LEMMA OnRecordProps ==
  ASSUME NEW r \in ThreadRecord, NEW c \in Cpus
  PROVE  /\ OnRecord(r, c) \in ThreadRecord /\ SameBut(OnRecord(r, c), r)
         /\ OnRecord(r, c).status = "on" /\ OnRecord(r, c).cpu = c
BY DEF OnRecord, ThreadRecord, SameBut

Readied(f, from) == IF from \in DOMAIN f THEN [f EXCEPT ![from].status = "ready"] ELSE f
Ran(w, c, t) == IF t \in DOMAIN w THEN [w EXCEPT ![t].status = "on", ![t].cpu = c] ELSE w
LEMMA Switched ==
  ASSUME NEW f \in [Everyone -> ThreadRecord], NEW c \in Cpus, NEW from, NEW t, from # t,
         NEW g, g = Ran(Readied(f, from), c, t)
  PROVE  /\ g \in [Everyone -> ThreadRecord]
         /\ from \in Everyone => /\ SameBut(g[from], f[from])
                                 /\ g[from].status = "ready" /\ g[from].cpu = f[from].cpu
         /\ t \in Everyone => SameBut(g[t], f[t]) /\ g[t].status = "on" /\ g[t].cpu = c
         /\ \A u \in Everyone : u \notin {t, from} => g[u] = f[u]
<1>0. PICK w : w = Readied(f, from)
  OBVIOUS
<1>1. /\ w \in [Everyone -> ThreadRecord] /\ \A u \in Everyone : u # from => w[u] = f[u]
      /\ from \in Everyone => SameBut(w[from], f[from]) /\ w[from].status = "ready" /\ w[from].cpu = f[from].cpu
  <2>1. CASE from \in Everyone
    <3>1. w = [f EXCEPT ![from].status = "ready"] /\ f[from] \in ThreadRecord
      BY <1>0, <2>1 DEF Readied
    <3>2. w[from] = [f[from] EXCEPT !.status = "ready"] /\ \A u \in Everyone : u # from => w[u] = f[u]
      BY <2>1, <3>1
    <3>3. w[from] \in ThreadRecord
      BY <3>1, <3>2 DEF ThreadRecord
    <3>4. SameBut(w[from], f[from]) /\ w[from].status = "ready" /\ w[from].cpu = f[from].cpu
      BY <3>1, <3>2 DEF ThreadRecord, SameBut
    <3> QED BY <3>1, <3>2, <3>3, <3>4
  <2>2. CASE from \notin Everyone
    BY <1>0, <2>2 DEF Readied
  <2> QED BY <2>1, <2>2
<1>2. CASE t \in Everyone
  <2>1. g = [w EXCEPT ![t].status = "on", ![t].cpu = c] 
    BY <1>0, <1>1, <1>2 DEF Ran
  <2>n. w[t] \in ThreadRecord /\ w[t] = f[t] /\ DOMAIN g = Everyone
    BY <1>1, <1>2, <2>1
  <2>2. g[t] = OnRecord(w[t], c) /\ \A u \in Everyone : u # t => g[u] = w[u]
    BY <1>1, <1>2, <2>1 DEF OnRecord
  <2>3. g[t] \in ThreadRecord /\ SameBut(g[t], w[t]) /\ g[t].status = "on" /\ g[t].cpu = c
    BY <2>n, <2>2, OnRecordProps
  <2>4. SameBut(g[t], f[t]) /\ g[t].status = "on" /\ g[t].cpu = c
    BY <2>n, <2>3
  <2>5. \A u \in Everyone : g[u] \in ThreadRecord
    BY <1>1, <2>2, <2>3
  <2>6. g \in [Everyone -> ThreadRecord]
    BY <1>1, <2>1, <2>5
  <2> QED BY <1>1, <2>2, <2>4, <2>6
<1>3. CASE t \notin Everyone
  BY <1>0, <1>1, <1>3 DEF Ran
<1> QED BY <1>2, <1>3

\* A ready thread starts where its process is, or where the exec it is in has brought it.
LEMMA NextStands ==
  ASSUME SwitchInv, NEW from, NEW t \in Users, NEW m, m = SwitchMap(from, t), NEW c \in Cpus,
         from = cpu[c].thread, from # t, thread[t].status = "ready", ContextAsserted(t),
         Kept(t), Home(t)' = Home(t),
         m # Nil => cpu'[c].cr3 = m /\ cpu'[c].current_map = m,
         m = Nil => \/ /\ cpu'[c].cr3 = cpu[c].cr3 /\ cpu'[c].current_map = cpu[c].current_map
                       /\ cpu'[c].inherited = cpu[c].inherited
                    \/ cpu'[c].cr3 = kmap /\ cpu'[c].current_map = kmap /\ cpu'[c].inherited
  PROVE  Stands(t, c)'
<1>1. t \in Everyone /\ Live(t)
  BY DEF Everyone, Live
<1>2. CASE m # Nil
  BY <1>1, <1>2, NextMap, StandsHome
<1>3. CASE m = Nil
  <2>1. from \in Users /\ thread[from].owner = thread[t].owner
    BY <1>1, <1>3, NextMap
  <2>2. from \in Everyone /\ Stands(from, c) /\ Live(from)
    BY <2>1, RunnerStands, MapSwitchAssumption DEF Live, Kernels
  <2>3. /\ thread[from].step = "none" /\ thread[from].pc \in {"user", "exit"} /\ Home(from) = Home(t)
        /\ thread[t].step = "none" /\ thread[t].pc \in {"user", "exit"}
    BY <1>1, <2>1, <2>2, SiblingPlain
  <2>4. /\ cpu[c].cr3 = cpu[c].current_map
        /\ cpu[c].cr3 = Home(t) \/ (cpu[c].cr3 = kmap /\ cpu[c].inherited)
    BY <2>2, <2>3 DEF Stands
  <2>5. /\ cpu'[c].cr3 = cpu'[c].current_map
        /\ cpu'[c].cr3 = Home(t)' \/ (cpu'[c].cr3 = kmap /\ cpu'[c].inherited)
    BY <1>3, <2>4
  <2>6. thread'[t].step = "none" /\ thread'[t].pc \in {"user", "exit"}
    BY <2>3 DEF Kept
  <2> QED BY <2>5, <2>6 DEF Stands
<1> QED BY <1>2, <1>3

LEMMA SwitchStepInv ==
  ASSUME SwitchInv, NEW c \in Cpus, NEW t \in Everyone \cup {Idle}, Switch(c, t)
  PROVE  SwitchInv'
<1>1. CASE ~ContextAsserted(t)
  BY <1>1, StopInv DEF Switch
<1>2. CASE ContextAsserted(t)
  <2>1. PICK from : from = cpu[c].thread
    OBVIOUS
  <2>2. PICK m : m = SwitchMap(from, t)
    OBVIOUS
  <2>3. PICK w : w = IF from \in DOMAIN thread THEN [thread EXCEPT ![from].status = "ready"] ELSE thread
    OBVIOUS
  <2>4. /\ thread \in [Everyone -> ThreadRecord] /\ cpu \in [Cpus -> CpuRecord]
        /\ cpu[c] \in CpuRecord /\ Nil \notin Cpus
    BY MapSwitchAssumption DEF SwitchInv, SwitchTyped
  <2>5. Idle \notin Everyone
    BY MapSwitchAssumption DEF Everyone, Kernels, Idle, kmain, reaper
  <2>6. /\ t # from /\ proc' = proc /\ freed' = freed /\ stopped' = stopped
        /\ t \in Everyone => thread[t].status = "ready" /\ thread[t].cpu \in {c, Nil}
        /\ from \in Everyone \cup {Idle}
    <3>1. /\ t # from /\ proc' = proc /\ freed' = freed /\ stopped' = stopped /\ t \in Ready(c) \cup {Idle}
      BY <1>2, <2>1 DEF Switch
    <3>2. t \in Everyone => thread[t].status = "ready" /\ thread[t].cpu \in {c, Nil}
      BY <2>5, <3>1 DEF Ready
    <3> QED BY <2>1, <2>4, <3>1, <3>2 DEF CpuRecord
  <2>7. /\ thread' = IF t \in DOMAIN w THEN [w EXCEPT ![t].status = "on", ![t].cpu = c] ELSE w
        /\ IF m = Nil THEN cpu' = [cpu EXCEPT ![c].thread = t] /\ mapped_on' = mapped_on
           ELSE /\ cpu' = [Activated(c, m) EXCEPT ![c].thread = t]
                /\ mapped_on' = Masks(c, cpu[c].current_map, m)
    BY <1>2, <2>1, <2>2, <2>3 DEF Switch, swtch
  <2>8. /\ thread' \in [Everyone -> ThreadRecord]
        /\ from \in Everyone => /\ SameBut(thread'[from], thread[from])
                                /\ thread'[from].status = "ready" /\ thread'[from].cpu = thread[from].cpu
        /\ t \in Everyone => SameBut(thread'[t], thread[t]) /\ thread'[t].status = "on" /\ thread'[t].cpu = c
        /\ \A u \in Everyone : u \notin {t, from} => thread'[u] = thread[u]
    <3>1. thread' = Ran(Readied(thread, from), c, t)
      BY <2>3, <2>7 DEF Ran, Readied
    <3> QED BY <2>4, <2>6, <3>1, Switched
  <2>9. \A u \in Everyone : Kept(u)
    BY <2>8 DEF SameBut, Kept
  <2>10. \A u \in Everyone : Home(u)' = Home(u)
    BY <2>6, <2>9 DEF Home, Kept
  <2>11. from \in Everyone => thread[from].status = "on" /\ thread[from].cpu = c
    BY <2>1 DEF SwitchInv, Running
  <2>12. ASSUME NEW u \in Everyone
         PROVE  /\ ThreadState(u)' /\ (Live(u)' <=> Live(u)) /\ (thread[u].cpu = c => thread'[u].cpu = c)
                /\ \A x : Uses(u, x)' <=> Uses(u, x)
                /\ (Busy(u)' <=> Busy(u)) /\ Private(u)' = Private(u)
    <3>1. CASE u \in {t, from}
      <4>1. Live(u) /\ Live(u)' /\ thread'[u].cpu = c
        BY <2>6, <2>8, <2>11, <3>1 DEF Live
      <4> QED BY <2>4, <2>9, <2>10, <4>1, GoesOn, SwitchFacts
    <3>2. CASE u \notin {t, from}
      BY <2>8, <2>10, <3>2, ThreadSame, SwitchFacts
    <3> QED BY <3>1, <3>2
  <2>13. m # Nil => m \in Spaces /\ t \in Everyone /\ Uses(t, m)
    BY <1>2, <2>2, <2>6, NextMap
  <2>14. /\ cpu' \in [Cpus -> CpuRecord] /\ cpu'[c].thread = t
         /\ \A d \in Cpus : d # c => cpu'[d] = cpu[d]
         /\ m # Nil => cpu'[c].cr3 = m /\ cpu'[c].current_map = m
         /\ m = Nil => /\ cpu'[c].cr3 = cpu[c].cr3 /\ cpu'[c].current_map = cpu[c].current_map
                       /\ cpu'[c].inherited = cpu[c].inherited
    BY <2>4, <2>7, <2>13 DEF Activated, CpuRecord
  <2>15. /\ CpuState(c)' /\ mapped_on' \in [Spaces -> SUBSET Cpus]
         /\ \A d \in Cpus : \A n \in Spaces : d # c => (d \in mapped_on'[n] <=> d \in mapped_on[n])
    <3>1. CASE m = Nil
      <4>1. mapped_on' = mapped_on /\ mapped_on \in [Spaces -> SUBSET Cpus]
        BY <2>7, <3>1 DEF SwitchInv, SwitchTyped
      <4>2. CpuState(c)'
        BY <2>9, <2>12, <2>14, <3>1, <4>1, CpuStays DEF Kept
      <4> QED BY <4>1, <4>2
    <3>2. CASE m # Nil
      <4>1. \A u \in Everyone : Doing(u, c, "mask") => Doing(u, c, "mask")' /\ thread'[u].old = thread[u].old
        BY <2>9, <2>12 DEF Doing, Kept
      <4>2. thread'[t].cpu = c /\ Uses(t, m)' /\ t \in Everyone
        BY <2>8, <2>12, <2>13, <3>2
      <4> QED BY <2>7, <2>13, <2>14, <3>2, <4>1, <4>2, CpuOnto
    <3> QED BY <3>1, <3>2
  <2>16. t \in Users => Stands(t, c)'
    <3>1. t \in Users => t \in Everyone
      BY DEF Everyone
    <3> QED BY <1>2, <2>1, <2>2, <2>6, <2>9, <2>10, <2>14, <3>1, NextStands
  <2>17. ASSUME Booting'
         PROVE  BootState' /\ (\A d \in Cpus : thread'[kmain].cpu = d => Stands(kmain, d)')
    <3>1. kmain \in Everyone /\ Booting /\ Kept(kmain)
      BY <2>9, <2>17 DEF Kept, Booting, Everyone, Kernels
    <3>2. t \notin Users /\ from \notin Users
      <4>1. \A u \in Users : ~Live(u)
        BY <3>1, UsersRunLater
      <4> QED BY <2>6, <2>11, <4>1 DEF Live, Everyone
    <3>3. \A u \in Users : thread'[u].status = thread[u].status
      BY <2>8, <3>2 DEF Everyone
    <3>4. (t = kmain /\ thread[kmain].ctx # Nil) \/ m = Nil
      <4>1. CASE t \in Everyone
        <5>1. t \in Kernels
          BY <3>2, <4>1 DEF Everyone
        <5> QED BY <1>2, <2>2, <2>6, <4>1, <5>1, <3>2, NextMap, MapSwitchAssumption, SwitchFacts DEF ThreadState, Making
      <4>2. CASE t \notin Everyone
        BY <2>13, <4>2
      <4> QED BY <4>1, <4>2
    <3>5. thread'[kmain].cpu = IF t = kmain THEN c ELSE thread[kmain].cpu
      BY <2>8, <3>1
    <3>6. BootState'
      BY <2>6, <2>8, <2>14, <3>1, <3>3, <3>4, <3>5, BootKept DEF Live
    <3>7. ASSUME NEW d \in Cpus, thread'[kmain].cpu = d PROVE Stands(kmain, d)'
      <4>1. ASSUME thread[kmain].cpu = d, d # c \/ m = Nil PROVE Stands(kmain, d)'
        <5>1. Stands(kmain, d)
          BY <3>1, <4>1 DEF SwitchInv, Standing
        <5>2. /\ cpu'[d].cr3 = cpu[d].cr3 /\ cpu'[d].current_map = cpu[d].current_map
              /\ cpu'[d].inherited = cpu[d].inherited
          BY <2>14, <4>1
        <5> QED BY <2>10, <3>1, <5>1, <5>2, StandsKept
      <4>2. ASSUME t = kmain, m # Nil PROVE Stands(kmain, d)'
        <5>1. /\ thread[kmain].pc \in {"enter", "load"} /\ m = thread[kmain].made
              /\ ThreadState(kmain) /\ d = c /\ cpu'[c].cr3 = m /\ cpu'[c].current_map = m
          BY <1>2, <2>2, <2>6, <2>8, <2>14, <3>1, <3>2, <3>7, <4>2, NextMap, SwitchFacts
        <5>2. /\ thread[kmain].pc = "enter" => thread[kmain].target = m /\ Private(kmain) = m
              /\ thread[kmain].pc = "load" => thread[kmain].step = "none"
          BY <5>1 DEF ThreadState, Remembers, Moving, Settles, Private, Making
        <5>3. Private(kmain)' = Private(kmain)
          BY <2>12, <3>1
        <5> QED BY <3>1, <5>1, <5>2, <5>3 DEF Stands, Kept
      <4>3. ASSUME t = kmain, m = Nil, thread[kmain].cpu = Nil PROVE Stands(kmain, d)'
        <5>1. ThreadState(kmain) /\ Live(kmain)
          BY <2>6, <3>1, <4>3, SwitchFacts DEF Live
        <5>2. thread[kmain].pc = "boot" /\ Plain(kmain)
          BY <3>1, <4>3, <5>1 DEF ThreadState, Booting, Remembers
        <5>3. cpu[d].cr3 = kmap /\ cpu[d].current_map = kmap /\ Home(kmain) = kmap
          BY <3>1, <3>2, <4>3, <5>2 DEF SwitchInv, BootState, Home
        <5>4. cpu'[d].cr3 = kmap /\ cpu'[d].current_map = kmap /\ Home(kmain)' = kmap
          BY <2>10, <2>14, <3>1, <4>3, <5>3
        <5> QED BY <3>1, <5>2, <5>4 DEF Stands, Kept, Plain
      <4> QED BY <2>6, <3>1, <3>4, <3>5, <3>7, <4>1, <4>2, <4>3
    <3> QED BY <3>6, <3>7
  <2>18. Booting' /\ thread'[kmain].cpu \in Cpus => Stands(kmain, thread[kmain].cpu)'
    BY <2>17 DEF Stands
  <2>19. BootState'
    BY <2>17 DEF BootState
  <2>20. from \in Everyone =>
           /\ ThreadState(from)' /\ thread'[from].status \in {"ready", "terminating"}
           /\ thread'[from].cpu = thread[from].cpu /\ thread'[from].owner = thread[from].owner
           /\ Busy(from)' => Busy(from) /\ Private(from)' = Private(from)
    BY <2>8, <2>9, <2>12 DEF Kept
  <2> QED BY <2>1, <2>6, <2>8, <2>9, <2>14, <2>15, <2>16, <2>18, <2>19, <2>20, HandOver
<1> QED BY <1>1, <1>2

\* The records after sched_exit_self.
LeftRecord(r) == [r EXCEPT !.ctx = kmap, !.status = "terminating", !.pc = "none"]
LEMMA LeftRecordProps ==
  ASSUME NEW r \in ThreadRecord
  PROVE  /\ LeftRecord(r) \in ThreadRecord
         /\ LeftRecord(r).status = "terminating" /\ LeftRecord(r).pc = "none" /\ LeftRecord(r).ctx = kmap
         /\ LeftRecord(r).cpu = r.cpu /\ LeftRecord(r).owner = r.owner
         /\ LeftRecord(r).step = r.step /\ LeftRecord(r).target = r.target
         /\ LeftRecord(r).old = r.old /\ LeftRecord(r).orig = r.orig /\ LeftRecord(r).made = r.made
<1>1. kmap \in SpaceOrNone /\ "none" \in Places
  BY DEF SpaceOrNone, Spaces, Places
<1>2. LeftRecord(r) \in ThreadRecord
  BY <1>1 DEF LeftRecord, ThreadRecord
<1> QED BY <1>2 DEF LeftRecord, ThreadRecord

Exited(f, from, c, t) ==
  [u \in DOMAIN f |-> IF u = from THEN LeftRecord(f[u]) ELSE IF u = t THEN OnRecord(f[u], c) ELSE f[u]]
LEMMA ExitedProps ==
  ASSUME NEW f \in [Everyone -> ThreadRecord], NEW c \in Cpus, NEW from \in Everyone, NEW t, from # t
  PROVE  /\ Exited(f, from, c, t) \in [Everyone -> ThreadRecord]
         /\ Exited(f, from, c, t)[from] = LeftRecord(f[from])
         /\ t \in Everyone => Exited(f, from, c, t)[t] = OnRecord(f[t], c)
         /\ \A u \in Everyone : u \notin {t, from} => Exited(f, from, c, t)[u] = f[u]
<1>1. \A u \in Everyone : f[u] \in ThreadRecord /\ OnRecord(f[u], c) \in ThreadRecord /\ LeftRecord(f[u]) \in ThreadRecord
  BY OnRecordProps, LeftRecordProps
<1> QED BY <1>1 DEF Exited

LEMMA ExitInv ==
  ASSUME SwitchInv, NEW c \in Cpus, NEW t \in Everyone \cup {Idle}, sched_exit_self(c, t)
  PROVE  SwitchInv'
<1>1. CASE ~ContextAsserted(t)
  BY <1>1, StopInv DEF sched_exit_self
<1>2. CASE ContextAsserted(t)
  <2>1. PICK from : from = cpu[c].thread
    OBVIOUS
  <2>2. PICK m : m = SwitchMap(from, t)
    OBVIOUS
  <2>3. PICK to : to = ExitMap(c, m)
    OBVIOUS
  <2>4. /\ thread \in [Everyone -> ThreadRecord] /\ cpu \in [Cpus -> CpuRecord]
        /\ cpu[c] \in CpuRecord /\ Nil \notin Cpus
    BY MapSwitchAssumption DEF SwitchInv, SwitchTyped
  <2>5. Idle \notin Everyone /\ Users \cap Kernels = {}
    BY MapSwitchAssumption DEF Everyone, Kernels, Idle, kmain, reaper
  <2>6. /\ proc' = proc /\ freed' = freed /\ stopped' = stopped
        /\ from \in Everyone /\ thread[from].pc \in {"user", "exit"}
        /\ t \in Everyone => thread[t].status = "ready" /\ thread[t].cpu \in {c, Nil}
    <3>1. /\ proc' = proc /\ freed' = freed /\ stopped' = stopped /\ t \in Ready(c) \cup {Idle}
          /\ from \in DOMAIN thread /\ thread[from].pc \in {"user", "exit"}
      BY <1>2, <2>1, Zenon DEF sched_exit_self
    <3>2. t \in Everyone => thread[t].status = "ready" /\ thread[t].cpu \in {c, Nil}
      BY <2>5, <3>1 DEF Ready
    <3> QED BY <2>4, <3>1, <3>2, Zenon
  <2>7. /\ thread[from].status = "on" /\ thread[from].cpu = c /\ ThreadState(from) /\ Live(from)
        /\ t # from
    <3>1. thread[from].status = "on" /\ thread[from].cpu = c
      BY <2>1, <2>6 DEF SwitchInv, Running
    <3>2. ThreadState(from)
      BY <2>6 DEF SwitchInv
    <3>3. t = from => thread[from].status = "ready"
      BY <2>6, Zenon
    <3> QED BY <3>1, <3>2, <3>3 DEF Live
  <2>8. /\ thread' = Exited(thread, from, c, t)
        /\ cpu' = [Activated(c, to) EXCEPT ![c].thread = t, ![c].inherited = (m = Nil /\ t \in Users)]
        /\ mapped_on' = Masks(c, cpu[c].current_map, to)
    BY <1>2, <2>1, <2>2, <2>3, Zenon DEF sched_exit_self, Exited, OnRecord, LeftRecord
  <2>9. ASSUME t \in Everyone
        PROVE  thread'[t] \in ThreadRecord /\ Kept(t) /\ thread'[t].status = "on" /\ thread'[t].cpu = c
    <3>1. thread'[t] = OnRecord(thread[t], c) /\ thread[t] \in ThreadRecord
      BY <2>4, <2>6, <2>7, <2>8, <2>9, ExitedProps
    <3>2. thread'[t] \in ThreadRecord /\ SameBut(thread'[t], thread[t]) /\ thread'[t].status = "on" /\ thread'[t].cpu = c
      BY <3>1, OnRecordProps
    <3> QED BY <3>2 DEF SameBut, Kept
  <2>10. /\ thread'[from] \in ThreadRecord
         /\ thread'[from].status = "terminating" /\ thread'[from].pc = "none" /\ thread'[from].ctx = kmap
         /\ thread'[from].cpu = thread[from].cpu /\ thread'[from].owner = thread[from].owner
         /\ thread'[from].step = thread[from].step /\ thread'[from].target = thread[from].target
         /\ thread'[from].old = thread[from].old /\ thread'[from].orig = thread[from].orig
         /\ thread'[from].made = thread[from].made
    <3>1. thread'[from] = LeftRecord(thread[from]) /\ thread[from] \in ThreadRecord
      BY <2>4, <2>6, <2>7, <2>8, ExitedProps
    <3> QED BY <3>1, LeftRecordProps
  <2>11. \A u \in Everyone : u \notin {t, from} => thread'[u] = thread[u]
    BY <2>4, <2>6, <2>7, <2>8, ExitedProps
  <2>12. thread' \in [Everyone -> ThreadRecord]
    BY <2>4, <2>6, <2>7, <2>8, ExitedProps
  <2>13. \A u \in Everyone : thread'[u].owner = thread[u].owner /\ Home(u)' = Home(u)
    BY <2>6, <2>9, <2>10, <2>11 DEF Home, Kept
  <2>14. /\ ~Busy(from) /\ ~Busy(from)' /\ thread[from].step = "none"
         /\ ThreadState(from)'
    <3>1. Plain(from) /\ ~Busy(from)
      BY <2>6, <2>7 DEF ThreadState, Remembers, Busy, Making, Leaving
    <3>2. ~Busy(from)' /\ ~Making(from)' /\ ~Leaving(from)' /\ ~Live(from)' /\ Plain(from)'
      BY <2>10, <3>1 DEF Busy, Making, Leaving, Live, Plain
    <3>3. from # reaper
      BY <2>6, <2>7 DEF ThreadState
    <3>4. Remembers(from)'
      BY <2>10, <3>2 DEF Remembers
    <3>5. ThreadState(from)'
      BY <2>5, <2>7, <2>10, <3>2, <3>3, <3>4 DEF ThreadState, Live
    <3> QED BY <3>1, <3>2, <3>5 DEF Plain
  <2>15. m # Nil => m \in Spaces /\ t \in Everyone /\ Uses(t, m)
    BY <1>2, <2>2, <2>6, NextMap
  <2>16. to \in Spaces /\ (m # Nil => to = m) /\ (m = Nil => to = kmap)
    BY <2>3, <2>15 DEF ExitMap, Spaces
  <2>17. /\ cpu' \in [Cpus -> CpuRecord] /\ cpu'[c].thread = t
         /\ \A d \in Cpus : d # c => cpu'[d] = cpu[d]
         /\ cpu'[c].cr3 = to /\ cpu'[c].current_map = to
         /\ m = Nil /\ t \in Users => cpu'[c].inherited
    BY <2>4, <2>8, <2>16 DEF Activated, CpuRecord
  <2>18. /\ CpuState(c)' /\ mapped_on' \in [Spaces -> SUBSET Cpus]
         /\ \A d \in Cpus : \A n \in Spaces : d # c => (d \in mapped_on'[n] <=> d \in mapped_on[n])
    <3>1. ASSUME NEW u \in Everyone, Doing(u, c, "mask")
          PROVE  Doing(u, c, "mask")' /\ thread'[u].old = thread[u].old
      <4>1. u # from
        BY <2>14, <3>1 DEF Doing
      <4>2. CASE u = t
        BY <2>9, <3>1, <4>2 DEF Doing, Kept
      <4>3. CASE u # t
        BY <2>11, <3>1, <4>1, <4>3 DEF Doing
      <4> QED BY <4>2, <4>3
    <3>2. ASSUME to # kmap PROVE t \in Everyone /\ thread'[t].cpu = c /\ Uses(t, to)'
      <4>1. t \in Everyone /\ Uses(t, to) /\ Live(t) /\ Live(t)' /\ Kept(t)
        BY <2>6, <2>9, <2>15, <2>16, <3>2 DEF Live
      <4> QED BY <2>4, <2>9, <2>13, <4>1, GoesOn, SwitchFacts
    <3>3. mapped_on' = Masks(c, cpu[c].current_map, to)
      BY <2>8
    <3> QED BY <2>16, <2>17, <3>1, <3>2, <3>3, CpuOnto
  <2>19. t \in Users => Stands(t, c)'
    <3>1. t \in Users => t \in Everyone
      BY DEF Everyone
    <3> QED BY <1>2, <2>1, <2>2, <2>6, <2>7, <2>9, <2>13, <2>16, <2>17, <3>1, NextStands
  <2>20. ~Booting'
    <3>1. CASE from = kmain
      BY <2>10, <3>1 DEF Booting
    <3>2. CASE from # kmain
      <4>1. from \in Users
        BY <2>6, <2>7, <3>2 DEF Everyone, Kernels, ThreadState
      <4>2. ~Booting /\ kmain \in Everyone
        BY <2>7, <4>1, UsersRunLater DEF Everyone, Kernels
      <4>3. thread'[kmain].pc = thread[kmain].pc
        BY <2>9, <2>11, <3>2, <4>2 DEF Kept
      <4> QED BY <4>2, <4>3 DEF Booting
    <3> QED BY <3>1, <3>2
  <2>21. BootState'
    BY <2>20 DEF BootState
  <2> QED BY <2>1, <2>6, <2>7, <2>9, <2>10, <2>11, <2>12, <2>14, <2>17, <2>18, <2>19, <2>20, <2>21, HandOver
<1> QED BY <1>1, <1>2

\* The thread t of CPU c takes a step that leaves the CPUs where they are; of the
\* others it changes only threads that do not run.
LEMMA QuietStep ==
  ASSUME SwitchInv, NEW t \in Everyone, NEW c \in Cpus, cpu[c].thread = t, thread[t].step = "none",
         cpu' = cpu, mapped_on' = mapped_on, stopped' = stopped,
         thread' \in [Everyone -> ThreadRecord], proc' \in [Procs -> ProcRecord], freed' \in SUBSET Maps,
         thread'[t].status = "on", thread'[t].cpu = c, ThreadState(t)',
         \A m \in Spaces : m = cpu[c].current_map /\ Uses(t, m) => Uses(t, m)',
         \A u \in Everyone : u # t =>
           \/ thread'[u] = thread[u] /\ (Live(u) => Home(u)' = Home(u))
           \/ ~Live(u) /\ thread'[u].status # "on" /\ ThreadState(u)',
         \A p \in Procs : ProcState(p)', Alone', OwnMaps', BootState',
         t \in Users => Stands(t, c)',
         Booting' => t = kmain /\ Stands(kmain, c)'
  PROVE  SwitchInv'
<1>1. SwitchTyped' /\ stopped' # "mapped"
  BY DEF SwitchInv, SwitchTyped
<1>2. /\ \A d \in Cpus, u \in Everyone : cpu[d].thread = u <=> thread[u].status = "on" /\ thread[u].cpu = d
      /\ thread[t].status = "on" /\ thread[t].cpu = c
  BY DEF SwitchInv, Running
<1>3. Running'
  <2>1. ASSUME NEW d \in Cpus, NEW u \in Everyone
        PROVE  cpu'[d].thread = u <=> thread'[u].status = "on" /\ thread'[u].cpu = d
    <3>1. CASE u = t
      BY <1>2, <3>1
    <3>2. CASE u # t /\ thread'[u] = thread[u]
      BY <1>2, <3>2
    <3>3. CASE u # t /\ ~Live(u) /\ thread'[u].status # "on"
      BY <1>2, <3>3 DEF Live
    <3> QED BY <3>1, <3>2, <3>3
  <2> QED BY <2>1 DEF Running
<1>4. \A u \in Everyone : ThreadState(u)'
  BY ThreadSame, SwitchFacts
<1>5. ASSUME NEW u \in Everyone, u # t, thread[u].step # "none" \/ Live(u)
      PROVE  thread'[u] = thread[u] /\ \A m : Uses(u, m) => Uses(u, m)'
  <2>1. ~Live(u) => thread[u].step = "none"
    BY SwitchFacts DEF ThreadState, Plain
  <2>2. thread'[u] = thread[u] /\ (Live(u) => Home(u)' = Home(u))
    BY <1>5, <2>1
  <2> QED BY <2>2, ThreadSame
<1>6. ASSUME NEW d \in Cpus PROVE CpuState(d)'
  <2>1. ASSUME NEW u \in Everyone, thread[u].cpu = d, thread[u].step # "none"
        PROVE  /\ thread'[u].cpu = d /\ thread'[u].step = thread[u].step
               /\ thread'[u].old = thread[u].old /\ thread'[u].target = thread[u].target
    BY <1>5, <2>1
  <2>2. ASSUME NEW u \in Everyone, NEW m \in Spaces, thread[u].cpu = d, m = cpu[d].current_map, Uses(u, m)
        PROVE  thread'[u].cpu = d /\ Uses(u, m)'
    <3>1. CASE u = t
      BY <1>2, <2>2, <3>1
    <3>2. CASE u # t
      BY <1>5, <2>2, <3>2 DEF Uses
    <3> QED BY <3>1, <3>2
  <2> QED BY <2>1, <2>2, CpuStays
<1>7. Standing'
  <2>1. ASSUME NEW u \in Users, NEW d \in Cpus, cpu'[d].thread = u PROVE Stands(u, d)'
    <3>1. u \in Everyone /\ Live(u) /\ Stands(u, d)
      BY <1>2, <2>1 DEF Everyone, Live, SwitchInv, Standing
    <3>2. CASE u = t
      <4>1. d = c
        BY <1>2, <2>1, <3>1, <3>2
      <4> QED BY <3>2, <4>1
    <3>3. CASE u # t
      <4>1. thread'[u] = thread[u] /\ Home(u)' = Home(u) /\ cpu'[d] = cpu[d]
        BY <3>1, <3>3
      <4> QED BY <3>1, <4>1, StandsSame
    <3> QED BY <3>2, <3>3
  <2>2. ASSUME NEW d \in Cpus, Booting', thread'[kmain].cpu = d PROVE Stands(kmain, d)'
    <3>1. d = c
      BY <2>2
    <3> QED BY <2>2, <3>1
  <2>3. Booting' /\ thread'[kmain].cpu \in Cpus => Stands(kmain, thread[kmain].cpu)'
    BY <2>2 DEF Stands
  <2> QED BY <2>1, <2>3 DEF Standing
<1> QED BY <1>1, <1>3, <1>4, <1>6, <1>7 DEF SwitchInv

\* An unused map and an unused thread.
LEMMA FreshMap ==
  ASSUME SwitchInv, NEW m \in OneOf(NewMap)
  PROVE  /\ m \in Maps /\ m \notin freed /\ m # Nil /\ m # kmap
         /\ \A p \in Procs : proc[p].map # m
         /\ \A u \in Everyone : thread[u].made # m /\ thread[u].orig # m /\ Private(u) # m
<1>1. m \in Maps /\ m \notin UsedMaps
  BY DEF OneOf, NewMap
<1>2. \A u \in Everyone : thread[u].made # m /\ thread[u].orig # m
  BY <1>1 DEF UsedMaps, Everyone
<1> QED BY <1>1, <1>2, MapSwitchAssumption DEF UsedMaps, Private

\* Who acts in its own name: a user thread on a CPU.
LEMMA UserFacts ==
  ASSUME SwitchInv, NEW t \in Users, NEW c \in Cpus, thread[t].cpu = c, On(t)
  PROVE  /\ t \in Everyone /\ t # kmain /\ t \notin Kernels /\ kmain \in Everyone /\ cpu[c].thread = t
         /\ thread[t] \in ThreadRecord /\ thread[t].status = "on" /\ Live(t) /\ ThreadState(t) /\ Stands(t, c)
         /\ thread[t].owner \in Procs /\ Home(t) = proc[thread[t].owner].map /\ Home(t) \in Maps
         /\ Owner(t) = thread[t].owner /\ ~Booting
<1>1. t \in Everyone /\ t # kmain /\ t \notin Kernels /\ kmain \in Everyone
  BY MapSwitchAssumption DEF Everyone, Kernels
<1>2. cpu[c].thread = t /\ thread[t] \in ThreadRecord /\ thread[t].status = "on" /\ Live(t) /\ ThreadState(t)
  BY <1>1, SwitchFacts
<1>3. Stands(t, c)
  BY <1>1, <1>2, RunnerStands
<1> QED BY <1>1, <1>2, <1>3, OwnerHome, UsersRunLater DEF Home, Owner

EnterRecord(r, m, o) ==
  [r EXCEPT !.made = m, !.orig = o, !.ctx = m, !.target = m, !.pc = "enter", !.step = "read"]
LEMMA EnterRecordProps ==
  ASSUME NEW r \in ThreadRecord, NEW m \in Spaces, NEW o \in Spaces
  PROVE  /\ EnterRecord(r, m, o) \in ThreadRecord
         /\ EnterRecord(r, m, o).status = r.status /\ EnterRecord(r, m, o).cpu = r.cpu
         /\ EnterRecord(r, m, o).owner = r.owner /\ EnterRecord(r, m, o).made = m
         /\ EnterRecord(r, m, o).orig = o /\ EnterRecord(r, m, o).pc = "enter"
         /\ EnterRecord(r, m, o).ctx = m /\ EnterRecord(r, m, o).target = m /\ EnterRecord(r, m, o).step = "read"
<1>1. m \in SpaceOrNone /\ o \in SpaceOrNone /\ "enter" \in Places
  BY DEF SpaceOrNone, Places
<1>2. EnterRecord(r, m, o) \in ThreadRecord
  BY <1>1 DEF EnterRecord, ThreadRecord
<1> QED BY <1>2 DEF EnterRecord, ThreadRecord

Entered(f, t, m, o) ==
  [f EXCEPT ![t].made = m, ![t].orig = o, ![t].ctx = m, ![t].target = m, ![t].pc = "enter", ![t].step = "read"]
LEMMA EnteredProps ==
  ASSUME NEW f \in [Everyone -> ThreadRecord], NEW t \in Everyone, NEW m \in Spaces, NEW o \in Spaces
  PROVE  /\ Entered(f, t, m, o) \in [Everyone -> ThreadRecord]
         /\ Entered(f, t, m, o)[t] = EnterRecord(f[t], m, o)
         /\ \A u \in Everyone : u # t => Entered(f, t, m, o)[u] = f[u]
<1>1. Entered(f, t, m, o) = [f EXCEPT ![t] = EnterRecord(f[t], m, o)]
  BY DEF Entered, EnterRecord
<1>2. EnterRecord(f[t], m, o) \in ThreadRecord
  BY EnterRecordProps
<1> QED BY <1>1, <1>2

\* A step of t that begins an exec or a launch for the unused map m.
LEMMA EnterProps ==
  ASSUME SwitchInv, NEW t \in Users \cup {kmain}, NEW c \in Cpus, NEW m \in Maps, t \in Everyone,
         thread[t].cpu = c, thread[t].status = "on", Plain(t),
         thread' = Entered(thread, t, m, Home(t)),
         Home(t) \in Spaces, Home(t)' = Home(t), ThreadState(t),
         cpu'[c].cr3 = Home(t), cpu'[c].current_map = Home(t)
  PROVE  /\ thread' \in [Everyone -> ThreadRecord] /\ \A u \in Everyone : u # t => thread'[u] = thread[u]
         /\ thread'[t].status = "on" /\ thread'[t].cpu = c /\ thread'[t].owner = thread[t].owner
         /\ thread'[t].made = m /\ thread'[t].orig = Home(t) /\ thread'[t].pc = "enter"
         /\ ThreadState(t)' /\ Stands(t, c)' /\ Busy(t)' /\ Private(t)' = m /\ Live(t)'
<1>1. thread \in [Everyone -> ThreadRecord] /\ thread[t] \in ThreadRecord
  BY DEF SwitchInv, SwitchTyped
<1>2. /\ thread' \in [Everyone -> ThreadRecord] /\ thread'[t] = EnterRecord(thread[t], m, Home(t))
      /\ \A u \in Everyone : u # t => thread'[u] = thread[u]
  BY <1>1, EnteredProps DEF Spaces
<1>4. /\ thread'[t] \in ThreadRecord
      /\ thread'[t].status = "on" /\ thread'[t].cpu = c /\ thread'[t].owner = thread[t].owner
      /\ thread'[t].made = m /\ thread'[t].orig = Home(t) /\ thread'[t].pc = "enter"
      /\ thread'[t].ctx = m /\ thread'[t].target = m /\ thread'[t].step = "read"
  BY <1>1, <1>2, EnterRecordProps DEF Spaces
<1>6. Live(t)' /\ Making(t)' /\ ~Leaving(t)' /\ Busy(t)' /\ Private(t)' = m
  BY <1>4 DEF Live, Making, Leaving, Busy, Private
<1>7. Remembers(t)'
  BY <1>4 DEF Remembers, Moving
<1>8. t # reaper
  BY MapSwitchAssumption DEF Kernels, reaper, kmain
<1>9. t \in Users => thread'[t].owner # Nil
  BY <1>4 DEF ThreadState
<1>10. ThreadState(t)'
  BY <1>4, <1>6, <1>7, <1>8, <1>9, MapSwitchAssumption DEF ThreadState
<1>11. Stands(t, c)'
  BY <1>4, <1>6 DEF Stands
<1> QED BY <1>2, <1>4, <1>6, <1>10, <1>11

LEMMA ExecveInv ==
  ASSUME SwitchInv, NEW t \in Users, NEW c \in Cpus, thread[t].cpu = c, execve(t)
  PROVE  SwitchInv'
<1>1. CASE proc[Owner(t)].count # 1
  BY <1>1, StopInv DEF execve
<1>2. CASE proc[Owner(t)].count = 1
  <2>1. /\ On(t) /\ thread[t].pc = "user" /\ cpu[c].cr3 = proc[Owner(t)].map
    BY Zenon DEF execve, InUser, At
  <2>2. PICK m \in OneOf(NewMap) :
          /\ thread' = Entered(thread, t, m, cpu[c].current_map)
          /\ cpu' = cpu /\ proc' = proc /\ mapped_on' = mapped_on /\ freed' = freed /\ stopped' = stopped
    BY <1>2, Zenon DEF execve, Here, Entered
  <2>3. /\ t \in Everyone /\ t # kmain /\ t \notin Kernels /\ kmain \in Everyone /\ cpu[c].thread = t
        /\ thread[t] \in ThreadRecord /\ thread[t].status = "on" /\ Live(t) /\ ThreadState(t) /\ Stands(t, c)
        /\ thread[t].owner \in Procs /\ Home(t) = proc[thread[t].owner].map /\ Home(t) \in Maps
        /\ Owner(t) = thread[t].owner /\ ~Booting
    BY <2>1, UserFacts
  <2>4. Plain(t) /\ thread[t].step = "none" /\ ~Busy(t)
    BY <2>1, <2>3 DEF ThreadState, Remembers, Plain, Busy, Making, Leaving
  <2>5. cpu[c].cr3 = Home(t) /\ cpu[c].current_map = Home(t)
    BY <2>1, <2>3, <2>4 DEF Stands
  <2>6. /\ m \in Maps /\ m \notin freed /\ m # Nil /\ \A p \in Procs : proc[p].map # m
        /\ \A u \in Everyone : Private(u) # m
    BY <2>2, FreshMap
  <2>7. \A u \in Everyone : thread'[u].owner = thread[u].owner => Home(u)' = Home(u)
    BY <2>2 DEF Home
  <2>8. /\ thread' \in [Everyone -> ThreadRecord] /\ \A u \in Everyone : u # t => thread'[u] = thread[u]
        /\ thread'[t].status = "on" /\ thread'[t].cpu = c /\ thread'[t].owner = thread[t].owner
        /\ ThreadState(t)' /\ Stands(t, c)' /\ Busy(t)' /\ Private(t)' = m /\ Live(t)'
    <3>0. Home(t) \in Spaces /\ m \in Spaces
      BY <2>3, <2>6 DEF Spaces
    <3>3. thread' = Entered(thread, t, m, Home(t))
      BY <2>2, <2>5
    <3>1. thread'[t].owner = thread[t].owner
      <4>1. thread \in [Everyone -> ThreadRecord]
        BY DEF SwitchInv, SwitchTyped
      <4>2. thread'[t] = EnterRecord(thread[t], m, Home(t))
        BY <2>3, <3>0, <3>3, <4>1, EnteredProps
      <4> QED BY <2>3, <3>0, <4>2, EnterRecordProps
    <3>2. Home(t)' = Home(t)
      BY <2>3, <2>7, <3>1
    <3>4. cpu'[c].cr3 = Home(t) /\ cpu'[c].current_map = Home(t)
      BY <2>2, <2>5
    <3>5. /\ t \in Users \cup {kmain} /\ t \in Everyone /\ m \in Maps /\ SwitchInv
          /\ thread[t].cpu = c /\ thread[t].status = "on" /\ Plain(t) /\ ThreadState(t)
      BY <2>3, <2>4, <2>6
    <3> QED BY <3>0, <3>2, <3>3, <3>4, <3>5, EnterProps
  <2>9. ASSUME NEW u \in Users, u # t
        PROVE  /\ u \in Everyone /\ thread'[u] = thread[u] /\ (Busy(u)' <=> Busy(u)) /\ Private(u)' = Private(u)
               /\ thread[u].owner # thread[t].owner
    <3>1. u \in Everyone /\ thread'[u] = thread[u]
      BY <2>8, <2>9 DEF Everyone
    <3>2. IsFiniteSet({x \in Users : thread[x].owner = thread[t].owner})
      BY MapSwitchAssumption, FS_Subset
    <3>3. Cardinality({x \in Users : thread[x].owner = thread[t].owner}) = 1
      BY <1>2, <2>3 DEF SwitchInv, ProcState
    <3>4. PICK y : {x \in Users : thread[x].owner = thread[t].owner} = {y}
      BY <3>2, <3>3, CountSmall
    <3>5. thread[u].owner # thread[t].owner
      BY <2>9, <3>4
    <3> QED BY <3>1, <3>5 DEF Busy, Private, Making, Leaving
  <2>10. Alone'
    BY <2>8, <2>9 DEF SwitchInv, Alone
  <2>11. OwnMaps'
    BY <2>2, <2>6, <2>8, <2>9 DEF SwitchInv, OwnMaps
  <2>12. ~Booting' /\ BootState'
    BY <2>3, <2>8 DEF Booting, BootState
  <2>13. ASSUME NEW p \in Procs PROVE ProcState(p)'
    <3>1. ProcState(p) /\ \A u \in Users : thread'[u].owner = thread[u].owner
      BY <2>8, <2>9 DEF SwitchInv
    <3> QED BY <2>2, <3>1, CountSame
  <2>14. \A n \in Spaces : n = cpu[c].current_map /\ Uses(t, n) => Uses(t, n)'
    BY <2>3, <2>4, <2>7, <2>8 DEF Uses
  <2>15. \A u \in Everyone : u # t => thread'[u] = thread[u] /\ (Live(u) => Home(u)' = Home(u))
    BY <2>7, <2>8
  <2>16. proc' \in [Procs -> ProcRecord] /\ freed' \in SUBSET Maps
    BY <2>2 DEF SwitchInv, SwitchTyped
  <2> QED BY <2>2, <2>3, <2>4, <2>8, <2>10, <2>11, <2>12, <2>13, <2>14, <2>15, <2>16, QuietStep, Zenon
<1> QED BY <1>1, <1>2

\* kmain, which launches init.
LEMMA KmainFacts ==
  ASSUME SwitchInv, NEW c \in Cpus, thread[kmain].cpu = c, On(kmain), Booting
  PROVE  /\ kmain \in Everyone /\ kmain \notin Users /\ cpu[c].thread = kmain
         /\ thread[kmain] \in ThreadRecord /\ thread[kmain].status = "on" /\ Live(kmain)
         /\ ThreadState(kmain) /\ Stands(kmain, c) /\ Home(kmain) = kmap
         /\ \A u \in Users : thread[u].status \in {"none", "new"} /\ ~Live(u)
         /\ freed = {}
<1>1. kmain \in Everyone /\ kmain \notin Users
  BY MapSwitchAssumption DEF Everyone, Kernels
<1>2. cpu[c].thread = kmain /\ thread[kmain] \in ThreadRecord /\ thread[kmain].status = "on" /\ Live(kmain) /\ ThreadState(kmain)
  BY <1>1, SwitchFacts
<1>3. Stands(kmain, c)
  BY <1>1, <1>2, RunnerStands
<1>4. freed = {} /\ \A u \in Users : thread[u].status \in {"none", "new"}
  BY DEF SwitchInv, BootState
<1> QED BY <1>1, <1>2, <1>3, <1>4 DEF Home, Live

LEMMA LaunchInitInv ==
  ASSUME SwitchInv, NEW c \in Cpus, thread[kmain].cpu = c, LaunchInit
  PROVE  SwitchInv'
<1>1. On(kmain) /\ thread[kmain].pc = "boot" /\ Booting
  BY DEF LaunchInit, At, Booting
<1>2. \E m \in OneOf(NewMap) :
        /\ thread' = Entered(thread, kmain, m, cpu[c].current_map)
        /\ proc' = [proc EXCEPT ![Init1] = [status |-> "alive", map |-> m, count |-> 0]]
  BY Zenon DEF LaunchInit, Here, Entered
<1>3. PICK m \in OneOf(NewMap) :
        /\ thread' = Entered(thread, kmain, m, cpu[c].current_map)
        /\ proc' = [proc EXCEPT ![Init1] = [status |-> "alive", map |-> m, count |-> 0]]
  BY <1>2
<1>4. cpu' = cpu /\ mapped_on' = mapped_on /\ freed' = freed /\ stopped' = stopped
  BY DEF LaunchInit
<1>5. /\ kmain \in Everyone /\ kmain \notin Users /\ cpu[c].thread = kmain
      /\ thread[kmain] \in ThreadRecord /\ thread[kmain].status = "on" /\ Live(kmain)
      /\ ThreadState(kmain) /\ Stands(kmain, c) /\ Home(kmain) = kmap
      /\ \A u \in Users : thread[u].status \in {"none", "new"} /\ ~Live(u)
      /\ freed = {}
  BY <1>1, KmainFacts
<1>6. Plain(kmain) /\ thread[kmain].step = "none" /\ ~Busy(kmain)
  BY <1>1, <1>5 DEF ThreadState, Remembers, Plain, Busy, Making, Leaving
<1>7. /\ \A d \in Cpus : cpu[d].cr3 = kmap /\ cpu[d].current_map = kmap
      /\ \A u \in Users : thread[u].status = "none"
  BY <1>1 DEF SwitchInv, BootState
<1>8. /\ m \in Maps /\ m \notin freed /\ m # Nil /\ \A p \in Procs : proc[p].map # m
      /\ \A u \in Everyone : Private(u) # m
  BY <1>3, FreshMap
<1>9. \A u \in Everyone : u \notin Users => Home(u)' = Home(u)
  BY DEF Home
<1>10. /\ thread' \in [Everyone -> ThreadRecord] /\ \A u \in Everyone : u # kmain => thread'[u] = thread[u]
       /\ thread'[kmain].status = "on" /\ thread'[kmain].cpu = c
       /\ thread'[kmain].made = m /\ thread'[kmain].orig = Home(kmain) /\ thread'[kmain].pc = "enter"
       /\ ThreadState(kmain)' /\ Stands(kmain, c)'
  <2>1. thread' = Entered(thread, kmain, m, Home(kmain)) /\ Home(kmain) \in Spaces
    BY <1>3, <1>5, <1>7 DEF Spaces
  <2>2. cpu'[c].cr3 = Home(kmain) /\ cpu'[c].current_map = Home(kmain) /\ Home(kmain)' = Home(kmain)
    BY <1>4, <1>5, <1>7, <1>9
  <2> QED BY <1>5, <1>6, <1>8, <2>1, <2>2, EnterProps
<1>11. ASSUME NEW u \in Users
       PROVE  /\ u \in Everyone /\ thread'[u] = thread[u] /\ (Busy(u)' <=> Busy(u)) /\ Private(u)' = Private(u)
              /\ thread[u].owner = Nil
  <2>1. u \in Everyone /\ thread'[u] = thread[u]
    BY <1>5, <1>10 DEF Everyone
  <2>2. thread[u].owner = Nil
    BY <1>7, <2>1, SwitchFacts DEF ThreadState
  <2> QED BY <2>1, <2>2 DEF Busy, Private, Making, Leaving
<1>12. /\ proc' \in [Procs -> ProcRecord] /\ proc'[Init1] = [status |-> "alive", map |-> m, count |-> 0]
       /\ \A p \in Procs : p # Init1 => proc'[p] = proc[p]
  BY <1>3, <1>8, MapSwitchAssumption DEF SwitchInv, SwitchTyped, ProcRecord
<1>13. Alone'
  BY <1>10, <1>11 DEF SwitchInv, Alone
<1>14. OwnMaps'
  <2>1. \A p \in Procs : proc'[p].map # Nil /\ proc'[p].map = m => p = Init1
    BY <1>8, <1>12
  <2>2. \A p \in Procs : p # Init1 => proc'[p].map = proc[p].map
    BY <1>12
  <2>3. proc'[Init1].map = m
    BY <1>12
  <2>4. \A p, q \in Procs : p # q /\ proc'[p].map # Nil => proc'[p].map # proc'[q].map
    BY <1>8, <2>1, <2>2, <2>3 DEF SwitchInv, OwnMaps
  <2>5. \A p \in Procs : proc'[p].map \notin freed'
    BY <1>4, <1>5
  <2>6. \A u \in Users : ~Busy(u)
    <3>1. \A u \in Users : Plain(u) /\ thread[u].pc = "none"
      BY <1>7, <1>11, SwitchFacts DEF ThreadState, Live
    <3> QED BY <3>1 DEF Busy, Making, Leaving
  <2> QED BY <1>11, <2>4, <2>5, <2>6 DEF OwnMaps
<1>15. BootState'
  <2>1. freed' = {} /\ \A u \in Users : thread'[u].status \in {"none", "new"}
    BY <1>4, <1>5, <1>11
  <2>2. \A d \in Cpus : cpu'[d].cr3 = kmap /\ cpu'[d].current_map = kmap
    BY <1>4, <1>7
  <2>3. thread'[kmain].pc # "boot" /\ proc'[Init1].map = thread'[kmain].made /\ thread'[kmain].orig = kmap
        /\ proc'[Init1].status = "alive"
    BY <1>5, <1>10, <1>12
  <2> QED BY <2>1, <2>2, <2>3 DEF BootState
<1>16. ASSUME NEW p \in Procs PROVE ProcState(p)'
  <2>1. CASE p = Init1
    <3>1. {u \in Users : thread'[u].owner = p} = {}
      BY <1>11, MapSwitchAssumption
    <3>2. Cardinality({u \in Users : thread'[u].owner = p}) = 0
      BY <3>1, CountSmall, FS_EmptySet
    <3> QED BY <1>8, <1>12, <2>1, <3>2 DEF ProcState
  <2>2. CASE p # Init1
    <3>1. ProcState(p) /\ \A u \in Users : thread'[u].owner = thread[u].owner
      BY <1>11 DEF SwitchInv
    <3> QED BY <1>12, <2>2, <3>1, CountSame
  <2> QED BY <2>1, <2>2
<1>17. \A u \in Everyone : u # kmain => thread'[u] = thread[u] /\ (Live(u) => Home(u)' = Home(u))
  BY <1>5, <1>9, <1>10
<1>18. \A n \in Spaces : n = cpu[c].current_map /\ Uses(kmain, n) => Uses(kmain, n)'
  BY <1>5, <1>6 DEF Uses
<1>19. freed' \in SUBSET Maps
  BY <1>4, <1>5
<1> QED BY <1>4, <1>5, <1>6, <1>10, <1>12, <1>13, <1>14, <1>15, <1>16, <1>17, <1>18, <1>19, QuietStep

\* The records of a new thread, and of one that goes back after the image was loaded.
NewRecord(o, s) == [NoThread EXCEPT !.owner = o, !.status = s, !.pc = "user"]
LEMMA NewRecordProps ==
  ASSUME NEW o \in Procs, NEW s \in {"new", "ready"}
  PROVE  /\ NewRecord(o, s) \in ThreadRecord
         /\ NewRecord(o, s).owner = o /\ NewRecord(o, s).status = s /\ NewRecord(o, s).pc = "user"
         /\ NewRecord(o, s).ctx = Nil /\ NewRecord(o, s).step = "none" /\ NewRecord(o, s).cpu = Nil
         /\ NewRecord(o, s).target = Nil /\ NewRecord(o, s).old = Nil
         /\ NewRecord(o, s).orig = Nil /\ NewRecord(o, s).made = Nil
<1>1. Nil \in SpaceOrNone /\ "user" \in Places
  BY DEF SpaceOrNone, Places
<1> QED BY <1>1 DEF NewRecord, NoThread, ThreadRecord

LeaveRecord(r) == [r EXCEPT !.ctx = Nil, !.target = r.orig, !.pc = "leave", !.step = "read"]
LEMMA LeaveRecordProps ==
  ASSUME NEW r \in ThreadRecord
  PROVE  /\ LeaveRecord(r) \in ThreadRecord
         /\ LeaveRecord(r).ctx = Nil /\ LeaveRecord(r).target = r.orig /\ LeaveRecord(r).pc = "leave"
         /\ LeaveRecord(r).step = "read" /\ LeaveRecord(r).status = r.status /\ LeaveRecord(r).cpu = r.cpu
         /\ LeaveRecord(r).owner = r.owner /\ LeaveRecord(r).old = r.old
         /\ LeaveRecord(r).orig = r.orig /\ LeaveRecord(r).made = r.made
<1>1. Nil \in SpaceOrNone /\ "leave" \in Places
  BY DEF SpaceOrNone, Places
<1>2. LeaveRecord(r) \in ThreadRecord
  BY <1>1 DEF LeaveRecord, ThreadRecord
<1> QED BY <1>2 DEF LeaveRecord, ThreadRecord

\* A thread that appears: new, until its process is loaded, or ready after a fork.
LEMMA NewThreadState ==
  ASSUME NEW u \in Users, NEW o \in Procs, NEW s \in {"new", "ready"}, thread'[u] = NewRecord(o, s)
  PROVE  /\ ThreadState(u)' /\ thread'[u].status = s /\ thread'[u].owner = o
         /\ ~Busy(u)' /\ thread'[u] \in ThreadRecord
<1>1. /\ thread'[u].owner = o /\ thread'[u].status = s /\ thread'[u].pc = "user"
      /\ thread'[u].ctx = Nil /\ thread'[u].step = "none" /\ thread'[u].cpu = Nil
      /\ thread'[u].target = Nil /\ thread'[u].old = Nil
      /\ thread'[u].orig = Nil /\ thread'[u].made = Nil /\ thread'[u] \in ThreadRecord
  BY NewRecordProps
<1>2. o # Nil /\ u \notin Kernels
  BY MapSwitchAssumption
<1>3. ~Making(u)' /\ ~Leaving(u)' /\ ~Busy(u)' /\ Plain(u)'
  BY <1>1 DEF Making, Leaving, Busy, Plain
<1>4. Remembers(u)'
  BY <1>1, <1>3 DEF Remembers
<1>5. (Live(u) <=> s = "ready")'
  BY <1>1 DEF Live
<1> QED BY <1>1, <1>2, <1>3, <1>4, <1>5 DEF ThreadState, Kernels

\* A process has a thread more, or one less.
LEMMA CountMore ==
  ASSUME SwitchInv, NEW u \in Users, NEW o \in Procs, thread[u].owner # o, thread'[u].owner = o,
         \A v \in Users : v # u => thread'[v].owner = thread[v].owner
  PROVE  Cardinality({v \in Users : thread'[v].owner = o}) =
           Cardinality({v \in Users : thread[v].owner = o}) + 1
<1>1. PICK A : A = {v \in Users : thread[v].owner = o}
  OBVIOUS
<1>2. PICK B : B = {v \in Users : thread'[v].owner = o}
  OBVIOUS
<1>3. A \in SUBSET Users /\ B \in SUBSET Users /\ u \in B /\ u \notin A /\ \A v \in Users : v # u => (v \in A <=> v \in B)
  BY <1>1, <1>2
<1>4. Cardinality(B) = Cardinality(A) + 1 /\ Cardinality(A) \in Nat
  BY <1>3, CountStep, MapSwitchAssumption
<1> QED BY <1>1, <1>2, <1>4

\* A thread that has the image in its new map, or not.
LEMMA LoadFacts ==
  ASSUME SwitchInv, NEW t \in Everyone, NEW c \in Cpus, thread[t].cpu = c, On(t), thread[t].pc = "load"
  PROVE  /\ t \in Users \cup {kmain} /\ t # reaper /\ cpu[c].thread = t /\ thread[t] \in ThreadRecord
         /\ thread[t].status = "on" /\ Live(t) /\ ThreadState(t) /\ thread[t].step = "none"
         /\ thread[t].orig = Home(t) /\ thread[t].made \in Maps /\ Busy(t) /\ Private(t) = thread[t].made
         /\ cpu[c].cr3 = thread[t].made /\ cpu[c].current_map = thread[t].made
         /\ For(t) \in Procs /\ proc[For(t)].status = "alive" /\ proc[For(t)] \in ProcRecord
         /\ (t = kmain <=> Booting) /\ (t = kmain <=> t \notin Users)
         /\ t \in Users => For(t) = thread[t].owner
<1>1. cpu[c].thread = t /\ thread[t] \in ThreadRecord /\ thread[t].status = "on" /\ Live(t) /\ ThreadState(t)
  BY SwitchFacts
<1>2. t \in Users \cup {kmain} /\ t # reaper /\ kmain \notin Users
  BY <1>1, MapSwitchAssumption DEF ThreadState, Everyone, Kernels, kmain, reaper
<1>3. /\ thread[t].step = "none" /\ thread[t].orig = Home(t) /\ thread[t].made \in Maps
      /\ Busy(t) /\ Private(t) = thread[t].made
  BY <1>1 DEF ThreadState, Remembers, Settles, Making, Busy, Private
<1>4. CASE t = kmain
  <2>1. Booting
    BY <1>4 DEF Booting
  <2>2. Stands(t, c)
    BY <1>1, <1>2, <1>4, <2>1, RunnerStands
  <2>3. For(t) = Init1 /\ Init1 \in Procs /\ proc[Init1].status = "alive"
    BY <1>4, <2>1, MapSwitchAssumption DEF For, SwitchInv, BootState
  <2>4. proc[Init1] \in ProcRecord
    BY <2>3 DEF SwitchInv, SwitchTyped
  <2>5. cpu[c].cr3 = thread[t].made /\ cpu[c].current_map = thread[t].made
    BY <1>3, <2>2 DEF Stands
  <2> QED BY <1>1, <1>2, <1>3, <1>4, <2>1, <2>3, <2>4, <2>5
<1>5. CASE t \in Users
  <2>1. Stands(t, c) /\ thread[t].owner \in Procs /\ Owner(t) = thread[t].owner /\ ~Booting /\ t # kmain
    BY <1>5, UserFacts
  <2>2. proc[thread[t].owner] \in ProcRecord /\ ProcState(thread[t].owner)
    BY <2>1 DEF SwitchInv, SwitchTyped
  <2>3. proc[thread[t].owner].status = "alive"
    <3>1. IsFiniteSet({u \in Users : thread[u].owner = thread[t].owner})
      BY MapSwitchAssumption, FS_Subset
    <3>2. proc[thread[t].owner].count # 0
      BY <1>5, <2>2, <3>1, CountSmall DEF ProcState
    <3> QED BY <2>2, <3>2 DEF ProcState
  <2>4. For(t) = thread[t].owner
    BY <2>1 DEF For
  <2>5. cpu[c].cr3 = thread[t].made /\ cpu[c].current_map = thread[t].made
    BY <1>3, <2>1 DEF Stands
  <2> QED BY <1>1, <1>2, <1>3, <1>5, <2>1, <2>2, <2>3, <2>4, <2>5
<1> QED BY <1>2, <1>4, <1>5

LEMMA LeaveState ==
  ASSUME SwitchInv, NEW t \in Everyone, NEW c \in Cpus, thread[t].cpu = c, On(t), thread[t].pc = "load",
         thread'[t].ctx = Nil, thread'[t].target = thread[t].orig, thread'[t].pc = "leave",
         thread'[t].step = "read", thread'[t].status = thread[t].status, thread'[t].cpu = c,
         thread'[t].owner = thread[t].owner, thread'[t].made = thread[t].made,
         thread'[t].orig = thread[t].orig \/ (t \in Users /\ thread'[t].orig = Nil),
         cpu' = cpu, Home(t)' = Home(t)
  PROVE  ThreadState(t)' /\ Stands(t, c)' /\ Busy(t)' /\ Private(t)' = Private(t)
<1>1. /\ t \in Users \cup {kmain} /\ t # reaper /\ cpu[c].thread = t
      /\ thread[t].status = "on" /\ ThreadState(t)
      /\ thread[t].orig = Home(t) /\ thread[t].made \in Maps /\ Private(t) = thread[t].made
      /\ cpu[c].cr3 = thread[t].made /\ cpu[c].current_map = thread[t].made
  BY LoadFacts
<1>2. Live(t)' /\ Making(t)' /\ ~Leaving(t)' /\ Busy(t)' /\ Private(t)' = Private(t)
  BY <1>1 DEF Live, Making, Leaving, Busy, Private
<1>3. Remembers(t)'
  BY <1>1 DEF Remembers, Moving
<1>4. t \in Users => thread'[t].owner # Nil
  BY <1>1 DEF ThreadState
<1>5. ThreadState(t)'
  BY <1>1, <1>2, <1>3, <1>4 DEF ThreadState
<1>6. Stands(t, c)'
  BY <1>1, <1>2 DEF Stands
<1> QED BY <1>2, <1>5, <1>6

Loads(f, t, u, n) ==
  [f EXCEPT ![t].ctx = Nil, ![t].target = f[t].orig, ![t].pc = "leave", ![t].step = "read", ![u] = n]
LEMMA LoadsProps ==
  ASSUME NEW f \in [Everyone -> ThreadRecord], NEW t \in Everyone, NEW u \in Everyone, t # u, NEW n \in ThreadRecord
  PROVE  /\ Loads(f, t, u, n) \in [Everyone -> ThreadRecord]
         /\ Loads(f, t, u, n)[t] = LeaveRecord(f[t]) /\ Loads(f, t, u, n)[u] = n
         /\ \A v \in Everyone : v \notin {t, u} => Loads(f, t, u, n)[v] = f[v]
<1>1. Loads(f, t, u, n) = [[f EXCEPT ![t] = LeaveRecord(f[t])] EXCEPT ![u] = n]
  BY DEF Loads, LeaveRecord
<1>2. LeaveRecord(f[t]) \in ThreadRecord
  BY LeaveRecordProps
<1> QED BY <1>1, <1>2

FailRecord(r) == [LeaveRecord(r) EXCEPT !.orig = Nil]
LEMMA FailRecordProps ==
  ASSUME NEW r \in ThreadRecord
  PROVE  /\ FailRecord(r) \in ThreadRecord
         /\ FailRecord(r).ctx = Nil /\ FailRecord(r).target = r.orig /\ FailRecord(r).pc = "leave"
         /\ FailRecord(r).step = "read" /\ FailRecord(r).status = r.status /\ FailRecord(r).cpu = r.cpu
         /\ FailRecord(r).owner = r.owner /\ FailRecord(r).old = r.old
         /\ FailRecord(r).orig = Nil /\ FailRecord(r).made = r.made
<1>1. Nil \in SpaceOrNone /\ LeaveRecord(r) \in ThreadRecord
  BY LeaveRecordProps DEF SpaceOrNone
<1>2. FailRecord(r) \in ThreadRecord
  BY <1>1 DEF FailRecord, ThreadRecord
<1>3. FailRecord(r).orig = Nil
  BY <1>1 DEF FailRecord, ThreadRecord
<1>4. /\ FailRecord(r).ctx = LeaveRecord(r).ctx /\ FailRecord(r).target = LeaveRecord(r).target
      /\ FailRecord(r).pc = LeaveRecord(r).pc /\ FailRecord(r).step = LeaveRecord(r).step
      /\ FailRecord(r).status = LeaveRecord(r).status /\ FailRecord(r).cpu = LeaveRecord(r).cpu
      /\ FailRecord(r).owner = LeaveRecord(r).owner /\ FailRecord(r).old = LeaveRecord(r).old
      /\ FailRecord(r).made = LeaveRecord(r).made
  BY DEF FailRecord
<1> QED BY <1>2, <1>3, <1>4, LeaveRecordProps

LoadFails(f, t) ==
  [f EXCEPT ![t].ctx = Nil, ![t].target = f[t].orig, ![t].pc = "leave", ![t].step = "read", ![t].orig = Nil]
LEMMA LoadFailsProps ==
  ASSUME NEW f \in [Everyone -> ThreadRecord], NEW t \in Everyone
  PROVE  /\ LoadFails(f, t) \in [Everyone -> ThreadRecord]
         /\ LoadFails(f, t)[t] = FailRecord(f[t])
         /\ \A v \in Everyone : v # t => LoadFails(f, t)[v] = f[v]
<1>1. LoadFails(f, t) = [f EXCEPT ![t] = FailRecord(f[t])]
  BY DEF LoadFails, FailRecord, LeaveRecord
<1>2. FailRecord(f[t]) \in ThreadRecord
  BY FailRecordProps
<1> QED BY <1>1, <1>2

\* A user thread that is neither busy nor becomes so does not matter to the maps in use.
LEMMA UserSame ==
  ASSUME NEW u \in Users, thread'[u] = thread[u]
  PROVE  /\ u \in Everyone /\ (Busy(u)' <=> Busy(u)) /\ Private(u)' = Private(u)
         /\ thread'[u].owner = thread[u].owner /\ thread'[u].status = thread[u].status
BY DEF Everyone, Busy, Private, Making, Leaving

LEMMA UnusedThread ==
  ASSUME SwitchInv, NEW u \in OneOf(NewThread)
  PROVE  /\ u \in Users /\ u \in Everyone /\ thread[u].owner = Nil /\ thread[u].status = "none"
         /\ ~Live(u) /\ ~Busy(u)
BY DEF OneOf, NewThread, NoThread, Everyone, Live, Busy, Making, Leaving

LEMMA LoadedInv ==
  ASSUME SwitchInv, NEW t \in Everyone, NEW c \in Cpus, thread[t].cpu = c, Loaded(t)
  PROVE  SwitchInv'
<1>1. /\ On(t) /\ thread[t].pc = "load" /\ cpu' = cpu /\ mapped_on' = mapped_on /\ freed' = freed /\ stopped' = stopped
  BY DEF Loaded, At
<1>2. /\ t \in Users \cup {kmain} /\ t # reaper /\ cpu[c].thread = t /\ thread[t] \in ThreadRecord
      /\ thread[t].status = "on" /\ Live(t) /\ ThreadState(t) /\ thread[t].step = "none"
      /\ thread[t].orig = Home(t) /\ thread[t].made \in Maps /\ Busy(t) /\ Private(t) = thread[t].made
      /\ For(t) \in Procs /\ proc[For(t)].status = "alive" /\ proc[For(t)] \in ProcRecord
      /\ (t = kmain <=> Booting) /\ (t = kmain <=> t \notin Users)
      /\ t \in Users => For(t) = thread[t].owner
  BY <1>1, LoadFacts
<1>3. thread \in [Everyone -> ThreadRecord] /\ proc \in [Procs -> ProcRecord] /\ freed' \in SUBSET Maps
  BY <1>1 DEF SwitchInv, SwitchTyped
\* A new thread for the process.
<1>4. ASSUME NEW u \in OneOf(NewThread),
             proc' = [proc EXCEPT ![For(t)].count = @ + 1], thread' = Loads(thread, t, u, NewRecord(For(t), "new"))
      PROVE  SwitchInv'
  <2>1. /\ u \in Users /\ u \in Everyone /\ thread[u].owner = Nil /\ thread[u].status = "none"
        /\ ~Live(u) /\ ~Busy(u) /\ t # u
    BY <1>2, UnusedThread
  <2>2. PICK p \in Procs : p = For(t)
    BY <1>2
  <2>3. NewRecord(p, "new") \in ThreadRecord
    BY NewRecordProps
  <2>4. /\ thread' \in [Everyone -> ThreadRecord] /\ thread'[t] = LeaveRecord(thread[t])
        /\ thread'[u] = NewRecord(p, "new") /\ \A v \in Everyone : v \notin {t, u} => thread'[v] = thread[v]
    BY <1>3, <1>4, <2>1, <2>2, <2>3, LoadsProps
  <2>5. /\ thread'[t].ctx = Nil /\ thread'[t].target = thread[t].orig /\ thread'[t].pc = "leave"
        /\ thread'[t].step = "read" /\ thread'[t].status = thread[t].status /\ thread'[t].cpu = thread[t].cpu
        /\ thread'[t].owner = thread[t].owner /\ thread'[t].orig = thread[t].orig /\ thread'[t].made = thread[t].made
    BY <1>2, <2>4, LeaveRecordProps
  <2>6. /\ ThreadState(u)' /\ thread'[u].status = "new" /\ thread'[u].owner = p /\ ~Busy(u)'
    BY <2>1, <2>4, NewThreadState
  <2>7. /\ proc' \in [Procs -> ProcRecord] /\ \A q \in Procs : q # p => proc'[q] = proc[q]
        /\ proc'[p].map = proc[p].map /\ proc'[p].status = proc[p].status /\ proc'[p].count = proc[p].count + 1
    BY <1>2, <1>3, <1>4, <2>2 DEF ProcRecord
  <2>8. \A q \in Procs : proc'[q].map = proc[q].map
    BY <2>7
  <2>9. \A v \in Everyone : (v \in Users => thread[v].owner \in Procs) /\ thread'[v].owner = thread[v].owner => Home(v)' = Home(v)
    BY <2>8 DEF Home
  <2>10. \A v \in Everyone : v # u /\ Live(v) => Home(v)' = Home(v)
    BY <2>4, <2>5, <2>9, SwitchFacts
  <2>11. ThreadState(t)' /\ Stands(t, c)' /\ Busy(t)' /\ Private(t)' = Private(t)
    BY <1>1, <1>2, <2>1, <2>5, <2>10, LeaveState
  <2>12. ASSUME NEW v \in Users, v # u
         PROVE  /\ v \in Everyone /\ (Busy(v)' <=> Busy(v)) /\ Private(v)' = Private(v)
                /\ thread'[v].owner = thread[v].owner /\ thread'[v].status = thread[v].status
    <3>1. CASE v = t
      BY <1>2, <2>5, <2>11, <3>1
    <3>2. CASE v # t
      BY <2>4, <2>12, <3>2, UserSame DEF Everyone
    <3> QED BY <3>1, <3>2
  <2>13. \A v \in Users : Busy(v) /\ v # t => thread[v].owner # p
    <3>1. CASE t = kmain
      <4>1. \A v \in Users : thread[v].status \in {"none", "new"}
        BY <1>2, <3>1 DEF SwitchInv, BootState
      <4>2. \A v \in Users : v \in Everyone /\ ThreadState(v)
        BY SwitchFacts DEF Everyone
      <4>3. \A v \in Users : ~Busy(v)
        BY <4>1, <4>2 DEF ThreadState, Live, Busy, Making, Leaving
      <4> QED BY <4>3
    <3>2. CASE t \in Users
      BY <1>2, <2>2, <3>2 DEF SwitchInv, Alone
    <3> QED BY <1>2, <3>1, <3>2
  <2>14. Alone'
    <3>1. ASSUME NEW v \in Users, NEW w \in Users, Busy(v)', w # v, thread'[w].owner = thread'[v].owner
          PROVE  thread'[w].status = "new"
      <4>1. v # u /\ Busy(v)
        BY <2>6, <2>12, <3>1
      <4>2. CASE w = u
        BY <2>6, <4>2
      <4>3. CASE w # u
        BY <2>12, <3>1, <4>1, <4>3 DEF SwitchInv, Alone
      <4> QED BY <4>2, <4>3
    <3> QED BY <3>1 DEF Alone
  <2>15. OwnMaps'
    BY <1>1, <2>6, <2>8, <2>12 DEF SwitchInv, OwnMaps
  <2>16. ASSUME NEW q \in Procs PROVE ProcState(q)'
    <3>1. ProcState(q)
      BY DEF SwitchInv
    <3>2. CASE q = p
      <4>1. Cardinality({v \in Users : thread'[v].owner = p}) = Cardinality({v \in Users : thread[v].owner = p}) + 1
        BY <2>1, <2>6, <2>12, CountMore, MapSwitchAssumption
      <4> QED BY <1>2, <2>2, <2>7, <3>1, <3>2, <4>1 DEF ProcState
    <3>3. CASE q # p
      <4>1. {v \in Users : thread'[v].owner = q} = {v \in Users : thread[v].owner = q}
        BY <2>1, <2>6, <2>12, <3>3, MapSwitchAssumption
      <4> QED BY <2>7, <3>1, <3>3, <4>1 DEF ProcState
    <3> QED BY <3>2, <3>3
  <2>17. Booting' => t = kmain /\ Stands(t, c)'
    <3>1. ASSUME t # kmain PROVE ~Booting'
      <4>1. kmain \in Everyone /\ kmain # u
        BY <2>1, MapSwitchAssumption DEF Everyone, Kernels
      <4>2. thread'[kmain] = thread[kmain]
        BY <2>4, <3>1, <4>1
      <4> QED BY <1>2, <3>1, <4>2 DEF Booting
    <3> QED BY <2>11, <3>1
  <2>18. BootState'
    <3>1. CASE t = kmain
      <4>1. /\ \A v \in Users : thread[v].status \in {"none", "new"}
            /\ \A d \in Cpus : thread[kmain].pc = "boot" \/ d # thread[kmain].cpu => cpu[d].cr3 = kmap /\ cpu[d].current_map = kmap
            /\ thread[kmain].pc # "boot" => /\ proc[Init1].map = thread[kmain].made /\ thread[kmain].orig = kmap
                                            /\ proc[Init1].status = "alive"
            /\ freed = {}
        BY <1>2, <3>1 DEF SwitchInv, BootState
      <4>2. p = Init1 /\ thread[kmain].pc # "boot" /\ thread'[kmain].pc # "boot"
        BY <1>1, <2>2, <2>5, <3>1 DEF For
      <4>3. \A v \in Users : thread'[v].status \in {"none", "new"}
        BY <2>6, <2>12, <4>1
      <4> QED BY <1>1, <2>5, <2>7, <3>1, <4>1, <4>2, <4>3 DEF BootState
    <3>2. CASE t # kmain
      BY <2>17, <3>2 DEF BootState
    <3> QED BY <3>1, <3>2
  <2>19. \A m \in Spaces : m = cpu[c].current_map /\ Uses(t, m) => Uses(t, m)'
    <3>1. Home(t)' = Home(t) /\ Live(t)'
      BY <1>2, <2>1, <2>5, <2>10 DEF Live
    <3> QED BY <1>2, <2>11, <3>1 DEF Uses
  <2>20. \A v \in Everyone : v # t =>
           \/ thread'[v] = thread[v] /\ (Live(v) => Home(v)' = Home(v))
           \/ ~Live(v) /\ thread'[v].status # "on" /\ ThreadState(v)'
    BY <2>1, <2>4, <2>6, <2>10
  <2> QED BY <1>1, <1>2, <1>3, <2>4, <2>5, <2>7, <2>11, <2>14, <2>15, <2>16, <2>17, <2>18, <2>19, <2>20, QuietStep
\* No image: the thread goes back with nothing.
<1>5. ASSUME t # kmain, proc' = proc, thread' = LoadFails(thread, t)
      PROVE  SwitchInv'
  <2>1. /\ thread' \in [Everyone -> ThreadRecord] /\ thread'[t] = FailRecord(thread[t])
        /\ \A v \in Everyone : v # t => thread'[v] = thread[v]
    BY <1>3, <1>5, LoadFailsProps
  <2>2. /\ thread'[t].ctx = Nil /\ thread'[t].target = thread[t].orig /\ thread'[t].pc = "leave"
        /\ thread'[t].step = "read" /\ thread'[t].status = thread[t].status /\ thread'[t].cpu = thread[t].cpu
        /\ thread'[t].owner = thread[t].owner /\ thread'[t].orig = Nil /\ thread'[t].made = thread[t].made
    BY <1>2, <2>1, FailRecordProps
  <2>3. \A v \in Everyone : Home(v)' = Home(v)
    BY <1>5, <2>1, <2>2 DEF Home
  <2>4. ThreadState(t)' /\ Stands(t, c)' /\ Busy(t)' /\ Private(t)' = Private(t)
    BY <1>1, <1>2, <1>5, <2>2, <2>3, LeaveState
  <2>5. ASSUME NEW v \in Users
        PROVE  /\ v \in Everyone /\ (Busy(v)' <=> Busy(v)) /\ Private(v)' = Private(v)
               /\ thread'[v].owner = thread[v].owner /\ thread'[v].status = thread[v].status
    <3>1. CASE v = t
      BY <1>2, <2>2, <2>4, <3>1
    <3>2. CASE v # t
      BY <2>1, <3>2, UserSame DEF Everyone
    <3> QED BY <3>1, <3>2
  <2>6. Alone' /\ OwnMaps'
    BY <1>1, <1>5, <2>5 DEF SwitchInv, Alone, OwnMaps
  <2>7. ASSUME NEW q \in Procs PROVE ProcState(q)'
    <3>1. ProcState(q)
      BY DEF SwitchInv
    <3> QED BY <1>5, <2>5, <3>1, CountSame
  <2>8. ~Booting'
    <3>1. kmain \in Everyone
      BY DEF Everyone, Kernels
    <3> QED BY <1>2, <1>5, <2>1, <3>1 DEF Booting
  <2>9. \A m \in Spaces : m = cpu[c].current_map /\ Uses(t, m) => Uses(t, m)'
    <3>1. Home(t)' = Home(t) /\ Live(t)'
      BY <1>2, <2>2, <2>3 DEF Live
    <3> QED BY <1>2, <2>4, <3>1 DEF Uses
  <2>10. BootState'
    BY <2>8 DEF BootState
  <2> QED BY <1>1, <1>2, <1>3, <1>5, <2>1, <2>2, <2>3, <2>4, <2>6, <2>7, <2>8, <2>9, <2>10, QuietStep
<1>6. \/ \E u \in OneOf(NewThread) :
           /\ proc' = [proc EXCEPT ![For(t)].count = @ + 1] /\ thread' = Loads(thread, t, u, NewRecord(For(t), "new"))
      \/ t # kmain /\ proc' = proc /\ thread' = LoadFails(thread, t)
  BY DEF Loaded, Loads, LoadFails, NewRecord
<1> QED BY <1>4, <1>5, <1>6

\* No CPU is in a map that no running thread goes to.
LEMMA NobodyUses ==
  ASSUME SwitchInv, NEW P \in Maps, ~Booting,
         \A u \in Everyone : Uses(u, P) =>
           thread[u].step = "none" /\ \A d \in Cpus : thread[u].cpu = d => cpu[d].current_map # P
  PROVE  /\ mapped_on[P] = {} /\ \A d \in Cpus : cpu[d].current_map # P
<1>1. P \in Spaces /\ P # kmap
  BY MapSwitchAssumption DEF Spaces
<1>2. ASSUME NEW u \in Everyone, thread[u].step # "none"
      PROVE  thread[u].target # P /\ (thread[u].step # "read" => thread[u].old # P)
  <2>1. /\ u \in Users \cup {kmain} /\ Live(u) /\ Busy(u) /\ (u = kmain => Booting)
        /\ thread[u].target \in {Home(u), Private(u)}
        /\ thread[u].step # "read" => thread[u].old \in {Home(u), Private(u)}
    BY <1>2, MoverFacts
  <2>2. Home(u) # P /\ Private(u) # P
    BY <1>2, <2>1 DEF Uses
  <2> QED BY <2>1, <2>2
<1>3. ASSUME NEW d \in Cpus PROVE cpu[d].current_map # P
  BY <1>1, SwitchFacts DEF CpuState
<1>4. ASSUME NEW d \in Cpus PROVE d \notin mapped_on[P]
  <2>1. d \in mapped_on[P] => \E u \in Everyone : Doing(u, d, "mask") /\ thread[u].old = P
    BY <1>1, <1>3, SwitchFacts DEF CpuState
  <2> QED BY <1>2, <2>1 DEF Doing
<1>5. mapped_on[P] \in SUBSET Cpus
  BY <1>1 DEF SwitchInv, SwitchTyped
<1> QED BY <1>3, <1>4, <1>5

\* The map that a thread is about to drop.
LEMMA PrivateUnmapped ==
  ASSUME SwitchInv, NEW t \in Users, NEW c \in Cpus, thread[t].cpu = c, On(t), thread[t].pc \in {"launched", "adopted"}
  PROVE  /\ mapped_on[Private(t)] = {} /\ Private(t) \in Maps /\ Private(t) \notin freed
         /\ Busy(t) /\ thread[t].step = "none" /\ thread[t].target = Nil /\ thread[t].old = Nil
         /\ cpu[c].cr3 = Home(t) /\ cpu[c].current_map = Home(t) /\ Private(t) # Home(t)
         /\ \A p \in Procs : proc[p].map # Private(t)
         /\ \A u \in Users : Busy(u) /\ u # t => Private(u) # Private(t)
<1>1. /\ t \in Everyone /\ t # kmain /\ t \notin Kernels /\ kmain \in Everyone /\ cpu[c].thread = t
      /\ thread[t] \in ThreadRecord /\ thread[t].status = "on" /\ Live(t) /\ ThreadState(t) /\ Stands(t, c)
      /\ thread[t].owner \in Procs /\ Home(t) = proc[thread[t].owner].map /\ Home(t) \in Maps /\ ~Booting
  BY UserFacts
<1>2. Busy(t) /\ Private(t) \in Maps
  BY <1>1 DEF ThreadState, Busy, Making, Leaving, Private
<1>3. Settles(t)
  BY <1>1 DEF ThreadState, Remembers
<1>4. cpu[c].cr3 = Home(t) /\ cpu[c].current_map = Home(t)
  BY <1>1, <1>3 DEF Stands, Settles
<1>5. /\ Private(t) \notin freed /\ \A p \in Procs : proc[p].map # Private(t)
      /\ \A u \in Users : Busy(u) /\ u # t => Private(u) # Private(t)
  BY <1>2 DEF SwitchInv, OwnMaps
<1>6. ASSUME NEW u \in Everyone, Uses(u, Private(t)) PROVE u = t
  <2>1. CASE u \in Users
    <3>1. Live(u) /\ thread[u].owner \in Procs /\ Home(u) # Private(t)
      BY <1>5, <1>6, <2>1, OwnerHome DEF Uses, Home
    <3> QED BY <1>5, <1>6, <2>1, <3>1 DEF Uses
  <2>2. CASE u \in Kernels
    <3>1. Busy(u) /\ u \notin Users
      BY <1>6, <2>2, MapSwitchAssumption DEF Uses
    <3>2. ThreadState(u)
      BY SwitchFacts
    <3>3. Making(u)
      BY <3>1, <3>2 DEF Busy, ThreadState
    <3>4. u = kmain
      BY <2>2, <3>2, <3>3 DEF ThreadState, Kernels, Making
    <3> QED BY <1>1, <3>3, <3>4 DEF Making, Booting
  <2> QED BY <2>1, <2>2 DEF Everyone
<1>7. PICK P \in Maps : P = Private(t)
  BY <1>2
<1>8. \A u \in Everyone : Uses(u, P) =>
        thread[u].step = "none" /\ \A d \in Cpus : thread[u].cpu = d => cpu[d].current_map # P
  BY <1>1, <1>3, <1>4, <1>5, <1>6, <1>7 DEF Settles
<1>9. mapped_on[P] = {}
  BY <1>1, <1>8, NobodyUses
<1>10. Private(t) # Home(t)
  BY <1>1, <1>5
<1> QED BY <1>2, <1>3, <1>4, <1>5, <1>7, <1>9, <1>10 DEF Settles

\* The records after a launch: of a thread that is done with it, and of one that adopts the map.
DropRecord(r, pc) == [r EXCEPT !.pc = pc, !.orig = Nil, !.made = Nil]
ReadyRecord(r) == [r EXCEPT !.status = "ready"]
EndRecord(r) == [r EXCEPT !.pc = "user", !.made = Nil]
AdoptRecord(r, m) == [r EXCEPT !.orig = m, !.target = r.made, !.pc = "adopt", !.step = "read"]
LEMMA DropRecordProps ==
  ASSUME NEW r \in ThreadRecord, NEW pc \in {"user", "exit"}
  PROVE  /\ DropRecord(r, pc) \in ThreadRecord /\ DropRecord(r, pc).pc = pc
         /\ DropRecord(r, pc).orig = Nil /\ DropRecord(r, pc).made = Nil
         /\ DropRecord(r, pc).ctx = r.ctx /\ DropRecord(r, pc).target = r.target /\ DropRecord(r, pc).step = r.step
         /\ DropRecord(r, pc).status = r.status /\ DropRecord(r, pc).cpu = r.cpu
         /\ DropRecord(r, pc).owner = r.owner /\ DropRecord(r, pc).old = r.old
<1>1. Nil \in SpaceOrNone /\ pc \in Places
  BY DEF SpaceOrNone, Places
<1>2. DropRecord(r, pc) \in ThreadRecord
  BY <1>1 DEF DropRecord, ThreadRecord
<1> QED BY <1>2 DEF DropRecord, ThreadRecord
LEMMA ReadyRecordProps ==
  ASSUME NEW r \in ThreadRecord
  PROVE  /\ ReadyRecord(r) \in ThreadRecord /\ ReadyRecord(r).status = "ready" /\ SameBut(ReadyRecord(r), r)
         /\ ReadyRecord(r).cpu = r.cpu
BY DEF ReadyRecord, ThreadRecord, SameBut
LEMMA EndRecordProps ==
  ASSUME NEW r \in ThreadRecord
  PROVE  /\ EndRecord(r) \in ThreadRecord /\ EndRecord(r).pc = "user" /\ EndRecord(r).made = Nil
         /\ EndRecord(r).orig = r.orig
         /\ EndRecord(r).ctx = r.ctx /\ EndRecord(r).target = r.target /\ EndRecord(r).step = r.step
         /\ EndRecord(r).status = r.status /\ EndRecord(r).cpu = r.cpu
         /\ EndRecord(r).owner = r.owner /\ EndRecord(r).old = r.old
<1>1. Nil \in SpaceOrNone /\ "user" \in Places
  BY DEF SpaceOrNone, Places
<1>2. EndRecord(r) \in ThreadRecord
  BY <1>1 DEF EndRecord, ThreadRecord
<1> QED BY <1>2 DEF EndRecord, ThreadRecord
LEMMA AdoptRecordProps ==
  ASSUME NEW r \in ThreadRecord, NEW m \in Maps
  PROVE  /\ AdoptRecord(r, m) \in ThreadRecord /\ AdoptRecord(r, m).orig = m /\ AdoptRecord(r, m).target = r.made
         /\ AdoptRecord(r, m).pc = "adopt" /\ AdoptRecord(r, m).step = "read"
         /\ AdoptRecord(r, m).made = r.made /\ AdoptRecord(r, m).ctx = r.ctx
         /\ AdoptRecord(r, m).status = r.status /\ AdoptRecord(r, m).cpu = r.cpu
         /\ AdoptRecord(r, m).owner = r.owner /\ AdoptRecord(r, m).old = r.old
<1>1. m \in SpaceOrNone /\ "adopt" \in Places
  BY DEF SpaceOrNone, Spaces, Places
<1>2. AdoptRecord(r, m) \in ThreadRecord
  BY <1>1 DEF AdoptRecord, ThreadRecord
<1> QED BY <1>2 DEF AdoptRecord, ThreadRecord

LEMMA SetReadyProps ==
  ASSUME thread \in [Everyone -> ThreadRecord], NEW t \in Everyone, NEW u \in Everyone, t # u,
         NEW pc \in {"user", "exit"}
  PROVE  /\ SetReady(t, u, pc) \in [Everyone -> ThreadRecord]
         /\ SetReady(t, u, pc)[t] = DropRecord(thread[t], pc) /\ SetReady(t, u, pc)[u] = ReadyRecord(thread[u])
         /\ \A v \in Everyone : v \notin {t, u} => SetReady(t, u, pc)[v] = thread[v]
<1>1. SetReady(t, u, pc) = [[thread EXCEPT ![t] = DropRecord(thread[t], pc)] EXCEPT ![u] = ReadyRecord(thread[u])]
  BY DEF SetReady, DropRecord, ReadyRecord
<1>2. DropRecord(thread[t], pc) \in ThreadRecord /\ ReadyRecord(thread[u]) \in ThreadRecord
  BY DropRecordProps, ReadyRecordProps
<1> QED BY <1>1, <1>2

\* The thread t lets the thread it made run, and has nothing more to remember itself.
LEMMA ReadyStep ==
  ASSUME SwitchInv, NEW t \in Users \cup {kmain}, NEW c \in Cpus, thread[t].cpu = c, On(t), t \in Everyone,
         thread[t].pc \in {"launched", "adopted"}, NEW u \in Users, thread[u].status = "new",
         thread' = SetReady(t, u, "exit"), Home(t)' = Home(t), cpu'[c] = cpu[c],
         cpu[c].cr3 = Home(t), cpu[c].current_map = Home(t)
  PROVE  /\ u \in Everyone /\ u # t /\ ~Live(u) /\ thread' \in [Everyone -> ThreadRecord]
         /\ \A v \in Everyone : v \notin {t, u} => thread'[v] = thread[v]
         /\ thread'[t].status = "on" /\ thread'[t].cpu = c /\ thread'[t].owner = thread[t].owner
         /\ thread'[t].pc = "exit" /\ ThreadState(t)' /\ Stands(t, c)' /\ ~Busy(t)'
         /\ thread'[u].status = "ready" /\ thread'[u].owner = thread[u].owner /\ ThreadState(u)' /\ ~Busy(u)'
<1>1. /\ u \in Everyone /\ thread \in [Everyone -> ThreadRecord] /\ thread[t] \in ThreadRecord
      /\ thread[u] \in ThreadRecord /\ thread[t].status = "on" /\ u # t /\ ThreadState(t) /\ ThreadState(u)
      /\ t # reaper /\ u \notin Kernels
  BY SwitchFacts, MapSwitchAssumption DEF Everyone, Kernels, SwitchInv, SwitchTyped, reaper, kmain
<1>2. /\ thread' \in [Everyone -> ThreadRecord] /\ thread'[t] = DropRecord(thread[t], "exit")
      /\ thread'[u] = ReadyRecord(thread[u]) /\ \A v \in Everyone : v \notin {t, u} => thread'[v] = thread[v]
  BY <1>1, SetReadyProps
<1>3. /\ thread'[t].pc = "exit" /\ thread'[t].orig = Nil /\ thread'[t].made = Nil
      /\ thread'[t].ctx = thread[t].ctx /\ thread'[t].target = thread[t].target /\ thread'[t].step = thread[t].step
      /\ thread'[t].status = "on" /\ thread'[t].cpu = c
      /\ thread'[t].owner = thread[t].owner /\ thread'[t].old = thread[t].old
  BY <1>1, <1>2, DropRecordProps
<1>4. /\ thread'[u].status = "ready" /\ SameBut(thread'[u], thread[u]) /\ thread'[u].cpu = thread[u].cpu
  BY <1>1, <1>2, ReadyRecordProps
<1>5. Settles(t) /\ thread[t].ctx = Nil
  BY <1>1 DEF ThreadState, Remembers
<1>6. Plain(t)' /\ ~Making(t)' /\ ~Leaving(t)' /\ ~Busy(t)' /\ Live(t)'
  BY <1>3, <1>5 DEF Plain, Settles, Making, Leaving, Busy, Live
<1>7. Remembers(t)'
  BY <1>3, <1>6 DEF Remembers
<1>8. t \in Users => thread'[t].owner # Nil
  BY <1>1, <1>3 DEF ThreadState
<1>9. ThreadState(t)'
  BY <1>1, <1>3, <1>5, <1>6, <1>7, <1>8 DEF ThreadState
<1>10. Stands(t, c)'
  BY <1>3, <1>5 DEF Stands, Settles
<1>11. ~Live(u) /\ Plain(u) /\ thread[u].pc = "user" /\ thread[u].ctx = Nil /\ thread[u].owner # Nil /\ thread[u].cpu = Nil
  BY <1>1 DEF ThreadState, Live
<1>12. /\ thread'[u].pc = "user" /\ thread'[u].ctx = Nil /\ thread'[u].owner = thread[u].owner /\ thread'[u].cpu = Nil
       /\ Plain(u)' /\ Live(u)' /\ ~Making(u)' /\ ~Leaving(u)' /\ ~Busy(u)'
  BY <1>4, <1>11 DEF SameBut, Plain, Live, Making, Leaving, Busy
<1>13. Remembers(u)'
  BY <1>12 DEF Remembers
<1>14. ThreadState(u)'
  BY <1>1, <1>4, <1>11, <1>12, <1>13 DEF ThreadState, Kernels
<1> QED BY <1>1, <1>2, <1>3, <1>4, <1>6, <1>9, <1>10, <1>11, <1>12, <1>14

\* An execve that failed: its new map goes, it runs on in the old one.
LEMMA LaunchFails ==
  ASSUME SwitchInv, NEW t \in Everyone, NEW c \in Cpus, thread[t].cpu = c, On(t), thread[t].pc = "launched",
         thread[t].orig = Nil,
         vm_map_destroy(t, thread[t].made, [thread EXCEPT ![t].pc = "user", ![t].made = Nil])
  PROVE  SwitchInv'
<1>1. ThreadState(t) /\ Nil # kmap /\ kmap \notin Maps
  BY SwitchFacts, MapSwitchAssumption
<1>2. t \in Users
  BY <1>1, MapSwitchAssumption DEF ThreadState, Making, Home
<1>3. /\ t \in Everyone /\ t # kmain /\ t \notin Kernels /\ kmain \in Everyone /\ cpu[c].thread = t
      /\ thread[t] \in ThreadRecord /\ thread[t].status = "on" /\ Live(t)
      /\ thread[t].owner \in Procs /\ Home(t) = proc[thread[t].owner].map /\ Home(t) \in Maps /\ ~Booting
  BY <1>2, UserFacts
<1>4. Making(t) /\ Private(t) = thread[t].made /\ thread[t].made \in Maps
  BY <1>1 DEF ThreadState, Making, Private
<1>5. /\ mapped_on[thread[t].made] = {} /\ thread[t].made \notin freed
      /\ Busy(t) /\ thread[t].step = "none" /\ thread[t].target = Nil /\ thread[t].old = Nil
      /\ cpu[c].cr3 = Home(t) /\ cpu[c].current_map = Home(t) /\ thread[t].made # Home(t)
      /\ \A p \in Procs : proc[p].map # thread[t].made
      /\ \A u \in Users : Busy(u) /\ u # t => Private(u) # thread[t].made
  BY <1>2, <1>4, PrivateUnmapped
<1>6. /\ thread' = [thread EXCEPT ![t].pc = "user", ![t].made = Nil] /\ freed' = freed \cup {thread[t].made}
      /\ cpu' = cpu /\ proc' = proc /\ mapped_on' = mapped_on /\ stopped' = stopped
  BY <1>5 DEF vm_map_destroy
<1>7. /\ thread' \in [Everyone -> ThreadRecord] /\ thread'[t] = EndRecord(thread[t])
      /\ \A v \in Everyone : v # t => thread'[v] = thread[v]
  <2>1. thread' = [thread EXCEPT ![t] = EndRecord(thread[t])]
    BY <1>6 DEF EndRecord
  <2>2. thread \in [Everyone -> ThreadRecord] /\ EndRecord(thread[t]) \in ThreadRecord
    BY <1>3, EndRecordProps DEF SwitchInv, SwitchTyped
  <2> QED BY <2>1, <2>2
<1>8. /\ thread'[t].pc = "user" /\ thread'[t].made = Nil /\ thread'[t].orig = Nil
      /\ thread'[t].ctx = thread[t].ctx /\ thread'[t].target = Nil /\ thread'[t].step = "none"
      /\ thread'[t].status = "on" /\ thread'[t].cpu = c
      /\ thread'[t].owner = thread[t].owner /\ thread'[t].old = Nil
  BY <1>3, <1>5, <1>7, EndRecordProps
<1>9. Plain(t)' /\ ~Making(t)' /\ ~Leaving(t)' /\ ~Busy(t)' /\ Live(t)' /\ Home(t)' = Home(t)
  BY <1>6, <1>8 DEF Plain, Making, Leaving, Busy, Live, Home
<1>10. ThreadState(t)'
  <2>1. Remembers(t)'
    BY <1>8, <1>9 DEF Remembers
  <2>2. thread[t].ctx = Nil /\ thread[t].owner # Nil
    BY <1>1, <1>2, <1>3 DEF ThreadState
  <2> QED BY <1>3, <1>8, <1>9, <2>1, <2>2 DEF ThreadState, Kernels
<1>11. Stands(t, c)'
  BY <1>5, <1>6, <1>8, <1>9 DEF Stands
<1>12. ASSUME NEW u \in Users, u # t
       PROVE  /\ u \in Everyone /\ (Busy(u)' <=> Busy(u)) /\ Private(u)' = Private(u)
              /\ thread'[u].owner = thread[u].owner /\ thread'[u].status = thread[u].status
  BY <1>7, <1>12, UserSame DEF Everyone
<1>13. Alone'
  BY <1>3, <1>8, <1>9, <1>12 DEF SwitchInv, Alone
<1>14. OwnMaps'
  BY <1>5, <1>6, <1>9, <1>12 DEF SwitchInv, OwnMaps
<1>15. ASSUME NEW p \in Procs PROVE ProcState(p)'
  <2>1. ProcState(p) /\ \A u \in Users : thread'[u].owner = thread[u].owner
    BY <1>8, <1>12 DEF SwitchInv
  <2> QED BY <1>6, <2>1, CountSame
<1>16. ~Booting' /\ BootState'
  BY <1>3, <1>7 DEF Booting, BootState
<1>17. \A m \in Spaces : m = cpu[c].current_map /\ Uses(t, m) => Uses(t, m)'
  BY <1>2, <1>5, <1>9 DEF Uses
<1>18. \A u \in Everyone : u # t => thread'[u] = thread[u] /\ (Live(u) => Home(u)' = Home(u))
  BY <1>6, <1>7 DEF Home
<1>19. proc' \in [Procs -> ProcRecord] /\ freed' \in SUBSET Maps
  BY <1>4, <1>6 DEF SwitchInv, SwitchTyped
<1> QED BY <1>3, <1>5, <1>6, <1>7, <1>8, <1>10, <1>11, <1>13, <1>14, <1>15, <1>16, <1>17, <1>18, <1>19, QuietStep

\* Init is launched: its thread may run, kmain exits.
LEMMA LaunchDone ==
  ASSUME SwitchInv, NEW c \in Cpus, thread[kmain].cpu = c, On(kmain), thread[kmain].pc = "launched",
         NEW u \in NewOf(Init1), thread' = SetReady(kmain, u, "exit"),
         cpu' = cpu, proc' = proc, mapped_on' = mapped_on, freed' = freed, stopped' = stopped
  PROVE  SwitchInv'
<1>1. /\ kmain \in Everyone /\ kmain \notin Users /\ cpu[c].thread = kmain /\ Live(kmain)
      /\ ThreadState(kmain) /\ Stands(kmain, c) /\ Home(kmain) = kmap
      /\ \A v \in Users : thread[v].status \in {"none", "new"} /\ ~Live(v)
  BY KmainFacts DEF Booting
<1>2. Settles(kmain) /\ thread[kmain].made \in Maps /\ Private(kmain) = thread[kmain].made
  BY <1>1 DEF ThreadState, Remembers, Making, Private
<1>3. cpu[c].cr3 = Home(kmain) /\ cpu[c].current_map = Home(kmain) /\ Home(kmain)' = Home(kmain)
  BY <1>1, <1>2 DEF Stands, Settles, Home
<1>4. u \in Users /\ thread[u].status = "new"
  BY DEF NewOf
<1>5. /\ u \in Everyone /\ u # kmain /\ ~Live(u) /\ thread' \in [Everyone -> ThreadRecord]
      /\ \A v \in Everyone : v \notin {kmain, u} => thread'[v] = thread[v]
      /\ thread'[kmain].status = "on" /\ thread'[kmain].cpu = c /\ thread'[kmain].owner = thread[kmain].owner
      /\ thread'[kmain].pc = "exit" /\ ThreadState(kmain)' /\ Stands(kmain, c)' /\ ~Busy(kmain)'
      /\ thread'[u].status = "ready" /\ thread'[u].owner = thread[u].owner /\ ThreadState(u)' /\ ~Busy(u)'
  BY <1>1, <1>3, <1>4, ReadyStep
<1>6. \A v \in Users : v \in Everyone /\ ~Busy(v)
  <2>1. \A v \in Users : v \in Everyone /\ ThreadState(v) /\ ~Live(v)
    BY <1>1, SwitchFacts DEF Everyone
  <2> QED BY <2>1 DEF ThreadState, Busy, Making, Leaving
<1>7. ASSUME NEW v \in Users
      PROVE  ~Busy(v)' /\ thread'[v].owner = thread[v].owner
  <2>1. CASE v = u
    BY <1>5, <2>1
  <2>2. CASE v # u
    <3>1. v \in Everyone /\ v # kmain
      BY <1>1, <1>6
    <3> QED BY <1>5, <1>6, <2>2, <3>1, UserSame
  <2> QED BY <2>1, <2>2
<1>8. Alone' /\ OwnMaps'
  BY <1>7 DEF SwitchInv, Alone, OwnMaps
<1>9. ASSUME NEW p \in Procs PROVE ProcState(p)'
  <2>1. ProcState(p)
    BY DEF SwitchInv
  <2> QED BY <1>7, <2>1, CountSame
<1>10. ~Booting' /\ BootState'
  BY <1>5 DEF Booting, BootState
<1>11. \A m \in Spaces : m = cpu[c].current_map /\ Uses(kmain, m) => Uses(kmain, m)'
  BY <1>1, <1>2, <1>3, MapSwitchAssumption DEF Uses
<1>12. \A v \in Everyone : Home(v)' = Home(v)
  <2>1. \A v \in Users : thread'[v].owner = thread[v].owner
    BY <1>7
  <2> QED BY <2>1 DEF Home
<1>13. \A v \in Everyone : v # kmain =>
         \/ thread'[v] = thread[v] /\ (Live(v) => Home(v)' = Home(v))
         \/ ~Live(v) /\ thread'[v].status # "on" /\ ThreadState(v)'
  BY <1>5, <1>12
<1>14. proc' \in [Procs -> ProcRecord] /\ freed' \in SUBSET Maps
  BY DEF SwitchInv, SwitchTyped
<1> QED BY <1>1, <1>2, <1>5, <1>8, <1>9, <1>10, <1>11, <1>13, <1>14, QuietStep DEF Settles

Adopts(f, t, o) == [f EXCEPT ![t].orig = o, ![t].target = f[t].made, ![t].pc = "adopt", ![t].step = "read"]
LEMMA AdoptsProps ==
  ASSUME NEW f \in [Everyone -> ThreadRecord], NEW t \in Everyone, NEW o \in Maps
  PROVE  /\ Adopts(f, t, o) \in [Everyone -> ThreadRecord] /\ Adopts(f, t, o)[t] = AdoptRecord(f[t], o)
         /\ \A v \in Everyone : v # t => Adopts(f, t, o)[v] = f[v]
<1>1. Adopts(f, t, o) = [f EXCEPT ![t] = AdoptRecord(f[t], o)]
  BY DEF Adopts, AdoptRecord
<1>2. AdoptRecord(f[t], o) \in ThreadRecord
  BY AdoptRecordProps
<1> QED BY <1>1, <1>2

\* A process gets the map m.
Remaps(f, p, m) == [f EXCEPT ![p].map = m]
LEMMA RemapsProps ==
  ASSUME NEW f \in [Procs -> ProcRecord], NEW p \in Procs, NEW m \in Maps
  PROVE  /\ Remaps(f, p, m) \in [Procs -> ProcRecord]
         /\ Remaps(f, p, m)[p].map = m /\ Remaps(f, p, m)[p].status = f[p].status
         /\ Remaps(f, p, m)[p].count = f[p].count
         /\ \A q \in Procs : q # p => Remaps(f, p, m)[q] = f[q]
<1>1. f[p] \in ProcRecord /\ Remaps(f, p, m) = [f EXCEPT ![p] = [f[p] EXCEPT !.map = m]]
  BY DEF Remaps
<1>2. /\ [f[p] EXCEPT !.map = m] \in ProcRecord /\ [f[p] EXCEPT !.map = m].map = m
      /\ [f[p] EXCEPT !.map = m].status = f[p].status /\ [f[p] EXCEPT !.map = m].count = f[p].count
  BY <1>1 DEF ProcRecord
<1>3. PICK r : r = [f[p] EXCEPT !.map = m]
  OBVIOUS
<1>4. Remaps(f, p, m) = [f EXCEPT ![p] = r]
  BY <1>1, <1>3
<1>5. Remaps(f, p, m)[p] = r /\ Remaps(f, p, m) \in [Procs -> ProcRecord]
      /\ \A q \in Procs : q # p => Remaps(f, p, m)[q] = f[q]
  BY <1>2, <1>3, <1>4
<1> QED BY <1>2, <1>3, <1>5

\* The new image is loaded: the process has the new map, the thread goes there.
LEMMA LaunchAdopts ==
  ASSUME SwitchInv, NEW t \in Everyone, NEW c \in Cpus, thread[t].cpu = c, On(t), thread[t].pc = "launched",
         thread[t].orig # Nil, t # kmain,
         proc' = Remaps(proc, Owner(t), thread[t].made), thread' = Adopts(thread, t, proc[Owner(t)].map),
         cpu' = cpu, mapped_on' = mapped_on, freed' = freed, stopped' = stopped
  PROVE  SwitchInv'
<1>1. t \in Users
  BY SwitchFacts DEF ThreadState, Everyone, Kernels
<1>2. /\ t \in Everyone /\ t # kmain /\ t \notin Kernels /\ kmain \in Everyone /\ cpu[c].thread = t
      /\ thread[t] \in ThreadRecord /\ thread[t].status = "on" /\ Live(t) /\ ThreadState(t)
      /\ thread[t].owner \in Procs /\ Home(t) = proc[thread[t].owner].map /\ Home(t) \in Maps
      /\ Owner(t) = thread[t].owner /\ ~Booting
  BY <1>1, UserFacts
<1>3. Making(t) /\ Private(t) = thread[t].made /\ thread[t].made \in Maps
  BY <1>2 DEF ThreadState, Making, Private
<1>4. /\ thread[t].made \notin freed
      /\ Busy(t) /\ thread[t].step = "none" /\ thread[t].target = Nil /\ thread[t].old = Nil
      /\ cpu[c].cr3 = Home(t) /\ cpu[c].current_map = Home(t) /\ thread[t].made # Home(t)
      /\ \A p \in Procs : proc[p].map # thread[t].made
      /\ \A u \in Users : Busy(u) /\ u # t => Private(u) # thread[t].made
  BY <1>1, <1>3, PrivateUnmapped
<1>5. /\ thread' \in [Everyone -> ThreadRecord] /\ thread'[t] = AdoptRecord(thread[t], Home(t))
      /\ \A v \in Everyone : v # t => thread'[v] = thread[v]
  <2>1. thread' = Adopts(thread, t, Home(t))
    BY <1>2
  <2>2. thread \in [Everyone -> ThreadRecord]
    BY Zenon DEF SwitchInv, SwitchTyped
  <2> QED BY <1>2, <2>1, <2>2, AdoptsProps
<1>6. /\ thread'[t].orig = Home(t) /\ thread'[t].target = thread[t].made
      /\ thread'[t].pc = "adopt" /\ thread'[t].step = "read"
      /\ thread'[t].made = thread[t].made /\ thread'[t].ctx = thread[t].ctx
      /\ thread'[t].status = "on" /\ thread'[t].cpu = c
      /\ thread'[t].owner = thread[t].owner /\ thread'[t].old = Nil
  BY <1>2, <1>4, <1>5, AdoptRecordProps
<1>7. PICK p \in Procs : p = thread[t].owner
  BY <1>2
<1>8. /\ proc' \in [Procs -> ProcRecord] /\ \A q \in Procs : q # p => proc'[q] = proc[q]
      /\ proc'[p].map = thread[t].made /\ proc'[p].status = proc[p].status /\ proc'[p].count = proc[p].count
  <2>1. proc \in [Procs -> ProcRecord] /\ proc' = Remaps(proc, p, thread[t].made)
    BY <1>2, <1>7 DEF SwitchInv, SwitchTyped
  <2> QED BY <1>3, <2>1, RemapsProps
<1>9. /\ ~Making(t)' /\ Leaving(t)' /\ Busy(t)' /\ Live(t)' /\ Home(t)' = thread[t].made /\ Private(t)' = Home(t)
  <2>1. ~Making(t)' /\ Leaving(t)' /\ Busy(t)' /\ Live(t)'
    BY <1>6 DEF Making, Leaving, Busy, Live
  <2>2. Home(t)' = thread[t].made
    BY <1>1, <1>6, <1>7, <1>8 DEF Home
  <2>3. Private(t)' = Home(t)
    BY <1>6, <2>1 DEF Private
  <2> QED BY <2>1, <2>2, <2>3
<1>10. ThreadState(t)'
  <2>1. Remembers(t)'
    BY <1>6 DEF Remembers, Moving
  <2>2. thread[t].ctx = Nil /\ thread[t].owner # Nil
    BY <1>1, <1>2 DEF ThreadState
  <2>3. /\ thread'[t].ctx = Nil /\ thread'[t].owner # Nil /\ thread'[t].cpu # Nil /\ thread'[t].made = Home(t)'
        /\ thread'[t].orig \in Maps /\ t # reaper
    BY <1>2, <1>6, <1>9, <2>2, MapSwitchAssumption, Zenon DEF Kernels
  <2> QED BY <1>1, <1>2, <1>6, <1>9, <2>1, <2>3, ZenonT(30) DEF ThreadState
<1>11. Stands(t, c)'
  BY <1>4, <1>6, <1>9 DEF Stands
<1>12. ASSUME NEW u \in Users, u # t
       PROVE  /\ u \in Everyone /\ thread'[u] = thread[u] /\ (Busy(u)' <=> Busy(u)) /\ Private(u)' = Private(u)
              /\ thread'[u].owner = thread[u].owner /\ thread'[u].status = thread[u].status
              /\ Live(u) => thread[u].owner # p
  <2>1. u \in Everyone /\ thread'[u] = thread[u]
    BY <1>5, <1>12 DEF Everyone
  <2>2. Live(u) => thread[u].owner # p
    BY <1>1, <1>4, <1>7, <1>12 DEF SwitchInv, Alone, Live
  <2> QED BY <2>1, <2>2, UserSame
<1>13. Alone'
  <2>1. \A v \in Users : Busy(v)' => Busy(v)
    BY <1>4, <1>12
  <2>2. \A v \in Users : thread'[v].owner = thread[v].owner /\ (v # t => thread'[v].status = thread[v].status)
    BY <1>6, <1>12
  <2>3. ASSUME NEW v \in Users, NEW w \in Users, Busy(v)', w # v, thread'[w].owner = thread'[v].owner
        PROVE  thread'[w].status = "new"
    <3>1. Busy(v) /\ thread[w].owner = thread[v].owner
      BY <2>1, <2>2, <2>3
    <3>2. thread[w].status = "new"
      BY <2>3, <3>1 DEF SwitchInv, Alone
    <3>3. w # t
      BY <1>2, <3>2
    <3> QED BY <2>2, <3>2, <3>3
  <2> QED BY <2>3 DEF Alone
<1>14. OwnMaps'
  <2>1. /\ \A q, r \in Procs : q # r /\ proc[q].map # Nil => proc[q].map # proc[r].map
        /\ \A q \in Procs : proc[q].map \notin freed
        /\ \A u \in Users : Busy(u) => /\ Private(u) \notin freed /\ \A q \in Procs : proc[q].map # Private(u)
                                       /\ \A v \in Users : Busy(v) /\ v # u => Private(v) # Private(u)
    BY DEF SwitchInv, OwnMaps
  <2>2. Home(t) # Nil /\ Home(t) = proc[p].map /\ Home(t) \notin freed
    BY <1>2, <1>7, <2>1, MapSwitchAssumption
  <2>3. \A q, r \in Procs : q # r /\ proc'[q].map # Nil => proc'[q].map # proc'[r].map
    BY <1>4, <1>8, <2>1
  <2>4. \A q \in Procs : proc'[q].map \notin freed'
    BY <1>4, <1>8, <2>1
  <2>5. \A q \in Procs : proc'[q].map # Home(t)
    BY <1>4, <1>8, <2>1, <2>2
  <2>6. \A u \in Users : Busy(u)' /\ u # t => /\ Private(u)' \notin freed' /\ \A q \in Procs : proc'[q].map # Private(u)'
                                              /\ Private(u)' # Home(t)
    BY <1>4, <1>8, <1>12, <2>1, <2>2
  <2>7. \A u \in Users : \A v \in Users : Busy(u)' /\ Busy(v)' /\ v # u => Private(v)' # Private(u)'
    BY <1>9, <1>12, <2>1, <2>6
  <2> QED BY <1>9, <2>2, <2>3, <2>4, <2>5, <2>6, <2>7 DEF OwnMaps
<1>15. ASSUME NEW q \in Procs PROVE ProcState(q)'
  <2>1. ProcState(q) /\ \A u \in Users : thread'[u].owner = thread[u].owner
    BY <1>6, <1>12 DEF SwitchInv
  <2>2. CASE q = p
    <3>1. {u \in Users : thread'[u].owner = q} = {u \in Users : thread[u].owner = q}
      BY <2>1
    <3>2. proc[p].map # Nil /\ thread[t].made # Nil
      BY <1>2, <1>3, <1>7, MapSwitchAssumption
    <3> QED BY <1>8, <2>1, <2>2, <3>1, <3>2 DEF ProcState
  <2>3. CASE q # p
    <3>1. proc'[q] = proc[q]
      BY <1>8, <2>3
    <3> QED BY <2>1, <3>1, CountSame
  <2> QED BY <2>2, <2>3
<1>16. ~Booting' /\ BootState'
  BY <1>2, <1>5, Zenon DEF Booting, BootState
<1>17. \A m \in Spaces : m = cpu[c].current_map /\ Uses(t, m) => Uses(t, m)'
  BY <1>4, <1>9 DEF Uses
<1>18. \A u \in Everyone : u # t => thread'[u] = thread[u] /\ (Live(u) => Home(u)' = Home(u))
  <2>1. ASSUME NEW u \in Users, u # t, Live(u) PROVE Home(u)' = Home(u)
    <3>1. thread[u].owner \in Procs /\ thread[u].owner # p /\ thread'[u] = thread[u]
      BY <1>12, <2>1, OwnerHome
    <3> QED BY <1>8, <3>1 DEF Home
  <2>2. \A u \in Everyone : u \notin Users => Home(u)' = Home(u)
    BY DEF Home
  <2> QED BY <1>5, <2>1, <2>2
<1>19. freed' \in SUBSET Maps
  BY DEF SwitchInv, SwitchTyped
<1> QED BY <1>2, <1>4, <1>5, <1>6, <1>8, <1>10, <1>11, <1>13, <1>14, <1>15, <1>16, <1>17, <1>18, <1>19, QuietStep, Zenon

LEMMA LaunchedInv ==
  ASSUME SwitchInv, NEW t \in Everyone, NEW c \in Cpus, thread[t].cpu = c, Launched(t)
  PROVE  SwitchInv'
<1>1. On(t) /\ thread[t].pc = "launched"
  BY DEF Launched, At
<1>2. CASE thread[t].orig = Nil
  <2>1. vm_map_destroy(t, thread[t].made, [thread EXCEPT ![t].pc = "user", ![t].made = Nil])
    BY <1>2 DEF Launched
  <2> QED BY <1>1, <1>2, <2>1, LaunchFails
<1>3. CASE thread[t].orig # Nil /\ t = kmain
  <2>1. /\ \E u \in NewOf(Init1) : thread' = SetReady(t, u, "exit")
        /\ cpu' = cpu /\ proc' = proc /\ mapped_on' = mapped_on /\ freed' = freed /\ stopped' = stopped
    BY <1>3 DEF Launched
  <2>2. PICK u \in NewOf(Init1) : thread' = SetReady(kmain, u, "exit")
    BY <1>3, <2>1
  <2> QED BY <1>1, <1>3, <2>1, <2>2, LaunchDone
<1>4. CASE thread[t].orig # Nil /\ t # kmain
  <2>1. /\ proc' = Remaps(proc, Owner(t), thread[t].made) /\ thread' = Adopts(thread, t, proc[Owner(t)].map)
        /\ cpu' = cpu /\ mapped_on' = mapped_on /\ freed' = freed /\ stopped' = stopped
    BY <1>4 DEF Launched, Remaps, Adopts
  <2> QED BY <1>1, <1>4, <2>1, LaunchAdopts
<1> QED BY <1>2, <1>3, <1>4

\* The process has its new map, the old one goes, and the new thread may run.
LEMMA AdoptedInv ==
  ASSUME SwitchInv, NEW t \in Everyone, NEW c \in Cpus, thread[t].cpu = c, Adopted(t)
  PROVE  SwitchInv'
<1>1. On(t) /\ thread[t].pc = "adopted"
  BY DEF Adopted, At
<1>2. t \in Users
  BY <1>1, SwitchFacts DEF ThreadState, Leaving
<1>3. /\ t \in Everyone /\ t # kmain /\ t \notin Kernels /\ kmain \in Everyone /\ cpu[c].thread = t
      /\ thread[t].status = "on" /\ Live(t) /\ ThreadState(t)
      /\ thread[t].owner \in Procs /\ Home(t) = proc[thread[t].owner].map /\ Home(t) \in Maps
      /\ Owner(t) = thread[t].owner /\ ~Booting
  BY <1>1, <1>2, UserFacts
<1>4. Private(t) = thread[t].orig
  BY <1>1 DEF Private, Making
<1>5. /\ mapped_on[thread[t].orig] = {} /\ thread[t].orig \in Maps /\ Busy(t) /\ thread[t].step = "none"
      /\ cpu[c].cr3 = Home(t) /\ cpu[c].current_map = Home(t) /\ thread[t].orig # Home(t)
      /\ \A p \in Procs : proc[p].map # thread[t].orig
      /\ \A u \in Users : Busy(u) /\ u # t => Private(u) # thread[t].orig
  BY <1>1, <1>2, <1>4, PrivateUnmapped
<1>6. PICK u \in NewOf(Owner(t)) : vm_map_destroy(t, thread[t].orig, SetReady(t, u, "exit"))
  BY DEF Adopted
<1>7. /\ thread' = SetReady(t, u, "exit") /\ freed' = freed \cup {thread[t].orig}
      /\ cpu' = cpu /\ proc' = proc /\ mapped_on' = mapped_on /\ stopped' = stopped
  BY <1>5, <1>6 DEF vm_map_destroy
<1>8. u \in Users /\ thread[u].status = "new" /\ thread[u].owner = thread[t].owner
  BY <1>3 DEF NewOf
<1>9. Home(t)' = Home(t)
  <2>1. thread[u] \in ThreadRecord /\ thread[t] \in ThreadRecord /\ u \in Everyone /\ u # t
    BY <1>3, <1>8, SwitchFacts DEF Everyone
  <2>2. thread'[t] = DropRecord(thread[t], "exit")
    BY <1>7, <2>1, SetReadyProps DEF SwitchInv, SwitchTyped
  <2>3. thread'[t].owner = thread[t].owner
    BY <2>1, <2>2, DropRecordProps
  <2> QED BY <1>7, <2>3 DEF Home
<1>10. /\ u \in Everyone /\ u # t /\ ~Live(u) /\ thread' \in [Everyone -> ThreadRecord]
       /\ \A v \in Everyone : v \notin {t, u} => thread'[v] = thread[v]
       /\ thread'[t].status = "on" /\ thread'[t].cpu = c /\ thread'[t].owner = thread[t].owner
       /\ thread'[t].pc = "exit" /\ ThreadState(t)' /\ Stands(t, c)' /\ ~Busy(t)'
       /\ thread'[u].status = "ready" /\ thread'[u].owner = thread[u].owner /\ ThreadState(u)' /\ ~Busy(u)'
  <2>1. cpu'[c] = cpu[c] /\ t \in Users \cup {kmain} /\ thread[t].pc \in {"launched", "adopted"}
    BY <1>1, <1>2, <1>7
  <2> QED BY <1>1, <1>3, <1>5, <1>7, <1>8, <1>9, <2>1, ReadyStep
<1>11. ASSUME NEW v \in Users
       PROVE  v \in Everyone /\ (Busy(v)' => Busy(v) /\ v # t /\ Private(v)' = Private(v) /\ v # u)
              /\ thread'[v].owner = thread[v].owner /\ (v \notin {t, u} => thread'[v].status = thread[v].status)
  <2>1. CASE v \in {t, u}
    BY <1>3, <1>10, <2>1
  <2>2. CASE v \notin {t, u}
    <3>1. v \in Everyone
      BY DEF Everyone
    <3> QED BY <1>10, <2>2, <3>1, UserSame
  <2> QED BY <2>1, <2>2
<1>12. Alone'
  <2>1. ASSUME NEW v \in Users, NEW w \in Users, Busy(v)', w # v, thread'[w].owner = thread'[v].owner
        PROVE  thread'[w].status = "new"
    <3>1. Busy(v) /\ v # t /\ thread[w].owner = thread[v].owner
      BY <1>11, <2>1
    <3>2. thread[w].status = "new"
      BY <2>1, <3>1 DEF SwitchInv, Alone
    <3>3. thread[v].owner # thread[t].owner
      <4>1. thread[t].status # "new"
        BY <1>3
      <4> QED BY <1>2, <3>1, <4>1 DEF SwitchInv, Alone
    <3>4. w # t /\ w # u
      BY <1>8, <3>1, <3>3
    <3> QED BY <1>11, <3>2, <3>4
  <2> QED BY <2>1 DEF Alone
<1>13. OwnMaps'
  <2>1. \A p, q \in Procs : p # q /\ proc'[p].map # Nil => proc'[p].map # proc'[q].map
    BY <1>7 DEF SwitchInv, OwnMaps
  <2>2. \A p \in Procs : proc'[p].map \notin freed'
    BY <1>5, <1>7 DEF SwitchInv, OwnMaps
  <2>3. ASSUME NEW v \in Users, Busy(v)'
        PROVE  /\ Private(v)' \notin freed' /\ \A p \in Procs : proc'[p].map # Private(v)'
               /\ \A w \in Users : Busy(w)' /\ w # v => Private(w)' # Private(v)'
    BY <1>5, <1>7, <1>11, <2>3 DEF SwitchInv, OwnMaps
  <2> QED BY <2>1, <2>2, <2>3 DEF OwnMaps
<1>14. ASSUME NEW p \in Procs PROVE ProcState(p)'
  <2>1. ProcState(p)
    BY DEF SwitchInv
  <2> QED BY <1>7, <1>11, <2>1, CountSame
<1>15. ~Booting' /\ BootState'
  <2>1. kmain # u
    BY <1>8, MapSwitchAssumption DEF Kernels
  <2> QED BY <1>3, <1>10, <2>1 DEF Booting, BootState
<1>16. \A m \in Spaces : m = cpu[c].current_map /\ Uses(t, m) => Uses(t, m)'
  <2>1. Live(t)'
    BY <1>10 DEF Live
  <2> QED BY <1>2, <1>5, <1>9, <2>1 DEF Uses
<1>17. \A v \in Everyone : v # t =>
         \/ thread'[v] = thread[v] /\ (Live(v) => Home(v)' = Home(v))
         \/ ~Live(v) /\ thread'[v].status # "on" /\ ThreadState(v)'
  <2>1. \A v \in Everyone : Home(v)' = Home(v)
    BY <1>7, <1>11 DEF Home
  <2> QED BY <1>10, <2>1
<1>18. proc' \in [Procs -> ProcRecord] /\ freed' \in SUBSET Maps
  BY <1>5, <1>7 DEF SwitchInv, SwitchTyped
<1> QED BY <1>3, <1>5, <1>7, <1>10, <1>12, <1>13, <1>14, <1>15, <1>16, <1>17, <1>18, QuietStep, Zenon

ForkRecord(m) == [status |-> "alive", map |-> m, count |-> 1]
Forks(f, p, m) == [f EXCEPT ![p] = ForkRecord(m)]
LEMMA ForksProps ==
  ASSUME NEW f \in [Procs -> ProcRecord], NEW p \in Procs, NEW m \in Maps
  PROVE  /\ Forks(f, p, m) \in [Procs -> ProcRecord] /\ Forks(f, p, m)[p].map = m
         /\ Forks(f, p, m)[p].status = "alive" /\ Forks(f, p, m)[p].count = 1
         /\ \A q \in Procs : q # p => Forks(f, p, m)[q] = f[q]
<1>1. /\ ForkRecord(m) \in ProcRecord /\ ForkRecord(m).map = m
      /\ ForkRecord(m).status = "alive" /\ ForkRecord(m).count = 1
  BY DEF ForkRecord, ProcRecord
<1> QED BY <1>1 DEF Forks

\* Nobody is of a process without threads.
LEMMA NoMember ==
  ASSUME SwitchInv, NEW p \in Procs, proc[p].status # "alive"
  PROVE  /\ proc[p].count = 0 /\ \A v \in Users : thread[v].owner # p
         /\ Cardinality({v \in Users : thread[v].owner = p}) = 0
<1>1. proc[p].count = 0 /\ proc[p].count = Cardinality({v \in Users : thread[v].owner = p})
  BY DEF SwitchInv, ProcState
<1>2. IsFiniteSet({v \in Users : thread[v].owner = p})
  BY MapSwitchAssumption, FS_Subset
<1>3. {v \in Users : thread[v].owner = p} = {}
  BY <1>1, <1>2, CountSmall
<1> QED BY <1>1, <1>3

LEMMA ForkInv ==
  ASSUME SwitchInv, NEW t \in Everyone, NEW c \in Cpus, thread[t].cpu = c, fork(t)
  PROVE  SwitchInv'
<1>1. /\ t \in Users /\ On(t) /\ thread[t].pc = "user"
      /\ cpu' = cpu /\ mapped_on' = mapped_on /\ freed' = freed /\ stopped' = stopped
  BY DEF fork, InUser, At
<1>2. /\ t \in Everyone /\ t # kmain /\ t \notin Kernels /\ kmain \in Everyone /\ cpu[c].thread = t
      /\ thread[t].status = "on" /\ Live(t) /\ ThreadState(t) /\ Stands(t, c)
      /\ thread[t].owner \in Procs /\ ~Booting
  BY <1>1, UserFacts
<1>3. thread[t].step = "none"
  BY <1>1, <1>2 DEF ThreadState, Remembers, Plain
<1>4. PICK p \in Procs, m \in OneOf(NewMap), u \in OneOf(NewThread) :
        /\ proc[p].status = "none" /\ proc' = Forks(proc, p, m)
        /\ thread' = [thread EXCEPT ![u] = NewRecord(p, "ready")]
  BY DEF fork, Forks, ForkRecord, NewRecord
<1>5. /\ m \in Maps /\ m \notin freed /\ \A q \in Procs : proc[q].map # m
      /\ \A v \in Everyone : Private(v) # m
  BY FreshMap
<1>6. /\ u \in Users /\ u \in Everyone /\ thread[u].owner = Nil /\ ~Live(u) /\ ~Busy(u) /\ u # t /\ u # kmain
  BY <1>2, UnusedThread, MapSwitchAssumption DEF Kernels
<1>7. \A v \in Users : thread[v].owner # p
  BY <1>4, NoMember
<1>8. /\ proc' \in [Procs -> ProcRecord] /\ proc'[p].map = m
      /\ proc'[p].status = "alive" /\ proc'[p].count = 1
      /\ \A q \in Procs : q # p => proc'[q] = proc[q]
  BY <1>4, <1>5, ForksProps DEF SwitchInv, SwitchTyped
<1>9. NewRecord(p, "ready") \in ThreadRecord
  BY NewRecordProps
<1>10. /\ thread' \in [Everyone -> ThreadRecord] /\ thread'[u] = NewRecord(p, "ready")
       /\ \A v \in Everyone : v # u => thread'[v] = thread[v]
  BY <1>4, <1>6, <1>9 DEF SwitchInv, SwitchTyped
<1>11. ThreadState(u)' /\ thread'[u].status = "ready" /\ thread'[u].owner = p /\ ~Busy(u)'
  BY <1>6, <1>10, NewThreadState
<1>12. ASSUME NEW v \in Users, v # u
       PROVE  /\ v \in Everyone /\ thread'[v] = thread[v] /\ (Busy(v)' <=> Busy(v)) /\ Private(v)' = Private(v)
              /\ thread'[v].owner = thread[v].owner /\ thread'[v].status = thread[v].status
  BY <1>10, <1>12, UserSame DEF Everyone
<1>13. ASSUME NEW v \in Everyone, v # u, Live(v) PROVE Home(v)' = Home(v)
  <2>1. CASE v \in Users
    <3>1. thread[v].owner \in Procs /\ thread[v].owner # p /\ thread'[v].owner = thread[v].owner
      BY <1>7, <1>12, <1>13, <2>1, SwitchFacts
    <3>2. proc'[thread[v].owner] = proc[thread[v].owner]
      BY <1>8, <3>1
    <3> QED BY <3>1, <3>2 DEF Home
  <2>2. CASE v \notin Users
    BY <2>2 DEF Home
  <2> QED BY <2>1, <2>2
<1>14. thread'[t] = thread[t] /\ Home(t)' = Home(t)
  BY <1>2, <1>6, <1>10, <1>13
<1>15. ThreadState(t)' /\ \A k \in Spaces : k = cpu[c].current_map /\ Uses(t, k) => Uses(t, k)'
  BY <1>2, <1>14, ThreadSame
<1>16. Stands(t, c)'
  BY <1>1, <1>2, <1>14, StandsSame
<1>17. Alone'
  <2>1. ASSUME NEW v \in Users, NEW w \in Users, Busy(v)', w # v, thread'[w].owner = thread'[v].owner
        PROVE  thread'[w].status = "new"
    <3>1. v # u /\ Busy(v) /\ thread'[v].owner = thread[v].owner
      BY <1>11, <1>12, <2>1
    <3>2. w # u
      BY <1>7, <1>11, <2>1, <3>1
    <3> QED BY <1>12, <2>1, <3>1, <3>2 DEF SwitchInv, Alone
  <2> QED BY <2>1 DEF Alone
<1>18. OwnMaps'
  <2>1. \A q, r \in Procs : q # r /\ proc'[q].map # Nil => proc'[q].map # proc'[r].map
    BY <1>5, <1>8 DEF SwitchInv, OwnMaps
  <2>2. \A q \in Procs : proc'[q].map \notin freed'
    BY <1>1, <1>5, <1>8 DEF SwitchInv, OwnMaps
  <2>3. ASSUME NEW v \in Users, Busy(v)'
        PROVE  /\ Private(v)' \notin freed' /\ \A q \in Procs : proc'[q].map # Private(v)'
               /\ \A w \in Users : Busy(w)' /\ w # v => Private(w)' # Private(v)'
    <3>1. v # u /\ Busy(v) /\ Private(v)' = Private(v) /\ Private(v) # m
      BY <1>5, <1>11, <1>12, <2>3
    <3>2. Private(v) \notin freed /\ \A q \in Procs : proc'[q].map # Private(v)
      BY <1>8, <3>1 DEF SwitchInv, OwnMaps
    <3>3. ASSUME NEW w \in Users, Busy(w)', w # v PROVE Private(w)' # Private(v)'
      <4>1. w # u /\ Busy(w) /\ Private(w)' = Private(w)
        BY <1>11, <1>12, <3>3
      <4> QED BY <3>1, <3>3, <4>1 DEF SwitchInv, OwnMaps
    <3> QED BY <1>1, <3>1, <3>2, <3>3
  <2> QED BY <2>1, <2>2, <2>3 DEF OwnMaps
<1>19. ASSUME NEW q \in Procs PROVE ProcState(q)'
  <2>1. ProcState(q)
    BY DEF SwitchInv
  <2>2. CASE q = p
    <3>1. Cardinality({v \in Users : thread'[v].owner = p}) = Cardinality({v \in Users : thread[v].owner = p}) + 1
      BY <1>6, <1>7, <1>11, <1>12, CountMore
    <3>2. Cardinality({v \in Users : thread'[v].owner = p}) = 1
      BY <1>4, <3>1, NoMember
    <3>3. m # Nil
      BY <1>5, MapSwitchAssumption
    <3> QED BY <1>8, <2>2, <3>2, <3>3 DEF ProcState
  <2>3. CASE q # p
    <3>1. {v \in Users : thread'[v].owner = q} = {v \in Users : thread[v].owner = q}
      BY <1>6, <1>11, <1>12, <2>3, MapSwitchAssumption
    <3> QED BY <1>8, <2>1, <2>3, <3>1 DEF ProcState
  <2> QED BY <2>2, <2>3
<1>20. ~Booting' /\ BootState'
  BY <1>2, <1>6, <1>10 DEF Booting, BootState
<1>21. \A v \in Everyone : v # t =>
         \/ thread'[v] = thread[v] /\ (Live(v) => Home(v)' = Home(v))
         \/ ~Live(v) /\ thread'[v].status # "on" /\ ThreadState(v)'
  BY <1>6, <1>10, <1>11, <1>13
<1>22. freed' \in SUBSET Maps /\ thread'[t].status = "on" /\ thread'[t].cpu = c
  BY <1>1, <1>2, <1>14 DEF SwitchInv, SwitchTyped
<1> QED BY <1>1, <1>2, <1>3, <1>8, <1>10, <1>15, <1>16, <1>17, <1>18, <1>19, <1>20, <1>21, <1>22, QuietStep, Zenon

GoneThread == [NoThread EXCEPT !.status = "gone"]
LEMMA GoneThreadProps ==
  /\ GoneThread \in ThreadRecord /\ GoneThread.status = "gone" /\ GoneThread.owner = Nil
  /\ GoneThread.pc = "none" /\ GoneThread.ctx = Nil /\ GoneThread.step = "none" /\ GoneThread.cpu = Nil
  /\ GoneThread.target = Nil /\ GoneThread.old = Nil /\ GoneThread.orig = Nil /\ GoneThread.made = Nil
<1>1. Nil \in SpaceOrNone /\ "none" \in Places
  BY DEF SpaceOrNone, Places
<1> QED BY <1>1 DEF GoneThread, NoThread, ThreadRecord

Reaps(f, p, last) == [f EXCEPT ![p].count = @ - 1, ![p].status = IF last THEN "zombie" ELSE @]
LEMMA ReapsProps ==
  ASSUME NEW f \in [Procs -> ProcRecord], NEW p \in Procs, f[p].count # 0, NEW last \in BOOLEAN
  PROVE  /\ Reaps(f, p, last) \in [Procs -> ProcRecord] /\ Reaps(f, p, last)[p].map = f[p].map
         /\ Reaps(f, p, last)[p].count = f[p].count - 1
         /\ Reaps(f, p, last)[p].status = (IF last THEN "zombie" ELSE f[p].status)
         /\ \A q \in Procs : q # p => Reaps(f, p, last)[q] = f[q]
<1>1. PICK r : r = [f[p] EXCEPT !.count = f[p].count - 1, !.status = IF last THEN "zombie" ELSE f[p].status]
  OBVIOUS
<1>2. f[p] \in ProcRecord /\ f[p].count - 1 \in Nat
  <2>1. f[p] \in ProcRecord
    OBVIOUS
  <2>2. f[p].count \in Nat
    BY <2>1 DEF ProcRecord
  <2> QED BY <2>1, <2>2
<1>3. /\ r \in ProcRecord /\ r.map = f[p].map /\ r.count = f[p].count - 1
      /\ r.status = IF last THEN "zombie" ELSE f[p].status
  BY <1>1, <1>2 DEF ProcRecord
<1>4. Reaps(f, p, last) = [f EXCEPT ![p] = r]
  BY <1>1 DEF Reaps
<1>5. Reaps(f, p, last)[p] = r /\ Reaps(f, p, last) \in [Procs -> ProcRecord]
      /\ \A q \in Procs : q # p => Reaps(f, p, last)[q] = f[q]
  BY <1>3, <1>4
<1> QED BY <1>3, <1>5

LEMMA CountLess ==
  ASSUME SwitchInv, NEW u \in Users, NEW o \in Procs, thread[u].owner = o, thread'[u].owner # o,
         \A v \in Users : v # u => thread'[v].owner = thread[v].owner
  PROVE  /\ Cardinality({v \in Users : thread'[v].owner = o}) =
              Cardinality({v \in Users : thread[v].owner = o}) - 1
         /\ Cardinality({v \in Users : thread'[v].owner = o}) \in Nat
<1>1. PICK A : A = {v \in Users : thread[v].owner = o}
  OBVIOUS
<1>2. PICK B : B = {v \in Users : thread'[v].owner = o}
  OBVIOUS
<1>3. A \in SUBSET Users /\ B \in SUBSET Users /\ u \in A /\ u \notin B /\ \A v \in Users : v # u => (v \in A <=> v \in B)
  BY <1>1, <1>2
<1>4. Cardinality(B) = Cardinality(A) - 1 /\ Cardinality(A) \in Nat /\ Cardinality(B) \in Nat
  BY <1>3, CountStep, MapSwitchAssumption
<1> QED BY <1>1, <1>2, <1>4

\* A thread that is gone remembers nothing.
LEMMA GoneState ==
  ASSUME NEW t \in Everyone, t # reaper, thread'[t] = GoneThread
  PROVE  ThreadState(t)' /\ ~Busy(t)' /\ ~Live(t)' /\ thread'[t].owner = Nil /\ thread'[t].status = "gone"
<1>1. /\ thread'[t].status = "gone" /\ thread'[t].owner = Nil
      /\ thread'[t].pc = "none" /\ thread'[t].ctx = Nil /\ thread'[t].step = "none" /\ thread'[t].cpu = Nil
      /\ thread'[t].target = Nil /\ thread'[t].old = Nil /\ thread'[t].orig = Nil /\ thread'[t].made = Nil
  BY GoneThreadProps
<1>2. ~Live(t)' /\ ~Making(t)' /\ ~Leaving(t)' /\ ~Busy(t)' /\ Plain(t)'
  BY <1>1 DEF Live, Making, Leaving, Busy, Plain
<1>3. Remembers(t)'
  BY <1>1, <1>2 DEF Remembers
<1> QED BY <1>1, <1>2, <1>3 DEF ThreadState

\* The reaper frees a thread that exited, and with the last one its process.
LEMMA DestroyInv ==
  ASSUME SwitchInv, NEW c \in Cpus, thread[reaper].cpu = c, NEW t \in Everyone, kthread_destroy(t)
  PROVE  SwitchInv'
<1>1. On(reaper) /\ thread[reaper].pc = "reap" /\ thread[t].status = "terminating"
  BY DEF kthread_destroy, At
<1>2. /\ reaper \in Everyone /\ reaper \notin Users /\ reaper # kmain /\ cpu[c].thread = reaper
      /\ thread[reaper].status = "on" /\ Live(reaper) /\ ThreadState(reaper) /\ t # reaper
      /\ ThreadState(t) /\ ~Live(t) /\ kmain \in Everyone
  <2>1. reaper \in Everyone /\ reaper \notin Users /\ reaper # kmain /\ kmain \in Everyone
    BY MapSwitchAssumption DEF Everyone, Kernels, reaper, kmain
  <2>2. t # reaper /\ ~Live(t)
    BY <1>1, <2>1, SwitchFacts DEF Live
  <2> QED BY <1>1, <2>1, <2>2, SwitchFacts
<1>3. thread[reaper].step = "none"
  BY <1>1, <1>2 DEF ThreadState, Remembers, Plain
<1>4. CASE t \in Users /\ proc[Owner(t)].count = 1 /\ Owner(t) = Init1
  BY <1>4, StopInv DEF kthread_destroy
<1>5. CASE ~(t \in Users /\ proc[Owner(t)].count = 1 /\ Owner(t) = Init1)
  <2>1. PICK last \in BOOLEAN : last = (t \in Users /\ proc[Owner(t)].count = 1)
    OBVIOUS
  <2>2. /\ thread' = [thread EXCEPT ![t] = GoneThread]
        /\ proc' = IF t = kmain THEN proc ELSE Reaps(proc, Owner(t), last)
        /\ cpu' = cpu /\ mapped_on' = mapped_on /\ freed' = freed /\ stopped' = stopped
    BY <1>5, <2>1 DEF kthread_destroy, Reaps, GoneThread
  <2>3. /\ thread' \in [Everyone -> ThreadRecord] /\ thread'[t] = GoneThread
        /\ \A v \in Everyone : v # t => thread'[v] = thread[v]
    BY <2>2, GoneThreadProps DEF SwitchInv, SwitchTyped
  <2>4. ThreadState(t)' /\ ~Busy(t)' /\ ~Live(t)' /\ thread'[t].owner = Nil /\ thread'[t].status = "gone"
    BY <1>2, <2>3, GoneState
  <2>5. /\ proc' \in [Procs -> ProcRecord] /\ \A q \in Procs : proc'[q].map = proc[q].map
        /\ \A q \in Procs : ProcState(q)'
    <3>1. CASE t = kmain
      <4>1. \A v \in Users : thread'[v].owner = thread[v].owner
        BY <2>3, <3>1, MapSwitchAssumption DEF Everyone, Kernels
      <4>2. proc' = proc
        BY <2>2, <3>1
      <4>3. \A q \in Procs : ProcState(q)'
        BY <4>1, <4>2, CountSame DEF SwitchInv
      <4> QED BY <4>2, <4>3 DEF SwitchInv, SwitchTyped
    <3>2. CASE t \in Users
      <4>1. thread[t].owner # Nil /\ thread[t] \in ThreadRecord /\ t # kmain /\ Owner(t) = thread[t].owner
        BY <1>1, <1>2, <3>2, SwitchFacts, MapSwitchAssumption DEF ThreadState, Kernels, Owner
      <4>2. PICK p \in Procs : p = thread[t].owner
        BY <4>1 DEF ThreadRecord
      <4>3. \A v \in Users : v # t => thread'[v].owner = thread[v].owner
        BY <2>3 DEF Everyone
      <4>4. p # Nil /\ proc \in [Procs -> ProcRecord]
        BY MapSwitchAssumption DEF SwitchInv, SwitchTyped
      <4>5. /\ Cardinality({v \in Users : thread'[v].owner = p}) = proc[p].count - 1
            /\ proc[p].count - 1 \in Nat /\ proc[p].status = "alive" /\ proc[p].count # 0
        <5>1. thread'[t].owner # p
          BY <2>4, <4>4
        <5>2. /\ Cardinality({v \in Users : thread'[v].owner = p}) = Cardinality({v \in Users : thread[v].owner = p}) - 1
              /\ Cardinality({v \in Users : thread'[v].owner = p}) \in Nat
          BY <3>2, <4>2, <4>3, <5>1, CountLess
        <5>3. ProcState(p) /\ proc[p] \in ProcRecord
          BY <4>4 DEF SwitchInv
        <5>4. proc[p].count \in Nat
          BY <5>3 DEF ProcRecord
        <5>5. proc[p].count # 0
          BY <5>2, <5>3, <5>4 DEF ProcState
        <5> QED BY <5>2, <5>3, <5>5 DEF ProcState
      <4>6. proc' = Reaps(proc, p, last)
        BY <2>2, <4>1, <4>2
      <4>7. /\ proc' \in [Procs -> ProcRecord] /\ proc'[p].map = proc[p].map /\ proc'[p].count = proc[p].count - 1
            /\ proc'[p].status = (IF last THEN "zombie" ELSE proc[p].status)
            /\ \A q \in Procs : q # p => proc'[q] = proc[q]
        BY <4>4, <4>5, <4>6, ReapsProps
      <4>8. ASSUME NEW q \in Procs PROVE ProcState(q)'
        <5>1. ProcState(q)
          BY DEF SwitchInv
        <5>2. CASE q = p
          <6>1. proc'[p].status \in {"alive", "zombie"} /\ (proc'[p].status # "alive" => proc[p].count = 1)
            BY <2>1, <3>2, <4>1, <4>2, <4>5, <4>7
          <6>2. proc[p].map # Nil
            BY <4>5, <5>1, <5>2 DEF ProcState
          <6>3. proc'[p].status # "alive" => proc'[p].count = 0
            BY <4>7, <6>1
          <6> QED BY <4>5, <4>7, <5>2, <6>1, <6>2, <6>3 DEF ProcState
        <5>3. CASE q # p
          <6>1. {v \in Users : thread'[v].owner = q} = {v \in Users : thread[v].owner = q}
            <7>1. thread'[t].owner # q /\ thread[t].owner # q
              BY <2>4, <4>2, <5>3, MapSwitchAssumption
            <7> QED BY <4>3, <7>1
          <6> QED BY <4>7, <5>1, <5>3, <6>1 DEF ProcState
        <5> QED BY <5>2, <5>3
      <4> QED BY <4>7, <4>8
    <3> QED BY <1>2, <3>1, <3>2 DEF Everyone, Kernels
  <2>6. ASSUME NEW v \in Users, v # t
        PROVE  /\ v \in Everyone /\ thread'[v] = thread[v] /\ (Busy(v)' <=> Busy(v)) /\ Private(v)' = Private(v)
               /\ thread'[v].owner = thread[v].owner /\ thread'[v].status = thread[v].status
    BY <2>3, <2>6, UserSame DEF Everyone
  <2>7. ASSUME NEW v \in Everyone, v # t, Live(v) PROVE Home(v)' = Home(v)
    <3>1. CASE v \in Users
      <4>1. thread[v].owner \in Procs /\ thread'[v].owner = thread[v].owner
        BY <2>6, <2>7, <3>1, SwitchFacts
      <4> QED BY <2>5, <4>1 DEF Home
    <3>2. CASE v \notin Users
      BY <3>2 DEF Home
    <3> QED BY <3>1, <3>2
  <2>8. Alone'
    <3>1. ASSUME NEW v \in Users, NEW w \in Users, Busy(v)', w # v, thread'[w].owner = thread'[v].owner
          PROVE  thread'[w].status = "new"
      <4>1. v # t /\ Busy(v) /\ thread'[v].owner = thread[v].owner
        BY <2>4, <2>6, <3>1
      <4>2. thread[v].owner # Nil
        <5>1. ThreadState(v)
          BY <4>1, <2>6, SwitchFacts
        <5>2. Live(v)
          BY <4>1, <5>1 DEF ThreadState, Busy, Making, Leaving
        <5> QED BY <5>1, <5>2 DEF ThreadState, Live
      <4>3. w # t
        BY <2>4, <3>1, <4>1, <4>2
      <4> QED BY <2>6, <3>1, <4>1, <4>3 DEF SwitchInv, Alone
    <3> QED BY <3>1 DEF Alone
  <2>9. OwnMaps'
    BY <2>2, <2>4, <2>5, <2>6 DEF SwitchInv, OwnMaps
  <2>10. ~Booting' /\ BootState'
    <3>1. thread[kmain].pc \notin {"boot", "enter", "load", "leave", "launched"} \/ t = kmain
      <4>1. CASE Booting /\ t \in Users
        BY <1>1, <4>1 DEF SwitchInv, BootState
      <4>2. CASE ~Booting
        BY <4>2 DEF Booting
      <4> QED BY <1>2, <4>1, <4>2 DEF Everyone, Kernels
    <3>2. ~Booting'
      BY <1>2, <2>3, <3>1, GoneThreadProps DEF Booting
    <3> QED BY <3>2 DEF BootState
  <2>11. thread'[reaper] = thread[reaper] /\ Home(reaper)' = Home(reaper)
    BY <1>2, <2>3 DEF Home
  <2>12. ThreadState(reaper)' /\ \A k \in Spaces : k = cpu[c].current_map /\ Uses(reaper, k) => Uses(reaper, k)'
    BY <1>2, <2>11, ThreadSame
  <2>13. \A v \in Everyone : v # reaper =>
           \/ thread'[v] = thread[v] /\ (Live(v) => Home(v)' = Home(v))
           \/ ~Live(v) /\ thread'[v].status # "on" /\ ThreadState(v)'
    BY <1>2, <2>3, <2>4, <2>7
  <2>14. freed' \in SUBSET Maps /\ thread'[reaper].status = "on" /\ thread'[reaper].cpu = c
    BY <1>2, <2>2, <2>11 DEF SwitchInv, SwitchTyped
  <2>15. reaper \in Users => Stands(reaper, c)'
    BY <1>2
  <2> QED BY <1>2, <1>3, <2>2, <2>3, <2>5, <2>8, <2>9, <2>10, <2>12, <2>13, <2>14, <2>15, QuietStep, Zenon
<1> QED BY <1>4, <1>5

Buries(f, p) == [f EXCEPT ![p].status = "gone", ![p].map = Nil]
LEMMA BuriesProps ==
  ASSUME NEW f \in [Procs -> ProcRecord], NEW p \in Procs
  PROVE  /\ Buries(f, p) \in [Procs -> ProcRecord] /\ Buries(f, p)[p].map = Nil
         /\ Buries(f, p)[p].count = f[p].count /\ Buries(f, p)[p].status = "gone"
         /\ \A q \in Procs : q # p => Buries(f, p)[q] = f[q]
<1>1. PICK r : r = [f[p] EXCEPT !.status = "gone", !.map = Nil]
  OBVIOUS
<1>2. r \in ProcRecord /\ r.map = Nil /\ r.count = f[p].count /\ r.status = "gone"
  BY <1>1 DEF ProcRecord
<1>3. Buries(f, p) = [f EXCEPT ![p] = r]
  BY <1>1 DEF Buries
<1>4. Buries(f, p)[p] = r /\ Buries(f, p) \in [Procs -> ProcRecord]
      /\ \A q \in Procs : q # p => Buries(f, p)[q] = f[q]
  BY <1>2, <1>3
<1> QED BY <1>2, <1>4

\* Init takes the map of a process that has no threads left.
LEMMA BuryInv ==
  ASSUME SwitchInv, NEW t \in Everyone, NEW c \in Cpus, thread[t].cpu = c, NEW p \in Procs, process_destroy(t, p)
  PROVE  SwitchInv'
<1>1. t \in Users /\ On(t) /\ thread[t].pc = "user" /\ p # Init1 /\ proc[p].status = "zombie"
  BY DEF process_destroy, InUser, At
<1>2. /\ t # kmain /\ kmain \in Everyone /\ cpu[c].thread = t
      /\ thread[t].status = "on" /\ Live(t) /\ ThreadState(t) /\ Stands(t, c)
      /\ thread[t].owner \in Procs /\ ~Booting
  BY <1>1, UserFacts
<1>3. thread[t].step = "none"
  BY <1>1, <1>2 DEF ThreadState, Remembers, Plain
<1>4. proc[p].count = 0 /\ \A v \in Users : thread[v].owner # p
  BY <1>1, NoMember
<1>5. proc \in [Procs -> ProcRecord] /\ proc[p].map \in Maps /\ proc[p].map # Nil
  <2>1. proc[p].map # Nil /\ proc[p] \in ProcRecord /\ proc \in [Procs -> ProcRecord]
    BY <1>1 DEF SwitchInv, SwitchTyped, ProcState
  <2> QED BY <2>1 DEF ProcRecord
<1>6. PICK P \in Maps : P = proc[p].map
  BY <1>5
<1>7. ASSUME NEW u \in Everyone PROVE ~Uses(u, P)
  <2>1. CASE u \in Users
    <3>1. Live(u) => Home(u) # P
      <4>1. Live(u) => thread[u].owner \in Procs /\ thread[u].owner # p
        BY <1>4, <2>1, SwitchFacts
      <4> QED BY <1>5, <1>6, <2>1, <4>1 DEF SwitchInv, OwnMaps, Home
    <3>2. Busy(u) => Private(u) # P
      BY <1>6, <2>1 DEF SwitchInv, OwnMaps
    <3> QED BY <3>1, <3>2 DEF Uses
  <2>2. CASE u \in Kernels
    <3>1. u \notin Users /\ ThreadState(u)
      BY <2>2, SwitchFacts, MapSwitchAssumption
    <3>2. ~Leaving(u)
      BY <3>1 DEF ThreadState
    <3>3. Making(u) => u = kmain /\ Booting
      BY <2>2, <3>1 DEF ThreadState, Kernels, Making, Booting
    <3> QED BY <1>2, <3>1, <3>2, <3>3 DEF Uses, Busy
  <2> QED BY <2>1, <2>2 DEF Everyone
<1>8. mapped_on[P] = {}
  BY <1>2, <1>7, NobodyUses
<1>9. /\ freed' = freed \cup {P} /\ proc' = Buries(proc, p)
      /\ cpu' = cpu /\ thread' = thread /\ mapped_on' = mapped_on /\ stopped' = stopped
  BY <1>6, <1>8 DEF process_destroy, Buries
<1>10. /\ proc' \in [Procs -> ProcRecord] /\ proc'[p].map = Nil /\ proc'[p].count = 0 /\ proc'[p].status = "gone"
       /\ \A q \in Procs : q # p => proc'[q] = proc[q]
  BY <1>4, <1>5, <1>9, BuriesProps
<1>11. \A v \in Everyone : Live(v) => Home(v)' = Home(v)
  <2>1. ASSUME NEW v \in Users, Live(v) PROVE Home(v)' = Home(v)
    <3>1. thread[v].owner \in Procs /\ thread[v].owner # p
      BY <1>4, <2>1, SwitchFacts
    <3> QED BY <1>9, <1>10, <3>1 DEF Home
  <2> QED BY <2>1 DEF Home
<1>12. \A v \in Everyone : thread'[v] = thread[v] /\ (Busy(v)' <=> Busy(v)) /\ Private(v)' = Private(v)
  BY <1>9, <1>11, ThreadSame
<1>13. ThreadState(t)' /\ \A k \in Spaces : k = cpu[c].current_map /\ Uses(t, k) => Uses(t, k)'
  BY <1>2, <1>11, <1>12, ThreadSame
<1>14. Stands(t, c)'
  BY <1>2, <1>9, <1>11, <1>12, StandsSame
<1>15. \A v \in Users : v \in Everyone
  BY DEF Everyone
<1>16. Alone'
  BY <1>9, <1>12, <1>15 DEF SwitchInv, Alone
<1>17. OwnMaps'
  <2>1. Nil \notin freed' /\ Nil \notin Maps
    BY <1>9, MapSwitchAssumption DEF SwitchInv, SwitchTyped
  <2>2. \A q, r \in Procs : q # r /\ proc'[q].map # Nil => proc'[q].map # proc'[r].map
    BY <1>10 DEF SwitchInv, OwnMaps
  <2>3. \A q \in Procs : proc'[q].map \notin freed'
    BY <1>5, <1>6, <1>9, <1>10, <2>1 DEF SwitchInv, OwnMaps
  <2>4. ASSUME NEW v \in Users, Busy(v)'
        PROVE  /\ Private(v)' \notin freed' /\ \A q \in Procs : proc'[q].map # Private(v)'
               /\ \A w \in Users : Busy(w)' /\ w # v => Private(w)' # Private(v)'
    <3>1. v \in Everyone /\ Busy(v) /\ Private(v)' = Private(v) /\ thread'[v] = thread[v]
      BY <1>12, <1>15, <2>4
    <3>2. Private(v) \notin freed /\ \A q \in Procs : proc[q].map # Private(v)
      BY <3>1 DEF SwitchInv, OwnMaps
    <3>3. Private(v) # Nil
      <4>1. ThreadState(v)
        BY <3>1, SwitchFacts
      <4> QED BY <2>1, <3>1, <4>1 DEF ThreadState, Busy, Private
    <3>4. \A w \in Users : Busy(w)' /\ w # v => Private(w)' # Private(v)'
      BY <1>12, <1>15, <3>1 DEF SwitchInv, OwnMaps
    <3> QED BY <1>6, <1>9, <1>10, <3>1, <3>2, <3>3, <3>4
  <2> QED BY <2>2, <2>3, <2>4 DEF OwnMaps
<1>18. ASSUME NEW q \in Procs PROVE ProcState(q)'
  <2>1. ProcState(q)
    BY DEF SwitchInv
  <2>2. CASE q = p
    BY <1>4, <1>9, <1>10, <2>1, <2>2 DEF ProcState
  <2>3. CASE q # p
    BY <1>9, <1>10, <2>1, <2>3, CountSame
  <2> QED BY <2>2, <2>3
<1>19. ~Booting' /\ BootState'
  BY <1>2, <1>9 DEF Booting, BootState
<1>20. freed' \in SUBSET Maps /\ thread' \in [Everyone -> ThreadRecord]
  BY <1>9 DEF SwitchInv, SwitchTyped
<1> QED BY <1>2, <1>3, <1>9, <1>10, <1>11, <1>12, <1>13, <1>14, <1>16, <1>17, <1>18, <1>19, <1>20, QuietStep, Zenon

LEMMA SwitchInvInit == MapSwitchInit => SwitchInv
<1> SUFFICES ASSUME MapSwitchInit PROVE SwitchInv
  OBVIOUS
<1>1. /\ kmain \in Everyone /\ reaper \in Everyone /\ kmain \notin Users /\ reaper \notin Users /\ kmain # reaper
      /\ Idle \notin Everyone /\ Everyone = Users \cup {kmain, reaper}
  BY MapSwitchAssumption DEF Everyone, Kernels, kmain, reaper, Idle
<1>2. /\ NoThread \in ThreadRecord /\ NoThread.owner = Nil /\ NoThread.ctx = Nil /\ NoThread.status = "none"
      /\ NoThread.pc = "none" /\ NoThread.step = "none" /\ NoThread.cpu = Nil /\ NoThread.target = Nil
      /\ NoThread.old = Nil /\ NoThread.orig = Nil /\ NoThread.made = Nil
  BY DEF NoThread, ThreadRecord, SpaceOrNone, Places
<1>3. ASSUME NEW s \in {"boot", "reap"}, NEW r, r = [NoThread EXCEPT !.status = "ready", !.pc = s]
      PROVE  /\ r \in ThreadRecord /\ r.owner = Nil /\ r.ctx = Nil /\ r.status = "ready"
             /\ r.pc = s /\ r.step = "none" /\ r.cpu = Nil /\ r.target = Nil
             /\ r.old = Nil /\ r.orig = Nil /\ r.made = Nil
  BY <1>3 DEF NoThread, ThreadRecord, SpaceOrNone, Places
<1>4. /\ thread[kmain] = [NoThread EXCEPT !.status = "ready", !.pc = "boot"]
      /\ thread[reaper] = [NoThread EXCEPT !.status = "ready", !.pc = "reap"]
      /\ \A u \in Users : thread[u] = NoThread
      /\ DOMAIN thread = Everyone /\ thread = [u \in Everyone |-> thread[u]]
  BY <1>1 DEF MapSwitchInit, Everyone, Kernels
<1>5. /\ thread \in [Everyone -> ThreadRecord]
      /\ thread[kmain].pc = "boot" /\ thread[reaper].pc = "reap"
      /\ \A t \in Kernels : thread[t].status = "ready"
      /\ \A t \in Users : thread[t].status = "none" /\ thread[t].pc = "none"
      /\ \A t \in Everyone : /\ thread[t].owner = Nil /\ thread[t].ctx = Nil /\ thread[t].step = "none"
                             /\ thread[t].cpu = Nil /\ thread[t].target = Nil /\ thread[t].old = Nil
                             /\ thread[t].orig = Nil /\ thread[t].made = Nil
  <2>1. ASSUME NEW t \in Everyone
        PROVE  /\ thread[t] \in ThreadRecord
               /\ thread[t].owner = Nil /\ thread[t].ctx = Nil /\ thread[t].step = "none"
               /\ thread[t].cpu = Nil /\ thread[t].target = Nil /\ thread[t].old = Nil
               /\ thread[t].orig = Nil /\ thread[t].made = Nil
    <3>1. CASE t \in Users
      BY <1>2, <1>4, <3>1
    <3>2. CASE t = kmain
      BY <1>3, <1>4, <3>2
    <3>3. CASE t = reaper
      BY <1>3, <1>4, <3>3
    <3> QED BY <1>1, <2>1, <3>1, <3>2, <3>3
  <2>2. /\ thread[kmain].pc = "boot" /\ thread[reaper].pc = "reap"
        /\ thread[kmain].status = "ready" /\ thread[reaper].status = "ready"
    BY <1>3, <1>4
  <2>3. \A t \in Users : thread[t].status = "none" /\ thread[t].pc = "none"
    BY <1>2, <1>4
  <2> QED BY <1>4, <2>1, <2>2, <2>3 DEF Kernels
<1>6. /\ \A c \in Cpus : cpu[c].cr3 = kmap /\ cpu[c].current_map = kmap /\ cpu[c].thread = Idle
      /\ \A m \in Maps : mapped_on[m] = {}
      /\ mapped_on[kmap] = Cpus /\ freed = {} /\ stopped = "no"
      /\ \A p \in Procs : proc[p].status = "none" /\ proc[p].map = Nil /\ proc[p].count = 0
  BY MapSwitchAssumption DEF MapSwitchInit
<1>7. SwitchTyped
  <2>1. cpu \in [Cpus -> CpuRecord] /\ proc \in [Procs -> ProcRecord] /\ mapped_on \in [Spaces -> SUBSET Cpus]
    BY DEF MapSwitchInit, CpuRecord, ProcRecord, Spaces
  <2> QED BY <1>5, <1>6, <2>1 DEF SwitchTyped
<1>8. \A t \in Everyone : ~Making(t) /\ ~Leaving(t) /\ ~Busy(t) /\ Plain(t)
  <2>1. \A t \in Everyone : thread[t].pc \in {"none", "boot", "reap"}
    BY <1>1, <1>5
  <2> QED BY <1>5, <2>1 DEF Making, Leaving, Busy, Plain
<1>9. ASSUME NEW t \in Everyone PROVE ThreadState(t)
  <2>1. CASE t \in Users
    <3>1. Remembers(t) /\ ~Live(t) /\ t # kmain /\ t # reaper
      BY <1>1, <1>5, <1>8, <2>1 DEF Remembers, Live
    <3>2. thread[t] = NoThread /\ thread[t].pc = "none"
      BY <1>4, <1>5, <2>1
    <3> QED BY <1>5, <1>8, <2>1, <3>1, <3>2 DEF ThreadState
  <2>2. CASE t \in Kernels
    <3>1. Remembers(t) /\ Live(t) /\ t \notin Users
      BY <1>1, <1>5, <1>8, <2>2 DEF Remembers, Live, Kernels
    <3>2. thread[t].pc \in {"boot", "reap"} /\ (t = kmain => thread[t].pc = "boot") /\ (t = reaper => thread[t].pc = "reap")
      BY <1>5, <2>2 DEF Kernels
    <3> QED BY <1>5, <1>8, <2>2, <3>1, <3>2 DEF ThreadState
  <2> QED BY <2>1, <2>2 DEF Everyone
<1>10. Running
  <2>1. \A t \in Everyone : thread[t].status # "on"
    BY <1>5 DEF Everyone
  <2> QED BY <1>1, <1>6, <2>1 DEF Running
<1>11. ASSUME NEW p \in Procs PROVE ProcState(p)
  <2>1. {u \in Users : thread[u].owner = p} = {}
    BY <1>5, MapSwitchAssumption DEF Everyone
  <2>2. Cardinality({u \in Users : thread[u].owner = p}) = 0
    BY <2>1, FS_EmptySet
  <2> QED BY <1>6, <2>2 DEF ProcState
<1>12. Alone /\ OwnMaps
  BY <1>6, <1>8 DEF Alone, OwnMaps, Everyone
<1>13. BootState
  BY <1>5, <1>6 DEF BootState
<1>14. Standing
  <2>1. thread[kmain].cpu \notin Cpus
    BY <1>1, <1>5, MapSwitchAssumption
  <2>2. \A t \in Users, c \in Cpus : cpu[c].thread # t
    BY <1>1, <1>6
  <2> QED BY <2>1, <2>2 DEF Standing
<1>15. ASSUME NEW c \in Cpus PROVE CpuState(c)
  <2>1. \A m \in Spaces : c \in mapped_on[m] => m = kmap
    BY <1>6 DEF Spaces
  <2> QED BY <1>6, <2>1 DEF CpuState
<1> QED BY <1>6, <1>7, <1>9, <1>10, <1>11, <1>12, <1>13, <1>14, <1>15 DEF SwitchInv

LEMMA SwitchInvNext == SwitchInv /\ [MapSwitchNext]_mapSwitchVars => SwitchInv'
<1> SUFFICES ASSUME SwitchInv, [MapSwitchNext]_mapSwitchVars PROVE SwitchInv'
  OBVIOUS
<1>1. DOMAIN thread = Everyone
  BY SwitchFacts
<1>2. CASE UNCHANGED mapSwitchVars
  <2>1. stopped' # "mapped" /\ UNCHANGED <<cpu, thread, proc, mapped_on, freed>> /\ stopped' = stopped
    BY <1>2 DEF mapSwitchVars, SwitchInv
  <2>2. PICK why : why = stopped
    OBVIOUS
  <2>3. why # "mapped" /\ Stop(why)
    BY <2>1, <2>2 DEF Stop
  <2> QED BY <2>3, StopInv
<1>3. ASSUME NEW c \in Cpus, NEW t \in Everyone \cup {Idle}, Switch(c, t) \/ sched_exit_self(c, t)
      PROVE  SwitchInv'
  BY <1>3, SwitchStepInv, ExitInv
<1>4. CASE LaunchInit
  <2>1. On(kmain) /\ kmain \in Everyone
    BY <1>4 DEF LaunchInit, At, Everyone, Kernels
  <2>2. PICK c \in Cpus : thread[kmain].cpu = c
    BY <2>1, SwitchFacts
  <2> QED BY <1>4, <2>2, LaunchInitInv
<1>5. ASSUME NEW t \in Everyone,
             ReadOld(t) \/ pmap_activate(t) \/ StoreMap(t) \/ SetMasks(t) \/ Loaded(t) \/ Launched(t) \/ Adopted(t)
      PROVE  SwitchInv'
  <2>1. On(t)
    BY <1>5, Zenon DEF ReadOld, pmap_activate, StoreMap, SetMasks, AtStep, Loaded, Launched, Adopted, At
  <2>2. PICK c \in Cpus : thread[t].cpu = c
    BY <2>1, SwitchFacts
  <2> QED BY <1>5, <2>2, ReadOldInv, PmapActivateInv, StoreMapInv, SetMasksInv, LoadedInv, LaunchedInv, AdoptedInv, Zenon
<1>6. ASSUME NEW t \in Everyone, NEW p \in Procs, execve(t) \/ fork(t) \/ process_destroy(t, p)
      PROVE  SwitchInv'
  <2>1. t \in Users /\ On(t)
    BY <1>6, Zenon DEF execve, fork, process_destroy, InUser, At
  <2>2. PICK c \in Cpus : thread[t].cpu = c
    BY <2>1, SwitchFacts
  <2>3. CASE execve(t)
    BY <2>1, <2>2, <2>3, ExecveInv
  <2>4. CASE fork(t)
    BY <2>2, <2>4, ForkInv
  <2>5. CASE process_destroy(t, p)
    BY <2>2, <2>5, BuryInv
  <2> QED BY <1>6, <2>3, <2>4, <2>5, Zenon
<1>7. ASSUME NEW t \in Everyone, kthread_destroy(t)
      PROVE  SwitchInv'
  <2>1. On(reaper) /\ reaper \in Everyone
    BY <1>7 DEF kthread_destroy, At, Everyone, Kernels
  <2>2. PICK c \in Cpus : thread[reaper].cpu = c
    BY <2>1, SwitchFacts
  <2> QED BY <1>7, <2>2, DestroyInv
<1>8. Init1 \in Procs
  BY MapSwitchAssumption
<1> QED BY <1>1, <1>2, <1>3, <1>4, <1>5, <1>6, <1>7, <1>8 DEF MapSwitchNext

LEMMA SwitchInvSafe == SwitchInv => MapsAreSafe
<1> SUFFICES ASSUME SwitchInv PROVE MapsAreSafe
  OBVIOUS
<1>1. DOMAIN thread = Everyone /\ DOMAIN mapped_on = Spaces /\ stopped # "mapped"
  BY SwitchFacts DEF SwitchInv
<1>2. ASSUME NEW t \in Everyone, NEW m \in Spaces, Uses(t, m) PROVE m \notin freed
  <2>1. CASE t \in Users
    <3>1. Live(t) /\ thread[t].owner \in Procs
      BY <1>2, <2>1, SwitchFacts DEF Uses
    <3>2. m = Home(t) => m \notin freed
      BY <2>1, <3>1 DEF SwitchInv, OwnMaps, Home
    <3> QED BY <1>2, <2>1, <3>2 DEF Uses, SwitchInv, OwnMaps
  <2>2. CASE t \in Kernels
    <3>1. t \notin Users /\ ThreadState(t)
      BY <2>2, SwitchFacts, MapSwitchAssumption
    <3>2. ~Leaving(t) /\ Busy(t)
      BY <1>2, <3>1 DEF ThreadState, Uses
    <3>3. Making(t)
      BY <3>2 DEF Busy
    <3>4. t = kmain /\ Booting
      BY <2>2, <3>1, <3>3 DEF ThreadState, Kernels, Making, Booting
    <3> QED BY <3>4 DEF SwitchInv, BootState
  <2> QED BY <2>1, <2>2 DEF Everyone
<1>3. kmap \notin freed
  BY MapSwitchAssumption DEF SwitchInv, SwitchTyped
<1>4. ASSUME NEW c \in Cpus PROVE cpu[c].cr3 \notin freed /\ cpu[c].current_map \notin freed
  <2>1. cpu[c].cr3 \in Spaces /\ cpu[c].current_map \in Spaces /\ CpuState(c)
    BY SwitchFacts DEF CpuRecord
  <2>2. cpu[c].current_map \notin freed
    BY <1>2, <1>3, <2>1 DEF CpuState
  <2>3. CASE cpu[c].cr3 # cpu[c].current_map
    <3>1. PICK t \in Everyone : Doing(t, c, "store") /\ thread[t].target = cpu[c].cr3
      BY <2>1, <2>3 DEF CpuState
    <3>2. thread[t].step # "none"
      BY <3>1 DEF Doing
    <3>3. Live(t) /\ Busy(t) /\ thread[t].target \in {Home(t), Private(t)}
      BY <3>2, MoverFacts
    <3>4. t \in Users => Uses(t, cpu[c].cr3)
      BY <3>1, <3>3 DEF Uses
    <3>5. t \notin Users => cpu[c].cr3 = kmap \/ Uses(t, cpu[c].cr3)
      BY <3>1, <3>3 DEF Uses, Home
    <3> QED BY <1>2, <1>3, <2>1, <2>2, <3>4, <3>5
  <2> QED BY <2>2, <2>3
<1>5. ASSUME NEW c \in Cpus, Settled(c)
      PROVE  /\ cpu[c].cr3 = cpu[c].current_map
             /\ \A m \in Spaces : c \in mapped_on[m] <=> cpu[c].current_map = m
  <2>1. \A t \in Everyone : ~Doing(t, c, "store") /\ ~Doing(t, c, "mask")
    BY <1>1, <1>5 DEF Settled, Here, Doing
  <2> QED BY <2>1, SwitchFacts DEF CpuState
<1>6. ASSUME NEW t \in Everyone, On(t)
      PROVE  /\ thread[t].pc = "load" => cpu[thread[t].cpu].cr3 = thread[t].made
             /\ thread[t].pc = "user" => \/ cpu[thread[t].cpu].cr3 = proc[Owner(t)].map
                                         \/ cpu[thread[t].cpu].cr3 = kmap /\ cpu[thread[t].cpu].inherited
  <2>1. PICK c \in Cpus : thread[t].cpu = c
    BY <1>6, SwitchFacts
  <2>2. thread[t].pc = "load" => cpu[c].cr3 = thread[t].made
    BY <1>6, <2>1, LoadFacts
  <2>3. ASSUME thread[t].pc = "user"
        PROVE  cpu[c].cr3 = proc[Owner(t)].map \/ (cpu[c].cr3 = kmap /\ cpu[c].inherited)
    <3>1. ThreadState(t)
      BY SwitchFacts
    <3>2. t \in Users
      BY <2>3, <3>1 DEF ThreadState, Everyone, Kernels
    <3>3. Stands(t, c) /\ Home(t) = proc[Owner(t)].map
      BY <1>6, <2>1, <3>2, UserFacts
    <3>4. thread[t].step = "none"
      BY <2>3, <3>1 DEF ThreadState, Remembers, Plain
    <3> QED BY <2>3, <3>3, <3>4 DEF Stands
  <2> QED BY <2>1, <2>2, <2>3
<1> QED BY <1>1, <1>4, <1>5, <1>6 DEF MapsAreSafe, Here

\* No CPU is ever in an address space that was freed, none that a CPU is in is freed, a
\* thread that loads an image is in the map it makes and one in user mode in that of its
\* process, but for a thread that follows an exit of its own process on a CPU: whatever CPUs, threads and maps there are, and wherever vm_map_activate
\* is preempted.
THEOREM MapsSafe == MapSwitchSpec => []MapsAreSafe
<1>1. MapSwitchSpec => []SwitchInv
  BY SwitchInvInit, SwitchInvNext, PTL DEF MapSwitchSpec
<1> QED BY <1>1, SwitchInvSafe, PTL
=============================================================================
