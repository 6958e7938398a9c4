------------------------------ MODULE MapSwitch ------------------------------
(* Which address space a CPU is in: vm_map_activate and the temporary switches *)
(* of vm/map.c, swtch and sched_exit_self of sched.c, launch_elf, execve, fork  *)
(* and the end of processes.  A thread can be preempted between the steps of    *)
(* vm_map_activate; swtch and the exit run at IPL_DPC and are one step.  A      *)
(* thread that has run once stays on its CPU (affinity_cpu).                    *)
EXTENDS Integers, FiniteSets

CONSTANTS
  Nil,
  Cpus,
  Procs,     \* user processes; Init1 is launched by the kernel and reaps the others
  Init1,
  Users,     \* user threads, each used once
  Maps       \* user address spaces, each used once

VARIABLES
  cpu,        \* CPU -> [cr3, current_map, thread, inherited]; inherited is a history: the CPU is
              \* in the kernel's map since an exit, and the thread after it had the same owner
  thread,     \* thread -> record, for user threads, kmain and the reaper
  proc,       \* process -> [status, map, count]
  mapped_on,  \* map -> CPUs
  freed,      \* destroyed maps
  stopped     \* why the kernel stopped: an assertion or a panic

mapSwitchVars == <<cpu, thread, proc, mapped_on, freed, stopped>>

kmap == "kmap"
kmain == "kmain"
reaper == "reaper_thread"
Kernels == {kmain, reaper}
Idle == "idle"

\* The names are different, and the threads of a process can be counted.
ASSUME MapSwitchAssumption ==
  /\ Nil \notin Maps \cup Cpus \cup Procs \cup {kmap, Idle, "kproc0"} /\ kmap \notin Maps
  /\ IsFiniteSet(Users) /\ Users \cap (Kernels \cup {Idle}) = {}
  /\ Init1 \in Procs /\ "kproc0" \notin Procs

NoThread == [owner |-> Nil, ctx |-> Nil, status |-> "none", pc |-> "none", step |-> "none", cpu |-> Nil,
             target |-> Nil, old |-> Nil, orig |-> Nil, made |-> Nil]
Owner(t) == IF t \in Users THEN thread[t].owner ELSE "kproc0"
NewThread == {t \in Users : thread[t] = NoThread}
UsedMaps == {proc[p].map : p \in Procs} \cup freed \cup
            UNION {{thread[t].target, thread[t].orig, thread[t].made} : t \in Users \cup Kernels}
NewMap == Maps \ UsedMaps
\* Unused threads and maps are all alike: one of them.
OneOf(S) == {x \in S : x = CHOOSE y \in S : TRUE}

MapSwitchInit ==
  /\ cpu = [c \in Cpus |-> [cr3 |-> kmap, current_map |-> kmap, thread |-> Idle, inherited |-> FALSE]]
  /\ thread = [t \in Users \cup Kernels |->
       IF t = kmain THEN [NoThread EXCEPT !.status = "ready", !.pc = "boot"]
       ELSE IF t = reaper THEN [NoThread EXCEPT !.status = "ready", !.pc = "reap"]
       ELSE NoThread]
  /\ proc = [p \in Procs |-> [status |-> "none", map |-> Nil, count |-> 0]]
  /\ mapped_on = [m \in Maps \cup {kmap} |-> IF m = kmap THEN Cpus ELSE {}]
  /\ freed = {} /\ stopped = "no"

Stop(why) == stopped' = why /\ UNCHANGED <<cpu, thread, proc, mapped_on, freed>>

-----------------------------------------------------------------------------
\* vm_map_activate as swtch and the exit do it, without a preemption.
Activated(c, m) == [cpu EXCEPT ![c].cr3 = m, ![c].current_map = m, ![c].inherited = FALSE]
Masks(c, old, m) == [[mapped_on EXCEPT ![old] = @ \ {c}] EXCEPT ![m] = @ \cup {c}]

\* The map swtch activates for thread t after thread from; Nil: it leaves the map.
SwitchMap(from, t) ==
  IF t \in DOMAIN thread /\ thread[t].ctx # Nil THEN thread[t].ctx
  ELSE IF t \in Users /\ Owner(from) # Owner(t) THEN proc[thread[t].owner].map
  ELSE Nil

\* swtch asserts that only threads of the kernel process have a map context.
swtch(c, t, w) ==
  LET m == SwitchMap(cpu[c].thread, t)
      on == IF t \in DOMAIN w THEN [w EXCEPT ![t].status = "on", ![t].cpu = c] ELSE w
  IN /\ thread' = on
     /\ IF m = Nil THEN cpu' = [cpu EXCEPT ![c].thread = t] /\ UNCHANGED mapped_on
        ELSE /\ cpu' = [Activated(c, m) EXCEPT ![c].thread = t]
             /\ mapped_on' = Masks(c, cpu[c].current_map, m)
ContextAsserted(t) == t \in Users => thread[t].ctx = Nil

\* The reaper sleeps until there is a thread to reap.
Ready(c) == {t \in DOMAIN thread :
  /\ thread[t].status = "ready" /\ thread[t].cpu \in {c, Nil}
  /\ t = reaper => \E u \in DOMAIN thread : thread[u].status = "terminating"}

\* A thread is preempted or blocks, another one of this CPU runs.
Switch(c, t) ==
  LET from == cpu[c].thread
  IN /\ t \in Ready(c) \cup {Idle} /\ t # from /\ UNCHANGED <<proc, freed>>
     /\ IF ~ContextAsserted(t) THEN Stop("context")
        ELSE /\ swtch(c, t, IF from \in DOMAIN thread THEN [thread EXCEPT ![from].status = "ready"] ELSE thread)
             /\ UNCHANGED stopped

On(t) == thread[t].status = "on" /\ cpu[thread[t].cpu].thread = t
At(t, pc) == On(t) /\ thread[t].pc = pc
\* A user thread outside of its map faults on current_map at its first instruction,
\* and the handler kills it (isr.c:169): only sched_exit_self is enabled for it.
InUser(t) == t \in Users /\ At(t, "user") /\ cpu[thread[t].cpu].cr3 = proc[Owner(t)].map

\* The map an exit leaves the CPU in, if the next thread needs m (Nil: any).
ExitMap_Stay(c, m) == IF m = Nil THEN cpu[c].current_map ELSE m
ExitMap(c, m) == IF m = Nil THEN kmap ELSE m

\* sched_exit_self: to the kernel's map, to the reaper, and away.  swtch activates no map
\* for a user thread of the same process, which finds itself in the kernel's.
sched_exit_self(c, t) ==
  LET self == cpu[c].thread
      m == SwitchMap(self, t)
      to == ExitMap(c, m)
  IN /\ self \in DOMAIN thread /\ thread[self].pc \in {"user", "exit"}
     /\ t \in Ready(c) \cup {Idle} /\ UNCHANGED <<proc, freed>>
     /\ IF ~ContextAsserted(t) THEN Stop("context")
        ELSE /\ thread' = [u \in DOMAIN thread |->
                  IF u = self THEN [thread[u] EXCEPT !.ctx = kmap, !.status = "terminating", !.pc = "none"]
                  ELSE IF u = t THEN [thread[u] EXCEPT !.status = "on", !.cpu = c] ELSE thread[u]]
             /\ cpu' = [Activated(c, to) EXCEPT ![c].thread = t, ![c].inherited = (m = Nil /\ t \in Users)]
             /\ mapped_on' = Masks(c, cpu[c].current_map, to)
             /\ UNCHANGED stopped

-----------------------------------------------------------------------------
\* The steps of a running thread.
Here(t) == thread[t].cpu

\* vm_map_activate(target), in four steps, then on to the place After the call.
After == [enter |-> "load", leave |-> "launched", adopt |-> "adopted"]
AtStep(t, step) == On(t) /\ thread[t].step = step
ReadOld(t) ==
  /\ AtStep(t, "read")
  /\ thread' = [thread EXCEPT ![t].old = cpu[Here(t)].current_map, ![t].step = "cr3"]
  /\ UNCHANGED <<cpu, proc, mapped_on, freed, stopped>>
pmap_activate(t) ==
  /\ AtStep(t, "cr3") /\ thread' = [thread EXCEPT ![t].step = "store"]
  /\ cpu' = IF thread[t].old = thread[t].target THEN cpu ELSE [cpu EXCEPT ![Here(t)].cr3 = thread[t].target]
  /\ UNCHANGED <<proc, mapped_on, freed, stopped>>
StoreMap(t) ==
  /\ AtStep(t, "store") /\ thread' = [thread EXCEPT ![t].step = "mask"]
  /\ cpu' = [cpu EXCEPT ![Here(t)].current_map = thread[t].target]
  /\ UNCHANGED <<proc, mapped_on, freed, stopped>>
SetMasks(t) ==
  /\ AtStep(t, "mask")
  /\ mapped_on' = Masks(Here(t), thread[t].old, thread[t].target)
  /\ thread' = [thread EXCEPT ![t].target = Nil, ![t].old = Nil, ![t].step = "none", ![t].pc = After[@]]
  /\ UNCHANGED <<cpu, proc, freed, stopped>>

\* execve, and the kernel thread that launches init, call launch_elf for a new map.
execve(t) ==
  /\ InUser(t)
  /\ IF proc[Owner(t)].count # 1 THEN Stop("count")
     ELSE \E m \in OneOf(NewMap) :
       /\ NewThread # {}
       /\ thread' = [thread EXCEPT ![t].made = m, ![t].orig = cpu[Here(t)].current_map, ![t].ctx = m,
                                   ![t].target = m, ![t].pc = "enter", ![t].step = "read"]
       /\ UNCHANGED <<cpu, proc, mapped_on, freed, stopped>>
LaunchInit ==
  /\ At(kmain, "boot")
  /\ \E m \in OneOf(NewMap) :
       /\ proc' = [proc EXCEPT ![Init1] = [status |-> "alive", map |-> m, count |-> 0]]
       /\ thread' = [thread EXCEPT ![kmain].made = m, ![kmain].orig = cpu[Here(kmain)].current_map,
                        ![kmain].ctx = m, ![kmain].target = m, ![kmain].pc = "enter", ![kmain].step = "read"]
  /\ UNCHANGED <<cpu, mapped_on, freed, stopped>>

For(t) == IF t = kmain THEN Init1 ELSE Owner(t)
\* The image is loaded, with a new thread for the process, or it cannot be; either
\* way the thread goes back to the map it came from.
Loaded(t) ==
  /\ At(t, "load") /\ UNCHANGED <<cpu, mapped_on, freed, stopped>>
  /\ \/ \E u \in OneOf(NewThread) :
          /\ proc' = [proc EXCEPT ![For(t)].count = @ + 1]
          /\ thread' = [thread EXCEPT ![t].ctx = Nil, ![t].target = thread[t].orig, ![t].pc = "leave", ![t].step = "read",
                          ![u] = [NoThread EXCEPT !.owner = For(t), !.status = "new", !.pc = "user"]]
     \/ /\ t # kmain /\ UNCHANGED proc
        /\ thread' = [thread EXCEPT ![t].ctx = Nil, ![t].target = thread[t].orig, ![t].pc = "leave", ![t].step = "read",
                        ![t].orig = Nil]
NewOf(p) == {u \in Users : thread[u].status = "new" /\ thread[u].owner = p}
SetReady(t, u, pc) == [thread EXCEPT ![t].pc = pc, ![t].orig = Nil, ![t].made = Nil, ![u].status = "ready"]

\* pmap_destroy panics when a CPU has the map.
vm_map_destroy(t, m, w) ==
  IF mapped_on[m] # {} THEN Stop("mapped")
  ELSE /\ thread' = w /\ freed' = freed \cup {m} /\ UNCHANGED <<cpu, proc, mapped_on, stopped>>

Launched(t) ==
  /\ At(t, "launched")
  /\ \/ /\ thread[t].orig = Nil     \* execve fails
        /\ vm_map_destroy(t, thread[t].made, [thread EXCEPT ![t].pc = "user", ![t].made = Nil])
     \/ /\ thread[t].orig # Nil /\ t = kmain
        /\ \E u \in NewOf(Init1) : thread' = SetReady(t, u, "exit")
        /\ UNCHANGED <<cpu, proc, mapped_on, freed, stopped>>
     \/ /\ thread[t].orig # Nil /\ t # kmain
        /\ proc' = [proc EXCEPT ![Owner(t)].map = thread[t].made]
        /\ thread' = [thread EXCEPT ![t].orig = proc[Owner(t)].map, ![t].target = thread[t].made, ![t].pc = "adopt", ![t].step = "read"]
        /\ UNCHANGED <<cpu, mapped_on, freed, stopped>>
\* execve has its new map: the old one goes, the new thread may run, this one exits.
Adopted(t) ==
  /\ At(t, "adopted")
  /\ \E u \in NewOf(Owner(t)) : vm_map_destroy(t, thread[t].orig, SetReady(t, u, "exit"))

\* fork, exit of the last thread, and waitpid of init.
fork(t) ==
  /\ InUser(t)
  /\ \E p \in {q \in Procs : proc[q].status = "none"}, m \in OneOf(NewMap), u \in OneOf(NewThread) :
       /\ proc' = [proc EXCEPT ![p] = [status |-> "alive", map |-> m, count |-> 1]]
       /\ thread' = [thread EXCEPT ![u] = [NoThread EXCEPT !.owner = p, !.status = "ready", !.pc = "user"]]
  /\ UNCHANGED <<cpu, mapped_on, freed, stopped>>
kthread_destroy(t) ==
  /\ At(reaper, "reap") /\ thread[t].status = "terminating"
  /\ LET p == Owner(t)
         last == t \in Users /\ proc[p].count = 1
     IN IF last /\ p = Init1 THEN Stop("init")
        ELSE /\ thread' = [thread EXCEPT ![t] = [NoThread EXCEPT !.status = "gone"]]
             /\ proc' = IF t = kmain THEN proc
                        ELSE [proc EXCEPT ![p].count = @ - 1, ![p].status = IF last THEN "zombie" ELSE @]
             /\ UNCHANGED <<cpu, mapped_on, freed, stopped>>
process_destroy(t, p) ==
  /\ InUser(t) /\ Owner(t) = Init1 /\ p # Init1 /\ proc[p].status = "zombie"
  /\ IF mapped_on[proc[p].map] # {} THEN Stop("mapped")
     ELSE /\ freed' = freed \cup {proc[p].map} /\ proc' = [proc EXCEPT ![p].status = "gone", ![p].map = Nil]
          /\ UNCHANGED <<cpu, thread, mapped_on, stopped>>

MapSwitchNext ==
  /\ stopped = "no"
  /\ \/ \E c \in Cpus, t \in DOMAIN thread \cup {Idle} : Switch(c, t) \/ sched_exit_self(c, t)
     \/ LaunchInit
     \/ \E t \in DOMAIN thread :
          \/ ReadOld(t)
          \/ pmap_activate(t)
          \/ StoreMap(t)
          \/ SetMasks(t)
          \/ execve(t)
          \/ Loaded(t)
          \/ Launched(t)
          \/ Adopted(t)
          \/ fork(t)
          \/ kthread_destroy(t)
          \/ \E p \in Procs : process_destroy(t, p)

MapSwitchSpec == MapSwitchInit /\ [][MapSwitchNext]_mapSwitchVars

-----------------------------------------------------------------------------
Settled(c) == \A t \in DOMAIN thread : Here(t) = c => thread[t].step = "none"

\* A CPU is in no address space that was freed, no map in use is destroyed, a CPU
\* with no thread in vm_map_activate is in the mask of exactly its current map, a thread
\* that loads an image is in the map it makes, and one in user mode is in the map of its
\* process; in the kernel's only if the CPU went there in an exit and has run nothing but
\* threads of that process and of the kernel since: the comparison of owners (sched.c:99)
\* activates no map then.
MapsAreSafe ==
  /\ stopped # "mapped"
  /\ \A c \in Cpus :
       /\ cpu[c].cr3 \notin freed /\ cpu[c].current_map \notin freed
       /\ Settled(c) => /\ cpu[c].cr3 = cpu[c].current_map
                        /\ \A m \in DOMAIN mapped_on : c \in mapped_on[m] <=> cpu[c].current_map = m
  /\ \A t \in DOMAIN thread : On(t) =>
       /\ thread[t].pc = "load" => cpu[Here(t)].cr3 = thread[t].made
       /\ thread[t].pc = "user" => \/ cpu[Here(t)].cr3 = proc[Owner(t)].map
                                   \/ cpu[Here(t)].cr3 = kmap /\ cpu[Here(t)].inherited
=============================================================================
