------------------------------- MODULE SmpBoot --------------------------------
(* The start of the other CPUs (arch/x86_64/init.c, core/cpudata.c) and of the *)
(* clock sources every CPU selects for itself (core/clocksource.c).  A CPU is  *)
(* named by its place in the boot loader's list; its cpu_id is the order in    *)
(* which it comes up.  The boot CPU may have any place in the list.            *)
LOCAL INSTANCE Integers
LOCAL INSTANCE Sequences
LOCAL INSTANCE SequencesExt

CONSTANTS
  NULL,
  Count,      \* cpu_count; the places are 0 .. Count - 1
  Machines    \* sequences of clock sources [name, early, probe, quality] a machine may have

VARIABLES
  bsp,         \* the place of the boot CPU
  sources,     \* what the machine has, in the order of registration
  clock_list,  \* sequence of sources, the dummy first
  clock_lock,  \* the CPU in clocksource_switch, or NULL
  set_up,      \* how often each source was set up: sequence of names
  cpu,         \* place -> [pc, id, clock, chosen, measured]: with which clock it measured its timer
  next_cpu_id,
  all_cpus,    \* id -> place, NULL; its own of the boot CPU alone before start_aps
  done,        \* place in the list -> extra_info.done
  active       \* cpumask_active

clockVars == <<clock_list, clock_lock, set_up>>
vars == <<bsp, sources, clockVars, cpu, next_cpu_id, all_cpus, done, active>>

Places == 0 .. Count - 1
dummy_clock == [name |-> "dummy", early |-> TRUE, probe |-> TRUE, quality |-> -10000]

\* kstart has run: the boot CPU has number 0, is up and registers its sources.
Init ==
  /\ bsp \in Places /\ sources \in Machines
  /\ clock_list = <<dummy_clock>> /\ clock_lock = NULL /\ set_up = <<>>
  /\ cpu = [p \in Places |-> [pc |-> IF p = bsp THEN "register" ELSE "off", id |-> IF p = bsp THEN 0 ELSE NULL,
                              clock |-> IF p = bsp THEN dummy_clock ELSE NULL, chosen |-> NULL,
                              measured |-> NULL]]
  /\ next_cpu_id = 1
  /\ all_cpus = [i \in Places |-> IF i = 0 THEN bsp ELSE NULL]
  /\ done = [p \in Places |-> FALSE] /\ active = {0}

At(p, pc) == cpu[p].pc = pc
Goto(p, pc) == cpu' = [cpu EXCEPT ![p].pc = pc]

-----------------------------------------------------------------------------
\* timer_setup: hpet_register, kvmclock_register; setup is due once for each.
clocksource_register(p) ==
  /\ At(p, "register")
  /\ LET n == Len(clock_list)
     IN IF n > Len(sources) THEN Goto(p, "early") /\ UNCHANGED clock_list
        ELSE clock_list' = Append(clock_list, sources[n]) /\ UNCHANGED cpu
  /\ UNCHANGED <<bsp, sources, clock_lock, set_up, next_cpu_id, all_cpus, done, active>>

\* The first of the best sources that the CPU may use; the dummy is below -1.
Usable(early) == {k \in DOMAIN clock_list :
  /\ early => clock_list[k].early
  /\ clock_list[k].probe /\ clock_list[k].quality >= -1}
select_source(early) ==
  LET U == Usable(early)
  IN IF U = {} THEN NULL
     ELSE clock_list[CHOOSE k \in U : \A j \in U :
            \/ clock_list[j].quality < clock_list[k].quality
            \/ clock_list[j].quality = clock_list[k].quality /\ k <= j]

\* After the early clock the boot CPU goes on to its interrupt controller, as the
\* others do after theirs; after the clock of start_aps it starts the others.
AfterClock == [early |-> "lapic", aps |-> "prepare", ap |-> "lapic"]
clocksource_early_init(p) ==
  /\ At(p, "early") /\ clock_lock = NULL /\ select_source(TRUE) # NULL
  /\ cpu' = [cpu EXCEPT ![p].chosen = select_source(TRUE), ![p].pc = "switch_early"]
  /\ UNCHANGED <<bsp, sources, clockVars, next_cpu_id, all_cpus, done, active>>
clocksource_init(p, where) ==
  /\ At(p, "clock_" \o where) /\ clock_lock = NULL
  /\ LET s == select_source(FALSE)
     IN cpu' = [cpu EXCEPT ![p].chosen = s, ![p].pc = IF s = cpu[p].clock THEN AfterClock[where] ELSE "switch_" \o where]
  /\ UNCHANGED <<bsp, sources, clockVars, next_cpu_id, all_cpus, done, active>>
\* clocksource_switch: under the lock, setup if it has not been done; then the source
\* is initialised on this CPU and used.
IsSetup_Never(s) == FALSE
IsSetup(s) == Contains(set_up, s.name)
clocksource_switch(p, where) ==
  /\ At(p, "switch_" \o where) /\ clock_lock = NULL /\ clock_lock' = p
  /\ set_up' = IF IsSetup(cpu[p].chosen) THEN set_up ELSE Append(set_up, cpu[p].chosen.name)
  /\ Goto(p, "use_" \o where)
  /\ UNCHANGED <<bsp, sources, clock_list, next_cpu_id, all_cpus, done, active>>
UseClock(p, where) ==
  /\ At(p, "use_" \o where) /\ clock_lock' = NULL
  /\ cpu' = [cpu EXCEPT ![p].clock = cpu[p].chosen, ![p].pc = AfterClock[where]]
  /\ UNCHANGED <<bsp, sources, clock_list, set_up, next_cpu_id, all_cpus, done, active>>

-----------------------------------------------------------------------------
\* start_aps on the boot CPU.
start_aps(p) ==
  /\ At(p, "stages") /\ Goto(p, "clock_aps")
  /\ UNCHANGED <<bsp, sources, clockVars, next_cpu_id, all_cpus, done, active>>
\* One CPU after the other gets its structures and is let go.
Prepared(p) == p = bsp \/ cpu[p].pc # "off"
ReleaseAp(p) ==
  /\ At(bsp, "prepare") /\ ~Prepared(p) /\ \A q \in Places : q < p => Prepared(q)
  /\ done' = [done EXCEPT ![p] = FALSE] /\ Goto(p, "started")
  /\ UNCHANGED <<bsp, sources, clockVars, next_cpu_id, all_cpus, active>>
\* The boot CPU sets the flag at its cpu_id, and waits for those at every place.
SetDone ==
  /\ At(bsp, "prepare") /\ \A q \in Places : Prepared(q)
  /\ done' = [done EXCEPT ![cpu[bsp].id] = TRUE] /\ Goto(bsp, "wait")
  /\ UNCHANGED <<bsp, sources, clockVars, next_cpu_id, all_cpus, active>>
wait_for_all ==
  /\ At(bsp, "wait") /\ (\A p \in Places : done[p]) /\ Goto(bsp, "running")
  /\ UNCHANGED <<bsp, sources, clockVars, next_cpu_id, all_cpus, done, active>>

\* c_ap_entry: a number and the dummy clock, the clock, the APIC, the table of CPUs,
\* the flag, the mask, the idle loop.
cpudata_init(p) ==
  /\ At(p, "started") /\ next_cpu_id' = next_cpu_id + 1
  /\ cpu' = [cpu EXCEPT ![p].id = next_cpu_id, ![p].clock = dummy_clock, ![p].pc = "clock_ap"]
  /\ UNCHANGED <<bsp, sources, clockVars, all_cpus, done, active>>
\* The APIC measures its timer with the clock, on the boot CPU in timer_setup.
lapic_enable(p) ==
  /\ At(p, "lapic")
  /\ cpu' = [cpu EXCEPT ![p].measured = cpu[p].clock, ![p].pc = IF p = bsp THEN "stages" ELSE "table"]
  /\ UNCHANGED <<bsp, sources, clockVars, next_cpu_id, all_cpus, done, active>>
SetTable(p) ==
  /\ At(p, "table") /\ all_cpus' = [all_cpus EXCEPT ![cpu[p].id] = p] /\ Goto(p, "done")
  /\ UNCHANGED <<bsp, sources, clockVars, next_cpu_id, done, active>>
ApDone(p) ==
  /\ At(p, "done") /\ done' = [done EXCEPT ![p] = TRUE] /\ Goto(p, "up")
  /\ UNCHANGED <<bsp, sources, clockVars, next_cpu_id, all_cpus, active>>
cpu_up(p) ==
  /\ At(p, "up") /\ active' = active \cup {cpu[p].id} /\ Goto(p, "idle")
  /\ UNCHANGED <<bsp, sources, clockVars, next_cpu_id, all_cpus, done>>

Next ==
  \/ \E p \in Places :
       \/ clocksource_register(p)
       \/ clocksource_early_init(p)
       \/ start_aps(p)
       \/ ReleaseAp(p)
       \/ cpudata_init(p)
       \/ lapic_enable(p) \/ SetTable(p) \/ ApDone(p) \/ cpu_up(p)
       \/ \E where \in {"aps", "ap"} : clocksource_init(p, where)
       \/ \E where \in {"early", "aps", "ap"} : clocksource_switch(p, where) \/ UseClock(p, where)
  \/ SetDone
  \/ wait_for_all

-----------------------------------------------------------------------------
Waits == {"wait", "running"}
\* A CPU uses a source that was set up, exactly once; it measures its timer with the
\* best source, and the boot CPU, which does so earlier than start_aps, with the best
\* early one; when the boot CPU goes on, every CPU is in the table under a
\* number of its own, and only those between flag and mask are not active.  The
\* boot CPU is let go when all others are idle, if it is the first of the list.
CpusComeUp ==
  /\ IsInjective(set_up)
  /\ \A p \in Places :
       /\ cpu[p].clock \notin {NULL, dummy_clock} => IsSetup(cpu[p].clock)
       /\ cpu[p].measured # NULL => cpu[p].measured = select_source(p = bsp)
       /\ cpu[p].pc \in {"table", "done", "up", "idle", "prepare", "wait", "running"} =>
            cpu[p].measured # NULL /\ cpu[p].clock = select_source(FALSE)
       /\ done[p] /\ p # 0 => all_cpus[cpu[p].id] = p
  /\ At(bsp, "running") => \A p \in Places :
       /\ all_cpus[cpu[p].id] = p
       /\ cpu[p].id \in active \/ At(p, "up")
  /\ bsp = 0 /\ At(bsp, "wait") /\ (\A p \in Places \ {bsp} : At(p, "idle")) => \A p \in Places : done[p]
=============================================================================
