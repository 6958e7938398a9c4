------------------------------ MODULE MCKernel ------------------------------
(* The scheduler of two CPUs for TLC, the process tree, and, one at a time,   *)
(* the components that run around them: job control, terminals, interrupts,   *)
(* timers and the boot.  part names the component that runs; the others rest. *)
(* The last share the variables k1 to k15.                                    *)
EXTENDS Sched, Process, JobCtl, Timers, TLC

CONSTANT Parts

VARIABLES part, k1, k2, k3, k4, k5, k6, k7, k8, k9, k10, k11, k12, k13, k14, k15
k5up == <<k5, k6, k7, k8, k9, k10, k11, k12, k13, k14, k15>>
k8up == <<k8, k9, k10, k11, k12, k13, k14, k15>>
kernelVars == <<part, k1, k2, k3, k4, k5up>>

Everything == {"smp", "uni", "process", "jobctl", "tty", "poll", "levels", "irq", "graph",
               "boot", "timers"}
JustPoll == {"poll"}
JustTimers == {"timers"}
JustSmp == {"smp"}
TwoCpus == {"c1", "c2"}
Rest(v) == v = NULL
RestHigh == Rest(k11) /\ Rest(k12) /\ Rest(k13) /\ Rest(k14) /\ Rest(k15)
RestFrom8 == Rest(k8) /\ Rest(k9) /\ Rest(k10) /\ RestHigh
RestFrom5 == Rest(k5) /\ Rest(k6) /\ Rest(k7) /\ RestFrom8

\* Priority classes with the constants of sched.h.
SmpPrio == [ts1 |-> 1, rt1 |-> 18, rp |-> 17]
SmpThreads == DOMAIN SmpPrio
UniPrio == [ts1 |-> 1, ts2 |-> 1, idp |-> 2, rt1 |-> 17, rp |-> 17]
U == INSTANCE Sched WITH Cpus <- {"c1"}, Threads <- DOMAIN UniPrio, Prio <- UniPrio,
       current <- k1, sched <- k2, pending <- k3, cpc <- k4, nxt <- k5, prev <- k6, status <- k7,
       switching <- k8, tlock <- k9, affinity <- k10, reaper_queue <- k11, reaper_ev <- k12,
       rpc <- k13, victim <- k14, freed <- k15

Mode(canonical, min, time) == [icanon |-> canonical, vmin |-> min, vtime |-> time]
L == INSTANCE Tty WITH Readers <- {"r1", "r2"}, BufSize <- 3, Keys <- {"c", "nl", "erase", "kill", "eof"},
       MaxTyped <- 4, Reads <- {1, 2}, Modes <- {Mode(TRUE, 1, 0), Mode(FALSE, 1, 0), Mode(FALSE, 2, 1)},
       termios <- k1, line <- k2, read_buf <- k3, event <- k4, reader <- k5, typed <- k6, unread <- k7

O == INSTANCE Poll WITH Pollers <- {"p", "q"}, Vnodes <- {"v", "w"}, FdSets <- {<<"v">>, <<"v", "w">>},
       Timeouts <- {"some", "zero"}, MaxInputs <- 3, ready <- k1, sig <- k2, list <- k3, poller <- k4,
       inputs <- k5, stale <- k6, stopped <- k7

I == INSTANCE Interrupts WITH IPL_DPC <- 1, Levels <- {2, 3}, IPL_HIGH <- 3, Dpcs <- {"a", "b"},
       MaxFrames <- 3, soft_ipl <- k1, hw_ipl <- k2, cr8 <- k3, irr <- k4, enabled <- k5, softint <- k6,
       dpc_queue <- k7, late <- k8, remote <- k9, frames <- k10,
       next_thread <- k11, saved <- k12

Req(ipl, flags, trigger, polarity) ==
  [ipl |-> ipl, flags |-> flags, trigger |-> trigger, polarity |-> polarity]
Q == INSTANCE Irq WITH Objects <- {"a", "b", "c"}, Levels <- 4, IPL_CLOCK <- 3, PerIpl <- 1,
       Requests <- {Req(1, {"min_ipl"}, "any", "any"), Req(1, {"shareable"}, "level", "low"),
                    Req(1, {"shareable", "min_ipl"}, "edge", "any"),
                    Req(1, {"shareable", "moveable"}, "any", "high"),
                    Req(1, {"shareable"}, "any", "any"), Req(3, {}, "any", "any")},
       slots <- k1, request <- k2, handling <- k3

G == INSTANCE InitGraph WITH Tasks <- 1 .. 3, Stages <- <<11, 12>>, Boot <- <<11, 12>>, MaxDeps <- 1,
       deps <- k1, entails <- k2, nodelist <- k3, executed <- k4, running <- k5, boot <- k6

Source(name, early, probe, quality) == [name |-> name, early |-> early, probe |-> probe, quality |-> quality]
Hpet == Source("hpet", TRUE, TRUE, 200)
B == INSTANCE SmpBoot WITH Count <- 4,
       Machines <- {<<Hpet, Source("kvm", TRUE, FALSE, 1000)>>, <<Hpet, Source("kvm", TRUE, TRUE, 1000)>>,
                    <<Hpet, Source("late", FALSE, TRUE, 300)>>},
       bsp <- k1, sources <- k2, clock_list <- k3, clock_lock <- k4, set_up <- k5, cpu <- k6,
       next_cpu_id <- k7, all_cpus <- k8, done <- k9, active <- k10

TwoTimers == {"a", "b"}
SomeDeltas == {0, 1, 3, 8, 11}
FourPids == 1 .. 4

KernelInit ==
  /\ part \in Parts /\ Init /\ ProcessInit /\ JobCtlInit /\ TimersInit
  /\ CASE part = "smp" -> k1 = {} /\ Rest(k2) /\ Rest(k3) /\ Rest(k4) /\ RestFrom5
       [] part \in {"process", "jobctl", "timers"} -> Rest(k1) /\ Rest(k2) /\ Rest(k3) /\ Rest(k4) /\ RestFrom5
       [] part = "uni" -> U!Init
       [] part = "tty" -> L!Init /\ RestFrom8
       [] part = "poll" -> O!Init /\ RestFrom8
       [] part = "levels" -> I!Init /\ Rest(k13) /\ Rest(k14) /\ Rest(k15)
       [] part = "irq" -> Q!irq_init /\ Rest(k4) /\ RestFrom5
       [] part = "graph" -> G!Init /\ Rest(k7) /\ RestFrom8
       [] part = "boot" -> B!Init /\ RestHigh

Others(p) == part = p /\ UNCHANGED <<vars, processVars, jobctlVars, timersVars, part>>
KernelNext ==
  \/ /\ part = "smp" /\ Next /\ k1' = (k1 \ ChoosesAnew) \cup InsertedLate
     /\ UNCHANGED <<processVars, jobctlVars, timersVars, part, k2, k3, k4, k5up>>
  \/ part = "process" /\ ProcessNext /\ UNCHANGED <<vars, jobctlVars, timersVars, kernelVars>>
  \/ part = "jobctl" /\ JobCtlNext /\ UNCHANGED <<vars, processVars, timersVars, kernelVars>>
  \/ part = "timers" /\ TimersNext /\ UNCHANGED <<vars, processVars, jobctlVars, kernelVars>>
  \/ Others("uni") /\ U!Next
  \/ Others("tty") /\ L!Next /\ UNCHANGED k8up
  \/ Others("poll") /\ O!Next /\ UNCHANGED k8up
  \/ Others("levels") /\ I!Next /\ UNCHANGED <<k13, k14, k15>>
  \/ Others("irq") /\ Q!Next /\ UNCHANGED <<k4, k5up>>
  \/ Others("graph") /\ G!Next /\ UNCHANGED <<k7, k8up>>
  \/ Others("boot") /\ B!Next /\ UNCHANGED <<k11, k12, k13, k14, k15>>

KernelSpec == KernelInit /\ [][KernelNext]_<<vars, processVars, jobctlVars, timersVars, kernelVars>>

\* Sched: real-time threads alone preempt, lower priorities alone are preempted,
\* and the idle loop is entered when nothing is queued (sched.c:11-13): always with one
\* CPU, and with two unless another CPU inserted a thread in the middle of a switch and
\* the CPU has not gone through sched_yield since (k1).
BestThreadRuns ==
  /\ part = "uni" => U!PreemptionIsJustified /\ U!IdleMeansNothingReady
  /\ part = "smp" => \A c \in Cpus \ k1 : PreemptsByRight(c) /\ IdlesByRight(c)

\* Tty: what is typed is read once, in order and whole (tty.c, n_tty.c, ringbuffer.c).
InputIsWhole == part = "tty" => L!InputIsWhole

\* Poll: what a poller reports and the blocks it leaves (poll.c, wait.c).
PollIsSound == part = "poll" => O!PollIsSound

\* "assert(thread->status == THREAD_WAITING || thread->wait_phase ==
\* WAIT_PHASE_IN_PROGRESS)" (wait.c:359): nobody unwaits a thread that runs.
UnwaitedIsWaiting == part = "poll" => k7 # "unwait"

\* Interrupts: what is masked does not run, what is due does; Irq: the objects of
\* a slot agree to share it (ipl.c, softint.c, isr.c, irq.c).
InterruptsAreSound ==
  /\ part = "levels" => I!LevelsAreKept
  /\ part = "irq" => Q!SlotsAreSound

\* InitGraph: a task runs once and after what it needs, the boot's first; SmpBoot: a
\* CPU that is up has its clock (init_node.c, clocksource.c, arch/x86_64/init.c).
BootIsOrdered ==
  /\ part = "graph" => G!BootIsOrdered
  /\ part = "boot" => B!CpusComeUp
=============================================================================
