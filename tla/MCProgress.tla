----------------------------- MODULE MCProgress -----------------------------
(* A mutex, the wait on an object, the scheduler of one CPU, processes and    *)
(* remote calls, one at a time, for TLC: what holds of the first two at all   *)
(* times, and what must eventually happen in each.  part names the component  *)
(* that runs; the others rest, the last three with the variables k1 to k15.   *)
EXTENDS KMutex, KWait

CONSTANTS t1, t2, t3, s1, sem, sync, notif, Parts

VARIABLES part, k1, k2, k3, k4, k5, k6, k7, k8, k9, k10, k11, k12, k13, k14, k15
middle == <<k6, k7, k8, k9, k10, k11, k12, k13>>
high == <<k14, k15>>
shared == <<k1, k2, k3, k4, k5, middle, high>>
progressVars == <<mutexVars, vars, part, shared>>

ThreeThreads == {t1, t2, t3}
TwoThreads == {t1, t2}
OneTimed == {t1}
OneSignaller == {s1}
JustSem == {sem}
JustSync == {sync}
JustNotif == {notif}
Everything == {"mutex", "semaphore", "event", "notification", "sched", "process", "ipi"}
Waits == {"semaphore", "event", "notification"}
Rest(v) == v = NULL
RestMiddle == Rest(k6) /\ Rest(k7) /\ Rest(k8) /\ Rest(k9) /\ Rest(k10) /\ Rest(k11) /\ Rest(k12)
              /\ Rest(k13)
RestHigh == Rest(k14) /\ Rest(k15)

\* The threads wait for one object, of each kind in a part of its own.
Used == CASE part = "semaphore" -> sem [] part = "event" -> sync [] OTHER -> notif
OnlyUsed == \A o \in Objects \ {Used} :
  /\ sig'[o] = sig[o] /\ issued'[o] = issued[o]
  /\ \A t \in Threads : wobj'[t] # o
  /\ \A s \in Signallers : sobj'[s] # o

\* Priority classes with the constants of sched.h.
Prio == [ts1 |-> 1, rt1 |-> 17, rp |-> 17]
S == INSTANCE Sched WITH Cpus <- {"c1"}, Threads <- DOMAIN Prio, Reaper <- "rp", REAL_TIME <- 17,
       current <- k1, sched <- k2, pending <- k3, cpc <- k4, nxt <- k5, prev <- k6, status <- k7,
       switching <- k8, tlock <- k9, affinity <- k10, reaper_queue <- k11, reaper_ev <- k12,
       rpc <- k13, victim <- k14, freed <- k15

P == INSTANCE Process WITH MaxPid <- 3, state <- k1, parent <- k2, children <- k3, next_pid <- k4,
       pid_table <- k5, sem <- k6, owner <- k7, pc <- k8, want <- k9, nohang <- k10, todo <- k11,
       found <- k12, subject <- k13

I == INSTANCE Ipi WITH Cpus <- {0, 1}, Capacity <- 1, queue <- k1, rcq_lock <- k2, pending <- k3,
       handling <- k4, sender <- k5

ProgressInit ==
  /\ part \in Parts /\ kmutex_init /\ Init
  /\ CASE part \in Waits \cup {"mutex"} ->
              Rest(k1) /\ Rest(k2) /\ Rest(k3) /\ Rest(k4) /\ Rest(k5) /\ RestMiddle /\ RestHigh
       [] part = "sched" -> S!Init
       [] part = "process" -> P!ProcessInit /\ RestHigh
       [] part = "ipi" -> I!rcq_init /\ RestMiddle /\ RestHigh

ProgressNext ==
  \/ part = "mutex" /\ MutexNext /\ UNCHANGED <<vars, part, shared>>
  \/ part \in Waits /\ Next /\ OnlyUsed /\ UNCHANGED <<mutexVars, part, shared>>
  \/ part = "sched" /\ S!Next /\ UNCHANGED <<mutexVars, vars, part>>
  \/ part = "process" /\ P!ProcessNext /\ UNCHANGED <<mutexVars, vars, part, high>>
  \/ part = "ipi" /\ I!IpiNext /\ UNCHANGED <<mutexVars, vars, part, middle, high>>

SchedFairness ==
  /\ SF_shared(part = "sched" /\ S!Resume("c1", "rp"))
  /\ WF_shared(part = "sched" /\ S!CpuStep("c1"))
  /\ WF_shared(part = "sched" /\ S!ReaperStep("c1"))
  /\ WF_shared(part = "sched" /\ (S!do_wait("c1") \/ S!sched_exit_self("c1")))

ProcessFairness == \A p \in 1 .. 3 :
  /\ WF_shared(part = "process" /\ P!SyscallStep(p) /\ UNCHANGED high)
  /\ WF_shared(part = "process" /\ P!kthread_destroy_last(p) /\ UNCHANGED high)

\* A raised interrupt is taken, and its handler runs to its end.
IpiFairness == \A c \in {0, 1} :
  /\ WF_shared(part = "ipi" /\ I!ipi_handler(c) /\ UNCHANGED <<middle, high>>)
  /\ WF_shared(part = "ipi" /\ (I!TakeCall(c) \/ I!Executed(c)) /\ UNCHANGED <<middle, high>>)

ProgressSpec ==
  /\ ProgressInit /\ [][ProgressNext]_progressVars
  /\ MutexFairness /\ Fairness /\ SchedFairness /\ ProcessFairness /\ IpiFairness

\* Every thread that exits is freed although alarms coalesce (sched.c, thread.c).
ExitedIsFreed == \A t \in {"ts1", "rt1"} :
  (part = "sched" /\ k7[t] = "TERMINATING") ~> (part = "sched" /\ t \in k15)

\* A process that is blocked in waitpid while its child exits gets to reap a zombie;
\* 2 is the process other than init that can have a child (waitpid.c, thread.c).
ExitIsNoticed ==
  (/\ part = "process" /\ k8[2] = "blocked"
   /\ \E c \in k3[2] : k9[2] \in {P!ANY, c} /\ k8[c] = "exited")
  ~> (part = "process" /\ k8[2] \in {"destroy", "adopt", "free", "user"})

\* Every call that a CPU waits for is executed (do_ipi, ipi_handler in ipi.c); the
\* two CPUs are alike.
CallsAreExecuted ==
  (part = "ipi" /\ k5[0].phase = "wait") ~> (part = "ipi" /\ k5[0].done = k5[0].total)
=============================================================================
