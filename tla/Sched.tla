------------------------------- MODULE Sched --------------------------------
(***************************************************************************)
(* The per-CPU scheduler (kernel/core/sched.c), the soft interrupt that    *)
(* preempts (kernel/core/irq/softint.c) and the thread reaper (sched.c,    *)
(* thread.c).                                                              *)
(*                                                                         *)
(* A step is what a CPU does between two lock operations.  sched_lock is   *)
(* never held across a step.  thread_lock is a variable: it is taken by    *)
(* the thread that switches off and released by its successor.             *)
(* cpu->current_thread is not protected by sched_lock, and other CPUs read *)
(* it in sched_insert: that window is in the model.                        *)
(*                                                                         *)
(* The idle thread is part of struct cpu and is named by its CPU.  A       *)
(* runqueue is the sequence of its threads in the order of insertion: the  *)
(* 32 queues and ready_mask amount to "first of the highest priority".     *)
(***************************************************************************)
EXTENDS WaitList, Integers, FiniteSets

CONSTANTS Cpus, Threads,
          Prio,      \* thread->priority
          Reaper,    \* reaper_thread
          REAL_TIME, \* SCHED_PRIO_REAL_TIME
          NULL

TIME_SHARE == 1      \* SCHED_PRIO_TIME_SHARE
PRIO_MAX == 32       \* SCHED_PRIO_MAX

ASSUME SchedAssumption ==
  /\ Cpus \cap Threads = {}
  /\ NULL \notin Cpus \cup Threads
  /\ Prio \in [Threads -> 0..PRIO_MAX]
  /\ REAL_TIME \in Nat /\ REAL_TIME > TIME_SHARE
  /\ Reaper \in Threads

AllThreads == Threads \cup Cpus

VARIABLES
  current,      \* cpu->current_thread
  sched,        \* cpu->next_thread and the queues of cpu->sched
  pending,      \* IPL_DPC bit of cpu->softint_pending
  cpc,          \* where each CPU is in the scheduler
  nxt,          \* the local "next" of sched_preempt / sched_yield
  prev,         \* the thread a CPU is switching away from
  status,       \* thread->status
  switching,    \* thread->switching
  tlock,        \* the CPU that took thread->thread_lock, or NULL
  affinity,     \* thread->affinity_cpu
  reaper_queue, \* threads that exited and were not yet taken by the reaper
  reaper_ev,    \* reaper_ev is signaled
  rpc,          \* where the reaper thread is in thread_reaper_fn
  victim,       \* the thread the reaper destroys
  freed         \* threads whose stack and structure were freed

cpuVars    == <<current, sched, pending, cpc, nxt, prev>>
threadVars == <<status, switching, tlock, affinity>>
reaperVars == <<reaper_queue, reaper_ev, rpc, victim, freed>>
vars == <<cpuVars, threadVars, reaperVars>>

CPCs == {"run",      \* the current thread executes, IPL_PASSIVE
         "dpc",      \* do_dpc_int acknowledged the soft interrupt
         "taken",    \* sched_preempt took next_thread, sched_lock dropped
         "reinsert", \* current is locked and switching: sched_insert to do
         "exit",     \* sched_exit_self: queued for reaping, alarm to do
         "terminating", \* ... alarm done, status to set
         "yield",    \* sched_yield before sched_lock
         "chosen",   \* sched_yield after sched_lock
         "swtch",    \* sched_preempt about to call swtch
         "fin",      \* current_thread stored, stacks being switched
         "fin2"}     \* sched_finalize_swtch: thread_lock still to release

Statuses == {"UNDEFINED", "READY", "NEXT", "SWITCHING", "RUNNING",
             "WAITING", "TERMINATING"}

Init ==
  /\ current = [c \in Cpus |-> c]
  /\ sched = [c \in Cpus |-> [next |-> NULL, current_rq |-> <<>>,
                              next_rq |-> <<>>, idle_rq |-> <<>>]]
  /\ pending = [c \in Cpus |-> FALSE]
  /\ cpc = [c \in Cpus |-> "run"]
  /\ nxt = [c \in Cpus |-> NULL]
  /\ prev = [c \in Cpus |-> NULL]
  /\ status = [t \in AllThreads |-> "UNDEFINED"]
  /\ switching = [t \in AllThreads |-> FALSE]
  /\ tlock = [t \in AllThreads |-> NULL]
  /\ affinity = [t \in AllThreads |-> NULL]
  /\ reaper_queue = <<>>
  /\ reaper_ev = FALSE
  /\ rpc = "wait"
  /\ victim = NULL
  /\ freed = {}

Goto(c, label) == cpc' = [cpc EXCEPT ![c] = label]
-----------------------------------------------------------------------------
(* Queues *)

\* sched_insert lets t displace comp: a real-time thread a thread of lower
\* priority, any other thread only the idle thread (of priority 0).
Outranks(t, comp) ==
  comp \in Cpus \/ (Prio[t] >= REAL_TIME /\ Prio[t] > Prio[comp])

\* The queue of each class; priorities 2..16 go where idle priority goes.
sched_rq_insert(s, t) ==
  IF Prio[t] >= REAL_TIME THEN [s EXCEPT !.current_rq = Append(@, t)]
  ELSE IF Prio[t] = TIME_SHARE THEN [s EXCEPT !.next_rq = Append(@, t)]
  ELSE [s EXCEPT !.idle_rq = Append(@, t)]

\* Does t displace the selected or, if there is none, the running thread?
Preempts(c, t) ==
  Outranks(t, IF sched[c].next # NULL THEN sched[c].next ELSE current[c])

\* Where sched_insert puts t.  A displaced next thread goes round the loop
\* once more; t outranks it, so it is queued.
InsertInto(c, t) ==
  LET s == sched[c]
      n == s.next
  IN  /\ sched' = [sched EXCEPT ![c] =
           IF ~Preempts(c, t) THEN sched_rq_insert(s, t)
           ELSE IF n = NULL THEN [s EXCEPT !.next = t]
           ELSE sched_rq_insert([s EXCEPT !.next = t], n)]
      /\ status' = [u \in AllThreads |->
           IF u = t THEN IF Preempts(c, t) THEN "NEXT" ELSE "READY"
           ELSE IF u = n /\ Preempts(c, t) THEN "READY" ELSE status[u]]

\* sched_insert(cpu, t, _) under sched_lock.  The soft interrupt is issued
\* only for the first thread that is set as next.
sched_insert(c, t) ==
  /\ InsertInto(c, t)
  /\ pending' = [pending EXCEPT ![c] =
                   @ \/ (Preempts(c, t) /\ sched[c].next = NULL)]

\* The first thread of the highest priority in a non-empty runqueue.
TopOf(q) ==
  q[CHOOSE i \in DOMAIN q : \A j \in DOMAIN q :
      Prio[q[j]] < Prio[q[i]] \/ (Prio[q[j]] = Prio[q[i]] /\ i <= j)]

\* select_next(cpu, 0) when something is queued.  When only next_rq holds
\* threads the two runqueues change places; idle priority comes last.
select_next(s) ==
  IF s.current_rq # <<>> THEN
    LET t == TopOf(s.current_rq)
    IN  [thread |-> t, s |-> [s EXCEPT !.current_rq = Unlink(@, t)]]
  ELSE IF s.next_rq # <<>> THEN
    LET t == TopOf(s.next_rq)
    IN  [thread |-> t, s |-> [s EXCEPT !.current_rq = Unlink(s.next_rq, t),
                                       !.next_rq = <<>>]]
  ELSE
    [thread |-> Head(s.idle_rq), s |-> [s EXCEPT !.idle_rq = Tail(@)]]

\* A selection that forgets next_rq.
NothingQueued_NoSwap(s) == s.current_rq = <<>> /\ s.idle_rq = <<>>

\* select_next returns NULL.
NothingQueued(s) == s.current_rq = <<>> /\ s.next_rq = <<>> /\ s.idle_rq = <<>>
-----------------------------------------------------------------------------
(* Preemption: do_dpc_int and sched_preempt *)

\* do_dpc_int: acknowledge the soft interrupt; DPCs run, then sched_preempt.
do_dpc_int(c) ==
  /\ cpc[c] = "run"
  /\ pending[c]
  /\ pending' = [pending EXCEPT ![c] = FALSE]
  /\ Goto(c, "dpc")
  /\ UNCHANGED <<current, sched, nxt, prev, threadVars, reaperVars>>

\* Nothing was selected: return to the interrupted thread.
PreemptNothing(c) ==
  /\ cpc[c] = "dpc"
  /\ sched[c].next = NULL
  /\ Goto(c, "run")
  /\ UNCHANGED <<current, sched, pending, nxt, prev, threadVars, reaperVars>>

\* sched_preempt under sched_lock: take the selected thread.
PreemptTake(c) ==
  LET n == sched[c].next
  IN  /\ cpc[c] = "dpc"
      /\ n # NULL
      /\ sched' = [sched EXCEPT ![c].next = NULL]
      /\ nxt' = [nxt EXCEPT ![c] = n]
      /\ status' = [status EXCEPT ![n] = "SWITCHING"]
      /\ Goto(c, "taken")
      /\ UNCHANGED <<current, pending, prev, switching, tlock, affinity,
                     reaperVars>>

\* wait_for_switch(next), lock current and mark it as switching off.  The
\* idle thread just stays ready, any other thread is to be reinserted.
PreemptLock(c) ==
  LET cur == current[c]
  IN  /\ cpc[c] = "taken"
      /\ ~switching[nxt[c]]
      /\ tlock[cur] = NULL
      /\ tlock' = [tlock EXCEPT ![cur] = c]
      /\ switching' = [switching EXCEPT ![cur] = TRUE]
      /\ prev' = [prev EXCEPT ![c] = cur]
      /\ \/ /\ cur = c
            /\ status' = [status EXCEPT ![cur] = "READY"]
            /\ Goto(c, "swtch")
         \/ /\ cur # c
            /\ UNCHANGED status
            /\ Goto(c, "reinsert")
      /\ UNCHANGED <<current, sched, pending, nxt, affinity, reaperVars>>

\* The preempted thread is not put back on a queue.
PreemptReinsert_Lost(c) ==
  /\ cpc[c] = "reinsert"
  /\ Goto(c, "swtch")
  /\ UNCHANGED <<current, sched, pending, nxt, prev, threadVars, reaperVars>>

\* sched_insert(cpu, current, 0) under sched_lock.
PreemptReinsert(c) ==
  /\ cpc[c] = "reinsert"
  /\ sched_insert(c, current[c])
  /\ Goto(c, "swtch")
  /\ UNCHANGED <<current, nxt, prev, switching, tlock, affinity, reaperVars>>
-----------------------------------------------------------------------------
(* Giving up the CPU *)

\* sched_yield under sched_lock: anything is fine now.
YieldChoose(c) ==
  LET s == sched[c]
      r == select_next(s)
      idle == s.next = NULL /\ NothingQueued(s)
      n == IF s.next # NULL THEN s.next ELSE IF idle THEN c ELSE r.thread
  IN  /\ cpc[c] = "yield"
      /\ sched' = [sched EXCEPT ![c] =
           IF s.next # NULL THEN [s EXCEPT !.next = NULL]
           ELSE IF idle THEN s ELSE r.s]
      /\ nxt' = [nxt EXCEPT ![c] = n]
      /\ prev' = [prev EXCEPT ![c] = current[c]]
      /\ status' = IF idle THEN status ELSE [status EXCEPT ![n] = "SWITCHING"]
      /\ Goto(c, "chosen")
      /\ UNCHANGED <<current, pending, switching, tlock, affinity, reaperVars>>

\* wait_for_switch(next) on the yield path, then swtch up to plat_swtch.
swtch(c) ==
  /\ \/ cpc[c] = "swtch"
     \/ cpc[c] = "chosen" /\ (nxt[c] = c \/ ~switching[nxt[c]])
  /\ affinity' = [affinity EXCEPT ![prev[c]] = c]
  /\ current' = [current EXCEPT ![c] = nxt[c]]
  /\ Goto(c, "fin")
  /\ UNCHANGED <<sched, pending, nxt, prev, status, switching, tlock, reaperVars>>

\* sched_finalize_swtch on the new stack: the old thread is off its stack,
\* its lock is released, the new thread runs.
FinalizeSwitching(c) ==
  /\ cpc[c] = "fin"
  /\ switching' = [switching EXCEPT ![prev[c]] = FALSE]
  /\ Goto(c, "fin2")
  /\ UNCHANGED <<current, sched, pending, nxt, prev, status, tlock, affinity,
                 reaperVars>>

FinalizeUnlock(c) ==
  /\ cpc[c] = "fin2"
  /\ tlock' = [tlock EXCEPT ![prev[c]] = NULL]
  /\ status' = [status EXCEPT ![nxt[c]] = "RUNNING"]
  /\ nxt' = [nxt EXCEPT ![c] = NULL]
  /\ prev' = [prev EXCEPT ![c] = NULL]
  /\ Goto(c, "run")
  /\ UNCHANGED <<current, sched, pending, switching, affinity, reaperVars>>

\* do_wait: the running thread locks itself, commits to a wait and yields.
StartWait(c) ==
  LET t == current[c]
  IN  /\ cpc[c] = "run"
      /\ t # c
      /\ tlock[t] = NULL
      /\ tlock' = [tlock EXCEPT ![t] = c]
      /\ status' = [status EXCEPT ![t] = "WAITING"]
      /\ Goto(c, "yield")

do_wait(c) ==
  /\ current[c] # Reaper
  /\ StartWait(c)
  /\ UNCHANGED <<current, sched, pending, nxt, prev, switching, affinity,
                 reaperVars>>

\* A resume that does not wait for the thread to be off its stack.
Resumable_Unlocked(t) == status[t] \in {"WAITING", "UNDEFINED"}

\* sched_resume_locked's caller holds thread_lock.  A thread is resumed once
\* after its creation and once per wait (thread_unwait).
Resumable(t) == status[t] \in {"WAITING", "UNDEFINED"} /\ tlock[t] = NULL

\* sched_resume_locked: on the CPU the thread last ran on, or any (find_cpu).
sched_resume(t) ==
  /\ Resumable(t)
  /\ \E d \in Cpus : affinity[t] \in {d, NULL} /\ sched_insert(d, t)

\* A DPC or the running thread of CPU c makes a thread ready.
Resume(c, t) ==
  /\ cpc[c] \in {"run", "dpc"}
  /\ t # Reaper \/ status[t] = "UNDEFINED"
  /\ sched_resume(t)
  /\ UNCHANGED <<current, cpc, nxt, prev, switching, tlock, affinity, reaperVars>>
-----------------------------------------------------------------------------
(* Exit and the reaper *)

\* The exiting thread does not lock itself.
sched_exit_self_Unlocked(c) ==
  LET t == current[c]
  IN  /\ cpc[c] = "run"
      /\ t \notin {c, Reaper}
      /\ reaper_queue' = <<t>> \o reaper_queue
      /\ Goto(c, "exit")
      /\ UNCHANGED <<current, sched, pending, nxt, prev, threadVars,
                     reaper_ev, rpc, victim, freed>>

\* sched_exit_self: lock the thread and put it on the reaper's queue.
sched_exit_self(c) ==
  LET t == current[c]
  IN  /\ cpc[c] = "run"
      /\ t \notin {c, Reaper}
      /\ tlock[t] = NULL
      /\ tlock' = [tlock EXCEPT ![t] = c]
      /\ reaper_queue' = <<t>> \o reaper_queue
      /\ Goto(c, "exit")
      /\ UNCHANGED <<current, sched, pending, nxt, prev, status, switching,
                     affinity, reaper_ev, rpc, victim, freed>>

\* ... event_alarm(&reaper_ev): resume the reaper if it waits (its thread_lock
\* is needed for that), else leave the event signaled; then yield.
ExitAlarm(c) ==
  /\ cpc[c] = "exit"
  /\ \/ /\ status[Reaper] = "WAITING"
        /\ sched_resume(Reaper)
        /\ rpc' = "drain"
        /\ UNCHANGED reaper_ev
     \/ /\ status[Reaper] # "WAITING"
        /\ reaper_ev' = TRUE
        /\ UNCHANGED <<sched, status, pending, rpc>>
  /\ Goto(c, "terminating")
  /\ UNCHANGED <<current, nxt, prev, switching, tlock, affinity,
                 reaper_queue, victim, freed>>

\* ... status = THREAD_TERMINATING, then sched_yield.
ExitYield(c) ==
  /\ cpc[c] = "terminating"
  /\ status' = [status EXCEPT ![current[c]] = "TERMINATING"]
  /\ Goto(c, "yield")
  /\ UNCHANGED <<current, sched, pending, nxt, prev, switching, tlock,
                 affinity, reaperVars>>

\* The reaper thread runs on c.
ReaperRuns(c) == cpc[c] = "run" /\ current[c] = Reaper

\* sched_wait(&reaper_ev): consume the signal or block.
ReaperWait(c) ==
  /\ ReaperRuns(c)
  /\ rpc = "wait"
  /\ \/ /\ reaper_ev
        /\ reaper_ev' = FALSE
        /\ rpc' = "drain"
        /\ UNCHANGED <<tlock, status, cpc>>
     \/ /\ ~reaper_ev
        /\ StartWait(c)
        /\ UNCHANGED <<reaper_ev, rpc>>
  /\ UNCHANGED <<current, sched, pending, nxt, prev, switching, affinity,
                 reaper_queue, victim, freed>>

\* Under reaper_lock: take the first exited thread, or wait again.
ReaperTake(c) ==
  /\ ReaperRuns(c)
  /\ rpc = "drain"
  /\ \/ /\ reaper_queue # <<>>
        /\ victim' = Head(reaper_queue)
        /\ reaper_queue' = Tail(reaper_queue)
        /\ rpc' = "destroy"
     \/ /\ reaper_queue = <<>>
        /\ rpc' = "wait"
        /\ UNCHANGED <<victim, reaper_queue>>
  /\ UNCHANGED <<cpuVars, threadVars, reaper_ev, freed>>

\* ensure_reapable: the thread's lock can be had, so it has switched off.
ensure_reapable(t) == tlock[t] = NULL

\* A reaper that destroys one thread per alarm.
kthread_destroy_One(c) ==
  /\ ReaperRuns(c)
  /\ rpc = "destroy"
  /\ ensure_reapable(victim)
  /\ freed' = freed \cup {victim}
  /\ victim' = NULL
  /\ rpc' = "wait"
  /\ UNCHANGED <<cpuVars, threadVars, reaper_queue, reaper_ev>>

\* kthread_destroy: free the stack and the thread.
kthread_destroy(c) ==
  /\ ReaperRuns(c)
  /\ rpc = "destroy"
  /\ ensure_reapable(victim)
  /\ freed' = freed \cup {victim}
  /\ victim' = NULL
  /\ rpc' = "drain"
  /\ UNCHANGED <<cpuVars, threadVars, reaper_queue, reaper_ev>>
-----------------------------------------------------------------------------
CpuStep(c) ==
  \/ do_dpc_int(c) \/ PreemptNothing(c) \/ PreemptTake(c) \/ PreemptLock(c)
  \/ PreemptReinsert(c) \/ YieldChoose(c) \/ swtch(c)
  \/ FinalizeSwitching(c) \/ FinalizeUnlock(c)
  \/ ExitAlarm(c) \/ ExitYield(c)

ReaperStep(c) == ReaperWait(c) \/ ReaperTake(c) \/ kthread_destroy(c)

Next ==
  \E c \in Cpus :
    \/ CpuStep(c) \/ ReaperStep(c)
    \/ do_wait(c) \/ sched_exit_self(c)
    \/ \E t \in Threads : Resume(c, t)

Spec == Init /\ [][Next]_vars

\* A CPU finishes what it does at IPL_DPC and takes a pending soft interrupt;
\* sched_dynamic_init starts the reaper, which makes progress while it runs;
\* every other thread eventually waits or exits.
Fairness ==
  /\ SF_vars(\E c \in Cpus : Resume(c, Reaper))
  /\ \A c \in Cpus : /\ WF_vars(CpuStep(c))
                     /\ WF_vars(ReaperStep(c))
                     /\ WF_vars(do_wait(c) \/ sched_exit_self(c))

FairSpec == Spec /\ Fairness
-----------------------------------------------------------------------------
(* Properties *)

\* Types of all variables.
TypeOK ==
  /\ current \in [Cpus -> AllThreads]
  /\ sched \in [Cpus -> [next : Threads \cup {NULL}, current_rq : Seq(Threads),
                         next_rq : Seq(Threads), idle_rq : Seq(Threads)]]
  /\ pending \in [Cpus -> BOOLEAN]
  /\ cpc \in [Cpus -> CPCs]
  /\ nxt \in [Cpus -> AllThreads \cup {NULL}]
  /\ prev \in [Cpus -> AllThreads \cup {NULL}]
  /\ status \in [AllThreads -> Statuses]
  /\ switching \in [AllThreads -> BOOLEAN]
  /\ tlock \in [AllThreads -> Cpus \cup {NULL}]
  /\ affinity \in [AllThreads -> Cpus \cup {NULL}]
  /\ reaper_queue \in Seq(Threads)
  /\ reaper_ev \in BOOLEAN
  /\ rpc \in {"wait", "drain", "destroy"}
  /\ victim \in Threads \cup {NULL}
  /\ freed \subseteq Threads

\* The threads whose stack CPU c may be using.
Stacks(c) == {current[c]} \cup (IF cpc[c] = "fin" THEN {prev[c]} ELSE {})

\* Two CPUs never run on one stack, and no CPU runs on the stack of a thread
\* the reaper freed: what thread_lock, switching and ensure_reapable are for.
StacksAreSafe ==
  /\ \A c, d \in Cpus : c # d => Stacks(c) \cap Stacks(d) = {}
  /\ \A c \in Cpus : Stacks(c) \cap freed = {}

\* All queued threads of a CPU, in one sequence.
Queued(c) == sched[c].current_rq \o sched[c].next_rq \o sched[c].idle_rq

\* A thread is neither lost nor held twice: a READY thread is on exactly one
\* queue of one CPU, a NEXT thread is the next_thread of one CPU and a
\* SWITCHING thread is being switched to by one; no other thread is on any,
\* and a RUNNING thread is the current thread of a CPU.
OnePlace ==
  /\ \A c \in Cpus : IsInjective(Queued(c))
  /\ \A t \in Threads :
       LET onq == {c \in Cpus : t \in ToSet(Queued(c))}
           asnext == {c \in Cpus : sched[c].next = t}
           incoming == {c \in Cpus : nxt[c] = t}
       IN  /\ Cardinality(onq) = IF status[t] = "READY" THEN 1 ELSE 0
           /\ Cardinality(asnext) = IF status[t] = "NEXT" THEN 1 ELSE 0
           /\ Cardinality(incoming) = IF status[t] = "SWITCHING" THEN 1 ELSE 0
           /\ status[t] = "RUNNING" => \E c \in Cpus : current[c] = t

\* A selected thread is never forgotten: the soft interrupt that makes the
\* CPU look at next_thread is pending, or its handler has not looked yet.
NextHasSoftint ==
  \A c \in Cpus : sched[c].next # NULL => pending[c] \/ cpc[c] = "dpc"

\* No thread is lost: each is in one place, and where it was chosen it will run.
QueuesAreExact == TypeOK /\ OnePlace /\ NextHasSoftint

\* kthread_destroy's assertion: what the reaper frees has terminated.
ReapedIsTerminated ==
  \A t \in Threads :
    t \in freed \/ (t = victim /\ tlock[t] = NULL) => status[t] = "TERMINATING"

\* "real-time threads may preempt lower priority threads", "time-shared
\* threads may not preempt any other thread" (sched.c:12-13): the thread
\* sched_preempt switches to outranks the one it takes the CPU from.
PreemptsByRight(c) ==
  cpc[c] = "taken" /\ current[c] \in Threads =>
    Prio[nxt[c]] >= REAL_TIME /\ Prio[nxt[c]] > Prio[current[c]]
PreemptionIsJustified == \A c \in Cpus : PreemptsByRight(c)

\* "idle queue is only ran once we don't have any thread whatsover on any
\* other queue" (sched.c:11): a CPU settles in its idle loop only when no
\* thread is queued on it.
IdlesByRight(c) == current[c] = c /\ cpc[c] = "run" /\ ~pending[c] => Queued(c) = <<>>
IdleMeansNothingReady == \A c \in Cpus : IdlesByRight(c)

\* A CPU that has chosen its next thread and not stored it as current_thread:
\* sched_insert on another CPU compares with a thread that is about to go.
Choosing(c) == cpc[c] \in {"taken", "reinsert", "swtch", "chosen"}
\* The CPUs at which a step of another CPU inserts a thread in that window, and
\* those that choose anew with everything queued.
InsertedLate == {c \in Cpus : Choosing(c) /\ cpc'[c] = cpc[c] /\ sched'[c] # sched[c]}
ChoosesAnew == {c \in Cpus : cpc[c] = "yield" /\ cpc'[c] = "chosen"}

\* Every thread that exits is eventually freed: the alarm of a sync event
\* counts only once, but the reaper drains its whole queue.
ExitedIsFreed ==
  \A t \in Threads : status[t] = "TERMINATING" ~> t \in freed
=============================================================================
