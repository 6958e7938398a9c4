----------------------------- MODULE Interrupts ------------------------------
(* The interrupt priority level of one CPU (arch/x86_64/ipl.c with LAZY_IPL,   *)
(* isr.c), its software interrupts (softint.c) and deferred calls (dpc.c).     *)
(* Raising the level only stores soft_ipl; an interrupt that should have been  *)
(* masked raises CR8 and is sent again.  frames is the stack of the thread that *)
(* runs, saved that of the thread it is switched with: at the end of the       *)
(* deferred calls, or when a thread at IPL_DPC yields (sched.c).               *)
EXTENDS Integers, Sequences, FiniteSets, SequencesExt

CONSTANTS
  IPL_DPC,    \* 0 is IPL_PASSIVE
  Levels,     \* interrupt levels above IPL_DPC
  IPL_HIGH,   \* the level of inter-processor interrupts
  Dpcs,
  MaxFrames   \* bound: other CPUs issue softints while the stack is lower (each may cost frames)

VARIABLES
  soft_ipl,
  hw_ipl,     \* what the kernel believes CR8 to be
  cr8,
  irr,        \* levels with an interrupt that waits in the local APIC
  enabled,    \* the interrupt flag
  softint,    \* the bit of IPL_DPC in softint_pending
  dpc_queue,
  late,       \* a thread at IPL_PASSIVE has issued a softint itself
  remote,     \* another CPU has set softint and not yet sent its interrupt
  next_thread, \* the thread of saved is the one to switch to
  frames, saved

ipls == <<soft_ipl, hw_ipl, cr8>>
threads == <<next_thread, saved>>

Frame(pc, ipl) == [pc |-> pc, ipl |-> ipl, state |-> FALSE]

Init ==
  /\ soft_ipl = 0 /\ hw_ipl = 0 /\ cr8 = 0 /\ irr = {} /\ enabled = TRUE
  /\ softint = FALSE /\ dpc_queue = <<>> /\ late = FALSE /\ remote = FALSE
  /\ next_thread = FALSE /\ frames = <<Frame("thread", 0)>>
  \* A new thread starts with xipl(0) in asm_thread_trampoline.
  /\ saved = <<Frame("thread", 0), Frame("xipl", 0)>>

Top == frames[Len(frames)]
Goto(pc) == frames' = [frames EXCEPT ![Len(frames)].pc = pc]
Call(pc, frame) == frames' = Append([frames EXCEPT ![Len(frames)].pc = pc], frame)
Return == frames' = SubSeq(frames, 1, Len(frames) - 1)
At(pc) == Top.pc = pc

-----------------------------------------------------------------------------
\* The local APIC delivers the highest level above CR8.  An interrupt of a level
\* that is masked by soft_ipl alone raises CR8 and is sent again.
MaskedSoft_Below(level) == soft_ipl > level /\ hw_ipl < level
MaskedSoft(level) == soft_ipl >= level /\ hw_ipl < level
isr_c_entry(level) ==
  /\ enabled /\ level \in irr /\ level > cr8 /\ \A l \in irr : l <= level
  /\ IF MaskedSoft(level)
     THEN cr8' = level /\ hw_ipl' = level /\ UNCHANGED <<soft_ipl, irr, frames>>
     ELSE /\ irr' = irr \ {level} /\ soft_ipl' = level /\ UNCHANGED <<hw_ipl, cr8>>
          /\ frames' = Append(frames, Frame("handler", soft_ipl))
  /\ UNCHANGED <<enabled, softint, dpc_queue, late, remote, threads>>
\* The end of the handler: the level goes back with interrupts disabled.
IsrExit ==
  /\ At("handler") /\ enabled' = FALSE /\ Call("iret", Frame("xipl", Top.ipl))
  /\ UNCHANGED <<ipls, irr, softint, dpc_queue, late, remote, threads>>
Iret ==
  /\ At("iret") /\ enabled' = TRUE /\ Return
  /\ UNCHANGED <<ipls, irr, softint, dpc_queue, late, remote, threads>>

\* A thread raises the level to IPL_DPC for a while, as spinlock_lock does.
ripl ==
  /\ At("thread") /\ soft_ipl' = IPL_DPC /\ Goto("raised")
  /\ UNCHANGED <<hw_ipl, cr8, irr, enabled, softint, dpc_queue, late, remote, threads>>
Lower ==
  /\ At("raised") /\ Call("thread", Frame("xipl", 0))
  /\ UNCHANGED <<ipls, irr, enabled, softint, dpc_queue, late, remote, threads>>

\* xipl: the software level, the hardware level if it is above, the softints.
xipl ==
  /\ At("xipl") /\ soft_ipl' = Top.ipl /\ Goto("lower")
  /\ UNCHANGED <<hw_ipl, cr8, irr, enabled, softint, dpc_queue, late, remote, threads>>
LowerHw ==
  /\ At("lower")
  /\ IF hw_ipl > Top.ipl THEN hw_ipl' = Top.ipl /\ Goto("cr8") ELSE UNCHANGED hw_ipl /\ Goto("soft")
  /\ UNCHANGED <<soft_ipl, cr8, irr, enabled, softint, dpc_queue, late, remote, threads>>
WriteCr8 ==
  /\ At("cr8") /\ cr8' = Top.ipl /\ Goto("soft")
  /\ UNCHANGED <<soft_ipl, hw_ipl, irr, enabled, softint, dpc_queue, late, remote, threads>>
\* Only softints above the level that is restored.
IsDue(ipl) == softint /\ IPL_DPC > ipl
CheckSoft ==
  /\ At("soft") /\ (IF IsDue(Top.ipl) THEN Goto("dispatch") ELSE Return)
  /\ UNCHANGED <<ipls, irr, enabled, softint, dpc_queue, late, remote, threads>>

\* softint_dispatch, for the level in the frame.
softint_dispatch ==
  /\ At("dispatch") /\ enabled' = FALSE
  /\ frames' = [frames EXCEPT ![Len(frames)] = [@ EXCEPT !.pc = "loop", !.state = enabled]]
  /\ UNCHANGED <<ipls, irr, softint, dpc_queue, late, remote, threads>>
SoftLoop ==
  /\ At("loop")
  /\ Call(IF IsDue(Top.ipl) THEN "loop" ELSE "done",
          IF IsDue(Top.ipl) THEN Frame("dpc_int", Top.ipl) ELSE Frame("xipl", Top.ipl))
  /\ UNCHANGED <<ipls, irr, enabled, softint, dpc_queue, late, remote, threads>>
SoftDone ==
  /\ At("done") /\ enabled' = Top.state /\ Return
  /\ UNCHANGED <<ipls, irr, softint, dpc_queue, late, remote, threads>>

\* do_dpc_int: acknowledge, raise, run the queue with interrupts enabled.
do_dpc_int ==
  /\ At("dpc_int") /\ softint' = FALSE /\ late' = FALSE /\ soft_ipl' = IPL_DPC /\ enabled' = TRUE
  /\ Goto("dpc_run") /\ UNCHANGED <<hw_ipl, cr8, irr, dpc_queue, remote, threads>>
dpc_queue_run ==
  /\ At("dpc_run")
  /\ IF dpc_queue # <<>>
     THEN dpc_queue' = Tail(dpc_queue) /\ UNCHANGED frames
     ELSE Goto("ran") /\ UNCHANGED dpc_queue
  /\ UNCHANGED <<ipls, irr, enabled, softint, late, remote, threads>>
DpcIntEnd ==
  /\ At("switched") \/ (At("ran") /\ ~next_thread)
  /\ enabled' = FALSE /\ Return
  /\ UNCHANGED <<ipls, irr, softint, dpc_queue, late, remote, threads>>

\* A switch keeps the levels and the interrupt flag: the other thread goes on where
\* it was switched from.  remote: another CPU holds sched_lock until it has sent.
Switch(pc) ==
  /\ ~remote /\ next_thread' = FALSE
  /\ frames' = saved /\ saved' = [frames EXCEPT ![Len(frames)].pc = pc]
  /\ UNCHANGED <<ipls, irr, enabled, softint, dpc_queue, late, remote>>
sched_preempt == At("ran") /\ next_thread /\ Switch("switched")
sched_yield == At("raised") /\ Switch("raised")
\* The other thread becomes ready and may preempt: from a DPC or a thread of this CPU.
sched_insert ==
  /\ Top.pc \in {"raised", "dpc_run"} /\ ~remote /\ ~next_thread
  /\ next_thread' = TRUE /\ softint' = TRUE
  /\ UNCHANGED <<ipls, irr, enabled, dpc_queue, late, remote, frames, saved>>

\* Handlers and threads enqueue; a queued call stays where it is.
dpc_enqueue(d) ==
  /\ Top.pc \in {"handler", "raised", "thread", "dpc_run"} /\ ~Contains(dpc_queue, d)
  /\ dpc_queue' = <<d>> \o dpc_queue /\ softint' = TRUE /\ late' = (late \/ At("thread"))
  /\ UNCHANGED <<ipls, irr, enabled, remote, frames, threads>>
dpc_dequeue(d) ==
  /\ Top.pc \in {"raised", "dpc_run"} /\ Contains(dpc_queue, d) /\ dpc_queue' = SelectSeq(dpc_queue, LAMBDA e : e # d)
  /\ UNCHANGED <<ipls, irr, enabled, softint, late, remote, frames, threads>>

\* Devices, the clock and other CPUs.
Device(level) ==
  /\ irr' = irr \cup {level}
  /\ UNCHANGED <<ipls, enabled, softint, dpc_queue, late, remote, frames, threads>>
softint_issue_other ==
  /\ Len(frames) < MaxFrames /\ ~remote /\ ~next_thread
  /\ remote' = TRUE /\ next_thread' = TRUE /\ softint' = TRUE
  /\ UNCHANGED <<ipls, irr, enabled, dpc_queue, late, frames, saved>>
plat_ipi ==
  /\ remote /\ remote' = FALSE /\ irr' = irr \cup {IPL_HIGH}
  /\ UNCHANGED <<ipls, enabled, softint, dpc_queue, late, frames, threads>>

Next ==
  \/ \E level \in Levels : isr_c_entry(level) \/ Device(level)
  \/ IsrExit \/ Iret
  \/ ripl \/ Lower
  \/ xipl \/ LowerHw \/ WriteCr8 \/ CheckSoft
  \/ softint_dispatch \/ SoftLoop \/ SoftDone
  \/ do_dpc_int \/ dpc_queue_run \/ DpcIntEnd
  \/ sched_preempt \/ sched_yield \/ sched_insert
  \/ \E d \in Dpcs : dpc_enqueue(d) \/ dpc_dequeue(d)
  \/ softint_issue_other \/ plat_ipi

-----------------------------------------------------------------------------
Handlers == {i \in DOMAIN frames : frames[i].pc = "handler"}
InDpc == {i \in DOMAIN frames : frames[i].pc = "dpc_run"}

\* Handlers nest by level and deferred calls do not nest, whichever threads are
\* switched in between.  A thread goes on at its level: what is above it is not
\* masked by CR8 (the switch may come between the two stores of ipl.c:24-25 of the
\* other thread, and leave IPL_DPC in CR8), and what CR8 lets through is not taken
\* for masked.  Below IPL_DPC no softint is left but the thread's own or one whose
\* interrupt is on its way; a queued call and a chosen thread have their softint.
LevelsAreKept ==
  /\ \A i, j \in Handlers : i < j => frames[i].ipl < frames[j].ipl
  /\ Top.pc = "handler" => soft_ipl > IPL_DPC
  /\ Top.pc \in {"raised", "dpc_run", "ran", "switched"} => soft_ipl = IPL_DPC
  /\ Top.pc = "thread" => soft_ipl = 0
  /\ Cardinality(InDpc) <= 1
  /\ \A i \in DOMAIN saved : saved[i].pc \notin {"handler", "dpc_run"}
  /\ Top.pc \in {"thread", "raised", "handler", "dpc_run", "ran"} =>
       /\ \A level \in Levels : level > soft_ipl => level > cr8
       /\ hw_ipl <= cr8 /\ enabled
  /\ Top.pc = "thread" /\ softint => late \/ remote \/ IPL_HIGH \in irr
  /\ dpc_queue # <<>> => softint \/ InDpc # {}
  /\ next_thread => softint \/ InDpc # {} \/ \E i \in DOMAIN frames : frames[i].pc = "ran"
=============================================================================
