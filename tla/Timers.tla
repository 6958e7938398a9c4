-------------------------------- MODULE Timers --------------------------------
(* The timers of one CPU (core/timer.c) and the hardware timer behind them     *)
(* (arch/x86_64/apic.c): installation by threads of the CPU, the update that   *)
(* runs as a deferred call, cancellation by any CPU, and time that passes      *)
(* between any two steps.  nstime_t is unsigned, the counter of the local APIC *)
(* is narrower than it, and the rate at which it counts is measured at boot.   *)
(* The unit of time is one step of that counter.                               *)
EXTENDS Integers

CONSTANTS
  TimerSet,   \* the timers
  Deltas,     \* times to wait
  TimeMod,    \* 2^64, the values of nstime_t
  MS,         \* a millisecond: the steps that the counter really makes in it
  Step,       \* 100000, of which the measured rate is made a multiple
  LapicMod,   \* 2^32, the values of the initial count
  MaxSince,   \* bound on the time an update needs to get timer_lock
  MaxLate     \* a deadline that has passed longer ago is not told apart

\* Time is unsigned, and the four sizes are not zero.
ASSUME TimersAssumption ==
  /\ Deltas \subseteq Nat
  /\ {MS, Step, TimeMod, LapicMod} \subseteq Nat \ {0}
  /\ MaxSince \in Nat /\ MaxLate \in Nat

\* Times are relative to the present, so that it needs no bound.
VARIABLES
  timer,      \* timer -> [state, left], left: the time to its deadline
  fresh,      \* a thread has inserted a timer and not yet enqueued the update
  queued,     \* timer_update_dpc is queued
  update,     \* "idle", "time" or "root": where timer_update is
  since,      \* how long ago the update has read the time
  irq,        \* the APIC's interrupt waits
  alarm,      \* the time until the APIC has counted to zero; 0: it does not count
  failed,     \* history: why the last arming does not hold: "late", "zero" or "no"
  excess      \* history: how much later it goes off for a rate that is too high

timersVars == <<timer, fresh, queued, update, since, irq, alarm, failed, excess>>

timer_init == [state |-> "UNUSED", left |-> 0]
TimersInit ==
  /\ timer = [t \in TimerSet |-> timer_init]
  /\ fresh = FALSE /\ queued = FALSE /\ update = "idle" /\ since = 0
  /\ irq = FALSE /\ alarm = 0 /\ failed = "no" /\ excess = 0

Heap == {t \in TimerSet : timer[t].state = "QUEUED"}
\* The roots the heap may have.
Roots == {t \in Heap : \A u \in Heap : timer[t].left <= timer[u].left}

-----------------------------------------------------------------------------
\* While the update runs, at IPL_DPC, no thread of this CPU does.
timer_install(t, delta) ==
  /\ update = "idle" /\ t \notin Heap
  /\ timer' = [timer EXCEPT ![t] = [state |-> "QUEUED", left |-> delta]]
  /\ fresh' = TRUE /\ UNCHANGED <<queued, update, since, irq, alarm, failed, excess>>
EnqueueUpdate ==
  /\ update = "idle" /\ fresh /\ fresh' = FALSE /\ queued' = TRUE
  /\ UNCHANGED <<timer, update, since, irq, alarm, failed, excess>>
timer_uninstall(t) ==
  /\ t \in Heap /\ timer' = [timer EXCEPT ![t] = [state |-> "CANCELED", left |-> 0]]
  /\ UNCHANGED <<fresh, queued, update, since, irq, alarm, failed, excess>>

\* lapic_calibrate: ten runs of ten milliseconds, but runs is eleven when the sum is
\* divided; the quotient goes up to the next multiple of Step.
wait_ms == 10
runs == 11
ticks_per_ms == (((10 * wait_ms * MS) \div (wait_ms * runs) + Step) \div Step) * Step
\* plat_arm_timer reads the time again and subtracts without a sign; the count is cut
\* to the width of the register.
Millis(delta) == ((delta + MS - 1) % TimeMod) \div MS
plat_arm_timer(left) ==
  LET delta == left % TimeMod
      ticks == Millis(delta) * ticks_per_ms
  IN IF ticks = 0 \/ delta = 0 THEN alarm' = 1 /\ failed' = "no" /\ excess' = 0
     ELSE /\ alarm' = ticks % LapicMod
          /\ failed' = IF left < 0 THEN "late" ELSE IF ticks % LapicMod = 0 THEN "zero" ELSE "no"
          /\ excess' = IF ticks_per_ms > MS THEN Millis(delta) * (ticks_per_ms - MS) ELSE 0

timer_update ==
  /\ update = "idle" /\ queued /\ queued' = FALSE /\ update' = "time"
  /\ UNCHANGED <<timer, fresh, since, irq, alarm, failed, excess>>
ReadTime ==
  /\ update = "time" /\ since' = 0 /\ update' = "root"
  /\ UNCHANGED <<timer, fresh, queued, irq, alarm, failed, excess>>
Due_Soon(t) == timer[t].left <= MS - since
Due(t) == timer[t].left <= -since
\* Under timer_lock: nothing to do, the root to arm, or the root to fire.
Root ==
  /\ update = "root" /\ since' = 0 /\ UNCHANGED <<fresh, queued, irq>>
  /\ \/ /\ Heap = {} /\ alarm' = 0 /\ failed' = "no" /\ excess' = 0 /\ update' = "idle" /\ UNCHANGED timer
     \/ \E t \in Roots :
          IF Due(t) THEN timer' = [timer EXCEPT ![t].state = "FIRED"] /\ update' = "time" /\ UNCHANGED <<alarm, failed, excess>>
          ELSE plat_arm_timer(timer[t].left) /\ update' = "idle" /\ UNCHANGED timer

\* Time passes; the APIC counts down, its interrupt enqueues the update.
Later(left) == IF left > -MaxLate THEN left - 1 ELSE left
Time ==
  /\ update = "root" => since < MaxSince
  /\ since' = (IF update = "root" THEN since + 1 ELSE since)
  /\ timer' = [t \in TimerSet |-> IF t \in Heap THEN [timer[t] EXCEPT !.left = Later(@)] ELSE timer[t]]
  /\ irq' = (irq \/ alarm = 1)
  /\ alarm' = IF alarm = 0 THEN 0 ELSE alarm - 1
  /\ UNCHANGED <<fresh, queued, update, failed, excess>>
apic_handler ==
  /\ irq /\ irq' = FALSE /\ queued' = TRUE
  /\ UNCHANGED <<timer, fresh, update, since, alarm, failed, excess>>

TimersNext ==
  \/ \E t \in TimerSet : (\E delta \in Deltas : timer_install(t, delta)) \/ timer_uninstall(t)
  \/ EnqueueUpdate
  \/ timer_update \/ ReadTime \/ Root
  \/ Time \/ apic_handler

TimersSpec == TimersInit /\ [][TimersNext]_timersVars

-----------------------------------------------------------------------------
Pos(left) == IF left < 0 THEN 0 ELSE left
OnItsWay == fresh \/ queued \/ irq \/ update # "idle"

\* A queued timer is on its way: an update is due or running, or the hardware goes
\* off after its deadline by a millisecond at most, and by what the calibrated rate
\* is too high for the milliseconds it was armed for; unless the arming came so late
\* that the difference wrapped around, or the count of a far deadline is zero
\* (HardwareIsOnTime is about these).  No timer fires early.
TimersAreArmed ==
  /\ \A t \in Heap :
       OnItsWay \/ failed # "no" \/ (alarm # 0 /\ alarm <= MS + excess + Pos(timer[t].left))
  /\ \A t \in TimerSet : timer[t].state = "FIRED" => timer[t].left <= 0

\* "arm to deadline relative to clock from above" (timer.h:35): the hardware goes off
\* at the deadline of every queued timer, to the millisecond to which it is armed.
HardwareIsOnTime ==
  \A t \in Heap : OnItsWay \/ (alarm # 0 /\ alarm <= MS + Pos(timer[t].left))
=============================================================================
