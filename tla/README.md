# TLA+ models of the Yak kernel

This directory holds a specification of the Yak kernel: of the parts whose
correctness depends on the order in which CPUs, threads, timers and interrupts
take their steps, and of the data structures below them. Every definition is a
translation of the C source under `kernel/`; `PROJECT.json` says which lines
each one stands for.

Contents: 1 inventory, 2 plan, 3 modules and how they correspond to the code,
4 runs, bounds and results, 5 fairness, 6 proofs, 7 disagreements found,
8 other behaviour worth knowing, 9 what is not modelled.

## 1. Inventory

| Component | State | Operations | Interacts with | What makes it correct | Modules |
|---|---|---|---|---|---|
| Dispatcher objects (`object.c`, `kevent.c`, `semaphore.c`) | signal count, wait list, obj_lock | signal one or all, latch, clear, reset | waiting threads, timers | no signal lost or duplicated, wait lists hold exactly the waits in progress | `KWait`, `KEvent` |
| Waiting (`wait.c`) | wait phase, wait blocks, wait status of a thread | `sched_wait`, `sched_wait_many`, polling, `thread_unwait` | objects, timers, scheduler | a wait ends once, with the outcome that really happened; no sleep after a signal | `KWait`, `Poll` |
| Timers (`timer.c`, `apic.c`) | per-CPU heap, timer state, one-shot counter | install, uninstall, expiry, arming | waiting, softints | a timer does not outlive its wait; the earliest deadline is armed | `KWait`, `Timers` |
| Mutex (`mutex.c`) | owner word, event | acquire, polling acquire, release | events | exclusion, no thread asleep on a free mutex | `KMutex` |
| Reader-writer lock (`rwlock.c`) | state word, claim count, owner, event | shared and exclusive acquire and release, upgrade | events | exclusion, claims counted exactly, no sleep on a free lock | `RWLock` |
| Scheduler (`sched.c`, `cpudata.c`) | run queues, current and next thread, thread status | insert, preempt, yield, switch, resume, exit | every blocking operation, the reaper | one CPU per stack, no thread lost or queued twice, documented queue policy | `Sched` |
| Thread reaper (`sched.c`, `thread.c`) | reaper queue and event | drain, destroy | scheduler, processes | frees only what has switched off, frees everything | `Sched` |
| Interrupt levels (`ipl.c`, `softint.c`, `dpc.c`, `isr.c`) | software and hardware level, pending softints, DPC queue | raise, lower, deliver, defer | timers, scheduler | nothing masked runs, nothing pending is forgotten | `Interrupts` |
| Interrupt slots (`irq/irq.c`) | slots, their objects, flags and pins | allocate, share | drivers | objects of a slot agreed to share it | `Irq` |
| Inter-processor calls (`irq/ipi.c`, `ringbuffer.c`) | call queues | send, send and wait, drain | page tables | each call runs once before its sender goes on | `Ipi` |
| Processes (`process.c`, `fork.c`, `waitpid.c`, `ps.c`, `exec.c`) | parent pointers, child lists, pid table, wait semaphore | fork, exit, waitpid, destroy, reparent | reaper, semaphores, mutexes | tree consistent, parents never freed while used, every exit noticed | `Process`, `MapSwitch` |
| Job control (`jobctl.c`) | sessions, process groups, references | setsid, setpgid, insert, remove | processes | references exact, members in one session | `JobCtl` |
| Descriptors (`file.c`, `syscall/file.c`) | descriptor table, open files, offsets | open, dup, close, read, seek, fork, exec | processes, vfs | references exact, offset is what was transferred | `FdTable` |
| poll (`syscall/poll.c`) | wait blocks on several files | poll, alarm, timeout | waiting, terminals | no block outlives its wait, no event missed | `Poll` |
| Virtual memory (`vm/map.c`, `fault.c`, `amap.c`, `anon.c`, `object.c`) | entries, copy-on-write layers, page references | map, unmap, protect, fork, fault | processes, rwlock | entries disjoint, private pages private, references exact | `VmMap`, `PageSpace`, `VmFault`, `AddressSpace` |
| Page tables (`generic_pmap.c`) | directories, tables, cached translations | map, unmap, shootdown, large pages | remote calls | no CPU reaches a page that was freed | `PageTable` |
| Address space switches (`vm/map.c`, `sched.c`, `launch.c`) | current map and mask of each CPU | activate, temporary switch, exit, exec | scheduler, processes | no CPU in a map that is freed | `MapSwitch` |
| Allocators (`vm/pmm.c`, `vmem.c`, `kmem_slab.c`) | buddy lists, segments, magazines and slabs | allocate, free | everything | no overlap, nothing lost, coalescing complete | `Pmm`, `Vmem`, `KmemSlab` |
| File systems (`fs/`) | vnodes, locks, references, directories | lookup, create, link, symlink, mount | descriptors | references and link counts exact, a lookup finds what its path names | `Vfs` |
| Terminals (`io/tty/`) | line and read buffers, readers | input, read, tcsetattr, poll | waiting | input read once, in order and whole | `Tty`, `RingBuffer` |
| Boot (`init_node.c`, `clocksource.c`, `arch/x86_64/init.c`) | dependency graph, clock list, CPU table | register, run, select, start | everything | a task runs once and after what it needs; each CPU has its clock and number | `InitGraph`, `SmpBoot` |
| Tables and trees (`hashtable.c`, `subr_tree.c`) | slots, nodes | insert, find, remove, grow | vfs, vm | what was stored is what is found | `HashTable`, `RBTree` |
| Spinlocks, drivers, I/O objects, diagnostics, library | - | - | - | see section 9 | - |

What is hard to test here: most of this is executed by several CPUs at once,
with soft interrupts and timer expiry in between, under two levels of locks
(`obj_lock`, `thread_lock`) that waiters and signalers take in different
orders, and with words accessed without any lock (`mutex.c`, `rwlock.c`,
`current_thread` in `sched.c`, page reference counts, `current_map`). The
single-threaded parts (arenas, map entries, trees, tables, boot order) have
many cases and reach them only after long sequences of calls. `PROJECT.json`
lists the places one by one under `hazards`.

## 2. Plan

Written so far, in this order: `WaitList`, `KEvent`, `KMutex` (first theorems),
`KWait`, `RWLock`, `Sched`, `Process`, `AddressSpace` and `VmFault` (first
refinement); then `Ipi`, `PageTable`, `Pmm`, `Vmem`, `KmemSlab`, `VmMap` and
`PageSpace` (second refinement), `RBTree`, `HashTable`, `JobCtl`, `FdTable`,
`Vfs`, `RingBuffer`, `Tty`, `MapSwitch`, `Poll`, `Interrupts`, `Irq`,
`InitGraph`, `SmpBoot`, `Timers`.

The theorems, in the order of their proofs: exclusion and no lost wakeup of
`KMutex`, exclusion and claim counting of `RWLock`, the wait lists and tokens of
`KWait`, the stacks and queues of `Sched`, the family of `Process`, the counts
and the refinement of `VmFault`, the arming of `Timers`, the entries of `VmMap`
and its refinement of `PageSpace`, the references of `JobCtl`, the maps of
`MapSwitch` (section 6). Next would be `DescriptorsAreExact` of `FdTable` and
`PagesAreExact` of `Pmm`.

Abstract specifications still worth stating: a counting semaphore with atomic
wait and signal that `KWait` implements; an atomic lock that `KMutex` and
`RWLock` implement; a tree with atomic reaping that `Process` implements.

## 3. Modules

Names follow the source wherever TLA+ allows it: an action that is a whole C
function has the function's name, an action that is a part of one is named for
what the part does. Definitions of the form `Action_Variant` are plausible
mistakes in that action; they are not part of any specification and only serve
to show that a property would notice the mistake.

Waiting and locks:

* **`WaitList`**: a wait list as a sequence of threads without repetition;
  `Unlink` is `TAILQ_REMOVE`.
* **`KEvent`**: a synchronisation event as the locks use it: `event_alarm`,
  wait, dequeue as single atomic steps on a record (count, list). An alarm
  skips blocks whose wait has expired (`kobject_signal_locked`); if it
  meets only such blocks it wakes nobody and, as in `kevent.c`, latches nothing.
* **`KMutex`**: `mutex.c`. `owner` is the atomic word (`Unowned` is its NULL),
  `event` the latch, `mpc` the position of each thread. The compare-and-swap, the decision to
  wait, the wait, the owner reset and the alarm are separate steps. `wasted`
  is a history variable: 1 once an alarm met only blocks of expired waits.
* **`KWait`**: `wait.c`, `object.c`, `kevent.c`, `semaphore.c` and the part
  of `timer.c` that a wait uses, each step being what happens between two
  lock operations. A signaler that holds `obj_lock` walks over the list one
  block per step (`SignalSkip`, `SignalWake`) while other threads go on.
  `semaphore_reset` is not locked in the source: its store may fall between the
  load and the store of an acquire or of a signaler, which overwrites it, or
  between the test and the load of an acquire, which then takes the count to -1
  (`semaphore_reset_RacingAcquire`, `semaphore_reset_RacingSignal`). Histories
  (`issued`, `granted`, `discarded`, `swallowed`, `overruns`, `got`) tell what
  became of each signal.
* **`RWLock`**: `rwlock.c`, one action per atomic access. The state word is a
  record of the exclusive bit and the number of readers; `seen` is the value a
  thread loaded and compares with later.
* **`Poll`**: `poll.c` over `sched_wait_many`. A poller queues one block per
  object (`Queue`), commits, sleeps, is woken by `event_alarm` or the timeout
  and unlinks its blocks one by one. `robbed` remembers files whose alarm went
  to another poller, `stale` that a wait returned at a later object and left
  blocks behind, `stopped` where the kernel would stop.

Scheduling and interrupts:

* **`Sched`**: `sched.c`, softint delivery and the reaper. Per CPU: current
  and next thread, three run queues, the pending DPC bit and the position in
  `sched_preempt`, `sched_yield` or `swtch`; per thread: status, switching
  flag, lock, affinity. The idle thread of a CPU is named by the CPU.
* **`Interrupts`**: one CPU's levels with the lazy scheme of `isr.c`: raising
  stores `soft_ipl` only, an interrupt that comes anyway raises `cr8` and is
  sent again. Softints and deferred calls run when the level falls. `frames` is
  the stack of the thread that runs, `saved` that of a second one: `do_dpc_int`
  switches after its deferred calls if a thread was chosen, and a thread at
  `IPL_DPC` may yield. A switch takes the levels along as they are, so each
  thread goes on with the `cr8` the other one left.
* **`Irq`**: allocation of vectors by level or by number and what a slot
  remembers; `handling` is an interrupt between the two reads of the trigger
  mode.
* **`Ipi`**: the queues under their locks, `pending` interrupts, handlers, and
  senders that wait for the count on their stack.
* **`Timers`**: time, in steps of the hardware counter, is `left` until each
  deadline; `fresh`, `queued` and `update` are the softint, the deferred call and
  its position, `alarm` what the hardware counts, 0 when the counter is disarmed.
  A millisecond is `MS` steps; `ticks_per_ms` is what `lapic_calibrate` takes it
  for (the sum of ten runs divided by eleven, then made the next multiple of
  `Step`), and `plat_arm_timer` converts with it. `excess` is how much later the
  hardware goes off for that, `failed` why the last arming does not hold at all:
  the difference wrapped around, or the count was cut to 0.

Processes:

* **`Process`**: `process.c`, fork, exit, waitpid and the process part of
  `kthread_destroy`. A process is its pid. `owner` gives the holders of the
  `child_list_lock`s; `todo` and `found` are the locals of the scan.
* **`JobCtl`**: sessions and groups as records of members and reference
  counts. fork reads the parent's group and uses it later.
* **`MapSwitch`**: for each CPU the translation register and `current_map`,
  for each map the CPUs it is mapped on. The four steps of `vm_map_activate` are
  apart, since a thread can be preempted between them. `inherited` is a history:
  the CPU went to the kernel's map in an exit and no switch has changed it since.
* **`FdTable`**: `op` is a call in progress, which holds a file reference
  while another process uses the same file. `moved` is the offset that all
  transfers together should have reached.

Memory:

* **`AddressSpace`**: what mmap, munmap, fork and memory accesses promise to
  processes, without frames, reference counts or page tables: a private page
  changes by its own process's stores only, a shared page by those of
  everybody who inherited it.
* **`VmFault`**: `fault.c`, `amap.c`, `anon.c`, `object.c`, `aobj.c`, and
  from `map.c` the operations on one entry. An address space has one page.
  `entry`, `slot` and `pte` are its map entry, the anon in the entry's amap and
  its page table entry; `refcnt` and `content` belong to the anon or object in
  a frame. The check of the count with the copy, the dereference of the old
  anon and the mapping of the copy are separate steps, as the other sharers
  drop references without the lock. If that makes the dereference the last one
  (label `freed`), the release of the freed lock either goes through or panics
  (section 7, 6).
* **`PageSpace`**: what a map promises page by page, over several pages.
* **`VmMap`**: the entries of one map. The search for a free range tries the
  hint and then goes from the end of one entry to the next (`FreeRange`); fixed
  mappings; munmap and mprotect carve the entries at the borders of their range
  (`Pieces`: what is left of the range and right of it). An mprotect that an entry
  refuses (`Denied`) has changed those before it (`Reached`). Objects have the
  references of the entries that map them.
* **`PageTable`**: CPUs that allocate, map, unmap and free ranges of the kernel
  map with one load or store of an entry per step, over the module `Ipi` for
  shootdowns. `tlb` is what a CPU may still use; large pages are an operator
  checked against all small inputs (`LargeMapIsExact`).
* **`Pmm`**: a block that was dropped by its last user and waits for the zone
  lock is in `freeing`.
* **`Vmem`**: an arena is a sequence of tags in address order; `kva` imports
  its spans from `heap`.
* **`KmemSlab`**: magazines per CPU, the depot, the slab lists; a thread begins
  an operation on any CPU and holds no lock on its way from one layer to the
  next.
* **`RBTree`, `HashTable`**: the algorithms with their rotations, probe
  sequences, tombstones and growth, on a set of keys and on a map as reference.

Files, terminals, boot:

* **`Vfs`**: a lookup is a stack of frames (one per symbolic link) that moves
  from vnode lock to vnode lock; calls of two threads interleave there.
  `drift` counts references the code drops or keeps wrongly (section 8).
* **`Tty`** over **`RingBuffer`**: typed characters, the line being edited, the
  buffer of committed input, readers in canonical and raw mode.
* **`InitGraph`**: registration order, dependency edges and the recursive run
  with its stack. **`SmpBoot`**: places in the boot loader's list, the choice
  of clock sources and the handshake of the CPUs; `measured` is the source with
  which a CPU calibrated its timer.

Composition:

* **`MCProgress`, `MCKernel`, `MCResources`** put several modules in one run:
  `MCProgress` extends `KMutex` and `KWait`,
  `MCKernel` extends `Sched`, `Process`, `JobCtl` and `Timers`, `MCResources`
  extends `RWLock`, `VmMap` and `MapSwitch`; the others are instances over shared
  variables. The variable `part` says which of them runs in a behaviour; the others rest. They share a run, not a state: the interactions
  between components are inside the modules (`PageTable` with `Ipi`, `Tty` with
  `RingBuffer`, `Process` with its semaphores and mutexes, `Sched` with the
  reaper).
  In `MCProgress` the wait is run three times, with one object of each kind
  (`OnlyUsed`).
* **`MCKWait`, `MCVmFault`, `MCRWLock`**: model values.
* **`KernelLemmas`** and the modules named **`...Proofs`**: see section 6.

How they build on each other: `KMutex` and `RWLock` use `KEvent`, the atomic
view of what `KWait` shows in detail; `Process` uses semaphores by what
`KWait` establishes (a signal resumes the blocked waiter or is counted) and
mutexes by what `KMutex` establishes; `Sched` carries the reaper that `Process`
sees as the step `kthread_destroy_last`. `VmFault` begins where `Process` forks and
reaps; `VmMap` is the same map over many pages; `MapSwitch` decides which CPU
is in it.

## 4. Runs

| Run | Parts and bounds | Shows |
|---|---|---|
| `Progress` | mutex: 3 threads, one timed; wait on a semaphore, on a synchronisation and on a notification event: 2 threads, 1 signaler, 2 signals; scheduler: 1 CPU, 2 threads and the reaper; processes: 3 pids; remote calls: 2 CPUs, queues of 1 | exclusion, no release is lost; wait lists exact and reached threads really wait (`BlocksAreExact`), no signaled object with a live waiter, each semaphore signal has one fate, outcomes right, timers gone after the wait; and what must eventually happen: a free mutex with a sleeper is taken again (unless an alarm was spent on an expired wait), a timed wait returns, an unwaited thread comes out, every exited thread is freed, a blocked parent reaps a child that exits, a call that a CPU waits for is executed |
| `VmFault` | 3 address spaces, 4 frames, 2 values; mprotect only takes the write permission away | reference counts exact and page tables lead to the right frame (`PagesAreCounted`), pages shared by private mappings read-only; implements `AddressSpace` |
| `Resources` | see the table below | `LockIsExact`, `PagesAreExact`, `ArenasAreExact`, `CacheIsExact`, `EntriesAreSound`, `TablesAreSound`, `PageTablesAreSound`, `DescriptorsAreExact`, `NamespaceIsExact`, `MapsAreSafe`; `VmMap` implements `PageSpace` |
| `Kernel` | see the table below | `StacksAreSafe`, `QueuesAreExact`, `ReapedIsTerminated`, `BestThreadRuns`, `FamilyIsSound`, `BlockedHasNoZombie`, `SessionsAreExact`, `InputIsWhole`, `PollIsSound`, `InterruptsAreSound`, `BootIsOrdered`, `TimersAreArmed` |
| `KWaitLostAlarm`, `RWLockSleep`, `VmFaultProtect`, `VmFaultLastRef`, `PmmBuddyRace`, `PollStaleBlock`, `SchedIdle`, `TimerWrap` | one part, the same instances or smaller ones | violated: see section 7 |

The five properties of waiting are theorems for any threads, objects and
signals (section 6). The run has what its liveness properties can bear: a thread waits for one
object at a time, two threads and two signals give every race of a signal, a timeout and a reset,
and a late timer or block of one wait meets the next wait on the same object.

Parts of `Resources`:

| Part | Bounds | Why they are enough |
|---|---|---|
| rwlock | 3 threads, all may read, write and upgrade, one may time out | one holds, one was woken, one barges in |
| pmm | 3 orders, 3 zones of 6, 2 and 2 pages with metadata, 2 users of a page | two merges in a row, an incomplete buddy at a zone's end, a zone that never allocates |
| vmem | two arenas, spans of 5 and 2 quanta, sizes 1 to 3 | a segment free on both sides, imports larger than the request |
| slab | 2 threads, 2 CPUs, magazines of 0 or 1, 2 slabs of 2 chunks | swap, reload and depot with both magazines, both slab lists |
| map | addresses 1 to 5, lengths 1 and 3, 2 objects | a call that covers, cuts left, cuts right and splits an entry |
| tree, table | keys 1 to 9; 4 keys, capacity 4 to 16 | every case of the rebalancing, two doublings with tombstones |
| pmap | 2 CPUs, 3 ranges, 2 pages per table, batches of 2 | a range over two tables, a batch and a rest, two CPUs in one directory |
| fds | 2 processes, 2 files, table of 1 growing to 2 | a shared offset, a full table |
| maps | 2 CPUs, 4 threads, 3 maps (unused ones are alike), 2 processes | exec while another CPU exits and the reaper frees |
| vfs | 2 threads, 10 calls of which each makes 2, after the boot | "..", links to "..", mount points, creation below a link, races for one name |

Parts of `Kernel`:

| Part | Bounds | Why they are enough |
|---|---|---|
| smp | 2 CPUs, a time-shared thread, the reaper and a real-time thread above it | a thread is resumed from elsewhere while it switches off; a chosen next thread is displaced by a better one; an exit on one CPU and the reaper on the other |
| uni | 1 CPU, 5 threads of all classes | every pair of classes |
| process | 4 pids | init, a parent, a child and a grandchild: an orphan of an orphan |
| jobctl | 4 processes, sessions and groups | a group that outlives its leader, a move during a fork |
| tty | 2 readers, buffer of 3, 4 typed characters, 3 modes | a line longer than the buffer, robbed wakeups, a change of mode under a reader |
| poll | 2 pollers, 2 files, 3 inputs | a later file is ready, an alarm goes to the other poller |
| levels | 2 hardware levels above DPC, 2 deferred calls, 2 threads; remote softints while a stack has at most 2 frames | a handler in a handler in a deferred call, lazily masked interrupts, a switch between the two stores of `ripl` |
| irq | 3 objects, 4 levels, 6 kinds of request | wildcards that are not transitive |
| graph | 3 tasks, 2 stages, 1 dependency each | dependencies across stages |
| boot | 4 places in the list, 3 sets of clock sources | the boot CPU first, in the middle and last |
| timers | 2 timers, deadlines 0 to 11, counters of 4 and 64, a rate of 3 measured for a true one of 2 | a deadline in the past, a far one, a new earliest one, a hardware timer that is late |

`MaxSignals`, `MaxPid`, `Frames`, `MaxTyped`, `MaxInputs`, `MaxCalls`,
`MaxSlabs`, `MaxShares`, `MaxOffset`, `MaxFrames`, `MaxSince`, `MaxLate` and the queue capacity of
`Ipi` are the bounds on behaviours; everything else is finite by itself.
Symmetry is used in `VmFault` (address spaces but the first, frames), which has
no liveness property.

Deadlock checking is off: in all these parts everybody may legitimately stop,
nobody is obliged to signal, to fork, to type or to run; and the two cases in
which the kernel really hangs (section 8) are reachable states of `Ipi` and
`Vfs`.

`BestThreadRuns` holds of one CPU as `sched.c:11-13` says it. On two it leaves
out a CPU at which the other one has inserted a thread in the middle of a
switch, between the choice of the next thread and the store of
`current_thread`, and which has not gone through `sched_yield` since: there
`sched_insert` compares with a thread that is about to go. Either comment may
then be violated. `SchedIdle` shows it of line 11; against line 12, a
time-shared thread that is inserted while its CPU switches from the idle thread
to a real-time thread becomes `next_thread` and preempts it.

Some invariants exclude by name what the code gets wrong, so that they hold of
the rest: `BlockedHasNoZombie` excludes init, `PagesAreReachable` tables of a
directory entry that two CPUs raced for, `InputIsWhole` a reader whose signal
another reader took, `PollIsSound` what follows a wait that returned early,
`TimersAreArmed` an arming that wrapped around (the run `TimerWrap`) or was cut
to 0, `NamespaceIsExact` the drift of references, `MapsAreSafe` a thread that
starts in the kernel's map because of the comparison of owners, `SlotsAreSound` a
slot whose mode changes under its handler, `BootIsOrdered` the task linked last.
`PagesAreCounted` says of counts that they are exact, not that nothing is freed
too early, which is `DerefIsSafe` and false (`VmFaultLastRef`); and
`EntriesAreSound` says nothing of what follows the failed assertion of
`carve_entry`. Each of these is described in section 7 or 8.

## 5. Fairness

* Code at `IPL_DPC` or under a spinlock is not preempted, so the steps of a
  thread inside `sched_wait`, of a signaler and of a CPU inside the scheduler
  are weakly fair.
* A thread that runs and holds a mutex eventually releases it; a thread in
  the acquire loop eventually gets to try. Weak fairness per thread; nothing
  is assumed about who wins.
* A timer that is armed eventually fires: the update that installing it has
  enqueued arms the one-shot counter of the local APIC for the earliest
  deadline, and its interrupt enqueues the next update. That this chain has no
  gap is `TimersAreArmed`, with the exceptions named there.
* The reaper is resumed as often as its event is signaled (strong fairness on
  `Resume` of the reaper: the wakeup is repeatedly possible, and the alarm
  does take place).
* A process inside a system call, and a thread that exits, go on (weak
  fairness of `SyscallStep` and `kthread_destroy_last`).
* A remote call interrupt that is raised on a CPU that does not handle one is
  taken, and the handler runs to its end (weak fairness of `ipi_handler`, `TakeCall`
  and `Executed`). Nothing is assumed of a sender that spins for a queue lock:
  the lock is a test-and-set lock without an order, so `CallsAreExecuted`
  begins where a sender waits for the count.
* Nobody is obliged to acquire, to wait, to signal, to fork or to exit.

## 6. Proofs

TLC checks the properties of section 4 on the instances given there. The
following are theorems: they hold for every value of the constants. Each module
proves `Spec => []IInv` for an inductive invariant `IInv` that was first
checked with TLC, and takes the properties from it.

| Module | Theorem | Property | For every |
|---|---|---|---|
| `RWLockProofs` | `RWLockExact` | `LockIsExact` | finite set of threads, any timed, any upgrading |
| `KWaitProofs` | `BlocksExact`, `NoLostWakeup`, `TokensConserved`, `OutcomeTold`, `TimerDisarmed` | `BlocksAreExact`, `SignaledHasNoWaiter`, `SemaphoreConservation`, `OutcomeMatchesSignals`, `TimerEndsWithWait` | set of threads, objects and signallers, any bound on the signals |
| `SchedProofs` | `OneStackEach`, `NoThreadLost`, `ReapsTerminated` | `StacksAreSafe`, `QueuesAreExact`, `ReapedIsTerminated` | set of CPUs and threads, all priorities |
| `ProcessProofs` | `FamilySound`, `NoZombieMissed` | `FamilyIsSound`, `BlockedHasNoZombie` | number of processes |
| | `SessionsExact` | `SessionsAreExact` | finite sets of processes, sessions and groups |
| `VmFaultProofs` | `PagesCounted` | `PagesAreCounted` | finite set of address spaces, any frames and values |
| | `UnsharedWrites`, `CopyOnWrite` | `WritableIsUnshared`, the refinement `ImplementsAddressSpace` | the same, without `mprotect(PROT_WRITE)` |
| `MachineProofs` | `TypeCorrect`, `MutexExcludes`, `MutexWakes` | `MutexTypeOK`, `MutualExclusion`, `NoLostWakeup` | set of threads, any of them timed |
| | `TimersArmed` | `TimersAreArmed` | set of timers and deadlines, any true rate, any rounding of the measured one, any width of the counters |
| | `EntriesSound` | `EntriesAreSound` | address range, hints, lengths, objects |
| | `MapShowsPages` | the refinement `ImplementsPageSpace` | the same |
| `MapProofs` | `MapsSafe` | `MapsAreSafe` | sets of CPUs, threads, processes and maps |

**Lemmas.** `KernelLemmas` has what all of them need: the list operations
(`RemoveAtProps`, `UnlinkProps`, `AppendProps`, `SuffixProps`, `TailProps`,
`ConcatProps`: which elements remain, and that nothing is there twice), the
least element of a set of positions (`SmallestNat`), and how the cardinality of
a set changes when one element comes or goes (`CountStep`, `CountSmall`).
`AlarmProps` summarises `event_alarm` for the two locks: it latches if the list
is empty, else it wakes the first live block and drops the dead ones before it,
else (only dead blocks) wakes nobody.

**Assumptions.** The constants are assumed to be what their names say:
`MutexAssumption`, `RWLockAssumption`, `WaitAssumption`, `SchedAssumption`,
`VmAssumption`, `TimersAssumption`, `VmMapAssumption`, `JobCtlAssumption` and
`MapSwitchAssumption` say that `NULL` and the like are not threads, objects, maps or frames,
that sets that are counted are finite, that times, addresses and ids are
natural numbers and the divisors among them (clock periods, counter widths) are
not 0, that the kinds of object are disjoint,
that priorities are at most `SCHED_PRIO_MAX` (`sched.h:24-33`; `ready_mask`
has no bit for a higher one), and that there is room for init
(`ProcessAssumption`). TLC evaluates them in the runs. `UnsharedWrites` and `CopyOnWrite` have the
hypothesis `Protects \subseteq {FALSE}`: no call of mprotect adds write access.
It cannot be dropped, since with it `WritableIsUnshared` is false of the code: the
run `VmFaultProtect` shows it, and section 7 tells how. `PagesCounted` does not
need it.

**Why the invariants are what they are.**

* *Mutex.* Mutual exclusion alone is not inductive: an alarm removes blocks
  from the list and sends the thread it wakes back to the loop, which is
  harmless only if the owner's block is never on the list. `Linked` says that
  the list has no repetitions and that every thread on it is blocked or
  expired. `MutexWakes` takes `IInv /\ NoLostWakeup` as its invariant; the
  third case of `AlarmProps` is the one that sets `wasted`, and the only one in
  which the implication would fail.
* *Rwlock.* A compare-and-swap succeeds if the state word is still the one that
  was read, so `SeenIsSafe` says what a thread knows of the word it has read at
  each point, and `OwnerHolds` that `exclusive_owner` is cleared before the
  state word is. `Change` is the common form of the steps that do not touch
  the event, `QueueIInv` and `AlarmIInv` treat those that do.
* *Waiting.* `WaitState` gives the meaning of `wait_phase`, the thread's status
  and `WB_UNWAITED` at each point of `sched_wait`; `TimerState` says when the
  timer or its block may be armed, `OutcomeState` what the wait has consumed
  so far, `LockState` who is inside `obj_lock` and how far its loop over the
  blocks is. `TokensConserved` gives each signal one fate: on its way, counted,
  consumed by a wait, dropped by a reset or swallowed by a count of -1; the last
  happens only after a reset that overran an acquire, at most once for each. That no signal is lost depends on all of them: the signaller
  picks a block that is not `WB_UNWAITED`, and that this block's thread is
  still in the wait is a matter of the status words, not of the list.
* *Scheduler.* `CpuState` says what the locals of a switch (`nxt`, `prev`) and
  the lock, the flag `switching` and the status of the threads they name mean
  at each point between choosing a thread and finishing the switch; `LockState`
  that only a CPU which leaves a thread holds its lock; `PlaceState` that the
  status of a thread tells where it is; `ReaperState` that what was handed to
  the reaper has terminated or is about to, and that `freed` threads have been
  switched off. The lock is what keeps a thread that is resumed elsewhere, or
  reaped, from running on the stack that its CPU still uses.
* *Processes.* The consistency of child lists and parent pointers breaks, for a
  moment, inside fork, waitpid and `process_destroy`. `Calls` says what each of
  these holds while it does: a live child nobody else can see, a zombie that is
  in no list, an orphan on its way to init. `Placed` says that a process is in
  its parent's list or held by one call, and `NoOrphanLeft` concludes that
  nothing points to a process when it is freed. `Noticed` carries
  `BlockedHasNoZombie` back through the scan: a zombie that the scan has passed
  while it lived has left a signal, which keeps the parent from blocking.
  `Counted` bounds the semaphore by the number of deaths, which is why its
  type is kept.
* *Copy on write.* `Owns` is what one address space has of a frame: its amap's
  slot, the page being copied, its object and the amap's reference to it. A
  step changes what one address space owns and the reference count alike
  (`OwnsStep`), which keeps the counts exact. `CopyIsOwn` says that the
  handler's fresh copy has one reference until the page is mapped, and
  `FrameKinds` that a frame is for its whole life an anon, the page of a shared
  object or that of a private one. The refinement `CopyOnWrite` maps a store to
  `Write`, a fork to `Fork`, `vm_map` to `Map`, an exit to `Exit`, the step of
  an unmapping (or of the destruction of a map) that drops the entry to
  `Unmap`, and every step of a fault to a stutter: `CalmStutters` reduces that
  to showing that no process sees its page change.
* *Timers.* `TimersAreArmed` is inductive with its types; the argument is one of
  arithmetic. `RateNat` says that the calibrated rate is a positive number, whatever
  the true one is; `MillisBound` that the milliseconds to which a deadline is
  rounded end less than a millisecond after it; `TicksBound` that the ticks
  for them, cut to the width of the counter, are at most the true time and the `excess`
  of the rate. When the update takes the root of the heap, no timer that is still
  queued has an earlier deadline, so what is armed for the root is in time for all.
* *Address map.* `Sound` (entries are not empty, inside the map, pairwise
  apart) is kept because every step replaces some entries by disjoint parts of
  themselves (`SplitSound`, `CutOffProps`, `ChangedProps`) or adds one in a free
  range (`FreeRangeProps`: the range the search returns is free, although it
  looks at each entry's successor only). The counts follow the entries
  (`CountSwap`, `CountReplaced`): an entry that is cut in two adds a reference.
  The refinement maps the entries to a function of pages, `SpaceAt`: what the
  entry that covers a page says of it, which is well defined since entries are
  apart. munmap maps to `Unmap` (`UnmapSpace`), an insertion to `Map`
  (`InsertSpace`), and mprotect to `Protect` of the pages up to the first that
  refuses (`ProtectRange`: in order of addresses the entries that were changed
  are a prefix).
* *Job control.* That the counts are exact says nothing of a group whose session
  is gone. `JobGroups` adds that a group is listed in the session it names and
  keeps a reference for as long as it names one; `JobProcs` that the session and group a fork has read and not yet used
  belong together, which is what keeps the child's insertion in one session.
  `SessionCounted` and `GroupCounted` turn a change of the members into the
  change of the count, once for all steps.
* *Address space switches.* `MapsAreSafe` says that a thread in user mode is in the
  map of its process, or in the kernel's if its CPU went there in an exit and has run only
  threads of the same owner and of the kernel since (`inherited`), and that no CPU is in a map that was freed.
  Neither is kept by itself, since the four steps of `vm_map_activate` and those
  of an exec are apart and the thread may be preempted between any two.
  `Remembers` says what a thread has noted at each of these places, `Stands`
  where the CPU of a running thread therefore is, and `CpuState` that the
  register, `current_map` and the masks differ only by what one thread is about
  to do, and that the map a CPU is in, if no longer that of its thread, is used
  by a thread that comes back to this CPU. `OwnMaps` keeps a map from serving
  two purposes or being used once freed, `ProcState` counts the threads and makes
  one that executes an exec alone in its process, `BootState` keeps everybody else away
  until the kernel's main thread has launched init. From these `NobodyUses` and
  `PrivateUnmapped` conclude, when a map is destroyed, that no CPU is in it.

**Only model-checked.** All temporal properties under fairness (they need
ENABLED, which is out of the prover's reach); the recursive algorithms of
`RBTree` and what other definitions compute by recursion over data (induction
theorems cannot be instantiated here); `BestThreadRuns`, which on several CPUs has
an exception that is a history of the run. Of the invariants of `Resources` and `Kernel`: `PagesAreExact`,
`ArenasAreExact`, `CacheIsExact`, `TablesAreSound`, `PageTablesAreSound`,
`DescriptorsAreExact`, `NamespaceIsExact`, `InputIsWhole`,
`PollIsSound`, `InterruptsAreSound`, `BootIsOrdered`: no theorem states them yet.

## 7. Disagreements between the code and what it says of itself

1. `KWaitLostAlarm`: `kevent.c:20` "Wake a single waiter, signal is
   consumed". With only blocks of expired waits on the list, an alarm wakes
   nobody and latches nothing. For a `kmutex` this means a thread that sleeps
   on a free mutex (`wasted` in `KMutex`).
2. `RWLockSleep`: `rwlock.c:99` "someone was faster than us, wait for
   release". Readers and writers share an event that wakes one of them; a
   woken reader gives way to a claiming writer by going back to sleep, and the
   writer is not woken.
3. `VmFaultProtect`: `fault.c:120` "in case of a read-fault, map the anons
   page read-only, regardless of the protection". `vm_protect` rewrites the
   page table entries with the protection asked for, and so makes a page
   writable that is shared with another process or belongs to the backing
   object: the store does not fault and the other process sees it. The run
   `VmFault` leaves mprotect(PROT_WRITE) out for this reason.
4. `PmmBuddyRace`: `pmm.c:391` "buddy page has to be on list". A page whose
   last reference was dropped on another CPU, and that waits for the zone lock
   to be put on a list, has no users and its old order: it passes for a free
   buddy.
5. `PollStaleBlock`: `wait.c:359` `assert(thread->status == THREAD_WAITING ||
   thread->wait_phase == WAIT_PHASE_IN_PROGRESS)`. `sched_wait_many` returns at
   the first signaled object (`wait.c:217`) and leaves the blocks it queued on
   earlier objects; a later signal finds such a block of a thread that runs.
6. `VmFaultLastRef`: `fault.c:139` "safe: can't hit free condition". The handler
   has seen more than one reference to the anon it copies, under `anon_lock`;
   the other sharers drop theirs without that lock. If the last of them does so
   while the page is copied, the handler's dereference frees the anon, whose
   lock it then releases.
7. `SchedIdle`: `sched.c:11` "idle queue is only ran once we don't have any
   thread whatsover on any other queue". `sched_yield` drops the lock after it
   chose the idle thread; `sched_insert` of another CPU then compares with the
   thread that is about to go, queues the new one and raises no softint. The
   CPU idles with a runnable thread queued until something else wakes it.
8. `TimerWrap`: `timer.h:35` "arm to deadline relative to clock from above".
   `plat_arm_timer` reads the time anew. If the deadline passed by a
   millisecond since `timer_update` compared it (`timer_lock` is taken in
   between), the unsigned difference wraps around, and the hardware is armed
   for the remainder of a huge number.

## 8. Other behaviour worth knowing

Transitions of the models that no comment or test of the repository speaks
about, met while they were written:

* Memory: a write fault on a read-only entry returns with `map_lock` held
  (`fault.c:47`), so that the process can never be reaped. `carve_entry` asserts
  `split_end < entry->end` (`map.c:177`) although line 242 handles a range that
  ends with its entry: munmap, mprotect or a fixed mapping of the tail of a mapping
  stops the kernel (the state `panicked` of `VmMap`). An mprotect that is refused
  has changed the entries before the one that refused. Two CPUs that fill one empty
  directory of the kernel map overwrite each other's table (`generic_pmap.c:99`).
* Address space switches: `sched.c:99` changes the map only if the owner of the
  thread differs from that of the one before. A thread that exits has put its CPU in
  the kernel's map, so the next thread of the same process there, the one an exec has
  made, starts in the kernel's map and is killed at its first instruction. `execve`
  attaches the user thread that called it to the new map while it loads the image;
  preempted there, it is switched back to with a `vm_ctx` that is not NULL, and fails
  the assertion of `sched.c:96` (the state `stopped` of `MapSwitch`).
* Semaphores: a reset that races with a signal may be overwritten, one that races with
  an acquire may leave a count of -1, which a later signal only takes back to 0.
* Remote calls: `do_ipi` holds the queue lock of its target at `IPL_DPC`
  (`ipi.c:51`), where its own handler may run and spin for its own queue lock. If
  two CPUs do so to each other, both spin for ever; a handler that is fed without
  end keeps a sender waiting.
* Processes: when init reaps a zombie that has children, `process_destroy` acquires
  the `child_list_lock` that `waitpid` of init holds (`process.c:212`; `mutex.c:26`
  asserts the opposite): in `Process` init stays there for ever. A zombie child that is
  handed to init does not signal init. The last
  reference to a group, or session, ends in `panic("todo")`; a new group keeps the
  reference of its creation and is not entered in the table of groups.
* Descriptors: when the table has to grow, F_DUPFD returns the first new number
  even if it is below the minimum. A seek relative to the offset is no atomic
  access and races with a read through the same open file in another process.
* Names: `openat` with a relative path drops the directory it starts from once too
  often (`syscall/file.c:307`; the lookup has consumed that reference), so that the
  working directory of a process ends with fewer references than users; an exclusive creation that lost the race returns an error
  where the file could be opened; a lookup of `a/..` against one of `a`, and a link
  against a lookup, may wait for each other's vnode lock; `link(f, "f/x")` locks a
  vnode twice.
* Terminals: an alarm may wake a reader after another took the input; a reader
  with VMIN above its buffer size spins with the read mutex; a line that does not
  fit is cut.
* poll: a timeout goes round the loop and waits again (`poll.c:89`), so that poll
  with a timeout returns only when a file gets ready; two pollers of one file take
  each other's alarm.
* Interrupts: a shared slot keeps the flags and pins of the newest request
  (`irq.c:113`), so that three objects may share without every pair agreeing, and an
  allocation while the slot's interrupt is handled makes it be acknowledged twice
  or never (`isr.c:200`). A thread that is switched away between the two stores of
  `ripl` (`ipl.c:24-25`) leaves `IPL_DPC` in `cr8` for the next one at level 0: that
  masks no interrupt, since softints are not sent through the APIC at that level.
* Boot: the loop over the nodes of the first stage leaves out the last node
  (`init_node.c:78`), so that the stage is reached without the task linked last, if that
  task belongs to it; if the boot CPU is not the first in the loader's list, it waits
  for ever for its own flag (`init.c:417`). The boot CPU measures its timer with the
  best source there is before the late ones are registered.
* Timers: `lapic_calibrate` divides the sum of ten runs by eleven (its loop leaves
  `runs` at 11) and makes the quotient the next multiple of 100000 (`apic.c:140`).
  Where the counter makes fewer steps in a millisecond than that, every timer is late in
  proportion to its time, several times over for a counter of 25 MHz: `TimersAreArmed`
  bounds it by `excess`. Where it makes more, a timer may go off early and is armed
  again. The ticks of a far deadline may be cut to 0, which disarms the counter.

## 9. Not modelled

See `components` in `PROJECT.json` for the reason of each. Left out as a whole:
spinlocks (three lines; lock variables where their interleavings matter),
drivers and device registers, the C++ object framework that matches drivers at
boot, printing and symbol tables, string functions. Of the modelled parts:
`poll_many` (the callers of `sched_wait_many` block); file mappings, MMIO entries and the contents of files;
the segments of an image that `exec` loads; output, echo and signals of
terminals; negative descriptors; more than one thread per process apart from
the moment of an exec (`SYS_EXIT` itself warns that it does not stop siblings);
memory exhaustion; the wrap of reference counts. The models assume sequentially
consistent atomics; the source uses acquire/release orders on x86, where the
difference is limited to store-load reordering.
