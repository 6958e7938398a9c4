------------------------------ MODULE Process -------------------------------
(***************************************************************************)
(* The process tree: fork (syscall/fork.c, process.c), exit (syscall/ps.c, *)
(* thread.c), waitpid (syscall/waitpid.c) and process_destroy, which hands *)
(* the children of a dead process to init.                                 *)
(*                                                                         *)
(* Every process has one thread: SYS_EXIT does not yet stop siblings.  The *)
(* child_list_lock mutexes are variables, because waitpid keeps its own    *)
(* over the whole of process_destroy; what happens under the spinlock      *)
(* thread_list_lock is one step.  The wait semaphore is used by what       *)
(* KWait.tla establishes of it: a signal resumes the blocked waiter, or is *)
(* counted.  The address space, the file table and job control of a        *)
(* process are no part of this module.                                     *)
(***************************************************************************)
EXTENDS Integers

CONSTANT MaxPid   \* bound: pids handed out

ASSUME ProcessAssumption == MaxPid \in Nat /\ MaxPid > 0

Procs == 1..MaxPid  \* a process is named by its pid
Init1 == 1          \* the init process
NONE == 0
ANY   == -1         \* waitpid's pid argument for any child

VARIABLES
  state,     \* process->state; "UNBORN" before the fork, "FREED" after kfree
  parent,    \* process->parent_process
  children,  \* process->child_list
  next_pid,  \* the pid the next process gets
  pid_table, \* processes that lookup_pid finds
  sem,       \* count of process->wait_semaphore
  owner,     \* owner of process->child_list_lock, or NONE
  pc,        \* what the thread of the process does
  want,      \* waitpid: its pid argument
  nohang,    \* waitpid: WNOHANG
  todo,      \* waitpid: children the loop has not looked at
  found,     \* waitpid: found_child
  subject    \* fork: the new process; waitpid: the zombie it reaps

treeVars == <<state, parent, children, next_pid, pid_table>>
callVars == <<want, nohang, todo, found, subject>>
processVars == <<treeVars, sem, owner, pc, callVars>>

PCs == {"none",     \* no thread: not started, or reaped by the thread reaper
        "user",     \* outside these system calls
        "link",     \* fork: insert the child in the child list
        "start",    \* fork: create and resume the child's thread
        "lock",     \* waitpid: kmutex_acquire(child_list_lock)
        "scan",     \* waitpid: in LIST_FOREACH
        "wait",     \* waitpid: sched_wait(&proc->wait_semaphore)
        "blocked",  \* ... blocked in it
        "destroy",  \* waitpid: process_destroy, next child of the zombie
        "adopt",    \* ... that child is unlinked, to be given to init
        "free",     \* ... the zombie has no pid any more
        "exited"}   \* on the reaper queue

Enter(p, label) == pc' = [pc EXCEPT ![p] = label]

ProcessInit ==
  /\ state = [p \in Procs |-> IF p = Init1 THEN "ALIVE" ELSE "UNBORN"]
  /\ parent = [p \in Procs |-> NONE]
  /\ children = [p \in Procs |-> {}]
  /\ next_pid = 2
  /\ pid_table = {Init1}
  /\ sem = [p \in Procs |-> 0]
  /\ owner = [p \in Procs |-> NONE]
  /\ pc = [p \in Procs |-> IF p = Init1 THEN "user" ELSE "none"]
  /\ want = [p \in Procs |-> ANY]
  /\ nohang = [p \in Procs |-> FALSE]
  /\ todo = [p \in Procs |-> {}]
  /\ found = [p \in Procs |-> FALSE]
  /\ subject = [p \in Procs |-> NONE]
-----------------------------------------------------------------------------
(* fork *)

\* uprocess_init: a process with its parent pointer and its pid.
uprocess_init(p) ==
  /\ pc[p] = "user"
  /\ next_pid \in Procs
  /\ next_pid' = next_pid + 1
  /\ state' = [state EXCEPT ![next_pid] = "ALIVE"]
  /\ parent' = [parent EXCEPT ![next_pid] = p]
  /\ pid_table' = pid_table \cup {next_pid}
  /\ subject' = [subject EXCEPT ![p] = next_pid]
  /\ Enter(p, "link")
  /\ UNCHANGED <<children, sem, owner, want, nohang, todo, found>>

\* uprocess_init, its last step: under the parent's child_list_lock.
LinkChild(p) ==
  /\ pc[p] = "link"
  /\ owner[p] = NONE
  /\ children' = [children EXCEPT ![p] = @ \cup {subject[p]}]
  /\ Enter(p, "start")
  /\ UNCHANGED <<state, parent, next_pid, pid_table, sem, owner, callVars>>

\* The rest of fork: the child's thread is created and resumed.
StartChild(p) ==
  /\ pc[p] = "start"
  /\ pc' = [pc EXCEPT ![p] = "user", ![subject[p]] = "user"]
  /\ subject' = [subject EXCEPT ![p] = NONE]
  /\ UNCHANGED <<treeVars, sem, owner, want, nohang, todo, found>>
-----------------------------------------------------------------------------
(* exit *)

\* sys_exit: the thread goes to the reaper queue.  init does not exit
\* (the kernel panics if it does).
exit(p) ==
  /\ pc[p] = "user"
  /\ p # Init1
  /\ Enter(p, "exited")
  /\ UNCHANGED <<treeVars, sem, owner, callVars>>

\* semaphore_signal(&q->wait_semaphore) by the reaper after thread c.
SignalParent(c, q) ==
  /\ pc' = [pc EXCEPT ![c] = "none", ![q] = IF @ = "blocked" THEN "lock" ELSE @]
  /\ sem' = [sem EXCEPT ![q] = IF pc[q] = "blocked" THEN @ ELSE @ + 1]

\* The parent is not told.
kthread_destroy_last_NoSignal(c) ==
  /\ pc[c] = "exited"
  /\ state' = [state EXCEPT ![c] = "ZOMBIE"]
  /\ Enter(c, "none")
  /\ UNCHANGED <<parent, children, next_pid, pid_table, sem, owner, callVars>>

\* kthread_destroy of the last thread, under thread_list_lock: the process
\* becomes a zombie and its parent is told.
kthread_destroy_last(c) ==
  /\ pc[c] = "exited"
  /\ state' = [state EXCEPT ![c] = "ZOMBIE"]
  /\ SignalParent(c, parent[c])
  /\ UNCHANGED <<parent, children, next_pid, pid_table, owner, callVars>>
-----------------------------------------------------------------------------
(* waitpid *)

\* Back to user mode; the locals of waitpid are gone.
Return(p) ==
  /\ Enter(p, "user")
  /\ want' = [want EXCEPT ![p] = ANY]
  /\ nohang' = [nohang EXCEPT ![p] = FALSE]

waitpid(p, pid, flag) ==
  /\ pc[p] = "user"
  /\ want' = [want EXCEPT ![p] = pid]
  /\ nohang' = [nohang EXCEPT ![p] = flag]
  /\ Enter(p, "lock")
  /\ UNCHANGED <<treeVars, sem, owner, todo, found, subject>>

\* The loop starts: take the lock, walk over the child list.
LockChildren(p) ==
  /\ pc[p] = "lock"
  /\ owner[p] = NONE
  /\ owner' = [owner EXCEPT ![p] = p]
  /\ todo' = [todo EXCEPT ![p] = {c \in children[p] : want[p] \in {ANY, c}}]
  /\ Enter(p, "scan")
  /\ UNCHANGED <<treeVars, sem, want, nohang, found, subject>>

\* The next child lives.
ScanAlive(p, c) ==
  /\ pc[p] = "scan"
  /\ c \in todo[p]
  /\ state[c] # "ZOMBIE"
  /\ todo' = [todo EXCEPT ![p] = @ \ {c}]
  /\ found' = [found EXCEPT ![p] = TRUE]
  /\ UNCHANGED <<treeVars, sem, owner, pc, want, nohang, subject>>

\* The next child is a zombie: reap_zombie unlinks and destroys it, under
\* child_list_lock of p.
reap_zombie(p, c) ==
  /\ pc[p] = "scan"
  /\ c \in todo[p]
  /\ state[c] = "ZOMBIE"
  /\ children' = [children EXCEPT ![p] = @ \ {c}]
  /\ todo' = [todo EXCEPT ![p] = {}]
  /\ found' = [found EXCEPT ![p] = FALSE]
  /\ subject' = [subject EXCEPT ![p] = c]
  /\ Enter(p, "destroy")
  /\ UNCHANGED <<state, parent, next_pid, pid_table, sem, owner, want, nohang>>

\* Every child was looked at: release the lock; fail, return, or wait.
ScanEnd(p) ==
  /\ pc[p] = "scan"
  /\ todo[p] = {}
  /\ owner' = [owner EXCEPT ![p] = NONE]
  /\ IF ~found[p] \/ nohang[p] THEN Return(p)
     ELSE Enter(p, "wait") /\ UNCHANGED <<want, nohang>>
  /\ found' = [found EXCEPT ![p] = FALSE]
  /\ UNCHANGED <<treeVars, sem, todo, subject>>

\* sched_wait on the semaphore: consume a signal or block.
WaitSemaphore(p) ==
  /\ pc[p] = "wait"
  /\ \/ sem[p] > 0 /\ sem' = [sem EXCEPT ![p] = @ - 1] /\ Enter(p, "lock")
     \/ sem[p] = 0 /\ Enter(p, "blocked") /\ UNCHANGED sem
  /\ UNCHANGED <<treeVars, owner, callVars>>
-----------------------------------------------------------------------------
(* process_destroy, called by p for its zombie subject[p] *)

\* Forgets the parent pointer of the orphan.
Orphan_KeepParent(p, d) ==
  LET c == subject[p]
  IN  /\ pc[p] = "destroy"
      /\ d \in children[c]
      /\ children' = [children EXCEPT ![c] = @ \ {d}]
      /\ todo' = [todo EXCEPT ![p] = {d}]
      /\ Enter(p, "adopt")
      /\ UNCHANGED <<state, parent, next_pid, pid_table, sem, owner,
                     want, nohang, found, subject>>

\* Unlink one child of the zombie and, under that child's thread_list_lock,
\* make init its parent.
Orphan(p, d) ==
  LET c == subject[p]
  IN  /\ pc[p] = "destroy"
      /\ d \in children[c]
      /\ children' = [children EXCEPT ![c] = @ \ {d}]
      /\ parent' = [parent EXCEPT ![d] = Init1]
      /\ todo' = [todo EXCEPT ![p] = {d}]
      /\ Enter(p, "adopt")
      /\ UNCHANGED <<state, next_pid, pid_table, sem, owner, want, nohang, found, subject>>

\* Insert it in init's child list, under init's child_list_lock.
Adopt(p) ==
  /\ pc[p] = "adopt"
  /\ owner[Init1] = NONE
  /\ children' = [children EXCEPT ![Init1] = @ \cup todo[p]]
  /\ todo' = [todo EXCEPT ![p] = {}]
  /\ Enter(p, "destroy")
  /\ UNCHANGED <<state, parent, next_pid, pid_table, sem, owner,
                 want, nohang, found, subject>>

\* No child is left: the pid is removed from pid_table, then the open files
\* are closed, which takes a while.
RemovePid(p) ==
  /\ pc[p] = "destroy"
  /\ children[subject[p]] = {}
  /\ pid_table' = pid_table \ {subject[p]}
  /\ Enter(p, "free")
  /\ UNCHANGED <<state, parent, children, next_pid, sem, owner, callVars>>

\* The structure is freed, the caller's child_list_lock released and waitpid
\* returns.
FreeZombie(p) ==
  /\ pc[p] = "free"
  /\ state' = [state EXCEPT ![subject[p]] = "FREED"]
  /\ owner' = [owner EXCEPT ![p] = NONE]
  /\ subject' = [subject EXCEPT ![p] = NONE]
  /\ Return(p)
  /\ UNCHANGED <<parent, children, next_pid, pid_table, sem, todo, found>>
-----------------------------------------------------------------------------
\* A thread inside a system call that can go on.
SyscallStep(p) ==
  \/ LinkChild(p) \/ StartChild(p)
  \/ LockChildren(p) \/ ScanEnd(p) \/ WaitSemaphore(p)
  \/ \E c \in Procs : ScanAlive(p, c) \/ reap_zombie(p, c) \/ Orphan(p, c)
  \/ Adopt(p) \/ RemovePid(p) \/ FreeZombie(p)

ProcessNext ==
  \E p \in Procs :
    \/ uprocess_init(p) \/ exit(p) \/ kthread_destroy_last(p)
    \/ \E pid \in children[p] \cup {ANY}, flag \in BOOLEAN : waitpid(p, pid, flag)
    \/ SyscallStep(p)

ProcessSpec == ProcessInit /\ [][ProcessNext]_processVars

\* System calls make progress and the reaper thread runs; nobody is obliged
\* to fork, to exit or to wait.
FairProcessSpec ==
  /\ ProcessSpec
  /\ \A p \in Procs : WF_processVars(SyscallStep(p)) /\ WF_processVars(kthread_destroy_last(p))
-----------------------------------------------------------------------------
(* Properties *)

Exists(p) == state[p] \in {"ALIVE", "ZOMBIE"}

\* Types, and semaphore counts stay below the number of processes.
ProcessTypeOK ==
  /\ state \in [Procs -> {"UNBORN", "ALIVE", "ZOMBIE", "FREED"}]
  /\ parent \in [Procs -> Procs \cup {NONE}]
  /\ children \in [Procs -> SUBSET Procs]
  /\ next_pid \in 2..MaxPid + 1
  /\ pid_table \subseteq Procs
  /\ sem \in [Procs -> 0..MaxPid]
  /\ owner \in [Procs -> Procs \cup {NONE}]
  /\ pc \in [Procs -> PCs]
  /\ want \in [Procs -> Procs \cup {ANY}]
  /\ nohang \in [Procs -> BOOLEAN]
  /\ todo \in [Procs -> SUBSET Procs]
  /\ found \in [Procs -> BOOLEAN]
  /\ subject \in [Procs -> Procs \cup {NONE}]

\* The process tree: every child list names exactly the processes whose
\* parent pointer leads back, except for one that fork has not linked yet,
\* one on its way to init, and the zombie being reaped.
TreeIsConsistent ==
  \A c \in Procs \ {Init1} :
    Exists(c) =>
      \/ \A p \in Procs : c \in children[p] <=> parent[c] = p
      \/ /\ \A p \in Procs : c \notin children[p]
         /\ \E p \in Procs :
              \/ pc[p] = "link" /\ subject[p] = c
              \/ pc[p] = "adopt" /\ c \in todo[p] /\ parent[c] = Init1
              \/ pc[p] \in {"destroy", "adopt", "free"} /\ subject[p] = c

\* The reaper signals the semaphore of parent[c]: that structure is never
\* one that waitpid already freed, in whatever order the two processes die.
ParentExists ==
  \A c \in Procs \ {Init1} : Exists(c) /\ pc[c] # "none" => Exists(parent[c])

\* lookup_pid never leads to a structure that waitpid freed, and it finds
\* every process that still has a thread or that its parent can still reap.
PidTableIsSound ==
  /\ \A p \in pid_table : Exists(p)
  /\ \A p \in Procs : pc[p] # "none" => p \in pid_table
  /\ \A p \in Procs : children[p] \subseteq pid_table

\* The tree, its parent pointers and the pid table agree in whatever order
\* processes are made, die and are reaped.
FamilyIsSound == ProcessTypeOK /\ TreeIsConsistent /\ ParentExists /\ PidTableIsSound

\* No exit is lost to the parent it was signaled to: a process other than
\* init that is blocked in waitpid has no matching zombie child.
BlockedHasNoZombie ==
  \A p \in Procs \ {Init1} : pc[p] = "blocked" =>
    \A c \in children[p] : want[p] \in {ANY, c} => state[c] # "ZOMBIE"

\* A process other than init that is blocked in waitpid while a child it waits
\* for exits comes out of the wait and gets to reap a zombie.
ExitIsNoticed ==
  \A p \in Procs \ {Init1} :
    (/\ pc[p] = "blocked"
     /\ \E c \in children[p] : want[p] \in {ANY, c} /\ pc[c] = "exited")
    ~> (pc[p] \in {"destroy", "adopt", "free", "user"})
=============================================================================
