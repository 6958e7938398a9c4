------------------------------- MODULE FdTable -------------------------------
(* Descriptor tables and open files: core/file.c and the system calls that   *)
(* use descriptors (syscall/file.c, fcntl.c, fork.c, exec.c).  A process has *)
(* one thread; fd_mutex is its own, so a change of a table is one step, and  *)
(* what processes share is the open files they inherited.  Path lookup is    *)
(* left to Vfs: an open gets a referenced vnode from it.                     *)
EXTENDS Integers, FiniteSets

CONSTANTS
  NULL,
  Procs,      \* the first process and the children it may fork
  First,      \* launched by the kernel
  Files,      \* file structures, used again after they are freed
  Type,       \* vnode -> "reg" or "dir"
  Root,       \* the vnode vfs_getroot returns
  GrowBy,     \* FD_GROW_BY
  Limit,      \* FD_LIMIT
  MaxOffset   \* bound on file offsets

VARIABLES
  proc,   \* process -> [status, fds, cwd]; fds: descriptor number -> NoFd or descriptor
  files,  \* file -> [refs, vnode, offset, moved]; moved: bytes, NULL after a seek
  vrefs,  \* vnode -> references held by files, directories and calls
  op      \* process -> Idle, or the call that holds a file reference

vars == <<proc, files, vrefs, op>>

NoFd == [file |-> NULL, cloexec |-> FALSE]
NoFile == [refs |-> 0, vnode |-> NULL, offset |-> 0, moved |-> 0]
Idle == [call |-> "idle", file |-> NULL, offset |-> 0]
Empty == [i \in {} |-> NoFd]

Init ==
  /\ proc = [p \in Procs |-> IF p = First THEN [status |-> "alive", fds |-> Empty, cwd |-> Root]
                             ELSE [status |-> "unborn", fds |-> Empty, cwd |-> NULL]]
  /\ files = [f \in Files |-> NoFile]
  /\ vrefs = [v \in DOMAIN Type |-> IF v = Root THEN 1 ELSE 0]
  /\ op = [p \in Procs |-> Idle]

-----------------------------------------------------------------------------
\* The table of a process: capacity, growth and the choice of a number.
Cap(fds) == Cardinality(DOMAIN fds)
fd_safe_get(fds, fd) == IF fd < Cap(fds) THEN fds[fd] ELSE NoFd
fd_grow(fds, n) ==
  [i \in 0 .. n - 1 |-> IF i \in DOMAIN fds THEN fds[i] ELSE NoFd]
FreeFrom(fds, min) == {i \in DOMAIN fds : i >= min /\ fds[i] = NoFd}
Lowest(S) == CHOOSE i \in S : \A j \in S : i <= j

Placed(fds, fd) == [fds |-> fds, fd |-> fd]
MFILE(fds) == Placed(fds, NULL)

\* When the table is full it grows once and the first new number is taken, also
\* when it is below the minimum.
fd_allocate_min(fds, min) ==
  IF FreeFrom(fds, min) # {} THEN Placed(fds, Lowest(FreeFrom(fds, min)))
  ELSE IF Cap(fds) + GrowBy > Limit THEN MFILE(fds)
  ELSE Placed(fd_grow(fds, Cap(fds) + GrowBy), Cap(fds))
fd_allocate_next(fds) == fd_allocate_min(fds, 0)

\* The number is given; fd_duplicate closes what it held.
fd_allocate_at(fds, fd) ==
  IF fd < Cap(fds) THEN Placed(fds, fd)
  ELSE IF fd + GrowBy > Limit THEN MFILE(fds)
  ELSE Placed(fd_grow(fds, fd + GrowBy), fd)

-----------------------------------------------------------------------------
\* Open files and the vnodes they hold, st = [files |-> files, vrefs |-> vrefs].
Refs == [files |-> files, vrefs |-> vrefs]
file_ref(st, f) == [st EXCEPT !.files[f].refs = @ + 1]
vnode_ref(st, v) == [st EXCEPT !.vrefs[v] = @ + 1]
vnode_deref(st, v) == [st EXCEPT !.vrefs[v] = @ - 1]
\* The last reference takes the vnode's with it.
file_deref(st, f) ==
  IF st.files[f].refs > 1 THEN [st EXCEPT !.files[f].refs = @ - 1]
  ELSE [vnode_deref(st, st.files[f].vnode) EXCEPT !.files[f] = NoFile]
fd_close(st, desc) == IF desc = NoFd THEN st ELSE file_deref(st, desc.file)
Become(st) == files' = st.files /\ vrefs' = st.vrefs

\* All descriptors of one process in nums are closed, one after the other.
CloseAll(st, fds, nums) ==
  LET Held(f) == Cardinality({i \in nums : fds[i].file = f})
      Gone == {f \in Files : Held(f) > 0 /\ st.files[f].refs = Held(f)}
  IN [files |-> [f \in Files |-> IF f \in Gone THEN NoFile
                                 ELSE [st.files[f] EXCEPT !.refs = @ - Held(f)]],
      vrefs |-> [v \in DOMAIN Type |->
                   st.vrefs[v] - Cardinality({f \in Gone : st.files[f].vnode = v})]]

Ready(p) == proc[p].status = "alive" /\ op[p] = Idle
Fds(p) == proc[p].fds
SetFds(p, fds) == proc' = [proc EXCEPT ![p].fds = fds]
Opened(p) == {fd \in DOMAIN Fds(p) : Fds(p)[fd] # NoFd}

-----------------------------------------------------------------------------
\* The end of openat for a vnode it holds a reference to: the file takes it over,
\* or it is dropped when the table is full.
openat(p, v, cloexec) ==
  LET at == fd_allocate_next(Fds(p))
      held == vnode_ref(Refs, v)
  IN /\ Ready(p) /\ UNCHANGED op
     /\ IF at.fd = NULL THEN Become(vnode_deref(held, v)) /\ UNCHANGED proc
        ELSE \E f \in {CHOOSE g \in Files : files[g] = NoFile} :
               /\ Become([held EXCEPT !.files[f] =
                     [NoFile EXCEPT !.refs = 1, !.vnode = v]])
               /\ SetFds(p, [at.fds EXCEPT ![at.fd] = [file |-> f, cloexec |-> cloexec]])

close(p, fd) ==
  /\ Ready(p) /\ fd_safe_get(Fds(p), fd) # NoFd
  /\ Become(fd_close(Refs, Fds(p)[fd]))
  /\ SetFds(p, [Fds(p) EXCEPT ![fd] = NoFd]) /\ UNCHANGED op

\* at: where the duplicate goes.  The descriptor there is closed, a reference is
\* taken for the new one.
Duplicate(p, src, at, cloexec) ==
  LET closed == fd_close(Refs, at.fds[at.fd])
  IN /\ Become(file_ref(closed, src.file))
     /\ SetFds(p, [at.fds EXCEPT ![at.fd] = [file |-> src.file, cloexec |-> cloexec]])

\* dup, dup2, fcntl(F_DUPFD) and fcntl(F_DUPFD_CLOEXEC).
fd_duplicate(p, oldfd, at, cloexec) ==
  /\ Ready(p) /\ oldfd \in Opened(p) /\ at.fd \notin {NULL, oldfd}
  /\ Duplicate(p, Fds(p)[oldfd], at, cloexec) /\ UNCHANGED op
SYS_DUP(p, oldfd) == fd_duplicate(p, oldfd, fd_allocate_next(Fds(p)), FALSE)
SYS_DUP2(p, oldfd, newfd) == fd_duplicate(p, oldfd, fd_allocate_at(Fds(p), newfd), FALSE)
F_DUPFD(p, oldfd, min, cloexec) ==
  fd_duplicate(p, oldfd, fd_allocate_min(Fds(p), min), cloexec)
F_SETFD(p, fd) ==
  /\ Ready(p) /\ fd \in Opened(p)
  /\ \E c \in BOOLEAN : SetFds(p, [Fds(p) EXCEPT ![fd].cloexec = c])
  /\ UNCHANGED <<files, vrefs, op>>

-----------------------------------------------------------------------------
\* A call that works on a file without the table holds a reference meanwhile.
\* "rw" is read or write, "other" a call that changes nothing of the file: pread,
\* pwrite, fallocate, ioctl, fcntl(F_GETFL).
Needs == [rw |-> {"reg"}, getdents |-> {"dir"}, fchdir |-> {"dir"}, other |-> {"reg"}]
getfile_ref(p, fd, call) ==
  LET f == Fds(p)[fd].file
  IN /\ Ready(p) /\ fd \in Opened(p) /\ Type[files[f].vnode] \in Needs[call]
     /\ Become(file_ref(Refs, f)) /\ UNCHANGED proc
     /\ op' = [op EXCEPT ![p] = [call |-> call, file |-> f,
                 offset |-> IF call \in {"rw", "getdents"} THEN files[f].offset ELSE 0]]

\* What was transferred is stored as an offset computed from the one that was read.
Advance_Store(file, from, n) == [file EXCEPT !.offset = from + n]
\* read and write add to the offset in one atomic step; a directory's is stored.
Advance(file, from, n) == [file EXCEPT !.offset = @ + n]

Release(p, st) == Become(file_deref(st, op[p].file)) /\ op' = [op EXCEPT ![p] = Idle]

\* VOP_READ or VOP_WRITE moved n bytes at the offset that was read before.
Transfer(p, n) ==
  LET f == op[p].file
      done == [Advance(files[f], op[p].offset, n) EXCEPT !.moved = IF @ = NULL THEN NULL ELSE @ + n]
  IN /\ op[p].call = "rw" /\ files[f].offset + n <= MaxOffset
     /\ Release(p, [Refs EXCEPT !.files[f] = done]) /\ UNCHANGED proc
getdents(p, n) ==
  LET f == op[p].file
  IN /\ op[p].call = "getdents" /\ op[p].offset + n <= MaxOffset
     /\ Release(p, [Refs EXCEPT !.files[f] = [@ EXCEPT !.offset = op[p].offset + n, !.moved = NULL]])
     /\ UNCHANGED proc
\* ioctl, pread, pwrite, fallocate, poll: nothing of the file changes.
Done(p) == op[p].call = "other" /\ Release(p, Refs) /\ UNCHANGED proc

\* seek stores the offset without looking at transfers that are under way.
SYS_SEEK(p, fd, offset) ==
  /\ Ready(p) /\ fd \in Opened(p) /\ Type[files[Fds(p)[fd].file].vnode] = "reg"
  /\ files' = [files EXCEPT ![Fds(p)[fd].file] = [@ EXCEPT !.offset = offset, !.moved = NULL]]
  /\ UNCHANGED <<proc, vrefs, op>>

fchdir(p) ==
  LET v == files[op[p].file].vnode
  IN /\ op[p].call = "fchdir"
     /\ Release(p, vnode_deref(vnode_ref(Refs, v), proc[p].cwd))
     /\ proc' = [proc EXCEPT ![p].cwd = v]

-----------------------------------------------------------------------------
fd_clone(st, fds) ==
  [st EXCEPT !.files = [f \in Files |-> [st.files[f] EXCEPT
     !.refs = @ + Cardinality({i \in DOMAIN fds : fds[i].file = f})]]]

\* fork: the child starts in the parent's directory with its descriptors.
fork(p, c) ==
  /\ Ready(p) /\ proc[c].status = "unborn" /\ UNCHANGED op
  /\ Become(fd_clone(vnode_ref(Refs, proc[p].cwd), Fds(p)))
  /\ proc' = [proc EXCEPT ![c] = proc[p]]

\* execve closes the descriptors that are marked.
execve(p) ==
  LET marked == {i \in Opened(p) : Fds(p)[i].cloexec}
  IN /\ Ready(p) /\ marked # {} /\ UNCHANGED op
     /\ Become(CloseAll(Refs, Fds(p), marked))
     /\ SetFds(p, [i \in DOMAIN Fds(p) |-> IF i \in marked THEN NoFd ELSE Fds(p)[i]])

\* process_destroy, after the exit; its parent calls it.
process_destroy(p) ==
  /\ Ready(p) /\ p # First /\ UNCHANGED op
  /\ Become(vnode_deref(CloseAll(Refs, Fds(p), Opened(p)), proc[p].cwd))
  /\ proc' = [proc EXCEPT ![p] = [status |-> "dead", fds |-> Empty, cwd |-> NULL]]

Numbers == 0 .. Limit - 1
Next == \E p \in Procs :
  \/ \E v \in DOMAIN Type, c \in BOOLEAN :
       (\E f \in Files : files[f] = NoFile) /\ openat(p, v, c)
  \/ \E fd \in Opened(p) :
       \/ close(p, fd)
       \/ SYS_DUP(p, fd)
       \/ \E n \in Numbers : SYS_DUP2(p, fd, n)
       \/ \E n \in Numbers, c \in BOOLEAN : F_DUPFD(p, fd, n, c)
       \/ F_SETFD(p, fd)
       \/ \E call \in DOMAIN Needs : getfile_ref(p, fd, call)
       \/ \E n \in 0 .. MaxOffset : SYS_SEEK(p, fd, n)
  \/ \E n \in 0 .. 1 : Transfer(p, n)
  \/ \E n \in 0 .. 1 : getdents(p, n)
  \/ Done(p)
  \/ fchdir(p)
  \/ \E c \in Procs : fork(p, c)
  \/ execve(p)
  \/ process_destroy(p)

-----------------------------------------------------------------------------
\* An open file has one reference for each descriptor of any process and each call
\* that works on it, a vnode one for each open file and each working directory;
\* nothing in use is freed; and the offset is what was transferred through all
\* descriptors together, unless somebody moved it.
DescriptorsAreExact ==
  /\ \A f \in Files :
       /\ files[f].refs = Cardinality({d \in Procs \X Numbers :
                             d[2] \in Opened(d[1]) /\ Fds(d[1])[d[2]].file = f})
                         + Cardinality({p \in Procs : op[p].file = f})
       /\ files[f].refs = 0 <=> files[f] = NoFile
       /\ files[f].moved # NULL => files[f].offset = files[f].moved
  /\ \A v \in DOMAIN Type :
       vrefs[v] = Cardinality({f \in Files : files[f].vnode = v})
                + Cardinality({p \in Procs : proc[p].cwd = v})
  /\ \A p \in Procs : Cap(Fds(p)) <= Limit
=============================================================================
