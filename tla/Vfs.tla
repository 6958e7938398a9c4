--------------------------------- MODULE Vfs ---------------------------------
(* Path lookup and the calls that use it: fs/vfs.c over the vnode operations  *)
(* of tmpfs.c, devfs.c and generic.c, called by syscall/file.c and, at boot,  *)
(* by the initrd.  Lookups of several threads interleave at every vnode lock; *)
(* a lookup locks a vnode before it unlocks the directory it came from, in    *)
(* ".." too.  There is no unlink: a name, once there, stays.                  *)
EXTENDS Integers, Sequences, FiniteSets

CONSTANTS
  NULL,
  Threads,     \* single-threaded processes
  Nodes,       \* vnodes; "slash" is root_node of vfs.c
  Names,       \* names of directory entries, ".." among them
  Script,      \* the calls of the boot thread, in order
  UserCalls,   \* what processes call
  MaxCalls     \* bound on the calls of a process

VARIABLES
  vn,       \* vnode -> Fresh or a vnode in use
  thr,      \* thread -> [call, stack, result, held, cwd, open, calls]
  booted,   \* calls of the script that are done
  crashed   \* a thread acquired a vnode lock it owns (assertion of mutex.c)

vars == <<vn, thr, booted, crashed>>

NoKids == [n \in Names |-> NULL]
Fresh == [type |-> "none", kids |-> NoKids, target |-> NULL, nlinks |-> 0, covers |-> NULL,
          mounted |-> NULL, fs |-> NULL, refs |-> 0, drift |-> 0, lock |-> NULL]
NoResult == [ok |-> FALSE, vnode |-> NULL, name |-> NULL, err |-> NULL]
Resting == [call |-> NULL, stack |-> <<>>, result |-> NULL, held |-> NULL, cwd |-> NULL,
            open |-> NULL, calls |-> 0]
Booter == CHOOSE t \in Threads : TRUE

\* vfs_init.
Init ==
  /\ vn = [v \in Nodes |-> IF v = "slash" THEN [Fresh EXCEPT !.type = "dir", !.refs = 1] ELSE Fresh]
  /\ thr = [t \in Threads |-> Resting]
  /\ booted = 0 /\ crashed = FALSE

-----------------------------------------------------------------------------
\* Mounts are followed down to the root of the topmost file system and up to the
\* vnode it covers.
resolve[v \in Nodes] == IF vn[v].mounted = NULL THEN v ELSE resolve[vn[v].mounted]
resolve_upward[v \in Nodes] == IF vn[v].covers = NULL THEN v ELSE resolve_upward[vn[v].covers]
TopRoot == resolve["slash"]

\* Changes of vnodes.
Ref(w, v) == [w EXCEPT ![v].refs = @ + 1]
Deref(w, v) == [w EXCEPT ![v].refs = @ - 1]
Drift(w, v, d) == [w EXCEPT ![v].drift = @ + d]
Locked(w, v, t) == IF v = "slash" THEN w ELSE [w EXCEPT ![v].lock = t]
Unlocked(w, v) == IF v = "slash" THEN w ELSE [w EXCEPT ![v].lock = NULL]
Put(w, v) == Deref(Unlocked(w, v), v)

Top(t) == thr[t].stack[Len(thr[t].stack)]
Pop(t) == SubSeq(thr[t].stack, 1, Len(thr[t].stack) - 1)
Continue(t, w, F) == vn' = w /\ thr' = [thr EXCEPT ![t].stack = Append(Pop(t), F)]

\* Where a path starts; the lookup holds a reference to that vnode.
Start(t, path, cwd) == IF path.abs THEN TopRoot ELSE cwd
Frame(path, cur, parent, nofollow) ==
  [todo |-> path.comps, cur |-> cur, parent |-> parent, nofollow |-> nofollow,
   slash |-> path.slash, next |-> NULL, pc |-> "start", sub |-> NULL]

\* A lookup returns: to the system call, or to the lookup of a link's target.
Return(t, w, r) ==
  /\ vn' = w
  /\ thr' = IF Len(thr[t].stack) = 1 THEN [thr EXCEPT ![t].stack = <<>>, ![t].result = r]
            ELSE LET below == Pop(t)[Len(Pop(t))]
                 IN [thr EXCEPT ![t].stack =
                       Append(SubSeq(Pop(t), 1, Len(Pop(t)) - 1),
                              [below EXCEPT !.pc = "followed", !.sub = r])]
Fail(t, w, err) == Return(t, w, [NoResult EXCEPT !.err = err])
Found(t, w, v, name) == Return(t, w, [NoResult EXCEPT !.ok = TRUE, !.vnode = v, !.name = name])

IsLast(F) == Len(F.todo) = 1
\* The component is done: next is locked and referenced.
Advance(t, w, F, next) ==
  IF ~IsLast(F) THEN Continue(t, w, [F EXCEPT !.cur = next, !.next = NULL, !.sub = NULL,
                                     !.todo = Tail(@), !.pc = "comp"])
  ELSE IF F.slash /\ w[next].type # "dir" THEN Fail(t, Put(w, next), "nodir")
  ELSE Found(t, w, next, Head(F.todo))

\* Links are followed, the last component's unless the caller does not want it.
IsFollowed(w, F) == w[F.next].type = "lnk" /\ ~(IsLast(F) /\ F.nofollow)
\* A link is read and its target looked up from the directory it is in, without
\* any lock; other vnodes are the next one.
Got(t, w, F) ==
  IF IsFollowed(w, F)
  THEN LET target == w[F.next].target
           from == Start(t, target, F.cur)
       IN /\ vn' = Ref(Unlocked(w, F.next), from)
          /\ thr' = [thr EXCEPT ![t].stack =
               Append(Append(Pop(t), [F EXCEPT !.pc = "following"]), Frame(target, from, FALSE, FALSE))]
  ELSE Advance(t, Deref(w, F.cur), F, F.next)

-----------------------------------------------------------------------------
Target(F) == IF F.pc \in {"start", "covered"} THEN F.cur ELSE F.next
Wants(t) == thr[t].stack # <<>> /\ Top(t).pc \in {"start", "covered", "locknext", "lockmount"}
Relocks(t) == Wants(t) /\ vn[Target(Top(t))].lock = t /\ crashed' = TRUE /\ UNCHANGED <<vn, thr, booted>>

\* The lock of the vnode the lookup starts from.
LockStart(t) ==
  LET F == Top(t)
      w == Locked(vn, F.cur, t)
  IN /\ Wants(t) /\ F.pc = "start" /\ vn[F.cur].lock = NULL
     /\ IF F.todo = <<>> THEN Found(t, w, F.cur, "/")
        ELSE IF F.todo = <<".">> /\ ~F.slash
        THEN IF vn[F.cur].type = "dir" THEN Found(t, w, F.cur, ".") ELSE Fail(t, Put(w, F.cur), "nodir")
        ELSE Continue(t, w, [F EXCEPT !.pc = "comp"])
     /\ UNCHANGED <<booted, crashed>>

\* VOP_LOOKUP of one component in the locked directory.
tmpfs_lookup(t, w, F) ==
  LET name == Head(F.todo)
      kid == w[F.cur].kids[name]
  IN IF name = "." THEN Advance(t, w, F, F.cur)
     ELSE IF kid = NULL THEN Fail(t, Put(w, F.cur), "noent")
     ELSE Continue(t, Ref(w, kid), [F EXCEPT !.next = kid, !.pc = "locknext"])

Component(t) ==
  LET F == Top(t)
      up == resolve_upward[F.cur]
  IN /\ thr[t].stack # <<>> /\ F.pc = "comp"
     /\ IF vn[F.cur].type # "dir" THEN Fail(t, Put(vn, F.cur), "nodir")
        ELSE IF IsLast(F) /\ F.parent THEN Found(t, vn, F.cur, Head(F.todo))
        ELSE IF Head(F.todo) = ".." /\ F.cur = TopRoot THEN Advance(t, vn, F, F.cur)
        ELSE IF Head(F.todo) = ".." /\ up # F.cur
        THEN Continue(t, Ref(Put(vn, F.cur), up), [F EXCEPT !.cur = up, !.pc = "covered"])
        ELSE tmpfs_lookup(t, vn, F)
     /\ UNCHANGED <<booted, crashed>>
LockCovered(t) ==
  LET F == Top(t)
  IN /\ Wants(t) /\ F.pc = "covered" /\ vn[F.cur].lock = NULL
     /\ tmpfs_lookup(t, Locked(vn, F.cur, t), F) /\ UNCHANGED <<booted, crashed>>

\* A lookup that unlocks the directory before it has locked the entry.
LockNext_Early(t, F) == Unlocked(vn, F.cur)
\* The entry is locked while the directory still is; then the directory is given up.
LockNext(t, F) == Unlocked(Locked(vn, F.next, t), F.cur)
EntryLocked(t) ==
  LET F == Top(t)
      w == LockNext(t, F)
      root == resolve[F.next]
  IN /\ Wants(t) /\ F.pc = "locknext" /\ vn[F.next].lock = NULL
     /\ IF root = F.next THEN Got(t, w, F)
        ELSE Continue(t, Put(Ref(w, root), F.next), [F EXCEPT !.next = root, !.pc = "lockmount"])
     /\ UNCHANGED <<booted, crashed>>
LockMounted(t) ==
  LET F == Top(t)
  IN /\ Wants(t) /\ F.pc = "lockmount" /\ vn[F.next].lock = NULL
     /\ Got(t, Locked(vn, F.next, t), F) /\ UNCHANGED <<booted, crashed>>

\* The lookup of the target has returned.  An error returns without the reference
\* to the directory, and a target that is the directory itself has a second one.
Followed(t) ==
  LET F == Top(t)
      w == Deref(vn, F.next)
      next == F.sub.vnode
  IN /\ thr[t].stack # <<>> /\ F.pc = "followed"
     /\ IF ~F.sub.ok THEN Fail(t, Drift(w, F.cur, 1), F.sub.err)
        ELSE IF next = F.cur THEN Advance(t, Drift(w, F.cur, 1), F, next)
        ELSE Advance(t, Deref(w, F.cur), F, next)
     /\ UNCHANGED <<booted, crashed>>

-----------------------------------------------------------------------------
\* vfs_lookup_path is called; the reference to cwd is the caller's, and is spent.
Begin(t, w, call, held) ==
  LET from == Start(t, call.path, thr[t].cwd)
      parent == call.do \in {"mkdir", "create", "symlink", "linknew"}
  IN /\ vn' = Ref(w, from)
     /\ thr' = [thr EXCEPT ![t] = [@ EXCEPT !.call = call, !.held = held, !.result = NULL,
                   !.stack = <<Frame(call.path, from, parent, call.do = "lstat")>>]]
End(t, w) ==
  /\ vn' = w
  /\ thr' = [thr EXCEPT ![t] = [@ EXCEPT !.call = NULL, !.held = NULL, !.result = NULL]]
EndOpen(t, w, v) ==
  /\ vn' = w
  /\ thr' = [thr EXCEPT ![t] = [@ EXCEPT !.call = NULL, !.result = NULL, !.open = v]]

NewNode == CHOOSE v \in Nodes : vn[v] = Fresh
\* tmpfs_create and devfs_create: the new vnode's reference is the caller's.
Created(w, dir, name, type, target) ==
  LET node == [Fresh EXCEPT !.type = type, !.target = target, !.fs = w[dir].fs, !.refs = 1,
                 !.nlinks = IF type = "dir" THEN 2 ELSE 1,
                 !.kids = IF type = "dir" THEN [NoKids EXCEPT ![".."] = dir] ELSE NoKids]
  IN [w EXCEPT ![NewNode] = node, ![dir].kids[name] = NewNode,
               ![dir].nlinks = IF type = "dir" THEN @ + 1 ELSE @]
Exists(v, name) == name \in {".", "/"} \/ vn[v].kids[name] # NULL

\* tmpfs_link.
LinkError(node, dir, name) ==
  vn[node].fs # vn[dir].fs \/ vn[dir].type # "dir" \/ Exists(dir, name)
tmpfs_link(w, node, dir, name) ==
  [Ref(w, node) EXCEPT ![dir].kids[name] = node, ![node].nlinks = @ + 1]

\* tmpfs_mount and devfs_mount.
Mounted(w, v) ==
  LET root == [Fresh EXCEPT !.type = "dir", !.covers = v, !.fs = v, !.refs = 1]
  IN [Ref(w, v) EXCEPT ![NewNode] = root, ![v].mounted = NewNode]

\* openat drops the directory it started from once more than it took.
OpenDone(t, w) ==
  LET call == thr[t].call
  IN IF call.path.abs THEN w ELSE Drift(Deref(w, thr[t].cwd), thr[t].cwd, -1)

\* What a call does with the vnode its lookup found: one action per call.  A file
\* that a link is made of stays locked and referenced until the link is there.
Calls == {"stat", "lstat", "open", "creat", "create", "mkdir", "symlink", "link", "linknew", "chdir", "mount"}
Lookup(t, kinds) == thr[t].call # NULL /\ thr[t].result # NULL /\ thr[t].call.do \in kinds
Returned(t, kinds) == Lookup(t, kinds) /\ thr[t].result.ok /\ UNCHANGED <<booted, crashed>>
Node(t) == thr[t].result.vnode
Name(t) == thr[t].result.name

\* openat with O_CREAT creates the file when the lookup did not find it.
LookupFailed(t) ==
  LET call == thr[t].call
  IN /\ Lookup(t, Calls) /\ ~thr[t].result.ok /\ UNCHANGED <<booted, crashed>>
     /\ IF call.do = "creat" /\ thr[t].result.err = "noent"
        THEN Begin(t, vn, [call EXCEPT !.do = "create"], NULL)
        ELSE End(t, IF thr[t].held = NULL THEN vn ELSE Put(vn, thr[t].held))
fstatat(t) == Returned(t, {"stat", "lstat"}) /\ End(t, Put(vn, Node(t)))
openat(t) ==
  Returned(t, {"open", "creat"}) /\ EndOpen(t, OpenDone(t, Unlocked(vn, Node(t))), Node(t))
OpenCreated(t) ==
  /\ Returned(t, {"create"})
  /\ IF Exists(Node(t), Name(t)) THEN End(t, Put(vn, Node(t)))
     ELSE EndOpen(t, OpenDone(t, Created(Put(vn, Node(t)), Node(t), Name(t), "reg", NULL)), NewNode)
Make(t, type, target) ==
  End(t, IF Exists(Node(t), Name(t)) THEN Put(vn, Node(t))
         ELSE Deref(Created(Put(vn, Node(t)), Node(t), Name(t), type, target), NewNode))
vfs_create(t) == Returned(t, {"mkdir"}) /\ Make(t, "dir", NULL)
symlinkat(t) == Returned(t, {"symlink"}) /\ Make(t, "lnk", thr[t].call.target)
linkat(t) ==
  /\ Returned(t, {"link"})
  /\ IF vn[Node(t)].type = "dir" THEN End(t, Put(vn, Node(t)))
     ELSE Begin(t, vn, [thr[t].call EXCEPT !.do = "linknew", !.path = thr[t].call.target], Node(t))
vfs_link(t) ==
  LET done == Put(Put(vn, thr[t].held), Node(t))
  IN /\ Returned(t, {"linknew"})
     /\ End(t, IF LinkError(thr[t].held, Node(t), Name(t)) THEN done
               ELSE tmpfs_link(done, thr[t].held, Node(t), Name(t)))
chdir(t) ==
  /\ Returned(t, {"chdir"})
  /\ IF vn[Node(t)].type # "dir" THEN End(t, Put(vn, Node(t)))
     ELSE /\ vn' = Deref(Unlocked(vn, Node(t)), thr[t].cwd)
          /\ thr' = [thr EXCEPT ![t] = [@ EXCEPT !.call = NULL, !.result = NULL, !.cwd = Node(t)]]
vfs_mount(t) == Returned(t, {"mount"}) /\ End(t, Mounted(Put(vn, Node(t)), Node(t)))

\* The boot thread works through the script; devfs_register adds a device without
\* a lookup and without a lock.
devfs_register(v) ==
  vn' = Deref(Created(vn, v, "tty", "chr", NULL), NewNode) /\ UNCHANGED thr
BootCall ==
  /\ booted < Len(Script) /\ thr[Booter].call = NULL
  /\ IF Script[booted + 1].do = "register" THEN devfs_register(resolve[vn[TopRoot].kids["dev"]])
     ELSE Begin(Booter, vn, Script[booted + 1], NULL)
  /\ booted' = booted + 1 /\ UNCHANGED crashed
\* The processes start in the root directory.
Launch ==
  /\ booted = Len(Script) /\ thr[Booter].call = NULL
  /\ vn' = [vn EXCEPT ![TopRoot].refs = @ + Cardinality(Threads)]
  /\ thr' = [t \in Threads |-> [Resting EXCEPT !.cwd = TopRoot]]
  /\ booted' = booted + 1 /\ UNCHANGED crashed

SystemCall(t, call) ==
  /\ booted > Len(Script) /\ thr[t].call = NULL /\ thr[t].calls < MaxCalls
  /\ thr[t].open = NULL \/ call.do \notin {"open", "creat"}
  /\ LET from == Start(t, call.path, thr[t].cwd)
     IN /\ vn' = Ref(vn, from)
        /\ thr' = [thr EXCEPT ![t] = [@ EXCEPT !.call = call, !.calls = @ + 1,
             !.stack = <<Frame(call.path, from, call.do \in {"mkdir", "symlink"}, call.do = "lstat")>>]]
  /\ UNCHANGED <<booted, crashed>>
Close(t) ==
  /\ thr[t].open # NULL /\ thr[t].call = NULL
  /\ vn' = Deref(vn, thr[t].open) /\ thr' = [thr EXCEPT ![t].open = NULL]
  /\ UNCHANGED <<booted, crashed>>

Next ==
  /\ ~crashed
  /\ \/ BootCall
     \/ Launch
     \/ \E t \in Threads :
          \/ \E call \in UserCalls : SystemCall(t, call)
          \/ LockStart(t)
          \/ Component(t)
          \/ LockCovered(t)
          \/ EntryLocked(t)
          \/ LockMounted(t)
          \/ Relocks(t)
          \/ Followed(t)
          \/ LookupFailed(t)
          \/ fstatat(t)
          \/ openat(t)
          \/ OpenCreated(t)
          \/ vfs_create(t)
          \/ symlinkat(t)
          \/ linkat(t)
          \/ vfs_link(t)
          \/ chdir(t)
          \/ vfs_mount(t)
          \/ Close(t)

-----------------------------------------------------------------------------
\* Vnodes a lookup holds a reference to, and the one it has locked.
Followees(t) == IF thr[t].stack # <<>> /\ Top(t).pc = "followed" THEN {Top(t).sub.vnode} ELSE {}
StackRefs(v, t) ==
  Cardinality({i \in DOMAIN thr[t].stack : thr[t].stack[i].cur = v})
  + Cardinality({i \in DOMAIN thr[t].stack : thr[t].stack[i].next = v})
  + Cardinality({v} \cap Followees(t))
HasResult(t, v) == thr[t].result # NULL /\ thr[t].result.vnode = v
Owns(t, v) ==
  \/ v \in {thr[t].held} \cup Followees(t) \/ HasResult(t, v)
  \/ thr[t].stack # <<>> /\ Top(t).pc \in {"comp", "locknext"} /\ Top(t).cur = v
Uses(t, v) ==
  StackRefs(v, t) + Cardinality({f \in {"held", "cwd", "open"} : thr[t][f] = v})
  + (IF HasResult(t, v) THEN 1 ELSE 0)
NamesOf(v) == Cardinality({d \in Nodes \X (Names \ {".."}) : vn[d[1]].kids[d[2]] = v})
SumUses(v) == LET s[T \in SUBSET Threads] ==
                    IF T = {} THEN 0 ELSE LET t == CHOOSE x \in T : TRUE IN Uses(t, v) + s[T \ {t}]
              IN s[Threads]

\* Locks belong to the lookups and calls that are inside, references are those of
\* lookups, calls, directories and open files (and the drift of openat and of
\* failed links, where it is named), and a file counts its names.
NamespaceIsExact ==
  \A v \in Nodes : vn[v].type # "none" =>
    /\ v # "slash" => \A t \in Threads : vn[v].lock = t <=> Owns(t, v)
    /\ vn[v].refs = SumUses(v) + vn[v].drift
                    + (IF vn[v].fs = vn[v].covers THEN 1 ELSE 0)
                    + (IF vn[v].mounted # NULL THEN 1 ELSE 0)
                    + (IF vn[v].type = "dir" THEN 0 ELSE vn[v].nlinks - 1)
    /\ vn[v].type # "dir" => vn[v].nlinks = NamesOf(v)
    /\ vn[v].type = "dir" /\ vn[v].covers = NULL /\ v # "slash" =>
         /\ NamesOf(v) = 1 /\ \E n \in Names : vn[vn[v].kids[".."]].kids[n] = v
         /\ vn[v].nlinks = 2 + Cardinality({n \in Names \ {".."} :
                              vn[v].kids[n] # NULL /\ vn[vn[v].kids[n]].type = "dir"})

\* The directory a path names, one component after the other.
RECURSIVE Walk(_, _, _)
Walk(cur, comps, nofollow) ==
  IF comps = <<>> \/ cur = NULL THEN cur
  ELSE IF vn[cur].type # "dir" THEN NULL
  ELSE LET name == Head(comps)
           at == IF name = ".." THEN resolve_upward[cur] ELSE cur
           kid == vn[at].kids[name]
           to == IF name = "." \/ (name = ".." /\ cur = TopRoot) THEN cur
                 ELSE IF kid = NULL THEN NULL ELSE resolve[kid]
           link == to # NULL /\ vn[to].type = "lnk" /\ ~(nofollow /\ Len(comps) = 1)
       IN Walk(IF link THEN Walk(IF vn[to].target.abs THEN TopRoot ELSE cur, vn[to].target.comps, FALSE)
               ELSE to, Tail(comps), nofollow)

\* A lookup, whatever others did while it was on its way, finds what its path
\* names, and for calls that make a name the directory it is made in.
LookupFindsPath ==
  \A t \in Threads :
    LET call == thr[t].call
        comps == call.path.comps
        parent == call.do \in {"mkdir", "create", "symlink", "linknew"}
    IN (thr[t].result # NULL /\ thr[t].result.ok) =>
         thr[t].result.vnode =
           Walk(Start(t, call.path, thr[t].cwd),
                IF parent THEN SubSeq(comps, 1, Len(comps) - 1) ELSE comps, call.do = "lstat")
=============================================================================
