------------------------------- MODULE JobCtl --------------------------------
(* Sessions and process groups (core/jobctl.c), as setsid, setpgid and       *)
(* getpgid of syscall/ps.c, fork and process_destroy use them.  jobctl_lock  *)
(* makes a change of one process atomic; fork reads the parent's session and *)
(* group under it and uses them later.                                       *)
EXTENDS Integers, FiniteSets

CONSTANTS
  Pids,      \* 1 is init, launched by the kernel
  Ids        \* bound on the sessions and on the groups that are created

\* Pids and ids are positive.
ASSUME JobCtlAssumption ==
  /\ Pids \subseteq Nat \ {0} /\ IsFiniteSet(Pids) /\ 1 \in Pids
  /\ Ids \subseteq Nat \ {0} /\ IsFiniteSet(Ids)

VARIABLES
  proc,      \* pid -> [parent, status, session, pgrp, inherits]
  sessions,  \* id -> [sid, refs, members, pgrps], refs = 0: freed or not used yet
  pgrps,     \* id -> [pgid, refs, members, session]
  tables,    \* [pid: pids found, pgid: pgid -> group id or NIL, sid: likewise]
  crashed    \* "no", or why the kernel stopped: "todo" (last reference), "null"

jobctlVars == <<proc, sessions, pgrps, tables, crashed>>

NIL == 0
NoSession == [sid |-> NIL, refs |-> 0, members |-> {}, pgrps |-> {}]
NoGroup == [pgid |-> NIL, refs |-> 0, members |-> {}, session |-> NIL]
Unborn == [parent |-> NIL, status |-> "unborn", session |-> NIL, pgrp |-> NIL,
           inherits |-> <<NIL, NIL>>]

JobCtlInit ==
  /\ proc = [p \in Pids |-> IF p = 1 THEN [Unborn EXCEPT !.status = "alive"] ELSE Unborn]
  /\ sessions = [i \in Ids |-> NoSession] /\ pgrps = [i \in Ids |-> NoGroup]
  /\ tables = [pid |-> {1}, pgid |-> [p \in Pids |-> NIL], sid |-> [p \in Pids |-> NIL]]
  /\ crashed = "no"

Crash(why) == crashed' = why /\ UNCHANGED <<proc, sessions, pgrps, tables>>

\* alloc_session and alloc_pgrp: ids are not used again, so that a stale one shows.
Unused(objs, none) == {i \in Ids : objs[i] = none /\ \A j \in Ids : objs[j] = none => i <= j}

-----------------------------------------------------------------------------
\* The helpers of jobctl.c on the sessions ss and the groups gs.
pgrp_insert(gs, i, p) == [gs EXCEPT ![i].refs = @ + 1, ![i].members = @ \cup {p}]
session_insert(ss, i, p) == [ss EXCEPT ![i].refs = @ + 1, ![i].members = @ \cup {p}]
pgrp_remove(gs, p) ==
  IF proc[p].pgrp = NIL THEN gs
  ELSE [gs EXCEPT ![proc[p].pgrp].refs = @ - 1, ![proc[p].pgrp].members = @ \ {p}]

\* A removal that leaves the process on the list of members.
session_remove_Linked(ss, p) ==
  IF proc[p].session = NIL THEN ss ELSE [ss EXCEPT ![proc[p].session].refs = @ - 1]
session_remove(ss, p) ==
  IF proc[p].session = NIL THEN ss
  ELSE [ss EXCEPT ![proc[p].session].refs = @ - 1, ![proc[p].session].members = @ \ {p}]

session_create(i, p) ==
  [sessions EXCEPT ![i] = [sid |-> p, refs |-> 1, members |-> {}, pgrps |-> {}]]
\* A group holds a reference to its session.
pgrp_create(i, s, p) ==
  [pgrps EXCEPT ![i] = [pgid |-> p, refs |-> 1, members |-> {}, session |-> s]]
Listed(ss, s, i) == [ss EXCEPT ![s].refs = @ + 1, ![s].pgrps = @ \cup {i}]

\* The last reference to the group or the session of p is dropped when it goes.
LastOfGroup(p) == proc[p].pgrp # NIL /\ pgrps[proc[p].pgrp].refs = 1
LastOfSession(p) == proc[p].session # NIL /\ sessions[proc[p].session].refs = 1

-----------------------------------------------------------------------------
IsLeader(p) ==
  proc[p].session # NIL /\
    (sessions[proc[p].session].sid = p \/ pgrps[proc[p].pgrp].pgid = p)

jobctl_setsid(p) ==
  /\ proc[p].status = "alive" /\ ~IsLeader(p)
  /\ \E s \in Unused(sessions, NoSession), g \in Unused(pgrps, NoGroup) :
       LET ss == session_insert(session_remove(Listed(session_create(s, p), s, g), p), s, p)
           gs == pgrp_insert(pgrp_remove(pgrp_create(g, s, p), p), g, p)
       IN IF LastOfGroup(p) \/ LastOfSession(p) THEN Crash("todo")
          ELSE /\ sessions' = [ss EXCEPT ![s].refs = @ - 1] /\ pgrps' = [gs EXCEPT ![g].refs = @ - 1]
               /\ proc' = [proc EXCEPT ![p].session = s, ![p].pgrp = g]
               /\ tables' = [tables EXCEPT !.sid[p] = s, !.pgid[p] = g]
               /\ UNCHANGED crashed

\* The group with that number, if it is in the session of p.
FoundGroup(p, pgid) ==
  LET g == tables.pgid[pgid]
  IN IF g = NIL \/ pgrps[g].session # proc[p].session THEN NIL ELSE g

\* The group changes; the reference of pgrp_create is kept, and its table is not
\* told of the new group.
Join(ss, gs, g, p) ==
  IF LastOfGroup(p) THEN Crash("todo")
  ELSE /\ sessions' = ss /\ pgrps' = pgrp_insert(pgrp_remove(gs, p), g, p)
       /\ proc' = [proc EXCEPT ![p].pgrp = g] /\ UNCHANGED <<tables, crashed>>

jobctl_setpgid(p, pgid) ==
  LET s == proc[p].session IN
  /\ s # NIL /\ sessions[s].sid # p
  /\ \/ /\ pgid = p
        /\ \E g \in Unused(pgrps, NoGroup) :
             Join(Listed(sessions, s, g), pgrp_create(g, s, p), g, p)
     \/ pgid # p /\ FoundGroup(p, pgid) # NIL /\ Join(sessions, pgrps, FoundGroup(p, pgid), p)

\* setpgid(pid): of the caller or of a child.
SYS_SETPGID(p, target, pgid) ==
  /\ proc[p].status = "alive" /\ target \in tables.pid
  /\ target = p \/ proc[target].parent = p
  /\ IF proc[target].session = NIL THEN Crash("null") ELSE jobctl_setpgid(target, pgid)

\* getpgid, getsid: pgrp is followed without a test.
SYS_GETPGID(p, target) ==
  /\ proc[p].status = "alive" /\ target \in tables.pid
  /\ proc[target].pgrp = NIL /\ proc[target].status # "alive"
  /\ Crash("null")

-----------------------------------------------------------------------------
\* uprocess_init has made the child; its session and group are read from the parent.
ForkReads(p, c) ==
  /\ proc[p].status = "alive" /\ proc[p].session # NIL /\ proc[c].status = "unborn"
  /\ \A q \in Pids : proc[q].status = "unborn" => c <= q
  /\ proc' = [proc EXCEPT ![p].status = "forking",
       ![c] = [parent |-> p, status |-> "linking", session |-> NIL, pgrp |-> NIL,
               inherits |-> <<proc[p].session, proc[p].pgrp>>]]
  /\ tables' = [tables EXCEPT !.pid = @ \cup {c}]
  /\ UNCHANGED <<sessions, pgrps, crashed>>

\* The inserts of fork, with what was read.
ForkInserts(c) ==
  LET s == proc[c].inherits[1]
      g == proc[c].inherits[2]
  IN /\ proc[c].status = "linking"
     /\ sessions' = session_insert(sessions, s, c) /\ pgrps' = pgrp_insert(pgrps, g, c)
     /\ proc' = [proc EXCEPT ![c].status = "alive", ![c].session = s, ![c].pgrp = g,
                   ![proc[c].parent].status = "alive"]
     /\ UNCHANGED <<tables, crashed>>

\* process_destroy of a process that has exited, and the end of its pid.
process_destroy(p) ==
  /\ p # 1 /\ proc[p].status = "alive"
  /\ IF LastOfGroup(p) \/ LastOfSession(p) THEN Crash("todo")
     ELSE /\ sessions' = session_remove(sessions, p) /\ pgrps' = pgrp_remove(pgrps, p)
          /\ proc' = [q \in Pids |->
               IF q = p THEN [proc[p] EXCEPT !.session = NIL, !.pgrp = NIL, !.status = "destroyed"]
               ELSE IF proc[q].parent = p THEN [proc[q] EXCEPT !.parent = 1] ELSE proc[q]]
          /\ UNCHANGED <<tables, crashed>>
id_map_remove(p) ==
  /\ proc[p].status = "destroyed" /\ p \in tables.pid
  /\ tables' = [tables EXCEPT !.pid = @ \ {p}]
  /\ UNCHANGED <<proc, sessions, pgrps, crashed>>

JobCtlNext ==
  /\ crashed = "no"
  /\ \/ \E p \in Pids : jobctl_setsid(p)
     \/ \E p, target, pgid \in Pids : SYS_SETPGID(p, target, pgid)
     \/ \E p, target \in Pids : SYS_GETPGID(p, target)
     \/ \E p, c \in Pids : ForkReads(p, c)
     \/ \E c \in Pids : ForkInserts(c)
     \/ \E p \in Pids : process_destroy(p)
     \/ \E p \in Pids : id_map_remove(p)

JobCtlSpec == JobCtlInit /\ [][JobCtlNext]_jobctlVars

-----------------------------------------------------------------------------
\* Whoever points to a session or group is on its list of members and holds one
\* reference; a group is in the session of all its members, also when a parent
\* moves a process in the middle of its fork; what the table finds still exists.
SessionsAreExact ==
  /\ \A i \in Ids :
       /\ sessions[i].members = {p \in Pids : proc[p].session = i}
       /\ sessions[i].refs = Cardinality(sessions[i].members) + Cardinality(sessions[i].pgrps)
       /\ pgrps[i].members = {p \in Pids : proc[p].pgrp = i}
       /\ pgrps[i].refs - Cardinality(pgrps[i].members) \in {0, 1}
       /\ \A p \in pgrps[i].members : proc[p].session = pgrps[i].session
  /\ \A n \in Pids : tables.pgid[n] # NIL => pgrps[tables.pgid[n]].refs > 0
=============================================================================
