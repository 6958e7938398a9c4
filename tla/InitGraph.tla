------------------------------ MODULE InitGraph -------------------------------
(* The order of the boot (core/init_node.c, init.h, kstart and kmain): tasks   *)
(* are registered in link order, then the stages, each with the tasks that     *)
(* entail it as dependencies of a node of its own; the boot runs two stages    *)
(* and then everything.  init_node_run is recursive, running is its stack.     *)
LOCAL INSTANCE Integers
LOCAL INSTANCE Sequences
LOCAL INSTANCE FiniteSets
LOCAL INSTANCE SequencesExt

CONSTANTS
  Tasks,     \* tasks 1 .. n, in the order they are linked
  Stages,    \* sequence of the stages, numbers too, in the order they are linked
  Boot,      \* sequence of the stages that kstart and kmain run
  MaxDeps    \* bound on the dependencies of a task

VARIABLES
  deps,      \* node -> sequence of nodes; nodes are tasks and the nodes of stages
  entails,   \* task -> set of stages
  nodelist,  \* sequence of nodes
  executed,  \* nodes that have run, in order
  running,   \* stack of [node, rest] : dependencies still to run
  boot       \* what the boot has left to run: stages, and then every node

vars == <<deps, entails, nodelist, executed, running, boot>>

IsStage(n) == Contains(Stages, n)
Nodes == Tasks \cup ToSet(Stages)

\* The sources declare no cycle, through the stages neither: in every set of nodes
\* one depends on no other.
Entailing(s) == {t \in Tasks : s \in entails[t]}
DependsOn(D, n) == IF IsStage(n) THEN Entailing(n) ELSE ToSet(D[n])
NoCycle(D) == \A S \in SUBSET Nodes \ {{}} : \E n \in S : DependsOn(D, n) \cap S = {}

Init ==
  /\ entails \in [Tasks -> SUBSET ToSet(Stages)]
  /\ deps \in {D \in [Tasks -> {SetToSeq(S) : S \in {T \in SUBSET Nodes : Cardinality(T) <= MaxDeps}}] : NoCycle(D)}
  /\ nodelist = <<>> /\ executed = <<>> /\ running = <<>> /\ boot = Boot

-----------------------------------------------------------------------------
\* init_setup: all tasks, then all stages.
Registered(n) == Contains(nodelist, n)
init_node_register(n) ==
  /\ n \in Tasks /\ ~Registered(n) /\ \A t \in Tasks : t < n => Registered(t)
  /\ nodelist' = Append(nodelist, n)
  /\ UNCHANGED <<deps, entails, executed, running, boot>>
\* The walk over the list ends before its last node.
Seen == SubSeq(nodelist, 1, Len(nodelist) - 1)
PhonyDeps(s) == SelectSeq(Seen, LAMBDA n : n \in Entailing(s))
init_stage_register(k) ==
  LET s == Stages[k]
  IN /\ \A t \in Tasks : Registered(t)
     /\ ~Registered(s) /\ \A j \in 1 .. k - 1 : Registered(Stages[j])
     /\ deps' = [n \in DOMAIN deps \cup {s} |-> IF n = s THEN PhonyDeps(s) ELSE deps[n]]
     /\ nodelist' = Append(nodelist, s)
     /\ UNCHANGED <<entails, executed, running, boot>>
SetUp == Len(nodelist) = Cardinality(Nodes)

\* init_node_run: the dependencies first; a node is marked when its function has run.
Executed(n) == Contains(executed, n)
Skip(n) == Executed(n)
Frame(n) == [node |-> n, rest |-> deps[n]]
Top == running[1]
Enter ==
  /\ running # <<>> /\ Top.rest # <<>>
  /\ LET d == Head(Top.rest)
         up == <<[Top EXCEPT !.rest = Tail(@)]>> \o Tail(running)
     IN running' = IF Skip(d) THEN up ELSE <<Frame(d)>> \o up
  /\ UNCHANGED <<deps, entails, nodelist, executed, boot>>
Run ==
  /\ running # <<>> /\ Top.rest = <<>>
  /\ executed' = Append(executed, Top.node) /\ running' = Tail(running)
  /\ UNCHANGED <<deps, entails, nodelist, boot>>

init_stage_run ==
  /\ SetUp /\ running = <<>> /\ boot # <<>>
  /\ boot' = Tail(boot)
  /\ running' = IF Executed(Head(boot)) THEN <<>> ELSE <<Frame(Head(boot))>>
  /\ UNCHANGED <<deps, entails, nodelist, executed>>
\* The first node of the list that has not run: the walk goes forward, and a node
\* that has run stays so.
BootDone_Always == TRUE
BootDone == boot = <<>>
init_run_all ==
  /\ SetUp /\ running = <<>> /\ BootDone
  /\ \E k \in DOMAIN nodelist :
       /\ ~Executed(nodelist[k]) /\ \A j \in 1 .. k - 1 : Executed(nodelist[j])
       /\ running' = <<Frame(nodelist[k])>>
  /\ UNCHANGED <<deps, entails, nodelist, executed, boot>>

Next ==
  \/ \E n \in Tasks : init_node_register(n)
  \/ \E k \in DOMAIN Stages : init_stage_register(k)
  \/ Enter \/ Run
  \/ init_stage_run \/ init_run_all

-----------------------------------------------------------------------------
Place(n) == CHOOSE k \in DOMAIN executed : executed[k] = n
Before(a, n) == Executed(a) /\ Place(a) < Place(n)
LastTask == CHOOSE t \in Tasks : \A u \in Tasks : u <= t
\* What the stages of the boot lead to is in every such set.
LedTo(S) == ToSet(Boot) \subseteq S /\ \A n \in S : ToSet(deps[n]) \subseteq S

\* Every node runs once, after what it depends on; a stage is reached after every
\* task that entails it, except the last linked task for the first stage,
\* which the walk of init_stage_register leaves out (init_node.c:78); and what the
\* stages of the boot do not lead to runs only after all of them (init_node.c).
BootIsOrdered ==
  /\ IsInjective(executed)
  /\ \A n \in ToSet(executed) :
       /\ \A d \in ToSet(deps[n]) : Before(d, n)
       /\ IsStage(n) => \A t \in Entailing(n) :
            Before(t, n) \/ (n = Stages[1] /\ t = LastTask)
  /\ (SetUp /\ \E s \in ToSet(Boot) : ~Executed(s)) =>
       \A S \in SUBSET Nodes : LedTo(S) => ToSet(executed) \subseteq S
  /\ boot = <<>> /\ running = <<>> => \A k \in DOMAIN Boot : Executed(Boot[k])
=============================================================================
