------------------------------ MODULE KmemSlab ------------------------------
(* One object cache of the kernel heap (vm/kmem_slab.c): magazines per CPU,  *)
(* the depot behind them and the slabs at the bottom.  Each layer has its    *)
(* own lock; a thread that goes from one to the next holds neither.          *)
EXTENDS Integers, FiniteSets, SequencesExt, TLC

CONSTANTS
  NULL, Threads, Cpus,
  MagSizes,    \* magazine sizes: 0 is a cache that has none (KMC_NOMAGAZINE)
  MaxChunks,   \* objects of a slab
  MaxSlabs     \* bound on the slabs that are created

VARIABLES
  cpu,      \* cpu -> [loaded, prev_loaded]: the magazines, NULL before the first
  depot,    \* [full: sequence of magazines, free: number of empty ones, magsize]
  slabs,    \* [full, partial, empty: lists of slabs, freelist: slab -> objects]
  op,       \* thread -> [at, cpu, obj]: the operation it is in
  held      \* objects that belong to callers

vars == <<cpu, depot, slabs, op, held>>

ObjectsOf(s) == {s} \X (1 .. MaxChunks)
Slabs == DOMAIN slabs.freelist
Idle == [at |-> "idle", cpu |-> NULL, obj |-> NULL]
At(where, c, obj) == [at |-> where, cpu |-> c, obj |-> obj]
Rounds(mag) == IF mag = NULL THEN -1 ELSE Len(mag)

kmem_cache_create ==
  /\ \E m \in MagSizes : depot = [full |-> <<>>, free |-> 0, magsize |-> m]
  /\ cpu = [c \in Cpus |-> [loaded |-> NULL, prev_loaded |-> NULL]]
  /\ slabs = [full |-> <<>>, partial |-> <<>>, empty |-> <<>>, freelist |-> <<>>]

Init == kmem_cache_create /\ op = [t \in Threads |-> Idle] /\ held = {}

-----------------------------------------------------------------------------
\* Takes an object from a magazine of the CPU; a swap leaves loaded non-empty.
TakeRound(t, c, ccp) ==
  /\ cpu' = [cpu EXCEPT ![c] = [ccp EXCEPT !.loaded = Front(@)]]
  /\ held' = held \cup {Last(ccp.loaded)}
  /\ op' = [op EXCEPT ![t] = Idle]

Swapped(c) == [loaded |-> cpu[c].prev_loaded, prev_loaded |-> cpu[c].loaded]
Reloaded(c, mag) == [loaded |-> mag, prev_loaded |-> cpu[c].loaded]
EmptyMagsReturned(c) == IF cpu[c].prev_loaded = NULL THEN 0 ELSE 1

kmem_cache_alloc(t, c) ==
  LET ccp == cpu[c] IN
  /\ op[t].at = "idle"
  /\ \/ /\ Rounds(ccp.loaded) > 0
        /\ TakeRound(t, c, ccp) /\ UNCHANGED depot
     \/ /\ Rounds(ccp.loaded) <= 0 /\ Rounds(ccp.prev_loaded) > 0
        /\ TakeRound(t, c, Swapped(c)) /\ UNCHANGED depot
     \/ /\ Rounds(ccp.loaded) <= 0 /\ Rounds(ccp.prev_loaded) <= 0
        /\ depot.magsize > 0 /\ depot.full # <<>>
        /\ TakeRound(t, c, Reloaded(c, Head(depot.full)))
        /\ depot' = [depot EXCEPT !.full = Tail(@), !.free = @ + EmptyMagsReturned(c)]
     \/ /\ Rounds(ccp.loaded) <= 0 /\ Rounds(ccp.prev_loaded) <= 0
        /\ depot.magsize = 0 \/ depot.full = <<>>
        /\ op' = [op EXCEPT ![t] = At("slab_alloc", c, NULL)]
        /\ UNCHANGED <<cpu, depot, held>>
  /\ UNCHANGED slabs

\* A free that gives the wrong magazine to the depot.
PrevToFull_Loaded(c) == IF cpu[c].prev_loaded = NULL THEN depot.full
                        ELSE <<cpu[c].loaded>> \o depot.full

\* The depot's list of full magazines, with the one the CPU gives up.
PrevToFull(c) == IF cpu[c].prev_loaded = NULL THEN depot.full
                 ELSE <<cpu[c].prev_loaded>> \o depot.full

PutRound(t, c, ccp, obj) ==
  /\ cpu' = [cpu EXCEPT ![c] = [ccp EXCEPT !.loaded = Append(@, obj)]]
  /\ op' = [op EXCEPT ![t] = Idle]

\* The loop of kmem_cache_free under the lock of the CPU's cache.
FreeLoop(t, c, obj, d) ==
  LET ccp == cpu[c]
      hasRoom(mag) == mag # NULL /\ Len(mag) < d.magsize
  IN \/ hasRoom(ccp.loaded) /\ PutRound(t, c, ccp, obj) /\ depot' = d
     \/ /\ ~hasRoom(ccp.loaded) /\ hasRoom(ccp.prev_loaded)
        /\ PutRound(t, c, Swapped(c), obj) /\ depot' = d
     \/ /\ ~hasRoom(ccp.loaded) /\ ~hasRoom(ccp.prev_loaded)
        /\ \/ /\ d.magsize = 0
              /\ op' = [op EXCEPT ![t] = At("slab_free", c, obj)]
              /\ depot' = d /\ UNCHANGED cpu
           \/ /\ d.magsize > 0 /\ d.free > 0
              /\ PutRound(t, c, Reloaded(c, <<>>), obj)
              /\ depot' = [d EXCEPT !.free = @ - 1, !.full = PrevToFull(c)]
           \/ /\ d.magsize > 0 /\ d.free = 0
              /\ op' = [op EXCEPT ![t] = At("magazine", c, obj)]
              /\ depot' = d /\ UNCHANGED cpu

kmem_cache_free(t, c, obj) ==
  /\ op[t].at = "idle" /\ obj \in held
  /\ held' = held \ {obj}
  /\ FreeLoop(t, c, obj, depot)
  /\ UNCHANGED slabs

\* A new magazine has come, allocated without the lock; another thread may use it.
MagazineArrives(t) ==
  /\ op[t].at = "magazine"
  /\ FreeLoop(t, op[t].cpu, op[t].obj, [depot EXCEPT !.free = @ + 1])
  /\ UNCHANGED <<slabs, held>>

-----------------------------------------------------------------------------
\* The slab to allocate from, after create_slab when there is none.
create_slab ==
  LET s == Cardinality(Slabs) + 1
  IN [slabs EXCEPT !.empty = <<s>>,
        !.freelist = @ @@ (s :> [i \in 1 .. MaxChunks |-> <<s, MaxChunks + 1 - i>>])]

Without(list, s) == SelectSeq(list, LAMBDA x : x # s)
ToHead(list, s) == <<s>> \o list

\* The slab changes lists with the number of its free objects.
slab_alloc(sl, s) ==
  LET prev_count == Len(sl.freelist[s])
      rest == [sl EXCEPT !.freelist[s] = Tail(@)]
  IN IF prev_count = MaxChunks
     THEN [rest EXCEPT !.empty = Without(@, s), !.partial = ToHead(@, s)]
     ELSE IF prev_count = 1
     THEN [rest EXCEPT !.partial = Without(@, s), !.full = ToHead(@, s)]
     ELSE rest

SlabAlloc(t) ==
  LET none == slabs.partial = <<>> /\ slabs.empty = <<>>
      sl == IF none THEN create_slab ELSE slabs
      s == IF sl.partial # <<>> THEN Head(sl.partial) ELSE Head(sl.empty)
  IN /\ op[t].at = "slab_alloc"
     /\ none => Cardinality(Slabs) < MaxSlabs
     /\ slabs' = slab_alloc(sl, s)
     /\ held' = held \cup {Head(sl.freelist[s])}
     /\ op' = [op EXCEPT ![t] = Idle]
     /\ UNCHANGED <<cpu, depot>>

slab_free(sl, s, obj) ==
  LET more == [sl EXCEPT !.freelist[s] = ToHead(@, obj)]
      new_count == Len(more.freelist[s])
  IN IF new_count = MaxChunks
     THEN [more EXCEPT !.partial = Without(@, s), !.empty = ToHead(@, s)]
     ELSE IF new_count = 1
     THEN [more EXCEPT !.full = Without(@, s), !.partial = ToHead(@, s)]
     ELSE more

SlabFree(t) ==
  /\ op[t].at = "slab_free"
  /\ slabs' = slab_free(slabs, op[t].obj[1], op[t].obj)
  /\ op' = [op EXCEPT ![t] = Idle]
  /\ UNCHANGED <<cpu, depot, held>>

Next ==
  \/ \E t \in Threads, c \in Cpus : kmem_cache_alloc(t, c)
  \/ \E t \in Threads, c \in Cpus, obj \in held : kmem_cache_free(t, c, obj)
  \/ \E t \in Threads : MagazineArrives(t)
  \/ \E t \in Threads : SlabAlloc(t)
  \/ \E t \in Threads : SlabFree(t)

-----------------------------------------------------------------------------
Magazines ==
  {cpu[c].loaded : c \in Cpus} \cup {cpu[c].prev_loaded : c \in Cpus} \cup ToSet(depot.full)
InFlight == {op[t].obj : t \in Threads} \ {NULL}
Places ==
  {ToSet(mag) : mag \in Magazines \ {NULL}} \cup {held, InFlight}
    \cup {ToSet(slabs.freelist[s]) : s \in Slabs}

\* Every object is in one place, whatever threads do to the layers between the
\* locks: with a caller, in one magazine, on one freelist or on its way.
ObjectsAreConserved ==
  /\ UNION Places = UNION {ObjectsOf(s) : s \in Slabs}
  /\ \A o \in UNION Places : Cardinality({p \in Places : o \in p}) = 1
  /\ \A s \in Slabs : IsInjective(slabs.freelist[s])
  /\ \A mag \in Magazines \ {NULL} : IsInjective(mag)

\* A magazine of the full list holds as many rounds as the reload assumes
\* (kmem_slab.c:684), and a slab is on the list its free count says.
CountsAgree ==
  /\ \A i \in DOMAIN depot.full : Len(depot.full[i]) = depot.magsize
  /\ \A s \in Slabs :
       LET n == Len(slabs.freelist[s])
           on(list) == Cardinality({i \in DOMAIN list : list[i] = s})
       IN /\ on(slabs.full) = (IF n = 0 THEN 1 ELSE 0)
          /\ on(slabs.empty) = (IF n = MaxChunks THEN 1 ELSE 0)
          /\ on(slabs.partial) = (IF n \in 1 .. MaxChunks - 1 THEN 1 ELSE 0)

CacheIsExact == ObjectsAreConserved /\ CountsAgree
=============================================================================
