----------------------------- MODULE MCResources ----------------------------
(* What processes share, for TLC: map_lock, memory and files, one component  *)
(* at a time.  part names the one that runs; the others rest, and share the  *)
(* variables m1 to m12.                                                      *)
EXTENDS RWLock, VmMap, MapSwitch

CONSTANTS t1, t2, t3, Parts

VARIABLES part, m1, m2, m3, m4, m5, m6, m7, m8, m9, m10, m11, m12
high == <<m6, m7, m8, m9, m10, m11, m12>>
resVars == <<part, m1, m2, m3, m4, m5, high>>
restVars == <<vars, vmMapVars, mapSwitchVars>>

ThreeThreads == {t1, t2, t3}
Nobody == {}
OneTimed == {t1}
Everything == {"rwlock", "pmm", "vmem", "slab", "map", "tree", "table", "pmap", "fds", "vfs",
               "maps"}
JustPmm == {"pmm"}
Rest(v) == v = NULL
RestLow == Rest(m2) /\ Rest(m3) /\ Rest(m4) /\ Rest(m5)
RestHigh == Rest(m6) /\ Rest(m7) /\ Rest(m8) /\ Rest(m9) /\ Rest(m10) /\ Rest(m11) /\ Rest(m12)

Zones == <<[base |-> 3, end |-> 9, meta |-> 1, may_alloc |-> TRUE],
           [base |-> 12, end |-> 14, meta |-> 1, may_alloc |-> TRUE],
           [base |-> 14, end |-> 16, meta |-> 1, may_alloc |-> FALSE]>>
P == INSTANCE Pmm WITH BUDDY_ORDERS <- 3, MaxShares <- 2, pages <- m1, orders <- m2,
       free_pagecnt <- m3, freeing <- m4, panicked <- m5

Arenas == [heap |-> NULL, kva |-> "heap"]
Spans == [heap |-> {[start |-> 1, size |-> 5], [start |-> 8, size |-> 2]}, kva |-> {}]
AnyLimits == {[minaddr |-> 0, maxaddr |-> 0], [minaddr |-> 2, maxaddr |-> 5]}
V == INSTANCE Vmem WITH Source <- Arenas, Quantum <- [heap |-> 2, kva |-> 1],
       Sizes <- 1 .. 3, Limits <- AnyLimits, all_tags <- m1

S == INSTANCE KmemSlab WITH Threads <- {"a", "b"}, Cpus <- {"cpu0", "cpu1"}, MagSizes <- {0, 1},
       MaxChunks <- 2, MaxSlabs <- 2, cpu <- m1, depot <- m2, slabs <- m3, op <- m4, held <- m5

TwoHints == {0, 3}
TwoLengths == {1, 3}
TwoObjects == {1, 2}

TwoCpus == {"cpu0", "cpu1"}
TwoProcs == {"q", "p"}
FourThreads == {"t1", "t2", "t3", "t4"}
ThreeMaps == {"m1", "m2", "m3"}

R == INSTANCE RBTree WITH Keys <- 1 .. 9, rbt <- m1

Names == [a |-> 0, b |-> 4, c |-> 3, d |-> 7]
H == INSTANCE HashTable WITH Keys <- DOMAIN Names, Values <- {"v", "w"}, Hash <- Names,
       InitialCapacity <- 4, MaxCapacity <- 16, entries <- m1, count <- m2, contents <- m3

T == INSTANCE PageTable WITH Cpus <- {0, 1}, Capacity <- 1, Ranges <- {{0}, {1}, {0, 1, 2}}, PerTable <- 2,
       Frames <- 1 .. 3, FREE_BATCH <- 2, FlushPages <- 2, live <- m1, dirs <- m2, tables <- m3,
       tlb <- m4, used <- m5, op <- m6, crashed <- m7, queue <- m8, rcq_lock <- m9, pending <- m10,
       handling <- m11, sender <- m12

D == INSTANCE FdTable WITH Procs <- {"p", "c"}, First <- "p", Files <- {1, 2},
       Type <- [root |-> "dir", f |-> "reg"], Root <- "root", GrowBy <- 1, Limit <- 2, MaxOffset <- 1,
       proc <- m1, files <- m2, vrefs <- m3, op <- m4

Abs(comps) == [abs |-> TRUE, comps |-> comps, slash |-> FALSE]
Rel(comps) == [abs |-> FALSE, comps |-> comps, slash |-> FALSE]
Do(call, path) == [do |-> call, path |-> path, target |-> NULL]
To(call, path, target) == [do |-> call, path |-> path, target |-> target]
\* What the kernel does before user programs run.
Boot == <<Do("mount", Abs(<<>>)), Do("mkdir", Abs(<<"dev">>)), Do("mkdir", Abs(<<"a">>)),
          To("symlink", Abs(<<"a", "l">>), Rel(<<"..">>)), Do("mount", Abs(<<"dev">>)), Do("register", Abs(<<>>))>>
Calls == {Do("stat", Rel(<<"a", "..">>)), Do("open", Rel(<<"a", "l", "dev", "tty">>)),
          Do("stat", Rel(<<"dev", "..", "a">>)), Do("creat", Rel(<<"a", "n">>)), Do("chdir", Rel(<<"a">>)),
          Do("lstat", Rel(<<"l">>)), Do("stat", Rel(<<"a", "l">>)),
          To("link", Rel(<<"a", "n">>), Rel(<<"a", "l", "m">>)),
          To("symlink", Rel(<<"n">>), Abs(<<"a">>)),
          To("link", Rel(<<"a", "n">>), Rel(<<"a", "n", "m">>))}
N == INSTANCE Vfs WITH Threads <- {"t1", "t2"},
       Nodes <- {"slash", "1", "2", "3", "4", "5", "6", "7", "8"},
       Names <- {"..", "dev", "a", "l", "n", "m", "tty"}, Script <- Boot, UserCalls <- Calls, MaxCalls <- 2,
       vn <- m1, thr <- m2, booted <- m3, crashed <- m4

ResInit ==
  /\ part \in Parts /\ rwlock_init /\ vm_map_init /\ MapSwitchInit
  /\ CASE part = "pmm" -> P!Init /\ RestHigh
       [] part = "vmem" -> V!Init /\ RestLow /\ RestHigh
       [] part = "slab" -> S!Init /\ RestHigh
       [] part = "tree" -> R!Init /\ RestLow /\ RestHigh
       [] part = "table" -> H!Init /\ Rest(m4) /\ Rest(m5) /\ RestHigh
       [] part = "pmap" -> T!Init
       [] part = "fds" -> D!Init /\ Rest(m5) /\ RestHigh
       [] part = "vfs" -> N!Init /\ Rest(m5) /\ RestHigh
       [] part \in {"rwlock", "map", "maps"} -> Rest(m1) /\ RestLow /\ RestHigh

ResNext ==
  \/ part = "rwlock" /\ Next /\ UNCHANGED <<vmMapVars, mapSwitchVars, resVars>>
  \/ part = "map" /\ VmMapNext /\ UNCHANGED <<vars, mapSwitchVars, resVars>>
  \/ part = "maps" /\ MapSwitchNext /\ UNCHANGED <<vars, vmMapVars, resVars>>
  \/ part = "pmm" /\ P!Next /\ UNCHANGED <<restVars, part, high>>
  \/ part = "vmem" /\ V!Next /\ UNCHANGED <<restVars, part, m2, m3, m4, m5, high>>
  \/ part = "slab" /\ S!Next /\ UNCHANGED <<restVars, part, high>>
  \/ part = "tree" /\ R!Next /\ UNCHANGED <<restVars, part, m2, m3, m4, m5, high>>
  \/ part = "table" /\ H!Next /\ UNCHANGED <<restVars, part, m4, m5, high>>
  \/ part = "pmap" /\ T!Next /\ UNCHANGED <<restVars, part>>
  \/ part = "fds" /\ D!Next /\ UNCHANGED <<restVars, part, m5, high>>
  \/ part = "vfs" /\ N!Next /\ UNCHANGED <<restVars, part, m5, high>>

ResSpec == ResInit /\ [][ResNext]_<<restVars, resVars>>

\* Pmm: every page is in one block and free halves are merged (pmm.c:290-437).
PagesAreExact == part = "pmm" => P!PagesAreExact

\* Vmem: segments tile their spans and imports are backed (vmem.c:493-700).
ArenasAreExact == part = "vmem" => V!ArenasAreExact

\* KmemSlab: every object of a cache is in one place (kmem_slab.c:500-714).
CacheIsExact == part = "slab" => S!CacheIsExact

\* RBTree, HashTable: what was stored is what is found (subr_tree.c, hashtable.c).
TablesAreSound == (part = "tree" => R!TreeIsSound) /\ (part = "table" => H!TableIsMap)

LargeMapIsExact == T!LargeMapIsExact(0 .. 5, 0 .. 9, 0 .. 5, <<2, 4>>)

\* PageTable: no CPU reaches freed pages, remote calls are exact, large pages
\* cover their ranges (generic_pmap.c, ipi.c, kmem.c).
PageTablesAreSound ==
  part = "pmap" => /\ T!PagesAreReachable /\ T!CallsAreExact
                   /\ LargeMapIsExact

\* FdTable: descriptors, files and vnodes count each other (file.c, syscall/file.c).
DescriptorsAreExact == part = "fds" => D!DescriptorsAreExact

\* Vfs: links, references and locks of vnodes agree, and a lookup that returns
\* found what the path names (vfs.c, tmpfs.c, devfs.c, vnode.c).
NamespaceIsExact == part = "vfs" => N!NamespaceIsExact /\ N!LookupFindsPath

\* "buddy page has to be on list" (pmm.c:392).
BuddyIsOnList == part = "pmm" => P!BuddyIsOnList
=============================================================================
