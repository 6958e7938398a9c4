---------------------------- MODULE VmFaultProofs ----------------------------
(***************************************************************************)
(* Copy on write, for any finite number of address spaces and any number   *)
(* of frames.  That counts are exact is nearly inductive by itself: a step *)
(* of one address space changes what that one owns of a frame (Owns) and   *)
(* the frame's count alike.  The rest needs to know what an address space  *)
(* has at each point of a fault (Words), that the handler's fresh copy is  *)
(* nobody else's (CopyIsOwn), and that a frame is for its whole life an    *)
(* anon, the page of a shared object or that of a private one (FrameKinds).*)
(***************************************************************************)
EXTENDS VmFault, KernelLemmas

CopyPCs == {"deref", "relock", "freed", "panic"}

\* What an address space has at each point of a fault and of its life.
Words ==
  \A m \in Maps :
    /\ live[m] # "running" => pc[m] = "user"
    /\ live[m] = "none" => entry[m] = NULL
    /\ entry[m] = NULL => slot[m] = NULL /\ pte[m] = NULL /\ pc[m] = "user"
    /\ slot[m] # NULL => entry[m].is_cow
    /\ pc[m] \in CopyPCs => slot[m] # NULL
    /\ pc[m] = "deref" => old[m] # NULL
    /\ pc[m] = "unmap" => pte[m] = NULL

\* The copy that the handler has just made is referenced by its amap only.
CopyIsOwn == \A m \in Maps : pc[m] \in CopyPCs => refcnt[slot[m]] = 1

\* A frame that is an anon is no object's page, and all mappings of an object
\* agree on whether they are private.
FrameKinds ==
  \A m, n \in Maps : entry[m] # NULL =>
    /\ slot[n] # entry[m].object
    /\ entry[n] # NULL /\ entry[n].object = entry[m].object =>
         entry[n].is_cow = entry[m].is_cow

IInv == /\ TypeOK /\ Words /\ RefcountsAreExact
        /\ MappedIsBacking /\ CopyIsOwn /\ FrameKinds
IShare == IInv /\ WritableIsUnshared
-----------------------------------------------------------------------------
(* What one address space owns of a frame *)

Slots(f)   == {m \in Maps : slot[m] = f}
Copied(f)  == {m \in Maps : pc[m] = "deref" /\ old[m] = f}
Objects(f) == {m \in Maps : entry[m] # NULL /\ entry[m].object = f}
Amaps(f)   == {m \in Maps : entry[m] # NULL /\ entry[m].object = f /\ entry[m].is_cow}

Bit(b) == IF b THEN 1 ELSE 0

Owns(m, f) ==
  Bit(m \in Slots(f)) + Bit(m \in Copied(f)) + Bit(m \in Objects(f)) + Bit(m \in Amaps(f))

Counted(f) == refcnt[f] = Cardinality(Slots(f)) + Cardinality(Copied(f))
                          + Cardinality(Objects(f)) + Cardinality(Amaps(f))

\* The form in which a step uses and restores the counts.
LEMMA CountedFrames == RefcountsAreExact <=> \A f \in Frames : Counted(f)
BY DEF RefcountsAreExact, Counted, Slots, Copied, Objects, Amaps

\* Two elements of a set count for two.
LEMMA CountTwo ==
  ASSUME NEW A \in SUBSET Maps, NEW u, NEW x
  PROVE  /\ Cardinality(A) \in Nat /\ Cardinality(A) >= Bit(x \in A)
         /\ u # x => Cardinality(A) >= Bit(u \in A) + Bit(x \in A)
<1>1. /\ Cardinality(A) \in Nat /\ Cardinality(A \ {x}) \in Nat
      /\ Cardinality(A \ {x}) = Cardinality(A) - Bit(x \in A)
  BY VmAssumption, CountStep DEF Bit
<1>2. /\ Cardinality(A \ {x, u}) \in Nat
      /\ Cardinality(A \ {x, u}) = Cardinality(A \ {x}) - Bit(u \in A \ {x})
  <2>1. A \ {x, u} = (A \ {x}) \ {u}
    OBVIOUS
  <2> QED BY <2>1, VmAssumption, CountStep DEF Bit
<1> QED BY <1>1, <1>2 DEF Bit

\* A count covers what any two address spaces own together.
LEMMA OwnsBound ==
  ASSUME NEW f, Counted(f), NEW u \in Maps, NEW x \in Maps
  PROVE  /\ Owns(x, f) \in Nat /\ refcnt[f] \in Nat /\ refcnt[f] >= Owns(x, f)
         /\ u # x => refcnt[f] >= Owns(u, f) + Owns(x, f)
<1> DEFINE B(y, A) == Bit(y \in A)
<1>1. \A y, A : B(y, A) \in {0, 1}
  BY DEF Bit
<1>2. \A A \in {Slots(f), Copied(f), Objects(f), Amaps(f)} :
        /\ Cardinality(A) \in Nat /\ Cardinality(A) >= B(x, A)
        /\ u # x => Cardinality(A) >= B(u, A) + B(x, A)
  <2>1. \A A \in {Slots(f), Copied(f), Objects(f), Amaps(f)} : A \in SUBSET Maps
    BY DEF Slots, Copied, Objects, Amaps
  <2> QED BY <2>1, CountTwo
<1>3. \A y : Owns(y, f) = B(y, Slots(f)) + B(y, Copied(f)) + B(y, Objects(f)) + B(y, Amaps(f))
  BY DEF Owns
<1> HIDE DEF B
<1> QED BY <1>1, <1>2, <1>3 DEF Counted

\* A step of address space x moves the count by what x gains or loses.
LEMMA OwnsStep ==
  ASSUME NEW f, Counted(f), NEW x \in Maps,
         \A u \in Maps : u # x => /\ slot'[u] = slot[u] /\ pc'[u] = pc[u]
                                  /\ old'[u] = old[u] /\ entry'[u] = entry[u],
         refcnt'[f] = refcnt[f] - Owns(x, f) + Owns(x, f)'
  PROVE  Counted(f)'
<1> DEFINE B(y, A) == Bit(y \in A)
<1>1. \A y, A : B(y, A) \in {0, 1}
  BY DEF Bit
<1>2. \A A, C \in SUBSET Maps :
        (\A u \in Maps : u # x => (u \in A <=> u \in C)) =>
          /\ Cardinality(A) \in Nat /\ Cardinality(C) \in Nat
          /\ Cardinality(C) = Cardinality(A) + B(x, C) - B(x, A)
  BY VmAssumption, CountStep DEF Bit
<1>3. /\ Slots(f) \in SUBSET Maps /\ Slots(f)' \in SUBSET Maps
      /\ Copied(f) \in SUBSET Maps /\ Copied(f)' \in SUBSET Maps
      /\ Objects(f) \in SUBSET Maps /\ Objects(f)' \in SUBSET Maps
      /\ Amaps(f) \in SUBSET Maps /\ Amaps(f)' \in SUBSET Maps
  BY DEF Slots, Copied, Objects, Amaps
<1>4. \A u \in Maps : u # x => /\ u \in Slots(f) <=> u \in Slots(f)'
                               /\ u \in Copied(f) <=> u \in Copied(f)'
                               /\ u \in Objects(f) <=> u \in Objects(f)'
                               /\ u \in Amaps(f) <=> u \in Amaps(f)'
  BY DEF Slots, Copied, Objects, Amaps
<1>5. /\ Owns(x, f) = B(x, Slots(f)) + B(x, Copied(f)) + B(x, Objects(f)) + B(x, Amaps(f))
      /\ Owns(x, f)' = B(x, Slots(f)') + B(x, Copied(f)') + B(x, Objects(f)') + B(x, Amaps(f)')
  BY DEF Owns, Bit
<1> HIDE DEF B
<1>6. /\ Cardinality(Slots(f)') = Cardinality(Slots(f)) + B(x, Slots(f)') - B(x, Slots(f))
      /\ Cardinality(Slots(f)') \in Nat /\ Cardinality(Slots(f)) \in Nat
  BY <1>2, <1>3, <1>4
<1>7. /\ Cardinality(Copied(f)') = Cardinality(Copied(f)) + B(x, Copied(f)') - B(x, Copied(f))
      /\ Cardinality(Copied(f)') \in Nat /\ Cardinality(Copied(f)) \in Nat
  BY <1>2, <1>3, <1>4
<1>8. /\ Cardinality(Objects(f)') = Cardinality(Objects(f)) + B(x, Objects(f)') - B(x, Objects(f))
      /\ Cardinality(Objects(f)') \in Nat /\ Cardinality(Objects(f)) \in Nat
  BY <1>2, <1>3, <1>4
<1>9. /\ Cardinality(Amaps(f)') = Cardinality(Amaps(f)) + B(x, Amaps(f)') - B(x, Amaps(f))
      /\ Cardinality(Amaps(f)') \in Nat /\ Cardinality(Amaps(f)) \in Nat
  BY <1>2, <1>3, <1>4
<1> QED BY SMTT(30), <1>1, <1>5, <1>6, <1>7, <1>8, <1>9 DEF Counted
-----------------------------------------------------------------------------
(* Steps that move no reference *)

\* Such a step leaves every record of who owns a frame, and the counts, alone.
Quiet ==
  /\ refcnt' = refcnt /\ slot' = slot
  /\ \A u \in Maps :
       /\ entry'[u] = NULL <=> entry[u] = NULL
       /\ entry[u] # NULL => /\ entry'[u].object = entry[u].object
                             /\ entry'[u].is_cow = entry[u].is_cow
       /\ pc'[u] \in CopyPCs => pc[u] \in CopyPCs
       /\ pc'[u] = "deref" <=> pc[u] = "deref"
       /\ pc[u] = "deref" => old'[u] = old[u]

\* A step that moves no reference keeps the invariant.
LEMMA QuietIInv ==
  ASSUME IInv, Quiet, TypeOK', Words', MappedIsBacking'
  PROVE  IInv'
<1>1. RefcountsAreExact'
  <2>1. ASSUME NEW f \in Frames
        PROVE  /\ Slots(f)' = Slots(f) /\ Copied(f)' = Copied(f)
               /\ Objects(f)' = Objects(f) /\ Amaps(f)' = Amaps(f)
    BY DEF Quiet, Slots, Copied, Objects, Amaps
  <2>2. ASSUME NEW f \in Frames PROVE Counted(f)'
    BY <2>1, CountedFrames DEF Quiet, IInv, Counted
  <2>3. RefcountsAreExact' <=> \A f \in Frames : Counted(f)'
    BY DEF RefcountsAreExact, Counted, Slots, Copied, Objects, Amaps
  <2> QED BY <2>2, <2>3
<1>2. CopyIsOwn'
  BY DEF IInv, CopyIsOwn, Quiet
<1>3. FrameKinds'
  BY DEF IInv, FrameKinds, Quiet
<1> QED BY <1>1, <1>2, <1>3 DEF IInv

\* The page table entries that a fault installs lead to the page.
LEMMA MapIInv ==
  ASSUME IInv, NEW m \in Maps, NEW f \in Frames, NEW w \in BOOLEAN,
         pmap_map(m, f, w), f = Backing(m), entry[m] # NULL,
         pc[m] \in {"user", "relock", "freed"}, pc' = [pc EXCEPT ![m] = "user"],
         old'[m] = NULL \/ old' = old, old' \in [Maps -> Frames \cup {NULL}],
         \A u \in Maps : u # m => old'[u] = old[u],
         UNCHANGED <<live, entry, slot, refcnt, content, leaked>>
  PROVE  IInv'
<1>1. pte' = [pte EXCEPT ![m] = [frame |-> f, w |-> w]]
  BY DEF pmap_map
<1>2. TypeOK'
  BY <1>1 DEF IInv, TypeOK, PCs
<1>3. Quiet
  BY DEF Quiet, IInv, TypeOK, CopyPCs
<1>4. Words'
  BY <1>1 DEF IInv, Words, TypeOK, CopyPCs
<1>5. MappedIsBacking'
  BY <1>1 DEF IInv, MappedIsBacking, InUser, Backing, TypeOK
<1> QED BY <1>2, <1>3, <1>4, <1>5, QuietIInv

\* The faults that only enter a page into the page table.
LEMMA FaultIInv ==
  ASSUME IInv, NEW m \in Maps, NEW wr \in BOOLEAN,
         \/ FaultShared(m, wr) \/ FaultMap(m, wr)
         \/ FaultBackingRead(m) \/ FaultMapCopy(m)
  PROVE  IInv'
<1>1. CASE FaultShared(m, wr)
  <2>1. entry[m] # NULL /\ ~entry[m].is_cow /\ pc[m] = "user"
    BY <1>1 DEF FaultShared, Faults, InUser
  <2>2. slot[m] = NULL /\ entry[m].object \in Frames /\ entry[m].prot \in BOOLEAN
    BY <2>1 DEF IInv, Words, TypeOK
  <2>3. /\ pmap_map(m, entry[m].object, entry[m].prot)
        /\ UNCHANGED <<live, entry, slot, refcnt, content, pc, old, leaked>>
    BY <1>1 DEF FaultShared, memVars
  <2>4. pc' = [pc EXCEPT ![m] = "user"] /\ old' \in [Maps -> Frames \cup {NULL}]
    BY <2>1, <2>3 DEF IInv, TypeOK
  <2>5. entry[m].object = Backing(m)
    BY <2>2 DEF Backing
  <2> QED BY <2>1, <2>2, <2>3, <2>4, <2>5, MapIInv
<1>2. CASE FaultMap(m, wr)
  <2>1. entry[m] # NULL /\ slot[m] # NULL /\ pc[m] = "user"
    BY <1>2 DEF FaultMap, vm_amap_lookup, Faults, InUser
  <2>2. slot[m] \in Frames /\ (entry[m].prot /\ refcnt[slot[m]] = 1) \in BOOLEAN
    BY <2>1 DEF IInv, TypeOK
  <2>3. /\ pmap_map(m, slot[m], entry[m].prot /\ refcnt[slot[m]] = 1)
        /\ UNCHANGED <<live, entry, slot, refcnt, content, pc, old, leaked>>
    BY <1>2 DEF FaultMap, memVars
  <2>4. pc' = [pc EXCEPT ![m] = "user"] /\ old' \in [Maps -> Frames \cup {NULL}]
    BY <2>1, <2>3 DEF IInv, TypeOK
  <2>5. slot[m] = Backing(m)
    BY <2>1 DEF Backing
  <2> QED BY <2>1, <2>2, <2>3, <2>4, <2>5, MapIInv
<1>3. CASE FaultBackingRead(m)
  <2>1. entry[m] # NULL /\ slot[m] = NULL /\ pc[m] = "user"
    BY <1>3 DEF FaultBackingRead, Faults, InUser
  <2>2. entry[m].object \in Frames /\ FALSE \in BOOLEAN
    BY <2>1 DEF IInv, TypeOK
  <2>3. /\ pmap_map(m, entry[m].object, FALSE)
        /\ UNCHANGED <<live, entry, slot, refcnt, content, pc, old, leaked>>
    BY <1>3 DEF FaultBackingRead, memVars
  <2>4. pc' = [pc EXCEPT ![m] = "user"] /\ old' \in [Maps -> Frames \cup {NULL}]
    BY <2>1, <2>3 DEF IInv, TypeOK
  <2>5. entry[m].object = Backing(m)
    BY <2>1 DEF Backing
  <2> QED BY <2>1, <2>2, <2>3, <2>4, <2>5, MapIInv
<1>4. CASE FaultMapCopy(m)
  <2>1. pc[m] \in {"relock", "freed"}
    BY <1>4 DEF FaultMapCopy
  <2>2. slot[m] # NULL /\ entry[m] # NULL
    BY <2>1 DEF IInv, Words, CopyPCs
  <2>3. slot[m] \in Frames /\ entry[m].prot \in BOOLEAN
    BY <2>2 DEF IInv, TypeOK
  <2>4. /\ pmap_map(m, slot[m], entry[m].prot)
        /\ old' = [old EXCEPT ![m] = NULL] /\ pc' = [pc EXCEPT ![m] = "user"]
        /\ UNCHANGED <<live, entry, slot, refcnt, content, leaked>>
    BY <1>4 DEF FaultMapCopy, memVars, Goto
  <2>5. /\ old'[m] = NULL /\ old' \in [Maps -> Frames \cup {NULL}]
        /\ \A u \in Maps : u # m => old'[u] = old[u]
    BY <2>4 DEF IInv, TypeOK
  <2>6. slot[m] = Backing(m)
    BY <2>2 DEF Backing
  <2> QED BY ZenonT(40), <2>1, <2>2, <2>3, <2>4, <2>5, <2>6, MapIInv
<1> QED BY <1>1, <1>2, <1>3, <1>4

\* The other steps that move no reference.
LEMMA QuietSteps ==
  ASSUME IInv, NEW m \in Maps,
         \/ \E w \in Protects : vm_protect(m, w)
         \/ \E v \in Values : Store(m, v)
         \/ vm_unmap(m) \/ sched_exit_self(m) \/ FaultDenied(m) \/ kmutex_release(m)
  PROVE  IInv'
<1> USE DEF IInv
<1>1. ASSUME NEW w \in Protects, vm_protect(m, w) PROVE IInv'
  <2>1. entry[m] \in [object : Frames, is_cow : BOOLEAN, prot : BOOLEAN, max : BOOLEAN]
    BY <1>1 DEF vm_protect, TypeOK
  <2>2. /\ entry' = [entry EXCEPT ![m] = [entry[m] EXCEPT !.prot = w]]
        /\ pte' = [pte EXCEPT ![m] = IF pte[m] = NULL THEN NULL ELSE [pte[m] EXCEPT !.w = w]]
        /\ UNCHANGED <<live, slot, refcnt, content, pc, old, leaked>>
        /\ entry[m] # NULL /\ live[m] = "running" /\ pc[m] = "user"
    BY <1>1 DEF vm_protect, memVars, InUser
  <2>3. w \in BOOLEAN
    BY VmAssumption
  <2>4. /\ [entry[m] EXCEPT !.prot = w] \in
             [object : Frames, is_cow : BOOLEAN, prot : BOOLEAN, max : BOOLEAN]
        /\ [entry[m] EXCEPT !.prot = w].object = entry[m].object
        /\ [entry[m] EXCEPT !.prot = w].is_cow = entry[m].is_cow
    BY <2>1, <2>3
  <2>5. pte[m] # NULL => /\ [pte[m] EXCEPT !.w = w] \in [frame : Frames, w : BOOLEAN]
                         /\ [pte[m] EXCEPT !.w = w].frame = pte[m].frame
    BY <2>3 DEF TypeOK
  <2> DEFINE e == [entry[m] EXCEPT !.prot = w]
             p == IF pte[m] = NULL THEN NULL ELSE [pte[m] EXCEPT !.w = w]
  <2>6. /\ entry' = [entry EXCEPT ![m] = e] /\ pte' = [pte EXCEPT ![m] = p]
        /\ e \in [object : Frames, is_cow : BOOLEAN, prot : BOOLEAN, max : BOOLEAN]
        /\ e # NULL /\ e.object = entry[m].object /\ e.is_cow = entry[m].is_cow
        /\ p \in [frame : Frames, w : BOOLEAN] \cup {NULL}
        /\ p # NULL => pte[m] # NULL /\ p.frame = pte[m].frame
    BY <2>2, <2>4, <2>5, VmAssumption
  <2> HIDE DEF e, p
  <2>7. TypeOK'
    BY <2>2, <2>6 DEF TypeOK
  <2>8. Quiet
    BY <2>2, <2>6 DEF Quiet, TypeOK
  <2>9. Words'
    BY <2>2, <2>6 DEF Words, TypeOK
  <2>10. MappedIsBacking'
    BY <2>2, <2>6 DEF MappedIsBacking, InUser, Backing, TypeOK
  <2> QED BY <2>7, <2>8, <2>9, <2>10, QuietIInv
<1>2. ASSUME NEW v \in Values, Store(m, v) PROVE IInv'
  <2>1. TypeOK'
    BY <1>2 DEF Store, TypeOK
  <2>2. Quiet /\ Words' /\ MappedIsBacking'
    BY <1>2 DEF Store, Quiet, Words, MappedIsBacking, InUser, Backing
  <2> QED BY <2>1, <2>2, QuietIInv
<1>3. CASE vm_unmap(m) \/ kmutex_release(m)
  <2>1. TypeOK'
    BY <1>3 DEF vm_unmap, kmutex_release, TypeOK, PCs, Goto, memVars
  <2>2. Quiet
    BY <1>3 DEF vm_unmap, kmutex_release, TypeOK, Goto, memVars, Quiet, CopyPCs, InUser
  <2>3. Words'
    BY <1>3 DEF vm_unmap, kmutex_release, TypeOK, Goto, memVars, Words, CopyPCs, InUser
  <2>4. MappedIsBacking'
    BY <1>3 DEF vm_unmap, kmutex_release, TypeOK, Goto, MappedIsBacking, InUser, Backing
  <2> QED BY <2>1, <2>2, <2>3, <2>4, QuietIInv
<1>4. CASE sched_exit_self(m) \/ FaultDenied(m)
  <2>1. /\ live[m] = "running" /\ pc[m] = "user" /\ live' = [live EXCEPT ![m] = "zombie"]
        /\ UNCHANGED <<entry, slot, pte, refcnt, content, pc, old>>
        /\ leaked' \in [Maps -> BOOLEAN]
    BY <1>4 DEF sched_exit_self, FaultDenied, Faults, InUser, memVars, TypeOK
  <2>2. TypeOK'
    BY <2>1 DEF TypeOK
  <2>3. Quiet /\ Words' /\ MappedIsBacking'
    BY <2>1 DEF Quiet, Words, MappedIsBacking, InUser, Backing, TypeOK
  <2> QED BY <2>2, <2>3, QuietIInv
<1> QED BY <1>1, <1>2, <1>3, <1>4
-----------------------------------------------------------------------------
(* Steps that move references *)

\* What such a step of address space x must show.
Moved(x) ==
  /\ \A u \in Maps : u # x => /\ slot'[u] = slot[u] /\ pc'[u] = pc[u]
                              /\ old'[u] = old[u] /\ entry'[u] = entry[u]
  /\ \A f \in Frames : refcnt'[f] = refcnt[f] - Owns(x, f) + Owns(x, f)'
  /\ \A u \in Maps, f \in Frames : u # x /\ pc[u] \in CopyPCs /\ slot[u] = f =>
       Owns(x, f)' = Owns(x, f) \/ Owns(x, f)' = 0
  /\ pc'[x] \in CopyPCs => refcnt'[slot'[x]] = 1

\* A step that moves references of one address space, and counts them.
LEMMA MovedIInv ==
  ASSUME IInv, NEW x \in Maps, Moved(x), TypeOK', Words', MappedIsBacking', FrameKinds'
  PROVE  IInv'
<1>1. \A f \in Frames : Counted(f)
  BY CountedFrames DEF IInv
<1>2. \A f \in Frames : Counted(f)'
  BY <1>1, OwnsStep DEF Moved
<1>3. RefcountsAreExact'
  BY <1>2 DEF RefcountsAreExact, Counted, Slots, Copied, Objects, Amaps
<1>4. CopyIsOwn'
  <2> SUFFICES ASSUME NEW u \in Maps, u # x, pc[u] \in CopyPCs PROVE refcnt'[slot[u]] = 1
    BY DEF CopyIsOwn, Moved
  <2>1. slot[u] \in Frames /\ refcnt[slot[u]] = 1
    BY DEF IInv, CopyIsOwn, Words, TypeOK
  <2>2. Owns(x, slot[u]) \in Nat /\ 1 >= Owns(u, slot[u]) + Owns(x, slot[u])
    BY <1>1, <2>1, OwnsBound
  <2>3. Owns(u, slot[u]) \in Nat /\ Owns(u, slot[u]) >= 1
    BY DEF Owns, Bit, Slots
  <2>4. Owns(x, slot[u]) = 0
    BY <2>2, <2>3
  <2> QED BY <2>1, <2>4 DEF Moved
<1> QED BY <1>3, <1>4 DEF IInv

\* A frame without references is nobody's.
LEMMA FreshFrame ==
  ASSUME IInv, NEW f \in Frames, refcnt[f] = 0, NEW u \in Maps
  PROVE  /\ slot[u] # f /\ (entry[u] # NULL => entry[u].object # f)
         /\ Owns(u, f) = 0
<1>1. Owns(u, f) = 0
  <2>1. Owns(u, f) \in Nat /\ refcnt[f] >= Owns(u, f)
    BY OwnsBound, CountedFrames DEF IInv
  <2> QED BY <2>1
<1>2. Bit(u \in Slots(f)) = 0 /\ Bit(u \in Objects(f)) = 0
  BY <1>1 DEF Owns, Bit
<1> QED BY <1>1, <1>2 DEF Bit, Slots, Objects

\* Outside the copying of an anon an address space owns what its entry holds.
LEMMA OwnsEntry ==
  ASSUME NEW m \in Maps, NEW f \in Frames, pc[m] # "deref"
  PROVE  /\ entry[m] # NULL => Owns(m, f) = Holds(m, f)
         /\ entry[m] = NULL /\ slot[m] = NULL => Owns(m, f) = 0
BY VmAssumption DEF Owns, Holds, Bit, Slots, Copied, Objects, Amaps

\* An address space without a mapping and without a page owns nothing.
LEMMA OwnsNothing ==
  ASSUME NEW m \in Maps, NEW f \in Frames, pc'[m] # "deref", entry'[m] = NULL, slot'[m] = NULL
  PROVE  Owns(m, f)' = 0
BY VmAssumption DEF Owns, Bit, Slots, Copied, Objects, Amaps

\* A new object, and a new anon.
LEMMA AllocIInv ==
  ASSUME IInv, NEW m \in Maps,
         \/ \E cow, w \in BOOLEAN : vm_map(m, cow, w)
         \/ vm_amap_fill_locked(m) \/ vm_anon_copy(m)
  PROVE  IInv'
<1> USE DEF IInv
<1>1. ASSUME NEW cow \in BOOLEAN, NEW w \in BOOLEAN, vm_map(m, cow, w) PROVE IInv'
  <2> DEFINE e(f) == [object |-> f, is_cow |-> cow, prot |-> w, max |-> w]
  <2>1. PICK f \in Frames :
          /\ refcnt[f] = 0 /\ entry' = [entry EXCEPT ![m] = e(f)]
          /\ refcnt' = [refcnt EXCEPT ![f] = IF cow THEN 2 ELSE 1]
          /\ content' = [content EXCEPT ![f] = ZERO]
    BY <1>1 DEF vm_map, IsAllocated
  <2>2. /\ e(f) \in [object : Frames, is_cow : BOOLEAN, prot : BOOLEAN, max : BOOLEAN]
        /\ e(f) # NULL /\ e(f).object = f /\ e(f).is_cow = cow
    BY VmAssumption
  <2> HIDE DEF e
  <2>3. /\ live[m] = "running" /\ pc[m] = "user" /\ entry[m] = NULL
        /\ UNCHANGED <<live, slot, pte, pc, old, leaked>>
    BY <1>1 DEF vm_map, InUser
  <2>4. slot[m] = NULL /\ pte[m] = NULL
    BY <2>3 DEF Words
  <2>5. TypeOK'
    BY <2>1, <2>2, <2>3, VmAssumption DEF TypeOK
  <2>6. Words' /\ MappedIsBacking'
    BY <2>1, <2>2, <2>3, <2>4 DEF Words, MappedIsBacking, InUser, Backing, TypeOK, CopyPCs
  <2>7. \A u \in Maps : u # m => entry'[u] = entry[u]
    BY <2>1 DEF TypeOK
  <2>8. entry'[m] = e(f)
    BY <2>1 DEF TypeOK
  <2>9. FrameKinds'
    BY <2>1, <2>2, <2>3, <2>7, <2>8, FreshFrame DEF FrameKinds
  <2>10. \A g \in Frames : Owns(m, g)' = IF g = f THEN refcnt'[f] ELSE 0
    BY <2>1, <2>2, <2>3, <2>4, <2>8, VmAssumption
       DEF Owns, Bit, Slots, Copied, Objects, Amaps, TypeOK
  <2>11. \A g \in Frames : Owns(m, g) = 0
    BY <2>3, <2>4, OwnsEntry
  <2>12. \A g \in Frames : refcnt'[g] = refcnt[g] - Owns(m, g) + Owns(m, g)'
    BY <2>1, <2>10, <2>11 DEF TypeOK
  <2>13. \A u \in Maps, g \in Frames : slot[u] = g => Owns(m, g)' = 0
    BY <2>1, <2>10, FreshFrame
  <2>14. pc'[m] \notin CopyPCs
    BY <2>3 DEF CopyPCs
  <2>15. Moved(m)
    BY <2>3, <2>7, <2>12, <2>13, <2>14 DEF Moved
  <2> QED BY <2>5, <2>6, <2>9, <2>15, MovedIInv
<1>2. CASE vm_amap_fill_locked(m) \/ vm_anon_copy(m)
  <2>1. PICK f \in Frames :
          /\ refcnt[f] = 0 /\ refcnt' = [refcnt EXCEPT ![f] = 1]
          /\ content' = [content EXCEPT ![f] = content[Backing(m)]]
          /\ slot' = [slot EXCEPT ![m] = f]
          /\ entry[m] # NULL /\ entry[m].is_cow /\ live[m] = "running" /\ pc[m] = "user"
          /\ \/ /\ slot[m] = NULL /\ pmap_map(m, f, entry[m].prot)
                /\ UNCHANGED <<live, entry, pc, old, leaked>>
             \/ /\ slot[m] # NULL /\ old' = [old EXCEPT ![m] = slot[m]]
                /\ pc' = [pc EXCEPT ![m] = "deref"]
                /\ UNCHANGED <<live, entry, pte, leaked>>
    <3>1. CASE vm_amap_fill_locked(m)
      BY <3>1 DEF vm_amap_fill_locked, Faults, InUser, IsAllocated, Backing
    <3>2. CASE vm_anon_copy(m)
      <4>1. entry[m].is_cow
        BY <3>2 DEF vm_anon_copy, vm_amap_lookup, Words
      <4> QED BY <3>2, <4>1 DEF vm_anon_copy, vm_amap_lookup, Faults, InUser, IsAllocated,
                                Backing, Goto
    <3> QED BY <1>2, <3>1, <3>2
  <2>2. f # NULL /\ entry[m].object # f /\ slot[m] # f /\ content[Backing(m)] \in Values
    BY <2>1, FreshFrame, VmAssumption DEF TypeOK, Backing
  <2>3. TypeOK'
    <3>1. entry[m].prot \in BOOLEAN
      BY <2>1 DEF TypeOK
    <3>2. pte' \in [Maps -> [frame : Frames, w : BOOLEAN] \cup {NULL}]
      BY <2>1, <3>1 DEF TypeOK, pmap_map
    <3>3. /\ pc' \in [Maps -> PCs] /\ old' \in [Maps -> Frames \cup {NULL}]
          /\ slot' \in [Maps -> Frames \cup {NULL}]
      BY <2>1 DEF TypeOK, PCs
    <3>4. refcnt' \in [Frames -> Nat] /\ content' \in [Frames -> Values]
      BY <2>1, <2>2 DEF TypeOK
    <3> QED BY <2>1, <3>2, <3>3, <3>4 DEF TypeOK
  <2>4. Words'
    BY <2>1, <2>2 DEF Words, TypeOK, CopyPCs, pmap_map
  <2>5. MappedIsBacking'
    BY <2>1, <2>2 DEF MappedIsBacking, InUser, Backing, TypeOK, pmap_map
  <2>6. FrameKinds'
    <3>1. \A u \in Maps : slot'[u] = IF u = m THEN f ELSE slot[u]
      BY <2>1 DEF TypeOK
    <3>2. entry' = entry
      BY <2>1
    <3> QED BY <2>1, <3>1, <3>2, FreshFrame DEF FrameKinds
  <2>7. /\ slot'[m] = f /\ \A u \in Maps : u # m => /\ slot'[u] = slot[u] /\ pc'[u] = pc[u]
                                                   /\ old'[u] = old[u] /\ entry'[u] = entry[u]
    BY <2>1 DEF TypeOK
  <2>8. \A g \in Frames : Owns(m, g)' = Owns(m, g) + Bit(g = f)
    <3>1. CASE slot[m] = NULL
      <4>1. UNCHANGED <<entry, pc, old>>
        BY <2>1, <3>1
      <4> QED BY <3>1, <4>1, <2>1, <2>7, VmAssumption DEF Owns, Bit, Slots, Copied, Objects, Amaps
    <3>2. CASE slot[m] # NULL
      <4>1. entry' = entry /\ pc'[m] = "deref" /\ old'[m] = slot[m] /\ pc[m] = "user"
        BY <2>1, <3>2 DEF TypeOK
      <4> QED BY <3>2, <4>1, <2>2, <2>7 DEF Owns, Bit, Slots, Copied, Objects, Amaps
    <3> QED BY <3>1, <3>2
  <2>9. \A g \in Frames : Owns(m, g) \in Nat
    BY OwnsBound, CountedFrames
  <2>10. \A g \in Frames : refcnt'[g] = refcnt[g] - Owns(m, g) + Owns(m, g)'
    BY <2>1, <2>8, <2>9 DEF Bit, TypeOK
  <2>11. \A u \in Maps, g \in Frames : slot[u] = g => Owns(m, g)' = Owns(m, g)
    BY <2>1, <2>8, <2>9, FreshFrame DEF Bit
  <2>12. refcnt'[slot'[m]] = 1
    BY <2>1, <2>7 DEF TypeOK
  <2>13. Moved(m)
    BY <2>7, <2>10, <2>11, <2>12 DEF Moved
  <2> QED BY <2>3, <2>4, <2>5, <2>6, <2>13, MovedIInv
<1> QED BY <1>1, <1>2

\* An entry goes, and its references with it; the old anon of a copy goes.
LEMMA DropIInv ==
  ASSUME IInv, NEW m \in Maps, UnmapDrop(m) \/ vm_map_destroy(m) \/ vm_anon_deref(m)
  PROVE  IInv'
<1> USE DEF IInv
<1>c. \A g \in Frames : Owns(m, g) \in Nat /\ refcnt[g] \in Nat /\ refcnt[g] >= Owns(m, g)
  BY OwnsBound, CountedFrames
<1>1. CASE UnmapDrop(m) \/ vm_map_destroy(m)
  <2>1. /\ entry' = [entry EXCEPT ![m] = NULL] /\ slot' = [slot EXCEPT ![m] = NULL]
        /\ old' = old /\ leaked' = leaked
        /\ \/ /\ pc[m] = "unmap" /\ pc' = [pc EXCEPT ![m] = "user"]
              /\ pte' = pte /\ live' = live /\ DropEntry(m)
           \/ /\ live[m] = "zombie" /\ live' = [live EXCEPT ![m] = "none"]
              /\ pte' = [pte EXCEPT ![m] = NULL] /\ pc' = pc
              /\ IF entry[m] = NULL THEN UNCHANGED memVars ELSE DropEntry(m)
    BY <1>1 DEF UnmapDrop, vm_map_destroy, Goto
  <2>2. /\ pc[m] # "deref" /\ pc'[m] = "user" /\ entry'[m] = NULL /\ slot'[m] = NULL
        /\ pc[m] = "unmap" => entry[m] # NULL /\ pte[m] = NULL
        /\ \A u \in Maps : u # m => /\ slot'[u] = slot[u] /\ pc'[u] = pc[u]
                                    /\ old'[u] = old[u] /\ entry'[u] = entry[u]
    BY <2>1 DEF Words, TypeOK
  <2>3. \A g \in Frames : Owns(m, g)' = 0
    BY <2>2, OwnsNothing
  <2>4. /\ refcnt' = [g \in Frames |-> refcnt[g] - Owns(m, g)]
        /\ content' \in [Frames -> Values]
    <3>1. CASE entry[m] = NULL
      <4>1. refcnt' = refcnt /\ content' = content /\ slot[m] = NULL
        BY <2>1, <2>2, <3>1 DEF memVars, Words
      <4>2. \A g \in Frames : refcnt[g] - Owns(m, g) = refcnt[g]
        BY <1>c, <3>1, <4>1, <2>2, OwnsEntry
      <4> QED BY <4>1, <4>2 DEF TypeOK
    <3>2. CASE entry[m] # NULL
      <4>1. DropEntry(m)
        BY <2>1, <3>2
      <4>2. \A g \in Frames : Owns(m, g) = Holds(m, g)
        BY <2>2, <3>2, OwnsEntry
      <4> QED BY <4>1, <4>2, VmAssumption DEF DropEntry, SetRefcnt, TypeOK
    <3> QED BY <3>1, <3>2
  <2>5. TypeOK'
    <3>1. refcnt' \in [Frames -> Nat]
      BY <1>c, <2>4
    <3>2. live' \in [Maps -> {"none", "running", "zombie"}]
      BY <2>1 DEF TypeOK
    <3> QED BY <2>1, <2>4, <3>1, <3>2 DEF TypeOK, PCs
  <2>6. Words' /\ MappedIsBacking'
    <3>1. /\ pte'[m] = NULL /\ live' \in [Maps -> {"none", "running", "zombie"}]
          /\ \A u \in Maps : u # m => pte'[u] = pte[u] /\ live'[u] = live[u]
      BY <2>1, <2>2 DEF TypeOK
    <3>2. Words'
      BY <2>2, <3>1 DEF Words, CopyPCs
    <3>3. MappedIsBacking'
      BY <2>2, <3>1 DEF MappedIsBacking, InUser, Backing
    <3> QED BY <3>2, <3>3
  <2>7. FrameKinds'
    <3>1. \A u \in Maps : entry[u] # NULL => entry[u].object # NULL
      BY VmAssumption DEF TypeOK
    <3> QED BY <2>2, <3>1 DEF FrameKinds
  <2>8. \A g \in Frames : refcnt'[g] = refcnt[g] - Owns(m, g) + Owns(m, g)'
    BY <1>c, <2>3, <2>4
  <2>9. pc'[m] \notin CopyPCs
    BY <2>2 DEF CopyPCs
  <2>10. Moved(m)
    BY <2>2, <2>3, <2>8, <2>9 DEF Moved
  <2> QED BY <2>5, <2>6, <2>7, <2>10, MovedIInv
<1>2. CASE vm_anon_deref(m)
  <2> DEFINE o == old[m]
  <2>1. /\ pc[m] = "deref" /\ o \in Frames /\ entry[m] # NULL /\ slot[m] # NULL
        /\ refcnt[slot[m]] = 1
    BY <1>2 DEF vm_anon_deref, Words, TypeOK, CopyPCs, CopyIsOwn
  <2> HIDE DEF o
  <2>2. /\ refcnt' = [refcnt EXCEPT ![o] = @ - 1]
        /\ content' = [f \in Frames |-> IF refcnt'[f] = 0 THEN ZERO ELSE content[f]]
        /\ \/ pc' = [pc EXCEPT ![m] = "freed"] /\ old' = [old EXCEPT ![m] = NULL]
           \/ pc' = [pc EXCEPT ![m] = "relock"] /\ old' = old
        /\ UNCHANGED <<live, entry, slot, pte, leaked>>
    BY <1>2 DEF vm_anon_deref, SetRefcnt, Goto, o
  <2>3. /\ pc'[m] \in {"freed", "relock"}
        /\ \A u \in Maps : u # m => pc'[u] = pc[u] /\ old'[u] = old[u]
    BY <2>2 DEF TypeOK
  <2>4. \A g \in Frames : Owns(m, g) = Owns(m, g)' + Bit(g = o)
    BY <2>1, <2>2, <2>3, VmAssumption DEF Owns, Bit, Slots, Copied, Objects, Amaps, o
  <2>5. \A g \in Frames : Owns(m, g)' \in Nat
    BY DEF Owns, Bit
  <2>6. Owns(m, o) >= 1 /\ Owns(m, slot[m]) >= 1
    BY <2>1 DEF Owns, Bit, Slots, Copied, o
  <2>7. o # slot[m]
    <3>1. Bit(m \in Slots(o)) + Bit(m \in Copied(o)) <= Owns(m, o)
      BY DEF Owns, Bit
    <3>2. o = slot[m] => Bit(m \in Slots(o)) + Bit(m \in Copied(o)) = 2
      BY <2>1 DEF Bit, Slots, Copied, o
    <3>3. o = slot[m] => Owns(m, o) \in Nat /\ 1 >= Owns(m, o)
      BY <1>c, <2>1
    <3> QED BY <3>1, <3>2, <3>3 DEF Bit
  <2>8. TypeOK'
    <3>1. refcnt[o] \in Nat /\ refcnt[o] >= 1
      BY <1>c, <2>1, <2>6
    <3>2. refcnt' \in [Frames -> Nat]
      BY <2>1, <2>2, <3>1 DEF TypeOK
    <3>3. content' \in [Frames -> Values]
      BY <2>2, VmAssumption DEF TypeOK
    <3>4. pc' \in [Maps -> PCs] /\ old' \in [Maps -> Frames \cup {NULL}]
      BY <2>2 DEF TypeOK, PCs
    <3> QED BY <2>2, <3>2, <3>3, <3>4 DEF TypeOK
  <2>9. Words' /\ MappedIsBacking'
    BY <2>1, <2>2, <2>3 DEF Words, CopyPCs, MappedIsBacking, InUser, Backing
  <2>10. FrameKinds'
    BY <2>2 DEF FrameKinds
  <2>11. \A g \in Frames : refcnt'[g] = refcnt[g] - Owns(m, g) + Owns(m, g)'
    BY <1>c, <2>1, <2>2, <2>4, <2>5 DEF Bit, TypeOK
  <2>12. refcnt'[slot'[m]] = 1
    <3>1. slot[m] \in Frames
      BY <2>1 DEF TypeOK
    <3> QED BY <2>1, <2>2, <2>7, <3>1 DEF TypeOK
  <2>13. \A u \in Maps, g \in Frames : u # m /\ pc[u] \in CopyPCs /\ slot[u] = g =>
           Owns(m, g)' = 0
    <3> SUFFICES ASSUME NEW u \in Maps, NEW g \in Frames, u # m, pc[u] \in CopyPCs, slot[u] = g
                 PROVE  Owns(m, g)' = 0
      OBVIOUS
    <3>1. refcnt[g] = 1
      BY DEF CopyIsOwn
    <3>2. Owns(u, g) \in Nat /\ Owns(u, g) >= 1
      BY DEF Owns, Bit, Slots
    <3>3. 1 >= Owns(u, g) + Owns(m, g)
      BY <3>1, OwnsBound, CountedFrames
    <3> QED BY <1>c, <2>4, <2>5, <3>2, <3>3 DEF Bit
  <2>14. Moved(m)
    BY <2>2, <2>3, <2>11, <2>12, <2>13 DEF Moved
  <2> QED BY <2>8, <2>9, <2>10, <2>14, MovedIInv
<1> QED BY <1>1, <1>2

\* The child's entry references what the parent's does.
LEMMA ForkIInv ==
  ASSUME IInv, NEW m \in Maps, NEW n \in Maps, vm_map_fork(m, n)
  PROVE  IInv'
<1> USE DEF IInv
<1>1. /\ live[m] = "running" /\ pc[m] = "user" /\ live[n] = "none" /\ m # n
      /\ live' = [live EXCEPT ![n] = "running"] /\ entry' = [entry EXCEPT ![n] = entry[m]]
      /\ slot' = [slot EXCEPT ![n] = slot[m]]
      /\ UNCHANGED <<content, pc, old, leaked>>
  BY DEF vm_map_fork, InUser
<1>2. /\ pc[n] = "user" /\ entry[n] = NULL /\ slot[n] = NULL /\ pte[n] = NULL
      /\ entry'[n] = entry[m] /\ slot'[n] = slot[m]
      /\ \A u \in Maps : u # n => entry'[u] = entry[u] /\ slot'[u] = slot[u]
  BY <1>1 DEF Words, TypeOK
<1>3. \A g \in Frames : Owns(m, g) \in Nat
  BY OwnsBound, CountedFrames
<1>4. /\ refcnt' = [g \in Frames |-> refcnt[g] + Owns(m, g)]
      /\ pte' \in [Maps -> [frame : Frames, w : BOOLEAN] \cup {NULL}]
      /\ \A u \in Maps : /\ pte'[u] # NULL <=> pte[u] # NULL
                         /\ pte[u] # NULL => pte'[u].frame = pte[u].frame
  <2>1. CASE entry[m] = NULL
    <3>1. slot[m] = NULL /\ refcnt' = refcnt /\ pte' = pte
      BY <2>1 DEF vm_map_fork, Words
    <3>2. \A g \in Frames : refcnt[g] + Owns(m, g) = refcnt[g]
      BY <1>1, <2>1, <3>1, OwnsEntry DEF TypeOK
    <3> QED BY <3>1, <3>2 DEF TypeOK
  <2>2. CASE entry[m] # NULL
    <3>1. \A g \in Frames : Owns(m, g) = Holds(m, g)
      BY <1>1, <2>2, OwnsEntry
    <3>2. refcnt' = [g \in Frames |-> refcnt[g] + Owns(m, g)]
      BY <2>2, <3>1 DEF vm_map_fork
    <3>3. pte' = [pte EXCEPT ![m] = IF pte[m] # NULL /\ entry[m].is_cow
                                    THEN [pte[m] EXCEPT !.w = FALSE] ELSE pte[m]]
      BY <2>2 DEF vm_map_fork
    <3>4. pte[m] # NULL => /\ [pte[m] EXCEPT !.w = FALSE] \in [frame : Frames, w : BOOLEAN]
                           /\ [pte[m] EXCEPT !.w = FALSE] # NULL
                           /\ [pte[m] EXCEPT !.w = FALSE].frame = pte[m].frame
      BY ZenonT(40), VmAssumption DEF TypeOK
    <3> QED BY <3>2, <3>3, <3>4 DEF TypeOK
  <2> QED BY <2>1, <2>2
<1>5. TypeOK'
  <2>1. refcnt' \in [Frames -> Nat]
    BY <1>3, <1>4 DEF TypeOK
  <2>2. /\ live' \in [Maps -> {"none", "running", "zombie"}]
        /\ slot' \in [Maps -> Frames \cup {NULL}]
        /\ entry' \in [Maps -> [object : Frames, is_cow : BOOLEAN, prot : BOOLEAN,
                                max : BOOLEAN] \cup {NULL}]
    BY <1>1 DEF TypeOK
  <2> QED BY <1>1, <1>4, <2>1, <2>2 DEF TypeOK
<1>6. Words'
  BY <1>1, <1>2, <1>4 DEF Words, TypeOK, CopyPCs
<1>7. MappedIsBacking'
  BY <1>1, <1>2, <1>4 DEF MappedIsBacking, InUser, Backing, TypeOK
<1>8. FrameKinds'
  BY <1>2, VmAssumption DEF FrameKinds, TypeOK
<1>9. \A g \in Frames : Owns(n, g) = 0 /\ Owns(n, g)' = Owns(m, g)
  <2>1. \A g \in Frames : Owns(n, g) = 0
    BY <1>2, OwnsEntry
  <2>2. pc' = pc
    BY <1>1
  <2>3. \A g \in Frames : Owns(n, g)' = Owns(m, g)
    BY <1>1, <1>2, <2>2 DEF Owns, Bit, Slots, Copied, Objects, Amaps
  <2> QED BY <2>1, <2>3
<1>10. \A g \in Frames : refcnt'[g] = refcnt[g] - Owns(n, g) + Owns(n, g)'
  BY <1>3, <1>4, <1>9 DEF TypeOK
<1>11. \A u \in Maps, g \in Frames : pc[u] \in CopyPCs /\ slot[u] = g => Owns(n, g)' = 0
  <2> SUFFICES ASSUME NEW u \in Maps, NEW g \in Frames, pc[u] \in CopyPCs, slot[u] = g
               PROVE  Owns(m, g) = 0
    BY <1>9
  <2>1. refcnt[g] = 1 /\ u # m
    BY <1>1 DEF CopyIsOwn, CopyPCs
  <2>2. Owns(u, g) \in Nat /\ Owns(u, g) >= 1
    BY DEF Owns, Bit, Slots
  <2>3. 1 >= Owns(u, g) + Owns(m, g)
    BY <2>1, OwnsBound, CountedFrames
  <2> QED BY <1>3, <2>2, <2>3
<1>12. Moved(n)
  BY <1>1, <1>2, <1>10, <1>11 DEF Moved, CopyPCs
<1> QED BY <1>5, <1>6, <1>7, <1>8, <1>12, MovedIInv

\* Nothing is mapped at first.
LEMMA InitIInv == Init => IInv
<1> SUFFICES ASSUME Init PROVE IInv
  OBVIOUS
<1>1. TypeOK /\ Words /\ MappedIsBacking /\ CopyIsOwn /\ FrameKinds
  BY VmAssumption DEF Init, TypeOK, PCs, Words, MappedIsBacking, CopyIsOwn, FrameKinds, CopyPCs
<1>2. ASSUME NEW f \in Frames PROVE Counted(f)
  <2>1. Slots(f) = {} /\ Copied(f) = {} /\ Objects(f) = {} /\ Amaps(f) = {}
    BY VmAssumption DEF Init, Slots, Copied, Objects, Amaps
  <2> QED BY <2>1, FS_EmptySet DEF Counted, Init
<1> QED BY <1>1, <1>2, CountedFrames DEF IInv

\* Every step keeps the invariant.
LEMMA NextIInv == IInv /\ [Next]_vars => IInv'
<1> SUFFICES ASSUME IInv, [Next]_vars PROVE IInv'
  OBVIOUS
<1>1. CASE Next
  <2>1. PICK m \in Maps :
          \/ \E cow, w \in BOOLEAN : vm_map(m, cow, w)
          \/ \E w \in Protects : vm_protect(m, w)
          \/ \E n \in Maps : vm_map_fork(m, n)
          \/ vm_unmap(m) \/ UnmapDrop(m) \/ sched_exit_self(m) \/ vm_map_destroy(m)
          \/ \E v \in Values : Store(m, v)
          \/ vm_handle_fault(m)
    BY <1>1 DEF Next
  <2>2. CASE vm_handle_fault(m)
    BY <2>2, FaultIInv, QuietSteps, AllocIInv, DropIInv DEF vm_handle_fault
  <2> QED BY <2>1, <2>2, QuietSteps, AllocIInv, DropIInv, ForkIInv
<1>2. CASE UNCHANGED vars
  <2>1. UNCHANGED <<live, entry, slot, pte, refcnt, content, pc, old, leaked>>
    BY <1>2 DEF vars, memVars
  <2>2. TypeOK' /\ Words' /\ MappedIsBacking' /\ Quiet
    BY <2>1 DEF IInv, TypeOK, Words, MappedIsBacking, Quiet, InUser, Backing
  <2> QED BY <2>2, QuietIInv
<1> QED BY <1>1, <1>2

\* The invariant holds in every state.
LEMMA SpecIInv == Spec => []IInv
BY InitIInv, NextIInv, PTL DEF Spec

\* Reference counts are the references there are, and a running process's page
\* table leads to the page that its entry and its amap name, through every
\* interleaving of faults, forks and unmappings (fault.c, amap.c, anon.c, map.c).
THEOREM PagesCounted == Spec => []PagesAreCounted
<1>1. IInv => PagesAreCounted
  BY DEF IInv, PagesAreCounted
<1> QED BY <1>1, SpecIInv, PTL
-----------------------------------------------------------------------------
(* Writable pages *)

Writable(u) == InUser(u) /\ pte[u] # NULL /\ pte[u].w /\ entry[u].is_cow

\* A page that was writable still is, and its count has not risen.
Kept(u) ==
  /\ Writable(u) /\ slot'[u] = slot[u] /\ pte'[u].frame = pte[u].frame
  /\ slot[u] \in Frames /\ refcnt[slot[u]] = 1 => refcnt'[slot[u]] <= 1

\* A page became writable, and it is an anon of its own.
Gained(u) == slot'[u] = pte'[u].frame /\ refcnt'[slot'[u]] = 1

\* Steps that leave the page table entry alone or replace it by a weaker one.
LEMMA WeakerSteps ==
  ASSUME IInv, Protects \subseteq {FALSE}, NEW m \in Maps, NEW u \in Maps, Writable(u)',
         \/ \E cow, w \in BOOLEAN : vm_map(m, cow, w)
         \/ \E w \in Protects : vm_protect(m, w)
         \/ \E n \in Maps : vm_map_fork(m, n)
         \/ vm_unmap(m) \/ sched_exit_self(m) \/ FaultDenied(m) \/ kmutex_release(m)
         \/ \E v \in Values : Store(m, v)
  PROVE  Kept(u)
<1> USE DEF IInv, Writable, Kept
<1>1. ASSUME NEW cow \in BOOLEAN, NEW w \in BOOLEAN, vm_map(m, cow, w) PROVE Kept(u)
  <2>1. PICK f \in Frames : /\ refcnt[f] = 0
                            /\ refcnt' = [refcnt EXCEPT ![f] = IF cow THEN 2 ELSE 1]
    BY <1>1 DEF vm_map, IsAllocated
  <2>2. /\ entry[m] = NULL /\ \A n \in Maps : n # m => entry'[n] = entry[n]
        /\ UNCHANGED <<live, slot, pte, pc>>
    BY <1>1 DEF vm_map, TypeOK
  <2>3. u # m
    BY <2>2 DEF Words
  <2>4. slot[u] # f
    BY <2>1, FreshFrame
  <2> QED BY <2>1, <2>2, <2>3, <2>4 DEF InUser, TypeOK
<1>2. ASSUME NEW w \in Protects, vm_protect(m, w) PROVE Kept(u)
  <2>1. /\ entry[m] # NULL /\ entry' = [entry EXCEPT ![m] = [entry[m] EXCEPT !.prot = w]]
        /\ pte' = [pte EXCEPT ![m] = IF pte[m] = NULL THEN NULL ELSE [pte[m] EXCEPT !.w = FALSE]]
        /\ UNCHANGED <<live, slot, refcnt, pc>>
    BY <1>2 DEF vm_protect, memVars
  <2>2. u # m
    <3>1. pte[m] # NULL => [pte[m] EXCEPT !.w = FALSE].w = FALSE
      BY DEF TypeOK
    <3> QED BY <2>1, <3>1 DEF TypeOK
  <2> QED BY <2>1, <2>2 DEF InUser, TypeOK
<1>3. ASSUME NEW n \in Maps, vm_map_fork(m, n) PROVE Kept(u)
  <2>1. /\ live[m] = "running" /\ pc[m] = "user" /\ live[n] = "none"
        /\ \A x \in Maps : x # n => /\ live'[x] = live[x] /\ entry'[x] = entry[x]
                                    /\ slot'[x] = slot[x]
        /\ pc' = pc
    BY <1>3 DEF vm_map_fork, InUser, TypeOK
  <2>2. u # n
    <3>1. pte[n] = NULL /\ m # n
      BY <2>1 DEF Words
    <3>2. pte'[n] = NULL
      BY <1>3, <3>1 DEF vm_map_fork, TypeOK
    <3> QED BY <3>2
  <2>3. CASE entry[m] = NULL
    <3>1. refcnt' = refcnt /\ pte' = pte
      BY <1>3, <2>3 DEF vm_map_fork
    <3> QED BY <2>1, <2>2, <3>1 DEF InUser
  <2>4. CASE entry[m] # NULL
    <3>1. pte' = [pte EXCEPT ![m] = IF pte[m] # NULL /\ entry[m].is_cow
                                    THEN [pte[m] EXCEPT !.w = FALSE] ELSE pte[m]]
      BY <1>3, <2>4 DEF vm_map_fork
    <3>2. u # m
      <4>1. pte[m] # NULL => [pte[m] EXCEPT !.w = FALSE].w = FALSE
        BY DEF TypeOK
      <4> QED BY <2>1, <2>2, <3>1, <4>1 DEF TypeOK
    <3>3. pte'[u] = pte[u]
      BY <3>1, <3>2 DEF TypeOK
    <3>4. ASSUME slot[u] \in Frames, refcnt[slot[u]] = 1 PROVE refcnt'[slot[u]] <= 1
      <4>1. Owns(u, slot[u]) \in Nat /\ Owns(u, slot[u]) >= 1
        BY DEF Owns, Bit, Slots
      <4>2. Owns(m, slot[u]) \in Nat /\ 1 >= Owns(m, slot[u]) + Owns(u, slot[u])
        BY <3>2, <3>4, OwnsBound, CountedFrames
      <4>3. Holds(m, slot[u]) = 0
        BY <2>1, <2>4, <3>4, <4>1, <4>2, OwnsEntry
      <4>4. refcnt'[slot[u]] = refcnt[slot[u]] + Holds(m, slot[u])
        BY <1>3, <2>4, <3>4 DEF vm_map_fork
      <4> QED BY <3>4, <4>3, <4>4
    <3> QED BY <2>1, <2>2, <3>3, <3>4 DEF InUser
  <2> QED BY <2>3, <2>4
<1>4. CASE vm_unmap(m) \/ kmutex_release(m)
  BY <1>4 DEF vm_unmap, kmutex_release, Goto, memVars, InUser, TypeOK
<1>5. CASE sched_exit_self(m) \/ FaultDenied(m)
  <2>1. live' = [live EXCEPT ![m] = "zombie"] /\ UNCHANGED <<entry, slot, pte, refcnt, pc>>
    BY <1>5 DEF sched_exit_self, FaultDenied, memVars
  <2> QED BY <2>1 DEF InUser, TypeOK
<1>6. ASSUME NEW v \in Values, Store(m, v) PROVE Kept(u)
  BY <1>6 DEF Store, InUser
<1> QED BY <1>1, <1>2, <1>3, <1>4, <1>5, <1>6

\* Steps that drop references.
LEMMA DropSteps ==
  ASSUME IInv, NEW m \in Maps, NEW u \in Maps, Writable(u)',
         UnmapDrop(m) \/ vm_map_destroy(m) \/ vm_anon_deref(m)
  PROVE  Kept(u)
<1> USE DEF IInv, Writable, Kept
<1>1. ASSUME NEW f \in Frames, refcnt[f] = 1 PROVE refcnt'[f] <= 1
  <2>1. Holds(m, f) \in Nat
    BY DEF Holds
  <2> QED BY <1>1, <2>1 DEF UnmapDrop, vm_map_destroy, vm_anon_deref, DropEntry, SetRefcnt,
                            memVars, TypeOK
<1>2. CASE UnmapDrop(m) \/ vm_map_destroy(m)
  <2>1. /\ entry'[m] = NULL /\ pte'[m] = NULL
        /\ \A n \in Maps : n # m => /\ entry'[n] = entry[n] /\ slot'[n] = slot[n]
                                    /\ pte'[n] = pte[n] /\ live'[n] = live[n] /\ pc'[n] = pc[n]
    BY <1>2 DEF UnmapDrop, vm_map_destroy, Goto, TypeOK, Words
  <2> QED BY <1>1, <2>1 DEF InUser
<1>3. CASE vm_anon_deref(m)
  <2>1. /\ pc'[m] # "user" /\ UNCHANGED <<entry, slot, pte, live>>
        /\ \A n \in Maps : n # m => pc'[n] = pc[n]
    BY <1>3 DEF vm_anon_deref, Goto, TypeOK
  <2> QED BY <1>1, <2>1 DEF InUser
<1> QED BY <1>2, <1>3

\* Faults.
LEMMA FaultSteps ==
  ASSUME IInv, NEW m \in Maps, NEW u \in Maps, Writable(u)', NEW wr \in BOOLEAN,
         \/ FaultShared(m, wr) \/ FaultMap(m, wr) \/ FaultBackingRead(m)
         \/ vm_amap_fill_locked(m) \/ vm_anon_copy(m) \/ FaultMapCopy(m)
  PROVE  Kept(u) \/ Gained(u)
<1> USE DEF IInv, Writable, Kept, Gained
<1>1. CASE FaultShared(m, wr) \/ FaultBackingRead(m)
  <2>1. /\ UNCHANGED <<live, entry, slot, refcnt, pc>>
        /\ \A n \in Maps : n # m => pte'[n] = pte[n]
        /\ ~entry[m].is_cow \/ pte'[m].w = FALSE
    <3>1. CASE FaultShared(m, wr)
      BY <3>1 DEF FaultShared, pmap_map, memVars, TypeOK
    <3>2. CASE FaultBackingRead(m)
      <4>1. pte' = [pte EXCEPT ![m] = [frame |-> entry[m].object, w |-> FALSE]]
        BY <3>2 DEF FaultBackingRead, pmap_map
      <4>2. pte'[m].w = FALSE /\ \A n \in Maps : n # m => pte'[n] = pte[n]
        BY <4>1 DEF TypeOK
      <4> QED BY <3>2, <4>2 DEF FaultBackingRead, memVars
    <3> QED BY <1>1, <3>1, <3>2
  <2> QED BY <2>1 DEF InUser
<1>2. CASE FaultMap(m, wr)
  <2>1. /\ UNCHANGED <<live, entry, slot, refcnt, pc>>
        /\ \A n \in Maps : n # m => pte'[n] = pte[n]
        /\ pte'[m].frame = slot[m] /\ (pte'[m].w => refcnt[slot[m]] = 1)
    <3> DEFINE b == entry[m].prot /\ refcnt[slot[m]] = 1
    <3>1. pmap_map(m, slot[m], b) /\ UNCHANGED <<live, entry, slot, refcnt, pc>>
      BY <1>2 DEF FaultMap, memVars
    <3>2. b => refcnt[slot[m]] = 1
      OBVIOUS
    <3> HIDE DEF b
    <3>3. pte' = [pte EXCEPT ![m] = [frame |-> slot[m], w |-> b]]
      BY <3>1 DEF pmap_map
    <3> QED BY <3>1, <3>2, <3>3 DEF TypeOK
  <2> QED BY <2>1 DEF InUser
<1>3. CASE vm_amap_fill_locked(m) \/ vm_anon_copy(m)
  <2>1. PICK f \in Frames :
          /\ refcnt[f] = 0 /\ refcnt' = [refcnt EXCEPT ![f] = 1]
          /\ slot' = [slot EXCEPT ![m] = f]
          /\ \/ pmap_map(m, f, entry[m].prot) /\ UNCHANGED <<live, entry, pc>>
             \/ pc' = [pc EXCEPT ![m] = "deref"] /\ UNCHANGED <<live, entry, pte>>
    BY <1>3 DEF vm_amap_fill_locked, vm_anon_copy, IsAllocated, Goto
  <2>2. CASE u = m
    BY <2>1, <2>2 DEF InUser, pmap_map, TypeOK
  <2>3. CASE u # m
    <3>1. slot[u] # f
      BY <2>1, FreshFrame
    <3> QED BY <2>1, <2>3, <3>1 DEF InUser, pmap_map, TypeOK
  <2> QED BY <2>2, <2>3
<1>4. CASE FaultMapCopy(m)
  <2>1. /\ UNCHANGED <<live, entry, slot, refcnt>> /\ pc[m] \in CopyPCs
        /\ \A n \in Maps : n # m => pte'[n] = pte[n] /\ pc'[n] = pc[n]
        /\ pte'[m].frame = slot[m]
    BY <1>4 DEF FaultMapCopy, pmap_map, memVars, TypeOK, Goto, CopyPCs
  <2> QED BY <2>1 DEF InUser, CopyIsOwn
<1> QED BY <1>1, <1>2, <1>3, <1>4

\* No step makes a page writable that another address space maps.
LEMMA NextIShare ==
  ASSUME Protects \subseteq {FALSE}
  PROVE  IShare /\ [Next]_vars => IShare'
<1> SUFFICES ASSUME IShare, [Next]_vars PROVE IShare'
  OBVIOUS
<1>1. IInv /\ IInv'
  BY NextIInv DEF IShare
<1>2. ASSUME NEW u \in Maps, Writable(u)' PROVE Kept(u) \/ Gained(u)
  <2>1. CASE Next
    <3>1. PICK m \in Maps :
            \/ \E cow, w \in BOOLEAN : vm_map(m, cow, w)
            \/ \E w \in Protects : vm_protect(m, w)
            \/ \E n \in Maps : vm_map_fork(m, n)
            \/ vm_unmap(m) \/ UnmapDrop(m) \/ sched_exit_self(m) \/ vm_map_destroy(m)
            \/ \E v \in Values : Store(m, v)
            \/ vm_handle_fault(m)
      BY <2>1 DEF Next
    <3>2. CASE vm_handle_fault(m)
      BY <1>1, <1>2, <3>2, WeakerSteps, DropSteps, FaultSteps DEF vm_handle_fault
    <3> QED BY <1>1, <1>2, <3>1, <3>2, WeakerSteps, DropSteps
  <2>2. CASE UNCHANGED vars
    BY <1>2, <2>2 DEF vars, memVars, Writable, Kept, InUser
  <2> QED BY <2>1, <2>2
<1>3. ASSUME NEW u \in Maps, Writable(u)' PROVE slot'[u] = pte'[u].frame /\ refcnt'[slot'[u]] = 1
  <2>1. CASE Kept(u)
    <3>1. slot[u] = pte[u].frame /\ refcnt[slot[u]] = 1
      BY <2>1 DEF Kept, Writable, IShare, WritableIsUnshared
    <3>2. slot[u] \in Frames /\ slot'[u] = slot[u] /\ refcnt'[slot[u]] <= 1
      BY <2>1, <3>1 DEF Kept, Writable, IShare, IInv, TypeOK
    <3>3. \A f \in Frames : Counted(f)'
      BY <1>1 DEF IInv, RefcountsAreExact, Counted, Slots, Copied, Objects, Amaps
    <3>4. ASSUME NEW f \in Frames, slot'[u] = f PROVE refcnt'[f] \in Nat /\ refcnt'[f] >= 1
      <4>1. Slots(f)' \in SUBSET Maps /\ Copied(f)' \in SUBSET Maps
            /\ Objects(f)' \in SUBSET Maps /\ Amaps(f)' \in SUBSET Maps /\ u \in Slots(f)'
        BY <3>4 DEF Slots, Copied, Objects, Amaps
      <4>2. /\ Cardinality(Slots(f)') \in Nat /\ Cardinality(Slots(f)') >= 1
            /\ Cardinality(Copied(f)') \in Nat /\ Cardinality(Objects(f)') \in Nat
            /\ Cardinality(Amaps(f)') \in Nat
        BY <4>1, CountTwo DEF Bit
      <4> QED BY <3>3, <4>2 DEF Counted
    <3> QED BY <2>1, <3>1, <3>2, <3>4 DEF Kept
  <2>2. CASE Gained(u)
    BY <2>2 DEF Gained
  <2> QED BY <1>2, <1>3, <2>1, <2>2
<1>4. WritableIsUnshared'
  BY <1>3 DEF WritableIsUnshared, Writable, InUser
<1> QED BY <1>1, <1>4 DEF IShare

\* Nothing is writable at first.
LEMMA InitIShare == Init => IShare
BY InitIInv DEF Init, IShare, WritableIsUnshared

\* Without mprotect(PROT_WRITE), a process can write to a page of a private
\* mapping only while nobody shares the page (vm_handle_fault, vm_map_fork).
THEOREM UnsharedWrites ==
  ASSUME Protects \subseteq {FALSE}
  PROVE  Spec => []WritableIsUnshared
<1>1. IShare => WritableIsUnshared
  BY DEF IShare
<1>2. IShare /\ [Next]_vars => IShare'
  BY NextIShare
<1> QED BY <1>1, <1>2, InitIShare, PTL DEF Spec
-----------------------------------------------------------------------------
(* The refinement of AddressSpace *)

\* What a process sees is the content of its page, whatever the page table.
LEMMA SeenIsBacking ==
  ASSUME IInv, NEW u \in Maps
  PROVE  /\ entry[u] = NULL => Seen(u) = ZERO
         /\ entry[u] # NULL => Seen(u) = content[Backing(u)] /\ Backing(u) \in Frames
BY DEF IInv, TypeOK, MappedIsBacking, Seen, Backing

\* What a process sees after a step.
LEMMA SeenIsBackingNext ==
  ASSUME IInv', NEW u \in Maps
  PROVE  /\ entry'[u] = NULL => Seen(u)' = ZERO
         /\ entry'[u] # NULL => Seen(u)' = content'[Backing(u)'] /\ Backing(u)' \in Frames
BY DEF IInv, TypeOK, MappedIsBacking, Seen, Backing, InUser

\* A page that somebody sees is referenced.
LEMMA BackingCounted ==
  ASSUME IInv, NEW u \in Maps, entry[u] # NULL
  PROVE  refcnt[Backing(u)] # 0
BY FreshFrame, SeenIsBacking DEF IInv, Backing

\* Nothing changes for address space u.
Calm(u) == /\ Seen(u)' = Seen(u) /\ Region(u)' = Region(u)
           /\ (live'[u] = "running") <=> (live[u] = "running")

\* It is so for an address space that keeps its entry, amap and page.
LEMMA CalmKept ==
  ASSUME IInv, IInv', NEW u \in Maps,
         entry'[u] = NULL <=> entry[u] = NULL,
         entry[u] # NULL => /\ entry'[u].object = entry[u].object
                            /\ entry'[u].is_cow = entry[u].is_cow
                            /\ content'[Backing(u)'] = content[Backing(u)]
  PROVE  Seen(u)' = Seen(u) /\ Region(u)' = Region(u)
BY SeenIsBacking, SeenIsBackingNext DEF Region

\* A step that no address space notices is a stutter of the abstract memory.
LEMMA CalmStutters ==
  ASSUME \A u \in Maps : Calm(u)
  PROVE  UNCHANGED Abstract!vars
<1>1. /\ [m \in Maps |-> live[m] = "running"]' = [m \in Maps |-> live[m] = "running"]
      /\ [m \in Maps |-> Region(m)]' = [m \in Maps |-> Region(m)]
      /\ [m \in Maps |-> Seen(m)]' = [m \in Maps |-> Seen(m)]
  BY DEF Calm
<1> QED BY <1>1 DEF Abstract!vars

\* A store is a write: the processes that see it are those that share the
\* memory.
LEMMA StoreWrites ==
  ASSUME IShare, IInv', NEW m \in Maps, NEW v \in Values, Store(m, v)
  PROVE  Abstract!Write(m, v)
<1> USE DEF IShare
<1> DEFINE b == Backing(m)
<1>1. /\ InUser(m) /\ pte[m] # NULL /\ pte[m].w /\ content' = [content EXCEPT ![pte[m].frame] = v]
      /\ UNCHANGED <<live, entry, slot, pte, refcnt, pc, old>>
  BY DEF Store
<1>2. entry[m] # NULL /\ pte[m].frame = b /\ b \in Frames
  BY <1>1, SeenIsBacking DEF IInv, MappedIsBacking
<1>3. content' = [content EXCEPT ![b] = v] /\ content \in [Frames -> Values]
  BY <1>1, <1>2 DEF IInv, TypeOK
<1>4. \A u \in Maps : Backing(u)' = Backing(u)
  BY <1>1 DEF Backing
<1>5. ASSUME NEW u \in Maps, entry[u] # NULL
      PROVE  Backing(u) = b <=> u = m \/ (Region(m) \in Frames /\ Region(u) = Region(m))
  <2>1. CASE entry[m].is_cow
    <3>1. slot[m] = b /\ refcnt[b] = 1
      BY <1>1, <1>2, <2>1 DEF WritableIsUnshared
    <3>2. Region(m) \notin Frames
      BY <1>2, <2>1, VmAssumption DEF Region
    <3>3. ASSUME u # m PROVE Backing(u) # b
      <4>1. Owns(m, b) \in Nat /\ Owns(m, b) >= 1
        BY <3>1 DEF Owns, Bit, Slots
      <4>2. Owns(u, b) \in Nat /\ 1 >= Owns(u, b) + Owns(m, b)
        BY <1>2, <3>1, <3>3, OwnsBound, CountedFrames DEF IInv
      <4>3. Owns(u, b) = 0
        BY <4>1, <4>2
      <4>4. Bit(u \in Slots(b)) = 0 /\ Bit(u \in Objects(b)) = 0
        BY <4>3 DEF Owns, Bit
      <4> HIDE DEF b
      <4> QED BY <1>5, <4>4 DEF Bit, Slots, Objects, Backing
    <3> QED BY <3>2, <3>3
  <2>2. CASE ~entry[m].is_cow
    <3>1. slot[m] = NULL /\ b = entry[m].object /\ Region(m) = b
      BY <1>2, <2>2 DEF IInv, Words, Backing, Region
    <3>2. slot[u] # b /\ (entry[u].object = b => ~entry[u].is_cow)
      BY <1>2, <1>5, <2>2, <3>1 DEF IInv, FrameKinds
    <3>3. ~entry[u].is_cow => slot[u] = NULL
      BY DEF IInv, Words
    <3>4. Region(u) = IF entry[u].is_cow THEN PRIVATE ELSE entry[u].object
      BY <1>5 DEF Region
    <3>5. Backing(u) = IF slot[u] # NULL THEN slot[u] ELSE entry[u].object
      BY DEF Backing
    <3>6. PRIVATE # b
      BY <1>2, VmAssumption
    <3> HIDE DEF b
    <3> QED BY <1>2, <3>1, <3>2, <3>3, <3>4, <3>5, <3>6
  <2> QED BY <2>1, <2>2
<1>6. Region(m) # NULL
  BY <1>2, VmAssumption DEF Region, IInv, TypeOK
<1> HIDE DEF b
<1>7. ASSUME NEW u \in Maps
      PROVE  /\ Region(u)' = Region(u)
             /\ Seen(u)' = IF u = m \/ (Region(m) \in Frames /\ Region(u) = Region(m))
                           THEN v ELSE Seen(u)
  <2>1. CASE entry[u] = NULL
    <3>1. Region(u) = NULL /\ Region(u)' = NULL /\ Seen(u) = ZERO /\ Seen(u)' = ZERO
      BY <1>1, <2>1 DEF Region, Seen
    <3> QED BY <1>2, <1>6, <2>1, <3>1
  <2>2. CASE entry[u] # NULL
    <3>1. Region(u)' = Region(u)
      BY <1>1 DEF Region
    <3>2. Seen(u) = content[Backing(u)] /\ Backing(u) \in Frames
      BY <2>2, SeenIsBacking
    <3>3. Seen(u)' = content'[Backing(u)]
      BY <1>1, <1>4, <2>2, SeenIsBackingNext
    <3>4. Seen(u)' = IF Backing(u) = b THEN v ELSE Seen(u)
      BY <1>3, <3>2, <3>3
    <3> QED BY <1>5, <2>2, <3>1, <3>4
  <2> QED BY <2>1, <2>2
<1>8. /\ [x \in Maps |-> Seen(x)]' =
           [n \in Maps |-> IF n = m \/ ([x \in Maps |-> Region(x)][m] \in Frames /\
                                [x \in Maps |-> Region(x)][n] = [x \in Maps |-> Region(x)][m])
                           THEN v ELSE [x \in Maps |-> Seen(x)][n]]
      /\ [x \in Maps |-> Region(x)]' = [x \in Maps |-> Region(x)]
      /\ [x \in Maps |-> live[x] = "running"]' = [x \in Maps |-> live[x] = "running"]
  BY <1>1, <1>7
<1>9. [x \in Maps |-> live[x] = "running"][m] /\ [x \in Maps |-> Region(x)][m] # NULL
  BY <1>1, <1>6 DEF InUser
<1> QED BY <1>1, <1>8, <1>9 DEF Abstract!Write

\* No page that backs a mapping is free.
PagesReferenced == \A u \in Maps : entry[u] # NULL => refcnt[Backing(u)] # 0

\* Every page that backs a mapping is referenced.
LEMMA Referenced == IInv => PagesReferenced
BY BackingCounted DEF PagesReferenced

\* The same after a step.
LEMMA ReferencedNext == IInv' => PagesReferenced'
BY Referenced, PTL

\* Page table changes are invisible.
LEMMA QuietStutters ==
  ASSUME IInv, IInv', NEW m \in Maps, NEW wr \in BOOLEAN,
         \/ vm_unmap(m) \/ kmutex_release(m) \/ \E w \in Protects : vm_protect(m, w)
         \/ FaultShared(m, wr) \/ FaultMap(m, wr) \/ FaultBackingRead(m) \/ FaultMapCopy(m)
  PROVE  UNCHANGED Abstract!vars
<1>1. live' = live /\ slot' = slot /\ content' = content
  BY DEF vm_unmap, kmutex_release, vm_protect, FaultShared, FaultMap, FaultBackingRead,
         FaultMapCopy, memVars
<1>2. \A u \in Maps : /\ entry'[u] = NULL <=> entry[u] = NULL
                      /\ entry[u] # NULL => /\ entry'[u].object = entry[u].object
                                            /\ entry'[u].is_cow = entry[u].is_cow
  <2>1. CASE \E w \in Protects : vm_protect(m, w)
    <3>1. PICK w \in Protects : vm_protect(m, w)
      BY <2>1
    <3>2. /\ entry[m] \in [object : Frames, is_cow : BOOLEAN, prot : BOOLEAN, max : BOOLEAN]
          /\ entry' = [entry EXCEPT ![m] = [entry[m] EXCEPT !.prot = w]] /\ w \in BOOLEAN
      BY <3>1, VmAssumption DEF vm_protect, IInv, TypeOK
    <3>3. /\ [entry[m] EXCEPT !.prot = w] \in
               [object : Frames, is_cow : BOOLEAN, prot : BOOLEAN, max : BOOLEAN]
          /\ [entry[m] EXCEPT !.prot = w].object = entry[m].object
          /\ [entry[m] EXCEPT !.prot = w].is_cow = entry[m].is_cow
      BY <3>2
    <3>4. [entry[m] EXCEPT !.prot = w] # NULL /\ entry[m] # NULL
      BY <3>2, <3>3, VmAssumption
    <3> QED BY <3>2, <3>3, <3>4 DEF IInv, TypeOK
  <2>2. CASE ~\E w \in Protects : vm_protect(m, w)
    BY <2>2 DEF vm_unmap, kmutex_release, FaultShared, FaultMap, FaultBackingRead, FaultMapCopy
  <2> QED BY <2>1, <2>2
<1>3. \A u \in Maps : entry[u] # NULL => Backing(u)' = Backing(u)
  BY <1>1, <1>2 DEF Backing
<1>4. \A u \in Maps : Calm(u)
  BY <1>1, <1>2, <1>3, CalmKept DEF Calm
<1> QED BY <1>4, CalmStutters

\* A new anon takes over the content of the page it replaces.
LEMMA CopyStutters ==
  ASSUME IInv, IInv', NEW m \in Maps,
         vm_amap_fill_locked(m) \/ vm_anon_copy(m) \/ vm_anon_deref(m)
  PROVE  UNCHANGED Abstract!vars
<1>1. live' = live /\ entry' = entry
  BY DEF vm_amap_fill_locked, vm_anon_copy, vm_anon_deref
<1>2. ASSUME NEW u \in Maps, entry[u] # NULL PROVE content'[Backing(u)'] = content[Backing(u)]
  <2>1. CASE vm_anon_deref(m)
    <3>1. slot' = slot /\ content' = [f \in Frames |-> IF refcnt'[f] = 0 THEN ZERO ELSE content[f]]
      BY <2>1 DEF vm_anon_deref, SetRefcnt
    <3>2. Backing(u)' = Backing(u) /\ Backing(u) \in Frames
      BY <1>1, <1>2, <3>1, SeenIsBacking DEF Backing
    <3>3. refcnt'[Backing(u)] # 0
      BY <1>1, <1>2, <3>2, ReferencedNext DEF PagesReferenced
    <3> QED BY <3>1, <3>2, <3>3
  <2>2. CASE vm_amap_fill_locked(m) \/ vm_anon_copy(m)
    <3>1. PICK f \in Frames :
            /\ refcnt[f] = 0 /\ content' = [content EXCEPT ![f] = content[Backing(m)]]
            /\ slot' = [slot EXCEPT ![m] = f]
      BY <2>2 DEF vm_amap_fill_locked, vm_anon_copy, vm_amap_lookup, IsAllocated, Backing
    <3>2. slot'[m] = f /\ \A n \in Maps : n # m => slot'[n] = slot[n]
      BY <3>1 DEF IInv, TypeOK
    <3>3. Backing(u)' = IF u = m THEN f ELSE Backing(u)
      BY <1>1, <3>2, VmAssumption DEF Backing
    <3>4. Backing(u) \in Frames /\ Backing(u) # f
      BY <1>2, <3>1, SeenIsBacking, BackingCounted
    <3>5. content'[Backing(u)'] = IF u = m THEN content[Backing(m)] ELSE content[Backing(u)]
      BY <3>1, <3>3, <3>4 DEF IInv, TypeOK
    <3> QED BY <3>5
  <2> QED BY <2>1, <2>2
<1>3. \A u \in Maps : Calm(u)
  BY <1>1, <1>2, CalmKept DEF Calm
<1> QED BY <1>3, CalmStutters

\* mmap makes fresh memory that is nobody else's.
LEMMA MapMaps ==
  ASSUME IInv, IInv', NEW m \in Maps, NEW cow \in BOOLEAN, NEW w \in BOOLEAN, vm_map(m, cow, w)
  PROVE  \E r \in Frames \cup {PRIVATE} : Abstract!Map(m, r)
<1>1. PICK f \in Frames :
        /\ refcnt[f] = 0
        /\ entry' = [entry EXCEPT ![m] = [object |-> f, is_cow |-> cow, prot |-> w, max |-> w]]
        /\ content' = [content EXCEPT ![f] = ZERO]
  BY DEF vm_map, IsAllocated
<1>2. /\ InUser(m) /\ entry[m] = NULL /\ UNCHANGED <<live, slot, pte, pc>>
      /\ slot[m] = NULL /\ live[m] = "running"
  BY DEF vm_map, IInv, Words, InUser
<1>3. /\ [object |-> f, is_cow |-> cow, prot |-> w, max |-> w] \in
           [object : Frames, is_cow : BOOLEAN, prot : BOOLEAN, max : BOOLEAN]
      /\ [object |-> f, is_cow |-> cow, prot |-> w, max |-> w] # NULL
  BY VmAssumption
<1>4. /\ entry'[m] # NULL /\ entry'[m].object = f /\ entry'[m].is_cow = cow
      /\ \A u \in Maps : u # m => entry'[u] = entry[u]
  BY <1>1, <1>3 DEF IInv, TypeOK
<1> DEFINE r == IF cow THEN PRIVATE ELSE f
<1>5. Region(m) = NULL /\ Region(m)' = r /\ Seen(m)' = ZERO
  <2>1. Backing(m)' = f
    BY <1>2, <1>4 DEF Backing
  <2>2. content'[f] = ZERO
    BY <1>1 DEF IInv, TypeOK
  <2>3. Seen(m)' = content'[Backing(m)']
    BY <1>4, SeenIsBackingNext
  <2> QED BY <1>2, <1>4, <2>1, <2>2, <2>3 DEF Region
<1>6. ASSUME NEW u \in Maps, u # m
      PROVE  Seen(u)' = Seen(u) /\ Region(u)' = Region(u) /\ Region(u) # f
  <2>1. Backing(u)' = Backing(u)
    BY <1>2, <1>4, <1>6 DEF Backing
  <2>2. entry[u] # NULL => content'[Backing(u)] = content[Backing(u)]
    BY <1>1, SeenIsBacking, BackingCounted DEF IInv, TypeOK
  <2>3. Seen(u)' = Seen(u) /\ Region(u)' = Region(u)
    BY <1>4, <1>6, <2>1, <2>2, CalmKept
  <2>4. Region(u) # f
    BY <1>1, FreshFrame, VmAssumption DEF Region
  <2> QED BY <2>3, <2>4
<1>7. r \in Frames \cup {PRIVATE} /\ (r \in Frames => r = f)
  BY VmAssumption
<1> HIDE DEF r
<1>8. /\ [x \in Maps |-> Region(x)]' = [[x \in Maps |-> Region(x)] EXCEPT ![m] = r]
      /\ [x \in Maps |-> Seen(x)]' = [[x \in Maps |-> Seen(x)] EXCEPT ![m] = ZERO]
      /\ [x \in Maps |-> live[x] = "running"]' = [x \in Maps |-> live[x] = "running"]
  BY <1>2, <1>5, <1>6
<1>9. /\ [x \in Maps |-> live[x] = "running"][m] /\ [x \in Maps |-> Region(x)][m] = NULL
      /\ r \in Frames => \A n \in Maps : [x \in Maps |-> Region(x)][n] # r
  BY <1>2, <1>5, <1>6, <1>7, VmAssumption
<1>10. Abstract!Map(m, r)
  BY <1>8, <1>9 DEF Abstract!Map
<1> QED BY <1>7, <1>10

\* munmap, and the destruction of an address space, unmap.
LEMMA DropUnmaps ==
  ASSUME IInv, IInv', NEW m \in Maps, UnmapDrop(m) \/ vm_map_destroy(m)
  PROVE  Abstract!Unmap(m) \/ UNCHANGED Abstract!vars
<1>1. /\ entry'[m] = NULL
      /\ \A u \in Maps : u # m => entry'[u] = entry[u] /\ slot'[u] = slot[u]
      /\ \A u \in Maps : (live'[u] = "running") <=> (live[u] = "running")
  BY DEF UnmapDrop, vm_map_destroy, IInv, TypeOK
<1>2. \/ content' = content
      \/ content' = [f \in Frames |-> IF refcnt'[f] = 0 THEN ZERO ELSE content[f]]
  BY DEF UnmapDrop, vm_map_destroy, DropEntry, SetRefcnt, memVars
<1>3. ASSUME NEW u \in Maps, u # m PROVE Seen(u)' = Seen(u) /\ Region(u)' = Region(u)
  <2>1. entry'[u] = entry[u] /\ Backing(u)' = Backing(u)
    BY <1>1, <1>3 DEF Backing
  <2>2. ASSUME entry[u] # NULL PROVE content'[Backing(u)] = content[Backing(u)]
    <3>1. Backing(u) \in Frames
      BY <2>2, SeenIsBacking
    <3>2. refcnt'[Backing(u)] # 0
      BY <2>1, <2>2, ReferencedNext DEF PagesReferenced
    <3> QED BY <1>2, <3>1, <3>2
  <2> QED BY <2>1, <2>2, CalmKept
<1>4. Region(m)' = NULL /\ Seen(m)' = ZERO
  BY <1>1 DEF Region, Seen
<1>5. CASE entry[m] = NULL
  <2>1. Region(m) = NULL /\ Seen(m) = ZERO
    BY <1>5 DEF Region, Seen
  <2>2. \A u \in Maps : Calm(u)
    BY <1>1, <1>3, <1>4, <2>1 DEF Calm
  <2> QED BY <2>2, CalmStutters
<1>6. CASE entry[m] # NULL
  <2>1. Region(m) # NULL
    BY <1>6, VmAssumption DEF Region, IInv, TypeOK
  <2>2. /\ [x \in Maps |-> Region(x)]' = [[x \in Maps |-> Region(x)] EXCEPT ![m] = NULL]
        /\ [x \in Maps |-> Seen(x)]' = [[x \in Maps |-> Seen(x)] EXCEPT ![m] = ZERO]
        /\ [x \in Maps |-> live[x] = "running"]' = [x \in Maps |-> live[x] = "running"]
        /\ [x \in Maps |-> Region(x)][m] # NULL
    BY <1>1, <1>3, <1>4, <2>1
  <2> QED BY <2>2 DEF Abstract!Unmap
<1> QED BY <1>5, <1>6

\* An exit is an exit.
LEMMA ExitExits ==
  ASSUME IInv, IInv', NEW m \in Maps, sched_exit_self(m) \/ FaultDenied(m)
  PROVE  Abstract!Exit(m)
<1>1. /\ live[m] = "running" /\ live' = [live EXCEPT ![m] = "zombie"]
      /\ UNCHANGED <<entry, slot, pte, content>>
  BY DEF sched_exit_self, FaultDenied, Faults, InUser, memVars
<1>2. \A u \in Maps : Seen(u)' = Seen(u) /\ Region(u)' = Region(u)
  BY <1>1, CalmKept DEF Backing
<1>3. /\ [x \in Maps |-> live[x] = "running"]' =
           [[x \in Maps |-> live[x] = "running"] EXCEPT ![m] = FALSE]
      /\ [x \in Maps |-> live[x] = "running"][m]
      /\ [x \in Maps |-> Region(x)]' = [x \in Maps |-> Region(x)]
      /\ [x \in Maps |-> Seen(x)]' = [x \in Maps |-> Seen(x)]
  BY <1>1, <1>2 DEF IInv, TypeOK
<1> QED BY <1>3 DEF Abstract!Exit

\* A fork gives the child what the parent sees.
LEMMA ForkForks ==
  ASSUME IInv, IInv', NEW m \in Maps, NEW n \in Maps, vm_map_fork(m, n)
  PROVE  Abstract!Fork(m, n)
<1>1. /\ live[m] = "running" /\ live[n] = "none" /\ entry[n] = NULL
      /\ live' = [live EXCEPT ![n] = "running"] /\ content' = content
      /\ entry' = [entry EXCEPT ![n] = entry[m]] /\ slot' = [slot EXCEPT ![n] = slot[m]]
  BY DEF vm_map_fork, InUser, IInv, Words
<1>2. /\ entry'[n] = entry[m] /\ slot'[n] = slot[m]
      /\ \A u \in Maps : u # n => entry'[u] = entry[u] /\ slot'[u] = slot[u]
  BY <1>1 DEF IInv, TypeOK
<1>3. \A u \in Maps : u # n => Seen(u)' = Seen(u) /\ Region(u)' = Region(u)
  BY <1>1, <1>2, CalmKept DEF Backing
<1>4. Region(n) = NULL /\ Region(n)' = Region(m)
  BY <1>1, <1>2 DEF Region
<1>5. Seen(n)' = Seen(m)
  <2>1. Backing(n)' = Backing(m)
    BY <1>2 DEF Backing
  <2> QED BY <1>1, <1>2, <2>1, SeenIsBacking, SeenIsBackingNext
<1>6. /\ [x \in Maps |-> live[x] = "running"]' =
           [[x \in Maps |-> live[x] = "running"] EXCEPT ![n] = TRUE]
      /\ [x \in Maps |-> live[x] = "running"][m] /\ ~[x \in Maps |-> live[x] = "running"][n]
  BY <1>1 DEF IInv, TypeOK
<1>7. /\ [x \in Maps |-> Region(x)]' =
           [[x \in Maps |-> Region(x)] EXCEPT ![n] = [x \in Maps |-> Region(x)][m]]
      /\ [x \in Maps |-> Region(x)][n] = NULL
  BY <1>3, <1>4
<1>8. [x \in Maps |-> Seen(x)]' =
        [[x \in Maps |-> Seen(x)] EXCEPT ![n] = [x \in Maps |-> Seen(x)][m]]
  BY <1>3, <1>5
<1> QED BY <1>6, <1>7, <1>8 DEF Abstract!Fork

\* Every step is one of the abstract memory, or invisible.
LEMMA NextAbstract ==
  ASSUME IShare, IInv', [Next]_vars
  PROVE  [Abstract!Next]_(Abstract!vars)
<1> USE DEF IShare
<1>1. CASE Next
  <2>1. PICK m \in Maps :
          \/ \E cow, w \in BOOLEAN : vm_map(m, cow, w)
          \/ \E w \in Protects : vm_protect(m, w)
          \/ \E n \in Maps : vm_map_fork(m, n)
          \/ vm_unmap(m) \/ UnmapDrop(m) \/ sched_exit_self(m) \/ vm_map_destroy(m)
          \/ \E v \in Values : Store(m, v)
          \/ vm_handle_fault(m)
    BY <1>1 DEF Next
  <2>2. CASE \E cow, w \in BOOLEAN : vm_map(m, cow, w)
    BY <2>2, MapMaps DEF Abstract!Next
  <2>3. CASE \E v \in Values : Store(m, v)
    BY <2>3, StoreWrites DEF Abstract!Next
  <2>4. CASE \E n \in Maps : vm_map_fork(m, n)
    BY <2>4, ForkForks DEF Abstract!Next
  <2>5. CASE UnmapDrop(m) \/ vm_map_destroy(m)
    BY <2>5, DropUnmaps DEF Abstract!Next
  <2>6. CASE sched_exit_self(m) \/ FaultDenied(m)
    BY <2>6, ExitExits DEF Abstract!Next
  <2>7. CASE vm_unmap(m) \/ \E w \in Protects : vm_protect(m, w)
    BY <2>7, QuietStutters
  <2>8. CASE vm_handle_fault(m)
    BY <2>6, <2>8, QuietStutters, CopyStutters DEF vm_handle_fault
  <2> QED BY <2>1, <2>2, <2>3, <2>4, <2>5, <2>6, <2>7, <2>8
<1>2. CASE UNCHANGED vars
  <2>1. UNCHANGED <<live, entry, slot, pte, content, pc>>
    BY <1>2 DEF vars, memVars
  <2>2. \A u \in Maps : Calm(u)
    BY <2>1 DEF Calm, Seen, Region, Backing, InUser
  <2> QED BY <2>2, CalmStutters
<1> QED BY <1>1, <1>2

\* The initial memory is one of the abstract initial states.
LEMMA InitAbstract == Init => Abstract!Init
BY VmAssumption DEF Init, Abstract!Init, Region, Seen

\* Frames, anons, reference counts and page tables together behave as private
\* and shared memory: nobody but the process sees a write to private memory, and
\* no fault, fork or unmapping loses or changes what a process sees (fault.c,
\* amap.c, anon.c, map.c); without mprotect(PROT_WRITE), as in UnsharedWrites.
THEOREM CopyOnWrite ==
  ASSUME Protects \subseteq {FALSE}
  PROVE  Spec => ImplementsAddressSpace
<1>1. IShare /\ [Next]_vars => IShare'
  BY NextIShare
<1>2. IShare /\ IShare' /\ [Next]_vars => [Abstract!Next]_(Abstract!vars)
  BY NextAbstract DEF IShare
<1> QED BY <1>1, <1>2, InitIShare, InitAbstract, PTL DEF Spec, ImplementsAddressSpace, Abstract!Spec
=============================================================================
