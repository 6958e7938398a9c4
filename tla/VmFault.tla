------------------------------- MODULE VmFault ------------------------------
(***************************************************************************)
(* Copy on write: the page fault handler (kernel/vm/fault.c), the          *)
(* anonymous pages it manages (amap.c, anon.c, object.c, aobj.c), and what *)
(* mmap, munmap, mprotect, fork and the destruction of an address space    *)
(* (map.c) do to them and to the page tables (generic_pmap.c).             *)
(*                                                                         *)
(* Each address space has one page of user memory, so at most one entry,   *)
(* and the amap of a private entry has one slot.  A process has one        *)
(* thread, hence nobody contends for map_lock and for the amap's lock; the *)
(* processes meet at the anons they share: anon_lock and the reference     *)
(* counts, which are changed without it.  A fault that copies an anon      *)
(* takes several steps; one that only maps a page acquires and releases    *)
(* anon_lock within a step.  An anon, or an object with its page, is named *)
(* by its frame, and is allocated while its count is not 0.  What is left  *)
(* in a free frame does not matter, since an allocation overwrites it: it  *)
(* is ZERO.  Page table and TLB are one: pmap_map and its relatives return *)
(* after the shootdown.                                                    *)
(***************************************************************************)
EXTENDS Integers, FiniteSets

CONSTANTS Maps,       \* address spaces
          Root,       \* the one that exists at first
          Values,     \* contents of a page
          ZERO,       \* a page cleared by page_zero
          Frames,     \* bound: frames of memory
          Protects,   \* the "writable" arguments of mprotect
          PRIVATE,    \* an address space's region is private
          NULL

ASSUME VmAssumption ==
  /\ IsFiniteSet(Maps) /\ Root \in Maps /\ ZERO \in Values
  /\ Protects \subseteq BOOLEAN
  /\ NULL \notin Frames /\ PRIVATE \notin Frames \cup {NULL}
  /\ NULL \notin [object : Frames, is_cow : BOOLEAN, prot : BOOLEAN, max : BOOLEAN]
  /\ NULL \notin [frame : Frames, w : BOOLEAN]

VARIABLES
  live,     \* "none", "running", "zombie"
  entry,    \* the map entry: [object, is_cow, prot, max] or NULL
  slot,     \* the anon in the entry's amap, or NULL
  pte,      \* the page table entry: [frame, w] or NULL
  refcnt,   \* reference count of the anon or object in a frame
  content,  \* content of the frame
  pc,       \* what the thread does
  old,      \* the anon that it copied, whose anon_lock it holds, or NULL
  leaked    \* map_lock was left behind in shared mode

memVars   == <<refcnt, content>>
vars == <<live, entry, slot, pte, memVars, pc, old, leaked>>

PCs == {"user",    \* in user mode
        "deref",   \* copied a shared anon: vm_anon_deref of it is next
        "relock",  \* ... done, release its lock and map the copy
        "freed",   \* the same, but the deref freed the anon and its lock
        "panic",   \* kmutex_release found that it does not own the lock
        "unmap"}   \* vm_unmap: page table cleared, references to drop

Init ==
  /\ live = [m \in Maps |-> IF m = Root THEN "running" ELSE "none"]
  /\ entry = [m \in Maps |-> NULL]
  /\ slot = [m \in Maps |-> NULL]
  /\ pte = [m \in Maps |-> NULL]
  /\ refcnt = [f \in Frames |-> 0]
  /\ content = [f \in Frames |-> ZERO]
  /\ pc = [m \in Maps |-> "user"]
  /\ old = [m \in Maps |-> NULL]
  /\ leaked = [m \in Maps |-> FALSE]

\* vm_pagealloc: any free frame.
IsAllocated(f) == refcnt[f] = 0

InUser(m) == live[m] = "running" /\ pc[m] = "user"
Goto(m, label) == pc' = [pc EXCEPT ![m] = label]

\* What the page of the address space is, page tables aside.
Backing(m) == IF slot[m] # NULL THEN slot[m] ELSE entry[m].object

\* References that the entry of m holds to a frame: the amap's slot to an
\* anon, the entry and, if it has one, the amap to the object.
Holds(m, f) ==
  (IF f = slot[m] THEN 1 ELSE 0) +
  (IF f # entry[m].object THEN 0 ELSE IF entry[m].is_cow THEN 2 ELSE 1)

\* Set all reference counts; frames without references are free.
SetRefcnt(new) ==
  /\ refcnt' = new
  /\ content' = [f \in Frames |-> IF new[f] = 0 THEN ZERO ELSE content[f]]

\* The entry of m drops its references (vm_amap_deref, amap_cleanup,
\* vm_object_deref).
DropEntry(m) == SetRefcnt([f \in Frames |-> refcnt[f] - Holds(m, f)])
-----------------------------------------------------------------------------
(* System calls *)

\* vm_map of anonymous memory: a new object, and an amap if it is private.
vm_map(m, cow, w) ==
  /\ InUser(m)
  /\ entry[m] = NULL
  /\ \E f \in Frames :
       /\ IsAllocated(f)
       /\ entry' = [entry EXCEPT ![m] = [object |-> f, is_cow |-> cow,
                                         prot |-> w, max |-> w]]
       /\ refcnt' = [refcnt EXCEPT ![f] = IF cow THEN 2 ELSE 1]
       /\ content' = [content EXCEPT ![f] = ZERO]
  /\ UNCHANGED <<live, slot, pte, pc, old, leaked>>

\* vm_unmap: first the page table, ...
vm_unmap(m) ==
  /\ InUser(m)
  /\ entry[m] # NULL
  /\ pte' = [pte EXCEPT ![m] = NULL]
  /\ Goto(m, "unmap")
  /\ UNCHANGED <<live, entry, slot, memVars, old, leaked>>

\* ... then the references of the amap (amap_cleanup) and of the entry.
UnmapDrop(m) ==
  /\ pc[m] = "unmap"
  /\ DropEntry(m)
  /\ entry' = [entry EXCEPT ![m] = NULL]
  /\ slot' = [slot EXCEPT ![m] = NULL]
  /\ Goto(m, "user")
  /\ UNCHANGED <<live, pte, old, leaked>>

\* vm_protect with a protection that vm_check_prot allows: the entry and the
\* page table entry get the new protection.
vm_protect(m, w) ==
  /\ InUser(m)
  /\ entry[m] # NULL
  /\ w => entry[m].max
  /\ entry' = [entry EXCEPT ![m].prot = w]
  /\ pte' = [pte EXCEPT ![m] = IF @ = NULL THEN NULL ELSE [@ EXCEPT !.w = w]]
  /\ UNCHANGED <<live, slot, memVars, pc, old, leaked>>

\* vm_map_fork: the child gets the entry and, if it is private, a copy of the
\* amap that shares the anon; the parent's page becomes read-only.
vm_map_fork(m, n) ==
  /\ InUser(m)
  /\ live[n] = "none"
  /\ live' = [live EXCEPT ![n] = "running"]
  /\ entry' = [entry EXCEPT ![n] = entry[m]]
  /\ slot' = [slot EXCEPT ![n] = slot[m]]
  /\ IF entry[m] = NULL THEN UNCHANGED <<refcnt, pte>>
     ELSE /\ refcnt' = [f \in Frames |-> refcnt[f] + Holds(m, f)]
          /\ pte' = [pte EXCEPT ![m] =
               IF @ # NULL /\ entry[m].is_cow THEN [@ EXCEPT !.w = FALSE] ELSE @]
  /\ UNCHANGED <<content, pc, old, leaked>>

\* The process exits, on its own or because a fault found no entry.
sched_exit_self(m) ==
  /\ InUser(m)
  /\ live' = [live EXCEPT ![m] = "zombie"]
  /\ UNCHANGED <<entry, slot, pte, memVars, pc, old, leaked>>

\* vm_map_destroy, called when the zombie is reaped; it waits for map_lock.
vm_map_destroy(m) ==
  /\ live[m] = "zombie"
  /\ ~leaked[m]
  /\ live' = [live EXCEPT ![m] = "none"]
  /\ IF entry[m] = NULL THEN UNCHANGED memVars ELSE DropEntry(m)
  /\ entry' = [entry EXCEPT ![m] = NULL]
  /\ slot' = [slot EXCEPT ![m] = NULL]
  /\ pte' = [pte EXCEPT ![m] = NULL]
  /\ UNCHANGED <<pc, old, leaked>>
-----------------------------------------------------------------------------
(* Memory accesses and page faults *)

\* A store that the page table allows.
Store(m, v) ==
  /\ InUser(m)
  /\ pte[m] # NULL
  /\ pte[m].w
  /\ content' = [content EXCEPT ![pte[m].frame] = v]
  /\ UNCHANGED <<live, entry, slot, pte, refcnt, pc, old, leaked>>

\* An access, to an entry, that the page table does not allow.
Faults(m, wr) ==
  /\ InUser(m)
  /\ entry[m] # NULL
  /\ IF pte[m] = NULL THEN TRUE ELSE wr /\ ~pte[m].w

\* vm_handle_fault refuses a write to a read-only entry: it returns with
\* map_lock held, and the thread exits.
FaultDenied(m) ==
  /\ Faults(m, TRUE)
  /\ ~entry[m].prot
  /\ leaked' = [leaked EXCEPT ![m] = TRUE]
  /\ live' = [live EXCEPT ![m] = "zombie"]
  /\ UNCHANGED <<entry, slot, pte, memVars, pc, old>>

Allowed(m, wr) == wr => entry[m].prot

\* pmap_map(map, address, f, prot)
pmap_map(m, f, w) == pte' = [pte EXCEPT ![m] = [frame |-> f, w |-> w]]

\* A shared entry: the page of the object, with the entry's protection.
FaultShared(m, wr) ==
  /\ Faults(m, wr) /\ Allowed(m, wr)
  /\ ~entry[m].is_cow
  /\ pmap_map(m, entry[m].object, entry[m].prot)
  /\ UNCHANGED <<live, entry, slot, memVars, pc, old, leaked>>

\* A private entry without an anon, read: the object's page, read-only.
FaultBackingRead(m) ==
  /\ Faults(m, FALSE)
  /\ entry[m].is_cow
  /\ slot[m] = NULL
  /\ pmap_map(m, entry[m].object, FALSE)
  /\ UNCHANGED <<live, entry, slot, memVars, pc, old, leaked>>

\* A private entry without an anon, written: vm_amap_fill_locked makes an anon
\* with a copy of the object's page, which the handler maps.
vm_amap_fill_locked(m) ==
  /\ Faults(m, TRUE) /\ Allowed(m, TRUE)
  /\ entry[m].is_cow
  /\ slot[m] = NULL
  /\ \E f \in Frames :
       /\ IsAllocated(f)
       /\ refcnt' = [refcnt EXCEPT ![f] = 1]
       /\ content' = [content EXCEPT ![f] = content[entry[m].object]]
       /\ slot' = [slot EXCEPT ![m] = f]
       /\ pmap_map(m, f, entry[m].prot)
  /\ UNCHANGED <<live, entry, pc, old, leaked>>

\* vm_amap_lookup of a private entry with an anon: it waits for anon_lock.
vm_amap_lookup(m, wr) ==
  /\ Faults(m, wr) /\ Allowed(m, wr)
  /\ slot[m] # NULL
  /\ \A n \in Maps : old[n] # slot[m]

\* The anon's page with the entry's protection, shared or not.
FaultMap_Writable(m, wr) ==
  /\ vm_amap_lookup(m, wr)
  /\ refcnt[slot[m]] > 1 => ~wr
  /\ pmap_map(m, slot[m], entry[m].prot)
  /\ UNCHANGED <<live, entry, slot, memVars, pc, old, leaked>>

\* The anon is ours alone, or is only read: map its page, read-only if it is
\* shared.
FaultMap(m, wr) ==
  /\ vm_amap_lookup(m, wr)
  /\ refcnt[slot[m]] > 1 => ~wr
  /\ pmap_map(m, slot[m], entry[m].prot /\ refcnt[slot[m]] = 1)
  /\ UNCHANGED <<live, entry, slot, memVars, pc, old, leaked>>

\* A copy without the content of the old page.
vm_anon_copy_Empty(m) ==
  /\ vm_amap_lookup(m, TRUE)
  /\ refcnt[slot[m]] > 1
  /\ \E f \in Frames :
       /\ IsAllocated(f)
       /\ refcnt' = [refcnt EXCEPT ![f] = 1]
       /\ content' = [content EXCEPT ![f] = ZERO]
       /\ slot' = [slot EXCEPT ![m] = f]
  /\ old' = [old EXCEPT ![m] = slot[m]]
  /\ Goto(m, "deref")
  /\ UNCHANGED <<live, entry, pte, leaked>>

\* The anon is shared and is written: a new anon with a copy of the page
\* (vm_anon_copy) takes the slot.
vm_anon_copy(m) ==
  /\ vm_amap_lookup(m, TRUE)
  /\ refcnt[slot[m]] > 1
  /\ \E f \in Frames :
       /\ IsAllocated(f)
       /\ refcnt' = [refcnt EXCEPT ![f] = 1]
       /\ content' = [content EXCEPT ![f] = content[slot[m]]]
       /\ slot' = [slot EXCEPT ![m] = f]
  /\ old' = [old EXCEPT ![m] = slot[m]]
  /\ Goto(m, "deref")
  /\ UNCHANGED <<live, entry, pte, leaked>>

\* The reference to the old anon is kept.
vm_anon_deref_Skip(m) ==
  /\ pc[m] = "deref"
  /\ Goto(m, "relock")
  /\ UNCHANGED <<live, entry, slot, pte, memVars, old, leaked>>

\* vm_anon_deref of the old anon.  It may drop the last reference, since the
\* other sharers drop theirs without anon_lock: then the anon is freed.
vm_anon_deref(m) ==
  /\ pc[m] = "deref"
  /\ SetRefcnt([refcnt EXCEPT ![old[m]] = @ - 1])
  /\ IF refcnt[old[m]] = 1
     THEN Goto(m, "freed") /\ old' = [old EXCEPT ![m] = NULL]
     ELSE Goto(m, "relock") /\ UNCHANGED old
  /\ UNCHANGED <<live, entry, slot, pte, leaked>>

\* Release the old anon's lock, and map the copy under its own lock.
FaultMapCopy(m) ==
  /\ pc[m] \in {"relock", "freed"}
  /\ pmap_map(m, slot[m], entry[m].prot)
  /\ old' = [old EXCEPT ![m] = NULL]
  /\ Goto(m, "user")
  /\ UNCHANGED <<live, entry, slot, memVars, leaked>>

\* The freed anon's memory was given to somebody else in the meantime:
\* kmutex_release panics.
kmutex_release(m) ==
  /\ pc[m] = "freed"
  /\ Goto(m, "panic")
  /\ UNCHANGED <<live, entry, slot, pte, memVars, old, leaked>>
-----------------------------------------------------------------------------
\* A page fault.
vm_handle_fault(m) ==
  \/ FaultDenied(m)
  \/ \E wr \in BOOLEAN : FaultShared(m, wr) \/ FaultMap(m, wr)
  \/ FaultBackingRead(m) \/ vm_amap_fill_locked(m)
  \/ vm_anon_copy(m) \/ vm_anon_deref(m) \/ FaultMapCopy(m) \/ kmutex_release(m)

Next ==
  \E m \in Maps :
    \/ \E cow, w \in BOOLEAN : vm_map(m, cow, w)
    \/ \E w \in Protects : vm_protect(m, w)
    \/ \E n \in Maps : vm_map_fork(m, n)
    \/ vm_unmap(m) \/ UnmapDrop(m) \/ sched_exit_self(m) \/ vm_map_destroy(m)
    \/ \E v \in Values : Store(m, v)
    \/ vm_handle_fault(m)

Spec == Init /\ [][Next]_vars

-----------------------------------------------------------------------------
(* Properties *)

\* Types of all variables.
TypeOK ==
  /\ live \in [Maps -> {"none", "running", "zombie"}]
  /\ entry \in [Maps -> [object : Frames, is_cow : BOOLEAN, prot : BOOLEAN,
                         max : BOOLEAN] \cup {NULL}]
  /\ slot \in [Maps -> Frames \cup {NULL}]
  /\ pte \in [Maps -> [frame : Frames, w : BOOLEAN] \cup {NULL}]
  /\ refcnt \in [Frames -> Nat]
  /\ content \in [Frames -> Values]
  /\ pc \in [Maps -> PCs]
  /\ old \in [Maps -> Frames \cup {NULL}]
  /\ leaked \in [Maps -> BOOLEAN]

\* Every reference count is the number of references there are: one per amap
\* slot, one per handler between copy and deref, two per private and one per
\* shared entry of an object.  No count reaches 0 while one of these is left,
\* and none stays above it.  That an anon is not freed while its lock is held
\* does not follow: see DerefIsSafe.
RefcountsAreExact ==
  \A f \in Frames :
    refcnt[f] =
        Cardinality({m \in Maps : slot[m] = f})
      + Cardinality({m \in Maps : pc[m] = "deref" /\ old[m] = f})
      + Cardinality({m \in Maps : entry[m] # NULL /\ entry[m].object = f})
      + Cardinality({m \in Maps : entry[m] # NULL /\ entry[m].object = f
                                  /\ entry[m].is_cow})

\* The page table of a running process leads to the page that its entry and
\* amap name, never to a frame that was freed or given to somebody else.
MappedIsBacking ==
  \A m \in Maps : InUser(m) /\ pte[m] # NULL =>
    entry[m] # NULL /\ pte[m].frame = Backing(m)

\* Counts and page tables agree with entries and amaps.
PagesAreCounted == TypeOK /\ RefcountsAreExact /\ MappedIsBacking

\* "safe: can't hit free condition" (fault.c:139): while the handler is about
\* to drop its reference to the anon it has copied, whose lock it holds,
\* somebody else has one too.
DerefIsSafe ==
  \A m \in Maps : pc[m] = "deref" => refcnt[old[m]] > 1

\* "map the anons page read-only, regardless of the protection": a process
\* can write to a page of a private entry only if nobody shares it.
WritableIsUnshared ==
  \A m \in Maps : InUser(m) /\ pte[m] # NULL =>
    (pte[m].w /\ entry[m].is_cow =>
       slot[m] = pte[m].frame /\ refcnt[slot[m]] = 1)

\* What a process sees in its page.  In the middle of a fault it is not
\* looking, and the old page table entry does not count.
Seen(m) ==
  IF entry[m] = NULL THEN ZERO
  ELSE IF InUser(m) /\ pte[m] # NULL THEN content[pte[m].frame]
  ELSE content[Backing(m)]

Region(m) ==
  IF entry[m] = NULL THEN NULL
  ELSE IF entry[m].is_cow THEN PRIVATE ELSE entry[m].object

Abstract == INSTANCE AddressSpace WITH
  Ids <- Frames,
  running <- [m \in Maps |-> live[m] = "running"],
  region <- [m \in Maps |-> Region(m)],
  mem <- [m \in Maps |-> Seen(m)],
  kernel <- <<live, entry, slot, pte, refcnt, pc, old>>

\* Frames, anons, reference counts and page tables together behave as private
\* and shared memory: nobody sees a write to private memory but its process,
\* and no fault, fork or unmapping loses or changes what a process sees.
ImplementsAddressSpace == Abstract!Spec

=============================================================================
