------------------------------- MODULE VmMap --------------------------------
(* The entries of one address map (vm/map.c): the search for a free range,   *)
(* the splitting of entries, munmap, mprotect and the references to objects  *)
(* and amaps.  map_lock is held exclusively by every operation.  Addresses   *)
(* count pages.                                                              *)
EXTENDS Integers, FiniteSets

CONSTANTS
  min_addr, max_addr,
  Hints, Lengths, \* what callers ask for
  Objects         \* bound on the mapped objects

\* Addresses are unsigned, nobody gets to ask for nothing, and 0 is no object.
ASSUME VmMapAssumption ==
  /\ min_addr \in Nat /\ max_addr \in Nat /\ min_addr <= max_addr
  /\ Hints \subseteq Nat /\ Lengths \subseteq Nat \ {0}
  /\ Objects \subseteq Nat \ {0}

VARIABLES
  map_tree,   \* set of entries, keyed by their base
  refcnt,     \* object -> [object, amap]: the references
  panicked    \* "no", or what stopped the kernel: "carve", "next", "null"

vmMapVars == <<map_tree, refcnt, panicked>>

READ == 1
WRITE == 2
Prots == {READ, WRITE}
Free == [obj |-> 0, page |-> 0, prot |-> 0, max |-> 0]
Pages == min_addr .. max_addr - 1
NoRefs == [object |-> 0, amap |-> 0]
MaxOf(a, b) == IF a > b THEN a ELSE b
MinOf(a, b) == IF a < b THEN a ELSE b

\* What vm_map makes: a private entry has an amap of its own.
init_map_entry(base, end, obj, private, prot) ==
  [base |-> base, end |-> end, offset |-> 0, object |-> obj, amap |-> private,
   protection |-> prot, max_protection |-> prot]

vm_map_init == map_tree = {} /\ refcnt = [o \in Objects |-> NoRefs] /\ panicked = "no"

Panic(why) == panicked' = why /\ UNCHANGED <<map_tree, refcnt>>

\* RBT_MIN, RBT_MAX and RBT_NEXT over entries es; the gap above an entry ends at GapEnd.
Lowest(es) == CHOOSE e \in es : \A f \in es : e.base <= f.base
Highest(es) == CHOOSE e \in es : \A f \in es : f.base <= e.base
Above(e) == {f \in map_tree : f.base > e.base}
GapEnd(e) == IF Above(e) = {} THEN max_addr ELSE Lowest(Above(e)).base

\* References over the entries es, per object.
CountRefs(tree, o) ==
  [object |-> Cardinality({e \in tree : e.object = o}),
   amap |-> Cardinality({e \in tree : e.object = o /\ e.amap})]
Add(r, s) == [object |-> r.object + s.object, amap |-> r.amap + s.amap]
Sub(r, s) == [object |-> r.object - s.object, amap |-> r.amap - s.amap]

-----------------------------------------------------------------------------
\* A left part one page too long, a right part with the offset of the whole entry.
Left_Inclusive(e, base) == IF base > e.base THEN {[e EXCEPT !.end = base + 1]} ELSE {}
Right_Offset(e, end) == IF end < e.end THEN {[e EXCEPT !.base = end]} ELSE {}

\* carve_entry: the parts of an entry left and right of [base, end) become new
\* entries with references of their own.
Left(e, base) == IF base > e.base THEN {[e EXCEPT !.end = base]} ELSE {}
Right(e, end) ==
  IF end < e.end THEN {[e EXCEPT !.base = end, !.offset = @ + end - e.base]} ELSE {}
Middle(e, base, end) == [e EXCEPT !.base = base, !.end = end, !.offset = @ + base - e.base]

SplitBase(e, base) == MaxOf(e.base, base)
SplitEnd(e, end) == MinOf(e.end, end)
Overlapping(base, end) == {e \in map_tree : e.base < end /\ e.end > base}

\* The assertion at the head of carve_entry fails for a range that leaves
\* something on the left and ends with the entry.
CarveAsserts(e, base, end) == SplitBase(e, base) > e.base /\ SplitEnd(e, end) = e.end

Pieces(e, base, end) == Left(e, SplitBase(e, base)) \cup Right(e, SplitEnd(e, end))

-----------------------------------------------------------------------------
\* The tree and the references without the range [base, end).
UnmappedTree(base, end) ==
  (map_tree \ Overlapping(base, end))
    \cup UNION {Pieces(e, base, end) : e \in Overlapping(base, end)}
UnmappedRefs(base, end) ==
  [o \in Objects |->
     Sub(Add(refcnt[o], CountRefs(UNION {Pieces(e, base, end) : e \in Overlapping(base, end)}, o)),
         CountRefs(Overlapping(base, end), o))]
UnmapPanics(base, end) == \E e \in Overlapping(base, end) : CarveAsserts(e, base, end)

vm_unmap(base, length) ==
  LET end == base + length IN
  IF UnmapPanics(base, end) THEN Panic("carve")
  ELSE /\ map_tree' = UnmappedTree(base, end)
       /\ refcnt' = UnmappedRefs(base, end)
       /\ UNCHANGED panicked

vm_check_prot(max, prot) == prot = WRITE => max = WRITE

\* Entries are changed one after the other until one of them denies it; that
\* one has been split already.
Denied(base, end, prot, setmax) ==
  {e \in Overlapping(base, end) : ~setmax /\ ~vm_check_prot(e.max_protection, prot)}
Reached(base, end, prot, setmax) ==
  {e \in Overlapping(base, end) : \A d \in Denied(base, end, prot, setmax) : e.base <= d.base}
Changed(e, base, end, prot, setmax) ==
  LET m == Middle(e, SplitBase(e, base), SplitEnd(e, end))
  IN IF e \in Denied(base, end, prot, setmax) THEN m
     ELSE [m EXCEPT !.protection = prot, !.max_protection = IF setmax THEN prot ELSE @]

vm_protect(base, length, prot, setmax) ==
  LET end == base + length
      reached == Reached(base, end, prot, setmax)
      pieces == UNION {Pieces(e, base, end) : e \in reached}
  IN IF \E e \in reached : CarveAsserts(e, base, end) THEN Panic("carve")
     ELSE /\ map_tree' = (map_tree \ reached) \cup pieces
                           \cup {Changed(e, base, end, prot, setmax) : e \in reached}
          /\ refcnt' = [o \in Objects |-> Add(refcnt[o], CountRefs(pieces, o))]
          /\ UNCHANGED panicked

-----------------------------------------------------------------------------
NOSPACE == -1
NO_NEXT == -2      \* assert(next) fails: the hint is above every entry
NULL_NEXT == -3    \* RBT_NEXT of NULL: one entry, and no room on either side

\* The base alloc_map_range_locked finds without VM_MAP_FIXED: the first gap that fits,
\* from the entry below the hint on, then the room after the last entry, then any gap.
FreeRange(hint, length) ==
  LET want == MinOf(MaxOf(hint, min_addr), max_addr)
      below == {e \in map_tree : e.base < want}
      first == IF below = {} THEN Lowest(map_tree) ELSE Highest(below)
      last == Highest(map_tree)
      fits(e, at) == Above(e) # {} /\ GapEnd(e) - MaxOf(e.end, at) >= length
      ahead == {e \in map_tree : e.base >= first.base /\ fits(e, want)}
      wrapped == {e \in map_tree : fits(e, min_addr)}
      lowFits == Lowest(map_tree).base - min_addr >= length
  IN IF length > max_addr - min_addr THEN NOSPACE
     ELSE IF map_tree = {} THEN IF want + length <= max_addr THEN want ELSE min_addr
     ELSE IF below = map_tree THEN NO_NEXT
     ELSE IF below = {} /\ lowFits THEN min_addr
     ELSE IF ahead # {} THEN MaxOf(Lowest(ahead).end, want)
     ELSE IF last.end + length <= max_addr THEN last.end
     ELSE IF below = {} /\ first = last THEN NULL_NEXT
     ELSE IF hint = 0 THEN NOSPACE
     ELSE IF lowFits THEN min_addr
     ELSE IF wrapped # {} THEN Lowest(wrapped).end
     ELSE NOSPACE

FreshObject == CHOOSE o \in Objects : refcnt[o] = NoRefs

Insert(tree, refs, base, length, private, prot) ==
  LET e == init_map_entry(base, base + length, FreshObject, private, prot)
  IN /\ map_tree' = tree \cup {e}
     /\ refcnt' = [refs EXCEPT ![FreshObject] = CountRefs({e}, FreshObject)]
     /\ UNCHANGED panicked

CanMap == \E o \in Objects : refcnt[o] = NoRefs

vm_map(hint, length, private, prot) ==
  LET base == FreeRange(hint, length) IN
  /\ CanMap /\ base # NOSPACE
  /\ IF base = NO_NEXT THEN Panic("next") ELSE IF base = NULL_NEXT THEN Panic("null")
     ELSE Insert(map_tree, refcnt, base, length, private, prot)

\* VM_MAP_FIXED with VM_MAP_OVERWRITE: what is in the way is unmapped first.
vm_map_fixed(base, length, private, prot) ==
  LET end == base + length IN
  /\ CanMap /\ base >= min_addr /\ end <= max_addr
  /\ IF UnmapPanics(base, end) THEN Panic("carve")
     ELSE Insert(UnmappedTree(base, end), UnmappedRefs(base, end), base, length, private, prot)

VmMapNext ==
  /\ panicked = "no"
  /\ \/ \E hint \in Hints, length \in Lengths, private \in BOOLEAN, prot \in Prots :
          vm_map(hint, length, private, prot)
     \/ \E base \in Pages, length \in Lengths, private \in BOOLEAN, prot \in Prots :
          vm_map_fixed(base, length, private, prot)
     \/ \E base \in Pages, length \in Lengths : vm_unmap(base, length)
     \/ \E base \in Pages, length \in Lengths, prot \in Prots, setmax \in BOOLEAN :
          vm_protect(base, length, prot, setmax)

VmMapSpec == vm_map_init /\ [][VmMapNext]_vmMapVars

-----------------------------------------------------------------------------
\* What a page of the address space shows: the refinement of PageSpace.
Space == [p \in Pages |->
  IF \E e \in map_tree : p \in e.base .. e.end - 1
  THEN LET e == CHOOSE x \in map_tree : p \in x.base .. x.end - 1
       IN [obj |-> e.object, page |-> e.offset + p - e.base,
           prot |-> e.protection, max |-> e.max_protection]
  ELSE Free]

\* Entries do not overlap and stay inside the map; every object and amap has one
\* reference per entry, however often the entries were split (map.c:169-248).
EntriesAreSound ==
  /\ \A e, f \in map_tree : e # f => e.end <= f.base \/ f.end <= e.base
  /\ \A e \in map_tree : min_addr <= e.base /\ e.base < e.end /\ e.end <= max_addr
  /\ \A o \in Objects : refcnt[o] = CountRefs(map_tree, o)

\* VmMap implements PageSpace: a call changes the pages it is given, no others.
PS == INSTANCE PageSpace WITH space <- Space
ImplementsPageSpace == PS!Spec
=============================================================================
