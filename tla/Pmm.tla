-------------------------------- MODULE Pmm ---------------------------------
(* Physical memory: the buddy allocator of vm/pmm.c and the page references  *)
(* of vm/page.c that free into it.  Addresses count pages.  A reference is   *)
(* dropped without any lock; the last one leads to zone_free, which takes    *)
(* zone_lock later: the pages in between are in freeing.                     *)
EXTENDS Integers, FiniteSets, SequencesExt

CONSTANTS
  Zones,         \* by address: [base, end, meta (descriptor pages), may_alloc]
  BUDDY_ORDERS,
  MaxShares      \* bound on the references of one page

VARIABLES
  pages,         \* address -> [shares, order, max_order]
  orders,        \* zone -> order -> free blocks, the head of the list first
  free_pagecnt,
  freeing,       \* pages whose last reference is gone and that zone_free awaits
  panicked       \* an assertion of zone_free failed: the kernel has stopped

vars == <<pages, orders, free_pagecnt, freeing, panicked>>

Orders == 0 .. BUDDY_ORDERS - 1
Usable(z) == Zones[z].base + Zones[z].meta .. Zones[z].end - 1
Addresses == UNION {Usable(z) : z \in DOMAIN Zones}
lookup_zone(a) == CHOOSE z \in DOMAIN Zones : a \in Usable(z)

\* The largest order of a block that starts at i, is aligned and ends before end.
BlockOrder(i, end) ==
  Max({0} \cup {o \in Orders : \A k \in 1 .. o : i + 2^k < end /\ i % 2^k = 0})

\* The heads of the blocks a region is cut into, from address i on.
Blocks(from, end) ==
  LET cut[i \in from .. end + 2^BUDDY_ORDERS] ==
        IF i >= end THEN <<>> ELSE <<i>> \o cut[i + 2^BlockOrder(i, end)]
  IN cut[from]

pmm_add_region ==
  LET heads(z) == Blocks(Zones[z].base + Zones[z].meta, Zones[z].end)
      block(a) == LET z == lookup_zone(a)
                  IN CHOOSE h \in ToSet(heads(z)) :
                       a \in h .. h + 2^BlockOrder(h, Zones[z].end) - 1
      order(a) == BlockOrder(block(a), Zones[lookup_zone(a)].end)
  IN /\ pages = [a \in Addresses |-> [shares |-> 0, order |-> order(a), max_order |-> order(a)]]
     /\ orders = [z \in DOMAIN Zones |-> [o \in Orders |->
                    SelectSeq(heads(z), LAMBDA h : BlockOrder(h, Zones[z].end) = o)]]
     /\ free_pagecnt = Cardinality(Addresses)

Init == pmm_add_region /\ freeing = {} /\ panicked = FALSE

-----------------------------------------------------------------------------
\* The order whose list zone_alloc takes a block from: the smallest that has one.
Source(z, desired) ==
  LET fit == {o \in Orders : o >= desired /\ orders[z][o] # <<>>}
  IN IF fit = {} THEN -1 ELSE Min(fit)

\* Takes the first block and puts the upper halves it does not need on the lists.
zone_alloc(z, desired) ==
  LET order == Source(z, desired)
      page == Head(orders[z][order])
  IN /\ pages' = [a \in Addresses |->
           IF a = page THEN [pages[a] EXCEPT !.order = desired, !.shares = 1]
           ELSE IF \E o \in desired .. order - 1 : a = page + 2^o
                THEN [pages[a] EXCEPT !.order = CHOOSE o \in Orders : a = page + 2^o]
                ELSE pages[a]]
     /\ orders' = [orders EXCEPT ![z] = [o \in Orders |->
           IF o = order THEN Tail(@[o])
           ELSE IF o \in desired .. order - 1 THEN Append(@[o], page + 2^o) ELSE @[o]]]
     /\ free_pagecnt' = free_pagecnt - 2^desired

\* The first zone that allocates and has a block large enough.
pmm_alloc_order(desired) ==
  \E z \in DOMAIN Zones :
    /\ Zones[z].may_alloc /\ Source(z, desired) >= 0
    /\ \A y \in 1 .. z - 1 : Zones[y].may_alloc => Source(y, desired) < 0
    /\ zone_alloc(z, desired)
    /\ UNCHANGED <<freeing, panicked>>

page_ref(a) ==
  /\ pages[a].shares \in 1 .. MaxShares - 1
  /\ pages' = [pages EXCEPT ![a].shares = @ + 1]
  /\ UNCHANGED <<orders, free_pagecnt, freeing, panicked>>

page_deref(a) ==
  /\ pages[a].shares > 0
  /\ pages' = [pages EXCEPT ![a].shares = @ - 1]
  /\ freeing' = IF pages[a].shares = 1 THEN freeing \cup {a} ELSE freeing
  /\ UNCHANGED <<orders, free_pagecnt, panicked>>

-----------------------------------------------------------------------------
\* The block of order o that holds a, and the other half of its parent.
HeadOf(a, o) == a - (a % 2^o)
BuddyOf(a, o) == HeadOf(a, o + 1) + (IF HeadOf(a, o) = HeadOf(a, o + 1) THEN 2^o ELSE 0)

\* What zone_free takes for a free buddy.
BuddyIsFree(a, o) ==
  LET buddy == pages[BuddyOf(a, o)] IN buddy.shares = 0 /\ buddy.order = o

\* Merging that looks at one buddy only.
Merged_Once(a, order) ==
  IF order < pages[a].max_order /\ BuddyIsFree(a, order) THEN order + 1 ELSE order

\* The order of the block that results when a's block of that order is merged.
Merged(a, order) ==
  Max({o \in order .. pages[a].max_order : \A k \in order .. o - 1 : BuddyIsFree(a, k)})

BuddyOnList(a, o) == BuddyOf(a, o) \in ToSet(orders[lookup_zone(a)][o])

zone_free(a) ==
  LET z == lookup_zone(a)
      order == pages[a].order
      top == Merged(a, order)
      levels(b) == {o \in order .. top - 1 : b \in {HeadOf(a, o), BuddyOf(a, o)}}
  IN /\ a \in freeing
     /\ IF \A o \in order .. top - 1 : BuddyOnList(a, o)
        THEN /\ pages' = [b \in Addresses |->
                   IF levels(b) = {} THEN pages[b]
                   ELSE [pages[b] EXCEPT !.order = Max(levels(b)) + 1]]
             /\ orders' = [orders EXCEPT ![z] = [o \in Orders |->
                   IF o = top THEN <<HeadOf(a, top)>> \o @[o]
                   ELSE IF o \in order .. top - 1 THEN Remove(@[o], BuddyOf(a, o)) ELSE @[o]]]
             /\ free_pagecnt' = free_pagecnt + 2^order
             /\ freeing' = freeing \ {a} /\ UNCHANGED panicked
        ELSE panicked' = TRUE /\ UNCHANGED <<pages, orders, free_pagecnt, freeing>>

Next ==
  /\ ~panicked
  /\ \/ \E desired \in Orders : pmm_alloc_order(desired)
     \/ \E a \in Addresses : page_ref(a)
     \/ \E a \in Addresses : page_deref(a)
     \/ \E a \in Addresses : zone_free(a)

Spec == Init /\ [][Next]_vars
-----------------------------------------------------------------------------
Block(a, o) == a .. a + 2^o - 1
FreeBlocks == {<<h, o>> \in Addresses \X Orders :
                 \E z \in DOMAIN Zones : h \in ToSet(orders[z][o])}
HeldBlocks == {<<h, pages[h].order>> : h \in {a \in Addresses : pages[a].shares > 0} \cup freeing}

\* Every usable page is in exactly one block: on one list, held by its users or
\* on its way back; the lists and the page structures agree (pmm.c:290-437).
BlocksPartition ==
  /\ \A b, c \in FreeBlocks \cup HeldBlocks :
       b # c => Block(b[1], b[2]) \cap Block(c[1], c[2]) = {}
  /\ UNION {Block(b[1], b[2]) : b \in FreeBlocks \cup HeldBlocks} = Addresses
  /\ FreeBlocks \cap HeldBlocks = {}
  /\ \A b \in FreeBlocks : pages[b[1]].order = b[2] /\ pages[b[1]].shares = 0
  /\ \A z \in DOMAIN Zones, o \in Orders : IsInjective(orders[z][o])

\* Two free halves of a block are merged: no order of frees fragments memory.
Coalesced ==
  \A b \in FreeBlocks :
    b[2] < pages[b[1]].max_order => <<BuddyOf(b[1], b[2]), b[2]>> \notin FreeBlocks

\* The count of free pages is what the lists hold, but for the blocks in flight.
CountIsExact ==
  free_pagecnt = Cardinality(UNION {Block(b[1], b[2]) : b \in FreeBlocks})

PagesAreExact == BlocksPartition /\ Coalesced /\ CountIsExact

\* "buddy page has to be on list" (pmm.c:392): what zone_free merges is free.
BuddyIsOnList == ~panicked
=============================================================================
