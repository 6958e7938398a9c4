------------------------------ MODULE PageTable ------------------------------
(* The kernel's page tables (vm/generic_pmap.c under kmem_alloc and kmem_free  *)
(* of vm/vmem.c): CPUs map and unmap disjoint ranges without a common lock, so *)
(* each load and store of an entry is a step; stale translations are removed   *)
(* by remote calls (Ipi) before the pages are freed.                           *)
EXTENDS Ipi
LOCAL INSTANCE Integers
LOCAL INSTANCE FiniteSets
LOCAL INSTANCE Sequences

CONSTANTS
  Ranges,      \* ranges of heap_arena, sets of consecutive pages 0, 1, ...
  PerTable,    \* pages that one table maps
  Frames,      \* physical pages for the ranges
  FREE_BATCH,
  FlushPages   \* from this many pages on the whole TLB is flushed

VARIABLES
  live,        \* range -> "free", "busy" between the calls' begin and end, or "live"
  dirs,        \* directory entry -> the number of its table, 0: none
  tables,      \* directory entry -> sequence of the tables ever made for it
  tlb,         \* CPU -> set of <<page, frame>>
  used,        \* frames that are allocated
  op,          \* CPU -> [phase, range, page, table, batch]
  crashed      \* pmm_free of something that is no page

pmapVars == <<live, dirs, tables, tlb, used, op, crashed>>
vars == <<ipiVars, pmapVars>>

Pages == UNION Ranges
DirOf(page) == page \div PerTable
Dirs == {DirOf(page) : page \in Pages}
ZeroTable == [i \in 0 .. PerTable - 1 |-> 0]
NoOp == [phase |-> "none", range |-> {}, page |-> 0, table |-> 0, batch |-> <<>>]
First(range) == CHOOSE p \in range : \A q \in range : p <= q

Init ==
  /\ rcq_init
  /\ live = [r \in Ranges |-> "free"]
  /\ dirs = [d \in Dirs |-> 0] /\ tables = [d \in Dirs |-> <<>>]
  /\ tlb = [c \in Cpus |-> {}] /\ used = {} /\ op = [c \in Cpus |-> NoOp] /\ crashed = FALSE

\* The entry of a page through the tables as they are now; NULL: no table.
Entry(page) ==
  LET d == DirOf(page)
  IN IF dirs[d] = 0 THEN NULL ELSE tables[d][dirs[d]][page % PerTable]
Store(page, table, frame) == tables' = [tables EXCEPT ![DirOf(page)][table][page % PerTable] = frame]

OpAt(c, phase) == Runs(c) /\ op[c].phase = phase
OpGoto(c, phase) == op' = [op EXCEPT ![c].phase = phase]

\* Any translation of a present entry may get into the TLB at any time.
Touch(c, page) ==
  /\ Entry(page) \notin {NULL, 0} /\ tlb' = [tlb EXCEPT ![c] = @ \cup {<<page, Entry(page)>>}]
  /\ UNCHANGED <<ipiVars, live, dirs, tables, used, op, crashed>>

-----------------------------------------------------------------------------
\* kmem_alloc of a range that vmem_alloc returned.
kmem_alloc(c, range) ==
  /\ OpAt(c, "none") /\ \A r \in Ranges : r \cap range # {} => live[r] = "free"
  /\ live' = [live EXCEPT ![range] = "busy"]
  /\ op' = [op EXCEPT ![c] = [NoOp EXCEPT !.phase = "fetch", !.range = range, !.page = First(range)]]
  /\ UNCHANGED <<ipiVars, dirs, tables, tlb, used, crashed>>

\* pte_fetch with alloc: the directory entry is read; a missing table is made
\* and then stored, without looking again.
pte_fetch(c) ==
  LET d == DirOf(op[c].page)
  IN /\ OpAt(c, "fetch")
     /\ op' = [op EXCEPT ![c].phase = IF dirs[d] = 0 THEN "install" ELSE "store", ![c].table = dirs[d]]
     /\ UNCHANGED <<ipiVars, live, dirs, tables, tlb, used, crashed>>
InstallTable(c) ==
  LET d == DirOf(op[c].page)
  IN /\ OpAt(c, "install")
     /\ tables' = [tables EXCEPT ![d] = Append(@, ZeroTable)] /\ dirs' = [dirs EXCEPT ![d] = Len(tables'[d])]
     /\ op' = [op EXCEPT ![c].phase = "store", ![c].table = dirs'[d]]
     /\ UNCHANGED <<ipiVars, live, tlb, used, crashed>>
\* The page after this one; the last one ends the call.
Next1(c) ==
  IF op[c].page + 1 \in op[c].range
  THEN op' = [op EXCEPT ![c].page = @ + 1, ![c].phase = "fetch"] /\ UNCHANGED live
  ELSE op' = [op EXCEPT ![c] = NoOp] /\ live' = [live EXCEPT ![op[c].range] = "live"]
pmap_map(c) ==
  /\ OpAt(c, "store") /\ Frames \ used # {}
  /\ \E f \in {CHOOSE g \in Frames : g \notin used} :
       used' = used \cup {f} /\ Store(op[c].page, op[c].table, f)
  /\ Next1(c)
  /\ UNCHANGED <<ipiVars, dirs, tlb, crashed>>

-----------------------------------------------------------------------------
kmem_free(c, range) ==
  /\ OpAt(c, "none") /\ live[range] = "live" /\ live' = [live EXCEPT ![range] = "busy"]
  /\ op' = [op EXCEPT ![c] = [NoOp EXCEPT !.phase = "unmap", !.range = range, !.page = First(range)]]
  /\ UNCHANGED <<ipiVars, dirs, tables, tlb, used, crashed>>

Invalidated(entries, pages) ==
  IF Cardinality(pages) >= FlushPages THEN {} ELSE {e \in entries : e[1] \notin pages}

\* do_unmap of the next page; without a table there is no page to free.
do_unmap(c) ==
  LET page == op[c].page
      batch == Append(op[c].batch, Entry(page))
      last == page + 1 \notin op[c].range
  IN /\ OpAt(c, "unmap")
     /\ IF Entry(page) = NULL THEN UNCHANGED <<tables, tlb>>
        ELSE /\ Store(page, dirs[DirOf(page)], 0)
             /\ tlb' = [tlb EXCEPT ![c] = Invalidated(@, {page})]
     /\ op' = [op EXCEPT ![c].batch = batch, ![c].page = page + 1,
                ![c].phase = IF last \/ Len(batch) = FREE_BATCH THEN "shootdown" ELSE "unmap"]
     /\ UNCHANGED <<ipiVars, live, dirs, used, crashed>>

\* The pages of the batch end before the next page.
BatchPages(c) == (op[c].page - Len(op[c].batch)) .. (op[c].page - 1)
do_tlb_shootdown(c) ==
  /\ OpAt(c, "shootdown") /\ OpGoto(c, "wait")
  /\ IF Cardinality(Cpus) = 1 THEN UNCHANGED ipiVars ELSE ipi_mask_send(c, Cpus, BatchPages(c), TRUE)
  /\ UNCHANGED <<live, dirs, tables, tlb, used, crashed>>
shootdown_handler(c) ==
  /\ Executed(c) /\ tlb' = [tlb EXCEPT ![c] = Invalidated(@, handling[c][1].fn)]
  /\ UNCHANGED <<live, dirs, tables, used, op, crashed>>

\* Once the calls have been sent.
MayFree_Early(c) == sender[c].phase \in {"wait", "idle"}
\* The pages are freed when every CPU has answered.
MayFree(c) == sender[c].phase = "idle"
FreeBatch(c) ==
  LET freed == {op[c].batch[i] : i \in DOMAIN op[c].batch}
      more == op[c].page \in op[c].range
  IN /\ OpAt(c, "wait") /\ MayFree(c)
     /\ used' = used \ freed /\ crashed' = (crashed \/ freed \cap {NULL, 0} # {})
     /\ op' = [op EXCEPT ![c] = IF more THEN [@ EXCEPT !.phase = "unmap", !.batch = <<>>] ELSE NoOp]
     /\ live' = IF more THEN live ELSE [live EXCEPT ![op[c].range] = "free"]
     /\ UNCHANGED <<ipiVars, dirs, tables, tlb>>

Next ==
  ~crashed /\ \E c \in Cpus :
    \/ \E page \in Pages : Touch(c, page)
    \/ \E range \in Ranges :
         \/ kmem_alloc(c, range)
         \/ kmem_free(c, range)
    \/ pte_fetch(c)
    \/ InstallTable(c)
    \/ pmap_map(c)
    \/ do_unmap(c)
    \/ do_tlb_shootdown(c)
    \/ shootdown_handler(c)
    \/ FreeBatch(c)
    \/ (IpiStep(c) \/ SendDone(c)) /\ UNCHANGED pmapVars

-----------------------------------------------------------------------------
\* Two CPUs made a table for the same directory entry.
Raced(d) == Len(tables[d]) > 1

\* No CPU can reach a page that has been freed; and unless two CPUs filled one
\* directory entry, live ranges are mapped, one frame to a page, and nothing
\* else is freed.
PagesAreReachable ==
  /\ \A c \in Cpus : \A e \in tlb[c] : e[2] \in used
  /\ (\A d \in Dirs : ~Raced(d)) =>
       /\ ~crashed
       /\ \A r \in Ranges : live[r] = "live" => \A p \in r : Entry(p) \in used
       /\ \A p, q \in Pages : Entry(p) = Entry(q) /\ Entry(p) \in used => p = q

-----------------------------------------------------------------------------
\* pmap_large_map_range: the largest page that fits and is aligned, else small
\* pages up to the next large boundary.  sizes[i] is the i-th large page size.
Fitting(curr, va, end, sizes) ==
  {i \in DOMAIN sizes : curr + sizes[i] <= end /\ curr % sizes[i] = 0 /\ va % sizes[i] = 0}
LargeMap(base, length, virtual_base, sizes) ==
  LET end == base + length
      Map[curr \in base .. end] ==
        LET va == virtual_base + (curr - base)
            fit == Fitting(curr, va, end, sizes)
            level == CHOOSE i \in fit : \A j \in fit : j <= i
        IN IF curr = end THEN {}
           ELSE IF fit # {}
           THEN {[va |-> va, pa |-> curr, level |-> level]} \cup Map[curr + sizes[level]]
           ELSE {[va |-> va, pa |-> curr, level |-> 0]} \cup Map[curr + 1]
  IN Map[base]

\* Each page of the range is in exactly one mapping, at its own offset, and each
\* mapping is aligned to its size in both spaces.
LargeMapIsExact(bases, lengths, virtual_bases, sizes) ==
  \A b \in bases, n \in lengths, v \in virtual_bases :
    LET maps == LargeMap(b, n, v, sizes)
        Size(e) == IF e.level = 0 THEN 1 ELSE sizes[e.level]
    IN /\ \A e \in maps : e.pa % Size(e) = 0 /\ e.va % Size(e) = 0
       /\ \A i \in 0 .. n - 1 :
            LET over == {e \in maps : b + i \in e.pa .. (e.pa + Size(e) - 1)}
            IN \E e \in over : over = {e} /\ (b + i) - e.pa = (v + i) - e.va
       /\ \A e \in maps : e.pa >= b /\ e.pa + Size(e) <= b + n
=============================================================================
