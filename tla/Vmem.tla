-------------------------------- MODULE Vmem --------------------------------
(* Virtual address arenas (vm/vmem.c): boundary tags in address order, an    *)
(* arena that imports spans from a source arena, and the fits.  Addresses    *)
(* count quanta.  The arena mutex makes an operation atomic; tags never run  *)
(* out (tag_refill loops until it has some) and are not counted.             *)
EXTENDS Integers, FiniteSets, SequencesExt

CONSTANTS
  NULL,
  Source,      \* arena -> the arena it imports from, or NULL
  Quantum,     \* arena -> its unit
  Spans,       \* arena -> the spans [start, size] that vmem_init and vmem_add give it
  Sizes,       \* the sizes that callers ask for
  Limits       \* the [minaddr, maxaddr] that callers ask for, 0 for none

VARIABLE all_tags   \* arena -> sequence of [type, start, size]

Arenas == DOMAIN Source
IsSpan(tag) == tag.type \in {"SPAN", "SPAN_IMPORTED"}
Tag(type, start, size) == [type |-> type, start |-> start, size |-> size]
Unlimited == [minaddr |-> 0, maxaddr |-> 0]
MaxOf(a, b) == IF a > b THEN a ELSE b
MinOf(a, b) == IF a < b THEN a ELSE b

\* The freelist of a size: the power of two below it.
freelist_idx(size) == CHOOSE n \in 0 .. size : 2^n <= size /\ size < 2^(n + 1)

\* A span and the free segment that fills it.  Imported spans go to the head,
\* the others are sorted by address.
vmem_add_locked(tags, start, size, type) ==
  LET later == {i \in DOMAIN tags : IsSpan(tags[i]) /\ tags[i].start > start}
      sorted == type # "SPAN_IMPORTED" /\ \E i \in DOMAIN tags : IsSpan(tags[i]) /\ tags[i].start <= start
      at == IF ~sorted THEN 1 ELSE IF later = {} THEN Len(tags) + 1 ELSE Min(later)
  IN SubSeq(tags, 1, at - 1) \o <<Tag(type, start, size), Tag("FREE", start, size)>>
       \o SubSeq(tags, at, Len(tags))

-----------------------------------------------------------------------------
\* The part of a free segment inside the limits.
AllocStart(tag, lim) == MaxOf(tag.start, lim.minaddr)
Room(tag, lim) ==
  (IF lim.maxaddr = 0 THEN tag.start + tag.size ELSE MinOf(tag.start + tag.size, lim.maxaddr))
    - AllocStart(tag, lim)

\* The segments vmem_xalloc may choose.  Instant fit takes any of the first list
\* that has one; best fit the smallest one of that list.  Lists of smaller
\* classes are not searched.
Fitting(tags, size, lim) ==
  {i \in DOMAIN tags : /\ tags[i].type = "FREE"
                       /\ freelist_idx(tags[i].size) >= freelist_idx(size)
                       /\ Room(tags[i], lim) >= size}
FirstList(tags, size, lim) ==
  {i \in Fitting(tags, size, lim) : \A j \in Fitting(tags, size, lim) :
     freelist_idx(tags[i].size) <= freelist_idx(tags[j].size)}
Candidates(tags, size, lim, fit) ==
  IF fit = "INSTANTFIT" THEN FirstList(tags, size, lim)
  ELSE {i \in FirstList(tags, size, lim) :
          \A j \in FirstList(tags, size, lim) : tags[i].size <= tags[j].size}

\* What is left of segment i on either side of [at, at + size) stays free.
split_seg(tags, i, at, size) ==
  LET tag == tags[i]
      left == IF at > tag.start THEN <<Tag("FREE", tag.start, at - tag.start)>> ELSE <<>>
      end == tag.start + tag.size
      right == IF at + size < end THEN <<Tag("FREE", at + size, end - (at + size))>> ELSE <<>>
  IN SubSeq(tags, 1, i - 1) \o left \o <<Tag("ALLOCATED", at, size)>> \o right
       \o SubSeq(tags, i + 1, Len(tags))

AlignUp(size, unit) == ((size + unit - 1) \div unit) * unit

-----------------------------------------------------------------------------
\* A coalescing that forgets the segment on the right.
Coalesce_LeftOnly(tags, i) ==
  IF tags[i - 1].type = "FREE"
  THEN SubSeq(tags, 1, i - 2) \o <<Tag("FREE", tags[i - 1].start, tags[i - 1].size + tags[i].size)>>
         \o SubSeq(tags, i + 1, Len(tags))
  ELSE [tags EXCEPT ![i].type = "FREE"]

\* Returns segment i of the arena: it joins its free neighbours.
Coalesce(tags, i) ==
  LET left == tags[i - 1]
      joinLeft == left.type = "FREE"
      start == IF joinLeft THEN left.start ELSE tags[i].start
      first == IF joinLeft THEN i - 1 ELSE i
      joinRight == i < Len(tags) /\ tags[i + 1].type = "FREE"
      last == IF joinRight THEN i + 1 ELSE i
  IN SubSeq(tags, 1, first - 1)
       \o <<Tag("FREE", start, tags[last].start + tags[last].size - start)>>
       \o SubSeq(tags, last + 1, Len(tags))

Allocated(tags, start) ==
  CHOOSE i \in DOMAIN tags : tags[i].type = "ALLOCATED" /\ tags[i].start = start

\* The tags after vmem_xfree, and the imported span that is free as a whole.
vmem_xfree(tags, start) ==
  LET joined == Coalesce(tags, Allocated(tags, start))
      f == CHOOSE i \in DOMAIN joined :
             /\ joined[i].type = "FREE"
             /\ start \in joined[i].start .. joined[i].start + joined[i].size - 1
      span == joined[f - 1]
      whole == span.type = "SPAN_IMPORTED" /\ span.size = joined[f].size
  IN [tags |-> IF whole THEN SubSeq(joined, 1, f - 2) \o SubSeq(joined, f + 1, Len(joined)) ELSE joined,
      released |-> IF whole THEN {span} ELSE {}]

-----------------------------------------------------------------------------
Init == all_tags = [a \in Arenas |-> <<>>]

vmem_add(a, span) ==
  /\ \A i \in DOMAIN all_tags[a] : all_tags[a][i].start # span.start
  /\ all_tags' = [all_tags EXCEPT ![a] = vmem_add_locked(@, span.start, span.size, "SPAN")]

\* An allocation that an arena satisfies by itself.
AllocHere(a, size, lim, fit) ==
  \E i \in Candidates(all_tags[a], size, lim, fit) :
    all_tags' = [all_tags EXCEPT ![a] =
      split_seg(@, i, AllocStart(@[i], lim), size)]

\* An allocation that imports a span, with the mutexes of both arenas held.
AllocImport(a, size, fit) ==
  LET src == Source[a]
      import == AlignUp(size, Quantum[src])
  IN /\ src # NULL /\ Fitting(all_tags[a], size, Unlimited) = {}
     /\ \E i \in Candidates(all_tags[src], import, Unlimited, fit) :
          LET start == all_tags[src][i].start
              grown == vmem_add_locked(all_tags[a], start, import, "SPAN_IMPORTED")
          IN all_tags' = [all_tags EXCEPT ![src] = split_seg(@, i, start, import),
               ![a] = split_seg(grown, 2, start, size)]

\* Segments that belong to a caller and not to an arena that imported them.
Imported(a, tag) ==
  \E b \in Arenas : Source[b] = a /\
    \E i \in DOMAIN all_tags[b] : all_tags[b][i] = Tag("SPAN_IMPORTED", tag.start, tag.size)
Held(a) == {all_tags[a][i] : i \in {j \in DOMAIN all_tags[a] :
              all_tags[a][j].type = "ALLOCATED" /\ ~Imported(a, all_tags[a][j])}}

vmem_free(a, tag) ==
  LET here == vmem_xfree(all_tags[a], tag.start)
  IN /\ tag \in Held(a)
     /\ all_tags' = [b \in Arenas |->
          IF b = a THEN here.tags
          ELSE IF b = Source[a] /\ here.released # {}
               THEN vmem_xfree(all_tags[b], (CHOOSE s \in here.released : TRUE).start).tags
               ELSE all_tags[b]]

Next ==
  \/ \E a \in Arenas : \E span \in Spans[a] : vmem_add(a, span)
  \/ \E a \in Arenas, size \in Sizes, lim \in Limits, fit \in {"INSTANTFIT", "BESTFIT"} :
       (Source[a] # NULL => lim = Unlimited) /\ AllocHere(a, size, lim, fit)
  \/ \E a \in Arenas, size \in Sizes, fit \in {"INSTANTFIT", "BESTFIT"} : AllocImport(a, size, fit)
  \/ \E a \in Arenas : \E tag \in Held(a) : vmem_free(a, tag)

-----------------------------------------------------------------------------
\* The segments of a span follow its tag, in order, without a gap or an overlap
\* (split_seg, vmem_xfree), and free neighbours have been joined.
SpansAreTiled ==
  \A a \in Arenas : LET tags == all_tags[a] IN
    /\ tags # <<>> => IsSpan(tags[1])
    /\ \A i \in DOMAIN tags : IsSpan(tags[i]) =>
         LET next == {j \in i + 1 .. Len(tags) : IsSpan(tags[j])}
             end == IF next = {} THEN Len(tags) ELSE Min(next) - 1
         IN /\ end > i /\ tags[i + 1].start = tags[i].start
            /\ tags[end].start + tags[end].size = tags[i].start + tags[i].size
            /\ \A j \in i + 1 .. end - 1 :
                 /\ tags[j].size > 0 /\ tags[j].start + tags[j].size = tags[j + 1].start
                 /\ ~(tags[j].type = "FREE" /\ tags[j + 1].type = "FREE")

\* An imported span is a segment its source has allocated, at all times, and is
\* given back as soon as nothing in it is allocated (vmem.c:690).
ImportsAreBacked ==
  \A a \in Arenas : \A i \in DOMAIN all_tags[a] :
    LET tag == all_tags[a][i] IN
    tag.type = "SPAN_IMPORTED" =>
      /\ \E j \in DOMAIN all_tags[Source[a]] :
           all_tags[Source[a]][j] = Tag("ALLOCATED", tag.start, tag.size)
      /\ all_tags[a][i + 1] # Tag("FREE", tag.start, tag.size)

ArenasAreExact == SpansAreTiled /\ ImportsAreBacked
=============================================================================
