--------------------------------- MODULE Irq ----------------------------------
(* Interrupt vectors and the objects that share them (core/irq/irq.c), with    *)
(* the interrupts that are being handled (isr.c): an interrupt of a vector is  *)
(* acknowledged before the handlers or after them, by the trigger mode of its  *)
(* slot, which is read at both places.  irq_lock makes an allocation one step. *)
LOCAL INSTANCE Integers
LOCAL INSTANCE Sequences
LOCAL INSTANCE SequencesExt

CONSTANTS
  NULL,
  Objects,    \* irq_objects
  Levels,     \* number of priority levels that have vectors; the levels are 1 .. Levels
  IPL_CLOCK,
  PerIpl,     \* IRQ_SLOTS_PER_IPL
  Requests    \* [ipl, flags, trigger, polarity] that drivers ask for

VARIABLES
  slots,      \* vector -> [objs, flags, pinconf]
  request,    \* object -> the request it was allocated with, and how; or NULL
  handling    \* one interrupt in progress [vec, eois, changed, ended], or NULL

vars == <<slots, request, handling>>

Slots == 0 .. Levels * PerIpl - 1
Level(vec) == vec \div PerIpl + 1
IPL_TO_VEC(ipl) == (ipl - 1) * PerIpl
Pins(r) == [trigger |-> r.trigger, polarity |-> r.polarity]

irq_init ==
  /\ slots = [vec \in Slots |-> [objs |-> <<>>, flags |-> {}, pinconf |-> [trigger |-> "any", polarity |-> "any"]]]
  /\ request = [o \in Objects |-> NULL]
  /\ handling = NULL

Agree(a, b) == a = b \/ a = "any" \/ b = "any"
pins_compatible(a, b) == Agree(a.polarity, b.polarity) /\ Agree(a.trigger, b.trigger)

\* One more object in a slot, which takes the flags and the pins of the newest.
Insert(o, vec, r, by) ==
  /\ slots' = [slots EXCEPT ![vec] = [objs |-> Append(@.objs, o), flags |-> r.flags \ {"min_ipl"}, pinconf |-> Pins(r)]]
  /\ request' = [request EXCEPT ![o] = [by |-> by, vec |-> vec, ask |-> r]]
  /\ handling' =
       IF handling = NULL \/ (slots[vec].pinconf.trigger = "level") = (r.trigger = "level") THEN handling
       ELSE [handling EXCEPT !.changed = @ \/ handling.vec = vec]

Both(slot, r) == "shareable" \in slot.flags /\ "shareable" \in r.flags
MayJoin(slot, r) ==
  slot.objs # <<>> => /\ Both(slot, r)
                      /\ ("moveable" \in r.flags) = ("moveable" \in slot.flags)
                      /\ pins_compatible(slot.pinconf, Pins(r))
\* The first of the least shared slots of a level, or of the levels up to the clock.
Candidates(r, first, last) == {vec \in Slots : first <= vec /\ vec < last /\ MayJoin(slots[vec], r)}
Least(C) ==
  CHOOSE v \in C : \A w \in C : \/ Len(slots[v].objs) < Len(slots[w].objs)
                                \/ Len(slots[v].objs) = Len(slots[w].objs) /\ v <= w
irq_alloc_ipl(o, r) ==
  LET first == IPL_TO_VEC(r.ipl)
      near == Candidates(r, first, first + PerIpl)
      far == IF "min_ipl" \in r.flags THEN Candidates(r, first, IPL_TO_VEC(IPL_CLOCK)) ELSE {}
  IN /\ request[o] = NULL /\ near \cup far # {}
     /\ Insert(o, Least(IF near # {} THEN near ELSE far), r, "ipl")
irq_alloc_vec(o, vec, r) ==
  /\ request[o] = NULL
  /\ slots[vec].objs # <<>> => Both(slots[vec], r) /\ pins_compatible(slots[vec].pinconf, Pins(r))
  /\ Insert(o, vec, r, "vec")

\* An interrupt: acknowledged first unless the slot is level triggered, then every
\* object's handler runs, then it is acknowledged if the slot is level triggered.
Eoi(vec, level) == IF (slots[vec].pinconf.trigger = "level") = level THEN 1 ELSE 0
isr_c_entry(vec) ==
  /\ handling = NULL /\ slots[vec].objs # <<>>
  /\ handling' = [vec |-> vec, eois |-> Eoi(vec, FALSE), changed |-> FALSE, ended |-> FALSE]
  /\ UNCHANGED <<slots, request>>
dispatch_handler ==
  /\ handling # NULL /\ ~handling.ended
  /\ handling' = [handling EXCEPT !.eois = @ + Eoi(handling.vec, TRUE), !.ended = TRUE]
  /\ UNCHANGED <<slots, request>>
\* The next interrupt of a vector comes only when the last was acknowledged.
Acknowledged ==
  /\ handling # NULL /\ handling.ended /\ handling.eois > 0
  /\ handling' = NULL /\ UNCHANGED <<slots, request>>

Next ==
  \/ \E o \in Objects, r \in Requests : irq_alloc_ipl(o, r) \/ \E vec \in Slots : irq_alloc_vec(o, vec, r)
  \/ \E vec \in Slots : isr_c_entry(vec)
  \/ dispatch_handler
  \/ Acknowledged

-----------------------------------------------------------------------------
Ask(o) == request[o].ask
\* Only requests that all agreed to it share a vector, each agrees with the one before
\* it on the pins, a vector is of the level that was asked for or, with IRQ_MIN_IPL,
\* between it and the clock's, and an interrupt is acknowledged exactly once
\* unless an allocation changes the trigger mode while it is handled.
SlotsAreSound ==
  /\ \A vec \in Slots :
       LET objs == slots[vec].objs IN
       /\ \A o \in Objects : Contains(objs, o) <=> request[o] # NULL /\ request[o].vec = vec
       /\ Len(objs) > 1 => \A i \in DOMAIN objs : "shareable" \in Ask(objs[i]).flags
       /\ \A i \in DOMAIN objs \ {1} :
            /\ pins_compatible(Pins(Ask(objs[i - 1])), Pins(Ask(objs[i])))
            /\ request[objs[i]].by = "ipl" =>
                 (("moveable" \in Ask(objs[i]).flags) = ("moveable" \in Ask(objs[i - 1]).flags))
       /\ \A i \in DOMAIN objs : request[objs[i]].by = "ipl" =>
            \/ Level(vec) = Ask(objs[i]).ipl
            \/ "min_ipl" \in Ask(objs[i]).flags /\ Ask(objs[i]).ipl < Level(vec) /\ Level(vec) < IPL_CLOCK
  /\ handling # NULL /\ handling.ended /\ ~handling.changed => handling.eois = 1
=============================================================================
