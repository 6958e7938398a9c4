----------------------------- MODULE RingBuffer ------------------------------
(* core/ringbuffer.c: a buffer of capacity items with a head (next write), a  *)
(* tail (next read) and the number of items.  The callers hold a lock.        *)
LOCAL INSTANCE Integers
LOCAL INSTANCE Sequences

ringbuffer_init(cap) ==
  [data |-> [i \in 0 .. cap - 1 |-> 0], capacity |-> cap, head |-> 0, tail |-> 0, size |-> 0]
ringbuffer_available(rb) == rb.size
Smaller(a, b) == IF a < b THEN a ELSE b

\* What does not fit is dropped.
Stored(rb, count) == Smaller(count, rb.capacity - rb.size)
ringbuffer_put(rb, items) ==
  LET n == Stored(rb, Len(items))
  IN [rb EXCEPT !.head = (@ + n) % rb.capacity, !.size = @ + n,
        !.data = [i \in 0 .. rb.capacity - 1 |->
                    LET k == (i - rb.head + rb.capacity) % rb.capacity   \* wraps at the end
                    IN IF k < n THEN items[k + 1] ELSE @[i]]]

\* The first n items, and the buffer without them.
Oldest(rb, n) == [i \in 1 .. Smaller(n, rb.size) |-> rb.data[(rb.tail + i - 1) % rb.capacity]]
ringbuffer_get(rb, count) ==
  LET n == Smaller(count, rb.size)
  IN [rb EXCEPT !.tail = (@ + n) % rb.capacity, !.size = @ - n]
Unread(rb) == Oldest(rb, rb.size)
=============================================================================
