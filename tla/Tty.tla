--------------------------------- MODULE Tty ---------------------------------
(* A terminal and its line discipline (io/tty/n_tty.c over core/ringbuffer.c): *)
(* characters arrive, processes read, and tcsetattr changes the mode under     *)
(* both.  read_mutex is held from its acquisition to the release or the return *)
(* of read, so that stretch is one step; only a read that never gets enough    *)
(* bytes into its buffer keeps the mutex between steps.                        *)
EXTENDS RingBuffer, Integers, Sequences

CONSTANTS
  NULL,
  Readers,    \* processes that read the terminal
  BufSize,    \* TTY_BUF_SIZE: capacity of read_buf and of canonical_buf
  Keys,       \* characters that are typed: "c", "nl", "erase", "kill", "eof"
  MaxTyped,   \* bound on the characters typed
  Reads,      \* buffer lengths of the reads
  Modes       \* [icanon, vmin, vtime] of tcsetattr

VARIABLES
  termios,    \* a member of Modes
  line,       \* canonical_buf up to canonical_pos
  read_buf,   \* ring buffer of the characters that can be read
  event,      \* data_available, a notification event
  reader,     \* reader -> [phase, len, mode, got, first, robbed]
  typed,      \* characters typed so far
  unread      \* what read_buf has taken and no read has, in order

vars == <<termios, line, read_buf, event, reader, typed, unread>>

NotReading == [phase |-> "idle", len |-> 0, mode |-> NULL, got |-> 0, first |-> TRUE, robbed |-> FALSE]

Init ==
  /\ termios \in {m \in Modes : m.icanon}
  /\ line = <<>> /\ read_buf = ringbuffer_init(BufSize)
  /\ event = FALSE /\ reader = [r \in Readers |-> NotReading]
  /\ typed = 0 /\ unread = <<>>

\* read_mutex is free unless a read goes round with a full buffer.
MutexFree == \A r \in Readers : reader[r].phase # "spinning"

-----------------------------------------------------------------------------
\* An alarm that only leaves the event signaled.
Awake_Later == reader
\* A notification event wakes everybody who waits on it, and stays signaled.
Awake == [r \in Readers |-> IF reader[r].phase = "asleep" THEN [reader[r] EXCEPT !.phase = "woken"]
                            ELSE reader[r]]
Deliver(chars) ==
  /\ read_buf' = ringbuffer_put(read_buf, chars)
  /\ unread' = unread \o SubSeq(chars, 1, read_buf'.size - read_buf.size)
  /\ event' = TRUE /\ reader' = Awake

commit_line(chars) ==
  /\ line' = <<>>
  /\ IF chars = <<>> THEN UNCHANGED <<read_buf, unread, event, reader>> ELSE Deliver(chars)
Keep(chars) == line' = chars /\ UNCHANGED <<read_buf, unread, event, reader>>

\* The line with c, if there is room for it.
WithRoom(c) == IF Len(line) < BufSize - 1 THEN Append(line, c) ELSE line

\* Without ICANON only the end of a line is told apart, by a later read.
Char(c) == IF c = "nl" THEN c ELSE "c"
receive_char(c) ==
  /\ MutexFree /\ typed < MaxTyped /\ typed' = typed + 1
  /\ IF ~termios.icanon THEN Deliver(<<Char(c)>>) /\ UNCHANGED line
     ELSE CASE c = "erase" -> Keep(IF line = <<>> THEN line ELSE SubSeq(line, 1, Len(line) - 1))
            [] c = "kill" -> Keep(<<>>)
            [] c = "eof" -> commit_line(line)
            [] c = "nl" -> commit_line(WithRoom(c))
            [] OTHER -> Keep(WithRoom(c))
  /\ UNCHANGED termios

\* ioctl(TCSETS) takes no lock.
TCSETS ==
  /\ \E m \in Modes : termios' = m
  /\ UNCHANGED <<line, read_buf, event, reader, typed, unread>>

-----------------------------------------------------------------------------
\* The length of the first line in the buffer, 0 if there is none.
check_line ==
  LET s == Unread(read_buf)
      ends == {i \in DOMAIN s : s[i] = "nl"}
  IN IF ends = {} THEN 0 ELSE CHOOSE i \in ends : \A j \in ends : i <= j

\* r goes on as R; the round has cleared the event for the others.
Others(r, R) ==
  [q \in Readers |-> IF q = r THEN R ELSE [reader[q] EXCEPT !.robbed = reader[q].phase # "idle"]]
\* The n oldest characters go to the reader.
Take(n) ==
  /\ read_buf' = ringbuffer_get(read_buf, n)
  /\ unread' = SubSeq(unread, n + 1, Len(unread))

\* read gives the mutex up and waits for the event.
Released(R) == [R EXCEPT !.phase = "released", !.robbed = FALSE]

\* One round in canonical mode: a line, or what ^D left of one.
CanonicalTake(R) ==
  Smaller(IF check_line > 0 THEN check_line ELSE ringbuffer_available(read_buf), R.len)
Canonical(r, R) ==
  /\ Take(CanonicalTake(R))
  /\ reader' = Others(r, IF ringbuffer_available(read_buf) > 0 THEN NotReading ELSE Released(R))

\* Rounds in non-canonical mode, until there are vmin bytes, or any.
RawTake(R) == Smaller(ringbuffer_available(read_buf), R.len - R.got)
Raw(r, R) ==
  LET F == [R EXCEPT !.got = @ + RawTake(R), !.first = @ /\ RawTake(R) = 0]
  IN /\ Take(RawTake(R))
     /\ reader' = Others(r, IF F.got > 0 /\ F.got >= F.mode.vmin THEN NotReading
                            ELSE IF RawTake(R) < ringbuffer_available(read_buf) THEN [F EXCEPT !.phase = "spinning"]
                            ELSE Released(F))

Round(r, R) ==
  /\ MutexFree /\ event' = FALSE /\ UNCHANGED <<termios, line, typed>>
  /\ IF R.mode.icanon THEN Canonical(r, R) ELSE Raw(r, R)

read(r, len) ==
  /\ reader[r].phase = "idle"
  /\ Round(r, [NotReading EXCEPT !.len = len, !.mode = termios])

\* read returns what it has; an empty buffer clears the event.
Return(r) ==
  /\ MutexFree /\ event' = (event /\ ringbuffer_available(read_buf) > 0)
  /\ reader' = (IF ringbuffer_available(read_buf) > 0 THEN [reader EXCEPT ![r] = NotReading] ELSE Others(r, NotReading))
  /\ UNCHANGED <<termios, line, typed, read_buf, unread>>
Timed(R) == ~R.mode.icanon /\ R.mode.vtime > 0
\* After the wait: a read with a timer ends when nothing more has come.
Again(r) ==
  LET R == reader[r]
  IN /\ R.phase = "woken"
     /\ IF Timed(R) /\ ~R.first /\ ringbuffer_available(read_buf) = 0 THEN Return(r) ELSE Round(r, R)
TimedOut(r) == reader[r].phase \in {"released", "asleep"} /\ Timed(reader[r]) /\ Return(r)

\* sched_wait on the event.
sched_wait(r) ==
  /\ reader[r].phase = "released"
  /\ reader' = [reader EXCEPT ![r].phase = IF event THEN "woken" ELSE "asleep"]
  /\ UNCHANGED <<termios, line, read_buf, event, typed, unread>>

Next ==
  \/ \E c \in Keys : receive_char(c)
  \/ TCSETS
  \/ \E r \in Readers :
       \/ \E len \in Reads : read(r, len)
       \/ sched_wait(r)
       \/ Again(r)
       \/ TimedOut(r)

-----------------------------------------------------------------------------
\* poll says that there is something to read.
poll == IF termios.icanon THEN check_line > 0 ELSE ringbuffer_available(read_buf) > 0

\* What was accepted is read once, in order, and nothing else is; a reader that
\* misses input was robbed of the signal by another reader; only vmin beyond the
\* caller's buffer makes a read spin; and what poll announces a read gets.
InputIsWhole ==
  /\ unread = Unread(read_buf)
  /\ \A r \in Readers :
       /\ reader[r].got <= reader[r].len
       /\ reader[r].phase \in {"released", "asleep"} /\ ~reader[r].robbed /\ unread # <<>> =>
            reader[r].phase = "released" /\ event
       /\ reader[r].phase = "spinning" => reader[r].mode.vmin > reader[r].len
  /\ poll => unread # <<>>
=============================================================================
