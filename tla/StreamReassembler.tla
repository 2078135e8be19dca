------------------------- MODULE StreamReassembler -------------------------
(***************************************************************************)
(* libsponge/stream_reassembler.{hh,cc}: puts substrings that arrive out   *)
(* of order, overlapping or repeated back into one ByteStream.             *)
(*                                                                         *)
(* m_exist is the set of stream indices the map marks true, m_char the     *)
(* bytes kept for indices that arrived early; neither is ever shrunk.  The *)
(* two loops of push_substring() walk over consecutive indices, so each is *)
(* given by the index it starts at and the index it stops at.              *)
(***************************************************************************)
EXTENDS ByteStream, FiniteSets

\* StreamReassembler(capacity)
NewReassembler(capacity) ==
  [output |-> NewByteStream(capacity), capacity |-> capacity,
   first_unassembled |-> 0, unassembled |-> 0, eof |-> FALSE,
   m_exist |-> {}, m_char |-> <<>>]

unassembled_bytes(r) == r.unassembled
empty(r) == unassembled_bytes(r) = 0

\* Slip: the capacity is counted from the first unassembled byte, as if what
\* the reader has not consumed took no room.
Limit_from_unassembled(r) == r.first_unassembled + r.capacity

\* first_unread + _capacity: the first index that is silently discarded.
Limit(r) == r.output.read_count + r.capacity

\* The indices the for loop looks at before it ends or breaks off.
Span(r, data, index) == index .. AtMost(index + Len(data), Limit(r)) - 1

\* The for loop moves first_unassembled along with the substring if it meets
\* it: bytes that are new are written directly, bytes already stored are
\* taken from m_char.
Reached(r, data, index) ==
  IF r.first_unassembled \in Span(r, data, index)
  THEN AtMost(index + Len(data), Limit(r)) ELSE r.first_unassembled

\* New bytes the for loop cannot write yet and puts in m_char.
Stored(r, data, index) ==
  Span(r, data, index)
    \ (r.m_exist \cup r.first_unassembled .. Reached(r, data, index) - 1)

\* Where a run of consecutive members of present that starts at n ends.
RunEnd(present, n) ==
  CHOOSE m \in {n} \cup {c + 1 : c \in present} :
    m >= n /\ m \notin present /\ n .. m - 1 \subseteq present

\* Slip: no while loop.
Drained_not(r, data, index) == Reached(r, data, index)

\* The while loop drains stored bytes, but only if the index right after the
\* substring is the one that is due.
Drained(r, data, index) ==
  LET reached == Reached(r, data, index)
  IN  IF reached = index + Len(data)
      THEN RunEnd(r.m_exist \cup Span(r, data, index), reached) ELSE reached

\* Of two versions of a byte the first to arrive is used.
ByteAt(r, data, index, c) ==
  IF c \in r.m_exist THEN r.m_char[c] ELSE data[c - index + 1]

ToWrite(r, data, index) ==
  [k \in 1 .. Drained(r, data, index) - r.first_unassembled |->
     ByteAt(r, data, index, r.first_unassembled + k - 1)]

\* Slip: a stored byte stays counted after it was passed on.
Unassembled_no_decrement(r, data, index) ==
  r.unassembled + Cardinality(Stored(r, data, index))

\* unassembled: up for each byte stored, down for each stored byte passed on.
Unassembled(r, data, index) ==
  LET passed == r.first_unassembled .. Drained(r, data, index) - 1
  IN  r.unassembled + Cardinality(Stored(r, data, index))
                    - Cardinality(passed \cap r.m_exist)

\* Slip: believes the flag of a substring whose end was discarded.
Eof_unchecked(r, data, index, is_eof) == r.eof \/ is_eof

\* _eof is set only if no byte of the last substring was discarded.
Eof(r, data, index, is_eof) ==
  r.eof \/ (is_eof /\ index + Len(data) <= Limit(r))

push_substring(r, data, index, is_eof) ==
  LET stored == Stored(r, data, index)
      output == write(r.output, ToWrite(r, data, index))
      ends   == Unassembled(r, data, index) = 0 /\ Eof(r, data, index, is_eof)
  IN  [r EXCEPT
         !.output = IF ends THEN end_input(output) ELSE output,
         !.first_unassembled = Drained(r, data, index),
         !.unassembled = Unassembled(r, data, index),
         !.eof = Eof(r, data, index, is_eof),
         !.m_exist = @ \cup Span(r, data, index),
         !.m_char = [c \in DOMAIN @ \cup stored |->
                       IF c \in stored THEN data[c - index + 1] ELSE @[c]]]
=============================================================================
