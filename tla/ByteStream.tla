----------------------------- MODULE ByteStream -----------------------------
(***************************************************************************)
(* libsponge/byte_stream.{hh,cc}: a bounded, in-order byte stream.  A      *)
(* stream is a record; each method of the class is an operator that maps   *)
(* the record before the call to the record after it.  The operators are   *)
(* shared by every component that owns a stream.                           *)
(***************************************************************************)
EXTENDS Integers, Sequences

\* ByteStream(capacity)
NewByteStream(capacity) ==
  [buffer |-> <<>>, capacity |-> capacity, read_count |-> 0,
   write_count |-> 0, input_ended |-> FALSE, error |-> FALSE]

AtMost(len, limit) == IF len > limit THEN limit ELSE len

buffer_size(s) == Len(s.buffer)
buffer_empty(s) == buffer_size(s) = 0
remaining_capacity(s) == s.capacity - buffer_size(s)
input_ended(s) == s.input_ended

\* Slip: at its end before everything was read.
eof_when_ended(s) == input_ended(s)

eof(s) == buffer_empty(s) /\ input_ended(s)

\* Slip: the buffer takes everything it is given.
write_unbounded(s, data) ==
  [s EXCEPT !.buffer = @ \o data, !.write_count = @ + Len(data)]

\* write(data): stores as much as fits and drops the rest; neither the end of
\* input nor an error stops it.
write(s, data) ==
  LET len == AtMost(Len(data), remaining_capacity(s))
  IN  [s EXCEPT !.buffer = @ \o SubSeq(data, 1, len),
                !.write_count = @ + len]

peek_output(s, len) == SubSeq(s.buffer, 1, AtMost(len, buffer_size(s)))

pop_output(s, len) ==
  LET length == AtMost(len, buffer_size(s))
  IN  [s EXCEPT !.buffer = SubSeq(@, length + 1, Len(@)),
                !.read_count = @ + length]

end_input(s) == [s EXCEPT !.input_ended = TRUE]
set_error(s) == [s EXCEPT !.error = TRUE]
=============================================================================
