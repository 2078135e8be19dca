----------------------------- MODULE StreamCopy -----------------------------
(***************************************************************************)
(* apps/bidirectional_stream_copy.cc: copies standard input to a socket    *)
(* and the socket to standard output, through two ByteStreams and the four *)
(* rules of an EventLoop.  c is the copy with the descriptors it uses.     *)
(***************************************************************************)
EXTENDS ByteStream

CONSTANT max_copy_length     \* the most bytes one callback writes

\* The pipes and the socket hold up to room bytes.  At the end of its bytes a
\* file can be read, and gives none; a pipe hangs up.
NewCopy(size, room, kind) ==
  [outbound |-> NewByteStream(size), inbound |-> NewByteStream(size),
   outbound_shutdown |-> FALSE, inbound_shutdown |-> FALSE,
   kind |-> kind, room |-> room,
   input |-> <<>>, input_over |-> FALSE, input_eof |-> FALSE,
   to_socket |-> <<>>, from_socket |-> <<>>, far_shut |-> FALSE, far_gone |-> FALSE,
   socket_eof |-> FALSE,
   output |-> <<>>, output_closed |-> FALSE, output_broken |-> FALSE, failed |-> FALSE]

StdinIn == 1
SocketOut == 2
SocketIn == 3
StdoutOut == 4
CopyRules == {StdinIn, SocketOut, SocketIn, StdoutOut}

CanFill(s, other) ==
  ~s.error /\ remaining_capacity(s) > 0 /\ ~other.error

\* Slip: the end is passed on again and again.
CanDrain_again(s, is_shutdown) == ~buffer_empty(s) \/ eof(s)

CanDrain(s, is_shutdown) ==
  ~buffer_empty(s) \/ (eof(s) /\ ~is_shutdown)

Interest(c, r) ==
  CASE r = StdinIn -> CanFill(c.outbound, c.inbound)
    [] r = SocketOut -> CanDrain(c.outbound, c.outbound_shutdown)
    [] r = SocketIn -> CanFill(c.inbound, c.outbound)
    [] r = StdoutOut -> CanDrain(c.inbound, c.inbound_shutdown)

\* Rules 1 and 3: FileDescriptor::read() takes what there is, up to the room in
\* the stream; nothing at all is the end.
Readable(s, source) ==
  SubSeq(source, 1, AtMost(Len(source), remaining_capacity(s)))
Filled(s, source) ==
  LET data == Readable(s, source)
  IN  IF data = <<>> THEN end_input(s) ELSE write(s, data)
Rest(s, source) ==
  SubSeq(source, Len(Readable(s, source)) + 1, Len(source))

TakeInput(c) ==
  [c EXCEPT !.outbound = Filled(@, c.input), !.input = Rest(c.outbound, @),
            !.input_eof = c.input = <<>>]
TakeFromSocket(c) ==
  [c EXCEPT !.inbound = Filled(@, c.from_socket), !.from_socket = Rest(c.inbound, @),
            !.socket_eof = c.from_socket = <<>>]

\* Rules 2 and 4: at most max_copy_length bytes are tried, and a write takes those
\* that fit; only what was written is popped.
Writable(s, target, room) ==
  AtMost(AtMost(max_copy_length, buffer_size(s)), room - Len(target))

\* The end goes on to the socket, and bytes for one that is gone raise EPIPE.
GiveToSocket(c) ==
  LET n == Writable(c.outbound, c.to_socket, c.room)
      after == pop_output(c.outbound, n)
  IN  IF c.far_gone /\ ~buffer_empty(c.outbound) THEN [c EXCEPT !.failed = TRUE]
      ELSE [c EXCEPT !.outbound = after, !.to_socket = @ \o peek_output(c.outbound, n),
                     !.outbound_shutdown = @ \/ eof(after)]

GiveOutput(c) ==
  LET n == Writable(c.inbound, c.output, c.room)
      after == pop_output(c.inbound, n)
  IN  [c EXCEPT !.inbound = after, !.output = @ \o peek_output(c.inbound, n),
                !.output_closed = eof(after), !.inbound_shutdown = @ \/ eof(after)]

Callback(c, r) ==
  CASE r = StdinIn -> TakeInput(c)
    [] r = SocketOut -> GiveToSocket(c)
    [] r = SocketIn -> TakeFromSocket(c)
    [] r = StdoutOut -> GiveOutput(c)

Cancel(c, r) ==
  IF r \in {StdinIn, SocketOut} THEN [c EXCEPT !.outbound = end_input(@)]
  ELSE [c EXCEPT !.inbound = end_input(@)]

Reads(r) == r \in {StdinIn, SocketIn}
AtEof(c, r) == IF r = StdinIn THEN c.input_eof ELSE c.socket_eof
Closed(c, r) == r = StdoutOut /\ c.output_closed
Serves(c, r) == TRUE

\* What poll(2) says of a pipe or a file, of a socket and of a pipe.
Ready(c, r) ==
  CASE r = StdinIn -> c.input # <<>> \/ (c.input_over /\ c.kind = "file")
    [] r = SocketOut -> c.far_gone \/ Len(c.to_socket) < c.room
    [] r = SocketIn -> c.from_socket # <<>> \/ c.far_shut \/ c.far_gone
    [] r = StdoutOut -> Len(c.output) < c.room
Hup(c, r) ==
  CASE r = StdinIn -> c.input_over /\ c.kind = "pipe"
    [] r \in {SocketOut, SocketIn} -> c.far_gone \/ (c.far_shut /\ c.outbound_shutdown)
    [] r = StdoutOut -> FALSE
PollError(c, r) == r = StdoutOut /\ c.output_broken

Loop == INSTANCE EventLoop WITH RuleCount <- 4
=============================================================================
