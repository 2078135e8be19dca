-------------------------- MODULE TCPSpongeSocket --------------------------
(***************************************************************************)
(* libsponge/tcp_helpers/tcp_sponge_socket.{hh,cc}: the four rules of the  *)
(* event loop that connects a TCPConnection to datagrams on one side and   *)
(* to a pair of Unix sockets on the other, at whose far end is the owner.  *)
(* w is the state of the thread that runs the loop, with the socket pair   *)
(* and the packets that have arrived; sent is what a rule has handed to    *)
(* the network.                                                            *)
(***************************************************************************)
EXTENDS TCPState, FdAdapter

CONSTANT MaxPassedOn     \* the most bytes rule 3 tries to write, 65536

\* The constructor and _initialize_TCP().  Each direction of the socket pair
\* holds up to room bytes; shut is SHUT_WR of one end, SHUT_RD of the other.
NewSocket(tcp, adapter, room) ==
  [tcp |-> tcp, adapter |-> adapter, inbox |-> <<>>, sent |-> <<>>,
   to_thread |-> <<>>, to_owner |-> <<>>, room |-> room,
   out_shut |-> FALSE, in_shut |-> FALSE,
   eof |-> FALSE, outbound_shutdown |-> FALSE, inbound_shutdown |-> FALSE,
   failed |-> FALSE]

Inbound(w) == inbound_stream(w.tcp)
OutboundCapacity(w) == remaining_capacity(w.tcp.sender.stream)

DatagramIn == 1
OwnerIn == 2
OwnerOut == 3
DatagramOut == 4
Rules == {DatagramIn, OwnerIn, OwnerOut, DatagramOut}

\* The interests of rules 1 and 3.  Slips: datagrams stay interesting when the
\* connection is over; the end of the stream is no news.
TakesDatagrams_always(w) == TRUE
HasNews_bytes_only(w) == ~buffer_empty(Inbound(w))

TakesDatagrams(w) == w.tcp.active
HasNews(w) ==
  \/ ~buffer_empty(Inbound(w))
  \/ (eof(Inbound(w)) \/ Inbound(w).error) /\ ~w.inbound_shutdown

Interest(w, r) ==
  CASE r = DatagramIn -> TakesDatagrams(w)
    [] r = OwnerIn -> w.tcp.active /\ ~w.outbound_shutdown /\ OutboundCapacity(w) > 0
    [] r = OwnerOut -> HasNews(w)
    [] r = DatagramOut -> w.tcp.segments_out # <<>>

\* Rule 1: a packet of this connection goes to it, any other is dropped.
TakeDatagram(w) ==
  LET p == Head(w.inbox)
  IN  [w EXCEPT !.inbox = Tail(@),
                !.adapter = adapter_read(@, p),
                !.tcp = IF Accepts(w.adapter, p) THEN segment_received(@, p.seg) ELSE @]

EndOutbound(w) ==
  [w EXCEPT !.tcp = end_input_stream(@), !.outbound_shutdown = TRUE]

\* Slip: a shutdown counts as the end though bytes are still in the pipe.
TakeFromOwner_drops_last(w) ==
  IF w.out_shut THEN EndOutbound([w EXCEPT !.to_thread = <<>>, !.eof = TRUE])
  ELSE [w EXCEPT !.tcp = connection_write(@, w.to_thread), !.to_thread = <<>>]

\* Rule 2.  No data at all means that the owner has shut its side down; a
\* write that took less than the capacity it had announced would throw.
TakeFromOwner(w) ==
  LET data == SubSeq(w.to_thread, 1, AtMost(Len(w.to_thread), OutboundCapacity(w)))
      written == connection_write(w.tcp, data)
      taken == written.sender.stream.write_count - w.tcp.sender.stream.write_count
      after == [w EXCEPT !.tcp = written, !.failed = taken # Len(data),
                         !.to_thread = SubSeq(@, Len(data) + 1, Len(@)),
                         !.eof = data = <<>>]
  IN  IF after.eof THEN EndOutbound(after) ELSE after

\* The end of rule 3: the owner is told when nothing more will come.
TellEnd(w, over) ==
  IF over THEN [w EXCEPT !.in_shut = TRUE, !.inbound_shutdown = TRUE] ELSE w

Fitting(w) ==
  AtMost(AtMost(MaxPassedOn, buffer_size(Inbound(w))), w.room - Len(w.to_owner))

\* Rule 3: as much as fits goes to the owner.  Bytes for a socket that is shut
\* down raise EPIPE, and SIGPIPE before that.
PassOn(w, popped) ==
  [w EXCEPT !.to_owner = @ \o peek_output(Inbound(w), Fitting(w)),
            !.tcp.receiver.reassembler.output = pop_output(@, popped),
            !.failed = w.in_shut /\ ~buffer_empty(Inbound(w))]

\* Slips: the bytes that did not fit are popped too; the owner is told when
\* the peer's end is known and not yet read.
GiveToOwner_pops_all(w) ==
  LET after == PassOn(w, buffer_size(Inbound(w)))
  IN  TellEnd(after, eof(Inbound(after)) \/ Inbound(after).error)
GiveToOwner_early_end(w) ==
  LET after == PassOn(w, Fitting(w))
  IN  TellEnd(after, input_ended(Inbound(after)) \/ Inbound(after).error)

GiveToOwner(w) ==
  LET after == PassOn(w, Fitting(w))
  IN  TellEnd(after, eof(Inbound(after)) \/ Inbound(after).error)

\* Rule 4: everything in segments_out is sent.
SendDatagrams(w) ==
  [w EXCEPT !.tcp.segments_out = <<>>,
            !.sent = [i \in DOMAIN w.tcp.segments_out |->
                        adapter_write(w.adapter, w.tcp.segments_out[i])]]

Callback(w, r) ==
  CASE r = DatagramIn -> TakeDatagram(w)
    [] r = OwnerIn -> TakeFromOwner(w)
    [] r = OwnerOut -> GiveToOwner(w)
    [] r = DatagramOut -> SendDatagrams(w)

Cancel(w, r) == IF r = OwnerIn THEN EndOutbound(w) ELSE w

\* Only rule 2's descriptor ever comes to its end; none is closed or in error.
Reads(r) == r \in {DatagramIn, OwnerIn}
AtEof(w, r) == r = OwnerIn /\ w.eof
Closed(w, r) == FALSE
PollError(w, r) == FALSE
Serves(w, r) == r # DatagramOut \/ w.tcp.segments_out # <<>>

\* What poll(2) says of a datagram socket and of one end of a socket pair.
Ready(w, r) ==
  CASE r = DatagramIn -> w.inbox # <<>>
    [] r = OwnerIn -> w.to_thread # <<>> \/ w.out_shut
    [] r = OwnerOut -> Len(w.to_owner) < w.room
    [] r = DatagramOut -> TRUE
Hup(w, r) == r \in {OwnerIn, OwnerOut} /\ w.out_shut /\ w.in_shut

Loop == INSTANCE EventLoop WITH RuleCount <- 4

ShutBoth(w) == [w EXCEPT !.out_shut = TRUE, !.in_shut = TRUE]

\* The end of _tcp_main(): the connection is destroyed, and with it whatever
\* it still had to send.
TearDown(w) == ShutBoth([w EXCEPT !.tcp = [destroy(@) EXCEPT !.segments_out = <<>>]])

\* connect() waits for the end of SYN_SENT; listen_and_accept() for that of
\* LISTEN, SYN_RCVD and SYN_SENT.
StillOpening(w, role) ==
  state(w.tcp) \in { Official[name] : name \in
    IF role = "connect" THEN {"SYN_SENT"} ELSE {"LISTEN", "SYN_RCVD", "SYN_SENT"} }
=============================================================================
