---------------------------- MODULE TCPPairSpec ----------------------------
(***************************************************************************)
(* Two TCPConnections, their owners, and the network between them, which   *)
(* may lose, duplicate and reorder segments (as LossyFdAdapter and         *)
(* apps/tcp_benchmark.cc do).  Each owner calls its connection the way     *)
(* TCPSpongeSocket does: it writes and ends its stream, reads what         *)
(* arrives, lets time pass, and hands over segments.                       *)
(***************************************************************************)
EXTENDS TCPState

CONSTANTS
  Ends,            \* the two ends
  Streams,         \* the bytes each end's owner writes
  Isns,            \* each end's initial sequence number
  Openers,         \* the ends that open actively; the others listen
  RecvCapacity, SendCapacity,
  MaxNet,          \* bound: segments on their way in one direction
  Conditions       \* what a behaviour may run into: see Condition

\* May the network lose segments, may they overtake and be duplicated, which
\* ends' owners may drop their connection at any time, and how much time passes
\* between two calls of tick().
Condition(lossy, reordering, destroyable, tick) ==
  [lossy |-> lossy, reordering |-> reordering, destroyable |-> destroyable,
   tick |-> tick]

ASSUME PairAssumption ==
  /\ Ends # {} /\ Openers \subseteq Ends
  /\ Isns \in [Ends -> SeqNos]
  /\ RecvCapacity \in Nat \ {0} /\ SendCapacity \in Nat \ {0}
  /\ MaxNet \in Nat \ {0}
  /\ \A c \in Conditions :
       /\ c.lossy \in BOOLEAN /\ c.reordering \in BOOLEAN
       /\ c.destroyable \subseteq Ends /\ c.tick \in Nat \ {0}

VARIABLES
  given,   \* the behaviour's condition
  conn,    \* each end's TCPConnection
  net      \* the segments on their way to each end, oldest first

vars == <<given, conn, net>>

Peer(e) == CHOOSE p \in Ends : p # e
N(e) == Len(Streams[e])

Init ==
  /\ given \in Conditions
  /\ conn = [e \in Ends |-> NewConnection(RecvCapacity, SendCapacity, Isns[e])]
  /\ net = [e \in Ends |-> <<>>]

Room(e, after) == Len(net[Peer(e)]) + Len(after.segments_out) <= MaxNet

\* A lossy network drops what is beyond MaxNet; another has to have room.
Fits(e, after) == given.lossy \/ Room(e, after)

\* After each call the owner takes what is in segments_out and sends it.
Call(e, after, inbox) ==
  LET onway == net[Peer(e)] \o after.segments_out
  IN  /\ conn' = [conn EXCEPT ![e] = [after EXCEPT !.segments_out = <<>>]]
      /\ net' = [net EXCEPT ![e] = inbox,
                            ![Peer(e)] = IF given.lossy
                              THEN SubSeq(onway, 1, AtMost(Len(onway), MaxNet))
                              ELSE onway]

OwnerCall(e, after) == Fits(e, after) /\ Call(e, after, net[e])

Connect(e) ==
  /\ e \in Openers /\ conn[e].sender.next_seqno = 0
  /\ OwnerCall(e, connect(conn[e]))

\* The owner writes the next len bytes, while the connection is open to it.
Write(e, len) ==
  LET at == conn[e].sender.stream.write_count
  IN  /\ conn[e].active /\ has_ackno(conn[e].receiver)
      /\ ~input_ended(conn[e].sender.stream)
      /\ len <= remaining_capacity(conn[e].sender.stream) /\ at + len <= N(e)
      /\ OwnerCall(e, connection_write(conn[e], SubSeq(Streams[e], at + 1, at + len)))

EndInput(e) ==
  /\ conn[e].active /\ has_ackno(conn[e].receiver)
  /\ ~input_ended(conn[e].sender.stream)
  /\ conn[e].sender.stream.write_count = N(e)
  /\ OwnerCall(e, end_input_stream(conn[e]))

\* The owner reads all there is; no segment tells the peer.
Read(e) ==
  /\ ~buffer_empty(inbound_stream(conn[e]))
  /\ conn' = [conn EXCEPT ![e].receiver.reassembler.output =
                pop_output(@, buffer_size(@))]
  /\ UNCHANGED net

Tick(e) ==
  /\ conn[e].active
  /\ OwnerCall(e, connection_tick(conn[e], given.tick))

\* The owner drops the connection.  The RST it makes stays in segments_out,
\* which is dropped with it (tcp_sponge_socket.hh:75).
Destroy(e) ==
  /\ e \in given.destroyable /\ conn[e].active
  /\ conn' = [conn EXCEPT ![e] = [destroy(@) EXCEPT !.segments_out = <<>>]]
  /\ UNCHANGED net

Without(segs, i) == SubSeq(segs, 1, i - 1) \o SubSeq(segs, i + 1, Len(segs))

\* A segment arrives; a copy may stay on its way.  Where segments overtake, the
\* bound holds an arrival back; one over a FIFO network never waits for room.
Receive(e, i, inbox) ==
  LET after == segment_received(conn[e], net[e][i])
  IN  /\ i \in 1 .. Len(net[e])
      /\ given.reordering => Fits(e, after)
      /\ Call(e, after, inbox)

Deliver(e) == Receive(e, 1, Tail(net[e]))
DeliverLate(e, i) == given.reordering /\ i > 1 /\ Receive(e, i, Without(net[e], i))
Duplicate(e) == given.reordering /\ Receive(e, 1, net[e])

Lose(e, i) ==
  /\ given.lossy /\ i \in 1 .. Len(net[e])
  /\ net' = [net EXCEPT ![e] = Without(@, i)]
  /\ UNCHANGED conn

Next ==
  /\ UNCHANGED given
  /\ \E e \in Ends :
       \/ Connect(e)
       \/ \E len \in 1 .. N(e) : Write(e, len)
       \/ EndInput(e)
       \/ Read(e)
       \/ Tick(e)
       \/ Destroy(e)
       \/ Deliver(e)
       \/ \E i \in 1 .. Len(net[e]) : DeliverLate(e, i)
       \/ Duplicate(e)
       \/ \E i \in 1 .. Len(net[e]) : Lose(e, i)

Spec == Init /\ [][Next]_vars

\* Exactly when Tick(e) changes something, over a lossless network.
CanTick(e) ==
  LET after == connection_tick(conn[e], given.tick)
  IN  conn[e].active /\ after # conn[e] /\ Room(e, after)

\* Time passes at each end, segments arrive, and the owners read: what the
\* event loop of TCPSpongeSocket does.  The enabling conditions are spelled
\* out, since TLC evaluates ENABLED of the handlers slowly.
Fairness ==
  \A e \in Ends :
    /\ []<>(~CanTick(e)) \/ []<><<Tick(e)>>_vars
    /\ []<>(net[e] = <<>>) \/ []<><<Deliver(e)>>_vars
    /\ []<>(buffer_empty(inbound_stream(conn[e]))) \/ []<><<Read(e)>>_vars

FairSpec == Spec /\ Fairness

-----------------------------------------------------------------------------
ClosedCleanly(e) == ~conn[e].active /\ ~inbound_stream(conn[e]).error

\* What has come in at e: its owner has read the first bytes, and the rest is
\* in the buffer.
Arrived(e) ==
  LET in == inbound_stream(conn[e])
  IN  SubSeq(Streams[Peer(e)], 1, in.read_count) \o in.buffer

Written(e) == SubSeq(Streams[e], 1, conn[e].sender.stream.write_count)
Ended(e) == input_ended(conn[e].sender.stream)
Told(e) == input_ended(inbound_stream(conn[e]))

\* A segment leaves the retransmission queue only when its bytes, and its FIN,
\* are safe with the other end: nothing else could bring them back.
AckedMeansReceived ==
  \A e \in Ends :
    LET s == conn[e].sender
        in == inbound_stream(conn[Peer(e)])
    IN  s.next_seqno - s.bytes_in_flight
          <= 1 + in.write_count
               + (IF in.input_ended /\ in.write_count = N(e) THEN 1 ELSE 0)

\* A connection that ended without a reset has delivered both streams whole.
CleanCloseMeansDelivered ==
  \A e \in Ends : ClosedCleanly(e) =>
    /\ inbound_stream(conn[e]).write_count = N(Peer(e))
    /\ inbound_stream(conn[Peer(e)]).write_count = N(e)

\* An end that closes before it has lingered can do so because the other one,
\* by then, needs no answer from it: its FIN is acknowledged.
NoLingerIsSafe ==
  \A e \in Ends :
    ClosedCleanly(e) /\ conn[e].time_since_last_segment_received < LingerTime =>
      \/ ~conn[Peer(e)].active
      \/ conn[Peer(e)].sender.fin /\ conn[Peer(e)].sender.bytes_in_flight = 0

\* The arrows of RFC 793's diagram.
Arrows ==
  { <<"LISTEN", "SYN_RCVD">>, <<"LISTEN", "SYN_SENT">>, <<"SYN_SENT", "SYN_RCVD">>,
    <<"SYN_SENT", "ESTABLISHED">>, <<"SYN_RCVD", "ESTABLISHED">>,
    <<"SYN_RCVD", "FIN_WAIT_1">>, <<"ESTABLISHED", "FIN_WAIT_1">>,
    <<"ESTABLISHED", "CLOSE_WAIT">>, <<"FIN_WAIT_1", "FIN_WAIT_2">>,
    <<"FIN_WAIT_1", "CLOSING">>, <<"FIN_WAIT_1", "TIME_WAIT">>,
    <<"FIN_WAIT_2", "TIME_WAIT">>, <<"CLOSING", "TIME_WAIT">>,
    <<"CLOSE_WAIT", "LAST_ACK">>, <<"LAST_ACK", "CLOSED">>, <<"TIME_WAIT", "CLOSED">> }
    \cup { <<s, "RESET">> : s \in DOMAIN Official \ {"CLOSED", "RESET"} }

Stay == { <<s, s>> : s \in DOMAIN Official }

\* One call may take up to three arrows: a segment can acknowledge the SYN,
\* carry the peer's FIN and let ours go out.
Paths ==
  { path \in (DOMAIN Official) \X (DOMAIN Official) :
      \E p, q \in DOMAIN Official :
        {<<path[1], p>>, <<p, q>>, <<q, path[2]>>} \subseteq Arrows \cup Stay }

Named(c) == { name \in DOMAIN Official : Official[name] = state(c) }

\* "To test that Sponge follows the TCP spec" (tcp_state.hh:19): each end is in
\* one of the official states, and each call takes it along the arrows.
FollowsRFC793 ==
  [][ \A e \in Ends :
        \E from \in Named(conn[e]), to \in Named(conn'[e]) : <<from, to>> \in Paths ]_vars

\* When both owners have ended their streams, both ends close in the end.
BothClose ==
  (\A e \in Ends : input_ended(conn[e].sender.stream))
    ~> (\A e \in Ends : ~conn[e].active)
=============================================================================
