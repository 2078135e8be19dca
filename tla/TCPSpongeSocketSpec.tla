------------------------ MODULE TCPSpongeSocketSpec ------------------------
(***************************************************************************)
(* A TCPSpongeSocket: the thread of its owner, the thread of the TCP       *)
(* connection, the socket pair between the two, and a peer built from the  *)
(* same TCPConnection, whose segments arrive in order and who may go away. *)
(*                                                                         *)
(* The owner's calls and the turns of the event loop interleave.  The peer *)
(* answers at once, and time passes for both connections alike, while the  *)
(* loop finds nothing to call back: callbacks take no time.                *)
(***************************************************************************)
EXTENDS TCPSpongeSocket

Sequence == INSTANCE SequencesExt

CONSTANTS
  Scenarios,       \* role, adapter, room, the owner's bytes, strays, who may go away
  PeerBytes,       \* what the peer writes
  Addresses,       \* of the socket and its peer
  Capacity,        \* of every stream
  Isn,
  TickStep         \* TCP_TICK_MS

VARIABLES
  scenario,
  w,          \* the socket, see TCPSpongeSocket
  loop,       \* the event loop: rules left, results to handle, time since the last tick
  thread,     \* "calling" connect() or listen_and_accept(), "running", "finished", "failed"
  owner,      \* the owner's thread
  peer,       \* the peer's TCPConnection
  stray       \* packets of other connections that have not arrived yet

vars == <<scenario, w, loop, thread, owner, peer, stray>>

FromPeers(segs) == [i \in DOMAIN segs |-> Packet(Addresses.peer, Addresses.socket, segs[i])]

\* The peer has handled something: what it has to say arrives, and its own
\* owner reads what it got.
Heard(world, p) ==
  [world EXCEPT !.sent = <<>>, !.inbox = @ \o FromPeers(p.segments_out)]
Rested(p) ==
  [p EXCEPT !.segments_out = <<>>,
            !.receiver.reassembler.output = pop_output(@, buffer_size(@))]

PeerAfter(world, p) == w' = Heard(world, p) /\ peer' = Rested(p)

PeerReceives(world) ==
  PeerAfter(world, Sequence!FoldLeft(LAMBDA p, packet : segment_received(p, packet.seg), peer, world.sent))

Init ==
  LET connection == NewConnection(Capacity, Capacity, Isn)
      opening == connect(connection)
      idle(s) == NewSocket(IF s.role = "connect" THEN opening ELSE connection,
                           NewAdapter(s.kind, Addresses.socket,
                                      IF s.role = "connect" THEN Addresses.peer ELSE Addresses.any,
                                      s.role = "listen"),
                           s.room)
  IN  /\ scenario \in Scenarios
      /\ \E early \in {<<>>} \cup {<<p>> : p \in scenario.stray} :
           /\ stray = scenario.stray \ {early[i] : i \in DOMAIN early}
           /\ w = [idle(scenario) EXCEPT !.inbox = early \o
                     IF scenario.role = "listen" THEN FromPeers(opening.segments_out)
                     ELSE <<>>]
      /\ peer = IF scenario.role = "listen"
                THEN [opening EXCEPT !.segments_out = <<>>] ELSE connection
      /\ loop = [rules |-> Rules, todo |-> <<>>, elapsed |-> 0]
      /\ thread = "calling"
      /\ owner = [at |-> "calling", wrote |-> 0, read |-> <<>>, saw_eof |-> FALSE, abort |-> FALSE]

-----------------------------------------------------------------------------
(* The thread that runs _tcp_loop(): the owner's until connect() or
   listen_and_accept() returns, then the TCP thread. *)
Looping == thread \in {"calling", "running"}

\* The loop ends: connect() starts the thread and returns, or _tcp_main() ends.
Left(world) ==
  [w |-> IF thread = "calling" THEN world ELSE TearDown(world),
   peer |-> peer, loop |-> [loop EXCEPT !.elapsed = 0],
   thread |-> IF thread = "calling" THEN "running" ELSE "finished",
   owner |-> IF thread = "calling" THEN [owner EXCEPT !.at = "open"] ELSE owner]

\* The time to tell: what poll(2) waited for, if it timed out.
Elapsed(results) == IF \E r \in DOMAIN results : results[r].ready THEN 0 ELSE TickStep

\* A turn of _tcp_loop(), from the return of one wait_next_event() to the poll
\* of the next: out of the loop, or the clocks are told the time, and what is
\* ready is put on the list.
Listed(results) ==
  [rules |-> DOMAIN results, todo |-> Loop!Effective(results), elapsed |-> Elapsed(results)]

Polled(set, answer) ==
  IF ~Loop!SomethingToPoll(set) THEN Left(set.w)
  ELSE [w |-> set.w, peer |-> Rested(answer), thread |-> thread, owner |-> owner,
        loop |-> Listed(Loop!Poll(set))]

Told(ticked, answer) ==
  IF thread = "calling" /\ ~StillOpening(ticked, scenario.role) THEN Left(ticked)
  ELSE Polled(Loop!SetUp(Heard(ticked, answer), loop.rules), answer)

Turned ==
  IF owner.abort THEN Left(w)
  ELSE Told([w EXCEPT !.tcp = connection_tick(@, loop.elapsed)],
            connection_tick(peer, loop.elapsed))

Turn ==
  /\ Looping /\ DOMAIN loop.todo = {}
  /\ \E to \in {Turned} :
       /\ w' = to.w /\ peer' = to.peer /\ loop' = to.loop
       /\ thread' = to.thread /\ owner' = to.owner
  /\ UNCHANGED <<scenario, stray>>

\* One result of the poll.  An exception ends the thread and the program.
HandleResult ==
  LET r == Loop!First(loop.todo)
      result == loop.todo[r]
  IN  /\ Looping /\ DOMAIN loop.todo # {}
      /\ loop' = [loop EXCEPT !.todo = Loop!Others(@, r),
                              !.rules = Loop!Left(@, r, result)]
      /\ \E after \in {Loop!Handle(w, r, result)} :
           /\ thread' = IF after.failed \/ Loop!Throws(w, after, r, result)
                        THEN "failed" ELSE thread
           /\ PeerReceives(after)
      /\ UNCHANGED <<scenario, owner, stray>>

-----------------------------------------------------------------------------
(* The owner, once connect() or listen_and_accept() has returned. *)
OwnerDoes(at) ==
  /\ owner.at = "open"
  /\ owner' = [owner EXCEPT !.at = at]
  /\ UNCHANGED <<scenario, loop, thread, peer, stray>>

OwnerWrite ==
  /\ owner.at = "open" /\ ~w.out_shut
  /\ owner.wrote < Len(scenario.bytes) /\ Len(w.to_thread) < w.room
  /\ owner' = [owner EXCEPT !.wrote = @ + 1]
  /\ w' = [w EXCEPT !.to_thread = Append(@, scenario.bytes[owner.wrote + 1])]
  /\ UNCHANGED <<scenario, loop, thread, peer, stray>>

\* shutdown(SHUT_WR)
OwnerEnd ==
  /\ ~w.out_shut
  /\ w' = [w EXCEPT !.out_shut = TRUE]
  /\ OwnerDoes("open")

OwnerRead ==
  /\ owner.at = "open" /\ ~owner.saw_eof
  /\ w.to_owner # <<>> \/ w.in_shut
  /\ owner' = [owner EXCEPT !.read = @ \o w.to_owner, !.saw_eof = w.to_owner = <<>>]
  /\ w' = [w EXCEPT !.to_owner = <<>>]
  /\ UNCHANGED <<scenario, loop, thread, peer, stray>>

\* wait_until_closed(), called as its comment advises: after EOF.
WaitUntilClosed ==
  /\ owner.saw_eof
  /\ w' = ShutBoth(w)
  /\ OwnerDoes("joining")

\* ~TCPSpongeSocket() without it.
Destruct ==
  /\ scenario.drops /\ owner.at = "open"
  /\ owner' = [owner EXCEPT !.at = "joining", !.abort = TRUE]
  /\ UNCHANGED <<scenario, w, loop, thread, peer, stray>>

Join ==
  /\ owner.at = "joining" /\ thread = "finished"
  /\ owner' = [owner EXCEPT !.at = "done"]
  /\ UNCHANGED <<scenario, w, loop, thread, peer, stray>>

-----------------------------------------------------------------------------
(* The peer, and packets of other connections. *)
PeerOpen == peer.active /\ has_ackno(peer.receiver) /\ ~input_ended(peer.sender.stream)

PeerWrite ==
  /\ PeerOpen /\ peer.sender.stream.write_count = 0
  /\ PeerAfter(w, connection_write(peer, PeerBytes))
  /\ UNCHANGED <<scenario, loop, thread, owner, stray>>

PeerEnd ==
  /\ PeerOpen /\ peer.sender.stream.write_count = Len(PeerBytes)
  /\ PeerAfter(w, end_input_stream(peer))
  /\ UNCHANGED <<scenario, loop, thread, owner, stray>>

\* The peer resets the connection, or is not heard of any more.
PeerGoes(rst) ==
  /\ scenario.goes /\ peer.active
  /\ PeerAfter(w, IF rst THEN unclean_shutdown(peer, TRUE) ELSE [peer EXCEPT !.active = FALSE])
  /\ UNCHANGED <<scenario, loop, thread, owner, stray>>

\* Bound: it arrives when nothing else is waiting.
StrayArrives(p) ==
  /\ Looping /\ w.inbox = <<>>
  /\ stray' = stray \ {p}
  /\ w' = [w EXCEPT !.inbox = Append(@, p)]
  /\ UNCHANGED <<scenario, loop, thread, owner, peer>>

Thread == Turn \/ HandleResult

Next ==
  \/ Turn
  \/ HandleResult
  \/ OwnerWrite
  \/ OwnerEnd
  \/ OwnerRead
  \/ WaitUntilClosed
  \/ Destruct
  \/ Join
  \/ PeerWrite
  \/ PeerEnd
  \/ \E rst \in BOOLEAN : PeerGoes(rst)
  \/ \E p \in stray : StrayArrives(p)

Spec == Init /\ [][Next]_vars

\* The loop goes round without anything changing: it waits for someone else.
Waiting ==
  /\ DOMAIN loop.todo = {}
  /\ Turned = [w |-> w, peer |-> peer, thread |-> thread, owner |-> owner, loop |-> loop]

CanRead ==
  owner.at = "open" /\ ~owner.saw_eof /\ (w.to_owner # <<>> \/ w.in_shut)

\* The operating system runs both threads, and the owner reads what it gets.
Fairness ==
  /\ []<>(~Looping \/ Waiting) \/ []<><<Thread>>_vars
  /\ []<>(~CanRead) \/ []<><<OwnerRead>>_vars
  /\ []<>(owner.at # "joining" \/ thread # "finished") \/ []<><<Join>>_vars

FairSpec == Spec /\ Fairness

-----------------------------------------------------------------------------
\* No exception leaves the event loop: no write takes less than was read for
\* it, no rule spins, and no byte is written to a socket that is shut down
\* (tcp_sponge_socket.cc:103, :133, eventloop.cc:136).
NoException == thread # "failed"

\* Bytes move between socket pair and streams in order, none lost and none
\* twice, through partial writes and short reads.
PassedOnInOrder ==
  /\ owner.read \o w.to_owner \o Inbound(w).buffer
       = SubSeq(PeerBytes, 1, Inbound(w).write_count)
  /\ w.to_thread
       = SubSeq(scenario.bytes, w.tcp.sender.stream.write_count + 1, owner.wrote)

\* Unless the connection was reset, both ends of it mean that all is there: an
\* owner that reads EOF has read all that the peer wrote, and what the owner
\* wrote has arrived when wait_until_closed() returns.
EndsMeanDelivered ==
  ~Inbound(w).error =>
    /\ owner.saw_eof => input_ended(peer.sender.stream) /\ owner.read = PeerBytes
    /\ owner.at = "done" => inbound_stream(peer).write_count = owner.wrote

\* Nothing but its own peer, or its owner, breaks a connection: packets of
\* other connections do not get through the adapter.
OnlyPeerResets == Inbound(w).error => ~peer.active \/ owner.abort

\* Every call returns, whatever becomes of the peer: connect() and
\* listen_and_accept(), and wait_until_closed() and the destructor, for which
\* the TCP thread has to end.
CallsReturn ==
  /\ (thread = "calling") ~> (thread # "calling")
  /\ (owner.at = "joining") ~> (owner.at = "done")

\* When the peer has sent its FIN, a reading owner gets to the end of the stream.
EndReachesOwner ==
  peer.sender.fin ~> (owner.saw_eof \/ owner.at # "open")
=============================================================================
