----------------------------- MODULE FdAdapter -----------------------------
(***************************************************************************)
(* libsponge/tcp_helpers/{fd_adapter,tcp_over_ip,tuntap_adapter}.*: which  *)
(* of the packets that arrive belong to the connection, and where its      *)
(* segments go.  A packet has the addresses (ip, port) it is from and to.  *)
(* Over UDP the kernel has checked the destination; over IP nobody has.    *)
(***************************************************************************)
EXTENDS TCPSegment

NewAdapter(kind, source, destination, listening) ==
  [kind |-> kind, source |-> source, destination |-> destination,
   listening |-> listening]

Packet(from, to, seg) == [from |-> from, to |-> to, seg |-> seg]

\* "is it for us?", "from our peer?"
ForUs(a, p) ==
  \/ a.kind = "udp"
  \/ (a.listening \/ p.to.ip = a.source.ip) /\ p.to.port = a.source.port

FromPeer(a, p) == a.listening \/ p.from = a.destination

\* "should we target this source in all future replies?"
Opens(seg) == seg.syn /\ ~seg.rst

\* Slip: the peer's port is not looked at.
Accepts_any_port(a, p) ==
  ForUs(a, p) /\ (a.listening \/ p.from.ip = a.destination.ip) /\ (a.listening => Opens(p.seg))

Accepts(a, p) == ForUs(a, p) /\ FromPeer(a, p) /\ (a.listening => Opens(p.seg))

\* read(): the adapter afterwards; a listening one has found its peer.
adapter_read(a, p) ==
  IF ~(a.listening /\ Accepts(a, p)) THEN a
  ELSE [a EXCEPT !.destination = p.from, !.listening = FALSE,
                 !.source = IF a.kind = "udp" THEN @ ELSE p.to]

\* write(seg)
adapter_write(a, seg) == Packet(a.source, a.destination, seg)
=============================================================================
