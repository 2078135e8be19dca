----------------------------- MODULE TCPSegment -----------------------------
(***************************************************************************)
(* The parts of libsponge/tcp_helpers/tcp_segment.{hh,cc} and tcp_header.hh *)
(* that the TCP logic reads: ports, checksum, urgent pointer and offset    *)
(* are left out.                                                           *)
(***************************************************************************)
EXTENDS Integers, Sequences

\* TCPHeader's defaults, with an empty payload.
Segment ==
  [seqno |-> 0, ackno |-> 0, win |-> 0, syn |-> FALSE, ack |-> FALSE,
   fin |-> FALSE, rst |-> FALSE, payload |-> <<>>]

\* SYN and FIN each take one sequence number.
length_in_sequence_space(seg) ==
  Len(seg.payload) + (IF seg.syn THEN 1 ELSE 0) + (IF seg.fin THEN 1 ELSE 0)
=============================================================================
