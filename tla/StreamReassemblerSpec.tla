----------------------- MODULE StreamReassemblerSpec -----------------------
(***************************************************************************)
(* A StreamReassembler fed with pieces of one byte stream, in any order,   *)
(* any number of times and cut anywhere, while its owner reads.            *)
(***************************************************************************)
EXTENDS StreamReassembler, PeerStream

VARIABLES
  reassembler,
  read          \* every byte the owner has read

reassembler_vars == <<reassembler, read>>

ReassemblerInit ==
  /\ reassembler = NewReassembler(Capacity)
  /\ read = <<>>

\* The len bytes of the stream that start at index; eof may only be claimed
\* by a substring that reaches the end of the stream, which may have no byte.
Push(index, len, is_eof) ==
  /\ is_eof => index + len = N
  /\ reassembler' =
       push_substring(reassembler, SubSeq(Stream, index + 1, index + len),
                      index, is_eof)
  /\ UNCHANGED read

ReadOutput(len) ==
  /\ reassembler' = [reassembler EXCEPT !.output = pop_output(@, len)]
  /\ read' = read \o peek_output(reassembler.output, len)

ReassemblerNext ==
  \/ \E index \in 0 .. N : \E len \in 0 .. N - index : \E is_eof \in BOOLEAN :
       Push(index, len, is_eof)
  \/ \E len \in 1 .. Capacity : ReadOutput(len)

ReassemblerSpec == ReassemblerInit /\ [][ReassemblerNext]_reassembler_vars

\* The peer's retransmission of the first byte that is missing, or of the last
\* byte with the end of the stream.
PushAgain ==
  LET index == AtMost(reassembler.first_unassembled, N - 1)
  IN  Push(index, 1, index = N - 1)

\* The peer retransmits what is missing; the owner keeps reading.
ReassemblerFairness == WF_reassembler_vars(PushAgain) /\ WF_reassembler_vars(ReadOutput(1))

FairReassemblerSpec == ReassemblerSpec /\ ReassemblerFairness

-----------------------------------------------------------------------------
\* The fields of the class keep their types.
ReassemblerTypeOK ==
  /\ reassembler \in
       [output : [buffer : Seq(Byte), capacity : {Capacity},
                  read_count : Nat, write_count : Nat,
                  input_ended : BOOLEAN, error : BOOLEAN],
        capacity : {Capacity}, first_unassembled : 0 .. N,
        unassembled : Nat, eof : BOOLEAN, m_exist : SUBSET (0 .. N - 1),
        m_char : UNION {[D -> Byte] : D \in SUBSET (0 .. N - 1)}]
  /\ read \in Seq(Byte)

\* The owner gets the peer's bytes, each once and in order: what it has read
\* and what is buffered is exactly the stream up to first_unassembled.  In
\* particular _output.write() never truncates what push_substring() counted
\* as assembled.
OutputIsStreamPrefix ==
  read \o reassembler.output.buffer
    = SubSeq(Stream, 1, reassembler.first_unassembled)

\* Between calls the byte that is due is never among the stored ones, every
\* earlier one is marked, and unassembled counts each stored byte once
\* however often it was pushed (stream_reassembler.hh:50).
StoredBytesCounted ==
  LET r == reassembler
  IN  /\ r.first_unassembled \notin r.m_exist
      /\ 0 .. r.first_unassembled - 1 \subseteq r.m_exist
      /\ r.unassembled = Cardinality({c \in r.m_exist : c > r.first_unassembled})

\* "This capacity limits both the bytes that have been reassembled, and those
\* that have not yet been reassembled" (stream_reassembler.hh:28).
CapacityRespected ==
  buffer_size(reassembler.output) + unassembled_bytes(reassembler) <= Capacity

\* With retransmission and a reader, the whole stream and its end arrive.
EverythingDelivered ==
  <>(read = Stream /\ eof(reassembler.output))
=============================================================================
