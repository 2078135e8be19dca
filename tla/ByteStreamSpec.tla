--------------------------- MODULE ByteStreamSpec ---------------------------
(***************************************************************************)
(* One ByteStream between a writer and a reader that call its methods in   *)
(* any order.  accepted and delivered are histories: every byte write()    *)
(* took and every byte read() handed out.                                  *)
(***************************************************************************)
EXTENDS ByteStream

CONSTANTS
  Byte,        \* the byte values
  Capacity,    \* ByteStream::_capacity
  MaxWrite,    \* bound: bytes offered by one write, asked for by one read
  MaxAccepted  \* bound: bytes a behaviour accepts

ASSUME StreamAssumption ==
  Capacity \in Nat /\ MaxWrite \in Nat /\ MaxAccepted \in Nat

VARIABLES stream, accepted, delivered

vars == <<stream, accepted, delivered>>

Init ==
  /\ stream = NewByteStream(Capacity)
  /\ accepted = <<>>
  /\ delivered = <<>>

\* What a write of data will take: the return value of write().
Taken(data) == SubSeq(data, 1, AtMost(Len(data), remaining_capacity(stream)))

Write(data) ==
  /\ Len(accepted) + Len(data) <= MaxAccepted
  /\ stream' = write(stream, data)
  /\ accepted' = accepted \o Taken(data)
  /\ UNCHANGED delivered

\* read(len): peek_output, then pop_output.
Read(len) ==
  /\ stream' = pop_output(stream, len)
  /\ delivered' = delivered \o peek_output(stream, len)
  /\ UNCHANGED accepted

EndInput ==
  /\ stream' = end_input(stream)
  /\ UNCHANGED <<accepted, delivered>>

SetError ==
  /\ stream' = set_error(stream)
  /\ UNCHANGED <<accepted, delivered>>

Next ==
  \/ \E n \in 0 .. MaxWrite : \E data \in [1 .. n -> Byte] : Write(data)
  \/ \E n \in 0 .. MaxWrite : Read(n)
  \/ EndInput
  \/ SetError

Spec == Init /\ [][Next]_vars

-----------------------------------------------------------------------------
\* The fields of the class keep their types, the capacity never changes, and
\* size_t remaining_capacity() never underflows.
TypeOK ==
  /\ stream \in [buffer : Seq(Byte), capacity : {Capacity},
                 read_count : Nat, write_count : Nat,
                 input_ended : BOOLEAN, error : BOOLEAN]
  /\ remaining_capacity(stream) \in Nat
  /\ accepted \in Seq(Byte)
  /\ delivered \in Seq(Byte)

\* First in, first out: what was read followed by what is buffered is what
\* write() accepted, byte for byte, through any mix of partial writes and
\* short reads.
InOrder == delivered \o stream.buffer = accepted

\* bytes_written() and bytes_read() agree with the bytes that really moved.
Accounting ==
  /\ stream.write_count = Len(accepted)
  /\ stream.read_count = Len(delivered)

Reliable ==
  INSTANCE ReliableStream WITH
    written <- accepted, ended <- input_ended(stream), told <- eof(stream)

\* "the writer can end the input, and then no more bytes can be written"
\* (byte_stream.hh:107): the class does not stop a write after end_input(), but
\* as long as the writer does not write there, every step is one of
\* ReliableStream, and eof() is only seen when the reader has everything.
ReliableIfWriterStops ==
  /\ Reliable!Init
  /\ [][(input_ended(stream) => accepted' = accepted)
          => Reliable!Next \/ UNCHANGED Reliable!vars]_vars
=============================================================================
