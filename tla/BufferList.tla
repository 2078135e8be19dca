----------------------------- MODULE BufferList -----------------------------
(***************************************************************************)
(* libsponge/util/buffer.{hh,cc}: a string in several buffers, each of     *)
(* which is stored once and has an offset of the bytes already discarded;  *)
(* and the ByteStream with the BufferList in which the class keeps its     *)
(* bytes: every write() appends a buffer, even an empty one, and           *)
(* pop_output() discards bytes across their boundaries.                    *)
(***************************************************************************)
EXTENDS ByteStreamSpec

CONSTANT MaxBuffers    \* bound: the buffers in the list

VARIABLE list          \* ByteStream::_buffer

Buffer(storage) == [storage |-> storage, starting_offset |-> 0]

str(buf) == SubSeq(buf.storage, buf.starting_offset + 1, Len(buf.storage))

\* Buffer::remove_prefix(n), for n up to the size: the storage is given up with
\* its last byte.
buffer_remove_prefix(buf, n) ==
  LET offset == buf.starting_offset + n
  IN  [storage |-> IF offset = Len(buf.storage) THEN <<>> ELSE buf.storage,
       starting_offset |-> offset]

append(bufs, other) == bufs \o other

concatenate(bufs) ==
  LET ret[i \in 0 .. Len(bufs)] == IF i = 0 THEN <<>> ELSE ret[i - 1] \o str(bufs[i])
  IN  ret[Len(bufs)]

list_size(bufs) ==
  LET ret[i \in 0 .. Len(bufs)] == IF i = 0 THEN 0 ELSE ret[i - 1] + Len(str(bufs[i]))
  IN  ret[Len(bufs)]

\* Slip: a buffer of which a part is left is dropped with the others.
RemoveFrom_whole(done, buf) ==
  IF done.n = 0 THEN [n |-> 0, list |-> Append(done.list, buf)]
  ELSE IF done.n < Len(str(buf)) THEN [n |-> 0, list |-> done.list]
  ELSE [n |-> done.n - Len(str(buf)), list |-> done.list]

\* One buffer in BufferList::remove_prefix(): it stays when nothing is left to
\* be removed, loses its front, or goes.
RemoveFrom(done, buf) ==
  IF done.n = 0 THEN [n |-> 0, list |-> Append(done.list, buf)]
  ELSE IF done.n < Len(str(buf))
  THEN [n |-> 0, list |-> Append(done.list, buffer_remove_prefix(buf, done.n))]
  ELSE [n |-> done.n - Len(str(buf)), list |-> done.list]

\* BufferList::remove_prefix(n), and BufferViewList's: the list afterwards and
\* what of n it was too short for, when the code throws.
list_remove_prefix(bufs, n) ==
  LET done[i \in 0 .. Len(bufs)] ==
        IF i = 0 THEN [n |-> n, list |-> <<>>] ELSE RemoveFrom(done[i - 1], bufs[i])
  IN  done[Len(bufs)]

-----------------------------------------------------------------------------
BuffersInit == Init /\ list = <<>>

BuffersWrite(data) ==
  /\ Len(list) < MaxBuffers
  /\ Write(data)
  /\ list' = append(list, <<Buffer(Taken(data))>>)

BuffersRead(len) ==
  /\ Read(len)
  /\ list' = list_remove_prefix(list, AtMost(len, list_size(list))).list

BuffersNext ==
  \/ \E n \in 0 .. MaxWrite : \E data \in [1 .. n -> Byte] : BuffersWrite(data)
  \/ \E n \in 0 .. MaxWrite : BuffersRead(n)
  \/ (EndInput \/ SetError) /\ UNCHANGED list

BuffersSpec == BuffersInit /\ [][BuffersNext]_<<vars, list>>

-----------------------------------------------------------------------------
\* However writes and reads cut the stream into buffers, the list holds its
\* bytes in order, size() counts them, and a read never takes more than it has.
BuffersHoldStream ==
  /\ concatenate(list) = stream.buffer
  /\ list_size(list) = buffer_size(stream)
  /\ \A len \in 0 .. MaxWrite :
       list_remove_prefix(list, AtMost(len, list_size(list))).n = 0
=============================================================================
