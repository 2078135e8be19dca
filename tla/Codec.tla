------------------------------- MODULE Codec -------------------------------
(***************************************************************************)
(* libsponge/util/parser.{hh,cc} and InternetChecksum of util/util.cc: how *)
(* numbers become bytes and bytes numbers, and the sum over them.  Bytes   *)
(* have their eight bits.  A 32-bit field is the signed number that has    *)
(* its bits, as TLC's numbers have no more of them.                        *)
(***************************************************************************)
EXTENDS Integers, Sequences
LOCAL INSTANCE SequencesExt
LOCAL INSTANCE Functions
LOCAL INSTANCE TLC

Radix == 256
Word == Radix * Radix

\* NetUnparser::_unparse_int<T>(s, val), for a T of len bytes.
unparse_int(val, len) == [i \in 1 .. len |-> (val \div Radix ^ (len - i)) % Radix]

\* string::resize(n), to a greater length.
Resized(bytes, n) == [i \in 1 .. n |-> IF i <= Len(bytes) THEN bytes[i] ELSE 0]

Parser(buffer) == [buffer |-> buffer, error |-> "NoError"]

check_size(p, n) ==
  IF n > Len(p.buffer) THEN [p EXCEPT !.error = "PacketTooShort"] ELSE p

\* Nothing is removed once there was an error.
remove_prefix(p, n) ==
  LET checked == check_size(p, n)
  IN  IF checked.error # "NoError" THEN checked
      ELSE [checked EXCEPT !.buffer = SubSeq(@, n + 1, Len(@))]

BigEndian(bytes) ==
  FoldLeft(LAMBDA n, byte : n * Radix + byte,
           IF Len(bytes) = 4 /\ Head(bytes) >= 128 THEN -1 ELSE 0, bytes)

\* _parse_int<T>(): 0 once there was an error.
parse_int(p, len) ==
  IF check_size(p, len).error # "NoError" THEN 0 ELSE BigEndian(SubSeq(p.buffer, 1, len))

\* A header is a sequence of fields.  One that is an array, an Ethernet
\* address, is read and written byte by byte.
Number(name, size) == [name |-> name, size |-> size, array |-> FALSE]
Octets(name, size) == [name |-> name, size |-> size, array |-> TRUE]

ParseFields(p, layout) ==
  FoldLeft(LAMBDA done, field :
             LET value == IF field.array THEN SubSeq(done.p.buffer, 1, field.size)
                          ELSE parse_int(done.p, field.size)
             IN  [p |-> remove_prefix(done.p, field.size),
                  fields |-> done.fields @@ field.name :> value],
           [p |-> p, fields |-> <<>>], layout)

UnparseFields(header, layout) ==
  FlattenSeq([i \in DOMAIN layout |->
    LET value == header[layout[i].name]
    IN  IF layout[i].array THEN value ELSE unparse_int(value, layout[i].size)])

\* InternetChecksum(initial_sum)
Checksum(initial_sum) == [sum |-> initial_sum, parity |-> 0]

\* add(data): bytes in odd places count 256 times, also across calls.
add(check, data) ==
  [sum |-> FoldLeftDomain(LAMBDA sum, i :
                            sum + data[i] * (IF (check.parity + i) % 2 = 1 THEN Radix ELSE 1),
                          check.sum, data),
   parity |-> (check.parity + Len(data)) % 2]

\* value(): the carries are added in until there is none; then the complement.
Folded[sum \in Nat] ==
  IF sum < Word THEN sum ELSE Folded[(sum \div Word) + (sum % Word)]

value(check) == Word - 1 - Folded[check.sum]

\* What serialize() throws is no sequence of bytes.
Thrown == <<"exception">>
=============================================================================
