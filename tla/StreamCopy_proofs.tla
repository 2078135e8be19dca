-------------------------- MODULE StreamCopy_proofs --------------------------
(***************************************************************************)
(* bidirectional_stream_copy() passes on every byte in order, and both     *)
(* ends, for every input, answer and size of buffers and pipes, however    *)
(* its event loop and the others take turns.                               *)
(***************************************************************************)
EXTENDS StreamCopySpec, SequenceTheorems, WellFoundedInduction, TLAPS

\* The bytes of the two sides.
Octet == {Fed[i] : i \in DOMAIN Fed} \cup {Answer[i] : i \in DOMAIN Answer}

CopyStream ==
  [buffer : Seq(Octet), capacity : {BufferSize}, read_count : Nat, write_count : Nat,
   input_ended : BOOLEAN, error : {FALSE}]

CopyType ==
  [outbound : CopyStream, inbound : CopyStream,
   outbound_shutdown : BOOLEAN, inbound_shutdown : BOOLEAN,
   kind : InputKinds, room : {PipeRoom},
   input : Seq(Octet), input_over : BOOLEAN, input_eof : BOOLEAN,
   to_socket : Seq(Octet), from_socket : Seq(Octet), far_shut : BOOLEAN,
   far_gone : BOOLEAN, socket_eof : BOOLEAN,
   output : Seq(Octet), output_closed : BOOLEAN, output_broken : BOOLEAN,
   failed : BOOLEAN]

OthersType ==
  [fed : 0 .. Len(Fed), answered : 0 .. Len(Answer),
   far_read : Seq(Octet), out_read : Seq(Octet)]

\* One way: what was read at its far side, what is on its way there, what the
\* stream holds and what it has not taken yet make up what was given.
Way(read, target, s, source, given) ==
  /\ read \o target \o s.buffer \o source = given
  /\ Len(target) <= PipeRoom /\ Len(s.buffer) <= BufferSize

\* A stream is ended, and the end passed on, only when its source is.
Ends(c) ==
  /\ c.far_gone => c.far_shut
  /\ c.outbound.input_ended => c.input_over /\ c.input = <<>>
  /\ c.inbound.input_ended => c.far_shut /\ c.from_socket = <<>>
  /\ c.outbound_shutdown => eof(c.outbound)
  /\ c.inbound_shutdown => eof(c.inbound)
  /\ c.input_eof => c.outbound.input_ended
  /\ c.socket_eof => c.inbound.input_ended
  /\ c.output_closed => c.inbound_shutdown
  /\ c.failed => c.far_gone

\* A rule is gone only when there is nothing left for it to do.
RulesRight(c, rules) ==
  /\ rules \subseteq CopyRules /\ SocketOut \in rules
  /\ StdinIn \notin rules => c.outbound.input_ended
  /\ SocketIn \notin rules => c.inbound.input_ended
  /\ StdoutOut \notin rules => c.inbound_shutdown

\* What poll(2) said still holds when its turn comes, as far as it matters.
Current(c, todo) ==
  /\ DOMAIN todo \subseteq CopyRules
  /\ \A r \in DOMAIN todo :
       /\ todo[r].error => r = StdoutOut /\ c.output_broken
       /\ Loop!Defunct(todo[r]) => r = StdinIn /\ c.input_over /\ c.input = <<>>
       /\ r = StdinIn /\ todo[r].ready =>
            (c.input # <<>> \/ c.input_over) /\ Len(c.outbound.buffer) < BufferSize
       /\ r = SocketIn /\ todo[r].ready =>
            (c.from_socket # <<>> \/ c.far_shut) /\ Len(c.inbound.buffer) < BufferSize

\* The state between two steps of anyone.
Held(c, o) ==
  /\ c \in CopyType /\ o \in OthersType /\ Ends(c)
  /\ Way(o.far_read, c.to_socket, c.outbound, c.input, SubSeq(Fed, 1, o.fed))
  /\ Way(o.out_read, c.output, c.inbound, c.from_socket, SubSeq(Answer, 1, o.answered))

CopyInv ==
  /\ Held(copy, others)
  /\ turn = [rules |-> turn.rules, todo |-> turn.todo, at |-> turn.at]
  /\ RulesRight(copy, turn.rules) /\ Current(copy, turn.todo)
  /\ turn.at = "returned" => copy.outbound_shutdown /\ copy.inbound_shutdown
  /\ turn.at = "failed" => copy.far_gone \/ copy.output_broken

-----------------------------------------------------------------------------
\* The clamp of write(), peek_output() and pop_output().
LEMMA AtMostProperties ==
  ASSUME NEW len \in Nat, NEW limit \in Nat
  PROVE  /\ AtMost(len, limit) \in 0 .. len
         /\ AtMost(len, limit) \in 0 .. limit
  BY DEF AtMost

\* A prefix of a sequence is a sequence of the prefix's length.
LEMMA PrefixProperties ==
  ASSUME NEW S, NEW s \in Seq(S), NEW k \in 0 .. Len(s)
  PROVE  SubSeq(s, 1, k) \in Seq(S) /\ Len(SubSeq(s, 1, k)) = k
  <1>1. \A i \in 1 .. k : s[i] \in S
    BY ElementOfSeq
  <1>. QED  BY <1>1, SubSeqProperties, LenProperties

\* What is left when a prefix is removed.
LEMMA SuffixProperties ==
  ASSUME NEW S, NEW s \in Seq(S), NEW k \in 0 .. Len(s)
  PROVE  SubSeq(s, k + 1, Len(s)) \in Seq(S)
         /\ Len(SubSeq(s, k + 1, Len(s))) = Len(s) - k
  <1>1. Len(s) \in Nat
    BY LenProperties
  <1>2. \A i \in k + 1 .. Len(s) : s[i] \in S
    BY <1>1, ElementOfSeq
  <1>. QED  BY <1>1, <1>2, SubSeqProperties

\* A prefix and what is left make up the whole.
LEMMA PrefixSuffix ==
  ASSUME NEW S, NEW s \in Seq(S), NEW k \in 0 .. Len(s)
  PROVE  SubSeq(s, 1, k) \o SubSeq(s, k + 1, Len(s)) = s
  <1>1. Len(s) \in Nat
    BY LenProperties
  <1>2. 1 \in 1 .. Len(s) + 1 /\ k \in 1 - 1 .. Len(s) /\ Len(s) \in k .. Len(s)
    BY <1>1
  <1>3. SubSeq(s, 1, k) \o SubSeq(s, k + 1, Len(s)) = SubSeq(s, 1, Len(s))
    BY <1>2, ConcatAdjacentSubSeq
  <1>. QED  BY <1>3, SubSeqFull

\* A set of naturals that is not empty has a least member.
LEMMA LeastMember ==
  ASSUME NEW T, T \subseteq Nat, T # {}
  PROVE  \E x \in T : \A y \in T : x <= y
  <1>1. PICK x \in T : \A y \in T : ~ (<<y, x>> \in OpToRel(<, Nat))
    BY NatLessThanWellFounded, WFMin, Zenon
  <1>2. \A y \in T : y < x => <<y, x>> \in OpToRel(<, Nat)
    BY Zenon DEF OpToRel
  <1>3. \A y \in T : ~ (y < x)
    BY <1>1, <1>2
  <1>. QED  BY <1>3

-----------------------------------------------------------------------------
\* Concatenation is associative, over the bytes of the two sides.
LEMMA OctetsAssociative ==
  \A s, t, u \in Seq(Octet) : (s \o t) \o u = s \o (t \o u)
  BY ConcatAssociative

\* Rules 1 and 3: filling a stream moves bytes from the source to the end of the
\* buffer, and finds the end only in an empty source.
LEMMA FillKeeps ==
  ASSUME NEW s \in CopyStream, NEW source \in Seq(Octet), NEW pre \in Seq(Octet),
         Len(s.buffer) < BufferSize
  PROVE  /\ Filled(s, source) \in CopyStream /\ Rest(s, source) \in Seq(Octet)
         /\ Len(Filled(s, source).buffer) <= BufferSize
         /\ (pre \o Filled(s, source).buffer) \o Rest(s, source)
              = (pre \o s.buffer) \o source
         /\ source = <<>> => /\ Filled(s, source) = end_input(s)
                             /\ Rest(s, source) = <<>>
         /\ source # <<>> => Filled(s, source).input_ended = s.input_ended
  <1> DEFINE room == remaining_capacity(s)
             m == AtMost(Len(source), room)
             data == Readable(s, source)
             t == Filled(s, source)
  <1>1. /\ s.buffer \in Seq(Octet) /\ s.capacity = BufferSize /\ s.write_count \in Nat
        /\ s.read_count \in Nat /\ s.input_ended \in BOOLEAN /\ s.error = FALSE
    BY DEF CopyStream
  <1>2. Len(s.buffer) \in Nat /\ Len(source) \in Nat /\ BufferSize \in Nat
    BY <1>1, LenProperties, CopyAssumption
  <1>3. room \in Nat /\ room > 0 /\ room = BufferSize - Len(s.buffer)
    BY <1>1, <1>2 DEF remaining_capacity, buffer_size
  <1>4. m \in 0 .. Len(source) /\ m \in 0 .. room
    BY <1>2, <1>3, AtMostProperties
  <1>5. data = SubSeq(source, 1, m) /\ data \in Seq(Octet) /\ Len(data) = m
    BY <1>4, PrefixProperties DEF Readable
  <1>6. Rest(s, source) = SubSeq(source, m + 1, Len(source))
    BY <1>5 DEF Rest
  <1>7. /\ Rest(s, source) \in Seq(Octet) /\ Len(Rest(s, source)) = Len(source) - m
        /\ data \o Rest(s, source) = source
    <2>1. /\ SubSeq(source, m + 1, Len(source)) \in Seq(Octet)
          /\ Len(SubSeq(source, m + 1, Len(source))) = Len(source) - m
      BY <1>4, SuffixProperties
    <2>2. SubSeq(source, 1, m) \o SubSeq(source, m + 1, Len(source)) = source
      BY <1>4, PrefixSuffix
    <2>. QED  BY <1>5, <1>6, <2>1, <2>2
  <1>8. m = 0 <=> source = <<>>
    <2>1. Len(source) = 0 <=> source = <<>>
      BY EmptySeq
    <2>. QED  BY <1>2, <1>3, <2>1 DEF AtMost
  <1>9. data = <<>> <=> source = <<>>
    BY <1>5, <1>8, EmptySeq
  <1>10. CASE source = <<>>
    <2>1. t = end_input(s)
      BY <1>9, <1>10 DEF Filled
    <2>2. t = [s EXCEPT !.input_ended = TRUE]
      BY <2>1 DEF end_input
    <2>3. t \in CopyStream /\ t.buffer = s.buffer
      BY <2>2 DEF CopyStream
    <2>4. Rest(s, source) = <<>>
      <3>1. Len(Rest(s, source)) = 0
        BY <1>2, <1>7, <1>8, <1>10
      <3>. QED  BY <1>7, <3>1, EmptySeq
    <2>5. Len(t.buffer) <= BufferSize
      BY <1>2, <2>3
    <2>. QED  BY <1>10, <2>1, <2>3, <2>4, <2>5
  <1>11. CASE source # <<>>
    <2>1. t = write(s, data)
      BY <1>9, <1>11 DEF Filled
    <2>2. AtMost(Len(data), room) = m /\ SubSeq(data, 1, m) = data
      <3>1. AtMost(Len(data), room) = m
        BY <1>2, <1>3, <1>4, <1>5 DEF AtMost
      <3>. QED  BY <1>5, <3>1, SubSeqFull
    <2>3. t = [s EXCEPT !.buffer = s.buffer \o data, !.write_count = s.write_count + m]
      BY <2>1, <2>2 DEF write
    <2>4. /\ s.buffer \o data \in Seq(Octet) /\ Len(s.buffer \o data) = Len(s.buffer) + m
      BY <1>1, <1>5, ConcatProperties
    <2>5. s.write_count + m \in Nat /\ Len(s.buffer) + m <= BufferSize
      BY <1>1, <1>2, <1>3, <1>4
    <2>. HIDE DEF t, m, data
    <2>6. t \in CopyStream /\ t.buffer = s.buffer \o data /\ t.input_ended = s.input_ended
      BY <1>1, <2>3, <2>4, <2>5 DEF CopyStream
    <2>7. /\ pre \o (s.buffer \o data) = (pre \o s.buffer) \o data
          /\ ((pre \o s.buffer) \o data) \o Rest(s, source)
               = (pre \o s.buffer) \o (data \o Rest(s, source))
      <3>1. pre \o s.buffer \in Seq(Octet)
        BY <1>1, ConcatProperties
      <3>2. pre \o (s.buffer \o data) = (pre \o s.buffer) \o data
        BY <1>1, <1>5, OctetsAssociative
      <3>3. ((pre \o s.buffer) \o data) \o Rest(s, source)
              = (pre \o s.buffer) \o (data \o Rest(s, source))
        BY <1>5, <1>7, <3>1, OctetsAssociative
      <3>. QED  BY <3>2, <3>3
    <2>8. (pre \o t.buffer) \o Rest(s, source) = (pre \o s.buffer) \o source
      BY <1>7, <2>6, <2>7
    <2>. QED  BY <1>7, <1>11, <2>4, <2>5, <2>6, <2>8 DEF t
  <1>. QED  BY <1>10, <1>11

\* Rules 2 and 4: draining a stream moves m bytes from the front of the buffer to
\* the target, as many as it has room for.
Drained(s, target, pre, m) ==
  /\ pop_output(s, m) \in CopyStream /\ target \o peek_output(s, m) \in Seq(Octet)
  /\ Len(pop_output(s, m).buffer) <= Len(s.buffer)
  /\ Len(target \o peek_output(s, m)) <= PipeRoom
  /\ (pre \o (target \o peek_output(s, m))) \o pop_output(s, m).buffer
       = (pre \o target) \o s.buffer
  /\ pop_output(s, m).input_ended = s.input_ended

\* No byte is lost or repeated between the stream and the target.
LEMMA DrainKeeps ==
  ASSUME NEW s \in CopyStream, NEW target \in Seq(Octet), NEW pre \in Seq(Octet),
         Len(target) <= PipeRoom
  PROVE  Drained(s, target, pre, Writable(s, target, PipeRoom))
  <1> DEFINE m == Writable(s, target, PipeRoom)
             more == peek_output(s, m)
             t == pop_output(s, m)
             left == SubSeq(s.buffer, m + 1, Len(s.buffer))
  <1>1. /\ s.buffer \in Seq(Octet) /\ s.read_count \in Nat /\ s.input_ended \in BOOLEAN
    BY DEF CopyStream
  <1>2. Len(s.buffer) \in Nat /\ Len(target) \in Nat /\ PipeRoom - Len(target) \in Nat
    <2>1. Len(s.buffer) \in Nat /\ Len(target) \in Nat /\ PipeRoom \in Nat
      BY <1>1, LenProperties, CopyAssumption
    <2>. QED  BY <2>1
  <1>3. m \in 0 .. Len(s.buffer) /\ m \in 0 .. PipeRoom - Len(target)
    <2> DEFINE most == AtMost(max_copy_length, Len(s.buffer))
    <2>1. most \in 0 .. Len(s.buffer)
      BY <1>2, CopyAssumption, AtMostProperties
    <2>2. m = AtMost(most, PipeRoom - Len(target))
      BY DEF Writable, buffer_size
    <2>. HIDE DEF m, most
    <2>3. m \in 0 .. most /\ m \in 0 .. PipeRoom - Len(target)
      BY <1>2, <2>1, <2>2, AtMostProperties
    <2>. QED  BY <1>2, <2>1, <2>3
  <1>4. AtMost(m, buffer_size(s)) = m
    BY <1>2, <1>3 DEF AtMost, buffer_size
  <1>5. more = SubSeq(s.buffer, 1, m)
    BY <1>4 DEF peek_output
  <1>6. t = [s EXCEPT !.buffer = left, !.read_count = s.read_count + m]
    BY <1>4 DEF pop_output
  <1>7. /\ more \in Seq(Octet) /\ Len(more) = m
        /\ left \in Seq(Octet) /\ Len(left) = Len(s.buffer) - m
        /\ more \o left = s.buffer
    <2>1. more \in Seq(Octet) /\ Len(more) = m
      BY <1>1, <1>3, <1>5, PrefixProperties
    <2>2. left \in Seq(Octet) /\ Len(left) = Len(s.buffer) - m
      BY <1>1, <1>3, SuffixProperties
    <2>3. SubSeq(s.buffer, 1, m) \o left = s.buffer
      BY <1>1, <1>3, PrefixSuffix
    <2>. QED  BY <1>5, <2>1, <2>2, <2>3
  <1>. HIDE DEF m, more, t, left
  <1>8. t \in CopyStream /\ t.buffer = left /\ t.input_ended = s.input_ended
    <2>1. s.read_count + m \in Nat
      BY <1>1, <1>2, <1>3
    <2>. QED  BY <1>6, <1>7, <2>1 DEF CopyStream
  <1>9. target \o more \in Seq(Octet) /\ Len(target \o more) = Len(target) + m
    BY <1>7, ConcatProperties
  <1>10. Len(left) <= Len(s.buffer) /\ Len(target) + m <= PipeRoom
    BY <1>2, <1>3, <1>7, CopyAssumption
  <1>11. (pre \o (target \o more)) \o left = (pre \o target) \o s.buffer
    <2>1. pre \o (target \o more) = (pre \o target) \o more
      BY <1>7, OctetsAssociative
    <2>2. pre \o target \in Seq(Octet)
      BY ConcatProperties
    <2>3. ((pre \o target) \o more) \o left = (pre \o target) \o (more \o left)
      BY <1>7, <2>2, OctetsAssociative
    <2>. QED  BY <1>7, <2>1, <2>3
  <1>. QED  BY <1>8, <1>9, <1>10, <1>11 DEF Drained, more, t, m

-----------------------------------------------------------------------------
\* The rules that wait_next_event() drops before it polls.
Dropped(c, r) == (Reads(r) /\ AtEof(c, r)) \/ Closed(c, r)

\* The pollfds set up by the first r turns, if no call of cancel() does anything.
Considered(c, rules, r) ==
  LET polled == {x \in rules : x <= r /\ ~Dropped(c, x)}
  IN  [w |-> c, polled |-> polled, events |-> {x \in polled : Interest(c, x)}]

\* What the recursive function of SetUp satisfies.
SetsUp(f, c, rules) ==
  f = [r \in 0 .. 4 |->
         IF r = 0 THEN [w |-> c, polled |-> {}, events |-> {}]
         ELSE IF r \in rules THEN Loop!Consider(f[r - 1], r)
         ELSE f[r - 1]]

\* A rule that is dropped has ended its stream already.
LEMMA CancelIsNothing ==
  ASSUME NEW c \in CopyType, Ends(c), NEW r \in CopyRules, Dropped(c, r)
  PROVE  Cancel(c, r) = c
  <1>1. /\ c.outbound \in CopyStream /\ c.inbound \in CopyStream
    BY DEF CopyType
  <1>2. CASE r = StdinIn
    <2>1. c.outbound.input_ended = TRUE
      BY <1>1, <1>2 DEF Dropped, AtEof, Closed, Reads, Ends, StdinIn, StdoutOut, SocketIn,
                        CopyStream
    <2>2. end_input(c.outbound) = c.outbound
      BY <1>1, <2>1 DEF end_input, CopyStream
    <2>. QED  BY <1>2, <2>2 DEF Cancel, CopyType
  <1>3. CASE r = SocketOut
    BY <1>3 DEF Dropped, Reads, Closed, StdinIn, SocketOut, SocketIn, StdoutOut
  <1>4. CASE r \in {SocketIn, StdoutOut}
    <2>1. c.inbound.input_ended = TRUE
      BY <1>1, <1>4 DEF Dropped, AtEof, Closed, Reads, Ends, eof, input_ended, StdinIn,
                        StdoutOut, SocketIn, CopyStream
    <2>2. end_input(c.inbound) = c.inbound
      BY <1>1, <2>1 DEF end_input, CopyStream
    <2>3. r \notin {StdinIn, SocketOut}
      BY <1>4 DEF StdinIn, SocketOut, SocketIn, StdoutOut
    <2>. QED  BY <2>2, <2>3 DEF Cancel, CopyType
  <1>. QED  BY <1>2, <1>3, <1>4 DEF CopyRules

\* One turn of the first loop.
LEMMA ConsiderTurn ==
  ASSUME NEW c \in CopyType, Ends(c), NEW rules \in SUBSET CopyRules, NEW r \in 1 .. 4
  PROVE  Considered(c, rules, r)
           = IF r \in rules THEN Loop!Consider(Considered(c, rules, r - 1), r)
             ELSE Considered(c, rules, r - 1)
  <1> DEFINE set == Considered(c, rules, r - 1)
             before == {x \in rules : x <= r - 1 /\ ~Dropped(c, x)}
             polled == {x \in rules : x <= r /\ ~Dropped(c, x)}
  <1>1. /\ set = [w |-> c, polled |-> before,
                  events |-> {x \in before : Interest(c, x)}]
        /\ set.w = c /\ set.polled = before
        /\ set.events = {x \in before : Interest(c, x)}
    BY DEF Considered
  <1>2. Considered(c, rules, r) = [w |-> c, polled |-> polled,
                                   events |-> {x \in polled : Interest(c, x)}]
    BY DEF Considered
  <1>3. \A x \in rules : x <= r <=> (x <= r - 1 \/ x = r)
    BY DEF CopyRules, StdinIn, SocketOut, SocketIn, StdoutOut
  <1>4. r \in CopyRules
    BY DEF CopyRules, StdinIn, SocketOut, SocketIn, StdoutOut
  <1>. HIDE DEF set
  <1>5. CASE r \notin rules \/ Dropped(c, r)
    <2>1. polled = before
      BY <1>3, <1>5
    <2>2. r \in rules => Loop!Consider(set, r) = set
      <3>. SUFFICES ASSUME r \in rules PROVE Loop!Consider(set, r) = set
        OBVIOUS
      <3>1. Cancel(c, r) = c
        BY <1>4, <1>5, CancelIsNothing
      <3>2. Loop!Consider(set, r) = [set EXCEPT !.w = Cancel(c, r)]
        BY <1>1, <1>5 DEF Loop!Consider, Dropped
      <3>. QED  BY <1>1, <3>1, <3>2
    <2>. QED  BY <1>1, <1>2, <2>1, <2>2 DEF set
  <1>6. CASE r \in rules /\ ~Dropped(c, r)
    <2>1. polled = before \cup {r}
      BY <1>3, <1>6
    <2>2. {x \in polled : Interest(c, x)}
            = IF Interest(c, r) THEN {x \in before : Interest(c, x)} \cup {r}
              ELSE {x \in before : Interest(c, x)}
      BY <2>1
    <2>. HIDE DEF before, polled
    <2>3. Loop!Consider(set, r)
            = [set EXCEPT !.polled = set.polled \cup {r},
                          !.events = IF Interest(c, r) THEN set.events \cup {r}
                                     ELSE set.events]
      BY <1>1, <1>6 DEF Loop!Consider, Dropped
    <2>4. Loop!Consider(set, r) = [w |-> c, polled |-> polled,
                                   events |-> {x \in polled : Interest(c, x)}]
      BY <1>1, <2>1, <2>2, <2>3
    <2>. QED  BY <1>2, <1>6, <2>4 DEF set
  <1>. QED  BY <1>5, <1>6

\* The first loop leaves the copy as it is: what it drops is over already.
LEMMA SetUpProperties ==
  ASSUME NEW c \in CopyType, Ends(c), NEW rules \in SUBSET CopyRules
  PROVE  Loop!SetUp(c, rules) = Considered(c, rules, 4)
  <1> DEFINE g == [r \in 0 .. 4 |-> Considered(c, rules, r)]
             f == CHOOSE h : SetsUp(h, c, rules)
  <1>1. Considered(c, rules, 0) = [w |-> c, polled |-> {}, events |-> {}]
    <2>1. {x \in rules : x <= 0 /\ ~Dropped(c, x)} = {}
      <3>1. \A x \in rules : ~(x <= 0)
        BY DEF CopyRules, StdinIn, SocketOut, SocketIn, StdoutOut
      <3>. QED  BY <3>1
    <2>. QED  BY <2>1 DEF Considered
  <1>2. \A r \in 1 .. 4 : r \in 0 .. 4 /\ r - 1 \in 0 .. 4 /\ r # 0
    OBVIOUS
  <1>3. \A r \in 0 .. 4 : r = 0 \/ r \in 1 .. 4
    OBVIOUS
  <1>4. SetsUp(g, c, rules)
    <2>1. ASSUME NEW r \in 0 .. 4
          PROVE  Considered(c, rules, r)
                   = IF r = 0 THEN [w |-> c, polled |-> {}, events |-> {}]
                     ELSE IF r \in rules THEN Loop!Consider(g[r - 1], r)
                     ELSE g[r - 1]
      <3>1. CASE r = 0
        BY <1>1, <3>1
      <3>2. CASE r \in 1 .. 4
        <4>1. g[r - 1] = Considered(c, rules, r - 1) /\ r # 0
          BY <1>2, <3>2
        <4>. HIDE DEF g
        <4>. QED  BY <3>2, <4>1, ConsiderTurn
      <3>. QED  BY <1>3, <3>1, <3>2
    <2>. QED  BY <2>1, Zenon DEF SetsUp
  <1>5. SetsUp(f, c, rules)
    BY <1>4
  <1>6. Loop!SetUp(c, rules) = f[4]
    BY DEF Loop!SetUp, SetsUp
  <1>. HIDE DEF f, g
  <1>7. /\ f[0] = [w |-> c, polled |-> {}, events |-> {}]
        /\ \A r \in 1 .. 4 : f[r] = IF r \in rules THEN Loop!Consider(f[r - 1], r)
                                    ELSE f[r - 1]
    <2>1. \A r \in 0 .. 4 : f[r] = IF r = 0 THEN [w |-> c, polled |-> {}, events |-> {}]
                                   ELSE IF r \in rules THEN Loop!Consider(f[r - 1], r)
                                   ELSE f[r - 1]
      BY <1>5, Zenon DEF SetsUp
    <2>2. 0 \in 0 .. 4
      OBVIOUS
    <2>. QED  BY <1>2, <2>1, <2>2, Zenon
  <1>8. \A r \in 1 .. 4 : f[r - 1] = Considered(c, rules, r - 1) =>
                            f[r] = Considered(c, rules, r)
    <2>. SUFFICES ASSUME NEW r \in 1 .. 4, f[r - 1] = Considered(c, rules, r - 1)
                  PROVE  f[r] = Considered(c, rules, r)
      OBVIOUS
    <2>1. f[r] = IF r \in rules THEN Loop!Consider(f[r - 1], r) ELSE f[r - 1]
      BY <1>7
    <2>. QED  BY <2>1, ConsiderTurn
  <1>9. /\ 1 \in 1 .. 4 /\ 1 - 1 = 0 /\ 2 \in 1 .. 4 /\ 2 - 1 = 1
        /\ 3 \in 1 .. 4 /\ 3 - 1 = 2 /\ 4 \in 1 .. 4 /\ 4 - 1 = 3
    OBVIOUS
  <1>10. f[1] = Considered(c, rules, 1)
    BY <1>1, <1>7, <1>8, <1>9, Zenon
  <1>11. f[2] = Considered(c, rules, 2)
    BY <1>8, <1>9, <1>10, Zenon
  <1>12. f[3] = Considered(c, rules, 3)
    BY <1>8, <1>9, <1>11, Zenon
  <1>13. f[4] = Considered(c, rules, 4)
    BY <1>8, <1>9, <1>12, Zenon
  <1>. QED  BY <1>6, <1>13

-----------------------------------------------------------------------------
\* What the four rules are interested in and what poll(2) says of each.
LEMMA RuleByRule ==
  ASSUME NEW c
  PROVE  /\ Interest(c, StdinIn) <=> CanFill(c.outbound, c.inbound)
         /\ Interest(c, SocketOut) <=> CanDrain(c.outbound, c.outbound_shutdown)
         /\ Interest(c, SocketIn) <=> CanFill(c.inbound, c.outbound)
         /\ Interest(c, StdoutOut) <=> CanDrain(c.inbound, c.inbound_shutdown)
         /\ Ready(c, StdinIn) <=> (c.input # <<>> \/ (c.input_over /\ c.kind = "file"))
         /\ Ready(c, SocketOut) <=> (c.far_gone \/ Len(c.to_socket) < c.room)
         /\ Ready(c, SocketIn) <=> (c.from_socket # <<>> \/ c.far_shut \/ c.far_gone)
         /\ Hup(c, StdinIn) <=> (c.input_over /\ c.kind = "pipe")
         /\ Hup(c, SocketOut) <=> (c.far_gone \/ (c.far_shut /\ c.outbound_shutdown))
         /\ Hup(c, SocketIn) <=> (c.far_gone \/ (c.far_shut /\ c.outbound_shutdown))
         /\ Hup(c, StdoutOut) <=> FALSE
         /\ Callback(c, StdinIn) = TakeInput(c) /\ Callback(c, SocketOut) = GiveToSocket(c)
         /\ Callback(c, SocketIn) = TakeFromSocket(c) /\ Callback(c, StdoutOut) = GiveOutput(c)
  <1>1. /\ StdinIn # SocketOut /\ StdinIn # SocketIn /\ StdinIn # StdoutOut
        /\ SocketOut # SocketIn /\ SocketOut # StdoutOut /\ SocketIn # StdoutOut
    BY DEF StdinIn, SocketOut, SocketIn, StdoutOut
  <1>. QED  BY <1>1, Zenon DEF Interest, Ready, Hup, Callback

\* poll(2) says what is so; a rule that it does not mention is over.
LEMMA PollKeeps == CopyInv /\ PollTurn => CopyInv'
  <1> SUFFICES ASSUME CopyInv, PollTurn PROVE CopyInv'
    OBVIOUS
  <1> DEFINE set == Considered(copy, turn.rules, 4)
             out == copy.outbound
             in == copy.inbound
  <1>1. /\ copy \in CopyType /\ Ends(copy) /\ turn.rules \in SUBSET CopyRules
        /\ others \in OthersType
    BY DEF CopyInv, Held, RulesRight
  <1>2. Loop!SetUp(copy, turn.rules) = set
    BY <1>1, SetUpProperties
  <1>3. /\ set.w = copy
        /\ set.polled = {x \in turn.rules : x <= 4 /\ ~Dropped(copy, x)}
        /\ set.events = {x \in set.polled : Interest(copy, x)}
    BY DEF Considered
  <1>4. set.polled = {x \in turn.rules : ~Dropped(copy, x)}
    <2>1. \A x \in turn.rules : x <= 4
      BY <1>1 DEF CopyRules, StdinIn, SocketOut, SocketIn, StdoutOut
    <2>. QED  BY <1>3, <2>1
  <1>. HIDE DEF set
  <1>5. /\ copy' = copy /\ others' = others
        /\ turn' = IF set.events # {}
                   THEN [turn EXCEPT !.rules = set.polled,
                                     !.todo = Loop!Effective(Loop!Poll(set))]
                   ELSE [turn EXCEPT !.at = "returned"]
        /\ turn.at = "looping"
    BY <1>2, <1>3 DEF PollTurn, Polled, Loop!SomethingToPoll
  <1>6. /\ out \in CopyStream /\ in \in CopyStream
        /\ out.capacity = BufferSize /\ in.capacity = BufferSize
        /\ out.error = FALSE /\ in.error = FALSE
        /\ Len(out.buffer) \in Nat /\ Len(in.buffer) \in Nat /\ BufferSize \in Nat
        /\ BufferSize > 0
    <2>1. out \in CopyStream /\ in \in CopyStream
      BY <1>1 DEF CopyType
    <2>2. out.buffer \in Seq(Octet) /\ in.buffer \in Seq(Octet)
      BY <2>1 DEF CopyStream
    <2>3. BufferSize \in Nat /\ BufferSize > 0
      BY CopyAssumption
    <2>. QED  BY <2>1, <2>2, <2>3, LenProperties DEF CopyStream
  <1>7. RulesRight(copy, set.polled)
    <2>1. SocketOut \in set.polled
      BY <1>4 DEF CopyInv, RulesRight, Dropped, Reads, Closed, StdinIn, SocketOut,
                  SocketIn, StdoutOut
    <2>2. StdinIn \notin set.polled => out.input_ended
      BY <1>1, <1>4 DEF CopyInv, RulesRight, Ends, Dropped, Closed, AtEof, StdinIn, StdoutOut
    <2>3. SocketIn \notin set.polled => in.input_ended
      BY <1>1, <1>4 DEF CopyInv, RulesRight, Ends, Dropped, Closed, AtEof, StdinIn, SocketIn,
                  StdoutOut
    <2>4. StdoutOut \notin set.polled => copy.inbound_shutdown
      BY <1>1, <1>4 DEF CopyInv, RulesRight, Ends, Dropped, Closed, Reads, StdinIn, SocketIn,
                  StdoutOut
    <2>. QED  BY <1>1, <1>4, <2>1, <2>2, <2>3, <2>4 DEF RulesRight
  <1>8. CASE set.events # {}
    <2> DEFINE results == Loop!Poll(set)
               todo == Loop!Effective(results)
    <2>1. /\ turn' = [turn EXCEPT !.rules = set.polled, !.todo = todo]
      BY <1>5, <1>8
    <2>2. /\ turn'.rules = set.polled /\ turn'.todo = todo /\ turn'.at = "looping"
          /\ turn' = [rules |-> turn'.rules, todo |-> turn'.todo, at |-> turn'.at]
      <3>. HIDE DEF todo
      <3>. QED  BY <1>5, <2>1 DEF CopyInv
    <2>3. ASSUME NEW r \in DOMAIN todo
          PROVE  /\ r \in CopyRules /\ todo[r].error = PollError(copy, r)
                 /\ todo[r].hup = Hup(copy, r)
                 /\ todo[r].events <=> Interest(copy, r)
                 /\ todo[r].ready <=> (Interest(copy, r) /\ Ready(copy, r))
      <3>1. r \in DOMAIN results /\ todo[r] = results[r]
        BY DEF Loop!Effective
      <3>2. r \in set.polled
            /\ results[r] = [events |-> r \in set.events,
                             ready |-> r \in set.events /\ Ready(copy, r),
                             hup |-> Hup(copy, r), error |-> PollError(copy, r)]
        BY <1>3, <3>1 DEF Loop!Poll
      <3>3. r \in CopyRules /\ (r \in set.events <=> Interest(copy, r))
        BY <1>1, <1>3, <1>4, <3>2
      <3>4. /\ results[r].error = PollError(copy, r) /\ results[r].hup = Hup(copy, r)
            /\ results[r].events = (r \in set.events)
            /\ results[r].ready = (r \in set.events /\ Ready(copy, r))
        <4>. HIDE DEF results
        <4>. QED  BY <3>2
      <3>. HIDE DEF results, todo
      <3>. QED  BY <3>1, <3>3, <3>4, Zenon
    <2>. HIDE DEF todo
    <2>4. ASSUME NEW r \in DOMAIN todo
          PROVE  /\ todo[r].error => r = StdoutOut /\ copy.output_broken
                 /\ Loop!Defunct(todo[r]) =>
                      r = StdinIn /\ copy.input_over /\ copy.input = <<>>
                 /\ r = StdinIn /\ todo[r].ready =>
                      /\ copy.input # <<>> \/ copy.input_over
                      /\ Len(out.buffer) < BufferSize
                 /\ r = SocketIn /\ todo[r].ready =>
                      /\ copy.from_socket # <<>> \/ copy.far_shut
                      /\ Len(in.buffer) < BufferSize
      <3>1. /\ r \in CopyRules /\ todo[r].error = PollError(copy, r)
            /\ todo[r].hup = Hup(copy, r)
            /\ todo[r].events <=> Interest(copy, r)
            /\ todo[r].ready <=> (Interest(copy, r) /\ Ready(copy, r))
        BY <2>3
      <3>2. todo[r].error => r = StdoutOut /\ copy.output_broken
        BY <3>1 DEF PollError
      <3>3. r = StdinIn /\ todo[r].ready =>
              (copy.input # <<>> \/ copy.input_over) /\ Len(out.buffer) < BufferSize
        <4>1. Interest(copy, StdinIn) => Len(out.buffer) < BufferSize
          <5>1. CanFill(out, in) => Len(out.buffer) < BufferSize
            BY <1>6 DEF CanFill, remaining_capacity, buffer_size
          <5>. QED  BY <5>1, RuleByRule
        <4>2. Ready(copy, StdinIn) => copy.input # <<>> \/ copy.input_over
          BY RuleByRule
        <4>. QED  BY <3>1, <4>1, <4>2
      <3>4. r = SocketIn /\ todo[r].ready =>
              (copy.from_socket # <<>> \/ copy.far_shut) /\ Len(in.buffer) < BufferSize
        <4>1. Interest(copy, SocketIn) => Len(in.buffer) < BufferSize
          <5>1. CanFill(in, out) => Len(in.buffer) < BufferSize
            BY <1>6 DEF CanFill, remaining_capacity, buffer_size
          <5>. QED  BY <5>1, RuleByRule
        <4>2. Ready(copy, SocketIn) => copy.from_socket # <<>> \/ copy.far_shut
          BY <1>1, RuleByRule DEF Ends
        <4>. QED  BY <3>1, <4>1, <4>2
      <3>5. ASSUME Loop!Defunct(todo[r])
            PROVE  r = StdinIn /\ copy.input_over /\ copy.input = <<>>
        <4>1. Hup(copy, r) /\ Interest(copy, r) /\ ~Ready(copy, r)
          BY <3>1, <3>5 DEF Loop!Defunct
        <4>2. CASE r = StdinIn
          <5>1. copy.input_over /\ copy.kind = "pipe" /\ copy.input = <<>>
            BY <4>1, <4>2, RuleByRule
          <5>. QED  BY <4>2, <5>1
        <4>3. CASE r = SocketOut
          <5>1. copy.outbound_shutdown /\ ~copy.far_gone
            BY <4>1, <4>3, RuleByRule
          <5>2. ~CanDrain(out, TRUE)
            BY <1>1, <5>1 DEF Ends, CanDrain, eof
          <5>3. copy.outbound_shutdown = TRUE
            BY <1>1, <5>1 DEF CopyType
          <5>. QED  BY <4>1, <4>3, <5>2, <5>3, RuleByRule
        <4>4. CASE r = SocketIn
          BY <1>1, <4>1, <4>4, RuleByRule DEF Ends
        <4>5. CASE r = StdoutOut
          BY <4>1, <4>5, RuleByRule
        <4>. QED  BY <3>1, <4>2, <4>3, <4>4, <4>5 DEF CopyRules
      <3>. QED  BY <3>2, <3>3, <3>4, <3>5
    <2>5. Current(copy, todo)
      BY <2>3, <2>4 DEF Current
    <2>. QED  BY <1>5, <1>7, <2>2, <2>5 DEF CopyInv
  <1>9. CASE set.events = {}
    <2>1. /\ turn' = [turn EXCEPT !.at = "returned"]
      BY <1>5, <1>9
    <2>2. /\ turn'.rules = turn.rules /\ turn'.todo = turn.todo /\ turn'.at = "returned"
          /\ turn' = [rules |-> turn'.rules, todo |-> turn'.todo, at |-> turn'.at]
      BY <2>1 DEF CopyInv
    <2>3. \A r \in set.polled : ~Interest(copy, r)
      BY <1>3, <1>9
    <2>4. ~CanDrain(out, copy.outbound_shutdown)
      BY <1>7, <2>3, RuleByRule DEF RulesRight
    <2>5. StdinIn \in set.polled => ~buffer_empty(out)
      <3>1. StdinIn \in set.polled => ~CanFill(out, in)
        BY <2>3, RuleByRule
      <3>. QED  BY <1>6, <3>1 DEF CanFill, remaining_capacity, buffer_empty, buffer_size
    <2>6. copy.outbound_shutdown
      BY <1>7, <2>4, <2>5 DEF RulesRight, CanDrain, eof, input_ended
    <2>7. SocketIn \in set.polled => ~buffer_empty(in)
      <3>1. SocketIn \in set.polled => ~CanFill(in, out)
        BY <2>3, RuleByRule
      <3>. QED  BY <1>6, <3>1 DEF CanFill, remaining_capacity, buffer_empty, buffer_size
    <2>8. StdoutOut \in set.polled => ~CanDrain(in, copy.inbound_shutdown)
      BY <2>3, RuleByRule
    <2>9. copy.inbound_shutdown
      BY <1>7, <2>7, <2>8 DEF RulesRight, CanDrain, eof, input_ended
    <2>. QED  BY <1>5, <2>2, <2>6, <2>9 DEF CopyInv
  <1>. QED  BY <1>8, <1>9

-----------------------------------------------------------------------------
\* The callback of rule 1.
LEMMA TakeInputKeeps ==
  ASSUME NEW c, NEW o, Held(c, o), c.input # <<>> \/ c.input_over,
         Len(c.outbound.buffer) < BufferSize, NEW d, d = TakeInput(c)
  PROVE  /\ Held(d, o) /\ (c.outbound.input_ended => d.outbound.input_ended)
         /\ d.inbound = c.inbound /\ d.from_socket = c.from_socket
         /\ d.far_shut = c.far_shut /\ d.output_broken = c.output_broken
         /\ d.inbound_shutdown = c.inbound_shutdown
  <1> DEFINE s == c.outbound
             t == Filled(s, c.input)
             rest == Rest(s, c.input)
             pre == o.far_read \o c.to_socket
  <1>1. /\ c \in CopyType /\ s \in CopyStream /\ c.input \in Seq(Octet) /\ Ends(c)
        /\ pre \in Seq(Octet)
    <2>1. /\ c \in CopyType /\ c.to_socket \in Seq(Octet) /\ o.far_read \in Seq(Octet)
      BY DEF Held, CopyType, OthersType
    <2>. QED  BY <2>1, ConcatProperties DEF Held, CopyType
  <1>2. /\ t \in CopyStream /\ rest \in Seq(Octet) /\ Len(t.buffer) <= BufferSize
        /\ (pre \o t.buffer) \o rest = (pre \o s.buffer) \o c.input
        /\ c.input = <<>> => t = end_input(s) /\ rest = <<>>
        /\ c.input # <<>> => t.input_ended = s.input_ended
    BY <1>1, FillKeeps
  <1>3. c.input = <<>> => t.buffer = s.buffer /\ t.input_ended = TRUE
    BY <1>1, <1>2 DEF end_input, CopyStream
  <1>. HIDE DEF t, rest
  <1>4. d = [c EXCEPT !.outbound = t, !.input = rest, !.input_eof = (c.input = <<>>)]
    BY DEF TakeInput, t, rest
  <1>5. d \in CopyType
    BY <1>1, <1>2, <1>4 DEF CopyType
  <1>6. /\ d.outbound = t /\ d.input = rest /\ d.input_eof = (c.input = <<>>)
        /\ d.inbound = c.inbound /\ d.from_socket = c.from_socket
        /\ d.to_socket = c.to_socket /\ d.output = c.output
        /\ d.input_over = c.input_over /\ d.socket_eof = c.socket_eof
        /\ d.far_shut = c.far_shut /\ d.far_gone = c.far_gone
        /\ d.output_broken = c.output_broken /\ d.output_closed = c.output_closed
        /\ d.inbound_shutdown = c.inbound_shutdown /\ d.failed = c.failed
        /\ d.outbound_shutdown = c.outbound_shutdown
    BY <1>1, <1>4 DEF CopyType
  <1>7. s.input_ended => c.input = <<>>
    BY <1>1 DEF Ends
  <1>8. s.input_ended => t.input_ended
    BY <1>3, <1>7
  <1>9. t.input_ended => c.input = <<>> /\ c.input_over /\ rest = <<>>
    BY <1>2, <1>7
  <1>10. c.outbound_shutdown => eof(t)
    <2>1. c.outbound_shutdown => eof(s)
      BY <1>1 DEF Ends
    <2>. QED  BY <1>3, <1>7, <2>1 DEF eof, buffer_empty, buffer_size, input_ended
  <1>11. Ends(d)
    BY <1>1, <1>3, <1>6, <1>9, <1>10 DEF Ends
  <1>12. /\ Way(o.far_read, d.to_socket, d.outbound, d.input, SubSeq(Fed, 1, o.fed))
         /\ Way(o.out_read, d.output, d.inbound, d.from_socket,
                SubSeq(Answer, 1, o.answered))
    BY <1>2, <1>6 DEF Way, Held
  <1>. QED  BY <1>5, <1>6, <1>8, <1>11, <1>12 DEF Held

\* The callback of rule 3.
LEMMA TakeFromSocketKeeps ==
  ASSUME NEW c, NEW o, Held(c, o), c.from_socket # <<>> \/ c.far_shut,
         Len(c.inbound.buffer) < BufferSize, NEW d, d = TakeFromSocket(c)
  PROVE  /\ Held(d, o) /\ (c.inbound.input_ended => d.inbound.input_ended)
         /\ d.outbound = c.outbound /\ d.input = c.input
         /\ d.input_over = c.input_over /\ d.output_broken = c.output_broken
         /\ d.inbound_shutdown = c.inbound_shutdown
  <1> DEFINE s == c.inbound
             t == Filled(s, c.from_socket)
             rest == Rest(s, c.from_socket)
             pre == o.out_read \o c.output
  <1>1. /\ c \in CopyType /\ s \in CopyStream /\ c.from_socket \in Seq(Octet) /\ Ends(c)
        /\ pre \in Seq(Octet)
    <2>1. /\ c \in CopyType /\ c.output \in Seq(Octet) /\ o.out_read \in Seq(Octet)
      BY DEF Held, CopyType, OthersType
    <2>. QED  BY <2>1, ConcatProperties DEF Held, CopyType
  <1>2. /\ t \in CopyStream /\ rest \in Seq(Octet) /\ Len(t.buffer) <= BufferSize
        /\ (pre \o t.buffer) \o rest = (pre \o s.buffer) \o c.from_socket
        /\ c.from_socket = <<>> => t = end_input(s) /\ rest = <<>>
        /\ c.from_socket # <<>> => t.input_ended = s.input_ended
    BY <1>1, FillKeeps
  <1>3. c.from_socket = <<>> => t.buffer = s.buffer /\ t.input_ended = TRUE
    BY <1>1, <1>2 DEF end_input, CopyStream
  <1>. HIDE DEF t, rest
  <1>4. d = [c EXCEPT !.inbound = t, !.from_socket = rest,
                      !.socket_eof = (c.from_socket = <<>>)]
    BY DEF TakeFromSocket, t, rest
  <1>5. d \in CopyType
    BY <1>1, <1>2, <1>4 DEF CopyType
  <1>6. /\ d.inbound = t /\ d.from_socket = rest
        /\ d.socket_eof = (c.from_socket = <<>>)
        /\ d.outbound = c.outbound /\ d.input = c.input
        /\ d.to_socket = c.to_socket /\ d.output = c.output
        /\ d.input_over = c.input_over /\ d.input_eof = c.input_eof
        /\ d.far_shut = c.far_shut /\ d.far_gone = c.far_gone
        /\ d.output_broken = c.output_broken /\ d.output_closed = c.output_closed
        /\ d.inbound_shutdown = c.inbound_shutdown /\ d.failed = c.failed
        /\ d.outbound_shutdown = c.outbound_shutdown
    BY <1>1, <1>4 DEF CopyType
  <1>7. s.input_ended => c.from_socket = <<>>
    BY <1>1 DEF Ends
  <1>8. s.input_ended => t.input_ended
    BY <1>3, <1>7
  <1>9. t.input_ended => c.from_socket = <<>> /\ c.far_shut /\ rest = <<>>
    BY <1>2, <1>7
  <1>10. c.inbound_shutdown => eof(t)
    <2>1. c.inbound_shutdown => eof(s)
      BY <1>1 DEF Ends
    <2>. QED  BY <1>3, <1>7, <2>1 DEF eof, buffer_empty, buffer_size, input_ended
  <1>11. Ends(d)
    BY <1>1, <1>3, <1>6, <1>9, <1>10 DEF Ends
  <1>12. /\ Way(o.far_read, d.to_socket, d.outbound, d.input, SubSeq(Fed, 1, o.fed))
         /\ Way(o.out_read, d.output, d.inbound, d.from_socket,
                SubSeq(Answer, 1, o.answered))
    BY <1>2, <1>6 DEF Way, Held
  <1>. QED  BY <1>5, <1>6, <1>8, <1>11, <1>12 DEF Held

\* The callback of rule 2.
LEMMA GiveToSocketKeeps ==
  ASSUME NEW c, NEW o, Held(c, o), NEW d, d = GiveToSocket(c)
  PROVE  /\ Held(d, o) /\ d.outbound.input_ended = c.outbound.input_ended
         /\ Len(d.outbound.buffer) <= Len(c.outbound.buffer)
         /\ d.inbound = c.inbound /\ d.from_socket = c.from_socket
         /\ d.input = c.input /\ d.input_over = c.input_over
         /\ d.far_shut = c.far_shut /\ d.output_broken = c.output_broken
         /\ d.inbound_shutdown = c.inbound_shutdown
  <1> DEFINE s == c.outbound
             m == Writable(s, c.to_socket, c.room)
             t == pop_output(s, m)
             more == c.to_socket \o peek_output(s, m)
  <1>1. /\ c \in CopyType /\ s \in CopyStream /\ c.to_socket \in Seq(Octet) /\ Ends(c)
        /\ o.far_read \in Seq(Octet) /\ c.room = PipeRoom /\ s.buffer \in Seq(Octet)
    BY DEF Held, CopyType, OthersType, CopyStream
  <1>2. CASE c.far_gone /\ ~buffer_empty(s)
    <2>1. d = [c EXCEPT !.failed = TRUE]
      BY <1>2 DEF GiveToSocket
    <2>2. d \in CopyType
      BY <1>1, <2>1 DEF CopyType
    <2>3. /\ d.inbound = c.inbound /\ d.from_socket = c.from_socket
          /\ d.outbound = c.outbound /\ d.input = c.input
          /\ d.to_socket = c.to_socket /\ d.output = c.output
          /\ d.input_over = c.input_over /\ d.input_eof = c.input_eof
          /\ d.socket_eof = c.socket_eof
          /\ d.far_shut = c.far_shut /\ d.far_gone = c.far_gone
          /\ d.output_broken = c.output_broken /\ d.output_closed = c.output_closed
          /\ d.inbound_shutdown = c.inbound_shutdown
          /\ d.outbound_shutdown = c.outbound_shutdown
      BY <1>1, <2>1 DEF CopyType
    <2>4. Ends(d)
      BY <1>1, <1>2, <2>3 DEF Ends
    <2>5. Held(d, o)
      BY <2>2, <2>3, <2>4 DEF Held
    <2>6. Len(s.buffer) <= Len(s.buffer)
      <3>1. Len(s.buffer) \in Nat
        BY <1>1, LenProperties
      <3>. QED  BY <3>1
    <2>. QED  BY <2>3, <2>5, <2>6
  <1>3. CASE ~(c.far_gone /\ ~buffer_empty(s))
    <2>1. Len(c.to_socket) <= PipeRoom /\ m = Writable(s, c.to_socket, PipeRoom)
      BY <1>1 DEF Held, Way
    <2>2. /\ t \in CopyStream /\ more \in Seq(Octet) /\ Len(t.buffer) <= Len(s.buffer)
          /\ Len(more) <= PipeRoom /\ t.input_ended = s.input_ended
          /\ (o.far_read \o more) \o t.buffer = (o.far_read \o c.to_socket) \o s.buffer
      <3>1. Drained(s, c.to_socket, o.far_read, Writable(s, c.to_socket, PipeRoom))
        BY <1>1, <2>1, DrainKeeps
      <3>. HIDE DEF m
      <3>. QED  BY <2>1, <3>1 DEF Drained
    <2>3. d = [c EXCEPT !.outbound = t, !.to_socket = more,
                        !.outbound_shutdown = c.outbound_shutdown \/ eof(t)]
      BY <1>3 DEF GiveToSocket
    <2>. HIDE DEF t, more
    <2>4. d \in CopyType
      <3>1. (c.outbound_shutdown \/ eof(t)) \in BOOLEAN
        OBVIOUS
      <3>. QED  BY <1>1, <2>2, <2>3, <3>1 DEF CopyType
    <2>5. /\ d.inbound = c.inbound /\ d.from_socket = c.from_socket
          /\ d.outbound = t /\ d.input = c.input
          /\ d.to_socket = more /\ d.output = c.output
          /\ d.input_over = c.input_over /\ d.input_eof = c.input_eof
          /\ d.socket_eof = c.socket_eof
          /\ d.far_shut = c.far_shut /\ d.far_gone = c.far_gone
          /\ d.output_broken = c.output_broken /\ d.output_closed = c.output_closed
          /\ d.inbound_shutdown = c.inbound_shutdown /\ d.failed = c.failed
      BY <1>1, <2>3 DEF CopyType
    <2>6. d.outbound_shutdown <=> (c.outbound_shutdown \/ eof(t))
      BY <1>1, <2>3 DEF CopyType
    <2>7. Len(t.buffer) <= BufferSize /\ (eof(s) => eof(t))
      <3>1. /\ Len(s.buffer) <= BufferSize /\ Len(s.buffer) \in Nat /\ Len(t.buffer) \in Nat
            /\ BufferSize \in Nat
        BY <1>1, <2>2, LenProperties, CopyAssumption DEF Held, Way, CopyStream
      <3>2. Len(t.buffer) <= BufferSize /\ (Len(s.buffer) = 0 => Len(t.buffer) = 0)
        BY <2>2, <3>1
      <3>. QED  BY <2>2, <3>2 DEF eof, buffer_empty, buffer_size, input_ended
    <2>8. Ends(d)
      BY <1>1, <2>2, <2>5, <2>6, <2>7 DEF Ends
    <2>9. /\ Way(o.far_read, d.to_socket, d.outbound, d.input, SubSeq(Fed, 1, o.fed))
          /\ Way(o.out_read, d.output, d.inbound, d.from_socket,
                 SubSeq(Answer, 1, o.answered))
      BY <2>2, <2>5, <2>7 DEF Way, Held
    <2>. QED  BY <2>2, <2>4, <2>5, <2>8, <2>9 DEF Held
  <1>. QED  BY <1>2, <1>3

\* The callback of rule 4.
LEMMA GiveOutputKeeps ==
  ASSUME NEW c, NEW o, Held(c, o), NEW d, d = GiveOutput(c)
  PROVE  /\ Held(d, o) /\ d.inbound.input_ended = c.inbound.input_ended
         /\ Len(d.inbound.buffer) <= Len(c.inbound.buffer)
         /\ d.outbound = c.outbound /\ d.from_socket = c.from_socket
         /\ d.input = c.input /\ d.input_over = c.input_over
         /\ d.far_shut = c.far_shut /\ d.output_broken = c.output_broken
         /\ c.inbound_shutdown => d.inbound_shutdown
  <1> DEFINE s == c.inbound
             m == Writable(s, c.output, c.room)
             t == pop_output(s, m)
             more == c.output \o peek_output(s, m)
  <1>1. /\ c \in CopyType /\ s \in CopyStream /\ c.output \in Seq(Octet) /\ Ends(c)
        /\ o.out_read \in Seq(Octet) /\ c.room = PipeRoom /\ s.buffer \in Seq(Octet)
    BY DEF Held, CopyType, OthersType, CopyStream
  <1>2. Len(c.output) <= PipeRoom /\ m = Writable(s, c.output, PipeRoom)
    BY <1>1 DEF Held, Way
  <1>3. /\ t \in CopyStream /\ more \in Seq(Octet) /\ Len(t.buffer) <= Len(s.buffer)
        /\ Len(more) <= PipeRoom /\ t.input_ended = s.input_ended
        /\ (o.out_read \o more) \o t.buffer = (o.out_read \o c.output) \o s.buffer
    <2>1. Drained(s, c.output, o.out_read, Writable(s, c.output, PipeRoom))
      BY <1>1, <1>2, DrainKeeps
    <2>. HIDE DEF m
    <2>. QED  BY <1>2, <2>1 DEF Drained
  <1>4. d = [c EXCEPT !.inbound = t, !.output = more, !.output_closed = eof(t),
                      !.inbound_shutdown = c.inbound_shutdown \/ eof(t)]
    BY DEF GiveOutput
  <1>. HIDE DEF t, more
  <1>5. d \in CopyType
    <2>1. (c.inbound_shutdown \/ eof(t)) \in BOOLEAN /\ eof(t) \in BOOLEAN
      BY DEF eof, buffer_empty
    <2>. QED  BY <1>1, <1>3, <1>4, <2>1 DEF CopyType
  <1>6. /\ d.inbound = t /\ d.from_socket = c.from_socket
        /\ d.outbound = c.outbound /\ d.input = c.input
        /\ d.to_socket = c.to_socket /\ d.output = more
        /\ d.input_over = c.input_over /\ d.input_eof = c.input_eof
        /\ d.socket_eof = c.socket_eof
        /\ d.far_shut = c.far_shut /\ d.far_gone = c.far_gone
        /\ d.output_broken = c.output_broken
        /\ d.outbound_shutdown = c.outbound_shutdown /\ d.failed = c.failed
    BY <1>1, <1>4 DEF CopyType
  <1>7. /\ d.inbound_shutdown <=> (c.inbound_shutdown \/ eof(t))
        /\ d.output_closed <=> eof(t)
    BY <1>1, <1>4 DEF CopyType
  <1>8. Len(t.buffer) <= BufferSize /\ (eof(s) => eof(t))
    <2>1. /\ Len(s.buffer) <= BufferSize /\ Len(s.buffer) \in Nat /\ Len(t.buffer) \in Nat
          /\ BufferSize \in Nat
      BY <1>1, <1>3, LenProperties, CopyAssumption DEF Held, Way, CopyStream
    <2>2. Len(t.buffer) <= BufferSize /\ (Len(s.buffer) = 0 => Len(t.buffer) = 0)
      BY <1>3, <2>1
    <2>. QED  BY <1>3, <2>2 DEF eof, buffer_empty, buffer_size, input_ended
  <1>9. Ends(d)
    BY <1>1, <1>3, <1>6, <1>7, <1>8 DEF Ends
  <1>10. /\ Way(o.far_read, d.to_socket, d.outbound, d.input, SubSeq(Fed, 1, o.fed))
         /\ Way(o.out_read, d.output, d.inbound, d.from_socket,
                SubSeq(Answer, 1, o.answered))
    BY <1>3, <1>6, <1>8 DEF Way, Held
  <1>. QED  BY <1>3, <1>5, <1>6, <1>7, <1>9, <1>10 DEF Held

\* The end of standard input, seen as a hang-up.
LEMMA CancelKeeps ==
  ASSUME NEW c, NEW o, Held(c, o), c.input_over, c.input = <<>>,
         NEW d, d = Cancel(c, StdinIn)
  PROVE  /\ Held(d, o) /\ d.outbound.input_ended
         /\ d.inbound = c.inbound /\ d.from_socket = c.from_socket
         /\ d.far_shut = c.far_shut /\ d.output_broken = c.output_broken
         /\ d.inbound_shutdown = c.inbound_shutdown
  <1> DEFINE t == end_input(c.outbound)
  <1>1. c \in CopyType /\ c.outbound \in CopyStream /\ Ends(c)
    BY DEF Held, CopyType
  <1>2. /\ t \in CopyStream /\ t.buffer = c.outbound.buffer /\ t.input_ended = TRUE
    BY <1>1 DEF end_input, CopyStream
  <1>. HIDE DEF t
  <1>3. d = [c EXCEPT !.outbound = t]
    BY DEF Cancel, t
  <1>4. d \in CopyType
    BY <1>1, <1>2, <1>3 DEF CopyType
  <1>5. /\ d.inbound = c.inbound /\ d.from_socket = c.from_socket
        /\ d.outbound = t /\ d.input = c.input
        /\ d.to_socket = c.to_socket /\ d.output = c.output
        /\ d.input_over = c.input_over /\ d.input_eof = c.input_eof
        /\ d.socket_eof = c.socket_eof
        /\ d.far_shut = c.far_shut /\ d.far_gone = c.far_gone
        /\ d.output_broken = c.output_broken /\ d.output_closed = c.output_closed
        /\ d.inbound_shutdown = c.inbound_shutdown
        /\ d.outbound_shutdown = c.outbound_shutdown /\ d.failed = c.failed
    BY <1>1, <1>3 DEF CopyType
  <1>6. c.outbound_shutdown => eof(t)
    BY <1>1, <1>2 DEF Ends, eof, buffer_empty, buffer_size, input_ended
  <1>7. Ends(d)
    BY <1>1, <1>2, <1>5, <1>6 DEF Ends
  <1>8. /\ Way(o.far_read, d.to_socket, d.outbound, d.input, SubSeq(Fed, 1, o.fed))
        /\ Way(o.out_read, d.output, d.inbound, d.from_socket,
               SubSeq(Answer, 1, o.answered))
    BY <1>2, <1>5 DEF Way, Held
  <1>. QED  BY <1>2, <1>4, <1>5, <1>7, <1>8 DEF Held

-----------------------------------------------------------------------------
\* The rule whose turn it is, and what is left for the others.
LEMMA FirstProperties ==
  ASSUME NEW todo, DOMAIN todo \subseteq CopyRules, DOMAIN todo # {}
  PROVE  /\ Loop!First(todo) \in DOMAIN todo
         /\ DOMAIN Loop!Others(todo, Loop!First(todo)) = DOMAIN todo \ {Loop!First(todo)}
         /\ \A x \in DOMAIN todo \ {Loop!First(todo)} :
              Loop!Others(todo, Loop!First(todo))[x] = todo[x]
  <1>1. DOMAIN todo \in SUBSET Nat
    BY DEF CopyRules, StdinIn, SocketOut, SocketIn, StdoutOut
  <1>2. \E r \in DOMAIN todo : \A x \in DOMAIN todo : r <= x
    BY <1>1, LeastMember
  <1>3. Loop!First(todo) \in DOMAIN todo
    BY <1>2, Zenon DEF Loop!First
  <1>. QED  BY <1>3 DEF Loop!Others

\* A turn of the second loop keeps the invariant if what it does to the copy
\* leaves the others' results current and the missing rules over.
LEMMA TurnKeeps ==
  ASSUME CopyInv, HandleTurn, NEW r, r = Loop!First(turn.todo), Held(copy', others),
         RulesRight(copy', turn.rules'), copy'.output_broken = copy.output_broken,
         \A x \in DOMAIN turn.todo \ {r} :
           /\ x = StdinIn => /\ copy'.input = copy.input
                             /\ copy'.input_over = copy.input_over
                             /\ Len(copy.outbound.buffer) < BufferSize =>
                                  Len(copy'.outbound.buffer) < BufferSize
           /\ x = SocketIn => /\ copy'.from_socket = copy.from_socket
                              /\ copy'.far_shut = copy.far_shut
                              /\ Len(copy.inbound.buffer) < BufferSize =>
                                   Len(copy'.inbound.buffer) < BufferSize
  PROVE  CopyInv'
  <1> DEFINE result == turn.todo[r]
             rest == Loop!Others(turn.todo, r)
  <1>1. /\ r \in DOMAIN turn.todo /\ DOMAIN rest = DOMAIN turn.todo \ {r}
        /\ \A x \in DOMAIN turn.todo \ {r} : rest[x] = turn.todo[x]
        /\ Current(copy, turn.todo)
    BY FirstProperties DEF CopyInv, Current, HandleTurn
  <1>2. /\ turn.at = "looping" /\ others' = others
        /\ turn' = [rules |-> Loop!Left(turn.rules, r, result), todo |-> rest,
                    at |-> IF copy'.failed \/ Loop!Throws(copy, copy', r, result)
                           THEN "failed" ELSE turn.at]
    BY DEF HandleTurn
  <1>3. Loop!Throws(copy, copy', r, result) => result.error
    BY DEF Loop!Throws, Loop!BusyWait, Serves
  <1>. HIDE DEF rest, result
  <1>4. /\ turn'.todo = rest
        /\ turn' = [rules |-> turn'.rules, todo |-> turn'.todo, at |-> turn'.at]
        /\ turn'.at # "returned"
        /\ turn'.at = "failed" => copy'.failed \/ result.error
    BY <1>2, <1>3
  <1>5. result.error => copy.output_broken
    BY <1>1 DEF Current, result
  <1>6. copy'.failed => copy'.far_gone
    BY DEF Held, Ends
  <1>7. Current(copy', rest)
    BY <1>1 DEF Current
  <1>. QED  BY <1>2, <1>4, <1>5, <1>6, <1>7 DEF CopyInv

\* Each turn of the second loop.
LEMMA HandleKeeps == CopyInv /\ HandleTurn => CopyInv'
  <1> SUFFICES ASSUME CopyInv, HandleTurn PROVE CopyInv'
    OBVIOUS
  <1> DEFINE r == Loop!First(turn.todo)
             result == turn.todo[r]
  <1>1. /\ Held(copy, others) /\ RulesRight(copy, turn.rules)
        /\ Current(copy, turn.todo) /\ r \in DOMAIN turn.todo
    BY FirstProperties DEF CopyInv, Current, HandleTurn
  <1>2. /\ copy' = Loop!Handle(copy, r, result)
        /\ turn.rules' = Loop!Left(turn.rules, r, result)
    BY DEF HandleTurn
  <1>3. /\ r \in CopyRules
        /\ result.error => r = StdoutOut
        /\ Loop!Defunct(result) => r = StdinIn /\ copy.input_over /\ copy.input = <<>>
        /\ r = StdinIn /\ result.ready =>
             /\ copy.input # <<>> \/ copy.input_over
             /\ Len(copy.outbound.buffer) < BufferSize
        /\ r = SocketIn /\ result.ready =>
             /\ copy.from_socket # <<>> \/ copy.far_shut
             /\ Len(copy.inbound.buffer) < BufferSize
    BY <1>1 DEF Current
  <1>4. /\ StdinIn # SocketOut /\ StdinIn # SocketIn /\ StdinIn # StdoutOut
        /\ SocketOut # SocketIn /\ SocketOut # StdoutOut /\ SocketIn # StdoutOut
    BY DEF StdinIn, SocketOut, SocketIn, StdoutOut
  <1>5. /\ Len(copy.outbound.buffer) \in Nat /\ Len(copy.inbound.buffer) \in Nat
        /\ Held(copy', others) =>
             Len(copy'.outbound.buffer) \in Nat /\ Len(copy'.inbound.buffer) \in Nat
    <2>1. \A c : Held(c, others) => c.outbound.buffer \in Seq(Octet)
                                    /\ c.inbound.buffer \in Seq(Octet)
      BY DEF Held, CopyType, CopyStream
    <2>. QED  BY <1>1, <2>1, LenProperties
  <1>6. BufferSize \in Nat
    BY CopyAssumption
  <1>. HIDE DEF r, result
  <1>7. CASE ~result.error /\ Loop!Defunct(result)
    <2>1. r = StdinIn /\ copy.input_over /\ copy.input = <<>>
      BY <1>3, <1>7
    <2>2. /\ copy' = Cancel(copy, StdinIn) /\ turn.rules' = turn.rules \ {StdinIn}
      BY <1>2, <1>7, <2>1 DEF Loop!Handle, Loop!Left
    <2>3. /\ Held(copy', others) /\ copy'.outbound.input_ended
          /\ copy'.inbound = copy.inbound /\ copy'.from_socket = copy.from_socket
          /\ copy'.far_shut = copy.far_shut /\ copy'.output_broken = copy.output_broken
          /\ copy'.inbound_shutdown = copy.inbound_shutdown
      BY <1>1, <2>1, <2>2, CancelKeeps
    <2>4. RulesRight(copy', turn.rules')
      BY <1>1, <1>4, <2>2, <2>3 DEF RulesRight
    <2>. QED  BY <1>4, <2>1, <2>3, <2>4, TurnKeeps DEF r
  <1>8. CASE ~Loop!Defunct(result) /\ (result.error \/ ~result.ready)
    <2>1. copy' = copy /\ turn.rules' = turn.rules
      BY <1>2, <1>8 DEF Loop!Handle, Loop!Left
    <2>. QED  BY <1>1, <2>1, TurnKeeps DEF r
  <1>9. CASE ~result.error /\ ~Loop!Defunct(result) /\ result.ready
    <2>1. copy' = Callback(copy, r) /\ turn.rules' = turn.rules
      BY <1>2, <1>9 DEF Loop!Handle, Loop!Left
    <2>2. CASE r = StdinIn
      <3>1. copy' = TakeInput(copy)
        BY <2>1, <2>2, RuleByRule
      <3>2. /\ Held(copy', others)
            /\ copy.outbound.input_ended => copy'.outbound.input_ended
            /\ copy'.inbound = copy.inbound /\ copy'.from_socket = copy.from_socket
            /\ copy'.far_shut = copy.far_shut /\ copy'.output_broken = copy.output_broken
            /\ copy'.inbound_shutdown = copy.inbound_shutdown
        BY <1>1, <1>3, <1>9, <2>2, <3>1, TakeInputKeeps
      <3>3. RulesRight(copy', turn.rules')
        BY <1>1, <2>1, <3>2 DEF RulesRight
      <3>. QED  BY <1>4, <2>2, <3>2, <3>3, TurnKeeps DEF r
    <2>3. CASE r = SocketIn
      <3>1. copy' = TakeFromSocket(copy)
        BY <2>1, <2>3, RuleByRule
      <3>2. /\ Held(copy', others)
            /\ copy.inbound.input_ended => copy'.inbound.input_ended
            /\ copy'.outbound = copy.outbound /\ copy'.input = copy.input
            /\ copy'.input_over = copy.input_over
            /\ copy'.output_broken = copy.output_broken
            /\ copy'.inbound_shutdown = copy.inbound_shutdown
        BY <1>1, <1>3, <1>9, <2>3, <3>1, TakeFromSocketKeeps
      <3>3. RulesRight(copy', turn.rules')
        BY <1>1, <2>1, <3>2 DEF RulesRight
      <3>. QED  BY <1>4, <2>3, <3>2, <3>3, TurnKeeps DEF r
    <2>4. CASE r = SocketOut
      <3>1. copy' = GiveToSocket(copy)
        BY <2>1, <2>4, RuleByRule
      <3>2. /\ Held(copy', others)
            /\ copy'.outbound.input_ended = copy.outbound.input_ended
            /\ Len(copy'.outbound.buffer) <= Len(copy.outbound.buffer)
            /\ copy'.inbound = copy.inbound /\ copy'.from_socket = copy.from_socket
            /\ copy'.input = copy.input /\ copy'.input_over = copy.input_over
            /\ copy'.far_shut = copy.far_shut /\ copy'.output_broken = copy.output_broken
            /\ copy'.inbound_shutdown = copy.inbound_shutdown
        BY <1>1, <3>1, GiveToSocketKeeps
      <3>3. RulesRight(copy', turn.rules')
        BY <1>1, <2>1, <3>2 DEF RulesRight
      <3>4. Len(copy.outbound.buffer) < BufferSize => Len(copy'.outbound.buffer) < BufferSize
        BY <1>5, <1>6, <3>2
      <3>. QED  BY <3>2, <3>3, <3>4, TurnKeeps DEF r
    <2>5. CASE r = StdoutOut
      <3>1. copy' = GiveOutput(copy)
        BY <2>1, <2>5, RuleByRule
      <3>2. /\ Held(copy', others)
            /\ copy'.inbound.input_ended = copy.inbound.input_ended
            /\ Len(copy'.inbound.buffer) <= Len(copy.inbound.buffer)
            /\ copy'.outbound = copy.outbound /\ copy'.from_socket = copy.from_socket
            /\ copy'.input = copy.input /\ copy'.input_over = copy.input_over
            /\ copy'.far_shut = copy.far_shut /\ copy'.output_broken = copy.output_broken
            /\ copy.inbound_shutdown => copy'.inbound_shutdown
        BY <1>1, <3>1, GiveOutputKeeps
      <3>3. RulesRight(copy', turn.rules')
        BY <1>1, <2>1, <3>2 DEF RulesRight
      <3>4. Len(copy.inbound.buffer) < BufferSize => Len(copy'.inbound.buffer) < BufferSize
        BY <1>5, <1>6, <3>2
      <3>. QED  BY <3>2, <3>3, <3>4, TurnKeeps DEF r
    <2>. QED  BY <1>3, <2>2, <2>3, <2>4, <2>5 DEF CopyRules
  <1>10. Loop!Defunct(result) => ~result.error
    BY <1>3, <1>4
  <1>. QED  BY <1>7, <1>8, <1>9, <1>10

-----------------------------------------------------------------------------
\* The others add to the sources, take from the targets, or go: what poll(2)
\* said before still holds.
LEMMA OutsideKeeps ==
  ASSUME CopyInv, turn' = turn, Held(copy', others'),
         copy'.outbound = copy.outbound, copy'.inbound = copy.inbound,
         copy'.outbound_shutdown = copy.outbound_shutdown,
         copy'.inbound_shutdown = copy.inbound_shutdown,
         copy.input_over => copy'.input_over /\ copy'.input = copy.input,
         copy.input # <<>> => copy'.input # <<>>,
         copy.from_socket # <<>> => copy'.from_socket # <<>>,
         copy.far_shut => copy'.far_shut, copy.far_gone => copy'.far_gone,
         copy.output_broken => copy'.output_broken
  PROVE  CopyInv'
  <1>1. RulesRight(copy', turn.rules)
    BY DEF CopyInv, RulesRight
  <1>2. Current(copy', turn.todo)
    BY DEF CopyInv, Current
  <1>. QED  BY <1>1, <1>2 DEF CopyInv

\* One more byte is given.
Grows(all, k, pre, source) ==
  /\ pre \o Append(source, all[k + 1]) = SubSeq(all, 1, k + 1)
  /\ Append(source, all[k + 1]) \in Seq(Octet)
  /\ Append(source, all[k + 1]) # <<>> /\ k + 1 \in 0 .. Len(all)

\* One more byte of a side appears at the end of the source.
LEMMA GivenGrows ==
  ASSUME NEW all \in Seq(Octet), NEW k \in 0 .. Len(all), k < Len(all),
         NEW pre \in Seq(Octet), NEW source \in Seq(Octet),
         pre \o source = SubSeq(all, 1, k)
  PROVE  Grows(all, k, pre, source)
  <1> DEFINE x == all[k + 1]
  <1>1. /\ Len(all) \in Nat /\ 1 \in 1 .. Len(all) /\ k + 1 \in 1 .. Len(all)
        /\ (k + 1) - 1 = k /\ k + 1 \in 0 .. Len(all)
    BY LenProperties
  <1>2. x \in Octet
    BY <1>1, ElementOfSeq
  <1>3. SubSeq(all, 1, k + 1) = SubSeq(all, 1, k) \o <<x>>
    <2>1. SubSeq(all, 1, k + 1) = SubSeq(all, 1, (k + 1) - 1) \o <<all[k + 1]>>
      BY <1>1, SubSeqRecursiveSecond
    <2>. QED  BY <1>1, <2>1
  <1>4. <<x>> \in Seq(Octet)
    BY <1>2
  <1>. HIDE DEF x
  <1>5. (pre \o source) \o <<x>> = pre \o (source \o <<x>>)
    BY <1>4, OctetsAssociative
  <1>6. /\ Append(source, x) = source \o <<x>> /\ Append(source, x) \in Seq(Octet)
        /\ Append(source, x) # <<>>
    BY <1>2, AppendIsConcat, AppendProperties
  <1>. QED  BY <1>1, <1>3, <1>5, <1>6 DEF Grows, x

\* The bytes of both sides are octets.
LEMMA GivenType ==
  Fed \in Seq(Octet) /\ Answer \in Seq(Octet)
  <1>1. /\ {Fed[i] : i \in DOMAIN Fed} \subseteq Octet
        /\ {Answer[i] : i \in DOMAIN Answer} \subseteq Octet
    BY DEF Octet
  <1>2. \A S, T : S \subseteq T => Seq(S) \subseteq Seq(T)
    BY SeqDef
  <1>. QED  BY <1>1, <1>2, CopyAssumption

\* Standard input is fed, and ends.
LEMMA FeedKeeps == CopyInv /\ Feed => CopyInv'
  <1> SUFFICES ASSUME CopyInv, Feed PROVE CopyInv'
    OBVIOUS
  <1> DEFINE k == others.fed
             input == Append(copy.input, Fed[k + 1])
             pre == (others.far_read \o copy.to_socket) \o copy.outbound.buffer
  <1>1. /\ Held(copy, others) /\ copy \in CopyType /\ others \in OthersType /\ Ends(copy)
    BY DEF CopyInv, Held
  <1>2. /\ others.far_read \in Seq(Octet) /\ copy.to_socket \in Seq(Octet)
        /\ copy.outbound.buffer \in Seq(Octet) /\ copy.input \in Seq(Octet)
        /\ k \in 0 .. Len(Fed) /\ ~copy.outbound.input_ended
    BY <1>1 DEF CopyType, CopyStream, OthersType, Ends, Feed
  <1>3. pre \in Seq(Octet)
    BY <1>2, ConcatProperties
  <1>4. /\ pre \o input = SubSeq(Fed, 1, k + 1) /\ input \in Seq(Octet) /\ input # <<>>
        /\ k + 1 \in 0 .. Len(Fed)
    <2>1. pre \o copy.input = SubSeq(Fed, 1, k) /\ k < Len(Fed)
      BY <1>1 DEF Held, Way, Feed
    <2>2. Fed \in Seq(Octet)
      BY GivenType
    <2>. HIDE DEF pre, k
    <2>3. Grows(Fed, k, pre, copy.input)
      BY <1>2, <1>3, <2>1, <2>2, GivenGrows
    <2>. QED  BY <2>3 DEF Grows
  <1>5. /\ copy' = [copy EXCEPT !.input = input] /\ turn' = turn
        /\ others' = [others EXCEPT !.fed = k + 1] /\ ~copy.input_over
    BY DEF Feed
  <1>. HIDE DEF input
  <1>6. copy' \in CopyType /\ others' \in OthersType
    BY <1>1, <1>4, <1>5 DEF CopyType, OthersType
  <1>7. /\ copy'.input = input /\ copy'.outbound = copy.outbound
        /\ copy'.inbound = copy.inbound /\ copy'.from_socket = copy.from_socket
        /\ copy'.to_socket = copy.to_socket /\ copy'.output = copy.output
        /\ copy'.input_over = copy.input_over /\ copy'.input_eof = copy.input_eof
        /\ copy'.socket_eof = copy.socket_eof /\ copy'.far_shut = copy.far_shut
        /\ copy'.far_gone = copy.far_gone /\ copy'.failed = copy.failed
        /\ copy'.output_broken = copy.output_broken
        /\ copy'.output_closed = copy.output_closed
        /\ copy'.inbound_shutdown = copy.inbound_shutdown
        /\ copy'.outbound_shutdown = copy.outbound_shutdown
        /\ others'.fed = k + 1 /\ others'.answered = others.answered
        /\ others'.far_read = others.far_read /\ others'.out_read = others.out_read
    BY <1>1, <1>5 DEF CopyType, OthersType
  <1>8. Ends(copy')
    BY <1>1, <1>2, <1>7 DEF Ends
  <1>9. Held(copy', others')
    BY <1>1, <1>4, <1>6, <1>7, <1>8 DEF Held, Way
  <1>. QED  BY <1>4, <1>5, <1>7, <1>9, OutsideKeeps

\* The far end writes.
LEMMA FarWritesKeeps == CopyInv /\ FarWrites => CopyInv'
  <1> SUFFICES ASSUME CopyInv, FarWrites PROVE CopyInv'
    OBVIOUS
  <1> DEFINE k == others.answered
             source == Append(copy.from_socket, Answer[k + 1])
             pre == (others.out_read \o copy.output) \o copy.inbound.buffer
  <1>1. /\ Held(copy, others) /\ copy \in CopyType /\ others \in OthersType /\ Ends(copy)
    BY DEF CopyInv, Held
  <1>2. /\ others.out_read \in Seq(Octet) /\ copy.output \in Seq(Octet)
        /\ copy.inbound.buffer \in Seq(Octet) /\ copy.from_socket \in Seq(Octet)
        /\ k \in 0 .. Len(Answer) /\ ~copy.inbound.input_ended
    BY <1>1 DEF CopyType, CopyStream, OthersType, Ends, FarWrites
  <1>3. pre \in Seq(Octet)
    BY <1>2, ConcatProperties
  <1>4. /\ pre \o source = SubSeq(Answer, 1, k + 1) /\ source \in Seq(Octet)
        /\ source # <<>> /\ k + 1 \in 0 .. Len(Answer)
    <2>1. pre \o copy.from_socket = SubSeq(Answer, 1, k) /\ k < Len(Answer)
      BY <1>1 DEF Held, Way, FarWrites
    <2>2. Answer \in Seq(Octet)
      BY GivenType
    <2>. HIDE DEF pre, k
    <2>3. Grows(Answer, k, pre, copy.from_socket)
      BY <1>2, <1>3, <2>1, <2>2, GivenGrows
    <2>. QED  BY <2>3 DEF Grows
  <1>5. /\ copy' = [copy EXCEPT !.from_socket = source] /\ turn' = turn
        /\ others' = [others EXCEPT !.answered = k + 1] /\ ~copy.far_shut
    BY DEF FarWrites
  <1>. HIDE DEF source
  <1>6. copy' \in CopyType /\ others' \in OthersType
    BY <1>1, <1>4, <1>5 DEF CopyType, OthersType
  <1>7. /\ copy'.from_socket = source /\ copy'.outbound = copy.outbound
        /\ copy'.inbound = copy.inbound /\ copy'.input = copy.input
        /\ copy'.to_socket = copy.to_socket /\ copy'.output = copy.output
        /\ copy'.input_over = copy.input_over /\ copy'.input_eof = copy.input_eof
        /\ copy'.socket_eof = copy.socket_eof /\ copy'.far_shut = copy.far_shut
        /\ copy'.far_gone = copy.far_gone /\ copy'.failed = copy.failed
        /\ copy'.output_broken = copy.output_broken
        /\ copy'.output_closed = copy.output_closed
        /\ copy'.inbound_shutdown = copy.inbound_shutdown
        /\ copy'.outbound_shutdown = copy.outbound_shutdown
        /\ others'.fed = others.fed /\ others'.answered = k + 1
        /\ others'.far_read = others.far_read /\ others'.out_read = others.out_read
    BY <1>1, <1>5 DEF CopyType, OthersType
  <1>8. Ends(copy')
    BY <1>1, <1>2, <1>7 DEF Ends
  <1>9. Held(copy', others')
    BY <1>1, <1>4, <1>6, <1>7, <1>8 DEF Held, Way
  <1>. QED  BY <1>4, <1>5, <1>7, <1>9, OutsideKeeps

\* The other sides end, or go.
LEMMA EndsKeep ==
  ASSUME CopyInv, FeedEnds \/ FarShuts \/ FarGoes \/ ReaderGoes
  PROVE  CopyInv'
  <1>1. /\ Held(copy, others) /\ copy \in CopyType /\ Ends(copy) /\ others' = others
        /\ turn' = turn
    BY DEF CopyInv, Held, FeedEnds, FarShuts, FarGoes, ReaderGoes
  <1>2. /\ copy' \in CopyType /\ copy'.outbound = copy.outbound
        /\ copy'.inbound = copy.inbound /\ copy'.from_socket = copy.from_socket
        /\ copy'.input = copy.input /\ copy'.failed = copy.failed
        /\ copy'.to_socket = copy.to_socket /\ copy'.output = copy.output
        /\ copy'.input_eof = copy.input_eof /\ copy'.socket_eof = copy.socket_eof
        /\ copy'.output_closed = copy.output_closed
        /\ copy'.inbound_shutdown = copy.inbound_shutdown
        /\ copy'.outbound_shutdown = copy.outbound_shutdown
        /\ copy.input_over => copy'.input_over
        /\ copy.far_shut => copy'.far_shut
        /\ copy.far_gone => copy'.far_gone
        /\ copy.output_broken => copy'.output_broken
        /\ copy'.far_gone => copy'.far_shut
    <2>1. CASE FeedEnds
      <3>1. copy' = [copy EXCEPT !.input_over = TRUE]
        BY <2>1 DEF FeedEnds
      <3>. QED  BY <1>1, <3>1 DEF CopyType, Ends
    <2>2. CASE FarShuts
      <3>1. copy' = [copy EXCEPT !.far_shut = TRUE]
        BY <2>2 DEF FarShuts
      <3>. QED  BY <1>1, <3>1 DEF CopyType, Ends
    <2>3. CASE FarGoes
      <3>1. copy' = [copy EXCEPT !.far_gone = TRUE, !.far_shut = TRUE]
        BY <2>3 DEF FarGoes
      <3>. QED  BY <1>1, <3>1 DEF CopyType, Ends
    <2>4. CASE ReaderGoes
      <3>1. copy' = [copy EXCEPT !.output_broken = TRUE]
        BY <2>4 DEF ReaderGoes
      <3>. QED  BY <1>1, <3>1 DEF CopyType, Ends
    <2>. QED  BY <2>1, <2>2, <2>3, <2>4
  <1>3. Ends(copy')
    BY <1>1, <1>2 DEF Ends
  <1>4. Held(copy', others')
    BY <1>1, <1>2, <1>3 DEF Held
  <1>. QED  BY <1>1, <1>2, <1>4, OutsideKeeps

\* The far end and the reader of standard output take what they are given.
LEMMA ReadsKeep ==
  ASSUME CopyInv, FarReads \/ OutputRead
  PROVE  CopyInv'
  <1>1. /\ Held(copy, others) /\ copy \in CopyType /\ others \in OthersType
        /\ Ends(copy) /\ turn' = turn
    BY DEF CopyInv, Held, FarReads, OutputRead
  <1>2. /\ others.far_read \in Seq(Octet) /\ copy.to_socket \in Seq(Octet)
        /\ others.out_read \in Seq(Octet) /\ copy.output \in Seq(Octet)
    BY <1>1 DEF CopyType, OthersType
  <1>3. /\ <<>> \in Seq(Octet) /\ Len(<<>>) <= PipeRoom
        /\ others.far_read \o copy.to_socket \in Seq(Octet)
        /\ others.out_read \o copy.output \in Seq(Octet)
        /\ (others.far_read \o copy.to_socket) \o <<>> = others.far_read \o copy.to_socket
        /\ (others.out_read \o copy.output) \o <<>> = others.out_read \o copy.output
    <2>1. /\ others.far_read \o copy.to_socket \in Seq(Octet)
          /\ others.out_read \o copy.output \in Seq(Octet)
      BY <1>2, ConcatProperties
    <2>2. <<>> \in Seq(Octet) /\ Len(<<>>) <= PipeRoom
      BY EmptySeq, CopyAssumption
    <2>3. /\ (others.far_read \o copy.to_socket) \o <<>> = others.far_read \o copy.to_socket
          /\ (others.out_read \o copy.output) \o <<>> = others.out_read \o copy.output
      BY <2>1, ConcatEmptySeq
    <2>. QED  BY <2>1, <2>2, <2>3
  <1>4. /\ copy' \in CopyType /\ others' \in OthersType
        /\ copy'.outbound = copy.outbound
        /\ copy'.inbound = copy.inbound /\ copy'.from_socket = copy.from_socket
        /\ copy'.input = copy.input /\ copy'.input_over = copy.input_over
        /\ copy'.input_eof = copy.input_eof /\ copy'.socket_eof = copy.socket_eof
        /\ copy'.far_shut = copy.far_shut /\ copy'.far_gone = copy.far_gone
        /\ copy'.failed = copy.failed /\ copy'.output_broken = copy.output_broken
        /\ copy'.output_closed = copy.output_closed
        /\ copy'.inbound_shutdown = copy.inbound_shutdown
        /\ copy'.outbound_shutdown = copy.outbound_shutdown
        /\ others'.fed = others.fed /\ others'.answered = others.answered
        /\ others'.far_read \o copy'.to_socket = others.far_read \o copy.to_socket
        /\ others'.out_read \o copy'.output = others.out_read \o copy.output
        /\ Len(copy'.to_socket) <= PipeRoom /\ Len(copy'.output) <= PipeRoom
    <2>1. Len(copy.to_socket) <= PipeRoom /\ Len(copy.output) <= PipeRoom
      BY <1>1 DEF Held, Way
    <2>2. CASE FarReads
      <3>1. /\ copy' = [copy EXCEPT !.to_socket = <<>>]
            /\ others' = [others EXCEPT !.far_read = others.far_read \o copy.to_socket]
        BY <2>2 DEF FarReads
      <3>2. copy' \in CopyType /\ others' \in OthersType
        BY <1>1, <1>3, <3>1 DEF CopyType, OthersType
      <3>. QED  BY <1>1, <1>3, <2>1, <3>1, <3>2 DEF CopyType, OthersType
    <2>3. CASE OutputRead
      <3>1. /\ copy' = [copy EXCEPT !.output = <<>>]
            /\ others' = [others EXCEPT !.out_read = others.out_read \o copy.output]
        BY <2>3 DEF OutputRead
      <3>2. copy' \in CopyType /\ others' \in OthersType
        BY <1>1, <1>3, <3>1 DEF CopyType, OthersType
      <3>. QED  BY <1>1, <1>3, <2>1, <3>1, <3>2 DEF CopyType, OthersType
    <2>. QED  BY <2>2, <2>3
  <1>5. Ends(copy')
    BY <1>1, <1>4 DEF Ends
  <1>6. Held(copy', others')
    BY <1>1, <1>4, <1>5 DEF Held, Way
  <1>. QED  BY <1>1, <1>4, <1>6, OutsideKeeps

\* Nothing is given, held or polled yet.
LEMMA CopyInitHolds == CopyInit => CopyInv
  <1> SUFFICES ASSUME CopyInit PROVE CopyInv
    OBVIOUS
  <1>1. PICK kind \in InputKinds : copy = NewCopy(BufferSize, PipeRoom, kind)
    BY DEF CopyInit
  <1>2. /\ turn = [rules |-> CopyRules, todo |-> <<>>, at |-> "looping"]
        /\ others = [fed |-> 0, answered |-> 0, far_read |-> <<>>, out_read |-> <<>>]
    BY DEF CopyInit
  <1>3. /\ <<>> \in Seq(Octet) /\ Len(<<>>) = 0 /\ DOMAIN <<>> = {}
        /\ <<>> \o <<>> = <<>>
    <2>1. <<>> \in Seq(Octet) /\ Len(<<>>) = 0
      BY EmptySeq
    <2>2. DOMAIN <<>> = 1 .. 0
      BY <2>1, LenProperties
    <2>3. <<>> \o <<>> = <<>>
      BY <2>1, ConcatEmptySeq
    <2>. QED  BY <2>1, <2>2, <2>3
  <1>4. NewByteStream(BufferSize) \in CopyStream
    BY <1>3 DEF NewByteStream, CopyStream
  <1>5. copy \in CopyType
    BY <1>1, <1>3, <1>4 DEF NewCopy, CopyType
  <1>6. /\ copy.outbound = NewByteStream(BufferSize)
        /\ copy.inbound = NewByteStream(BufferSize)
        /\ copy.outbound_shutdown = FALSE /\ copy.inbound_shutdown = FALSE
        /\ copy.input = <<>> /\ copy.to_socket = <<>> /\ copy.from_socket = <<>>
        /\ copy.output = <<>> /\ copy.input_eof = FALSE /\ copy.socket_eof = FALSE
        /\ copy.far_gone = FALSE /\ copy.output_closed = FALSE /\ copy.failed = FALSE
    BY <1>1 DEF NewCopy
  <1>7. /\ copy.outbound.input_ended = FALSE /\ copy.outbound.buffer = <<>>
        /\ copy.inbound.input_ended = FALSE /\ copy.inbound.buffer = <<>>
    BY <1>6 DEF NewByteStream
  <1>8. others \in OthersType
    <2>1. 0 \in 0 .. Len(Fed) /\ 0 \in 0 .. Len(Answer)
      BY GivenType, LenProperties
    <2>. QED  BY <1>2, <1>3, <2>1 DEF OthersType
  <1>9. /\ Way(others.far_read, copy.to_socket, copy.outbound, copy.input,
               SubSeq(Fed, 1, others.fed))
        /\ Way(others.out_read, copy.output, copy.inbound, copy.from_socket,
               SubSeq(Answer, 1, others.answered))
    <2>1. SubSeq(Fed, 1, 0) = <<>> /\ SubSeq(Answer, 1, 0) = <<>>
      BY GivenType, SubSeqEmpty
    <2>2. 0 <= PipeRoom /\ 0 <= BufferSize
      BY CopyAssumption
    <2>. QED  BY <1>2, <1>3, <1>6, <1>7, <2>1, <2>2 DEF Way
  <1>10. Ends(copy)
    BY <1>6, <1>7 DEF Ends
  <1>11. RulesRight(copy, turn.rules)
    BY <1>2 DEF RulesRight, CopyRules
  <1>12. Current(copy, turn.todo)
    BY <1>2, <1>3 DEF Current
  <1>13. /\ turn = [rules |-> turn.rules, todo |-> turn.todo, at |-> turn.at]
         /\ turn.at = "looping"
    BY <1>2
  <1>. QED  BY <1>5, <1>8, <1>9, <1>10, <1>11, <1>12, <1>13 DEF CopyInv, Held

\* bidirectional_stream_copy() passes every byte on in order and once, both ways,
\* whatever the buffers and the pipes hold and however its callbacks and the
\* others take turns; it ends a side only after the other's last byte, returns
\* only when both are ended and throws only when someone has gone.
THEOREM CopiedInOrderHolds == CopySpec => []CopiedInOrder
  <1>1. CopyInit => CopyInv
    BY CopyInitHolds
  <1>2. CopyInv /\ [CopyNext]_copy_vars => CopyInv'
    <2>. SUFFICES ASSUME CopyInv, [CopyNext]_copy_vars PROVE CopyInv'
      OBVIOUS
    <2>1. CASE CopyNext
      BY <2>1, PollKeeps, HandleKeeps, FeedKeeps, FarWritesKeeps, EndsKeep, ReadsKeep
      DEF CopyNext
    <2>2. CASE UNCHANGED copy_vars
      BY <2>2 DEF copy_vars, CopyInv
    <2>. QED  BY <2>1, <2>2
  <1>3. CopyInv => CopiedInOrder
    BY DEF CopyInv, Held, Way, Ends, CopiedInOrder, eof, input_ended
  <1>. QED  BY <1>1, <1>2, <1>3, PTL DEF CopySpec
=============================================================================
