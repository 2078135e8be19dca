--------------------------- MODULE StreamCopySpec ---------------------------
(***************************************************************************)
(* bidirectional_stream_copy() between someone who feeds its standard      *)
(* input, the far end of its socket, and someone who reads its output.     *)
(* They act between any two callbacks; the far end, or the reader, may go. *)
(***************************************************************************)
EXTENDS StreamCopy

CONSTANTS
  Fed,          \* the bytes for standard input
  Answer,       \* the bytes the far end writes
  BufferSize,   \* buffer_size
  PipeRoom,     \* how much a pipe or the socket holds
  InputKinds    \* what standard input is: "pipe", "file"

ASSUME CopyAssumption ==
  /\ Fed \in Seq({Fed[i] : i \in DOMAIN Fed})
  /\ Answer \in Seq({Answer[i] : i \in DOMAIN Answer})
  /\ BufferSize \in Nat \ {0} /\ PipeRoom \in Nat
  /\ max_copy_length \in Nat \ {0}

VARIABLES
  copy,     \* the copy, see StreamCopy
  turn,     \* its event loop: rules left, results to handle, and where it is
  others    \* what the others have done

copy_vars == <<copy, turn, others>>

CopyInit ==
  /\ \E kind \in InputKinds : copy = NewCopy(BufferSize, PipeRoom, kind)
  /\ turn = [rules |-> CopyRules, todo |-> <<>>, at |-> "looping"]
  /\ others = [fed |-> 0, answered |-> 0, far_read |-> <<>>, out_read |-> <<>>]

\* wait_next_event(), up to the return of poll(2).
Polled ==
  LET After(set) ==
        [copy |-> set.w,
         turn |-> IF Loop!SomethingToPoll(set)
                  THEN [turn EXCEPT !.rules = set.polled,
                                    !.todo = Loop!Effective(Loop!Poll(set))]
                  ELSE [turn EXCEPT !.at = "returned"]]
  IN  After(Loop!SetUp(copy, turn.rules))

PollTurn ==
  /\ turn.at = "looping" /\ DOMAIN turn.todo = {}
  /\ \E polled \in {Polled} : copy' = polled.copy /\ turn' = polled.turn
  /\ UNCHANGED others

HandleTurn ==
  LET r == Loop!First(turn.todo)
      result == turn.todo[r]
  IN  /\ turn.at = "looping" /\ DOMAIN turn.todo # {}
      /\ copy' = Loop!Handle(copy, r, result)
      /\ turn' = [rules |-> Loop!Left(turn.rules, r, result),
                  todo |-> Loop!Others(turn.todo, r),
                  at |-> IF copy'.failed \/ Loop!Throws(copy, copy', r, result)
                         THEN "failed" ELSE turn.at]
      /\ UNCHANGED others

-----------------------------------------------------------------------------
(* Standard input is fed and ends. *)
Feed ==
  /\ others.fed < Len(Fed) /\ ~copy.input_over
  /\ copy' = [copy EXCEPT !.input = Append(@, Fed[others.fed + 1])]
  /\ others' = [others EXCEPT !.fed = @ + 1]
  /\ UNCHANGED turn

FeedEnds ==
  /\ ~copy.input_over
  /\ copy' = [copy EXCEPT !.input_over = TRUE]
  /\ UNCHANGED <<turn, others>>

(* The far end. *)
FarReads ==
  /\ copy.to_socket # <<>> /\ ~copy.far_gone
  /\ others' = [others EXCEPT !.far_read = @ \o copy.to_socket]
  /\ copy' = [copy EXCEPT !.to_socket = <<>>]
  /\ UNCHANGED turn

FarWrites ==
  /\ others.answered < Len(Answer) /\ ~copy.far_shut /\ ~copy.far_gone
  /\ Len(copy.from_socket) < PipeRoom
  /\ copy' = [copy EXCEPT !.from_socket = Append(@, Answer[others.answered + 1])]
  /\ others' = [others EXCEPT !.answered = @ + 1]
  /\ UNCHANGED turn

FarShuts ==
  /\ ~copy.far_shut
  /\ copy' = [copy EXCEPT !.far_shut = TRUE]
  /\ UNCHANGED <<turn, others>>

FarGoes ==
  /\ ~copy.far_gone
  /\ copy' = [copy EXCEPT !.far_gone = TRUE, !.far_shut = TRUE]
  /\ UNCHANGED <<turn, others>>

(* The reader of standard output. *)
OutputRead ==
  /\ copy.output # <<>> /\ ~copy.output_broken
  /\ others' = [others EXCEPT !.out_read = @ \o copy.output]
  /\ copy' = [copy EXCEPT !.output = <<>>]
  /\ UNCHANGED turn

ReaderGoes ==
  /\ ~copy.output_broken
  /\ copy' = [copy EXCEPT !.output_broken = TRUE]
  /\ UNCHANGED <<turn, others>>

CopyNext ==
  \/ PollTurn \/ HandleTurn
  \/ Feed \/ FeedEnds
  \/ FarReads \/ FarWrites \/ FarShuts \/ FarGoes
  \/ OutputRead \/ ReaderGoes

CopySpec == CopyInit /\ [][CopyNext]_copy_vars

\* The loop would go round without anything changing.
Idle == DOMAIN turn.todo = {} /\ Polled = [copy |-> copy, turn |-> turn]

\* The process runs; the far end and the reader take what they are given.  The
\* enabling conditions are spelled out, which TLC evaluates faster.
CopyFairness ==
  /\ []<>(turn.at # "looping" \/ Idle) \/ []<><<PollTurn \/ HandleTurn>>_copy_vars
  /\ []<>(copy.to_socket = <<>> \/ copy.far_gone) \/ []<><<FarReads>>_copy_vars
  /\ []<>(copy.output = <<>> \/ copy.output_broken) \/ []<><<OutputRead>>_copy_vars

FairCopySpec == CopySpec /\ CopyFairness

-----------------------------------------------------------------------------
\* Both ways every byte goes on in order, once, through partial writes and
\* full buffers.  The socket is shut down, or the output closed, when the other
\* side has ended and its last byte has gone on, however the end shows.  The
\* copy returns when both have been, and throws only when someone has gone.
CopiedInOrder ==
  /\ others.far_read \o copy.to_socket \o copy.outbound.buffer \o copy.input
       = SubSeq(Fed, 1, others.fed)
  /\ others.out_read \o copy.output \o copy.inbound.buffer \o copy.from_socket
       = SubSeq(Answer, 1, others.answered)
  /\ copy.outbound_shutdown =>
       copy.input_over /\ copy.input = <<>> /\ buffer_empty(copy.outbound)
  /\ copy.inbound_shutdown =>
       copy.far_shut /\ copy.from_socket = <<>> /\ buffer_empty(copy.inbound)
  /\ turn.at = "returned" => copy.outbound_shutdown /\ copy.inbound_shutdown
  /\ turn.at = "failed" => copy.far_gone \/ copy.output_broken

\* When both sides have ended, bidirectional_stream_copy() returns or throws.
CopyReturns ==
  (copy.input_over /\ copy.far_shut) ~> (turn.at # "looping")
=============================================================================
