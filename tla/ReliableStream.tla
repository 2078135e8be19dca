--------------------------- MODULE ReliableStream ---------------------------
(***************************************************************************)
(* What everything between a writer and a reader promises: the reader gets *)
(* the bytes written, in order, each of them once, and is told that the    *)
(* stream has ended only when it has and the reader has all of it.         *)
(***************************************************************************)
EXTENDS Integers, Sequences

VARIABLES
  written,     \* the bytes written so far
  ended,       \* the writer has ended the stream
  delivered,   \* the bytes read so far
  told         \* the reader knows that there will be no more

vars == <<written, ended, delivered, told>>

Extends(longer, shorter) ==
  Len(shorter) <= Len(longer) /\ SubSeq(longer, 1, Len(shorter)) = shorter

Init == written = <<>> /\ ~ended /\ delivered = <<>> /\ ~told

AtEnd == ended /\ delivered = written

Write ==
  /\ ~ended
  /\ Extends(written', written)
  /\ UNCHANGED <<ended, delivered, told>>

End ==
  /\ ended'
  /\ told' => told \/ AtEnd'
  /\ UNCHANGED <<written, delivered>>

Deliver ==
  /\ ~told
  /\ Extends(delivered', delivered) /\ Extends(written, delivered')
  /\ told' => AtEnd'
  /\ UNCHANGED <<written, ended>>

Next == Write \/ End \/ Deliver

Spec == Init /\ [][Next]_vars
=============================================================================
