------------------------- MODULE WrappingInt32Spec -------------------------
(***************************************************************************)
(* WrappingInt32 for every sequence number and every initial sequence      *)
(* number, while the checkpoint sweeps over several turns of the sequence  *)
(* space.                                                                  *)
(***************************************************************************)
EXTENDS WrappingInt32

CONSTANT MaxCheckpoint

ASSUME MaxCheckpointAssumption == MaxCheckpoint \in Nat

VARIABLES n, isn, checkpoint

wrap_vars == <<n, isn, checkpoint>>

WrapInit ==
  /\ n \in SeqNos
  /\ isn \in SeqNos
  /\ checkpoint = 0

Sweep ==
  /\ checkpoint' = (checkpoint + 1) % (MaxCheckpoint + 1)
  /\ UNCHANGED <<n, isn>>

WrapSpec == WrapInit /\ [][Sweep]_wrap_vars

-----------------------------------------------------------------------------
\* unwrap() returns a number that wraps to its argument, and no other number
\* that does is closer to the checkpoint (wrapping_integers.cc:26).
UnwrapClosest ==
  LET u == unwrap(n, isn, checkpoint)
  IN  /\ u >= 0
      /\ wrap(u, isn) = n
      /\ \A m \in 0 .. MaxCheckpoint + 2 * SeqMod :
           wrap(m, isn) = n => Distance(u, checkpoint) <= Distance(m, checkpoint)

\* What the peers rely on: an absolute number within half a turn of the
\* checkpoint survives the trip through the wire format.
RoundTrip ==
  \A m \in 0 .. MaxCheckpoint + SeqMod :
    Distance(m, checkpoint) < SeqMod \div 2
      => unwrap(wrap(m, isn), isn, checkpoint) = m
=============================================================================
