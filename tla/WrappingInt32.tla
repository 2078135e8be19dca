--------------------------- MODULE WrappingInt32 ---------------------------
(***************************************************************************)
(* The 32-bit sequence numbers of libsponge/wrapping_integers.{hh,cc}.     *)
(* An absolute sequence number is a natural number; on the wire it is      *)
(* reduced modulo SeqMod and shifted by the connection's initial sequence  *)
(* number.  The code's modulus is 2^32; the model takes any positive even  *)
(* number, so that TLC can wrap around in a few steps.                     *)
(***************************************************************************)
EXTENDS Integers

CONSTANTS
  SeqMod,     \* the number of WrappingInt32 values, 2^32 in the code
  SizeMod     \* the number of uint64_t values, 2^64 in the code

ASSUME SeqModAssumption == SeqMod \in Nat /\ SeqMod > 0 /\ SeqMod % 2 = 0
ASSUME SizeModAssumption == SizeMod \in Nat \ {0}

SeqNos == 0 .. SeqMod - 1

\* WrappingInt32{...} + offset: unsigned 32-bit addition.
Plus(n, offset) == (n + offset) % SeqMod

wrap(n, isn) == Plus(isn, n % SeqMod)

\* A plausible slip in unwrap: never looks at the candidate above.
unwrap_no_round_up(n, isn, checkpoint) ==
  LET t == (n - isn) % SeqMod
  IN  IF t >= checkpoint THEN t
      ELSE t + ((checkpoint - t) \div SeqMod) * SeqMod

\* The absolute number that wraps to n and is nearest to checkpoint: the
\* largest candidate not above the checkpoint, or the next one up when that
\* lies more than half a turn below it.
unwrap(n, isn, checkpoint) ==
  LET t     == (n - isn) % SeqMod
      below == t + ((checkpoint - t) \div SeqMod) * SeqMod
  IN  IF t >= checkpoint THEN t
      ELSE IF checkpoint - below > SeqMod \div 2 THEN below + SeqMod
      ELSE below

\* How far apart two absolute sequence numbers are.
Distance(a, b) == IF a >= b THEN a - b ELSE b - a
=============================================================================
