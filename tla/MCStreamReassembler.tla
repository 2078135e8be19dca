------------------------ MODULE MCStreamReassembler ------------------------
(***************************************************************************)
(* TLC's instance of StreamReassemblerSpec: a stream of different bytes,   *)
(* longer than the capacity.                                               *)
(***************************************************************************)
EXTENDS StreamReassemblerSpec

CONSTANTS a, b, c, d, e, f

SixBytes == <<a, b, c, d, e, f>>
=============================================================================
