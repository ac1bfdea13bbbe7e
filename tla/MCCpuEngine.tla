---------------------------- MODULE MCCpuEngine ----------------------------
(***************************************************************************)
(* A small instance of CpuEngine with pages of two tokens.  The prompts    *)
(* share a first page, extend one another, repeat, end in a partial page   *)
(* and, one of them, need more pages than the pool has or reach the        *)
(* context limit while they decode.                                        *)
(***************************************************************************)
EXTENDS CpuEngine

Requests ==
  {[prompt |-> <<1, 1, 1, 1>>, maxNew |-> 1],
   [prompt |-> <<1, 1, 1, 1, 2, 2>>, maxNew |-> 0],
   [prompt |-> <<1, 1, 2>>, maxNew |-> 2],
   [prompt |-> <<2, 2>>, maxNew |-> 0],
   [prompt |-> <<2, 2, 2, 2, 2>>, maxNew |-> 3],
   [prompt |-> <<2, 2, 2, 2, 2, 2, 2, 2, 1>>, maxNew |-> 1]}
=============================================================================
