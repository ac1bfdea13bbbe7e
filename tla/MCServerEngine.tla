--------------------------- MODULE MCServerEngine ---------------------------
(* A stream and two plain requests, over one slot or two.  With one the    *)
(* third submission may find the queue full; with two the stream may stall *)
(* in the round in which another sequence completes.  The stream of two    *)
(* tokens may find its one-token channel full.                             *)
EXTENDS ServerEngine

CONSTANTS s1, p1, p2
=============================================================================
