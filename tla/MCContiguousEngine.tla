------------------------- MODULE MCContiguousEngine -------------------------
(***************************************************************************)
(* A small instance of ContiguousEngine: a one-token prompt whose answer   *)
(* may be the start of the long prompt, so that its anchor can be reused.  *)
(* Three slots let a sequence move down twice.  With anchors two suffice:  *)
(* ReuseSlots bounds the sequences live at once in reuse mode.             *)
(***************************************************************************)
EXTENDS ContiguousEngine

CONSTANT ReuseSlots

TurnRequests ==
  {[prompt |-> <<1>>,       maxNew |-> 2],
   [prompt |-> <<1, 1, 2>>, maxNew |-> 1]}

(* The first turn of a conversation, whose answer ends at its max_new      *)
(* after one token, and the turn that continues it.                        *)
ConversationRequests ==
  {[prompt |-> <<1>>,       maxNew |-> 1],
   [prompt |-> <<1, 1, 2>>, maxNew |-> 1]}

MCNext ==
  \/ \E r \in Request : /\ mode = "reuse" => active < ReuseSlots
                        /\ Add(r) \/ RestoreFails(r)
  \/ Step
  \/ \E part \in {"outputs", "limit"}, s \in Slot : FinishNext(part, s)
  \/ \E s \in Slot : Cancel(s)

MCSpec == Init /\ [][MCNext]_vars

(* No client goes away: every sequence runs to its end.                    *)
UncancelledNext ==
  \/ \E r \in Request : Add(r)
  \/ Step
  \/ \E part \in {"outputs", "limit"}, s \in Slot : FinishNext(part, s)

UncancelledSpec == Init /\ [][UncancelledNext]_vars
=============================================================================
