---------------------------- MODULE SchedulerFsm ----------------------------
(***************************************************************************)
(* The request lifecycle of scheduler_fsm.rs: FsmEvent::apply as a         *)
(* transition table.  A request carries the length of its token stream,    *)
(* not the tokens, and no decode reserve.  An event that the table does    *)
(* not allow in a state panics in the code and gives Illegal here.         *)
(***************************************************************************)
EXTENDS Integers

Bootstrapping == [name |-> "Bootstrapping"]
Finished      == [name |-> "Finished"]
Illegal       == [name |-> "Illegal"]

Submitted(tokens, decoded, maxNew) ==
  [name |-> "Submitted", tokens |-> tokens, decoded |-> decoded, maxNew |-> maxNew]

(* The states each event may be applied in.                                *)
Allowed ==
  [Bootstrapped      |-> {"Bootstrapping"},
   FirstChunk        |-> {"Submitted", "Retracted"},
   SchedulePrefill   |-> {"Prefilling"},
   ScheduleDecode    |-> {"PrefillDone", "Decoding"},
   Finish            |-> {"PrefillDone", "Decoding", "Retracted"},
   Abort             |-> {"Bootstrapping", "Submitted", "Prefilling", "PrefillDone",
                          "Decoding", "Retracted", "Finished"},
   Retraction        |-> {"Decoding"},
   Retract           |-> {"PrefillDone", "Decoding"},
   UpdateReserve     |-> {"Decoding", "Finished"},
   ExtendResult      |-> {"PrefillDone", "Decoding", "Finished"},
   Succeeded         |-> {"Decoding"},
   RemotePrefillDone |-> {"Prefilling"}]

(* The same request in another state; only Prefilling counts a prefix.     *)
Enter(name, s) ==
  [name |-> name, tokens |-> s.tokens, decoded |-> s.decoded, maxNew |-> s.maxNew]

Prefilled(s, n) ==
  IF n >= s.tokens THEN Enter("PrefillDone", s)
  ELSE [name |-> "Prefilling", tokens |-> s.tokens, decoded |-> s.decoded,
        maxNew |-> s.maxNew, prefilled |-> n]

(* ExtendResult counts the tokens towards the budget in Decoding only.     *)
Extended(s, n) ==
  CASE s.name = "Decoding"    -> [s EXCEPT !.tokens = @ + n, !.decoded = @ + n]
    [] s.name = "PrefillDone" -> [s EXCEPT !.tokens = @ + n]
    [] s.name = "Finished"    -> s

(* n is the event's payload: a chunk size or a number of tokens.           *)
Apply(event, n, s) ==
  IF s.name \notin Allowed[event] THEN Illegal
  ELSE CASE event = "Bootstrapped"      -> Submitted(0, 0, 0)
         [] event = "FirstChunk"        -> Prefilled(s, n)
         [] event = "SchedulePrefill"   -> Prefilled(s, s.prefilled + n)
         [] event = "ScheduleDecode"    -> Enter("Decoding", s)
         [] event = "Retraction"        -> Enter("Retracted", s)
         [] event = "Retract"           -> Enter("Submitted", s)
         [] event = "UpdateReserve"     -> s
         [] event = "ExtendResult"      -> Extended(s, n)
         [] event = "RemotePrefillDone" -> Enter("PrefillDone", [s EXCEPT !.tokens = @ + 1])
         [] event \in {"Finish", "Abort", "Succeeded"} -> Finished
=============================================================================
