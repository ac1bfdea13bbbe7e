----------------------------- MODULE HipStreams -----------------------------
(***************************************************************************)
(* HIP streams and events, as the two paths that move expert weights use   *)
(* them (PrefetchEngine, ExpertSlots): the device runs each stream's calls *)
(* in order and different streams at any relative speed; a wait captures   *)
(* the event's latest record when it is issued, and a wait on an event     *)
(* never recorded is already satisfied.  External to the repository.       *)
(*                                                                         *)
(* A call that moves data takes two steps, so that two streams at one      *)
(* buffer are seen.  What a buffer holds is a set of pairs                 *)
(* <<expert, weights>>: for staged and resident weights the pair of that   *)
(* expert, for the residual x one pair for each expert whose output was    *)
(* added, with the weights it was computed from.                           *)
(***************************************************************************)
EXTENDS Integers, Sequences, SequencesExt, FiniteSetsExt

CONSTANTS
  Weights,     (* the experts, or ranks of MoE layers, with staged weights *)
  Slots,       (* the device slots weights are copied into                 *)
  MaxForwards  (* bound: forward passes                                    *)

ASSUME StreamsAssumption ==
  /\ IsFiniteSet(Weights) /\ Weights = 0 .. Cardinality(Weights) - 1
  /\ IsFiniteSet(Slots) /\ Slots = 0 .. Cardinality(Slots) - 1
  /\ Cardinality(Slots) >= 2   \* the two buffers of the prefetch
  /\ MaxForwards \in Nat

VARIABLE gpu

Streams  == {"compute", "side", "null"}
Buffers  == ({"staged"} \X Weights) \cup ({"slot"} \X Slots)
            \cup ({"x", "xh", "embed"} \X {0}) \cup ({"out"} \X (1 .. MaxForwards))
Events   == ({"prefetch", "computed"} \X Weights) \cup ({"router_done", "part_done"} \X {0})

x     == <<"x", 0>>
xh    == <<"xh", 0>>
embed == <<"embed", 0>>

(* What a buffer holds while it is written; the residual a forward starts  *)
(* from; and what comes of a read that overlaps a write.                   *)
Torn     == {}
Residual == {<<-1, -1>>}
Corrupt  == {<<-2, -2>>}

StreamsInit ==
  gpu = [memory    |-> [b \in Buffers |->
                          CASE b[1] = "staged" -> {<<b[2], b[2]>>}
                            [] b[1] = "out"    -> Torn
                            [] OTHER           -> IF b = embed THEN Residual ELSE Corrupt],
         queue     |-> [s \in Streams |-> <<>>],
         seen      |-> [s \in Streams |-> <<>>],
         recorded  |-> [e \in Events |-> 0],
         completed |-> [e \in Events |-> 0]]

(***************************************************************************)
(* The calls.  accumulate stands for the GEMMs of the experts in "terms"   *)
(* (pairs of an expert and the buffer its weights are read from) and the   *)
(* addition of what they give to "to".                                     *)
(***************************************************************************)
Copy(s, to, from)        == [do |-> "copy", on |-> s, to |-> to, terms |-> {<<-1, from>>}]
Accumulate(s, to, terms) == [do |-> "accumulate", on |-> s, to |-> to, terms |-> terms]
Record(s, e)             == [do |-> "record", on |-> s, event |-> e]
Wait(s, e)               == [do |-> "wait", on |-> s, event |-> e]

Issue(g, call) ==
  CASE call.do \in {"copy", "accumulate"} ->
         [g EXCEPT !.queue[call.on] = Append(@, call)]
    [] call.do = "record" ->
         [g EXCEPT !.recorded[call.event] = @ + 1,
                   !.queue[call.on] = Append(@, [do |-> "record", event |-> call.event,
                                                 number |-> g.recorded[call.event] + 1])]
    [] call.do = "wait" ->
         [g EXCEPT !.queue[call.on] = Append(@, [do |-> "wait", event |-> call.event,
                                                 number |-> g.recorded[call.event]])]

IssueAll(calls) ==
  LET after[n \in 0 .. Len(calls)] ==
        IF n = 0 THEN gpu ELSE Issue(after[n - 1], calls[n])
  IN  after[Len(calls)]

Synchronized(s) == gpu.queue[s] = <<>>

(***************************************************************************)
(* The device                                                              *)
(***************************************************************************)
Moves(s) == gpu.queue[s] # <<>> /\ Head(gpu.queue[s]).do \in {"copy", "accumulate"}

Reads(call) == {t[2] : t \in call.terms} \cup (IF call.do = "copy" THEN {} ELSE {call.to})

(* The call at the head of s reads its operands and starts to write.       *)
Starts(s) ==
  /\ Moves(s) /\ gpu.seen[s] = <<>>
  /\ LET call == Head(gpu.queue[s])
     IN  gpu' = [gpu EXCEPT !.seen[s] = [b \in Reads(call) |-> gpu.memory[b]],
                            !.memory[call.to] = Torn]

(* A source that was being written, or has changed, was not read whole.    *)
ReadWhole(s, b) == gpu.seen[s][b] # Torn /\ gpu.memory[b] = gpu.seen[s][b]

Written(s, call) ==
  IF call.do = "copy"
  THEN UNION {IF ReadWhole(s, t[2]) THEN gpu.memory[t[2]] ELSE Corrupt : t \in call.terms}
  ELSE gpu.seen[s][call.to] \cup
       UNION {{<<t[1], w[2]>> : w \in IF ReadWhole(s, t[2]) THEN gpu.memory[t[2]] ELSE Corrupt}
                : t \in call.terms}

Finishes(s) ==
  /\ Moves(s) /\ gpu.seen[s] # <<>>
  /\ LET call == Head(gpu.queue[s])
     IN  gpu' = [gpu EXCEPT !.queue[s] = Tail(@), !.seen[s] = <<>>,
                            !.memory[call.to] = Written(s, call)]

Signals(s) ==
  /\ gpu.queue[s] # <<>> /\ Head(gpu.queue[s]).do = "record"
  /\ gpu' = [gpu EXCEPT !.queue[s] = Tail(@),
                        !.completed[Head(gpu.queue[s]).event] = Head(gpu.queue[s]).number]

Proceeds(s) ==
  /\ gpu.queue[s] # <<>> /\ Head(gpu.queue[s]).do = "wait"
  /\ gpu.completed[Head(gpu.queue[s]).event] >= Head(gpu.queue[s]).number
  /\ gpu' = [gpu EXCEPT !.queue[s] = Tail(@)]

Device == \E s \in Streams : Starts(s) \/ Finishes(s) \/ Signals(s) \/ Proceeds(s)
=============================================================================
