--------------------------- MODULE PrefetchEngine ---------------------------
(***************************************************************************)
(* Full-layer double-buffered prefill: PrefetchEngine (prefill_buffered.rs)*)
(* as the layer loop of batched.rs drives it.  The weights of MoE layer k  *)
(* are copied into slot k % 2 on the side stream while the compute stream  *)
(* is at layer k - 1; events keep the two apart.  Dense layers make none   *)
(* of these calls, and the three tensors of a layer are one buffer.        *)
(*                                                                         *)
(* The host never waits: it may issue the next forward before the device   *)
(* has begun the last.  Any call may fail, which ends the forward there    *)
(* with what was issued still queued; the caller may start another.        *)
(***************************************************************************)
EXTENDS HipStreams

VARIABLES
  moe_layers,  (* the number of MoE layers                                 *)
  forward,     (* forwards begun                                           *)
  at,          (* the host's place in the forward: [stage, k]              *)
  returned     (* the forwards that returned Ok                            *)

prefetchVars == <<moe_layers, forward, at, returned>>

PrefetchInit ==
  /\ moe_layers \in 1 .. Cardinality(Weights)
  /\ forward = 0
  /\ at = [stage |-> "idle", k |-> 0]
  /\ returned = {}

Slot(k) == <<"slot", k % 2>>

(* prefetch(k): nothing beyond the last layer.                             *)
Prefetch(k) ==
  IF k >= moe_layers THEN <<>>
  ELSE <<Copy("side", Slot(k), <<"staged", k>>), Record("side", <<"prefetch", k>>)>>

(* Mutant: the last forward's compute is not waited for.                   *)
BeginUnordered == Prefetch(0)

(* begin                                                                   *)
BeginCalls == <<Wait("side", <<"computed", moe_layers - 1>>)>> \o Prefetch(0)

(* layer_begin                                                             *)
LayerBegin(k) ==
  (IF k >= 1 THEN <<Wait("side", <<"computed", k - 1>>)>> ELSE <<>>) \o Prefetch(k + 1)

(* weights_ready and the GEMMs that read what weights() returns.           *)
Experts(k) ==
  <<Wait("compute", <<"prefetch", k>>), Accumulate("compute", x, {<<k, Slot(k)>>})>>

(* layer_end                                                               *)
LayerEnd(k) == <<Record("compute", <<"computed", k>>)>>

Output == <<Copy("compute", <<"out", forward>>, x)>>

Stages ==
  [begin   |-> <<Copy("compute", x, embed)>> \o BeginCalls,
   layer   |-> LayerBegin(at.k),
   experts |-> Experts(at.k),
   end     |-> LayerEnd(at.k),
   output  |-> Output]

After ==
  CASE at.stage = "begin"   -> [stage |-> "layer", k |-> 0]
    [] at.stage = "layer"   -> [at EXCEPT !.stage = "experts"]
    [] at.stage = "experts" -> [at EXCEPT !.stage = "end"]
    [] at.stage = "end"     -> IF at.k + 1 < moe_layers
                               THEN [stage |-> "layer", k |-> at.k + 1]
                               ELSE [stage |-> "output", k |-> 0]
    [] at.stage = "output"  -> [stage |-> "idle", k |-> 0]

ForwardStarts ==
  /\ at.stage = "idle" /\ forward < MaxForwards
  /\ forward' = forward + 1
  /\ at' = [stage |-> "begin", k |-> 0]
  /\ UNCHANGED <<gpu, moe_layers, returned>>

StageRuns ==
  /\ at.stage # "idle"
  /\ gpu' = IssueAll(Stages[at.stage])
  /\ at' = After
  /\ returned' = IF at.stage = "output" THEN returned \cup {forward} ELSE returned
  /\ UNCHANGED <<moe_layers, forward>>

(* A call of the stage returns an error, after those before it.            *)
StageFails ==
  /\ at.stage # "idle"
  /\ \E n \in 0 .. Len(Stages[at.stage]) - 1 :
       gpu' = IssueAll(SubSeq(Stages[at.stage], 1, n))
  /\ at' = [stage |-> "idle", k |-> 0]
  /\ UNCHANGED <<moe_layers, forward, returned>>

PrefetchNext == ForwardStarts \/ StageRuns \/ StageFails

(***************************************************************************)
(* Properties                                                              *)
(***************************************************************************)

(* "Double buffering only changes when weights arrive, never the math"     *)
(* (prefill_buffered.rs:8-11): the output of a forward that returned Ok is *)
(* what every layer computed from its own weights, whole, for an odd or an *)
(* even number of layers, whatever failed before it and however far the    *)
(* device is behind the host.                                              *)
PrefetchedIsWhole ==
  \A f \in returned :
    gpu.memory[<<"out", f>>] \in {Torn, Residual \cup {<<k, k>> : k \in 0 .. moe_layers - 1}}
=============================================================================
