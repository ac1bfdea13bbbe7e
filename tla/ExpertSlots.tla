---------------------------- MODULE ExpertSlots ----------------------------
(***************************************************************************)
(* Bounded expert residency: GpuModel::forward_moe_slots (model.rs) over   *)
(* LruExpertCache (moe_backend.rs).  Each forward routes to some experts.  *)
(* Those in a device slot, or given one, are computed on the compute       *)
(* stream, the rest on the host, which adds to the same residual x.        *)
(*                                                                         *)
(* One MoE layer: layers share x and the events, and meet as consecutive   *)
(* forwards do here.  The three tensors of an expert are one buffer; the   *)
(* adaptive policy is a free choice, made once per step for every miss.    *)
(***************************************************************************)
EXTENDS HipStreams

CONSTANT TopK   (* experts routed to per token                             *)

ASSUME SlotsAssumption == TopK \in Nat

VARIABLES
  cap,          (* the slots the layer has                                 *)
  cache,        (* LruExpertCache: recency (hottest first) and slots       *)
  slot_expert,  (* the expert each slot is held to contain, or -1          *)
  step,         (* the host's place in forward_moe_slots, and its locals   *)
  wanted,       (* the experts each forward routed to                      *)
  stale,        (* slots an upload failed to fill                          *)
  misread       (* the experts each forward gathered from a stale slot; {} *)
                (* if its launches failed                                  *)

slotVars == <<cap, cache, slot_expert, step, wanted, stale, misread>>

Idle == [stage |-> "idle"]

SlotsInit ==
  /\ cap \in 1 .. Cardinality(Slots)
  /\ cache = [recency |-> <<>>, slots |-> <<>>]
  /\ slot_expert = [s \in 0 .. cap - 1 |-> -1]
  /\ step = Idle
  /\ wanted = <<>> /\ misread = <<>>
  /\ stale = {}

(***************************************************************************)
(* LruExpertCache                                                          *)
(***************************************************************************)
Resident(c) == DOMAIN c.slots

At(c, id) == CHOOSE i \in DOMAIN c.recency : c.recency[i] = id

Touched(c, id) == [c EXCEPT !.recency = <<id>> \o RemoveAt(@, At(c, id))]

(* The cache without the expert at place i of the recency list.            *)
Without(c, i) ==
  [recency |-> RemoveAt(c.recency, i),
   slots   |-> [e \in Resident(c) \ {c.recency[i]} |-> c.slots[e]]]

Given(c, id, s) ==
  [recency |-> <<id>> \o c.recency,
   slots   |-> [e \in Resident(c) \cup {id} |-> IF e = id THEN s ELSE c.slots[e]]]

Free(c) == (0 .. cap - 1) \ {c.slots[e] : e \in Resident(c)}

(* Mutant: the slot after the resident ones, which may be taken.           *)
PutNext(c, id) ==
  IF id \in Resident(c) THEN Touched(c, id)
  ELSE Given(c, id, Cardinality(Resident(c)))

(* put: the lowest free slot, or the coldest expert's.                     *)
Put(c, id) ==
  IF id \in Resident(c) THEN Touched(c, id)
  ELSE IF Free(c) # {} THEN Given(c, id, Min(Free(c)))
  ELSE Given(Without(c, Len(c.recency)), id, c.slots[Last(c.recency)])

(* Mutant: the coldest expert goes, wanted by this step or not.            *)
ColdestOfAll(c, routed) == DOMAIN c.recency

(* evict_lru_not_in: the places of the experts this step does not route    *)
(* to; the last of them is the coldest.                                    *)
Evictable(c, routed) == {i \in DOMAIN c.recency : c.recency[i] \notin routed}

(***************************************************************************)
(* forward_moe_slots                                                       *)
(***************************************************************************)

(* One miss or hit of moe_slot_place.                                      *)
PlaceOne(p, e, routed, cpuIsCheaper) ==
  LET room   == Free(p.cache) # {} \/ Evictable(p.cache, routed) # {}
      before == IF Free(p.cache) # {} THEN p.cache
                ELSE Without(p.cache, Max(Evictable(p.cache, routed)))
      put    == Put(before, e)
      s      == put.slots[e]
  IN  IF e \in Resident(p.cache)
      THEN [p EXCEPT !.cache = Touched(p.cache, e),
                     !.gather = @ \cup {<<e, <<"slot", p.cache.slots[e]>>>>}]
      ELSE IF cpuIsCheaper \/ ~room THEN [p EXCEPT !.cpu = @ \cup {e}]
      ELSE [p EXCEPT !.cache = put,
                     !.slot_expert[s] = e,
                     !.upload = IF p.slot_expert[s] = e THEN @ ELSE Append(@, <<s, e>>),
                     !.gather = @ \cup {<<e, <<"slot", s>>>>}]

NonePlaced ==
  [cache |-> cache, slot_expert |-> slot_expert, upload |-> <<>>, gather |-> {}, cpu |-> {}]

Placed(ids, cpuIsCheaper) ==
  LET after[n \in 0 .. Len(ids)] ==
        IF n = 0 THEN NonePlaced
        ELSE PlaceOne(after[n - 1], ids[n], ToSet(ids), cpuIsCheaper)
  IN  after[Len(ids)]

(* The compute stream is at the router; the copy stream waits for it and   *)
(* brings the ids to the host.                                             *)
RouteCalls ==
  <<Copy("compute", x, embed), Record("compute", <<"router_done", 0>>),
    Wait("side", <<"router_done", 0>>)>>

Route ==
  /\ step = Idle /\ Len(wanted) < MaxForwards
  /\ \E ids \in {i \in [1 .. TopK -> Weights] : IsInjective(i)} :
       /\ wanted' = Append(wanted, ToSet(ids))
       /\ step' = [stage |-> "routing", ids |-> ids]
  /\ gpu' = IssueAll(RouteCalls)
  /\ misread' = Append(misread, {})
  /\ UNCHANGED <<cap, cache, slot_expert, stale>>

(* Any call may fail; decode_step returns its error, and the calls before  *)
(* it stay issued.  Here one of those above, or the copy of the ids.  A    *)
(* synchronize that fails (a lost device) is left out.                     *)
RouteFails ==
  /\ step = Idle /\ Len(wanted) < MaxForwards
  /\ \E n \in 0 .. Len(RouteCalls) : gpu' = IssueAll(SubSeq(RouteCalls, 1, n))
  /\ wanted' = Append(wanted, {}) /\ misread' = Append(misread, {})
  /\ UNCHANGED <<cap, cache, slot_expert, step, stale>>

(* moe_slot_place, once the ids are there.                                 *)
Place ==
  /\ step.stage = "routing" /\ Synchronized("side")
  /\ \E cpuIsCheaper \in BOOLEAN :
       \E p \in {Placed(step.ids, cpuIsCheaper)} :
         /\ cache' = p.cache
         /\ slot_expert' = p.slot_expert
         /\ step' = [stage |-> "upload", upload |-> p.upload, gather |-> p.gather, cpu |-> p.cpu]
  /\ UNCHANGED <<gpu, cap, wanted, stale, misread>>

(* upload: a copy the host waits for.                                      *)
Upload ==
  /\ step.stage = "upload" /\ step.upload # <<>> /\ Synchronized("null")
  /\ LET s == Head(step.upload)[1]
         e == Head(step.upload)[2]
     IN  /\ gpu' = IssueAll(<<Copy("null", <<"slot", s>>, <<"staged", e>>)>>)
         /\ step' = [step EXCEPT !.upload = Tail(@)]
         /\ stale' = stale \ {s}
  /\ UNCHANGED <<cap, cache, slot_expert, wanted, misread>>

(* The copy fails, begun or not, and decode_step returns its error.  The   *)
(* cache has the experts of this and of the later uploads as resident.     *)
UploadFails ==
  /\ step.stage = "upload" /\ ~Synchronized("null")
  /\ LET call == Head(gpu.queue["null"])
     IN  /\ gpu' = [gpu EXCEPT !.queue["null"] = <<>>, !.seen["null"] = <<>>,
                               !.memory[call.to] = IF @ = Torn THEN Corrupt ELSE @]
         /\ stale' = stale \cup {call.to[2]} \cup {u[1] : u \in ToSet(step.upload)}
  /\ step' = Idle
  /\ UNCHANGED <<cap, cache, slot_expert, wanted, misread>>

(* Mutant: the copy of x waits for the router only.                        *)
FallbackEarly == <<Wait("side", <<"router_done", 0>>), Copy("side", xh, x)>>

FallbackCalls ==
  <<Wait("side", <<"router_done", 0>>), Wait("side", <<"part_done", 0>>), Copy("side", xh, x)>>

(* The gathered experts on the compute stream, and x to the host when      *)
(* experts are left for it.                                                *)
LaunchCalls ==
  (IF step.gather = {} THEN <<>>
   ELSE <<Accumulate("compute", x, step.gather), Record("compute", <<"part_done", 0>>)>>)
  \o (IF step.cpu = {} THEN <<>> ELSE FallbackCalls)

Launch ==
  /\ step.stage = "upload" /\ step.upload = <<>> /\ Synchronized("null")
  /\ gpu' = IssueAll(LaunchCalls)
  /\ step' = [stage |-> IF step.cpu = {} THEN "output" ELSE "fallback", cpu |-> step.cpu]
  /\ misread' = [misread EXCEPT ![Len(wanted)] = {g[1] : g \in {t \in step.gather : t[2][2] \in stale}}]
  /\ UNCHANGED <<cap, cache, slot_expert, wanted, stale>>

LaunchFails ==
  /\ step.stage = "upload" /\ step.upload = <<>> /\ Synchronized("null")
  /\ \E n \in 0 .. Len(LaunchCalls) - 1 : gpu' = IssueAll(SubSeq(LaunchCalls, 1, n))
  /\ step' = Idle
  /\ UNCHANGED <<cap, cache, slot_expert, wanted, stale, misread>>

(* The host adds its experts and sends x back.                             *)
Fallback ==
  /\ step.stage = "fallback" /\ Synchronized("side")
  /\ LET added == [gpu EXCEPT !.memory[xh] = @ \cup {<<e, e>> : e \in step.cpu}]
     IN  gpu' = Issue(added, Copy("side", x, xh))
  /\ step' = [stage |-> "output"]
  /\ UNCHANGED <<cap, cache, slot_expert, wanted, stale, misread>>

(* The copy back fails: only the host's copy has its experts.              *)
FallbackFails ==
  /\ step.stage = "fallback" /\ Synchronized("side")
  /\ gpu' = [gpu EXCEPT !.memory[xh] = @ \cup {<<e, e>> : e \in step.cpu}]
  /\ step' = Idle
  /\ UNCHANGED <<cap, cache, slot_expert, wanted, stale, misread>>

(* The rest of the forward reads x.                                        *)
Return ==
  /\ step.stage = "output" /\ Synchronized("side")
  /\ gpu' = IssueAll(<<Copy("compute", <<"out", Len(wanted)>>, x)>>)
  /\ step' = Idle
  /\ UNCHANGED <<cap, cache, slot_expert, wanted, stale, misread>>

ReturnFails ==
  /\ step.stage = "output" /\ Synchronized("side")
  /\ step' = Idle
  /\ UNCHANGED <<gpu, cap, cache, slot_expert, wanted, stale, misread>>

SlotsNext ==
  \/ Route \/ Place \/ Upload \/ Launch \/ Fallback \/ Return
  \/ RouteFails \/ UploadFails \/ LaunchFails \/ FallbackFails \/ ReturnFails

(***************************************************************************)
(* Properties                                                              *)
(***************************************************************************)

(* "The output is placement-invariant" (model.rs:2066): what a forward     *)
(* returns has every expert it routed to and no other, each computed from  *)
(* its own weights, wherever that was; only an expert gathered from a slot *)
(* whose upload had failed may be wrong.                                   *)
PlacementIsInvisible ==
  \A f \in DOMAIN wanted :
    LET out == gpu.memory[<<"out", f>>]
    IN  out # Torn =>
          {t \in out : t[1] \notin misread[f]}
            = Residual \cup {<<e, e>> : e \in wanted[f] \ misread[f]}

(* Between forwards no two experts share a slot, the cache and slot_expert *)
(* agree, and every resident expert's weights are in its slot, whole, but  *)
(* for those whose upload failed.                                          *)
ResidentIsLoaded ==
  step = Idle =>
    /\ IsInjective(cache.slots) /\ ToSet(cache.recency) = Resident(cache)
    /\ \A e \in Resident(cache) :
         /\ slot_expert[cache.slots[e]] = e
         /\ cache.slots[e] \notin stale => gpu.memory[<<"slot", cache.slots[e]>>] = {<<e, e>>}
=============================================================================
