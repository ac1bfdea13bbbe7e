----------------------------- MODULE CpuEngine -----------------------------
(***************************************************************************)
(* The CPU continuous-batching engine (cpu_engine.rs) on top of the prefix *)
(* cache (PrefixKv) and the request state machine (SchedulerFsm).  It runs *)
(* on one thread and a call returns before the next is made: no action of  *)
(* another call comes between StepBegin and the end of its prefill.  What  *)
(* is hard is the order in which legal calls fill, hit and evict the cache. *)
(*                                                                         *)
(* Logits and model state are the tokens they were computed from.  A       *)
(* generated token is always 0: greedy decoding adds no choice, and the    *)
(* cache never sees a generated token.                                     *)
(***************************************************************************)
EXTENDS PrefixKv, SchedulerFsm

CONSTANTS
  Capacity,     (* concurrent slots                                        *)
  MaxPending,   (* max_pending                                             *)
  MaxFinished,  (* max_finished                                            *)
  Request       (* the requests callers make: [prompt, maxNew]             *)

ASSUME CpuEngineAssumption ==
  /\ Capacity \in Nat \ {0} /\ MaxPending \in Nat /\ MaxFinished \in Nat
  /\ \A r \in Request : r.prompt \in Seq(Nat) \ {<<>>} /\ r.maxNew \in Nat

VARIABLES
  cache,     (* the prefix cache                                           *)
  slots,     (* the admitted requests, by slot index; NoSlot when free     *)
  serving,   (* the slot the running step prefills, or 0                   *)
  pending,   (* the admission queue                                        *)
  finished,  (* the completed records, oldest first                        *)
  draining,  (* step_until_done is running                                 *)
  failed,    (* the last request a step failed, or NoRequest               *)
  turn,      (* the turns of step_until_done's loop (stats.steps), mod 2   *)
  panicked   (* the assertion that ended the engine, or "none"             *)

vars == <<cache, slots, serving, pending, finished, draining, failed, turn, panicked>>

Slots     == 1 .. Capacity
NoSlot    == [free |-> TRUE]
NoRequest == [none |-> TRUE]
Idle      == pending = <<>> /\ \A s \in Slots : slots[s] = NoSlot

Init ==
  /\ cache = EmptyCache
  /\ slots = [s \in Slots |-> NoSlot]
  /\ serving = 0
  /\ pending = <<>> /\ finished = <<>>
  /\ draining = FALSE
  /\ failed = NoRequest
  /\ turn = 0
  /\ panicked = "none"

(***************************************************************************)
(* add and drain_finished                                                  *)
(***************************************************************************)
Called == panicked = "none" /\ serving = 0 /\ ~draining

Add(r) ==
  /\ Called
  /\ Len(pending) < MaxPending
  /\ pending' = Append(pending, r)
  /\ UNCHANGED <<cache, slots, serving, finished, draining, failed, turn, panicked>>

DrainFinished ==
  /\ Called
  /\ finished # <<>>
  /\ finished' = <<>>
  /\ UNCHANGED <<cache, slots, serving, pending, draining, failed, turn, panicked>>

(***************************************************************************)
(* step                                                                    *)
(***************************************************************************)

(* admit_pending: the lowest free slots take the oldest requests.          *)
Admitted(r) ==
  LET submitted == Apply("Bootstrapped", 0, Bootstrapping)
  IN  [free |-> FALSE, request |-> r, generated |-> 0, context |-> <<>>, logits |-> <<>>,
       reused |-> 0, computed |-> 0,
       state |-> [submitted EXCEPT !.tokens = Len(r.prompt), !.maxNew = r.maxNew]]

Admit ==
  LET open == {s \in Slots : slots[s] = NoSlot}
      Place(s) == Cardinality({o \in open : o <= s})
  IN  [s \in Slots |-> IF s \in open /\ Place(s) <= Len(pending)
                       THEN Admitted(pending[Place(s)]) ELSE slots[s]]

LeftPending ==
  SubSeq(pending, Cardinality({s \in Slots : slots[s] = NoSlot}) + 1, Len(pending))

(* Mutant: a prefilled slot is not scheduled for decode.                   *)
PrefilledNotScheduled(slot, served) ==
  [slot EXCEPT
     !.context = served.context, !.logits = served.logits,
     !.reused = served.reused, !.computed = served.computed,
     !.state = Apply("FirstChunk", Len(slot.request.prompt), slot.state)]

(* prefill_slot: served, the request goes through the FSM into decoding.   *)
PrefilledSlot(slot, served) ==
  [slot EXCEPT
     !.context = served.context, !.logits = served.logits,
     !.reused = served.reused, !.computed = served.computed,
     !.state = Apply("ScheduleDecode", 0,
                     Apply("FirstChunk", Len(slot.request.prompt), slot.state))]

(* One slot's turn of the decode loop.  Its state is Finished afterwards   *)
(* when the budget is exhausted, which with maxNew = 0 it is at once.      *)
Exhausted(slot) ==
  IF slot.state.name = "Decoding" /\ slot.generated >= slot.request.maxNew
  THEN [slot EXCEPT !.state = Apply("Succeeded", 0, slot.state)]
  ELSE slot

(* Mutant: a budget that is exhausted from the start is not noticed.       *)
DecodedPrefillOnly(slot) ==
  IF slot.state.name # "Decoding" \/ slot.generated >= slot.request.maxNew THEN slot
  ELSE LET context == Computed(slot.context, <<0>>)
       IN  Exhausted([slot EXCEPT
             !.generated = @ + 1, !.context = context, !.logits = context,
             !.state = Apply("ExtendResult", 1, slot.state)])

Decoded(slot) ==
  IF slot.state.name # "Decoding" THEN slot
  ELSE IF slot.generated >= slot.request.maxNew THEN Exhausted(slot)
  ELSE LET context == Computed(slot.context, <<0>>)
       IN  Exhausted([slot EXCEPT
             !.generated = @ + 1, !.context = context, !.logits = context,
             !.state = Apply("ExtendResult", 1, slot.state)])

Overflows(slot) ==
  /\ slot.state.name = "Decoding" /\ slot.generated < slot.request.maxNew
  /\ Len(slot.request.prompt) + slot.generated >= MaxSeq

FinishedRecord(slot) ==
  [request |-> slot.request, generated |-> slot.generated,
   reused |-> slot.reused, computed |-> slot.computed]

Occupied(ss) == {s \in Slots : ss[s] # NoSlot}

(* The decode loop over ss, and finish_slot for those it finishes.         *)
DecodeAll(ss) ==
  LET decoded == [s \in Slots |-> IF ss[s] = NoSlot THEN NoSlot ELSE Decoded(ss[s])]
      ended   == Ascending({s \in Occupied(ss) : decoded[s].state = Finished})
      records == finished \o [i \in 1 .. Len(ended) |-> FinishedRecord(decoded[ended[i]])]
  IN  /\ slots' = [s \in Slots |-> IF s \in ToSet(ended) THEN NoSlot ELSE decoded[s]]
      /\ finished' = SubSeq(records, Len(records) - Smaller(MaxFinished, Len(records)) + 1,
                            Len(records))

(* The slots waiting for their prefill; a step takes the lowest.           *)
Unprefilled(ss) ==
  {s \in Occupied(ss) : ss[s].state.name \notin {"PrefillDone", "Decoding"}}

Panic(reason) ==
  /\ panicked' = reason
  /\ UNCHANGED <<slots, finished, draining>>

Decode(ss) ==
  IF \E s \in Occupied(ss) : Overflows(ss[s])
  THEN Panic("too_long")
  ELSE DecodeAll(ss) /\ UNCHANGED <<draining, panicked>>

(* Admission, and the whole step when no slot waits for its prefill.       *)
StepBegin ==
  /\ panicked = "none" /\ serving = 0 /\ ~Idle
  /\ pending' = LeftPending
  /\ failed' = NoRequest
  /\ IF Unprefilled(Admit) = {}
     THEN serving' = 0 /\ Decode(Admit)
     ELSE /\ serving' = Min(Unprefilled(Admit))
          /\ slots' = Admit
          /\ UNCHANGED <<finished, draining, panicked>>
  /\ UNCHANGED cache

(* One turn of serve's loop: no plan fits, and the coldest page goes.      *)
EvictColdest ==
  /\ panicked = "none" /\ serving # 0
  /\ \E plan \in {Plan(cache, slots[serving].request.prompt)} :
       /\ ~plan.fits /\ plan.cache.lru # <<>>
       /\ cache' = Evict(plan.cache)
  /\ UNCHANGED <<slots, serving, pending, finished, draining, failed, panicked>>

(* The prefill ends.  One that failed frees its slot and leaves step, and  *)
(* step_until_done, before the decode loop.                                *)
PrefillEnds(slot, served) ==
  /\ cache' = served.cache
  /\ serving' = 0
  /\ CASE served.result = "served" ->
            /\ Decode([slots EXCEPT ![serving] = PrefilledSlot(slot, served)])
            /\ UNCHANGED failed
       [] served.result \in {"stranded", "too_long"} ->
            Panic(served.result) /\ UNCHANGED failed
       [] served.result \in {"too_small", "missing"} ->
            /\ slots' = [slots EXCEPT ![serving] = NoSlot]
            /\ failed' = slot.request
            /\ draining' = FALSE
            /\ UNCHANGED <<finished, panicked>>
  /\ UNCHANGED pending

Prefill ==
  /\ panicked = "none" /\ serving # 0
  /\ \E plan \in {Plan(cache, slots[serving].request.prompt)} :
       /\ plan.fits \/ plan.cache.lru = <<>>
       /\ \E served \in {Serve(plan, slots[serving].request.prompt)} :
            PrefillEnds(slots[serving], served)

(* A step of an idle engine ends step_until_done.                          *)
StepIdle ==
  /\ panicked = "none" /\ draining /\ Idle
  /\ draining' = FALSE
  /\ failed' = NoRequest
  /\ UNCHANGED <<cache, slots, serving, pending, finished, panicked>>

Step ==
  /\ StepBegin \/ EvictColdest \/ Prefill \/ StepIdle
  /\ turn' = IF draining' THEN 1 - turn ELSE 0

StepUntilDone ==
  /\ Called
  /\ draining' = TRUE
  /\ UNCHANGED <<cache, slots, serving, pending, finished, failed, turn, panicked>>

Next ==
  \/ \E r \in Request : Add(r)
  \/ DrainFinished
  \/ Step
  \/ StepUntilDone

Spec == Init /\ [][Next]_vars

(* step_until_done calls step in a loop, a caller of step need not.  The  *)
(* loop has a turn to take until it ends or the engine panics.             *)
FairSpec ==
  Spec /\ WF_turn(draining /\ panicked = "none" /\ turn' = 1 - turn)

(***************************************************************************)
(* Properties                                                              *)
(***************************************************************************)

(* A slot is never left in a state between two calls but waiting for its   *)
(* prefill or decoding, and no event was illegal in the state it met.      *)
TypeOK ==
  /\ cache.lru \in Seq(UNION {ToSet(Keys(r.prompt)) : r \in Request})
  /\ Len(pending) <= MaxPending /\ Len(finished) <= MaxFinished
  /\ \A s \in Occupied(slots) : slots[s].state.name \in {"Submitted", "Decoding"}
  /\ draining \in BOOLEAN
  /\ panicked \in {"none", "stranded", "too_long"}

(* The logits a request samples from are those of a forward pass over its  *)
(* own prompt and output, whatever its prefill reused (prefix_kv.rs:7-8),  *)
(* and the state machine counts what was generated.                        *)
LogitsAreOwn ==
  \A s \in Occupied(slots) :
    LET slot == slots[s]
        own  == slot.request.prompt \o [i \in 1 .. slot.generated |-> 0]
    IN  slot.state.name = "Decoding" =>
          /\ slot.logits = own /\ slot.context = own
          /\ slot.state.decoded = slot.generated /\ slot.state.tokens = Len(own)
          /\ slot.reused + slot.computed = Len(slot.request.prompt)

(* Every page the index advertises has its data, computed in the context   *)
(* its key stands for, and pins a block of its own; the other blocks are   *)
(* free, so that an eviction always yields one (kv_block_pool.rs:205).     *)
CacheAccounts ==
  panicked = "none" =>
    /\ DOMAIN cache.block = Indexed(cache) /\ DOMAIN cache.pages = Indexed(cache)
    /\ \A k \in Indexed(cache) : cache.pages[k] = k
    /\ Len(cache.lru) + Len(cache.free) = PoolBlocks
    /\ ToSet(cache.free) \cup {cache.block[k] : k \in Indexed(cache)} = 1 .. PoolBlocks

(* serve never meets a cached page beyond the reused prefix: the assertion *)
(* of prefix_kv.rs:143.  Once a page of a chain has been evicted the pool  *)
(* is full and what is left of the chain is colder than every whole chain, *)
(* so the next eviction takes it first.                                    *)
Whole(k) == \A n \in 1 .. Len(k) - 1 : n % TokensPerPage = 0 =>
              SubSeq(k, 1, n) \in Indexed(cache)

HolesAreColdest ==
  /\ panicked # "stranded"
  /\ panicked = "none" /\ serving = 0 =>
       \A i, j \in 1 .. Len(cache.lru) :
         ~Whole(cache.lru[j]) =>
           /\ cache.free = <<>>
           /\ Whole(cache.lru[i]) => j < i

(* "Only a request that needs more pages than the entire pool can hold     *)
(* errors" (prefix_kv.rs:19-20).                                           *)
FailsOnlyWhenTooBig ==
  failed # NoRequest => NumPages(failed.prompt) > PoolBlocks

(* step_until_done returns: with the engine idle, or with the error of one *)
(* request, which is gone (cpu_engine.rs:204-207); it never retries it     *)
(* for ever.  The context limit is the only assertion that can end it.     *)
Drains == draining ~> (~draining /\ (Idle \/ failed # NoRequest)) \/ panicked = "too_long"
=============================================================================
