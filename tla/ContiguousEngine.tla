-------------------------- MODULE ContiguousEngine --------------------------
(***************************************************************************)
(* The contiguous continuous-batching engine: ContinuousModel without a    *)
(* page pool (continuous.rs).  Each slot owns a row of the KV cache and,   *)
(* for a GDN model, a recurrent state; finishing a sequence moves both     *)
(* down a slot for every sequence above it.  With state reuse a finished   *)
(* sequence leaves an anchor (state_reuse.rs): its tokens and a copy of    *)
(* the slot's KV, restored for a later prompt that starts alike.           *)
(*                                                                         *)
(* A KV cell is the token prefix it was computed from; a recurrent state   *)
(* is the sequence of tokens folded into it.                               *)
(***************************************************************************)
EXTENDS Batching

CONSTANTS
  ChunkMax,     (* GDN_CHUNK_MAX: prompt rows of a slot in one GDN chunk   *)
  MaxAnchors    (* max_anchors of the AnchorStore                          *)

ASSUME ContiguousAssumption ==
  /\ ChunkMax \in Nat \ {0}
  /\ MaxAnchors \in Nat

VARIABLES
  mode,      (* the constructor: "plain", "gdn" (a GDN model) or "reuse"   *)
             (* (with_state_reuse, which refuses GDN models)               *)
  kv,        (* per slot its row of the KV cache                           *)
  rec,       (* per slot its GDN recurrent and convolution state           *)
  anchors,   (* the anchors held, oldest first: [tokens, kv]               *)
  panicked   (* the assertion of finish stopped the engine thread          *)

vars == <<seqs, active, done, mode, kv, rec, anchors, panicked>>

Position == 0 .. MaxSeq - 1
Garbage  == <<>>
NoSeq    == [prompt |-> <<>>, gen |-> <<>>, len |-> 0, maxNew |-> 0, ended |-> FALSE]

SeqState == [prompt : Prompts \cup {<<>>}, gen : Seq(Token), len : 0 .. MaxSeq,
             maxNew : Nat, ended : BOOLEAN]

TypeOK ==
  /\ active \in 0 .. Capacity
  /\ seqs \in [Slot -> SeqState]
  /\ done \in [outputs : SUBSET Slot, limit : SUBSET Slot]
  /\ mode \in {"plain", "gdn", "reuse"}
  /\ kv \in [Slot -> [Position -> Seq(Token)]]
  /\ rec \in [Slot -> Seq(Token)]
  /\ anchors \in Seq([tokens : Seq(Token), kv : Seq(Seq(Token))])
  /\ panicked \in BOOLEAN

Init ==
  /\ seqs = [s \in Slot |-> NoSeq]
  /\ active = 0
  /\ done = NoneDone
  /\ mode \in {"plain", "gdn", "reuse"}
  /\ kv = [s \in Slot |-> [n \in Position |-> Garbage]]
  /\ rec = [s \in Slot |-> <<>>]
  /\ anchors = <<>>
  /\ panicked = FALSE

(* The engine loop may call add, step or cancel: no finish loop is running.*)
Idle == done = NoneDone /\ ~panicked

(***************************************************************************)
(* Admission: add_inner, find_reusable, restore_anchor                     *)
(***************************************************************************)

(* Mutant of Reusable: an anchor of the whole prompt is taken too.         *)
ReusableWhole(prompt) ==
  {k \in DOMAIN anchors :
     /\ Len(anchors[k].tokens) <= Len(prompt)
     /\ SubSeq(prompt, 1, Len(anchors[k].tokens)) = anchors[k].tokens}

(* The longest anchors whose tokens are a proper prefix of the prompt.     *)
Reusable(prompt) ==
  LET matching == {k \in DOMAIN anchors :
                     /\ Len(anchors[k].tokens) < Len(prompt)
                     /\ SubSeq(prompt, 1, Len(anchors[k].tokens)) = anchors[k].tokens}
  IN  {k \in matching : \A j \in matching : Len(anchors[j].tokens) <= Len(anchors[k].tokens)}

(* The row of a slot with the first cells of an anchor copied over it.     *)
Restored(slot, cells) ==
  [n \in Position |-> IF n < Len(cells) THEN cells[n + 1] ELSE kv[slot][n]]

(* Mutant of Cleared: the recurrent state of the slot's last sequence      *)
(* stays.                                                                  *)
ClearedNever(slot) == rec

(* clear_gdn_slot: a reused slot returns to the state of position 0.       *)
Cleared(slot) == [rec EXCEPT ![slot] = <<>>]

Admit(r, cells) ==
  LET slot == active + 1
  IN  /\ seqs' = [seqs EXCEPT ![slot] =
                    [prompt |-> r.prompt, gen |-> <<>>, len |-> Len(cells),
                     maxNew |-> r.maxNew, ended |-> FALSE]]
      /\ kv' = [kv EXCEPT ![slot] = Restored(slot, cells)]
      /\ active' = slot

(* Mutant of Add: the "engine full" check is missing.                      *)
AddUnchecked(r) ==
  /\ Idle
  /\ IF mode = "reuse" /\ Reusable(r.prompt) # {}
     THEN \E k \in Reusable(r.prompt) : Admit(r, anchors[k].kv)
     ELSE Admit(r, <<>>)
  /\ rec' = Cleared(active + 1)
  /\ UNCHANGED <<done, mode, anchors, panicked>>

Add(r) ==
  /\ Idle
  /\ active < Capacity
  /\ IF mode = "reuse" /\ Reusable(r.prompt) # {}
     THEN \E k \in Reusable(r.prompt) : Admit(r, anchors[k].kv)
     ELSE Admit(r, <<>>)
  /\ rec' = Cleared(active + 1)
  /\ UNCHANGED <<done, mode, anchors, panicked>>

(* A copy of restore_anchor failed: the request is refused, and the cells  *)
(* of the free slot mix layers that were restored with layers that were    *)
(* not.                                                                    *)
RestoreFails(r) ==
  /\ Idle
  /\ active < Capacity
  /\ mode = "reuse"
  /\ \E k \in Reusable(r.prompt) :
       \E cells \in {<<>>, [n \in DOMAIN anchors[k].kv |-> Garbage]} :
         kv' = [kv EXCEPT ![active + 1] = Restored(active + 1, cells)]
  /\ rec' = Cleared(active + 1)
  /\ UNCHANGED <<seqs, active, done, mode, anchors, panicked>>

(***************************************************************************)
(* One forward: step                                                       *)
(***************************************************************************)

(* Rows a slot asks for: of a GDN model at most one chunk of its prompt.   *)
Asked ==
  [s \in Live |-> IF mode = "gdn" /\ Pending(seqs[s]) > 0
                  THEN Min({ChunkMax, Wanted(seqs[s])}) ELSE Wanted(seqs[s])]

(* Mutant of Stored: rows are placed by their index in the chunk.          *)
StoredByChunk(take) ==
  [s \in Slot |-> [n \in Position |->
     IF s \in Live /\ n \in 0 .. take[s] - 1
     THEN Context(seqs[s], seqs[s].len + n) ELSE kv[s][n]]]

(* Every row stores its KV at its own position of its slot.                *)
Stored(take) ==
  [s \in Slot |-> [n \in Position |->
     IF s \in Live /\ n \in seqs[s].len .. seqs[s].len + take[s] - 1
     THEN Context(seqs[s], n) ELSE kv[s][n]]]

(* A GDN layer folds the rows of a slot into its state, in order.          *)
Folded(take) ==
  [s \in Slot |->
     IF s \in Live /\ mode = "gdn"
     THEN rec[s] \o SubSeq(Tokens(seqs[s]), seqs[s].len + 1, seqs[s].len + take[s])
     ELSE rec[s]]

(* stop: slots whose output is the EOS or completes a stop sequence.       *)
Step ==
  /\ Idle
  /\ active > 0
  /\ \E b \in Budgets(Asked) :
       LET take == [s \in Slot |-> b[s] - b[s + 1]]
       IN  \E token \in [Emits(take) -> Token], stop \in SUBSET Emits(take) :
             LET fin == Finishing(take, stop)
             IN  /\ seqs' = [s \in Slot |-> IF s \in Live
                                            THEN Advanced(s, take, token, fin)
                                            ELSE seqs[s]]
                 /\ done' = fin
                 /\ kv' = Stored(take)
                 /\ rec' = Folded(take)
  /\ UNCHANGED <<active, mode, anchors, panicked>>

(***************************************************************************)
(* Retirement: finish, cancel                                              *)
(***************************************************************************)

(* save_anchor over all_tokens: as many KV cells as the sequence has       *)
(* tokens, whether or not it has consumed them all.                        *)
Anchor(s) ==
  LET tokens == Tokens(seqs[s])
  IN  [tokens |-> tokens,
       kv     |-> [n \in 1 .. Min({Len(tokens), MaxSeq}) |-> kv[s][n - 1]]]

(* AnchorStore::insert: the oldest anchor makes room.                      *)
Inserted(a) ==
  IF MaxAnchors = 0 THEN anchors
  ELSE Append(IF Len(anchors) >= MaxAnchors THEN Tail(anchors) ELSE anchors, a)

(* finish leaves an anchor in reuse mode, unless save_anchor fails: on the *)
(* device, or because a sequence that has sampled a token past the context *)
(* limit reads beyond its row.  The failure is dropped.                    *)
Anchored(s) ==
  IF mode # "reuse" THEN {anchors} ELSE {Inserted(Anchor(s)), anchors}

(* Mutant of MovedRows: the copy is one position short.                    *)
MovedRowsShort(s) ==
  [i \in Slot |-> [n \in Position |->
     IF s <= i /\ i < active /\ n < seqs[i + 1].len - 1
     THEN kv[i + 1][n] ELSE kv[i][n]]]

(* copy_seq_kv for every slot above s: only the len cells of the sequence  *)
(* move, the rest of each row is whatever was there.                       *)
MovedRows(s) ==
  [i \in Slot |-> [n \in Position |->
     IF s <= i /\ i < active /\ n < seqs[i + 1].len
     THEN kv[i + 1][n] ELSE kv[i][n]]]

(* copy_gdn_slot for every slot above s.                                   *)
MovedStates(s) ==
  [i \in Slot |-> IF s <= i /\ i < active THEN rec[i + 1] ELSE rec[i]]

Finish(s) ==
  /\ anchors' \in Anchored(s)
  /\ kv' = MovedRows(s)
  /\ rec' = MovedStates(s)
  /\ seqs' = [i \in Slot |-> IF i < s \/ i > active THEN seqs[i]
                             ELSE IF i < active THEN seqs[i + 1] ELSE NoSeq]
  /\ active' = active - 1
  /\ UNCHANGED <<mode, panicked>>

(* One iteration of "for &slot in done_slots.iter().rev()".                *)
FinishNext(part, s) ==
  /\ ~panicked
  /\ NextDone(part, s)
  /\ done' = [done EXCEPT ![part] = @ \ {s}]
  /\ IF s <= active
     THEN Finish(s)
     ELSE /\ panicked' = TRUE
          /\ UNCHANGED <<seqs, active, mode, kv, rec, anchors>>

Cancel(s) ==
  /\ Idle
  /\ s \in Live
  /\ Finish(s)
  /\ UNCHANGED done

Next ==
  \/ \E r \in Request : Add(r) \/ RestoreFails(r)
  \/ Step
  \/ \E part \in {"outputs", "limit"}, s \in Slot : FinishNext(part, s)
  \/ \E s \in Slot : Cancel(s)

Spec == Init /\ [][Next]_vars

(***************************************************************************)
(* Safety                                                                  *)
(***************************************************************************)

(* Attention of a live sequence reads, at every position it has consumed,  *)
(* the KV of the sequence's own tokens.                                    *)
OwnRow == \A s \in Live : \A n \in 0 .. seqs[s].len - 1 :
            kv[s][n] = Context(seqs[s], n)

(* Without anchors a slot's row is its sequence's own, whatever sequences  *)
(* the slot held and however often compaction moved it: "KV is lens-masked *)
(* and needs no clear".                                                    *)
RowsAreOwn == mode # "reuse" => OwnRow

(* The recurrent state of a live sequence of a GDN model has folded in     *)
(* exactly the tokens the sequence has consumed, each once and in order:   *)
(* no state of a retired sequence, no chunk lost in a move.                *)
RecurrenceIsOwn ==
  mode = "gdn" => \A s \in Live : rec[s] = SubSeq(Tokens(seqs[s]), 1, seqs[s].len)

(* "Reuse logits must equal full-recompute logits": what a sequence reads  *)
(* is what it would have computed itself, restored from an anchor or not.  *)
ReuseIsExact == mode = "reuse" => OwnRow

(***************************************************************************)
(* Refinement: with rows moved, left dirty and written over, the engine is *)
(* one in which every sequence has a KV cache of its own.  A reuse engine, *)
(* which is not (ReuseIsExact), is seen as one that admits nothing.        *)
(***************************************************************************)
Shown == IF mode = "reuse" THEN 0 ELSE active

NoSequence == [prompt |-> <<>>, gen |-> <<>>, kv |-> <<>>]

PrivateView ==
  [s \in Slot |->
     IF s \in 1 .. Shown
     THEN [prompt |-> seqs[s].prompt, gen |-> seqs[s].gen,
           kv |-> [n \in 1 .. seqs[s].len |-> kv[s][n - 1]]]
     ELSE NoSequence]

Private == INSTANCE PrivateKV
             WITH view <- PrivateView, active <- Shown, Prompt <- Prompts

(* The rows implement private caches: what a sequence reads changes only   *)
(* by the tokens it consumes itself, through every compaction.             *)
ImplementsPrivateKV == Private!Spec
=============================================================================
