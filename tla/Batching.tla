------------------------------ MODULE Batching ------------------------------
(***************************************************************************)
(* What the paged and the contiguous mode of ContinuousModel share         *)
(* (continuous.rs): sequences in slots 1 .. active, and how one step       *)
(* splits its rows among them, which emit a token and which end.           *)
(***************************************************************************)
EXTENDS Integers, Sequences, FiniteSets, Functions, FiniteSetsExt

CONSTANTS
  Capacity,     (* slots of the engine                                     *)
  MaxSeq,       (* max_seq_len: KV positions of one sequence               *)
  PrefillRows,  (* rows of one batched forward                             *)
  Token,        (* the tokens the sampler may return                       *)
  Request       (* the requests clients may send: [prompt, maxNew]         *)

ASSUME BatchingAssumption ==
  /\ Capacity \in Nat \ {0}
  /\ MaxSeq \in Nat \ {0}
  /\ PrefillRows \in Nat /\ PrefillRows >= Capacity
  /\ Request \subseteq [prompt : Seq(Token), maxNew : Nat]
  /\ \A r \in Request : Len(r.prompt) \in 1 .. MaxSeq

VARIABLES
  seqs,    (* per slot: its SeqState                                       *)
  active,  (* live slots are 1 .. active                                   *)
  done     (* done_slots still to finish, in its two parts                 *)

Slot      == 1 .. Capacity
NoRequest == [prompt |-> <<>>, maxNew |-> 0]
Prompts   == {r.prompt : r \in Request}
NoneDone  == [outputs |-> {}, limit |-> {}]
Live      == 1 .. active

Tokens(q)  == q.prompt \o q.gen
Pending(q) == IF q.gen = <<>> THEN Len(q.prompt) - q.len ELSE 0

(* What the KV of position pos is computed from.                           *)
Context(q, pos) == SubSeq(Tokens(q), 1, pos + 1)

(* Rows a slot wants: its pending prompt, or one decode row unless it is   *)
(* at the context limit.                                                   *)
Wanted(q) ==
  IF Pending(q) > 0 THEN Pending(q) ELSE IF q.len >= MaxSeq THEN 0 ELSE 1

Wants == [s \in Live |-> Wanted(seqs[s])]

(* The row budget handed down from slot 1 to slot Capacity; asked gives    *)
(* the rows each live slot asks for.                                       *)
Budgets(asked) ==
  {b \in [1 .. Capacity + 1 -> 0 .. PrefillRows] :
     /\ b[1] = PrefillRows
     /\ \A s \in Slot :
          b[s + 1] = b[s] - (IF s \in Live THEN Min({asked[s], b[s]}) ELSE 0)}

(* Slots whose last row this step is a real output: a decode row, or the   *)
(* last row of the prompt.                                                 *)
Emits(take) ==
  {s \in Live : /\ take[s] > 0
                /\ seqs[s].gen = <<>> => take[s] = Pending(seqs[s])}

(* Mutant of Finishing: the hard-context-limit loop is missing.            *)
FinishingOutputs(take, stop) ==
  [outputs |-> {s \in Emits(take) : s \in stop \/ Len(seqs[s].gen) + 1 >= seqs[s].maxNew},
   limit |-> {}]

(* done_slots: the outputs loop, then the hard-context-limit loop.         *)
Finishing(take, stop) ==
  LET outputs == {s \in Emits(take) : \/ s \in stop
                                      \/ Len(seqs[s].gen) + 1 >= seqs[s].maxNew}
  IN  [outputs |-> outputs,
       limit   |-> {s \in Live : /\ s \in Emits(take) \/ seqs[s].gen # <<>>
                                 /\ seqs[s].len + take[s] >= MaxSeq} \ outputs]

Advanced(s, take, token, fin) ==
  [seqs[s] EXCEPT !.len = @ + take[s],
                  !.gen = IF s \in Emits(take) THEN Append(@, token[s]) ELSE @,
                  !.ended = s \in fin.outputs \cup fin.limit]

(* The next slot of "for &slot in done_slots.iter().rev()": the limit part *)
(* of done_slots comes last, so its greatest slot goes first.              *)
NextDone(part, s) ==
  /\ part = "limit" \/ done.limit = {}
  /\ s \in done[part] /\ \A t \in done[part] : t <= s

(* A decoding sequence has consumed every token but the last one sampled,  *)
(* a prefilling one not yet all of its prompt: no chunk boundary, rewind   *)
(* or compaction makes step skip a token or feed one twice.                *)
OneTokenBehind ==
  \A s \in Live :
    /\ seqs[s].prompt \in Prompts
    /\ seqs[s].gen = <<>> => seqs[s].len < Len(seqs[s].prompt)
    /\ seqs[s].gen # <<>> => seqs[s].len = Len(Tokens(seqs[s])) - 1
=============================================================================
