----------------------------- MODULE PrivateKV -----------------------------
(***************************************************************************)
(* What a continuous-batching engine promises, whatever its KV layout:     *)
(* every admitted sequence computes over a KV cache of its own.  view[s]   *)
(* is what attention of slot s reads: one cell per consumed position, each *)
(* the token prefix it was computed from.  A slot may start with a prefix  *)
(* of its prompt already computed (prefix reuse).                          *)
(***************************************************************************)
EXTENDS Integers, Sequences

CONSTANTS Capacity, MaxSeq, Token, Prompt

VARIABLES view, active

Slots   == 1 .. Capacity
Vacant  == [prompt |-> <<>>, gen |-> <<>>, kv |-> <<>>]
TokensOf(v)    == v.prompt \o v.gen
KvOf(tokens, n) == [i \in 1 .. n |-> SubSeq(tokens, 1, i)]

Init == /\ view = [s \in Slots |-> Vacant]
        /\ active = 0

(* A request takes the next slot; at least its last token is recomputed.   *)
Admit(prompt, reused) ==
  /\ active < Capacity
  /\ active' = active + 1
  /\ view' = [view EXCEPT ![active + 1] =
                [prompt |-> prompt, gen |-> <<>>, kv |-> KvOf(prompt, reused)]]

(* A slot consumes some of its tokens, and samples one when none is left.  *)
Advance(v, w) ==
  /\ w.prompt = v.prompt
  /\ \/ w.gen = v.gen
     \/ \E t \in Token : w.gen = Append(v.gen, t)
  /\ Len(w.kv) \in Len(v.kv) .. Len(TokensOf(v))
  /\ w.gen # v.gen => Len(w.kv) = Len(TokensOf(v))
  /\ w.kv = KvOf(TokensOf(v), Len(w.kv))

Forward ==
  /\ active > 0 /\ active' = active
  /\ \A s \in Slots : IF s <= active THEN Advance(view[s], view'[s])
                                     ELSE view'[s] = view[s]

(* The sequence of slot s leaves; those above it move down by one.         *)
Leave(s) ==
  /\ active' = active - 1
  /\ view' = [i \in Slots |-> IF i < s \/ i > active THEN view[i]
                              ELSE IF i < active THEN view[i + 1] ELSE Vacant]

Next == \/ \E p \in Prompt : \E n \in 0 .. Len(p) - 1 : Admit(p, n)
        \/ Forward
        \/ \E s \in 1 .. active : Leave(s)

Spec == Init /\ [][Next]_<<view, active>>
=============================================================================
