-------------------------- MODULE ContiguousProofs --------------------------
(***************************************************************************)
(* The contiguous engine for every value of its constants: type            *)
(* correctness, token accounting, and that a slot's KV row and recurrent   *)
(* state are its sequence's own.  CInv is inductive: the ownership of a    *)
(* row through a step needs OneTokenBehind (a step stores the positions    *)
(* the sequence has not consumed yet), and the length of a sequence that   *)
(* starts from an anchor needs AnchorsFit.  Last, that the engine without  *)
(* anchors implements PrivateKV.                                           *)
(***************************************************************************)
EXTENDS ContiguousEngine, FiniteSetTheorems, SequenceTheorems, WellFoundedInduction, TLAPS

(* Min picks a least element: the rows a slot takes, the cells of an       *)
(* anchor.                                                                 *)
LEMMA MinOfNats ==
  ASSUME NEW S \in SUBSET Nat, S # {}
  PROVE  /\ Min(S) \in S
         /\ \A n \in S : Min(S) <= n
<1>1. \E m \in S : \A n \in S : m <= n
  <2>1. IsWellFoundedOn(OpToRel(<, Nat), Nat)
    BY NatLessThanWellFounded
  <2>2. PICK m \in S : \A n \in S : ~(<<n, m>> \in OpToRel(<, Nat))
    BY <2>1, WFMin, Zenon
  <2>3. ASSUME NEW n \in S, ~(m <= n) PROVE FALSE
    <3>1. n < m
      BY <2>3
    <3>2. <<n, m>> \in OpToRel(<, Nat)
      BY <3>1 DEF OpToRel
    <3>3. QED
      BY <2>2, <3>2
  <2>4. QED
    BY <2>3
<1>2. QED
  BY <1>1 DEF Min

(* A slot takes no more rows than it wants and than the budget holds.      *)
LEMMA MinPair ==
  ASSUME NEW x \in Nat, NEW y \in Nat
  PROVE  Min({x, y}) \in Nat /\ Min({x, y}) <= x /\ Min({x, y}) <= y
<1>1. {x, y} \in SUBSET Nat /\ {x, y} # {}
  OBVIOUS
<1> DEFINE m == Min({x, y})
<1>2. m \in {x, y} /\ \A n \in {x, y} : m <= n
  BY <1>1, MinOfNats
<1> HIDE DEF m
<1>3. m \in Nat /\ m <= x /\ m <= y
  BY <1>2
<1>4. QED
  BY <1>3 DEF m

(* A slot wants its pending prompt, or at most one row.                    *)
LEMMA WantedBound ==
  ASSUME NEW q, Pending(q) \in Nat
  PROVE  /\ Wanted(q) \in Nat
         /\ Pending(q) > 0 => Wanted(q) <= Pending(q)
         /\ Pending(q) = 0 => Wanted(q) \in {0, 1}
<1> DEFINE n == Pending(q)
           w == Wanted(q)
<1>1. \/ n > 0 /\ w = n
      \/ ~(n > 0) /\ w \in {0, 1}
  BY DEF Wanted
<1> HIDE DEF n, w
<1>2. n \in Nat => w \in Nat /\ (n > 0 => w <= n) /\ (n = 0 => w \in {0, 1})
  BY <1>1
<1>3. QED
  BY <1>2 DEF n, w

(* A prompt has a token and fits a row.                                    *)
LEMMA PromptFits ==
  ASSUME NEW p \in Prompts
  PROVE  p \in Seq(Token) /\ Len(p) \in 1 .. MaxSeq
BY BatchingAssumption DEF Prompts

(* Slots are positive numbers.                                             *)
LEMMA SlotsFrom1 == Slot \subseteq Nat /\ Capacity \in Nat \ {0} /\ MaxSeq \in Nat \ {0}
BY BatchingAssumption DEF Slot

(* Tokens sampled later do not change a prefix.                            *)
LEMMA PrefixKept ==
  ASSUME NEW p \in Seq(Token), NEW g \in Seq(Token), NEW t \in Token,
         NEW n \in 0 .. Len(p \o g)
  PROVE  SubSeq(p \o Append(g, t), 1, n) = SubSeq(p \o g, 1, n)
<1>1. <<t>> \in Seq(Token)
  OBVIOUS
<1>2. p \o Append(g, t) = (p \o g) \o <<t>>
  <2>1. Append(g, t) = g \o <<t>>
    BY AppendIsConcat
  <2>2. p \o (g \o <<t>>) = (p \o g) \o <<t>>
    BY <1>1, ConcatAssociative
  <2>3. QED
    BY <2>1, <2>2
<1>3. p \o g \in Seq(Token) /\ Len(p \o g) \in Nat
  BY ConcatProperties, LenProperties
<1> DEFINE q == p \o g
<1> HIDE DEF q
<1>4. CASE n = 0
  <2>1. SubSeq(q, 1, n) = <<>> /\ SubSeq(q \o <<t>>, 1, n) = <<>>
    BY <1>4, SubSeqEmpty
  <2>2. QED
    BY <1>2, <2>1 DEF q
<1>5. CASE n # 0
  <2>1. 1 \in 1 .. Len(q) /\ n \in 1 .. Len(q) /\ q \in Seq(Token)
    BY <1>3, <1>5 DEF q
  <2>2. SubSeq(q \o <<t>>, 1, n) = SubSeq(q, 1, n)
    BY <1>1, <2>1, SubSeqOfConcat1
  <2>3. QED
    BY <1>2, <2>2 DEF q
<1>6. QED
  BY <1>4, <1>5

(***************************************************************************)
(* The invariant                                                           *)
(***************************************************************************)

(* An anchor holds no cell for a token it does not have.                   *)
AnchorsFit == \A k \in 1 .. Len(anchors) : Len(anchors[k].kv) <= Len(anchors[k].tokens)

CTypeInv == TypeOK /\ OneTokenBehind /\ AnchorsFit

StatesOwn == RowsAreOwn /\ RecurrenceIsOwn

CInv == CTypeInv /\ StatesOwn

(* What the invariant says of one live sequence, and of the rows it may    *)
(* be given.                                                               *)
LEMMA SequenceFacts ==
  ASSUME TypeOK, OneTokenBehind, NEW s \in Live
  PROVE  /\ s \in Slot /\ seqs[s] \in SeqState
         /\ seqs[s].prompt \in Prompts /\ seqs[s].prompt \in Seq(Token)
         /\ seqs[s].gen \in Seq(Token)
         /\ seqs[s].len \in Nat
         /\ Tokens(seqs[s]) \in Seq(Token) /\ Len(Tokens(seqs[s])) \in Nat
         /\ Wanted(seqs[s]) \in Nat
         /\ seqs[s].len + Wanted(seqs[s]) <= Len(Tokens(seqs[s]))
         /\ seqs[s].len + Wanted(seqs[s]) <= MaxSeq
         /\ seqs[s].gen = <<>> => /\ Wanted(seqs[s]) = Len(seqs[s].prompt) - seqs[s].len
                                  /\ Pending(seqs[s]) = Wanted(seqs[s])
                                  /\ Wanted(seqs[s]) > 0
                                  /\ Tokens(seqs[s]) = seqs[s].prompt
         /\ seqs[s].gen # <<>> => Pending(seqs[s]) = 0
<1>1. s \in Slot
  BY SlotsFrom1 DEF TypeOK, Live, Slot
<1>2. seqs[s] \in SeqState /\ seqs[s].prompt \in Prompts
  BY <1>1 DEF TypeOK, OneTokenBehind
<1>3. seqs[s].prompt \in Seq(Token) /\ Len(seqs[s].prompt) \in 1 .. MaxSeq
  BY <1>2, PromptFits
<1>4. seqs[s].gen \in Seq(Token) /\ seqs[s].len \in 0 .. MaxSeq
  BY <1>2 DEF SeqState
<1>5. /\ Tokens(seqs[s]) \in Seq(Token)
      /\ Len(Tokens(seqs[s])) = Len(seqs[s].prompt) + Len(seqs[s].gen)
      /\ Len(seqs[s].gen) \in Nat /\ Len(Tokens(seqs[s])) \in Nat
  BY <1>3, <1>4, ConcatProperties, LenProperties DEF Tokens
<1> DEFINE q == seqs[s]
           p == Len(q.prompt)
           g == Len(q.gen)
           t == Len(Tokens(q))
           l == q.len
           w == Wanted(q)
<1>6. CASE q.gen = <<>>
  <2>1. l < p /\ Pending(q) = p - l
    BY <1>6 DEF OneTokenBehind, Pending
  <2>2. Tokens(q) = q.prompt
    BY <1>3, <1>6, ConcatEmptySeq DEF Tokens
  <2>3. p \in 1 .. MaxSeq /\ l \in Nat /\ g = 0 /\ t = p
    BY <1>3, <1>4, <1>6, <2>2, SlotsFrom1
  <2>4. Pending(q) > 0
    BY <2>1, <2>3, SlotsFrom1
  <2>5. w = p - l
    BY <2>1, <2>4 DEF Wanted
  <2> HIDE DEF w, p, g, t, l, q
  <2>6. w \in Nat /\ l + w <= t /\ l + w <= MaxSeq /\ w > 0 /\ w = p - l /\ Pending(q) = w
    BY <2>1, <2>3, <2>5, SlotsFrom1
  <2>7. QED
    BY <1>1, <1>2, <1>3, <1>4, <1>5, <1>6, <2>2, <2>3, <2>6, SlotsFrom1 DEF w, p, g, t, l, q
<1>7. CASE q.gen # <<>>
  <2>1. l = t - 1 /\ Pending(q) = 0
    BY <1>7 DEF OneTokenBehind, Pending
  <2>2. w = IF l >= MaxSeq THEN 0 ELSE 1
    BY <2>1 DEF Wanted
  <2>3. t \in Nat /\ l \in 0 .. MaxSeq /\ MaxSeq \in Nat
    BY <1>4, <1>5, <1>3, SlotsFrom1
  <2> HIDE DEF w, p, g, t, l, q
  <2>4. w \in Nat /\ l + w <= t /\ l + w <= MaxSeq /\ l \in Nat
    BY <2>1, <2>2, <2>3
  <2>5. QED
    BY <1>1, <1>2, <1>3, <1>4, <1>5, <1>7, <2>1, <2>3, <2>4 DEF w, p, g, t, l, q
<1>8. QED
  BY <1>6, <1>7

Takes(b) == [s \in Slot |-> b[s] - b[s + 1]]

(* A slot never takes more rows than it wants, whatever chunk it asks for. *)
LEMMA TakeFacts ==
  ASSUME TypeOK, OneTokenBehind, NEW b \in Budgets(Asked), NEW s \in Live
  PROVE  Takes(b)[s] \in 0 .. Wanted(seqs[s])
<1> DEFINE m == Min({Asked[s], b[s]})
<1>1. s \in Slot /\ s \in 1 .. Capacity /\ Wanted(seqs[s]) \in Nat
  BY SequenceFacts DEF Slot
<1>2. Asked[s] \in Nat /\ Asked[s] <= Wanted(seqs[s])
  BY <1>1, MinPair, ContiguousAssumption DEF Asked
<1>3. b[s] \in Nat /\ b[s + 1] = b[s] - m
  BY <1>1, BatchingAssumption DEF Budgets
<1>4. m \in Nat /\ m <= Asked[s]
  BY <1>2, <1>3, MinPair
<1> HIDE DEF m
<1>5. Takes(b)[s] = m
  BY <1>1, <1>3, <1>4 DEF Takes
<1>6. QED
  BY <1>1, <1>2, <1>4, <1>5

(***************************************************************************)
(* Type correctness and token accounting                                   *)
(***************************************************************************)

(* A new engine has no sequence and no anchor.                             *)
LEMMA TypeInit == Init => CTypeInv
<1> SUFFICES ASSUME Init PROVE CTypeInv
  OBVIOUS
<1>1. NoSeq \in SeqState
  BY SlotsFrom1, EmptySeq DEF NoSeq, SeqState
<1>2. <<>> \in Seq(Token) /\ <<>> \in Seq([tokens : Seq(Token), kv : Seq(Seq(Token))])
  BY EmptySeq
<1>3. TypeOK
  <2>1. active \in 0 .. Capacity /\ done \in [outputs : SUBSET Slot, limit : SUBSET Slot]
    BY SlotsFrom1 DEF Init, NoneDone
  <2>2. seqs \in [Slot -> SeqState]
    BY <1>1 DEF Init
  <2>3. kv \in [Slot -> [Position -> Seq(Token)]] /\ rec \in [Slot -> Seq(Token)]
    BY <1>2 DEF Init, Garbage
  <2>4. /\ anchors \in Seq([tokens : Seq(Token), kv : Seq(Seq(Token))])
        /\ mode \in {"plain", "gdn", "reuse"} /\ panicked \in BOOLEAN
    BY <1>2 DEF Init
  <2>5. QED
    BY <2>1, <2>2, <2>3, <2>4 DEF TypeOK
<1>4. OneTokenBehind
  <2>1. active = 0
    BY DEF Init
  <2>2. QED
    BY <2>1 DEF OneTokenBehind, Live
<1>5. AnchorsFit
  BY DEF Init, AnchorsFit
<1>6. QED
  BY <1>3, <1>4, <1>5 DEF CTypeInv

(* A reusable anchor leaves a prompt token to prefill.                     *)
LEMMA ReusableFacts ==
  ASSUME CTypeInv, NEW p \in Prompts, NEW k \in Reusable(p)
  PROVE  /\ k \in 1 .. Len(anchors)
         /\ anchors[k].kv \in Seq(Seq(Token))
         /\ Len(anchors[k].kv) \in 0 .. MaxSeq /\ Len(anchors[k].kv) < Len(p)
<1>1. /\ anchors \in Seq([tokens : Seq(Token), kv : Seq(Seq(Token))])
      /\ k \in DOMAIN anchors /\ Len(anchors[k].tokens) < Len(p)
  BY DEF CTypeInv, TypeOK, Reusable
<1>2. k \in 1 .. Len(anchors)
  BY <1>1, LenProperties
<1>3. anchors[k] \in [tokens : Seq(Token), kv : Seq(Seq(Token))]
  BY <1>1, <1>2, ElementOfSeq
<1>4. Len(anchors[k].kv) \in Nat /\ Len(anchors[k].tokens) \in Nat /\ Len(p) \in 1 .. MaxSeq
  BY <1>3, LenProperties, PromptFits
<1>5. Len(anchors[k].kv) <= Len(anchors[k].tokens)
  BY <1>2 DEF CTypeInv, AnchorsFit
<1>6. QED
  BY <1>1, <1>2, <1>3, <1>4, <1>5, SlotsFrom1

(* The row of a slot over which cells were copied.                         *)
LEMMA RestoredType ==
  ASSUME TypeOK, NEW slot \in Slot, NEW cells \in Seq(Seq(Token))
  PROVE  Restored(slot, cells) \in [Position -> Seq(Token)]
<1>1. ASSUME NEW n \in Position, n < Len(cells) PROVE cells[n + 1] \in Seq(Token)
  <2>1. n + 1 \in 1 .. Len(cells)
    BY <1>1, SlotsFrom1, LenProperties DEF Position
  <2>2. QED
    BY <2>1, ElementOfSeq
<1>2. QED
  BY <1>1 DEF Restored, TypeOK

(* A request is given the next slot, with the cells of an anchor or none.  *)
LEMMA TypeAdmit ==
  ASSUME CTypeInv, NEW r \in Request, active < Capacity,
         NEW cells \in Seq(Seq(Token)), Len(cells) \in 0 .. MaxSeq, Len(cells) < Len(r.prompt),
         Admit(r, cells), rec' = Cleared(active + 1),
         UNCHANGED <<done, mode, anchors, panicked>>
  PROVE  CTypeInv'
<1> DEFINE slot == active + 1
           new == [prompt |-> r.prompt, gen |-> <<>>, len |-> Len(cells),
                   maxNew |-> r.maxNew, ended |-> FALSE]
<1>1. TypeOK /\ OneTokenBehind /\ AnchorsFit
  BY DEF CTypeInv
<1>2. slot \in Slot /\ slot \notin Live /\ slot \in 0 .. Capacity
  BY <1>1, SlotsFrom1 DEF TypeOK, Slot, Live
<1>3. /\ seqs' = [seqs EXCEPT ![slot] = new]
      /\ kv' = [kv EXCEPT ![slot] = Restored(slot, cells)]
      /\ active' = slot
      /\ rec' = [rec EXCEPT ![slot] = <<>>]
  BY DEF Admit, Cleared
<1>4. Live' = Live \cup {slot}
  <2>1. active \in Nat /\ active' = active + 1
    BY <1>1, <1>3, SlotsFrom1 DEF TypeOK
  <2>2. 1 .. active + 1 = (1 .. active) \cup {active + 1}
    BY <2>1
  <2>3. QED
    BY <2>1, <2>2 DEF Live
<1>5. r.prompt \in Prompts /\ r.maxNew \in Nat /\ <<>> \in Seq(Token)
  BY BatchingAssumption, EmptySeq DEF Prompts
<1>6. new \in SeqState
  BY <1>5 DEF SeqState
<1>7. new.prompt \in Prompts /\ new.gen = <<>> /\ new.len < Len(new.prompt)
  BY <1>5
<1> HIDE DEF new, slot
<1>8. TypeOK'
  <2>1. Restored(slot, cells) \in [Position -> Seq(Token)]
    BY <1>1, <1>2, RestoredType
  <2>2. seqs' \in [Slot -> SeqState]
    BY <1>1, <1>3, <1>6 DEF TypeOK
  <2>3. kv' \in [Slot -> [Position -> Seq(Token)]]
    BY <1>1, <1>3, <2>1 DEF TypeOK
  <2>4. rec' \in [Slot -> Seq(Token)]
    BY <1>1, <1>3, <1>5 DEF TypeOK
  <2>5. QED
    BY <1>1, <1>2, <1>3, <2>2, <2>3, <2>4 DEF TypeOK
<1>9. OneTokenBehind'
  <2>1. \A s \in Live : seqs'[s] = seqs[s] /\ seqs'[slot] = new
    BY <1>1, <1>2, <1>3, SequenceFacts DEF TypeOK
  <2>2. seqs'[slot] = new
    BY <1>1, <1>2, <1>3 DEF TypeOK
  <2>3. QED
    BY <1>1, <1>4, <1>7, <2>1, <2>2 DEF OneTokenBehind
<1>10. AnchorsFit'
  BY <1>1 DEF AnchorsFit
<1>11. QED
  BY <1>8, <1>9, <1>10 DEF CTypeInv

(* How a request is admitted: over an anchor only in reuse mode.           *)
LEMMA AddCells ==
  ASSUME CTypeInv, NEW r \in Request, Add(r)
  PROVE  \E cells \in Seq(Seq(Token)) :
           /\ Len(cells) \in 0 .. MaxSeq /\ Len(cells) < Len(r.prompt)
           /\ mode # "reuse" => cells = <<>>
           /\ Admit(r, cells)
<1>1. r.prompt \in Prompts
  BY DEF Prompts
<1>2. CASE mode = "reuse" /\ Reusable(r.prompt) # {}
  <2>1. PICK k \in Reusable(r.prompt) : Admit(r, anchors[k].kv)
    BY <1>2 DEF Add
  <2>2. QED
    BY <1>1, <1>2, <2>1, ReusableFacts
<1>3. CASE ~(mode = "reuse" /\ Reusable(r.prompt) # {})
  <2>1. Admit(r, <<>>)
    BY <1>3 DEF Add
  <2>2. /\ <<>> \in Seq(Seq(Token)) /\ Len(<<>>) = 0
        /\ Len(r.prompt) \in 1 .. MaxSeq
    BY <1>1, EmptySeq, PromptFits
  <2>3. Len(<<>>) \in 0 .. MaxSeq /\ Len(<<>>) < Len(r.prompt)
    BY <2>2, SlotsFrom1
  <2>4. QED
    BY <2>1, <2>2, <2>3
<1>4. QED
  BY <1>2, <1>3

(* A failed restore touches only the free slot it was for.                 *)
LEMMA RestoreFacts ==
  ASSUME CTypeInv, NEW r \in Request, RestoreFails(r)
  PROVE  /\ kv' \in [Slot -> [Position -> Seq(Token)]]
         /\ rec' \in [Slot -> Seq(Token)]
         /\ mode = "reuse"
         /\ UNCHANGED <<seqs, active, done, mode, anchors, panicked>>
<1> DEFINE slot == active + 1
<1>1. r.prompt \in Prompts /\ TypeOK
  BY DEF Prompts, CTypeInv
<1>2. slot \in Slot
  BY <1>1, SlotsFrom1 DEF TypeOK, Slot, RestoreFails
<1>3. PICK k \in Reusable(r.prompt) :
        \E cells \in {<<>>, [n \in DOMAIN anchors[k].kv |-> Garbage]} :
          kv' = [kv EXCEPT ![slot] = Restored(slot, cells)]
  BY DEF RestoreFails
<1>4. PICK cells \in {<<>>, [n \in DOMAIN anchors[k].kv |-> Garbage]} :
        kv' = [kv EXCEPT ![slot] = Restored(slot, cells)]
  BY <1>3
<1>5. cells \in Seq(Seq(Token))
  <2>1. <<>> \in Seq(Seq(Token)) /\ <<>> \in Seq(Token)
    BY EmptySeq
  <2>2. anchors[k].kv \in Seq(Seq(Token)) /\ Len(anchors[k].kv) \in Nat
    BY <1>1, ReusableFacts, LenProperties
  <2>3. DOMAIN anchors[k].kv = 1 .. Len(anchors[k].kv)
    BY <2>2, LenProperties
  <2> DEFINE m == Len(anchors[k].kv)
  <2> HIDE DEF m
  <2>4. m \in Nat => [n \in 1 .. m |-> Garbage] \in Seq(Seq(Token))
    BY <2>1 DEF Garbage
  <2>5. QED
    BY <2>1, <2>2, <2>3, <2>4 DEF m
<1>6. Restored(slot, cells) \in [Position -> Seq(Token)]
  BY <1>1, <1>2, <1>5, RestoredType
<1> HIDE DEF slot
<1>7. kv' \in [Slot -> [Position -> Seq(Token)]]
  BY <1>1, <1>2, <1>4, <1>6 DEF TypeOK
<1>8. rec' \in [Slot -> Seq(Token)]
  BY <1>1, EmptySeq DEF TypeOK, RestoreFails, Cleared
<1>9. QED
  BY <1>7, <1>8 DEF RestoreFails

(* A step leaves a sequence one token behind again, or in its prompt, and  *)
(* only appends to its tokens.                                             *)
LEMMA AdvancedFacts ==
  ASSUME TypeOK, OneTokenBehind, NEW b \in Budgets(Asked), NEW s \in Live,
         NEW token \in [Emits(Takes(b)) -> Token],
         NEW fin
  PROVE  LET q == Advanced(s, Takes(b), token, fin)
         IN  /\ q \in SeqState
             /\ q.prompt = seqs[s].prompt
             /\ q.len = seqs[s].len + Takes(b)[s]
             /\ q.gen = <<>> => q.len < Len(q.prompt)
             /\ q.gen # <<>> => q.len = Len(Tokens(q)) - 1
             /\ \A n \in 0 .. Len(Tokens(seqs[s])) :
                  SubSeq(Tokens(q), 1, n) = SubSeq(Tokens(seqs[s]), 1, n)
<1> DEFINE take == Takes(b)
           old == seqs[s]
           q == Advanced(s, take, token, fin)
           emits == s \in Emits(take)
           gen == IF emits THEN Append(old.gen, token[s]) ELSE old.gen
<1>1. /\ old \in SeqState /\ old.prompt \in Prompts /\ old.prompt \in Seq(Token)
      /\ old.gen \in Seq(Token) /\ old.len \in Nat
      /\ take[s] \in 0 .. Wanted(old) /\ Wanted(old) \in Nat
      /\ old.len + Wanted(old) <= MaxSeq
  BY SequenceFacts, TakeFacts
<1>2. emits => token[s] \in Token
  OBVIOUS
<1>3. emits <=> take[s] > 0 /\ (old.gen = <<>> => take[s] = Pending(old))
  BY DEF Emits
<1>4. Len(old.prompt) \in Nat /\ Len(old.gen) \in Nat
  BY <1>1, LenProperties
<1>5. Len(Tokens(old)) = Len(old.prompt) + Len(old.gen)
  BY <1>1, ConcatProperties DEF Tokens
<1> HIDE DEF take
<1>6. old.len + take[s] \in 0 .. MaxSeq
  BY <1>1, SlotsFrom1
<1>7. /\ emits => gen \in Seq(Token) /\ Len(gen) = Len(old.gen) + 1 /\ gen # <<>>
      /\ emits => gen = Append(old.gen, token[s])
      /\ ~emits => gen = old.gen
  <2> DEFINE t == token[s]
  <2>1. gen = IF emits THEN Append(old.gen, t) ELSE old.gen
    OBVIOUS
  <2>2. emits => t \in Token
    BY <1>2
  <2> HIDE DEF emits, t, gen
  <2>3. emits => gen = Append(old.gen, t)
    BY <2>1
  <2>4. emits => gen \in Seq(Token) /\ Len(gen) = Len(old.gen) + 1 /\ gen # <<>>
    <3>1. old.gen \in Seq(Token)
      BY <1>1
    <3> HIDE DEF old
    <3>2. ASSUME emits
          PROVE  /\ Append(old.gen, t) \in Seq(Token)
                 /\ Len(Append(old.gen, t)) = Len(old.gen) + 1
                 /\ Append(old.gen, t) # <<>>
      <4>1. t \in Token
        BY <2>2, <3>2
      <4>2. QED
        BY <3>1, <4>1, AppendProperties
    <3>3. QED
      BY <2>3, <3>2
  <2>5. ~emits => gen = old.gen
    BY <2>1
  <2>6. QED
    BY <2>3, <2>4, <2>5 DEF t
<1> HIDE DEF emits
<1>8. gen \in Seq(Token)
  BY <1>1, <1>7
<1> HIDE DEF gen
<1>9. /\ q.prompt = old.prompt /\ q.gen = gen /\ q.len = old.len + take[s]
      /\ q \in SeqState
  <2>1. q = [old EXCEPT !.len = old.len + take[s], !.gen = gen,
                        !.ended = s \in fin.outputs \cup fin.limit]
    BY <1>1 DEF Advanced, SeqState, gen, emits, take
  <2> DEFINE n == old.len + take[s]
             e == s \in fin.outputs \cup fin.limit
  <2>2. q = [old EXCEPT !.len = n, !.gen = gen, !.ended = e] /\ n \in 0 .. MaxSeq
    BY <1>6, <2>1
  <2>3. old \in [prompt : Prompts \cup {<<>>}, gen : Seq(Token), len : 0 .. MaxSeq,
                 maxNew : Nat, ended : BOOLEAN]
    BY <1>1 DEF SeqState
  <2>4. e \in BOOLEAN
    OBVIOUS
  <2> HIDE DEF q, n, e, old
  <2>5. /\ q.prompt = old.prompt /\ q.gen = gen /\ q.len = n
        /\ q \in SeqState
    BY <1>8, <2>2, <2>3, <2>4 DEF SeqState
  <2>6. QED
    BY <2>5 DEF n
<1> HIDE DEF q
<1>10. Tokens(q) = old.prompt \o gen
  BY <1>9 DEF Tokens
<1>11. Len(Tokens(q)) = Len(old.prompt) + Len(gen)
  BY <1>1, <1>8, <1>10, ConcatProperties
<1> DEFINE p == Len(old.prompt)
           g == Len(old.gen)
           l == old.len
           n == take[s]
<1>12. /\ q.gen = <<>> => q.len < Len(q.prompt)
       /\ q.gen # <<>> => q.len = Len(Tokens(q)) - 1
  <2>1. /\ p \in Nat /\ g \in Nat /\ l \in Nat
        /\ n \in 0 .. Wanted(old) /\ Wanted(old) \in Nat
        /\ Len(Tokens(old)) = p + g
        /\ Len(Tokens(q)) = p + Len(gen)
        /\ q.len = l + n /\ Len(q.prompt) = p /\ q.gen = gen
    BY <1>1, <1>4, <1>5, <1>9, <1>11
  <2>2. /\ emits <=> n > 0 /\ (old.gen = <<>> => n = Pending(old))
        /\ emits => Len(gen) = g + 1 /\ gen # <<>>
        /\ ~emits => gen = old.gen
    BY <1>3, <1>7
  <2>3. CASE old.gen = <<>>
    <3>1. l < p /\ Pending(old) = p - l
      BY <2>3 DEF OneTokenBehind, Pending
    <3>2. p - l \in Nat /\ p - l > 0
      BY <2>1, <3>1
    <3>3. g = 0
      BY <2>3
    <3>4. Wanted(old) <= p - l
      BY <3>1, <3>2, WantedBound
    <3> HIDE DEF p, g, l, n, old
    <3>5. CASE n = p - l
      <4>1. Len(gen) = 1 /\ gen # <<>>
        BY <2>1, <2>2, <3>1, <3>3, <3>5
      <4>2. QED
        BY <2>1, <3>5, <4>1
    <3>6. CASE n # p - l
      <4>1. gen = <<>>
        BY <2>2, <2>3, <3>1, <3>6
      <4>2. l + n < p
        BY <2>1, <3>1, <3>4, <3>6
      <4>3. QED
        BY <2>1, <4>1, <4>2
    <3>7. QED
      BY <3>5, <3>6
  <2>4. CASE old.gen # <<>>
    <3>1. l = Len(Tokens(old)) - 1 /\ Pending(old) = 0
      BY <2>4 DEF OneTokenBehind, Pending
    <3>2. Wanted(old) \in {0, 1}
      BY <3>1, WantedBound
    <3>3. g = Len(old.gen)
      OBVIOUS
    <3> HIDE DEF p, g, l, n, old
    <3>4. CASE n = 0
      <4>1. gen = old.gen
        BY <2>2, <3>4
      <4>2. QED
        BY <2>1, <2>4, <3>1, <3>3, <3>4, <4>1
    <3>5. CASE n = 1
      <4>1. Len(gen) = g + 1 /\ gen # <<>>
        BY <2>2, <2>4, <3>5
      <4>2. QED
        BY <2>1, <3>1, <3>5, <4>1
    <3>6. n = 0 \/ n = 1
      BY <2>1, <3>2
    <3>7. QED
      BY <3>4, <3>5, <3>6
  <2>5. QED
    BY <2>3, <2>4
<1>13. ASSUME NEW k \in 0 .. Len(Tokens(old))
       PROVE  SubSeq(Tokens(q), 1, k) = SubSeq(Tokens(old), 1, k)
  <2>1. Tokens(old) = old.prompt \o old.gen
    BY DEF Tokens
  <2> DEFINE t == token[s]
  <2>2. emits => t \in Token /\ gen = Append(old.gen, t)
    BY <1>2, <1>7
  <2> HIDE DEF t, old
  <2>3. CASE emits
    <3>1. old.prompt \in Seq(Token) /\ old.gen \in Seq(Token) /\ t \in Token
      BY <1>1, <2>2, <2>3
    <3>2. k \in 0 .. Len(old.prompt \o old.gen)
      BY <2>1
    <3>3. SubSeq(old.prompt \o Append(old.gen, t), 1, k) = SubSeq(old.prompt \o old.gen, 1, k)
      BY <3>1, <3>2, PrefixKept
    <3>4. QED
      BY <1>10, <2>1, <2>2, <2>3, <3>3
  <2>4. CASE ~emits
    BY <1>7, <1>10, <2>1, <2>4
  <2>5. QED
    BY <2>3, <2>4
<1>14. QED
  BY <1>9, <1>12, <1>13 DEF q, take

(* The forward of a step, taken apart.                                     *)
LEMMA StepForward ==
  ASSUME Step
  PROVE  /\ \E b \in Budgets(Asked) :
              \E token \in [Emits(Takes(b)) -> Token], stop \in SUBSET Emits(Takes(b)) :
                LET fin == Finishing(Takes(b), stop)
                IN  /\ seqs' = [s \in Slot |-> IF s \in Live
                                               THEN Advanced(s, Takes(b), token, fin)
                                               ELSE seqs[s]]
                    /\ done' = fin
                    /\ kv' = Stored(Takes(b))
                    /\ rec' = Folded(Takes(b))
         /\ Live' = Live
         /\ UNCHANGED <<active, mode, anchors, panicked>>
BY DEF Step, Takes, Live

(* The context of a row that a step stores.                                *)
LEMMA RowContext ==
  ASSUME TypeOK, OneTokenBehind, NEW s \in Live, NEW n \in Nat,
         n < seqs[s].len + Wanted(seqs[s])
  PROVE  Context(seqs[s], n) \in Seq(Token) /\ n + 1 \in 0 .. Len(Tokens(seqs[s]))
<1>1. /\ Tokens(seqs[s]) \in Seq(Token)
      /\ seqs[s].len + Wanted(seqs[s]) <= Len(Tokens(seqs[s]))
      /\ seqs[s].len \in Nat /\ Wanted(seqs[s]) \in Nat
      /\ Len(Tokens(seqs[s])) \in Nat
  BY SequenceFacts
<1>2. n + 1 \in 0 .. Len(Tokens(seqs[s]))
  BY <1>1
<1>3. QED
  BY <1>1, <1>2, SubSeqProperties DEF Context

(* A step stores contexts of the rows it takes and leaves other cells.     *)
LEMMA StoredFacts ==
  ASSUME TypeOK, OneTokenBehind, NEW b \in Budgets(Asked)
  PROVE  /\ Stored(Takes(b)) \in [Slot -> [Position -> Seq(Token)]]
         /\ \A s \in Live : \A n \in Position :
              /\ n \in seqs[s].len .. seqs[s].len + Takes(b)[s] - 1
                   => Stored(Takes(b))[s][n] = Context(seqs[s], n)
              /\ n < seqs[s].len => Stored(Takes(b))[s][n] = kv[s][n]
<1> DEFINE take == Takes(b)
           Row(s, n) == IF s \in Live /\ n \in seqs[s].len .. seqs[s].len + take[s] - 1
                        THEN Context(seqs[s], n) ELSE kv[s][n]
<1>1. ASSUME NEW s \in Slot, NEW n \in Position
      PROVE  Row(s, n) \in Seq(Token)
  <2>1. CASE s \in Live /\ n \in seqs[s].len .. seqs[s].len + take[s] - 1
    <3>1. /\ take[s] \in 0 .. Wanted(seqs[s]) /\ Wanted(seqs[s]) \in Nat
          /\ seqs[s].len \in Nat
      BY <2>1, TakeFacts, SequenceFacts
    <3> HIDE DEF take
    <3>2. n \in Nat /\ n < seqs[s].len + Wanted(seqs[s])
      BY <2>1, <3>1
    <3>3. Context(seqs[s], n) \in Seq(Token)
      BY <2>1, <3>2, RowContext
    <3>4. QED
      BY <2>1, <3>3
  <2>2. CASE ~(s \in Live /\ n \in seqs[s].len .. seqs[s].len + take[s] - 1)
    BY <2>2 DEF TypeOK
  <2>3. QED
    BY <2>1, <2>2
<1>2. Stored(take) = [s \in Slot |-> [n \in Position |-> Row(s, n)]]
  BY DEF Stored
<1>3. \A s \in Live : s \in Slot /\ seqs[s].len \in Nat
  BY SequenceFacts
<1> HIDE DEF take
<1>4. ASSUME NEW s \in Live, NEW n \in Position
      PROVE  /\ n \in seqs[s].len .. seqs[s].len + take[s] - 1
                  => Row(s, n) = Context(seqs[s], n)
             /\ n < seqs[s].len => Row(s, n) = kv[s][n]
  BY <1>3 DEF Position
<1> HIDE DEF Row
<1>5. Stored(take) \in [Slot -> [Position -> Seq(Token)]]
  BY <1>1, <1>2
<1>6. \A s \in Live : \A n \in Position : Stored(take)[s][n] = Row(s, n)
  BY <1>2, <1>3
<1>7. QED
  BY <1>4, <1>5, <1>6 DEF take

(* The rows folded into a recurrent state continue the tokens consumed.    *)
LEMMA FoldedFacts ==
  ASSUME TypeOK, OneTokenBehind, NEW b \in Budgets(Asked)
  PROVE  /\ Folded(Takes(b)) \in [Slot -> Seq(Token)]
         /\ \A s \in Live :
              mode = "gdn" /\ rec[s] = SubSeq(Tokens(seqs[s]), 1, seqs[s].len)
              => Folded(Takes(b))[s] = SubSeq(Tokens(seqs[s]), 1, seqs[s].len + Takes(b)[s])
<1> DEFINE take == Takes(b)
           More(s) == SubSeq(Tokens(seqs[s]), seqs[s].len + 1, seqs[s].len + take[s])
<1>1. ASSUME NEW s \in Live
      PROVE  /\ s \in Slot /\ More(s) \in Seq(Token)
             /\ rec[s] = SubSeq(Tokens(seqs[s]), 1, seqs[s].len)
                => rec[s] \o More(s) = SubSeq(Tokens(seqs[s]), 1, seqs[s].len + take[s])
  <2> DEFINE t == Tokens(seqs[s])
             l == seqs[s].len
             n == take[s]
  <2>1. /\ s \in Slot /\ t \in Seq(Token) /\ Len(t) \in Nat /\ l \in Nat
        /\ n \in 0 .. Wanted(seqs[s]) /\ Wanted(seqs[s]) \in Nat
        /\ l + Wanted(seqs[s]) <= Len(t)
    BY SequenceFacts, TakeFacts
  <2> HIDE DEF t, l, n, take
  <2>2. l + n \in 0 .. Len(t) /\ l \in 0 .. Len(t) /\ n \in Nat
    BY <2>1
  <2>3. SubSeq(t, l + 1, l + n) \in Seq(Token)
    BY <2>1, <2>2, SubSeqProperties
  <2>4. SubSeq(t, 1, l) \o SubSeq(t, l + 1, l + n) = SubSeq(t, 1, l + n)
    <3>1. l \in 0 .. l + n /\ 1 - 1 \in 0 .. l
      BY <2>1, <2>2
    <3>2. QED
      BY <2>1, <2>2, <3>1, ConcatAdjacentSubSeq
  <2>5. QED
    BY <2>1, <2>3, <2>4 DEF t, l, n
<1>2. Folded(take) = [s \in Slot |-> IF s \in Live /\ mode = "gdn" THEN rec[s] \o More(s)
                                     ELSE rec[s]]
  BY DEF Folded
<1> HIDE DEF take, More
<1>3. ASSUME NEW s \in Slot
      PROVE  (IF s \in Live /\ mode = "gdn" THEN rec[s] \o More(s) ELSE rec[s]) \in Seq(Token)
  <2>1. rec[s] \in Seq(Token)
    BY DEF TypeOK
  <2>2. s \in Live => rec[s] \o More(s) \in Seq(Token)
    BY <1>1, <2>1, ConcatProperties
  <2>3. QED
    BY <2>1, <2>2
<1>4. Folded(take) \in [Slot -> Seq(Token)]
  BY <1>2, <1>3
<1>5. \A s \in Live : mode = "gdn" => Folded(take)[s] = rec[s] \o More(s)
  BY <1>1, <1>2
<1>6. QED
  BY <1>1, <1>4, <1>5 DEF take

(* A step preserves types and token accounting, and stores a row and a     *)
(* state of the sequence's own tokens on top of what it owned.             *)
LEMMA StepKeeps == CInv /\ Step => CInv'
<1> SUFFICES ASSUME CInv, Step PROVE CInv'
  OBVIOUS
<1>1. TypeOK /\ OneTokenBehind /\ AnchorsFit /\ RowsAreOwn /\ RecurrenceIsOwn
  BY DEF CInv, CTypeInv, StatesOwn
<1>2. PICK b \in Budgets(Asked) :
        \E token \in [Emits(Takes(b)) -> Token], stop \in SUBSET Emits(Takes(b)) :
          LET fin == Finishing(Takes(b), stop)
          IN  /\ seqs' = [s \in Slot |-> IF s \in Live
                                         THEN Advanced(s, Takes(b), token, fin)
                                         ELSE seqs[s]]
              /\ done' = fin
              /\ kv' = Stored(Takes(b))
              /\ rec' = Folded(Takes(b))
  BY StepForward
<1> DEFINE take == Takes(b)
<1>3. PICK token \in [Emits(take) -> Token], stop \in SUBSET Emits(take) :
          /\ seqs' = [s \in Slot |-> IF s \in Live
                                     THEN Advanced(s, take, token, Finishing(take, stop))
                                     ELSE seqs[s]]
          /\ done' = Finishing(take, stop)
          /\ kv' = Stored(take)
          /\ rec' = Folded(take)
  BY <1>2
<1> DEFINE fin == Finishing(take, stop)
<1>4. Live' = Live /\ active' = active /\ mode' = mode /\ anchors' = anchors
      /\ panicked' = panicked
  BY StepForward
<1>5. ASSUME NEW s \in Live
      PROVE  /\ seqs'[s] \in SeqState
             /\ seqs'[s].prompt = seqs[s].prompt
             /\ seqs'[s].len = seqs[s].len + take[s]
             /\ seqs'[s].gen = <<>> => seqs'[s].len < Len(seqs'[s].prompt)
             /\ seqs'[s].gen # <<>> => seqs'[s].len = Len(Tokens(seqs'[s])) - 1
             /\ \A n \in 0 .. Len(Tokens(seqs[s])) :
                  SubSeq(Tokens(seqs'[s]), 1, n) = SubSeq(Tokens(seqs[s]), 1, n)
  <2>1. seqs'[s] = Advanced(s, take, token, fin)
    BY <1>1, <1>3, SequenceFacts
  <2>2. token \in [Emits(Takes(b)) -> Token]
    OBVIOUS
  <2> DEFINE a == Advanced(s, Takes(b), token, fin)
  <2> HIDE DEF fin
  <2>3. /\ a \in SeqState
        /\ a.prompt = seqs[s].prompt
        /\ a.len = seqs[s].len + Takes(b)[s]
        /\ a.gen = <<>> => a.len < Len(a.prompt)
        /\ a.gen # <<>> => a.len = Len(Tokens(a)) - 1
        /\ \A n \in 0 .. Len(Tokens(seqs[s])) :
             SubSeq(Tokens(a), 1, n) = SubSeq(Tokens(seqs[s]), 1, n)
    BY <1>1, <2>2, AdvancedFacts
  <2>4. seqs'[s] = a
    BY <2>1
  <2> HIDE DEF a
  <2>5. QED
    BY <2>3, <2>4
<1>6. TypeOK'
  <2>1. seqs' \in [Slot -> SeqState]
    <3>1. \A s \in Slot : seqs'[s] \in SeqState
      BY <1>1, <1>3, <1>5 DEF TypeOK
    <3>2. DOMAIN seqs' = Slot /\ seqs' = [s \in Slot |-> seqs'[s]]
      BY <1>3
    <3>3. QED
      BY <3>1, <3>2
  <2>2. done' \in [outputs : SUBSET Slot, limit : SUBSET Slot]
    <3>1. Live \subseteq Slot
      BY <1>1, SequenceFacts
    <3>2. fin.outputs \subseteq Live /\ fin.limit \subseteq Live
      BY DEF Finishing, Emits
    <3>3. fin = [outputs |-> fin.outputs, limit |-> fin.limit] /\ done' = fin
      BY <1>3 DEF Finishing
    <3> HIDE DEF fin
    <3>4. QED
      BY <3>1, <3>2, <3>3
  <2>3. kv' \in [Slot -> [Position -> Seq(Token)]] /\ rec' \in [Slot -> Seq(Token)]
    BY <1>1, <1>3, StoredFacts, FoldedFacts
  <2>4. QED
    BY <1>1, <1>4, <2>1, <2>2, <2>3 DEF TypeOK
<1>7. OneTokenBehind'
  BY <1>1, <1>4, <1>5 DEF OneTokenBehind
<1>8. AnchorsFit'
  BY <1>1, <1>4 DEF AnchorsFit
<1>9. \A s \in Live : /\ take[s] \in 0 .. Wanted(seqs[s]) /\ Wanted(seqs[s]) \in Nat
                      /\ seqs[s].len \in Nat /\ s \in Slot
                      /\ seqs[s].len + Wanted(seqs[s]) <= Len(Tokens(seqs[s]))
                      /\ seqs[s].len + Wanted(seqs[s]) <= MaxSeq
                      /\ Len(Tokens(seqs[s])) \in Nat
  BY <1>1, TakeFacts, SequenceFacts
<1>10. RowsAreOwn'
  <2> SUFFICES ASSUME mode # "reuse", NEW s \in Live, NEW n \in 0 .. seqs'[s].len - 1
               PROVE  kv'[s][n] = Context(seqs'[s], n)
    BY <1>4 DEF RowsAreOwn, OwnRow
  <2> DEFINE l == seqs[s].len
             m == take[s]
             w == Wanted(seqs[s])
             t == Len(Tokens(seqs[s]))
  <2>1. /\ m \in 0 .. w /\ w \in Nat /\ l \in Nat /\ t \in Nat
        /\ l + w <= t /\ l + w <= MaxSeq
        /\ n \in 0 .. l + m - 1
    BY <1>5, <1>9
  <2> HIDE DEF l, m, w, t, take
  <2>2. n \in Position /\ n + 1 \in 0 .. t /\ (n \in 0 .. l - 1 \/ n \in l .. l + m - 1)
    BY <2>1, SlotsFrom1 DEF Position
  <2>3. Context(seqs'[s], n) = Context(seqs[s], n)
    BY <1>5, <2>2 DEF Context, t
  <2>4. kv'[s][n] = Context(seqs[s], n)
    <3>1. CASE n \in 0 .. l - 1
      <4>1. kv[s][n] = Context(seqs[s], n)
        BY <1>1, <3>1 DEF RowsAreOwn, OwnRow, l
      <4>2. n < l
        BY <2>1, <3>1
      <4>3. Stored(Takes(b))[s][n] = kv[s][n]
        BY <1>1, <2>2, <4>2, StoredFacts DEF l
      <4>4. QED
        BY <1>3, <4>1, <4>3 DEF take
    <3>2. CASE n \in l .. l + m - 1
      <4>1. Stored(Takes(b))[s][n] = Context(seqs[s], n)
        BY <1>1, <2>2, <3>2, StoredFacts DEF l, m, take
      <4>2. QED
        BY <1>3, <4>1 DEF take
    <3>3. QED
      BY <2>2, <3>1, <3>2
  <2>5. QED
    BY <2>3, <2>4
<1>11. RecurrenceIsOwn'
  <2> SUFFICES ASSUME mode = "gdn", NEW s \in Live
               PROVE  rec'[s] = SubSeq(Tokens(seqs'[s]), 1, seqs'[s].len)
    BY <1>4 DEF RecurrenceIsOwn
  <2>1. rec[s] = SubSeq(Tokens(seqs[s]), 1, seqs[s].len)
    BY <1>1 DEF RecurrenceIsOwn
  <2>2. rec'[s] = SubSeq(Tokens(seqs[s]), 1, seqs[s].len + take[s])
    BY <1>1, <1>3, <2>1, FoldedFacts
  <2> DEFINE n == seqs[s].len + take[s]
  <2>3. n \in 0 .. Len(Tokens(seqs[s]))
    <3> DEFINE l == seqs[s].len
               m == take[s]
               w == Wanted(seqs[s])
               t == Len(Tokens(seqs[s]))
    <3>1. m \in 0 .. w /\ w \in Nat /\ l \in Nat /\ t \in Nat /\ l + w <= t
      BY <1>9
    <3> HIDE DEF l, m, w, t
    <3>2. l + m \in 0 .. t
      BY <3>1
    <3>3. QED
      BY <3>2 DEF l, m, t
  <2>4. seqs'[s].len = n /\ rec'[s] = SubSeq(Tokens(seqs[s]), 1, n)
    BY <1>5, <2>2
  <2> HIDE DEF n
  <2>5. SubSeq(Tokens(seqs'[s]), 1, n) = SubSeq(Tokens(seqs[s]), 1, n)
    BY <1>5, <2>3
  <2>6. QED
    BY <2>4, <2>5
<1>12. QED
  BY <1>6, <1>7, <1>8, <1>10, <1>11 DEF CInv, CTypeInv, StatesOwn

(***************************************************************************)
(* Admission and retirement                                                *)
(***************************************************************************)

(* A request that starts from no anchor owns an empty row and a cleared    *)
(* state; one that starts from an anchor is in reuse mode.                 *)
LEMMA AddKeeps ==
  ASSUME CInv, NEW r \in Request, Add(r)
  PROVE  CInv'
<1>1. CTypeInv /\ TypeOK /\ OneTokenBehind /\ RowsAreOwn /\ RecurrenceIsOwn
  BY DEF CInv, CTypeInv, StatesOwn
<1>2. /\ active < Capacity /\ rec' = Cleared(active + 1)
      /\ UNCHANGED <<done, mode, anchors, panicked>>
  BY DEF Add
<1>3. PICK cells \in Seq(Seq(Token)) :
        /\ Len(cells) \in 0 .. MaxSeq /\ Len(cells) < Len(r.prompt)
        /\ mode # "reuse" => cells = <<>>
        /\ Admit(r, cells)
  BY <1>1, AddCells
<1>4. CTypeInv'
  BY <1>1, <1>2, <1>3, TypeAdmit
<1> DEFINE slot == active + 1
           new == [prompt |-> r.prompt, gen |-> <<>>, len |-> Len(cells),
                   maxNew |-> r.maxNew, ended |-> FALSE]
<1>5. slot \in Slot /\ active \in Nat /\ slot \notin Live
  BY <1>1, <1>2, SlotsFrom1 DEF TypeOK, Slot, Live
<1>6. /\ seqs' = [seqs EXCEPT ![slot] = new]
      /\ kv' = [kv EXCEPT ![slot] = Restored(slot, cells)]
      /\ rec' = [rec EXCEPT ![slot] = <<>>]
      /\ active' = slot
  BY <1>2, <1>3 DEF Admit, Cleared
<1>7. ASSUME NEW s \in Live', mode # "reuse"
      PROVE  \/ s = slot /\ seqs'[s].len = 0 /\ seqs'[s] = new /\ rec'[s] = <<>>
             \/ s \in Live /\ seqs'[s] = seqs[s] /\ kv'[s] = kv[s] /\ rec'[s] = rec[s]
  <2>1. s \in Live \/ s = slot
    BY <1>5, <1>6 DEF Live
  <2>2. CASE s \in Live
    <3>1. s # slot /\ s \in Slot
      BY <1>1, <1>5, <2>2, SequenceFacts
    <3> HIDE DEF new, slot
    <3>2. QED
      BY <1>1, <1>6, <2>2, <3>1 DEF TypeOK
  <2>3. CASE s = slot
    <3>1. new.len = 0
      BY <1>3, <1>7
    <3> HIDE DEF new, slot
    <3>2. seqs'[s] = new /\ rec'[s] = <<>>
      BY <1>1, <1>5, <1>6, <2>3 DEF TypeOK
    <3>3. QED
      BY <2>3, <3>1, <3>2
  <2>4. QED
    BY <2>1, <2>2, <2>3
<1> HIDE DEF slot
<1>8. RowsAreOwn'
  <2> SUFFICES ASSUME mode # "reuse", NEW s \in Live', NEW n \in 0 .. seqs'[s].len - 1
               PROVE  kv'[s][n] = Context(seqs'[s], n)
    BY <1>2 DEF RowsAreOwn, OwnRow
  <2>1. s \in Live /\ seqs'[s] = seqs[s] /\ kv'[s] = kv[s]
    BY <1>7
  <2>2. QED
    BY <1>1, <2>1 DEF RowsAreOwn, OwnRow
<1>9. RecurrenceIsOwn'
  <2> SUFFICES ASSUME mode = "gdn", NEW s \in Live'
               PROVE  rec'[s] = SubSeq(Tokens(seqs'[s]), 1, seqs'[s].len)
    BY <1>2 DEF RecurrenceIsOwn
  <2>1. CASE s \in Live /\ seqs'[s] = seqs[s] /\ rec'[s] = rec[s]
    BY <1>1, <2>1 DEF RecurrenceIsOwn
  <2>2. CASE seqs'[s].len = 0 /\ seqs'[s] = new /\ rec'[s] = <<>>
    <3>1. Tokens(new) \in Seq(Token)
      <4>1. r.prompt \in Seq(Token) /\ <<>> \in Seq(Token)
        BY BatchingAssumption, EmptySeq
      <4>2. QED
        BY <4>1, ConcatProperties DEF Tokens
    <3> HIDE DEF new
    <3>2. SubSeq(Tokens(new), 1, 0) = <<>>
      BY <3>1, SubSeqEmpty
    <3>3. QED
      BY <2>2, <3>2
  <2>3. QED
    BY <1>7, <2>1, <2>2
<1>10. QED
  BY <1>4, <1>8, <1>9 DEF CInv, StatesOwn

(* A refused restore touches no sequence, and reuse mode owns no row.      *)
LEMMA RestoreFailsKeeps ==
  ASSUME CInv, NEW r \in Request, RestoreFails(r)
  PROVE  CInv'
<1>1. /\ TypeOK /\ OneTokenBehind /\ AnchorsFit
      /\ CTypeInv
  BY DEF CInv, CTypeInv
<1>2. /\ kv' \in [Slot -> [Position -> Seq(Token)]]
      /\ rec' \in [Slot -> Seq(Token)]
      /\ mode = "reuse"
      /\ UNCHANGED <<seqs, active, done, mode, anchors, panicked>>
  BY <1>1, RestoreFacts
<1>3. TypeOK'
  BY <1>1, <1>2 DEF TypeOK
<1>4. OneTokenBehind' /\ AnchorsFit'
  BY <1>1, <1>2 DEF OneTokenBehind, AnchorsFit, Live
<1>5. RowsAreOwn' /\ RecurrenceIsOwn'
  BY <1>2 DEF RowsAreOwn, RecurrenceIsOwn
<1>6. QED
  BY <1>3, <1>4, <1>5 DEF CInv, CTypeInv, StatesOwn

(* finish moves the live slots above s down by one.                        *)
Source(s, i) == IF i < s THEN i ELSE i + 1

AnchorType == [tokens : Seq(Token), kv : Seq(Seq(Token))]

(* An anchor of a live sequence has no more cells than tokens.             *)
LEMMA AnchorFacts ==
  ASSUME TypeOK, OneTokenBehind, NEW s \in Live
  PROVE  Anchor(s) \in AnchorType /\ Len(Anchor(s).kv) <= Len(Anchor(s).tokens)
<1> DEFINE tokens == Tokens(seqs[s])
           m == Min({Len(tokens), MaxSeq})
           cells == [n \in 1 .. m |-> kv[s][n - 1]]
<1>1. tokens \in Seq(Token) /\ Len(tokens) \in Nat /\ s \in Slot /\ MaxSeq \in Nat
  BY SequenceFacts, SlotsFrom1
<1> HIDE DEF tokens
<1>2. m \in Nat /\ m <= Len(tokens) /\ m <= MaxSeq
  BY <1>1, MinPair
<1> HIDE DEF m
<1>3. \A n \in 1 .. m : kv[s][n - 1] \in Seq(Token)
  <2>1. \A n \in 1 .. m : n - 1 \in Position
    BY <1>1, <1>2 DEF Position
  <2>2. QED
    BY <1>1, <2>1 DEF TypeOK
<1>4. cells \in Seq(Seq(Token)) /\ Len(cells) = m
  BY <1>2, <1>3
<1>5. Anchor(s) = [tokens |-> tokens, kv |-> cells]
  BY DEF Anchor, tokens, m
<1> HIDE DEF cells
<1>6. QED
  BY <1>1, <1>2, <1>4, <1>5 DEF AnchorType

(* An anchor that makes room drops the oldest.                             *)
LEMMA InsertedFacts ==
  ASSUME TypeOK, AnchorsFit, NEW a \in AnchorType, Len(a.kv) <= Len(a.tokens)
  PROVE  /\ Inserted(a) \in Seq(AnchorType)
         /\ \A k \in 1 .. Len(Inserted(a)) :
              Len(Inserted(a)[k].kv) <= Len(Inserted(a)[k].tokens)
<1>1. anchors \in Seq(AnchorType) /\ Len(anchors) \in Nat /\ MaxAnchors \in Nat
  BY LenProperties, ContiguousAssumption DEF TypeOK, AnchorType
<1> DEFINE kept == IF Len(anchors) >= MaxAnchors THEN Tail(anchors) ELSE anchors
<1>2. CASE MaxAnchors = 0
  BY <1>1, <1>2 DEF Inserted, AnchorsFit
<1>3. CASE MaxAnchors # 0
  <2>1. /\ kept \in Seq(AnchorType)
        /\ \A k \in 1 .. Len(kept) : Len(kept[k].kv) <= Len(kept[k].tokens)
    <3>1. CASE Len(anchors) >= MaxAnchors
      <4>1. anchors # <<>>
        BY <1>1, <1>3, <3>1
      <4>2. /\ Tail(anchors) \in Seq(AnchorType)
            /\ Len(Tail(anchors)) = Len(anchors) - 1
            /\ \A k \in 1 .. Len(Tail(anchors)) : Tail(anchors)[k] = anchors[k + 1]
        BY <1>1, <4>1, HeadTailProperties
      <4>3. \A k \in 1 .. Len(Tail(anchors)) : k + 1 \in 1 .. Len(anchors)
        BY <1>1, <4>2
      <4>4. QED
        BY <3>1, <4>2, <4>3 DEF AnchorsFit
    <3>2. CASE ~(Len(anchors) >= MaxAnchors)
      BY <1>1, <3>2 DEF AnchorsFit
    <3>3. QED
      BY <3>1, <3>2
  <2>2. Inserted(a) = Append(kept, a)
    BY <1>3 DEF Inserted
  <2> HIDE DEF kept
  <2>3. /\ Append(kept, a) \in Seq(AnchorType)
        /\ Len(Append(kept, a)) = Len(kept) + 1
        /\ \A k \in 1 .. Len(kept) : Append(kept, a)[k] = kept[k]
        /\ Append(kept, a)[Len(kept) + 1] = a
    BY <2>1, AppendProperties
  <2>4. Len(kept) \in Nat
    BY <2>1, LenProperties
  <2>5. \A k \in 1 .. Len(kept) + 1 : k \in 1 .. Len(kept) \/ k = Len(kept) + 1
    BY <2>4
  <2>6. QED
    BY <2>1, <2>2, <2>3, <2>5
<1>4. QED
  BY <1>2, <1>3

(* Compaction moves every live sequence above the finished slot down by    *)
(* one, with the cells of its row that it has consumed and its state.      *)
LEMMA FinishFacts ==
  ASSUME TypeOK, OneTokenBehind, AnchorsFit, NEW s \in Live, Finish(s)
  PROVE  /\ active' \in 0 .. Capacity
         /\ seqs' \in [Slot -> SeqState]
         /\ kv' \in [Slot -> [Position -> Seq(Token)]]
         /\ rec' \in [Slot -> Seq(Token)]
         /\ anchors' \in Seq(AnchorType) /\ AnchorsFit'
         /\ \A i \in Live' : /\ Source(s, i) \in Live
                             /\ seqs'[i] = seqs[Source(s, i)]
                             /\ rec'[i] = rec[Source(s, i)]
                             /\ \A n \in Position : n < seqs'[i].len
                                  => kv'[i][n] = kv[Source(s, i)][n]
         /\ mode' = mode /\ panicked' = panicked
<1>1. /\ Capacity \in Nat /\ active \in 0 .. Capacity /\ s \in 1 .. active
      /\ Slot = 1 .. Capacity
      /\ seqs \in [Slot -> SeqState]
      /\ kv \in [Slot -> [Position -> Seq(Token)]]
      /\ rec \in [Slot -> Seq(Token)]
      /\ active' = active - 1
      /\ seqs' = [i \in Slot |-> IF i < s \/ i > active THEN seqs[i]
                                 ELSE IF i < active THEN seqs[i + 1] ELSE NoSeq]
      /\ kv' = [i \in Slot |-> [n \in Position |->
                  IF s <= i /\ i < active /\ n < seqs[i + 1].len
                  THEN kv[i + 1][n] ELSE kv[i][n]]]
      /\ rec' = [i \in Slot |-> IF s <= i /\ i < active THEN rec[i + 1] ELSE rec[i]]
      /\ mode' = mode /\ panicked' = panicked
  BY SlotsFrom1 DEF TypeOK, Live, Slot, Finish, MovedRows, MovedStates
<1>2. \A i \in Slot : i < active => i + 1 \in Slot
  BY <1>1
<1>3. NoSeq \in SeqState
  BY SlotsFrom1, EmptySeq DEF NoSeq, SeqState
<1>4. seqs' \in [Slot -> SeqState]
  <2>1. \A i \in Slot : (IF i < s \/ i > active THEN seqs[i]
                         ELSE IF i < active THEN seqs[i + 1] ELSE NoSeq) \in SeqState
    BY <1>1, <1>2, <1>3
  <2>2. QED
    BY <1>1, <2>1
<1>5. kv' \in [Slot -> [Position -> Seq(Token)]]
  <2>1. \A i \in Slot : \A n \in Position :
          (IF s <= i /\ i < active /\ n < seqs[i + 1].len
           THEN kv[i + 1][n] ELSE kv[i][n]) \in Seq(Token)
    BY <1>1, <1>2
  <2>2. QED
    BY <1>1, <2>1
<1>6. rec' \in [Slot -> Seq(Token)]
  <2>1. \A i \in Slot : (IF s <= i /\ i < active THEN rec[i + 1] ELSE rec[i]) \in Seq(Token)
    BY <1>1, <1>2
  <2>2. QED
    BY <1>1, <2>1
<1>7. \A i \in Live' : /\ Source(s, i) \in Live
                      /\ seqs'[i] = seqs[Source(s, i)]
                      /\ rec'[i] = rec[Source(s, i)]
  BY <1>1 DEF Live, Source
<1>8. ASSUME NEW i \in Live', NEW n \in Position, n < seqs'[i].len
      PROVE  kv'[i][n] = kv[Source(s, i)][n]
  <2>1. i \in Slot /\ i < active
    BY <1>1 DEF Live
  <2>2. kv'[i][n] = IF s <= i /\ i < active /\ n < seqs[i + 1].len
                    THEN kv[i + 1][n] ELSE kv[i][n]
    BY <1>1, <2>1
  <2>3. CASE i < s
    <3>1. Source(s, i) = i /\ ~(s <= i)
      BY <1>1, <2>1, <2>3 DEF Source
    <3>2. QED
      BY <2>2, <3>1
  <2>4. CASE ~(i < s)
    <3>1. Source(s, i) = i + 1 /\ s <= i
      BY <1>1, <2>1, <2>4 DEF Source
    <3>2. n < seqs[i + 1].len
      BY <1>7, <1>8, <3>1
    <3>3. QED
      BY <2>1, <2>2, <3>1, <3>2
  <2>5. QED
    BY <2>3, <2>4
<1>9. anchors' \in Seq(AnchorType) /\ AnchorsFit'
  <2>1. anchors' \in Anchored(s)
    BY DEF Finish
  <2>2. anchors' = anchors \/ anchors' = Inserted(Anchor(s))
    BY <2>1 DEF Anchored
  <2>3. CASE anchors' = anchors
    BY <2>3 DEF TypeOK, AnchorType, AnchorsFit
  <2>4. CASE anchors' = Inserted(Anchor(s))
    <3> DEFINE a == Anchor(s)
    <3>1. a \in AnchorType /\ Len(a.kv) <= Len(a.tokens)
      BY AnchorFacts
    <3>2. anchors' = Inserted(a)
      BY <2>4
    <3> HIDE DEF a
    <3>3. QED
      BY <3>1, <3>2, InsertedFacts DEF AnchorsFit
  <2>5. QED
    BY <2>2, <2>3, <2>4
<1>10. active' \in 0 .. Capacity
  BY <1>1
<1>11. QED
  BY <1>1, <1>4, <1>5, <1>6, <1>7, <1>8, <1>9, <1>10

(* Retiring a sequence preserves the invariant.                            *)
LEMMA FinishKeeps ==
  ASSUME CInv, NEW s \in Live, Finish(s),
         done' \in [outputs : SUBSET Slot, limit : SUBSET Slot]
  PROVE  CInv'
<1>1. TypeOK /\ OneTokenBehind /\ AnchorsFit /\ RowsAreOwn /\ RecurrenceIsOwn
  BY DEF CInv, CTypeInv, StatesOwn
<1>2. /\ active' \in 0 .. Capacity
      /\ seqs' \in [Slot -> SeqState]
      /\ kv' \in [Slot -> [Position -> Seq(Token)]]
      /\ rec' \in [Slot -> Seq(Token)]
      /\ anchors' \in Seq(AnchorType) /\ AnchorsFit'
      /\ \A i \in Live' : /\ Source(s, i) \in Live
                          /\ seqs'[i] = seqs[Source(s, i)]
                          /\ rec'[i] = rec[Source(s, i)]
                          /\ \A n \in Position : n < seqs'[i].len
                               => kv'[i][n] = kv[Source(s, i)][n]
      /\ mode' = mode /\ panicked' = panicked
  BY <1>1, FinishFacts
<1>3. TypeOK'
  BY <1>1, <1>2 DEF TypeOK, AnchorType
<1>4. OneTokenBehind'
  BY <1>1, <1>2 DEF OneTokenBehind
<1>5. RowsAreOwn'
  <2> SUFFICES ASSUME mode # "reuse", NEW i \in Live', NEW n \in 0 .. seqs'[i].len - 1
               PROVE  kv'[i][n] = Context(seqs'[i], n)
    BY <1>2 DEF RowsAreOwn, OwnRow
  <2> DEFINE k == Source(s, i)
  <2>1. k \in Live /\ seqs'[i] = seqs[k]
    BY <1>2
  <2> HIDE DEF k
  <2>2. seqs[k].len \in 0 .. MaxSeq
    BY <1>1, <2>1, SequenceFacts DEF SeqState
  <2>3. n \in Position /\ n < seqs'[i].len /\ n \in 0 .. seqs[k].len - 1
    BY <2>1, <2>2, SlotsFrom1 DEF Position
  <2>4. kv'[i][n] = kv[k][n]
    BY <1>2, <2>3 DEF k
  <2>5. kv[k][n] = Context(seqs[k], n)
    BY <1>1, <2>1, <2>3 DEF RowsAreOwn, OwnRow
  <2>6. QED
    BY <2>1, <2>4, <2>5
<1>6. RecurrenceIsOwn'
  BY <1>1, <1>2 DEF RecurrenceIsOwn
<1>7. QED
  BY <1>2, <1>3, <1>4, <1>5, <1>6 DEF CInv, CTypeInv, StatesOwn

(* One iteration of step's finish loop preserves it, in range or not.      *)
LEMMA FinishNextKeeps ==
  ASSUME CInv, NEW part \in {"outputs", "limit"}, NEW s \in Slot,
         FinishNext(part, s)
  PROVE  CInv'
<1>1. /\ TypeOK /\ OneTokenBehind /\ AnchorsFit /\ RowsAreOwn /\ RecurrenceIsOwn
      /\ done' = [done EXCEPT ![part] = @ \ {s}]
  BY DEF CInv, CTypeInv, StatesOwn, FinishNext
<1>2. done' \in [outputs : SUBSET Slot, limit : SUBSET Slot]
  BY <1>1 DEF TypeOK
<1>3. CASE s <= active
  <2>1. s \in Live /\ Finish(s)
    BY <1>1, <1>3, SlotsFrom1 DEF FinishNext, Live, Slot, TypeOK
  <2>2. QED
    BY <1>2, <2>1, FinishKeeps
<1>4. CASE ~(s <= active)
  <2>1. panicked' = TRUE /\ UNCHANGED <<seqs, active, mode, kv, rec, anchors>>
    BY <1>4 DEF FinishNext
  <2>2. TypeOK'
    BY <1>1, <1>2, <2>1 DEF TypeOK
  <2>3. OneTokenBehind' /\ AnchorsFit'
    BY <1>1, <2>1 DEF OneTokenBehind, AnchorsFit, Live
  <2>4. RowsAreOwn' /\ RecurrenceIsOwn'
    BY <1>1, <2>1 DEF RowsAreOwn, OwnRow, RecurrenceIsOwn, Live
  <2>5. QED
    BY <2>2, <2>3, <2>4 DEF CInv, CTypeInv, StatesOwn
<1>5. QED
  BY <1>3, <1>4

(* A new engine has no sequence.                                           *)
LEMMA OwnInit == Init => CInv
<1> SUFFICES ASSUME Init PROVE CInv
  OBVIOUS
<1>1. active = 0
  BY DEF Init
<1>2. Live = {}
  BY <1>1 DEF Live
<1>3. QED
  BY <1>2, TypeInit DEF CInv, StatesOwn, RowsAreOwn, OwnRow, RecurrenceIsOwn

(* Every step of the engine preserves the invariant.                       *)
LEMMA OwnNext == CInv /\ [Next]_vars => CInv'
<1> SUFFICES ASSUME CInv, [Next]_vars PROVE CInv'
  OBVIOUS
<1>1. ASSUME NEW r \in Request, Add(r) PROVE CInv'
  BY <1>1, AddKeeps
<1>2. ASSUME NEW r \in Request, RestoreFails(r) PROVE CInv'
  BY <1>2, RestoreFailsKeeps
<1>3. CASE Step
  BY <1>3, StepKeeps
<1>4. ASSUME NEW part \in {"outputs", "limit"}, NEW s \in Slot, FinishNext(part, s)
      PROVE CInv'
  BY <1>4, FinishNextKeeps
<1>5. ASSUME NEW s \in Slot, Cancel(s) PROVE CInv'
  <2>1. s \in Live /\ Finish(s) /\ done' = done
    BY <1>5 DEF Cancel
  <2>2. done' \in [outputs : SUBSET Slot, limit : SUBSET Slot]
    BY <2>1 DEF CInv, CTypeInv, TypeOK
  <2>3. QED
    BY <2>1, <2>2, FinishKeeps
<1>6. CASE UNCHANGED vars
  BY <1>6 DEF vars, CInv, CTypeInv, StatesOwn, TypeOK, OneTokenBehind, AnchorsFit,
              RowsAreOwn, OwnRow, RecurrenceIsOwn, Live
<1>7. QED
  BY <1>1, <1>2, <1>3, <1>4, <1>5, <1>6 DEF Next

LEMMA OwnAlways == Spec => []CInv
BY OwnInit, OwnNext, PTL DEF Spec

(* The contiguous engine is well typed whatever its mode, capacity, chunk  *)
(* size and anchors: no sequence outgrows its row.                         *)
THEOREM ContiguousTypeCorrect == Spec => []TypeOK
<1>1. CInv => TypeOK
  BY DEF CInv, CTypeInv
<1>2. QED
  BY <1>1, OwnAlways, PTL

(* Chunked GDN prefill, a restored anchor and compaction neither skip a    *)
(* token nor feed one twice.                                               *)
THEOREM ContiguousNeverSkips == Spec => []OneTokenBehind
<1>1. CInv => OneTokenBehind
  BY DEF CInv, CTypeInv
<1>2. QED
  BY <1>1, OwnAlways, PTL

(* Without anchors, attention of a sequence reads KV of its own tokens     *)
(* only, whatever sequences its slot held before: a reused row needs no    *)
(* clear, and compaction copies enough of it.                              *)
THEOREM RowsStayOwn == Spec => []RowsAreOwn
<1>1. CInv => RowsAreOwn
  BY DEF CInv, StatesOwn
<1>2. QED
  BY <1>1, OwnAlways, PTL

(* The recurrent state of a GDN slot has folded in exactly the tokens its  *)
(* sequence has consumed, whatever the chunking and the moves.             *)
THEOREM RecurrenceStaysOwn == Spec => []RecurrenceIsOwn
<1>1. CInv => RecurrenceIsOwn
  BY DEF CInv, StatesOwn
<1>2. QED
  BY <1>1, OwnAlways, PTL

(***************************************************************************)
(* Refinement.  Outside reuse mode a sequence's row is its own, so what    *)
(* attention reads depends on the sequences alone: moving rows and leaving *)
(* old cells behind is invisible, and add, step and finish are the actions *)
(* of PrivateKV.                                                           *)
(***************************************************************************)

(* The view of a sequence whose cells are its own.                         *)
OwnView(q) == [prompt |-> q.prompt, gen |-> q.gen,
               kv |-> Private!KvOf(Tokens(q), q.len)]

OwnViews == [s \in Slot |-> IF s \in 1 .. Shown THEN OwnView(seqs[s]) ELSE NoSequence]

(* The engine's view consists of the sequences' own views.                 *)
LEMMA ViewIsOwn == CInv => PrivateView = OwnViews
<1> SUFFICES ASSUME CInv, NEW s \in 1 .. Shown
             PROVE  [n \in 1 .. seqs[s].len |-> kv[s][n - 1]]
                      = Private!KvOf(Tokens(seqs[s]), seqs[s].len)
  BY DEF PrivateView, OwnViews, OwnView
<1>1. mode # "reuse" /\ s \in Live
  BY DEF Shown, Live
<1>2. OwnRow /\ seqs[s].len \in Nat
  BY <1>1, SequenceFacts DEF CInv, CTypeInv, StatesOwn, RowsAreOwn
<1> DEFINE l == seqs[s].len
<1> HIDE DEF l
<1>3. ASSUME NEW n \in 1 .. l
      PROVE  kv[s][n - 1] = SubSeq(Tokens(seqs[s]), 1, n)
  <2>1. n - 1 \in 0 .. l - 1 /\ (n - 1) + 1 = n
    BY <1>2 DEF l
  <2>2. kv[s][n - 1] = Context(seqs[s], n - 1)
    BY <1>1, <1>2, <2>1 DEF OwnRow, l
  <2>3. QED
    BY <2>1, <2>2 DEF Context
<1>4. QED
  BY <1>3 DEF l, Private!KvOf

(* Two states with the same sequences have the same view.                  *)
LEMMA SameViews ==
  ASSUME PrivateView = OwnViews, PrivateView' = OwnViews', UNCHANGED <<seqs, active, mode>>
  PROVE  UNCHANGED <<PrivateView, Shown>>
BY DEF OwnViews, Shown

(* A reuse engine shows nothing, whatever it does.                         *)
LEMMA ReuseShowsNothing ==
  ASSUME mode = "reuse", mode' = mode
  PROVE  UNCHANGED <<PrivateView, Shown>>
BY DEF PrivateView, Shown

(* The first state of the engine is the first state of PrivateKV.          *)
LEMMA ViewInit == Init => Private!Init
<1> SUFFICES ASSUME Init PROVE Private!Init
  OBVIOUS
<1>1. Shown = 0
  BY DEF Init, Shown
<1>2. PrivateView = [s \in Slot |-> NoSequence]
  BY <1>1 DEF PrivateView
<1>3. QED
  BY <1>1, <1>2 DEF Private!Init, Private!Slots, Private!Vacant, NoSequence, Slot

(* add is Admit: outside reuse mode nothing of the prompt is computed yet, *)
(* though the slot's row still holds another sequence's cells.             *)
LEMMA ViewAdd ==
  ASSUME CInv, mode # "reuse", PrivateView = OwnViews, PrivateView' = OwnViews',
         NEW r \in Request, Add(r)
  PROVE  Private!Next
<1> DEFINE p == r.prompt
           slot == active + 1
           new == [prompt |-> p, gen |-> <<>>, len |-> 0,
                   maxNew |-> r.maxNew, ended |-> FALSE]
<1>1. CTypeInv /\ TypeOK /\ p \in Prompts
  BY DEF CInv, CTypeInv, Prompts
<1>2. slot \in Slot /\ active < Capacity /\ active \in Nat /\ mode' = mode
  BY <1>1, SlotsFrom1 DEF TypeOK, Slot, Add
<1>3. Admit(r, <<>>)
  BY <1>1, AddCells
<1>4. seqs' = [seqs EXCEPT ![slot] = new] /\ active' = slot
  BY <1>3 DEF Admit
<1>5. Shown = active /\ Shown' = slot
  BY <1>2, <1>4 DEF Shown
<1>6. \A s \in Slot : s \in 1 .. slot <=> s \in 1 .. active \/ s = slot
  BY <1>2 DEF Slot
<1>7. p \in Seq(Token) /\ Len(p) \in 1 .. MaxSeq
  BY <1>1, PromptFits
<1> HIDE DEF p
<1>8. OwnView(new) = [prompt |-> p, gen |-> <<>>, kv |-> Private!KvOf(p, 0)]
  <2>1. p \o <<>> = p
    BY <1>7, ConcatEmptySeq
  <2>2. Tokens(new) = p
    BY <2>1 DEF Tokens
  <2>3. QED
    BY <2>2 DEF OwnView
<1>9. /\ \A s \in Slot \ {slot} : seqs'[s] = seqs[s]
      /\ seqs'[slot] = new
  BY <1>1, <1>2, <1>4 DEF TypeOK
<1>10. slot \notin 1 .. active
  BY <1>2
<1> HIDE DEF new, slot
<1>11. OwnViews' = [OwnViews EXCEPT ![slot] =
                      [prompt |-> p, gen |-> <<>>, kv |-> Private!KvOf(p, 0)]]
  BY <1>2, <1>5, <1>6, <1>8, <1>9, <1>10 DEF OwnViews
<1>12. Private!Admit(p, 0)
  BY <1>2, <1>5, <1>11 DEF Private!Admit, slot
<1>13. 0 \in 0 .. Len(p) - 1
  BY <1>7, SlotsFrom1
<1>14. QED
  BY <1>1, <1>12, <1>13 DEF Private!Next, p

(* What a slot consumes and samples in a step is an Advance of its view.   *)
LEMMA ViewAdvance ==
  ASSUME TypeOK, OneTokenBehind, NEW b \in Budgets(Asked), NEW s \in Live,
         NEW token \in [Emits(Takes(b)) -> Token], NEW fin
  PROVE  Private!Advance(OwnView(seqs[s]), OwnView(Advanced(s, Takes(b), token, fin)))
<1> DEFINE q == seqs[s]
           w == Advanced(s, Takes(b), token, fin)
           old == Tokens(q)
           m == Takes(b)[s]
           n == q.len + m
<1>1. /\ q \in SeqState
      /\ q.prompt \in Seq(Token) /\ q.gen \in Seq(Token) /\ q.len \in Nat
      /\ old \in Seq(Token) /\ Len(old) \in Nat
      /\ m \in 0 .. Wanted(q) /\ Wanted(q) \in Nat
      /\ q.len + Wanted(q) <= Len(old)
  BY SequenceFacts, TakeFacts
<1>2. /\ w.prompt = q.prompt /\ w.len = n
      /\ w.gen # <<>> => w.len = Len(Tokens(w)) - 1
      /\ \A k \in 0 .. Len(old) : SubSeq(Tokens(w), 1, k) = SubSeq(old, 1, k)
  BY AdvancedFacts
<1>3. w.gen = q.gen \/ \E t \in Token : w.gen = Append(q.gen, t)
  <2>1. s \in Emits(Takes(b)) => token[s] \in Token
    OBVIOUS
  <2> HIDE DEF q
  <2>2. q = seqs[s]
    BY DEF q
  <2>3. QED
    BY <1>1, <2>1, <2>2 DEF Advanced, SeqState
<1> HIDE DEF w
<1>4. n \in Nat /\ q.len <= n /\ n <= Len(old)
  <2> HIDE DEF q, old, m
  <2>1. QED
    BY <1>1
<1> HIDE DEF n
<1>5. ASSUME w.gen # q.gen PROVE n = Len(old)
  <2>1. PICK t \in Token : w.gen = Append(q.gen, t)
    BY <1>3, <1>5
  <2>2. /\ w.gen \in Seq(Token) /\ Len(w.gen) = Len(q.gen) + 1 /\ Len(q.gen) \in Nat
    BY <1>1, <2>1, AppendProperties, LenProperties
  <2>3. w.gen # <<>>
    BY <2>2
  <2>4. /\ Len(Tokens(w)) = Len(q.prompt) + Len(w.gen)
        /\ Len(old) = Len(q.prompt) + Len(q.gen)
        /\ Len(q.prompt) \in Nat
    <3> DEFINE p == q.prompt
    <3>1. p \in Seq(Token) /\ q.gen \in Seq(Token) /\ w.gen \in Seq(Token)
      BY <1>1, <2>2
    <3>2. Tokens(w) = p \o w.gen /\ old = p \o q.gen
      BY <1>2 DEF Tokens
    <3> HIDE DEF p, q, old
    <3>3. Len(p \o w.gen) = Len(p) + Len(w.gen) /\ Len(p \o q.gen) = Len(p) + Len(q.gen)
      BY <3>1, ConcatProperties
    <3>4. Len(p) \in Nat
      BY <3>1, LenProperties
    <3>5. QED
      BY <3>2, <3>3, <3>4 DEF p
  <2>5. n = Len(Tokens(w)) - 1
    BY <1>2, <2>3
  <2> DEFINE pl == Len(q.prompt)
             gl == Len(q.gen)
             wl == Len(w.gen)
             tl == Len(Tokens(w))
             ol == Len(old)
  <2>6. /\ pl \in Nat /\ gl \in Nat /\ wl = gl + 1
        /\ tl = pl + wl /\ ol = pl + gl /\ n = tl - 1
    BY <2>2, <2>4, <2>5
  <2> HIDE DEF pl, gl, wl, tl, ol
  <2>7. n = ol
    BY <2>6
  <2>8. QED
    BY <2>7 DEF ol
<1>6. Private!KvOf(Tokens(w), n) = Private!KvOf(old, n)
  <2>1. \A i \in 1 .. n : i \in 0 .. Len(old)
    BY <1>1, <1>4
  <2>2. QED
    BY <1>2, <2>1 DEF Private!KvOf
<1>7. /\ Len(Private!KvOf(old, n)) = n
      /\ Len(Private!KvOf(old, q.len)) = q.len
  BY <1>1, <1>4 DEF Private!KvOf
<1> DEFINE v0 == OwnView(q)
           v1 == OwnView(w)
<1>8. /\ v0.prompt = q.prompt /\ v0.gen = q.gen /\ Len(v0.kv) = q.len
      /\ v1.prompt = q.prompt /\ v1.gen = w.gen
      /\ v1.kv = Private!KvOf(old, n) /\ Len(v1.kv) = n
      /\ Private!TokensOf(v0) = old
  BY <1>2, <1>6, <1>7 DEF OwnView, Private!TokensOf, Tokens
<1> HIDE DEF v0, v1, old, q
<1>9. Private!Advance(v0, v1)
  BY <1>1, <1>3, <1>4, <1>5, <1>8 DEF Private!Advance
<1>10. QED
  BY <1>9 DEF v0, v1, q, w

(* A batched forward is Forward: every slot consumes tokens of its own.    *)
LEMMA ViewStep ==
  ASSUME CInv, mode # "reuse", PrivateView = OwnViews, PrivateView' = OwnViews', Step
  PROVE  Private!Next
<1>1. TypeOK /\ OneTokenBehind /\ active > 0
  BY DEF CInv, CTypeInv, Step
<1>2. PICK b \in Budgets(Asked) :
        \E token \in [Emits(Takes(b)) -> Token], stop \in SUBSET Emits(Takes(b)) :
          LET fin == Finishing(Takes(b), stop)
          IN  /\ seqs' = [s \in Slot |-> IF s \in Live
                                         THEN Advanced(s, Takes(b), token, fin)
                                         ELSE seqs[s]]
              /\ done' = fin
              /\ kv' = Stored(Takes(b))
              /\ rec' = Folded(Takes(b))
  BY StepForward
<1> DEFINE take == Takes(b)
<1>3. PICK token \in [Emits(take) -> Token], stop \in SUBSET Emits(take) :
        seqs' = [s \in Slot |-> IF s \in Live
                                THEN Advanced(s, take, token, Finishing(take, stop))
                                ELSE seqs[s]]
  BY <1>2
<1> DEFINE fin == Finishing(take, stop)
<1>4. Shown = active /\ Shown' = active /\ Live = 1 .. active
  BY StepForward DEF Shown, Live
<1>5. \A s \in Live : s \in Slot /\ seqs'[s] = Advanced(s, take, token, fin)
  BY <1>1, <1>3, SequenceFacts
<1>6. ASSUME NEW s \in Live PROVE Private!Advance(OwnView(seqs[s]), OwnView(seqs'[s]))
  BY <1>1, <1>5, ViewAdvance
<1>7. Private!Slots = Slot /\ \A s \in Slot : s <= active <=> s \in Live
  BY <1>1, SlotsFrom1 DEF Private!Slots, Slot, Live, TypeOK
<1> HIDE DEF take, fin
<1>8. /\ \A s \in Live : OwnViews[s] = OwnView(seqs[s]) /\ OwnViews'[s] = OwnView(seqs'[s])
      /\ \A s \in Slot \ Live : OwnViews'[s] = OwnViews[s]
  BY <1>4, <1>5 DEF OwnViews
<1>9. Private!Forward
  BY <1>1, <1>4, <1>6, <1>7, <1>8 DEF Private!Forward
<1>10. QED
  BY <1>9 DEF Private!Next

(* finish is Leave, for the rows it moves and for those it leaves behind.  *)
LEMMA ViewFinish ==
  ASSUME CInv, mode # "reuse", PrivateView = OwnViews, PrivateView' = OwnViews',
         NEW s \in Live, Finish(s)
  PROVE  Private!Next
<1>1. /\ active \in Nat /\ active <= Capacity /\ Capacity \in Nat /\ s \in 1 .. active
      /\ Slot = 1 .. Capacity
      /\ Shown = active /\ Shown' = active - 1
      /\ seqs' = [i \in Slot |-> IF i < s \/ i > active THEN seqs[i]
                                 ELSE IF i < active THEN seqs[i + 1] ELSE NoSeq]
  BY SlotsFrom1 DEF CInv, CTypeInv, TypeOK, Live, Slot, Finish, Shown
<1>2. ASSUME NEW i \in Slot
      PROVE  OwnViews'[i] = IF i < s \/ i > active THEN OwnViews[i]
                            ELSE IF i < active THEN OwnViews[i + 1] ELSE NoSequence
  <2>1. CASE i < s \/ i > active
    <3>1. i \in 1 .. active - 1 <=> i \in 1 .. active
      BY <1>1, <2>1
    <3>2. seqs'[i] = seqs[i]
      BY <1>1, <2>1
    <3>3. QED
      BY <1>1, <2>1, <3>1, <3>2 DEF OwnViews
  <2>2. CASE ~(i < s \/ i > active) /\ i < active
    <3>1. i \in 1 .. active - 1 /\ i + 1 \in 1 .. active /\ i + 1 \in Slot
      BY <1>1, <2>2
    <3>2. seqs'[i] = seqs[i + 1]
      BY <1>1, <2>2
    <3>3. QED
      BY <1>1, <2>2, <3>1, <3>2 DEF OwnViews
  <2>3. CASE ~(i < s \/ i > active) /\ ~(i < active)
    <3>1. i \notin 1 .. active - 1
      BY <1>1, <2>3
    <3>2. QED
      BY <1>1, <2>3, <3>1 DEF OwnViews
  <2>4. QED
    BY <2>1, <2>2, <2>3
<1>3. OwnViews' = [i \in Slot |-> IF i < s \/ i > active THEN OwnViews[i]
                                  ELSE IF i < active THEN OwnViews[i + 1] ELSE NoSequence]
  <2>1. OwnViews' = [i \in Slot |-> OwnViews'[i]]
    BY DEF OwnViews
  <2> HIDE DEF OwnViews
  <2>2. QED
    BY <1>2, <2>1
<1>4. Private!Leave(s)
  BY <1>1, <1>3 DEF Private!Leave, Private!Slots, Private!Vacant, NoSequence
<1>5. QED
  BY <1>1, <1>4 DEF Private!Next

(* Every step of the engine is a step of PrivateKV or invisible to it.     *)
LEMMA ViewNext ==
  CInv /\ PrivateView = OwnViews /\ PrivateView' = OwnViews' /\ [Next]_vars
    => [Private!Next]_<<PrivateView, Shown>>
<1> SUFFICES ASSUME CInv, PrivateView = OwnViews, PrivateView' = OwnViews', [Next]_vars
             PROVE  Private!Next \/ UNCHANGED <<PrivateView, Shown>>
  OBVIOUS
<1> DEFINE Goal == Private!Next \/ UNCHANGED <<PrivateView, Shown>>
<1>1. mode' = mode
  BY DEF Next, vars, Add, RestoreFails, Step, FinishNext, Cancel, Finish
<1>2. CASE mode = "reuse"
  BY <1>1, <1>2, ReuseShowsNothing
<1>3. CASE mode # "reuse"
  <2>1. ASSUME NEW r \in Request, Add(r) PROVE Goal
    BY <1>3, <2>1, ViewAdd
  <2>2. ASSUME NEW r \in Request, RestoreFails(r) PROVE Goal
    BY <1>3, <2>2 DEF RestoreFails
  <2>3. CASE Step
    BY <1>3, <2>3, ViewStep
  <2>4. ASSUME NEW part \in {"outputs", "limit"}, NEW s \in Slot, FinishNext(part, s)
        PROVE Goal
    <3>1. CASE s <= active
      <4>1. s \in Live /\ Finish(s)
        BY <2>4, <3>1, SlotsFrom1 DEF FinishNext, Live, Slot, CInv, CTypeInv, TypeOK
      <4>2. QED
        BY <1>3, <4>1, ViewFinish
    <3>2. CASE ~(s <= active)
      BY <2>4, <3>2, SameViews DEF FinishNext
    <3>3. QED
      BY <3>1, <3>2
  <2>5. ASSUME NEW s \in Slot, Cancel(s) PROVE Goal
    BY <1>3, <2>5, ViewFinish DEF Cancel
  <2>6. CASE UNCHANGED vars
    BY <2>6, SameViews DEF vars
  <2>7. QED
    BY <2>1, <2>2, <2>3, <2>4, <2>5, <2>6 DEF Next
<1>4. QED
  BY <1>2, <1>3

(* Slots reused without a clear, chunked prefill and compaction are        *)
(* invisible: without anchors the engine is one in which every sequence    *)
(* has a KV cache of its own, as the paged engine is.                      *)
THEOREM RowsAreInvisible == Spec => ImplementsPrivateKV
<1>1. Init => Private!Init
  BY ViewInit
<1>2. CInv => PrivateView = OwnViews
  BY ViewIsOwn
<1>3. (CInv => PrivateView = OwnViews)'
  BY <1>2, PTL
<1>4. CInv /\ CInv' /\ [Next]_vars => [Private!Next]_<<PrivateView, Shown>>
  <2> SUFFICES ASSUME CInv, CInv', [Next]_vars
               PROVE  [Private!Next]_<<PrivateView, Shown>>
    OBVIOUS
  <2>1. PrivateView = OwnViews
    BY <1>2
  <2>2. PrivateView' = OwnViews'
    BY <1>3
  <2>3. QED
    BY <2>1, <2>2, ViewNext
<1>5. QED
  BY <1>1, <1>4, OwnAlways, PTL DEF Spec, ImplementsPrivateKV, Private!Spec
=============================================================================
