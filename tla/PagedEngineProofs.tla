------------------------- MODULE PagedEngineProofs -------------------------
(***************************************************************************)
(* Type correctness and token accounting of the paged engine for every     *)
(* value of its constants.  TypeInv is inductive: TypeOK needs             *)
(* OneTokenBehind (the rows of a step stay inside the sequence's tokens),  *)
(* which needs that a step never runs inside another handler's loop        *)
(* (HandlersExclude).                                                      *)
(***************************************************************************)
EXTENDS PagedEngine, FiniteSetTheorems, SequenceTheorems, WellFoundedInduction, TLAPS

(* Quotients locate a position's page.                                     *)
LEMMA DivMul ==
  ASSUME NEW a \in Nat, NEW t \in Nat \ {0}
  PROVE  /\ a \div t \in Nat
         /\ (a \div t) * t <= a
         /\ a < (a \div t) * t + t
         /\ \A m \in Nat : a <= m * t => a \div t <= m
         /\ \A i \in Nat : i <= a \div t => i * t <= a
BY SMTT(60)

(* The page that starts at a page boundary.                                *)
LEMMA MulDiv ==
  ASSUME NEW i \in Nat, NEW t \in Nat \ {0}
  PROVE  (i * t) \div t = i
BY SMTT(60)

(* Page boundaries are ordered like their pages.                           *)
LEMMA MulMono ==
  ASSUME NEW i \in Nat, NEW j \in Nat, NEW t \in Nat, i <= j
  PROVE  i * t <= j * t
BY SMTT(60)

(* Different pages start at different positions.                           *)
LEMMA MulInj ==
  ASSUME NEW i \in Nat, NEW j \in Nat, NEW t \in Nat \ {0}, i * t = j * t
  PROVE  i = j
BY SMTT(60)

(* Min picks a least element: the first writer of a hash in slot order,    *)
(* the rows a slot takes.                                                  *)
LEMMA MinOfNats ==
  ASSUME NEW S \in SUBSET Nat, S # {}
  PROVE  /\ Min(S) \in S
         /\ \A n \in S : Min(S) <= n
<1>1. \E m \in S : \A n \in S : m <= n
  <2>1. IsWellFoundedOn(OpToRel(<, Nat), Nat)
    BY NatLessThanWellFounded
  <2>2. PICK m \in S : \A n \in S : ~(<<n, m>> \in OpToRel(<, Nat))
    BY <2>1, WFMin, Zenon
  <2>3. ASSUME NEW n \in S, ~(m <= n) PROVE FALSE
    <3>1. n < m
      BY <2>3
    <3>2. <<n, m>> \in OpToRel(<, Nat)
      BY <3>1 DEF OpToRel
    <3>3. QED
      BY <2>2, <3>2
  <2>4. QED
    BY <2>3
<1>2. QED
  BY <1>1 DEF Min

(* A prompt fits max_seq_len, so its full pages fit a block table.         *)
LEMMA PromptFacts ==
  ASSUME NEW p \in Prompts
  PROVE  /\ p \in Seq(Token)
         /\ Len(p) \in 1 .. MaxSeq
         /\ FullPages(p) \in 0 .. MaxPages
         /\ FullPages(p) * TokensPerPage <= Len(p)
<1>1. PICK r \in Request : p = r.prompt
  BY DEF Prompts
<1>2. p \in Seq(Token) /\ Len(p) \in 1 .. MaxSeq
  BY <1>1, BatchingAssumption, EngineAssumption
<1>3. /\ Len(p) \in Nat
      /\ TokensPerPage \in Nat \ {0}
      /\ MaxPages \in Nat
      /\ Len(p) <= MaxPages * TokensPerPage
  BY <1>2, BatchingAssumption, EngineAssumption
<1>4. /\ FullPages(p) \in Nat
      /\ FullPages(p) * TokensPerPage <= Len(p)
      /\ FullPages(p) <= MaxPages
  BY <1>3, DivMul DEF FullPages
<1>5. QED
  BY <1>2, <1>3, <1>4

(* The hash of a full page is registered under its page's index.           *)
LEMMA HashFacts ==
  ASSUME NEW p \in Prompts, NEW i \in 1 .. FullPages(p)
  PROVE  /\ Hash(p, i) \in Hashes
         /\ Hash(p, i) \in Seq(Token)
         /\ Len(Hash(p, i)) = i * TokensPerPage
         /\ Len(Hash(p, i)) \div TokensPerPage = i
         /\ i \in 1 .. MaxPages
<1>1. /\ p \in Seq(Token)
      /\ Len(p) \in Nat
      /\ FullPages(p) \in Nat
      /\ FullPages(p) <= MaxPages
      /\ MaxPages \in Nat
      /\ FullPages(p) * TokensPerPage <= Len(p)
      /\ TokensPerPage \in Nat \ {0}
  BY PromptFacts, BatchingAssumption, EngineAssumption
<1>2. i * TokensPerPage \in 0 .. Len(p)
  <2>1. i \in Nat /\ i <= FullPages(p)
    BY <1>1
  <2>2. i * TokensPerPage <= FullPages(p) * TokensPerPage
    BY <1>1, <2>1, MulMono
  <2>3. i * TokensPerPage \in Nat /\ FullPages(p) * TokensPerPage \in Nat
    BY <1>1, <2>1
  <2>4. QED
    BY <1>1, <2>2, <2>3
<1>3. /\ Hash(p, i) \in Seq(Token)
      /\ Len(Hash(p, i)) = i * TokensPerPage
  BY <1>1, <1>2, SubSeqProperties DEF Hash
<1>4. Hash(p, i) \in Hashes
  BY DEF Hashes, Claims
<1>5. QED
  BY <1>1, <1>3, <1>4, MulDiv

(* Equal hashes are hashes of the same page index.                         *)
LEMMA HashInjective ==
  ASSUME NEW p \in Prompts, NEW i \in 1 .. FullPages(p),
         NEW q \in Prompts, NEW j \in 1 .. FullPages(q),
         Hash(p, i) = Hash(q, j)
  PROVE  i = j
BY HashFacts

(* Every hash the cache knows is the hash of a full prompt page.           *)
LEMMA HashesAreHashes ==
  ASSUME NEW h \in Hashes
  PROVE  \E p \in Prompts : \E i \in 1 .. FullPages(p) : h = Hash(p, i)
BY DEF Hashes, Claims

(* NoPage is no page of the pool.                                          *)
LEMMA PageFacts == Page \subseteq Nat /\ NoPage \notin Page
<1>1. MaxPages * Capacity - 1 \in Int
  BY BatchingAssumption, EngineAssumption
<1>2. QED
  BY <1>1 DEF Page, NoPage

(* Slots are numbers, and the pool is not empty.                           *)
LEMMA SlotFacts == Slot \subseteq Nat /\ 0 \in Page /\ Capacity \in Nat
<1>1. Capacity \in Nat \ {0} /\ MaxPages \in Nat \ {0}
  BY BatchingAssumption, EngineAssumption
<1>2. MaxPages * Capacity \in Nat \ {0}
  BY <1>1
<1>3. QED
  BY <1>1, <1>2 DEF Slot, Page

(* The identity mapping of a new engine stays inside the pool.             *)
LEMMA IdentityTable ==
  ASSUME NEW s \in Slot, NEW i \in 1 .. MaxPages
  PROVE  (s - 1) * MaxPages + i - 1 \in Page
<1>1. /\ Capacity \in Nat \ {0} /\ MaxPages \in Nat \ {0}
      /\ s \in 1 .. Capacity
  BY BatchingAssumption, EngineAssumption DEF Slot
<1>2. PICK d \in Nat : Capacity = s + d
  <2>1. Capacity - s \in Nat /\ Capacity = s + (Capacity - s)
    BY <1>1
  <2>2. QED
    BY <2>1
<1>3. /\ (s - 1) * MaxPages \in Nat
      /\ d * MaxPages \in Nat
      /\ MaxPages * Capacity = (s - 1) * MaxPages + MaxPages + d * MaxPages
  BY <1>1, <1>2
<1>4. QED
  BY <1>1, <1>3 DEF Page

(* A plan aliases registered full pages only, and leaves at least one      *)
(* prompt token to prefill: the rewind of a fully cached prompt.           *)
LEMMA AliasedFacts ==
  ASSUME NEW p \in Prompts
  PROVE  /\ Aliased(p) \subseteq 1 .. FullPages(p)
         /\ Aliased(p) \subseteq 1 .. MaxPages
         /\ \A i \in Aliased(p) : cache[Hash(p, i)] # NoPage
         /\ ReusedTokens(p) \in Nat
         /\ ReusedTokens(p) < Len(p)
<1>1. /\ FullPages(p) \in Nat /\ MaxPages \in Nat /\ FullPages(p) <= MaxPages
      /\ Len(p) \in Nat \ {0}
      /\ FullPages(p) * TokensPerPage <= Len(p)
      /\ TokensPerPage \in Nat \ {0}
  BY PromptFacts, BatchingAssumption, EngineAssumption
<1>2. Aliased(p) \subseteq 1 .. FullPages(p)
  BY DEF Aliased
<1>3. \A i \in Aliased(p) : cache[Hash(p, i)] # NoPage
  <2>1. \A i \in 1 .. FullPages(p) : i \in 1 .. i
    BY <1>1
  <2>2. QED
    BY <2>1 DEF Aliased
<1>4. Cardinality(Aliased(p)) \in 0 .. FullPages(p)
  <2>1. /\ IsFiniteSet(1 .. FullPages(p))
        /\ Cardinality(1 .. FullPages(p)) = FullPages(p)
    <3> DEFINE n == FullPages(p)
    <3>1. 1 \in Int /\ n \in Int /\ n \in Nat
      BY <1>1
    <3> HIDE DEF n
    <3>2. /\ IsFiniteSet(1 .. n)
          /\ Cardinality(1 .. n) = IF 1 > n THEN 0 ELSE n - 1 + 1
      BY <3>1, FS_Interval
    <3>3. QED
      BY <3>1, <3>2 DEF n
  <2>2. /\ IsFiniteSet(Aliased(p))
        /\ Cardinality(Aliased(p)) <= FullPages(p)
    BY <1>2, <2>1, FS_Subset
  <2>3. QED
    BY <1>1, <2>2, FS_CardinalityType
<1>5. /\ Cardinality(Aliased(p)) * TokensPerPage \in Nat
      /\ Cardinality(Aliased(p)) * TokensPerPage <= Len(p)
  <2>1. ASSUME NEW c \in 0 .. FullPages(p)
        PROVE  c * TokensPerPage \in Nat /\ c * TokensPerPage <= Len(p)
    <3>1. c * TokensPerPage <= FullPages(p) * TokensPerPage
      BY <1>1, MulMono
    <3>2. c * TokensPerPage \in Nat /\ FullPages(p) * TokensPerPage \in Nat
      BY <1>1
    <3>3. QED
      BY <1>1, <3>1, <3>2
  <2>2. QED
    BY <1>4, <2>1
<1>6. QED
  BY <1>1, <1>2, <1>3, <1>5 DEF ReusedTokens

(* The aliased pages are the leading ones.                                 *)
LEMMA AliasedInitial ==
  ASSUME NEW p \in Prompts
  PROVE  /\ Cardinality(Aliased(p)) \in 0 .. FullPages(p)
         /\ Aliased(p) = 1 .. Cardinality(Aliased(p))
<1> DEFINE A == Aliased(p)
           n == FullPages(p)
           r == Cardinality(A)
<1>1. /\ n \in Nat
      /\ A \subseteq 1 .. n
      /\ \A i \in A : 1 .. i \subseteq A
  <2>1. n \in Nat
    BY PromptFacts, EngineAssumption
  <2>2. A \subseteq 1 .. n
    BY DEF Aliased
  <2>3. ASSUME NEW i \in A, NEW k \in 1 .. i PROVE k \in A
    <3>1. /\ i \in 1 .. n /\ k \in 1 .. n /\ 1 .. k \subseteq 1 .. i
      BY <2>1, <2>2, <2>3
    <3>2. \A j \in 1 .. i : cache[Hash(p, j)] # NoPage
      BY DEF Aliased
    <3>3. QED
      BY <3>1, <3>2 DEF Aliased
  <2>4. QED
    BY <2>1, <2>2, <2>3
<1> HIDE DEF A, n
<1>2. /\ IsFiniteSet(A) /\ r \in Nat /\ r <= n
  <2>1. IsFiniteSet(1 .. n) /\ Cardinality(1 .. n) = n
    <3>1. 1 \in Int /\ n \in Int
      BY <1>1
    <3>2. IsFiniteSet(1 .. n) /\ Cardinality(1 .. n) = IF 1 > n THEN 0 ELSE n - 1 + 1
      BY <3>1, FS_Interval
    <3>3. QED
      BY <1>1, <3>2
  <2>2. IsFiniteSet(A) /\ Cardinality(A) <= n
    BY <1>1, <2>1, FS_Subset
  <2>3. QED
    BY <2>2, FS_CardinalityType
<1> HIDE DEF r
<1>3. ASSUME NEW i \in A PROVE i <= r
  <2>1. i \in Nat \ {0}
    BY <1>1
  <2>2. Cardinality(1 .. i) = i
    <3>1. 1 \in Int /\ i \in Int
      BY <2>1
    <3>2. Cardinality(1 .. i) = IF 1 > i THEN 0 ELSE i - 1 + 1
      BY <3>1, FS_Interval
    <3>3. QED
      BY <2>1, <3>2
  <2>3. Cardinality(1 .. i) <= Cardinality(A)
    BY <1>1, <1>2, FS_Subset
  <2>4. QED
    BY <2>2, <2>3 DEF r
<1>4. A \subseteq 1 .. r
  BY <1>1, <1>2, <1>3
<1>5. IsFiniteSet(1 .. r) /\ Cardinality(1 .. r) = r
  <2>1. 1 \in Int /\ r \in Int
    BY <1>2
  <2>2. IsFiniteSet(1 .. r) /\ Cardinality(1 .. r) = IF 1 > r THEN 0 ELSE r - 1 + 1
    BY <2>1, FS_Interval
  <2>3. QED
    BY <1>2, <2>2
<1>6. A = 1 .. r
  <2>1. Cardinality(1 .. r) = Cardinality(A)
    BY <1>5 DEF r
  <2>2. QED
    BY <1>4, <1>5, <2>1, FS_Subset
<1>7. QED
  BY <1>1, <1>2, <1>6 DEF A, n, r

(* While an admission retries no other loop runs, and the cap loop runs on a non-empty list. *)
HandlersExclude ==
  /\ admitting # NoRequest => active < Capacity /\ ~evicting /\ done = NoneDone
  /\ evicting => retired # <<>>

TypeInv == TypeOK /\ OneTokenBehind /\ HandlersExclude

(* A new engine satisfies the invariant.                                   *)
LEMMA TypeInit == Init => TypeInv
<1> SUFFICES ASSUME Init PROVE TypeInv
  OBVIOUS
<1> USE SlotFacts
<1>1. NoSeq \in SeqState
  BY EmptySeq DEF NoSeq, SeqState
<1>2. active \in 0 .. Capacity /\ active = 0
  BY DEF Init
<1>3. seqs \in [Slot -> SeqState]
  BY <1>1 DEF Init
<1>4. dev \in [Slot -> [1 .. MaxPages -> Page]]
  BY IdentityTable DEF Init
<1>5. kv \in [Page -> [Offset -> Seq(Token)]]
  BY EmptySeq DEF Init, Garbage
<1>6. TypeOK
  BY <1>2, <1>3, <1>4, <1>5, EmptySeq DEF Init, TypeOK, NoneDone
<1>7. OneTokenBehind /\ HandlersExclude
  BY <1>2 DEF Init, OneTokenBehind, HandlersExclude, Live
<1>8. QED
  BY <1>6, <1>7 DEF TypeInv

(* Taking a request into the admission loop preserves it.                  *)
LEMMA TypeAdd ==
  ASSUME TypeInv, NEW r \in Request, Add(r)
  PROVE  TypeInv'
<1>1. TypeOK'
  BY DEF TypeInv, TypeOK, Add
<1>2. OneTokenBehind'
  BY DEF TypeInv, OneTokenBehind, Add, Live
<1>3. HandlersExclude'
  BY DEF TypeInv, HandlersExclude, Add, Idle
<1>4. QED
  BY <1>1, <1>2, <1>3 DEF TypeInv

(* The request being admitted is one a client may send.                    *)
LEMMA RequestFacts ==
  ASSUME TypeOK, admitting # NoRequest
  PROVE  /\ admitting \in Request
         /\ admitting.prompt \in Prompts
         /\ admitting.prompt \in Seq(Token)
         /\ admitting.maxNew \in Nat
<1>1. admitting \in Request
  BY DEF TypeOK
<1>2. QED
  BY <1>1, BatchingAssumption, EngineAssumption DEF Prompts

(* The table of a plan that alloc backs in full.                           *)
LEMMA PlannedWhole ==
  ASSUME TypeOK, admitting # NoRequest,
         NEW fresh \in Injection(Fresh(admitting.prompt), free)
  PROVE  Planned(admitting.prompt, fresh) =
           [i \in 1 .. MaxPages |->
              IF i \in Aliased(admitting.prompt) THEN cache[Hash(admitting.prompt, i)]
                                                 ELSE fresh[i]]
<1> DEFINE p == admitting.prompt
<1>1. DOMAIN fresh = (1 .. MaxPages) \ Aliased(p)
  BY DEF Injection, Fresh
<1>2. Aliased(p) \subseteq 1 .. MaxPages
  BY RequestFacts, AliasedFacts
<1>3. Aliased(p) \cup DOMAIN fresh = 1 .. MaxPages
  BY <1>1, <1>2
<1>4. QED
  BY <1>3 DEF Planned

(* The rollbacks of a failed plan, padding or installation give back the   *)
(* pages that alloc returned, each once, and no aliased page, wherever     *)
(* alloc stopped.                                                          *)
LEMMA RolledBack ==
  ASSUME TypeOK, admitting # NoRequest,
         NEW D, D \subseteq Fresh(admitting.prompt), NEW fresh \in Injection(D, free)
  PROVE  LET p     == admitting.prompt
             table == Planned(p, fresh)
             pads  == Pads(p, table)
             plan  == PlanPages(p, Truncated(p, table))
         IN  /\ PlanPages(p, table) = Range(fresh)
             /\ pads \cup plan = Range(fresh)
             /\ pads \cap plan = {}
             /\ Range(fresh) \subseteq free
<1> DEFINE p     == admitting.prompt
           table == Planned(p, fresh)
           cut   == Truncated(p, table)
           r     == Cardinality(Aliased(p))
           n     == ChainPages(p)
<1>1. /\ r \in Nat /\ n \in Nat /\ r <= n
      /\ Aliased(p) = 1 .. r
      /\ MaxPages \in Nat
  <2>1. p \in Prompts
    BY RequestFacts
  <2>2. FullPages(p) \in Nat /\ MaxPages \in Nat
    BY <2>1, PromptFacts, EngineAssumption
  <2>3. n = FullPages(p) + 0 \/ n = FullPages(p) + 1
    BY DEF ChainPages
  <2>4. r \in 0 .. FullPages(p) /\ Aliased(p) = 1 .. r
    BY <2>1, AliasedInitial
  <2>5. QED
    BY <2>2, <2>3, <2>4
<1>2. D \subseteq r + 1 .. MaxPages
  BY <1>1 DEF Fresh
<1>3. /\ DOMAIN fresh = D
      /\ \A i, j \in D : fresh[i] = fresh[j] => i = j
      /\ Range(fresh) = {fresh[i] : i \in D}
      /\ Range(fresh) \subseteq free
  BY DEF Injection, IsInjective, Range
<1>4. /\ DOMAIN table = (1 .. r) \cup D
      /\ \A i \in D : table[i] = fresh[i]
  <2>1. \A i \in D : i \notin Aliased(p)
    BY <1>1, <1>2
  <2>2. QED
    BY <1>1, <1>3, <2>1 DEF Planned
<1>5. /\ DOMAIN cut = ((1 .. r) \cup D) \cap 1 .. n
      /\ \A i \in D \cap 1 .. n : cut[i] = fresh[i]
  BY <1>4 DEF Truncated, Restrict
<1> HIDE DEF table, cut, r, n
<1>6. PlanPages(p, table) = {fresh[i] : i \in D}
  <2>1. (r + 1 .. MaxPages) \cap DOMAIN table = D
    <3>1. (r + 1 .. MaxPages) \cap 1 .. r = {}
      BY <1>1
    <3>2. QED
      BY <1>2, <1>4, <3>1
  <2>2. PlanPages(p, table) = {table[i] : i \in D}
    BY <2>1 DEF PlanPages, PagesAt, r
  <2>3. QED
    BY <1>4, <2>2
<1>7. Pads(p, table) = {fresh[i] : i \in D \cap n + 1 .. MaxPages}
  <2>1. (n + 1 .. MaxPages) \cap DOMAIN table = D \cap n + 1 .. MaxPages
    BY <1>1, <1>2, <1>4
  <2>2. Pads(p, table) = {table[i] : i \in D \cap n + 1 .. MaxPages}
    BY <2>1 DEF Pads, PagesAt, n
  <2>3. QED
    BY <1>4, <2>2
<1>8. PlanPages(p, cut) = {fresh[i] : i \in D \cap 1 .. n}
  <2>1. (r + 1 .. MaxPages) \cap DOMAIN cut = D \cap 1 .. n
    BY <1>1, <1>2, <1>5
  <2>2. PlanPages(p, cut) = {cut[i] : i \in D \cap 1 .. n}
    BY <2>1 DEF PlanPages, PagesAt, r
  <2>3. QED
    BY <1>5, <2>2
<1>9. \A i \in D : i \in 1 .. n \/ i \in n + 1 .. MaxPages
  BY <1>1, <1>2
<1>10. \A i \in D \cap 1 .. n : i \notin n + 1 .. MaxPages
  BY <1>1
<1>11. Pads(p, table) \cup PlanPages(p, cut) = {fresh[i] : i \in D}
  BY <1>7, <1>8, <1>9
<1>12. Pads(p, table) \cap PlanPages(p, cut) = {}
  BY <1>3, <1>7, <1>8, <1>10
<1>13. QED
  BY <1>3, <1>6, <1>11, <1>12 DEF table, cut

(* Every entry of a planned table is an aliased cached page or a fresh     *)
(* page.                                                                   *)
LEMMA InstalledTable ==
  ASSUME TypeOK, admitting # NoRequest,
         NEW fresh \in Injection(Fresh(admitting.prompt), free),
         NEW i \in 1 .. MaxPages
  PROVE  IF i \in Aliased(admitting.prompt)
         THEN /\ Hash(admitting.prompt, i) \in Hashes
              /\ cache[Hash(admitting.prompt, i)] \in Page
         ELSE /\ i \in Fresh(admitting.prompt)
              /\ fresh[i] \in free
              /\ fresh[i] \in Page
<1> DEFINE p == admitting.prompt
<1>1. p \in Prompts
  BY RequestFacts
<1>2. CASE i \in Aliased(p)
  <2>1. i \in 1 .. FullPages(p) /\ cache[Hash(p, i)] # NoPage
    BY <1>1, <1>2, AliasedFacts
  <2>2. Hash(p, i) \in Hashes
    BY <1>1, <2>1, HashFacts
  <2>3. QED
    BY <1>2, <2>1, <2>2 DEF TypeOK
<1>3. CASE i \notin Aliased(p)
  <2>1. i \in Fresh(p)
    BY <1>3 DEF Fresh
  <2>2. fresh \in [Fresh(p) -> free]
    BY DEF Injection
  <2>3. QED
    BY <1>3, <2>1, <2>2 DEF TypeOK
<1>4. QED
  BY <1>2, <1>3

(* Installing a plan preserves the invariant: the new sequence has a       *)
(* prompt token left to consume.                                           *)
LEMMA TypeInstall ==
  ASSUME TypeInv,
         NEW fresh \in Injection(Fresh(admitting.prompt), free), Install(fresh)
  PROVE  TypeInv'
<1> DEFINE p == admitting.prompt
           slot == active + 1
           table == [i \in 1 .. MaxPages |->
                       IF i \in Aliased(p) THEN cache[Hash(p, i)] ELSE fresh[i]]
           new == [prompt |-> p, gen |-> <<>>, len |-> ReusedTokens(p),
                   maxNew |-> admitting.maxNew, ended |-> FALSE, table |-> table]
<1>1. /\ TypeOK /\ OneTokenBehind /\ HandlersExclude
      /\ admitting # NoRequest
      /\ p \in Prompts /\ p \in Seq(Token) /\ admitting.maxNew \in Nat
      /\ seqs' = [seqs EXCEPT ![slot] = new]
      /\ dev' = [dev EXCEPT ![slot] = table]
      /\ active' = slot
      /\ free' = free \ Range(fresh)
      /\ admitting' = NoRequest
      /\ UNCHANGED <<cache, retired, kv, done, evicting, panicked>>
  BY PlannedWhole, RequestFacts DEF TypeInv, Install
<1>2. slot \in Slot /\ active' \in 0 .. Capacity /\ active \in Nat
  BY <1>1, SlotFacts DEF TypeOK, HandlersExclude, Slot
<1>3. table \in [1 .. MaxPages -> Page]
  BY <1>1, InstalledTable
<1>4. new \in SeqState
  BY <1>1, <1>3, AliasedFacts, EmptySeq DEF SeqState
<1>5. TypeOK'
  <2>1. seqs' \in [Slot -> SeqState]
    BY <1>1, <1>4 DEF TypeOK
  <2>2. dev' \in [Slot -> [1 .. MaxPages -> Page]]
    BY <1>1, <1>3 DEF TypeOK
  <2>3. QED
    BY <1>1, <1>2, <2>1, <2>2 DEF TypeOK
<1>6. OneTokenBehind'
  <2> SUFFICES ASSUME NEW s \in 1 .. slot
      PROVE  /\ seqs'[s].prompt \in Prompts
             /\ seqs'[s].gen = <<>> => seqs'[s].len < Len(seqs'[s].prompt)
             /\ seqs'[s].gen # <<>> => seqs'[s].len = Len(Tokens(seqs'[s])) - 1
    BY <1>1 DEF OneTokenBehind, Live
  <2>1. CASE s = slot
    <3>1. seqs'[s] = new
      BY <1>1, <1>2, <2>1 DEF TypeOK
    <3>2. QED
      BY <1>1, <3>1, AliasedFacts
  <2>2. CASE s # slot
    <3>1. s \in Live /\ seqs'[s] = seqs[s]
      BY <1>1, <1>2, <2>2 DEF Live, TypeOK, Slot
    <3>2. QED
      BY <1>1, <3>1 DEF OneTokenBehind
  <2>3. QED
    BY <2>1, <2>2
<1>7. HandlersExclude'
  BY <1>1 DEF HandlersExclude
<1>8. QED
  BY <1>5, <1>6, <1>7 DEF TypeInv

(* A refused installation takes nothing from the pool.                     *)
LEMMA InstallFailsFacts ==
  ASSUME TypeOK,
         NEW fresh \in Injection(Fresh(admitting.prompt), free), InstallFails(fresh)
  PROVE  /\ admitting' = NoRequest
         /\ UNCHANGED <<seqs, active, cache, free, retired, dev, kv, done, evicting,
                        panicked>>
<1> DEFINE plan == PlanPages(admitting.prompt, Planned(admitting.prompt, fresh))
<1>1. /\ admitting # NoRequest /\ admitting' = NoRequest
      /\ free' = (free \ Range(fresh)) \cup plan
      /\ panicked' = IF plan \cap (free \ Range(fresh)) # {} THEN "double_free" ELSE panicked
      /\ UNCHANGED <<seqs, active, cache, retired, dev, kv, done, evicting>>
  BY DEF InstallFails
<1>2. plan = Range(fresh) /\ Range(fresh) \subseteq free
  BY <1>1, RolledBack
<1> HIDE DEF plan
<1>3. free' = free /\ panicked' = panicked
  BY <1>1, <1>2
<1>4. QED
  BY <1>1, <1>3

(* A refused installation preserves the invariant.                         *)
LEMMA TypeInstallFails ==
  ASSUME TypeInv,
         NEW fresh \in Injection(Fresh(admitting.prompt), free), InstallFails(fresh)
  PROVE  TypeInv'
<1>1. /\ TypeOK /\ OneTokenBehind /\ HandlersExclude
      /\ admitting' = NoRequest
      /\ UNCHANGED <<seqs, active, cache, free, retired, dev, kv, done, evicting, panicked>>
  BY InstallFailsFacts DEF TypeInv
<1>2. TypeOK'
  BY <1>1 DEF TypeOK
<1>3. OneTokenBehind'
  BY <1>1 DEF OneTokenBehind, Live
<1>4. HandlersExclude'
  BY <1>1 DEF HandlersExclude
<1>5. QED
  BY <1>2, <1>3, <1>4 DEF TypeInv

(* What an eviction frees is registered and in no live table.              *)
LEMMA FreeableFacts ==
  ASSUME TypeOK, retired # <<>>, NEW h \in Freeable
  PROVE  /\ h \in Hashes
         /\ cache[h] \in Page
         /\ cache[h] \notin Referenced
<1>1. Head(retired) \in Prompts
  BY HeadTailProperties DEF TypeOK
<1>2. h \in Claims(Head(retired)) /\ cache[h] # NoPage /\ cache[h] \notin Referenced
  BY DEF Freeable
<1>3. h \in Hashes
  BY <1>1, <1>2 DEF Hashes
<1>4. QED
  BY <1>2, <1>3 DEF TypeOK

(* Freeing pages leaves garbage of the right shape.                        *)
LEMMA ScrubType ==
  ASSUME TypeOK, NEW pages
  PROVE  Scrub(pages) \in [Page -> [Offset -> Seq(Token)]]
BY EmptySeq DEF TypeOK, Scrub, Garbage

(* An eviction keeps the types of what it changes.                         *)
LEMMA DropOldestType ==
  ASSUME TypeOK, retired # <<>>, DropOldest(free, Freeable)
  PROVE  /\ retired' \in Seq(Prompts)
         /\ cache' \in [Hashes -> Page \cup {NoPage}]
         /\ free' \subseteq Page
         /\ kv' \in [Page -> [Offset -> Seq(Token)]]
         /\ panicked' \in {"none", "double_free", "finish_range"}
<1>1. {cache[h] : h \in Freeable} \subseteq Page
  BY FreeableFacts
<1>2. retired' \in Seq(Prompts)
  BY HeadTailProperties DEF TypeOK, DropOldest
<1>3. cache' \in [Hashes -> Page \cup {NoPage}]
  BY DEF TypeOK, DropOldest
<1>4. free' \subseteq Page
  BY <1>1 DEF TypeOK, DropOldest
<1>5. kv' \in [Page -> [Offset -> Seq(Token)]]
  BY ScrubType DEF DropOldest
<1>6. panicked' \in {"none", "double_free", "finish_range"}
  BY DEF TypeOK, DropOldest
<1>7. QED
  BY <1>2, <1>3, <1>4, <1>5, <1>6

(* An admission retry has its pages back before it evicts.                 *)
LEMMA RetryFacts ==
  ASSUME TypeOK,
         NEW fresh \in Injection(Backed(admitting.prompt), free), RetryAdmission(fresh)
  PROVE  /\ admitting # NoRequest /\ panicked = "none"
         /\ retired = <<>> => /\ admitting' = NoRequest
                              /\ UNCHANGED <<retired, cache, free, kv, panicked>>
         /\ retired # <<>> => DropOldest(free, Freeable) /\ UNCHANGED admitting
         /\ UNCHANGED <<seqs, active, dev, done, evicting>>
<1> DEFINE p     == admitting.prompt
           table == Planned(p, fresh)
           pads  == Pads(p, table)
           plan  == PlanPages(p, Truncated(p, table))
           left  == free \ Range(fresh)
           pool  == left \cup pads \cup plan
           twice == pads \cap plan # {} \/ (pads \cup plan) \cap left # {}
<1>1. /\ admitting # NoRequest /\ panicked = "none"
      /\ IF twice \/ retired = <<>>
         THEN /\ admitting' = NoRequest
              /\ free' = pool
              /\ panicked' = IF twice THEN "double_free" ELSE panicked
              /\ UNCHANGED <<retired, cache, kv>>
         ELSE /\ DropOldest(pool, Freeable)
              /\ UNCHANGED admitting
      /\ UNCHANGED <<seqs, active, dev, done, evicting>>
  BY DEF RetryAdmission
<1>2. Backed(p) \subseteq Fresh(p)
  BY DEF Backed
<1>3. /\ pads \cup plan = Range(fresh)
      /\ pads \cap plan = {}
      /\ Range(fresh) \subseteq free
  BY <1>1, <1>2, RolledBack
<1> HIDE DEF pads, plan
<1>4. pool = free /\ ~twice
  BY <1>3
<1> HIDE DEF pool, twice
<1>5. QED
  BY <1>1, <1>4

(* The admission retry preserves the invariant.                            *)
LEMMA TypeRetryAdmission ==
  ASSUME TypeInv,
         NEW fresh \in Injection(Backed(admitting.prompt), free), RetryAdmission(fresh)
  PROVE  TypeInv'
<1>1. /\ TypeOK /\ OneTokenBehind /\ HandlersExclude
      /\ admitting # NoRequest
      /\ retired = <<>> => /\ admitting' = NoRequest
                           /\ UNCHANGED <<retired, cache, free, kv, panicked>>
      /\ retired # <<>> => DropOldest(free, Freeable) /\ UNCHANGED admitting
      /\ UNCHANGED <<seqs, active, dev, done, evicting>>
  BY RetryFacts DEF TypeInv
<1>2. OneTokenBehind'
  BY <1>1 DEF OneTokenBehind, Live
<1>3. HandlersExclude'
  BY <1>1 DEF HandlersExclude
<1>4. TypeOK'
  <2>1. CASE retired = <<>>
    BY <1>1, <2>1 DEF TypeOK
  <2>2. CASE retired # <<>>
    BY <1>1, <2>2, DropOldestType DEF TypeOK
  <2>3. QED
    BY <2>1, <2>2
<1>5. QED
  BY <1>2, <1>3, <1>4 DEF TypeInv

(* The retired-cap loop preserves it.                                      *)
LEMMA TypeTrimRetired ==
  ASSUME TypeInv, TrimRetired
  PROVE  TypeInv'
<1>1. /\ TypeOK /\ OneTokenBehind /\ HandlersExclude
      /\ evicting /\ retired # <<>>
      /\ DropOldest(free, Freeable)
      /\ evicting' = (/\ retired' # <<>>
                      /\ Freeable = {} \/ Len(retired') > RetiredCap)
      /\ UNCHANGED <<seqs, active, dev, admitting, done>>
  BY DEF TypeInv, TrimRetired, HandlersExclude
<1>2. OneTokenBehind'
  BY <1>1 DEF OneTokenBehind, Live
<1>3. HandlersExclude'
  BY <1>1 DEF HandlersExclude
<1>4. TypeOK'
  BY <1>1, DropOldestType DEF TypeOK
<1>5. QED
  BY <1>2, <1>3, <1>4 DEF TypeInv

(* finish moves the live slots above s down by one. *)
Source(s, i) == IF i < s THEN i ELSE i + 1

(* Compaction moves every live sequence above the finished slot down by    *)
(* one, and loses or duplicates none.                                      *)
LEMMA FinishShift ==
  ASSUME TypeOK, NEW s \in Live, Finish(s)
  PROVE  /\ s \in Slot /\ active \in Nat /\ active' = active - 1
         /\ active' \in 0 .. Capacity
         /\ \A i \in Live' : /\ Source(s, i) \in Live \ {s}
                             /\ i \in Slot
                             /\ seqs'[i] = seqs[Source(s, i)]
         /\ \A i, j \in Live' : Source(s, i) = Source(s, j) => i = j
         /\ seqs' \in [Slot -> SeqState]
         /\ dev' \in [Slot -> [1 .. MaxPages -> Page]]
<1>1. /\ Capacity \in Nat /\ active \in 0 .. Capacity /\ s \in 1 .. active
      /\ Slot = 1 .. Capacity
      /\ seqs \in [Slot -> SeqState]
      /\ active' = active - 1
      /\ seqs' = [i \in Slot |-> IF i < s \/ i > active THEN seqs[i]
                                 ELSE IF i < active THEN seqs[i + 1] ELSE NoSeq]
      /\ dev' = [i \in Slot |-> IF s <= i /\ i < active THEN seqs[i + 1].table
                                ELSE dev[i]]
  BY SlotFacts DEF TypeOK, Live, Slot, Finish, Reinstalled
<1>2. \A i \in Slot : i < active => i + 1 \in Slot
  BY <1>1
<1>3. NoSeq \in SeqState
  BY EmptySeq, SlotFacts DEF NoSeq, SeqState
<1>4. seqs' \in [Slot -> SeqState]
  <2>1. \A i \in Slot : (IF i < s \/ i > active THEN seqs[i]
                         ELSE IF i < active THEN seqs[i + 1] ELSE NoSeq) \in SeqState
    BY <1>1, <1>2, <1>3
  <2>2. QED
    BY <1>1, <2>1
<1>5. dev' \in [Slot -> [1 .. MaxPages -> Page]]
  <2>1. \A i \in Slot : seqs[i].table \in [1 .. MaxPages -> Page]
    BY <1>1 DEF SeqState
  <2>2. \A i \in Slot : (IF s <= i /\ i < active THEN seqs[i + 1].table
                         ELSE dev[i]) \in [1 .. MaxPages -> Page]
    BY <1>2, <2>1 DEF TypeOK
  <2>3. QED
    BY <1>1, <2>2
<1>6. \A i \in Live' : /\ Source(s, i) \in Live \ {s}
                      /\ i \in Slot
                      /\ seqs'[i] = seqs[Source(s, i)]
  BY <1>1 DEF Live, Source
<1>7. \A i, j \in Live' : Source(s, i) = Source(s, j) => i = j
  BY <1>1 DEF Live, Source
<1>8. s \in Slot /\ active \in Nat /\ active' \in 0 .. Capacity
  BY <1>1
<1>9. QED
  BY <1>1, <1>4, <1>5, <1>6, <1>7, <1>8, Zenon

(* Retiring a sequence preserves the invariant.                            *)
LEMMA TypeFinish ==
  ASSUME TypeOK, OneTokenBehind, NEW s \in Live, Finish(s), admitting = NoRequest,
         done' \in [outputs : SUBSET Slot, limit : SUBSET Slot]
  PROVE  TypeInv'
<1> DEFINE q == seqs[s]
           pages == {q.table[i] : i \in (1 .. MaxPages) \ Kept(q)}
<1>1. /\ free' = free \cup pages
      /\ kv' = Scrub(pages)
      /\ panicked' \in {"double_free", panicked}
      /\ retired' = IF FullPages(q.prompt) > 0 THEN Append(retired, q.prompt)
                                               ELSE retired
      /\ evicting' = (Len(retired') > RetiredCap)
      /\ UNCHANGED <<cache, admitting>>
  BY DEF Finish
<1>2. q.table \in [1 .. MaxPages -> Page] /\ q.prompt \in Prompts
  BY FinishShift DEF TypeOK, SeqState, OneTokenBehind
<1>3. pages \subseteq Page
  BY <1>2
<1>4. retired' \in Seq(Prompts)
  BY <1>1, <1>2, AppendProperties DEF TypeOK
<1>5. TypeOK'
  <2>1. kv' \in [Page -> [Offset -> Seq(Token)]]
    BY <1>1, ScrubType
  <2>2. panicked' \in {"none", "double_free", "finish_range"}
    BY <1>1 DEF TypeOK
  <2>3. /\ active' \in 0 .. Capacity
        /\ seqs' \in [Slot -> SeqState]
        /\ dev' \in [Slot -> [1 .. MaxPages -> Page]]
    BY FinishShift
  <2>4. free' \subseteq Page /\ evicting' \in BOOLEAN
    BY <1>1, <1>3 DEF TypeOK
  <2>5. cache' = cache /\ admitting' = admitting
    BY <1>1
  <2>6. QED
    BY <1>4, <2>1, <2>2, <2>3, <2>4, <2>5 DEF TypeOK
<1>6. OneTokenBehind'
  BY FinishShift DEF OneTokenBehind
<1>7. HandlersExclude'
  <2>1. retired' = <<>> => ~(Len(retired') > RetiredCap)
    BY BatchingAssumption, EngineAssumption
  <2> HIDE DEF pages
  <2>2. QED
    BY <1>1, <2>1 DEF HandlersExclude
<1>8. QED
  BY <1>5, <1>6, <1>7 DEF TypeInv

(* One iteration of step's finish loop preserves it, in range or not.      *)
LEMMA TypeFinishNext ==
  ASSUME TypeInv, NEW part \in {"outputs", "limit"}, NEW s \in Slot,
         FinishNext(part, s)
  PROVE  TypeInv'
<1>1. /\ TypeOK /\ OneTokenBehind /\ HandlersExclude
      /\ ~evicting /\ s \in done[part]
      /\ done' = [done EXCEPT ![part] = @ \ {s}]
  BY DEF TypeInv, FinishNext, NextDone
<1>2. done' \in [outputs : SUBSET Slot, limit : SUBSET Slot]
  BY <1>1 DEF TypeOK
<1>3. admitting = NoRequest
  BY <1>1 DEF HandlersExclude, NoneDone
<1>4. CASE s <= active
  <2>1. s \in Live /\ Finish(s)
    BY <1>1, <1>4, SlotFacts DEF FinishNext, Live, Slot, TypeOK
  <2>2. QED
    BY <1>1, <1>2, <1>3, <2>1, TypeFinish
<1>5. CASE ~(s <= active)
  <2>1. /\ panicked' = "finish_range"
        /\ UNCHANGED <<seqs, active, cache, free, retired, dev, kv, admitting,
                       evicting>>
    BY <1>5 DEF FinishNext
  <2>2. TypeOK'
    BY <1>1, <1>2, <2>1 DEF TypeOK
  <2>3. OneTokenBehind'
    BY <1>1, <2>1 DEF OneTokenBehind, Live
  <2>4. HandlersExclude'
    BY <1>1, <1>3, <2>1 DEF HandlersExclude
  <2>5. QED
    BY <2>2, <2>3, <2>4 DEF TypeInv
<1>6. QED
  BY <1>4, <1>5

(* Cancelling preserves it.                                                *)
LEMMA TypeCancel ==
  ASSUME TypeInv, NEW s \in Slot, Cancel(s)
  PROVE  TypeInv'
<1>1. /\ TypeOK /\ OneTokenBehind
      /\ admitting = NoRequest /\ s \in Live /\ Finish(s)
      /\ done' = done
  BY DEF TypeInv, Cancel, Idle
<1>2. QED
  BY <1>1, TypeFinish DEF TypeOK

(* A slot takes no more rows than it wants and than the budget holds.      *)
LEMMA MinPair ==
  ASSUME NEW x \in Nat, NEW y \in Nat
  PROVE  Min({x, y}) \in Nat /\ Min({x, y}) <= x /\ Min({x, y}) <= y
<1>1. {x, y} \in SUBSET Nat /\ {x, y} # {}
  OBVIOUS
<1> DEFINE m == Min({x, y})
<1>2. m \in {x, y} /\ \A n \in {x, y} : m <= n
  BY <1>1, MinOfNats
<1> HIDE DEF m
<1>3. m \in Nat /\ m <= x /\ m <= y
  BY <1>2
<1>4. QED
  BY <1>3 DEF m

(* A slot wants its pending prompt, or at most one row.                    *)
LEMMA WantedBound ==
  ASSUME NEW q, Pending(q) \in Nat
  PROVE  /\ Wanted(q) \in Nat
         /\ Pending(q) > 0 => Wanted(q) <= Pending(q)
         /\ Pending(q) = 0 => Wanted(q) \in {0, 1}
<1> DEFINE n == Pending(q)
           w == Wanted(q)
<1>1. \/ n > 0 /\ w = n
      \/ ~(n > 0) /\ w \in {0, 1}
  BY DEF Wanted
<1> HIDE DEF n, w
<1>2. n \in Nat => w \in Nat /\ (n > 0 => w <= n) /\ (n = 0 => w \in {0, 1})
  BY <1>1
<1>3. QED
  BY <1>2 DEF n, w

(* What the invariant says of one live sequence, and of the rows it may    *)
(* ask for.                                                                *)
LEMMA SequenceFacts ==
  ASSUME TypeOK, OneTokenBehind, NEW s \in Live
  PROVE  /\ s \in Slot
         /\ seqs[s] \in SeqState
         /\ seqs[s].prompt \in Prompts /\ seqs[s].prompt \in Seq(Token)
         /\ seqs[s].gen \in Seq(Token)
         /\ seqs[s].len \in Nat
         /\ seqs[s].table \in [1 .. MaxPages -> Page]
         /\ Len(seqs[s].prompt) \in Nat \ {0}
         /\ Len(seqs[s].gen) \in Nat
         /\ seqs[s].gen # <<>> => Len(seqs[s].gen) > 0
         /\ Tokens(seqs[s]) \in Seq(Token)
         /\ Len(Tokens(seqs[s])) = Len(seqs[s].prompt) + Len(seqs[s].gen)
         /\ Wanted(seqs[s]) \in Nat
         /\ seqs[s].len + Wanted(seqs[s]) <= Len(Tokens(seqs[s]))
<1>1. s \in Slot
  BY SlotFacts DEF TypeOK, Live, Slot
<1>2. seqs[s] \in SeqState /\ seqs[s].prompt \in Prompts
  BY <1>1 DEF TypeOK, OneTokenBehind
<1>3. seqs[s].prompt \in Seq(Token) /\ Len(seqs[s].prompt) \in Nat \ {0}
  BY <1>2, PromptFacts, BatchingAssumption, EngineAssumption
<1>4. /\ seqs[s].gen \in Seq(Token) /\ seqs[s].len \in Nat
      /\ seqs[s].table \in [1 .. MaxPages -> Page]
  BY <1>2 DEF SeqState
<1>5. Len(seqs[s].gen) \in Nat /\ (seqs[s].gen # <<>> => Len(seqs[s].gen) > 0)
  BY <1>4, EmptySeq, LenProperties
<1>6. /\ Tokens(seqs[s]) \in Seq(Token)
      /\ Len(Tokens(seqs[s])) = Len(seqs[s].prompt) + Len(seqs[s].gen)
  BY <1>3, <1>4, ConcatProperties DEF Tokens
<1> DEFINE q == seqs[s]
           p == Len(q.prompt)
           g == Len(q.gen)
           t == Len(Tokens(q))
           l == q.len
           w == Wanted(q)
<1>7. w \in Nat /\ l + w <= t
  <2>1. p \in Nat /\ g \in Nat /\ l \in Nat /\ t = p + g
    BY <1>3, <1>4, <1>5, <1>6
  <2>2. CASE q.gen = <<>>
    <3>1. l < p /\ Pending(q) = p - l
      BY <2>2 DEF OneTokenBehind, Pending
    <3>2. p - l \in Nat /\ p - l > 0
      BY <2>1, <3>1
    <3>3. w \in Nat /\ w <= p - l
      BY <3>1, <3>2, WantedBound
    <3> HIDE DEF w, p, g, t, l, q
    <3>4. QED
      BY <2>1, <3>1, <3>3
  <2>3. CASE q.gen # <<>>
    <3>1. l = t - 1 /\ Pending(q) = 0
      BY <2>3 DEF OneTokenBehind, Pending
    <3>2. w \in {0, 1}
      BY <3>1, WantedBound
    <3> HIDE DEF w, p, g, t, l, q
    <3>3. QED
      BY <2>1, <3>1, <3>2
  <2>4. QED
    BY <2>2, <2>3
<1>8. QED
  BY <1>1, <1>2, <1>3, <1>4, <1>5, <1>6, <1>7

Takes(b) == [s \in Slot |-> b[s] - b[s + 1]]

(* A slot never takes more rows than it asks for.                          *)
LEMMA TakeFacts ==
  ASSUME TypeOK, OneTokenBehind, NEW b \in Budgets(Wants), NEW s \in Live
  PROVE  Takes(b)[s] \in 0 .. Wanted(seqs[s])
<1> DEFINE m == Min({Wanted(seqs[s]), b[s]})
<1>1. /\ s \in Slot /\ s \in 1 .. Capacity /\ Capacity \in Nat
      /\ Wanted(seqs[s]) \in Nat
      /\ PrefillRows \in Nat
  BY SequenceFacts, SlotFacts, BatchingAssumption, EngineAssumption DEF Slot
<1>2. b[s] \in Nat /\ b[s + 1] = b[s] - m
  BY <1>1 DEF Budgets, Wants
<1>3. m \in Nat /\ m <= Wanted(seqs[s])
  BY <1>1, <1>2, MinPair
<1> HIDE DEF m
<1>4. Takes(b)[s] = m
  BY <1>1, <1>2, <1>3 DEF Takes
<1>5. QED
  BY <1>1, <1>3, <1>4

(* Every row a step stores has a context among the sequence's tokens.      *)
LEMMA RowContext ==
  ASSUME TypeOK, OneTokenBehind, NEW s \in Live, NEW n \in Nat,
         n < seqs[s].len + Wanted(seqs[s])
  PROVE  Context(seqs[s], n) \in Seq(Token)
<1>1. /\ Tokens(seqs[s]) \in Seq(Token)
      /\ seqs[s].len + Wanted(seqs[s]) <= Len(Tokens(seqs[s]))
      /\ seqs[s].len \in Nat /\ Wanted(seqs[s]) \in Nat
      /\ Len(Tokens(seqs[s])) \in Nat
  BY SequenceFacts, LenProperties
<1>2. n + 1 \in 0 .. Len(Tokens(seqs[s]))
  BY <1>1
<1>3. QED
  BY <1>1, <1>2, SubSeqProperties DEF Context

(* The KV stores of a step keep the pool's shape.                          *)
LEMMA StoredType ==
  ASSUME TypeOK, OneTokenBehind, NEW b \in Budgets(Wants)
  PROVE  Stored(Takes(b)) \in [Page -> [Offset -> Seq(Token)]]
<1> DEFINE take == Takes(b)
<1>1. ASSUME NEW s \in Live, NEW p, NEW o, NEW c \in StoredHere(s, take, p, o)
      PROVE  c \in Seq(Token)
  <2>1. PICK n \in seqs[s].len .. seqs[s].len + take[s] - 1 : c = Context(seqs[s], n)
    BY <1>1 DEF StoredHere
  <2>2. /\ take[s] \in 0 .. Wanted(seqs[s]) /\ Wanted(seqs[s]) \in Nat
        /\ seqs[s].len \in Nat
    BY TakeFacts, SequenceFacts
  <2> HIDE DEF take
  <2>3. n \in Nat /\ n < seqs[s].len + Wanted(seqs[s])
    BY <2>2
  <2>4. QED
    BY <2>1, <2>3, RowContext
<1> HIDE DEF take
<1>2. ASSUME NEW p \in Page, NEW o \in Offset
      PROVE  (LET ctxs == UNION {StoredHere(s, take, p, o) : s \in Live}
              IN  IF ctxs = {} THEN kv[p][o]
                  ELSE IF Cardinality(ctxs) = 1 THEN CHOOSE c \in ctxs : TRUE
                  ELSE Garbage) \in Seq(Token)
  <2> DEFINE ctxs == UNION {StoredHere(s, take, p, o) : s \in Live}
  <2>1. ctxs \subseteq Seq(Token)
    BY <1>1
  <2>2. kv[p][o] \in Seq(Token) /\ Garbage \in Seq(Token)
    BY EmptySeq DEF TypeOK, Garbage
  <2> HIDE DEF ctxs
  <2>3. ctxs # {} => (CHOOSE c \in ctxs : TRUE) \in Seq(Token)
    BY <2>1
  <2>4. (IF ctxs = {} THEN kv[p][o]
         ELSE IF Cardinality(ctxs) = 1 THEN CHOOSE c \in ctxs : TRUE
         ELSE Garbage) \in Seq(Token)
    BY <2>2, <2>3
  <2>5. QED
    BY <2>4 DEF ctxs
<1>3. Stored(take) \in [Page -> [Offset -> Seq(Token)]]
  BY <1>2 DEF Stored
<1>4. QED
  BY <1>3 DEF take

(* A hash that a step registers gets the page of a live prompt's table,    *)
(* one that this step materializes.                                        *)
LEMMA RegisteredFacts ==
  ASSUME TypeOK, OneTokenBehind, NEW take, NEW h \in Hashes
  PROVE  \/ Registered(take)[h] = cache[h]
         \/ /\ cache[h] = NoPage
            /\ \E s \in Live : \E i \in 1 .. FullPages(seqs[s].prompt) :
                 /\ s \in Materialized(take)
                 /\ h = Hash(seqs[s].prompt, i)
                 /\ i \in 1 .. MaxPages
                 /\ Registered(take)[h] = seqs[s].table[i]
<1> DEFINE writers == {s \in Materialized(take) : h \in Claims(seqs[s].prompt)}
           w == Min(writers)
<1>1. Registered(take)[h] = IF cache[h] # NoPage \/ writers = {} THEN cache[h]
                            ELSE seqs[w].table[Len(h) \div TokensPerPage]
  BY DEF Registered
<1>2. writers \subseteq Live
  BY DEF Materialized, Emits
<1>3. CASE cache[h] # NoPage \/ writers = {}
  BY <1>1, <1>3
<1>4. CASE cache[h] = NoPage /\ writers # {}
  <2>1. writers \in SUBSET Nat
    BY <1>2, SlotFacts, SequenceFacts
  <2>2. w \in writers
    BY <1>4, <2>1, MinOfNats
  <2>3. w \in Live /\ w \in Materialized(take) /\ h \in Claims(seqs[w].prompt)
    BY <1>2, <2>2
  <2>4. PICK i \in 1 .. FullPages(seqs[w].prompt) : h = Hash(seqs[w].prompt, i)
    BY <2>3 DEF Claims
  <2>5. Len(h) \div TokensPerPage = i /\ i \in 1 .. MaxPages
    BY <2>3, <2>4, HashFacts, SequenceFacts
  <2>6. Registered(take)[h] = seqs[w].table[i]
    BY <1>1, <1>4, <2>5
  <2> HIDE DEF w
  <2>7. QED
    BY <1>4, <2>3, <2>4, <2>5, <2>6
<1>5. QED
  BY <1>3, <1>4

(* A step leaves a sequence one token behind again, or in its prompt.      *)
LEMMA AdvancedFacts ==
  ASSUME TypeOK, OneTokenBehind, NEW b \in Budgets(Wants), NEW s \in Live,
         NEW token \in [Emits(Takes(b)) -> Token],
         NEW fin
  PROVE  LET q == Advanced(s, Takes(b), token, fin)
         IN  /\ q \in SeqState
             /\ q.prompt = seqs[s].prompt /\ q.table = seqs[s].table
             /\ q.gen = <<>> => q.len < Len(q.prompt)
             /\ q.gen # <<>> => q.len = Len(Tokens(q)) - 1
<1> DEFINE take == Takes(b)
           old == seqs[s]
           q == Advanced(s, take, token, fin)
           emits == s \in Emits(take)
           gen == IF emits THEN Append(old.gen, token[s]) ELSE old.gen
<1>1. /\ old \in SeqState /\ old.prompt \in Prompts /\ old.prompt \in Seq(Token)
      /\ old.gen \in Seq(Token) /\ old.len \in Nat
      /\ Len(old.prompt) \in Nat \ {0} /\ Len(old.gen) \in Nat
      /\ Len(Tokens(old)) = Len(old.prompt) + Len(old.gen)
      /\ take[s] \in 0 .. Wanted(old) /\ Wanted(old) \in Nat
  BY SequenceFacts, TakeFacts
<1>2. emits => token[s] \in Token
  OBVIOUS
<1>3. emits <=> take[s] > 0 /\ (old.gen = <<>> => take[s] = Pending(old))
  BY DEF Emits
<1> HIDE DEF take, emits
<1>4. /\ emits => gen \in Seq(Token) /\ Len(gen) = Len(old.gen) + 1 /\ gen # <<>>
      /\ ~emits => gen = old.gen
  BY <1>1, <1>2, AppendProperties
<1>5. gen \in Seq(Token)
  BY <1>1, <1>4
<1> HIDE DEF gen
<1>6. /\ q.prompt = old.prompt /\ q.table = old.table /\ q.maxNew = old.maxNew
      /\ q.gen = gen /\ q.len = old.len + take[s]
      /\ q \in SeqState
  <2>1. q = [old EXCEPT !.len = old.len + take[s], !.gen = gen,
                        !.ended = s \in fin.outputs \cup fin.limit]
    BY <1>1 DEF Advanced, SeqState, gen, emits, take
  <2>2. old.len + take[s] \in Nat
    BY <1>1
  <2> DEFINE n == old.len + take[s]
             e == s \in fin.outputs \cup fin.limit
  <2>3. q = [old EXCEPT !.len = n, !.gen = gen, !.ended = e] /\ n \in Nat
    BY <2>1, <2>2
  <2>4. old \in [prompt : Prompts \cup {<<>>}, gen : Seq(Token), len : Nat, maxNew : Nat,
                 ended : BOOLEAN, table : [1 .. MaxPages -> Page]]
    BY <1>1 DEF SeqState
  <2>5. e \in BOOLEAN
    OBVIOUS
  <2> HIDE DEF q, n, e, old
  <2>6. /\ q.prompt = old.prompt /\ q.table = old.table /\ q.maxNew = old.maxNew
        /\ q.gen = gen /\ q.len = n
        /\ q \in SeqState
    BY <1>5, <2>3, <2>4, <2>5 DEF SeqState
  <2>7. QED
    BY <2>6 DEF n
<1> HIDE DEF q
<1>7. Tokens(q) = old.prompt \o gen /\ Len(Tokens(q)) = Len(old.prompt) + Len(gen)
  BY <1>1, <1>5, <1>6, ConcatProperties DEF Tokens
<1> DEFINE p == Len(old.prompt)
           g == Len(old.gen)
           l == old.len
           n == take[s]
<1>8. /\ q.gen = <<>> => q.len < Len(q.prompt)
      /\ q.gen # <<>> => q.len = Len(Tokens(q)) - 1
  <2>1. /\ p \in Nat \ {0} /\ g \in Nat /\ l \in Nat
        /\ n \in 0 .. Wanted(old) /\ Wanted(old) \in Nat
        /\ Len(Tokens(old)) = p + g
        /\ Len(Tokens(q)) = p + Len(gen)
        /\ q.len = l + n /\ Len(q.prompt) = p /\ q.gen = gen
    BY <1>1, <1>6, <1>7
  <2>2. /\ emits <=> n > 0 /\ (old.gen = <<>> => n = Pending(old))
        /\ emits => Len(gen) = g + 1 /\ gen # <<>>
        /\ ~emits => gen = old.gen
    BY <1>3, <1>4
  <2>3. CASE old.gen = <<>>
    <3>1. l < p /\ Pending(old) = p - l
      BY <2>3 DEF OneTokenBehind, Pending
    <3>2. p - l \in Nat /\ p - l > 0
      BY <2>1, <3>1
    <3>3. g = 0
      BY <2>3
    <3>4. Wanted(old) <= p - l
      BY <3>1, <3>2, WantedBound
    <3> HIDE DEF p, g, l, n, old
    <3>5. CASE n = p - l
      <4>1. Len(gen) = 1 /\ gen # <<>>
        BY <2>1, <2>2, <3>1, <3>3, <3>5
      <4>2. QED
        BY <2>1, <3>5, <4>1
    <3>6. CASE n # p - l
      <4>1. gen = <<>>
        BY <2>2, <2>3, <3>1, <3>6
      <4>2. l + n < p
        BY <2>1, <3>1, <3>4, <3>6
      <4>3. QED
        BY <2>1, <4>1, <4>2
    <3>7. QED
      BY <3>5, <3>6
  <2>4. CASE old.gen # <<>>
    <3>1. l = Len(Tokens(old)) - 1 /\ Pending(old) = 0
      BY <2>4 DEF OneTokenBehind, Pending
    <3>2. Wanted(old) \in {0, 1}
      BY <3>1, WantedBound
    <3>3. g = Len(old.gen)
      OBVIOUS
    <3> HIDE DEF p, g, l, n, old
    <3>5. CASE n = 0
      <4>1. gen = old.gen
        BY <2>2, <3>5
      <4>2. QED
        BY <2>1, <2>4, <3>1, <3>3, <3>5, <4>1
    <3>6. CASE n = 1
      <4>1. Len(gen) = g + 1 /\ gen # <<>>
        BY <2>2, <2>4, <3>6
      <4>2. QED
        BY <2>1, <3>1, <3>6, <4>1
    <3>7. n = 0 \/ n = 1
      BY <2>1, <3>2
    <3>8. QED
      BY <3>5, <3>6, <3>7
  <2>5. QED
    BY <2>3, <2>4
<1>9. QED
  BY <1>6, <1>8 DEF q, take

(* A step preserves the invariant, and changes no table, page ownership or *)
(* slot.                                                                   *)
LEMMA StepFacts ==
  ASSUME TypeInv, Step
  PROVE  /\ TypeInv'
         /\ Live' = Live
         /\ \A s \in Live : /\ seqs'[s].prompt = seqs[s].prompt
                           /\ seqs'[s].table = seqs[s].table
         /\ \E take : cache' = Registered(take)
         /\ UNCHANGED <<free, panicked>>
<1>1. TypeOK /\ OneTokenBehind /\ HandlersExclude /\ Idle
  BY DEF TypeInv, Step
<1>2. PICK b \in Budgets(Wants) :
        \E token \in [Emits(Takes(b)) -> Token], stop \in SUBSET Emits(Takes(b)) :
          Forward(Takes(b), token, stop)
  BY DEF Step, Takes
<1> DEFINE take == Takes(b)
<1>3. PICK token \in [Emits(take) -> Token], stop \in SUBSET Emits(take) :
        Forward(take, token, stop)
  BY <1>2
<1> DEFINE fin == Finishing(take, stop)
<1>4. /\ seqs' = [s \in Slot |-> IF s \in Live THEN Advanced(s, take, token, fin)
                                 ELSE seqs[s]]
      /\ kv' = Stored(take)
      /\ cache' = Registered(take)
      /\ done' = fin
      /\ UNCHANGED <<active, free, retired, dev, admitting, evicting, panicked>>
  BY <1>3 DEF Forward
<1>5. Live' = Live
  BY <1>4 DEF Live
<1>6. ASSUME NEW s \in Live
      PROVE  /\ seqs'[s] \in SeqState
             /\ seqs'[s].prompt = seqs[s].prompt
             /\ seqs'[s].table = seqs[s].table
             /\ seqs'[s].gen = <<>> => seqs'[s].len < Len(seqs'[s].prompt)
             /\ seqs'[s].gen # <<>> => seqs'[s].len = Len(Tokens(seqs'[s])) - 1
  <2>1. seqs'[s] = Advanced(s, take, token, fin)
    BY <1>1, <1>4, SequenceFacts
  <2>2. token \in [Emits(Takes(b)) -> Token]
    OBVIOUS
  <2> DEFINE a == Advanced(s, Takes(b), token, fin)
  <2> HIDE DEF fin
  <2>3. /\ a \in SeqState
        /\ a.prompt = seqs[s].prompt /\ a.table = seqs[s].table
        /\ a.gen = <<>> => a.len < Len(a.prompt)
        /\ a.gen # <<>> => a.len = Len(Tokens(a)) - 1
    BY <1>1, <2>2, AdvancedFacts
  <2>4. seqs'[s] = a
    BY <2>1
  <2> HIDE DEF a
  <2>5. QED
    BY <2>3, <2>4
<1>7. seqs' \in [Slot -> SeqState]
  <2>1. \A s \in Slot : seqs'[s] \in SeqState
    BY <1>1, <1>4, <1>6 DEF TypeOK
  <2>2. DOMAIN seqs' = Slot /\ seqs' = [s \in Slot |-> seqs'[s]]
    BY <1>4
  <2>3. QED
    BY <2>1, <2>2
<1>8. cache' \in [Hashes -> Page \cup {NoPage}]
  <2>1. ASSUME NEW h \in Hashes PROVE Registered(take)[h] \in Page \cup {NoPage}
    <3>1. cache[h] \in Page \cup {NoPage}
      BY <1>1 DEF TypeOK
    <3>2. \A s \in Live : \A i \in 1 .. MaxPages : seqs[s].table[i] \in Page
      BY <1>1, SequenceFacts
    <3> HIDE DEF take
    <3>3. QED
      BY <1>1, <3>1, <3>2, RegisteredFacts
  <2>2. cache' = [h \in Hashes |-> Registered(take)[h]]
    BY <1>4 DEF Registered
  <2>3. QED
    BY <1>4, <2>1, <2>2
<1>9. done' \in [outputs : SUBSET Slot, limit : SUBSET Slot]
  <2>1. Live \subseteq Slot
    BY <1>1, SequenceFacts
  <2>2. fin.outputs \subseteq Live /\ fin.limit \subseteq Live
    BY DEF Finishing, Emits
  <2>3. fin = [outputs |-> fin.outputs, limit |-> fin.limit]
    BY DEF Finishing
  <2> HIDE DEF fin
  <2>4. QED
    BY <1>4, <2>1, <2>2, <2>3
<1>10. kv' \in [Page -> [Offset -> Seq(Token)]]
  BY <1>1, <1>4, StoredType
<1>11. TypeOK'
  BY <1>1, <1>4, <1>7, <1>8, <1>9, <1>10 DEF TypeOK
<1>12. OneTokenBehind'
  BY <1>1, <1>5, <1>6 DEF OneTokenBehind
<1>13. HandlersExclude'
  BY <1>1, <1>4 DEF HandlersExclude, Idle
<1>14. QED
  BY <1>4, <1>5, <1>6, <1>11, <1>12, <1>13 DEF TypeInv

(* Every step of the engine preserves the invariant.                       *)
LEMMA TypeNext == TypeInv /\ [Next]_vars => TypeInv'
<1> SUFFICES ASSUME TypeInv, [Next]_vars PROVE TypeInv'
  OBVIOUS
<1>1. ASSUME NEW r \in Request, Add(r) PROVE TypeInv'
  BY <1>1, TypeAdd
<1>2. ASSUME NEW fresh \in Injection(Fresh(admitting.prompt), free), Install(fresh)
      PROVE TypeInv'
  BY <1>2, TypeInstall
<1>3. ASSUME NEW fresh \in Injection(Fresh(admitting.prompt), free), InstallFails(fresh)
      PROVE TypeInv'
  BY <1>3, TypeInstallFails
<1>4. ASSUME NEW fresh \in Injection(Backed(admitting.prompt), free), RetryAdmission(fresh)
      PROVE TypeInv'
  BY <1>4, TypeRetryAdmission
<1>5. CASE Step
  BY <1>5, StepFacts
<1>6. ASSUME NEW part \in {"outputs", "limit"}, NEW s \in Slot, FinishNext(part, s)
      PROVE TypeInv'
  BY <1>6, TypeFinishNext
<1>7. ASSUME NEW s \in Slot, Cancel(s) PROVE TypeInv'
  BY <1>7, TypeCancel
<1>8. CASE TrimRetired
  BY <1>8, TypeTrimRetired
<1>9. CASE UNCHANGED vars
  BY <1>9 DEF vars, TypeInv, TypeOK, OneTokenBehind, HandlersExclude, Live
<1>10. QED
  BY <1>1, <1>2, <1>3, <1>4, <1>5, <1>6, <1>7, <1>8, <1>9 DEF Next

(* Every state of the engine is well typed, whatever the capacity, page    *)
(* size, prompts, sampled tokens and order of calls: block tables, cache   *)
(* and free list never hold an id outside the pool.                        *)
THEOREM TypeCorrect == Spec => []TypeOK
<1>1. TypeInv => TypeOK
  BY DEF TypeInv
<1>2. QED
  BY <1>1, TypeInit, TypeNext, PTL DEF Spec

(* No chunk boundary, prefix reuse, rewind or compaction makes step skip a *)
(* token of a sequence or feed one twice.                                  *)
THEOREM NeverSkipsAToken == Spec => []OneTokenBehind
<1>1. TypeInv => OneTokenBehind
  BY DEF TypeInv
<1>2. QED
  BY <1>1, TypeInit, TypeNext, PTL DEF Spec

(***************************************************************************)
(* Retirement: when no request can outgrow the context, every sequence     *)
(* that ends leaves, and done_slots never names a slot that has moved.     *)
(***************************************************************************)

(* The slots that ended are still to be finished; all others have budget.  *)
EndedInv ==
  /\ panicked # "finish_range"
  /\ done.limit = {} /\ done.outputs \subseteq Live
  /\ \A s \in Live :
       /\ seqs[s].ended => s \in done.outputs
       /\ seqs[s].gen # <<>> /\ ~seqs[s].ended => Len(seqs[s].gen) < seqs[s].maxNew
       /\ Len(seqs[s].prompt) + seqs[s].maxNew <= MaxSeq + 1

(* A new engine has no slot to finish.                                     *)
LEMMA EndedInit == Init => EndedInv
<1> SUFFICES ASSUME Init PROVE EndedInv
  OBVIOUS
<1>1. active = 0 /\ done = [outputs |-> {}, limit |-> {}] /\ panicked = "none"
  BY DEF Init, NoneDone
<1>2. Live = {}
  BY <1>1 DEF Live
<1>3. QED
  BY <1>1, <1>2 DEF EndedInv

(* Steps that change neither the sequences nor what is left to finish.     *)
LEMMA EndedUnchanged ==
  ASSUME EndedInv, UNCHANGED <<seqs, active, done>>, panicked' # "finish_range"
  PROVE  EndedInv'
BY DEF EndedInv, Live

(* An admitted sequence has not ended and has its whole budget.            *)
LEMMA EndedInstall ==
  ASSUME TypeInv, EndedInv, WithinContext,
         NEW fresh \in Injection(Fresh(admitting.prompt), free), Install(fresh)
  PROVE  EndedInv'
<1> DEFINE p == admitting.prompt
           slot == active + 1
           table == [i \in 1 .. MaxPages |->
                       IF i \in Aliased(p) THEN cache[Hash(p, i)] ELSE fresh[i]]
           new == [prompt |-> p, gen |-> <<>>, len |-> ReusedTokens(p),
                   maxNew |-> admitting.maxNew, ended |-> FALSE, table |-> table]
<1>1. TypeOK /\ OneTokenBehind /\ HandlersExclude /\ admitting # NoRequest
  BY DEF TypeInv, Install
<1>2. slot \in Slot /\ slot \notin Live
  BY <1>1, SlotFacts DEF TypeOK, HandlersExclude, Slot, Live
<1>3. /\ seqs' = [seqs EXCEPT ![slot] = new]
      /\ active' = slot
      /\ UNCHANGED <<done, panicked>>
  BY <1>1, PlannedWhole DEF Install
<1>4. Live' = Live \cup {slot}
  BY <1>1, <1>2, <1>3 DEF Live, TypeOK, Slot
<1>5. /\ \A s \in Live : seqs'[s] = seqs[s]
      /\ seqs'[slot] = new
  BY <1>1, <1>2, <1>3, SequenceFacts DEF TypeOK
<1>6. Len(new.prompt) + new.maxNew <= MaxSeq + 1 /\ ~new.ended /\ new.gen = <<>>
  BY <1>1 DEF TypeOK, WithinContext
<1> HIDE DEF new, slot
<1>7. QED
  BY <1>3, <1>4, <1>5, <1>6 DEF EndedInv

(* finish moves the slots above the finished one, none of which is named   *)
(* by what is left of done_slots.                                          *)
LEMMA EndedFinish ==
  ASSUME TypeInv, EndedInv, NEW s \in Live, Finish(s),
         done' = [done EXCEPT !.outputs = @ \ {s}],
         \A t \in done.outputs : t <= s
  PROVE  EndedInv'
<1>1. /\ active \in Nat /\ active' = active - 1 /\ s \in Slot /\ TypeOK
      /\ \A i \in Live' : Source(s, i) \in Live \ {s} /\ seqs'[i] = seqs[Source(s, i)]
  BY FinishShift DEF TypeInv
<1>2. done'.limit = {} /\ done'.outputs = done.outputs \ {s}
  BY <1>1 DEF TypeOK, EndedInv
<1>3. done'.outputs \subseteq Live'
  BY <1>1, <1>2 DEF EndedInv, Live
<1>4. panicked' # "finish_range"
  BY DEF Finish, EndedInv
<1>5. ASSUME NEW i \in Live', seqs'[i].ended PROVE i \in done'.outputs
  <2>1. Source(s, i) \in done.outputs /\ Source(s, i) # s
    BY <1>1, <1>5 DEF EndedInv
  <2>2. Source(s, i) <= s /\ i \in Nat /\ s \in Nat
    BY <1>1, <2>1, SlotFacts DEF Live
  <2>3. Source(s, i) = i
    BY <2>1, <2>2 DEF Source
  <2>4. QED
    BY <1>2, <2>1, <2>3
<1>6. QED
  BY <1>1, <1>2, <1>3, <1>4, <1>5 DEF EndedInv

(* A step ends a sequence only through done_slots: one that samples below  *)
(* its budget, or waits for rows, is short of the context limit.           *)
LEMMA EndedStep ==
  ASSUME TypeInv, EndedInv, Step
  PROVE  EndedInv'
<1>1. /\ TypeOK /\ OneTokenBehind /\ panicked = "none"
      /\ \A s \in Live : ~seqs[s].ended
  BY DEF TypeInv, EndedInv, Step, Idle, NoneDone
<1>2. PICK b \in Budgets(Wants) :
        \E token \in [Emits(Takes(b)) -> Token], stop \in SUBSET Emits(Takes(b)) :
          Forward(Takes(b), token, stop)
  BY DEF Step, Takes
<1> DEFINE take == Takes(b)
<1>3. PICK token \in [Emits(take) -> Token], stop \in SUBSET Emits(take) :
        Forward(take, token, stop)
  BY <1>2
<1> DEFINE fin == Finishing(take, stop)
<1>4. /\ seqs' = [s \in Slot |-> IF s \in Live THEN Advanced(s, take, token, fin)
                                 ELSE seqs[s]]
      /\ done' = fin
      /\ active' = active /\ panicked' = panicked
  BY <1>3 DEF Forward
<1>5. Live' = Live
  BY <1>4 DEF Live
<1>6. /\ fin.outputs = {s \in Emits(take) : \/ s \in stop
                                            \/ Len(seqs[s].gen) + 1 >= seqs[s].maxNew}
      /\ fin.limit = {s \in Live : /\ s \in Emits(take) \/ seqs[s].gen # <<>>
                                   /\ seqs[s].len + take[s] >= MaxSeq} \ fin.outputs
  BY DEF Finishing
<1>7. ASSUME NEW s \in Live
      PROVE  /\ s \in Slot
             /\ seqs'[s].prompt = seqs[s].prompt /\ seqs'[s].maxNew = seqs[s].maxNew
             /\ seqs'[s].ended = (s \in fin.outputs \cup fin.limit)
             /\ seqs'[s].gen = IF s \in Emits(take) THEN Append(seqs[s].gen, token[s])
                               ELSE seqs[s].gen
  <2>1. s \in Slot /\ seqs[s] \in SeqState
    BY <1>1, SequenceFacts
  <2>2. seqs'[s] = Advanced(s, take, token, fin)
    BY <1>4, <2>1
  <2> HIDE DEF take, fin
  <2>3. QED
    BY <2>1, <2>2 DEF Advanced, SeqState
<1> DEFINE p(s) == Len(seqs[s].prompt)
           g(s) == Len(seqs[s].gen)
           l(s) == seqs[s].len
           m(s) == seqs[s].maxNew
           n(s) == take[s]
<1>8. ASSUME NEW s \in Live
      PROVE  /\ p(s) \in Nat /\ g(s) \in Nat /\ l(s) \in Nat /\ m(s) \in Nat /\ n(s) \in Nat
             /\ seqs[s].gen \in Seq(Token)
             /\ seqs[s].gen = <<>> => g(s) = 0 /\ n(s) <= p(s) - l(s)
             /\ seqs[s].gen # <<>> => n(s) <= 1 /\ g(s) < m(s) /\ l(s) = p(s) + g(s) - 1
             /\ p(s) + m(s) <= MaxSeq + 1
  <2>1. /\ n(s) \in 0 .. Wanted(seqs[s]) /\ Wanted(seqs[s]) \in Nat
        /\ l(s) \in Nat /\ p(s) \in Nat /\ g(s) \in Nat
        /\ seqs[s].gen \in Seq(Token)
        /\ Len(Tokens(seqs[s])) = p(s) + g(s)
    BY <1>1, SequenceFacts, TakeFacts
  <2>2. m(s) \in Nat
    BY <1>1, SequenceFacts DEF SeqState
  <2>3. p(s) + m(s) <= MaxSeq + 1 /\ (seqs[s].gen # <<>> => g(s) < m(s))
    BY <1>1 DEF EndedInv
  <2>4. CASE seqs[s].gen = <<>>
    <3>1. Pending(seqs[s]) = p(s) - l(s) /\ l(s) < p(s)
      BY <1>1, <2>4 DEF Pending, OneTokenBehind
    <3>2. g(s) = 0
      BY <2>4
    <3> HIDE DEF p, g, l, m, n
    <3>3. Pending(seqs[s]) > 0
      BY <2>1, <3>1
    <3>4. Wanted(seqs[s]) = p(s) - l(s)
      BY <3>1, <3>3 DEF Wanted
    <3>5. n(s) <= p(s) - l(s) /\ n(s) \in Nat
      BY <2>1, <3>4
    <3>6. QED
      BY <2>1, <2>2, <2>3, <2>4, <3>2, <3>5
  <2>5. CASE seqs[s].gen # <<>>
    <3>1. Pending(seqs[s]) = 0 /\ l(s) = Len(Tokens(seqs[s])) - 1
      BY <1>1, <2>5 DEF Pending, OneTokenBehind
    <3> HIDE DEF p, g, l, m, n
    <3>2. Wanted(seqs[s]) \in {0, 1}
      BY <3>1, WantedBound
    <3>3. n(s) <= 1 /\ n(s) \in Nat /\ l(s) = p(s) + g(s) - 1
      BY <2>1, <3>1, <3>2
    <3>4. QED
      BY <2>1, <2>2, <2>3, <2>5, <3>3
  <2>6. QED
    BY <2>4, <2>5
<1>9. /\ fin.outputs = {s \in Emits(take) : s \in stop \/ g(s) + 1 >= m(s)}
      /\ fin.limit = {s \in Live : /\ s \in Emits(take) \/ seqs[s].gen # <<>>
                                   /\ l(s) + n(s) >= MaxSeq} \ fin.outputs
      /\ \A s \in Live \ Emits(take) : n(s) > 0 => seqs[s].gen = <<>>
  BY <1>6, <1>8 DEF Emits
<1> HIDE DEF take, fin, p, g, l, m, n
<1>10. fin.limit = {}
  <2> SUFFICES ASSUME NEW s \in Live, s \in Emits(take) \/ seqs[s].gen # <<>>,
                      l(s) + n(s) >= MaxSeq, s \notin fin.outputs
               PROVE  FALSE
    BY <1>9
  <2>1. CASE s \in Emits(take)
    <3>1. g(s) + 1 < m(s)
      BY <1>8, <1>9, <2>1
    <3>2. QED
      BY <1>8, <3>1, BatchingAssumption
  <2>2. CASE s \notin Emits(take)
    <3>1. seqs[s].gen # <<>> /\ ~(n(s) > 0) /\ n(s) \in Nat
      <4>1. seqs[s].gen # <<>>
        BY <2>2
      <4>2. n(s) > 0 => seqs[s].gen = <<>>
        BY <1>9, <2>2
      <4>3. n(s) \in Nat
        BY <1>8
      <4>4. QED
        BY <4>1, <4>2, <4>3
    <3>2. QED
      BY <1>8, <3>1, BatchingAssumption
  <2>3. QED
    BY <2>1, <2>2
<1>11. ASSUME NEW s \in Live, seqs'[s].gen # <<>>, ~seqs'[s].ended
       PROVE  Len(seqs'[s].gen) < seqs'[s].maxNew
  <2>1. CASE s \in Emits(take)
    <3>1. g(s) + 1 < m(s)
      <4>1. s \notin fin.outputs
        BY <1>7, <1>11
      <4>2. ~(g(s) + 1 >= m(s))
        BY <1>9, <2>1, <4>1
      <4>3. QED
        BY <1>8, <4>2
    <3>2. token[s] \in Token
      BY <2>1
    <3>3. Len(Append(seqs[s].gen, token[s])) = g(s) + 1
      BY <1>8, <3>2, AppendProperties DEF g
    <3>4. QED
      BY <1>7, <2>1, <3>1, <3>3 DEF m
  <2>2. CASE s \notin Emits(take)
    BY <1>7, <1>8, <1>11, <2>2 DEF g, m
  <2>3. QED
    BY <2>1, <2>2
<1>12. fin.outputs \subseteq Live
  BY <1>9 DEF Emits
<1>13. QED
  BY <1>1, <1>4, <1>5, <1>7, <1>8, <1>10, <1>11, <1>12 DEF EndedInv, p, m

(* Every step of the engine preserves it.                                  *)
LEMMA EndedNext == WithinContext /\ TypeInv /\ EndedInv /\ [Next]_vars => EndedInv'
<1> SUFFICES ASSUME WithinContext, TypeInv, EndedInv, [Next]_vars PROVE EndedInv'
  OBVIOUS
<1>0. panicked # "finish_range" /\ done.limit = {} /\ done \in [outputs : SUBSET Slot, limit : SUBSET Slot]
  BY DEF EndedInv, TypeInv, TypeOK
<1>1. ASSUME NEW r \in Request, Add(r) PROVE EndedInv'
  BY <1>0, <1>1, EndedUnchanged DEF Add
<1>2. ASSUME NEW fresh \in Injection(Fresh(admitting.prompt), free), Install(fresh)
      PROVE EndedInv'
  BY <1>2, EndedInstall
<1>3. ASSUME NEW fresh \in Injection(Fresh(admitting.prompt), free), InstallFails(fresh)
      PROVE EndedInv'
  BY <1>0, <1>3, InstallFailsFacts, EndedUnchanged DEF TypeInv
<1>4. ASSUME NEW fresh \in Injection(Backed(admitting.prompt), free), RetryAdmission(fresh)
      PROVE EndedInv'
  BY <1>0, <1>4, RetryFacts, EndedUnchanged DEF TypeInv, DropOldest
<1>5. CASE Step
  BY <1>5, EndedStep
<1>6. ASSUME NEW part \in {"outputs", "limit"}, NEW s \in Slot, FinishNext(part, s)
      PROVE EndedInv'
  <2>1. /\ part = "outputs" /\ s \in done.outputs /\ \A t \in done.outputs : t <= s
        /\ done' = [done EXCEPT !.outputs = @ \ {s}]
    BY <1>0, <1>6 DEF FinishNext, NextDone
  <2>2. s \in Live
    BY <2>1 DEF EndedInv
  <2>3. Finish(s)
    BY <1>6, <2>2 DEF FinishNext, Live
  <2>4. QED
    BY <2>1, <2>2, <2>3, EndedFinish
<1>7. ASSUME NEW s \in Slot, Cancel(s) PROVE EndedInv'
  <2>1. /\ s \in Live /\ Finish(s) /\ done' = done
        /\ done = [outputs |-> {}, limit |-> {}]
    BY <1>7 DEF Cancel, Idle, NoneDone
  <2>2. done' = [done EXCEPT !.outputs = @ \ {s}]
    BY <2>1
  <2>3. QED
    BY <2>1, <2>2, EndedFinish
<1>8. CASE TrimRetired
  BY <1>0, <1>8, EndedUnchanged DEF TrimRetired, DropOldest
<1>9. CASE UNCHANGED vars
  BY <1>0, <1>9, EndedUnchanged DEF vars
<1>10. QED
  BY <1>1, <1>2, <1>3, <1>4, <1>5, <1>6, <1>7, <1>8, <1>9 DEF Next

(* WithinContext names no variable: it holds throughout or never.          *)
LEMMA EndedAlways == Spec => [](WithinContext => EndedInv)
<1>1. Init => TypeInv /\ (WithinContext => EndedInv)
  BY TypeInit, EndedInit
<1>2. TypeInv /\ (WithinContext => EndedInv) /\ [Next]_vars
        => (TypeInv /\ (WithinContext => EndedInv))'
  BY TypeNext, EndedNext DEF WithinContext
<1>3. QED
  BY <1>1, <1>2, PTL DEF Spec

(* No ended sequence keeps a slot, and none is finished in its place,      *)
(* while every request's prompt and budget fit the context.                *)
THEOREM NoEndedSequenceStays == Spec => []EndedLeaves
<1>1. (WithinContext => EndedInv) => EndedLeaves
  BY DEF EndedLeaves, EndedInv, Idle, NoneDone
<1>2. QED
  BY <1>1, EndedAlways, PTL

(* Under that condition the assertion of finish holds: the panic that      *)
(* FinishInRange finds needs a request that outgrows the context.          *)
THEOREM FinishHoldsWithinContext == Spec => [](WithinContext => FinishInRange)
<1>1. (WithinContext => EndedInv) => (WithinContext => FinishInRange)
  BY DEF EndedInv, FinishInRange
<1>2. QED
  BY <1>1, EndedAlways, PTL
=============================================================================
