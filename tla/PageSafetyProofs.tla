-------------------------- MODULE PageSafetyProofs --------------------------
(***************************************************************************)
(* PageSafety of the paged engine for every capacity, page size, pool,     *)
(* prompt set and schedule.  It is inductive together with TypeInv: what   *)
(* makes a registered page safe to alias (SharedOnlyByPrefix) is what      *)
(* makes finish and eviction free only pages nobody holds.  Over it come   *)
(* the accounts of the pool (PoolInv): a page that is not free is held by  *)
(* a live table or the cache, and what the cache holds can be recovered.   *)
(***************************************************************************)
EXTENDS PagedEngineProofs

(* The statements of PageSafety, at the points where the proofs use them.  *)
LEMMA SafetyFacts ==
  ASSUME TypeInv, PageSafety
  PROVE  /\ \A s \in Live : \A i \in 1 .. MaxPages :
              /\ seqs[s].table[i] \in Page
              /\ seqs[s].table[i] \notin free
              /\ seqs[s].table[i] \in Referenced
         /\ \A s \in Live : \A i, j \in 1 .. MaxPages :
              seqs[s].table[i] = seqs[s].table[j] => i = j
         /\ \A s \in Live : seqs[s].prompt \in Prompts
<1>1. TypeOK /\ OneTokenBehind
  BY DEF TypeInv
<1>2. \A s \in Live : /\ seqs[s].table \in [1 .. MaxPages -> Page]
                      /\ seqs[s].prompt \in Prompts
  BY <1>1, SequenceFacts
<1>3. \A s \in Live : \A i \in 1 .. MaxPages : seqs[s].table[i] \in Range(seqs[s].table)
  BY <1>2 DEF Range
<1>4. \A s \in Live : /\ Range(seqs[s].table) \cap free = {}
                      /\ IsInjective(seqs[s].table)
  BY DEF PageSafety, NoDanglingPage
<1>5. \A s \in Live : \A i \in 1 .. MaxPages : seqs[s].table[i] \in Referenced
  BY <1>3 DEF Referenced
<1>6. \A s \in Live : \A i, j \in 1 .. MaxPages :
        seqs[s].table[i] = seqs[s].table[j] => i = j
  BY <1>2, <1>4 DEF IsInjective
<1>7. QED
  BY <1>2, <1>3, <1>4, <1>5, <1>6

(* PageSafety entry by entry. *)
EntriesSafe ==
  /\ TypeOK /\ OneTokenBehind
  /\ \A s \in Live : \A i \in 1 .. MaxPages : seqs[s].table[i] \notin free
  /\ \A h \in Hashes : cache[h] \notin free
  /\ \A s \in Live : \A i, j \in 1 .. MaxPages :
       seqs[s].table[i] = seqs[s].table[j] => i = j
  /\ \A g, h \in Hashes : cache[g] = cache[h] /\ cache[g] # NoPage => g = h
  /\ SharedOnlyByPrefix /\ NoDoubleFree

(* PageSafety from its statements entry by entry.                          *)
LEMMA SafetyIntro == EntriesSafe => PageSafety
<1> SUFFICES ASSUME EntriesSafe PROVE PageSafety
  OBVIOUS
<1>1. \A s \in Live : seqs[s].table \in [1 .. MaxPages -> Page]
  BY SequenceFacts DEF EntriesSafe
<1>2. ASSUME NEW s \in Live PROVE Range(seqs[s].table) \cap free = {}
  <2>1. DOMAIN seqs[s].table = 1 .. MaxPages
    BY <1>1
  <2>2. \A i \in 1 .. MaxPages : seqs[s].table[i] \notin free
    BY DEF EntriesSafe
  <2>3. QED
    BY <2>1, <2>2 DEF Range
<1>3. \A s \in Live : IsInjective(seqs[s].table)
  BY <1>1 DEF IsInjective, EntriesSafe
<1>4. QED
  BY <1>2, <1>3 DEF PageSafety, NoDanglingPage, EntriesSafe

(* A new engine shares nothing.                                            *)
LEMMA SafetyInit == Init => PageSafety
<1> SUFFICES ASSUME Init PROVE PageSafety
  OBVIOUS
<1>1. TypeOK /\ OneTokenBehind
  BY TypeInit DEF TypeInv
<1>2. Live = {}
  BY DEF Init, Live
<1>3. \A h \in Hashes : cache[h] = NoPage /\ cache[h] \notin free
  BY PageFacts DEF Init
<1>4. SharedOnlyByPrefix
  BY <1>2 DEF SharedOnlyByPrefix
<1>5. NoDoubleFree
  BY DEF Init, NoDoubleFree
<1>6. QED
  BY <1>1, <1>2, <1>3, <1>4, <1>5, SafetyIntro DEF EntriesSafe

(* Admission: aliased pages are shared under their prefix's hash, fresh    *)
(* ones with nobody.                                                       *)
LEMMA SafetyInstall ==
  ASSUME TypeInv, PageSafety,
         NEW fresh \in Injection(Fresh(admitting.prompt), free), Install(fresh)
  PROVE  PageSafety'
<1> DEFINE p == admitting.prompt
           slot == active + 1
           table == [i \in 1 .. MaxPages |->
                       IF i \in Aliased(p) THEN cache[Hash(p, i)] ELSE fresh[i]]
<1>1. /\ TypeOK /\ OneTokenBehind /\ HandlersExclude /\ TypeOK' /\ OneTokenBehind'
      /\ admitting # NoRequest
      /\ p \in Prompts
  BY TypeInstall, RequestFacts DEF TypeInv, Install
<1>2. slot \in Slot /\ active \in Nat /\ slot \notin Live
  BY <1>1, SlotFacts DEF TypeOK, HandlersExclude, Slot, Live
<1>3. /\ seqs' = [seqs EXCEPT ![slot] =
                    [prompt |-> p, gen |-> <<>>, len |-> ReusedTokens(p),
                     maxNew |-> admitting.maxNew, ended |-> FALSE, table |-> table]]
      /\ active' = slot
      /\ free' = free \ Range(fresh)
      /\ UNCHANGED <<cache, panicked>>
  BY <1>1, PlannedWhole DEF Install
<1>4. Live' = Live \cup {slot}
  BY <1>2, <1>3 DEF Live
<1>5. /\ \A s \in Live : seqs'[s] = seqs[s]
      /\ seqs'[slot].prompt = p
      /\ seqs'[slot].table = table
  BY <1>1, <1>2, <1>3, SequenceFacts DEF TypeOK
<1> HIDE DEF table, slot
<1>6. ASSUME NEW i \in 1 .. MaxPages
      PROVE  \/ /\ i \in 1 .. FullPages(p) /\ Hash(p, i) \in Hashes
                /\ table[i] = cache[Hash(p, i)] /\ table[i] \in Page
                /\ table[i] \notin free
             \/ /\ i \in Fresh(p) /\ table[i] = fresh[i]
                /\ table[i] \in free /\ table[i] \notin free' /\ table[i] \in Page
  <2>1. CASE i \in Aliased(p)
    <3>1. i \in 1 .. FullPages(p) /\ Hash(p, i) \in Hashes /\ cache[Hash(p, i)] \in Page
      BY <1>1, <2>1, AliasedFacts, InstalledTable
    <3>2. table[i] = cache[Hash(p, i)]
      BY <2>1 DEF table
    <3>3. QED
      BY <3>1, <3>2 DEF PageSafety, NoDanglingPage
  <2>2. CASE i \notin Aliased(p)
    <3>1. i \in Fresh(p) /\ fresh[i] \in free /\ fresh[i] \in Page
      BY <1>1, <2>2, InstalledTable
    <3>2. table[i] = fresh[i]
      BY <2>2 DEF table
    <3>3. fresh[i] \in Range(fresh)
      BY <3>1 DEF Injection, Range
    <3>4. QED
      BY <1>3, <3>1, <3>2, <3>3
  <2>3. QED
    BY <2>1, <2>2
<1>7. \A g, h \in Hashes : cache[g] = cache[h] /\ cache[g] # NoPage => g = h
  BY DEF PageSafety, NoDanglingPage
<1>8. ASSUME NEW i \in 1 .. MaxPages, NEW j \in 1 .. MaxPages, table[i] = table[j]
      PROVE  i = j
  <2>1. CASE table[i] \in free
    <3>1. /\ i \in Fresh(p) /\ j \in Fresh(p)
          /\ fresh[i] = fresh[j]
      BY <1>6, <1>8, <2>1
    <3>2. QED
      BY <3>1 DEF Injection, IsInjective
  <2>2. CASE table[i] \notin free
    <3>1. /\ i \in 1 .. FullPages(p) /\ j \in 1 .. FullPages(p)
          /\ Hash(p, i) \in Hashes /\ Hash(p, j) \in Hashes
          /\ cache[Hash(p, i)] = cache[Hash(p, j)] /\ cache[Hash(p, i)] \in Page
      BY <1>6, <1>8, <2>2
    <3>2. Hash(p, i) = Hash(p, j)
      BY <1>7, <3>1, PageFacts
    <3>3. QED
      BY <1>1, <3>1, <3>2, HashInjective
  <2>3. QED
    BY <2>1, <2>2
<1>9. ASSUME NEW i \in 1 .. MaxPages, NEW h \in Hashes, cache[h] = table[i]
      PROVE  i \in 1 .. FullPages(p) /\ h = Hash(p, i)
  <2>1. table[i] \notin free
    BY <1>9 DEF PageSafety, NoDanglingPage
  <2>2. /\ i \in 1 .. FullPages(p) /\ Hash(p, i) \in Hashes
        /\ cache[h] = cache[Hash(p, i)] /\ cache[h] \in Page
    BY <1>6, <1>9, <2>1
  <2>3. QED
    BY <1>7, <2>2, PageFacts
<1>10. ASSUME NEW s \in Live, NEW i \in 1 .. MaxPages, NEW j \in 1 .. MaxPages,
              seqs[s].table[i] = table[j]
       PROVE  /\ i = j /\ i <= FullPages(seqs[s].prompt) /\ i <= FullPages(p)
              /\ cache[Hash(seqs[s].prompt, i)] = table[j]
              /\ cache[Hash(p, i)] = table[j]
  <2>1. table[j] \notin free /\ seqs[s].prompt \in Prompts
    BY <1>10, SafetyFacts
  <2>2. /\ j \in 1 .. FullPages(p) /\ Hash(p, j) \in Hashes
        /\ cache[Hash(p, j)] = table[j]
    BY <1>6, <2>1
  <2>3. i <= FullPages(seqs[s].prompt) /\ Hash(p, j) = Hash(seqs[s].prompt, i)
    BY <1>10, <2>2 DEF PageSafety, SharedOnlyByPrefix
  <2>4. FullPages(seqs[s].prompt) \in Nat
    BY <2>1, PromptFacts, BatchingAssumption, EngineAssumption
  <2>5. i \in 1 .. FullPages(seqs[s].prompt)
    BY <2>3, <2>4
  <2>6. i = j
    BY <1>1, <2>1, <2>2, <2>3, <2>5, HashInjective
  <2>7. QED
    BY <2>2, <2>3, <2>6
<1>11. SharedOnlyByPrefix'
  <2>1. ASSUME NEW s \in Live', NEW t \in Live',
               NEW i \in 1 .. MaxPages, NEW j \in 1 .. MaxPages,
               s # t, seqs'[s].table[i] = seqs'[t].table[j]
        PROVE  /\ i = j /\ i <= FullPages(seqs'[s].prompt)
               /\ cache'[Hash(seqs'[s].prompt, i)] = seqs'[s].table[i]
    <3>1. CASE s \in Live /\ t \in Live
      BY <1>3, <1>5, <2>1, <3>1 DEF PageSafety, SharedOnlyByPrefix
    <3>2. CASE s \in Live /\ t = slot
      BY <1>3, <1>5, <1>10, <2>1, <3>2
    <3>3. CASE s = slot /\ t \in Live
      BY <1>3, <1>5, <1>10, <2>1, <3>3
    <3>4. QED
      BY <1>4, <2>1, <3>1, <3>2, <3>3
  <2>2. ASSUME NEW s \in Live', NEW i \in 1 .. MaxPages, NEW h \in Hashes,
               cache'[h] = seqs'[s].table[i]
        PROVE  i <= FullPages(seqs'[s].prompt) /\ h = Hash(seqs'[s].prompt, i)
    <3>1. CASE s \in Live
      BY <1>3, <1>5, <2>2, <3>1 DEF PageSafety, SharedOnlyByPrefix
    <3>2. CASE s = slot
      BY <1>1, <1>3, <1>5, <1>9, <2>2, <3>2, PromptFacts
    <3>3. QED
      BY <1>4, <3>1, <3>2
  <2>3. QED
    BY <2>1, <2>2 DEF SharedOnlyByPrefix
<1>12. \A s \in Live' : \A i \in 1 .. MaxPages : seqs'[s].table[i] \notin free'
  BY <1>3, <1>4, <1>5, <1>6, SafetyFacts
<1>13. \A h \in Hashes : cache'[h] \notin free'
  BY <1>3 DEF PageSafety, NoDanglingPage
<1>14. \A s \in Live' : \A i, j \in 1 .. MaxPages :
         seqs'[s].table[i] = seqs'[s].table[j] => i = j
  BY <1>4, <1>5, <1>8, SafetyFacts
<1>15. NoDoubleFree'
  BY <1>3 DEF PageSafety, NoDoubleFree
<1>16. \A g, h \in Hashes : cache'[g] = cache'[h] /\ cache'[g] # NoPage => g = h
  BY <1>3, <1>7
<1>17. EntriesSafe'
  BY <1>1, <1>11, <1>12, <1>13, <1>14, <1>15, <1>16 DEF EntriesSafe
<1>18. QED
  BY <1>17, SafetyIntro, PTL

(* Eviction frees pages that no table and no other hash holds.             *)
LEMMA SafetyDropOldest ==
  ASSUME TypeInv, TypeInv', PageSafety, retired # <<>>, DropOldest(free, Freeable),
         UNCHANGED <<seqs, active>>
  PROVE  PageSafety'
<1> DEFINE pages == {cache[h] : h \in Freeable}
<1>1. /\ TypeOK /\ OneTokenBehind /\ TypeOK' /\ OneTokenBehind'
      /\ cache' = [h \in Hashes |-> IF h \in Freeable THEN NoPage ELSE cache[h]]
      /\ free' = free \cup pages
      /\ panicked' = IF pages \cap free # {} THEN "double_free" ELSE panicked
      /\ seqs' = seqs /\ Live' = Live
  BY DEF TypeInv, DropOldest, Live
<1>2. \A h \in Freeable : h \in Hashes /\ cache[h] \in Page /\ cache[h] \notin Referenced
  BY <1>1, FreeableFacts
<1>3. \A g, h \in Hashes : cache[g] = cache[h] /\ cache[g] # NoPage => g = h
  BY DEF PageSafety, NoDanglingPage
<1>4. \A h \in Hashes : cache[h] \notin free
  BY DEF PageSafety, NoDanglingPage
<1>5. \A s \in Live : \A i \in 1 .. MaxPages : seqs'[s].table[i] \notin free'
  BY <1>1, <1>2, SafetyFacts
<1>6. ASSUME NEW h \in Hashes PROVE cache'[h] \notin free'
  <2>1. CASE h \in Freeable
    <3>1. cache'[h] = NoPage
      BY <1>1, <2>1
    <3>2. QED
      BY <1>1, <3>1, PageFacts DEF TypeOK
  <2>2. CASE h \notin Freeable
    <3>1. cache'[h] = cache[h] /\ cache[h] \notin free
      BY <1>1, <1>4, <2>2
    <3>2. ASSUME NEW g \in Freeable, cache[h] = cache[g] PROVE FALSE
      BY <1>2, <1>3, <2>2, <3>2, PageFacts
    <3>3. QED
      BY <1>1, <3>1, <3>2
  <2>3. QED
    BY <2>1, <2>2
<1>7. \A g, h \in Hashes : cache'[g] = cache'[h] /\ cache'[g] # NoPage => g = h
  BY <1>1, <1>3
<1>8. ASSUME NEW s \in Live, NEW i \in 1 .. MaxPages, NEW h \in Hashes
      PROVE  cache'[h] = seqs[s].table[i] <=> cache[h] = seqs[s].table[i]
  <2>1. seqs[s].table[i] \in Page /\ seqs[s].table[i] \in Referenced
    BY SafetyFacts
  <2>2. CASE h \in Freeable
    BY <1>1, <1>2, <2>1, <2>2, PageFacts
  <2>3. CASE h \notin Freeable
    BY <1>1, <2>3
  <2>4. QED
    BY <2>2, <2>3
<1>9. SharedOnlyByPrefix'
  <2>1. ASSUME NEW s \in Live, NEW t \in Live,
               NEW i \in 1 .. MaxPages, NEW j \in 1 .. MaxPages,
               s # t, seqs[s].table[i] = seqs[t].table[j]
        PROVE  /\ i = j /\ i <= FullPages(seqs[s].prompt)
               /\ cache'[Hash(seqs[s].prompt, i)] = seqs[s].table[i]
    <3>1. /\ i = j /\ i <= FullPages(seqs[s].prompt)
          /\ cache[Hash(seqs[s].prompt, i)] = seqs[s].table[i]
      BY <2>1 DEF PageSafety, SharedOnlyByPrefix
    <3>2. Hash(seqs[s].prompt, i) \in Hashes
      BY <3>1, SafetyFacts, HashFacts, PromptFacts, BatchingAssumption, EngineAssumption
    <3>3. QED
      BY <1>8, <3>1, <3>2
  <2>2. \A s \in Live : \A i \in 1 .. MaxPages : \A h \in Hashes :
          cache'[h] = seqs[s].table[i] =>
            i <= FullPages(seqs[s].prompt) /\ h = Hash(seqs[s].prompt, i)
    BY <1>8 DEF PageSafety, SharedOnlyByPrefix
  <2>3. QED
    BY <1>1, <2>1, <2>2 DEF SharedOnlyByPrefix
<1>10. NoDoubleFree'
  <2>1. pages \cap free = {}
    BY <1>2, <1>4
  <2>2. QED
    BY <1>1, <2>1 DEF PageSafety, NoDoubleFree
<1>11. \A s \in Live' : \A i, j \in 1 .. MaxPages :
         seqs'[s].table[i] = seqs'[s].table[j] => i = j
  BY <1>1, SafetyFacts
<1>12. EntriesSafe'
  BY <1>1, <1>5, <1>6, <1>7, <1>9, <1>10, <1>11 DEF EntriesSafe
<1>13. QED
  BY <1>12, SafetyIntro, PTL

(* Registration at materialization publishes a page of the writer's own,   *)
(* under a hash nobody holds.                                              *)
LEMMA SafetyStep ==
  ASSUME TypeInv, PageSafety, Step
  PROVE  PageSafety'
<1>1. PICK take : cache' = Registered(take)
  BY StepFacts
<1>2. /\ TypeOK /\ OneTokenBehind /\ TypeOK' /\ OneTokenBehind'
      /\ Live' = Live
      /\ \A s \in Live : /\ seqs'[s].prompt = seqs[s].prompt
                        /\ seqs'[s].table = seqs[s].table
      /\ free' = free /\ panicked' = panicked
  BY StepFacts DEF TypeInv
<1>3. \A g, h \in Hashes : cache[g] = cache[h] /\ cache[g] # NoPage => g = h
  BY DEF PageSafety, NoDanglingPage
<1>4. \A h \in Hashes : cache[h] \in Page \cup {NoPage} /\ cache[h] \notin free
  BY <1>2 DEF PageSafety, NoDanglingPage, TypeOK
<1>5. \A s, t \in Live : \A i, j \in 1 .. MaxPages :
        s # t /\ seqs[s].table[i] = seqs[t].table[j] =>
          /\ i = j /\ i <= FullPages(seqs[s].prompt)
          /\ cache[Hash(seqs[s].prompt, i)] = seqs[s].table[i]
  BY DEF PageSafety, SharedOnlyByPrefix
<1>6. \A s \in Live : \A i \in 1 .. MaxPages : \A h \in Hashes :
        cache[h] = seqs[s].table[i] =>
          i <= FullPages(seqs[s].prompt) /\ h = Hash(seqs[s].prompt, i)
  BY DEF PageSafety, SharedOnlyByPrefix
(* A new registration: h is the hash of page i of s, and was not cached.   *)
<1> DEFINE New(h, s, i) == /\ cache[h] = NoPage
                           /\ i \in 1 .. FullPages(seqs[s].prompt)
                           /\ h = Hash(seqs[s].prompt, i)
                           /\ cache'[h] = seqs[s].table[i]
<1>7. ASSUME NEW h \in Hashes
      PROVE  \/ cache'[h] = cache[h]
             \/ \E s \in Live : \E i \in 1 .. MaxPages : New(h, s, i)
  BY <1>1, <1>2, RegisteredFacts
<1>8. ASSUME NEW s \in Live, NEW i \in 1 .. MaxPages, NEW h \in Hashes,
             cache'[h] = seqs[s].table[i]
      PROVE  i <= FullPages(seqs[s].prompt) /\ h = Hash(seqs[s].prompt, i)
  <2>1. CASE cache'[h] = cache[h]
    BY <1>6, <1>8, <2>1
  <2>2. CASE \E t \in Live : \E j \in 1 .. MaxPages : New(h, t, j)
    <3>1. PICK t \in Live, j \in 1 .. MaxPages : New(h, t, j)
      BY <2>2
    <3>2. seqs[t].table[j] = seqs[s].table[i] /\ seqs[s].table[i] \in Page
      BY <1>8, <3>1, SafetyFacts
    <3>3. s = t
      <4>1. SUFFICES ASSUME s # t PROVE FALSE
        OBVIOUS
      <4>2. cache[h] = seqs[t].table[j]
        BY <1>5, <3>1, <3>2, <4>1
      <4>3. QED
        BY <3>1, <3>2, <4>2, PageFacts
    <3>4. i = j
      BY <3>2, <3>3, SafetyFacts
    <3>5. FullPages(seqs[s].prompt) \in Nat
      BY SafetyFacts, PromptFacts, BatchingAssumption, EngineAssumption
    <3>6. QED
      BY <3>1, <3>3, <3>4, <3>5
  <2>3. QED
    BY <1>7, <2>1, <2>2
<1>9. ASSUME NEW g \in Hashes, NEW h \in Hashes,
             cache'[g] = cache'[h], cache'[g] # NoPage
      PROVE  g = h
  <2>1. CASE cache'[g] = cache[g] /\ cache'[h] = cache[h]
    BY <1>3, <1>9, <2>1
  <2>2. ASSUME NEW a \in Hashes, NEW c \in Hashes, cache'[a] = cache'[c],
               NEW s \in Live, NEW i \in 1 .. MaxPages, New(a, s, i)
        PROVE  a = c
    BY <1>8, <2>2
  <2>3. QED
    BY <1>7, <1>9, <2>1, <2>2
<1>10. SharedOnlyByPrefix'
  <2>1. ASSUME NEW s \in Live, NEW t \in Live,
               NEW i \in 1 .. MaxPages, NEW j \in 1 .. MaxPages,
               s # t, seqs[s].table[i] = seqs[t].table[j]
        PROVE  /\ i = j /\ i <= FullPages(seqs[s].prompt)
               /\ cache'[Hash(seqs[s].prompt, i)] = seqs[s].table[i]
    <3> DEFINE h == Hash(seqs[s].prompt, i)
    <3>1. /\ i = j /\ i <= FullPages(seqs[s].prompt)
          /\ cache[h] = seqs[s].table[i] /\ cache[h] \in Page
      BY <1>5, <2>1, SafetyFacts
    <3>2. h \in Hashes
      BY <3>1, SafetyFacts, HashFacts, PromptFacts, BatchingAssumption, EngineAssumption
    <3>3. cache'[h] = cache[h]
      BY <1>7, <3>1, <3>2, PageFacts
    <3>4. QED
      BY <3>1, <3>3
  <2>2. QED
    BY <1>2, <1>8, <2>1 DEF SharedOnlyByPrefix
<1>11. \A h \in Hashes : cache'[h] \notin free'
  BY <1>2, <1>4, <1>7, SafetyFacts
<1>12. /\ \A s \in Live' : \A i \in 1 .. MaxPages : seqs'[s].table[i] \notin free'
       /\ \A s \in Live' : \A i, j \in 1 .. MaxPages :
            seqs'[s].table[i] = seqs'[s].table[j] => i = j
  BY <1>2, SafetyFacts
<1>13. NoDoubleFree'
  BY <1>2 DEF PageSafety, NoDoubleFree
<1>14. EntriesSafe'
  BY <1>2, <1>9, <1>10, <1>11, <1>12, <1>13 DEF EntriesSafe
<1>15. QED
  BY <1>14, SafetyIntro, PTL

(* A page that stays in use after s leaves is one that s keeps cached.     *)
LEMMA DroppedPages ==
  ASSUME TypeInv, PageSafety, NEW s \in Live,
         NEW i \in (1 .. MaxPages) \ Kept(seqs[s])
  PROVE  /\ \A h \in Hashes : cache[h] # seqs[s].table[i]
         /\ \A t \in Live \ {s} : \A j \in 1 .. MaxPages :
              seqs[s].table[i] # seqs[t].table[j]
<1> DEFINE q == seqs[s]
<1>1. q.prompt \in Prompts /\ FullPages(q.prompt) \in Nat
  BY SafetyFacts, PromptFacts, BatchingAssumption, EngineAssumption
<1>2. ASSUME NEW h \in Hashes, cache[h] = q.table[i] PROVE FALSE
  <2>1. i <= FullPages(q.prompt) /\ h = Hash(q.prompt, i)
    BY <1>2 DEF PageSafety, SharedOnlyByPrefix
  <2>2. i \in Kept(q)
    BY <1>1, <1>2, <2>1 DEF Kept
  <2>3. QED
    BY <2>2
<1>3. ASSUME NEW t \in Live \ {s}, NEW j \in 1 .. MaxPages,
             q.table[i] = seqs[t].table[j]
      PROVE  FALSE
  <2>1. i <= FullPages(q.prompt) /\ cache[Hash(q.prompt, i)] = q.table[i]
    BY <1>3 DEF PageSafety, SharedOnlyByPrefix
  <2>2. i \in Kept(q)
    BY <1>1, <2>1 DEF Kept
  <2>3. QED
    BY <2>2
<1>4. QED
  BY <1>2, <1>3

(* Retiring frees exactly the pages nobody else can hold.                  *)
LEMMA SafetyFinish ==
  ASSUME TypeInv, TypeInv', PageSafety, NEW s \in Live, Finish(s)
  PROVE  PageSafety'
<1> DEFINE q == seqs[s]
           drop == (1 .. MaxPages) \ Kept(q)
           pages == {q.table[i] : i \in drop}
<1>1. /\ TypeOK /\ OneTokenBehind /\ TypeOK' /\ OneTokenBehind'
      /\ free' = free \cup pages /\ cache' = cache
      /\ panicked' = IF \/ pages \cap free # {}
                        \/ \E i, j \in drop : i # j /\ q.table[i] = q.table[j]
                     THEN "double_free" ELSE panicked
  BY DEF TypeInv, Finish
<1>2. /\ \A i \in Live' : /\ Source(s, i) \in Live \ {s}
                         /\ seqs'[i] = seqs[Source(s, i)]
      /\ \A i, j \in Live' : Source(s, i) = Source(s, j) => i = j
  BY <1>1, FinishShift
<1>4. \A i \in drop : \A h \in Hashes : cache[h] # q.table[i]
  BY DroppedPages
<1>5. \A i \in drop : \A t \in Live \ {s} : \A j \in 1 .. MaxPages :
        q.table[i] # seqs[t].table[j]
  BY DroppedPages
<1>6. \A t \in Live' : \A j \in 1 .. MaxPages : seqs'[t].table[j] \notin free'
  BY <1>1, <1>2, <1>5, SafetyFacts
<1>7. \A h \in Hashes : cache'[h] \notin free'
  BY <1>1, <1>4 DEF PageSafety, NoDanglingPage
<1>8. \A t \in Live' : \A i, j \in 1 .. MaxPages :
        seqs'[t].table[i] = seqs'[t].table[j] => i = j
  BY <1>2, SafetyFacts
<1>9. \A g, h \in Hashes : cache'[g] = cache'[h] /\ cache'[g] # NoPage => g = h
  BY <1>1 DEF PageSafety, NoDanglingPage
<1>10. SharedOnlyByPrefix'
  <2>1. \A t, u \in Live' : \A i, j \in 1 .. MaxPages :
          t # u /\ seqs'[t].table[i] = seqs'[u].table[j] =>
            /\ i = j /\ i <= FullPages(seqs'[t].prompt)
            /\ cache'[Hash(seqs'[t].prompt, i)] = seqs'[t].table[i]
    BY <1>1, <1>2 DEF PageSafety, SharedOnlyByPrefix
  <2>2. \A t \in Live' : \A i \in 1 .. MaxPages : \A h \in Hashes :
          cache'[h] = seqs'[t].table[i] =>
            i <= FullPages(seqs'[t].prompt) /\ h = Hash(seqs'[t].prompt, i)
    BY <1>1, <1>2 DEF PageSafety, SharedOnlyByPrefix
  <2>3. QED
    BY <2>1, <2>2 DEF SharedOnlyByPrefix
<1>11. NoDoubleFree'
  <2>1. pages \cap free = {}
    BY SafetyFacts
  <2>2. \A i, j \in drop : q.table[i] = q.table[j] => i = j
    BY SafetyFacts
  <2>3. QED
    BY <1>1, <2>1, <2>2 DEF PageSafety, NoDoubleFree
<1>12. EntriesSafe'
  BY <1>1, <1>6, <1>7, <1>8, <1>9, <1>10, <1>11 DEF EntriesSafe
<1>13. QED
  BY <1>12, SafetyIntro, PTL

(* Steps that touch no table, cache entry or free page keep PageSafety.    *)
LEMMA SafetyUnchanged ==
  ASSUME PageSafety, UNCHANGED <<seqs, active, cache, free>>,
         panicked' \in {panicked, "finish_range"}
  PROVE  PageSafety'
BY DEF PageSafety, NoDanglingPage, SharedOnlyByPrefix, NoDoubleFree, Live

(* Every step of the engine preserves PageSafety.                          *)
LEMMA SafetyNext == TypeInv /\ PageSafety /\ [Next]_vars => PageSafety'
<1> SUFFICES ASSUME TypeInv, PageSafety, [Next]_vars PROVE PageSafety'
  OBVIOUS
<1>1. TypeInv'
  BY TypeNext
<1>2. ASSUME NEW r \in Request, Add(r) PROVE PageSafety'
  BY <1>2, SafetyUnchanged DEF Add
<1>3. ASSUME NEW fresh \in Injection(Fresh(admitting.prompt), free), Install(fresh)
      PROVE PageSafety'
  BY <1>3, SafetyInstall
<1>4. ASSUME NEW fresh \in Injection(Fresh(admitting.prompt), free), InstallFails(fresh)
      PROVE PageSafety'
  BY <1>4, InstallFailsFacts, SafetyUnchanged DEF TypeInv
<1>5. ASSUME NEW fresh \in Injection(Backed(admitting.prompt), free), RetryAdmission(fresh)
      PROVE PageSafety'
  <2>1. CASE retired = <<>>
    BY <1>5, <2>1, RetryFacts, SafetyUnchanged DEF TypeInv
  <2>2. CASE retired # <<>>
    BY <1>1, <1>5, <2>2, RetryFacts, SafetyDropOldest DEF TypeInv
  <2>3. QED
    BY <2>1, <2>2
<1>6. CASE Step
  BY <1>6, SafetyStep
<1>7. ASSUME NEW part \in {"outputs", "limit"}, NEW s \in Slot, FinishNext(part, s)
      PROVE PageSafety'
  <2>1. CASE s <= active
    <3>1. s \in Live /\ Finish(s)
      BY <1>7, <2>1, SlotFacts DEF FinishNext, NextDone, Live, Slot, TypeInv, TypeOK
    <3>2. QED
      BY <1>1, <3>1, SafetyFinish
  <2>2. CASE ~(s <= active)
    BY <1>7, <2>2, SafetyUnchanged DEF FinishNext
  <2>3. QED
    BY <2>1, <2>2
<1>8. ASSUME NEW s \in Slot, Cancel(s) PROVE PageSafety'
  BY <1>1, <1>8, SafetyFinish DEF Cancel
<1>9. CASE TrimRetired
  <2>1. retired # <<>>
    BY <1>9 DEF TrimRetired, TypeInv, HandlersExclude
  <2>2. QED
    BY <1>1, <1>9, <2>1, SafetyDropOldest DEF TrimRetired
<1>10. CASE UNCHANGED vars
  BY <1>10, SafetyUnchanged DEF vars
<1>11. QED
  BY <1>2, <1>3, <1>4, <1>5, <1>6, <1>7, <1>8, <1>9, <1>10 DEF Next

(* Whatever requests arrive, however the rows are split, whichever pages   *)
(* the allocator returns and whoever finishes or is cancelled when: no     *)
(* page is handed out twice, only a common prefix is shared, and the       *)
(* assertions of PageAllocator never fire.                                 *)
THEOREM PagesAreSafe == Spec => []PageSafety
<1>1. TypeInv /\ PageSafety /\ [Next]_vars => (TypeInv /\ PageSafety)'
  BY TypeNext, SafetyNext
<1>2. Init => TypeInv /\ PageSafety
  BY TypeInit, SafetyInit
<1>3. QED
  BY <1>1, <1>2, PTL DEF Spec

(***************************************************************************)
(* The accounts of the pool: no page leaks, every registered page can be   *)
(* recovered, and so an admission below capacity finds its pages.          *)
(***************************************************************************)

(* A live table or the prefix cache holds page p. *)
Held(p) == \/ \E s \in Live : \E i \in 1 .. MaxPages : seqs[s].table[i] = p
           \/ \E h \in Hashes : cache[h] = p

(* NoPageLeak page by page: safe pages are not both free and held, so only *)
(* the other direction is left.                                            *)
LEMMA LeakIntro ==
  ASSUME TypeInv, PageSafety, \A p \in Page \ free : Held(p)
  PROVE  NoPageLeak
<1> DEFINE registered == {cache[h] : h \in {g \in Hashes : cache[g] # NoPage}}
<1>1. \A s \in Live : DOMAIN seqs[s].table = 1 .. MaxPages
  BY SequenceFacts DEF TypeInv
<1>2. Referenced = {p \in Page : \E s \in Live : \E i \in 1 .. MaxPages :
                                   seqs[s].table[i] = p}
  <2>1. \A s \in Live : \A p : p \in Range(seqs[s].table) <=>
          \E i \in 1 .. MaxPages : seqs[s].table[i] = p
    BY <1>1 DEF Range
  <2>2. \A s \in Live : \A i \in 1 .. MaxPages : seqs[s].table[i] \in Page
    BY SafetyFacts
  <2>3. \A p : p \in Referenced <=> \E s \in Live : p \in Range(seqs[s].table)
    BY Zenon DEF Referenced
  <2>4. \A p : p \in Referenced <=>
          \E s \in Live : \E i \in 1 .. MaxPages : seqs[s].table[i] = p
    BY <2>1, <2>3
  <2>5. QED
    BY <2>2, <2>4
<1>3. registered = {p \in Page : \E h \in Hashes : cache[h] = p}
  BY PageFacts DEF TypeInv, TypeOK
<1>4. \A p \in Referenced : p \notin free
  BY <1>2, SafetyFacts
<1>5. \A p \in registered : p \notin free
  BY <1>3 DEF PageSafety, NoDanglingPage
<1>6. Page \ free = Referenced \cup registered
  <2> HIDE DEF registered
  <2>1. \A p \in Page \ free : p \in Referenced \cup registered
    BY <1>2, <1>3 DEF Held
  <2>2. \A p \in Referenced \cup registered : p \in Page \ free
    BY <1>2, <1>3, <1>4, <1>5
  <2>3. QED
    BY <2>1, <2>2
<1>7. QED
  BY <1>6 DEF NoPageLeak

(* The accounts, page by page and hash by hash. *)
PoolInv ==
  /\ \A p \in Page \ free : Held(p)
  /\ CacheIsRecoverable

(* A new engine has allocated nothing.                                     *)
LEMMA PoolInit == Init => PoolInv
<1> SUFFICES ASSUME Init PROVE PoolInv
  OBVIOUS
<1>1. free = Page /\ \A h \in Hashes : cache[h] = NoPage
  BY DEF Init
<1>2. QED
  BY <1>1 DEF PoolInv, CacheIsRecoverable

(* Steps that touch no table, cache entry, free page or retired prompt.    *)
LEMMA PoolUnchanged ==
  ASSUME PoolInv, UNCHANGED <<seqs, active, cache, free, retired>>
  PROVE  PoolInv'
BY DEF PoolInv, Held, CacheIsRecoverable, Live

(* Admission: every page it takes goes into the new table.                 *)
LEMMA PoolInstall ==
  ASSUME TypeInv, PoolInv,
         NEW fresh \in Injection(Fresh(admitting.prompt), free), Install(fresh)
  PROVE  PoolInv'
<1> DEFINE p == admitting.prompt
           slot == active + 1
           table == [i \in 1 .. MaxPages |->
                       IF i \in Aliased(p) THEN cache[Hash(p, i)] ELSE fresh[i]]
           new == [prompt |-> p, gen |-> <<>>, len |-> ReusedTokens(p),
                   maxNew |-> admitting.maxNew, ended |-> FALSE, table |-> table]
<1>1. TypeOK /\ OneTokenBehind /\ HandlersExclude /\ admitting # NoRequest
  BY DEF TypeInv, Install
<1>2. slot \in Slot /\ slot \notin Live
  BY <1>1, SlotFacts DEF TypeOK, HandlersExclude, Slot, Live
<1>3. /\ seqs' = [seqs EXCEPT ![slot] = new]
      /\ active' = slot
      /\ free' = free \ Range(fresh)
      /\ UNCHANGED <<cache, retired>>
  BY <1>1, PlannedWhole DEF Install
<1>4. Live' = Live \cup {slot}
  BY <1>1, <1>2, <1>3 DEF Live, TypeOK, Slot
<1>5. /\ \A s \in Live : seqs'[s] = seqs[s]
      /\ seqs'[slot].table = table
  BY <1>1, <1>2, <1>3, SequenceFacts DEF TypeOK
<1> HIDE DEF new, slot
<1>6. ASSUME NEW q \in Range(fresh) PROVE \E i \in 1 .. MaxPages : table[i] = q
  <2>1. PICK i \in Fresh(p) : q = fresh[i]
    BY DEF Range, Injection
  <2>2. i \in 1 .. MaxPages /\ i \notin Aliased(p)
    BY DEF Fresh
  <2>3. QED
    BY <2>1, <2>2
<1> HIDE DEF table
<1>7. ASSUME NEW q \in Page \ free' PROVE Held(q)'
  <2>1. CASE q \in Range(fresh)
    BY <1>4, <1>5, <1>6, <2>1 DEF Held
  <2>2. CASE q \notin Range(fresh)
    <3>1. Held(q)
      BY <1>3, <1>7, <2>2 DEF PoolInv
    <3>2. QED
      BY <1>3, <1>4, <1>5, <3>1 DEF Held
  <2>3. QED
    BY <2>1, <2>2
<1>8. CacheIsRecoverable'
  BY <1>3, <1>4, <1>5 DEF PoolInv, CacheIsRecoverable
<1>9. QED
  BY <1>7, <1>8 DEF PoolInv

(* Eviction: what it frees it also unregisters, and a page it leaves       *)
(* registered is claimed by another retired prompt or by a live one.       *)
LEMMA PoolDropOldest ==
  ASSUME TypeInv, PageSafety, PoolInv, retired # <<>>, DropOldest(free, Freeable),
         UNCHANGED <<seqs, active>>
  PROVE  PoolInv'
<1>1. /\ cache' = [h \in Hashes |-> IF h \in Freeable THEN NoPage ELSE cache[h]]
      /\ free' = free \cup {cache[h] : h \in Freeable}
      /\ retired' = Tail(retired)
      /\ seqs' = seqs /\ Live' = Live
  BY DEF DropOldest, Live
<1>2. ASSUME NEW q \in Page \ free' PROVE Held(q)'
  <2>1. Held(q) /\ \A h \in Freeable : cache[h] # q
    BY <1>1, <1>2 DEF PoolInv
  <2>2. ASSUME NEW h \in Hashes, cache[h] = q PROVE cache'[h] = q
    BY <1>1, <2>1, <2>2
  <2>3. QED
    BY <1>1, <2>1, <2>2 DEF Held
<1>3. ASSUME NEW h \in Hashes, cache'[h] # NoPage
      PROVE  \/ \E k \in 1 .. Len(retired') : h \in Claims(retired'[k])
             \/ \E s \in Live : h \in Claims(seqs[s].prompt) /\ cache'[h] \in Range(seqs[s].table)
  <2>1. h \notin Freeable /\ cache'[h] = cache[h] /\ cache[h] # NoPage
    BY <1>1, <1>3
  <2>2. CASE \E s \in Live : h \in Claims(seqs[s].prompt) /\ cache[h] \in Range(seqs[s].table)
    BY <2>1, <2>2
  <2>3. CASE \E k \in 1 .. Len(retired) : h \in Claims(retired[k])
    <3>1. PICK k \in 1 .. Len(retired) : h \in Claims(retired[k])
      BY <2>3
    <3>2. /\ retired \in Seq(Prompts) /\ Len(retired) \in Nat
          /\ Len(retired') = Len(retired) - 1
          /\ \A j \in 1 .. Len(retired') : retired'[j] = retired[j + 1]
          /\ Head(retired) = retired[1]
      BY <1>1, HeadTailProperties DEF TypeInv, TypeOK
    <3>3. CASE h \in UNION {Claims(retired[j]) : j \in 2 .. Len(retired)}
      <4>1. PICK j \in 2 .. Len(retired) : h \in Claims(retired[j])
        BY <3>3
      <4>2. j - 1 \in 1 .. Len(retired') /\ retired'[j - 1] = retired[j]
        BY <3>2
      <4>3. QED
        BY <4>1, <4>2
    <3>4. CASE h \notin UNION {Claims(retired[j]) : j \in 2 .. Len(retired)}
      <4>1. k = 1
        BY <3>1, <3>2, <3>4
      <4>2. cache[h] \in Referenced
        BY <2>1, <3>1, <3>2, <3>4, <4>1 DEF Freeable
      <4>3. PICK s \in Live : cache[h] \in Range(seqs[s].table)
        BY <4>2 DEF Referenced
      <4>4. PICK i \in 1 .. MaxPages : cache[h] = seqs[s].table[i]
        BY <4>3, SequenceFacts DEF Range, TypeInv
      <4>5. i <= FullPages(seqs[s].prompt) /\ h = Hash(seqs[s].prompt, i)
        BY <4>4 DEF PageSafety, SharedOnlyByPrefix
      <4>6. FullPages(seqs[s].prompt) \in Nat
        BY SafetyFacts, PromptFacts, BatchingAssumption, EngineAssumption
      <4>7. h \in Claims(seqs[s].prompt)
        BY <4>5, <4>6 DEF Claims
      <4>8. QED
        BY <2>1, <4>3, <4>7
    <3>5. QED
      BY <3>3, <3>4
  <2>4. QED
    BY <2>1, <2>2, <2>3 DEF PoolInv, CacheIsRecoverable
<1>4. QED
  BY <1>1, <1>2, <1>3 DEF PoolInv, CacheIsRecoverable

(* A step registers pages of live tables only.                             *)
LEMMA PoolStep ==
  ASSUME TypeInv, PoolInv, Step
  PROVE  PoolInv'
<1>1. PICK take : cache' = Registered(take)
  BY StepFacts
<1>2. /\ TypeOK /\ OneTokenBehind /\ Live' = Live
      /\ \A s \in Live : /\ seqs'[s].prompt = seqs[s].prompt
                        /\ seqs'[s].table = seqs[s].table
                        /\ DOMAIN seqs[s].table = 1 .. MaxPages
      /\ free' = free /\ retired' = retired
  BY StepFacts, SequenceFacts DEF TypeInv, Step, Forward
<1>3. ASSUME NEW h \in Hashes
      PROVE  \/ cache'[h] = cache[h]
             \/ /\ cache[h] = NoPage
                /\ \E s \in Live : \E i \in 1 .. FullPages(seqs[s].prompt) :
                     /\ h = Hash(seqs[s].prompt, i)
                     /\ i \in 1 .. MaxPages
                     /\ cache'[h] = seqs[s].table[i]
  BY <1>1, <1>2, RegisteredFacts
<1>4. ASSUME NEW q \in Page \ free' PROVE Held(q)'
  BY <1>2, <1>3, PageFacts DEF PoolInv, Held
<1>5. ASSUME NEW h \in Hashes, cache'[h] # NoPage
      PROVE  \/ \E k \in 1 .. Len(retired) : h \in Claims(retired[k])
             \/ \E s \in Live : h \in Claims(seqs[s].prompt) /\ cache'[h] \in Range(seqs[s].table)
  <2>1. CASE cache'[h] = cache[h]
    BY <1>2, <1>5, <2>1 DEF PoolInv, CacheIsRecoverable
  <2>2. ASSUME NEW s \in Live, NEW i \in 1 .. FullPages(seqs[s].prompt),
               h = Hash(seqs[s].prompt, i), i \in 1 .. MaxPages,
               cache'[h] = seqs[s].table[i]
        PROVE  h \in Claims(seqs[s].prompt) /\ cache'[h] \in Range(seqs[s].table)
    BY <1>2, <2>2 DEF Claims, Range
  <2>3. QED
    BY <1>3, <2>1, <2>2
<1>6. CacheIsRecoverable'
  BY <1>2, <1>5 DEF CacheIsRecoverable
<1>7. QED
  BY <1>4, <1>6 DEF PoolInv

(* Retiring: a page of the sequence is freed or stays registered, and the  *)
(* registered ones are claimed by the prompt that retires.                 *)
LEMMA PoolFinish ==
  ASSUME TypeInv, PageSafety, PoolInv, NEW s \in Live, Finish(s)
  PROVE  PoolInv'
<1> DEFINE q == seqs[s]
           drop == (1 .. MaxPages) \ Kept(q)
<1>1. /\ free' = free \cup {q.table[i] : i \in drop} /\ cache' = cache
      /\ retired' = IF FullPages(q.prompt) > 0 THEN Append(retired, q.prompt)
                                               ELSE retired
  BY DEF Finish
<1>2. \A t \in Live \ {s} : \E i \in Live' : seqs'[i] = seqs[t]
  <2> SUFFICES ASSUME NEW t \in Live \ {s} PROVE \E i \in Live' : Source(s, i) = t
    BY FinishShift DEF TypeInv
  <2>1. active \in Nat /\ active' = active - 1 /\ s \in 1 .. active /\ t \in 1 .. active /\ t # s
    BY FinishShift DEF TypeInv, Live
  <2>2. CASE t < s
    BY <2>1, <2>2 DEF Live, Source
  <2>3. CASE s < t
    <3>1. t - 1 \in Live' /\ Source(s, t - 1) = t
      BY <2>1, <2>3 DEF Live, Source
    <3>2. QED
      BY <3>1
  <2>4. QED
    BY <2>1, <2>2, <2>3
<1>3. q.prompt \in Prompts /\ FullPages(q.prompt) \in Nat
  BY SafetyFacts, PromptFacts, BatchingAssumption, EngineAssumption
<1>4. ASSUME NEW p \in Page \ free' PROVE Held(p)'
  <2>1. Held(p) /\ \A i \in drop : q.table[i] # p
    BY <1>1, <1>4 DEF PoolInv
  <2>2. CASE \E h \in Hashes : cache[h] = p
    BY <1>1, <2>2 DEF Held
  <2>3. CASE \E t \in Live \ {s} : \E i \in 1 .. MaxPages : seqs[t].table[i] = p
    BY <1>2, <2>3 DEF Held
  <2>4. ASSUME NEW i \in 1 .. MaxPages, q.table[i] = p PROVE \E h \in Hashes : cache[h] = p
    <3>1. i \in 1 .. FullPages(q.prompt) /\ cache[Hash(q.prompt, i)] = p
      BY <2>1, <2>4 DEF Kept
    <3>2. QED
      BY <1>3, <3>1, HashFacts
  <2>5. QED
    BY <2>1, <2>2, <2>3, <2>4 DEF Held
<1>5. ASSUME NEW h \in Hashes, cache'[h] # NoPage
      PROVE  \/ \E k \in 1 .. Len(retired') : h \in Claims(retired'[k])
             \/ \E t \in Live' : h \in Claims(seqs'[t].prompt) /\ cache'[h] \in Range(seqs'[t].table)
  <2>1. retired \in Seq(Prompts) /\ Len(retired) \in Nat
    BY DEF TypeInv, TypeOK
  <2>2. CASE \E k \in 1 .. Len(retired) : h \in Claims(retired[k])
    <3>1. PICK k \in 1 .. Len(retired) : h \in Claims(retired[k])
      BY <2>2
    <3>2. k \in 1 .. Len(retired') /\ retired'[k] = retired[k]
      BY <1>1, <1>3, <2>1, AppendProperties
    <3>3. QED
      BY <3>1, <3>2
  <2>3. CASE \E t \in Live \ {s} : h \in Claims(seqs[t].prompt) /\ cache[h] \in Range(seqs[t].table)
    BY <1>1, <1>2, <2>3
  <2>4. CASE h \in Claims(q.prompt)
    <3>1. FullPages(q.prompt) > 0
      BY <1>3, <2>4 DEF Claims
    <3>2. /\ Len(retired) + 1 \in 1 .. Len(retired')
          /\ retired'[Len(retired) + 1] = q.prompt
      BY <1>1, <1>3, <2>1, <3>1, AppendProperties
    <3>3. QED
      BY <2>4, <3>2
  <2>5. QED
    BY <1>1, <1>5, <2>2, <2>3, <2>4 DEF PoolInv, CacheIsRecoverable
<1>6. CacheIsRecoverable'
  BY <1>5 DEF CacheIsRecoverable
<1>7. QED
  BY <1>4, <1>6 DEF PoolInv

(* Every step of the engine preserves the accounts.                        *)
LEMMA PoolNext == TypeInv /\ PageSafety /\ PoolInv /\ [Next]_vars => PoolInv'
<1> SUFFICES ASSUME TypeInv, PageSafety, PoolInv, [Next]_vars PROVE PoolInv'
  OBVIOUS
<1>1. ASSUME NEW r \in Request, Add(r) PROVE PoolInv'
  BY <1>1, PoolUnchanged DEF Add
<1>2. ASSUME NEW fresh \in Injection(Fresh(admitting.prompt), free), Install(fresh)
      PROVE PoolInv'
  BY <1>2, PoolInstall
<1>3. ASSUME NEW fresh \in Injection(Fresh(admitting.prompt), free), InstallFails(fresh)
      PROVE PoolInv'
  BY <1>3, InstallFailsFacts, PoolUnchanged DEF TypeInv
<1>4. ASSUME NEW fresh \in Injection(Backed(admitting.prompt), free), RetryAdmission(fresh)
      PROVE PoolInv'
  <2>1. CASE retired = <<>>
    BY <1>4, <2>1, RetryFacts, PoolUnchanged DEF TypeInv
  <2>2. CASE retired # <<>>
    BY <1>4, <2>2, RetryFacts, PoolDropOldest DEF TypeInv
  <2>3. QED
    BY <2>1, <2>2
<1>5. CASE Step
  BY <1>5, PoolStep
<1>6. ASSUME NEW part \in {"outputs", "limit"}, NEW s \in Slot, FinishNext(part, s)
      PROVE PoolInv'
  <2>1. CASE s <= active
    <3>1. s \in Live /\ Finish(s)
      BY <1>6, <2>1, SlotFacts DEF FinishNext, NextDone, Live, Slot, TypeInv, TypeOK
    <3>2. QED
      BY <3>1, PoolFinish
  <2>2. CASE ~(s <= active)
    BY <1>6, <2>2, PoolUnchanged DEF FinishNext
  <2>3. QED
    BY <2>1, <2>2
<1>7. ASSUME NEW s \in Slot, Cancel(s) PROVE PoolInv'
  BY <1>7, PoolFinish DEF Cancel
<1>8. CASE TrimRetired
  <2>1. retired # <<>>
    BY <1>8 DEF TrimRetired, TypeInv, HandlersExclude
  <2>2. QED
    BY <1>8, <2>1, PoolDropOldest DEF TrimRetired
<1>9. CASE UNCHANGED vars
  BY <1>9, PoolUnchanged DEF vars
<1>10. QED
  BY <1>1, <1>2, <1>3, <1>4, <1>5, <1>6, <1>7, <1>8, <1>9 DEF Next

(* The three invariants together, on every behaviour.                      *)
LEMMA PoolAlways == Spec => [](TypeInv /\ PageSafety /\ PoolInv)
<1>1. TypeInv /\ PageSafety /\ PoolInv /\ [Next]_vars
        => (TypeInv /\ PageSafety /\ PoolInv)'
  BY TypeNext, SafetyNext, PoolNext
<1>2. Init => TypeInv /\ PageSafety /\ PoolInv
  BY TypeInit, SafetyInit, PoolInit
<1>3. QED
  BY <1>1, <1>2, PTL DEF Spec

(* No finish, cancel, lost registration race, eviction or failed admission *)
(* leaks a page, however long the engine runs.                             *)
THEOREM NothingLeaks == Spec => []NoPageLeak
<1>1. TypeInv /\ PageSafety /\ PoolInv => NoPageLeak
  BY LeakIntro DEF PoolInv
<1>2. QED
  BY <1>1, PoolAlways, PTL

(* Every page that stays cached can be evicted one day.                    *)
THEOREM CachedIsRecoverable == Spec => []CacheIsRecoverable
<1>1. PoolInv => CacheIsRecoverable
  BY DEF PoolInv
<1>2. QED
  BY <1>1, PoolAlways, PTL

(* The tables of the live sequences hold at most active * MaxPages pages.  *)
LEMMA LiveTablesBound ==
  ASSUME TypeInv, PageSafety, NEW m \in Nat, IsFiniteSet(free), Cardinality(free) = m,
         \A p \in Page \ free : \E s \in Live : \E i \in 1 .. MaxPages : seqs[s].table[i] = p
  PROVE  MaxPages * Capacity <= active * MaxPages + m
<1> DEFINE k == active * MaxPages
<1>1. /\ MaxPages \in Nat \ {0} /\ active \in Nat /\ Capacity \in Nat \ {0}
      /\ k \in Nat /\ MaxPages * Capacity \in Nat /\ free \subseteq Page
  BY BatchingAssumption, EngineAssumption DEF TypeInv, TypeOK
<1>2. PICK f \in [1 .. m -> free] : \A p \in free : \E x \in 1 .. m : f[x] = p
  <2>1. ExistsBijection(1 .. m, free)
    BY FS_CardinalityType
  <2>2. QED
    BY <2>1 DEF ExistsBijection, Bijection, Surjection
<1> DEFINE g == [x \in 1 .. k + m |->
                   IF x <= k THEN seqs[((x - 1) \div MaxPages) + 1].table[((x - 1) % MaxPages) + 1]
                   ELSE f[x - k]]
<1> HIDE DEF k
<1>3. \A x \in 1 .. k + m : g[x] \in Page
  <2> SUFFICES ASSUME NEW x \in 1 .. k + m PROVE g[x] \in Page
    OBVIOUS
  <2>1. CASE x <= k
    <3> DEFINE y == x - 1
    <3>1. y \in Nat /\ y < active * MaxPages
      BY <1>1, <2>1 DEF k
    <3> HIDE DEF y
    <3>2. /\ y \div MaxPages \in Nat /\ (y \div MaxPages) * MaxPages <= y
          /\ y % MaxPages \in 0 .. MaxPages - 1
      BY <1>1, <3>1, DivMul
    <3>3. y \div MaxPages < active
      <4>1. SUFFICES ASSUME active <= y \div MaxPages PROVE FALSE
        BY <1>1, <3>2
      <4>2. active * MaxPages <= (y \div MaxPages) * MaxPages
        BY <1>1, <3>2, <4>1, MulMono
      <4>3. (y \div MaxPages) * MaxPages \in Nat /\ active * MaxPages \in Nat
        BY <1>1, <3>2
      <4>4. QED
        BY <3>1, <3>2, <4>2, <4>3
    <3>4. (y \div MaxPages) + 1 \in Live /\ (y % MaxPages) + 1 \in 1 .. MaxPages
      BY <1>1, <3>2, <3>3 DEF Live
    <3>5. seqs[(y \div MaxPages) + 1].table[(y % MaxPages) + 1] \in Page
      BY <3>4, SafetyFacts
    <3>6. QED
      BY <2>1, <3>5 DEF y
  <2>2. CASE ~(x <= k)
    <3>1. x - k \in 1 .. m /\ g[x] = f[x - k]
      BY <1>1, <2>2
    <3>2. QED
      BY <1>1, <1>2, <3>1
  <2>3. QED
    BY <2>1, <2>2
<1>4. ASSUME NEW p \in Page PROVE \E x \in 1 .. k + m : g[x] = p
  <2>1. CASE p \in free
    <3>1. PICK x \in 1 .. m : f[x] = p
      BY <1>2, <2>1
    <3>2. x + k \in 1 .. k + m /\ ~(x + k <= k) /\ (x + k) - k = x
      BY <1>1
    <3>3. g[x + k] = p
      BY <3>1, <3>2
    <3>4. QED
      BY <3>2, <3>3
  <2>2. CASE p \notin free
    <3>1. PICK s \in Live, i \in 1 .. MaxPages : seqs[s].table[i] = p
      BY <2>2
    <3> DEFINE a == s - 1
               y == a * MaxPages + (i - 1)
    <3>2. a \in Nat /\ a + 1 <= active /\ a + 1 = s /\ i - 1 \in 0 .. MaxPages - 1
      BY <1>1 DEF Live
    <3> HIDE DEF a
    <3>3. (a + 1) * MaxPages <= active * MaxPages /\ (a + 1) * MaxPages = a * MaxPages + MaxPages
      <4>1. a + 1 \in Nat /\ a + 1 <= active
        BY <3>2
      <4>2. (a + 1) * MaxPages <= active * MaxPages
        BY <1>1, <4>1, MulMono
      <4>3. (a + 1) * MaxPages = a * MaxPages + MaxPages
        BY <1>1, <3>2
      <4>4. QED
        BY <4>2, <4>3
    <3>4. y \in Nat /\ y + 1 \in 1 .. k
      BY <1>1, <3>2, <3>3 DEF k
    <3>5. y \div MaxPages = a /\ y % MaxPages = i - 1
      BY <1>1, <3>2, SMTT(60)
    <3> HIDE DEF y
    <3>6. y + 1 \in 1 .. k + m /\ y + 1 <= k /\ (y + 1) - 1 = y
      BY <1>1, <3>4
    <3>7. (i - 1) + 1 = i
      BY <1>1
    <3>8. g[y + 1] = seqs[a + 1].table[i]
      BY <3>5, <3>6, <3>7
    <3>9. QED
      BY <3>1, <3>2, <3>6, <3>8
  <2>3. QED
    BY <2>1, <2>2
<1>5. g \in Surjection(1 .. k + m, Page)
  <2>1. g \in [1 .. k + m -> Page]
    BY <1>3
  <2> HIDE DEF g
  <2>2. QED
    BY <1>4, <2>1 DEF Surjection
<1>6. Cardinality(Page) <= k + m
  <2>1. ExistsSurjection(1 .. k + m, Page) /\ k + m \in Nat
    BY <1>1, <1>5 DEF ExistsSurjection
  <2>2. QED
    BY <2>1, FS_SurjCardinalityBound
<1>7. Cardinality(Page) = MaxPages * Capacity
  <2> DEFINE n == MaxPages * Capacity - 1
  <2>1. 0 \in Int /\ n \in Int /\ n >= 0
    BY <1>1
  <2>2. Cardinality(0 .. n) = IF 0 > n THEN 0 ELSE n - 0 + 1
    BY <2>1, FS_Interval
  <2> HIDE DEF n
  <2>3. Cardinality(0 .. n) = n + 1
    BY <2>1, <2>2
  <2>4. QED
    BY <1>1, <2>3 DEF n, Page
<1>8. QED
  BY <1>6, <1>7 DEF k

(* With nothing left to evict and a slot free, the pool backs any plan.    *)
LEMMA DrainedPoolSuffices == TypeInv /\ PageSafety /\ PoolInv => AdmissionNeverStarves
<1> SUFFICES ASSUME TypeInv, PageSafety, PoolInv, admitting # NoRequest, retired = <<>>
             PROVE  Cardinality(free) >= Cardinality(Fresh(admitting.prompt))
  BY DEF AdmissionNeverStarves
<1> DEFINE need == Fresh(admitting.prompt)
           m == Cardinality(free)
<1>1. /\ MaxPages \in Nat \ {0} /\ Capacity \in Nat \ {0} /\ MaxPages * Capacity \in Nat
      /\ active \in Nat /\ active < Capacity /\ active + 1 \in Nat /\ active + 1 <= Capacity
      /\ free \subseteq Page
  BY BatchingAssumption, EngineAssumption DEF TypeInv, TypeOK, HandlersExclude
<1>2. IsFiniteSet(free) /\ m \in Nat
  <2>1. 0 \in Int /\ MaxPages * Capacity - 1 \in Int
    BY <1>1
  <2>2. IsFiniteSet(Page)
    BY <2>1, FS_Interval DEF Page
  <2>3. QED
    BY <1>1, <2>2, FS_Subset, FS_CardinalityType
<1>3. \A p \in Page \ free : \E s \in Live : \E i \in 1 .. MaxPages : seqs[s].table[i] = p
  <2> SUFFICES ASSUME NEW p \in Page \ free
               PROVE  \E s \in Live : \E i \in 1 .. MaxPages : seqs[s].table[i] = p
    OBVIOUS
  <2>1. CASE \E h \in Hashes : cache[h] = p
    <3>1. PICK h \in Hashes : cache[h] = p
      BY <2>1
    <3>2. cache[h] # NoPage
      BY <3>1, PageFacts
    <3>3. Len(retired) = 0
      OBVIOUS
    <3>4. PICK s \in Live : cache[h] \in Range(seqs[s].table)
      BY <3>2, <3>3 DEF PoolInv, CacheIsRecoverable
    <3>5. QED
      BY <3>1, <3>4, SequenceFacts DEF Range, TypeInv
  <2>2. QED
    BY <2>1 DEF PoolInv, Held
<1> HIDE DEF m
<1>4. MaxPages * Capacity <= active * MaxPages + m
  <2>1. Cardinality(free) = m
    BY DEF m
  <2>2. QED
    BY <1>2, <1>3, <2>1, LiveTablesBound
<1>5. MaxPages <= m
  <2>1. (active + 1) * MaxPages <= Capacity * MaxPages
    BY <1>1, MulMono
  <2>2. /\ (active + 1) * MaxPages = active * MaxPages + MaxPages
        /\ Capacity * MaxPages = MaxPages * Capacity
        /\ active * MaxPages \in Nat
    BY <1>1
  <2>3. QED
    BY <1>1, <1>2, <1>4, <2>1, <2>2
<1>6. Cardinality(need) \in Nat /\ Cardinality(need) <= MaxPages
  <2>1. 1 \in Int /\ MaxPages \in Int /\ MaxPages > 0
    BY <1>1
  <2>2. /\ IsFiniteSet(1 .. MaxPages)
        /\ Cardinality(1 .. MaxPages) = IF 1 > MaxPages THEN 0 ELSE MaxPages - 1 + 1
    BY <2>1, FS_Interval
  <2>3. Cardinality(1 .. MaxPages) = MaxPages
    BY <2>1, <2>2
  <2>4. need \subseteq 1 .. MaxPages
    BY DEF Fresh
  <2> HIDE DEF need
  <2>5. QED
    BY <2>2, <2>3, <2>4, FS_Subset, FS_CardinalityType
<1>7. Cardinality(need) <= m
  BY <1>1, <1>2, <1>5, <1>6
<1>8. QED
  BY <1>2, <1>6, <1>7 DEF m

(* Below capacity the pool always suffices once the retired list is        *)
(* drained: admission never refuses a valid request for want of pages.     *)
THEOREM AdmissionFindsPages == Spec => []AdmissionNeverStarves
BY DrainedPoolSuffices, PoolAlways, PTL

(***************************************************************************)
(* What attention reads: each position a sequence has consumed holds the   *)
(* KV of its own tokens (ReadsOwnContext), and a registered page is full   *)
(* of the prefix it is registered under (CacheIsMaterialized).  Neither is *)
(* inductive alone: a reused prefix is own context because the cache is    *)
(* materialized, and a page is registered by a sequence that reads its own *)
(* context there.  Both need the tables on the device to be the host's     *)
(* (Installed) and PageSafety.                                             *)
(***************************************************************************)


(* A position lies in one page of the table and at one offset of it.       *)
LEMMA PositionFacts ==
  ASSUME NEW n \in 0 .. MaxSeq - 1
  PROVE  /\ (n \div TokensPerPage) + 1 \in 1 .. MaxPages
         /\ OffsetOf(n) \in Offset
         /\ n = (n \div TokensPerPage) * TokensPerPage + OffsetOf(n)
<1> DEFINE t == TokensPerPage
           m == MaxPages
<1>1. /\ t \in Nat \ {0} /\ m \in Nat \ {0} /\ MaxSeq = m * t
      /\ n \in Nat /\ n < m * t
  BY BatchingAssumption, EngineAssumption
<1> HIDE DEF t, m
<1>2. /\ n \div t \in Nat
      /\ n % t \in 0 .. t - 1
      /\ n = (n \div t) * t + (n % t)
  BY <1>1, SMTT(60)
<1>3. n \div t < m
  <2>1. SUFFICES ASSUME m <= n \div t PROVE FALSE
    BY <1>1, <1>2
  <2>2. m * t <= (n \div t) * t
    BY <1>1, <1>2, <2>1, MulMono
  <2>3. (n \div t) * t \in Nat /\ m * t \in Nat
    BY <1>1, <1>2
  <2>4. QED
    BY <1>1, <1>2, <2>2, <2>3
<1>4. QED
  BY <1>1, <1>2, <1>3 DEF t, m, OffsetOf, Offset

(* Offset o of page i of a table is a position of its own.                 *)
LEMMA CellFacts ==
  ASSUME NEW i \in 1 .. MaxPages, NEW o \in Offset
  PROVE  LET n == (i - 1) * TokensPerPage + o
         IN  /\ n \in 0 .. MaxSeq - 1
             /\ n \div TokensPerPage = i - 1
             /\ OffsetOf(n) = o
             /\ n = i * TokensPerPage - TokensPerPage + o
             /\ n + 1 <= i * TokensPerPage
<1> DEFINE t == TokensPerPage
           m == MaxPages
           k == i - 1
           n == k * t + o
<1>1. /\ t \in Nat \ {0} /\ m \in Nat \ {0} /\ MaxSeq = m * t
      /\ k \in Nat /\ k + 1 <= m /\ i = k + 1
      /\ o \in 0 .. t - 1
  BY BatchingAssumption, EngineAssumption DEF Offset
<1> HIDE DEF t, m, k
<1>2. /\ n \in Nat /\ n \div t = k /\ n % t = o
  BY <1>1, SMTT(60)
<1>3. i * t = k * t + t /\ k * t \in Nat
  BY <1>1
<1>4. (k + 1) * t <= m * t /\ m * t \in Nat /\ (k + 1) * t = k * t + t
  BY <1>1, MulMono
<1>5. n \in 0 .. MaxSeq - 1 /\ n = i * t - t + o /\ n + 1 <= i * t
  BY <1>1, <1>2, <1>3, <1>4
<1>6. QED
  BY <1>2, <1>5 DEF t, k, OffsetOf

(* The host's table of each live slot is the one on the device, and a      *)
(* sequence consumes no position beyond it.                                *)
Installed ==
  \A s \in Live : dev[s] = seqs[s].table /\ seqs[s].len <= MaxSeq

ContextInv == Installed /\ ReadsOwnContext /\ CacheIsMaterialized

(* The cell a live sequence uses for position n.                           *)
LEMMA CellOf ==
  ASSUME TypeInv, Installed, NEW s \in Live, NEW n \in 0 .. MaxSeq - 1
  PROVE  /\ PageOf(s, n) = seqs[s].table[(n \div TokensPerPage) + 1]
         /\ PageOf(s, n) \in Page
BY PositionFacts, SequenceFacts DEF TypeInv, Installed, PageOf

(* What a sequence has consumed is within the context.                     *)
LEMMA ConsumedFits ==
  ASSUME TypeInv, Installed, NEW s \in Live, NEW n \in 0 .. seqs[s].len - 1
  PROVE  n \in 0 .. MaxSeq - 1
<1>1. seqs[s].len \in Nat
  BY SequenceFacts DEF TypeInv
<1>2. seqs[s].len <= MaxSeq
  BY DEF Installed
<1>3. QED
  BY <1>1, <1>2, BatchingAssumption

(* What a cell of full page i of a prompt holds once it is materialized:   *)
(* the same prefix, whether taken of the prompt, of the page's hash or of  *)
(* the tokens of a sequence with this prompt.                              *)
LEMMA PrefixOfHash ==
  ASSUME NEW p \in Prompts, NEW i \in 1 .. FullPages(p), NEW gen \in Seq(Token),
         NEW n \in Nat, n + 1 <= i * TokensPerPage
  PROVE  /\ SubSeq(Hash(p, i), 1, n + 1) = SubSeq(p, 1, n + 1)
         /\ SubSeq(p \o gen, 1, n + 1) = SubSeq(p, 1, n + 1)
<1>1. /\ p \in Seq(Token) /\ Len(p) \in Nat
      /\ FullPages(p) \in Nat /\ FullPages(p) * TokensPerPage <= Len(p)
      /\ TokensPerPage \in Nat \ {0}
  BY PromptFacts, BatchingAssumption, EngineAssumption
<1>2. i * TokensPerPage \in 0 .. Len(p)
  <2>1. i * TokensPerPage <= FullPages(p) * TokensPerPage
    BY <1>1, MulMono
  <2>2. i * TokensPerPage \in Nat /\ FullPages(p) * TokensPerPage \in Nat
    BY <1>1
  <2>3. QED
    BY <1>1, <2>1, <2>2
<1>3. SubSeq(Hash(p, i), 1, n + 1) = SubSeq(p, 1, n + 1)
  BY <1>1, <1>2, SubSeqOfSubSeq DEF Hash
<1>4. SubSeq(p \o gen, 1, n + 1) = SubSeq(p, 1, n + 1)
  BY <1>1, <1>2, SubSeqOfConcat1
<1>5. QED
  BY <1>3, <1>4

(* Two rows that meet in a cell of the pool store the same context there:  *)
(* they are at the same position, and of different sequences only in a     *)
(* full page of their common prefix.                                       *)
LEMMA SameCell ==
  ASSUME TypeInv, PageSafety, Installed, NEW s \in Live, NEW t \in Live,
         NEW n \in 0 .. MaxSeq - 1, NEW m \in 0 .. MaxSeq - 1,
         PageOf(s, n) = PageOf(t, m), OffsetOf(n) = OffsetOf(m)
  PROVE  n = m /\ Context(seqs[s], n) = Context(seqs[t], m)
<1> DEFINE i == (n \div TokensPerPage) + 1
           j == (m \div TokensPerPage) + 1
           p == seqs[s].prompt
           q == seqs[t].prompt
<1>1. /\ i \in 1 .. MaxPages /\ j \in 1 .. MaxPages
      /\ n = (i - 1) * TokensPerPage + OffsetOf(n) /\ OffsetOf(n) \in Offset
      /\ m = (j - 1) * TokensPerPage + OffsetOf(m)
      /\ MaxPages \in Nat
  <2>1. MaxPages \in Nat
    BY BatchingAssumption, EngineAssumption
  <2> DEFINE a == n \div TokensPerPage
             c == m \div TokensPerPage
  <2>2. /\ a + 1 \in 1 .. MaxPages /\ c + 1 \in 1 .. MaxPages
        /\ n = a * TokensPerPage + OffsetOf(n) /\ OffsetOf(n) \in Offset
        /\ m = c * TokensPerPage + OffsetOf(m)
    BY PositionFacts
  <2>3. a \in Int /\ c \in Int
    BY BatchingAssumption, EngineAssumption
  <2> HIDE DEF a, c
  <2>4. i = a + 1 /\ j = c + 1
    BY DEF a, c
  <2> HIDE DEF i, j
  <2>5. i - 1 = a /\ j - 1 = c
    BY <2>3, <2>4
  <2>6. QED
    BY <2>1, <2>2, <2>4, <2>5
<1>2. seqs[s].table[i] = seqs[t].table[j]
  BY CellOf
<1>3. i = j
  BY <1>1, <1>2, SafetyFacts DEF PageSafety, SharedOnlyByPrefix
<1> HIDE DEF i, j
<1>4. n = m
  BY <1>1, <1>3
<1>5. CASE s = t
  BY <1>4, <1>5
<1>6. CASE s # t
  <2>1. /\ i <= FullPages(p) /\ cache[Hash(p, i)] = seqs[s].table[i]
        /\ i <= FullPages(q) /\ cache[Hash(q, i)] = seqs[s].table[i]
    BY <1>1, <1>2, <1>3, <1>6 DEF PageSafety, SharedOnlyByPrefix
  <2>2. /\ p \in Prompts /\ q \in Prompts
        /\ FullPages(p) \in Nat /\ FullPages(q) \in Nat
    BY SafetyFacts, PromptFacts, BatchingAssumption, EngineAssumption
  <2>3. i \in 1 .. FullPages(p) /\ i \in 1 .. FullPages(q)
    BY <1>1, <2>1, <2>2
  <2>4. Hash(p, i) = Hash(q, i)
    BY <1>1, <2>1, <2>2, <2>3, HashFacts DEF PageSafety, SharedOnlyByPrefix
  <2>5. n \in Nat /\ n + 1 <= i * TokensPerPage
    BY <1>1, CellFacts
  <2>6. seqs[s].gen \in Seq(Token) /\ seqs[t].gen \in Seq(Token)
    BY SequenceFacts DEF TypeInv
  <2>7. /\ SubSeq(p \o seqs[s].gen, 1, n + 1) = SubSeq(Hash(p, i), 1, n + 1)
        /\ SubSeq(q \o seqs[t].gen, 1, n + 1) = SubSeq(Hash(q, i), 1, n + 1)
    <3> HIDE DEF p, q
    <3>1. \A r \in Prompts : \A gen \in Seq(Token) : i \in 1 .. FullPages(r) =>
            SubSeq(r \o gen, 1, n + 1) = SubSeq(Hash(r, i), 1, n + 1)
      BY <2>5, PrefixOfHash
    <3>2. QED
      BY <2>2, <2>3, <2>6, <3>1
  <2>8. QED
    BY <1>4, <2>4, <2>7 DEF Context, Tokens
<1>7. QED
  BY <1>5, <1>6

(* A row that falls into a registered page stores what the page's hash     *)
(* says it holds.                                                          *)
LEMMA RegisteredCell ==
  ASSUME TypeInv, PageSafety, Installed, NEW t \in Live,
         NEW n \in 0 .. MaxSeq - 1, NEW h \in Hashes, cache[h] = PageOf(t, n)
  PROVE  Context(seqs[t], n) = SubSeq(h, 1, Len(h) - TokensPerPage + OffsetOf(n) + 1)
<1> DEFINE a == n \div TokensPerPage
           i == a + 1
           q == seqs[t].prompt
<1>1. /\ i \in 1 .. MaxPages /\ OffsetOf(n) \in Offset
      /\ n = a * TokensPerPage + OffsetOf(n)
      /\ a \in Int /\ TokensPerPage \in Nat /\ MaxPages \in Nat
  BY PositionFacts, BatchingAssumption, EngineAssumption
<1>2. i <= FullPages(q) /\ h = Hash(q, i)
  BY <1>1, CellOf DEF PageSafety, SharedOnlyByPrefix
<1>3. q \in Prompts /\ FullPages(q) \in Nat /\ seqs[t].gen \in Seq(Token)
  <2>1. q \in Prompts /\ seqs[t].gen \in Seq(Token)
    BY SequenceFacts DEF TypeInv
  <2>2. FullPages(q) \in Nat
    BY <2>1, PromptFacts, BatchingAssumption, EngineAssumption
  <2>3. QED
    BY <2>1, <2>2
<1>4. i \in 1 .. FullPages(q)
  BY <1>1, <1>2, <1>3
<1>5. Len(h) = i * TokensPerPage
  BY <1>2, <1>3, <1>4, HashFacts
<1> HIDE DEF a
<1>6. /\ n \in Nat /\ n + 1 <= i * TokensPerPage
      /\ n + 1 = Len(h) - TokensPerPage + OffsetOf(n) + 1
  <2>1. i - 1 = a
    BY <1>1
  <2> HIDE DEF i
  <2>2. n = i * TokensPerPage - TokensPerPage + OffsetOf(n) /\ n + 1 <= i * TokensPerPage
    BY <1>1, <2>1, CellFacts
  <2>3. QED
    BY <1>5, <2>2
<1> HIDE DEF i
<1>7. SubSeq(q \o seqs[t].gen, 1, n + 1) = SubSeq(Hash(q, i), 1, n + 1)
  BY <1>3, <1>4, <1>6, PrefixOfHash
<1>8. QED
  BY <1>2, <1>6, <1>7 DEF Context, Tokens

(* The pages a plan aliases are the leading ones: what it reuses lies in   *)
(* them.                                                                   *)
LEMMA ReusedIsAliased ==
  ASSUME NEW p \in Prompts, NEW n \in Nat, n < ReusedTokens(p)
  PROVE  (n \div TokensPerPage) + 1 \in Aliased(p)
<1> DEFINE a == n \div TokensPerPage
           c == Cardinality(Aliased(p))
<1>1. /\ TokensPerPage \in Nat \ {0} /\ FullPages(p) \in Nat
      /\ a \in Nat /\ a * TokensPerPage <= n
  BY PromptFacts, DivMul, BatchingAssumption, EngineAssumption
<1>2. SUFFICES ASSUME a + 1 \notin Aliased(p) PROVE FALSE
  OBVIOUS
<1>3. Aliased(p) \subseteq 1 .. a
  <2>1. SUFFICES ASSUME NEW k \in Aliased(p), ~(k <= a) PROVE FALSE
    BY AliasedFacts, <1>1
  <2>2. /\ k \in 1 .. FullPages(p)
        /\ \A j \in 1 .. k : cache[Hash(p, j)] # NoPage
    BY DEF Aliased
  <2> HIDE DEF a
  <2>3. /\ a + 1 \in 1 .. FullPages(p)
        /\ \A j \in 1 .. a + 1 : j \in 1 .. k
    BY <1>1, <2>1, <2>2
  <2>4. QED
    BY <1>2, <2>2, <2>3 DEF Aliased
<1> HIDE DEF a
<1>4. c \in Nat /\ c <= a
  <2>1. IsFiniteSet(1 .. a) /\ Cardinality(1 .. a) = a
    <3>1. 1 \in Int /\ a \in Int /\ a \in Nat
      BY <1>1
    <3>2. /\ IsFiniteSet(1 .. a)
          /\ Cardinality(1 .. a) = IF 1 > a THEN 0 ELSE a - 1 + 1
      BY <3>1, FS_Interval
    <3>3. QED
      BY <3>1, <3>2
  <2>2. IsFiniteSet(Aliased(p)) /\ c <= a
    BY <1>3, <2>1, FS_Subset
  <2>3. QED
    BY <2>2, FS_CardinalityType
<1>5. c * TokensPerPage <= a * TokensPerPage
  BY <1>1, <1>4, MulMono
<1>6. ReusedTokens(p) <= c * TokensPerPage
  <2> DEFINE r == c * TokensPerPage
  <2>1. r \in Nat
    BY <1>1, <1>4
  <2>2. ReusedTokens(p) \in {r, r - 1}
    BY DEF ReusedTokens
  <2> HIDE DEF r
  <2>3. ReusedTokens(p) <= r
    BY <2>1, <2>2
  <2>4. QED
    BY <2>3 DEF r
<1>7. QED
  <2> DEFINE x == ReusedTokens(p)
             y == c * TokensPerPage
             z == a * TokensPerPage
  <2>1. x \in Nat /\ y \in Nat /\ z \in Nat /\ n < x /\ x <= y /\ y <= z /\ z <= n
    BY <1>1, <1>4, <1>5, <1>6, AliasedFacts
  <2> HIDE DEF x, y, z
  <2>2. QED
    BY <2>1

(* A new engine has consumed nothing.                                      *)
LEMMA ContextInit == Init => ContextInv
<1> SUFFICES ASSUME Init PROVE ContextInv
  OBVIOUS
<1>1. Live = {}
  BY DEF Init, Live
<1>2. \A h \in Hashes : cache[h] = NoPage
  BY DEF Init
<1>3. QED
  BY <1>1, <1>2 DEF ContextInv, Installed, ReadsOwnContext, CacheIsMaterialized

(* Steps that touch no sequence, table, cache entry or cell preserve it.   *)
LEMMA ContextUnchanged ==
  ASSUME ContextInv, UNCHANGED <<seqs, active, cache, dev, kv>>
  PROVE  ContextInv'
BY DEF ContextInv, Installed, ReadsOwnContext, CacheIsMaterialized, Live, PageOf

(* Admission: the positions a plan does not prefill are those of           *)
(* materialized pages of the same prompt.                                  *)
LEMMA ContextInstall ==
  ASSUME TypeInv, ContextInv,
         NEW fresh \in Injection(Fresh(admitting.prompt), free), Install(fresh)
  PROVE  ContextInv'
<1> DEFINE p == admitting.prompt
           slot == active + 1
           table == [i \in 1 .. MaxPages |->
                       IF i \in Aliased(p) THEN cache[Hash(p, i)] ELSE fresh[i]]
           new == [prompt |-> p, gen |-> <<>>, len |-> ReusedTokens(p),
                   maxNew |-> admitting.maxNew, ended |-> FALSE, table |-> table]
<1>1. /\ TypeOK /\ OneTokenBehind /\ HandlersExclude
      /\ admitting # NoRequest
      /\ p \in Prompts
  BY RequestFacts DEF TypeInv, Install
<1>2. slot \in Slot /\ slot \notin Live
  BY <1>1, SlotFacts DEF TypeOK, HandlersExclude, Slot, Live
<1>3. /\ seqs' = [seqs EXCEPT ![slot] = new]
      /\ dev' = [dev EXCEPT ![slot] = table]
      /\ active' = slot
      /\ UNCHANGED <<cache, kv>>
  BY <1>1, PlannedWhole DEF Install
<1>4. Live' = Live \cup {slot}
  BY <1>1, <1>2, <1>3 DEF Live, TypeOK, Slot
<1>5. /\ \A s \in Live : s \in Slot /\ seqs'[s] = seqs[s] /\ dev'[s] = dev[s]
      /\ seqs'[slot] = new /\ dev'[slot] = table
  BY <1>1, <1>2, <1>3, SequenceFacts DEF TypeOK
<1>6. ReusedTokens(p) \in Nat /\ ReusedTokens(p) <= MaxSeq
  BY <1>1, AliasedFacts, PromptFacts, BatchingAssumption
<1>7. ASSUME NEW n \in 0 .. ReusedTokens(p) - 1
      PROVE  kv[table[(n \div TokensPerPage) + 1]][OffsetOf(n)] = Context(new, n)
  <2> DEFINE i == (n \div TokensPerPage) + 1
             h == Hash(p, i)
             o == OffsetOf(n)
  <2>1. n \in 0 .. MaxSeq - 1 /\ n \in Nat /\ n < ReusedTokens(p)
    BY <1>6, BatchingAssumption
  <2>2. i \in 1 .. MaxPages /\ o \in Offset
    BY <2>1, PositionFacts
  <2>3. i \in Aliased(p) /\ i \in 1 .. FullPages(p) /\ cache[h] # NoPage
    BY <1>1, <2>1, ReusedIsAliased, AliasedFacts
  <2>4. h \in Hashes /\ Len(h) = i * TokensPerPage
    BY <1>1, <2>3, HashFacts
  <2>5. table[i] = cache[h]
    BY <2>2, <2>3
  <2>6. kv[cache[h]][o] = SubSeq(h, 1, Len(h) - TokensPerPage + o + 1)
    BY <2>2, <2>3, <2>4 DEF ContextInv, CacheIsMaterialized
  <2>7. n + 1 = Len(h) - TokensPerPage + o + 1 /\ n + 1 <= i * TokensPerPage
    <3> DEFINE a == n \div TokensPerPage
    <3>1. a \in Int /\ n = a * TokensPerPage + o /\ TokensPerPage \in Nat /\ o \in Offset
      BY <2>1, PositionFacts, BatchingAssumption, EngineAssumption
    <3> HIDE DEF a
    <3>2. i = a + 1
      BY DEF a
    <3> HIDE DEF i
    <3>3. i - 1 = a
      BY <3>1, <3>2
    <3>4. n = i * TokensPerPage - TokensPerPage + o /\ n + 1 <= i * TokensPerPage
      BY <2>2, <3>1, <3>3, CellFacts
    <3>5. QED
      BY <2>4, <3>4
  <2> HIDE DEF i
  <2>8. SubSeq(h, 1, n + 1) = SubSeq(p \o <<>>, 1, n + 1)
    BY <1>1, <2>1, <2>3, <2>7, PrefixOfHash, EmptySeq
  <2>9. Context(new, n) = SubSeq(p \o <<>>, 1, n + 1)
    BY DEF Context, Tokens
  <2>10. kv[table[i]][o] = Context(new, n)
    BY <2>5, <2>6, <2>7, <2>8, <2>9
  <2>11. QED
    BY <2>10 DEF i
<1>8. new.table = table /\ new.len = ReusedTokens(p)
  OBVIOUS
<1> HIDE DEF table, new, slot
<1>9. Installed'
  BY <1>4, <1>5, <1>6, <1>8 DEF ContextInv, Installed
<1>10. CacheIsMaterialized'
  BY <1>3 DEF ContextInv, CacheIsMaterialized
<1>11. ReadsOwnContext'
  <2>1. ASSUME NEW s \in Live, NEW n \in 0 .. seqs[s].len - 1
        PROVE  kv'[dev'[s][(n \div TokensPerPage) + 1]][OffsetOf(n)] = Context(seqs'[s], n)
    BY <1>3, <1>5, <2>1 DEF ContextInv, ReadsOwnContext, PageOf
  <2>2. \A n \in 0 .. new.len - 1 :
          kv'[dev'[slot][(n \div TokensPerPage) + 1]][OffsetOf(n)] = Context(seqs'[slot], n)
    BY <1>3, <1>5, <1>7, <1>8
  <2>3. QED
    BY <1>4, <1>5, <2>1, <2>2 DEF ReadsOwnContext, PageOf
<1>12. QED
  BY <1>9, <1>10, <1>11 DEF ContextInv

(* Eviction scrubs pages that no table and no other hash holds.            *)
LEMMA ContextDropOldest ==
  ASSUME TypeInv, PageSafety, ContextInv, retired # <<>>, DropOldest(free, Freeable),
         UNCHANGED <<seqs, active, dev>>
  PROVE  ContextInv'
<1> DEFINE pages == {cache[h] : h \in Freeable}
<1>1. /\ cache' = [h \in Hashes |-> IF h \in Freeable THEN NoPage ELSE cache[h]]
      /\ \A q \in Page : q \notin pages => kv'[q] = kv[q]
      /\ seqs' = seqs /\ Live' = Live /\ dev' = dev
  BY DEF DropOldest, Scrub, Live
<1>2. \A h \in Freeable : h \in Hashes /\ cache[h] \in Page /\ cache[h] \notin Referenced
  BY FreeableFacts DEF TypeInv
<1>3. Installed'
  BY <1>1 DEF ContextInv, Installed
<1>4. CacheIsMaterialized'
  <2>1. ASSUME NEW h \in Hashes, cache'[h] # NoPage
        PROVE  cache'[h] = cache[h] /\ kv'[cache[h]] = kv[cache[h]]
    <3>1. h \notin Freeable /\ cache'[h] = cache[h] /\ cache[h] \in Page
      BY <1>1, <2>1 DEF TypeInv, TypeOK
    <3>2. ASSUME NEW g \in Freeable, cache[h] = cache[g] PROVE FALSE
      BY <1>2, <3>1, <3>2, PageFacts DEF PageSafety, NoDanglingPage
    <3>3. QED
      BY <1>1, <3>1, <3>2
  <2>2. QED
    BY <2>1 DEF ContextInv, CacheIsMaterialized
<1>5. ReadsOwnContext'
  <2>1. ASSUME NEW s \in Live, NEW n \in 0 .. seqs[s].len - 1
        PROVE  kv'[PageOf(s, n)][OffsetOf(n)] = Context(seqs[s], n)
    <3>1. n \in 0 .. MaxSeq - 1
      BY ConsumedFits DEF ContextInv
    <3>2. PageOf(s, n) \in Page /\ PageOf(s, n) \in Referenced
      BY <3>1, CellOf, PositionFacts, SafetyFacts DEF ContextInv
    <3>3. PageOf(s, n) \notin pages
      BY <1>2, <3>2
    <3>4. QED
      BY <1>1, <3>2, <3>3 DEF ContextInv, ReadsOwnContext
  <2>2. QED
    BY <1>1, <2>1 DEF ReadsOwnContext, PageOf
<1>6. QED
  BY <1>3, <1>4, <1>5 DEF ContextInv

(* Retiring scrubs pages that nobody else reads, and every sequence that   *)
(* moves down takes its table to the device along.                         *)
LEMMA ContextFinish ==
  ASSUME TypeInv, PageSafety, ContextInv, NEW s \in Live, Finish(s)
  PROVE  ContextInv'
<1> DEFINE drop == (1 .. MaxPages) \ Kept(seqs[s])
           pages == {seqs[s].table[i] : i \in drop}
<1>1. /\ cache' = cache
      /\ \A q \in Page : q \notin pages => kv'[q] = kv[q]
      /\ dev' = [i \in Slot |-> IF s <= i /\ i < active THEN seqs[i + 1].table ELSE dev[i]]
      /\ active' = active - 1
  BY DEF Finish, Scrub, Reinstalled
<1>2. \A t \in Live' : /\ t \in Slot /\ Source(s, t) \in Live \ {s}
                        /\ seqs'[t] = seqs[Source(s, t)]
  BY FinishShift DEF TypeInv
<1>3. \A t \in Live' : dev'[t] = dev[Source(s, t)]
  <2> SUFFICES ASSUME NEW t \in Live' PROVE dev'[t] = dev[Source(s, t)]
    OBVIOUS
  <2>1. t \in Nat /\ s \in Nat /\ active \in Nat /\ t < active /\ t \in Slot
    BY <1>1, <1>2, FinishShift, SlotFacts DEF TypeInv, Live
  <2>2. Source(s, t) = IF t < s THEN t ELSE t + 1
    BY DEF Source
  <2>3. dev[Source(s, t)] = seqs[Source(s, t)].table
    BY <1>2 DEF ContextInv, Installed
  <2>4. QED
    BY <1>1, <2>1, <2>2, <2>3
<1>4. Installed'
  BY <1>2, <1>3 DEF ContextInv, Installed
<1>5. CacheIsMaterialized'
  <2>1. ASSUME NEW h \in Hashes, cache[h] # NoPage PROVE kv'[cache[h]] = kv[cache[h]]
    <3>1. cache[h] \in Page
      BY <2>1 DEF TypeInv, TypeOK
    <3>2. cache[h] \notin pages
      BY DroppedPages
    <3>3. QED
      BY <1>1, <3>1, <3>2
  <2>2. QED
    BY <1>1, <2>1 DEF ContextInv, CacheIsMaterialized
<1>6. ASSUME NEW t \in Live \ {s}, NEW n \in 0 .. seqs[t].len - 1
      PROVE  kv'[PageOf(t, n)][OffsetOf(n)] = Context(seqs[t], n)
  <2>1. n \in 0 .. MaxSeq - 1
    BY ConsumedFits DEF ContextInv
  <2>2. /\ PageOf(t, n) \in Page
        /\ \E j \in 1 .. MaxPages : PageOf(t, n) = seqs[t].table[j]
    BY <2>1, CellOf, PositionFacts DEF ContextInv
  <2>3. PageOf(t, n) \notin pages
    BY <2>2, DroppedPages
  <2>4. QED
    BY <1>1, <2>2, <2>3 DEF ContextInv, ReadsOwnContext
<1>7. ReadsOwnContext'
  BY <1>2, <1>3, <1>6 DEF ReadsOwnContext, PageOf
<1>8. QED
  BY <1>4, <1>5, <1>7 DEF ContextInv

(* No row a sequence may take lies beyond the context.                     *)
LEMMA WantedFits ==
  ASSUME TypeInv, Installed, NEW s \in Live
  PROVE  seqs[s].len + Wanted(seqs[s]) <= MaxSeq
<1> DEFINE q == seqs[s]
           l == q.len
           w == Wanted(q)
<1>1. /\ l \in Nat /\ l <= MaxSeq /\ MaxSeq \in Nat
      /\ Len(q.prompt) \in Nat /\ Len(q.prompt) <= MaxSeq
  <2>1. q.prompt \in Prompts /\ l \in Nat
    BY SequenceFacts DEF TypeInv
  <2>2. Len(q.prompt) \in 1 .. MaxSeq /\ MaxSeq \in Nat
    BY <2>1, PromptFacts, BatchingAssumption
  <2>3. l <= MaxSeq
    BY DEF Installed
  <2>4. QED
    BY <2>1, <2>2, <2>3
<1>2. l + w <= MaxSeq
  <2>1. CASE q.gen = <<>>
    <3>1. Pending(q) = Len(q.prompt) - l /\ l < Len(q.prompt)
      BY <2>1 DEF Pending, TypeInv, OneTokenBehind
    <3>2. w = Len(q.prompt) - l
      BY <1>1, <3>1 DEF Wanted
    <3> HIDE DEF w, l, q
    <3>3. QED
      BY <1>1, <3>2
  <2>2. CASE q.gen # <<>>
    <3>1. w = IF l >= MaxSeq THEN 0 ELSE 1
      BY <2>2 DEF Wanted, Pending
    <3> HIDE DEF w, l, q
    <3>2. QED
      BY <1>1, <3>1
  <2>3. QED
    BY <2>1, <2>2
<1>3. QED
  BY <1>2

(* Tokens sampled later do not change the context of a consumed position.  *)
LEMMA ContextKept ==
  ASSUME TypeInv, NEW s \in Live, NEW q, q.prompt = seqs[s].prompt,
         q.gen = seqs[s].gen \/ \E t \in Token : q.gen = Append(seqs[s].gen, t),
         NEW n \in Nat, n < Len(Tokens(seqs[s]))
  PROVE  Context(q, n) = Context(seqs[s], n)
<1> DEFINE p == seqs[s].prompt
           g == seqs[s].gen
<1>1. /\ p \in Seq(Token) /\ g \in Seq(Token) /\ p \o g \in Seq(Token)
      /\ Len(p \o g) \in Nat /\ n + 1 \in 1 .. Len(p \o g) /\ 1 \in 1 .. Len(p \o g)
  <2>1. p \in Seq(Token) /\ g \in Seq(Token) /\ Tokens(seqs[s]) \in Seq(Token)
    BY SequenceFacts DEF TypeInv
  <2>2. p \o g \in Seq(Token) /\ n < Len(p \o g)
    BY <2>1 DEF Tokens
  <2>3. Len(p \o g) \in Nat
    BY <2>2, LenProperties
  <2> HIDE DEF p, g
  <2>4. QED
    BY <2>1, <2>2, <2>3
<1>2. CASE q.gen = g
  BY <1>2 DEF Context, Tokens
<1>3. ASSUME NEW t \in Token, q.gen = Append(g, t)
      PROVE  Context(q, n) = Context(seqs[s], n)
  <2>1. <<t>> \in Seq(Token)
    OBVIOUS
  <2> HIDE DEF p, g
  <2>2. p \o Append(g, t) = (p \o g) \o <<t>>
    <3>1. Append(g, t) = g \o <<t>>
      BY <1>1, AppendIsConcat
    <3>2. p \o (g \o <<t>>) = (p \o g) \o <<t>>
      BY <1>1, <2>1, ConcatAssociative
    <3>3. QED
      BY <3>1, <3>2
  <2>3. SubSeq((p \o g) \o <<t>>, 1, n + 1) = SubSeq(p \o g, 1, n + 1)
    BY <1>1, <2>1, SubSeqOfConcat1
  <2>4. QED
    BY <1>3, <2>2, <2>3 DEF Context, Tokens, p, g
<1>4. QED
  BY <1>2, <1>3

(* The rows of slot t in a step. *)
Rows(t, take) == seqs[t].len .. seqs[t].len + take[t] - 1

(* A cell in which every row of the step stores c, and which held c before *)
(* if no row reaches it, holds c after the step.                           *)
LEMMA StoredCell ==
  ASSUME NEW take, NEW p \in Page, NEW o \in Offset, NEW c,
         \A t \in Live : \A n \in Rows(t, take) :
           PageOf(t, n) = p /\ OffsetOf(n) = o => Context(seqs[t], n) = c,
         \/ kv[p][o] = c
         \/ \E t \in Live : \E n \in Rows(t, take) : PageOf(t, n) = p /\ OffsetOf(n) = o
  PROVE  Stored(take)[p][o] = c
<1> DEFINE ctxs == UNION {StoredHere(s, take, p, o) : s \in Live}
<1>1. Stored(take)[p][o] = IF ctxs = {} THEN kv[p][o]
                           ELSE IF Cardinality(ctxs) = 1 THEN CHOOSE d \in ctxs : TRUE
                           ELSE Garbage
  BY DEF Stored
<1>2. \A d \in ctxs : d = c
  BY DEF StoredHere, Rows
<1>3. ctxs = {} => kv[p][o] = c
  BY DEF StoredHere, Rows
<1> HIDE DEF ctxs
<1>4. CASE ctxs = {}
  BY <1>1, <1>3, <1>4
<1>5. CASE ctxs # {}
  <2>1. ctxs = {c}
    BY <1>2, <1>5
  <2>2. Cardinality({c}) = 1
    BY FS_Singleton
  <2>3. (CHOOSE d \in {c} : TRUE) = c
    OBVIOUS
  <2>4. QED
    BY <1>1, <1>5, <2>1, <2>2, <2>3
<1>6. QED
  BY <1>4, <1>5

(* One batched forward: every row stores its own context where its         *)
(* sequence will read it, into pages shared only with sequences that store *)
(* the same, and what it registers it has just finished writing.           *)
LEMMA ContextStep ==
  ASSUME TypeInv, PageSafety, ContextInv, Step
  PROVE  ContextInv'
<1>1. TypeOK /\ OneTokenBehind /\ Installed /\ ReadsOwnContext /\ CacheIsMaterialized
  BY DEF TypeInv, ContextInv
<1>2. PICK b \in Budgets(Wants) :
        \E token \in [Emits(Takes(b)) -> Token], stop \in SUBSET Emits(Takes(b)) :
          Forward(Takes(b), token, stop)
  BY DEF Step, Takes
<1> DEFINE take == Takes(b)
<1>3. PICK token \in [Emits(take) -> Token], stop \in SUBSET Emits(take) :
        Forward(take, token, stop)
  BY <1>2
<1> DEFINE fin == Finishing(take, stop)
<1>4. /\ seqs' = [s \in Slot |-> IF s \in Live THEN Advanced(s, take, token, fin)
                                 ELSE seqs[s]]
      /\ kv' = Stored(take)
      /\ cache' = Registered(take)
      /\ active' = active /\ dev' = dev
  BY <1>3 DEF Forward
<1>5. Live' = Live
  BY <1>4 DEF Live
<1>6. \A s \in Live :
        /\ s \in Slot /\ take[s] \in 0 .. Wanted(seqs[s]) /\ seqs[s].len \in Nat
        /\ Wanted(seqs[s]) \in Nat /\ Len(Tokens(seqs[s])) \in Nat
        /\ seqs[s].len + Wanted(seqs[s]) <= Len(Tokens(seqs[s]))
        /\ seqs[s].len + Wanted(seqs[s]) <= MaxSeq
  BY <1>1, SequenceFacts, TakeFacts, WantedFits, LenProperties
<1>7. ASSUME NEW s \in Live
      PROVE  /\ seqs'[s].prompt = seqs[s].prompt /\ seqs'[s].table = seqs[s].table
             /\ seqs'[s].len = seqs[s].len + take[s]
             /\ \/ seqs'[s].gen = seqs[s].gen
                \/ \E t \in Token : seqs'[s].gen = Append(seqs[s].gen, t)
  <2>1. seqs'[s] = Advanced(s, take, token, fin) /\ seqs[s] \in SeqState
    BY <1>1, <1>4, <1>6, SequenceFacts
  <2>2. s \in Emits(take) => token[s] \in Token
    OBVIOUS
  <2> HIDE DEF take, fin
  <2>3. QED
    BY <2>1, <2>2 DEF Advanced, SeqState
<1> HIDE DEF take, fin
<1> DEFINE new(s) == seqs[s].len + take[s]
<1>8. \A s \in Live :
        /\ new(s) \in Nat /\ new(s) <= MaxSeq /\ new(s) <= Len(Tokens(seqs[s]))
        /\ \A n \in Rows(s, take) : n \in 0 .. MaxSeq - 1
  BY <1>6, BatchingAssumption DEF Rows
<1>9. \A s \in Live : \A n \in 0 .. new(s) - 1 :
        /\ n \in 0 .. MaxSeq - 1 /\ n \in Nat /\ n < Len(Tokens(seqs[s]))
        /\ n \in 0 .. seqs[s].len - 1 \/ n \in Rows(s, take)
  BY <1>6, <1>8, BatchingAssumption DEF Rows
<1> HIDE DEF new
<1>10. ASSUME NEW s \in Live, NEW n \in 0 .. new(s) - 1
       PROVE  kv'[PageOf(s, n)][OffsetOf(n)] = Context(seqs[s], n)
  <2>1. PageOf(s, n) \in Page /\ OffsetOf(n) \in Offset
    BY <1>1, <1>9, CellOf, PositionFacts
  <2>2. \A t \in Live : \A m \in Rows(t, take) :
          PageOf(t, m) = PageOf(s, n) /\ OffsetOf(m) = OffsetOf(n) =>
            Context(seqs[t], m) = Context(seqs[s], n)
    BY <1>1, <1>8, <1>9, SameCell
  <2>3. \/ kv[PageOf(s, n)][OffsetOf(n)] = Context(seqs[s], n)
        \/ n \in Rows(s, take)
    BY <1>1, <1>9 DEF ReadsOwnContext
  <2> DEFINE q == PageOf(s, n)
             o == OffsetOf(n)
             c == Context(seqs[s], n)
  <2>4. \/ kv[q][o] = c
        \/ \E t \in Live : \E m \in Rows(t, take) : PageOf(t, m) = q /\ OffsetOf(m) = o
    BY <2>3
  <2> HIDE DEF q, o, c
  <2>5. Stored(take)[q][o] = c
    BY <2>1, <2>2, <2>4, StoredCell DEF q, o, c
  <2>6. QED
    BY <1>4, <2>5 DEF q, o, c
<1>11. Installed'
  BY <1>1, <1>4, <1>5, <1>7, <1>8 DEF Installed, new
<1>12. ReadsOwnContext'
  <2>1. ASSUME NEW s \in Live, NEW n \in 0 .. new(s) - 1
        PROVE  kv'[PageOf(s, n)][OffsetOf(n)] = Context(seqs'[s], n)
    BY <1>7, <1>9, <1>10, ContextKept
  <2>2. \A s \in Live : seqs'[s].len = new(s)
    BY <1>7 DEF new
  <2>3. QED
    BY <1>4, <1>5, <2>1, <2>2 DEF ReadsOwnContext, PageOf
<1>13. ASSUME NEW h \in Hashes, cache[h] # NoPage, NEW o \in Offset
       PROVE  kv'[cache[h]][o] = SubSeq(h, 1, Len(h) - TokensPerPage + o + 1)
  <2> DEFINE c == SubSeq(h, 1, Len(h) - TokensPerPage + o + 1)
             q == cache[h]
  <2>1. q \in Page /\ kv[q][o] = c
    BY <1>1, <1>13 DEF TypeOK, CacheIsMaterialized
  <2>2. ASSUME NEW t \in Live, NEW m \in Rows(t, take), PageOf(t, m) = q, OffsetOf(m) = o
        PROVE  Context(seqs[t], m) = c
    BY <1>1, <1>8, <2>2, RegisteredCell
  <2> HIDE DEF c, q
  <2>3. Stored(take)[q][o] = c
    BY <2>1, <2>2, StoredCell
  <2>4. QED
    BY <1>4, <2>3 DEF c, q
<1>14. ASSUME NEW h \in Hashes, NEW s \in Live, NEW i \in 1 .. FullPages(seqs[s].prompt),
              s \in Materialized(take), h = Hash(seqs[s].prompt, i), i \in 1 .. MaxPages,
              NEW o \in Offset
       PROVE  kv'[seqs[s].table[i]][o] = SubSeq(h, 1, Len(h) - TokensPerPage + o + 1)
  <2> DEFINE p == seqs[s].prompt
             n == (i - 1) * TokensPerPage + o
  <2>1. p \in Prompts /\ seqs[s].gen \in Seq(Token) /\ seqs[s].gen = <<>>
    BY <1>1, <1>14, SequenceFacts DEF Materialized
  <2>2. /\ n \in 0 .. MaxSeq - 1 /\ n \div TokensPerPage = i - 1 /\ OffsetOf(n) = o
        /\ n + 1 <= i * TokensPerPage /\ n = i * TokensPerPage - TokensPerPage + o
    BY <1>14, CellFacts
  <2>3. Len(h) = i * TokensPerPage /\ i * TokensPerPage <= Len(p) /\ i * TokensPerPage \in Nat
    <3>1. FullPages(p) \in Nat /\ FullPages(p) * TokensPerPage <= Len(p) /\ Len(p) \in Nat
      BY <2>1, PromptFacts, BatchingAssumption, EngineAssumption
    <3>2. TokensPerPage \in Nat /\ i \in Nat /\ i <= FullPages(p)
      BY <1>14, <3>1, BatchingAssumption, EngineAssumption
    <3>3. i * TokensPerPage <= FullPages(p) * TokensPerPage
      BY <3>1, <3>2, MulMono
    <3>4. i * TokensPerPage \in Nat /\ FullPages(p) * TokensPerPage \in Nat
      BY <3>1, <3>2
    <3>5. Len(h) = i * TokensPerPage
      BY <1>14, <2>1, HashFacts
    <3> HIDE DEF p
    <3>6. QED
      BY <3>1, <3>3, <3>4, <3>5
  <2>4. new(s) = Len(p) /\ Len(p) \in Nat
    <3>1. take[s] = Len(p) - seqs[s].len
      BY <1>14, <2>1 DEF Materialized, Emits, Pending
    <3>2. Len(p) \in Nat /\ seqs[s].len \in Nat
      BY <1>6, <2>1, PromptFacts, BatchingAssumption
    <3> HIDE DEF p
    <3>3. QED
      BY <3>1, <3>2 DEF new
  <2> HIDE DEF n
  <2>5. n \in 0 .. new(s) - 1 /\ n \in Nat /\ (n \div TokensPerPage) + 1 = i
        /\ n + 1 = Len(h) - TokensPerPage + o + 1
    <3>1. TokensPerPage \in Nat /\ i \in Nat /\ MaxSeq \in Nat /\ o \in Nat
      BY <1>14, BatchingAssumption, EngineAssumption DEF Offset
    <3> HIDE DEF p
    <3>2. QED
      BY <2>2, <2>3, <2>4, <3>1
  <2>6. PageOf(s, n) = seqs[s].table[i]
    BY <1>1, <2>2, <2>5, CellOf
  <2>7. kv'[seqs[s].table[i]][o] = Context(seqs[s], n)
    BY <1>10, <2>2, <2>5, <2>6
  <2>8. Context(seqs[s], n) = SubSeq(h, 1, n + 1)
    BY <1>14, <2>1, <2>2, <2>5, PrefixOfHash DEF Context, Tokens
  <2>9. QED
    BY <2>5, <2>7, <2>8
<1>15. CacheIsMaterialized'
  <2>1. ASSUME NEW h \in Hashes, cache'[h] # NoPage, NEW o \in Offset
        PROVE  kv'[cache'[h]][o] = SubSeq(h, 1, Len(h) - TokensPerPage + o + 1)
    <3>1. CASE cache'[h] = cache[h]
      BY <1>13, <2>1, <3>1
    <3>2. CASE \E s \in Live : \E i \in 1 .. FullPages(seqs[s].prompt) :
                 /\ s \in Materialized(take)
                 /\ h = Hash(seqs[s].prompt, i)
                 /\ i \in 1 .. MaxPages
                 /\ cache'[h] = seqs[s].table[i]
      BY <1>14, <3>2
    <3>3. QED
      BY <1>1, <1>4, <3>1, <3>2, RegisteredFacts
  <2>2. QED
    BY <2>1 DEF CacheIsMaterialized
<1>16. QED
  BY <1>11, <1>12, <1>15 DEF ContextInv

(* Every step of the engine preserves it.                                  *)
LEMMA ContextNext == TypeInv /\ PageSafety /\ ContextInv /\ [Next]_vars => ContextInv'
<1> SUFFICES ASSUME TypeInv, PageSafety, ContextInv, [Next]_vars PROVE ContextInv'
  OBVIOUS
<1>1. ASSUME NEW r \in Request, Add(r) PROVE ContextInv'
  BY <1>1, ContextUnchanged DEF Add
<1>2. ASSUME NEW fresh \in Injection(Fresh(admitting.prompt), free), Install(fresh)
      PROVE ContextInv'
  BY <1>2, ContextInstall
<1>3. ASSUME NEW fresh \in Injection(Fresh(admitting.prompt), free), InstallFails(fresh)
      PROVE ContextInv'
  BY <1>3, InstallFailsFacts, ContextUnchanged DEF TypeInv
<1>4. ASSUME NEW fresh \in Injection(Backed(admitting.prompt), free), RetryAdmission(fresh)
      PROVE ContextInv'
  <2>1. CASE retired = <<>>
    BY <1>4, <2>1, RetryFacts, ContextUnchanged DEF TypeInv
  <2>2. CASE retired # <<>>
    BY <1>4, <2>2, RetryFacts, ContextDropOldest DEF TypeInv
  <2>3. QED
    BY <2>1, <2>2
<1>5. CASE Step
  BY <1>5, ContextStep
<1>6. ASSUME NEW part \in {"outputs", "limit"}, NEW s \in Slot, FinishNext(part, s)
      PROVE ContextInv'
  <2>1. CASE s <= active
    <3>1. s \in Live /\ Finish(s)
      BY <1>6, <2>1, SlotFacts DEF FinishNext, NextDone, Live, Slot, TypeInv, TypeOK
    <3>2. QED
      BY <3>1, ContextFinish
  <2>2. CASE ~(s <= active)
    BY <1>6, <2>2, ContextUnchanged DEF FinishNext
  <2>3. QED
    BY <2>1, <2>2
<1>7. ASSUME NEW s \in Slot, Cancel(s) PROVE ContextInv'
  BY <1>7, ContextFinish DEF Cancel
<1>8. CASE TrimRetired
  <2>1. retired # <<>>
    BY <1>8 DEF TrimRetired, TypeInv, HandlersExclude
  <2>2. QED
    BY <1>8, <2>1, ContextDropOldest DEF TrimRetired
<1>9. CASE UNCHANGED vars
  BY <1>9, ContextUnchanged DEF vars
<1>10. QED
  BY <1>1, <1>2, <1>3, <1>4, <1>5, <1>6, <1>7, <1>8, <1>9 DEF Next

(* The three invariants together, on every behaviour.                      *)
LEMMA ContextAlways == Spec => [](TypeInv /\ PageSafety /\ ContextInv)
<1>1. TypeInv /\ PageSafety /\ ContextInv /\ [Next]_vars
        => (TypeInv /\ PageSafety /\ ContextInv)'
  BY TypeNext, SafetyNext, ContextNext
<1>2. Init => TypeInv /\ PageSafety /\ ContextInv
  BY TypeInit, SafetyInit, ContextInit
<1>3. QED
  BY <1>1, <1>2, PTL DEF Spec

(* Whatever prefixes are shared, however prefills are chunked, whichever   *)
(* pages are reused and whoever moves down a slot: attention of a live     *)
(* sequence reads, at every position, the KV of its own tokens.            *)
THEOREM AttentionReadsOwn == Spec => []ReadsOwnContext
<1>1. ContextInv => ReadsOwnContext
  BY DEF ContextInv
<1>2. QED
  BY <1>1, ContextAlways, PTL

(* A prefix is never registered before all of its page is written, nor     *)
(* overwritten while it is registered, so a later prompt may alias it.     *)
THEOREM CacheHoldsItsPrefix == Spec => []CacheIsMaterialized
<1>1. ContextInv => CacheIsMaterialized
  BY DEF ContextInv
<1>2. QED
  BY <1>1, ContextAlways, PTL

(***************************************************************************)
(* Refinement.  While ReadsOwnContext holds, what attention reads depends  *)
(* on the sequences alone; so an action of the engine that moves pages,    *)
(* tables or cache entries around is invisible, and the others are the     *)
(* actions of PrivateKV.                                                   *)
(***************************************************************************)

(* The view of a sequence whose cells are its own. *)
OwnView(q) == [prompt |-> q.prompt, gen |-> q.gen,
               kv |-> Private!KvOf(Tokens(q), q.len)]

OwnViews == [s \in Slot |-> IF s \in Live THEN OwnView(seqs[s]) ELSE NoSequence]

(* The engine's view consists of the sequences' own views.                 *)
LEMMA ViewIsOwn == TypeInv /\ ContextInv => PrivateView = OwnViews
<1> SUFFICES ASSUME TypeInv, ContextInv, NEW s \in Live
             PROVE  [n \in 1 .. seqs[s].len |-> kv[PageOf(s, n - 1)][OffsetOf(n - 1)]]
                      = Private!KvOf(Tokens(seqs[s]), seqs[s].len)
  BY DEF PrivateView, OwnViews, OwnView
<1>1. seqs[s].len \in Nat
  BY SequenceFacts DEF TypeInv
<1> DEFINE l == seqs[s].len
<1> HIDE DEF l
<1>2. ASSUME NEW n \in 1 .. l
      PROVE  kv[PageOf(s, n - 1)][OffsetOf(n - 1)] = SubSeq(Tokens(seqs[s]), 1, n)
  <2>1. n - 1 \in 0 .. l - 1 /\ (n - 1) + 1 = n
    BY <1>1 DEF l
  <2>2. kv[PageOf(s, n - 1)][OffsetOf(n - 1)] = Context(seqs[s], n - 1)
    BY <2>1 DEF ContextInv, ReadsOwnContext, l
  <2>3. QED
    BY <2>1, <2>2 DEF Context
<1>3. QED
  BY <1>2 DEF l, Private!KvOf

(* Two states with the same sequences have the same view.                  *)
LEMMA SameViews ==
  ASSUME PrivateView = OwnViews, PrivateView' = OwnViews', UNCHANGED <<seqs, active>>
  PROVE  UNCHANGED <<PrivateView, active>>
BY DEF OwnViews, Live

(* The first state of the engine is the first state of PrivateKV.          *)
LEMMA ViewInit == Init => Private!Init
<1> SUFFICES ASSUME Init PROVE Private!Init
  OBVIOUS
<1>1. active = 0 /\ Live = {}
  BY DEF Init, Live
<1>2. PrivateView = [s \in Slot |-> NoSequence]
  BY <1>1 DEF PrivateView
<1>3. QED
  BY <1>1, <1>2 DEF Private!Init, Private!Slots, Private!Vacant, NoSequence, Slot

(* Install is Admit: what it aliases is a computed prefix of the prompt.   *)
LEMMA ViewInstall ==
  ASSUME TypeInv, PrivateView = OwnViews, PrivateView' = OwnViews',
         NEW fresh \in Injection(Fresh(admitting.prompt), free), Install(fresh)
  PROVE  Private!Next
<1> DEFINE p == admitting.prompt
           slot == active + 1
           r == ReusedTokens(p)
           table == [i \in 1 .. MaxPages |->
                       IF i \in Aliased(p) THEN cache[Hash(p, i)] ELSE fresh[i]]
           new == [prompt |-> p, gen |-> <<>>, len |-> r,
                   maxNew |-> admitting.maxNew, ended |-> FALSE, table |-> table]
<1>1. /\ TypeOK /\ OneTokenBehind /\ HandlersExclude
      /\ admitting # NoRequest
      /\ p \in Prompts
  BY RequestFacts DEF TypeInv, Install
<1>2. slot \in Slot /\ slot \notin Live /\ active < Capacity
  BY <1>1, SlotFacts DEF TypeOK, HandlersExclude, Slot, Live
<1>3. seqs' = [seqs EXCEPT ![slot] = new] /\ active' = slot
  BY <1>1, PlannedWhole DEF Install
<1>4. Live' = Live \cup {slot}
  BY <1>1, <1>2, <1>3 DEF Live, TypeOK, Slot
<1>5. r \in 0 .. Len(p) - 1
  BY <1>1, AliasedFacts, PromptFacts, BatchingAssumption
<1> HIDE DEF table, r
<1>6. /\ \A s \in Slot \ {slot} : seqs'[s] = seqs[s]
      /\ seqs'[slot] = new
  BY <1>1, <1>2, <1>3 DEF TypeOK
<1>7. OwnView(new) = [prompt |-> p, gen |-> <<>>, kv |-> Private!KvOf(p, r)]
  <2>1. p \in Seq(Token)
    BY <1>1, RequestFacts
  <2> HIDE DEF p
  <2>2. p \o <<>> = p
    BY <2>1, ConcatEmptySeq
  <2>3. Tokens(new) = p
    BY <2>2 DEF Tokens
  <2>4. QED
    BY <2>3 DEF OwnView
<1> HIDE DEF new, slot
<1>8. OwnViews' = [OwnViews EXCEPT ![slot] =
                     [prompt |-> p, gen |-> <<>>, kv |-> Private!KvOf(p, r)]]
  <2>1. \A s \in Slot : s \in Live' <=> s \in Live \/ s = slot
    BY <1>4
  <2>2. QED
    BY <1>2, <1>6, <1>7, <2>1 DEF OwnViews
<1>9. Private!Admit(p, r)
  BY <1>2, <1>3, <1>8 DEF Private!Admit, slot
<1>10. QED
  BY <1>1, <1>5, <1>9 DEF Private!Next

(* A batched forward is Forward: every slot consumes tokens of its own.    *)
LEMMA ViewStep ==
  ASSUME TypeInv, ContextInv, PrivateView = OwnViews, PrivateView' = OwnViews', Step
  PROVE  Private!Next
<1>1. TypeOK /\ OneTokenBehind /\ Installed /\ active > 0
  BY DEF TypeInv, ContextInv, Step
<1>2. PICK b \in Budgets(Wants) :
        \E token \in [Emits(Takes(b)) -> Token], stop \in SUBSET Emits(Takes(b)) :
          Forward(Takes(b), token, stop)
  BY DEF Step, Takes
<1> DEFINE take == Takes(b)
<1>3. PICK token \in [Emits(take) -> Token], stop \in SUBSET Emits(take) :
        Forward(take, token, stop)
  BY <1>2
<1> DEFINE fin == Finishing(take, stop)
<1>4. /\ seqs' = [s \in Slot |-> IF s \in Live THEN Advanced(s, take, token, fin)
                                 ELSE seqs[s]]
      /\ active' = active
  BY <1>3 DEF Forward
<1>5. Live' = Live
  BY <1>4 DEF Live
<1>6. ASSUME NEW s \in Live PROVE Private!Advance(OwnView(seqs[s]), OwnView(seqs'[s]))
  <2> DEFINE q == seqs[s]
             n == q.len + take[s]
             old == Tokens(q)
             w == seqs'[s]
  <2>1. /\ s \in Slot /\ q \in SeqState /\ q.len \in Nat
        /\ q.prompt \in Seq(Token) /\ q.gen \in Seq(Token)
        /\ take[s] \in 0 .. Wanted(q) /\ Wanted(q) \in Nat
        /\ q.len + Wanted(q) <= Len(old) /\ Len(old) \in Nat
    BY <1>1, SequenceFacts, TakeFacts, LenProperties
  <2>2. seqs'[s] = Advanced(s, take, token, fin)
    BY <1>4, <2>1
  <2>3. s \in Emits(take) => token[s] \in Token
    OBVIOUS
  <2>4. s \in Emits(take) => n = Len(old)
    <3>1. CASE q.gen = <<>>
      <4>1. s \in Emits(take) => take[s] = Len(q.prompt) - q.len
        BY <3>1 DEF Emits, Pending
      <4>2. old = q.prompt
        BY <2>1, <3>1, ConcatEmptySeq DEF Tokens
      <4>3. Len(q.prompt) \in Nat
        BY <2>1, LenProperties
      <4> HIDE DEF q, old, take
      <4>4. QED
        BY <2>1, <4>1, <4>2, <4>3
    <3>2. CASE q.gen # <<>>
      <4>1. q.len = Len(old) - 1
        BY <1>1, <3>2 DEF OneTokenBehind
      <4>2. s \in Emits(take) => take[s] > 0
        BY DEF Emits
      <4> HIDE DEF q, old, take
      <4>3. QED
        BY <2>1, <4>1, <4>2
    <3>3. QED
      BY <3>1, <3>2
  <2> HIDE DEF take, fin
  <2>5. /\ w.prompt = q.prompt /\ w.len = n
        /\ \/ w.gen = q.gen
           \/ /\ \E t \in Token : w.gen = Append(q.gen, t)
              /\ n = Len(old)
    BY <2>1, <2>2, <2>3, <2>4 DEF Advanced, SeqState
  <2>6. /\ n \in Nat /\ q.len <= n /\ n <= Len(old)
    <3> HIDE DEF q, old
    <3>1. QED
      BY <2>1
  <2> HIDE DEF n, w, q
  <2>7. Private!KvOf(Tokens(w), n) = Private!KvOf(old, n)
    <3>1. \A i \in 1 .. n : i \in 1 .. Len(old)
      BY <2>1, <2>6
    <3>2. ASSUME NEW t \in Token, w.gen = Append(q.gen, t), NEW i \in 1 .. Len(old)
          PROVE  SubSeq(Tokens(w), 1, i) = SubSeq(old, 1, i)
      <4>1. <<t>> \in Seq(Token)
        OBVIOUS
      <4>2. Tokens(w) = q.prompt \o (q.gen \o <<t>>)
        BY <2>1, <2>5, <3>2, AppendIsConcat DEF Tokens
      <4> DEFINE p == q.prompt
                 g == q.gen
      <4>3. /\ p \in Seq(Token) /\ g \in Seq(Token) /\ old = p \o g
            /\ Tokens(w) = p \o (g \o <<t>>) /\ i \in 1 .. Len(old) /\ Len(old) \in Nat
        BY <2>1, <3>2, <4>2 DEF Tokens
      <4> HIDE DEF p, g, old
      <4>4. /\ p \o (g \o <<t>>) = (p \o g) \o <<t>>
            /\ old \in Seq(Token) /\ 1 \in 1 .. Len(old)
        <5>1. p \o (g \o <<t>>) = (p \o g) \o <<t>>
          BY <4>1, <4>3, ConcatAssociative
        <5>2. p \o g \in Seq(Token)
          BY <4>3, ConcatProperties
        <5>3. QED
          BY <4>3, <5>1, <5>2
      <4>5. SubSeq(old \o <<t>>, 1, i) = SubSeq(old, 1, i)
        BY <4>1, <4>3, <4>4, SubSeqOfConcat1
      <4>6. QED
        BY <4>3, <4>4, <4>5
    <3>3. ASSUME NEW i \in 1 .. n PROVE SubSeq(Tokens(w), 1, i) = SubSeq(old, 1, i)
      BY <2>5, <3>1, <3>2 DEF Tokens
    <3>4. QED
      BY <3>3 DEF Private!KvOf
  <2>8. /\ Len(Private!KvOf(old, n)) = n
        /\ Len(Private!KvOf(old, q.len)) = q.len
    BY <2>1, <2>6 DEF Private!KvOf
  <2> DEFINE v0 == OwnView(q)
             v1 == OwnView(w)
  <2>9. /\ v0.prompt = q.prompt /\ v0.gen = q.gen /\ Len(v0.kv) = q.len
        /\ v1.prompt = q.prompt /\ v1.gen = w.gen
        /\ v1.kv = Private!KvOf(old, n) /\ Len(v1.kv) = n
        /\ Private!TokensOf(v0) = old
    BY <2>5, <2>7, <2>8 DEF OwnView, Private!TokensOf, Tokens
  <2> HIDE DEF v0, v1, old
  <2>10. Private!Advance(v0, v1)
    BY <2>1, <2>5, <2>6, <2>9 DEF Private!Advance
  <2>11. QED
    BY <2>10 DEF v0, v1, q, w
<1>7. Private!Slots = Slot /\ \A s \in Slot : s <= active <=> s \in Live
  BY <1>1, SlotFacts DEF Private!Slots, Slot, Live
<1>8. /\ \A s \in Live : OwnViews[s] = OwnView(seqs[s]) /\ OwnViews'[s] = OwnView(seqs'[s])
      /\ \A s \in Slot \ Live : OwnViews'[s] = OwnViews[s]
  BY <1>1, <1>5, SequenceFacts DEF OwnViews
<1>9. Private!Forward
  BY <1>1, <1>4, <1>6, <1>7, <1>8 DEF Private!Forward
<1>10. QED
  BY <1>9 DEF Private!Next

(* finish is Leave.                                                        *)
LEMMA ViewFinish ==
  ASSUME TypeInv, PrivateView = OwnViews, PrivateView' = OwnViews',
         NEW s \in Live, Finish(s)
  PROVE  Private!Next
<1>1. /\ active \in Nat /\ active <= Capacity /\ Capacity \in Nat /\ s \in 1 .. active
      /\ active' = active - 1 /\ Slot = 1 .. Capacity
      /\ seqs' = [i \in Slot |-> IF i < s \/ i > active THEN seqs[i]
                                 ELSE IF i < active THEN seqs[i + 1] ELSE NoSeq]
  BY SlotFacts DEF TypeInv, TypeOK, Live, Slot, Finish
<1>2. ASSUME NEW i \in Slot
      PROVE  OwnViews'[i] = IF i < s \/ i > active THEN OwnViews[i]
                            ELSE IF i < active THEN OwnViews[i + 1] ELSE NoSequence
  <2>1. CASE i < s \/ i > active
    <3>1. i \in Live' <=> i \in Live
      BY <1>1, <2>1 DEF Live
    <3>2. seqs'[i] = seqs[i]
      BY <1>1, <2>1
    <3>3. QED
      BY <2>1, <3>1, <3>2 DEF OwnViews
  <2>2. CASE ~(i < s \/ i > active) /\ i < active
    <3>1. i \in Live' /\ i + 1 \in Live /\ i + 1 \in Slot
      BY <1>1, <2>2 DEF Live
    <3>2. seqs'[i] = seqs[i + 1]
      BY <1>1, <2>2
    <3>3. QED
      BY <2>2, <3>1, <3>2 DEF OwnViews
  <2>3. CASE ~(i < s \/ i > active) /\ ~(i < active)
    <3>1. i \notin Live'
      BY <1>1, <2>3 DEF Live
    <3>2. QED
      BY <2>3, <3>1 DEF OwnViews
  <2>4. QED
    BY <2>1, <2>2, <2>3
<1>3. OwnViews' = [i \in Slot |-> IF i < s \/ i > active THEN OwnViews[i]
                                 ELSE IF i < active THEN OwnViews[i + 1] ELSE NoSequence]
  <2>1. OwnViews' = [i \in Slot |-> OwnViews'[i]]
    BY DEF OwnViews
  <2> HIDE DEF OwnViews
  <2>2. QED
    BY <1>2, <2>1
<1>4. Private!Leave(s)
  BY <1>1, <1>3 DEF Private!Leave, Private!Slots, Private!Vacant, NoSequence
<1>5. QED
  BY <1>1, <1>4 DEF Private!Next

(* Every step of the engine is a step of PrivateKV or invisible to it.     *)
LEMMA ViewNext ==
  TypeInv /\ ContextInv /\ PrivateView = OwnViews /\ PrivateView' = OwnViews' /\ [Next]_vars
    => [Private!Next]_<<PrivateView, active>>
<1> SUFFICES ASSUME TypeInv, ContextInv, PrivateView = OwnViews, PrivateView' = OwnViews',
                    [Next]_vars
             PROVE  Private!Next \/ UNCHANGED <<PrivateView, active>>
  OBVIOUS
<1> DEFINE Goal == Private!Next \/ UNCHANGED <<PrivateView, active>>
<1>1. ASSUME UNCHANGED <<seqs, active>> PROVE Goal
  BY <1>1, SameViews
<1>2. ASSUME NEW r \in Request, Add(r) PROVE Goal
  BY <1>1, <1>2 DEF Add
<1>3. ASSUME NEW fresh \in Injection(Fresh(admitting.prompt), free), Install(fresh)
      PROVE Goal
  BY <1>3, ViewInstall
<1>4. CASE \/ \E fresh \in Injection(Fresh(admitting.prompt), free) : InstallFails(fresh)
           \/ \E fresh \in Injection(Backed(admitting.prompt), free) : RetryAdmission(fresh)
           \/ TrimRetired
  BY <1>1, <1>4, InstallFailsFacts DEF RetryAdmission, TrimRetired, TypeInv
<1>5. CASE Step
  BY <1>5, ViewStep
<1>6. ASSUME NEW part \in {"outputs", "limit"}, NEW s \in Slot, FinishNext(part, s)
      PROVE Goal
  <2>1. CASE s <= active
    <3>1. s \in Live /\ Finish(s)
      BY <1>6, <2>1, SlotFacts DEF FinishNext, NextDone, Live, Slot, TypeInv, TypeOK
    <3>2. QED
      BY <3>1, ViewFinish
  <2>2. CASE ~(s <= active)
    BY <1>1, <1>6, <2>2 DEF FinishNext
  <2>3. QED
    BY <2>1, <2>2
<1>7. ASSUME NEW s \in Slot, Cancel(s) PROVE Goal
  BY <1>7, ViewFinish DEF Cancel
<1>8. CASE UNCHANGED vars
  BY <1>1, <1>8 DEF vars
<1>9. QED
  BY <1>2, <1>3, <1>4, <1>5, <1>6, <1>7, <1>8 DEF Next

(* Paging, prefix sharing, eviction and slot compaction are invisible: the *)
(* engine is one in which every sequence has a KV cache of its own.        *)
THEOREM PagingIsInvisible == Spec => ImplementsPrivateKV
<1>1. Init => Private!Init
  BY ViewInit
<1>2. TypeInv /\ ContextInv => PrivateView = OwnViews
  BY ViewIsOwn
<1>3. (TypeInv /\ ContextInv => PrivateView = OwnViews)'
  BY <1>2, PTL
<1>4. TypeInv /\ PageSafety /\ ContextInv
        /\ (TypeInv /\ PageSafety /\ ContextInv)' /\ [Next]_vars
        => [Private!Next]_<<PrivateView, active>>
  <2> SUFFICES ASSUME TypeInv, PageSafety, ContextInv,
                      (TypeInv /\ PageSafety /\ ContextInv)', [Next]_vars
               PROVE  [Private!Next]_<<PrivateView, active>>
    OBVIOUS
  <2>1. PrivateView = OwnViews
    BY <1>2
  <2>2. PrivateView' = OwnViews'
    BY <1>3
  <2>3. QED
    BY <2>1, <2>2, ViewNext
<1>5. QED
  BY <1>1, <1>4, ContextAlways, PTL DEF Spec, ImplementsPrivateKV, Private!Spec
=============================================================================
