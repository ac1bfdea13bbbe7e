---------------------------- MODULE PagedEngine ----------------------------
(***************************************************************************)
(* The paged continuous-batching engine: ContinuousModel in paged-KV mode  *)
(* (continuous.rs) over GpuPagedTableBuilder (paged_kv.rs).  Requests      *)
(* whose prompts start alike share physical pages of the KV pool.          *)
(*                                                                         *)
(* The engine is single threaded (&mut self).  A handler that loops is     *)
(* cut at its loop iterations: admitting, done and evicting say which      *)
(* loop is running, and while one is, only its own iterations are enabled. *)
(*                                                                         *)
(* A content hash is the token prefix it digests (SHA-256 is taken to be   *)
(* injective) and a KV cell is the token prefix it was computed from.      *)
(* PageAllocator's free list is the set of unallocated pages and alloc     *)
(* returns any of them: no property depends on which.                      *)
(***************************************************************************)
EXTENDS Batching

CONSTANTS
  TokensPerPage,  (* tokens_per_page, a divisor of MaxSeq                  *)
  RetiredCap      (* retired_cap: 4 * capacity in the code                 *)

MaxPages  == MaxSeq \div TokensPerPage
Offset    == 0 .. TokensPerPage - 1
Page      == 0 .. MaxPages * Capacity - 1
NoPage    == -1

ASSUME EngineAssumption ==
  /\ TokensPerPage \in Nat \ {0}
  /\ MaxPages \in Nat \ {0}
  /\ MaxSeq = MaxPages * TokensPerPage
  /\ RetiredCap \in Nat

(* The chain of a prompt, a partial last page included; only its full      *)
(* pages can be cached.                                                    *)
FullPages(prompt) == Len(prompt) \div TokensPerPage
ChainPages(prompt) ==
  FullPages(prompt) + (IF Len(prompt) % TokensPerPage = 0 THEN 0 ELSE 1)
Hash(prompt, i)   == SubSeq(prompt, 1, i * TokensPerPage)
Claims(prompt)    == {Hash(prompt, i) : i \in 1 .. FullPages(prompt)}
Hashes            == UNION {Claims(p) : p \in Prompts}

VARIABLES
  cache,      (* content hash -> page, or NoPage                           *)
  free,       (* pages the allocator does not count as allocated           *)
  retired,    (* prompts of finished sequences whose pages stay cached     *)
  dev,        (* the block tables installed on the device                  *)
  kv,         (* content of the device pages, Garbage once a page is freed *)
  admitting,  (* the request of the admission retry loop, or NoRequest     *)
  evicting,   (* the retired-cap loop is running                           *)
  panicked    (* which assertion stopped the engine thread, or "none"      *)

vars == <<seqs, active, cache, free, retired, dev, kv, admitting, done,
          evicting, panicked>>

Garbage == <<>>
NoSeq   == [prompt |-> <<>>, gen |-> <<>>, len |-> 0, maxNew |-> 0,
            ended |-> FALSE, table |-> [i \in 1 .. MaxPages |-> 0]]

(* SeqState with its host block table.                                    *)
SeqState == [prompt : Prompts \cup {<<>>}, gen : Seq(Token), len : Nat, maxNew : Nat,
             ended : BOOLEAN, table : [1 .. MaxPages -> Page]]

TypeOK ==
  /\ active \in 0 .. Capacity
  /\ seqs \in [Slot -> SeqState]
  /\ cache \in [Hashes -> Page \cup {NoPage}]
  /\ free \subseteq Page
  /\ retired \in Seq(Prompts)
  /\ dev \in [Slot -> [1 .. MaxPages -> Page]]
  /\ kv \in [Page -> [Offset -> Seq(Token)]]
  /\ admitting \in Request \cup {NoRequest}
  /\ done \in [outputs : SUBSET Slot, limit : SUBSET Slot]
  /\ evicting \in BOOLEAN
  /\ panicked \in {"none", "double_free", "finish_range"}

(***************************************************************************)
(* State functions                                                         *)
(***************************************************************************)

(* No handler is running: the engine loop may call add, step or cancel.    *)
Idle == /\ admitting = NoRequest
        /\ done = NoneDone
        /\ ~evicting
        /\ panicked = "none"

(* Where position pos of a slot lives: the device table decides.           *)
PageOf(s, pos) == dev[s][(pos \div TokensPerPage) + 1]
OffsetOf(pos)  == pos % TokensPerPage

Referenced == UNION {Range(seqs[s].table) : s \in Live}
Scrub(pages) == [p \in Page |-> IF p \in pages
                                THEN [o \in Offset |-> Garbage] ELSE kv[p]]

Init ==
  /\ seqs = [s \in Slot |-> NoSeq]
  /\ active = 0
  /\ cache = [h \in Hashes |-> NoPage]
  /\ free = Page
  /\ retired = <<>>
  /\ dev = [s \in Slot |-> [i \in 1 .. MaxPages |-> (s - 1) * MaxPages + i - 1]]
  /\ kv = [p \in Page |-> [o \in Offset |-> Garbage]]
  /\ admitting = NoRequest
  /\ done = NoneDone
  /\ evicting = FALSE
  /\ panicked = "none"

(***************************************************************************)
(* Admission: add_inner                                                    *)
(***************************************************************************)

(* Mutant of Add: the "engine full" check is missing.                      *)
AddUnchecked(r) ==
  /\ Idle
  /\ admitting' = r
  /\ UNCHANGED <<seqs, active, cache, free, retired, dev, kv, done, evicting,
                 panicked>>

(* add_inner up to its paged branch.  An invalid prompt or a full engine   *)
(* is refused before any state changes.                                    *)
Add(r) ==
  /\ Idle
  /\ active < Capacity
  /\ admitting' = r
  /\ UNCHANGED <<seqs, active, cache, free, retired, dev, kv, done, evicting,
                 panicked>>

(* Mutant of Aliased: the walk does not stop at the first uncached page.   *)
AliasedPastHole(prompt) == {i \in 1 .. FullPages(prompt) : cache[Hash(prompt, i)] # NoPage}

(* Page indexes a plan aliases: the leading run of cached full pages.      *)
Aliased(prompt) ==
  {i \in 1 .. FullPages(prompt) :
     \A j \in 1 .. i : cache[Hash(prompt, j)] # NoPage}

Fresh(prompt) == (1 .. MaxPages) \ Aliased(prompt)

(* Mutant of ReusedTokens: a fully cached prompt is not rewound.           *)
ReusedWhole(prompt) == Cardinality(Aliased(prompt)) * TokensPerPage

(* Prompt tokens not prefilled; a fully cached prompt is rewound by one.   *)
ReusedTokens(prompt) ==
  LET r == Cardinality(Aliased(prompt)) * TokensPerPage
  IN  IF r = Len(prompt) THEN r - 1 ELSE r

(* The block table of a plan, as far as fresh gives the pages that alloc   *)
(* returned for it: plan_with_chain up to ChainPages, then pad_table.      *)
Planned(prompt, fresh) ==
  [i \in Aliased(prompt) \cup DOMAIN fresh |->
     IF i \in Aliased(prompt) THEN cache[Hash(prompt, i)] ELSE fresh[i]]

(* A plan and its padding succeed, set_block_table installs the table.     *)
Install(fresh) ==
  LET prompt == admitting.prompt
      slot   == active + 1
      table  == Planned(prompt, fresh)
  IN  /\ admitting # NoRequest
      /\ panicked = "none"
      /\ seqs' = [seqs EXCEPT ![slot] =
                    [prompt |-> prompt, gen |-> <<>>,
                     len |-> ReusedTokens(prompt), maxNew |-> admitting.maxNew,
                     ended |-> FALSE, table |-> table]]
      /\ dev' = [dev EXCEPT ![slot] = table]
      /\ active' = slot
      /\ free' = free \ Range(fresh)
      /\ admitting' = NoRequest
      /\ UNCHANGED <<cache, retired, kv, done, evicting, panicked>>

(* The pages a table holds at the indexes of which.                        *)
PagesAt(table, which) == {table[i] : i \in which \cap DOMAIN table}

(* Mutants of PlanPages: the aliased pages are freed too; only the pages   *)
(* of the chain are freed.                                                 *)
PlanPagesAliased(prompt, table) == Range(table)
PlanPagesOfChain(prompt, table) ==
  PagesAt(table, Cardinality(Aliased(prompt)) + 1 .. ChainPages(prompt))

(* free_plan_pages, and the rollback of plan_with_chain itself: what a     *)
(* plan gives back is all behind its aliased pages.                        *)
PlanPages(prompt, table) ==
  PagesAt(table, Cardinality(Aliased(prompt)) + 1 .. MaxPages)

(* Mutant of Truncated: pad_table gives its pages back and leaves them in  *)
(* the table.                                                              *)
TruncatedNever(prompt, table) == table

(* The pages pad_table appended, and the table it leaves when it fails.    *)
Pads(prompt, table)      == PagesAt(table, ChainPages(prompt) + 1 .. MaxPages)
Truncated(prompt, table) == Restrict(table, DOMAIN table \cap 1 .. ChainPages(prompt))

(* set_block_table failed on the device: the plan's pages go back and the  *)
(* request is refused.  Nothing was written to them.                       *)
InstallFails(fresh) ==
  LET plan == PlanPages(admitting.prompt, Planned(admitting.prompt, fresh))
      pool == free \ Range(fresh)
  IN  /\ admitting # NoRequest
      /\ panicked = "none"
      /\ admitting' = NoRequest
      /\ free' = pool \cup plan
      /\ panicked' = IF plan \cap pool # {} THEN "double_free" ELSE panicked
      /\ UNCHANGED <<seqs, active, cache, retired, dev, kv, done, evicting>>

(* Mutants of Freeable: live tables are not consulted; only the first page *)
(* of the chain is evicted.                                                *)
FreeableInUse ==
  {h \in Claims(Head(retired)) \ UNION {Claims(retired[k]) : k \in 2 .. Len(retired)} :
     cache[h] # NoPage}

FreeableFirstPage ==
  {h \in Claims(Head(retired)) :
     cache[h] # NoPage /\ cache[h] \notin Referenced /\ Len(h) = TokensPerPage}

(* evict_entry_at(0): the hashes of the oldest retired prompt that are     *)
(* registered, in no live table and claimed by no other retired prompt.    *)
Freeable ==
  LET others == UNION {Claims(retired[k]) : k \in 2 .. Len(retired)}
  IN  {h \in Claims(Head(retired)) \ others :
         cache[h] # NoPage /\ cache[h] \notin Referenced}

(* Mutant of DropOldest: the hash stays registered.                        *)
DropOldestRegistered(pool, hashes) ==
  LET pages == {cache[h] : h \in hashes}
  IN  /\ retired' = Tail(retired)
      /\ free' = pool \cup pages
      /\ kv' = Scrub(pages)
      /\ UNCHANGED <<cache, panicked>>

(* evict_page of each hash, into the pool.                                 *)
DropOldest(pool, hashes) ==
  LET pages == {cache[h] : h \in hashes}
  IN  /\ retired' = Tail(retired)
      /\ cache' = [h \in Hashes |-> IF h \in hashes THEN NoPage ELSE cache[h]]
      /\ free' = pool \cup pages
      /\ kv' = Scrub(pages)
      /\ panicked' = IF pages \cap pool # {} THEN "double_free" ELSE panicked

(* The indexes for which alloc finds a page before the pool is empty.      *)
Backed(prompt) ==
  Fresh(prompt) \cap 1 .. Cardinality(Aliased(prompt)) + Cardinality(free)

(* Mutant of RetryAdmission: the retry evicts only above retired_cap.      *)
RetryAboveCap(fresh) ==
  /\ admitting # NoRequest
  /\ panicked = "none"
  /\ Cardinality(free) < Cardinality(Fresh(admitting.prompt))
  /\ IF Len(retired) <= RetiredCap
     THEN UNCHANGED <<retired, cache, free, kv, panicked>>
     ELSE DropOldest(free, Freeable)
  /\ UNCHANGED <<seqs, active, dev, admitting, done, evicting>>

(* The pool cannot back the plan: the pads and then the plan's own pages   *)
(* go back, evict_one_retired (one entry per step), and the request is     *)
(* refused when nothing is left to evict.                                  *)
RetryAdmission(fresh) ==
  LET prompt == admitting.prompt
      table  == Planned(prompt, fresh)
      pads   == Pads(prompt, table)
      plan   == PlanPages(prompt, Truncated(prompt, table))
      pool   == (free \ Range(fresh)) \cup pads \cup plan
      twice  == pads \cap plan # {} \/ (pads \cup plan) \cap (free \ Range(fresh)) # {}
  IN  /\ admitting # NoRequest
      /\ panicked = "none"
      /\ Cardinality(free) < Cardinality(Fresh(prompt))
      /\ IF twice \/ retired = <<>>
         THEN /\ admitting' = NoRequest
              /\ free' = pool
              /\ panicked' = IF twice THEN "double_free" ELSE panicked
              /\ UNCHANGED <<retired, cache, kv>>
         ELSE /\ DropOldest(pool, Freeable)
              /\ UNCHANGED admitting
      /\ UNCHANGED <<seqs, active, dev, done, evicting>>

(***************************************************************************)
(* One batched forward: step                                               *)
(***************************************************************************)

(* Mutant of Materialized: a prompt's pages are registered at its first    *)
(* prefill chunk.                                                          *)
MaterializedEarly(take) == {s \in Live : take[s] > 0 /\ seqs[s].gen = <<>>}

Materialized(take) == {s \in Emits(take) : seqs[s].gen = <<>>}

(* register_chain of the materialized slots in slot order: the first       *)
(* writer of a hash wins, an already registered hash keeps its page.       *)
Registered(take) ==
  [h \in Hashes |->
     LET writers == {s \in Materialized(take) : h \in Claims(seqs[s].prompt)}
     IN  IF cache[h] # NoPage \/ writers = {} THEN cache[h]
         ELSE seqs[Min(writers)].table[Len(h) \div TokensPerPage]]

(* The rows' KV stores, through the device tables.  Rows that store        *)
(* different contexts in one cell leave garbage there.                     *)
StoredHere(s, take, p, o) ==
  {Context(seqs[s], pos) : pos \in
     {n \in seqs[s].len .. seqs[s].len + take[s] - 1 :
        PageOf(s, n) = p /\ OffsetOf(n) = o}}

Stored(take) ==
  [p \in Page |-> [o \in Offset |->
     LET ctxs == UNION {StoredHere(s, take, p, o) : s \in Live}
     IN  IF ctxs = {} THEN kv[p][o]
         ELSE IF Cardinality(ctxs) = 1 THEN CHOOSE c \in ctxs : TRUE
         ELSE Garbage]]

Forward(take, token, stop) ==
  LET fin == Finishing(take, stop)
  IN  /\ seqs' = [s \in Slot |-> IF s \in Live
                                 THEN Advanced(s, take, token, fin)
                                 ELSE seqs[s]]
      /\ kv' = Stored(take)
      /\ cache' = Registered(take)
      /\ done' = fin
      /\ UNCHANGED <<active, free, retired, dev, admitting, evicting, panicked>>

(* stop: slots whose output is the EOS or completes a stop sequence.       *)
Step ==
  /\ Idle
  /\ active > 0
  /\ \E b \in Budgets(Wants) :
       LET take == [s \in Slot |-> b[s] - b[s + 1]]
       IN  \E token \in [Emits(take) -> Token], stop \in SUBSET Emits(take) :
             Forward(take, token, stop)

(***************************************************************************)
(* Retirement: finish, cancel                                              *)
(***************************************************************************)

(* Mutant of Kept: every full prompt page is taken for a cached one.       *)
KeptFullPages(q) == 1 .. FullPages(q.prompt)

(* Pages of a finishing slot that stay cached under the prompt's hashes;   *)
(* pads, the partial page and pages that lost a registration race do not.  *)
Kept(q) == {i \in 1 .. FullPages(q.prompt) : cache[Hash(q.prompt, i)] = q.table[i]}

(* Mutant of Reinstalled: compaction forgets the device tables.            *)
ReinstalledNever(s) == dev

(* copy of the tables above s one slot down, set_block_table for each.     *)
Reinstalled(s) ==
  [i \in Slot |-> IF s <= i /\ i < active THEN seqs[i + 1].table ELSE dev[i]]

Finish(s) ==
  LET q     == seqs[s]
      drop  == (1 .. MaxPages) \ Kept(q)
      pages == {q.table[i] : i \in drop}
  IN  /\ free' = free \cup pages
      /\ kv' = Scrub(pages)
      /\ panicked' = IF \/ pages \cap free # {}
                        \/ \E i, j \in drop : i # j /\ q.table[i] = q.table[j]
                     THEN "double_free" ELSE panicked
      /\ seqs' = [i \in Slot |-> IF i < s \/ i > active THEN seqs[i]
                                 ELSE IF i < active THEN seqs[i + 1]
                                 ELSE NoSeq]
      /\ dev' = Reinstalled(s)
      /\ active' = active - 1
      /\ retired' = IF FullPages(q.prompt) > 0 THEN Append(retired, q.prompt)
                                               ELSE retired
      /\ evicting' = (Len(retired') > RetiredCap)
      /\ UNCHANGED <<cache, admitting>>

(* Mutant of FinishNext: only the first of done_slots is finished.         *)
FinishNextOnce(part, s) ==
  /\ ~evicting /\ panicked = "none"
  /\ NextDone(part, s)
  /\ done' = NoneDone
  /\ Finish(s)

(* One iteration of "for &slot in done_slots.iter().rev()".                *)
FinishNext(part, s) ==
  /\ ~evicting /\ panicked = "none"
  /\ NextDone(part, s)
  /\ done' = [done EXCEPT ![part] = @ \ {s}]
  /\ IF s <= active
     THEN Finish(s)
     ELSE /\ panicked' = "finish_range"
          /\ UNCHANGED <<seqs, active, cache, free, retired, dev, kv, admitting,
                         evicting>>

Cancel(s) ==
  /\ Idle
  /\ s \in Live
  /\ Finish(s)
  /\ UNCHANGED done

(* One entry of "while retired.len() > cap && evict_one_retired()": an     *)
(* eviction goes on past entries that free nothing.                        *)
TrimRetired ==
  /\ evicting /\ panicked = "none"
  /\ DropOldest(free, Freeable)
  /\ evicting' = (/\ retired' # <<>>
                  /\ Freeable = {} \/ Len(retired') > RetiredCap)
  /\ UNCHANGED <<seqs, active, dev, admitting, done>>

(***************************************************************************)
(* Specification                                                           *)
(***************************************************************************)

Next ==
  \/ \E r \in Request : Add(r)
  \/ \E fresh \in Injection(Fresh(admitting.prompt), free) :
       Install(fresh) \/ InstallFails(fresh)
  \/ \E fresh \in Injection(Backed(admitting.prompt), free) : RetryAdmission(fresh)
  \/ Step
  \/ \E part \in {"outputs", "limit"}, s \in Slot : FinishNext(part, s)
  \/ \E s \in Slot : Cancel(s)
  \/ TrimRetired

Spec == Init /\ [][Next]_vars

(***************************************************************************)
(* Safety                                                                  *)
(***************************************************************************)

(* A page is handed out once: no live block table and no cache entry holds *)
(* a page the allocator may hand out again, no table holds a page twice,   *)
(* and no two hashes share a page.                                         *)
NoDanglingPage ==
  /\ \A s \in Live : Range(seqs[s].table) \cap free = {}
  /\ \A h \in Hashes : cache[h] \notin free
  /\ \A s \in Live : IsInjective(seqs[s].table)
  /\ \A g, h \in Hashes : cache[g] = cache[h] /\ cache[g] # NoPage => g = h

(* Two sequences share a page only as the same page of the same prefix,    *)
(* and only while it is registered under that prefix's hash; a registered  *)
(* page sits in a table nowhere else.  So the pages a sequence generates   *)
(* into (pads and the partial prompt page) are its own.                    *)
SharedOnlyByPrefix ==
  /\ \A s, t \in Live : \A i, j \in 1 .. MaxPages :
       s # t /\ seqs[s].table[i] = seqs[t].table[j] =>
         /\ i = j /\ i <= FullPages(seqs[s].prompt)
         /\ cache[Hash(seqs[s].prompt, i)] = seqs[s].table[i]
  /\ \A s \in Live : \A i \in 1 .. MaxPages : \A h \in Hashes :
       cache[h] = seqs[s].table[i] =>
         i <= FullPages(seqs[s].prompt) /\ h = Hash(seqs[s].prompt, i)

(* PageAllocator::free and alloc never hit their double-free and           *)
(* live-page assertions ("the four free paths here are mutually exclusive  *)
(* by invariant").                                                         *)
NoDoubleFree == panicked # "double_free"

PageSafety == NoDanglingPage /\ SharedOnlyByPrefix /\ NoDoubleFree

(* Every KV position a sequence has consumed holds, where the device table *)
(* of its slot points now, the KV of the sequence's own tokens: what       *)
(* attention reads is never another request's, stale or unwritten.         *)
ReadsOwnContext ==
  \A s \in Live : \A pos \in 0 .. seqs[s].len - 1 :
    kv[PageOf(s, pos)][OffsetOf(pos)] = Context(seqs[s], pos)

(* "The cache holds exactly the materialized pages, so whatever the plan   *)
(* aliases is written KV": a registered page is full of its own prefix.    *)
CacheIsMaterialized ==
  \A h \in Hashes : cache[h] # NoPage =>
    \A o \in Offset :
      kv[cache[h]][o] = SubSeq(h, 1, Len(h) - TokensPerPage + o + 1)

(* Every allocated page is in a live table or registered: no finish,       *)
(* cancel, lost registration race, eviction or failed admission leaks one. *)
NoPageLeak ==
  Page \ free = Referenced \cup {cache[h] : h \in {g \in Hashes : cache[g] # NoPage}}

(* Every registered page can be evicted one day: its hash is claimed by a  *)
(* retired prompt, or the page is in the table of a live prompt that will  *)
(* retire with it ("recoverable through the aliasing table's own entry").  *)
CacheIsRecoverable ==
  \A h \in Hashes : cache[h] # NoPage =>
    \/ \E k \in 1 .. Len(retired) : h \in Claims(retired[k])
    \/ \E s \in Live : h \in Claims(seqs[s].prompt) /\ cache[h] \in Range(seqs[s].table)

(* Below capacity the pool always suffices once the retired list is        *)
(* drained: admission never refuses a valid request for want of pages.     *)
AdmissionNeverStarves ==
  admitting # NoRequest /\ retired = <<>> =>
    Cardinality(free) >= Cardinality(Fresh(admitting.prompt))

(* The requests whose last token the model's context still has room for.   *)
WithinContext == \A r \in Request : Len(r.prompt) + r.maxNew <= MaxSeq + 1

(* Between handlers no sequence that has ended (EOS, stop, max_new) still  *)
(* holds a slot, however done_slots and the compaction of finish renumber  *)
(* the slots.  A request that can reach the context limit breaks this: see *)
(* FinishInRange.                                                          *)
EndedLeaves == WithinContext /\ Idle => \A s \in Live : ~seqs[s].ended

(* The assertion of finish: assert!(slot < self.active, "finish out of     *)
(* range").                                                                *)
FinishInRange == panicked # "finish_range"

(***************************************************************************)
(* Refinement: with pages, tables and cache hidden the engine is one in    *)
(* which every sequence has a KV cache of its own.                         *)
(***************************************************************************)
NoSequence == [prompt |-> <<>>, gen |-> <<>>, kv |-> <<>>]

PrivateView ==
  [s \in Slot |->
     IF s \in Live
     THEN [prompt |-> seqs[s].prompt, gen |-> seqs[s].gen,
           kv |-> [n \in 1 .. seqs[s].len |-> kv[PageOf(s, n - 1)][OffsetOf(n - 1)]]]
     ELSE NoSequence]

Private == INSTANCE PrivateKV WITH view <- PrivateView, Prompt <- Prompts

ImplementsPrivateKV == Private!Spec

(***************************************************************************)
(* Liveness                                                                *)
(***************************************************************************)

(* The next iteration of the handler loop that is running.                 *)
Resume ==
  \/ \E fresh \in Injection(Fresh(admitting.prompt), free) :
       Install(fresh) \/ InstallFails(fresh)
  \/ \E fresh \in Injection(Backed(admitting.prompt), free) : RetryAdmission(fresh)
  \/ \E part \in {"outputs", "limit"}, s \in Slot : FinishNext(part, s)
  \/ TrimRetired

(* The engine loop calls step whenever a sequence is active (run,          *)
(* engine.rs), and a handler that has begun runs to its end.               *)
Fairness == WF_vars(Step) /\ WF_vars(Resume)

(* A full engine frees a slot (EOS, max_new, context limit or cancel), so  *)
(* the pending queue moves; the assertion of finish is the only way out.   *)
FullEngineDrains ==
  active = Capacity ~> active < Capacity \/ panicked = "finish_range"

(* The admission retry loop ends: every failed plan evicts or gives up.    *)
AdmissionEnds == admitting # NoRequest ~> admitting = NoRequest
=============================================================================
