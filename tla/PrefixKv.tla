------------------------------ MODULE PrefixKv ------------------------------
(***************************************************************************)
(* The CPU prefix cache: PrefixKvCache (prefix_kv.rs) over the planner     *)
(* (reuse_planner.rs), its LRU index (prefix_cache.rs) and the block pool  *)
(* (kv_block_pool.rs), which this cache packs one page to a parent block.  *)
(*                                                                         *)
(* A page's content key, a hash chained over the pages before it, stands   *)
(* for the tokens up to the page's end.  A cache is a record:              *)
(*   lru    the indexed keys, coldest first: the order of access epochs    *)
(*   block  the block each indexed key pins                                *)
(*   free   the pool's queue of free blocks                                *)
(*   pages  the stored page data: the tokens in whose context the page's   *)
(*          KV and boundary hidden state were computed                     *)
(* Nothing else holds a block between two calls: a plan is dropped when    *)
(* serve returns.                                                          *)
(***************************************************************************)
EXTENDS Integers, Sequences, SequencesExt, FiniteSetsExt

CONSTANTS
  TokensPerPage,  (* tokens_per_page                                       *)
  PoolBlocks,     (* pool_blocks                                           *)
  MaxSeq,         (* the model's max_seq_len                               *)
  Hybrid          (* the model has recurrent (gated DeltaNet) layers       *)

ASSUME PrefixKvAssumption ==
  /\ TokensPerPage \in Nat \ {0} /\ PoolBlocks \in Nat /\ MaxSeq \in Nat
  /\ Hybrid \in BOOLEAN

EmptyCache ==
  [lru |-> <<>>, block |-> <<>>, free |-> [b \in 1 .. PoolBlocks |-> b], pages |-> <<>>]

Smaller(a, b) == IF a < b THEN a ELSE b

NumPages(prompt) == (Len(prompt) + TokensPerPage - 1) \div TokensPerPage

PageEnd(prompt, i) == Smaller(i * TokensPerPage, Len(prompt))

(* Mutant: the hashes are not chained.                                     *)
KeysUnchained(prompt) ==
  [i \in 1 .. NumPages(prompt) |->
    SubSeq(prompt, (i - 1) * TokensPerPage + 1, PageEnd(prompt, i))]

(* compute_prefix_hashes; the last page may be a partial one.              *)
Keys(prompt) == [i \in 1 .. NumPages(prompt) |-> SubSeq(prompt, 1, PageEnd(prompt, i))]

Indexed(c) == ToSet(c.lru)

(* PrefixMatcher::probe: the leading keys that are all indexed.            *)
Hits(c, keys) ==
  Max({n \in 0 .. Len(keys) : \A i \in 1 .. n : keys[i] \in Indexed(c)})

(* The entries of s that are not in S, in the order they have in s.        *)
Without(s, S) ==
  LET kept[n \in 0 .. Len(s)] ==
        IF n = 0 THEN <<>> ELSE IF s[n] \in S THEN kept[n - 1] ELSE Append(kept[n - 1], s[n])
  IN  kept[Len(s)]

(* Mutant: a hit does not refresh its entry.                               *)
TouchNewOnly(lru, keys) == lru \o Without(keys, ToSet(lru))

(* query and insert refresh an entry's epoch: the keys become the hottest. *)
Touch(lru, keys) == Without(lru, ToSet(keys)) \o keys

RestrictTo(f, S) == [x \in DOMAIN f \cap S |-> f[x]]

(* A finite set of numbers as a sequence, in ascending order.              *)
Ascending(S) == [i \in 1 .. Cardinality(S) |-> CHOOSE s \in S : Cardinality({t \in S : t <= s}) = i]

(***************************************************************************)
(* ReusePlanner::plan.  The reused keys are touched even when the pool     *)
(* cannot supply the rest.  Of the blocks taken, those for keys indexed    *)
(* beyond a hole are duplicates and go back to the end of the queue.       *)
(***************************************************************************)
Plan(c, prompt) ==
  LET keys  == Keys(prompt)
      hits  == Hits(c, keys)
      need  == Len(keys) - hits
      tail  == [i \in 1 .. need |-> keys[hits + i]]
      taken == SubSeq(c.free, 1, need)
      left  == SubSeq(c.free, need + 1, Len(c.free))
      fresh == {i \in 1 .. need : tail[i] \notin Indexed(c)}
      dup   == Ascending((1 .. need) \ fresh)
  IN  IF need > Len(c.free)
      THEN [fits |-> FALSE,
            cache |-> [c EXCEPT !.lru = Touch(c.lru, SubSeq(keys, 1, hits))]]
      ELSE [fits |-> TRUE, hits |-> hits, keys |-> keys, duplicates |-> dup,
            cache |-> [c EXCEPT
              !.lru   = Touch(c.lru, keys),
              !.block = [k \in Indexed(c) \cup ToSet(tail) |->
                           IF k \in Indexed(c) THEN c.block[k]
                           ELSE taken[CHOOSE i \in fresh : tail[i] = k]],
              !.free  = left \o [i \in 1 .. Len(dup) |-> taken[dup[i]]]]]

(* Mutants: the data of an evicted page stays, or its block does.          *)
EvictKeepsData(c) ==
  [lru |-> Tail(c.lru), block |-> RestrictTo(c.block, Indexed(c) \ {Head(c.lru)}),
   free |-> Append(c.free, c.block[Head(c.lru)]), pages |-> c.pages]

EvictLosesBlock(c) ==
  [lru |-> Tail(c.lru), block |-> RestrictTo(c.block, Indexed(c) \ {Head(c.lru)}),
   free |-> c.free, pages |-> RestrictTo(c.pages, Indexed(c) \ {Head(c.lru)})]

(* evict_oldest: the coldest entry goes, its block and its data with it.   *)
Evict(c) ==
  LET rest == Indexed(c) \ {Head(c.lru)}
  IN  [lru   |-> Tail(c.lru),
       block |-> RestrictTo(c.block, rest),
       free  |-> Append(c.free, c.block[Head(c.lru)]),
       pages |-> RestrictTo(c.pages, rest)]

(* What a state is computed from when it is no sequence of tokens.         *)
Garbage == <<-1>>

(***************************************************************************)
(* build_anchor and restore_anchor: the reused pages, joined, are the      *)
(* state after the reused tokens if each was computed in the context of    *)
(* the last.  Recurrent state is in no page, and starts from zero.         *)
(***************************************************************************)
Restored(pages, keys, hits) ==
  LET context == pages[keys[hits]]
  IN  IF hits = 0 THEN <<>>
      ELSE IF ~Hybrid /\ \A i \in 1 .. hits :
                 pages[keys[i]] = SubSeq(context, 1, PageEnd(context, i))
      THEN context
      ELSE Garbage

(* The state after the model has decoded more tokens.                      *)
Computed(context, more) ==
  IF context = Garbage /\ more # <<>> THEN Garbage ELSE context \o more

(***************************************************************************)
(* What PrefixKvCache::serve does once its eviction loop has a plan, or    *)
(* nothing left to evict.  "result" is the Err or the assertion it ends    *)
(* with, or "served": then "context" is the model's state and "logits" the *)
(* state whose logits are returned, the last page's own when nothing had   *)
(* to be computed.                                                         *)
(***************************************************************************)
Serve(plan, prompt) ==
  LET keys   == plan.keys
      hits   == plan.hits
      pages  == plan.cache.pages
      reused == Smaller(hits * TokensPerPage, Len(prompt))
      State(i) == Computed(Restored(pages, keys, hits),
                           SubSeq(prompt, reused + 1, PageEnd(prompt, i)))
      fresh  == ToSet(keys) \ ToSet(SubSeq(keys, 1, hits))
      stored == [k \in DOMAIN pages \cup fresh |->
                   IF k \in fresh THEN State(CHOOSE i \in 1 .. Len(keys) : keys[i] = k)
                   ELSE pages[k]]
      Ends(result) == [result |-> result, cache |-> plan.cache]
  IN  IF ~plan.fits THEN Ends("too_small")
      ELSE IF plan.duplicates # <<>> THEN Ends("stranded")
      ELSE IF \E i \in 1 .. hits : keys[i] \notin DOMAIN pages THEN Ends("missing")
      ELSE IF reused < Len(prompt) /\ Len(prompt) > MaxSeq THEN Ends("too_long")
      ELSE [result |-> "served", cache |-> [plan.cache EXCEPT !.pages = stored],
            context |-> State(Len(keys)),
            logits |-> IF reused = Len(prompt) THEN pages[keys[hits]] ELSE State(Len(keys)),
            reused |-> reused, computed |-> Len(prompt) - reused]
=============================================================================
