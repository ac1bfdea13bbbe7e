---------------------------- MODULE ImagePrompt ----------------------------
(***************************************************************************)
(* From an image to the rows of a forward: the size an image is resized to *)
(* (image_processor.rs), the expansion of its placeholder (expand_image_   *)
(* pads), the prompt's features and M-RoPE positions (MultimodalPrompt,    *)
(* mrope.rs) and what a step of the engine gives each of its rows          *)
(* (step_overrides).                                                       *)
(*                                                                         *)
(* A grid is <<t, h, w>> in patches, and t is 1: there is no video input.  *)
(* The feature of a merged token is named by its place in the output of    *)
(* the vision tower.  Resizing is exact where the code rounds doubles.     *)
(***************************************************************************)
EXTENDS Integers, Sequences, SequencesExt, FiniteSetsExt

CONSTANTS
  PatchSize,   (* pixels to a side of a patch                              *)
  MergeSize,   (* patches to a side of a merged token                      *)
  MinPixels, MaxPixels

ASSUME ImagePromptAssumption ==
  /\ PatchSize \in Nat \ {0} /\ MergeSize \in Nat \ {0}
  /\ MinPixels \in Nat \ {0} /\ MaxPixels \in Nat /\ MinPixels <= MaxPixels

Pad      == "pad"     \* image_token_id
Rejected == <<>>      \* an Err
Larger(a, b)  == IF a > b THEN a ELSE b
Smaller(a, b) == IF a < b THEN a ELSE b

(* The sum of a sequence of numbers.                                       *)
Total(seq) ==
  LET upto[n \in 0 .. Len(seq)] == IF n = 0 THEN 0 ELSE upto[n - 1] + seq[n]
  IN  upto[Len(seq)]

(* A set of numbers as a sequence, in order.                               *)
Ascending(S) ==
  [m \in 1 .. Cardinality(S) |-> CHOOSE i \in S : Cardinality({j \in S : j <= i}) = m]

(***************************************************************************)
(* smart_resize and preprocess_image_capped                                *)
(***************************************************************************)
Factor == PatchSize * MergeSize

(* n to the nearest multiple of Factor, a tie to the even one.             *)
Snap(n) ==
  LET q == n \div Factor
      r == n % Factor
  IN  Factor * (IF 2 * r > Factor \/ (2 * r = Factor /\ q % 2 = 1) THEN q + 1 ELSE q)

(* The side whose share of a budget of pixels keeps the ratio side/other:  *)
(* Factor * n for the last n below it, at least 1, or the first n above.   *)
Shrunk(side, other, budget) ==
  Factor * Max({1} \cup {n \in 1 .. budget : n * n * Factor * Factor * other <= side * budget})

Grown(side, other, budget) ==
  Factor * Min({n \in 1 .. budget * side : n * n * Factor * Factor * other >= side * budget})

SmartResize(h, w, low, high) ==
  IF h = 0 \/ w = 0 \/ Larger(h, w) > 200 * Smaller(h, w) THEN Rejected
  ELSE IF Snap(h) * Snap(w) > high THEN <<Shrunk(h, w, high), Shrunk(w, h, high)>>
  ELSE IF Snap(h) * Snap(w) < low THEN <<Grown(h, w, low), Grown(w, h, low)>>
  ELSE <<Snap(h), Snap(w)>>

(* Mutant: an image scaled down is not checked again.                      *)
PreprocessUnchecked(size, maxPatches, downscale) ==
  LET cap  == maxPatches * PatchSize * PatchSize
      high == IF downscale THEN Smaller(MaxPixels, cap) ELSE MaxPixels
      low  == IF downscale THEN Smaller(MinPixels, high) ELSE MinPixels
      to   == SmartResize(size[1], size[2], low, high)
  IN  IF to = Rejected THEN Rejected ELSE <<1, to[1] \div PatchSize, to[2] \div PatchSize>>

(* The grid of an image of this size, within what is left of the budget.   *)
Preprocess(size, maxPatches, downscale) ==
  LET cap  == maxPatches * PatchSize * PatchSize
      high == IF downscale THEN Smaller(MaxPixels, cap) ELSE MaxPixels
      low  == IF downscale THEN Smaller(MinPixels, high) ELSE MinPixels
      to   == SmartResize(size[1], size[2], low, high)
      grid == <<1, to[1] \div PatchSize, to[2] \div PatchSize>>
  IN  IF to = Rejected \/ grid[2] * grid[3] > maxPatches THEN Rejected ELSE grid

(***************************************************************************)
(* Tokens and features                                                     *)
(***************************************************************************)
Patches(grid) == grid[1] * grid[2] * grid[3]
Merged(grid)  == Patches(grid) \div (MergeSize * MergeSize)

(* The images the pads up to index i stand for.                            *)
PadsBefore(tokens, i) == Cardinality({j \in 1 .. i : tokens[j] = Pad})

(* The patches of a grid are not those of whole merged tokens.             *)
Ragged(grid) == Patches(grid) = 0 \/ Patches(grid) % (MergeSize * MergeSize) # 0

(* expand_image_pads: a pad for each merged token, the images in order.    *)
Expand(tokens, grids) ==
  IF PadsBefore(tokens, Len(tokens)) # Len(grids) \/ \E i \in DOMAIN grids : Ragged(grids[i])
  THEN Rejected
  ELSE FlattenSeq([i \in DOMAIN tokens |->
         IF tokens[i] # Pad THEN <<tokens[i]>>
         ELSE [k \in 1 .. Merged(grids[PadsBefore(tokens, i)]) |-> Pad]])

(* The runs of pads and of other tokens, in order.                         *)
Runs(tokens) ==
  LET starts == Ascending({i \in DOMAIN tokens : i = 1 \/ (tokens[i] = Pad) # (tokens[i - 1] = Pad)})
  IN  [n \in DOMAIN starts |->
         [image |-> tokens[starts[n]] = Pad, first |-> starts[n],
          count |-> (IF n < Len(starts) THEN starts[n + 1] ELSE Len(tokens) + 1) - starts[n]]]

(* VisionRuntime::encode: image i's part of the tower's output.            *)
Features(grids, i) ==
  LET before == Total([j \in 1 .. i - 1 |-> Merged(grids[j])])
  IN  [k \in 1 .. Merged(grids[i]) |-> before + k]

(* Mutant: an image takes as many positions as it has tokens.              *)
AdvanceByTokens(grid) == Merged(grid)

(* advance_vision_pos                                                      *)
Advance(grid) == Larger(grid[2], grid[3]) \div MergeSize

Everywhere(p) == <<p, p, p>>

(* qwen3_5_mrope_positions: the <<t, h, w>> position of every token.       *)
Positions(tokens, grids) ==
  LET runs        == Runs(tokens)
      Grid(n)     == grids[Cardinality({m \in 1 .. n : runs[m].image})]
      Width(n)    == Grid(n)[3] \div MergeSize
      Height(n)   == Grid(n)[2] \div MergeSize
      Taken(n)    == IF runs[n].image THEN Advance(Grid(n)) ELSE runs[n].count
      current     == [n \in DOMAIN runs |-> Total([m \in 1 .. n - 1 |-> Taken(m)])]
      Token(n, k) == IF ~runs[n].image THEN Everywhere(current[n] + k)
                     ELSE <<current[n] + (k \div (Height(n) * Width(n))),
                            current[n] + ((k \div Width(n)) % Height(n)),
                            current[n] + (k % Width(n))>>
  IN  FlattenSeq([n \in DOMAIN runs |-> [k \in 1 .. runs[n].count |-> Token(n, k - 1)]])

(* Where the groups of pads begin, and how long each is.                   *)
GroupStarts(tokens) ==
  {i \in DOMAIN tokens : tokens[i] = Pad /\ (i = 1 \/ tokens[i - 1] # Pad)}

GroupLength(tokens, start) ==
  Min({i \in start .. Len(tokens) + 1 : i = Len(tokens) + 1 \/ tokens[i] # Pad}) - start

(* validate_vision_grid: a side is not one of merged tokens.               *)
Unmerged(grid) == grid[2] % MergeSize # 0 \/ grid[3] % MergeSize # 0

(* What MultimodalPrompt::build rejects.                                   *)
Mismatched(tokens, grids) ==
  LET groups == Ascending(GroupStarts(tokens))
  IN  \/ grids = <<>> \/ Len(groups) # Len(grids)
      \/ \E i \in DOMAIN groups :
           \/ Ragged(grids[i]) \/ Unmerged(grids[i])
           \/ GroupLength(tokens, groups[i]) # Merged(grids[i])

(* What it builds: the rows to override, the features they get, the        *)
(* positions, and delta for the tokens that are generated.                 *)
Build(tokens, grids) ==
  LET pos == Positions(tokens, grids)
  IN  [rows     |-> Ascending({i \in DOMAIN tokens : tokens[i] = Pad}),
       features |-> FlattenSeq([i \in DOMAIN grids |-> Features(grids, i)]),
       pos      |-> pos,
       delta    |-> Max(UNION {{p[1], p[2], p[3]} : p \in ToSet(pos)}) + 1 - Len(tokens)]

NoImage == <<>>   \* the prompt of a text-only sequence

(* Mutant: a chunk of a prompt is taken to start at its beginning.         *)
OverrideFromStart(seq, k) ==
  IF seq.prompt = NoImage THEN [pos |-> Everywhere(seq.offset + k), feature |-> 0]
  ELSE IF ~seq.prefill
  THEN [pos |-> Everywhere(seq.offset + k + seq.prompt.delta), feature |-> 0]
  ELSE [pos     |-> seq.prompt.pos[k + 1],
        feature |-> LET at == {i \in DOMAIN seq.prompt.rows : seq.prompt.rows[i] = k + 1}
                    IN  IF at = {} THEN 0 ELSE seq.prompt.features[Min(at)]]

(* step_overrides for the k-th row of a sequence; feature 0 is none.       *)
Override(seq, k) ==
  IF seq.prompt = NoImage THEN [pos |-> Everywhere(seq.offset + k), feature |-> 0]
  ELSE IF ~seq.prefill
  THEN [pos |-> Everywhere(seq.offset + k + seq.prompt.delta), feature |-> 0]
  ELSE LET row == seq.offset + k + 1
           at  == {i \in DOMAIN seq.prompt.rows : seq.prompt.rows[i] = row}
       IN  [pos     |-> seq.prompt.pos[row],
            feature |-> IF at = {} THEN 0 ELSE seq.prompt.features[Min(at)]]

(* Without an image in the batch there are no tables (<<>>): the kernel    *)
(* rotates each row by its place in its sequence.                          *)
StepOverrides(seqs) ==
  IF \A i \in DOMAIN seqs : seqs[i].prompt = NoImage THEN <<>>
  ELSE FlattenSeq([i \in DOMAIN seqs |-> [k \in 1 .. seqs[i].count |-> Override(seqs[i], k - 1)]])
=============================================================================
