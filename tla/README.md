# A formal model of machserve

machserve is an LLM inference engine: an OpenAI-compatible HTTP server
(`crates/mach-server`) over a continuous-batching engine that runs on a GPU
(`crates/mach-model`, with kernels and bindings in `crates/mach-kernel-sys`).
This directory holds TLA+ models of the parts of it whose correctness is a
matter of *order* rather than of arithmetic: who owns which page of the KV
pool, who answers a request, which token reaches the client, when a weight
buffer may be overwritten, how many images may be in memory. TLC checks them
on small instances, and TLAPS proves the most important results for every
value of the constants.

## Inventory

How the parts interact:

```
 HTTP client <-- body channel -- stream_tokens  (routes.rs, one task per stream)
                                    ^    ^ token channel, completion oneshot
 image jobs (blocking pool) <-- permits -- handler   (multimodal.rs, routes.rs)
 handler -- submit/submit_stream -> pending queue (mutex + condvar, engine.rs)
 main ----- shutdown() ------------> flag |
                                          v
                            engine thread: run()      (engine.rs)
                                          | add / step / cancel / finish
                                          v
                       ContinuousModel                (continuous.rs)
              | paged mode                        | contiguous mode
   GpuPagedTableBuilder (paged_kv.rs)      StateReuse, anchors (state_reuse.rs)
              |                                   |
              +---------- BatchedModel: block tables, KV, GDN state (batched.rs)

 CPU side:  SchedulerFsm (scheduler_fsm.rs) <- CpuEngine (cpu_engine.rs)
            PrefixKvCache (prefix_kv.rs) -> ReusePlanner -> PrefixCache, KvBlockPool
 MoE:       PrefetchEngine (prefill_buffered.rs) <- layer loop of BatchedModel
            LruExpertCache (moe_backend.rs), adaptive policy <- GpuModel (model.rs)
            both: compute stream | copy stream, ordered by events
```

| Component | State it keeps | Operations | What is hard about it | What makes it correct |
|---|---|---|---|---|
| Paged engine (`continuous.rs`, `paged_kv.rs`) | slots with host block tables, page allocator, hash-to-page cache, retired prompts; device tables and KV in `batched.rs` | `add`, `step`, `finish`, `cancel` | pages shared by common prefixes and freed by four different paths; slots compacted on every finish; admission that evicts and retries | no page is used by two owners; attention reads only its own context; no page leaks; admission always succeeds below capacity; a failed one changes no account |
| Contiguous engine, anchors (`continuous.rs`, `state_reuse.rs`) | per-slot KV and GDN state, FIFO store of anchors | the same four, with save and restore of anchors | a reused slot inherits recurrent state; an anchor's length against what was materialized | a sequence's state is a function of its own tokens |
| Server engine (`engine.rs`) | pending queue, flag, completion and stream maps | `submit`, `submit_stream`, `run`, `fail_all`, `shutdown` | handlers, engine thread and shutdown race; a failing step; slow readers | each request is answered once; nothing is orphaned; shutdown ends |
| Streaming response (`routes.rs`) | three bounded channels, UTF-8 tail, backlog, reason | `stream_tokens` | biased `select!`, back pressure, deadlines, close against report | a clean finish only for a whole response; the task ends |
| KV block pool, prefix cache, planner, prefix KV cache | queue of free blocks, LRU hash index, cached pages and boundary states | plan, serve, evict | partially cached chains, sharing, eviction while planning | index, data and pool agree; no page beyond a hole outlives its chain; only what cannot fit fails |
| Scheduler state machine, CPU engine | request phases, slots, admission queue, finished records | add, drain_finished, step, step_until_done | long legal call sequences; a prefill that fails | logits are those of the request's own tokens; no illegal event; the loop ends |
| Double-buffered prefill | two weight slots, prefetch and compute events | begin, layer_begin, weights_ready, layer_end | two GPU streams ordered by events only, a failed call with work still queued | a slot is not overwritten while it is read |
| MoE expert slots | slot map, recency list, expert in each slot | forward_moe_slots: place, upload, gather, host fallback | eviction inside the step that routes to the victim; host and device add to one residual | the output does not depend on placement |
| Image requests (`multimodal.rs`, `routes.rs`, `mrope.rs`, `image_processor.rs`) | permits, jobs that nobody can cancel, patch budget, prompt features and positions | fetch, decode job, expand, build, encode, row overrides of a step | time-outs that leave a job running; budgets shared by several images; chunks that cut an image | memory is capped; each row gets its own feature and position; every request is answered |
| Sampling, tokenizer, chat templates, quantized formats, loaders, forward passes, vision tower, kernels | none across calls, or weights | pure functions and numeric passes | numeric | outside a model checker's reach |

`PROJECT.json` lists every component with its status, and every hazard of the
code with the properties that watch it.

## The modules

### Batching: what both engines share

`ContinuousModel` has two modes, chosen by its constructor. `Batching` holds
what they have in common: the sequences in slots `1 .. active`, the rows each
wants and gets out of a step's budget (`Wanted`, `Budgets`), which slots emit a
token (`Emits`) and which end (`Finishing`), the order in which `done_slots` is
walked (`NextDone`), and `OneTokenBehind`. Both engine modules extend it and
instantiate its constants.

### PagedEngine, PrivateKV, MCPagedEngine: the paged engine

`PagedEngine` models `ContinuousModel` in paged mode with the whole of
`GpuPagedTableBuilder`, the page allocator and the part of `BatchedModel` the
engine sees (block tables and KV stores).

| TLA+ | Code |
|---|---|
| `seqs`, `active` | `ContinuousModel::seqs`, `active`; slots count from 1 |
| `cache`, `free`, `retired` | `PagedCache::cache`, `PageAllocator`'s free list, `retired` |
| `dev`, `kv` | the device block tables; the content of each KV cell |
| `admitting`, `done`, `evicting` | where a handler's loop stands (below) |
| `Add`, `Install` | `add_inner`: its checks, `plan_with_chain`, `pad_table` and `set_block_table` |
| `InstallFails`, `RetryAdmission` | the failure of each of these, with its rollback (`Planned`, `Pads`, `PlanPages`), and the eviction-retry loop |
| `Step` | `step`: row budget, batched forward, output loop, context-limit loop |
| `FinishNext`, `TrimRetired`, `Cancel` | the reverse loop over `done_slots`, `finish`, its retired-cap loop, `cancel` |

The engine has one thread and every method takes `&mut self`, so a handler is
atomic. Those that loop are cut at the loop's iterations to keep each action
small: while `admitting`, `done` or `evicting` says a loop is running, only
its own iterations are enabled. Two pieces of data carry the abstraction. A
content hash is the token prefix it digests, so SHA-256 is taken to be
injective. A KV cell holds *the token prefix it was computed from*, stored
through the device table and read through it: an aliasing error, a stale table
or an unwritten page shows up as a cell with somebody else's prefix. A freed
page is scrubbed to `Garbage` at once: its content is meaningless from then on,
whether or not it has been overwritten. A failed admission is modelled as the
code does it: allocate what there is, then give back, in `pad_table` the pads and
in `free_plan_pages` what the host table says was not aliased. That this is no
change is a lemma (`RolledBack`) and not the definition.

`PrivateKV` is what an engine promises whatever its layout: every sequence has
a KV cache of its own that contains exactly the contexts of the tokens it has
consumed. `ImplementsPrivateKV` is the refinement: with the pages hidden, the
paged engine *is* that engine. The contiguous engine is its second
implementation.

`MCPagedEngine` gives the requests of the instances, and fixes by `CHOOSE` the
pages an allocation returns. That is sound: a free page occurs nowhere else in
the state except as an uninterpreted name (`PageSafety`, proved for every
instance), so two choices lead to states that differ by a renaming of pages,
and no property names a page.

### ContiguousEngine, MCContiguousEngine: the engine without pages

`kv[s]` is slot `s`'s row of the KV cache, each cell again the token prefix it
was computed from, and `rec[s]` the GDN recurrent and convolution state as the
sequence of tokens folded into it. `mode` is the constructor: a plain model, a
GDN model, or state reuse, which refuses GDN models. `Add` clears the recurrent
state and, in reuse mode, restores the longest anchor that is a proper prefix
of the prompt; `RestoreFails` is a device error in that copy. `finish` saves an anchor for the
sequence it ends or, when that fails, none (`Anchored`). `Step` gives a
prompt of a GDN model at most one chunk. `Finish` saves the anchor and moves
each higher sequence down: `MovedRows` copies only the `len` cells it has
consumed, `MovedStates` its whole recurrent state. Nothing is ever cleared in a
row, so that a stale cell is out of reach is a property (`RowsAreOwn`) and not
an assumption. Reading is not modelled apart from the cells it reads: a step
labels the cell it writes with the sequence's own prefix, and the properties
say that all cells it attends over carry theirs. `ImplementsPrivateKV` maps a
slot to the first `len` cells of its row. A reuse engine is mapped to one that
admits nothing (`Shown`), since finding 4 is a step of it that `PrivateKV` does
not allow; the claim is about plain and GDN models.

### ServerEngine, MCServerEngine: the engine thread and the handlers

Real concurrency: each request is a thread in `submit`/`submit_stream`
(`EarlyCheck`, `LockedCheck`, `Enqueue`, `NotifyOne`), the engine thread goes
through `run` (`Pop`, `Admit`/`Reject`, `StepOk`/`StepFails`, `FailAll`,
`IdleCheck`, `WaitCheck`, `Park`, `Resume`), the closer calls `shutdown()` and
joins. `lock` is the queue's mutex, with who holds it; the condition variable
loses a notification nobody waits for and may wake spuriously. The flag is an
atomic that is read both with and without the mutex. The model below the loop
is abstracted to its contract: a step prefills chunks and emits tokens for any
of the others, at least one slot makes progress, and some of those that emitted
end. Admission may fail. `txs` and `streams` are behind mutexes too, but only
the engine thread takes them.

Finding 1 breaks that contract with three or more sequences. A sequence that ended
by its last output at the context limit and was left behind is finished by the
next step without an output, and `deliver_step_tokens` looks only at sequences
that have one: its senders stay in the maps and its caller waits until the
engine thread ends. The wrong sequence that was finished in its place is
reported complete too early, or, while its prompt is still being prefilled, never.
So the server's properties hold outside finding 1: `SendersFollowSequences`
and `EveryRequestIsAnswered` would fail with it.

### TokenStream: one streamed response

`stream_tokens` with the token channel it reads, the completion oneshot, the
backlog of frames, the body channel and the client. One poll of one branch of
the biased `select!` is one step, so the engine thread and the client can act
between any two polls. A token may end inside a UTF-8 character: `Decode`
emits any prefix of the accumulated tokens and keeps the rest. `GiveUp` is the
deadline of the epilogue; since time is not modelled, it may expire whenever
the task is in the epilogue.

### SchedulerFsm, PrefixKv, CpuEngine, MCCpuEngine: the CPU engine

`SchedulerFsm` is `FsmEvent::apply` as a table of the states each event is
allowed in, and `Apply`; an event the table does not allow panics in the code
and gives `Illegal`. `PrefixKv` is the prefix cache as operators on a record:
the LRU index (`lru`, coldest first), the block each key pins, the pool's queue
of free blocks and the stored page data. `Plan` is `ReusePlanner::plan` with what
a plan that does not fit leaves behind, `Evict` is `evict_oldest`, `Serve` is what `PrefixKvCache::serve` does
once the eviction loop ends, its two assertions included (`"stranded"`,
`"too_long"`). A page's key is the tokens its chained hash digests, and a page's
*data* is the tokens in whose context it was really computed: that the two are
equal is part of `CacheAccounts`, not an assumption.

`CpuEngine` drives both: `Add`, `DrainFinished`, `StepBegin` (admission, and the
whole step when nothing waits for a prefill), `EvictColdest` (one turn of the
loop in `serve`), `Prefill` (the rest of the step) and `StepUntilDone`. The
decode loop is one operator, `DecodeAll`, with the budget test before and after
a token as the code has it. The engine has one thread, so the actions of one
call are never interleaved with another call.

### HipStreams, PrefetchEngine, ExpertSlots, ExpertOffload: moving expert weights

`HipStreams` (external: it models HIP) has streams as queues of copies,
accumulations, records and waits, and events by the number of their latest
record. A call that moves data takes two device steps, so a copy into a buffer
another stream is reading yields `Corrupt` and not a lucky value. A buffer holds
the pairs (expert, weights) that went into it.

`PrefetchEngine` issues the calls of `begin`, `layer_begin`, `weights_ready`,
`layer_end` and `prefetch` in the order the layer loop of `batched.rs` makes
them; the host never waits, any call may fail, and a new forward may begin while
the last is still queued. `ExpertSlots` is `forward_moe_slots`: `Route`, `Place`
(`moe_slot_place` over `LruExpertCache`, with `evict_lru_not_in` and the
adaptive policy as a free choice), `Upload`, `Launch`, `Fallback`, `Return`, and
for each the call that fails (`RouteFails` to `ReturnFails`): the calls before it
stay queued, and the next forward starts among them. A synchronize that fails
is left out; it says that the device is lost. Layers share the residual and the events, and meet as
consecutive forwards of the one modelled layer do. `ExpertOffload` puts the two
paths over one device; a model is built for one of them.

### ImagePrompt, ImageRequests, MCImageRequests: requests with images

`ImagePrompt` has the pure part as operators: `SmartResize` and `Preprocess`
(the size of an image within what is left of the patch budget), `Expand`,
`Positions` (M-RoPE), `Mismatched` and `Build` (`MultimodalPrompt::build`) and
`StepOverrides`, what a step gives each of its rows. A feature is named by its
place in the vision tower's output. `ImageRequests` runs them: handlers that
wait for a permit (`NextImage`, `Granted`), read a body (`ReadBody`), give up at
any moment (`Abandon`), and submit (`Submit`); jobs that go on when their
handler has gone (`JobEnds`); the engine that encodes and admits
(`EngineAdmits`) and steps with chunks and a row budget (`EngineSteps`).

### Proof modules

Each extends the module it is about, none is extended by a model.

- `PagedEngineProofs`: types, token positions, ended slots; `PageSafetyProofs`
  extends it with page ownership, the pool's accounts, what the pages contain
  and the refinement.
- `ContiguousProofs`, `TokenStreamProofs`, `ServerEngineProofs`,
  `CpuEngineProofs`: the invariants of those modules.
- `ExpertOffloadProofs`: the two expert paths over their device.
- `ImageRequestsProofs`: the image permits, the patch budget, that expanded
  prompts can be encoded, and what each row of a step gets.

## What the runs check

| Run | Configuration | What it shows |
|---|---|---|
| `paged_sharing` | 2 slots, 6 positions in pages of 2 (6 physical pages), 4 rows, retired cap 1, two-page prompts with a common first page and a one-page prefix of them | ownership, materialization, no leak, recoverability, admission, refinement of `PrivateKV`, over 138,698 states |
| `paged_limit` | 2 slots, 4 positions, 2 rows, a request that meets the context limit and one that meets `max_new`, sharing nothing | `FullEngineDrains` and `AdmissionEnds` under fairness |
| `paged_finish_order` | as `paged_limit` | the violation of `FinishInRange` (finding 1) |
| `contiguous` | 3 slots, 3 positions, 3 rows, GDN chunks of 2, one anchor, a one-token and a three-token prompt; at most 2 sequences at once in reuse mode | rows, recurrent states and token positions survive slot reuse, chunking, two moves in one finish and restored anchors, an anchor whose copy fails is not kept, and without anchors the refinement of `PrivateKV`, over 109,574 states |
| `contiguous_reuse` | 1 slot, 3 positions, a one-token prompt with `max_new` = 1 and a three-token one, no cancellation | the violation of `ReuseIsExact` (finding 4) |
| `server` | a stream and two plain requests, capacity 1 or 2, queue of twice that, 2 tokens, channel of 1 | no orphan, senders follow sequences, whole completions, one answer, every request answered, 311,634 states |
| `server_shutdown` | the same, capacity 1 | the violation of `ShutdownEnds` (finding 2) |
| `token_stream` | 5 tokens, channel 2, body 2, backlog 2 | nothing lost, whole finish, the task ends, 38,802 states |
| `token_stream_closed_early` | the same | the violation of `ClosedEarlyIsUnreported` (finding 3) |
| `cpu_engine` | 2 slots, a cache of 4 pages of 2 tokens, 6 requests, context of 7 | own logits, the cache's accounts, `HolesAreColdest`, only what is too big fails, the loop ends, over 586,296 states |
| `expert_offload` | up to 3 MoE layers or experts, 2 slots, 2 experts to a token, 3 forwards | whole weights in every output on both paths, and residency that is true, whatever call of a forward fails, over 2,097,809 states |
| `image_requests` | 4 requests, 2 permits, budget of 28 patches, 2 slots, 4 rows to a step, at most 3 of one prompt | the cap on images, own features and positions, nothing rejected late, every request answered, over 8,464 states |

Why these bounds are enough for something to happen. In `paged_sharing` a
prompt's two full pages can be shared in whole or in part, the chain of one
can lose its head to eviction while its tail stays cached, a whole-prompt hit
is rewound, both slots can race to register one prefix, four rows split a
prompt into chunks, and a retired cap of 1 makes both eviction paths run. In
`paged_limit` two retired prompts do not fit beside two live ones, so admission
must evict, and the row budget of 2 makes prefill take turns. In `contiguous`
the short request and its answer may be the start of the long prompt, so an
anchor is found; the long prompt does not fit in one GDN chunk; a sequence can
move from the third slot to the first, over rows longer than its own.
`ReuseSlots` keeps the anchors' part of the state space small. In `server` the
queue can be full, a channel of one token stalls a stream on its second, and
with one slot a request is always waiting while another runs, with two the
stream can stall in the round in which another sequence completes. In `token_stream`
the five tokens exceed any two of the three buffers, so the client's stalling
fills each of them in turn. In `cpu_engine` two of the chains share a first
page, one extends another, one ends in a partial page and one cannot fit; four
pages hold one chain and part of the next, so every prefill after the first few
evicts, partial chains are met and planned over, and a request passes the
context limit while it decodes. In `expert_offload` two or three experts compete
for one or two slots, an odd and an even number of layers alternate over the two
prefetch slots, and the third forward starts on what two others, finished,
failed or still queued, have left. In `image_requests` two requests with two
images each compete with a third for two permits; one prompt has an image of two
by three merged tokens, which chunks of three rows cut, and a second image that
fits only when scaled into what the first leaves; another image cannot fit
however it is scaled; a stray pad is rejected; and text, where a pad of its own is
but a token, decodes in the same batch. The permits are the code's own number. Each property of a passing run is also shown to
bite: `PROJECT.json` names for each a plausible bug in a modelled definition
(the `Mutant of ...` operators) under which TLC finds it violated.

`CHECK_DEADLOCK FALSE` is set where the system really stops: a server whose
thread has exited, a response that has been read, an engine whose thread
has died in an assertion (finding 1, and the context limit in `cpu_engine`), a
bounded number of forwards that have all returned, and requests that have all
been answered.

### Fairness

- `PagedEngine`: `WF(Step)` because `run` (engine.rs) calls `step` as long as a
  sequence is active, `WF(Resume)` because a handler that has begun runs to its
  end. No fairness for `Add` or `Cancel`: nobody has to send or give up.
- `ServerEngine`: the engine thread, a handler *that has entered* `submit`, and
  a shutdown call that has begun are weakly fair. Readers are not, nor is a
  spurious wakeup, and nobody has to call `shutdown`.
- `TokenStream`: the engine thread and the runtime that polls the task are
  weakly fair, the client is not. `GiveUp` being a step of the task, its
  fairness is the expiry of the deadline.
- `CpuEngine`: only the loop in `step_until_done` is fair, by `turn`, which its
  every iteration flips: a caller need not call anything.
- `ExpertOffload`: none; it has safety properties only.
- `ImageRequests`: handlers, the semaphore (tokio's is first come, first
  served), image jobs and the engine thread are weakly fair. A body that is
  being read ends, since the request has a time-out. Nothing is said of
  `Abandon`: no request may need somebody to give up.

### Findings

1. **`step` finishes slots in an order that is not descending.**
   `done_slots` lists first the slots the outputs loop ended and then those of
   the context-limit loop, each ascending, and is walked in reverse. If slot 0
   hits the limit in the step in which slot 1 ends, slot 0 is finished first,
   slot 1 moves down, and `finish(1)` meets its assertion. With three sequences
   the wrong one can be finished. The model keeps that order; the panic is a
   state (`panicked = "finish_range"`), and the other properties hold on every
   behaviour, those included in which a wrong slot is retired.
2. **`shutdown()` can lose its wakeup.** It stores the flag and notifies without
   the queue's mutex. Both can fall between the engine's check of the flag
   (under the mutex) and `cond.wait`; the engine then sleeps with the flag up
   and `main`'s join waits for it. `submit` does not have this problem: it
   enqueues under the mutex, and `EveryRequestIsAnswered` holds.
3. **A completed stream can be reported as broken.** The biased `select!` polls
   the completion, then the channel. If the engine reports and closes between
   the two polls, the channel is seen closed before the completion is seen, and
   the client gets an error frame for a whole response.

4. **An anchor covers a token whose KV was never stored.** `finish` saves the
   anchor over all of `all_tokens`; the last sampled token has not been fed, so
   the copied row holds zeros or an earlier sequence's cell at its position.
   The next turn of the conversation restores it and attends over it. The run
   reaches this with one request that ends at its `max_new` after one token and a
   second whose prompt is that conversation and one token more; EOS and a stop
   sequence leave the same cell, and a request cancelled before its prompt is
   prefilled leaves more of them.
   Everything else about anchors holds: a sequence with a restored prefix
   neither skips a token nor stalls (`OneTokenBehind` in reuse mode).

### Observations

Met while modelling, and not runs of their own.

- *CPU engine.* A step prefills the lowest slot *index*, where its comment says
  the oldest request. `CpuEngine::add` does not check a prompt and its budget
  against `max_seq_len`, so the assertion in `decode_step` can end the engine:
  the model has that panic, and `Drains` allows it. In the state machine,
  `ExtendResult` in `PrefillDone` and `RemotePrefillDone` do not count towards
  the decode budget; the CPU engine uses neither.
- *Prefix cache.* The comment in `serve` that a page beyond a hole cannot be met
  holds (`HolesAreColdest`), because a hole exists only in a full pool and its
  orphans are the coldest. It would not hold if a caller used the public
  `evict_oldest` on a pool that is not full. `ReusePlanner::release` removes
  entries another plan may have registered since; nothing calls it. A hybrid
  model (`Hybrid = TRUE`) would lose its recurrent state on a reused prefix.
- *Expert slots.* A failed upload leaves `slot_expert` and the LRU saying that
  the expert is resident, and later forwards gather what the slot holds.
  `PlacementIsInvisible` and `ResidentIsLoaded` except exactly these slots
  (`stale`, `misread`), so they do not speak of this defect; they hold for
  everything else, after any other failed call too. The comments that call the placement `plan_step`
  and say that a step never evicts describe an earlier form: the code calls
  `evict_lru_not_in`.
- *Images.* The document of `preprocess_image_limited_downscaling` says that it
  fails only if the minimum cannot fit; an image of an extreme ratio fails above
  that (`long` in the instance). `FETCH_TIMEOUT` includes the wait for a permit.
  `StepSeq::offset` is documented as a generated-token index for decode rows, and
  the engine passes the position in the sequence, which is what the overrides
  need.

## What is proved

| Theorem | Module | Says |
|---|---|---|
| `TypeCorrect` | PagedEngineProofs | `TypeOK` always holds |
| `NeverSkipsAToken` | PagedEngineProofs | `OneTokenBehind` always holds |
| `NoEndedSequenceStays` | PagedEngineProofs | `EndedLeaves` always holds |
| `FinishHoldsWithinContext` | PagedEngineProofs | `FinishInRange` always holds if every request fits the context |
| `PagesAreSafe` | PageSafetyProofs | `PageSafety` always holds |
| `NothingLeaks` | PageSafetyProofs | `NoPageLeak` always holds |
| `CachedIsRecoverable` | PageSafetyProofs | `CacheIsRecoverable` always holds |
| `AdmissionFindsPages` | PageSafetyProofs | `AdmissionNeverStarves` always holds |
| `AttentionReadsOwn` | PageSafetyProofs | `ReadsOwnContext` always holds |
| `CacheHoldsItsPrefix` | PageSafetyProofs | `CacheIsMaterialized` always holds |
| `PagingIsInvisible` | PageSafetyProofs | the paged engine implements `PrivateKV` |
| `ContiguousTypeCorrect` | ContiguousProofs | `TypeOK` always holds |
| `ContiguousNeverSkips` | ContiguousProofs | `OneTokenBehind` always holds |
| `RowsStayOwn` | ContiguousProofs | `RowsAreOwn` always holds |
| `RecurrenceStaysOwn` | ContiguousProofs | `RecurrenceIsOwn` always holds |
| `RowsAreInvisible` | ContiguousProofs | outside reuse mode the contiguous engine implements `PrivateKV` |
| `ServerTypeCorrect` | ServerEngineProofs | `TypeOK` always holds |
| `SendersFollow` | ServerEngineProofs | `SendersFollowSequences` always holds |
| `NoOrphans` | ServerEngineProofs | `NoRequestOrphaned` always holds |
| `CompletedStreamsAreWhole` | ServerEngineProofs | `CompletionIsWhole` always holds |
| `AnswersStayFinal` | ServerEngineProofs | `AnswersAreFinal`: no step changes an answer |
| `StreamTypeCorrect` | TokenStreamProofs | `TypeOK` always holds |
| `NoTokenIsLost` | TokenStreamProofs | `NothingLost` always holds |
| `FinishMeansWhole` | TokenStreamProofs | `FinishIsWhole` always holds |
| `CpuTypeCorrect` | CpuEngineProofs | `TypeOK` always holds |
| `CpuLogitsAreOwn` | CpuEngineProofs | `LogitsAreOwn` always holds on a model without recurrent layers |
| `CpuCacheAccounts` | CpuEngineProofs | `CacheAccounts` always holds on a model without recurrent layers |
| `CpuFailsOnlyWhenTooBig` | CpuEngineProofs | `FailsOnlyWhenTooBig` always holds |
| `CpuHolesAreColdest` | CpuEngineProofs | `HolesAreColdest` always holds |
| `PrefetchIsWhole` | ExpertOffloadProofs | `PrefetchedIsWhole` always holds, for any number of layers and forwards |
| `ResidentsAreLoaded` | ExpertOffloadProofs | `ResidentIsLoaded` always holds |
| `PlacementStaysInvisible` | ExpertOffloadProofs | `PlacementIsInvisible` always holds |
| `Conserved` | ImageRequestsProofs | `PermitsAreConserved` always holds: each permit is free, with a handler, or with a job |
| `CapHolds` | ImageRequestsProofs | `ImagesInMemoryAreCapped` always holds |
| `BudgetHolds` | ImageRequestsProofs | `BudgetIsKept` always holds: no handler spends more patches than a request may |
| `AcceptedAreEncodable` | ImageRequestsProofs | `AcceptedIsEncodable` always holds |
| `RowsHold` | ImageRequestsProofs | `RowsGetTheirOwn` always holds |

They hold for every value of the constants that satisfies the module's
assumption, which TLC also evaluates on the instances and which the code's
constructors and guards ensure:

- `BatchingAssumption`: at least one row per slot, prompts that `add_inner`
  accepts. `EngineAssumption`: `MaxSeq` a multiple of the page size, as the
  constructor requires. `ContiguousAssumption`: a GDN chunk has a row.
- `ServerAssumption`, `StreamAssumption`: there is a slot, a token to generate and
  room for one in each channel.
- `PrefixKvAssumption`: a page has a token. `CpuEngineAssumption`: there is a slot,
  and prompts are not empty (`CpuEngine::add` refuses an empty one).
- `StreamsAssumption`, `SlotsAssumption`: weights and slots are numbered from 0,
  there are at least the two slots of the double buffer, and the bound on
  forwards and the experts to a token are numbers. How far the device is behind
  the host is not bounded.
- `ImagePromptAssumption`: patches and merged tokens have a size, and the pixel
  limits are in order. `ImageRequestsAssumption`: finitely many requests with chat
  prompts, limits that are numbers, and a chunk of at least one row. In chat
  prompts two pads are never neighbours unless the text has some of
  its own (`Sound`): the template puts each image's pad between its own
  start and end tokens. With neighbours, the prompt builder would see one group
  for two images; but text with pads of its own has more pads than images,
  and `Expand` rejects it.

**The paged engine.** `TypeOK` is not inductive: `len` stays inside the
sequence only because of `OneTokenBehind`, and a step leaves tables and
`done` well formed only because handlers exclude each other. `TypeInv` is
`TypeOK /\ OneTokenBehind /\ HandlersExclude`, and one step lemma per action
preserves it. `RolledBack` is the lemma behind the two failing admissions: wherever
`alloc` stops, the pads and the plan's pages are apart and are exactly the pages it had
returned, no aliased one among them. `PageSafety` is inductive relative to `TypeInv`. Its heart is
`SharedOnlyByPrefix`: a page that two tables share is the same page of the same
prefix *and still registered* under its hash, and a registered page sits
nowhere else. With it, the pages `finish` drops (those not registered to this
prompt) belong to nobody else, the pages eviction drops (registered, in no live
table) neither, and the pages registration publishes were the writer's own.
Without the second half, a generated page could be aliased; without the first,
a page whose hash lost the race could be freed under its co-owner. The theorem
quantifies over the pages an allocation returns, so it is also what justifies
fixing them in the model-checked instances.

`PoolInv` keeps the pool's accounts, page by page: a page that is not free is in a
live table or registered (`Held`), and a registered page is claimed by a
retired prompt or is in the table of a live one that claims it
(`CacheIsRecoverable`). `NoPageLeak` adds the other direction, which is
`PageSafety`. `AdmissionNeverStarves` is then counting: with nothing retired, each
page that is not free is in one of fewer than `Capacity` tables of `MaxPages`
pages.

`ContextInv` is about contents: the device has the host's table, each cell a live
sequence has written holds its own prefix, and a registered page holds the
prefix its hash stands for. The two last are one induction. A reused page is
right because the cache is; the cache is right because a page is registered only
after its last row has been written, by its owner. A step writes for several
sequences at once: by `PageSafety` a cell has two writers only if both
have the same prefix there, and then they write the same. The refinement
follows from `ReadsOwnContext`: the cells of a live sequence *are* its private
store, and finishing, moving down and evicting change none of them.

`EndedLeaves` holds for requests that fit the context (`WithinContext`). Beyond
it finding 1 lets an ended sequence keep its slot (with three slots, the wrong
one is retired), so that hypothesis is part of the property. So it does not watch
the hazards of the finishing order and of the context limit (`continuous.rs:1197`,
`:1190`), which are `FinishInRange`'s and `FullEngineDrains`'. Under it no
sequence ends at the limit that had not ended by its output, so `done.limit`
stays empty, and the assertion of `finish` never fires: the finding *needs*
a request that outgrows the context.

**The contiguous engine.** `CInv` adds to the types and `OneTokenBehind` that an
anchor has no cell beyond its tokens (`AnchorsFit`), without which a restored
length would be out of the row. `RowsAreOwn` and `RecurrenceIsOwn` (outside reuse mode, where
finding 4 contradicts the first) are then preserved action by action; the work is in `Finish`, which moves the sequences
above the finished one down a slot, and in a step's chunk, whose cells are
written in one go. `RowsAreInvisible` follows as for the pages: by `RowsAreOwn`
what a slot shows is a function of its sequence (`ViewIsOwn`), so each action
need only be followed in `seqs` and `active`: `Add` is `Admit` with nothing
reused, `Step` is `Forward` (`ViewAdvance`, one slot at a time), `Finish` is
`Leave`.

**The server.** `IInv` adds to the two properties where every unanswered request
is (`Accounted`: queued, being admitted, or in the completion map), who is
inside the critical section (`Exclusion`), and what the exit of the thread
implies (`Ended`). `NoRequestOrphaned` alone is not inductive: that no handler
enqueues after the last drain follows from the flag being up, the flag being
read again under the lock, and the lock being free when the thread exits.

`QInv` counts: a request is in the queue once, or between the queue and the model,
or in the model, all that time unanswered (`Once`), so `capacity` and `PendingCap`
are respected; and what a stream's channel was given is what the model generated
unless it was cut off (`Delivered`), so that a completion means all of it.

**The stream.** `SInv` follows the engine's report and the task's reaction to it
(`Reports`), and says that a finish chunk is last and comes after the whole text
(`Finished`). `NothingLost` is about the concatenation of everything between the
engine and the client; its lemmas (the text of a concatenation is the
concatenation of the texts) are proved from the definition of the fold by
induction over sets of lengths.

**The CPU engine.** The LRU order is reasoned about through one relation,
`Before(s, a, b)`, and each operation of the cache has one lemma that says what
the operation does to that relation and to the set of entries. `Fitted`,
`Unfitted` and `Answered` say what a plan, a plan that does not fit, and `serve`
leave behind. `IInv` has four parts: the queues (`Queues`), every admitted
request waiting for its prefill or decoding from its own tokens (`Service`), the
cache's books (`Books`: entries, pinned blocks, free blocks and page data account
for each other, and without recurrent layers each page holds the state after its
key's tokens), and the verdicts (`Verdicts`). With recurrent layers
(`Hybrid`) a page does not hold the recurrent state after its tokens, so a reused
prefix loses it (Observations) and two of the theorems are about models
without them.

`HolesAreColdest` needs a second invariant, `Orderly`. A key is *holed* if a page
before its own is no longer indexed. In the LRU order a chain lies contiguous
(`Contiguous`), for every touch moves whole leading chains to the hot end; so
evicting the head of a chain makes the rest of it the coldest keys (`Coldest`),
they form one chain (`OneChain`), and they have the same holes (`SameHoles`), until
all are gone. What keeps a plan from meeting one is counting (`Loop`): the
loop in `serve` evicts one key a turn and stops as soon as the blocks suffice, so
while a holed key is left there is no block to spare (`Full` between two
steps), and a holed key of the prompt's own chain is deeper than the blocks
freed so far. That a plan fits then means that such a key is deeper than the
prompt itself. TLC also confirmed that `Orderly` is inductive, from every tidy
order of a small index.

**The expert paths.** `PathInv` has an invariant for each path. On the prefetched
one the host never waits, so any number of calls of any number of forwards may be
queued, those of failed forwards included, and `PrefetchInv` is about each call in
the queues. `Queued` says which call can follow which (`Follows`): a
multiplication comes right after the wait for its weights. A multiplication is
`Live` if its forward's output is queued behind it, or may still be. A live one has
its `Own` weights: they are in its slot, or the copy that brings them is in the side
queue and signals the very event that the multiplication waits for; and each later
copy into the slot is `Guarded`, that is, stands behind a wait for a record that
follows the multiplication. This is what a test hardly shows: a wait is for the
*latest* record of its event when it is issued, so two forwards are in order only
because each records the same events again and no wait can be satisfied by a
record of the earlier one (`Numbered`, `OnTime`). `Base` is preserved by the
device's steps and by every prefix of a stage's calls, which is the case of a
call that fails; `OnTime` says what the host has already issued where it stands.

On the bounded path the host waits for its events, so at each of its stages only a
few calls can be queued, besides what a forward that failed has left: the wait
and the copies of its last stage, on either stream. Between forwards the invariant
therefore does not name the last forward but says that there is one, or none
(`q` of `ViewOf`), whose output may still be queued, and `MayFollow` is
what each call a new forward issues needs to find there. `SlotsInv` states the books first: `BookOf` (the LRU
index and `slot_expert` say the same, of different slots) and `StepOf` (what
`moe_slot_place` has decided and is to be gathered or computed on the
host is exactly what was routed). `ViewOf` reduces the host's place to what
the device's calls depend on, and `SlotsBase` relates the device to that
view: what the compute, side and null streams may hold (`OnCompute`, `OnSide`,
`OnNull`), that a slot with nothing pending and no failed upload has its expert's
weights (`SlotsHold`), and that an output already stored is right (`Stored`).
`moe_slot_place` is a recursive function over the routed experts; what it does
to the books is proved one expert at a time (`Placing`) and carried over the list
by induction on a set of lengths (`UpTo`). `ResidentIsLoaded` and
`PlacementIsInvisible` follow from the invariant without another step. TLC checked
the parts of both invariants on the instance of `expert_offload` before they were
proved.

**The images.** That the cap holds is not inductive: a permit given back twice
would break it later. `PermitsAreConserved` balances free permits, readers and
jobs exactly. It needs `Waiters` (whoever is in the semaphore's queue is
waiting, once) so that a grant goes to a handler that holds none, and `OneJob`
(a request has at most one job, its handler waits for it or is gone) so that a
grant adds a job and an ending job takes nothing from a reader. An abandoned
waiter's place in the queue is closed by `DroppedWaiter`.

That the engine refuses nothing is a fact about data and about stages. `EInv` says
what a handler's grids are in each stage (`Fits`): they are within the budget,
one is missing while an image is under way, and once the request is
submitted none is and its prompt has been expanded. An unattended job changes no
grids, so the budget its image was fitted into (`WithinBudget`) is still what is
left. About the data, `ExpandedMatches` says that `MultimodalPrompt::build` accepts
what `expand_image_pads` makes. `Expand` concatenates a piece for each token,
and the induction over its prefixes keeps `Grouped`: the groups of pads so far
start where they should, each has the length of its image and ends before
something else. It goes on because a piece of pads never follows another
(`PadsFollow`, `TokenFollows`). Inductions over data are by sets of lengths (`UpTo`),
as the library's rules take an operator.

That every row gets its own compares two ways to go through the same prompt: the
code divides the expanded tokens into runs and gives each run its positions, the
reference goes through the tokens before expansion and lays out one image
after the other. `ExpandedIsLaid` is the induction over the tokens that joins
them. It keeps `LaidOut`: the runs of what has been expanded so far are maximal,
the positions the code computes for them are the reference's, and the next
position is one after the largest so far (`Reaches`). A token of text starts a
run or makes the last one longer (`TextFollows`: the sum of what the runs take
grows by one either way); an image always starts a run, since two are never
neighbours (`GridFollows`), and fills a rectangle of positions whose longer side
is what `advance_vision_pos` goes on by (`ImagePlaces`). The features follow from the
order of the pads (`FeatureAt`): the i-th override of `build` is for the i-th pad,
and the concatenated features are numbered in that order. `OverrideIsOwn` puts
this together for one row, in a chunk of the prompt or after it, where `delta`
turns the place in the sequence into the reference's position.

About the steps, `RInv` says that a sequence of the engine has a token of its
prompt to feed or one to generate (`Running`), so that its rows are those of the
prompt, however long the chunk, or the one after the last token (`RowsFit`);
and that the handler of a submitted request never moves again (`HandlerMoves`), so
what a sequence refers to stays.

Only model-checked:

- liveness under fairness (`FullEngineDrains`, `AdmissionEnds`, `Drains`,
  `EveryRequestIsAnswered`, `TaskEnds` and the image requests' own), which like
  `ENABLED` is beyond the prover.

## What is not modelled

- In the engine: multimodal prompts, which paged and reuse mode refuse (as paged
  mode refuses GDN models, in `paged_guards`) and which elsewhere change only
  the embedding and position tables of a row (`ImageRequests` has those); an anchor's hidden state, which the
  next forward overwrites; the anchors of an MLA model, whose layer count never
  matches on restore; a device error inside `step`, after which the server fails every request and the engine thread ends, so the
  engine's state is not used again. Sampling returns any token.
- In the server: the parsing of JSON and the formatting of chat templates
  around the handlers; a panic of the engine thread (finding 1 shows one; its
  effect on callers, at `continuous.rs:1295`, is a listed hazard without a
  property, since it needs a model of the unwinding thread: the plan's first
  item).
- In the stream: bytes that never become UTF-8 (`routes.rs:189`, a listed hazard
  without a property: `Decode` may keep a token for ever, which covers it for
  the properties checked).
- In the CPU engine: the decode reserve of a request, which nothing reads;
  packing several pages of a group into one block, since this cache makes blocks
  of one page; the public operations no engine calls.
- In the expert paths: `plan`, `plan_step` and `plan_lru`, which only unit tests
  call; a synchronize that fails (the device is lost); the measurements behind the adaptive policy; the single-stream paths
  that upload everything at load time.
- With images: the address checks and redirects of a fetch (its failure is a
  choice of `NextImage`), decoders, the resampling itself, rotation angles, grids
  of more than one frame (there is no video input).
- Numeric code: kernels, quantized formats, forward passes, samplers. Formats:
  tokenizer, chat templates, weight files, configuration.

The map covers a small share of the implementation's lines, and most of the
rest cannot be covered honestly. About ten thousand lines are GPU kernels, kept
as source text in strings, and their launch wrappers; the CPU and GPU forward
passes, the vision tower, the samplers and the quantized formats are
floating-point arithmetic, of which a model without numbers would keep a list of
calls; loaders and configuration are field-by-field translations of files
without state; and a large part of each source file is its unit tests. What
remains, the code that decides and orders, is what the modules above model.

## Plan

Done: the paged and the contiguous engine, the server, the stream, the CPU
engine with its prefix cache and state machine, the two expert paths, requests
with images. Every safety property is proved; liveness is model-checked (see
"Only model-checked").

Modelling that would still add something, in this order:

1. `ServerEngine` with a model that can panic, to state what callers see.
2. `PagedRef`, the CPU reference of the paged layout, as a third implementation
   of `PrivateKV`.
3. The deterministic helpers of sampling (top-k and top-p cut-offs, penalties on
   counts) over small integers against reference definitions.
4. `BlockPool` with several pages to a block, if an engine comes to use it.
