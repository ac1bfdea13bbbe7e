--------------------------- MODULE ImageRequests ---------------------------
(***************************************************************************)
(* Chat requests with images, from the handler (chat_completions) through  *)
(* the image jobs (fetch_impl_limited, run_image_job) to the rows of the   *)
(* engine's steps (VisionRuntime::encode, ContinuousModel::step).          *)
(*                                                                         *)
(* Handlers are tasks of one runtime; they take a permit of a process-wide *)
(* semaphore to hold an image in memory.  Decoding runs on the blocking    *)
(* pool, where nothing can cancel it: the job owns the permit, and goes on *)
(* when its handler has timed out or its client has gone.                  *)
(*                                                                         *)
(* The submission queue's limit, cancellation and the context limit are    *)
(* ServerEngine's and ContiguousEngine's.                                  *)
(***************************************************************************)
EXTENDS ImagePrompt

CONSTANTS
  Request,      (* the requests                                            *)
  Content,      (* request -> [tokens, images: [size, http], maxNew]       *)
  Permits,      (* IMAGE_JOB_PERMITS                                       *)
  MaxPatches,   (* the vision patch budget of a request                    *)
  Downscale,    (* MACH_VISION_DOWNSCALE                                   *)
  Capacity,
  PrefillRows,  (* rows of a step                                          *)
  ChunkMax      (* rows of one prompt in a step: GDN_CHUNK_MAX             *)

(* A chat prompt: the template puts each image's pad between its own       *)
(* <|vision_start|> and <|vision_end|>, so two pads can only be neighbours *)
(* if the text has some of its own, and then there are more than images.   *)
Sound(tokens, images) ==
  /\ tokens \in Seq(ToSet(tokens))
  /\ images \in Seq([size : Nat \X Nat, http : BOOLEAN])
  /\ PadsBefore(tokens, Len(tokens)) = Len(images) =>
       \A i \in 2 .. Len(tokens) : tokens[i] # Pad \/ tokens[i - 1] # Pad

ASSUME ImageRequestsAssumption ==
  /\ IsFiniteSet(Request) /\ Permits \in Nat /\ MaxPatches \in Nat
  /\ PrefillRows \in Nat /\ ChunkMax \in Nat \ {0}
  /\ \A r \in Request :
       Sound(Content[r].tokens, Content[r].images) /\ Content[r].maxNew \in Nat

VARIABLES
  handler,  (* per request [stage, grids]                                  *)
  permits,  (* free permits                                                *)
  waiting,  (* the requests queued for a permit                            *)
  jobs,     (* running jobs: [request, image]                              *)
  pending,  (* submitted requests                                          *)
  active,   (* the engine's sequences, by slot                             *)
  batch,    (* the sequences of the last step and their rows               *)
  reply     (* what the engine sent each handler                           *)

vars == <<handler, permits, waiting, jobs, pending, active, batch, reply>>

Init ==
  /\ handler = [r \in Request |-> [stage |-> "next", grids |-> <<>>]]
  /\ permits = Permits
  /\ waiting = <<>> /\ pending = <<>> /\ active = <<>>
  /\ jobs = {}
  /\ reply = [r \in Request |-> "none"]
  /\ batch = <<>>

(***************************************************************************)
(* The handler                                                             *)
(***************************************************************************)
Images(r)  == Content[r].images
Current(r) == Images(r)[Len(handler[r].grids) + 1]
Spent(r)   == Total([i \in DOMAIN handler[r].grids |-> Patches(handler[r].grids[i])])

Goes(r, stage) == handler' = [handler EXCEPT ![r].stage = stage]

(* remaining_patch_budget, and for an http image the request, its          *)
(* redirects and the checks of its headers, which may fail.                *)
NextImage(r) ==
  /\ handler[r].stage = "next" /\ Len(handler[r].grids) < Len(Images(r))
  /\ \/ /\ Spent(r) < MaxPatches
        /\ Goes(r, "waiting")
        /\ waiting' = Append(waiting, r)
     \/ /\ Spent(r) >= MaxPatches \/ Current(r).http
        /\ Goes(r, "answered")
        /\ UNCHANGED waiting
  /\ UNCHANGED <<permits, jobs, pending, active, batch, reply>>

(* acquire_image_job returns; a data URL goes straight to its job.         *)
Job(r) == [request |-> r, image |-> Len(handler[r].grids) + 1]

Granted ==
  /\ permits > 0 /\ waiting # <<>>
  /\ permits' = permits - 1
  /\ waiting' = Tail(waiting)
  /\ LET r == Head(waiting)
     IN  IF Current(r).http
         THEN Goes(r, "reading") /\ UNCHANGED jobs
         ELSE Goes(r, "job") /\ jobs' = jobs \cup {Job(r)}
  /\ UNCHANGED <<pending, active, batch, reply>>

(* read_body_limited under the permit, which an error drops.               *)
ReadBody(r) ==
  /\ handler[r].stage = "reading"
  /\ \/ /\ Goes(r, "job")
        /\ jobs' = jobs \cup {Job(r)}
        /\ UNCHANGED permits
     \/ /\ Goes(r, "answered")
        /\ permits' = permits + 1
        /\ UNCHANGED jobs
  /\ UNCHANGED <<waiting, pending, active, batch, reply>>

(* Mutant: the job's permit belongs to the handler's future.               *)
DroppedPermits(r) == IF handler[r].stage \in {"reading", "job"} THEN permits + 1 ELSE permits

(* The permits free once r's future is dropped.                            *)
PermitsWithout(r) == IF handler[r].stage = "reading" THEN permits + 1 ELSE permits

(* A waiter that is dropped leaves the semaphore's queue.                  *)
WaitingWithout(r) ==
  IF \E i \in DOMAIN waiting : waiting[i] = r
  THEN RemoveAt(waiting, CHOOSE i \in DOMAIN waiting : waiting[i] = r)
  ELSE waiting

(* FETCH_TIMEOUT, or the client is gone.                                   *)
Abandon(r) ==
  /\ handler[r].stage \in {"waiting", "reading", "job"}
  /\ Goes(r, "answered")
  /\ permits' = PermitsWithout(r)
  /\ waiting' = WaitingWithout(r)
  /\ UNCHANGED <<jobs, pending, active, batch, reply>>

Attended(j) == handler[j.request].stage = "job"

(* Mutant: a job whose handler has gone does not give its permit back.     *)
PermitsIfAttended(j) == IF Attended(j) THEN permits + 1 ELSE permits

PermitsAfter(j) == permits + 1

(* A job ends, with a grid, an error of preprocess, or one of decode_rgb8. *)
JobEnds(j) ==
  /\ j \in jobs
  /\ jobs' = jobs \ {j}
  /\ permits' = PermitsAfter(j)
  /\ LET r    == j.request
         grid == Preprocess(Images(r)[j.image].size, MaxPatches - Spent(r), Downscale)
     IN  \/ ~Attended(j) /\ UNCHANGED handler
         \/ Attended(j) /\ Goes(r, "answered")
         \/ /\ Attended(j) /\ grid # Rejected
            /\ handler' = [handler EXCEPT ![r] = [stage |-> "next", grids |-> Append(@.grids, grid)]]
  /\ UNCHANGED <<waiting, pending, active, batch, reply>>

(* The tokens as submitted: expanded when there are images.                *)
Submitted(r) ==
  IF Images(r) = <<>> THEN Content[r].tokens ELSE Expand(Content[r].tokens, handler[r].grids)

Submit(r) ==
  /\ handler[r].stage = "next" /\ Len(handler[r].grids) = Len(Images(r))
  /\ IF Submitted(r) = Rejected
     THEN Goes(r, "answered") /\ UNCHANGED pending
     ELSE Goes(r, "submitted") /\ pending' = Append(pending, r)
  /\ UNCHANGED <<permits, waiting, jobs, active, batch, reply>>

(***************************************************************************)
(* The engine                                                              *)
(***************************************************************************)
(* VisionRuntime::encode is asked for more patches than it can take, or    *)
(* for images the prompt does not have.                                    *)
Unencodable(r, tokens) ==
  Images(r) # <<>> /\ (Spent(r) > MaxPatches \/ Mismatched(tokens, handler[r].grids))

(* The request at the head of the queue is encoded and given a slot.       *)
EngineAdmits ==
  /\ pending # <<>> /\ Len(active) < Capacity
  /\ \E r \in {Head(pending)} : \E tokens \in {Submitted(r)} :
         IF Unencodable(r, tokens)
         THEN reply' = [reply EXCEPT ![r] = "refused"] /\ UNCHANGED active
         ELSE /\ active' = Append(active, [request |-> r, tokens |-> Len(tokens), len |-> 0])
              /\ UNCHANGED reply
  /\ pending' = Tail(pending)
  /\ UNCHANGED <<handler, permits, waiting, jobs, batch>>

(* The rows each slot contributes while the budget lasts.                  *)
Asks(q) == IF q.len < q.tokens THEN Smaller(q.tokens - q.len, ChunkMax) ELSE 1

RowsOf ==
  LET budget[s \in 0 .. Len(active)] ==
        IF s = 0 THEN PrefillRows ELSE Larger(0, budget[s - 1] - Asks(active[s]))
  IN  [s \in DOMAIN active |-> Smaller(Asks(active[s]), budget[s - 1])]

(* One step; a sequence with its last token leaves, and its slot is closed.*)
Generated(q, n) == q.len + n - q.tokens + 1

EngineSteps ==
  /\ active # <<>>
  /\ \E taken \in {RowsOf} :
       LET Leaves(s) == taken[s] > 0 /\
                        Generated(active[s], taken[s]) >= Content[active[s].request].maxNew
           Longer(s) == [active[s] EXCEPT !.len = @ + taken[s]]
           stay      == Ascending({s \in DOMAIN active : ~Leaves(s)})
       IN  /\ batch' = [s \in DOMAIN active |->
                         [request |-> active[s].request, offset |-> active[s].len, count |-> taken[s],
                          prefill |-> taken[s] > 0 /\ active[s].len < active[s].tokens]]
           /\ active' = [i \in DOMAIN stay |-> Longer(stay[i])]
           /\ reply' = [r \in Request |->
                          IF \E s \in DOMAIN active : Leaves(s) /\ active[s].request = r
                          THEN "completed" ELSE reply[r]]
  /\ UNCHANGED <<handler, permits, waiting, jobs, pending>>

(* What the step gives its rows: step_overrides of its sequences.          *)
Prompt(r) == IF Images(r) = <<>> THEN NoImage ELSE Build(Submitted(r), handler[r].grids)

Given ==
  StepOverrides([s \in DOMAIN batch |->
    [offset |-> batch[s].offset, count |-> batch[s].count, prefill |-> batch[s].prefill,
     prompt |-> Prompt(batch[s].request)]])

Handles(r) == NextImage(r) \/ Submit(r)

Next ==
  \/ \E r \in Request : Handles(r) \/ ReadBody(r) \/ Abandon(r)
  \/ Granted
  \/ \E j \in jobs : JobEnds(j)
  \/ EngineAdmits
  \/ EngineSteps

(* Tasks are scheduled, the semaphore is fair, a decode ends, a body ends  *)
(* or times out, and the engine thread keeps stepping.  Nothing forces a   *)
(* time-out anywhere else.                                                 *)
Fairness ==
  /\ \A r \in Request : WF_vars(Handles(r)) /\ WF_vars(ReadBody(r))
  /\ WF_vars(Granted)
  /\ WF_vars(\E j \in jobs : JobEnds(j))
  /\ WF_vars(EngineAdmits \/ EngineSteps)

Spec == Init /\ [][Next]_vars /\ Fairness

(***************************************************************************)
(* Properties                                                              *)
(***************************************************************************)

Reading == {r \in Request : handler[r].stage = "reading"}

(* At most Permits images are in memory as a body or in a decode, those of *)
(* handlers that are gone included (multimodal.rs:321-326).                *)
ImagesInMemoryAreCapped ==
  Cardinality(jobs) + Cardinality(Reading) <= Permits

(* The reference for positions (HF get_rope_index): the token after a      *)
(* prefix comes one after the largest position in it, and the tokens of an *)
(* image are laid out over its grid from there.                            *)
NextPosition(pos) == Max({-1} \cup UNION {{p[1], p[2], p[3]} : p \in ToSet(pos)}) + 1

OnGrid(base, k, width) == <<base, base + (k \div width), base + (k % width)>>

(* A pad stands for an image unless the request has none.                  *)
StandsForImage(r, i) == Images(r) # <<>> /\ Content[r].tokens[i] = Pad

(* Reference positions: one image or text token after the other, then the  *)
(* tokens that are generated.                                              *)
ReferencePositions(r) ==
  LET After(pos, i) ==
        IF ~StandsForImage(r, i) THEN Append(pos, Everywhere(NextPosition(pos)))
        ELSE LET grid == handler[r].grids[PadsBefore(Content[r].tokens, i)]
             IN  pos \o [k \in 1 .. Merged(grid) |->
                           OnGrid(NextPosition(pos), k - 1, grid[3] \div MergeSize)]
      upto[i \in 0 .. Len(Content[r].tokens)] == IF i = 0 THEN <<>> ELSE After(upto[i - 1], i)
      prompt == upto[Len(Content[r].tokens)]
  IN  prompt \o [k \in 1 .. Content[r].maxNew |-> Everywhere(NextPosition(prompt) + k - 1)]

ReferenceFeature(r, at) ==
  LET tokens == Submitted(r)
  IN  IF Images(r) # <<>> /\ at <= Len(tokens) /\ tokens[at] = Pad
      THEN PadsBefore(tokens, at) ELSE 0

(* Whatever chunks a prompt was cut into and whoever shares the batch, the *)
(* row of each image token gets the feature of that token and no other row *)
(* gets one, and every row, generated tokens included, is rotated by its   *)
(* position of the reference.                                              *)
RowsGetTheirOwn ==
  Given # <<>> =>
    Given = FlattenSeq([s \in DOMAIN batch |->
              [k \in 1 .. batch[s].count |->
                 LET r == batch[s].request
                     at == batch[s].offset + k
                 IN  [pos |-> ReferencePositions(r)[at], feature |-> ReferenceFeature(r, at)]]])

(* What a handler has let through, images within the budget and one run of *)
(* pads each, the vision tower and the prompt builder never reject.        *)
AcceptedIsEncodable == \A r \in Request : reply[r] # "refused"

(* Every request is answered, though images queue behind jobs whose        *)
(* handlers are gone: no permit is lost.                                   *)
EveryRequestIsAnswered ==
  \A r \in Request : <>(handler[r].stage = "answered" \/ reply[r] # "none")
=============================================================================
