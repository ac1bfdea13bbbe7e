------------------------ MODULE ImageRequestsProofs ------------------------
(***************************************************************************)
(* For any requests and any number of permits: no permit is lost or given  *)
(* back twice, so the images in memory never outnumber the permits.  The   *)
(* inductive invariant says who holds each permit (PermitsAreConserved),   *)
(* who is in the semaphore's queue (Waiters) and that a request has one    *)
(* job at a time, even when its handler is gone (OneJob).                  *)
(*                                                                         *)
(* And for any prompts and images: the engine can encode every request a   *)
(* handler submits.  The second invariant (EInv) says what a handler's     *)
(* grids are in each of its stages; that an expanded prompt has the groups *)
(* of pads its grids ask for is ExpandedMatches, by induction over the     *)
(* tokens.                                                                 *)
(*                                                                         *)
(* And for any chunks and batches: each row of a step gets its own         *)
(* position and feature.  The third invariant (RInv) says where in its     *)
(* prompt each sequence of the engine and each of its rows can be.  That   *)
(* the runs of an expanded prompt lay out the positions of the reference   *)
(* is ExpandedIsLaid, again by induction over the tokens; OverrideIsOwn is *)
(* what step_overrides gives one row.                                      *)
(***************************************************************************)
EXTENDS ImageRequests, FiniteSetTheorems, SequenceTheorems, WellFoundedInduction, TLAPS

Stages == {"next", "waiting", "reading", "job", "submitted", "answered"}

HandlersHaveStages ==
  /\ DOMAIN handler = Request
  /\ \A r \in Request : "stage" \in DOMAIN handler[r] /\ handler[r].stage \in Stages

Shapes ==
  /\ HandlersHaveStages
  /\ permits \in Nat
  /\ waiting \in Seq(Request)
  /\ IsFiniteSet(jobs)
  /\ \A j \in jobs : j.request \in Request

(* The queue of the semaphore holds waiting handlers, once each.           *)
Waiters ==
  /\ \A i \in 1 .. Len(waiting) : handler[waiting[i]].stage = "waiting"
  /\ \A i, k \in 1 .. Len(waiting) : waiting[i] = waiting[k] => i = k

(* A request's job is the one its handler awaits, or has left behind.      *)
OneJob ==
  /\ \A j \in jobs : handler[j.request].stage \in {"job", "answered"}
  /\ \A i, j \in jobs : i.request = j.request => i = j

(* A permit is free, with a handler that reads a body, or with a job.      *)
PermitsAreConserved == permits + Cardinality(jobs) + Cardinality(Reading) = Permits

IInv == Shapes /\ Waiters /\ OneJob /\ PermitsAreConserved

(* What a change of stage does to the stages, and to those who read.       *)
LEMMA StageMoves ==
  ASSUME HandlersHaveStages, NEW r \in Request, NEW s \in Stages, Goes(r, s)
  PROVE  /\ HandlersHaveStages'
         /\ handler'[r].stage = s
         /\ \A q \in Request : q # r => handler'[q].stage = handler[q].stage
         /\ Reading' = IF s = "reading" THEN Reading \cup {r} ELSE Reading \ {r}
<1>1. handler' = [q \in Request |-> IF q = r THEN [handler[r] EXCEPT !.stage = s] ELSE handler[q]]
  BY DEF Goes, HandlersHaveStages
<1>2. handler'[r] = [handler[r] EXCEPT !.stage = s]
  BY <1>1
<1>3. \A q \in Request : q # r => handler'[q] = handler[q]
  BY <1>1
<1>4. "stage" \in DOMAIN handler'[r] /\ handler'[r].stage = s
  BY <1>2 DEF HandlersHaveStages
<1>5. HandlersHaveStages'
  BY <1>1, <1>3, <1>4 DEF HandlersHaveStages
<1>6. \A q \in Request : q # r => handler'[q].stage = handler[q].stage
  BY <1>3
<1>7. Reading' = IF s = "reading" THEN Reading \cup {r} ELSE Reading \ {r}
  BY <1>4, <1>6 DEF Reading
<1> QED BY <1>4, <1>5, <1>6, <1>7

(* One reader more or less.                                                *)
LEMMA ReadersCount ==
  ASSUME NEW r
  PROVE  /\ IsFiniteSet(Reading) /\ Cardinality(Reading) \in Nat
         /\ r \notin Reading => Cardinality(Reading \cup {r}) = Cardinality(Reading) + 1
         /\ r \notin Reading => Reading \ {r} = Reading
         /\ r \in Reading => Cardinality(Reading \ {r}) = Cardinality(Reading) - 1
<1>1. IsFiniteSet(Reading)
  BY ImageRequestsAssumption, FS_Subset DEF Reading
<1> QED BY <1>1, FS_CardinalityType, FS_AddElement, FS_RemoveElement

(* One job more or less.                                                   *)
LEMMA JobsCount ==
  ASSUME IsFiniteSet(jobs), NEW j
  PROVE  /\ Cardinality(jobs) \in Nat
         /\ j \notin jobs => /\ IsFiniteSet(jobs \cup {j})
                            /\ Cardinality(jobs \cup {j}) = Cardinality(jobs) + 1
         /\ j \in jobs => /\ IsFiniteSet(jobs \ {j})
                         /\ Cardinality(jobs \ {j}) = Cardinality(jobs) - 1
BY FS_CardinalityType, FS_AddElement, FS_RemoveElement

(* What the balance of permits needs to know of the counts.                *)
LEMMA Counts ==
  ASSUME Shapes
  PROVE  /\ IsFiniteSet(jobs) /\ Cardinality(jobs) \in Nat /\ Cardinality(Reading) \in Nat
         /\ permits \in Nat /\ Permits \in Nat
BY ImageRequestsAssumption, ReadersCount, JobsCount DEF Shapes

(* Every permit is free at the start.                                      *)
LEMMA InitIInv == Init => IInv
<1> SUFFICES ASSUME Init PROVE IInv
  OBVIOUS
<1>1. HandlersHaveStages
  BY DEF Init, HandlersHaveStages, Stages
<1>2. Reading = {}
  BY DEF Init, Reading
<1>3. Shapes /\ Waiters /\ OneJob
  BY <1>1, ImageRequestsAssumption, FS_EmptySet DEF Init, Shapes, Waiters, OneJob
<1>4. PermitsAreConserved
  BY <1>2, ImageRequestsAssumption, FS_EmptySet DEF Init, PermitsAreConserved
<1> QED BY <1>3, <1>4 DEF IInv

(* A handler asks for a permit, or answers before it does.                 *)
LEMMA NextImageIInv ==
  ASSUME IInv, NEW r \in Request, NextImage(r) PROVE IInv'
<1> USE DEF IInv, Shapes
<1>1. handler[r].stage = "next" /\ permits' = permits /\ jobs' = jobs /\ r \notin Reading
  BY DEF NextImage, Reading
<1>2. /\ HandlersHaveStages' /\ Reading' = Reading
      /\ \A q \in Request : q # r => handler'[q].stage = handler[q].stage
  BY <1>1, StageMoves, ReadersCount DEF NextImage, Stages
<1>3. PermitsAreConserved'
  BY <1>1, <1>2 DEF PermitsAreConserved
<1>4. OneJob'
  BY <1>1, <1>2 DEF OneJob
<1>5. CASE waiting' = waiting
  BY <1>1, <1>2, <1>3, <1>4, <1>5 DEF Waiters
<1>6. CASE Goes(r, "waiting") /\ waiting' = Append(waiting, r)
  <2>1. handler'[r].stage = "waiting"
    BY <1>6, StageMoves DEF Stages
  <2>2. /\ waiting' \in Seq(Request) /\ Len(waiting') = Len(waiting) + 1
        /\ waiting'[Len(waiting) + 1] = r
        /\ \A i \in 1 .. Len(waiting) : waiting'[i] = waiting[i] /\ waiting[i] \in Request
    BY <1>6
  <2>3. \A i \in 1 .. Len(waiting) : waiting[i] # r
    BY <1>1 DEF Waiters
  <2>4. Waiters'
    BY <1>2, <2>1, <2>2, <2>3 DEF Waiters
  <2> QED BY <1>1, <1>2, <1>3, <1>4, <2>2, <2>4
<1> QED BY <1>5, <1>6 DEF NextImage

(* A permit goes to the handler at the head of the queue, or to its job.   *)
LEMMA GrantedIInv ==
  ASSUME IInv, Granted PROVE IInv'
<1> USE DEF IInv, Shapes
<1> DEFINE r == Head(waiting)
<1>1. /\ r \in Request /\ r = waiting[1]
      /\ waiting' \in Seq(Request) /\ Len(waiting') = Len(waiting) - 1
      /\ \A i \in 1 .. Len(waiting') : waiting'[i] = waiting[i + 1] /\ waiting'[i] \in Request
  BY DEF Granted
<1>2. /\ handler[r].stage = "waiting" /\ r \notin Reading
      /\ \A i \in 1 .. Len(waiting') : waiting'[i] # r
  <2>1. 1 \in 1 .. Len(waiting)
    BY <1>1 DEF Granted
  <2>2. handler[r].stage = "waiting"
    BY <1>1, <2>1 DEF Waiters
  <2>3. \A i \in 1 .. Len(waiting') : waiting'[i] # r
    BY <1>1, <2>1 DEF Waiters
  <2> QED BY <2>2, <2>3 DEF Reading
<1>3. permits' = permits - 1 /\ permits' \in Nat
  BY DEF Granted
<1>4. \A j \in jobs : j.request # r
  BY <1>2 DEF OneJob
<1>5. CASE Goes(r, "reading") /\ jobs' = jobs
  <2>1. /\ HandlersHaveStages' /\ Reading' = Reading \cup {r}
        /\ \A q \in Request : q # r => handler'[q].stage = handler[q].stage
    BY <1>1, <1>5, StageMoves DEF Stages
  <2>2. Waiters'
    BY <1>1, <1>2, <2>1, SMTT(40) DEF Waiters
  <2>3. OneJob'
    BY <1>4, <1>5, <2>1 DEF OneJob
  <2>4. PermitsAreConserved'
    <3>1. Cardinality(Reading') = Cardinality(Reading) + 1
      BY <1>2, <2>1, ReadersCount
    <3> QED BY <1>3, <1>5, <3>1, Counts DEF PermitsAreConserved
  <2> QED BY <1>1, <1>3, <1>5, <2>1, <2>2, <2>3, <2>4
<1>6. CASE Goes(r, "job") /\ jobs' = jobs \cup {Job(r)}
  <2>1. /\ HandlersHaveStages' /\ Reading' = Reading /\ handler'[r].stage = "job"
        /\ \A q \in Request : q # r => handler'[q].stage = handler[q].stage
    BY <1>1, <1>2, <1>6, StageMoves, ReadersCount DEF Stages
  <2>2. Waiters'
    BY <1>1, <1>2, <2>1, SMTT(40) DEF Waiters
  <2>3. Job(r).request = r /\ Job(r) \notin jobs
    BY <1>4 DEF Job
  <2>4. OneJob'
    BY <1>4, <1>6, <2>1, <2>3 DEF OneJob
  <2>5. PermitsAreConserved'
    <3>1. Cardinality(jobs') = Cardinality(jobs) + 1
      BY <1>6, <2>3, JobsCount
    <3> QED BY <1>3, <2>1, <3>1, Counts DEF PermitsAreConserved
  <2>6. IsFiniteSet(jobs') /\ \A j \in jobs' : j.request \in Request
    BY <1>1, <1>6, <2>3, JobsCount
  <2> QED BY <1>1, <1>3, <2>1, <2>2, <2>4, <2>5, <2>6
<1> QED BY <1>5, <1>6 DEF Granted

(* A body becomes a job, which keeps the permit, or an error, which frees  *)
(* it.                                                                     *)
LEMMA ReadBodyIInv ==
  ASSUME IInv, NEW r \in Request, ReadBody(r) PROVE IInv'
<1> USE DEF IInv, Shapes
<1>1. handler[r].stage = "reading" /\ r \in Reading /\ waiting' = waiting
  BY DEF ReadBody, Reading
<1>2. \A i \in 1 .. Len(waiting) : waiting[i] \in Request /\ waiting[i] # r
  BY <1>1 DEF Waiters
<1>3. \A j \in jobs : j.request # r
  BY <1>1 DEF OneJob
<1>4. CASE Goes(r, "job") /\ jobs' = jobs \cup {Job(r)} /\ permits' = permits
  <2>1. /\ HandlersHaveStages' /\ Reading' = Reading \ {r} /\ handler'[r].stage = "job"
        /\ \A q \in Request : q # r => handler'[q].stage = handler[q].stage
    BY <1>4, StageMoves DEF Stages
  <2>2. Job(r).request = r /\ Job(r) \notin jobs
    BY <1>3 DEF Job
  <2>3. Waiters'
    BY <1>1, <1>2, <2>1 DEF Waiters
  <2>4. OneJob'
    BY <1>3, <1>4, <2>1, <2>2 DEF OneJob
  <2>5. PermitsAreConserved'
    <3>1. Cardinality(Reading') = Cardinality(Reading) - 1
      BY <1>1, <2>1, ReadersCount
    <3>2. Cardinality(jobs') = Cardinality(jobs) + 1
      BY <1>4, <2>2, JobsCount
    <3> QED BY <1>4, <3>1, <3>2, Counts DEF PermitsAreConserved
  <2>6. IsFiniteSet(jobs') /\ \A j \in jobs' : j.request \in Request
    BY <1>4, <2>2, JobsCount
  <2> QED BY <1>1, <1>4, <2>1, <2>3, <2>4, <2>5, <2>6
<1>5. CASE Goes(r, "answered") /\ permits' = permits + 1 /\ jobs' = jobs
  <2>1. /\ HandlersHaveStages' /\ Reading' = Reading \ {r}
        /\ \A q \in Request : q # r => handler'[q].stage = handler[q].stage
    BY <1>5, StageMoves DEF Stages
  <2>2. Waiters' /\ OneJob'
    BY <1>1, <1>2, <1>3, <1>5, <2>1 DEF Waiters, OneJob
  <2>3. PermitsAreConserved'
    <3>1. Cardinality(Reading') = Cardinality(Reading) - 1
      BY <1>1, <2>1, ReadersCount
    <3> QED BY <1>5, <3>1, Counts DEF PermitsAreConserved
  <2> QED BY <1>1, <1>5, <2>1, <2>2, <2>3
<1> QED BY <1>4, <1>5 DEF ReadBody

(* A waiter that is dropped leaves the queue as it was without it.         *)
LEMMA DroppedWaiter ==
  ASSUME Shapes, Waiters, NEW r \in Request
  PROVE  /\ WaitingWithout(r) \in Seq(Request)
         /\ \A i \in 1 .. Len(WaitingWithout(r)) :
               \E k \in 1 .. Len(waiting) : WaitingWithout(r)[i] = waiting[k] /\ waiting[k] # r
         /\ \A i, k \in 1 .. Len(WaitingWithout(r)) :
               WaitingWithout(r)[i] = WaitingWithout(r)[k] => i = k
<1> USE DEF Shapes, Waiters
<1>1. CASE \E i \in DOMAIN waiting : waiting[i] = r
  <2> DEFINE at    == CHOOSE i \in DOMAIN waiting : waiting[i] = r
             left  == WaitingWithout(r)
             front == SubSeq(waiting, 1, at - 1)
             back  == SubSeq(waiting, at + 1, Len(waiting))
  <2>1. at \in 1 .. Len(waiting) /\ waiting[at] = r
    BY <1>1
  <2>2. left = front \o back
    BY <1>1, Zenon DEF WaitingWithout, RemoveAt
  <2> HIDE DEF at, left, front, back
  <2>3. /\ left \in Seq(Request) /\ Len(left) = Len(waiting) - 1
        /\ \A i \in 1 .. Len(left) : left[i] = IF i < at THEN waiting[i] ELSE waiting[i + 1]
    <3>1. /\ front \in Seq(Request) /\ Len(front) = at - 1
          /\ \A i \in 1 .. at - 1 : front[i] = waiting[i]
      BY <2>1 DEF front
    <3>2. /\ back \in Seq(Request) /\ Len(back) = Len(waiting) - at
          /\ \A i \in 1 .. Len(waiting) - at : back[i] = waiting[at + i]
      BY <2>1 DEF back
    <3>3. left \in Seq(Request) /\ Len(left) = Len(waiting) - 1
      <4>1. front \o back \in Seq(Request) /\ Len(front \o back) = Len(front) + Len(back)
        BY <3>1, <3>2, SMTT(40)
      <4>2. Len(waiting) \in Nat /\ (at - 1) + (Len(waiting) - at) = Len(waiting) - 1
        BY <2>1
      <4> QED BY <2>2, <3>1, <3>2, <4>1, <4>2
    <3>4. \A i \in 1 .. Len(left) : left[i] = IF i <= at - 1 THEN front[i] ELSE back[i - (at - 1)]
      BY <2>1, <2>2, <3>1, <3>2
    <3>5. ASSUME NEW i \in 1 .. Len(left)
          PROVE  left[i] = IF i < at THEN waiting[i] ELSE waiting[i + 1]
      <4>1. CASE i < at
        BY <2>1, <3>1, <3>4, <4>1
      <4>2. CASE ~(i < at)
        <5>1. i - (at - 1) \in 1 .. Len(waiting) - at /\ at + (i - (at - 1)) = i + 1
          BY <2>1, <3>3, <4>2
        <5> QED BY <2>1, <3>2, <3>4, <4>2, <5>1
      <4> QED BY <4>1, <4>2
    <3> QED BY <3>3, <3>5
  <2>4. \A i \in 1 .. Len(waiting) : i # at => waiting[i] # r
    BY <2>1
  <2>5. \A i \in 1 .. Len(left) : \E k \in 1 .. Len(waiting) : left[i] = waiting[k] /\ waiting[k] # r
    <3> TAKE i \in 1 .. Len(left)
    <3>1. CASE i < at
      <4>1. i \in 1 .. Len(waiting) /\ i # at /\ left[i] = waiting[i]
        BY <2>1, <2>3, <3>1
      <4> QED BY <2>4, <4>1
    <3>2. CASE ~(i < at)
      <4>1. i + 1 \in 1 .. Len(waiting) /\ i + 1 # at /\ left[i] = waiting[i + 1]
        BY <2>1, <2>3, <3>2
      <4> QED BY <2>4, <4>1
    <3> QED BY <3>1, <3>2
  <2>6. ASSUME NEW i \in 1 .. Len(left), NEW k \in 1 .. Len(left), left[i] = left[k]
        PROVE  i = k
    <3> DEFINE Was(n) == IF n < at THEN n ELSE n + 1
    <3>1. /\ Was(i) \in 1 .. Len(waiting) /\ left[i] = waiting[Was(i)]
          /\ Was(k) \in 1 .. Len(waiting) /\ left[k] = waiting[Was(k)]
      BY <2>1, <2>3
    <3>2. Was(i) = Was(k)
      BY <2>6, <3>1
    <3> QED BY <2>1, <3>2
  <2> QED BY <2>3, <2>5, <2>6 DEF left
<1>2. CASE ~\E i \in DOMAIN waiting : waiting[i] = r
  <2>1. WaitingWithout(r) = waiting
    BY <1>2 DEF WaitingWithout
  <2>2. \A i \in 1 .. Len(waiting) : waiting[i] # r
    BY <1>2
  <2> QED BY <2>1, <2>2
<1> QED BY <1>1, <1>2

(* A handler that gives up frees its permit if it holds one itself.        *)
LEMMA AbandonIInv ==
  ASSUME IInv, NEW r \in Request, Abandon(r) PROVE IInv'
<1> USE DEF IInv, Shapes
<1>1. /\ handler[r].stage \in {"waiting", "reading", "job"} /\ Goes(r, "answered")
      /\ permits' = PermitsWithout(r) /\ waiting' = WaitingWithout(r) /\ jobs' = jobs
  BY DEF Abandon
<1>2. /\ HandlersHaveStages' /\ Reading' = Reading \ {r} /\ handler'[r].stage = "answered"
      /\ \A q \in Request : q # r => handler'[q].stage = handler[q].stage
  BY <1>1, StageMoves DEF Stages
<1>3. waiting' \in Seq(Request) /\ Waiters'
  <2>1. /\ waiting' \in Seq(Request)
        /\ \A i \in 1 .. Len(waiting') :
              \E k \in 1 .. Len(waiting) : waiting'[i] = waiting[k] /\ waiting[k] # r
        /\ \A i, k \in 1 .. Len(waiting') : waiting'[i] = waiting'[k] => i = k
    BY <1>1, DroppedWaiter, ZenonT(60)
  <2>2. \A i \in 1 .. Len(waiting') : handler'[waiting'[i]].stage = "waiting"
    <3> TAKE i \in 1 .. Len(waiting')
    <3>1. PICK k \in 1 .. Len(waiting) : waiting'[i] = waiting[k] /\ waiting[k] # r
      BY <2>1
    <3>2. waiting[k] \in Request /\ handler[waiting[k]].stage = "waiting"
      BY DEF Waiters
    <3> QED BY <1>2, <3>1, <3>2
  <2> QED BY <2>1, <2>2 DEF Waiters
<1>4. OneJob'
  BY <1>1, <1>2 DEF OneJob
<1>5. permits' \in Nat /\ PermitsAreConserved'
  <2>1. CASE handler[r].stage = "reading"
    <3>1. Cardinality(Reading') = Cardinality(Reading) - 1
      BY <1>2, <2>1, ReadersCount DEF Reading
    <3>2. permits' = permits + 1
      BY <1>1, <2>1 DEF PermitsWithout
    <3> QED BY <1>1, <3>1, <3>2, Counts DEF PermitsAreConserved
  <2>2. CASE handler[r].stage # "reading"
    <3>1. Reading' = Reading /\ permits' = permits
      BY <1>1, <1>2, <2>2, ReadersCount DEF Reading, PermitsWithout
    <3> QED BY <1>1, <3>1, Counts DEF PermitsAreConserved
  <2> QED BY <2>1, <2>2
<1> QED BY <1>1, <1>2, <1>3, <1>4, <1>5

(* A job that ends frees its permit, whether its handler is there or not.  *)
LEMMA JobEndsIInv ==
  ASSUME IInv, NEW j \in jobs, JobEnds(j) PROVE IInv'
<1> USE DEF IInv, Shapes
<1> DEFINE r == j.request
<1>1. /\ r \in Request /\ waiting' = waiting
      /\ jobs' = jobs \ {j} /\ permits' = permits + 1
  BY DEF JobEnds, PermitsAfter
<1>2. /\ \A i \in jobs' : i.request # r
      /\ \A i \in 1 .. Len(waiting) : waiting[i] \in Request /\ waiting[i] # r
      /\ r \notin Reading
  <2>1. handler[r].stage \in {"job", "answered"}
    BY DEF OneJob
  <2> QED BY <1>1, <2>1 DEF OneJob, Waiters, Reading
<1>3. /\ HandlersHaveStages' /\ Reading' = Reading
      /\ \A q \in Request : q # r => handler'[q].stage = handler[q].stage
  <2>1. CASE UNCHANGED handler
    BY <2>1 DEF HandlersHaveStages, Reading
  <2>2. CASE Goes(r, "answered")
    <3>1. /\ HandlersHaveStages' /\ Reading' = Reading \ {r}
          /\ \A q \in Request : q # r => handler'[q].stage = handler[q].stage
      <4>1. r \in Request /\ "answered" \in Stages
        BY <1>1 DEF Stages
      <4> HIDE DEF r
      <4> QED BY <2>2, <4>1, StageMoves
    <3>2. Reading \ {r} = Reading
      BY <1>2
    <3> QED BY <3>1, <3>2
  <2>3. ASSUME NEW grid,
               handler' = [handler EXCEPT ![r] = [stage |-> "next", grids |-> Append(@.grids, grid)]]
        PROVE  /\ HandlersHaveStages' /\ Reading' = Reading
               /\ \A q \in Request : q # r => handler'[q].stage = handler[q].stage
    <3>1. handler'[r] = [stage |-> "next", grids |-> Append(handler[r].grids, grid)]
      BY <1>1, <2>3 DEF HandlersHaveStages
    <3>2. \A q \in Request : q # r => handler'[q] = handler[q]
      BY <2>3 DEF HandlersHaveStages
    <3>3. DOMAIN handler' = Request
      BY <2>3 DEF HandlersHaveStages
    <3>4. "stage" \in DOMAIN handler'[r] /\ handler'[r].stage = "next"
      BY <3>1
    <3>5. HandlersHaveStages'
      BY <3>2, <3>3, <3>4 DEF HandlersHaveStages, Stages
    <3>6. \A q \in Request : q # r => handler'[q].stage = handler[q].stage
      BY <3>2
    <3>7. Reading' = Reading
      BY <1>2, <3>4, <3>6 DEF Reading
    <3> QED BY <3>5, <3>6, <3>7
  <2>4. \/ UNCHANGED handler \/ Goes(r, "answered")
        \/ \E grid : handler' = [handler EXCEPT ![r] = [stage |-> "next", grids |-> Append(@.grids, grid)]]
    BY Zenon DEF JobEnds
  <2> QED BY <2>1, <2>2, <2>3, <2>4
<1>4. Waiters'
  BY <1>1, <1>2, <1>3 DEF Waiters
<1>5. OneJob'
  BY <1>1, <1>2, <1>3 DEF OneJob
<1>6. IsFiniteSet(jobs') /\ Cardinality(jobs') = Cardinality(jobs) - 1
  BY <1>1, JobsCount
<1>7. permits' \in Nat /\ PermitsAreConserved'
  BY <1>1, <1>3, <1>6, Counts DEF PermitsAreConserved
<1> QED BY <1>1, <1>3, <1>4, <1>5, <1>6, <1>7

(* Submitting touches no permit.                                           *)
LEMMA SubmitIInv ==
  ASSUME IInv, NEW r \in Request, Submit(r) PROVE IInv'
<1> USE DEF IInv, Shapes
<1>1. /\ handler[r].stage = "next" /\ r \notin Reading
      /\ waiting' = waiting /\ jobs' = jobs /\ permits' = permits
      /\ Goes(r, "answered") \/ Goes(r, "submitted")
  BY DEF Submit, Reading
<1>2. /\ HandlersHaveStages' /\ Reading' = Reading
      /\ \A q \in Request : q # r => handler'[q].stage = handler[q].stage
  BY <1>1, StageMoves, ReadersCount DEF Stages
<1>3. Waiters' /\ OneJob'
  BY <1>1, <1>2 DEF Waiters, OneJob
<1>4. PermitsAreConserved'
  BY <1>1, <1>2 DEF PermitsAreConserved
<1> QED BY <1>1, <1>2, <1>3, <1>4

(* No step of a handler, a job or the engine breaks it.                    *)
LEMMA NextIInv == IInv /\ [Next]_vars => IInv'
<1> SUFFICES ASSUME IInv, [Next]_vars PROVE IInv'
  OBVIOUS
<1>1. ASSUME NEW r \in Request, Handles(r) \/ ReadBody(r) \/ Abandon(r) PROVE IInv'
  BY <1>1, NextImageIInv, SubmitIInv, ReadBodyIInv, AbandonIInv DEF Handles
<1>2. CASE UNCHANGED <<handler, permits, waiting, jobs>>
  BY <1>2 DEF IInv, Shapes, HandlersHaveStages, Waiters, OneJob, PermitsAreConserved, Reading
<1>3. CASE EngineAdmits \/ EngineSteps
  BY <1>2, <1>3 DEF EngineAdmits, EngineSteps
<1>4. CASE UNCHANGED vars
  BY <1>2, <1>4 DEF vars
<1> QED BY <1>1, <1>3, <1>4, GrantedIInv, JobEndsIInv DEF Next

(* No permit is ever lost or given back twice: each is free, with a        *)
(* handler that reads a body, or with a running job, whoever has given up. *)
THEOREM Conserved == Spec => []PermitsAreConserved
<1>1. IInv => PermitsAreConserved
  BY DEF IInv
<1> QED BY <1>1, InitIInv, NextIInv, PTL DEF Spec

(* So a time-out that leaves its job running never lets one image more     *)
(* into memory than the semaphore has permits.                             *)
THEOREM CapHolds == Spec => []ImagesInMemoryAreCapped
<1>1. IInv => ImagesInMemoryAreCapped
  BY Counts DEF IInv, PermitsAreConserved, ImagesInMemoryAreCapped
<1> QED BY <1>1, InitIInv, NextIInv, PTL DEF Spec

(***************************************************************************)
(* Least elements and induction                                            *)
(***************************************************************************)

(* A non-empty set of naturals has a least element, which Min returns.     *)
LEMMA LeastOf ==
  ASSUME NEW S \in SUBSET Nat, S # {}
  PROVE  Min(S) \in S /\ \A n \in S : Min(S) <= n
<1>1. PICK m \in S : \A n \in S : ~(<<n, m>> \in OpToRel(<, Nat))
  <2>1. IsWellFoundedOn(OpToRel(<, Nat), Nat)
    BY NatLessThanWellFounded
  <2> QED BY <2>1, WFMin, Zenon
<1>2. ASSUME NEW n \in S PROVE m <= n
  <2>1. SUFFICES ASSUME n < m PROVE FALSE
    OBVIOUS
  <2>2. <<n, m>> \in OpToRel(<, Nat)
    BY <2>1 DEF OpToRel
  <2> QED BY <1>1, <2>2
<1> QED BY <1>2 DEF Min

(* A bounded one has a greatest, which Max returns.                        *)
LEMMA GreatestOf ==
  ASSUME NEW b \in Nat, NEW S \in SUBSET (0 .. b), S # {}
  PROVE  Max(S) \in S /\ \A n \in S : n <= Max(S)
<1> DEFINE D == {b - n : n \in S}
<1>1. D \in SUBSET Nat /\ D # {}
  <2>1. \A n \in S : b - n \in Nat
    OBVIOUS
  <2>2. D # {}
    OBVIOUS
  <2> QED BY <2>1, <2>2
<1>2. PICK d \in D : \A n \in D : d <= n
  BY <1>1, LeastOf
<1>3. PICK m \in S : d = b - m
  BY <1>2
<1>4. \A n \in S : b - n \in D
  OBVIOUS
<1> HIDE DEF D
<1>5. \A n \in S : n <= m
  BY <1>2, <1>3, <1>4
<1> QED BY <1>5 DEF Max

(* Induction over 0 .. n by sets: one that holds 0 and each successor.     *)
LEMMA UpTo ==
  ASSUME NEW n \in Nat, NEW S, 0 \in S,
         \A i \in 0 .. n - 1 : i \in S => i + 1 \in S
  PROVE  0 .. n \subseteq S
<1> DEFINE bad == (0 .. n) \ S
<1> SUFFICES ASSUME bad # {} PROVE FALSE
  OBVIOUS
<1>1. bad \in SUBSET Nat
  OBVIOUS
<1>2. PICK m \in bad : \A k \in bad : m <= k
  BY <1>1, LeastOf
<1>3. m \in 0 .. n /\ m \notin S /\ m # 0
  BY <1>2
<1>4. m - 1 \in 0 .. n - 1 /\ (m - 1) + 1 = m /\ m - 1 \in 0 .. n
  BY <1>3
<1>5. m - 1 \notin bad
  BY <1>2, <1>3, <1>4
<1> QED BY <1>3, <1>4, <1>5


(***************************************************************************)
(* Sums                                                                    *)
(***************************************************************************)

(* The sums of the first 0, 1, ... n numbers of a sequence.                *)
Summing(s, n, a) == a = [i \in 0 .. n |-> IF i = 0 THEN 0 ELSE a[i - 1] + s[i]]

(* Such a function of sums exists, whatever the numbers.                    *)
LEMMA SummingExists ==
  ASSUME NEW s, NEW n \in Nat
  PROVE  \E a : Summing(s, n, a)
<1> DEFINE good == {i \in 0 .. n : \E a : Summing(s, i, a)}
<1>1. 0 \in good
  <2> DEFINE a == [i \in 0 .. 0 |-> 0]
  <2>1. a = [i \in 0 .. 0 |-> IF i = 0 THEN 0 ELSE a[i - 1] + s[i]]
    OBVIOUS
  <2> HIDE DEF a
  <2>2. Summing(s, 0, a)
    BY <2>1 DEF Summing
  <2> QED BY <2>2
<1>2. ASSUME NEW m \in 0 .. n - 1, m \in good PROVE m + 1 \in good
  <2>1. PICK a : Summing(s, m, a)
    BY <1>2
  <2>2. a = [i \in 0 .. m |-> IF i = 0 THEN 0 ELSE a[i - 1] + s[i]]
    BY <2>1 DEF Summing
  <2> DEFINE b == [i \in 0 .. m + 1 |-> IF i = m + 1 THEN a[m] + s[m + 1] ELSE a[i]]
  <2>3. b = [i \in 0 .. m + 1 |-> IF i = 0 THEN 0 ELSE b[i - 1] + s[i]]
    <3> SUFFICES ASSUME NEW i \in 0 .. m + 1
                 PROVE  b[i] = IF i = 0 THEN 0 ELSE b[i - 1] + s[i]
      OBVIOUS
    <3>1. CASE i = m + 1
      <4>1. i # 0 /\ i - 1 = m /\ m \in 0 .. m + 1 /\ m # m + 1
        BY <3>1
      <4> QED BY <3>1, <4>1
    <3>2. CASE i # m + 1
      <4>1. i \in 0 .. m /\ (i # 0 => i - 1 \in 0 .. m + 1 /\ i - 1 # m + 1)
        BY <3>2
      <4>2. a[i] = IF i = 0 THEN 0 ELSE a[i - 1] + s[i]
        BY <2>2, <4>1
      <4>3. b[i] = a[i] /\ (i # 0 => b[i - 1] = a[i - 1])
        BY <3>2, <4>1
      <4> HIDE DEF b
      <4> QED BY <4>2, <4>3
    <3> QED BY <3>1, <3>2
  <2> HIDE DEF b
  <2>4. Summing(s, m + 1, b)
    BY <2>3 DEF Summing
  <2> QED BY <2>4
<1> HIDE DEF good
<1>3. n \in good
  BY <1>1, <1>2, UpTo
<1> QED BY <1>3 DEF good

(* There is one such function, and Total is its last value.                *)
LEMMA TotalOf ==
  ASSUME NEW s, NEW a, Len(s) \in Nat, Summing(s, Len(s), a)
  PROVE  Total(s) = a[Len(s)]
<1> DEFINE n == Len(s)
           b == CHOOSE b : Summing(s, n, b)
           same == {i \in 0 .. n : a[i] = b[i]}
<1>1. Summing(s, n, b)
  BY SummingExists
<1>2. Total(s) = b[n]
  BY DEF Total, Summing
<1> HIDE DEF b
<1>3. /\ \A i \in 0 .. n : a[i] = IF i = 0 THEN 0 ELSE a[i - 1] + s[i]
      /\ \A i \in 0 .. n : b[i] = IF i = 0 THEN 0 ELSE b[i - 1] + s[i]
  BY <1>1, Zenon DEF Summing
<1> HIDE DEF n
<1>4. 0 \in same /\ \A i \in 0 .. n - 1 : i \in same => i + 1 \in same
  <2>1. n \in Nat
    BY DEF n
  <2>2. 0 \in same
    BY <1>3, <2>1
  <2>3. ASSUME NEW i \in 0 .. n - 1, i \in same PROVE i + 1 \in same
    <3>1. i + 1 \in 0 .. n /\ i + 1 # 0 /\ (i + 1) - 1 = i
      BY <2>1
    <3> QED BY <1>3, <2>3, <3>1
  <2> QED BY <2>2, <2>3
<1> HIDE DEF same
<1>5. n \in same
  <2>1. n \in Nat /\ n \in 0 .. n
    BY DEF n
  <2>2. 0 .. n \subseteq same
    BY <1>4, <2>1, UpTo
  <2> QED BY <2>1, <2>2
<1> QED BY <1>2, <1>5 DEF same, n

(* One more number adds to the sum.                                         *)
LEMMA TotalAppend ==
  ASSUME NEW s \in Seq(Int), NEW v \in Int
  PROVE  Total(s) \in Int /\ Total(Append(s, v)) = Total(s) + v
<1> DEFINE n == Len(s)
           t == Append(s, v)
<1>1. n \in Nat /\ Len(t) = n + 1 /\ t[n + 1] = v /\ \A i \in 1 .. n : t[i] = s[i] /\ s[i] \in Int
  OBVIOUS
<1> HIDE DEF t, n
<1>2. PICK b : Summing(t, n + 1, b)
  <2>1. n + 1 \in Nat
    BY <1>1
  <2> QED BY <2>1, SummingExists
<1>3. \A i \in 0 .. n + 1 : b[i] = IF i = 0 THEN 0 ELSE b[i - 1] + t[i]
  BY <1>2, Zenon DEF Summing
<1> DEFINE a == [i \in 0 .. n |-> b[i]]
<1>4. Summing(s, n, a)
  <2>1. ASSUME NEW i \in 0 .. n PROVE b[i] = IF i = 0 THEN 0 ELSE a[i - 1] + s[i]
    <3>1. i \in 0 .. n + 1 /\ (i # 0 => i \in 1 .. n /\ i - 1 \in 0 .. n)
      BY <1>1
    <3> QED BY <1>1, <1>3, <3>1
  <2> QED BY <2>1 DEF Summing
<1>5. a[n] = b[n] /\ b[n + 1] = b[n] + v
  <2>1. n \in 0 .. n /\ n + 1 \in 0 .. n + 1 /\ n + 1 # 0 /\ (n + 1) - 1 = n
    BY <1>1
  <2> QED BY <1>1, <1>3, <2>1
<1>6. \A i \in 0 .. n : a[i] \in Int
  <2> DEFINE good == {i \in 0 .. n : b[i] \in Int}
  <2>1. 0 \in good
    BY <1>1, <1>3
  <2>2. ASSUME NEW i \in 0 .. n - 1, i \in good PROVE i + 1 \in good
    <3>1. i + 1 \in 0 .. n + 1 /\ i + 1 # 0 /\ (i + 1) - 1 = i /\ i + 1 \in 1 .. n
      BY <1>1
    <3> QED BY <1>1, <1>3, <2>2, <3>1
  <2> HIDE DEF good
  <2>3. 0 .. n \subseteq good
    BY <1>1, <2>1, <2>2, UpTo
  <2> QED BY <2>3 DEF good
<1> HIDE DEF a
<1>7. Total(s) = a[n] /\ Total(t) = b[n + 1]
  BY <1>1, <1>2, <1>4, TotalOf DEF n
<1>8. a[n] \in Int
  BY <1>1, <1>6
<1> QED BY <1>5, <1>7, <1>8 DEF t

(* The sum of no numbers.                                                   *)
LEMMA TotalOfNone == Total(<<>>) = 0
<1> DEFINE a == [i \in 0 .. 0 |-> 0]
<1>1. a = [i \in 0 .. 0 |-> IF i = 0 THEN 0 ELSE a[i - 1] + <<>>[i]]
  OBVIOUS
<1>2. a[0] = 0
  OBVIOUS
<1> HIDE DEF a
<1>3. Summing(<<>>, 0, a)
  BY <1>1 DEF Summing
<1>4. Len(<<>>) = 0
  OBVIOUS
<1> QED BY <1>2, <1>3, <1>4, TotalOf

(***************************************************************************)
(* The grid of an image                                                    *)
(***************************************************************************)

(* Multiplying by a positive number never makes less of a number.          *)
LEMMA Multiplied ==
  ASSUME NEW a \in Nat, NEW b \in Nat, b >= 1
  PROVE  a * b \in Nat /\ a * b >= a
<1>1. PICK c \in Nat : b = c + 1
  <2>1. b - 1 \in Nat /\ b = (b - 1) + 1
    OBVIOUS
  <2> QED BY <2>1
<1>2. a * b = a * c + a /\ a * c \in Nat
  BY <1>1
<1> QED BY <1>2

(* Factor is a positive number.                                            *)
LEMMA FactorIsPositive == Factor \in Nat /\ Factor >= 1
<1>1. PatchSize \in Nat /\ PatchSize >= 1 /\ MergeSize \in Nat /\ MergeSize >= 1
  BY ImagePromptAssumption
<1>2. PatchSize * MergeSize \in Nat /\ PatchSize * MergeSize >= PatchSize
  BY <1>1, Multiplied
<1> QED BY <1>1, <1>2 DEF Factor

(* What was multiplied is divided again without a remainder.               *)
LEMMA Divided ==
  ASSUME NEW a \in Nat, NEW k \in Nat, k >= 1
  PROVE  (k * a) \div k = a /\ (k * a) % k = 0
<1> DEFINE x == k * a
           q == x \div k
           m == x % k
<1>1. x \in Nat
  OBVIOUS
<1> HIDE DEF x
<1>2. q \in Nat /\ m \in 0 .. k - 1 /\ x = k * q + m
  BY <1>1
<1> HIDE DEF q, m
<1>3. CASE a > q
  <2>1. a - q \in Nat /\ a - q >= 1
    BY <1>2, <1>3
  <2>2. k * (a - q) >= k
    BY <2>1, Multiplied
  <2>3. k * (a - q) = k * a - k * q
    BY <1>2
  <2>4. k * a - k * q = m
    BY <1>2 DEF x
  <2> QED BY <1>2, <2>2, <2>3, <2>4
<1>4. CASE q > a
  <2>1. q - a \in Nat /\ q - a >= 1
    BY <1>2, <1>4
  <2>2. k * (q - a) \in Nat /\ k * (q - a) >= k
    BY <2>1, Multiplied
  <2>3. k * (q - a) = k * q - k * a
    BY <1>2
  <2>4. k * q - k * a = 0 - m
    BY <1>2 DEF x
  <2> QED BY <1>2, <2>2, <2>3, <2>4
<1>5. CASE q = a
  <2>1. k * q = x
    BY <1>5 DEF x
  <2>2. k * q \in Nat
    BY <1>2
  <2>3. m = 0
    BY <1>1, <1>2, <2>1, <2>2
  <2> QED BY <1>5, <2>3 DEF q, m, x
<1> QED BY <1>2, <1>3, <1>4, <1>5

(* Whole merged tokens, in pixels.                                         *)
Multiples == {Factor * n : n \in Nat}

(* A side to the nearest multiple.                                         *)
LEMMA SnapIsMultiple ==
  ASSUME NEW n \in Nat PROVE Snap(n) \in Multiples /\ Snap(n) \in Nat
<1> DEFINE q == n \div Factor
           m == IF 2 * (n % Factor) > Factor \/ (2 * (n % Factor) = Factor /\ q % 2 = 1) THEN q + 1 ELSE q
<1>1. q \in Nat
  BY FactorIsPositive
<1> HIDE DEF q
<1>2. m \in Nat
  BY <1>1
<1>3. Snap(n) = Factor * m
  BY DEF Snap, q
<1> HIDE DEF m
<1>4. Factor * m \in Nat
  BY <1>2, FactorIsPositive
<1> QED BY <1>2, <1>3, <1>4 DEF Multiples

(* Both ways of rescaling a side find a multiple of Factor.                *)
LEMMA ShrunkIsMultiple ==
  ASSUME NEW side \in Nat, NEW other \in Nat, NEW budget \in Nat
  PROVE  Shrunk(side, other, budget) \in Multiples
<1> DEFINE S == {1} \cup {n \in 1 .. budget : n * n * Factor * Factor * other <= side * budget}
<1>1. S \in SUBSET (0 .. budget + 1) /\ S # {} /\ budget + 1 \in Nat
  OBVIOUS
<1>2. Shrunk(side, other, budget) = Factor * Max(S)
  BY DEF Shrunk
<1> HIDE DEF S
<1>3. Max(S) \in S
  BY <1>1, GreatestOf
<1>4. Max(S) \in Nat
  <2>1. Max(S) \in 0 .. budget + 1
    BY <1>1, <1>3
  <2> QED BY <2>1
<1> QED BY <1>2, <1>4 DEF Multiples

(* And when growing one, there is a multiple that is large enough.          *)
LEMMA GrownIsMultiple ==
  ASSUME NEW side \in Nat, NEW other \in Nat, NEW budget \in Nat,
         side >= 1, other >= 1, budget >= 1
  PROVE  Grown(side, other, budget) \in Multiples
<1> DEFINE last == budget * side
           S == {n \in 1 .. last : n * n * Factor * Factor * other >= side * budget}
<1>1. last \in Nat /\ last >= 1 /\ side * budget = last
  <2>1. last \in Nat /\ last >= budget
    BY Multiplied
  <2> QED BY <2>1
<1>2. last * last * Factor * Factor * other >= last
  <2> HIDE DEF last
  <2>1. last * last \in Nat /\ last * last >= last
    BY <1>1, Multiplied
  <2> DEFINE a == last * last
  <2> HIDE DEF a
  <2>2. a * Factor \in Nat /\ a * Factor >= a
    BY <2>1, FactorIsPositive, Multiplied DEF a
  <2> DEFINE b == a * Factor
  <2> HIDE DEF b
  <2>3. b * Factor \in Nat /\ b * Factor >= b
    BY <2>2, FactorIsPositive, Multiplied DEF b
  <2> DEFINE c == b * Factor
  <2> HIDE DEF c
  <2>4. c * other \in Nat /\ c * other >= c
    BY <2>3, Multiplied DEF c
  <2>5. c >= b /\ b >= a /\ a >= last /\ c \in Nat /\ b \in Nat /\ a \in Nat
    BY <2>1, <2>2, <2>3 DEF a, b, c
  <2>6. c * other >= last
    BY <1>1, <2>4, <2>5
  <2> QED BY <2>6 DEF a, b, c
<1>3. S \in SUBSET Nat /\ last \in S
  <2> HIDE DEF last
  <2>1. last \in 1 .. last
    BY <1>1
  <2> QED BY <1>1, <1>2, <2>1
<1>4. Grown(side, other, budget) = Factor * Min(S)
  BY DEF Grown
<1> HIDE DEF S
<1>5. Min(S) \in Nat
  BY <1>3, LeastOf
<1> QED BY <1>4, <1>5 DEF Multiples

(* smart_resize returns two sides, or an error.                            *)
LEMMA ResizedSides ==
  ASSUME NEW h \in Nat, NEW w \in Nat, NEW low \in Nat, NEW high \in Nat,
         SmartResize(h, w, low, high) # Rejected
  PROVE  \E a, b \in Multiples : SmartResize(h, w, low, high) = <<a, b>>
<1>1. Snap(h) \in Nat /\ Snap(w) \in Nat /\ Snap(h) \in Multiples /\ Snap(w) \in Multiples
  BY SnapIsMultiple
<1> DEFINE p == Snap(h) * Snap(w)
<1>2. p \in Nat
  BY <1>1
<1>3. h # 0 /\ w # 0
  BY DEF SmartResize
<1>4. CASE p > high
  <2>1. Shrunk(h, w, high) \in Multiples /\ Shrunk(w, h, high) \in Multiples
    BY ShrunkIsMultiple
  <2> QED BY <1>4, <2>1 DEF SmartResize
<1>5. CASE ~(p > high) /\ p < low
  <2> HIDE DEF p
  <2>1. low >= 1 /\ h >= 1 /\ w >= 1
    BY <1>2, <1>3, <1>5
  <2>2. Grown(h, w, low) \in Multiples /\ Grown(w, h, low) \in Multiples
    BY <2>1, GrownIsMultiple
  <2> QED BY <1>5, <2>2 DEF SmartResize, p
<1>6. CASE ~(p > high) /\ ~(p < low)
  BY <1>1, <1>6 DEF SmartResize
<1> QED BY <1>4, <1>5, <1>6

(* A grid of t = 1 and any number of merged tokens to a side.              *)
Grid(h, w) == <<1, MergeSize * h, MergeSize * w>>
Grids == {Grid(h, w) : h, w \in Nat}

(* Its patches and its merged tokens.                                      *)
LEMMA GridPatches ==
  ASSUME NEW grid \in Grids
  PROVE  /\ Patches(grid) \in Nat /\ Patches(grid) = grid[2] * grid[3]
         /\ ~Unmerged(grid)
<1>1. PICK h \in Nat, w \in Nat : grid = Grid(h, w)
  BY DEF Grids
<1>2. MergeSize \in Nat /\ MergeSize >= 1
  BY ImagePromptAssumption
<1> DEFINE a == MergeSize * h
           b == MergeSize * w
<1>3. a \in Nat /\ b \in Nat /\ a % MergeSize = 0 /\ b % MergeSize = 0
  BY <1>2, Divided
<1>4. grid = <<1, a, b>>
  BY <1>1 DEF Grid
<1> HIDE DEF a, b
<1>5. a * b \in Nat /\ 1 * a * b = a * b
  BY <1>3
<1> QED BY <1>3, <1>4, <1>5 DEF Patches, Unmerged

(* preprocess_image_capped returns a grid that is within its budget.       *)
LEMMA WithinBudget ==
  ASSUME NEW size \in Nat \X Nat, NEW most \in Nat, NEW downscale,
         Preprocess(size, most, downscale) # Rejected
  PROVE  /\ Preprocess(size, most, downscale) \in Grids
         /\ Patches(Preprocess(size, most, downscale)) <= most
<1> DEFINE cap  == most * PatchSize * PatchSize
           high == IF downscale THEN Smaller(MaxPixels, cap) ELSE MaxPixels
           low  == IF downscale THEN Smaller(MinPixels, high) ELSE MinPixels
           to   == SmartResize(size[1], size[2], low, high)
           grid == <<1, to[1] \div PatchSize, to[2] \div PatchSize>>
<1>1. /\ to # Rejected /\ ~(grid[2] * grid[3] > most)
      /\ Preprocess(size, most, downscale) = grid
  BY DEF Preprocess
<1>2. high \in Nat /\ low \in Nat
  <2>1. most * PatchSize \in Nat
    BY ImagePromptAssumption
  <2>2. cap \in Nat
    BY <2>1, ImagePromptAssumption
  <2> HIDE DEF cap
  <2>3. high \in Nat
    BY <2>2, ImagePromptAssumption DEF Smaller
  <2> HIDE DEF high
  <2> QED BY <2>3, ImagePromptAssumption DEF Smaller
<1> HIDE DEF high, low
<1>3. size[1] \in Nat /\ size[2] \in Nat
  OBVIOUS
<1>4. PICK a \in Nat, b \in Nat : to = <<Factor * a, Factor * b>>
  <2>1. \E c, d \in Multiples : to = <<c, d>>
    BY <1>1, <1>2, <1>3, ResizedSides
  <2> QED BY <2>1 DEF Multiples
<1> HIDE DEF to
<1>5. /\ (Factor * a) \div PatchSize = MergeSize * a
      /\ (Factor * b) \div PatchSize = MergeSize * b
      /\ MergeSize * a \in Nat /\ MergeSize * b \in Nat
  <2>1. PatchSize \in Nat /\ PatchSize >= 1 /\ MergeSize \in Nat
    BY ImagePromptAssumption
  <2>2. /\ Factor * a = PatchSize * (MergeSize * a) /\ MergeSize * a \in Nat
        /\ Factor * b = PatchSize * (MergeSize * b) /\ MergeSize * b \in Nat
    BY <2>1 DEF Factor
  <2> QED BY <2>1, <2>2, Divided
<1>6. grid = Grid(a, b)
  BY <1>4, <1>5 DEF Grid
<1>7. grid \in Grids
  BY <1>6 DEF Grids
<1>8. grid[2] * grid[3] \in Nat
  <2>1. grid[2] = MergeSize * a /\ grid[3] = MergeSize * b
    BY <1>6 DEF Grid
  <2> QED BY <1>5, <2>1
<1> HIDE DEF grid
<1>9. Patches(grid) = grid[2] * grid[3]
  BY <1>7, GridPatches
<1> QED BY <1>1, <1>7, <1>8, <1>9

(***************************************************************************)
(* Ordered sets and concatenations                                         *)
(***************************************************************************)

(* An increasing sequence lists the set of its values in order.            *)
LEMMA AscendingIs ==
  ASSUME NEW k \in Nat, NEW st \in [1 .. k -> Int],
         \A m, n \in 1 .. k : m < n => st[m] < st[n]
  PROVE  /\ Cardinality({st[m] : m \in 1 .. k}) = k
         /\ Ascending({st[m] : m \in 1 .. k}) = st
<1> DEFINE S        == {st[m] : m \in 1 .. k}
           Upto(m)  == {st[n] : n \in 1 .. m}
<1>1. ASSUME NEW m \in 0 .. k PROVE Cardinality(Upto(m)) = m
  <2> DEFINE f == [n \in 1 .. m |-> st[n]]
  <2>1. 1 .. m \subseteq 1 .. k
    OBVIOUS
  <2>2. \A n, p \in 1 .. m : f[n] = f[p] => n = p
    <3> TAKE n, p \in 1 .. m
    <3>1. n \in 1 .. k /\ p \in 1 .. k /\ f[n] = st[n] /\ f[p] = st[p]
      BY <2>1
    <3>2. n < p \/ p < n \/ n = p
      OBVIOUS
    <3> QED BY <3>1, <3>2
  <2>3. f \in Bijection(1 .. m, Upto(m))
    <3>1. f \in [1 .. m -> Upto(m)]
      OBVIOUS
    <3>2. \A v \in Upto(m) : \E n \in 1 .. m : f[n] = v
      OBVIOUS
    <3> HIDE DEF f, Upto
    <3> QED BY <2>2, <3>1, <3>2 DEF Bijection, Injection, Surjection, IsInjective
  <2> HIDE DEF f, Upto
  <2>4. ExistsBijection(1 .. m, Upto(m))
    BY <2>3 DEF ExistsBijection
  <2>5. m \in Nat
    OBVIOUS
  <2> QED BY <2>4, <2>5, FS_CountingElements
<1>2. Cardinality(S) = k
  <2>1. k \in 0 .. k /\ S = Upto(k)
    OBVIOUS
  <2> HIDE DEF S, Upto
  <2> QED BY <1>1, <2>1
<1>3. ASSUME NEW m \in 1 .. k PROVE {j \in S : j <= st[m]} = Upto(m)
  <2>1. \A n \in 1 .. k : st[n] \in Int /\ (st[n] <= st[m] <=> n <= m)
    <3> TAKE n \in 1 .. k
    <3>1. n < m \/ m < n \/ n = m
      OBVIOUS
    <3>2. st[n] \in Int /\ st[m] \in Int
      OBVIOUS
    <3> QED BY <3>1, <3>2
  <2>2. ASSUME NEW j \in S, j <= st[m] PROVE j \in Upto(m)
    <3>1. PICK n \in 1 .. k : j = st[n]
      OBVIOUS
    <3>2. n \in 1 .. m
      BY <2>1, <2>2, <3>1
    <3> QED BY <3>1, <3>2
  <2>3. ASSUME NEW j \in Upto(m) PROVE j \in S /\ j <= st[m]
    <3>1. PICK n \in 1 .. m : j = st[n]
      OBVIOUS
    <3>2. n \in 1 .. k
      OBVIOUS
    <3> QED BY <2>1, <3>1, <3>2
  <2> HIDE DEF S, Upto
  <2> QED BY <2>2, <2>3
<1>4. ASSUME NEW m \in 1 .. k
      PROVE  (CHOOSE i \in S : Cardinality({j \in S : j <= i}) = m) = st[m]
  <2>1. st[m] \in S /\ Cardinality({j \in S : j <= st[m]}) = m
    <3>1. m \in 0 .. k
      OBVIOUS
    <3>2. st[m] \in S
      OBVIOUS
    <3> HIDE DEF S, Upto
    <3> QED BY <1>1, <1>3, <3>1, <3>2
  <2>2. ASSUME NEW i \in S, Cardinality({j \in S : j <= i}) = m PROVE i = st[m]
    <3>1. PICK p \in 1 .. k : i = st[p]
      OBVIOUS
    <3> HIDE DEF S, Upto
    <3>2. Cardinality({j \in S : j <= i}) = p
      <4>1. p \in 0 .. k /\ {j \in S : j <= i} = Upto(p)
        BY <1>3, <3>1
      <4> QED BY <1>1, <4>1
    <3> QED BY <2>2, <3>1, <3>2
  <2> HIDE DEF S
  <2> QED BY <2>1, <2>2
<1>5. Ascending(S) = [m \in 1 .. k |-> st[m]]
  <2> HIDE DEF S
  <2> QED BY <1>2, <1>4 DEF Ascending
<1> QED BY <1>2, <1>5

(* The concatenations of the first 1, ... n sequences.                     *)
Flattening(seqs, n, b) ==
  b = [i \in 1 .. n |-> IF i = 1 THEN seqs[i] ELSE b[i - 1] \o seqs[i]]

(* Such a function of concatenations exists.                                *)
LEMMA FlatteningExists ==
  ASSUME NEW seqs, NEW n \in Nat
  PROVE  \E b : Flattening(seqs, n, b)
<1> DEFINE good == {i \in 0 .. n : \E b : Flattening(seqs, i, b)}
<1>1. 0 \in good
  <2> DEFINE a == [i \in 1 .. 0 |-> 0]
  <2>1. a = [i \in 1 .. 0 |-> IF i = 1 THEN seqs[i] ELSE a[i - 1] \o seqs[i]]
    OBVIOUS
  <2> HIDE DEF a
  <2>2. Flattening(seqs, 0, a)
    BY <2>1 DEF Flattening
  <2> QED BY <2>2
<1>2. ASSUME NEW m \in 0 .. n - 1, m \in good PROVE m + 1 \in good
  <2>1. PICK a : Flattening(seqs, m, a)
    BY <1>2
  <2>2. a = [i \in 1 .. m |-> IF i = 1 THEN seqs[i] ELSE a[i - 1] \o seqs[i]]
    BY <2>1 DEF Flattening
  <2> DEFINE b == [i \in 1 .. m + 1 |->
                     IF i <= m THEN a[i] ELSE IF i = 1 THEN seqs[i] ELSE a[i - 1] \o seqs[i]]
  <2>3. b = [i \in 1 .. m + 1 |-> IF i = 1 THEN seqs[i] ELSE b[i - 1] \o seqs[i]]
    <3> SUFFICES ASSUME NEW i \in 1 .. m + 1
                 PROVE  b[i] = IF i = 1 THEN seqs[i] ELSE b[i - 1] \o seqs[i]
      OBVIOUS
    <3>1. i # 1 => i - 1 \in 1 .. m + 1 /\ i - 1 <= m
      OBVIOUS
    <3>2. i # 1 => b[i - 1] = a[i - 1]
      BY <3>1
    <3>3. CASE i <= m
      <4>1. b[i] = a[i] /\ i \in 1 .. m
        BY <3>3
      <4>2. a[i] = IF i = 1 THEN seqs[i] ELSE a[i - 1] \o seqs[i]
        BY <2>2, <4>1
      <4> HIDE DEF b
      <4> QED BY <3>2, <4>1, <4>2
    <3>4. CASE ~(i <= m)
      <4>1. b[i] = IF i = 1 THEN seqs[i] ELSE a[i - 1] \o seqs[i]
        BY <3>4
      <4> HIDE DEF b
      <4> QED BY <3>2, <4>1
    <3> QED BY <3>3, <3>4
  <2> HIDE DEF b
  <2>4. Flattening(seqs, m + 1, b)
    BY <2>3 DEF Flattening
  <2> QED BY <2>4
<1> HIDE DEF good
<1>3. n \in 0 .. n /\ 0 .. n \subseteq good
  BY <1>1, <1>2, UpTo
<1> QED BY <1>3 DEF good

(* FlattenSeq is the last of a row of concatenations.                      *)
LEMMA FlattenedPrefixes ==
  ASSUME NEW V, NEW seqs, Len(seqs) \in Nat \ {0}, \A i \in 1 .. Len(seqs) : seqs[i] \in Seq(V)
  PROVE  \E e : /\ \A i \in 0 .. Len(seqs) : e[i] \in Seq(V)
                /\ e[0] = <<>> /\ e[Len(seqs)] = FlattenSeq(seqs)
                /\ \A i \in 0 .. Len(seqs) - 1 : e[i + 1] = e[i] \o seqs[i + 1]
<1> DEFINE n == Len(seqs)
           b == CHOOSE b : Flattening(seqs, n, b)
           e == [i \in 0 .. n |-> IF i = 0 THEN <<>> ELSE b[i]]
<1>1. Flattening(seqs, n, b)
  BY FlatteningExists
<1>2. FlattenSeq(seqs) = b[n]
  BY DEF FlattenSeq, Flattening
<1> HIDE DEF b
<1>3. \A i \in 1 .. n : b[i] = IF i = 1 THEN seqs[i] ELSE b[i - 1] \o seqs[i]
  BY <1>1, Zenon DEF Flattening
<1> HIDE DEF n
<1>4. n \in Nat /\ n # 0 /\ n = Len(seqs)
  BY DEF n
<1>5. e[0] = <<>> /\ e[n] = b[n]
  BY <1>4
<1>6. ASSUME NEW i \in 0 .. n - 1 PROVE e[i + 1] = b[i + 1] /\ (i # 0 => e[i] = b[i])
  BY <1>4
<1> HIDE DEF e
<1> DEFINE good == {i \in 0 .. n : e[i] \in Seq(V)}
<1>7. 0 \in good
  <2>1. <<>> \in Seq(V) /\ 0 \in 0 .. n
    BY <1>4
  <2> QED BY <1>5, <2>1
<1>8. ASSUME NEW i \in 0 .. n - 1, i \in good PROVE i + 1 \in good /\ e[i + 1] = e[i] \o seqs[i + 1]
  <2>1. i + 1 \in 1 .. n /\ i + 1 \in 0 .. n /\ (i # 0 => i + 1 # 1) /\ (i + 1) - 1 = i
    BY <1>4
  <2>2. seqs[i + 1] \in Seq(V)
    BY <1>4, <2>1
  <2>3. CASE i = 0
    <3>1. e[i + 1] = seqs[i + 1]
      BY <1>3, <1>6, <2>1, <2>3
    <3>2. <<>> \o seqs[i + 1] = seqs[i + 1]
      BY <2>2
    <3> QED BY <1>5, <2>1, <2>2, <2>3, <3>1, <3>2
  <2>4. CASE i # 0
    <3>1. e[i + 1] = e[i] \o seqs[i + 1]
      BY <1>3, <1>6, <2>1, <2>4
    <3>2. e[i] \o seqs[i + 1] \in Seq(V)
      BY <1>8, <2>2
    <3> QED BY <2>1, <3>1, <3>2
  <2> QED BY <2>3, <2>4
<1>9. 0 .. n \subseteq good
  <2> HIDE DEF good
  <2> QED BY <1>4, <1>7, <1>8, UpTo
<1>10. \A i \in 0 .. n - 1 : i \in good
  BY <1>4, <1>9
<1>11. /\ \A i \in 0 .. n : e[i] \in Seq(V)
       /\ \A i \in 0 .. n - 1 : e[i + 1] = e[i] \o seqs[i + 1]
  BY <1>8, <1>9, <1>10
<1> QED BY <1>2, <1>5, <1>11 DEF n

(* In e, the first 0, 1, ... of n sequences are concatenated.               *)
Grows(V, seqs, n, e) ==
  /\ n \in Nat /\ Len(seqs) = n /\ (n = 0 => seqs = <<>>)
  /\ \A i \in 1 .. n : seqs[i] \in Seq(V)
  /\ e[0] = <<>>
  /\ \A i \in 0 .. n - 1 : e[i + 1] = e[i] \o seqs[i + 1]

(* Prefixes that grow by one sequence at a time end in the concatenation.  *)
LEMMA FlattenedBy ==
  ASSUME NEW V, NEW seqs, NEW e, NEW l, Grows(V, seqs, l, e)
  PROVE  FlattenSeq(seqs) = e[l]
<1> USE DEF Grows
<1> DEFINE n == Len(seqs)
           b == CHOOSE b : Flattening(seqs, n, b)
           same == {i \in 0 .. n : i = 0 \/ b[i] = e[i]}
<1>1. CASE n = 0
  BY <1>1 DEF FlattenSeq
<1>2. CASE n # 0
  <2>1. Flattening(seqs, n, b)
    BY FlatteningExists
  <2>2. FlattenSeq(seqs) = b[n]
    BY <1>2 DEF FlattenSeq, Flattening
  <2> HIDE DEF b
  <2>3. \A i \in 1 .. n : b[i] = IF i = 1 THEN seqs[i] ELSE b[i - 1] \o seqs[i]
    BY <2>1, Zenon DEF Flattening
  <2>4. 0 \in same
    OBVIOUS
  <2>5. ASSUME NEW i \in 0 .. n - 1, i \in same PROVE i + 1 \in same
    <3>1. i + 1 \in 1 .. n /\ i + 1 \in 0 .. n /\ (i # 0 => i + 1 # 1) /\ (i + 1) - 1 = i
      OBVIOUS
    <3>2. CASE i = 0
      <4>1. b[1] = seqs[1] /\ 1 \in 0 .. n /\ seqs[1] \in Seq(V)
        BY <2>3, <3>1, <3>2
      <4>2. e[1] = e[0] \o seqs[1]
        <5>1. 0 \in 0 .. Len(seqs) - 1 /\ 0 + 1 = 1
          BY <3>2
        <5> QED BY <5>1, Zenon
      <4>3. <<>> \o seqs[1] = seqs[1]
        BY <4>1
      <4> QED BY <3>2, <4>1, <4>2, <4>3
    <3>3. CASE i # 0
      <4>1. b[i + 1] = b[i] \o seqs[i + 1] /\ b[i] = e[i]
        BY <2>3, <2>5, <3>1, <3>3
      <4>2. e[i + 1] = e[i] \o seqs[i + 1]
        OBVIOUS
      <4> QED BY <3>1, <4>1, <4>2
    <3> QED BY <3>2, <3>3
  <2> HIDE DEF same, n
  <2>6. n \in Nat /\ n \in 0 .. n
    BY DEF n
  <2>7. 0 .. n \subseteq same
    BY <2>4, <2>5, <2>6, UpTo
  <2> QED BY <1>2, <2>2, <2>6, <2>7 DEF same, n
<1> QED BY <1>1, <1>2

(* The concatenation of one sequence more.                                 *)
LEMMA FlattenAppend ==
  ASSUME NEW V, NEW seqs \in Seq(Seq(V)), NEW b \in Seq(V)
  PROVE  /\ FlattenSeq(seqs) \in Seq(V)
         /\ FlattenSeq(Append(seqs, b)) = FlattenSeq(seqs) \o b
<1> DEFINE n == Len(seqs)
           t == Append(seqs, b)
           W == Seq(V)
<1> HIDE DEF W
<1>1. /\ n \in Nat /\ Len(t) = n + 1 /\ t[n + 1] = b
      /\ \A i \in 1 .. n : t[i] = seqs[i] /\ seqs[i] \in W
      /\ b \in W /\ (n = 0 => seqs = <<>>)
  <2>1. seqs \in Seq(W) /\ b \in W
    BY DEF W
  <2> QED BY <2>1
<1> HIDE DEF t
<1> HIDE DEF n
<1>2. \A i \in 1 .. n + 1 : t[i] \in Seq(V)
  <2> TAKE i \in 1 .. n + 1
  <2>1. i \in 1 .. n \/ i = n + 1
    BY <1>1
  <2>2. t[i] \in W
    BY <1>1, <2>1
  <2> QED BY <2>2 DEF W
<1>3. PICK e : /\ \A i \in 0 .. n + 1 : e[i] \in Seq(V)
               /\ e[0] = <<>> /\ e[n + 1] = FlattenSeq(t)
               /\ \A i \in 0 .. n : e[i + 1] = e[i] \o t[i + 1]
  <2>1. Len(t) \in Nat \ {0} /\ \A i \in 1 .. Len(t) : t[i] \in Seq(V)
    BY <1>1, <1>2
  <2>2. \E e : /\ \A i \in 0 .. Len(t) : e[i] \in Seq(V)
               /\ e[0] = <<>> /\ e[Len(t)] = FlattenSeq(t)
               /\ \A i \in 0 .. Len(t) - 1 : e[i + 1] = e[i] \o t[i + 1]
    BY <2>1, FlattenedPrefixes, Zenon
  <2>3. Len(t) - 1 = n
    BY <1>1
  <2> QED BY <1>1, <2>2, <2>3
<1>4. \A i \in 0 .. n - 1 : e[i + 1] = e[i] \o seqs[i + 1]
  <2> TAKE i \in 0 .. n - 1
  <2>1. i \in 0 .. n /\ i + 1 \in 1 .. n
    BY <1>1
  <2> QED BY <1>1, <1>3, <2>1
<1>5. FlattenSeq(seqs) = e[n]
  <2>1. \A i \in 1 .. n : seqs[i] \in Seq(V)
    BY <1>1 DEF W
  <2>2. n = 0 => seqs = <<>>
    BY <1>1
  <2>3. Grows(V, seqs, n, e)
    BY <1>1, <1>3, <1>4, <2>1, <2>2, Zenon DEF Grows, n
  <2> QED BY <2>3, FlattenedBy
<1>6. n \in 0 .. n + 1 /\ n \in 0 .. n
  BY <1>1
<1> QED BY <1>1, <1>3, <1>5, <1>6 DEF t

(***************************************************************************)
(* The groups of pads of an expanded prompt                                *)
(***************************************************************************)

(* What one more token does to the count of pads.                          *)
LEMMA PadsStep ==
  ASSUME NEW tokens, NEW i \in Nat
  PROVE  /\ PadsBefore(tokens, 0) = 0
         /\ PadsBefore(tokens, i) \in Nat
         /\ PadsBefore(tokens, i + 1) =
              PadsBefore(tokens, i) + (IF tokens[i + 1] = Pad THEN 1 ELSE 0)
<1> DEFINE P(n) == {j \in 1 .. n : tokens[j] = Pad}
<1>1. IsFiniteSet(P(i)) /\ Cardinality(P(i)) \in Nat
  <2>1. IsFiniteSet(1 .. i)
    BY FS_Interval
  <2> QED BY <2>1, FS_Subset, FS_CardinalityType
<1>2. i + 1 \notin P(i) /\ P(i + 1) = IF tokens[i + 1] = Pad THEN P(i) \cup {i + 1} ELSE P(i)
  OBVIOUS
<1>3. P(0) = {}
  OBVIOUS
<1>4. \A n : PadsBefore(tokens, n) = Cardinality(P(n))
  BY DEF PadsBefore
<1> HIDE DEF P
<1>5. Cardinality(P(i + 1)) = Cardinality(P(i)) + (IF tokens[i + 1] = Pad THEN 1 ELSE 0)
  <2>1. Cardinality(P(i) \cup {i + 1}) = Cardinality(P(i)) + 1
    BY <1>1, <1>2, FS_AddElement
  <2> QED BY <1>1, <1>2, <2>1
<1> QED BY <1>1, <1>3, <1>4, <1>5, FS_EmptySet

(* A prefix has no more pads than the whole.                                *)
LEMMA PadsAreFewer ==
  ASSUME NEW tokens, NEW n \in Nat, NEW i \in 0 .. n
  PROVE  PadsBefore(tokens, i) \in Nat /\ PadsBefore(tokens, i) <= PadsBefore(tokens, n)
<1> DEFINE P(k) == {j \in 1 .. k : tokens[j] = Pad}
<1>1. IsFiniteSet(P(n))
  <2>1. IsFiniteSet(1 .. n) /\ P(n) \in SUBSET (1 .. n)
    BY FS_Interval
  <2> HIDE DEF P
  <2> QED BY <2>1, FS_Subset
<1>2. P(i) \in SUBSET P(n)
  OBVIOUS
<1>3. \A k : PadsBefore(tokens, k) = Cardinality(P(k))
  BY DEF PadsBefore
<1> HIDE DEF P
<1> QED BY <1>1, <1>2, <1>3, FS_Subset, FS_CardinalityType

(* A sequence over a set is one over a larger set.                          *)
LEMMA SeqWidens ==
  ASSUME NEW A, NEW B, A \subseteq B, NEW s \in Seq(A)
  PROVE  s \in Seq(B)
OBVIOUS

(* Where the elements of a concatenation are.                               *)
LEMMA Concatenated ==
  ASSUME NEW V, NEW e \in Seq(V), NEW s \in Seq(V)
  PROVE  /\ e \o s \in Seq(V) /\ Len(e) \in Nat /\ Len(s) \in Nat
         /\ Len(e \o s) = Len(e) + Len(s)
         /\ \A i \in 1 .. Len(e) : (e \o s)[i] = e[i]
         /\ \A i \in 1 .. Len(s) : (e \o s)[Len(e) + i] = s[i]
<1>1. Len(e) \in Nat /\ Len(s) \in Nat /\ e \o s \in Seq(V)
  OBVIOUS
<1>2. Len(e \o s) = Len(e) + Len(s)
  OBVIOUS
<1>3. \A i \in 1 .. Len(e) : (e \o s)[i] = e[i]
  OBVIOUS
<1>4. ASSUME NEW i \in 1 .. Len(s) PROVE (e \o s)[Len(e) + i] = s[i]
  <2>1. Len(e) + i \in 1 .. Len(e) + Len(s) /\ ~(Len(e) + i <= Len(e)) /\ (Len(e) + i) - Len(e) = i
    BY <1>1
  <2> QED BY <2>1
<1> QED BY <1>1, <1>2, <1>3, <1>4

(* A concatenation with a single element.                                   *)
LEMMA OneMore ==
  ASSUME NEW V, NEW e \in Seq(V), NEW v \in V
  PROVE  /\ Len(e \o <<v>>) = Len(e) + 1 /\ Len(e) \in Nat
         /\ \A i \in 1 .. Len(e) : (e \o <<v>>)[i] = e[i]
         /\ (e \o <<v>>)[Len(e) + 1] = v
<1>1. e \o <<v>> = Append(e, v)
  OBVIOUS
<1> QED BY <1>1

(* In e the m-th group of pads starts at st[m] and has a pad for each      *)
(* merged token of the m-th grid.                                          *)
Starts(e, st) ==
  /\ st \in Seq(1 .. Len(e))
  /\ \A m, n \in 1 .. Len(st) : m < n => st[m] < st[n]
  /\ \A i \in 1 .. Len(e) : e[i] = Pad /\ (i = 1 \/ e[i - 1] # Pad) => \E m \in 1 .. Len(st) : i = st[m]

GroupAt(e, from, count) ==
  /\ from + count <= Len(e) + 1
  /\ \A i \in from .. from + count - 1 : e[i] = Pad
  /\ from # 1 => e[from - 1] # Pad
  /\ from + count <= Len(e) => e[from + count] # Pad

Grouped(e, st, grids) ==
  Starts(e, st) /\ \A m \in 1 .. Len(st) : GroupAt(e, st[m], Merged(grids[m]))

(* Groups stay when what follows does not start by prolonging the last.    *)
LEMMA GroupStays ==
  ASSUME NEW V, NEW e \in Seq(V), NEW s \in Seq(V), NEW from \in 1 .. Len(e), NEW count \in Nat \ {0},
         GroupAt(e, from, count),
         e[Len(e)] # Pad \/ Len(s) = 0 \/ s[1] # Pad
  PROVE  GroupAt(e \o s, from, count)
<1> DEFINE j == e \o s
<1>1. /\ Len(j) = Len(e) + Len(s) /\ Len(e) \in Nat /\ Len(s) \in Nat
      /\ \A i \in 1 .. Len(e) : j[i] = e[i]
      /\ Len(s) # 0 => j[Len(e) + 1] = s[1]
  OBVIOUS
<1> HIDE DEF j
<1>2. from + count <= Len(j) + 1
  BY <1>1 DEF GroupAt
<1>3. ASSUME NEW i \in from .. from + count - 1 PROVE j[i] = Pad
  <2>1. i \in 1 .. Len(e) /\ e[i] = Pad
    BY <1>1 DEF GroupAt
  <2> QED BY <1>1, <2>1
<1>4. from # 1 => j[from - 1] # Pad
  <2>1. from # 1 => from - 1 \in 1 .. Len(e)
    BY <1>1
  <2> QED BY <1>1, <2>1 DEF GroupAt
<1>5. ASSUME from + count <= Len(j) PROVE j[from + count] # Pad
  <2>1. CASE from + count <= Len(e)
    <3>1. from + count \in 1 .. Len(e)
      BY <1>1, <2>1
    <3> QED BY <1>1, <2>1, <3>1 DEF GroupAt
  <2>2. CASE ~(from + count <= Len(e))
    <3>1. from + count = Len(e) + 1 /\ Len(s) # 0 /\ Len(e) \in from .. from + count - 1
      BY <1>1, <1>5, <2>2 DEF GroupAt
    <3>2. e[Len(e)] = Pad
      BY <3>1 DEF GroupAt
    <3> QED BY <1>1, <3>1, <3>2
  <2> QED BY <2>1, <2>2
<1>6. GroupAt(j, from, count)
  BY <1>2, <1>3, <1>4, <1>5 DEF GroupAt
<1> QED BY <1>6 DEF j

(* A token that is not a pad makes no group.                               *)
LEMMA TokenFollows ==
  ASSUME NEW V, NEW e \in Seq(V), NEW v \in V, v # Pad,
         NEW st, NEW grids, Grouped(e, st, grids),
         \A m \in 1 .. Len(st) : Merged(grids[m]) \in Nat \ {0}
  PROVE  Grouped(e \o <<v>>, st, grids) /\ (e \o <<v>>)[Len(e \o <<v>>)] # Pad
<1> DEFINE j == e \o <<v>>
<1>1. /\ Len(j) = Len(e) + 1 /\ Len(e) \in Nat
      /\ \A i \in 1 .. Len(e) : j[i] = e[i]
      /\ j[Len(e) + 1] # Pad
  BY OneMore
<1>2. st \in Seq(1 .. Len(e)) /\ \A m \in 1 .. Len(st) : st[m] \in 1 .. Len(e)
  BY DEF Grouped, Starts
<1>3. \A m \in 1 .. Len(st) : GroupAt(j, st[m], Merged(grids[m]))
  <2> TAKE m \in 1 .. Len(st)
  <2>1. GroupAt(e, st[m], Merged(grids[m]))
    BY DEF Grouped
  <2>2. <<v>> \in Seq(V) /\ <<v>>[1] # Pad
    OBVIOUS
  <2> QED BY <1>2, <2>1, <2>2, GroupStays
<1> HIDE DEF j
<1>4. st \in Seq(1 .. Len(j))
  <2>1. 1 .. Len(e) \subseteq 1 .. Len(j)
    BY <1>1
  <2> QED BY <1>2, <2>1, SeqWidens
<1>5. ASSUME NEW i \in 1 .. Len(j), j[i] = Pad, i = 1 \/ j[i - 1] # Pad
      PROVE  \E m \in 1 .. Len(st) : i = st[m]
  <2>1. i \in 1 .. Len(e) /\ (i # 1 => i - 1 \in 1 .. Len(e))
    BY <1>1, <1>5
  <2>2. e[i] = Pad /\ (i = 1 \/ e[i - 1] # Pad)
    BY <1>1, <1>5, <2>1
  <2> QED BY <2>1, <2>2 DEF Grouped, Starts
<1>6. \A m, n \in 1 .. Len(st) : m < n => st[m] < st[n]
  BY DEF Grouped, Starts
<1>7. Grouped(j, st, grids)
  BY <1>3, <1>4, <1>5, <1>6 DEF Grouped, Starts
<1> QED BY <1>1, <1>7 DEF j

(* A run of pads after something else is one more group.                   *)
LEMMA PadsFollow ==
  ASSUME NEW V, NEW e \in Seq(V), NEW s \in Seq(V), Len(s) # 0,
         \A i \in 1 .. Len(s) : s[i] = Pad,
         NEW st, NEW grids, Grouped(e, st, grids),
         Len(s) = Merged(grids[Len(st) + 1]),
         Len(e) = 0 \/ e[Len(e)] # Pad,
         \A m \in 1 .. Len(st) : Merged(grids[m]) \in Nat \ {0}
  PROVE  Grouped(e \o s, Append(st, Len(e) + 1), grids)
<1> DEFINE j == e \o s
           t == Append(st, Len(e) + 1)
<1>1. /\ Len(j) = Len(e) + Len(s) /\ Len(e) \in Nat /\ Len(s) \in Nat \ {0}
      /\ \A i \in 1 .. Len(e) : j[i] = e[i]
      /\ \A i \in Len(e) + 1 .. Len(j) : j[i] = Pad
  <2> HIDE DEF j
  <2>1. /\ Len(e) \in Nat /\ Len(s) \in Nat /\ Len(j) = Len(e) + Len(s)
        /\ \A i \in 1 .. Len(e) : j[i] = e[i]
        /\ \A i \in 1 .. Len(s) : j[Len(e) + i] = s[i]
    <3>1. /\ Len(e) \in Nat /\ Len(s) \in Nat
          /\ Len(e \o s) = Len(e) + Len(s)
          /\ \A i \in 1 .. Len(e) : (e \o s)[i] = e[i]
      BY Concatenated, ZenonT(60)
    <3>2. \A i \in 1 .. Len(s) : (e \o s)[Len(e) + i] = s[i]
      BY Concatenated
    <3> QED BY <3>1, <3>2, Zenon DEF j
  <2>2. ASSUME NEW i \in Len(e) + 1 .. Len(j) PROVE j[i] = Pad
    <3>1. i - Len(e) \in 1 .. Len(s) /\ Len(e) + (i - Len(e)) = i
      BY <2>1
    <3>2. j[i] = s[i - Len(e)]
      BY <2>1, <3>1
    <3> QED BY <3>1, <3>2
  <2> QED BY <2>1, <2>2
<1>2. st \in Seq(1 .. Len(e)) /\ Len(st) \in Nat /\ \A m \in 1 .. Len(st) : st[m] \in 1 .. Len(e)
  BY SMTT(40) DEF Grouped, Starts
<1>3. /\ t \in Seq(1 .. Len(e) + 1) /\ Len(t) = Len(st) + 1 /\ t[Len(st) + 1] = Len(e) + 1
      /\ \A m \in 1 .. Len(st) : t[m] = st[m]
  <2>1. st \in Seq(1 .. Len(e) + 1) /\ Len(e) + 1 \in 1 .. Len(e) + 1
    <3>1. 1 .. Len(e) \subseteq 1 .. Len(e) + 1
      BY <1>1
    <3> QED BY <1>1, <1>2, <3>1
  <2> QED BY <2>1
<1>4. \A m \in 1 .. Len(st) : GroupAt(j, st[m], Merged(grids[m]))
  <2> TAKE m \in 1 .. Len(st)
  <2>1. GroupAt(e, st[m], Merged(grids[m]))
    BY DEF Grouped
  <2>2. e[Len(e)] # Pad
    BY <1>1, <1>2
  <2> QED BY <1>2, <2>1, <2>2, GroupStays
<1> HIDE DEF j, t
<1>5. GroupAt(j, Len(e) + 1, Merged(grids[Len(st) + 1]))
  <2>1. Len(e) + 1 # 1 => j[Len(e) + 1 - 1] # Pad
    BY <1>1
  <2>2. \A i \in Len(e) + 1 .. Len(e) + 1 + Len(s) - 1 : j[i] = Pad
    BY <1>1
  <2> QED BY <1>1, <2>1, <2>2 DEF GroupAt
<1>6. \A m \in 1 .. Len(t) : GroupAt(j, t[m], Merged(grids[m]))
  <2> TAKE m \in 1 .. Len(t)
  <2>1. m \in 1 .. Len(st) \/ m = Len(st) + 1
    BY <1>2, <1>3
  <2> QED BY <1>3, <1>4, <1>5, <2>1
<1>7. t \in Seq(1 .. Len(j))
  <2>1. 1 .. Len(e) + 1 \subseteq 1 .. Len(j)
    BY <1>1
  <2> QED BY <1>3, <2>1, SeqWidens
<1>8. ASSUME NEW i \in 1 .. Len(j), j[i] = Pad, i = 1 \/ j[i - 1] # Pad
      PROVE  \E m \in 1 .. Len(t) : i = t[m]
  <2>1. CASE i \in 1 .. Len(e)
    <3>1. i # 1 => i - 1 \in 1 .. Len(e)
      BY <1>1, <2>1
    <3>2. e[i] = Pad /\ (i = 1 \/ e[i - 1] # Pad)
      BY <1>1, <1>8, <2>1, <3>1
    <3>3. PICK m \in 1 .. Len(st) : i = st[m]
      BY <2>1, <3>2 DEF Grouped, Starts
    <3>4. m \in 1 .. Len(t) /\ t[m] = i
      BY <1>2, <1>3, <3>3
    <3> QED BY <3>4
  <2>2. CASE i = Len(e) + 1
    <3>1. Len(st) + 1 \in 1 .. Len(t)
      BY <1>2, <1>3
    <3> QED BY <1>3, <2>2, <3>1
  <2>3. CASE i \notin 1 .. Len(e) /\ i # Len(e) + 1
    <3>1. i # 1 /\ i - 1 \in Len(e) + 1 .. Len(j)
      BY <1>1, <2>3
    <3> QED BY <1>1, <1>8, <3>1
  <2> QED BY <2>1, <2>2, <2>3
<1>9. ASSUME NEW m \in 1 .. Len(t), NEW n \in 1 .. Len(t), m < n PROVE t[m] < t[n]
  <2>1. m \in 1 .. Len(st)
    BY <1>2, <1>3, <1>9
  <2>2. CASE n \in 1 .. Len(st)
    BY <1>3, <1>9, <2>1, <2>2 DEF Grouped, Starts
  <2>3. CASE n \notin 1 .. Len(st)
    <3>1. n = Len(st) + 1
      BY <1>2, <1>3, <2>3
    <3>2. t[m] \in 1 .. Len(e) /\ t[n] = Len(e) + 1
      BY <1>2, <1>3, <2>1, <3>1
    <3> QED BY <1>1, <3>2
  <2> QED BY <2>2, <2>3
<1>10. Grouped(j, t, grids)
  BY <1>6, <1>7, <1>8, <1>9 DEF Grouped, Starts
<1> QED BY <1>10 DEF j, t

(* A grid of whole merged tokens has at least one.                         *)
LEMMA MergedIsPositive ==
  ASSUME NEW grid \in Grids, ~Ragged(grid)
  PROVE  Merged(grid) \in Nat \ {0}
<1> DEFINE p == Patches(grid)
           k == MergeSize * MergeSize
<1>1. p \in Nat /\ p # 0 /\ p % k = 0
  BY GridPatches DEF Ragged
<1>2. k \in Nat /\ k >= 1
  <2>1. MergeSize \in Nat /\ MergeSize >= 1
    BY ImagePromptAssumption
  <2> QED BY <2>1, Multiplied
<1>3. Merged(grid) = p \div k
  BY DEF Merged
<1> HIDE DEF p, k
<1>4. p \div k \in Nat /\ p = k * (p \div k) + (p % k)
  BY <1>1, <1>2
<1>5. p \div k # 0
  BY <1>1, <1>2, <1>4
<1> QED BY <1>3, <1>4, <1>5

(* What expand_image_pads puts in the place of a token.                    *)
Piece(tokens, grids, i) ==
  IF tokens[i] # Pad THEN <<tokens[i]>>
  ELSE [k \in 1 .. Merged(grids[PadsBefore(tokens, i)]) |-> Pad]

(* A run of one element is a sequence.                                      *)
LEMMA OnlyPads ==
  ASSUME NEW U, NEW p \in U, NEW w \in Nat
  PROVE  [k \in 1 .. w |-> p] \in Seq(U)
OBVIOUS

(* The prefixes of an expansion, by the tokens they come from.             *)
Expanding(U, tokens, grids, e) ==
  /\ Len(tokens) \in Nat \ {0} /\ Pad \in U
  /\ \A i \in 0 .. Len(tokens) : e[i] \in Seq(U)
  /\ e[0] = <<>> /\ e[Len(tokens)] = Expand(tokens, grids)
  /\ \A i \in 0 .. Len(tokens) - 1 : e[i + 1] = e[i] \o Piece(tokens, grids, i + 1)
  /\ \A i \in 1 .. Len(tokens) : tokens[i] \in U
  /\ \A i \in 1 .. Len(tokens) :
       tokens[i] = Pad =>
         /\ PadsBefore(tokens, i) \in 1 .. Len(grids)
         /\ grids[PadsBefore(tokens, i)] \in Grids /\ ~Ragged(grids[PadsBefore(tokens, i)])

LEMMA ExpandedPrefixes ==
  ASSUME NEW V, NEW tokens \in Seq(V), NEW grids \in Seq(Grids), Expand(tokens, grids) # Rejected
  PROVE  \E e : Expanding(V \cup {Pad}, tokens, grids, e)
<1> DEFINE n    == Len(tokens)
           U    == V \cup {Pad}
           seqs == [i \in DOMAIN tokens |-> Piece(tokens, grids, i)]
<1>1. n \in Nat /\ \A i \in 1 .. n : tokens[i] \in V
  OBVIOUS
<1>2. /\ PadsBefore(tokens, n) = Len(grids)
      /\ \A m \in 1 .. Len(grids) : ~Ragged(grids[m])
      /\ Expand(tokens, grids) = FlattenSeq(seqs)
  BY DEF Expand, Piece
<1>3. n # 0
  <2> SUFFICES ASSUME n = 0 PROVE FALSE
    OBVIOUS
  <2>1. Len(seqs) = 0 /\ seqs = <<>>
    OBVIOUS
  <2> HIDE DEF seqs
  <2>2. FlattenSeq(seqs) = <<>>
    BY <2>1 DEF FlattenSeq
  <2> QED BY <1>2, <2>2 DEF Rejected
<1>4. Len(seqs) = n /\ \A i \in 1 .. n : seqs[i] = Piece(tokens, grids, i)
  OBVIOUS
<1> HIDE DEF seqs
<1>5. ASSUME NEW i \in 1 .. n, tokens[i] = Pad
      PROVE  /\ PadsBefore(tokens, i) \in 1 .. Len(grids)
             /\ grids[PadsBefore(tokens, i)] \in Grids /\ ~Ragged(grids[PadsBefore(tokens, i)])
  <2>1. i \in 0 .. n /\ i - 1 \in Nat /\ (i - 1) + 1 = i
    BY <1>1
  <2>2. PadsBefore(tokens, i) \in Nat /\ PadsBefore(tokens, i) <= Len(grids)
    BY <1>1, <1>2, <2>1, PadsAreFewer
  <2>3. PadsBefore(tokens, i - 1) \in Nat /\ PadsBefore(tokens, i) = PadsBefore(tokens, i - 1) + 1
    BY <1>5, <2>1, PadsStep
  <2>4. Len(grids) \in Nat /\ \A m \in 1 .. Len(grids) : grids[m] \in Grids
    OBVIOUS
  <2>5. PadsBefore(tokens, i) \in 1 .. Len(grids)
    BY <2>2, <2>3, <2>4
  <2> QED BY <1>2, <2>4, <2>5
<1>6. Pad \in U /\ \A i \in 1 .. n : tokens[i] \in U
  BY <1>1
<1> HIDE DEF U
<1>7. \A i \in 1 .. n : seqs[i] \in Seq(U)
  <2> TAKE i \in 1 .. n
  <2>1. CASE tokens[i] = Pad
    <3> DEFINE w == Merged(grids[PadsBefore(tokens, i)])
    <3>1. w \in Nat
      BY <1>5, <2>1, MergedIsPositive
    <3>2. seqs[i] = [k \in 1 .. w |-> Pad]
      BY <1>4, <2>1 DEF Piece
    <3> HIDE DEF w
    <3> QED BY <1>6, <3>1, <3>2, OnlyPads
  <2>2. CASE tokens[i] # Pad
    <3>1. seqs[i] = <<tokens[i]>> /\ tokens[i] \in U
      BY <1>4, <1>6, <2>2 DEF Piece
    <3>2. \A v \in U : <<v>> \in Seq(U)
      OBVIOUS
    <3> QED BY <3>1, <3>2, Zenon
  <2> QED BY <2>1, <2>2
<1>8. PICK e : /\ \A i \in 0 .. n : e[i] \in Seq(U)
               /\ e[0] = <<>> /\ e[n] = FlattenSeq(seqs)
               /\ \A i \in 0 .. n - 1 : e[i + 1] = e[i] \o seqs[i + 1]
  <2>1. Len(seqs) \in Nat \ {0} /\ \A i \in 1 .. Len(seqs) : seqs[i] \in Seq(U)
    BY <1>1, <1>3, <1>4, <1>7
  <2>2. \E e : /\ \A i \in 0 .. Len(seqs) : e[i] \in Seq(U)
               /\ e[0] = <<>> /\ e[Len(seqs)] = FlattenSeq(seqs)
               /\ \A i \in 0 .. Len(seqs) - 1 : e[i + 1] = e[i] \o seqs[i + 1]
    BY <2>1, FlattenedPrefixes, Zenon
  <2> QED BY <1>4, <2>2
<1>9. \A i \in 0 .. n - 1 : e[i + 1] = e[i] \o Piece(tokens, grids, i + 1)
  <2>1. \A i \in 0 .. n - 1 : i + 1 \in 1 .. n
    BY <1>1
  <2> QED BY <1>4, <1>8, <2>1
<1>10. Expanding(U, tokens, grids, e)
  BY <1>1, <1>2, <1>3, <1>5, <1>6, <1>8, <1>9, Zenon DEF Expanding
<1> QED BY <1>10 DEF U

(* An expansion has a group for each image, as long as the image.          *)
LEMMA ExpandedIsGrouped ==
  ASSUME NEW V, NEW tokens \in Seq(V), NEW grids \in Seq(Grids),
         Expand(tokens, grids) # Rejected,
         \A i \in 2 .. Len(tokens) : tokens[i] # Pad \/ tokens[i - 1] # Pad
  PROVE  /\ Expand(tokens, grids) \in Seq(V \cup {Pad})
         /\ \E st : Grouped(Expand(tokens, grids), st, grids) /\ Len(st) = Len(grids)
<1> DEFINE n == Len(tokens)
           U == V \cup {Pad}
<1>1. PICK e : Expanding(U, tokens, grids, e)
  BY ExpandedPrefixes
<1> HIDE DEF U
<1>2. /\ n \in Nat /\ e[0] = <<>> /\ e[n] = Expand(tokens, grids)
      /\ \A i \in 0 .. n : e[i] \in Seq(U)
      /\ \A i \in 1 .. n : tokens[i] \in U
  BY <1>1 DEF Expanding
<1>3. /\ PadsBefore(tokens, n) = Len(grids)
      /\ \A m \in 1 .. Len(grids) : Merged(grids[m]) \in Nat \ {0}
  <2>1. \A m \in 1 .. Len(grids) : ~Ragged(grids[m])
    BY DEF Expand
  <2> QED BY <2>1, MergedIsPositive DEF Expand
<1>4. ASSUME NEW i \in 0 .. n - 1
      PROVE  /\ i + 1 \in 1 .. n /\ i \in 0 .. n /\ i + 1 # 0 /\ i + 1 \in 0 .. n /\ i \in Nat
             /\ i # 0 => i + 1 \in 2 .. Len(tokens) /\ (i + 1) - 1 = i
             /\ e[i + 1] = e[i] \o Piece(tokens, grids, i + 1)
  <2>1. e[i + 1] = e[i] \o Piece(tokens, grids, i + 1)
    BY <1>1 DEF Expanding
  <2> QED BY <1>2, <2>1
<1>5. ASSUME NEW i \in 1 .. n, tokens[i] = Pad
      PROVE  /\ PadsBefore(tokens, i) \in 1 .. Len(grids)
             /\ Piece(tokens, grids, i) = [k \in 1 .. Merged(grids[PadsBefore(tokens, i)]) |-> Pad]
  <2>1. PadsBefore(tokens, i) \in 1 .. Len(grids)
    BY <1>1, <1>5 DEF Expanding
  <2> QED BY <1>5, <2>1 DEF Piece
<1>6. Pad \in U
  BY DEF U
<1> DEFINE Good(i) == /\ i = 0 \/ tokens[i] = Pad \/ e[i][Len(e[i])] # Pad
                      /\ i = 0 => Len(e[i]) = 0
                      /\ \E st : Grouped(e[i], st, grids) /\ Len(st) = PadsBefore(tokens, i)
           good == {i \in 0 .. n : Good(i)}
<1>7. 0 \in good
  <2>1. Len(e[0]) = 0 /\ PadsBefore(tokens, 0) = 0
    BY <1>2, PadsStep
  <2>2. <<>> \in Seq(1 .. Len(e[0])) /\ Len(<<>>) = 0
    OBVIOUS
  <2> DEFINE st == <<>>
  <2>3. st \in Seq(1 .. Len(e[0])) /\ Len(st) = 0
    BY <2>2
  <2> HIDE DEF st
  <2>4. Grouped(e[0], st, grids)
    BY <2>1, <2>3 DEF Grouped, Starts
  <2> QED BY <1>2, <2>1, <2>3, <2>4
<1>8. ASSUME NEW i \in 0 .. n - 1, i \in good PROVE i + 1 \in good
  <2> DEFINE s == Piece(tokens, grids, i + 1)
  <2>1. /\ i + 1 \in 1 .. n /\ i \in 0 .. n /\ i + 1 # 0 /\ i + 1 \in 0 .. n /\ i \in Nat
        /\ i # 0 => i + 1 \in 2 .. Len(tokens) /\ (i + 1) - 1 = i
        /\ e[i + 1] = e[i] \o s
    BY <1>4
  <2>2. e[i] \in Seq(U)
    BY <1>2, <2>1
  <2>3. PICK st : Grouped(e[i], st, grids) /\ Len(st) = PadsBefore(tokens, i)
    BY <1>8
  <2>4. PadsBefore(tokens, i) \in Nat /\ PadsBefore(tokens, i) <= Len(grids)
    BY <1>2, <1>3, <2>1, PadsAreFewer
  <2>5. \A m \in 1 .. Len(st) : Merged(grids[m]) \in Nat \ {0}
    <3>1. Len(grids) \in Nat
      OBVIOUS
    <3>2. 1 .. Len(st) \subseteq 1 .. Len(grids)
      BY <2>3, <2>4, <3>1
    <3> QED BY <1>3, <3>2
  <2>6. CASE tokens[i + 1] # Pad
    <3>1. s = <<tokens[i + 1]>> /\ tokens[i + 1] \in U
      BY <1>2, <2>1, <2>6 DEF Piece
    <3>2. Grouped(e[i + 1], st, grids) /\ e[i + 1][Len(e[i + 1])] # Pad
      BY <2>1, <2>2, <2>3, <2>5, <2>6, <3>1, TokenFollows
    <3>3. PadsBefore(tokens, i + 1) = Len(st)
      <4>1. PadsBefore(tokens, i + 1) = PadsBefore(tokens, i) + 0
        BY <2>1, <2>6, PadsStep
      <4> QED BY <2>3, <2>4, <4>1
    <3> QED BY <2>1, <3>2, <3>3
  <2>7. CASE tokens[i + 1] = Pad
    <3> DEFINE t == Append(st, Len(e[i]) + 1)
               w == Merged(grids[Len(st) + 1])
    <3>1. PadsBefore(tokens, i + 1) = Len(st) + 1 /\ PadsBefore(tokens, i + 1) \in 1 .. Len(grids)
      BY <1>5, <2>1, <2>3, <2>4, <2>7, PadsStep
    <3>2. s = [k \in 1 .. w |-> Pad]
      BY <1>5, <2>1, <2>7, <3>1
    <3>3. w \in Nat \ {0}
      BY <1>3, <3>1
    <3> HIDE DEF s, w
    <3>4. Len(s) = w /\ Len(s) # 0 /\ \A k \in 1 .. Len(s) : s[k] = Pad
      BY <3>2, <3>3
    <3>5. Len(e[i]) = 0 \/ e[i][Len(e[i])] # Pad
      BY <1>8, <2>1, <2>7
    <3>6. s \in Seq(U)
      BY <1>6, <3>2, <3>3, OnlyPads
    <3>7. Grouped(e[i + 1], t, grids)
      BY <2>1, <2>2, <2>3, <2>5, <3>4, <3>5, <3>6, PadsFollow DEF s, w
    <3>8. Len(t) = Len(st) + 1
      <4>1. st \in Seq(1 .. Len(e[i])) /\ Len(e[i]) \in Nat
        BY <2>2, <2>3 DEF Grouped, Starts
      <4>2. \A x : Len(Append(st, x)) = Len(st) + 1
        BY <4>1, AppendProperties
      <4> QED BY <4>2
    <3> HIDE DEF t
    <3> QED BY <2>1, <2>7, <3>1, <3>7, <3>8
  <2> QED BY <2>6, <2>7
<1>9. n \in good
  <2> HIDE DEF good, n
  <2>1. n \in 0 .. n
    BY <1>2
  <2>2. 0 .. n \subseteq good
    BY <1>2, <1>7, <1>8, UpTo
  <2> QED BY <2>1, <2>2
<1>10. \E st : Grouped(e[n], st, grids) /\ Len(st) = PadsBefore(tokens, n)
  BY <1>9
<1>11. n \in 0 .. n
  BY <1>2
<1> QED BY <1>2, <1>3, <1>10, <1>11 DEF U

(* A group is as long as the pads that follow its start.                   *)
LEMMA GroupLengthIs ==
  ASSUME NEW V, NEW e \in Seq(V), NEW from \in 1 .. Len(e), NEW count \in Nat \ {0},
         GroupAt(e, from, count)
  PROVE  GroupLength(e, from) = count
<1> DEFINE last == Len(e) + 1
           S    == {i \in from .. last : i = last \/ e[i] # Pad}
<1>1. Len(e) \in Nat
  OBVIOUS
<1>2. S \in SUBSET Nat /\ from + count \in S
  <2>1. from + count \in from .. last
    BY <1>1 DEF GroupAt
  <2>2. from + count = last \/ from + count <= Len(e)
    BY <1>1 DEF GroupAt
  <2>3. from + count = last \/ e[from + count] # Pad
    BY <2>2 DEF GroupAt
  <2> QED BY <2>1, <2>3
<1>3. \A i \in S : from + count <= i
  <2> SUFFICES ASSUME NEW i \in S, i < from + count PROVE FALSE
    BY <1>2
  <2>1. i \in from .. from + count - 1 /\ i # last
    BY <1>1 DEF GroupAt
  <2>2. e[i] = Pad
    BY <2>1 DEF GroupAt
  <2> QED BY <2>1, <2>2
<1>4. GroupLength(e, from) = Min(S) - from
  BY DEF GroupLength
<1> HIDE DEF S
<1>5. Min(S) \in S /\ Min(S) <= from + count
  BY <1>2, LeastOf
<1>6. Min(S) = from + count
  <2>1. Min(S) \in Nat /\ from + count <= Min(S)
    BY <1>2, <1>3, <1>5
  <2> QED BY <1>5, <2>1
<1> QED BY <1>4, <1>6

(* What expand_image_pads makes, MultimodalPrompt::build accepts.          *)
LEMMA ExpandedMatches ==
  ASSUME NEW V, NEW tokens \in Seq(V), NEW grids \in Seq(Grids), grids # <<>>,
         Expand(tokens, grids) # Rejected,
         \A i \in 2 .. Len(tokens) : tokens[i] # Pad \/ tokens[i - 1] # Pad
  PROVE  ~Mismatched(Expand(tokens, grids), grids)
<1> DEFINE e == Expand(tokens, grids)
           k == Len(grids)
           U == V \cup {Pad}
<1>1. e \in Seq(U) /\ Len(e) \in Nat /\ k \in Nat
  BY ExpandedIsGrouped
<1>2. PICK st : Grouped(e, st, grids) /\ Len(st) = k
  BY ExpandedIsGrouped
<1>3. \A m \in 1 .. k :
        ~Ragged(grids[m]) /\ ~Unmerged(grids[m]) /\ Merged(grids[m]) \in Nat \ {0}
  <2>1. \A m \in 1 .. k : grids[m] \in Grids /\ ~Ragged(grids[m])
    BY DEF Expand
  <2> QED BY <2>1, GridPatches, MergedIsPositive
<1> HIDE DEF e, k, U
<1>4. st \in Seq(1 .. Len(e)) /\ \A m \in 1 .. k : st[m] \in 1 .. Len(e)
  BY <1>2 DEF Grouped, Starts
<1>5. GroupStarts(e) = {st[m] : m \in 1 .. k}
  <2>1. DOMAIN e = 1 .. Len(e)
    BY <1>1
  <2>2. ASSUME NEW i \in GroupStarts(e) PROVE \E m \in 1 .. k : i = st[m]
    BY <1>2, <2>1, <2>2 DEF GroupStarts, Grouped, Starts
  <2>3. ASSUME NEW m \in 1 .. k PROVE st[m] \in GroupStarts(e)
    <3>1. GroupAt(e, st[m], Merged(grids[m]))
      BY <1>2 DEF Grouped
    <3>2. st[m] \in st[m] .. st[m] + Merged(grids[m]) - 1
      BY <1>3, <1>4
    <3>3. e[st[m]] = Pad /\ (st[m] # 1 => e[st[m] - 1] # Pad)
      BY <3>1, <3>2 DEF GroupAt
    <3> QED BY <1>4, <2>1, <3>3 DEF GroupStarts
  <2> QED BY <2>2, <2>3
<1>6. Ascending(GroupStarts(e)) = st
  <2>1. st \in [1 .. k -> Int]
    <3>1. st \in [1 .. Len(st) -> 1 .. Len(e)]
      BY <1>4
    <3>2. 1 .. Len(e) \subseteq Int
      BY <1>1
    <3> QED BY <1>2, <3>1, <3>2
  <2>2. \A m, n \in 1 .. k : m < n => st[m] < st[n]
    BY <1>2 DEF Grouped, Starts
  <2> QED BY <1>1, <1>5, <2>1, <2>2, AscendingIs
<1>7. \A m \in 1 .. k : GroupLength(e, st[m]) = Merged(grids[m])
  <2> TAKE m \in 1 .. k
  <2>1. GroupAt(e, st[m], Merged(grids[m]))
    BY <1>2 DEF Grouped
  <2> QED BY <1>1, <1>3, <1>4, <2>1, GroupLengthIs
<1>8. DOMAIN st = 1 .. k
  BY <1>2, <1>4
<1>9. ~Mismatched(e, grids)
  BY <1>2, <1>3, <1>6, <1>7, <1>8 DEF Mismatched, k
<1> QED BY <1>9 DEF e

(***************************************************************************)
(* What a handler keeps of its images                                      *)
(***************************************************************************)

PatchCounts(grids) == [i \in DOMAIN grids |-> Patches(grids[i])]

Holding == {"waiting", "reading", "job"}   \* an image is under way

(* A handler's grids are those of its first images and within the budget;  *)
(* while an image is under way one is missing, and once the request is     *)
(* submitted none is and the prompt has been expanded.                     *)
Fits(r, h) ==
  /\ h \in [stage : Stages, grids : Seq(Grids)]
  /\ Len(h.grids) <= Len(Images(r))
  /\ h.stage \in Holding => Len(h.grids) < Len(Images(r))
  /\ Total(PatchCounts(h.grids)) <= MaxPatches
  /\ h.stage = "submitted" =>
       /\ Len(h.grids) = Len(Images(r))
       /\ Images(r) # <<>> => Expand(Content[r].tokens, h.grids) # Rejected

HandlersFit == DOMAIN handler = Request /\ \A r \in Request : Fits(r, handler[r])

JobsFit == \A j \in jobs : j.request \in Request /\ j.image \in 1 .. Len(Images(j.request))

PendingIsSubmitted ==
  /\ pending \in Seq(Request)
  /\ \A i \in 1 .. Len(pending) : handler[pending[i]].stage = "submitted"

RepliesFit == DOMAIN reply = Request /\ AcceptedIsEncodable

EInv == HandlersFit /\ JobsFit /\ PendingIsSubmitted /\ RepliesFit

(* What the assumption says of a request's images.                         *)
LEMMA ImagesAre ==
  ASSUME NEW r \in Request
  PROVE  /\ Len(Images(r)) \in Nat
         /\ \A i \in 1 .. Len(Images(r)) : Images(r)[i].size \in Nat \X Nat
         /\ Images(r) # <<>> => Len(Images(r)) # 0
<1>1. Images(r) \in Seq([size : Nat \X Nat, http : BOOLEAN])
  BY ImageRequestsAssumption DEF Sound, Images
<1> DEFINE im == Images(r)
<1> HIDE DEF im
<1> DEFINE S == [size : Nat \X Nat, http : BOOLEAN]
<1> HIDE DEF S
<1>2. im \in Seq(S)
  BY <1>1 DEF im, S
<1>3. Len(im) \in Nat /\ (im # <<>> => Len(im) # 0)
  BY <1>2
<1>4. \A i \in 1 .. Len(im) : im[i] \in S
  BY <1>2
<1>5. \A i \in 1 .. Len(im) : im[i].size \in Nat \X Nat
  BY <1>4 DEF S
<1> QED BY <1>3, <1>5 DEF im

(* Append as a function.                                                    *)
LEMMA AppendIs ==
  ASSUME NEW S, NEW s \in Seq(S), NEW v \in S
  PROVE  Append(s, v) = [i \in 1 .. Len(s) + 1 |-> IF i = Len(s) + 1 THEN v ELSE s[i]]
<1> DEFINE a == Append(s, v)
<1>1. a \in Seq(S) /\ Len(a) = Len(s) + 1
  OBVIOUS
<1>2. \A i \in 1 .. Len(s) + 1 : a[i] = IF i = Len(s) + 1 THEN v ELSE s[i]
  OBVIOUS
<1> HIDE DEF a
<1>3. a = [i \in 1 .. Len(s) + 1 |-> a[i]]
  BY <1>1
<1>4. a = [i \in 1 .. Len(s) + 1 |-> IF i = Len(s) + 1 THEN v ELSE s[i]]
  BY <1>2, <1>3
<1> QED BY <1>4 DEF a

(* The patches a handler has spent, and one image more.                    *)
LEMMA PatchesSpent ==
  ASSUME NEW grids \in Seq(Grids), NEW grid \in Grids
  PROVE  /\ Total(PatchCounts(grids)) \in Int
         /\ Total(PatchCounts(Append(grids, grid))) = Total(PatchCounts(grids)) + Patches(grid)
<1> DEFINE c == PatchCounts(grids)
<1>1. Patches(grid) \in Int
  BY GridPatches
<1>2. c \in Seq(Int)
  <2>1. \A i \in 1 .. Len(grids) : grids[i] \in Grids
    OBVIOUS
  <2>2. c = [i \in 1 .. Len(grids) |-> Patches(grids[i])] /\ Len(grids) \in Nat
    BY DEF PatchCounts
  <2>3. \A i \in 1 .. Len(grids) : Patches(grids[i]) \in Int
    BY <2>1, GridPatches
  <2> HIDE DEF c
  <2> QED BY <2>2, <2>3
<1>3. PatchCounts(Append(grids, grid)) = Append(c, Patches(grid))
  <2>1. /\ Len(grids) \in Nat /\ DOMAIN grids = 1 .. Len(grids)
        /\ DOMAIN Append(grids, grid) = 1 .. Len(grids) + 1
        /\ Append(grids, grid)[Len(grids) + 1] = grid
        /\ \A i \in 1 .. Len(grids) : Append(grids, grid)[i] = grids[i]
    OBVIOUS
  <2> DEFINE a == Append(grids, grid)
  <2> HIDE DEF a
  <2>2. PatchCounts(a) = [i \in 1 .. Len(grids) + 1 |-> Patches(a[i])]
    BY <2>1 DEF PatchCounts, a
  <2>3. Len(c) = Len(grids) /\ \A i \in 1 .. Len(grids) : c[i] = Patches(grids[i])
    BY <2>1 DEF PatchCounts
  <2> HIDE DEF c
  <2>4. /\ Append(c, Patches(grid)) = [i \in 1 .. Len(grids) + 1 |-> Append(c, Patches(grid))[i]]
        /\ Append(c, Patches(grid))[Len(grids) + 1] = Patches(grid)
        /\ \A i \in 1 .. Len(grids) : Append(c, Patches(grid))[i] = c[i]
    <3> DEFINE v == Patches(grid)
    <3> HIDE DEF v
    <3>1. v \in Int
      BY <1>1 DEF v
    <3>2. Append(c, v) = [i \in 1 .. Len(c) + 1 |-> IF i = Len(c) + 1 THEN v ELSE c[i]]
      BY <1>2, <3>1, AppendIs, SMTT(40)
    <3>3. /\ Append(c, v) = [i \in 1 .. Len(grids) + 1 |-> Append(c, v)[i]]
          /\ Append(c, v)[Len(grids) + 1] = v
          /\ \A i \in 1 .. Len(grids) : Append(c, v)[i] = c[i]
      BY <2>1, <2>3, <3>2
    <3> QED BY <3>3 DEF v
  <2> DEFINE b == Append(c, Patches(grid))
  <2> HIDE DEF b
  <2>5. \A i \in 1 .. Len(grids) + 1 : Patches(a[i]) = b[i]
    <3> TAKE i \in 1 .. Len(grids) + 1
    <3>1. i \in 1 .. Len(grids) \/ i = Len(grids) + 1
      BY <2>1
    <3> QED BY <2>1, <2>3, <2>4, <3>1 DEF a, b
  <2> QED BY <2>2, <2>4, <2>5 DEF a, b
<1> HIDE DEF c
<1> QED BY <1>1, <1>2, <1>3, TotalAppend DEF c

(* A handler moves on with the grids it has.                               *)
LEMMA FitsMoves ==
  ASSUME HandlersFit, NEW r \in Request, NEW s \in Stages, Goes(r, s),
         s \in Holding => Len(handler[r].grids) < Len(Images(r)),
         s = "submitted" => /\ Len(handler[r].grids) = Len(Images(r))
                            /\ Images(r) # <<>> =>
                                 Expand(Content[r].tokens, handler[r].grids) # Rejected
  PROVE  /\ HandlersFit'
         /\ handler'[r].stage = s /\ \A q \in Request : q # r => handler'[q] = handler[q]
<1>1. handler' = [handler EXCEPT ![r].stage = s] /\ Fits(r, handler[r])
  BY DEF Goes, HandlersFit
<1>2. /\ DOMAIN handler' = Request
      /\ handler'[r] = [handler[r] EXCEPT !.stage = s]
      /\ \A q \in Request : q # r => handler'[q] = handler[q]
  BY <1>1 DEF HandlersFit
<1> DEFINE h == handler[r]
           g == [h EXCEPT !.stage = s]
<1> HIDE DEF h
<1>3. h \in [stage : Stages, grids : Seq(Grids)]
  BY <1>1 DEF Fits, h
<1>4. g \in [stage : Stages, grids : Seq(Grids)] /\ g.stage = s /\ g.grids = h.grids
  BY <1>3
<1> HIDE DEF g
<1>5. Fits(r, g)
  BY <1>1, <1>4 DEF Fits, h
<1>6. ASSUME NEW q \in Request PROVE Fits(q, handler'[q])
  <2>1. CASE q = r
    BY <1>2, <1>5, <2>1 DEF g, h
  <2>2. CASE q # r
    BY <1>2, <2>2 DEF HandlersFit
  <2> QED BY <2>1, <2>2
<1>7. HandlersFit'
  <2>1. \A q \in Request : Fits(q, handler[q])'
    BY <1>6 DEF Fits, Images
  <2> QED BY <1>2, <2>1 DEF HandlersFit
<1>8. handler'[r].stage = s
  BY <1>2, <1>4 DEF g, h
<1> QED BY <1>2, <1>7, <1>8

(* A submitted request is no handler's business any more.                  *)
LEMMA PendingStays ==
  ASSUME PendingIsSubmitted, NEW r \in Request, handler[r].stage # "submitted",
         \A q \in Request : q # r => handler'[q] = handler[q], pending' = pending
  PROVE  PendingIsSubmitted'
<1>1. \A i \in 1 .. Len(pending) : pending[i] \in Request /\ pending[i] # r
  BY DEF PendingIsSubmitted
<1> QED BY <1>1 DEF PendingIsSubmitted

(* At the start no image has been decoded.                                  *)
LEMMA InitEInv == Init => EInv
<1> SUFFICES ASSUME Init PROVE EInv
  OBVIOUS
<1>1. PatchCounts(<<>>) = <<>>
  BY DEF PatchCounts
<1>2. Total(PatchCounts(<<>>)) <= MaxPatches
  BY <1>1, TotalOfNone, ImageRequestsAssumption
<1>3. ASSUME NEW r \in Request PROVE Fits(r, handler[r])
  <2>1. handler[r] = [stage |-> "next", grids |-> <<>>]
    BY DEF Init
  <2> DEFINE g == <<>>
  <2>2. g \in Seq(Grids) /\ Len(g) = 0 /\ Total(PatchCounts(g)) <= MaxPatches
    BY <1>2
  <2> HIDE DEF g
  <2>3. handler[r] = [stage |-> "next", grids |-> g]
    BY <2>1 DEF g
  <2>4. Len(Images(r)) \in Nat
    BY ImagesAre
  <2>5. /\ handler[r].stage = "next" /\ handler[r].grids = g
        /\ handler[r] \in [stage : Stages, grids : Seq(Grids)]
    BY <2>2, <2>3 DEF Stages
  <2> QED BY <2>2, <2>4, <2>5 DEF Fits, Holding
<1>4. HandlersFit
  BY <1>3 DEF Init, HandlersFit
<1>5. JobsFit /\ PendingIsSubmitted
  BY DEF Init, JobsFit, PendingIsSubmitted
<1>6. RepliesFit
  BY DEF Init, RepliesFit, AcceptedIsEncodable
<1> QED BY <1>4, <1>5, <1>6 DEF EInv

(* A handler asks for its next image when one is missing.                  *)
LEMMA NextImageEInv ==
  ASSUME EInv, NEW r \in Request, NextImage(r) PROVE EInv'
<1>1. /\ handler[r].stage = "next" /\ Len(handler[r].grids) < Len(Images(r))
      /\ Goes(r, "waiting") \/ Goes(r, "answered")
      /\ jobs' = jobs /\ pending' = pending /\ reply' = reply
  BY DEF NextImage
<1>2. HandlersFit' /\ \A q \in Request : q # r => handler'[q] = handler[q]
  BY <1>1, FitsMoves DEF EInv, Stages, Holding
<1>3. PendingIsSubmitted'
  BY <1>1, <1>2, PendingStays DEF EInv
<1>4. JobsFit' /\ RepliesFit'
  BY <1>1 DEF EInv, JobsFit, RepliesFit, AcceptedIsEncodable, Images
<1> QED BY <1>2, <1>3, <1>4 DEF EInv

(* The job of a handler with an image missing is for one of its images.    *)
LEMMA JobFits ==
  ASSUME EInv, NEW r \in Request, handler[r].stage \in Holding, jobs' = jobs \cup {Job(r)}
  PROVE  JobsFit'
<1>1. Fits(r, handler[r])
  BY DEF EInv, HandlersFit
<1>2. /\ handler[r].grids \in Seq(Grids) /\ Len(handler[r].grids) < Len(Images(r))
      /\ Len(Images(r)) \in Nat
  BY <1>1, ImagesAre DEF Fits
<1>3. Len(handler[r].grids) + 1 \in 1 .. Len(Images(r))
  <2>1. Len(handler[r].grids) \in Nat
    BY <1>2
  <2> QED BY <1>2, <2>1
<1>4. Job(r).request = r /\ Job(r).image \in 1 .. Len(Images(r))
  BY <1>3 DEF Job
<1>5. \A j \in jobs' : j.request \in Request /\ j.image \in 1 .. Len(Images(j.request))
  BY <1>4 DEF EInv, JobsFit
<1> QED BY <1>5 DEF JobsFit, Images

(* A handler that has an image under way, or is through.                   *)
LEMMA HoldingMoves ==
  ASSUME EInv, NEW r \in Request, handler[r].stage \in Holding,
         NEW s \in Holding \cup {"answered"}, Goes(r, s), pending' = pending
  PROVE  HandlersFit' /\ PendingIsSubmitted'
<1>1. /\ Len(handler[r].grids) < Len(Images(r)) /\ handler[r].stage # "submitted"
      /\ s \in Stages /\ s # "submitted"
  BY DEF EInv, HandlersFit, Fits, Holding, Stages
<1>2. HandlersFit' /\ \A q \in Request : q # r => handler'[q] = handler[q]
  BY <1>1, FitsMoves DEF EInv
<1> QED BY <1>1, <1>2, PendingStays DEF EInv

(* The head of the semaphore's queue has an image to fetch or decode.       *)
LEMMA GrantedEInv ==
  ASSUME IInv, EInv, Granted PROVE EInv'
<1> DEFINE r == Head(waiting)
<1>1. r \in Request /\ handler[r].stage = "waiting"
  <2>1. waiting \in Seq(Request) /\ waiting # <<>>
    BY DEF IInv, Shapes, Granted
  <2>2. 1 \in 1 .. Len(waiting) /\ r = waiting[1] /\ r \in Request
    BY <2>1
  <2> QED BY <2>2 DEF IInv, Waiters
<1>2. /\ \/ Goes(r, "reading") /\ jobs' = jobs
         \/ Goes(r, "job") /\ jobs' = jobs \cup {Job(r)}
      /\ pending' = pending /\ reply' = reply
  BY DEF Granted
<1> HIDE DEF r
<1>3. HandlersFit' /\ PendingIsSubmitted'
  BY <1>1, <1>2, HoldingMoves DEF Holding
<1>4. JobsFit'
  <2>1. CASE jobs' = jobs
    BY <2>1 DEF EInv, JobsFit, Images
  <2>2. CASE jobs' = jobs \cup {Job(r)}
    BY <1>1, <2>2, JobFits DEF Holding
  <2> QED BY <1>2, <2>1, <2>2
<1>5. RepliesFit'
  BY <1>2 DEF EInv, RepliesFit, AcceptedIsEncodable
<1> QED BY <1>3, <1>4, <1>5 DEF EInv

(* A body is read for the image that is missing.                            *)
LEMMA ReadBodyEInv ==
  ASSUME EInv, NEW r \in Request, ReadBody(r) PROVE EInv'
<1>1. /\ handler[r].stage = "reading"
      /\ \/ Goes(r, "job") /\ jobs' = jobs \cup {Job(r)}
         \/ Goes(r, "answered") /\ jobs' = jobs
      /\ pending' = pending /\ reply' = reply
  BY DEF ReadBody
<1>2. HandlersFit' /\ PendingIsSubmitted'
  BY <1>1, HoldingMoves DEF Holding
<1>3. JobsFit'
  <2>1. CASE jobs' = jobs
    BY <2>1 DEF EInv, JobsFit, Images
  <2>2. CASE jobs' = jobs \cup {Job(r)}
    BY <1>1, <2>2, JobFits DEF Holding
  <2> QED BY <1>1, <2>1, <2>2
<1>4. RepliesFit'
  BY <1>1 DEF EInv, RepliesFit, AcceptedIsEncodable
<1> QED BY <1>2, <1>3, <1>4 DEF EInv

(* A handler that gives up leaves its job's image what it was.              *)
LEMMA AbandonEInv ==
  ASSUME EInv, NEW r \in Request, Abandon(r) PROVE EInv'
<1>1. /\ handler[r].stage \in Holding /\ Goes(r, "answered")
      /\ jobs' = jobs /\ pending' = pending /\ reply' = reply
  BY DEF Abandon, Holding
<1>2. HandlersFit' /\ PendingIsSubmitted'
  BY <1>1, HoldingMoves
<1>3. JobsFit' /\ RepliesFit'
  BY <1>1 DEF EInv, JobsFit, RepliesFit, AcceptedIsEncodable, Images
<1> QED BY <1>2, <1>3 DEF EInv

(* A grid that was fitted into what the handler had left.                  *)
LEMMA OneGridMore ==
  ASSUME EInv, NEW j \in jobs, NEW r, r = j.request, handler[r].stage = "job",
         NEW grid, grid = Preprocess(Images(r)[j.image].size, MaxPatches - Spent(r), Downscale),
         grid # Rejected,
         handler' = [handler EXCEPT ![r] = [stage |-> "next", grids |-> Append(@.grids, grid)]]
  PROVE  HandlersFit' /\ \A q \in Request : q # r => handler'[q] = handler[q]
<1> DEFINE old == handler[r].grids
           g   == [stage |-> "next", grids |-> Append(old, grid)]
<1>1. r \in Request /\ Images(r)[j.image].size \in Nat \X Nat
  BY ImagesAre DEF EInv, JobsFit
<1>2. Fits(r, handler[r])
  BY <1>1 DEF EInv, HandlersFit
<1>3. /\ old \in Seq(Grids) /\ Len(old) < Len(Images(r))
      /\ Total(PatchCounts(old)) <= MaxPatches
  BY <1>2 DEF Fits, Holding
<1>4. Spent(r) = Total(PatchCounts(old))
  BY DEF Spent, PatchCounts
<1>5. /\ DOMAIN handler' = Request /\ handler'[r] = g
      /\ \A q \in Request : q # r => handler'[q] = handler[q]
  BY <1>1 DEF EInv, HandlersFit
<1> HIDE DEF old
<1> DEFINE t == Total(PatchCounts(old))
<1>6. t \in Int
  <2>1. \E x : x \in Grids
    <3>1. Grid(0, 0) \in Grids
      BY SMTT(40) DEF Grids
    <3> QED BY <3>1
  <2> QED BY <1>3, <2>1, PatchesSpent
<1> HIDE DEF t
<1>7. MaxPatches - t \in Nat
  BY <1>3, <1>6, ImageRequestsAssumption DEF t
<1>8. grid \in Grids /\ Patches(grid) <= MaxPatches - t
  BY <1>1, <1>4, <1>7, WithinBudget DEF t
<1>9. /\ Append(old, grid) \in Seq(Grids) /\ Len(Append(old, grid)) = Len(old) + 1
      /\ Len(old) \in Nat
  BY <1>3, <1>8
<1>10. Total(PatchCounts(Append(old, grid))) <= MaxPatches
  <2>1. Total(PatchCounts(Append(old, grid))) = t + Patches(grid)
    BY <1>3, <1>8, PatchesSpent DEF t
  <2>2. Patches(grid) \in Nat
    BY <1>8, GridPatches
  <2> QED BY <1>6, <1>8, <2>1, <2>2, ImageRequestsAssumption
<1> DEFINE a == Append(old, grid)
<1> HIDE DEF a
<1>11. a \in Seq(Grids) /\ Len(a) <= Len(Images(r)) /\ Total(PatchCounts(a)) <= MaxPatches
  <2>1. Len(Images(r)) \in Nat
    BY <1>1, ImagesAre
  <2> QED BY <1>3, <1>9, <1>10, <2>1 DEF a
<1>12. g = [stage |-> "next", grids |-> a]
  BY DEF a
<1> HIDE DEF g
<1>13. g \in [stage : Stages, grids : Seq(Grids)] /\ g.stage = "next" /\ g.grids = a
  BY <1>11, <1>12 DEF Stages
<1>14. Fits(r, g)
  BY <1>11, <1>13 DEF Fits, Holding
<1>15. \A q \in Request : Fits(q, handler'[q])
  BY <1>5, <1>14 DEF EInv, HandlersFit
<1>16. HandlersFit'
  <2>1. \A q \in Request : Fits(q, handler[q])'
    BY <1>15 DEF Fits, Images
  <2> QED BY <1>5, <2>1 DEF HandlersFit
<1> QED BY <1>5, <1>16

(* A job adds a grid only for a handler that awaits it.                     *)
LEMMA JobEndsEInv ==
  ASSUME EInv, NEW j \in jobs, JobEnds(j) PROVE EInv'
<1> DEFINE r    == j.request
           grid == Preprocess(Images(r)[j.image].size, MaxPatches - Spent(r), Downscale)
<1>1. /\ jobs' = jobs \ {j} /\ pending' = pending /\ reply' = reply
      /\ \/ UNCHANGED handler
         \/ handler[r].stage = "job" /\ Goes(r, "answered")
         \/ /\ handler[r].stage = "job" /\ grid # Rejected
            /\ handler' = [handler EXCEPT ![r] = [stage |-> "next", grids |-> Append(@.grids, grid)]]
  BY DEF JobEnds, Attended
<1>2. r \in Request
  BY DEF EInv, JobsFit
<1> HIDE DEF r, grid
<1>3. HandlersFit' /\ PendingIsSubmitted'
  <2>1. CASE UNCHANGED handler
    BY <1>1, <2>1 DEF EInv, HandlersFit, PendingIsSubmitted, Fits, Images
  <2>2. CASE handler[r].stage = "job" /\ Goes(r, "answered")
    BY <1>1, <1>2, <2>2, HoldingMoves DEF Holding
  <2>3. CASE /\ handler[r].stage = "job" /\ grid # Rejected
             /\ handler' = [handler EXCEPT ![r] = [stage |-> "next", grids |-> Append(@.grids, grid)]]
    <3>1. HandlersFit' /\ \A q \in Request : q # r => handler'[q] = handler[q]
      BY <2>3, OneGridMore DEF r, grid
    <3>2. handler[r].stage # "submitted"
      BY <2>3
    <3> QED BY <1>1, <1>2, <3>1, <3>2, PendingStays DEF EInv
  <2> QED BY <1>1, <2>1, <2>2, <2>3
<1>4. JobsFit' /\ RepliesFit'
  BY <1>1 DEF EInv, JobsFit, RepliesFit, AcceptedIsEncodable, Images
<1> QED BY <1>3, <1>4 DEF EInv

(* A request is submitted with all its grids, and its prompt expanded.     *)
LEMMA SubmitEInv ==
  ASSUME EInv, NEW r \in Request, Submit(r) PROVE EInv'
<1>1. /\ handler[r].stage = "next" /\ Len(handler[r].grids) = Len(Images(r))
      /\ jobs' = jobs /\ reply' = reply
  BY DEF Submit
<1>2. JobsFit' /\ RepliesFit'
  BY <1>1 DEF EInv, JobsFit, RepliesFit, AcceptedIsEncodable, Images
<1>3. CASE Goes(r, "answered") /\ pending' = pending
  <2>1. HandlersFit' /\ \A q \in Request : q # r => handler'[q] = handler[q]
    BY <1>3, FitsMoves DEF EInv, Stages, Holding
  <2>2. PendingIsSubmitted'
    BY <1>1, <1>3, <2>1, PendingStays DEF EInv
  <2> QED BY <1>2, <2>1, <2>2 DEF EInv
<1>4. CASE Submitted(r) # Rejected /\ Goes(r, "submitted") /\ pending' = Append(pending, r)
  <2>1. Images(r) # <<>> => Expand(Content[r].tokens, handler[r].grids) # Rejected
    BY <1>4 DEF Submitted
  <2>2. /\ HandlersFit' /\ handler'[r].stage = "submitted"
        /\ \A q \in Request : q # r => handler'[q] = handler[q]
    BY <1>1, <1>4, <2>1, FitsMoves DEF EInv, Stages, Holding
  <2>3. pending \in Seq(Request) /\ \A i \in 1 .. Len(pending) : handler[pending[i]].stage = "submitted"
    BY DEF EInv, PendingIsSubmitted
  <2>4. /\ pending' \in Seq(Request) /\ Len(pending') = Len(pending) + 1 /\ Len(pending) \in Nat
        /\ pending'[Len(pending) + 1] = r
        /\ \A i \in 1 .. Len(pending) : pending'[i] = pending[i] /\ pending[i] \in Request
    BY <1>4, <2>3
  <2>5. ASSUME NEW i \in 1 .. Len(pending') PROVE handler'[pending'[i]].stage = "submitted"
    <3>1. CASE i = Len(pending) + 1
      BY <2>2, <2>4, <3>1
    <3>2. CASE i # Len(pending) + 1
      <4>1. i \in 1 .. Len(pending)
        BY <2>4, <3>2
      <4>2. handler[pending[i]].stage = "submitted" /\ pending[i] # r
        BY <1>1, <2>3, <4>1
      <4> QED BY <2>2, <2>4, <4>1, <4>2
    <3> QED BY <3>1, <3>2
  <2> QED BY <1>2, <2>2, <2>4, <2>5 DEF EInv, PendingIsSubmitted
<1> QED BY <1>3, <1>4 DEF Submit

(* So the engine encodes whatever it finds in its queue.                   *)
LEMMA QueuedIsEncodable ==
  ASSUME EInv, NEW r \in Request, handler[r].stage = "submitted"
  PROVE  ~Unencodable(r, Submitted(r))
<1> DEFINE grids == handler[r].grids
           T     == Content[r].tokens
<1>1. Fits(r, handler[r])
  BY DEF EInv, HandlersFit
<1>2. /\ grids \in Seq(Grids) /\ Len(grids) = Len(Images(r))
      /\ Images(r) # <<>> => Expand(T, grids) # Rejected
      /\ Spent(r) <= MaxPatches
  BY <1>1 DEF Fits, Spent, PatchCounts
<1>3. ASSUME Images(r) # <<>> PROVE ~Mismatched(Expand(T, grids), grids)
  <2>1. Len(grids) # 0
    BY <1>2, <1>3, ImagesAre
  <2>2. grids # <<>>
    BY <2>1
  <2>3. T \in Seq(ToSet(T)) /\
        (PadsBefore(T, Len(T)) = Len(Images(r)) =>
           \A i \in 2 .. Len(T) : T[i] # Pad \/ T[i - 1] # Pad)
    BY ImageRequestsAssumption DEF Sound, Images
  <2>4. PadsBefore(T, Len(T)) = Len(grids)
    BY <1>2, <1>3 DEF Expand
  <2> HIDE DEF T, grids
  <2> QED BY <1>2, <1>3, <2>2, <2>3, <2>4, ExpandedMatches
<1>4. Spent(r) \in Int
  <2>1. Grid(0, 0) \in Grids
    BY DEF Grids
  <2>2. Total(PatchCounts(grids)) \in Int
    BY <1>2, <2>1, PatchesSpent
  <2> QED BY <2>2 DEF Spent, PatchCounts
<1> QED BY <1>2, <1>3, <1>4, ImageRequestsAssumption DEF Unencodable, Submitted

(* The engine refuses nothing it takes from its queue.                      *)
LEMMA EngineAdmitsEInv ==
  ASSUME EInv, EngineAdmits PROVE EInv'
<1>1. /\ pending # <<>> /\ pending' = Tail(pending) /\ UNCHANGED <<handler, jobs>>
      /\ IF Unencodable(Head(pending), Submitted(Head(pending)))
         THEN reply' = [reply EXCEPT ![Head(pending)] = "refused"] ELSE reply' = reply
  BY DEF EngineAdmits
<1>2. /\ pending \in Seq(Request)
      /\ \A i \in 1 .. Len(pending) : handler[pending[i]].stage = "submitted"
  BY DEF EInv, PendingIsSubmitted
<1>3. /\ Head(pending) \in Request /\ handler[Head(pending)].stage = "submitted"
      /\ pending' \in Seq(Request)
      /\ \A i \in 1 .. Len(pending') : handler[pending'[i]].stage = "submitted"
  <2>1. /\ Head(pending) = pending[1] /\ 1 \in 1 .. Len(pending) /\ Head(pending) \in Request
        /\ pending' \in Seq(Request) /\ Len(pending') = Len(pending) - 1 /\ Len(pending) \in Nat
        /\ \A i \in 1 .. Len(pending') : pending'[i] = pending[i + 1]
    BY <1>1, <1>2
  <2>2. \A i \in 1 .. Len(pending') : i + 1 \in 1 .. Len(pending)
    BY <2>1
  <2> QED BY <1>2, <2>1, <2>2
<1>4. reply' = reply
  BY <1>1, <1>3, QueuedIsEncodable
<1>5. HandlersFit' /\ JobsFit' /\ RepliesFit'
  BY <1>1, <1>4 DEF EInv, HandlersFit, JobsFit, RepliesFit, AcceptedIsEncodable, Fits, Images
<1>6. PendingIsSubmitted'
  BY <1>1, <1>3 DEF PendingIsSubmitted
<1> QED BY <1>5, <1>6 DEF EInv

(* Nor does a step refuse anything.                                         *)
LEMMA EngineStepsEInv ==
  ASSUME EInv, EngineSteps PROVE EInv'
<1>1. UNCHANGED <<handler, jobs, pending>>
  BY DEF EngineSteps
<1>2. \A r \in Request : reply'[r] \in {"completed", reply[r]}
  <2>1. PICK taken \in {RowsOf} :
          LET Leaves(s) == taken[s] > 0 /\
                           Generated(active[s], taken[s]) >= Content[active[s].request].maxNew
          IN  reply' = [r \in Request |->
                          IF \E s \in DOMAIN active : Leaves(s) /\ active[s].request = r
                          THEN "completed" ELSE reply[r]]
    BY Zenon DEF EngineSteps
  <2> QED BY <2>1
<1>3. RepliesFit'
  <2>1. DOMAIN reply' = Request
    BY Zenon DEF EngineSteps
  <2> QED BY <1>2, <2>1 DEF EInv, RepliesFit, AcceptedIsEncodable
<1>4. HandlersFit' /\ JobsFit' /\ PendingIsSubmitted'
  BY <1>1 DEF EInv, HandlersFit, JobsFit, PendingIsSubmitted, Fits, Images
<1> QED BY <1>3, <1>4 DEF EInv

(* No step of a handler, a job or the engine breaks it.                     *)
LEMMA NextEInv == IInv /\ EInv /\ [Next]_vars => EInv'
<1> SUFFICES ASSUME IInv, EInv, [Next]_vars PROVE EInv'
  OBVIOUS
<1>1. ASSUME NEW r \in Request, Handles(r) \/ ReadBody(r) \/ Abandon(r) PROVE EInv'
  BY <1>1, NextImageEInv, SubmitEInv, ReadBodyEInv, AbandonEInv DEF Handles
<1>2. CASE UNCHANGED vars
  <2>1. UNCHANGED <<handler, jobs, pending, reply>>
    BY <1>2 DEF vars
  <2> QED BY <2>1 DEF EInv, HandlersFit, JobsFit, PendingIsSubmitted, RepliesFit,
                      AcceptedIsEncodable, Fits, Images
<1> QED BY <1>1, <1>2, GrantedEInv, JobEndsEInv, EngineAdmitsEInv, EngineStepsEInv DEF Next

(* The images of a request take no more patches than its budget.           *)
BudgetIsKept == \A r \in Request : Spent(r) <= MaxPatches

(* However jobs end, and whoever has given up, what a handler has spent    *)
(* never exceeds the budget: each image is fitted into what is left.       *)
THEOREM BudgetHolds == Spec => []BudgetIsKept
<1>1. EInv => BudgetIsKept
  BY DEF EInv, HandlersFit, Fits, BudgetIsKept, Spent, PatchCounts
<1> QED BY <1>1, InitIInv, NextIInv, InitEInv, NextEInv, PTL DEF Spec

(* So the vision tower and the prompt builder refuse nothing a handler has *)
(* let through: what expand_image_pads makes of any grids has, for each    *)
(* image, one group of as many pads as the image has merged tokens.        *)
THEOREM AcceptedAreEncodable == Spec => []AcceptedIsEncodable
<1>1. EInv => AcceptedIsEncodable
  BY DEF EInv, RepliesFit
<1> QED BY <1>1, InitIInv, NextIInv, InitEInv, NextEInv, PTL DEF Spec

(***************************************************************************)
(* The rows of the engine's steps                                          *)
(***************************************************************************)

(***************************************************************************)
(* The runs of an expanded prompt                                          *)
(***************************************************************************)

(* Where the elements of a concatenation come from.                        *)
LEMMA Joined ==
  ASSUME NEW V, NEW e \in Seq(V), NEW s \in Seq(V), NEW l, l = Len(e), NEW k, k = Len(s)
  PROVE  /\ e \o s \in Seq(V) /\ l \in Nat /\ k \in Nat /\ Len(e \o s) = l + k
         /\ \A i \in 1 .. l : (e \o s)[i] = e[i]
         /\ \A i \in l + 1 .. l + k : (e \o s)[i] = s[i - l] /\ i - l \in 1 .. k
<1>1. /\ e \o s \in Seq(V) /\ l \in Nat /\ k \in Nat /\ Len(e \o s) = l + k
      /\ \A i \in 1 .. l : (e \o s)[i] = e[i]
      /\ \A i \in 1 .. k : (e \o s)[l + i] = s[i]
  BY Concatenated
<1> DEFINE j == e \o s
<1> HIDE DEF j
<1>2. ASSUME NEW i \in l + 1 .. l + k PROVE j[i] = s[i - l] /\ i - l \in 1 .. k
  <2>1. i - l \in 1 .. k /\ l + (i - l) = i
    BY <1>1
  <2> QED BY <1>1, <2>1 DEF j
<1> QED BY <1>1, <1>2 DEF j

(* In e a run begins at each st[m], and nowhere else.                      *)
Begins(e, i) == i = 1 \/ ~(e[i] = Pad <=> e[i - 1] = Pad)

RunStarts(e, st) ==
  /\ st \in Seq(1 .. Len(e))
  /\ \A m, n \in 1 .. Len(st) : m < n => st[m] < st[n]
  /\ \A m \in 1 .. Len(st) : Begins(e, st[m])
  /\ \A i \in 1 .. Len(e) : Begins(e, i) => \E m \in 1 .. Len(st) : i = st[m]

Run == [image : BOOLEAN, first : Nat, count : Nat]

Past(e, st, n) == IF n < Len(st) THEN st[n + 1] ELSE Len(e) + 1

IsPad(e, i) == e[i] = Pad

RunBetween(e, from, to) == [image |-> IsPad(e, from), first |-> from, count |-> to - from]

RunAt(e, st, n) == RunBetween(e, st[n], Past(e, st, n))

RunsOf(e, st) == [n \in 1 .. Len(st) |-> RunAt(e, st, n)]

LEMMA RunsAre ==
  ASSUME NEW U, NEW e \in Seq(U), NEW st, RunStarts(e, st)
  PROVE  Runs(e) = RunsOf(e, st) /\ RunsOf(e, st) \in Seq(Run)
<1> DEFINE k == Len(st)
           S == {i \in DOMAIN e : i = 1 \/ (e[i] = Pad) # (e[i - 1] = Pad)}
<1>1. /\ k \in Nat /\ Len(e) \in Nat /\ DOMAIN e = 1 .. Len(e) /\ DOMAIN st = 1 .. k
      /\ st \in [1 .. k -> 1 .. Len(e)]
  BY DEF RunStarts
<1>2. S = {i \in 1 .. Len(e) : Begins(e, i)}
  BY <1>1 DEF Begins
<1> HIDE DEF S, k
<1>3. S = {st[m] : m \in 1 .. k}
  <2>1. ASSUME NEW i \in S PROVE \E m \in 1 .. k : i = st[m]
    BY <1>2, <2>1 DEF RunStarts, k
  <2>2. ASSUME NEW m \in 1 .. k PROVE st[m] \in S
    <3>1. st[m] \in 1 .. Len(e) /\ Begins(e, st[m])
      BY <1>1 DEF RunStarts, k
    <3> QED BY <1>2, <3>1
  <2> QED BY <2>1, <2>2
<1>4. Ascending(S) = st
  <2>1. st \in [1 .. k -> Int] /\ \A m \in 1 .. k : st[m] \in Int
    <3>1. 1 .. Len(e) \subseteq Int
      BY <1>1
    <3> QED BY <1>1, <3>1
  <2>2. \A m, n \in 1 .. k : m < n => st[m] < st[n]
    BY DEF RunStarts, k
  <2> QED BY <1>1, <1>3, <2>1, <2>2, AscendingIs
<1>5. Runs(e) = [n \in DOMAIN st |->
                  [image |-> e[st[n]] = Pad, first |-> st[n],
                   count |-> (IF n < Len(st) THEN st[n + 1] ELSE Len(e) + 1) - st[n]]]
  BY <1>4, Zenon DEF Runs, S
<1>6. Runs(e) = RunsOf(e, st)
  BY <1>1, <1>5 DEF RunsOf, RunAt, RunBetween, IsPad, Past, k
<1>7. ASSUME NEW n \in 1 .. k PROVE RunAt(e, st, n) \in Run
  <2>1. st[n] \in 1 .. Len(e) /\ (n < k => n + 1 \in 1 .. k /\ n < n + 1)
    BY <1>1
  <2>2. n < k => st[n + 1] \in 1 .. Len(e) /\ st[n] < st[n + 1]
    BY <1>1, <2>1 DEF RunStarts, k
  <2>3. Past(e, st, n) - st[n] \in Nat
    BY <1>1, <2>1, <2>2 DEF Past, k
  <2> QED BY <1>1, <2>1, <2>3 DEF RunAt, RunBetween, Run, IsPad
<1> DEFINE R == Run
<1> HIDE DEF R
<1>8. \A n \in 1 .. k : RunAt(e, st, n) \in R
  BY <1>7 DEF R
<1>9. RunsOf(e, st) \in Seq(R)
  BY <1>1, <1>8 DEF RunsOf, k
<1> QED BY <1>6, <1>9 DEF R

(* Tokens of another kind than the last one are one run more.              *)
LEMMA RunFollows ==
  ASSUME NEW U, NEW e \in Seq(U), NEW s \in Seq(U), Len(s) # 0,
         NEW image \in BOOLEAN, \A i \in 1 .. Len(s) : (s[i] = Pad) = image,
         NEW st, RunStarts(e, st),
         Len(e) = 0 \/ (e[Len(e)] = Pad) = ~image
  PROVE  LET t == Append(st, Len(e) + 1)
         IN  /\ RunStarts(e \o s, t)
             /\ RunsOf(e \o s, t) =
                  Append(RunsOf(e, st), [image |-> image, first |-> Len(e) + 1, count |-> Len(s)])
<1> DEFINE j == e \o s
           t == Append(st, Len(e) + 1)
           l == Len(e)
           k == Len(st)
<1>1. /\ Len(j) = l + Len(s) /\ l \in Nat /\ Len(s) \in Nat \ {0}
      /\ \A i \in 1 .. l : j[i] = e[i]
      /\ \A i \in l + 1 .. Len(j) : (j[i] = Pad) = image
  <2> DEFINE c == Len(s)
  <2>1. /\ l \in Nat /\ c \in Nat /\ Len(j) = l + c
        /\ \A i \in 1 .. l : j[i] = e[i]
        /\ \A i \in l + 1 .. l + c : j[i] = s[i - l] /\ i - l \in 1 .. c
    BY Joined
  <2> QED BY <2>1
<1> HIDE DEF j
<1>2. st \in Seq(1 .. l) /\ k \in Nat /\ \A m \in 1 .. k : st[m] \in 1 .. l
  BY SMTT(40) DEF RunStarts
<1>3. /\ t \in Seq(1 .. l + 1) /\ Len(t) = k + 1 /\ t[k + 1] = l + 1
      /\ \A m \in 1 .. k : t[m] = st[m]
  <2>1. st \in Seq(1 .. l + 1) /\ l + 1 \in 1 .. l + 1
    <3>1. 1 .. l \subseteq 1 .. l + 1
      BY <1>1
    <3> QED BY <1>1, <1>2, <3>1
  <2> QED BY <2>1
<1> HIDE DEF t
<1>4. t \in Seq(1 .. Len(j))
  <2> DEFINE A == 1 .. l + 1
             B == 1 .. Len(j)
  <2>1. A \subseteq B
    BY <1>1
  <2>2. t \in Seq(A)
    BY <1>3
  <2> HIDE DEF A, B
  <2>3. t \in Seq(B)
    BY <2>1, <2>2, SeqWidens
  <2> QED BY <2>3 DEF B
<1>5. \A i \in 1 .. l : Begins(j, i) <=> Begins(e, i)
  <2> TAKE i \in 1 .. l
  <2>1. i = 1 \/ i - 1 \in 1 .. l
    BY <1>1
  <2> QED BY <1>1, <2>1 DEF Begins
<1>6. Begins(j, l + 1)
  <2>1. l + 1 \in l + 1 .. Len(j) /\ (l + 1) - 1 = l /\ (l = 0 \/ l \in 1 .. l)
    BY <1>1
  <2>2. (j[l + 1] = Pad) = image
    BY <1>1, <2>1
  <2>3. l # 0 => j[l] = e[l] /\ (e[l] = Pad) = ~image
    BY <1>1, <2>1
  <2> QED BY <2>1, <2>2, <2>3 DEF Begins
<1>7. ASSUME NEW m \in 1 .. Len(t) PROVE Begins(j, t[m])
  <2>1. m \in 1 .. k \/ m = k + 1
    BY <1>2, <1>3
  <2>2. CASE m \in 1 .. k
    <3>1. Begins(e, st[m])
      BY <2>2 DEF RunStarts
    <3> QED BY <1>2, <1>3, <1>5, <2>2, <3>1
  <2> QED BY <1>3, <1>6, <2>1, <2>2
<1>8. ASSUME NEW i \in 1 .. Len(j), Begins(j, i) PROVE \E m \in 1 .. Len(t) : i = t[m]
  <2>1. CASE i \in 1 .. l
    <3>1. PICK m \in 1 .. k : i = st[m]
      BY <1>5, <1>8, <2>1 DEF RunStarts
    <3>2. m \in 1 .. Len(t) /\ t[m] = i
      BY <1>2, <1>3, <3>1
    <3> QED BY <3>2
  <2>2. CASE i = l + 1
    <3>1. k + 1 \in 1 .. Len(t)
      BY <1>2, <1>3
    <3> QED BY <1>3, <2>2, <3>1
  <2>3. CASE i \notin 1 .. l /\ i # l + 1
    <3>1. i # 1 /\ i - 1 \in l + 1 .. Len(j) /\ i \in l + 1 .. Len(j)
      BY <1>1, <2>3
    <3>2. (j[i] = Pad) = image /\ (j[i - 1] = Pad) = image
      BY <1>1, <3>1
    <3> QED BY <1>8, <3>1, <3>2 DEF Begins
  <2> QED BY <2>1, <2>2, <2>3
<1>9. ASSUME NEW m \in 1 .. Len(t), NEW n \in 1 .. Len(t), m < n PROVE t[m] < t[n]
  <2>1. m \in 1 .. k
    BY <1>2, <1>3, <1>9
  <2>2. CASE n \in 1 .. k
    BY <1>3, <1>9, <2>1, <2>2 DEF RunStarts
  <2>3. CASE n \notin 1 .. k
    <3>1. n = k + 1
      BY <1>2, <1>3, <2>3
    <3>2. t[m] \in 1 .. l /\ t[n] = l + 1
      BY <1>2, <1>3, <2>1, <3>1
    <3> QED BY <1>1, <3>2
  <2> QED BY <2>2, <2>3
<1>10. RunStarts(j, t)
  BY <1>4, <1>7, <1>8, <1>9 DEF RunStarts
<1> DEFINE run == [image |-> image, first |-> l + 1, count |-> Len(s)]
           old == RunsOf(e, st)
<1>11. old \in Seq(Run) /\ Len(old) = k /\ \A n \in 1 .. k : old[n] = RunAt(e, st, n)
  <2>1. old \in Seq(Run)
    BY RunsAre
  <2>2. DOMAIN old = 1 .. k /\ \A n \in 1 .. k : old[n] = RunAt(e, st, n)
    BY DEF RunsOf
  <2>3. DOMAIN old = 1 .. Len(old) /\ Len(old) \in Nat
    <3> DEFINE R == Run
    <3> HIDE DEF R, old
    <3>1. old \in Seq(R)
      BY <2>1 DEF R
    <3> QED BY <3>1
  <2>4. Len(old) = k
    <3> HIDE DEF old
    <3> QED BY <1>2, <2>2, <2>3
  <2> QED BY <2>1, <2>2, <2>4
<1>12. ASSUME NEW n \in 1 .. k PROVE RunAt(j, t, n) = RunAt(e, st, n)
  <2>0. st[n] \in 1 .. l
    BY <1>2
  <2>1. t[n] = st[n] /\ j[st[n]] = e[st[n]] /\ n < Len(t)
    <3>1. n < Len(t)
      BY <1>2, <1>3
    <3> QED BY <1>1, <1>3, <2>0, <3>1
  <2>2. t[n + 1] = IF n < k THEN st[n + 1] ELSE l + 1
    <3>1. n < k => n + 1 \in 1 .. k
      BY <1>2
    <3>2. ~(n < k) => n + 1 = k + 1
      BY <1>2
    <3> QED BY <1>3, <3>1, <3>2
  <2>3. Past(j, t, n) = Past(e, st, n)
    BY <2>1, <2>2 DEF Past
  <2> QED BY <2>1, <2>3, Zenon DEF RunAt, RunBetween, IsPad
<1>13. RunAt(j, t, k + 1) = run
  <2>1. t[k + 1] = l + 1 /\ ~(k + 1 < Len(t)) /\ l + 1 \in l + 1 .. Len(j)
    BY <1>1, <1>2, <1>3
  <2>2. (j[l + 1] = Pad) = image
    BY <1>1, <2>1
  <2>3. Len(j) + 1 - (l + 1) = Len(s)
    BY <1>1
  <2>4. RunAt(j, t, k + 1) = RunBetween(j, l + 1, Len(j) + 1)
    BY <2>1 DEF RunAt, Past
  <2>5. RunBetween(j, l + 1, Len(j) + 1) = run
    <3>1. IsPad(j, l + 1) = image
      BY <2>2 DEF IsPad
    <3> QED BY <2>3, <3>1 DEF RunBetween
  <2> QED BY <2>4, <2>5
<1>14. RunsOf(j, t) = Append(old, run)
  <2>1. run \in Run
    BY <1>1 DEF Run
  <2> HIDE DEF old, run
  <2>2. Append(old, run) = [i \in 1 .. Len(old) + 1 |-> IF i = Len(old) + 1 THEN run ELSE old[i]]
    BY <1>11, <2>1, AppendIs
  <2>3. ASSUME NEW i \in 1 .. k + 1 PROVE RunAt(j, t, i) = IF i = k + 1 THEN run ELSE old[i]
    <3>1. i \in 1 .. k \/ i = k + 1
      BY <1>2
    <3>2. i \in 1 .. k => i # k + 1
      BY <1>2
    <3> QED BY <1>11, <1>12, <1>13, <3>1, <3>2
  <2> QED BY <1>3, <1>11, <2>2, <2>3 DEF RunsOf
<1> QED BY <1>10, <1>14 DEF j, t

(* A token after another that is no pad prolongs the run of that one.      *)
LEMMA RunGrows ==
  ASSUME NEW U, NEW e \in Seq(U), Len(e) # 0, e[Len(e)] # Pad, NEW v \in U, v # Pad,
         NEW st, RunStarts(e, st)
  PROVE  /\ RunStarts(e \o <<v>>, st) /\ Len(st) \in Nat \ {0}
         /\ \A n \in 1 .. Len(st) :
              RunAt(e \o <<v>>, st, n) =
                IF n = Len(st) THEN [RunAt(e, st, n) EXCEPT !.count = @ + 1] ELSE RunAt(e, st, n)
<1> DEFINE j == e \o <<v>>
           l == Len(e)
           k == Len(st)
<1>1. /\ Len(j) = l + 1 /\ l \in Nat /\ l # 0
      /\ \A i \in 1 .. l : j[i] = e[i]
      /\ j[l + 1] # Pad
  BY OneMore
<1> HIDE DEF j
<1>2. st \in Seq(1 .. l) /\ k \in Nat /\ \A m \in 1 .. k : st[m] \in 1 .. l
  BY SMTT(40) DEF RunStarts
<1>3. st \in Seq(1 .. Len(j))
  <2>1. 1 .. l \subseteq 1 .. Len(j)
    BY <1>1
  <2> QED BY <1>2, <2>1, SeqWidens
<1>4. \A i \in 1 .. l : Begins(j, i) <=> Begins(e, i)
  <2> TAKE i \in 1 .. l
  <2>1. i = 1 \/ i - 1 \in 1 .. l
    BY <1>1
  <2> QED BY <1>1, <2>1 DEF Begins
<1>5. ~Begins(j, l + 1)
  <2>1. l + 1 # 1 /\ (l + 1) - 1 = l /\ l \in 1 .. l
    BY <1>1
  <2> QED BY <1>1, <2>1 DEF Begins
<1>6. k # 0
  <2>1. 1 \in 1 .. l /\ Begins(e, 1)
    BY <1>1 DEF Begins
  <2>2. PICK m \in 1 .. k : 1 = st[m]
    BY <2>1 DEF RunStarts
  <2> QED BY <1>2, <2>2
<1>7. ASSUME NEW i \in 1 .. Len(j), Begins(j, i) PROVE \E m \in 1 .. Len(st) : i = st[m]
  <2>1. i \in 1 .. l
    <3>1. i \in 1 .. l \/ i = l + 1
      BY <1>1
    <3> QED BY <1>5, <1>7, <3>1
  <2> QED BY <1>4, <1>7, <2>1 DEF RunStarts
<1>8. \A m \in 1 .. Len(st) : Begins(j, st[m])
  BY <1>2, <1>4 DEF RunStarts
<1>9. RunStarts(j, st)
  BY <1>3, <1>7, <1>8 DEF RunStarts
<1>10. ASSUME NEW n \in 1 .. k
       PROVE  RunAt(j, st, n) =
                IF n = Len(st) THEN [RunAt(e, st, n) EXCEPT !.count = @ + 1] ELSE RunAt(e, st, n)
  <2>1. j[st[n]] = e[st[n]] /\ st[n] \in Nat
    BY <1>1, <1>2
  <2>2. CASE n = k
    <3>1. (Len(j) + 1) - st[n] = ((l + 1) - st[n]) + 1
      BY <1>1, <2>1
    <3>2. ~(n < Len(st))
      BY <1>2, <2>2
    <3>3. RunAt(j, st, n) = RunBetween(j, st[n], Len(j) + 1)
      BY <3>2 DEF RunAt, Past
    <3>4. RunAt(e, st, n) = RunBetween(e, st[n], l + 1)
      BY <3>2 DEF RunAt, Past
    <3>5. [RunBetween(e, st[n], l + 1) EXCEPT !.count = @ + 1] = RunBetween(j, st[n], Len(j) + 1)
      <4> DEFINE b == IsPad(e, st[n])
                 c == (l + 1) - st[n]
                 f == st[n]
      <4>0. c \in Int /\ c + 1 = (Len(j) + 1) - st[n]
        BY <1>1, <2>1, <3>1
      <4>1. RunBetween(e, st[n], l + 1) = [image |-> b, first |-> f, count |-> c]
        BY Zenon DEF RunBetween
      <4>2. RunBetween(j, st[n], Len(j) + 1) = [image |-> b, first |-> f, count |-> c + 1]
        <5>1. IsPad(j, st[n]) = b
          BY <2>1, Zenon DEF IsPad
        <5> HIDE DEF b, c
        <5>2. RunBetween(j, st[n], Len(j) + 1) = [image |-> b, first |-> st[n], count |-> c + 1]
          BY <4>0, <5>1, Zenon DEF RunBetween
        <5> QED BY <5>2
      <4> HIDE DEF b, c, f
      <4>3. [RunBetween(e, st[n], l + 1) EXCEPT !.count = @ + 1] = [image |-> b, first |-> f, count |-> c + 1]
        BY <4>1
      <4> QED BY <4>2, <4>3
    <3> QED BY <2>2, <3>3, <3>4, <3>5
  <2>3. CASE n # k
    <3>1. n < Len(st)
      BY <1>2, <2>3
    <3>2. Past(j, st, n) = Past(e, st, n)
      BY <3>1 DEF Past
    <3>3. RunAt(j, st, n) = RunAt(e, st, n)
      BY <2>1, <3>2, Zenon DEF RunAt, RunBetween, IsPad
    <3> QED BY <2>3, <3>3
  <2> QED BY <2>2, <2>3
<1> QED BY <1>2, <1>6, <1>9, <1>10 DEF j

(***************************************************************************)
(* The positions of a row of runs                                          *)
(***************************************************************************)

Place == Nat \X Nat \X Nat

ImagesIn(runs, n) == Cardinality({m \in 1 .. n : runs[m].image})

GridOf(runs, grids, n) == grids[ImagesIn(runs, n)]

TakenBy(runs, grids, n) ==
  IF runs[n].image THEN Advance(GridOf(runs, grids, n)) ELSE runs[n].count

Before(runs, grids, n) == Total([m \in 1 .. n - 1 |-> TakenBy(runs, grids, m)])

Reach(runs, grids) == Total([m \in 1 .. Len(runs) |-> TakenBy(runs, grids, m)])

PlaceOf(image, grid, base, k) ==
  IF ~image THEN Everywhere(base + k)
  ELSE <<base + (k \div ((grid[2] \div MergeSize) * (grid[3] \div MergeSize))),
         base + ((k \div (grid[3] \div MergeSize)) % (grid[2] \div MergeSize)),
         base + (k % (grid[3] \div MergeSize))>>

PlacesOf(image, grid, base, count) == [k \in 1 .. count |-> PlaceOf(image, grid, base, k - 1)]

RunPlaces(runs, grids, n) ==
  PlacesOf(runs[n].image, GridOf(runs, grids, n), Before(runs, grids, n), runs[n].count)

PosFrom(runs, grids) == FlattenSeq([n \in DOMAIN runs |-> RunPlaces(runs, grids, n)])

(* Positions, from the runs of its tokens.                                 *)
LEMMA PositionsAre ==
  ASSUME NEW tokens, NEW grids
  PROVE  Positions(tokens, grids) = PosFrom(Runs(tokens), grids)
<1> DEFINE runs == Runs(tokens)
           current == [n \in DOMAIN runs |-> Total([m \in 1 .. n - 1 |->
                         IF runs[m].image THEN Advance(grids[Cardinality({i \in 1 .. m : runs[i].image})])
                         ELSE runs[m].count])]
           grid(n) == grids[Cardinality({m \in 1 .. n : runs[m].image})]
           token(n, k) == IF ~runs[n].image THEN Everywhere(current[n] + k)
                          ELSE <<current[n] + (k \div ((grid(n)[2] \div MergeSize) * (grid(n)[3] \div MergeSize))),
                                 current[n] + ((k \div (grid(n)[3] \div MergeSize)) % (grid(n)[2] \div MergeSize)),
                                 current[n] + (k % (grid(n)[3] \div MergeSize))>>
<1>1. Positions(tokens, grids) =
        FlattenSeq([n \in DOMAIN runs |-> [k \in 1 .. runs[n].count |-> token(n, k - 1)]])
  BY DEF Positions
<1>2. \A n \in DOMAIN runs : current[n] = Before(runs, grids, n)
  BY DEF Before, TakenBy, GridOf, ImagesIn
<1>3. \A n : grid(n) = GridOf(runs, grids, n)
  BY DEF GridOf, ImagesIn
<1> HIDE DEF runs, current, grid
<1>4. ASSUME NEW n \in DOMAIN runs
      PROVE  [k \in 1 .. runs[n].count |-> token(n, k - 1)] = RunPlaces(runs, grids, n)
  BY <1>2, <1>3, Zenon DEF RunPlaces, PlacesOf, PlaceOf
<1> HIDE DEF token
<1>5. [n \in DOMAIN runs |-> [k \in 1 .. runs[n].count |-> token(n, k - 1)]]
        = [n \in DOMAIN runs |-> RunPlaces(runs, grids, n)]
  BY <1>4
<1> QED BY <1>1, <1>5 DEF PosFrom, runs

(* Runs of which each takes a number of positions and gives places.        *)
Laid(runs, grids) ==
  /\ runs \in Seq(Run)
  /\ \A n \in 1 .. Len(runs) :
        TakenBy(runs, grids, n) \in Nat /\ RunPlaces(runs, grids, n) \in Seq(Place)

(* A function of 1 .. n + 1 is one of 1 .. n and its last value.           *)
Table(x, n) == x = [i \in 1 .. n |-> x[i]]

Prolongs(S, n, x, v, y) ==
  /\ n \in Nat /\ Table(x, n) /\ Table(y, n + 1)
  /\ \A i \in 1 .. n : x[i] \in S /\ y[i] = x[i]
  /\ v \in S /\ y[n + 1] = v

LEMMA MappedAppend ==
  ASSUME NEW S, NEW n, NEW x, NEW v, NEW y, Prolongs(S, n, x, v, y)
  PROVE  x \in Seq(S) /\ Len(x) = n /\ y = Append(x, v)
<1> USE DEF Prolongs
<1>1. x \in Seq(S) /\ Len(x) = n
  <2> DEFINE z == [i \in 1 .. n |-> x[i]]
  <2>1. z \in Seq(S) /\ Len(z) = n
    OBVIOUS
  <2>2. x = z
    BY DEF Table
  <2> HIDE DEF z
  <2> QED BY <2>1, <2>2
<1>2. Append(x, v) = [i \in 1 .. n + 1 |-> IF i = n + 1 THEN v ELSE x[i]]
  BY <1>1, AppendIs
<1>3. ASSUME NEW i \in 1 .. n + 1 PROVE y[i] = IF i = n + 1 THEN v ELSE x[i]
  <2>1. i \in 1 .. n \/ i = n + 1
    OBVIOUS
  <2>2. i \in 1 .. n => i # n + 1
    OBVIOUS
  <2> QED BY <2>1, <2>2
<1>4. [i \in 1 .. n + 1 |-> y[i]] = [i \in 1 .. n + 1 |-> IF i = n + 1 THEN v ELSE x[i]]
  BY <1>3
<1> QED BY <1>1, <1>2, <1>4, Zenon DEF Table

(* The images among one run more.                                          *)
LEMMA ImagesStep ==
  ASSUME NEW runs, NEW n \in Nat
  PROVE  /\ ImagesIn(runs, n) \in Nat
         /\ ImagesIn(runs, n + 1) = ImagesIn(runs, n) + (IF runs[n + 1].image THEN 1 ELSE 0)
<1> DEFINE P(k) == {m \in 1 .. k : runs[m].image}
<1>1. IsFiniteSet(P(n)) /\ Cardinality(P(n)) \in Nat
  <2>1. IsFiniteSet(1 .. n)
    BY FS_Interval
  <2> QED BY <2>1, FS_Subset, FS_CardinalityType
<1>2. n + 1 \notin P(n) /\ P(n + 1) = IF runs[n + 1].image THEN P(n) \cup {n + 1} ELSE P(n)
  OBVIOUS
<1>3. \A k : ImagesIn(runs, k) = Cardinality(P(k))
  BY DEF ImagesIn
<1> HIDE DEF P
<1>4. Cardinality(P(n) \cup {n + 1}) = Cardinality(P(n)) + 1
  BY <1>1, <1>2, FS_AddElement
<1> QED BY <1>1, <1>2, <1>3, <1>4

(* One run more adds its places, and moves the reach by what it takes.     *)
Adds(runs, grids, run, images, take, places) ==
  /\ Laid(runs, grids) /\ run \in Run
  /\ images = ImagesIn(runs, Len(runs)) + (IF run.image THEN 1 ELSE 0)
  /\ take \in Nat /\ take = IF run.image THEN Advance(grids[images]) ELSE run.count
  /\ places \in Seq(Place)
  /\ places = PlacesOf(run.image, grids[images], Reach(runs, grids), run.count)

Added(runs, grids, run, images, take, places) ==
  /\ Laid(Append(runs, run), grids)
  /\ ImagesIn(Append(runs, run), Len(Append(runs, run))) = images
  /\ Reach(runs, grids) \in Int
  /\ Reach(Append(runs, run), grids) = Reach(runs, grids) + take
  /\ PosFrom(runs, grids) \in Seq(Place)
  /\ PosFrom(Append(runs, run), grids) = PosFrom(runs, grids) \o places

LEMMA PosAppend ==
  ASSUME NEW runs, NEW grids, NEW run, NEW images, NEW take, NEW places,
         Adds(runs, grids, run, images, take, places)
  PROVE  Added(runs, grids, run, images, take, places)
<1> USE DEF Adds
<1> DEFINE n == Len(runs)
           t == Append(runs, run)
<1>1. /\ n \in Nat /\ t \in Seq(Run) /\ Len(t) = n + 1 /\ t[n + 1] = run
      /\ DOMAIN t = 1 .. n + 1 /\ DOMAIN runs = 1 .. n
      /\ \A i \in 1 .. n : t[i] = runs[i]
  <2> DEFINE R == Run
  <2> HIDE DEF R
  <2>1. runs \in Seq(R) /\ run \in R
    BY DEF Laid, R
  <2>2. /\ n \in Nat /\ t \in Seq(R) /\ Len(t) = n + 1 /\ t[n + 1] = run
        /\ DOMAIN t = 1 .. n + 1 /\ DOMAIN runs = 1 .. n
        /\ \A i \in 1 .. n : t[i] = runs[i]
    BY <2>1
  <2> QED BY <2>2 DEF R
<1> HIDE DEF n, t
<1>2. ASSUME NEW i \in 1 .. n
      PROVE  /\ GridOf(t, grids, i) = GridOf(runs, grids, i)
             /\ TakenBy(t, grids, i) = TakenBy(runs, grids, i)
  <2>1. {m \in 1 .. i : t[m].image} = {m \in 1 .. i : runs[m].image}
    <3>1. 1 .. i \subseteq 1 .. n
      BY <1>1
    <3> QED BY <1>1, <3>1
  <2>2. GridOf(t, grids, i) = GridOf(runs, grids, i)
    BY <2>1, Zenon DEF GridOf, ImagesIn
  <2> QED BY <1>1, <2>2, Zenon DEF TakenBy
<1>3. ImagesIn(t, n + 1) = images
  <2>1. {m \in 1 .. n : t[m].image} = {m \in 1 .. n : runs[m].image}
    BY <1>1
  <2>2. ImagesIn(t, n) = ImagesIn(runs, n)
    BY <2>1, Zenon DEF ImagesIn
  <2>3. ImagesIn(t, n + 1) = ImagesIn(t, n) + (IF t[n + 1].image THEN 1 ELSE 0)
    BY <1>1, ImagesStep
  <2> QED BY <1>1, <2>2, <2>3 DEF n
<1>4. GridOf(t, grids, n + 1) = grids[images] /\ TakenBy(t, grids, n + 1) = take
  BY <1>1, <1>3, Zenon DEF GridOf, TakenBy
<1>5. ASSUME NEW i \in 1 .. n + 1
      PROVE  [m \in 1 .. i - 1 |-> TakenBy(t, grids, m)] = [m \in 1 .. i - 1 |-> TakenBy(runs, grids, m)]
  <2>1. 1 .. i - 1 \subseteq 1 .. n
    BY <1>1
  <2> QED BY <1>2, <2>1
<1>6. \A i \in 1 .. n + 1 : Before(t, grids, i) = Before(runs, grids, i)
  BY <1>5, Zenon DEF Before
<1>7. Before(t, grids, n + 1) = Reach(runs, grids)
  <2>1. n + 1 \in 1 .. n + 1 /\ (n + 1) - 1 = n
    BY <1>1
  <2> QED BY <1>6, <2>1 DEF Before, Reach, n
<1>8. \A i \in 1 .. n : RunPlaces(t, grids, i) = RunPlaces(runs, grids, i)
  <2> TAKE i \in 1 .. n
  <2>1. i \in 1 .. n + 1
    BY <1>1
  <2> QED BY <1>1, <1>2, <1>6, <2>1, Zenon DEF RunPlaces
<1>9. RunPlaces(t, grids, n + 1) = places
  BY <1>1, <1>4, <1>7, Zenon DEF RunPlaces
<1>10. \A i \in 1 .. n : TakenBy(runs, grids, i) \in Nat /\ RunPlaces(runs, grids, i) \in Seq(Place)
  BY DEF Laid, n
<1>11. Laid(t, grids)
  <2>1. ASSUME NEW i \in 1 .. n + 1
        PROVE  TakenBy(t, grids, i) \in Nat /\ RunPlaces(t, grids, i) \in Seq(Place)
    <3>1. i \in 1 .. n \/ i = n + 1
      BY <1>1
    <3>2. CASE i \in 1 .. n
      BY <1>2, <1>8, <1>10, <3>2, Zenon
    <3>3. CASE i = n + 1
      BY <1>4, <1>9, <3>3, Zenon
    <3> QED BY <3>1, <3>2, <3>3
  <2> QED BY <1>1, <2>1, Zenon DEF Laid
<1>12. Reach(runs, grids) \in Int /\ Reach(t, grids) = Reach(runs, grids) + take
  <2> DEFINE x == [m \in 1 .. n |-> TakenBy(runs, grids, m)]
             y == [m \in 1 .. n + 1 |-> TakenBy(t, grids, m)]
  <2>1. Table(x, n) /\ \A m \in 1 .. n : x[m] \in Int
    BY <1>10 DEF Table
  <2>2. Table(y, n + 1) /\ (\A m \in 1 .. n : y[m] = x[m]) /\ y[n + 1] = take
    <3>1. n + 1 \in 1 .. n + 1 /\ \A m \in 1 .. n : m \in 1 .. n + 1
      BY <1>1
    <3> QED BY <1>2, <1>4, <3>1 DEF Table
  <2>3. Reach(runs, grids) = Total(x) /\ Reach(t, grids) = Total(y)
    BY <1>1 DEF Reach, n
  <2> HIDE DEF x, y
  <2>4. take \in Int
    OBVIOUS
  <2>5. x \in Seq(Int) /\ y = Append(x, take)
    <3>1. Prolongs(Int, n, x, take, y)
      BY <1>1, <2>1, <2>2, <2>4, Zenon DEF Prolongs
    <3> QED BY <3>1, MappedAppend
  <2> QED BY <2>3, <2>4, <2>5, TotalAppend
<1>13. PosFrom(runs, grids) \in Seq(Place) /\ PosFrom(t, grids) = PosFrom(runs, grids) \o places
  <2> DEFINE x == [m \in 1 .. n |-> RunPlaces(runs, grids, m)]
             y == [m \in 1 .. n + 1 |-> RunPlaces(t, grids, m)]
             W == Seq(Place)
  <2>1. Table(x, n) /\ \A m \in 1 .. n : x[m] \in W
    BY <1>10 DEF Table
  <2>2. Table(y, n + 1) /\ (\A m \in 1 .. n : y[m] = x[m]) /\ y[n + 1] = places
    <3>1. n + 1 \in 1 .. n + 1 /\ \A m \in 1 .. n : m \in 1 .. n + 1
      BY <1>1
    <3> QED BY <1>8, <1>9, <3>1 DEF Table
  <2>3. PosFrom(runs, grids) = FlattenSeq(x) /\ PosFrom(t, grids) = FlattenSeq(y)
    BY <1>1 DEF PosFrom
  <2>4. places \in W
    OBVIOUS
  <2> HIDE DEF x, y, W
  <2>5. x \in Seq(W) /\ y = Append(x, places)
    <3>1. Prolongs(W, n, x, places, y)
      BY <1>1, <2>1, <2>2, <2>4, Zenon DEF Prolongs
    <3> QED BY <3>1, MappedAppend
  <2>6. x \in Seq(Seq(Place))
    BY <2>5 DEF W
  <2>7. FlattenSeq(x) \in Seq(Place) /\ FlattenSeq(Append(x, places)) = FlattenSeq(x) \o places
    BY <2>6, FlattenAppend
  <2> QED BY <2>3, <2>5, <2>7
<1>14. ImagesIn(t, Len(t)) = images
  BY <1>1, <1>3
<1> QED BY <1>11, <1>12, <1>13, <1>14 DEF t, Added

(***************************************************************************)
(* The positions of an image's tokens, and the next position               *)
(***************************************************************************)

(* The greatest element of a set of integers is what Max returns.          *)
LEMMA MaxIs ==
  ASSUME NEW S \in SUBSET Int, NEW x \in S, \A y \in S : y <= x
  PROVE  Max(S) = x
<1> DEFINE m == Max(S)
<1>1. m \in S /\ \A y \in S : m >= y
  <2>1. \A y \in S : x >= y
    OBVIOUS
  <2> QED BY <2>1 DEF Max
<1> HIDE DEF m
<1>2. m \in Int /\ x \in Int /\ m >= x /\ m <= x
  BY <1>1
<1> QED BY <1>2 DEF m

(* The k-th token of an image of h by w, for k below h * w.                *)
LEMMA OnItsGrid ==
  ASSUME NEW h \in Nat, NEW w \in Nat, NEW k \in Nat, k < h * w
  PROVE  /\ w >= 1 /\ k \div (h * w) = 0
         /\ k \div w \in 0 .. h - 1 /\ (k \div w) % h = k \div w
         /\ k % w \in 0 .. w - 1
<1> DEFINE n == h * w
<1>1. n \in Nat /\ n >= 1 /\ w >= 1
  <2>1. n \in Nat
    OBVIOUS
  <2>2. w # 0
    <3>1. w = 0 => n = 0
      OBVIOUS
    <3> QED BY <2>1, <3>1
  <2> QED BY <2>1, <2>2
<1>2. k < n
  OBVIOUS
<1>3. k \div n = 0
  <2> HIDE DEF n
  <2>1. n \in Nat /\ n >= 1 /\ k \in 0 .. n - 1
    BY <1>1, <1>2
  <2> QED BY <2>1
<1> DEFINE q == k \div w
           m == k % w
<1>4. q \in Nat /\ m \in 0 .. w - 1 /\ k = w * q + m
  BY <1>1
<1> HIDE DEF q, m
<1>5. q < h
  <2> SUFFICES ASSUME q >= h PROVE FALSE
    BY <1>4
  <2>1. PICK d \in Nat : q = h + d
    <3>1. q - h \in Nat /\ q = h + (q - h)
      BY <1>4
    <3> QED BY <3>1
  <2>2. w * q = n + w * d /\ w * d \in Nat
    BY <2>1
  <2> HIDE DEF n
  <2> QED BY <1>1, <1>2, <1>4, <2>2
<1>6. q \in 0 .. h - 1 /\ q % h = q
  BY <1>4, <1>5
<1> QED BY <1>1, <1>3, <1>4, <1>6 DEF n, q, m

(* The sides of a grid, in merged tokens.                                  *)
LEMMA GridSides ==
  ASSUME NEW h \in Nat, NEW w \in Nat, NEW grid, grid = Grid(h, w)
  PROVE  /\ grid[2] \div MergeSize = h /\ grid[3] \div MergeSize = w
         /\ Advance(grid) = Larger(h, w) /\ Merged(grid) = h * w
<1>1. MergeSize \in Nat /\ MergeSize >= 1
  BY ImagePromptAssumption
<1>2. grid[1] = 1 /\ grid[2] = MergeSize * h /\ grid[3] = MergeSize * w
  BY DEF Grid
<1>3. (MergeSize * h) \div MergeSize = h /\ (MergeSize * w) \div MergeSize = w
  BY <1>1, Divided
<1>4. Larger(grid[2], grid[3]) \in {MergeSize * h, MergeSize * w}
  BY <1>2 DEF Larger
<1>5. Larger(grid[2], grid[3]) = MergeSize * Larger(h, w)
  <2>1. CASE h > w
    <3>1. PICK d \in Nat : h = w + d /\ d >= 1
      <4>1. h - w \in Nat /\ h = w + (h - w) /\ h - w >= 1
        BY <2>1
      <4> QED BY <4>1
    <3>2. MergeSize * h = MergeSize * w + MergeSize * d
      BY <1>1, <3>1
    <3>3. MergeSize * d \in Nat /\ MergeSize * d >= MergeSize
      BY <1>1, <3>1, Multiplied
    <3>4. MergeSize * w \in Nat
      BY <1>1
    <3>5. MergeSize * h > MergeSize * w
      BY <1>1, <3>2, <3>3, <3>4
    <3> QED BY <1>2, <2>1, <3>5 DEF Larger
  <2>2. CASE ~(h > w)
    <3>1. PICK d \in Nat : w = h + d
      <4>1. w - h \in Nat /\ w = h + (w - h)
        BY <2>2
      <4> QED BY <4>1
    <3>2. MergeSize * w = MergeSize * h + MergeSize * d /\ MergeSize * d \in Nat /\ MergeSize * h \in Nat
      BY <1>1, <3>1
    <3>3. ~(MergeSize * h > MergeSize * w)
      BY <3>2
    <3> QED BY <1>2, <2>2, <3>3 DEF Larger
  <2> QED BY <2>1, <2>2
<1>6. Advance(grid) = Larger(h, w)
  <2>1. Larger(h, w) \in Nat
    BY DEF Larger
  <2>2. (MergeSize * Larger(h, w)) \div MergeSize = Larger(h, w)
    BY <1>1, <2>1, Divided
  <2> QED BY <1>5, <2>2 DEF Advance
<1>7. Merged(grid) = h * w
  <2>1. Patches(grid) = (MergeSize * MergeSize) * (h * w)
    <3>1. 1 * (MergeSize * h) * (MergeSize * w) = (MergeSize * MergeSize) * (h * w)
      BY <1>1
    <3> QED BY <1>2, <3>1 DEF Patches
  <2>2. MergeSize * MergeSize \in Nat /\ MergeSize * MergeSize >= 1
    <3>1. MergeSize * MergeSize \in Nat /\ MergeSize * MergeSize >= MergeSize
      BY <1>1, Multiplied
    <3> QED BY <1>1, <3>1
  <2>3. h * w \in Nat
    OBVIOUS
  <2>4. ((MergeSize * MergeSize) * (h * w)) \div (MergeSize * MergeSize) = h * w
    BY <2>2, <2>3, Divided
  <2> QED BY <2>1, <2>4 DEF Merged
<1> QED BY <1>2, <1>3, <1>6, <1>7

(* A place below m, and one that touches it.                               *)
Below(p, m)   == p[1] < m /\ p[2] < m /\ p[3] < m
Touches(p, m) == p[1] = m - 1 \/ p[2] = m - 1 \/ p[3] = m - 1

(* Places that lead up to m, and where they lead from nothing.             *)
Spans(s, m) ==
  /\ s \in Seq(Place) /\ m \in Nat
  /\ \A i \in 1 .. Len(s) : Below(s[i], m)
  /\ \E i \in 1 .. Len(s) : Touches(s[i], m)

Reaches(pos, m) == (pos = <<>> /\ m = 0) \/ Spans(pos, m)

(* The reference's next position is the end of what has been reached.      *)
LEMMA SpanEnds ==
  ASSUME NEW pos, NEW m, Spans(pos, m)
  PROVE  LET all == UNION {{p[1], p[2], p[3]} : p \in ToSet(pos)}
         IN  Max(all) = m - 1 /\ Max({-1} \cup all) = m - 1 /\ m \in Nat \ {0}
<1> DEFINE all == UNION {{p[1], p[2], p[3]} : p \in ToSet(pos)}
<1>1. pos \in Seq(Place) /\ m \in Nat /\ Len(pos) \in Nat
  BY DEF Spans
<1>2. \A i \in 1 .. Len(pos) : pos[i][1] \in Nat /\ pos[i][2] \in Nat /\ pos[i][3] \in Nat
  <2>1. \A i \in 1 .. Len(pos) : pos[i] \in Place
    BY <1>1
  <2> QED BY <2>1 DEF Place
<1>3. DOMAIN pos = 1 .. Len(pos)
  BY <1>1
<1>4. \A x \in all : x \in Nat /\ x <= m - 1
  <2> TAKE x \in all
  <2>1. PICK i \in 1 .. Len(pos) : x \in {pos[i][1], pos[i][2], pos[i][3]}
    BY <1>3 DEF ToSet
  <2>2. Below(pos[i], m)
    BY DEF Spans
  <2> QED BY <1>1, <1>2, <2>1, <2>2 DEF Below
<1>5. m - 1 \in all
  <2>1. PICK i \in 1 .. Len(pos) : Touches(pos[i], m)
    BY DEF Spans
  <2>2. pos[i] \in ToSet(pos)
    BY <1>3 DEF ToSet
  <2>3. m - 1 \in {pos[i][1], pos[i][2], pos[i][3]}
    BY <2>1 DEF Touches
  <2> QED BY <2>2, <2>3
<1> HIDE DEF all
<1>6. m \in Nat \ {0} /\ m - 1 \in Nat
  BY <1>1, <1>4, <1>5
<1>7. Max(all) = m - 1
  <2>1. all \in SUBSET Int
    BY <1>4
  <2> QED BY <1>4, <1>5, <2>1, MaxIs
<1>8. Max({-1} \cup all) = m - 1
  <2> DEFINE S == {-1} \cup all
  <2>1. S \in SUBSET Int /\ m - 1 \in S /\ \A y \in S : y <= m - 1
    BY <1>4, <1>5, <1>6
  <2> HIDE DEF S
  <2>2. Max(S) = m - 1
    BY <2>1, MaxIs
  <2> QED BY <2>2 DEF S
<1> QED BY <1>6, <1>7, <1>8 DEF all

LEMMA NextIs ==
  ASSUME NEW pos, NEW m, Reaches(pos, m)
  PROVE  NextPosition(pos) = m /\ m \in Nat /\ pos \in Seq(Place)
<1>1. CASE pos = <<>> /\ m = 0
  <2>1. ToSet(pos) = {}
    BY <1>1 DEF ToSet
  <2>2. {-1} \cup UNION {{p[1], p[2], p[3]} : p \in ToSet(pos)} = {-1}
    BY <2>1
  <2>3. Max({-1}) = -1
    BY MaxIs
  <2>4. NextPosition(pos) = 0
    BY <2>2, <2>3 DEF NextPosition
  <2> QED BY <1>1, <2>4
<1>2. CASE Spans(pos, m)
  <2>1. Max({-1} \cup UNION {{p[1], p[2], p[3]} : p \in ToSet(pos)}) = m - 1 /\ m \in Nat
    BY <1>2, SpanEnds
  <2>2. (m - 1) + 1 = m
    BY <2>1
  <2> QED BY <1>2, <2>1, <2>2 DEF NextPosition, Spans
<1> QED BY <1>1, <1>2 DEF Reaches

(* What follows reaches further.                                           *)
LEMMA ReachesFurther ==
  ASSUME NEW pos, NEW m, Reaches(pos, m), NEW s, NEW k, Spans(s, k), m <= k
  PROVE  Reaches(pos \o s, k)
<1>1. pos \in Seq(Place) /\ m \in Nat /\ s \in Seq(Place) /\ k \in Nat
  BY NextIs DEF Spans
<1> DEFINE j == pos \o s
           a == Len(pos)
           b == Len(s)
<1>2. /\ j \in Seq(Place) /\ a \in Nat /\ b \in Nat /\ Len(j) = a + b
      /\ \A i \in 1 .. a : j[i] = pos[i]
      /\ \A i \in a + 1 .. a + b : j[i] = s[i - a] /\ i - a \in 1 .. b
  BY <1>1, Joined
<1> HIDE DEF j
<1>3. \A i \in 1 .. a : Below(pos[i], k)
  <2>1. CASE pos = <<>>
    BY <2>1
  <2>2. CASE Spans(pos, m)
    <3> TAKE i \in 1 .. a
    <3>1. Below(pos[i], m) /\ pos[i] \in Place
      BY <1>1, <2>2 DEF Spans
    <3> QED BY <1>1, <3>1 DEF Below, Place
  <2> QED BY <2>1, <2>2 DEF Reaches
<1>4. \A i \in 1 .. Len(j) : Below(j[i], k)
  <2> TAKE i \in 1 .. Len(j)
  <2>1. i \in 1 .. a \/ i \in a + 1 .. a + b
    BY <1>2
  <2>2. CASE i \in 1 .. a
    BY <1>2, <1>3, <2>2
  <2>3. CASE i \in a + 1 .. a + b
    <3>1. j[i] = s[i - a] /\ i - a \in 1 .. b
      BY <1>2, <2>3
    <3> QED BY <3>1 DEF Spans
  <2> QED BY <2>1, <2>2, <2>3
<1>5. \E i \in 1 .. Len(j) : Touches(j[i], k)
  <2>1. PICK i \in 1 .. b : Touches(s[i], k)
    BY DEF Spans
  <2>2. a + i \in a + 1 .. a + b /\ (a + i) - a = i /\ a + i \in 1 .. Len(j)
    BY <1>2
  <2>3. j[a + i] = s[i]
    BY <1>2, <2>2
  <2> QED BY <2>1, <2>2, <2>3
<1>6. Spans(j, k)
  BY <1>1, <1>2, <1>4, <1>5 DEF Spans
<1> QED BY <1>6 DEF Reaches, j

(* A run of text spans a position for each of its tokens.                  *)
LEMMA TextPlaces ==
  ASSUME NEW grid, NEW base \in Nat, NEW count \in Nat
  PROVE  /\ PlacesOf(FALSE, grid, base, count) \in Seq(Place)
         /\ Len(PlacesOf(FALSE, grid, base, count)) = count
         /\ PlacesOf(FALSE, grid, base, count + 1)
              = Append(PlacesOf(FALSE, grid, base, count), Everywhere(base + count))
         /\ Everywhere(base + count) \in Place
         /\ Spans(<<Everywhere(base)>>, base + 1)
<1> DEFINE x == PlacesOf(FALSE, grid, base, count)
           y == PlacesOf(FALSE, grid, base, count + 1)
<1>1. \A i \in Nat : Everywhere(base + i) \in Place
  BY DEF Everywhere, Place
<1>2. \A k \in 1 .. count + 1 : PlaceOf(FALSE, grid, base, k - 1) = Everywhere(base + (k - 1))
  BY DEF PlaceOf
<1>3. Table(x, count) /\ Table(y, count + 1)
  BY DEF Table, PlacesOf
<1>4. \A k \in 1 .. count : x[k] = Everywhere(base + (k - 1)) /\ x[k] \in Place /\ y[k] = x[k]
  <2> TAKE k \in 1 .. count
  <2>1. k \in 1 .. count + 1 /\ k - 1 \in Nat
    OBVIOUS
  <2> QED BY <1>1, <1>2, <2>1 DEF PlacesOf
<1>5. y[count + 1] = Everywhere(base + count)
  <2>1. count + 1 \in 1 .. count + 1 /\ (count + 1) - 1 = count
    OBVIOUS
  <2> QED BY <1>2, <2>1 DEF PlacesOf
<1> HIDE DEF x, y
<1>6. Prolongs(Place, count, x, Everywhere(base + count), y)
  BY <1>1, <1>3, <1>4, <1>5 DEF Prolongs
<1>7. x \in Seq(Place) /\ Len(x) = count /\ y = Append(x, Everywhere(base + count))
  BY <1>6, MappedAppend
<1>8. Spans(<<Everywhere(base)>>, base + 1)
  <2> DEFINE p == Everywhere(base)
  <2>1. p \in Place /\ Below(p, base + 1) /\ Touches(p, base + 1)
    BY DEF Everywhere, Place, Below, Touches
  <2> HIDE DEF p
  <2>2. <<p>> \in Seq(Place) /\ Len(<<p>>) = 1 /\ <<p>>[1] = p
    BY <2>1
  <2>3. \A i \in 1 .. Len(<<p>>) : <<p>>[i] = p
    BY <2>2
  <2>4. 1 \in 1 .. Len(<<p>>) /\ base + 1 \in Nat
    BY <2>2
  <2>5. Spans(<<p>>, base + 1)
    BY <2>1, <2>2, <2>3, <2>4, Zenon DEF Spans
  <2> QED BY <2>5 DEF p
<1> QED BY <1>1, <1>7, <1>8 DEF x, y

(* The tokens of an image are laid out over its grid, and span what the    *)
(* next position advances by.                                              *)
LEMMA ImagePlaces ==
  ASSUME NEW grid \in Grids, ~Ragged(grid), NEW base \in Nat
  PROVE  LET places == PlacesOf(TRUE, grid, base, Merged(grid))
         IN  /\ places = [k \in 1 .. Merged(grid) |-> OnGrid(base, k - 1, grid[3] \div MergeSize)]
             /\ Advance(grid) \in Nat /\ Spans(places, base + Advance(grid))
<1>1. PICK h \in Nat, w \in Nat : grid = Grid(h, w)
  BY DEF Grids
<1> DEFINE n == Merged(grid)
           adv == Advance(grid)
           places == PlacesOf(TRUE, grid, base, n)
<1>2. /\ grid[2] \div MergeSize = h /\ grid[3] \div MergeSize = w
      /\ adv = Larger(h, w) /\ n = h * w
  BY <1>1, GridSides
<1>3. n \in Nat \ {0}
  BY MergedIsPositive
<1> HIDE DEF n, adv
<1>4. h >= 1 /\ w >= 1
  <2>1. h = 0 \/ w = 0 => n = 0
    BY <1>2
  <2> QED BY <1>3, <2>1
<1>5. ASSUME NEW k \in 1 .. n
      PROVE  /\ PlaceOf(TRUE, grid, base, k - 1) = OnGrid(base, k - 1, w)
             /\ OnGrid(base, k - 1, w) = <<base, base + ((k - 1) \div w), base + ((k - 1) % w)>>
             /\ (k - 1) \div w \in 0 .. h - 1 /\ (k - 1) % w \in 0 .. w - 1
  <2>1. k - 1 \in Nat /\ k - 1 < h * w
    BY <1>2, <1>3
  <2>2. /\ (k - 1) \div (h * w) = 0 /\ (k - 1) \div w \in 0 .. h - 1
        /\ ((k - 1) \div w) % h = (k - 1) \div w /\ (k - 1) % w \in 0 .. w - 1
    BY <2>1, OnItsGrid
  <2>3. PlaceOf(TRUE, grid, base, k - 1) =
          <<base + ((k - 1) \div (h * w)), base + (((k - 1) \div w) % h), base + ((k - 1) % w)>>
    BY <1>2, Zenon DEF PlaceOf
  <2>4. base + 0 = base
    OBVIOUS
  <2> QED BY <2>2, <2>3, <2>4 DEF OnGrid
<1>6. places = [k \in 1 .. n |-> OnGrid(base, k - 1, grid[3] \div MergeSize)]
  BY <1>2, <1>5 DEF PlacesOf
<1>7. adv \in Nat /\ adv >= h /\ adv >= w /\ (adv = h \/ adv = w)
  BY <1>2 DEF Larger
<1>8. ASSUME NEW k \in 1 .. n
      PROVE  OnGrid(base, k - 1, w) \in Place /\ Below(OnGrid(base, k - 1, w), base + adv)
  <2> DEFINE c == (k - 1) \div w
             d == (k - 1) % w
  <2>1. OnGrid(base, k - 1, w) = <<base, base + c, base + d>> /\ c \in 0 .. h - 1 /\ d \in 0 .. w - 1
    BY <1>5
  <2> HIDE DEF c, d
  <2> QED BY <1>4, <1>7, <2>1 DEF Place, Below
<1>9. \E k \in 1 .. n : Touches(OnGrid(base, k - 1, w), base + adv)
  <2>1. CASE adv = h
    <3> DEFINE k == w * (h - 1) + 1
    <3>1. h - 1 \in Nat /\ w * (h - 1) \in Nat /\ w * (h - 1) + w = n
      BY <1>2, <1>4
    <3>2. k \in 1 .. n /\ k - 1 = w * (h - 1)
      BY <1>4, <3>1
    <3>3. (w * (h - 1)) \div w = h - 1
      BY <1>4, <3>1, Divided
    <3> HIDE DEF k
    <3>4. OnGrid(base, k - 1, w)[2] = base + (h - 1)
      <4>1. OnGrid(base, k - 1, w) = <<base, base + ((k - 1) \div w), base + ((k - 1) % w)>>
        BY <1>5, <3>2
      <4>2. OnGrid(base, k - 1, w)[2] = base + ((k - 1) \div w)
        BY <4>1
      <4> QED BY <3>2, <3>3, <4>2
    <3>5. base + (h - 1) = (base + adv) - 1
      BY <1>7, <2>1
    <3> QED BY <3>2, <3>4, <3>5 DEF Touches
  <2>2. CASE adv = w
    <3>1. w \in 1 .. n
      <4>1. w * h = n /\ w * h >= w
        BY <1>2, <1>4, Multiplied
      <4> QED BY <1>3, <1>4, <4>1
    <3>2. (w - 1) % w = w - 1
      BY <1>4
    <3>3. OnGrid(base, w - 1, w)[3] = base + (w - 1)
      <4>1. OnGrid(base, w - 1, w) = <<base, base + ((w - 1) \div w), base + ((w - 1) % w)>>
        BY <1>5, <3>1
      <4>2. OnGrid(base, w - 1, w)[3] = base + ((w - 1) % w)
        BY <4>1
      <4> QED BY <3>2, <4>2
    <3>4. base + (w - 1) = (base + adv) - 1
      BY <1>7, <2>2
    <3> QED BY <3>1, <3>3, <3>4 DEF Touches
  <2> QED BY <1>7, <2>1, <2>2
<1>10. /\ places \in Seq(Place) /\ Len(places) = n
       /\ \A k \in 1 .. n : places[k] = OnGrid(base, k - 1, w)
  <2> DEFINE P == [k \in 1 .. n |-> OnGrid(base, k - 1, w)]
  <2>1. places = P
    BY <1>2, <1>6
  <2>2. \A k \in 1 .. n : P[k] = OnGrid(base, k - 1, w) /\ P[k] \in Place
    BY <1>8
  <2>3. P \in [1 .. n -> Place]
    BY <1>8
  <2> HIDE DEF P, places
  <2>4. P \in Seq(Place) /\ Len(P) = n
    BY <1>3, <2>3
  <2> QED BY <2>1, <2>2, <2>4
<1> HIDE DEF places
<1>11. Spans(places, base + adv)
  <2>1. base + adv \in Nat
    BY <1>7
  <2> QED BY <1>8, <1>9, <1>10, <2>1 DEF Spans
<1> QED BY <1>6, <1>7, <1>11 DEF places, n, adv

(***************************************************************************)
(* Positions, and the reference for them                                   *)
(***************************************************************************)

(* The runs of e give the positions pos, which reach as far as the runs.   *)
Whole(e, grids, images, pos) ==
  \E st : /\ RunStarts(e, st) /\ Laid(RunsOf(e, st), grids)
          /\ ImagesIn(RunsOf(e, st), Len(RunsOf(e, st))) = images
          /\ PosFrom(RunsOf(e, st), grids) = pos
          /\ Reaches(pos, Reach(RunsOf(e, st), grids))

(* And the last of them is known.                                          *)
EndsIn(e, grids, images, pos, st, front, last) ==
  /\ RunStarts(e, st) /\ RunsOf(e, st) = Append(front, last)
  /\ Laid(front, grids) /\ Reach(front, grids) \in Nat
  /\ last \in Run /\ last.image = IsPad(e, Len(e))
  /\ Laid(RunsOf(e, st), grids)
  /\ ImagesIn(RunsOf(e, st), Len(RunsOf(e, st))) = images
  /\ PosFrom(RunsOf(e, st), grids) = pos
  /\ Reaches(pos, Reach(RunsOf(e, st), grids))

LaidOut(e, grids, images, pos) ==
  \E st, front, last : EndsIn(e, grids, images, pos, st, front, last)

LEMMA LaidOutIsWhole ==
  ASSUME NEW e, NEW grids, NEW images, NEW pos, LaidOut(e, grids, images, pos)
  PROVE  Whole(e, grids, images, pos)
BY Zenon DEF LaidOut, EndsIn, Whole

(* A run of another kind.                                                  *)
LEMMA NewRun ==
  ASSUME NEW U, NEW e \in Seq(U), NEW grids, NEW images, NEW pos, Whole(e, grids, images, pos),
         NEW s \in Seq(U), Len(s) # 0,
         NEW image \in BOOLEAN, \A i \in 1 .. Len(s) : (s[i] = Pad) = image,
         Len(e) = 0 \/ (e[Len(e)] = Pad) = ~image,
         NEW now, now = images + (IF image THEN 1 ELSE 0),
         NEW take \in Nat, take = IF image THEN Advance(grids[now]) ELSE Len(s),
         NEW places, places = PlacesOf(image, grids[now], NextPosition(pos), Len(s)),
         Spans(places, NextPosition(pos) + take)
  PROVE  LaidOut(e \o s, grids, now, pos \o places)
<1>1. PICK st : /\ RunStarts(e, st) /\ Laid(RunsOf(e, st), grids)
                /\ ImagesIn(RunsOf(e, st), Len(RunsOf(e, st))) = images
                /\ PosFrom(RunsOf(e, st), grids) = pos
                /\ Reaches(pos, Reach(RunsOf(e, st), grids))
  BY DEF Whole
<1> DEFINE runs == RunsOf(e, st)
           run  == [image |-> image, first |-> Len(e) + 1, count |-> Len(s)]
           t    == Append(st, Len(e) + 1)
           j    == e \o s
<1>2. RunStarts(j, t) /\ RunsOf(j, t) = Append(runs, run)
  BY <1>1, RunFollows
<1>3. NextPosition(pos) = Reach(runs, grids) /\ Reach(runs, grids) \in Nat
  BY <1>1, NextIs
<1>4. run \in Run /\ run.image = image /\ run.count = Len(s)
  <2>1. Len(e) \in Nat /\ Len(s) \in Nat
    OBVIOUS
  <2> QED BY <2>1 DEF Run
<1>5. places \in Seq(Place)
  BY DEF Spans
<1>6. run.image = IsPad(j, Len(j))
  <2> DEFINE l == Len(e)
             c == Len(s)
  <2>1. /\ l \in Nat /\ c \in Nat /\ Len(j) = l + c
        /\ \A i \in l + 1 .. l + c : j[i] = s[i - l] /\ i - l \in 1 .. c
    BY Joined
  <2>2. c # 0
    OBVIOUS
  <2> HIDE DEF l, c, j, run
  <2>3. l + c \in l + 1 .. l + c /\ (l + c) - l = c /\ c \in 1 .. c
    BY <2>1, <2>2
  <2>4. j[Len(j)] = s[c]
    BY <2>1, <2>3
  <2>5. (s[c] = Pad) = image
    BY <2>3 DEF c
  <2> QED BY <1>4, <2>4, <2>5 DEF IsPad
<1> HIDE DEF runs, run, j, t
<1>7. /\ Laid(Append(runs, run), grids)
      /\ ImagesIn(Append(runs, run), Len(Append(runs, run))) = now
      /\ Reach(Append(runs, run), grids) = Reach(runs, grids) + take
      /\ PosFrom(Append(runs, run), grids) = PosFrom(runs, grids) \o places
  <2>1. Laid(runs, grids) /\ now = ImagesIn(runs, Len(runs)) + (IF run.image THEN 1 ELSE 0)
    BY <1>1, <1>4 DEF runs
  <2>2. take = IF run.image THEN Advance(grids[now]) ELSE run.count
    BY <1>4
  <2>3. places = PlacesOf(run.image, grids[now], Reach(runs, grids), run.count)
    BY <1>3, <1>4
  <2>4. Adds(runs, grids, run, now, take, places)
    BY <1>4, <1>5, <2>1, <2>2, <2>3, Zenon DEF Adds
  <2>5. Added(runs, grids, run, now, take, places)
    BY <2>4, PosAppend, Zenon
  <2> QED BY <2>5, Zenon DEF Added
<1>8. Reaches(pos \o places, Reach(runs, grids) + take)
  <2>1. Reaches(pos, Reach(runs, grids)) /\ Spans(places, Reach(runs, grids) + take)
    BY <1>1, <1>3 DEF runs
  <2>2. Reach(runs, grids) <= Reach(runs, grids) + take
    BY <1>3
  <2> QED BY <2>1, <2>2, ReachesFurther
<1>9. EndsIn(j, grids, now, pos \o places, t, runs, run)
  <2>1. Laid(runs, grids) /\ PosFrom(runs, grids) = pos
    BY <1>1 DEF runs
  <2> QED BY <1>2, <1>3, <1>4, <1>6, <1>7, <1>8, <2>1, Zenon DEF EndsIn
<1> QED BY <1>9, Zenon DEF LaidOut, j

(* A concatenation that ends in an element.                                *)
LEMMA AppendLast ==
  ASSUME NEW S, NEW f \in Seq(S), NEW p \in Seq(S), NEW x \in S
  PROVE  f \o Append(p, x) = Append(f \o p, x) /\ Append(p, x) = p \o <<x>>
OBVIOUS

(* A run with one token more.                                              *)
OneLonger(run) == [run EXCEPT !.count = @ + 1]

LEMMA LongerRun ==
  ASSUME NEW last \in Run, NEW longer, longer = OneLonger(last)
  PROVE  longer \in Run /\ longer.image = last.image /\ longer.count = last.count + 1
<1>1. /\ last.image \in BOOLEAN /\ last.first \in Nat /\ last.count \in Nat
      /\ last = [image |-> last.image, first |-> last.first, count |-> last.count]
  BY Zenon DEF Run
<1> DEFINE b == last.image
           f == last.first
           c == last.count
<1>2. longer = [image |-> b, first |-> f, count |-> c + 1]
  BY <1>1 DEF OneLonger
<1>3. b \in BOOLEAN /\ f \in Nat /\ c + 1 \in Nat
  BY <1>1
<1> HIDE DEF b, f, c
<1>4. longer.image = b /\ longer.count = c + 1
  BY <1>2
<1>5. longer \in Run
  BY <1>2, <1>3 DEF Run
<1> QED BY <1>4, <1>5 DEF b, c

(* The last run, when a token of text prolongs it.                         *)
LEMMA LastRunGrows ==
  ASSUME NEW U, NEW e \in Seq(U), Len(e) # 0, e[Len(e)] # Pad, NEW v \in U, v # Pad,
         NEW st, RunStarts(e, st), NEW front \in Seq(Run), NEW last \in Run,
         RunsOf(e, st) = Append(front, last)
  PROVE  /\ RunStarts(e \o <<v>>, st)
         /\ RunsOf(e \o <<v>>, st) = Append(front, OneLonger(last))
<1> DEFINE longer == OneLonger(last)
           j == e \o <<v>>
           k == Len(st)
           n == Len(front)
<1>1. /\ RunStarts(j, st) /\ k \in Nat \ {0}
      /\ \A i \in 1 .. k : RunAt(j, st, i) =
           IF i = k THEN OneLonger(RunAt(e, st, i)) ELSE RunAt(e, st, i)
  BY RunGrows DEF OneLonger
<1>2. RunsOf(e, st) = [i \in 1 .. k |-> RunAt(e, st, i)] /\ RunsOf(j, st) = [i \in 1 .. k |-> RunAt(j, st, i)]
  BY DEF RunsOf
<1> HIDE DEF j, k
<1>3. longer \in Run
  BY LongerRun
<1>4. /\ n \in Nat
      /\ Append(front, last)   = [i \in 1 .. n + 1 |-> IF i = n + 1 THEN last ELSE front[i]]
      /\ Append(front, longer) = [i \in 1 .. n + 1 |-> IF i = n + 1 THEN longer ELSE front[i]]
  <2> DEFINE R == Run
  <2> HIDE DEF R
  <2>1. front \in Seq(R) /\ last \in R /\ longer \in R
    BY <1>3 DEF R
  <2>2. n \in Nat
    BY <2>1
  <2> QED BY <2>1, <2>2, AppendIs
<1> HIDE DEF n
<1>5. k = n + 1
  <2>1. DOMAIN RunsOf(e, st) = 1 .. k
    BY <1>2
  <2>2. DOMAIN RunsOf(e, st) = 1 .. n + 1
    BY <1>4
  <2>3. n + 1 \in 1 .. k /\ k \in 1 .. n + 1
    BY <1>1, <1>4, <2>1, <2>2
  <2> QED BY <1>1, <1>4, <2>3
<1>6. ASSUME NEW i \in 1 .. k
      PROVE  RunAt(j, st, i) = IF i = n + 1 THEN longer ELSE front[i]
  <2>1. RunAt(e, st, i) = IF i = n + 1 THEN last ELSE front[i]
    <3>1. RunsOf(e, st)[i] = RunAt(e, st, i)
      BY <1>2
    <3>2. Append(front, last)[i] = IF i = n + 1 THEN last ELSE front[i]
      BY <1>4, <1>5
    <3> QED BY <3>1, <3>2
  <2>2. CASE i = n + 1
    <3>1. RunAt(e, st, i) = last /\ i = k
      BY <1>5, <2>1, <2>2
    <3>2. RunAt(j, st, i) = OneLonger(RunAt(e, st, i))
      BY <1>1, <3>1
    <3> QED BY <2>2, <3>1, <3>2
  <2>3. CASE i # n + 1
    BY <1>1, <1>5, <2>1, <2>3
  <2> QED BY <2>2, <2>3
<1>7. RunsOf(j, st) = Append(front, longer)
  BY <1>2, <1>4, <1>5, <1>6
<1> QED BY <1>1, <1>7 DEF j

(* A token of text after another takes the next position.                  *)
LEMMA MoreText ==
  ASSUME NEW U, NEW e \in Seq(U), Len(e) # 0, e[Len(e)] # Pad, NEW v \in U, v # Pad,
         NEW grids, NEW images, NEW pos, LaidOut(e, grids, images, pos)
  PROVE  LaidOut(e \o <<v>>, grids, images, Append(pos, Everywhere(NextPosition(pos))))
<1>1. PICK st, front, last : EndsIn(e, grids, images, pos, st, front, last)
  BY DEF LaidOut
<1> DEFINE j    == e \o <<v>>
           base == Reach(front, grids)
           c    == last.count
           own  == ImagesIn(front, Len(front))
           m    == base + c
           p    == Everywhere(m)
           longer == OneLonger(last)
           places == PlacesOf(FALSE, grids[own], base, c)
           further == PlacesOf(FALSE, grids[own], base, c + 1)
<1>2. /\ RunStarts(e, st) /\ RunsOf(e, st) = Append(front, last)
      /\ Laid(front, grids) /\ base \in Nat /\ last \in Run
      /\ ImagesIn(Append(front, last), Len(Append(front, last))) = images
      /\ PosFrom(Append(front, last), grids) = pos
      /\ Reaches(pos, Reach(Append(front, last), grids))
  BY <1>1 DEF EndsIn
<1>3. last.image = FALSE
  BY <1>1 DEF EndsIn, IsPad
<1>4. /\ c \in Nat /\ longer \in Run /\ longer.image = FALSE /\ longer.count = c + 1
      /\ front \in Seq(Run)
  <2>1. c \in Nat
    BY <1>2 DEF Run
  <2>2. longer \in Run /\ longer.image = last.image /\ longer.count = c + 1
    BY <1>2, LongerRun
  <2> QED BY <1>2, <1>3, <2>1, <2>2, Zenon DEF Laid
<1>5. RunStarts(j, st) /\ RunsOf(j, st) = Append(front, longer)
  <2>1. RunStarts(e, st) /\ RunsOf(e, st) = Append(front, last)
    BY <1>2
  <2>2. front \in Seq(Run) /\ last \in Run
    BY <1>2, <1>4
  <2> QED BY <2>1, <2>2, LastRunGrows
<1> HIDE DEF j, base, c, longer
<1>6. /\ places \in Seq(Place) /\ p \in Place /\ further = Append(places, p)
      /\ further \in Seq(Place)
  <2>1. places \in Seq(Place) /\ further = Append(places, p) /\ p \in Place
    BY <1>2, <1>4, TextPlaces
  <2> DEFINE P == Place
  <2> HIDE DEF P, places, p
  <2>2. Append(places, p) \in Seq(P)
    <3>1. places \in Seq(P) /\ p \in P
      BY <2>1 DEF P
    <3> QED BY <3>1
  <2> QED BY <2>1, <2>2 DEF P
<1>7. own \in Nat /\ own + 0 = own
  <2>1. Len(front) \in Nat
    <3> DEFINE R == Run
    <3> HIDE DEF R
    <3>1. front \in Seq(R)
      BY <1>4 DEF R
    <3> QED BY <3>1
  <2> QED BY <2>1, ImagesStep
<1> HIDE DEF own, places, further, p
<1>8. /\ ImagesIn(Append(front, last), Len(Append(front, last))) = own
      /\ Reach(Append(front, last), grids) = base + c
      /\ PosFrom(front, grids) \in Seq(Place)
      /\ PosFrom(Append(front, last), grids) = PosFrom(front, grids) \o places
  <2>1. own = ImagesIn(front, Len(front)) + (IF last.image THEN 1 ELSE 0)
    BY <1>3, <1>7 DEF own
  <2>2. c = IF last.image THEN Advance(grids[own]) ELSE last.count
    BY <1>3 DEF c
  <2>3. places = PlacesOf(last.image, grids[own], Reach(front, grids), last.count)
    BY <1>3 DEF places, base, c
  <2>4. Adds(front, grids, last, own, c, places)
    BY <1>2, <1>4, <1>6, <2>1, <2>2, <2>3, Zenon DEF Adds
  <2>5. Added(front, grids, last, own, c, places)
    BY <2>4, PosAppend, Zenon
  <2> QED BY <2>5, Zenon DEF Added, base
<1>9. /\ Laid(Append(front, longer), grids)
      /\ ImagesIn(Append(front, longer), Len(Append(front, longer))) = own
      /\ Reach(Append(front, longer), grids) = base + (c + 1)
      /\ PosFrom(Append(front, longer), grids) = PosFrom(front, grids) \o further
  <2>1. own = ImagesIn(front, Len(front)) + (IF longer.image THEN 1 ELSE 0)
    BY <1>4, <1>7 DEF own
  <2>2. c + 1 = (IF longer.image THEN Advance(grids[own]) ELSE longer.count) /\ c + 1 \in Nat
    BY <1>4
  <2>3. further = PlacesOf(longer.image, grids[own], Reach(front, grids), longer.count)
    BY <1>4 DEF further, base
  <2>4. Adds(front, grids, longer, own, c + 1, further)
    BY <1>2, <1>4, <1>6, <2>1, <2>2, <2>3, Zenon DEF Adds
  <2>5. Added(front, grids, longer, own, c + 1, further)
    BY <2>4, PosAppend, Zenon
  <2> QED BY <2>5, Zenon DEF Added, base
<1>10. /\ pos \in Seq(Place) /\ NextPosition(pos) = m /\ own = images
       /\ pos = PosFrom(front, grids) \o places
  BY <1>2, <1>8, NextIs
<1>11. PosFrom(front, grids) \o further = Append(pos, p) /\ Append(pos, p) = pos \o <<p>>
  BY <1>6, <1>8, <1>10, AppendLast, SMTT(40)
<1>12. Reaches(Append(pos, p), base + (c + 1))
  <2>1. m \in Nat /\ m + 1 = base + (c + 1) /\ m <= m + 1
    BY <1>2, <1>4
  <2>2. Spans(<<p>>, m + 1)
    BY <2>1, TextPlaces DEF p
  <2>3. Reaches(pos, m)
    BY <1>2, <1>8
  <2>4. Reaches(pos \o <<p>>, m + 1)
    BY <2>1, <2>2, <2>3, ReachesFurther
  <2> QED BY <1>11, <2>1, <2>4
<1>13. longer.image = IsPad(j, Len(j))
  <2>1. j[Len(j)] = v
    BY OneMore DEF j
  <2> QED BY <1>4, <2>1 DEF IsPad
<1>14. EndsIn(j, grids, images, Append(pos, p), st, front, longer)
  BY <1>2, <1>4, <1>5, <1>9, <1>10, <1>11, <1>12, <1>13, Zenon DEF EndsIn, base
<1>15. p = Everywhere(NextPosition(pos))
  BY <1>10 DEF p
<1> QED BY <1>14, <1>15, Zenon DEF LaidOut, j

(* Runs that are laid out give positions that reach the next one.          *)
LEMMA WholeReaches ==
  ASSUME NEW e, NEW grids, NEW images, NEW pos, Whole(e, grids, images, pos)
  PROVE  NextPosition(pos) \in Nat /\ pos \in Seq(Place) /\ Reaches(pos, NextPosition(pos))
<1>1. PICK m : Reaches(pos, m)
  BY Zenon DEF Whole
<1> QED BY <1>1, NextIs

(* Text at the start, or after an image.                                   *)
LEMMA TextStarts ==
  ASSUME NEW U, NEW e \in Seq(U), NEW grids, NEW images \in Nat, NEW pos,
         Whole(e, grids, images, pos), NEW v \in U, v # Pad,
         Len(e) = 0 \/ e[Len(e)] = Pad
  PROVE  LaidOut(e \o <<v>>, grids, images, Append(pos, Everywhere(NextPosition(pos))))
<1> DEFINE base   == NextPosition(pos)
           p      == Everywhere(base)
           s      == <<v>>
           places == PlacesOf(FALSE, grids[images], base, 1)
<1>1. base \in Nat /\ pos \in Seq(Place)
  BY WholeReaches
<1>2. s \in Seq(U) /\ Len(s) = 1 /\ \A i \in 1 .. Len(s) : (s[i] = Pad) = FALSE
  OBVIOUS
<1>3. p \in Place /\ Spans(<<p>>, base + 1)
  <2> HIDE DEF base
  <2>1. base + 0 = base
    BY <1>1
  <2> QED BY <1>1, <2>1, TextPlaces
<1>4. places = <<p>>
  <2> HIDE DEF base
  <2>1. PlacesOf(FALSE, grids[images], base, 0) = <<>>
    BY DEF PlacesOf
  <2>2. PlacesOf(FALSE, grids[images], base, 0 + 1)
          = Append(PlacesOf(FALSE, grids[images], base, 0), Everywhere(base + 0))
    BY <1>1, TextPlaces
  <2>3. 0 + 1 = 1 /\ base + 0 = base
    BY <1>1
  <2>4. places = Append(<<>>, p)
    BY <2>1, <2>2, <2>3
  <2>5. \A x : Append(<<>>, x) = <<x>>
    OBVIOUS
  <2> QED BY <2>4, <2>5, Zenon
<1> HIDE DEF s, places, p
<1>5. LaidOut(e \o s, grids, images, pos \o places)
  <2> DEFINE no == FALSE
  <2>1. images = images + (IF no THEN 1 ELSE 0)
    OBVIOUS
  <2>2. 1 \in Nat /\ 1 = IF no THEN Advance(grids[images]) ELSE Len(s)
    BY <1>2
  <2>3. places = PlacesOf(no, grids[images], NextPosition(pos), Len(s))
    BY <1>2 DEF places
  <2>4. Spans(places, NextPosition(pos) + 1)
    BY <1>3, <1>4
  <2>5. no \in BOOLEAN /\ Len(s) # 0 /\ (Len(e) = 0 \/ (e[Len(e)] = Pad) = ~no)
    BY <1>2
  <2>6. s \in Seq(U) /\ \A i \in 1 .. Len(s) : (s[i] = Pad) = no
    BY <1>2
  <2> HIDE DEF base, no
  <2> QED BY <2>1, <2>2, <2>3, <2>4, <2>5, <2>6, NewRun
<1>6. pos \o places = Append(pos, p)
  <2> DEFINE P == Place
  <2> HIDE DEF P
  <2>1. pos \in Seq(P) /\ p \in P
    BY <1>1, <1>3 DEF P
  <2> QED BY <1>4, <2>1
<1> QED BY <1>5, <1>6 DEF s, p

(* The pads of an image, and its reference places from base on.            *)
PadsOf(grid) == [k \in 1 .. Merged(grid) |-> Pad]

OverGrid(grid, base) == [k \in 1 .. Merged(grid) |-> OnGrid(base, k - 1, grid[3] \div MergeSize)]

(* An image at the start, or after text.                                   *)
LEMMA ImageFollows ==
  ASSUME NEW U, Pad \in U, NEW e \in Seq(U), NEW grids, NEW images \in Nat, NEW pos,
         Whole(e, grids, images, pos), Len(e) = 0 \/ e[Len(e)] # Pad,
         NEW grid \in Grids, grid = grids[images + 1], ~Ragged(grid)
  PROVE  LET p == OverGrid(grid, NextPosition(pos))
         IN  /\ LaidOut(e \o PadsOf(grid), grids, images + 1, pos \o p)
             /\ p \in Seq(Place) /\ Len(p) = Merged(grid)
<1> DEFINE base == NextPosition(pos)
           n == Merged(grid)
           s == PadsOf(grid)
           p == OverGrid(grid, base)
<1>1. base \in Nat /\ pos \in Seq(Place)
  BY WholeReaches
<1> HIDE DEF base
<1>2. n \in Nat \ {0}
  BY MergedIsPositive
<1>3. /\ p = PlacesOf(TRUE, grid, base, n)
      /\ Advance(grid) \in Nat /\ Spans(p, base + Advance(grid))
  BY <1>1, ImagePlaces, Zenon DEF OverGrid
<1>4. Len(p) = n
  <2> HIDE DEF n
  <2>1. p = [k \in 1 .. n |-> OnGrid(base, k - 1, grid[3] \div MergeSize)]
    BY DEF n, OverGrid
  <2> HIDE DEF p
  <2> QED BY <1>2, <2>1
<1>5. s \in Seq(U) /\ Len(s) = n /\ Len(s) # 0 /\ \A i \in 1 .. Len(s) : (s[i] = Pad) = TRUE
  <2> HIDE DEF n
  <2>1. s = [k \in 1 .. n |-> Pad]
    BY DEF n, PadsOf
  <2> HIDE DEF s
  <2> QED BY <1>2, <2>1
<1> HIDE DEF s, p, n
<1>6. LaidOut(e \o s, grids, images + 1, pos \o p)
  <2>1. images + 1 = images + (IF TRUE THEN 1 ELSE 0)
    OBVIOUS
  <2>2. Advance(grid) = IF TRUE THEN Advance(grids[images + 1]) ELSE Len(s)
    OBVIOUS
  <2>3. p = PlacesOf(TRUE, grids[images + 1], NextPosition(pos), Len(s))
    BY <1>3, <1>5 DEF base
  <2>4. Spans(p, NextPosition(pos) + Advance(grid))
    BY <1>3 DEF base
  <2>5. TRUE \in BOOLEAN /\ (Len(e) = 0 \/ (e[Len(e)] = Pad) = ~TRUE)
    OBVIOUS
  <2> QED BY <1>3, <1>5, <2>1, <2>2, <2>3, <2>4, <2>5, NewRun
<1>7. p \in Seq(Place)
  BY <1>3 DEF Spans
<1> QED BY <1>4, <1>6, <1>7 DEF s, p, n, base

(* The positions of tokens whose runs are laid out.                        *)
LEMMA WholePositions ==
  ASSUME NEW U, NEW e \in Seq(U), NEW grids, NEW images, NEW pos, Whole(e, grids, images, pos)
  PROVE  Positions(e, grids) = pos
<1>1. PICK st : RunStarts(e, st) /\ PosFrom(RunsOf(e, st), grids) = pos
  BY Zenon DEF Whole
<1>2. Runs(e) = RunsOf(e, st)
  BY <1>1, RunsAre
<1> QED BY <1>1, <1>2, PositionsAre

(* The reference's positions up to each token: see ReferencePositions.     *)
AfterToken(images, tokens, grids, pos, i) ==
  IF ~(images # <<>> /\ tokens[i] = Pad) THEN Append(pos, Everywhere(NextPosition(pos)))
  ELSE pos \o OverGrid(grids[PadsBefore(tokens, i)], NextPosition(pos))

ReferenceTo(images, tokens, grids, n, a) ==
  a = [i \in 0 .. n |-> IF i = 0 THEN <<>> ELSE AfterToken(images, tokens, grids, a[i - 1], i)]

LEMMA ReferenceExists ==
  ASSUME NEW images, NEW tokens, NEW grids, NEW n \in Nat
  PROVE  \E a : ReferenceTo(images, tokens, grids, n, a)
<1> DEFINE After(pos, i) == AfterToken(images, tokens, grids, pos, i)
           Upto(m, a) == ReferenceTo(images, tokens, grids, m, a)
           good == {i \in 0 .. n : \E a : Upto(i, a)}
<1>1. 0 \in good
  <2> DEFINE a == [i \in 0 .. 0 |-> <<>>]
  <2>1. a = [i \in 0 .. 0 |-> IF i = 0 THEN <<>> ELSE After(a[i - 1], i)]
    <3> HIDE DEF After
    <3> QED OBVIOUS
  <2> HIDE DEF a
  <2>2. Upto(0, a)
    BY <2>1, Zenon DEF ReferenceTo
  <2> QED BY <2>2
<1>2. ASSUME NEW m \in 0 .. n - 1, m \in good PROVE m + 1 \in good
  <2>1. PICK a : Upto(m, a)
    BY <1>2
  <2>2. a = [i \in 0 .. m |-> IF i = 0 THEN <<>> ELSE After(a[i - 1], i)]
    BY <2>1, Zenon DEF ReferenceTo
  <2> HIDE DEF After
  <2> DEFINE b == [i \in 0 .. m + 1 |-> IF i = m + 1 THEN After(a[m], m + 1) ELSE a[i]]
  <2>3. b = [i \in 0 .. m + 1 |-> IF i = 0 THEN <<>> ELSE After(b[i - 1], i)]
    <3> SUFFICES ASSUME NEW i \in 0 .. m + 1
                 PROVE  b[i] = IF i = 0 THEN <<>> ELSE After(b[i - 1], i)
      OBVIOUS
    <3>1. CASE i = m + 1
      <4>1. i # 0 /\ i - 1 = m /\ m \in 0 .. m + 1 /\ m # m + 1
        BY <3>1
      <4> QED BY <3>1, <4>1
    <3>2. CASE i # m + 1
      <4>1. i \in 0 .. m /\ (i # 0 => i - 1 \in 0 .. m + 1 /\ i - 1 # m + 1)
        BY <3>2
      <4>2. a[i] = IF i = 0 THEN <<>> ELSE After(a[i - 1], i)
        BY <2>2, <4>1
      <4>3. b[i] = a[i] /\ (i # 0 => b[i - 1] = a[i - 1])
        BY <3>2, <4>1
      <4> HIDE DEF b
      <4> QED BY <4>2, <4>3
    <3> QED BY <3>1, <3>2
  <2> HIDE DEF b
  <2>4. Upto(m + 1, b)
    BY <2>3, Zenon DEF ReferenceTo, After
  <2> QED BY <2>4
<1> HIDE DEF good
<1>3. n \in good
  <2>1. n \in 0 .. n
    OBVIOUS
  <2>2. 0 .. n \subseteq good
    BY <1>1, <1>2, UpTo
  <2> QED BY <2>1, <2>2
<1> QED BY <1>3 DEF good

(* Without tokens there is nothing to lay out.                             *)
LEMMA NothingIsWhole ==
  ASSUME NEW grids
  PROVE  Whole(<<>>, grids, 0, <<>>)
<1> DEFINE st == <<>>
           runs == RunsOf(<<>>, st)
<1>1. RunStarts(<<>>, st)
  <2>1. st \in Seq(1 .. 0) /\ Len(st) = 0
    OBVIOUS
  <2>2. Len(<<>>) = 0
    OBVIOUS
  <2> HIDE DEF st
  <2> QED BY <2>1, <2>2 DEF RunStarts
<1>2. runs = <<>>
  BY DEF RunsOf
<1> HIDE DEF runs, st
<1>3. Len(runs) = 0 /\ DOMAIN runs = {}
  BY <1>2
<1>4. Laid(runs, grids)
  <2> DEFINE R == Run
  <2> HIDE DEF R
  <2>1. runs \in Seq(R)
    BY <1>2
  <2> QED BY <1>3, <2>1 DEF Laid, R
<1>5. ImagesIn(runs, Len(runs)) = 0
  <2>1. {m \in 1 .. Len(runs) : runs[m].image} = {}
    BY <1>3
  <2> QED BY <2>1, FS_EmptySet, Zenon DEF ImagesIn
<1>6. PosFrom(runs, grids) = <<>>
  <2> DEFINE s == [n \in DOMAIN runs |-> RunPlaces(runs, grids, n)]
  <2>1. s = <<>>
    BY <1>3
  <2> HIDE DEF s
  <2>2. FlattenSeq(s) = <<>>
    BY <2>1 DEF FlattenSeq
  <2> QED BY <2>2 DEF PosFrom, s
<1>7. Reach(runs, grids) = 0
  <2> DEFINE s == [m \in 1 .. Len(runs) |-> TakenBy(runs, grids, m)]
  <2>1. s = <<>>
    BY <1>3
  <2> HIDE DEF s
  <2>2. Total(s) = 0
    BY <2>1, TotalOfNone
  <2> QED BY <2>2 DEF Reach, s
<1>8. Reaches(<<>>, Reach(runs, grids))
  BY <1>7 DEF Reaches
<1> QED BY <1>1, <1>4, <1>5, <1>6, <1>8, Zenon DEF Whole, runs

(* A token of text lays out one position.                                  *)
LEMMA TextFollows ==
  ASSUME NEW U, NEW e \in Seq(U), NEW grids, NEW images \in Nat, NEW pos,
         Whole(e, grids, images, pos), Len(pos) = Len(e), NEW v \in U, v # Pad,
         \/ Len(e) = 0 \/ e[Len(e)] = Pad
         \/ LaidOut(e, grids, images, pos)
  PROVE  LET p == Append(pos, Everywhere(NextPosition(pos)))
             j == e \o <<v>>
         IN  /\ LaidOut(j, grids, images, p)
             /\ Len(p) = Len(j) /\ Len(j) # 0 /\ j[Len(j)] # Pad
<1> DEFINE p == Append(pos, Everywhere(NextPosition(pos)))
           j == e \o <<v>>
<1>1. LaidOut(j, grids, images, p)
  <2>1. CASE Len(e) = 0 \/ e[Len(e)] = Pad
    BY <2>1, TextStarts
  <2>2. CASE ~(Len(e) = 0 \/ e[Len(e)] = Pad)
    BY <2>2, MoreText
  <2> QED BY <2>1, <2>2
<1>2. Len(j) = Len(e) + 1 /\ Len(e) \in Nat /\ j[Len(e) + 1] = v
  BY OneMore
<1>3. Len(p) = Len(pos) + 1
  <2> DEFINE P == Place
             x == Everywhere(NextPosition(pos))
  <2> HIDE DEF P, x
  <2>1. pos \in Seq(P)
    BY WholeReaches DEF P
  <2>2. Len(Append(pos, x)) = Len(pos) + 1
    BY <2>1, AppendProperties
  <2> QED BY <2>2 DEF x
<1> HIDE DEF j, p
<1>4. Len(p) = Len(j) /\ Len(j) # 0 /\ j[Len(j)] # Pad
  BY <1>2, <1>3
<1> QED BY <1>1, <1>4 DEF j, p

(* The pads of an image lay out its grid.                                  *)
LEMMA GridFollows ==
  ASSUME NEW U, Pad \in U, NEW e \in Seq(U), NEW grids, NEW images \in Nat, NEW pos,
         Whole(e, grids, images, pos), Len(pos) = Len(e), Len(e) = 0 \/ e[Len(e)] # Pad,
         NEW grid \in Grids, grid = grids[images + 1], ~Ragged(grid)
  PROVE  LET p == pos \o OverGrid(grid, NextPosition(pos))
             j == e \o PadsOf(grid)
         IN  /\ LaidOut(j, grids, images + 1, p)
             /\ Len(p) = Len(j) /\ Len(j) # 0 /\ j[Len(j)] = Pad
<1> DEFINE n == Merged(grid)
           s == PadsOf(grid)
           q == OverGrid(grid, NextPosition(pos))
           p == pos \o q
           j == e \o s
<1>1. LaidOut(j, grids, images + 1, p) /\ q \in Seq(Place) /\ Len(q) = n
  BY ImageFollows
<1>2. n \in Nat \ {0}
  BY MergedIsPositive
<1>3. pos \in Seq(Place)
  BY WholeReaches
<1> HIDE DEF n, q
<1>4. s \in Seq(U) /\ Len(s) = n /\ \A k \in 1 .. n : s[k] = Pad
  BY <1>2 DEF PadsOf, n
<1> HIDE DEF s
<1>5. /\ Len(e) \in Nat /\ Len(j) = Len(e) + n
      /\ \A i \in Len(e) + 1 .. Len(e) + n : j[i] = s[i - Len(e)] /\ i - Len(e) \in 1 .. n
  BY <1>4, Joined, SMTT(40)
<1>6. Len(p) = Len(pos) + n
  <2> DEFINE P == Place
  <2> HIDE DEF P
  <2>1. pos \in Seq(P) /\ q \in Seq(P)
    BY <1>1, <1>3 DEF P
  <2> QED BY <1>1, <2>1, Joined
<1> HIDE DEF j, p
<1>7. Len(e) + n \in Len(e) + 1 .. Len(e) + n
  BY <1>2, <1>5
<1>8. j[Len(j)] = Pad
  BY <1>4, <1>5, <1>7
<1>9. Len(p) = Len(j) /\ Len(j) # 0
  BY <1>2, <1>5, <1>6
<1> QED BY <1>1, <1>8, <1>9 DEF j, p, q, s, n

(* The reference lays out what the runs of an expansion do.                *)
LEMMA ExpandedIsLaid ==
  ASSUME NEW V, NEW tokens \in Seq(V), NEW grids \in Seq(Grids),
         Expand(tokens, grids) # Rejected,
         \A i \in 2 .. Len(tokens) : tokens[i] # Pad \/ tokens[i - 1] # Pad,
         NEW images, images # <<>>,
         NEW a, ReferenceTo(images, tokens, grids, Len(tokens), a)
  PROVE  LET E == Expand(tokens, grids)
             p == a[Len(tokens)]
         IN  /\ E \in Seq(V \cup {Pad}) /\ Len(E) # 0
             /\ Positions(E, grids) = p /\ Len(p) = Len(E)
             /\ p \in Seq(Place) /\ Spans(p, NextPosition(p))
<1> DEFINE n == Len(tokens)
           U == V \cup {Pad}
<1>1. PICK e : Expanding(U, tokens, grids, e)
  BY ExpandedPrefixes
<1>2. /\ n \in Nat \ {0} /\ Pad \in U
      /\ \A i \in 0 .. n : e[i] \in Seq(U)
      /\ e[0] = <<>> /\ e[n] = Expand(tokens, grids)
      /\ \A i \in 0 .. n - 1 : e[i + 1] = e[i] \o Piece(tokens, grids, i + 1)
      /\ \A i \in 1 .. n : tokens[i] \in U
      /\ \A i \in 1 .. n : tokens[i] = Pad =>
           /\ PadsBefore(tokens, i) \in 1 .. Len(grids)
           /\ grids[PadsBefore(tokens, i)] \in Grids /\ ~Ragged(grids[PadsBefore(tokens, i)])
  BY <1>1, Zenon DEF Expanding
<1> HIDE DEF U
<1>3. \A i \in 0 .. n : a[i] = IF i = 0 THEN <<>> ELSE AfterToken(images, tokens, grids, a[i - 1], i)
  BY Zenon DEF ReferenceTo
<1> DEFINE Pads(i) == PadsBefore(tokens, i)
           Good(i) == /\ i = 0 => Len(e[i]) = 0
                      /\ i # 0 => /\ LaidOut(e[i], grids, Pads(i), a[i])
                                  /\ Len(e[i]) # 0 /\ (tokens[i] = Pad <=> e[i][Len(e[i])] = Pad)
                      /\ Whole(e[i], grids, Pads(i), a[i]) /\ Len(a[i]) = Len(e[i])
           good == {i \in 0 .. n : Good(i)}
<1>4. 0 \in good
  <2>1. Pads(0) = 0
    BY PadsStep
  <2>2. a[0] = <<>> /\ 0 \in 0 .. n
    BY <1>2, <1>3
  <2>3. Whole(e[0], grids, Pads(0), a[0])
    BY <1>2, <2>1, <2>2, NothingIsWhole
  <2>4. Len(e[0]) = 0
    BY <1>2
  <2> QED BY <1>2, <2>2, <2>3, <2>4
<1>5. ASSUME NEW i \in 0 .. n - 1, i \in good PROVE i + 1 \in good
  <2>1. /\ i + 1 \in 1 .. n /\ i \in 0 .. n /\ i + 1 # 0 /\ i + 1 \in 0 .. n /\ i \in Nat
        /\ (i + 1) - 1 = i /\ (i # 0 => i + 1 \in 2 .. n /\ i \in 1 .. n)
    BY <1>2
  <2> DEFINE v   == tokens[i + 1]
             pos == a[i]
             s   == e[i]
             m   == Pads(i)
  <2>2. s \in Seq(U) /\ e[i + 1] = s \o Piece(tokens, grids, i + 1) /\ v \in U
    BY <1>2, <2>1
  <2>3. a[i + 1] = AfterToken(images, tokens, grids, pos, i + 1)
    BY <1>3, <2>1
  <2>4. m \in Nat /\ Pads(i + 1) = m + (IF v = Pad THEN 1 ELSE 0)
    BY <2>1, PadsStep
  <2>5. Good(i)
    BY <1>5
  <2>6. Whole(s, grids, m, pos) /\ Len(pos) = Len(s)
    BY <2>5
  <2>7. CASE v # Pad
    <3>1. e[i + 1] = s \o <<v>>
      BY <2>2, <2>7 DEF Piece
    <3>2. a[i + 1] = Append(pos, Everywhere(NextPosition(pos)))
      BY <2>3, <2>7, Zenon DEF AfterToken
    <3>3. Pads(i + 1) = m
      BY <2>4, <2>7
    <3>4. Len(s) = 0 \/ s[Len(s)] = Pad \/ LaidOut(s, grids, m, pos)
      BY <2>5
    <3> HIDE DEF v, pos, s, m, Pads, Good
    <3>5. /\ LaidOut(s \o <<v>>, grids, m, Append(pos, Everywhere(NextPosition(pos))))
          /\ Len(Append(pos, Everywhere(NextPosition(pos)))) = Len(s \o <<v>>)
          /\ Len(s \o <<v>>) # 0 /\ (s \o <<v>>)[Len(s \o <<v>>)] # Pad
      BY <2>2, <2>4, <2>6, <2>7, <3>4, TextFollows
    <3>6. /\ LaidOut(e[i + 1], grids, Pads(i + 1), a[i + 1])
          /\ Len(a[i + 1]) = Len(e[i + 1]) /\ Len(e[i + 1]) # 0
          /\ (v = Pad <=> e[i + 1][Len(e[i + 1])] = Pad)
      BY <2>7, <3>1, <3>2, <3>3, <3>5, Zenon
    <3>7. Whole(e[i + 1], grids, Pads(i + 1), a[i + 1])
      BY <3>6, LaidOutIsWhole
    <3> QED BY <2>1, <3>6, <3>7 DEF Good, v
  <2>8. CASE v = Pad
    <3> DEFINE grid == grids[Pads(i + 1)]
               pads == PadsOf(grid)
               q == OverGrid(grid, NextPosition(pos))
    <3>1. e[i + 1] = s \o pads
      BY <2>2, <2>8, Zenon DEF Piece, PadsOf
    <3>2. a[i + 1] = pos \o q
      BY <2>3, <2>8, Zenon DEF AfterToken
    <3>3. Pads(i + 1) = m + 1
      BY <2>4, <2>8
    <3>4. Len(s) = 0 \/ s[Len(s)] # Pad
      <4>1. i # 0 => tokens[i] # Pad
        BY <2>1, <2>8
      <4> QED BY <2>5, <4>1
    <3>5. grid \in Grids /\ grid = grids[m + 1] /\ ~Ragged(grid)
      BY <1>2, <2>1, <2>8, <3>3
    <3> HIDE DEF v, pos, s, m, Pads, Good, grid
    <3>6. Pad \in U /\ s \in Seq(U) /\ m \in Nat
      BY <1>2, <2>2, <2>4
    <3>7. /\ LaidOut(s \o pads, grids, m + 1, pos \o q)
          /\ Len(pos \o q) = Len(s \o pads)
          /\ Len(s \o pads) # 0 /\ (s \o pads)[Len(s \o pads)] = Pad
      BY <2>6, <3>4, <3>5, <3>6, GridFollows, ZenonT(40)
    <3> HIDE DEF pads, q
    <3>8. /\ LaidOut(e[i + 1], grids, Pads(i + 1), a[i + 1])
          /\ Len(a[i + 1]) = Len(e[i + 1]) /\ Len(e[i + 1]) # 0
          /\ (v = Pad <=> e[i + 1][Len(e[i + 1])] = Pad)
      BY <2>8, <3>1, <3>2, <3>3, <3>7, Zenon
    <3>9. Whole(e[i + 1], grids, Pads(i + 1), a[i + 1])
      BY <3>8, LaidOutIsWhole
    <3> QED BY <2>1, <3>8, <3>9 DEF Good, v
  <2> QED BY <2>7, <2>8
<1>6. n \in good
  <2> HIDE DEF good, n
  <2>1. n \in 0 .. n
    BY <1>2
  <2>2. 0 .. n \subseteq good
    BY <1>2, <1>4, <1>5, UpTo
  <2> QED BY <2>1, <2>2
<1>7. Whole(e[n], grids, Pads(n), a[n]) /\ Len(a[n]) = Len(e[n]) /\ Len(e[n]) # 0
  BY <1>2, <1>6
<1>8. e[n] \in Seq(U)
  BY <1>2
<1> HIDE DEF n, good, Pads
<1>9. Positions(e[n], grids) = a[n]
  BY <1>7, <1>8, WholePositions
<1>10. a[n] \in Seq(Place) /\ Reaches(a[n], NextPosition(a[n]))
  BY <1>7, WholeReaches
<1>11. Spans(a[n], NextPosition(a[n]))
  <2>1. a[n] # <<>>
    <3>1. Len(a[n]) # 0
      BY <1>7
    <3> QED BY <3>1
  <2> QED BY <1>10, <2>1 DEF Reaches
<1> QED BY <1>2, <1>7, <1>8, <1>9, <1>10, <1>11 DEF n, U

(***************************************************************************)
(* What the engine gives its rows                                          *)
(***************************************************************************)

(* The reference of r puts its prompt at pos.                              *)
RefersTo(r, pos) ==
  /\ pos \in Seq(Place) /\ NextPosition(pos) \in Nat
  /\ \A at \in 1 .. Len(pos) : ReferencePositions(r)[at] = pos[at]
  /\ \A k \in 1 .. Content[r].maxNew :
       ReferencePositions(r)[Len(pos) + k] = Everywhere(NextPosition(pos) + (k - 1))

LEMMA ReferenceIs ==
  ASSUME NEW r \in Request, Len(Content[r].tokens) \in Nat
  PROVE  \E a : /\ ReferenceTo(Images(r), Content[r].tokens, handler[r].grids,
                               Len(Content[r].tokens), a)
                /\ a[Len(Content[r].tokens)] \in Seq(Place)
                     /\ NextPosition(a[Len(Content[r].tokens)]) \in Nat
                   => RefersTo(r, a[Len(Content[r].tokens)])
<1> DEFINE n == Len(Content[r].tokens)
           a == CHOOSE b : ReferenceTo(Images(r), Content[r].tokens, handler[r].grids, n, b)
           pos == a[n]
           c == Content[r].maxNew
           tail == [k \in 1 .. c |-> Everywhere(NextPosition(pos) + k - 1)]
<1>1. ReferenceTo(Images(r), Content[r].tokens, handler[r].grids, n, a)
  BY ReferenceExists
<1>2. ReferencePositions(r) = pos \o tail
  BY DEF ReferencePositions, ReferenceTo, AfterToken, OverGrid, StandsForImage
<1> HIDE DEF a
<1>3. ASSUME pos \in Seq(Place), NextPosition(pos) \in Nat PROVE RefersTo(r, pos)
  <2>1. c \in Nat
    BY ImageRequestsAssumption
  <2> DEFINE b == NextPosition(pos)
             P == Place
  <2>2. \A k \in 1 .. c : Everywhere(b + (k - 1)) \in Place
    BY <1>3 DEF Everywhere, Place
  <2> HIDE DEF b, P, pos, c
  <2>3. /\ tail \in Seq(P) /\ Len(tail) = c
        /\ \A k \in 1 .. c : tail[k] = Everywhere(b + (k - 1))
    <3> DEFINE t == [k \in 1 .. c |-> Everywhere(b + (k - 1))]
    <3>1. t \in [1 .. c -> P] /\ \A k \in 1 .. c : t[k] = Everywhere(b + (k - 1))
      BY <2>2 DEF P
    <3>2. tail = t
      BY DEF b
    <3> HIDE DEF t
    <3>3. t \in Seq(P) /\ Len(t) = c
      BY <2>1, <3>1
    <3> HIDE DEF tail
    <3> QED BY <3>1, <3>2, <3>3
  <2> HIDE DEF tail
  <2>4. pos \in Seq(P)
    BY <1>3 DEF P
  <2>5. /\ \A at \in 1 .. Len(pos) : (pos \o tail)[at] = pos[at]
        /\ \A k \in 1 .. c : (pos \o tail)[Len(pos) + k] = tail[k]
    BY <2>3, <2>4, Concatenated
  <2>6. \A k \in 1 .. c : ReferencePositions(r)[Len(pos) + k] = Everywhere(b + (k - 1))
    BY <1>2, <2>3, <2>5
  <2> QED BY <1>2, <1>3, <2>5, <2>6 DEF RefersTo, b, c
<1> QED BY <1>1, <1>3

(* The tokens of a request, and its grids once it is submitted.            *)
LEMMA PromptIs ==
  ASSUME NEW r \in Request
  PROVE  /\ Content[r].tokens \in Seq(ToSet(Content[r].tokens))
         /\ Len(Content[r].tokens) \in Nat /\ Content[r].maxNew \in Nat
<1>1. Content[r].tokens \in Seq(ToSet(Content[r].tokens)) /\ Content[r].maxNew \in Nat
  BY ImageRequestsAssumption DEF Sound
<1> DEFINE T == Content[r].tokens
           S == ToSet(T)
<1> HIDE DEF T, S
<1>2. T \in Seq(S)
  BY <1>1 DEF T, S
<1>3. Len(T) \in Nat
  BY <1>2
<1> QED BY <1>1, <1>3 DEF T

(* The reference of a request with images is what qwen3_5_mrope_positions  *)
(* makes of its expanded prompt.                                           *)
LEMMA ImageReference ==
  ASSUME EInv, NEW r \in Request, handler[r].stage = "submitted", Images(r) # <<>>
  PROVE  LET E == Submitted(r)
             pos == Positions(E, handler[r].grids)
         IN  /\ E \in Seq(ToSet(Content[r].tokens) \cup {Pad}) /\ Len(E) # 0
             /\ RefersTo(r, pos) /\ Len(pos) = Len(E) /\ Spans(pos, NextPosition(pos))
<1> DEFINE grids == handler[r].grids
           T     == Content[r].tokens
           n     == Len(T)
           V     == ToSet(T)
<1>1. Fits(r, handler[r])
  BY DEF EInv, HandlersFit
<1>2. /\ grids \in Seq(Grids) /\ Len(grids) = Len(Images(r))
      /\ Expand(T, grids) # Rejected /\ Submitted(r) = Expand(T, grids)
  BY <1>1 DEF Fits, Submitted
<1>3. T \in Seq(V) /\ n \in Nat
  BY PromptIs
<1>4. \A i \in 2 .. n : T[i] # Pad \/ T[i - 1] # Pad
  <2>1. PadsBefore(T, n) = Len(grids)
    BY <1>2 DEF Expand
  <2> QED BY <1>2, <2>1, ImageRequestsAssumption DEF Sound, Images
<1>5. PICK a : /\ ReferenceTo(Images(r), T, grids, n, a)
               /\ a[n] \in Seq(Place) /\ NextPosition(a[n]) \in Nat => RefersTo(r, a[n])
  BY <1>3, ReferenceIs
<1> HIDE DEF T, grids, n, V
<1>6. LET E == Expand(T, grids)
          p == a[Len(T)]
      IN  /\ E \in Seq(V \cup {Pad}) /\ Len(E) # 0
          /\ Positions(E, grids) = p /\ Len(p) = Len(E)
          /\ p \in Seq(Place) /\ Spans(p, NextPosition(p))
  BY <1>2, <1>3, <1>4, <1>5, ExpandedIsLaid DEF n
<1>7. NextPosition(a[n]) \in Nat /\ RefersTo(r, a[n])
  BY <1>5, <1>6 DEF Spans, n
<1> QED BY <1>2, <1>6, <1>7 DEF grids, T, n, V

(* One token of text more.                                                 *)
LEMMA TextReaches ==
  ASSUME NEW i \in Nat, NEW pos, Reaches(pos, i), Len(pos) = i,
         \A at \in 1 .. i : pos[at] = Everywhere(at - 1)
  PROVE  LET p == Append(pos, Everywhere(NextPosition(pos)))
         IN  /\ Reaches(p, i + 1) /\ Len(p) = i + 1
             /\ \A at \in 1 .. i + 1 : p[at] = Everywhere(at - 1)
<1>1. NextPosition(pos) = i /\ pos \in Seq(Place)
  BY NextIs
<1> DEFINE x == Everywhere(i)
           p == Append(pos, x)
           P == Place
<1>2. x \in P /\ Spans(<<x>>, i + 1)
  <2>1. i + 0 = i
    OBVIOUS
  <2> QED BY <2>1, TextPlaces
<1> HIDE DEF x, P
<1>3. pos \in Seq(P)
  BY <1>1 DEF P
<1>4. /\ p = pos \o <<x>> /\ Len(p) = i + 1 /\ p[i + 1] = x
      /\ \A at \in 1 .. i : p[at] = pos[at]
  <2>1. /\ Len(pos \o <<x>>) = i + 1 /\ (pos \o <<x>>)[i + 1] = x
        /\ \A at \in 1 .. i : (pos \o <<x>>)[at] = pos[at]
    BY <1>2, <1>3, OneMore
  <2>2. p = pos \o <<x>>
    BY <1>2, <1>3, AppendLast
  <2> QED BY <2>1, <2>2, Zenon
<1> HIDE DEF p
<1>5. Reaches(p, i + 1)
  <2>1. i <= i + 1
    OBVIOUS
  <2> QED BY <1>2, <1>4, <2>1, ReachesFurther
<1>6. ASSUME NEW at \in 1 .. i + 1 PROVE p[at] = Everywhere(at - 1)
  <2>1. at \in 1 .. i \/ (at = i + 1 /\ at - 1 = i)
    OBVIOUS
  <2>2. CASE at \in 1 .. i
    BY <1>4, <2>2
  <2>3. CASE at = i + 1 /\ at - 1 = i
    BY <1>4, <2>3 DEF x
  <2> QED BY <2>1, <2>2, <2>3
<1> QED BY <1>1, <1>4, <1>5, <1>6 DEF p, x

(* Without images each token is at its own place in the sequence.          *)
LEMMA TextReference ==
  ASSUME NEW r \in Request, Images(r) = <<>>
  PROVE  \A at \in 1 .. Len(Content[r].tokens) + Content[r].maxNew :
           ReferencePositions(r)[at] = Everywhere(at - 1)
<1> DEFINE grids == handler[r].grids
           T     == Content[r].tokens
           n     == Len(T)
           c     == Content[r].maxNew
<1>1. n \in Nat /\ c \in Nat
  BY PromptIs
<1>2. PICK a : /\ ReferenceTo(Images(r), T, grids, n, a)
               /\ a[n] \in Seq(Place) /\ NextPosition(a[n]) \in Nat => RefersTo(r, a[n])
  BY <1>1, ReferenceIs
<1>3. \A i \in 0 .. n : a[i] = IF i = 0 THEN <<>> ELSE AfterToken(Images(r), T, grids, a[i - 1], i)
  BY <1>2, Zenon DEF ReferenceTo
<1> HIDE DEF T, grids, n, c
<1> DEFINE Good(i) == /\ Reaches(a[i], i) /\ Len(a[i]) = i
                      /\ \A at \in 1 .. i : a[i][at] = Everywhere(at - 1)
           good == {i \in 0 .. n : Good(i)}
<1>4. 0 \in good
  <2>1. a[0] = <<>> /\ 0 \in 0 .. n
    BY <1>1, <1>3
  <2>2. Reaches(<<>>, 0) /\ Len(<<>>) = 0
    BY DEF Reaches
  <2> QED BY <2>1, <2>2
<1>5. ASSUME NEW i \in 0 .. n - 1, i \in good PROVE i + 1 \in good
  <2>1. i + 1 \in 0 .. n /\ i + 1 # 0 /\ (i + 1) - 1 = i /\ i \in Nat
    BY <1>1
  <2>2. a[i + 1] = AfterToken(Images(r), T, grids, a[i], i + 1)
    BY <1>3, <2>1
  <2>3. a[i + 1] = Append(a[i], Everywhere(NextPosition(a[i])))
    BY <2>2, Zenon DEF AfterToken
  <2> DEFINE pos == a[i]
  <2>4. Reaches(pos, i) /\ Len(pos) = i /\ \A at \in 1 .. i : pos[at] = Everywhere(at - 1)
    BY <1>5
  <2> HIDE DEF pos
  <2> DEFINE p == Append(pos, Everywhere(NextPosition(pos)))
  <2>5. Reaches(p, i + 1) /\ Len(p) = i + 1 /\ \A at \in 1 .. i + 1 : p[at] = Everywhere(at - 1)
    BY <2>1, <2>4, TextReaches
  <2>6. a[i + 1] = p
    BY <2>3 DEF pos
  <2> HIDE DEF p
  <2> QED BY <2>1, <2>5, <2>6
<1>6. n \in good
  <2> HIDE DEF good
  <2>1. n \in 0 .. n
    BY <1>1
  <2>2. 0 .. n \subseteq good
    BY <1>1, <1>4, <1>5, UpTo
  <2> QED BY <2>1, <2>2
<1> DEFINE pos == a[n]
<1>7. Reaches(pos, n) /\ Len(pos) = n /\ \A at \in 1 .. n : pos[at] = Everywhere(at - 1)
  BY <1>6
<1> HIDE DEF pos
<1>8. NextPosition(pos) = n /\ pos \in Seq(Place)
  BY <1>7, NextIs
<1>9. RefersTo(r, pos)
  BY <1>1, <1>2, <1>8 DEF pos
<1>10. ASSUME NEW at \in 1 .. n + c PROVE ReferencePositions(r)[at] = Everywhere(at - 1)
  <2>1. CASE at \in 1 .. n
    BY <1>7, <1>9, <2>1 DEF RefersTo
  <2>2. CASE at \notin 1 .. n
    <3> DEFINE k == at - n
    <3>1. k \in 1 .. c /\ n + k = at /\ n + (k - 1) = at - 1
      BY <1>1, <2>2
    <3> HIDE DEF k
    <3>2. ReferencePositions(r)[Len(pos) + k] = Everywhere(NextPosition(pos) + (k - 1))
      BY <1>9, <3>1 DEF RefersTo, c
    <3> QED BY <1>7, <1>8, <3>1, <3>2
  <2> QED BY <2>1, <2>2
<1> QED BY <1>10 DEF n, c, T

(* The elements of S up to i.                                              *)
UpToIn(S, i) == Cardinality({j \in S : j <= i})

LEMMA UpToStep ==
  ASSUME NEW n \in Nat, NEW S \in SUBSET (1 .. n), NEW i \in Nat
  PROVE  /\ UpToIn(S, i) \in Nat /\ UpToIn(S, 0) = 0
         /\ UpToIn(S, i + 1) = UpToIn(S, i) + (IF i + 1 \in S THEN 1 ELSE 0)
         /\ UpToIn(S, n) = Cardinality(S)
<1> DEFINE P(k) == {j \in S : j <= k}
<1>0. \A j \in S : j \in Nat /\ 1 <= j /\ j <= n
  OBVIOUS
<1>1. IsFiniteSet(P(i)) /\ Cardinality(P(i)) \in Nat
  <2>1. IsFiniteSet(1 .. n)
    BY FS_Interval
  <2>2. IsFiniteSet(S)
    BY <2>1, FS_Subset
  <2>3. P(i) \in SUBSET S
    OBVIOUS
  <2> HIDE DEF P
  <2> QED BY <2>2, <2>3, FS_Subset, FS_CardinalityType
<1>2. i + 1 \notin P(i) /\ P(i + 1) = IF i + 1 \in S THEN P(i) \cup {i + 1} ELSE P(i)
  <2>1. \A j \in S : j <= i + 1 <=> j <= i \/ j = i + 1
    BY <1>0
  <2>2. ~(i + 1 <= i)
    OBVIOUS
  <2> QED BY <2>1, <2>2, Zenon
<1>3. P(0) = {} /\ P(n) = S
  <2>1. \A j \in S : ~(j <= 0)
    BY <1>0
  <2> QED BY <1>0, <2>1, Zenon
<1>4. \A k : UpToIn(S, k) = Cardinality(P(k))
  BY DEF UpToIn
<1> HIDE DEF P
<1>5. Cardinality(P(i) \cup {i + 1}) = Cardinality(P(i)) + 1
  BY <1>1, <1>2, FS_AddElement
<1>6. Cardinality({}) = 0
  BY FS_EmptySet
<1> QED BY <1>1, <1>2, <1>3, <1>4, <1>5, <1>6

LEMMA UpToGrows ==
  ASSUME NEW n \in Nat, NEW S \in SUBSET (1 .. n), NEW i \in Nat, NEW k \in Nat, i <= k
  PROVE  UpToIn(S, i) <= UpToIn(S, k)
<1> DEFINE A == {j \in S : j <= i}
           B == {j \in S : j <= k}
<1>1. A \subseteq B
  <2>1. \A j \in S : j \in Nat
    OBVIOUS
  <2>2. \A j \in S : j <= i => j <= k
    BY <2>1
  <2> QED BY <2>2, Zenon
<1>2. IsFiniteSet(B)
  <2>1. IsFiniteSet(1 .. n)
    BY FS_Interval
  <2>2. IsFiniteSet(S)
    BY <2>1, FS_Subset
  <2>3. B \in SUBSET S
    OBVIOUS
  <2> HIDE DEF B
  <2> QED BY <2>2, <2>3, FS_Subset
<1> HIDE DEF A, B
<1>3. Cardinality(A) <= Cardinality(B)
  BY <1>1, <1>2, FS_Subset
<1> QED BY <1>3 DEF UpToIn, A, B

(* The m-th element of Ascending(S) is the one with m up to it.            *)
LEMMA AscendingIn ==
  ASSUME NEW n \in Nat, NEW S \in SUBSET (1 .. n)
  PROVE  /\ Cardinality(S) \in Nat /\ DOMAIN Ascending(S) = 1 .. Cardinality(S)
         /\ \A m \in 1 .. Cardinality(S) :
              Ascending(S)[m] \in S /\ UpToIn(S, Ascending(S)[m]) = m
         /\ \A i \in S : /\ UpToIn(S, i) \in 1 .. Cardinality(S)
                         /\ Ascending(S)[UpToIn(S, i)] = i
<1> DEFINE k == Cardinality(S)
<1>1. k \in Nat /\ UpToIn(S, n) = k
  BY UpToStep
<1>2. Ascending(S) = [m \in 1 .. k |-> CHOOSE i \in S : UpToIn(S, i) = m]
  BY DEF Ascending, UpToIn
<1> HIDE DEF k
<1>3. ASSUME NEW i \in S, NEW j \in S, UpToIn(S, i) = UpToIn(S, j) PROVE ~(i < j)
  <2> SUFFICES ASSUME i < j PROVE FALSE
    OBVIOUS
  <2>1. i \in Nat /\ j - 1 \in Nat /\ (j - 1) + 1 = j /\ i <= j - 1
    OBVIOUS
  <2>2. UpToIn(S, i) <= UpToIn(S, j - 1)
    BY <2>1, UpToGrows
  <2>3. /\ UpToIn(S, j - 1) \in Nat /\ UpToIn(S, i) \in Nat
        /\ UpToIn(S, (j - 1) + 1) = UpToIn(S, j - 1) + (IF (j - 1) + 1 \in S THEN 1 ELSE 0)
    BY <2>1, UpToStep
  <2>4. UpToIn(S, j) = UpToIn(S, j - 1) + 1
    BY <2>1, <2>3
  <2> QED BY <1>3, <2>2, <2>3, <2>4
<1>4. ASSUME NEW i \in S, NEW j \in S, UpToIn(S, i) = UpToIn(S, j) PROVE i = j
  <2>1. ~(i < j) /\ ~(j < i)
    BY <1>3, <1>4
  <2> QED BY <2>1
<1>5. ASSUME NEW i \in S PROVE UpToIn(S, i) \in 1 .. k
  <2>1. i \in Nat /\ i <= n /\ i - 1 \in Nat /\ (i - 1) + 1 = i
    OBVIOUS
  <2>2. UpToIn(S, i) <= k /\ UpToIn(S, i) \in Nat
    BY <1>1, <2>1, UpToGrows, UpToStep
  <2>3. /\ UpToIn(S, (i - 1) + 1) = UpToIn(S, i - 1) + (IF (i - 1) + 1 \in S THEN 1 ELSE 0)
        /\ UpToIn(S, i - 1) \in Nat
    BY <2>1, UpToStep
  <2>4. UpToIn(S, i) = UpToIn(S, i - 1) + 1
    BY <2>1, <2>3
  <2> QED BY <2>2, <2>3, <2>4
<1>6. ASSUME NEW m \in 1 .. k PROVE \E i \in S : UpToIn(S, i) = m
  <2> DEFINE D == {i \in 0 .. n : m <= UpToIn(S, i)}
  <2>1. n \in D /\ D \in SUBSET Nat
    BY <1>1
  <2>2. Min(D) \in D /\ \A i \in D : Min(D) <= i
    BY <2>1, LeastOf
  <2> DEFINE i == Min(D)
  <2>3. i \in 0 .. n /\ m <= UpToIn(S, i) /\ \A j \in 0 .. n : m <= UpToIn(S, j) => i <= j
    BY <2>2
  <2> HIDE DEF i, D
  <2>4. i # 0
    BY <2>3, UpToStep
  <2>5. i - 1 \in 0 .. n /\ i - 1 \in Nat /\ (i - 1) + 1 = i /\ ~(i <= i - 1)
    BY <2>3, <2>4
  <2>6. ~(m <= UpToIn(S, i - 1))
    BY <2>3, <2>5
  <2>7. /\ UpToIn(S, i - 1) \in Nat
        /\ UpToIn(S, i) = UpToIn(S, i - 1) + (IF i \in S THEN 1 ELSE 0)
    BY <2>5, UpToStep
  <2>8. i \in S
    BY <2>3, <2>6, <2>7
  <2>9. UpToIn(S, i) = m
    BY <2>3, <2>6, <2>7, <2>8
  <2> QED BY <2>8, <2>9
<1>7. \A m \in 1 .. k : Ascending(S)[m] \in S /\ UpToIn(S, Ascending(S)[m]) = m
  BY <1>2, <1>6
<1>8. ASSUME NEW i \in S PROVE Ascending(S)[UpToIn(S, i)] = i
  <2> DEFINE m == UpToIn(S, i)
  <2>1. m \in 1 .. k
    BY <1>5
  <2>2. Ascending(S)[m] \in S /\ UpToIn(S, Ascending(S)[m]) = m
    BY <1>7, <2>1
  <2> QED BY <1>4, <2>2
<1> QED BY <1>1, <1>2, <1>5, <1>7, <1>8 DEF k

(* The merged tokens of the first i images.                                *)
MergedBelow(grids, i) == Total([j \in 1 .. i |-> Merged(grids[j])])

LEMMA MergedStep ==
  ASSUME NEW grids, NEW i \in Nat, \A m \in 1 .. i + 1 : Merged(grids[m]) \in Int
  PROVE  /\ MergedBelow(grids, 0) = 0 /\ MergedBelow(grids, i) \in Int
         /\ MergedBelow(grids, i + 1) = MergedBelow(grids, i) + Merged(grids[i + 1])
<1>1. MergedBelow(grids, 0) = 0
  <2> DEFINE x == [j \in 1 .. 0 |-> Merged(grids[j])]
  <2>1. x = <<>>
    OBVIOUS
  <2> HIDE DEF x
  <2>2. Total(x) = 0
    BY <2>1, TotalOfNone
  <2> QED BY <2>2 DEF MergedBelow, x
<1> DEFINE x == [j \in 1 .. i |-> Merged(grids[j])]
           y == [j \in 1 .. i + 1 |-> Merged(grids[j])]
           v == Merged(grids[i + 1])
<1>2. /\ Table(x, i) /\ Table(y, i + 1) /\ v \in Int /\ y[i + 1] = v
      /\ \A j \in 1 .. i : x[j] \in Int /\ y[j] = x[j]
  <2>1. i + 1 \in 1 .. i + 1 /\ \A j \in 1 .. i : j \in 1 .. i + 1
    OBVIOUS
  <2> QED BY <2>1 DEF Table
<1> HIDE DEF x, y, v
<1>3. Prolongs(Int, i, x, v, y)
  BY <1>2 DEF Prolongs
<1>4. x \in Seq(Int) /\ y = Append(x, v)
  BY <1>3, MappedAppend
<1>5. Total(x) \in Int /\ Total(y) = Total(x) + v
  BY <1>2, <1>4, TotalAppend
<1> QED BY <1>1, <1>5 DEF MergedBelow, x, y, v

(* The features of all images: the output of the tower, in order.          *)
LEMMA FeaturesAre ==
  ASSUME NEW grids, Len(grids) \in Nat \ {0}, DOMAIN grids = 1 .. Len(grids),
         \A m \in 1 .. Len(grids) : Merged(grids[m]) \in Nat
  PROVE  /\ MergedBelow(grids, Len(grids)) \in Nat
         /\ \A k \in 1 .. MergedBelow(grids, Len(grids)) :
              FlattenSeq([i \in DOMAIN grids |-> Features(grids, i)])[k] = k
<1> DEFINE n == Len(grids)
           seqs == [i \in DOMAIN grids |-> Features(grids, i)]
           M(i) == MergedBelow(grids, i)
           w(i) == Merged(grids[i])
<1>1. \A i \in 0 .. n - 1 : M(0) = 0 /\ M(i) \in Int /\ M(i + 1) = M(i) + w(i + 1)
  <2> TAKE i \in 0 .. n - 1
  <2>1. i \in Nat /\ \A m \in 1 .. i + 1 : m \in 1 .. n
    OBVIOUS
  <2>2. \A m \in 1 .. i + 1 : Merged(grids[m]) \in Int
    BY <2>1
  <2> QED BY <2>1, <2>2, MergedStep
<1>2. Len(seqs) = n /\ \A i \in 1 .. n : seqs[i] = Features(grids, i)
  OBVIOUS
<1> HIDE DEF seqs, M
<1>3. ASSUME NEW i \in 0 .. n - 1
      PROVE  /\ seqs[i + 1] \in Seq(Int) /\ Len(seqs[i + 1]) = w(i + 1)
             /\ \A k \in 1 .. w(i + 1) : seqs[i + 1][k] = M(i) + k
  <2>1. i + 1 \in 1 .. n /\ (i + 1) - 1 = i
    OBVIOUS
  <2>2. Features(grids, i + 1) = [k \in 1 .. w(i + 1) |-> M(i) + k]
    BY <2>1 DEF Features, M, MergedBelow
  <2>3. w(i + 1) \in Nat /\ M(i) \in Int
    BY <1>1, <2>1
  <2> HIDE DEF w
  <2> DEFINE f == [k \in 1 .. w(i + 1) |-> M(i) + k]
  <2>4. f \in Seq(Int) /\ Len(f) = w(i + 1) /\ \A k \in 1 .. w(i + 1) : f[k] = M(i) + k
    BY <2>3
  <2> HIDE DEF f
  <2>5. seqs[i + 1] = f
    BY <1>2, <2>1, <2>2 DEF f
  <2> QED BY <2>4, <2>5
<1>4. \A i \in 1 .. n : seqs[i] \in Seq(Int)
  <2> TAKE i \in 1 .. n
  <2>1. i - 1 \in 0 .. n - 1 /\ (i - 1) + 1 = i
    OBVIOUS
  <2>2. seqs[(i - 1) + 1] \in Seq(Int)
    BY <1>3, <2>1
  <2> QED BY <2>1, <2>2
<1>5. PICK e : /\ \A i \in 0 .. n : e[i] \in Seq(Int)
               /\ e[0] = <<>> /\ e[n] = FlattenSeq(seqs)
               /\ \A i \in 0 .. n - 1 : e[i + 1] = e[i] \o seqs[i + 1]
  <2>1. Len(seqs) \in Nat \ {0} /\ \A i \in 1 .. Len(seqs) : seqs[i] \in Seq(Int)
    BY <1>2, <1>4
  <2>2. \E e : /\ \A i \in 0 .. Len(seqs) : e[i] \in Seq(Int)
               /\ e[0] = <<>> /\ e[Len(seqs)] = FlattenSeq(seqs)
               /\ \A i \in 0 .. Len(seqs) - 1 : e[i + 1] = e[i] \o seqs[i + 1]
    BY <2>1, FlattenedPrefixes, Zenon
  <2> QED BY <1>2, <2>2
<1> DEFINE Good(i) == Len(e[i]) = M(i) /\ \A k \in 1 .. M(i) : e[i][k] = k
           good == {i \in 0 .. n : Good(i)}
<1>6. 0 \in good
  <2>1. 0 \in 0 .. n - 1 /\ 0 \in 0 .. n
    OBVIOUS
  <2>2. M(0) = 0 /\ Len(e[0]) = 0
    BY <1>1, <1>5, <2>1
  <2> QED BY <2>1, <2>2
<1>7. ASSUME NEW i \in 0 .. n - 1, i \in good PROVE i + 1 \in good
  <2> DEFINE l == M(i)
             c == w(i + 1)
             s == seqs[i + 1]
             d == e[i]
  <2>1. i \in 0 .. n /\ i + 1 \in 0 .. n
    OBVIOUS
  <2>2. /\ d \in Seq(Int) /\ s \in Seq(Int) /\ Len(d) = l /\ Len(s) = c
        /\ e[i + 1] = d \o s /\ M(i + 1) = l + c
        /\ \A k \in 1 .. l : d[k] = k
        /\ \A k \in 1 .. c : s[k] = l + k
    BY <1>1, <1>3, <1>5, <1>7, <2>1
  <2> DEFINE j == d \o s
  <2> HIDE DEF l, c, s, d, Good
  <2>3. /\ l \in Nat /\ c \in Nat /\ Len(j) = l + c
        /\ \A k \in 1 .. l : j[k] = d[k]
        /\ \A k \in l + 1 .. l + c : j[k] = s[k - l] /\ k - l \in 1 .. c
    <3>1. d \in Seq(Int) /\ s \in Seq(Int) /\ l = Len(d) /\ c = Len(s)
      BY <2>2
    <3> QED BY <3>1, Joined
  <2> HIDE DEF j
  <2>4. ASSUME NEW k \in 1 .. l + c PROVE j[k] = k
    <3>1. k \in 1 .. l \/ k \in l + 1 .. l + c
      BY <2>3
    <3>2. CASE k \in 1 .. l
      BY <2>2, <2>3, <3>2
    <3>3. CASE k \in l + 1 .. l + c
      <4>1. j[k] = s[k - l] /\ k - l \in 1 .. c /\ l + (k - l) = k
        BY <2>3, <3>3
      <4> QED BY <2>2, <4>1
    <3> QED BY <3>1, <3>2, <3>3
  <2>5. e[i + 1] = j
    BY <2>2 DEF j
  <2>6. Good(i + 1)
    BY <2>2, <2>3, <2>4, <2>5 DEF Good
  <2> QED BY <2>1, <2>6
<1>8. n \in good
  <2> HIDE DEF good
  <2>1. n \in 0 .. n
    OBVIOUS
  <2>2. 0 .. n \subseteq good
    BY <1>6, <1>7, UpTo
  <2> QED BY <2>1, <2>2
<1>9. Len(e[n]) = M(n) /\ (\A k \in 1 .. M(n) : e[n][k] = k) /\ e[n] \in Seq(Int)
  <2>1. n \in 0 .. n
    OBVIOUS
  <2> QED BY <1>5, <1>8, <2>1
<1>10. M(n) \in Nat
  BY <1>9
<1> QED BY <1>5, <1>9, <1>10 DEF M, seqs

(* The pads of a prefix, and of what is added to it.                       *)
LEMMA PadsJoined ==
  ASSUME NEW U, NEW e \in Seq(U), NEW s \in Seq(U), NEW w \in Nat,
         \/ w = 0 /\ \A i \in 1 .. Len(s) : s[i] # Pad
         \/ w = Len(s) /\ \A i \in 1 .. Len(s) : s[i] = Pad
  PROVE  PadsBefore(e \o s, Len(e \o s)) = PadsBefore(e, Len(e)) + w
<1> DEFINE j == e \o s
           l == Len(e)
           c == Len(s)
           A == {i \in 1 .. l : e[i] = Pad}
           B == l + 1 .. l + w
<1>1. /\ l \in Nat /\ c \in Nat /\ Len(j) = l + c
      /\ \A i \in 1 .. l : j[i] = e[i]
      /\ \A i \in l + 1 .. l + c : j[i] = s[i - l] /\ i - l \in 1 .. c
  BY Joined
<1> HIDE DEF j
<1>2. \A i \in l + 1 .. l + c : j[i] = Pad <=> w # 0
  <2> TAKE i \in l + 1 .. l + c
  <2>1. j[i] = s[i - l] /\ i - l \in 1 .. c /\ c # 0
    BY <1>1
  <2> QED BY <2>1
<1>3. w = 0 \/ w = c
  OBVIOUS
<1> HIDE DEF l, c
<1>4. {i \in 1 .. l + c : j[i] = Pad} = A \cup B
  <2>1. ASSUME NEW i \in 1 .. l + c, j[i] = Pad PROVE i \in A \cup B
    <3>1. i \in 1 .. l \/ i \in l + 1 .. l + c
      BY <1>1
    <3>2. CASE i \in 1 .. l
      BY <1>1, <2>1, <3>2
    <3>3. CASE i \in l + 1 .. l + c
      BY <1>2, <1>3, <2>1, <3>3
    <3> QED BY <3>1, <3>2, <3>3
  <2>2. ASSUME NEW i \in A PROVE i \in 1 .. l + c /\ j[i] = Pad
    BY <1>1
  <2>3. ASSUME NEW i \in B PROVE i \in 1 .. l + c /\ j[i] = Pad
    <3>1. w # 0 /\ i \in l + 1 .. l + c
      BY <1>1, <1>3
    <3> QED BY <1>1, <1>2, <3>1
  <2> QED BY <2>1, <2>2, <2>3
<1>5. A \cap B = {}
  BY <1>1
<1>6. IsFiniteSet(A) /\ Cardinality(A) \in Nat
  <2>1. IsFiniteSet(1 .. l)
    BY <1>1, FS_Interval
  <2>2. A \in SUBSET (1 .. l)
    OBVIOUS
  <2> HIDE DEF A
  <2> QED BY <2>1, <2>2, FS_Subset, FS_CardinalityType
<1>7. IsFiniteSet(B) /\ Cardinality(B) = w
  <2>1. l + 1 \in Int /\ l + w \in Int
    BY <1>1
  <2>2. IsFiniteSet(B) /\ Cardinality(B) = IF l + 1 > l + w THEN 0 ELSE (l + w) - (l + 1) + 1
    BY <2>1, FS_Interval
  <2>3. (IF l + 1 > l + w THEN 0 ELSE (l + w) - (l + 1) + 1) = w
    BY <1>1
  <2> QED BY <2>2, <2>3
<1> HIDE DEF A, B
<1>8. Cardinality(A \cup B) = Cardinality(A) + w
  <2>1. Cardinality(A \cup B) = Cardinality(A) + Cardinality(B) - Cardinality(A \cap B)
    BY <1>6, <1>7, FS_Union
  <2>2. Cardinality(A \cap B) = 0
    BY <1>5, FS_EmptySet
  <2> HIDE DEF A, B
  <2> QED BY <1>6, <1>7, <2>1, <2>2
<1>9. PadsBefore(j, l + c) = Cardinality(A \cup B) /\ PadsBefore(e, l) = Cardinality(A)
  BY <1>4 DEF PadsBefore, A
<1> QED BY <1>1, <1>8, <1>9 DEF j, l, c

(* An expanded prompt has a pad for each merged token of its images.       *)
LEMMA ExpandedPads ==
  ASSUME NEW V, NEW tokens \in Seq(V), NEW grids \in Seq(Grids),
         Expand(tokens, grids) # Rejected
  PROVE  PadsBefore(Expand(tokens, grids), Len(Expand(tokens, grids)))
           = MergedBelow(grids, Len(grids))
<1> DEFINE n == Len(tokens)
           U == V \cup {Pad}
           Pads(i) == PadsBefore(tokens, i)
<1>1. PICK e : Expanding(U, tokens, grids, e)
  BY ExpandedPrefixes
<1>2. /\ n \in Nat \ {0} /\ Pad \in U
      /\ \A i \in 0 .. n : e[i] \in Seq(U)
      /\ e[0] = <<>> /\ e[n] = Expand(tokens, grids)
      /\ \A i \in 0 .. n - 1 : e[i + 1] = e[i] \o Piece(tokens, grids, i + 1)
      /\ \A i \in 1 .. n : tokens[i] \in U
      /\ \A i \in 1 .. n : tokens[i] = Pad =>
           /\ Pads(i) \in 1 .. Len(grids) /\ grids[Pads(i)] \in Grids /\ ~Ragged(grids[Pads(i)])
  BY <1>1, Zenon DEF Expanding
<1>3. /\ Pads(n) = Len(grids) /\ \A m \in 1 .. Len(grids) : ~Ragged(grids[m]) /\ grids[m] \in Grids
      /\ Len(grids) \in Nat
  BY DEF Expand
<1>4. \A m \in 1 .. Len(grids) : Merged(grids[m]) \in Int
  BY <1>3, MergedIsPositive
<1> HIDE DEF U
<1> DEFINE Good(i) == PadsBefore(e[i], Len(e[i])) = MergedBelow(grids, Pads(i))
           good == {i \in 0 .. n : Good(i)}
<1>5. 0 \in good
  <2>1. Pads(0) = 0 /\ PadsBefore(e[0], 0) = 0 /\ Len(e[0]) = 0
    BY <1>2, PadsStep
  <2>2. MergedBelow(grids, 0) = 0
    <3> DEFINE x == [j \in 1 .. 0 |-> Merged(grids[j])]
    <3>1. x = <<>>
      OBVIOUS
    <3> HIDE DEF x
    <3>2. Total(x) = 0
      BY <3>1, TotalOfNone
    <3> QED BY <3>2 DEF MergedBelow, x
  <2> QED BY <1>2, <2>1, <2>2
<1>6. ASSUME NEW i \in 0 .. n - 1, i \in good PROVE i + 1 \in good
  <2>1. i + 1 \in 1 .. n /\ i \in 0 .. n /\ i + 1 \in 0 .. n /\ i \in Nat
    BY <1>2
  <2> DEFINE v == tokens[i + 1]
             s == e[i]
             m == Pads(i)
  <2>2. /\ s \in Seq(U) /\ e[i + 1] = s \o Piece(tokens, grids, i + 1) /\ v \in U
        /\ e[i + 1] \in Seq(U)
    BY <1>2, <2>1
  <2>3. m \in Nat /\ Pads(i + 1) = m + (IF v = Pad THEN 1 ELSE 0)
    BY <2>1, PadsStep
  <2>4. PadsBefore(s, Len(s)) = MergedBelow(grids, m)
    BY <1>6
  <2>5. CASE v # Pad
    <3>1. e[i + 1] = s \o <<v>> /\ Pads(i + 1) = m
      BY <2>2, <2>3, <2>5 DEF Piece
    <3> HIDE DEF v, s, m, Pads
    <3>2. <<v>> \in Seq(U) /\ \A k \in 1 .. Len(<<v>>) : <<v>>[k] # Pad
      BY <2>2, <2>5
    <3>3. PadsBefore(s \o <<v>>, Len(s \o <<v>>)) = PadsBefore(s, Len(s)) + 0
      <4> DEFINE x == <<v>>
      <4> HIDE DEF x
      <4>1. x \in Seq(U) /\ (\A k \in 1 .. Len(x) : x[k] # Pad) /\ 0 \in Nat
        BY <3>2 DEF x
      <4>2. PadsBefore(s \o x, Len(s \o x)) = PadsBefore(s, Len(s)) + 0
        BY <2>2, <4>1, PadsJoined
      <4> QED BY <4>2 DEF x
    <3>4. PadsBefore(s, Len(s)) \in Nat
      <4>1. Len(s) \in Nat
        BY <2>2
      <4> QED BY <4>1, PadsStep
    <3>5. Good(i + 1)
      BY <2>4, <3>1, <3>3, <3>4
    <3> QED BY <2>1, <3>5
  <2>6. CASE v = Pad
    <3> DEFINE grid == grids[Pads(i + 1)]
               w == Merged(grid)
               x == PadsOf(grid)
    <3>1. e[i + 1] = s \o x
      BY <2>2, <2>6, Zenon DEF Piece, PadsOf
    <3>2. Pads(i + 1) = m + 1 /\ m + 1 \in 1 .. Len(grids)
      BY <1>2, <2>1, <2>3, <2>6
    <3>3. w \in Nat
      BY <1>2, <2>1, <2>6, MergedIsPositive
    <3>4. x \in Seq(U) /\ Len(x) = w /\ \A k \in 1 .. Len(x) : x[k] = Pad
      <4>1. x = [k \in 1 .. w |-> Pad]
        BY DEF PadsOf
      <4> HIDE DEF x, w
      <4> QED BY <1>2, <3>3, <4>1
    <3>5. \A k \in 1 .. m + 1 : Merged(grids[k]) \in Int
      <4>1. 1 .. m + 1 \subseteq 1 .. Len(grids)
        BY <1>3, <2>3, <3>2
      <4> QED BY <1>4, <4>1
    <3>6. MergedBelow(grids, m + 1) = MergedBelow(grids, m) + w
      BY <2>3, <3>2, <3>5, MergedStep
    <3> HIDE DEF v, s, m, Pads, x, w, grid
    <3>7. PadsBefore(s \o x, Len(s \o x)) = PadsBefore(s, Len(s)) + w
      BY <2>2, <3>3, <3>4, PadsJoined
    <3>8. Good(i + 1)
      BY <2>4, <3>1, <3>2, <3>6, <3>7
    <3> QED BY <2>1, <3>8
  <2> QED BY <2>5, <2>6
<1>7. n \in good
  <2> HIDE DEF good, n
  <2>1. n \in 0 .. n
    BY <1>2
  <2>2. 0 .. n \subseteq good
    BY <1>2, <1>5, <1>6, UpTo
  <2> QED BY <2>1, <2>2
<1> QED BY <1>2, <1>3, <1>7

(* The features of rows: those of the image tokens before each.            *)
FeatureOf(rows, features, row) ==
  LET at == {i \in DOMAIN rows : rows[i] = row}
  IN  IF at = {} THEN 0 ELSE features[Min(at)]

LEMMA FeatureAt ==
  ASSUME EInv, NEW r \in Request, handler[r].stage = "submitted", Images(r) # <<>>,
         NEW row \in 1 .. Len(Submitted(r))
  PROVE  FeatureOf(Ascending({i \in DOMAIN Submitted(r) : Submitted(r)[i] = Pad}),
                   FlattenSeq([i \in DOMAIN handler[r].grids |-> Features(handler[r].grids, i)]),
                   row)
           = ReferenceFeature(r, row)
<1> DEFINE grids == handler[r].grids
           T     == Content[r].tokens
           V     == ToSet(T)
           E     == Submitted(r)
           n     == Len(E)
           S     == {i \in DOMAIN E : E[i] = Pad}
           rows  == Ascending(S)
           f     == FlattenSeq([i \in DOMAIN grids |-> Features(grids, i)])
           at    == {i \in DOMAIN rows : rows[i] = row}
<1>1. Fits(r, handler[r])
  BY DEF EInv, HandlersFit
<1>2. /\ grids \in Seq(Grids) /\ Len(grids) = Len(Images(r))
      /\ Expand(T, grids) # Rejected /\ E = Expand(T, grids)
  BY <1>1 DEF Fits, Submitted
<1>3. T \in Seq(V)
  BY PromptIs
<1>4. E \in Seq(V \cup {Pad})
  BY ImageReference
<1>5. n \in Nat /\ DOMAIN E = 1 .. n
  BY <1>4
<1>6. /\ Len(grids) \in Nat \ {0} /\ DOMAIN grids = 1 .. Len(grids)
      /\ \A m \in 1 .. Len(grids) : Merged(grids[m]) \in Nat
  <2>1. Len(grids) # 0
    BY <1>2, ImagesAre
  <2>2. \A m \in 1 .. Len(grids) : ~Ragged(grids[m])
    BY <1>2 DEF Expand
  <2>3. \A m \in 1 .. Len(grids) : grids[m] \in Grids
    BY <1>2
  <2> QED BY <1>2, <2>1, <2>2, <2>3, MergedIsPositive
<1>7. PadsBefore(E, n) = MergedBelow(grids, Len(grids))
  <2> HIDE DEF T, grids, V
  <2> QED BY <1>2, <1>3, ExpandedPads
<1>8. \A k \in 1 .. PadsBefore(E, n) : f[k] = k
  <2> HIDE DEF grids
  <2> QED BY <1>6, <1>7, FeaturesAre DEF f
<1> HIDE DEF f
<1>9. S \in SUBSET (1 .. n) /\ S = {i \in 1 .. n : E[i] = Pad}
  BY <1>5
<1>10. /\ UpToIn(S, row) = PadsBefore(E, row) /\ Cardinality(S) = PadsBefore(E, n)
       /\ row \in 1 .. n
  <2>1. \A j \in Int : j \in 1 .. n /\ j <= row <=> j \in 1 .. row
    BY <1>5
  <2>2. {j \in S : j <= row} = {j \in 1 .. row : E[j] = Pad}
    BY <1>9, <2>1
  <2> QED BY <1>9, <2>2 DEF UpToIn, PadsBefore
<1> HIDE DEF E, n, S
<1>11. /\ DOMAIN rows = 1 .. Cardinality(S)
       /\ \A m \in 1 .. Cardinality(S) : rows[m] \in S /\ UpToIn(S, rows[m]) = m
       /\ \A i \in S : UpToIn(S, i) \in 1 .. Cardinality(S) /\ rows[UpToIn(S, i)] = i
  BY <1>5, <1>9, AscendingIn
<1>12. ReferenceFeature(r, row) = IF row \in S THEN PadsBefore(E, row) ELSE 0
  <2>1. row <= n /\ (row \in S <=> E[row] = Pad)
    BY <1>5, <1>9, <1>10
  <2> QED BY <2>1 DEF ReferenceFeature, E, n
<1> HIDE DEF rows
<1>13. CASE row \notin S
  <2>1. at = {}
    BY <1>11, <1>13
  <2> QED BY <1>12, <1>13, <2>1 DEF FeatureOf, rows, f, S, E
<1>14. CASE row \in S
  <2> DEFINE m == PadsBefore(E, row)
  <2>1. m \in 1 .. Cardinality(S) /\ rows[m] = row
    BY <1>10, <1>11, <1>14
  <2>2. \A i \in at : i = m
    BY <1>10, <1>11
  <2>3. at = {m}
    BY <1>11, <2>1, <2>2
  <2>4. f[m] = m
    BY <1>8, <1>10, <2>1
  <2>5. m \in Nat
    BY <2>1, <1>5, <1>9, AscendingIn
  <2> HIDE DEF m, at
  <2>6. Min(at) = m /\ at # {}
    <3>1. {m} \in SUBSET Nat /\ {m} # {}
      BY <2>5
    <3>2. Min({m}) \in {m}
      BY <3>1, LeastOf
    <3> QED BY <2>3, <3>2
  <2>7. FeatureOf(rows, f, row) = m
    BY <2>4, <2>6 DEF FeatureOf, at
  <2> QED BY <1>12, <1>14, <2>7 DEF rows, f, S, E, m
<1> QED BY <1>13, <1>14

(* A prompt with images is not that of a text-only sequence.               *)
LEMMA BuiltIsImage ==
  ASSUME NEW tokens, NEW grids
  PROVE  Build(tokens, grids) # NoImage
<1> DEFINE b == Build(tokens, grids)
<1>1. "rows" \in DOMAIN b
  BY DEF Build
<1> HIDE DEF b
<1>2. DOMAIN <<>> = {}
  OBVIOUS
<1>3. b # <<>>
  BY <1>1, <1>2
<1> QED BY <1>3 DEF b, NoImage

(* The prompt of a request with images.                                    *)
LEMMA PromptBuilt ==
  ASSUME EInv, NEW r \in Request, handler[r].stage = "submitted", Images(r) # <<>>
  PROVE  LET E   == Submitted(r)
             pos == Positions(E, handler[r].grids)
         IN  /\ Prompt(r) # NoImage
             /\ Prompt(r).pos = pos /\ Prompt(r).delta = NextPosition(pos) - Len(E)
             /\ \A row \in 1 .. Len(E) :
                  FeatureOf(Prompt(r).rows, Prompt(r).features, row) = ReferenceFeature(r, row)
<1> DEFINE grids == handler[r].grids
           E     == Submitted(r)
           pos   == Positions(E, grids)
           all   == UNION {{p[1], p[2], p[3]} : p \in ToSet(pos)}
           rows  == Ascending({i \in DOMAIN E : E[i] = Pad})
           f     == FlattenSeq([i \in DOMAIN grids |-> Features(grids, i)])
<1>1. Prompt(r) = Build(E, grids)
  BY DEF Prompt
<1>2. Prompt(r) # NoImage
  BY <1>1, BuiltIsImage
<1>3. Build(E, grids) = [rows |-> rows, features |-> f, pos |-> pos,
                         delta |-> Max(all) + 1 - Len(E)]
  BY Zenon DEF Build
<1>4. /\ E \in Seq(ToSet(Content[r].tokens) \cup {Pad})
      /\ Spans(pos, NextPosition(pos))
  BY ImageReference
<1>5. \A row \in 1 .. Len(E) : FeatureOf(rows, f, row) = ReferenceFeature(r, row)
  BY FeatureAt, Zenon
<1>6. Max(all) = NextPosition(pos) - 1 /\ NextPosition(pos) \in Nat /\ Len(E) \in Nat
  <2>1. Len(E) \in Nat
    BY <1>4
  <2> HIDE DEF pos, all
  <2>2. Max(all) = NextPosition(pos) - 1 /\ NextPosition(pos) \in Nat
    BY <1>4, SpanEnds DEF all
  <2> QED BY <2>1, <2>2
<1> HIDE DEF E, rows, f, pos, grids, all
<1>7. Max(all) + 1 - Len(E) = NextPosition(pos) - Len(E)
  BY <1>6
<1>8. /\ Prompt(r).pos = pos /\ Prompt(r).delta = NextPosition(pos) - Len(E)
      /\ Prompt(r).rows = rows /\ Prompt(r).features = f
  BY <1>1, <1>3, <1>7
<1> QED BY <1>2, <1>5, <1>8, Zenon DEF E, pos, grids

(* A sequence's rows of a step: of its prompt, or the one after it.        *)
RowsFit(b) ==
  LET r == b.request
      n == Len(Submitted(r))
  IN  /\ r \in Request /\ handler[r].stage = "submitted"
      /\ b.offset \in Nat /\ b.count \in Nat
      /\ IF b.prefill THEN b.offset + b.count <= n
         ELSE b.count > 0 =>
                b.count = 1 /\ n <= b.offset /\ b.offset + 1 <= n + Content[r].maxNew

(* What step_overrides is given of a sequence.                             *)
Stepped(b) ==
  [offset |-> b.offset, count |-> b.count, prefill |-> b.prefill, prompt |-> Prompt(b.request)]

OwnRow(b, k) ==
  [pos     |-> ReferencePositions(b.request)[b.offset + k],
   feature |-> ReferenceFeature(b.request, b.offset + k)]

LEMMA TextHasNoFeature ==
  ASSUME NEW r, NEW at, Images(r) = <<>> \/ ~(at <= Len(Submitted(r)))
  PROVE  ReferenceFeature(r, at) = 0
BY DEF ReferenceFeature

(* Each row of such a sequence gets its own.                               *)
LEMMA OverrideIsOwn ==
  ASSUME EInv, NEW b, RowsFit(b), NEW k \in 1 .. b.count
  PROVE  Override(Stepped(b), k - 1) = OwnRow(b, k)
<1> DEFINE r  == b.request
           o  == b.offset
           c  == b.count
           p  == b.prefill
           n  == Len(Submitted(r))
           m  == Content[r].maxNew
           at == o + k
           q  == Stepped(b)
<1>1. q.offset = o /\ q.prefill = p /\ q.prompt = Prompt(r)
  BY DEF Stepped
<1>2. /\ r \in Request /\ handler[r].stage = "submitted" /\ o \in Nat /\ c \in Nat
      /\ p => o + c <= n
      /\ ~p /\ c > 0 => c = 1 /\ n <= o /\ o + 1 <= n + m
  BY DEF RowsFit
<1>3. OwnRow(b, k) = [pos |-> ReferencePositions(r)[at], feature |-> ReferenceFeature(r, at)]
  BY DEF OwnRow
<1>4. m \in Nat
  BY <1>2, PromptIs
<1>5. CASE Images(r) = <<>>
  <2>1. Prompt(r) = NoImage
    BY <1>5 DEF Prompt
  <2>2. Submitted(r) = Content[r].tokens
    BY <1>5 DEF Submitted
  <2>3. n \in Nat
    BY <1>2, <2>2, PromptIs
  <2>4. ReferenceFeature(r, at) = 0
    BY <1>5, TextHasNoFeature
  <2>5. Override(q, k - 1) = [pos |-> Everywhere(o + (k - 1)), feature |-> 0]
    BY <1>1, <2>1 DEF Override
  <2>6. \A i \in 1 .. n + m : ReferencePositions(r)[i] = Everywhere(i - 1)
    BY <1>2, <1>5, <2>2, TextReference
  <2> HIDE DEF r, o, c, p, n, m, q
  <2>7. at \in 1 .. n + m /\ at - 1 = o + (k - 1)
    BY <1>2, <1>4, <2>3 DEF c
  <2>8. ReferencePositions(r)[at] = Everywhere(o + (k - 1))
    BY <2>6, <2>7
  <2> QED BY <1>3, <2>4, <2>5, <2>8 DEF q
<1>6. CASE Images(r) # <<>>
  <2> DEFINE pos   == Positions(Submitted(r), handler[r].grids)
             N     == NextPosition(pos)
             delta == Prompt(r).delta
  <2>1. /\ Submitted(r) \in Seq(ToSet(Content[r].tokens) \cup {Pad})
        /\ RefersTo(r, pos) /\ Len(pos) = n
    BY <1>2, <1>6, ImageReference
  <2>2. /\ Prompt(r) # NoImage /\ Prompt(r).pos = pos /\ delta = N - n
        /\ \A row \in 1 .. n : FeatureOf(Prompt(r).rows, Prompt(r).features, row)
                                 = ReferenceFeature(r, row)
    BY <1>2, <1>6, PromptBuilt
  <2>3. n \in Nat
    BY <2>1
  <2>4. /\ N \in Nat
        /\ \A i \in 1 .. n : ReferencePositions(r)[i] = pos[i]
        /\ \A j \in 1 .. m : ReferencePositions(r)[n + j] = Everywhere(N + (j - 1))
    BY <2>1 DEF RefersTo
  <2>5. CASE p
    <3>1. at \in 1 .. n /\ (o + (k - 1)) + 1 = at
      <4> HIDE DEF r, o, c, p, n
      <4> QED BY <1>2, <2>3, <2>5 DEF c
    <3>2. Override(q, k - 1)
            = [pos     |-> Prompt(r).pos[o + (k - 1) + 1],
               feature |-> FeatureOf(Prompt(r).rows, Prompt(r).features, o + (k - 1) + 1)]
      BY <1>1, <2>2, <2>5 DEF Override, FeatureOf
    <3>3. Override(q, k - 1)
            = [pos |-> pos[at], feature |-> FeatureOf(Prompt(r).rows, Prompt(r).features, at)]
      <4> HIDE DEF r, o, n, pos, at, q
      <4> QED BY <2>2, <3>1, <3>2
    <3>4. pos[at] = ReferencePositions(r)[at]
      BY <2>4, <3>1
    <3>5. FeatureOf(Prompt(r).rows, Prompt(r).features, at) = ReferenceFeature(r, at)
      BY <2>2, <3>1
    <3> HIDE DEF r, o, pos, at, q
    <3> QED BY <1>3, <3>3, <3>4, <3>5 DEF q
  <2>6. CASE ~p
    <3> DEFINE j == at - n
    <3>1. Override(q, k - 1) = [pos |-> Everywhere(o + (k - 1) + delta), feature |-> 0]
      BY <1>1, <2>2, <2>6 DEF Override
    <3>2. /\ j \in 1 .. m /\ n + j = at /\ ~(at <= n)
          /\ o + (k - 1) + delta = N + (j - 1)
      <4> HIDE DEF r, o, c, p, n, m, N, delta
      <4> QED BY <1>2, <1>4, <2>2, <2>3, <2>4, <2>6 DEF c
    <3>3. ReferenceFeature(r, at) = 0
      BY <3>2, TextHasNoFeature
    <3> HIDE DEF r, o, c, p, n, m, N, delta, j, pos, at, q
    <3>4. ReferencePositions(r)[at] = Everywhere(o + (k - 1) + delta)
      BY <2>4, <3>2
    <3> QED BY <1>3, <3>1, <3>3, <3>4 DEF q
  <2> QED BY <2>5, <2>6
<1> QED BY <1>5, <1>6 DEF q

(***************************************************************************)
(* The engine's sequences                                                  *)
(***************************************************************************)

(* A step moves a handler that has not submitted yet, and only Submit      *)
(* makes it one that has.                                                  *)
OneMoves(q) ==
  /\ handler[q].stage # "submitted"
  /\ \A r \in Request : r # q => handler'[r] = handler[r]
  /\ handler'[q].stage = "submitted" => Submit(q)

LEMMA GoesElsewhere ==
  ASSUME HandlersFit, NEW q \in Request, NEW s, Goes(q, s)
  PROVE  /\ \A r \in Request : r # q => handler'[r] = handler[r]
         /\ handler'[q].stage = s /\ handler'[q].grids = handler[q].grids
<1>1. /\ handler' = [handler EXCEPT ![q].stage = s] /\ DOMAIN handler = Request
      /\ handler[q] \in [stage : Stages, grids : Seq(Grids)]
  BY DEF HandlersFit, Fits, Goes
<1>2. /\ handler'[q] = [handler[q] EXCEPT !.stage = s]
      /\ \A r \in Request : r # q => handler'[r] = handler[r]
  BY <1>1
<1>3. handler'[q].stage = s /\ handler'[q].grids = handler[q].grids
  BY <1>1, <1>2
<1> QED BY <1>2, <1>3

LEMMA HandlerMoves ==
  ASSUME IInv, EInv, [Next]_vars
  PROVE  UNCHANGED handler \/ \E q \in Request : OneMoves(q)
<1>1. HandlersFit
  BY DEF EInv
<1>2. ASSUME NEW q \in Request, NEW s, Goes(q, s), handler[q].stage # "submitted",
             s = "submitted" => Submit(q)
      PROVE  OneMoves(q)
  BY <1>1, <1>2, GoesElsewhere DEF OneMoves
<1>3. ASSUME NEW q \in Request, Handles(q) \/ ReadBody(q) \/ Abandon(q) PROVE OneMoves(q)
  <2>1. CASE NextImage(q)
    BY <1>2, <2>1 DEF NextImage
  <2>2. CASE Submit(q)
    <3>1. handler[q].stage # "submitted" /\ (Goes(q, "answered") \/ Goes(q, "submitted"))
      BY <2>2 DEF Submit
    <3> QED BY <1>2, <2>2, <3>1
  <2>3. CASE ReadBody(q)
    BY <1>2, <2>3 DEF ReadBody
  <2>4. CASE Abandon(q)
    BY <1>2, <2>4 DEF Abandon
  <2> QED BY <1>3, <2>1, <2>2, <2>3, <2>4 DEF Handles
<1>4. ASSUME Granted PROVE OneMoves(Head(waiting)) /\ Head(waiting) \in Request
  <2>1. waiting \in Seq(Request) /\ waiting # <<>>
    BY <1>4 DEF IInv, Shapes, Granted
  <2>2. 1 \in 1 .. Len(waiting) /\ Head(waiting) = waiting[1] /\ Head(waiting) \in Request
    BY <2>1
  <2>3. handler[Head(waiting)].stage # "submitted"
    BY <2>2 DEF IInv, Waiters
  <2>4. Goes(Head(waiting), "reading") \/ Goes(Head(waiting), "job")
    BY <1>4 DEF Granted
  <2> QED BY <1>2, <2>2, <2>3, <2>4
<1>5. ASSUME NEW j \in jobs, JobEnds(j)
      PROVE  UNCHANGED handler \/ \E q \in Request : OneMoves(q)
  <2> DEFINE r    == j.request
             grid == Preprocess(Images(r)[j.image].size, MaxPatches - Spent(r), Downscale)
  <2>1. \/ UNCHANGED handler
        \/ handler[r].stage = "job" /\ Goes(r, "answered")
        \/ /\ handler[r].stage = "job"
           /\ handler' = [handler EXCEPT ![r] = [stage |-> "next", grids |-> Append(@.grids, grid)]]
    BY <1>5 DEF JobEnds, Attended
  <2>2. r \in Request
    BY DEF EInv, JobsFit
  <2> HIDE DEF r, grid
  <2>3. CASE handler[r].stage = "job" /\ Goes(r, "answered")
    BY <1>2, <2>2, <2>3
  <2>4. CASE /\ handler[r].stage = "job"
             /\ handler' = [handler EXCEPT ![r] = [stage |-> "next", grids |-> Append(@.grids, grid)]]
    <3>1. DOMAIN handler = Request
      BY <1>1 DEF HandlersFit
    <3>2. /\ handler'[r].stage = "next"
          /\ \A q \in Request : q # r => handler'[q] = handler[q]
      BY <2>2, <2>4, <3>1
    <3> QED BY <2>2, <2>4, <3>2 DEF OneMoves
  <2> QED BY <2>1, <2>3, <2>4
<1>6. (EngineAdmits \/ EngineSteps \/ UNCHANGED vars) => UNCHANGED handler
  BY DEF EngineAdmits, EngineSteps, vars
<1> QED BY <1>3, <1>4, <1>5, <1>6 DEF Next

(* A sequence of the engine: submitted, and with a token left to make.     *)
Running(q) ==
  /\ q \in [request : Request, tokens : Nat, len : Nat]
  /\ handler[q.request].stage = "submitted" /\ q.tokens = Len(Submitted(q.request))
  /\ q.len < q.tokens \/ q.len + 1 < q.tokens + Content[q.request].maxNew

ActiveRuns ==
  /\ active \in Seq([request : Request, tokens : Nat, len : Nat])
  /\ \A s \in 1 .. Len(active) : Running(active[s])

TextIsSubmitted ==
  \A r \in Request : handler[r].stage = "submitted" => Submitted(r) # Rejected

BatchFits == \A s \in DOMAIN batch : RowsFit(batch[s])

RInv == TextIsSubmitted /\ ActiveRuns /\ BatchFits

LEMMA InitRInv == Init => RInv
<1> SUFFICES ASSUME Init PROVE RInv
  OBVIOUS
<1>1. TextIsSubmitted
  BY DEF Init, TextIsSubmitted
<1>2. ActiveRuns
  <2> DEFINE S == [request : Request, tokens : Nat, len : Nat]
  <2> HIDE DEF S
  <2>1. active \in Seq(S) /\ Len(active) = 0
    BY DEF Init
  <2> QED BY <2>1 DEF ActiveRuns, S
<1>3. DOMAIN batch = {}
  BY DEF Init
<1> QED BY <1>1, <1>2, <1>3 DEF RInv, BatchFits

(* What a submitted handler has does not change any more.                  *)
LEMMA SubmittedStays ==
  ASSUME UNCHANGED handler \/ \E q \in Request : OneMoves(q),
         NEW r \in Request, handler[r].stage = "submitted"
  PROVE  handler'[r] = handler[r] /\ Submitted(r)' = Submitted(r)
<1>1. handler'[r] = handler[r]
  BY DEF OneMoves
<1> QED BY <1>1 DEF Submitted, Images

LEMMA TextStays ==
  ASSUME EInv, TextIsSubmitted, UNCHANGED handler \/ \E q \in Request : OneMoves(q)
  PROVE  TextIsSubmitted'
<1>1. ASSUME NEW r \in Request, handler'[r].stage = "submitted"
      PROVE  Submitted(r)' # Rejected
  <2>1. CASE handler[r].stage = "submitted"
    BY <2>1, SubmittedStays DEF TextIsSubmitted
  <2>2. CASE handler[r].stage # "submitted"
    <3>1. Submit(r)
      BY <1>1, <2>2 DEF OneMoves
    <3>2. CASE Goes(r, "answered")
      <4>1. handler'[r].stage = "answered"
        BY <3>2, GoesElsewhere DEF EInv
      <4> QED BY <1>1, <4>1
    <3>3. CASE Submitted(r) # Rejected /\ Goes(r, "submitted")
      <4>1. handler'[r].grids = handler[r].grids
        BY <3>3, GoesElsewhere DEF EInv
      <4> QED BY <3>3, <4>1 DEF Submitted, Images
    <3> QED BY <3>1, <3>2, <3>3 DEF Submit
  <2> QED BY <2>1, <2>2
<1> QED BY <1>1 DEF TextIsSubmitted

LEMMA RunningStays ==
  ASSUME UNCHANGED handler \/ \E q \in Request : OneMoves(q), NEW q, Running(q)
  PROVE  Running(q)'
<1> DEFINE r == q.request
<1>1. r \in Request /\ handler[r].stage = "submitted"
  BY DEF Running
<1>2. handler'[r] = handler[r] /\ Submitted(r)' = Submitted(r)
  BY <1>1, SubmittedStays
<1> QED BY <1>2, Zenon DEF Running

LEMMA RowsStay ==
  ASSUME UNCHANGED handler \/ \E q \in Request : OneMoves(q), NEW b, RowsFit(b)
  PROVE  RowsFit(b)'
<1> DEFINE r == b.request
<1>1. r \in Request /\ handler[r].stage = "submitted"
  BY DEF RowsFit
<1>2. handler'[r] = handler[r] /\ Submitted(r)' = Submitted(r)
  BY <1>1, SubmittedStays
<1> QED BY <1>2, Zenon DEF RowsFit

(* What is left of a step's rows after the first 0, 1, ... n sequences.    *)
Budgeting(q, n, a) ==
  a = [s \in 0 .. n |-> IF s = 0 THEN PrefillRows ELSE Larger(0, a[s - 1] - Asks(q[s]))]

LEMMA BudgetingExists ==
  ASSUME NEW q, NEW n \in Nat
  PROVE  \E a : Budgeting(q, n, a)
<1> DEFINE good == {i \in 0 .. n : \E a : Budgeting(q, i, a)}
<1>1. 0 \in good
  <2> DEFINE a == [s \in 0 .. 0 |-> PrefillRows]
  <2>1. a = [s \in 0 .. 0 |-> IF s = 0 THEN PrefillRows ELSE Larger(0, a[s - 1] - Asks(q[s]))]
    OBVIOUS
  <2> HIDE DEF a
  <2>2. Budgeting(q, 0, a)
    BY <2>1 DEF Budgeting
  <2> QED BY <2>2
<1>2. ASSUME NEW m \in 0 .. n - 1, m \in good PROVE m + 1 \in good
  <2>1. PICK a : Budgeting(q, m, a)
    BY <1>2
  <2> DEFINE Rest(x, s) == IF s = 0 THEN PrefillRows ELSE Larger(0, x[s - 1] - Asks(q[s]))
  <2>2. a = [s \in 0 .. m |-> Rest(a, s)]
    BY <2>1 DEF Budgeting
  <2> DEFINE b == [s \in 0 .. m + 1 |-> IF s = m + 1 THEN Rest(a, s) ELSE a[s]]
  <2>3. b = [s \in 0 .. m + 1 |-> Rest(b, s)]
    <3> SUFFICES ASSUME NEW s \in 0 .. m + 1 PROVE b[s] = Rest(b, s)
      OBVIOUS
    <3>1. CASE s = m + 1
      <4>1. s # 0 /\ s - 1 = m /\ m \in 0 .. m + 1 /\ m # m + 1
        BY <3>1
      <4>2. b[s] = Rest(a, s) /\ b[s - 1] = a[s - 1]
        BY <3>1, <4>1
      <4> HIDE DEF b
      <4> QED BY <4>1, <4>2
    <3>2. CASE s # m + 1
      <4>1. s \in 0 .. m /\ (s # 0 => s - 1 \in 0 .. m + 1 /\ s - 1 # m + 1)
        BY <3>2
      <4>2. a[s] = Rest(a, s)
        <5> HIDE DEF Rest
        <5> QED BY <2>2, <4>1
      <4>3. b[s] = a[s] /\ (s # 0 => b[s - 1] = a[s - 1])
        BY <3>2, <4>1
      <4> HIDE DEF b
      <4> QED BY <4>2, <4>3
    <3> QED BY <3>1, <3>2
  <2> HIDE DEF b
  <2>4. Budgeting(q, m + 1, b)
    BY <2>3 DEF Budgeting
  <2> QED BY <2>4
<1> HIDE DEF good
<1>3. n \in good
  BY <1>1, <1>2, UpTo
<1> QED BY <1>3 DEF good

(* A sequence gets no more rows than it asks for.                          *)
LEMMA RowsTaken ==
  ASSUME ActiveRuns
  PROVE  /\ DOMAIN active = 1 .. Len(active) /\ Len(active) \in Nat
         /\ DOMAIN RowsOf = 1 .. Len(active)
         /\ \A s \in 1 .. Len(active) :
              /\ active[s] \in [request : Request, tokens : Nat, len : Nat]
              /\ Asks(active[s]) \in Nat
              /\ RowsOf[s] \in Nat /\ RowsOf[s] <= Asks(active[s])
<1> DEFINE n == Len(active)
           S == [request : Request, tokens : Nat, len : Nat]
           a == CHOOSE b : Budgeting(active, n, b)
<1>1. n \in Nat /\ DOMAIN active = 1 .. n /\ \A s \in 1 .. n : active[s] \in S
  <2> HIDE DEF S
  <2>1. active \in Seq(S)
    BY DEF ActiveRuns, S
  <2> QED BY <2>1
<1>2. \A s \in 1 .. n : Asks(active[s]) \in Nat
  <2> SUFFICES ASSUME NEW s \in 1 .. n PROVE Asks(active[s]) \in Nat
    OBVIOUS
  <2>1. active[s].tokens \in Nat /\ active[s].len \in Nat /\ ChunkMax \in Nat
    BY <1>1, ImageRequestsAssumption
  <2> QED BY <2>1 DEF Asks, Smaller
<1>3. Budgeting(active, n, a)
  <2> HIDE DEF n
  <2> QED BY <1>1, BudgetingExists
<1>4. RowsOf = [s \in 1 .. n |-> Smaller(Asks(active[s]), a[s - 1])]
  BY <1>1 DEF RowsOf, Budgeting
<1> HIDE DEF a, n
<1>5. \A s \in 0 .. n : a[s] = IF s = 0 THEN PrefillRows ELSE Larger(0, a[s - 1] - Asks(active[s]))
  BY <1>3, Zenon DEF Budgeting
<1> DEFINE good == {s \in 0 .. n : a[s] \in Nat}
<1>6. 0 \in good
  BY <1>1, <1>5, ImageRequestsAssumption
<1>7. ASSUME NEW s \in 0 .. n - 1, s \in good PROVE s + 1 \in good
  <2>1. s + 1 \in 0 .. n /\ s + 1 # 0 /\ (s + 1) - 1 = s /\ s + 1 \in 1 .. n
    BY <1>1
  <2>2. a[s + 1] = Larger(0, a[s] - Asks(active[s + 1]))
    BY <1>5, <2>1
  <2>3. a[s] \in Nat /\ Asks(active[s + 1]) \in Nat
    BY <1>2, <1>7, <2>1
  <2>4. a[s + 1] \in Nat
    BY <2>2, <2>3 DEF Larger
  <2> QED BY <2>1, <2>4
<1> HIDE DEF good
<1>8. \A s \in 0 .. n : a[s] \in Nat
  <2>1. 0 .. n \subseteq good
    BY <1>1, <1>6, <1>7, UpTo
  <2> QED BY <2>1 DEF good
<1>9. ASSUME NEW s \in 1 .. n PROVE RowsOf[s] \in Nat /\ RowsOf[s] <= Asks(active[s])
  <2>1. a[s - 1] \in Nat /\ Asks(active[s]) \in Nat
    BY <1>1, <1>2, <1>8
  <2>2. RowsOf[s] = Smaller(Asks(active[s]), a[s - 1])
    BY <1>4
  <2> QED BY <2>1, <2>2 DEF Smaller
<1> QED BY <1>1, <1>2, <1>4, <1>9 DEF n

(* The prompt of a submitted request is not empty.                         *)
LEMMA SubmittedHasTokens ==
  ASSUME EInv, TextIsSubmitted, NEW r \in Request, handler[r].stage = "submitted"
  PROVE  Len(Submitted(r)) \in Nat /\ Len(Submitted(r)) # 0
<1>1. CASE Images(r) # <<>>
  <2>1. /\ Submitted(r) \in Seq(ToSet(Content[r].tokens) \cup {Pad})
        /\ Len(Submitted(r)) # 0
    BY <1>1, ImageReference
  <2> QED BY <2>1
<1>2. CASE Images(r) = <<>>
  <2>1. Submitted(r) = Content[r].tokens /\ Submitted(r) # <<>>
    BY <1>2 DEF Submitted, TextIsSubmitted, Rejected
  <2>2. Submitted(r) \in Seq(ToSet(Content[r].tokens))
    BY <2>1, PromptIs
  <2> DEFINE t == Submitted(r)
             V == ToSet(Content[r].tokens)
  <2> HIDE DEF t, V
  <2>3. t \in Seq(V) /\ t # <<>>
    BY <2>1, <2>2 DEF t, V
  <2>4. Len(t) \in Nat /\ Len(t) # 0
    BY <2>3
  <2> QED BY <2>4 DEF t
<1> QED BY <1>1, <1>2

(* A new sequence has its prompt to feed.                                  *)
LEMMA EngineAdmitsRInv ==
  ASSUME EInv, RInv, EngineAdmits PROVE RInv'
<1> DEFINE r == Head(pending)
           t == Submitted(r)
           q == [request |-> r, tokens |-> Len(t), len |-> 0]
<1>1. /\ pending # <<>> /\ UNCHANGED handler /\ batch' = batch
      /\ active' = active \/ active' = Append(active, q)
  BY DEF EngineAdmits
<1>2. r \in Request /\ handler[r].stage = "submitted"
  <2>1. /\ pending \in Seq(Request)
        /\ \A i \in 1 .. Len(pending) : handler[pending[i]].stage = "submitted"
    BY DEF EInv, PendingIsSubmitted
  <2>2. r = pending[1] /\ 1 \in 1 .. Len(pending) /\ r \in Request
    BY <1>1, <2>1
  <2> QED BY <2>1, <2>2
<1>3. Len(t) \in Nat /\ Len(t) # 0
  BY <1>2, SubmittedHasTokens DEF RInv
<1>4. Running(q)
  <2> HIDE DEF r, t
  <2>1. /\ q \in [request : Request, tokens : Nat, len : Nat]
        /\ q.request = r /\ q.tokens = Len(t) /\ q.len = 0 /\ 0 < Len(t)
    BY <1>2, <1>3
  <2> QED BY <1>2, <2>1 DEF Running, t
<1>5. TextIsSubmitted' /\ BatchFits'
  <2>1. TextIsSubmitted'
    BY <1>1, TextStays DEF RInv
  <2>2. \A s \in DOMAIN batch : RowsFit(batch[s])'
    BY <1>1, RowsStay DEF RInv, BatchFits
  <2> QED BY <1>1, <2>1, <2>2 DEF BatchFits
<1> HIDE DEF q
<1>6. ActiveRuns'
  <2> DEFINE S == [request : Request, tokens : Nat, len : Nat]
  <2>1. q \in S /\ active \in Seq(S) /\ \A s \in 1 .. Len(active) : Running(active[s])
    BY <1>4 DEF Running, RInv, ActiveRuns
  <2> HIDE DEF S
  <2>2. /\ active' \in Seq(S)
        /\ \A s \in 1 .. Len(active') : active'[s] = q \/ \E k \in 1 .. Len(active) : active'[s] = active[k]
    BY <1>1, <2>1
  <2>3. \A s \in 1 .. Len(active') : Running(active'[s])
    BY <1>4, <2>1, <2>2
  <2>4. \A x : Running(x) => Running(x)'
    BY <1>1, RunningStays
  <2>5. (\A s \in 1 .. Len(active) : Running(active[s]))'
    BY <2>3, <2>4, Zenon DEF Running
  <2> QED BY <2>2, <2>5 DEF ActiveRuns, S
<1> QED BY <1>5, <1>6 DEF RInv

(* A step: the rows of sequence q, and the sequence after it.              *)
Ends(q, n) == n > 0 /\ Generated(q, n) >= Content[q.request].maxNew

InPrompt(q, n) == n > 0 /\ q.len < q.tokens

RowsFor(q, n) ==
  [request |-> q.request, offset |-> q.len, count |-> n, prefill |-> InPrompt(q, n)]

AfterRows(q, n) == [q EXCEPT !.len = @ + n]

(* The rows of a running sequence fit, and without its last token it runs  *)
(* on.                                                                     *)
LEMMA RowsForFit ==
  ASSUME EInv, TextIsSubmitted, NEW q, Running(q), NEW n \in Nat, n <= Asks(q)
  PROVE  RowsFit(RowsFor(q, n)) /\ (~Ends(q, n) => Running(AfterRows(q, n)))
<1> DEFINE r == q.request
           t == q.tokens
           l == q.len
           m == Content[r].maxNew
<1>1. /\ q \in [request : Request, tokens : Nat, len : Nat]
      /\ r \in Request /\ handler[r].stage = "submitted" /\ t = Len(Submitted(r))
      /\ t \in Nat /\ l \in Nat /\ (l < t \/ l + 1 < t + m)
  BY DEF Running
<1>2. m \in Nat
  BY <1>1, PromptIs
<1>3. /\ l < t => n <= t - l
      /\ ~(l < t) => n <= 1
  <2>1. ChunkMax \in Nat
    BY ImageRequestsAssumption
  <2> QED BY <1>1, <2>1 DEF Asks, Smaller
<1>4. RowsFit(RowsFor(q, n))
  <2> DEFINE b == RowsFor(q, n)
  <2>1. b.request = r /\ b.offset = l /\ b.count = n /\ b.prefill = InPrompt(q, n)
    BY Zenon DEF RowsFor
  <2> HIDE DEF b
  <2>2. InPrompt(q, n) <=> n > 0 /\ l < t
    BY DEF InPrompt
  <2> HIDE DEF t, l, m, r
  <2>3. InPrompt(q, n) => l + n <= t
    BY <1>1, <1>3, <2>2
  <2>4. ~InPrompt(q, n) /\ n > 0 => n = 1 /\ t <= l /\ l + 1 <= t + m
    BY <1>1, <1>2, <1>3, <2>2
  <2>5. IF b.prefill THEN b.offset + b.count <= t
        ELSE b.count > 0 => b.count = 1 /\ t <= b.offset /\ b.offset + 1 <= t + m
    BY <2>1, <2>3, <2>4, Zenon
  <2>6. RowsFit(b)
    BY <1>1, <2>1, <2>5, Zenon DEF RowsFit, m
  <2> QED BY <2>6 DEF b
<1>5. ASSUME ~Ends(q, n) PROVE Running(AfterRows(q, n))
  <2> DEFINE p == AfterRows(q, n)
  <2>1. /\ p \in [request : Request, tokens : Nat, len : Nat]
        /\ p.request = r /\ p.tokens = t /\ p.len = l + n
    BY <1>1 DEF AfterRows
  <2> HIDE DEF p
  <2>2. n = 0 \/ ~(l + n - t + 1 >= m)
    BY <1>5 DEF Ends, Generated
  <2> HIDE DEF t, l, r, m
  <2>3. l + n < t \/ (l + n) + 1 < t + m
    BY <1>1, <1>2, <2>2
  <2>4. Running(p)
    BY <1>1, <2>1, <2>3 DEF Running, m
  <2> QED BY <2>4 DEF p
<1> QED BY <1>4, <1>5

LEMMA EngineStepsRInv ==
  ASSUME EInv, RInv, EngineSteps PROVE RInv'
<1> DEFINE taken == RowsOf
           S     == {s \in DOMAIN active : ~Ends(active[s], taken[s])}
           stay  == Ascending(S)
           R     == [request : Request, tokens : Nat, len : Nat]
           n     == Len(active)
<1>1. /\ UNCHANGED handler
      /\ batch' = [s \in DOMAIN active |-> RowsFor(active[s], taken[s])]
      /\ active' = [i \in DOMAIN stay |-> AfterRows(active[stay[i]], taken[stay[i]])]
  <2>1. UNCHANGED handler
    BY DEF EngineSteps
  <2>2. PICK rows \in {RowsOf} :
          LET Leaves(s) == rows[s] > 0 /\
                           Generated(active[s], rows[s]) >= Content[active[s].request].maxNew
              Longer(s) == [active[s] EXCEPT !.len = @ + rows[s]]
              on        == Ascending({s \in DOMAIN active : ~Leaves(s)})
          IN  /\ batch' = [s \in DOMAIN active |->
                            [request |-> active[s].request, offset |-> active[s].len, count |-> rows[s],
                             prefill |-> rows[s] > 0 /\ active[s].len < active[s].tokens]]
              /\ active' = [i \in DOMAIN on |-> Longer(on[i])]
    BY Zenon DEF EngineSteps
  <2>3. rows = taken
    BY <2>2
  <2>4. batch' = [s \in DOMAIN active |-> RowsFor(active[s], taken[s])]
    BY <2>2, <2>3, Zenon DEF RowsFor, InPrompt
  <2>5. active' = [i \in DOMAIN stay |-> AfterRows(active[stay[i]], taken[stay[i]])]
    BY <2>2, <2>3, Zenon DEF Ends, AfterRows
  <2> QED BY <2>1, <2>4, <2>5
<1> HIDE DEF taken
<1>2. /\ DOMAIN active = 1 .. n /\ n \in Nat
      /\ \A s \in 1 .. n : Running(active[s]) /\ taken[s] \in Nat /\ taken[s] <= Asks(active[s])
  BY RowsTaken DEF RInv, ActiveRuns, taken
<1> HIDE DEF n
<1>3. \A s \in 1 .. n : /\ RowsFit(RowsFor(active[s], taken[s]))
                        /\ ~Ends(active[s], taken[s]) => Running(AfterRows(active[s], taken[s]))
  BY <1>2, RowsForFit DEF RInv
<1>4. TextIsSubmitted'
  BY <1>1, TextStays DEF RInv
<1>5. BatchFits'
  <2>1. \A x : RowsFit(x) => RowsFit(x)'
    BY <1>1, RowsStay
  <2>2. \A s \in DOMAIN batch' : RowsFit(batch'[s])
    BY <1>1, <1>2, <1>3
  <2>3. (\A s \in DOMAIN batch : RowsFit(batch[s]))'
    BY <2>1, <2>2, Zenon DEF RowsFit
  <2> QED BY <2>3 DEF BatchFits
<1>6. ActiveRuns'
  <2>1. S \in SUBSET (1 .. n) /\ \A s \in S : ~Ends(active[s], taken[s])
    BY <1>2
  <2> HIDE DEF S
  <2> DEFINE c == Cardinality(S)
  <2>2. c \in Nat /\ DOMAIN stay = 1 .. c /\ \A i \in 1 .. c : stay[i] \in S
    BY <1>2, <2>1, AscendingIn
  <2> HIDE DEF stay, c
  <2>3. \A i \in 1 .. c : Running(AfterRows(active[stay[i]], taken[stay[i]]))
    BY <1>3, <2>1, <2>2
  <2>4. DOMAIN active' = 1 .. c /\ \A i \in 1 .. c : Running(active'[i])
    BY <1>1, <2>2, <2>3
  <2>5. active' = [i \in 1 .. c |-> active'[i]]
    BY <1>1, <2>2
  <2>6. \A i \in 1 .. c : active'[i] \in R
    BY <2>4 DEF Running
  <2> HIDE DEF R
  <2>7. active' \in Seq(R) /\ Len(active') = c
    BY <2>2, <2>5, <2>6
  <2>8. \A x : Running(x) => Running(x)'
    BY <1>1, RunningStays
  <2>9. \A s \in 1 .. Len(active') : Running(active'[s])
    BY <2>4, <2>7
  <2>10. (\A s \in 1 .. Len(active) : Running(active[s]))'
    BY <2>8, <2>9, Zenon DEF Running
  <2> QED BY <2>7, <2>10 DEF ActiveRuns, R
<1> QED BY <1>4, <1>5, <1>6 DEF RInv

LEMMA NextRInv == IInv /\ EInv /\ RInv /\ [Next]_vars => RInv'
<1> SUFFICES ASSUME IInv, EInv, RInv, [Next]_vars PROVE RInv'
  OBVIOUS
<1>1. UNCHANGED handler \/ \E q \in Request : OneMoves(q)
  BY HandlerMoves
<1>2. ASSUME UNCHANGED <<active, batch>> PROVE RInv'
  <2>1. TextIsSubmitted'
    BY <1>1, TextStays DEF RInv
  <2>2. \A x : (Running(x) => Running(x)') /\ (RowsFit(x) => RowsFit(x)')
    BY <1>1, RunningStays, RowsStay
  <2>3. (\A s \in 1 .. Len(active) : Running(active[s]))'
    BY <1>2, <2>2, Zenon DEF Running, RInv, ActiveRuns
  <2>4. (\A s \in DOMAIN batch : RowsFit(batch[s]))'
    BY <1>2, <2>2, Zenon DEF RowsFit, RInv, BatchFits
  <2> QED BY <1>2, <2>1, <2>3, <2>4 DEF RInv, ActiveRuns, BatchFits
<1>3. ASSUME NEW q \in Request, Handles(q) \/ ReadBody(q) \/ Abandon(q) PROVE RInv'
  BY <1>2, <1>3 DEF Handles, NextImage, Submit, ReadBody, Abandon
<1>4. ASSUME Granted PROVE RInv'
  BY <1>2, <1>4 DEF Granted
<1>5. ASSUME NEW j \in jobs, JobEnds(j) PROVE RInv'
  BY <1>2, <1>5 DEF JobEnds
<1>6. UNCHANGED vars => RInv'
  BY <1>2 DEF vars
<1> QED BY <1>3, <1>4, <1>5, <1>6, EngineAdmitsRInv, EngineStepsRInv DEF Next

(* What a step gives its rows, as its sequences one after the other.       *)
LEMMA RowsAreOwn ==
  ASSUME EInv, RInv PROVE RowsGetTheirOwn
<1> SUFFICES ASSUME Given # <<>>
             PROVE  Given = FlattenSeq([s \in DOMAIN batch |->
                              [k \in 1 .. batch[s].count |-> OwnRow(batch[s], k)]])
  BY Zenon DEF RowsGetTheirOwn, OwnRow
<1> DEFINE seqs == [s \in DOMAIN batch |-> Stepped(batch[s])]
<1>1. Given = StepOverrides(seqs)
  BY Zenon DEF Given, Stepped
<1>2. Given = FlattenSeq([i \in DOMAIN seqs |->
                [k \in 1 .. seqs[i].count |-> Override(seqs[i], k - 1)]])
  <2> HIDE DEF seqs
  <2> QED BY <1>1, Zenon DEF StepOverrides
<1>3. /\ DOMAIN seqs = DOMAIN batch
      /\ \A s \in DOMAIN batch : seqs[s] = Stepped(batch[s])
  OBVIOUS
<1>4. \A s \in DOMAIN batch : seqs[s].count = batch[s].count
  BY <1>3 DEF Stepped
<1> HIDE DEF seqs
<1>5. ASSUME NEW s \in DOMAIN batch
      PROVE  [k \in 1 .. seqs[s].count |-> Override(seqs[s], k - 1)]
               = [k \in 1 .. batch[s].count |-> OwnRow(batch[s], k)]
  <2>1. RowsFit(batch[s])
    BY DEF RInv, BatchFits
  <2>2. \A k \in 1 .. batch[s].count : Override(Stepped(batch[s]), k - 1) = OwnRow(batch[s], k)
    BY <2>1, OverrideIsOwn
  <2>3. seqs[s].count = batch[s].count /\ seqs[s] = Stepped(batch[s])
    BY <1>3, <1>4
  <2> QED BY <2>2, <2>3, Zenon
<1>6. [i \in DOMAIN seqs |-> [k \in 1 .. seqs[i].count |-> Override(seqs[i], k - 1)]]
        = [s \in DOMAIN batch |-> [k \in 1 .. batch[s].count |-> OwnRow(batch[s], k)]]
  BY <1>3, <1>5, Zenon
<1> QED BY <1>2, <1>6, Zenon

(* Whatever the prompts, images and maxNew, however prompts are cut into   *)
(* chunks and whoever shares the batch: each row of a step is rotated by   *)
(* its position of the reference, and image tokens get their features.     *)
THEOREM RowsHold == Spec => []RowsGetTheirOwn
<1> QED BY InitIInv, NextIInv, InitEInv, NextEInv, InitRInv, NextRInv, RowsAreOwn, PTL DEF Spec
=============================================================================
