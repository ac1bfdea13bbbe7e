------------------------- MODULE ServerEngineProofs -------------------------
(***************************************************************************)
(* For any number of clients and any capacity: the completion senders      *)
(* follow the model's sequences, and the engine thread never ends with an  *)
(* accepted request unanswered; an answer is final, a completed stream is  *)
(* whole, and the queue, the slots and the channels keep their bounds.     *)
(* The first inductive invariant (IInv) says where every unanswered        *)
(* request is (Accounted) and who may be inside the queue's critical       *)
(* section (Exclusion); the second (QInv), on top of it, that a request is *)
(* in one place at a time (Once) and how much of it exists (Delivered).    *)
(***************************************************************************)
EXTENDS ServerEngine, FiniteSetTheorems, TLAPS

USE DEF outside

Shapes ==
  /\ pc \in [Client -> {"new", "checked", "locked", "notify", "waiting", "returned"}]
  /\ reply \in [Client -> {"none", "shutting_down", "busy", "rejected", "stalled",
                           "failed", "ok"}]
  /\ pending \in Seq(Client)
  /\ lock \in Client \cup {"engine", "free"}
  /\ shutdown \in BOOLEAN
  /\ engine \in {"admit", "admitting", "work", "idle", "parking", "asleep",
                 "woken", "failing", "exited"}
  /\ popped \in Client \cup {"none"}
  /\ active \subseteq Client

(* The queue is in the hands of the request or the engine that locked it.  *)
Exclusion ==
  /\ \A c \in Client : pc[c] = "locked" <=> lock = c
  /\ lock = "engine" <=> engine \in {"idle", "parking"}

(* An accepted request without an answer is queued, being admitted, or in  *)
(* the completion map.                                                     *)
Accounted ==
  \A c \in Client : pc[c] \in {"notify", "waiting"} /\ reply[c] = "none" =>
    c \in Range(pending) \/ c = popped \/ c \in txs

(* What holds once the engine thread has ended.                            *)
Ended ==
  /\ engine = "failing" => shutdown
  /\ engine = "exited" => shutdown /\ pending = <<>> /\ txs = {} /\ streams = {} /\ lock # "engine"
                          /\ \A c \in Client : pc[c] # "locked"

Popping == engine = "admitting" <=> popped # "none"

IInv == /\ Shapes /\ Exclusion /\ Accounted /\ Ended /\ Popping
        /\ SendersFollowSequences

(* Enqueueing adds the request to those the queue holds.                   *)
LEMMA AppendRange ==
  ASSUME NEW S, NEW s \in Seq(S), NEW e \in S
  PROVE  Range(Append(s, e)) = Range(s) \cup {e}
<1>1. Len(Append(s, e)) = Len(s) + 1 /\ Append(s, e)[Len(s) + 1] = e
  OBVIOUS
<1>2. \A i \in 1 .. Len(s) : Append(s, e)[i] = s[i]
  OBVIOUS
<1>3. Range(Append(s, e)) = {Append(s, e)[i] : i \in 1 .. Len(s) + 1}
  BY <1>1 DEF Range
<1>4. Range(s) = {s[i] : i \in 1 .. Len(s)}
  BY DEF Range
<1>5. ASSUME NEW x, x \in Range(s) \cup {e} PROVE x \in Range(Append(s, e))
  <2>1. CASE x = e
    BY <2>1, <1>1, <1>3
  <2>2. CASE x # e
    BY <2>2, <1>5, <1>2, <1>3, <1>4
  <2> QED BY <2>1, <2>2
<1>6. ASSUME NEW x, x \in Range(Append(s, e)) PROVE x \in Range(s) \cup {e}
  BY <1>1, <1>2, <1>3, <1>4, <1>6
<1> QED BY <1>5, <1>6

(* Popping loses no request but the one popped.                            *)
LEMMA PopRange ==
  ASSUME NEW S, NEW s \in Seq(S), s # <<>>
  PROVE  /\ Head(s) \in S
         /\ Tail(s) \in Seq(S)
         /\ Range(s) \subseteq Range(Tail(s)) \cup {Head(s)}
<1>1. Head(s) \in S /\ Tail(s) \in Seq(S)
  OBVIOUS
<1>2. ASSUME NEW i \in 1 .. Len(s)
      PROVE  s[i] \in Range(Tail(s)) \cup {Head(s)}
  <2>1. CASE i = 1
    BY <2>1
  <2>2. CASE i # 1
    <3>1. i - 1 \in 1 .. Len(Tail(s)) /\ Tail(s)[i - 1] = s[i]
      BY <2>2
    <3> QED BY <3>1 DEF Range
  <2> QED BY <2>1, <2>2
<1> QED BY <1>1, <1>2 DEF Range

(* The server starts with no request and nothing locked.                   *)
LEMMA InitIInv == Init => IInv
<1> SUFFICES ASSUME Init PROVE IInv
  OBVIOUS
<1>1. Shapes /\ Popping
  <2>1. pending \in Seq(Client)
    BY DEF Init
  <2>2. pc \in [Client -> {"new"}] /\ reply \in [Client -> {"none"}] /\ active \subseteq Client
    BY Zenon DEF Init
  <2>3. engine = "admit" /\ popped = "none" /\ lock = "free" /\ shutdown = FALSE
    BY DEF Init
  <2> QED BY <2>1, <2>2, <2>3 DEF Shapes, Popping
<1>3. SendersFollowSequences
  BY Zenon DEF Init, SendersFollowSequences
<1>2. Exclusion /\ Accounted /\ Ended
  BY ServerAssumption DEF Init, Exclusion, Accounted, Ended
<1> QED BY <1>1, <1>2, <1>3 DEF IInv

(* No step of a handler, of the engine thread or of the closer breaks it.  *)
LEMMA NextIInv == IInv /\ [Next]_vars => IInv'
<1> SUFFICES ASSUME IInv, [Next]_vars
             PROVE  IInv'
  OBVIOUS
<1> USE ServerAssumption
    DEF IInv, Shapes, Exclusion, Accounted, Ended, Popping, SendersFollowSequences
<1>1. ASSUME NEW c \in Client, EarlyCheck(c) PROVE IInv'
  BY <1>1 DEF EarlyCheck, Return, Enter, model, maps
<1>2. ASSUME NEW c \in Client, LockedCheck(c) PROVE IInv'
  BY <1>2 DEF LockedCheck, Return, Enter, model, maps
<1>3. ASSUME NEW c \in Client, Enqueue(c) PROVE IInv'
  BY <1>3, AppendRange DEF Enqueue, Enter, model, maps
<1>4. ASSUME NEW c \in Client, NotifyOne(c) PROVE IInv'
  BY <1>4 DEF NotifyOne, Enter, Wake, model, maps
<1>5. ASSUME NEW c \in Client, Take(c) \/ Disconnect(c) PROVE IInv'
  BY <1>5 DEF Take, Disconnect, model, maps
<1>6. ASSUME Pop PROVE IInv'
  <2>1. CASE pending = <<>> \/ Cardinality(active) >= capacity
    BY <1>6, <2>1 DEF Pop, clients, model, maps
  <2>2. CASE ~(pending = <<>> \/ Cardinality(active) >= capacity)
    <3>1. /\ engine' = "admitting" /\ popped' = Head(pending) /\ pending' = Tail(pending)
          /\ engine = "admit" /\ lock = "free" /\ popped = "none"
          /\ UNCHANGED <<pc, reply, lock, shutdown, active, txs, streams>>
      BY <1>6, <2>2 DEF Pop, clients, model, maps
    <3>2. /\ Head(pending) \in Client /\ Tail(pending) \in Seq(Client)
          /\ Range(pending) \subseteq Range(Tail(pending)) \cup {Head(pending)}
      BY <2>2, PopRange
    <3>3. Accounted'
      BY <3>1, <3>2
    <3>4. Shapes' /\ Exclusion' /\ Ended' /\ Popping' /\ SendersFollowSequences'
      BY <3>1, <3>2
    <3> QED BY <3>3, <3>4
  <2> QED BY <2>1, <2>2
<1>7. ASSUME NEW long \in BOOLEAN, Admit(long) PROVE IInv'
  BY <1>7 DEF Admit, clients
<1>8. ASSUME Reject PROVE IInv'
  BY <1>8 DEF Reject, model, maps
<1>9. ASSUME NEW chunk \in SUBSET chunked, NEW emit \in SUBSET (active \ chunked),
             NEW fin \in SUBSET emit, StepOk(chunk, emit, fin)
      PROVE  IInv'
  BY <1>9 DEF StepOk, Completes, Gone
<1>10. ASSUME StepFails PROVE IInv'
  BY <1>10 DEF StepFails, clients, model, maps
<1>11. ASSUME FailAll PROVE IInv'
  BY <1>11 DEF FailAll
<1>12. ASSUME IdleCheck PROVE IInv'
  BY <1>12 DEF IdleCheck, clients, model, maps
<1>13. ASSUME WaitCheck PROVE IInv'
  BY <1>13 DEF WaitCheck, WaitCondition, clients, model, maps
<1>14. ASSUME Park PROVE IInv'
  BY <1>14 DEF Park, clients, model, maps
<1>15. ASSUME Resume PROVE IInv'
  BY <1>15 DEF Resume, WaitCondition, clients, model, maps
<1>16. ASSUME SpuriousWakeup PROVE IInv'
  BY <1>16 DEF SpuriousWakeup, clients, model, maps
<1>17. ASSUME RaiseShutdown PROVE IInv'
  BY <1>17 DEF RaiseShutdown, clients, model, maps
<1>18. ASSUME NotifyAll \/ Join PROVE IInv'
  BY <1>18 DEF NotifyAll, Join, Wake, clients, model, maps
<1>19. CASE UNCHANGED vars
  BY <1>19 DEF vars, clients, model, maps
<1> QED
  BY <1>1, <1>2, <1>3, <1>4, <1>5, <1>6, <1>7, <1>8, <1>9, <1>10, <1>11, <1>12, <1>13,
     <1>14, <1>15, <1>16, <1>17, <1>18, <1>19
  DEF Next, Submit, Engine, Closer

(* Where every request and sender is, throughout every behaviour.          *)
THEOREM Invariance == Spec => []IInv
BY InitIInv, NextIInv, PTL DEF Spec

(* Between failures a completion sender, and for a stream a token sender,  *)
(* is in its map exactly while the model holds the sequence.               *)
THEOREM SendersFollow == Spec => []SendersFollowSequences
<1>1. IInv => SendersFollowSequences
  BY DEF IInv
<1> QED BY <1>1, Invariance, PTL

(* Neither a shutdown nor a failed step ends the engine thread with an     *)
(* accepted request unanswered, nor lets a late submission in.             *)
THEOREM NoOrphans == Spec => []NoRequestOrphaned
<1>1. IInv => NoRequestOrphaned
  <2> SUFFICES ASSUME IInv, engine = "exited"
               PROVE  /\ pending = <<>> /\ popped = "none" /\ txs = {} /\ streams = {}
                      /\ \A c \in Client : pc[c] \in {"notify", "waiting"} => reply[c] # "none"
                      /\ \A c \in Client : pc[c] # "locked"
    BY DEF NoRequestOrphaned
  <2>1. pending = <<>> /\ txs = {} /\ streams = {} /\ \A c \in Client : pc[c] # "locked"
    BY DEF IInv, Ended
  <2>2. popped = "none"
    BY DEF IInv, Popping
  <2>3. Range(pending) = {}
    BY <2>1 DEF Range
  <2>4. \A c \in Client : pc[c] \in {"notify", "waiting"} => reply[c] # "none"
    BY <2>1, <2>2, <2>3, ServerAssumption DEF IInv, Accounted
  <2> QED BY <2>1, <2>2, <2>4
<1> QED BY <1>1, Invariance, PTL

(***************************************************************************)
(* Where a request is and how much of its answer exists.  A request is in  *)
(* at most one place between its submission and its answer, so it is       *)
(* admitted once, and until the answer every token its model produced was  *)
(* given to the channel.                                                   *)
(***************************************************************************)

(* The numbers: the queue and the slots keep within their bounds because   *)
(* the room for one more is still there between a check and the insertion  *)
(* it allowed, which another step separates.                               *)
Bounds ==
  /\ capacity \in Capacities
  /\ Len(pending) <= PendingCap
  /\ \A c \in Client : pc[c] = "locked" => Len(pending) < PendingCap
  /\ IsFiniteSet(active) /\ Cardinality(active) <= capacity
  /\ engine = "admitting" => Cardinality(active) < capacity
  /\ chunked \subseteq active

(* A request is in the queue once, then between the queue and the model,   *)
(* then in the model; all that time it is accepted and unanswered.         *)
Once ==
  /\ \A i, j \in 1 .. Len(pending) : pending[i] = pending[j] => i = j
  /\ \A c \in Range(pending) : c # popped /\ c \notin active
  /\ popped \notin active
  /\ \A c \in Client : c \in Range(pending) \/ c = popped \/ c \in active =>
       pc[c] \in {"notify", "waiting"} /\ reply[c] = "none"
  /\ \A c \in Client : pc[c] \in {"new", "checked", "locked"} => reply[c] = "none"

(* The types of the counts, of the token senders and of the closer.        *)
Numbers ==
  /\ connected \in [Client -> BOOLEAN]
  /\ taken \in [Client -> Nat]
  /\ chan \in [Client -> 0 .. ChannelCap]
  /\ gen \in [Client -> 0 .. MaxNew]
  /\ streams \subseteq Streaming
  /\ closer \in {"serving", "stored", "joining", "joined"}

(* What its channel was given, of what the model generated for a request.  *)
Delivered ==
  /\ \A c \in Client : taken[c] + chan[c] <= gen[c]
  /\ \A c \in Streaming : reply[c] \in {"none", "ok"} => taken[c] + chan[c] = gen[c]
  /\ \A c \in active : gen[c] < MaxNew
  /\ \A c \in Client : pc[c] \in {"new", "checked", "locked"}
                       \/ c \in Range(pending) \/ c = popped => gen[c] = 0

QInv == Bounds /\ Once /\ Numbers /\ Delivered

(* Enqueueing a request that is not queued keeps every entry unique.       *)
LEMMA AppendOnce ==
  ASSUME NEW S, NEW s \in Seq(S), NEW e \in S, e \notin Range(s),
         \A i, j \in 1 .. Len(s) : s[i] = s[j] => i = j
  PROVE  \A i, j \in 1 .. Len(Append(s, e)) : Append(s, e)[i] = Append(s, e)[j] => i = j
<1>1. Len(s) \in Nat /\ Len(Append(s, e)) = Len(s) + 1 /\ Append(s, e)[Len(s) + 1] = e
  OBVIOUS
<1>2. \A i \in 1 .. Len(s) : Append(s, e)[i] = s[i] /\ s[i] # e
  BY DEF Range
<1> QED BY <1>1, <1>2

(* A pop leaves the rest of the queue, and no second copy of the popped.   *)
LEMMA PopOnce ==
  ASSUME NEW S, NEW s \in Seq(S), s # <<>>,
         \A i, j \in 1 .. Len(s) : s[i] = s[j] => i = j
  PROVE  /\ \A i, j \in 1 .. Len(Tail(s)) : Tail(s)[i] = Tail(s)[j] => i = j
         /\ Head(s) \notin Range(Tail(s))
         /\ Range(Tail(s)) \subseteq Range(s) /\ Head(s) \in Range(s)
         /\ Len(Tail(s)) = Len(s) - 1
<1>1. /\ Len(s) \in Nat \ {0} /\ Len(Tail(s)) = Len(s) - 1 /\ Head(s) = s[1]
      /\ Tail(s) \in Seq(S)
  OBVIOUS
<1>2. \A i \in 1 .. Len(Tail(s)) : Tail(s)[i] = s[i + 1] /\ i + 1 \in 1 .. Len(s)
  BY <1>1
<1>3. Range(Tail(s)) = {Tail(s)[i] : i \in 1 .. Len(Tail(s))}
  <2>1. DOMAIN Tail(s) = 1 .. Len(Tail(s))
    BY <1>1
  <2> QED BY <2>1 DEF Range
<1>4. Range(s) = {s[i] : i \in 1 .. Len(s)}
  BY DEF Range
<1>5. \A i, j \in 1 .. Len(Tail(s)) : Tail(s)[i] = Tail(s)[j] => i = j
  <2> SUFFICES ASSUME NEW i \in 1 .. Len(Tail(s)), NEW j \in 1 .. Len(Tail(s)),
                      Tail(s)[i] = Tail(s)[j]
               PROVE  i = j
    OBVIOUS
  <2>1. s[i + 1] = s[j + 1] /\ i + 1 \in 1 .. Len(s) /\ j + 1 \in 1 .. Len(s)
    BY <1>2
  <2>2. i + 1 = j + 1
    BY <2>1
  <2> QED BY <2>2, <1>1
<1>6. Head(s) \notin Range(Tail(s))
  <2> SUFFICES ASSUME NEW i \in 1 .. Len(Tail(s)), Tail(s)[i] = Head(s) PROVE FALSE
    BY <1>3
  <2>1. s[i + 1] = s[1] /\ i + 1 \in 1 .. Len(s) /\ 1 \in 1 .. Len(s)
    BY <1>1, <1>2
  <2>2. i + 1 = 1
    BY <2>1
  <2> QED BY <2>2, <1>1
<1>7. Range(Tail(s)) \subseteq Range(s)
  BY <1>2, <1>3, <1>4
<1>8. Head(s) \in Range(s)
  BY <1>1, <1>4
<1> QED BY <1>1, <1>5, <1>6, <1>7, <1>8

(* The server starts with nothing queued, active or generated.             *)
LEMMA InitQInv == Init => QInv
<1> SUFFICES ASSUME Init PROVE QInv
  OBVIOUS
<1> USE ServerAssumption
<1>1. pending = <<>> /\ active = {} /\ chunked = {} /\ engine = "admit" /\ popped = "none"
      /\ streams = {} /\ Len(pending) = 0 /\ Range(pending) = {} /\ closer = "serving"
  BY DEF Init, Range
<1>2. \A c \in Client : pc[c] = "new" /\ reply[c] = "none" /\ taken[c] = 0 /\ chan[c] = 0
                        /\ gen[c] = 0
  BY DEF Init
<1>3. IsFiniteSet(active) /\ Cardinality(active) = 0
  BY <1>1, FS_EmptySet
<1>c. capacity \in Capacities
  BY DEF Init
<1>4. Bounds
  BY <1>1, <1>2, <1>3, <1>c DEF Bounds, PendingCap
<1>5. Once
  BY <1>1, <1>2 DEF Once
<1>6. Numbers
  <2>1. connected \in [Client -> BOOLEAN] /\ taken \in [Client -> Nat]
    BY DEF Init
  <2>2. chan \in [Client -> 0 .. ChannelCap] /\ gen \in [Client -> 0 .. MaxNew]
    BY DEF Init
  <2> QED BY <1>1, <2>1, <2>2 DEF Numbers
<1>7. Delivered
  BY <1>1, <1>2 DEF Delivered
<1> QED BY <1>4, <1>5, <1>6, <1>7 DEF QInv

(* The slots are those the engine was built with.                          *)
LEMMA CapacityStays == [Next]_vars => capacity' = capacity
BY DEF Next, Engine, Closer, Submit, EarlyCheck, LockedCheck, Enqueue, NotifyOne, Take,
       Disconnect, Pop, Admit, Reject, StepOk, StepFails, FailAll, IdleCheck, WaitCheck, Park,
       Resume, SpuriousWakeup, RaiseShutdown, NotifyAll, Join, vars

(* The bounds: admission needs the count it checked before it unlocked.    *)
LEMMA NextBounds == IInv /\ QInv /\ [Next]_vars => Bounds'
<1> SUFFICES ASSUME IInv, QInv, [Next]_vars
             PROVE  Bounds'
  OBVIOUS
<1> USE ServerAssumption DEF Bounds, PendingCap
<1>a. Bounds /\ pending \in Seq(Client) /\ pc \in [Client -> {"new", "checked", "locked", "notify",
        "waiting", "returned"}] /\ active \subseteq Client
  BY DEF QInv, IInv, Shapes
<1>b. /\ \A c \in Client : pc[c] = "locked" <=> lock = c
      /\ engine = "admitting" <=> popped # "none"
      /\ popped \in Client \cup {"none"}
  BY DEF IInv, Exclusion, Popping, Shapes
<1>k. capacity' = capacity
  BY CapacityStays
<1>1. ASSUME NEW c \in Client, EarlyCheck(c) PROVE Bounds'
  BY <1>1, <1>a, <1>k, <1>b DEF EarlyCheck, Return, Enter, model
<1>2. ASSUME NEW c \in Client, LockedCheck(c) PROVE Bounds'
  BY <1>2, <1>a, <1>k, <1>b DEF LockedCheck, Return, Enter, model
<1>3. ASSUME NEW c \in Client, Enqueue(c) PROVE Bounds'
  <2>1. Len(pending) < PendingCap /\ Len(pending') = Len(pending) + 1 /\ Len(pending) \in Nat
    BY <1>3, <1>a, <1>k DEF Enqueue
  <2>2. \A d \in Client : pc'[d] # "locked"
    BY <1>3, <1>a, <1>k, <1>b DEF Enqueue, Enter
  <2> QED BY <1>3, <1>a, <1>k, <2>1, <2>2 DEF Enqueue, model
<1>4. ASSUME NEW c \in Client, NotifyOne(c) PROVE Bounds'
  BY <1>4, <1>a, <1>k, <1>b DEF NotifyOne, Enter, Wake, model
<1>5. ASSUME NEW c \in Client, Take(c) \/ Disconnect(c) PROVE Bounds'
  BY <1>5, <1>a, <1>k DEF Take, Disconnect, model
<1>6. ASSUME Pop PROVE Bounds'
  <2>1. CASE pending = <<>> \/ Cardinality(active) >= capacity
    BY <1>6, <2>1, <1>a, <1>k DEF Pop, clients, model
  <2>2. CASE ~(pending = <<>> \/ Cardinality(active) >= capacity)
    <3>1. Len(Tail(pending)) = Len(pending) - 1 /\ Len(pending) \in Nat
      BY <2>2, <1>a, <1>k
    <3>2. Cardinality(active) \in Nat
      BY <1>a, <1>k, FS_CardinalityType
    <3> QED BY <1>6, <2>2, <3>1, <3>2, <1>a, <1>k, <1>b DEF Pop, clients, model
  <2> QED BY <2>1, <2>2
<1>7. ASSUME NEW long \in BOOLEAN, Admit(long) PROVE Bounds'
  <2>1. active' = active \cup {popped} /\ chunked' \subseteq active' /\ engine' = "admit"
        /\ pc' = pc /\ pending' = pending /\ engine = "admitting"
    BY <1>7, <1>a, <1>k DEF Admit, clients
  <2>2. Cardinality(active) < capacity /\ IsFiniteSet(active) /\ Cardinality(active) \in Nat
    BY <2>1, <1>a, <1>k, FS_CardinalityType
  <2>3. IsFiniteSet(active') /\ (Cardinality(active') = Cardinality(active)
                                 \/ Cardinality(active') = Cardinality(active) + 1)
    BY <2>1, <2>2, FS_AddElement
  <2> QED BY <1>a, <1>k, <2>1, <2>2, <2>3
<1>8. ASSUME Reject PROVE Bounds'
  BY <1>8, <1>a, <1>k DEF Reject, model
<1>9. ASSUME NEW chunk \in SUBSET chunked, NEW emit \in SUBSET (active \ chunked),
             NEW fin \in SUBSET emit, StepOk(chunk, emit, fin)
      PROVE  Bounds'
  <2>1. active' \subseteq active /\ chunked' \subseteq active' /\ engine' = "admit"
        /\ pc' = pc /\ pending' = pending
    BY <1>9, <1>a, <1>k DEF StepOk, Gone, Completes
  <2>2. IsFiniteSet(active') /\ Cardinality(active') <= Cardinality(active)
        /\ Cardinality(active) \in Nat /\ Cardinality(active') \in Nat
    BY <2>1, <1>a, <1>k, FS_Subset, FS_CardinalityType
  <2> QED BY <1>a, <1>k, <2>1, <2>2
<1>10. ASSUME StepFails PROVE Bounds'
  BY <1>10, <1>a, <1>k DEF StepFails, clients, model
<1>11. ASSUME FailAll PROVE Bounds'
  <2>1. active' = {} /\ chunked' = {} /\ pending' = <<>> /\ engine' = "exited" /\ lock = "free"
        /\ pc' = pc
    BY <1>11 DEF FailAll
  <2>2. IsFiniteSet(active') /\ Cardinality(active') = 0 /\ Len(pending') = 0
    BY <2>1, FS_EmptySet
  <2> QED BY <1>a, <1>k, <1>b, <2>1, <2>2
<1>12. ASSUME IdleCheck \/ WaitCheck \/ Park \/ Resume \/ SpuriousWakeup PROVE Bounds'
  BY <1>12, <1>a, <1>k DEF IdleCheck, WaitCheck, Park, Resume, SpuriousWakeup, WaitCondition, clients, model
<1>13. ASSUME RaiseShutdown \/ NotifyAll \/ Join PROVE Bounds'
  BY <1>13, <1>a, <1>k DEF RaiseShutdown, NotifyAll, Join, Wake, clients, model
<1>14. CASE UNCHANGED vars
  BY <1>14, <1>a, <1>k DEF vars, clients, model
<1> QED
  BY <1>1, <1>2, <1>3, <1>4, <1>5, <1>6, <1>7, <1>8, <1>9, <1>10, <1>11, <1>12, <1>13, <1>14
  DEF Next, Submit, Engine, Closer

(* A request moves on, from the handler to the queue to the model.         *)
LEMMA NextOnceInv == IInv /\ QInv /\ [Next]_vars => Once'
<1> SUFFICES ASSUME IInv, QInv, [Next]_vars
             PROVE  Once'
  OBVIOUS
<1> USE ServerAssumption DEF Once
<1>a. /\ Once /\ pending \in Seq(Client) /\ active \subseteq Client
      /\ pc \in [Client -> {"new", "checked", "locked", "notify", "waiting", "returned"}]
      /\ reply \in [Client -> {"none", "shutting_down", "busy", "rejected", "stalled",
                               "failed", "ok"}]
      /\ popped \in Client \cup {"none"}
      /\ engine = "admitting" <=> popped # "none"
  BY DEF QInv, IInv, Shapes, Popping
<1>1. ASSUME NEW c \in Client, EarlyCheck(c) PROVE Once'
  BY <1>1, <1>a DEF EarlyCheck, Return, Enter, model
<1>2. ASSUME NEW c \in Client, LockedCheck(c) PROVE Once'
  BY <1>2, <1>a DEF LockedCheck, Return, Enter, model
<1>3. ASSUME NEW c \in Client, Enqueue(c) PROVE Once'
  <2>1. c \notin Range(pending) /\ c # popped /\ c \notin active /\ reply[c] = "none"
    BY <1>3, <1>a DEF Enqueue
  <2>2. /\ \A i, j \in 1 .. Len(pending') : pending'[i] = pending'[j] => i = j
        /\ Range(pending') = Range(pending) \cup {c}
    BY <1>3, <1>a, <2>1, AppendOnce, AppendRange DEF Enqueue
  <2>3. UNCHANGED <<reply, active, popped>> /\ pc' = [pc EXCEPT ![c] = "notify"]
    BY <1>3 DEF Enqueue, Enter, model
  <2> QED BY <1>a, <2>1, <2>2, <2>3
<1>4. ASSUME NEW c \in Client, NotifyOne(c) PROVE Once'
  BY <1>4, <1>a DEF NotifyOne, Enter, Wake, model
<1>5. ASSUME NEW c \in Client, Take(c) \/ Disconnect(c) PROVE Once'
  BY <1>5, <1>a DEF Take, Disconnect, model
<1>6. ASSUME Pop PROVE Once'
  <2>1. CASE pending = <<>> \/ Cardinality(active) >= capacity
    BY <1>6, <2>1, <1>a DEF Pop, clients, model
  <2>2. CASE ~(pending = <<>> \/ Cardinality(active) >= capacity)
    <3>1. /\ \A i, j \in 1 .. Len(Tail(pending)) : Tail(pending)[i] = Tail(pending)[j] => i = j
          /\ Head(pending) \notin Range(Tail(pending))
          /\ Range(Tail(pending)) \subseteq Range(pending) /\ Head(pending) \in Range(pending)
      BY <2>2, <1>a, PopOnce
    <3>2. popped' = Head(pending) /\ pending' = Tail(pending) /\ UNCHANGED <<pc, reply, active>>
      BY <1>6, <2>2 DEF Pop, clients, model
    <3>3. \A c \in Client : c \in Range(pending') \/ c = popped' \/ c \in active' =>
            c \in Range(pending) \/ c \in active
      BY <3>1, <3>2
    <3> QED BY <1>a, <3>1, <3>2, <3>3
  <2> QED BY <2>1, <2>2
<1>7. ASSUME NEW long \in BOOLEAN, Admit(long) PROVE Once'
  <2>1. active' = active \cup {popped} /\ popped' = "none" /\ UNCHANGED <<pc, reply, pending>>
        /\ popped \in Client
    BY <1>7, <1>a DEF Admit, clients
  <2>2. Range(pending) \subseteq Client
    BY <1>a DEF Range
  <2> QED BY <1>a, <2>1, <2>2
<1>8. ASSUME Reject PROVE Once'
  <2>1. /\ popped' = "none" /\ UNCHANGED <<pc, pending, active>> /\ popped \in Client
        /\ reply' = [reply EXCEPT ![popped] = "rejected"]
    BY <1>8, <1>a DEF Reject, model
  <2>2. Range(pending) \subseteq Client
    BY <1>a DEF Range
  <2> QED BY <1>a, <2>1, <2>2
<1>9. ASSUME NEW chunk \in SUBSET chunked, NEW emit \in SUBSET (active \ chunked),
             NEW fin \in SUBSET emit, StepOk(chunk, emit, fin)
      PROVE  Once'
  <2>1. /\ active' \subseteq active /\ UNCHANGED <<pc, pending, popped>>
        /\ \A c \in active' : c \notin Completes(emit, fin) /\ ~(c \in emit /\ Stalls(c))
        /\ \A c \in Client \ active : c \notin Completes(emit, fin) /\ c \notin emit
    BY <1>9 DEF StepOk, Gone, Completes
  <2>2. \A c \in Client : c \notin active \/ c \in active' => reply'[c] = reply[c]
    BY <1>9, <2>1 DEF StepOk
  <2>3. Range(pending) \subseteq Client
    BY <1>a DEF Range
  <2>4. \A c \in Range(pending) : c # popped /\ c \notin active'
    BY <1>a, <2>1
  <2>5. \A c \in Client : c \in Range(pending) \/ c = popped \/ c \in active' => reply'[c] = "none"
    BY <1>a, <2>1, <2>2, <2>3
  <2>6. \A c \in Client : pc[c] \in {"new", "checked", "locked"} => reply'[c] = "none"
    BY <1>a, <2>2
  <2> QED BY <1>a, <2>1, <2>4, <2>5, <2>6
<1>10. ASSUME StepFails PROVE Once'
  BY <1>10, <1>a DEF StepFails, clients, model
<1>11. ASSUME FailAll PROVE Once'
  <2>1. /\ active' = {} /\ pending' = <<>> /\ popped = "none" /\ UNCHANGED <<pc, popped>>
        /\ txs = active
    BY <1>11, <1>a DEF FailAll, IInv, SendersFollowSequences
  <2>2. Range(pending') = {} /\ Len(pending') = 0
    BY <2>1 DEF Range
  <2>3. \A c \in Client : pc[c] \in {"new", "checked", "locked"} => reply'[c] = "none"
    BY <1>11, <1>a, <2>1 DEF FailAll
  <2> QED BY <2>1, <2>2, <2>3
<1>12. ASSUME IdleCheck \/ WaitCheck \/ Park \/ Resume \/ SpuriousWakeup PROVE Once'
  BY <1>12, <1>a DEF IdleCheck, WaitCheck, Park, Resume, SpuriousWakeup, WaitCondition, clients, model
<1>13. ASSUME RaiseShutdown \/ NotifyAll \/ Join PROVE Once'
  BY <1>13, <1>a DEF RaiseShutdown, NotifyAll, Join, Wake, clients, model
<1>14. CASE UNCHANGED vars
  BY <1>14, <1>a DEF vars, clients, model
<1> QED
  BY <1>1, <1>2, <1>3, <1>4, <1>5, <1>6, <1>7, <1>8, <1>9, <1>10, <1>11, <1>12, <1>13, <1>14
  DEF Next, Submit, Engine, Closer

(* A step is the only source of tokens, and its delivery gives the channel *)
(* of each stream that is not told otherwise exactly the one it made.      *)
LEMMA NextDelivered == IInv /\ QInv /\ [Next]_vars => Numbers' /\ Delivered'
<1> SUFFICES ASSUME IInv, QInv, [Next]_vars
             PROVE  Numbers' /\ Delivered'
  OBVIOUS
<1> USE ServerAssumption DEF Numbers, Delivered
<1>a. /\ Numbers /\ Delivered /\ pending \in Seq(Client) /\ active \subseteq Client
      /\ pc \in [Client -> {"new", "checked", "locked", "notify", "waiting", "returned"}]
      /\ reply \in [Client -> {"none", "shutting_down", "busy", "rejected", "stalled",
                               "failed", "ok"}]
      /\ popped \in Client \cup {"none"}
      /\ engine = "admitting" <=> popped # "none"
  BY DEF QInv, IInv, Shapes, Popping
<1>b. /\ \A c \in Client : pc[c] \in {"new", "checked", "locked"} => reply[c] = "none"
      /\ \A c \in Client : c \in Range(pending) \/ c = popped \/ c \in active =>
           pc[c] \in {"notify", "waiting"} /\ reply[c] = "none"
      /\ \A c \in Range(pending) : c # popped /\ c \notin active
      /\ popped \notin active
  BY DEF QInv, Once
<1>1. ASSUME NEW c \in Client, EarlyCheck(c) PROVE Numbers' /\ Delivered'
  BY <1>1, <1>a, <1>b DEF EarlyCheck, Return, Enter, model, maps
<1>2. ASSUME NEW c \in Client, LockedCheck(c) PROVE Numbers' /\ Delivered'
  BY <1>2, <1>a, <1>b DEF LockedCheck, Return, Enter, model, maps
<1>3. ASSUME NEW c \in Client, Enqueue(c) PROVE Numbers' /\ Delivered'
  <2>1. Range(pending') = Range(pending) \cup {c}
    BY <1>3, <1>a, AppendRange DEF Enqueue
  <2> QED BY <1>3, <1>a, <2>1 DEF Enqueue, Enter, model, maps
<1>4. ASSUME NEW c \in Client, NotifyOne(c) PROVE Numbers' /\ Delivered'
  BY <1>4, <1>a DEF NotifyOne, Enter, Wake, model, maps
<1>5. ASSUME NEW c \in Client, Take(c) PROVE Numbers' /\ Delivered'
  <2>1. /\ UNCHANGED <<pc, reply, connected, pending, popped, active, gen, streams, closer>>
        /\ chan' = [chan EXCEPT ![c] = @ - 1] /\ taken' = [taken EXCEPT ![c] = @ + 1]
        /\ chan[c] > 0
    BY <1>5 DEF Take, model, maps
  <2>2. \A d \in Client : taken'[d] + chan'[d] = taken[d] + chan[d]
    BY <1>a, <2>1
  <2>3. Numbers'
    BY <1>a, <2>1
  <2>4. Delivered'
    BY <1>a, <2>1, <2>2
  <2> QED BY <2>3, <2>4
<1>6. ASSUME NEW c \in Client, Disconnect(c) PROVE Numbers' /\ Delivered'
  BY <1>6, <1>a DEF Disconnect, model, maps
<1>7. ASSUME Pop PROVE Numbers' /\ Delivered'
  <2>1. CASE pending = <<>> \/ Cardinality(active) >= capacity
    BY <1>7, <2>1, <1>a DEF Pop, clients, model, maps
  <2>2. CASE ~(pending = <<>> \/ Cardinality(active) >= capacity)
    <3>1. Range(Tail(pending)) \subseteq Range(pending) /\ Head(pending) \in Range(pending)
      BY <2>2, <1>a, PopOnce DEF QInv, Once
    <3> QED BY <1>7, <2>2, <1>a, <3>1 DEF Pop, clients, model, maps
  <2> QED BY <2>1, <2>2
<1>8. ASSUME NEW long \in BOOLEAN, Admit(long) PROVE Numbers' /\ Delivered'
  BY <1>8, <1>a DEF Admit, clients
<1>9. ASSUME Reject PROVE Numbers' /\ Delivered'
  BY <1>9, <1>a DEF Reject, model, maps
<1>10. ASSUME NEW chunk \in SUBSET chunked, NEW emit \in SUBSET (active \ chunked),
              NEW fin \in SUBSET emit, StepOk(chunk, emit, fin)
       PROVE  Numbers' /\ Delivered'
  <2>1. /\ engine = "work" /\ UNCHANGED <<pc, connected, taken, pending, popped, closer>>
        /\ streams' \subseteq streams /\ streams = active \cap Streaming
        /\ gen' = [c \in Client |-> IF c \in emit THEN gen[c] + 1 ELSE gen[c]]
        /\ chan' = [c \in Client |-> IF c \in emit \cap streams /\ ~Stalls(c)
                                     THEN chan[c] + 1 ELSE chan[c]]
        /\ \A c \in emit : gen[c] + 1 >= MaxNew => c \in fin
        /\ emit \subseteq active
    BY <1>10, <1>a DEF StepOk, IInv, SendersFollowSequences
  <2>2. \A c \in Client : c \in emit \cap streams /\ ~Stalls(c) => chan[c] < ChannelCap
    BY <1>a DEF Stalls
  <2>3. \A c \in emit : gen[c] < MaxNew
    BY <1>a, <2>1
  <2>4. Numbers'
    BY <1>a, <2>1, <2>2, <2>3
  <2>5. \A c \in Client : taken'[c] + chan'[c] <= gen'[c]
    BY <1>a, <2>1
  <2>6. \A c \in Streaming : reply'[c] \in {"none", "ok"} => taken'[c] + chan'[c] = gen'[c]
    <3> SUFFICES ASSUME NEW c \in Streaming, reply'[c] \in {"none", "ok"}
                 PROVE  taken'[c] + chan'[c] = gen'[c]
      OBVIOUS
    <3>1. CASE c \in emit
      <4>1. ~Stalls(c)
        BY <1>10, <3>1 DEF StepOk, Completes
      <4>2. reply[c] = "none" /\ c \in emit \cap streams
        BY <1>a, <1>b, <2>1, <3>1
      <4> QED BY <1>a, <2>1, <3>1, <4>1, <4>2
    <3>2. CASE c \notin emit
      <4>1. reply'[c] = reply[c]
        BY <1>10, <3>2 DEF StepOk, Completes
      <4> QED BY <1>a, <2>1, <3>2, <4>1
    <3> QED BY <3>1, <3>2
  <2>7. \A c \in active' : gen'[c] < MaxNew
    <3> SUFFICES ASSUME NEW c \in active' PROVE gen'[c] < MaxNew
      OBVIOUS
    <3>1. c \in active /\ c \notin Gone(emit, fin)
      BY <1>10 DEF StepOk
    <3>2. CASE c \in emit
      <4>1. c \notin fin
        BY <3>1, <3>2 DEF Gone, Completes
      <4> QED BY <1>a, <2>1, <3>2, <4>1
    <3>3. CASE c \notin emit
      BY <1>a, <2>1, <3>1, <3>3
    <3> QED BY <3>2, <3>3
  <2>8. \A c \in Client : pc'[c] \in {"new", "checked", "locked"}
                          \/ c \in Range(pending') \/ c = popped' => gen'[c] = 0
    <3>1. \A c \in emit : pc[c] \in {"notify", "waiting"} /\ c \notin Range(pending) /\ c # popped
      BY <1>b, <2>1, <1>a
    <3>2. \A c \in Client \ emit : gen'[c] = gen[c]
      BY <2>1
    <3>3. pc' = pc /\ Range(pending') = Range(pending) /\ popped' = popped
      BY <2>1
    <3> QED BY <1>a, <3>1, <3>2, <3>3
  <2> QED BY <2>4, <2>5, <2>6, <2>7, <2>8
<1>11. ASSUME StepFails PROVE Numbers' /\ Delivered'
  BY <1>11, <1>a DEF StepFails, clients, model, maps
<1>12. ASSUME FailAll PROVE Numbers' /\ Delivered'
  <2>1. Range(pending') = {} /\ active' = {} /\ streams' = {}
        /\ UNCHANGED <<pc, connected, taken, chan, popped, gen, closer>>
    BY <1>12 DEF FailAll, Range
  <2>2. \A c \in Client : reply'[c] = "failed" \/ reply'[c] = reply[c]
    BY <1>12 DEF FailAll
  <2> QED BY <1>a, <2>1, <2>2
<1>13. ASSUME IdleCheck \/ WaitCheck \/ Park \/ Resume \/ SpuriousWakeup
       PROVE  Numbers' /\ Delivered'
  BY <1>13, <1>a
  DEF IdleCheck, WaitCheck, Park, Resume, SpuriousWakeup, WaitCondition, clients, model, maps
<1>14. ASSUME RaiseShutdown \/ NotifyAll \/ Join PROVE Numbers' /\ Delivered'
  BY <1>14, <1>a DEF RaiseShutdown, NotifyAll, Join, Wake, clients, model, maps
<1>15. CASE UNCHANGED vars
  BY <1>15, <1>a DEF vars, clients, model, maps
<1> QED
  BY <1>1, <1>2, <1>3, <1>4, <1>5, <1>6, <1>7, <1>8, <1>9, <1>10, <1>11, <1>12, <1>13, <1>14,
     <1>15
  DEF Next, Submit, Engine, Closer

(* Both inductive invariants hold throughout every behaviour.              *)
THEOREM Quantities == Spec => [](IInv /\ QInv)
<1>1. Init => IInv /\ QInv
  BY InitIInv, InitQInv
<1>2. (IInv /\ QInv) /\ [Next]_vars => (IInv /\ QInv)'
  BY NextIInv, NextBounds, NextOnceInv, NextDelivered DEF QInv
<1> QED BY <1>1, <1>2, PTL DEF Spec

(* The queue never holds more than it admits to, the model never more      *)
(* sequences than slots, a channel never more than its capacity, and no    *)
(* request gets more tokens than it asked for.                             *)
THEOREM ServerTypeCorrect == Spec => []TypeOK
<1>1. IInv /\ QInv => TypeOK
  <2> SUFFICES ASSUME IInv, QInv PROVE TypeOK
    OBVIOUS
  <2>1. taken \in [Client -> 0 .. MaxNew]
    <3>1. /\ taken \in [Client -> Nat] /\ chan \in [Client -> 0 .. ChannelCap]
          /\ gen \in [Client -> 0 .. MaxNew] /\ \A c \in Client : taken[c] + chan[c] <= gen[c]
      BY DEF QInv, Numbers, Delivered
    <3>2. \A c \in Client : taken[c] \in 0 .. MaxNew
      BY <3>1, ServerAssumption
    <3> QED BY <3>1, <3>2
  <2>2. closer \in {"serving", "stored", "joining", "joined"}
    BY DEF QInv, Numbers
  <2>3. txs \subseteq Client
    BY DEF IInv, SendersFollowSequences, Ended, Shapes
  <2> QED BY <2>1, <2>2, <2>3 DEF TypeOK, IInv, Shapes, QInv, Bounds, Numbers
<1> QED BY <1>1, Quantities, PTL

(* A stream that is told it completed has, read or in its channel, every   *)
(* token the model generated for it.                                       *)
THEOREM CompletedStreamsAreWhole == Spec => []CompletionIsWhole
<1>1. QInv => CompletionIsWhole
  BY DEF QInv, Delivered, CompletionIsWhole
<1> QED BY <1>1, Quantities, PTL

(* An answer, accepted or refused, is final: no step writes over it.       *)
THEOREM AnswersStayFinal == Spec => AnswersAreFinal
<1> DEFINE Final == \A c \in Client : reply[c] # "none" => reply'[c] = reply[c]
<1>1. IInv /\ QInv /\ [Next]_vars => [Final]_vars
  <2> SUFFICES ASSUME IInv, QInv, Next PROVE Final
    BY Zenon
  <2> USE ServerAssumption
  <2>a. /\ pending \in Seq(Client) /\ active \subseteq Client
        /\ reply \in [Client -> {"none", "shutting_down", "busy", "rejected", "stalled",
                                 "failed", "ok"}]
        /\ popped \in Client \cup {"none"}
        /\ engine = "admitting" <=> popped # "none"
        /\ engine # "exited" => txs = active
    BY DEF IInv, Shapes, Popping, SendersFollowSequences
  <2>b. /\ \A c \in Client : pc[c] \in {"new", "checked", "locked"} => reply[c] = "none"
        /\ \A c \in Client : c \in Range(pending) \/ c = popped \/ c \in active =>
             reply[c] = "none"
    BY DEF QInv, Once
  <2>1. ASSUME NEW c \in Client, Submit(c) PROVE Final
    BY <2>1, <2>a, <2>b DEF Submit, EarlyCheck, LockedCheck, Enqueue, NotifyOne, Return, Enter
  <2>2. ASSUME NEW c \in Client, Take(c) \/ Disconnect(c) PROVE Final
    BY <2>2 DEF Take, Disconnect
  <2>3. ASSUME Reject PROVE Final
    BY <2>3, <2>a, <2>b DEF Reject
  <2>4. ASSUME NEW chunk \in SUBSET chunked, NEW emit \in SUBSET (active \ chunked),
               NEW fin \in SUBSET emit, StepOk(chunk, emit, fin)
        PROVE  Final
    BY <2>4, <2>a, <2>b DEF StepOk, Completes
  <2>5. ASSUME FailAll PROVE Final
    BY <2>5, <2>a, <2>b DEF FailAll
  <2>6. ASSUME Pop \/ StepFails \/ IdleCheck \/ WaitCheck \/ Park \/ Resume \/ SpuriousWakeup
               \/ Closer
        PROVE  Final
    BY <2>6 DEF Pop, StepFails, IdleCheck, WaitCheck, Park, Resume, SpuriousWakeup, Closer,
                RaiseShutdown, NotifyAll, Join, clients
  <2>7. ASSUME NEW long \in BOOLEAN, Admit(long) PROVE Final
    BY <2>7 DEF Admit, clients
  <2> QED BY <2>1, <2>2, <2>3, <2>4, <2>5, <2>6, <2>7 DEF Next, Engine
<1>2. [](IInv /\ QInv) /\ [][Next]_vars => [][Final]_vars
  BY <1>1, PTL
<1>3. [][Final]_vars <=> AnswersAreFinal
  BY DEF AnswersAreFinal
<1> QED BY <1>2, <1>3, Quantities, PTL DEF Spec
=============================================================================
