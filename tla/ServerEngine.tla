---------------------------- MODULE ServerEngine ----------------------------
(***************************************************************************)
(* The engine thread of mach-server and the HTTP handlers that submit to   *)
(* it (engine.rs).  Shared state is the pending queue under its mutex and  *)
(* condition variable, the shutdown flag, which is an atomic read and      *)
(* written with and without that mutex, and one token channel per stream.  *)
(* txs and streams are mutexes too, but only the engine thread takes them. *)
(*                                                                         *)
(* The model is abstracted to what the loop asks of it: a step prefills a  *)
(* chunk of some sequences and makes others emit one token (at least one   *)
(* sequence gets rows: the first slot always does), and it finishes those  *)
(* at max_new and any other it likes (EOS, stop sequence, context limit).  *)
(* That what it finishes has emitted in the same step is the engine        *)
(* models' contract, which FinishInRange's violation can break.            *)
(***************************************************************************)
EXTENDS Integers, Sequences, FiniteSets, Functions

CONSTANTS
  Client,      (* requests, each submitted once                            *)
  Streaming,   (* those submitted with submit_stream                       *)
  Capacities,  (* the numbers of slots an engine may be built with         *)
  MaxNew,      (* max_new of every request                                 *)
  ChannelCap   (* tokens a stream channel holds: 256 in the code           *)

ASSUME ServerAssumption ==
  /\ Streaming \subseteq Client
  /\ Client \cap {"engine", "free", "none"} = {}
  /\ Capacities \subseteq Nat \ {0} /\ MaxNew \in Nat \ {0} /\ ChannelCap \in Nat \ {0}

VARIABLES
  capacity,   (* slots of the model                                        *)
  pc,         (* per request: how far its submit call is                   *)
  reply,      (* per request: what its caller was told, or "none"          *)
  connected,  (* per request: the token receiver still exists              *)
  taken,      (* per request: tokens its receiver took from the channel    *)
  chan,       (* per request: tokens in its channel                        *)
  pending,    (* the queue                                                 *)
  lock,       (* who holds the queue's mutex: a request, "engine", "free"  *)
  shutdown,   (* the flag                                                  *)
  engine,     (* where the engine thread is                                *)
  popped,     (* the request between pending and the model, or "none"      *)
  active,     (* requests with a sequence in the model                     *)
  chunked,    (* active requests with a prompt chunk before their outputs  *)
  gen,        (* per request: tokens generated                             *)
  txs,        (* requests whose completion sender is in the map            *)
  streams,    (* requests whose token sender is in the map                 *)
  closer      (* the thread that calls shutdown() and then joins           *)

clients == <<pc, reply, connected, taken, chan>>
model   == <<active, chunked, gen>>
maps    == <<txs, streams>>
outside == <<closer, capacity>>
vars    == <<clients, pending, lock, shutdown, engine, popped, model, maps, outside>>

PendingCap == capacity * 2

TypeOK ==
  /\ capacity \in Capacities
  /\ pc \in [Client -> {"new", "checked", "locked", "notify", "waiting", "returned"}]
  /\ reply \in [Client -> {"none", "shutting_down", "busy", "rejected", "stalled",
                           "failed", "ok"}]
  /\ connected \in [Client -> BOOLEAN]
  /\ taken \in [Client -> 0 .. MaxNew]
  /\ chan \in [Client -> 0 .. ChannelCap]
  /\ pending \in Seq(Client) /\ Len(pending) <= PendingCap
  /\ lock \in Client \cup {"engine", "free"}
  /\ shutdown \in BOOLEAN
  /\ engine \in {"admit", "admitting", "work", "idle", "parking", "asleep",
                 "woken", "failing", "exited"}
  /\ popped \in Client \cup {"none"}
  /\ active \subseteq Client /\ Cardinality(active) <= capacity
  /\ chunked \subseteq active
  /\ gen \in [Client -> 0 .. MaxNew]
  /\ txs \subseteq Client
  /\ streams \subseteq Streaming
  /\ closer \in {"serving", "stored", "joining", "joined"}

Init ==
  /\ capacity \in Capacities
  /\ pc = [c \in Client |-> "new"]
  /\ reply = [c \in Client |-> "none"]
  /\ connected = [c \in Client |-> TRUE]
  /\ taken = [c \in Client |-> 0]
  /\ chan = [c \in Client |-> 0]
  /\ pending = <<>>
  /\ lock = "free"
  /\ shutdown = FALSE
  /\ engine = "admit"
  /\ popped = "none"
  /\ active = {}
  /\ chunked = {}
  /\ gen = [c \in Client |-> 0]
  /\ txs = {}
  /\ streams = {}
  /\ closer = "serving"

(***************************************************************************)
(* submit, submit_stream                                                   *)
(***************************************************************************)
Return(c, answer) ==
  /\ pc' = [pc EXCEPT ![c] = "returned"]
  /\ reply' = [reply EXCEPT ![c] = answer]

Enter(c, at) ==
  /\ pc' = [pc EXCEPT ![c] = at]
  /\ UNCHANGED reply

(* A notification wakes the engine only if it is waiting already.          *)
Wake == engine' = IF engine = "asleep" THEN "woken" ELSE engine

(* The early check, without the lock.                                      *)
EarlyCheck(c) ==
  /\ pc[c] = "new"
  /\ IF shutdown THEN Return(c, "shutting_down") ELSE Enter(c, "checked")
  /\ UNCHANGED <<connected, taken, chan, pending, lock, shutdown, engine,
                 popped, model, maps, outside>>

(* Mutants of LockedCheck: the flag is not read again under the lock; the  *)
(* queue takes one request too many.                                       *)
LockedCheckOnce(c) ==
  /\ pc[c] = "checked" /\ lock = "free"
  /\ IF Len(pending) >= PendingCap THEN Return(c, "busy") /\ UNCHANGED lock
     ELSE Enter(c, "locked") /\ lock' = c
  /\ UNCHANGED <<connected, taken, chan, pending, shutdown, engine, popped,
                 model, maps, outside>>

LockedCheckOverfull(c) ==
  /\ pc[c] = "checked" /\ lock = "free"
  /\ IF shutdown THEN Return(c, "shutting_down") /\ UNCHANGED lock
     ELSE IF Len(pending) > PendingCap THEN Return(c, "busy") /\ UNCHANGED lock
     ELSE Enter(c, "locked") /\ lock' = c
  /\ UNCHANGED <<connected, taken, chan, pending, shutdown, engine, popped,
                 model, maps, outside>>

(* The queue is locked and both refusals are decided under the lock.       *)
LockedCheck(c) ==
  /\ pc[c] = "checked" /\ lock = "free"
  /\ IF shutdown THEN Return(c, "shutting_down") /\ UNCHANGED lock
     ELSE IF Len(pending) >= PendingCap THEN Return(c, "busy") /\ UNCHANGED lock
     ELSE Enter(c, "locked") /\ lock' = c
  /\ UNCHANGED <<connected, taken, chan, pending, shutdown, engine, popped,
                 model, maps, outside>>

Enqueue(c) ==
  /\ pc[c] = "locked"
  /\ pending' = Append(pending, c)
  /\ lock' = "free"
  /\ Enter(c, "notify")
  /\ UNCHANGED <<connected, taken, chan, shutdown, engine, popped, model,
                 maps, outside>>

(* notify_one, after the lock is released; then the caller awaits.         *)
NotifyOne(c) ==
  /\ pc[c] = "notify"
  /\ Enter(c, "waiting")
  /\ Wake
  /\ UNCHANGED <<connected, taken, chan, pending, lock, shutdown, popped,
                 model, maps, outside>>

(* The stream's reader takes a token, or goes away with its client.        *)
Take(c) ==
  /\ c \in Streaming /\ connected[c] /\ chan[c] > 0
  /\ chan' = [chan EXCEPT ![c] = @ - 1]
  /\ taken' = [taken EXCEPT ![c] = @ + 1]
  /\ UNCHANGED <<pc, reply, connected, pending, lock, shutdown, engine,
                 popped, model, maps, outside>>

Disconnect(c) ==
  /\ c \in Streaming /\ connected[c] /\ pc[c] = "waiting"
  /\ connected' = [connected EXCEPT ![c] = FALSE]
  /\ UNCHANGED <<pc, reply, taken, chan, pending, lock, shutdown, engine,
                 popped, model, maps, outside>>

(***************************************************************************)
(* run: admission                                                          *)
(***************************************************************************)
Pop ==
  /\ engine = "admit" /\ lock = "free"
  /\ IF pending = <<>> \/ Cardinality(active) >= capacity
     THEN engine' = "work" /\ UNCHANGED <<pending, popped>>
     ELSE /\ engine' = "admitting"
          /\ popped' = Head(pending)
          /\ pending' = Tail(pending)
  /\ UNCHANGED <<clients, lock, shutdown, model, maps, outside>>

(* model.add, with the queue unlocked.  A long prompt takes more than one  *)
(* step to its first output.                                               *)
Admit(long) ==
  /\ engine = "admitting"
  /\ chunked' = IF long THEN chunked \cup {popped} ELSE chunked
  /\ active' = active \cup {popped}
  /\ txs' = txs \cup {popped}
  /\ streams' = streams \cup ({popped} \cap Streaming)
  /\ engine' = "admit" /\ popped' = "none"
  /\ UNCHANGED <<clients, pending, lock, shutdown, gen, outside>>

(* add or the vision encoder failed: a structured error, not a hang.       *)
Reject ==
  /\ engine = "admitting"
  /\ reply' = [reply EXCEPT ![popped] = "rejected"]
  /\ engine' = "admit" /\ popped' = "none"
  /\ UNCHANGED <<pc, connected, taken, chan, pending, lock, shutdown, model,
                 maps, outside>>

(***************************************************************************)
(* run: one step and its delivery                                          *)
(***************************************************************************)

(* push_token: try_send fails on a full or abandoned channel.              *)
Stalls(c) == c \in streams /\ (chan[c] >= ChannelCap \/ ~connected[c])

(* Mutant of Completes: a last token that was dropped still completes.     *)
CompletesAnyway(emit, fin) == fin

(* deliver_step_tokens: the stalled are cancelled, the finished complete.  *)
Completes(emit, fin) == {c \in fin : ~Stalls(c)}

(* Mutant of Gone: a round that completes a sequence cancels no stalled    *)
(* one.                                                                    *)
GoneCompletedFirst(emit, fin) ==
  IF Completes(emit, fin) # {} THEN Completes(emit, fin) ELSE {c \in emit : Stalls(c)}

Gone(emit, fin) == {c \in emit : Stalls(c)} \cup Completes(emit, fin)

StepOk(chunk, emit, fin) ==
  /\ engine = "work" /\ chunk \cup emit # {}
  /\ {c \in emit : gen[c] + 1 >= MaxNew} \subseteq fin
  /\ gen' = [c \in Client |-> IF c \in emit THEN gen[c] + 1 ELSE gen[c]]
  /\ chan' = [c \in Client |-> IF c \in emit \cap streams /\ ~Stalls(c)
                               THEN chan[c] + 1 ELSE chan[c]]
  /\ reply' = [c \in Client |-> IF c \in Completes(emit, fin) THEN "ok"
                                ELSE IF c \in emit /\ Stalls(c) THEN "stalled"
                                ELSE reply[c]]
  /\ active' = active \ Gone(emit, fin)
  /\ chunked' = chunked \ chunk
  /\ txs' = txs \ (Completes(emit, fin) \cup {c \in emit : Stalls(c)})
  /\ streams' = streams \ (Completes(emit, fin) \cup {c \in emit : Stalls(c)})
  /\ engine' = "admit"
  /\ UNCHANGED <<pc, connected, taken, pending, lock, shutdown, popped,
                 outside>>

(* model.step failed: fail_all begins by raising the flag.                 *)
StepFails ==
  /\ engine = "work" /\ active # {}
  /\ shutdown' = TRUE
  /\ engine' = "failing"
  /\ UNCHANGED <<clients, pending, lock, popped, model, maps, outside>>

(* fail_all drains the queue, then the senders; the thread ends and takes  *)
(* the model with it.                                                      *)
FailAll ==
  /\ engine = "failing" /\ lock = "free"
  /\ reply' = [c \in Client |-> IF c \in txs \cup Range(pending) THEN "failed"
                                ELSE reply[c]]
  /\ pending' = <<>> /\ txs' = {} /\ streams' = {} /\ active' = {} /\ chunked' = {}
  /\ engine' = "exited"
  /\ UNCHANGED <<pc, connected, taken, chan, lock, shutdown, popped, gen,
                 outside>>

(***************************************************************************)
(* run: idle                                                               *)
(***************************************************************************)

(* Mutant of IdleCheck: the thread exits on the flag alone.                *)
IdleCheckFlag ==
  /\ engine = "work" /\ active = {} /\ lock = "free"
  /\ IF shutdown THEN engine' = "exited" /\ UNCHANGED lock
     ELSE IF pending # <<>> THEN engine' = "admit" /\ UNCHANGED lock
     ELSE engine' = "idle" /\ lock' = "engine"
  /\ UNCHANGED <<clients, pending, shutdown, popped, model, maps, outside>>

(* Nothing active: lock the queue, and exit if it is empty and the flag up. *)
IdleCheck ==
  /\ engine = "work" /\ active = {} /\ lock = "free"
  /\ IF pending # <<>> THEN engine' = "admit" /\ UNCHANGED lock
     ELSE IF shutdown THEN engine' = "exited" /\ UNCHANGED lock
     ELSE engine' = "idle" /\ lock' = "engine"
  /\ UNCHANGED <<clients, pending, shutdown, popped, model, maps, outside>>

(* "while pending.is_empty() && !shutdown", the queue locked.              *)
WaitCondition ==
  IF pending = <<>> /\ ~shutdown
  THEN engine' = "parking" /\ lock' = "engine"
  ELSE engine' = "admit" /\ lock' = "free"

WaitCheck ==
  /\ engine = "idle"
  /\ WaitCondition
  /\ UNCHANGED <<clients, pending, shutdown, popped, model, maps, outside>>

(* cond.wait releases the queue and blocks in one step.                    *)
Park ==
  /\ engine = "parking"
  /\ engine' = "asleep" /\ lock' = "free"
  /\ UNCHANGED <<clients, pending, shutdown, popped, model, maps, outside>>

(* cond.wait returns with the queue locked again.                          *)
Resume ==
  /\ engine = "woken" /\ lock = "free"
  /\ WaitCondition
  /\ UNCHANGED <<clients, pending, shutdown, popped, model, maps, outside>>

SpuriousWakeup ==
  /\ engine = "asleep"
  /\ engine' = "woken"
  /\ UNCHANGED <<clients, pending, lock, shutdown, popped, model, maps,
                 outside>>

(***************************************************************************)
(* shutdown, and main's join of the engine thread                          *)
(***************************************************************************)
RaiseShutdown ==
  /\ closer = "serving"
  /\ shutdown' = TRUE
  /\ closer' = "stored"
  /\ UNCHANGED <<clients, pending, lock, engine, popped, model, maps, capacity>>

NotifyAll ==
  /\ closer = "stored"
  /\ closer' = "joining"
  /\ Wake
  /\ UNCHANGED <<clients, pending, lock, shutdown, popped, model, maps, capacity>>

Join ==
  /\ closer = "joining" /\ engine = "exited"
  /\ closer' = "joined"
  /\ UNCHANGED <<clients, pending, lock, shutdown, engine, popped, model,
                 maps, capacity>>

(***************************************************************************)
(* Specification                                                           *)
(***************************************************************************)
Submit(c) == EarlyCheck(c) \/ LockedCheck(c) \/ Enqueue(c) \/ NotifyOne(c)

Engine ==
  \/ Pop \/ Reject
  \/ \E long \in BOOLEAN : Admit(long)
  \/ \E chunk \in SUBSET chunked, emit \in SUBSET (active \ chunked) :
       \E fin \in SUBSET emit : StepOk(chunk, emit, fin)
  \/ StepFails \/ FailAll
  \/ IdleCheck \/ WaitCheck \/ Park \/ Resume

Closer == RaiseShutdown \/ NotifyAll \/ Join

Next ==
  \/ \E c \in Client : Submit(c) \/ Take(c) \/ Disconnect(c)
  \/ Engine
  \/ SpuriousWakeup
  \/ Closer

Spec == Init /\ [][Next]_vars

(* The engine thread runs, and so does a handler or a shutdown call that   *)
(* has begun.  Readers may stall, and nothing wakes a waiter for free.     *)
Fairness ==
  /\ WF_vars(Engine)
  /\ \A c \in Client : WF_vars(pc[c] # "new" /\ Submit(c))
  /\ WF_vars(NotifyAll) /\ WF_vars(Join)

FairSpec == Spec /\ Fairness

(***************************************************************************)
(* Properties                                                              *)
(***************************************************************************)

(* Once the engine thread has ended, by shutdown or by a failed step, no   *)
(* accepted request is left without an answer: none is queued or in a map, *)
(* and none can still be enqueued by a handler that checked the flag early. *)
NoRequestOrphaned ==
  engine = "exited" =>
    /\ pending = <<>> /\ popped = "none" /\ txs = {} /\ streams = {}
    /\ \A c \in Client : pc[c] \in {"notify", "waiting"} => reply[c] # "none"
    /\ \A c \in Client : pc[c] # "locked"

(* The maps follow the model: whenever the engine thread is not inside a   *)
(* failure, a sequence is active exactly if its completion sender is       *)
(* waiting, and its token sender too if it streams.                        *)
SendersFollowSequences ==
  engine # "exited" => txs = active /\ streams = active \cap Streaming

(* "Silently dropping the token would truncate the response": a stream     *)
(* that is told it completed has, read or in its channel, every token.     *)
CompletionIsWhole ==
  \A c \in Streaming : reply[c] = "ok" => taken[c] + chan[c] = gen[c]

(* A request is answered once: an answer, accepted or refused, is final.   *)
AnswersAreFinal ==
  [][\A c \in Client : reply[c] # "none" => reply'[c] = reply[c]]_vars

(* An accepted request is answered: no wakeup of submit is lost, and       *)
(* neither shutdown nor a failed step strands it.                          *)
EveryRequestIsAnswered ==
  \A c \in Client : pc[c] = "notify" ~> reply[c] # "none"

(* "Requests graceful shutdown: the engine thread drains queued + active   *)
(* sequences, then exits."                                                 *)
ShutdownEnds == closer = "stored" ~> engine = "exited"
=============================================================================
