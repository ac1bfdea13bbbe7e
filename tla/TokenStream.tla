---------------------------- MODULE TokenStream ----------------------------
(***************************************************************************)
(* One streamed response: stream_tokens (routes.rs) between the engine     *)
(* thread, which fills the token channel and then reports and closes       *)
(* (engine.rs), and the HTTP client, which reads the body.                 *)
(*                                                                         *)
(* A text is the sequence of the token numbers it decodes; a token that    *)
(* ends inside a UTF-8 character counts to the text that ends it.          *)
(* One poll of one branch of the biased select! is a step: the engine      *)
(* thread and the client run between two polls.  A task parked on all      *)
(* three branches is one that polls again and finds nothing ready.         *)
(***************************************************************************)
EXTENDS Integers, Sequences, SequencesExt

CONSTANTS
  MaxNew,      (* tokens the engine generates at most                      *)
  ChannelCap,  (* the engine's token channel: 256 in the code              *)
  BodyCap,     (* the body channel: 16 in the code                         *)
  Backlog      (* STREAM_FRAME_BACKLOG                                     *)

ASSUME StreamAssumption ==
  /\ MaxNew \in Nat \ {0} /\ ChannelCap \in Nat \ {0}
  /\ BodyCap \in Nat \ {0} /\ Backlog \in Nat \ {0}

VARIABLES
  sequence,   (* the engine thread's progress with the sequence            *)
  generated,  (* tokens sampled so far                                     *)
  dropped,    (* try_send failed and its token was dropped                 *)
  chan,       (* the token channel                                         *)
  report,     (* what the completion oneshot holds, or "none"              *)
  closed,     (* the engine dropped its token sender                       *)
  task,       (* the branch stream_tokens polls next, or its epilogue      *)
  acc,        (* decoded, but not yet a whole character                    *)
  frames,     (* pending: the SSE frames not yet handed to the body        *)
  reasonSet,  (* reason.is_some()                                          *)
  failure,    (* why the stream is being failed, or "none"                 *)
  body,       (* the body channel                                          *)
  received,   (* the frames the client has read                            *)
  connected   (* the client still holds the body                           *)

engineVars == <<sequence, generated, dropped, report, closed>>
clientVars == <<received, connected>>
vars == <<engineVars, clientVars, chan, task, acc, frames, reasonSet, failure, body>>

Text(frame)  == [kind |-> "text", text |-> frame]
FinishChunk  == [kind |-> "finish", text |-> <<>>]
ErrorFrame   == [kind |-> "error", text |-> <<>>]
TextOf(fs)   == FlattenSeq([i \in 1 .. Len(fs) |-> fs[i].text])
Upto(n)      == [i \in 1 .. n |-> i]

TypeOK ==
  /\ sequence \in {"running", "complete", "stalled", "failed", "closing", "gone"}
  /\ generated \in 0 .. MaxNew
  /\ dropped \in BOOLEAN
  /\ chan \in Seq(1 .. MaxNew) /\ Len(chan) <= ChannelCap
  /\ report \in {"none", "complete", "stalled", "failed"}
  /\ closed \in BOOLEAN
  /\ task \in {"done", "rx", "tx", "flush", "error", "ended"}
  /\ acc \in Seq(1 .. MaxNew)
  /\ Len(frames) <= Backlog + 2 /\ (task \in {"done", "rx", "tx"} => Len(frames) <= Backlog)
  /\ reasonSet \in BOOLEAN
  /\ failure \in {"none", "engine", "backlog", "closed_early"}
  /\ Len(body) <= BodyCap
  /\ connected \in BOOLEAN

Init ==
  /\ sequence = "running" /\ generated = 0 /\ dropped = FALSE
  /\ chan = <<>> /\ report = "none" /\ closed = FALSE
  /\ task = "done" /\ acc = <<>> /\ frames = <<>>
  /\ reasonSet = FALSE /\ failure = "none"
  /\ body = <<>> /\ received = <<>> /\ connected = TRUE

(***************************************************************************)
(* The engine thread: push_token, then report and close                    *)
(***************************************************************************)

(* try_send fails on a full channel, or when stream_tokens has returned.   *)
Generate(last) ==
  LET stalled == Len(chan) >= ChannelCap \/ task = "ended"
  IN  /\ sequence = "running"
      /\ generated < MaxNew
      /\ generated + 1 = MaxNew => last
      /\ generated' = generated + 1
      /\ dropped' = stalled
      /\ chan' = IF stalled THEN chan ELSE Append(chan, generated + 1)
      /\ sequence' = IF stalled THEN "stalled" ELSE IF last THEN "complete" ELSE "running"
      /\ UNCHANGED <<report, closed, clientVars, task, acc, frames, reasonSet, failure,
                     body>>

StepFails ==
  /\ sequence = "running"
  /\ sequence' = "failed"
  /\ UNCHANGED <<generated, dropped, report, closed, clientVars, chan, task, acc, frames,
                 reasonSet, failure, body>>

(* The completion is sent, and only then the stream sender is removed.     *)
Report ==
  /\ sequence \in {"complete", "stalled", "failed"}
  /\ report' = sequence
  /\ sequence' = "closing"
  /\ UNCHANGED <<generated, dropped, closed, clientVars, chan, task, acc, frames, reasonSet,
                 failure, body>>

Close ==
  /\ sequence = "closing"
  /\ closed' = TRUE
  /\ sequence' = "gone"
  /\ UNCHANGED <<generated, dropped, report, clientVars, chan, task, acc, frames, reasonSet,
                 failure, body>>

(***************************************************************************)
(* stream_tokens: the select! loop                                         *)
(***************************************************************************)

(* The completion, polled first until it has been seen.                    *)
PollDone ==
  /\ task = "done"
  /\ IF reasonSet \/ report = "none"
     THEN task' = "rx" /\ UNCHANGED <<reasonSet, failure>>
     ELSE IF report = "complete"
     THEN task' = "done" /\ reasonSet' = TRUE /\ UNCHANGED failure
     ELSE task' = "error" /\ failure' = "engine" /\ UNCHANGED reasonSet
  /\ UNCHANGED <<engineVars, clientVars, chan, acc, frames, body>>

(* Mutants of Decode: a frame over the backlog is dropped silently; there  *)
(* is no backlog limit.                                                    *)
DecodeDropping(text, n) ==
  /\ task' = "done"
  /\ acc' = SubSeq(text, n + 1, Len(text))
  /\ frames' = IF n > 0 /\ Len(frames) < Backlog
               THEN Append(frames, Text(SubSeq(text, 1, n))) ELSE frames
  /\ UNCHANGED failure

DecodeUnbounded(text, n) ==
  /\ task' = "done"
  /\ acc' = SubSeq(text, n + 1, Len(text))
  /\ frames' = IF n > 0 THEN Append(frames, Text(SubSeq(text, 1, n))) ELSE frames
  /\ UNCHANGED failure

(* emit_valid_prefix finds the first n tokens to be whole characters, and  *)
(* what it emits becomes a frame.                                          *)
Decode(text, n) ==
  /\ acc' = SubSeq(text, n + 1, Len(text))
  /\ IF n > 0 /\ Len(frames) >= Backlog
     THEN task' = "error" /\ failure' = "backlog" /\ UNCHANGED frames
     ELSE /\ task' = "done"
          /\ frames' = IF n > 0 THEN Append(frames, Text(SubSeq(text, 1, n))) ELSE frames
          /\ UNCHANGED failure

(* What a finished stream still has to send: the buffered frames, the      *)
(* UTF-8 tail and the finish chunk with [DONE].                            *)
Epilogue == frames \o (IF acc = <<>> THEN <<>> ELSE <<Text(acc)>>) \o <<FinishChunk>>

(* Mutant of ChannelClosed: a closed channel counts as a normal stop.      *)
ChannelClosedStops ==
  task' = "flush" /\ frames' = Epilogue /\ acc' = <<>> /\ UNCHANGED failure

(* rx.recv() returned None: the loop ends.                                 *)
ChannelClosed ==
  IF reasonSet
  THEN task' = "flush" /\ frames' = Epilogue /\ acc' = <<>> /\ UNCHANGED failure
  ELSE task' = "error" /\ failure' = "closed_early" /\ UNCHANGED <<acc, frames>>

PollRx ==
  /\ task = "rx"
  /\ IF chan # <<>>
     THEN /\ \E n \in 0 .. Len(acc) + 1 : Decode(Append(acc, Head(chan)), n)
          /\ chan' = Tail(chan)
     ELSE /\ IF closed THEN ChannelClosed
                       ELSE task' = "tx" /\ UNCHANGED <<acc, frames, failure>>
          /\ UNCHANGED chan
  /\ UNCHANGED <<engineVars, clientVars, reasonSet, body>>

(* tx.reserve(), polled last and only while a frame is waiting.            *)
PollTx ==
  /\ task = "tx"
  /\ IF frames # <<>> /\ ~connected
     THEN task' = "ended" /\ UNCHANGED <<frames, body>>
     ELSE /\ task' = "done"
          /\ IF frames # <<>> /\ Len(body) < BodyCap
             THEN body' = Append(body, Head(frames)) /\ frames' = Tail(frames)
             ELSE UNCHANGED <<frames, body>>
  /\ UNCHANGED <<engineVars, clientVars, chan, acc, reasonSet, failure>>

(***************************************************************************)
(* stream_tokens: the epilogue, under a deadline                           *)
(***************************************************************************)
Flush ==
  /\ task = "flush" /\ connected
  /\ Len(body) < BodyCap
  /\ body' = Append(body, Head(frames))
  /\ frames' = Tail(frames)
  /\ task' = IF frames' = <<>> THEN "ended" ELSE "flush"
  /\ UNCHANGED <<engineVars, clientVars, chan, acc, reasonSet, failure>>

SendError ==
  /\ task = "error" /\ connected
  /\ Len(body) < BodyCap
  /\ body' = Append(body, ErrorFrame)
  /\ task' = "ended"
  /\ UNCHANGED <<engineVars, clientVars, chan, acc, frames, reasonSet, failure>>

(* Mutant of GiveUp: the tail is flushed without a deadline.               *)
GiveUpOnDisconnect ==
  /\ task \in {"flush", "error"} /\ ~connected
  /\ task' = "ended"
  /\ UNCHANGED <<engineVars, clientVars, chan, acc, frames, reasonSet, failure, body>>

(* The client is gone, or STREAM_FLUSH_TIMEOUT (5 s for an error) expired. *)
GiveUp ==
  /\ task \in {"flush", "error"}
  /\ task' = "ended"
  /\ UNCHANGED <<engineVars, clientVars, chan, acc, frames, reasonSet, failure, body>>

(***************************************************************************)
(* The client                                                              *)
(***************************************************************************)
Read ==
  /\ connected /\ body # <<>>
  /\ received' = Append(received, Head(body))
  /\ body' = Tail(body)
  /\ UNCHANGED <<engineVars, connected, chan, task, acc, frames, reasonSet, failure>>

Hangup ==
  /\ connected
  /\ connected' = FALSE
  /\ UNCHANGED <<engineVars, received, chan, task, acc, frames, reasonSet, failure, body>>

(***************************************************************************)
(* Specification                                                           *)
(***************************************************************************)
Engine == (\E last \in BOOLEAN : Generate(last)) \/ StepFails \/ Report \/ Close

Task == PollDone \/ PollRx \/ PollTx \/ Flush \/ SendError \/ GiveUp

Next == Engine \/ Task \/ Read \/ Hangup

Spec == Init /\ [][Next]_vars

(* The engine thread goes on with the sequence and the runtime polls the   *)
(* task; nothing makes the client read.                                    *)
FairSpec == Spec /\ WF_vars(Engine) /\ WF_vars(Task)

(***************************************************************************)
(* Properties                                                              *)
(***************************************************************************)

(* While the stream is not being failed, every token that was not dropped  *)
(* is, once and in order, in one of the five places between the engine     *)
(* and the client.                                                         *)
NothingLost ==
  task \in {"done", "rx", "tx", "flush"} =>
    TextOf(received \o body \o frames) \o acc \o chan
      = Upto(IF dropped THEN generated - 1 ELSE generated)

(* A client that is sent a finish chunk is sent the whole response: "for   *)
(* the final token it would report a clean finish for an incomplete body". *)
FinishIsWhole ==
  LET sent == received \o body
  IN  \A i \in 1 .. Len(sent) : sent[i] = FinishChunk =>
        /\ report = "complete" /\ i = Len(sent)
        /\ TextOf(sent) = Upto(generated)

(* "A client that stops reading must not park this task forever": once the *)
(* engine is through with the sequence the task ends, and with it goes the *)
(* request.                                                                *)
TaskEnds == sequence # "running" ~> task = "ended"

(* "The token channel closed without the engine reporting completion: that *)
(* is an error": the client is told so only if the engine did not report.  *)
ClosedEarlyIsUnreported == failure = "closed_early" => report # "complete"
=============================================================================
