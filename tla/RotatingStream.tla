-------------------------- MODULE RotatingStream --------------------------
(***************************************************************************)
(* The two speech-to-text adapters that replace their own upstream under   *)
(* the session, because the vendor ends it after some minutes:             *)
(*   gemini  src/gateway/.../providers/gemini/adapter.py, which swaps      *)
(*           sockets in events() while send_audio() buffers;               *)
(*   google  src/gateway/.../providers/google/adapter.py, whose audio and  *)
(*           end marker go through a queue that each gRPC stream empties.  *)
(* Chunk i of the audio is the number i, a text the set of its chunks.     *)
(* What Gemini does under _send_lock is one step.  A definition named as a *)
(* mutant in PROJECT.json stands just before the one it would replace.     *)
(***************************************************************************)
EXTENDS Integers, Sequences

CONSTANTS
  Adapters,   \* the adapters to look at
  Chunks,     \* bound: chunks of audio in the session
  Rotations,  \* bound: upstreams after the first
  Cap         \* chunks Gemini's buffer holds: MAX_PENDING_SECONDS

ASSUME RotatingAssumption ==
  Adapters \subseteq {"gemini", "google"} /\ Chunks \in Nat /\ Rotations \in Nat /\ Cap \in Nat \ {0}

VARIABLES
  adapter,
  sent,      \* chunks handed to send_audio()
  pending,   \* Gemini's _pending, Google's _queue (0 is its _END)
  dropped,   \* chunks dropped from a full buffer
  up,        \* the upstreams so far, the newest last
  ws,        \* Gemini's _ws: which of them, 0 for None
  rotating,  \* _rotating
  reader,    \* events(): "recv" | "flush" | "dial" | "last" | "returned" | "raised"
  finished,  \* _finished
  feeder,    \* "feeding" | "finishing" | "grace" | "done" | "dead"
  held,      \* the socket finish() closes after its grace
  offset,    \* Google's rotation_offset, in chunks
  out,       \* finals yielded: [text, end]
  patient    \* no wait of the adapter has run out before the vendor answered

upVars == <<up, ws>>
feedVars == <<sent, pending, dropped, feeder, held>>
vars == <<adapter, sent, pending, dropped, up, ws, rotating, reader, finished, feeder, held,
          offset, out, patient>>

NoTime == -1
END == 0

(* an upstream: the chunks it heard, how many of them it settled, whether  *)
(* it was told the audio is over and has not answered, its messages, and   *)
(* whether it is "open", "shut" as agreed, or closed ("ok") or "lost"      *)
(* unasked                                                                 *)
Upstream == [heard |-> <<>>, settled |-> 0, eos |-> FALSE, down |-> <<>>, state |-> "open"]
Hears(u, chunks) == IF u.state = "open" THEN [u EXCEPT !.heard = @ \o chunks] ELSE u
Told(u) == IF u.state = "open" THEN [u EXCEPT !.eos = TRUE] ELSE u
Shut(u) == IF u.state = "open" THEN [u EXCEPT !.state = "shut", !.down = <<>>] ELSE u

Gemini == adapter = "gemini"
Google == adapter = "google"
Reading == Len(up)  \* the upstream events() reads, in every stage but "raised"
Down == up[Reading].down

Init ==
  /\ adapter \in Adapters /\ sent = 0 /\ pending = <<>> /\ dropped = {}
  /\ up = <<>> /\ ws = 0 /\ rotating = FALSE /\ reader = "none"
  /\ finished = FALSE /\ feeder = "feeding" /\ held = 0 /\ offset = 0 /\ out = <<>>
  /\ patient = TRUE

Feeding == feeder = "feeding" /\ reader # "none"
Over == reader \in {"returned", "raised"}
Alive == reader # "none" /\ ~Over /\ up[Reading].state = "open"
Cancelled == IF feeder = "done" THEN "done" ELSE "dead"

Connect ==
  /\ reader = "none" /\ reader' = "recv" /\ up' = <<Upstream>> /\ ws' = IF Gemini THEN 1 ELSE 0
  /\ UNCHANGED <<adapter, feedVars, rotating, finished, offset, out, patient>>

ConnectFails ==
  /\ reader = "none" /\ reader' = "raised" /\ feeder' = "dead"
  /\ UNCHANGED <<adapter, sent, pending, dropped, held, upVars, rotating, finished, offset, out,
                 patient>>

----------------------------------------------------------------------------
Unbounded(chunk) == pending' = Append(pending, chunk) /\ UNCHANGED dropped

(* Gemini: send_audio() goes to the buffer while a swap is going on        *)
Buffer(chunk) ==
  LET all == Append(pending, chunk)
      over == IF Len(all) > Cap THEN Len(all) - Cap ELSE 0
  IN /\ pending' = SubSeq(all, over + 1, Len(all))
     /\ dropped' = dropped \cup {all[i] : i \in 1 .. over}

SendAudio ==
  /\ Gemini /\ Feeding /\ sent < Chunks
  /\ sent' = sent + 1
  /\ IF ws = 0 \/ rotating THEN Buffer(sent + 1) /\ UNCHANGED up
     ELSE /\ up[ws].state = "open"
          /\ up' = [up EXCEPT ![ws] = Hears(@, <<sent + 1>>)]
          /\ UNCHANGED <<pending, dropped>>
  /\ UNCHANGED <<adapter, ws, rotating, reader, finished, feeder, held, offset, out, patient>>

(* the socket has closed, and events() does not know yet *)
SendFails ==
  /\ Gemini /\ Feeding /\ sent < Chunks /\ ws # 0 /\ ~rotating
  /\ up[ws].state # "open"
  /\ feeder' = "dead" /\ reader' = "raised"
  /\ UNCHANGED <<adapter, sent, pending, dropped, upVars, rotating, finished, held, offset, out,
                 patient>>

(* finish() sets _finished, then needs the lock to flush the buffer and to *)
(* tell the socket; it keeps that socket, and closes it after a grace.     *)
Finish ==
  /\ Feeding /\ finished' = TRUE
  /\ IF Google THEN pending' = Append(pending, END) /\ feeder' = "done"
     ELSE UNCHANGED pending /\ feeder' = "finishing"
  /\ UNCHANGED <<adapter, sent, dropped, upVars, rotating, reader, held, offset, out, patient>>

FinishSends ==
  /\ Gemini /\ feeder = "finishing"
  /\ IF ws = 0 THEN feeder' = "done" /\ UNCHANGED <<up, pending, held>>
     ELSE /\ up' = [up EXCEPT ![ws] = Told(Hears(@, pending))]
          /\ pending' = <<>> /\ held' = ws /\ feeder' = "grace"
  /\ UNCHANGED <<adapter, sent, dropped, ws, rotating, reader, finished, offset, out, patient>>

GraceEnds ==
  /\ feeder = "grace" /\ feeder' = "done"
  /\ up' = [up EXCEPT ![held] = Shut(@)]
  /\ patient' = (patient /\ up[held].state # "open")
  /\ UNCHANGED <<adapter, sent, pending, dropped, ws, rotating, reader, finished, held, offset, out>>

----------------------------------------------------------------------------
(* Gemini's events(): one message.  A turn's end ends the stream once      *)
(* finished; an error frame fails it.                                      *)
Receive ==
  /\ Gemini /\ reader = "recv" /\ Down # <<>>
  /\ LET m == Head(Down) IN
     /\ out' = IF m.kind = "final" THEN Append(out, [text |-> m.text, end |-> m.end]) ELSE out
     /\ reader' = CASE m.kind = "turn_end" /\ finished -> "returned"
                    [] m.kind = "error" -> "raised" [] OTHER -> "recv"
     /\ feeder' = IF m.kind = "error" THEN Cancelled ELSE feeder
  /\ up' = [up EXCEPT ![Reading].down = Tail(@)]
  /\ UNCHANGED <<adapter, sent, pending, dropped, ws, rotating, finished, held, offset, patient>>

(* ROTATE_SECONDS are over, goAway came or the socket closed: _rotate()    *)
(* holds new audio back, and _flush() tells the old socket                 *)
SwapAtOnce ==
  IF finished THEN reader' = "returned" /\ UNCHANGED <<up, rotating>>
  ELSE reader' = "dial" /\ rotating' = TRUE /\ up' = [up EXCEPT ![Reading] = Told(@)]

RotateOrReturn ==
  IF finished THEN reader' = "returned" /\ UNCHANGED <<up, rotating>>
  ELSE reader' = "flush" /\ rotating' = TRUE /\ up' = [up EXCEPT ![Reading] = Told(@)]

Rotate ==
  /\ Gemini /\ reader = "recv" /\ Reading <= Rotations /\ RotateOrReturn
  /\ patient' = (patient /\ ~finished)
  /\ UNCHANGED <<adapter, feedVars, ws, finished, offset, out>>

Closed == Down = <<>> /\ up[Reading].state # "open"

ClosedReturns ==
  /\ Gemini /\ reader = "recv" /\ Closed
  /\ reader' = IF up[Reading].state # "lost" \/ finished THEN "returned" ELSE "raised"
  /\ UNCHANGED <<adapter, feedVars, upVars, rotating, finished, offset, out, patient>>

ReadsClose ==
  /\ Gemini /\ reader = "recv" /\ Closed
  /\ IF up[Reading].state = "lost" /\ ~finished
     THEN reader' = "raised" /\ feeder' = Cancelled /\ UNCHANGED <<up, rotating>>
     ELSE (finished \/ Reading <= Rotations) /\ RotateOrReturn /\ UNCHANGED feeder
  /\ UNCHANGED <<adapter, sent, pending, dropped, ws, finished, held, offset, out, patient>>

(* _flush() reads the old socket until a turn ends, it says an error, it   *)
(* closes, or ROTATE_FLUSH_SECONDS pass; then the old socket is closed.    *)
(* After the swap the same is done to the new one if finish() came.        *)
FlushReads ==
  /\ reader \in {"flush", "last"} /\ Down # <<>>
  /\ LET m == Head(Down)
         after == [up EXCEPT ![Reading].down = Tail(@)]
     IN /\ out' = IF m.kind = "final" THEN Append(out, [text |-> m.text, end |-> m.end]) ELSE out
        /\ IF m.kind = "final" THEN up' = after /\ UNCHANGED reader
           ELSE /\ up' = [after EXCEPT ![Reading] = Shut(@)]
                /\ reader' = IF reader = "flush" THEN "dial" ELSE "recv"
  /\ UNCHANGED <<adapter, feedVars, ws, rotating, finished, offset, patient>>

FlushEnds ==
  /\ reader \in {"flush", "last"} /\ (Closed \/ up[Reading].state = "open")
  /\ up' = [up EXCEPT ![Reading] = Shut(@)]
  /\ reader' = IF reader = "flush" THEN "dial" ELSE "recv"
  /\ patient' = (patient /\ up[Reading].state # "open")
  /\ UNCHANGED <<adapter, feedVars, ws, rotating, finished, offset, out>>

(* _dial() gives a socket that is ready; under the lock it becomes _ws and *)
(* gets what was buffered.                                                 *)
SwapKeepsBuffer ==
  /\ reader = "dial" /\ rotating' = FALSE /\ ws' = Len(up) + 1
  /\ up' = Append(up, Hears(Upstream, pending)) /\ UNCHANGED pending
  /\ reader' = IF finished THEN "last" ELSE "recv"
  /\ UNCHANGED <<adapter, sent, dropped, feeder, held, finished, offset, out, patient>>

SwapClearsFirst ==
  /\ reader = "dial" /\ rotating' = FALSE /\ ws' = Len(up) + 1 /\ pending' = <<>>
  /\ LET new == Hears(Upstream, pending')
     IN up' = Append(up, IF finished THEN Told(new) ELSE new)
  /\ reader' = IF finished THEN "last" ELSE "recv"
  /\ UNCHANGED <<adapter, sent, dropped, feeder, held, finished, offset, out, patient>>

SwapForgetsFinish ==
  /\ reader = "dial" /\ rotating' = FALSE /\ ws' = Len(up) + 1
  /\ up' = Append(up, Hears(Upstream, pending)) /\ pending' = <<>> /\ reader' = "recv"
  /\ UNCHANGED <<adapter, sent, dropped, feeder, held, finished, offset, out, patient>>

Swap ==
  /\ reader = "dial" /\ rotating' = FALSE /\ ws' = Len(up) + 1
  /\ LET new == Hears(Upstream, pending)
     IN up' = Append(up, IF finished THEN Told(new) ELSE new)
  /\ pending' = <<>>
  /\ reader' = IF finished THEN "last" ELSE "recv"
  /\ UNCHANGED <<adapter, sent, dropped, feeder, held, finished, offset, out, patient>>

DialFails ==
  /\ reader = "dial" /\ rotating' = FALSE /\ ws' = 0 /\ reader' = "raised" /\ feeder' = Cancelled
  /\ UNCHANGED <<adapter, sent, pending, dropped, up, held, finished, offset, out, patient>>

GeminiNext ==
  \/ SendAudio \/ SendFails \/ FinishSends \/ GraceEnds
  \/ Receive \/ Rotate \/ ReadsClose \/ FlushReads \/ FlushEnds \/ Swap \/ DialFails

----------------------------------------------------------------------------
(* Google: send_audio() only queues                                        *)
Enqueue ==
  /\ Google /\ Feeding /\ sent < Chunks
  /\ sent' = sent + 1 /\ pending' = Append(pending, sent + 1)
  /\ UNCHANGED <<adapter, dropped, upVars, rotating, reader, finished, feeder, held, offset, out,
                 patient>>

(* request_iter(): the stream takes the next item, or closes its sending   *)
(* side when it takes the marker or after ROTATE_SECONDS                   *)
Requests ==
  /\ Google /\ Alive /\ ~up[Reading].eos /\ pending # <<>>
  /\ pending' = Tail(pending)
  /\ up' = [up EXCEPT ![Reading] = IF Head(pending) = END THEN Told(@)
                                   ELSE Hears(@, <<Head(pending)>>)]
  /\ finished' = (finished \/ Head(pending) = END)
  /\ UNCHANGED <<adapter, sent, dropped, ws, rotating, reader, feeder, held, offset, out, patient>>

RequestsExpire ==
  /\ Google /\ Alive /\ ~up[Reading].eos /\ Reading <= Rotations
  /\ up' = [up EXCEPT ![Reading] = Told(@)]
  /\ UNCHANGED <<adapter, feedVars, ws, rotating, reader, finished, offset, out, patient>>

(* events(): a response's times are shifted by the streams before this one *)
Respond ==
  /\ Google /\ reader = "recv" /\ Down # <<>>
  /\ LET m == Head(Down) IN
     /\ out' = IF m.kind = "final" THEN Append(out, [text |-> m.text, end |-> offset + m.end])
               ELSE out
     /\ reader' = IF m.kind = "error" THEN "raised" ELSE reader
     /\ feeder' = IF m.kind = "error" THEN Cancelled ELSE feeder
  /\ up' = [up EXCEPT ![Reading].down = Tail(@)]
  /\ UNCHANGED <<adapter, sent, pending, dropped, ws, rotating, finished, held, offset, patient>>

OffsetOfLast(heard) == Len(heard)
OffsetAfter(heard) == offset + Len(heard)

StreamEnds ==
  /\ Google /\ reader = "recv" /\ Closed
  /\ IF up[Reading].state = "lost"
     THEN reader' = "raised" /\ feeder' = Cancelled /\ UNCHANGED <<up, offset>>
     ELSE IF finished THEN reader' = "returned" /\ UNCHANGED <<up, offset, feeder>>
     ELSE /\ offset' = OffsetAfter(up[Reading].heard)
          /\ up' = Append(up, Upstream) /\ UNCHANGED <<reader, feeder>>
  /\ UNCHANGED <<adapter, sent, pending, dropped, ws, rotating, finished, held, out, patient>>

GoogleNext == Enqueue \/ Requests \/ RequestsExpire \/ Respond \/ StreamEnds

----------------------------------------------------------------------------
(* The vendor.  Gemini makes nothing final before it is told the audio is  *)
(* over; then it settles all it heard and ends the turn.  Google settles   *)
(* at any time, and once the sending side is closed settles the rest and   *)
(* ends the stream.                                                        *)
Final(u, to) ==
  [kind |-> "final", text |-> {u.heard[i] : i \in u.settled + 1 .. to},
   end |-> IF Gemini THEN NoTime ELSE to]
Signal(kind) == [kind |-> kind, text |-> {}, end |-> NoTime]
Answer(u) ==
  (IF u.settled = Len(u.heard) THEN <<>> ELSE <<Final(u, Len(u.heard))>>)
    \o (IF Gemini THEN <<Signal("turn_end")>> ELSE <<>>)

Settles ==
  /\ Google /\ Alive
  /\ \E to \in up[Reading].settled + 1 .. Len(up[Reading].heard) :
       up' = [up EXCEPT ![Reading].down = Append(@, Final(up[Reading], to)),
                        ![Reading].settled = to]
  /\ UNCHANGED <<adapter, feedVars, ws, rotating, reader, finished, offset, out, patient>>

Answers ==
  /\ Alive /\ up[Reading].eos
  /\ up' = [up EXCEPT ![Reading].down = @ \o Answer(up[Reading]),
                      ![Reading].settled = Len(up[Reading].heard),
                      ![Reading].eos = FALSE,
                      ![Reading].state = IF Google THEN "shut" ELSE @]
  /\ UNCHANGED <<adapter, feedVars, ws, rotating, reader, finished, offset, out, patient>>

(* Gemini's ten minutes may also end in a clean close *)
Breaks ==
  /\ Alive /\ \E how \in {"lost"} \cup {s \in {"ok"} : Gemini} : up' = [up EXCEPT ![Reading].state = how]
  /\ UNCHANGED <<adapter, feedVars, ws, rotating, reader, finished, offset, out, patient>>

SaysError ==
  /\ Alive /\ up' = [up EXCEPT ![Reading].down = Append(@, Signal("error")), ![Reading].state = "lost"]
  /\ UNCHANGED <<adapter, feedVars, ws, rotating, reader, finished, offset, out, patient>>

VendorNext == Settles \/ Answers \/ Breaks \/ SaysError

Next == Connect \/ ConnectFails \/ GeminiNext \/ GoogleNext \/ Finish \/ VendorNext

(* the event loop runs every task that can, timers included; a vendor told *)
(* the audio is over answers                                               *)
Fairness ==
  /\ WF_vars(Receive) /\ WF_vars(ReadsClose) /\ WF_vars(FlushReads) /\ WF_vars(FlushEnds)
  /\ WF_vars(Swap \/ DialFails) /\ WF_vars(FinishSends) /\ WF_vars(GraceEnds)
  /\ WF_vars(Requests) /\ WF_vars(Respond) /\ WF_vars(StreamEnds) /\ WF_vars(Google /\ Answers)

Spec == Init /\ [][Next]_vars
FairSpec == Spec /\ Fairness

----------------------------------------------------------------------------
Range(s) == {s[i] : i \in DOMAIN s}
Heard == UNION {Range(up[i].heard) : i \in DOMAIN up}
Settled == UNION {e.text : e \in Range(out)}

TypeOK ==
  /\ adapter \in Adapters /\ sent \in 0 .. Chunks
  /\ Range(pending) \subseteq 0 .. sent /\ dropped \subseteq 1 .. sent
  /\ Gemini => Len(pending) <= Cap
  /\ Len(up) \in 0 .. Rotations + 1 /\ ws \in 0 .. Len(up) /\ held \in 0 .. Len(up)
  /\ reader \in {"none", "recv", "flush", "dial", "last", "returned", "raised"}
  /\ feeder \in {"feeding", "finishing", "grace", "done", "dead"}
  /\ {rotating, finished, patient} \subseteq BOOLEAN /\ offset \in 0 .. Chunks

(* Whatever the swaps and the buffering, the vendor hears the chunks in     *)
(* order, each in one upstream only.                                        *)
HeardInOrder ==
  \A i, j \in DOMAIN up :
    \A a \in DOMAIN up[i].heard, b \in DOMAIN up[j].heard :
      i < j \/ (i = j /\ a < b) => up[i].heard[a] < up[j].heard[b]

(* Until finish(), no chunk is lost in a swap: each was heard by an         *)
(* upstream, waits, or was dropped from a full buffer.                      *)
NothingLostInSwap == ~finished => 1 .. sent = Heard \cup Range(pending) \cup dropped

(* No rotation costs words: before the next upstream is opened the one      *)
(* before it, unless it broke or ran out of time, said all it heard.        *)
RotationKeepsTheTail ==
  patient => \A i \in 1 .. Len(up) - 1 :
    up[i].state \in {"open", "shut"} /\ ~finished => Range(up[i].heard) \subseteq Settled

(* A final's time is that of its last chunk in the whole session, however   *)
(* many streams came before.                                                *)
TimesAreOfTheAudio ==
  \A e \in Range(out) : e.end # NoTime => e.end \in e.text /\ \A c \in e.text : c <= e.end

(* The words reach the session in the order they were spoken, each once,    *)
(* whichever upstream they come from and however late it answers.           *)
WordsInOrder ==
  \A i, j \in DOMAIN out : i < j => \A c \in out[i].text, d \in out[j].text : c < d

(* The session does not notice a rotation: not a chunk lost, doubled or out *)
(* of order, no word forgotten or repeated, no time of another stream.      *)
RotationIsSeamless ==
  /\ TypeOK /\ HeardInOrder /\ NothingLostInSwap /\ RotationKeepsTheTail
  /\ TimesAreOfTheAudio /\ WordsInOrder

(* The contract of base.py, whatever the rotations: after finish() too the  *)
(* stream ends.                                                             *)
Stage ==
  IF reader = "returned" THEN "exhausted" ELSE IF Over THEN "failed"
  ELSE IF reader = "none" THEN "new"
  ELSE IF finished THEN "finished" ELSE "ready"
Contract == INSTANCE StreamContract WITH stage <- Stage, fed <- sent, said <- Settled
KeepsContract == Contract!ContractSpec /\ Contract!FinishedEnds

(* The comments of _rotate(): what finish() finds in the middle of a swap   *)
(* still arrives.  A stream that ends normally, nothing having broken or    *)
(* timed out, has said every word it was fed.                               *)
LastWordsAreSaid ==
  reader = "returned" /\ patient /\ dropped = {}
    /\ (\A i \in DOMAIN up : up[i].state \in {"open", "shut"})
  => Settled = 1 .. sent
============================================================================
