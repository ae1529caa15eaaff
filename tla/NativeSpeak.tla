---------------------------- MODULE NativeSpeak ----------------------------
(***************************************************************************)
(* tts/native_session.py: one /v1/speak session over a vendor's own socket *)
(* for incremental text, with the two sockets there are: XaiStream of      *)
(* providers/xai/tts.py and FluxStream of providers/deepgram/tts.py.       *)
(*                                                                         *)
(* The text.delta messages are 1, 2, ...; the vendor makes one chunk of    *)
(* audio of each, which carries its number.  Resampling, durations, prices *)
(* and credits are left out.  A definition named as a mutant in            *)
(* PROJECT.json stands just before the one it would replace.               *)
(***************************************************************************)
EXTENDS Integers, Sequences

CONSTANTS
  Streams,    \* the sockets to look at
  Timeouts,   \* whether CLEAR_ACK_TIMEOUT may pass
  MaxTexts, MaxClears   \* bounds: messages of the client

ASSUME NativeAssumption ==
  /\ Streams \subseteq {"xai", "flux"} /\ Timeouts \in BOOLEAN
  /\ {MaxTexts, MaxClears} \subseteq Nat

VARIABLES
  stream,     \* which socket it is
  run,        \* "opening" | "running" | "done" (which is being sent) | "over"
  status,     \* _status, "none" before it is known
  usage,      \* usage events emitted: the status and the characters of each
  reader,     \* _read_client(): "recv" | "clearing" | "acked" | "returned" | "failed"
  pump,       \* _pump(): "recv" | "sending" | "ended" | "failed" | "left"
  watchdog,   \* "on" | "tripped"
  clearing,   \* _clearing
  finalized,  \* _finalized
  seq, sent,  \* _seq, _last_sent_seq
  dropping,   \* the stream's _dropping
  cleared,    \* its event _cleared or _interrupted is set
  finishing,  \* its _done or _finishing
  offset,     \* Flux's _last_offset
  texts,      \* text.delta messages taken
  clears,     \* history: for each clear taken, [texts, alone, at]: the texts before
              \* it, whether the vendor had answered all earlier ones, its offset
  socket,     \* "open" | "ok" | "lost"
  upward,     \* what the vendor has not read yet
  downward,   \* what audio() has not read yet
  todo,       \* texts the vendor has not voiced, 0 for their end
  out         \* history: the frames the client has got

taskVars == <<run, status, usage, reader, pump, watchdog>>
sessionVars == <<clearing, finalized, seq, sent>>
streamVars == <<dropping, cleared, finishing, offset>>
clientVars == <<texts, clears>>
vendorVars == <<socket, upward, downward, todo>>
vars == <<stream, taskVars, sessionVars, streamVars, clientVars, vendorVars, out>>

End == 0
Header(n, t) == [kind |-> "audio.chunk", seq |-> n, text |-> t]
Audio(t) == [kind |-> "audio", text |-> t]
Cleared(last) == [kind |-> "cleared", last_seq |-> last, clear |-> Len(clears)]
Frame(kind) == [kind |-> kind]
Signal(kind) == [kind |-> kind, n |-> 0]

Live == run \in {"running", "done"}
Alone == upward = <<>> /\ \A i \in DOMAIN downward : downward[i].kind # "cleared"

Init ==
  /\ stream \in Streams /\ run = "opening" /\ status = "none" /\ usage = <<>>
  /\ reader = "recv" /\ pump = "recv" /\ watchdog = "on"
  /\ clearing = FALSE /\ finalized = FALSE /\ seq = 0 /\ sent = 0
  /\ dropping = FALSE /\ cleared = FALSE /\ finishing = FALSE /\ offset = -1
  /\ texts = 0 /\ clears = <<>>
  /\ socket = "open" /\ upward = <<>> /\ downward = <<>> /\ todo = <<>> /\ out = <<>>

----------------------------------------------------------------------------
(* run(): every way it ends goes through the finally that emits the usage  *)
Open ==
  /\ run = "opening" /\ run' = "running" /\ out' = <<Frame("session.open")>>
  /\ UNCHANGED <<stream, status, usage, reader, pump, watchdog, sessionVars, streamVars,
                 clientVars, vendorVars>>

EndsUnrecorded(how) == run' = "over" /\ status' = how /\ UNCHANGED usage
Ends(how) ==
  /\ run' = "over" /\ status' = how
  /\ usage' = Append(usage, [status |-> how, characters |-> texts])

OpenFails ==
  /\ run = "opening" /\ Ends("provider_error") /\ out' = <<Frame("error")>> /\ socket' = "lost"
  /\ UNCHANGED <<stream, reader, pump, watchdog, sessionVars, streamVars, clientVars,
                 upward, downward, todo>>

ByeStatus == IF finalized THEN "completed" ELSE "client_disconnect"

(* the pump decides when it has finished; otherwise any finished task does *)
DecideByPump ==
  /\ run = "running" /\ pump \in {"ended", "failed", "left"}
  /\ CASE pump = "ended" -> run' = "done" /\ status' = "completed" /\ out' = Append(out, Frame("done"))
                            /\ UNCHANGED usage
       [] pump = "failed" -> Ends("provider_error") /\ out' = Append(out, Frame("error"))
       [] pump = "left" -> Ends(ByeStatus) /\ UNCHANGED out
  /\ UNCHANGED <<stream, reader, pump, watchdog, sessionVars, streamVars, clientVars, vendorVars>>

DecideByOther ==
  /\ run = "running" /\ pump \notin {"ended", "failed", "left"}
  /\ \/ reader = "returned" /\ Ends(ByeStatus) /\ UNCHANGED out
     \/ reader = "failed" /\ Ends("provider_error") /\ out' = Append(out, Frame("error"))
     \/ watchdog = "tripped" /\ Ends("limit") /\ out' = Append(out, Frame("error"))
  /\ UNCHANGED <<stream, reader, pump, watchdog, sessionVars, streamVars, clientVars, vendorVars>>

Finish ==
  /\ run = "done" /\ Ends(status)
  /\ UNCHANGED <<stream, reader, pump, watchdog, sessionVars, streamVars, clientVars, vendorVars,
                 out>>

Trip ==
  /\ Live /\ watchdog = "on" /\ watchdog' = "tripped"
  /\ UNCHANGED <<stream, run, status, usage, reader, pump, sessionVars, streamVars, clientVars,
                 vendorVars, out>>

----------------------------------------------------------------------------
(* _read_client(), and what it calls of the stream.  A send on a socket    *)
(* that is closed raises.                                                  *)
Taking == Live /\ reader = "recv"
Sends(message) == socket = "open" /\ upward' = Append(upward, message)

ReadText ==
  /\ Taking /\ ~finalized /\ texts < MaxTexts /\ texts' = texts + 1
  /\ \/ Sends([kind |-> "text", n |-> texts + 1]) /\ UNCHANGED reader
     \/ socket # "open" /\ reader' = "failed" /\ UNCHANGED upward
  /\ UNCHANGED <<stream, run, status, usage, pump, watchdog, sessionVars, streamVars, clears,
                 socket, downward, todo, out>>

(* Flux notes that it is finishing before it sends, xAI only once it has,   *)
(* which differs when the send fails                                       *)
ReadFinalize ==
  /\ Taking /\ ~finalized /\ finalized' = TRUE
  /\ \/ Sends(Signal("done")) /\ finishing' = TRUE /\ UNCHANGED reader
     \/ /\ socket # "open" /\ reader' = "failed" /\ finishing' = (stream = "flux")
        /\ UNCHANGED upward
  /\ UNCHANGED <<stream, run, status, usage, pump, watchdog, clearing, seq, sent, dropping, cleared,
                 offset, clientVars, socket, downward, todo, out>>

(* Flux wants an offset beyond the last: where the client says it is, or   *)
(* how much it was sent, if that is more                                   *)
OffsetRepeats(asked) == IF asked > offset THEN asked ELSE offset
NextOffset(asked) == IF asked > offset THEN asked ELSE offset + 1

(* _clear(): the session drops audio, and so does the stream until the     *)
(* vendor has answered                                                     *)
ReadClear ==
  /\ Taking /\ Len(clears) < MaxClears
  /\ dropping' = TRUE /\ cleared' = FALSE
  /\ \E asked \in IF stream = "flux" THEN {0, sent} ELSE {0} :
       LET at == NextOffset(asked)
       IN /\ clears' = Append(clears, [texts |-> texts, alone |-> Alone, at |-> at])
          /\ offset' = IF stream = "flux" THEN at ELSE offset
          /\ \/ Sends([kind |-> "clear", n |-> at]) /\ clearing' = TRUE /\ reader' = "clearing"
             \/ socket # "open" /\ reader' = "failed" /\ UNCHANGED <<upward, clearing>>
  /\ UNCHANGED <<stream, run, status, usage, pump, watchdog, finalized, seq, sent, finishing, texts,
                 socket, downward, todo, out>>

ClearAnswered ==
  /\ Live /\ reader = "clearing" /\ (cleared \/ Timeouts)
  /\ reader' = "acked" /\ clearing' = FALSE
  /\ UNCHANGED <<stream, run, status, usage, pump, watchdog, finalized, seq, sent, streamVars,
                 clientVars, vendorVars, out>>

(* `cleared` waits for the lock a pair is sent under                       *)
LockIgnored == TRUE
LockFree == pump # "sending"

SayCleared ==
  /\ Live /\ reader = "acked" /\ LockFree
  /\ IF pump = "left" THEN reader' = "returned" /\ UNCHANGED out
     ELSE reader' = "recv" /\ out' = Append(out, Cleared(sent))
  /\ UNCHANGED <<stream, run, status, usage, pump, watchdog, sessionVars, streamVars, clientVars,
                 vendorVars>>

(* recv() gives None: the client is gone                                   *)
ReadDisconnect ==
  /\ Taking /\ reader' = "returned"
  /\ UNCHANGED <<stream, run, status, usage, pump, watchdog, sessionVars, streamVars, clientVars,
                 vendorVars, out>>

----------------------------------------------------------------------------
(* _pump() and audio(): the stream drops what comes before the answer to a *)
(* clear, the session what comes while it waits for one                    *)
Pumping == Live /\ pump = "recv" /\ downward # <<>>

NeverDrops == FALSE
Drops == dropping \/ clearing

PumpAudio ==
  /\ Pumping /\ Head(downward).kind = "audio" /\ downward' = Tail(downward)
  /\ IF Drops THEN UNCHANGED <<pump, seq, out>>
     ELSE /\ pump' = "sending" /\ seq' = seq + 1
          /\ out' = Append(out, Header(seq + 1, Head(downward).n))
  /\ UNCHANGED <<stream, run, status, usage, reader, watchdog, clearing, finalized, sent,
                 streamVars, clientVars, socket, upward, todo>>

(* the audio follows its header under the lock, whatever becomes of the     *)
(* session: the pair is shielded                                           *)
PumpSent ==
  /\ pump = "sending" /\ pump' = "recv" /\ sent' = seq
  /\ LET i == CHOOSE j \in DOMAIN out : out[j].kind = "audio.chunk" /\ out[j].seq = seq
     IN out' = Append(out, Audio(out[i].text))
  /\ UNCHANGED <<stream, run, status, usage, reader, watchdog, clearing, finalized, seq, streamVars,
                 clientVars, vendorVars>>

(* a send to a client that is gone raises SpeakClosed                      *)
PumpLeft ==
  /\ Live /\ pump = "sending" /\ pump' = "left"
  /\ UNCHANGED <<stream, run, status, usage, reader, watchdog, sessionVars, streamVars, clientVars,
                 vendorVars, out>>

StillDrops == UNCHANGED dropping /\ cleared' = TRUE
UnheardAnswer == dropping' = FALSE /\ UNCHANGED cleared
Answered == dropping' = FALSE /\ cleared' = TRUE

PumpAck ==
  /\ Pumping /\ Head(downward).kind = "cleared" /\ downward' = Tail(downward)
  /\ Answered
  /\ UNCHANGED <<stream, taskVars, sessionVars, finishing, offset, clientVars, socket, upward, todo,
                 out>>

(* however audio() ends, nobody is left waiting for an answer              *)
EndsMute(how) == pump' = how /\ UNCHANGED cleared
AudioEnds(how) == pump' = how /\ cleared' = TRUE

(* it is the end of the last utterance only once finish() was noted         *)
AnyButTheLast == FALSE
LastUtterance == finishing

PumpDone ==
  /\ Pumping /\ Head(downward).kind = "done" /\ downward' = Tail(downward)
  /\ IF LastUtterance THEN AudioEnds("ended") ELSE UNCHANGED <<pump, cleared>>
  /\ UNCHANGED <<stream, run, status, usage, reader, watchdog, sessionVars, dropping, finishing,
                 offset, clientVars, socket, upward, todo, out>>

PumpError ==
  /\ Pumping /\ Head(downward).kind = "error" /\ downward' = Tail(downward)
  /\ AudioEnds("failed")
  /\ UNCHANGED <<stream, run, status, usage, reader, watchdog, sessionVars, dropping, finishing,
                 offset, clientVars, socket, upward, todo, out>>

PumpClosed ==
  /\ Live /\ pump = "recv" /\ downward = <<>> /\ socket # "open"
  /\ AudioEnds(IF socket = "ok" \/ finishing THEN "ended" ELSE "failed")
  /\ UNCHANGED <<stream, run, status, usage, reader, watchdog, sessionVars, dropping, finishing,
                 offset, clientVars, vendorVars, out>>

----------------------------------------------------------------------------
(* The vendor reads in order, voices in order, and answers a clear when it *)
(* reads it, having thrown away what it had not voiced.  Flux refuses an   *)
(* offset that is not beyond the last.                                     *)
VendorReads ==
  /\ Live /\ socket = "open" /\ upward # <<>> /\ upward' = Tail(upward)
  /\ LET m == Head(upward) IN
     CASE m.kind = "text" -> todo' = Append(todo, m.n) /\ UNCHANGED downward
       [] m.kind = "done" -> todo' = Append(todo, End) /\ UNCHANGED downward
       [] m.kind = "clear" ->
            /\ todo' = IF \E i \in DOMAIN todo : todo[i] = End THEN <<End>> ELSE <<>>
            /\ downward' = Append(downward, [kind |-> "cleared", n |-> m.n])
  /\ UNCHANGED <<stream, taskVars, sessionVars, streamVars, clientVars, socket, out>>

VendorVoices ==
  /\ Live /\ socket = "open" /\ todo # <<>> /\ todo' = Tail(todo)
  /\ downward' = Append(downward, IF Head(todo) = End THEN Signal("done")
                                  ELSE [kind |-> "audio", n |-> Head(todo)])
  /\ UNCHANGED <<stream, taskVars, sessionVars, streamVars, clientVars, socket, upward, out>>

(* it breaks, or closes normally though nobody said it should              *)
VendorBreaks ==
  /\ Live /\ socket = "open"
  /\ \/ socket' \in {"ok", "lost"} /\ UNCHANGED downward
     \/ socket' = "lost" /\ downward' = Append(downward, Signal("error"))
  /\ UNCHANGED <<stream, taskVars, sessionVars, streamVars, clientVars, upward, todo, out>>

Reader == ReadText \/ ReadFinalize \/ ReadClear \/ ReadDisconnect
ReaderGoesOn == ClearAnswered \/ SayCleared
Pump == PumpAudio \/ PumpSent \/ PumpAck \/ PumpDone \/ PumpError \/ PumpClosed
Run == DecideByPump \/ DecideByOther \/ Finish
Vendor == VendorReads \/ VendorVoices

Next ==
  \/ Open \/ OpenFails \/ Run \/ Trip \/ Reader \/ ReaderGoesOn \/ Pump \/ PumpLeft
  \/ Vendor \/ VendorBreaks

Spec == Init /\ [][Next]_vars
FairSpec ==
  /\ Spec /\ WF_vars(Run) /\ WF_vars(cleared /\ ClearAnswered) /\ WF_vars(SayCleared)
  /\ WF_vars(Pump) /\ WF_vars(VendorReads) /\ WF_vars(VendorVoices)

----------------------------------------------------------------------------
Frames(kind) == {i \in DOMAIN out : out[i].kind = kind}

TypeOK ==
  /\ stream \in Streams /\ run \in {"opening", "running", "done", "over"}
  /\ reader \in {"recv", "clearing", "acked", "returned", "failed"}
  /\ pump \in {"recv", "sending", "ended", "failed", "left"}
  /\ {clearing, finalized, dropping, cleared, finishing} \subseteq BOOLEAN
  /\ sent \in 0 .. seq /\ seq \in 0 .. MaxTexts /\ texts \in 0 .. MaxTexts
  /\ Len(usage) = IF run = "over" THEN 1 ELSE 0

(* `cleared` names the last chunk the client got before it: whatever pair   *)
(* was being sent when the vendor answered is counted.                      *)
ClearedCountsEveryPair ==
  \A i \in Frames("cleared") :
    \A j \in Frames("audio.chunk") : j < i <=> out[j].seq <= out[i].last_seq

(* Nothing comes between a header and its audio, but the error of a session *)
(* that has just ended: the error is not sent under the lock.               *)
PairsStayTogether ==
  \A i \in Frames("audio.chunk") : i < Len(out) => out[i + 1].kind \in {"audio", "error"}

(* TTSStream.clear(): what was said before a clear is not heard after its   *)
(* `cleared` -- when the vendor had answered the clears before it.          *)
ClearedIsABarrier ==
  \A i \in Frames("cleared"), j \in Frames("audio.chunk") :
    clears[out[i].clear].alone /\ i < j => out[j].text > clears[out[i].clear].texts

(* `done` means that all the text was voiced, but for what the client       *)
(* cleared, unless the vendor hung up before it was told to.                *)
LastCleared == IF clears = <<>> THEN 0 ELSE clears[Len(clears)].texts
Voiced == {out[i].text : i \in Frames("audio")}
DoneMeansAllVoiced ==
  Frames("done") # {} /\ socket = "open" => LastCleared + 1 .. texts \subseteq Voiced

(* Flux: each interrupt is beyond the one before, wherever the client says  *)
(* it is, and also after an answer that came too late.                      *)
OffsetsAdvance ==
  stream = "flux" =>
    \A i, j \in DOMAIN clears : i < j => clears[i].at < clears[j].at

(* A barge-in is clean, and nothing but it costs the client audio.          *)
BargeInIsClean ==
  TypeOK /\ ClearedCountsEveryPair /\ PairsStayTogether /\ ClearedIsABarrier /\ OffsetsAdvance
    /\ DoneMeansAllVoiced

(* A clear is always answered, by the vendor or by its end: the timeout is  *)
(* not needed for it (no fairness makes it pass).                           *)
ClearsAreAnswered == reader = "clearing" ~> reader # "clearing" \/ run = "over"

(* After finalize the session ends, without help of the watchdog.           *)
FinalizedEnds == finalized ~> run = "over"

(* Neither a clear nor a finalize leaves the client waiting for good.       *)
ClientIsAnswered == ClearsAreAnswered /\ FinalizedEnds

(* TTSStream.clear() again, with no condition.                              *)
AudioAfterClearedIsNew ==
  \A i \in Frames("cleared"), j \in Frames("audio.chunk") :
    i < j => out[j].text > clears[out[i].clear].texts
============================================================================
