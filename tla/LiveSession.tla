---------------------------- MODULE LiveSession ----------------------------
(***************************************************************************)
(* live/proxy.py with live/meter.py, live/dialects.py and                  *)
(* api/realtime_ws.py: a live voice session that passes frames between a   *)
(* client and OpenAI Realtime or Gemini Live, counts what goes by, and     *)
(* bills it in checkpoints and a final event.                              *)
(*                                                                         *)
(* A frame of audio lasts one second, a report of usage is of one token,   *)
(* a token costs 1, and an estimate is of one token a second.  Names of    *)
(* models, wording, and the rates of the audio are left out.               *)
(***************************************************************************)
EXTENDS Integers

CONSTANTS
  Dialects,      \* those to look at, of "openai" and "gemini"
  Credit, Floor, \* the balance at first, and what a session needs of it
  MaxUp, MaxDown, MaxCheckpoints  \* bounds

ASSUME LiveAssumption ==
  /\ Dialects \subseteq {"openai", "gemini"}
  /\ {Credit, Floor, MaxUp, MaxDown, MaxCheckpoints} \subseteq Nat

VARIABLES
  dialect, byok,
  phase,      \* where serve_live() or run() is
  up, down,   \* _pump_up() and _pump_down(): "recv", "sending", or how they ended
  dog,        \* _watchdog(): "sleep", "emitting", "checking", or how it ended
  status, close,  \* _status, _client_close: "ok" (1000, 1001) or "error"
  client,     \* "here" | "ok" | "gone": the client's end of its socket
  upstream,   \* "none" | "open" | "ok" | "lost": the vendor's
  holding,    \* the slot of live_concurrency
  taking,     \* the frame _pump_up() is sending
  setups,     \* history: setups and changes of model that the vendor has got
  setupSeen,  \* Gemini's _setup_seen
  transcribes, switched, \* transcription_model is set; history: it was set and is not
  totals, reported, \* the meter's
  emitted,    \* _emitted: the totals at the last event
  writing,    \* whose events are being written: "checkpoint", "final"
  event,      \* what those events say
  written,    \* history: what the events written add up to
  seq,        \* _seq
  balance, seen,   \* speechrouter:balance, and what the watchdog has read of it
  debited,    \* history: tokens the cloud has taken from the balance
  ups, downs  \* frames so far

sessionVars == <<phase, status, close, holding>>
taskVars == <<up, down, dog, taking, seen>>
meterVars == <<setupSeen, transcribes, switched, totals, reported>>
billVars == <<emitted, writing, event, written, seq>>
worldVars == <<client, upstream, setups, balance, debited, ups, downs>>
vars == <<dialect, byok, sessionVars, taskVars, meterVars, billVars, worldVars>>

Counts == {"in", "out", "units", "transcribed"}
Nothing == [c \in Counts |-> 0]
Emissions == {"checkpoint", "final"}

Init ==
  /\ dialect \in Dialects /\ byok \in BOOLEAN
  /\ phase = "credentials" /\ status = "completed" /\ close = "ok" /\ holding = FALSE
  /\ up = "recv" /\ down = "recv" /\ dog = "sleep" /\ taking = "none" /\ seen = 0
  /\ setupSeen = FALSE /\ transcribes = FALSE /\ switched = FALSE
  /\ totals = Nothing /\ reported = FALSE
  /\ emitted = Nothing /\ writing = {} /\ event = [e \in Emissions |-> Nothing]
  /\ written = Nothing /\ seq = 0
  /\ client = "here" /\ upstream = "none" /\ setups = 0
  /\ balance = Credit /\ debited = 0 /\ ups = 0 /\ downs = 0

----------------------------------------------------------------------------
(* serve_live(): the checks in their order; a read of Redis that fails lets *)
(* the session pass                                                        *)
Later == [credentials |-> "blocked", blocked |-> "model", model |-> "resolve",
          resolve |-> "balance", balance |-> "slot"]
Checks == DOMAIN Later

Passes ==
  /\ phase \in Checks /\ phase' = Later[phase]
  /\ UNCHANGED <<dialect, byok, status, close, holding, taskVars, meterVars, billVars, worldVars>>

TakesSlot ==
  /\ phase = "slot" /\ phase' = "dial" /\ holding' = TRUE
  /\ UNCHANGED <<dialect, byok, status, close, taskVars, meterVars, billVars, worldVars>>

BelowFloor == ~byok /\ balance < Floor

Refused ==
  /\ phase \in Checks \cup {"slot"}
  /\ phase = "balance" => BelowFloor
  /\ phase' = "refused" /\ close' = "error"
  /\ UNCHANGED <<dialect, byok, status, holding, taskVars, meterVars, billVars, worldVars>>

----------------------------------------------------------------------------
(* run()                                                                   *)
ClosesAlike(how) ==
  status' = (IF how = "ok" THEN "completed" ELSE "provider_error") /\ UNCHANGED close
UpstreamClosed(how) ==
  /\ status' = IF how = "ok" THEN "completed" ELSE "provider_error"
  /\ close' = IF how = "ok" THEN "ok" ELSE "error"

DialFails ==
  /\ phase = "dial" /\ phase' = "rejecting" /\ status' = "provider_error" /\ close' = "error"
  /\ UNCHANGED <<dialect, byok, holding, taskVars, meterVars, billVars, worldVars>>

(* the frame that named Gemini's model goes first, and the meter sees it   *)
UnseenSetup == UNCHANGED setupSeen
FirstSetup == setupSeen' = TRUE

Dials ==
  /\ phase = "dial" /\ phase' = "run" /\ upstream' = "open"
  /\ IF dialect = "gemini" THEN setups' = setups + 1 /\ FirstSetup
     ELSE UNCHANGED <<setups, setupSeen>>
  /\ UNCHANGED <<dialect, byok, status, close, holding, taskVars, transcribes, switched, totals,
                 reported, billVars, client, balance, debited, ups, downs>>

FirstFrameFails ==
  /\ phase = "dial" /\ dialect = "gemini" /\ phase' = "closing"
  /\ \E how \in {"ok", "lost"} : upstream' = how /\ UpstreamClosed(how)
  /\ UNCHANGED <<dialect, byok, holding, taskVars, meterVars, billVars, client, setups, balance,
                 debited, ups, downs>>

ClientEnds == {"client_ok", "client_gone"}
UpstreamEnds == {"upstream_ok", "upstream_lost"}
LimitEnds == {"invalid", "credits", "expired"}
Ends == ClientEnds \cup UpstreamEnds \cup LimitEnds

(* whichever task asyncio.wait() gives first decides, of those finished    *)
NotUp == {down, dog} \cap Ends
Finished == {up, down, dog} \cap Ends

Decide ==
  /\ phase = "run"
  /\ \E how \in Finished :
       CASE how \in ClientEnds ->
              /\ status' = IF how = "client_ok" THEN "completed" ELSE "client_disconnect"
              /\ close' = "ok" /\ phase' = "closing"
         [] how \in UpstreamEnds ->
              /\ UpstreamClosed(IF how = "upstream_ok" THEN "ok" ELSE "lost")
              /\ phase' = "closing"
         [] how \in LimitEnds ->
              /\ status' = IF how = "invalid" THEN "error" ELSE how
              /\ close' = "error" /\ phase' = "rejecting"
  /\ UNCHANGED <<dialect, byok, holding, taskVars, meterVars, billVars, worldVars>>

(* the client is told; the tasks go on meanwhile                           *)
Rejects ==
  /\ phase = "rejecting" /\ phase' = "closing"
  /\ UNCHANGED <<dialect, byok, status, close, holding, taskVars, meterVars, billVars, worldVars>>

Running == phase \in {"run", "rejecting"} /\ upstream # "none"

(* the finally: the tasks are cancelled, both sides closed                 *)
Closes ==
  /\ phase = "closing" /\ phase' = "final"
  /\ up' = "cancelled" /\ down' = "cancelled" /\ dog' = "cancelled" /\ taking' = "none" /\ seen' = 0
  /\ UNCHANGED <<dialect, byok, status, close, holding, meterVars, billVars, worldVars>>

----------------------------------------------------------------------------
(* The meter                                                               *)
Plus(c) == totals' = [totals EXCEPT ![c] = @ + 1]

MeterClientAudio ==
  totals' = [totals EXCEPT !["in"] = @ + 1,
                           !["transcribed"] = @ + (IF transcribes THEN 1 ELSE 0)]

Transcribing(on) ==
  /\ transcribes' = on /\ switched' = (switched \/ (transcribes /\ ~on))
  /\ UNCHANGED <<totals, reported>>

MeterServer(kind) ==
  CASE kind = "audio" -> Plus("out") /\ UNCHANGED <<transcribes, switched, reported>>
    [] kind = "usage" -> Plus("units") /\ reported' = TRUE /\ UNCHANGED <<transcribes, switched>>
    [] kind = "transcription" -> Transcribing(TRUE)
    [] kind = "no transcription" -> Transcribing(FALSE)
    [] kind = "error" -> UNCHANGED <<transcribes, switched, totals, reported>>

Minus(now, before) == [c \in Counts |-> now[c] - before[c]]
Estimate == totals["in"] + totals["out"]

----------------------------------------------------------------------------
(* _pump_up().  What the gateway may not pass on is refused: by an error    *)
(* frame that OpenAI's protocol has, by the end of the session in Gemini's *)
ClientFrames == IF dialect = "openai" THEN {"audio", "model"} ELSE {"audio", "setup"}
Forbidden(kind) == kind = "model" \/ (kind = "setup" /\ setupSeen)

UpReceives ==
  /\ Running /\ up = "recv" /\ client = "here" /\ ups < MaxUp /\ ups' = ups + 1
  /\ \E kind \in ClientFrames :
       /\ IF kind = "audio" THEN MeterClientAudio ELSE UNCHANGED totals
       /\ setupSeen' = (setupSeen \/ kind = "setup")
       /\ IF ~Forbidden(kind) THEN up' = "sending" /\ taking' = kind
          ELSE up' = (IF dialect = "openai" THEN "recv" ELSE "invalid") /\ UNCHANGED taking
  /\ UNCHANGED <<dialect, byok, sessionVars, down, dog, seen, transcribes, switched, reported,
                 billVars, client, upstream, setups, balance, debited, downs>>

UpSends ==
  /\ Running /\ up = "sending" /\ taking' = "none"
  /\ IF upstream = "open"
     THEN up' = "recv" /\ setups' = setups + (IF taking = "audio" THEN 0 ELSE 1)
     ELSE up' = (IF upstream = "ok" THEN "upstream_ok" ELSE "upstream_lost") /\ UNCHANGED setups
  /\ UNCHANGED <<dialect, byok, sessionVars, down, dog, seen, meterVars, billVars, client, upstream,
                 balance, debited, ups, downs>>

UpGone ==
  /\ Running /\ up = "recv" /\ client # "here"
  /\ up' = IF client = "ok" THEN "client_ok" ELSE "client_gone"
  /\ UNCHANGED <<dialect, byok, sessionVars, down, dog, taking, seen, meterVars, billVars, worldVars>>

(* _pump_down()                                                            *)
ServerFrames ==
  {"audio", "usage"} \cup (IF dialect = "openai" THEN {"transcription", "no transcription"} ELSE {})

DownReceives ==
  /\ Running /\ down = "recv" /\ upstream = "open" /\ downs < MaxDown /\ downs' = downs + 1
  /\ \E kind \in ServerFrames : MeterServer(kind)
  /\ down' = "sending"
  /\ UNCHANGED <<dialect, byok, sessionVars, up, dog, taking, seen, setupSeen, billVars, client,
                 upstream, setups, balance, debited, ups>>

DownSends ==
  /\ Running /\ down = "sending" /\ down' = IF client = "here" THEN "recv" ELSE "client_gone"
  /\ UNCHANGED <<dialect, byok, sessionVars, up, dog, taking, seen, meterVars, billVars, worldVars>>

DownClosed ==
  /\ Running /\ down = "recv" /\ upstream # "open"
  /\ down' = IF upstream = "ok" THEN "upstream_ok" ELSE "upstream_lost"
  /\ UNCHANGED <<dialect, byok, sessionVars, up, dog, taking, seen, meterVars, billVars, worldVars>>

----------------------------------------------------------------------------
(* _emit(): all that changes does so before the write, which a cancelled   *)
(* checkpoint does not take back                                           *)
EstimatesAlways(final) == ~reported /\ Estimate > 0
Estimates(final) == final /\ ~reported /\ Estimate > 0

DeltaOfAll(final) ==
  [Minus(totals, emitted) EXCEPT
     !["units"] = IF Estimates(final) THEN Estimate ELSE @,
     !["transcribed"] = IF transcribes THEN totals["transcribed"] ELSE 0]
Delta(final) ==
  LET delta == Minus(totals, emitted)
  IN [delta EXCEPT !["units"] = IF Estimates(final) THEN Estimate ELSE @,
                   !["transcribed"] = IF transcribes THEN @ ELSE 0]

ForgetsToAdvance == UNCHANGED emitted
Advance == emitted' = totals

Emit(which) ==
  /\ writing' = writing \cup {which}
  /\ event' = [event EXCEPT ![which] = Delta(which = "final")]
  /\ seq' = seq + 1 /\ Advance /\ UNCHANGED written

Checkpoint ==
  /\ Running /\ dog = "sleep" /\ seq < MaxCheckpoints /\ dog' = "emitting" /\ Emit("checkpoint")
  /\ UNCHANGED <<dialect, byok, sessionVars, up, down, taking, seen, meterVars, worldVars>>

EmitFinal ==
  /\ phase = "final" /\ phase' = "writing" /\ Emit("final")
  /\ UNCHANGED <<dialect, byok, status, close, holding, taskVars, meterVars, worldVars>>

(* _send_usage() ends: who waited for it goes on, and serve_live() frees   *)
(* the slot                                                                *)
KeepsSlot == UNCHANGED holding
FreesSlot == holding' = FALSE

Writes ==
  \E e \in writing :
    /\ writing' = writing \ {e} /\ event' = [event EXCEPT ![e] = Nothing]
    /\ written' = [c \in Counts |-> written[c] + event[e][c]]
    /\ dog' = IF e = "checkpoint" /\ dog = "emitting" /\ Running THEN "sleep" ELSE dog
    /\ IF e = "final" THEN phase' = "over" /\ FreesSlot ELSE UNCHANGED <<phase, holding>>
    /\ UNCHANGED <<dialect, byok, status, close, up, down, taking, seen, meterVars, emitted, seq,
                   worldVars>>

(* accrued_usd(), _check_credits(): what the events say is in the balance  *)
AccruedTwice == IF reported THEN totals["units"] ELSE Estimate
NothingAccrued == 0
Accrued == IF reported THEN totals["units"] - emitted["units"] ELSE Estimate

ReadBalance ==
  /\ Running /\ dog = "sleep" /\ ~byok /\ dog' = "checking" /\ seen' = balance
  /\ UNCHANGED <<dialect, byok, sessionVars, up, down, taking, meterVars, billVars, worldVars>>

Compare ==
  /\ Running /\ dog = "checking" /\ dog' = IF seen - Accrued <= 0 THEN "credits" ELSE "sleep"
  /\ seen' = 0
  /\ UNCHANGED <<dialect, byok, sessionVars, up, down, taking, meterVars, billVars, worldVars>>

(* the longest session, or silence                                         *)
Expires ==
  /\ Running /\ dog = "sleep" /\ dog' = "expired"
  /\ UNCHANGED <<dialect, byok, sessionVars, up, down, taking, seen, meterVars, billVars, worldVars>>

----------------------------------------------------------------------------
(* The client, the vendor, and the cloud that takes what was billed        *)
ClientLeaves ==
  /\ Running /\ client = "here" /\ client' \in {"ok", "gone"}
  /\ UNCHANGED <<dialect, byok, sessionVars, taskVars, meterVars, billVars, upstream, setups,
                 balance, debited, ups, downs>>

VendorCloses ==
  /\ Running /\ upstream = "open" /\ upstream' \in {"ok", "lost"}
  /\ UNCHANGED <<dialect, byok, sessionVars, taskVars, meterVars, billVars, client, setups,
                 balance, debited, ups, downs>>

CloudDebits ==
  /\ ~byok /\ debited < written["units"]
  /\ debited' = written["units"] /\ balance' = balance - (written["units"] - debited)
  /\ UNCHANGED <<dialect, byok, sessionVars, taskVars, meterVars, billVars, client, upstream, setups,
                 ups, downs>>

Admission == Passes \/ TakesSlot \/ Refused
Run == Decide \/ Rejects \/ Closes \/ EmitFinal
Pumps == UpReceives \/ UpSends \/ UpGone \/ DownReceives \/ DownSends \/ DownClosed
Dog == Checkpoint \/ ReadBalance \/ Compare \/ Expires
World == ClientLeaves \/ VendorCloses \/ CloudDebits

Next == Admission \/ DialFails \/ Dials \/ FirstFrameFails \/ Run \/ Pumps \/ Dog \/ Writes \/ World

Spec == Init /\ [][Next]_vars
FairSpec ==
  /\ Spec /\ WF_vars(Run) /\ WF_vars(UpSends) /\ WF_vars(UpGone) /\ WF_vars(DownSends)
  /\ WF_vars(DownClosed) /\ SF_vars(ReadBalance) /\ WF_vars(Compare) /\ WF_vars(Writes)
  /\ WF_vars(CloudDebits)

----------------------------------------------------------------------------
Phases == Checks \cup {"slot", "refused", "dial", "run", "rejecting", "closing", "final", "writing",
                       "over"}

TypeOK ==
  /\ dialect \in Dialects /\ phase \in Phases /\ close \in {"ok", "error"}
  /\ status \in {"completed", "client_disconnect", "provider_error", "error", "credits", "expired"}
  /\ {up, down} \subseteq {"recv", "sending", "cancelled"} \cup Ends
  /\ dog \in {"sleep", "emitting", "checking", "cancelled"} \cup LimitEnds
  /\ \A c \in Counts : emitted[c] \in 0 .. totals[c]
  /\ holding <=> phase \in {"dial", "run", "rejecting", "closing", "final", "writing"}

(* What is billed is what went by, no second twice and none forgotten,      *)
(* however a checkpoint and the end of the session fall together.           *)
Billed(c) == written[c] + event["checkpoint"][c] + event["final"][c]
Ended == phase \in {"writing", "over"}
AudioIsBilledOnce ==
  \A c \in {"in", "out"} : Billed(c) = emitted[c] /\ (Ended => emitted[c] = totals[c])

(* Tokens: those the vendor reported, or once an estimate if it never did.  *)
TokensAreBilledOnce ==
  /\ ~Ended => Billed("units") = emitted["units"]
  /\ Ended => Billed("units") = IF reported THEN totals["units"] ELSE Estimate

(* The transcription is billed, if no session.update switched it off.       *)
TranscriptionIsBilledOnce ==
  ~switched => Billed("transcribed") = emitted["transcribed"]

(* accrued_usd(): a session that still has credit is not cut for its want.  *)
Cost == IF reported THEN totals["units"] ELSE Estimate
CutsOnlyTheExhausted == [][dog' = "credits" /\ dog # "credits" => Credit <= Cost]_vars

(* What the client is told agrees with what is recorded.                    *)
VerdictIsTold ==
  phase = "over" /\ client = "here" => (status = "completed" <=> close = "ok")

(* The vendor gets one setup, and no change of model: the price is that of  *)
(* the model that was resolved.                                             *)
OneModel == setups <= (IF dialect = "gemini" THEN 1 ELSE 0)

(* The usage events add up to the session, checkpoints or not, and the      *)
(* client is told the same end.                                             *)
BillAddsUp ==
  TypeOK /\ AudioIsBilledOnce /\ TokensAreBilledOnce /\ TranscriptionIsBilledOnce
    /\ VerdictIsTold /\ OneModel

(* A session whose credit is used up ends, without help of another limit.   *)
ExhaustedEnds == ~byok /\ phase = "run" /\ reported /\ Credit <= totals["units"] ~> phase = "over"

(* So does one whose client has left, and its usage is written.             *)
LeftEnds == client # "here" ~> phase = "over"

(* A session ends when it must, and for want of credit only then.           *)
EndsWhenItMust == CutsOnlyTheExhausted /\ ExhaustedEnds /\ LeftEnds

(* live/proxy.py's docstring: the transcription, which OpenAI bills apart,  *)
(* is billed to the client too.                                             *)
TranscriptionIsBilled ==
  Ended => Billed("transcribed") = totals["transcribed"]
============================================================================
