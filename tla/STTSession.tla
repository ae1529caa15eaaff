------------------------------ MODULE STTSession ------------------------------
(***************************************************************************)
(* gateway/speechrouter_gateway/router/session.py: one /v1/listen session. *)
(* Three tasks share the audio ring: the provider loop (with its feeder    *)
(* and drain), the reader of the client's socket and the watchdog.  run()  *)
(* waits for the first of them to finish, tells the client the outcome,    *)
(* cancels the rest and emits the usage event.                             *)
(*                                                                         *)
(* A step is what one task does between two awaits.  A frame handed to the *)
(* client's socket is delivered at once while the client is there; once it *)
(* has gone a send either vanishes or raises SessionClosed.  Text, word    *)
(* timings, interims and logging are left out; times are whole ticks, so   *)
(* the float tolerance _EPS is equality here.  A definition named in the   *)
(* list of mutants in PROJECT.json stands next to the one it would replace *)
(* and is used nowhere else.                                               *)
(***************************************************************************)
EXTENDS Integers, Sequences, FiniteSets

CONSTANTS
    N,            \* number of attempts: the model and its fallbacks
    Timed,        \* attempts whose adapters put times on final transcripts
    RawSend,      \* attempts whose send_audio lets ConnectionClosed escape
    Endpointing,  \* attempts whose adapters signal utterance ends
    Faults,       \* what may go wrong: see AnyFault
    Trips,        \* the watchdog's limits that may be reached
    MaxSeconds, Opaque, WallCap, Durations, MaxChunks   \* see AudioRing

Attempts == 1..N

\* refused: connect() fails; reset: the socket dies; closed: the provider
\* closes it with code 1000 in mid-stream; recoverable, fatal: it reports an
\* error of that kind; cancelled: the server cancels the handler's task.
Upstream == {"refused", "reset", "closed", "recoverable", "fatal"}
AnyFault == Upstream \cup {"cancelled"}

\* What a SessionLimit says: the maximum duration, the idle timeout, and the
\* balance that the accrued cost has used up (checked on metered sessions).
Limits == {"session_expired", "audio_timeout", "insufficient_credits"}

ASSUME SessionAssumption ==
    /\ N \in Nat \ {0}
    /\ Timed \subseteq Attempts
    /\ RawSend \subseteq Attempts
    /\ Endpointing \subseteq Attempts
    /\ Faults \subseteq AnyFault
    /\ Trips \subseteq Limits
    /\ MaxSeconds \in Nat /\ Opaque \in BOOLEAN /\ WallCap \in Nat
    /\ Durations \subseteq Nat /\ MaxChunks \in Nat

VARIABLES
    chunks, nextIdx, clock, closed, pc, pos, log,   \* the ring (AudioRing)
    run,          \* where run() stands
    status,       \* _status
    attempt,      \* the attempt the provider loop is at; 0 before the first
    loop,         \* where _provider_loop stands, or how it ended
    served,       \* previous_slug: the last attempt that connected, or 0
    switches,     \* _switches
    offset,       \* session time at which the current attempt starts
    lastFinalEnd, \* _last_final_end
    lastUtterance,\* _last_utterance_end
    drain,        \* "on" until the adapter's events() is exhausted
    flushed,      \* finish() was called on the current adapter
    reader,       \* "on" until _read_client returns
    finalized,    \* _finalized
    watchdog,     \* "on", or the status of the SessionLimit it raised
    link,         \* the current upstream socket: "up", "reset" or "closed"
    heard,        \* the session second behind each second the adapter was fed
    said,         \* how much of it the adapter's finals have covered
    upstreams,    \* attempts whose upstream session is open
    client,       \* "here" or "gone"
    out,          \* history: the frames the client has received
    dropped,      \* history: the seconds inside suppressed finals
    usage         \* history: the usage events emitted

ringPart == <<chunks, nextIdx, clock, closed, pc, pos, log>>
loopPart == <<attempt, loop, served, switches, offset>>
gatePart == <<lastFinalEnd, lastUtterance, dropped>>
streamPart == <<drain, flushed, link, heard, said>>
clientPart == <<reader, finalized, client>>
runPart == <<run, status, watchdog, usage>>
vars == <<ringPart, loopPart, gatePart, streamPart, clientPart, runPart,
          upstreams, out>>

NoTime == -1

Ring == INSTANCE AudioRing WITH Readers <- Attempts
Protocol == INSTANCE ListenProtocol
RunStates == {"opening", "running", "decided", "closing", "done", "killed"}
LoopEnds == {"returned", "SessionClosed", "ProviderStreamError", "crash"}
LoopStates == {"next", "connecting", "streaming"} \cup LoopEnds
Statuses == {"completed", "client_disconnect", "provider_error", "error"} \cup Limits

Init ==
    /\ Ring!Init
    /\ run = "opening" /\ status = "completed" /\ watchdog = "on" /\ usage = <<>>
    /\ attempt = 0 /\ loop = "next" /\ served = 0 /\ switches = 0 /\ offset = 0
    /\ lastFinalEnd = NoTime /\ lastUtterance = NoTime /\ dropped = {}
    /\ drain = "on" /\ flushed = FALSE /\ link = "up" /\ heard = <<>> /\ said = 0
    /\ reader = "on" /\ finalized = FALSE /\ client = "here"
    /\ upstreams = {} /\ out = <<>>

-----------------------------------------------------------------------------
(* Shared parts.                                                           *)

\* The three tasks exist and have not been cancelled.  They also run while
\* run() awaits the sending of its verdict.
LiveForEver == run # "opening"
Live == run \in {"running", "decided"}

\* send_event succeeds: the client gets the frame if it is still there.
Send(frame) == out' = IF client = "here" THEN Append(out, frame) ELSE out

\* The seconds of session audio inside a chunk.
Seconds(c) == [i \in 1..c.duration |-> c.start + i - 1]

\* The current iteration over the ring ends, if one is under way.
DropFeeder ==
    pc' = [a \in Attempts |->
             IF a = attempt /\ pc[a] \in {"placed", "reading", "waiting"}
             THEN "cancelled" ELSE pc[a]]

\* adapter.close() in the finally of the loop's try.
ForgetAdapter == UNCHANGED upstreams
CloseAdapter == upstreams' = upstreams \ {attempt}

\* The TaskGroup of feeder and drain is over: its tasks are cancelled, the
\* adapter is closed (the `finally` of the loop) and the loop goes on.  What
\* the provider knew goes with its session (kept for the one that finished).
EndStream(next) ==
    /\ DropFeeder
    /\ CloseAdapter
    /\ loop' = next
    /\ drain' = "on" /\ flushed' = FALSE /\ link' = "up" /\ said' = 0
    /\ heard' = IF next = "returned" THEN heard ELSE <<>>
    /\ UNCHANGED <<chunks, nextIdx, clock, closed, pos, log>>

\* A frame out of the drain, once the provider has covered `upto` of what it
\* heard: delivered, lost, or a SessionClosed that ends the loop.
DrainSends(frame, upto) ==
    \/ /\ Send(frame)
       /\ said' = upto
       /\ UNCHANGED <<ringPart, loop, upstreams, drain, flushed, link, heard>>
    \/ /\ client = "gone"
       /\ EndStream("SessionClosed")
       /\ UNCHANGED out

\* _emit_usage: the model of the first attempt, and all the audio accepted.
UsageOfHeard(s) ==
    [model |-> 1, audio |-> Len(heard), switches |-> switches, status |-> s]
UsageEvent(s) == [model |-> 1, audio |-> clock, switches |-> switches, status |-> s]

EmitIfAudio(s) == usage' = IF clock > 0 THEN Append(usage, UsageEvent(s)) ELSE usage
EmitUsage(s) == usage' = Append(usage, UsageEvent(s))

Streaming == Live /\ loop = "streaming"

-----------------------------------------------------------------------------
(* run(): the opening frame, and the tasks.                                *)

Open ==
    /\ run = "opening"
    /\ run' = "running"
    /\ Send([type |-> "session.open"])
    /\ UNCHANGED <<ringPart, loopPart, gatePart, streamPart, clientPart, status,
                   watchdog, usage, upstreams>>

\* The client left before session.open: usage is emitted, no task starts.
OpenFails ==
    /\ run = "opening" /\ client = "gone"
    /\ run' = "done"
    /\ status' = "client_disconnect"
    /\ EmitUsage(status')
    /\ UNCHANGED <<ringPart, loopPart, gatePart, streamPart, clientPart, watchdog,
                   upstreams, out>>

-----------------------------------------------------------------------------
(* _provider_loop.                                                         *)

\* A first provider hears the audio from its start, a replacement from the
\* oldest chunk the ring retains.
ResumeLive == IF served # 0 THEN nextIdx ELSE 0
ResumeIdx == IF served # 0 THEN Ring!ReplayIdx ELSE 0
ResumeNow == IF served # 0 THEN clock ELSE 0
ResumeTime == IF served # 0 THEN Ring!ReplayTime ELSE 0

\* The head of the for loop.  Where a replacement will resume is read here,
\* before the connect it then awaits.
NextAttempt ==
    LET a == attempt + 1
    IN  /\ Live /\ loop = "next" /\ attempt < N
        /\ attempt' = a
        /\ Ring!PlaceAt(a, ResumeIdx)
        /\ offset' = ResumeTime
        /\ loop' = "connecting"
        /\ UNCHANGED <<served, switches, gatePart, streamPart, clientPart, runPart,
                       upstreams, out>>

\* Every attempt has been used: the last error is raised.
Exhausted ==
    /\ Live /\ loop = "next" /\ attempt = N
    /\ loop' = "ProviderStreamError"
    /\ UNCHANGED <<ringPart, attempt, served, switches, offset, gatePart, streamPart,
                   clientPart, runPart, upstreams, out>>

ConnectFails ==
    /\ Live /\ loop = "connecting" /\ "refused" \in Faults
    /\ loop' = "next"
    /\ DropFeeder
    /\ UNCHANGED <<chunks, nextIdx, clock, closed, pos, log, attempt, served, switches,
                   offset, gatePart, streamPart, clientPart, runPart, upstreams, out>>

SwitchFromPrimary == [type |-> "provider_switched", from |-> 1, to |-> attempt,
                      resumedAt |-> offset]
SwitchFrame == [type |-> "provider_switched", from |-> served, to |-> attempt,
                resumedAt |-> offset]

\* connect() succeeded; a replacement first announces itself to the client.
Connected ==
    /\ Live /\ loop = "connecting"
    /\ upstreams' = upstreams \cup {attempt}
    /\ switches' = IF served # 0 THEN switches + 1 ELSE switches
    /\ IF served # 0 THEN Send(SwitchFrame) ELSE UNCHANGED out
    /\ served' = attempt
    /\ loop' = "streaming"
    /\ Ring!Iterate(attempt)
    /\ UNCHANGED <<attempt, offset, gatePart, streamPart, clientPart, runPart>>

\* The announcement raises SessionClosed: this is outside the try whose
\* finally closes the adapter.
SwitchFrameFails ==
    /\ Live /\ loop = "connecting" /\ served # 0 /\ client = "gone"
    /\ upstreams' = upstreams \cup {attempt}
    /\ switches' = switches + 1
    /\ loop' = "SessionClosed"
    /\ DropFeeder
    /\ UNCHANGED <<chunks, nextIdx, clock, closed, pos, log, attempt, served, offset,
                   gatePart, streamPart, clientPart, runPart, out>>

-----------------------------------------------------------------------------
(* _feed.                                                                  *)

FeedChunk ==
    /\ Streaming /\ link = "up"
    /\ Ring!Yield(attempt)
    /\ heard' = heard \o Seconds(Ring!Get(pos[attempt]))
    /\ UNCHANGED <<loopPart, gatePart, drain, flushed, link, said, clientPart, runPart,
                   upstreams, out>>

FeedWaits ==
    /\ Streaming
    /\ Ring!Wait(attempt)
    /\ UNCHANGED <<loopPart, gatePart, streamPart, clientPart, runPart, upstreams, out>>

\* The ring is drained: finish() (which swallows a dead socket).
FeedFinishes ==
    /\ Streaming
    /\ Ring!Drain(attempt)
    /\ flushed' = TRUE
    /\ UNCHANGED <<loopPart, gatePart, drain, link, heard, said, clientPart, runPart,
                   upstreams, out>>

\* send_audio on a dead socket.  A raw ConnectionClosed is not a
\* ProviderStreamError: the group is re-raised and no fallback is tried.
FeedFails ==
    /\ Streaming /\ link # "up"
    /\ pc[attempt] = "reading" /\ Ring!Available(pos[attempt])
    /\ EndStream(IF attempt \in RawSend THEN "crash" ELSE "next")
    /\ UNCHANGED <<attempt, served, switches, offset, gatePart, clientPart, runPart,
                   out>>

-----------------------------------------------------------------------------
(* _drain and _normalize.                                                  *)

\* The gate for a final with times: it ends inside what was already delivered.
Overlaps(start, end) == start < lastFinalEnd
EndsStrictlyInside(start, end) == end < lastFinalEnd
AlreadyFinal(start, end) == end <= lastFinalEnd

\* The gate for an endpoint signal: it repeats, or lies inside final audio.
RepeatedEndpoint(at) == at <= lastUtterance
StaleEndpoint(at) == at <= lastUtterance \/ at < lastFinalEnd

\* A final transcript of the next seconds the adapter has heard.
DrainFinal ==
    /\ Streaming /\ drain = "on"
    /\ \E e \in (said + 1)..Len(heard) :
          LET of == {heard[i] : i \in (said + 1)..e}
              timed == attempt \in Timed
              start == offset + said
              end == offset + e
          IN  \/ /\ timed /\ AlreadyFinal(start, end)
                 /\ said' = e
                 /\ dropped' = dropped \cup of
                 /\ UNCHANGED <<ringPart, loop, upstreams, drain, flushed, link, heard,
                                out, lastFinalEnd>>
              \/ /\ ~(timed /\ AlreadyFinal(start, end))
                 /\ lastFinalEnd' = IF timed THEN end ELSE lastFinalEnd
                 /\ DrainSends([type |-> "final", of |-> of,
                                start |-> IF timed THEN start ELSE NoTime,
                                end |-> IF timed THEN end ELSE NoTime], e)
                 /\ UNCHANGED dropped
    /\ UNCHANGED <<attempt, served, switches, offset, lastUtterance, clientPart, runPart>>

DrainUtteranceEnd ==
    /\ Streaming /\ drain = "on" /\ attempt \in Endpointing
    /\ \E t \in 1..Len(heard) :
          LET at == offset + t
          IN  /\ ~StaleEndpoint(at)
              /\ lastUtterance' = at
              /\ DrainSends([type |-> "utterance_end", at |-> at], said)
    /\ UNCHANGED <<attempt, served, switches, offset, lastFinalEnd, dropped, clientPart,
                   runPart>>

\* events() is exhausted.  A socket closed with code 1000 reads as the end of
\* the stream at any time; once finish() was called any end of it does.
StreamEnds ==
    /\ Streaming /\ drain = "on"
    /\ flushed \/ link = "closed"
    /\ drain' = "ended"
    /\ UNCHANGED <<ringPart, loopPart, gatePart, flushed, link, heard, said, clientPart,
                   runPart, upstreams, out>>

\* events() raises ProviderStreamError: a recoverable one moves to the next
\* attempt, any other ends the session.
StreamFails ==
    /\ Streaming /\ drain = "on"
    /\ \/ link = "reset" /\ ~flushed /\ EndStream("next")
       \/ "recoverable" \in Faults /\ EndStream("next")
       \/ "fatal" \in Faults /\ EndStream("ProviderStreamError")
    /\ UNCHANGED <<attempt, served, switches, offset, gatePart, clientPart, runPart,
                   out>>

\* Feeder and drain are both through: the adapter is closed, the loop returns.
StreamReturns ==
    /\ Streaming /\ drain = "ended" /\ pc[attempt] = "drained"
    /\ EndStream("returned")
    /\ UNCHANGED <<attempt, served, switches, offset, gatePart, clientPart, runPart,
                   out>>

\* The upstream socket dies or is closed.
LinkDrops ==
    /\ Streaming /\ link = "up"
    /\ link' \in Faults \cap {"reset", "closed"}
    /\ UNCHANGED <<ringPart, loopPart, gatePart, drain, flushed, heard, said, clientPart,
                   runPart, upstreams, out>>

-----------------------------------------------------------------------------
(* _read_client, and the client.                                           *)

ReadAudio ==
    /\ Live /\ reader = "on" /\ ~finalized
    /\ \E d \in Durations : Ring!AppendChunk(d)
    /\ UNCHANGED <<loopPart, gatePart, streamPart, clientPart, runPart, upstreams, out>>

ReadFinalize ==
    /\ Live /\ reader = "on"
    /\ finalized' = TRUE
    /\ Ring!Close
    /\ UNCHANGED <<loopPart, gatePart, streamPart, reader, client, runPart, upstreams,
                   out>>

ReadDisconnect ==
    /\ Live /\ reader = "on" /\ client = "gone"
    /\ reader' = "returned"
    /\ Ring!Close
    /\ UNCHANGED <<loopPart, gatePart, streamPart, finalized, client, runPart, upstreams,
                   out>>

ClientLeaves ==
    /\ run \notin {"done", "killed"} /\ client = "here"
    /\ client' = "gone"
    /\ UNCHANGED <<ringPart, loopPart, gatePart, streamPart, reader, finalized, runPart,
                   upstreams, out>>

-----------------------------------------------------------------------------
(* _watchdog: which of its checks trips at a tick is up to the wall clock  *)
(* and the balance; the idle check is off once the client has finalized.   *)

MayTrip(limit) == limit = "audio_timeout" => ~finalized

WatchdogTrips(limit) ==
    /\ Live /\ watchdog = "on"
    /\ MayTrip(limit)
    /\ watchdog' = limit
    /\ UNCHANGED <<ringPart, loopPart, gatePart, streamPart, clientPart, run, status,
                   usage, upstreams, out>>

-----------------------------------------------------------------------------
(* run(): the verdict and the teardown.                                    *)

ByeUnlisted == IF finalized THEN "completed" ELSE "disconnected"
ByeStatus == IF finalized THEN "completed" ELSE "client_disconnect"

\* The verdict goes out as a frame while the tasks are still alive; without
\* one, or when the send raises SessionClosed, nothing runs before the finally.
VerdictUnrecorded(s, frame) ==
    /\ run' = "decided"
    /\ UNCHANGED status
    /\ Send(frame)
Verdict(s, frame) ==
    /\ run' = "decided"
    /\ status' = s
    /\ Send(frame)

Silently(s) ==
    /\ run' = "closing"
    /\ status' = s
    /\ UNCHANGED out

Error(code) == [type |-> "error", code |-> code]

\* A finished provider loop decides, whatever else has finished.
DecideByProvider ==
    /\ run = "running"
    /\ \/ /\ loop = "returned"
          /\ \/ Verdict("completed", [type |-> "done", audio |-> clock])
             \/ client = "gone" /\ Silently(ByeStatus)
       \/ loop = "SessionClosed" /\ Silently(ByeStatus)
       \/ /\ loop = "ProviderStreamError"
          /\ Verdict("provider_error",
                     Error(IF switches > 0 THEN "all_providers_failed"
                                           ELSE "provider_error"))
       \/ loop = "crash" /\ Verdict("error", Error("internal_error"))
    /\ UNCHANGED <<ringPart, loopPart, gatePart, streamPart, clientPart, watchdog, usage,
                   upstreams>>

\* Otherwise whichever of the reader and the watchdog asyncio.wait hands out.
DecideByOther ==
    /\ run = "running" /\ loop \notin LoopEnds
    /\ \/ reader = "returned" /\ Silently(ByeStatus)
       \/ watchdog # "on" /\ Verdict(watchdog, Error(watchdog))
    /\ UNCHANGED <<ringPart, loopPart, gatePart, streamPart, clientPart, watchdog, usage,
                   upstreams>>

\* The server cancels run() itself: its finally still runs.
Cancelled ==
    /\ run = "running" /\ "cancelled" \in Faults
    /\ Silently(status)
    /\ UNCHANGED <<ringPart, loopPart, gatePart, streamPart, clientPart, watchdog, usage,
                   upstreams>>

\* The finally of run(): cancel and gather the tasks, then emit the usage
\* event.  Cancelling the loop inside its try closes the adapter.
Teardown ==
    /\ run \in {"decided", "closing"}
    /\ run' = "done"
    /\ DropFeeder
    /\ IF loop = "streaming" THEN CloseAdapter ELSE UNCHANGED upstreams
    /\ EmitUsage(status)
    /\ UNCHANGED <<chunks, nextIdx, clock, closed, pos, log, loopPart, gatePart,
                   streamPart, clientPart, status, watchdog, out>>

\* The server cancels run() where no finally is left to emit the usage event:
\* while it opens the session, or while the finally awaits its tasks.
Killed ==
    /\ run \in {"opening", "decided", "closing"} /\ "cancelled" \in Faults
    /\ run' = "killed"
    /\ DropFeeder
    /\ IF loop = "streaming" THEN CloseAdapter ELSE UNCHANGED upstreams
    /\ UNCHANGED <<chunks, nextIdx, clock, closed, pos, log, loopPart, gatePart,
                   streamPart, clientPart, status, watchdog, usage, out>>

-----------------------------------------------------------------------------
ProviderLoop ==
    \/ NextAttempt \/ Exhausted \/ ConnectFails \/ Connected \/ SwitchFrameFails
Feeder == FeedChunk \/ FeedWaits \/ FeedFinishes \/ FeedFails
DrainTask ==
    \/ DrainFinal \/ DrainUtteranceEnd \/ StreamEnds \/ StreamFails \/ StreamReturns
Reader == ReadAudio \/ ReadFinalize \/ ReadDisconnect
Decide == DecideByProvider \/ DecideByOther

Next ==
    \/ Open \/ OpenFails
    \/ ProviderLoop \/ Feeder \/ DrainTask \/ LinkDrops
    \/ Reader \/ ClientLeaves
    \/ \E limit \in Trips : WatchdogTrips(limit)
    \/ Decide \/ Cancelled \/ Teardown \/ Killed

Spec == Init /\ [][Next]_vars

\* The client may do anything or nothing.  The event loop runs every ready
\* task, a connect resolves, and a provider that was told the audio is over
\* answers by ending its events.
FairSpec ==
    /\ Spec
    /\ WF_vars(Open \/ OpenFails)
    /\ WF_vars(ProviderLoop)
    /\ WF_vars(Feeder)
    /\ WF_vars(DrainTask)
    /\ WF_vars(Decide)
    /\ WF_vars(Teardown)

-----------------------------------------------------------------------------
(* Properties.                                                             *)

Frames(type) == {i \in 1..Len(out) : out[i].type = type}
TimedFinals == {i \in Frames("final") : out[i].end # NoTime}
Delivered == UNION {out[i].of : i \in Frames("final")}

\* The frames of packages/spec/events.schema.json that a session sends.
Frame ==
    [type : {"session.open"}]
    \cup [type : {"final"}, of : SUBSET Nat, start : Nat \cup {NoTime},
          end : Nat \cup {NoTime}]
    \cup [type : {"utterance_end"}, at : Nat]
    \cup [type : {"provider_switched"}, from : Attempts, to : Attempts, resumedAt : Nat]
    \cup [type : {"done"}, audio : Nat]
    \cup [type : {"error"},
          code : Limits \cup {"provider_error", "all_providers_failed", "internal_error"}]

UsageRecord == [model : Attempts, audio : Nat, switches : Nat, status : Statuses]

TypeOK ==
    /\ Ring!TypeOK
    /\ run \in RunStates /\ status \in Statuses
    /\ watchdog \in {"on"} \cup Limits
    /\ attempt \in 0..N /\ loop \in LoopStates /\ served \in 0..N
    /\ switches \in Nat /\ offset \in Nat
    /\ lastFinalEnd \in Nat \cup {NoTime} /\ lastUtterance \in Nat \cup {NoTime}
    /\ drain \in {"on", "ended"} /\ flushed \in BOOLEAN
    /\ link \in {"up", "reset", "closed"}
    /\ heard \in Seq(Nat) /\ said \in 0..Len(heard)
    /\ reader \in {"on", "returned"} /\ finalized \in BOOLEAN
    /\ client \in {"here", "gone"}
    /\ upstreams \subseteq Attempts /\ dropped \subseteq Nat
    /\ out \in Seq(Frame) /\ usage \in Seq(UsageRecord)

\* The dedup gate: across failovers, replays and clean closes, the ends of
\* the timed finals a client receives only ever grow (session.py:262-265).
FinalsAdvance ==
    \A i, j \in TimedFinals : i < j => out[i].end < out[j].end

\* What the gate suppresses is a repetition: every second of it has already
\* reached the client inside a final (session.py:263-264).
SuppressedWasDelivered == client = "here" => dropped \subseteq Delivered

\* One usage event per session, emitted when it is over, never before and never
\* twice: "Usage is emitted exactly once from run()'s finally" (session.py:16).
\* Only a run() that is cancelled outside the finally's reach emits none.
UsageExactlyOnce == Len(usage) = IF run = "done" THEN 1 ELSE 0

\* The client and the bill agree: a done frame and the usage event report the
\* same audio, and done is the last frame the client gets.
DoneAgreesWithUsage ==
    \A i \in Frames("done") :
        /\ i = Len(out)
        /\ run = "done" => usage[1].audio = out[i].audio /\ usage[1].status = "completed"

\* One verdict: at most one of done and error; and a client that stays is
\* told what the usage event records.
OneVerdict ==
    LET verdicts == Frames("done") \cup Frames("error")
    IN  /\ Cardinality(verdicts) <= 1
        /\ (run = "done" /\ client = "here" /\ "cancelled" \notin Faults) =>
              \E i \in verdicts :
                  \/ out[i].type = "done" /\ status = "completed"
                  \/ out[i].type = "error" /\ status \in Limits /\ out[i].code = status
                  \/ out[i].type = "error" /\ status = "error"
                     /\ out[i].code = "internal_error"
                  \/ out[i].type = "error" /\ status = "provider_error"
                     /\ out[i].code \in {"provider_error", "all_providers_failed"}

\* A failover never runs two upstream sessions at once, and the session ends
\* with at most the one whose switch could not be announced still open.
AtMostOneUpstream == Cardinality(upstreams) <= 1

\* The client is told of every switch that is billed, in the order of the
\* lane: no switch leaves a provider before the one the previous arrived at.
SwitchesFormAChain ==
    LET sw == Frames("provider_switched")
    IN  /\ \A i \in sw : out[i].from < out[i].to
        /\ \A i, j \in sw : i < j => out[i].to <= out[j].from
        /\ client = "here" => Cardinality(sw) = switches

\* What the client was told and what is billed are one story.
ClientAndBillAgree == DoneAgreesWithUsage /\ OneVerdict /\ SwitchesFormAChain

\* When the client is told done, the provider that finished has been fed all
\* the audio the gateway accepted, whichever way its predecessors went
\* (session.py:211).  It takes a ring that holds the whole audio: a client that
\* overruns a smaller one loses audio and is told done all the same.
DoneMeansAllHeard ==
    Frames("done") # {} => 0..(clock - 1) \subseteq {heard[i] : i \in 1..Len(heard)}

\* A timed final labels the seconds it is about: "adapters apply the session
\* offset so the timeline is seamless" (packages/spec/README.md:23-24).  It
\* takes a ring that holds the whole audio; stt_trimmed_replay refutes it for
\* a smaller one, where the chunk at the offset is gone once connect() is over.
LabelsAreTrue ==
    \A i \in TimedFinals : out[i].of = out[i].start..(out[i].end - 1)

\* The session uses the ring only in the ways AudioRing allows, so all that is
\* checked and proved of the ring holds inside a session: an iteration starts
\* at index 0 or at the oldest retained chunk (session.py:182).
RingSpec == Ring!Spec

\* The session implements its contract: whatever providers and tasks do, what
\* the client and the bill see is a behaviour of ListenProtocol; above all, no
\* frame follows the usage event or a done (session.py:169-174).
KeepsProtocol == Protocol!Spec

\* A client that finalizes gets its session over with.
FinalizedEnds == finalized ~> run = "done"

-----------------------------------------------------------------------------
(* What the documentation says of the program and the code does not do.    *)

\* "clients never receive duplicate finals for the same audio range"
\* (packages/spec/events.schema.json:75): the gate compares only the ends.
NoSecondIsFinalTwice ==
    \A i, j \in TimedFinals : i < j => out[i].of \cap out[j].of = {}

\* "If the primary dies mid-utterance ... your client sees a
\* provider_switched event, not an outage" (README.md:34-36): no error ends a
\* session whose only trouble is a dead socket while a fallback is untried.
DeadPrimaryIsReplaced == status = "error" => attempt = N
=============================================================================
