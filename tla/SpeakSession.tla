------------------------------ MODULE SpeakSession ------------------------------
(***************************************************************************)
(* gateway/speechrouter_gateway/tts/session.py: one /v1/speak session over *)
(* a vendor that takes whole texts.  The reader cuts the client's text     *)
(* into segments; a pipeline dispatches one synthesis job per segment and  *)
(* sends their audio in order; `clear` (barge-in) cancels the pipeline,    *)
(* which the supervisor starts again once the clear is over.               *)
(*                                                                         *)
(* A step is what one task does between two awaits.  Text is the number of *)
(* its text.delta, a segment an interval of them, audio a chunk of its     *)
(* segment; clocks, formats and prices are left out.  A definition named   *)
(* in the list of mutants in PROJECT.json stands next to the one it would  *)
(* replace and is used nowhere else.                                       *)
(***************************************************************************)
EXTENDS Integers, Sequences, FiniteSets

CONSTANTS
    PREFETCH,   \* segments synthesized ahead of the one being sent
    Faults,     \* "failed", "crashed": how a job may end; "cancelled": see Killed
    Trips,      \* the watchdog's limits that may be reached
    MaxDeltas, MaxClears, MaxAudio   \* bounds of the model: messages, chunks a job

Limits == {"session_expired", "audio_timeout", "insufficient_credits"}
JobFaults == {"failed", "crashed"}

ASSUME SpeakAssumption ==
    /\ PREFETCH \in Nat
    /\ Faults \subseteq JobFaults \cup {"cancelled"}
    /\ Trips \subseteq Limits
    /\ MaxDeltas \in Nat /\ MaxClears \in Nat /\ MaxAudio \in Nat

VARIABLES
    deltas,     \* text.delta messages taken so far
    cut,        \* how many of them the segmenter has let go
    queue,      \* _segments: segments, and Final after a finalize
    finalized,  \* _finalized
    finalSeen,  \* _final_seen
    jobs,       \* _jobs: dispatched segments, the one being sent first
    dying,      \* jobs a clear has taken out of _jobs and is cancelling
    finished,   \* _finished_runs
    inner,      \* the pipeline task: "running", "cancelling", "cancelled" or how it ended
    restart,    \* _restart is set
    supervisor, \* "on", or how it ended
    pair,       \* the _send_pair that holds _send_lock, or NoPair
    seq,        \* _seq
    sent,       \* _last_sent_seq
    reader,     \* "on", or where it stands in _clear, or how it ended
    refinal,    \* the local `finalized` of _clear
    clears,     \* clear messages taken so far
    watchdog,   \* "on", or the status of the SpeakLimit it raised
    run,        \* where run() stands
    status,     \* _status
    client,     \* "here" or "gone"
    out,        \* history: the frames the client has received
    usage,      \* history: the usage events emitted
    dispatched, \* history: every segment a job was started for
    voiced      \* history: the deltas whose segment was sent to its end

textPart == <<deltas, cut, finalized>>
workPart == <<queue, finalSeen, jobs, dispatched>>
pipePart == <<inner, restart, supervisor>>
pairPart == <<pair, seq, sent>>
readPart == <<reader, refinal, clears>>
runPart == <<run, status, usage>>
vars == <<textPart, workPart, dying, finished, pipePart, pairPart, readPart, watchdog,
          runPart, client, out, voiced>>

Segment == {s \in [from : 1..MaxDeltas, to : 1..MaxDeltas] : s.from <= s.to}
Final == [from |-> 0, to |-> 0]
Job == {j \in [seg : Segment, ready : 0..MaxAudio, made : 0..MaxAudio,
               end : {"no", "end"} \cup JobFaults] : j.ready <= j.made}
NoPair == [seq |-> 0]
Pair == [seq : Nat, seg : Segment, own : BOOLEAN]
Ends == {"returned", "SpeakClosed"} \cup JobFaults

Init ==
    /\ deltas = 0 /\ cut = 0 /\ finalized = FALSE
    /\ queue = <<>> /\ finalSeen = FALSE /\ jobs = <<>> /\ dispatched = <<>>
    /\ dying = <<>> /\ finished = <<>> /\ voiced = {}
    /\ inner = "running" /\ restart = FALSE /\ supervisor = "on"
    /\ pair = NoPair /\ seq = 0 /\ sent = 0
    /\ reader = "on" /\ refinal = FALSE /\ clears = 0
    /\ watchdog = "on" /\ run = "opening" /\ status = "completed" /\ usage = <<>>
    /\ client = "here" /\ out = <<>>

-----------------------------------------------------------------------------
(* Shared parts.                                                           *)

\* The three tasks exist and have not been cancelled.
Live == run \in {"running", "decided"}

Send(frame) == out' = IF client = "here" THEN Append(out, frame) ELSE out

Segments(js) == [i \in 1..Len(js) |-> js[i].seg]
Dispatch(seg) == [seg |-> seg, ready |-> 0, made |-> 0, end |-> "no"]
IsFinal(q) == q # <<>> /\ q[Len(q)] = Final

\* The lock that keeps a chunk's header, its audio and `cleared` apart.
LockIgnored == reader # "said"
LockFree == pair = NoPair /\ reader # "said"

\* The pair that is being sent when nobody waits for it any more.
Unshielded == NoPair
Orphaned == IF pair = NoPair THEN NoPair ELSE [pair EXCEPT !.own = FALSE]

\* _top_up with js as the jobs: it dispatches queued segments while no more
\* than PREFETCH jobs are ahead, and reads Final when it gets that far.
RoomForOneMore(js) == PREFETCH + 2 - Len(js)
Room(js) == PREFETCH + 1 - Len(js)
TopUp(js) ==
    LET segs == Len(queue) - (IF IsFinal(queue) THEN 1 ELSE 0)
        room == IF finalSeen THEN 0 ELSE Room(js)
        n == IF room < segs THEN room ELSE segs
        final == n < room /\ IsFinal(queue)
    IN  /\ jobs' = js \o [i \in 1..n |-> Dispatch(queue[i])]
        /\ dispatched' = dispatched \o SubSeq(queue, 1, n)
        /\ queue' = IF final THEN <<>> ELSE SubSeq(queue, n + 1, Len(queue))
        /\ finalSeen' = (finalSeen \/ final)

-----------------------------------------------------------------------------
(* run(): the opening frame.                                               *)

Open ==
    /\ run = "opening"
    /\ run' = "running"
    /\ Send([type |-> "session.open"])
    /\ UNCHANGED <<textPart, workPart, dying, finished, pipePart, pairPart, readPart,
                   watchdog, status, usage, client, voiced>>

FinishedOnly(s) == [runs |-> finished, status |-> s]
UsageEvent(s) == [runs |-> finished \o Segments(jobs), status |-> s]

OpenFails ==
    /\ run = "opening" /\ client = "gone"
    /\ run' = "done" /\ status' = "client_disconnect"
    /\ usage' = Append(usage, UsageEvent(status'))
    /\ UNCHANGED <<textPart, workPart, dying, finished, pipePart, pairPart, readPart,
                   watchdog, client, out, voiced>>

-----------------------------------------------------------------------------
(* _read_client.                                                           *)

\* The segmenter lets go of some prefix of its text.
CutAndKeep(c) ==
    /\ queue' = Append(queue, [from |-> cut + 1, to |-> c])
    /\ cut' = cut
Cut(c) ==
    /\ queue' = Append(queue, [from |-> cut + 1, to |-> c])
    /\ cut' = c

\* push(): it may complete a segment (several are as if one came per message).
ReadText ==
    /\ Live /\ reader = "on" /\ ~finalized /\ deltas < MaxDeltas
    /\ deltas' = deltas + 1
    /\ \/ UNCHANGED <<cut, queue>>
       \/ \E c \in (cut + 1)..deltas' : Cut(c)
    /\ UNCHANGED <<finalized, finalSeen, jobs, dispatched, dying, finished, pipePart,
                   pairPart, readPart, watchdog, runPart, client, out, voiced>>

\* flush(): the rest of the text becomes the last segment, Final follows.
DropTail == <<Final>>
EvenIfEmpty == <<[from |-> cut + 1, to |-> deltas], Final>>
Tailed ==
    IF cut < deltas THEN <<[from |-> cut + 1, to |-> deltas], Final>> ELSE <<Final>>

ReadFinalize ==
    /\ Live /\ reader = "on" /\ ~finalized
    /\ finalized' = TRUE
    /\ queue' = queue \o Tailed
    /\ cut' = deltas
    /\ UNCHANGED <<deltas, finalSeen, jobs, dispatched, dying, finished, pipePart,
                   pairPart, readPart, watchdog, runPart, client, out, voiced>>

ReadDisconnect ==
    /\ Live /\ reader = "on" /\ client = "gone"
    /\ reader' = "returned"
    /\ UNCHANGED <<textPart, workPart, dying, finished, pipePart, pairPart, refinal,
                   clears, watchdog, runPart, client, out, voiced>>

\* The second half of a clear: text and segments are dropped; a Final that was
\* seen or is dropped here will be put back.
QueuedFinal == IsFinal(queue)
AnyFinal == finalSeen \/ IsFinal(queue)

DropPending ==
    /\ cut' = deltas
    /\ refinal' = AnyFinal
    /\ finalSeen' = FALSE /\ queue' = <<>>
    /\ reader' = "clearing"

\* _cancel_jobs: it takes the jobs out, then awaits their end; with no job it
\* awaits nothing.
TakeJobs ==
    /\ dying' = Segments(jobs) /\ jobs' = <<>>
    /\ IF jobs = <<>> THEN DropPending
       ELSE reader' = "gathering" /\ UNCHANGED <<cut, refinal, finalSeen, queue>>

\* _clear cancels a pipeline that is not done; the pair being sent is shielded.
ReadClear ==
    /\ Live /\ reader = "on" /\ clears < MaxClears
    /\ clears' = clears + 1
    /\ \/ /\ inner = "running"
          /\ inner' = "cancelling" /\ reader' = "cancelling"
          /\ pair' = Orphaned
          /\ UNCHANGED <<cut, workPart, dying, refinal>>
       \/ /\ inner # "running"
          /\ TakeJobs
          /\ UNCHANGED <<dispatched, inner, pair>>
    /\ UNCHANGED <<deltas, finalized, finished, restart, supervisor, seq, sent, watchdog,
                   runPart, client, out, voiced>>

\* The reader and the supervisor wake together when the pipeline is gone.
ClearTakesJobs ==
    /\ Live /\ reader = "cancelling"
    /\ inner' = "cancelled"
    /\ TakeJobs
    /\ UNCHANGED <<deltas, finalized, dispatched, finished, restart, supervisor, pairPart,
                   clears, watchdog, runPart, client, out, voiced>>

\* The jobs are gone: their runs count.
ClearDrops ==
    /\ Live /\ reader = "gathering"
    /\ finished' = finished \o dying /\ dying' = <<>>
    /\ DropPending
    /\ UNCHANGED <<deltas, finalized, jobs, dispatched, pipePart, pairPart, clears,
                   watchdog, runPart, client, out, voiced>>

\* `cleared` goes out under the lock, hence after a pair that was being sent.
ClearSays ==
    /\ Live /\ reader = "clearing" /\ LockFree
    /\ \/ /\ Send([type |-> "cleared", seq |-> sent, deltas |-> deltas])
          /\ reader' = "said"
       \/ client = "gone" /\ reader' = "SpeakClosed" /\ UNCHANGED out
    /\ UNCHANGED <<textPart, workPart, dying, finished, pipePart, pairPart, refinal,
                   clears, watchdog, runPart, client, voiced>>

ClearEnds ==
    /\ Live /\ reader = "said"
    /\ queue' = IF refinal THEN Append(queue, Final) ELSE queue
    /\ restart' = TRUE
    /\ reader' = "on"
    /\ UNCHANGED <<textPart, finalSeen, jobs, dispatched, dying, finished, inner,
                   supervisor, pairPart, refinal, clears, watchdog, runPart, client, out,
                   voiced>>

ClientLeaves ==
    /\ run \notin {"done", "killed"} /\ client = "here"
    /\ client' = "gone"
    /\ UNCHANGED <<textPart, workPart, dying, finished, pipePart, pairPart, readPart,
                   watchdog, runPart, out, voiced>>

-----------------------------------------------------------------------------
(* _supervise.                                                             *)

Restart ==
    /\ Live /\ supervisor = "on" /\ inner = "cancelled" /\ restart
    /\ inner' = "running" /\ restart' = FALSE
    /\ UNCHANGED <<textPart, workPart, dying, finished, supervisor, pairPart, readPart,
                   watchdog, runPart, client, out, voiced>>

SupervisorEnds ==
    /\ Live /\ supervisor = "on" /\ inner \in Ends
    /\ supervisor' = inner
    /\ UNCHANGED <<textPart, workPart, dying, finished, inner, restart, pairPart,
                   readPart, watchdog, runPart, client, out, voiced>>

-----------------------------------------------------------------------------
(* _pipeline, and the jobs.                                                *)

Piping == Live /\ inner = "running"
OwnPair == pair # NoPair /\ pair.own

\* The head of the loop with js as the jobs: it returns when nothing is left.
Advance(js) ==
    /\ TopUp(js)
    /\ inner' = IF jobs' = <<>> /\ finalSeen' THEN "returned" ELSE "running"

\* With no job it waits on the queue.
Turn ==
    /\ Piping /\ jobs = <<>> /\ (finalSeen \/ queue # <<>>)
    /\ Advance(<<>>)
    /\ UNCHANGED <<textPart, dying, finished, restart, supervisor, pairPart, readPart,
                   watchdog, runPart, client, out, voiced>>

\* _produce of any dispatched job: a chunk, the end, or an exception.
Produce ==
    /\ Live
    /\ \E i \in 1..Len(jobs) :
          /\ jobs[i].end = "no"
          /\ \/ /\ jobs[i].made < MaxAudio
                /\ jobs' = [jobs EXCEPT ![i].made = @ + 1, ![i].ready = @ + 1]
             \/ \E e \in {"end"} \cup (Faults \cap JobFaults) :
                   jobs' = [jobs EXCEPT ![i].end = e]
    /\ UNCHANGED <<textPart, queue, finalSeen, dispatched, dying, finished, pipePart,
                   pairPart, readPart, watchdog, runPart, client, out, voiced>>

\* _send_job takes a chunk and starts a shielded _send_pair, which has the lock
\* before anybody can cancel the pipeline and sends the header.
SendHeader ==
    /\ Piping /\ jobs # <<>> /\ ~OwnPair /\ Head(jobs).ready > 0 /\ LockFree
    /\ jobs' = [jobs EXCEPT ![1].ready = @ - 1]
    /\ seq' = seq + 1
    /\ \/ /\ Send([type |-> "audio.chunk", seq |-> seq'])
          /\ pair' = [seq |-> seq', seg |-> Head(jobs).seg, own |-> TRUE]
          /\ UNCHANGED inner
       \/ client = "gone" /\ inner' = "SpeakClosed" /\ UNCHANGED <<out, pair>>
    /\ UNCHANGED <<textPart, queue, finalSeen, dispatched, dying, finished, restart,
                   supervisor, sent, readPart, watchdog, runPart, client, voiced>>

\* The audio of the chunk.  The pipeline that awaits it then tops up; the pair
\* of a cancelled pipeline, or of a session that is over, just ends.
SendAudio ==
    /\ pair # NoPair
    /\ pair' = NoPair
    /\ \/ /\ Send([type |-> "audio", seq |-> pair.seq, seg |-> pair.seg])
          /\ sent' = seq
          /\ IF pair.own THEN TopUp(jobs) ELSE UNCHANGED workPart
          /\ UNCHANGED inner
       \/ /\ client = "gone"
          /\ inner' = IF pair.own THEN "SpeakClosed" ELSE inner
          /\ UNCHANGED <<out, sent, workPart>>
    /\ UNCHANGED <<textPart, dying, finished, restart, supervisor, seq, readPart,
                   watchdog, runPart, client, voiced>>

JobEnds ==
    /\ Piping /\ jobs # <<>> /\ ~OwnPair
    /\ Head(jobs).ready = 0 /\ Head(jobs).end = "end"
    /\ finished' = Append(finished, Head(jobs).seg)
    /\ voiced' = voiced \cup (Head(jobs).seg.from .. Head(jobs).seg.to)
    /\ Advance(Tail(jobs))
    /\ UNCHANGED <<textPart, dying, restart, supervisor, pairPart, readPart, watchdog,
                   runPart, client, out>>

JobFails ==
    /\ Piping /\ jobs # <<>> /\ ~OwnPair
    /\ Head(jobs).ready = 0 /\ Head(jobs).end \in JobFaults
    /\ inner' = Head(jobs).end
    /\ UNCHANGED <<textPart, workPart, dying, finished, restart, supervisor, pairPart,
                   readPart, watchdog, runPart, client, out, voiced>>

-----------------------------------------------------------------------------
(* _watchdog.                                                              *)

\* take_stale(): a pause of the producer lets all but the last word go.
TakeStale ==
    /\ Live /\ watchdog = "on" /\ ~finalized
    /\ \E c \in (cut + 1)..(deltas - 1) : Cut(c)
    /\ UNCHANGED <<deltas, finalized, finalSeen, jobs, dispatched, dying, finished,
                   pipePart, pairPart, readPart, watchdog, runPart, client, out, voiced>>

\* The idle check spares a session that has segments queued or in work.
WatchdogTrips(limit) ==
    /\ Live /\ watchdog = "on"
    /\ limit = "audio_timeout" => jobs = <<>> /\ queue = <<>>
    /\ watchdog' = limit
    /\ UNCHANGED <<textPart, workPart, dying, finished, pipePart, pairPart, readPart,
                   runPart, client, out, voiced>>

-----------------------------------------------------------------------------
(* run(): the verdict and the teardown.                                    *)

ByeStatus == IF finalized THEN "completed" ELSE "client_disconnect"

\* A verdict is sent without the lock, while the tasks are still alive; with
\* none to send, run() cancels them at once.
Verdict(s, frame) == run' = "decided" /\ status' = s /\ Send(frame) /\ UNCHANGED pair
Silently(s) == run' = "closing" /\ status' = s /\ pair' = Orphaned /\ UNCHANGED out
Error(code) == [type |-> "error", code |-> code]

DecideBySupervisor ==
    /\ run = "running"
    /\ \/ /\ supervisor = "returned"
          /\ \/ Verdict("completed",
                        [type |-> "done", runs |-> finished \o Segments(jobs)])
             \/ client = "gone" /\ Silently(ByeStatus)
       \/ supervisor = "SpeakClosed" /\ Silently(ByeStatus)
       \/ supervisor = "failed" /\ Verdict("provider_error", Error("provider_error"))
       \/ supervisor = "crashed" /\ Verdict("error", Error("internal_error"))
    /\ UNCHANGED <<textPart, workPart, dying, finished, pipePart, seq, sent, readPart,
                   watchdog, usage, client, voiced>>

DecideByOther ==
    /\ run = "running" /\ supervisor = "on"
    /\ \/ reader \in {"returned", "SpeakClosed"} /\ Silently(ByeStatus)
       \/ watchdog # "on" /\ Verdict(watchdog, Error(watchdog))
    /\ UNCHANGED <<textPart, workPart, dying, finished, pipePart, seq, sent, readPart,
                   watchdog, usage, client, voiced>>

Cancelled ==
    /\ run = "running" /\ "cancelled" \in Faults
    /\ Silently(status)
    /\ UNCHANGED <<textPart, workPart, dying, finished, pipePart, seq, sent, readPart,
                   watchdog, usage, client, voiced>>

\* The finally: the tasks are cancelled (a clear stays where it was), then the
\* jobs, then one usage event sums the runs of _finished_runs and _jobs.

Teardown ==
    /\ run \in {"decided", "closing"}
    /\ run' = "done"
    /\ usage' = Append(usage, UsageEvent(status))
    /\ finished' = finished \o Segments(jobs) /\ jobs' = <<>>
    /\ pair' = Orphaned
    /\ UNCHANGED <<textPart, queue, finalSeen, dispatched, dying, pipePart, seq, sent,
                   readPart, watchdog, status, client, out, voiced>>

\* Cancelled where no finally is left to emit the usage event.
Killed ==
    /\ run \in {"opening", "decided", "closing"} /\ "cancelled" \in Faults
    /\ run' = "killed"
    /\ pair' = Orphaned
    /\ UNCHANGED <<textPart, workPart, dying, finished, pipePart, seq, sent, readPart,
                   watchdog, status, usage, client, out, voiced>>

-----------------------------------------------------------------------------
Clear == ReadClear \/ ClearTakesJobs \/ ClearDrops \/ ClearSays \/ ClearEnds
Reader == ReadText \/ ReadFinalize \/ ReadDisconnect \/ Clear
Supervisor == Restart \/ SupervisorEnds
Pipeline == Turn \/ SendHeader \/ JobEnds \/ JobFails
Decide == DecideBySupervisor \/ DecideByOther

Next ==
    \/ Open \/ OpenFails
    \/ Reader \/ ClientLeaves
    \/ Supervisor \/ Pipeline \/ Produce \/ SendAudio
    \/ TakeStale \/ \E limit \in Trips : WatchdogTrips(limit)
    \/ Decide \/ Cancelled \/ Teardown \/ Killed

Spec == Init /\ [][Next]_vars

\* The event loop runs every ready task and vendors answer; the client may do
\* anything or nothing, but a clear that was begun is the reader's to end.
FairSpec ==
    /\ Spec
    /\ WF_vars(Open \/ OpenFails)
    /\ WF_vars(ClearTakesJobs \/ ClearDrops \/ ClearSays \/ ClearEnds)
    /\ WF_vars(Supervisor)
    /\ WF_vars(Pipeline)
    /\ WF_vars(Produce)
    /\ WF_vars(SendAudio)
    /\ WF_vars(Decide)
    /\ WF_vars(Teardown)

-----------------------------------------------------------------------------
(* Properties.                                                             *)

Frames(type) == {i \in 1..Len(out) : out[i].type = type}
RangeOf(s) == {s[i] : i \in 1..Len(s)}

Statuses == {"completed", "client_disconnect", "provider_error", "error"} \cup Limits
Frame ==
    [type : {"session.open"}]
    \cup [type : {"audio.chunk"}, seq : Nat]
    \cup [type : {"audio"}, seq : Nat, seg : Segment]
    \cup [type : {"cleared"}, seq : Nat, deltas : Nat]
    \cup [type : {"done"}, runs : Seq(Segment)]
    \cup [type : {"error"}, code : {"provider_error", "internal_error"} \cup Limits]
UsageRecord == [runs : Seq(Segment), status : Statuses]

TypeOK ==
    /\ deltas \in 0..MaxDeltas /\ cut \in 0..deltas /\ finalized \in BOOLEAN
    /\ queue \in Seq(Segment \cup {Final}) /\ finalSeen \in BOOLEAN
    /\ jobs \in Seq(Job) /\ dying \in Seq(Segment) /\ finished \in Seq(Segment)
    /\ dispatched \in Seq(Segment) /\ voiced \subseteq 1..MaxDeltas
    /\ inner \in {"running", "cancelling", "cancelled"} \cup Ends /\ restart \in BOOLEAN
    /\ supervisor \in {"on"} \cup Ends
    /\ pair \in Pair \cup {NoPair} /\ seq \in Nat /\ sent \in 0..seq
    /\ reader \in {"on", "cancelling", "gathering", "clearing", "said", "returned",
                   "SpeakClosed"}
    /\ refinal \in BOOLEAN /\ clears \in 0..MaxClears
    /\ watchdog \in {"on"} \cup Limits
    /\ run \in {"opening", "running", "decided", "closing", "done", "killed"}
    /\ status \in Statuses /\ client \in {"here", "gone"}
    /\ out \in Seq(Frame) /\ usage \in Seq(UsageRecord)

\* Vendors are asked ahead of the audio that is being sent, but never by more
\* than PREFETCH segments, across finalize and barge-ins (tts/session.py:261-270).
BoundedPrefetch == Len(jobs) <= PREFETCH + 1

\* However far jobs run ahead and whatever a barge-in drops, audio comes in the
\* order of the text, no text is voiced by two segments, and chunk numbers only
\* grow (tts/session.py:14-16, 258-259).
AudioInTextOrder ==
    \A i, j \in Frames("audio") : i < j =>
        /\ out[i].seq < out[j].seq
        /\ out[i].seg = out[j].seg \/ out[i].seg.to < out[j].seg.from

\* No barge-in splits a chunk's header h from its audio a: nothing but an error
\* can come between the two (tts/session.py:297-302).
Together(h, a) ==
    /\ h < a /\ out[h].type = "audio.chunk" /\ out[a].type = "audio"
    /\ out[a].seq = out[h].seq
    /\ \A i \in (h + 1)..(a - 1) : out[i].type = "error"
Hanging(h) == \A i \in (h + 1)..Len(out) : out[i].type = "error"
PairsSurviveClear ==
    /\ \A a \in Frames("audio") : \E h \in Frames("audio.chunk") : Together(h, a)
    /\ \A h \in Frames("audio.chunk") :
          Hanging(h) \/ \E a \in Frames("audio") : Together(h, a)

\* `cleared` is a barrier: "chunks with seq <= last_seq are stale, chunks after
\* belong to post-clear synthesis" (protocol/events.py:126).
ClearedIsABarrier ==
    \A c \in Frames("cleared") : \A i \in Frames("audio") :
        IF i < c THEN out[i].seq <= out[c].seq
        ELSE out[i].seq > out[c].seq /\ out[i].seg.from > out[c].deltas

\* When the client is told done, all its text was voiced to the end, but for
\* what its own barge-ins discarded: the tail that finalize flushes, stale cuts
\* and a Final that outlives a clear included (tts/session.py:195-198, 214-224).
DoneMeansAllVoiced ==
    Frames("done") # {} =>
        \E upto \in 0..deltas :
            /\ (upto + 1)..deltas \subseteq voiced
            /\ upto = 0 \/ \E c \in Frames("cleared") : out[c].deltas = upto

\* The bill sums every segment that was dispatched, once each, whether it was
\* sent, failed or was discarded; only jobs that a clear is cancelling when the
\* session ends are missing (tts/session.py:259, 323-331, 373-374).
EachRunIsCountedOnce ==
    \A i \in 1..Len(usage) :
        LET billed == usage[i].runs \o dying
        IN  /\ Len(billed) = Len(dispatched)
            /\ RangeOf(billed) = RangeOf(dispatched)

\* A client that finalizes gets its session over with: no barge-in, restart of
\* the pipeline or failing job leaves it waiting.
FinalizedEnds == finalized ~> run \in {"done", "killed"}

-----------------------------------------------------------------------------
(* What the documentation says of the program and the code does not do.    *)

\* "chunks with seq <= last_seq are stale, chunks after belong to post-clear
\* synthesis" (protocol/events.py:126): after three barge-ins in a row too.
AudioAfterClearedIsNew ==
    \A c \in Frames("cleared") : \A i \in Frames("audio") :
        c < i => out[i].seg.from > out[c].deltas
=============================================================================
