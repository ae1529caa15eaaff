# A verification project for the SpeechRouter gateway

TLA+ modules, TLC configurations and TLAPS proofs about the gateway of this
repository (`gateway/speechrouter_gateway`, Python, asyncio). Paths below are
relative to that directory unless they start at the repository's root.

Contents: 1 inventory, 2 what is modelled and how it corresponds to the code,
3 the runs, 4 the bounds, 5 fairness, 6 proofs, 7 disagreements between code and
documentation, 8 what is not modelled, 9 plan.

## 1. Inventory

The gateway is one asyncio process per replica. Every streaming client has a
handler coroutine, which owns a *session*; sessions share nothing inside the
process but the concurrency guard. Everything else they share lives in Redis
(keys, balances, the usage stream).

| Part | State it keeps | Operations | Talks to |
|---|---|---|---|
| Audio ring, `audio/ring.py` | deque of timed chunks, next index, clock, closed, a condition variable | `append` (with trimming), `close`, `replay_start`, `iter_from` | filled by the session's reader, iterated by the feeder |
| Speech-to-text session, `router/session.py` | three tasks (provider loop with feeder and drain, reader, watchdog), gate horizons, switch count, status | `run`, failover, `_feed`, `_drain`/`_normalize`, `_read_client`, `_watchdog`, `_emit_usage` | ring, provider adapters, client socket, emitter |
| Listen contract, `protocol/events.py`, `packages/spec/` | none: the frames | opened, finals, endpoints, switches, one of done/error | read by the SDKs |
| Admission, `router/limits.py` with `api/*_ws.py` | live sessions per scope | `acquire`, `release`, the handlers' life around a session | every streaming handler |
| Text-to-speech session, `tts/session.py`, `tts/segmenter.py`, `tts/runner.py` | text, segment queue, jobs, pipeline task and its supervisor, send lock, restart event | `run`, `_read_client`, `_clear`, `_supervise`, `_pipeline`, `_produce`, `_watchdog`, `_finish` | vendors that take whole texts, client socket, emitter |
| Native text-to-speech session, `tts/native_session.py` with `providers/xai/tts.py`, `providers/deepgram/tts.py` | clearing flag, last sequence number, the vendor's stream with its own drop flag | `run`, `_read_client`, `_clear` (acknowledgement with a timeout), `_pump`, `_watchdog` | vendors with an incremental socket, client socket, emitter |
| Live session, `live/`, `api/realtime_ws.py` | meter totals, what was emitted, sequence of checkpoints, the setup seen | admission, dial, two pumps, watchdog, checkpoint and final usage | speech-to-speech vendors, the balance in Redis |
| Provider adapters, `providers/*/adapter.py` | one socket each, the state of its parser, Speechmatics' window of acknowledgements | `connect`, `send_audio`, `events`, `finish`, `close`, keepalive loops | vendors; the session's feeder and drain |
| Rotating adapters, `providers/gemini/adapter.py`, `providers/google/adapter.py` | several upstreams in a row, a buffer or a queue between them | the same, and the rotation | vendors; the session |
| Audio sink, `audio/s3_sink.py` | an upload per session: buffer, id, part number, parts | `on_chunk`, `on_session_end` | S3; the session's reader |
| Resolver and catalog, `router/resolver.py`, every adapter's `CAPABILITIES` | none | request to lane of attempts; format, rate, conversion | sessions, endpoints |
| Batch transcription, `api/transcriptions.py`, `providers/*/batch.py` | one request; files and jobs at the vendor | checks, upload, polling, clean-up, usage event | vendors, Redis, emitter |
| Speech endpoint, `api/speech.py`, `tts/runner.py`, `providers/http_tts.py` | the job: run, status, usage | handler, response stream, background task | vendors, client, emitter |
| Audio arithmetic, `audio/pcm_codec.py`, `audio/mp3_frames.py` | rest of a chunk, filter history, phase | `feed`, `flush` | `TTSRun`, the native session |
| Segmenter, `tts/segmenter.py` | pending text | `push`, `take_stale`, `flush`, `clear` | the speak session |
| Keys, balances, tokens, `auth/` | Redis | look-ups at admission, balance every 30 s | handlers, watchdogs |
| Dialects, SDKs, docs, deployment | none worth a state machine here (section 8) | | |

What is hard here, and what makes each part correct:

* **Ring.** One writer, several iterations, a window that trims. No wakeup may be
  lost, a reader may jump over expired audio only, a closed ring must drain.
* **Speech-to-text session.** A failover replays audio: finals must not repeat,
  times must stay on the session's clock, no audio may be lost, and of the many
  ways a session can end each must tell the client one verdict and bill once.
  Several tasks run between every two awaits of `run()`, also while the verdict
  is being sent and during cancellation.
* **Admission.** Handlers interleave between the check and the session; slots
  must neither leak nor be given twice.
* **Text-to-speech session.** A barge-in (`clear`) cancels the pipeline between
  any two awaits, in the middle of a header/audio pair too; text order, the
  `cleared` barrier, the finalize that must survive it, and the bill depend on it.
* **Native speak session.** The acknowledgement of a clear may come while the
  pump is between a header and its audio, or after the timeout, or never because
  the vendor hangs up; a finalize may follow a clear that is not answered yet.
* **Live session.** Three tasks, two sockets, either of which may close at any time,
  and a checkpoint that may still be written when the session ends: every second
  and token has to be in exactly one event.
* **Adapters.** Every vendor has its own way of correcting, repeating, closing
  late or not at all; the session relies on one contract (`providers/base.py`).
* **Rotation.** The socket is replaced while audio arrives and finish() may come.
* **Sink.** Any call to S3 may fail with or without effect, at any place of the
  upload, and the reader may be cancelled inside one.
* **Batch and speech requests.** Each may fail at every call; the client may leave
  before, between and during; the vendor must be let go, its artifacts deleted, and
  one usage event written that agrees with the answer.
* **Chunked arithmetic and segmenter.** The network cuts anywhere.

`PROJECT.json` lists the hazards at their lines, with the properties that cover
them. Hazards it has no room for: the watchdog's cut of stale text beside a
finalize (`tts/session.py:342`, in `DoneMeansAllVoiced`); a balance that is not an
integer raises outside the try (`router/session.py:342`); a cancellation while Gemini
sets a new socket up leaves the socket open (`providers/gemini/adapter.py:319`); a
WAV header cut by the network is played (`providers/http_tts.py:222`); one key of the
customer's in a lane sets the flag for all (`auth/byok.py:75`).

## 2. The modules

A step of a model is what one asyncio task does between two awaits that may
suspend it: the event loop runs nothing else in between. Awaits that cannot
suspend (an uncontended lock, a `gather` of nothing) do not end a step. Text,
bytes, prices and log lines are left out; audio time is counted in ticks. The
client may leave at any moment, after which a send either vanishes or raises.

A definition that a mutant in `PROJECT.json` names as a substitute (`TrimOne`,
`LockIgnored`, ...) stands just before the definition it would replace and is
used nowhere else: it is a plausible bug that the property must notice.

| Module | Models | Notes |
|---|---|---|
| `AudioRing` | `audio/ring.py` | `AppendChunk`, `Close`, and the reader's `Iterate`/`Yield`/`Wait`/`Drain`; `log` is a history of everything ever appended, which the window is compared with |
| `STTSession` | `router/session.py` | composes the ring (`Ring == INSTANCE AudioRing`) with provider loop, feeder, drain, reader, watchdog, verdict, teardown |
| `ListenProtocol` | `protocol/events.py`, `packages/spec/events.schema.json` | abstract: only frames and the usage record; `STTSession` implements it (`KeepsProtocol`) |
| `Admission` | `router/limits.py`, `api/listen_ws.py`, `api/speak_ws.py`, `api/realtime_ws.py` | many handlers around opaque sessions |
| `SpeakSession` | `tts/session.py`, `tts/segmenter.py` | reader, clear, supervisor, pipeline, jobs, lock, watchdog, verdict, teardown |
| `NativeSpeak` | `tts/native_session.py`, the streams of xAI and Flux | reader, pump, watchdog, the stream's receiver and the vendor behind it |
| `LiveSession` | `live/proxy.py`, `live/meter.py`, `live/dialects.py`, `api/realtime_ws.py` | from the admission's checks to the last event; both dialects |
| `StreamContract` | `providers/base.py` | abstract: what a session relies on in an adapter, that it ends included |
| `VendorMessages` | the parse functions of fourteen vendors' `adapter.py`, `flux.py`, `turns.py` | operators only: message and parser state to events, next state, what the loop does |
| `StreamAdapter` | the stream classes of the same files, `dispatch.py`, `wsconnect.py` | one adapter, chosen at the start, with the vendor behind it; implements `StreamContract` |
| `RotatingStream` | `providers/gemini/adapter.py`, `providers/google/adapter.py` | several upstreams under one adapter; implements `StreamContract` |
| `AudioSink` | `audio/s3_sink.py`, and the session's end and cancellation | each S3 call with its outcomes |
| `BatchVendors`, `BatchRequest` | `providers/*/batch.py`, `openai_compat.py`; `api/transcriptions.py` | a vendor is a record of its calls and of what it maps; one request over it |
| `SpeechRequest` | `api/speech.py`, `tts/runner.py`, `providers/http_tts.py` and the engines | handler, generator, background task and vendor |
| `AudioStreams` | `audio/pcm_codec.py`, `audio/mp3_frames.py`, `providers/mistral/tts.py` | bytes are numbered, chunks are cut anywhere |
| `TextSegments` | `tts/segmenter.py` | characters by class |
| `FormatChoice` | `router/resolver.py`, the `CAPABILITIES` of nineteen `tts.py` | one step: the whole choice |
| `TokenUnits` | `live/meter.py` | one step: a report made into units |
| `GatewayParts` | | composes `Admission`, `AudioSink`, `BatchRequest`, `SpeechRequest`, `FormatChoice` and `TokenUnits` by INSTANCE: they share no state, so a behaviour is one of one part, chosen at the start, while the others rest; states what is asked of them together (`NothingIsHeldForGood`, `StoredAsReceived`, `EveryCallIsBilledOnce`, `AnswersAreTrue`) |
| `MCGateway` | | constants for TLC, and beside those parts `AudioStreams` and `TextSegments`, whose bit operations and recursion are TLC's alone |
| `AudioRingProofs`, `STTSessionProofs`, `SpeakSessionProofs`, `LiveSessionProofs`, `NativeSpeakProofs`, `StreamAdapterProofs`, `RotatingStreamProofs`, `GatewayProofs` | | theorems, section 6 |
| `MC*` | | constants for TLC |

How state and actions correspond:

* **AudioRing.** `chunks` is `_chunks`, `nextIdx` `_next_idx`, `clock` `_clock`;
  `pc`/`pos` are an `iter_from` generator: `reading` holds the condition's lock
  once per step, `waiting` is inside `Condition.wait()`, `NotifyAll` wakes them.
* **STTSession.** `loop` says where `_provider_loop` stands (`next`, `connecting`,
  `streaming`, or how it ended); the feeder is the ring's reader with the number
  of the attempt; `heard` is the session second behind each second the adapter was
  fed, so `start`/`end` of a final (adapter time plus `offset`) can be compared
  with what it is really about. `EndStream` is the `finally` that cancels the
  TaskGroup and closes the adapter. `run` goes `opening`, `running`, `decided` (the
  verdict is being sent while the tasks still run) or `closing`, `done`; or `killed`
  when a cancellation hits a place without a `finally` to bill in.
* **Admission.** `stage` says where each handler stands; `counts` is `_counts`.
* **SpeakSession.** `jobs`, `queue`, `finished`, `finalSeen`, `seq`, `sent` are the
  fields of that name; `inner`, `restart` and `supervisor` the pipeline task, the
  event and the task that restarts it; `pair` is the shielded `_send_pair` that
  holds the lock, `own` whether a pipeline still awaits it; `reader` also says where
  `_clear` stands; `dying` are the jobs `_cancel_jobs` has taken out and awaits.
* **NativeSpeak.** `clearing`, `finalized`, `seq`, `sent`, `dropping`, `cleared`,
  `finishing`, `offset` are the fields of the session and of the stream; `reader` also
  says where `_clear` stands, `pump` where a pair is; `clears` is a history.
* **LiveSession.** `phase` is where `serve_live()` or `run()` is, `up`, `down`, `dog` the
  three tasks; `totals`, `emitted`, `seq` the fields; `writing` says whose events are being
  written (a checkpoint's and the final one's may overlap), `event` what these two
  say, `written` what the events already out add up to.
* **StreamAdapter, RotatingStream.** `feeder` is who calls `send_audio` and `finish`,
  `reader` who iterates `events()`; `st` (respectively `pending`, `up`, `rotating`) is
  what the adapter keeps, `vd` what its vendor knows. A text is the set of the chunks
  it transcribes, so that a lost, repeated or misplaced word can be told. What a
  vendor may say is external: it follows the protocol facts the adapter is written for.
* **AudioSink.** `buffer`, `id`, `number`, `parts` are `_SessionUpload`; `uploads`, `stored`
  and `object` are S3's side, which an answer may fail to report.
* **BatchRequest, SpeechRequest.** `pc` respectively `handler`, `gen`, `run`, `finisher`
  say where the request is; `usage` and `events` are what was emitted.
* **AudioStreams, TextSegments.** The fields of the classes, over numbered bytes and
  characters: an output says which inputs it was made of.

## 3. The runs

| Run | Question | Result |
|---|---|---|
| `ring` | two iterations, a writer, arrival gaps below, at and above the cap: window, wakeups, skips, drain, and termination on a closed ring | holds |
| `stt_failover` | a ring that keeps all audio: is nothing lost, are labels true, is only repeated audio suppressed, do client and bill agree, is the ring used as specified, and does a finalized session end | holds |
| `stt_wild` | a ring smaller than the audio, three models, cancellation, mixed adapters: finals advance, one usage event, one upstream, and the contract | holds |
| `speak` | text order, completeness and billing with one barge-in, failing vendors, idleness, cancellation | holds |
| `speak_barge_in` | two barge-ins: barrier, whole pairs, and a finalized session ends | holds |
| `native` | both native streams, timeouts of clears, a vendor that hangs up: is a barge-in clean, is every clear and finalize answered | holds |
| `live` | both dialects, a checkpoint that overlaps the end, a balance debited late: do the events add up, does a session end when it must and only then | holds |
| `vendors` | seventeen dialects: are words told once and in place, is the contract kept | holds |
| `rotation` | Gemini and Google: does the session notice a rotation, are words told once and in the order of the audio | holds |
| `gateway` | each part of `MCGateway`: the cap, what is held, stored, billed, answered, cut, and that everything ends | holds |
| `stt_trimmed_replay` | does the offset keep the timeline seamless when audio is trimmed during a connect? | violated |
| `format_native` | is an adapter asked only for what it produces itself? | violated |

The configurations switch deadlock checking off because sessions end and clients
stop sending; the liveness properties say that they end well.

Where a property is a conjunction (`ClientAndBillAgree`, `BargeInIsClean`,
`BillAddsUp`, `WordsAreKept`, `RotationIsSeamless`, and those of `GatewayParts` and
`MCGateway`), every
conjunct is a definition of its module with a comment of its own, and
`PROJECT.json` has a mutant of the code for nearly every one of them.

The properties, with the thought behind each, are commented in the modules. The
ones that carry most:

* `SuppressedWasDelivered` and `FinalsAdvance` are the two sides of the dedup
  gate: it drops nothing that the client does not have, and lets no end pass
  that is not new.
* `DoneMeansAllHeard` relates the client's last frame to the ring, through any
  failovers; `LabelsAreTrue` relates a label to the audio behind it.
* `KeepsProtocol` is the refinement: in particular nothing follows a `done`, and
  the usage record agrees with it, although tasks still run when it is sent.
* `ClearedIsABarrier` is what a client relies on to discard audio;
  `DoneMeansAllVoiced` says that no text gets lost in segmenter, queue and jobs
  across barge-ins; `EachRunIsCountedOnce` that moving jobs between three lists
  neither forgets nor doubles a bill.
* `KeepsContract` is the refinement of `StreamContract` by both adapter modules:
  finals carry words that were fed and not yet final, the stream ends only after
  finish(), and then does end. It is what `STTSession` assumes of an adapter.
* `BillAddsUp`: seconds and tokens are billed once whether a checkpoint comes
  before, inside or after the end, and the client is told the same end.
* `BargeInIsClean`: `cleared` counts every pair before it, none after it is old.
* `EveryCallIsBilledOnce`, `EveryPartEnds`: whichever of handler, generator and
  background task ends a speech request, and at whichever call a batch request
  fails, there is one event, after the last audio, with the units it is priced in.
* `StoredAsReceived` compares the object at S3 with the audio, up to the parts
  whose own upload failed; `CutsLoseNothing` compares outputs with the bytes and
  characters they were made of, for every cut.

## 4. Bounds, and why they are enough

* **Ring** (`MaxSeconds = 2`, gaps 0, 1, 2, 5 with the cap at 2, five chunks, two
  readers). Chunks of zero, half a window and a full window occur; five chunks
  overrun the window twice; two readers is what a failover has at most.
* **stt_failover** (`N = 2`, three one-tick chunks, `MaxSeconds = 3`): the window
  holds everything, which is the assumption under which `DoneMeansAllHeard` and
  `LabelsAreTrue` can hold (section 7). A final can cover a part, all or none of
  the replay.
* **stt_wild** (`N = 3`, two chunks, `MaxSeconds = 1`): the window is overrun; three
  models give two switches, with a model without times and one whose `send_audio`
  raises the raw `ConnectionClosed` between two that are regular.
* **speak** (three deltas, one clear): with `PREFETCH = 1`, as in the code, three
  segments fill the jobs and leave one queued. **speak_barge_in** (two deltas, two
  clears): a second clear may come while the first one's restart is pending.
  A *third* clear is where `ClearedIsABarrier`, `PairsSurviveClear` and
  `DoneMeansAllVoiced` stop being true of the code; that is a disagreement of
  section 7, not an omission of the bound.
* **native** (two texts, two clears, timeouts): a clear may be answered while the
  next is waited for; a text may come between them, one before.
* **live** (credit 2, floor 1, one frame up, two down, one checkpoint besides the
  final event): the credit can run out before, by and after the debit of the
  checkpoint, and the checkpoint may still be written when the session ends.
* **vendors** (two chunks, a window of one, one silence sent by AWS): a correction, a repetition and a late
  final of the first chunk can each meet the second; the window is full.
* **rotation** (three chunks, two rotations, a buffer of one): the buffer overflows in
  a swap, and a second swap follows the first.
* **gateway**: the cap with limit 2, three clients in one scope, two in another; a
  sink with seven chunks, two to a part, and three faults (an upload, a
  retry and the clean-up can all fail); ten batch vendors, audio of 3 s, two
  polls; eight engines of speech with three chunks; streams of 22 bytes in chunks
  of up to 6, decimated by 3 with 5 taps, and every 16-bit sample encoded; texts of
  four characters in deltas of two with segments of 2 to 3; every adapter, format
  and rate of the catalog; reports of one token per modality.

In `AudioStreams` a first chunk has `FirstChunk = 4` bytes or more (section 7), and in
`STTSession` a chunk fits the window where a property needs it.

`MaxChunks`, `MaxDeltas`, `MaxClears` and `MaxAudio` bound what a client or vendor
sends and appear in the guards of those actions alone. `N` is a real parameter.

## 5. Fairness

The event loop runs every task that is ready, hence weak fairness of the tasks'
steps: opening, provider loop, feeder, drain, deciding and teardown in
`STTSession`; reader inside a clear, supervisor, pipeline, the pair being sent,
deciding and teardown in `SpeakSession`; readers in `AudioRing`. Two assumptions
are about others: a connect resolves (the adapters set timeouts), and a provider that was
told the audio is over ends its events (`stt_failover`), respectively a vendor's
stream ends or fails (`Produce` in `speak_barge_in`). Without them only the
watchdog's maximum duration ends a session. The client, the faults, the watchdog's
limits and cancellation have no fairness: they may never happen.

The adapters justify the second assumption: in `StreamAdapter` and `RotatingStream`
the loops and the graces that the code itself bounds are fair, and the vendor is
assumed to settle what it heard and to say goodbye, or to hang up, once finish()
has told it; where an adapter waits with a timeout the vendor need not. In
`NativeSpeak` the vendor reads and voices what it was sent, but the clear's timeout
is not fair: clears are answered without it. In `LiveSession` the pumps, the
writing of events and the cloud's debit are fair, and reading the balance strongly
so, because the watchdog's loop comes back to it every 30 seconds although other
iterations lie between. In `BatchRequest` every call returns or raises (its HTTP
timeouts); in `SpeechRequest` the gateway's tasks run and the vendor's stream goes
on or breaks; in `AudioSink` every call to S3 is answered or fails.

## 6. Proofs

All theorems hold for every value of the constants that satisfies the module's
`ASSUME` (finite scopes of clients, natural bounds, non-empty lane), and are
checked by `tlapm` to the last leaf.

* **AudioRingProofs.** `RingInv` (types, `LogInv`: the history is numbered and
  ordered in time, and the window is exact) is inductive; the heart is
  `TrimRemovesExpiredPrefix`: the `while` loop that pops the head removes exactly
  the expired chunks because starts are ordered. From it follow `WindowIsExact`,
  and with the position of the readers `NoWakeupIsLost`, `NothingIsMissedAtTheEnd`,
  `ReadersSkipOnlyExpired`. `FittingChunksStrandNobody` needs the extra hypothesis
  that no chunk is longer than the window; without it the code strands its reader.
* **STTSessionProofs.** `SessionTypes` (the ring's invariant, the types, and that a
  provider loop at work is at an attempt of the lane) is inductive and gives
  `TypesAreCorrect`. `UsesTheRingAsSpecified` shows each step to be a step of the
  ring or to leave it alone, so the ring's theorems hold inside a session; one of
  them, that a drained iteration means a closed ring (`Drained`), is needed next.
  `ContractInv` adds what the contract rests on: the gate's horizons are not
  behind what was delivered, the lane is walked downwards, verdicts come only from
  `run()`, and a `done` frame freezes the audio (a returned loop has a closed
  ring, hence the clock cannot move). `StepKeepsContract` proves at once that
  it is inductive and that each step is one of `ListenProtocol`:
  `ImplementsTheProtocol`, `UsageIsEmittedOnce`, and from the protocol
  `FinalsOnlyAdvance`.
* **SpeakSessionProofs.** `SpeakInv` (types; a Final is queued last and only by a
  client that has finalized; a pair still awaited belongs to a running session; the
  bound on the jobs) is inductive and gives `SpeakTypes` and `PrefetchIsBounded`.
  What `_top_up` does is said once, in `TopUpEffect`: the first n queued segments
  become the last n jobs. `BillInv` splits what was dispatched into `finished`, `jobs`
  and `dying` until the usage event takes them: `BillIsExact`. Text order alone is
  not inductive: `ChainInv` says that text goes one way, from what the segmenter has
  cut through queue and jobs into what is past (heard, or in the pair being sent,
  which a barge-in may have orphaned), and `HeardInv` that what was heard is before
  that pair; every step but `SendHeader` and `SendAudio` leaves the past alone.
  `AudioKeepsTextOrder` follows.
* **SpeakSessionProofs, barge-ins.** `BargeInKeepsPairs`, `ClearedBars` and
  `DoneIsComplete` are about states with `clears <= 2`: at a third clear the stale
  `_restart` (section 7) makes all three false. Their invariant is
  `BargeInInv`: `TasksInv` says what a clear waits for at each of its awaits (no
  pipeline runs and nothing is in work from the moment pending text was dropped),
  `LockInv` whose the pair is that holds the lock, `PairsInv` that a header without its
  audio is the last frame but for errors, `BarrierInv` that all text on its way is
  later than what any `cleared` discarded (`PendingIsNew`), `VoicedInv` that text let
  go since the last `cleared` is voiced, in a job or queued (`WorkIsKept`).
  `TextMoves` says once what a step may do to that text. The induction is over
  `clears <= 2 => BargeInInv`: since the count only grows, a step that ends in a state
  with two began in one with at most two.

* **STTSessionProofs, continued.** `UpstreamInv` (what is open belongs to the
  attempt at work) gives `NeverTwoUpstreams`. `ClientAndBillTellOneStory` needs to know
  who may say what to whom: `ToldInv` (the last frame is the verdict that `status`
  records), `CountInv` (a client that is there has been told every switch) and that only
  a client that left ends a session without a verdict. The last three theorems
  have the hypothesis `FitsTheRing`, that the clock has not passed `MaxSeconds`: beyond
  it `stt_trimmed_replay` shows that labels are wrong, so they would be false without
  it. Their invariant `HeardInv` says that every
  provider has heard the session from its first second up to the chunk its feeder
  asks for next, all of it once its stream returned; `SaidInv` that what is before
  the gate's horizon, and what the provider has covered, has reached the client.
* **LiveSessionProofs.** `LiveInv`. `WritingInv` says that at most one checkpoint is being
  written and only while its watchdog waits or was cancelled; `BilledInv` that `written`
  and the events in `writing` add up to `emitted`, for seconds, tokens and transcription
  alike; `BalanceInv` that no balance read is behind `emitted`, which is
  why `OnlyTheExhaustedAreCut`, an action property; `VerdictInv` that a pump that
  blames the client is right; `ModelInv` that the vendor's one setup precedes everything
  else. Together `LiveBillAddsUp`.
* **NativeSpeakProofs.** A text number is in exactly one place of a pipe (sent to the
  vendor, to be voiced, on its way back, said), and `OrderInv` says that the pipe is in
  order. `FramesInv` relates the frames to `seq` and `sent`, `BarrierInv` to the clears;
  `AnswerInv` and `DropsInv` say what a `dropping` stream may still discard and that
  an answer that comes late is not taken for a later clear's; `EndInv` and `PendingInv`
  that the vendor ends last and that all of it was voiced. `NativeInv` is inductive and
  gives all six conjuncts of `NativeBargeInIsClean`, for any number of barge-ins.
* **StreamAdapterProofs.** One invariant for the seventeen dialects, `AdapterInv`. What has
  to be induced over is not the adapter's state but the messages between it and the
  vendor, and each dialect keeps its words by a reason of its own, so the proof gives
  both sides a common language. A *view* is what an adapter holds between two messages: up
  to where it has made words final, shown more, ended a turn. `Knows` says what the
  parser's state of each dialect is in a given view, and `Tells(v, m, g, h)` that message m
  of vendor v takes it from view g to view h and yields no more than that: a lemma for
  each kind of message and dialect, against the parse functions alone. `StoryInv` says
  that the messages queued `Lead`, one after the other, from the adapter's view to one
  that agrees with what the vendor has said and been told (`AtWork`); a step of the vendor
  adds to the end of that chain (`...Told`), a step of the reader takes its head,
  and a closed socket cuts it; and that what was yielded is what the adapter's view says
  (`UpTo`): finals cover exactly the words up to it, each once. `ToldInv` is what
  stays true of the events when the reader has ended. `ControlTypes`, `AudioInv`, `VendorInv`, `StageInv` and
  `WindowInv` are the types, what was heard against what was sent, what a vendor may
  still say, where feeder, reader and socket stand, and Speechmatics' window.
  `EveryAdapterKeepsTheWords` follows, and, as each step is one of `StreamContract` or a
  stutter, `EveryAdapterKeepsTheContract`. Both have the hypothesis `NoTermination`: where
  AssemblyAI is among the vendors nobody says the word that its adapter takes for its
  vendor's goodbye. Without it `events()` ends early and both are false (section 7); the
  run `vendors` satisfies it.
* **RotatingStreamProofs.** `Shape` says which upstreams are open in which place
  of the reader; `OrderInv` that what upstreams have heard and what is pending is in
  order, each chunk once (`HearMore` is the step all sending actions share); `LossInv`
  that a chunk is heard, pending or was dropped by the cap; `TailInv` that an upstream is
  left only after what it had heard is final; `TimesInv` that times are within the words
  they belong to. `WordsInv` adds that finals come in the order of the audio, and that
  what is still to come is later. `RotatingInv` and `WordsInv` give
  `EveryRotationIsSeamless`, and with `StageInv`
  `RotationKeepsTheContract`: initial states map to initial states and each step of
  an adapter is one of `StreamContract` or a stutter (`ContractStep`).
* **GatewayProofs.** `PartsInv` is the conjunction of one inductive invariant per part;
  `StepOfAPart` says that a step is a step of one part while the others stand still,
  so each part's invariant needs only its own steps. It gives `PartsAreTyped`,
  `WhatIsTakenIsGivenBack`, `TheObjectIsTheAudio`, `WhatIsDoneIsBilledOnce` and
  `ClientsAreToldTheTruth`. The parts:
  * `AdmissionInv`: the cap alone is not inductive, so `CountInv` says that the counts are
    never below the live sessions nor above the limit (below would admit too many; above
    is where the leak shows). `NoScopeExceedsTheCap` follows. `ListenSlotsAreExact`: where
    nobody uses `/v1/speak` the count is exactly the number of live sessions. With
    `/v1/speak` only the bounds hold.
  * `SinkInv`: what is in the buffer and in the part being uploaded are the chunks
    given last (`SinkHeld`); the parts that S3 acknowledged, one after the other, are
    all the chunks before these but the lost ones (`SinkStored`). `AllButTheLost` is
    that sequence, and `OneMorePart` and `OneLostPart` say what an answered and a failed
    upload make of it, whatever the chunks; `SinkUploads` follows the one upload that may
    be open at S3 from its start to its completion or abort, `SinkObject` what a
    completion stored, `SinkRoom` the bound on the buffer.
  * `BatchInv`: a file or job at a vendor is one whose name the request knows, or one
    whose creation or deletion failed with an unknown effect (`BatchLeft`); an event is
    written at most once and agrees with how the request came out (`BatchEvent`);
    `CallsOfAdapters` says of all ten adapters that a request goes only through its
    adapter's calls. `EndCoversTheWords`: the duration that is billed ends no earlier
    than any word that is answered.
  * `SpeechInv`: which of handler, generator and background task will write the event
    (`SpeechFinish`) decides that it is written once, although any of them may end
    first (`SpeechEvent`); the audio pulled is behind the audio made (`SpeechChunksInv`).
  * `ChoiceInv` says that the format chosen is one the adapter lists, or pcm at a rate
    the gateway converts from, for all nineteen adapters and every rate asked for;
    `UnitsInv` that the units of a report sum up to its tokens (`SumsUp`), modality by
    modality.

  `PartsAssumption` asks of a batch vendor that it gives finitely many words, none of
  which ends after the audio or after the duration it reports itself (`PayloadOK`).

Only model-checked: liveness (`ClosedRingDrains`, `FinalizedEnds`, `ClientIsAnswered`,
`EndsWhenItMust`, `EveryPartEnds`, the `FinishedEnds` of both `KeepsContract`), which under
fairness is out of this prover's reach; and `CutsLoseNothing`, because G.711 is bit
operations and the segmenter's pieces are defined by recursion over the text.
`BoundedPrefetch`, `BehindMeansReadable`, `CountsAreHolders` and
`CutsOnlyTheExhausted` are proved whether or not a run lists them; that endpoints
and switches only advance is part of `KeepsProtocol`, which is proved.

## 7. Disagreements between code and documentation

Two are runs, with the quoted lines in `PROJECT.json`:

1. The replay offset is read before `connect()` is awaited; if the chunk it names
   is trimmed meanwhile, all later times are early (`stt_trimmed_replay`).
2. G.711 at an adapter's own pcm rate is asked of the adapter itself, which lists
   it at 8 kHz only (`format_native`).

The others are definitions, most in a last section of their module, that say
what a document, a docstring or a comment promises. TLC refutes each: name it as
the invariant of a configuration of the module with the constants given.

| Property | Constants beyond those of its run | What the code does |
|---|---|---|
| `STTSession!NoSecondIsFinalTwice` | those of `stt_failover` | the gate compares ends only, so a replayed final that starts inside delivered audio and ends after it repeats audio (`packages/spec/events.schema.json:75`) |
| `STTSession!DeadPrimaryIsReplaced` | those of `stt_failover` | `ConnectionClosed` raised by `send_audio` of the Deepgram and Soniox adapters is no `ProviderStreamError`: `internal_error`, with a fallback untried (`README.md:34-36`) |
| `Admission!NoSlotLeaks` | `Limit = 1` | a speak handler that fails between `acquire` and its `try` keeps its slot (`router/limits.py:5-6`) |
| `SpeakSession!AudioAfterClearedIsNew` | those of `speak_barge_in`, `MaxClears = 3` | `_restart` stays set after a quick second barge-in; the third then voices text it is about to discard (`protocol/events.py:126`), and even `done` may come between a header and its audio (`PairsSurviveClear`) |
| `NativeSpeak!AudioAfterClearedIsNew` | those of `native` | an acknowledgement that comes after its timeout is taken for that of the next clear (`TTSStream.clear()` in `providers/base.py`) |
| `LiveSession!TranscriptionIsBilled` | those of `live` | seconds transcribed before a `session.update` that switches it off are not billed (docstring of `live/proxy.py`) |
| `RotatingStream!LastWordsAreSaid` | those of `rotation` | a finish() inside a rotation may lose the words of the buffered audio (comments of `_rotate`) |
| `StreamAdapter!EndsOnlyWhenFinished` | those of `vendors`, `Termination <- Second` | a word list that holds `"Termination"` ends AssemblyAI's `events()` before finish() (`providers/assemblyai/adapter.py:211`, `providers/base.py:116-120`) |
| `StreamAdapter!LostConnectionFailsOver` | those of `vendors` | AssemblyAI's codes to fail over for leave 1006 out: a connection the network dropped ends the session (`README.md:34-36`) |
| `StreamAdapter!NoSocketOutlivesItsAttempt` | those of `vendors` | an adapter whose `connect()` fails after the dial is not closed (`router/session.py:186-191`); only some close the socket themselves |
| `StreamAdapter!TimesAreOfTheAudio` | those of `vendors` | the silence that keeps an AWS session alive moves all later times (`providers/aws/adapter.py:237-252`) |
| `StreamAdapter!CleanEndMeansFlushed` | those of `vendors` | a reset after finish() counts as a clean end in some adapters (`providers/deepgram/adapter.py:212`) |
| `AudioSink!StoredExactlyAsReceived` | those of `gateway` | a part whose upload failed is left out of the object (`audio/s3_sink.py:9`) |
| `AudioStreams!OutputsAreCentred` | those of `gateway`, with `FirstChunk <- 1` in `MCGateway` | a first chunk shorter than half the filter shifts the output (`audio/pcm_codec.py:14-15`) |

Seen while modelling, followed by the models, but without a run of their own:
a chunk longer than the window strands a reader of a closed ring
(`audio/ring.py:68`; the runs keep to chunks that fit); a client that
overruns the ring by sending a file faster than realtime is told `done` all the
same (`packages/spec/README.md:63-64`); `all_providers_failed` is sent only if a
switch was counted (`router/session.py:156`); the usage event names the primary
whatever model served (`router/session.py:394`); a switch that cannot be announced
leaves its upstream open (`router/session.py:194`), which is why
`AtMostOneUpstream` does not say none at the end; a run cancelled while it opens
or inside its `finally` emits no usage event (the `killed` state, which
`UsageExactlyOnce` leaves out); jobs that a clear is awaiting when a speak session
ends are not billed (`tts/session.py:323`, the `dying` of `EachRunIsCountedOnce`);
an error frame may split a header from its audio (`tts/session.py:423`).

Also: Gemini's cached image tokens are in no unit (`live/meter.py:292`, excepted by
`EveryTokenIsBilledOnce`); a segment may be shorter than `min_chars` after a forced
cut or a strip (`tts/segmenter.py:10`); a vendor's 200 without audio is answered as
completed (`api/speech.py`); the sink's last calls are awaited before the usage event,
so a cancellation there loses the event (`router/session.py:173`).

## 8. What is not modelled

Inside the modelled parts: interim transcripts and the `speech_started` gate of
the session (no state depends on them), the arithmetic of prices, the audio clock
of speak chunks, encodings, wording, words' speakers and languages, S3's
signatures, response formats, log and alert output. `STTSession` and `SpeakSession`
keep their watchdog's credit limit as a fault that may come; the comparison
itself is in `LiveSession`, where checkpoints and debits make it hard.

Not modelled:

* **Credits and blocking.** The balance is kept and organisations are blocked by
  another service that is not in the repository; what the gateway does with the
  answers is in the sessions and requests.
* **Keys and tokens.** One read or one write of Redis per request, with Redis' own
  expiry; hashing and formats.
* **Deepgram dialect.** `api/dg_compat.py` renames fields of the same frames.
* **Emitters.** One XADD or one line per event.
* **Application, deployment, documentation, probes.** No behaviour of their own.
* **Client SDKs.** They run on the other side of the socket; `ListenProtocol` is the
  contract they rely on.

## 9. Plan

Modelled and checked: every part of section 1 but those of section 8. Proved: every
safety property the passing runs check, but `CutsLoseNothing`. Left:

1. The walk over mp3 frames and the decimation in `AudioStreams`, with the folds of the
   community modules in place of recursion, so that their part of `CutsLoseNothing` can
   be stated in a module with theorems.
2. The times of finals per dialect: `TimesAreOfTheAudio` is false for AWS once silence was
   sent; for the other dialects the views of `StreamAdapterProofs` carry what a proof needs.
3. Liveness stays with TLC.
