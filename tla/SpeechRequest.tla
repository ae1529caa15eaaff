------------------------------ MODULE SpeechRequest ------------------------------
(***************************************************************************)
(* One POST /v1/audio/speech (api/speech.py) over an HTTP text-to-speech   *)
(* vendor: the checks, _SpeechJob with its generator rest(), TTSRun        *)
(* (tts/runner.py), the adapter's synthesize() (providers/http_tts.py and  *)
(* the adapters with an engine of their own), and the client that reads or *)
(* goes away.                                                              *)
(*                                                                         *)
(* Three parties may end the job: the handler when the first chunk fails,  *)
(* the finally of rest(), and the background task that runs when the       *)
(* response is over; all call finish(), and the first of them does the     *)
(* work while the others return at once.  Starlette iterates rest() and    *)
(* cancels it when the client goes: before it was started, in the middle   *)
(* of a send (the generator stays suspended where it yielded), or while it *)
(* waits for the vendor (CancelledError is raised inside it).              *)
(*                                                                         *)
(* Audio chunks are numbered; the converter may hold a chunk back and give *)
(* it with a later one.  Of the usage it matters whether characters are    *)
(* those typed or the vendor's own count, and where the tokens come from.  *)
(***************************************************************************)
EXTENDS Naturals, Sequences, FiniteSets

CONSTANTS Vendors,   \* the vendors asked, of DOMAIN Vendor
          Byok,      \* subset of BOOLEAN: whether the organisation brings its own key
          MaxAudio   \* bound: chunks the vendor generates

VARIABLES
    vendor, stream, byok,  \* the request
    handler,   \* what the handler, and the response after it, are doing
    gen,       \* rest(): "unstarted", "suspended" at a yield, "pulling", "closed"
    run,       \* TTSRun.stream: "open" or "closed"
    made,      \* chunks the adapter yielded (produced_bytes)
    held,      \* chunks the converter holds back
    pulled,    \* chunks TTSRun gave to the job
    sent,      \* chunks the client received
    vend,      \* how the vendor's stream ended: "open", "end", "error"
    chars, tokens,  \* usage.characters and usage.tokens
    finisher,  \* finish(): "none", or how far it is, and with which status
    status,    \* job.status; "none" while it is empty
    events,    \* the usage events emitted
    background,  \* the background task has run
    answer,    \* [code, text]: what the client was told, and in whose words
    refusal    \* history: what the vendor refused the request with

request == <<vendor, stream, byok>>
usage == <<chars, tokens>>
vars == <<request, handler, gen, run, made, held, pulled, sent, vend, usage, finisher, status,
          events, background, answer, refusal>>

-----------------------------------------------------------------------------
(* The adapters: how usage arrives, whether errors may come inside a 200,  *)
(* and how tokens are estimated when the vendor's count never came.        *)

Engine == [count |-> "none", tokens |-> "none", inband |-> FALSE, estimates |-> FALSE,
           repeats |-> FALSE, priced |-> "characters"]

Polly == [Engine EXCEPT !.count = "header"]
Aura == [Engine EXCEPT !.count = "header"]
Inworld == [Engine EXCEPT !.count = "event", !.inband = TRUE]
Minimax == [Engine EXCEPT !.count = "event", !.inband = TRUE, !.repeats = TRUE]
Fish == [Engine EXCEPT !.tokens = "at start", !.priced = "tokens"]
OpenaiMini == [Engine EXCEPT !.tokens = "at end", !.inband = TRUE, !.estimates = TRUE,
                             !.priced = "tokens"]
Gemini == [Engine EXCEPT !.tokens = "any event", !.inband = TRUE, !.estimates = TRUE,
                         !.priced = "tokens"]

\* Azure, Cartesia, ElevenLabs, Google, Groq, Mistral, Murf, Rime, Smallest,
\* Speechmatics, Together and xAI use the engine as it is.
Vendor == [plain |-> Engine, aws |-> Polly, deepgram |-> Aura, inworld |-> Inworld,
           minimax |-> Minimax, fishaudio |-> Fish, openai |-> OpenaiMini, gemini |-> Gemini]

V == Vendor[vendor]

\* What a vendor's HTTP error says: its status, and whether the body is about
\* our account with the vendor.
Refusals == [status : {400, 401, 402, 403, 404, 429, 500}, account : BOOLEAN]

CodeOfStatus(r) ==
    CASE r.status = 400 -> "invalid_request"
      [] r.status \in {401, 403} -> "auth"
      [] r.status = 404 -> "model_not_found"
      [] r.status = 429 -> "rate_limited"
      [] r.status = 402 -> "http_402"
      [] r.status >= 500 -> "upstream_5xx"
CodeOf(r) ==
    CASE r.status \in {400, 402, 403} /\ r.account -> "account"
      [] r.status = 400 /\ ~r.account -> "invalid_request"
      [] r.status = 401 \/ (r.status = 403 /\ ~r.account) -> "auth"
      [] r.status = 404 -> "model_not_found"
      [] r.status = 429 -> "rate_limited"
      [] r.status = 402 /\ ~r.account -> "http_402"
      [] r.status >= 500 -> "upstream_5xx"

\* _status_code
ClientCode(code) ==
    CASE code = "timeout" -> "provider_timeout"
      [] code = "invalid_request" -> "invalid_request"
      [] OTHER -> "provider_error"

-----------------------------------------------------------------------------
NoRefusal == [status |-> 200, account |-> FALSE]
None == [code |-> "none", text |-> "none"]
Answers(code, text) == answer' = [code |-> code, text |-> text]

Init ==
    /\ vendor \in Vendors /\ stream \in BOOLEAN /\ byok \in Byok
    /\ handler = "checking" /\ gen = "unstarted" /\ run = "open"
    /\ made = 0 /\ held = 0 /\ pulled = 0 /\ sent = 0 /\ vend = "open"
    /\ chars = "none" /\ tokens = "none"
    /\ finisher = "none" /\ status = "none" /\ events = <<>> /\ background = FALSE
    /\ answer = None /\ refusal = NoRefusal

\* Credentials, a blocked organisation, a request that does not resolve.
Refuse ==
    /\ handler = "checking"
    /\ \E code \in {"auth_failed", "insufficient_credits", "model_not_found"} :
         Answers(code, "ours")
    /\ handler' = "over"
    /\ UNCHANGED <<request, refusal, gen, run, made, held, pulled, sent, vend, usage, finisher, status,
                   events, background>>

\* first_chunk: the adapter counts the text before it calls the vendor.
Accept ==
    /\ handler = "checking" /\ handler' = "first"
    /\ chars' = "typed"
    /\ tokens' = IF V.tokens = "at start" THEN "counted" ELSE tokens
    /\ UNCHANGED <<request, refusal, gen, run, made, held, pulled, sent, vend, finisher, status, events,
                   background, answer>>

-----------------------------------------------------------------------------
(* The vendor and TTSRun, pulled by the handler or by rest().              *)

Pulling == handler = "first" \/ gen = "pulling"

\* What the puller does with a chunk: the handler takes it as the first and
\* answers; rest() yields it and is suspended.
Yields ==
    \/ /\ handler = "first"
       /\ handler' = IF stream THEN "responding" ELSE "collecting"
       /\ gen' = IF stream THEN "unstarted" ELSE "pulling"
    \/ /\ gen = "pulling" /\ handler # "first"
       /\ gen' = IF stream THEN "suspended" ELSE "pulling"
       /\ UNCHANGED handler

\* A chunk of audio.  A count in the headers comes with the first one.
VendorSpeaks ==
    /\ Pulling /\ run = "open" /\ vend = "open" /\ made < MaxAudio
    /\ made' = made + 1
    /\ chars' \in IF V.count = "header" /\ made = 0 THEN {chars, "vendor"} ELSE {chars}
    /\ \/ held' = held + 1 /\ UNCHANGED <<pulled, handler, gen>>
       \/ held' = 0 /\ pulled' = pulled + held + 1 /\ Yields
    /\ UNCHANGED <<request, refusal, run, sent, vend, tokens, finisher, status, events, background, answer>>

\* An event with usage and no audio of its own.  MiniMax's repeats the clip,
\* which is skipped when it was streamed.
VendorCounts ==
    /\ Pulling /\ run = "open" /\ vend = "open"
    /\ \/ V.count = "event" /\ chars' = "vendor" /\ UNCHANGED tokens
       \/ V.tokens \in {"at end", "any event"} /\ tokens' = "reported" /\ UNCHANGED chars
    /\ V.repeats => made > 0
    /\ UNCHANGED <<request, refusal, handler, gen, run, made, held, pulled, sent, vend, finisher, status,
                   events, background, answer>>

VendorEnds ==
    /\ Pulling /\ run = "open" /\ vend = "open"
    /\ vend' = "end"
    /\ UNCHANGED <<request, refusal, handler, gen, run, made, held, pulled, sent, usage, finisher, status,
                   events, background, answer>>

\* The end of TTSRun.stream, by whatever way it is left: the adapter's stream
\* is closed, and tokens nobody reported are estimated from the audio.
ClosesUncounted == run' = "closed" /\ held' = 0 /\ UNCHANGED tokens
RunCloses ==
    /\ run' = "closed" /\ held' = 0
    /\ tokens' = IF V.estimates /\ made > 0 /\ tokens = "none" THEN "estimated" ELSE tokens

\* The converter gives what it still holds before the run is over.
Flush ==
    /\ Pulling /\ run = "open" /\ vend = "end" /\ held > 0
    /\ held' = 0 /\ pulled' = pulled + held /\ Yields
    /\ UNCHANGED <<request, refusal, run, made, sent, vend, usage, finisher, status, events, background,
                   answer>>

\* finish(): only the first caller goes on.
FinishesAgain(how) == finisher' = "closing" /\ status' = how
Finish(how) ==
    IF finisher = "none" THEN finisher' = "closing" /\ status' = how
    ELSE UNCHANGED <<finisher, status>>

ClosesCompleted(how) == gen' = "closed" /\ Finish("completed")
RestCloses(how) == gen' = "closed" /\ Finish(how)

\* StopAsyncIteration: an empty first chunk, or the end of rest().
RunEnds ==
    /\ Pulling /\ run = "open" /\ vend = "end" /\ held = 0
    /\ RunCloses
    /\ IF handler = "first" THEN /\ Yields /\ UNCHANGED <<finisher, status>>
                            ELSE RestCloses("completed") /\ UNCHANGED handler
    /\ UNCHANGED <<request, refusal, made, pulled, sent, vend, chars, events, background, answer>>

\* rest() asked for more after the run was over: nothing comes.
RestFindsNothing ==
    /\ gen = "pulling" /\ handler # "first" /\ run = "closed"
    /\ RestCloses("completed")
    /\ UNCHANGED <<request, refusal, handler, run, made, held, pulled, sent, vend, usage, events,
                   background, answer>>

\* The vendor refuses the call, breaks off, or sends an error inside a 200.
Fails(how, code, text) ==
    /\ Pulling /\ run = "open" /\ vend = "open"
    /\ vend' = "error"
    /\ RunCloses
    /\ IF handler = "first"
       THEN /\ handler' = "failed" /\ Finish(how) /\ Answers(code, text)
            /\ UNCHANGED gen
       ELSE RestCloses(how) /\ UNCHANGED <<handler, answer>>
    /\ UNCHANGED <<request, made, pulled, sent, chars, events, background>>

\* Whose words the client reads: the vendor's when the key is its own or when
\* the fault is in its input.
Words(code) == IF byok \/ code = "invalid_request" THEN "vendor" ELSE "ours"

VendorRefuses(r) ==
    /\ made = 0 /\ handler = "first"
    /\ Fails("provider_error", ClientCode(CodeOf(r)), Words(CodeOf(r)))
    /\ refusal' = r

VendorBreaks ==
    /\ \/ \E code \in {"timeout", "connect_failed"} :
            Fails("provider_error", ClientCode(code), Words(code))
       \/ V.inband /\ Fails("provider_error", ClientCode("stream_error"), Words("stream_error"))
    /\ UNCHANGED refusal

Crashes == Fails("error", "internal_error", "ours") /\ UNCHANGED refusal

-----------------------------------------------------------------------------
(* The response                                                            *)

\* Starlette starts rest(): the first chunk is its prefix.  An empty one is
\* not yielded.
StartRest ==
    /\ handler = "responding" /\ gen = "unstarted"
    /\ Answers("ok", "audio")
    /\ gen' = IF pulled > 0 THEN "suspended" ELSE "pulling"
    /\ UNCHANGED <<request, refusal, handler, run, made, held, pulled, sent, vend, usage, finisher, status,
                   events, background>>

\* The chunk is sent and rest() asked for the next.
Send ==
    /\ handler = "responding" /\ gen = "suspended"
    /\ sent' = pulled /\ gen' = "pulling"
    /\ UNCHANGED <<request, refusal, handler, run, made, held, pulled, vend, usage, finisher, status,
                   events, background, answer>>

\* The client goes: Starlette stops iterating.  A suspended generator is left
\* alone; one that waits for the vendor is cancelled, and so is the run.
ClientGoes ==
    /\ handler = "responding" /\ gen # "closed"
    /\ handler' = "left"
    /\ IF gen = "pulling"
       THEN /\ RestCloses("client_disconnect")
            /\ IF run = "open" THEN RunCloses ELSE UNCHANGED <<run, held, tokens>>
       ELSE UNCHANGED <<gen, finisher, status, run, held, tokens>>
    /\ UNCHANGED <<request, refusal, made, pulled, sent, vend, chars, events, background, answer>>

\* The response is over when rest() is, and rest() waits for its finish();
\* then, or when the client went, the background task runs.
LeavesItToRest == UNCHANGED <<finisher, status>>
Disconnected == Finish("client_disconnect")

Background ==
    /\ ~background /\ stream
    /\ \/ handler = "left"
       \/ handler = "responding" /\ gen = "closed" /\ finisher = "done"
    /\ background' = TRUE
    /\ handler' = "over"
    /\ Disconnected
    /\ UNCHANGED <<request, refusal, gen, run, made, held, pulled, sent, vend, usage, events, answer>>

\* A generator left suspended is collected in the end: its finally runs too.
Collected ==
    /\ handler = "over" /\ background /\ gen = "suspended"
    /\ RestCloses("client_disconnect")
    /\ UNCHANGED <<request, refusal, handler, run, made, held, pulled, sent, vend, usage, events,
                   background, answer>>

\* Without streaming the answer waits for all of it.
AnswerWhole ==
    /\ handler = "collecting" /\ gen = "closed" /\ finisher = "done"
    /\ IF status = "completed" THEN Answers("ok", "audio") /\ sent' = pulled
       ELSE Answers("provider_error", "ours") /\ UNCHANGED sent
    /\ handler' = "over"
    /\ UNCHANGED <<request, refusal, gen, run, made, held, pulled, vend, usage, finisher, status, events,
                   background>>

\* A failure of the first chunk is answered after finish().
AnswerFailure ==
    /\ handler = "failed" /\ finisher = "done" /\ handler' = "over"
    /\ UNCHANGED <<request, refusal, gen, run, made, held, pulled, sent, vend, usage, finisher, status,
                   events, background, answer, refusal>>

-----------------------------------------------------------------------------
(* finish(): shielded, so it goes on whoever called it is cancelled.       *)

LeavesItOpen ==
    /\ finisher = "closing" /\ finisher' = "closed"
    /\ UNCHANGED <<request, refusal, handler, gen, run, made, held, pulled, sent, vend, usage,
                   status, events, background, answer>>
CloseUpstream ==
    /\ finisher = "closing" /\ finisher' = "closed"
    /\ IF run = "open" THEN RunCloses ELSE UNCHANGED <<run, held, tokens>>
    /\ UNCHANGED <<request, refusal, handler, gen, made, pulled, sent, vend, chars, status, events,
                   background, answer>>

\* tts_units: what the vendor bills, and nothing when it generated nothing.
Units ==
    IF made = 0 THEN {}
    ELSE IF V.priced = "characters" THEN {chars}
    ELSE IF tokens = "none" THEN {} ELSE {tokens}

Emit ==
    /\ finisher = "closed" /\ finisher' = "done"
    /\ events' = Append(events, [status |-> status, units |-> Units, made |-> made])
    /\ UNCHANGED <<request, refusal, handler, gen, run, made, held, pulled, sent, vend, usage, status,
                   background, answer>>

-----------------------------------------------------------------------------
Upstream == VendorSpeaks \/ VendorEnds \/ VendorBreaks
            \/ \E r \in Refusals : VendorRefuses(r)
Gateway == Flush \/ RunEnds \/ RestFindsNothing \/ StartRest \/ Send \/ Background \/ Collected
           \/ AnswerWhole \/ AnswerFailure \/ CloseUpstream \/ Emit

Next == Refuse \/ Accept \/ Upstream \/ VendorCounts \/ Crashes \/ Gateway \/ ClientGoes

\* The vendor speaks, ends or times out (READ_TIMEOUT), and the gateway's own
\* steps are taken; nothing makes the client leave.
Fairness == WF_vars(Upstream) /\ WF_vars(Gateway)
Spec == Init /\ [][Next]_vars /\ Fairness

-----------------------------------------------------------------------------
(* Properties                                                              *)

TypeOK ==
    /\ vendor \in Vendors /\ stream \in BOOLEAN /\ byok \in Byok
    /\ handler \in {"checking", "first", "responding", "collecting", "failed", "left", "over"}
    /\ gen \in {"unstarted", "suspended", "pulling", "closed"} /\ run \in {"open", "closed"}
    /\ made \in 0..MaxAudio /\ held \in 0..made /\ pulled \in 0..made /\ sent \in 0..pulled
    /\ vend \in {"open", "end", "error"}
    /\ chars \in {"none", "typed", "vendor"}
    /\ tokens \in {"none", "counted", "reported", "estimated"}
    /\ finisher \in {"none", "closing", "closed", "done"}
    /\ status \in {"none", "completed", "provider_error", "error", "client_disconnect"}
    /\ Len(events) <= 1 /\ background \in BOOLEAN
    /\ refusal \in Refusals \cup {NoRefusal}

\* Audio the vendor generated is paid for whoever ends the request and when:
\* its event has the units the model is priced in, and a request that failed
\* before any audio has none (speech.py:12-13, runner.py:56-59, 77-87).
GeneratedIsBilled ==
    \A i \in 1..Len(events) : events[i].units # {} <=> events[i].made > 0

\* The event is written when the run is over: the vendor generates no audio
\* behind it (speech.py:183-191).
NothingGeneratedAfterTheEvent ==
    \A i \in 1..Len(events) : run = "closed" /\ events[i].made = made

\* A request metered as completed reached its client whole, and one answered
\* with an error was not metered as completed (speech.py:120-134, 162-180).
CompletedIsWhole ==
    \A i \in 1..Len(events) :
        /\ events[i].status = "completed" /\ handler = "over" =>
               sent = made /\ answer.code = "ok"
        /\ answer.code \notin {"ok", "none"} => events[i].status # "completed"

\* A customer without a key of its own never reads what a vendor says of our
\* account with it, and is not told that the input was at fault (http_tts.py:
\* 30-43, speech.py:105-109).
AccountTroubleIsNotShown ==
    refusal.account /\ refusal.status \in {400, 402, 403} /\ ~byok =>
        answer.text = "ours" /\ answer.code = "provider_error"

\* A request that reached the vendor is metered, however the client, the
\* handler and the background task race (speech.py:128-134, 177-191).
EveryJobIsMetered == handler = "first" ~> events # <<>>
=============================================================================
