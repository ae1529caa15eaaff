------------------------------ MODULE GatewayParts ------------------------------
(***************************************************************************)
(* The parts of the gateway that answer one request or serve one session   *)
(* by themselves: the admission of streams, the audio sink, the batch and  *)
(* the speech endpoints, the choice of a format and the usage reports of   *)
(* the live vendors.  They share no state, so a behaviour is one of one    *)
(* part, chosen at the start, and the others rest: those with fairness in  *)
(* a state in which they are over, the others in their first.              *)
(***************************************************************************)
EXTENDS Admission, Sequences

CONSTANTS
    Parts,          \* the parts a behaviour may be of
    SinkPart,       \* MIN_PART_SIZE of the sink, in chunks
    SinkChunks,     \* bound: chunks of a session
    SinkFaults,     \* bound: calls of S3 that fail
    BatchPayloads,  \* the answers a batch vendor may give
    BatchSeconds,   \* seconds of audio in a batch request
    BatchPolls,     \* polls that fit in POLL_BUDGET_SECONDS
    SpeechChunks,   \* bound: chunks of audio a speech vendor generates
    AskedRates,     \* the rates a client may ask for
    ReportTokens    \* bound: tokens of one modality in a report

VARIABLES
    part,
    given, buffer, id, number, parts, inflight, pc, cut, uploads, stored, object, faults, lost,
    unknown, starved,
    endpoint, batchVendor, step, polls, payload, artifacts, known, outcome, reply, usage, fetched,
    called, doubtful,
    vendor, stream, byok, handler, gen, run, made, held, pulled, sent, vend, chars, tokens,
    finisher, status, events, background, answer, refusal,
    adapter, format, rate, verdict, asked, wrap, told,
    dialect, report, counted, units

sinkVars == <<given, buffer, id, number, parts, inflight, pc, cut, uploads, stored, object, faults,
              lost, unknown, starved>>
batchVars == <<endpoint, batchVendor, step, polls, payload, artifacts, known, outcome, reply, usage,
               fetched, called, doubtful>>
speechVars == <<vendor, stream, byok, handler, gen, run, made, held, pulled, sent, vend, chars,
                tokens, finisher, status, events, background, answer, refusal>>
choiceVars == <<adapter, format, rate, verdict, asked, wrap, told>>
unitsVars == <<dialect, report, counted, units>>
partsVars == <<part, vars, sinkVars, batchVars, speechVars, choiceVars, unitsVars>>

Sink == INSTANCE AudioSink WITH
    PART <- SinkPart, MaxChunks <- SinkChunks, MaxFaults <- SinkFaults

BatchVendors == {"soniox", "assemblyai", "speechmatics", "deepgram", "xai", "meta", "openai",
                 "cartesia", "elevenlabs", "azure"}
Batch == INSTANCE BatchRequest WITH
    Vendors <- BatchVendors, Endpoints <- {"openai", "deepgram"}, Payloads <- BatchPayloads,
    AUDIO <- BatchSeconds, BUDGET <- BatchPolls,
    vendor <- batchVendor, pc <- step, made <- artifacts, answer <- reply, asked <- called

SpeechVendors == {"plain", "aws", "deepgram", "inworld", "minimax", "fishaudio", "openai", "gemini"}
Speech == INSTANCE SpeechRequest WITH
    Vendors <- SpeechVendors, Byok <- BOOLEAN, MaxAudio <- SpeechChunks

AdapterNames == {"aws", "azure", "cartesia", "deepgram", "elevenlabs", "fishaudio", "gemini",
                 "google", "groq", "inworld", "minimax", "mistral", "murf", "openai", "rime",
                 "smallest", "speechmatics", "together", "xai"}
FormatNames == {"pcm", "wav", "mulaw", "alaw", "mp3", "opus", "aac", "flac"}
Choice == INSTANCE FormatChoice WITH
    Adapters <- AdapterNames, Formats <- FormatNames, Rates <- AskedRates

Units == INSTANCE TokenUnits WITH MaxTokens <- ReportTokens

\* A batch vendor gives finitely many words, none of which ends after the
\* audio, or after the duration it reports, which is at most that of the audio.
PayloadOK(p) ==
    /\ p.duration \in {Batch!NoTime} \cup 0..BatchSeconds
    /\ IsFiniteSet(p.words) /\ IsFiniteSet(p.more)
    /\ \A w \in p.words \cup p.more :
         w.end \in 0..(IF p.duration = Batch!NoTime THEN BatchSeconds ELSE p.duration)

ASSUME PartsAssumption ==
    /\ SinkPart \in Nat \ {0} /\ SinkChunks \in Nat /\ SinkFaults \in Nat
    /\ BatchSeconds \in Nat /\ BatchPolls \in Nat /\ \A p \in BatchPayloads : PayloadOK(p)
    /\ SpeechChunks \in Nat /\ ReportTokens \in Nat
    /\ AskedRates \subseteq Nat

-----------------------------------------------------------------------------
SinkRests ==
    /\ given = 0 /\ buffer = <<>> /\ id = 0 /\ number = 1 /\ parts = <<>> /\ inflight = <<>>
    /\ pc = "done" /\ cut = TRUE /\ uploads = <<>> /\ stored = <<>> /\ object = <<>>
    /\ faults = 0 /\ lost = {} /\ unknown = {} /\ starved = FALSE

BatchRests ==
    /\ endpoint = "openai" /\ batchVendor = "openai" /\ step = "done" /\ polls = 0
    /\ payload = Batch!NoPayload /\ artifacts = {} /\ known = {} /\ outcome = "none"
    /\ reply = "auth_failed" /\ usage = <<>> /\ fetched = FALSE /\ called = FALSE /\ doubtful = {}

SpeechRests ==
    /\ vendor = "plain" /\ stream = FALSE /\ byok = FALSE
    /\ handler = "over" /\ gen = "unstarted" /\ run = "open"
    /\ made = 0 /\ held = 0 /\ pulled = 0 /\ sent = 0 /\ vend = "open"
    /\ chars = "none" /\ tokens = "none" /\ finisher = "none" /\ status = "none" /\ events = <<>>
    /\ background = FALSE /\ answer = [code |-> "auth_failed", text |-> "ours"]
    /\ refusal = Speech!NoRefusal

ChoiceRests ==
    /\ adapter = "openai" /\ format = "pcm" /\ rate = 0 /\ verdict = "none"
    /\ asked = [format |-> "none", rate |-> 0] /\ wrap = FALSE /\ told = 0

UnitsRest == dialect = "openai" /\ report = Units!Nothing /\ counted = FALSE /\ units = Units!Nothing

PartsInit ==
    /\ part \in Parts
    /\ Init
    /\ IF part = "sink" THEN Sink!Init ELSE SinkRests
    /\ IF part = "batch" THEN Batch!Init ELSE BatchRests
    /\ IF part = "speech" THEN Speech!Init ELSE SpeechRests
    /\ IF part = "format" THEN Choice!Init ELSE ChoiceRests
    /\ IF part = "tokens" THEN Units!Init ELSE UnitsRest

PartsNext ==
    /\ UNCHANGED part
    /\ IF part = "admission" THEN Next ELSE UNCHANGED vars
    /\ IF part = "sink" THEN Sink!Next ELSE UNCHANGED sinkVars
    /\ IF part = "batch" THEN Batch!Next ELSE UNCHANGED batchVars
    /\ IF part = "speech" THEN Speech!Next ELSE UNCHANGED speechVars
    /\ IF part = "format" THEN Choice!Next ELSE UNCHANGED choiceVars
    /\ IF part = "tokens" THEN Units!Next ELSE UNCHANGED unitsVars

\* The fairness is that of the parts.
PartsFairness == Sink!Fairness /\ Batch!Fairness /\ Speech!Fairness
PartsSpec == PartsInit /\ [][PartsNext]_partsVars /\ PartsFairness

-----------------------------------------------------------------------------
(* What is checked of the parts, by what is at stake; each conjunct is      *)
(* stated and explained in the module of its part.                          *)

\* Types.
PartsTypeOK ==
    TypeOK /\ Sink!TypeOK /\ Batch!TypeOK /\ Speech!TypeOK

\* Resources: a slot is taken only by a handler that will give it back, no
\* upload stays open at S3 and no file or job at Soniox, but by a failure of the
\* very call that would have removed it (limits.py:33-39, s3_sink.py:170-178,
\* soniox/batch.py:96-106).
NothingIsHeldForGood ==
    CountsAreHolders /\ Sink!NoUploadLeftOpen /\ Batch!NothingLeftBehind

\* Audio kept: the object at S3 is what was received, in order, but the parts
\* whose upload failed, and the sink does not grow with the session
\* (s3_sink.py:3-10, 136-170).
StoredAsReceived ==
    Sink!OnlyFailedPartsAreMissing /\ Sink!StoredUnlessAFault /\ Sink!OnePartBuffered

\* Money: whatever the vendor did is billed, once, and nothing else is, however
\* the request ends (api/transcriptions.py:133-170, api/speech.py:128-191,
\* meter.py:176-312).
EveryCallIsBilledOnce ==
    /\ Batch!UsageOncePerCall /\ Batch!BilledCoversTheWords
    /\ Speech!GeneratedIsBilled /\ Speech!NothingGeneratedAfterTheEvent
    /\ Units!EveryTokenIsBilledOnce

\* Answers: a client is told completed of what it has whole, reads nothing of
\* our account with the vendor, is refused before anything is spent on it, and
\* gets every format and rate of the catalog as it is labelled
\* (api/speech.py:105-180, api/transcriptions.py:98-102, resolver.py:205-265).
AnswersAreTrue ==
    /\ Batch!BlockedReachesNobody
    /\ Speech!CompletedIsWhole /\ Speech!AccountTroubleIsNotShown
    /\ Choice!ConversionIsPossible /\ Choice!ToldRateIsTheirs /\ Choice!ListedIsServed

\* Ends: every request is answered and metered, every sink closed (the budget
\* of the _poll loops, api/speech.py:128-134, 177-191, s3_sink.py:147-178).
EveryPartEnds == Sink!SinkEnds /\ Batch!RequestEnds /\ Speech!EveryJobIsMetered
=============================================================================
