------------------------------ MODULE BatchRequest ------------------------------
(***************************************************************************)
(* One batch transcription (api/transcriptions.py): POST                   *)
(* /v1/audio/transcriptions, or Deepgram's POST /v1/listen.  The request   *)
(* passes the endpoint's checks in the endpoint's order, the adapter makes *)
(* its calls, the vendor's artifacts are deleted where the adapter does    *)
(* so, the one usage event is emitted and the answer returned.             *)
(*                                                                         *)
(* A call is answered, refused with a status the adapter does not take, or *)
(* answered with a body it cannot read; or its answer is lost to a timeout *)
(* or a broken connection, and then the vendor may or may not have acted.  *)
(***************************************************************************)
EXTENDS BatchVendors, Sequences, SequencesExt

CONSTANTS Vendors,    \* the vendors asked
          Endpoints,  \* "openai", "deepgram"
          Payloads,   \* the answers a vendor may give
          AUDIO,      \* seconds of audio in the request
          BUDGET      \* polls that fit in POLL_BUDGET_SECONDS

VARIABLES
    endpoint, vendor,
    pc,        \* the check, call or deletion the request is at
    polls,     \* polls answered "not yet"
    payload,   \* the vendor's answer, once read
    made,      \* the artifacts that exist at the vendor
    known,     \* those whose id the adapter has
    outcome,   \* how transcribe() ended
    answer,    \* the answer to the client
    usage,     \* the usage events emitted
    fetched,   \* a remote file was fetched
    asked,     \* history: a call of the adapter was made
    doubtful   \* history: artifacts whose id got lost or whose deletion failed

request == <<endpoint, vendor>>
vars == <<request, pc, polls, payload, made, known, outcome, answer, usage, fetched, asked,
          doubtful>>

NoPayload == [duration |-> NoTime, words |-> {}, more |-> {}]

\* The checks, in the order of the two handlers.
FetchesFirst == <<"credentials", "form", "audio", "blocked", "resolve">>
TranscribeChecks == <<"credentials", "form", "blocked", "resolve", "audio">>
PrerecordedChecks == <<"credentials", "blocked", "form", "audio", "resolve">>
Checks == IF endpoint = "openai" THEN TranscribeChecks ELSE PrerecordedChecks

\* What a check that fails answers; a file may also be too large.
RefusalOf(check) ==
    CASE check = "credentials" -> {"auth_failed"}
      [] check = "form" -> {"invalid_request"}
      [] check = "blocked" -> {"insufficient_credits"}
      [] check = "resolve" -> {"model_not_found", "unsupported_capability"}
      [] check = "audio" -> {"invalid_request", "payload_too_large"}

Steps == Checks \o Vendor[vendor].calls
\* The step after this one; the checks Meta's adapter makes of the file come
\* before its upload.
After(step) == Steps[(CHOOSE i \in 1..Len(Steps) : Steps[i] = step) + 1]
IsLast(step) == step = Steps[Len(Steps)]

Init ==
    /\ endpoint \in Endpoints /\ vendor \in Vendors
    /\ pc = "credentials" /\ polls = 0 /\ payload = NoPayload
    /\ made = {} /\ known = {} /\ outcome = "none" /\ answer = "none" /\ usage = <<>>
    /\ fetched = FALSE /\ asked = FALSE /\ doubtful = {}

-----------------------------------------------------------------------------
(* The checks                                                              *)

Pass ==
    /\ pc \in ToSet(Checks)
    /\ pc' = After(pc)
    /\ fetched' \in (IF pc = "audio" THEN BOOLEAN ELSE {fetched})
    /\ UNCHANGED <<request, polls, payload, made, known, outcome, answer, usage, asked, doubtful>>

Refuse ==
    /\ pc \in ToSet(Checks)
    /\ answer' \in RefusalOf(pc)
    /\ pc' = "done"
    /\ fetched' \in (IF pc = "audio" THEN BOOLEAN ELSE {fetched})
    /\ UNCHANGED <<request, polls, payload, made, known, outcome, usage, asked, doubtful>>

-----------------------------------------------------------------------------
(* transcribe()                                                            *)

\* transcribe() returns or raises; what it made is deleted first.
ConcludesAtOnce(how) == outcome' = how /\ pc' = "settle"
Concludes(how) ==
    /\ outcome' = how
    /\ pc' = IF Vendor[vendor].cleans THEN "delete job" ELSE "settle"

ArtifactOf(call) ==
    CASE call = "upload" -> {"file"} [] call = "create" -> {"job"} [] OTHER -> {}

\* Meta refuses a file its endpoint documents as unsupported, unsent.
CheckWav ==
    /\ pc = "transcribe" /\ Vendor[vendor].checks /\ ~asked
    /\ Concludes("other")
    /\ UNCHANGED <<request, polls, payload, made, known, answer, usage, fetched, asked, doubtful>>

Answered(call) ==
    /\ pc = call /\ call # "poll"
    /\ asked' = TRUE
    /\ made' = made \cup ArtifactOf(call) /\ known' = known \cup ArtifactOf(call)
    /\ IF IsLast(call)
       THEN Concludes("completed") /\ payload' \in Payloads
       ELSE pc' = After(call) /\ UNCHANGED <<outcome, payload>>
    /\ UNCHANGED <<request, polls, answer, usage, fetched, doubtful>>

PollCompleted ==
    /\ pc = "poll"
    /\ IF IsLast("poll")
       THEN Concludes("completed") /\ payload' \in Payloads
       ELSE pc' = After("poll") /\ UNCHANGED <<outcome, payload>>
    /\ UNCHANGED <<request, polls, made, known, answer, usage, fetched, asked, doubtful>>

PollFailed ==
    /\ pc = "poll" /\ Concludes("other")
    /\ UNCHANGED <<request, polls, payload, made, known, answer, usage, fetched, asked, doubtful>>

\* The budget is for all the polls of the request.
AsksOnceMore == polls > BUDGET
BudgetSpent == polls = BUDGET
StartsAnew == polls' = IF polls = 0 THEN 1 ELSE 0
Spends == polls' = polls + 1

\* Not yet: sleep and ask again, unless the budget is spent.
PollPending ==
    /\ pc = "poll"
    /\ IF BudgetSpent
       THEN Concludes("timeout") /\ UNCHANGED polls
       ELSE Spends /\ UNCHANGED <<pc, outcome>>
    /\ UNCHANGED <<request, payload, made, known, answer, usage, fetched, asked, doubtful>>

Refused(call) ==
    /\ pc = call /\ asked' = TRUE /\ Concludes("other")
    /\ UNCHANGED <<request, polls, payload, made, known, answer, usage, fetched, doubtful>>

\* The vendor may have acted on a call whose answer is lost or unreadable.
Lost(call, how) ==
    /\ pc = call /\ asked' = TRUE
    /\ \E more \in {{}, ArtifactOf(call)} :
         /\ how = "garbled" => more = ArtifactOf(call)
         /\ made' = made \cup more /\ doubtful' = doubtful \cup more
    /\ Concludes(Vendor[vendor][how])
    /\ UNCHANGED <<request, polls, payload, known, answer, usage, fetched>>

\* finally: the job, then the file, if there is one; neither depends on how
\* the other deletion went, and nobody looks at the status of the answer.
Delete(here, artifact, next) ==
    /\ pc = here
    /\ IF artifact \in known
       THEN \/ made' = made \ {artifact} /\ UNCHANGED doubtful
            \/ UNCHANGED made /\ doubtful' = doubtful \cup {artifact}
       ELSE UNCHANGED <<made, doubtful>>
    /\ pc' = next
    /\ UNCHANGED <<request, polls, payload, known, outcome, answer, usage, fetched, asked>>

-----------------------------------------------------------------------------
(* The end of the handler: the usage event, then the answer.               *)

CompletedUnlessCaught(how) == IF how \in {"other", "timeout"} THEN "provider_error" ELSE "completed"
StatusOf(how) ==
    CASE how = "completed" -> "completed" [] how = "raw" -> "error" [] OTHER -> "provider_error"

AnswerOf(how) ==
    CASE how = "completed" -> "ok"
      [] how = "timeout" -> "provider_timeout"
      [] how = "other" -> "provider_error"
      [] how = "raw" -> "internal_error"

\* Seconds are those of the transcript, and none without one.
BilledSeconds ==
    LET end == EndOf(vendor, payload) IN
    IF outcome = "completed" /\ end # NoTime THEN end ELSE 0

Settle ==
    /\ pc = "settle"
    /\ usage' = Append(usage, [status |-> StatusOf(outcome), seconds |-> BilledSeconds])
    /\ answer' = AnswerOf(outcome)
    /\ pc' = "done"
    /\ UNCHANGED <<request, polls, payload, made, known, outcome, fetched, asked, doubtful>>

-----------------------------------------------------------------------------
AllCalls == {"upload", "create", "poll", "fetch", "transcribe"}

Works ==
    \/ \E call \in AllCalls : \/ Answered(call) \/ Refused(call)
                              \/ \E how \in {"timeout", "reset", "garbled"} : Lost(call, how)
    \/ CheckWav \/ PollCompleted \/ PollFailed \/ PollPending
    \/ Delete("delete job", "job", "delete file") \/ Delete("delete file", "file", "settle")
    \/ Settle

Next == Pass \/ Refuse \/ Works

\* Every call has a timeout of its own and every poll is followed by another.
Fairness == WF_vars(Next)
Spec == Init /\ [][Next]_vars /\ Fairness

-----------------------------------------------------------------------------
(* Properties                                                              *)

TypeOK ==
    /\ endpoint \in Endpoints /\ vendor \in Vendors
    /\ pc \in ToSet(Checks) \cup AllCalls \cup {"delete job", "delete file", "settle", "done"}
    /\ polls \in 0..BUDGET /\ payload \in Payloads \cup {NoPayload}
    /\ known \subseteq {"file", "job"} /\ made \subseteq {"file", "job"}
    /\ outcome \in {"none", "completed", "timeout", "other", "raw"}
    /\ Len(usage) <= 1 /\ fetched \in BOOLEAN /\ asked \in BOOLEAN
    /\ doubtful \subseteq {"file", "job"}

\* A request the adapter saw has one usage event, whatever became of it, and a
\* request refused before has none; the event says what the client was told
\* (transcriptions.py:133-170, 237-267).
UsageOncePerCall ==
    pc = "done" =>
        /\ Len(usage) = IF outcome = "none" THEN 0 ELSE 1
        /\ answer = "ok" <=> \E i \in 1..Len(usage) : usage[i].status = "completed"

\* A completed request is billed for all the speech its transcript shows and
\* never for more than the audio; a failed one for nothing (transcriptions.py:
\* 151-161 with the parse functions of the vendors).
BilledCoversTheWords ==
    pc = "done" => \A i \in 1..Len(usage) :
        /\ usage[i].seconds <= IF answer = "ok" THEN AUDIO ELSE 0
        /\ answer = "ok" => \A w \in Words(vendor, payload) : w.end <= usage[i].seconds

\* Soniox keeps files and jobs for ever, against a quota: none is left but one
\* whose id never came or whose deletion failed (soniox/batch.py:96-106).
NothingLeftBehind ==
    pc = "done" /\ Vendor[vendor].cleans => made \subseteq doubtful

\* A blocked organisation costs nothing: no file is fetched for it and no
\* vendor is asked (transcriptions.py:98-102, 196-197).
BlockedReachesNobody == answer = "insufficient_credits" => ~fetched /\ ~asked

\* Every request is answered (the budget of the _poll loops).
RequestEnds == <>(pc = "done")
=============================================================================
