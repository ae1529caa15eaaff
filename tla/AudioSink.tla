------------------------------- MODULE AudioSink -------------------------------
(***************************************************************************)
(* S3AudioSink (audio/s3_sink.py): the copy of one session's audio that a  *)
(* self-hoster may ask for.  The reader of the session hands over each     *)
(* chunk and waits (router/session.py:285-293); the sink buffers them and  *)
(* uploads a part of a multipart upload whenever the buffer is large       *)
(* enough.  When the session ends, the reader is cancelled wherever it is  *)
(* and on_session_end closes the upload (session.py:167-173).              *)
(*                                                                         *)
(* Every call of S3 may be answered, be refused, or take effect with its   *)
(* answer lost (a timeout).  S3 itself is modelled from what the sink asks *)
(* of it: an upload is open until it is completed or aborted, a part sent  *)
(* again under its number replaces the first, and a list of parts that is  *)
(* empty, out of order or names a part S3 lacks is refused.  Chunks are    *)
(* numbered, and each is as long as any other.                             *)
(***************************************************************************)
EXTENDS Naturals, Sequences, SequencesExt, FiniteSets

CONSTANTS PART,        \* MIN_PART_SIZE, in chunks
          MaxChunks,   \* bound: chunks of the session
          MaxFaults    \* bound: calls that fail or lose their answer

VARIABLES
    given,     \* chunks handed to on_chunk
    buffer,    \* upload.buffer
    id,        \* upload.upload_id, 0 for None
    number,    \* upload.part_number
    parts,     \* upload.parts: the numbers S3 acknowledged, in order
    inflight,  \* the part_data of the part being uploaded
    pc,        \* what the sink waits for
    cut,       \* the session ended: the reader is cancelled
    uploads,   \* S3: the state of each multipart upload
    stored,    \* S3: the parts of each upload, by number
    object,    \* S3: the object's chunks, <<>> when there is none
    faults,    \* calls that failed
    lost,      \* history: chunks of parts that failed or were cut off
    unknown,   \* history: uploads whose id never reached the sink, or whose abort failed
    starved    \* history: _initiate failed

vars == <<given, buffer, id, number, parts, inflight, pc, cut, uploads, stored, object,
          faults, lost, unknown, starved>>
s3 == <<uploads, stored, object>>
history == <<lost, unknown, starved>>

\* part_number starts at 1, and S3 takes no other.
FromZero == 0
FirstPart == 1

Init ==
    /\ given = 0 /\ buffer = <<>> /\ id = 0 /\ number = FirstPart /\ parts = <<>> /\ inflight = <<>>
    /\ pc = "idle" /\ cut = FALSE
    /\ uploads = <<>> /\ stored = <<>> /\ object = <<>>
    /\ faults = 0 /\ lost = {} /\ unknown = {} /\ starved = FALSE

-----------------------------------------------------------------------------
(* S3, and how a call to it goes.                                          *)

Outcomes == {"answered", "refused", "unheard"}

\* The call of a reader that was cancelled: S3 may or may not have seen it.
Interrupted == cut /\ pc \in {"initiating", "uploading"}

Goes(o) ==
    \/ (o = "answered" \/ Interrupted) /\ UNCHANGED faults
    \/ o # "answered" /\ ~Interrupted /\ faults < MaxFaults /\ faults' = faults + 1

Take(o) == o # "refused"

StorePart(o) ==
    stored' = IF Take(o) THEN [stored EXCEPT ![id] = [n \in DOMAIN @ \cup {number} |->
                                                IF n = number THEN inflight ELSE @[n]]]
              ELSE stored

Acceptable == /\ parts # <<>>
              /\ \A i \in 1..(Len(parts) - 1) : parts[i] < parts[i + 1]
              /\ ToSet(parts) \subseteq DOMAIN stored[id]

-----------------------------------------------------------------------------
(* on_chunk                                                                *)

\* Another chunk makes a part.
LargerThanAPart(data) == Len(data) > PART
LargeEnough(data) == Len(data) >= PART

\* The buffer becomes the part in flight; the buffer is empty from here on.
CopiesBuffer(data, next) == inflight' = data /\ pc' = next /\ UNCHANGED buffer
StartPart(data, next) == inflight' = data /\ buffer' = <<>> /\ pc' = next

OnChunk ==
    /\ pc = "idle" /\ ~cut /\ given < MaxChunks
    /\ given' = given + 1
    /\ LET data == Append(buffer, given + 1) IN
       IF ~LargeEnough(data) THEN buffer' = data /\ UNCHANGED <<inflight, pc>>
       ELSE IF id = 0 THEN buffer' = data /\ pc' = "initiating" /\ UNCHANGED inflight
       ELSE StartPart(data, "uploading")
    /\ UNCHANGED <<id, number, parts, cut, s3, faults, history>>

\* The reader is still there to hear the answer: a cancelled one has gone.
Initiate(o) ==
    /\ pc = "initiating" /\ Goes(o)
    /\ uploads' = IF Take(o) THEN Append(uploads, "open") ELSE uploads
    /\ stored' = IF Take(o) THEN Append(stored, << >>) ELSE stored
    /\ IF o = "answered" /\ ~cut
       THEN /\ id' = Len(uploads) + 1
            /\ StartPart(buffer, "uploading")
            /\ UNCHANGED <<unknown, starved>>
       ELSE /\ unknown' = IF Take(o) THEN unknown \cup {Len(uploads) + 1} ELSE unknown
            /\ starved' = TRUE
            /\ pc' = "idle"
            /\ UNCHANGED <<id, buffer, inflight>>
    /\ UNCHANGED <<given, number, parts, cut, object, lost>>

\* A part that failed leaves its number to the next.
KeepsNumber == UNCHANGED number
Numbered == number' = number + 1

UploadPart(o) ==
    /\ pc = "uploading" /\ Goes(o)
    /\ StorePart(o)
    /\ IF o = "answered" /\ ~cut
       THEN /\ parts' = Append(parts, number)
            /\ Numbered
            /\ UNCHANGED lost
       ELSE /\ lost' = lost \cup ToSet(inflight)
            /\ UNCHANGED <<parts, number>>
    /\ inflight' = <<>> /\ pc' = "idle"
    /\ UNCHANGED <<given, buffer, id, cut, uploads, object, unknown, starved>>

-----------------------------------------------------------------------------
(* The session ends, and on_session_end with it.                           *)

SessionEnds ==
    /\ ~cut /\ cut' = TRUE
    /\ UNCHANGED <<given, buffer, id, number, parts, inflight, pc, s3, faults, history>>

OnSessionEnd ==
    /\ cut /\ pc = "idle"
    /\ CASE given = 0 -> pc' = "done" /\ UNCHANGED <<buffer, inflight>>
         [] given > 0 /\ id = 0 /\ buffer = <<>> -> pc' = "done" /\ UNCHANGED <<buffer, inflight>>
         [] given > 0 /\ id = 0 /\ buffer # <<>> -> pc' = "putting" /\ UNCHANGED <<buffer, inflight>>
         [] id # 0 /\ buffer # <<>> -> StartPart(buffer, "last part")
         [] id # 0 /\ buffer = <<>> -> pc' = "completing" /\ UNCHANGED <<buffer, inflight>>
    /\ UNCHANGED <<given, id, number, parts, cut, s3, faults, history>>

\* Under 5 MB in all: one PUT and no upload to close.
PutWhole(o) ==
    /\ pc = "putting" /\ Goes(o)
    /\ object' = IF Take(o) THEN buffer ELSE object
    /\ pc' = "done"
    /\ UNCHANGED <<given, buffer, id, number, parts, inflight, cut, uploads, stored, history>>

\* The upload is closed one way or the other.
LeavesOpen == "done"
TriesAgain == "completing"
GivesUp == "aborting"

LastPart(o) ==
    /\ pc = "last part" /\ Goes(o)
    /\ StorePart(o)
    /\ IF o = "answered"
       THEN /\ parts' = Append(parts, number) /\ pc' = "completing" /\ UNCHANGED lost
       ELSE /\ lost' = lost \cup ToSet(inflight) /\ pc' = GivesUp /\ UNCHANGED parts
    /\ inflight' = <<>>
    /\ UNCHANGED <<given, buffer, id, number, cut, uploads, object, unknown, starved>>

Complete(o) ==
    /\ pc = "completing" /\ Goes(o)
    /\ IF Acceptable /\ Take(o)
       THEN /\ uploads' = [uploads EXCEPT ![id] = "completed"]
            /\ object' = FlattenSeq([i \in 1..Len(parts) |-> stored[id][parts[i]]])
       ELSE UNCHANGED <<uploads, object>>
    /\ pc' = IF Acceptable /\ o = "answered" THEN "done" ELSE GivesUp
    /\ UNCHANGED <<given, buffer, id, number, parts, inflight, cut, stored, history>>

Abort(o) ==
    /\ pc = "aborting" /\ Goes(o)
    /\ uploads' = IF Take(o) /\ uploads[id] = "open" THEN [uploads EXCEPT ![id] = "aborted"]
                  ELSE uploads
    /\ unknown' = IF o = "refused" THEN unknown \cup {id} ELSE unknown
    /\ pc' = "done"
    /\ UNCHANGED <<given, buffer, id, number, parts, inflight, cut, stored, object, lost, starved>>

-----------------------------------------------------------------------------
Calls(o) == Initiate(o) \/ UploadPart(o) \/ PutWhole(o) \/ LastPart(o) \/ Complete(o) \/ Abort(o)

Next == OnChunk \/ SessionEnds \/ OnSessionEnd \/ \E o \in Outcomes : Calls(o)

\* The client gives up on a call after 30 s, so each of them ends (s3_sink.py:57).
Fairness == WF_vars(OnSessionEnd) /\ WF_vars(\E o \in Outcomes : Calls(o))
Spec == Init /\ [][Next]_vars /\ Fairness

-----------------------------------------------------------------------------
(* Properties                                                              *)

Whole == [i \in 1..given |-> i]

TypeOK ==
    /\ given \in 0..MaxChunks
    /\ buffer \in Seq(1..MaxChunks) /\ inflight \in Seq(1..MaxChunks)
    /\ object \in Seq(1..MaxChunks)
    /\ id \in 0..Len(uploads) /\ number \in 1..(MaxChunks + 1)
    /\ parts \in Seq(1..MaxChunks)
    /\ pc \in {"idle", "initiating", "uploading", "putting", "last part", "completing",
               "aborting", "done"}
    /\ cut \in BOOLEAN /\ starved \in BOOLEAN
    /\ uploads \in Seq({"open", "completed", "aborted"}) /\ Len(stored) = Len(uploads)
    /\ faults \in 0..MaxFaults
    /\ lost \subseteq 1..MaxChunks /\ unknown \subseteq 1..Len(uploads)

Increasing(w) == \A i, j \in 1..Len(w) : i < j => w[i] < w[j]

\* The object holds every chunk once and in the order received, but for those
\* of a part that failed or was cut off (s3_sink.py:9-10, 136-145): a chunk
\* kept in the buffer while S3 cannot be reached still gets there.
OnlyFailedPartsAreMissing ==
    object # <<>> => Increasing(object) /\ ToSet(object) = (1..given) \ lost

\* Whatever happens to the calls before, the audio is stored when the last
\* ones are answered: with nothing lost, the end of the session without an
\* object is the work of a call that failed then (s3_sink.py:147-170).
StoredUnlessAFault == pc = "done" /\ given > 0 /\ faults = 0 /\ lost = {} => object = Whole

\* No multipart upload is left open, to be paid for until somebody sweeps the
\* bucket, unless its id never came or the abort itself failed (s3_sink.py:170-178).
NoUploadLeftOpen == pc = "done" => \A u \in 1..Len(uploads) : uploads[u] = "open" => u \in unknown

\* Memory is one part's worth while uploads can be started (s3_sink.py:3-7).
OnePartBuffered == ~starved => Len(buffer) + Len(inflight) <= PART

\* The sink comes to an end after the session (s3_sink.py:147-178).
SinkEnds == cut ~> (pc = "done")

\* What the docstring says of every stored object (s3_sink.py:9): "Stores raw
\* audio bytes exactly as received".
StoredExactlyAsReceived == pc = "done" /\ object # <<>> => object = Whole
=============================================================================
