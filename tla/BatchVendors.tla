------------------------------ MODULE BatchVendors ------------------------------
(***************************************************************************)
(* What each batch speech-to-text adapter (providers/<vendor>/batch.py)    *)
(* asks of its vendor and makes of the answers.                            *)
(*                                                                         *)
(* An adapter is a record: the calls it makes, in order; which failures of *)
(* the transport, and whether a body it cannot parse, it maps to a         *)
(* ProviderStreamError (the others escape as they are); and whether it     *)
(* deletes what it made at the vendor.  What the request is billed for is  *)
(* how far, in seconds, the transcript reaches.                            *)
(*                                                                         *)
(* A payload p has the duration the vendor reports, or NoTime; its words,  *)
(* in the order spoken, each with the second it ends at, whether it has    *)
(* times and whether it has text; and the items of a second list: the      *)
(* segments or turns or channels some vendors also send.  Texts, speakers, *)
(* languages and confidences are left out.                                 *)
(***************************************************************************)
EXTENDS Integers, FiniteSets, FiniteSetsExt

NoTime == -1

Ends(items) == {i.end : i \in items}
LastEnd(ends) == IF ends = {} THEN NoTime ELSE Max(ends)
Timed(items) == {i \in items : i.timed}
DurationOr(p, ends) == IF p.duration # NoTime THEN p.duration ELSE LastEnd(ends)

----------------------------------------------------------------------------
(* parse_transcript, parse_json_v2, parse_response, parse_openai_response: *)
(* the words of the transcript, and its end.                               *)

SonioxWords(p) == {i \in Timed(p.words) : i.text}        \* <end> and <fin> are no words
AssemblyaiWords(p) == Timed(p.words)
SpeechmaticsWords(p) == Timed(p.words)
ElevenlabsWords(p) == {i \in Timed(p.words) : i.text}    \* type "word", no spacing or events
DeepgramWords(p) == Timed(p.words)
CartesiaWords(p) == Timed(p.words)
AzureWords(p) == Timed(p.words)
MetaWords(p) == {i \in Timed(p.words) : i.text}          \* a turn the clip ended in is skipped
\* words of the channels, when there is no common list
XaiWords(p) == IF Timed(p.words) = {} THEN Timed(p.more) ELSE Timed(p.words)
\* a segment for each word, when there are no words
OpenaiWords(p) ==
    IF Timed(p.words) = {} THEN {i \in Timed(p.more) : i.text} ELSE Timed(p.words)

OpenaiEndOfWords(p) == DurationOr(p, Ends(Timed(p.words)))
\* Without words the end is that of the last segment, whatever it holds.
OpenaiEnd(p) ==
    LET spoken == Ends(OpenaiWords(p)) IN
    DurationOr(p, IF spoken = {} THEN Ends(p.more) ELSE spoken)

----------------------------------------------------------------------------
(* transcribe(): the calls and what becomes of their failures.  A timeout  *)
(* or another failure of the transport becomes a ProviderStreamError whose *)
(* code is "timeout" or not, or escapes raw.                               *)

Adapter(calls, onTimeout, onReset) ==
    [calls |-> calls, timeout |-> onTimeout, reset |-> onReset,
     garbled |-> "raw", cleans |-> FALSE, checks |-> FALSE]

\* One POST, the transcript in its answer.
Post == <<"transcribe">>

Soniox ==
    [Adapter(<<"upload", "create", "poll", "fetch">>, "raw", "raw") EXCEPT !.cleans = TRUE]
Assemblyai == Adapter(<<"upload", "create", "poll">>, "raw", "raw")
Speechmatics == Adapter(<<"create", "poll", "fetch">>, "raw", "raw")
Deepgram == [Adapter(Post, "timeout", "other") EXCEPT !.garbled = "other"]
Xai == Adapter(Post, "timeout", "other")
Meta == [Adapter(Post, "timeout", "other") EXCEPT !.checks = TRUE]
OpenaiCompat == Adapter(Post, "timeout", "other")
Cartesia == Adapter(Post, "other", "other")
Elevenlabs == Adapter(Post, "other", "other")
Azure == Adapter(Post, "other", "other")

\* What the request of each vendor is modelled by; Groq, Mistral and OpenAI
\* share one adapter.
Vendor ==
    [soniox |-> Soniox, assemblyai |-> Assemblyai, speechmatics |-> Speechmatics,
     deepgram |-> Deepgram, xai |-> Xai, meta |-> Meta, openai |-> OpenaiCompat,
     cartesia |-> Cartesia, elevenlabs |-> Elevenlabs, azure |-> Azure]

Words(v, p) ==
    CASE v = "soniox" -> SonioxWords(p)
      [] v = "assemblyai" -> AssemblyaiWords(p)
      [] v = "speechmatics" -> SpeechmaticsWords(p)
      [] v = "deepgram" -> DeepgramWords(p)
      [] v = "xai" -> XaiWords(p)
      [] v = "meta" -> MetaWords(p)
      [] v = "openai" -> OpenaiWords(p)
      [] v = "cartesia" -> CartesiaWords(p)
      [] v = "elevenlabs" -> ElevenlabsWords(p)
      [] v = "azure" -> AzureWords(p)

\* These read no duration: the transcript ends with its last word.
NoDuration == {"soniox", "assemblyai", "speechmatics", "elevenlabs"}

EndOf(v, p) ==
    CASE v = "openai" -> OpenaiEnd(p)
      [] v \in NoDuration -> LastEnd(Ends(Words(v, p)))
      [] OTHER -> DurationOr(p, Ends(Words(v, p)))
=============================================================================
