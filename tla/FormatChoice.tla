------------------------------ MODULE FormatChoice ------------------------------
(***************************************************************************)
(* The format and the rate of a speech request: what resolve_tts           *)
(* (router/resolver.py) asks of the adapter, what it has the gateway       *)
(* convert, and what it tells the client.  For every adapter the formats   *)
(* and rates are those of its CAPABILITIES (providers/<vendor>/tts.py),    *)
(* and the catalog lists the same rates and the telephony formats, as the  *)
(* models.json of the vendors do.  Rates are in Hz.                        *)
(***************************************************************************)
EXTENDS Naturals, FiniteSets, FiniteSetsExt

CONSTANTS Adapters,  \* the adapters asked, of DOMAIN Adapter
          Formats,   \* the formats a client may name
          Rates      \* the rates it may name, and NoRate

VARIABLES adapter, format, rate,  \* the request
          verdict,   \* "none", "resolved", or the code of the error
          asked,     \* config.format and config.sample_rate: [format, rate]
          wrap,      \* the gateway converts
          told       \* out_sample_rate

vars == <<adapter, format, rate, verdict, asked, wrap, told>>

NoRate == 0
PcmFamily == {"pcm", "wav", "mulaw", "alaw"}
PcmWrapped == {"wav", "mulaw", "alaw"}

-----------------------------------------------------------------------------
(* CAPABILITIES.  Rates of a format that has none of its own are those of  *)
(* the adapter; the catalog adds what the gateway makes of pcm.            *)

Can(formats, rates) == [formats |-> formats, rates |-> rates, mulaw |-> rates, alaw |-> rates,
                        listed |-> rates]
Telephony(c) == [c EXCEPT !.mulaw = {8000}, !.alaw = {8000}]

Narrow == {8000, 16000}
Common == {8000, 16000, 24000}
Wide == {8000, 16000, 22050, 24000, 44100, 48000}
G711 == {"mulaw", "alaw"}

Aws == Telephony(Can({"pcm", "mp3", "opus"} \cup G711, Narrow))
Azure == Telephony(Can({"pcm", "mp3", "opus"} \cup G711, Common \cup {48000}))
Cartesia == Can({"pcm", "mp3"} \cup G711, Wide)
Deepgram == [Can({"pcm", "mp3", "opus", "flac", "aac"} \cup G711, Common \cup {32000, 44100, 48000})
             EXCEPT !.mulaw = Narrow, !.alaw = Narrow]
Elevenlabs == [Telephony(Can({"pcm", "mp3", "opus"} \cup G711, Wide))
               EXCEPT !.listed = Wide \ {44100}]
Fishaudio == Can({"pcm", "mp3", "opus"}, Common \cup {32000, 44100})
Gemini == [Can({"pcm"}, {24000}) EXCEPT !.listed = {24000, 8000}]
Google == Telephony(Can({"pcm", "mp3", "opus"} \cup G711, Common \cup {48000}))
Groq == Can({"pcm"}, Wide \cup {32000})
Inworld == Telephony(Can({"pcm", "mp3", "opus", "flac"} \cup G711, Wide))
Minimax == [Can({"pcm", "mp3", "flac", "opus", "mulaw"}, Common \cup {22050, 32000, 44100})
            EXCEPT !.mulaw = {8000}]
Mistral == [Can({"pcm", "mp3", "flac", "opus"}, {24000}) EXCEPT !.listed = {24000, 8000}]
Murf == Can({"pcm", "mp3", "flac", "opus"} \cup G711, Common \cup {44100, 48000})
Openai == [Can({"mp3", "opus", "aac", "flac", "wav", "pcm"}, {24000})
           EXCEPT !.listed = {24000, 8000}]
Rime == [Can({"pcm", "mp3", "opus", "mulaw"}, Common \cup {22050}) EXCEPT !.mulaw = {8000}]
Smallest == Can({"pcm", "mp3"} \cup G711, Common \cup {44100})
Speechmatics == [Can({"pcm"}, {16000}) EXCEPT !.listed = Narrow]
Together == [Can({"pcm"}, {24000}) EXCEPT !.listed = {24000, 8000}]
Xai == [Can({"pcm", "mp3"} \cup G711, Wide) EXCEPT !.mulaw = Narrow, !.alaw = Narrow]

Adapter ==
    [aws |-> Aws, azure |-> Azure, cartesia |-> Cartesia, deepgram |-> Deepgram,
     elevenlabs |-> Elevenlabs, fishaudio |-> Fishaudio, gemini |-> Gemini, google |-> Google,
     groq |-> Groq, inworld |-> Inworld, minimax |-> Minimax, mistral |-> Mistral,
     murf |-> Murf, openai |-> Openai, rime |-> Rime, smallest |-> Smallest,
     speechmatics |-> Speechmatics, together |-> Together, xai |-> Xai]

C == Adapter[adapter]
Listed == C.formats \cup PcmFamily
RatesOf(f) == IF f = "mulaw" THEN C.mulaw ELSE IF f = "alaw" THEN C.alaw ELSE C.rates

-----------------------------------------------------------------------------
(* resolve_tts                                                             *)

Divides(out, r) == r % out = 0
Native == IF 24000 \in C.rates THEN 24000 ELSE Max(C.rates)
Wanted == IF rate # NoRate THEN rate
          ELSE IF format \in G711 THEN 8000 ELSE Native
AnyHigher == {r \in C.rates : r >= Wanted}
NativeOnly == {r \in {Native} : Divides(Wanted, r)}
Sources == {r \in C.rates : Divides(Wanted, r)}

Fails(code) == verdict' = code /\ UNCHANGED <<asked, wrap, told>>

\* An adapter that yields the format is asked for it, and otherwise for pcm.
TellsNative(w, native) ==
    /\ verdict' = "resolved" /\ wrap' = w /\ told' = Native
    /\ asked' = [format |-> IF w THEN "pcm" ELSE format, rate |-> native]
Serves(w, native) ==
    /\ verdict' = "resolved" /\ wrap' = w /\ told' = Wanted
    /\ asked' = [format |-> IF w THEN "pcm" ELSE format, rate |-> native]

ResolvePcm(w) ==
    CASE Wanted \notin C.listed -> Fails("unsupported_encoding")
      [] Wanted \in C.listed /\ ~w /\ Wanted \in RatesOf(format) -> Serves(w, Wanted)
      [] Wanted \in C.listed /\ (w \/ Wanted \notin RatesOf(format)) ->
            IF Wanted = Native THEN Serves(w, Native)
            ELSE IF Sources = {} \/ "pcm" \notin C.formats THEN Fails("unsupported_encoding")
            ELSE Serves(TRUE, IF Native \in Sources THEN Native ELSE Max(Sources))

Resolve ==
    /\ verdict = "none"
    /\ LET w == format \notin C.formats IN
       CASE format \notin Listed \/ (w /\ ~(format \in PcmWrapped /\ "pcm" \in C.formats)) ->
                Fails("unsupported_encoding")
         [] format \in Listed /\ format \notin PcmFamily ->
                IF rate # NoRate THEN Fails("invalid_request") ELSE Serves(w, Native)
         [] format \in PcmFamily /\ (w => format \in PcmWrapped /\ "pcm" \in C.formats) ->
                ResolvePcm(w)
    /\ UNCHANGED <<adapter, format, rate>>

Init ==
    /\ adapter \in Adapters /\ format \in Formats /\ rate \in Rates
    /\ verdict = "none" /\ asked = [format |-> "none", rate |-> NoRate]
    /\ wrap = FALSE /\ told = NoRate

Next == Resolve

Spec == Init /\ [][Next]_vars

-----------------------------------------------------------------------------
(* Properties                                                              *)

Resolved == verdict = "resolved"

\* What was accepted can be made: PcmConverter, which is built when the vendor
\* is already speaking and raises on what it cannot do, gets pcm of a rate the
\* adapter has, and the ratio is a whole number (resolver.py:256-265,
\* pcm_codec.py:100-104).
ConversionIsPossible ==
    Resolved /\ wrap => /\ asked.format = "pcm" /\ "pcm" \in C.formats /\ asked.rate \in C.rates
                        /\ Divides(told, asked.rate) /\ format \in PcmFamily

\* The rate the client reads in the Content-Type is the rate of the bytes: that
\* of the vendor when nothing is converted (resolver.py:205-208, 258).
ToldRateIsTheirs == Resolved /\ ~wrap => told = asked.rate /\ asked.format = format

\* Every rate the catalog lists is served in every format it lists
\* (resolver.py:250-265).
ListedIsServed ==
    verdict \notin {"none", "resolved"} =>
        format \notin Listed \/ (format \in PcmFamily /\ Wanted \notin C.listed)
        \/ (format \notin PcmFamily /\ rate # NoRate)

\* What the comment on native_rates says (resolver.py:244-245, base.py:158-159):
\* the adapter is asked only for what it produces itself.  It fails for G.711 at
\* the adapter's own pcm rate.
AskedIsNative ==
    Resolved /\ asked.format \in PcmFamily => asked.rate \in RatesOf(asked.format)
=============================================================================
