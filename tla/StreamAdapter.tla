--------------------------- MODULE StreamAdapter ---------------------------
(***************************************************************************)
(* The life of one streaming speech-to-text adapter between the session    *)
(* and its vendor: connect, send_audio, events, finish, close and the      *)
(* keepalive loop, for the vendors of src/gateway/.../providers that hold  *)
(* one upstream connection.  The vendor is chosen at the start; what it    *)
(* may say (the operators below the line "the vendor") follows the         *)
(* protocol facts its adapter is written against.  A definition named as a *)
(* mutant in PROJECT.json stands just before the one it would replace.     *)
(***************************************************************************)
EXTENDS VendorMessages, TLC

CONSTANTS
  Vendors,      \* the adapters to look at
  Chunks,       \* bound: chunks of audio in the session
  AckWindow,    \* ACK_WINDOW of Speechmatics
  MaxSilence,   \* bound: keepalive silences of AWS
  Termination,  \* chunks in which the speaker says the word "Termination"
  Answers       \* whether OpenAI and ElevenLabs answer a commit of nothing

(* The adapters that hold one upstream connection; Meta's has two modes.     *)
Dialects ==
  {"deepgram", "flux", "soniox", "assemblyai", "elevenlabs", "openai", "mistral", "cartesia",
   "turns", "aws", "telnyx", "speechmatics", "azure", "xai", "palabra", "meta", "meta_ptt"}

ASSUME StreamAssumption ==
  /\ Vendors \subseteq Dialects
  /\ {Chunks, MaxSilence} \subseteq Nat /\ AckWindow \in Nat \ {0}
  /\ Termination \subseteq 1 .. Chunks /\ Answers \in BOOLEAN

VARIABLES
  vendor,
  ws,        \* "none" | "dialing" | "open" | "ok" | a code it was closed with
  sent,      \* chunks send_audio has sent
  finished,  \* _finished
  feeder,    \* "feeding" | "grace" | "done" | "dead"
  reader,    \* events(): "none" | "recv" | "timed" | "returned" | "raised"
  failure,   \* "none" | "recoverable" | "fatal": what was raised
  closed,    \* _closed
  st,        \* what the parse keeps between messages
  out,       \* the events the adapter yielded
  down,      \* messages of the vendor not yet received
  at,        \* at[i]: where chunk i ends on the vendor's own timeline
  vd         \* what the vendor has said and been told

adapterVars == <<ws, sent, finished, feeder, reader, failure, closed, st, out>>
vendorVars == <<down, at, vd>>
vars == <<vendor, adapterVars, vendorVars>>

Codes == {"internal", "policy", "lost"}  \* 1011, 1008, and no close frame at all
Heard == Len(at)

----------------------------------------------------------------------------
(* The adapters' classes, by what tells them apart: whether connect() has  *)
(* more to do once the socket is open, whether events() gives each recv()  *)
(* a timeout once finished, and the closes no fresh connection helps with. *)
Stream(handshake, drains, fatal) ==
  [handshake |-> handshake, drains |-> drains, fatal |-> fatal]

DeepgramStream == Stream(FALSE, FALSE, {"policy"})
FluxStream == Stream(FALSE, FALSE, {"policy"})
SonioxStream == Stream(TRUE, FALSE, {})
AssemblyStream == Stream(FALSE, FALSE, {"policy", "lost"})
ElevenStream == Stream(FALSE, TRUE, {"policy"})
OpenAIStream == Stream(TRUE, TRUE, {"policy"})
MistralStream == Stream(TRUE, FALSE, {"policy"})
CartesiaStream == Stream(FALSE, FALSE, {"policy"})
TurnsStream == Stream(FALSE, FALSE, {"policy"})
AWSStream == Stream(FALSE, FALSE, {"policy", "lost"})
TelnyxStream == Stream(FALSE, FALSE, {"internal"})
SpeechmaticsStream == Stream(TRUE, FALSE, {"policy", "lost"})
AzureStream == Stream(FALSE, FALSE, {})
XaiStream == Stream(TRUE, FALSE, {})
PalabraStream == Stream(FALSE, FALSE, {"policy"})
MetaStream == Stream(TRUE, FALSE, {"policy"})

Meta == {"meta", "meta_ptt"}  \* one adapter, in its default and push-to-talk modes

Self ==
  CASE vendor = "deepgram" -> DeepgramStream [] vendor = "flux" -> FluxStream
    [] vendor = "soniox" -> SonioxStream [] vendor = "assemblyai" -> AssemblyStream
    [] vendor = "elevenlabs" -> ElevenStream [] vendor = "openai" -> OpenAIStream
    [] vendor = "mistral" -> MistralStream [] vendor = "cartesia" -> CartesiaStream
    [] vendor = "turns" -> TurnsStream [] vendor = "aws" -> AWSStream
    [] vendor = "telnyx" -> TelnyxStream [] vendor = "speechmatics" -> SpeechmaticsStream
    [] vendor = "azure" -> AzureStream [] vendor = "xai" -> XaiStream
    [] vendor = "palabra" -> PalabraStream [] vendor \in Meta -> MetaStream

Parse(m) ==
  CASE vendor = "deepgram" -> DeepgramParse(m, st) [] vendor = "flux" -> FluxParse(m, st)
    [] vendor = "soniox" -> SonioxParse(m, st) [] vendor = "assemblyai" -> AssemblyParse(m, st)
    [] vendor = "elevenlabs" -> ElevenParse(m, st) [] vendor = "openai" -> OpenAIParse(m, st)
    [] vendor = "mistral" -> MistralParse(m, st) [] vendor = "cartesia" -> CartesiaParse(m, st)
    [] vendor = "turns" -> TurnsParse(m, st, sent) [] vendor = "aws" -> AWSParse(m, st)
    [] vendor = "telnyx" -> TelnyxParse(m, st)
    [] vendor = "speechmatics" -> SpeechmaticsParse(m, st)
    [] vendor = "azure" -> AzureParse(m, st) [] vendor = "xai" -> XaiParse(m, st)
    [] vendor = "palabra" -> PalabraParse(m, st)
    [] vendor \in Meta -> MetaParse(m, st, vendor = "meta_ptt")

Fresh(v) ==
  CASE v = "deepgram" -> -1 [] v = "flux" -> <<>>
    [] v = "soniox" -> [pending |-> {}, max |-> 0]
    [] v = "openai" -> [item \in 0 .. Chunks |-> {}]
    [] v = "mistral" -> [hypothesis |-> {}, segments |-> 0]
    [] v = "xai" -> [start |-> NoTime, locked |-> {}, locked_end |-> 0, final |-> 0,
                     done |-> FALSE, error |-> FALSE]
    [] v \in Meta -> [turn |-> NoTime, starts |-> [t \in 0 .. Chunks |-> NoTime],
                      ends |-> [t \in 0 .. Chunks |-> NoTime], seen |-> FALSE, error |-> FALSE]
    [] OTHER -> 0

Init ==
  /\ vendor \in Vendors
  /\ ws = "none" /\ sent = 0 /\ finished = FALSE /\ feeder = "feeding"
  /\ reader = "none" /\ failure = "none" /\ closed = FALSE
  /\ st = Fresh(vendor) /\ out = <<>> /\ down = <<>> /\ at = <<>>
  /\ vd = [final |-> 0, prov |-> 0, pointed |-> 0, locked |-> 0, items |-> 0, acked |-> 0,
           silence |-> 0, eos |-> FALSE, bye |-> FALSE, broke |-> FALSE]

----------------------------------------------------------------------------
(* connect(): ws_connect, then what the vendor wants before audio.  When   *)
(* that fails the session goes to its next attempt and closes nothing; xAI *)
(* and Meta close their own socket.                                        *)
Dial ==
  /\ ws = "none" /\ reader = "none"
  /\ IF Self.handshake THEN ws' = "dialing" /\ UNCHANGED reader
     ELSE ws' = "open" /\ reader' = "recv"
  /\ UNCHANGED <<vendor, sent, finished, feeder, failure, closed, st, out, vendorVars>>

HandshakeDone ==
  /\ ws = "dialing" /\ reader = "none" /\ ws' = "open" /\ reader' = "recv"
  /\ UNCHANGED <<vendor, sent, finished, feeder, failure, closed, st, out, vendorVars>>

ConnectFails ==
  /\ ws \in {"none", "dialing"} /\ reader = "none"
  /\ reader' = "raised" /\ failure' = "recoverable" /\ feeder' = "dead"
  /\ LET shut == ws = "dialing" /\ vendor \in Meta \cup {"xai"}
     IN ws' = (IF shut THEN "ok" ELSE ws) /\ closed' = shut
  /\ UNCHANGED <<vendor, sent, finished, st, out, vendorVars>>

Fed(n) == [c \in 1 .. n |-> c]

SendUncounted ==
  /\ feeder = "feeding" /\ ws = "open" /\ ~finished /\ Heard < Chunks
  /\ at' = Append(at, sent + 1) /\ UNCHANGED <<vendor, adapterVars, down, vd>>

SendPastWindow ==
  /\ feeder = "feeding" /\ ws = "open" /\ ~finished /\ sent < Chunks
  /\ sent' = sent + 1 /\ at' = Append(at, sent + 1)
  /\ UNCHANGED <<vendor, ws, finished, feeder, reader, failure, closed, st, out, down, vd>>

(* The session's two tasks are one task group: when one fails, the other is *)
(* cancelled.                                                               *)
Cancelled == IF feeder = "done" THEN "done" ELSE "dead"

(* send_audio(): Speechmatics waits while a window of chunks is            *)
(* unacknowledged; Palabra keeps what does not fill a frame of its own size *)
SendAudio ==
  /\ feeder = "feeding" /\ ws = "open" /\ ~finished /\ sent < Chunks
  /\ vendor = "speechmatics" => sent - st < AckWindow
  /\ sent' = sent + 1
  /\ IF vendor = "palabra" THEN \E kept \in {0, 1} : at' = Fed(sent + 1 - kept)
     ELSE at' = Append(at, sent + 1 + vd.silence)
  /\ UNCHANGED <<vendor, ws, finished, feeder, reader, failure, closed, st, out, down, vd>>

SendFails ==
  /\ feeder = "feeding" /\ ws \in Codes \cup {"ok"} /\ ~finished /\ sent < Chunks
  /\ feeder' = "dead" /\ reader' = IF reader = "returned" THEN "returned" ELSE "raised"
  /\ UNCHANGED <<vendor, ws, sent, finished, failure, closed, st, out, vendorVars>>

(* the keepalive loop of AWS sends silence: audio the vendor counts *)
KeepAlive ==
  /\ vendor = "aws" /\ ws = "open" /\ ~finished /\ vd.silence < MaxSilence
  /\ vd' = [vd EXCEPT !.silence = @ + 1]
  /\ UNCHANGED <<vendor, adapterVars, down, at>>

(* finish(): the vendor is told, unless the socket is gone already.        *)
(* Telnyx has nothing to tell, and Palabra sends what it kept and silence: *)
(* they wait a grace period and hang up.                                   *)
Finish ==
  /\ feeder = "feeding" /\ ws \in Codes \cup {"open", "ok"} /\ ~finished
  /\ finished' = TRUE
  /\ feeder' = IF vendor \in {"telnyx", "palabra"} THEN "grace" ELSE "done"
  /\ at' = IF vendor = "palabra" /\ ws = "open" THEN Fed(sent) ELSE at
  /\ vd' = [vd EXCEPT !.eos = (ws = "open" /\ vendor \notin {"telnyx", "palabra"})]
  /\ UNCHANGED <<vendor, ws, sent, reader, failure, closed, st, out, down>>

GraceEnds ==
  /\ feeder = "grace" /\ feeder' = "done"
  /\ ws' = IF ws = "open" THEN "ok" ELSE ws
  /\ UNCHANGED <<vendor, sent, finished, reader, failure, closed, st, out, vendorVars>>

----------------------------------------------------------------------------
NeverTimed == "recv"
AlwaysTimed == IF Self.drains THEN "timed" ELSE "recv"

(* events(): one message.  The vendors with a drain look at _finished when *)
(* they start to wait: a wait begun before finish() has no timeout.        *)
Waits == IF Self.drains /\ finished THEN "timed" ELSE "recv"

Receive ==
  /\ reader \in {"recv", "timed"} /\ down # <<>>
  /\ LET r == Parse(Head(down))
     IN /\ out' = out \o r.out /\ st' = r.st
        /\ reader' = CASE r.then = "read" -> Waits [] r.then = "return" -> "returned"
                       [] OTHER -> "raised"
        /\ failure' = IF r.then \in {"recoverable", "fatal"} THEN r.then ELSE failure
        /\ feeder' = IF r.then \in {"recoverable", "fatal"} THEN Cancelled ELSE feeder
  /\ down' = Tail(down)
  /\ UNCHANGED <<vendor, ws, sent, finished, closed, at, vd>>

(* the socket is closed: a clean end if normally, or once finished, except *)
(* that an error frame came before it (xAI and Meta), or xAI did not say    *)
(* it was done.  Flux then makes its newest Update final.                  *)
EndsClean ==
  CASE vendor = "xai" -> st.done \/ (finished /\ (ws = "ok" \/ ~st.error))
    [] vendor \in Meta -> ~st.error /\ (ws = "ok" \/ finished)
    [] OTHER -> ws = "ok" \/ finished

ReadsClose ==
  /\ reader \in {"recv", "timed"} /\ down = <<>> /\ ws \in Codes \cup {"ok"}
  /\ reader' = IF EndsClean THEN "returned" ELSE "raised"
  /\ out' = IF EndsClean /\ vendor = "flux" THEN out \o FluxAtClose(st) ELSE out
  /\ failure' = IF EndsClean THEN failure
                ELSE IF ws \in Self.fatal THEN "fatal" ELSE "recoverable"
  /\ feeder' = IF EndsClean THEN feeder ELSE Cancelled
  /\ UNCHANGED <<vendor, ws, sent, finished, closed, st, vendorVars>>

DrainTimesOut ==
  /\ reader = "timed" /\ down = <<>> /\ reader' = "returned"
  /\ UNCHANGED <<vendor, ws, sent, finished, feeder, failure, closed, st, out, vendorVars>>

(* close(): the session's, once both tasks ended or one of them failed *)
Close ==
  /\ ~closed /\ ws \notin {"none", "dialing"}
  /\ reader \in {"returned", "raised"} /\ feeder \in {"done", "dead"}
  /\ closed' = TRUE /\ ws' = IF ws = "open" THEN "ok" ELSE ws
  /\ UNCHANGED <<vendor, sent, finished, feeder, reader, failure, st, out, vendorVars>>

----------------------------------------------------------------------------
(* The vendor.  It transcribes what it heard: provisionally all of it, or  *)
(* finally up to some chunk b; each wire says so in its own messages.      *)
Wire(kind, a, b) ==
  [kind |-> kind, text |-> a .. b, final |-> FALSE, ends |-> FALSE, formatted |-> FALSE,
   start |-> IF a \in 1 .. Heard THEN at[a] - 1 ELSE NoTime,
   end |-> IF b \in 1 .. Heard THEN at[b] ELSE NoTime,
   word |-> vendor = "assemblyai" /\ kind = "Turn" /\ (a .. b) \cap Termination # {},
   item |-> vd.items, at |-> vd.final, seq_no |-> Heard,
   fin |-> {}, non |-> {}, finished |-> FALSE, locks |-> FALSE, server |-> TRUE]
Finally(m) == [m EXCEPT !.final = TRUE]
Ending(m) == [m EXCEPT !.ends = TRUE]
Tokens(fin, non) == [Wire("tokens", 0, -1) EXCEPT !.fin = fin, !.non = non]

Names == [deepgram |-> "Results", flux |-> "TurnInfo", assemblyai |-> "Turn",
          elevenlabs |-> "partial", cartesia |-> "transcript", turns |-> "turn.update",
          aws |-> "Result", speechmatics |-> "AddPartialTranscript", azure |-> "interim",
          xai |-> "transcript.partial", palabra |-> "transcription", meta |-> "transcript",
          meta_ptt |-> "transcript"]

(* xAI does not say whether an event repeats the locked text; an event of  *)
(* no new words starts where it ends                                       *)
Since(kind, a, b) ==
  {[Wire(kind, from, b) EXCEPT !.start = IF from > b THEN at[b] ELSE @] :
     from \in {a} \cup {c \in {vd.locked + 1} : vd.locked >= a}}
Starts(turn, a) == [Wire("speechStart", a, a - 1) EXCEPT !.item = turn, !.at = a - 1]

Provisionals(a, h) ==
  CASE vendor = "soniox" -> {<<Tokens({}, a .. h)>>}
    [] vendor \in {"openai", "mistral"} -> {<<Wire("delta", vd.prov + 1, h)>>}
    [] vendor = "xai" -> {<<m>> : m \in Since("transcript.partial", a, h)}
    [] vendor = "meta" ->
         {IF vd.prov > vd.final THEN <<Wire("transcript", a, h)>>
          ELSE <<Starts(vd.items, a), Wire("transcript", a, h)>>}
    [] OTHER -> {<<Wire(Names[vendor], a, h)>>}

FinalWires(a, b, h) ==
  LET m == Wire("final", a, b) IN
  CASE vendor = "deepgram" -> {<<[Finally(m) EXCEPT !.kind = "Results", !.ends = e]>> : e \in BOOLEAN}
    [] vendor \in {"flux", "aws", "cartesia", "palabra", "telnyx"} ->
         {<<[Finally(m) EXCEPT !.kind = IF vendor = "telnyx" THEN "transcript" ELSE Names[vendor]]>>}
    [] vendor = "xai" -> {<<Finally(w)>> : w \in Since("transcript.partial", a, b)}
    [] vendor = "meta" ->
         LET ended == [Wire("speechEnd", a, b) EXCEPT !.at = at[b]]
             done == [m EXCEPT !.kind = "speechComplete"]
         IN {<<ended, done>>} \cup
            IF h = b THEN {}
            ELSE {<<ended, Starts(vd.items + 1, b + 1), Wire("transcript", b + 1, h), done>>}
    [] vendor = "meta_ptt" ->
         LET said == [Finally(m) EXCEPT !.kind = "transcript"]
             done == [m EXCEPT !.kind = "speechComplete"]
         IN {<<said>>, <<said, done>>, <<done>>}
    [] vendor = "soniox" ->
         {<<[Tokens(from .. b, rest) EXCEPT !.ends = e]>> :
            from \in {a, IF a > 1 THEN a - 1 ELSE a}, rest \in {{}, b + 1 .. h}, e \in BOOLEAN}
    [] vendor = "assemblyai" ->
         LET turn == Ending(Wire("Turn", a, b)) IN {<<turn, [turn EXCEPT !.formatted = TRUE]>>}
    [] vendor = "elevenlabs" ->
         {<<[m EXCEPT !.kind = "committed"], [m EXCEPT !.kind = "committed_with_timestamps"]>>}
    [] vendor = "openai" ->
         LET stopped == [Wire("speech_stopped", a, b) EXCEPT !.at = b]
             next == [Wire("delta", b + 1, h) EXCEPT !.item = vd.items + 1]
             done == [m EXCEPT !.kind = "completed"]
         IN {<<stopped, done>>} \cup IF h > b THEN {<<stopped, next, done>>} ELSE {}
    [] vendor = "mistral" -> {<<[m EXCEPT !.kind = "segment"]>>}
    [] vendor = "turns" -> {<<[m EXCEPT !.kind = "turn.end"]>>}
    [] vendor = "speechmatics" -> {<<[m EXCEPT !.kind = "AddTranscript"]>>}
    [] vendor = "azure" -> {<<m>>}

Listens == ws = "open" /\ reader \in {"recv", "timed"} /\ ~vd.bye

SaysPartial ==
  /\ Listens /\ vendor # "telnyx" /\ Heard > vd.prov
  /\ \E ms \in Provisionals(vd.final + 1, Heard) : down' = down \o ms
  /\ vd' = [vd EXCEPT !.prov = Heard]
  /\ UNCHANGED <<vendor, adapterVars, at>>

(* what is provisional in deltas is settled whole; the others may split it *)
SaysFinal ==
  /\ Listens
  /\ \E b \in vd.final + 1 .. Heard :
       /\ vendor \in {"openai", "mistral"} => b >= vd.prov
       /\ vendor = "xai" => b >= vd.locked
       /\ vendor = "meta_ptt" => vd.eos /\ b = Heard
       /\ \E ms \in FinalWires(vd.final + 1, b, Heard) :
            /\ down' = down \o ms
            /\ vd' = [vd EXCEPT !.final = b, !.items = @ + 1,
                                !.prov = IF vendor \in {"openai", "meta"} /\ Len(ms) > 2
                                         THEN Heard ELSE b]
  /\ UNCHANGED <<vendor, adapterVars, at>>

(* xAI locks the words of a few seconds while the utterance goes on *)
Locks ==
  /\ Listens /\ vendor = "xai"
  /\ Heard > vd.final /\ Heard > vd.locked
  /\ \E m \in Since("transcript.partial", vd.final + 1, Heard) :
       down' = Append(down, [m EXCEPT !.locks = TRUE])
  /\ vd' = [vd EXCEPT !.locked = Heard]
  /\ UNCHANGED <<vendor, adapterVars, at>>

SaysEndpoint ==
  /\ Listens /\ vendor \in {"deepgram", "speechmatics"} /\ vd.pointed < vd.final
  /\ down' = Append(down, Wire(IF vendor = "deepgram" THEN "UtteranceEnd" ELSE "EndOfUtterance", 0, -1))
  /\ vd' = [vd EXCEPT !.pointed = vd.final]
  /\ UNCHANGED <<vendor, adapterVars, at>>

Acknowledges ==
  /\ Listens /\ vendor = "speechmatics" /\ vd.acked < Heard
  /\ down' = Append(down, Wire("AudioAdded", 0, -1))
  /\ vd' = [vd EXCEPT !.acked = Heard]
  /\ UNCHANGED <<vendor, adapterVars, at>>

(* the answer of the vendors that never say goodbye to a commit *)
AnswersCommit ==
  /\ Listens /\ Answers /\ Self.drains /\ vd.eos /\ vd.pointed # -1
  /\ down' = Append(down, Wire("commit", 0, -1))
  /\ vd' = [vd EXCEPT !.pointed = -1]
  /\ UNCHANGED <<vendor, adapterVars, at>>

(* told the audio is over, and having flushed it, the vendor says so; Flux *)
(* may stop in the middle of a turn, Soniox flush with the last message,   *)
(* Mistral send no segment at all but one full text; the text of xAI is of *)
(* the whole session, of what is not final, or of what is not locked       *)
Goodbyes ==
  CASE vendor = "deepgram" -> {<<Wire("Metadata", 0, -1)>>}
    [] vendor = "soniox" -> {<<[Tokens(vd.final + 1 .. Heard, {}) EXCEPT !.finished = TRUE]>>}
    [] vendor = "assemblyai" -> {<<Wire("Termination", 0, -1)>>}
    [] vendor = "cartesia" -> {<<Wire("flush_done", 0, -1), Wire("done", 0, -1)>>}
    [] vendor = "mistral" -> {<<Wire("done", 1, Heard)>>}
    [] vendor = "speechmatics" -> {<<Wire("EndOfTranscript", 0, -1)>>}
    [] vendor = "azure" -> {<<Wire("END", 0, -1)>>}
    [] vendor = "xai" ->
         {<<[Wire("transcript.done", from, Heard) EXCEPT !.fin = from .. Heard]>> :
            from \in {1, vd.final + 1} \cup {c \in {vd.locked + 1} : c > vd.final}}
    [] OTHER -> {<<>>}

SaysGoodbye ==
  /\ Listens /\ vd.eos /\ ~Self.drains
  /\ \/ vd.final = Heard
     \/ vendor = "flux" /\ vd.prov = Heard
     \/ vendor \in {"soniox", "xai"}
     \/ vendor = "mistral" /\ vd.final = 0
  /\ \E ms \in Goodbyes : down' = down \o ms
  /\ vd' = [vd EXCEPT !.bye = TRUE, !.final = Heard]
  /\ UNCHANGED <<vendor, adapterVars, at>>

HangsUp ==
  /\ ws = "open" /\ vd.bye /\ vendor # "azure" /\ ws' = "ok"
  /\ UNCHANGED <<vendor, sent, finished, feeder, reader, failure, closed, st, out, vendorVars>>

(* it fails: the socket closes, or an error frame comes.  The SDK of Azure *)
(* cancels instead; its callback looks at _finished.                       *)
Breaks ==
  /\ ws = "open" /\ vendor # "azure" /\ ws' \in Codes
  /\ UNCHANGED <<vendor, sent, finished, feeder, reader, failure, closed, st, out, vendorVars>>

(* their adapters treat every error frame alike *)
Unasked == Meta \cup {"flux", "telnyx", "azure", "xai", "palabra"}

SaysError ==
  /\ Listens
  /\ \E kind \in {"error", "END"}, server \in BOOLEAN :
       /\ vendor \in Unasked => server
       /\ IF vendor = "azure" THEN kind = (IF finished THEN "END" ELSE "error")
          ELSE kind = "error" /\ vendor # "deepgram"
       /\ down' = Append(down, [Wire(kind, 0, -1) EXCEPT !.server = server])
  /\ vd' = [vd EXCEPT !.bye = TRUE, !.broke = TRUE]
  /\ UNCHANGED <<vendor, adapterVars, at>>

VendorNext ==
  \/ SaysPartial \/ SaysFinal \/ Locks \/ SaysEndpoint \/ Acknowledges \/ AnswersCommit
  \/ SaysGoodbye \/ HangsUp \/ Breaks \/ SaysError

Events == Receive \/ ReadsClose \/ DrainTimesOut
Feeder == SendAudio \/ SendFails \/ Finish \/ GraceEnds

Next == Dial \/ HandshakeDone \/ ConnectFails \/ Feeder \/ KeepAlive \/ Events \/ Close \/ VendorNext

(* The event loop runs every task that can; a vendor that was told the     *)
(* audio is over flushes it, answers and hangs up.                         *)
Fairness ==
  /\ WF_vars(Events) /\ WF_vars(Close) /\ WF_vars(GraceEnds)
  /\ WF_vars(SaysFinal /\ finished) /\ WF_vars(SaysGoodbye) /\ WF_vars(HangsUp)
  /\ WF_vars(AnswersCommit) /\ WF_vars(Acknowledges)

Spec == Init /\ [][Next]_vars
FairSpec == Spec /\ Fairness

----------------------------------------------------------------------------
Range(s) == {s[i] : i \in DOMAIN s}
Finals(events) == {i \in DOMAIN events : events[i].type = "transcript" /\ events[i].final}
Settled(events) == UNION {events[i].text : i \in Finals(events)}

TypeOK ==
  /\ vendor \in Vendors /\ ws \in {"none", "dialing", "open", "ok"} \cup Codes
  /\ sent \in 0 .. Chunks /\ Heard <= sent /\ finished \in BOOLEAN /\ closed \in BOOLEAN
  /\ feeder \in {"feeding", "grace", "done", "dead"}
  /\ reader \in {"none", "recv", "timed", "returned", "raised"}
  /\ failure \in {"none", "recoverable", "fatal"}
  /\ \A e \in Range(out) :
       e \in [type : {"transcript"}, final : BOOLEAN, text : SUBSET (1 .. Chunks),
              start : Int, end : Int] \cup [type : {"utterance_end"}, at : Int]

(* No word is made final twice, whatever a vendor repeats: the unformatted  *)
(* copy, the plain commit, late tokens, the full text after segments, an    *)
(* Update a turn's end has replaced.                                        *)
NoWordTwice ==
  \A i, j \in Finals(out) : i # j => out[i].text \cap out[j].text = {}

(* Nor is one lost: when events() ends without an error on a socket that    *)
(* did not break, every word the vendor settled was yielded as final.       *)
NoWordLost ==
  reader = "returned" /\ ws \notin Codes /\ ~vd.broke => Settled(out) = 1 .. vd.final

(* An interim replaces what is not final yet: it never shows a word again   *)
(* that a final before it settled.                                          *)
InterimsAreNew ==
  \A i \in DOMAIN out, j \in Finals(out) :
    out[i].type = "transcript" /\ ~out[i].final /\ j < i => out[i].text \cap out[j].text = {}

(* Where the endpoint comes from the message of the final itself, the words *)
(* it closes come first: no later final reaches back before it.             *)
EndpointsCloseWhatWasSaid ==
  vendor \in {"deepgram", "soniox", "assemblyai", "flux", "aws", "speechmatics", "xai"} =>
    \A i \in DOMAIN out, j \in Finals(out) :
      out[i].type = "utterance_end" /\ i < j => out[j].start >= out[i].at

(* Times are seconds of the audio the session fed, as base.py asks: what    *)
(* the session adds its offset to, and replays from after a failover.       *)
TimesAreOfTheAudio ==
  \A i \in Finals(out) :
    out[i].end # NoTime => out[i].text = out[i].start + 1 .. out[i].end

(* Backpressure: never more than the window is unacknowledged.              *)
WindowHolds == vendor = "speechmatics" => sent - st <= AckWindow

(* What an adapter tells the session: every word once, in its place.        *)
WordsAreKept ==
  TypeOK /\ NoWordTwice /\ NoWordLost /\ InterimsAreNew /\ EndpointsCloseWhatWasSaid
    /\ WindowHolds

(* Every adapter keeps the contract of base.py: what events() may yield and *)
(* when it may end, and that after finish() it does, one way or the other.  *)
Stage ==
  IF reader = "returned" THEN "exhausted" ELSE IF reader = "raised" THEN "failed"
  ELSE IF reader = "none" THEN "new" ELSE IF finished THEN "finished" ELSE "ready"
Contract == INSTANCE StreamContract WITH stage <- Stage, fed <- sent, said <- Settled(out)
KeepsContract == Contract!ContractSpec /\ Contract!FinishedEnds

(* A connection the network dropped is one the failover engine replaces.    *)
LostConnectionFailsOver == ws = "lost" /\ reader = "raised" => failure # "fatal"

(* A clean end means the vendor flushed what it was fed.                    *)
CleanEndMeansFlushed == reader = "returned" => Settled(out) = 1 .. sent

(* events() is exhausted only after finish().                               *)
EndsOnlyWhenFinished == reader = "returned" => finished

(* An attempt that is over holds no socket.                                 *)
NoSocketOutlivesItsAttempt == reader = "raised" /\ feeder = "dead" => ws # "dialing"
============================================================================
