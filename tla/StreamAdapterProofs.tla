------------------------ MODULE StreamAdapterProofs ------------------------
(***************************************************************************)
(* What TLAPS proves about StreamAdapter, for every set of its dialects,   *)
(* every number of chunks and every size of the window: a word a vendor    *)
(* says is neither lost nor doubled, and the adapter keeps the contract    *)
(* the session relies on.                                                  *)
(*                                                                         *)
(* The proof follows the messages on their way.  A view is what an adapter *)
(* holds between two messages; each message of a dialect takes one view to *)
(* another (the parsers' part), the messages queued in `down` lead from    *)
(* the view the adapter is in to the one its vendor has spoken up to       *)
(* (StoryInv), and what it yielded so far is what its view says            *)
(* (ToldInv).  The theorems are at the end.                                *)
(***************************************************************************)
EXTENDS StreamAdapter, TLAPS

(* Parse, of any vendor v and parser state s, with c chunks sent so far.   *)
Heeds(v, m, s, c) ==
  CASE v = "deepgram" -> DeepgramParse(m, s) [] v = "flux" -> FluxParse(m, s)
    [] v = "soniox" -> SonioxParse(m, s) [] v = "assemblyai" -> AssemblyParse(m, s)
    [] v = "elevenlabs" -> ElevenParse(m, s) [] v = "openai" -> OpenAIParse(m, s)
    [] v = "mistral" -> MistralParse(m, s) [] v = "cartesia" -> CartesiaParse(m, s)
    [] v = "turns" -> TurnsParse(m, s, c) [] v = "aws" -> AWSParse(m, s)
    [] v = "telnyx" -> TelnyxParse(m, s)
    [] v = "speechmatics" -> SpeechmaticsParse(m, s)
    [] v = "azure" -> AzureParse(m, s) [] v = "xai" -> XaiParse(m, s)
    [] v = "palabra" -> PalabraParse(m, s)
    [] v \in Meta -> MetaParse(m, s, v = "meta_ptt")

(* A view is where the adapter stands between two messages of its vendor:  *)
(* chunks 1 .. final have been yielded as final, at `time` the last        *)
(* endpoint was; what `more`, `item`, `ahead` and `seen` say is up to the  *)
(* vendor (Knows).  After an error frame a view is erred, after a goodbye  *)
(* told, and over when the loop reads no more.                             *)
Views ==
  [final : 0 .. Chunks, more : 0 .. Chunks, time : Nat, item : 0 .. Chunks,
   ahead : 0 .. Chunks, seen : BOOLEAN, erred : BOOLEAN, told : BOOLEAN, over : BOOLEAN]

(* The parser state s of the adapter of v in view g: Flux has an Update up *)
(* to `more`, Soniox tokens pending up to there, xAI a locked text; the    *)
(* deltas of OpenAI are of its item, and of the next beyond `ahead`.       *)
MetaState ==
  [turn : {NoTime} \cup 0 .. Chunks, starts : [0 .. Chunks -> Int],
   ends : [0 .. Chunks -> Int], seen : BOOLEAN, error : BOOLEAN]
XaiState ==
  [start : Int, locked : SUBSET (1 .. Chunks), locked_end : Int, final : Int,
   done : BOOLEAN, error : BOOLEAN]

FluxKnows(g, s) ==
  s = IF g.more = g.final THEN <<>>
      ELSE <<Transcript(FALSE, g.final + 1 .. g.more, g.final, g.more)>>
SonioxKnows(g, s) == s = [pending |-> g.final + 1 .. g.more, max |-> g.more]
OpenAIKnows(g, s) ==
  /\ s \in [0 .. Chunks -> SUBSET (1 .. Chunks)]
  /\ s[g.item] \subseteq g.final + 1 .. Chunks
  /\ \A i \in 0 .. Chunks : /\ i = g.item + 1 => s[i] \subseteq g.ahead + 1 .. Chunks
                            /\ i > g.item + 1 => s[i] = {}
MistralKnows(g, s) ==
  /\ s \in [hypothesis : SUBSET (g.final + 1 .. Chunks), segments : Nat]
  /\ s.segments = 0 <=> g.final = 0
XaiKnows(g, s) ==
  /\ s \in XaiState
  /\ s.final = g.final /\ s.locked = g.final + 1 .. g.more
  /\ s.locked_end = IF g.more = g.final THEN 0 ELSE g.more
  /\ s.start \in {NoTime, g.final} /\ (g.more > g.final => s.start = g.final)
  /\ s.done => g.told
MetaKnows(v, g, s) ==
  s \in MetaState /\ (v = "meta_ptt" => s.seen = g.seen) /\ (g.erred => s.error)

Knows(v, g, s) ==
  /\ v \in {"deepgram", "speechmatics"} => s \in Int
  /\ v = "speechmatics" => s >= 0
  /\ v = "flux" => FluxKnows(g, s)
  /\ v = "soniox" => SonioxKnows(g, s)
  /\ v = "openai" => OpenAIKnows(g, s)
  /\ v = "mistral" => MistralKnows(g, s)
  /\ v = "xai" => XaiKnows(g, s)
  /\ v \in Meta => MetaKnows(v, g, s)

(* The vendors whose endpoints come with their finals.                     *)
Pointing == {"deepgram", "soniox", "assemblyai", "flux", "aws", "speechmatics", "xai"}

Event ==
  [type : {"transcript"}, final : BOOLEAN, text : SUBSET (1 .. Chunks), start : Int, end : Int]
    \cup [type : {"utterance_end"}, at : Int]

(* What may be yielded between finals, and the final that takes view g to h *)
Harmless(v, e, g) ==
  \/ \E text \in SUBSET (g.final + 1 .. Chunks), a, b \in Int : e = Transcript(FALSE, text, a, b)
  \/ \E a \in Int : e = UtteranceEnd(a) /\ (v \in Pointing => a <= g.time)
Settles(v, e, g, h) ==
  \E a, b \in Int :
    e = Transcript(TRUE, g.final + 1 .. h.final, a, b) /\ (v \in Pointing => a >= g.time)

(* Events that take view g to h: first a final, if any.                    *)
Good(v, events, g, h) ==
  /\ events \in Seq(Event) /\ Len(events) <= 3 /\ g.time <= h.time
  /\ \/ /\ g.final = h.final
        /\ \A i \in 1 .. Len(events) : Harmless(v, events[i], h)
     \/ /\ g.final < h.final /\ Len(events) > 0 /\ Settles(v, events[1], g, h)
        /\ \A i \in 2 .. Len(events) : Harmless(v, events[i], h)

(* What parsing comes to.                                                  *)
Takes(v, r, g, h, s) ==
  /\ Good(v, r.out, g, h)
  /\ \/ r.then = "read" /\ ~h.over /\ Knows(v, h, r.st)
     \/ r.then = "return" /\ h.over /\ h.told
     \/ r.then \in {"recoverable", "fatal"} /\ h.over /\ r.out = <<>>
  /\ v = "speechmatics" => r.st \in Nat /\ r.st >= s

(* Message m takes any adapter in view g to view h.                        *)
Tells(v, m, g, h) ==
  /\ ~g.over
  /\ \A s : Knows(v, g, s) => \A c \in Nat : Takes(v, Heeds(v, m, s, c), g, h, s)

(* The messages q take view g to h, by views of the n chunks heard so far. *)
Along(n, f, g) ==
  g \in Views /\ g.final <= g.more /\ g.more <= n /\ (g.told => f)
Trace(v, n, f, q, G) ==
  /\ \A k \in 0 .. Len(q) : Along(n, f, G[k])
  /\ \A k \in 1 .. Len(q) : Tells(v, q[k], G[k - 1], G[k])
Leads(v, n, f, q, g, h) ==
  \E G : Trace(v, n, f, q, G) /\ G[0] = g /\ G[Len(q)] = h

----------------------------------------------------------------------------
(* The properties, of any sequence of events.                              *)
Disjoint(o) == \A i, j \in Finals(o) : i # j => o[i].text \cap o[j].text = {}
News(o) ==
  \A i \in DOMAIN o, j \in Finals(o) :
    o[i].type = "transcript" /\ ~o[i].final /\ j < i => o[i].text \cap o[j].text = {}
Closes(v, o) ==
  v \in Pointing =>
    \A i \in DOMAIN o, j \in Finals(o) :
      o[i].type = "utterance_end" /\ i < j => o[j].start >= o[i].at
Heeded(v, o) == o \in Seq(Event) /\ Disjoint(o) /\ News(o) /\ Closes(v, o)
(* and up to view g                                                        *)
UpTo(v, o, g) ==
  /\ Heeded(v, o) /\ Settled(o) = 1 .. g.final
  /\ v \in Pointing => \A i \in DOMAIN o : o[i].type = "utterance_end" => o[i].at <= g.time

----------------------------------------------------------------------------
(* The invariant.                                                          *)
Kinds ==
  {"Results", "UtteranceEnd", "Metadata", "TurnInfo", "tokens", "Turn", "Termination", "partial",
   "committed", "committed_with_timestamps", "delta", "completed", "speech_stopped", "segment",
   "done", "transcript", "flush_done", "turn.update", "turn.end", "Result", "AudioAdded",
   "AddTranscript", "AddPartialTranscript", "EndOfUtterance", "EndOfTranscript", "interim",
   "transcript.partial", "transcript.done", "transcription", "speechStart", "speechEnd",
   "speechComplete", "final", "END", "commit", "error"}
Message ==
  [kind : Kinds, text : SUBSET Int, final : BOOLEAN, ends : BOOLEAN, formatted : BOOLEAN,
   start : Int, end : Int, word : BOOLEAN, item : Int, at : Int, seq_no : Nat,
   fin : SUBSET Int, non : SUBSET Int, finished : BOOLEAN, locks : BOOLEAN, server : BOOLEAN]
VendorType ==
  [final : 0 .. Chunks, prov : 0 .. Chunks, pointed : Int, locked : 0 .. Chunks,
   items : 0 .. Chunks, acked : 0 .. Chunks, silence : Nat,
   eos : BOOLEAN, bye : BOOLEAN, broke : BOOLEAN]

Attentive == reader \in {"none", "recv", "timed"}
Hangers == {"telnyx", "palabra"}

ControlTypes ==
  /\ vendor \in Vendors /\ ws \in {"none", "dialing", "open", "ok"} \cup Codes
  /\ finished \in BOOLEAN /\ closed \in BOOLEAN
  /\ feeder \in {"feeding", "grace", "done", "dead"}
  /\ reader \in {"none", "recv", "timed", "returned", "raised"}
  /\ failure \in {"none", "recoverable", "fatal"}

(* What the vendor heard: chunk i ends at i, but for the silence of AWS.   *)
AudioInv ==
  /\ sent \in 0 .. Chunks /\ at \in Seq(Nat) /\ Len(at) <= sent
  /\ vendor # "palabra" => Len(at) = sent
  /\ vendor # "aws" => vd.silence = 0 /\ \A i \in 1 .. Len(at) : at[i] = i
  /\ \A i \in 1 .. Len(at) : at[i] > 0 /\ at[i] <= sent + vd.silence
  /\ \A i, j \in 1 .. Len(at) : i < j => at[i] < at[j]

VendorInv ==
  /\ vd \in VendorType /\ down \in Seq(Message)
  /\ vd.final <= Len(at) /\ vd.prov <= Len(at) /\ vd.locked <= Len(at) /\ vd.items <= vd.final
  /\ ~vd.bye => vd.final <= vd.prov
  /\ vendor = "meta_ptt" => vd.final = 0 \/ (vd.final = Len(at) /\ vd.eos)
  /\ vd.eos => finished /\ vendor \notin Hangers
  /\ vd.broke => vd.bye
  /\ vd.bye /\ ~vd.broke => vd.eos /\ ~Self.drains

(* How the tasks and the socket stand to each other.                       *)
StageInv ==
  /\ reader = "none" => ws \in {"none", "dialing"} /\ feeder = "feeding"
  /\ ws \in {"none", "dialing"} => reader \in {"none", "raised"}
  /\ reader = "timed" => finished /\ Self.drains
  /\ reader = "raised" => feeder \in {"done", "dead"}
  /\ feeder = "feeding" => ~finished
  /\ feeder = "grace" => vendor \in Hangers
  /\ reader = "returned" \/ feeder \in {"grace", "done"} => finished
  /\ ws = "ok" /\ Attentive => IF vendor \in Hangers THEN vd.bye \/ finished ELSE vd.bye

WindowInv == vendor = "speechmatics" => st \in Nat /\ sent - st <= AckWindow

(* The view d, what the vendor has said, leads to.                         *)
TimeOf(n) == IF n = 0 THEN 0 ELSE at[n]
AtWork(d, g) ==
  /\ ~g.over
  /\ (IF vendor = "soniox" THEN g.more ELSE g.final) = d.final
  /\ vendor = "flux" => g.more = d.prov
  /\ vendor = "xai" => g.more = IF d.locked > d.final THEN d.locked ELSE d.final
  /\ vendor = "openai" => g.item = d.items /\ g.ahead = Chunks
  /\ vendor = "meta_ptt" /\ d.final = 0 => ~g.seen
  /\ vendor \in Pointing => g.time <= TimeOf(g.final)
Matches(d, g) ==
  /\ ~d.bye => AtWork(d, g)
  /\ d.bye /\ ~d.broke => (IF vendor = "flux" THEN g.more ELSE g.final) = d.final
  /\ vendor = "flux" => g.time <= TimeOf(g.final)
  /\ d.broke => g.over \/ vendor = "xai" \/ (vendor \in Meta /\ g.erred)

StoryInv ==
  Attentive => \E g, h : /\ Leads(vendor, Len(at), finished, down, g, h)
                         /\ Knows(vendor, g, st) /\ ~g.over /\ UpTo(vendor, out, g)
                         /\ Matches(vd, h)
(* and for good                                                            *)
ToldInv == Heeded(vendor, out) /\ Settled(out) \subseteq 1 .. sent /\ NoWordLost

AdapterInv ==
  /\ ControlTypes /\ AudioInv /\ VendorInv /\ StageInv /\ WindowInv /\ StoryInv /\ ToldInv

----------------------------------------------------------------------------
(* Sequences of messages.                                                  *)
LEMMA NaturalChunks == Chunks \in Nat /\ AckWindow \in Nat /\ AckWindow > 0
BY StreamAssumption

LEMMA ViewFields ==
  ASSUME NEW g \in Views
  PROVE  /\ g.final \in Nat /\ g.final <= Chunks /\ g.more \in Nat /\ g.more <= Chunks
         /\ g.time \in Nat /\ g.item \in Nat /\ g.item <= Chunks
         /\ g.ahead \in Nat /\ g.ahead <= Chunks
         /\ g.seen \in BOOLEAN /\ g.erred \in BOOLEAN /\ g.told \in BOOLEAN /\ g.over \in BOOLEAN
BY NaturalChunks DEF Views

LEMMA NothingLeads ==
  ASSUME NEW v, NEW n, NEW f, NEW g, NEW h, Leads(v, n, f, <<>>, g, h)
  PROVE  g = h /\ Along(n, f, g)
BY DEF Leads, Trace

LEMMA NothingMore ==
  ASSUME NEW v, NEW n, NEW f, NEW g, Along(n, f, g)
  PROVE  Leads(v, n, f, <<>>, g, g)
<1> DEFINE G == [k \in 0 .. 0 |-> g]
<1>1. Trace(v, n, f, <<>>, G)
  BY DEF Trace
<1> QED
  BY <1>1 DEF Leads

LEMMA OneMore ==
  ASSUME NEW v, NEW n, NEW f, NEW S, NEW q \in Seq(S), NEW m, NEW g, NEW h, NEW i,
         Leads(v, n, f, q, g, h), Tells(v, m, h, i), Along(n, f, i)
  PROVE  Leads(v, n, f, Append(q, m), g, i)
<1>1. PICK G : Trace(v, n, f, q, G) /\ G[0] = g /\ G[Len(q)] = h
  BY DEF Leads
<1> DEFINE r == Append(q, m)
           L == Len(q)
           H == [k \in 0 .. L + 1 |-> IF k = L + 1 THEN i ELSE G[k]]
<1>2. L \in Nat /\ Len(r) = L + 1 /\ r[L + 1] = m /\ \A k \in 1 .. L : r[k] = q[k]
  OBVIOUS
<1>3. \A k \in 0 .. L : H[k] = G[k]
  BY <1>2
<1>4. H[L + 1] = i /\ H[0] = g
  BY <1>1, <1>2
<1> HIDE DEF H
<1>5. \A k \in 0 .. L + 1 : Along(n, f, H[k])
  BY <1>1, <1>2, <1>3, <1>4 DEF Trace
<1>6. \A k \in 1 .. L + 1 : Tells(v, r[k], H[k - 1], H[k])
  <2> TAKE k \in 1 .. L + 1
  <2>1. CASE k = L + 1
    <3>1. H[k - 1] = h
      BY <2>1, <1>1, <1>2, <1>3
    <3> QED
      BY <3>1, <2>1, <1>2, <1>4
  <2>2. CASE k # L + 1
    <3>1. k \in 1 .. L /\ H[k] = G[k] /\ H[k - 1] = G[k - 1] /\ r[k] = q[k]
      BY <2>2, <1>2, <1>3
    <3> QED
      BY <3>1, <1>1 DEF Trace
  <2> QED
    BY <2>1, <2>2
<1>7. Trace(v, n, f, r, H)
  BY <1>2, <1>5, <1>6 DEF Trace
<1> QED
  BY <1>2, <1>4, <1>7 DEF Leads

LEMMA HeadOff ==
  ASSUME NEW v, NEW n, NEW f, NEW S, NEW q \in Seq(S), q # <<>>, NEW g, NEW h,
         Leads(v, n, f, q, g, h)
  PROVE  \E i : Tells(v, Head(q), g, i) /\ Leads(v, n, f, Tail(q), i, h) /\ Along(n, f, i)
<1>1. PICK G : Trace(v, n, f, q, G) /\ G[0] = g /\ G[Len(q)] = h
  BY DEF Leads
<1> DEFINE r == Tail(q)
           L == Len(q)
           H == [k \in 0 .. L - 1 |-> G[k + 1]]
<1>2. L \in Nat /\ L > 0 /\ Len(r) = L - 1 /\ q[1] = Head(q) /\ \A k \in 1 .. L - 1 : r[k] = q[k + 1]
  OBVIOUS
<1>3. \A k \in 0 .. L - 1 : H[k] = G[k + 1]
  OBVIOUS
<1>4. H[0] = G[1] /\ H[L - 1] = h
  BY <1>1, <1>2, <1>3
<1> HIDE DEF H
<1>5. \A k \in 0 .. L - 1 : Along(n, f, H[k])
  BY <1>1, <1>2, <1>3 DEF Trace
<1>6. \A k \in 1 .. L - 1 : Tells(v, r[k], H[k - 1], H[k])
  <2> TAKE k \in 1 .. L - 1
  <2>1. k + 1 \in 1 .. L /\ H[k] = G[k + 1] /\ H[k - 1] = G[(k + 1) - 1] /\ r[k] = q[k + 1]
    BY <1>2, <1>3
  <2> QED
    BY <2>1, <1>1 DEF Trace
<1>7. Trace(v, n, f, r, H)
  BY <1>2, <1>5, <1>6 DEF Trace
<1>8. Tells(v, q[1], G[1 - 1], G[1])
  BY <1>1, <1>2 DEF Trace
<1>9. Along(n, f, G[1])
  BY <1>2, <1>1 DEF Trace
<1> QED
  BY <1>1, <1>2, <1>4, <1>7, <1>8, <1>9 DEF Leads

(* Nothing follows the message the loop ends with.                         *)
LEMMA OverIsLast ==
  ASSUME NEW v, NEW n, NEW f, NEW S, NEW q \in Seq(S), NEW g, NEW h,
         Leads(v, n, f, q, g, h), g.over
  PROVE  q = <<>> /\ g = h
<1>1. q = <<>>
  BY HeadOff DEF Tells
<1> QED
  BY <1>1, NothingLeads

LEMMA LeadsOn ==
  ASSUME NEW v, NEW n \in Int, NEW n2 \in Int, n <= n2, NEW f, NEW f2, f => f2,
         NEW q, NEW g, NEW h, Leads(v, n, f, q, g, h)
  PROVE  Leads(v, n2, f2, q, g, h)
<1>1. PICK G : Trace(v, n, f, q, G) /\ G[0] = g /\ G[Len(q)] = h
  BY DEF Leads
<1>2. \A x : Along(n, f, x) => Along(n2, f2, x)
  BY ViewFields DEF Along
<1>3. Trace(v, n2, f2, q, G)
  BY <1>1, <1>2 DEF Trace
<1> QED
  BY <1>1, <1>3 DEF Leads

LEMMA LeadsInto ==
  ASSUME NEW v, NEW n, NEW f, NEW S, NEW q \in Seq(S), NEW g, NEW h, Leads(v, n, f, q, g, h)
  PROVE  Along(n, f, g) /\ Along(n, f, h)
<1>1. PICK G : Trace(v, n, f, q, G) /\ G[0] = g /\ G[Len(q)] = h
  BY DEF Leads
<1>2. Len(q) \in Nat
  OBVIOUS
<1> QED
  BY <1>1, <1>2 DEF Trace

----------------------------------------------------------------------------
(* Sequences of events.                                                    *)
LEMMA EventFields ==
  ASSUME NEW e \in Event
  PROVE  /\ e.type \in {"transcript", "utterance_end"}
         /\ e.type = "transcript" => /\ e.final \in BOOLEAN /\ e.text \subseteq 1 .. Chunks
                                     /\ e.start \in Int /\ e.end \in Int
         /\ e.type = "utterance_end" => e.at \in Int
BY DEF Event

LEMMA HarmlessFields ==
  ASSUME NEW v, NEW e \in Event, NEW g, Harmless(v, e, g)
  PROVE  /\ e.type = "transcript" => ~e.final /\ e.text \subseteq g.final + 1 .. Chunks
         /\ e.type = "utterance_end" /\ v \in Pointing => e.at <= g.time
<1>1. CASE \E text \in SUBSET (g.final + 1 .. Chunks), a, b \in Int : e = Transcript(FALSE, text, a, b)
  BY <1>1 DEF Transcript
<1>2. CASE \E a \in Int : e = UtteranceEnd(a) /\ (v \in Pointing => a <= g.time)
  BY <1>2 DEF UtteranceEnd
<1> QED
  BY <1>1, <1>2 DEF Harmless

LEMMA SettlesFields ==
  ASSUME NEW v, NEW e \in Event, NEW g, NEW h, Settles(v, e, g, h)
  PROVE  /\ e.type = "transcript" /\ e.final = TRUE /\ e.text = g.final + 1 .. h.final
         /\ v \in Pointing => e.start >= g.time
BY DEF Settles, Transcript

LEMMA FinalsOf ==
  ASSUME NEW o
  PROVE  \A i : i \in Finals(o) <=> i \in DOMAIN o /\ o[i].type = "transcript" /\ o[i].final
BY DEF Finals

LEMMA InSettled ==
  ASSUME NEW o
  PROVE  \A c : c \in Settled(o) <=> \E i \in Finals(o) : c \in o[i].text
BY DEF Settled

LEMMA SameSequence ==
  ASSUME NEW S, NEW a \in Seq(S), NEW b \in Seq(S), Len(a) = Len(b),
         \A i \in 1 .. Len(a) : a[i] = b[i]
  PROVE  a = b
OBVIOUS

(* One event more.                                                         *)
LEMMA HarmlessMore ==
  ASSUME NEW v, NEW o, NEW g \in Views, UpTo(v, o, g), NEW e \in Event, Harmless(v, e, g)
  PROVE  UpTo(v, Append(o, e), g)
<1> DEFINE p == Append(o, e)
           L == Len(o)
<1>1. o \in Seq(Event) /\ p \in Seq(Event) /\ L \in Nat /\ DOMAIN o = 1 .. L /\ DOMAIN p = 1 .. L + 1
      /\ p[L + 1] = e /\ \A i \in 1 .. L : p[i] = o[i]
  BY DEF UpTo, Heeded
<1> HIDE DEF p
<1>2. Finals(p) = Finals(o)
  <2>1. L + 1 \notin Finals(p)
    BY <1>1, HarmlessFields, FinalsOf
  <2>2. \A i \in 1 .. L : i \in Finals(p) <=> i \in Finals(o)
    BY <1>1, FinalsOf
  <2>3. Finals(p) \subseteq 1 .. L + 1 /\ Finals(o) \subseteq 1 .. L
    BY <1>1, FinalsOf
  <2>4. \A i : i \in Finals(p) <=> i \in Finals(o)
    <3> TAKE i
    <3>1. CASE i \in 1 .. L
      BY <3>1, <2>2
    <3>2. CASE i \notin 1 .. L
      <4>1. i \notin Finals(o)
        BY <3>2, <2>3
      <4>2. i \in Finals(p) => i = L + 1
        BY <3>2, <2>3, <1>1
      <4> QED
        BY <4>1, <4>2, <2>1
    <3> QED
      BY <3>1, <3>2
  <2> QED
    BY <2>4
<1>3. Finals(o) \subseteq 1 .. L
  BY <1>1, FinalsOf
<1>4. \A i \in Finals(o) : p[i] = o[i]
  BY <1>1, <1>3
<1>5. Settled(p) = Settled(o)
  BY <1>2, <1>4 DEF Settled
<1>6. Disjoint(p)
  BY <1>2, <1>4 DEF Disjoint, UpTo, Heeded
<1>7. \A j \in Finals(o) : o[j].text \subseteq 1 .. g.final
  BY InSettled DEF UpTo
<1>8. News(p)
  <2> SUFFICES ASSUME NEW i \in DOMAIN p, NEW j \in Finals(p), p[i].type = "transcript", ~p[i].final, j < i
               PROVE  p[i].text \cap p[j].text = {}
    BY DEF News
  <2>1. CASE i = L + 1
    <3>1. p[i].text \subseteq g.final + 1 .. Chunks
      BY <2>1, <1>1, HarmlessFields
    <3>2. p[j].text \subseteq 1 .. g.final
      BY <1>2, <1>4, <1>7
    <3>3. (g.final + 1 .. Chunks) \cap (1 .. g.final) = {}
      BY ViewFields
    <3> QED
      BY <3>1, <3>2, <3>3
  <2>2. CASE i # L + 1
    BY <2>2, <1>1, <1>2, <1>4 DEF UpTo, Heeded, News
  <2> QED
    BY <2>1, <2>2
<1>9. Closes(v, p)
  BY <1>1, <1>2, <1>3, <1>4 DEF Closes, UpTo, Heeded
<1>10. v \in Pointing => \A i \in DOMAIN p : p[i].type = "utterance_end" => p[i].at <= g.time
  BY <1>1, HarmlessFields DEF UpTo
<1>11. Settled(p) = 1 .. g.final
  BY <1>5 DEF UpTo
<1>12. UpTo(v, p, g)
  BY <1>1, <1>6, <1>8, <1>9, <1>10, <1>11 DEF UpTo, Heeded
<1> QED
  BY <1>12 DEF p

LEMMA FinalMore ==
  ASSUME NEW v, NEW o, NEW g \in Views, NEW h \in Views, UpTo(v, o, g), g.final < h.final, g.time <= h.time,
         NEW e \in Event, Settles(v, e, g, h)
  PROVE  UpTo(v, Append(o, e), h)
<1> DEFINE p == Append(o, e)
           L == Len(o)
<1>1. o \in Seq(Event) /\ p \in Seq(Event) /\ L \in Nat /\ DOMAIN o = 1 .. L /\ DOMAIN p = 1 .. L + 1
      /\ p[L + 1] = e /\ \A i \in 1 .. L : p[i] = o[i]
  BY DEF UpTo, Heeded
<1> HIDE DEF p
<1>0. /\ e.text = g.final + 1 .. h.final /\ e.final = TRUE /\ e.type = "transcript"
      /\ v \in Pointing => e.start >= g.time
  BY SettlesFields
<1>2. Finals(p) = Finals(o) \cup {L + 1}
  <2>1. L + 1 \in Finals(p)
    BY <1>0, <1>1, FinalsOf
  <2>2. \A i \in 1 .. L : i \in Finals(p) <=> i \in Finals(o)
    BY <1>1, FinalsOf
  <2>3. Finals(p) \subseteq 1 .. L + 1 /\ Finals(o) \subseteq 1 .. L
    BY <1>1, FinalsOf
  <2> QED
    BY <2>1, <2>2, <2>3, <1>1
<1>3. Finals(o) \subseteq 1 .. L
  BY <1>1, FinalsOf
<1>4. \A i \in Finals(o) : p[i] = o[i]
  BY <1>1, <1>3
<1>5. p[L + 1].text = g.final + 1 .. h.final /\ p[L + 1].final /\ p[L + 1].type = "transcript"
      /\ (v \in Pointing => p[L + 1].start >= g.time)
  BY <1>0, <1>1
<1>7. \A j \in Finals(o) : o[j].text \subseteq 1 .. g.final
  BY InSettled DEF UpTo
<1>6. Settled(p) = 1 .. h.final
  <2>1. \A c : c \in Settled(p) <=> c \in Settled(o) \/ c \in p[L + 1].text
    BY <1>2, <1>4, InSettled
  <2>2. \A c : c \in 1 .. h.final <=> c \in 1 .. g.final \/ c \in g.final + 1 .. h.final
    BY ViewFields
  <2> QED
    BY <2>1, <2>2, <1>5 DEF UpTo
<1>8. Disjoint(p)
  <2>1. \A j \in Finals(o) : p[j].text \cap p[L + 1].text = {}
    BY <1>4, <1>5, <1>7, ViewFields
  <2>2. \A i, j \in Finals(o) : i # j => p[i].text \cap p[j].text = {}
    BY <1>4 DEF UpTo, Heeded, Disjoint
  <2> QED
    BY <2>1, <2>2, <1>2 DEF Disjoint
<1>9. News(p)
  BY <1>1, <1>2, <1>3, <1>4, <1>5 DEF News, UpTo, Heeded
<1>10. Closes(v, p)
  <2> SUFFICES ASSUME v \in Pointing, NEW i \in DOMAIN p, NEW j \in Finals(p),
                      p[i].type = "utterance_end", i < j
               PROVE  p[j].start >= p[i].at
    BY DEF Closes
  <2>1. i \in 1 .. L
    BY <1>1, <1>2, <1>3
  <2>2. CASE j = L + 1
    <3>1. p[i].at <= g.time /\ p[i].at \in Int
      BY <2>1, <1>1, EventFields DEF UpTo
    <3>2. p[j].start \in Int
      BY <2>2, <1>1, <1>5, EventFields
    <3> QED
      BY <3>1, <3>2, <2>2, <1>5, ViewFields
  <2>3. CASE j # L + 1
    BY <2>1, <2>3, <1>1, <1>2, <1>3, <1>4 DEF Closes, UpTo, Heeded
  <2> QED
    BY <2>2, <2>3
<1>11. v \in Pointing => \A i \in DOMAIN p : p[i].type = "utterance_end" => p[i].at <= h.time
  <2> SUFFICES ASSUME v \in Pointing, NEW i \in DOMAIN p, p[i].type = "utterance_end"
               PROVE  p[i].at <= h.time
    OBVIOUS
  <2>1. i \in 1 .. L /\ p[i] = o[i] /\ o[i] \in Event
    BY <1>1, <1>5
  <2>2. o[i].at <= g.time /\ o[i].at \in Int
    BY <2>1, <1>1, EventFields DEF UpTo
  <2> QED
    BY <2>1, <2>2, ViewFields
<1>12. UpTo(v, p, h)
  BY <1>1, <1>6, <1>8, <1>9, <1>10, <1>11 DEF UpTo, Heeded
<1> QED
  BY <1>12 DEF p

(* A sequence that is not empty is another one and its last element.       *)
LEMMA LastOff ==
  ASSUME NEW S, NEW e \in Seq(S), NEW n \in Nat, Len(e) = n + 1
  PROVE  \E f \in Seq(S), x \in S : /\ e = Append(f, x) /\ Len(f) = n /\ x = e[n + 1]
                                    /\ \A i \in 1 .. n : f[i] = e[i]
<1> DEFINE f == [i \in 1 .. n |-> e[i]]
<1>1. f \in Seq(S) /\ Len(f) = n
  OBVIOUS
<1>2. e[n + 1] \in S
  OBVIOUS
<1>3. e = Append(f, e[n + 1])
  BY <1>1, <1>2, SameSequence
<1> QED
  BY <1>1, <1>2, <1>3

LEMMA AppendLast ==
  ASSUME NEW S, NEW o \in Seq(S), NEW e \in Seq(S), NEW x \in S
  PROVE  o \o Append(e, x) = Append(o \o e, x)
OBVIOUS

LEMMA NothingAdded ==
  ASSUME NEW S, NEW o \in Seq(S), NEW e \in Seq(S), Len(e) = 0
  PROVE  o \o e = o
OBVIOUS

(* Good events, at most three, one after the other.                        *)
LEMMA GoodMore ==
  ASSUME NEW v, NEW o \in Seq(Event), NEW g \in Views, NEW h \in Views, UpTo(v, o, g),
         NEW ev \in Seq(Event), Good(v, ev, g, h)
  PROVE  UpTo(v, o \o ev, h)
<1> DEFINE Begun(e) == IF Len(e) = 0 THEN UpTo(v, o, g) ELSE UpTo(v, o \o e, h)
           Start(e, n) == /\ e \in Seq(Event) /\ Len(e) = n /\ n <= Len(ev)
                          /\ \A i \in 1 .. n : e[i] = ev[i]
<1>1. \A i \in 1 .. Len(ev) : ev[i] \in Event /\ (i > 1 => Harmless(v, ev[i], h))
  BY DEF Good
<1>2. ASSUME Len(ev) > 0 PROVE UpTo(v, Append(o, ev[1]), h)
  <2>1. ev[1] \in Event /\ 1 \in 1 .. Len(ev)
    BY <1>1, <1>2
  <2>2. CASE g.final = h.final /\ \A i \in 1 .. Len(ev) : Harmless(v, ev[i], h)
    <3>1. UpTo(v, o, h)
      BY <2>2, ViewFields, EventFields DEF UpTo, Good
    <3> QED
      BY <3>1, <2>1, <2>2, HarmlessMore
  <2>3. CASE g.final < h.final /\ Settles(v, ev[1], g, h)
    BY <2>1, <2>3, FinalMore DEF Good
  <2> QED
    BY <2>2, <2>3 DEF Good
<1>3. ASSUME NEW e, Start(e, 1) PROVE UpTo(v, o \o e, h)
  <2>0. PICK n \in Nat : n = 0
    OBVIOUS
  <2>4. e \in Seq(Event) /\ Len(e) = n + 1 /\ n + 1 = 1
    BY <1>3, <2>0
  <2>5. PICK f \in Seq(Event), x \in Event :
          /\ e = Append(f, x) /\ Len(f) = n /\ x = e[n + 1] /\ \A i \in 1 .. n : f[i] = e[i]
    BY <2>4, LastOff
  <2>1. f \in Seq(Event) /\ x \in Event /\ e = Append(f, x) /\ Len(f) = 0 /\ x = e[1]
    BY <2>0, <2>4, <2>5
  <2>2. o \o e = Append(o, x)
    BY <2>1, AppendLast, NothingAdded
  <2>3. x = ev[1] /\ Len(ev) > 0
    BY <1>3, <2>1
  <2> QED
    BY <2>2, <2>3, <1>2
<1>4. ASSUME NEW n \in Nat, n > 0, \A e : Start(e, n) => UpTo(v, o \o e, h), NEW e, Start(e, n + 1)
      PROVE  UpTo(v, o \o e, h)
  <2>1. e \in Seq(Event) /\ Len(e) = n + 1 /\ n + 1 <= Len(ev)
    BY <1>4
  <2>2. PICK f \in Seq(Event), x \in Event :
          /\ e = Append(f, x) /\ Len(f) = n /\ x = e[n + 1] /\ \A i \in 1 .. n : f[i] = e[i]
    BY <2>1, LastOff
  <2>3. Start(f, n)
    BY <1>4, <2>1, <2>2
  <2>4. n + 1 \in 1 .. Len(ev) /\ x = ev[n + 1]
    BY <1>4, <2>1, <2>2
  <2>5. Harmless(v, x, h)
    BY <2>4, <1>1, <1>4
  <2>6. UpTo(v, o \o f, h)
    BY <2>3, <1>4
  <2>7. o \o e = Append(o \o f, x)
    BY <2>2, AppendLast
  <2> QED
    BY <2>5, <2>6, <2>7, HarmlessMore
<1>5. \A e : Start(e, 2) => UpTo(v, o \o e, h)
  <2> HIDE DEF Start
  <2>1. \A e : Start(e, 1) => UpTo(v, o \o e, h)
    BY <1>3
  <2>2. \A e : Start(e, 1 + 1) => UpTo(v, o \o e, h)
    BY <2>1, <1>4
  <2> QED
    BY <2>2
<1>6. \A e : Start(e, 3) => UpTo(v, o \o e, h)
  <2> HIDE DEF Start
  <2>2. \A e : Start(e, 2 + 1) => UpTo(v, o \o e, h)
    BY <1>5, <1>4
  <2> QED
    BY <2>2
<1>7. Len(ev) = 0 \/ Len(ev) = 1 \/ Len(ev) = 2 \/ Len(ev) = 3
  <2>1. PICK n \in Nat : n = Len(ev)
    OBVIOUS
  <2> QED
    BY <2>1 DEF Good
<1>8. CASE Len(ev) = 0
  <2>1. o \o ev = o /\ g.final = h.final /\ g.time <= h.time
    BY <1>8, NothingAdded DEF Good
  <2>2. UpTo(v, o, h)
    BY <2>1, ViewFields, EventFields DEF UpTo
  <2> QED
    BY <2>1, <2>2
<1>9. \A n : n = Len(ev) => Start(ev, n)
  OBVIOUS
<1> QED
  BY <1>3, <1>5, <1>6, <1>7, <1>8, <1>9

----------------------------------------------------------------------------
LEMMA SaysTakes ==
  ASSUME NEW v, NEW o, NEW g, NEW h, NEW s, NEW z, Good(v, o, g, h), ~h.over, Knows(v, h, z),
         v = "speechmatics" => z \in Nat /\ z >= s
  PROVE  Takes(v, Says(o, z), g, h, s)
BY DEF Takes, Says

LEMMA ReturnsTakes ==
  ASSUME NEW v, NEW o, NEW g, NEW h, NEW s, NEW z, Good(v, o, g, h), h.over, h.told,
         v = "speechmatics" => z \in Nat /\ z >= s
  PROVE  Takes(v, Returns(o, z), g, h, s)
BY DEF Takes, Returns

LEMMA RaisesTakes ==
  ASSUME NEW v, NEW g, NEW h, NEW s, NEW z, NEW b, g.final = h.final, g.time <= h.time, h.over,
         v = "speechmatics" => z \in Nat /\ z >= s
  PROVE  Takes(v, Raises(b, z), g, h, s)
<1>1. Good(v, <<>>, g, h)
  BY DEF Good
<1> QED
  BY <1>1 DEF Takes, Raises

(* Nothing, and one event more.                                            *)
LEMMA GoodNothing ==
  ASSUME NEW v, NEW g, NEW h, g.final = h.final, g.time <= h.time
  PROVE  Good(v, <<>>, g, h)
BY DEF Good

LEMMA InterimEvent ==
  ASSUME NEW v, NEW g \in Views, NEW text \in SUBSET (g.final + 1 .. Chunks), NEW a \in Int, NEW b \in Int
  PROVE  Transcript(FALSE, text, a, b) \in Event /\ Harmless(v, Transcript(FALSE, text, a, b), g)
<1>1. text \in SUBSET (1 .. Chunks)
  BY ViewFields, NaturalChunks
<1> QED
  BY <1>1 DEF Harmless, Event, Transcript

LEMMA EndEvent ==
  ASSUME NEW v, NEW g, NEW a \in Int, v \in Pointing => a <= g.time
  PROVE  UtteranceEnd(a) \in Event /\ Harmless(v, UtteranceEnd(a), g)
BY DEF Harmless, Event, UtteranceEnd

LEMMA FinalEvent ==
  ASSUME NEW v, NEW g \in Views, NEW h \in Views, NEW a \in Int, NEW b \in Int,
         v \in Pointing => a >= g.time
  PROVE  /\ Transcript(TRUE, g.final + 1 .. h.final, a, b) \in Event
         /\ Settles(v, Transcript(TRUE, g.final + 1 .. h.final, a, b), g, h)
<1>1. g.final + 1 .. h.final \in SUBSET (1 .. Chunks)
  BY ViewFields, NaturalChunks
<1> QED
  BY <1>1 DEF Settles, Event, Transcript

LEMMA GoodHarmless ==
  ASSUME NEW v, NEW g, NEW h, g.final = h.final, g.time <= h.time, NEW e \in Event, Harmless(v, e, h)
  PROVE  Good(v, <<e>>, g, h)
<1>1. <<e>> \in Seq(Event) /\ Len(<<e>>) = 1 /\ <<e>>[1] = e
  OBVIOUS
<1> QED
  BY <1>1 DEF Good

LEMMA GoodFinal ==
  ASSUME NEW v, NEW g, NEW h, g.final < h.final, g.time <= h.time, NEW e \in Event,
         Settles(v, e, g, h)
  PROVE  Good(v, <<e>>, g, h)
<1>1. <<e>> \in Seq(Event) /\ Len(<<e>>) = 1 /\ <<e>>[1] = e
  OBVIOUS
<1> QED
  BY <1>1 DEF Good

LEMMA GoodThen ==
  ASSUME NEW v, NEW g, NEW h, NEW o, Good(v, o, g, h), Len(o) < 3, NEW e \in Event, Harmless(v, e, h)
  PROVE  Good(v, o \o <<e>>, g, h) /\ Len(o \o <<e>>) = Len(o) + 1
<1> DEFINE p == o \o <<e>>
<1>1. o \in Seq(Event) /\ Len(o) \in Nat
  BY DEF Good
<1>2. p \in Seq(Event) /\ Len(p) = Len(o) + 1 /\ p[Len(o) + 1] = e
      /\ \A i \in 1 .. Len(o) : p[i] = o[i]
  BY <1>1
<1> HIDE DEF p
<1>3. \A i \in 1 .. Len(p) : i \in 1 .. Len(o) \/ i = Len(o) + 1
  BY <1>1, <1>2
<1>4. CASE g.final = h.final /\ \A i \in 1 .. Len(o) : Harmless(v, o[i], h)
  <2>1. \A i \in 1 .. Len(p) : Harmless(v, p[i], h)
    BY <1>2, <1>3, <1>4
  <2> QED
    BY <2>1, <1>1, <1>2, <1>4 DEF Good, p
<1>5. CASE g.final < h.final /\ Len(o) > 0 /\ Settles(v, o[1], g, h)
           /\ \A i \in 2 .. Len(o) : Harmless(v, o[i], h)
  <2>1. Settles(v, p[1], g, h) /\ Len(p) > 0
    BY <1>1, <1>2, <1>5
  <2>2. \A i \in 2 .. Len(p) : Harmless(v, p[i], h)
    BY <1>1, <1>2, <1>3, <1>5
  <2> QED
    BY <2>1, <2>2, <1>1, <1>2, <1>5 DEF Good, p
<1> QED
  BY <1>4, <1>5 DEF Good

(* A text that is blank is not yielded.                                    *)
LEMMA GoodInterim ==
  ASSUME NEW v, NEW g \in Views, NEW text \in SUBSET (g.final + 1 .. Chunks), NEW a \in Int, NEW b \in Int
  PROVE  /\ Good(v, IF text = {} THEN <<>> ELSE <<Transcript(FALSE, text, a, b)>>, g, g)
         /\ Good(v, <<Transcript(FALSE, text, a, b)>>, g, g)
<1>1. g.time <= g.time
  BY ViewFields
<1> QED
  BY <1>1, InterimEvent, GoodHarmless, GoodNothing

LEMMA GoodWords ==
  ASSUME NEW v, NEW g \in Views, NEW h \in Views, g.final < h.final, g.time <= h.time,
         NEW a \in Int, NEW b \in Int, v \in Pointing => a >= g.time
  PROVE  Good(v, <<Transcript(TRUE, g.final + 1 .. h.final, a, b)>>, g, h)
BY FinalEvent, GoodFinal

LEMMA GoodWordsEnd ==
  ASSUME NEW v, NEW g \in Views, NEW h \in Views, g.final < h.final, g.time <= h.time,
         NEW a \in Int, NEW b \in Int, v \in Pointing => a >= g.time,
         NEW c \in Int, v \in Pointing => c <= h.time
  PROVE  Good(v, <<Transcript(TRUE, g.final + 1 .. h.final, a, b)>> \o <<UtteranceEnd(c)>>, g, h)
<1>1. Good(v, <<Transcript(TRUE, g.final + 1 .. h.final, a, b)>>, g, h)
  BY GoodWords
<1>2. Len(<<Transcript(TRUE, g.final + 1 .. h.final, a, b)>>) < 3
  OBVIOUS
<1> QED
  BY <1>1, <1>2, GoodThen, EndEvent

LEMMA GoodEnd ==
  ASSUME NEW v, NEW g, NEW h, g.final = h.final, g.time <= h.time,
         NEW c \in Int, v \in Pointing => c <= h.time
  PROVE  Good(v, <<UtteranceEnd(c)>>, g, h)
BY EndEvent, GoodHarmless

----------------------------------------------------------------------------
(* Messages that follow each other.                                        *)
LEMMA OneStep ==
  ASSUME NEW v, NEW n, NEW f, NEW g, NEW h, NEW m, Along(n, f, g), Along(n, f, h), Tells(v, m, g, h)
  PROVE  Leads(v, n, f, <<m>>, g, h)
<1>1. Leads(v, n, f, <<>>, g, g)
  BY NothingMore
<1>2. Append(<<>>, m) = <<m>> /\ <<>> \in Seq({m})
  OBVIOUS
<1>3. Leads(v, n, f, Append(<<>>, m), g, h)
  BY <1>1, <1>2, OneMore
<1> QED
  BY <1>2, <1>3

LEMMA Onward ==
  ASSUME NEW v, NEW n, NEW f, NEW S, NEW q \in Seq(S), NEW r \in Seq(S), NEW g, NEW h, NEW i,
         Leads(v, n, f, q, g, h), Leads(v, n, f, r, h, i)
  PROVE  Leads(v, n, f, q \o r, g, i)
<1>1. PICK G : Trace(v, n, f, q, G) /\ G[0] = g /\ G[Len(q)] = h
  BY DEF Leads
<1>2. PICK H : Trace(v, n, f, r, H) /\ H[0] = h /\ H[Len(r)] = i
  BY DEF Leads
<1> DEFINE p == q \o r
           L == Len(q)
           M == Len(r)
           K == [k \in 0 .. L + M |-> IF k <= L THEN G[k] ELSE H[k - L]]
<1>3. L \in Nat /\ M \in Nat /\ Len(p) = L + M
  OBVIOUS
<1>4. \A k \in 1 .. L : p[k] = q[k]
  OBVIOUS
<1>5. \A k \in 1 .. M : p[L + k] = r[k]
  OBVIOUS
<1>6. \A k \in 0 .. L : K[k] = G[k]
  BY <1>3
<1>7. \A k \in 0 .. M : K[L + k] = H[k]
  <2> TAKE k \in 0 .. M
  <2>1. CASE k = 0
    BY <2>1, <1>1, <1>2, <1>3, <1>6
  <2>2. CASE k # 0
    BY <2>2, <1>3
  <2> QED
    BY <2>1, <2>2
<1> HIDE DEF K, p
<1>8. \A k \in 0 .. L + M : k \in 0 .. L \/ \E j \in 1 .. M : k = L + j
  <2> TAKE k \in 0 .. L + M
  <2>1. CASE k <= L
    BY <2>1, <1>3
  <2>2. CASE k > L
    <3>1. k - L \in 1 .. M /\ k = L + (k - L)
      BY <2>2, <1>3
    <3> QED
      BY <3>1
  <2> QED
    BY <2>1, <2>2, <1>3
<1>9. \A k \in 0 .. L + M : Along(n, f, K[k])
  <2> TAKE k \in 0 .. L + M
  <2>1. CASE k \in 0 .. L
    BY <2>1, <1>1, <1>6 DEF Trace
  <2>2. ASSUME NEW j \in 1 .. M, k = L + j PROVE Along(n, f, K[k])
    BY <2>2, <1>2, <1>7 DEF Trace
  <2> QED
    BY <2>1, <2>2, <1>8
<1>10. \A k \in 1 .. L + M : Tells(v, p[k], K[k - 1], K[k])
  <2> TAKE k \in 1 .. L + M
  <2>1. CASE k \in 1 .. L
    <3>1. k - 1 \in 0 .. L /\ k \in 0 .. L
      BY <2>1, <1>3
    <3> QED
      BY <3>1, <2>1, <1>1, <1>4, <1>6 DEF Trace
  <2>2. ASSUME NEW j \in 1 .. M, k = L + j PROVE Tells(v, p[k], K[k - 1], K[k])
    <3>1. j - 1 \in 0 .. M /\ j \in 0 .. M /\ k - 1 = L + (j - 1)
      BY <2>2, <1>3
    <3>2. K[k] = H[j] /\ K[k - 1] = H[j - 1] /\ p[k] = r[j]
      BY <3>1, <2>2, <1>5, <1>7
    <3> QED
      BY <3>2, <1>2 DEF Trace
  <2>3. k \in 0 .. L + M /\ (k \in 0 .. L => k \in 1 .. L)
    BY <1>3
  <2> QED
    BY <2>1, <2>2, <2>3, <1>8
<1>11. Trace(v, n, f, p, K)
  BY <1>3, <1>9, <1>10 DEF Trace
<1>12. K[0] = g /\ K[Len(p)] = i
  BY <1>1, <1>2, <1>3, <1>6, <1>7
<1> QED
  BY <1>11, <1>12 DEF Leads, p

LEMMA LastOfFour ==
  ASSUME NEW m, NEW p, NEW q, NEW r
  PROVE  Append(<<m, p, q>>, r) = <<m, p, q, r>>
<1> DEFINE S == {m, p, q, r}
<1>1. m \in S /\ p \in S /\ q \in S /\ r \in S
  OBVIOUS
<1> HIDE DEF S
<1>2. <<m, p, q>> \in Seq(S) /\ <<m, p, q, r>> \in Seq(S)
  BY <1>1
<1> DEFINE a == Append(<<m, p, q>>, r)
       b == <<m, p, q, r>>
<1>3. a \in Seq(S) /\ b \in Seq(S) /\ Len(a) = 4 /\ Len(b) = 4
  BY <1>1, <1>2
<1>4. a[1] = m /\ b[1] = m /\ a[2] = p /\ b[2] = p /\ a[3] = q /\ b[3] = q /\ a[4] = r /\ b[4] = r
  BY <1>1, <1>2
<1> HIDE DEF a, b
<1>5. \A i \in 1 .. 4 : i = 1 \/ i = 2 \/ i = 3 \/ i = 4
  OBVIOUS
<1>6. \A i \in 1 .. Len(a) : a[i] = b[i]
  BY <1>3, <1>4, <1>5
<1>7. a = b
  BY <1>3, <1>6, SameSequence
<1> QED
  BY <1>7 DEF a, b

LEMMA Tuples ==
  ASSUME NEW m, NEW p, NEW q, NEW r
  PROVE  /\ <<m>> \in Seq({m, p, q, r}) /\ Append(<<m>>, p) = <<m, p>>
         /\ <<m, p>> \in Seq({m, p, q, r}) /\ Append(<<m, p>>, q) = <<m, p, q>>
         /\ <<m, p, q>> \in Seq({m, p, q, r})
<1> DEFINE S == {m, p, q, r}
<1>1. m \in S /\ p \in S /\ q \in S /\ r \in S
  OBVIOUS
<1> HIDE DEF S
<1>2. <<m>> \in Seq(S) /\ <<m, p>> \in Seq(S) /\ <<m, p, q>> \in Seq(S) /\ <<m, p, q, r>> \in Seq(S)
  BY <1>1
<1>3. Append(<<m>>, p) = <<m, p>>
  <2> DEFINE a == Append(<<m>>, p)
             b == <<m, p>>
  <2>1. a \in Seq(S) /\ b \in Seq(S) /\ Len(a) = 2 /\ Len(b) = 2
    BY <1>1, <1>2
  <2>2. a[1] = m /\ b[1] = m /\ a[2] = p /\ b[2] = p
    BY <1>1, <1>2
  <2> HIDE DEF a, b
  <2>3. \A i \in 1 .. 2 : i = 1 \/ i = 2
    OBVIOUS
  <2>4. \A i \in 1 .. Len(a) : a[i] = b[i]
    BY <2>1, <2>2, <2>3
  <2>5. a = b
    BY <2>1, <2>4, SameSequence
  <2> QED
    BY <2>5 DEF a, b
<1>4. Append(<<m, p>>, q) = <<m, p, q>>
  <2> DEFINE a == Append(<<m, p>>, q)
             b == <<m, p, q>>
  <2>1. a \in Seq(S) /\ b \in Seq(S) /\ Len(a) = 3 /\ Len(b) = 3
    BY <1>1, <1>2
  <2>2. a[1] = m /\ b[1] = m /\ a[2] = p /\ b[2] = p /\ a[3] = q /\ b[3] = q
    BY <1>1, <1>2
  <2> HIDE DEF a, b
  <2>3. \A i \in 1 .. 3 : i = 1 \/ i = 2 \/ i = 3
    OBVIOUS
  <2>4. \A i \in 1 .. Len(a) : a[i] = b[i]
    BY <2>1, <2>2, <2>3
  <2>5. a = b
    BY <2>1, <2>4, SameSequence
  <2> QED
    BY <2>5 DEF a, b
<1> QED
  BY <1>2, <1>3, <1>4 DEF S

LEMMA TwoSteps ==
  ASSUME NEW v, NEW n, NEW f, NEW g, NEW h, NEW i, NEW m, NEW p,
         Along(n, f, g), Along(n, f, h), Along(n, f, i), Tells(v, m, g, h), Tells(v, p, h, i)
  PROVE  Leads(v, n, f, <<m, p>>, g, i)
<1>1. <<m>> \in Seq({m, p, p, p}) /\ Append(<<m>>, p) = <<m, p>>
  BY Tuples
<1> QED
  BY <1>1, OneStep, OneMore

LEMMA ThreeSteps ==
  ASSUME NEW v, NEW n, NEW f, NEW g, NEW h, NEW i, NEW j, NEW m, NEW p, NEW q,
         Along(n, f, g), Along(n, f, h), Along(n, f, i), Along(n, f, j),
         Tells(v, m, g, h), Tells(v, p, h, i), Tells(v, q, i, j)
  PROVE  Leads(v, n, f, <<m, p, q>>, g, j)
<1>1. <<m, p>> \in Seq({m, p, q, q}) /\ Append(<<m, p>>, q) = <<m, p, q>>
  BY Tuples
<1> QED
  BY <1>1, TwoSteps, OneMore

LEMMA FourSteps ==
  ASSUME NEW v, NEW n, NEW f, NEW g, NEW h, NEW i, NEW j, NEW k, NEW m, NEW p, NEW q, NEW r,
         Along(n, f, g), Along(n, f, h), Along(n, f, i), Along(n, f, j), Along(n, f, k),
         Tells(v, m, g, h), Tells(v, p, h, i), Tells(v, q, i, j), Tells(v, r, j, k)
  PROVE  Leads(v, n, f, <<m, p, q, r>>, g, k)
<1>1. <<m, p, q>> \in Seq({m, p, q, r})
  BY Tuples
<1>2. Append(<<m, p, q>>, r) = <<m, p, q, r>>
  BY LastOfFour
<1>3. Leads(v, n, f, <<m, p, q>>, g, j)
  BY ThreeSteps
<1>4. Leads(v, n, f, Append(<<m, p, q>>, r), g, k)
  BY <1>1, <1>3, OneMore
<1> QED
  BY <1>2, <1>4

----------------------------------------------------------------------------
(* What vendors say.                                                       *)
Told == ControlTypes /\ AudioInv /\ VendorInv

LEMMA Hearing ==
  ASSUME Told
  PROVE  /\ Heard \in Nat /\ Heard <= Chunks
         /\ \A i \in 1 .. Heard : at[i] \in Nat /\ at[i] > 0
         /\ vendor # "aws" => \A i \in 1 .. Heard : at[i] = i
         /\ vd.final \in Nat /\ vd.final <= Heard /\ vd.prov \in Nat /\ vd.prov <= Heard
         /\ vd.locked \in Nat /\ vd.locked <= Heard /\ vd.items \in Nat /\ vd.items <= vd.final
         /\ vendor \in Dialects
<1>1. sent \in Nat /\ sent <= Chunks /\ Len(at) \in Nat /\ Len(at) <= sent
  BY NaturalChunks DEF Told, AudioInv
<1>2. \A i \in 1 .. Heard : at[i] \in Nat /\ at[i] > 0
  BY DEF Told, AudioInv, Heard
<1>3. vendor # "aws" => \A i \in 1 .. Heard : at[i] = i
  BY DEF Told, AudioInv, Heard
<1>4. vd \in VendorType /\ vd.final <= Heard /\ vd.prov <= Heard /\ vd.locked <= Heard /\ vd.items <= vd.final
  BY DEF Told, VendorInv, Heard
<1>5. vd.final \in Nat /\ vd.prov \in Nat /\ vd.locked \in Nat /\ vd.items \in Nat
  BY <1>4, NaturalChunks DEF VendorType
<1>6. vendor \in Dialects
  BY StreamAssumption DEF Told, ControlTypes
<1>7. Heard \in Nat /\ Heard <= Chunks
  BY <1>1, NaturalChunks DEF Heard
<1> QED
  BY <1>2, <1>3, <1>4, <1>5, <1>6, <1>7

LEMMA Timing ==
  ASSUME Told, NEW a \in 0 .. Heard, NEW b \in 0 .. Heard, a < b
  PROVE  TimeOf(a) \in Nat /\ TimeOf(b) \in Nat /\ TimeOf(a) < TimeOf(b) /\ TimeOf(a) <= at[a + 1] - 1
         /\ TimeOf(b) = at[b] /\ (vendor # "aws" => TimeOf(a) = a /\ TimeOf(b) = b)
<1>1. a \in Nat /\ b \in Nat /\ Heard \in Nat /\ b \in 1 .. Heard /\ a + 1 \in 1 .. Heard
      /\ (a # 0 => a \in 1 .. Heard)
  BY Hearing
<1>2. at[b] \in Nat /\ at[b] > 0 /\ at[a + 1] \in Nat /\ at[a + 1] > 0
  BY <1>1, Hearing
<1>3. CASE a = 0
  BY <1>1, <1>2, <1>3, Hearing DEF TimeOf
<1>4. CASE a # 0
  <2>1. at[a] \in Nat /\ at[a] < at[b] /\ at[a] < at[a + 1]
    BY <1>1, <1>4, Hearing DEF Told, AudioInv, Heard
  <2> QED
    BY <1>1, <1>2, <1>4, <2>1, Hearing DEF TimeOf
<1> QED
  BY <1>3, <1>4

LEMMA WireIsMessage ==
  ASSUME Told, NEW kind \in Kinds, NEW a \in Int, NEW b \in Int
  PROVE  Wire(kind, a, b) \in Message
<1>1. (IF a \in 1 .. Heard THEN at[a] - 1 ELSE NoTime) \in Int
  BY Hearing DEF NoTime
<1>2. (IF b \in 1 .. Heard THEN at[b] ELSE NoTime) \in Int
  BY Hearing DEF NoTime
<1> QED
  BY <1>1, <1>2, Hearing DEF Wire, Message

(* The view after chunks up to b are final.                                *)
After(g, b) ==
  [g EXCEPT !.final = b, !.more = b, !.time = IF vendor \in Pointing THEN TimeOf(b) ELSE @]

Speaking(g) == Told /\ ~vd.bye /\ Along(Heard, finished, g) /\ AtWork(vd, g)

LEMMA AfterFields ==
  ASSUME NEW g, Speaking(g), NEW b \in g.final + 1 .. Heard
  PROVE  /\ g \in Views /\ After(g, b) \in Views /\ After(g, b).final = b /\ After(g, b).more = b
         /\ After(g, b).item = g.item /\ After(g, b).ahead = g.ahead /\ After(g, b).seen = g.seen
         /\ After(g, b).erred = g.erred /\ After(g, b).told = g.told /\ After(g, b).over = g.over
         /\ Along(Heard, finished, After(g, b)) /\ g.final < b /\ g.time <= After(g, b).time
         /\ ~g.over
         /\ vendor \in Pointing => /\ After(g, b).time = at[b] /\ After(g, b).time = TimeOf(b)
                                   /\ at[g.final + 1] - 1 >= g.time
         /\ at[b] \in Int /\ at[g.final + 1] - 1 \in Int
         /\ g.final + 1 \in 1 .. Heard /\ b \in 1 .. Heard
<1>1. g \in Views /\ g.final \in Nat /\ g.final < b /\ b \in Nat /\ Heard \in Nat /\ b <= Chunks
      /\ g.time \in Nat /\ Told /\ ~g.over /\ b <= Heard
  <2>1. Told /\ g \in Views /\ ~g.over
    BY DEF Speaking, Along, AtWork
  <2>2. Heard \in Nat /\ Heard <= Chunks /\ g.final \in Nat /\ g.time \in Nat
    BY <2>1, Hearing, ViewFields
  <2>3. b \in Int /\ g.final + 1 <= b /\ b <= Heard
    BY <2>2
  <2> QED
    BY <2>1, <2>2, <2>3, NaturalChunks
<1>2. TimeOf(b) \in Nat /\ TimeOf(b) = at[b] /\ TimeOf(g.final) <= at[g.final + 1] - 1
      /\ TimeOf(g.final) < TimeOf(b) /\ TimeOf(g.final) \in Nat
  BY <1>1, Timing
<1>3. vendor \in Pointing => g.time <= TimeOf(g.final)
  BY DEF Speaking, AtWork
<1>4. at[g.final + 1] \in Nat
  BY <1>1, Hearing
<1>5. /\ After(g, b) \in Views /\ After(g, b).final = b /\ After(g, b).more = b
      /\ After(g, b).time = IF vendor \in Pointing THEN TimeOf(b) ELSE g.time
      /\ After(g, b).item = g.item /\ After(g, b).ahead = g.ahead /\ After(g, b).seen = g.seen
      /\ After(g, b).erred = g.erred /\ After(g, b).told = g.told /\ After(g, b).over = g.over
  <2>1. g \in Views /\ b \in 0 .. Chunks
    BY <1>1, NaturalChunks
  <2>2. \A t \in Nat : [g EXCEPT !.final = b, !.more = b, !.time = t] \in Views
    BY <2>1 DEF Views
  <2>3. After(g, b) = [g EXCEPT !.final = b, !.more = b, !.time = IF vendor \in Pointing THEN TimeOf(b) ELSE g.time]
    BY <2>1 DEF After, Views
  <2>4. (IF vendor \in Pointing THEN TimeOf(b) ELSE g.time) \in Nat
    BY <1>1, <1>2
  <2> QED
    BY <2>1, <2>2, <2>3, <2>4 DEF Views
<1>6. Along(Heard, finished, After(g, b))
  BY <1>1, <1>5 DEF Along, Speaking
<1> QED
  BY <1>1, <1>2, <1>3, <1>4, <1>5, <1>6

----------------------------------------------------------------------------
(* What a final, and an interim, is good for.                              *)
LEMMA FinalIsGood ==
  ASSUME NEW g, Speaking(g), NEW b \in g.final + 1 .. Heard, NEW m, m.text = g.final + 1 .. b
  PROVE  /\ m.start = at[g.final + 1] - 1 /\ m.end = at[b] =>
              /\ Good(vendor, Said(TRUE, m), g, After(g, b))
              /\ Good(vendor, Said(TRUE, m) \o <<UtteranceEnd(m.end)>>, g, After(g, b))
         /\ vendor \notin Pointing =>
              /\ Good(vendor, Untimed(TRUE, m.text), g, After(g, b))
              /\ \A c \in Int : Good(vendor, Untimed(TRUE, m.text) \o <<UtteranceEnd(c)>>, g, After(g, b))
         /\ m.text # {} /\ Said(TRUE, m) # <<>>
<1>1. m.text # {}
  BY AfterFields, ViewFields
<1>2. /\ After(g, b).final = b /\ g \in Views /\ After(g, b) \in Views /\ g.final < After(g, b).final
      /\ g.time <= After(g, b).time /\ at[b] \in Int /\ at[g.final + 1] - 1 \in Int
      /\ vendor \in Pointing => After(g, b).time = at[b] /\ at[g.final + 1] - 1 >= g.time
  BY AfterFields
<1>3. Said(TRUE, m) = <<Transcript(TRUE, g.final + 1 .. After(g, b).final, m.start, m.end)>>
  BY <1>1, <1>2 DEF Said
<1>4. Untimed(TRUE, m.text) = <<Transcript(TRUE, g.final + 1 .. After(g, b).final, NoTime, NoTime)>>
  BY <1>1, <1>2 DEF Untimed
<1>5. ASSUME m.start = at[g.final + 1] - 1, m.end = at[b]
      PROVE  /\ Good(vendor, Said(TRUE, m), g, After(g, b))
             /\ Good(vendor, Said(TRUE, m) \o <<UtteranceEnd(m.end)>>, g, After(g, b))
  <2>1. m.start \in Int /\ m.end \in Int /\ (vendor \in Pointing => m.start >= g.time)
    BY <1>2, <1>5
  <2>2. vendor \in Pointing => m.end <= After(g, b).time
    BY <1>2, <1>5
  <2>3. Good(vendor, <<Transcript(TRUE, g.final + 1 .. After(g, b).final, m.start, m.end)>>, g, After(g, b))
    BY <2>1, <1>2, GoodWords
  <2>4. Good(vendor, <<Transcript(TRUE, g.final + 1 .. After(g, b).final, m.start, m.end)>>
                       \o <<UtteranceEnd(m.end)>>, g, After(g, b))
    BY <2>1, <2>2, <1>2, GoodWordsEnd
  <2> QED
    BY <2>3, <2>4, <1>3
<1>6. ASSUME vendor \notin Pointing
      PROVE  Good(vendor, Untimed(TRUE, m.text), g, After(g, b))
  <2>1. NoTime \in Int
    BY DEF NoTime
  <2>2. Good(vendor, <<Transcript(TRUE, g.final + 1 .. After(g, b).final, NoTime, NoTime)>>, g, After(g, b))
    BY <2>1, <1>2, <1>6, GoodWords
  <2> QED
    BY <2>2, <1>4
<1>7. ASSUME vendor \notin Pointing, NEW c \in Int
      PROVE  Good(vendor, Untimed(TRUE, m.text) \o <<UtteranceEnd(c)>>, g, After(g, b))
  <2>1. NoTime \in Int
    BY DEF NoTime
  <2>2. Good(vendor, <<Transcript(TRUE, g.final + 1 .. After(g, b).final, NoTime, NoTime)>>
                       \o <<UtteranceEnd(c)>>, g, After(g, b))
    BY <2>1, <1>2, <1>7, GoodWordsEnd
  <2> QED
    BY <2>2, <1>4
<1>8. Said(TRUE, m) # <<>>
  <2>1. \A e : <<e>> # <<>>
    OBVIOUS
  <2> QED
    BY <2>1, <1>3
<1> QED
  BY <1>1, <1>5, <1>6, <1>7, <1>8

LEMMA InterimIsGood ==
  ASSUME NEW v, NEW g \in Views, NEW text \in SUBSET (g.final + 1 .. Chunks), NEW m, m.text = text,
         m.start \in Int, m.end \in Int
  PROVE  Good(v, Said(FALSE, m), g, g) /\ Good(v, Untimed(FALSE, text), g, g)
<1>1. NoTime \in Int
  BY DEF NoTime
<1>2. Good(v, IF text = {} THEN <<>> ELSE <<Transcript(FALSE, text, m.start, m.end)>>, g, g)
  BY GoodInterim
<1>3. Good(v, IF text = {} THEN <<>> ELSE <<Transcript(FALSE, text, NoTime, NoTime)>>, g, g)
  BY <1>1, GoodInterim
<1> QED
  BY <1>2, <1>3 DEF Said, Untimed

(* A message that is told, and read on from.                               *)
LEMMA SaysTells ==
  ASSUME NEW v, NEW m, NEW g, NEW h, ~g.over, ~h.over,
         \A s : Knows(v, g, s) => \A c \in Nat : \E o, z :
           /\ Heeds(v, m, s, c) = Says(o, z) /\ Good(v, o, g, h) /\ Knows(v, h, z)
           /\ v = "speechmatics" => z \in Nat /\ z >= s
  PROVE  Tells(v, m, g, h)
<1> SUFFICES ASSUME NEW s, Knows(v, g, s), NEW c \in Nat
             PROVE  Takes(v, Heeds(v, m, s, c), g, h, s)
  BY DEF Tells
<1>1. PICK o, z : /\ Heeds(v, m, s, c) = Says(o, z) /\ Good(v, o, g, h) /\ Knows(v, h, z)
                  /\ v = "speechmatics" => z \in Nat /\ z >= s
  OBVIOUS
<1>2. Takes(v, Says(o, z), g, h, s)
  BY <1>1, SaysTakes
<1> QED
  BY <1>1, <1>2

LEMMA ReturnsTells ==
  ASSUME NEW v, NEW m, NEW g, NEW h, ~g.over, h.over, h.told,
         \A s : Knows(v, g, s) => \A c \in Nat : \E o, z :
           /\ Heeds(v, m, s, c) = Returns(o, z) /\ Good(v, o, g, h)
           /\ v = "speechmatics" => z \in Nat /\ z >= s
  PROVE  Tells(v, m, g, h)
<1> SUFFICES ASSUME NEW s, Knows(v, g, s), NEW c \in Nat
             PROVE  Takes(v, Heeds(v, m, s, c), g, h, s)
  BY DEF Tells
<1>1. PICK o, z : /\ Heeds(v, m, s, c) = Returns(o, z) /\ Good(v, o, g, h)
                  /\ v = "speechmatics" => z \in Nat /\ z >= s
  OBVIOUS
<1>2. Takes(v, Returns(o, z), g, h, s)
  BY <1>1, ReturnsTakes
<1> QED
  BY <1>1, <1>2

LEMMA RaisesTells ==
  ASSUME NEW v, NEW m, NEW g, NEW h, ~g.over, h.over, g.final = h.final, g.time <= h.time,
         \A s : Knows(v, g, s) => \A c \in Nat : \E b :
           /\ Heeds(v, m, s, c) = Raises(b, s)
           /\ v = "speechmatics" => s \in Nat /\ s >= s
  PROVE  Tells(v, m, g, h)
<1> SUFFICES ASSUME NEW s, Knows(v, g, s), NEW c \in Nat
             PROVE  Takes(v, Heeds(v, m, s, c), g, h, s)
  BY DEF Tells
<1>1. PICK b : /\ Heeds(v, m, s, c) = Raises(b, s)
               /\ v = "speechmatics" => s \in Nat /\ s >= s
  OBVIOUS
<1>2. Takes(v, Raises(b, s), g, h, s)
  BY <1>1, RaisesTakes
<1> QED
  BY <1>1, <1>2

(* The vendors whose adapter keeps nothing between messages.               *)
Forgetful == {"assemblyai", "elevenlabs", "cartesia", "turns", "aws", "telnyx", "azure", "palabra"}

LEMMA NothingKnown ==
  ASSUME NEW v, v \in Forgetful \/ v = "deepgram" \/ v = "speechmatics", NEW g, NEW s
  PROVE  /\ v \in Forgetful => Knows(v, g, s)
         /\ v = "deepgram" => (Knows(v, g, s) <=> s \in Int)
         /\ v = "speechmatics" => (Knows(v, g, s) <=> s \in Nat)
BY DEF Knows, Forgetful, Meta

LEMMA Hears ==
  ASSUME NEW v \in Dialects, NEW m, NEW s, NEW c
  PROVE  /\ v = "deepgram" => Heeds(v, m, s, c) = DeepgramParse(m, s)
         /\ v = "flux" => Heeds(v, m, s, c) = FluxParse(m, s)
         /\ v = "soniox" => Heeds(v, m, s, c) = SonioxParse(m, s)
         /\ v = "assemblyai" => Heeds(v, m, s, c) = AssemblyParse(m, s)
         /\ v = "elevenlabs" => Heeds(v, m, s, c) = ElevenParse(m, s)
         /\ v = "openai" => Heeds(v, m, s, c) = OpenAIParse(m, s)
         /\ v = "mistral" => Heeds(v, m, s, c) = MistralParse(m, s)
         /\ v = "cartesia" => Heeds(v, m, s, c) = CartesiaParse(m, s)
         /\ v = "turns" => Heeds(v, m, s, c) = TurnsParse(m, s, c)
         /\ v = "aws" => Heeds(v, m, s, c) = AWSParse(m, s)
         /\ v = "telnyx" => Heeds(v, m, s, c) = TelnyxParse(m, s)
         /\ v = "speechmatics" => Heeds(v, m, s, c) = SpeechmaticsParse(m, s)
         /\ v = "azure" => Heeds(v, m, s, c) = AzureParse(m, s)
         /\ v = "xai" => Heeds(v, m, s, c) = XaiParse(m, s)
         /\ v = "palabra" => Heeds(v, m, s, c) = PalabraParse(m, s)
         /\ v \in Meta => Heeds(v, m, s, c) = MetaParse(m, s, v = "meta_ptt")
<1>1. v = "deepgram" => Heeds(v, m, s, c) = DeepgramParse(m, s)
  BY DEF Heeds, Meta
<1>2. v = "flux" => Heeds(v, m, s, c) = FluxParse(m, s)
  BY DEF Heeds, Meta
<1>3. v = "soniox" => Heeds(v, m, s, c) = SonioxParse(m, s)
  BY DEF Heeds, Meta
<1>4. v = "assemblyai" => Heeds(v, m, s, c) = AssemblyParse(m, s)
  BY DEF Heeds, Meta
<1>5. v = "elevenlabs" => Heeds(v, m, s, c) = ElevenParse(m, s)
  BY DEF Heeds, Meta
<1>6. v = "openai" => Heeds(v, m, s, c) = OpenAIParse(m, s)
  BY DEF Heeds, Meta
<1>7. v = "mistral" => Heeds(v, m, s, c) = MistralParse(m, s)
  BY DEF Heeds, Meta
<1>8. v = "cartesia" => Heeds(v, m, s, c) = CartesiaParse(m, s)
  BY DEF Heeds, Meta
<1>9. v = "turns" => Heeds(v, m, s, c) = TurnsParse(m, s, c)
  BY DEF Heeds, Meta
<1>10. v = "aws" => Heeds(v, m, s, c) = AWSParse(m, s)
  BY DEF Heeds, Meta
<1>11. v = "telnyx" => Heeds(v, m, s, c) = TelnyxParse(m, s)
  BY DEF Heeds, Meta
<1>12. v = "speechmatics" => Heeds(v, m, s, c) = SpeechmaticsParse(m, s)
  BY DEF Heeds, Meta
<1>13. v = "azure" => Heeds(v, m, s, c) = AzureParse(m, s)
  BY DEF Heeds, Meta
<1>14. v = "xai" => Heeds(v, m, s, c) = XaiParse(m, s)
  BY DEF Heeds, Meta
<1>15. v = "palabra" => Heeds(v, m, s, c) = PalabraParse(m, s)
  BY DEF Heeds, Meta
<1>16. v \in Meta => Heeds(v, m, s, c) = MetaParse(m, s, v = "meta_ptt")
  BY DEF Heeds, Meta
<1> QED
  BY <1>1, <1>2, <1>3, <1>4, <1>5, <1>6, <1>7, <1>8, <1>9, <1>10, <1>11, <1>12, <1>13, <1>14, <1>15, <1>16

(* The message m carries the words of chunks a .. b, where they were said. *)
Carries(m, a, b) ==
  /\ m.text = a .. b /\ m.start = at[a] - 1 /\ m.end = at[b]
  /\ m.word = FALSE /\ m.ends \in BOOLEAN

(* ... as a final of these vendors.                                        *)
Finalizes(m) ==
  CASE vendor = "deepgram" -> m.kind = "Results" /\ m.final
    [] vendor = "flux" -> m.kind = "TurnInfo" /\ m.final
    [] vendor = "assemblyai" -> m.kind = "Turn" /\ m.ends /\ m.formatted
    [] vendor = "elevenlabs" -> m.kind = "committed_with_timestamps"
    [] vendor = "mistral" -> m.kind = "segment"
    [] vendor = "cartesia" -> m.kind = "transcript" /\ m.final
    [] vendor = "turns" -> m.kind = "turn.end"
    [] vendor = "aws" -> m.kind = "Result" /\ m.final
    [] vendor = "telnyx" -> m.kind = "transcript" /\ m.final
    [] vendor = "speechmatics" -> m.kind = "AddTranscript"
    [] vendor = "azure" -> m.kind = "final"
    [] vendor = "palabra" -> m.kind = "transcription" /\ m.final
    [] OTHER -> FALSE

LEMMA FinalTells ==
  ASSUME NEW g, Speaking(g), NEW b \in g.final + 1 .. Heard, NEW m,
         Carries(m, g.final + 1, b), Finalizes(m)
  PROVE  Tells(vendor, m, g, After(g, b))
<1> DEFINE h == After(g, b)
<1>1. ~g.over /\ ~h.over /\ h.final = b /\ h.more = b /\ b # 0 /\ at[b] \in Int
  <2>1. g.final \in Nat
    BY AfterFields, ViewFields
  <2> QED
    BY <2>1, AfterFields
<1>2. m.text = g.final + 1 .. b /\ m.start = at[g.final + 1] - 1 /\ m.end = at[b]
      /\ m.word = FALSE /\ m.ends \in BOOLEAN
  BY DEF Carries
<1>3. /\ Good(vendor, Said(TRUE, m), g, h)
      /\ Good(vendor, Said(TRUE, m) \o <<UtteranceEnd(m.end)>>, g, h)
  BY <1>2, FinalIsGood
<1>4. vendor \notin Pointing => Good(vendor, Untimed(TRUE, m.text), g, h)
  BY <1>2, FinalIsGood
<1>5. vendor \notin Pointing =>
        \A c \in Int : Good(vendor, Untimed(TRUE, m.text) \o <<UtteranceEnd(c)>>, g, h)
  BY <1>2, FinalIsGood
<1>6. m.text # {} /\ Said(TRUE, m) # <<>>
  BY <1>2, FinalIsGood
<1>7. vendor \in Dialects
  BY Hearing DEF Speaking
<1> HIDE DEF h
<1> SUFFICES ASSUME NEW s, Knows(vendor, g, s), NEW c \in Nat
             PROVE  \E o, z : /\ Heeds(vendor, m, s, c) = Says(o, z) /\ Good(vendor, o, g, h)
                              /\ Knows(vendor, h, z)
                              /\ vendor = "speechmatics" => z \in Nat /\ z >= s
  BY <1>1, SaysTells DEF h
<1>a. CASE vendor = "deepgram"
  <2>1. m.kind = "Results" /\ m.final
    BY <1>a DEF Finalizes
  <2>2. Heeds(vendor, m, s, c) = DeepgramParse(m, s)
    BY <1>a, <1>7, Hears
  <2>3. s \in Int /\ Knows(vendor, h, s) /\ Knows(vendor, h, m.end)
    BY <1>a, <1>1, <1>2, NothingKnown
  <2>4. CASE m.ends
    <3>1. DeepgramParse(m, s) = Says(Said(m.final, m) \o <<UtteranceEnd(m.end)>>, m.end)
      BY <2>1, <2>4 DEF DeepgramParse
    <3> QED
      BY <3>1, <1>a, <2>1, <2>2, <2>3, <1>3
  <2>5. CASE ~m.ends
    <3>1. DeepgramParse(m, s) = Says(Said(m.final, m), s)
      BY <2>1, <2>5 DEF DeepgramParse
    <3> QED
      BY <3>1, <1>a, <2>1, <2>2, <2>3, <1>3
  <2> QED
    BY <2>4, <2>5
<1>b. CASE vendor = "flux"
  <2>1. m.kind = "TurnInfo" /\ m.final
    BY <1>b DEF Finalizes
  <2>2. Heeds(vendor, m, s, c) = FluxParse(m, s)
    BY <1>b, <1>7, Hears
  <2>3. FluxParse(m, s) = Says(Said(m.final, m) \o <<UtteranceEnd(m.end)>>, <<>>)
    BY <2>1, <1>6 DEF FluxParse
  <2>4. Knows(vendor, h, <<>>)
    BY <1>b, <1>1 DEF Knows, FluxKnows, Meta
  <2> QED
    BY <1>b, <2>1, <2>2, <2>3, <2>4, <1>3
<1>c. CASE vendor = "assemblyai"
  <2>1. m.kind = "Turn" /\ m.ends /\ m.formatted
    BY <1>c DEF Finalizes
  <2>2. Heeds(vendor, m, s, c) = AssemblyParse(m, s)
    BY <1>c, <1>7, Hears
  <2>3. AssemblyParse(m, s) = Says(Said(TRUE, m) \o <<UtteranceEnd(m.end)>>, s)
    BY <2>1, <1>2, <1>6 DEF AssemblyParse
  <2>4. Knows(vendor, h, s)
    BY <1>c, NothingKnown DEF Forgetful
  <2> QED
    BY <1>c, <2>2, <2>3, <2>4, <1>3
<1>d. CASE vendor = "elevenlabs"
  <2>1. m.kind = "committed_with_timestamps"
    BY <1>d DEF Finalizes
  <2>2. Heeds(vendor, m, s, c) = ElevenParse(m, s)
    BY <1>d, <1>7, Hears
  <2>3. ElevenParse(m, s) = Says(Said(TRUE, m), s)
    BY <2>1 DEF ElevenParse
  <2>4. Knows(vendor, h, s)
    BY <1>d, NothingKnown DEF Forgetful
  <2> QED
    BY <1>d, <2>2, <2>3, <2>4, <1>3
<1>e. CASE vendor = "mistral"
  <2>1. m.kind = "segment"
    BY <1>e DEF Finalizes
  <2>2. Heeds(vendor, m, s, c) = MistralParse(m, s)
    BY <1>e, <1>7, Hears
  <2>3. MistralParse(m, s) = Says(Said(TRUE, m), [hypothesis |-> {}, segments |-> s.segments + 1])
    BY <2>1, <1>6 DEF MistralParse
  <2>4. s.segments \in Nat
    BY <1>e DEF Knows, MistralKnows
  <2>5. Knows(vendor, h, [hypothesis |-> {}, segments |-> s.segments + 1])
    BY <2>4, <1>e, <1>1 DEF Knows, MistralKnows, Meta
  <2> QED
    BY <1>e, <2>2, <2>3, <2>5, <1>3
<1>f. CASE vendor = "cartesia"
  <2>1. m.kind = "transcript" /\ m.final
    BY <1>f DEF Finalizes
  <2>2. Heeds(vendor, m, s, c) = CartesiaParse(m, s)
    BY <1>f, <1>7, Hears
  <2>3. CartesiaParse(m, s) = Says(Said(m.final, m), s)
    BY <2>1 DEF CartesiaParse
  <2>4. Knows(vendor, h, s)
    BY <1>f, NothingKnown DEF Forgetful
  <2> QED
    BY <1>f, <2>1, <2>2, <2>3, <2>4, <1>3
<1>g. CASE vendor = "turns"
  <2>1. m.kind = "turn.end"
    BY <1>g DEF Finalizes
  <2>2. Heeds(vendor, m, s, c) = TurnsParse(m, s, c)
    BY <1>g, <1>7, Hears
  <2>3. TurnsParse(m, s, c) = Says(Untimed(TRUE, m.text) \o <<UtteranceEnd(c)>>, s)
    BY <2>1 DEF TurnsParse
  <2>4. Knows(vendor, h, s)
    BY <1>g, NothingKnown DEF Forgetful
  <2>5. vendor \notin Pointing /\ c \in Int
    BY <1>g DEF Pointing
  <2> QED
    BY <1>g, <2>2, <2>3, <2>4, <2>5, <1>5
<1>h. CASE vendor = "aws"
  <2>1. m.kind = "Result" /\ m.final
    BY <1>h DEF Finalizes
  <2>2. Heeds(vendor, m, s, c) = AWSParse(m, s)
    BY <1>h, <1>7, Hears
  <2>3. AWSParse(m, s) = Says(Said(m.final, m) \o <<UtteranceEnd(m.end)>>, s)
    BY <2>1, <1>6 DEF AWSParse
  <2>4. Knows(vendor, h, s)
    BY <1>h, NothingKnown DEF Forgetful
  <2> QED
    BY <1>h, <2>1, <2>2, <2>3, <2>4, <1>3
<1>i. CASE vendor = "telnyx"
  <2>1. m.kind = "transcript" /\ m.final
    BY <1>i DEF Finalizes
  <2>2. Heeds(vendor, m, s, c) = TelnyxParse(m, s)
    BY <1>i, <1>7, Hears
  <2>3. TelnyxParse(m, s) = Says(Untimed(m.final, m.text), s)
    BY <2>1 DEF TelnyxParse
  <2>4. Knows(vendor, h, s)
    BY <1>i, NothingKnown DEF Forgetful
  <2>5. vendor \notin Pointing
    BY <1>i DEF Pointing
  <2> QED
    BY <1>i, <2>1, <2>2, <2>3, <2>4, <2>5, <1>4
<1>j. CASE vendor = "speechmatics"
  <2>1. m.kind = "AddTranscript"
    BY <1>j DEF Finalizes
  <2>2. Heeds(vendor, m, s, c) = SpeechmaticsParse(m, s)
    BY <1>j, <1>7, Hears
  <2>3. SpeechmaticsParse(m, s) = Says(Said(TRUE, m), s)
    BY <2>1 DEF SpeechmaticsParse
  <2>4. Knows(vendor, h, s) /\ s \in Nat /\ s >= s
    BY <1>j, NothingKnown
  <2> QED
    BY <2>2, <2>3, <2>4, <1>3
<1>k. CASE vendor = "azure"
  <2>1. m.kind = "final"
    BY <1>k DEF Finalizes
  <2>2. Heeds(vendor, m, s, c) = AzureParse(m, s)
    BY <1>k, <1>7, Hears
  <2>3. AzureParse(m, s) = Says(Said(TRUE, m), s)
    BY <2>1 DEF AzureParse
  <2>4. Knows(vendor, h, s)
    BY <1>k, NothingKnown DEF Forgetful
  <2> QED
    BY <1>k, <2>2, <2>3, <2>4, <1>3
<1>l. CASE vendor = "palabra"
  <2>1. m.kind = "transcription" /\ m.final
    BY <1>l DEF Finalizes
  <2>2. Heeds(vendor, m, s, c) = PalabraParse(m, s)
    BY <1>l, <1>7, Hears
  <2>3. PalabraParse(m, s) = Says(Said(m.final, m), s)
    BY <2>1 DEF PalabraParse
  <2>4. Knows(vendor, h, s)
    BY <1>l, NothingKnown DEF Forgetful
  <2> QED
    BY <1>l, <2>1, <2>2, <2>3, <2>4, <1>3
<1>z. vendor \in {"deepgram", "flux", "assemblyai", "elevenlabs", "mistral", "cartesia", "turns", "aws",
                  "telnyx", "speechmatics", "azure", "palabra"}
  BY DEF Finalizes
<1> QED
  BY <1>a, <1>b, <1>c, <1>d, <1>e, <1>f, <1>g, <1>h, <1>i, <1>j, <1>k, <1>l, <1>z

(* As an interim of these vendors, after any view g.                       *)
Revises(m) ==
  CASE vendor = "deepgram" -> m.kind = "Results" /\ ~m.final /\ ~m.ends
    [] vendor = "assemblyai" -> m.kind = "Turn" /\ ~m.ends
    [] vendor = "elevenlabs" -> m.kind = "partial"
    [] vendor = "cartesia" -> m.kind = "transcript" /\ ~m.final
    [] vendor = "turns" -> m.kind = "turn.update"
    [] vendor = "aws" -> m.kind = "Result" /\ ~m.final
    [] vendor = "speechmatics" -> m.kind = "AddPartialTranscript"
    [] vendor = "azure" -> m.kind = "interim"
    [] vendor = "palabra" -> m.kind = "transcription" /\ ~m.final
    [] vendor \in Meta -> m.kind = "transcript" /\ ~m.final
    [] OTHER -> FALSE

LEMMA InterimTells ==
  ASSUME vendor \in Dialects, NEW g \in Views, ~g.over, NEW m \in Message, m.word = FALSE,
         m.text \in SUBSET (g.final + 1 .. Chunks), Revises(m)
  PROVE  Tells(vendor, m, g, g)
<1>1. m.start \in Int /\ m.end \in Int /\ m.final \in BOOLEAN /\ m.ends \in BOOLEAN
  BY DEF Message
<1>2. NoTime \in Int
  BY DEF NoTime
<1>3. Good(vendor, Said(FALSE, m), g, g) /\ Good(vendor, Untimed(FALSE, m.text), g, g)
  BY <1>1, InterimIsGood
<1>4. Good(vendor, Said(FALSE, m) \o <<>>, g, g)
  <2>1. Said(FALSE, m) \in Seq(Event)
    BY <1>3 DEF Good
  <2>2. Said(FALSE, m) \o <<>> = Said(FALSE, m)
    BY <2>1, NothingAdded
  <2> QED
    BY <2>2, <1>3
<1> SUFFICES ASSUME NEW s, Knows(vendor, g, s), NEW c \in Nat
             PROVE  \E o, z : /\ Heeds(vendor, m, s, c) = Says(o, z) /\ Good(vendor, o, g, g)
                              /\ Knows(vendor, g, z)
                              /\ vendor = "speechmatics" => z \in Nat /\ z >= s
  BY SaysTells
<1>a. CASE vendor = "deepgram"
  <2>1. m.kind = "Results" /\ m.final = FALSE /\ ~m.ends
    BY <1>a, <1>1 DEF Revises, Meta
  <2>2. Heeds(vendor, m, s, c) = DeepgramParse(m, s)
    BY <1>a, Hears
  <2>3. DeepgramParse(m, s) = Says(Said(FALSE, m), s)
    BY <2>1 DEF DeepgramParse
  <2> QED
    BY <1>a, <2>2, <2>3, <1>3
<1>c. CASE vendor = "assemblyai"
  <2>1. m.kind = "Turn" /\ m.ends = FALSE
    BY <1>c, <1>1 DEF Revises, Meta
  <2>2. Heeds(vendor, m, s, c) = AssemblyParse(m, s)
    BY <1>c, Hears
  <2>3. AssemblyParse(m, s) = Says(Said(FALSE, m) \o <<>>, s)
    BY <2>1 DEF AssemblyParse
  <2> QED
    BY <1>c, <2>2, <2>3, <1>4
<1>d. CASE vendor = "elevenlabs"
  <2>1. m.kind = "partial"
    BY <1>d DEF Revises, Meta
  <2>2. Heeds(vendor, m, s, c) = ElevenParse(m, s)
    BY <1>d, Hears
  <2>3. ElevenParse(m, s) = Says(Untimed(FALSE, m.text), s)
    BY <2>1 DEF ElevenParse
  <2> QED
    BY <1>d, <2>2, <2>3, <1>3
<1>f. CASE vendor = "cartesia"
  <2>1. m.kind = "transcript" /\ m.final = FALSE
    BY <1>f, <1>1 DEF Revises, Meta
  <2>2. Heeds(vendor, m, s, c) = CartesiaParse(m, s)
    BY <1>f, Hears
  <2>3. CartesiaParse(m, s) = Says(Said(FALSE, m), s)
    BY <2>1 DEF CartesiaParse
  <2> QED
    BY <1>f, <2>2, <2>3, <1>3
<1>g. CASE vendor = "turns"
  <2>1. m.kind = "turn.update"
    BY <1>g DEF Revises, Meta
  <2>2. Heeds(vendor, m, s, c) = TurnsParse(m, s, c)
    BY <1>g, Hears
  <2>3. TurnsParse(m, s, c) = Says(Untimed(FALSE, m.text), s)
    BY <2>1 DEF TurnsParse
  <2> QED
    BY <1>g, <2>2, <2>3, <1>3
<1>h. CASE vendor = "aws"
  <2>1. m.kind = "Result" /\ m.final = FALSE
    BY <1>h, <1>1 DEF Revises, Meta
  <2>2. Heeds(vendor, m, s, c) = AWSParse(m, s)
    BY <1>h, Hears
  <2>3. AWSParse(m, s) = Says(Said(FALSE, m) \o <<>>, s)
    BY <2>1 DEF AWSParse
  <2> QED
    BY <1>h, <2>2, <2>3, <1>4
<1>j. CASE vendor = "speechmatics"
  <2>1. m.kind = "AddPartialTranscript"
    BY <1>j DEF Revises, Meta
  <2>2. Heeds(vendor, m, s, c) = SpeechmaticsParse(m, s)
    BY <1>j, Hears
  <2>3. SpeechmaticsParse(m, s) = Says(Said(FALSE, m), s)
    BY <2>1 DEF SpeechmaticsParse
  <2>4. s \in Nat /\ s >= s
    BY <1>j, NothingKnown
  <2> QED
    BY <2>2, <2>3, <2>4, <1>3
<1>k. CASE vendor = "azure"
  <2>1. m.kind = "interim"
    BY <1>k DEF Revises, Meta
  <2>2. Heeds(vendor, m, s, c) = AzureParse(m, s)
    BY <1>k, Hears
  <2>3. AzureParse(m, s) = Says(Said(FALSE, [m EXCEPT !.end = NoTime]), s)
    BY <2>1 DEF AzureParse
  <2>4. \E p : /\ p = [m EXCEPT !.end = NoTime] /\ p.text = m.text /\ p.start \in Int /\ p.end \in Int
    <3>1. LET p == [m EXCEPT !.end = NoTime]
          IN p.text = m.text /\ p.start = m.start /\ p.end = NoTime
      BY DEF Message
    <3> QED
      BY <3>1, <1>1, <1>2
  <2>5. Good(vendor, Said(FALSE, [m EXCEPT !.end = NoTime]), g, g)
    BY <2>4, InterimIsGood
  <2> QED
    BY <1>k, <2>2, <2>3, <2>5
<1>l. CASE vendor = "palabra"
  <2>1. m.kind = "transcription" /\ m.final = FALSE
    BY <1>l, <1>1 DEF Revises, Meta
  <2>2. Heeds(vendor, m, s, c) = PalabraParse(m, s)
    BY <1>l, Hears
  <2>3. PalabraParse(m, s) = Says(Said(FALSE, m), s)
    BY <2>1 DEF PalabraParse
  <2> QED
    BY <1>l, <2>2, <2>3, <1>3
<1>m. CASE vendor \in Meta
  <2>1. m.kind = "transcript" /\ m.final = FALSE /\ vendor # "speechmatics"
    BY <1>m, <1>1 DEF Revises, Meta
  <2>2. Heeds(vendor, m, s, c) = MetaParse(m, s, vendor = "meta_ptt")
    BY <1>m, Hears
  <2> DEFINE current == IF s.turn = NoTime THEN NoTime ELSE s.starts[s.turn]
  <2>3. MetaParse(m, s, vendor = "meta_ptt") =
          Says(Said(FALSE, [m EXCEPT !.start = current]), [s EXCEPT !.seen = @])
    <3>1. ASSUME NEW p \in BOOLEAN
          PROVE  MetaParse(m, s, p) = Says(Said(FALSE, [m EXCEPT !.start = current]), [s EXCEPT !.seen = @])
      <4>1. (p /\ m.final) = FALSE /\ MetaKnows(vendor, g, s) /\ s.seen \in BOOLEAN
        BY <2>1, <1>m DEF Knows, MetaKnows, MetaState
      <4>2. (s.seen \/ ((p /\ m.final) /\ m.text # {})) = s.seen
        BY <4>1
      <4> QED
        BY <4>1, <4>2, <2>1 DEF MetaParse
    <3> QED
      BY <3>1
  <2>4. s \in MetaState /\ Knows(vendor, g, [s EXCEPT !.seen = @])
    <3>1. s \in MetaState
      BY <1>m DEF Knows, MetaKnows
    <3>2. [s EXCEPT !.seen = @] = s
      BY <3>1 DEF MetaState
    <3> QED
      BY <3>1, <3>2
  <2>5. current \in Int
    BY <2>4, <1>2 DEF MetaState
  <2> HIDE DEF current
  <2>6. \E p : /\ p = [m EXCEPT !.start = current] /\ p.text = m.text /\ p.start \in Int /\ p.end \in Int
    <3>1. LET p == [m EXCEPT !.start = current]
          IN p.text = m.text /\ p.start = current /\ p.end = m.end
      BY DEF Message
    <3> QED
      BY <3>1, <1>1, <2>5
  <2>7. Good(vendor, Said(FALSE, [m EXCEPT !.start = current]), g, g)
    BY <2>6, InterimIsGood
  <2> QED
    BY <2>1, <2>2, <2>3, <2>4, <2>7
<1>z. \/ vendor \in {"deepgram", "assemblyai", "elevenlabs", "cartesia", "turns", "aws",
                     "speechmatics", "azure", "palabra"}
      \/ vendor \in Meta
  BY DEF Revises, Meta
<1> QED
  BY <1>a, <1>c, <1>d, <1>f, <1>g, <1>h, <1>j, <1>k, <1>l, <1>m, <1>z

(* Views that differ in what does not matter to events.                    *)
LEMMA GoodAlike ==
  ASSUME NEW v, NEW o, NEW g, NEW h, NEW i, Good(v, o, g, h), i.final = h.final, i.time = h.time
  PROVE  Good(v, o, g, i)
<1>1. \A e : Harmless(v, e, h) => Harmless(v, e, i)
  BY DEF Harmless
<1>2. \A e : Settles(v, e, g, h) => Settles(v, e, g, i)
  BY DEF Settles
<1> QED
  BY <1>1, <1>2 DEF Good

WithMore(g, n) == [g EXCEPT !.more = n]
WithItem(g, i, n) == [g EXCEPT !.item = i, !.ahead = n]

LEMMA MoreFields ==
  ASSUME NEW g \in Views, NEW n \in 0 .. Chunks
  PROVE  LET h == WithMore(g, n)
         IN /\ h \in Views /\ h.final = g.final /\ h.more = n /\ h.time = g.time /\ h.item = g.item
            /\ h.ahead = g.ahead /\ h.seen = g.seen /\ h.erred = g.erred /\ h.told = g.told
            /\ h.over = g.over
BY DEF Views, WithMore

LEMMA ItemFields ==
  ASSUME NEW g \in Views, NEW i \in 0 .. Chunks, NEW n \in 0 .. Chunks
  PROVE  LET h == WithItem(g, i, n)
         IN /\ h \in Views /\ h.final = g.final /\ h.more = g.more /\ h.time = g.time /\ h.item = i
            /\ h.ahead = n /\ h.seen = g.seen /\ h.erred = g.erred /\ h.told = g.told
            /\ h.over = g.over
BY DEF Views, WithItem

(* Flux: an Update.                                                        *)
LEMMA FluxUpdate ==
  ASSUME vendor = "flux", NEW g, Speaking(g), Heard > g.final, NEW m \in Message,
         Carries(m, g.final + 1, Heard), m.kind = "TurnInfo", m.final = FALSE
  PROVE  Tells(vendor, m, g, WithMore(g, Heard))
<1> DEFINE h == WithMore(g, Heard)
<1>1. /\ g \in Views /\ ~g.over /\ Heard \in Nat /\ Heard <= Chunks /\ g.final \in Nat
      /\ at[g.final + 1] = g.final + 1 /\ at[Heard] = Heard /\ vendor \in Dialects
  <2>1. g \in Views /\ ~g.over /\ Told
    BY DEF Speaking, Along, AtWork
  <2>2. Heard \in Nat /\ Heard <= Chunks /\ g.final \in Nat /\ vendor \in Dialects
    BY <2>1, Hearing, ViewFields
  <2>3. \A i \in 1 .. Heard : at[i] = i
    BY <2>1, Hearing
  <2> QED
    BY <2>1, <2>2, <2>3
<1>2. /\ h.final = g.final /\ h.more = Heard /\ h.time = g.time /\ h.over = g.over
  <2>1. Heard \in 0 .. Chunks
    BY <1>1, NaturalChunks
  <2> QED
    BY <2>1, <1>1, MoreFields
<1> HIDE DEF h
<1>3. m.text = g.final + 1 .. Heard /\ m.text \in SUBSET (g.final + 1 .. Chunks)
      /\ m.start = g.final /\ m.end = Heard
  BY <1>1, NaturalChunks DEF Carries
<1>4. m.text # {}
  BY <1>1, <1>3
<1> DEFINE turn == <<Transcript(FALSE, g.final + 1 .. Heard, g.final, Heard)>>
<1>5. Said(m.final, m) = turn
  BY <1>3, <1>4 DEF Said
<1>6. turn # <<>>
  OBVIOUS
<1>7. Good(vendor, Said(FALSE, m), g, g)
  <2>1. m.start \in Int /\ m.end \in Int
    BY <1>1, <1>3
  <2> QED
    BY <2>1, <1>1, <1>3, InterimIsGood
<1>8. turn \o <<>> = turn
  <2>1. turn \in Seq(Event)
    BY <1>5, <1>7 DEF Good
  <2> HIDE DEF turn
  <2> QED
    BY <2>1, NothingAdded
<1>9. Good(vendor, turn, g, h)
  BY <1>2, <1>5, <1>7, GoodAlike
<1>10. Knows(vendor, h, turn)
  <2>1. h.more # h.final
    BY <1>1, <1>2
  <2>2. FluxKnows(h, turn)
    BY <2>1, <1>2 DEF FluxKnows
  <2> HIDE DEF turn
  <2> QED
    BY <2>2 DEF Knows, Meta
<1>11. \A s : FluxParse(m, s) = Says(turn \o <<>>, turn)
  <2> HIDE DEF turn
  <2> QED
    BY <1>5, <1>6 DEF FluxParse
<1> HIDE DEF turn
<1> SUFFICES ASSUME NEW s, Knows(vendor, g, s), NEW c \in Nat
             PROVE  \E o, z : /\ Heeds(vendor, m, s, c) = Says(o, z) /\ Good(vendor, o, g, h)
                              /\ Knows(vendor, h, z)
                              /\ vendor = "speechmatics" => z \in Nat /\ z >= s
  BY <1>1, <1>2, SaysTells DEF h
<1>12. Heeds(vendor, m, s, c) = FluxParse(m, s)
  BY <1>1, Hears
<1> QED
  BY <1>8, <1>9, <1>10, <1>11, <1>12

(* Mistral: a delta.                                                       *)
LEMMA MistralDelta ==
  ASSUME vendor = "mistral", NEW g \in Views, ~g.over, NEW m \in Message, m.kind = "delta",
         m.text \in SUBSET (g.final + 1 .. Chunks)
  PROVE  Tells(vendor, m, g, g)
<1>1. vendor \in Dialects
  BY DEF Dialects
<1> SUFFICES ASSUME NEW s, Knows(vendor, g, s), NEW c \in Nat
             PROVE  \E o, z : /\ Heeds(vendor, m, s, c) = Says(o, z) /\ Good(vendor, o, g, g)
                              /\ Knows(vendor, g, z)
                              /\ vendor = "speechmatics" => z \in Nat /\ z >= s
  BY SaysTells
<1>2. MistralKnows(g, s)
  BY DEF Knows
<1> DEFINE text == s.hypothesis \cup m.text
           z == [s EXCEPT !.hypothesis = text]
<1>3. Heeds(vendor, m, s, c) = Says(Untimed(FALSE, text), z)
  <2>1. Heeds(vendor, m, s, c) = MistralParse(m, s)
    BY <1>1, Hears
  <2>2. MistralParse(m, s) = Says(Untimed(FALSE, text), z)
    BY DEF MistralParse
  <2> QED
    BY <2>1, <2>2
<1>4. text \in SUBSET (g.final + 1 .. Chunks)
  BY <1>2 DEF MistralKnows
<1>5. z \in [hypothesis : SUBSET (g.final + 1 .. Chunks), segments : Nat] /\ z.segments = s.segments
  BY <1>2, <1>4 DEF MistralKnows
<1>6. Knows(vendor, g, z)
  <2> HIDE DEF z
  <2> QED
    BY <1>2, <1>5 DEF MistralKnows, Knows, Meta
<1> HIDE DEF text, z
<1>7. Good(vendor, Untimed(FALSE, text), g, g)
  <2>1. m.start \in Int /\ m.end \in Int
    BY DEF Message
  <2>2. LET p == [text |-> text, start |-> 0, end |-> 0]
        IN p.text = text /\ p.start \in Int /\ p.end \in Int
    OBVIOUS
  <2> QED
    BY <2>2, <1>4, InterimIsGood
<1> QED
  BY <1>3, <1>6, <1>7

(* OpenAI: a delta of the item at work, a delta of the next while that is  *)
(* not complete, an endpoint, and the completion.                          *)
LEMMA OpenAIText ==
  ASSUME vendor = "openai", NEW g \in Views, NEW s, Knows(vendor, g, s)
  PROVE  /\ s \in [0 .. Chunks -> SUBSET (1 .. Chunks)] /\ s[g.item] \subseteq g.final + 1 .. Chunks
         /\ g.item + 1 <= Chunks => s[g.item + 1] \subseteq g.ahead + 1 .. Chunks
         /\ \A i \in 0 .. Chunks : i > g.item + 1 => s[i] = {}
<1>1. OpenAIKnows(g, s)
  BY DEF Knows
<1>2. g.item \in Nat /\ g.item <= Chunks /\ Chunks \in Nat
  BY ViewFields, NaturalChunks
<1>3. g.item + 1 <= Chunks => g.item + 1 \in 0 .. Chunks
  BY <1>2
<1> QED
  BY <1>1, <1>3 DEF OpenAIKnows

LEMMA OpenAISays ==
  ASSUME vendor = "openai", NEW m, NEW s, NEW c
  PROVE  /\ m.kind = "delta" =>
              Heeds(vendor, m, s, c) = Says(Untimed(FALSE, s[m.item] \cup m.text),
                                            [s EXCEPT ![m.item] = s[m.item] \cup m.text])
         /\ m.kind = "completed" =>
              Heeds(vendor, m, s, c) = Says(Untimed(TRUE, m.text), [s EXCEPT ![m.item] = {}])
         /\ m.kind = "commit" => Heeds(vendor, m, s, c) = Says(<<>>, s)
         /\ m.kind = "error" => Heeds(vendor, m, s, c) = Raises(m.server, s)
<1>1. Heeds(vendor, m, s, c) = OpenAIParse(m, s)
  <2>1. vendor \in Dialects
    BY DEF Dialects
  <2> QED
    BY <2>1, Hears
<1>2. m.kind = "delta" =>
        OpenAIParse(m, s) = Says(Untimed(FALSE, s[m.item] \cup m.text),
                                 [s EXCEPT ![m.item] = s[m.item] \cup m.text])
  BY DEF OpenAIParse
<1>3. m.kind = "completed" => OpenAIParse(m, s) = Says(Untimed(TRUE, m.text), [s EXCEPT ![m.item] = {}])
  BY DEF OpenAIParse
<1>5. m.kind = "commit" => OpenAIParse(m, s) = Says(<<>>, s)
  BY DEF OpenAIParse
<1>6. m.kind = "error" => OpenAIParse(m, s) = Raises(m.server, s)
  BY DEF OpenAIParse
<1> QED
  BY <1>1, <1>2, <1>3, <1>5, <1>6

LEMMA UntimedInterim ==
  ASSUME NEW v, NEW g \in Views, NEW text \in SUBSET (g.final + 1 .. Chunks)
  PROVE  Good(v, Untimed(FALSE, text), g, g)
<1> DEFINE p == [text |-> text, start |-> 0, end |-> 0]
<1>1. p.text = text /\ p.start \in Int /\ p.end \in Int
  OBVIOUS
<1> HIDE DEF p
<1> QED
  BY <1>1, InterimIsGood

LEMMA OpenAIDelta ==
  ASSUME vendor = "openai", NEW g \in Views, ~g.over, NEW m, m.kind = "delta",
         m.item = g.item, m.text \in SUBSET (g.final + 1 .. Chunks)
  PROVE  Tells(vendor, m, g, g)
<1> SUFFICES ASSUME NEW s, Knows(vendor, g, s), NEW c \in Nat
             PROVE  \E o, z : /\ Heeds(vendor, m, s, c) = Says(o, z) /\ Good(vendor, o, g, g)
                              /\ Knows(vendor, g, z)
                              /\ vendor = "speechmatics" => z \in Nat /\ z >= s
  BY SaysTells
<1> DEFINE text == s[m.item] \cup m.text
           z == [s EXCEPT ![m.item] = text]
<1>1. Heeds(vendor, m, s, c) = Says(Untimed(FALSE, text), z)
  BY OpenAISays
<1>2. text \in SUBSET (g.final + 1 .. Chunks) /\ text \in SUBSET (1 .. Chunks)
  <2>1. s[g.item] \subseteq g.final + 1 .. Chunks /\ g.final \in Nat /\ Chunks \in Nat
    BY OpenAIText, ViewFields, NaturalChunks
  <2>2. g.final + 1 .. Chunks \subseteq 1 .. Chunks
    BY <2>1
  <2> QED
    BY <2>1, <2>2
<1>3. g.item \in 0 .. Chunks /\ g.item \in Int
  BY ViewFields, NaturalChunks
<1>4. s \in [0 .. Chunks -> SUBSET (1 .. Chunks)] /\ OpenAIKnows(g, s)
  BY OpenAIText DEF Knows
<1>5. z \in [0 .. Chunks -> SUBSET (1 .. Chunks)]
  BY <1>2, <1>3, <1>4
<1>6. z[g.item] = text /\ \A i \in 0 .. Chunks : i # g.item => z[i] = s[i]
  BY <1>2, <1>3, <1>4
<1> HIDE DEF text, z
<1>7. Knows(vendor, g, z)
  <2>1. OpenAIKnows(g, z)
    BY <1>2, <1>3, <1>4, <1>5, <1>6 DEF OpenAIKnows
  <2> QED
    BY <2>1 DEF Knows, Meta
<1>8. Good(vendor, Untimed(FALSE, text), g, g)
  BY <1>2, UntimedInterim
<1> QED
  BY <1>1, <1>7, <1>8

LEMMA OpenAINext ==
  ASSUME vendor = "openai", NEW g \in Views, ~g.over, g.ahead = Chunks, g.item + 1 <= Chunks,
         NEW b \in 0 .. Chunks, b >= g.final, NEW m, m.kind = "delta", m.item = g.item + 1,
         m.text \in SUBSET (b + 1 .. Chunks)
  PROVE  Tells(vendor, m, g, WithItem(g, g.item, b))
<1> DEFINE h == WithItem(g, g.item, b)
<1>1. /\ h \in Views /\ h.final = g.final /\ h.more = g.more /\ h.time = g.time /\ h.item = g.item
      /\ h.ahead = b /\ h.over = g.over
  <2>1. g.item \in 0 .. Chunks
    BY ViewFields, NaturalChunks
  <2> QED
    BY <2>1, ItemFields
<1> HIDE DEF h
<1> SUFFICES ASSUME NEW s, Knows(vendor, g, s), NEW c \in Nat
             PROVE  \E o, z : /\ Heeds(vendor, m, s, c) = Says(o, z) /\ Good(vendor, o, g, h)
                              /\ Knows(vendor, h, z)
                              /\ vendor = "speechmatics" => z \in Nat /\ z >= s
  BY <1>1, SaysTells DEF h
<1> DEFINE text == s[m.item] \cup m.text
           z == [s EXCEPT ![m.item] = text]
<1>2. Heeds(vendor, m, s, c) = Says(Untimed(FALSE, text), z)
  BY OpenAISays
<1>3. g.item \in Nat /\ g.final \in Nat /\ Chunks \in Nat /\ g.item + 1 \in 0 .. Chunks
      /\ g.item \in 0 .. Chunks /\ b \in Nat /\ b <= Chunks
  BY ViewFields, NaturalChunks
<1>4. text \in SUBSET (b + 1 .. Chunks)
  <2>1. s[g.item + 1] \subseteq Chunks + 1 .. Chunks
    BY OpenAIText
  <2>2. s[g.item + 1] = {}
    BY <2>1, <1>3
  <2> QED
    BY <2>2
<1>5. text \in SUBSET (g.final + 1 .. Chunks) /\ text \in SUBSET (1 .. Chunks)
  BY <1>3, <1>4
<1>6. s \in [0 .. Chunks -> SUBSET (1 .. Chunks)] /\ s[g.item] \subseteq g.final + 1 .. Chunks
      /\ \A i \in 0 .. Chunks : i > g.item + 1 => s[i] = {}
  BY OpenAIText
<1>7. z \in [0 .. Chunks -> SUBSET (1 .. Chunks)]
  BY <1>5, <1>3, <1>6
<1>8. z[g.item + 1] = text /\ \A i \in 0 .. Chunks : i # g.item + 1 => z[i] = s[i]
  BY <1>5, <1>3, <1>6
<1> HIDE DEF text, z
<1>9. Knows(vendor, h, z)
  <2>1. z[h.item] \subseteq h.final + 1 .. Chunks
    BY <1>1, <1>3, <1>6, <1>8
  <2>2. \A i \in 0 .. Chunks : /\ i = h.item + 1 => z[i] \subseteq h.ahead + 1 .. Chunks
                               /\ i > h.item + 1 => z[i] = {}
    <3> TAKE i \in 0 .. Chunks
    <3>1. h.item + 1 = g.item + 1 /\ h.ahead = b
      BY <1>1
    <3>2. CASE i = g.item + 1
      BY <3>1, <3>2, <1>4, <1>8, <1>3
    <3>3. CASE i # g.item + 1
      <4>1. z[i] = s[i]
        BY <3>3, <1>8
      <4> QED
        BY <3>1, <3>3, <4>1, <1>6
    <3> QED
      BY <3>2, <3>3
  <2>3. OpenAIKnows(h, z)
    BY <2>1, <2>2, <1>7 DEF OpenAIKnows
  <2> QED
    BY <2>3 DEF Knows, Meta
<1>10. Good(vendor, Untimed(FALSE, text), g, h)
  BY <1>1, <1>5, UntimedInterim, GoodAlike
<1> QED
  BY <1>2, <1>9, <1>10

LEMMA OpenAIStopped ==
  ASSUME vendor = "openai", NEW g \in Views, ~g.over, NEW m, m.kind = "speech_stopped", m.at \in Int
  PROVE  Tells(vendor, m, g, g)
<1> SUFFICES ASSUME NEW s, Knows(vendor, g, s), NEW c \in Nat
             PROVE  \E o, z : /\ Heeds(vendor, m, s, c) = Says(o, z) /\ Good(vendor, o, g, g)
                              /\ Knows(vendor, g, z)
                              /\ vendor = "speechmatics" => z \in Nat /\ z >= s
  BY SaysTells
<1>0. Heeds(vendor, m, s, c) = Says(<<UtteranceEnd(m.at)>>, s)
  <2>1. Heeds(vendor, m, s, c) = OpenAIParse(m, s)
    <3>1. vendor \in Dialects
      BY DEF Dialects
    <3> QED
      BY <3>1, Hears
  <2>2. OpenAIParse(m, s) = Says(<<UtteranceEnd(m.at)>>, s)
    BY DEF OpenAIParse
  <2> QED
    BY <2>1, <2>2
<1>1. Good(vendor, <<UtteranceEnd(m.at)>>, g, g)
  <2>1. vendor \notin Pointing /\ g.time <= g.time
    BY ViewFields DEF Pointing
  <2> QED
    BY <2>1, GoodEnd
<1> QED
  BY <1>0, <1>1

LEMMA OpenAICompleted ==
  ASSUME vendor = "openai", NEW g, Speaking(g), g.item + 1 <= Chunks, NEW b \in g.final + 1 .. Heard,
         NEW i \in Views, i.final = g.final, i.time = g.time, i.item = g.item, i.ahead >= b, ~i.over,
         NEW m, m.kind = "completed", m.item = g.item, m.text = g.final + 1 .. b
  PROVE  Tells(vendor, m, i, WithItem(After(g, b), g.item + 1, Chunks))
<1> DEFINE h == WithItem(After(g, b), g.item + 1, Chunks)
<1>0. g \in Views /\ g.item \in Nat /\ g.final \in Nat /\ Chunks \in Nat /\ g.item + 1 \in 0 .. Chunks
      /\ g.item \in 0 .. Chunks /\ b \in Nat /\ b <= Chunks /\ i.ahead \in Nat /\ i.ahead <= Chunks
  <2>1. g \in Views /\ Told
    BY AfterFields DEF Speaking
  <2>2. Heard \in Nat /\ Heard <= Chunks
    BY <2>1, Hearing
  <2> QED
    BY <2>1, <2>2, ViewFields, NaturalChunks
<1>1. /\ h \in Views /\ h.final = b /\ h.time = After(g, b).time /\ h.item = g.item + 1
      /\ h.ahead = Chunks /\ ~h.over
  <2>1. After(g, b) \in Views /\ After(g, b).final = b /\ ~After(g, b).over
    BY AfterFields
  <2>2. Chunks \in 0 .. Chunks
    BY <1>0
  <2>3. /\ h \in Views /\ h.final = After(g, b).final /\ h.time = After(g, b).time
        /\ h.item = g.item + 1 /\ h.ahead = Chunks /\ h.over = After(g, b).over
    <3>1. After(g, b) \in Views /\ g.item + 1 \in 0 .. Chunks /\ Chunks \in 0 .. Chunks
      BY <2>1, <2>2, <1>0
    <3> QED
      BY <3>1, ItemFields, ZenonT(60)
  <2> HIDE DEF h
  <2> QED
    BY <2>1, <2>3
<1>2. Good(vendor, Untimed(TRUE, m.text), g, h)
  <2>1. vendor \notin Pointing
    BY DEF Pointing
  <2>2. Good(vendor, Untimed(TRUE, m.text), g, After(g, b))
    BY <2>1, FinalIsGood
  <2>3. After(g, b).final = b
    BY AfterFields
  <2> HIDE DEF h
  <2> QED
    BY <2>2, <2>3, <1>1, GoodAlike
<1> HIDE DEF h
<1>3. Good(vendor, Untimed(TRUE, m.text), i, h)
  <2>1. \A e : Settles(vendor, e, g, h) => Settles(vendor, e, i, h)
    BY DEF Settles
  <2> QED
    BY <2>1, <1>2 DEF Good
<1> SUFFICES ASSUME NEW s, Knows(vendor, i, s), NEW c \in Nat
             PROVE  \E o, z : /\ Heeds(vendor, m, s, c) = Says(o, z) /\ Good(vendor, o, i, h)
                              /\ Knows(vendor, h, z)
                              /\ vendor = "speechmatics" => z \in Nat /\ z >= s
  BY <1>1, SaysTells DEF h
<1> DEFINE z == [s EXCEPT ![m.item] = {}]
<1>4. Heeds(vendor, m, s, c) = Says(Untimed(TRUE, m.text), z)
  BY OpenAISays
<1>5. s \in [0 .. Chunks -> SUBSET (1 .. Chunks)] /\ s[g.item + 1] \subseteq i.ahead + 1 .. Chunks
      /\ \A j \in 0 .. Chunks : j > g.item + 1 => s[j] = {}
  BY <1>0, OpenAIText
<1>6. z \in [0 .. Chunks -> SUBSET (1 .. Chunks)] /\ \A j \in 0 .. Chunks : j # g.item => z[j] = s[j]
  BY <1>0, <1>5
<1> HIDE DEF z
<1>7. Knows(vendor, h, z)
  <2>1. z[h.item] \subseteq h.final + 1 .. Chunks
    <3>1. z[h.item] = s[g.item + 1]
      BY <1>0, <1>1, <1>6
    <3>2. i.ahead + 1 .. Chunks \subseteq h.final + 1 .. Chunks
      BY <1>0, <1>1
    <3> QED
      BY <3>1, <3>2, <1>5
  <2>2. \A j \in 0 .. Chunks : j > h.item => z[j] = {}
    BY <1>0, <1>1, <1>5, <1>6
  <2>3. \A j \in 0 .. Chunks : /\ j = h.item + 1 => z[j] \subseteq h.ahead + 1 .. Chunks
                               /\ j > h.item + 1 => z[j] = {}
    BY <2>2, <1>0, <1>1
  <2>4. OpenAIKnows(h, z)
    BY <2>1, <2>3, <1>6 DEF OpenAIKnows
  <2> QED
    BY <2>4 DEF Knows, Meta
<1> QED
  BY <1>3, <1>4, <1>7

(* Soniox: tokens.                                                         *)
LEMMA Bounds ==
  ASSUME NEW i \in Int, NEW j \in Int, i <= j
  PROVE  /\ (CHOOSE c \in i .. j : \A d \in i .. j : d <= c) = j
         /\ (CHOOSE c \in i .. j : \A d \in i .. j : c >= d) = j
         /\ (CHOOSE c \in i .. j : \A d \in i .. j : c <= d) = i
<1>1. (CHOOSE c \in i .. j : \A d \in i .. j : d <= c) = j
  <2> DEFINE x == CHOOSE c \in i .. j : \A d \in i .. j : d <= c
  <2>1. j \in i .. j /\ \A d \in i .. j : d <= j
    OBVIOUS
  <2>2. x \in i .. j /\ \A d \in i .. j : d <= x
    BY <2>1
  <2> HIDE DEF x
  <2>3. x = j
    BY <2>1, <2>2
  <2> QED
    BY <2>3 DEF x
<1>2. (CHOOSE c \in i .. j : \A d \in i .. j : c >= d) = j
  <2> DEFINE x == CHOOSE c \in i .. j : \A d \in i .. j : c >= d
  <2>1. j \in i .. j /\ \A d \in i .. j : j >= d
    OBVIOUS
  <2>2. x \in i .. j /\ \A d \in i .. j : x >= d
    BY <2>1
  <2> HIDE DEF x
  <2>3. x = j
    BY <2>1, <2>2
  <2> QED
    BY <2>3 DEF x
<1>3. (CHOOSE c \in i .. j : \A d \in i .. j : c <= d) = i
  <2> DEFINE x == CHOOSE c \in i .. j : \A d \in i .. j : c <= d
  <2>1. i \in i .. j /\ \A d \in i .. j : i <= d
    OBVIOUS
  <2>2. x \in i .. j /\ \A d \in i .. j : x <= d
    BY <2>1
  <2> HIDE DEF x
  <2>3. x = i
    BY <2>1, <2>2
  <2> QED
    BY <2>3 DEF x
<1> QED
  BY <1>1, <1>2, <1>3

(* A transcript of chunks i .. j, if there are any.                        *)
Stretch(final, i, j) == IF i > j THEN <<>> ELSE <<Transcript(final, i .. j, i - 1, j)>>

(* What it yields of a message whose new tokens are up to n, with others   *)
(* up to k, and where that leaves it.                                      *)
SonioxFlushes(m) == m.ends \/ m.finished \/ m.non = {}
SonioxYields(g, n, k, m) ==
  (IF SonioxFlushes(m) THEN Stretch(TRUE, g.final + 1, n) ELSE <<>>)
    \o (IF m.ends THEN <<UtteranceEnd(n)>> ELSE <<>>)
    \o Stretch(FALSE, IF SonioxFlushes(m) THEN n + 1 ELSE g.final + 1, k)
SonioxView(g, n, m) ==
  [g EXCEPT !.more = n, !.told = @ \/ m.finished, !.over = m.finished,
            !.final = IF SonioxFlushes(m) THEN n ELSE @,
            !.time = IF SonioxFlushes(m) THEN n ELSE @]

SonioxTokens(g, n, k, m) ==
  /\ m.kind = "tokens" /\ m.ends \in BOOLEAN /\ m.finished \in BOOLEAN
  /\ {c \in m.fin : g.more = 0 \/ c - 1 >= g.more} = g.more + 1 .. n
  /\ m.non = n + 1 .. k
  /\ m.finished \/ m.fin \cup m.non # {}

LEMMA SonioxFields ==
  ASSUME NEW g \in Views, NEW n \in g.more .. Chunks, NEW m, m.finished \in BOOLEAN
  PROVE  LET h == SonioxView(g, n, m)
         IN /\ h \in Views /\ h.final = (IF SonioxFlushes(m) THEN n ELSE g.final) /\ h.more = n
            /\ h.time = (IF SonioxFlushes(m) THEN n ELSE g.time)
            /\ h.told = (g.told \/ m.finished) /\ h.over = m.finished
<1>1. g.more \in Nat /\ Chunks \in Nat /\ n \in 0 .. Chunks /\ n \in Nat
  BY ViewFields, NaturalChunks
<1> DEFINE f == IF SonioxFlushes(m) THEN n ELSE g.final
           t == IF SonioxFlushes(m) THEN n ELSE g.time
           o == g.told \/ m.finished
<1>2. f \in 0 .. Chunks /\ t \in Nat /\ o \in BOOLEAN
  BY <1>1, ViewFields
<1>3. SonioxView(g, n, m) = [g EXCEPT !.more = n, !.told = o, !.over = m.finished, !.final = f, !.time = t]
  BY DEF SonioxView, Views
<1> HIDE DEF f, t, o
<1>4. LET h == [g EXCEPT !.more = n, !.told = o, !.over = m.finished, !.final = f, !.time = t]
      IN /\ h \in Views /\ h.final = f /\ h.more = n /\ h.time = t /\ h.told = o /\ h.over = m.finished
  BY <1>1, <1>2 DEF Views
<1> QED
  BY <1>3, <1>4 DEF f, t, o

LEMMA SonioxReads ==
  ASSUME NEW g \in Views, g.final <= g.more, NEW n \in g.more .. Chunks, NEW k \in n .. Chunks, NEW m,
         SonioxTokens(g, n, k, m), NEW s, SonioxKnows(g, s)
  PROVE  \E z : /\ SonioxParse(m, s) = IF m.finished THEN Returns(SonioxYields(g, n, k, m), z)
                                       ELSE Says(SonioxYields(g, n, k, m), z)
                /\ SonioxKnows(SonioxView(g, n, m), z)
<1>1. /\ g.final \in Nat /\ g.more \in Nat /\ n \in Nat /\ k \in Nat /\ g.more <= n /\ n <= k
      /\ s.pending = g.final + 1 .. g.more /\ s.max = g.more
  BY ViewFields, NaturalChunks DEF SonioxKnows
<1> DEFINE fresh == {c \in m.fin : s.max = 0 \/ c - 1 >= s.max}
           max == IF fresh = {} THEN s.max ELSE CHOOSE c \in fresh : \A d \in fresh : d <= c
           pending == s.pending \cup fresh
           flush == m.ends \/ m.finished \/ m.non = {}
           left == IF flush THEN {} ELSE pending
           Of(tokens, final) ==
             IF tokens = {} THEN <<>>
             ELSE <<Transcript(final, tokens, (CHOOSE c \in tokens : \A d \in tokens : c <= d) - 1,
                                               CHOOSE c \in tokens : \A d \in tokens : c >= d)>>
           o == (IF flush THEN Of(pending, TRUE) ELSE <<>>)
                  \o (IF m.ends THEN <<UtteranceEnd(max)>> ELSE <<>>) \o Of(left \cup m.non, FALSE)
           z == [pending |-> left, max |-> max]
<1>2. fresh = g.more + 1 .. n
  BY <1>1 DEF SonioxTokens
<1>3. max = n
  <2>1. CASE n = g.more
    BY <1>1, <1>2, <2>1
  <2>2. CASE n # g.more
    <3>1. g.more + 1 <= n /\ n \in g.more + 1 .. n
      BY <1>1, <2>2
    <3> HIDE DEF fresh
    <3>2. max = CHOOSE c \in g.more + 1 .. n : \A d \in g.more + 1 .. n : d <= c
      BY <1>2, <3>1
    <3> HIDE DEF max
    <3> QED
      BY <3>1, <3>2, <1>1, Bounds
  <2> QED
    BY <2>1, <2>2
<1>4. pending = g.final + 1 .. n
  <2> HIDE DEF fresh
  <2> QED
    BY <1>1, <1>2
<1>5. \A i, j \in Int : \A final : Of(i .. j, final) = Stretch(final, i, j)
  <2> SUFFICES ASSUME NEW i \in Int, NEW j \in Int, NEW final
               PROVE  Of(i .. j, final) = Stretch(final, i, j)
    OBVIOUS
  <2>1. CASE i > j
    <3>1. i .. j = {}
      BY <2>1
    <3> QED
      BY <2>1, <3>1 DEF Stretch
  <2>2. CASE i <= j
    <3>1. i .. j # {} /\ ~(i > j)
      BY <2>2
    <3>2. Of(i .. j, final) =
            <<Transcript(final, i .. j, (CHOOSE c \in i .. j : \A d \in i .. j : c <= d) - 1,
                                         CHOOSE c \in i .. j : \A d \in i .. j : c >= d)>>
      BY <3>1
    <3>3. (CHOOSE c \in i .. j : \A d \in i .. j : c <= d) = i
      BY <2>2, Bounds
    <3>4. (CHOOSE c \in i .. j : \A d \in i .. j : c >= d) = j
      BY <2>2, Bounds
    <3> HIDE DEF Of
    <3> QED
      BY <3>1, <3>2, <3>3, <3>4 DEF Stretch
  <2> HIDE DEF Of
  <2> QED
    BY <2>1, <2>2
<1>6. left \cup m.non = IF flush THEN n + 1 .. k ELSE g.final + 1 .. k
  <2>1. m.non = n + 1 .. k
    BY DEF SonioxTokens
  <2>2. CASE flush
    BY <2>1, <2>2
  <2>3. CASE ~flush
    <3>1. left = g.final + 1 .. n
      BY <2>3, <1>4
    <3> HIDE DEF left
    <3>2. left \cup m.non = g.final + 1 .. k
      BY <1>1, <2>1, <3>1
    <3> QED
      BY <3>2, <2>3
  <2> HIDE DEF fresh, pending, flush
  <2> QED
    BY <2>2, <2>3
<1>7. o = SonioxYields(g, n, k, m)
  <2>1. Of(pending, TRUE) = Stretch(TRUE, g.final + 1, n)
    <3> HIDE DEF Of, pending
    <3>1. g.final + 1 \in Int /\ n \in Int
      BY <1>1
    <3> QED
      BY <3>1, <1>4, <1>5
  <2>2. Of(left \cup m.non, FALSE) = Stretch(FALSE, IF flush THEN n + 1 ELSE g.final + 1, k)
    <3> HIDE DEF Of, left
    <3>1. n + 1 \in Int /\ g.final + 1 \in Int /\ k \in Int
      BY <1>1
    <3> QED
      BY <3>1, <1>5, <1>6
  <2> HIDE DEF Of, left, pending, max, fresh
  <2> QED
    BY <1>3, <2>1, <2>2 DEF SonioxYields, SonioxFlushes
<1>8. SonioxParse(m, s) = IF m.finished THEN Returns(o, z) ELSE Says(o, z)
  <2>1. m.kind # "error"
    BY DEF SonioxTokens
  <2>2. m.finished \/ ~(m.fin \cup m.non = {} /\ ~m.ends)
    BY DEF SonioxTokens
  <2>3. SonioxParse(m, s) =
          IF m.kind = "error" THEN Raises(m.server, s)
          ELSE IF m.finished THEN Returns(o, z)
          ELSE IF m.fin \cup m.non = {} /\ ~m.ends THEN Says(<<>>, s)
          ELSE Says(o, z)
    BY DEF SonioxParse
  <2> HIDE DEF o, z
  <2> QED
    BY <2>1, <2>2, <2>3
<1>9. SonioxKnows(SonioxView(g, n, m), z)
  <2> DEFINE h == SonioxView(g, n, m)
  <2>0. h.final = (IF SonioxFlushes(m) THEN n ELSE g.final) /\ h.more = n
    BY SonioxFields DEF SonioxTokens
  <2>1. h.final = (IF flush THEN n ELSE g.final) /\ h.more = n
    <3> HIDE DEF h
    <3> QED
      BY <2>0 DEF SonioxFlushes
  <2>2. left = IF flush THEN {} ELSE g.final + 1 .. n
    <3> HIDE DEF pending
    <3> QED
      BY <1>4
  <2>3. left = h.final + 1 .. h.more
    <3> HIDE DEF left, h
    <3>1. n + 1 .. n = {}
      BY <1>1
    <3> QED
      BY <2>1, <2>2, <3>1
  <2> HIDE DEF left, max, h
  <2> QED
    BY <2>1, <2>3, <1>3 DEF SonioxKnows, h
<1> HIDE DEF o, z
<1> QED
  BY <1>7, <1>8, <1>9

LEMMA GoodSequence ==
  ASSUME NEW v, NEW o, NEW g, NEW h, Good(v, o, g, h)
  PROVE  o \in Seq(Event) /\ Len(o) \in Nat
BY DEF Good

LEMMA SonioxGood ==
  ASSUME vendor = "soniox", NEW g \in Views, g.final <= g.more, g.time <= g.final,
         NEW n \in g.more .. Chunks, NEW k \in n .. Chunks, NEW m, SonioxTokens(g, n, k, m)
  PROVE  Good(vendor, SonioxYields(g, n, k, m), g, SonioxView(g, n, m))
<1> DEFINE h == SonioxView(g, n, m)
           flush == SonioxFlushes(m)
           first == IF flush THEN Stretch(TRUE, g.final + 1, n) ELSE <<>>
           then == IF m.ends THEN <<UtteranceEnd(n)>> ELSE <<>>
           last == Stretch(FALSE, IF flush THEN n + 1 ELSE g.final + 1, k)
<1>1. /\ g.final \in Nat /\ g.more \in Nat /\ n \in Nat /\ k \in Nat /\ g.more <= n /\ n <= k
      /\ g.time \in Nat /\ k <= Chunks /\ Chunks \in Nat
  BY ViewFields, NaturalChunks
<1>2. h \in Views /\ h.final = (IF flush THEN n ELSE g.final) /\ h.time = (IF flush THEN n ELSE g.time)
      /\ g.time <= h.time
  <2>1. h \in Views /\ h.final = (IF flush THEN n ELSE g.final) /\ h.time = (IF flush THEN n ELSE g.time)
    BY SonioxFields DEF SonioxTokens
  <2> HIDE DEF h
  <2> QED
    BY <1>1, <2>1
<1>3. m.ends \in BOOLEAN /\ (m.ends => flush)
  BY DEF SonioxTokens, SonioxFlushes
<1> HIDE DEF h, flush
<1>4. Good(vendor, first, g, h) /\ Len(first) <= 1
  <2>1. CASE flush /\ g.final < n
    <3>1. first = <<Transcript(TRUE, g.final + 1 .. h.final, g.final, n)>>
      <4> DEFINE x == g.final + 1
      <4>1. first = Stretch(TRUE, x, n) /\ h.final = n
        BY <1>2, <2>1
      <4>2. ~(x > n) /\ x - 1 = g.final
        BY <1>1, <2>1
      <4> HIDE DEF first, x
      <4>3. Stretch(TRUE, x, n) = <<Transcript(TRUE, x .. n, x - 1, n)>>
        BY <4>2 DEF Stretch
      <4>4. first = <<Transcript(TRUE, x .. h.final, g.final, n)>>
        BY <4>1, <4>2, <4>3
      <4> QED
        BY <4>4 DEF x
    <3>2. g.final >= g.time /\ g.final \in Int /\ n \in Int /\ g.final < h.final
      BY <1>1, <1>2, <2>1
    <3> HIDE DEF first
    <3>3. Good(vendor, <<Transcript(TRUE, g.final + 1 .. h.final, g.final, n)>>, g, h)
      BY <3>2, <1>2, GoodWords
    <3> QED
      BY <3>1, <3>3
  <2>2. CASE ~(flush /\ g.final < n)
    <3>1. first = <<>>
      BY <1>1, <1>2, <2>2 DEF Stretch
    <3>2. g.final = h.final
      BY <1>1, <1>2, <2>2
    <3> HIDE DEF first
    <3>3. Good(vendor, <<>>, g, h)
      BY <3>2, <1>2, GoodNothing
    <3> QED
      BY <3>1, <3>3
  <2> QED
    BY <2>1, <2>2
<1>5. Good(vendor, first \o then, g, h) /\ Len(first \o then) <= 2
  <2>0. first \in Seq(Event) /\ Len(first) \in Nat
    BY <1>4, GoodSequence
  <2>1. CASE m.ends
    <3>1. UtteranceEnd(n) \in Event /\ Harmless(vendor, UtteranceEnd(n), h)
      BY <1>1, <1>2, <1>3, <2>1, EndEvent
    <3>2. then = <<UtteranceEnd(n)>>
      BY <2>1
    <3> HIDE DEF first, then
    <3> QED
      BY <3>1, <3>2, <2>0, <1>4, GoodThen
  <2>2. CASE ~m.ends
    <3>1. then = <<>>
      BY <2>2
    <3> HIDE DEF first, then
    <3>2. first \o then = first
      BY <3>1, <2>0, NothingAdded
    <3> QED
      BY <3>2, <1>4, <2>0
  <2> QED
    BY <2>1, <2>2, <1>3
<1>6. Good(vendor, first \o then \o last, g, h)
  <2> DEFINE p == first \o then
             i == IF flush THEN n + 1 ELSE g.final + 1
  <2>0. p \in Seq(Event) /\ Len(p) \in Nat /\ Len(p) < 3
    <3>1. p \in Seq(Event) /\ Len(p) \in Nat
      BY <1>5, GoodSequence
    <3>2. Len(p) <= 2
      BY <1>5
    <3> HIDE DEF p
    <3> QED
      BY <3>1, <3>2
  <2>1. CASE i <= k
    <3>1. last = <<Transcript(FALSE, i .. k, i - 1, k)>>
      <4>1. last = Stretch(FALSE, i, k) /\ i \in Int
        BY <1>1
      <4> HIDE DEF i, last
      <4>2. ~(i > k)
        BY <4>1, <1>1, <2>1
      <4> QED
        BY <4>1, <4>2 DEF Stretch
    <3>2. i .. k \in SUBSET (h.final + 1 .. Chunks) /\ i - 1 \in Int /\ k \in Int
      BY <1>1, <1>2
    <3> HIDE DEF i, p, last
    <3>3. Transcript(FALSE, i .. k, i - 1, k) \in Event /\ Harmless(vendor, Transcript(FALSE, i .. k, i - 1, k), h)
      BY <3>2, <1>2, InterimEvent
    <3>4. Good(vendor, p, g, h)
      BY <1>5 DEF p
    <3>5. Good(vendor, p \o <<Transcript(FALSE, i .. k, i - 1, k)>>, g, h)
      BY <3>3, <3>4, <2>0, GoodThen
    <3> QED
      BY <3>1, <3>5 DEF p
  <2>2. CASE i > k
    <3>1. last = <<>>
      BY <2>2 DEF Stretch
    <3> HIDE DEF last, p
    <3>2. p \o last = p
      BY <3>1, <2>0, NothingAdded
    <3> QED
      BY <3>2, <1>5 DEF p
  <2>3. i \in Int
    BY <1>1
  <2> HIDE DEF i, first, then, last
  <2> QED
    BY <2>1, <2>2, <2>3, <1>1
<1> QED
  BY <1>6 DEF SonioxYields, h, flush

LEMMA SonioxTells ==
  ASSUME vendor = "soniox", NEW g \in Views, ~g.over, g.final <= g.more, g.time <= g.final,
         NEW n \in g.more .. Chunks, NEW k \in n .. Chunks, NEW m, SonioxTokens(g, n, k, m)
  PROVE  Tells(vendor, m, g, SonioxView(g, n, m))
<1> DEFINE h == SonioxView(g, n, m)
<1>1. Good(vendor, SonioxYields(g, n, k, m), g, h)
  BY SonioxGood
<1>2. h.over = m.finished /\ (m.finished => h.told)
  BY SonioxFields DEF SonioxTokens
<1>3. \A s, c : Heeds(vendor, m, s, c) = SonioxParse(m, s)
  <2>1. vendor \in Dialects
    BY DEF Dialects
  <2> QED
    BY <2>1, Hears
<1>4. \A s : Knows(vendor, g, s) => SonioxKnows(g, s)
  BY DEF Knows
<1>5. \A z : SonioxKnows(h, z) => Knows(vendor, h, z)
  BY DEF Knows, Meta
<1> DEFINE o == SonioxYields(g, n, k, m)
<1>6. \A s : Knows(vendor, g, s) =>
        \E z : /\ SonioxParse(m, s) = IF m.finished THEN Returns(o, z) ELSE Says(o, z)
               /\ SonioxKnows(h, z)
  BY <1>4, SonioxReads
<1> HIDE DEF h, o
<1>7. CASE m.finished
  <2>1. \A s : Knows(vendor, g, s) => \A c \in Nat : \E p, z :
           /\ Heeds(vendor, m, s, c) = Returns(p, z) /\ Good(vendor, p, g, h)
           /\ vendor = "speechmatics" => z \in Nat /\ z >= s
    BY <1>1, <1>3, <1>6, <1>7 DEF o
  <2> QED
    BY <2>1, <1>2, <1>7, ReturnsTells DEF h
<1>8. CASE ~m.finished
  <2>1. \A s : Knows(vendor, g, s) => \A c \in Nat : \E p, z :
           /\ Heeds(vendor, m, s, c) = Says(p, z) /\ Good(vendor, p, g, h) /\ Knows(vendor, h, z)
           /\ vendor = "speechmatics" => z \in Nat /\ z >= s
    BY <1>1, <1>3, <1>5, <1>6, <1>8 DEF o
  <2> QED
    BY <2>1, <1>2, <1>8, SaysTells DEF h
<1> QED
  BY <1>7, <1>8

(* xAI: an event is about chunks g.final + 1 .. b, whichever of them it    *)
(* repeats.                                                                *)
XaiAbout(g, m, b) ==
  \E from \in {g.final + 1, g.more + 1} :
    m.text = from .. b /\ m.start = from - 1 /\ m.end = b

LEMMA XaiWhole ==
  ASSUME NEW g \in Views, g.final <= g.more, NEW b \in g.more .. Chunks, g.final < b,
         NEW s, XaiKnows(g, s), NEW m, XaiAbout(g, m, b)
  PROVE  LET start == IF s.start = NoTime THEN m.start ELSE s.start
             cumulative == s.locked = {} \/ m.start <= start
             merged == IF cumulative THEN m.text ELSE s.locked \cup m.text
             text == IF merged = {} THEN s.locked ELSE merged
             end == IF m.end > s.locked_end THEN m.end ELSE s.locked_end
         IN start = g.final /\ text = g.final + 1 .. b /\ end = b
<1> DEFINE start == IF s.start = NoTime THEN m.start ELSE s.start
           cumulative == s.locked = {} \/ m.start <= start
           merged == IF cumulative THEN m.text ELSE s.locked \cup m.text
           text == IF merged = {} THEN s.locked ELSE merged
           end == IF m.end > s.locked_end THEN m.end ELSE s.locked_end
<1>1. /\ g.final \in Nat /\ g.more \in Nat /\ b \in Nat /\ g.more <= b /\ Chunks \in Nat
  BY ViewFields, NaturalChunks
<1>2. PICK from \in {g.final + 1, g.more + 1} : m.text = from .. b /\ m.start = from - 1 /\ m.end = b
  BY DEF XaiAbout
<1>3. /\ s.locked = g.final + 1 .. g.more
      /\ s.locked_end = IF g.more = g.final THEN 0 ELSE g.more
      /\ s.start \in {NoTime, g.final} /\ (g.more > g.final => s.start = g.final)
  BY DEF XaiKnows
<1>4. NoTime \notin Nat
  BY DEF NoTime
<1>5. start = g.final
  <2>1. CASE s.start = NoTime
    <3>1. ~(g.more > g.final)
      BY <2>1, <1>1, <1>3, <1>4
    <3>2. from = g.final + 1
      BY <3>1, <1>1
    <3> QED
      BY <2>1, <3>2, <1>1, <1>2
  <2>2. CASE s.start # NoTime
    BY <2>2, <1>3
  <2> QED
    BY <2>1, <2>2
<1>6. end = b
  <2>1. m.end = b /\ s.locked_end <= b /\ s.locked_end \in Nat
    BY <1>1, <1>2, <1>3
  <2> QED
    BY <2>1, <1>1
<1>7. text = g.final + 1 .. b
  <2>1. g.final + 1 .. b # {}
    BY <1>1
  <2>2. CASE from = g.final + 1
    <3>1. m.start <= start /\ m.text = g.final + 1 .. b
      BY <2>2, <1>1, <1>2, <1>5
    <3> HIDE DEF start
    <3>2. merged = g.final + 1 .. b
      BY <3>1
    <3> HIDE DEF merged
    <3> QED
      BY <2>1, <3>2
  <2>3. CASE from # g.final + 1
    <3>1. g.final < g.more /\ from = g.more + 1
      BY <2>3, <1>1
    <3>2. m.start = g.more /\ ~(m.start <= start) /\ m.text = g.more + 1 .. b
      BY <3>1, <1>1, <1>2, <1>5
    <3>3. s.locked # {}
      BY <3>1, <1>1, <1>3
    <3> HIDE DEF start
    <3>4. ~cumulative
      BY <3>2, <3>3
    <3> HIDE DEF cumulative
    <3>5. merged = s.locked \cup m.text
      BY <3>4
    <3> HIDE DEF merged
    <3>6. merged = g.final + 1 .. b
      BY <3>1, <3>2, <3>5, <1>1, <1>3
    <3> QED
      BY <2>1, <3>6
  <2> QED
    BY <2>2, <2>3
<1> QED
  BY <1>5, <1>6, <1>7

XaiCloses(g, b) == <<Transcript(TRUE, g.final + 1 .. b, g.final, b)>> \o <<UtteranceEnd(b)>>
XaiClosed(s, n) == [XaiUnlocked(s) EXCEPT !.final = n]
XaiEnded(s, n) == [XaiUnlocked(s) EXCEPT !.done = TRUE, !.final = n]

LEMMA XaiParsesPartial ==
  ASSUME NEW g \in Views, g.final <= g.more, NEW b \in g.more .. Chunks, g.final < b,
         NEW s, XaiKnows(g, s), NEW m, XaiAbout(g, m, b), m.kind = "transcript.partial"
  PROVE  /\ m.final = TRUE =>
              XaiParse(m, s) = Says(XaiCloses(g, b), XaiClosed(s, b))
         /\ m.final = FALSE =>
              XaiParse(m, s) =
                Says(<<Transcript(FALSE, g.final + 1 .. b, g.final, b)>>,
                     IF m.locks
                     THEN [s EXCEPT !.start = g.final, !.locked = g.final + 1 .. b, !.locked_end = b]
                     ELSE [s EXCEPT !.start = g.final])
<1> DEFINE start == IF s.start = NoTime THEN m.start ELSE s.start
           cumulative == s.locked = {} \/ m.start <= start
           merged == IF cumulative THEN m.text ELSE s.locked \cup m.text
           text == IF merged = {} THEN s.locked ELSE merged
           end == IF m.end > s.locked_end THEN m.end ELSE s.locked_end
           whole == [text |-> text, start |-> start, end |-> end]
<1>1. start = g.final /\ text = g.final + 1 .. b /\ end = b
  BY XaiWhole
<1>2. g.final + 1 .. b # {}
  BY ViewFields, NaturalChunks
<1>3. \A f : Said(f, whole) = <<Transcript(f, g.final + 1 .. b, g.final, b)>>
  <2> HIDE DEF start, text, end
  <2> QED
    BY <1>1, <1>2 DEF Said
<1>4. m.final = TRUE =>
        XaiParse(m, s) =
          Says(Said(TRUE, whole) \o <<UtteranceEnd(end)>>,
               [XaiUnlocked(s) EXCEPT !.final = IF text = {} THEN @ ELSE end])
  BY DEF XaiParse
<1>5. m.final = FALSE =>
        XaiParse(m, s) =
          Says(Said(FALSE, whole),
               IF m.locks THEN [s EXCEPT !.start = start, !.locked = text, !.locked_end = end]
               ELSE [s EXCEPT !.start = start])
  BY DEF XaiParse
<1> HIDE DEF start, text, end, whole
<1>6. [XaiUnlocked(s) EXCEPT !.final = IF text = {} THEN @ ELSE end] = [XaiUnlocked(s) EXCEPT !.final = b]
  BY <1>1, <1>2
<1>7. m.final = TRUE => XaiParse(m, s) = Says(XaiCloses(g, b), XaiClosed(s, b))
  BY <1>1, <1>3, <1>4, <1>6 DEF XaiCloses, XaiClosed
<1> QED
  BY <1>1, <1>3, <1>5, <1>7

LEMMA XaiClosedFields ==
  ASSUME NEW s \in XaiState, NEW n \in Int
  PROVE  LET z == XaiClosed(s, n)
         IN /\ z \in XaiState /\ z.final = n /\ z.locked = {} /\ z.locked_end = 0 /\ z.start = NoTime
            /\ z.done = s.done
<1>1. NoTime \in Int /\ {} \in SUBSET (1 .. Chunks) /\ 0 \in Int
  BY DEF NoTime
<1> DEFINE y == XaiUnlocked(s)
<1>2. /\ y \in XaiState /\ y.locked = {} /\ y.locked_end = 0 /\ y.start = NoTime /\ y.done = s.done
  BY <1>1 DEF XaiUnlocked, XaiState
<1> HIDE DEF y
<1>3. LET z == [y EXCEPT !.final = n]
      IN /\ z \in XaiState /\ z.final = n /\ z.locked = {} /\ z.locked_end = 0 /\ z.start = NoTime
         /\ z.done = s.done
  BY <1>2 DEF XaiState
<1> QED
  BY <1>3 DEF y, XaiClosed

LEMMA XaiEndedFields ==
  ASSUME NEW s \in XaiState, NEW n \in Int
  PROVE  LET z == XaiEnded(s, n)
         IN /\ z \in XaiState /\ z.final = n /\ z.locked = {} /\ z.locked_end = 0 /\ z.start = NoTime
<1>1. NoTime \in Int /\ {} \in SUBSET (1 .. Chunks) /\ 0 \in Int
  BY DEF NoTime
<1> DEFINE y == XaiUnlocked(s)
<1>2. /\ y \in XaiState /\ y.locked = {} /\ y.locked_end = 0 /\ y.start = NoTime
  BY <1>1 DEF XaiUnlocked, XaiState
<1> HIDE DEF y
<1>3. LET z == [y EXCEPT !.done = TRUE, !.final = n]
      IN /\ z \in XaiState /\ z.final = n /\ z.locked = {} /\ z.locked_end = 0 /\ z.start = NoTime
  BY <1>2 DEF XaiState
<1> QED
  BY <1>3 DEF y, XaiEnded

LEMMA XaiFinalTells ==
  ASSUME vendor = "xai", NEW g, Speaking(g), NEW b \in g.final + 1 .. Heard, b >= g.more,
         NEW m, XaiAbout(g, m, b), m.kind = "transcript.partial", m.final = TRUE
  PROVE  Tells(vendor, m, g, After(g, b))
<1> DEFINE h == After(g, b)
<1>1. /\ g \in Views /\ h \in Views /\ ~g.over /\ ~h.over /\ h.final = b /\ h.more = b /\ h.told = g.told
      /\ h.time = at[b] /\ g.time <= h.time /\ g.final < h.final /\ at[g.final + 1] - 1 >= g.time
      /\ g.final + 1 \in 1 .. Heard /\ b \in 1 .. Heard /\ vendor \in Pointing
  <2>1. vendor \in Pointing
    BY DEF Pointing
  <2> QED
    BY <2>1, AfterFields
<1>2. /\ g.final <= g.more /\ Told
  BY DEF Speaking, Along
<1>3. /\ g.final \in Nat /\ g.more \in Nat /\ Heard \in Nat /\ Heard <= Chunks /\ Chunks \in Nat
      /\ b \in Nat /\ at[b] = b /\ at[g.final + 1] = g.final + 1 /\ vendor \in Dialects
  BY <1>1, <1>2, Hearing, ViewFields, NaturalChunks
<1>4. b \in g.more .. Chunks /\ g.final < b
  BY <1>1, <1>3
<1> HIDE DEF h
<1>5. Good(vendor, XaiCloses(g, b), g, h)
  <2>1. g.final \in Int /\ b \in Int /\ g.final >= g.time /\ b <= h.time
    BY <1>1, <1>3
  <2>2. Good(vendor, <<Transcript(TRUE, g.final + 1 .. h.final, g.final, b)>> \o <<UtteranceEnd(b)>>, g, h)
    BY <1>1, <2>1, GoodWordsEnd
  <2> QED
    BY <2>2, <1>1 DEF XaiCloses
<1> SUFFICES ASSUME NEW s, Knows(vendor, g, s), NEW c \in Nat
             PROVE  \E o, z : /\ Heeds(vendor, m, s, c) = Says(o, z) /\ Good(vendor, o, g, h)
                              /\ Knows(vendor, h, z)
                              /\ vendor = "speechmatics" => z \in Nat /\ z >= s
  BY <1>1, SaysTells DEF h
<1>6. XaiKnows(g, s)
  BY DEF Knows
<1> DEFINE z == XaiClosed(s, b)
<1>7. Heeds(vendor, m, s, c) = Says(XaiCloses(g, b), z)
  <2>1. Heeds(vendor, m, s, c) = XaiParse(m, s)
    BY <1>3, Hears
  <2>2. g \in Views /\ g.final <= g.more /\ b \in g.more .. Chunks /\ g.final < b
    BY <1>1, <1>2, <1>4
  <2>3. XaiParse(m, s) = Says(XaiCloses(g, b), XaiClosed(s, b))
    BY <2>2, <1>6, XaiParsesPartial, ZenonT(30)
  <2> QED
    BY <2>1, <2>3
<1>8. /\ z \in XaiState /\ z.final = b /\ z.locked = {} /\ z.locked_end = 0 /\ z.start = NoTime
      /\ z.done = s.done
  <2>1. s \in XaiState /\ b \in Int
    BY <1>3, <1>6 DEF XaiKnows
  <2> QED
    BY <2>1, XaiClosedFields
<1> HIDE DEF z
<1>9. Knows(vendor, h, z)
  <2>1. h.final + 1 .. h.more = {} /\ ~(h.more > h.final) /\ h.more = h.final
    BY <1>1, <1>3
  <2>2. s.done => h.told
    BY <1>1, <1>6 DEF XaiKnows
  <2>3. XaiKnows(h, z)
    BY <1>1, <1>8, <2>1, <2>2 DEF XaiKnows
  <2> QED
    BY <2>3 DEF Knows, Meta
<1> QED
  BY <1>5, <1>7, <1>9

(* an interim, which may lock what it says                                 *)
LEMMA XaiInterimTells ==
  ASSUME vendor = "xai", NEW g \in Views, ~g.over, g.final <= g.more, NEW b \in g.more .. Chunks,
         g.final < b, NEW m, XaiAbout(g, m, b), m.kind = "transcript.partial", m.final = FALSE,
         m.locks \in BOOLEAN
  PROVE  Tells(vendor, m, g, IF m.locks THEN WithMore(g, b) ELSE g)
<1> DEFINE h == IF m.locks THEN WithMore(g, b) ELSE g
<1>1. g.final \in Nat /\ g.more \in Nat /\ Chunks \in Nat /\ b \in Nat /\ b \in 0 .. Chunks /\ b <= Chunks
      /\ vendor \in Dialects
  BY ViewFields, NaturalChunks DEF Dialects
<1>2. /\ h.final = g.final /\ h.more = (IF m.locks THEN b ELSE g.more) /\ h.time = g.time
      /\ h.told = g.told /\ h.over = g.over
  BY <1>1, MoreFields
<1> HIDE DEF h
<1>3. Good(vendor, <<Transcript(FALSE, g.final + 1 .. b, g.final, b)>>, g, h)
  <2>1. g.final + 1 .. b \in SUBSET (g.final + 1 .. Chunks) /\ g.final \in Int /\ b \in Int
    BY <1>1
  <2>2. Good(vendor, <<Transcript(FALSE, g.final + 1 .. b, g.final, b)>>, g, g)
    BY <2>1, GoodInterim
  <2> QED
    BY <2>2, <1>2, GoodAlike
<1> SUFFICES ASSUME NEW s, Knows(vendor, g, s), NEW c \in Nat
             PROVE  \E o, z : /\ Heeds(vendor, m, s, c) = Says(o, z) /\ Good(vendor, o, g, h)
                              /\ Knows(vendor, h, z)
                              /\ vendor = "speechmatics" => z \in Nat /\ z >= s
  BY <1>2, SaysTells DEF h
<1>4. XaiKnows(g, s)
  BY DEF Knows
<1> DEFINE z == IF m.locks
                THEN [s EXCEPT !.start = g.final, !.locked = g.final + 1 .. b, !.locked_end = b]
                ELSE [s EXCEPT !.start = g.final]
<1>5. Heeds(vendor, m, s, c) = Says(<<Transcript(FALSE, g.final + 1 .. b, g.final, b)>>, z)
  <2>1. Heeds(vendor, m, s, c) = XaiParse(m, s)
    BY <1>1, Hears
  <2> QED
    BY <2>1, <1>4, XaiParsesPartial
<1>6. /\ z \in XaiState /\ z.final = s.final /\ z.start = g.final /\ z.done = s.done
      /\ z.locked = (IF m.locks THEN g.final + 1 .. b ELSE s.locked)
      /\ z.locked_end = IF m.locks THEN b ELSE s.locked_end
  <2>0. s \in XaiState /\ g.final \in Int /\ b \in Int /\ g.final + 1 .. b \in SUBSET (1 .. Chunks)
    BY <1>1, <1>4 DEF XaiKnows
  <2>1. CASE m.locks
    <3>1. LET y == [s EXCEPT !.start = g.final, !.locked = g.final + 1 .. b, !.locked_end = b]
          IN y \in XaiState /\ y.final = s.final /\ y.start = g.final /\ y.done = s.done
             /\ y.locked = g.final + 1 .. b /\ y.locked_end = b
      BY <2>0 DEF XaiState
    <3> QED
      BY <2>1, <3>1
  <2>2. CASE ~m.locks
    <3>1. LET y == [s EXCEPT !.start = g.final]
          IN y \in XaiState /\ y.final = s.final /\ y.start = g.final /\ y.done = s.done
             /\ y.locked = s.locked /\ y.locked_end = s.locked_end
      BY <2>0 DEF XaiState
    <3> QED
      BY <2>2, <3>1
  <2> QED
    BY <2>1, <2>2
<1> HIDE DEF z
<1>7. Knows(vendor, h, z)
  <2>1. z.locked = h.final + 1 .. h.more /\ z.locked_end = IF h.more = h.final THEN 0 ELSE h.more
    BY <1>1, <1>2, <1>4, <1>6 DEF XaiKnows
  <2>2. z.final = h.final /\ z.start = h.final /\ (z.done => h.told)
    BY <1>2, <1>4, <1>6 DEF XaiKnows
  <2>3. XaiKnows(h, z)
    BY <1>6, <2>1, <2>2 DEF XaiKnows
  <2> QED
    BY <2>3 DEF Knows, Meta
<1> QED
  BY <1>3, <1>5, <1>7

(* the closing transcript: of all of it, or of what is not final or locked *)
XaiClosing(g) ==
  [g EXCEPT !.final = Heard, !.more = Heard, !.told = TRUE, !.time = Heard]

LEMMA XaiDoneTells ==
  ASSUME vendor = "xai", NEW g, Speaking(g), NEW from \in {1, g.final + 1, g.more + 1},
         NEW m, m.kind = "transcript.done", m.fin = from .. Heard, m.text = from .. Heard
  PROVE  /\ Tells(vendor, m, g, XaiClosing(g)) /\ XaiClosing(g) \in Views
         /\ XaiClosing(g).final = Heard /\ XaiClosing(g).more = Heard /\ XaiClosing(g).told
         /\ ~XaiClosing(g).over
<1> DEFINE h == XaiClosing(g)
<1>1. g \in Views /\ ~g.over /\ g.final <= g.more /\ g.more <= Heard /\ Told /\ g.time <= TimeOf(g.final)
  BY DEF Speaking, Along, AtWork, Pointing
<1>2. /\ g.final \in Nat /\ g.more \in Nat /\ Heard \in Nat /\ Heard <= Chunks /\ Chunks \in Nat
      /\ g.time \in Nat /\ vendor \in Dialects
  BY <1>1, Hearing, ViewFields, NaturalChunks
<1>3. TimeOf(g.final) = g.final
  <2>1. CASE g.final = 0
    BY <2>1 DEF TimeOf
  <2>2. CASE g.final # 0
    <3>1. g.final \in 1 .. Heard
      BY <2>2, <1>1, <1>2
    <3> QED
      BY <2>2, <3>1, <1>1, Hearing DEF TimeOf
  <2> QED
    BY <2>1, <2>2
<1>4. /\ h \in Views /\ h.final = Heard /\ h.more = Heard /\ h.told /\ ~h.over /\ h.time = Heard
  <2>1. Heard \in 0 .. Chunks
    BY <1>2
  <2> QED
    BY <2>1, <1>1, <1>2 DEF XaiClosing, Views
<1> HIDE DEF h
<1> DEFINE rest == g.final + 1 .. Heard
           o == IF rest = {} THEN <<>> ELSE <<Transcript(TRUE, rest, g.final, Heard)>>
<1>5. Good(vendor, o, g, h)
  <2>1. CASE g.final = Heard
    <3>1. rest = {}
      BY <2>1, <1>2
    <3>2. Good(vendor, <<>>, g, h)
      BY <2>1, <1>1, <1>2, <1>3, <1>4, GoodNothing
    <3> QED
      BY <3>1, <3>2
  <2>2. CASE g.final # Heard
    <3>0. g.final < Heard
      BY <2>2, <1>1, <1>2
    <3>1. rest # {}
      <4>1. Heard \in g.final + 1 .. Heard
        BY <3>0, <1>2
      <4> QED
        BY <4>1
    <3>2. g.final >= g.time /\ g.final \in Int /\ Heard \in Int
      BY <1>1, <1>2, <1>3
    <3>3. g.time <= h.time /\ g.final < h.final
      BY <3>0, <3>2, <1>2, <1>4
    <3>4. Good(vendor, <<Transcript(TRUE, g.final + 1 .. h.final, g.final, Heard)>>, g, h)
      BY <3>2, <3>3, <1>1, <1>4, GoodWords
    <3> QED
      BY <3>1, <3>4, <1>4
  <2> QED
    BY <2>1, <2>2
<1>6. Tells(vendor, m, g, h)
  <2> SUFFICES ASSUME NEW s, Knows(vendor, g, s), NEW c \in Nat
               PROVE  \E p, z : /\ Heeds(vendor, m, s, c) = Says(p, z) /\ Good(vendor, p, g, h)
                                /\ Knows(vendor, h, z)
                                /\ vendor = "speechmatics" => z \in Nat /\ z >= s
    BY <1>1, <1>4, SaysTells
  <2>1. XaiKnows(g, s)
    BY DEF Knows
  <2>2. /\ s \in XaiState /\ s.final = g.final /\ s.locked = g.final + 1 .. g.more
        /\ s.locked_end = (IF g.more = g.final THEN 0 ELSE g.more)
        /\ s.start \in {NoTime, g.final}
    BY <2>1 DEF XaiKnows
  <2> DEFINE tail == {d \in m.fin : d - 1 >= s.final /\ d - 1 >= s.locked_end}
             remains == IF tail = {} /\ s.locked = {} /\ s.final = 0 THEN m.text ELSE s.locked \cup tail
             until == CHOOSE d \in remains : \A e \in remains : e <= d
             since == IF s.start # NoTime THEN s.start
                      ELSE (CHOOSE d \in remains : \A e \in remains : d <= e) - 1
             z == [XaiUnlocked(s) EXCEPT !.done = TRUE, !.final = IF remains = {} THEN @ ELSE until]
  <2>3. tail = g.more + 1 .. Heard
    BY <2>2, <1>1, <1>2
  <2>4. remains = rest
    <3> HIDE DEF tail
    <3>1. s.locked \cup tail = rest
      BY <2>2, <2>3, <1>1, <1>2
    <3>2. tail = {} /\ s.locked = {} /\ s.final = 0 => m.text = rest
      <4> SUFFICES ASSUME tail = {}, s.locked = {}, s.final = 0 PROVE m.text = rest
        OBVIOUS
      <4>1. rest = {}
        BY <3>1
      <4>2. g.final = 0 /\ g.final + 1 .. g.more = {} /\ g.more + 1 .. Heard = {}
        BY <2>2, <2>3
      <4>3. g.more = 0
        BY <4>2, <1>1, <1>2
      <4>4. Heard = 0
        BY <4>2, <4>3, <1>1, <1>2
      <4> QED
        BY <4>1, <4>2, <4>3, <4>4
    <3> QED
      BY <3>1, <3>2
  <2> HIDE DEF tail, remains
  <2>5. rest # {} => until = Heard /\ since = g.final
    <3> SUFFICES ASSUME rest # {} PROVE until = Heard /\ since = g.final
      OBVIOUS
    <3>1. g.final + 1 <= Heard /\ g.final + 1 \in Int /\ Heard \in Int
      BY <1>2
    <3>2. (CHOOSE d \in g.final + 1 .. Heard : \A e \in g.final + 1 .. Heard : e <= d) = Heard
      BY <3>1, Bounds
    <3>3. (CHOOSE d \in g.final + 1 .. Heard : \A e \in g.final + 1 .. Heard : d <= e) = g.final + 1
      BY <3>1, Bounds
    <3>4. until = Heard
      BY <2>4, <3>2
    <3> DEFINE low == CHOOSE d \in remains : \A e \in remains : d <= e
    <3>5. low = g.final + 1
      BY <2>4, <3>3
    <3>6. since = IF s.start # NoTime THEN s.start ELSE low - 1
      OBVIOUS
    <3> HIDE DEF since, low
    <3>7. since = g.final
      BY <3>5, <3>6, <2>2, <1>2
    <3> QED
      BY <3>4, <3>7
  <2>6. XaiParse(m, s) = Says(IF remains = {} THEN <<>> ELSE <<Transcript(TRUE, remains, since, until)>>, z)
    BY DEF XaiParse, remains, tail
  <2> HIDE DEF until, since
  <2>7. Heeds(vendor, m, s, c) = Says(o, z)
    <3>1. Heeds(vendor, m, s, c) = XaiParse(m, s)
      BY <1>2, Hears
    <3>2. (IF remains = {} THEN <<>> ELSE <<Transcript(TRUE, remains, since, until)>>) = o
      BY <2>4, <2>5
    <3> HIDE DEF z, o
    <3> QED
      BY <3>1, <3>2, <2>6
  <2>8. /\ z \in XaiState /\ z.final = Heard /\ z.locked = {} /\ z.locked_end = 0 /\ z.start = NoTime
    <3>1. (IF remains = {} THEN s.final ELSE until) = Heard
      <4>1. rest = {} => g.final = Heard
        BY <1>1, <1>2
      <4> QED
        BY <2>2, <2>4, <2>5, <4>1
    <3>2. z = XaiEnded(s, Heard)
      <4>1. XaiUnlocked(s).final = s.final
        BY <2>2 DEF XaiUnlocked, XaiState
      <4> QED
        BY <3>1, <4>1 DEF XaiEnded
    <3>3. s \in XaiState /\ Heard \in Int
      BY <2>2, <1>2
    <3> HIDE DEF z
    <3>4. QED
      <4> DEFINE y == XaiEnded(s, Heard)
      <4>1. /\ y \in XaiState /\ y.final = Heard /\ y.locked = {} /\ y.locked_end = 0 /\ y.start = NoTime
        BY <3>3, XaiEndedFields
      <4> HIDE DEF y
      <4> QED
        BY <3>2, <4>1 DEF y
  <2> HIDE DEF z
  <2>9. Knows(vendor, h, z)
    <3>1. h.final + 1 .. h.more = {} /\ ~(h.more > h.final) /\ h.more = h.final
      BY <1>2, <1>4
    <3>2. XaiKnows(h, z)
      BY <1>4, <2>8, <3>1 DEF XaiKnows
    <3> QED
      BY <3>2 DEF Knows, Meta
  <2> QED
    BY <2>7, <2>9, <1>5
<1> QED
  BY <1>4, <1>6 DEF h

(* Meta: the start and the end of a turn, and its words.                   *)
LEMMA MetaHears ==
  ASSUME vendor \in Meta, NEW m, NEW s, NEW c
  PROVE  Heeds(vendor, m, s, c) = MetaParse(m, s, vendor = "meta_ptt")
<1>1. vendor \in Dialects
  BY DEF Meta, Dialects
<1> QED
  BY <1>1, Hears

LEMMA MetaKnown ==
  ASSUME vendor \in Meta, NEW g, NEW s
  PROVE  Knows(vendor, g, s) <=> MetaKnows(vendor, g, s)
BY DEF Knows, Meta

LEMMA MetaStarts ==
  ASSUME vendor \in Meta, NEW g \in Views, ~g.over, NEW m, m.kind = "speechStart",
         m.item \in 0 .. Chunks, m.at \in Int
  PROVE  Tells(vendor, m, g, g)
<1>1. Good(vendor, <<>>, g, g)
  BY GoodNothing, ViewFields
<1> SUFFICES ASSUME NEW s, Knows(vendor, g, s), NEW c \in Nat
             PROVE  \E o, z : /\ Heeds(vendor, m, s, c) = Says(o, z) /\ Good(vendor, o, g, g)
                              /\ Knows(vendor, g, z)
                              /\ vendor = "speechmatics" => z \in Nat /\ z >= s
  BY SaysTells
<1>2. MetaKnows(vendor, g, s) /\ vendor # "speechmatics"
  BY MetaKnown DEF Meta
<1> DEFINE z == [s EXCEPT !.turn = m.item, !.starts[m.item] = m.at]
<1>3. Heeds(vendor, m, s, c) = Says(<<>>, z)
  <2>1. \A p : MetaParse(m, s, p) = Says(<<>>, z)
    BY DEF MetaParse
  <2> HIDE DEF z
  <2> QED
    BY <2>1, MetaHears
<1>4. z \in MetaState /\ z.seen = s.seen /\ z.error = s.error
  BY <1>2 DEF MetaKnows, MetaState
<1> HIDE DEF z
<1>5. Knows(vendor, g, z)
  BY <1>2, <1>4, MetaKnown DEF MetaKnows
<1> QED
  BY <1>1, <1>2, <1>3, <1>5

LEMMA MetaEnds ==
  ASSUME vendor \in Meta, NEW g \in Views, ~g.over, NEW m, m.kind = "speechEnd",
         m.item \in 0 .. Chunks, m.at \in Int
  PROVE  Tells(vendor, m, g, g)
<1>1. Good(vendor, <<UtteranceEnd(m.at)>>, g, g)
  <2>1. vendor \notin Pointing /\ g.time <= g.time
    BY ViewFields DEF Pointing, Meta
  <2> QED
    BY <2>1, GoodEnd
<1> SUFFICES ASSUME NEW s, Knows(vendor, g, s), NEW c \in Nat
             PROVE  \E o, z : /\ Heeds(vendor, m, s, c) = Says(o, z) /\ Good(vendor, o, g, g)
                              /\ Knows(vendor, g, z)
                              /\ vendor = "speechmatics" => z \in Nat /\ z >= s
  BY SaysTells
<1>2. MetaKnows(vendor, g, s) /\ vendor # "speechmatics"
  BY MetaKnown DEF Meta
<1> DEFINE z == [s EXCEPT !.ends[m.item] = m.at]
           e == <<UtteranceEnd(m.at)>>
<1>3. Heeds(vendor, m, s, c) = Says(e, z)
  <2>1. \A p : MetaParse(m, s, p) = Says(e, z)
    BY DEF MetaParse
  <2> HIDE DEF e, z
  <2> QED
    BY <2>1, MetaHears
<1>4. z \in MetaState /\ z.seen = s.seen /\ z.error = s.error
  BY <1>2 DEF MetaKnows, MetaState
<1> HIDE DEF z
<1>5. Knows(vendor, g, z)
  BY <1>2, <1>4, MetaKnown DEF MetaKnows
<1> QED
  BY <1>1, <1>2, <1>3, <1>5

(* its text, which push-to-talk has said already when a final was seen     *)
MetaCloses(s, i) == [s EXCEPT !.starts[i] = NoTime, !.ends[i] = NoTime]
MetaWords(m, s) ==
  [m EXCEPT !.start = s.starts[m.item],
            !.end = IF s.ends[m.item] = NoTime THEN m.end ELSE s.ends[m.item]]

LEMMA MetaClosed ==
  ASSUME NEW s \in MetaState, NEW i \in 0 .. Chunks
  PROVE  MetaCloses(s, i) \in MetaState /\ MetaCloses(s, i).seen = s.seen /\ MetaCloses(s, i).error = s.error
<1>1. NoTime \in Int
  BY DEF NoTime
<1> QED
  BY <1>1 DEF MetaCloses, MetaState

LEMMA MetaCompletes ==
  ASSUME vendor \in Meta, NEW g, Speaking(g), NEW b \in g.final + 1 .. Heard,
         NEW i \in Views, i.final = g.final, i.time = g.time, i.seen = g.seen, i.erred = g.erred, ~i.over,
         vendor = "meta_ptt" => ~g.seen,
         NEW m \in Message, m.kind = "speechComplete", m.item \in 0 .. Chunks, m.text = g.final + 1 .. b
  PROVE  Tells(vendor, m, i, After(g, b))
<1> DEFINE h == After(g, b)
<1>1. /\ ~h.over /\ h.final = b /\ h.seen = g.seen /\ h.erred = g.erred /\ g \in Views /\ h \in Views
      /\ g.final < h.final /\ g.time <= h.time
  BY AfterFields
<1>2. m.text # {} /\ m.start \in Int /\ m.end \in Int
  BY FinalIsGood DEF Message
<1> HIDE DEF h
<1>3. \A x, y \in Int : Good(vendor, <<Transcript(TRUE, g.final + 1 .. b, x, y)>>, i, h)
  <2> SUFFICES ASSUME NEW x \in Int, NEW y \in Int
               PROVE  Good(vendor, <<Transcript(TRUE, g.final + 1 .. b, x, y)>>, i, h)
    OBVIOUS
  <2>1. vendor \notin Pointing
    BY DEF Pointing, Meta
  <2>2. Good(vendor, <<Transcript(TRUE, i.final + 1 .. h.final, x, y)>>, i, h)
    BY <2>1, <1>1, GoodWords
  <2> QED
    BY <2>2, <1>1
<1> SUFFICES ASSUME NEW s, Knows(vendor, i, s), NEW c \in Nat
             PROVE  \E o, z : /\ Heeds(vendor, m, s, c) = Says(o, z) /\ Good(vendor, o, i, h)
                              /\ Knows(vendor, h, z)
                              /\ vendor = "speechmatics" => z \in Nat /\ z >= s
  BY <1>1, SaysTells DEF h
<1>4. MetaKnows(vendor, i, s) /\ vendor # "speechmatics" /\ s \in MetaState
  BY MetaKnown DEF Meta, MetaKnows
<1> DEFINE w == MetaWords(m, s)
           z == MetaCloses(s, m.item)
<1>5. Heeds(vendor, m, s, c) = Says(Said(TRUE, w), z)
  <2>1. vendor = "meta_ptt" => ~s.seen
    BY <1>4 DEF MetaKnows
  <2>2. \A p : ~(p /\ s.seen) => MetaParse(m, s, p) = Says(Said(TRUE, w), z)
    BY DEF MetaParse, MetaWords, MetaCloses
  <2> HIDE DEF w, z
  <2>3. MetaParse(m, s, vendor = "meta_ptt") = Says(Said(TRUE, w), z)
    BY <2>1, <2>2
  <2> QED
    BY <2>3, MetaHears
<1>6. z \in MetaState /\ z.seen = s.seen /\ z.error = s.error
  BY <1>4, MetaClosed
<1>7. w.text = m.text /\ w.start \in Int /\ w.end \in Int
  <2>1. s.starts[m.item] \in Int /\ s.ends[m.item] \in Int
    BY <1>4 DEF MetaState
  <2>2. \A x, y \in Int : LET v == [m EXCEPT !.start = x, !.end = y]
                          IN v.text = m.text /\ v.start = x /\ v.end = y
    BY DEF Message
  <2>3. (IF s.ends[m.item] = NoTime THEN m.end ELSE s.ends[m.item]) \in Int
    BY <2>1, <1>2
  <2> QED
    BY <2>1, <2>2, <2>3 DEF MetaWords
<1> HIDE DEF w, z
<1>8. Said(TRUE, w) = <<Transcript(TRUE, g.final + 1 .. b, w.start, w.end)>>
  BY <1>2, <1>7 DEF Said
<1>9. Good(vendor, Said(TRUE, w), i, h)
  BY <1>3, <1>7, <1>8
<1>10. Knows(vendor, h, z)
  BY <1>1, <1>4, <1>6, MetaKnown DEF MetaKnows
<1> QED
  BY <1>4, <1>5, <1>9, <1>10

(* Push-to-talk: the final, and the speechComplete that repeats it.        *)
Seen(g) == [g EXCEPT !.seen = TRUE]

LEMMA SeenFields ==
  ASSUME NEW g \in Views
  PROVE  LET h == Seen(g)
         IN /\ h \in Views /\ h.final = g.final /\ h.more = g.more /\ h.time = g.time /\ h.item = g.item
            /\ h.ahead = g.ahead /\ h.seen = TRUE /\ h.erred = g.erred /\ h.told = g.told
            /\ h.over = g.over
BY DEF Views, Seen

LEMMA MetaSaid ==
  ASSUME vendor = "meta_ptt", NEW g, Speaking(g), NEW b \in g.final + 1 .. Heard,
         NEW m \in Message, m.kind = "transcript", m.final = TRUE, m.text = g.final + 1 .. b
  PROVE  Tells(vendor, m, g, Seen(After(g, b)))
<1> DEFINE h == Seen(After(g, b))
<1>0. /\ ~After(g, b).over /\ After(g, b).final = b /\ After(g, b).erred = g.erred /\ g \in Views
      /\ After(g, b) \in Views /\ g.final < After(g, b).final /\ g.time <= After(g, b).time /\ ~g.over
  BY AfterFields
<1>1. /\ ~h.over /\ h.final = b /\ h.seen = TRUE /\ h.erred = g.erred /\ h \in Views
      /\ g.final < h.final /\ g.time <= h.time
  <2>1. /\ h.over = After(g, b).over /\ h.final = After(g, b).final /\ h.seen = TRUE
        /\ h.erred = After(g, b).erred /\ h \in Views /\ h.time = After(g, b).time
    BY <1>0, SeenFields
  <2> HIDE DEF h
  <2> QED
    BY <1>0, <2>1
<1>2. m.text # {} /\ m.start \in Int /\ m.end \in Int
  BY FinalIsGood DEF Message
<1>3. vendor \in Meta
  BY DEF Meta
<1> HIDE DEF h
<1> SUFFICES ASSUME NEW s, Knows(vendor, g, s), NEW c \in Nat
             PROVE  \E o, z : /\ Heeds(vendor, m, s, c) = Says(o, z) /\ Good(vendor, o, g, h)
                              /\ Knows(vendor, h, z)
                              /\ vendor = "speechmatics" => z \in Nat /\ z >= s
  BY <1>0, <1>1, SaysTells DEF h
<1>4. MetaKnows(vendor, g, s) /\ vendor # "speechmatics" /\ s \in MetaState
  BY <1>3, MetaKnown DEF MetaKnows
<1> DEFINE current == IF s.turn = NoTime THEN NoTime ELSE s.starts[s.turn]
           w == [m EXCEPT !.start = current]
           z == [s EXCEPT !.seen = TRUE]
<1>5. Heeds(vendor, m, s, c) = Says(Said(TRUE, w), z)
  <2>1. \A p : p => (p /\ m.final) = TRUE /\ (s.seen \/ ((p /\ m.final) /\ m.text # {})) = TRUE
    BY <1>2
  <2>2. \A p : p => MetaParse(m, s, p) = Says(Said(TRUE, w), z)
    BY <2>1 DEF MetaParse
  <2> HIDE DEF w, z
  <2>3. MetaParse(m, s, vendor = "meta_ptt") = Says(Said(TRUE, w), z)
    BY <2>2
  <2> QED
    BY <1>3, <2>3, MetaHears
<1>6. z \in MetaState /\ z.seen = TRUE /\ z.error = s.error
  BY <1>4 DEF MetaState
<1>7. w.text = m.text /\ w.start \in Int /\ w.end \in Int
  <2>1. NoTime \in Int
    BY DEF NoTime
  <2>2. current \in Int
    BY <2>1, <1>4 DEF MetaState
  <2> HIDE DEF current
  <2>3. w.text = m.text /\ w.start = current /\ w.end = m.end
    BY DEF Message
  <2> QED
    BY <2>2, <2>3, <1>2
<1> HIDE DEF w, z
<1>8. Said(TRUE, w) = <<Transcript(TRUE, g.final + 1 .. h.final, w.start, w.end)>>
  BY <1>1, <1>2, <1>7 DEF Said
<1>9. Good(vendor, Said(TRUE, w), g, h)
  <2>1. vendor \notin Pointing
    BY DEF Pointing
  <2>2. Good(vendor, <<Transcript(TRUE, g.final + 1 .. h.final, w.start, w.end)>>, g, h)
    BY <2>1, <1>0, <1>1, <1>7, GoodWords
  <2> QED
    BY <2>2, <1>8
<1>10. Knows(vendor, h, z)
  BY <1>1, <1>3, <1>4, <1>6, MetaKnown DEF MetaKnows
<1> QED
  BY <1>4, <1>5, <1>9, <1>10

LEMMA MetaRepeats ==
  ASSUME vendor = "meta_ptt", NEW g \in Views, ~g.over, g.seen, NEW m, m.kind = "speechComplete",
         m.item \in 0 .. Chunks
  PROVE  Tells(vendor, m, g, g)
<1>1. Good(vendor, <<>>, g, g) /\ vendor \in Meta /\ g.seen \in BOOLEAN
  BY GoodNothing, ViewFields DEF Meta
<1> SUFFICES ASSUME NEW s, Knows(vendor, g, s), NEW c \in Nat
             PROVE  \E o, z : /\ Heeds(vendor, m, s, c) = Says(o, z) /\ Good(vendor, o, g, g)
                              /\ Knows(vendor, g, z)
                              /\ vendor = "speechmatics" => z \in Nat /\ z >= s
  BY SaysTells
<1>2. MetaKnows(vendor, g, s) /\ vendor # "speechmatics" /\ s \in MetaState /\ s.seen
  BY <1>1, MetaKnown DEF MetaKnows
<1> DEFINE z == MetaCloses(s, m.item)
<1>3. Heeds(vendor, m, s, c) = Says(<<>>, z)
  <2>1. \A p : p => MetaParse(m, s, p) = Says(<<>>, z)
    BY <1>2 DEF MetaParse, MetaCloses
  <2> HIDE DEF z
  <2>2. MetaParse(m, s, vendor = "meta_ptt") = Says(<<>>, z)
    BY <2>1
  <2> QED
    BY <1>1, <2>2, MetaHears
<1>4. z \in MetaState /\ z.seen = s.seen /\ z.error = s.error
  BY <1>2, MetaClosed
<1> HIDE DEF z
<1>5. Knows(vendor, g, z)
  BY <1>1, <1>2, <1>4, MetaKnown DEF MetaKnows
<1> QED
  BY <1>1, <1>2, <1>3, <1>5

(* Messages that say nothing.                                              *)
Quiet(m) ==
  \/ vendor = "deepgram" /\ m.kind = "Metadata"
  \/ vendor = "assemblyai" /\ m.kind = "Turn" /\ m.word = FALSE /\ m.ends = TRUE /\ m.formatted = FALSE
  \/ vendor = "elevenlabs" /\ m.kind \in {"committed", "commit"}
  \/ vendor = "openai" /\ m.kind = "commit"
  \/ vendor = "cartesia" /\ m.kind = "flush_done"

LEMMA QuietTells ==
  ASSUME NEW g \in Views, ~g.over, NEW m, Quiet(m)
  PROVE  Tells(vendor, m, g, g)
<1>1. Good(vendor, <<>>, g, g)
  BY GoodNothing, ViewFields
<1>2. vendor \in Dialects /\ vendor # "speechmatics"
  BY DEF Quiet, Dialects
<1>3. \A s, c : Heeds(vendor, m, s, c) = Says(<<>>, s)
  <2> SUFFICES ASSUME NEW s, NEW c PROVE Heeds(vendor, m, s, c) = Says(<<>>, s)
    OBVIOUS
  <2>1. CASE vendor = "deepgram" /\ m.kind = "Metadata"
    <3>1. DeepgramParse(m, s) = Says(<<>>, s)
      BY <2>1 DEF DeepgramParse
    <3> QED
      BY <3>1, <2>1, <1>2, Hears
  <2>2. CASE vendor = "assemblyai" /\ m.kind = "Turn" /\ m.word = FALSE /\ m.ends = TRUE /\ m.formatted = FALSE
    <3>1. AssemblyParse(m, s) = Says(<<>>, s)
      BY <2>2 DEF AssemblyParse
    <3> QED
      BY <3>1, <2>2, <1>2, Hears
  <2>3. CASE vendor = "elevenlabs" /\ m.kind \in {"committed", "commit"}
    <3>1. ElevenParse(m, s) = Says(<<>>, s)
      BY <2>3 DEF ElevenParse
    <3> QED
      BY <3>1, <2>3, <1>2, Hears
  <2>4. CASE vendor = "openai" /\ m.kind = "commit"
    <3>1. OpenAIParse(m, s) = Says(<<>>, s)
      BY <2>4 DEF OpenAIParse
    <3> QED
      BY <3>1, <2>4, <1>2, Hears
  <2>5. CASE vendor = "cartesia" /\ m.kind = "flush_done"
    <3>1. CartesiaParse(m, s) = Says(<<>>, s)
      BY <2>5 DEF CartesiaParse
    <3> QED
      BY <3>1, <2>5, <1>2, Hears
  <2> QED
    BY <2>1, <2>2, <2>3, <2>4, <2>5 DEF Quiet
<1> QED
  BY <1>1, <1>2, <1>3, SaysTells

(* An acknowledgement, and the endpoints of their own.                     *)
LEMMA AckTells ==
  ASSUME vendor = "speechmatics", NEW g \in Views, ~g.over, NEW m, m.kind = "AudioAdded", m.seq_no \in Nat
  PROVE  Tells(vendor, m, g, g)
<1>1. Good(vendor, <<>>, g, g)
  BY GoodNothing, ViewFields
<1> SUFFICES ASSUME NEW s, Knows(vendor, g, s), NEW c \in Nat
             PROVE  \E o, z : /\ Heeds(vendor, m, s, c) = Says(o, z) /\ Good(vendor, o, g, g)
                              /\ Knows(vendor, g, z)
                              /\ vendor = "speechmatics" => z \in Nat /\ z >= s
  BY SaysTells
<1>2. s \in Nat
  BY NothingKnown
<1> DEFINE z == IF m.seq_no > s THEN m.seq_no ELSE s
<1>3. Heeds(vendor, m, s, c) = Says(<<>>, z)
  <2>1. Heeds(vendor, m, s, c) = SpeechmaticsParse(m, s)
    <3>1. vendor \in Dialects
      BY DEF Dialects
    <3> QED
      BY <3>1, Hears
  <2>2. SpeechmaticsParse(m, s) = Says(<<>>, z)
    BY DEF SpeechmaticsParse
  <2> QED
    BY <2>1, <2>2
<1>4. z \in Nat /\ z >= s
  BY <1>2
<1> HIDE DEF z
<1>5. Knows(vendor, g, z)
  BY <1>4, NothingKnown
<1> QED
  BY <1>1, <1>3, <1>4, <1>5

Later(g, t) == [g EXCEPT !.time = t]

LEMMA LaterFields ==
  ASSUME NEW g \in Views, NEW t \in Nat
  PROVE  LET h == Later(g, t)
         IN /\ h \in Views /\ h.final = g.final /\ h.more = g.more /\ h.time = t /\ h.item = g.item
            /\ h.ahead = g.ahead /\ h.seen = g.seen /\ h.erred = g.erred /\ h.told = g.told
            /\ h.over = g.over
BY DEF Views, Later

LEMMA EndpointTells ==
  ASSUME vendor \in {"deepgram", "speechmatics"}, NEW g \in Views, ~g.over, g.time <= g.final,
         NEW m, m.kind = IF vendor = "deepgram" THEN "UtteranceEnd" ELSE "EndOfUtterance",
         m.at = g.final
  PROVE  Tells(vendor, m, g, Later(g, g.final))
<1> DEFINE h == Later(g, g.final)
           e == <<UtteranceEnd(m.at)>>
<1>1. g.final \in Nat /\ vendor \in Dialects
  BY ViewFields DEF Dialects
<1>2. h.final = g.final /\ h.time = g.final /\ h.over = g.over
  BY <1>1, LaterFields
<1> HIDE DEF h
<1>3. Good(vendor, e, g, h) /\ Good(vendor, <<>>, g, h)
  <2>1. m.at \in Int /\ m.at <= h.time /\ g.final = h.final /\ g.time <= h.time
    BY <1>1, <1>2
  <2> QED
    BY <2>1, GoodEnd, GoodNothing
<1> SUFFICES ASSUME NEW s, Knows(vendor, g, s), NEW c \in Nat
             PROVE  \E o, z : /\ Heeds(vendor, m, s, c) = Says(o, z) /\ Good(vendor, o, g, h)
                              /\ Knows(vendor, h, z)
                              /\ vendor = "speechmatics" => z \in Nat /\ z >= s
  BY <1>2, SaysTells DEF h
<1>4. CASE vendor = "deepgram"
  <2>1. Heeds(vendor, m, s, c) = DeepgramParse(m, s)
    BY <1>1, <1>4, Hears
  <2>2. Knows(vendor, h, s) /\ Knows(vendor, h, m.at)
    BY <1>1, <1>4, NothingKnown
  <2>3. CASE m.at > s
    <3>1. DeepgramParse(m, s) = Says(e, m.at)
      BY <1>4, <2>3 DEF DeepgramParse
    <3> HIDE DEF e
    <3> QED
      BY <3>1, <1>3, <1>4, <2>1, <2>2
  <2>4. CASE ~(m.at > s)
    <3>1. DeepgramParse(m, s) = Says(<<>>, s)
      BY <1>4, <2>4 DEF DeepgramParse
    <3> QED
      BY <3>1, <1>3, <1>4, <2>1, <2>2
  <2> QED
    BY <2>3, <2>4
<1>5. CASE vendor = "speechmatics"
  <2>1. Heeds(vendor, m, s, c) = SpeechmaticsParse(m, s)
    BY <1>1, <1>5, Hears
  <2>2. s \in Nat /\ Knows(vendor, h, s) /\ s >= s
    BY <1>5, NothingKnown
  <2>3. SpeechmaticsParse(m, s) = Says(e, s)
    BY <1>5 DEF SpeechmaticsParse
  <2> HIDE DEF e
  <2> QED
    BY <2>1, <2>2, <2>3, <1>3
<1> QED
  BY <1>4, <1>5

(* The last message.                                                       *)
Over(g, t) == [g EXCEPT !.over = TRUE, !.told = t]

LEMMA OverFields ==
  ASSUME NEW g \in Views, NEW t \in BOOLEAN
  PROVE  LET h == Over(g, t)
         IN /\ h \in Views /\ h.final = g.final /\ h.more = g.more /\ h.time = g.time /\ h.item = g.item
            /\ h.ahead = g.ahead /\ h.seen = g.seen /\ h.erred = g.erred /\ h.told = t
            /\ h.over
BY DEF Views, Over

LastWord(m) ==
  \/ vendor = "assemblyai" /\ m.kind = "Termination"
  \/ vendor = "cartesia" /\ m.kind = "done"
  \/ vendor = "speechmatics" /\ m.kind = "EndOfTranscript"
  \/ vendor = "azure" /\ m.kind = "END"

LEMMA LastWordTells ==
  ASSUME NEW g \in Views, ~g.over, NEW m, LastWord(m)
  PROVE  Tells(vendor, m, g, Over(g, TRUE))
<1> DEFINE h == Over(g, TRUE)
<1>1. h.over /\ h.told /\ h.final = g.final /\ h.time = g.time
  BY OverFields
<1> HIDE DEF h
<1>2. Good(vendor, <<>>, g, h)
  BY <1>1, GoodNothing, ViewFields
<1>3. vendor \in Dialects
  BY DEF LastWord, Dialects
<1>4. \A s, c : Heeds(vendor, m, s, c) = Returns(<<>>, s)
  <2> SUFFICES ASSUME NEW s, NEW c PROVE Heeds(vendor, m, s, c) = Returns(<<>>, s)
    OBVIOUS
  <2>1. CASE vendor = "assemblyai" /\ m.kind = "Termination"
    <3>1. AssemblyParse(m, s) = Returns(<<>>, s)
      BY <2>1 DEF AssemblyParse
    <3> QED
      BY <3>1, <2>1, <1>3, Hears
  <2>2. CASE vendor = "cartesia" /\ m.kind = "done"
    <3>1. CartesiaParse(m, s) = Returns(<<>>, s)
      BY <2>2 DEF CartesiaParse
    <3> QED
      BY <3>1, <2>2, <1>3, Hears
  <2>3. CASE vendor = "speechmatics" /\ m.kind = "EndOfTranscript"
    <3>1. SpeechmaticsParse(m, s) = Returns(<<>>, s)
      BY <2>3 DEF SpeechmaticsParse
    <3> QED
      BY <3>1, <2>3, <1>3, Hears
  <2>4. CASE vendor = "azure" /\ m.kind = "END"
    <3>1. AzureParse(m, s) = Returns(<<>>, s)
      BY <2>4 DEF AzureParse
    <3> QED
      BY <3>1, <2>4, <1>3, Hears
  <2> QED
    BY <2>1, <2>2, <2>3, <2>4 DEF LastWord
<1>5. \A s : Knows(vendor, g, s) => (vendor = "speechmatics" => s \in Nat /\ s >= s)
  BY NothingKnown
<1> QED
  BY <1>1, <1>2, <1>4, <1>5, ReturnsTells DEF h

(* An error frame: most adapters raise; xAI and Meta read on.              *)
Raisers ==
  {"flux", "soniox", "assemblyai", "elevenlabs", "openai", "mistral", "cartesia", "turns", "aws",
   "telnyx", "speechmatics", "azure", "palabra"}

LEMMA ErrorRaises ==
  ASSUME vendor \in Raisers, NEW g \in Views, ~g.over, NEW m, m.kind = "error", m.word = FALSE
  PROVE  Tells(vendor, m, g, Over(g, g.told))
<1> DEFINE h == Over(g, g.told)
<1>1. h.over /\ h.final = g.final /\ h.time = g.time
  BY OverFields, ViewFields
<1>2. g.time <= h.time
  <2> HIDE DEF h
  <2> QED
    BY <1>1, ViewFields
<1> HIDE DEF h
<1>3. vendor \in Dialects
  BY DEF Raisers, Dialects
<1>4. \A s, c : \E b : Heeds(vendor, m, s, c) = Raises(b, s)
  <2> SUFFICES ASSUME NEW s, NEW c PROVE \E b : Heeds(vendor, m, s, c) = Raises(b, s)
    OBVIOUS
  <2>1. CASE vendor = "flux"
    <3>1. FluxParse(m, s) = Raises(TRUE, s)
      BY <2>1 DEF FluxParse
    <3>2. Heeds(vendor, m, s, c) = FluxParse(m, s)
      BY <2>1, <1>3, Hears
    <3>3. Heeds(vendor, m, s, c) = Raises(TRUE, s)
      BY <3>1, <3>2
    <3> WITNESS TRUE
    <3> QED
      BY <3>3
  <2>2. CASE vendor = "soniox"
    <3>1. SonioxParse(m, s) = Raises(m.server, s)
      BY <2>2 DEF SonioxParse
    <3> QED
      BY <3>1, <2>2, <1>3, Hears
  <2>3. CASE vendor = "assemblyai"
    <3>1. AssemblyParse(m, s) = Raises(m.server, s)
      BY <2>3 DEF AssemblyParse
    <3> QED
      BY <3>1, <2>3, <1>3, Hears
  <2>4. CASE vendor = "elevenlabs"
    <3>1. ElevenParse(m, s) = Raises(m.server, s)
      BY <2>4 DEF ElevenParse
    <3> QED
      BY <3>1, <2>4, <1>3, Hears
  <2>5. CASE vendor = "openai"
    <3>1. OpenAIParse(m, s) = Raises(m.server, s)
      BY <2>5 DEF OpenAIParse
    <3> QED
      BY <3>1, <2>5, <1>3, Hears
  <2>6. CASE vendor = "mistral"
    <3>1. MistralParse(m, s) = Raises(m.server, s)
      BY <2>6 DEF MistralParse
    <3> QED
      BY <3>1, <2>6, <1>3, Hears
  <2>7. CASE vendor = "cartesia"
    <3>1. CartesiaParse(m, s) = Raises(m.server, s)
      BY <2>7 DEF CartesiaParse
    <3> QED
      BY <3>1, <2>7, <1>3, Hears
  <2>8. CASE vendor = "turns"
    <3>1. TurnsParse(m, s, c) = Raises(m.server, s)
      BY <2>8 DEF TurnsParse
    <3> QED
      BY <3>1, <2>8, <1>3, Hears
  <2>9. CASE vendor = "aws"
    <3>1. AWSParse(m, s) = Raises(m.server, s)
      BY <2>9 DEF AWSParse
    <3> QED
      BY <3>1, <2>9, <1>3, Hears
  <2>10. CASE vendor = "telnyx"
    <3>1. TelnyxParse(m, s) = Raises(FALSE, s)
      BY <2>10 DEF TelnyxParse
    <3>2. Heeds(vendor, m, s, c) = TelnyxParse(m, s)
      BY <2>10, <1>3, Hears
    <3>3. Heeds(vendor, m, s, c) = Raises(FALSE, s)
      BY <3>1, <3>2
    <3> WITNESS FALSE
    <3> QED
      BY <3>3
  <2>11. CASE vendor = "speechmatics"
    <3>1. SpeechmaticsParse(m, s) = Raises(m.server, s)
      BY <2>11 DEF SpeechmaticsParse
    <3> QED
      BY <3>1, <2>11, <1>3, Hears
  <2>12. CASE vendor = "azure"
    <3>1. AzureParse(m, s) = Raises(TRUE, s)
      BY <2>12 DEF AzureParse
    <3>2. Heeds(vendor, m, s, c) = AzureParse(m, s)
      BY <2>12, <1>3, Hears
    <3>3. Heeds(vendor, m, s, c) = Raises(TRUE, s)
      BY <3>1, <3>2
    <3> WITNESS TRUE
    <3> QED
      BY <3>3
  <2>13. CASE vendor = "palabra"
    <3>1. PalabraParse(m, s) = Raises(FALSE, s)
      BY <2>13 DEF PalabraParse
    <3>2. Heeds(vendor, m, s, c) = PalabraParse(m, s)
      BY <2>13, <1>3, Hears
    <3>3. Heeds(vendor, m, s, c) = Raises(FALSE, s)
      BY <3>1, <3>2
    <3> WITNESS FALSE
    <3> QED
      BY <3>3
  <2> QED
    BY <2>1, <2>2, <2>3, <2>4, <2>5, <2>6, <2>7, <2>8, <2>9, <2>10, <2>11, <2>12, <2>13 DEF Raisers
<1>5. \A s : Knows(vendor, g, s) => (vendor = "speechmatics" => s \in Nat /\ s >= s)
  BY NothingKnown
<1> QED
  BY <1>1, <1>2, <1>4, <1>5, RaisesTells DEF h

Erred(g) == [g EXCEPT !.erred = TRUE]

LEMMA ErredFields ==
  ASSUME NEW g \in Views
  PROVE  LET h == Erred(g)
         IN /\ h \in Views /\ h.final = g.final /\ h.more = g.more /\ h.time = g.time /\ h.item = g.item
            /\ h.ahead = g.ahead /\ h.seen = g.seen /\ h.erred = TRUE /\ h.told = g.told
            /\ h.over = g.over
BY DEF Views, Erred

LEMMA ErrorIsKept ==
  ASSUME vendor \in Meta \cup {"xai"}, NEW g \in Views, ~g.over, NEW m, m.kind = "error"
  PROVE  Tells(vendor, m, g, Erred(g))
<1> DEFINE h == Erred(g)
<1>1. /\ h.over = g.over /\ h.final = g.final /\ h.more = g.more /\ h.time = g.time /\ h.told = g.told
      /\ h.seen = g.seen
  BY ErredFields
<1> HIDE DEF h
<1>2. Good(vendor, <<>>, g, h)
  BY <1>1, GoodNothing, ViewFields
<1> SUFFICES ASSUME NEW s, Knows(vendor, g, s), NEW c \in Nat
             PROVE  \E o, z : /\ Heeds(vendor, m, s, c) = Says(o, z) /\ Good(vendor, o, g, h)
                              /\ Knows(vendor, h, z)
                              /\ vendor = "speechmatics" => z \in Nat /\ z >= s
  BY <1>1, SaysTells DEF h
<1> DEFINE z == [s EXCEPT !.error = TRUE]
<1>3. CASE vendor \in Meta
  <2>1. MetaKnows(vendor, g, s) /\ vendor # "speechmatics"
    BY <1>3, MetaKnown DEF Meta
  <2>2. z \in MetaState /\ z.seen = s.seen /\ z.error
    BY <2>1 DEF MetaKnows, MetaState
  <2>3. Heeds(vendor, m, s, c) = Says(<<>>, z)
    <3>1. \A p : MetaParse(m, s, p) = Says(<<>>, z)
      BY DEF MetaParse
    <3> HIDE DEF z
    <3> QED
      BY <3>1, <1>3, MetaHears
  <2> HIDE DEF z
  <2>4. Knows(vendor, h, z)
    BY <1>1, <1>3, <2>1, <2>2, MetaKnown DEF MetaKnows
  <2> QED
    BY <1>2, <2>1, <2>3, <2>4
<1>4. CASE vendor = "xai"
  <2>1. XaiKnows(g, s)
    BY <1>4 DEF Knows
  <2>2. /\ z \in XaiState /\ z.start = s.start /\ z.locked = s.locked /\ z.locked_end = s.locked_end
        /\ z.final = s.final /\ z.done = s.done
    BY <2>1 DEF XaiKnows, XaiState
  <2>3. Heeds(vendor, m, s, c) = Says(<<>>, z)
    <3>1. XaiParse(m, s) = Says(<<>>, z)
      BY DEF XaiParse
    <3>2. vendor \in Dialects
      BY <1>4 DEF Dialects
    <3> QED
      BY <3>1, <3>2, <1>4, Hears
  <2> HIDE DEF z
  <2>4. Knows(vendor, h, z)
    <3>1. XaiKnows(h, z)
      BY <1>1, <2>1, <2>2 DEF XaiKnows
    <3> QED
      BY <3>1, <1>4 DEF Knows, Meta
  <2> QED
    BY <1>2, <1>4, <2>3, <2>4
<1> QED
  BY <1>3, <1>4

----------------------------------------------------------------------------
(* Each message of the vendor finds the adapter at work, and leaves it so. *)
LEMMA TimeFields ==
  ASSUME Told, NEW n \in 0 .. Heard
  PROVE  TimeOf(n) \in Nat /\ (vendor # "aws" => TimeOf(n) = n)
<1>1. n \in Nat /\ (n = 0 \/ n \in 1 .. Heard)
  BY Hearing
<1> QED
  BY <1>1, Hearing DEF TimeOf

LEMMA SpeakingFields ==
  ASSUME NEW g, Speaking(g)
  PROVE  /\ Told /\ ~vd.bye /\ ~g.over /\ g \in Views /\ Along(Heard, finished, g)
         /\ g.final \in Nat /\ g.more \in Nat /\ g.time \in Nat
         /\ g.final <= g.more /\ g.more <= Heard /\ g.final <= Heard
         /\ vendor # "soniox" => g.final = vd.final
         /\ vendor = "soniox" => g.more = vd.final
         /\ vendor = "flux" => g.more = vd.prov
         /\ vendor = "xai" => g.more = IF vd.locked > vd.final THEN vd.locked ELSE vd.final
         /\ vendor = "openai" => g.item = vd.items /\ g.ahead = Chunks
         /\ vendor = "meta_ptt" /\ vd.final = 0 => ~g.seen
         /\ vendor \in Pointing => g.time <= TimeOf(g.final)
         /\ vendor \in Pointing /\ vendor # "aws" => g.time <= g.final
<1>1. Told /\ ~vd.bye /\ Along(Heard, finished, g) /\ AtWork(vd, g)
  BY DEF Speaking
<1>2. g \in Views /\ g.final <= g.more /\ g.more <= Heard
  BY <1>1 DEF Along
<1>3. g.final \in 0 .. Heard
  BY <1>1, <1>2, ViewFields, Hearing
<1>4. g.final \in Nat /\ g.more \in Nat /\ g.time \in Nat /\ g.final <= Heard
  BY <1>2, <1>3, ViewFields
<1>5. TimeOf(g.final) \in Nat /\ (vendor # "aws" => TimeOf(g.final) = g.final)
  BY <1>1, <1>3, TimeFields
<1> QED
  BY <1>1, <1>2, <1>4, <1>5 DEF AtWork

(* Where After leaves it.                                                  *)
LEMMA AfterWorks ==
  ASSUME NEW g, Speaking(g), vendor \notin {"soniox", "openai"},
         NEW b \in g.final + 1 .. Heard, NEW h \in Views, h.final = b, h.more = b,
         h.time = After(g, b).time, ~h.over, NEW d, d.final = b, vendor = "flux" => d.prov = b,
         vendor = "xai" => d.locked \in Int /\ d.locked <= b
  PROVE  AtWork(d, h)
<1>1. vendor \in Pointing => h.time = TimeOf(b)
  BY AfterFields
<1>2. g.final \in Nat /\ Heard \in Nat
  BY SpeakingFields, Hearing
<1>3. b \in Nat /\ b > 0 /\ b <= Heard
  BY <1>2
<1>4. vendor \in Pointing => h.time <= TimeOf(h.final)
  BY <1>1, <1>3, SpeakingFields, TimeFields
<1> QED
  BY <1>3, <1>4 DEF AtWork

(* Soniox: tokens up to b are final, maybe from one that already was.      *)
LEMMA SonioxSaysFinal ==
  ASSUME vendor = "soniox", NEW g, Speaking(g), NEW b \in vd.final + 1 .. Heard,
         NEW ms \in FinalWires(vd.final + 1, b, Heard), NEW d, d.final = b
  PROVE  ms \in Seq(Message) /\ \E h : Leads(vendor, Heard, finished, ms, g, h) /\ AtWork(d, h)
<1> DEFINE a == vd.final + 1
<1>1. PICK from \in {a, IF a > 1 THEN a - 1 ELSE a}, rest \in {{}, b + 1 .. Heard}, e \in BOOLEAN :
        ms = <<[Tokens(from .. b, rest) EXCEPT !.ends = e]>>
  BY DEF FinalWires
<1> DEFINE w == Wire("tokens", 0, -1)
           m == [Tokens(from .. b, rest) EXCEPT !.ends = e]
<1>2. Told /\ vd.final \in Nat /\ Heard \in Nat /\ Heard <= Chunks /\ b \in Nat
  BY SpeakingFields, Hearing
<1>3. w \in Message /\ w.kind = "tokens" /\ w.finished = FALSE
  <2>0. "tokens" \in Kinds
    BY DEF Kinds
  <2>1. w \in Message
    BY <1>2, <2>0, WireIsMessage
  <2> QED
    BY <2>1 DEF Wire
<1> HIDE DEF w
<1>4. m = [[w EXCEPT !.fin = from .. b, !.non = rest] EXCEPT !.ends = e]
  BY DEF Tokens, w
<1>5. from \in Int /\ from .. b \in SUBSET Int /\ rest \in SUBSET Int /\ e \in BOOLEAN
  BY <1>2
<1>6. /\ m \in Message /\ m.kind = "tokens" /\ m.finished = FALSE /\ m.fin = from .. b
      /\ m.non = rest /\ m.ends = e
  BY <1>3, <1>4, <1>5 DEF Message
<1> HIDE DEF m
<1>7. g \in Views /\ ~g.over /\ g.final <= g.more /\ g.time <= g.final /\ g.more = vd.final
      /\ g.final \in Nat /\ g.time \in Nat
  BY SpeakingFields DEF Pointing
<1> DEFINE k == IF rest = {} THEN b ELSE Heard
<1>8. b \in g.more .. Chunks /\ k \in b .. Chunks /\ Chunks \in Nat
  BY <1>2, <1>7, NaturalChunks
<1>9. SonioxTokens(g, b, k, m)
  <2>1. {c \in m.fin : g.more = 0 \/ c - 1 >= g.more} = g.more + 1 .. b
    BY <1>2, <1>6, <1>7
  <2>2. m.non = b + 1 .. k
    <3>1. CASE rest = {}
      BY <1>2, <1>6, <3>1
    <3>2. CASE rest # {}
      BY <1>6, <3>2
    <3> QED
      BY <3>1, <3>2
  <2>3. m.fin # {}
    <3>1. b \in m.fin
      BY <1>2, <1>6
    <3> QED
      BY <3>1
  <2> QED
    BY <2>1, <2>2, <2>3, <1>6 DEF SonioxTokens
<1> DEFINE h == SonioxView(g, b, m)
<1>10. Tells(vendor, m, g, h)
  BY <1>7, <1>8, <1>9, SonioxTells
<1>11. /\ h \in Views /\ h.final = (IF SonioxFlushes(m) THEN b ELSE g.final) /\ h.more = b
       /\ h.time = (IF SonioxFlushes(m) THEN b ELSE g.time)
       /\ h.told = g.told /\ h.over = FALSE
  <2>1. /\ h \in Views /\ h.final = (IF SonioxFlushes(m) THEN b ELSE g.final) /\ h.more = b
        /\ h.time = (IF SonioxFlushes(m) THEN b ELSE g.time)
        /\ h.told = (g.told \/ m.finished) /\ h.over = m.finished
    <3>1. m.finished \in BOOLEAN
      BY <1>6
    <3>2. g \in Views /\ b \in g.more .. Chunks
      BY <1>7, <1>8
    <3> HIDE DEF k
    <3>3. h \in Views /\ h.final = (IF SonioxFlushes(m) THEN b ELSE g.final) /\ h.more = b
      BY <3>1, <3>2, SonioxFields
    <3>4. h.time = (IF SonioxFlushes(m) THEN b ELSE g.time)
      BY <3>1, <3>2, SonioxFields
    <3>5. h.told = (g.told \/ m.finished) /\ h.over = m.finished
      BY <3>1, <3>2, SonioxFields
    <3> HIDE DEF h
    <3> QED
      BY <3>3, <3>4, <3>5
  <2>2. g.told \in BOOLEAN
    BY <1>7, ViewFields
  <2> HIDE DEF h
  <2>3. h.told = g.told /\ h.over = FALSE
    BY <2>1, <2>2, <1>6
  <2> QED
    BY <2>1, <2>3
<1> HIDE DEF h
<1>12. Along(Heard, finished, g) /\ Along(Heard, finished, h)
  BY <1>2, <1>7, <1>8, <1>11, SpeakingFields DEF Along
<1>13. h.final \in 0 .. Heard /\ h.time <= h.final
  BY <1>2, <1>7, <1>8, <1>11
<1>14. AtWork(d, h)
  BY <1>2, <1>11, <1>13, TimeFields DEF AtWork
<1>15. ms = <<m>>
  BY <1>1 DEF m
<1> QED
  BY <1>6, <1>10, <1>12, <1>14, <1>15, OneStep

(* xAI: an event says all of its words, or those after the locked ones.    *)
LEMMA SinceAbout ==
  ASSUME vendor = "xai", NEW g, Speaking(g), NEW b \in vd.final + 1 .. Heard, b >= vd.locked,
         NEW w \in Since("transcript.partial", vd.final + 1, b)
  PROVE  /\ w \in Message /\ w.kind = "transcript.partial" /\ XaiAbout(g, w, b)
         /\ w.final = FALSE /\ w.locks = FALSE
         /\ b \in g.more .. Chunks /\ b \in g.final + 1 .. Heard /\ b >= g.more /\ g.final < b
<1> DEFINE kind == "transcript.partial"
           a == vd.final + 1
<1>1. PICK from \in {a} \cup {c \in {vd.locked + 1} : vd.locked >= a} :
        w = [Wire(kind, from, b) EXCEPT !.start = IF from > b THEN at[b] ELSE @]
  BY DEF Since
<1>2. /\ Told /\ vd.final \in Nat /\ vd.locked \in Nat /\ Heard \in Nat /\ Heard <= Chunks
      /\ vd.locked <= Heard /\ g.final = vd.final
      /\ g.more = IF vd.locked > vd.final THEN vd.locked ELSE vd.final
  BY SpeakingFields, Hearing
<1>3. b \in Nat /\ b > vd.final /\ b <= Heard /\ Chunks \in Nat
  BY <1>2, NaturalChunks
<1>4. /\ from \in Nat /\ from > 0 /\ from <= b + 1 /\ from - 1 \in Int
      /\ from = g.final + 1 \/ from = g.more + 1
  BY <1>1, <1>2, <1>3
<1> HIDE DEF a
<1>5. \A i \in 1 .. Heard : at[i] = i
  BY <1>2, Hearing
<1> DEFINE m == Wire(kind, from, b)
           start == IF from > b THEN at[b] ELSE m.start
<1>6. m \in Message
  <2>1. kind \in Kinds
    BY DEF Kinds
  <2> QED
    BY <1>2, <1>3, <1>4, <2>1, WireIsMessage
<1>7. /\ m.kind = kind /\ m.text = from .. b /\ m.final = FALSE /\ m.locks = FALSE
      /\ m.start = IF from \in 1 .. Heard THEN at[from] - 1 ELSE NoTime
      /\ m.end = IF b \in 1 .. Heard THEN at[b] ELSE NoTime
  BY DEF Wire
<1> HIDE DEF m
<1>8. m.end = b /\ start = from - 1
  <2>1. b \in 1 .. Heard /\ at[b] = b
    BY <1>2, <1>3, <1>5
  <2>2. CASE from > b
    BY <1>3, <1>4, <1>7, <2>1, <2>2
  <2>3. CASE ~(from > b)
    <3>1. from \in 1 .. Heard
      BY <1>2, <1>3, <1>4, <2>3
    <3>2. at[from] = from
      BY <3>1, <1>5
    <3> QED
      BY <1>7, <2>1, <2>3, <3>1, <3>2
  <2> QED
    BY <1>7, <2>1, <2>2, <2>3
<1>9. w = [m EXCEPT !.start = start]
  BY <1>1 DEF m
<1> HIDE DEF start
<1>10. /\ w \in Message /\ w.kind = kind /\ w.text = from .. b /\ w.start = from - 1 /\ w.end = b
       /\ w.final = FALSE /\ w.locks = FALSE
  BY <1>4, <1>6, <1>7, <1>8, <1>9 DEF Message
<1>11. XaiAbout(g, w, b)
  BY <1>4, <1>10 DEF XaiAbout
<1> QED
  BY <1>2, <1>3, <1>10, <1>11

LEMMA XaiSaysFinal ==
  ASSUME vendor = "xai", NEW g, Speaking(g), NEW b \in vd.final + 1 .. Heard, b >= vd.locked,
         NEW ms \in FinalWires(vd.final + 1, b, Heard), NEW d, d.final = b, d.locked = vd.locked
  PROVE  ms \in Seq(Message) /\ \E h : Leads(vendor, Heard, finished, ms, g, h) /\ AtWork(d, h)
<1>1. PICK w \in Since("transcript.partial", vd.final + 1, b) : ms = <<Finally(w)>>
  BY DEF FinalWires
<1>2. /\ w \in Message /\ w.kind = "transcript.partial" /\ XaiAbout(g, w, b)
      /\ b \in g.final + 1 .. Heard /\ b >= g.more
  BY SinceAbout
<1> DEFINE m == Finally(w)
<1>3. /\ m \in Message /\ m.kind = w.kind /\ m.final = TRUE
      /\ m.text = w.text /\ m.start = w.start /\ m.end = w.end
  BY <1>2 DEF Finally, Message
<1> HIDE DEF m
<1>4. XaiAbout(g, m, b)
  BY <1>2, <1>3 DEF XaiAbout
<1> DEFINE h == After(g, b)
<1>5. Tells(vendor, m, g, h)
  BY <1>2, <1>3, <1>4, XaiFinalTells
<1>6. /\ h \in Views /\ h.final = b /\ h.more = b /\ ~h.over /\ Along(Heard, finished, h)
  BY <1>2, AfterFields
<1>7. Along(Heard, finished, g) /\ vd.locked \in Int
  BY SpeakingFields, Hearing
<1>8. AtWork(d, h)
  BY <1>2, <1>6, <1>7, AfterWorks
<1> HIDE DEF h
<1>9. ms = <<m>>
  BY <1>1 DEF m
<1> QED
  BY <1>3, <1>5, <1>6, <1>7, <1>8, <1>9, OneStep

(* xAI: an interim, and the locking of its words.                          *)
LEMMA XaiSaysInterim ==
  ASSUME vendor = "xai", NEW g, Speaking(g), Heard > vd.final,
         NEW w \in Since("transcript.partial", vd.final + 1, Heard), NEW e \in BOOLEAN,
         NEW d, d.final = vd.final, d.locked = IF e THEN Heard ELSE vd.locked
  PROVE  LET m == [w EXCEPT !.locks = e]
         IN m \in Message /\ \E h : Leads(vendor, Heard, finished, <<m>>, g, h) /\ AtWork(d, h)
<1>1. /\ Told /\ vd.final \in Nat /\ vd.locked \in Nat /\ Heard \in Nat /\ vd.locked <= Heard
      /\ Heard <= Chunks /\ Chunks \in Nat
  BY SpeakingFields, Hearing, NaturalChunks
<1>2. Heard \in vd.final + 1 .. Heard /\ Heard >= vd.locked
  BY <1>1
<1>3. /\ w \in Message /\ w.kind = "transcript.partial" /\ XaiAbout(g, w, Heard)
      /\ w.final = FALSE /\ w.locks = FALSE /\ Heard \in g.more .. Chunks /\ g.final < Heard
  BY <1>2, SinceAbout
<1> DEFINE m == [w EXCEPT !.locks = e]
<1>4. /\ m \in Message /\ m.kind = w.kind /\ m.final = FALSE /\ m.locks = e
      /\ m.text = w.text /\ m.start = w.start /\ m.end = w.end
  BY <1>3 DEF Message
<1> HIDE DEF m
<1>5. XaiAbout(g, m, Heard)
  BY <1>3, <1>4 DEF XaiAbout
<1>6. /\ g \in Views /\ ~g.over /\ g.final <= g.more /\ g.more <= Heard /\ Along(Heard, finished, g)
      /\ g.final = vd.final /\ g.more = (IF vd.locked > vd.final THEN vd.locked ELSE vd.final)
      /\ g.time <= TimeOf(g.final)
  BY SpeakingFields DEF Pointing
<1> DEFINE h == IF e THEN WithMore(g, Heard) ELSE g
<1>7. Tells(vendor, m, g, h)
  BY <1>3, <1>4, <1>5, <1>6, XaiInterimTells
<1>8. /\ h \in Views /\ h.final = g.final /\ h.more = (IF e THEN Heard ELSE g.more) /\ h.time = g.time
      /\ ~h.over /\ h.told = g.told
  <2>1. Heard \in 0 .. Chunks
    BY <1>1
  <2> QED
    BY <1>6, <2>1, MoreFields
<1> HIDE DEF h
<1>9. Along(Heard, finished, h)
  BY <1>1, <1>2, <1>6, <1>8, ViewFields DEF Along
<1>10. AtWork(d, h)
  BY <1>1, <1>2, <1>6, <1>8 DEF AtWork
<1> QED
  BY <1>4, <1>6, <1>7, <1>9, <1>10, OneStep DEF m

(* No word of AssemblyAI's is the one its adapter ends at.                 *)
NoTermination == "assemblyai" \in Vendors => Termination = {}

(* A message with words, before its vendor marks it.                       *)
Plain(m, kind, a, b) ==
  /\ m \in Message /\ m.kind = kind /\ m.text = a .. b
  /\ m.start = at[a] - 1 /\ m.end = at[b] /\ m.word = FALSE
  /\ m.final = FALSE /\ m.ends = FALSE /\ m.formatted = FALSE /\ m.item = vd.items

LEMMA WireIsPlain ==
  ASSUME Told, NoTermination, NEW kind \in Kinds, NEW a \in 1 .. Heard, NEW b \in 1 .. Heard
  PROVE  Plain(Wire(kind, a, b), kind, a, b)
<1> DEFINE m == Wire(kind, a, b)
<1>1. vendor = "assemblyai" => Termination = {}
  BY DEF NoTermination, Told, ControlTypes
<1>2. m \in Message
  BY Hearing, WireIsMessage, a \in Int, b \in Int
<1>3. m.word = FALSE
  BY <1>1 DEF Wire
<1>4. m.start = at[a] - 1 /\ m.end = at[b]
  BY DEF Wire
<1>5. /\ m.kind = kind /\ m.text = a .. b /\ m.final = FALSE /\ m.ends = FALSE
      /\ m.formatted = FALSE /\ m.item = vd.items
  BY DEF Wire
<1> HIDE DEF m
<1>6. Plain(m, kind, a, b)
  BY <1>2, <1>3, <1>4, <1>5 DEF Plain
<1> QED
  BY <1>6 DEF m

(* The chunks a final is about.                                            *)
LEMMA FinalBounds ==
  ASSUME NEW g, Speaking(g), vendor # "soniox", NEW b \in vd.final + 1 .. Heard
  PROVE  /\ Told /\ g.final = vd.final /\ b \in g.final + 1 .. Heard /\ b \in 1 .. Heard
         /\ g.final + 1 \in 1 .. Heard /\ Heard \in Nat /\ Heard <= Chunks /\ Chunks \in Nat
         /\ g.final \in Nat /\ b \in Nat /\ vd.items \in Nat /\ vd.items + 1 <= Chunks /\ at[b] \in Nat
         /\ g \in Views /\ ~g.over /\ Along(Heard, finished, g)
<1>1. /\ Told /\ g.final = vd.final /\ g.final \in Nat /\ g \in Views /\ ~g.over
      /\ Along(Heard, finished, g)
  BY SpeakingFields
<1>2. /\ Heard \in Nat /\ Heard <= Chunks /\ vd.items \in Nat /\ vd.items <= vd.final
      /\ \A i \in 1 .. Heard : at[i] \in Nat
  BY <1>1, Hearing
<1>3. b \in Nat /\ g.final < b /\ b <= Heard
  BY <1>1, <1>2
<1>4. b \in 1 .. Heard /\ g.final + 1 \in 1 .. Heard /\ b \in g.final + 1 .. Heard
  BY <1>1, <1>2, <1>3
<1> QED
  BY <1>1, <1>2, <1>3, <1>4, NaturalChunks

DeepgramFinals(w) == {<<[Finally(w) EXCEPT !.kind = "Results", !.ends = e]>> : e \in BOOLEAN}

LEMMA DeepgramWires ==
  ASSUME vendor = "deepgram", NEW a, NEW b, NEW n
  PROVE  FinalWires(a, b, n) = DeepgramFinals(Wire("final", a, b))
BY DEF FinalWires, DeepgramFinals

(* What does not depend on the vendor of a message that settles.           *)
Settling == {"deepgram", "flux", "elevenlabs", "mistral", "cartesia", "turns", "aws", "telnyx",
             "speechmatics", "azure", "palabra"}

(* The vendors that say a final in one message, after others that say      *)
(* nothing.                                                                *)
LEMMA PlainSaysFinal ==
  ASSUME NoTermination, vendor \in Settling \cup {"assemblyai"}, NEW g, Speaking(g),
         NEW b \in vd.final + 1 .. Heard, NEW ms \in FinalWires(vd.final + 1, b, Heard),
         NEW d, d.final = b, vendor = "flux" => d.prov = b
  PROVE  ms \in Seq(Message) /\ \E h : Leads(vendor, Heard, finished, ms, g, h) /\ AtWork(d, h)
<1> DEFINE a == g.final + 1
           h == After(g, b)
<1>1. /\ Told /\ g.final = vd.final /\ b \in a .. Heard /\ b \in 1 .. Heard /\ a \in 1 .. Heard
      /\ g \in Views /\ ~g.over /\ Along(Heard, finished, g)
  BY FinalBounds DEF Settling
<1>2. /\ h \in Views /\ h.final = b /\ h.more = b /\ ~h.over /\ Along(Heard, finished, h)
  BY <1>1, AfterFields
<1>3. AtWork(d, h)
  <2>1. h.time = After(g, b).time /\ vendor \notin {"soniox", "openai", "xai"}
    BY DEF Settling
  <2> HIDE DEF h
  <2> QED
    BY <1>1, <1>2, <2>1, AfterWorks
<1>4. ASSUME NEW m, Carries(m, a, b), Finalizes(m)
      PROVE  Tells(vendor, m, g, h)
  BY <1>1, <1>4, FinalTells
<1> DEFINE w == Wire("final", a, b)
<1>5. /\ w \in Message /\ w.kind = "final" /\ w.text = a .. b
      /\ w.start = at[a] - 1 /\ w.end = at[b] /\ w.word = FALSE
      /\ w.final = FALSE /\ w.ends = FALSE /\ w.formatted = FALSE
  <2>1. "final" \in Kinds
    BY DEF Kinds
  <2>2. Plain(w, "final", a, b)
    BY <1>1, <2>1, WireIsPlain
  <2> HIDE DEF w
  <2> QED
    BY <2>2 DEF Plain
<1>6. ms \in FinalWires(a, b, Heard)
  BY <1>1
<1> HIDE DEF h
<1>7. ASSUME NEW m \in Message, Carries(m, a, b), Finalizes(m), ms = <<m>>
      PROVE  ms \in Seq(Message) /\ Leads(vendor, Heard, finished, ms, g, h)
  BY <1>1, <1>2, <1>4, <1>7, OneStep
<1>8. ASSUME NEW p \in Message, Quiet(p), NEW m \in Message, Carries(m, a, b), Finalizes(m), ms = <<p, m>>
      PROVE  ms \in Seq(Message) /\ Leads(vendor, Heard, finished, ms, g, h)
  <2>1. Tells(vendor, p, g, g)
    BY <1>1, <1>8, QuietTells
  <2>2. Tells(vendor, m, g, h)
    BY <1>4, <1>8
  <2> QED
    BY <1>1, <1>2, <1>8, <2>1, <2>2, TwoSteps
<1>9. CASE vendor = "deepgram"
  <2>1. PICK e \in BOOLEAN : ms = <<[Finally(w) EXCEPT !.kind = "Results", !.ends = e]>>
    <3>1. ms \in DeepgramFinals(w)
      BY <1>6, <1>9, DeepgramWires
    <3> HIDE DEF w
    <3> QED
      BY <3>1 DEF DeepgramFinals
  <2> DEFINE m == [Finally(w) EXCEPT !.kind = "Results", !.ends = e]
  <2> HIDE DEF w
  <2>2. /\ m \in Message /\ m.kind = "Results" /\ m.final = TRUE /\ m.ends = e
        /\ m.text = a .. b /\ m.start = at[a] - 1 /\ m.end = at[b] /\ m.word = FALSE
    BY <1>5 DEF Message, Kinds, Finally
  <2> HIDE DEF m
  <2>3. Carries(m, a, b) /\ Finalizes(m)
    BY <1>9, <2>2 DEF Carries, Finalizes
  <2>4. ms = <<m>>
    BY <2>1 DEF m
  <2> QED
    BY <1>3, <1>7, <2>2, <2>3, <2>4
<1>10. CASE vendor \in {"flux", "aws", "cartesia", "palabra", "telnyx"}
  <2> DEFINE k == IF vendor = "telnyx" THEN "transcript" ELSE Names[vendor]
             m == [Finally(w) EXCEPT !.kind = k]
  <2>1. ms = <<m>>
    BY <1>6, <1>10 DEF FinalWires
  <2>2. k \in Kinds
    BY <1>10 DEF Names, Kinds
  <2>3. k = CASE vendor = "flux" -> "TurnInfo" [] vendor = "aws" -> "Result"
               [] vendor = "cartesia" -> "transcript" [] vendor = "palabra" -> "transcription"
               [] OTHER -> "transcript"
    BY <1>10 DEF Names
  <2> HIDE DEF w, k
  <2>4. /\ m \in Message /\ m.kind = k /\ m.final = TRUE /\ m.ends = FALSE
        /\ m.text = a .. b /\ m.start = at[a] - 1 /\ m.end = at[b] /\ m.word = FALSE
    BY <1>5, <2>2 DEF Message, Finally
  <2> HIDE DEF m
  <2>5. Carries(m, a, b)
    BY <2>4 DEF Carries
  <2>6. Finalizes(m)
    BY <1>10, <2>3, <2>4 DEF Finalizes
  <2> QED
    BY <1>3, <1>7, <2>1, <2>4, <2>5, <2>6
<1>11. CASE vendor \in {"mistral", "turns", "speechmatics", "azure"}
  <2> DEFINE k == CASE vendor = "mistral" -> "segment" [] vendor = "turns" -> "turn.end"
                    [] vendor = "speechmatics" -> "AddTranscript" [] OTHER -> "final"
             m == [w EXCEPT !.kind = k]
  <2> HIDE DEF w
  <2>1. k \in Kinds
    BY <1>11 DEF Kinds
  <2>2. ms = <<m>>
    <3>1. CASE vendor = "azure"
      <4>1. k = "final"
        BY <3>1
      <4>2. m = w
        BY <4>1, <1>5 DEF Message
      <4>3. ms = <<w>>
        BY <1>6, <3>1 DEF FinalWires, w
      <4> QED
        BY <4>2, <4>3
    <3>2. CASE vendor = "mistral"
      BY <1>6, <3>2 DEF FinalWires, w
    <3>3. CASE vendor = "turns"
      BY <1>6, <3>3 DEF FinalWires, w
    <3>4. CASE vendor = "speechmatics"
      BY <1>6, <3>4 DEF FinalWires, w
    <3> QED
      BY <1>11, <3>1, <3>2, <3>3, <3>4
  <2>3. k = CASE vendor = "mistral" -> "segment" [] vendor = "turns" -> "turn.end"
              [] vendor = "speechmatics" -> "AddTranscript" [] OTHER -> "final"
    OBVIOUS
  <2> HIDE DEF k
  <2>4. /\ m \in Message /\ m.kind = k /\ m.ends = FALSE
        /\ m.text = a .. b /\ m.start = at[a] - 1 /\ m.end = at[b] /\ m.word = FALSE
    BY <1>5, <2>1 DEF Message
  <2> HIDE DEF m
  <2>5. Carries(m, a, b)
    BY <2>4 DEF Carries
  <2>6. Finalizes(m)
    BY <1>11, <2>3, <2>4 DEF Finalizes
  <2> QED
    BY <1>3, <1>7, <2>2, <2>4, <2>5, <2>6
<1>12. CASE vendor = "elevenlabs"
  <2> DEFINE p == [w EXCEPT !.kind = "committed"]
             m == [w EXCEPT !.kind = "committed_with_timestamps"]
  <2>1. ms = <<p, m>>
    BY <1>6, <1>12 DEF FinalWires
  <2> HIDE DEF w
  <2>2. p \in Message /\ p.kind = "committed"
    BY <1>5 DEF Message, Kinds
  <2>3. /\ m \in Message /\ m.kind = "committed_with_timestamps" /\ m.ends = FALSE
        /\ m.text = a .. b /\ m.start = at[a] - 1 /\ m.end = at[b] /\ m.word = FALSE
    BY <1>5 DEF Message, Kinds
  <2> HIDE DEF p, m
  <2>4. Quiet(p) /\ Carries(m, a, b) /\ Finalizes(m)
    BY <1>12, <2>2, <2>3 DEF Quiet, Carries, Finalizes
  <2> QED
    BY <1>3, <1>8, <2>1, <2>2, <2>3, <2>4
<1>13. CASE vendor = "assemblyai"
  <2> DEFINE t == Wire("Turn", a, b)
             p == Ending(t)
             m == [p EXCEPT !.formatted = TRUE]
  <2>1. ms = <<p, m>>
    BY <1>6, <1>13 DEF FinalWires
  <2>2. /\ t \in Message /\ t.kind = "Turn" /\ t.text = a .. b
        /\ t.start = at[a] - 1 /\ t.end = at[b] /\ t.word = FALSE
        /\ t.final = FALSE /\ t.ends = FALSE /\ t.formatted = FALSE
    <3>1. "Turn" \in Kinds
      BY DEF Kinds
    <3>2. Plain(t, "Turn", a, b)
      BY <1>1, <3>1, WireIsPlain
    <3> HIDE DEF t
    <3> QED
      BY <3>2 DEF Plain
  <2> HIDE DEF t
  <2>3. /\ p \in Message /\ p.kind = "Turn" /\ p.word = FALSE /\ p.ends = TRUE /\ p.formatted = FALSE
        /\ p.text = a .. b /\ p.start = at[a] - 1 /\ p.end = at[b]
    BY <2>2 DEF Message, Ending
  <2> HIDE DEF p
  <2>4. /\ m \in Message /\ m.kind = "Turn" /\ m.word = FALSE /\ m.ends = TRUE /\ m.formatted = TRUE
        /\ m.text = a .. b /\ m.start = at[a] - 1 /\ m.end = at[b]
    BY <2>3 DEF Message
  <2> HIDE DEF m
  <2>5. Quiet(p) /\ Carries(m, a, b) /\ Finalizes(m)
    BY <1>13, <2>3, <2>4 DEF Quiet, Carries, Finalizes
  <2> QED
    BY <1>3, <1>8, <2>1, <2>3, <2>4, <2>5
<1> QED
  BY <1>9, <1>10, <1>11, <1>12, <1>13 DEF Settling

(* OpenAI: the item's completion comes after its endpoint, and the deltas  *)
(* of the next item may come before it.                                    *)
LEMMA OpenAISaysFinal ==
  ASSUME NoTermination, vendor = "openai", NEW g, Speaking(g),
         NEW b \in vd.final + 1 .. Heard, NEW ms \in FinalWires(vd.final + 1, b, Heard),
         NEW d, d.final = b, d.items = vd.items + 1
  PROVE  ms \in Seq(Message) /\ \E h : Leads(vendor, Heard, finished, ms, g, h) /\ AtWork(d, h)
<1> DEFINE a == g.final + 1
           i == After(g, b)
           n == vd.items + 1
           h == WithItem(i, n, Chunks)
<1>1. /\ Told /\ g.final = vd.final /\ b \in a .. Heard /\ b \in 1 .. Heard /\ a \in 1 .. Heard
      /\ Heard \in Nat /\ Heard <= Chunks /\ Chunks \in Nat /\ g.final \in Nat /\ b \in Nat
      /\ vd.items \in Nat /\ n <= Chunks /\ g \in Views /\ ~g.over /\ Along(Heard, finished, g)
  BY FinalBounds
<1>2. g.item = vd.items /\ g.ahead = Chunks
  BY SpeakingFields
<1>3. /\ i \in Views /\ i.final = b /\ i.more = b /\ ~i.over /\ Along(Heard, finished, i)
  BY <1>1, AfterFields
<1>4. Along(Heard, finished, h) /\ AtWork(d, h)
  <2>1. n \in 0 .. Chunks /\ Chunks \in 0 .. Chunks
    BY <1>1
  <2> HIDE DEF i
  <2>2. /\ h \in Views /\ h.final = i.final /\ h.more = i.more /\ h.item = n
        /\ h.ahead = Chunks /\ h.told = i.told /\ h.over = i.over
    BY <1>3, <2>1, ItemFields
  <2> HIDE DEF h
  <2> QED
    BY <1>3, <2>2 DEF Along, AtWork, Pointing
<1> DEFINE w == Wire("final", a, b)
           t == Wire("speech_stopped", a, b)
           stopped == [t EXCEPT !.at = b]
           done == [w EXCEPT !.kind = "completed"]
           x == Wire("delta", b + 1, Heard)
           next == [x EXCEPT !.item = n]
<1>5. ms = <<stopped, done>> \/ (Heard > b /\ ms = <<stopped, next, done>>)
  BY <1>1 DEF FinalWires
<1>6. /\ done \in Message /\ done.kind = "completed" /\ done.text = a .. b /\ done.item = vd.items
  <2>1. "final" \in Kinds /\ "completed" \in Kinds
    BY DEF Kinds
  <2>2. Plain(w, "final", a, b)
    BY <1>1, <2>1, WireIsPlain
  <2> HIDE DEF w
  <2> QED
    BY <2>1, <2>2 DEF Plain, Message
<1>7. /\ stopped \in Message /\ stopped.kind = "speech_stopped" /\ stopped.at = b
  <2>1. "speech_stopped" \in Kinds
    BY DEF Kinds
  <2>2. Plain(t, "speech_stopped", a, b)
    BY <1>1, <2>1, WireIsPlain
  <2>3. b \in Int
    BY <1>1
  <2> HIDE DEF t
  <2>4. t \in Message /\ t.kind = "speech_stopped"
    BY <2>2 DEF Plain
  <2> QED
    BY <2>3, <2>4 DEF Message
<1>8. Tells(vendor, stopped, g, g)
  <2> HIDE DEF stopped
  <2> QED
    BY <1>1, <1>7, OpenAIStopped
<1>9. CASE ms = <<stopped, done>>
  <2>1. Tells(vendor, done, g, h)
    <3>1. g.ahead >= b
      BY <1>1, <1>2
    <3> HIDE DEF done
    <3> QED
      BY <1>1, <1>2, <1>6, <3>1, OpenAICompleted
  <2> HIDE DEF stopped, done, h
  <2>2. Leads(vendor, Heard, finished, ms, g, h)
    BY <1>1, <1>4, <1>8, <1>9, <2>1, TwoSteps
  <2> QED
    BY <1>4, <1>6, <1>7, <1>9, <2>2
<1>10. CASE Heard > b /\ ms = <<stopped, next, done>>
  <2> DEFINE j == WithItem(g, g.item, b)
  <2>1. b + 1 \in 1 .. Heard /\ Heard \in 1 .. Heard
    BY <1>1, <1>10
  <2>2. next \in Message /\ next.kind = "delta" /\ next.item = n /\ next.text = b + 1 .. Heard
    <3>1. "delta" \in Kinds
      BY DEF Kinds
    <3>2. Plain(x, "delta", b + 1, Heard)
      BY <1>1, <2>1, <3>1, WireIsPlain
    <3> HIDE DEF x
    <3>3. x \in Message /\ x.kind = "delta" /\ x.text = b + 1 .. Heard
      BY <3>2 DEF Plain
    <3>4. n \in Int
      BY <1>1
    <3> HIDE DEF n
    <3> QED
      BY <3>3, <3>4 DEF Message
  <2>3. Tells(vendor, next, g, j)
    <3>1. next.text \in SUBSET (b + 1 .. Chunks)
      BY <1>1, <2>2
    <3>2. b \in 0 .. Chunks /\ b >= g.final
      BY <1>1
    <3> HIDE DEF next
    <3> QED
      BY <1>1, <1>2, <2>2, <3>1, <3>2, OpenAINext
  <2>4. /\ j \in Views /\ j.final = g.final /\ j.more = g.more /\ j.time = g.time /\ j.item = g.item
        /\ j.ahead = b /\ j.told = g.told /\ ~j.over
    <3>1. g.item \in 0 .. Chunks /\ b \in 0 .. Chunks
      BY <1>1, <1>2
    <3> HIDE DEF h, i
    <3>2. j.over = g.over /\ j \in Views
      BY <1>1, <3>1, ItemFields
    <3>4. j.final = g.final
      BY DEF WithItem, Views
    <3>5. j.more = g.more /\ j.time = g.time
      BY <1>1, <3>1, ItemFields, ZenonT(60)
    <3>3. j.item = g.item /\ j.ahead = b /\ j.told = g.told
      BY <1>1, <3>1, ItemFields, ZenonT(60)
    <3> HIDE DEF j
    <3> QED
      BY <1>1, <3>2, <3>3, <3>4, <3>5
  <2> HIDE DEF j
  <2>5. Along(Heard, finished, j)
    BY <1>1, <2>4 DEF Along
  <2>6. Tells(vendor, done, j, h)
    <3>1. j.ahead >= b
      BY <1>1, <2>4
    <3> HIDE DEF done
    <3> QED
      BY <1>1, <1>2, <1>6, <2>4, <3>1, OpenAICompleted
  <2> HIDE DEF stopped, next, done, h
  <2>7. Leads(vendor, Heard, finished, ms, g, h)
    BY <1>1, <1>4, <1>8, <1>10, <2>3, <2>5, <2>6, ThreeSteps
  <2> QED
    BY <1>4, <1>6, <1>7, <1>10, <2>2, <2>7
<1> QED
  BY <1>5, <1>9, <1>10

LEMMA StartFields ==
  ASSUME Told, NEW turn \in Int, NEW a \in Int
  PROVE  /\ Starts(turn, a) \in Message /\ Starts(turn, a).kind = "speechStart"
         /\ Starts(turn, a).item = turn /\ Starts(turn, a).at \in Int
<1> DEFINE z == Wire("speechStart", a, a - 1)
           y == a - 1
           s == [z EXCEPT !.item = turn, !.at = y]
<1>1. Starts(turn, a) = s
  BY DEF Starts
<1>2. "speechStart" \in Kinds
  BY DEF Kinds
<1>3. z \in Message
  BY <1>2, WireIsMessage
<1>4. z.kind = "speechStart"
  BY DEF Wire
<1>5. y \in Int
  OBVIOUS
<1> HIDE DEF z, y
<1>6. s \in Message /\ s.kind = "speechStart" /\ s.item = turn /\ s.at \in Int
  BY <1>3, <1>4, <1>5 DEF Message
<1> HIDE DEF s
<1> QED
  BY <1>1, <1>6

(* Meta: a turn's text is final after its end, and the next turn may start *)
(* before it.                                                              *)
LEMMA MetaSaysFinal ==
  ASSUME NoTermination, vendor = "meta", NEW g, Speaking(g),
         NEW b \in vd.final + 1 .. Heard, NEW ms \in FinalWires(vd.final + 1, b, Heard),
         NEW d, d.final = b
  PROVE  ms \in Seq(Message) /\ \E h : Leads(vendor, Heard, finished, ms, g, h) /\ AtWork(d, h)
<1> DEFINE a == g.final + 1
           h == After(g, b)
           n == vd.items + 1
<1>1. /\ Told /\ g.final = vd.final /\ b \in a .. Heard /\ b \in 1 .. Heard /\ a \in 1 .. Heard
      /\ Heard \in Nat /\ Heard <= Chunks /\ Chunks \in Nat /\ g.final \in Nat /\ b \in Nat
      /\ vd.items \in Nat /\ n <= Chunks /\ g \in Views /\ ~g.over /\ Along(Heard, finished, g)
      /\ at[b] \in Nat
  BY FinalBounds
<1>2. /\ h \in Views /\ h.final = b /\ h.more = b /\ ~h.over /\ Along(Heard, finished, h)
  BY <1>1, AfterFields
<1>3. AtWork(d, h)
  <2>1. h.time = After(g, b).time
    OBVIOUS
  <2> HIDE DEF h
  <2> QED
    BY <1>1, <1>2, <2>1, AfterWorks
<1> DEFINE w == Wire("final", a, b)
           t == Wire("speechEnd", a, b)
           ended == [t EXCEPT !.at = at[b]]
           done == [w EXCEPT !.kind = "speechComplete"]
           next == Wire("transcript", b + 1, Heard)
           begin == Starts(n, b + 1)
<1>4. ms = <<ended, done>> \/ (Heard # b /\ ms = <<ended, begin, next, done>>)
  BY <1>1 DEF FinalWires
<1>5. done \in Message /\ done.kind = "speechComplete" /\ done.text = a .. b /\ done.item = vd.items
  <2>1. "final" \in Kinds /\ "speechComplete" \in Kinds
    BY DEF Kinds
  <2>2. Plain(w, "final", a, b)
    BY <1>1, <2>1, WireIsPlain
  <2> HIDE DEF w
  <2> QED
    BY <2>1, <2>2 DEF Plain, Message
<1>6. ended \in Message /\ ended.kind = "speechEnd" /\ ended.item = vd.items /\ ended.at \in Int
  <2>1. "speechEnd" \in Kinds
    BY DEF Kinds
  <2>2. Plain(t, "speechEnd", a, b)
    BY <1>1, <2>1, WireIsPlain
  <2> HIDE DEF t
  <2> QED
    BY <1>1, <2>2 DEF Plain, Message
<1>7. vd.items \in 0 .. Chunks /\ n \in 0 .. Chunks
  BY <1>1
<1>8. Tells(vendor, ended, g, g)
  <2> HIDE DEF ended
  <2> QED
    BY <1>1, <1>6, <1>7, MetaEnds DEF Meta
<1>9. Tells(vendor, done, g, h)
  <2> HIDE DEF done
  <2> QED
    BY <1>1, <1>5, <1>7, MetaCompletes DEF Meta
<1>10. CASE ms = <<ended, done>>
  <2> HIDE DEF ended, done, h
  <2>2. Leads(vendor, Heard, finished, ms, g, h)
    BY <1>1, <1>2, <1>8, <1>9, <1>10, TwoSteps
  <2> QED
    BY <1>3, <1>5, <1>6, <1>10, <2>2
<1>11. CASE Heard # b /\ ms = <<ended, begin, next, done>>
  <2>1. b + 1 \in 1 .. Heard /\ Heard \in 1 .. Heard /\ b + 1 \in Int /\ b + 1 - 1 \in Int
    BY <1>1, <1>11
  <2>2. /\ next \in Message /\ next.kind = "transcript" /\ next.text = b + 1 .. Heard
        /\ next.final = FALSE /\ next.word = FALSE
    <3>1. "transcript" \in Kinds
      BY DEF Kinds
    <3>2. Plain(next, "transcript", b + 1, Heard)
      BY <1>1, <2>1, <3>1, WireIsPlain
    <3> HIDE DEF next
    <3> QED
      BY <3>2 DEF Plain
  <2>3. Tells(vendor, next, g, g)
    <3>1. next.text \in SUBSET (g.final + 1 .. Chunks)
      BY <1>1, <2>2
    <3>2. vendor \in Dialects
      BY DEF Dialects
    <3> HIDE DEF next
    <3>3. Revises(next)
      BY <2>2 DEF Revises, Meta
    <3> QED
      BY <1>1, <2>2, <3>1, <3>2, <3>3, InterimTells
  <2>4. begin \in Message /\ begin.kind = "speechStart" /\ begin.item = n /\ begin.at \in Int
    BY <1>1, <2>1, StartFields
  <2>5. Tells(vendor, begin, g, g)
    <3> HIDE DEF begin
    <3> QED
      BY <1>1, <1>7, <2>4, MetaStarts DEF Meta
  <2> HIDE DEF ended, done, next, begin, h
  <2>6. Leads(vendor, Heard, finished, ms, g, h)
    BY <1>1, <1>2, <1>8, <1>9, <1>11, <2>3, <2>5, FourSteps
  <2> QED
    BY <1>3, <1>5, <1>6, <1>11, <2>2, <2>4, <2>6
<1> QED
  BY <1>4, <1>10, <1>11

(* Push-to-talk: the final, its speechComplete, or both.                   *)
LEMMA PushToTalkSaysFinal ==
  ASSUME NoTermination, vendor = "meta_ptt", vd.final = 0, NEW g, Speaking(g),
         NEW b \in vd.final + 1 .. Heard, NEW ms \in FinalWires(vd.final + 1, b, Heard),
         NEW d, d.final = b
  PROVE  ms \in Seq(Message) /\ \E h : Leads(vendor, Heard, finished, ms, g, h) /\ AtWork(d, h)
<1> DEFINE a == g.final + 1
           i == After(g, b)
           h == Seen(i)
<1>1. /\ Told /\ g.final = vd.final /\ b \in a .. Heard /\ b \in 1 .. Heard /\ a \in 1 .. Heard
      /\ Heard \in Nat /\ Heard <= Chunks /\ Chunks \in Nat /\ g.final \in Nat /\ b \in Nat
      /\ vd.items \in Nat /\ vd.items + 1 <= Chunks /\ g \in Views /\ ~g.over
      /\ Along(Heard, finished, g)
  BY FinalBounds
<1>2. ~g.seen
  BY SpeakingFields
<1>3. /\ i \in Views /\ i.final = b /\ i.more = b /\ ~i.over /\ Along(Heard, finished, i)
  BY <1>1, AfterFields
<1>4. AtWork(d, i)
  <2>1. i.time = After(g, b).time
    OBVIOUS
  <2> HIDE DEF i
  <2> QED
    BY <1>1, <1>3, <2>1, AfterWorks
<1>5. h \in Views /\ h.seen = TRUE /\ ~h.over /\ Along(Heard, finished, h) /\ AtWork(d, h)
  <2> DEFINE u == i.time
  <2>1. u = After(g, b).time
    OBVIOUS
  <2> HIDE DEF i, u
  <2>2. /\ h \in Views /\ h.final = i.final /\ h.more = i.more /\ h.time = i.time
        /\ h.seen = TRUE /\ h.told = i.told /\ h.over = i.over
    BY <1>3, SeenFields
  <2>3. h.time = After(g, b).time
    BY <2>1, <2>2 DEF u
  <2> HIDE DEF h
  <2>4. Along(Heard, finished, h)
    BY <1>3, <2>2 DEF Along
  <2>5. AtWork(d, h)
    BY <1>1, <1>3, <2>2, <2>3, AfterWorks
  <2> QED
    BY <1>3, <2>2, <2>4, <2>5
<1> DEFINE w == Wire("final", a, b)
           said == [Finally(w) EXCEPT !.kind = "transcript"]
           done == [w EXCEPT !.kind = "speechComplete"]
<1>6. ms = <<said>> \/ ms = <<said, done>> \/ ms = <<done>>
  BY <1>1 DEF FinalWires
<1>7. /\ done \in Message /\ done.kind = "speechComplete" /\ done.text = a .. b /\ done.item = vd.items
      /\ said \in Message /\ said.kind = "transcript" /\ said.final = TRUE /\ said.text = a .. b
  <2>1. "final" \in Kinds /\ "speechComplete" \in Kinds /\ "transcript" \in Kinds
    BY DEF Kinds
  <2>2. Plain(w, "final", a, b)
    BY <1>1, <2>1, WireIsPlain
  <2> HIDE DEF w
  <2> QED
    BY <2>1, <2>2 DEF Plain, Message, Finally
<1>8. vd.items \in 0 .. Chunks
  BY <1>1
<1>9. Tells(vendor, said, g, h)
  <2> HIDE DEF said
  <2> QED
    BY <1>1, <1>7, MetaSaid
<1>10. Tells(vendor, done, h, h)
  <2> HIDE DEF done, h
  <2> QED
    BY <1>5, <1>7, <1>8, MetaRepeats
<1>11. Tells(vendor, done, g, i)
  <2> HIDE DEF done
  <2> QED
    BY <1>1, <1>2, <1>7, <1>8, MetaCompletes DEF Meta
<1> HIDE DEF said, done, h, i
<1>12. CASE ms = <<said>>
  BY <1>1, <1>5, <1>7, <1>9, <1>12, OneStep
<1>13. CASE ms = <<done>>
  BY <1>1, <1>3, <1>4, <1>7, <1>11, <1>13, OneStep
<1>14. CASE ms = <<said, done>>
  <2>1. Leads(vendor, Heard, finished, ms, g, h)
    BY <1>1, <1>5, <1>9, <1>10, <1>14, TwoSteps
  <2> QED
    BY <1>5, <1>7, <1>14, <2>1
<1> QED
  BY <1>6, <1>12, <1>13, <1>14

----------------------------------------------------------------------------
(* The story goes on: what the vendor says leads from where it had come.   *)
LEMMA StillMatches ==
  ASSUME NEW d, NEW g, vd' = d, UNCHANGED <<vendor, at>>, Matches(d, g)
  PROVE  Matches(vd, g)'
BY DEF Matches, AtWork, TimeOf

LEMMA StoryGoesOn ==
  ASSUME Told, Attentive, StoryInv, ~vd.bye, NEW d, vd' = d, NEW ms,
         down' = down \o ms, UNCHANGED <<vendor, at, finished, st, out, reader>>,
         \A g : Speaking(g) =>
           /\ ms \in Seq(Message)
           /\ \E h : Leads(vendor, Heard, finished, ms, g, h) /\ Matches(d, h)
  PROVE  StoryInv' /\ down' \in Seq(Message)
<1>1. PICK g, i : /\ Leads(vendor, Len(at), finished, down, g, i)
                  /\ Knows(vendor, g, st) /\ ~g.over /\ UpTo(vendor, out, g) /\ Matches(vd, i)
  BY DEF StoryInv
<1>2. down \in Seq(Message)
  BY DEF Told, VendorInv
<1>3. Speaking(i)
  <2>1. Along(Len(at), finished, i)
    BY <1>1, <1>2, LeadsInto
  <2>2. AtWork(vd, i)
    BY <1>1 DEF Matches
  <2> QED
    BY <2>1, <2>2 DEF Speaking, Heard
<1>4. PICK h : ms \in Seq(Message) /\ Leads(vendor, Len(at), finished, ms, i, h) /\ Matches(d, h)
  BY <1>3 DEF Heard
<1>5. Leads(vendor, Len(at), finished, down \o ms, g, h)
  BY <1>1, <1>2, <1>4, Onward
<1>6. Leads(vendor, Len(at), finished, down, g, h)'
  BY <1>5
<1>7. Matches(vd, h)'
  BY <1>4, StillMatches
<1>8. Knows(vendor, g, st)' /\ UpTo(vendor, out, g)'
  BY <1>1
<1>9. down' \in Seq(Message)
  BY <1>2, <1>4
<1> QED
  BY <1>1, <1>6, <1>7, <1>8, <1>9 DEF StoryInv

LEMMA AtWorkMatches ==
  ASSUME NEW d, NEW h, AtWork(d, h), ~d.bye, ~d.broke
  PROVE  Matches(d, h)
BY DEF Matches, AtWork, Pointing

LEMMA FinalTold ==
  ASSUME NoTermination, Told, Attentive, StoryInv, SaysFinal
  PROVE  StoryInv' /\ down' \in Seq(Message)
<1>0. PICK b \in vd.final + 1 .. Heard :
        /\ vendor = "xai" => b >= vd.locked
        /\ \E ms \in FinalWires(vd.final + 1, b, Heard) :
             /\ down' = down \o ms
             /\ vd' = [vd EXCEPT !.final = b, !.items = @ + 1,
                                 !.prov = IF vendor \in {"openai", "meta"} /\ Len(ms) > 2
                                          THEN Heard ELSE b]
  BY DEF SaysFinal
<1>1. PICK ms \in FinalWires(vd.final + 1, b, Heard) :
        /\ down' = down \o ms
        /\ vd' = [vd EXCEPT !.final = b, !.items = @ + 1,
                            !.prov = IF vendor \in {"openai", "meta"} /\ Len(ms) > 2
                                     THEN Heard ELSE b]
  BY <1>0
<1> DEFINE n == IF vendor \in {"openai", "meta"} /\ Len(ms) > 2 THEN Heard ELSE b
           d == [vd EXCEPT !.final = b, !.items = @ + 1, !.prov = n]
<1>2. /\ ~vd.bye /\ UNCHANGED <<vendor, at, finished, st, out, reader>> /\ vd' = d
  BY <1>1 DEF SaysFinal, Listens, adapterVars
<1>3. vd \in VendorType /\ ~vd.broke
  BY <1>2 DEF Told, VendorInv
<1> HIDE DEF n
<1>4. /\ d.final = b /\ d.items = vd.items + 1 /\ d.locked = vd.locked /\ d.prov = n
      /\ d.bye = vd.bye /\ d.broke = vd.broke
  BY <1>3 DEF VendorType
<1>5. vendor = "flux" => d.prov = b
  BY <1>4 DEF n
<1>6. vendor = "meta_ptt" => vd.final = 0
  <2>1. vd.final < Heard
    <3>1. vd.final \in Nat /\ Heard \in Nat
      BY Hearing
    <3> QED
      BY <3>1
  <2> QED
    BY <2>1 DEF Told, VendorInv, Heard
<1> HIDE DEF d
<1>7. ASSUME NEW g, Speaking(g)
      PROVE  ms \in Seq(Message) /\ \E h : Leads(vendor, Heard, finished, ms, g, h) /\ AtWork(d, h)
  <2>1. vendor \in Dialects
    BY Hearing
  <2>2. CASE vendor \in Settling \cup {"assemblyai"}
    BY <1>4, <1>5, <1>7, <2>2, PlainSaysFinal
  <2>3. CASE vendor = "soniox"
    BY <1>4, <1>7, <2>3, SonioxSaysFinal
  <2>4. CASE vendor = "xai"
    BY <1>0, <1>4, <1>7, <2>4, XaiSaysFinal
  <2>5. CASE vendor = "openai"
    BY <1>4, <1>7, <2>5, OpenAISaysFinal
  <2>6. CASE vendor = "meta"
    BY <1>4, <1>7, <2>6, MetaSaysFinal
  <2>7. CASE vendor = "meta_ptt"
    BY <1>4, <1>6, <1>7, <2>7, PushToTalkSaysFinal
  <2> QED
    BY <2>1, <2>2, <2>3, <2>4, <2>5, <2>6, <2>7 DEF Dialects, Settling
<1>8. ASSUME NEW g, Speaking(g)
      PROVE  ms \in Seq(Message) /\ \E h : Leads(vendor, Heard, finished, ms, g, h) /\ Matches(d, h)
  BY <1>2, <1>3, <1>4, <1>7, <1>8, AtWorkMatches
<1> QED
  BY <1>1, <1>2, <1>8, StoryGoesOn

(* What is provisional.                                                    *)
LEMMA StillWorks ==
  ASSUME NEW g, Speaking(g), NEW d, d.final = vd.final, d.items = vd.items,
         vendor = "xai" => d.locked = vd.locked, vendor = "flux" => d.prov = vd.prov
  PROVE  AtWork(d, g)
BY DEF Speaking, AtWork

LEMMA InterimBounds ==
  ASSUME NEW g, Speaking(g), Heard > vd.prov, vendor # "soniox"
  PROVE  /\ Told /\ g.final = vd.final /\ vd.final + 1 \in 1 .. Heard /\ Heard \in 1 .. Heard
         /\ Heard \in Nat /\ Heard <= Chunks /\ Chunks \in Nat /\ g.final \in Nat
         /\ vd.prov + 1 \in 1 .. Heard /\ vd.prov >= vd.final /\ vd.items \in 0 .. Chunks
         /\ g \in Views /\ ~g.over /\ Along(Heard, finished, g) /\ vendor \in Dialects
         /\ g.final < Heard
<1>1. /\ Told /\ g.final = vd.final /\ g \in Views /\ ~g.over /\ Along(Heard, finished, g) /\ ~vd.bye
      /\ g.final \in Nat
  BY SpeakingFields
<1>2. /\ Heard \in Nat /\ Heard <= Chunks /\ vendor \in Dialects /\ Chunks \in Nat
      /\ vd.final \in Nat /\ vd.prov \in Nat /\ vd.items \in Nat /\ vd.items <= vd.final
      /\ vd.final <= Heard
  BY <1>1, Hearing, NaturalChunks
<1>3. vd.prov >= vd.final
  BY <1>1, <1>2 DEF Told, VendorInv
<1> QED
  BY <1>1, <1>2, <1>3

(* the vendors whose interim is one message with all of its words          *)
Revising == {"deepgram", "assemblyai", "elevenlabs", "cartesia", "turns", "aws", "speechmatics",
             "azure", "palabra", "meta_ptt"}

LEMMA PlainSaysPartial ==
  ASSUME NoTermination, vendor \in Revising \cup {"flux"}, NEW g, Speaking(g), Heard > vd.prov,
         NEW ms \in Provisionals(vd.final + 1, Heard),
         NEW d, d.final = vd.final, d.items = vd.items, d.prov = Heard
  PROVE  ms \in Seq(Message) /\ \E h : Leads(vendor, Heard, finished, ms, g, h) /\ AtWork(d, h)
<1> DEFINE a == vd.final + 1
           m == Wire(Names[vendor], a, Heard)
<1>1. /\ Told /\ g.final = vd.final /\ a \in 1 .. Heard /\ Heard \in 1 .. Heard
      /\ Heard \in Nat /\ Heard <= Chunks /\ Chunks \in Nat /\ g.final \in Nat
      /\ g \in Views /\ ~g.over /\ Along(Heard, finished, g) /\ vendor \in Dialects
      /\ g.final < Heard
  BY InterimBounds DEF Revising
<1>2. ms = <<m>>
  BY DEF Provisionals, Revising
<1>3. Names[vendor] \in Kinds
  BY DEF Names, Kinds, Revising
<1>4. Plain(m, Names[vendor], a, Heard)
  BY <1>1, <1>3, WireIsPlain
<1> HIDE DEF m
<1>5. /\ m \in Message /\ m.kind = Names[vendor] /\ m.text = a .. Heard /\ m.start = at[a] - 1
      /\ m.end = at[Heard] /\ m.word = FALSE /\ m.final = FALSE /\ m.ends = FALSE
  BY <1>4 DEF Plain
<1>6. CASE vendor \in Revising
  <2>1. Revises(m)
    BY <1>5, <1>6 DEF Revises, Names, Revising, Meta
  <2>2. m.text \in SUBSET (g.final + 1 .. Chunks)
    BY <1>1, <1>5
  <2>3. Tells(vendor, m, g, g)
    BY <1>1, <1>5, <2>1, <2>2, InterimTells
  <2>4. AtWork(d, g)
    BY <1>6, StillWorks DEF Revising
  <2> QED
    BY <1>1, <1>2, <1>5, <2>3, <2>4, OneStep
<1>7. CASE vendor = "flux"
  <2> DEFINE h == WithMore(g, Heard)
  <2>1. m.kind = "TurnInfo"
    BY <1>5, <1>7 DEF Names
  <2>2. Carries(m, g.final + 1, Heard)
    BY <1>1, <1>5 DEF Carries
  <2>3. Tells(vendor, m, g, h)
    BY <1>1, <1>5, <1>7, <2>1, <2>2, FluxUpdate
  <2>4. Heard \in 0 .. Chunks
    BY <1>1
  <2>5. /\ h \in Views /\ h.final = g.final /\ h.more = Heard /\ h.time = g.time
        /\ h.told = g.told /\ h.over = g.over
    BY <1>1, <2>4, MoreFields
  <2> HIDE DEF h
  <2>6. Along(Heard, finished, h)
    BY <1>1, <2>5 DEF Along
  <2>7. g.time <= TimeOf(g.final)
    BY <1>7, SpeakingFields DEF Pointing
  <2>8. AtWork(d, h)
    BY <1>1, <1>7, <2>5, <2>7 DEF AtWork
  <2> QED
    BY <1>1, <1>2, <1>5, <2>3, <2>6, <2>8, OneStep
<1> QED
  BY <1>6, <1>7

(* Soniox: the tokens that are not final                                   *)
LEMMA SonioxSaysPartial ==
  ASSUME vendor = "soniox", NEW g, Speaking(g), Heard > vd.final,
         NEW ms \in Provisionals(vd.final + 1, Heard), NEW d, d.final = vd.final
  PROVE  ms \in Seq(Message) /\ \E h : Leads(vendor, Heard, finished, ms, g, h) /\ AtWork(d, h)
<1> DEFINE w == Wire("tokens", 0, -1)
           m == Tokens({}, vd.final + 1 .. Heard)
<1>1. ms = <<m>>
  BY DEF Provisionals
<1>2. Told /\ vd.final \in Nat /\ Heard \in Nat /\ Heard <= Chunks
  BY SpeakingFields, Hearing
<1>3. w \in Message /\ w.kind = "tokens" /\ w.finished = FALSE /\ w.ends = FALSE
  <2>0. "tokens" \in Kinds
    BY DEF Kinds
  <2>1. w \in Message
    BY <1>2, <2>0, WireIsMessage
  <2> QED
    BY <2>1 DEF Wire
<1> HIDE DEF w
<1>4. m = [w EXCEPT !.fin = {}, !.non = vd.final + 1 .. Heard]
  BY DEF Tokens, w
<1>5. vd.final + 1 .. Heard \in SUBSET Int /\ {} \in SUBSET Int
  OBVIOUS
<1>6. /\ m \in Message /\ m.kind = "tokens" /\ m.finished = FALSE /\ m.fin = {}
      /\ m.non = vd.final + 1 .. Heard /\ m.ends = FALSE
  BY <1>3, <1>4, <1>5 DEF Message
<1> HIDE DEF m
<1>7. g \in Views /\ ~g.over /\ g.final <= g.more /\ g.time <= g.final /\ g.more = vd.final
      /\ g.final \in Nat /\ g.time \in Nat
  BY SpeakingFields DEF Pointing
<1>8. g.more \in g.more .. Chunks /\ Heard \in g.more .. Chunks /\ Chunks \in Nat
  BY <1>2, <1>7, NaturalChunks
<1>9. m.non # {}
  <2>1. Heard \in m.non
    BY <1>2, <1>6
  <2> QED
    BY <2>1
<1>10. SonioxTokens(g, g.more, Heard, m)
  <2>1. {c \in m.fin : g.more = 0 \/ c - 1 >= g.more} = g.more + 1 .. g.more
    BY <1>2, <1>6, <1>7
  <2>2. m.non = g.more + 1 .. Heard
    BY <1>6, <1>7
  <2> QED
    BY <1>6, <1>9, <2>1, <2>2 DEF SonioxTokens
<1> DEFINE h == SonioxView(g, g.more, m)
<1>11. Tells(vendor, m, g, h)
  BY <1>7, <1>8, <1>10, SonioxTells
<1>12. ~SonioxFlushes(m)
  BY <1>6, <1>9 DEF SonioxFlushes
<1>13. h \in Views /\ h.final = g.final /\ h.more = g.more /\ h.time = g.time /\ h.told = g.told /\ ~h.over
  <2>1. m.finished \in BOOLEAN
    BY <1>6
  <2>2. h \in Views /\ h.final = g.final /\ h.more = g.more
    BY <1>7, <1>8, <1>12, <2>1, SonioxFields
  <2>3. h.time = g.time
    BY <1>7, <1>8, <1>12, <2>1, SonioxFields
  <2>4. h.told = (g.told \/ m.finished) /\ h.over = m.finished
    BY <1>7, <1>8, <2>1, SonioxFields
  <2>5. g.told \in BOOLEAN
    BY <1>7, ViewFields
  <2> HIDE DEF h
  <2> QED
    BY <1>6, <2>2, <2>3, <2>4, <2>5
<1> HIDE DEF h
<1>14. Along(Heard, finished, g) /\ Along(Heard, finished, h)
  BY <1>13, SpeakingFields DEF Along
<1>15. AtWork(d, h)
  BY <1>7, <1>13, SpeakingFields DEF AtWork, Pointing
<1> QED
  BY <1>1, <1>6, <1>11, <1>14, <1>15, OneStep

(* the deltas of OpenAI and Mistral, and a turn of Meta                    *)
LEMMA DeltaSaysPartial ==
  ASSUME NoTermination, vendor \in {"openai", "mistral", "meta"}, NEW g, Speaking(g), Heard > vd.prov,
         NEW ms \in Provisionals(vd.final + 1, Heard),
         NEW d, d.final = vd.final, d.items = vd.items
  PROVE  ms \in Seq(Message) /\ \E h : Leads(vendor, Heard, finished, ms, g, h) /\ AtWork(d, h)
<1> DEFINE a == vd.final + 1
           m == Wire("delta", vd.prov + 1, Heard)
           w == Wire("transcript", a, Heard)
           s == Starts(vd.items, a)
<1>1. /\ Told /\ g.final = vd.final /\ a \in 1 .. Heard /\ Heard \in 1 .. Heard
      /\ Heard \in Nat /\ Heard <= Chunks /\ Chunks \in Nat /\ g.final \in Nat
      /\ vd.prov + 1 \in 1 .. Heard /\ vd.prov >= vd.final /\ vd.items \in 0 .. Chunks
      /\ g \in Views /\ ~g.over /\ Along(Heard, finished, g) /\ vendor \in Dialects
  BY InterimBounds
<1>2. AtWork(d, g)
  BY StillWorks
<1>3. CASE vendor # "meta"
  <2>1. ms = <<m>>
    BY <1>3 DEF Provisionals
  <2>2. "delta" \in Kinds
    BY DEF Kinds
  <2>3. Plain(m, "delta", vd.prov + 1, Heard)
    BY <1>1, <2>2, WireIsPlain
  <2> HIDE DEF m
  <2>4. m \in Message /\ m.kind = "delta" /\ m.text = vd.prov + 1 .. Heard /\ m.item = vd.items
    BY <2>3 DEF Plain
  <2>5. m.text \in SUBSET (g.final + 1 .. Chunks)
    <3>1. vd.prov \in Nat
      BY <1>1, Hearing
    <3> QED
      BY <1>1, <2>4, <3>1
  <2>6. Tells(vendor, m, g, g)
    <3>1. CASE vendor = "openai"
      <4>1. m.item = g.item
        BY <2>4, <3>1, SpeakingFields
      <4> QED
        BY <1>1, <2>4, <2>5, <3>1, <4>1, OpenAIDelta
    <3>2. CASE vendor = "mistral"
      BY <1>1, <2>4, <2>5, <3>2, MistralDelta
    <3> QED
      BY <1>3, <3>1, <3>2
  <2> QED
    BY <1>1, <1>2, <2>1, <2>4, <2>6, OneStep
<1>4. CASE vendor = "meta"
  <2>1. ms = <<w>> \/ ms = <<s, w>>
    BY <1>4 DEF Provisionals
  <2>2. "transcript" \in Kinds
    BY DEF Kinds
  <2>3. Plain(w, "transcript", a, Heard)
    BY <1>1, <2>2, WireIsPlain
  <2> HIDE DEF w
  <2>4. /\ w \in Message /\ w.kind = "transcript" /\ w.text = a .. Heard
        /\ w.final = FALSE /\ w.word = FALSE
    BY <2>3 DEF Plain
  <2>5. w.text \in SUBSET (g.final + 1 .. Chunks)
    BY <1>1, <2>4
  <2>6. Revises(w)
    BY <1>4, <2>4 DEF Revises, Meta
  <2>7. Tells(vendor, w, g, g)
    BY <1>1, <2>4, <2>5, <2>6, InterimTells
  <2>8. s \in Message /\ s.kind = "speechStart" /\ s.item = vd.items /\ s.at \in Int
    <3>1. vd.items \in Int /\ a \in Int
      BY <1>1
    <3> QED
      BY <1>1, <3>1, StartFields
  <2> HIDE DEF s
  <2>9. Tells(vendor, s, g, g)
    BY <1>1, <1>4, <2>8, MetaStarts DEF Meta
  <2>10. CASE ms = <<w>>
    BY <1>1, <1>2, <2>4, <2>7, <2>10, OneStep
  <2>11. CASE ms = <<s, w>>
    <3>1. Leads(vendor, Heard, finished, ms, g, g)
      BY <1>1, <2>7, <2>9, <2>11, TwoSteps
    <3> QED
      BY <1>2, <2>4, <2>8, <2>11, <3>1
  <2> QED
    BY <2>1, <2>10, <2>11
<1> QED
  BY <1>3, <1>4

LEMMA PartialTold ==
  ASSUME NoTermination, Told, Attentive, StoryInv, SaysPartial
  PROVE  StoryInv' /\ down' \in Seq(Message)
<1>1. PICK ms \in Provisionals(vd.final + 1, Heard) : down' = down \o ms
  BY DEF SaysPartial
<1> DEFINE d == [vd EXCEPT !.prov = Heard]
<1>2. /\ ~vd.bye /\ UNCHANGED <<vendor, at, finished, st, out, reader>> /\ vd' = d
      /\ Heard > vd.prov /\ vendor # "telnyx"
  BY DEF SaysPartial, Listens, adapterVars
<1>3. vd \in VendorType /\ ~vd.broke /\ vd.final <= vd.prov
  BY <1>2 DEF Told, VendorInv
<1>4. /\ d.final = vd.final /\ d.items = vd.items /\ d.locked = vd.locked /\ d.prov = Heard
      /\ d.bye = vd.bye /\ d.broke = vd.broke
  BY <1>3 DEF VendorType
<1>5. Heard > vd.final /\ vendor \in Dialects
  BY <1>2, <1>3, Hearing
<1> HIDE DEF d
<1>6. ASSUME NEW g, Speaking(g)
      PROVE  ms \in Seq(Message) /\ \E h : Leads(vendor, Heard, finished, ms, g, h) /\ AtWork(d, h)
  <2>1. CASE vendor \in Revising \cup {"flux"}
    BY <1>2, <1>4, <1>6, <2>1, PlainSaysPartial
  <2>2. CASE vendor = "soniox"
    BY <1>4, <1>5, <1>6, <2>2, SonioxSaysPartial
  <2>3. CASE vendor \in {"openai", "mistral", "meta"}
    BY <1>2, <1>4, <1>6, <2>3, DeltaSaysPartial
  <2>4. CASE vendor = "xai"
    <3>1. PICK w \in Since("transcript.partial", vd.final + 1, Heard) : ms = <<w>>
      BY <2>4 DEF Provisionals
    <3> DEFINE m == [w EXCEPT !.locks = FALSE]
    <3>2. m \in Message /\ \E h : Leads(vendor, Heard, finished, <<m>>, g, h) /\ AtWork(d, h)
      BY <1>4, <1>5, <1>6, <2>4, <3>1, XaiSaysInterim
    <3>3. w \in Message /\ w.locks = FALSE
      <4>1. Heard \in vd.final + 1 .. Heard /\ Heard >= vd.locked
        BY <1>5, <1>6, SpeakingFields, Hearing
      <4> QED
        BY <1>6, <2>4, <3>1, <4>1, SinceAbout
    <3>4. m = w
      BY <3>3 DEF Message
    <3> HIDE DEF m
    <3>5. ms = <<m>> /\ ms \in Seq(Message)
      BY <3>1, <3>3, <3>4
    <3> QED
      BY <3>2, <3>5
  <2> QED
    BY <1>2, <1>5, <2>1, <2>2, <2>3, <2>4 DEF Dialects, Revising
<1>7. ASSUME NEW g, Speaking(g)
      PROVE  ms \in Seq(Message) /\ \E h : Leads(vendor, Heard, finished, ms, g, h) /\ Matches(d, h)
  BY <1>2, <1>3, <1>4, <1>6, <1>7, AtWorkMatches
<1> QED
  BY <1>1, <1>2, <1>7, StoryGoesOn

(* One message m, which takes any view at work to one still at work.       *)
LEMMA OneMessageTold ==
  ASSUME Told, Attentive, StoryInv, ~vd.bye, NEW d, vd' = d, NEW m \in Message,
         down' = Append(down, m), UNCHANGED <<vendor, at, finished, st, out, reader>>,
         \A g : Speaking(g) => \E h : Leads(vendor, Heard, finished, <<m>>, g, h) /\ Matches(d, h)
  PROVE  StoryInv' /\ down' \in Seq(Message)
<1>1. down' = down \o <<m>> /\ <<m>> \in Seq(Message)
  <2>1. down \in Seq(Message)
    BY DEF Told, VendorInv
  <2> QED
    BY <2>1
<1>2. ASSUME NEW g, Speaking(g)
      PROVE  /\ <<m>> \in Seq(Message)
             /\ \E h : Leads(vendor, Heard, finished, <<m>>, g, h) /\ Matches(d, h)
  BY <1>1, <1>2
<1> QED
  BY <1>1, <1>2, StoryGoesOn

LEMMA LocksTold ==
  ASSUME Told, Attentive, StoryInv, Locks
  PROVE  StoryInv' /\ down' \in Seq(Message)
<1>1. PICK w \in Since("transcript.partial", vd.final + 1, Heard) :
        down' = Append(down, [w EXCEPT !.locks = TRUE])
  BY DEF Locks
<1> DEFINE d == [vd EXCEPT !.locked = Heard]
           m == [w EXCEPT !.locks = TRUE]
<1>2. /\ ~vd.bye /\ UNCHANGED <<vendor, at, finished, st, out, reader>> /\ vd' = d
      /\ Heard > vd.final /\ vendor = "xai"
  BY DEF Locks, Listens, adapterVars
<1>3. vd \in VendorType /\ ~vd.broke
  BY <1>2 DEF Told, VendorInv
<1>4. d.final = vd.final /\ d.locked = Heard /\ d.bye = vd.bye /\ d.broke = vd.broke
  BY <1>3 DEF VendorType
<1>5. w \in Message
  <2>1. PICK from \in {vd.final + 1} \cup {c \in {vd.locked + 1} : vd.locked >= vd.final + 1} :
          w = [Wire("transcript.partial", from, Heard)
                 EXCEPT !.start = IF from > Heard THEN at[Heard] ELSE @]
    BY <1>1 DEF Since
  <2>2. from \in Int /\ Heard \in Int /\ Heard \in 1 .. Heard /\ at[Heard] \in Int
    BY <1>2, <2>1, Hearing
  <2> DEFINE z == Wire("transcript.partial", from, Heard)
             y == IF from > Heard THEN at[Heard] ELSE z.start
  <2>3. z \in Message
    <3>1. "transcript.partial" \in Kinds
      BY DEF Kinds
    <3> QED
      BY <2>2, <3>1, WireIsMessage
  <2> HIDE DEF z
  <2>4. y \in Int
    BY <2>2, <2>3 DEF Message
  <2>5. w = [z EXCEPT !.start = y]
    BY <2>1 DEF z
  <2> HIDE DEF y
  <2> QED
    BY <2>3, <2>4, <2>5 DEF Message
<1>6. m \in Message
  BY <1>5 DEF Message
<1> HIDE DEF d
<1>7. ASSUME NEW g, Speaking(g)
      PROVE  \E h : Leads(vendor, Heard, finished, <<m>>, g, h) /\ Matches(d, h)
  <2>1. \E h : Leads(vendor, Heard, finished, <<m>>, g, h) /\ AtWork(d, h)
    BY <1>1, <1>2, <1>4, <1>7, XaiSaysInterim
  <2> QED
    BY <1>2, <1>3, <1>4, <2>1, AtWorkMatches
<1>8. down' = Append(down, m)
  BY <1>1
<1> HIDE DEF m
<1> QED
  BY <1>2, <1>6, <1>7, <1>8, OneMessageTold

(* The messages without words.                                             *)
LEMMA BlankFields ==
  ASSUME Told, NoTermination, NEW kind \in Kinds
  PROVE  LET m == Wire(kind, 0, -1)
         IN /\ m \in Message /\ m.kind = kind /\ m.word = FALSE /\ m.at = vd.final /\ m.seq_no = Heard
<1> DEFINE m == Wire(kind, 0, -1)
<1>1. m \in Message
  BY WireIsMessage
<1>2. vendor = "assemblyai" => Termination = {}
  BY DEF NoTermination, Told, ControlTypes
<1>3. m.word = FALSE
  BY <1>2 DEF Wire
<1>4. m.kind = kind /\ m.at = vd.final /\ m.seq_no = Heard
  BY DEF Wire
<1> QED
  BY <1>1, <1>3, <1>4

LEMMA EndpointTold ==
  ASSUME NoTermination, Told, Attentive, StoryInv, SaysEndpoint
  PROVE  StoryInv' /\ down' \in Seq(Message)
<1> DEFINE k == IF vendor = "deepgram" THEN "UtteranceEnd" ELSE "EndOfUtterance"
           m == Wire(k, 0, -1)
           d == [vd EXCEPT !.pointed = vd.final]
<1>1. /\ ~vd.bye /\ UNCHANGED <<vendor, at, finished, st, out, reader>> /\ vd' = d
      /\ vendor \in {"deepgram", "speechmatics"} /\ down' = Append(down, m)
  BY DEF SaysEndpoint, Listens, adapterVars
<1>2. vd \in VendorType /\ ~vd.broke
  BY <1>1 DEF Told, VendorInv
<1>3. d.final = vd.final /\ d.items = vd.items /\ d.bye = vd.bye /\ d.broke = vd.broke
  BY <1>2 DEF VendorType
<1>4. k \in Kinds
  BY DEF Kinds
<1>5. m \in Message /\ m.kind = k /\ m.at = vd.final
  BY <1>4, BlankFields
<1> HIDE DEF d, m
<1>6. ASSUME NEW g, Speaking(g)
      PROVE  \E h : Leads(vendor, Heard, finished, <<m>>, g, h) /\ Matches(d, h)
  <2> DEFINE h == Later(g, g.final)
  <2>1. /\ g \in Views /\ ~g.over /\ g.time <= g.final /\ g.final = vd.final /\ g.final \in Nat
        /\ Along(Heard, finished, g) /\ Told /\ g.final <= Heard
    BY <1>1, <1>6, SpeakingFields DEF Pointing
  <2>2. Tells(vendor, m, g, h)
    BY <1>1, <1>5, <2>1, EndpointTells
  <2>3. /\ h \in Views /\ h.final = g.final /\ h.more = g.more /\ h.time = g.final
        /\ h.told = g.told /\ h.over = g.over
    BY <2>1, LaterFields
  <2> HIDE DEF h
  <2>4. Along(Heard, finished, h)
    BY <2>1, <2>3 DEF Along
  <2>5. TimeOf(g.final) = g.final
    <3>1. g.final \in 0 .. Heard
      BY <2>1
    <3> QED
      BY <1>1, <2>1, <3>1, TimeFields
  <2>6. AtWork(d, h)
    BY <1>1, <1>3, <2>1, <2>3, <2>5 DEF AtWork
  <2>7. Matches(d, h)
    BY <1>1, <1>2, <1>3, <2>6, AtWorkMatches
  <2> QED
    BY <2>1, <2>2, <2>4, <2>7, OneStep
<1> QED
  BY <1>1, <1>5, <1>6, OneMessageTold

(* a message that tells nothing, and leaves what the views depend on       *)
LEMMA NothingTold ==
  ASSUME Told, Attentive, StoryInv, ~vd.bye, NEW m \in Message, down' = Append(down, m),
         UNCHANGED <<vendor, at, finished, st, out, reader>>, NEW d, vd' = d,
         d.final = vd.final, d.items = vd.items, d.locked = vd.locked, d.prov = vd.prov,
         d.bye = FALSE, d.broke = FALSE,
         \A g \in Views : ~g.over => Tells(vendor, m, g, g)
  PROVE  StoryInv' /\ down' \in Seq(Message)
<1>1. ASSUME NEW g, Speaking(g)
      PROVE  \E h : Leads(vendor, Heard, finished, <<m>>, g, h) /\ Matches(d, h)
  <2>1. g \in Views /\ ~g.over /\ Along(Heard, finished, g)
    BY <1>1, SpeakingFields
  <2>2. AtWork(d, g)
    BY <1>1, StillWorks
  <2>3. Matches(d, g)
    BY <2>2, AtWorkMatches
  <2> QED
    BY <2>1, <2>3, OneStep
<1> QED
  BY <1>1, OneMessageTold

LEMMA AckTold ==
  ASSUME NoTermination, Told, Attentive, StoryInv, Acknowledges
  PROVE  StoryInv' /\ down' \in Seq(Message)
<1> DEFINE m == Wire("AudioAdded", 0, -1)
           d == [vd EXCEPT !.acked = Heard]
<1>1. /\ ~vd.bye /\ UNCHANGED <<vendor, at, finished, st, out, reader>> /\ vd' = d
      /\ vendor = "speechmatics" /\ down' = Append(down, m)
  BY DEF Acknowledges, Listens, adapterVars
<1>2. vd \in VendorType /\ ~vd.broke
  BY <1>1 DEF Told, VendorInv
<1>3. /\ d.final = vd.final /\ d.items = vd.items /\ d.locked = vd.locked /\ d.prov = vd.prov
      /\ d.bye = FALSE /\ d.broke = FALSE
  BY <1>1, <1>2 DEF VendorType
<1>4. "AudioAdded" \in Kinds
  BY DEF Kinds
<1>5. m \in Message /\ m.kind = "AudioAdded" /\ m.seq_no = Heard
  BY <1>4, BlankFields
<1>6. Heard \in Nat
  BY Hearing
<1> HIDE DEF d, m
<1>7. \A g \in Views : ~g.over => Tells(vendor, m, g, g)
  BY <1>1, <1>5, <1>6, AckTells
<1> QED
  BY <1>1, <1>3, <1>5, <1>7, NothingTold

LEMMA CommitTold ==
  ASSUME NoTermination, Told, Attentive, StoryInv, AnswersCommit
  PROVE  StoryInv' /\ down' \in Seq(Message)
<1> DEFINE m == Wire("commit", 0, -1)
           d == [vd EXCEPT !.pointed = -1]
<1>1. /\ ~vd.bye /\ UNCHANGED <<vendor, at, finished, st, out, reader>> /\ vd' = d
      /\ Self.drains /\ down' = Append(down, m)
  BY DEF AnswersCommit, Listens, adapterVars
<1>2. vd \in VendorType /\ ~vd.broke /\ vendor \in Dialects
  BY <1>1, Hearing DEF Told, VendorInv
<1>3. /\ d.final = vd.final /\ d.items = vd.items /\ d.locked = vd.locked /\ d.prov = vd.prov
      /\ d.bye = FALSE /\ d.broke = FALSE
  BY <1>1, <1>2 DEF VendorType
<1>4. "commit" \in Kinds
  BY DEF Kinds
<1>5. m \in Message /\ m.kind = "commit"
  BY <1>4, BlankFields
<1>6. vendor \in {"elevenlabs", "openai"}
  BY <1>1, <1>2 DEF Self, Dialects, Stream, DeepgramStream, FluxStream, SonioxStream, AssemblyStream,
     ElevenStream, OpenAIStream, MistralStream, CartesiaStream, TurnsStream, AWSStream, TelnyxStream,
     SpeechmaticsStream, AzureStream, XaiStream, PalabraStream, MetaStream, Meta
<1> HIDE DEF d, m
<1>7. \A g \in Views : ~g.over => Tells(vendor, m, g, g)
  BY <1>5, <1>6, QuietTells DEF Quiet
<1> QED
  BY <1>1, <1>3, <1>5, <1>7, NothingTold

(* Mistral: the full text, a final if no segment was.                      *)
Whole(g) == [g EXCEPT !.final = Heard, !.more = Heard, !.told = TRUE, !.over = TRUE]

LEMMA WholeFields ==
  ASSUME NEW g \in Views, Heard \in 0 .. Chunks
  PROVE  LET h == Whole(g)
         IN /\ h \in Views /\ h.final = Heard /\ h.more = Heard /\ h.time = g.time
            /\ h.told = TRUE /\ h.over = TRUE
BY DEF Views, Whole

LEMMA MistralDone ==
  ASSUME vendor = "mistral", NEW g, Speaking(g), g.final = Heard \/ g.final = 0,
         NEW m, m.kind = "done", m.text = 1 .. Heard
  PROVE  Tells(vendor, m, g, Whole(g))
<1> DEFINE h == Whole(g)
<1>1. g \in Views /\ ~g.over /\ Heard \in Nat /\ Heard <= Chunks /\ Chunks \in Nat /\ Heard \in 0 .. Chunks
  BY SpeakingFields, Hearing, NaturalChunks
<1>2. h \in Views /\ h.final = Heard /\ h.time = g.time /\ h.told = TRUE /\ h.over = TRUE
  BY <1>1, WholeFields
<1>3. g.final \in Nat /\ g.time \in Nat
  BY <1>1, ViewFields
<1> HIDE DEF h
<1> SUFFICES ASSUME NEW s, Knows(vendor, g, s), NEW c \in Nat
             PROVE  \E o, z : /\ Heeds(vendor, m, s, c) = Returns(o, z) /\ Good(vendor, o, g, h)
                              /\ vendor = "speechmatics" => z \in Nat /\ z >= s
  BY <1>1, <1>2, ReturnsTells DEF h
<1>4. s.segments = 0 <=> g.final = 0
  BY DEF Knows, MistralKnows
<1> DEFINE o == IF s.segments = 0 THEN Untimed(TRUE, m.text) ELSE <<>>
<1>5. MistralParse(m, s) = Returns(o, s)
  BY DEF MistralParse
<1>6. Heeds(vendor, m, s, c) = MistralParse(m, s)
  BY Hears DEF Dialects
<1>7. Good(vendor, o, g, h)
  <2>1. CASE g.final = Heard
    <3>1. o = <<>>
      <4>1. CASE g.final = 0
        <5>1. m.text = {}
          BY <2>1, <4>1
        <5> QED
          BY <5>1 DEF Untimed
      <4>2. CASE g.final # 0
        BY <1>4, <4>2
      <4> QED
        BY <4>1, <4>2
    <3> HIDE DEF o
    <3> QED
      BY <1>2, <1>3, <2>1, <3>1, GoodNothing
  <2>2. CASE g.final = 0 /\ Heard # 0
    <3>1. m.text # {} /\ m.text = g.final + 1 .. h.final
      <4>1. 1 \in 1 .. Heard
        BY <1>1, <2>2
      <4> QED
        BY <4>1, <1>2, <2>2
    <3>2. o = <<Transcript(TRUE, g.final + 1 .. h.final, NoTime, NoTime)>>
      BY <1>4, <2>2, <3>1 DEF Untimed
    <3>3. g.final < h.final /\ g.time <= h.time /\ NoTime \in Int /\ vendor \notin Pointing
      BY <1>1, <1>2, <1>3, <2>2 DEF NoTime, Pointing
    <3> HIDE DEF o
    <3> QED
      BY <1>1, <1>2, <3>2, <3>3, GoodWords
  <2> QED
    BY <2>1, <2>2
<1> HIDE DEF o
<1> QED
  BY <1>5, <1>6, <1>7

----------------------------------------------------------------------------
(* The last words of the vendor.                                           *)
LEMMA ByeMatches ==
  ASSUME NEW d, NEW h, d.bye, ~d.broke, (IF vendor = "flux" THEN h.more ELSE h.final) = d.final,
         vendor = "flux" => h.time <= TimeOf(h.final)
  PROVE  Matches(d, h)
BY DEF Matches

Silent == {"deepgram", "cartesia"}
Quitters == {"assemblyai", "speechmatics", "azure"}
Dumb == {"flux", "turns", "aws", "telnyx", "palabra", "meta", "meta_ptt"}

(* where the adapter stands when all that was heard is final               *)
LEMMA AllFinal ==
  ASSUME NEW g, Speaking(g), vendor # "soniox",
         vd.final = Heard \/ (vendor = "flux" /\ vd.prov = Heard)
  PROVE  /\ (IF vendor = "flux" THEN g.more ELSE g.final) = Heard
         /\ vendor = "flux" => g.time <= TimeOf(g.final)
         /\ g \in Views /\ ~g.over /\ Along(Heard, finished, g) /\ Told
<1>1. /\ g.final = vd.final /\ (vendor = "flux" => g.more = vd.prov) /\ g \in Views /\ ~g.over
      /\ Along(Heard, finished, g) /\ Told /\ ~vd.bye
      /\ (vendor = "flux" => g.time <= TimeOf(g.final))
  BY SpeakingFields DEF Pointing
<1>2. vd.final <= vd.prov /\ vd.final \in Nat /\ vd.prov \in Nat /\ vd.prov <= Heard /\ Heard \in Nat
  BY <1>1, Hearing DEF Told, VendorInv
<1> QED
  BY <1>1, <1>2

LEMMA SilentBye ==
  ASSUME NoTermination, vendor \in Silent \cup Quitters \cup Dumb, NEW g, Speaking(g), finished,
         vd.final = Heard \/ (vendor = "flux" /\ vd.prov = Heard),
         NEW ms \in Goodbyes, NEW d, d.bye, ~d.broke, d.final = Heard
  PROVE  ms \in Seq(Message) /\ \E h : Leads(vendor, Heard, finished, ms, g, h) /\ Matches(d, h)
<1>1. /\ (IF vendor = "flux" THEN g.more ELSE g.final) = Heard
      /\ vendor = "flux" => g.time <= TimeOf(g.final)
      /\ g \in Views /\ ~g.over /\ Along(Heard, finished, g) /\ Told
  BY AllFinal DEF Silent, Quitters, Dumb
<1>2. Matches(d, g)
  BY <1>1, ByeMatches
<1> DEFINE e == Over(g, TRUE)
<1>3. /\ e \in Views /\ e.final = g.final /\ e.more = g.more /\ e.time = g.time /\ e.told = TRUE
  BY <1>1, OverFields
<1> HIDE DEF e
<1>4. Along(Heard, finished, e)
  BY <1>1, <1>3 DEF Along
<1>5. vendor # "flux" => Matches(d, e)
  BY <1>1, <1>3, ByeMatches
<1>6. CASE vendor \in Dumb
  <2>1. ms = <<>>
    BY <1>6 DEF Goodbyes, Dumb
  <2>2. Leads(vendor, Heard, finished, ms, g, g)
    BY <1>1, <2>1, NothingMore
  <2>3. ms \in Seq(Message)
    BY <2>1
  <2> QED
    BY <1>2, <2>2, <2>3, ZenonT(30)
<1>7. CASE vendor = "deepgram"
  <2> DEFINE m == Wire("Metadata", 0, -1)
  <2>1. ms = <<m>>
    BY <1>7 DEF Goodbyes
  <2>2. "Metadata" \in Kinds
    BY DEF Kinds
  <2>3. m \in Message /\ m.kind = "Metadata"
    BY <1>1, <2>2, BlankFields
  <2> HIDE DEF m
  <2>4. Tells(vendor, m, g, g)
    BY <1>1, <1>7, <2>3, QuietTells DEF Quiet
  <2>5. Leads(vendor, Heard, finished, ms, g, g)
    BY <1>1, <2>1, <2>4, OneStep
  <2>6. ms \in Seq(Message)
    BY <2>1, <2>3
  <2> QED
    BY <1>2, <2>5, <2>6, ZenonT(30)
<1>8. CASE vendor = "cartesia"
  <2> DEFINE p == Wire("flush_done", 0, -1)
             m == Wire("done", 0, -1)
  <2>1. ms = <<p, m>>
    BY <1>8 DEF Goodbyes
  <2>2. "flush_done" \in Kinds /\ "done" \in Kinds
    BY DEF Kinds
  <2>3. m \in Message /\ m.kind = "done"
    BY <1>1, <2>2, BlankFields
  <2>4. p \in Message /\ p.kind = "flush_done"
    BY <1>1, <2>2, BlankFields
  <2> HIDE DEF m, p
  <2>5. Tells(vendor, p, g, g)
    BY <1>1, <1>8, <2>4, QuietTells DEF Quiet
  <2>6. Tells(vendor, m, g, e)
    BY <1>1, <1>8, <2>3, LastWordTells DEF LastWord, e
  <2>7. Leads(vendor, Heard, finished, ms, g, e)
    BY <1>1, <1>4, <2>1, <2>5, <2>6, TwoSteps
  <2>8. ms \in Seq(Message)
    BY <2>1, <2>3, <2>4
  <2>9. Matches(d, e)
    BY <1>5, <1>8
  <2> QED
    BY <2>7, <2>8, <2>9, ZenonT(30)
<1>9. CASE vendor \in Quitters
  <2> DEFINE k == CASE vendor = "assemblyai" -> "Termination"
                    [] vendor = "speechmatics" -> "EndOfTranscript" [] OTHER -> "END"
             m == Wire(k, 0, -1)
  <2>1. ms = <<m>>
    <3>1. CASE vendor = "assemblyai"
      BY <3>1 DEF Goodbyes
    <3>2. CASE vendor = "speechmatics"
      BY <3>2 DEF Goodbyes
    <3>3. CASE vendor = "azure"
      BY <3>3 DEF Goodbyes
    <3> QED
      BY <1>9, <3>1, <3>2, <3>3 DEF Quitters
  <2>2. k \in Kinds
    BY DEF Kinds
  <2>3. m \in Message /\ m.kind = k
    BY <1>1, <2>2, BlankFields
  <2> HIDE DEF m
  <2>4. LastWord(m)
    BY <1>9, <2>3 DEF LastWord, Quitters
  <2>5. Tells(vendor, m, g, e)
    BY <1>1, <2>4, LastWordTells DEF e
  <2>6. Leads(vendor, Heard, finished, ms, g, e)
    BY <1>1, <1>4, <2>1, <2>5, OneStep
  <2>7. ms \in Seq(Message)
    BY <2>1, <2>2, <2>3
  <2>8. Matches(d, e)
    BY <1>5, <1>9 DEF Quitters
  <2> QED
    BY <2>6, <2>7, <2>8, ZenonT(30)
<1> QED
  BY <1>6, <1>7, <1>8, <1>9 DEF Silent

LEMMA SonioxBye ==
  ASSUME vendor = "soniox", NEW g, Speaking(g), finished, NEW ms \in Goodbyes,
         NEW d, d.bye, ~d.broke, d.final = Heard
  PROVE  ms \in Seq(Message) /\ \E h : Leads(vendor, Heard, finished, ms, g, h) /\ Matches(d, h)
<1> DEFINE w == Wire("tokens", 0, -1)
           y == vd.final + 1 .. Heard
           m == [Tokens(y, {}) EXCEPT !.finished = TRUE]
<1>1. ms = <<m>>
  BY DEF Goodbyes
<1>2. Told /\ vd.final \in Nat /\ Heard \in Nat /\ Heard <= Chunks /\ vd.final <= Heard
  BY SpeakingFields, Hearing
<1>3. w \in Message /\ w.kind = "tokens" /\ w.ends = FALSE
  <2>0. "tokens" \in Kinds
    BY DEF Kinds
  <2>1. w \in Message
    BY <1>2, <2>0, WireIsMessage
  <2> QED
    BY <2>1 DEF Wire
<1>4. y \in SUBSET Int /\ {} \in SUBSET Int
  OBVIOUS
<1>5. m = [[w EXCEPT !.fin = y, !.non = {}] EXCEPT !.finished = TRUE]
  BY DEF Tokens
<1>6. y = vd.final + 1 .. Heard
  OBVIOUS
<1> HIDE DEF w, y
<1>7. /\ m \in Message /\ m.kind = "tokens" /\ m.finished = TRUE /\ m.fin = y
      /\ m.non = {} /\ m.ends = FALSE
  BY <1>3, <1>4, <1>5 DEF Message
<1> HIDE DEF m
<1>8. /\ g \in Views /\ ~g.over /\ g.final <= g.more /\ g.time <= g.final /\ g.more = vd.final
      /\ g.final \in Nat /\ g.time \in Nat /\ Along(Heard, finished, g)
  BY SpeakingFields DEF Pointing
<1>9. Heard \in g.more .. Chunks /\ Heard \in Heard .. Chunks /\ Chunks \in Nat
  BY <1>2, <1>8, NaturalChunks
<1>10. SonioxTokens(g, Heard, Heard, m)
  <2>1. {c \in m.fin : g.more = 0 \/ c - 1 >= g.more} = g.more + 1 .. Heard
    BY <1>2, <1>6, <1>7, <1>8
  <2>2. m.non = Heard + 1 .. Heard
    BY <1>2, <1>7
  <2> QED
    BY <1>7, <2>1, <2>2 DEF SonioxTokens
<1> DEFINE h == SonioxView(g, Heard, m)
<1>11. Tells(vendor, m, g, h)
  BY <1>8, <1>9, <1>10, SonioxTells
<1>12. SonioxFlushes(m) /\ m.finished \in BOOLEAN
  BY <1>7 DEF SonioxFlushes
<1>13. h \in Views /\ h.final = Heard /\ h.more = Heard
  BY <1>8, <1>9, <1>12, SonioxFields
<1> HIDE DEF h
<1>14. Along(Heard, finished, h)
  BY <1>2, <1>13 DEF Along
<1>15. Matches(d, h)
  BY <1>13, ByeMatches
<1>16. Leads(vendor, Heard, finished, ms, g, h)
  BY <1>1, <1>8, <1>11, <1>14, OneStep
<1>17. ms \in Seq(Message)
  BY <1>1, <1>7
<1> QED
  BY <1>15, <1>16, <1>17, ZenonT(30)

LEMMA XaiBye ==
  ASSUME vendor = "xai", NEW g, Speaking(g), finished, NEW ms \in Goodbyes,
         NEW d, d.bye, ~d.broke, d.final = Heard
  PROVE  ms \in Seq(Message) /\ \E h : Leads(vendor, Heard, finished, ms, g, h) /\ Matches(d, h)
<1>1. PICK from \in {1, vd.final + 1} \cup {c \in {vd.locked + 1} : c > vd.final} :
        ms = <<[Wire("transcript.done", from, Heard) EXCEPT !.fin = from .. Heard]>>
  BY DEF Goodbyes
<1>2. /\ Told /\ vd.final \in Nat /\ Heard \in Nat /\ Heard <= Chunks /\ vd.locked \in Nat
      /\ g.final = vd.final /\ g.more = (IF vd.locked > vd.final THEN vd.locked ELSE vd.final)
      /\ Along(Heard, finished, g)
  BY SpeakingFields, Hearing
<1>3. from \in {1, g.final + 1, g.more + 1} /\ from \in Int
  BY <1>1, <1>2
<1> DEFINE w == Wire("transcript.done", from, Heard)
           y == from .. Heard
           m == [w EXCEPT !.fin = y]
<1>4. ms = <<m>>
  BY <1>1
<1>5. w \in Message /\ w.kind = "transcript.done" /\ w.text = y
  <2>0. "transcript.done" \in Kinds
    BY DEF Kinds
  <2>1. w \in Message
    BY <1>2, <1>3, <2>0, WireIsMessage
  <2> QED
    BY <2>1 DEF Wire
<1>6. y \in SUBSET Int /\ y = from .. Heard
  OBVIOUS
<1> HIDE DEF w, y
<1>7. m \in Message /\ m.kind = "transcript.done" /\ m.fin = y /\ m.text = y
  BY <1>5, <1>6 DEF Message
<1> HIDE DEF m
<1> DEFINE h == XaiClosing(g)
<1>8. /\ Tells(vendor, m, g, h) /\ h \in Views /\ h.final = Heard /\ h.more = Heard
  <2>1. m.fin = from .. Heard /\ m.text = from .. Heard
    BY <1>6, <1>7
  <2> QED
    BY <1>3, <1>7, <2>1, XaiDoneTells
<1> HIDE DEF h
<1>9. Along(Heard, finished, h)
  BY <1>2, <1>8 DEF Along
<1>10. Matches(d, h)
  BY <1>8, ByeMatches
<1>11. Leads(vendor, Heard, finished, ms, g, h)
  BY <1>2, <1>4, <1>8, <1>9, OneStep
<1>12. ms \in Seq(Message)
  BY <1>4, <1>7
<1> QED
  BY <1>10, <1>11, <1>12, ZenonT(30)

LEMMA MistralBye ==
  ASSUME vendor = "mistral", NEW g, Speaking(g), finished, vd.final = Heard \/ vd.final = 0,
         NEW ms \in Goodbyes, NEW d, d.bye, ~d.broke, d.final = Heard
  PROVE  ms \in Seq(Message) /\ \E h : Leads(vendor, Heard, finished, ms, g, h) /\ Matches(d, h)
<1> DEFINE m == Wire("done", 1, Heard)
           h == Whole(g)
<1>1. ms = <<m>>
  BY DEF Goodbyes
<1>2. /\ Told /\ Heard \in Nat /\ Heard <= Chunks /\ g.final = vd.final /\ g \in Views
      /\ Along(Heard, finished, g)
  BY SpeakingFields, Hearing
<1>3. m \in Message /\ m.kind = "done" /\ m.text = 1 .. Heard
  <2>0. "done" \in Kinds
    BY DEF Kinds
  <2>1. m \in Message
    BY <1>2, <2>0, WireIsMessage
  <2> QED
    BY <2>1 DEF Wire
<1> HIDE DEF m
<1>4. Tells(vendor, m, g, h)
  BY <1>2, <1>3, MistralDone
<1>5. h \in Views /\ h.final = Heard /\ h.more = Heard
  <2>1. Heard \in 0 .. Chunks
    BY <1>2, NaturalChunks
  <2> QED
    BY <1>2, <2>1, WholeFields
<1> HIDE DEF h
<1>6. Along(Heard, finished, h)
  BY <1>2, <1>5 DEF Along
<1>7. Matches(d, h)
  BY <1>5, ByeMatches
<1>8. Leads(vendor, Heard, finished, ms, g, h)
  BY <1>1, <1>2, <1>4, <1>6, OneStep
<1>9. ms \in Seq(Message)
  BY <1>1, <1>3
<1> QED
  BY <1>7, <1>8, <1>9, ZenonT(30)

LEMMA GoodbyeTold ==
  ASSUME NoTermination, Told, Attentive, StoryInv, SaysGoodbye
  PROVE  StoryInv' /\ down' \in Seq(Message)
<1>1. PICK ms \in Goodbyes : down' = down \o ms
  BY DEF SaysGoodbye
<1> DEFINE d == [vd EXCEPT !.bye = TRUE, !.final = Heard]
<1>2. /\ ~vd.bye /\ UNCHANGED <<vendor, at, finished, st, out, reader>> /\ vd' = d
      /\ vd.eos /\ ~Self.drains
      /\ \/ vd.final = Heard \/ (vendor = "flux" /\ vd.prov = Heard)
         \/ vendor \in {"soniox", "xai"} \/ (vendor = "mistral" /\ vd.final = 0)
  BY DEF SaysGoodbye, Listens, adapterVars
<1>3. vd \in VendorType /\ ~vd.broke /\ finished /\ vendor \in Dialects
  BY <1>2, Hearing DEF Told, VendorInv
<1>4. d.final = Heard /\ d.bye = TRUE /\ d.broke = FALSE
  BY <1>3 DEF VendorType
<1>5. vendor \notin {"elevenlabs", "openai"}
  <2>1. ASSUME vendor = "elevenlabs" PROVE FALSE
    <3>1. Self = ElevenStream
      BY <2>1 DEF Self, Meta
    <3> QED
      BY <1>2, <3>1 DEF ElevenStream, Stream
  <2>2. ASSUME vendor = "openai" PROVE FALSE
    <3>1. Self = OpenAIStream
      BY <2>2 DEF Self, Meta
    <3> QED
      BY <1>2, <3>1 DEF OpenAIStream, Stream
  <2> QED
    BY <2>1, <2>2
<1> HIDE DEF d
<1>6. ASSUME NEW g, Speaking(g)
      PROVE  ms \in Seq(Message) /\ \E h : Leads(vendor, Heard, finished, ms, g, h) /\ Matches(d, h)
  <2>1. CASE vendor \in Silent \cup Quitters \cup Dumb
    <3>1. vd.final = Heard \/ (vendor = "flux" /\ vd.prov = Heard)
      BY <1>2, <2>1 DEF Silent, Quitters, Dumb
    <3> QED
      BY <1>3, <1>4, <1>6, <2>1, <3>1, SilentBye
  <2>2. CASE vendor = "soniox"
    BY <1>3, <1>4, <1>6, <2>2, SonioxBye
  <2>3. CASE vendor = "xai"
    BY <1>3, <1>4, <1>6, <2>3, XaiBye
  <2>4. CASE vendor = "mistral"
    <3>1. vd.final = Heard \/ vd.final = 0
      BY <1>2, <2>4
    <3> QED
      BY <1>3, <1>4, <1>6, <2>4, <3>1, MistralBye
  <2> QED
    BY <1>3, <1>5, <2>1, <2>2, <2>3, <2>4 DEF Dialects, Silent, Quitters, Dumb
<1> QED
  BY <1>1, <1>2, <1>6, StoryGoesOn

(* An error.                                                               *)
LEMMA ErrorTold ==
  ASSUME NoTermination, Told, Attentive, StoryInv, SaysError
  PROVE  StoryInv' /\ down' \in Seq(Message)
<1>1. PICK kind \in {"error", "END"}, server \in BOOLEAN :
        /\ IF vendor = "azure" THEN kind = (IF finished THEN "END" ELSE "error")
           ELSE kind = "error" /\ vendor # "deepgram"
        /\ down' = Append(down, [Wire(kind, 0, -1) EXCEPT !.server = server])
  BY DEF SaysError
<1> DEFINE d == [vd EXCEPT !.bye = TRUE, !.broke = TRUE]
           w == Wire(kind, 0, -1)
           m == [w EXCEPT !.server = server]
<1>2. /\ ~vd.bye /\ UNCHANGED <<vendor, at, finished, st, out, reader>> /\ vd' = d
  BY DEF SaysError, Listens, adapterVars
<1>3. vd \in VendorType /\ vendor \in Dialects /\ finished \in BOOLEAN
  BY <1>2, Hearing DEF Told, VendorInv, ControlTypes
<1>4. d.bye = TRUE /\ d.broke = TRUE
  BY <1>3 DEF VendorType
<1>5. w \in Message /\ w.kind = kind /\ w.word = FALSE
  <2>1. kind \in Kinds
    BY DEF Kinds
  <2> QED
    BY <2>1, BlankFields
<1>6. down' = Append(down, m)
  BY <1>1
<1> HIDE DEF d, w
<1>7. m \in Message /\ m.kind = kind /\ m.word = FALSE
  BY <1>5 DEF Message
<1> HIDE DEF m
<1>8. ASSUME NEW g, Speaking(g)
      PROVE  \E h : Leads(vendor, Heard, finished, <<m>>, g, h) /\ Matches(d, h)
  <2>1. /\ g \in Views /\ ~g.over /\ Along(Heard, finished, g)
        /\ (vendor = "flux" => g.time <= TimeOf(g.final))
    BY <1>8, SpeakingFields DEF Pointing
  <2>2. CASE vendor = "azure" /\ finished
    <3> DEFINE h == Over(g, TRUE)
    <3>1. LastWord(m)
      BY <1>1, <1>7, <2>2 DEF LastWord
    <3>2. Tells(vendor, m, g, h)
      BY <2>1, <3>1, LastWordTells
    <3>3. h \in Views /\ h.final = g.final /\ h.more = g.more /\ h.over
      BY <2>1, OverFields
    <3> HIDE DEF h
    <3>4. Along(Heard, finished, h)
      BY <2>1, <2>2, <3>3 DEF Along
    <3>5. Matches(d, h)
      BY <1>4, <2>2, <3>3 DEF Matches
    <3>6. Leads(vendor, Heard, finished, <<m>>, g, h)
      BY <2>1, <3>2, <3>4, OneStep
    <3> QED
      BY <3>5, <3>6, ZenonT(30)
  <2>3. CASE vendor \in Raisers /\ ~(vendor = "azure" /\ finished)
    <3> DEFINE h == Over(g, g.told)
    <3>1. m.kind = "error"
      BY <1>1, <1>7, <2>3
    <3>2. Tells(vendor, m, g, h)
      BY <1>7, <2>1, <2>3, <3>1, ErrorRaises
    <3>3. /\ h \in Views /\ h.final = g.final /\ h.more = g.more /\ h.over /\ h.told = g.told
          /\ h.time = g.time
      <4>1. g.told \in BOOLEAN
        BY <2>1, ViewFields
      <4> QED
        BY <2>1, <4>1, OverFields
    <3> HIDE DEF h
    <3>4. Along(Heard, finished, h)
      BY <2>1, <3>3 DEF Along
    <3>5. Matches(d, h)
      BY <1>4, <2>1, <3>3 DEF Matches
    <3>6. Leads(vendor, Heard, finished, <<m>>, g, h)
      BY <2>1, <3>2, <3>4, OneStep
    <3> QED
      BY <3>5, <3>6, ZenonT(30)
  <2>4. CASE vendor \in Meta \cup {"xai"}
    <3> DEFINE h == Erred(g)
    <3>1. m.kind = "error"
      BY <1>1, <1>7, <2>4 DEF Meta
    <3>2. Tells(vendor, m, g, h)
      BY <2>1, <2>4, <3>1, ErrorIsKept
    <3>3. h \in Views /\ h.final = g.final /\ h.more = g.more /\ h.told = g.told /\ h.erred
      BY <2>1, ErredFields
    <3> HIDE DEF h
    <3>4. Along(Heard, finished, h)
      BY <2>1, <3>3 DEF Along
    <3>5. Matches(d, h)
      BY <1>4, <2>4, <3>3 DEF Matches, Meta
    <3>6. Leads(vendor, Heard, finished, <<m>>, g, h)
      BY <2>1, <3>2, <3>4, OneStep
    <3> QED
      BY <3>5, <3>6, ZenonT(30)
  <2> QED
    BY <1>1, <1>3, <2>2, <2>3, <2>4 DEF Dialects, Raisers, Meta
<1> QED
  BY <1>2, <1>6, <1>7, <1>8, OneMessageTold

----------------------------------------------------------------------------
(* What holds on while no word is read.                                    *)
LEMMA SameSelf ==
  ASSUME vendor' = vendor
  PROVE  Self' = Self
BY DEF Self

LEMMA Draining ==
  ASSUME vendor \in Dialects
  PROVE  Self.drains <=> vendor \in {"elevenlabs", "openai"}
BY DEF Self, Dialects, Stream, DeepgramStream, FluxStream, SonioxStream, AssemblyStream,
   ElevenStream, OpenAIStream, MistralStream, CartesiaStream, TurnsStream, AWSStream, TelnyxStream,
   SpeechmaticsStream, AzureStream, XaiStream, PalabraStream, MetaStream, Meta

LEMMA StoryHeld ==
  ASSUME Told, StoryInv, Attentive' => Attentive, UNCHANGED <<vendor, st, out, down>>,
         Len(at') \in Nat, Len(at) <= Len(at'), \A i \in 1 .. Len(at) : at'[i] = at[i],
         finished => finished', vd'.final = vd.final, vd'.prov = vd.prov, vd'.locked = vd.locked,
         vd'.items = vd.items, vd'.bye = vd.bye, vd'.broke = vd.broke
  PROVE  StoryInv'
<1> SUFFICES ASSUME Attentive'
             PROVE  \E g, h : /\ Leads(vendor, Len(at'), finished', down, g, h)
                              /\ Knows(vendor, g, st) /\ ~g.over /\ UpTo(vendor, out, g)
                              /\ Matches(vd, h)'
  BY DEF StoryInv
<1>1. PICK g, h : /\ Leads(vendor, Len(at), finished, down, g, h)
                  /\ Knows(vendor, g, st) /\ ~g.over /\ UpTo(vendor, out, g) /\ Matches(vd, h)
  BY DEF StoryInv
<1>2. Heard \in Nat /\ Len(at) = Heard /\ down \in Seq(Message)
  BY Hearing DEF Told, VendorInv, Heard
<1>3. Leads(vendor, Len(at'), finished', down, g, h)
  <2>1. Len(at) \in Int /\ Len(at') \in Int
    BY <1>2
  <2> QED
    BY <1>1, <2>1, LeadsOn
<1>4. h.final \in 0 .. Len(at)
  <2>1. Along(Len(at), finished, h)
    BY <1>1, <1>2, LeadsInto
  <2> QED
    BY <1>2, <2>1, ViewFields DEF Along
<1>5. TimeOf(h.final)' = TimeOf(h.final)
  <2>1. CASE h.final = 0
    BY <2>1 DEF TimeOf
  <2>2. CASE h.final # 0
    <3>1. h.final \in 1 .. Len(at)
      BY <1>2, <1>4, <2>2
    <3> QED
      BY <2>2, <3>1 DEF TimeOf
  <2> QED
    BY <2>1, <2>2
<1>6. Matches(vd, h)'
  BY <1>1, <1>5 DEF Matches, AtWork
<1> QED
  BY <1>1, <1>3, <1>6

LEMMA ToldHeld ==
  ASSUME ToldInv, UNCHANGED <<vendor, out>>, sent \in Nat, sent' \in Nat, sent <= sent',
         reader' = "returned" => reader = "returned", ws' \notin Codes => ws \notin Codes,
         vd'.final = vd.final, vd'.broke = vd.broke
  PROVE  ToldInv'
<1>1. Heeded(vendor, out)'
  BY DEF ToldInv
<1>2. (Settled(out) \subseteq 1 .. sent)'
  BY DEF ToldInv
<1>3. NoWordLost'
  BY DEF ToldInv, NoWordLost
<1> QED
  BY <1>1, <1>2, <1>3 DEF ToldInv

LEMMA VendorSpeaks ==
  ASSUME AdapterInv, Listens, UNCHANGED <<vendor, adapterVars, at>>, vd'.silence = vd.silence,
         VendorInv', StoryInv'
  PROVE  AdapterInv'
<1>1. UNCHANGED <<vendor, ws, sent, finished, feeder, reader, failure, closed, st, out, at>>
  BY DEF adapterVars
<1>2. ControlTypes'
  BY <1>1 DEF AdapterInv, ControlTypes
<1>3. AudioInv'
  BY <1>1 DEF AdapterInv, AudioInv
<1>4. StageInv'
  BY <1>1, SameSelf DEF AdapterInv, StageInv, Listens, Attentive
<1>5. WindowInv'
  BY <1>1 DEF AdapterInv, WindowInv
<1>6. ToldInv'
  <2>1. NoWordLost'
    BY <1>1 DEF NoWordLost, Listens
  <2> QED
    BY <1>1, <2>1 DEF AdapterInv, ToldInv
<1> QED
  BY <1>2, <1>3, <1>4, <1>5, <1>6 DEF AdapterInv

LEMMA Listening ==
  ASSUME AdapterInv, Listens
  PROVE  Told /\ Attentive /\ StoryInv /\ ~vd.bye /\ ~vd.broke /\ vd \in VendorType
BY DEF AdapterInv, Listens, Told, Attentive, VendorInv

LEMMA PartialStep ==
  ASSUME NoTermination, AdapterInv, SaysPartial
  PROVE  AdapterInv'
<1> DEFINE d == [vd EXCEPT !.prov = Heard]
<1>1. Listens /\ UNCHANGED <<vendor, adapterVars, at>> /\ vd' = d
  BY DEF SaysPartial
<1>2. Told /\ Attentive /\ StoryInv /\ vd \in VendorType
  BY <1>1, Listening
<1>3. StoryInv' /\ down' \in Seq(Message)
  BY <1>2, PartialTold
<1>4. Heard \in 0 .. Chunks /\ vd.final <= Heard
  BY <1>2, NaturalChunks, Hearing
<1>5. d \in VendorType
  BY <1>2, <1>4 DEF VendorType
<1>6. /\ d.final = vd.final /\ d.prov = Heard /\ d.locked = vd.locked /\ d.items = vd.items
      /\ d.eos = vd.eos /\ d.bye = vd.bye /\ d.broke = vd.broke /\ d.silence = vd.silence
  BY <1>2 DEF VendorType
<1> HIDE DEF d
<1>7. VendorInv'
  BY <1>1, <1>2, <1>3, <1>4, <1>5, <1>6, SameSelf DEF VendorInv, Told, adapterVars, Heard
<1> QED
  BY <1>1, <1>3, <1>6, <1>7, VendorSpeaks

LEMMA FinalStep ==
  ASSUME NoTermination, AdapterInv, SaysFinal
  PROVE  AdapterInv'
<1>0. Listens /\ UNCHANGED <<vendor, adapterVars, at>>
  BY DEF SaysFinal
<1>1. PICK b \in vd.final + 1 .. Heard :
        /\ vendor = "meta_ptt" => vd.eos /\ b = Heard
        /\ \E ms \in FinalWires(vd.final + 1, b, Heard) :
             vd' = [vd EXCEPT !.final = b, !.items = @ + 1,
                              !.prov = IF vendor \in {"openai", "meta"} /\ Len(ms) > 2
                                       THEN Heard ELSE b]
  BY DEF SaysFinal
<1>2. PICK n \in {b, Heard} : vd' = [vd EXCEPT !.final = b, !.items = @ + 1, !.prov = n]
  BY <1>1
<1> DEFINE d == [vd EXCEPT !.final = b, !.items = @ + 1, !.prov = n]
<1>3. Told /\ Attentive /\ StoryInv /\ vd \in VendorType /\ ~vd.bye /\ ~vd.broke
  BY <1>0, Listening
<1>4. StoryInv' /\ down' \in Seq(Message)
  BY <1>3, FinalTold
<1>5. /\ Heard \in 0 .. Chunks /\ b \in 0 .. Chunks /\ n \in 0 .. Chunks /\ vd.items + 1 \in 0 .. Chunks
      /\ b <= Heard /\ b <= n /\ n <= Heard /\ vd.items + 1 <= b
  <2>1. /\ Heard \in Nat /\ Heard <= Chunks /\ Chunks \in Nat /\ vd.final \in Nat /\ vd.items \in Nat
        /\ vd.items <= vd.final
    BY <1>3, NaturalChunks, Hearing
  <2> QED
    BY <2>1
<1>6. d \in VendorType
  BY <1>3, <1>5 DEF VendorType
<1>7. /\ d.final = b /\ d.prov = n /\ d.locked = vd.locked /\ d.items = vd.items + 1
      /\ d.eos = vd.eos /\ d.bye = vd.bye /\ d.broke = vd.broke /\ d.silence = vd.silence
  BY <1>3 DEF VendorType
<1>8. vd' = d
  BY <1>2
<1> HIDE DEF d
<1>9. VendorInv'
  BY <1>0, <1>1, <1>3, <1>4, <1>5, <1>6, <1>7, <1>8, SameSelf
     DEF VendorInv, Told, adapterVars, Heard
<1> QED
  BY <1>0, <1>4, <1>7, <1>8, <1>9, VendorSpeaks

(* the messages that move one of the marks of the vendor                   *)
LEMMA MarkStep ==
  ASSUME AdapterInv, Listens, UNCHANGED <<vendor, adapterVars, at>>,
         StoryInv', down' \in Seq(Message), vd' \in VendorType,
         vd'.final = vd.final, vd'.prov = vd.prov, vd'.locked <= Heard, vd'.items = vd.items,
         vd'.eos = vd.eos, vd'.bye = vd.bye, vd'.broke = vd.broke, vd'.silence = vd.silence
  PROVE  AdapterInv'
<1>1. VendorInv'
  BY SameSelf DEF AdapterInv, VendorInv, adapterVars, Heard
<1> QED
  BY <1>1, VendorSpeaks

LEMMA LocksStep ==
  ASSUME AdapterInv, Locks
  PROVE  AdapterInv'
<1> DEFINE d == [vd EXCEPT !.locked = Heard]
<1>1. Listens /\ UNCHANGED <<vendor, adapterVars, at>> /\ vd' = d
  BY DEF Locks
<1>2. Told /\ Attentive /\ StoryInv /\ vd \in VendorType
  BY <1>1, Listening
<1>3. StoryInv' /\ down' \in Seq(Message)
  BY <1>2, LocksTold
<1>4. Heard \in 0 .. Chunks /\ Heard <= Heard
  BY <1>2, NaturalChunks, Hearing
<1>5. d \in VendorType
  BY <1>2, <1>4 DEF VendorType
<1>6. /\ d.final = vd.final /\ d.prov = vd.prov /\ d.locked = Heard /\ d.items = vd.items
      /\ d.eos = vd.eos /\ d.bye = vd.bye /\ d.broke = vd.broke /\ d.silence = vd.silence
  BY <1>2 DEF VendorType
<1> HIDE DEF d
<1> QED
  BY <1>1, <1>3, <1>4, <1>5, <1>6, MarkStep

LEMMA EndpointStep ==
  ASSUME NoTermination, AdapterInv, SaysEndpoint
  PROVE  AdapterInv'
<1> DEFINE d == [vd EXCEPT !.pointed = vd.final]
<1>1. Listens /\ UNCHANGED <<vendor, adapterVars, at>> /\ vd' = d
  BY DEF SaysEndpoint
<1>2. Told /\ Attentive /\ StoryInv /\ vd \in VendorType
  BY <1>1, Listening
<1>3. StoryInv' /\ down' \in Seq(Message)
  BY <1>2, EndpointTold
<1>4. vd.locked <= Heard /\ vd.final \in Int
  BY <1>2, Hearing
<1>5. d \in VendorType
  BY <1>2, <1>4 DEF VendorType
<1>6. /\ d.final = vd.final /\ d.prov = vd.prov /\ d.locked = vd.locked /\ d.items = vd.items
      /\ d.eos = vd.eos /\ d.bye = vd.bye /\ d.broke = vd.broke /\ d.silence = vd.silence
  BY <1>2 DEF VendorType
<1> HIDE DEF d
<1> QED
  BY <1>1, <1>3, <1>4, <1>5, <1>6, MarkStep

LEMMA AckStep ==
  ASSUME NoTermination, AdapterInv, Acknowledges
  PROVE  AdapterInv'
<1> DEFINE d == [vd EXCEPT !.acked = Heard]
<1>1. Listens /\ UNCHANGED <<vendor, adapterVars, at>> /\ vd' = d
  BY DEF Acknowledges
<1>2. Told /\ Attentive /\ StoryInv /\ vd \in VendorType
  BY <1>1, Listening
<1>3. StoryInv' /\ down' \in Seq(Message)
  BY <1>2, AckTold
<1>4. vd.locked <= Heard /\ Heard \in 0 .. Chunks
  BY <1>2, NaturalChunks, Hearing
<1>5. d \in VendorType
  BY <1>2, <1>4 DEF VendorType
<1>6. /\ d.final = vd.final /\ d.prov = vd.prov /\ d.locked = vd.locked /\ d.items = vd.items
      /\ d.eos = vd.eos /\ d.bye = vd.bye /\ d.broke = vd.broke /\ d.silence = vd.silence
  BY <1>2 DEF VendorType
<1> HIDE DEF d
<1> QED
  BY <1>1, <1>3, <1>4, <1>5, <1>6, MarkStep

LEMMA CommitStep ==
  ASSUME NoTermination, AdapterInv, AnswersCommit
  PROVE  AdapterInv'
<1> DEFINE d == [vd EXCEPT !.pointed = -1]
<1>1. Listens /\ UNCHANGED <<vendor, adapterVars, at>> /\ vd' = d
  BY DEF AnswersCommit
<1>2. Told /\ Attentive /\ StoryInv /\ vd \in VendorType
  BY <1>1, Listening
<1>3. StoryInv' /\ down' \in Seq(Message)
  BY <1>2, CommitTold
<1>4. vd.locked <= Heard
  BY <1>2, Hearing
<1>5. d \in VendorType
  BY <1>2, <1>4 DEF VendorType
<1>6. /\ d.final = vd.final /\ d.prov = vd.prov /\ d.locked = vd.locked /\ d.items = vd.items
      /\ d.eos = vd.eos /\ d.bye = vd.bye /\ d.broke = vd.broke /\ d.silence = vd.silence
  BY <1>2 DEF VendorType
<1> HIDE DEF d
<1> QED
  BY <1>1, <1>3, <1>4, <1>5, <1>6, MarkStep

LEMMA GoodbyeStep ==
  ASSUME NoTermination, AdapterInv, SaysGoodbye
  PROVE  AdapterInv'
<1> DEFINE d == [vd EXCEPT !.bye = TRUE, !.final = Heard]
<1>1. Listens /\ UNCHANGED <<vendor, adapterVars, at>> /\ vd' = d /\ vd.eos /\ ~Self.drains
  BY DEF SaysGoodbye
<1>2. Told /\ Attentive /\ StoryInv /\ vd \in VendorType /\ ~vd.broke
  BY <1>1, Listening
<1>3. StoryInv' /\ down' \in Seq(Message)
  BY <1>2, GoodbyeTold
<1>4. Heard \in 0 .. Chunks /\ vd.items <= Heard
  BY <1>2, NaturalChunks, Hearing
<1>5. d \in VendorType
  BY <1>2, <1>4 DEF VendorType
<1>6. /\ d.final = Heard /\ d.prov = vd.prov /\ d.locked = vd.locked /\ d.items = vd.items
      /\ d.eos = vd.eos /\ d.bye = TRUE /\ d.broke = vd.broke /\ d.silence = vd.silence
  BY <1>2 DEF VendorType
<1> HIDE DEF d
<1>7. VendorInv'
  BY <1>1, <1>2, <1>3, <1>4, <1>5, <1>6, SameSelf DEF VendorInv, Told, adapterVars, Heard
<1> QED
  BY <1>1, <1>3, <1>6, <1>7, VendorSpeaks

LEMMA ErrorStep ==
  ASSUME NoTermination, AdapterInv, SaysError
  PROVE  AdapterInv'
<1> DEFINE d == [vd EXCEPT !.bye = TRUE, !.broke = TRUE]
<1>1. Listens /\ UNCHANGED <<vendor, adapterVars, at>> /\ vd' = d
  BY DEF SaysError
<1>2. Told /\ Attentive /\ StoryInv /\ vd \in VendorType
  BY <1>1, Listening
<1>3. StoryInv' /\ down' \in Seq(Message)
  BY <1>2, ErrorTold
<1>5. d \in VendorType
  BY <1>2 DEF VendorType
<1>6. /\ d.final = vd.final /\ d.prov = vd.prov /\ d.locked = vd.locked /\ d.items = vd.items
      /\ d.eos = vd.eos /\ d.bye = TRUE /\ d.broke = TRUE /\ d.silence = vd.silence
  BY <1>2 DEF VendorType
<1> HIDE DEF d
<1>7. VendorInv'
  BY <1>1, <1>2, <1>3, <1>5, <1>6, SameSelf DEF VendorInv, Told, adapterVars, Heard
<1> QED
  BY <1>1, <1>3, <1>6, <1>7, VendorSpeaks

(* Everything the vendor says.                                             *)
Speaks ==
  \/ SaysPartial \/ SaysFinal \/ Locks \/ SaysEndpoint \/ Acknowledges \/ AnswersCommit
  \/ SaysGoodbye \/ SaysError

LEMMA SpeaksStep ==
  ASSUME NoTermination, AdapterInv, Speaks
  PROVE  AdapterInv'
BY PartialStep, FinalStep, LocksStep, EndpointStep, AckStep, CommitStep, GoodbyeStep, ErrorStep
   DEF Speaks

----------------------------------------------------------------------------
(* The socket and the tasks.                                               *)
LEMMA ToldBy ==
  ASSUME AdapterInv
  PROVE  Told /\ StoryInv /\ ToldInv /\ sent \in Nat /\ Heard \in Nat /\ Len(at) = Heard /\ Heard <= sent
<1>1. Told /\ StoryInv /\ ToldInv
  BY DEF AdapterInv, Told
<1> QED
  BY <1>1, NaturalChunks, Hearing DEF AudioInv, Told, Heard

LEMMA SocketMoves ==
  ASSUME AdapterInv, UNCHANGED <<vendor, sent, finished, st, out, vendorVars>>,
         ControlTypes', StageInv', Attentive' => Attentive,
         reader' = "returned" => reader = "returned", ws' \notin Codes => ws \notin Codes
  PROVE  AdapterInv'
<1>1. UNCHANGED <<vendor, sent, finished, st, out, down, at, vd>>
  BY DEF vendorVars
<1>2. Told /\ StoryInv /\ ToldInv /\ sent \in Nat /\ Heard \in Nat /\ Len(at) = Heard
  BY ToldBy
<1>3. AudioInv'
  BY <1>1 DEF AdapterInv, AudioInv
<1>4. VendorInv'
  BY <1>1, SameSelf DEF AdapterInv, VendorInv
<1>5. WindowInv'
  BY <1>1 DEF AdapterInv, WindowInv
<1>6. StoryInv'
  <2>1. Len(at') \in Nat /\ Len(at) <= Len(at')
    BY <1>1, <1>2
  <2> QED
    BY <1>1, <1>2, <2>1, StoryHeld
<1>7. ToldInv'
  <2>1. sent' \in Nat /\ sent <= sent'
    BY <1>1, <1>2
  <2> QED
    BY <1>1, <1>2, <2>1, ToldHeld
<1> QED
  BY <1>3, <1>4, <1>5, <1>6, <1>7 DEF AdapterInv

LEMMA DialStep ==
  ASSUME AdapterInv, Dial
  PROVE  AdapterInv'
<1>1. ControlTypes'
  BY DEF AdapterInv, ControlTypes, Dial, vendorVars, Codes
<1>2. StageInv'
  BY SameSelf DEF AdapterInv, StageInv, Dial, vendorVars, Attentive
<1>3. (Attentive' => Attentive) /\ reader' # "returned" /\ ws \notin Codes
  BY DEF Dial, Attentive, Codes
<1> QED
  BY <1>1, <1>2, <1>3, SocketMoves DEF Dial

LEMMA HandshakeStep ==
  ASSUME AdapterInv, HandshakeDone
  PROVE  AdapterInv'
<1>1. ControlTypes'
  BY DEF AdapterInv, ControlTypes, HandshakeDone, vendorVars, Codes
<1>2. StageInv'
  BY SameSelf DEF AdapterInv, StageInv, HandshakeDone, vendorVars, Attentive
<1>3. (Attentive' => Attentive) /\ reader' # "returned" /\ ws \notin Codes
  BY DEF HandshakeDone, Attentive, Codes
<1> QED
  BY <1>1, <1>2, <1>3, SocketMoves DEF HandshakeDone

LEMMA ConnectFailsStep ==
  ASSUME AdapterInv, ConnectFails
  PROVE  AdapterInv'
<1>1. ControlTypes'
  BY DEF AdapterInv, ControlTypes, ConnectFails, vendorVars, Codes
<1>2. StageInv'
  BY SameSelf DEF AdapterInv, StageInv, ConnectFails, vendorVars, Attentive
<1>3. ~Attentive' /\ reader' # "returned" /\ ws \notin Codes
  BY DEF ConnectFails, Attentive, Codes
<1> QED
  BY <1>1, <1>2, <1>3, SocketMoves DEF ConnectFails

LEMMA SendFailsStep ==
  ASSUME AdapterInv, SendFails
  PROVE  AdapterInv'
<1>1. reader' = "raised"
  BY DEF AdapterInv, StageInv, SendFails
<1>2. ControlTypes'
  BY <1>1 DEF AdapterInv, ControlTypes, SendFails, vendorVars
<1>3. StageInv'
  BY <1>1, SameSelf DEF AdapterInv, StageInv, SendFails, vendorVars, Attentive
<1>4. ~Attentive' /\ reader' # "returned" /\ (ws' \notin Codes => ws \notin Codes)
  BY <1>1 DEF SendFails, Attentive
<1> QED
  BY <1>2, <1>3, <1>4, SocketMoves DEF SendFails

LEMMA GraceEndsStep ==
  ASSUME AdapterInv, GraceEnds
  PROVE  AdapterInv'
<1>1. ControlTypes'
  BY DEF AdapterInv, ControlTypes, GraceEnds, vendorVars, Codes
<1>2. StageInv'
  BY SameSelf DEF AdapterInv, StageInv, GraceEnds, vendorVars, Attentive
<1>3. (Attentive' => Attentive) /\ (ws' \notin Codes => ws \notin Codes) /\ reader' = reader
  BY DEF GraceEnds, Attentive, Codes
<1> QED
  BY <1>1, <1>2, <1>3, SocketMoves DEF GraceEnds

LEMMA CloseStep ==
  ASSUME AdapterInv, Close
  PROVE  AdapterInv'
<1>1. ControlTypes'
  BY DEF AdapterInv, ControlTypes, Close, vendorVars, Codes
<1>2. StageInv'
  BY SameSelf DEF AdapterInv, StageInv, Close, vendorVars, Attentive
<1>3. (Attentive' => Attentive) /\ (ws' \notin Codes => ws \notin Codes) /\ reader' = reader
  BY DEF Close, Attentive, Codes
<1> QED
  BY <1>1, <1>2, <1>3, SocketMoves DEF Close

LEMMA HangsUpStep ==
  ASSUME AdapterInv, HangsUp
  PROVE  AdapterInv'
<1>1. ControlTypes'
  BY DEF AdapterInv, ControlTypes, HangsUp, vendorVars, Codes
<1>2. StageInv'
  BY SameSelf DEF AdapterInv, StageInv, HangsUp, vendorVars, Attentive
<1>3. (Attentive' => Attentive) /\ (ws' \notin Codes => ws \notin Codes) /\ reader' = reader
  BY DEF HangsUp, Attentive, Codes
<1> QED
  BY <1>1, <1>2, <1>3, SocketMoves DEF HangsUp

LEMMA BreaksStep ==
  ASSUME AdapterInv, Breaks
  PROVE  AdapterInv'
<1>1. ControlTypes'
  BY DEF AdapterInv, ControlTypes, Breaks, vendorVars
<1>2. StageInv'
  BY SameSelf DEF AdapterInv, StageInv, Breaks, vendorVars, Attentive, Codes
<1>3. (Attentive' => Attentive) /\ (ws' \notin Codes => ws \notin Codes) /\ reader' = reader
  BY DEF Breaks, Attentive
<1> QED
  BY <1>1, <1>2, <1>3, SocketMoves DEF Breaks

(* The silence of the keepalive loop.                                      *)
LEMMA KeepAliveStep ==
  ASSUME AdapterInv, KeepAlive
  PROVE  AdapterInv'
<1> DEFINE d == [vd EXCEPT !.silence = @ + 1]
<1>1. /\ vendor = "aws" /\ vd' = d
      /\ UNCHANGED <<vendor, ws, sent, finished, feeder, reader, failure, closed, st, out, down, at>>
  BY DEF KeepAlive, adapterVars
<1>2. Told /\ StoryInv /\ ToldInv /\ sent \in Nat /\ Heard \in Nat /\ Len(at) = Heard
  BY ToldBy
<1>3. vd \in VendorType
  BY DEF AdapterInv, VendorInv
<1>4. /\ d \in VendorType /\ d.silence = vd.silence + 1 /\ vd.silence \in Nat
  BY <1>3 DEF VendorType
<1>5. /\ d.final = vd.final /\ d.prov = vd.prov /\ d.locked = vd.locked /\ d.items = vd.items
      /\ d.eos = vd.eos /\ d.bye = vd.bye /\ d.broke = vd.broke
  BY <1>3 DEF VendorType
<1> HIDE DEF d
<1>6. ControlTypes' /\ WindowInv'
  BY <1>1 DEF AdapterInv, ControlTypes, WindowInv
<1>7. AudioInv'
  <2>1. \A i \in 1 .. Len(at) : at[i] > 0 /\ at[i] <= sent + (vd.silence + 1)
    <3> TAKE i \in 1 .. Len(at)
    <3>1. at[i] \in Nat /\ at[i] > 0 /\ at[i] <= sent + vd.silence
      BY DEF AdapterInv, AudioInv
    <3> QED
      BY <3>1, <1>2, <1>4
  <2> QED
    BY <1>1, <1>4, <2>1 DEF AdapterInv, AudioInv
<1>8. VendorInv'
  BY <1>1, <1>4, <1>5, SameSelf DEF AdapterInv, VendorInv
<1>9. StageInv'
  BY <1>1, <1>5, SameSelf DEF AdapterInv, StageInv, Attentive
<1>10. StoryInv'
  <2>1. Len(at') \in Nat /\ Len(at) <= Len(at') /\ (Attentive' => Attentive)
    BY <1>1, <1>2 DEF Attentive
  <2> QED
    BY <1>1, <1>2, <1>5, <2>1, StoryHeld
<1>11. ToldInv'
  <2>1. sent' \in Nat /\ sent <= sent'
    BY <1>1, <1>2
  <2> QED
    BY <1>1, <1>2, <1>5, <2>1, ToldHeld
<1> QED
  BY <1>6, <1>7, <1>8, <1>9, <1>10, <1>11 DEF AdapterInv

(* Audio. *)
LEMMA FedFields ==
  ASSUME NEW n \in Nat
  PROVE  Fed(n) \in Seq(Nat) /\ Len(Fed(n)) = n /\ \A i \in 1 .. n : Fed(n)[i] = i
<1>1. \A c \in 1 .. n : c \in Nat
  OBVIOUS
<1> QED
  BY <1>1 DEF Fed

LEMMA NoGoodbyeYet ==
  ASSUME AdapterInv, ~finished
  PROVE  /\ ~vd.eos /\ (vd.bye => vd.broke) /\ (vendor = "meta_ptt" => vd.final = 0)
         /\ (ws = "open" \/ ws \in Codes \cup {"ok"} => reader # "none") /\ reader # "returned"
         /\ (feeder = "feeding" => reader # "raised") /\ feeder \notin {"grace", "done"}
BY DEF AdapterInv, VendorInv, StageInv, Codes

LEMMA AudioStep ==
  ASSUME AdapterInv, ~finished, UNCHANGED <<vendor, ws, reader, st, out, down>>,
         ControlTypes', StageInv', AudioInv', WindowInv', sent' \in Nat, sent <= sent',
         Len(at') \in Nat, Len(at) <= Len(at'), \A i \in 1 .. Len(at) : at'[i] = at[i],
         vd' \in VendorType, vd'.eos => finished' /\ vendor \notin Hangers,
         vd'.final = vd.final, vd'.prov = vd.prov, vd'.locked = vd.locked,
         vd'.items = vd.items, vd'.bye = vd.bye, vd'.broke = vd.broke
  PROVE  AdapterInv'
<1>1. /\ Told /\ StoryInv /\ ToldInv /\ sent \in Nat /\ Heard \in Nat /\ Len(at) = Heard
      /\ finished \in BOOLEAN
  BY ToldBy DEF Told, ControlTypes
<1>2. VendorInv'
  <2>1. /\ vd.final \in Nat /\ vd.prov \in Nat /\ vd.locked \in Nat
        /\ vd.final <= Heard /\ vd.prov <= Heard /\ vd.locked <= Heard
    BY <1>1, Hearing
  <2>2. vd'.final <= Len(at') /\ vd'.prov <= Len(at') /\ vd'.locked <= Len(at')
    BY <1>1, <2>1
  <2> QED
    BY <2>2, NoGoodbyeYet, SameSelf DEF AdapterInv, VendorInv
<1>3. StoryInv'
  <2>1. (Attentive' => Attentive) /\ (finished => finished')
    BY DEF Attentive
  <2> QED
    BY <1>1, <2>1, StoryHeld
<1>4. ToldInv'
  BY <1>1, ToldHeld
<1> QED
  BY <1>2, <1>3, <1>4 DEF AdapterInv

LEMMA PalabraSends ==
  ASSUME AdapterInv, vendor = "palabra", NEW n \in Nat, NEW s \in Nat, n <= s, sent <= n,
         s <= Chunks, at' = Fed(n), sent' = s, vendor' = vendor, vd'.silence = vd.silence
  PROVE  /\ AudioInv' /\ Len(at') \in Nat /\ Len(at) <= Len(at')
         /\ \A i \in 1 .. Len(at) : at'[i] = at[i]
<1>1. /\ Told /\ sent \in Nat /\ Heard \in Nat /\ Len(at) = Heard /\ Heard <= sent
      /\ (\A i \in 1 .. Len(at) : at[i] = i) /\ vd.silence = 0
  BY ToldBy DEF AdapterInv, AudioInv
<1>2. at' \in Seq(Nat) /\ Len(at') = n /\ \A i \in 1 .. n : at'[i] = i
  BY FedFields
<1>3. s \in 0 .. Chunks
  BY NaturalChunks
<1>4. AudioInv'
  <2>1. \A i \in 1 .. Len(at') : at'[i] > 0 /\ at'[i] <= s + 0
    BY <1>2
  <2>2. \A i, j \in 1 .. Len(at') : i < j => at'[i] < at'[j]
    BY <1>2
  <2> QED
    BY <1>1, <1>2, <1>3, <2>1, <2>2 DEF AudioInv
<1>5. \A i \in 1 .. Len(at) : at'[i] = at[i]
  BY <1>1, <1>2
<1> QED
  BY <1>1, <1>2, <1>4, <1>5

LEMMA OthersSend ==
  ASSUME AdapterInv, vendor # "palabra", sent < Chunks, sent' = sent + 1,
         at' = Append(at, sent + 1 + vd.silence), vendor' = vendor, vd'.silence = vd.silence
  PROVE  /\ AudioInv' /\ Len(at') \in Nat /\ Len(at) <= Len(at')
         /\ \A i \in 1 .. Len(at) : at'[i] = at[i]
<1> DEFINE L == Len(at)
           z == sent + 1 + vd.silence
           a == Append(at, z)
<1>1. /\ sent \in Nat /\ L = sent /\ vd.silence \in Nat /\ at \in Seq(Nat) /\ L \in Nat
      /\ z \in Nat /\ z > 0 /\ vd.silence >= 0
  <2>1. sent \in Nat /\ at \in Seq(Nat) /\ L = sent /\ vd.silence \in Nat
    BY ToldBy DEF AdapterInv, AudioInv, VendorInv, VendorType
  <2> QED
    BY <2>1
<1>2. /\ a \in Seq(Nat) /\ Len(a) = L + 1 /\ a[L + 1] = z /\ \A i \in 1 .. L : a[i] = at[i]
  BY <1>1
<1>3. \A i \in 1 .. L : at[i] \in Nat /\ at[i] > 0 /\ at[i] <= sent + vd.silence
  BY DEF AdapterInv, AudioInv
<1>4. \A i, j \in 1 .. L : i < j => at[i] < at[j]
  BY DEF AdapterInv, AudioInv
<1>5. vendor # "aws" => vd.silence = 0 /\ \A i \in 1 .. L : at[i] = i
  BY DEF AdapterInv, AudioInv
<1>6. sent + 1 \in 0 .. Chunks
  BY <1>1, NaturalChunks
<1>7. a = at'
  OBVIOUS
<1> HIDE DEF a
<1>8. \A i \in 1 .. L + 1 : i \in 1 .. L \/ i = L + 1
  BY <1>1
<1>9. \A i \in 1 .. L + 1 : a[i] > 0 /\ a[i] <= sent + 1 + vd.silence
  <2> TAKE i \in 1 .. L + 1
  <2>1. CASE i \in 1 .. L
    <3>1. a[i] = at[i] /\ at[i] \in Nat /\ at[i] > 0 /\ at[i] <= sent + vd.silence
      BY <1>2, <1>3, <2>1
    <3> QED
      BY <1>1, <3>1
  <2>2. CASE i = L + 1
    BY <1>1, <1>2, <2>2
  <2> QED
    BY <1>8, <2>1, <2>2
<1>10. \A i, j \in 1 .. L + 1 : i < j => a[i] < a[j]
  <2> TAKE i, j \in 1 .. L + 1
  <2> HAVE i < j
  <2>0. i \in 1 .. L
    BY <1>1
  <2>1. CASE j \in 1 .. L
    BY <1>2, <1>4, <2>0, <2>1
  <2>2. CASE j = L + 1
    <3>1. a[i] = at[i] /\ at[i] \in Nat /\ at[i] <= sent + vd.silence /\ a[j] = z
      BY <1>2, <1>3, <2>0, <2>2
    <3> QED
      BY <1>1, <3>1
  <2> QED
    BY <1>8, <2>1, <2>2
<1>11. vendor # "aws" => \A i \in 1 .. L + 1 : a[i] = i
  <2> SUFFICES ASSUME vendor # "aws", NEW i \in 1 .. L + 1 PROVE a[i] = i
    OBVIOUS
  <2>1. CASE i \in 1 .. L
    BY <1>2, <1>5, <2>1
  <2>2. CASE i = L + 1
    BY <1>1, <1>2, <1>5, <2>2
  <2> QED
    BY <1>8, <2>1, <2>2
<1>12. AudioInv'
  BY <1>1, <1>2, <1>5, <1>6, <1>7, <1>9, <1>10, <1>11 DEF AudioInv
<1> QED
  BY <1>1, <1>2, <1>7, <1>12

LEMMA SendAudioStep ==
  ASSUME AdapterInv, SendAudio
  PROVE  AdapterInv'
<1>1. /\ ~finished /\ sent < Chunks /\ sent' = sent + 1 /\ vd' = vd /\ vendor' = vendor
      /\ UNCHANGED <<ws, finished, feeder, reader, failure, closed, st, out, down>>
      /\ (vendor = "speechmatics" => sent - st < AckWindow)
  BY DEF SendAudio
<1>2. sent \in Nat /\ sent + 1 \in Nat /\ sent + 1 <= Chunks /\ Chunks \in Nat
  BY <1>1, ToldBy, NaturalChunks
<1>3. /\ AudioInv' /\ Len(at') \in Nat /\ Len(at) <= Len(at')
      /\ \A i \in 1 .. Len(at) : at'[i] = at[i]
  <2>1. CASE vendor = "palabra"
    <3>1. PICK kept \in {0, 1} : at' = Fed(sent + 1 - kept)
      BY <2>1 DEF SendAudio
    <3> DEFINE n == sent + 1 - kept
    <3>2. n \in Nat /\ n <= sent + 1 /\ sent <= n
      BY <1>2
    <3> HIDE DEF n
    <3>3. at' = Fed(n)
      BY <3>1 DEF n
    <3> QED
      BY <1>1, <1>2, <2>1, <3>2, <3>3, PalabraSends
  <2>2. CASE vendor # "palabra"
    <3>1. at' = Append(at, sent + 1 + vd.silence)
      BY <2>2 DEF SendAudio
    <3> QED
      BY <1>1, <2>2, <3>1, OthersSend
  <2> QED
    BY <2>1, <2>2
<1>4. ControlTypes'
  BY <1>1 DEF AdapterInv, ControlTypes
<1>5. StageInv'
  BY <1>1, SameSelf DEF AdapterInv, StageInv, Attentive
<1>6. WindowInv'
  <2>1. vendor = "speechmatics" => st \in Nat /\ (sent + 1) - st <= AckWindow
    BY <1>1, <1>2, NaturalChunks DEF AdapterInv, WindowInv
  <2> QED
    BY <1>1, <2>1 DEF WindowInv
<1>7. vd \in VendorType /\ ~vd.eos
  BY <1>1, NoGoodbyeYet DEF AdapterInv, VendorInv
<1>8. sent' \in Nat /\ sent <= sent'
  BY <1>1, <1>2
<1> QED
  BY <1>1, <1>3, <1>4, <1>5, <1>6, <1>7, <1>8, AudioStep

LEMMA FinishStep ==
  ASSUME AdapterInv, Finish
  PROVE  AdapterInv'
<1> DEFINE z == (ws = "open" /\ vendor \notin {"telnyx", "palabra"})
           d == [vd EXCEPT !.eos = z]
<1>1. /\ ~finished /\ finished' /\ sent' = sent /\ vendor' = vendor /\ vd' = d
      /\ UNCHANGED <<ws, reader, failure, closed, st, out, down>>
      /\ feeder = "feeding" /\ ws \in Codes \cup {"open", "ok"} /\ finished' = TRUE
      /\ feeder' = IF vendor \in {"telnyx", "palabra"} THEN "grace" ELSE "done"
      /\ at' = IF vendor = "palabra" /\ ws = "open" THEN Fed(sent) ELSE at
  BY DEF Finish
<1>2. Told /\ sent \in Nat /\ Heard \in Nat /\ Len(at) = Heard /\ sent <= Chunks
  BY ToldBy, NaturalChunks DEF AdapterInv, AudioInv
<1>3. vd \in VendorType
  BY DEF AdapterInv, VendorInv
<1>4. z \in BOOLEAN
  OBVIOUS
<1>5. z => vendor \notin Hangers
  BY DEF Hangers
<1> HIDE DEF z
<1>6. /\ d \in VendorType /\ d.eos = z /\ d.final = vd.final /\ d.prov = vd.prov
      /\ d.locked = vd.locked /\ d.items = vd.items /\ d.bye = vd.bye /\ d.broke = vd.broke
      /\ d.silence = vd.silence
  BY <1>3, <1>4 DEF VendorType
<1> HIDE DEF d
<1>7. /\ AudioInv' /\ Len(at') \in Nat /\ Len(at) <= Len(at')
      /\ \A i \in 1 .. Len(at) : at'[i] = at[i]
  <2>1. CASE vendor = "palabra" /\ ws = "open"
    <3>1. sent \in Nat /\ sent <= sent /\ at' = Fed(sent)
      BY <1>1, <1>2, <2>1
    <3> QED
      BY <1>1, <1>2, <1>6, <2>1, <3>1, PalabraSends
  <2>2. CASE ~(vendor = "palabra" /\ ws = "open")
    <3>1. at' = at
      BY <1>1, <2>2
    <3> QED
      BY <1>1, <1>2, <1>6, <3>1 DEF AdapterInv, AudioInv
  <2> QED
    BY <2>1, <2>2
<1>8. ControlTypes'
  BY <1>1 DEF AdapterInv, ControlTypes
<1>9. StageInv'
  BY <1>1, <1>6, NoGoodbyeYet, SameSelf DEF AdapterInv, StageInv, Attentive, Hangers
<1>10. WindowInv'
  BY <1>1 DEF AdapterInv, WindowInv
<1>11. sent' \in Nat /\ sent <= sent' /\ UNCHANGED <<vendor, ws, reader, st, out, down>>
  BY <1>1, <1>2
<1>12. vd' \in VendorType /\ (vd'.eos => finished' /\ vendor \notin Hangers)
  BY <1>1, <1>5, <1>6
<1>13. /\ vd'.final = vd.final /\ vd'.prov = vd.prov /\ vd'.locked = vd.locked
       /\ vd'.items = vd.items /\ vd'.bye = vd.bye /\ vd'.broke = vd.broke
  BY <1>1, <1>6
<1> QED
  BY <1>1, <1>7, <1>8, <1>9, <1>10, <1>11, <1>12, <1>13, AudioStep

----------------------------------------------------------------------------
(* What is read.                                                           *)
LEMMA ParseHeeds ==
  ASSUME NEW m
  PROVE  Parse(m) = Heeds(vendor, m, st, sent)
BY DEF Parse, Heeds

LEMMA FluxReadsOn ==
  ASSUME NEW m, NEW s
  PROVE  FluxParse(m, s).then # "return"
BY DEF FluxParse, Raises, Says

(* Receive, with what the message came to: view g to view i, on the way to h. *)
LEMMA Received ==
  ASSUME AdapterInv, Receive
  PROVE  \E r, g, i, h :
           /\ r = Parse(Head(down)) /\ Takes(vendor, r, g, i, st)
           /\ UpTo(vendor, out, g) /\ UpTo(vendor, out \o r.out, i) /\ g \in Views /\ i \in Views
           /\ Along(Heard, finished, i) /\ Matches(vd, h)
           /\ Leads(vendor, Heard, finished, Tail(down), i, h)
           /\ down \in Seq(Message) /\ down # <<>> /\ Attentive
<1>1. down # <<>> /\ Attentive
  BY DEF Receive, Attentive
<1>2. Told /\ StoryInv /\ sent \in Nat /\ Len(at) = Heard /\ down \in Seq(Message)
  BY ToldBy DEF AdapterInv, VendorInv
<1>3. PICK g, h : /\ Leads(vendor, Heard, finished, down, g, h)
                  /\ Knows(vendor, g, st) /\ ~g.over /\ UpTo(vendor, out, g) /\ Matches(vd, h)
  BY <1>1, <1>2 DEF StoryInv
<1>4. PICK i : /\ Tells(vendor, Head(down), g, i) /\ Leads(vendor, Heard, finished, Tail(down), i, h)
               /\ Along(Heard, finished, i)
  BY <1>1, <1>2, <1>3, HeadOff
<1> DEFINE r == Parse(Head(down))
<1>5. Takes(vendor, r, g, i, st)
  BY <1>2, <1>3, <1>4, ParseHeeds DEF Tells
<1>6. Along(Heard, finished, g)
  BY <1>2, <1>3, LeadsInto
<1>7. g \in Views /\ i \in Views
  BY <1>4, <1>6 DEF Along
<1> HIDE DEF r
<1>8. Good(vendor, r.out, g, i)
  BY <1>5 DEF Takes
<1>9. UpTo(vendor, out \o r.out, i)
  <2>1. r.out \in Seq(Event)
    BY <1>8 DEF Good
  <2>2. out \in Seq(Event)
    BY <1>3 DEF UpTo, Heeded
  <2> QED
    BY <1>3, <1>7, <1>8, <2>1, <2>2, GoodMore
<1>10. r = Parse(Head(down))
  BY DEF r
<1> QED
  BY <1>1, <1>2, <1>3, <1>4, <1>5, <1>7, <1>9, <1>10

LEMMA UpToFields ==
  ASSUME Told, NEW o, NEW g \in Views, UpTo(vendor, o, g), g.final <= Heard
  PROVE  Heeded(vendor, o) /\ Settled(o) = 1 .. g.final /\ Settled(o) \subseteq 1 .. sent
<1>1. g.final \in Nat /\ Heard \in Nat /\ sent \in Nat /\ Heard <= sent
  BY ViewFields, Hearing, NaturalChunks DEF Told, AudioInv, Heard
<1> QED
  BY <1>1 DEF UpTo

LEMMA SeenToTheEnd ==
  ASSUME NEW d, NEW h, Matches(d, h), vendor \notin {"flux", "soniox"}, ~d.broke
  PROVE  h.final = d.final
BY DEF Matches, AtWork

LEMMA ReceiveStep ==
  ASSUME AdapterInv, Receive
  PROVE  AdapterInv'
<1>1. PICK r, g, i, h :
        /\ r = Parse(Head(down)) /\ Takes(vendor, r, g, i, st)
        /\ UpTo(vendor, out, g) /\ UpTo(vendor, out \o r.out, i) /\ g \in Views /\ i \in Views
        /\ Along(Heard, finished, i) /\ Matches(vd, h)
        /\ Leads(vendor, Heard, finished, Tail(down), i, h)
        /\ down \in Seq(Message) /\ down # <<>> /\ Attentive
  BY Received
<1>2. /\ out' = out \o r.out /\ st' = r.st /\ down' = Tail(down)
      /\ reader' = (CASE r.then = "read" -> Waits [] r.then = "return" -> "returned"
                      [] OTHER -> "raised")
      /\ failure' = (IF r.then \in {"recoverable", "fatal"} THEN r.then ELSE failure)
      /\ feeder' = (IF r.then \in {"recoverable", "fatal"} THEN Cancelled ELSE feeder)
      /\ UNCHANGED <<vendor, ws, sent, finished, closed, at, vd>> /\ reader \in {"recv", "timed"}
  BY <1>1 DEF Receive
<1>3. /\ Told /\ ToldInv /\ sent \in Nat /\ Heard \in Nat /\ Len(at) = Heard /\ finished \in BOOLEAN
      /\ vendor \in Dialects /\ feeder \in {"feeding", "grace", "done", "dead"}
      /\ failure \in {"none", "recoverable", "fatal"}
  BY ToldBy, Hearing DEF Told, ControlTypes
<1>4. /\ i.final \in Nat /\ i.final <= Heard /\ (i.told => finished)
  BY <1>1, <1>3, ViewFields DEF Along
<1>5. Heeded(vendor, out') /\ Settled(out') = 1 .. i.final /\ Settled(out') \subseteq 1 .. sent
  BY <1>1, <1>2, <1>3, <1>4, UpToFields
<1>6. Tail(down) \in Seq(Message)
  BY <1>1
<1>7. AudioInv'
  BY <1>2 DEF AdapterInv, AudioInv
<1>8. VendorInv'
  BY <1>2, <1>6, SameSelf DEF AdapterInv, VendorInv
<1>9. WindowInv'
  <2>1. vendor = "speechmatics" => r.st \in Nat /\ r.st >= st
    BY <1>1 DEF Takes
  <2>2. vendor = "speechmatics" => sent - r.st <= AckWindow
    BY <1>3, <2>1, NaturalChunks DEF AdapterInv, WindowInv
  <2> QED
    BY <1>2, <2>1, <2>2 DEF WindowInv
<1>10. Waits \in {"recv", "timed"} /\ (Waits = "timed" => Self.drains /\ finished)
  BY DEF Waits
<1>11. CASE r.then = "read" /\ ~i.over /\ Knows(vendor, i, r.st)
  <2>1. reader' = Waits /\ failure' = failure /\ feeder' = feeder
    BY <1>2, <1>11
  <2>2. ControlTypes'
    BY <1>2, <1>10, <2>1 DEF AdapterInv, ControlTypes
  <2>3. StageInv'
    BY <1>2, <1>10, <2>1, SameSelf DEF AdapterInv, StageInv, Attentive
  <2>4. StoryInv'
    <3>1. Leads(vendor, Len(at), finished, down, i, h)'
      BY <1>1, <1>2 DEF Heard
    <3>2. Matches(vd, h)'
      BY <1>1, <1>2, StillMatches
    <3>3. Knows(vendor, i, st)' /\ UpTo(vendor, out, i)'
      BY <1>1, <1>2, <1>11
    <3> QED
      BY <1>11, <3>1, <3>2, <3>3 DEF StoryInv
  <2>5. ToldInv'
    <3>1. NoWordLost'
      BY <1>10, <2>1 DEF NoWordLost
    <3> QED
      BY <1>2, <1>5, <3>1 DEF ToldInv
  <2> QED
    BY <1>7, <1>8, <1>9, <2>2, <2>3, <2>4, <2>5 DEF AdapterInv
<1>12. CASE r.then = "return" /\ i.over /\ i.told
  <2>1. reader' = "returned" /\ failure' = failure /\ feeder' = feeder
    BY <1>2, <1>12
  <2>2. ControlTypes'
    BY <1>2, <2>1 DEF AdapterInv, ControlTypes
  <2>3. StageInv'
    BY <1>2, <1>4, <1>12, <2>1, SameSelf DEF AdapterInv, StageInv, Attentive
  <2>4. StoryInv'
    BY <2>1 DEF StoryInv, Attentive
  <2>5. NoWordLost'
    <3>1. vendor # "flux"
      <4>1. SUFFICES ASSUME vendor = "flux" PROVE FALSE
        OBVIOUS
      <4>2. r = FluxParse(Head(down), st)
        BY <1>1, <4>1 DEF Parse, Meta
      <4> QED
        BY <1>12, <4>2, FluxReadsOn
    <3>2. h = i
      <4> DEFINE q == Tail(down)
      <4>1. Leads(vendor, Heard, finished, q, i, h) /\ q \in Seq(Message) /\ i.over
        BY <1>1, <1>6, <1>12
      <4> HIDE DEF q
      <4> QED
        BY <4>1, OverIsLast
    <3>3. vd.bye
      BY <1>1, <1>12, <3>2 DEF Matches, AtWork
    <3>4. ~vd.broke => i.final = vd.final
      BY <1>1, <3>1, <3>2, <3>3 DEF Matches
    <3> QED
      BY <1>2, <1>5, <3>4 DEF NoWordLost
  <2>6. ToldInv'
    BY <1>2, <1>5, <2>5 DEF ToldInv
  <2> QED
    BY <1>7, <1>8, <1>9, <2>2, <2>3, <2>4, <2>6 DEF AdapterInv
<1>13. CASE r.then \in {"recoverable", "fatal"} /\ i.over /\ r.out = <<>>
  <2>1. reader' = "raised" /\ failure' = r.then /\ feeder' = Cancelled
    BY <1>2, <1>13
  <2>2. Cancelled \in {"done", "dead"} /\ (Cancelled = "done" => feeder = "done")
    BY DEF Cancelled
  <2>3. ControlTypes'
    BY <1>2, <1>13, <2>1, <2>2 DEF AdapterInv, ControlTypes
  <2>4. StageInv'
    BY <1>2, <2>1, <2>2, SameSelf DEF AdapterInv, StageInv, Attentive
  <2>5. StoryInv'
    BY <2>1 DEF StoryInv, Attentive
  <2>6. ToldInv'
    <3>1. NoWordLost'
      BY <2>1 DEF NoWordLost
    <3> QED
      BY <1>2, <1>5, <3>1 DEF ToldInv
  <2> QED
    BY <1>7, <1>8, <1>9, <2>3, <2>4, <2>5, <2>6 DEF AdapterInv
<1> QED
  BY <1>1, <1>11, <1>12, <1>13 DEF Takes

(* The story is over: nothing is left to read.                             *)
LEMMA AllRead ==
  ASSUME AdapterInv, Attentive, down = <<>>
  PROVE  \E g : /\ g \in Views /\ Along(Heard, finished, g) /\ Knows(vendor, g, st) /\ ~g.over
                /\ UpTo(vendor, out, g) /\ Matches(vd, g)
<1>1. StoryInv /\ Len(at) = Heard
  BY ToldBy
<1>2. PICK g, h : /\ Leads(vendor, Heard, finished, <<>>, g, h)
                  /\ Knows(vendor, g, st) /\ ~g.over /\ UpTo(vendor, out, g) /\ Matches(vd, h)
  BY <1>1 DEF StoryInv
<1>3. g = h /\ Along(Heard, finished, g)
  BY <1>2, NothingLeads
<1> QED
  BY <1>2, <1>3 DEF Along

(* events() ends, with some last words perhaps.                            *)
LEMMA ReaderEnds ==
  ASSUME AdapterInv, reader' \in {"returned", "raised"}, UNCHANGED <<vendor, ws, sent, finished, closed, st, vendorVars>>,
         feeder' \in {"feeding", "grace", "done", "dead"}, failure' \in {"none", "recoverable", "fatal"},
         reader \in {"recv", "timed"},
         reader' = "returned" => finished /\ feeder' = feeder, reader' = "raised" => feeder' = Cancelled,
         NEW g \in Views, UpTo(vendor, out', g), g.final <= Heard,
         reader' = "returned" /\ ws \notin Codes /\ ~vd.broke => g.final = vd.final
  PROVE  AdapterInv'
<1>1. UNCHANGED <<vendor, ws, sent, finished, closed, st, down, at, vd>>
  BY DEF vendorVars
<1>2. Told
  BY ToldBy
<1>3. Heeded(vendor, out') /\ Settled(out') = 1 .. g.final /\ Settled(out') \subseteq 1 .. sent
  BY <1>2, UpToFields
<1>4. ControlTypes'
  BY <1>1 DEF AdapterInv, ControlTypes
<1>5. AudioInv' /\ WindowInv'
  BY <1>1 DEF AdapterInv, AudioInv, WindowInv
<1>6. VendorInv'
  BY <1>1, SameSelf DEF AdapterInv, VendorInv
<1>7. Cancelled \in {"done", "dead"} /\ (Cancelled = "done" => feeder = "done")
  BY DEF Cancelled
<1>8. StageInv'
  BY <1>1, <1>7, SameSelf DEF AdapterInv, StageInv, Attentive
<1>9. StoryInv'
  BY DEF StoryInv, Attentive
<1>10. ToldInv'
  BY <1>1, <1>3 DEF ToldInv, NoWordLost
<1> QED
  BY <1>4, <1>5, <1>6, <1>8, <1>9, <1>10 DEF AdapterInv

LEMMA DrainStep ==
  ASSUME AdapterInv, DrainTimesOut
  PROVE  AdapterInv'
<1>1. /\ reader = "timed" /\ down = <<>> /\ reader' = "returned"
      /\ UNCHANGED <<vendor, ws, sent, finished, feeder, failure, closed, st, out, vendorVars>>
  BY DEF DrainTimesOut
<1>2. Attentive /\ finished /\ Self.drains /\ Told
  BY <1>1, ToldBy DEF Attentive, AdapterInv, StageInv
<1>3. PICK g : g \in Views /\ Along(Heard, finished, g) /\ UpTo(vendor, out, g) /\ Matches(vd, g)
  BY <1>1, <1>2, AllRead
<1>4. ~vd.broke => g.final = vd.final
  <2>1. vendor \in {"elevenlabs", "openai"}
    BY <1>2, Draining, Hearing
  <2> QED
    BY <1>3, <2>1, SeenToTheEnd
<1>5. g.final <= Heard
  BY <1>2, <1>3, ViewFields, Hearing DEF Along
<1>6. feeder \in {"feeding", "grace", "done", "dead"} /\ failure \in {"none", "recoverable", "fatal"}
  BY <1>2 DEF Told, ControlTypes
<1> QED
  BY <1>1, <1>2, <1>3, <1>4, <1>5, <1>6, ReaderEnds

LEMMA MadeFinal ==
  ASSUME NEW text \in SUBSET Int, NEW a \in Int, NEW b \in Int
  PROVE  /\ [Transcript(FALSE, text, a, b) EXCEPT !.final = TRUE] = Transcript(TRUE, text, a, b)
         /\ Transcript(FALSE, text, a, b).end = b
<1> DEFINE S == [type : {"transcript"}, final : BOOLEAN, text : SUBSET Int, start : Int, end : Int]
           p == Transcript(FALSE, text, a, b)
           q == Transcript(TRUE, text, a, b)
<1>1. p \in S /\ q \in S
  BY DEF Transcript
<1>2. p.type = q.type /\ q.final = TRUE /\ p.text = q.text /\ p.start = q.start /\ p.end = q.end
  BY DEF Transcript
<1>3. p.end = b
  BY DEF Transcript
<1> HIDE DEF p, q
<1>4. [p EXCEPT !.final = TRUE] = q
  BY <1>1, <1>2
<1> QED
  BY <1>3, <1>4 DEF p, q

(* What Flux has open when the socket closes is final then.                *)
LEMMA FluxCloses ==
  ASSUME vendor = "flux", NEW g \in Views, g.final <= g.more, FluxKnows(g, st), UpTo(vendor, out, g),
         g.time <= g.final
  PROVE  \E h \in Views : h.final = g.more /\ UpTo(vendor, out \o FluxAtClose(st), h)
<1>1. g.final \in Nat /\ g.more \in Nat /\ g.time \in Nat /\ g.more <= Chunks /\ Chunks \in Nat
  BY ViewFields, NaturalChunks
<1>2. out \in Seq(Event)
  BY DEF UpTo, Heeded
<1>3. CASE g.more = g.final
  <2>1. FluxAtClose(st) = <<>>
    BY <1>3 DEF FluxKnows, FluxAtClose
  <2>2. out \o <<>> = out
    BY <1>2
  <2> QED
    BY <1>3, <2>1, <2>2
<1>4. CASE g.more # g.final
  <2> DEFINE h == [g EXCEPT !.final = g.more, !.time = g.more]
             u == Transcript(FALSE, g.final + 1 .. g.more, g.final, g.more)
             e == Transcript(TRUE, g.final + 1 .. g.more, g.final, g.more)
  <2>1. h \in Views /\ h.final = g.more /\ h.time = g.more
    <3>1. g.more \in 0 .. Chunks
      BY <1>1
    <3> QED
      BY <1>1, <3>1 DEF Views
  <2>2. st = <<u>>
    BY <1>4 DEF FluxKnows
  <2>3. FluxAtClose(st) = <<e, UtteranceEnd(g.more)>>
    <3>1. st # <<>> /\ st[1] = u
      BY <2>2
    <3>2. [u EXCEPT !.final = TRUE] = e /\ u.end = g.more
      <4>1. g.final \in Int /\ g.more \in Int /\ g.final + 1 .. g.more \in SUBSET Int
        BY <1>1
      <4> QED
        BY <4>1, MadeFinal
    <3> QED
      BY <3>1, <3>2 DEF FluxAtClose
  <2> HIDE DEF h
  <2>4. Good(vendor, <<e, UtteranceEnd(g.more)>>, g, h)
    <3>0. e = Transcript(TRUE, g.final + 1 .. h.final, g.final, g.more)
      BY <2>1
    <3>1. e \in Event /\ Settles(vendor, e, g, h)
      <4>1. g.final \in Int /\ g.more \in Int /\ (vendor \in Pointing => g.final >= g.time)
        BY <1>1
      <4> HIDE DEF e
      <4> QED
        BY <2>1, <3>0, <4>1, FinalEvent
    <3>2. UtteranceEnd(g.more) \in Event /\ Harmless(vendor, UtteranceEnd(g.more), h)
      BY <1>1, <2>1, EndEvent
    <3> DEFINE p == <<e, UtteranceEnd(g.more)>>
    <3> HIDE DEF e
    <3>3. p \in Seq(Event) /\ Len(p) = 2 /\ p[1] = e /\ p[2] = UtteranceEnd(g.more)
      BY <3>1, <3>2
    <3> HIDE DEF p
    <3>4. \A k \in 2 .. Len(p) : Harmless(vendor, p[k], h)
      BY <3>2, <3>3
    <3>5. Good(vendor, p, g, h)
      BY <1>1, <1>4, <2>1, <3>1, <3>3, <3>4 DEF Good
    <3> QED
      BY <3>5 DEF p
  <2>5. <<e, UtteranceEnd(g.more)>> \in Seq(Event)
    BY <2>4 DEF Good
  <2>6. UpTo(vendor, out \o <<e, UtteranceEnd(g.more)>>, h)
    BY <1>2, <2>1, <2>4, <2>5, GoodMore
  <2> QED
    BY <2>1, <2>3, <2>6
<1> QED
  BY <1>3, <1>4

LEMMA EndedOnlyFinished ==
  ASSUME AdapterInv, Attentive, ws \in Codes \cup {"ok"}, EndsClean, NEW g \in Views,
         Along(Heard, finished, g), Knows(vendor, g, st), ~g.over, Matches(vd, g)
  PROVE  finished
<1> SUFFICES ASSUME ~finished PROVE FALSE
  OBVIOUS
<1>1. vd.bye => vd.broke
  BY NoGoodbyeYet
<1>2. CASE vendor = "xai"
  <2>1. st.done
    BY <1>2 DEF EndsClean, Meta
  <2> QED
    BY <1>2, <2>1 DEF Knows, XaiKnows, Along
<1>3. CASE vendor \in Meta
  <2>1. ~st.error /\ ws = "ok"
    BY <1>3 DEF EndsClean, Meta
  <2>2. vd.bye
    BY <1>3, <2>1 DEF AdapterInv, StageInv, Hangers, Meta
  <2>3. g.erred
    BY <1>1, <1>3, <2>2 DEF Matches, Meta
  <2> QED
    BY <1>3, <2>1, <2>3 DEF Knows, MetaKnows
<1>4. CASE vendor # "xai" /\ vendor \notin Meta
  <2>1. ws = "ok"
    BY <1>4 DEF EndsClean
  <2>2. vd.bye
    BY <2>1 DEF AdapterInv, StageInv
  <2> QED
    BY <1>1, <1>4, <2>2 DEF Matches
<1> QED
  BY <1>2, <1>3, <1>4

LEMMA ReadsCloseStep ==
  ASSUME AdapterInv, ReadsClose
  PROVE  AdapterInv'
<1>1. /\ reader \in {"recv", "timed"} /\ down = <<>> /\ ws \in Codes \cup {"ok"}
      /\ reader' = (IF EndsClean THEN "returned" ELSE "raised")
      /\ out' = (IF EndsClean /\ vendor = "flux" THEN out \o FluxAtClose(st) ELSE out)
      /\ failure' = (IF EndsClean THEN failure
                     ELSE IF ws \in Self.fatal THEN "fatal" ELSE "recoverable")
      /\ feeder' = (IF EndsClean THEN feeder ELSE Cancelled)
      /\ UNCHANGED <<vendor, ws, sent, finished, closed, st, vendorVars>>
  BY DEF ReadsClose
<1>2. Attentive /\ Told
  BY <1>1, ToldBy DEF Attentive
<1>3. PICK g : /\ g \in Views /\ Along(Heard, finished, g) /\ Knows(vendor, g, st) /\ ~g.over
               /\ UpTo(vendor, out, g) /\ Matches(vd, g)
  BY <1>1, <1>2, AllRead
<1>4. EndsClean => finished
  BY <1>1, <1>2, <1>3, EndedOnlyFinished
<1>5. g.final \in Nat /\ g.more \in Nat /\ g.final <= g.more /\ g.more <= Heard /\ Heard \in Nat
  BY <1>2, <1>3, ViewFields, Hearing DEF Along
<1>6. /\ feeder' \in {"feeding", "grace", "done", "dead"} /\ failure' \in {"none", "recoverable", "fatal"}
      /\ reader' \in {"returned", "raised"}
  BY <1>1, <1>2 DEF Told, ControlTypes, Cancelled
<1>7. EndsClean /\ ws \notin Codes /\ ~vd.broke =>
        (IF vendor = "flux" THEN g.more ELSE g.final) = vd.final
  <2> SUFFICES ASSUME EndsClean, ws = "ok", ~vd.broke
               PROVE  (IF vendor = "flux" THEN g.more ELSE g.final) = vd.final
    BY <1>1
  <2>1. CASE vd.bye
    BY <1>3, <2>1 DEF Matches
  <2>2. CASE ~vd.bye
    <3>1. vendor \in Hangers
      BY <1>2, <2>2 DEF AdapterInv, StageInv
    <3> QED
      BY <1>3, <3>1, SeenToTheEnd DEF Hangers
  <2> QED
    BY <2>1, <2>2
<1>8. CASE EndsClean /\ vendor = "flux"
  <2>1. g.time <= g.final
    <3>1. g.time <= TimeOf(g.final)
      BY <1>3, <1>8 DEF Matches
    <3>2. TimeOf(g.final) = g.final
      <4>1. g.final \in 0 .. Heard
        BY <1>5
      <4> QED
        BY <1>2, <1>8, <4>1, TimeFields
    <3> QED
      BY <3>1, <3>2
  <2>2. FluxKnows(g, st)
    BY <1>3, <1>8 DEF Knows
  <2>3. PICK h \in Views : h.final = g.more /\ UpTo(vendor, out \o FluxAtClose(st), h)
    BY <1>3, <1>5, <1>8, <2>1, <2>2, FluxCloses
  <2>4. UpTo(vendor, out', h) /\ h.final <= Heard
    BY <1>1, <1>5, <1>8, <2>3
  <2>5. ws \notin Codes /\ ~vd.broke => h.final = vd.final
    BY <1>7, <1>8, <2>3
  <2>6. reader' = "returned" /\ feeder' = feeder
    BY <1>1, <1>8
  <2> QED
    BY <1>1, <1>4, <1>6, <1>8, <2>4, <2>5, <2>6, ReaderEnds
<1>9. CASE EndsClean /\ vendor # "flux"
  <2>1. UpTo(vendor, out', g) /\ g.final <= Heard
    BY <1>1, <1>3, <1>5, <1>9
  <2>2. ws \notin Codes /\ ~vd.broke => g.final = vd.final
    BY <1>7, <1>9
  <2>3. reader' = "returned" /\ feeder' = feeder
    BY <1>1, <1>9
  <2> QED
    BY <1>1, <1>3, <1>4, <1>6, <1>9, <2>1, <2>2, <2>3, ReaderEnds
<1>10. CASE ~EndsClean
  <2>1. UpTo(vendor, out', g) /\ g.final <= Heard
    BY <1>1, <1>3, <1>5, <1>10
  <2>2. reader' = "raised" /\ feeder' = Cancelled
    BY <1>1, <1>10
  <2> QED
    BY <1>1, <1>3, <1>6, <2>1, <2>2, ReaderEnds
<1> QED
  BY <1>8, <1>9, <1>10

----------------------------------------------------------------------------
(* The beginning.                                                          *)
Blank ==
  [final |-> 0, more |-> 0, time |-> 0, item |-> 0, ahead |-> Chunks,
   seen |-> FALSE, erred |-> FALSE, told |-> FALSE, over |-> FALSE]

LEMMA BlankView ==
  /\ Blank \in Views /\ Blank.final = 0 /\ Blank.more = 0 /\ Blank.time = 0 /\ Blank.item = 0
  /\ Blank.ahead = Chunks /\ Blank.seen = FALSE /\ Blank.erred = FALSE
  /\ Blank.told = FALSE /\ Blank.over = FALSE
  /\ Along(0, FALSE, Blank)
<1>1. 0 \in 0 .. Chunks /\ Chunks \in 0 .. Chunks
  BY NaturalChunks
<1> QED
  BY <1>1 DEF Blank, Views, Along

LEMMA FreshIsKnown ==
  ASSUME NEW v \in Dialects
  PROVE  Knows(v, Blank, Fresh(v))
<1>1. 0 \in 0 .. Chunks /\ Chunks \in Nat /\ (1 .. 0) = {}
  BY NaturalChunks
<1> DEFINE b == Blank
<1>2. /\ b.final = 0 /\ b.more = 0 /\ b.time = 0 /\ b.item = 0
      /\ b.ahead = Chunks /\ b.seen = FALSE /\ b.erred = FALSE /\ b.told = FALSE
  BY BlankView
<1> HIDE DEF b
<1>3. CASE v = "deepgram"
  BY <1>3 DEF Fresh, Knows, Meta
<1>4. CASE v = "flux"
  BY <1>2, <1>4 DEF Fresh, Knows, FluxKnows, Meta, b
<1>5. CASE v = "soniox"
  <2>1. Fresh(v) = [pending |-> {}, max |-> 0]
    BY <1>5 DEF Fresh, Meta
  <2>2. b.final + 1 .. b.more = {}
    BY <1>2
  <2>3. SonioxKnows(b, Fresh(v))
    BY <1>2, <2>1, <2>2 DEF SonioxKnows
  <2> QED
    BY <1>5, <2>3 DEF Knows, Meta, b
<1>6. CASE v = "openai"
  <2> DEFINE s == [item \in 0 .. Chunks |-> {}]
  <2>1. Fresh(v) = s
    BY <1>6 DEF Fresh, Meta
  <2>2. s \in [0 .. Chunks -> SUBSET (1 .. Chunks)] /\ \A i \in 0 .. Chunks : s[i] = {}
    OBVIOUS
  <2> HIDE DEF s
  <2>3. OpenAIKnows(b, s)
    BY <1>1, <1>2, <2>2 DEF OpenAIKnows
  <2> QED
    BY <1>6, <2>1, <2>3 DEF Knows, Meta, b
<1>7. CASE v = "mistral"
  <2> DEFINE s == [hypothesis |-> {}, segments |-> 0]
  <2>1. Fresh(v) = s
    BY <1>7 DEF Fresh, Meta
  <2>2. MistralKnows(b, s)
    BY <1>2 DEF MistralKnows
  <2> QED
    BY <1>7, <2>1, <2>2 DEF Knows, Meta, b
<1>8. CASE v = "xai"
  <2> DEFINE s == [start |-> NoTime, locked |-> {}, locked_end |-> 0, final |-> 0,
                   done |-> FALSE, error |-> FALSE]
  <2>1. Fresh(v) = s
    BY <1>8 DEF Fresh, Meta
  <2>2. NoTime \in Int
    BY DEF NoTime
  <2>3. s \in XaiState
    BY <2>2 DEF XaiState
  <2>4. s.final = 0 /\ s.locked = {} /\ s.locked_end = 0 /\ s.start = NoTime /\ s.done = FALSE
    OBVIOUS
  <2> HIDE DEF s
  <2>5. s.locked = b.final + 1 .. b.more
    BY <1>2, <2>4
  <2>6. XaiKnows(b, s)
    BY <1>2, <2>3, <2>4, <2>5 DEF XaiKnows
  <2> QED
    BY <1>8, <2>1, <2>6 DEF Knows, Meta, b
<1>9. CASE v \in Meta
  <2> DEFINE z == [t \in 0 .. Chunks |-> NoTime]
             s == [turn |-> NoTime, starts |-> z, ends |-> z, seen |-> FALSE, error |-> FALSE]
  <2>1. Fresh(v) = s
    BY <1>9 DEF Fresh, Meta
  <2>2. z \in [0 .. Chunks -> Int]
    BY DEF NoTime
  <2> HIDE DEF z
  <2>3. s \in MetaState /\ s.seen = FALSE /\ s.error = FALSE
    BY <2>2 DEF MetaState
  <2> HIDE DEF s
  <2>4. MetaKnows(v, b, s)
    BY <1>2, <2>3 DEF MetaKnows
  <2> QED
    BY <1>9, <2>1, <2>4 DEF Knows, Meta, b
<1>10. CASE v \notin {"deepgram", "flux", "soniox", "openai", "mistral", "xai"} \cup Meta
  <2>1. Fresh(v) = 0
    BY <1>10 DEF Fresh
  <2> QED
    BY <1>10, <2>1 DEF Knows
<1> QED
  BY <1>3, <1>4, <1>5, <1>6, <1>7, <1>8, <1>9, <1>10 DEF b

LEMMA NothingSaid ==
  Heeded(vendor, <<>>) /\ Settled(<<>>) = {} /\ UpTo(vendor, <<>>, Blank)
<1>1. Finals(<<>>) = {} /\ DOMAIN <<>> = {}
  BY DEF Finals
<1>2. Settled(<<>>) = {}
  BY <1>1 DEF Settled
<1>3. Heeded(vendor, <<>>)
  BY <1>1 DEF Heeded, Disjoint, News, Closes
<1>4. 1 .. Blank.final = {}
  BY BlankView
<1> QED
  BY <1>1, <1>2, <1>3, <1>4 DEF UpTo

LEMMA InitInv == Init => AdapterInv
<1> SUFFICES ASSUME Init PROVE AdapterInv
  OBVIOUS
<1> DEFINE d == [final |-> 0, prov |-> 0, pointed |-> 0, locked |-> 0, items |-> 0, acked |-> 0,
                 silence |-> 0, eos |-> FALSE, bye |-> FALSE, broke |-> FALSE]
<1>1. /\ vendor \in Vendors /\ ws = "none" /\ sent = 0 /\ finished = FALSE /\ feeder = "feeding"
      /\ reader = "none" /\ failure = "none" /\ closed = FALSE
      /\ st = Fresh(vendor) /\ out = <<>> /\ down = <<>> /\ at = <<>> /\ vd = d
  BY DEF Init
<1>2. vendor \in Dialects /\ 0 \in 0 .. Chunks /\ Chunks \in Nat /\ AckWindow \in Nat
  BY <1>1, NaturalChunks, StreamAssumption
<1>3. /\ d \in VendorType /\ d.final = 0 /\ d.prov = 0 /\ d.locked = 0 /\ d.items = 0
      /\ d.silence = 0 /\ d.eos = FALSE /\ d.bye = FALSE /\ d.broke = FALSE
  BY <1>2 DEF VendorType
<1> HIDE DEF d
<1>4. ControlTypes
  BY <1>1 DEF ControlTypes
<1>5. AudioInv
  BY <1>1, <1>2, <1>3 DEF AudioInv
<1>6. VendorInv
  BY <1>1, <1>3 DEF VendorInv
<1>7. StageInv
  BY <1>1 DEF StageInv, Attentive
<1>8. WindowInv
  <2>1. vendor = "speechmatics" => st = 0
    BY <1>1 DEF Fresh, Meta
  <2> QED
    BY <1>1, <1>2, <2>1 DEF WindowInv
<1>9. StoryInv
  <2>1. Along(0, FALSE, Blank)
    BY BlankView
  <2>2. Leads(vendor, Len(at), finished, down, Blank, Blank)
    BY <1>1, <2>1, NothingMore
  <2>3. Knows(vendor, Blank, st)
    BY <1>1, <1>2, FreshIsKnown
  <2>4. UpTo(vendor, out, Blank)
    BY <1>1, NothingSaid
  <2>5. AtWork(vd, Blank)
    <3>1. TimeOf(Blank.final) = 0
      BY BlankView DEF TimeOf
    <3> QED
      BY <1>1, <1>3, <3>1, BlankView DEF AtWork
  <2>6. Matches(vd, Blank)
    BY <1>1, <1>3, <2>5, AtWorkMatches
  <2> QED
    BY <2>2, <2>3, <2>4, <2>6, BlankView DEF StoryInv
<1>10. ToldInv
  <2>1. NoWordLost
    BY <1>1 DEF NoWordLost
  <2> QED
    BY <1>1, <2>1, NothingSaid DEF ToldInv
<1> QED
  BY <1>4, <1>5, <1>6, <1>7, <1>8, <1>9, <1>10 DEF AdapterInv

----------------------------------------------------------------------------
(* The theorems.                                                           *)
LEMMA StutterStep ==
  ASSUME AdapterInv, UNCHANGED vars
  PROVE  AdapterInv'
<1>1. UNCHANGED <<vendor, ws, sent, finished, feeder, reader, failure, closed, st, out, down, at, vd>>
  BY DEF vars, adapterVars, vendorVars
<1>2. ControlTypes' /\ StageInv'
  BY <1>1, SameSelf DEF AdapterInv, ControlTypes, StageInv, Attentive
<1>3. (Attentive' => Attentive) /\ UNCHANGED vendorVars
  BY <1>1 DEF Attentive, vendorVars
<1> QED
  BY <1>1, <1>2, <1>3, SocketMoves

LEMMA NextInv ==
  ASSUME NoTermination, AdapterInv, [Next]_vars
  PROVE  AdapterInv'
<1>1. CASE Dial \/ HandshakeDone \/ ConnectFails \/ Close
  BY <1>1, DialStep, HandshakeStep, ConnectFailsStep, CloseStep
<1>2. CASE Feeder \/ KeepAlive
  BY <1>2, SendAudioStep, SendFailsStep, FinishStep, GraceEndsStep, KeepAliveStep DEF Feeder
<1>3. CASE Events
  BY <1>3, ReceiveStep, ReadsCloseStep, DrainStep DEF Events
<1>4. CASE VendorNext
  BY <1>4, SpeaksStep, HangsUpStep, BreaksStep DEF VendorNext, Speaks
<1>5. CASE UNCHANGED vars
  BY <1>5, StutterStep
<1> QED
  BY <1>1, <1>2, <1>3, <1>4, <1>5 DEF Next

LEMMA InvWords == AdapterInv => WordsAreKept
<1> SUFFICES ASSUME AdapterInv PROVE WordsAreKept
  OBVIOUS
<1>1. Heeded(vendor, out) /\ NoWordLost /\ out \in Seq(Event)
  BY DEF AdapterInv, ToldInv, Heeded
<1>2. TypeOK
  <2>1. Heard <= sent
    BY ToldBy
  <2>2. Range(out) \subseteq Event
    BY <1>1 DEF Range
  <2> QED
    BY <2>1, <2>2 DEF AdapterInv, ControlTypes, AudioInv, TypeOK, Event
<1>3. NoWordTwice
  BY <1>1 DEF Heeded, Disjoint, NoWordTwice
<1>4. InterimsAreNew
  BY <1>1 DEF Heeded, News, InterimsAreNew
<1>5. EndpointsCloseWhatWasSaid
  BY <1>1 DEF Heeded, Closes, Pointing, EndpointsCloseWhatWasSaid
<1>6. WindowHolds
  BY DEF AdapterInv, WindowInv, WindowHolds
<1> QED
  BY <1>1, <1>2, <1>3, <1>4, <1>5, <1>6 DEF WordsAreKept

(* Whatever a vendor says, repeats or cuts short, whenever the socket      *)
(* breaks or the audio ends: no word is final twice, none the vendor       *)
(* settled is lost when events() ends without an error, an interim shows   *)
(* no word that is final already, an endpoint comes after the words it     *)
(* closes, and Speechmatics' window holds.  The hypothesis is about the    *)
(* word AssemblyAI's adapter takes for a goodbye of its vendor.            *)
THEOREM EveryAdapterKeepsTheWords == NoTermination /\ Spec => []WordsAreKept
<1>1. NoTermination /\ AdapterInv /\ [Next]_vars => AdapterInv'
  BY NextInv
<1>2. NoTermination => NoTermination'
  BY DEF NoTermination
<1> QED
  BY <1>1, <1>2, InitInv, InvWords, PTL DEF Spec

(* The contract of base.py.                                                *)
ContractStep ==
  \/ Contract!Readied \/ Contract!Feed \/ Contract!Speak \/ Contract!Finish \/ Contract!Exhaust
  \/ Contract!Fail \/ UNCHANGED Contract!contractVars

LEMMA QuietContract ==
  ASSUME UNCHANGED <<reader, finished, sent, out>>
  PROVE  ContractStep
<1>1. Stage' = Stage /\ Settled(out)' = Settled(out) /\ sent' = sent
  BY DEF Stage
<1> QED
  BY <1>1 DEF ContractStep, Contract!contractVars

LEMMA AtReady ==
  ASSUME AdapterInv, feeder = "feeding", ws \notin {"none", "dialing"}
  PROVE  Stage = "ready" /\ reader \in {"recv", "timed"} /\ ~finished
<1>1. reader \in {"recv", "timed"} /\ ~finished
  BY DEF AdapterInv, StageInv, ControlTypes, Codes
<1> QED
  BY <1>1 DEF Stage

LEMMA AtNew ==
  ASSUME AdapterInv, reader = "none"
  PROVE  Stage = "new" /\ ~finished
BY DEF AdapterInv, StageInv, Stage

(* More words, none of them before.                                        *)
LEMMA MoreWords ==
  ASSUME NEW m \in Nat, NEW n \in Nat, m <= n, Settled(out) = 1 .. m, Settled(out') = 1 .. n,
         Settled(out') \subseteq 1 .. sent
  PROVE  Contract!Says
<1> DEFINE text == m + 1 .. n
<1>1. Settled(out') = Settled(out) \cup text /\ text \cap Settled(out) = {}
  OBVIOUS
<1>2. text \in SUBSET ((1 .. sent) \ Settled(out))
  BY <1>1
<1> QED
  BY <1>1, <1>2 DEF Contract!Says

LEMMA SameWords ==
  ASSUME out' = out
  PROVE  Contract!Says /\ Settled(out)' = Settled(out)
<1>1. Settled(out)' = Settled(out) \cup {} /\ {} \in SUBSET ((1 .. sent) \ Settled(out))
  OBVIOUS
<1> QED
  BY <1>1 DEF Contract!Says

(* What events() does, as the contract sees it.                            *)
LEMMA ReaderContract ==
  ASSUME reader \in {"recv", "timed"}, reader' \in {"recv", "timed", "returned", "raised"},
         UNCHANGED <<sent, finished>>, reader' = "returned" => finished, Contract!Says,
         reader' = "raised" => out' = out, finished \in BOOLEAN
  PROVE  ContractStep
<1>1. Stage = (IF finished THEN "finished" ELSE "ready")
  BY DEF Stage
<1>2. CASE reader' = "returned"
  <2>1. Stage' = "exhausted" /\ Stage = "finished"
    BY <1>1, <1>2 DEF Stage
  <2> QED
    BY <2>1 DEF ContractStep, Contract!Exhaust
<1>3. CASE reader' = "raised"
  <2>1. Stage' = "failed" /\ Settled(out)' = Settled(out)
    BY <1>3, SameWords DEF Stage
  <2> QED
    BY <1>1, <2>1 DEF ContractStep, Contract!Fail
<1>4. CASE reader' \in {"recv", "timed"}
  <2>1. Stage' = Stage
    BY <1>4 DEF Stage
  <2> QED
    BY <1>1, <2>1 DEF ContractStep, Contract!Speak
<1> QED
  BY <1>2, <1>3, <1>4

LEMMA ReceiveContract ==
  ASSUME AdapterInv, AdapterInv', Receive
  PROVE  ContractStep
<1>1. PICK r, g, i :
        /\ r = Parse(Head(down)) /\ Takes(vendor, r, g, i, st)
        /\ UpTo(vendor, out, g) /\ UpTo(vendor, out \o r.out, i) /\ g \in Views /\ i \in Views
        /\ Along(Heard, finished, i)
  BY Received
<1>2. /\ out' = out \o r.out
      /\ reader' = (CASE r.then = "read" -> Waits [] r.then = "return" -> "returned"
                      [] OTHER -> "raised")
      /\ UNCHANGED <<vendor, sent, finished>> /\ reader \in {"recv", "timed"}
  BY <1>1 DEF Receive
<1>3. /\ Good(vendor, r.out, g, i) /\ r.then \in {"read", "return", "recoverable", "fatal"}
      /\ (r.then = "return" => i.told) /\ (r.then \in {"recoverable", "fatal"} => r.out = <<>>)
  BY <1>1 DEF Takes
<1>4. g.final \in Nat /\ i.final \in Nat /\ g.final <= i.final
  BY <1>1, <1>3, ViewFields DEF Good
<1>5. Contract!Says
  <2>1. Settled(out) = 1 .. g.final /\ Settled(out') = 1 .. i.final
    BY <1>1, <1>2 DEF UpTo
  <2>2. Settled(out') \subseteq 1 .. sent
    BY <1>2 DEF AdapterInv, ToldInv
  <2> QED
    BY <1>4, <2>1, <2>2, MoreWords
<1>6. out \in Seq(Event)
  BY <1>1 DEF UpTo, Heeded
<1>7. r.then \in {"recoverable", "fatal"} => out' = out
  BY <1>2, <1>3, <1>6
<1>8. reader' \in {"recv", "timed", "returned", "raised"}
  BY <1>2 DEF Waits
<1>9. reader' = "returned" => finished
  BY <1>1, <1>2, <1>3 DEF Waits, Along
<1>10. reader' = "raised" => out' = out
  BY <1>2, <1>3, <1>7 DEF Waits
<1>11. finished \in BOOLEAN
  BY DEF AdapterInv, ControlTypes
<1> QED
  BY <1>2, <1>5, <1>8, <1>9, <1>10, <1>11, ReaderContract

LEMMA ReadsCloseContract ==
  ASSUME AdapterInv, AdapterInv', ReadsClose
  PROVE  ContractStep
<1>1. /\ reader \in {"recv", "timed"} /\ down = <<>>
      /\ reader' = (IF EndsClean THEN "returned" ELSE "raised")
      /\ out' = (IF EndsClean /\ vendor = "flux" THEN out \o FluxAtClose(st) ELSE out)
      /\ UNCHANGED <<vendor, sent, finished>>
  BY DEF ReadsClose
<1>2. Attentive /\ Told /\ finished \in BOOLEAN
  BY <1>1, ToldBy DEF Attentive, AdapterInv, ControlTypes
<1>3. reader' = "returned" => finished
  BY <1>1, <1>2 DEF AdapterInv, StageInv
<1>4. Contract!Says
  <2>1. CASE EndsClean /\ vendor = "flux"
    <3>1. PICK g : /\ g \in Views /\ Along(Heard, finished, g) /\ Knows(vendor, g, st) /\ ~g.over
                   /\ UpTo(vendor, out, g) /\ Matches(vd, g)
      BY <1>1, <1>2, AllRead
    <3>2. g.final \in Nat /\ g.more \in Nat /\ g.final <= g.more /\ g.more <= Heard /\ Heard \in Nat
      BY <1>2, <3>1, ViewFields, Hearing DEF Along
    <3>3. g.time <= g.final
      <4>1. g.time <= TimeOf(g.final)
        BY <2>1, <3>1 DEF Matches
      <4>2. TimeOf(g.final) = g.final
        <5>1. g.final \in 0 .. Heard
          BY <3>2
        <5> QED
          BY <1>2, <2>1, <5>1, TimeFields
      <4> QED
        BY <4>1, <4>2
    <3>4. FluxKnows(g, st)
      BY <2>1, <3>1 DEF Knows
    <3>5. PICK h \in Views : h.final = g.more /\ UpTo(vendor, out \o FluxAtClose(st), h)
      BY <2>1, <3>1, <3>2, <3>3, <3>4, FluxCloses
    <3>6. Settled(out) = 1 .. g.final /\ Settled(out') = 1 .. g.more
      BY <1>1, <2>1, <3>1, <3>5 DEF UpTo
    <3>7. Settled(out') \subseteq 1 .. sent
      BY <1>1 DEF AdapterInv, ToldInv
    <3> QED
      BY <3>2, <3>6, <3>7, MoreWords
  <2>2. CASE ~(EndsClean /\ vendor = "flux")
    BY <1>1, <2>2, SameWords
  <2> QED
    BY <2>1, <2>2
<1>5. reader' \in {"returned", "raised"} /\ (reader' = "raised" => out' = out)
  BY <1>1
<1> QED
  BY <1>1, <1>2, <1>3, <1>4, <1>5, ReaderContract

LEMMA StepIsOfContract ==
  ASSUME AdapterInv, AdapterInv', [Next]_vars
  PROVE  ContractStep
<1>0. finished \in BOOLEAN
  BY DEF AdapterInv, ControlTypes
<1>1. CASE Dial \/ HandshakeDone
  <2>1. reader = "none" /\ reader' \in {"none", "recv"} /\ UNCHANGED <<sent, out, finished>>
    BY <1>1 DEF Dial, HandshakeDone
  <2>2. Stage = "new" /\ ~finished /\ Settled(out)' = Settled(out)
    BY <2>1, AtNew, SameWords
  <2>3. Stage' \in {"new", "ready"}
    BY <2>1, <2>2 DEF Stage
  <2> QED
    BY <2>1, <2>2, <2>3 DEF ContractStep, Contract!Readied, Contract!contractVars
<1>2. CASE ConnectFails
  <2>1. reader = "none" /\ reader' = "raised" /\ UNCHANGED <<sent, out>>
    BY <1>2 DEF ConnectFails
  <2>2. Stage = "new" /\ Settled(out)' = Settled(out) /\ Stage' = "failed"
    BY <2>1, AtNew, SameWords DEF Stage
  <2> QED
    BY <2>1, <2>2 DEF ContractStep, Contract!Fail
<1>3. CASE SendAudio
  <2>1. Stage = "ready"
    BY <1>3, AtReady DEF SendAudio
  <2>2. sent' = sent + 1 /\ UNCHANGED <<reader, finished, out>>
    BY <1>3 DEF SendAudio
  <2>3. Stage' = Stage /\ Settled(out)' = Settled(out)
    BY <2>2 DEF Stage
  <2> QED
    BY <2>1, <2>2, <2>3 DEF ContractStep, Contract!Feed
<1>4. CASE SendFails
  <2>1. Stage = "ready" /\ reader # "returned"
    BY <1>4, AtReady DEF SendFails, Codes
  <2>2. reader' = "raised" /\ UNCHANGED <<sent, finished, out>>
    BY <1>4, <2>1 DEF SendFails
  <2>3. Stage' = "failed" /\ Settled(out)' = Settled(out)
    BY <2>2 DEF Stage
  <2> QED
    BY <2>1, <2>2, <2>3 DEF ContractStep, Contract!Fail
<1>5. CASE Finish
  <2>1. Stage = "ready" /\ reader \in {"recv", "timed"}
    BY <1>5, AtReady DEF Finish, Codes
  <2>2. finished' = TRUE /\ UNCHANGED <<sent, reader, out>>
    BY <1>5 DEF Finish
  <2>3. Stage' = "finished" /\ Settled(out)' = Settled(out)
    BY <2>1, <2>2 DEF Stage
  <2> QED
    BY <2>1, <2>2, <2>3 DEF ContractStep, Contract!Finish
<1>6. CASE GraceEnds \/ KeepAlive \/ Close \/ VendorNext \/ UNCHANGED vars
  <2>1. UNCHANGED <<reader, finished, sent, out>>
    BY <1>6 DEF GraceEnds, KeepAlive, Close, VendorNext, SaysPartial, SaysFinal, Locks, SaysEndpoint,
       Acknowledges, AnswersCommit, SaysGoodbye, HangsUp, Breaks, SaysError, vars, adapterVars
  <2> QED
    BY <2>1, QuietContract
<1>7. CASE Receive
  BY <1>7, ReceiveContract
<1>8. CASE ReadsClose
  BY <1>8, ReadsCloseContract
<1>9. CASE DrainTimesOut
  <2>1. reader = "timed" /\ reader' = "returned" /\ UNCHANGED <<sent, finished, out>>
    BY <1>9 DEF DrainTimesOut
  <2>2. finished
    BY <2>1 DEF AdapterInv, StageInv
  <2> QED
    BY <1>0, <2>1, <2>2, SameWords, ReaderContract
<1> QED
  BY <1>1, <1>2, <1>3, <1>4, <1>5, <1>6, <1>7, <1>8, <1>9 DEF Next, Feeder, Events

(* Every one of them keeps the contract of providers/base.py: audio is     *)
(* taken once connect() returned and until finish(), a final tells words   *)
(* that were fed and not told before, and events() is exhausted after      *)
(* finish() only.  That it is exhausted is liveness, and TLC's.            *)
THEOREM EveryAdapterKeepsTheContract == NoTermination /\ Spec => Contract!ContractSpec
<1>1. Init => Contract!New
  <2> SUFFICES ASSUME Init PROVE Contract!New
    OBVIOUS
  <2>1. out = <<>> /\ sent = 0 /\ Stage = "new"
    BY DEF Init, Stage
  <2>2. Settled(out) = {}
    BY <2>1, NothingSaid
  <2> QED
    BY <2>1, <2>2 DEF Contract!New
<1>2. NoTermination /\ AdapterInv /\ [Next]_vars => AdapterInv'
  BY NextInv
<1>3. AdapterInv /\ AdapterInv' /\ [Next]_vars =>
        [Contract!Readied \/ Contract!Feed \/ Contract!Speak \/ Contract!Finish
           \/ Contract!Exhaust \/ Contract!Fail]_Contract!contractVars
  BY StepIsOfContract DEF ContractStep
<1>4. NoTermination => NoTermination'
  BY DEF NoTermination
<1> QED
  BY <1>1, <1>2, <1>3, <1>4, InitInv, PTL DEF Spec, Contract!ContractSpec
==============================================================================
