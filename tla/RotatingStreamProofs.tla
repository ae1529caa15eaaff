------------------------- MODULE RotatingStreamProofs -------------------------
(***************************************************************************)
(* What TLAPS proves about RotatingStream, for any amount of audio, any    *)
(* number of rotations and any buffer: a rotation is seamless, and the     *)
(* adapter keeps the contract of providers/base.py.                        *)
(***************************************************************************)
EXTENDS RotatingStream, TLAPS

(* The types in full.                                                      *)
Message == [kind : {"final", "turn_end", "error"}, text : SUBSET Nat, end : Int]
UpstreamType ==
  [heard : Seq(Nat), settled : Nat, eos : BOOLEAN, down : Seq(Message),
   state : {"open", "shut", "ok", "lost"}]
FinalType == [text : SUBSET Nat, end : Int]

Readers == {"none", "recv", "flush", "dial", "last", "returned", "raised"}
Feeders == {"feeding", "finishing", "grace", "done", "dead"}

DataTypes ==
  /\ sent \in 0 .. Chunks /\ pending \in Seq(Nat) /\ dropped \subseteq 1 .. sent
  /\ up \in Seq(UpstreamType) /\ out \in Seq(FinalType)
  /\ ws \in 0 .. Len(up) /\ held \in 0 .. Len(up) /\ offset \in Nat
  /\ Gemini => Len(pending) <= Cap
  /\ Len(up) <= Rotations + 1
ControlTypes ==
  /\ adapter \in Adapters /\ reader \in Readers /\ feeder \in Feeders
  /\ rotating \in BOOLEAN /\ finished \in BOOLEAN /\ patient \in BOOLEAN
Types == DataTypes /\ ControlTypes

(* The upstream events() reads.                                            *)
Current == up[Len(up)]

(* How the tasks of the adapter stand to each other.                       *)
Shape ==
  /\ reader \in {"recv", "flush", "dial", "last", "returned"} => Len(up) > 0
  /\ reader = "none" => Len(up) = 0 /\ sent = 0 /\ Len(pending) = 0 /\ feeder = "feeding"
  /\ Gemini \/ Len(up) = 0 => offset = 0
  /\ reader = "raised" => feeder \in {"done", "dead"}
  /\ feeder \in {"finishing", "grace", "done"} => finished
  /\ feeder \in {"finishing", "grace"} => Gemini
  /\ feeder = "grace" => held # 0
  /\ Gemini => /\ ws = 0 => reader \in {"none", "raised"}
               /\ ws # 0 => ws = Len(up)
               /\ ~rotating /\ reader # "raised" => Len(pending) = 0
  /\ reader = "last" => finished
  /\ reader \in {"flush", "dial"} => Gemini /\ rotating /\ Len(up) <= Rotations
  /\ Google => ws = 0 /\ dropped = {} /\ reader \in {"none", "recv", "returned", "raised"}

(* The order of the audio: what the upstreams heard comes before what waits. *)
PendingInOrder ==
  /\ \A k \in 1 .. Len(pending) :
       /\ pending[k] <= sent
       /\ pending[k] = END => Google /\ feeder = "done" /\ k = Len(pending)
  /\ \A k, l \in 1 .. Len(pending) : k < l => pending[k] < pending[l] \/ pending[l] = END
HeardBeforePending ==
  \A i \in 1 .. Len(up) : \A a \in 1 .. Len(up[i].heard) :
    /\ up[i].heard[a] \in 1 .. sent
    /\ \A k \in 1 .. Len(pending) : pending[k] = END \/ up[i].heard[a] < pending[k]
HeardOnce ==
  \A i, j \in 1 .. Len(up) :
    \A a \in 1 .. Len(up[i].heard), b \in 1 .. Len(up[j].heard) :
      i < j \/ (i = j /\ a < b) => up[i].heard[a] < up[j].heard[b]
OrderInv == PendingInOrder /\ HeardBeforePending /\ HeardOnce

(* Where a chunk is.                                                       *)
Hearing(c) == \E i \in 1 .. Len(up) : \E a \in 1 .. Len(up[i].heard) : up[i].heard[a] = c
Waiting(c) == \E k \in 1 .. Len(pending) : pending[k] = c
LossInv == ~finished => \A c \in 1 .. sent : c \in dropped \/ Waiting(c) \/ Hearing(c)

(* What an upstream has said of what it heard.                             *)
Texts(down) == UNION {down[i].text : i \in 1 .. Len(down)}
SaidAll(u) == \A a \in 1 .. Len(u.heard) : u.heard[a] \in Settled
Fresh(u) == Len(u.down) = 0 /\ u.settled = 0
Answered(u) ==
  /\ \A a \in 1 .. Len(u.heard) : u.heard[a] \in Settled \cup Texts(u.down)
  /\ Len(u.down) > 0
  /\ \A i \in 1 .. Len(u.down) : u.down[i].kind = "final" <=> i < Len(u.down)
  /\ u.down[Len(u.down)].text = {}

(* Gemini makes nothing final before it is told the audio is over, then    *)
(* all it heard; Google has said all it settled once its messages are read. *)
GeminiTail ==
  (Gemini /\ ~finished) =>
    /\ reader \in {"recv", "flush"} => Current.state # "shut"
    /\ (reader = "recv" /\ Current.state = "open") => ~Current.eos /\ Fresh(Current)
    /\ (reader = "flush" /\ Current.state = "open") =>
         (Current.eos /\ Fresh(Current)) \/ (~Current.eos /\ Answered(Current))
    /\ (patient /\ reader = "dial" /\ Current.state \in {"open", "shut"}) => SaidAll(Current)
GoogleTail ==
  (Google /\ reader = "recv") =>
    /\ Current.state # "ok"
    /\ Current.state \in {"open", "shut"} =>
         \A a \in 1 .. Current.settled : Current.heard[a] \in Settled \cup Texts(Current.down)
    /\ Current.state = "shut" => Current.settled = Len(Current.heard)
    /\ (~finished /\ (Current.eos \/ Current.state = "shut")) => Len(up) <= Rotations
OldTails ==
  (patient /\ ~finished) =>
    \A i \in 1 .. Len(up) - 1 : up[i].state \in {"open", "shut"} => SaidAll(up[i])
SettledInv == Len(up) > 0 => Current.settled <= Len(Current.heard)
TailInv == GeminiTail /\ GoogleTail /\ OldTails /\ SettledInv

(* The times: Gemini reports none; Google counts the chunks of a stream,   *)
(* and offset those of the streams before it.                              *)
Timely(text, end) == end # NoTime => end \in text /\ \A c \in text : c <= end
OutTimes == \A i \in 1 .. Len(out) : Timely(out[i].text, out[i].end)
MessageTimely(m) ==
  /\ m.kind # "final" => m.text = {}
  /\ Gemini => m.end = NoTime
  /\ Google /\ m.kind = "final" =>
       offset + m.end \in m.text /\ \A c \in m.text : c <= offset + m.end
DownTimes ==
  Len(up) > 0 => \A k \in 1 .. Len(Current.down) : MessageTimely(Current.down[k])
GoogleTimes ==
  (Google /\ Len(up) > 0) =>
    /\ \A a \in 1 .. Len(Current.heard) : Current.heard[a] = offset + a
    /\ \A k \in 1 .. Len(pending) : pending[k] \in {END, offset + Len(Current.heard) + k}
    /\ offset + Len(Current.heard) <= sent
    /\ feeder = "feeding" => offset + Len(Current.heard) + Len(pending) = sent
TimesInv == OutTimes /\ DownTimes /\ GoogleTimes

RotatingInv == Types /\ Shape /\ OrderInv /\ LossInv /\ TailInv /\ TimesInv

-----------------------------------------------------------------------------
(* Sequences, and the upstreams.                                           *)

LEMMA AfterAppend ==
  ASSUME NEW S, NEW s \in Seq(S), NEW e \in S
  PROVE  /\ Append(s, e) \in Seq(S) /\ Len(Append(s, e)) = Len(s) + 1 /\ Len(s) \in Nat
         /\ \A i \in 1 .. Len(s) : Append(s, e)[i] = s[i] /\ s[i] \in S
         /\ Append(s, e)[Len(s) + 1] = e
  OBVIOUS

LEMMA AfterTail ==
  ASSUME NEW S, NEW s \in Seq(S), Len(s) > 0
  PROVE  /\ Tail(s) \in Seq(S) /\ Len(Tail(s)) = Len(s) - 1 /\ Len(s) \in Nat
         /\ \A i \in 1 .. Len(s) - 1 : Tail(s)[i] = s[i + 1]
         /\ Head(s) = s[1] /\ s[1] \in S
  OBVIOUS

LEMMA Joined ==
  ASSUME NEW S, NEW s \in Seq(S), NEW t \in Seq(S)
  PROVE  /\ s \o t \in Seq(S) /\ Len(s \o t) = Len(s) + Len(t)
         /\ \A i \in 1 .. Len(s) : (s \o t)[i] = s[i]
         /\ \A i \in 1 .. Len(t) : (s \o t)[Len(s) + i] = t[i]
  OBVIOUS

LEMMA RangeOf ==
  ASSUME NEW S, NEW s \in Seq(S) PROVE Range(s) = {s[i] : i \in 1 .. Len(s)}
  BY DEF Range

(* One upstream is replaced by another of its type.                        *)
LEMMA OneChanged ==
  ASSUME up \in Seq(UpstreamType), NEW n \in 1 .. Len(up), NEW u \in UpstreamType,
         up' = [up EXCEPT ![n] = u]
  PROVE  /\ up' \in Seq(UpstreamType) /\ Len(up') = Len(up) /\ Len(up) \in Nat
         /\ up'[n] = u
         /\ \A i \in 1 .. Len(up) : i # n => up'[i] = up[i]
<1>1. Len(up) \in Nat /\ DOMAIN up = 1 .. Len(up)
  OBVIOUS
<1>2. up' \in Seq(UpstreamType) /\ Len(up') = Len(up)
  BY <1>1
<1>3. up'[n] = u /\ \A i \in 1 .. Len(up) : i # n => up'[i] = up[i]
  BY <1>1
<1> QED
  BY <1>1, <1>2, <1>3

(* What was made final stays so.                                           *)
LEMMA SettledGrows ==
  ASSUME out \in Seq(FinalType), NEW e \in FinalType, out' = Append(out, e)
  PROVE  Settled' = Settled \cup e.text
<1>1. /\ out' \in Seq(FinalType) /\ Len(out') = Len(out) + 1 /\ Len(out) \in Nat
      /\ \A i \in 1 .. Len(out) : out'[i] = out[i]
      /\ out'[Len(out) + 1] = e
  BY AfterAppend
<1>2. Range(out) = {out[i] : i \in 1 .. Len(out)}
  BY RangeOf
<1>3. Range(out') = {out'[i] : i \in 1 .. Len(out')}
  BY <1>1, RangeOf, ZenonT(30)
<1>4. Range(out') = Range(out) \cup {e}
  <2>1. ASSUME NEW x \in Range(out') PROVE x \in Range(out) \cup {e}
    <3>1. PICK i \in 1 .. Len(out') : x = out'[i]
      BY <1>3, <2>1
    <3>2. CASE i = Len(out) + 1
      BY <1>1, <3>1, <3>2
    <3>3. CASE i \in 1 .. Len(out)
      BY <1>1, <1>2, <3>1, <3>3
    <3> QED
      BY <1>1, <3>1, <3>2, <3>3
  <2>2. ASSUME NEW x \in Range(out) \cup {e} PROVE x \in Range(out')
    <3>1. CASE x = e
      <4>1. Len(out) + 1 \in 1 .. Len(out')
        BY <1>1
      <4> QED
        BY <1>1, <1>3, <3>1, <4>1
    <3>2. CASE x \in Range(out)
      <4>1. PICK i \in 1 .. Len(out) : x = out[i]
        BY <1>2, <3>2
      <4>2. i \in 1 .. Len(out') /\ x = out'[i]
        BY <1>1, <4>1
      <4> QED
        BY <1>3, <4>2
    <3> QED
      BY <2>2, <3>1, <3>2
  <2> QED
    BY <2>1, <2>2
<1>5. Settled' = UNION {x.text : x \in Range(out')}
  BY DEF Settled, Range
<1> QED
  BY <1>4, <1>5 DEF Settled

LEMMA SettledStays ==
  ASSUME UNCHANGED out PROVE Settled' = Settled
  BY DEF Settled, Range

-----------------------------------------------------------------------------
(* What most steps leave alone.                                            *)

LEMMA QuietOrder ==
  ASSUME Types, OrderInv, LossInv, Len(up') = Len(up),
         \A i \in 1 .. Len(up) : up'[i].heard = up[i].heard,
         UNCHANGED <<adapter, sent, pending, dropped>>,
         finished => finished', feeder = "done" => feeder' = "done"
  PROVE  OrderInv' /\ LossInv'
<1>1. PendingInOrder'
  BY DEF OrderInv, PendingInOrder, Google
<1>2. HeardBeforePending'
  BY DEF OrderInv, HeardBeforePending
<1>3. HeardOnce'
  BY DEF OrderInv, HeardOnce
<1>4. LossInv'
  <2>1. \A c : (Hearing(c) => Hearing(c)') /\ (Waiting(c) => Waiting(c)')
    BY DEF Hearing, Waiting
  <2> QED
    BY <2>1 DEF LossInv
<1> QED
  BY <1>1, <1>2, <1>3, <1>4 DEF OrderInv

LEMMA OldTailsStay ==
  ASSUME Types, OldTails, Len(up') = Len(up),
         \A i \in 1 .. Len(up) - 1 : up'[i] = up[i],
         Settled \subseteq Settled', patient' => patient, finished => finished'
  PROVE  OldTails'
  BY DEF OldTails, SaidAll

LEMMA OutTimesStay == OutTimes /\ UNCHANGED out => OutTimes'
  BY DEF OutTimes

LEMMA OutTimesGrow ==
  ASSUME out \in Seq(FinalType), OutTimes, NEW e \in FinalType, out' = Append(out, e),
         Timely(e.text, e.end)
  PROVE  OutTimes'
<1>1. /\ Len(out') = Len(out) + 1 /\ Len(out) \in Nat
      /\ \A i \in 1 .. Len(out) : out'[i] = out[i]
      /\ out'[Len(out) + 1] = e
  BY AfterAppend
<1>2. SUFFICES ASSUME NEW i \in 1 .. Len(out') PROVE Timely(out'[i].text, out'[i].end)
  BY DEF OutTimes, Timely
<1>3. CASE i = Len(out) + 1
  BY <1>1, <1>3
<1>4. CASE i \in 1 .. Len(out)
  BY <1>1, <1>4 DEF OutTimes
<1> QED
  BY <1>1, <1>2, <1>3, <1>4

LEMMA TimesStay ==
  ASSUME TimesInv, OutTimes', UNCHANGED <<adapter, pending, offset, sent>>,
         Len(up') = Len(up), Len(up) > 0 => Current'.heard = Current.heard,
         feeder' = "feeding" => feeder = "feeding",
         Len(up) > 0 => \A k \in 1 .. Len(Current'.down) :
           \/ MessageTimely(Current'.down[k])
           \/ \E l \in 1 .. Len(Current.down) : Current'.down[k] = Current.down[l]
  PROVE  TimesInv'
<1>1. \A m : MessageTimely(m)' <=> MessageTimely(m)
  BY DEF MessageTimely, Gemini, Google
<1>2. DownTimes'
  BY <1>1 DEF TimesInv, DownTimes
<1>3. GoogleTimes'
  BY DEF TimesInv, GoogleTimes, Google
<1> QED
  BY <1>2, <1>3 DEF TimesInv

(* Nothing happens to the upstreams nor to the words; the reader may stop. *)
LEMMA ControlStep ==
  ASSUME RotatingInv, Types', Shape',
         UNCHANGED <<adapter, sent, pending, dropped, up, out, offset>>,
         finished => finished', patient' => patient, feeder = "done" => feeder' = "done",
         feeder' = "feeding" => feeder = "feeding",
         reader' = reader \/ reader' \in {"returned", "raised"}
  PROVE  RotatingInv'
<1> USE DEF RotatingInv
<1>1. Settled' = Settled /\ \A d : Texts(d)' = Texts(d)
  BY SettledStays DEF Texts
<1>2. OrderInv' /\ LossInv'
  BY QuietOrder
<1>3. TimesInv'
  BY TimesStay, OutTimesStay DEF TimesInv, Current
<1>4. OldTails'
  BY <1>1, OldTailsStay DEF TailInv
<1>5. SettledInv'
  BY DEF TailInv, SettledInv, Current
<1>6. GoogleTail'
  BY <1>1 DEF TailInv, GoogleTail, Google, Current
<1>7. GeminiTail'
  <2>1. SaidAll(Current) => SaidAll(Current)'
    BY <1>1 DEF SaidAll, Current
  <2>2. Answered(Current) => Answered(Current)'
    BY <1>1 DEF Answered, Current
  <2>3. Fresh(Current) => Fresh(Current)'
    BY DEF Fresh, Current
  <2> QED
    BY <2>1, <2>2, <2>3 DEF TailInv, GeminiTail, Gemini, Current
<1> QED
  BY <1>2, <1>3, <1>4, <1>5, <1>6, <1>7 DEF TailInv

-----------------------------------------------------------------------------
(* The messages of an upstream.                                            *)

LEMMA TextsIn ==
  ASSUME NEW d, NEW i \in 1 .. Len(d) PROVE d[i].text \subseteq Texts(d)
  BY DEF Texts

LEMMA TextsOfAppend ==
  ASSUME NEW d \in Seq(Message), NEW m \in Message
  PROVE  Texts(Append(d, m)) = Texts(d) \cup m.text
<1> DEFINE e == Append(d, m)
<1>1. /\ Len(e) = Len(d) + 1 /\ Len(d) \in Nat
      /\ \A i \in 1 .. Len(d) : e[i] = d[i]
      /\ e[Len(d) + 1] = m
  BY AfterAppend
<1> HIDE DEF e
<1>2. 1 .. Len(e) = (1 .. Len(d)) \cup {Len(d) + 1}
  BY <1>1
<1>3. Texts(e) = Texts(d) \cup m.text
  BY <1>1, <1>2 DEF Texts
<1> QED
  BY <1>3 DEF e

LEMMA TextsOfTail ==
  ASSUME NEW d \in Seq(Message), Len(d) > 0
  PROVE  Texts(d) = Texts(Tail(d)) \cup Head(d).text
<1> DEFINE e == Tail(d)
<1>1. /\ Len(e) = Len(d) - 1 /\ Len(d) \in Nat /\ Head(d) = d[1]
      /\ \A i \in 1 .. Len(d) - 1 : e[i] = d[i + 1]
  BY AfterTail
<1> HIDE DEF e
<1>2. ASSUME NEW x \in Texts(d) PROVE x \in Texts(e) \cup d[1].text
  <2>1. PICK i \in 1 .. Len(d) : x \in d[i].text
    BY <1>2 DEF Texts
  <2>2. CASE i > 1
    <3>1. i - 1 \in 1 .. Len(e) /\ e[i - 1] = d[i]
      BY <1>1, <2>2
    <3> QED
      BY <2>1, <3>1 DEF Texts
  <2> QED
    BY <1>1, <2>1, <2>2
<1>3. ASSUME NEW x \in Texts(e) PROVE x \in Texts(d)
  <2>1. PICK i \in 1 .. Len(e) : x \in e[i].text
    BY <1>3 DEF Texts
  <2>2. i + 1 \in 1 .. Len(d) /\ d[i + 1] = e[i]
    BY <1>1
  <2> QED
    BY <2>1, <2>2 DEF Texts
<1>4. d[1].text \subseteq Texts(d)
  BY <1>1 DEF Texts
<1>5. Texts(d) = Texts(e) \cup d[1].text
  BY <1>2, <1>3, <1>4
<1> QED
  BY <1>1, <1>5 DEF e

LEMMA TextsOfNone == Texts(<<>>) = {}
<1>1. Len(<<>>) = 0
  OBVIOUS
<1> QED
  BY <1>1 DEF Texts

(* The current upstream of a running stream.                               *)
LEMMA CurrentFacts ==
  ASSUME RotatingInv, Len(up) > 0
  PROVE  /\ Len(up) \in 1 .. Len(up) /\ Len(up) \in Nat /\ up \in Seq(UpstreamType)
         /\ Current \in UpstreamType /\ Current = up[Reading] /\ Down = Current.down
         /\ Current.heard \in Seq(Nat) /\ Current.settled \in Nat /\ Current.eos \in BOOLEAN
         /\ Current.down \in Seq(Message)
         /\ Current.state \in {"open", "shut", "ok", "lost"}
         /\ Current.settled <= Len(Current.heard) /\ Len(Current.heard) \in Nat
<1>1. up \in Seq(UpstreamType) /\ Len(up) \in Nat
  BY DEF RotatingInv, Types, DataTypes
<1>2. Len(up) \in 1 .. Len(up) /\ Current \in UpstreamType
  BY <1>1 DEF Current
<1>3. /\ Current.heard \in Seq(Nat) /\ Current.settled \in Nat /\ Current.eos \in BOOLEAN
      /\ Current.down \in Seq(Message)
      /\ Current.state \in {"open", "shut", "ok", "lost"}
  BY <1>2 DEF UpstreamType
<1>4. Current.settled <= Len(Current.heard)
  BY DEF RotatingInv, TailInv, SettledInv
<1> QED
  BY <1>1, <1>2, <1>3, <1>4 DEF Current, Reading, Down

LEMMA MessageFacts ==
  ASSUME NEW m \in Message
  PROVE  m.kind \in {"final", "turn_end", "error"} /\ m.text \subseteq Nat /\ m.end \in Int
  BY DEF Message

(* What an upstream makes final is a message with the right time.          *)
LEMMA FinalTimely ==
  ASSUME RotatingInv, Len(up) > 0,
         NEW to \in Current.settled + 1 .. Len(Current.heard)
  PROVE  /\ Final(Current, to) \in Message /\ MessageTimely(Final(Current, to))
         /\ Final(Current, to).kind = "final"
         /\ Final(Current, to).text = {Current.heard[i] : i \in Current.settled + 1 .. to}
<1> DEFINE u == Current
           text == {u.heard[i] : i \in u.settled + 1 .. to}
<1>1. /\ u.heard \in Seq(Nat) /\ u.settled \in Nat /\ Len(u.heard) \in Nat
      /\ u.settled <= Len(u.heard) /\ offset \in Nat /\ to \in Nat /\ to <= Len(u.heard)
  BY CurrentFacts DEF RotatingInv, Types, DataTypes
<1>2. \A i \in u.settled + 1 .. to : i \in 1 .. Len(u.heard) /\ u.heard[i] \in Nat
  BY <1>1, SMTT(30), ZenonT(30)
<1>3. text \in SUBSET Nat
  BY <1>2
<1>4. Final(u, to) = [kind |-> "final", text |-> text, end |-> IF Gemini THEN NoTime ELSE to]
  BY DEF Final
<1>5. Final(u, to) \in Message
  BY <1>1, <1>3, <1>4 DEF Message, NoTime
<1>6. Google => offset + to \in text /\ \A c \in text : c <= offset + to
  <2> SUFFICES ASSUME Google PROVE offset + to \in text /\ \A c \in text : c <= offset + to
    OBVIOUS
  <2>1. \A a \in 1 .. Len(u.heard) : u.heard[a] = offset + a
    BY DEF RotatingInv, TimesInv, GoogleTimes
  <2>2. to \in u.settled + 1 .. to /\ u.heard[to] = offset + to
    BY <1>1, <1>2, <2>1
  <2>3. ASSUME NEW c \in text PROVE c <= offset + to
    <3>1. PICK i \in u.settled + 1 .. to : c = u.heard[i]
      OBVIOUS
    <3> QED
      BY <1>1, <1>2, <2>1, <3>1
  <2> QED
    BY <2>2, <2>3
<1>7. Google => ~Gemini
  BY DEF Google, Gemini
<1>8. MessageTimely(Final(u, to))
  BY <1>4, <1>6, <1>7 DEF MessageTimely
<1> QED
  BY <1>4, <1>5, <1>8

LEMMA SignalTimely ==
  ASSUME NEW kind \in {"turn_end", "error"}
  PROVE  /\ Signal(kind) \in Message /\ MessageTimely(Signal(kind))
         /\ Signal(kind).kind = kind /\ Signal(kind).text = {}
<1>1. Signal(kind) = [kind |-> kind, text |-> {}, end |-> NoTime]
  BY DEF Signal
<1>2. Signal(kind) \in Message
  BY <1>1 DEF Message, NoTime
<1> QED
  BY <1>1, <1>2 DEF MessageTimely

(* A step of the current upstream that does not make it hear more.         *)
Known(m, u) == MessageTimely(m) \/ \E l \in 1 .. Len(u.down) : m = u.down[l]
CurrentBecomes(u) ==
  /\ u \in UpstreamType /\ up' = [up EXCEPT ![Len(up)] = u]
  /\ u.heard = Current.heard /\ u.settled <= Len(u.heard)
  /\ \A k \in 1 .. Len(u.down) : Known(u.down[k], Current)
RestStays ==
  /\ UNCHANGED <<adapter, sent, pending, dropped, offset>>
  /\ finished => finished'
  /\ patient' => patient
  /\ feeder = "done" => feeder' = "done"
  /\ feeder' = "feeding" => feeder = "feeding"
WordsGrow == OutTimes' /\ Settled \subseteq Settled'

LEMMA CurrentStep ==
  ASSUME RotatingInv, Len(up) > 0, NEW u, CurrentBecomes(u), RestStays, WordsGrow
  PROVE  /\ OrderInv' /\ LossInv' /\ OldTails' /\ SettledInv' /\ TimesInv'
         /\ up' \in Seq(UpstreamType) /\ Len(up') = Len(up) /\ Current' = u
<1> USE DEF CurrentBecomes, RestStays, WordsGrow
<1>1. /\ up' \in Seq(UpstreamType) /\ Len(up') = Len(up) /\ up'[Len(up)] = u /\ Len(up) \in Nat
      /\ \A i \in 1 .. Len(up) : i # Len(up) => up'[i] = up[i]
  BY CurrentFacts, OneChanged
<1>2. Current' = u
  BY <1>1 DEF Current
<1>3. \A i \in 1 .. Len(up) : up'[i].heard = up[i].heard
  BY <1>1 DEF Current
<1>4. OrderInv' /\ LossInv'
  BY <1>1, <1>3, QuietOrder DEF RotatingInv
<1>5. \A i \in 1 .. Len(up) - 1 : up'[i] = up[i]
  <2>1. Len(up) \in Nat
    BY <1>1
  <2>2. \A i \in 1 .. Len(up) - 1 : i \in 1 .. Len(up) /\ i # Len(up)
    BY <2>1
  <2> QED
    BY <1>1, <2>2
<1>6. OldTails'
  BY <1>1, <1>5, OldTailsStay DEF RotatingInv, TailInv
<1>7. SettledInv'
  BY <1>1, <1>2 DEF SettledInv
<1>8. TimesInv'
  <2>1. \A k \in 1 .. Len(Current'.down) :
          \/ MessageTimely(Current'.down[k])
          \/ \E l \in 1 .. Len(Current.down) : Current'.down[k] = Current.down[l]
    BY <1>2 DEF Known
  <2> QED
    BY <1>1, <1>2, <2>1, TimesStay DEF RotatingInv
<1> QED
  BY <1>1, <1>2, <1>4, <1>6, <1>7, <1>8

-----------------------------------------------------------------------------
(* The vendor.                                                             *)

LEMMA ControlStays ==
  ASSUME RotatingInv, Len(up') = Len(up), up' \in Seq(UpstreamType), out' \in Seq(FinalType),
         UNCHANGED <<adapter, feedVars, ws, rotating, reader, finished, offset>>,
         patient' \in BOOLEAN
  PROVE  Types' /\ Shape'
<1>1. Types'
  BY DEF RotatingInv, Types, DataTypes, ControlTypes, Gemini, feedVars
<1>2. Shape'
  BY DEF RotatingInv, Shape, Gemini, Google, feedVars
<1> QED
  BY <1>1, <1>2

LEMMA AliveFacts ==
  ASSUME RotatingInv, Alive
  PROVE  /\ Len(up) > 0 /\ reader \in {"recv", "flush", "dial", "last"} /\ Current.state = "open"
         /\ Current \in UpstreamType
<1>1. reader \in {"recv", "flush", "dial", "last"}
  BY DEF RotatingInv, Types, ControlTypes, Readers, Alive, Over
<1>2. Len(up) > 0
  BY <1>1 DEF RotatingInv, Shape
<1>3. Current.state = "open"
  BY DEF Alive, Current, Reading
<1> QED
  BY <1>1, <1>2, <1>3, CurrentFacts

LEMMA BreaksStep == RotatingInv /\ Breaks => RotatingInv'
<1> SUFFICES ASSUME RotatingInv, Breaks PROVE RotatingInv'
  OBVIOUS
<1>1. /\ Len(up) > 0 /\ reader \in {"recv", "flush", "dial", "last"} /\ Current.state = "open"
      /\ Current \in UpstreamType
  BY AliveFacts DEF Breaks
<1>2. PICK how \in {"lost"} \cup {s \in {"ok"} : Gemini} : up' = [up EXCEPT ![Reading].state = how]
  BY DEF Breaks
<1> DEFINE u == [Current EXCEPT !.state = how]
<1>3. how = "lost" \/ (how = "ok" /\ Gemini)
  BY <1>2
<1>4. u \in UpstreamType /\ up' = [up EXCEPT ![Len(up)] = u]
  BY <1>1, <1>2, <1>3 DEF UpstreamType, Current, Reading
<1>5. /\ u.heard = Current.heard /\ u.settled = Current.settled /\ u.eos = Current.eos
      /\ u.down = Current.down /\ u.state = how
  BY <1>1 DEF UpstreamType
<1> HIDE DEF u
<1>6. UNCHANGED <<adapter, sent, pending, dropped, offset, finished, patient, feeder, out, reader>>
      /\ UNCHANGED <<adapter, feedVars, ws, rotating, reader, finished, offset>>
  BY DEF Breaks, feedVars
<1>7. Settled' = Settled /\ OutTimes'
  BY <1>6, SettledStays, OutTimesStay DEF RotatingInv, TimesInv
<1>becomes. CurrentBecomes(u) /\ RestStays /\ WordsGrow
  BY <1>1, <1>4, <1>5, <1>6, <1>7, CurrentFacts DEF CurrentBecomes, RestStays, WordsGrow, Known
<1>8. /\ OrderInv' /\ LossInv' /\ OldTails' /\ SettledInv' /\ TimesInv'
      /\ up' \in Seq(UpstreamType) /\ Len(up') = Len(up) /\ Current' = u
  BY <1>1, <1>becomes, CurrentStep
<1>9. Types' /\ Shape'
  BY <1>6, <1>8, ControlStays DEF RotatingInv, Types, DataTypes, ControlTypes
<1>10. GeminiTail'
  BY <1>3, <1>5, <1>6, <1>8 DEF GeminiTail
<1>11. GoogleTail'
  <2>1. (Google /\ reader = "recv" /\ ~finished /\ Current.eos) => Len(up) <= Rotations
    BY DEF RotatingInv, TailInv, GoogleTail
  <2>2. Google => how = "lost"
    BY <1>3 DEF Google, Gemini
  <2>3. Google' => Google
    BY <1>6 DEF Google
  <2> QED
    BY <1>5, <1>6, <1>8, <2>1, <2>2, <2>3 DEF GoogleTail
<1> QED
  BY <1>8, <1>9, <1>10, <1>11 DEF RotatingInv, TailInv

LEMMA SaysErrorStep == RotatingInv /\ SaysError => RotatingInv'
<1> SUFFICES ASSUME RotatingInv, SaysError PROVE RotatingInv'
  OBVIOUS
<1>1. /\ Len(up) > 0 /\ reader \in {"recv", "flush", "dial", "last"} /\ Current.state = "open"
      /\ Current \in UpstreamType
  BY AliveFacts DEF SaysError
<1> DEFINE u == [Current EXCEPT !.down = Append(@, Signal("error")), !.state = "lost"]
<1>2. /\ Append(Current.down, Signal("error")) \in Seq(Message)
      /\ Len(Append(Current.down, Signal("error"))) = Len(Current.down) + 1
      /\ Len(Current.down) \in Nat
      /\ \A i \in 1 .. Len(Current.down) : Append(Current.down, Signal("error"))[i] = Current.down[i]
      /\ Append(Current.down, Signal("error"))[Len(Current.down) + 1] = Signal("error")
  BY <1>1, CurrentFacts, SignalTimely, AfterAppend
<1>3. u \in UpstreamType
  BY <1>1, <1>2 DEF UpstreamType
<1>4. up' = [up EXCEPT ![Len(up)] = u]
  BY DEF SaysError, Current, Reading
<1>5. /\ u.heard = Current.heard /\ u.settled = Current.settled /\ u.eos = Current.eos
      /\ u.down = Append(Current.down, Signal("error")) /\ u.state = "lost"
  BY <1>1 DEF UpstreamType
<1> HIDE DEF u
<1>6. UNCHANGED <<adapter, sent, pending, dropped, offset, finished, patient, feeder, out, reader>>
      /\ UNCHANGED <<adapter, feedVars, ws, rotating, reader, finished, offset>>
  BY DEF SaysError, feedVars
<1>7. Settled' = Settled /\ OutTimes'
  BY <1>6, SettledStays, OutTimesStay DEF RotatingInv, TimesInv
<1>8. \A k \in 1 .. Len(u.down) : Known(u.down[k], Current)
  <2> SUFFICES ASSUME NEW k \in 1 .. Len(u.down) PROVE Known(u.down[k], Current)
    OBVIOUS
  <2>1. k \in 1 .. Len(Current.down) \/ u.down[k] = Signal("error")
    BY <1>2, <1>5
  <2> QED
    BY <1>2, <1>5, <2>1, SignalTimely DEF Known
<1>becomes. CurrentBecomes(u) /\ RestStays /\ WordsGrow
  BY <1>3, <1>4, <1>5, <1>6, <1>7, <1>8, <1>1, CurrentFacts DEF CurrentBecomes, RestStays, WordsGrow
<1>9. /\ OrderInv' /\ LossInv' /\ OldTails' /\ SettledInv' /\ TimesInv'
      /\ up' \in Seq(UpstreamType) /\ Len(up') = Len(up) /\ Current' = u
  BY <1>1, <1>becomes, CurrentStep
<1>10. Types' /\ Shape'
  BY <1>6, <1>9, ControlStays DEF RotatingInv, Types, DataTypes, ControlTypes
<1>11. GeminiTail'
  BY <1>5, <1>6, <1>9 DEF GeminiTail
<1>12. GoogleTail'
  <2>1. (Google /\ reader = "recv" /\ ~finished /\ Current.eos) => Len(up) <= Rotations
    BY DEF RotatingInv, TailInv, GoogleTail
  <2>2. Google' => Google
    BY <1>6 DEF Google
  <2> QED
    BY <1>5, <1>6, <1>9, <2>1, <2>2 DEF GoogleTail
<1> QED
  BY <1>9, <1>10, <1>11, <1>12 DEF RotatingInv, TailInv

LEMMA SettlesStep == RotatingInv /\ Settles => RotatingInv'
<1> SUFFICES ASSUME RotatingInv, Settles PROVE RotatingInv'
  OBVIOUS
<1>1. /\ Len(up) > 0 /\ reader \in {"recv", "flush", "dial", "last"} /\ Current.state = "open"
      /\ Current \in UpstreamType /\ Google
  BY AliveFacts DEF Settles
<1>2. PICK to \in Current.settled + 1 .. Len(Current.heard) :
         up' = [up EXCEPT ![Reading].down = Append(@, Final(up[Reading], to)),
                          ![Reading].settled = to]
  BY DEF Settles, Current, Reading
<1> DEFINE m == Final(Current, to)
           u == [Current EXCEPT !.down = Append(@, m), !.settled = to]
<1>3. /\ m \in Message /\ MessageTimely(m)
      /\ m.text = {Current.heard[i] : i \in Current.settled + 1 .. to}
  BY <1>1, FinalTimely
<1>4. up' = [up EXCEPT ![Len(up)] = u]
  BY <1>2 DEF Current, Reading
<1> HIDE DEF m
<1>5. /\ Append(Current.down, m) \in Seq(Message)
      /\ Len(Append(Current.down, m)) = Len(Current.down) + 1
      /\ Len(Current.down) \in Nat
      /\ \A i \in 1 .. Len(Current.down) : Append(Current.down, m)[i] = Current.down[i]
      /\ Append(Current.down, m)[Len(Current.down) + 1] = m
      /\ Texts(Append(Current.down, m)) = Texts(Current.down) \cup m.text
  <2>1. Current.down \in Seq(Message)
    BY <1>1, CurrentFacts
  <2>2. Texts(Append(Current.down, m)) = Texts(Current.down) \cup m.text
    BY <1>3, <2>1, TextsOfAppend
  <2> QED
    BY <1>3, <2>1, <2>2, AfterAppend
<1>6. to \in Nat /\ to <= Len(Current.heard)
  BY <1>1, <1>2, CurrentFacts
<1>7. u \in UpstreamType
  BY <1>1, <1>5, <1>6 DEF UpstreamType
<1>8. /\ u.heard = Current.heard /\ u.settled = to /\ u.eos = Current.eos
      /\ u.down = Append(Current.down, m) /\ u.state = Current.state
  BY <1>1 DEF UpstreamType
<1> HIDE DEF u
<1>9. UNCHANGED <<adapter, sent, pending, dropped, offset, finished, patient, feeder, out, reader>>
      /\ UNCHANGED <<adapter, feedVars, ws, rotating, reader, finished, offset>>
  BY DEF Settles, feedVars
<1>10. Settled' = Settled /\ OutTimes'
  BY <1>9, SettledStays, OutTimesStay DEF RotatingInv, TimesInv
<1>11. \A k \in 1 .. Len(u.down) : Known(u.down[k], Current)
  <2> SUFFICES ASSUME NEW k \in 1 .. Len(u.down) PROVE Known(u.down[k], Current)
    OBVIOUS
  <2>1. k \in 1 .. Len(Current.down) \/ u.down[k] = m
    BY <1>5, <1>8
  <2> QED
    BY <1>3, <1>5, <1>8, <2>1 DEF Known
<1>becomes. CurrentBecomes(u) /\ RestStays /\ WordsGrow
  BY <1>1, <1>4, <1>6, <1>7, <1>8, <1>9, <1>10, <1>11 DEF CurrentBecomes, RestStays, WordsGrow
<1>12. /\ OrderInv' /\ LossInv' /\ OldTails' /\ SettledInv' /\ TimesInv'
       /\ up' \in Seq(UpstreamType) /\ Len(up') = Len(up) /\ Current' = u
  BY <1>1, <1>becomes, CurrentStep
<1>13. Types' /\ Shape'
  BY <1>9, <1>12, ControlStays DEF RotatingInv, Types, DataTypes, ControlTypes
<1>14. GeminiTail'
  BY <1>1, <1>9 DEF GeminiTail, Gemini, Google
<1>15. GoogleTail'
  <2>1. reader = "recv" =>
          /\ \A a \in 1 .. Current.settled : Current.heard[a] \in Settled \cup Texts(Current.down)
          /\ (~finished /\ Current.eos) => Len(up) <= Rotations
    BY <1>1 DEF RotatingInv, TailInv, GoogleTail
  <2>2. \A a \in 1 .. to : a \in 1 .. Current.settled \/ a \in Current.settled + 1 .. to
    BY <1>1, CurrentFacts
  <2>3. reader = "recv" => \A a \in 1 .. to : u.heard[a] \in Settled \cup Texts(u.down)
    BY <1>3, <1>5, <1>8, <2>1, <2>2
  <2>4. \A d : Texts(d)' = Texts(d)
    BY DEF Texts
  <2>5. Current'.state = "open" /\ Current'.settled = to /\ Current'.eos = Current.eos
    BY <1>1, <1>8, <1>12
  <2>6. reader' = "recv" => \A a \in 1 .. Current'.settled :
                              Current'.heard[a] \in (Settled \cup Texts(Current.down))'
    BY <1>9, <1>10, <1>12, <2>3, <2>4, <2>5
  <2> QED
    BY <1>9, <1>12, <2>1, <2>5, <2>6 DEF GoogleTail
<1> QED
  BY <1>12, <1>13, <1>14, <1>15 DEF RotatingInv, TailInv

(* All that an upstream has to say when it is told the audio is over: the  *)
(* rest of what it heard, and for Gemini the end of the turn, last.        *)
LEMMA AnswerFacts ==
  ASSUME RotatingInv, Len(up) > 0, NEW answer, answer = Answer(Current)
  PROVE  /\ answer \in Seq(Message)
         /\ \A k \in 1 .. Len(answer) : MessageTimely(answer[k])
         /\ \A a \in Current.settled + 1 .. Len(Current.heard) : Current.heard[a] \in Texts(answer)
         /\ Gemini => /\ Len(answer) > 0
                      /\ \A i \in 1 .. Len(answer) : answer[i].kind = "final" <=> i < Len(answer)
                      /\ answer[Len(answer)].text = {}
<1> DEFINE last == Final(Current, Len(Current.heard))
           turn == Signal("turn_end")
           rest == IF Current.settled = Len(Current.heard) THEN <<>> ELSE <<last>>
           end == IF Gemini THEN <<turn>> ELSE <<>>
<1>1. answer = rest \o end
  BY DEF Answer
<1>2. /\ Current.settled \in Nat /\ Len(Current.heard) \in Nat
      /\ Current.settled <= Len(Current.heard)
  BY CurrentFacts
<1>3. Current.settled # Len(Current.heard) =>
        /\ last \in Message /\ MessageTimely(last) /\ last.kind = "final"
        /\ last.text = {Current.heard[i] : i \in Current.settled + 1 .. Len(Current.heard)}
  <2>1. Current.settled # Len(Current.heard) =>
          Len(Current.heard) \in Current.settled + 1 .. Len(Current.heard)
    BY <1>2
  <2> QED
    BY <2>1, FinalTimely
<1>4. turn \in Message /\ MessageTimely(turn) /\ turn.kind = "turn_end" /\ turn.text = {}
  BY SignalTimely
<1> HIDE DEF last, turn
<1>5. rest \in Seq(Message) /\ end \in Seq(Message)
  BY <1>3, <1>4
<1>6. /\ answer \in Seq(Message) /\ Len(answer) = Len(rest) + Len(end)
      /\ \A i \in 1 .. Len(rest) : answer[i] = rest[i]
      /\ \A i \in 1 .. Len(end) : answer[Len(rest) + i] = end[i]
  <2> HIDE DEF rest, end
  <2> QED
    BY <1>1, <1>5, Joined
<1>7. CASE Current.settled = Len(Current.heard) /\ ~Gemini
  <2>1. Len(rest) = 0 /\ Len(end) = 0
    BY <1>7
  <2> HIDE DEF rest, end
  <2>2. Len(answer) = 0
    BY <1>6, <2>1
  <2> QED
    BY <1>2, <1>6, <1>7, <2>2
<1>8. CASE Current.settled = Len(Current.heard) /\ Gemini
  <2>1. Len(rest) = 0 /\ Len(end) = 1 /\ end[1] = turn
    BY <1>8
  <2> HIDE DEF rest, end
  <2>2. Len(answer) = 1 /\ answer[1] = turn
    BY <1>6, <2>1
  <2>3. \A k \in 1 .. Len(answer) : k = 1 /\ answer[k] = turn
    BY <2>2
  <2>4. /\ answer \in Seq(Message) /\ \A k \in 1 .. Len(answer) : MessageTimely(answer[k])
    BY <1>4, <1>6, <2>3
  <2>5. \A a \in Current.settled + 1 .. Len(Current.heard) : FALSE
    BY <1>2, <1>8
  <2>6. /\ Len(answer) > 0 /\ answer[Len(answer)].text = {}
        /\ \A i \in 1 .. Len(answer) : answer[i].kind = "final" <=> i < Len(answer)
    BY <1>4, <2>2, <2>3
  <2> QED
    BY <2>4, <2>5, <2>6
<1>9. CASE Current.settled # Len(Current.heard) /\ ~Gemini
  <2>1. Len(rest) = 1 /\ Len(end) = 0 /\ rest[1] = last
    BY <1>9
  <2> HIDE DEF rest, end
  <2>2. Len(answer) = 1 /\ answer[1] = last
    BY <1>6, <2>1
  <2>3. last.text \subseteq Texts(answer)
    BY <2>2, TextsIn
  <2>4. \A k \in 1 .. Len(answer) : answer[k] = last
    BY <2>2
  <2>5. /\ answer \in Seq(Message) /\ \A k \in 1 .. Len(answer) : MessageTimely(answer[k])
    BY <1>3, <1>6, <1>9, <2>4
  <2>6. \A a \in Current.settled + 1 .. Len(Current.heard) : Current.heard[a] \in Texts(answer)
    BY <1>3, <1>9, <2>3
  <2> QED
    BY <1>9, <2>5, <2>6
<1>10. CASE Current.settled # Len(Current.heard) /\ Gemini
  <2>1. Len(rest) = 1 /\ Len(end) = 1 /\ rest[1] = last /\ end[1] = turn
    BY <1>10
  <2> HIDE DEF rest, end
  <2>2. Len(answer) = 2 /\ answer[1] = last /\ answer[2] = turn
    BY <1>6, <2>1
  <2>3. last.text \subseteq Texts(answer)
    BY <2>2, TextsIn
  <2>4. \A k \in 1 .. Len(answer) : (k = 1 /\ answer[k] = last) \/ (k = 2 /\ answer[k] = turn)
    BY <2>2
  <2>5. /\ answer \in Seq(Message) /\ \A k \in 1 .. Len(answer) : MessageTimely(answer[k])
    BY <1>3, <1>4, <1>6, <1>10, <2>4
  <2>6. \A a \in Current.settled + 1 .. Len(Current.heard) : Current.heard[a] \in Texts(answer)
    BY <1>3, <1>10, <2>3
  <2>7. /\ Len(answer) > 0 /\ answer[Len(answer)].text = {}
        /\ \A i \in 1 .. Len(answer) : answer[i].kind = "final" <=> i < Len(answer)
    BY <1>3, <1>4, <1>10, <2>2, <2>4
  <2> QED
    BY <2>5, <2>6, <2>7
<1> QED
  BY <1>7, <1>8, <1>9, <1>10

LEMMA TextsOfJoin ==
  ASSUME NEW d \in Seq(Message), NEW e \in Seq(Message)
  PROVE  Texts(d) \subseteq Texts(d \o e) /\ Texts(e) \subseteq Texts(d \o e)
<1> DEFINE s == d \o e
<1>1. /\ Len(s) = Len(d) + Len(e) /\ Len(d) \in Nat /\ Len(e) \in Nat
      /\ \A i \in 1 .. Len(d) : s[i] = d[i]
      /\ \A i \in 1 .. Len(e) : s[Len(d) + i] = e[i]
  BY Joined
<1> HIDE DEF s
<1>2. ASSUME NEW i \in 1 .. Len(d) PROVE d[i].text \subseteq Texts(s)
  BY <1>1, TextsIn
<1>3. ASSUME NEW i \in 1 .. Len(e) PROVE e[i].text \subseteq Texts(s)
  <2>1. Len(d) + i \in 1 .. Len(s) /\ s[Len(d) + i] = e[i]
    BY <1>1
  <2> QED
    BY <2>1, TextsIn
<1>4. Texts(d) \subseteq Texts(s) /\ Texts(e) \subseteq Texts(s)
  <2>1. Texts(d) \subseteq Texts(s)
    BY <1>2 DEF Texts
  <2>2. Texts(e) \subseteq Texts(s)
    BY <1>3 DEF Texts
  <2> QED
    BY <2>1, <2>2
<1> QED
  BY <1>4 DEF s

LEMMA AnswersStep == RotatingInv /\ Answers => RotatingInv'
<1> SUFFICES ASSUME RotatingInv, Answers PROVE RotatingInv'
  OBVIOUS
<1>1. /\ Len(up) > 0 /\ reader \in {"recv", "flush", "dial", "last"} /\ Current.state = "open"
      /\ Current \in UpstreamType /\ Current.eos = TRUE
  <2>1. Current.eos
    BY DEF Answers, Current, Reading
  <2> QED
    BY <2>1, AliveFacts, CurrentFacts DEF Answers
<1> DEFINE answer == Answer(Current)
           down == Current.down \o answer
           u == [Current EXCEPT !.down = Current.down \o Answer(Current),
                                !.settled = Len(Current.heard), !.eos = FALSE,
                                !.state = IF Google THEN "shut" ELSE @]
<1>2. up' = [up EXCEPT ![Len(up)] = u]
  BY DEF Answers, Current, Reading
<1>3. /\ answer \in Seq(Message)
      /\ \A k \in 1 .. Len(answer) : MessageTimely(answer[k])
      /\ \A a \in Current.settled + 1 .. Len(Current.heard) : Current.heard[a] \in Texts(answer)
      /\ Gemini => /\ Len(answer) > 0
                   /\ \A i \in 1 .. Len(answer) : answer[i].kind = "final" <=> i < Len(answer)
                   /\ answer[Len(answer)].text = {}
  BY <1>1, AnswerFacts
<1>4. /\ Current.down \in Seq(Message) /\ Current.settled \in Nat /\ Len(Current.heard) \in Nat
      /\ Current.settled <= Len(Current.heard)
  BY <1>1, CurrentFacts
<1> HIDE DEF answer
<1>5. /\ down \in Seq(Message) /\ Len(down) = Len(Current.down) + Len(answer)
      /\ Len(Current.down) \in Nat /\ Len(answer) \in Nat
      /\ \A i \in 1 .. Len(Current.down) : down[i] = Current.down[i]
      /\ \A i \in 1 .. Len(answer) : down[Len(Current.down) + i] = answer[i]
  BY <1>3, <1>4, Joined
<1>6. Texts(Current.down) \subseteq Texts(down) /\ Texts(answer) \subseteq Texts(down)
  BY <1>3, <1>4, TextsOfJoin
<1>7. Current.down \o Answer(Current) = down
  BY DEF answer
<1> HIDE DEF down
<1>8. u \in UpstreamType
  BY <1>1, <1>4, <1>5, <1>7 DEF UpstreamType
<1>9. /\ u.heard = Current.heard /\ u.settled = Len(Current.heard) /\ u.eos = FALSE
      /\ u.down = down /\ u.state = IF Google THEN "shut" ELSE "open"
  BY <1>1, <1>7 DEF UpstreamType
<1> HIDE DEF u
<1>10. UNCHANGED <<adapter, sent, pending, dropped, offset, finished, patient, feeder, out, reader>>
       /\ UNCHANGED <<adapter, feedVars, ws, rotating, reader, finished, offset>>
  BY DEF Answers, feedVars
<1>11. Settled' = Settled /\ OutTimes'
  BY <1>10, SettledStays, OutTimesStay DEF RotatingInv, TimesInv
<1>12. ASSUME NEW k \in 1 .. Len(u.down) PROVE Known(u.down[k], Current)
  <2>1. CASE k <= Len(Current.down)
    BY <1>5, <1>9, <2>1 DEF Known
  <2>2. CASE k > Len(Current.down)
    <3>1. k - Len(Current.down) \in 1 .. Len(answer)
          /\ k = Len(Current.down) + (k - Len(Current.down))
      BY <1>5, <1>9, <2>2
    <3>2. u.down[k] = answer[k - Len(Current.down)]
      BY <1>5, <1>9, <3>1
    <3> QED
      BY <1>3, <3>1, <3>2 DEF Known
  <2> QED
    BY <1>5, <1>9, <2>1, <2>2
<1>13. CurrentBecomes(u) /\ RestStays /\ WordsGrow
  BY <1>2, <1>4, <1>8, <1>9, <1>10, <1>11, <1>12 DEF CurrentBecomes, RestStays, WordsGrow
<1>14. /\ OrderInv' /\ LossInv' /\ OldTails' /\ SettledInv' /\ TimesInv'
       /\ up' \in Seq(UpstreamType) /\ Len(up') = Len(up) /\ Current' = u
  BY <1>1, <1>13, CurrentStep
<1>15. Types' /\ Shape'
  BY <1>10, <1>14, ControlStays DEF RotatingInv, Types, DataTypes, ControlTypes
<1>16. \A d : Texts(d)' = Texts(d)
  BY DEF Texts
<1>17. GeminiTail'
  <2> SUFFICES ASSUME Gemini, ~finished PROVE GeminiTail'
    BY <1>10 DEF GeminiTail, Gemini
  <2>1. u.state = "open" /\ ~Google
    BY <1>9 DEF Gemini, Google
  <2>2. reader # "recv"
    BY <1>1 DEF RotatingInv, TailInv, GeminiTail
  <2>3. reader = "flush" => Answered(Current)'
    <3> SUFFICES ASSUME reader = "flush" PROVE Answered(Current)'
      OBVIOUS
    <3>1. Len(Current.down) = 0 /\ Current.settled = 0
      BY <1>1 DEF RotatingInv, TailInv, GeminiTail, Fresh
    <3>2. Len(down) = Len(answer) /\ \A i \in 1 .. Len(answer) : down[i] = answer[i]
      BY <1>5, <3>1
    <3>3. \A a \in 1 .. Len(Current.heard) : Current.heard[a] \in Texts(down)
      BY <1>3, <1>4, <1>6, <3>1
    <3>4. /\ Len(down) > 0
          /\ \A i \in 1 .. Len(down) : down[i].kind = "final" <=> i < Len(down)
          /\ down[Len(down)].text = {}
      BY <1>3, <1>5, <3>2, SMTT(30)
    <3> QED
      BY <1>9, <1>14, <1>16, <3>3, <3>4 DEF Answered
  <2>4. (patient /\ reader = "dial") => SaidAll(Current)'
    <3>1. (patient /\ reader = "dial") => SaidAll(Current)
      BY <1>1 DEF RotatingInv, TailInv, GeminiTail
    <3> QED
      BY <1>9, <1>11, <1>14, <3>1 DEF SaidAll
  <2>5. patient' => patient
    BY <1>10
  <2> QED
    BY <1>9, <1>10, <1>14, <2>1, <2>2, <2>3, <2>4, <2>5 DEF GeminiTail
<1>18. GoogleTail'
  <2> SUFFICES ASSUME Google, reader = "recv" PROVE GoogleTail'
    BY <1>10 DEF GoogleTail, Google
  <2>1. /\ \A a \in 1 .. Current.settled : Current.heard[a] \in Settled \cup Texts(Current.down)
        /\ ~finished => Len(up) <= Rotations
    BY <1>1 DEF RotatingInv, TailInv, GoogleTail
  <2>2. \A a \in 1 .. Len(Current.heard) :
          a \in 1 .. Current.settled \/ a \in Current.settled + 1 .. Len(Current.heard)
    BY <1>4
  <2>3. \A a \in 1 .. Len(Current.heard) : Current.heard[a] \in Settled \cup Texts(down)
    BY <1>3, <1>6, <2>1, <2>2
  <2>4. \A a \in 1 .. Current'.settled : Current'.heard[a] \in (Settled \cup Texts(Current.down))'
    BY <1>9, <1>11, <1>14, <1>16, <2>3
  <2>5. Current'.state = "shut" /\ Current'.settled = Len(Current'.heard)
    BY <1>9, <1>14
  <2> QED
    BY <1>10, <1>14, <2>1, <2>4, <2>5 DEF GoogleTail
<1> QED
  BY <1>14, <1>15, <1>17, <1>18 DEF RotatingInv, TailInv

-----------------------------------------------------------------------------
(* events(), apart from what it hears.                                     *)

LEMMA ShutFacts ==
  ASSUME NEW v \in UpstreamType
  PROVE  /\ Shut(v) \in UpstreamType /\ Shut(v).heard = v.heard /\ Shut(v).settled = v.settled
         /\ v.state # "open" => Shut(v) = v
         /\ v.state = "open" => Shut(v).state = "shut" /\ Len(Shut(v).down) = 0
<1>1. CASE v.state = "open"
  <2> DEFINE w == [v EXCEPT !.state = "shut", !.down = <<>>]
  <2>1. <<>> \in Seq(Message) /\ Len(<<>>) = 0
    OBVIOUS
  <2>2. Shut(v) = w
    BY <1>1 DEF Shut
  <2>3. w.heard = v.heard /\ w.settled = v.settled /\ w.state = "shut" /\ w.down = <<>>
    BY DEF UpstreamType
  <2>4. w \in UpstreamType
    BY <2>1 DEF UpstreamType
  <2> HIDE DEF w
  <2> QED
    BY <1>1, <2>1, <2>2, <2>3, <2>4
<1>2. CASE v.state # "open"
  BY <1>2 DEF Shut
<1> QED
  BY <1>1, <1>2

LEMMA ToldFacts ==
  ASSUME NEW v \in UpstreamType
  PROVE  /\ Told(v) \in UpstreamType /\ Told(v).heard = v.heard /\ Told(v).settled = v.settled
         /\ Told(v).down = v.down /\ Told(v).state = v.state
         /\ v.state = "open" => Told(v).eos = TRUE
         /\ v.state # "open" => Told(v) = v
  BY DEF Told, UpstreamType

LEMMA ShutKnows ==
  ASSUME NEW v \in UpstreamType, NEW k \in 1 .. Len(Shut(v).down)
  PROVE  Known(Shut(v).down[k], v)
<1>1. CASE v.state = "open"
  <2>1. Len(Shut(v).down) = 0
    BY <1>1, ShutFacts
  <2> QED
    BY <2>1
<1>2. CASE v.state # "open"
  BY <1>2, ShutFacts DEF Known
<1> QED
  BY <1>1, <1>2

(* The message at the head of what the current upstream has sent.          *)
LEMMA HeadFacts ==
  ASSUME RotatingInv, Len(up) > 0, Len(Current.down) > 0, NEW m, m = Head(Current.down)
  PROVE  /\ m \in Message /\ MessageTimely(m) /\ m = Current.down[1]
         /\ Tail(Current.down) \in Seq(Message)
         /\ Len(Tail(Current.down)) = Len(Current.down) - 1 /\ Len(Current.down) \in Nat
         /\ \A i \in 1 .. Len(Current.down) - 1 : Tail(Current.down)[i] = Current.down[i + 1]
         /\ \A k \in 1 .. Len(Tail(Current.down)) : Known(Tail(Current.down)[k], Current)
         /\ Texts(Current.down) = Texts(Tail(Current.down)) \cup m.text
<1>1. Current.down \in Seq(Message)
  BY CurrentFacts
<1>2. /\ Tail(Current.down) \in Seq(Message)
      /\ Len(Tail(Current.down)) = Len(Current.down) - 1 /\ Len(Current.down) \in Nat
      /\ \A i \in 1 .. Len(Current.down) - 1 : Tail(Current.down)[i] = Current.down[i + 1]
      /\ m = Current.down[1] /\ Current.down[1] \in Message
  BY <1>1, AfterTail
<1>3. MessageTimely(m)
  BY <1>2 DEF RotatingInv, TimesInv, DownTimes
<1>4. Texts(Current.down) = Texts(Tail(Current.down)) \cup m.text
  BY <1>1, TextsOfTail
<1>5. ASSUME NEW k \in 1 .. Len(Tail(Current.down)) PROVE Known(Tail(Current.down)[k], Current)
  <2>1. k + 1 \in 1 .. Len(Current.down) /\ k \in 1 .. Len(Current.down) - 1
    BY <1>2
  <2> QED
    BY <1>2, <2>1 DEF Known
<1> QED
  BY <1>2, <1>3, <1>4, <1>5

(* A read message moves its words from the upstream to the session.        *)
LEMMA WordsMove ==
  ASSUME RotatingInv, Len(up) > 0, NEW m \in Message, NEW end \in Int,
         out' = IF m.kind = "final" THEN Append(out, [text |-> m.text, end |-> end]) ELSE out,
         m.kind = "final" => Timely(m.text, end)
  PROVE  /\ WordsGrow /\ out' \in Seq(FinalType)
         /\ m.kind = "final" => Settled' = Settled \cup m.text
<1>1. out \in Seq(FinalType) /\ OutTimes
  BY DEF RotatingInv, Types, DataTypes, TimesInv
<1> DEFINE e == [text |-> m.text, end |-> end]
<1>2. e \in FinalType /\ e.text = m.text /\ e.end = end
  BY MessageFacts DEF FinalType
<1>3. CASE m.kind = "final"
  <2> HIDE DEF e
  <2>1. out' = Append(out, e)
    BY <1>3 DEF e
  <2>2. Settled' = Settled \cup m.text
    BY <1>1, <1>2, <2>1, SettledGrows
  <2>3. OutTimes'
    BY <1>1, <1>2, <1>3, <2>1, OutTimesGrow
  <2>4. out' \in Seq(FinalType)
    BY <1>1, <1>2, <2>1, AfterAppend
  <2> QED
    BY <2>2, <2>3, <2>4 DEF WordsGrow
<1>4. CASE m.kind # "final"
  BY <1>1, <1>4, SettledStays, OutTimesStay DEF WordsGrow
<1> QED
  BY <1>3, <1>4

LEMMA RotateOrReturnStep ==
  ASSUME RotatingInv, Gemini, reader = "recv", RotateOrReturn, finished \/ Len(up) <= Rotations,
         UNCHANGED <<adapter, feedVars, ws, finished, offset, out>>,
         patient' \in BOOLEAN, patient' => patient
  PROVE  RotatingInv'
<1>1. Len(up) > 0 /\ Current \in UpstreamType
  BY CurrentFacts DEF RotatingInv, Shape
<1>2. CASE finished
  <2>1. reader' = "returned" /\ UNCHANGED <<up, rotating, sent, pending, dropped, feeder, held>>
    BY <1>2 DEF RotateOrReturn, feedVars
  <2>2. Types' /\ Shape'
    BY <1>1, <1>2, <2>1
       DEF RotatingInv, Types, DataTypes, ControlTypes, Shape, Gemini, Google, Readers
  <2> QED
    BY <2>1, <2>2, ControlStep
<1>3. CASE ~finished
  <2> DEFINE u == Told(Current)
  <2>1. reader' = "flush" /\ rotating' = TRUE /\ up' = [up EXCEPT ![Len(up)] = u]
        /\ UNCHANGED <<sent, pending, dropped, feeder, held>>
    BY <1>3 DEF RotateOrReturn, feedVars, Reading, Current
  <2>2. /\ u \in UpstreamType /\ u.heard = Current.heard /\ u.settled = Current.settled
        /\ u.down = Current.down /\ u.state = Current.state
        /\ Current.state = "open" => u.eos = TRUE
    BY <1>1, ToldFacts
  <2> HIDE DEF u
  <2>3. WordsGrow
    BY SettledStays, OutTimesStay DEF WordsGrow, RotatingInv, TimesInv
  <2>4. CurrentBecomes(u) /\ RestStays
    BY <1>1, <2>1, <2>2, CurrentFacts DEF CurrentBecomes, RestStays, Known
  <2>5. /\ OrderInv' /\ LossInv' /\ OldTails' /\ SettledInv' /\ TimesInv'
        /\ up' \in Seq(UpstreamType) /\ Len(up') = Len(up) /\ Current' = u
    BY <1>1, <2>3, <2>4, CurrentStep
  <2>6. Types' /\ Shape'
    BY <1>1, <1>3, <2>1, <2>5
       DEF RotatingInv, Types, DataTypes, ControlTypes, Shape, Gemini, Google, Readers
  <2>7. GeminiTail'
    <3>1. Current.state # "shut" /\ (Current.state = "open" => Fresh(Current))
      BY <1>3 DEF RotatingInv, TailInv, GeminiTail
    <3>2. Current.state = "open" => Fresh(Current)'
      BY <2>2, <2>5, <3>1 DEF Fresh
    <3> QED
      BY <2>1, <2>2, <2>5, <3>1, <3>2 DEF GeminiTail
  <2>8. GoogleTail'
    BY <2>1 DEF GoogleTail
  <2> QED
    BY <2>5, <2>6, <2>7, <2>8 DEF RotatingInv, TailInv
<1> QED
  BY <1>2, <1>3

LEMMA RotateStep == RotatingInv /\ Rotate => RotatingInv'
<1> SUFFICES ASSUME RotatingInv, Rotate PROVE RotatingInv'
  OBVIOUS
<1>1. patient' \in BOOLEAN /\ (patient' => patient)
  BY DEF Rotate, RotatingInv, Types, ControlTypes
<1> QED
  BY <1>1, RotateOrReturnStep DEF Rotate, Reading

LEMMA ReadsCloseStep == RotatingInv /\ ReadsClose => RotatingInv'
<1> SUFFICES ASSUME RotatingInv, ReadsClose PROVE RotatingInv'
  OBVIOUS
<1>1. /\ Gemini /\ reader = "recv" /\ patient' \in BOOLEAN /\ (patient' => patient)
      /\ UNCHANGED <<adapter, sent, pending, dropped, ws, finished, held, offset, out>>
  BY DEF ReadsClose, RotatingInv, Types, ControlTypes
<1>2. CASE RotateOrReturn /\ UNCHANGED feeder /\ (finished \/ Len(up) <= Rotations)
  <2>1. UNCHANGED <<adapter, feedVars, ws, finished, offset, out>>
    BY <1>1, <1>2 DEF feedVars
  <2> QED
    BY <1>1, <1>2, <2>1, RotateOrReturnStep
<1>3. CASE reader' = "raised" /\ feeder' = Cancelled /\ UNCHANGED <<up, rotating>>
  <2>1. Types' /\ Shape'
    BY <1>1, <1>3 DEF RotatingInv, Types, DataTypes, ControlTypes, Shape, Gemini, Google,
       Readers, Feeders, Cancelled
  <2> QED
    BY <1>1, <1>3, <2>1, ControlStep DEF Cancelled
<1> QED
  BY <1>2, <1>3 DEF ReadsClose, Reading


LEMMA RequestsExpireStep == RotatingInv /\ RequestsExpire => RotatingInv'
<1> SUFFICES ASSUME RotatingInv, RequestsExpire PROVE RotatingInv'
  OBVIOUS
<1>1. /\ Len(up) > 0 /\ Current.state = "open" /\ Current \in UpstreamType
      /\ Google /\ Len(up) <= Rotations
  BY AliveFacts DEF RequestsExpire, Reading
<1> DEFINE u == Told(Current)
<1>2. up' = [up EXCEPT ![Len(up)] = u]
  BY DEF RequestsExpire, Current, Reading
<1>3. /\ u \in UpstreamType /\ u.heard = Current.heard /\ u.settled = Current.settled
      /\ u.down = Current.down /\ u.state = "open"
  BY <1>1, ToldFacts
<1> HIDE DEF u
<1>4. UNCHANGED <<adapter, sent, pending, dropped, offset, finished, patient, feeder, out, reader>>
      /\ UNCHANGED <<adapter, feedVars, ws, rotating, reader, finished, offset>>
  BY DEF RequestsExpire, feedVars
<1>5. Settled' = Settled /\ OutTimes'
  BY <1>4, SettledStays, OutTimesStay DEF RotatingInv, TimesInv
<1>6. CurrentBecomes(u) /\ RestStays /\ WordsGrow
  BY <1>1, <1>2, <1>3, <1>4, <1>5, CurrentFacts, SMTT(30) DEF CurrentBecomes, RestStays, WordsGrow, Known
<1>7. /\ OrderInv' /\ LossInv' /\ OldTails' /\ SettledInv' /\ TimesInv'
      /\ up' \in Seq(UpstreamType) /\ Len(up') = Len(up) /\ Current' = u
  BY <1>1, <1>6, CurrentStep
<1>8. Types' /\ Shape'
  BY <1>4, <1>7, ControlStays DEF RotatingInv, Types, DataTypes, ControlTypes
<1>9. GeminiTail'
  BY <1>1, <1>4 DEF GeminiTail, Gemini, Google
<1>10. GoogleTail'
  <2>1. \A d : Texts(d)' = Texts(d)
    BY DEF Texts
  <2>2. reader = "recv" =>
          \A a \in 1 .. Current.settled : Current.heard[a] \in Settled \cup Texts(Current.down)
    BY <1>1 DEF RotatingInv, TailInv, GoogleTail
  <2>3. reader' = "recv" =>
          \A a \in 1 .. Current'.settled : Current'.heard[a] \in (Settled \cup Texts(Current.down))'
    BY <1>3, <1>4, <1>5, <1>7, <2>1, <2>2
  <2> QED
    BY <1>1, <1>3, <1>4, <1>7, <2>3 DEF GoogleTail
<1> QED
  BY <1>7, <1>8, <1>9, <1>10 DEF RotatingInv, TailInv

(* _flush(): the old socket said all it heard, or it broke or ran out of time. *)
LEMMA FlushTypes ==
  ASSUME RotatingInv, reader \in {"flush", "last"}, Len(up') = Len(up), up' \in Seq(UpstreamType),
         out' \in Seq(FinalType), patient' \in BOOLEAN,
         UNCHANGED <<adapter, feedVars, ws, rotating, finished, offset>>,
         reader' = reader \/ reader' = (IF reader = "flush" THEN "dial" ELSE "recv")
  PROVE  Types' /\ Shape'
<1>1. reader' \in {"flush", "dial", "last", "recv"} /\ (reader = "last" => reader' \in {"last", "recv"})
      /\ (reader = "flush" => reader' \in {"flush", "dial"})
  OBVIOUS
<1>2. Types'
  BY <1>1 DEF RotatingInv, Types, DataTypes, ControlTypes, Gemini, feedVars, Readers
<1>3. Shape'
  BY <1>1 DEF RotatingInv, Shape, Gemini, Google, feedVars
<1> QED
  BY <1>2, <1>3

LEMMA FlushEndsStep == RotatingInv /\ FlushEnds => RotatingInv'
<1> SUFFICES ASSUME RotatingInv, FlushEnds PROVE RotatingInv'
  OBVIOUS
<1>1. reader \in {"flush", "last"} /\ Len(up) > 0 /\ Current \in UpstreamType
      /\ (reader = "last" => finished)
  BY CurrentFacts DEF FlushEnds, RotatingInv, Shape
<1> DEFINE u == Shut(Current)
<1>2. up' = [up EXCEPT ![Len(up)] = u]
  BY DEF FlushEnds, Current, Reading
<1>3. /\ u \in UpstreamType /\ u.heard = Current.heard /\ u.settled = Current.settled
      /\ \A k \in 1 .. Len(u.down) : Known(u.down[k], Current)
      /\ Current.state # "open" => u = Current
  BY <1>1, ShutFacts, ShutKnows
<1> HIDE DEF u
<1>4. UNCHANGED <<adapter, sent, pending, dropped, offset, finished, feeder, out>>
      /\ UNCHANGED <<adapter, feedVars, ws, rotating, finished, offset>>
      /\ reader' = (IF reader = "flush" THEN "dial" ELSE "recv")
      /\ patient' = (patient /\ Current.state # "open")
  BY DEF FlushEnds, feedVars, Current, Reading
<1>5. Settled' = Settled /\ OutTimes'
  BY <1>4, SettledStays, OutTimesStay DEF RotatingInv, TimesInv
<1>6. CurrentBecomes(u) /\ RestStays /\ WordsGrow
  <2>1. CurrentBecomes(u)
    BY <1>1, <1>2, <1>3, CurrentFacts DEF CurrentBecomes
  <2>2. patient' => patient
    BY <1>4
  <2>3. UNCHANGED <<adapter, sent, pending, dropped, offset, finished, feeder>>
    BY <1>4
  <2>4. RestStays
    BY <2>2, <2>3 DEF RestStays
  <2> QED
    BY <1>5, <2>1, <2>4 DEF WordsGrow
<1>7. /\ OrderInv' /\ LossInv' /\ OldTails' /\ SettledInv' /\ TimesInv'
      /\ up' \in Seq(UpstreamType) /\ Len(up') = Len(up) /\ Current' = u
  BY <1>1, <1>6, CurrentStep
<1>8. Types' /\ Shape'
  <2>1. patient' \in BOOLEAN /\ out' \in Seq(FinalType)
    BY <1>4 DEF RotatingInv, Types, DataTypes, ControlTypes
  <2> QED
    BY <1>1, <1>4, <1>7, <2>1, FlushTypes
<1>9. GeminiTail'
  <2> SUFFICES ASSUME Gemini, ~finished PROVE GeminiTail'
    BY <1>4 DEF GeminiTail, Gemini
  <2>1. reader = "flush" /\ reader' = "dial" /\ Current.state # "shut"
    BY <1>1, <1>4 DEF RotatingInv, TailInv, GeminiTail
  <2>2. patient' => u.state \in {"ok", "lost"}
    BY <1>1, <1>3, <1>4, <2>1 DEF UpstreamType
  <2> QED
    BY <1>7, <2>1, <2>2 DEF GeminiTail
<1>10. GoogleTail'
  BY <1>1, <1>4 DEF GoogleTail, Google, RotatingInv, Shape
<1> QED
  BY <1>7, <1>8, <1>9, <1>10 DEF RotatingInv, TailInv

LEMMA FlushReadsStep == RotatingInv /\ FlushReads => RotatingInv'
<1> SUFFICES ASSUME RotatingInv, FlushReads PROVE RotatingInv'
  OBVIOUS
<1>1. reader \in {"flush", "last"} /\ Len(up) > 0 /\ Current \in UpstreamType
      /\ Len(up) \in Nat /\ up \in Seq(UpstreamType)
      /\ Gemini /\ (reader = "last" => finished) /\ Current.down # <<>>
  <2>1. reader \in {"flush", "last"} /\ Len(up) > 0
    BY DEF FlushReads, RotatingInv, Shape
  <2>2. Gemini
    BY <2>1, RotatingAssumption
       DEF RotatingInv, Shape, Types, ControlTypes, Gemini, Google
  <2> QED
    BY <2>1, <2>2, CurrentFacts DEF FlushReads, RotatingInv, Shape
<1> DEFINE m == Head(Current.down)
           v == [Current EXCEPT !.down = Tail(Current.down)]
           u == IF m.kind = "final" THEN v ELSE Shut(v)
<1>2. Len(Current.down) > 0
  <2>1. Current.down \in Seq(Message)
    BY <1>1, CurrentFacts
  <2> QED
    BY <1>1, <2>1
<1>3. /\ m \in Message /\ MessageTimely(m) /\ m = Current.down[1]
      /\ Tail(Current.down) \in Seq(Message)
      /\ Len(Tail(Current.down)) = Len(Current.down) - 1 /\ Len(Current.down) \in Nat
      /\ \A i \in 1 .. Len(Current.down) - 1 : Tail(Current.down)[i] = Current.down[i + 1]
      /\ \A k \in 1 .. Len(Tail(Current.down)) : Known(Tail(Current.down)[k], Current)
      /\ Texts(Current.down) = Texts(Tail(Current.down)) \cup m.text
  BY <1>1, <1>2, HeadFacts
<1>4. /\ v \in UpstreamType /\ v.heard = Current.heard /\ v.settled = Current.settled
      /\ v.eos = Current.eos /\ v.state = Current.state /\ v.down = Tail(Current.down)
  BY <1>1, <1>3 DEF UpstreamType
<1>5. /\ out' = (IF m.kind = "final" THEN Append(out, [text |-> m.text, end |-> m.end]) ELSE out)
      /\ up' = [up EXCEPT ![Len(up)] = u]
      /\ reader' = (IF m.kind = "final" THEN reader ELSE IF reader = "flush" THEN "dial" ELSE "recv")
  <2>1. Down = Current.down /\ Reading = Len(up)
    BY DEF Down, Current, Reading
  <2>2. [up EXCEPT ![Reading].down = Tail(@)] = [up EXCEPT ![Len(up)] = v]
    BY DEF Current, Reading
  <2>3. CASE m.kind = "final"
    BY <2>1, <2>2, <2>3 DEF FlushReads
  <2>4. CASE m.kind # "final"
    <3>1. [up EXCEPT ![Len(up)] = v][Len(up)] = v
      BY <1>1
    <3>2. up' = [[up EXCEPT ![Len(up)] = v] EXCEPT ![Len(up)] = Shut(v)]
      BY <2>1, <2>2, <2>4, <3>1 DEF FlushReads
    <3> HIDE DEF v
    <3>3. up' = [up EXCEPT ![Len(up)] = Shut(v)]
      BY <3>2
    <3> QED
      BY <2>1, <2>4, <3>3 DEF FlushReads
  <2> QED
    BY <2>3, <2>4
<1> HIDE DEF m, v
<1>6. UNCHANGED <<adapter, sent, pending, dropped, offset, finished, feeder, patient>>
      /\ UNCHANGED <<adapter, feedVars, ws, rotating, finished, offset>>
  BY DEF FlushReads, feedVars
<1>7. m.end = NoTime /\ m.end \in Int /\ m.kind \in {"final", "turn_end", "error"}
  BY <1>1, <1>3, MessageFacts DEF MessageTimely
<1>8. /\ WordsGrow /\ out' \in Seq(FinalType)
      /\ m.kind = "final" => Settled' = Settled \cup m.text
  <2>1. Timely(m.text, m.end)
    BY <1>7 DEF Timely
  <2> QED
    BY <1>1, <1>3, <1>5, <1>7, <2>1, WordsMove
<1>9. /\ u \in UpstreamType /\ u.heard = Current.heard /\ u.settled = Current.settled
      /\ \A k \in 1 .. Len(u.down) : Known(u.down[k], Current)
      /\ (m.kind = "final" \/ v.state # "open") => u = v
      /\ (m.kind # "final" /\ v.state = "open") => u.state = "shut"
  <2>1. CASE m.kind = "final" \/ v.state # "open"
    <3>1. u = v
      BY <1>4, <2>1, ShutFacts
    <3> QED
      BY <1>3, <1>4, <2>1, <3>1
  <2>2. CASE m.kind # "final" /\ v.state = "open"
    <3>1. /\ u \in UpstreamType /\ u.heard = v.heard /\ u.settled = v.settled
          /\ u.state = "shut" /\ Len(u.down) = 0
      BY <1>4, <2>2, ShutFacts
    <3> HIDE DEF u
    <3> QED
      BY <1>4, <2>2, <3>1
  <2> QED
    BY <2>1, <2>2
<1> HIDE DEF u
<1>10. CurrentBecomes(u) /\ RestStays
  <2>1. CurrentBecomes(u)
    BY <1>1, <1>5, <1>9, CurrentFacts DEF CurrentBecomes
  <2>2. RestStays
    BY <1>6 DEF RestStays
  <2> QED
    BY <2>1, <2>2
<1>11. /\ OrderInv' /\ LossInv' /\ OldTails' /\ SettledInv' /\ TimesInv'
       /\ up' \in Seq(UpstreamType) /\ Len(up') = Len(up) /\ Current' = u
  BY <1>1, <1>8, <1>10, CurrentStep
<1>12. Types' /\ Shape'
  <2>1. patient' \in BOOLEAN
    BY <1>6 DEF RotatingInv, Types, ControlTypes
  <2> QED
    BY <1>1, <1>5, <1>6, <1>8, <1>11, <2>1, FlushTypes
<1>13. GeminiTail'
  <2> SUFFICES ASSUME ~finished PROVE GeminiTail'
    BY <1>6 DEF GeminiTail
  <2>1. /\ reader = "flush" /\ Current.state # "shut"
        /\ Current.state = "open" =>
             (Current.eos /\ Fresh(Current)) \/ (~Current.eos /\ Answered(Current))
    BY <1>1 DEF RotatingInv, TailInv, GeminiTail
  <2>2. CASE Current.state # "open"
    <3>1. u.state \in {"ok", "lost"} /\ reader' \in {"flush", "dial"}
      BY <1>1, <1>4, <1>5, <1>9, <2>1, <2>2 DEF UpstreamType
    <3> QED
      BY <1>11, <3>1 DEF GeminiTail
  <2>3. CASE Current.state = "open"
    <3>1. ~Current.eos /\ Answered(Current)
      BY <1>2, <2>1, <2>3 DEF Fresh
    <3>2. /\ \A a \in 1 .. Len(Current.heard) : Current.heard[a] \in Settled \cup Texts(Current.down)
          /\ \A i \in 1 .. Len(Current.down) : Current.down[i].kind = "final" <=> i < Len(Current.down)
          /\ Current.down[Len(Current.down)].text = {}
      BY <3>1 DEF Answered
    <3>3. 1 \in 1 .. Len(Current.down) /\ (m.kind = "final" <=> 1 < Len(Current.down))
      BY <1>2, <1>3, <3>2
    <3>4. CASE m.kind = "final"
      <4>1. u = v /\ reader' = "flush"
        BY <1>5, <1>9, <2>1, <3>4
      <4>2. \A a \in 1 .. Len(v.heard) : v.heard[a] \in Settled' \cup Texts(v.down)
        BY <1>3, <1>4, <1>8, <3>2, <3>4
      <4>3. Len(v.down) = Len(Current.down) - 1 /\ Len(v.down) > 0
            /\ \A i \in 1 .. Len(v.down) : v.down[i] = Current.down[i + 1]
        BY <1>3, <1>4, <3>3, <3>4
      <4>4. v.down[Len(v.down)].text = {}
        BY <1>3, <3>2, <4>3
      <4>5. ASSUME NEW i \in 1 .. Len(v.down)
            PROVE  v.down[i].kind = "final" <=> i < Len(v.down)
        <5>1. i + 1 \in 1 .. Len(Current.down)
          BY <1>3, <4>3
        <5> QED
          BY <1>3, <3>2, <4>3, <5>1
      <4>6. Answered(Current)'
        <5>1. Current' = v
          BY <1>11, <4>1
        <5>2. \A a \in 1 .. Len(Current'.heard) : Current'.heard[a] \in (Settled \cup Texts(Current.down))'
          <6>1. \A d : Texts(d)' = Texts(d)
            BY DEF Texts
          <6> QED
            BY <4>2, <5>1, <6>1
        <5> QED
          BY <4>3, <4>4, <4>5, <5>1, <5>2 DEF Answered
      <4>7. Current'.state = "open" /\ ~Current'.eos
        BY <1>4, <1>11, <2>3, <3>1, <4>1
      <4> QED
        BY <4>1, <4>6, <4>7 DEF GeminiTail
    <3>5. CASE m.kind # "final"
      <4>1. Len(Tail(Current.down)) = 0 /\ m.text = {}
        <5>1. Len(Current.down) = 1
          <6>1. Len(Current.down) \in Nat
            BY <1>3
          <6>2. ~(1 < Len(Current.down))
            BY <3>3, <3>5
          <6>3. \A n \in Nat : n > 0 /\ ~(1 < n) => n = 1
            OBVIOUS
          <6> QED
            BY <1>2, <6>1, <6>2, <6>3
        <5> QED
          BY <1>3, <3>2, <5>1
      <4>2. Texts(Current.down) = {}
        BY <1>3, <4>1 DEF Texts
      <4>3. SaidAll(Current)'
        BY <1>8, <1>9, <1>11, <3>2, <4>2 DEF SaidAll, WordsGrow
      <4>4. reader' = "dial"
        BY <1>5, <2>1, <3>5
      <4> QED
        BY <4>3, <4>4 DEF GeminiTail
    <3> QED
      BY <3>4, <3>5
  <2> QED
    BY <2>2, <2>3
<1>14. GoogleTail'
  BY <1>1, <1>6 DEF GoogleTail, Google, Gemini
<1> QED
  BY <1>11, <1>12, <1>13, <1>14 DEF RotatingInv, TailInv

(* One message is read.                                                    *)
LEMMA ReadFacts ==
  ASSUME RotatingInv, Len(up) > 0, Current.down # <<>>,
         NEW v, v = [Current EXCEPT !.down = Tail(Current.down)]
  PROVE  /\ Len(Current.down) > 0
         /\ v \in UpstreamType /\ v.heard = Current.heard /\ v.settled = Current.settled
         /\ v.eos = Current.eos /\ v.state = Current.state /\ v.down = Tail(Current.down)
         /\ [up EXCEPT ![Reading].down = Tail(@)] = [up EXCEPT ![Len(up)] = v]
         /\ \A k \in 1 .. Len(v.down) : Known(v.down[k], Current)
<1>1. Current.down \in Seq(Message) /\ Current \in UpstreamType
  BY CurrentFacts
<1>2. Len(Current.down) > 0
  BY <1>1
<1>3. /\ Tail(Current.down) \in Seq(Message)
      /\ \A k \in 1 .. Len(Tail(Current.down)) : Known(Tail(Current.down)[k], Current)
  BY <1>2, HeadFacts
<1>4. /\ v \in UpstreamType /\ v.heard = Current.heard /\ v.settled = Current.settled
      /\ v.eos = Current.eos /\ v.state = Current.state /\ v.down = Tail(Current.down)
  BY <1>1, <1>3 DEF UpstreamType
<1>5. [up EXCEPT ![Reading].down = Tail(@)] = [up EXCEPT ![Len(up)] = v]
  BY DEF Current, Reading
<1> QED
  BY <1>2, <1>3, <1>4, <1>5

LEMMA ReceiveStep == RotatingInv /\ Receive => RotatingInv'
<1> SUFFICES ASSUME RotatingInv, Receive PROVE RotatingInv'
  OBVIOUS
<1>1. Gemini /\ reader = "recv" /\ Len(up) > 0 /\ Current.down # <<>>
  BY CurrentFacts DEF Receive, RotatingInv, Shape, Down, Current, Reading
<1> DEFINE m == Head(Current.down)
           v == [Current EXCEPT !.down = Tail(Current.down)]
<1>2. /\ Len(Current.down) > 0
      /\ v \in UpstreamType /\ v.heard = Current.heard /\ v.settled = Current.settled
      /\ v.eos = Current.eos /\ v.state = Current.state /\ v.down = Tail(Current.down)
      /\ [up EXCEPT ![Reading].down = Tail(@)] = [up EXCEPT ![Len(up)] = v]
      /\ \A k \in 1 .. Len(v.down) : Known(v.down[k], Current)
  BY <1>1, ReadFacts
<1>3. m \in Message /\ MessageTimely(m)
  BY <1>1, <1>2, HeadFacts
<1>4. /\ out' = (IF m.kind = "final" THEN Append(out, [text |-> m.text, end |-> m.end]) ELSE out)
      /\ reader' = (CASE m.kind = "turn_end" /\ finished -> "returned"
                      [] m.kind = "error" -> "raised" [] OTHER -> "recv")
      /\ feeder' = (IF m.kind = "error" THEN Cancelled ELSE feeder)
      /\ up' = [up EXCEPT ![Len(up)] = v]
  BY <1>2 DEF Receive, Down, Current, Reading
<1> HIDE DEF m, v
<1>5. UNCHANGED <<adapter, sent, pending, dropped, ws, rotating, finished, held, offset, patient>>
  BY DEF Receive
<1>6. /\ reader' \in {"recv", "returned", "raised"} /\ (reader' = "returned" => finished)
      /\ (reader' = "raised" => feeder' \in {"done", "dead"})
      /\ feeder' \in {feeder, "dead"}
      /\ (feeder = "done" => feeder' = "done") /\ (feeder' = "feeding" => feeder = "feeding")
  <2>1. CASE m.kind = "error"
    BY <1>4, <2>1 DEF Cancelled
  <2>2. CASE m.kind # "error"
    BY <1>4, <2>2
  <2> QED
    BY <2>1, <2>2
<1>7. m.end = NoTime /\ m.end \in Int
  BY <1>1, <1>3, MessageFacts DEF MessageTimely
<1>8. WordsGrow /\ out' \in Seq(FinalType)
  <2>1. Timely(m.text, m.end)
    BY <1>7 DEF Timely
  <2> QED
    BY <1>1, <1>3, <1>4, <1>7, <2>1, WordsMove
<1>9. CurrentBecomes(v) /\ RestStays
  <2>1. CurrentBecomes(v)
    BY <1>1, <1>2, <1>4, CurrentFacts DEF CurrentBecomes
  <2>2. RestStays
    BY <1>5, <1>6 DEF RestStays
  <2> QED
    BY <2>1, <2>2
<1>10. /\ OrderInv' /\ LossInv' /\ OldTails' /\ SettledInv' /\ TimesInv'
       /\ up' \in Seq(UpstreamType) /\ Len(up') = Len(up) /\ Current' = v
  BY <1>1, <1>8, <1>9, CurrentStep
<1>11. Types'
  BY <1>5, <1>6, <1>8, <1>10
     DEF RotatingInv, Types, DataTypes, ControlTypes, Gemini, Readers, Feeders
<1>12. Shape'
  BY <1>1, <1>5, <1>6, <1>10 DEF RotatingInv, Shape, Gemini, Google
<1>13. GeminiTail'
  <2> SUFFICES ASSUME ~finished PROVE GeminiTail'
    BY <1>5 DEF GeminiTail
  <2>1. Current.state \notin {"shut", "open"}
    BY <1>1, <1>2 DEF RotatingInv, TailInv, GeminiTail, Fresh
  <2> QED
    BY <1>2, <1>6, <1>10, <2>1 DEF GeminiTail
<1>14. GoogleTail'
  BY <1>1, <1>5 DEF GoogleTail, Google, Gemini
<1> QED
  BY <1>10, <1>11, <1>12, <1>13, <1>14 DEF RotatingInv, TailInv

LEMMA RespondStep == RotatingInv /\ Respond => RotatingInv'
<1> SUFFICES ASSUME RotatingInv, Respond PROVE RotatingInv'
  OBVIOUS
<1>1. Google /\ reader = "recv" /\ Len(up) > 0 /\ Current.down # <<>>
  BY CurrentFacts DEF Respond, RotatingInv, Shape, Down, Current, Reading
<1> DEFINE m == Head(Current.down)
           v == [Current EXCEPT !.down = Tail(Current.down)]
<1>2. /\ Len(Current.down) > 0
      /\ v \in UpstreamType /\ v.heard = Current.heard /\ v.settled = Current.settled
      /\ v.eos = Current.eos /\ v.state = Current.state /\ v.down = Tail(Current.down)
      /\ [up EXCEPT ![Reading].down = Tail(@)] = [up EXCEPT ![Len(up)] = v]
      /\ \A k \in 1 .. Len(v.down) : Known(v.down[k], Current)
  BY <1>1, ReadFacts
<1>3. m \in Message /\ MessageTimely(m)
      /\ Texts(Current.down) = Texts(Tail(Current.down)) \cup m.text
  BY <1>1, <1>2, HeadFacts
<1>4. /\ out' = (IF m.kind = "final" THEN Append(out, [text |-> m.text, end |-> offset + m.end])
                 ELSE out)
      /\ reader' = (IF m.kind = "error" THEN "raised" ELSE reader)
      /\ feeder' = (IF m.kind = "error" THEN Cancelled ELSE feeder)
      /\ up' = [up EXCEPT ![Len(up)] = v]
  BY <1>2 DEF Respond, Down, Current, Reading
<1> HIDE DEF m, v
<1>5. UNCHANGED <<adapter, sent, pending, dropped, ws, rotating, finished, held, offset, patient>>
  BY DEF Respond
<1>6. /\ reader' \in {"recv", "raised"}
      /\ (reader' = "raised" => feeder' \in {"done", "dead"})
      /\ feeder' \in {feeder, "dead"}
      /\ (feeder = "done" => feeder' = "done") /\ (feeder' = "feeding" => feeder = "feeding")
  <2>1. CASE m.kind = "error"
    BY <1>4, <2>1 DEF Cancelled
  <2>2. CASE m.kind # "error"
    BY <1>1, <1>4, <2>2
  <2> QED
    BY <2>1, <2>2
<1>7. WordsGrow /\ out' \in Seq(FinalType) /\ (m.kind = "final" => Settled' = Settled \cup m.text)
  <2>1. offset \in Nat /\ m.end \in Int
    BY <1>3, MessageFacts DEF RotatingInv, Types, DataTypes
  <2>2. m.kind = "final" => Timely(m.text, offset + m.end)
    BY <1>1, <1>3 DEF MessageTimely, Timely
  <2>3. offset + m.end \in Int
    BY <2>1
  <2> QED
    BY <1>1, <1>3, <1>4, <2>2, <2>3, WordsMove
<1>8. CurrentBecomes(v) /\ RestStays
  <2>1. CurrentBecomes(v)
    BY <1>1, <1>2, <1>4, CurrentFacts DEF CurrentBecomes
  <2>2. RestStays
    BY <1>5, <1>6 DEF RestStays
  <2> QED
    BY <2>1, <2>2
<1>9. /\ OrderInv' /\ LossInv' /\ OldTails' /\ SettledInv' /\ TimesInv'
      /\ up' \in Seq(UpstreamType) /\ Len(up') = Len(up) /\ Current' = v
  BY <1>1, <1>7, <1>8, CurrentStep
<1>10. Types'
  BY <1>5, <1>6, <1>7, <1>9
     DEF RotatingInv, Types, DataTypes, ControlTypes, Gemini, Readers, Feeders
<1>11. Shape'
  BY <1>1, <1>5, <1>6, <1>9 DEF RotatingInv, Shape, Gemini, Google
<1>12. GeminiTail'
  BY <1>1, <1>5 DEF GeminiTail, Google, Gemini
<1>13. GoogleTail'
  <2>1. /\ Current.state # "ok"
        /\ Current.state \in {"open", "shut"} =>
             \A a \in 1 .. Current.settled : Current.heard[a] \in Settled \cup Texts(Current.down)
        /\ Current.state = "shut" => Current.settled = Len(Current.heard)
        /\ (~finished /\ (Current.eos \/ Current.state = "shut")) => Len(up) <= Rotations
    BY <1>1 DEF RotatingInv, TailInv, GoogleTail
  <2>2. Settled \cup Texts(Current.down) \subseteq Settled' \cup Texts(Tail(Current.down))
    BY <1>3, <1>7 DEF MessageTimely, WordsGrow
  <2>3. \A d : Texts(d)' = Texts(d)
    BY DEF Texts
  <2>4. Current'.state \in {"open", "shut"} =>
          \A a \in 1 .. Current'.settled : Current'.heard[a] \in (Settled \cup Texts(Current.down))'
    BY <1>2, <1>9, <2>1, <2>2, <2>3
  <2> QED
    BY <1>2, <1>5, <1>9, <2>1, <2>4 DEF GoogleTail
<1> QED
  BY <1>9, <1>10, <1>11, <1>12, <1>13 DEF RotatingInv, TailInv

(* finish() closes the socket it told; the stream is over for everyone.    *)
LEMMA GraceEndsStep == RotatingInv /\ GraceEnds => RotatingInv'
<1> SUFFICES ASSUME RotatingInv, GraceEnds PROVE RotatingInv'
  OBVIOUS
<1>1. /\ feeder = "grace" /\ feeder' = "done" /\ finished = TRUE /\ Gemini
      /\ held \in 1 .. Len(up) /\ up' = [up EXCEPT ![held] = Shut(up[held])]
      /\ up \in Seq(UpstreamType)
      /\ UNCHANGED <<adapter, sent, pending, dropped, ws, rotating, reader, finished, held, offset, out>>
  BY DEF GraceEnds, RotatingInv, Shape, Types, DataTypes, ControlTypes
<1> DEFINE u == Shut(up[held])
<1>2. up[held] \in UpstreamType
  BY <1>1
<1>3. /\ u \in UpstreamType /\ u.heard = up[held].heard /\ u.settled = up[held].settled
      /\ \A k \in 1 .. Len(u.down) : Known(u.down[k], up[held])
  BY <1>2, ShutFacts, ShutKnows
<1>4. up' = [up EXCEPT ![held] = u]
  BY <1>1
<1> HIDE DEF u
<1>5. /\ up' \in Seq(UpstreamType) /\ Len(up') = Len(up) /\ Len(up) \in Nat /\ up'[held] = u
      /\ \A i \in 1 .. Len(up) : i # held => up'[i] = up[i]
  BY <1>1, <1>3, <1>4, OneChanged
<1>6. \A i \in 1 .. Len(up) : /\ up'[i].heard = up[i].heard /\ up'[i].settled = up[i].settled
                              /\ \A k \in 1 .. Len(up'[i].down) : Known(up'[i].down[k], up[i])
  <2> SUFFICES ASSUME NEW i \in 1 .. Len(up)
               PROVE  /\ up'[i].heard = up[i].heard /\ up'[i].settled = up[i].settled
                      /\ \A k \in 1 .. Len(up'[i].down) : Known(up'[i].down[k], up[i])
    OBVIOUS
  <2>1. CASE i = held
    BY <1>3, <1>5, <2>1
  <2>2. CASE i # held
    <3>1. up'[i] = up[i]
      BY <1>5, <2>2
    <3> QED
      BY <3>1 DEF Known
  <2> QED
    BY <2>1, <2>2
<1>7. Len(up) \in 1 .. Len(up)
  BY <1>1, <1>5
<1>8. OrderInv' /\ LossInv'
  BY <1>1, <1>5, <1>6, QuietOrder DEF RotatingInv
<1>9. OutTimes'
  BY <1>1, OutTimesStay DEF RotatingInv, TimesInv
<1>10. TimesInv'
  <2>1. Current'.heard = Current.heard
    BY <1>5, <1>6, <1>7 DEF Current
  <2>2. \A k \in 1 .. Len(Current'.down) :
          \/ MessageTimely(Current'.down[k])
          \/ \E l \in 1 .. Len(Current.down) : Current'.down[k] = Current.down[l]
    BY <1>5, <1>6, <1>7 DEF Current, Known
  <2> QED
    BY <1>1, <1>5, <1>9, <2>1, <2>2, TimesStay DEF RotatingInv
<1>11. SettledInv'
  BY <1>5, <1>6, <1>7 DEF RotatingInv, TailInv, SettledInv, Current
<1>12. GeminiTail' /\ OldTails' /\ GoogleTail'
  BY <1>1 DEF GeminiTail, OldTails, GoogleTail, Gemini, Google
<1>13. Types'
  <2>1. patient' \in BOOLEAN
    BY DEF GraceEnds, RotatingInv, Types, ControlTypes
  <2> QED
    BY <1>1, <1>5, <2>1 DEF RotatingInv, Types, DataTypes, ControlTypes, Gemini, Feeders
<1>14. Shape'
  BY <1>1, <1>5 DEF RotatingInv, Shape, Gemini, Google
<1> QED
  BY <1>8, <1>10, <1>11, <1>12, <1>13, <1>14 DEF RotatingInv, TailInv

(* What only fails.                                                        *)
LEMMA SendFailsStep == RotatingInv /\ SendFails => RotatingInv'
<1> SUFFICES ASSUME RotatingInv, SendFails PROVE RotatingInv'
  OBVIOUS
<1>1. Types' /\ Shape'
  BY DEF SendFails, upVars, RotatingInv, Types, DataTypes, ControlTypes, Shape, Gemini, Google,
     Readers, Feeders
<1> QED
  BY <1>1, ControlStep DEF SendFails, upVars, Feeding

LEMMA DialFailsStep == RotatingInv /\ DialFails => RotatingInv'
<1> SUFFICES ASSUME RotatingInv, DialFails PROVE RotatingInv'
  OBVIOUS
<1>1. feeder' \in {feeder, "dead"} /\ feeder' \in {"done", "dead"}
      /\ (feeder = "done" => feeder' = "done")
  BY DEF DialFails, Cancelled
<1>2. Types' /\ Shape'
  <2>1. Types'
    <3>1. Len(up) \in Nat
      BY DEF RotatingInv, Types, DataTypes
    <3>2. DataTypes'
      BY <3>1 DEF DialFails, RotatingInv, Types, DataTypes, Gemini
    <3>3. ControlTypes'
      BY <1>1 DEF DialFails, RotatingInv, Types, ControlTypes, Readers, Feeders
    <3> QED
      BY <3>2, <3>3 DEF Types
  <2>2. Shape'
    BY <1>1 DEF DialFails, RotatingInv, Shape, Gemini, Google
  <2> QED
    BY <2>1, <2>2
<1> QED
  BY <1>1, <1>2, ControlStep DEF DialFails

LEMMA ConnectFailsStep == RotatingInv /\ ConnectFails => RotatingInv'
<1> SUFFICES ASSUME RotatingInv, ConnectFails PROVE RotatingInv'
  OBVIOUS
<1>1. Types' /\ Shape'
  BY DEF ConnectFails, upVars, RotatingInv, Types, DataTypes, ControlTypes, Shape, Gemini, Google,
     Readers, Feeders
<1> QED
  BY <1>1, ControlStep DEF ConnectFails, upVars, RotatingInv, Shape

-----------------------------------------------------------------------------
(* The audio: an upstream, the current one or a new one, hears more.       *)

(* A chunk that comes after all that was heard.                            *)
Later(x) == x \in Nat /\ (x > sent \/ \E k \in 1 .. Len(pending) : x = pending[k] /\ x # END)

(* The newest upstream has heard before, and hears more after it.          *)
HearsAfter(before, more) ==
  /\ up' \in Seq(UpstreamType) /\ Len(up') > 0
  /\ \/ Len(up') = Len(up) /\ before = Current.heard
     \/ Len(up') = Len(up) + 1 /\ before = <<>>
  /\ up'[Len(up')].heard = before \o more
  /\ \A i \in 1 .. Len(up') - 1 : up'[i].heard = up[i].heard
MoreAudio(more) ==
  /\ more \in Seq(Nat) /\ sent' \in Nat /\ sent <= sent'
  /\ \A l \in 1 .. Len(more) : more[l] \in 1 .. sent' /\ Later(more[l])
  /\ \A k, l \in 1 .. Len(more) : k < l => more[k] < more[l]
  /\ \A k \in 1 .. Len(pending') :
       pending'[k] = END \/ (Later(pending'[k]) /\ \A l \in 1 .. Len(more) : more[l] < pending'[k])

(* Of what the upstreams have heard, this was known before.                *)
Old(i, a, before) ==
  /\ i \in 1 .. Len(up) /\ a \in 1 .. Len(up[i].heard)
  /\ up'[i].heard[a] = up[i].heard[a]
  /\ i = Len(up') => a <= Len(before)

LEMMA HeardKept ==
  ASSUME RotatingInv, NEW before, NEW more, HearsAfter(before, more), more \in Seq(Nat)
  PROVE  /\ before \in Seq(Nat) /\ Len(before) \in Nat /\ Len(more) \in Nat /\ Len(up') \in Nat
         /\ Len(up) \in Nat /\ Len(up') >= Len(up)
         /\ \A l \in 1 .. Len(more) : /\ Len(before) + l \in 1 .. Len(up'[Len(up')].heard)
                                      /\ up'[Len(up')].heard[Len(before) + l] = more[l]
         /\ \A i \in 1 .. Len(up) : \A a \in 1 .. Len(up[i].heard) :
              a \in 1 .. Len(up'[i].heard) /\ up'[i].heard[a] = up[i].heard[a]
         /\ \A i \in 1 .. Len(up') : \A a \in 1 .. Len(up'[i].heard) :
              \/ Old(i, a, before)
              \/ i = Len(up') /\ \E l \in 1 .. Len(more) :
                                   a = Len(before) + l /\ up'[i].heard[a] = more[l]
<1> DEFINE s == before \o more
<1>1. up \in Seq(UpstreamType) /\ Len(up) \in Nat /\ up' \in Seq(UpstreamType) /\ Len(up') \in Nat
  BY DEF RotatingInv, Types, DataTypes, HearsAfter
<1>2. before \in Seq(Nat) /\ Len(before) \in Nat
  <2>1. CASE before = <<>>
    BY <2>1
  <2>2. CASE Len(up') = Len(up) /\ before = Current.heard
    <3>1. Len(up) > 0
      BY <2>2 DEF HearsAfter
    <3> QED
      BY <2>2, <3>1, CurrentFacts
  <2> QED
    BY <2>1, <2>2 DEF HearsAfter
<1>3. /\ Len(s) = Len(before) + Len(more) /\ Len(more) \in Nat
      /\ \A i \in 1 .. Len(before) : s[i] = before[i]
      /\ \A i \in 1 .. Len(more) : s[Len(before) + i] = more[i]
  BY <1>2, Joined
<1>4. up'[Len(up')].heard = s
  BY DEF HearsAfter
<1> HIDE DEF s
<1>5. \/ Len(up') = Len(up) /\ before = up[Len(up)].heard
      \/ Len(up') = Len(up) + 1 /\ Len(before) = 0
  BY DEF HearsAfter, Current
<1>6. \A i \in 1 .. Len(up') - 1 : up'[i].heard = up[i].heard
  BY DEF HearsAfter
<1>7. ASSUME NEW i \in 1 .. Len(up), NEW a \in 1 .. Len(up[i].heard)
      PROVE  a \in 1 .. Len(up'[i].heard) /\ up'[i].heard[a] = up[i].heard[a]
  <2>1. CASE i \in 1 .. Len(up') - 1
    BY <1>6, <2>1
  <2>2. CASE i = Len(up') /\ before = up[i].heard
    BY <1>2, <1>3, <1>4, <2>2
  <2>3. i \in 1 .. Len(up') - 1 \/ (i = Len(up') /\ before = up[i].heard)
    BY <1>1, <1>5
  <2> QED
    BY <2>1, <2>2, <2>3
<1>8. ASSUME NEW l \in 1 .. Len(more)
      PROVE  /\ Len(before) + l \in 1 .. Len(up'[Len(up')].heard)
             /\ up'[Len(up')].heard[Len(before) + l] = more[l]
  <2>1. \A m, n \in Nat : \A k \in 1 .. n : m + k \in 1 .. m + n
    OBVIOUS
  <2>2. Len(before) + l \in 1 .. Len(before) + Len(more)
    BY <1>2, <1>3, <2>1
  <2>3. s[Len(before) + l] = more[l]
    BY <1>3
  <2> QED
    BY <1>3, <1>4, <2>2, <2>3
<1>9. ASSUME NEW i \in 1 .. Len(up'), NEW a \in 1 .. Len(up'[i].heard)
      PROVE  \/ Old(i, a, before)
             \/ i = Len(up') /\ \E l \in 1 .. Len(more) :
                                  a = Len(before) + l /\ up'[i].heard[a] = more[l]
  <2>1. CASE i < Len(up')
    <3>1. i \in 1 .. Len(up') - 1 /\ i \in 1 .. Len(up)
      BY <1>1, <1>5, <2>1
    <3> QED
      BY <1>6, <2>1, <3>1, SMTT(30) DEF Old
  <2>2. CASE i = Len(up') /\ a <= Len(before)
    <3>1. a \in 1 .. Len(before)
      BY <1>2, <1>3, <1>4, <2>2
    <3>2. Len(up') = Len(up) /\ before = up[i].heard
      BY <1>1, <1>5, <2>2, <3>1
    <3>3. up'[i].heard[a] = before[a]
      BY <1>3, <1>4, <2>2, <3>1
    <3> QED
      BY <2>2, <3>1, <3>2, <3>3 DEF Old
  <2>3. CASE i = Len(up') /\ a > Len(before)
    <3>1. Len(up'[i].heard) = Len(before) + Len(more)
      BY <1>3, <1>4, <2>3
    <3>2. a - Len(before) \in 1 .. Len(more) /\ a = Len(before) + (a - Len(before))
      BY <1>2, <1>3, <2>3, <3>1
    <3>3. up'[i].heard[a] = more[a - Len(before)]
      BY <1>3, <1>4, <2>3, <3>2
    <3> QED
      BY <2>3, <3>2, <3>3
  <2>4. a \in Int /\ Len(before) \in Int
    BY <1>2
  <2> QED
    BY <1>1, <2>1, <2>2, <2>3, <2>4
<1>10. Len(up') >= Len(up)
  BY <1>1, <1>5
<1>11. \A l \in 1 .. Len(more) : /\ Len(before) + l \in 1 .. Len(up'[Len(up')].heard)
                                  /\ up'[Len(up')].heard[Len(before) + l] = more[l]
  BY <1>8
<1>12. \A i \in 1 .. Len(up) : \A a \in 1 .. Len(up[i].heard) :
         a \in 1 .. Len(up'[i].heard) /\ up'[i].heard[a] = up[i].heard[a]
  BY <1>7
<1>13. \A i \in 1 .. Len(up') : \A a \in 1 .. Len(up'[i].heard) :
         \/ Old(i, a, before)
         \/ i = Len(up') /\ \E l \in 1 .. Len(more) :
                              a = Len(before) + l /\ up'[i].heard[a] = more[l]
  BY <1>9
<1>14. Len(before) \in Nat /\ Len(more) \in Nat
  BY <1>2, <1>3
<1> QED
  BY <1>1, <1>2, <1>10, <1>11, <1>12, <1>13, <1>14

LEMMA HearMore ==
  ASSUME RotatingInv, NEW before, NEW more, HearsAfter(before, more), MoreAudio(more)
  PROVE  /\ HeardBeforePending' /\ HeardOnce'
         /\ \A c : Hearing(c) => Hearing(c)'
         /\ \A l \in 1 .. Len(more) : Hearing(more[l])'
<1>1. /\ before \in Seq(Nat) /\ Len(before) \in Nat /\ Len(more) \in Nat /\ Len(up') \in Nat
      /\ Len(up) \in Nat /\ Len(up') >= Len(up)
      /\ \A l \in 1 .. Len(more) : /\ Len(before) + l \in 1 .. Len(up'[Len(up')].heard)
                                   /\ up'[Len(up')].heard[Len(before) + l] = more[l]
      /\ \A i \in 1 .. Len(up) : \A a \in 1 .. Len(up[i].heard) :
           a \in 1 .. Len(up'[i].heard) /\ up'[i].heard[a] = up[i].heard[a]
      /\ \A i \in 1 .. Len(up') : \A a \in 1 .. Len(up'[i].heard) :
           \/ Old(i, a, before)
           \/ i = Len(up') /\ \E l \in 1 .. Len(more) :
                                a = Len(before) + l /\ up'[i].heard[a] = more[l]
  BY HeardKept DEF MoreAudio
<1>2. /\ sent \in Nat /\ sent' \in Nat /\ sent <= sent'
      /\ \A l \in 1 .. Len(more) : more[l] \in 1 .. sent' /\ Later(more[l])
      /\ \A k, l \in 1 .. Len(more) : k < l => more[k] < more[l]
      /\ \A k \in 1 .. Len(pending') :
           pending'[k] = END \/ (Later(pending'[k]) /\ \A l \in 1 .. Len(more) : more[l] < pending'[k])
  BY RotatingAssumption DEF MoreAudio, RotatingInv, Types, DataTypes
<1>3. ASSUME NEW i \in 1 .. Len(up), NEW a \in 1 .. Len(up[i].heard)
      PROVE  /\ up[i].heard[a] \in 1 .. sent
             /\ \A x : Later(x) => up[i].heard[a] < x
  BY <1>2 DEF RotatingInv, OrderInv, HeardBeforePending, Later
<1>4. HeardBeforePending'
  <2> SUFFICES ASSUME NEW i \in 1 .. Len(up'), NEW a \in 1 .. Len(up'[i].heard)
               PROVE  /\ up'[i].heard[a] \in 1 .. sent'
                      /\ \A k \in 1 .. Len(pending') :
                           pending'[k] = END \/ up'[i].heard[a] < pending'[k]
    BY DEF HeardBeforePending
  <2>1. CASE Old(i, a, before)
    <3>1. i \in 1 .. Len(up) /\ a \in 1 .. Len(up[i].heard) /\ up'[i].heard[a] = up[i].heard[a]
      BY <2>1 DEF Old
    <3>2. up[i].heard[a] \in 1 .. sent /\ \A x : Later(x) => up[i].heard[a] < x
      BY <1>3, <3>1
    <3> QED
      BY <1>2, <3>1, <3>2
  <2>2. CASE \E l \in 1 .. Len(more) : a = Len(before) + l /\ up'[i].heard[a] = more[l]
    BY <1>2, <2>2
  <2> QED
    BY <1>1, <2>1, <2>2
<1>5. HeardOnce'
  <2> SUFFICES ASSUME NEW i \in 1 .. Len(up'), NEW j \in 1 .. Len(up'),
                      NEW a \in 1 .. Len(up'[i].heard), NEW b \in 1 .. Len(up'[j].heard),
                      i < j \/ (i = j /\ a < b)
               PROVE  up'[i].heard[a] < up'[j].heard[b]
    BY DEF HeardOnce
  <2>1. CASE Old(i, a, before) /\ Old(j, b, before)
    BY <2>1 DEF Old, RotatingInv, OrderInv, HeardOnce
  <2>2. CASE Old(i, a, before) /\ \E l \in 1 .. Len(more) : up'[j].heard[b] = more[l]
    <3>1. i \in 1 .. Len(up) /\ a \in 1 .. Len(up[i].heard) /\ up'[i].heard[a] = up[i].heard[a]
      BY <2>2 DEF Old
    <3> QED
      BY <1>2, <1>3, <2>2, <3>1
  <2>3. CASE /\ i = Len(up') /\ \E l \in 1 .. Len(more) : a = Len(before) + l
             /\ Old(j, b, before)
    <3>1. i = j /\ a < b
      BY <1>1, <2>3
    <3>2. b <= Len(before) /\ b \in Nat
      BY <2>3, <3>1 DEF Old
    <3>3. PICK l \in 1 .. Len(more) : a = Len(before) + l
      BY <2>3
    <3>4. Len(before) \in Nat
      BY <1>1
    <3>5. Len(before) < a
      BY <3>3, <3>4
    <3> QED
      BY <3>1, <3>2, <3>4, <3>5
  <2>4. CASE /\ i = Len(up') /\ j = Len(up')
             /\ \E l \in 1 .. Len(more) : a = Len(before) + l /\ up'[i].heard[a] = more[l]
             /\ \E l \in 1 .. Len(more) : b = Len(before) + l /\ up'[j].heard[b] = more[l]
    <3>1. PICK k \in 1 .. Len(more) : a = Len(before) + k /\ up'[i].heard[a] = more[k]
      BY <2>4
    <3>2. PICK l \in 1 .. Len(more) : b = Len(before) + l /\ up'[j].heard[b] = more[l]
      BY <2>4
    <3>3. k < l
      BY <1>1, <2>4, <3>1, <3>2, SMTT(30)
    <3> QED
      BY <1>2, <3>1, <3>2, <3>3
  <2>5. /\ Old(i, a, before) \/ (i = Len(up') /\ \E l \in 1 .. Len(more) :
                                a = Len(before) + l /\ up'[i].heard[a] = more[l])
        /\ Old(j, b, before) \/ (j = Len(up') /\ \E l \in 1 .. Len(more) :
                                b = Len(before) + l /\ up'[j].heard[b] = more[l])
    BY <1>1, Zenon
  <2> QED
    BY <2>1, <2>2, <2>3, <2>4, <2>5, Zenon
<1>6. ASSUME NEW c, Hearing(c) PROVE Hearing(c)'
  <2>1. PICK i \in 1 .. Len(up) : \E a \in 1 .. Len(up[i].heard) : up[i].heard[a] = c
    BY <1>6 DEF Hearing
  <2>2. PICK a \in 1 .. Len(up[i].heard) : up[i].heard[a] = c
    BY <2>1
  <2>3. i \in 1 .. Len(up') /\ a \in 1 .. Len(up'[i].heard) /\ up'[i].heard[a] = c
    BY <1>1, <2>2, SMTT(30)
  <2> QED
    BY <2>3 DEF Hearing
<1>7. ASSUME NEW l \in 1 .. Len(more) PROVE Hearing(more[l])'
  <2>1. Len(up') \in 1 .. Len(up')
    BY <1>1 DEF HearsAfter
  <2>2. /\ Len(before) + l \in 1 .. Len(up'[Len(up')].heard)
        /\ up'[Len(up')].heard[Len(before) + l] = more[l]
    BY <1>1
  <2> QED
    BY <2>1, <2>2 DEF Hearing
<1> QED
  BY <1>4, <1>5, <1>6, <1>7

(* The buffer keeps the newest chunks that fit.                            *)
LEMMA BufferFacts ==
  ASSUME pending \in Seq(Nat), sent \in Nat, Len(pending) <= Cap, Buffer(sent + 1)
  PROVE  \E over \in 0 .. Len(pending) :
           /\ pending' \in Seq(Nat) /\ Len(pending') = Len(pending) + 1 - over
           /\ Len(pending') <= Cap /\ pending'[Len(pending')] = sent + 1
           /\ \A k \in 1 .. Len(pending') - 1 :
                k + over \in 1 .. Len(pending) /\ pending'[k] = pending[k + over]
           /\ dropped' = dropped \cup {pending[i] : i \in 1 .. over}
<1> DEFINE all == Append(pending, sent + 1)
           over == IF Len(all) > Cap THEN Len(all) - Cap ELSE 0
<1>1. /\ all \in Seq(Nat) /\ Len(all) = Len(pending) + 1 /\ Len(pending) \in Nat
      /\ \A i \in 1 .. Len(pending) : all[i] = pending[i]
      /\ all[Len(pending) + 1] = sent + 1
  <2>1. sent + 1 \in Nat
    OBVIOUS
  <2> QED
    BY <2>1, AfterAppend
<1>2. pending' = SubSeq(all, over + 1, Len(all))
      /\ dropped' = dropped \cup {all[i] : i \in 1 .. over}
  BY DEF Buffer
<1> HIDE DEF all
<1>3. over \in 0 .. Len(pending) /\ Len(pending) + 1 - over <= Cap
  BY <1>1, RotatingAssumption
<1> HIDE DEF over
<1>4. over \in Nat /\ over + 1 \in 1 .. Len(all) /\ Len(all) \in Nat
  BY <1>1, <1>3
<1>5. pending' \in Seq(Nat) /\ Len(pending') = Len(all) - over
      /\ \A k \in 1 .. Len(all) - over : pending'[k] = all[k + over]
  <2>1. \A i \in over + 1 .. Len(all) : all[i] \in Nat
    BY <1>1, <1>4
  <2>2. /\ Len(SubSeq(all, over + 1, Len(all))) = Len(all) - over
        /\ SubSeq(all, over + 1, Len(all)) \in Seq(Nat)
    BY <1>1, <1>4, <2>1
  <2>3. \A k \in 1 .. Len(all) - over : SubSeq(all, over + 1, Len(all))[k] = all[over + 1 + k - 1]
    BY <1>1, <1>4, <2>2
  <2>4. \A k \in 1 .. Len(all) - over : over + 1 + k - 1 = k + over
    BY <1>4
  <2> QED
    BY <1>2, <2>2, <2>3, <2>4
<1>6. pending'[Len(pending')] = sent + 1
  <2>1. Len(pending') \in 1 .. Len(all) - over /\ Len(pending') + over = Len(pending) + 1
    BY <1>1, <1>3, <1>5
  <2> QED
    BY <1>1, <1>5, <2>1
<1>7. ASSUME NEW k \in 1 .. Len(pending') - 1
      PROVE  k + over \in 1 .. Len(pending) /\ pending'[k] = pending[k + over]
  <2>1. k \in 1 .. Len(all) - over /\ k + over \in 1 .. Len(pending)
    BY <1>1, <1>3, <1>5, SMTT(30)
  <2> QED
    BY <1>1, <1>5, <2>1
<1>8. dropped' = dropped \cup {pending[i] : i \in 1 .. over}
  <2>1. \A i \in 1 .. over : all[i] = pending[i]
    BY <1>1, <1>3
  <2> QED
    BY <1>2, <2>1
<1>9. Len(pending') = Len(pending) + 1 - over /\ Len(pending') <= Cap
  BY <1>1, <1>3, <1>5
<1> QED
  <2>1. over \in 0 .. Len(pending)
    BY <1>3
  <2>2. \A k \in 1 .. Len(pending') - 1 :
          k + over \in 1 .. Len(pending) /\ pending'[k] = pending[k + over]
    BY <1>7
  <2>3. pending' \in Seq(Nat)
    BY <1>5
  <2> WITNESS over \in 0 .. Len(pending)
  <2> QED
    BY <2>2, <2>3, <1>6, <1>8, <1>9

(* What waits comes after what was heard.                                  *)
LEMMA PendingIsLater ==
  ASSUME RotatingInv, NEW k \in 1 .. Len(pending)
  PROVE  /\ pending[k] \in Nat /\ pending[k] <= sent /\ sent \in Nat
         /\ pending[k] # END => Later(pending[k]) /\ pending[k] \in 1 .. sent
         /\ pending[k] = END => Google /\ feeder = "done" /\ k = Len(pending)
         /\ \A l \in 1 .. Len(pending) : k < l => pending[k] < pending[l] \/ pending[l] = END
<1>1. pending[k] \in Nat /\ sent \in Nat
  BY RotatingAssumption DEF RotatingInv, Types, DataTypes
<1>2. pending[k] <= sent
  BY DEF RotatingInv, OrderInv, PendingInOrder
<1>3. pending[k] = END => Google /\ feeder = "done" /\ k = Len(pending)
  BY DEF RotatingInv, OrderInv, PendingInOrder
<1>4. \A l \in 1 .. Len(pending) : k < l => pending[k] < pending[l] \/ pending[l] = END
  BY DEF RotatingInv, OrderInv, PendingInOrder
<1>5. pending[k] # END => Later(pending[k]) /\ pending[k] \in 1 .. sent
  BY <1>1, <1>2 DEF Later, END
<1> QED
  BY <1>1, <1>2, <1>3, <1>4, <1>5

LEMMA NothingMore == <<>> \in Seq(Nat) /\ Len(<<>>) = 0 /\ \A s \in Seq(Nat) : s \o <<>> = s
  OBVIOUS

LEMMA JustOne ==
  ASSUME NEW S, NEW e \in S
  PROVE  <<e>> \in Seq(S) /\ Len(<<e>>) = 1 /\ \A k \in 1 .. Len(<<e>>) : k = 1 /\ <<e>>[k] = e
  OBVIOUS

(* What the newest upstream hears when all but the newest are left alone.  *)
NewestHearsMore(u, more) ==
  /\ u \in UpstreamType /\ up' = [up EXCEPT ![Len(up)] = u]
  /\ u.heard = Current.heard \o more

LEMMA NewestHears ==
  ASSUME RotatingInv, Len(up) > 0, NEW u, NEW more, NewestHearsMore(u, more)
  PROVE  /\ HearsAfter(Current.heard, more)
         /\ up' \in Seq(UpstreamType) /\ Len(up') = Len(up) /\ Current' = u
         /\ Len(up) \in Nat /\ \A i \in 1 .. Len(up) - 1 : up'[i] = up[i]
<1>1. /\ up' \in Seq(UpstreamType) /\ Len(up') = Len(up) /\ up'[Len(up)] = u /\ Len(up) \in Nat
      /\ \A i \in 1 .. Len(up) : i # Len(up) => up'[i] = up[i]
  BY CurrentFacts, OneChanged DEF NewestHearsMore
<1>2. \A i \in 1 .. Len(up) - 1 : up'[i] = up[i]
  <2>0. Len(up) \in Nat
    BY <1>1
  <2>1. \A i \in 1 .. Len(up) - 1 : i \in 1 .. Len(up) /\ i # Len(up)
    BY <2>0
  <2> QED
    BY <1>1, <2>1
<1> QED
  BY <1>1, <1>2 DEF HearsAfter, Current, NewestHearsMore

LEMMA NobodyHears ==
  ASSUME RotatingInv, Len(up) > 0, UNCHANGED up
  PROVE  HearsAfter(Current.heard, <<>>)
<1>1. Current.heard \in Seq(Nat) /\ up \in Seq(UpstreamType)
  BY CurrentFacts
<1>2. Current.heard \o <<>> = Current.heard
  BY <1>1, NothingMore
<1> QED
  BY <1>1, <1>2 DEF HearsAfter, Current

(* Nothing happens to the upstreams nor to the words.                      *)
LEMMA QuietTails ==
  ASSUME RotatingInv, UNCHANGED <<adapter, up, reader, out, offset, patient>>, finished => finished'
  PROVE  TailInv' /\ OutTimes' /\ DownTimes'
<1>1. Settled' = Settled
  BY SettledStays
<1>2. SettledInv' /\ OldTails'
  BY <1>1 DEF RotatingInv, TailInv, SettledInv, OldTails, SaidAll, Current
<1>3. GoogleTail'
  BY <1>1 DEF RotatingInv, TailInv, GoogleTail, Google, Current, Texts
<1>4. GeminiTail'
  <2>1. (SaidAll(Current) => SaidAll(Current)') /\ (Fresh(Current) => Fresh(Current)')
    BY <1>1 DEF SaidAll, Fresh, Current
  <2>2. Answered(Current) => Answered(Current)'
    BY <1>1 DEF Answered, Current, Texts
  <2> QED
    BY <2>1, <2>2 DEF RotatingInv, TailInv, GeminiTail, Gemini, Current
<1>5. OutTimes' /\ DownTimes'
  BY OutTimesStay
     DEF RotatingInv, TimesInv, DownTimes, MessageTimely, Current, Gemini, Google
<1> QED
  BY <1>2, <1>3, <1>4, <1>5 DEF TailInv

(* send_audio() into the buffer of a swap.                                 *)
LEMMA BufferStep ==
  ASSUME RotatingInv, Gemini, Feeding, sent < Chunks, sent' = sent + 1, Buffer(sent + 1), rotating,
         UNCHANGED <<adapter, up, ws, rotating, reader, finished, feeder, held, offset, out, patient>>
  PROVE  RotatingInv'
<1>1. /\ sent \in Nat /\ sent' \in Nat /\ sent + 1 \in 0 .. Chunks /\ pending \in Seq(Nat)
      /\ Len(pending) \in Nat /\ Len(pending) <= Cap /\ dropped \subseteq 1 .. sent
      /\ Len(up) > 0
  BY RotatingAssumption
     DEF RotatingInv, Types, DataTypes, ControlTypes, Readers, Shape, Feeding, Gemini
<1>2. PICK over \in 0 .. Len(pending) :
        /\ pending' \in Seq(Nat) /\ Len(pending') = Len(pending) + 1 - over
        /\ Len(pending') <= Cap /\ pending'[Len(pending')] = sent + 1
        /\ \A k \in 1 .. Len(pending') - 1 :
             k + over \in 1 .. Len(pending) /\ pending'[k] = pending[k + over]
        /\ dropped' = dropped \cup {pending[i] : i \in 1 .. over}
  BY <1>1, BufferFacts
<1>3. \A k \in 1 .. Len(pending) :
        /\ pending[k] \in 1 .. sent /\ Later(pending[k])
        /\ \A l \in 1 .. Len(pending) : k < l => pending[k] < pending[l]
  <2>1. \A k \in 1 .. Len(pending) : pending[k] # END
    BY PendingIsLater DEF Google, Gemini
  <2> QED
    BY <2>1, PendingIsLater
<1>4. dropped' \subseteq 1 .. sent'
  <2>1. \A x \in 1 .. sent : x \in 1 .. sent'
    BY <1>1
  <2>2. \A i \in 1 .. over : i \in 1 .. Len(pending)
    BY <1>1
  <2>3. {pending[i] : i \in 1 .. over} \subseteq 1 .. sent
    BY <1>3, <2>2
  <2> QED
    BY <1>1, <1>2, <2>1, <2>3
<1>5. ASSUME NEW k \in 1 .. Len(pending')
      PROVE  /\ pending'[k] \in 1 .. sent' /\ Later(pending'[k])
             /\ \A l \in 1 .. Len(pending') : k < l => pending'[k] < pending'[l]
  <2>1. CASE k = Len(pending')
    BY <1>1, <1>2, <2>1 DEF Later
  <2>2. CASE k \in 1 .. Len(pending') - 1
    <3>1. /\ k + over \in 1 .. Len(pending) /\ pending'[k] = pending[k + over]
          /\ pending[k + over] \in 1 .. sent /\ Later(pending[k + over])
      BY <1>2, <1>3, <2>2
    <3>2. ASSUME NEW l \in 1 .. Len(pending'), k < l PROVE pending'[k] < pending'[l]
      <4>1. CASE l = Len(pending')
        <5>1. pending'[l] = sent + 1
          BY <1>2, <4>1
        <5>2. pending'[k] \in 1 .. sent
          BY <3>1
        <5> QED
          BY <1>1, <5>1, <5>2
      <4>2. CASE l \in 1 .. Len(pending') - 1
        <5>1. l + over \in 1 .. Len(pending) /\ pending'[l] = pending[l + over]
          BY <1>2, <4>2
        <5>2. k + over < l + over
          BY <3>2
        <5> QED
          BY <1>3, <3>1, <5>1, <5>2
      <4>3. Len(pending') \in Nat
        BY <1>2
      <4> QED
        BY <4>1, <4>2, <4>3
    <3> QED
      BY <1>1, <3>1, <3>2
  <2>3. Len(pending') \in Nat
    BY <1>2
  <2> QED
    BY <2>1, <2>2, <2>3
<1>6. PendingInOrder'
  <2>1. \A k \in 1 .. Len(pending') : pending'[k] <= sent' /\ pending'[k] # END
    BY <1>1, <1>5 DEF END
  <2> QED
    BY <1>5, <2>1 DEF PendingInOrder
<1>7. HearsAfter(Current.heard, <<>>) /\ MoreAudio(<<>>)
  <2>1. HearsAfter(Current.heard, <<>>)
    BY <1>1, NobodyHears
  <2>2. MoreAudio(<<>>)
    BY <1>1, <1>5, NothingMore DEF MoreAudio
  <2> QED
    BY <2>1, <2>2
<1>8. HeardBeforePending' /\ HeardOnce' /\ \A c : Hearing(c) => Hearing(c)'
  BY <1>7, HearMore
<1>9. LossInv'
  <2> SUFFICES ASSUME ~finished, NEW c \in 1 .. sent'
               PROVE  c \in dropped' \/ Waiting(c)' \/ Hearing(c)'
    BY DEF LossInv
  <2>1. CASE c = sent + 1
    <3>1. Len(pending') \in 1 .. Len(pending')
      BY <1>2
    <3> QED
      BY <1>2, <2>1, <3>1 DEF Waiting
  <2>2. CASE c \in 1 .. sent
    <3>1. c \in dropped \/ Waiting(c) \/ Hearing(c)
      BY <2>2 DEF RotatingInv, LossInv
    <3>2. CASE Waiting(c)
      <4>1. PICK k \in 1 .. Len(pending) : pending[k] = c
        BY <3>2 DEF Waiting
      <4>2. CASE k <= over
        BY <1>2, <4>1, <4>2
      <4>3. CASE k > over
        <5>1. k - over \in 1 .. Len(pending') - 1 /\ k - over \in 1 .. Len(pending')
              /\ (k - over) + over = k
          BY <1>1, <1>2, <4>3
        <5>2. pending'[k - over] = c
          BY <1>2, <4>1, <5>1
        <5> QED
          BY <5>1, <5>2 DEF Waiting
      <4> QED
        BY <1>1, <4>2, <4>3
    <3> QED
      BY <1>2, <1>8, <3>1, <3>2
  <2> QED
    BY <1>1, <2>1, <2>2
<1>10. Types' /\ Shape'
  <2>1. Types'
    BY <1>1, <1>2, <1>4 DEF RotatingInv, Types, DataTypes, ControlTypes, Gemini
  <2>2. Shape'
    BY DEF RotatingInv, Shape, Gemini, Google, Feeding
  <2> QED
    BY <2>1, <2>2
<1>11. TailInv' /\ OutTimes' /\ DownTimes'
  BY QuietTails
<1>12. GoogleTimes'
  BY DEF GoogleTimes, Google, Gemini
<1> QED
  BY <1>6, <1>8, <1>9, <1>10, <1>11, <1>12 DEF RotatingInv, OrderInv, TimesInv

LEMMA HearsFacts ==
  ASSUME NEW v \in UpstreamType, NEW chunks \in Seq(Nat)
  PROVE  /\ Hears(v, chunks) \in UpstreamType /\ Hears(v, chunks).settled = v.settled
         /\ Hears(v, chunks).down = v.down /\ Hears(v, chunks).eos = v.eos
         /\ Hears(v, chunks).state = v.state
         /\ v.state = "open" => Hears(v, chunks).heard = v.heard \o chunks
         /\ v.state # "open" => Hears(v, chunks) = v
<1>1. CASE v.state = "open"
  <2> DEFINE h == v.heard \o chunks
             w == [v EXCEPT !.heard = h]
  <2>1. h \in Seq(Nat)
    <3>1. v.heard \in Seq(Nat)
      BY DEF UpstreamType
    <3> QED
      BY <3>1, Joined
  <2>2. Hears(v, chunks) = w
    BY <1>1 DEF Hears
  <2> HIDE DEF h
  <2>3. /\ w \in UpstreamType /\ w.settled = v.settled /\ w.down = v.down /\ w.eos = v.eos
        /\ w.state = v.state /\ w.heard = h
    BY <2>1 DEF UpstreamType
  <2> HIDE DEF w
  <2> QED
    BY <1>1, <2>2, <2>3 DEF h
<1>2. CASE v.state # "open"
  BY <1>2 DEF Hears
<1> QED
  BY <1>1, <1>2

(* The tails when the newest upstream hears more: it has said what it had. *)
LEMMA TailsOfMore ==
  ASSUME RotatingInv, Len(up) > 0, NEW u, u \in UpstreamType, NEW more, more \in Seq(Nat),
         Len(up') = Len(up), up' \in Seq(UpstreamType), Current' = u,
         \A i \in 1 .. Len(up) - 1 : up'[i] = up[i],
         u.heard = Current.heard \o more, u.settled = Current.settled, u.down = Current.down,
         UNCHANGED <<adapter, out, offset, patient>>, finished => finished'
  PROVE  SettledInv' /\ OldTails' /\ OutTimes' /\ DownTimes'
<1>1. Settled' = Settled
  BY SettledStays
<1>2. SettledInv'
  <2>1. Len(u.heard) = Len(Current.heard) + Len(more) /\ Len(more) \in Nat
    BY CurrentFacts, Joined
  <2> QED
    BY <2>1, CurrentFacts DEF SettledInv
<1>3. OldTails'
  BY <1>1, OldTailsStay DEF RotatingInv, TailInv
<1>4. OutTimes' /\ DownTimes'
  <2>1. \A m : MessageTimely(m)' <=> MessageTimely(m)
    BY DEF MessageTimely, Gemini, Google
  <2> QED
    BY <2>1, OutTimesStay DEF RotatingInv, TimesInv, DownTimes
<1> QED
  BY <1>2, <1>3, <1>4

(* send_audio() to the socket.                                             *)
LEMMA SocketStep ==
  ASSUME RotatingInv, Gemini, Feeding, sent < Chunks, sent' = sent + 1, ws # 0, ~rotating,
         up[ws].state = "open", up' = [up EXCEPT ![ws] = Hears(@, <<sent + 1>>)],
         UNCHANGED <<adapter, pending, dropped, ws, rotating, reader, finished, feeder, held,
                     offset, out, patient>>
  PROVE  RotatingInv'
<1>1. /\ sent \in Nat /\ sent' \in Nat /\ sent + 1 \in 0 .. Chunks /\ pending \in Seq(Nat)
      /\ dropped \subseteq 1 .. sent /\ Len(up) > 0 /\ ws = Len(up) /\ Len(pending) = 0
  BY RotatingAssumption
     DEF RotatingInv, Types, DataTypes, ControlTypes, Readers, Shape, Feeding, Gemini
<1> PICK more : more = <<sent + 1>>
  OBVIOUS
<1> DEFINE u == Hears(Current, more)
<1>2. more \in Seq(Nat) /\ Len(more) = 1 /\ \A k \in 1 .. Len(more) : k = 1 /\ more[k] = sent + 1
  <2>1. sent + 1 \in Nat
    BY <1>1
  <2> QED
    BY <2>1, JustOne
<1>3. up' = [up EXCEPT ![Len(up)] = u] /\ Current.state = "open"
  BY <1>1 DEF Current
<1>4. Current \in UpstreamType
  BY <1>1, CurrentFacts
<1>5. /\ u \in UpstreamType /\ u.settled = Current.settled /\ u.down = Current.down
      /\ u.eos = Current.eos /\ u.state = "open" /\ u.heard = Current.heard \o more
  BY <1>2, <1>3, <1>4, HearsFacts
<1> HIDE DEF u
<1>6. /\ HearsAfter(Current.heard, more)
      /\ up' \in Seq(UpstreamType) /\ Len(up') = Len(up) /\ Current' = u
      /\ Len(up) \in Nat /\ \A i \in 1 .. Len(up) - 1 : up'[i] = up[i]
  <2>1. NewestHearsMore(u, more)
    BY <1>3, <1>5 DEF NewestHearsMore
  <2> QED
    BY <1>1, <2>1, NewestHears
<1>7. MoreAudio(more)
  BY <1>1, <1>2 DEF MoreAudio, Later
<1>8. HeardBeforePending' /\ HeardOnce' /\ (\A c : Hearing(c) => Hearing(c)')
      /\ \A l \in 1 .. Len(more) : Hearing(more[l])'
  BY <1>6, <1>7, HearMore
<1>9. PendingInOrder'
  BY <1>1 DEF PendingInOrder
<1>10. LossInv'
  <2> SUFFICES ASSUME ~finished, NEW c \in 1 .. sent'
               PROVE  c \in dropped' \/ Waiting(c)' \/ Hearing(c)'
    BY DEF LossInv
  <2>1. CASE c = sent + 1
    <3>1. 1 \in 1 .. Len(more) /\ more[1] = c
      BY <1>2, <2>1
    <3> QED
      BY <1>8, <3>1
  <2>2. CASE c \in 1 .. sent
    <3>1. c \in dropped \/ Waiting(c) \/ Hearing(c)
      BY <2>2 DEF RotatingInv, LossInv
    <3> QED
      BY <1>1, <1>8, <3>1 DEF Waiting
  <2> QED
    BY <1>1, <2>1, <2>2
<1>11. Types' /\ Shape'
  <2>1. dropped' \subseteq 1 .. sent'
    BY <1>1
  <2>2. Types'
    BY <1>1, <1>6, <2>1 DEF RotatingInv, Types, DataTypes, ControlTypes, Gemini
  <2>3. Shape'
    BY <1>6 DEF RotatingInv, Shape, Gemini, Google, Feeding
  <2> QED
    BY <2>2, <2>3
<1>12. SettledInv' /\ OldTails' /\ OutTimes' /\ DownTimes'
  BY <1>1, <1>2, <1>5, <1>6, TailsOfMore
<1>13. GeminiTail'
  <2>1. reader \notin {"flush", "dial"}
    BY DEF RotatingInv, Shape
  <2>2. (~finished /\ reader = "recv") => ~u.eos /\ Fresh(u)
    BY <1>3, <1>5 DEF RotatingInv, TailInv, GeminiTail, Fresh
  <2>3. Fresh(u) => Fresh(Current)'
    BY <1>6 DEF Fresh
  <2> QED
    BY <1>5, <1>6, <2>1, <2>2, <2>3 DEF GeminiTail
<1>14. GoogleTail' /\ GoogleTimes'
  BY DEF GoogleTail, GoogleTimes, Google, Gemini
<1> QED
  BY <1>8, <1>9, <1>10, <1>11, <1>12, <1>13, <1>14 DEF RotatingInv, OrderInv, TailInv, TimesInv

LEMMA SendAudioStep == RotatingInv /\ SendAudio => RotatingInv'
<1> SUFFICES ASSUME RotatingInv, SendAudio PROVE RotatingInv'
  OBVIOUS
<1>1. CASE ws = 0 \/ rotating
  <2>1. rotating
    BY <1>1 DEF SendAudio, Feeding, RotatingInv, Shape
  <2> QED
    BY <1>1, <2>1, BufferStep DEF SendAudio
<1>2. CASE ~(ws = 0 \/ rotating)
  BY <1>2, SocketStep DEF SendAudio
<1> QED
  BY <1>1, <1>2

(* Google's queue.                                                         *)
LEMMA EnqueueStep == RotatingInv /\ Enqueue => RotatingInv'
<1> SUFFICES ASSUME RotatingInv, Enqueue PROVE RotatingInv'
  OBVIOUS
<1>1. /\ Google /\ sent < Chunks /\ sent' = sent + 1 /\ pending' = Append(pending, sent + 1)
      /\ feeder = "feeding" /\ reader # "none"
      /\ UNCHANGED <<adapter, dropped, up, ws, rotating, reader, finished, feeder, held, offset, out,
                     patient>>
  BY DEF Enqueue, Feeding, upVars
<1>2. /\ sent \in Nat /\ sent' \in Nat /\ sent + 1 \in 0 .. Chunks /\ pending \in Seq(Nat)
      /\ dropped \subseteq 1 .. sent /\ Len(up) > 0
  BY <1>1, RotatingAssumption
     DEF RotatingInv, Types, DataTypes, ControlTypes, Readers, Shape
<1>3. /\ pending' \in Seq(Nat) /\ Len(pending') = Len(pending) + 1 /\ Len(pending) \in Nat
      /\ \A k \in 1 .. Len(pending) : pending'[k] = pending[k]
      /\ pending'[Len(pending) + 1] = sent + 1
  <2>1. sent + 1 \in Nat
    BY <1>2
  <2> QED
    BY <1>1, <1>2, <2>1, AfterAppend
<1>4. \A k \in 1 .. Len(pending) :
        /\ pending[k] \in 1 .. sent /\ Later(pending[k])
        /\ \A l \in 1 .. Len(pending) : k < l => pending[k] < pending[l]
  <2>1. \A k \in 1 .. Len(pending) : pending[k] # END
    BY <1>1, PendingIsLater
  <2> QED
    BY <2>1, PendingIsLater
<1>5. ASSUME NEW k \in 1 .. Len(pending')
      PROVE  pending'[k] <= sent' /\ pending'[k] # END /\ Later(pending'[k])
  <2>1. CASE k = Len(pending) + 1
    BY <1>1, <1>2, <1>3, <2>1 DEF Later, END
  <2>2. CASE k \in 1 .. Len(pending)
    <3>1. pending'[k] = pending[k] /\ pending[k] \in 1 .. sent /\ Later(pending[k])
      BY <1>3, <1>4, <2>2
    <3> QED
      BY <1>1, <1>2, <3>1 DEF END
  <2> QED
    BY <1>3, <2>1, <2>2
<1>6. ASSUME NEW k \in 1 .. Len(pending'), NEW l \in 1 .. Len(pending'), k < l
      PROVE  pending'[k] < pending'[l]
  <2>1. k \in 1 .. Len(pending) /\ (l = Len(pending) + 1 \/ l \in 1 .. Len(pending))
    BY <1>3, <1>6
  <2>2. pending'[k] = pending[k] /\ pending[k] \in 1 .. sent
    BY <1>3, <1>4, <2>1
  <2>3. CASE l = Len(pending) + 1
    BY <1>2, <1>3, <2>2, <2>3
  <2>4. CASE l \in 1 .. Len(pending)
    BY <1>3, <1>4, <1>6, <2>1, <2>2, <2>4
  <2> QED
    BY <2>1, <2>3, <2>4
<1>7. PendingInOrder'
  BY <1>5, <1>6 DEF PendingInOrder
<1>8. HeardBeforePending' /\ HeardOnce' /\ \A c : Hearing(c) => Hearing(c)'
  <2>1. HearsAfter(Current.heard, <<>>)
    BY <1>1, <1>2, NobodyHears
  <2>2. MoreAudio(<<>>)
    BY <1>1, <1>2, <1>5, NothingMore DEF MoreAudio
  <2> QED
    BY <2>1, <2>2, HearMore
<1>9. LossInv'
  <2> SUFFICES ASSUME ~finished, NEW c \in 1 .. sent'
               PROVE  c \in dropped' \/ Waiting(c)' \/ Hearing(c)'
    BY <1>1 DEF LossInv
  <2>1. CASE c = sent + 1
    <3>1. Len(pending) + 1 \in 1 .. Len(pending')
      BY <1>3
    <3> QED
      BY <1>3, <2>1, <3>1 DEF Waiting
  <2>2. CASE c \in 1 .. sent
    <3>1. c \in dropped \/ Waiting(c) \/ Hearing(c)
      BY <2>2 DEF RotatingInv, LossInv
    <3>2. Waiting(c) => Waiting(c)'
      <4>1. \A k \in 1 .. Len(pending) : k \in 1 .. Len(pending')
        BY <1>3
      <4> QED
        BY <1>3, <4>1 DEF Waiting
    <3> QED
      BY <1>1, <1>8, <3>1, <3>2
  <2> QED
    BY <1>1, <1>2, <2>1, <2>2
<1>10. Types' /\ Shape'
  <2>1. dropped' \subseteq 1 .. sent'
    BY <1>1, <1>2
  <2>2. Types'
    BY <1>1, <1>2, <1>3, <2>1
       DEF RotatingInv, Types, DataTypes, ControlTypes, Gemini, Google
  <2>3. Shape'
    BY <1>1 DEF RotatingInv, Shape, Gemini, Google
  <2> QED
    BY <2>2, <2>3
<1>11. TailInv' /\ OutTimes' /\ DownTimes'
  BY <1>1, QuietTails
<1>12. GoogleTimes'
  <2>1. Len(Current.heard) \in Nat /\ offset \in Nat
    BY <1>2, CurrentFacts DEF RotatingInv, Types, DataTypes
  <2>2. /\ \A a \in 1 .. Len(Current.heard) : Current.heard[a] = offset + a
        /\ \A k \in 1 .. Len(pending) : pending[k] \in {END, offset + Len(Current.heard) + k}
        /\ offset + Len(Current.heard) + Len(pending) = sent
    BY <1>1, <1>2 DEF RotatingInv, TimesInv, GoogleTimes
  <2>6. \A o, h, p \in Nat : o + h + p = sent => /\ o + h + (p + 1) = sent + 1
                                                 /\ o + h <= sent + 1
    BY <1>2
  <2>7. /\ offset + Len(Current.heard) + (Len(pending) + 1) = sent + 1
        /\ offset + Len(Current.heard) <= sent + 1
    <3>1. offset + Len(Current.heard) + Len(pending) = sent
      BY <2>2
    <3>2. Len(pending) \in Nat
      BY <1>3
    <3> QED
      BY <2>1, <2>6, <3>1, <3>2
  <2>3. \A k \in 1 .. Len(pending') : pending'[k] \in {END, offset + Len(Current.heard) + k}
    <3> SUFFICES ASSUME NEW k \in 1 .. Len(pending')
                 PROVE  pending'[k] \in {END, offset + Len(Current.heard) + k}
      OBVIOUS
    <3>1. k \in 1 .. Len(pending) \/ k = Len(pending) + 1
      BY <1>3
    <3>2. k = Len(pending) + 1 => offset + Len(Current.heard) + k = sent + 1
      BY <2>7
    <3> QED
      BY <1>3, <2>2, <3>1, <3>2
  <2>4. /\ offset + Len(Current.heard) <= sent'
        /\ offset + Len(Current.heard) + Len(pending') = sent'
    BY <1>1, <1>3, <2>7
  <2>5. Current' = Current /\ offset' = offset /\ feeder' = feeder
    BY <1>1 DEF Current
  <2> QED
    BY <2>2, <2>3, <2>4, <2>5 DEF GoogleTimes
<1> QED
  BY <1>7, <1>8, <1>9, <1>10, <1>11, <1>12 DEF RotatingInv, OrderInv, TimesInv

LEMMA FinishStep == RotatingInv /\ Finish => RotatingInv'
<1> SUFFICES ASSUME RotatingInv, Finish PROVE RotatingInv'
  OBVIOUS
<1>1. /\ feeder = "feeding" /\ reader # "none" /\ finished' = TRUE
      /\ UNCHANGED <<adapter, sent, dropped, up, ws, rotating, reader, held, offset, out, patient>>
  BY DEF Finish, Feeding, upVars
<1>2. CASE ~Google
  <2>1. pending' = pending /\ feeder' = "finishing" /\ Gemini
    BY <1>2, RotatingAssumption
       DEF Finish, RotatingInv, Types, ControlTypes, Gemini, Google
  <2>2. Types' /\ Shape'
    <3>1. Types'
      BY <1>1, <2>1 DEF RotatingInv, Types, DataTypes, ControlTypes, Gemini, Feeders
    <3>2. Shape'
      BY <1>1, <2>1 DEF RotatingInv, Shape, Gemini, Google
    <3> QED
      BY <3>1, <3>2
  <2> QED
    BY <1>1, <2>1, <2>2, ControlStep
<1>3. CASE Google
  <2>1. pending' = Append(pending, END) /\ feeder' = "done"
    BY <1>3 DEF Finish
  <2>2. sent \in Nat /\ pending \in Seq(Nat) /\ Len(up) > 0
    BY <1>1, RotatingAssumption
       DEF RotatingInv, Types, DataTypes, ControlTypes, Readers, Shape
  <2>3. /\ pending' \in Seq(Nat) /\ Len(pending') = Len(pending) + 1 /\ Len(pending) \in Nat
        /\ \A k \in 1 .. Len(pending) : pending'[k] = pending[k]
        /\ pending'[Len(pending) + 1] = END
    <3>1. END \in Nat
      BY DEF END
    <3> QED
      BY <2>1, <2>2, <3>1, AfterAppend
  <2>4. \A k \in 1 .. Len(pending) :
          /\ pending[k] \in 1 .. sent /\ Later(pending[k]) /\ pending[k] # END
          /\ \A l \in 1 .. Len(pending) : k < l => pending[k] < pending[l]
    <3>1. \A k \in 1 .. Len(pending) : pending[k] # END
      BY <1>1, PendingIsLater
    <3> QED
      BY <3>1, PendingIsLater
  <2>5. \A k \in 1 .. Len(pending') : k = Len(pending') \/ k \in 1 .. Len(pending)
    BY <2>3
  <2>6. PendingInOrder'
    <3>1. ASSUME NEW k \in 1 .. Len(pending')
          PROVE  /\ pending'[k] <= sent'
                 /\ pending'[k] = END => k = Len(pending')
      <4>1. CASE k = Len(pending')
        BY <1>1, <2>2, <2>3, <4>1 DEF END
      <4>2. CASE k \in 1 .. Len(pending)
        <5>1. pending'[k] = pending[k] /\ pending[k] # END /\ pending[k] \in 1 .. sent
          BY <2>3, <2>4, <4>2
        <5> QED
          BY <1>1, <2>2, <5>1
      <4> QED
        BY <2>5, <4>1, <4>2
    <3>2. ASSUME NEW k \in 1 .. Len(pending'), NEW l \in 1 .. Len(pending'), k < l
          PROVE  pending'[k] < pending'[l] \/ pending'[l] = END
      <4>1. CASE l = Len(pending')
        BY <2>3, <4>1
      <4>2. CASE l \in 1 .. Len(pending)
        <5>1. k \in 1 .. Len(pending)
          BY <2>3, <3>2, <4>2
        <5> QED
          BY <2>3, <2>4, <3>2, <4>2, <5>1
      <4> QED
        BY <2>5, <4>1, <4>2
    <3>3. Google'
      BY <1>1, <1>3 DEF Google
    <3> QED
      BY <2>1, <3>1, <3>2, <3>3 DEF PendingInOrder
  <2>7. HeardBeforePending' /\ HeardOnce'
    <3>1. HearsAfter(Current.heard, <<>>)
      BY <1>1, <2>2, NobodyHears
    <3>2. \A k \in 1 .. Len(pending') : pending'[k] = END \/ Later(pending'[k])
      BY <2>3, <2>4, <2>5
    <3>3. MoreAudio(<<>>)
      BY <1>1, <2>2, <3>2, NothingMore DEF MoreAudio
    <3> QED
      BY <3>1, <3>3, HearMore
  <2>8. LossInv'
    BY <1>1 DEF LossInv
  <2>9. Types' /\ Shape'
    <3>1. Types'
      BY <1>1, <1>3, <2>1, <2>3
         DEF RotatingInv, Types, DataTypes, ControlTypes, Gemini, Google, Feeders
    <3>2. Shape'
      BY <1>1, <1>3, <2>1 DEF RotatingInv, Shape, Gemini, Google
    <3> QED
      BY <3>1, <3>2
  <2>10. TailInv' /\ OutTimes' /\ DownTimes'
    BY <1>1, QuietTails
  <2>11. GoogleTimes'
    <3>1. \A k \in 1 .. Len(pending) : pending[k] \in {END, offset + Len(Current.heard) + k}
      BY <1>3, <2>2 DEF RotatingInv, TimesInv, GoogleTimes
    <3>2. \A k \in 1 .. Len(pending') : pending'[k] \in {END, offset + Len(Current.heard) + k}
      BY <2>3, <2>5, <3>1
    <3>3. Current' = Current /\ offset' = offset /\ sent' = sent
      BY <1>1 DEF Current
    <3> QED
      BY <1>1, <1>3, <2>1, <2>2, <3>2, <3>3 DEF RotatingInv, TimesInv, GoogleTimes, Google
  <2> QED
    BY <2>6, <2>7, <2>8, <2>9, <2>10, <2>11 DEF RotatingInv, OrderInv, TimesInv
<1> QED
  BY <1>2, <1>3

(* The stream takes the next item of the queue.                            *)
InStep(o, heard, waiting, s) ==
  /\ \A a \in 1 .. Len(heard) : heard[a] = o + a
  /\ \A k \in 1 .. Len(waiting) : waiting[k] \in {END, o + Len(heard) + k}
  /\ o + Len(heard) <= s

AllCounted(o, heard, waiting, s) == o + Len(heard) + Len(waiting) = s
TakesTheHead(later, rest, heard, waiting) ==
  /\ heard \in Seq(Nat) /\ waiting \in Seq(Nat) /\ Len(waiting) > 0 /\ waiting[1] # END
  /\ later = heard \o <<waiting[1]>> /\ rest = Tail(waiting)

LEMMA QueueTimes ==
  ASSUME NEW o \in Nat, NEW s \in Nat, NEW heard, NEW waiting, NEW later, NEW rest,
         TakesTheHead(later, rest, heard, waiting), waiting[1] <= s, InStep(o, heard, waiting, s)
  PROVE  /\ InStep(o, later, rest, s)
         /\ AllCounted(o, heard, waiting, s) => AllCounted(o, later, rest, s)
<1> USE DEF TakesTheHead
<1>0. /\ \A a \in 1 .. Len(heard) : heard[a] = o + a
      /\ \A k \in 1 .. Len(waiting) : waiting[k] \in {END, o + Len(heard) + k}
  BY DEF InStep
<1>1. /\ Len(rest) = Len(waiting) - 1 /\ Len(waiting) \in Nat
      /\ \A k \in 1 .. Len(waiting) - 1 : rest[k] = waiting[k + 1]
  BY AfterTail
<1>2. waiting[1] \in Nat /\ 1 \in 1 .. Len(waiting)
  BY <1>1
<1>3. waiting[1] = o + Len(heard) + 1
  BY <1>0, <1>2
<1> DEFINE one == <<waiting[1]>>
<1>4. one \in Seq(Nat) /\ Len(one) = 1 /\ one[1] = waiting[1]
  BY <1>2, JustOne
<1> HIDE DEF one
<1>5. /\ Len(later) = Len(heard) + 1 /\ Len(heard) \in Nat
      /\ \A i \in 1 .. Len(heard) : later[i] = heard[i]
      /\ later[Len(heard) + 1] = waiting[1]
  <2>1. later = heard \o one
    BY DEF one
  <2>2. 1 \in 1 .. Len(one)
    BY <1>4
  <2> HIDE DEF TakesTheHead
  <2>0. heard \in Seq(Nat)
    BY DEF TakesTheHead
  <2>3. /\ Len(heard \o one) = Len(heard) + Len(one) /\ Len(heard) \in Nat
        /\ \A i \in 1 .. Len(heard) : (heard \o one)[i] = heard[i]
        /\ \A i \in 1 .. Len(one) : (heard \o one)[Len(heard) + i] = one[i]
    <3>1. ASSUME NEW a \in Seq(Nat), NEW b \in Seq(Nat)
          PROVE  /\ Len(a \o b) = Len(a) + Len(b) /\ Len(a) \in Nat
                 /\ \A i \in 1 .. Len(a) : (a \o b)[i] = a[i]
                 /\ \A i \in 1 .. Len(b) : (a \o b)[Len(a) + i] = b[i]
      BY Joined
    <3> QED
      BY <1>4, <2>0, <3>1
  <2> QED
    BY <1>4, <2>1, <2>2, <2>3
<1>6. ASSUME NEW a \in 1 .. Len(later) PROVE later[a] = o + a
  <2>1. a \in 1 .. Len(heard) \/ a = Len(heard) + 1
    BY <1>5
  <2>2. CASE a \in 1 .. Len(heard)
    BY <1>0, <1>5, <2>2
  <2>3. CASE a = Len(heard) + 1
    <3>1. Len(heard) \in Nat
      BY <1>5
    <3>2. o + Len(heard) + 1 = o + (Len(heard) + 1)
      BY <3>1
    <3> QED
      BY <1>3, <1>5, <2>3, <3>2
  <2> QED
    BY <2>1, <2>2, <2>3
<1>7. ASSUME NEW k \in 1 .. Len(rest) PROVE rest[k] \in {END, o + Len(later) + k}
  <2>1. k \in 1 .. Len(waiting) - 1 /\ k + 1 \in 1 .. Len(waiting)
    BY <1>1
  <2>2. waiting[k + 1] \in {END, o + Len(heard) + (k + 1)}
    BY <1>0, <2>1
  <2>3. o + Len(heard) + (k + 1) = o + Len(later) + k
    BY <1>5
  <2> QED
    BY <1>1, <2>1, <2>2, <2>3
<1>8. o + Len(later) <= s
  BY <1>3, <1>5
<1>9. o + Len(heard) + Len(waiting) = s => o + Len(later) + Len(rest) = s
  <2>1. \A h, w \in Nat : o + (h + 1) + (w - 1) = o + h + w
    OBVIOUS
  <2>2. Len(heard) \in Nat /\ Len(waiting) \in Nat
    BY <1>1, <1>5
  <2>3. o + Len(later) + Len(rest) = o + (Len(heard) + 1) + (Len(waiting) - 1)
    BY <1>1, <1>5
  <2> QED
    BY <2>1, <2>2, <2>3
<1> QED
  BY <1>6, <1>7, <1>8, <1>9 DEF InStep, AllCounted

LEMMA RequestsStep == RotatingInv /\ Requests => RotatingInv'
<1> SUFFICES ASSUME RotatingInv, Requests PROVE RotatingInv'
  OBVIOUS
<1>1. /\ Google /\ Len(up) > 0 /\ Current.state = "open" /\ Current \in UpstreamType
      /\ ~Current.eos /\ pending # <<>> /\ pending' = Tail(pending)
      /\ UNCHANGED <<adapter, sent, dropped, ws, rotating, reader, feeder, held, offset, out, patient>>
  BY AliveFacts DEF Requests, Current, Reading
<1> PICK h : h = pending[1]
  OBVIOUS
<1> PICK more : more = IF h = END THEN <<>> ELSE <<h>>
  OBVIOUS
<1>2. sent \in Nat /\ pending \in Seq(Nat) /\ Len(pending) > 0 /\ dropped \subseteq 1 .. sent
  <2>1. sent \in Nat /\ pending \in Seq(Nat) /\ dropped \subseteq 1 .. sent
    BY RotatingAssumption DEF RotatingInv, Types, DataTypes
  <2> QED
    BY <1>1, <2>1
<1>3. /\ pending' \in Seq(Nat) /\ Len(pending') = Len(pending) - 1 /\ Len(pending) \in Nat
      /\ \A k \in 1 .. Len(pending) - 1 : pending'[k] = pending[k + 1]
      /\ Head(pending) = h /\ h \in Nat /\ 1 \in 1 .. Len(pending)
  <2>1. /\ pending' \in Seq(Nat) /\ Len(pending') = Len(pending) - 1 /\ Len(pending) \in Nat
        /\ \A k \in 1 .. Len(pending) - 1 : pending'[k] = pending[k + 1]
        /\ Head(pending) = h /\ h \in Nat
    BY <1>1, <1>2, AfterTail
  <2> QED
    BY <1>2, <2>1
<1>4. \A k \in 1 .. Len(pending) :
        /\ pending[k] \in Nat /\ pending[k] <= sent
        /\ pending[k] # END => Later(pending[k]) /\ pending[k] \in 1 .. sent
        /\ pending[k] = END => Google /\ feeder = "done" /\ k = Len(pending)
        /\ \A l \in 1 .. Len(pending) : k < l => pending[k] < pending[l] \/ pending[l] = END
  BY PendingIsLater
<1>5. \A k \in 1 .. Len(pending') :
        /\ k + 1 \in 1 .. Len(pending) /\ 1 < k + 1 /\ pending'[k] = pending[k + 1]
  BY <1>3
<1>6. h = END => Len(pending') = 0 /\ feeder = "done"
  BY <1>3, <1>4
<1>7. more \in Seq(Nat) /\ \A l \in 1 .. Len(more) : h # END /\ l = 1 /\ more[l] = h
  <2>1. CASE h = END
    BY <2>1, NothingMore
  <2>2. CASE h # END
    BY <1>3, <2>2, JustOne
  <2> QED
    BY <2>1, <2>2
<1>8. MoreAudio(more)
  <2>1. \A l \in 1 .. Len(more) : more[l] \in 1 .. sent' /\ Later(more[l])
    BY <1>1, <1>3, <1>4, <1>7
  <2>2. \A k, l \in 1 .. Len(more) : k < l => more[k] < more[l]
    BY <1>7
  <2>3. ASSUME NEW k \in 1 .. Len(pending')
        PROVE  \/ pending'[k] = END
               \/ Later(pending'[k]) /\ \A l \in 1 .. Len(more) : more[l] < pending'[k]
    BY <1>3, <1>4, <1>5, <1>7
  <2> QED
    BY <1>1, <1>2, <1>7, <2>1, <2>2, <2>3 DEF MoreAudio
<1> DEFINE u == IF h = END THEN Told(Current) ELSE Hears(Current, more)
<1>9. up' = [up EXCEPT ![Len(up)] = u] /\ finished' = (finished \/ h = END)
  BY <1>3 DEF Requests, Current, Reading
<1>10. /\ u \in UpstreamType /\ u.settled = Current.settled /\ u.down = Current.down
       /\ u.state = "open" /\ u.heard = Current.heard \o more /\ (h # END => u.eos = FALSE)
  <2>1. CASE h = END
    <3>1. Current.heard \in Seq(Nat)
      BY <1>1, CurrentFacts
    <3> QED
      BY <1>1, <2>1, <3>1, ToldFacts, NothingMore
  <2>2. CASE h # END
    <3>1. Current.eos = FALSE
      BY <1>1, CurrentFacts
    <3> QED
      BY <1>1, <1>7, <2>2, <3>1, HearsFacts
  <2> QED
    BY <2>1, <2>2
<1> HIDE DEF u
<1>11. /\ HearsAfter(Current.heard, more)
       /\ up' \in Seq(UpstreamType) /\ Len(up') = Len(up) /\ Current' = u
       /\ Len(up) \in Nat /\ \A i \in 1 .. Len(up) - 1 : up'[i] = up[i]
  <2>1. NewestHearsMore(u, more)
    BY <1>9, <1>10 DEF NewestHearsMore
  <2> QED
    BY <1>1, <2>1, NewestHears
<1>12. HeardBeforePending' /\ HeardOnce' /\ (\A c : Hearing(c) => Hearing(c)')
       /\ \A l \in 1 .. Len(more) : Hearing(more[l])'
  BY <1>8, <1>11, HearMore
<1>13. PendingInOrder'
  <2>1. ASSUME NEW k \in 1 .. Len(pending')
        PROVE  /\ pending'[k] <= sent'
               /\ pending'[k] = END => Google' /\ feeder' = "done" /\ k = Len(pending')
    <3>1. /\ k + 1 \in 1 .. Len(pending) /\ pending'[k] = pending[k + 1]
      BY <1>5
    <3>2. /\ pending[k + 1] <= sent
          /\ pending[k + 1] = END => Google /\ feeder = "done" /\ k + 1 = Len(pending)
      BY <1>4, <3>1
    <3>3. k + 1 = Len(pending) => k = Len(pending')
      BY <1>3
    <3> QED
      BY <1>1, <3>1, <3>2, <3>3 DEF Google
  <2>2. ASSUME NEW k \in 1 .. Len(pending'), NEW l \in 1 .. Len(pending'), k < l
        PROVE  pending'[k] < pending'[l] \/ pending'[l] = END
    <3>1. k + 1 \in 1 .. Len(pending) /\ l + 1 \in 1 .. Len(pending) /\ k + 1 < l + 1
      BY <1>5, <2>2
    <3> QED
      BY <1>4, <1>5, <3>1
  <2> QED
    BY <2>1, <2>2 DEF PendingInOrder
<1>14. LossInv'
  <2> SUFFICES ASSUME ~finished, h # END, NEW c \in 1 .. sent
               PROVE  c \in dropped' \/ Waiting(c)' \/ Hearing(c)'
    BY <1>1, <1>9 DEF LossInv
  <2>1. c \in dropped \/ Waiting(c) \/ Hearing(c)
    BY DEF RotatingInv, LossInv
  <2>2. CASE Waiting(c)
    <3>1. PICK k \in 1 .. Len(pending) : pending[k] = c
      BY <2>2 DEF Waiting
    <3>2. CASE k = 1
      <4>1. 1 \in 1 .. Len(more) /\ more[1] = c
        BY <1>3, <3>1, <3>2, JustOne
      <4> QED
        BY <1>12, <4>1
    <3>3. CASE k > 1
      <4>1. k - 1 \in 1 .. Len(pending') /\ (k - 1) + 1 = k
        BY <1>3, <3>3
      <4>2. pending'[k - 1] = c
        BY <1>5, <3>1, <4>1
      <4> QED
        BY <4>1, <4>2 DEF Waiting
    <3> QED
      BY <3>2, <3>3
  <2> QED
    BY <1>1, <1>12, <2>1, <2>2
<1>15. Types' /\ Shape'
  <2>1. finished' \in BOOLEAN
    BY <1>9 DEF RotatingInv, Types, ControlTypes
  <2>2. Types'
    BY <1>1, <1>3, <1>11, <2>1
       DEF RotatingInv, Types, DataTypes, ControlTypes, Gemini, Google
  <2>3. finished => finished'
    BY <1>9
  <2>4. Shape'
    BY <1>1, <1>11, <2>3 DEF RotatingInv, Shape, Gemini, Google
  <2> QED
    BY <2>2, <2>4
<1>16. SettledInv' /\ OldTails' /\ OutTimes' /\ DownTimes'
  <2>1. finished => finished'
    BY <1>9
  <2> QED
    BY <1>1, <1>7, <1>10, <1>11, <2>1, TailsOfMore
<1>17. GeminiTail'
  BY <1>1 DEF GeminiTail, Gemini, Google
<1>18. GoogleTail'
  <2> SUFFICES ASSUME reader = "recv" PROVE GoogleTail'
    BY <1>1 DEF GoogleTail
  <2>1. /\ \A a \in 1 .. Current.settled : Current.heard[a] \in Settled \cup Texts(Current.down)
        /\ Current.settled <= Len(Current.heard) /\ Current.settled \in Nat
        /\ Current.heard \in Seq(Nat) /\ Len(Current.heard) \in Nat
    BY <1>1, CurrentFacts DEF RotatingInv, TailInv, GoogleTail
  <2>2. \A a \in 1 .. Current.settled : u.heard[a] = Current.heard[a]
    <3>1. \A a \in 1 .. Len(Current.heard) : (Current.heard \o more)[a] = Current.heard[a]
      <4>1. ASSUME NEW s \in Seq(Nat), NEW t \in Seq(Nat)
            PROVE  \A a \in 1 .. Len(s) : (s \o t)[a] = s[a]
        OBVIOUS
      <4> QED
        BY <1>7, <2>1, <4>1
    <3>2. \A a \in 1 .. Current.settled : a \in 1 .. Len(Current.heard)
      BY <2>1
    <3> QED
      BY <1>10, <3>1, <3>2
  <2>3. Settled' = Settled /\ \A d : Texts(d)' = Texts(d)
    BY <1>1, SettledStays DEF Texts
  <2>4. \A a \in 1 .. Current'.settled : Current'.heard[a] \in (Settled \cup Texts(Current.down))'
    BY <1>10, <1>11, <2>1, <2>2, <2>3
  <2>5. (~finished' /\ (Current'.eos \/ Current'.state = "shut")) => FALSE
    BY <1>9, <1>10, <1>11
  <2>6. Current'.state = "open"
    BY <1>10, <1>11
  <2> QED
    BY <2>4, <2>5, <2>6 DEF GoogleTail
<1>19. GoogleTimes'
  <2>1. /\ \A a \in 1 .. Len(Current.heard) : Current.heard[a] = offset + a
        /\ \A k \in 1 .. Len(pending) : pending[k] \in {END, offset + Len(Current.heard) + k}
        /\ offset + Len(Current.heard) <= sent
        /\ feeder = "feeding" => offset + Len(Current.heard) + Len(pending) = sent
        /\ offset \in Nat /\ Current.heard \in Seq(Nat)
    BY <1>1, CurrentFacts DEF RotatingInv, TimesInv, GoogleTimes, Types, DataTypes
  <2>2. CASE h = END
    <3>1. u.heard = Current.heard
      BY <1>10, <2>1, <2>2, NothingMore
    <3>2. Current'.heard = Current.heard /\ feeder' = "done" /\ \A k \in 1 .. Len(pending') : FALSE
      <4>1. Len(pending') = 0 /\ feeder' = "done"
        BY <1>1, <1>6, <2>2
      <4>2. \A k \in 1 .. Len(pending') : FALSE
        BY <4>1
      <4> QED
        BY <1>11, <3>1, <4>1, <4>2
    <3> QED
      BY <1>1, <2>1, <3>2 DEF GoogleTimes
  <2>3. CASE h # END
    <3>1. /\ InStep(offset, u.heard, Tail(pending), sent)
          /\ offset + Len(Current.heard) + Len(pending) = sent =>
               offset + Len(u.heard) + Len(Tail(pending)) = sent
      <4>1. pending[1] # END /\ pending[1] <= sent
        BY <1>3, <1>4, <2>3
      <4>2. u.heard = Current.heard \o <<pending[1]>>
        BY <1>10, <2>3
      <4>3. InStep(offset, Current.heard, pending, sent)
        BY <2>1 DEF InStep
      <4> PICK heard, later, rest : heard = Current.heard /\ later = u.heard /\ rest = Tail(pending)
        OBVIOUS
      <4>4. /\ TakesTheHead(later, rest, heard, pending) /\ InStep(offset, heard, pending, sent)
            /\ offset \in Nat /\ sent \in Nat
        BY <1>2, <2>1, <4>1, <4>2, <4>3 DEF TakesTheHead
      <4>5. /\ InStep(offset, later, rest, sent)
            /\ offset + Len(heard) + Len(pending) = sent =>
                 offset + Len(later) + Len(rest) = sent
        <5>1. InStep(offset, later, rest, sent)
          BY <4>1, <4>4, QueueTimes, Zenon
        <5>2. AllCounted(offset, heard, pending, sent) => AllCounted(offset, later, rest, sent)
          BY <4>1, <4>4, QueueTimes, Zenon
        <5> QED
          BY <5>1, <5>2 DEF AllCounted
      <4> QED
        BY <4>5
    <3>2. /\ Current'.heard = u.heard /\ pending' = Tail(pending)
          /\ UNCHANGED <<offset, sent, feeder>>
      BY <1>1, <1>11
    <3> QED
      BY <2>1, <3>1, <3>2 DEF GoogleTimes, InStep
  <2> QED
    BY <2>2, <2>3
<1> QED
  BY <1>12, <1>13, <1>14, <1>15, <1>16, <1>17, <1>18, <1>19
     DEF RotatingInv, OrderInv, TailInv, TimesInv

(* finish() flushes the buffer to the socket and tells it.                 *)
LEMMA FinishSendsStep == RotatingInv /\ FinishSends => RotatingInv'
<1> SUFFICES ASSUME RotatingInv, FinishSends PROVE RotatingInv'
  OBVIOUS
<1>1. /\ Gemini /\ feeder = "finishing" /\ finished = TRUE /\ finished' = TRUE
      /\ UNCHANGED <<adapter, sent, dropped, ws, rotating, reader, finished, offset, out, patient>>
  BY DEF FinishSends, RotatingInv, Shape, Types, ControlTypes
<1>2. CASE ws = 0
  <2>1. feeder' = "done" /\ UNCHANGED <<up, pending, held>>
    BY <1>2 DEF FinishSends
  <2>2. Types' /\ Shape'
    <3>1. Types'
      BY <1>1, <2>1 DEF RotatingInv, Types, DataTypes, ControlTypes, Gemini, Feeders
    <3>2. Shape'
      BY <1>1, <2>1 DEF RotatingInv, Shape, Gemini, Google
    <3> QED
      BY <3>1, <3>2
  <2> QED
    BY <1>1, <2>1, <2>2, ControlStep
<1>3. CASE ws # 0
  <2>1. /\ sent \in Nat /\ pending \in Seq(Nat) /\ ws = Len(up) /\ Len(up) > 0 /\ Len(up) \in Nat
    BY <1>1, <1>3, RotatingAssumption DEF RotatingInv, Types, DataTypes, Shape
  <2>2. /\ up' = [up EXCEPT ![Len(up)] = Told(Hears(Current, pending))]
        /\ pending' = <<>> /\ held' = ws /\ feeder' = "grace"
    BY <1>3, <2>1 DEF FinishSends, Current
  <2>3. Current \in UpstreamType /\ Current.heard \in Seq(Nat)
    BY <2>1, CurrentFacts
  <2> PICK more : more = IF Current.state = "open" THEN pending ELSE <<>>
    OBVIOUS
  <2> DEFINE v == Hears(Current, pending)
             u == Told(v)
  <2>4. more \in Seq(Nat) /\ \A k \in 1 .. Len(more) : k \in 1 .. Len(pending) /\ more[k] = pending[k]
    <3>1. CASE Current.state = "open"
      BY <2>1, <3>1
    <3>2. CASE Current.state # "open"
      BY <3>2, NothingMore
    <3> QED
      BY <3>1, <3>2
  <2>5. /\ v \in UpstreamType /\ v.settled = Current.settled /\ v.down = Current.down
        /\ v.heard = Current.heard \o more
    <3>1. CASE Current.state = "open"
      BY <2>1, <2>3, <3>1, HearsFacts
    <3>2. CASE Current.state # "open"
      BY <2>1, <2>3, <3>2, HearsFacts, NothingMore
    <3> QED
      BY <3>1, <3>2
  <2>6. up' = [up EXCEPT ![Len(up)] = u]
    BY <2>2
  <2> HIDE DEF v
  <2>7. /\ u \in UpstreamType /\ u.settled = Current.settled /\ u.down = Current.down
        /\ u.heard = Current.heard \o more
    BY <2>5, ToldFacts
  <2> HIDE DEF u
  <2>8. /\ HearsAfter(Current.heard, more)
        /\ up' \in Seq(UpstreamType) /\ Len(up') = Len(up) /\ Current' = u
        /\ Len(up) \in Nat /\ \A i \in 1 .. Len(up) - 1 : up'[i] = up[i]
    <3>1. NewestHearsMore(u, more)
      BY <2>6, <2>7 DEF NewestHearsMore
    <3> QED
      BY <2>1, <3>1, NewestHears
  <2>9. \A k \in 1 .. Len(pending') : FALSE
    BY <2>2
  <2>10. MoreAudio(more)
    <3>1. \A k \in 1 .. Len(pending) :
            /\ pending[k] \in 1 .. sent /\ Later(pending[k])
            /\ \A l \in 1 .. Len(pending) : k < l => pending[k] < pending[l]
      <4>1. \A k \in 1 .. Len(pending) : pending[k] # END
        BY <1>1, PendingIsLater DEF Google, Gemini
      <4> QED
        BY <4>1, PendingIsLater
    <3> QED
      BY <1>1, <2>1, <2>4, <2>9, <3>1 DEF MoreAudio
  <2>11. HeardBeforePending' /\ HeardOnce'
    BY <2>8, <2>10, HearMore
  <2>12. PendingInOrder' /\ LossInv'
    BY <1>1, <2>9 DEF PendingInOrder, LossInv
  <2>13. Types' /\ Shape'
    <3>1. pending' \in Seq(Nat) /\ Len(pending') = 0
      BY <2>2, NothingMore
    <3>2. Types'
      <4>1. held' \in 0 .. Len(up') /\ ws' \in 0 .. Len(up') /\ Len(pending') <= Cap
        BY <1>1, <2>1, <2>2, <2>8, <3>1, RotatingAssumption
      <4>2. DataTypes'
        BY <1>1, <2>8, <3>1, <4>1 DEF RotatingInv, Types, DataTypes, Gemini
      <4>3. ControlTypes'
        BY <1>1, <2>2 DEF RotatingInv, Types, ControlTypes, Feeders
      <4> QED
        BY <4>2, <4>3 DEF Types
    <3>3. Shape'
      BY <1>1, <1>3, <2>1, <2>2, <2>8, <3>1 DEF RotatingInv, Shape, Gemini, Google
    <3> QED
      BY <3>2, <3>3
  <2>14. SettledInv' /\ OldTails' /\ OutTimes' /\ DownTimes'
    BY <1>1, <2>1, <2>4, <2>7, <2>8, TailsOfMore
  <2>15. GeminiTail' /\ GoogleTail' /\ GoogleTimes'
    BY <1>1 DEF GeminiTail, GoogleTail, GoogleTimes, Gemini, Google
  <2> QED
    BY <2>11, <2>12, <2>13, <2>14, <2>15 DEF RotatingInv, OrderInv, TailInv, TimesInv
<1> QED
  BY <1>2, <1>3

(* A new upstream.                                                         *)
LEMMA NewUpstream ==
  /\ Upstream \in UpstreamType /\ Upstream.heard = <<>> /\ Upstream.settled = 0
  /\ Upstream.eos = FALSE /\ Len(Upstream.down) = 0 /\ Upstream.state = "open"
<1>1. <<>> \in Seq(Nat) /\ <<>> \in Seq(Message) /\ Len(<<>>) = 0
  OBVIOUS
<1>2. Upstream = [heard |-> <<>>, settled |-> 0, eos |-> FALSE, down |-> <<>>, state |-> "open"]
  BY DEF Upstream
<1>3. Upstream \in UpstreamType
  BY <1>1, <1>2 DEF UpstreamType
<1> QED
  BY <1>1, <1>2, <1>3

NewestIs(n, more) ==
  /\ n \in UpstreamType /\ n.heard = more /\ more \in Seq(Nat) /\ n.settled = 0
  /\ Len(n.down) = 0 /\ n.state = "open"

LEMMA UpGrows ==
  ASSUME RotatingInv, NEW n, NEW more, NewestIs(n, more), up' = Append(up, n)
  PROVE  /\ HearsAfter(<<>>, more) /\ up' \in Seq(UpstreamType) /\ Len(up') = Len(up) + 1
         /\ Len(up) \in Nat /\ Current' = n
         /\ \A i \in 1 .. Len(up) : up'[i] = up[i]
         /\ SettledInv' /\ DownTimes'
<1>1. up \in Seq(UpstreamType) /\ n \in UpstreamType
  BY DEF RotatingInv, Types, DataTypes, NewestIs
<1>2. /\ up' \in Seq(UpstreamType) /\ Len(up') = Len(up) + 1 /\ Len(up) \in Nat
      /\ \A i \in 1 .. Len(up) : up'[i] = up[i]
      /\ up'[Len(up) + 1] = n
  BY <1>1, AfterAppend
<1>3. Current' = n
  BY <1>2 DEF Current
<1>4. HearsAfter(<<>>, more)
  <2>1. <<>> \o more = more
    BY DEF NewestIs
  <2>2. \A i \in 1 .. Len(up') - 1 : up'[i].heard = up[i].heard
    BY <1>2
  <2> QED
    BY <1>2, <2>1, <2>2 DEF HearsAfter, NewestIs
<1>5. SettledInv' /\ DownTimes'
  BY <1>3 DEF SettledInv, DownTimes, NewestIs
<1> QED
  BY <1>2, <1>3, <1>4, <1>5

LEMMA OldTailsGrow ==
  ASSUME RotatingInv, Len(up) \in Nat, Len(up') = Len(up) + 1,
         \A i \in 1 .. Len(up) : up'[i] = up[i],
         UNCHANGED <<out, patient, finished>>,
         (Len(up) > 0 /\ patient /\ ~finished /\ Current.state \in {"open", "shut"})
           => SaidAll(Current)
  PROVE  OldTails'
<1>1. Settled' = Settled
  BY SettledStays
<1> SUFFICES ASSUME patient, ~finished, NEW i \in 1 .. Len(up), up[i].state \in {"open", "shut"}
             PROVE  SaidAll(up[i])'
  BY DEF OldTails
<1>2. CASE i \in 1 .. Len(up) - 1
  BY <1>1, <1>2 DEF RotatingInv, TailInv, OldTails, SaidAll
<1>3. CASE i = Len(up)
  BY <1>1, <1>3 DEF Current, SaidAll
<1> QED
  BY <1>2, <1>3

(* _rotate() has a new socket.                                             *)
LEMMA SwapStep == RotatingInv /\ Swap => RotatingInv'
<1> SUFFICES ASSUME RotatingInv, Swap PROVE RotatingInv'
  OBVIOUS
<1>1. /\ Gemini /\ reader = "dial" /\ Len(up) > 0 /\ Len(up) <= Rotations /\ rotating' = FALSE
      /\ ws' = Len(up) + 1 /\ pending' = <<>>
      /\ reader' = (IF finished THEN "last" ELSE "recv")
      /\ UNCHANGED <<adapter, sent, dropped, feeder, held, finished, offset, out, patient>>
  BY DEF Swap, RotatingInv, Shape
<1>2. sent \in Nat /\ pending \in Seq(Nat)
  BY RotatingAssumption DEF RotatingInv, Types, DataTypes
<1> PICK more : more = pending
  OBVIOUS
<1> DEFINE v == Hears(Upstream, more)
           n == IF finished THEN Told(v) ELSE v
<1>3. up' = Append(up, n)
  BY DEF Swap
<1>4. /\ v \in UpstreamType /\ v.heard = more /\ v.settled = 0 /\ Len(v.down) = 0
      /\ v.state = "open" /\ v.eos = FALSE
  <2>1. <<>> \o more = more
    BY <1>2
  <2> QED
    BY <1>2, <2>1, NewUpstream, HearsFacts
<1> HIDE DEF v
<1>5. NewestIs(n, more) /\ (~finished => n.eos = FALSE)
  <2>1. CASE finished
    BY <1>2, <1>4, <2>1, ToldFacts DEF NewestIs
  <2>2. CASE ~finished
    BY <1>2, <1>4, <2>2 DEF NewestIs
  <2> QED
    BY <2>1, <2>2
<1> HIDE DEF n
<1>6. /\ HearsAfter(<<>>, more) /\ up' \in Seq(UpstreamType) /\ Len(up') = Len(up) + 1
      /\ Len(up) \in Nat /\ Current' = n
      /\ \A i \in 1 .. Len(up) : up'[i] = up[i]
      /\ SettledInv' /\ DownTimes'
  BY <1>3, <1>5, UpGrows
<1>7. \A k \in 1 .. Len(pending') : FALSE
  BY <1>1
<1>8. MoreAudio(more)
  <2>1. \A k \in 1 .. Len(pending) : pending[k] # END
    BY <1>1, PendingIsLater DEF Google, Gemini
  <2> QED
    BY <1>1, <1>2, <1>7, <2>1, PendingIsLater DEF MoreAudio
<1>9. HeardBeforePending' /\ HeardOnce' /\ (\A c : Hearing(c) => Hearing(c)')
      /\ \A l \in 1 .. Len(more) : Hearing(more[l])'
  BY <1>6, <1>8, HearMore
<1>10. PendingInOrder'
  BY <1>7 DEF PendingInOrder
<1>11. LossInv'
  BY <1>1, <1>9 DEF RotatingInv, LossInv, Waiting
<1>12. OldTails'
  <2>1. (patient /\ ~finished /\ Current.state \in {"open", "shut"}) => SaidAll(Current)
    BY <1>1 DEF RotatingInv, TailInv, GeminiTail
  <2> QED
    BY <1>1, <1>6, <2>1, OldTailsGrow
<1>13. GeminiTail'
  <2>1. reader' = "last" => finished
    BY <1>1
  <2>2. ~finished => reader' = "recv" /\ n.state = "open" /\ ~n.eos /\ Fresh(n)
    BY <1>1, <1>5 DEF Fresh, NewestIs
  <2>3. Fresh(n) => Fresh(Current)'
    BY <1>6 DEF Fresh
  <2> QED
    BY <1>1, <1>6, <2>2, <2>3 DEF GeminiTail
<1>14. GoogleTail' /\ GoogleTimes'
  BY <1>1 DEF GoogleTail, GoogleTimes, Gemini, Google
<1>15. OutTimes'
  BY <1>1, OutTimesStay DEF RotatingInv, TimesInv
<1>16. Types' /\ Shape'
  <2>1. pending' \in Seq(Nat) /\ Len(pending') = 0
    BY <1>1, NothingMore
  <2>2. Types'
    <3>1. ws' \in 0 .. Len(up') /\ Len(pending') <= Cap
      BY <1>1, <1>6, <2>1, RotatingAssumption
    <3>2. held' \in 0 .. Len(up') /\ Len(up') <= Rotations + 1
      BY <1>1, <1>6, RotatingAssumption DEF RotatingInv, Types, DataTypes
    <3>3. DataTypes'
      BY <1>1, <1>6, <2>1, <3>1, <3>2 DEF RotatingInv, Types, DataTypes, Gemini
    <3>4. ControlTypes'
      BY <1>1 DEF RotatingInv, Types, ControlTypes, Readers
    <3> QED
      BY <3>3, <3>4 DEF Types
  <2>3. Shape'
    BY <1>1, <1>6, <2>1 DEF RotatingInv, Shape, Gemini, Google
  <2> QED
    BY <2>2, <2>3
<1> QED
  BY <1>6, <1>9, <1>10, <1>11, <1>12, <1>13, <1>14, <1>15, <1>16
     DEF RotatingInv, OrderInv, TailInv, TimesInv

(* A gRPC stream ends: the next one, unless it failed or all was said.     *)
LEMMA StreamEndsStep == RotatingInv /\ StreamEnds => RotatingInv'
<1> SUFFICES ASSUME RotatingInv, StreamEnds PROVE RotatingInv'
  OBVIOUS
<1>1. /\ Google /\ reader = "recv" /\ Len(up) > 0 /\ Current.state # "open" /\ Current.down = <<>>
      /\ UNCHANGED <<adapter, sent, pending, dropped, ws, rotating, finished, held, out, patient>>
  BY CurrentFacts DEF StreamEnds, Closed, Down, Current, Reading, RotatingInv, Shape
<1>2. CASE Current.state = "lost"
  <2>1. reader' = "raised" /\ feeder' = Cancelled /\ UNCHANGED <<up, offset>>
    BY <1>2 DEF StreamEnds, Current, Reading
  <2>2. feeder' \in {"done", "dead"} /\ (feeder = "done" => feeder' = "done")
        /\ feeder' \in {feeder, "dead"}
    BY <2>1 DEF Cancelled
  <2>3. Types' /\ Shape'
    <3>1. Types'
      BY <1>1, <2>1, <2>2 DEF RotatingInv, Types, DataTypes, ControlTypes, Gemini, Readers, Feeders
    <3>2. Shape'
      BY <1>1, <2>1, <2>2 DEF RotatingInv, Shape, Gemini, Google
    <3> QED
      BY <3>1, <3>2
  <2> QED
    BY <1>1, <2>1, <2>2, <2>3, ControlStep
<1>3. CASE Current.state # "lost" /\ finished
  <2>1. reader' = "returned" /\ UNCHANGED <<up, offset, feeder>>
    BY <1>3 DEF StreamEnds, Current, Reading
  <2>2. Types' /\ Shape'
    <3>1. Types'
      BY <1>1, <2>1 DEF RotatingInv, Types, DataTypes, ControlTypes, Gemini, Readers
    <3>2. Shape'
      BY <1>1, <2>1 DEF RotatingInv, Shape, Gemini, Google
    <3> QED
      BY <3>1, <3>2
  <2> QED
    BY <1>1, <2>1, <2>2, ControlStep
<1>4. CASE Current.state # "lost" /\ ~finished
  <2>1. /\ offset' = offset + Len(Current.heard) /\ up' = Append(up, Upstream)
        /\ UNCHANGED <<reader, feeder>>
    BY <1>4 DEF StreamEnds, OffsetAfter, Current, Reading
  <2>2. /\ Current.state = "shut" /\ Current.settled = Len(Current.heard) /\ Len(up) <= Rotations
        /\ \A a \in 1 .. Len(Current.heard) : Current.heard[a] \in Settled
    <3>1. Current.state = "shut"
      BY <1>1, <1>4, CurrentFacts DEF RotatingInv, TailInv, GoogleTail
    <3>2. /\ Current.settled = Len(Current.heard) /\ Len(up) <= Rotations
          /\ \A a \in 1 .. Len(Current.heard) : Current.heard[a] \in Settled \cup Texts(Current.down)
      BY <1>1, <1>4, <3>1 DEF RotatingInv, TailInv, GoogleTail
    <3>3. Texts(Current.down) = {}
      BY <1>1, TextsOfNone
    <3> QED
      BY <3>1, <3>2, <3>3
  <2>3. NewestIs(Upstream, <<>>)
    BY NewUpstream, NothingMore DEF NewestIs
  <2>4. /\ HearsAfter(<<>>, <<>>) /\ up' \in Seq(UpstreamType) /\ Len(up') = Len(up) + 1
        /\ Len(up) \in Nat /\ Current' = Upstream
        /\ \A i \in 1 .. Len(up) : up'[i] = up[i]
        /\ SettledInv' /\ DownTimes'
    BY <2>1, <2>3, UpGrows
  <2>5. MoreAudio(<<>>)
    <3>1. sent' \in Nat /\ sent <= sent'
      BY <1>1, RotatingAssumption DEF RotatingInv, Types, DataTypes
    <3>2. \A k \in 1 .. Len(pending') : pending'[k] = END \/ Later(pending'[k])
      BY <1>1, PendingIsLater
    <3> QED
      BY <3>1, <3>2, NothingMore DEF MoreAudio
  <2>6. HeardBeforePending' /\ HeardOnce' /\ \A c : Hearing(c) => Hearing(c)'
    BY <2>4, <2>5, HearMore
  <2>7. PendingInOrder'
    BY <1>1, <2>1 DEF RotatingInv, OrderInv, PendingInOrder, Google
  <2>8. LossInv'
    BY <1>1, <2>6 DEF RotatingInv, LossInv, Waiting
  <2>9. OldTails'
    BY <1>1, <2>2, <2>4, OldTailsGrow DEF SaidAll
  <2>10. GeminiTail'
    BY <1>1 DEF GeminiTail, Gemini, Google
  <2>11. GoogleTail'
    BY <2>4, NewUpstream DEF GoogleTail
  <2>12. OutTimes'
    BY <1>1, OutTimesStay DEF RotatingInv, TimesInv
  <2>13. GoogleTimes'
    <3>1. /\ \A k \in 1 .. Len(pending) : pending[k] \in {END, offset + Len(Current.heard) + k}
          /\ offset + Len(Current.heard) <= sent
          /\ feeder = "feeding" => offset + Len(Current.heard) + Len(pending) = sent
      BY <1>1 DEF RotatingInv, TimesInv, GoogleTimes
    <3>2. Current'.heard = <<>> /\ Len(Current'.heard) = 0
      BY <2>4, NewUpstream, NothingMore
    <3>3. offset' \in Nat /\ offset' + Len(Current'.heard) = offset'
      BY <1>1, <2>1, <3>2, CurrentFacts DEF RotatingInv, Types, DataTypes
    <3> QED
      BY <1>1, <2>1, <3>1, <3>2, <3>3 DEF GoogleTimes
  <2>14. Types' /\ Shape'
    <3>1. offset' \in Nat
      BY <1>1, <2>1, CurrentFacts DEF RotatingInv, Types, DataTypes
    <3>2. /\ held' \in 0 .. Len(up') /\ ws' \in 0 .. Len(up') /\ Len(up') <= Rotations + 1
      BY <1>1, <2>2, <2>4, RotatingAssumption DEF RotatingInv, Types, DataTypes
    <3>3. DataTypes'
      BY <1>1, <2>4, <3>1, <3>2 DEF RotatingInv, Types, DataTypes, Gemini
    <3>4. ControlTypes'
      BY <1>1, <2>1 DEF RotatingInv, Types, ControlTypes
    <3>5. Shape'
      BY <1>1, <2>1, <2>4 DEF RotatingInv, Shape, Gemini, Google
    <3> QED
      BY <3>3, <3>4, <3>5 DEF Types
  <2> QED
    BY <2>4, <2>6, <2>7, <2>8, <2>9, <2>10, <2>11, <2>12, <2>13, <2>14
       DEF RotatingInv, OrderInv, TailInv, TimesInv
<1> QED
  BY <1>2, <1>3, <1>4

LEMMA ConnectStep == RotatingInv /\ Connect => RotatingInv'
<1> SUFFICES ASSUME RotatingInv, Connect PROVE RotatingInv'
  OBVIOUS
<1>1. /\ reader' = "recv" /\ up' = <<Upstream>> /\ ws' = (IF Gemini THEN 1 ELSE 0)
      /\ UNCHANGED <<adapter, sent, pending, dropped, feeder, held, rotating, finished, offset,
                     out, patient>>
  BY DEF Connect, feedVars
<1>2. /\ reader = "none" /\ Len(up) = 0 /\ sent = 0 /\ Len(pending) = 0 /\ feeder = "feeding"
      /\ offset = 0
  BY DEF Connect, RotatingInv, Shape
<1>3. up \in Seq(UpstreamType) /\ pending \in Seq(Nat)
  BY DEF RotatingInv, Types, DataTypes
<1>4. up' = Append(up, Upstream)
  <2>1. up = <<>>
    BY <1>2, <1>3
  <2> QED
    BY <1>1, <2>1
<1>5. NewestIs(Upstream, <<>>)
  BY NewUpstream, NothingMore DEF NewestIs
<1>6. /\ up' \in Seq(UpstreamType) /\ Len(up') = 1 /\ Current' = Upstream
      /\ SettledInv' /\ DownTimes'
  <2>1. /\ up' \in Seq(UpstreamType) /\ Len(up') = Len(up) + 1 /\ Current' = Upstream
        /\ SettledInv' /\ DownTimes'
    BY <1>4, <1>5, UpGrows
  <2> QED
    BY <1>2, <2>1
<1>7. \A i \in 1 .. Len(up') : up'[i] = Upstream /\ Len(up'[i].heard) = 0
  <2>1. \A i \in 1 .. Len(up') : i = Len(up')
    BY <1>6
  <2>2. Len(Upstream.heard) = 0
    BY NewUpstream, NothingMore
  <2> QED
    BY <1>6, <2>1, <2>2 DEF Current
<1>8. OrderInv' /\ LossInv'
  <2>1. \A k \in 1 .. Len(pending') : FALSE
    BY <1>1, <1>2
  <2>2. \A i \in 1 .. Len(up') : \A a \in 1 .. Len(up'[i].heard) : FALSE
    BY <1>7
  <2>3. \A c \in 1 .. sent' : FALSE
    BY <1>1, <1>2
  <2> QED
    BY <2>1, <2>2, <2>3 DEF OrderInv, PendingInOrder, HeardBeforePending, HeardOnce, LossInv
<1>9. TailInv'
  <2>1. GeminiTail'
    <3>1. Fresh(Upstream)
      BY NewUpstream DEF Fresh
    <3>2. Fresh(Current)'
      BY <1>6, <3>1 DEF Fresh
    <3> QED
      BY <1>1, <1>6, <3>2, NewUpstream DEF GeminiTail
  <2>2. GoogleTail'
    BY <1>6, NewUpstream DEF GoogleTail
  <2>3. OldTails'
    <3>1. \A i \in 1 .. Len(up') - 1 : FALSE
      BY <1>6
    <3> QED
      BY <3>1 DEF OldTails
  <2> QED
    BY <1>6, <2>1, <2>2, <2>3 DEF TailInv
<1>10. TimesInv'
  <2>1. OutTimes'
    BY <1>1, OutTimesStay DEF RotatingInv, TimesInv
  <2>2. GoogleTimes'
    <3>1. Len(Current'.heard) = 0 /\ Len(pending') = 0 /\ offset' = 0 /\ sent' = 0
      BY <1>1, <1>2, <1>6, NewUpstream, NothingMore
    <3> QED
      BY <3>1 DEF GoogleTimes
  <2> QED
    BY <1>6, <2>1, <2>2 DEF TimesInv
<1>11. Types' /\ Shape'
  <2>1. /\ held' \in 0 .. Len(up') /\ ws' \in 0 .. Len(up') /\ Len(up') <= Rotations + 1
    BY <1>1, <1>2, <1>6, RotatingAssumption DEF RotatingInv, Types, DataTypes
  <2>2. DataTypes'
    BY <1>1, <1>6, <2>1 DEF RotatingInv, Types, DataTypes, Gemini
  <2>3. ControlTypes'
    BY <1>1 DEF RotatingInv, Types, ControlTypes, Readers
  <2>4. Shape'
    BY <1>1, <1>2, <1>6 DEF RotatingInv, Shape, Gemini, Google
  <2> QED
    BY <2>2, <2>3, <2>4 DEF Types
<1> QED
  BY <1>6, <1>8, <1>9, <1>10, <1>11 DEF RotatingInv

-----------------------------------------------------------------------------
(* The invariant, and what it says.                                        *)

LEMMA InitInv == Init => RotatingInv
<1> SUFFICES ASSUME Init PROVE RotatingInv
  OBVIOUS
<1>1. /\ adapter \in Adapters /\ sent = 0 /\ pending = <<>> /\ dropped = {} /\ up = <<>> /\ ws = 0
      /\ rotating = FALSE /\ reader = "none" /\ finished = FALSE /\ feeder = "feeding"
      /\ held = 0 /\ offset = 0 /\ out = <<>> /\ patient = TRUE
  BY DEF Init
<1>2. /\ Len(pending) = 0 /\ Len(up) = 0 /\ Len(out) = 0
      /\ pending \in Seq(Nat) /\ up \in Seq(UpstreamType) /\ out \in Seq(FinalType)
  BY <1>1
<1>3. Types
  <2>1. DataTypes
    BY <1>1, <1>2, RotatingAssumption DEF DataTypes
  <2>2. ControlTypes
    BY <1>1 DEF ControlTypes, Readers, Feeders
  <2> QED
    BY <2>1, <2>2 DEF Types
<1>4. Shape
  BY <1>1, <1>2 DEF Shape
<1>5. OrderInv /\ LossInv
  <2>1. \A k \in 1 .. 0 : FALSE
    OBVIOUS
  <2> QED
    BY <1>1, <1>2, <2>1
       DEF OrderInv, PendingInOrder, HeardBeforePending, HeardOnce, LossInv
<1>6. TailInv
  <2>1. \A i \in 1 .. Len(up) - 1 : FALSE
    BY <1>2
  <2> QED
    BY <1>1, <1>2, <2>1 DEF TailInv, GeminiTail, GoogleTail, OldTails, SettledInv
<1>7. TimesInv
  <2>1. \A i \in 1 .. Len(out) : FALSE
    BY <1>2
  <2> QED
    BY <1>1, <1>2, <2>1 DEF TimesInv, OutTimes, DownTimes, GoogleTimes
<1> QED
  BY <1>3, <1>4, <1>5, <1>6, <1>7 DEF RotatingInv

LEMMA InvStutters == RotatingInv /\ UNCHANGED vars => RotatingInv'
<1> SUFFICES ASSUME RotatingInv, UNCHANGED vars PROVE RotatingInv'
  OBVIOUS
<1>1. /\ UNCHANGED <<adapter, sent, pending, dropped, up, ws, rotating, reader, finished, feeder,
                     held, offset, out, patient>>
  BY DEF vars
<1>2. Types' /\ Shape'
  BY <1>1 DEF RotatingInv, Types, DataTypes, ControlTypes, Shape, Gemini, Google
<1> QED
  BY <1>1, <1>2, ControlStep

LEMMA StepInv == RotatingInv /\ [Next]_vars => RotatingInv'
<1> SUFFICES ASSUME RotatingInv, [Next]_vars PROVE RotatingInv'
  OBVIOUS
<1>1. CASE Connect
  BY <1>1, ConnectStep
<1>2. CASE ConnectFails
  BY <1>2, ConnectFailsStep
<1>3. CASE GeminiNext
  BY <1>3, SendAudioStep, SendFailsStep, FinishSendsStep, GraceEndsStep, ReceiveStep, RotateStep,
     ReadsCloseStep, FlushReadsStep, FlushEndsStep, SwapStep, DialFailsStep DEF GeminiNext
<1>4. CASE GoogleNext
  BY <1>4, EnqueueStep, RequestsStep, RequestsExpireStep, RespondStep, StreamEndsStep
     DEF GoogleNext
<1>5. CASE Finish
  BY <1>5, FinishStep
<1>6. CASE VendorNext
  BY <1>6, SettlesStep, AnswersStep, BreaksStep, SaysErrorStep DEF VendorNext
<1>7. CASE UNCHANGED vars
  BY <1>7, InvStutters
<1> QED
  BY <1>1, <1>2, <1>3, <1>4, <1>5, <1>6, <1>7 DEF Next

LEMMA InvTypes == RotatingInv => TypeOK
<1> SUFFICES ASSUME RotatingInv PROVE TypeOK
  OBVIOUS
<1>1. DataTypes /\ ControlTypes /\ Shape
  BY DEF RotatingInv, Types
<1>2. sent \in Nat /\ pending \in Seq(Nat) /\ Len(up) \in Nat
  BY <1>1, RotatingAssumption DEF DataTypes
<1>3. Range(pending) \subseteq 0 .. sent
  <2>1. \A k \in 1 .. Len(pending) : pending[k] \in 0 .. sent
    BY <1>2, PendingIsLater
  <2>2. Range(pending) = {pending[k] : k \in 1 .. Len(pending)}
    BY <1>2, RangeOf
  <2> QED
    BY <2>1, <2>2
<1>4. offset \in 0 .. Chunks
  <2>1. CASE Gemini \/ Len(up) = 0
    BY <1>1, <2>1, RotatingAssumption DEF Shape
  <2>2. CASE ~Gemini /\ Len(up) # 0
    <3>1. Google /\ Len(up) > 0
      BY <1>1, <1>2, <2>2, RotatingAssumption DEF ControlTypes, Gemini, Google
    <3>2. offset + Len(Current.heard) <= sent
      BY <3>1 DEF RotatingInv, TimesInv, GoogleTimes
    <3>3. Len(Current.heard) \in Nat /\ offset \in Nat /\ sent \in 0 .. Chunks
      BY <1>1, <3>1, CurrentFacts DEF DataTypes
    <3>4. \A o, h, s \in Nat : o + h <= s => o <= s
      OBVIOUS
    <3>5. offset <= sent
      BY <1>2, <3>2, <3>3, <3>4
    <3> QED
      BY <3>3, <3>5, RotatingAssumption
  <2> QED
    BY <2>1, <2>2
<1>5. Len(up) \in 0 .. Rotations + 1
  BY <1>1, <1>2, RotatingAssumption DEF DataTypes
<1>6. {rotating, finished, patient} \subseteq BOOLEAN
  BY <1>1 DEF ControlTypes
<1> QED
  BY <1>1, <1>3, <1>4, <1>5, <1>6 DEF TypeOK, DataTypes, ControlTypes, Readers, Feeders

LEMMA InvHeard ==
  ASSUME RotatingInv
  PROVE  /\ DOMAIN up = 1 .. Len(up)
         /\ \A i \in 1 .. Len(up) : /\ DOMAIN up[i].heard = 1 .. Len(up[i].heard)
                                    /\ up[i].heard \in Seq(Nat)
         /\ \A c : c \in Heard <=> Hearing(c)
         /\ \A c : c \in Range(pending) <=> Waiting(c)
<1>1. up \in Seq(UpstreamType) /\ pending \in Seq(Nat)
  BY DEF RotatingInv, Types, DataTypes
<1>2. DOMAIN up = 1 .. Len(up) /\ DOMAIN pending = 1 .. Len(pending)
  BY <1>1
<1>3. ASSUME NEW i \in 1 .. Len(up)
      PROVE  DOMAIN up[i].heard = 1 .. Len(up[i].heard) /\ up[i].heard \in Seq(Nat)
  <2>1. up[i] \in UpstreamType
    BY <1>1
  <2>2. up[i].heard \in Seq(Nat)
    BY <2>1 DEF UpstreamType
  <2> QED
    BY <2>2
<1>4. ASSUME NEW c PROVE c \in Heard <=> Hearing(c)
  <2>1. c \in Heard <=> \E i \in 1 .. Len(up) : c \in Range(up[i].heard)
    BY <1>2 DEF Heard
  <2>2. ASSUME NEW i \in 1 .. Len(up)
        PROVE  c \in Range(up[i].heard) <=> \E a \in 1 .. Len(up[i].heard) : up[i].heard[a] = c
    <3>1. Range(up[i].heard) = {up[i].heard[a] : a \in 1 .. Len(up[i].heard)}
      BY <1>3, RangeOf
    <3> QED
      BY <3>1
  <2> QED
    BY <2>1, <2>2 DEF Hearing
<1>5. \A c : c \in Range(pending) <=> Waiting(c)
  BY <1>2 DEF Waiting, Range
<1> QED
  BY <1>2, <1>3, <1>4, <1>5

LEMMA InvOrder == RotatingInv => HeardInOrder
<1> SUFFICES ASSUME RotatingInv PROVE HeardInOrder
  OBVIOUS
<1> QED
  BY InvHeard DEF HeardInOrder, RotatingInv, OrderInv, HeardOnce

LEMMA InvNothingLost == RotatingInv => NothingLostInSwap
<1> SUFFICES ASSUME RotatingInv, ~finished PROVE 1 .. sent = Heard \cup Range(pending) \cup dropped
  BY DEF NothingLostInSwap
<1>1. /\ \A c : c \in Heard <=> Hearing(c)
      /\ \A c : c \in Range(pending) <=> Waiting(c)
  BY InvHeard
<1>2. ASSUME NEW c \in 1 .. sent PROVE c \in Heard \cup Range(pending) \cup dropped
  BY <1>1 DEF RotatingInv, LossInv
<1>3. ASSUME NEW c, Hearing(c) PROVE c \in 1 .. sent
  BY <1>3 DEF Hearing, RotatingInv, OrderInv, HeardBeforePending
<1>4. ASSUME NEW c, Waiting(c) PROVE c \in 1 .. sent
  <2>1. PICK k \in 1 .. Len(pending) : pending[k] = c
    BY <1>4 DEF Waiting
  <2>2. pending[k] # END
    BY PendingIsLater DEF RotatingInv, Shape
  <2> QED
    BY <2>1, <2>2, PendingIsLater
<1>5. dropped \subseteq 1 .. sent
  BY DEF RotatingInv, Types, DataTypes
<1> QED
  BY <1>1, <1>2, <1>3, <1>4, <1>5

LEMMA InvTails == RotatingInv => RotationKeepsTheTail
<1> SUFFICES ASSUME RotatingInv, patient, ~finished,
                    NEW i \in 1 .. Len(up) - 1, up[i].state \in {"open", "shut"}
             PROVE  Range(up[i].heard) \subseteq Settled
  BY DEF RotationKeepsTheTail
<1>1. SaidAll(up[i])
  BY DEF RotatingInv, TailInv, OldTails
<1>2. i \in 1 .. Len(up)
  <2>1. Len(up) \in Nat
    BY DEF RotatingInv, Types, DataTypes
  <2> QED
    BY <2>1
<1> QED
  BY <1>1, <1>2, InvHeard DEF SaidAll, Range

LEMMA InvTimes == RotatingInv => TimesAreOfTheAudio
<1> SUFFICES ASSUME RotatingInv, NEW e \in Range(out), e.end # NoTime
             PROVE  e.end \in e.text /\ \A c \in e.text : c <= e.end
  BY DEF TimesAreOfTheAudio
<1>1. out \in Seq(FinalType)
  BY DEF RotatingInv, Types, DataTypes
<1>2. PICK i \in 1 .. Len(out) : e = out[i]
  BY <1>1, RangeOf
<1> QED
  BY <1>2 DEF RotatingInv, TimesInv, OutTimes, Timely

-----------------------------------------------------------------------------
(* The words: what was told is before what is on its way, and that before  *)
(* what the current upstream has heard and not settled.                    *)
Before(S, T) == \A c \in S, d \in T : c < d
WordsTold == \A i, j \in 1 .. Len(out) : i < j => Before(out[i].text, out[j].text)
WordsHeard == \A c \in Settled : Hearing(c)
WordsComing ==
  Len(up) > 0 =>
    /\ \A k \in 1 .. Len(Current.down) :
         /\ Before(Settled, Current.down[k].text)
         /\ \A c \in Current.down[k].text : Hearing(c)
         /\ \A l \in 1 .. Len(Current.down) :
              k < l => Before(Current.down[k].text, Current.down[l].text)
    /\ \A a \in Current.settled + 1 .. Len(Current.heard) :
         \A c \in Settled \cup Texts(Current.down) : c < Current.heard[a]
WordsInv == WordsTold /\ WordsHeard /\ WordsComing

(* Nothing said, nothing settled: upstreams may hear more, forget their    *)
(* messages, or be followed by a new one.                                  *)
HeardStays ==
  /\ up' \in Seq(UpstreamType)
  /\ \A i \in 1 .. Len(up) :
       /\ i \in 1 .. Len(up')
       /\ \A a \in 1 .. Len(up[i].heard) :
            a \in 1 .. Len(up'[i].heard) /\ up'[i].heard[a] = up[i].heard[a]
SameUpstream ==
  /\ Len(up') = Len(up) /\ Current'.settled = Current.settled
  /\ Current'.down = Current.down \/ Len(Current'.down) = 0
NewerUpstream == Len(up') = Len(up) + 1 /\ Len(Current'.down) = 0
Silent == HeardStays /\ (SameUpstream \/ NewerUpstream) /\ UNCHANGED out

LEMMA TextsOfEmpty == ASSUME NEW d, Len(d) = 0 PROVE Texts(d) = {}
  BY DEF Texts

LEMMA TextsFrom ==
  ASSUME NEW d, NEW c \in Texts(d) PROVE \E i \in 1 .. Len(d) : c \in d[i].text
  BY DEF Texts

LEMMA StillHeard ==
  ASSUME HeardStays, NEW c, Hearing(c)
  PROVE  /\ Hearing(c)'
         /\ \E i \in 1 .. Len(up) : \E a \in 1 .. Len(up[i].heard) :
              up[i].heard[a] = c /\ up'[i].heard[a] = c
              /\ i \in 1 .. Len(up') /\ a \in 1 .. Len(up'[i].heard)
<1>1. PICK i \in 1 .. Len(up) : \E a \in 1 .. Len(up[i].heard) : up[i].heard[a] = c
  BY DEF Hearing
<1>2. PICK a \in 1 .. Len(up[i].heard) : up[i].heard[a] = c
  BY <1>1
<1>3. /\ i \in 1 .. Len(up') /\ a \in 1 .. Len(up'[i].heard) /\ up'[i].heard[a] = c
  BY <1>1, <1>2 DEF HeardStays
<1>4. Hearing(c)'
  BY <1>3 DEF Hearing
<1> QED
  BY <1>1, <1>2, <1>3, <1>4

(* Words on their way are of audio that was heard.                         *)
LEMMA ComingIsHeard ==
  ASSUME WordsInv, Len(up) > 0, NEW c \in Settled \cup Texts(Current.down)
  PROVE  Hearing(c)
<1>1. CASE c \in Settled
  BY <1>1 DEF WordsInv, WordsHeard
<1>2. CASE c \in Texts(Current.down)
  <2>1. PICK k \in 1 .. Len(Current.down) : c \in Current.down[k].text
    BY <1>2, TextsFrom
  <2> QED
    BY <2>1 DEF WordsInv, WordsComing
<1> QED
  BY <1>1, <1>2

LEMMA SilentStep ==
  ASSUME RotatingInv, RotatingInv', WordsInv, Silent
  PROVE  WordsInv'
<1> USE DEF Silent
<1>1. Settled' = Settled /\ \A d : Texts(d)' = Texts(d)
  BY SettledStays DEF Texts
<1>2. WordsTold'
  BY DEF WordsInv, WordsTold, Before
<1>3. WordsHeard'
  BY <1>1, StillHeard DEF WordsInv, WordsHeard
<1>4. Len(up) \in Nat /\ Len(up') \in Nat /\ up \in Seq(UpstreamType) /\ up' \in Seq(UpstreamType)
  BY DEF RotatingInv, Types, DataTypes
<1>5. ASSUME Len(up') > 0, NEW k \in 1 .. Len(Current'.down)
      PROVE  /\ Before(Settled', Current'.down[k].text)
             /\ \A c \in Current'.down[k].text : Hearing(c)'
             /\ \A l \in 1 .. Len(Current'.down) :
                  k < l => Before(Current'.down[k].text, Current'.down[l].text)
  <2>1. Current' \in UpstreamType
    BY <1>4, <1>5 DEF Current
  <2>2. Len(Current'.down) # 0
    BY <1>5
  <2>3. SameUpstream /\ Current'.down = Current.down
    BY <2>2 DEF NewerUpstream, SameUpstream
  <2>4. Len(up) > 0 /\ k \in 1 .. Len(Current.down)
    BY <1>5, <2>3 DEF SameUpstream
  <2>5. /\ Before(Settled, Current.down[k].text)
        /\ \A c \in Current.down[k].text : Hearing(c)
        /\ \A l \in 1 .. Len(Current.down) :
             k < l => Before(Current.down[k].text, Current.down[l].text)
    BY <2>4 DEF WordsInv, WordsComing
  <2>6. \A c \in Current.down[k].text : Hearing(c)'
    BY <2>5, StillHeard
  <2> QED
    BY <1>1, <2>3, <2>5, <2>6
<1>6. ASSUME Len(up') > 0, NEW a \in Current'.settled + 1 .. Len(Current'.heard),
             NEW c \in Settled' \cup Texts(Current'.down)
      PROVE  c < Current'.heard[a]
  <2>1. /\ Current' \in UpstreamType /\ Current' = up'[Len(up')]
        /\ Current'.settled \in Nat /\ Len(Current'.heard) \in Nat
    <3>1. Current' \in UpstreamType /\ Current' = up'[Len(up')]
      BY <1>4, <1>6 DEF Current
    <3> QED
      BY <3>1 DEF UpstreamType
  <2>2. a \in 1 .. Len(Current'.heard) /\ a > Current'.settled
    BY <1>6, <2>1
  <2>3. Hearing(c) /\ (Len(up') = Len(up) => c \in Settled \cup Texts(Current.down))
    <3>1. CASE c \in Settled
      BY <3>1 DEF WordsInv, WordsHeard
    <3>2. CASE c \in Texts(Current'.down)
      <4>1. Len(Current'.down) # 0
        BY <3>2, TextsOfEmpty
      <4>2. SameUpstream /\ Current'.down = Current.down /\ Len(up) > 0
        BY <1>6, <4>1 DEF NewerUpstream, SameUpstream
      <4> QED
        BY <3>2, <4>2, ComingIsHeard
    <3> QED
      BY <1>1, <1>6, <3>1, <3>2
  <2>4. PICK i \in 1 .. Len(up) : \E b \in 1 .. Len(up[i].heard) :
              up[i].heard[b] = c /\ up'[i].heard[b] = c
              /\ i \in 1 .. Len(up') /\ b \in 1 .. Len(up'[i].heard)
    BY <2>3, StillHeard
  <2>5. PICK b \in 1 .. Len(up[i].heard) :
              up[i].heard[b] = c /\ up'[i].heard[b] = c
              /\ i \in 1 .. Len(up') /\ b \in 1 .. Len(up'[i].heard)
    BY <2>4
  <2>6. HeardOnce'
    BY DEF RotatingInv, OrderInv
  <2>7. CASE i < Len(up') \/ (i = Len(up') /\ b < a)
    <3>1. Len(up') \in 1 .. Len(up')
      BY <1>4, <1>6
    <3> QED
      BY <2>1, <2>2, <2>5, <2>6, <2>7, <3>1 DEF HeardOnce
  <2>8. CASE i = Len(up') /\ b >= a
    <3>1. Len(up') = Len(up) /\ i = Len(up)
      BY <1>4, <2>4, <2>8 DEF NewerUpstream, SameUpstream
    <3>2. up[i] = Current /\ Len(Current.heard) \in Nat /\ Current.settled = Current'.settled
      <4>1. Current \in UpstreamType
        BY <1>4, <2>4, <3>1 DEF Current
      <4>2. SameUpstream
        BY <1>4, <3>1 DEF NewerUpstream
      <4> QED
        BY <3>1, <4>1, <4>2 DEF Current, UpstreamType, SameUpstream
    <3>3. a \in 1 .. Len(Current.heard)
      BY <2>2, <2>5, <2>8, <3>2
    <3>4. Current'.heard[a] = Current.heard[a]
      BY <2>1, <3>1, <3>2, <3>3, <2>4 DEF HeardStays
    <3>5. a \in Current.settled + 1 .. Len(Current.heard) /\ Len(up) > 0
      BY <1>6, <2>1, <2>2, <3>1, <3>2, <3>3
    <3>6. c \in Settled \cup Texts(Current.down)
      BY <2>3, <3>1
    <3> QED
      BY <3>4, <3>5, <3>6 DEF WordsInv, WordsComing
  <2> QED
    <3>1. Len(up') \in Nat /\ i \in 1 .. Len(up') /\ a \in Nat /\ b \in Nat
      BY <1>4, <2>2, <2>5
    <3> QED
      BY <2>7, <2>8, <3>1
<1>7. WordsComing'
  BY <1>1, <1>5, <1>6 DEF WordsComing
<1> QED
  BY <1>2, <1>3, <1>7 DEF WordsInv

(* One upstream hears more, or forgets its messages.                       *)
HearsOrForgets(u, v) ==
  /\ v \in UpstreamType /\ v.settled = u.settled
  /\ v.down = u.down \/ Len(v.down) = 0
  /\ \A a \in 1 .. Len(u.heard) : a \in 1 .. Len(v.heard) /\ v.heard[a] = u.heard[a]

LEMMA OneSilent ==
  ASSUME RotatingInv, NEW n \in 1 .. Len(up), NEW v, HearsOrForgets(up[n], v),
         up' = [up EXCEPT ![n] = v], UNCHANGED out
  PROVE  Silent
<1> USE DEF HearsOrForgets
<1>1. up \in Seq(UpstreamType) /\ Len(up) \in Nat /\ Len(up) > 0
  BY DEF RotatingInv, Types, DataTypes
<1>2. /\ up' \in Seq(UpstreamType) /\ Len(up') = Len(up) /\ up'[n] = v
      /\ \A i \in 1 .. Len(up) : i # n => up'[i] = up[i]
  BY <1>1, OneChanged
<1>3. HeardStays
  BY <1>1, <1>2 DEF HeardStays
<1>4. SameUpstream
  <2>1. CASE n = Len(up)
    BY <1>2, <2>1 DEF SameUpstream, Current
  <2>2. CASE n # Len(up)
    <3>1. Len(up) \in 1 .. Len(up)
      BY <1>1
    <3>2. up'[Len(up)] = up[Len(up)]
      BY <1>2, <2>2, <3>1
    <3> QED
      BY <1>2, <3>2 DEF SameUpstream, Current
  <2> QED
    BY <2>1, <2>2
<1> QED
  BY <1>3, <1>4 DEF Silent

LEMMA NobodySilent ==
  ASSUME RotatingInv, UNCHANGED <<up, out>>
  PROVE  Silent
<1>1. up \in Seq(UpstreamType)
  BY DEF RotatingInv, Types, DataTypes
<1> QED
  BY <1>1 DEF Silent, HeardStays, SameUpstream, Current

LEMMA NewSilent ==
  ASSUME RotatingInv, NEW n, NEW more, NewestIs(n, more), up' = Append(up, n), UNCHANGED out
  PROVE  Silent
<1>1. /\ up' \in Seq(UpstreamType) /\ Len(up') = Len(up) + 1
      /\ Len(up) \in Nat /\ Current' = n
      /\ \A i \in 1 .. Len(up) : up'[i] = up[i]
  BY UpGrows
<1> QED
  BY <1>1 DEF Silent, HeardStays, NewerUpstream, NewestIs

LEMMA HeardAfter ==
  ASSUME NEW v \in UpstreamType, NEW w \in UpstreamType, NEW more \in Seq(Nat),
         w.heard = v.heard \o more
  PROVE  \A a \in 1 .. Len(v.heard) : a \in 1 .. Len(w.heard) /\ w.heard[a] = v.heard[a]
<1>1. v.heard \in Seq(Nat)
  BY DEF UpstreamType
<1>2. Len(v.heard) \in Nat /\ Len(more) \in Nat
  BY <1>1
<1> QED
  BY <1>1, <1>2, Joined

LEMMA ShutSilent ==
  ASSUME NEW v \in UpstreamType PROVE HearsOrForgets(v, Shut(v))
  BY ShutFacts DEF HearsOrForgets

LEMMA ToldSilent ==
  ASSUME NEW v \in UpstreamType PROVE HearsOrForgets(v, Told(v))
  BY ToldFacts DEF HearsOrForgets

LEMMA HearsSilent ==
  ASSUME NEW v \in UpstreamType, NEW chunks \in Seq(Nat)
  PROVE  HearsOrForgets(v, Hears(v, chunks)) /\ Hears(v, chunks) \in UpstreamType
<1>1. CASE v.state = "open"
  <2>1. /\ Hears(v, chunks) \in UpstreamType /\ Hears(v, chunks).settled = v.settled
        /\ Hears(v, chunks).down = v.down /\ Hears(v, chunks).heard = v.heard \o chunks
    BY <1>1, HearsFacts
  <2>2. \A a \in 1 .. Len(v.heard) :
          a \in 1 .. Len(Hears(v, chunks).heard) /\ Hears(v, chunks).heard[a] = v.heard[a]
    BY <2>1, HeardAfter
  <2> QED
    BY <2>1, <2>2 DEF HearsOrForgets
<1>2. CASE v.state # "open"
  BY <1>2, HearsFacts DEF HearsOrForgets
<1> QED
  BY <1>1, <1>2

LEMMA UpstreamsHaveTypes ==
  ASSUME RotatingInv
  PROVE  /\ up \in Seq(UpstreamType) /\ Len(up) \in Nat
         /\ \A n \in 1 .. Len(up) : up[n] \in UpstreamType
         /\ pending \in Seq(Nat) /\ ws \in 0 .. Len(up) /\ held \in 0 .. Len(up) /\ sent \in Nat
<1>1. up \in Seq(UpstreamType) /\ pending \in Seq(Nat)
      /\ ws \in 0 .. Len(up) /\ held \in 0 .. Len(up) /\ sent \in Nat
  BY RotatingAssumption DEF RotatingInv, Types, DataTypes
<1> QED
  BY <1>1

LEMMA ReadingIsThere ==
  ASSUME RotatingInv, reader \in {"recv", "flush", "dial", "last", "returned"}
  PROVE  Reading \in 1 .. Len(up) /\ up[Reading] \in UpstreamType /\ Reading = Len(up)
<1>1. Len(up) > 0
  BY DEF RotatingInv, Shape
<1> QED
  BY <1>1, UpstreamsHaveTypes DEF Reading

LEMMA SendsSilently ==
  ASSUME RotatingInv, SendAudio \/ SendFails \/ FinishSends \/ GraceEnds
  PROVE  Silent
<1>1. CASE SendAudio
  <2>1. CASE UNCHANGED up
    BY <1>1, <2>1, NobodySilent DEF SendAudio
  <2>2. CASE ws # 0 /\ up' = [up EXCEPT ![ws] = Hears(@, <<sent + 1>>)]
    <3>1. ws \in 1 .. Len(up) /\ up[ws] \in UpstreamType /\ sent + 1 \in Nat
      BY <2>2, UpstreamsHaveTypes
    <3>2. <<sent + 1>> \in Seq(Nat)
      BY <3>1, JustOne
    <3>3. HearsOrForgets(up[ws], Hears(up[ws], <<sent + 1>>))
      BY <3>1, <3>2, HearsSilent
    <3>4. up' = [up EXCEPT ![ws] = Hears(up[ws], <<sent + 1>>)]
      BY <2>2
    <3> QED
      BY <1>1, <3>1, <3>3, <3>4, OneSilent DEF SendAudio
  <2> QED
    BY <1>1, <2>1, <2>2 DEF SendAudio
<1>2. CASE SendFails
  BY <1>2, NobodySilent DEF SendFails, upVars
<1>3. CASE FinishSends
  <2>1. CASE ws = 0
    BY <1>3, <2>1, NobodySilent DEF FinishSends
  <2>2. CASE ws # 0
    <3>1. ws \in 1 .. Len(up) /\ up[ws] \in UpstreamType /\ pending \in Seq(Nat)
      BY <2>2, UpstreamsHaveTypes
    <3>2. HearsOrForgets(up[ws], Hears(up[ws], pending)) /\ Hears(up[ws], pending) \in UpstreamType
      BY <3>1, HearsSilent
    <3>3. HearsOrForgets(up[ws], Told(Hears(up[ws], pending)))
      BY <3>2, ToldFacts DEF HearsOrForgets
    <3>4. up' = [up EXCEPT ![ws] = Told(Hears(up[ws], pending))]
      BY <1>3, <2>2 DEF FinishSends
    <3> QED
      BY <1>3, <3>1, <3>3, <3>4, OneSilent DEF FinishSends
  <2> QED
    BY <2>1, <2>2
<1>4. CASE GraceEnds
  <2>1. held # 0
    BY <1>4 DEF GraceEnds, RotatingInv, Shape
  <2>2. held \in 1 .. Len(up) /\ up[held] \in UpstreamType
    BY <2>1, UpstreamsHaveTypes
  <2>3. up' = [up EXCEPT ![held] = Shut(up[held])]
    BY <1>4 DEF GraceEnds
  <2>4. HearsOrForgets(up[held], Shut(up[held]))
    BY <2>2, ShutSilent
  <2> QED
    BY <1>4, <2>2, <2>3, <2>4, OneSilent DEF GraceEnds
<1> QED
  BY <1>1, <1>2, <1>3, <1>4

LEMMA RotatesSilently ==
  ASSUME RotatingInv, Rotate \/ ReadsClose \/ FlushEnds \/ Swap \/ DialFails
  PROVE  Silent
<1>told. ASSUME reader = "recv", UNCHANGED out,
               UNCHANGED up \/ up' = [up EXCEPT ![Reading] = Told(@)]
         PROVE  Silent
  <2>1. CASE UNCHANGED up
    BY <1>told, <2>1, NobodySilent
  <2>2. CASE up' = [up EXCEPT ![Reading] = Told(@)]
    <3>1. Reading \in 1 .. Len(up) /\ up[Reading] \in UpstreamType
      BY <1>told, ReadingIsThere
    <3>2. HearsOrForgets(up[Reading], Told(up[Reading]))
      BY <3>1, ToldSilent
    <3>3. up' = [up EXCEPT ![Reading] = Told(up[Reading])]
      BY <2>2
    <3> QED
      BY <1>told, <3>1, <3>2, <3>3, OneSilent
  <2> QED
    BY <1>told, <2>1, <2>2
<1>1. CASE Rotate
  BY <1>1, <1>told DEF Rotate, RotateOrReturn
<1>2. CASE ReadsClose
  BY <1>2, <1>told DEF ReadsClose, RotateOrReturn
<1>3. CASE FlushEnds
  <2>1. Reading \in 1 .. Len(up) /\ up[Reading] \in UpstreamType
    BY <1>3, ReadingIsThere DEF FlushEnds
  <2>2. HearsOrForgets(up[Reading], Shut(up[Reading]))
    BY <2>1, ShutSilent
  <2>3. up' = [up EXCEPT ![Reading] = Shut(up[Reading])]
    BY <1>3 DEF FlushEnds
  <2> QED
    BY <1>3, <2>1, <2>2, <2>3, OneSilent DEF FlushEnds
<1>4. CASE Swap
  <2> DEFINE new == Hears(Upstream, pending)
             n == IF finished THEN Told(new) ELSE new
  <2>1. pending \in Seq(Nat) /\ Upstream \in UpstreamType
    BY UpstreamsHaveTypes, NewUpstream
  <2>2. /\ new \in UpstreamType /\ new.settled = 0 /\ Len(new.down) = 0 /\ new.state = "open"
        /\ new.heard \in Seq(Nat)
    BY <2>1, HearsFacts, NewUpstream DEF UpstreamType
  <2> HIDE DEF new
  <2>3. /\ n \in UpstreamType /\ n.settled = 0 /\ Len(n.down) = 0 /\ n.state = "open"
        /\ n.heard = new.heard
    BY <2>2, ToldFacts
  <2>4. NewestIs(n, new.heard)
    BY <2>2, <2>3 DEF NewestIs
  <2>5. up' = Append(up, n) /\ UNCHANGED out
    BY <1>4 DEF Swap, new
  <2> HIDE DEF n
  <2> QED
    BY <2>4, <2>5, NewSilent
<1>5. CASE DialFails
  BY <1>5, NobodySilent DEF DialFails
<1> QED
  BY <1>1, <1>2, <1>3, <1>4, <1>5

LEMMA GoogleSilently ==
  ASSUME RotatingInv, Enqueue \/ Requests \/ RequestsExpire \/ StreamEnds
  PROVE  Silent
<1>told. ASSUME Alive, UNCHANGED out, NEW v, HearsOrForgets(up[Reading], v),
               up' = [up EXCEPT ![Reading] = v]
         PROVE  Silent
  <2>1. Reading \in 1 .. Len(up)
    BY <1>told, AliveFacts, UpstreamsHaveTypes DEF Reading
  <2> QED
    BY <1>told, <2>1, OneSilent
<1>1. CASE Enqueue
  BY <1>1, NobodySilent DEF Enqueue, upVars
<1>2. CASE Requests
  <2>1. up[Reading] \in UpstreamType
    BY <1>2, AliveFacts DEF Requests, Current, Reading
  <2>2. Head(pending) \in Nat
    BY <1>2, UpstreamsHaveTypes DEF Requests
  <2>3. CASE Head(pending) = END
    <3>1. up' = [up EXCEPT ![Reading] = Told(up[Reading])]
      BY <1>2, <2>3 DEF Requests
    <3>2. HearsOrForgets(up[Reading], Told(up[Reading]))
      BY <2>1, ToldSilent
    <3> QED
      BY <1>2, <1>told, <3>1, <3>2 DEF Requests
  <2>4. CASE Head(pending) # END
    <3>1. up' = [up EXCEPT ![Reading] = Hears(up[Reading], <<Head(pending)>>)]
      BY <1>2, <2>4 DEF Requests
    <3>2. <<Head(pending)>> \in Seq(Nat)
      BY <2>2, JustOne
    <3>3. HearsOrForgets(up[Reading], Hears(up[Reading], <<Head(pending)>>))
      BY <2>1, <3>2, HearsSilent
    <3> QED
      BY <1>2, <1>told, <3>1, <3>3 DEF Requests
  <2> QED
    BY <2>3, <2>4
<1>3. CASE RequestsExpire
  <2>1. up[Reading] \in UpstreamType
    BY <1>3, AliveFacts DEF RequestsExpire, Current, Reading
  <2>2. up' = [up EXCEPT ![Reading] = Told(up[Reading])]
    BY <1>3 DEF RequestsExpire
  <2>3. HearsOrForgets(up[Reading], Told(up[Reading]))
    BY <2>1, ToldSilent
  <2> QED
    BY <1>3, <1>told, <2>2, <2>3 DEF RequestsExpire
<1>4. CASE StreamEnds
  <2>1. CASE UNCHANGED up
    BY <1>4, <2>1, NobodySilent DEF StreamEnds
  <2>2. CASE up' = Append(up, Upstream)
    <3>1. NewestIs(Upstream, Upstream.heard)
      BY NewUpstream, NothingMore DEF NewestIs
    <3> QED
      BY <1>4, <2>2, <3>1, NewSilent DEF StreamEnds
  <2> QED
    BY <1>4, <2>1, <2>2 DEF StreamEnds
<1> QED
  BY <1>1, <1>2, <1>3, <1>4

LEMMA OthersSilently ==
  ASSUME RotatingInv, Connect \/ ConnectFails \/ Finish \/ Breaks \/ UNCHANGED vars
  PROVE  Silent
<1>1. CASE Connect
  <2>1. Len(up) = 0 /\ up \in Seq(UpstreamType)
    BY <1>1, UpstreamsHaveTypes DEF Connect, RotatingInv, Shape
  <2>2. up' = Append(up, Upstream)
    BY <1>1, <2>1 DEF Connect
  <2>3. NewestIs(Upstream, Upstream.heard)
    BY NewUpstream, NothingMore DEF NewestIs
  <2> QED
    BY <1>1, <2>2, <2>3, NewSilent DEF Connect
<1>2. CASE ConnectFails
  BY <1>2, NobodySilent DEF ConnectFails, upVars
<1>3. CASE Finish
  BY <1>3, NobodySilent DEF Finish, upVars
<1>4. CASE Breaks
  <2>1. Reading \in 1 .. Len(up) /\ up[Reading] \in UpstreamType
    BY <1>4, AliveFacts, UpstreamsHaveTypes DEF Breaks, Reading
  <2>2. PICK how \in {"lost"} \cup {s \in {"ok"} : Gemini} : up' = [up EXCEPT ![Reading].state = how]
    BY <1>4 DEF Breaks
  <2> DEFINE v == [up[Reading] EXCEPT !.state = how]
  <2>3. up' = [up EXCEPT ![Reading] = v]
    BY <2>2
  <2>4. how \in {"lost", "ok"}
    BY <2>2
  <2>5. HearsOrForgets(up[Reading], v)
    BY <2>1, <2>4 DEF HearsOrForgets, UpstreamType
  <2> HIDE DEF v
  <2> QED
    BY <1>4, <2>1, <2>3, <2>5, OneSilent DEF Breaks
<1>5. CASE UNCHANGED vars
  BY <1>5, NobodySilent DEF vars
<1> QED
  BY <1>1, <1>2, <1>3, <1>4, <1>5

-----------------------------------------------------------------------------
(* The vendor settles chunks, and says so.                                 *)
NewlySettled(u) == {Current.heard[i] : i \in Current.settled + 1 .. u.settled}
SaysMore(u) ==
  /\ u \in UpstreamType /\ up' = [up EXCEPT ![Len(up)] = u]
  /\ u.heard = Current.heard /\ Current.settled <= u.settled /\ u.settled <= Len(u.heard)
  /\ Len(Current.down) <= Len(u.down)
  /\ \A k \in 1 .. Len(Current.down) : u.down[k] = Current.down[k]
  /\ \A k \in Len(Current.down) + 1 .. Len(u.down) :
       /\ u.down[k].text \subseteq NewlySettled(u)
       /\ \A l \in 1 .. Len(u.down) : k < l => u.down[l].text = {}

LEMMA SameHeard ==
  ASSUME Len(up') = Len(up), \A i \in 1 .. Len(up) : up'[i].heard = up[i].heard
  PROVE  \A c : Hearing(c)' <=> Hearing(c)
  BY DEF Hearing

LEMMA SaysMoreStep ==
  ASSUME RotatingInv, RotatingInv', WordsInv, Len(up) > 0, NEW u, SaysMore(u), UNCHANGED out
  PROVE  WordsInv'
<1> USE DEF SaysMore
<1>1. /\ up' \in Seq(UpstreamType) /\ Len(up') = Len(up) /\ Len(up) \in 1 .. Len(up)
      /\ Current' = u /\ \A i \in 1 .. Len(up) : i # Len(up) => up'[i] = up[i]
      /\ up'[Len(up)] = u
  <2>1. up \in Seq(UpstreamType) /\ Len(up) \in 1 .. Len(up)
    BY CurrentFacts
  <2>2. /\ up' \in Seq(UpstreamType) /\ Len(up') = Len(up) /\ up'[Len(up)] = u
        /\ \A i \in 1 .. Len(up) : i # Len(up) => up'[i] = up[i]
    BY <2>1, OneChanged
  <2> QED
    BY <2>1, <2>2 DEF Current
<1>2. /\ Current \in UpstreamType /\ Current.settled \in Nat /\ Len(Current.heard) \in Nat
      /\ Current.down \in Seq(Message) /\ u.settled \in Nat /\ u.down \in Seq(Message)
      /\ Len(Current.down) \in Nat /\ Len(u.down) \in Nat
  <2>1. Current \in UpstreamType /\ Current.down \in Seq(Message) /\ Len(Current.heard) \in Nat
    BY CurrentFacts
  <2>2. u.down \in Seq(Message)
    BY DEF UpstreamType
  <2> QED
    BY <2>1, <2>2 DEF UpstreamType
<1>3. Settled' = Settled /\ \A d : Texts(d)' = Texts(d)
  BY SettledStays DEF Texts
<1>4. \A c : Hearing(c)' <=> Hearing(c)
  <2>1. \A i \in 1 .. Len(up) : up'[i].heard = up[i].heard
    BY <1>1 DEF Current
  <2> QED
    BY <1>1, <2>1, SameHeard
<1>5. WordsTold' /\ WordsHeard'
  BY <1>3, <1>4 DEF WordsInv, WordsTold, WordsHeard, Before
<1>6. \A a \in Current.settled + 1 .. Len(Current.heard) :
         \A c \in Settled \cup Texts(Current.down) : c < Current.heard[a]
  BY DEF WordsInv, WordsComing
<1>7. \A a, b \in 1 .. Len(Current.heard) : a < b => Current.heard[a] < Current.heard[b]
  BY <1>1 DEF RotatingInv, OrderInv, HeardOnce, Current
<1>8. \A c \in NewlySettled(u) : \E i \in Current.settled + 1 .. u.settled :
         c = Current.heard[i] /\ i \in Current.settled + 1 .. Len(Current.heard)
         /\ i \in 1 .. Len(Current.heard)
  BY <1>2 DEF NewlySettled
<1>9. \A c \in NewlySettled(u) : Hearing(c) /\ \A d \in Settled \cup Texts(Current.down) : d < c
  <2>1. \A i \in 1 .. Len(Current.heard) : Hearing(Current.heard[i])
    BY <1>1 DEF Hearing, Current
  <2> QED
    BY <1>6, <1>8, <2>1
<1>10. ASSUME NEW k \in 1 .. Len(u.down)
       PROVE  /\ Before(Settled, u.down[k].text)
              /\ \A c \in u.down[k].text : Hearing(c)
              /\ \A l \in 1 .. Len(u.down) : k < l => Before(u.down[k].text, u.down[l].text)
  <2>1. CASE k \in 1 .. Len(Current.down)
    <3>1. /\ Before(Settled, Current.down[k].text)
          /\ \A c \in Current.down[k].text : Hearing(c)
          /\ \A l \in 1 .. Len(Current.down) :
               k < l => Before(Current.down[k].text, Current.down[l].text)
      BY <2>1 DEF WordsInv, WordsComing
    <3>2. u.down[k] = Current.down[k] /\ u.down[k].text \subseteq Texts(Current.down)
      BY <2>1, TextsIn
    <3>3. ASSUME NEW l \in 1 .. Len(u.down), k < l
          PROVE  Before(u.down[k].text, u.down[l].text)
      <4>1. CASE l \in 1 .. Len(Current.down)
        BY <3>1, <3>2, <3>3, <4>1
      <4>2. CASE l \notin 1 .. Len(Current.down)
        <5>1. u.down[l].text \subseteq NewlySettled(u)
          BY <1>2, <4>2
        <5> QED
          BY <1>9, <3>2, <5>1 DEF Before
      <4> QED
        BY <4>1, <4>2
    <3> QED
      BY <3>1, <3>2, <3>3
  <2>2. CASE k \notin 1 .. Len(Current.down)
    <3>1. /\ u.down[k].text \subseteq NewlySettled(u)
          /\ \A l \in 1 .. Len(u.down) : k < l => u.down[l].text = {}
      BY <1>2, <2>2
    <3> QED
      BY <1>9, <3>1 DEF Before
  <2> QED
    BY <2>1, <2>2
<1>11. ASSUME NEW a \in u.settled + 1 .. Len(Current.heard), NEW c \in Settled \cup Texts(u.down)
       PROVE  c < Current.heard[a]
  <2>1. a \in Current.settled + 1 .. Len(Current.heard) /\ a \in 1 .. Len(Current.heard)
    BY <1>2
  <2>2. CASE c \in Settled
    BY <1>6, <2>1, <2>2
  <2>3. CASE c \in Texts(u.down)
    <3>1. PICK k \in 1 .. Len(u.down) : c \in u.down[k].text
      BY <2>3, TextsFrom
    <3>2. CASE k \in 1 .. Len(Current.down)
      <4>1. c \in Texts(Current.down)
        BY <3>1, <3>2, TextsIn
      <4> QED
        BY <1>6, <2>1, <4>1
    <3>3. CASE k \notin 1 .. Len(Current.down)
      <4>1. c \in NewlySettled(u)
        BY <1>2, <3>1, <3>3, SMTT(30)
      <4>2. PICK i \in Current.settled + 1 .. u.settled :
              c = Current.heard[i] /\ i \in 1 .. Len(Current.heard)
        BY <1>8, <4>1
      <4>3. i < a
        BY <1>2, <4>2
      <4> QED
        BY <1>7, <2>1, <4>2, <4>3
    <3> QED
      BY <3>2, <3>3
  <2> QED
    BY <2>2, <2>3
<1>12. WordsComing'
  BY <1>1, <1>3, <1>4, <1>10, <1>11 DEF WordsComing
<1> QED
  BY <1>5, <1>12 DEF WordsInv

LEMMA SettlesWords ==
  ASSUME RotatingInv, RotatingInv', WordsInv, Settles PROVE WordsInv'
<1>1. Len(up) > 0
  BY AliveFacts DEF Settles
<1>2. PICK to \in Current.settled + 1 .. Len(Current.heard) :
         up' = [up EXCEPT ![Reading].down = Append(@, Final(up[Reading], to)),
                          ![Reading].settled = to]
  BY DEF Settles, Current, Reading
<1> DEFINE m == Final(Current, to)
           u == [Current EXCEPT !.down = Append(@, m), !.settled = to]
<1>3. m \in Message /\ m.text = {Current.heard[i] : i \in Current.settled + 1 .. to}
  BY <1>1, FinalTimely
<1>4. up' = [up EXCEPT ![Len(up)] = u]
  BY <1>2 DEF Current, Reading
<1> HIDE DEF m
<1>5. /\ Current \in UpstreamType /\ Current.settled \in Nat /\ Len(Current.heard) \in Nat
      /\ Current.down \in Seq(Message)
  BY <1>1, CurrentFacts
<1>6. /\ Append(Current.down, m) \in Seq(Message)
      /\ Len(Append(Current.down, m)) = Len(Current.down) + 1 /\ Len(Current.down) \in Nat
      /\ \A i \in 1 .. Len(Current.down) : Append(Current.down, m)[i] = Current.down[i]
      /\ Append(Current.down, m)[Len(Current.down) + 1] = m
  BY <1>3, <1>5, AfterAppend
<1>7. to \in Nat /\ to <= Len(Current.heard) /\ Current.settled <= to
  BY <1>2, <1>5
<1>8. /\ u \in UpstreamType /\ u.heard = Current.heard /\ u.settled = to
      /\ u.down = Append(Current.down, m)
  BY <1>5, <1>6, <1>7 DEF UpstreamType
<1> HIDE DEF u
<1>9. \A k \in Len(Current.down) + 1 .. Len(u.down) :
        k = Len(Current.down) + 1 /\ Len(u.down) = k /\ u.down[k] = m
  BY <1>6, <1>8
<1>10. \A k \in Len(Current.down) + 1 .. Len(u.down) :
         /\ u.down[k].text \subseteq NewlySettled(u)
         /\ \A l \in 1 .. Len(u.down) : k < l => u.down[l].text = {}
  BY <1>3, <1>8, <1>9 DEF NewlySettled
<1>11. SaysMore(u)
  BY <1>4, <1>6, <1>7, <1>8, <1>10 DEF SaysMore
<1> QED
  BY <1>1, <1>11, SaysMoreStep DEF Settles

LEMMA SaysErrorWords ==
  ASSUME RotatingInv, RotatingInv', WordsInv, SaysError PROVE WordsInv'
<1>1. Len(up) > 0
  BY AliveFacts DEF SaysError
<1> DEFINE m == Signal("error")
           u == [Current EXCEPT !.down = Append(@, m), !.state = "lost"]
<1>2. m \in Message /\ m.text = {}
  BY SignalTimely
<1> HIDE DEF m
<1>3. up' = [up EXCEPT ![Len(up)] = u]
  BY DEF SaysError, Current, Reading, m
<1>4. /\ Current \in UpstreamType /\ Current.settled \in Nat /\ Len(Current.heard) \in Nat
      /\ Current.down \in Seq(Message) /\ Current.settled <= Len(Current.heard)
  BY <1>1, CurrentFacts
<1>5. /\ Append(Current.down, m) \in Seq(Message)
      /\ Len(Append(Current.down, m)) = Len(Current.down) + 1 /\ Len(Current.down) \in Nat
      /\ \A i \in 1 .. Len(Current.down) : Append(Current.down, m)[i] = Current.down[i]
      /\ Append(Current.down, m)[Len(Current.down) + 1] = m
  BY <1>2, <1>4, AfterAppend
<1>6. /\ u \in UpstreamType /\ u.heard = Current.heard /\ u.settled = Current.settled
      /\ u.down = Append(Current.down, m)
  BY <1>4, <1>5 DEF UpstreamType
<1> HIDE DEF u
<1>7. \A k \in Len(Current.down) + 1 .. Len(u.down) :
        k = Len(Current.down) + 1 /\ Len(u.down) = k /\ u.down[k] = m
  BY <1>5, <1>6
<1>8. \A k \in Len(Current.down) + 1 .. Len(u.down) :
        /\ u.down[k].text \subseteq NewlySettled(u)
        /\ \A l \in 1 .. Len(u.down) : k < l => u.down[l].text = {}
  BY <1>2, <1>7
<1>9. SaysMore(u)
  BY <1>3, <1>4, <1>5, <1>6, <1>8 DEF SaysMore
<1> QED
  BY <1>1, <1>9, SaysMoreStep DEF SaysError

LEMMA AnswerWords ==
  ASSUME RotatingInv, Len(up) > 0
  PROVE  \A k \in 1 .. Len(Answer(Current)) :
           /\ Answer(Current)[k].text
                \subseteq {Current.heard[i] : i \in Current.settled + 1 .. Len(Current.heard)}
           /\ \A l \in 1 .. Len(Answer(Current)) : k < l => Answer(Current)[l].text = {}
<1> DEFINE last == Final(Current, Len(Current.heard))
           turn == Signal("turn_end")
<1>1. /\ Current.settled \in Nat /\ Len(Current.heard) \in Nat
      /\ Current.settled <= Len(Current.heard)
  BY CurrentFacts
<1>2. last.text = {Current.heard[i] : i \in Current.settled + 1 .. Len(Current.heard)}
  BY DEF Final
<1>3. turn.text = {}
  BY SignalTimely
<1> DEFINE rest == IF Current.settled = Len(Current.heard) THEN <<>> ELSE <<last>>
           end == IF Gemini THEN <<turn>> ELSE <<>>
<1>4. Answer(Current) = rest \o end
  BY DEF Answer
<1>5. last \in Message \/ Len(rest) = 0
  <2>1. Current.settled # Len(Current.heard) =>
          Len(Current.heard) \in Current.settled + 1 .. Len(Current.heard)
    BY <1>1
  <2> QED
    BY <2>1, FinalTimely
<1>6. turn \in Message
  BY SignalTimely
<1> HIDE DEF last, turn
<1>7. /\ rest \in Seq(Message) /\ Len(rest) \in Nat /\ Len(rest) <= 1
      /\ \A k \in 1 .. Len(rest) : k = 1 /\ rest[k] = last
  <2>1. CASE Current.settled = Len(Current.heard)
    BY <2>1
  <2>2. CASE Current.settled # Len(Current.heard)
    <3>1. rest = <<last>> /\ last \in Message
      BY <1>5, <2>2
    <3> HIDE DEF rest
    <3> QED
      BY <3>1, JustOne
  <2> QED
    BY <2>1, <2>2
<1>8. /\ end \in Seq(Message) /\ Len(end) \in Nat
      /\ \A k \in 1 .. Len(end) : k = 1 /\ Len(end) = 1 /\ end[k] = turn
  <2>1. CASE Gemini
    <3>1. end = <<turn>>
      BY <2>1
    <3> HIDE DEF end
    <3> QED
      BY <1>6, <3>1, JustOne
  <2>2. CASE ~Gemini
    BY <2>2
  <2> QED
    BY <2>1, <2>2
<1> HIDE DEF rest, end
<1>9. PICK answer : answer = Answer(Current)
  OBVIOUS
<1>10. /\ answer \in Seq(Message) /\ Len(answer) = Len(rest) + Len(end)
       /\ \A i \in 1 .. Len(rest) : answer[i] = rest[i]
       /\ \A i \in 1 .. Len(end) : answer[Len(rest) + i] = end[i]
  BY <1>4, <1>7, <1>8, <1>9, Joined
<1>11. ASSUME NEW k \in 1 .. Len(answer)
       PROVE  \/ k = 1 /\ answer[k] = last
              \/ k = Len(answer) /\ answer[k] = turn
  <2>1. CASE k \in 1 .. Len(rest)
    BY <1>7, <1>10, <2>1
  <2>2. CASE k \notin 1 .. Len(rest)
    <3>1. k = Len(rest) + 1 /\ 1 \in 1 .. Len(end) /\ Len(end) = 1
      <4>1. Len(end) # 0
        BY <1>7, <1>8, <1>10, <2>2
      <4>2. 1 \in 1 .. Len(end)
        BY <1>8, <4>1
      <4>3. Len(end) = 1
        BY <1>8, <4>2
      <4> QED
        BY <1>7, <1>8, <1>10, <2>2, <4>2, <4>3
    <3>2. answer[Len(rest) + 1] = end[1] /\ end[1] = turn
      <4>1. PICK i \in 1 .. Len(end) : i = 1
        BY <3>1
      <4>2. answer[Len(rest) + i] = end[i] /\ end[i] = turn
        BY <1>8, <1>10
      <4> QED
        BY <4>1, <4>2
    <3>3. Len(answer) = Len(rest) + 1
      BY <1>10, <3>1
    <3> QED
      BY <3>1, <3>2, <3>3
  <2> QED
    BY <2>1, <2>2
<1>12. ASSUME NEW k \in 1 .. Len(answer)
       PROVE  /\ answer[k].text
                   \subseteq {Current.heard[i] : i \in Current.settled + 1 .. Len(Current.heard)}
              /\ \A l \in 1 .. Len(answer) : k < l => answer[l].text = {}
  <2>1. answer[k].text
          \subseteq {Current.heard[i] : i \in Current.settled + 1 .. Len(Current.heard)}
    BY <1>2, <1>3, <1>11
  <2>2. ASSUME NEW l \in 1 .. Len(answer), k < l PROVE answer[l].text = {}
    <3>1. l # 1
      BY <1>10, <2>2
    <3> QED
      BY <1>3, <1>11, <3>1
  <2> QED
    BY <2>1, <2>2
<1> QED
  BY <1>9, <1>12

LEMMA AnswersWords ==
  ASSUME RotatingInv, RotatingInv', WordsInv, Answers PROVE WordsInv'
<1>1. Len(up) > 0
  BY AliveFacts DEF Answers
<1>2. PICK answer : answer = Answer(Current)
  OBVIOUS
<1> DEFINE down == Current.down \o answer
           u == [Current EXCEPT !.down = Current.down \o answer,
                                !.settled = Len(Current.heard), !.eos = FALSE,
                                !.state = IF Google THEN "shut" ELSE @]
<1>3. up' = [up EXCEPT ![Len(up)] = u]
  BY <1>2 DEF Answers, Current, Reading
<1>4. answer \in Seq(Message)
  BY <1>1, <1>2, AnswerFacts
<1>5. \A k \in 1 .. Len(answer) :
        /\ answer[k].text
             \subseteq {Current.heard[i] : i \in Current.settled + 1 .. Len(Current.heard)}
        /\ \A l \in 1 .. Len(answer) : k < l => answer[l].text = {}
  BY <1>1, <1>2, AnswerWords
<1>6. /\ Current \in UpstreamType /\ Current.settled \in Nat /\ Len(Current.heard) \in Nat
      /\ Current.down \in Seq(Message) /\ Current.settled <= Len(Current.heard)
  BY <1>1, CurrentFacts
<1>7. /\ down \in Seq(Message) /\ Len(down) = Len(Current.down) + Len(answer)
      /\ Len(Current.down) \in Nat /\ Len(answer) \in Nat
      /\ \A i \in 1 .. Len(Current.down) : down[i] = Current.down[i]
      /\ \A i \in 1 .. Len(answer) : down[Len(Current.down) + i] = answer[i]
  BY <1>4, <1>6, Joined
<1>8. /\ u \in UpstreamType /\ u.heard = Current.heard /\ u.settled = Len(Current.heard)
      /\ u.down = down
  <2> HIDE DEF down
  <2>1. u = [Current EXCEPT !.down = down, !.settled = Len(Current.heard), !.eos = FALSE,
                            !.state = IF Google THEN "shut" ELSE @]
    BY DEF down
  <2> HIDE DEF u
  <2> QED
    BY <1>6, <1>7, <2>1 DEF UpstreamType
<1> HIDE DEF u, down
<1>9. \A k \in Len(Current.down) + 1 .. Len(down) :
        /\ k - Len(Current.down) \in 1 .. Len(answer)
        /\ down[k] = answer[k - Len(Current.down)]
  <2>1. \A n, l \in Nat : \A k \in n + 1 .. n + l : k - n \in 1 .. l /\ n + (k - n) = k
    OBVIOUS
  <2>2. \A k \in Len(Current.down) + 1 .. Len(down) :
          k - Len(Current.down) \in 1 .. Len(answer) /\ Len(Current.down) + (k - Len(Current.down)) = k
    BY <1>7, <2>1
  <2> QED
    BY <1>7, <2>2
<1>10. \A k \in Len(Current.down) + 1 .. Len(u.down) :
         /\ u.down[k].text \subseteq NewlySettled(u)
         /\ \A l \in 1 .. Len(u.down) : k < l => u.down[l].text = {}
  <2> SUFFICES ASSUME NEW k \in Len(Current.down) + 1 .. Len(u.down)
               PROVE  /\ u.down[k].text \subseteq NewlySettled(u)
                      /\ \A l \in 1 .. Len(u.down) : k < l => u.down[l].text = {}
    OBVIOUS
  <2>1. u.down[k].text \subseteq NewlySettled(u)
    BY <1>5, <1>8, <1>9 DEF NewlySettled
  <2>2. ASSUME NEW l \in 1 .. Len(u.down), k < l PROVE u.down[l].text = {}
    <3>1. l \in Len(Current.down) + 1 .. Len(down)
      BY <1>7, <1>8, <2>2
    <3>2. k - Len(Current.down) < l - Len(Current.down)
      BY <1>7, <1>8, <2>2
    <3> QED
      BY <1>5, <1>8, <1>9, <3>1, <3>2
  <2> QED
    BY <2>1, <2>2
<1>11. Len(Current.down) <= Len(u.down) /\ \A k \in 1 .. Len(Current.down) : u.down[k] = Current.down[k]
  BY <1>7, <1>8
<1>12. u.settled <= Len(u.heard) /\ Current.settled <= u.settled
  BY <1>6, <1>8
<1>13. SaysMore(u)
  BY <1>3, <1>8, <1>10, <1>11, <1>12 DEF SaysMore
<1> QED
  BY <1>1, <1>13, SaysMoreStep DEF Answers

-----------------------------------------------------------------------------
(* The reader takes a message, and tells its words.                        *)
TakesHead(u, end) ==
  /\ u \in UpstreamType /\ up' = [up EXCEPT ![Len(up)] = u] /\ Len(Current.down) > 0
  /\ u.heard = Current.heard /\ u.settled = Current.settled
  /\ u.down = Tail(Current.down) \/ Len(u.down) = 0
  /\ end \in Int
  /\ out' = IF Head(Current.down).kind = "final"
            THEN Append(out, [text |-> Head(Current.down).text, end |-> end]) ELSE out

LEMMA SettledIsOut ==
  ASSUME RotatingInv, NEW i \in 1 .. Len(out), NEW c \in out[i].text
  PROVE  c \in Settled
<1>1. out \in Seq(FinalType)
  BY DEF RotatingInv, Types, DataTypes
<1>2. out[i] \in Range(out)
  BY <1>1, RangeOf
<1> QED
  BY <1>2 DEF Settled

LEMMA TakesHeadStep ==
  ASSUME RotatingInv, RotatingInv', WordsInv, Len(up) > 0, NEW u, NEW end, TakesHead(u, end)
  PROVE  WordsInv'
<1> USE DEF TakesHead
<1>1. /\ Len(up') = Len(up) /\ Len(up) \in 1 .. Len(up) /\ Current' = u
      /\ \A i \in 1 .. Len(up) : up'[i].heard = up[i].heard
  <2>1. up \in Seq(UpstreamType) /\ Len(up) \in 1 .. Len(up)
    BY CurrentFacts
  <2>2. /\ up' \in Seq(UpstreamType) /\ Len(up') = Len(up) /\ up'[Len(up)] = u
        /\ \A i \in 1 .. Len(up) : i # Len(up) => up'[i] = up[i]
    BY <2>1, OneChanged
  <2> QED
    BY <2>1, <2>2 DEF Current
<1>2. /\ Current.down \in Seq(Message) /\ Current \in UpstreamType /\ out \in Seq(FinalType)
  BY CurrentFacts DEF RotatingInv, Types, DataTypes
<1>3. PICK m : m = Head(Current.down)
  OBVIOUS
<1>4. /\ m \in Message /\ m = Current.down[1] /\ Len(Current.down) \in Nat
      /\ Len(Tail(Current.down)) = Len(Current.down) - 1
      /\ \A i \in 1 .. Len(Current.down) - 1 : Tail(Current.down)[i] = Current.down[i + 1]
      /\ Texts(Current.down) = Texts(Tail(Current.down)) \cup m.text
      /\ MessageTimely(m)
  BY <1>3, HeadFacts
<1>5. \A c : Hearing(c)' <=> Hearing(c)
  BY <1>1, SameHeard
<1>6. \A d : Texts(d)' = Texts(d)
  BY DEF Texts
<1>7. 1 \in 1 .. Len(Current.down)
  BY <1>4
<1>8. /\ Before(Settled, m.text) /\ \A c \in m.text : Hearing(c)
      /\ \A l \in 1 .. Len(Current.down) : 1 < l => Before(m.text, Current.down[l].text)
  BY <1>4, <1>7 DEF WordsInv, WordsComing
<1>9. Settled' \subseteq Settled \cup m.text
  <2>1. CASE m.kind = "final"
    <3> DEFINE e == [text |-> m.text, end |-> end]
    <3>1. e \in FinalType /\ e.text = m.text
      BY <1>4, MessageFacts DEF FinalType
    <3>2. out' = Append(out, e)
      BY <1>3, <2>1
    <3> HIDE DEF e
    <3> QED
      BY <1>2, <3>1, <3>2, SettledGrows
  <2>2. CASE m.kind # "final"
    BY <1>3, <2>2, SettledStays
  <2> QED
    BY <2>1, <2>2
<1>10. WordsTold'
  <2>1. CASE m.kind = "final"
    <3> DEFINE e == [text |-> m.text, end |-> end]
    <3>1. e \in FinalType /\ e.text = m.text
      BY <1>4, MessageFacts DEF FinalType
    <3>2. out' = Append(out, e)
      BY <1>3, <2>1
    <3> HIDE DEF e
    <3>3. /\ Len(out') = Len(out) + 1 /\ Len(out) \in Nat
          /\ \A i \in 1 .. Len(out) : out'[i] = out[i]
          /\ out'[Len(out) + 1] = e
      BY <1>2, <3>1, <3>2, AfterAppend
    <3>4. ASSUME NEW i \in 1 .. Len(out'), NEW j \in 1 .. Len(out'), i < j
          PROVE  Before(out'[i].text, out'[j].text)
      <4>1. i \in 1 .. Len(out) /\ out'[i] = out[i]
        BY <3>3, <3>4
      <4>2. CASE j \in 1 .. Len(out)
        BY <3>3, <3>4, <4>1, <4>2 DEF WordsInv, WordsTold
      <4>3. CASE j = Len(out) + 1
        <5>1. out'[j].text = m.text
          BY <3>1, <3>3, <4>3
        <5>2. \A c \in out[i].text : c \in Settled
          BY <4>1, SettledIsOut
        <5> QED
          BY <1>8, <4>1, <5>1, <5>2 DEF Before
      <4> QED
        BY <3>3, <4>2, <4>3
    <3> QED
      BY <3>4 DEF WordsTold, Before
  <2>2. CASE m.kind # "final"
    BY <1>3, <2>2 DEF WordsInv, WordsTold, Before
  <2> QED
    BY <2>1, <2>2
<1>11. WordsHeard'
  BY <1>5, <1>8, <1>9 DEF WordsInv, WordsHeard
<1>12. \A k \in 1 .. Len(u.down) : /\ k + 1 \in 1 .. Len(Current.down)
                                   /\ u.down[k] = Current.down[k + 1]
  <2>1. CASE u.down = Tail(Current.down)
    <3>1. \A n \in Nat : \A k \in 1 .. n - 1 : k + 1 \in 1 .. n
      OBVIOUS
    <3>2. Len(u.down) = Len(Current.down) - 1
      BY <1>4, <2>1
    <3> QED
      BY <1>4, <2>1, <3>1, <3>2
  <2>2. CASE Len(u.down) = 0
    BY <2>2
  <2> QED
    BY <2>1, <2>2
<1>13. ASSUME NEW k \in 1 .. Len(u.down)
       PROVE  /\ Before(Settled', u.down[k].text)
              /\ \A c \in u.down[k].text : Hearing(c)
              /\ \A l \in 1 .. Len(u.down) : k < l => Before(u.down[k].text, u.down[l].text)
  <2>1. PICK n \in 1 .. Len(Current.down) : n = k + 1 /\ u.down[k] = Current.down[n]
    BY <1>12
  <2>2. /\ Before(Settled, Current.down[n].text)
        /\ \A c \in Current.down[n].text : Hearing(c)
        /\ \A l \in 1 .. Len(Current.down) :
             n < l => Before(Current.down[n].text, Current.down[l].text)
    BY <2>1 DEF WordsInv, WordsComing
  <2>3. 1 < n
    BY <2>1
  <2>4. Before(m.text, Current.down[n].text)
    BY <1>8, <2>3
  <2>5. Before(Settled', u.down[k].text)
    BY <1>9, <2>1, <2>2, <2>4 DEF Before
  <2>6. ASSUME NEW l \in 1 .. Len(u.down), k < l PROVE Before(u.down[k].text, u.down[l].text)
    <3>1. PICK o \in 1 .. Len(Current.down) : o = l + 1 /\ u.down[l] = Current.down[o]
      BY <1>12
    <3>2. n < o
      BY <2>1, <2>6, <3>1
    <3> QED
      BY <2>1, <2>2, <3>1, <3>2
  <2> QED
    BY <2>1, <2>2, <2>5, <2>6
<1>14. Settled' \cup Texts(u.down) \subseteq Settled \cup Texts(Current.down)
  <2>1. Texts(u.down) \subseteq Texts(Current.down)
    BY <1>4, TextsOfEmpty
  <2> QED
    BY <1>4, <1>9, <2>1
<1>15. \A a \in u.settled + 1 .. Len(u.heard) :
         \A c \in Settled' \cup Texts(u.down) : c < u.heard[a]
  BY <1>14 DEF WordsInv, WordsComing
<1>16. WordsComing'
  <2>1. \A S, T : Before(S, T)' <=> Before(S, T)
    BY DEF Before
  <2> QED
    BY <1>1, <1>5, <1>6, <1>13, <1>15 DEF WordsComing, Before
<1> QED
  BY <1>10, <1>11, <1>16 DEF WordsInv

LEMMA ReadingWords ==
  ASSUME RotatingInv, RotatingInv', WordsInv, Receive \/ Respond \/ FlushReads
  PROVE  WordsInv'
<1>1. Len(up) > 0 /\ Current.down # <<>> /\ Down = Current.down
  <2>1. Down # <<>> /\ reader \in {"recv", "flush", "last"}
    BY DEF Receive, Respond, FlushReads
  <2> QED
    BY <2>1 DEF RotatingInv, Shape, Down, Current, Reading
<1>2. PICK v : v = [Current EXCEPT !.down = Tail(Current.down)]
  OBVIOUS
<1>3. /\ Len(Current.down) > 0 /\ v \in UpstreamType /\ v.heard = Current.heard
      /\ v.settled = Current.settled /\ v.down = Tail(Current.down)
      /\ [up EXCEPT ![Reading].down = Tail(@)] = [up EXCEPT ![Len(up)] = v]
  BY <1>1, <1>2, ReadFacts
<1>4. Head(Current.down).end \in Int /\ offset \in Nat
  <2>1. Head(Current.down) \in Message
    BY <1>1, <1>3, HeadFacts
  <2> QED
    BY <2>1, MessageFacts DEF RotatingInv, Types, DataTypes
<1>5. CASE Receive
  <2>1. TakesHead(v, Head(Current.down).end)
    BY <1>1, <1>3, <1>4, <1>5 DEF TakesHead, Receive
  <2> QED
    BY <1>1, <2>1, TakesHeadStep
<1>6. CASE Respond
  <2>1. offset + Head(Current.down).end \in Int
    BY <1>4
  <2>2. TakesHead(v, offset + Head(Current.down).end)
    BY <1>1, <1>3, <1>6, <2>1 DEF TakesHead, Respond
  <2> QED
    BY <1>1, <2>2, TakesHeadStep
<1>7. CASE FlushReads
  <2>1. CASE Head(Current.down).kind = "final"
    <3>1. TakesHead(v, Head(Current.down).end)
      BY <1>1, <1>3, <1>4, <1>7, <2>1 DEF TakesHead, FlushReads
    <3> QED
      BY <1>1, <3>1, TakesHeadStep
  <2>2. CASE Head(Current.down).kind # "final"
    <3>1. up' = [[up EXCEPT ![Reading].down = Tail(@)] EXCEPT ![Reading] = Shut(@)]
      BY <1>1, <1>7, <2>2 DEF FlushReads
    <3>2. up \in Seq(UpstreamType) /\ Len(up) \in 1 .. Len(up)
      BY <1>1, CurrentFacts
    <3>3. up' = [[up EXCEPT ![Len(up)] = v] EXCEPT ![Len(up)] = Shut(@)]
      BY <1>3, <3>1 DEF Reading
    <3>4. [up EXCEPT ![Len(up)] = v][Len(up)] = v
      BY <3>2
    <3>5. up' = [up EXCEPT ![Len(up)] = Shut(v)]
      BY <3>3, <3>4
    <3>6. HearsOrForgets(v, Shut(v))
      BY <1>3, ShutSilent
    <3>7. TakesHead(Shut(v), Head(Current.down).end)
      BY <1>1, <1>3, <1>4, <1>7, <2>2, <3>5, <3>6, ShutFacts
         DEF TakesHead, FlushReads, HearsOrForgets
    <3> QED
      BY <1>1, <3>7, TakesHeadStep
  <2> QED
    BY <2>1, <2>2
<1> QED
  BY <1>5, <1>6, <1>7

LEMMA InitWords == Init => WordsInv
<1> SUFFICES ASSUME Init PROVE WordsInv
  OBVIOUS
<1>1. Len(up) = 0 /\ Len(out) = 0 /\ out = <<>>
  BY DEF Init
<1>2. Range(out) = {}
  BY <1>1 DEF Range
<1>3. Settled = {}
  BY <1>2 DEF Settled
<1> QED
  BY <1>1, <1>3 DEF WordsInv, WordsTold, WordsHeard, WordsComing

LEMMA StepWords ==
  ASSUME RotatingInv, WordsInv, [Next]_vars PROVE WordsInv'
<1>1. RotatingInv'
  BY StepInv
<1>2. CASE Silent
  BY <1>1, <1>2, SilentStep
<1>3. CASE Settles \/ Answers \/ SaysError
  BY <1>1, <1>3, SettlesWords, AnswersWords, SaysErrorWords
<1>4. CASE Receive \/ Respond \/ FlushReads
  BY <1>1, <1>4, ReadingWords
<1> QED
  BY <1>2, <1>3, <1>4, SendsSilently, RotatesSilently, GoogleSilently, OthersSilently
     DEF Next, GeminiNext, GoogleNext, VendorNext

LEMMA InvWords ==
  ASSUME RotatingInv, WordsInv PROVE WordsInOrder
<1>1. out \in Seq(FinalType)
  BY DEF RotatingInv, Types, DataTypes
<1> QED
  BY <1>1 DEF WordsInv, WordsTold, WordsInOrder, Before

-----------------------------------------------------------------------------
(* The contract of base.py: stages, audio and words.                       *)
StageInv == (feeder = "feeding" => ~finished) /\ (reader = "returned" => finished)
ServedInv == RotatingInv /\ WordsInv /\ StageInv

LEMMA StageStep ==
  ASSUME RotatingInv, StageInv, [Next]_vars PROVE StageInv'
<1>1. Shape /\ PendingInOrder /\ pending \in Seq(Nat)
  BY DEF RotatingInv, OrderInv, Types, DataTypes
<1>2. CASE Connect
  BY <1>2 DEF Connect, StageInv, feedVars
<1>3. CASE ConnectFails
  BY <1>3 DEF ConnectFails, StageInv
<1>4. CASE SendAudio \/ FinishSends \/ GraceEnds
  BY <1>4 DEF SendAudio, FinishSends, GraceEnds, StageInv, upVars
<1>5. CASE SendFails \/ DialFails
  BY <1>5 DEF SendFails, DialFails, StageInv, Cancelled
<1>6. CASE Finish
  BY <1>6 DEF Finish, StageInv
<1>7. CASE Receive \/ Respond
  BY <1>7 DEF Receive, Respond, StageInv, Cancelled
<1>8. CASE Rotate \/ ReadsClose
  BY <1>8 DEF Rotate, ReadsClose, RotateOrReturn, StageInv, Cancelled, feedVars
<1>9. CASE FlushReads \/ FlushEnds \/ Swap
  BY <1>9 DEF FlushReads, FlushEnds, Swap, StageInv, feedVars
<1>10. CASE Enqueue \/ RequestsExpire
  BY <1>10 DEF Enqueue, RequestsExpire, StageInv, feedVars, upVars
<1>11. CASE Requests
  <2>1. Head(pending) = END => feeder = "done"
    <3>1. pending # <<>> /\ Head(pending) = pending[1] /\ Len(pending) \in Nat
      BY <1>1, <1>11 DEF Requests
    <3>2. 1 \in 1 .. Len(pending)
      BY <1>1, <3>1
    <3> QED
      BY <1>1, <3>1, <3>2 DEF PendingInOrder
  <2> QED
    BY <1>11, <2>1 DEF Requests, StageInv
<1>12. CASE StreamEnds
  BY <1>12 DEF StreamEnds, StageInv, Cancelled
<1>13. CASE VendorNext
  <2>1. UNCHANGED <<feeder, reader, finished>>
    BY <1>13 DEF VendorNext, Settles, Answers, Breaks, SaysError, feedVars
  <2> QED
    BY <2>1 DEF StageInv
<1>14. CASE UNCHANGED vars
  BY <1>14 DEF vars, StageInv
<1> QED
  BY <1>2, <1>3, <1>4, <1>5, <1>6, <1>7, <1>8, <1>9, <1>10, <1>11, <1>12, <1>13, <1>14
     DEF Next, GeminiNext, GoogleNext

(* The words told are of audio that was handed over, so are those to come. *)
LEMMA HeardWasSent == ASSUME RotatingInv, NEW c, Hearing(c) PROVE c \in 1 .. sent
  BY DEF RotatingInv, OrderInv, HeardBeforePending, Hearing

LEMMA SettledWasSent == ASSUME RotatingInv, WordsInv PROVE Settled \subseteq 1 .. sent
  BY HeardWasSent DEF WordsInv, WordsHeard

(* A message of the contract: what it tells is new.                        *)
LEMMA ReadingSays ==
  ASSUME RotatingInv, WordsInv, Receive \/ Respond \/ FlushReads
  PROVE  Contract!Says
<1>1. Len(up) > 0 /\ Down = Current.down /\ Current.down # <<>>
  <2>1. Down # <<>> /\ reader \in {"recv", "flush", "last"}
    BY DEF Receive, Respond, FlushReads
  <2> QED
    BY <2>1 DEF RotatingInv, Shape, Down, Current, Reading
<1>2. Len(Current.down) > 0 /\ out \in Seq(FinalType) /\ offset \in Nat
  <2>1. Current.down \in Seq(Message)
    BY <1>1, CurrentFacts
  <2> QED
    BY <1>1, <2>1 DEF RotatingInv, Types, DataTypes
<1>3. PICK m : m = Head(Current.down)
  OBVIOUS
<1>4. m \in Message /\ m = Current.down[1] /\ Len(Current.down) \in Nat
  BY <1>1, <1>2, <1>3, HeadFacts
<1>5. m.text \subseteq 1 .. sent /\ \A c \in Settled, d \in m.text : c < d
  <2>1. 1 \in 1 .. Len(Current.down)
    BY <1>2, <1>4
  <2>2. Before(Settled, m.text) /\ \A c \in m.text : Hearing(c)
    BY <1>1, <1>4, <2>1 DEF WordsInv, WordsComing
  <2> QED
    BY <2>2, HeardWasSent DEF Before
<1>6. m.text \in SUBSET ((1 .. sent) \ Settled)
  <2>1. \A d \in m.text : d \in Nat /\ ~(d < d)
    BY <1>5
  <2> QED
    BY <1>5, <2>1
<1>7. \E end \in Int :
        out' = IF m.kind = "final" THEN Append(out, [text |-> m.text, end |-> end]) ELSE out
  <2>1. m.end \in Int /\ offset + m.end \in Int
    BY <1>2, <1>4, MessageFacts
  <2> QED
    BY <1>1, <1>3, <2>1 DEF Receive, Respond, FlushReads
<1>8. CASE m.kind = "final"
  <2>1. PICK end \in Int : out' = Append(out, [text |-> m.text, end |-> end])
    BY <1>7, <1>8
  <2> DEFINE e == [text |-> m.text, end |-> end]
  <2>2. e \in FinalType /\ e.text = m.text
    BY <1>4, MessageFacts DEF FinalType
  <2>3. out' = Append(out, e)
    BY <2>1
  <2> HIDE DEF e
  <2>4. Settled' = Settled \cup m.text
    BY <1>2, <2>2, <2>3, SettledGrows
  <2> QED
    BY <1>6, <2>4 DEF Contract!Says
<1>9. CASE m.kind # "final"
  <2>1. Settled' = Settled
    BY <1>7, <1>9, SettledStays
  <2>2. Settled' = Settled \cup {} /\ {} \in SUBSET ((1 .. sent) \ Settled)
    BY <2>1
  <2> QED
    BY <2>2 DEF Contract!Says
<1> QED
  BY <1>8, <1>9

(* Each step of the adapter is one of the contract, or the contract does   *)
(* not see it.                                                             *)
ContractStep ==
  \/ Contract!Readied \/ Contract!Feed \/ Contract!Speak \/ Contract!Finish
  \/ Contract!Exhaust \/ Contract!Fail \/ UNCHANGED Contract!contractVars

LEMMA QuietContract ==
  ASSUME UNCHANGED <<reader, finished, sent, out>> PROVE ContractStep
<1>1. Settled' = Settled
  BY SettledStays
<1>2. Stage' = Stage
  BY DEF Stage, Over
<1> QED
  BY <1>1, <1>2 DEF ContractStep, Contract!contractVars

(* events() ends or goes on with what it read.                             *)
LEMMA ReaderContract ==
  ASSUME StageInv, reader \in Readers, reader \in {"recv", "flush", "dial", "last"},
         reader' \in {"recv", "flush", "dial", "last", "returned", "raised"},
         reader' = "returned" => finished,
         Contract!Says, reader' = "raised" => UNCHANGED out, UNCHANGED <<sent, finished>>
  PROVE  ContractStep
<1>1. Stage \in {"ready", "finished"} /\ (finished => Stage = "finished")
  BY DEF Stage, Over
<1>2. CASE reader' = "returned"
  <2>1. Stage' = "exhausted" /\ Stage = "finished"
    BY <1>1, <1>2 DEF Stage
  <2> QED
    BY <2>1 DEF ContractStep, Contract!Exhaust
<1>3. CASE reader' = "raised"
  <2>1. Stage' = "failed" /\ Settled' = Settled
    BY <1>3, SettledStays DEF Stage, Over
  <2> QED
    BY <1>1, <2>1 DEF ContractStep, Contract!Fail
<1>4. CASE reader' \in {"recv", "flush", "dial", "last"}
  <2>1. Stage' = Stage
    BY <1>4 DEF Stage, Over
  <2> QED
    BY <1>1, <2>1 DEF ContractStep, Contract!Speak
<1> QED
  BY <1>2, <1>3, <1>4

LEMMA NothingSaid == ASSUME UNCHANGED out PROVE Contract!Says
<1>1. Settled' = Settled \cup {} /\ {} \in SUBSET ((1 .. sent) \ Settled)
  BY SettledStays
<1> QED
  BY <1>1 DEF Contract!Says

LEMMA StepIsOfContract ==
  ASSUME ServedInv, [Next]_vars PROVE ContractStep
<1> USE DEF ServedInv
<1>1. reader \in Readers /\ Shape /\ sent \in Nat
  BY RotatingAssumption DEF RotatingInv, Types, ControlTypes, DataTypes
<1>feeding. Feeding => Stage = "ready" /\ reader \in {"recv", "flush", "dial", "last"}
  BY <1>1 DEF Feeding, StageInv, Shape, Stage, Over, Readers
<1>2. CASE Connect
  <2>1. ~finished
    BY <1>1, <1>2 DEF Connect, Shape, StageInv
  <2>2. Stage = "new" /\ Stage' = "ready" /\ UNCHANGED <<sent, out>>
    BY <1>2, <2>1 DEF Connect, Stage, Over, feedVars
  <2> QED
    BY <2>2, SettledStays DEF ContractStep, Contract!Readied
<1>3. CASE ConnectFails
  <2>1. Stage = "new" /\ Stage' = "failed" /\ UNCHANGED <<sent, out>>
    BY <1>3 DEF ConnectFails, Stage, Over
  <2> QED
    BY <2>1, SettledStays DEF ContractStep, Contract!Fail
<1>4. CASE SendAudio \/ Enqueue
  <2>1. Feeding /\ sent' = sent + 1 /\ UNCHANGED <<reader, finished, out>>
    BY <1>4 DEF SendAudio, Enqueue
  <2>2. Stage' = Stage
    BY <2>1 DEF Stage, Over
  <2> QED
    BY <1>feeding, <2>1, <2>2, SettledStays DEF ContractStep, Contract!Feed
<1>5. CASE SendFails
  <2>1. Stage = "ready" /\ Stage' = "failed" /\ UNCHANGED <<sent, out>>
    BY <1>5, <1>feeding DEF SendFails, Stage, Over
  <2> QED
    BY <2>1, SettledStays DEF ContractStep, Contract!Fail
<1>6. CASE Finish
  <2>1. Stage' = "finished" /\ UNCHANGED <<sent, out>> /\ Stage = "ready"
    BY <1>6, <1>feeding DEF Finish, Stage, Over
  <2> QED
    BY <2>1, SettledStays DEF ContractStep, Contract!Finish
<1>7. CASE FinishSends \/ GraceEnds
  BY <1>7, QuietContract DEF FinishSends, GraceEnds
<1>8. CASE Requests
  <2>1. Head(pending) = END => feeder = "done"
    <3>1. PendingInOrder /\ pending \in Seq(Nat)
      BY DEF RotatingInv, OrderInv, Types, DataTypes
    <3>2. Head(pending) = pending[1] /\ 1 \in 1 .. Len(pending)
      BY <1>8, <3>1 DEF Requests
    <3> QED
      BY <3>1, <3>2 DEF PendingInOrder
  <2>2. feeder = "done" => finished
    BY <1>1 DEF Shape
  <2>3. finished' = finished
    <3>1. finished \in BOOLEAN
      BY DEF RotatingInv, Types, ControlTypes
    <3> QED
      BY <1>8, <2>1, <2>2, <3>1 DEF Requests
  <2> QED
    BY <1>8, <2>3, QuietContract DEF Requests
<1>9. CASE RequestsExpire \/ VendorNext \/ UNCHANGED vars
  BY <1>9, QuietContract
     DEF RequestsExpire, VendorNext, Settles, Answers, Breaks, SaysError, feedVars, vars
<1>10. CASE Receive \/ Respond \/ FlushReads
  <2>1. Contract!Says
    BY <1>10, ReadingSays
  <2>2. /\ reader \in {"recv", "flush", "dial", "last"} /\ UNCHANGED <<sent, finished>>
        /\ reader' \in {"recv", "flush", "dial", "last", "returned", "raised"}
        /\ (reader' = "returned" => finished) /\ (reader' = "raised" => UNCHANGED out)
    BY <1>10 DEF Receive, Respond, FlushReads, feedVars
  <2> QED
    BY <1>1, <2>1, <2>2, ReaderContract
<1>11. CASE Rotate \/ ReadsClose \/ FlushEnds \/ Swap \/ DialFails \/ StreamEnds
  <2>1. /\ reader \in {"recv", "flush", "dial", "last"} /\ UNCHANGED <<sent, finished, out>>
        /\ reader' \in {"recv", "flush", "dial", "last", "returned", "raised"}
        /\ (reader' = "returned" => finished)
    BY <1>11 DEF Rotate, ReadsClose, RotateOrReturn, FlushEnds, Swap, DialFails, StreamEnds, feedVars
  <2> QED
    BY <1>1, <2>1, NothingSaid, ReaderContract
<1> QED
  BY <1>2, <1>3, <1>4, <1>5, <1>6, <1>7, <1>8, <1>9, <1>10, <1>11
     DEF Next, GeminiNext, GoogleNext

LEMMA InitServed == Init => ServedInv
<1>1. Init => StageInv
  BY DEF Init, StageInv
<1> QED
  BY <1>1, InitInv, InitWords DEF ServedInv

LEMMA StepServed == ServedInv /\ [Next]_vars => ServedInv'
  BY StepInv, StepWords, StageStep DEF ServedInv

(* Both rotating adapters keep the contract of providers/base.py: audio is *)
(* taken once connect() returned and until finish(), a final tells words   *)
(* that were fed and not told before, and events() exhausts after finish() *)
(* only.  That it does is liveness, and TLC's.                             *)
THEOREM RotationKeepsTheContract == Spec => Contract!ContractSpec
<1>1. Init => Contract!New
  <2> SUFFICES ASSUME Init PROVE Contract!New
    OBVIOUS
  <2>1. out = <<>> /\ sent = 0 /\ Stage = "new"
    BY DEF Init, Stage, Over
  <2>2. Settled = {}
    BY <2>1 DEF Settled, Range
  <2> QED
    BY <2>1, <2>2 DEF Contract!New
<1>2. ServedInv /\ [Next]_vars =>
        [Contract!Readied \/ Contract!Feed \/ Contract!Speak \/ Contract!Finish
           \/ Contract!Exhaust \/ Contract!Fail]_Contract!contractVars
  BY StepIsOfContract DEF ContractStep
<1> QED
  BY <1>1, <1>2, InitServed, StepServed, PTL DEF Spec, Contract!ContractSpec

(* Whatever the vendor and the client do, however often the adapter swaps   *)
(* its upstream, however small its buffer: no chunk is lost, doubled or out *)
(* of order, what a replaced upstream heard was said before the next one    *)
(* was opened, unless it broke or a wait of the adapter ran out, words come *)
(* in order and once, and Google's times are those of the whole session,    *)
(* not of one stream.                                                       *)
THEOREM EveryRotationIsSeamless == Spec => []RotationIsSeamless
<1>1. ServedInv => RotationIsSeamless
  BY InvTypes, InvOrder, InvNothingLost, InvTails, InvTimes, InvWords
     DEF ServedInv, RotationIsSeamless
<1> QED
  BY InitServed, StepServed, <1>1, PTL DEF Spec
=============================================================================
