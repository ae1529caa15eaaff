--------------------------- MODULE NativeSpeakProofs ---------------------------
(***************************************************************************)
(* What TLAPS proves about NativeSpeak, for any amount of text, any number *)
(* of barge-ins, and answers to them that come late: a barge-in is clean.  *)
(***************************************************************************)
EXTENDS NativeSpeak, SequenceTheorems, TLAPS

(* The types in full.                                                      *)
Message == [kind : {"text", "clear", "done"}, n : Int]
Event == [kind : {"audio", "cleared", "done", "error"}, n : Int]
Told ==
  [kind : {"audio.chunk"}, seq : Int, text : Int] \cup [kind : {"audio"}, text : Int]
    \cup [kind : {"cleared"}, last_seq : Int, clear : Int]
    \cup [kind : {"session.open", "done", "error"}]

NativeTypes ==
  /\ stream \in Streams /\ run \in {"opening", "running", "done", "over"}
  /\ reader \in {"recv", "clearing", "acked", "returned", "failed"}
  /\ pump \in {"recv", "sending", "ended", "failed", "left"}
  /\ clearing \in BOOLEAN /\ finalized \in BOOLEAN /\ dropping \in BOOLEAN
  /\ cleared \in BOOLEAN /\ finishing \in BOOLEAN
  /\ socket \in {"open", "ok", "lost"}
  /\ seq \in Int /\ sent \in Int /\ texts \in Int /\ offset \in Int
  /\ upward \in Seq(Message) /\ downward \in Seq(Event) /\ todo \in Seq(Int)
  /\ out \in Seq(Told)
  /\ clears \in Seq([texts : Int, alone : BOOLEAN, at : Int])

UsageInv ==
  Len(usage) = IF run = "over" THEN 1 ELSE 0

(* Texts go one way and in order: to the vendor, through what it has yet to *)
(* voice, back as audio, and past the session, which has counted no more    *)
(* chunks than there were texts.                                            *)
UpText(i) == i \in 1 .. Len(upward) /\ upward[i].kind = "text"
TodoText(i) == i \in 1 .. Len(todo) /\ todo[i] # End
DownText(i) == i \in 1 .. Len(downward) /\ downward[i].kind = "audio"
UpClear(i) == i \in 1 .. Len(upward) /\ upward[i].kind = "clear"
DownCleared(i) == i \in 1 .. Len(downward) /\ downward[i].kind = "cleared"
UpDone(i) == i \in 1 .. Len(upward) /\ upward[i].kind = "done"
TodoDone(i) == i \in 1 .. Len(todo) /\ todo[i] = End
DownDone(i) == i \in 1 .. Len(downward) /\ downward[i].kind = "done"

CountsInv == 0 <= sent /\ sent <= seq /\ seq <= texts /\ texts <= MaxTexts
UpOrder ==
  \A i \in Int : UpText(i) =>
    /\ seq < upward[i].n /\ upward[i].n <= texts
    /\ \A j \in Int : UpText(j) /\ i < j => upward[i].n < upward[j].n
TodoOrder ==
  \A i \in Int : TodoText(i) =>
    /\ seq < todo[i] /\ todo[i] <= texts
    /\ \A j \in Int : TodoText(j) /\ i < j => todo[i] < todo[j]
DownOrder ==
  \A i \in Int : DownText(i) =>
    /\ seq < downward[i].n /\ downward[i].n <= texts
    /\ \A j \in Int : DownText(j) /\ i < j => downward[i].n < downward[j].n
DownTodo == \A i, j \in Int : DownText(i) /\ TodoText(j) => downward[i].n < todo[j]
DownUp == \A i, j \in Int : DownText(i) /\ UpText(j) => downward[i].n < upward[j].n
TodoUp == \A i, j \in Int : TodoText(i) /\ UpText(j) => todo[i] < upward[j].n

OrderInv == CountsInv /\ UpOrder /\ TodoOrder /\ DownOrder /\ DownTodo /\ DownUp /\ TodoUp

(* The frames: chunks are numbered in order up to seq, all of them sent but *)
(* the one in the hands of _pump(), whose header is the last frame unless   *)
(* an error came after it.                                                  *)
IsChunk(i) == i \in 1 .. Len(out) /\ out[i].kind = "audio.chunk"
IsAudio(i) == i \in 1 .. Len(out) /\ out[i].kind = "audio"
IsCleared(i) == i \in 1 .. Len(out) /\ out[i].kind = "cleared"
IsDone(i) == i \in 1 .. Len(out) /\ out[i].kind = "done"

OpeningInv == run = "opening" => out = <<>>
SentInv == pump \in {"recv", "ended", "failed"} => sent = seq
ChunksInv ==
  \A i \in Int : IsChunk(i) =>
    /\ out[i].seq <= seq
    /\ \A j \in Int : IsChunk(j) /\ i < j => out[i].seq < out[j].seq
HeaderInv == pump = "sending" => \E i \in Int : IsChunk(i) /\ out[i].seq = seq
LastInv == IsChunk(Len(out)) => pump \in {"sending", "left"}
DoneInv == \A i \in Int : IsDone(i) => pump = "ended"
ClearedInv ==
  \A i \in Int : IsCleared(i) =>
    /\ out[i].last_seq <= sent /\ out[i].clear \in 1 .. Len(clears)
    /\ \A j \in Int : IsChunk(j) => (j < i <=> out[j].seq <= out[i].last_seq)
PairsInv ==
  \A i \in Int : IsChunk(i) /\ i < Len(out) => out[i + 1].kind \in {"audio", "error"}
AckedInv == reader \in {"clearing", "acked"} => clears # <<>>

FramesInv ==
  /\ OpeningInv /\ SentInv /\ ChunksInv /\ HeaderInv /\ LastInv /\ DoneInv /\ ClearedInv /\ PairsInv
  /\ AckedInv

(* The answers the stream waits for: to the first "clear" that the vendor   *)
(* has not read, or the first "cleared" that audio() has not.               *)
FirstClear(p) == UpClear(p) /\ \A q \in Int : UpClear(q) => p <= q
FirstCleared(p) == DownCleared(p) /\ \A q \in Int : DownCleared(q) => p <= q
NoCleared == \A q \in Int : ~DownCleared(q)

(* A clear k that was taken when no other was unanswered: the stream drops  *)
(* until its answer comes, and what is behind the answer is new.            *)
NewUp(p, k) == \A i \in Int : UpText(i) /\ p < i => clears[k].texts < upward[i].n
NewTodo(k) == \A i \in Int : TodoText(i) => clears[k].texts < todo[i]
NewDown(p, k) == \A i \in Int : DownText(i) /\ p < i => clears[k].texts < downward[i].n

Unread(k) == dropping /\ NoCleared /\ \E p \in Int : FirstClear(p) /\ NewUp(p, k)
OnItsWay(k) ==
  dropping /\ NewUp(0, k) /\ NewTodo(k) /\ \E p \in Int : FirstCleared(p) /\ NewDown(p, k)
Deaf == dropping /\ NoCleared /\ socket # "open"
Passed(k) == NewUp(0, k) /\ NewTodo(k) /\ NewDown(0, k)

AnswerInv ==
  \A k \in 1 .. Len(clears) :
    clears[k].alone => Unread(k) \/ OnItsWay(k) \/ Deaf \/ Passed(k)
BarrierInv ==
  \A i, j \in Int :
    IsCleared(i) /\ IsChunk(j) /\ i < j /\ clears[out[i].clear].alone =>
      clears[out[i].clear].texts < out[j].text

(* What is noted of a clear: texts there were, and a growing offset.        *)
NotesInv ==
  /\ \A k \in 1 .. Len(clears) : clears[k].texts <= texts
  /\ stream = "flux" =>
       /\ \A i \in 1 .. Len(clears) : clears[i].at <= offset
       /\ \A i, j \in 1 .. Len(clears) : i < j => clears[i].at < clears[j].at

(* What was not cleared is not lost: only what was said before the last     *)
(* clear is dropped, thrown away by the vendor, or cut off by the end.      *)
ClearingInv == (clearing <=> reader = "clearing") /\ (clearing => texts <= LastCleared)
DroppingInv ==
  dropping /\ socket = "open" => \E p \in Int : UpClear(p) \/ DownCleared(p)
OldBeforeClear ==
  \A p \in Int : UpClear(p) =>
    /\ \A i \in Int : UpText(i) /\ i < p => upward[i].n <= LastCleared
    /\ \A i \in Int : TodoText(i) => todo[i] <= LastCleared
    /\ \A i \in Int : DownText(i) => downward[i].n <= LastCleared
OldBeforeCleared ==
  \A p \in Int : DownCleared(p) => \A i \in Int : DownText(i) /\ i < p => downward[i].n <= LastCleared

DropsInv == ClearingInv /\ DroppingInv /\ OldBeforeClear /\ OldBeforeCleared

(* Behind the end of the text there is no text.                             *)
UpEnds == \A p \in Int : UpDone(p) => finalized /\ \A i \in Int : UpText(i) => i < p
TodoEnds ==
  \A p \in Int : TodoDone(p) => finalized /\ \A i \in Int : ~UpText(i) /\ (TodoText(i) => i < p)
DownEnds ==
  \A p \in Int : DownDone(p) =>
    finalized /\ \A i \in Int : ~UpText(i) /\ ~TodoText(i) /\ (DownText(i) => i < p)
PumpEnds ==
  pump = "ended" /\ socket = "open" =>
    finalized /\ \A i \in Int : ~UpText(i) /\ ~TodoText(i) /\ ~DownText(i)

EndInv == UpEnds /\ TodoEnds /\ DownEnds /\ PumpEnds

Heard(t) == \E i \in Int : IsAudio(i) /\ out[i].text = t
Sending(t) == pump = "sending" /\ \E i \in Int : IsChunk(i) /\ out[i].seq = seq /\ out[i].text = t
InPipe(t) ==
  \/ \E i \in Int : UpText(i) /\ upward[i].n = t
  \/ \E i \in Int : TodoText(i) /\ todo[i] = t
  \/ \E i \in Int : DownText(i) /\ downward[i].n = t

PendingInv ==
  socket = "open" /\ pump # "left" =>
    \A t \in Int : LastCleared < t /\ t <= texts => Heard(t) \/ Sending(t) \/ InPipe(t)

NativeInv ==
  /\ NativeTypes /\ UsageInv /\ OrderInv /\ FramesInv /\ AnswerInv /\ BarrierInv /\ NotesInv
  /\ DropsInv /\ EndInv /\ PendingInv

----------------------------------------------------------------------------
USE DEF taskVars, sessionVars, streamVars, clientVars, vendorVars

(* Queues.                                                                 *)
LEMMA AfterAppend ==
  ASSUME NEW S, NEW s \in Seq(S), NEW x \in S
  PROVE  /\ Append(s, x) \in Seq(S) /\ Len(s) \in Nat /\ Len(Append(s, x)) = Len(s) + 1
         /\ \A i \in 1 .. Len(s) : Append(s, x)[i] = s[i]
         /\ Append(s, x)[Len(s) + 1] = x
BY AppendProperties, LenProperties

LEMMA AfterTail ==
  ASSUME NEW S, NEW s \in Seq(S), s # <<>>
  PROVE  /\ Len(s) \in Nat /\ 1 <= Len(s) /\ Head(s) = s[1] /\ s[1] \in S
         /\ Tail(s) \in Seq(S) /\ Len(Tail(s)) = Len(s) - 1
         /\ \A i \in 1 .. Len(s) - 1 : Tail(s)[i] = s[i + 1]
<1>1. Len(s) \in Nat /\ Len(s) # 0
  BY LenProperties, EmptySeq
<1> QED
  BY <1>1, HeadTailProperties, ElementOfSeq

(* What a step does to the queues.                                         *)
LEMMA UpAppended ==
  ASSUME upward \in Seq(Message), NEW m \in Message, upward' = Append(upward, m)
  PROVE  /\ upward' \in Seq(Message) /\ Len(upward) \in Nat /\ Len(upward)' = Len(upward) + 1
         /\ \A i \in 1 .. Len(upward) : upward'[i] = upward[i]
         /\ upward'[Len(upward) + 1] = m
         /\ \A i \in Int : UpText(i)' <=> UpText(i) \/ (i = Len(upward) + 1 /\ m.kind = "text")
         /\ \A i \in Int : UpText(i) => i <= Len(upward) /\ upward'[i] = upward[i]
         /\ \A i \in Int : UpText(i)' =>
              \/ UpText(i) /\ i < Len(upward) + 1 /\ upward'[i] = upward[i]
              \/ i = Len(upward) + 1 /\ m.kind = "text" /\ upward'[i] = m
<1>1. /\ upward' \in Seq(Message) /\ Len(upward) \in Nat /\ Len(upward)' = Len(upward) + 1
      /\ \A i \in 1 .. Len(upward) : upward'[i] = upward[i]
      /\ upward'[Len(upward) + 1] = m
  BY AfterAppend
<1> QED
  BY <1>1 DEF UpText

LEMMA UpTaken ==
  ASSUME upward \in Seq(Message), upward # <<>>, upward' = Tail(upward)
  PROVE  /\ upward' \in Seq(Message) /\ Len(upward) \in Nat /\ Len(upward)' = Len(upward) - 1
         /\ 1 <= Len(upward) /\ Head(upward) = upward[1] /\ upward[1] \in Message
         /\ \A i \in 1 .. Len(upward) - 1 : upward'[i] = upward[i + 1]
         /\ \A i \in Int : UpText(i)' <=> 1 <= i /\ UpText(i + 1)
         /\ \A i \in Int : UpText(i)' => upward'[i] = upward[i + 1]
         /\ \A i \in Int : UpText(i)' => 1 < i + 1 /\ UpText(i + 1) /\ upward'[i] = upward[i + 1]
<1>1. /\ upward' \in Seq(Message) /\ Len(upward) \in Nat /\ Len(upward)' = Len(upward) - 1
      /\ 1 <= Len(upward) /\ Head(upward) = upward[1] /\ upward[1] \in Message
      /\ \A i \in 1 .. Len(upward) - 1 : upward'[i] = upward[i + 1]
  BY AfterTail
<1> QED
  BY <1>1 DEF UpText

LEMMA TodoAppended ==
  ASSUME todo \in Seq(Int), NEW t \in Int, todo' = Append(todo, t)
  PROVE  /\ todo' \in Seq(Int) /\ Len(todo) \in Nat /\ Len(todo)' = Len(todo) + 1
         /\ \A i \in 1 .. Len(todo) : todo'[i] = todo[i]
         /\ todo'[Len(todo) + 1] = t
         /\ \A i \in Int : TodoText(i)' <=> TodoText(i) \/ (i = Len(todo) + 1 /\ t # End)
         /\ \A i \in Int : TodoText(i) => i <= Len(todo) /\ todo'[i] = todo[i]
         /\ \A i \in Int : TodoText(i)' =>
              \/ TodoText(i) /\ i < Len(todo) + 1 /\ todo'[i] = todo[i]
              \/ i = Len(todo) + 1 /\ t # End /\ todo'[i] = t
<1>1. /\ todo' \in Seq(Int) /\ Len(todo) \in Nat /\ Len(todo)' = Len(todo) + 1
      /\ \A i \in 1 .. Len(todo) : todo'[i] = todo[i]
      /\ todo'[Len(todo) + 1] = t
  BY AfterAppend
<1> QED
  BY <1>1 DEF TodoText

LEMMA TodoTaken ==
  ASSUME todo \in Seq(Int), todo # <<>>, todo' = Tail(todo)
  PROVE  /\ todo' \in Seq(Int) /\ Len(todo) \in Nat /\ Len(todo)' = Len(todo) - 1
         /\ 1 <= Len(todo) /\ Head(todo) = todo[1] /\ todo[1] \in Int
         /\ \A i \in 1 .. Len(todo) - 1 : todo'[i] = todo[i + 1]
         /\ \A i \in Int : TodoText(i)' <=> 1 <= i /\ TodoText(i + 1)
         /\ \A i \in Int : TodoText(i)' => todo'[i] = todo[i + 1]
         /\ \A i \in Int : TodoText(i)' => 1 < i + 1 /\ TodoText(i + 1) /\ todo'[i] = todo[i + 1]
<1>1. /\ todo' \in Seq(Int) /\ Len(todo) \in Nat /\ Len(todo)' = Len(todo) - 1
      /\ 1 <= Len(todo) /\ Head(todo) = todo[1] /\ todo[1] \in Int
      /\ \A i \in 1 .. Len(todo) - 1 : todo'[i] = todo[i + 1]
  BY AfterTail
<1> QED
  BY <1>1 DEF TodoText

LEMMA DownAppended ==
  ASSUME downward \in Seq(Event), NEW e \in Event, downward' = Append(downward, e)
  PROVE  /\ downward' \in Seq(Event) /\ Len(downward) \in Nat /\ Len(downward)' = Len(downward) + 1
         /\ \A i \in 1 .. Len(downward) : downward'[i] = downward[i]
         /\ downward'[Len(downward) + 1] = e
         /\ \A i \in Int : DownText(i)' <=> DownText(i) \/ (i = Len(downward) + 1 /\ e.kind = "audio")
         /\ \A i \in Int : DownText(i) => i <= Len(downward) /\ downward'[i] = downward[i]
         /\ \A i \in Int : DownText(i)' =>
              \/ DownText(i) /\ i < Len(downward) + 1 /\ downward'[i] = downward[i]
              \/ i = Len(downward) + 1 /\ e.kind = "audio" /\ downward'[i] = e
<1>1. /\ downward' \in Seq(Event) /\ Len(downward) \in Nat /\ Len(downward)' = Len(downward) + 1
      /\ \A i \in 1 .. Len(downward) : downward'[i] = downward[i]
      /\ downward'[Len(downward) + 1] = e
  BY AfterAppend
<1> QED
  BY <1>1 DEF DownText

LEMMA DownTaken ==
  ASSUME downward \in Seq(Event), downward # <<>>, downward' = Tail(downward)
  PROVE  /\ downward' \in Seq(Event) /\ Len(downward) \in Nat /\ Len(downward)' = Len(downward) - 1
         /\ 1 <= Len(downward) /\ Head(downward) = downward[1] /\ downward[1] \in Event
         /\ \A i \in 1 .. Len(downward) - 1 : downward'[i] = downward[i + 1]
         /\ \A i \in Int : DownText(i)' <=> 1 <= i /\ DownText(i + 1)
         /\ \A i \in Int : DownText(i)' => downward'[i] = downward[i + 1]
         /\ \A i \in Int : DownText(i)' => 1 < i + 1 /\ DownText(i + 1) /\ downward'[i] = downward[i + 1]
<1>1. /\ downward' \in Seq(Event) /\ Len(downward) \in Nat /\ Len(downward)' = Len(downward) - 1
      /\ 1 <= Len(downward) /\ Head(downward) = downward[1] /\ downward[1] \in Event
      /\ \A i \in 1 .. Len(downward) - 1 : downward'[i] = downward[i + 1]
  BY AfterTail
<1> QED
  BY <1>1 DEF DownText

LEMMA OutAppended ==
  ASSUME out \in Seq(Told), NEW f \in Told, out' = Append(out, f)
  PROVE  /\ out' \in Seq(Told) /\ Len(out) \in Nat /\ Len(out)' = Len(out) + 1
         /\ \A i \in 1 .. Len(out) : out'[i] = out[i]
         /\ out'[Len(out) + 1] = f
BY AfterAppend

----------------------------------------------------------------------------
(* What the actions send is of the types.                                  *)
LEMMA Sent ==
  ASSUME NativeTypes
  PROVE  /\ \A n \in Int : [kind |-> "text", n |-> n] \in Message /\ [kind |-> "clear", n |-> n] \in Message
         /\ Signal("done") \in Message /\ Signal("done") \in Event /\ Signal("error") \in Event
         /\ \A n \in Int : [kind |-> "cleared", n |-> n] \in Event /\ [kind |-> "audio", n |-> n] \in Event
         /\ \A n, t \in Int : Header(n, t) \in Told /\ Audio(t) \in Told /\ Cleared(n) \in Told
         /\ \A kind \in {"session.open", "done", "error"} : Frame(kind) \in Told
<1>1. Len(clears) \in Int
  BY LenProperties DEF NativeTypes
<1> QED
  BY <1>1 DEF Message, Event, Told, Signal, Header, Audio, Cleared, Frame

(* The pair in the hands of _pump() has one header.                        *)
LEMMA HeaderOfPair ==
  ASSUME NativeTypes, FramesInv, PumpSent
  PROVE  \E i \in Int : /\ IsChunk(i) /\ out[i].seq = seq /\ out[i].text \in Int
                       /\ out' = Append(out, Audio(out[i].text))
<1> DEFINE P(j) == j \in DOMAIN out /\ out[j].kind = "audio.chunk" /\ out[j].seq = seq
<1>1. DOMAIN out = 1 .. Len(out) /\ Len(out) \in Nat
  BY LenProperties DEF NativeTypes
<1>2. \E j \in DOMAIN out : out[j].kind = "audio.chunk" /\ out[j].seq = seq
  BY <1>1 DEF FramesInv, HeaderInv, PumpSent, IsChunk
<1>3. PICK i \in DOMAIN out : /\ out[i].kind = "audio.chunk" /\ out[i].seq = seq
                             /\ out' = Append(out, Audio(out[i].text))
  BY <1>2 DEF PumpSent
<1>4. out[i] \in Told
  BY <1>1, <1>3, ElementOfSeq DEF NativeTypes
<1>5. out[i].text \in Int
  BY <1>3, <1>4 DEF Told
<1> QED
  BY <1>1, <1>3, <1>5 DEF IsChunk

LEMMA TypesStep == NativeTypes /\ FramesInv /\ [Next]_vars => NativeTypes'
<1> SUFFICES ASSUME NativeTypes, FramesInv, [Next]_vars PROVE NativeTypes'
  OBVIOUS
<1>1. CASE Open
  <2>1. out' \in Seq(Told)
    BY <1>1, Sent DEF Open
  <2> QED
    BY <1>1, <2>1 DEF Open, NativeTypes
<1>2. CASE OpenFails
  <2>1. out' \in Seq(Told)
    BY <1>2, Sent DEF OpenFails
  <2> QED
    BY <1>2, <2>1 DEF OpenFails, Ends, NativeTypes
<1>3. CASE DecideByPump
  <2>1. \/ run' = "done" /\ out' = Append(out, Frame("done"))
        \/ run' = "over" /\ out' = Append(out, Frame("error"))
        \/ run' = "over" /\ UNCHANGED out
    BY <1>3 DEF DecideByPump, Ends
  <2>2. out' \in Seq(Told)
    BY <2>1, Sent, OutAppended DEF NativeTypes
  <2> QED
    BY <1>3, <2>1, <2>2 DEF DecideByPump, NativeTypes
<1>4. CASE DecideByOther
  <2>1. run' = "over" /\ (out' = Append(out, Frame("error")) \/ UNCHANGED out)
    BY <1>4 DEF DecideByOther, Ends
  <2>2. out' \in Seq(Told)
    BY <2>1, Sent, OutAppended DEF NativeTypes
  <2> QED
    BY <1>4, <2>1, <2>2 DEF DecideByOther, NativeTypes
<1>5. CASE Finish \/ Trip
  BY <1>5 DEF Finish, Ends, Trip, NativeTypes
<1>6. CASE ReadText
  <2>1. texts + 1 \in Int
    BY DEF NativeTypes
  <2>2. \/ upward' = Append(upward, [kind |-> "text", n |-> texts + 1]) /\ UNCHANGED reader
        \/ reader' = "failed" /\ UNCHANGED upward
    BY <1>6 DEF ReadText, Sends
  <2>3. upward' \in Seq(Message)
    BY <2>1, <2>2, Sent, UpAppended DEF NativeTypes
  <2> QED
    BY <1>6, <2>1, <2>2, <2>3 DEF ReadText, NativeTypes
<1>7. CASE ReadFinalize
  <2>1. upward' \in Seq(Message) /\ reader' \in {reader, "failed"} /\ finishing' \in BOOLEAN
    BY <1>7, Sent, UpAppended DEF ReadFinalize, Sends, NativeTypes
  <2> QED
    BY <1>7, <2>1 DEF ReadFinalize, NativeTypes
<1>8. CASE ReadClear
  <2>1. PICK asked \in (IF stream = "flux" THEN {0, sent} ELSE {0}) :
          /\ clears' = Append(clears, [texts |-> texts, alone |-> Alone, at |-> NextOffset(asked)])
          /\ offset' \in {offset, NextOffset(asked)}
          /\ \/ /\ upward' = Append(upward, [kind |-> "clear", n |-> NextOffset(asked)])
                /\ clearing' = TRUE /\ reader' = "clearing"
             \/ reader' = "failed" /\ UNCHANGED <<upward, clearing>>
    BY <1>8 DEF ReadClear, Sends
  <2>2. NextOffset(asked) \in Int
    BY DEF NextOffset, NativeTypes
  <2>3. clears' \in Seq([texts : Int, alone : BOOLEAN, at : Int])
    <3>1. [texts |-> texts, alone |-> Alone, at |-> NextOffset(asked)] \in [texts : Int, alone : BOOLEAN, at : Int]
      BY <2>2 DEF NativeTypes, Alone
    <3> QED
      BY <2>1, <3>1, AfterAppend DEF NativeTypes
  <2>4. upward' \in Seq(Message)
    BY <2>1, <2>2, Sent, UpAppended DEF NativeTypes
  <2>5. offset' \in Int /\ clearing' \in BOOLEAN /\ reader' \in {"clearing", "failed"}
    BY <2>1, <2>2 DEF NativeTypes
  <2> QED
    BY <1>8, <2>3, <2>4, <2>5 DEF ReadClear, NativeTypes
<1>9. CASE ReadDisconnect \/ ClearAnswered \/ PumpLeft
  BY <1>9 DEF ReadDisconnect, ClearAnswered, PumpLeft, NativeTypes
<1>10. CASE SayCleared
  <2>1. reader' \in {"returned", "recv"} /\ (out' = Append(out, Cleared(sent)) \/ UNCHANGED out)
    BY <1>10 DEF SayCleared
  <2>2. out' \in Seq(Told)
    BY <2>1, Sent, OutAppended DEF NativeTypes
  <2> QED
    BY <1>10, <2>1, <2>2 DEF SayCleared, NativeTypes
<1>11. CASE PumpAudio
  <2>1. downward' \in Seq(Event) /\ Head(downward).n \in Int
    BY <1>11, DownTaken DEF PumpAudio, Pumping, NativeTypes, Event
  <2>2. \/ UNCHANGED <<pump, seq, out>>
        \/ pump' = "sending" /\ seq' = seq + 1 /\ out' = Append(out, Header(seq + 1, Head(downward).n))
    BY <1>11 DEF PumpAudio
  <2>3. out' \in Seq(Told) /\ seq' \in Int
    <3>1. seq + 1 \in Int
      BY DEF NativeTypes
    <3>2. Header(seq + 1, Head(downward).n) \in Told
      BY <2>1, <3>1, Sent
    <3> QED
      BY <2>2, <3>1, <3>2, OutAppended DEF NativeTypes
  <2>4. pump' \in {pump, "sending"}
    BY <2>2
  <2> QED
    BY <1>11, <2>1, <2>3, <2>4 DEF PumpAudio, NativeTypes
<1>12. CASE PumpSent
  <2>1. out' \in Seq(Told)
    BY <1>12, HeaderOfPair, Sent, OutAppended DEF NativeTypes
  <2> QED
    BY <1>12, <2>1 DEF PumpSent, NativeTypes
<1>13. CASE PumpAck
  <2>1. downward' \in Seq(Event)
    BY <1>13, DownTaken DEF PumpAck, Pumping, NativeTypes
  <2> QED
    BY <1>13, <2>1, ZenonT(30) DEF PumpAck, Answered, NativeTypes
<1>14. CASE PumpDone
  <2>1. downward' \in Seq(Event)
    BY <1>14, DownTaken DEF PumpDone, Pumping, NativeTypes
  <2>2. pump' \in {pump, "ended"} /\ cleared' \in BOOLEAN
    BY <1>14 DEF PumpDone, AudioEnds, NativeTypes
  <2> QED
    BY <1>14, <2>1, <2>2 DEF PumpDone, NativeTypes
<1>15. CASE PumpError
  <2>1. downward' \in Seq(Event)
    BY <1>15, DownTaken DEF PumpError, Pumping, NativeTypes
  <2> QED
    BY <1>15, <2>1 DEF PumpError, AudioEnds, NativeTypes
<1>16. CASE PumpClosed
  <2>1. pump' \in {"ended", "failed"} /\ cleared' = TRUE
    BY <1>16 DEF PumpClosed, AudioEnds
  <2> QED
    BY <1>16, <2>1 DEF PumpClosed, NativeTypes
<1>17. CASE VendorReads
  <2>1. /\ upward' \in Seq(Message) /\ Head(upward).n \in Int
        /\ Head(upward).kind \in {"text", "done", "clear"}
    BY <1>17, UpTaken DEF VendorReads, NativeTypes, Message
  <2>2. \/ todo' = Append(todo, Head(upward).n) /\ UNCHANGED downward
        \/ todo' = Append(todo, End) /\ UNCHANGED downward
        \/ /\ todo' \in {<<End>>, <<>>}
           /\ downward' = Append(downward, [kind |-> "cleared", n |-> Head(upward).n])
    BY <1>17, <2>1 DEF VendorReads
  <2>3. End \in Int /\ <<End>> \in Seq(Int) /\ <<>> \in Seq(Int)
    BY DEF End
  <2>4. todo' \in Seq(Int)
    BY <2>1, <2>2, <2>3, TodoAppended DEF NativeTypes
  <2>5. downward' \in Seq(Event)
    BY <2>1, <2>2, Sent, DownAppended DEF NativeTypes
  <2> QED
    BY <1>17, <2>1, <2>4, <2>5 DEF VendorReads, NativeTypes
<1>18. CASE VendorVoices
  <2>1. todo' \in Seq(Int) /\ Head(todo) \in Int
    BY <1>18, TodoTaken DEF VendorVoices, NativeTypes
  <2>2. (IF Head(todo) = End THEN Signal("done") ELSE [kind |-> "audio", n |-> Head(todo)]) \in Event
    BY <2>1, Sent
  <2>3. downward' \in Seq(Event)
    BY <1>18, <2>2, DownAppended DEF VendorVoices, NativeTypes
  <2> QED
    BY <1>18, <2>1, <2>3 DEF VendorVoices, NativeTypes
<1>19. CASE VendorBreaks
  <2>1. downward' \in Seq(Event) /\ socket' \in {"ok", "lost"}
    BY <1>19, Sent, DownAppended DEF VendorBreaks, NativeTypes
  <2> QED
    BY <1>19, <2>1 DEF VendorBreaks, NativeTypes
<1>20. CASE UNCHANGED vars
  BY <1>20 DEF vars, NativeTypes
<1> QED
  BY <1>1, <1>2, <1>3, <1>4, <1>5, <1>6, <1>7, <1>8, <1>9, <1>10, <1>11, <1>12, <1>13, <1>14, <1>15,
     <1>16, <1>17, <1>18, <1>19, <1>20 DEF Next, Reader, ReaderGoesOn, Pump, Run, Vendor

LEMMA UsageStep == NativeTypes /\ UsageInv /\ [Next]_vars => UsageInv'
<1> SUFFICES ASSUME NativeTypes, UsageInv, [Next]_vars PROVE UsageInv'
  OBVIOUS
<1>1. (\E how : Ends(how)) /\ run # "over" => UsageInv'
  BY DEF Ends, UsageInv, NativeTypes
<1>2. UNCHANGED usage /\ (run' = run \/ (run # "over" /\ run' # "over")) => UsageInv'
  BY DEF UsageInv
<1>3. CASE Open
  BY <1>3, <1>2 DEF Open
<1>4. CASE OpenFails
  BY <1>4, <1>1 DEF OpenFails
<1>5. CASE DecideByPump
  BY <1>5, <1>1, <1>2 DEF DecideByPump
<1>6. CASE DecideByOther
  BY <1>6, <1>1 DEF DecideByOther
<1>7. CASE Finish
  BY <1>7, <1>1 DEF Finish
<1>8. Open \/ OpenFails \/ DecideByPump \/ DecideByOther \/ Finish \/ UNCHANGED <<run, usage>>
  BY DEF vars, Next, Reader, ReaderGoesOn, Pump, Run, Vendor, Trip, ReadText, ReadFinalize,
     ReadClear, ReadDisconnect, ClearAnswered, SayCleared, PumpAudio, PumpSent, PumpAck, PumpDone,
     PumpError, PumpClosed, PumpLeft, VendorReads, VendorVoices, VendorBreaks
<1> QED
  BY <1>2, <1>3, <1>4, <1>5, <1>6, <1>7, <1>8

(* What is not touched holds the texts it held.                            *)
LEMMA PipesKept ==
  /\ UNCHANGED upward => \A i \in Int : UpText(i)' <=> UpText(i)
  /\ UNCHANGED todo => \A i \in Int : TodoText(i)' <=> TodoText(i)
  /\ UNCHANGED downward => \A i \in Int : DownText(i)' <=> DownText(i)
  /\ UNCHANGED out => \A i \in Int : (IsChunk(i)' <=> IsChunk(i)) /\ (IsAudio(i)' <=> IsAudio(i))
  /\ UNCHANGED out => \A i \in Int : (IsCleared(i)' <=> IsCleared(i)) /\ (IsDone(i)' <=> IsDone(i))
BY DEF UpText, TodoText, DownText, IsChunk, IsAudio, IsCleared, IsDone

LEMMA TextIn ==
  ASSUME NativeTypes
  PROVE  /\ \A i \in Int : UpText(i) => upward[i].n \in Int
         /\ \A i \in Int : TodoText(i) => todo[i] \in Int
         /\ \A i \in Int : DownText(i) => downward[i].n \in Int
<1>1. /\ \A i \in 1 .. Len(upward) : upward[i] \in Message
      /\ \A i \in 1 .. Len(todo) : todo[i] \in Int
      /\ \A i \in 1 .. Len(downward) : downward[i] \in Event
  BY ElementOfSeq DEF NativeTypes
<1> QED
  BY <1>1 DEF UpText, TodoText, DownText, Message, Event

(* A clear is noted with an offset beyond the last.                        *)
ClearRecord == [texts : Int, alone : BOOLEAN, at : Int]

LEMMA ClearTaken ==
  ASSUME NativeTypes, ReadClear
  PROVE  \E at \in Int :
           /\ at > offset /\ offset' = IF stream = "flux" THEN at ELSE offset
           /\ [texts |-> texts, alone |-> Alone, at |-> at] \in ClearRecord
           /\ clears' = Append(clears, [texts |-> texts, alone |-> Alone, at |-> at])
           /\ \/ /\ socket = "open" /\ upward' = Append(upward, [kind |-> "clear", n |-> at])
                 /\ clearing' = TRUE /\ reader' = "clearing"
              \/ socket # "open" /\ reader' = "failed" /\ UNCHANGED <<upward, clearing>>
<1>1. PICK asked \in (IF stream = "flux" THEN {0, sent} ELSE {0}) :
        /\ clears' = Append(clears, [texts |-> texts, alone |-> Alone, at |-> NextOffset(asked)])
        /\ offset' = IF stream = "flux" THEN NextOffset(asked) ELSE offset
        /\ \/ /\ socket = "open"
              /\ upward' = Append(upward, [kind |-> "clear", n |-> NextOffset(asked)])
              /\ clearing' = TRUE /\ reader' = "clearing"
           \/ socket # "open" /\ reader' = "failed" /\ UNCHANGED <<upward, clearing>>
  BY DEF ReadClear, Sends
<1>2. NextOffset(asked) \in Int /\ NextOffset(asked) > offset
  BY DEF NextOffset, NativeTypes
<1>3. [texts |-> texts, alone |-> Alone, at |-> NextOffset(asked)] \in ClearRecord
  BY <1>2 DEF NativeTypes, Alone, ClearRecord
<1> QED
  BY <1>1, <1>2, <1>3

(* What a client says, and the vendor does, to the texts on their way.     *)
LEMMA SignalSent ==
  ASSUME NativeTypes, ReadFinalize \/ ReadClear
  PROVE  /\ UNCHANGED <<seq, sent, texts, todo, downward>>
         /\ upward' \in Seq(Message)
         /\ \A i \in Int : (UpText(i)' <=> UpText(i)) /\ (UpText(i) => upward'[i] = upward[i])
<1>1. UNCHANGED upward \/ \E n \in Int, kind \in {"done", "clear"} :
                             upward' = Append(upward, [kind |-> kind, n |-> n])
  <2>1. CASE ReadFinalize
    BY <2>1 DEF ReadFinalize, Sends, Signal
  <2>2. CASE ReadClear
    BY <2>2, ClearTaken
  <2> QED
    BY <2>1, <2>2
<1>2. ASSUME NEW n \in Int, NEW kind \in {"done", "clear"},
             upward' = Append(upward, [kind |-> kind, n |-> n])
      PROVE  /\ upward' \in Seq(Message)
             /\ \A i \in Int : (UpText(i)' <=> UpText(i)) /\ (UpText(i) => upward'[i] = upward[i])
  <2>1. [kind |-> kind, n |-> n] \in Message
    BY DEF Message
  <2> QED
    BY <1>2, <2>1, UpAppended DEF NativeTypes, UpText
<1>3. UNCHANGED <<seq, sent, texts, todo, downward>>
  BY DEF ReadFinalize, ReadClear
<1> QED
  BY <1>1, <1>2, <1>3, PipesKept DEF NativeTypes

LEMMA OthersLeaveTexts ==
  ASSUME [Next]_vars
  PROVE  \/ ReadText \/ ReadFinalize \/ ReadClear \/ PumpAudio \/ PumpSent \/ PumpAck \/ PumpDone
         \/ PumpError \/ VendorReads \/ VendorVoices \/ VendorBreaks
         \/ UNCHANGED <<seq, sent, texts, upward, downward, todo>>
BY DEF vars, Next, Reader, ReaderGoesOn, Pump, Run, Vendor, Open, OpenFails, DecideByPump,
   DecideByOther, Finish, Trip, ReadDisconnect, ClearAnswered, SayCleared, PumpClosed, PumpLeft


(* A queue that moves up stays in order.                                   *)
LEMMA UpShifts ==
  ASSUME UpOrder, UNCHANGED <<seq, texts>>,
         \A i \in Int : UpText(i)' => 1 < i + 1 /\ UpText(i + 1) /\ upward'[i] = upward[i + 1]
  PROVE  UpOrder'
<1> SUFFICES ASSUME NEW i \in Int, UpText(i)'
             PROVE  /\ (seq < upward[i].n /\ upward[i].n <= texts)'
                    /\ \A j \in Int : UpText(j)' /\ i < j => upward'[i].n < upward'[j].n
  BY DEF UpOrder
<1>1. i + 1 \in Int /\ UpText(i + 1) /\ upward'[i] = upward[i + 1]
  OBVIOUS
<1>2. ASSUME NEW j \in Int, UpText(j)', i < j PROVE upward'[i].n < upward'[j].n
  <2>1. j + 1 \in Int /\ UpText(j + 1) /\ upward'[j] = upward[j + 1] /\ i + 1 < j + 1
    BY <1>2
  <2> QED
    BY <1>1, <2>1 DEF UpOrder
<1> QED
  BY <1>1, <1>2 DEF UpOrder

LEMMA TodoShifts ==
  ASSUME TodoOrder, UNCHANGED <<seq, texts>>,
         \A i \in Int : TodoText(i)' => 1 < i + 1 /\ TodoText(i + 1) /\ todo'[i] = todo[i + 1]
  PROVE  TodoOrder'
<1> SUFFICES ASSUME NEW i \in Int, TodoText(i)'
             PROVE  /\ (seq < todo[i] /\ todo[i] <= texts)'
                    /\ \A j \in Int : TodoText(j)' /\ i < j => todo'[i] < todo'[j]
  BY DEF TodoOrder
<1>1. i + 1 \in Int /\ TodoText(i + 1) /\ todo'[i] = todo[i + 1]
  OBVIOUS
<1>2. ASSUME NEW j \in Int, TodoText(j)', i < j PROVE todo'[i] < todo'[j]
  <2>1. j + 1 \in Int /\ TodoText(j + 1) /\ todo'[j] = todo[j + 1] /\ i + 1 < j + 1
    BY <1>2
  <2> QED
    BY <1>1, <2>1 DEF TodoOrder
<1> QED
  BY <1>1, <1>2 DEF TodoOrder

LEMMA DownShifts ==
  ASSUME DownOrder, UNCHANGED <<seq, texts>>,
         \A i \in Int : DownText(i)' => 1 < i + 1 /\ DownText(i + 1) /\ downward'[i] = downward[i + 1]
  PROVE  DownOrder'
<1> SUFFICES ASSUME NEW i \in Int, DownText(i)'
             PROVE  /\ (seq < downward[i].n /\ downward[i].n <= texts)'
                    /\ \A j \in Int : DownText(j)' /\ i < j => downward'[i].n < downward'[j].n
  BY DEF DownOrder
<1>1. i + 1 \in Int /\ DownText(i + 1) /\ downward'[i] = downward[i + 1]
  OBVIOUS
<1>2. ASSUME NEW j \in Int, DownText(j)', i < j PROVE downward'[i].n < downward'[j].n
  <2>1. j + 1 \in Int /\ DownText(j + 1) /\ downward'[j] = downward[j + 1] /\ i + 1 < j + 1
    BY <1>2
  <2> QED
    BY <1>1, <2>1 DEF DownOrder
<1> QED
  BY <1>1, <1>2 DEF DownOrder

(* A text said, and a text voiced.                                         *)
LEMMA TextSaid ==
  ASSUME upward \in Seq(Message), NEW n \in Int, upward' = Append(upward, [kind |-> "text", n |-> n])
  PROVE  \A i \in Int : UpText(i)' =>
           \/ UpText(i) /\ i < Len(upward) + 1 /\ upward'[i] = upward[i]
           \/ i = Len(upward) + 1 /\ upward'[i].n = n
<1> DEFINE m == [kind |-> "text", n |-> n]
<1>1. m \in Message /\ m.n = n /\ upward' = Append(upward, m)
  BY Sent DEF Message
<1> HIDE DEF m
<1> QED
  BY <1>1, UpAppended

LEMMA TextVoiced ==
  ASSUME downward \in Seq(Event), NEW n \in Int,
         downward' = Append(downward, [kind |-> "audio", n |-> n])
  PROVE  \A i \in Int : DownText(i)' =>
           \/ DownText(i) /\ i < Len(downward) + 1 /\ downward'[i] = downward[i]
           \/ i = Len(downward) + 1 /\ downward'[i].n = n
<1> DEFINE e == [kind |-> "audio", n |-> n]
<1>1. e \in Event /\ e.n = n /\ downward' = Append(downward, e)
  BY Sent DEF Event
<1> HIDE DEF e
<1> QED
  BY <1>1, DownAppended

LEMMA OrderStep == NativeTypes /\ OrderInv /\ [Next]_vars => OrderInv'
<1> SUFFICES ASSUME NativeTypes, CountsInv, UpOrder, TodoOrder, DownOrder, DownTodo, DownUp, TodoUp,
                    [Next]_vars
             PROVE  OrderInv'
  BY DEF OrderInv
<1>0. /\ upward \in Seq(Message) /\ downward \in Seq(Event) /\ todo \in Seq(Int)
  BY DEF NativeTypes
<1>a. seq \in Int /\ sent \in Int /\ texts \in Int /\ MaxTexts \in Int
  BY NativeAssumption DEF NativeTypes
<1>1. CASE UNCHANGED <<seq, sent, texts, upward, downward, todo>>
  BY <1>1 DEF OrderInv, CountsInv, UpOrder, TodoOrder, DownOrder, DownTodo, DownUp, TodoUp,
              UpText, TodoText, DownText
<1>2. CASE ReadText
  <2>1. UNCHANGED <<seq, sent, todo, downward>> /\ texts' = texts + 1 /\ texts < MaxTexts
    BY <1>2 DEF ReadText
  <2>2. \A i \in Int : TodoText(i)' => TodoText(i) /\ todo'[i] = todo[i]
    BY <2>1, PipesKept
  <2>3. \A i \in Int : DownText(i)' => DownText(i) /\ downward'[i] = downward[i]
    BY <2>1, PipesKept
  <2>4. CASE upward' = Append(upward, [kind |-> "text", n |-> texts + 1])
    <3>1. texts + 1 \in Int
      BY <1>a
    <3>2. [kind |-> "text", n |-> texts + 1] \in Message
      BY <3>1, Sent
    <3>3. \A i \in Int : UpText(i)' =>
            \/ UpText(i) /\ i < Len(upward) + 1 /\ upward'[i] = upward[i]
            \/ i = Len(upward) + 1 /\ upward'[i].n = texts + 1
      BY <1>0, <2>4, <3>1, TextSaid
    <3>4. Len(upward) \in Int
      BY <1>0, LenProperties
    <3>11. CountsInv'
      BY <2>1, <1>a, TextIn DEF CountsInv
    <3>12. UpOrder'
      BY <2>1, <3>3, <3>4, <1>a, TextIn, SMTT(30) DEF UpOrder, CountsInv
    <3>13. TodoOrder'
      BY <2>1, <2>2, <1>a, TextIn DEF TodoOrder
    <3>14. DownOrder'
      BY <2>1, <2>3, <1>a, TextIn DEF DownOrder
    <3>15. DownTodo'
      BY <2>3, <2>2, <1>a, TextIn DEF DownTodo
    <3>16. DownUp'
      BY <2>3, <3>3, <1>a, TextIn DEF DownUp, DownOrder
    <3>17. TodoUp'
      BY <2>2, <3>3, <1>a, TextIn DEF TodoUp, TodoOrder
    <3> QED
      BY <3>11, <3>12, <3>13, <3>14, <3>15, <3>16, <3>17 DEF OrderInv
  <2>5. CASE UNCHANGED upward
    <3>1. \A i \in Int : UpText(i)' => UpText(i) /\ upward'[i] = upward[i]
      BY <2>5, PipesKept
    <3>11. CountsInv'
      BY <2>1, <1>a DEF CountsInv
    <3>12. UpOrder'
      BY <2>1, <3>1, <1>a, TextIn DEF UpOrder
    <3>13. TodoOrder'
      BY <2>1, <2>2, <1>a, TextIn DEF TodoOrder
    <3>14. DownOrder'
      BY <2>1, <2>3, <1>a, TextIn DEF DownOrder
    <3>15. DownTodo'
      BY <2>3, <2>2 DEF DownTodo
    <3>16. DownUp'
      BY <2>3, <3>1 DEF DownUp
    <3>17. TodoUp'
      BY <2>2, <3>1 DEF TodoUp
    <3> QED
      BY <3>11, <3>12, <3>13, <3>14, <3>15, <3>16, <3>17 DEF OrderInv
  <2> QED
    BY <1>2, <2>4, <2>5 DEF ReadText, Sends
<1>3. CASE ReadFinalize \/ ReadClear
  BY <1>3, SignalSent, PipesKept DEF OrderInv, CountsInv, UpOrder, TodoOrder, DownOrder, DownTodo,
                                     DownUp, TodoUp
<1>4. CASE PumpAudio
  <2>1. /\ downward # <<>> /\ downward' = Tail(downward) /\ Head(downward).kind = "audio"
        /\ UNCHANGED <<sent, texts, upward, todo>> /\ (seq' = seq \/ seq' = seq + 1)
    BY <1>4 DEF PumpAudio, Pumping
  <2>2. DownText(1) /\ downward[1].n \in Int
    BY <1>0, <2>1, DownTaken, TextIn DEF DownText
  <2>3. \A i \in Int : DownText(i)' => 1 < i + 1 /\ DownText(i + 1) /\ downward'[i] = downward[i + 1]
    BY <1>0, <2>1, DownTaken
  <2>4. \A i \in Int : UpText(i)' => UpText(i) /\ upward'[i] = upward[i]
    BY <2>1, PipesKept
  <2>5. \A i \in Int : TodoText(i)' => TodoText(i) /\ todo'[i] = todo[i]
    BY <2>1, PipesKept
  <2>6. seq' \in Int /\ seq' <= downward[1].n /\ seq <= seq' /\ UNCHANGED <<sent, texts>>
    BY <1>a, <2>1, <2>2 DEF DownOrder
  <2>11. CountsInv'
    BY <2>6, <1>a, <2>2 DEF CountsInv, DownOrder
  <2>12. UpOrder'
    BY <2>6, <2>4, <1>a, <2>2, TextIn DEF UpOrder, DownUp
  <2>13. TodoOrder'
    BY <2>6, <2>5, <1>a, <2>2, TextIn DEF TodoOrder, DownTodo
  <2>14. DownOrder'
    BY <2>6, <2>3, <1>a, <2>2, TextIn DEF DownOrder
  <2>15. DownTodo'
    BY <2>3, <2>5 DEF DownTodo
  <2>16. DownUp'
    BY <2>3, <2>4 DEF DownUp
  <2>17. TodoUp'
    BY <2>5, <2>4 DEF TodoUp
  <2> QED
    BY <2>11, <2>12, <2>13, <2>14, <2>15, <2>16, <2>17 DEF OrderInv
<1>5. CASE PumpSent
  <2>1. sent' = seq /\ UNCHANGED <<seq, texts, upward, todo, downward>>
    BY <1>5 DEF PumpSent
  <2>2. \A i \in Int : UpText(i)' => UpText(i) /\ upward'[i] = upward[i]
    BY <2>1, PipesKept
  <2>3. \A i \in Int : TodoText(i)' => TodoText(i) /\ todo'[i] = todo[i]
    BY <2>1, PipesKept
  <2>4. \A i \in Int : DownText(i)' => DownText(i) /\ downward'[i] = downward[i]
    BY <2>1, PipesKept
  <2>11. CountsInv'
    BY <2>1, <1>a DEF CountsInv
  <2>12. UpOrder'
    BY <2>1, <2>2 DEF UpOrder
  <2>13. TodoOrder'
    BY <2>1, <2>3 DEF TodoOrder
  <2>14. DownOrder'
    BY <2>1, <2>4 DEF DownOrder
  <2>15. DownTodo'
    BY <2>4, <2>3 DEF DownTodo
  <2>16. DownUp'
    BY <2>4, <2>2 DEF DownUp
  <2>17. TodoUp'
    BY <2>3, <2>2 DEF TodoUp
  <2> QED
    BY <2>11, <2>12, <2>13, <2>14, <2>15, <2>16, <2>17 DEF OrderInv
<1>6. CASE PumpAck \/ PumpDone \/ PumpError
  <2>1. /\ downward # <<>> /\ downward' = Tail(downward)
        /\ UNCHANGED <<seq, sent, texts, upward, todo>>
    BY <1>6 DEF PumpAck, PumpDone, PumpError, Pumping
  <2>2. \A i \in Int : DownText(i)' => 1 < i + 1 /\ DownText(i + 1) /\ downward'[i] = downward[i + 1]
    BY <1>0, <2>1, DownTaken
  <2>3. \A i \in Int : UpText(i)' => UpText(i) /\ upward'[i] = upward[i]
    BY <2>1, PipesKept
  <2>4. \A i \in Int : TodoText(i)' => TodoText(i) /\ todo'[i] = todo[i]
    BY <2>1, PipesKept
  <2>11. CountsInv'
    BY <2>1 DEF CountsInv
  <2>12. UpOrder'
    BY <2>1, <2>3 DEF UpOrder
  <2>13. TodoOrder'
    BY <2>1, <2>4 DEF TodoOrder
  <2>14. DownOrder'
    BY <2>1, <2>2, DownShifts
  <2>15. DownTodo'
    BY <2>2, <2>4 DEF DownTodo
  <2>16. DownUp'
    BY <2>2, <2>3 DEF DownUp
  <2>17. TodoUp'
    BY <2>4, <2>3 DEF TodoUp
  <2> QED
    BY <2>11, <2>12, <2>13, <2>14, <2>15, <2>16, <2>17 DEF OrderInv
<1>7. CASE VendorReads
  <2>1. upward # <<>> /\ upward' = Tail(upward) /\ UNCHANGED <<seq, sent, texts>>
    BY <1>7 DEF VendorReads
  <2>2. /\ Head(upward) = upward[1] /\ upward[1].n \in Int
        /\ upward[1].kind \in {"text", "done", "clear"}
    BY <1>0, <2>1, UpTaken DEF Message
  <2>3. \A i \in Int : UpText(i)' => 1 < i + 1 /\ UpText(i + 1) /\ upward'[i] = upward[i + 1]
    BY <1>0, <2>1, UpTaken
  <2>4. CASE upward[1].kind = "text"
    <3>1. UpText(1)
      BY <1>0, <2>1, <2>4, UpTaken DEF UpText
    <3>2. todo' = Append(todo, upward[1].n) /\ UNCHANGED downward
      BY <1>7, <2>2, <2>4 DEF VendorReads
    <3>3. Len(todo) \in Int
      BY <1>0, LenProperties
    <3>4. \A i \in Int : DownText(i)' => DownText(i) /\ downward'[i] = downward[i]
      BY <3>2, PipesKept
    <3>5. \A i \in Int : TodoText(i)' =>
            \/ TodoText(i) /\ i < Len(todo) + 1 /\ todo'[i] = todo[i]
            \/ i = Len(todo) + 1 /\ todo'[i] = upward[1].n
      BY <1>0, <2>2, <3>2, TodoAppended
    <3>11. CountsInv'
      BY <2>1 DEF CountsInv
    <3>12. UpOrder'
      BY <2>1, <2>3, UpShifts
    <3>13. TodoOrder'
      BY <2>1, <3>5, <3>1, <3>3 DEF TodoOrder, TodoUp, UpOrder
    <3>14. DownOrder'
      BY <2>1, <3>4 DEF DownOrder
    <3>15. DownTodo'
      BY <3>4, <3>5, <3>1 DEF DownTodo, DownUp
    <3>16. DownUp'
      BY <3>4, <2>3 DEF DownUp
    <3>17. TodoUp'
      BY <3>5, <2>3, <3>1 DEF TodoUp, UpOrder
    <3> QED
      BY <3>11, <3>12, <3>13, <3>14, <3>15, <3>16, <3>17 DEF OrderInv
  <2>5. CASE upward[1].kind = "done"
    <3>1. todo' = Append(todo, End) /\ UNCHANGED downward
      BY <1>7, <2>2, <2>5 DEF VendorReads
    <3>2. End \in Int
      BY DEF End
    <3>3. \A i \in Int : TodoText(i)' => TodoText(i) /\ todo'[i] = todo[i]
      BY <1>0, <3>1, <3>2, TodoAppended
    <3>4. \A i \in Int : DownText(i)' => DownText(i) /\ downward'[i] = downward[i]
      BY <3>1, PipesKept
    <3>11. CountsInv'
      BY <2>1 DEF CountsInv
    <3>12. UpOrder'
      BY <2>1, <2>3, UpShifts
    <3>13. TodoOrder'
      BY <2>1, <3>3 DEF TodoOrder
    <3>14. DownOrder'
      BY <2>1, <3>4 DEF DownOrder
    <3>15. DownTodo'
      BY <3>4, <3>3 DEF DownTodo
    <3>16. DownUp'
      BY <3>4, <2>3 DEF DownUp
    <3>17. TodoUp'
      BY <3>3, <2>3 DEF TodoUp
    <3> QED
      BY <3>11, <3>12, <3>13, <3>14, <3>15, <3>16, <3>17 DEF OrderInv
  <2>6. CASE upward[1].kind = "clear"
    <3>1. /\ todo' \in {<<End>>, <<>>}
          /\ downward' = Append(downward, [kind |-> "cleared", n |-> upward[1].n])
      BY <1>7, <2>2, <2>6 DEF VendorReads
    <3>2. [kind |-> "cleared", n |-> upward[1].n] \in Event
      BY <2>2, Sent
    <3>3. \A i \in Int : ~TodoText(i)'
      BY <3>1 DEF TodoText
    <3>4. \A i \in Int : DownText(i)' => DownText(i) /\ downward'[i] = downward[i]
      BY <1>0, <3>1, <3>2, DownAppended
    <3>11. CountsInv'
      BY <2>1 DEF CountsInv
    <3>12. UpOrder'
      BY <2>1, <2>3, UpShifts
    <3>13. TodoOrder'
      BY <2>1, <3>3 DEF TodoOrder
    <3>14. DownOrder'
      BY <2>1, <3>4 DEF DownOrder
    <3>15. DownTodo'
      BY <3>4, <3>3 DEF DownTodo
    <3>16. DownUp'
      BY <3>4, <2>3 DEF DownUp
    <3>17. TodoUp'
      BY <3>3, <2>3 DEF TodoUp
    <3> QED
      BY <3>11, <3>12, <3>13, <3>14, <3>15, <3>16, <3>17 DEF OrderInv
  <2> QED
    BY <2>2, <2>4, <2>5, <2>6
<1>8. CASE VendorVoices
  <2>1. todo # <<>> /\ todo' = Tail(todo) /\ UNCHANGED <<seq, sent, texts, upward>>
    BY <1>8 DEF VendorVoices
  <2>2. Head(todo) = todo[1] /\ todo[1] \in Int
    BY <1>0, <2>1, TodoTaken
  <2>3. \A i \in Int : TodoText(i)' => 1 < i + 1 /\ TodoText(i + 1) /\ todo'[i] = todo[i + 1]
    BY <1>0, <2>1, TodoTaken
  <2>4. \A i \in Int : UpText(i)' => UpText(i) /\ upward'[i] = upward[i]
    BY <2>1, PipesKept
  <2>5. CASE todo[1] = End
    <3>1. /\ downward' = Append(downward, Signal("done")) /\ Signal("done") \in Event
          /\ Signal("done").kind = "done"
      BY <1>8, <2>2, <2>5, Sent DEF VendorVoices, Signal
    <3>2. \A i \in Int : DownText(i)' => DownText(i) /\ downward'[i] = downward[i]
      BY <1>0, <3>1, DownAppended
    <3>11. CountsInv'
      BY <2>1 DEF CountsInv
    <3>12. UpOrder'
      BY <2>1, <2>4 DEF UpOrder
    <3>13. TodoOrder'
      BY <2>1, <2>3, TodoShifts
    <3>14. DownOrder'
      BY <2>1, <3>2 DEF DownOrder
    <3>15. DownTodo'
      BY <3>2, <2>3 DEF DownTodo
    <3>16. DownUp'
      BY <3>2, <2>4 DEF DownUp
    <3>17. TodoUp'
      BY <2>3, <2>4 DEF TodoUp
    <3> QED
      BY <3>11, <3>12, <3>13, <3>14, <3>15, <3>16, <3>17 DEF OrderInv
  <2>6. CASE todo[1] # End
    <3>1. TodoText(1)
      BY <1>0, <2>1, <2>6, TodoTaken DEF TodoText
    <3>2. /\ downward' = Append(downward, [kind |-> "audio", n |-> todo[1]])
          /\ [kind |-> "audio", n |-> todo[1]] \in Event
      BY <1>8, <2>2, <2>6, Sent DEF VendorVoices
    <3>3. Len(downward) \in Int
      BY <1>0, LenProperties
    <3>4. \A i \in Int : DownText(i)' =>
            \/ DownText(i) /\ i < Len(downward) + 1 /\ downward'[i] = downward[i]
            \/ i = Len(downward) + 1 /\ downward'[i].n = todo[1]
      BY <1>0, <2>2, <3>2, TextVoiced
    <3>11. CountsInv'
      BY <2>1 DEF CountsInv
    <3>12. UpOrder'
      BY <2>1, <2>4 DEF UpOrder
    <3>13. TodoOrder'
      BY <2>1, <2>3, TodoShifts
    <3>14. DownOrder'
      BY <2>1, <3>4, <3>1, <3>3 DEF DownOrder, DownTodo, TodoOrder
    <3>15. DownTodo'
      BY <3>4, <2>3, <3>1 DEF DownTodo, TodoOrder
    <3>16. DownUp'
      BY <3>4, <2>4, <3>1 DEF DownUp, TodoUp
    <3>17. TodoUp'
      BY <2>3, <2>4 DEF TodoUp
    <3> QED
      BY <3>11, <3>12, <3>13, <3>14, <3>15, <3>16, <3>17 DEF OrderInv
  <2> QED
    BY <2>5, <2>6
<1>9. CASE VendorBreaks
  <2>1. \/ UNCHANGED downward
        \/ /\ downward' = Append(downward, Signal("error")) /\ Signal("error") \in Event
           /\ Signal("error").kind = "error"
    BY <1>9, Sent DEF VendorBreaks, Signal
  <2>2. UNCHANGED <<seq, sent, texts, upward, todo>>
    BY <1>9 DEF VendorBreaks
  <2>3. \A i \in Int : UpText(i)' => UpText(i) /\ upward'[i] = upward[i]
    BY <2>2, PipesKept
  <2>4. \A i \in Int : TodoText(i)' => TodoText(i) /\ todo'[i] = todo[i]
    BY <2>2, PipesKept
  <2>5. \A i \in Int : DownText(i)' => DownText(i) /\ downward'[i] = downward[i]
    BY <1>0, <2>1, DownAppended, PipesKept
  <2>11. CountsInv'
    BY <2>2 DEF CountsInv
  <2>12. UpOrder'
    BY <2>2, <2>3 DEF UpOrder
  <2>13. TodoOrder'
    BY <2>2, <2>4 DEF TodoOrder
  <2>14. DownOrder'
    BY <2>2, <2>5 DEF DownOrder
  <2>15. DownTodo'
    BY <2>5, <2>4 DEF DownTodo
  <2>16. DownUp'
    BY <2>5, <2>3 DEF DownUp
  <2>17. TodoUp'
    BY <2>4, <2>3 DEF TodoUp
  <2> QED
    BY <2>11, <2>12, <2>13, <2>14, <2>15, <2>16, <2>17 DEF OrderInv
<1> QED
  BY <1>1, <1>2, <1>3, <1>4, <1>5, <1>6, <1>7, <1>8, <1>9, OthersLeaveTexts

----------------------------------------------------------------------------
(* What the client has got stays, and one frame more comes behind it.      *)
LEMMA FrameSent ==
  ASSUME out \in Seq(Told), NEW f \in Told, out' = Append(out, f)
  PROVE  /\ \A i \in Int : IsChunk(i)' =>
              \/ IsChunk(i) /\ i < Len(out) + 1 /\ out'[i] = out[i]
              \/ i = Len(out) + 1 /\ f.kind = "audio.chunk" /\ out'[i] = f
         /\ \A i \in Int : IsCleared(i)' =>
              \/ IsCleared(i) /\ i < Len(out) + 1 /\ out'[i] = out[i]
              \/ i = Len(out) + 1 /\ f.kind = "cleared" /\ out'[i] = f
         /\ \A i \in Int : IsDone(i)' =>
              \/ IsDone(i) /\ i < Len(out) + 1 /\ out'[i] = out[i]
              \/ i = Len(out) + 1 /\ f.kind = "done" /\ out'[i] = f
         /\ \A i \in Int : IsChunk(i) => IsChunk(i)' /\ out'[i] = out[i] /\ i < Len(out) + 1
         /\ \A i \in Int : IsAudio(i) => IsAudio(i)' /\ out'[i] = out[i]
         /\ Len(out)' = Len(out) + 1 /\ Len(out) \in Int
         /\ \A i \in Int : IsChunk(i) /\ i < Len(out) => out'[i + 1] = out[i + 1]
         /\ out'[Len(out) + 1] = f
         /\ f.kind = "audio.chunk" => \A i \in Int : i = Len(out) + 1 => IsChunk(i)'
         /\ f.kind = "audio" => \A i \in Int : i = Len(out) + 1 => IsAudio(i)'
<1>1. /\ Len(out) \in Nat /\ Len(out)' = Len(out) + 1
      /\ \A i \in 1 .. Len(out) : out'[i] = out[i]
      /\ out'[Len(out) + 1] = f
  BY OutAppended
<1>2. \A i \in Int : IsChunk(i) /\ i < Len(out) => i + 1 \in 1 .. Len(out)
  BY <1>1 DEF IsChunk
<1>3. \A i \in Int : IsChunk(i) /\ i < Len(out) => out'[i + 1] = out[i + 1]
  BY <1>1, <1>2
<1>4. \A i \in Int : i \in 1 .. Len(out') => i \in 1 .. Len(out) \/ i = Len(out) + 1
  BY <1>1
<1>5. \A i \in 1 .. Len(out) : i \in 1 .. Len(out') /\ i < Len(out) + 1
  BY <1>1
<1>6. Len(out) + 1 \in 1 .. Len(out')
  BY <1>1
<1>7. \A i \in Int : IsChunk(i)' =>
        \/ IsChunk(i) /\ i < Len(out) + 1 /\ out'[i] = out[i]
        \/ i = Len(out) + 1 /\ f.kind = "audio.chunk" /\ out'[i] = f
  BY <1>1, <1>4, <1>5 DEF IsChunk
<1>8. \A i \in Int : IsCleared(i)' =>
        \/ IsCleared(i) /\ i < Len(out) + 1 /\ out'[i] = out[i]
        \/ i = Len(out) + 1 /\ f.kind = "cleared" /\ out'[i] = f
  BY <1>1, <1>4, <1>5 DEF IsCleared
<1>9. \A i \in Int : IsDone(i)' =>
        \/ IsDone(i) /\ i < Len(out) + 1 /\ out'[i] = out[i]
        \/ i = Len(out) + 1 /\ f.kind = "done" /\ out'[i] = f
  BY <1>1, <1>4, <1>5 DEF IsDone
<1>10. \A i \in Int : IsChunk(i) => IsChunk(i)' /\ out'[i] = out[i] /\ i < Len(out) + 1
  BY <1>1, <1>5 DEF IsChunk
<1>11. \A i \in Int : IsAudio(i) => IsAudio(i)' /\ out'[i] = out[i]
  BY <1>1, <1>5 DEF IsAudio
<1>12. f.kind = "audio.chunk" => \A i \in Int : i = Len(out) + 1 => IsChunk(i)'
  BY <1>1, <1>6 DEF IsChunk
<1>13. f.kind = "audio" => \A i \in Int : i = Len(out) + 1 => IsAudio(i)'
  BY <1>1, <1>6 DEF IsAudio
<1>14. Len(out) \in Int
  BY <1>1
<1> QED
  BY <1>1, <1>14, <1>3, <1>7, <1>8, <1>9, <1>10, <1>11, <1>12, <1>13

LEMMA OthersLeaveFrames ==
  ASSUME [Next]_vars
  PROVE  \/ Open \/ OpenFails \/ DecideByPump \/ DecideByOther \/ Finish \/ ReadText \/ ReadFinalize
         \/ ReadClear \/ ReadDisconnect \/ ClearAnswered \/ SayCleared \/ PumpAudio \/ PumpSent
         \/ PumpDone \/ PumpError \/ PumpClosed \/ PumpLeft
         \/ UNCHANGED <<run, pump, sent, seq, out, clears, reader>>
BY DEF vars, Next, Reader, ReaderGoesOn, Pump, Run, Vendor, Trip, PumpAck, VendorReads,
   VendorVoices, VendorBreaks

LEMMA FramesStep == NativeTypes /\ CountsInv /\ FramesInv /\ [Next]_vars => FramesInv'
<1> SUFFICES ASSUME NativeTypes, CountsInv, [Next]_vars,
                    OpeningInv, SentInv, ChunksInv, HeaderInv, LastInv, DoneInv, ClearedInv, PairsInv,
                    AckedInv
             PROVE  FramesInv'
  BY DEF FramesInv
<1>a. seq \in Int /\ sent \in Int /\ out \in Seq(Told) /\ sent <= seq
  BY DEF NativeTypes, CountsInv
<1>b. pump \in {"recv", "sending", "ended", "failed", "left"} /\ Len(clears) \in Int
  BY LenProperties DEF NativeTypes
<1>c. /\ \A i \in Int : IsChunk(i) => out[i].seq \in Int
      /\ \A i \in Int : IsCleared(i) => out[i].last_seq \in Int /\ out[i].clear \in Int
  <2>1. \A i \in 1 .. Len(out) : out[i] \in Told
    BY <1>a, ElementOfSeq
  <2> QED
    BY <2>1 DEF IsChunk, IsCleared, Told
<1>d. run = "opening" => pump # "sending"
  BY DEF OpeningInv, HeaderInv, IsChunk
<1>1. CASE UNCHANGED <<run, pump, sent, seq, out, clears, reader>>
  BY <1>1 DEF FramesInv, OpeningInv, SentInv, ChunksInv, HeaderInv, LastInv, DoneInv, ClearedInv,
              PairsInv, AckedInv, IsChunk, IsCleared, IsDone
(* nothing is sent, and the pump does not begin or end a pair               *)
<1>2. ASSUME UNCHANGED <<sent, seq, out>>, run' = run \/ run # "opening",
             clears' = clears \/ Len(clears') = Len(clears) + 1, AckedInv',
             run' # "opening" \/ run = "opening",
             \/ pump' = pump
             \/ pump = "recv" /\ pump' \in {"ended", "failed"}
             \/ pump = "sending" /\ pump' = "left"
      PROVE  FramesInv'
  <2>1. \A i \in Int : (IsChunk(i)' <=> IsChunk(i)) /\ (IsCleared(i)' <=> IsCleared(i)) /\ (IsDone(i)' <=> IsDone(i))
    BY <1>2, PipesKept
  <2>2. Len(out)' = Len(out) /\ \A i \in Int : out'[i] = out[i]
    BY <1>2
  <2>3. \A n \in 1 .. Len(clears) : n \in 1 .. Len(clears')
    BY <1>2, <1>b
  <2>11. OpeningInv'
    BY <1>2 DEF OpeningInv
  <2>12. SentInv'
    BY <1>2, <1>b DEF SentInv
  <2>13. ChunksInv'
    BY <1>2, <2>1, <2>2 DEF ChunksInv
  <2>14. HeaderInv'
    BY <1>2, <2>1, <2>2 DEF HeaderInv
  <2>15. LastInv'
    BY <1>2 DEF LastInv, IsChunk
  <2>16. DoneInv'
    BY <1>2, <2>1 DEF DoneInv
  <2>17. ClearedInv'
    BY <1>2, <2>1, <2>2, <2>3 DEF ClearedInv
  <2>18. PairsInv'
    BY <1>2 DEF PairsInv, IsChunk
  <2> QED
    BY <1>2, <2>11, <2>12, <2>13, <2>14, <2>15, <2>16, <2>17, <2>18 DEF FramesInv
<1>3. CASE Finish \/ ReadText \/ ReadFinalize \/ ReadDisconnect \/ PumpDone \/ PumpError \/ PumpClosed
           \/ PumpLeft
  <2>1. /\ UNCHANGED <<sent, seq, out, clears>> /\ run # "opening"
        /\ \/ pump' = pump
           \/ pump = "recv" /\ pump' \in {"ended", "failed"}
           \/ pump = "sending" /\ pump' = "left"
    BY <1>3 DEF Finish, ReadText, ReadFinalize, ReadDisconnect, PumpDone, PumpError, PumpClosed, PumpLeft,
                Pumping, Taking, Live, AudioEnds, Ends
  <2>2. reader' = reader \/ reader' \in {"failed", "returned"}
    BY <1>3 DEF Finish, ReadText, ReadFinalize, ReadDisconnect, PumpDone, PumpError, PumpClosed, PumpLeft,
                Pumping, Ends
  <2>3. AckedInv' /\ run' # "opening"
    BY <1>3, <2>1, <2>2 DEF AckedInv, Finish, ReadText, ReadFinalize, ReadDisconnect, PumpDone, PumpError, PumpClosed,
                PumpLeft, Ends
  <2> QED
    BY <1>2, <2>1, <2>3
<1>4. CASE ReadClear
  <2>1. UNCHANGED <<sent, seq, out, run, pump>>
    BY <1>4 DEF ReadClear
  <2>2. PICK c \in ClearRecord : clears' = Append(clears, c)
    BY <1>4, ClearTaken
  <2>3. Len(clears') = Len(clears) + 1
    BY <2>2, AfterAppend DEF NativeTypes, ClearRecord
  <2>4. clears' # <<>>
    BY <1>b, <2>3
  <2> QED
    BY <1>2, <2>1, <2>3, <2>4 DEF AckedInv
<1>5. CASE ClearAnswered
  <2>1. UNCHANGED <<sent, seq, out, run, pump, clears>> /\ reader = "clearing"
    BY <1>5 DEF ClearAnswered
  <2> QED
    BY <1>2, <2>1 DEF AckedInv
<1>6. CASE Open \/ OpenFails
  <2>1. PICK f \in Told : out' = <<f>> /\ f.kind \in {"session.open", "error"}
    BY <1>6, Sent DEF Open, OpenFails, Frame
  <2>2. UNCHANGED <<pump, sent, seq, clears, reader>> /\ run' # "opening" /\ run = "opening"
    BY <1>6 DEF Open, OpenFails, Ends
  <2>3. \A i \in Int : ~IsChunk(i)' /\ ~IsCleared(i)' /\ ~IsDone(i)'
    BY <2>1 DEF IsChunk, IsCleared, IsDone
  <2>4. pump # "sending"
    BY <2>2, <1>d
  <2>5. Len(out') \in Int
    BY <2>1
  <2>11. OpeningInv'
    BY <2>2 DEF OpeningInv
  <2>12. SentInv'
    BY <2>2 DEF SentInv
  <2>13. ChunksInv'
    BY <2>2, <2>3 DEF ChunksInv
  <2>14. HeaderInv'
    BY <2>2, <2>4 DEF HeaderInv
  <2>15. LastInv'
    BY <2>2, <2>3, <2>5 DEF LastInv
  <2>16. DoneInv'
    BY <2>2, <2>3 DEF DoneInv
  <2>17. ClearedInv'
    BY <2>2, <2>3 DEF ClearedInv
  <2>18. PairsInv'
    BY <2>2, <2>3 DEF PairsInv
  <2>19. AckedInv'
    BY <2>2 DEF AckedInv
  <2> QED
    BY <2>11, <2>12, <2>13, <2>14, <2>15, <2>16, <2>17, <2>18, <2>19 DEF FramesInv
(* a frame that is neither a chunk nor `cleared`                            *)
<1>7. ASSUME NEW f \in Told, out' = Append(out, f), f.kind \in {"audio", "done", "error"},
             run # "opening", run' # "opening", UNCHANGED <<clears, seq, reader>>,
             f.kind = "done" => pump = "ended",
             \/ UNCHANGED <<sent, pump>> /\ f.kind # "audio"
             \/ sent' = seq /\ pump' = "recv" /\ pump = "sending" /\ f.kind = "audio"
      PROVE  FramesInv'
  <2>1. /\ Len(out)' = Len(out) + 1 /\ Len(out) \in Int
        /\ \A i \in Int : IsChunk(i) /\ i < Len(out) => out'[i + 1] = out[i + 1]
        /\ out'[Len(out) + 1] = f
    BY <1>7, <1>a, FrameSent
  <2>2. \A i \in Int : IsChunk(i)' => IsChunk(i) /\ i < Len(out) + 1 /\ out'[i] = out[i]
    BY <1>7, <1>a, FrameSent
  <2>3. \A i \in Int : IsCleared(i)' => IsCleared(i) /\ out'[i] = out[i]
    BY <1>7, <1>a, FrameSent
  <2>4. \A i \in Int : IsDone(i)' => IsDone(i) \/ pump = "ended"
    BY <1>7, <1>a, FrameSent
  <2>5. \A i \in Int : IsChunk(i) => IsChunk(i)' /\ out'[i] = out[i]
    BY <1>7, <1>a, FrameSent
  <2>11. OpeningInv'
    BY <1>7 DEF OpeningInv
  <2>12. SentInv'
    BY <1>7, <1>b DEF SentInv
  <2>13. ChunksInv'
    BY <1>7, <2>2 DEF ChunksInv
  <2>14. HeaderInv'
    BY <1>7, <2>5 DEF HeaderInv
  <2>15. LastInv'
    BY <2>1, <2>2 DEF LastInv
  <2>16. DoneInv'
    BY <1>7, <2>4 DEF DoneInv
  <2>17. ClearedInv'
    <3>1. sent <= sent' /\ sent' \in Int
      BY <1>a, <1>7
    <3>2. \A i \in Int : IsCleared(i) => out[i].last_seq <= sent'
      BY <1>a, <1>c, <3>1 DEF ClearedInv
    <3>3. clears' = clears
      BY <1>7
    <3> QED
      BY <2>2, <2>3, <3>2, <3>3 DEF ClearedInv
  <2>18. PairsInv'
    <3> SUFFICES ASSUME NEW i \in Int, IsChunk(i)', i < Len(out)'
                 PROVE  out'[i + 1].kind \in {"audio", "error"}
      BY DEF PairsInv
    <3>1. CASE i < Len(out)
      BY <2>1, <2>2, <3>1 DEF PairsInv
    <3>2. CASE i = Len(out)
      BY <1>7, <2>1, <2>2, <3>2 DEF LastInv
    <3> QED
      BY <2>1, <3>1, <3>2
  <2>19. AckedInv'
    BY <1>7 DEF AckedInv
  <2> QED
    BY <2>11, <2>12, <2>13, <2>14, <2>15, <2>16, <2>17, <2>18, <2>19 DEF FramesInv
<1>8. CASE DecideByPump
  <2>1. UNCHANGED <<sent, seq, clears, reader, pump>> /\ run = "running" /\ run' # "opening"
    BY <1>8 DEF DecideByPump, Ends
  <2>2. \/ out' = Append(out, Frame("done")) /\ pump = "ended"
        \/ out' = Append(out, Frame("error"))
        \/ UNCHANGED out
    BY <1>8 DEF DecideByPump
  <2> QED
    BY <1>2, <1>7, <2>1, <2>2, Sent DEF Frame, AckedInv
<1>9. CASE DecideByOther
  <2>1. UNCHANGED <<sent, seq, clears, reader, pump>> /\ run = "running" /\ run' # "opening"
    BY <1>9 DEF DecideByOther, Ends
  <2>2. out' = Append(out, Frame("error")) \/ UNCHANGED out
    BY <1>9 DEF DecideByOther
  <2> QED
    BY <1>2, <1>7, <2>1, <2>2, Sent DEF Frame, AckedInv
<1>10. CASE PumpSent
  <2>1. PICK t \in Int : out' = Append(out, Audio(t))
    BY <1>10, HeaderOfPair DEF FramesInv
  <2>2. Audio(t) \in Told /\ Audio(t).kind = "audio"
    BY Sent DEF Audio
  <2>3. /\ UNCHANGED <<seq, clears, reader, run>> /\ sent' = seq /\ pump' = "recv" /\ pump = "sending"
        /\ run # "opening"
    BY <1>10, <1>d DEF PumpSent
  <2> QED
    BY <1>7, <2>1, <2>2, <2>3
<1>11. CASE SayCleared
  <2>1. CASE UNCHANGED out
    <3>1. UNCHANGED <<sent, seq, clears, pump, run>> /\ reader' \in {"returned", "recv"}
      BY <1>11 DEF SayCleared
    <3> QED
      BY <1>2, <2>1, <3>1 DEF AckedInv
  <2>2. CASE out' = Append(out, Cleared(sent))
    <3> DEFINE f == Cleared(sent)
    <3>1. /\ f \in Told /\ f.kind = "cleared" /\ f.last_seq = sent /\ f.clear = Len(clears)
          /\ out' = Append(out, f)
      BY <1>a, <2>2, Sent DEF Cleared
    <3> HIDE DEF f
    <3>2. /\ UNCHANGED <<sent, seq, clears, pump, run>> /\ reader' \in {"returned", "recv"}
          /\ reader = "acked" /\ pump # "sending" /\ run # "opening"
      BY <1>11 DEF SayCleared, LockFree, Live
    <3>3. /\ Len(out)' = Len(out) + 1 /\ Len(out) \in Int
          /\ \A i \in Int : IsChunk(i) /\ i < Len(out) => out'[i + 1] = out[i + 1]
      BY <1>a, <3>1, FrameSent
    <3>4. \A i \in Int : IsChunk(i)' => IsChunk(i) /\ i < Len(out) + 1 /\ out'[i] = out[i]
      BY <1>a, <3>1, FrameSent
    <3>5. \A i \in Int : IsCleared(i)' =>
            (IsCleared(i) /\ out'[i] = out[i]) \/ (i = Len(out) + 1 /\ out'[i] = f)
      BY <1>a, <3>1, FrameSent
    <3>6. \A i \in Int : IsDone(i)' => IsDone(i)
      BY <1>a, <3>1, FrameSent
    <3>7. \A i \in Int : IsChunk(i) => IsChunk(i)' /\ out'[i] = out[i]
      BY <1>a, <3>1, FrameSent
    <3>8. pump # "left" /\ sent = seq
      BY <1>11, <1>b, <2>2, <3>2 DEF SayCleared, SentInv
    <3>9. f.clear \in 1 .. Len(clears)
      BY <1>b, <3>1, <3>2, EmptySeq, LenProperties DEF AckedInv, NativeTypes
    <3>11. OpeningInv'
      BY <3>2 DEF OpeningInv
    <3>12. SentInv'
      BY <3>2, <3>8 DEF SentInv
    <3>13. ChunksInv'
      BY <3>2, <3>4 DEF ChunksInv
    <3>14. HeaderInv'
      BY <3>2 DEF HeaderInv
    <3>15. LastInv'
      BY <3>3, <3>4 DEF LastInv
    <3>16. DoneInv'
      BY <3>2, <3>6 DEF DoneInv
    <3>17. ClearedInv'
      <4>1. ASSUME NEW i \in Int, IsCleared(i), out'[i] = out[i]
            PROVE  /\ out'[i].last_seq <= sent' /\ out'[i].clear \in 1 .. Len(clears')
                   /\ \A j \in Int : IsChunk(j)' => (j < i <=> out'[j].seq <= out'[i].last_seq)
        BY <3>2, <3>4, <4>1 DEF ClearedInv
      <4>2. ASSUME NEW i \in Int, i = Len(out) + 1, out'[i] = f
            PROVE  /\ out'[i].last_seq <= sent' /\ out'[i].clear \in 1 .. Len(clears')
                   /\ \A j \in Int : IsChunk(j)' => (j < i <=> out'[j].seq <= out'[i].last_seq)
        <5>1. out'[i].last_seq = seq /\ seq <= seq /\ sent' = seq /\ out'[i].clear \in 1 .. Len(clears')
          BY <1>a, <3>1, <3>2, <3>8, <3>9, <4>2
        <5>2. \A j \in Int : IsChunk(j)' => j < i /\ out'[j].seq <= seq
          BY <3>4, <4>2 DEF ChunksInv
        <5> QED
          BY <5>1, <5>2
      <4> QED
        BY <3>5, <4>1, <4>2 DEF ClearedInv
    <3>18. PairsInv'
      <4> SUFFICES ASSUME NEW i \in Int, IsChunk(i)', i < Len(out)'
                   PROVE  out'[i + 1].kind \in {"audio", "error"}
        BY DEF PairsInv
      <4>1. i # Len(out)
        BY <1>b, <3>2, <3>4, <3>8 DEF LastInv
      <4>2. i < Len(out)
        BY <3>3, <4>1
      <4> QED
        BY <3>3, <3>4, <4>2 DEF PairsInv
    <3>19. AckedInv'
      BY <3>2 DEF AckedInv
    <3> QED
      BY <3>11, <3>12, <3>13, <3>14, <3>15, <3>16, <3>17, <3>18, <3>19 DEF FramesInv
  <2> QED
    BY <1>11, <2>1, <2>2 DEF SayCleared
<1>12. CASE PumpAudio
  <2>1. CASE UNCHANGED <<pump, seq, out>>
    <3>1. UNCHANGED <<sent, seq, clears, pump, run, reader>>
      BY <1>12, <2>1 DEF PumpAudio
    <3> QED
      BY <1>2, <2>1, <3>1 DEF AckedInv
  <2>2. CASE /\ pump' = "sending" /\ seq' = seq + 1
             /\ out' = Append(out, Header(seq + 1, Head(downward).n))
    <3> DEFINE f == Header(seq + 1, Head(downward).n)
    <3>0. seq + 1 \in Int /\ Head(downward).n \in Int
      BY <1>a, <1>12, DownTaken DEF PumpAudio, Pumping, NativeTypes, Event
    <3>1. f \in Told /\ f.kind = "audio.chunk" /\ f.seq = seq + 1 /\ out' = Append(out, f)
      BY <2>2, <3>0, Sent DEF Header
    <3> HIDE DEF f
    <3>2. UNCHANGED <<sent, clears, run, reader>> /\ run # "opening" /\ pump = "recv"
      BY <1>12 DEF PumpAudio, Pumping, Live
    <3>3. /\ Len(out)' = Len(out) + 1 /\ Len(out) \in Int
          /\ \A i \in Int : IsChunk(i) /\ i < Len(out) => out'[i + 1] = out[i + 1]
          /\ out'[Len(out) + 1] = f
      BY <1>a, <3>1, FrameSent
    <3>4. \A i \in Int : IsChunk(i)' =>
            \/ IsChunk(i) /\ i < Len(out) + 1 /\ out'[i] = out[i]
            \/ i = Len(out) + 1 /\ out'[i] = f
      BY <1>a, <3>1, FrameSent
    <3>5. \A i \in Int : IsCleared(i)' => IsCleared(i) /\ i < Len(out) + 1 /\ out'[i] = out[i]
      BY <1>a, <3>1, FrameSent
    <3>6. \A i \in Int : IsDone(i)' => IsDone(i)
      BY <1>a, <3>1, FrameSent
    <3>7. \A i \in Int : i = Len(out) + 1 => IsChunk(i)'
      BY <1>a, <3>1, FrameSent
    <3>8. sent = seq /\ ~IsChunk(Len(out))
      BY <3>2 DEF SentInv, LastInv
    <3>11. OpeningInv'
      BY <3>2 DEF OpeningInv
    <3>12. SentInv'
      BY <2>2 DEF SentInv
    <3>13. ChunksInv'
      <4>1. \A i \in Int : IsChunk(i) => out[i].seq < seq + 1 /\ out[i].seq <= seq + 1
        BY <1>a, <1>c DEF ChunksInv
      <4>2. ASSUME NEW i \in Int, IsChunk(i)', NEW j \in Int, IsChunk(j)', i < j
            PROVE  out'[i].seq < out'[j].seq
        <5>1. IsChunk(i) /\ out'[i] = out[i]
          BY <3>3, <3>4, <4>2
        <5>2. CASE IsChunk(j) /\ out'[j] = out[j]
          BY <4>2, <5>1, <5>2 DEF ChunksInv
        <5>3. CASE out'[j] = f
          BY <3>1, <4>1, <5>1, <5>3
        <5> QED
          BY <3>4, <4>2, <5>2, <5>3
      <4>3. ASSUME NEW i \in Int, IsChunk(i)' PROVE out'[i].seq <= seq'
        <5>1. seq + 1 <= seq + 1
          BY <1>a
        <5> QED
          BY <2>2, <3>1, <3>4, <4>1, <4>3, <5>1
      <4> QED
        BY <4>2, <4>3 DEF ChunksInv
    <3>14. HeaderInv'
      BY <2>2, <3>1, <3>3, <3>7 DEF HeaderInv
    <3>15. LastInv'
      BY <2>2 DEF LastInv
    <3>16. DoneInv'
      BY <3>2, <3>6 DEF DoneInv
    <3>17. ClearedInv'
      <4> SUFFICES ASSUME NEW i \in Int, IsCleared(i), i < Len(out) + 1, out'[i] = out[i],
                          NEW j \in Int, IsChunk(j)'
                   PROVE  j < i <=> out'[j].seq <= out[i].last_seq
        BY <3>2, <3>5 DEF ClearedInv
      <4>1. CASE IsChunk(j) /\ out'[j] = out[j]
        BY <4>1 DEF ClearedInv
      <4>2. CASE j = Len(out) + 1 /\ out'[j] = f
        <5>1. ~(j < i)
          BY <3>3, <4>2
        <5>2. out[i].last_seq <= seq /\ out[i].last_seq \in Int
          BY <1>c, <3>8 DEF ClearedInv
        <5>3. ~(seq + 1 <= out[i].last_seq)
          BY <1>a, <5>2
        <5> QED
          BY <3>1, <4>2, <5>1, <5>3
      <4> QED
        BY <3>4, <4>1, <4>2
    <3>18. PairsInv'
      <4> SUFFICES ASSUME NEW i \in Int, IsChunk(i)', i < Len(out)'
                   PROVE  out'[i + 1].kind \in {"audio", "error"}
        BY DEF PairsInv
      <4>1. IsChunk(i) /\ i < Len(out)
        BY <3>3, <3>4, <3>8
      <4> QED
        BY <3>3, <4>1 DEF PairsInv
    <3>19. AckedInv'
      BY <3>2 DEF AckedInv
    <3> QED
      BY <3>11, <3>12, <3>13, <3>14, <3>15, <3>16, <3>17, <3>18, <3>19 DEF FramesInv
  <2> QED
    BY <1>12, <2>1, <2>2 DEF PumpAudio
<1> QED
  BY <1>1, <1>3, <1>4, <1>5, <1>6, <1>8, <1>9, <1>10, <1>11, <1>12, OthersLeaveFrames

----------------------------------------------------------------------------
(* How the queues change: not at all, by a new last, or by losing the first *)
UpKept ==
  \A i \in Int :
    /\ upward'[i] = upward[i]
    /\ UpText(i)' <=> UpText(i)
    /\ UpClear(i)' <=> UpClear(i)
    /\ UpDone(i)' <=> UpDone(i)
UpGrows(kind, n) ==
  /\ Len(upward) + 1 \in Int /\ upward'[Len(upward) + 1].n = n
  /\ \A i \in Int :
       /\ UpText(i) => UpText(i)' /\ i < Len(upward) + 1 /\ upward'[i] = upward[i]
       /\ UpText(i)' =>
            \/ UpText(i) /\ i < Len(upward) + 1 /\ upward'[i] = upward[i]
            \/ i = Len(upward) + 1 /\ kind = "text"
       /\ i = Len(upward) + 1 /\ kind = "text" => UpText(i)'
       /\ UpClear(i) => UpClear(i)' /\ i < Len(upward) + 1 /\ upward'[i] = upward[i]
       /\ UpClear(i)' =>
            \/ UpClear(i) /\ i < Len(upward) + 1 /\ upward'[i] = upward[i]
            \/ i = Len(upward) + 1 /\ kind = "clear"
       /\ i = Len(upward) + 1 /\ kind = "clear" => UpClear(i)'
       /\ UpDone(i) => UpDone(i)' /\ i < Len(upward) + 1 /\ upward'[i] = upward[i]
       /\ UpDone(i)' =>
            \/ UpDone(i) /\ i < Len(upward) + 1 /\ upward'[i] = upward[i]
            \/ i = Len(upward) + 1 /\ kind = "done"
       /\ i = Len(upward) + 1 /\ kind = "done" => UpDone(i)'
UpMoves ==
  \A i \in Int :
    /\ UpText(i)' => i + 1 \in Int /\ 1 < i + 1 /\ UpText(i + 1) /\ upward'[i] = upward[i + 1]
    /\ UpText(i) /\ i # 1 => i - 1 \in Int /\ 1 < i /\ UpText(i - 1)' /\ upward'[i - 1] = upward[i]
    /\ UpClear(i)' => i + 1 \in Int /\ 1 < i + 1 /\ UpClear(i + 1) /\ upward'[i] = upward[i + 1]
    /\ UpClear(i) /\ i # 1 => i - 1 \in Int /\ 1 < i /\ UpClear(i - 1)' /\ upward'[i - 1] = upward[i]
    /\ UpDone(i)' => i + 1 \in Int /\ 1 < i + 1 /\ UpDone(i + 1) /\ upward'[i] = upward[i + 1]
    /\ UpDone(i) /\ i # 1 => i - 1 \in Int /\ 1 < i /\ UpDone(i - 1)' /\ upward'[i - 1] = upward[i]

TodoKept ==
  \A i \in Int :
    /\ todo'[i] = todo[i]
    /\ TodoText(i)' <=> TodoText(i)
    /\ TodoDone(i)' <=> TodoDone(i)
TodoGrows(n) ==
  /\ Len(todo) + 1 \in Int /\ todo'[Len(todo) + 1] = n
  /\ \A i \in Int :
       /\ TodoText(i) => TodoText(i)' /\ i < Len(todo) + 1 /\ todo'[i] = todo[i]
       /\ TodoText(i)' =>
            \/ TodoText(i) /\ i < Len(todo) + 1 /\ todo'[i] = todo[i]
            \/ i = Len(todo) + 1 /\ n # End
       /\ i = Len(todo) + 1 /\ n # End => TodoText(i)'
       /\ TodoDone(i) => TodoDone(i)' /\ i < Len(todo) + 1 /\ todo'[i] = todo[i]
       /\ TodoDone(i)' =>
            \/ TodoDone(i) /\ i < Len(todo) + 1 /\ todo'[i] = todo[i]
            \/ i = Len(todo) + 1 /\ n = End
       /\ i = Len(todo) + 1 /\ n = End => TodoDone(i)'
TodoMoves ==
  \A i \in Int :
    /\ TodoText(i)' => i + 1 \in Int /\ 1 < i + 1 /\ TodoText(i + 1) /\ todo'[i] = todo[i + 1]
    /\ TodoText(i) /\ i # 1 => i - 1 \in Int /\ 1 < i /\ TodoText(i - 1)' /\ todo'[i - 1] = todo[i]
    /\ TodoDone(i)' => i + 1 \in Int /\ 1 < i + 1 /\ TodoDone(i + 1) /\ todo'[i] = todo[i + 1]
    /\ TodoDone(i) /\ i # 1 => i - 1 \in Int /\ 1 < i /\ TodoDone(i - 1)' /\ todo'[i - 1] = todo[i]

DownKept ==
  \A i \in Int :
    /\ downward'[i] = downward[i]
    /\ DownText(i)' <=> DownText(i)
    /\ DownCleared(i)' <=> DownCleared(i)
    /\ DownDone(i)' <=> DownDone(i)
DownGrows(kind, n) ==
  /\ Len(downward) + 1 \in Int /\ downward'[Len(downward) + 1].n = n
  /\ \A i \in Int :
       /\ DownText(i) => DownText(i)' /\ i < Len(downward) + 1 /\ downward'[i] = downward[i]
       /\ DownText(i)' =>
            \/ DownText(i) /\ i < Len(downward) + 1 /\ downward'[i] = downward[i]
            \/ i = Len(downward) + 1 /\ kind = "audio"
       /\ i = Len(downward) + 1 /\ kind = "audio" => DownText(i)'
       /\ DownCleared(i) => DownCleared(i)' /\ i < Len(downward) + 1 /\ downward'[i] = downward[i]
       /\ DownCleared(i)' =>
            \/ DownCleared(i) /\ i < Len(downward) + 1 /\ downward'[i] = downward[i]
            \/ i = Len(downward) + 1 /\ kind = "cleared"
       /\ i = Len(downward) + 1 /\ kind = "cleared" => DownCleared(i)'
       /\ DownDone(i) => DownDone(i)' /\ i < Len(downward) + 1 /\ downward'[i] = downward[i]
       /\ DownDone(i)' =>
            \/ DownDone(i) /\ i < Len(downward) + 1 /\ downward'[i] = downward[i]
            \/ i = Len(downward) + 1 /\ kind = "done"
       /\ i = Len(downward) + 1 /\ kind = "done" => DownDone(i)'
DownMoves ==
  \A i \in Int :
    /\ DownText(i)' => i + 1 \in Int /\ 1 < i + 1 /\ DownText(i + 1) /\ downward'[i] = downward[i + 1]
    /\ DownText(i) /\ i # 1 => i - 1 \in Int /\ 1 < i /\ DownText(i - 1)' /\ downward'[i - 1] = downward[i]
    /\ DownCleared(i)' => i + 1 \in Int /\ 1 < i + 1 /\ DownCleared(i + 1) /\ downward'[i] = downward[i + 1]
    /\ DownCleared(i) /\ i # 1 => i - 1 \in Int /\ 1 < i /\ DownCleared(i - 1)' /\ downward'[i - 1] = downward[i]
    /\ DownDone(i)' => i + 1 \in Int /\ 1 < i + 1 /\ DownDone(i + 1) /\ downward'[i] = downward[i + 1]
    /\ DownDone(i) /\ i # 1 => i - 1 \in Int /\ 1 < i /\ DownDone(i - 1)' /\ downward'[i - 1] = downward[i]

LEMMA UpIsKept == UNCHANGED upward => UpKept
BY DEF UpKept, UpText, UpClear, UpDone

LEMMA UpIsAppended ==
  ASSUME upward \in Seq(Message), NEW kind \in {"text", "clear", "done"}, NEW n \in Int,
         upward' = Append(upward, [kind |-> kind, n |-> n])
  PROVE  UpGrows(kind, n)
<1> DEFINE m == [kind |-> kind, n |-> n]
<1>0. m \in Message /\ m.kind = kind /\ m.n = n /\ upward' = Append(upward, m)
  BY DEF Message
<1> HIDE DEF m
<1>1. /\ Len(upward) \in Nat /\ Len(upward') = Len(upward) + 1
      /\ \A i \in 1 .. Len(upward) : upward'[i] = upward[i]
      /\ upward'[Len(upward) + 1] = m
  BY <1>0, AfterAppend
<1>2. \A i \in Int : /\ i \in 1 .. Len(upward) => i \in 1 .. Len(upward') /\ i < Len(upward) + 1
                     /\ i \in 1 .. Len(upward') => i \in 1 .. Len(upward) \/ i = Len(upward) + 1
                     /\ i = Len(upward) + 1 => i \in 1 .. Len(upward')
  BY <1>1
<1>3. Len(upward) + 1 \in Int
  BY <1>1
<1>4. \A i \in Int :
       /\ UpText(i) => UpText(i)' /\ i < Len(upward) + 1 /\ upward'[i] = upward[i]
       /\ UpText(i)' =>
            \/ UpText(i) /\ i < Len(upward) + 1 /\ upward'[i] = upward[i]
            \/ i = Len(upward) + 1 /\ kind = "text"
       /\ i = Len(upward) + 1 /\ kind = "text" => UpText(i)'
  BY <1>0, <1>1, <1>2 DEF UpText
<1>5. \A i \in Int :
       /\ UpClear(i) => UpClear(i)' /\ i < Len(upward) + 1 /\ upward'[i] = upward[i]
       /\ UpClear(i)' =>
            \/ UpClear(i) /\ i < Len(upward) + 1 /\ upward'[i] = upward[i]
            \/ i = Len(upward) + 1 /\ kind = "clear"
       /\ i = Len(upward) + 1 /\ kind = "clear" => UpClear(i)'
  BY <1>0, <1>1, <1>2 DEF UpClear
<1>6. \A i \in Int :
       /\ UpDone(i) => UpDone(i)' /\ i < Len(upward) + 1 /\ upward'[i] = upward[i]
       /\ UpDone(i)' =>
            \/ UpDone(i) /\ i < Len(upward) + 1 /\ upward'[i] = upward[i]
            \/ i = Len(upward) + 1 /\ kind = "done"
       /\ i = Len(upward) + 1 /\ kind = "done" => UpDone(i)'
  BY <1>0, <1>1, <1>2 DEF UpDone
<1> QED
  BY <1>0, <1>1, <1>3, <1>4, <1>5, <1>6 DEF UpGrows

LEMMA UpIsTaken ==
  ASSUME upward \in Seq(Message), upward # <<>>, upward' = Tail(upward)
  PROVE  UpMoves /\ Head(upward) = upward[1] /\ upward[1] \in Message /\ 1 \in 1 .. Len(upward)
<1>1. /\ Len(upward) \in Nat /\ 1 <= Len(upward) /\ Head(upward) = upward[1] /\ upward[1] \in Message
      /\ Len(upward') = Len(upward) - 1
      /\ \A i \in 1 .. Len(upward) - 1 : upward'[i] = upward[i + 1]
  BY AfterTail
<1>2. \A i \in Int : i \in 1 .. Len(upward') => /\ i + 1 \in 1 .. Len(upward) /\ i + 1 \in Int
                                              /\ 1 < i + 1 /\ upward'[i] = upward[i + 1]
  BY <1>1
<1>3. \A i \in Int : i \in 1 .. Len(upward) /\ i # 1 =>
        i - 1 \in 1 .. Len(upward') /\ i - 1 \in Int /\ 1 < i /\ upward'[i - 1] = upward[i]
  <2> SUFFICES ASSUME NEW i \in Int, i \in 1 .. Len(upward), i # 1
               PROVE  i - 1 \in 1 .. Len(upward') /\ i - 1 \in Int /\ 1 < i /\ upward'[i - 1] = upward[i]
    OBVIOUS
  <2>1. i - 1 \in 1 .. Len(upward) - 1 /\ (i - 1) + 1 = i
    BY <1>1
  <2> QED
    BY <1>1, <2>1
<1>4. \A i \in Int :
       /\ UpText(i)' => i + 1 \in Int /\ 1 < i + 1 /\ UpText(i + 1) /\ upward'[i] = upward[i + 1]
       /\ UpText(i) /\ i # 1 => i - 1 \in Int /\ 1 < i /\ UpText(i - 1)' /\ upward'[i - 1] = upward[i]
  BY <1>2, <1>3 DEF UpText
<1>5. \A i \in Int :
       /\ UpClear(i)' => i + 1 \in Int /\ 1 < i + 1 /\ UpClear(i + 1) /\ upward'[i] = upward[i + 1]
       /\ UpClear(i) /\ i # 1 => i - 1 \in Int /\ 1 < i /\ UpClear(i - 1)' /\ upward'[i - 1] = upward[i]
  BY <1>2, <1>3 DEF UpClear
<1>6. \A i \in Int :
       /\ UpDone(i)' => i + 1 \in Int /\ 1 < i + 1 /\ UpDone(i + 1) /\ upward'[i] = upward[i + 1]
       /\ UpDone(i) /\ i # 1 => i - 1 \in Int /\ 1 < i /\ UpDone(i - 1)' /\ upward'[i - 1] = upward[i]
  BY <1>2, <1>3 DEF UpDone
<1>7. 1 \in 1 .. Len(upward)
  BY <1>1
<1> QED
  BY <1>1, <1>7, <1>4, <1>5, <1>6 DEF UpMoves

LEMMA TodoIsKept == UNCHANGED todo => TodoKept
BY DEF TodoKept, TodoText, TodoDone

LEMMA TodoIsAppended ==
  ASSUME todo \in Seq(Int), NEW n \in Int, todo' = Append(todo, n)
  PROVE  TodoGrows(n)
<1>1. /\ Len(todo) \in Nat /\ Len(todo') = Len(todo) + 1
      /\ \A i \in 1 .. Len(todo) : todo'[i] = todo[i]
      /\ todo'[Len(todo) + 1] = n
  BY AfterAppend
<1>2. \A i \in Int : /\ i \in 1 .. Len(todo) => i \in 1 .. Len(todo') /\ i < Len(todo) + 1
                     /\ i \in 1 .. Len(todo') => i \in 1 .. Len(todo) \/ i = Len(todo) + 1
                     /\ i = Len(todo) + 1 => i \in 1 .. Len(todo')
  BY <1>1
<1>3. Len(todo) + 1 \in Int
  BY <1>1
<1>4. \A i \in Int :
       /\ TodoText(i) => TodoText(i)' /\ i < Len(todo) + 1 /\ todo'[i] = todo[i]
       /\ TodoText(i)' =>
            \/ TodoText(i) /\ i < Len(todo) + 1 /\ todo'[i] = todo[i]
            \/ i = Len(todo) + 1 /\ n # End
       /\ i = Len(todo) + 1 /\ n # End => TodoText(i)'
  BY <1>1, <1>2 DEF TodoText
<1>5. \A i \in Int :
       /\ TodoDone(i) => TodoDone(i)' /\ i < Len(todo) + 1 /\ todo'[i] = todo[i]
       /\ TodoDone(i)' =>
            \/ TodoDone(i) /\ i < Len(todo) + 1 /\ todo'[i] = todo[i]
            \/ i = Len(todo) + 1 /\ n = End
       /\ i = Len(todo) + 1 /\ n = End => TodoDone(i)'
  BY <1>1, <1>2 DEF TodoDone
<1> QED
  BY <1>1, <1>3, <1>4, <1>5 DEF TodoGrows

LEMMA TodoIsTaken ==
  ASSUME todo \in Seq(Int), todo # <<>>, todo' = Tail(todo)
  PROVE  TodoMoves /\ Head(todo) = todo[1] /\ todo[1] \in Int /\ 1 \in 1 .. Len(todo)
<1>1. /\ Len(todo) \in Nat /\ 1 <= Len(todo) /\ Head(todo) = todo[1] /\ todo[1] \in Int
      /\ Len(todo') = Len(todo) - 1
      /\ \A i \in 1 .. Len(todo) - 1 : todo'[i] = todo[i + 1]
  BY AfterTail
<1>2. \A i \in Int : i \in 1 .. Len(todo') => /\ i + 1 \in 1 .. Len(todo) /\ i + 1 \in Int
                                              /\ 1 < i + 1 /\ todo'[i] = todo[i + 1]
  BY <1>1
<1>3. \A i \in Int : i \in 1 .. Len(todo) /\ i # 1 =>
        i - 1 \in 1 .. Len(todo') /\ i - 1 \in Int /\ 1 < i /\ todo'[i - 1] = todo[i]
  <2> SUFFICES ASSUME NEW i \in Int, i \in 1 .. Len(todo), i # 1
               PROVE  i - 1 \in 1 .. Len(todo') /\ i - 1 \in Int /\ 1 < i /\ todo'[i - 1] = todo[i]
    OBVIOUS
  <2>1. i - 1 \in 1 .. Len(todo) - 1 /\ (i - 1) + 1 = i
    BY <1>1
  <2> QED
    BY <1>1, <2>1
<1>4. \A i \in Int :
       /\ TodoText(i)' => i + 1 \in Int /\ 1 < i + 1 /\ TodoText(i + 1) /\ todo'[i] = todo[i + 1]
       /\ TodoText(i) /\ i # 1 => i - 1 \in Int /\ 1 < i /\ TodoText(i - 1)' /\ todo'[i - 1] = todo[i]
  BY <1>2, <1>3 DEF TodoText
<1>5. \A i \in Int :
       /\ TodoDone(i)' => i + 1 \in Int /\ 1 < i + 1 /\ TodoDone(i + 1) /\ todo'[i] = todo[i + 1]
       /\ TodoDone(i) /\ i # 1 => i - 1 \in Int /\ 1 < i /\ TodoDone(i - 1)' /\ todo'[i - 1] = todo[i]
  BY <1>2, <1>3 DEF TodoDone
<1>6. 1 \in 1 .. Len(todo)
  BY <1>1
<1> QED
  BY <1>1, <1>6, <1>4, <1>5 DEF TodoMoves

LEMMA DownIsKept == UNCHANGED downward => DownKept
BY DEF DownKept, DownText, DownCleared, DownDone

LEMMA DownIsAppended ==
  ASSUME downward \in Seq(Event), NEW kind \in {"audio", "cleared", "done", "error"}, NEW n \in Int,
         downward' = Append(downward, [kind |-> kind, n |-> n])
  PROVE  DownGrows(kind, n)
<1> DEFINE m == [kind |-> kind, n |-> n]
<1>0. m \in Event /\ m.kind = kind /\ m.n = n /\ downward' = Append(downward, m)
  BY DEF Event
<1> HIDE DEF m
<1>1. /\ Len(downward) \in Nat /\ Len(downward') = Len(downward) + 1
      /\ \A i \in 1 .. Len(downward) : downward'[i] = downward[i]
      /\ downward'[Len(downward) + 1] = m
  BY <1>0, AfterAppend
<1>2. \A i \in Int : /\ i \in 1 .. Len(downward) => i \in 1 .. Len(downward') /\ i < Len(downward) + 1
                     /\ i \in 1 .. Len(downward') => i \in 1 .. Len(downward) \/ i = Len(downward) + 1
                     /\ i = Len(downward) + 1 => i \in 1 .. Len(downward')
  BY <1>1
<1>3. Len(downward) + 1 \in Int
  BY <1>1
<1>4. \A i \in Int :
       /\ DownText(i) => DownText(i)' /\ i < Len(downward) + 1 /\ downward'[i] = downward[i]
       /\ DownText(i)' =>
            \/ DownText(i) /\ i < Len(downward) + 1 /\ downward'[i] = downward[i]
            \/ i = Len(downward) + 1 /\ kind = "audio"
       /\ i = Len(downward) + 1 /\ kind = "audio" => DownText(i)'
  BY <1>0, <1>1, <1>2 DEF DownText
<1>5. \A i \in Int :
       /\ DownCleared(i) => DownCleared(i)' /\ i < Len(downward) + 1 /\ downward'[i] = downward[i]
       /\ DownCleared(i)' =>
            \/ DownCleared(i) /\ i < Len(downward) + 1 /\ downward'[i] = downward[i]
            \/ i = Len(downward) + 1 /\ kind = "cleared"
       /\ i = Len(downward) + 1 /\ kind = "cleared" => DownCleared(i)'
  BY <1>0, <1>1, <1>2 DEF DownCleared
<1>6. \A i \in Int :
       /\ DownDone(i) => DownDone(i)' /\ i < Len(downward) + 1 /\ downward'[i] = downward[i]
       /\ DownDone(i)' =>
            \/ DownDone(i) /\ i < Len(downward) + 1 /\ downward'[i] = downward[i]
            \/ i = Len(downward) + 1 /\ kind = "done"
       /\ i = Len(downward) + 1 /\ kind = "done" => DownDone(i)'
  BY <1>0, <1>1, <1>2 DEF DownDone
<1> QED
  BY <1>0, <1>1, <1>3, <1>4, <1>5, <1>6 DEF DownGrows

LEMMA DownIsTaken ==
  ASSUME downward \in Seq(Event), downward # <<>>, downward' = Tail(downward)
  PROVE  DownMoves /\ Head(downward) = downward[1] /\ downward[1] \in Event /\ 1 \in 1 .. Len(downward)
<1>1. /\ Len(downward) \in Nat /\ 1 <= Len(downward) /\ Head(downward) = downward[1] /\ downward[1] \in Event
      /\ Len(downward') = Len(downward) - 1
      /\ \A i \in 1 .. Len(downward) - 1 : downward'[i] = downward[i + 1]
  BY AfterTail
<1>2. \A i \in Int : i \in 1 .. Len(downward') => /\ i + 1 \in 1 .. Len(downward) /\ i + 1 \in Int
                                              /\ 1 < i + 1 /\ downward'[i] = downward[i + 1]
  BY <1>1
<1>3. \A i \in Int : i \in 1 .. Len(downward) /\ i # 1 =>
        i - 1 \in 1 .. Len(downward') /\ i - 1 \in Int /\ 1 < i /\ downward'[i - 1] = downward[i]
  <2> SUFFICES ASSUME NEW i \in Int, i \in 1 .. Len(downward), i # 1
               PROVE  i - 1 \in 1 .. Len(downward') /\ i - 1 \in Int /\ 1 < i /\ downward'[i - 1] = downward[i]
    OBVIOUS
  <2>1. i - 1 \in 1 .. Len(downward) - 1 /\ (i - 1) + 1 = i
    BY <1>1
  <2> QED
    BY <1>1, <2>1
<1>4. \A i \in Int :
       /\ DownText(i)' => i + 1 \in Int /\ 1 < i + 1 /\ DownText(i + 1) /\ downward'[i] = downward[i + 1]
       /\ DownText(i) /\ i # 1 => i - 1 \in Int /\ 1 < i /\ DownText(i - 1)' /\ downward'[i - 1] = downward[i]
  BY <1>2, <1>3 DEF DownText
<1>5. \A i \in Int :
       /\ DownCleared(i)' => i + 1 \in Int /\ 1 < i + 1 /\ DownCleared(i + 1) /\ downward'[i] = downward[i + 1]
       /\ DownCleared(i) /\ i # 1 => i - 1 \in Int /\ 1 < i /\ DownCleared(i - 1)' /\ downward'[i - 1] = downward[i]
  BY <1>2, <1>3 DEF DownCleared
<1>6. \A i \in Int :
       /\ DownDone(i)' => i + 1 \in Int /\ 1 < i + 1 /\ DownDone(i + 1) /\ downward'[i] = downward[i + 1]
       /\ DownDone(i) /\ i # 1 => i - 1 \in Int /\ 1 < i /\ DownDone(i - 1)' /\ downward'[i - 1] = downward[i]
  BY <1>2, <1>3 DEF DownDone
<1>7. 1 \in 1 .. Len(downward)
  BY <1>1
<1> QED
  BY <1>1, <1>7, <1>4, <1>5, <1>6 DEF DownMoves


----------------------------------------------------------------------------
(* What the actions do to the queues.                                      *)
LEMMA ReadTextMoves ==
  ASSUME NativeTypes, ReadText
  PROVE  /\ texts' = texts + 1 /\ TodoKept /\ DownKept /\ reader = "recv" /\ ~finalized
         /\ UNCHANGED <<clearing, clears, dropping, socket, finalized, pump, seq, out, offset, stream>>
         /\ \/ socket = "open" /\ UpGrows("text", texts + 1) /\ UNCHANGED reader
            \/ socket # "open" /\ UpKept /\ reader' = "failed"
<1>1. upward \in Seq(Message) /\ texts + 1 \in Int
  BY DEF NativeTypes
<1>2. \/ /\ socket = "open" /\ upward' = Append(upward, [kind |-> "text", n |-> texts + 1])
         /\ UNCHANGED reader
      \/ socket # "open" /\ reader' = "failed" /\ UNCHANGED upward
  BY DEF ReadText, Sends
<1>3. /\ texts' = texts + 1 /\ UNCHANGED <<todo, downward>> /\ reader = "recv" /\ ~finalized
      /\ UNCHANGED <<clearing, clears, dropping, socket, finalized, pump, seq, out, offset, stream>>
  BY DEF ReadText, Taking
<1> QED
  BY <1>1, <1>2, <1>3, UpIsAppended, UpIsKept, TodoIsKept, DownIsKept

LEMMA ReadFinalizeMoves ==
  ASSUME NativeTypes, ReadFinalize
  PROVE  /\ TodoKept /\ DownKept /\ reader = "recv" /\ finalized' = TRUE
         /\ UNCHANGED <<texts, clearing, clears, dropping, socket, pump, seq, out>>
         /\ \/ socket = "open" /\ UpGrows("done", 0) /\ UNCHANGED reader
            \/ socket # "open" /\ UpKept /\ reader' = "failed"
<1>1. upward \in Seq(Message)
  BY DEF NativeTypes
<1>2. \/ /\ socket = "open" /\ upward' = Append(upward, [kind |-> "done", n |-> 0])
         /\ UNCHANGED reader
      \/ socket # "open" /\ reader' = "failed" /\ UNCHANGED upward
  BY DEF ReadFinalize, Sends, Signal
<1>3. /\ UNCHANGED <<todo, downward>> /\ reader = "recv" /\ finalized' = TRUE
      /\ UNCHANGED <<texts, clearing, clears, dropping, socket, pump, seq, out>>
  BY DEF ReadFinalize, Taking
<1> QED
  BY <1>1, <1>2, <1>3, UpIsAppended, UpIsKept, TodoIsKept, DownIsKept

LEMMA ReadClearMoves ==
  ASSUME NativeTypes, ReadClear
  PROVE  /\ TodoKept /\ DownKept /\ reader = "recv" /\ dropping' = TRUE
         /\ UNCHANGED <<texts, finalized, socket, pump, seq, out, stream>>
         /\ \E at \in Int :
              /\ offset < at /\ offset' = IF stream = "flux" THEN at ELSE offset
              /\ [texts |-> texts, alone |-> Alone, at |-> at] \in ClearRecord
              /\ clears' = Append(clears, [texts |-> texts, alone |-> Alone, at |-> at])
              /\ \/ socket = "open" /\ UpGrows("clear", at) /\ clearing' = TRUE /\ reader' = "clearing"
                 \/ socket # "open" /\ UpKept /\ reader' = "failed" /\ UNCHANGED clearing
<1>1. upward \in Seq(Message)
  BY DEF NativeTypes
<1>2. /\ UNCHANGED <<todo, downward>> /\ reader = "recv" /\ dropping' = TRUE
      /\ UNCHANGED <<texts, finalized, socket, pump, seq, out, stream>>
  BY DEF ReadClear, Taking
<1>3. PICK at \in Int :
        /\ offset < at /\ offset' = IF stream = "flux" THEN at ELSE offset
        /\ [texts |-> texts, alone |-> Alone, at |-> at] \in ClearRecord
        /\ clears' = Append(clears, [texts |-> texts, alone |-> Alone, at |-> at])
        /\ \/ /\ socket = "open" /\ upward' = Append(upward, [kind |-> "clear", n |-> at])
              /\ clearing' = TRUE /\ reader' = "clearing"
           \/ socket # "open" /\ reader' = "failed" /\ UNCHANGED <<upward, clearing>>
  BY ClearTaken
<1>4. \/ socket = "open" /\ UpGrows("clear", at) /\ clearing' = TRUE /\ reader' = "clearing"
      \/ socket # "open" /\ UpKept /\ reader' = "failed" /\ UNCHANGED clearing
  BY <1>1, <1>3, UpIsAppended, UpIsKept
<1>5. TodoKept /\ DownKept
  BY <1>2, TodoIsKept, DownIsKept
<1> QED
  BY <1>2, <1>3, <1>4, <1>5

LEMMA PumpMoves ==
  ASSUME NativeTypes, PumpAudio \/ PumpAck \/ PumpDone \/ PumpError
  PROVE  /\ DownMoves /\ UpKept /\ TodoKept /\ pump = "recv" /\ downward[1] = Head(downward)
         /\ UNCHANGED <<reader, texts, clearing, clears, socket, finalized, sent, stream>>
         /\ PumpAudio => DownText(1) /\ UNCHANGED dropping
         /\ PumpAck => DownCleared(1) /\ UNCHANGED <<pump, seq, out>> /\ dropping' = FALSE
         /\ PumpDone => /\ DownDone(1) /\ ~DownText(1) /\ ~DownCleared(1) /\ UNCHANGED <<seq, out, dropping>>
                        /\ pump' = pump \/ (pump' = "ended" /\ finishing)
         /\ PumpError => /\ ~DownText(1) /\ ~DownCleared(1) /\ UNCHANGED <<seq, out, dropping>>
                         /\ pump' = "failed"
<1>1. downward \in Seq(Event) /\ downward # <<>> /\ downward' = Tail(downward) /\ pump = "recv"
  BY DEF PumpAudio, PumpAck, PumpDone, PumpError, Pumping, NativeTypes
<1>2. UNCHANGED <<upward, todo, reader, texts, clearing, clears, socket, finalized, sent, stream>>
  BY DEF PumpAudio, PumpAck, PumpDone, PumpError
<1>3. DownMoves /\ Head(downward) = downward[1] /\ 1 \in 1 .. Len(downward)
  BY <1>1, DownIsTaken
<1>4. UpKept /\ TodoKept
  BY <1>2, UpIsKept, TodoIsKept
<1>5. PumpAudio => downward[1].kind = "audio" /\ UNCHANGED dropping
  BY <1>3 DEF PumpAudio
<1>6. PumpAck => downward[1].kind = "cleared" /\ UNCHANGED <<pump, seq, out>> /\ dropping' = FALSE
  BY <1>3 DEF PumpAck, Answered
<1>7. PumpDone => /\ downward[1].kind = "done" /\ UNCHANGED <<seq, out, dropping>>
                  /\ pump' = pump \/ (pump' = "ended" /\ finishing)
  BY <1>3 DEF PumpDone, AudioEnds, LastUtterance
<1>8. PumpError => downward[1].kind = "error" /\ UNCHANGED <<seq, out, dropping>> /\ pump' = "failed"
  BY <1>3 DEF PumpError, AudioEnds
<1>9. /\ downward[1].kind = "audio" => DownText(1)
      /\ downward[1].kind = "cleared" => DownCleared(1)
      /\ downward[1].kind = "done" => DownDone(1)
      /\ downward[1].kind # "audio" => ~DownText(1)
      /\ downward[1].kind # "cleared" => ~DownCleared(1)
  BY <1>3 DEF DownText, DownCleared, DownDone
<1>10. PumpDone => DownDone(1) /\ ~DownText(1) /\ ~DownCleared(1)
  BY <1>7, <1>9
<1>11. PumpError => ~DownText(1) /\ ~DownCleared(1)
  BY <1>8, <1>9
<1> QED
  BY <1>1, <1>2, <1>3, <1>4, <1>5, <1>6, <1>7, <1>8, <1>9, <1>10, <1>11

LEMMA VendorReadsMoves ==
  ASSUME NativeTypes, VendorReads
  PROVE  /\ UpMoves /\ socket = "open"
         /\ UNCHANGED <<reader, pump, texts, clearing, clears, socket, finalized, seq, sent, out, dropping>>
         /\ \/ UpText(1) /\ TodoGrows(upward[1].n) /\ DownKept /\ ~UpClear(1)
            \/ UpDone(1) /\ TodoGrows(End) /\ DownKept /\ ~UpClear(1) /\ ~UpText(1)
            \/ /\ UpClear(1) /\ ~UpText(1) /\ \E n \in Int : DownGrows("cleared", n)
               /\ \A i \in Int : ~TodoText(i)' /\ (TodoDone(i)' => \E p \in Int : TodoDone(p))
<1>1. upward \in Seq(Message) /\ upward # <<>> /\ upward' = Tail(upward)
  BY DEF VendorReads, NativeTypes
<1>2. /\ socket = "open"
      /\ UNCHANGED <<reader, pump, texts, clearing, clears, socket, finalized, seq, sent, out, dropping>>
  BY DEF VendorReads
<1>3. UpMoves /\ Head(upward) = upward[1] /\ upward[1] \in Message /\ 1 \in 1 .. Len(upward)
  BY <1>1, UpIsTaken
<1>4. upward[1].n \in Int /\ upward[1].kind \in {"text", "done", "clear"} /\ End \in Int
  BY <1>3 DEF Message, End
<1>5. CASE upward[1].kind = "text"
  <2>1. todo' = Append(todo, upward[1].n) /\ UNCHANGED downward
    BY <1>3, <1>5 DEF VendorReads
  <2>2. TodoGrows(upward[1].n) /\ DownKept
    BY <1>4, <2>1, TodoIsAppended, DownIsKept DEF NativeTypes
  <2>3. UpText(1) /\ ~UpClear(1)
    BY <1>3, <1>5 DEF UpText, UpClear
  <2> QED
    BY <1>2, <1>3, <2>2, <2>3
<1>6. CASE upward[1].kind = "done"
  <2>1. todo' = Append(todo, End) /\ UNCHANGED downward
    BY <1>3, <1>6 DEF VendorReads
  <2>2. TodoGrows(End) /\ DownKept
    BY <1>4, <2>1, TodoIsAppended, DownIsKept DEF NativeTypes
  <2>3. UpDone(1) /\ ~UpClear(1) /\ ~UpText(1)
    BY <1>3, <1>6 DEF UpText, UpClear, UpDone
  <2> QED
    BY <1>2, <1>3, <2>2, <2>3
<1>7. CASE upward[1].kind = "clear"
  <2>1. /\ todo' = IF \E i \in DOMAIN todo : todo[i] = End THEN <<End>> ELSE <<>>
        /\ downward' = Append(downward, [kind |-> "cleared", n |-> upward[1].n])
    BY <1>3, <1>7 DEF VendorReads
  <2>2. DownGrows("cleared", upward[1].n)
    BY <1>4, <2>1, DownIsAppended DEF NativeTypes
  <2>3. UpClear(1) /\ ~UpText(1)
    BY <1>3, <1>7 DEF UpText, UpClear
  <2>4. \A i \in Int : ~TodoText(i)'
    BY <2>1 DEF TodoText
  <2>5. \A i \in Int : TodoDone(i)' => \E p \in Int : TodoDone(p)
    <3>1. DOMAIN todo = 1 .. Len(todo)
      BY LenProperties DEF NativeTypes
    <3> SUFFICES ASSUME NEW i \in Int, TodoDone(i)' PROVE \E p \in Int : TodoDone(p)
      OBVIOUS
    <3>2. \E p \in DOMAIN todo : todo[p] = End
      BY <2>1 DEF TodoDone
    <3> QED
      BY <3>1, <3>2 DEF TodoDone
  <2> QED
    BY <1>2, <1>3, <1>4, <2>2, <2>3, <2>4, <2>5
<1> QED
  BY <1>4, <1>5, <1>6, <1>7

LEMMA VendorVoicesMoves ==
  ASSUME NativeTypes, VendorVoices
  PROVE  /\ TodoMoves /\ UpKept
         /\ UNCHANGED <<reader, pump, texts, clearing, clears, socket, finalized, seq, sent, out, dropping>>
         /\ \/ TodoText(1) /\ DownGrows("audio", todo[1])
            \/ TodoDone(1) /\ ~TodoText(1) /\ DownGrows("done", 0)
<1>1. todo \in Seq(Int) /\ todo # <<>> /\ todo' = Tail(todo) /\ downward \in Seq(Event)
  BY DEF VendorVoices, NativeTypes
<1>2. UNCHANGED <<upward, reader, pump, texts, clearing, clears, socket, finalized, seq, sent, out, dropping>>
  BY DEF VendorVoices
<1>3. TodoMoves /\ Head(todo) = todo[1] /\ todo[1] \in Int /\ 1 \in 1 .. Len(todo)
  BY <1>1, TodoIsTaken
<1>4. CASE todo[1] = End
  <2>1. downward' = Append(downward, [kind |-> "done", n |-> 0])
    BY <1>3, <1>4 DEF VendorVoices, Signal
  <2>2. DownGrows("done", 0)
    BY <1>1, <2>1, DownIsAppended
  <2>3. TodoDone(1) /\ ~TodoText(1)
    BY <1>3, <1>4 DEF TodoDone, TodoText
  <2> QED
    BY <1>2, <1>3, <2>2, <2>3, UpIsKept
<1>5. CASE todo[1] # End
  <2>1. downward' = Append(downward, [kind |-> "audio", n |-> todo[1]])
    BY <1>3, <1>5 DEF VendorVoices
  <2>2. DownGrows("audio", todo[1])
    BY <1>1, <1>3, <2>1, DownIsAppended
  <2>3. TodoText(1)
    BY <1>3, <1>5 DEF TodoText
  <2> QED
    BY <1>2, <1>3, <2>2, <2>3, UpIsKept
<1> QED
  BY <1>4, <1>5

LEMMA VendorBreaksMoves ==
  ASSUME NativeTypes, VendorBreaks
  PROVE  /\ UpKept /\ TodoKept /\ socket' # "open" /\ (DownKept \/ DownGrows("error", 0))
         /\ UNCHANGED <<reader, pump, texts, clearing, clears, finalized, seq, sent, out, dropping>>
<1>1. UNCHANGED downward \/ downward' = Append(downward, [kind |-> "error", n |-> 0])
  BY DEF VendorBreaks, Signal
<1>2. /\ socket' # "open"
      /\ UNCHANGED <<upward, todo, reader, pump, texts, clearing, clears, finalized, seq, sent, out, dropping>>
  BY DEF VendorBreaks
<1>3. UpKept /\ TodoKept
  BY <1>2, UpIsKept, TodoIsKept
<1>4. downward \in Seq(Event) /\ 0 \in Int
  BY DEF NativeTypes
<1>5. DownKept \/ DownGrows("error", 0)
  BY <1>1, <1>4, DownIsKept, DownIsAppended
<1> QED
  BY <1>2, <1>3, <1>5

LEMMA LastClearedIs ==
  ASSUME NativeTypes
  PROVE  /\ LastCleared \in Int
         /\ \A c \in ClearRecord : clears' = Append(clears, c) => LastCleared' = c.texts
         /\ UNCHANGED clears => LastCleared' = LastCleared
<1>1. LastCleared \in Int
  <2>1. CASE clears = <<>>
    BY <2>1 DEF LastCleared
  <2>2. CASE clears # <<>>
    <3>1. Len(clears) \in 1 .. Len(clears)
      BY <2>2, LenProperties, EmptySeq DEF NativeTypes
    <3>2. clears[Len(clears)] \in ClearRecord
      BY <3>1, ElementOfSeq DEF NativeTypes, ClearRecord
    <3> QED
      BY <2>2, <3>2 DEF LastCleared, ClearRecord
  <2> QED
    BY <2>1, <2>2
<1>2. ASSUME NEW c \in ClearRecord, clears' = Append(clears, c) PROVE LastCleared' = c.texts
  <2>1. /\ Len(clears) \in Nat /\ Len(clears') = Len(clears) + 1
        /\ clears'[Len(clears) + 1] = c
    BY <1>2, AfterAppend DEF NativeTypes, ClearRecord
  <2>2. clears' # <<>>
    BY <2>1
  <2> QED
    BY <2>1, <2>2 DEF LastCleared
<1> QED
  BY <1>1, <1>2 DEF LastCleared

LEMMA OthersLeaveNotes ==
  ASSUME [Next]_vars
  PROVE  ReadText \/ ReadClear
         \/ UNCHANGED <<clears, offset, texts, stream>>
BY DEF vars, Next, Reader, ReaderGoesOn, Pump, Run, Vendor, Open, OpenFails, DecideByPump,
   DecideByOther, Finish, Trip, ReadFinalize, ReadDisconnect, ClearAnswered, SayCleared,
   PumpAudio, PumpSent, PumpAck, PumpDone, PumpError, PumpClosed, PumpLeft, VendorReads,
   VendorVoices, VendorBreaks

LEMMA NotesStep == NativeTypes /\ NotesInv /\ [Next]_vars => NotesInv'
<1> SUFFICES ASSUME NativeTypes, NotesInv, [Next]_vars PROVE NotesInv'
  OBVIOUS
<1>a. texts \in Int /\ offset \in Int /\ Len(clears) \in Nat
  BY LenProperties DEF NativeTypes
<1>b. \A k \in 1 .. Len(clears) : clears[k].texts \in Int /\ clears[k].at \in Int
  <2>1. \A k \in 1 .. Len(clears) : clears[k] \in ClearRecord
    BY ElementOfSeq DEF NativeTypes, ClearRecord
  <2> QED
    BY <2>1 DEF ClearRecord
<1>1. CASE UNCHANGED <<clears, offset, texts, stream>>
  BY <1>1 DEF NotesInv
<1>2. CASE ReadText
  BY <1>2, <1>a, <1>b, ReadTextMoves DEF NotesInv
<1>3. CASE ReadClear
  <2>1. PICK at \in Int :
          /\ offset < at /\ offset' = IF stream = "flux" THEN at ELSE offset
          /\ [texts |-> texts, alone |-> Alone, at |-> at] \in ClearRecord
          /\ clears' = Append(clears, [texts |-> texts, alone |-> Alone, at |-> at])
    BY <1>3, ReadClearMoves
  <2>2. UNCHANGED <<texts, stream>>
    BY <1>3, ReadClearMoves
  <2>3. /\ Len(clears') = Len(clears) + 1
        /\ \A k \in 1 .. Len(clears) : clears'[k] = clears[k]
        /\ clears'[Len(clears) + 1] = [texts |-> texts, alone |-> Alone, at |-> at]
    BY <2>1, AfterAppend DEF NativeTypes, ClearRecord
  <2>4. \A k \in 1 .. Len(clears') : k \in 1 .. Len(clears) \/ k = Len(clears) + 1
    BY <1>a, <2>3
  <2>5. texts <= texts /\ at <= at
    BY <1>a
  <2>6. \A k \in 1 .. Len(clears') : clears'[k].texts <= texts'
    BY <2>2, <2>3, <2>4, <2>5 DEF NotesInv
  <2>7. ASSUME stream = "flux"
        PROVE  /\ \A i \in 1 .. Len(clears') : clears'[i].at <= offset'
               /\ \A i, j \in 1 .. Len(clears') : i < j => clears'[i].at < clears'[j].at
    <3>1. offset' = at
      BY <2>1, <2>7
    <3>2. \A i \in 1 .. Len(clears) : clears[i].at < at /\ clears[i].at <= at
      BY <1>a, <1>b, <2>1, <2>7 DEF NotesInv
    <3>3. \A i \in 1 .. Len(clears') : clears'[i].at <= offset'
      BY <2>3, <2>4, <2>5, <3>1, <3>2
    <3>4. ASSUME NEW i \in 1 .. Len(clears'), NEW j \in 1 .. Len(clears'), i < j
          PROVE  clears'[i].at < clears'[j].at
      <4>1. i \in 1 .. Len(clears)
        BY <1>a, <2>3, <3>4
      <4>2. CASE j \in 1 .. Len(clears)
        BY <2>3, <2>7, <3>4, <4>1, <4>2 DEF NotesInv
      <4>3. CASE j = Len(clears) + 1
        BY <2>3, <3>2, <4>1, <4>3
      <4> QED
        BY <2>4, <4>2, <4>3
    <3> QED
      BY <3>3, <3>4
  <2> QED
    BY <2>2, <2>6, <2>7 DEF NotesInv
<1> QED
  BY <1>1, <1>2, <1>3, OthersLeaveNotes

LEMMA OthersLeaveEnds ==
  ASSUME [Next]_vars
  PROVE  OpenFails \/ ReadText \/ ReadFinalize \/ ReadClear \/ PumpAudio \/ PumpSent
         \/ PumpAck \/ PumpDone \/ PumpError \/ PumpClosed \/ PumpLeft \/ VendorReads
         \/ VendorVoices \/ VendorBreaks
         \/ UNCHANGED <<finalized, pump, socket, upward, downward, todo>>
BY DEF vars, Next, Reader, ReaderGoesOn, Pump, Run, Vendor, Open, DecideByPump, DecideByOther,
   Finish, Trip, ReadDisconnect, ClearAnswered, SayCleared

LEMMA EndStep == NativeTypes /\ CountsInv /\ UpOrder /\ EndInv /\ [Next]_vars => EndInv'
<1> SUFFICES ASSUME NativeTypes, CountsInv, UpOrder, UpEnds, TodoEnds, DownEnds, PumpEnds, [Next]_vars
             PROVE  EndInv'
  BY DEF EndInv
<1>a. Len(upward) \in Int /\ Len(todo) \in Int /\ Len(downward) \in Int
  BY LenProperties DEF NativeTypes
<1>1. CASE UNCHANGED <<finalized, pump, socket, upward, downward, todo>>
  BY <1>1 DEF EndInv, UpEnds, TodoEnds, DownEnds, PumpEnds, UpText, TodoText, DownText, UpDone, TodoDone,
              DownDone
<1>b. CASE OpenFails
  <2>1. UNCHANGED <<finalized, pump, upward, downward, todo>> /\ socket' # "open"
    BY <1>b DEF OpenFails
  <2> QED
    BY <2>1 DEF EndInv, UpEnds, TodoEnds, DownEnds, PumpEnds, UpText, TodoText, DownText, UpDone, TodoDone,
                DownDone
<1>2. CASE ReadText
  <2>1. ~finalized /\ UNCHANGED <<socket, finalized, pump>> /\ TodoKept /\ DownKept
    BY <1>2, ReadTextMoves
  <2>2. (\E n \in Int : UpGrows("text", n)) \/ UpKept
    <3>1. texts + 1 \in Int
      BY DEF NativeTypes
    <3> QED
      BY <1>2, <3>1, ReadTextMoves
  <2>3. \A i \in Int : UpDone(i)' => UpDone(i)
    BY <2>2 DEF UpKept, UpGrows
  <2>11. UpEnds'
    BY <2>1, <2>3 DEF UpEnds, TodoKept, DownKept
  <2>12. TodoEnds'
    BY <2>1, <2>3 DEF TodoEnds, TodoKept, DownKept
  <2>13. DownEnds'
    BY <2>1, <2>3 DEF DownEnds, TodoKept, DownKept
  <2>14. PumpEnds'
    BY <2>1, <2>3 DEF PumpEnds, TodoKept, DownKept
  <2> QED
    BY <2>11, <2>12, <2>13, <2>14 DEF EndInv
<1>3. CASE ReadFinalize
  <2>1. UNCHANGED <<socket, pump>> /\ finalized' = TRUE /\ TodoKept /\ DownKept
    BY <1>3, ReadFinalizeMoves
  <2>2. UpGrows("done", 0) \/ UpKept
    BY <1>3, ReadFinalizeMoves
  <2>3. \A i \in Int : UpText(i)' => UpText(i)
    BY <2>2 DEF UpKept, UpGrows
  <2>4. \A p, i \in Int : UpDone(p)' /\ UpText(i)' => i < p
    BY <2>2 DEF UpKept, UpGrows, UpEnds
  <2>11. UpEnds'
    BY <2>1, <2>3, <2>4 DEF UpEnds, TodoKept, DownKept
  <2>12. TodoEnds'
    BY <2>1, <2>3 DEF TodoEnds, TodoKept, DownKept
  <2>13. DownEnds'
    BY <2>1, <2>3 DEF DownEnds, TodoKept, DownKept
  <2>14. PumpEnds'
    BY <2>1, <2>3 DEF PumpEnds, TodoKept, DownKept
  <2> QED
    BY <2>11, <2>12, <2>13, <2>14 DEF EndInv
<1>4. CASE ReadClear
  <2>1. UNCHANGED <<socket, finalized, pump>> /\ TodoKept /\ DownKept
    BY <1>4, ReadClearMoves
  <2>2. (\E n \in Int : UpGrows("clear", n)) \/ UpKept
    BY <1>4, ReadClearMoves
  <2>3. \A i \in Int : (UpText(i)' => UpText(i)) /\ (UpDone(i)' => UpDone(i))
    BY <2>2 DEF UpKept, UpGrows
  <2>11. UpEnds'
    BY <2>1, <2>3 DEF UpEnds, TodoKept, DownKept
  <2>12. TodoEnds'
    BY <2>1, <2>3 DEF TodoEnds, TodoKept, DownKept
  <2>13. DownEnds'
    BY <2>1, <2>3 DEF DownEnds, TodoKept, DownKept
  <2>14. PumpEnds'
    BY <2>1, <2>3 DEF PumpEnds, TodoKept, DownKept
  <2> QED
    BY <2>11, <2>12, <2>13, <2>14 DEF EndInv
<1>5. CASE PumpAudio \/ PumpAck \/ PumpDone \/ PumpError
  <2>1. UNCHANGED <<socket, finalized>> /\ DownMoves /\ UpKept /\ TodoKept
    BY <1>5, PumpMoves
  <2>2. pump' = "ended" => DownDone(1) \/ pump = "ended"
    <3>1. PumpAudio => pump' \in {pump, "sending"}
      BY DEF PumpAudio
    <3> QED
      BY <1>5, <3>1, PumpMoves
  <2>3. \A i \in Int : DownText(i)' => DownText(i + 1) /\ 1 < i + 1 /\ i + 1 \in Int
    BY <2>1 DEF DownMoves
  <2>4. ASSUME NEW p \in Int, DownDone(p)'
        PROVE  finalized' /\ \A i \in Int : ~UpText(i)' /\ ~TodoText(i)' /\ (DownText(i)' => i < p)
    <3>1. DownDone(p + 1) /\ p + 1 \in Int
      BY <2>1, <2>4 DEF DownMoves
    <3>2. \A i \in Int : DownText(i)' => i + 1 < p + 1
      BY <2>3, <3>1 DEF DownEnds
    <3>3. finalized' /\ \A i \in Int : ~UpText(i)' /\ ~TodoText(i)'
      BY <2>1, <3>1 DEF DownEnds, UpKept, TodoKept
    <3> QED
      BY <3>2, <3>3
  <2>5. ASSUME DownDone(1)
        PROVE  finalized' /\ \A i \in Int : ~UpText(i)' /\ ~TodoText(i)' /\ ~DownText(i)'
    <3>1. finalized' /\ \A i \in Int : ~UpText(i)' /\ ~TodoText(i)'
      BY <2>1, <2>5 DEF DownEnds, UpKept, TodoKept
    <3>2. \A i \in Int : DownText(i) => i < 1
      BY <2>5 DEF DownEnds
    <3>3. \A i \in Int : ~DownText(i)'
      BY <2>3, <3>2
    <3> QED
      BY <3>1, <3>3
  <2>11. UpEnds'
    BY <2>1 DEF UpEnds, UpKept
  <2>12. TodoEnds'
    BY <2>1 DEF TodoEnds, UpKept, TodoKept
  <2>13. DownEnds'
    BY <2>4 DEF DownEnds
  <2>14. PumpEnds'
    BY <2>1, <2>2, <2>3, <2>5 DEF PumpEnds, UpKept, TodoKept
  <2> QED
    BY <2>11, <2>12, <2>13, <2>14 DEF EndInv
<1>6. CASE PumpSent \/ PumpClosed \/ PumpLeft
  <2>1. UNCHANGED <<finalized, socket, upward, todo, downward>>
    BY <1>6 DEF PumpSent, PumpClosed, PumpLeft
  <2>2. pump' = "ended" => socket # "open"
    BY <1>6 DEF PumpSent, PumpClosed, PumpLeft
  <2>3. UpKept /\ TodoKept /\ DownKept
    BY <2>1, UpIsKept, TodoIsKept, DownIsKept
  <2>11. UpEnds'
    BY <2>1, <2>2, <2>3 DEF UpEnds, UpKept, TodoKept, DownKept
  <2>12. TodoEnds'
    BY <2>1, <2>2, <2>3 DEF TodoEnds, UpKept, TodoKept, DownKept
  <2>13. DownEnds'
    BY <2>1, <2>2, <2>3 DEF DownEnds, UpKept, TodoKept, DownKept
  <2>14. PumpEnds'
    BY <2>1, <2>2, <2>3 DEF PumpEnds, UpKept, TodoKept, DownKept
  <2> QED
    BY <2>11, <2>12, <2>13, <2>14 DEF EndInv
<1>7. CASE VendorReads
  <2>1. UNCHANGED <<socket, finalized, pump>> /\ UpMoves /\ socket = "open"
    BY <1>7, VendorReadsMoves
  <2>2. \A i \in Int : /\ UpText(i)' => UpText(i + 1) /\ 1 < i + 1 /\ i + 1 \in Int
                       /\ UpDone(i)' => UpDone(i + 1) /\ i + 1 \in Int
    BY <2>1 DEF UpMoves
  <2>3. UpEnds'
    <3> SUFFICES ASSUME NEW p \in Int, UpDone(p)' PROVE finalized' /\ \A i \in Int : UpText(i)' => i < p
      BY DEF UpEnds
    <3>1. \A i \in Int : UpText(i)' => i + 1 < p + 1
      BY <2>2 DEF UpEnds
    <3> QED
      BY <2>1, <2>2, <3>1 DEF UpEnds
  <2>4. CASE UpText(1) /\ TodoGrows(upward[1].n) /\ DownKept
    <3>1. /\ \A p \in Int : ~TodoDone(p) /\ ~DownDone(p)
          /\ pump # "ended"
      BY <2>1, <2>4 DEF TodoEnds, DownEnds, PumpEnds
    <3>2. \A i \in Int : TodoDone(i)' => upward[1].n = End
      BY <2>4, <3>1 DEF TodoGrows
    <3>3. upward[1].n # End
      BY <2>4, TextIn DEF CountsInv, UpOrder, End, NativeTypes
    <3>4. \A i \in Int : ~TodoDone(i)'
      BY <3>2, <3>3
    <3> QED
      BY <2>1, <2>3, <2>4, <3>1, <3>4 DEF EndInv, TodoEnds, DownEnds, PumpEnds, DownKept
  <2>5. CASE UpDone(1) /\ TodoGrows(End) /\ DownKept
    <3>1. finalized /\ \A i \in Int : ~UpText(i)'
      <4>1. finalized /\ \A i \in Int : UpText(i) => i < 1
        BY <2>5 DEF UpEnds
      <4> QED
        BY <2>2, <4>1
    <3>2. \A i \in Int : TodoText(i)' => TodoText(i) /\ i < Len(todo) + 1
      BY <2>5 DEF TodoGrows
    <3>3. \A p, i \in Int : TodoDone(p)' /\ TodoText(i)' => i < p
      BY <2>5 DEF TodoGrows, TodoEnds
    <3>12. TodoEnds'
      BY <2>1, <3>1, <3>3 DEF TodoEnds
    <3>13. DownEnds'
      BY <2>1, <2>5, <3>1, <3>2 DEF DownEnds, DownKept
    <3>14. PumpEnds'
      BY <2>1, <2>5, <3>1, <3>2 DEF PumpEnds, DownKept
    <3> QED
      BY <2>3, <3>12, <3>13, <3>14 DEF EndInv
  <2>6. CASE /\ UpClear(1) /\ \E n \in Int : DownGrows("cleared", n)
             /\ \A i \in Int : ~TodoText(i)' /\ (TodoDone(i)' => \E p \in Int : TodoDone(p))
    <3>1. \A i \in Int : (DownText(i)' => DownText(i)) /\ (DownDone(i)' => DownDone(i))
      BY <2>6 DEF DownGrows
    <3>12. TodoEnds'
      BY <2>1, <2>2, <2>6 DEF TodoEnds
    <3>13. DownEnds'
      BY <2>1, <2>2, <2>6, <3>1 DEF DownEnds
    <3>14. PumpEnds'
      BY <2>1, <2>2, <2>6, <3>1 DEF PumpEnds
    <3> QED
      BY <2>3, <3>12, <3>13, <3>14 DEF EndInv
  <2> QED
    BY <1>7, <2>4, <2>5, <2>6, VendorReadsMoves
<1>8. CASE VendorVoices
  <2>1. UNCHANGED <<socket, finalized, pump>> /\ TodoMoves /\ UpKept
    BY <1>8, VendorVoicesMoves
  <2>2. \A i \in Int : /\ TodoText(i)' => TodoText(i + 1) /\ 1 < i + 1 /\ i + 1 \in Int
                       /\ TodoDone(i)' => TodoDone(i + 1) /\ i + 1 \in Int
    BY <2>1 DEF TodoMoves
  <2>3. UpEnds'
    BY <2>1 DEF UpEnds, UpKept
  <2>4. TodoEnds'
    <3> SUFFICES ASSUME NEW p \in Int, TodoDone(p)'
                 PROVE  finalized' /\ \A i \in Int : ~UpText(i)' /\ (TodoText(i)' => i < p)
      BY DEF TodoEnds
    <3>1. \A i \in Int : TodoText(i)' => i + 1 < p + 1
      BY <2>2 DEF TodoEnds
    <3>2. finalized' /\ \A i \in Int : ~UpText(i)'
      BY <2>1, <2>2 DEF TodoEnds, UpKept
    <3> QED
      BY <3>1, <3>2
  <2>5. CASE TodoText(1) /\ DownGrows("audio", todo[1])
    <3>1. (\A p \in Int : ~DownDone(p)) /\ ~(pump = "ended" /\ socket = "open")
      BY <2>5 DEF DownEnds, PumpEnds
    <3>2. \A p \in Int : ~DownDone(p)'
      BY <2>5, <3>1 DEF DownGrows
    <3> QED
      BY <2>1, <2>3, <2>4, <3>1, <3>2 DEF EndInv, DownEnds, PumpEnds
  <2>6. CASE TodoDone(1) /\ DownGrows("done", 0)
    <3>1. finalized /\ \A i \in Int : ~UpText(i)' /\ ~TodoText(i)'
      <4>1. finalized /\ \A i \in Int : ~UpText(i) /\ (TodoText(i) => i < 1)
        BY <2>6 DEF TodoEnds
      <4> QED
        BY <2>1, <2>2, <4>1 DEF UpKept
    <3>2. \A i \in Int : DownText(i)' => DownText(i)
      BY <2>6 DEF DownGrows
    <3>3. \A p, i \in Int : DownDone(p)' /\ DownText(i)' => i < p
      BY <2>6 DEF DownGrows, DownEnds
    <3>4. DownEnds'
      BY <2>1, <3>1, <3>3 DEF DownEnds
    <3>5. PumpEnds'
      BY <2>1, <3>1, <3>2 DEF PumpEnds
    <3> QED
      BY <2>3, <2>4, <3>4, <3>5 DEF EndInv
  <2> QED
    BY <1>8, <2>5, <2>6, VendorVoicesMoves
<1>9. CASE VendorBreaks
  <2>1. UNCHANGED <<finalized, pump>> /\ UpKept /\ TodoKept /\ socket' # "open"
    BY <1>9, VendorBreaksMoves
  <2>2. \A i \in Int : (DownText(i)' => DownText(i)) /\ (DownDone(i)' => DownDone(i))
    BY <1>9, VendorBreaksMoves DEF DownKept, DownGrows
  <2>11. UpEnds'
    BY <2>1, <2>2 DEF UpEnds, UpKept, TodoKept
  <2>12. TodoEnds'
    BY <2>1, <2>2 DEF TodoEnds, UpKept, TodoKept
  <2>13. DownEnds'
    BY <2>1, <2>2 DEF DownEnds, UpKept, TodoKept
  <2>14. PumpEnds'
    BY <2>1, <2>2 DEF PumpEnds, UpKept, TodoKept
  <2> QED
    BY <2>11, <2>12, <2>13, <2>14 DEF EndInv
<1> QED
  BY <1>1, <1>b, <1>2, <1>3, <1>4, <1>5, <1>6, <1>7, <1>8, <1>9, OthersLeaveEnds

LEMMA OthersLeaveDrops ==
  ASSUME [Next]_vars
  PROVE  OpenFails \/ ReadText \/ ReadFinalize \/ ReadClear \/ ReadDisconnect \/ ClearAnswered
         \/ SayCleared \/ PumpAudio \/ PumpAck \/ PumpDone \/ PumpError \/ VendorReads
         \/ VendorVoices \/ VendorBreaks
         \/ UNCHANGED <<clearing, reader, texts, clears, dropping, socket, upward, downward, todo>>
BY DEF vars, Next, Reader, ReaderGoesOn, Pump, Run, Vendor, Open, DecideByPump, DecideByOther,
   Finish, Trip, PumpSent, PumpClosed, PumpLeft

LEMMA DropsStep == NativeTypes /\ OrderInv /\ DropsInv /\ [Next]_vars => DropsInv'
<1> SUFFICES ASSUME NativeTypes, UpOrder, TodoOrder, DownOrder,
                    ClearingInv, DroppingInv, OldBeforeClear, OldBeforeCleared, [Next]_vars
             PROVE  DropsInv'
  BY DEF OrderInv, DropsInv
<1>a. Len(upward) \in Int /\ Len(todo) \in Int /\ Len(downward) \in Int /\ LastCleared \in Int
      /\ texts \in Int
  BY LenProperties, LastClearedIs DEF NativeTypes
<1>b. UNCHANGED clears => LastCleared' = LastCleared
  BY LastClearedIs
<1>1. ASSUME UNCHANGED <<texts, clears, upward, downward, todo>>, ClearingInv',
             dropping' = dropping, socket' = socket \/ socket' # "open"
      PROVE  DropsInv'
  <2>1. UpKept /\ TodoKept /\ DownKept /\ LastCleared' = LastCleared
    BY <1>1, <1>b, UpIsKept, TodoIsKept, DownIsKept
  <2>12. DroppingInv'
    BY <1>1, <2>1 DEF DroppingInv, UpKept, DownKept
  <2>13. OldBeforeClear'
    BY <2>1 DEF OldBeforeClear, UpKept, TodoKept, DownKept
  <2>14. OldBeforeCleared'
    BY <2>1 DEF OldBeforeCleared, DownKept
  <2> QED
    BY <1>1, <2>12, <2>13, <2>14 DEF DropsInv
<1>2. CASE UNCHANGED <<clearing, reader, texts, clears, dropping, socket, upward, downward, todo>>
  <2>1. ClearingInv'
    BY <1>2, <1>b DEF ClearingInv
  <2> QED
    BY <1>1, <1>2, <2>1
<1>3. CASE OpenFails
  <2>1. /\ UNCHANGED <<clearing, reader, texts, clears, dropping, upward, downward, todo>>
        /\ socket' = "lost"
    BY <1>3 DEF OpenFails
  <2>2. ClearingInv'
    BY <1>b, <2>1 DEF ClearingInv
  <2> QED
    BY <1>1, <2>1, <2>2
<1>4. CASE ReadDisconnect \/ ClearAnswered \/ SayCleared
  <2>1. UNCHANGED <<texts, clears, dropping, socket, upward, downward, todo>>
    BY <1>4 DEF ReadDisconnect, ClearAnswered, SayCleared
  <2>2. \/ UNCHANGED clearing /\ reader # "clearing" /\ reader' # "clearing"
        \/ clearing' = FALSE /\ reader' # "clearing"
    BY <1>4 DEF ReadDisconnect, ClearAnswered, SayCleared, Taking
  <2>3. ClearingInv'
    BY <1>b, <2>1, <2>2 DEF ClearingInv
  <2> QED
    BY <1>1, <2>1, <2>3
<1>5. CASE ReadText
  <2>1. /\ UNCHANGED <<clearing, clears, dropping, socket>> /\ reader = "recv" /\ TodoKept /\ DownKept
        /\ reader' \in {"recv", "failed"} /\ LastCleared' = LastCleared
    BY <1>5, <1>b, ReadTextMoves
  <2>2. (\E n \in Int : UpGrows("text", n)) \/ UpKept
    BY <1>5, <1>a, ReadTextMoves
  <2>3. \A p \in Int : (UpClear(p)' => UpClear(p)) /\ (UpClear(p) => UpClear(p)')
    BY <2>2 DEF UpKept, UpGrows
  <2>4. \A p, i \in Int : UpClear(p)' /\ UpText(i)' /\ i < p => UpText(i) /\ upward'[i] = upward[i]
    BY <1>a, <2>2 DEF UpKept, UpGrows
  <2>11. ClearingInv'
    BY <2>1, <2>3 DEF ClearingInv, TodoKept, DownKept
  <2>12. DroppingInv'
    BY <2>1, <2>3 DEF DroppingInv, TodoKept, DownKept
  <2>13. OldBeforeClear'
    BY <2>1, <2>3, <2>4 DEF OldBeforeClear, TodoKept, DownKept
  <2>14. OldBeforeCleared'
    BY <2>1, <2>3 DEF OldBeforeCleared, TodoKept, DownKept
  <2> QED
    BY <2>11, <2>12, <2>13, <2>14 DEF DropsInv
<1>6. CASE ReadFinalize
  <2>1. /\ UNCHANGED <<texts, clearing, clears, dropping, socket>> /\ reader = "recv" /\ TodoKept /\ DownKept
        /\ reader' \in {"recv", "failed"} /\ LastCleared' = LastCleared
    BY <1>6, <1>b, ReadFinalizeMoves
  <2>2. UpGrows("done", 0) \/ UpKept
    BY <1>6, ReadFinalizeMoves
  <2>3. \A p \in Int : (UpClear(p)' => UpClear(p)) /\ (UpClear(p) => UpClear(p)')
    BY <2>2 DEF UpKept, UpGrows
  <2>4. \A i \in Int : UpText(i)' => UpText(i) /\ upward'[i] = upward[i]
    BY <2>2 DEF UpKept, UpGrows
  <2>11. ClearingInv'
    BY <2>1, <2>3 DEF ClearingInv, TodoKept, DownKept
  <2>12. DroppingInv'
    BY <2>1, <2>3 DEF DroppingInv, TodoKept, DownKept
  <2>13. OldBeforeClear'
    BY <2>1, <2>3, <2>4 DEF OldBeforeClear, TodoKept, DownKept
  <2>14. OldBeforeCleared'
    BY <2>1, <2>3 DEF OldBeforeCleared, TodoKept, DownKept
  <2> QED
    BY <2>11, <2>12, <2>13, <2>14 DEF DropsInv
<1>7. CASE ReadClear
  <2>1. UNCHANGED <<texts, socket>> /\ reader = "recv" /\ TodoKept /\ DownKept
    BY <1>7, ReadClearMoves
  <2>2. PICK at \in Int :
          /\ [texts |-> texts, alone |-> Alone, at |-> at] \in ClearRecord
          /\ clears' = Append(clears, [texts |-> texts, alone |-> Alone, at |-> at])
          /\ \/ socket = "open" /\ UpGrows("clear", at) /\ clearing' = TRUE /\ reader' = "clearing"
             \/ socket # "open" /\ UpKept /\ reader' = "failed" /\ UNCHANGED clearing
    BY <1>7, ReadClearMoves
  <2>3. LastCleared' = texts
    BY <2>2, LastClearedIs
  <2>4. \A i \in Int : /\ UpText(i)' => upward'[i].n <= texts
                       /\ TodoText(i)' => todo'[i] <= texts
                       /\ DownText(i)' => downward'[i].n <= texts
    BY <2>1, <2>2 DEF UpGrows, UpKept, TodoKept, DownKept, UpOrder, TodoOrder, DownOrder
  <2>11. ClearingInv'
    BY <1>a, <2>1, <2>2, <2>3 DEF ClearingInv
  <2>12. DroppingInv'
    <3>1. socket' = "open" => \E p \in Int : UpClear(p)'
      BY <2>1, <2>2 DEF UpGrows
    <3> QED
      BY <3>1 DEF DroppingInv
  <2>13. OldBeforeClear'
    BY <2>3, <2>4 DEF OldBeforeClear
  <2>14. OldBeforeCleared'
    BY <2>3, <2>4 DEF OldBeforeCleared
  <2> QED
    BY <2>11, <2>12, <2>13, <2>14 DEF DropsInv
<1>8. CASE PumpAudio \/ PumpAck \/ PumpDone \/ PumpError
  <2>1. /\ DownMoves /\ UpKept /\ TodoKept /\ UNCHANGED <<reader, texts, clearing, socket>>
        /\ LastCleared' = LastCleared
    BY <1>8, <1>b, PumpMoves
  <2>2. dropping' = FALSE \/ (UNCHANGED dropping /\ ~DownCleared(1))
    <3>1. DownText(1) => ~DownCleared(1)
      BY DEF DownText, DownCleared
    <3> QED
      BY <1>8, <3>1, PumpMoves
  <2>11. ClearingInv'
    BY <2>1 DEF ClearingInv
  <2>12. DroppingInv'
    <3> SUFFICES ASSUME dropping', socket' = "open"
                 PROVE  \E p \in Int : UpClear(p)' \/ DownCleared(p)'
      BY DEF DroppingInv
    <3>1. PICK p \in Int : UpClear(p) \/ DownCleared(p)
      BY <2>1, <2>2 DEF DroppingInv
    <3>2. CASE UpClear(p)
      BY <2>1, <3>2 DEF UpKept
    <3>3. CASE DownCleared(p)
      BY <2>1, <2>2, <3>3 DEF DownMoves
    <3> QED
      BY <3>1, <3>2, <3>3
  <2>13. OldBeforeClear'
    BY <2>1 DEF OldBeforeClear, UpKept, TodoKept, DownMoves
  <2>14. OldBeforeCleared'
    <3> SUFFICES ASSUME NEW p \in Int, DownCleared(p)', NEW i \in Int, DownText(i)', i < p
                 PROVE  downward'[i].n <= LastCleared'
      BY DEF OldBeforeCleared
    <3>1. DownCleared(p + 1) /\ p + 1 \in Int /\ DownText(i + 1) /\ i + 1 \in Int /\ i + 1 < p + 1
          /\ downward'[i] = downward[i + 1]
      BY <2>1 DEF DownMoves
    <3> QED
      BY <2>1, <3>1 DEF OldBeforeCleared
  <2> QED
    BY <2>11, <2>12, <2>13, <2>14 DEF DropsInv
<1>9. CASE VendorReads
  <2>1. /\ UNCHANGED <<reader, texts, clearing, socket, dropping>> /\ UpMoves /\ LastCleared' = LastCleared
        /\ socket = "open"
    BY <1>9, <1>b, VendorReadsMoves
  <2>2. /\ \A i \in Int : UpText(i)' => UpText(i + 1) /\ i + 1 \in Int /\ upward'[i] = upward[i + 1]
        /\ \A i \in Int : UpClear(i)' => UpClear(i + 1) /\ 1 < i + 1 /\ i + 1 \in Int
    BY <2>1 DEF UpMoves
  <2>3. ClearingInv'
    BY <2>1 DEF ClearingInv
  <2>4. ASSUME NEW p \in Int, UpClear(p)', NEW i \in Int, UpText(i)', i < p
        PROVE  upward'[i].n <= LastCleared'
    <3>1. i + 1 < p + 1
      BY <2>4
    <3> QED
      BY <2>1, <2>2, <2>4, <3>1 DEF OldBeforeClear
  <2>5. CASE /\ DownKept /\ ~UpClear(1)
             /\ \A p \in Int : UpClear(p)' => \A i \in Int : TodoText(i)' => todo'[i] <= LastCleared
    <3>12. DroppingInv'
      <4> SUFFICES ASSUME dropping PROVE \E p \in Int : UpClear(p)' \/ DownCleared(p)'
        BY <2>1 DEF DroppingInv
      <4>1. PICK p \in Int : UpClear(p) \/ DownCleared(p)
        BY <2>1 DEF DroppingInv
      <4>2. CASE UpClear(p)
        BY <2>1, <2>5, <4>2 DEF UpMoves
      <4>3. CASE DownCleared(p)
        BY <2>5, <4>3 DEF DownKept
      <4> QED
        BY <4>1, <4>2, <4>3
    <3>13. OldBeforeClear'
      BY <2>1, <2>2, <2>4, <2>5 DEF OldBeforeClear, DownKept
    <3>14. OldBeforeCleared'
      BY <2>1, <2>5 DEF OldBeforeCleared, DownKept
    <3> QED
      BY <2>3, <3>12, <3>13, <3>14 DEF DropsInv
  <2>6. CASE UpText(1) /\ TodoGrows(upward[1].n) /\ DownKept /\ ~UpClear(1)
    <3>1. ASSUME NEW p \in Int, UpClear(p)', NEW i \in Int, TodoText(i)'
          PROVE  todo'[i] <= LastCleared
      <4>1. UpClear(p + 1) /\ 1 < p + 1 /\ p + 1 \in Int
        BY <2>2, <3>1
      <4>2. upward[1].n <= LastCleared
        BY <2>6, <4>1 DEF OldBeforeClear
      <4>3. \/ TodoText(i) /\ todo'[i] = todo[i]
            \/ todo'[i] = upward[1].n
        BY <2>6, <3>1 DEF TodoGrows
      <4> QED
        BY <4>1, <4>2, <4>3 DEF OldBeforeClear
    <3> QED
      BY <2>5, <2>6, <3>1
  <2>7. CASE UpDone(1) /\ TodoGrows(End) /\ DownKept /\ ~UpClear(1)
    <3>1. \A i \in Int : TodoText(i)' => TodoText(i) /\ todo'[i] = todo[i]
      BY <2>7 DEF TodoGrows
    <3>2. \A p \in Int : UpClear(p)' => \A i \in Int : TodoText(i)' => todo'[i] <= LastCleared
      BY <2>2, <3>1 DEF OldBeforeClear
    <3> QED
      BY <2>5, <2>7, <3>2
  <2>8. CASE UpClear(1) /\ (\E n \in Int : DownGrows("cleared", n)) /\ \A i \in Int : ~TodoText(i)'
    <3>1. PICK n \in Int : DownGrows("cleared", n)
      BY <2>8
    <3>2. \A i \in Int : DownText(i)' => DownText(i) /\ downward'[i] = downward[i]
      BY <3>1 DEF DownGrows
    <3>3. \A i \in Int : DownText(i) => downward[i].n <= LastCleared
      BY <2>8 DEF OldBeforeClear
    <3>12. DroppingInv'
      <4>1. \E p \in Int : DownCleared(p)'
        BY <3>1 DEF DownGrows
      <4> QED
        BY <4>1 DEF DroppingInv
    <3>13. OldBeforeClear'
      BY <2>1, <2>4, <2>8, <3>2, <3>3 DEF OldBeforeClear
    <3>14. OldBeforeCleared'
      BY <2>1, <3>2, <3>3 DEF OldBeforeCleared
    <3> QED
      BY <2>3, <3>12, <3>13, <3>14 DEF DropsInv
  <2> QED
    BY <1>9, <2>6, <2>7, <2>8, VendorReadsMoves
<1>10. CASE VendorVoices
  <2>1. /\ UNCHANGED <<reader, texts, clearing, socket, dropping>> /\ TodoMoves /\ UpKept
        /\ LastCleared' = LastCleared
    BY <1>10, <1>b, VendorVoicesMoves
  <2>2. \/ TodoText(1) /\ DownGrows("audio", todo[1])
        \/ TodoDone(1) /\ DownGrows("done", 0)
    BY <1>10, VendorVoicesMoves
  <2>3. \A p \in Int : (DownCleared(p)' => DownCleared(p)) /\ (DownCleared(p) => DownCleared(p)')
    BY <2>2 DEF DownGrows
  <2>4. \A i \in Int : DownText(i)' => \/ DownText(i) /\ downward'[i] = downward[i]
                                       \/ TodoText(1) /\ downward'[i].n = todo[1]
    BY <2>2 DEF DownGrows
  <2>5. \A p, i \in Int : DownCleared(p)' /\ DownText(i)' /\ i < p => DownText(i) /\ downward'[i] = downward[i]
    BY <1>a, <2>2 DEF DownGrows
  <2>6. \A i \in Int : TodoText(i)' => TodoText(i + 1) /\ i + 1 \in Int /\ todo'[i] = todo[i + 1]
    BY <2>1 DEF TodoMoves
  <2>11. ClearingInv'
    BY <2>1, <2>3 DEF ClearingInv, UpKept
  <2>12. DroppingInv'
    BY <2>1, <2>3 DEF DroppingInv, UpKept
  <2>13. OldBeforeClear'
    BY <2>1, <2>3, <2>4, <2>6 DEF OldBeforeClear, UpKept
  <2>14. OldBeforeCleared'
    BY <2>1, <2>3, <2>5 DEF OldBeforeCleared, UpKept
  <2> QED
    BY <2>11, <2>12, <2>13, <2>14 DEF DropsInv
<1>11. CASE VendorBreaks
  <2>1. /\ UNCHANGED <<reader, texts, clearing, dropping>> /\ UpKept /\ TodoKept
        /\ LastCleared' = LastCleared /\ socket' # "open"
    BY <1>11, <1>b, VendorBreaksMoves
  <2>2. \A p \in Int : /\ DownCleared(p)' => DownCleared(p)
                       /\ DownText(p)' => DownText(p) /\ downward'[p] = downward[p]
    BY <1>11, VendorBreaksMoves DEF DownKept, DownGrows
  <2>11. ClearingInv'
    BY <2>1, <2>2 DEF ClearingInv, UpKept, TodoKept
  <2>12. DroppingInv'
    BY <2>1, <2>2 DEF DroppingInv, UpKept, TodoKept
  <2>13. OldBeforeClear'
    BY <2>1, <2>2 DEF OldBeforeClear, UpKept, TodoKept
  <2>14. OldBeforeCleared'
    BY <2>1, <2>2 DEF OldBeforeCleared, UpKept, TodoKept
  <2> QED
    BY <2>11, <2>12, <2>13, <2>14 DEF DropsInv
<1> QED
  BY <1>2, <1>3, <1>4, <1>5, <1>6, <1>7, <1>8, <1>9, <1>10, <1>11, OthersLeaveDrops

LEMMA OthersLeavePending ==
  ASSUME [Next]_vars
  PROVE  Open \/ OpenFails \/ DecideByPump \/ DecideByOther \/ SayCleared \/ ReadText
         \/ ReadFinalize \/ ReadClear \/ PumpAudio \/ PumpSent \/ PumpAck \/ PumpDone
         \/ PumpError \/ PumpClosed \/ PumpLeft \/ VendorReads \/ VendorVoices \/ VendorBreaks
         \/ UNCHANGED <<socket, pump, clears, texts, out, seq, upward, downward, todo>>
BY DEF vars, Next, Reader, ReaderGoesOn, Pump, Run, Vendor, Finish, Trip, ReadDisconnect,
   ClearAnswered

LEMMA PendingStep ==
  NativeTypes /\ OrderInv /\ FramesInv /\ DropsInv /\ PendingInv /\ [Next]_vars => PendingInv'
<1> SUFFICES ASSUME NativeTypes, OrderInv, FramesInv, DropsInv, PendingInv, [Next]_vars,
                    socket' = "open", pump' # "left",
                    NEW t \in Int, LastCleared' < t, t <= texts'
             PROVE  (Heard(t) \/ Sending(t) \/ InPipe(t))'
  BY DEF PendingInv
<1>a. texts \in Int /\ LastCleared \in Int /\ out \in Seq(Told) /\ seq \in Int
  BY LastClearedIs DEF NativeTypes
<1>b. UNCHANGED clears => LastCleared' = LastCleared
  BY LastClearedIs
<1>c. ASSUME socket = "open", pump # "left", LastCleared < t, t <= texts
      PROVE  Heard(t) \/ Sending(t) \/ InPipe(t)
  BY <1>c DEF PendingInv
<1>d. ASSUME UpKept, TodoKept, DownKept, InPipe(t) PROVE InPipe(t)'
  BY <1>d DEF InPipe, UpKept, TodoKept, DownKept
<1>e. ASSUME NEW f \in Told, out' = Append(out, f) PROVE Heard(t) => Heard(t)'
  <2>1. \A i \in Int : IsAudio(i) => IsAudio(i)' /\ out'[i] = out[i]
    BY <1>a, <1>e, FrameSent
  <2> QED
    BY <2>1 DEF Heard
<1>f. UNCHANGED out => (Heard(t) => Heard(t)')
  BY PipesKept DEF Heard
<1>g. UNCHANGED <<out, pump, seq>> => (Sending(t) => Sending(t)')
  BY PipesKept DEF Sending
(* the pipes are not touched                                                *)
<1>1. ASSUME UNCHANGED <<socket, clears, texts, seq, upward, downward, todo>>, pump # "left",
             UNCHANGED out \/ \E f \in Told : out' = Append(out, f), pump' = pump \/ pump # "sending"
      PROVE  (Heard(t) \/ Sending(t) \/ InPipe(t))'
  <2>1. UpKept /\ TodoKept /\ DownKept /\ LastCleared' = LastCleared
    BY <1>1, <1>b, UpIsKept, TodoIsKept, DownIsKept
  <2>2. Heard(t) \/ Sending(t) \/ InPipe(t)
    BY <1>1, <1>c, <2>1
  <2>3. Sending(t) => Sending(t)'
    <3>1. CASE UNCHANGED out
      BY <1>1, <3>1, PipesKept DEF Sending
    <3>2. ASSUME NEW f \in Told, out' = Append(out, f) PROVE Sending(t) => Sending(t)'
      <4>1. \A i \in Int : IsChunk(i) => IsChunk(i)' /\ out'[i] = out[i]
        BY <1>a, <3>2, FrameSent
      <4> QED
        BY <1>1, <4>1 DEF Sending
    <3> QED
      BY <1>1, <3>1, <3>2
  <2> QED
    BY <1>1, <1>d, <1>e, <1>f, <2>1, <2>2, <2>3
(* the frames are not touched, nor is the pump in a pair                    *)
<1>2. ASSUME UNCHANGED <<socket, clears, out, seq>>, UNCHANGED texts, pump # "left",
             pump' = pump \/ pump # "sending", InPipe(t) => InPipe(t)'
      PROVE  (Heard(t) \/ Sending(t) \/ InPipe(t))'
  <2>1. Heard(t) \/ Sending(t) \/ InPipe(t)
    BY <1>2, <1>b, <1>c
  <2>2. Sending(t) => Sending(t)'
    BY <1>2, PipesKept DEF Sending
  <2> QED
    BY <1>2, <1>f, <2>1, <2>2
<1>3. CASE UNCHANGED <<socket, pump, clears, texts, out, seq, upward, downward, todo>>
  BY <1>1, <1>3
<1>4. CASE Open
  <2>1. UNCHANGED <<socket, pump, clears, texts, seq, upward, downward, todo>> /\ out = <<>>
    BY <1>4 DEF Open, FramesInv, OpeningInv
  <2>2. out' = Append(out, Frame("session.open"))
    BY <1>4, <2>1 DEF Open
  <2> QED
    BY <1>1, <2>1, <2>2, Sent
<1>5. CASE OpenFails \/ VendorBreaks
  BY <1>5 DEF OpenFails, VendorBreaks
<1>6. CASE DecideByPump \/ DecideByOther \/ SayCleared
  <2>1. UNCHANGED <<socket, pump, clears, texts, seq, upward, downward, todo>>
    BY <1>6 DEF DecideByPump, DecideByOther, SayCleared
  <2>2. \/ UNCHANGED out \/ out' = Append(out, Frame("done")) \/ out' = Append(out, Frame("error"))
        \/ out' = Append(out, Cleared(sent))
    BY <1>6 DEF DecideByPump, DecideByOther, SayCleared
  <2>3. Frame("done") \in Told /\ Frame("error") \in Told /\ Cleared(sent) \in Told
    BY Sent DEF NativeTypes
  <2> QED
    BY <1>1, <2>1, <2>2, <2>3
<1>7. CASE ReadText
  <2>1. /\ texts' = texts + 1 /\ TodoKept /\ DownKept /\ UNCHANGED <<clears, socket, pump, seq, out>>
        /\ UpGrows("text", texts + 1)
    BY <1>7, ReadTextMoves
  <2>2. CASE t = texts + 1
    BY <2>1, <2>2 DEF UpGrows, InPipe
  <2>3. CASE t <= texts
    <3>1. InPipe(t) => InPipe(t)'
      BY <2>1 DEF InPipe, UpGrows, TodoKept, DownKept
    <3>2. Heard(t) \/ Sending(t) \/ InPipe(t)
      BY <1>b, <1>c, <2>1, <2>3
    <3> QED
      BY <1>f, <1>g, <2>1, <3>1, <3>2
  <2> QED
    BY <1>a, <2>1, <2>2, <2>3
<1>8. CASE ReadFinalize
  <2>1. /\ TodoKept /\ DownKept /\ UNCHANGED <<texts, clears, socket, pump, seq, out>>
        /\ (UpGrows("done", 0) \/ UpKept)
    BY <1>8, ReadFinalizeMoves
  <2>2. InPipe(t) => InPipe(t)'
    BY <2>1 DEF InPipe, UpGrows, UpKept, TodoKept, DownKept
  <2> QED
    BY <1>2, <2>1, <2>2
<1>9. CASE ReadClear
  <2>1. PICK at \in Int :
          /\ [texts |-> texts, alone |-> Alone, at |-> at] \in ClearRecord
          /\ clears' = Append(clears, [texts |-> texts, alone |-> Alone, at |-> at])
    BY <1>9, ReadClearMoves
  <2>2. LastCleared' = texts /\ texts' = texts
    BY <1>9, <2>1, LastClearedIs, ReadClearMoves
  <2> QED
    BY <1>a, <2>2
<1>10. CASE PumpAudio
  <2>1. /\ DownMoves /\ UpKept /\ TodoKept /\ DownText(1) /\ pump = "recv" /\ downward[1] = Head(downward)
        /\ UNCHANGED <<texts, clears, socket>> /\ LastCleared' = LastCleared
    BY <1>10, <1>b, PumpMoves
  <2>2. Heard(t) \/ InPipe(t)
    BY <1>c, <2>1 DEF Sending
  <2>3. InPipe(t) => InPipe(t)' \/ downward[1].n = t
    BY <2>1 DEF InPipe, UpKept, TodoKept, DownMoves
  <2>4. CASE Drops /\ UNCHANGED <<pump, seq, out>>
    <3>1. downward[1].n # t
      <4>1. ASSUME downward[1].n = t PROVE FALSE
        <5>1. CASE clearing
          BY <1>a, <2>1, <5>1 DEF DropsInv, ClearingInv
        <5>2. CASE dropping
          <6>1. PICK p \in Int : UpClear(p) \/ DownCleared(p)
            BY <2>1, <5>2 DEF DropsInv, DroppingInv
          <6>2. CASE UpClear(p)
            BY <1>a, <2>1, <4>1, <6>2 DEF DropsInv, OldBeforeClear
          <6>3. CASE DownCleared(p)
            <7>1. 1 < p
              BY <2>1, <6>3 DEF DownText, DownCleared
            <7> QED
              BY <1>a, <2>1, <4>1, <6>3, <7>1 DEF DropsInv, OldBeforeCleared
          <6> QED
            BY <6>1, <6>2, <6>3
        <5> QED
          BY <2>4, <5>1, <5>2 DEF Drops
      <4> QED
        BY <4>1
    <3> QED
      BY <1>f, <2>2, <2>3, <2>4, <3>1
  <2>5. CASE /\ pump' = "sending" /\ seq' = seq + 1
             /\ out' = Append(out, Header(seq + 1, downward[1].n))
    <3>1. seq + 1 \in Int /\ downward[1].n \in Int
      BY <1>a, <2>1, TextIn
    <3> DEFINE f == Header(seq + 1, downward[1].n)
    <3>2. f \in Told /\ f.kind = "audio.chunk" /\ f.seq = seq + 1 /\ f.text = downward[1].n /\ out' = Append(out, f)
      BY <2>5, <3>1, Sent DEF Header
    <3> HIDE DEF f
    <3>3. (\A i \in Int : i = Len(out) + 1 => IsChunk(i)') /\ out'[Len(out) + 1] = f /\ Len(out) + 1 \in Int
      <4>1. Len(out) \in Int /\ out'[Len(out) + 1] = f /\ \A i \in Int : i = Len(out) + 1 => IsChunk(i)'
        BY <1>a, <3>2, FrameSent
      <4> QED
        BY <4>1
    <3>4. downward[1].n = t => Sending(t)'
      BY <2>5, <3>2, <3>3 DEF Sending
    <3> QED
      BY <1>e, <2>2, <2>3, <3>2, <3>4
  <2> QED
    BY <1>10, <2>1, <2>4, <2>5 DEF PumpAudio
<1>11. CASE PumpSent
  <2>1. UNCHANGED <<socket, clears, texts, seq, upward, downward, todo>> /\ pump = "sending"
    BY <1>11 DEF PumpSent
  <2>2. PICK k \in Int : IsChunk(k) /\ out[k].seq = seq /\ out[k].text \in Int /\ out' = Append(out, Audio(out[k].text))
    BY <1>11, HeaderOfPair
  <2> DEFINE f == Audio(out[k].text)
  <2>3. f \in Told /\ f.kind = "audio" /\ f.text = out[k].text /\ out' = Append(out, f)
    BY <2>2, Sent DEF Audio
  <2> HIDE DEF f
  <2>4. Sending(t) => Heard(t)'
    <3> SUFFICES ASSUME NEW i \in Int, IsChunk(i), out[i].seq = seq, out[i].text = t PROVE Heard(t)'
      BY DEF Sending
    <3>1. i = k
      <4>1. ~(i < k) /\ ~(k < i)
        BY <1>a, <2>2 DEF FramesInv, ChunksInv
      <4> QED
        BY <4>1
    <3>2. Len(out) + 1 \in Int /\ out'[Len(out) + 1] = f /\ \A j \in Int : j = Len(out) + 1 => IsAudio(j)'
      <4>1. Len(out) \in Int /\ out'[Len(out) + 1] = f /\ \A j \in Int : j = Len(out) + 1 => IsAudio(j)'
        BY <1>a, <2>3, FrameSent
      <4> QED
        BY <4>1
    <3> QED
      BY <2>3, <3>1, <3>2 DEF Heard
  <2>5. Heard(t) \/ Sending(t) \/ InPipe(t)
    BY <1>b, <1>c, <2>1
  <2>6. UpKept /\ TodoKept /\ DownKept
    BY <2>1, UpIsKept, TodoIsKept, DownIsKept
  <2> QED
    BY <1>d, <1>e, <2>3, <2>4, <2>5, <2>6
<1>12. CASE PumpAck \/ PumpDone \/ PumpError
  <2>1. /\ DownMoves /\ UpKept /\ TodoKept /\ ~DownText(1) /\ pump = "recv"
        /\ UNCHANGED <<texts, clears, socket, seq, out>>
    <3>1. DownCleared(1) => ~DownText(1)
      BY DEF DownText, DownCleared
    <3> QED
      BY <1>12, <3>1, PumpMoves
  <2>2. InPipe(t) => InPipe(t)'
    BY <2>1 DEF InPipe, UpKept, TodoKept, DownMoves
  <2> QED
    BY <1>2, <2>1, <2>2
<1>13. CASE PumpClosed \/ PumpLeft
  BY <1>13 DEF PumpClosed, PumpLeft
<1>14. CASE VendorReads
  <2>1. /\ UpMoves /\ UNCHANGED <<pump, texts, clears, socket, seq, out>> /\ LastCleared' = LastCleared
    BY <1>14, <1>b, VendorReadsMoves
  <2>2. Heard(t) \/ Sending(t) \/ InPipe(t)
    BY <1>c, <2>1
  <2>3. CASE UpText(1) /\ TodoGrows(upward[1].n) /\ DownKept
    <3>1. upward[1].n # End
      BY <2>3, TextIn DEF OrderInv, CountsInv, UpOrder, End, NativeTypes
    <3>2. ASSUME NEW i \in Int, UpText(i), upward[i].n = t PROVE InPipe(t)'
      <4>1. CASE i = 1
        BY <2>3, <3>1, <3>2, <4>1 DEF InPipe, TodoGrows
      <4>2. CASE i # 1
        BY <2>1, <3>2, <4>2 DEF InPipe, UpMoves
      <4> QED
        BY <4>1, <4>2
    <3>3. ASSUME NEW i \in Int, TodoText(i), todo[i] = t PROVE InPipe(t)'
      BY <2>3, <3>3 DEF InPipe, TodoGrows
    <3>4. ASSUME NEW i \in Int, DownText(i), downward[i].n = t PROVE InPipe(t)'
      BY <2>3, <3>4 DEF InPipe, DownKept
    <3>5. InPipe(t) => InPipe(t)'
      BY <3>2, <3>3, <3>4 DEF InPipe
    <3> QED
      BY <1>f, <1>g, <2>1, <2>2, <3>5
  <2>4. CASE ~UpText(1) /\ TodoGrows(End) /\ DownKept
    <3>1. InPipe(t) => InPipe(t)'
      BY <2>1, <2>4 DEF InPipe, UpMoves, TodoGrows, DownKept
    <3> QED
      BY <1>f, <1>g, <2>1, <2>2, <3>1
  <2>5. CASE ~UpText(1) /\ UpClear(1) /\ \E n \in Int : DownGrows("cleared", n)
    <3>1. \A i \in Int : TodoText(i) => todo[i] <= LastCleared
      BY <2>5 DEF DropsInv, OldBeforeClear
    <3>2. \A i \in Int : TodoText(i) => todo[i] # t
      BY <1>a, <2>1, <3>1
    <3>3. ASSUME NEW i \in Int, UpText(i), upward[i].n = t PROVE InPipe(t)'
      <4>1. i # 1
        BY <2>5, <3>3
      <4> QED
        BY <2>1, <3>3, <4>1 DEF InPipe, UpMoves
    <3>4. ASSUME NEW i \in Int, DownText(i), downward[i].n = t PROVE InPipe(t)'
      BY <2>5, <3>4 DEF InPipe, DownGrows
    <3>5. InPipe(t) => InPipe(t)'
      BY <3>2, <3>3, <3>4 DEF InPipe
    <3> QED
      BY <1>f, <1>g, <2>1, <2>2, <3>5
  <2> QED
    BY <1>14, <2>3, <2>4, <2>5, VendorReadsMoves
<1>15. CASE VendorVoices
  <2>1. /\ TodoMoves /\ UpKept /\ UNCHANGED <<pump, texts, clears, socket, seq, out>>
        /\ LastCleared' = LastCleared
    BY <1>15, <1>b, VendorVoicesMoves
  <2>2. \/ TodoText(1) /\ DownGrows("audio", todo[1])
        \/ ~TodoText(1) /\ DownGrows("done", 0)
    BY <1>15, VendorVoicesMoves
  <2>3. InPipe(t) => InPipe(t)'
    BY <2>1, <2>2 DEF InPipe, UpKept, TodoMoves, DownGrows
  <2>4. Heard(t) \/ Sending(t) \/ InPipe(t)
    BY <1>c, <2>1
  <2> QED
    BY <1>f, <1>g, <2>1, <2>3, <2>4
<1> QED
  BY <1>3, <1>4, <1>5, <1>6, <1>7, <1>8, <1>9, <1>10, <1>11, <1>12, <1>13, <1>14, <1>15, OthersLeavePending

LEMMA OthersLeaveAnswers ==
  ASSUME [Next]_vars
  PROVE  OpenFails \/ ReadText \/ ReadFinalize \/ ReadClear \/ PumpAudio \/ PumpAck
         \/ PumpDone \/ PumpError \/ VendorReads \/ VendorVoices \/ VendorBreaks
         \/ UNCHANGED <<clears, dropping, socket, upward, downward, todo>>
BY DEF vars, Next, Reader, ReaderGoesOn, Pump, Run, Vendor, Open, DecideByPump, DecideByOther,
   Finish, Trip, ReadDisconnect, ClearAnswered, SayCleared, PumpSent, PumpClosed, PumpLeft

(* A clear that was taken before keeps its state, or moves on to the next.  *)
AnswerOf(k) == Unread(k) \/ OnItsWay(k) \/ Deaf \/ Passed(k)

LEMMA AnswerStays ==
  ASSUME NativeTypes, OrderInv, NotesInv, [Next]_vars,
         NEW k \in 1 .. Len(clears), clears'[k] = clears[k], AnswerOf(k)
  PROVE  AnswerOf(k)'
<1>a. clears[k].texts \in Int /\ clears[k].texts <= texts /\ texts \in Int
  <2>1. clears[k] \in ClearRecord
    BY ElementOfSeq DEF NativeTypes, ClearRecord
  <2> QED
    BY <2>1 DEF ClearRecord, NotesInv, NativeTypes
<1>b. Len(upward) \in Int /\ Len(todo) \in Int /\ Len(downward) \in Int
  BY LenProperties DEF NativeTypes
<1>c. /\ \A i \in Int : UpText(i) => 0 < i
      /\ \A i \in Int : DownText(i) => 0 < i
      /\ \A i \in Int : DownCleared(i) => 0 < i
      /\ \A i \in Int : UpClear(i) => 0 < i
  BY <1>b DEF UpText, DownText, DownCleared, UpClear
(* What the pipes do to the parts of these states.                          *)
<1>d. ASSUME UpKept
      PROVE  /\ \A p \in Int : FirstClear(p) => FirstClear(p)'
             /\ \A p \in Int : NewUp(p, k) => NewUp(p, k)'
  BY <1>d DEF UpKept, FirstClear, NewUp
<1>e. TodoKept /\ NewTodo(k) => NewTodo(k)'
  BY DEF TodoKept, NewTodo
<1>f. ASSUME DownKept
      PROVE  /\ NoCleared => NoCleared'
             /\ \A p \in Int : FirstCleared(p) => FirstCleared(p)'
             /\ \A p \in Int : NewDown(p, k) => NewDown(p, k)'
  BY <1>f DEF DownKept, FirstCleared, NewDown, NoCleared
<1>g. ASSUME UpKept, TodoKept, DownKept, dropping => dropping',
             socket # "open" => socket' # "open"
      PROVE  AnswerOf(k)'
  BY <1>d, <1>e, <1>f, <1>g DEF AnswerOf, Unread, OnItsWay, Deaf, Passed
<1>h. ASSUME NEW kind, NEW n \in Int, UpGrows(kind, n), kind = "text" => clears[k].texts < n
      PROVE  /\ \A p \in Int : FirstClear(p) => FirstClear(p)'
             /\ \A p \in Int : NewUp(p, k) => NewUp(p, k)'
  <2>1. ASSUME NEW p \in Int, FirstClear(p) PROVE FirstClear(p)'
    <3>1. UpClear(p)' /\ p < Len(upward) + 1
      BY <1>h, <2>1 DEF UpGrows, FirstClear
    <3>2. ASSUME NEW q \in Int, UpClear(q)' PROVE p <= q
      <4>1. CASE UpClear(q)
        BY <2>1, <4>1 DEF FirstClear
      <4>2. CASE q = Len(upward) + 1
        BY <1>b, <3>1, <4>2
      <4> QED
        BY <1>h, <3>2, <4>1, <4>2 DEF UpGrows
    <3> QED
      BY <3>1, <3>2 DEF FirstClear
  <2>2. ASSUME NEW p \in Int, NewUp(p, k), NEW i \in Int, UpText(i)', p < i
        PROVE  clears'[k].texts < upward'[i].n
    BY <1>h, <2>2 DEF UpGrows, NewUp
  <2> QED
    BY <2>1, <2>2 DEF NewUp
<1>i. ASSUME NEW kind, NEW n \in Int, UpGrows(kind, n), kind = "text" => clears[k].texts < n,
             TodoKept, DownKept, dropping => dropping', socket' = socket
      PROVE  AnswerOf(k)'
  <2>1. /\ \A p \in Int : FirstClear(p) => FirstClear(p)'
        /\ \A p \in Int : NewUp(p, k) => NewUp(p, k)'
    BY <1>h, <1>i
  <2> QED
    BY <1>e, <1>f, <1>i, <2>1 DEF AnswerOf, Unread, OnItsWay, Deaf, Passed
<1>j. ASSUME NEW kind, NEW n \in Int, DownGrows(kind, n), kind = "audio" => clears[k].texts < n
      PROVE  /\ \A p \in Int : FirstCleared(p) => FirstCleared(p)'
             /\ \A p \in Int : NewDown(p, k) => NewDown(p, k)'
  <2>1. ASSUME NEW p \in Int, FirstCleared(p) PROVE FirstCleared(p)'
    <3>1. DownCleared(p)' /\ p < Len(downward) + 1
      BY <1>j, <2>1 DEF DownGrows, FirstCleared
    <3>2. ASSUME NEW q \in Int, DownCleared(q)' PROVE p <= q
      <4>1. CASE DownCleared(q)
        BY <2>1, <4>1 DEF FirstCleared
      <4>2. CASE q = Len(downward) + 1
        BY <1>b, <3>1, <4>2
      <4> QED
        BY <1>j, <3>2, <4>1, <4>2 DEF DownGrows
    <3> QED
      BY <3>1, <3>2 DEF FirstCleared
  <2>2. ASSUME NEW p \in Int, NewDown(p, k), NEW i \in Int, DownText(i)', p < i
        PROVE  clears'[k].texts < downward'[i].n
    BY <1>j, <2>2 DEF DownGrows, NewDown
  <2> QED
    BY <2>1, <2>2 DEF NewDown
<1>k. ASSUME NEW n \in Int, NEW kind \in {"audio", "done", "error"}, DownGrows(kind, n), NoCleared
      PROVE  NoCleared'
  BY <1>k DEF DownGrows, NoCleared
<1>l. ASSUME UpMoves
      PROVE  /\ NewUp(0, k) => NewUp(0, k)'
             /\ \A p \in Int : NewUp(p, k) => NewUp(p - 1, k)'
             /\ \A p \in Int : FirstClear(p) /\ p # 1 => FirstClear(p - 1)'
  <2>0. \A i \in Int : UpText(i)' => UpText(i + 1) /\ i + 1 \in Int /\ 0 < i + 1 /\ upward'[i] = upward[i + 1]
    BY <1>c, <1>l DEF UpMoves
  <2>1. NewUp(0, k) => NewUp(0, k)'
    BY <2>0 DEF NewUp
  <2>2. ASSUME NEW p \in Int, NewUp(p, k) PROVE NewUp(p - 1, k)'
    <3> SUFFICES ASSUME NEW i \in Int, UpText(i)', p - 1 < i PROVE clears'[k].texts < upward'[i].n
      BY DEF NewUp
    <3>1. p < i + 1
      OBVIOUS
    <3> QED
      BY <2>0, <2>2, <3>1 DEF NewUp
  <2>3. ASSUME NEW p \in Int, FirstClear(p), p # 1 PROVE FirstClear(p - 1)'
    <3>1. UpClear(p - 1)' /\ p - 1 \in Int
      BY <1>l, <2>3 DEF UpMoves, FirstClear
    <3>2. ASSUME NEW q \in Int, UpClear(q)' PROVE p - 1 <= q
      <4>1. p <= q + 1
        BY <1>l, <2>3, <3>2 DEF UpMoves, FirstClear
      <4> QED
        BY <4>1
    <3> QED
      BY <3>1, <3>2 DEF FirstClear
  <2> QED
    BY <2>1, <2>2, <2>3
<1>m. ASSUME DownMoves
      PROVE  /\ NewDown(0, k) => NewDown(0, k)'
             /\ \A p \in Int : NewDown(p, k) => NewDown(p - 1, k)'
             /\ \A p \in Int : FirstCleared(p) /\ p # 1 => FirstCleared(p - 1)'
             /\ NoCleared => NoCleared'
  <2>0. \A i \in Int : DownText(i)' => DownText(i + 1) /\ i + 1 \in Int /\ 0 < i + 1 /\ downward'[i] = downward[i + 1]
    BY <1>c, <1>m DEF DownMoves
  <2>1. NewDown(0, k) => NewDown(0, k)'
    BY <2>0 DEF NewDown
  <2>2. ASSUME NEW p \in Int, NewDown(p, k) PROVE NewDown(p - 1, k)'
    <3> SUFFICES ASSUME NEW i \in Int, DownText(i)', p - 1 < i PROVE clears'[k].texts < downward'[i].n
      BY DEF NewDown
    <3>1. p < i + 1
      OBVIOUS
    <3> QED
      BY <2>0, <2>2, <3>1 DEF NewDown
  <2>3. ASSUME NEW p \in Int, FirstCleared(p), p # 1 PROVE FirstCleared(p - 1)'
    <3>1. DownCleared(p - 1)' /\ p - 1 \in Int
      BY <1>m, <2>3 DEF DownMoves, FirstCleared
    <3>2. ASSUME NEW q \in Int, DownCleared(q)' PROVE p - 1 <= q
      <4>1. p <= q + 1
        BY <1>m, <2>3, <3>2 DEF DownMoves, FirstCleared
      <4> QED
        BY <4>1
    <3> QED
      BY <3>1, <3>2 DEF FirstCleared
  <2>4. NoCleared => NoCleared'
    BY <1>m DEF DownMoves, NoCleared
  <2> QED
    BY <2>1, <2>2, <2>3, <2>4
<1>n. ASSUME TodoMoves, NewTodo(k) PROVE NewTodo(k)'
  BY <1>n DEF TodoMoves, NewTodo
<1>o. ASSUME NEW n \in Int, TodoGrows(n), NewTodo(k), n # End => clears[k].texts < n PROVE NewTodo(k)'
  BY <1>o DEF TodoGrows, NewTodo
(* The actions.                                                             *)
<1>1. CASE UNCHANGED <<clears, dropping, socket, upward, downward, todo>>
  BY <1>1, <1>g, UpIsKept, TodoIsKept, DownIsKept
<1>2. CASE OpenFails
  <2>1. UNCHANGED <<dropping, upward, downward, todo>> /\ socket' # "open"
    BY <1>2 DEF OpenFails
  <2> QED
    BY <1>g, <2>1, UpIsKept, TodoIsKept, DownIsKept
<1>3. CASE ReadText
  <2>1. texts + 1 \in Int /\ clears[k].texts < texts + 1
    BY <1>a
  <2>2. /\ TodoKept /\ DownKept /\ UNCHANGED <<dropping, socket>>
        /\ UpGrows("text", texts + 1) \/ UpKept
    BY <1>3, ReadTextMoves
  <2>3. CASE UpGrows("text", texts + 1)
    BY <1>i, <2>1, <2>2, <2>3
  <2>4. CASE UpKept
    BY <1>g, <2>2, <2>4
  <2> QED
    BY <2>2, <2>3, <2>4
<1>4. CASE ReadFinalize
  <2>1. /\ TodoKept /\ DownKept /\ UNCHANGED <<dropping, socket>>
        /\ UpGrows("done", 0) \/ UpKept
    BY <1>4, ReadFinalizeMoves
  <2>2. CASE UpGrows("done", 0)
    <3>1. ("done" = "text") => clears[k].texts < 0
      OBVIOUS
    <3> QED
      BY <1>i, <2>1, <2>2, <3>1
  <2>3. CASE UpKept
    BY <1>g, <2>1, <2>3
  <2> QED
    BY <2>1, <2>2, <2>3
<1>5. CASE ReadClear
  <2>1. TodoKept /\ DownKept /\ dropping' = TRUE /\ UNCHANGED socket
    BY <1>5, ReadClearMoves
  <2>2. UpKept \/ \E n \in Int : UpGrows("clear", n)
    BY <1>5, ReadClearMoves
  <2>3. ASSUME NEW n \in Int, UpGrows("clear", n) PROVE AnswerOf(k)'
    <3>1. ("clear" = "text") => clears[k].texts < n
      OBVIOUS
    <3> QED
      BY <1>i, <2>1, <2>3, <3>1
  <2>4. CASE UpKept
    BY <1>g, <2>1, <2>4
  <2> QED
    BY <2>2, <2>3, <2>4
<1>6. CASE PumpAudio \/ PumpDone \/ PumpError
  <2>1. DownMoves /\ UpKept /\ TodoKept /\ ~DownCleared(1) /\ UNCHANGED <<dropping, socket>>
    <3>1. DownText(1) => ~DownCleared(1)
      BY DEF DownText, DownCleared
    <3> QED
      BY <1>6, <3>1, PumpMoves
  <2>2. Unread(k) => Unread(k)'
    BY <1>d, <1>m, <2>1 DEF Unread
  <2>3. Passed(k) => Passed(k)'
    BY <1>d, <1>e, <1>m, <2>1 DEF Passed
  <2>4. Deaf => Deaf'
    BY <1>m, <2>1 DEF Deaf
  <2>5. OnItsWay(k) => OnItsWay(k)'
    <3> SUFFICES ASSUME dropping, NewUp(0, k), NewTodo(k), NEW p \in Int, FirstCleared(p), NewDown(p, k)
                 PROVE  OnItsWay(k)'
      BY DEF OnItsWay
    <3>1. p # 1 /\ p - 1 \in Int
      BY <2>1 DEF FirstCleared
    <3> QED
      BY <1>d, <1>e, <1>m, <2>1, <3>1 DEF OnItsWay
  <2> QED
    BY <2>2, <2>3, <2>4, <2>5 DEF AnswerOf
<1>7. CASE PumpAck
  <2>1. DownMoves /\ UpKept /\ TodoKept /\ DownCleared(1)
    BY <1>7, PumpMoves
  <2>2. ~Unread(k) /\ ~Deaf
    BY <2>1 DEF Unread, Deaf, NoCleared
  <2>3. Passed(k) => Passed(k)'
    BY <1>d, <1>e, <1>m, <2>1 DEF Passed
  <2>4. OnItsWay(k) => Passed(k)'
    <3> SUFFICES ASSUME NewUp(0, k), NewTodo(k), NEW p \in Int, FirstCleared(p), NewDown(p, k)
                 PROVE  Passed(k)'
      BY DEF OnItsWay
    <3>1. p <= 1 /\ 0 < p
      BY <1>c, <2>1 DEF FirstCleared
    <3>2. p = 1 /\ p - 1 = 0
      BY <3>1
    <3>3. NewDown(p - 1, k)'
      BY <1>m, <2>1
    <3>4. NewDown(0, k)'
      BY <3>2, <3>3
    <3> QED
      BY <1>d, <1>e, <2>1, <3>4 DEF Passed
  <2> QED
    BY <2>2, <2>3, <2>4 DEF AnswerOf
<1>8. CASE VendorReads
  <2>1. UpMoves /\ UNCHANGED <<dropping, socket>> /\ socket = "open"
    BY <1>8, VendorReadsMoves
  <2>2. ~Deaf
    BY <2>1 DEF Deaf
  <2>3. CASE DownKept /\ ~UpClear(1) /\ (NewUp(0, k) /\ NewTodo(k) => NewTodo(k)')
    <3>1. Unread(k) => Unread(k)'
      <4> SUFFICES ASSUME dropping, NoCleared, NEW p \in Int, FirstClear(p), NewUp(p, k) PROVE Unread(k)'
        BY DEF Unread
      <4>1. p # 1 /\ p - 1 \in Int
        BY <2>3 DEF FirstClear
      <4> QED
        BY <1>f, <1>l, <2>1, <2>3, <4>1 DEF Unread
    <3>2. OnItsWay(k) => OnItsWay(k)'
      BY <1>f, <1>l, <2>1, <2>3 DEF OnItsWay
    <3>3. Passed(k) => Passed(k)'
      BY <1>f, <1>l, <2>1, <2>3 DEF Passed
    <3> QED
      BY <2>2, <3>1, <3>2, <3>3 DEF AnswerOf
  <2>4. CASE UpText(1) /\ TodoGrows(upward[1].n) /\ DownKept /\ ~UpClear(1)
    <3>1. upward[1].n \in Int /\ (NewUp(0, k) => clears[k].texts < upward[1].n)
      BY <2>4, TextIn DEF NewUp
    <3> QED
      BY <1>o, <2>3, <2>4, <3>1
  <2>5. CASE TodoGrows(End) /\ DownKept /\ ~UpClear(1)
    <3>1. End \in Int
      BY DEF End
    <3> QED
      BY <1>o, <2>3, <2>5, <3>1
  <2>6. CASE UpClear(1) /\ (\E n \in Int : DownGrows("cleared", n)) /\ \A i \in Int : ~TodoText(i)'
    <3>1. PICK n \in Int : DownGrows("cleared", n)
      BY <2>6
    <3>2. NewTodo(k)'
      BY <2>6 DEF NewTodo
    <3>3. Unread(k) => OnItsWay(k)'
      <4> SUFFICES ASSUME dropping, NoCleared, NEW p \in Int, FirstClear(p), NewUp(p, k) PROVE OnItsWay(k)'
        BY DEF Unread
      <4>1. p = 1
        <5>1. p <= 1 /\ 0 < p
          BY <1>c, <2>6 DEF FirstClear
        <5> QED
          BY <5>1
      <4>2. NewUp(0, k)'
        <5>1. NewUp(p - 1, k)' /\ p - 1 = 0
          BY <1>l, <2>1, <4>1
        <5> QED
          BY <5>1
      <4>3. \A i \in Int : DownText(i)' => i < Len(downward) + 1
        BY <3>1 DEF DownGrows
      <4>4. \E q \in Int : FirstCleared(q)' /\ NewDown(q, k)'
        <5> DEFINE e == Len(downward) + 1
        <5>1. e \in Int /\ \A i \in Int : (DownCleared(i)' <=> i = e)
          BY <3>1 DEF DownGrows, NoCleared
        <5>2. \A i \in Int : DownText(i)' => ~(e < i)
          BY <4>3, <1>b
        <5> HIDE DEF e
        <5>3. e <= e
          BY <5>1
        <5> QED
          BY <5>1, <5>2, <5>3 DEF FirstCleared, NewDown
      <4> QED
        BY <2>1, <3>2, <4>2, <4>4 DEF OnItsWay
    <3>6. /\ \A p \in Int : FirstCleared(p) => FirstCleared(p)'
          /\ \A p \in Int : NewDown(p, k) => NewDown(p, k)'
      <4>1. ("cleared" = "audio") => clears[k].texts < n
        OBVIOUS
      <4> QED
        BY <1>j, <3>1, <4>1
    <3>4. OnItsWay(k) => OnItsWay(k)'
      BY <1>l, <2>1, <3>2, <3>6 DEF OnItsWay
    <3>5. Passed(k) => Passed(k)'
      BY <1>l, <2>1, <3>2, <3>6 DEF Passed
    <3> QED
      BY <2>2, <3>3, <3>4, <3>5 DEF AnswerOf
  <2> QED
    BY <1>8, <2>4, <2>5, <2>6, VendorReadsMoves
<1>9. CASE VendorVoices
  <2>1. TodoMoves /\ UpKept /\ UNCHANGED <<dropping, socket>>
    BY <1>9, VendorVoicesMoves
  <2>2. PICK n \in Int, kind \in {"audio", "done"} : DownGrows(kind, n) /\ (kind = "audio" => TodoText(1) /\ n = todo[1])
    BY <1>9, TextIn, VendorVoicesMoves
  <2>3. NewTodo(k) => (kind = "audio" => clears[k].texts < n)
    BY <2>2 DEF NewTodo
  <2>4. Unread(k) => Unread(k)'
    BY <1>d, <1>k, <2>1, <2>2 DEF Unread
  <2>5. Deaf => Deaf'
    BY <1>k, <2>1, <2>2 DEF Deaf
  <2>8. ASSUME NewTodo(k)
        PROVE  /\ \A p \in Int : FirstCleared(p) => FirstCleared(p)'
               /\ \A p \in Int : NewDown(p, k) => NewDown(p, k)'
    BY <1>j, <2>2, <2>3, <2>8
  <2>6. OnItsWay(k) => OnItsWay(k)'
    BY <1>d, <1>n, <2>1, <2>8 DEF OnItsWay
  <2>7. Passed(k) => Passed(k)'
    BY <1>d, <1>n, <2>1, <2>8 DEF Passed
  <2> QED
    BY <2>4, <2>5, <2>6, <2>7 DEF AnswerOf
<1>10. CASE VendorBreaks
  <2>1. UpKept /\ TodoKept /\ socket' # "open" /\ UNCHANGED dropping /\ (DownKept \/ DownGrows("error", 0))
    BY <1>10, VendorBreaksMoves
  <2>2. CASE DownKept
    BY <1>g, <2>1, <2>2
  <2>3. CASE DownGrows("error", 0)
    <3>1. Unread(k) => Unread(k)'
      BY <1>d, <1>k, <2>1, <2>3 DEF Unread
    <3>2. Deaf => Deaf'
      BY <1>k, <2>1, <2>3 DEF Deaf
    <3>5. /\ \A p \in Int : FirstCleared(p) => FirstCleared(p)'
          /\ \A p \in Int : NewDown(p, k) => NewDown(p, k)'
      <4>1. ("error" = "audio") => clears[k].texts < 0
        OBVIOUS
      <4> QED
        BY <1>j, <2>3, <4>1
    <3>3. OnItsWay(k) => OnItsWay(k)'
      BY <1>d, <1>e, <2>1, <3>5 DEF OnItsWay
    <3>4. Passed(k) => Passed(k)'
      BY <1>d, <1>e, <2>1, <3>5 DEF Passed
    <3> QED
      BY <3>1, <3>2, <3>3, <3>4 DEF AnswerOf
  <2> QED
    BY <2>1, <2>2, <2>3
<1> QED
  BY <1>1, <1>2, <1>3, <1>4, <1>5, <1>6, <1>7, <1>8, <1>9, <1>10, OthersLeaveAnswers

LEMMA AnswerStep ==
  NativeTypes /\ OrderInv /\ NotesInv /\ AnswerInv /\ [Next]_vars => AnswerInv'
<1> SUFFICES ASSUME NativeTypes, OrderInv, NotesInv, AnswerInv, [Next]_vars,
                    NEW k \in 1 .. Len(clears'), clears'[k].alone
             PROVE  AnswerOf(k)'
  BY DEF AnswerInv, AnswerOf
<1>1. CASE k \in 1 .. Len(clears) /\ clears'[k] = clears[k]
  BY <1>1, AnswerStays DEF AnswerInv, AnswerOf
<1>2. CASE ReadClear /\ ~(k \in 1 .. Len(clears) /\ clears'[k] = clears[k])
  <2>1. TodoKept /\ DownKept /\ dropping' = TRUE /\ UNCHANGED socket
    BY <1>2, ReadClearMoves
  <2>2. PICK at \in Int :
          /\ [texts |-> texts, alone |-> Alone, at |-> at] \in ClearRecord
          /\ clears' = Append(clears, [texts |-> texts, alone |-> Alone, at |-> at])
          /\ \/ socket = "open" /\ UpGrows("clear", at)
             \/ socket # "open" /\ UpKept
    BY <1>2, ReadClearMoves
  <2>3. /\ Len(clears) \in Nat /\ Len(clears') = Len(clears) + 1
        /\ \A i \in 1 .. Len(clears) : clears'[i] = clears[i]
        /\ clears'[Len(clears) + 1] = [texts |-> texts, alone |-> Alone, at |-> at]
    BY <2>2, AfterAppend DEF NativeTypes, ClearRecord
  <2>4. k = Len(clears) + 1
    BY <1>2, <2>3
  <2>5. Alone
    BY <2>3, <2>4
  <2>6. upward = <<>> /\ NoCleared
    <3>1. DOMAIN downward = 1 .. Len(downward)
      BY LenProperties DEF NativeTypes
    <3> QED
      BY <2>5, <3>1 DEF Alone, NoCleared, DownCleared
  <2>7. NoCleared'
    BY <2>1, <2>6 DEF NoCleared, DownKept
  <2>8. CASE socket # "open"
    BY <2>1, <2>7, <2>8 DEF AnswerOf, Deaf
  <2>9. CASE UpGrows("clear", at)
    <3>1. \A i \in Int : ~UpText(i) /\ ~UpClear(i)
      BY <2>6 DEF UpText, UpClear
    <3>2. \A i \in Int : ~UpText(i)'
      BY <2>9, <3>1 DEF UpGrows
    <3>3. \E p \in Int : FirstClear(p)'
      <4> DEFINE e == Len(upward) + 1
      <4>1. e \in Int /\ \A i \in Int : (UpClear(i)' <=> i = e)
        BY <2>9, <3>1 DEF UpGrows
      <4> HIDE DEF e
      <4>2. e <= e
        BY <4>1
      <4> QED
        BY <4>1, <4>2 DEF FirstClear
    <3> QED
      BY <2>1, <2>7, <3>2, <3>3 DEF AnswerOf, Unread, NewUp
  <2> QED
    BY <2>2, <2>8, <2>9
<1>3. ReadClear \/ UNCHANGED clears
  BY DEF vars, Next, Reader, ReaderGoesOn, Pump, Run, Vendor, Open, OpenFails, DecideByPump,
     DecideByOther, Finish, Trip, ReadText, ReadFinalize, ReadDisconnect, ClearAnswered,
     SayCleared, PumpAudio, PumpSent, PumpAck, PumpDone, PumpError, PumpClosed, PumpLeft,
     VendorReads, VendorVoices, VendorBreaks
<1> QED
  BY <1>1, <1>2, <1>3

(* What is noted of a clear stays as it was noted.                         *)
LEMMA ClearsStay ==
  ASSUME NativeTypes, [Next]_vars
  PROVE  \A k \in 1 .. Len(clears) : k \in 1 .. Len(clears') /\ clears'[k] = clears[k]
<1>1. CASE ReadClear
  <2>1. PICK c \in ClearRecord : clears' = Append(clears, c)
    BY <1>1, ClearTaken
  <2>2. clears \in Seq(ClearRecord)
    BY DEF NativeTypes, ClearRecord
  <2> QED
    BY <2>1, <2>2, AfterAppend
<1>2. ReadClear \/ UNCHANGED clears
  BY DEF vars, Next, Reader, ReaderGoesOn, Pump, Run, Vendor, Open, OpenFails, DecideByPump,
     DecideByOther, Finish, Trip, ReadText, ReadFinalize, ReadDisconnect, ClearAnswered,
     SayCleared, PumpAudio, PumpSent, PumpAck, PumpDone, PumpError, PumpClosed, PumpLeft,
     VendorReads, VendorVoices, VendorBreaks
<1> QED
  BY <1>1, <1>2

LEMMA OthersSendNothing ==
  ASSUME [Next]_vars
  PROVE  \/ Open \/ OpenFails \/ DecideByPump \/ DecideByOther \/ SayCleared \/ PumpAudio \/ PumpSent
         \/ UNCHANGED out
BY DEF vars, Next, Reader, ReaderGoesOn, Pump, Run, Vendor, Finish, Trip, ReadText, ReadFinalize,
   ReadClear, ReadDisconnect, ClearAnswered, PumpAck, PumpDone, PumpError, PumpClosed, PumpLeft,
   VendorReads, VendorVoices, VendorBreaks

(* A chunk is sent only once every clear that was taken alone is answered,  *)
(* and then what reaches the session was said after it.                     *)
LEMMA BarrierStep ==
  NativeTypes /\ FramesInv /\ AnswerInv /\ BarrierInv /\ [Next]_vars => BarrierInv'
<1> SUFFICES ASSUME NativeTypes, FramesInv, AnswerInv, BarrierInv, [Next]_vars,
                    NEW i \in Int, NEW j \in Int,
                    IsCleared(i)', IsChunk(j)', i < j, clears'[out'[i].clear].alone
             PROVE  clears'[out'[i].clear].texts < out'[j].text
  BY DEF BarrierInv
<1>a. out \in Seq(Told) /\ seq \in Int /\ sent \in Int
  BY DEF NativeTypes
<1>b. \A h \in Int : IsCleared(h) => out[h].clear \in 1 .. Len(clears)
  BY DEF FramesInv, ClearedInv
<1>c. \A h \in Int : IsCleared(h) => clears'[out[h].clear] = clears[out[h].clear]
  BY <1>b, ClearsStay
<1>1. CASE IsCleared(i) /\ out'[i] = out[i] /\ IsChunk(j) /\ out'[j] = out[j]
  BY <1>1, <1>c DEF BarrierInv
<1>2. CASE UNCHANGED out
  BY <1>1, <1>2 DEF IsCleared, IsChunk
<1>3. CASE Open \/ OpenFails
  BY <1>3 DEF Open, OpenFails, Frame, IsChunk
(* a frame that is not a chunk comes after all the chunks                   *)
<1>4. ASSUME NEW f \in Told, out' = Append(out, f), f.kind # "audio.chunk"
      PROVE  clears'[out'[i].clear].texts < out'[j].text
  <2>1. IsChunk(j) /\ j < Len(out) + 1 /\ out'[j] = out[j]
    BY <1>4, <1>a, FrameSent
  <2>2. \/ IsCleared(i) /\ out'[i] = out[i]
        \/ i = Len(out) + 1
    BY <1>4, <1>a, FrameSent
  <2>3. Len(out) \in Int
    BY <1>4, <1>a, FrameSent
  <2> QED
    BY <1>1, <2>1, <2>2, <2>3
<1>5. CASE DecideByPump \/ DecideByOther
  <2>1. UNCHANGED out \/ out' = Append(out, Frame("done")) \/ out' = Append(out, Frame("error"))
    BY <1>5 DEF DecideByPump, DecideByOther
  <2>2. Frame("done") \in Told /\ Frame("done").kind # "audio.chunk"
    BY Sent DEF Frame
  <2>3. Frame("error") \in Told /\ Frame("error").kind # "audio.chunk"
    BY Sent DEF Frame
  <2> QED
    BY <1>2, <1>4, <2>1, <2>2, <2>3
<1>6. CASE SayCleared
  <2>1. UNCHANGED out \/ out' = Append(out, Cleared(sent))
    BY <1>6 DEF SayCleared
  <2>2. Cleared(sent) \in Told /\ Cleared(sent).kind # "audio.chunk"
    BY <1>a, Sent DEF Cleared
  <2> QED
    BY <1>2, <1>4, <2>1, <2>2
<1>7. CASE PumpSent
  <2>1. PICK t \in Int : out' = Append(out, Audio(t))
    BY <1>7, HeaderOfPair
  <2>2. Audio(t) \in Told /\ Audio(t).kind # "audio.chunk"
    BY Sent DEF Audio
  <2> QED
    BY <1>4, <2>1, <2>2
<1>8. CASE PumpAudio
  <2>1. UNCHANGED out \/ (~Drops /\ out' = Append(out, Header(seq + 1, Head(downward).n)))
    BY <1>8 DEF PumpAudio
  <2>2. CASE ~Drops /\ out' = Append(out, Header(seq + 1, Head(downward).n))
    <3> DEFINE f == Header(seq + 1, Head(downward).n)
    <3>0. /\ seq + 1 \in Int /\ Head(downward).n \in Int /\ Head(downward) = downward[1]
          /\ DownText(1)
      <4>1. DownText(1) /\ downward[1] = Head(downward)
        BY <1>8, PumpMoves
      <4>2. downward[1].n \in Int
        BY <4>1, TextIn
      <4> QED
        BY <1>a, <4>1, <4>2
    <3>1. f \in Told /\ f.kind = "audio.chunk" /\ f.text = downward[1].n /\ out' = Append(out, f)
      BY <2>2, <3>0, Sent DEF Header
    <3> HIDE DEF f
    <3>2. \/ IsChunk(j) /\ out'[j] = out[j]
          \/ j = Len(out) + 1 /\ out'[j] = f
      BY <1>a, <3>1, FrameSent
    <3>3. IsCleared(i) /\ out'[i] = out[i]
      BY <1>a, <3>1, FrameSent
    <3>4. clears[out[i].clear].alone /\ out[i].clear \in 1 .. Len(clears)
      BY <1>b, <1>c, <3>3
    <3>5. ~dropping
      BY <2>2 DEF Drops
    <3>6. Passed(out[i].clear)
      BY <3>4, <3>5 DEF AnswerInv, Unread, OnItsWay, Deaf
    <3>7. clears[out[i].clear].texts < downward[1].n
      BY <3>0, <3>6 DEF Passed, NewDown
    <3> QED
      BY <1>1, <1>c, <3>1, <3>2, <3>3, <3>7
  <2> QED
    BY <1>2, <2>1, <2>2
<1> QED
  BY <1>2, <1>3, <1>5, <1>6, <1>7, <1>8, OthersSendNothing

----------------------------------------------------------------------------
(* The invariant.                                                          *)
LEMMA NativeStarts == Init => NativeInv
<1> SUFFICES ASSUME Init PROVE NativeInv
  OBVIOUS
<1>1. /\ upward = <<>> /\ downward = <<>> /\ todo = <<>> /\ out = <<>> /\ clears = <<>> /\ usage = <<>>
      /\ run = "opening" /\ pump = "recv" /\ reader = "recv" /\ socket = "open"
      /\ seq = 0 /\ sent = 0 /\ texts = 0 /\ offset = -1
      /\ clearing = FALSE /\ finalized = FALSE /\ dropping = FALSE /\ cleared = FALSE
      /\ finishing = FALSE
  BY DEF Init
<1>2. Len(upward) = 0 /\ Len(downward) = 0 /\ Len(todo) = 0 /\ Len(out) = 0 /\ Len(clears) = 0
      /\ Len(usage) = 0
  BY <1>1, EmptySeq
<1>3. \A i \in Int : ~UpText(i) /\ ~UpClear(i) /\ ~UpDone(i)
  BY <1>2 DEF UpText, UpClear, UpDone
<1>4. \A i \in Int : ~TodoText(i) /\ ~TodoDone(i) /\ ~DownText(i) /\ ~DownCleared(i) /\ ~DownDone(i)
  BY <1>2 DEF TodoText, TodoDone, DownText, DownCleared, DownDone
<1>5. \A i \in Int : ~IsChunk(i) /\ ~IsAudio(i) /\ ~IsCleared(i) /\ ~IsDone(i)
  BY <1>2 DEF IsChunk, IsAudio, IsCleared, IsDone
<1>6. NativeTypes
  <2>1. /\ upward \in Seq(Message) /\ downward \in Seq(Event) /\ todo \in Seq(Int) /\ out \in Seq(Told)
        /\ clears \in Seq([texts : Int, alone : BOOLEAN, at : Int])
    BY <1>1, EmptySeq
  <2>2. stream \in Streams /\ offset \in Int
    BY <1>1 DEF Init
  <2>3. /\ clearing \in BOOLEAN /\ finalized \in BOOLEAN /\ dropping \in BOOLEAN
        /\ cleared \in BOOLEAN /\ finishing \in BOOLEAN
    BY <1>1
  <2>4. seq \in Int /\ sent \in Int /\ texts \in Int
    BY <1>1
  <2> QED
    BY <1>1, <2>1, <2>2, <2>3, <2>4, Zenon DEF NativeTypes
<1>7. UsageInv
  BY <1>1, <1>2 DEF UsageInv
<1>8. OrderInv
  <2>1. CountsInv
    BY <1>1, NativeAssumption DEF CountsInv
  <2> QED
    BY <1>3, <1>4, <2>1 DEF OrderInv, UpOrder, TodoOrder, DownOrder, DownTodo, DownUp, TodoUp
<1>9. FramesInv
  <2>1. LastInv
    BY <1>2, <1>5 DEF LastInv
  <2> QED
    BY <1>1, <1>5, <2>1 DEF FramesInv, OpeningInv, SentInv, ChunksInv, HeaderInv, DoneInv, ClearedInv,
                            PairsInv, AckedInv
<1>10. AnswerInv
  BY <1>2 DEF AnswerInv
<1>11. BarrierInv
  BY <1>5 DEF BarrierInv
<1>12. NotesInv
  BY <1>2 DEF NotesInv
<1>13. DropsInv
  BY <1>1, <1>3, <1>4 DEF DropsInv, ClearingInv, DroppingInv, OldBeforeClear, OldBeforeCleared
<1>14. EndInv
  BY <1>1, <1>3, <1>4 DEF EndInv, UpEnds, TodoEnds, DownEnds, PumpEnds
<1>15. PendingInv
  <2>1. LastCleared = 0
    BY <1>1 DEF LastCleared
  <2>2. \A t \in Int : ~(LastCleared < t /\ t <= texts)
    BY <1>1, <2>1
  <2> QED
    BY <2>2 DEF PendingInv
<1> QED
  BY <1>6, <1>7, <1>8, <1>9, <1>10, <1>11, <1>12, <1>13, <1>14, <1>15 DEF NativeInv

LEMMA NativeStep == NativeInv /\ [Next]_vars => NativeInv'
<1> SUFFICES ASSUME NativeTypes, UsageInv, OrderInv, FramesInv, AnswerInv, BarrierInv, NotesInv,
                    DropsInv, EndInv, PendingInv, [Next]_vars
             PROVE  NativeInv'
  BY DEF NativeInv
<1>1. CountsInv /\ UpOrder
  BY DEF OrderInv
<1>2. NativeTypes' /\ UsageInv' /\ OrderInv'
  BY TypesStep, UsageStep, OrderStep
<1>3. FramesInv' /\ AnswerInv' /\ BarrierInv' /\ NotesInv'
  BY <1>1, FramesStep, AnswerStep, BarrierStep, NotesStep
<1>4. DropsInv' /\ EndInv' /\ PendingInv'
  BY <1>1, DropsStep, EndStep, PendingStep
<1> QED
  BY <1>2, <1>3, <1>4 DEF NativeInv

(* Everything of the above holds in every state of a session.              *)
THEOREM NativeInvHolds == Spec => []NativeInv
<1>1. Init => NativeInv
  BY NativeStarts
<1>2. NativeInv /\ [Next]_vars => NativeInv'
  BY NativeStep
<1> QED
  BY <1>1, <1>2, PTL DEF Spec

----------------------------------------------------------------------------
(* What it says of the frames the client has got.                          *)
LEMMA FramesAre ==
  ASSUME NativeTypes
  PROVE  /\ \A i \in Frames("audio.chunk") : i \in Int /\ IsChunk(i)
         /\ \A i \in Frames("audio") : i \in Int /\ IsAudio(i)
         /\ \A i \in Int : IsAudio(i) => i \in Frames("audio")
         /\ \A i \in Frames("cleared") : i \in Int /\ IsCleared(i)
         /\ \A i \in Frames("done") : i \in Int /\ IsDone(i)
<1>1. DOMAIN out = 1 .. Len(out)
  BY LenProperties DEF NativeTypes
<1> QED
  BY <1>1 DEF Frames, IsChunk, IsAudio, IsCleared, IsDone

LEMMA NativeTypeOK == NativeTypes /\ UsageInv /\ OrderInv => TypeOK
<1> SUFFICES ASSUME NativeTypes, UsageInv, OrderInv PROVE TypeOK
  OBVIOUS
<1>1. {clearing, finalized, dropping, cleared, finishing} \subseteq BOOLEAN
  BY DEF NativeTypes
<1>2. sent \in 0 .. seq /\ seq \in 0 .. MaxTexts /\ texts \in 0 .. MaxTexts
  BY NativeAssumption DEF NativeTypes, OrderInv, CountsInv
<1> QED
  BY <1>1, <1>2 DEF TypeOK, NativeTypes, UsageInv

LEMMA AllIsVoiced ==
  NativeTypes /\ FramesInv /\ EndInv /\ PendingInv => DoneMeansAllVoiced
<1> SUFFICES ASSUME NativeTypes, FramesInv, EndInv, PendingInv,
                    Frames("done") # {}, socket = "open",
                    NEW t \in LastCleared + 1 .. texts
             PROVE  t \in Voiced
  BY DEF DoneMeansAllVoiced
<1>1. pump = "ended"
  BY FramesAre DEF FramesInv, DoneInv
<1>2. t \in Int /\ LastCleared < t /\ t <= texts
  BY LastClearedIs DEF NativeTypes
<1>3. ~Sending(t)
  BY <1>1 DEF Sending
<1>4. ~InPipe(t)
  BY <1>1 DEF EndInv, PumpEnds, InPipe
<1>5. Heard(t)
  BY <1>1, <1>2, <1>3, <1>4 DEF PendingInv
<1> QED
  BY <1>5, FramesAre DEF Heard, Voiced

LEMMA NativeImplies == NativeInv => BargeInIsClean
<1> SUFFICES ASSUME NativeTypes, UsageInv, OrderInv, FramesInv, BarrierInv, NotesInv, EndInv, PendingInv
             PROVE  BargeInIsClean
  BY DEF NativeInv
<1>1. TypeOK
  BY NativeTypeOK
<1>2. ClearedCountsEveryPair
  BY FramesAre DEF ClearedCountsEveryPair, FramesInv, ClearedInv
<1>3. PairsStayTogether
  BY FramesAre DEF PairsStayTogether, FramesInv, PairsInv
<1>4. ClearedIsABarrier
  <2> SUFFICES ASSUME NEW i \in Frames("cleared"), NEW j \in Frames("audio.chunk"),
                      clears[out[i].clear].alone, i < j
               PROVE  out[j].text > clears[out[i].clear].texts
    BY DEF ClearedIsABarrier
  <2>1. clears[out[i].clear].texts < out[j].text
    BY FramesAre DEF BarrierInv
  <2> QED
    BY <2>1
<1>5. OffsetsAdvance
  <2>1. DOMAIN clears = 1 .. Len(clears)
    BY LenProperties DEF NativeTypes
  <2> QED
    BY <2>1 DEF OffsetsAdvance, NotesInv
<1>6. DoneMeansAllVoiced
  BY AllIsVoiced
<1> QED
  BY <1>1, <1>2, <1>3, <1>4, <1>5, <1>6 DEF BargeInIsClean

(* A barge-in is clean, however much is said and however often the client   *)
(* interrupts: `cleared` counts every pair that was sent, pairs stay        *)
(* together, nothing said before a clear is heard after its `cleared` when  *)
(* the vendor had answered the earlier ones, Flux's offsets advance, and    *)
(* `done` comes when all that was not cleared was voiced.                   *)
THEOREM NativeBargeInIsClean == Spec => []BargeInIsClean
<1>1. NativeInv => BargeInIsClean
  BY NativeImplies
<1> QED
  BY <1>1, NativeInvHolds, PTL

============================================================================
