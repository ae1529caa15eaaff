------------------------------ MODULE TextSegments ------------------------------
(***************************************************************************)
(* TextSegmenter (tts/segmenter.py): the text of a speak session, which    *)
(* comes in deltas, is cut into segments for the vendor.                   *)
(*                                                                         *)
(* A character is of a class: a letter, a space, a newline, a terminator   *)
(* (".!?;:" and an ellipsis), a CJK terminator.  Quotes and brackets behind *)
(* a terminator are left out.  Characters are numbered as they come, so a  *)
(* segment is an interval of the text.                                     *)
(***************************************************************************)
EXTENDS Integers, Sequences, FiniteSets, FiniteSetsExt

CONSTANTS MinChars, MaxChars,  \* min_chars, max_chars
          MaxText, MaxDelta    \* bounds: characters in all, in a delta

VARIABLES
    text,      \* history: the characters received, by class
    buf,       \* _buf, as the interval of the text it is: from buf + 1
    segments,  \* the segments emitted: [from, to]
    dropped    \* history: characters a clear() discarded

vars == <<text, buf, segments, dropped>>

Classes == {"letter", "space", "newline", "stop", "cjk stop"}
Blank == {"space", "newline"}

Init == text = <<>> /\ buf = 0 /\ segments = <<>> /\ dropped = {}

-----------------------------------------------------------------------------
(* The positions of t at which a match of _TERMINATOR ends, where the      *)
(* buffer starts behind position b: a run of terminators with the whole    *)
(* blank run behind it, a run of CJK terminators, or a run of newlines.    *)

RunsOn(t, e, cs) == e < Len(t) /\ t[e + 1] \in cs
\* e is in a blank run with a terminator in front of it
Stopped(t, b, e) ==
    \E s \in (b + 1)..(e - 1) : t[s] = "stop" /\ \A i \in (s + 1)..e : t[i] \in Blank

MatchEnds(t, b) ==
    {e \in (b + 1)..Len(t) :
        \/ Stopped(t, b, e) /\ ~RunsOn(t, e, Blank)
        \/ t[e] = "cjk stop" /\ ~RunsOn(t, e, {"cjk stop"})
        \/ t[e] = "newline" /\ ~Stopped(t, b, e) /\ ~RunsOn(t, e, {"newline"})}

NoCut == -1

\* _next_cut: the first match that is long enough and not too long; else, in a
\* buffer that is too long, the last space before the limit, or the limit.
NextStop(t, b) ==
    LET good == {e \in MatchEnds(t, b) : e - b >= MinChars}
    IN  IF good # {} THEN Min(good)
        ELSE IF Len(t) - b <= MaxChars THEN NoCut ELSE b + MaxChars
NextCut(t, b) ==
    LET good == {e \in MatchEnds(t, b) : e - b \in MinChars..MaxChars}
        spaces == {e \in (b + 2)..(b + MaxChars) : e <= Len(t) /\ t[e] = "space"}
    IN  IF good # {} THEN Min(good)
        ELSE IF Len(t) - b <= MaxChars THEN NoCut
        ELSE IF spaces # {} THEN Max(spaces) ELSE b + MaxChars

\* strip(): the interval without the blanks around it, if anything is left.
WithoutStop(t, from, to) ==
    LET solid == {i \in from..to : t[i] \notin Blank}
    IN  IF Cardinality(solid) < 2 THEN <<>> ELSE <<[from |-> Min(solid), to |-> Max(solid) - 1]>>
Stripped(t, from, to) ==
    LET solid == {i \in from..to : t[i] \notin Blank}
    IN  IF solid = {} THEN <<>> ELSE <<[from |-> Min(solid), to |-> Max(solid)]>>

\* The loop of push(): every cut there is.
Cuts(t, b0) ==
    LET cuts[b \in b0..Len(t)] ==
            LET cut == NextCut(t, b) IN
            IF cut = NoCut THEN [buf |-> b, segments |-> <<>>]
            ELSE [cuts[cut] EXCEPT !.segments = Stripped(t, b + 1, cut) \o @]
    IN  cuts[b0]

-----------------------------------------------------------------------------
Push(delta) ==
    /\ Len(text) + Len(delta) <= MaxText
    /\ text' = text \o delta
    /\ LET r == Cuts(text', buf) IN buf' = r.buf /\ segments' = segments \o r.segments
    /\ UNCHANGED dropped

\* Cut what is pending at its last space, if it is long enough; the space goes.
TakeStale ==
    /\ Len(text) - buf >= MinChars
    /\ LET solid == {i \in (buf + 1)..Len(text) : text[i] \notin Blank}
           spaces == {i \in (buf + 2)..Len(text) : text[i] = "space" /\ \E j \in solid : j > i}
       IN  /\ spaces # {}
           /\ segments' = segments \o Stripped(text, buf + 1, Max(spaces) - 1)
           /\ buf' = Max(spaces)
    /\ UNCHANGED <<text, dropped>>

Flush ==
    /\ buf < Len(text)
    /\ segments' = segments \o Stripped(text, buf + 1, Len(text))
    /\ buf' = Len(text)
    /\ UNCHANGED <<text, dropped>>

Clear ==
    /\ buf < Len(text)
    /\ dropped' = dropped \cup (buf + 1)..Len(text)
    /\ buf' = Len(text)
    /\ UNCHANGED <<text, segments>>

Deltas == UNION {[1..n -> Classes] : n \in 1..MaxDelta}

Next == (\E delta \in Deltas : Push(delta)) \/ TakeStale \/ Flush \/ Clear

Spec == Init /\ [][Next]_vars

-----------------------------------------------------------------------------
(* Properties                                                              *)

Voiced == UNION {segments[i].from..segments[i].to : i \in 1..Len(segments)}

\* However the deltas fall, whatever is said is voiced once and in order: the
\* segments follow one another, and what lies between them is blank or was
\* cleared (segmenter.py:33-43, 56-71).
EveryWordIsVoicedOnce ==
    /\ \A i \in 1..(Len(segments) - 1) : segments[i].to < segments[i + 1].from
    /\ \A i \in 1..buf : i \in Voiced \cup dropped \/ text[i] \in Blank

\* No request is longer than the vendor takes, at a flush and at a pause too
\* (segmenter.py:12, 45-54).
SegmentsFit ==
    /\ \A i \in 1..Len(segments) : segments[i].to - segments[i].from < MaxChars
    /\ Len(text) - buf <= MaxChars
=============================================================================
