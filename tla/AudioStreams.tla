------------------------------ MODULE AudioStreams ------------------------------
(***************************************************************************)
(* The audio arithmetic of the gateway that works chunk by chunk:          *)
(* PcmConverter (audio/pcm_codec.py), the float samples of Mistral         *)
(* (providers/mistral/tts.py), Mp3DurationCounter (audio/mp3_frames.py);   *)
(* and the G.711 tables.  A vendor cuts its stream where it likes, and     *)
(* what comes out must not depend on where.                                *)
(*                                                                         *)
(* Bytes are numbered.  A sample of s16 is the number of the pair it was   *)
(* made of, Silence, or Torn when it is made of bytes of two.  An output   *)
(* of the filter is the window of samples it was computed from: the taps   *)
(* and the rounding are left out.                                          *)
(***************************************************************************)
EXTENDS Integers, Sequences, FiniteSets, SequencesExt, Bitwise

CONSTANTS FACTOR,      \* src_rate \div dst_rate
          TAPS,        \* taps of the low-pass, an odd number
          LOOK,        \* bytes Mp3DurationCounter wants to see at once
          Layouts,     \* the mp3 streams: sequences of items
          Linear,      \* the 16-bit samples encoded
          FirstChunk,  \* bytes in the first chunk, at least
          MaxChunk, MaxBytes  \* bounds: bytes in a chunk, in the stream

VARIABLES
    kind,     \* "decimate", "wav", "float", "mp3", "g711"
    layout,   \* the mp3 stream
    fed,      \* bytes fed
    odd,      \* _odd, carry or _buf
    history,  \* _history
    phase,    \* _phase
    skip,     \* _skip
    out,      \* what came out
    closed    \* flush() was called

vars == <<kind, layout, fed, odd, history, phase, skip, out, closed>>

Half == TAPS \div 2
Silence == 0
Torn == -1

-----------------------------------------------------------------------------
(* G.711: Sun's linear2ulaw and linear2alaw with the segments of pcm_codec *)

Power(n) == 2 ^ n
Smallest(a, b) == IF a <= b THEN a ELSE b

\* _segment over _SEG_UEND and _SEG_AEND: the first segment that ends at or
\* above the value; 8 is none.
SegmentBelow(value, bits) ==
    LET fits == {i \in 0..7 : value < Power(i + bits) - 1}
    IN  IF fits = {} THEN 8 ELSE CHOOSE i \in fits : \A j \in fits : i <= j
Segment(value, bits) ==
    LET fits == {i \in 0..7 : value <= Power(i + bits) - 1}
    IN  IF fits = {} THEN 8 ELSE CHOOSE i \in fits : \A j \in fits : i <= j

Ulaw(s) ==
    LET shifted == s \div 4                         \* sample >> 2, floored
        mask == IF shifted < 0 THEN 127 ELSE 255
        value == Smallest(IF shifted < 0 THEN -shifted ELSE shifted, 8159) + 33
        seg == Segment(value, 6)
    IN  IF seg >= 8 THEN 127 ^^ mask
        ELSE (seg * 16 + ((value \div Power(seg + 1)) % 16)) ^^ mask

Alaw(s) ==
    LET shifted == s \div 8
        mask == IF shifted >= 0 THEN 213 ELSE 85
        value == IF shifted >= 0 THEN shifted ELSE -shifted - 1
        seg == Segment(value, 5)
    IN  IF seg >= 8 THEN 127 ^^ mask
        ELSE (seg * 16 + ((value \div Power(IF seg < 2 THEN 1 ELSE seg)) % 16)) ^^ mask

-----------------------------------------------------------------------------
(* PcmConverter and Mistral's carry                                        *)

Width == IF kind = "float" THEN 4 ELSE 2

Whole(group) == group[1] % Width = 1 /\ \A i \in 1..Width : group[i] = group[1] + i - 1
SampleOf(group) == IF Whole(group) THEN (group[1] \div Width) + 1 ELSE Torn

\* The whole samples of the bytes, and what is left of the last.
Samples(data) == [i \in 1..(Len(data) \div Width) |->
                     SampleOf(SubSeq(data, (i - 1) * Width + 1, i * Width))]
KeepsAll(data) == data
KeepsNone(data) == <<>>
Remainder(data) == SubSeq(data, Len(data) - (Len(data) % Width) + 1, Len(data))

LastOf(s, n) == SubSeq(s, (IF Len(s) > n THEN Len(s) - n ELSE 0) + 1, Len(s))

\* Where the next window ends, in the chunk to come.
StartsOver(first, count, length) == 0
NextPhase(first, count, length) == first - 1 + count * FACTOR - length

\* _decimate: the windows that end at first, first + FACTOR, ... of the buffer.
Decimate(samples) ==
    LET buf == history \o samples
        first == TAPS + phase
        count == IF Len(buf) < first THEN 0 ELSE (Len(buf) - first) \div FACTOR + 1
        last == [k \in 1..count |-> first + (k - 1) * FACTOR]
    IN  /\ out' = out \o [k \in 1..count |-> SubSeq(buf, last[k] - TAPS + 1, last[k])]
        /\ phase' = NextPhase(first, count, Len(buf))
        /\ history' = LastOf(buf, TAPS - 1)

Header == "header"
WithHeader(samples) == IF out = <<>> THEN <<Header>> \o samples ELSE out \o samples

Convert(samples) ==
    CASE kind = "decimate" -> Decimate(samples)
      [] kind = "wav" -> out' = WithHeader(samples) /\ UNCHANGED <<phase, history>>
      [] kind = "float" -> out' = out \o samples /\ UNCHANGED <<phase, history>>

Fits(n) == fed + n <= MaxBytes /\ n >= (IF fed = 0 THEN FirstChunk ELSE 1)

Feed(n) ==
    /\ kind \in {"decimate", "wav", "float"} /\ ~closed /\ Fits(n)
    /\ LET data == odd \o [i \in 1..n |-> fed + i] IN
       odd' = Remainder(data) /\ Convert(Samples(data))
    /\ fed' = fed + n
    /\ UNCHANGED <<kind, layout, skip, closed>>

\* The tail of the filter, or a header that was never sent.
Flush ==
    /\ kind \in {"decimate", "wav", "float"} /\ ~closed
    /\ kind = "decimate" => fed > 0
    /\ closed' = TRUE
    /\ Convert(IF kind = "decimate" THEN [i \in 1..Half |-> Silence] ELSE <<>>)
    /\ UNCHANGED <<kind, layout, fed, odd, skip>>

-----------------------------------------------------------------------------
(* Mp3DurationCounter.  An item of a layout is a frame, an ID3 tag or junk, *)
(* with its length; its first byte tells which, and those behind it look    *)
(* like the header of a frame, as bytes of a body may.                      *)

False == [is |-> "frame", len |-> 2]
Bytes(item) == [i \in 1..item.len |-> IF i = 1 THEN item ELSE False]
Stream(l) == FlattenSeq([k \in 1..Len(l) |-> Bytes(l[k])])

\* A header that is not all there is left for the next chunk.
FirstByteDoes(n) == n < 1
TooShort(n) == n < LOOK

\* The loop of feed() at data[i], with s bytes still to skip: <<i, s, frames>>.
Walk(data, s0) ==
    LET N == Len(data)
        at[i \in 1..(N + 1), s \in 0..9] ==
            LET step == Smallest(s, N + 1 - i)
                j == i + step
            IN  IF s > step \/ TooShort(N + 1 - j) THEN <<j, s - step, 0>>
                ELSE LET item == data[j] IN
                     IF item.is = "junk" THEN at[j + 1, 0]
                     ELSE LET r == at[j, item.len]
                          IN  <<r[1], r[2], r[3] + (IF item.is = "frame" THEN 1 ELSE 0)>>
    IN  at[1, s0]

FeedMp3(n) ==
    /\ kind = "mp3" /\ fed + n <= Len(Stream(layout))
    /\ LET data == odd \o SubSeq(Stream(layout), fed + 1, fed + n)
           walk == Walk(data, skip)
       IN  /\ odd' = SubSeq(data, walk[1], Len(data))
           /\ skip' = walk[2]
           /\ out' = out \o [i \in 1..walk[3] |-> "frame"]
    /\ fed' = fed + n
    /\ UNCHANGED <<kind, layout, history, phase, closed>>

-----------------------------------------------------------------------------
Kinds == {"decimate", "wav", "float", "mp3", "g711"}

Init ==
    /\ kind \in Kinds
    /\ layout \in (IF kind = "mp3" THEN Layouts ELSE {<<>>})
    /\ fed = 0 /\ odd = <<>> /\ phase = 0 /\ skip = 0 /\ out = <<>> /\ closed = FALSE
    /\ history = IF kind = "decimate" THEN [i \in 1..Half |-> Silence] ELSE <<>>

Next == \/ \E n \in 1..MaxChunk : Feed(n) \/ FeedMp3(n)
        \/ Flush

Spec == Init /\ [][Next]_vars

-----------------------------------------------------------------------------
(* Properties                                                              *)

\* Output k of the decimation is centred on input k * FACTOR, wherever the
\* chunks are cut, and the tail is complete (pcm_codec.py:14-15, 110-112):
\* nothing is skipped, doubled or shifted.
CentredOn(c) == [j \in 1..TAPS |-> LET s == c + j - 1 - Half IN
                    IF s \in 1..(fed \div 2) THEN s ELSE Silence]
OutputsAreCentred ==
    kind = "decimate" =>
        /\ \A k \in 1..Len(out) : out[k] = CentredOn((k - 1) * FACTOR + 1)
        /\ closed => Len(out) = ((fed \div 2) + FACTOR - 1) \div FACTOR

\* No sample is torn or lost between two chunks, and a wav has one header and
\* has it in front, without audio too (pcm_codec.py:116-130, mistral/tts.py:69-83).
SamplesSurviveChunks ==
    kind \in {"wav", "float"} /\ (fed > 0 \/ closed) =>
        out = (IF kind = "wav" THEN <<Header>> ELSE <<>>) \o [i \in 1..(fed \div Width) |-> i]

\* Every frame whose header was seen is counted once, and nothing inside a
\* frame or a tag is (mp3_frames.py:1-7).
Starts(l) == [k \in 1..Len(l) |-> Len(Stream(SubSeq(l, 1, k - 1))) + 1]
FramesAreCounted ==
    kind = "mp3" =>
        Len(out) = Cardinality({k \in 1..Len(layout) :
                       layout[k].is = "frame" /\ Starts(layout)[k] + LOOK - 1 <= fed})

\* The receiver's decoder gives the sample back within one step of its segment,
\* and the loudest ones clipped (pcm_codec.py:43-76; ITU-T G.711).
UlawValue(c) ==
    LET u == 255 - c
        seg == (u \div 16) % 8
        magnitude == ((u % 16) * 8 + 132) * Power(seg) - 132
    IN  IF u >= 128 THEN -magnitude ELSE magnitude
AlawValue(c) ==
    LET a == c ^^ 85
        seg == (a \div 16) % 8
        low == (a % 16) * 16
        magnitude == IF seg = 0 THEN low + 8 ELSE (low + 264) * Power(seg - 1)
    IN  IF a >= 128 THEN magnitude ELSE -magnitude
Within(s, v, step) == s - v <= step /\ v - s <= step
Loud(s) == IF s > 32635 THEN 32635 ELSE IF s < -32635 THEN -32635 ELSE s
UlawSegment(c) == ((255 - c) \div 16) % 8
AlawSegment(c) == ((c ^^ 85) \div 16) % 8
CodesDecode ==
    kind = "g711" => \A s \in Linear :
        /\ Within(Loud(s), UlawValue(Ulaw(s)), 4 * Power(UlawSegment(Ulaw(s))) + 3)
        /\ Within(s, AlawValue(Alaw(s)),
                  IF AlawSegment(Alaw(s)) = 0 THEN 8 ELSE 8 * Power(AlawSegment(Alaw(s)) - 1))

TypeOK ==
    /\ kind \in Kinds /\ fed \in 0..MaxBytes /\ Len(odd) < (IF kind = "mp3" THEN LOOK ELSE 4)
    /\ phase \in Nat /\ Len(history) < TAPS
    /\ skip \in 0..9 /\ closed \in BOOLEAN
=============================================================================
