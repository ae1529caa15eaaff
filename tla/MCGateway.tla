------------------------------- MODULE MCGateway -------------------------------
(***************************************************************************)
(* GatewayParts for TLC, and with it the two parts that cut audio and text *)
(* (AudioStreams, TextSegments): each part has a few thousand states.      *)
(***************************************************************************)
EXTENDS GatewayParts, TLC

CONSTANTS c1, c2, c3, c4, c5, org, key

\* An org whose two clients listen; a key with one that listens, two that speak.
MCClients == {c1, c2, c3, c4, c5}
MCSpeakClients == {c4, c5}
MCScopeOf == [c \in MCClients |-> IF c \in {c1, c2} THEN org ELSE key]

MCParts == {"admission", "sink", "batch", "speech", "format", "tokens", "streams", "text"}

Item(end, timed, word) == [end |-> end, timed |-> timed, text |-> word]
MCPayloads ==
    [duration : {-1, 3},
     words : SUBSET {Item(1, TRUE, TRUE), Item(2, TRUE, FALSE), Item(2, FALSE, TRUE)},
     more : {{}, {Item(2, TRUE, TRUE)}, {Item(1, TRUE, TRUE), Item(2, FALSE, TRUE)}}]

VARIABLES
    kind, layout, fed, odd, history, phase, skip, out, closed,
    text, buf, segments, dropped

streamsVars == <<kind, layout, fed, odd, history, phase, skip, out, closed>>
textVars == <<text, buf, segments, dropped>>
allVars == <<partsVars, streamsVars, textVars>>

Mp3(is, len) == [is |-> is, len |-> len]
Layouts == {<<Mp3("frame", 4), Mp3("frame", 5)>>,
            <<Mp3("id3", 7), Mp3("frame", 4), Mp3("junk", 1), Mp3("frame", 5)>>}
Streams == INSTANCE AudioStreams WITH
    FACTOR <- 3, TAPS <- 5, LOOK <- 3, Layouts <- Layouts, Linear <- -32768..32767,
    FirstChunk <- 4, MaxChunk <- 6, MaxBytes <- 22

Text == INSTANCE TextSegments WITH MinChars <- 2, MaxChars <- 3, MaxText <- 4, MaxDelta <- 2

StreamsRest ==
    /\ kind = "wav" /\ layout = <<>> /\ fed = 0 /\ odd = <<>> /\ history = <<>> /\ phase = 0
    /\ skip = 0 /\ out = <<>> /\ closed = FALSE

AllInit ==
    /\ PartsInit /\ Text!Init
    /\ IF part = "streams" THEN Streams!Init ELSE StreamsRest

AllNext ==
    /\ PartsNext
    /\ IF part = "streams" THEN Streams!Next ELSE UNCHANGED streamsVars
    /\ IF part = "text" THEN Text!Next ELSE UNCHANGED textVars

AllSpec == AllInit /\ [][AllNext]_allVars /\ PartsFairness

-----------------------------------------------------------------------------
\* Cuts: wherever the network cuts audio and text, every sample, frame and word
\* comes out once and in its place (pcm_codec.py:14-15, 110-130,
\* mp3_frames.py:1-7, segmenter.py:12, 33-71).
CutsLoseNothing ==
    /\ Streams!TypeOK
    /\ Streams!SamplesSurviveChunks /\ Streams!OutputsAreCentred
    /\ Streams!FramesAreCounted /\ Streams!CodesDecode
    /\ Text!EveryWordIsVoicedOnce /\ Text!SegmentsFit
=============================================================================
