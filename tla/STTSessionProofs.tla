--------------------------- MODULE STTSessionProofs ---------------------------
(***************************************************************************)
(* What TLAPS proves about STTSession, for every lane of models, every set *)
(* of faults and limits, every window and every client.                    *)
(*                                                                         *)
(* First the session is shown to use the ring as AudioRing allows, so that *)
(* the theorems of AudioRingProofs hold inside it; with them the contract  *)
(* of ListenProtocol and the invariants of the frames follow.              *)
(***************************************************************************)
EXTENDS STTSession, FiniteSetTheorems, TLAPS

\* The theorems about the ring, for the ring of this session.
RP == INSTANCE AudioRingProofs WITH Readers <- Attempts

-----------------------------------------------------------------------------
(* The ring of the session is the ring of AudioRingProofs.                 *)

RingConstants ==
    /\ MaxSeconds \in Nat
    /\ Opaque \in BOOLEAN
    /\ WallCap \in Nat
    /\ Durations \subseteq Nat
    /\ MaxChunks \in Nat

LEMMA RingConstantsHold == RingConstants
  BY SessionAssumption DEF RingConstants

\* Both names of the ring's operators stand for the same formulas.
LEMMA SameRing ==
    /\ Ring!Init => RP!Init
    /\ [Ring!Next]_ringPart => [RP!Next]_(RP!vars)
<1>1. Ring!Init => RP!Init
  BY DEF Ring!Init, RP!Init
<1>2. ASSUME NEW d PROVE Ring!AppendChunk(d) => RP!AppendChunk(d)
  BY DEF Ring!AppendChunk, RP!AppendChunk, Ring!Accepts, RP!Accepts, Ring!NotifyAll,
         RP!NotifyAll, Ring!Trim, RP!Trim, Ring!Expired, RP!Expired,
         Ring!DurationOf, RP!DurationOf
<1>3. Ring!Close => RP!Close
  BY DEF Ring!Close, RP!Close, Ring!NotifyAll, RP!NotifyAll
<1>4. ASSUME NEW r PROVE Ring!Place(r) => RP!Place(r)
  BY DEF Ring!Place, RP!Place, Ring!PlaceAt, RP!PlaceAt, Ring!ReplayIdx, RP!ReplayIdx,
         Ring!ringVars, RP!ringVars
<1>5. ASSUME NEW r PROVE Ring!Iterate(r) => RP!Iterate(r)
  BY DEF Ring!Iterate, RP!Iterate, Ring!ringVars, RP!ringVars
<1>6. ASSUME NEW r PROVE Ring!ReaderStep(r) => RP!ReaderStep(r)
  BY DEF Ring!ReaderStep, RP!ReaderStep, Ring!Yield, RP!Yield, Ring!Wait, RP!Wait,
         Ring!Drain, RP!Drain, Ring!Available, RP!Available, Ring!Finished,
         RP!Finished, Ring!Get, RP!Get, Ring!ringVars, RP!ringVars
<1>7. ASSUME NEW r PROVE Ring!Cancel(r) => RP!Cancel(r)
  BY DEF Ring!Cancel, RP!Cancel, Ring!ringVars, RP!ringVars
<1>8. Ring!Next => RP!Next
  BY <1>2, <1>3, <1>4, <1>5, <1>6, <1>7 DEF Ring!Next, RP!Next
<1>9. UNCHANGED ringPart <=> UNCHANGED RP!vars
  BY DEF ringPart, RP!vars
<1> QED
  BY <1>1, <1>8, <1>9

\* What a session relies on in the values it reads from the ring.
LEMMA RingValues ==
    ASSUME RP!RingInv
    PROVE  /\ Ring!TypeOK
           /\ ResumeTime \in Nat
           /\ \A r \in Attempts : Ring!Available(pos[r]) =>
                 Ring!Get(pos[r]) \in [idx : Nat, start : Nat, duration : Nat]
<1>1. Ring!TypeOK
  BY DEF RP!RingInv, RP!TypeOK, Ring!TypeOK, RP!Chunk, Ring!Chunk, RP!ReaderStates,
         Ring!ReaderStates
<1>2. chunks # <<>> => Head(chunks) \in Ring!Chunk
  BY <1>1 DEF Ring!TypeOK
<1>3. ResumeTime \in Nat
  BY <1>1, <1>2 DEF Ring!TypeOK, ResumeTime, Ring!ReplayTime, Ring!Chunk
<1>4. ASSUME NEW r \in Attempts, Ring!Available(pos[r])
      PROVE  Ring!Get(pos[r]) \in [idx : Nat, start : Nat, duration : Nat]
  <2>1. pos[r] \in Nat /\ RP!Available(pos[r])
    BY <1>1, <1>4 DEF Ring!TypeOK, Ring!Available, RP!Available
  <2>2. RP!Get(pos[r]) \in RP!Chunk
    BY <2>1, RP!GetIsExact, RingConstantsHold DEF RingConstants
  <2> QED
    BY <2>2 DEF RP!Get, Ring!Get, RP!Chunk
<1> QED
  BY <1>1, <1>3, <1>4

\* The end of an iteration is a Cancel of the ring, or leaves it as it is.
LEMMA DropIsCancel ==
    ASSUME Ring!TypeOK, DropFeeder, UNCHANGED <<chunks, nextIdx, clock, closed, pos, log>>
    PROVE  [Ring!Next]_ringPart
<1>1. CASE attempt \in Attempts /\ pc[attempt] \in {"placed", "reading", "waiting"}
  <2>1. pc' = [pc EXCEPT ![attempt] = "cancelled"]
    BY <1>1 DEF DropFeeder, Ring!TypeOK
  <2>2. Ring!Cancel(attempt)
    BY <1>1, <2>1 DEF Ring!Cancel, Ring!ringVars
  <2> QED
    BY <1>1, <2>2 DEF Ring!Next
<1>2. CASE ~(attempt \in Attempts /\ pc[attempt] \in {"placed", "reading", "waiting"})
  <2>1. pc' = pc
    BY <1>2 DEF DropFeeder, Ring!TypeOK
  <2> QED
    BY <2>1 DEF ringPart
<1> QED
  BY <1>1, <1>2

\* The provider loop is at an attempt whenever it connects or streams.
AtWork == loop \in {"connecting", "streaming"} => attempt \in Attempts

SessionTypes == RP!RingInv /\ TypeOK /\ AtWork

\* Every step of the session is a step of the ring, or leaves it alone.
LEMMA SessionStepsTheRing == SessionTypes /\ [Next]_vars => [Ring!Next]_ringPart
<1> SUFFICES ASSUME SessionTypes, [Next]_vars PROVE [Ring!Next]_ringPart
  OBVIOUS
<1>1. Ring!TypeOK
  BY DEF SessionTypes, TypeOK
<1>2. ASSUME NEW next, EndStream(next) PROVE [Ring!Next]_ringPart
  BY <1>1, <1>2, DropIsCancel DEF EndStream
<1>3. ASSUME NEW frame, NEW upto, DrainSends(frame, upto) PROVE [Ring!Next]_ringPart
  BY <1>2, <1>3 DEF DrainSends
<1>4. CASE NextAttempt
  <2>1. attempt + 1 \in Attempts
    BY <1>4, SessionAssumption DEF NextAttempt, Attempts, SessionTypes, TypeOK
  <2>2. Ring!Place(attempt + 1)
    BY <1>4 DEF NextAttempt, ResumeIdx, Ring!Place
  <2> QED
    BY <2>1, <2>2 DEF Ring!Next
<1>5. CASE Connected
  BY <1>5 DEF Connected, SessionTypes, AtWork, Ring!Next
<1>6. CASE Feeder
  <2>1. Streaming => attempt \in Attempts
    BY DEF Streaming, SessionTypes, AtWork
  <2>2. CASE FeedChunk
    BY <2>1, <2>2 DEF FeedChunk, Ring!Next, Ring!ReaderStep
  <2>3. CASE FeedWaits
    BY <2>1, <2>3 DEF FeedWaits, Ring!Next, Ring!ReaderStep
  <2>4. CASE FeedFinishes
    BY <2>1, <2>4 DEF FeedFinishes, Ring!Next, Ring!ReaderStep
  <2>5. CASE FeedFails
    BY <1>2, <2>5 DEF FeedFails
  <2> QED
    BY <1>6, <2>2, <2>3, <2>4, <2>5 DEF Feeder
<1>7. CASE ConnectFails \/ SwitchFrameFails \/ Teardown \/ Killed
  BY <1>1, <1>7, DropIsCancel DEF ConnectFails, SwitchFrameFails, Teardown, Killed
<1>8. CASE DrainFinal
  BY <1>3, <1>8 DEF DrainFinal, ringPart
<1>9. CASE DrainUtteranceEnd
  BY <1>3, <1>9 DEF DrainUtteranceEnd
<1>10. CASE StreamFails \/ StreamReturns
  BY <1>2, <1>10 DEF StreamFails, StreamReturns
<1>11. CASE Reader
  BY <1>11 DEF Reader, ReadAudio, ReadFinalize, ReadDisconnect, Ring!Next
<1>12. CASE \/ Open \/ OpenFails \/ Exhausted \/ StreamEnds \/ LinkDrops \/ ClientLeaves
           \/ (\E limit \in Trips : WatchdogTrips(limit))
           \/ Decide \/ Cancelled \/ UNCHANGED vars
  BY <1>12 DEF Open, OpenFails, Exhausted, StreamEnds, LinkDrops, ClientLeaves,
       WatchdogTrips, Decide, DecideByProvider, DecideByOther, Cancelled, vars, ringPart
<1> QED
  BY <1>4, <1>5, <1>6, <1>7, <1>8, <1>9, <1>10, <1>11, <1>12
     DEF Next, ProviderLoop, DrainTask

-----------------------------------------------------------------------------
(* Types.                                                                  *)

\* A frame sent is a frame received, if the client is there.
LEMMA SendKeepsFrames ==
    ASSUME out \in Seq(Frame), NEW frame \in Frame, Send(frame)
    PROVE  out' \in Seq(Frame)
  BY DEF Send

\* The usage event is a well-typed record of the session.
LEMMA UsageKeepsRecords ==
    ASSUME usage \in Seq(UsageRecord), clock \in Nat, switches \in Nat,
           NEW s \in Statuses, EmitUsage(s)
    PROVE  usage' \in Seq(UsageRecord)
<1>1. 1 \in Attempts
  BY SessionAssumption DEF Attempts
<1>2. UsageEvent(s) \in UsageRecord
  BY <1>1 DEF UsageEvent, UsageRecord
<1> QED
  BY <1>2 DEF EmitUsage

\* The variables of TypeOK that a step can only change together.
LEMMA EndStreamTypes ==
    ASSUME TypeOK, NEW next \in LoopStates, EndStream(next)
    PROVE  /\ loop' \in LoopStates
           /\ drain' \in {"on", "ended"} /\ flushed' \in BOOLEAN
           /\ link' \in {"up", "reset", "closed"}
           /\ heard' \in Seq(Nat) /\ said' \in 0..Len(heard')
           /\ upstreams' \subseteq Attempts
<1>1. heard' \in Seq(Nat) /\ 0 \in 0..Len(heard')
  BY DEF EndStream, TypeOK
<1> QED
  BY <1>1 DEF EndStream, CloseAdapter, TypeOK

LEMMA DrainSendsTypes ==
    ASSUME TypeOK, loop \in LoopStates, NEW frame \in Frame, NEW upto \in 0..Len(heard),
           DrainSends(frame, upto)
    PROVE  /\ loop' \in LoopStates
           /\ drain' \in {"on", "ended"} /\ flushed' \in BOOLEAN
           /\ link' \in {"up", "reset", "closed"}
           /\ heard' \in Seq(Nat) /\ said' \in 0..Len(heard')
           /\ upstreams' \subseteq Attempts
           /\ out' \in Seq(Frame)
<1>1. CASE EndStream("SessionClosed") /\ UNCHANGED out
  <2>1. "SessionClosed" \in LoopStates
    BY DEF LoopStates, LoopEnds
  <2> QED
    BY <1>1, <2>1, EndStreamTypes DEF TypeOK
<1>2. CASE Send(frame) /\ said' = upto
           /\ UNCHANGED <<loop, upstreams, drain, flushed, link, heard>>
  BY <1>2, SendKeepsFrames DEF TypeOK
<1> QED
  BY <1>1, <1>2 DEF DrainSends

\* The seconds of a chunk that is fed are session times.
LEMMA FeedTypes ==
    ASSUME SessionTypes, FeedChunk
    PROVE  heard' \in Seq(Nat) /\ said \in 0..Len(heard')
<1> DEFINE c == Ring!Get(pos[attempt])
<1>1. c \in [idx : Nat, start : Nat, duration : Nat]
  BY RingValues DEF FeedChunk, Ring!Yield, SessionTypes, AtWork, Streaming
<1>2. Seconds(c) \in Seq(Nat)
  <2>1. c.duration \in Nat /\ \A i \in 1..c.duration : c.start + i - 1 \in Nat
    BY <1>1
  <2> HIDE DEF c
  <2> QED
    BY <2>1 DEF Seconds
<1>3. heard \in Seq(Nat) /\ said \in 0..Len(heard)
  BY DEF SessionTypes, TypeOK
<1>4. heard' = heard \o Seconds(c)
  BY DEF FeedChunk
<1> HIDE DEF c
<1>5. Len(heard') >= Len(heard) /\ Len(heard') \in Nat
  BY <1>2, <1>3, <1>4
<1> QED
  BY <1>2, <1>3, <1>4, <1>5

\* Every step keeps the types, given those of the ring.
LEMMA StepKeepsTypes ==
    ASSUME SessionTypes, Next, Ring!TypeOK' PROVE TypeOK' /\ AtWork'
<1> USE DEF SessionTypes
<1>0. /\ "ProviderStreamError" \in LoopStates /\ "next" \in LoopStates
      /\ "crash" \in LoopStates /\ "returned" \in LoopStates
      /\ "SessionClosed" \in LoopStates /\ "connecting" \in LoopStates
      /\ "streaming" \in LoopStates
  BY DEF LoopStates, LoopEnds
<1>1. CASE Open
  <2>1. [type |-> "session.open"] \in Frame
    BY DEF Frame
  <2> QED
    BY <1>1, <2>1, SendKeepsFrames
       DEF Open, TypeOK, AtWork, loopPart, gatePart, streamPart, clientPart, RunStates
<1>2. CASE OpenFails
  <2>1. status' \in Statuses /\ clock \in Nat
    BY <1>2 DEF OpenFails, Statuses, TypeOK, Ring!TypeOK
  <2> QED
    BY <1>2, <2>1, UsageKeepsRecords
       DEF OpenFails, TypeOK, AtWork, loopPart, gatePart, streamPart, clientPart, RunStates
<1>3. CASE NextAttempt
  <2>1. attempt + 1 \in Attempts /\ attempt + 1 \in 0..N
    BY <1>3, SessionAssumption DEF NextAttempt, Attempts, TypeOK
  <2> QED
    BY <1>0, <1>3, <2>1, RingValues
       DEF NextAttempt, TypeOK, AtWork, gatePart, streamPart, clientPart, runPart
<1>4. CASE Exhausted
  BY <1>0, <1>4 DEF Exhausted, TypeOK, AtWork, gatePart, streamPart, clientPart, runPart
<1>5. CASE ConnectFails
  BY <1>0, <1>5 DEF ConnectFails, TypeOK, AtWork, gatePart, streamPart, clientPart, runPart
<1>6. CASE Connected
  <2>1. attempt \in Attempts
    BY <1>6 DEF Connected, AtWork
  <2>2. served # 0 => SwitchFrame \in Frame
    BY <2>1 DEF SwitchFrame, Frame, TypeOK, Attempts
  <2>3. out' \in Seq(Frame)
    BY <1>6, <2>2, SendKeepsFrames DEF Connected, TypeOK
  <2>4. switches' \in Nat /\ upstreams' \subseteq Attempts
    BY <1>6, <2>1 DEF Connected, TypeOK
  <2> QED
    BY <1>0, <1>6, <2>1, <2>3, <2>4
       DEF Connected, TypeOK, AtWork, gatePart, streamPart, clientPart, runPart
<1>7. CASE SwitchFrameFails
  <2>1. attempt \in Attempts
    BY <1>7 DEF SwitchFrameFails, AtWork
  <2> QED
    BY <1>0, <1>7, <2>1 DEF SwitchFrameFails, TypeOK, AtWork, gatePart, streamPart,
       clientPart, runPart
<1>8. CASE FeedChunk
  BY <1>8, FeedTypes DEF FeedChunk, TypeOK, AtWork, loopPart, gatePart, clientPart, runPart
<1>9. CASE FeedWaits
  BY <1>9 DEF FeedWaits, TypeOK, AtWork, loopPart, gatePart, streamPart, clientPart, runPart
<1>10. CASE FeedFinishes
  BY <1>10 DEF FeedFinishes, TypeOK, AtWork, loopPart, gatePart, clientPart, runPart
<1>11. ASSUME NEW next \in LoopStates, EndStream(next), Live, Streaming,
              UNCHANGED <<attempt, served, switches, offset, gatePart, clientPart,
                          runPart, out>>
       PROVE  TypeOK' /\ AtWork'
  <2>1. attempt \in Attempts
    BY <1>11 DEF Streaming, AtWork
  <2> QED
    BY <1>11, <2>1, EndStreamTypes DEF TypeOK, AtWork, gatePart, clientPart, runPart
<1>12. CASE FeedFails \/ StreamFails \/ StreamReturns
  BY <1>0, <1>11, <1>12 DEF FeedFails, StreamFails, StreamReturns, Streaming
<1>13. CASE DrainFinal
  <2>1. PICK e \in (said + 1)..Len(heard) :
          LET of == {heard[i] : i \in (said + 1)..e}
              timed == attempt \in Timed
              start == offset + said
              end == offset + e
          IN  \/ /\ timed /\ AlreadyFinal(start, end)
                 /\ said' = e
                 /\ dropped' = dropped \cup of
                 /\ UNCHANGED <<ringPart, loop, upstreams, drain, flushed, link, heard,
                                out, lastFinalEnd>>
              \/ /\ ~(timed /\ AlreadyFinal(start, end))
                 /\ lastFinalEnd' = IF timed THEN end ELSE lastFinalEnd
                 /\ DrainSends([type |-> "final", of |-> of,
                                start |-> IF timed THEN start ELSE NoTime,
                                end |-> IF timed THEN end ELSE NoTime], e)
                 /\ UNCHANGED dropped
    BY <1>13 DEF DrainFinal
  <2> DEFINE of == {heard[i] : i \in (said + 1)..e}
             timed == attempt \in Timed
             frame == [type |-> "final", of |-> of,
                       start |-> IF timed THEN offset + said ELSE NoTime,
                       end |-> IF timed THEN offset + e ELSE NoTime]
  <2>2. of \in SUBSET Nat /\ e \in 0..Len(heard) /\ offset + said \in Nat
        /\ offset + e \in Nat /\ attempt \in Attempts
    BY <1>13 DEF TypeOK, DrainFinal, Streaming, AtWork
  <2>3. frame \in Frame
    BY <2>2 DEF Frame
  <2>4. UNCHANGED <<attempt, served, switches, offset, lastUtterance, clientPart, runPart>>
    BY <1>13 DEF DrainFinal
  <2>5. CASE /\ said' = e /\ dropped' = dropped \cup of
             /\ UNCHANGED <<ringPart, loop, upstreams, drain, flushed, link, heard, out,
                            lastFinalEnd>>
    <3> HIDE DEF of
    <3> QED
      BY <2>2, <2>4, <2>5 DEF TypeOK, AtWork, clientPart, runPart
  <2>6. CASE /\ lastFinalEnd' = IF timed THEN offset + e ELSE lastFinalEnd
             /\ DrainSends(frame, e) /\ UNCHANGED dropped
    <3> HIDE DEF frame
    <3>1. lastFinalEnd' \in Nat \cup {NoTime}
      BY <2>2, <2>6 DEF TypeOK
    <3>2. loop \in LoopStates
      BY DEF TypeOK
    <3> QED
      BY <2>2, <2>3, <2>4, <2>6, <3>1, <3>2, DrainSendsTypes
         DEF TypeOK, AtWork, clientPart, runPart
  <2> QED
    BY <2>1, <2>5, <2>6
<1>14. CASE DrainUtteranceEnd
  <2>1. PICK t \in 1..Len(heard) :
          /\ lastUtterance' = offset + t
          /\ DrainSends([type |-> "utterance_end", at |-> offset + t], said)
    BY <1>14 DEF DrainUtteranceEnd
  <2>2. offset + t \in Nat /\ attempt \in Attempts /\ said \in 0..Len(heard)
        /\ loop \in LoopStates
    BY <1>14 DEF TypeOK, DrainUtteranceEnd, Streaming, AtWork
  <2>3. [type |-> "utterance_end", at |-> offset + t] \in Frame
    BY <2>2 DEF Frame
  <2>4. UNCHANGED <<attempt, served, switches, offset, lastFinalEnd, dropped, clientPart,
                    runPart>>
    BY <1>14 DEF DrainUtteranceEnd
  <2> QED
    BY <2>1, <2>2, <2>3, <2>4, DrainSendsTypes DEF TypeOK, AtWork, clientPart, runPart
<1>15. CASE StreamEnds
  BY <1>15 DEF StreamEnds, TypeOK, AtWork, loopPart, gatePart, clientPart, runPart
<1>16. CASE LinkDrops
  BY <1>16 DEF LinkDrops, TypeOK, AtWork, loopPart, gatePart, clientPart, runPart
<1>17. CASE Reader
  BY <1>17 DEF Reader, ReadAudio, ReadFinalize, ReadDisconnect, TypeOK, AtWork, loopPart,
     gatePart, streamPart, clientPart, runPart
<1>18. CASE ClientLeaves
  BY <1>18 DEF ClientLeaves, TypeOK, AtWork, loopPart, gatePart, streamPart, runPart
<1>19. ASSUME NEW limit \in Trips, WatchdogTrips(limit) PROVE TypeOK' /\ AtWork'
  BY <1>19, SessionAssumption DEF WatchdogTrips, TypeOK, AtWork, loopPart, gatePart,
     streamPart, clientPart
<1>20. CASE Decide
  <2>1. UNCHANGED <<ringPart, loopPart, gatePart, streamPart, clientPart, watchdog, usage,
                    upstreams>>
    BY <1>20 DEF Decide, DecideByProvider, DecideByOther
  <2>2. ASSUME NEW s \in Statuses, NEW frame \in Frame, Verdict(s, frame)
        PROVE  TypeOK' /\ AtWork'
    BY <2>1, <2>2, SendKeepsFrames DEF Verdict, TypeOK, AtWork, loopPart, gatePart,
       streamPart, clientPart, RunStates
  <2>3. ASSUME NEW s \in Statuses, Silently(s) PROVE TypeOK' /\ AtWork'
    BY <2>1, <2>3 DEF Silently, TypeOK, AtWork, loopPart, gatePart, streamPart,
       clientPart, RunStates
  <2>4. ByeStatus \in Statuses /\ Limits \subseteq Statuses
        /\ {"completed", "provider_error", "error"} \subseteq Statuses
    BY DEF ByeStatus, Statuses
  <2>5. /\ [type |-> "done", audio |-> clock] \in Frame
        /\ \A code \in Limits \cup {"provider_error", "all_providers_failed",
                                    "internal_error"} : Error(code) \in Frame
    BY DEF Frame, Error, TypeOK, Ring!TypeOK
  <2>6. CASE DecideByProvider
    BY <2>2, <2>3, <2>4, <2>5, <2>6 DEF DecideByProvider
  <2>7. CASE DecideByOther
    <3>1. watchdog # "on" => watchdog \in Limits
      BY DEF TypeOK
    <3> QED
      BY <2>2, <2>3, <2>4, <2>5, <2>7, <3>1 DEF DecideByOther
  <2> QED
    BY <1>20, <2>6, <2>7 DEF Decide
<1>21. CASE Cancelled
  BY <1>21 DEF Cancelled, Silently, TypeOK, AtWork, loopPart, gatePart, streamPart,
     clientPart, RunStates
<1>22. CASE Teardown
  <2>1. clock \in Nat /\ switches \in Nat /\ status \in Statuses
    BY DEF TypeOK, Ring!TypeOK
  <2>2. usage' \in Seq(UsageRecord)
    BY <1>22, <2>1, UsageKeepsRecords DEF Teardown, TypeOK
  <2>3. upstreams' \subseteq Attempts
    BY <1>22 DEF Teardown, CloseAdapter, TypeOK
  <2> QED
    BY <1>22, <2>2, <2>3 DEF Teardown, TypeOK, AtWork, loopPart, gatePart, streamPart,
       clientPart, RunStates
<1>23. CASE Killed
  BY <1>23 DEF Killed, CloseAdapter, TypeOK, AtWork, loopPart, gatePart, streamPart,
     clientPart, RunStates
<1> QED
  BY <1>1, <1>2, <1>3, <1>4, <1>5, <1>6, <1>7, <1>8, <1>9, <1>10, <1>12, <1>13, <1>14,
     <1>15, <1>16, <1>17, <1>18, <1>19, <1>20, <1>21, <1>22, <1>23
     DEF Next, ProviderLoop, Feeder, DrainTask

LEMMA InitTypes == Init => SessionTypes
<1> SUFFICES ASSUME Init PROVE SessionTypes
  OBVIOUS
<1>1. RP!RingInv
  BY SameRing, RP!InitRingInv, RingConstantsHold DEF Init, RingConstants
<1>2. /\ 0 \in 0..N /\ <<>> \in Seq(Nat) /\ 0 \in 0..Len(<<>>)
      /\ <<>> \in Seq(Frame) /\ <<>> \in Seq(UsageRecord)
  BY SessionAssumption
<1>3. TypeOK
  BY <1>1, <1>2, RingValues DEF Init, TypeOK, RunStates, Statuses, LoopStates
<1> QED
  BY <1>1, <1>3 DEF Init, SessionTypes, AtWork

LEMMA NextKeepsTypes == SessionTypes /\ [Next]_vars => SessionTypes'
<1> SUFFICES ASSUME SessionTypes, [Next]_vars PROVE SessionTypes'
  OBVIOUS
<1>1. RP!RingInv'
  BY SameRing, SessionStepsTheRing, RP!NextKeepsRingInv, RingConstantsHold
     DEF SessionTypes, RingConstants
<1>2. Ring!TypeOK'
  BY <1>1 DEF RP!RingInv, RP!TypeOK, Ring!TypeOK, RP!Chunk, Ring!Chunk, RP!ReaderStates,
         Ring!ReaderStates
<1>3. CASE Next
  BY <1>1, <1>2, <1>3, StepKeepsTypes DEF SessionTypes
<1>4. CASE UNCHANGED vars
  BY <1>1, <1>2, <1>4 DEF SessionTypes, AtWork, TypeOK, vars, loopPart, gatePart,
     streamPart, clientPart, runPart
<1> QED
  BY <1>3, <1>4

\* The state of a session always has its types, whatever fails.
THEOREM TypesAreCorrect == Spec => []TypeOK
<1>1. SessionTypes => TypeOK
  BY DEF SessionTypes
<1> QED
  BY <1>1, InitTypes, NextKeepsTypes, PTL DEF Spec

\* A session never uses its ring in a way AudioRing does not allow, so that
\* every theorem about the ring is one about the ring of a session.
THEOREM UsesTheRingAsSpecified == Spec => RingSpec
<1>1. Init => Ring!Init
  BY DEF Init
<1>2. SessionTypes /\ [Next]_vars => [Ring!Next]_(Ring!vars)
  BY SessionStepsTheRing DEF Ring!vars, ringPart
<1> QED
  BY <1>1, <1>2, InitTypes, NextKeepsTypes, PTL DEF Spec, RingSpec, Ring!Spec

\* In particular an iteration that has ended has seen all there was to see.
LEMMA DrainedMeansClosed ==
    Spec => [](\A r \in Attempts : pc[r] = "drained" => closed /\ pos[r] = Len(log))
<1>1. Init => RP!Init
  BY SameRing DEF Init
<1>2. SessionTypes /\ [Next]_vars => [RP!Next]_(RP!vars)
  BY SessionStepsTheRing, SameRing
<1>3. Spec => RP!Spec
  BY <1>1, <1>2, InitTypes, NextKeepsTypes, PTL DEF Spec, RP!Spec
<1>4. RP!Spec => []RP!DrainedReaderMissesNothing
  BY RP!NothingIsMissedAtTheEnd, RingConstantsHold DEF RingConstants
<1>5. RP!DrainedReaderMissesNothing =>
        \A r \in Attempts : pc[r] = "drained" => closed /\ pos[r] = Len(log)
  BY DEF RP!DrainedReaderMissesNothing
<1> QED
  BY <1>3, <1>4, <1>5, PTL

-----------------------------------------------------------------------------
(* The contract.  The inductive invariant ties the frames the client has   *)
(* received to the variables the gates and the verdict are decided by.     *)

\* Nothing is sent before the opening frame.
OpenInv == run = "opening" => out = <<>>

\* The horizon of the dedup gate is not behind any timed final, nor that of
\* the endpoints behind any endpoint.
GateInv ==
    /\ \A i \in TimedFinals : out[i].end <= lastFinalEnd
    /\ \A i \in Frames("utterance_end") : out[i].at <= lastUtterance

\* The lane is walked downwards, and the client was told of no later model
\* than the one that serves it.
LaneInv ==
    /\ \A i \in Frames("provider_switched") : out[i].to <= served
    /\ served <= attempt
    /\ loop = "connecting" => served < attempt

\* No verdict is told before run() decides; a done frame freezes the audio.
VerdictInv ==
    /\ run \in {"opening", "running"} => Frames("done") \cup Frames("error") = {}
    /\ loop = "returned" => closed
    /\ \A i \in Frames("done") :
          /\ run \in {"decided", "done", "killed"} /\ loop = "returned"
          /\ status = "completed" /\ out[i].audio = clock

ContractInv == OpenInv /\ GateInv /\ LaneInv /\ VerdictInv /\ UsageExactlyOnce

\* What the theorem about the ring adds to the types.
Drained == \A r \in Attempts : pc[r] = "drained" => closed /\ pos[r] = Len(log)

\* One more frame: what was received stays, the new one comes last.
LEMMA AppendedFrames ==
    ASSUME out \in Seq(Frame), NEW frame, out' = Append(out, frame)
    PROVE  /\ Len(out) \in Nat /\ Len(out') = Len(out) + 1
           /\ \A i \in 1..Len(out) : out'[i] = out[i]
           /\ out'[Len(out) + 1] = frame
           /\ 1..Len(out') = (1..Len(out)) \cup {Len(out) + 1}
           /\ \A type : Frames(type)' =
                 Frames(type) \cup (IF frame.type = type THEN {Len(out) + 1} ELSE {})
<1>1. /\ Len(out) \in Nat /\ Len(out') = Len(out) + 1
      /\ \A i \in 1..Len(out) : out'[i] = out[i]
      /\ out'[Len(out) + 1] = frame
  OBVIOUS
<1>2. 1..Len(out') = (1..Len(out)) \cup {Len(out) + 1}
  BY <1>1
<1>3. ASSUME NEW type
      PROVE  Frames(type)' =
               Frames(type) \cup (IF frame.type = type THEN {Len(out) + 1} ELSE {})
  BY <1>1, <1>2 DEF Frames
<1> QED
  BY <1>1, <1>2, <1>3

\* A step the client and the bill do not see, and that moves the horizons and
\* the lane only forwards.
LEMMA QuietStep ==
    ASSUME TypeOK, TypeOK', ContractInv,
           UNCHANGED <<out, usage, run, status, served>>,
           lastFinalEnd <= lastFinalEnd', lastUtterance <= lastUtterance',
           attempt <= attempt', loop' = "connecting" => served < attempt',
           loop = "returned" => loop' = "returned", loop' = "returned" => closed',
           closed => clock' = clock
    PROVE  ContractInv'
<1>1. \A type : Frames(type)' = Frames(type)
  BY DEF Frames
<1>2. \A i \in 1..Len(out) : out[i] \in Frame
  BY DEF TypeOK
<1>3. OpenInv' /\ UsageExactlyOnce'
  BY DEF ContractInv, OpenInv, UsageExactlyOnce
<1>4. GateInv'
  <2>1. /\ lastFinalEnd \in Int /\ lastFinalEnd' \in Int
        /\ lastUtterance \in Int /\ lastUtterance' \in Int
    BY DEF TypeOK, NoTime
  <2>2. ASSUME NEW i \in TimedFinals PROVE out[i].end <= lastFinalEnd'
    <3>1. out[i].end \in Int
      BY <1>2, <2>2 DEF TimedFinals, Frames, Frame, NoTime
    <3> QED
      BY <2>1, <2>2, <3>1 DEF ContractInv, GateInv
  <2>3. ASSUME NEW i \in Frames("utterance_end") PROVE out[i].at <= lastUtterance'
    <3>1. out[i].at \in Int
      BY <1>2, <2>3 DEF Frames, Frame
    <3> QED
      BY <2>1, <2>3, <3>1 DEF ContractInv, GateInv
  <2>4. TimedFinals' = TimedFinals
    BY <1>1 DEF TimedFinals
  <2> QED
    BY <1>1, <2>2, <2>3, <2>4 DEF GateInv
<1>5. LaneInv'
  BY <1>1 DEF ContractInv, LaneInv, TypeOK
<1>6. VerdictInv'
  BY <1>1 DEF ContractInv, VerdictInv
<1> QED
  BY <1>3, <1>4, <1>5, <1>6 DEF ContractInv

\* A frame that the contract allows, and what must hold of it.
LEMMA SpokenStep ==
    ASSUME TypeOK, TypeOK', ContractInv, NEW frame \in Frame, out' = Append(out, frame),
           UNCHANGED usage, run # "done", Frames("done") = {}
    PROVE  /\ Protocol!New = frame
           /\ \A type : frame.type = type => Protocol!Says(type)
           /\ TimedFinals' = TimedFinals \cup
                 (IF frame.type = "final" /\ frame.end # NoTime THEN {Len(out) + 1} ELSE {})
           /\ \A i \in TimedFinals : out'[i] = out[i]
           /\ \A type : \A i \in Frames(type) : out'[i] = out[i]
<1>1. out \in Seq(Frame) /\ usage \in Seq(UsageRecord)
  BY DEF TypeOK
<1>2. usage = <<>>
  BY <1>1 DEF ContractInv, UsageExactlyOnce
<1>3. Protocol!New = frame /\ Len(out') = Len(out) + 1
  BY <1>1, AppendedFrames DEF Protocol!New
<1>4. Protocol!Received("done") = {}
  BY DEF Protocol!Received, Frames
<1>5. \A type : frame.type = type => Protocol!Says(type)
  BY <1>2, <1>3, <1>4 DEF Protocol!Says
<1>6. \A type : \A i \in Frames(type) : i \in 1..Len(out) /\ out'[i] = out[i]
  BY <1>1, AppendedFrames DEF Frames
<1>7. /\ Frames("final")' = Frames("final") \cup
                              (IF frame.type = "final" THEN {Len(out) + 1} ELSE {})
      /\ out'[Len(out) + 1] = frame
  BY <1>1, AppendedFrames
<1>8. TimedFinals' = TimedFinals \cup
        (IF frame.type = "final" /\ frame.end # NoTime THEN {Len(out) + 1} ELSE {})
  BY <1>6, <1>7 DEF TimedFinals
<1> QED
  BY <1>3, <1>5, <1>6, <1>8 DEF TimedFinals

\* A final or an endpoint out of the drain, if it is delivered: the gate has
\* let it through, and the horizon moves up to it.
LEMMA GatedFrame ==
    ASSUME SessionTypes, TypeOK', ContractInv, Streaming,
           NEW frame \in Frame, out' = Append(out, frame),
           UNCHANGED <<usage, run, status, served, attempt, loop, closed, clock>>,
           \/ /\ frame.type = "final" /\ UNCHANGED lastUtterance
              /\ \/ frame.end = NoTime /\ UNCHANGED lastFinalEnd
                 \/ frame.end > lastFinalEnd /\ lastFinalEnd' = frame.end
           \/ /\ frame.type = "utterance_end" /\ UNCHANGED lastFinalEnd
              /\ frame.at > lastUtterance /\ frame.at >= lastFinalEnd
              /\ lastUtterance' = frame.at
    PROVE  ContractInv' /\ Protocol!Next
<1>1. run # "done" /\ run # "opening" /\ loop = "streaming" /\ Frames("done") = {}
  BY DEF Streaming, Live, ContractInv, VerdictInv
<1>2. TypeOK /\ out \in Seq(Frame)
  BY DEF SessionTypes, TypeOK
<1>3. /\ lastFinalEnd \in Int /\ lastFinalEnd' \in Int
      /\ lastUtterance \in Int /\ lastUtterance' \in Int
  BY <1>2 DEF TypeOK, NoTime
<1>4. /\ \A i \in TimedFinals : out[i].end \in Int /\ out[i].end <= lastFinalEnd
      /\ \A i \in Frames("utterance_end") : out[i].at \in Int /\ out[i].at <= lastUtterance
  BY <1>2 DEF ContractInv, GateInv, TimedFinals, Frames, Frame, NoTime
<1>5. /\ frame.type = "final" => frame.end \in Int
      /\ frame.type = "utterance_end" => frame.at \in Int
  BY DEF Frame, NoTime
<1>6. /\ Protocol!New = frame
      /\ \A type : frame.type = type => Protocol!Says(type)
      /\ TimedFinals' = TimedFinals \cup
            (IF frame.type = "final" /\ frame.end # NoTime THEN {Len(out) + 1} ELSE {})
      /\ \A i \in TimedFinals : out'[i] = out[i]
      /\ \A type : \A i \in Frames(type) : out'[i] = out[i]
  BY <1>1, <1>2, SpokenStep
<1>7. /\ out'[Len(out) + 1] = frame
      /\ \A type : Frames(type)' =
            Frames(type) \cup (IF frame.type = type THEN {Len(out) + 1} ELSE {})
  BY <1>2, AppendedFrames
<1>8. GateInv'
  <2>0. lastFinalEnd <= lastFinalEnd' /\ lastUtterance <= lastUtterance'
    BY <1>3, <1>5
  <2>1. ASSUME NEW i \in TimedFinals' PROVE out'[i].end <= lastFinalEnd'
    <3>1. CASE i \in TimedFinals
      <4>1. out[i].end \in Int /\ out[i].end <= lastFinalEnd /\ out'[i] = out[i]
        BY <1>4, <1>6, <3>1
      <4> QED
        BY <1>3, <2>0, <4>1
    <3>2. CASE i = Len(out) + 1 /\ frame.type = "final" /\ frame.end # NoTime
      BY <1>3, <1>5, <1>7, <3>2
    <3> QED
      BY <1>6, <2>1, <3>1, <3>2
  <2>2. ASSUME NEW i \in Frames("utterance_end")' PROVE out'[i].at <= lastUtterance'
    <3>1. CASE i \in Frames("utterance_end")
      <4>1. out[i].at \in Int /\ out[i].at <= lastUtterance /\ out'[i] = out[i]
        BY <1>4, <1>6, <3>1
      <4> QED
        BY <1>3, <2>0, <4>1
    <3>2. CASE i = Len(out) + 1 /\ frame.type = "utterance_end"
      BY <1>3, <1>5, <1>7, <3>2
    <3> QED
      BY <1>7, <2>2, <3>1, <3>2
  <2> QED
    BY <2>1, <2>2 DEF GateInv
<1>9. OpenInv' /\ LaneInv' /\ VerdictInv' /\ UsageExactlyOnce'
  BY <1>1, <1>6, <1>7
     DEF ContractInv, OpenInv, LaneInv, VerdictInv, UsageExactlyOnce
<1>10. CASE frame.type = "final"
  <2>1. frame.end # NoTime =>
          \A i \in Protocol!Received("final") : out[i].end # NoTime => out[i].end < frame.end
    BY <1>3, <1>4, <1>5, <1>10 DEF Protocol!Received, TimedFinals, Frames
  <2> QED
    BY <1>6, <1>8, <1>9, <1>10, <2>1
       DEF ContractInv, Protocol!FinalTranscript, Protocol!Next
<1>11. CASE frame.type = "utterance_end"
  <2>1. /\ \A i \in Protocol!Received("utterance_end") : out[i].at < frame.at
        /\ \A i \in Protocol!Received("final") :
              out[i].end # NoTime => out[i].end <= frame.at
    BY <1>3, <1>4, <1>5, <1>11 DEF Protocol!Received, TimedFinals, Frames
  <2> QED
    BY <1>6, <1>8, <1>9, <1>11, <2>1
       DEF ContractInv, Protocol!UtteranceEnd, Protocol!Next
<1> QED
  BY <1>10, <1>11

\* The announcement of a switch.
LEMMA AnnouncedSwitch ==
    ASSUME SessionTypes, TypeOK', ContractInv, Connected
    PROVE  ContractInv' /\ [Protocol!Next]_(Protocol!vars)
<1>1. /\ run # "done" /\ run # "opening" /\ loop = "connecting" /\ Frames("done") = {}
      /\ served < attempt /\ served' = attempt /\ attempt' = attempt
      /\ loop' = "streaming" /\ attempt \in Int /\ served \in Int
      /\ UNCHANGED <<usage, run, status, lastFinalEnd, lastUtterance, closed, clock>>
  BY DEF Connected, Live, ContractInv, VerdictInv, LaneInv, SessionTypes, TypeOK, runPart,
         gatePart, Ring!Iterate, Ring!ringVars
<1>2. TypeOK /\ out \in Seq(Frame) /\ \A i \in 1..Len(out) : out[i] \in Frame
  BY SMTT(30) DEF SessionTypes, TypeOK
<1>3. \A i \in Frames("provider_switched") : out[i].to \in Int /\ out[i].to <= served
  BY <1>2 DEF ContractInv, LaneInv, Frames, Frame, Attempts
<1>4. CASE UNCHANGED out
  <2>1. (\A type : Frames(type)' = Frames(type)) /\ TimedFinals' = TimedFinals
    BY <1>4 DEF Frames, TimedFinals
  <2>2. LaneInv'
    BY <1>1, <1>3, <1>4, <2>1 DEF LaneInv
  <2>3. OpenInv' /\ GateInv' /\ VerdictInv' /\ UsageExactlyOnce'
    BY <1>1, <1>4, <2>1
       DEF ContractInv, OpenInv, GateInv, VerdictInv, UsageExactlyOnce
  <2> QED
    BY <1>1, <1>4, <2>2, <2>3 DEF ContractInv, Protocol!vars
<1>5. CASE served # 0 /\ out' = Append(out, SwitchFrame)
  <2>1. SwitchFrame \in Frame /\ SwitchFrame.type = "provider_switched"
        /\ SwitchFrame.from = served /\ SwitchFrame.to = attempt
    BY <1>1, <1>2, <1>5 DEF SwitchFrame, Frame, TypeOK, Attempts, SessionTypes, AtWork
  <2>2. /\ Protocol!New = SwitchFrame
        /\ Protocol!Says("provider_switched")
        /\ TimedFinals' = TimedFinals
        /\ \A i \in TimedFinals : out'[i] = out[i]
        /\ \A type : \A i \in Frames(type) : out'[i] = out[i]
    BY <1>1, <1>2, <1>5, <2>1, SpokenStep
  <2>3. /\ out'[Len(out) + 1] = SwitchFrame
        /\ \A type : Frames(type)' =
              Frames(type) \cup (IF SwitchFrame.type = type THEN {Len(out) + 1} ELSE {})
    BY <1>2, <1>5, AppendedFrames
  <2>4. LaneInv'
    BY <1>1, <1>3, <2>1, <2>2, <2>3 DEF LaneInv
  <2>5. OpenInv' /\ GateInv' /\ VerdictInv' /\ UsageExactlyOnce'
    BY <1>1, <2>1, <2>2, <2>3
       DEF ContractInv, OpenInv, GateInv, VerdictInv, UsageExactlyOnce
  <2>6. \A i \in Protocol!Received("provider_switched") : out[i].to <= SwitchFrame.from
    BY <1>3, <2>1 DEF Protocol!Received, Frames
  <2> QED
    BY <1>1, <2>1, <2>2, <2>4, <2>5, <2>6
       DEF ContractInv, Protocol!ProviderSwitched, Protocol!Next
<1> QED
  BY <1>4, <1>5 DEF Connected, Send

\* A decision of run(): a verdict, or silence.
LEMMA DecisionKeepsContract ==
    ASSUME SessionTypes, TypeOK', ContractInv, Decide \/ Cancelled
    PROVE  ContractInv' /\ [Protocol!Next]_(Protocol!vars)
<1>1. /\ run = "running" /\ usage' = usage
      /\ UNCHANGED <<loop, served, attempt, lastFinalEnd, lastUtterance, closed, clock>>
  BY DEF Decide, DecideByProvider, DecideByOther, Cancelled, ringPart, loopPart, gatePart
<1>2. Frames("done") = {} /\ Frames("error") = {}
  BY <1>1 DEF ContractInv, VerdictInv
<1>3. TypeOK /\ out \in Seq(Frame)
  BY DEF SessionTypes, TypeOK
<1>4. CASE UNCHANGED out /\ run' \in {"closing", "decided"}
  <2>1. (\A type : Frames(type)' = Frames(type)) /\ TimedFinals' = TimedFinals
    BY <1>4 DEF Frames, TimedFinals
  <2>2. ContractInv'
    BY <1>1, <1>2, <1>4, <2>1 DEF ContractInv, OpenInv, GateInv, LaneInv, VerdictInv,
       UsageExactlyOnce
  <2> QED
    BY <1>1, <1>4, <2>2 DEF Protocol!vars
<1>5. ASSUME NEW frame \in Frame, out' = Append(out, frame), run' = "decided",
             \/ frame.type = "error"
             \/ /\ frame.type = "done" /\ frame.audio = clock /\ status' = "completed"
                /\ loop = "returned"
      PROVE  ContractInv' /\ [Protocol!Next]_(Protocol!vars)
  <2>1. /\ Protocol!New = frame
        /\ \A type : frame.type = type => Protocol!Says(type)
        /\ TimedFinals' = TimedFinals
        /\ \A i \in TimedFinals : out'[i] = out[i]
        /\ \A type : \A i \in Frames(type) : out'[i] = out[i]
    BY <1>1, <1>2, <1>3, <1>5, SpokenStep
  <2>2. /\ out'[Len(out) + 1] = frame
        /\ \A type : Frames(type)' =
              Frames(type) \cup (IF frame.type = type THEN {Len(out) + 1} ELSE {})
    BY <1>3, <1>5, AppendedFrames
  <2>3. GateInv' /\ LaneInv'
    BY <1>1, <1>5, <2>1, <2>2 DEF ContractInv, GateInv, LaneInv
  <2>4. VerdictInv'
    BY <1>1, <1>2, <1>5, <2>1, <2>2 DEF ContractInv, VerdictInv
  <2>5. OpenInv' /\ UsageExactlyOnce'
    BY <1>1, <1>5 DEF ContractInv, OpenInv, UsageExactlyOnce
  <2>6. Protocol!Told = {}
    BY <1>2 DEF Protocol!Told, Protocol!Received, Frames
  <2> QED
    BY <1>5, <2>1, <2>3, <2>4, <2>5, <2>6
       DEF ContractInv, Protocol!Done, Protocol!Error, Protocol!Next
<1>6. ASSUME NEW s, NEW code \in Limits \cup {"provider_error", "all_providers_failed",
                                             "internal_error"},
             Verdict(s, Error(code))
      PROVE  ContractInv' /\ [Protocol!Next]_(Protocol!vars)
  <2>1. Error(code) \in Frame /\ Error(code).type = "error"
    BY DEF Error, Frame
  <2> QED
    BY <1>4, <1>5, <1>6, <2>1 DEF Verdict, Send
<1>7. CASE /\ loop = "returned"
           /\ Verdict("completed", [type |-> "done", audio |-> clock])
  <2>1. [type |-> "done", audio |-> clock] \in Frame
    BY <1>3 DEF Frame, TypeOK, Ring!TypeOK
  <2> QED
    BY <1>4, <1>5, <1>7, <2>1 DEF Verdict, Send
<1>8. CASE \E s : Silently(s)
  BY <1>4, <1>8 DEF Silently
<1>9. watchdog # "on" => watchdog \in Limits
  BY <1>3 DEF TypeOK
<1>10. CASE DecideByProvider
  BY <1>6, <1>7, <1>8, <1>10 DEF DecideByProvider
<1>11. CASE DecideByOther
  BY <1>6, <1>8, <1>9, <1>11 DEF DecideByOther
<1>12. CASE Cancelled
  BY <1>8, <1>12 DEF Cancelled
<1> QED
  BY <1>10, <1>11, <1>12 DEF Decide

\* The usage event: it comes once, and agrees with a done frame.
LEMMA BillKeepsContract ==
    ASSUME SessionTypes, TypeOK', ContractInv,
           run # "done", run' = "done", EmitUsage(status'), UNCHANGED out,
           Frames("done") # {} => status' = status,
           UNCHANGED <<loop, served, attempt, lastFinalEnd, lastUtterance, closed, clock>>
    PROVE  ContractInv' /\ [Protocol!Next]_(Protocol!vars)
<1>1. usage = <<>> /\ clock \in Nat
  BY DEF ContractInv, UsageExactlyOnce, SessionTypes, TypeOK, Ring!TypeOK
<1>2. /\ Len(usage') = 1 /\ usage'[1].audio = clock /\ usage'[1].status = status'
  BY <1>1 DEF EmitUsage, UsageEvent
<1>3. (\A type : Frames(type)' = Frames(type)) /\ TimedFinals' = TimedFinals
  BY DEF Frames, TimedFinals
<1>4. ContractInv'
  BY <1>2, <1>3 DEF ContractInv, OpenInv, GateInv, LaneInv, VerdictInv, UsageExactlyOnce
<1>5. \A i \in Protocol!Received("done") :
        out[i].audio = clock /\ status = "completed" /\ Frames("done") # {}
  BY DEF Protocol!Received, Frames, ContractInv, VerdictInv
<1>6. Protocol!Bill
  BY <1>1, <1>2, <1>5 DEF Protocol!Bill
<1> QED
  BY <1>4, <1>6 DEF Protocol!Next

\* Every step keeps the invariant, and is a step of the contract or invisible.
LEMMA StepKeepsContract ==
    ASSUME SessionTypes, TypeOK', Drained, ContractInv, [Next]_vars
    PROVE  ContractInv' /\ [Protocol!Next]_(Protocol!vars)
<1>1. TypeOK /\ out \in Seq(Frame)
  BY DEF SessionTypes, TypeOK
<1>2. /\ attempt \in Int /\ served \in Int /\ served <= attempt
      /\ lastFinalEnd \in Int /\ lastUtterance \in Int
      /\ loop = "returned" => closed
  BY <1>1 DEF TypeOK, NoTime, ContractInv, LaneInv, VerdictInv
<1>3. ASSUME UNCHANGED <<out, usage, run, status, served>>,
             lastFinalEnd <= lastFinalEnd', lastUtterance <= lastUtterance',
             attempt <= attempt', loop' = "connecting" => served < attempt',
             loop = "returned" => loop' = "returned", loop' = "returned" => closed',
             closed => clock' = clock
      PROVE  ContractInv' /\ [Protocol!Next]_(Protocol!vars)
  BY <1>1, <1>3, QuietStep DEF Protocol!vars
<1>4. loop = "connecting" => served < attempt
  BY DEF ContractInv, LaneInv
\* Steps that touch neither gates nor lane nor clock.
<1>5. ASSUME UNCHANGED <<out, usage, run, status, served, lastFinalEnd, lastUtterance,
                         attempt, closed, clock>>,
             \/ loop' = loop
             \/ loop # "returned" /\ loop' \notin {"connecting", "returned"}
      PROVE  ContractInv' /\ [Protocol!Next]_(Protocol!vars)
  BY <1>2, <1>3, <1>4, <1>5
<1>6. CASE Open
  <2>1. /\ out = <<>> /\ usage' = usage /\ run = "opening" /\ run' = "running"
        /\ UNCHANGED <<status, loop, served, attempt, lastFinalEnd, lastUtterance, closed,
                       clock>>
    BY <1>6 DEF Open, ContractInv, OpenInv, ringPart, loopPart, gatePart
  <2>2. [type |-> "session.open"] \in Frame
    BY DEF Frame
  <2>3. CASE out' = out
    <3>1. (\A type : Frames(type)' = Frames(type)) /\ TimedFinals' = TimedFinals
      BY <2>3 DEF Frames, TimedFinals
    <3> QED
      BY <2>1, <2>3, <3>1 DEF ContractInv, OpenInv, GateInv, LaneInv, VerdictInv,
         UsageExactlyOnce, Protocol!vars
  <2>4. CASE out' = Append(out, [type |-> "session.open"])
    <3>1. Frames("done") = {} /\ Frames("error") = {} /\ TimedFinals = {}
          /\ \A type : Frames(type) = {}
      BY <2>1 DEF Frames, TimedFinals
    <3>2. Protocol!Says("session.open") /\ TimedFinals' = {}
      BY <1>1, <2>1, <2>2, <2>4, <3>1, SpokenStep
    <3>3. \A type \in {"done", "error", "utterance_end", "provider_switched"} :
            Frames(type)' = {}
      BY <1>1, <2>4, <3>1, AppendedFrames
    <3>4. ContractInv'
      BY <2>1, <3>2, <3>3 DEF ContractInv, OpenInv, GateInv, LaneInv, VerdictInv,
         UsageExactlyOnce
    <3> QED
      BY <2>1, <3>2, <3>4 DEF Protocol!OpenSession, Protocol!Next
  <2> QED
    BY <1>6, <2>3, <2>4 DEF Open, Send
<1>7. CASE OpenFails
  <2>1. Frames("done") = {}
    BY <1>7 DEF OpenFails, ContractInv, VerdictInv
  <2> QED
    BY <1>7, <2>1, BillKeepsContract DEF OpenFails, ringPart, loopPart, gatePart
<1>8. CASE NextAttempt
  BY <1>2, <1>3, <1>8 DEF NextAttempt, Ring!PlaceAt, Ring!ringVars, gatePart, runPart
<1>9. CASE Exhausted \/ ConnectFails \/ SwitchFrameFails
  BY <1>5, <1>9 DEF Exhausted, ConnectFails, SwitchFrameFails, gatePart, runPart, ringPart
<1>10. CASE Connected
  BY <1>10, AnnouncedSwitch
<1>11. CASE FeedChunk \/ FeedWaits \/ FeedFinishes
  BY <1>5, <1>11 DEF FeedChunk, FeedWaits, FeedFinishes, Ring!Yield, Ring!Wait, Ring!Drain,
     Ring!ringVars, loopPart, gatePart, runPart
<1>12. CASE FeedFails \/ StreamFails
  BY <1>5, <1>12 DEF FeedFails, StreamFails, Streaming, EndStream, gatePart, runPart
<1>13. CASE StreamReturns
  <2>1. closed
    BY <1>13 DEF StreamReturns, Streaming, SessionTypes, AtWork, Drained
  <2> QED
    BY <1>2, <1>3, <1>13, <2>1
       DEF StreamReturns, Streaming, EndStream, gatePart, runPart
<1>14. CASE DrainFinal
  <2>1. PICK e \in (said + 1)..Len(heard) :
          LET of == {heard[i] : i \in (said + 1)..e}
              timed == attempt \in Timed
              start == offset + said
              end == offset + e
          IN  \/ /\ timed /\ AlreadyFinal(start, end)
                 /\ said' = e
                 /\ dropped' = dropped \cup of
                 /\ UNCHANGED <<ringPart, loop, upstreams, drain, flushed, link, heard,
                                out, lastFinalEnd>>
              \/ /\ ~(timed /\ AlreadyFinal(start, end))
                 /\ lastFinalEnd' = IF timed THEN end ELSE lastFinalEnd
                 /\ DrainSends([type |-> "final", of |-> of,
                                start |-> IF timed THEN start ELSE NoTime,
                                end |-> IF timed THEN end ELSE NoTime], e)
                 /\ UNCHANGED dropped
    BY <1>14 DEF DrainFinal
  <2> DEFINE of == {heard[i] : i \in (said + 1)..e}
             timed == attempt \in Timed
             end == offset + e
             frame == [type |-> "final", of |-> of,
                       start |-> IF timed THEN offset + said ELSE NoTime,
                       end |-> IF timed THEN end ELSE NoTime]
  <2>2. /\ of \in SUBSET Nat /\ offset + said \in Nat /\ end \in Nat /\ Streaming
        /\ UNCHANGED <<usage, run, status, served, attempt, lastUtterance>>
    <3>1. of \in SUBSET Nat /\ offset + said \in Nat /\ end \in Nat
      <4>1. /\ heard \in Seq(Nat) /\ Len(heard) \in Nat /\ said \in 0..Len(heard)
            /\ offset \in Nat /\ e \in (said + 1)..Len(heard)
        BY <1>1, <2>1 DEF TypeOK
      <4>2. \A i \in (said + 1)..e : heard[i] \in Nat
        BY <4>1
      <4> QED
        BY <4>1, <4>2
    <3>2. Streaming /\ UNCHANGED <<usage, run, status, served, attempt, lastUtterance>>
      BY <1>14 DEF DrainFinal, runPart
    <3> QED
      BY <3>1, <3>2
  <2>3. frame \in Frame /\ frame.type = "final" /\ frame.end = (IF timed THEN end ELSE NoTime)
    BY <2>2 DEF Frame
  <2>4. CASE UNCHANGED <<ringPart, loop, out, lastFinalEnd>>
    BY <1>5, <2>2, <2>4 DEF ringPart
  <2>5. CASE /\ ~(timed /\ end <= lastFinalEnd)
             /\ lastFinalEnd' = IF timed THEN end ELSE lastFinalEnd
             /\ DrainSends(frame, e)
    <3> HIDE DEF frame, of
    <3>1. lastFinalEnd <= lastFinalEnd'
      BY <1>2, <2>2, <2>5
    <3>2. CASE EndStream("SessionClosed") /\ UNCHANGED out
      BY <1>2, <1>3, <2>2, <3>1, <3>2 DEF EndStream, Streaming
    <3>3. CASE Send(frame) /\ UNCHANGED <<ringPart, loop>>
      <4>1. CASE out' = out
        BY <1>2, <1>3, <1>4, <2>2, <3>1, <3>3, <4>1 DEF ringPart
      <4>2. CASE out' = Append(out, frame)
        <5>1. \/ frame.end = NoTime /\ UNCHANGED lastFinalEnd
              \/ frame.end > lastFinalEnd /\ lastFinalEnd' = frame.end
          BY <1>2, <2>2, <2>3, <2>5
        <5> QED
          BY <2>2, <2>3, <3>3, <4>2, <5>1, GatedFrame DEF ringPart
      <4> QED
        BY <3>3, <4>1, <4>2 DEF Send
    <3> QED
      BY <2>5, <3>2, <3>3 DEF DrainSends
  <2> QED
    BY <2>1, <2>4, <2>5 DEF AlreadyFinal
<1>15. CASE DrainUtteranceEnd
  <2>1. PICK t \in 1..Len(heard) :
          /\ ~StaleEndpoint(offset + t)
          /\ lastUtterance' = offset + t
          /\ DrainSends([type |-> "utterance_end", at |-> offset + t], said)
    BY <1>15 DEF DrainUtteranceEnd
  <2> DEFINE at == offset + t
             frame == [type |-> "utterance_end", at |-> at]
  <2>2. /\ at \in Nat /\ Streaming
        /\ UNCHANGED <<usage, run, status, served, attempt, lastFinalEnd>>
    BY <1>1, <1>15 DEF TypeOK, DrainUtteranceEnd, Streaming, runPart
  <2>3. frame \in Frame /\ frame.type = "utterance_end" /\ frame.at = at
    BY <2>2 DEF Frame
  <2>4. at > lastUtterance /\ at >= lastFinalEnd /\ lastUtterance' = at
    BY <1>2, <2>1, <2>2 DEF StaleEndpoint
  <2>5. DrainSends(frame, said)
    BY <2>1
  <2> HIDE DEF frame, at
  <2>6. CASE EndStream("SessionClosed") /\ UNCHANGED out
    BY <1>2, <1>3, <2>2, <2>4, <2>6 DEF EndStream, Streaming
  <2>7. CASE Send(frame) /\ UNCHANGED <<ringPart, loop>>
    <3>1. CASE out' = out
      BY <1>2, <1>3, <1>4, <2>2, <2>4, <2>7, <3>1 DEF ringPart
    <3>2. CASE out' = Append(out, frame)
      BY <2>2, <2>3, <2>4, <2>7, <3>2, GatedFrame DEF ringPart
    <3> QED
      BY <2>7, <3>1, <3>2 DEF Send
  <2> QED
    BY <2>5, <2>6, <2>7 DEF DrainSends
<1>16. CASE StreamEnds \/ LinkDrops \/ ClientLeaves
  BY <1>5, <1>16 DEF StreamEnds, LinkDrops, ClientLeaves, ringPart, loopPart, gatePart,
     runPart
<1>17. CASE ReadAudio
  BY <1>2, <1>3, <1>4, <1>17 DEF ReadAudio, Ring!AppendChunk, Ring!Accepts, loopPart,
     gatePart, runPart
<1>18. CASE ReadFinalize \/ ReadDisconnect
  BY <1>2, <1>3, <1>4, <1>18 DEF ReadFinalize, ReadDisconnect, Ring!Close, loopPart,
     gatePart, runPart
<1>19. ASSUME NEW limit \in Trips, WatchdogTrips(limit)
       PROVE  ContractInv' /\ [Protocol!Next]_(Protocol!vars)
  BY <1>5, <1>19 DEF WatchdogTrips, ringPart, loopPart, gatePart
<1>20. CASE Decide \/ Cancelled
  BY <1>20, DecisionKeepsContract
<1>21. CASE Teardown
  BY <1>21, BillKeepsContract DEF Teardown, loopPart, gatePart
<1>22. CASE UNCHANGED vars
  BY <1>5, <1>22 DEF vars, ringPart, loopPart, gatePart, runPart
<1>23. CASE Killed
  <2>1. /\ UNCHANGED <<out, usage, status, served, attempt, lastFinalEnd, lastUtterance,
                       loop, closed, clock>>
        /\ run # "done" /\ run' = "killed" /\ run # "running"
    BY <1>23 DEF Killed, loopPart, gatePart
  <2>2. (\A type : Frames(type)' = Frames(type)) /\ TimedFinals' = TimedFinals
    BY <2>1 DEF Frames, TimedFinals
  <2> QED
    BY <2>1, <2>2 DEF ContractInv, OpenInv, GateInv, LaneInv, VerdictInv,
       UsageExactlyOnce, Protocol!vars
<1> QED
  BY <1>6, <1>7, <1>8, <1>9, <1>10, <1>11, <1>12, <1>13, <1>14, <1>15, <1>16, <1>17, <1>18,
     <1>19, <1>20, <1>21, <1>22, <1>23 DEF Next, ProviderLoop, Feeder, DrainTask, Reader

LEMMA InitContract == Init => ContractInv
<1> SUFFICES ASSUME Init PROVE ContractInv
  OBVIOUS
<1>1. out = <<>> /\ \A type : Frames(type) = {}
  BY DEF Init, Frames
<1> QED
  BY <1>1, SessionAssumption DEF Init, ContractInv, OpenInv, GateInv, LaneInv, VerdictInv,
     UsageExactlyOnce, TimedFinals

LEMMA ContractHolds == Spec => []ContractInv
<1>1. ContractInv /\ SessionTypes /\ SessionTypes' /\ Drained /\ [Next]_vars => ContractInv'
  BY StepKeepsContract DEF SessionTypes
<1>2. Spec => []Drained
  BY DrainedMeansClosed DEF Drained
<1> QED
  BY <1>1, <1>2, InitContract, InitTypes, NextKeepsTypes, PTL DEF Spec

\* Whatever fails and whoever leaves, what the client and the bill see is what
\* ListenProtocol allows.
THEOREM ImplementsTheProtocol == Spec => KeepsProtocol
<1>1. Init => Protocol!Init
  BY DEF Init, Protocol!Init
<1>2. SessionTypes /\ SessionTypes' /\ Drained /\ ContractInv /\ [Next]_vars
        => [Protocol!Next]_(Protocol!vars)
  BY StepKeepsContract DEF SessionTypes
<1>3. Spec => []Drained
  BY DrainedMeansClosed DEF Drained
<1> QED
  BY <1>1, <1>2, <1>3, ContractHolds, InitTypes, NextKeepsTypes, PTL
     DEF Spec, KeepsProtocol, Protocol!Spec

\* Every session that is over has emitted one usage event, no other has any.
THEOREM UsageIsEmittedOnce == Spec => []UsageExactlyOnce
<1>1. ContractInv => UsageExactlyOnce
  BY DEF ContractInv
<1> QED
  BY <1>1, ContractHolds, PTL

-----------------------------------------------------------------------------
(* What the contract means for the finals and the endpoints.               *)

\* A frame the contract allows keeps the finals advancing.
LEMMA ContractAdvancesFinals ==
    ASSUME TypeOK, FinalsAdvance, [Protocol!Next]_(Protocol!vars) PROVE FinalsAdvance'
<1>1. out \in Seq(Frame)
  BY DEF TypeOK
<1>2. CASE out' = out
  BY <1>2 DEF FinalsAdvance, TimedFinals, Frames
<1>3. ASSUME NEW type, Protocol!Says(type),
             Protocol!FinalTranscript \/ type # "final"
      PROVE  FinalsAdvance'
  <2> DEFINE frame == out'[Len(out) + 1]
  <2>1. out' = Append(out, frame) /\ frame.type = type
    BY <1>3 DEF Protocol!Says, Protocol!New
  <2> HIDE DEF frame
  <2>2. /\ Len(out) \in Nat /\ out'[Len(out) + 1] = frame
        /\ \A i \in 1..Len(out) : out'[i] = out[i]
        /\ Frames("final")' =
              Frames("final") \cup (IF frame.type = "final" THEN {Len(out) + 1} ELSE {})
    BY <1>1, <2>1, AppendedFrames
  <2>3. Frames("final") \subseteq 1..Len(out)
    BY DEF Frames
  <2>4. (type = "final" /\ frame.end # NoTime) =>
          \A i \in TimedFinals : out[i].end < frame.end
    BY <1>3, <2>1, <2>2 DEF Protocol!FinalTranscript, Protocol!New, Protocol!Received,
       TimedFinals, Frames
  <2>5. SUFFICES ASSUME NEW i \in TimedFinals', NEW j \in TimedFinals', i < j
                 PROVE  out'[i].end < out'[j].end
    BY DEF FinalsAdvance
  <2>6. \A k \in TimedFinals' :
          \/ k \in TimedFinals /\ k \in 1..Len(out) /\ out'[k] = out[k]
          \/ k = Len(out) + 1 /\ type = "final" /\ frame.end # NoTime /\ out'[k] = frame
    BY <2>1, <2>2, <2>3 DEF TimedFinals
  <2>7. i \in TimedFinals /\ i \in 1..Len(out) /\ out'[i] = out[i]
    BY <2>2, <2>5, <2>6
  <2>8. CASE j \in TimedFinals /\ out'[j] = out[j]
    BY <2>5, <2>7, <2>8 DEF FinalsAdvance
  <2>9. CASE type = "final" /\ frame.end # NoTime /\ out'[j] = frame
    BY <2>4, <2>7, <2>9
  <2> QED
    BY <2>6, <2>8, <2>9
<1>4. CASE Protocol!Next
  <2>1. CASE Protocol!Bill
    BY <1>2, <2>1 DEF Protocol!Bill
  <2> QED
    BY <1>3, <1>4, <2>1
       DEF Protocol!Next, Protocol!OpenSession, Protocol!FinalTranscript,
           Protocol!UtteranceEnd, Protocol!ProviderSwitched, Protocol!Done, Protocol!Error
<1> QED
  BY <1>2, <1>4 DEF Protocol!vars

\* The dedup guarantee: in every session, over any number of failovers, the
\* ends of the timed finals the client receives only grow.
THEOREM FinalsOnlyAdvance == Spec => []FinalsAdvance
<1>1. Init => FinalsAdvance
  BY DEF Init, FinalsAdvance, TimedFinals, Frames
<1>2. ContractInv /\ SessionTypes /\ SessionTypes' /\ Drained /\ FinalsAdvance /\ [Next]_vars
        => FinalsAdvance'
  BY StepKeepsContract, ContractAdvancesFinals DEF SessionTypes
<1>3. Spec => []Drained
  BY DrainedMeansClosed DEF Drained
<1> QED
  BY <1>1, <1>2, <1>3, ContractHolds, InitTypes, NextKeepsTypes, PTL DEF Spec

-----------------------------------------------------------------------------
(* The upstream sessions.                                                  *)

\* An upstream session is open only at the attempt the loop is at, while it
\* streams or once its switch could not be announced.
UpstreamInv ==
    /\ upstreams \subseteq {attempt}
    /\ upstreams # {} => loop \in {"streaming", "SessionClosed"}

LEMMA OthersLeaveUpstreams ==
    ASSUME [Next]_vars
    PROVE  \/ NextAttempt \/ Exhausted \/ ConnectFails \/ Connected \/ SwitchFrameFails
           \/ FeedFails \/ DrainFinal \/ DrainUtteranceEnd \/ StreamFails \/ StreamReturns
           \/ Teardown \/ Killed
           \/ UNCHANGED <<upstreams, attempt, loop>>
  BY DEF Next, vars, ProviderLoop, Feeder, DrainTask, Reader, Decide, Open, OpenFails, FeedChunk,
     FeedWaits, FeedFinishes, StreamEnds, LinkDrops, ReadAudio, ReadFinalize, ReadDisconnect,
     ClientLeaves, WatchdogTrips, DecideByProvider, DecideByOther, Cancelled, loopPart

LEMMA UpstreamStep == UpstreamInv /\ [Next]_vars => UpstreamInv'
<1> SUFFICES ASSUME UpstreamInv, [Next]_vars PROVE UpstreamInv'
  OBVIOUS
<1>1. CASE UNCHANGED <<upstreams, attempt, loop>>
  BY <1>1 DEF UpstreamInv
<1>2. CASE NextAttempt
  BY <1>2 DEF NextAttempt, UpstreamInv
<1>3. CASE Exhausted \/ ConnectFails
  BY <1>3 DEF Exhausted, ConnectFails, UpstreamInv
<1>4. CASE Connected \/ SwitchFrameFails
  BY <1>4 DEF Connected, SwitchFrameFails, UpstreamInv
<1>5. ASSUME NEW next, EndStream(next), UNCHANGED attempt PROVE UpstreamInv'
  BY <1>5 DEF EndStream, CloseAdapter, UpstreamInv
<1>6. CASE FeedFails \/ StreamFails \/ StreamReturns
  BY <1>5, <1>6 DEF FeedFails, StreamFails, StreamReturns
<1>7. CASE DrainFinal \/ DrainUtteranceEnd
  <2>1. UNCHANGED attempt
    BY <1>7 DEF DrainFinal, DrainUtteranceEnd
  <2>2. UNCHANGED <<upstreams, loop>> \/ EndStream("SessionClosed")
    BY <1>7 DEF DrainFinal, DrainUtteranceEnd, DrainSends
  <2> QED
    BY <1>1, <1>5, <2>1, <2>2
<1>8. CASE Teardown \/ Killed
  <2>1. UNCHANGED <<attempt, loop>> /\ upstreams' \subseteq upstreams
    BY <1>8 DEF Teardown, Killed, loopPart, CloseAdapter
  <2> QED
    BY <2>1 DEF UpstreamInv
<1> QED
  BY <1>1, <1>2, <1>3, <1>4, <1>6, <1>7, <1>8, OthersLeaveUpstreams

LEMMA UpstreamHolds == Spec => []UpstreamInv
<1>1. Init => UpstreamInv
  BY DEF Init, UpstreamInv
<1> QED
  BY <1>1, UpstreamStep, PTL DEF Spec

\* However many failovers there are, no two upstream sessions are ever open:
\* the adapter of an attempt is closed before the next one connects.
THEOREM NeverTwoUpstreams == Spec => []AtMostOneUpstream
<1>1. UpstreamInv => AtMostOneUpstream
  <2> SUFFICES ASSUME UpstreamInv PROVE Cardinality(upstreams) <= 1
    BY DEF AtMostOneUpstream
  <2>1. upstreams = {} \/ upstreams = {attempt}
    BY DEF UpstreamInv
  <2>2. Cardinality(upstreams) = 0 \/ Cardinality(upstreams) = 1
    BY <2>1, FS_EmptySet, FS_Singleton
  <2> QED
    BY <2>2
<1> QED
  BY <1>1, UpstreamHolds, PTL

-----------------------------------------------------------------------------
(* The verdict.                                                            *)

\* A task finds that the client has gone only when it has.
GoneInv == loop = "SessionClosed" \/ reader = "returned" => client = "gone"

LEMMA OthersKnowNothing ==
    ASSUME [Next]_vars
    PROVE  \/ NextAttempt \/ Exhausted \/ ConnectFails \/ Connected \/ SwitchFrameFails
           \/ FeedFails \/ DrainFinal \/ DrainUtteranceEnd \/ StreamFails \/ StreamReturns
           \/ ReadDisconnect
           \/ UNCHANGED <<loop, reader>> /\ (client' = client \/ client' = "gone")
  BY DEF Next, vars, ProviderLoop, Feeder, DrainTask, Reader, Decide, Open, OpenFails, FeedChunk,
     FeedWaits, FeedFinishes, StreamEnds, LinkDrops, ReadAudio, ReadFinalize,
     ClientLeaves, WatchdogTrips, DecideByProvider, DecideByOther, Cancelled, Teardown, Killed,
     loopPart, clientPart

LEMMA GoneStep == GoneInv /\ [Next]_vars => GoneInv'
<1> SUFFICES ASSUME GoneInv, [Next]_vars PROVE GoneInv'
  OBVIOUS
<1>1. CASE UNCHANGED <<loop, reader>> /\ (client' = client \/ client' = "gone")
  BY <1>1 DEF GoneInv
<1>2. ASSUME UNCHANGED clientPart, loop' = loop \/ loop' # "SessionClosed" \/ client = "gone"
      PROVE  GoneInv'
  BY <1>2 DEF GoneInv, clientPart
<1>3. CASE NextAttempt \/ Exhausted \/ ConnectFails \/ Connected \/ SwitchFrameFails
  BY <1>2, <1>3 DEF NextAttempt, Exhausted, ConnectFails, Connected, SwitchFrameFails
<1>4. CASE FeedFails \/ StreamFails \/ StreamReturns
  BY <1>2, <1>4 DEF FeedFails, StreamFails, StreamReturns, EndStream
<1>5. CASE DrainFinal \/ DrainUtteranceEnd
  BY <1>2, <1>5 DEF DrainFinal, DrainUtteranceEnd, DrainSends
<1>6. CASE ReadDisconnect
  BY <1>6 DEF ReadDisconnect, GoneInv
<1> QED
  BY <1>1, <1>3, <1>4, <1>5, <1>6, OthersKnowNothing


LEMMA GoneHolds == Spec => []GoneInv
<1>1. Init => GoneInv
  BY DEF Init, GoneInv
<1> QED
  BY <1>1, GoneStep, PTL DEF Spec

\* What a frame out[i] tells the client is what the status records.
Verdicts == Frames("done") \cup Frames("error")
Tells(i) ==
    \/ out[i].type = "done" /\ status = "completed"
    \/ out[i].type = "error" /\ status \in Limits /\ out[i].code = status
    \/ out[i].type = "error" /\ status = "error" /\ out[i].code = "internal_error"
    \/ out[i].type = "error" /\ status = "provider_error"
       /\ out[i].code \in {"provider_error", "all_providers_failed"}
ToldInv ==
    (run \in {"decided", "closing", "done"} /\ client = "here" /\ "cancelled" \notin Faults) =>
        \E i \in Verdicts : Tells(i)

\* What a step may say.
LEMMA StepSays ==
    ASSUME TypeOK, [Next]_vars
    PROVE  /\ client' = client \/ client' = "gone"
           /\ \/ UNCHANGED out
              \/ \E frame : out' = Append(out, frame)
           /\ \/ Connected \/ SwitchFrameFails
              \/ UNCHANGED switches /\ UNCHANGED out
              \/ UNCHANGED switches
                 /\ \E frame : frame.type # "provider_switched" /\ out' = Append(out, frame)
           /\ \/ Open \/ OpenFails \/ Decide \/ Cancelled \/ Teardown \/ Killed
              \/ UNCHANGED <<run, status>>
<1>1. ASSUME NEW frame, NEW upto, DrainSends(frame, upto), frame.type # "provider_switched"
      PROVE  \/ UNCHANGED out
             \/ \E f : f.type # "provider_switched" /\ out' = Append(out, f)
  BY <1>1 DEF DrainSends, Send
<1>2. CASE DrainFinal
  <2>1. /\ UNCHANGED <<switches, run, status, client>>
        /\ \/ UNCHANGED out
           \/ \E e, of, a, b : DrainSends([type |-> "final", of |-> of, start |-> a, end |-> b], e)
    BY <1>2 DEF DrainFinal, runPart, clientPart
  <2> QED
    BY <1>1, <2>1
<1>3. CASE DrainUtteranceEnd
  <2>1. /\ UNCHANGED <<switches, run, status, client>>
        /\ \E a, e : DrainSends([type |-> "utterance_end", at |-> a], e)
    BY <1>3 DEF DrainUtteranceEnd, runPart, clientPart
  <2> QED
    BY <1>1, <2>1
<1>4. CASE Connected \/ SwitchFrameFails
  BY <1>4 DEF Connected, SwitchFrameFails, Send, runPart, clientPart
<1>5. CASE Open
  <2>1. UNCHANGED <<switches, client>> /\ Send([type |-> "session.open"])
    BY <1>5 DEF Open, loopPart, clientPart
  <2> QED
    BY <1>5, <2>1 DEF Send
<1>6. CASE Decide
  <2>1. UNCHANGED <<switches, client>>
    BY <1>6 DEF Decide, DecideByProvider, DecideByOther, loopPart, clientPart
  <2>2. ASSUME NEW s, NEW frame, Verdict(s, frame), frame.type # "provider_switched"
        PROVE  \/ UNCHANGED out
               \/ \E f : f.type # "provider_switched" /\ out' = Append(out, f)
    BY <2>2 DEF Verdict, Send
  <2>3. \/ UNCHANGED out
        \/ \E s, c : Verdict(s, Error(c))
        \/ Verdict("completed", [type |-> "done", audio |-> clock])
    BY <1>6 DEF Decide, DecideByProvider, DecideByOther, Silently
  <2> QED
    BY <1>6, <2>1, <2>2, <2>3 DEF Error
<1>7. CASE OpenFails \/ Cancelled \/ Teardown \/ Killed
  BY <1>7 DEF OpenFails, Cancelled, Silently, Teardown, Killed, loopPart, clientPart
<1>8. CASE NextAttempt \/ Exhausted \/ ConnectFails \/ FeedChunk \/ FeedWaits \/ FeedFinishes \/ FeedFails
           \/ StreamEnds \/ StreamFails \/ StreamReturns \/ LinkDrops
  BY <1>8 DEF NextAttempt, Exhausted, ConnectFails, FeedChunk, FeedWaits, FeedFinishes, FeedFails,
     StreamEnds, StreamFails, StreamReturns, LinkDrops, loopPart, runPart, clientPart
<1>9. CASE ReadAudio \/ ReadFinalize \/ ReadDisconnect \/ ClientLeaves
           \/ (\E limit \in Trips : WatchdogTrips(limit)) \/ UNCHANGED vars
  BY <1>9 DEF ReadAudio, ReadFinalize, ReadDisconnect, ClientLeaves, WatchdogTrips, vars, loopPart,
     runPart, clientPart
<1> QED
  BY <1>2, <1>3, <1>4, <1>5, <1>6, <1>7, <1>8, <1>9 DEF Next, ProviderLoop, Feeder, DrainTask, Reader

LEMMA ToldStep == TypeOK /\ GoneInv /\ ToldInv /\ [Next]_vars => ToldInv'
<1> SUFFICES ASSUME TypeOK, GoneInv, ToldInv, [Next]_vars,
                    run' \in {"decided", "closing", "done"}, client' = "here", "cancelled" \notin Faults
             PROVE  \E i \in Verdicts' : Tells(i)'
  BY DEF ToldInv
<1>1. client = "here" /\ out \in Seq(Frame)
  BY StepSays DEF TypeOK
<1>2. CASE UNCHANGED <<status, out>> /\ run \in {"decided", "closing", "done"}
  <2>1. Verdicts' = Verdicts
    BY <1>2 DEF Verdicts, Frames
  <2> QED
    BY <1>1, <1>2, <2>1 DEF ToldInv, Tells
<1>3. ASSUME UNCHANGED <<run, status>>, NEW frame, out' = Append(out, frame)
      PROVE  \E i \in Verdicts' : Tells(i)'
  <2>1. PICK i \in Verdicts : Tells(i)
    BY <1>1, <1>3 DEF ToldInv
  <2>2. i \in Verdicts' /\ out'[i] = out[i]
    BY <1>1, <1>3, AppendedFrames DEF Verdicts, Frames
  <2> QED
    BY <1>3, <2>1, <2>2 DEF Tells
<1>4. CASE UNCHANGED <<run, status>>
  BY <1>2, <1>3, <1>4, StepSays
<1>5. CASE Open \/ OpenFails \/ Cancelled \/ Killed
  BY <1>1, <1>5 DEF Open, OpenFails, Cancelled, Killed
<1>6. CASE Teardown
  BY <1>2, <1>6 DEF Teardown
<1>7. ASSUME NEW s, NEW frame, Verdict(s, frame),
             \/ frame.type = "done" /\ s = "completed"
             \/ frame.type = "error" /\ s \in Limits /\ frame.code = s
             \/ frame.type = "error" /\ s = "error" /\ frame.code = "internal_error"
             \/ frame.type = "error" /\ s = "provider_error"
                /\ frame.code \in {"provider_error", "all_providers_failed"}
      PROVE  \E i \in Verdicts' : Tells(i)'
  <2>1. out' = Append(out, frame) /\ status' = s
    BY <1>1, <1>7 DEF Verdict, Send
  <2>2. Len(out) + 1 \in Verdicts' /\ out'[Len(out) + 1] = frame
    BY <1>1, <1>7, <2>1, AppendedFrames DEF Verdicts
  <2>3. \E i \in Verdicts' : out'[i] = frame
    BY <2>2
  <2> QED
    BY <1>7, <2>1, <2>3 DEF Tells
<1>8. CASE DecideByProvider
  <2>1. loop # "SessionClosed"
    BY <1>1 DEF GoneInv
  <2>2. \/ Verdict("completed", [type |-> "done", audio |-> clock])
        \/ Verdict("provider_error", Error("all_providers_failed"))
        \/ Verdict("provider_error", Error("provider_error"))
        \/ Verdict("error", Error("internal_error"))
    BY <1>1, <1>8, <2>1 DEF DecideByProvider
  <2> QED
    BY <1>7, <2>2 DEF Error
<1>9. CASE DecideByOther
  <2>1. reader # "returned"
    BY <1>1 DEF GoneInv
  <2>2. watchdog \in Limits /\ Verdict(watchdog, Error(watchdog))
    BY <1>9, <2>1 DEF DecideByOther, TypeOK
  <2> QED
    BY <1>7, <2>2 DEF Error
<1> QED
  BY <1>4, <1>5, <1>6, <1>8, <1>9, StepSays DEF Decide

\* A client that is there has been told of every switch.
CountInv == client = "here" => Cardinality(Frames("provider_switched")) = switches

LEMMA CountStep == TypeOK /\ CountInv /\ [Next]_vars => CountInv'
<1> SUFFICES ASSUME TypeOK, CountInv, [Next]_vars, client' = "here"
             PROVE  Cardinality(Frames("provider_switched"))' = switches'
  BY DEF CountInv
<1> DEFINE sw == Frames("provider_switched")
<1>1. /\ client = "here" /\ out \in Seq(Frame) /\ switches \in Nat
      /\ Cardinality(sw) = switches
  BY StepSays DEF TypeOK, CountInv
<1>2. sw \subseteq 1..Len(out) /\ IsFiniteSet(sw) /\ Len(out) \in Nat
  BY <1>1, FS_Interval, FS_Subset DEF Frames
<1>3. CASE UNCHANGED <<switches, out>>
  BY <1>1, <1>3 DEF Frames
<1>4. ASSUME UNCHANGED switches, NEW frame, frame.type # "provider_switched", out' = Append(out, frame)
      PROVE  Cardinality(sw') = switches'
  <2>1. sw' = sw \cup (IF frame.type = "provider_switched" THEN {Len(out) + 1} ELSE {})
    BY <1>1, <1>4, AppendedFrames
  <2>2. sw' = sw
    BY <1>4, <2>1
  <2> QED
    BY <1>1, <1>4, <2>2
<1>5. CASE Connected
  <2>1. CASE served # 0
    <3>1. out' = Append(out, SwitchFrame) /\ switches' = switches + 1
      BY <1>1, <1>5, <2>1 DEF Connected, Send
    <3>2. sw' = sw \cup {Len(out) + 1}
      BY <1>1, <3>1, AppendedFrames DEF SwitchFrame
    <3>3. Len(out) + 1 \notin sw
      BY <1>2
    <3>4. Cardinality(sw \cup {Len(out) + 1}) = Cardinality(sw) + 1
      BY <1>2, <3>3, FS_AddElement
    <3> QED
      BY <1>1, <3>1, <3>2, <3>4
  <2>2. CASE served = 0
    BY <1>3, <1>5, <2>2 DEF Connected
  <2> QED
    BY <2>1, <2>2
<1>6. CASE SwitchFrameFails
  BY <1>1, <1>6 DEF SwitchFrameFails
<1> QED
  BY <1>3, <1>4, <1>5, <1>6, StepSays

\* What the contract means for the verdict and the switches: done is the last
\* frame and agrees with the bill, there is one verdict, and each switch leaves
\* a provider no earlier than the one the last arrived at.
StoryInv ==
    /\ \A i \in Frames("done") :
          /\ i = Len(out)
          /\ usage # <<>> => usage[1].audio = out[i].audio /\ usage[1].status = "completed"
    /\ \A i, j \in Verdicts : i = j
    /\ \A i \in Frames("provider_switched") : out[i].from < out[i].to
    /\ \A i, j \in Frames("provider_switched") : i < j => out[i].to <= out[j].from

LEMMA ContractTellsOneStory ==
    ASSUME TypeOK, StoryInv, [Protocol!Next]_(Protocol!vars) PROVE StoryInv'
<1>1. out \in Seq(Frame) /\ \A type : Protocol!Received(type) = Frames(type)
  BY DEF TypeOK, Protocol!Received, Frames
<1>2. CASE UNCHANGED <<out, usage>>
  BY <1>2 DEF StoryInv, Verdicts, Frames
<1>3. CASE Protocol!Bill
  <2>1. UNCHANGED out /\ \A i \in Frames("done") :
          usage'[1].audio = out[i].audio /\ usage'[1].status = "completed"
    BY <1>1, <1>3 DEF Protocol!Bill
  <2>2. \A type : Frames(type)' = Frames(type)
    BY <2>1 DEF Frames
  <2> QED
    BY <2>1, <2>2 DEF StoryInv, Verdicts
<1>4. ASSUME NEW type, Protocol!Says(type),
             type \in {"done", "error"} => Protocol!Told = {},
             type = "provider_switched" => Protocol!ProviderSwitched
      PROVE  StoryInv'
  <2> DEFINE frame == out'[Len(out) + 1]
  <2>1. out' = Append(out, frame) /\ frame.type = type /\ usage = <<>> /\ usage' = <<>>
    BY <1>4 DEF Protocol!Says, Protocol!New
  <2> HIDE DEF frame
  <2>2. /\ Len(out) \in Nat /\ Len(out') = Len(out) + 1 /\ out'[Len(out) + 1] = frame
        /\ \A i \in 1..Len(out) : out'[i] = out[i]
        /\ \A t : Frames(t)' = Frames(t) \cup (IF frame.type = t THEN {Len(out) + 1} ELSE {})
    BY <1>1, <2>1, AppendedFrames
  <2>3. \A t : \A i \in Frames(t) : i \in Int /\ i < Len(out) + 1 /\ out'[i] = out[i]
    BY <2>2 DEF Frames
  <2>4. Frames("done") = {}
    BY <1>1, <1>4 DEF Protocol!Says
  <2>5. \A i \in Frames("done")' : i = Len(out')
    BY <2>2, <2>4
  <2>6. \A i, j \in Verdicts' : i = j
    <3>1. CASE type \in {"done", "error"}
      <4>1. Verdicts = {}
        BY <1>1, <1>4, <3>1 DEF Protocol!Told, Verdicts
      <4> QED
        BY <2>2, <4>1 DEF Verdicts
    <3>2. CASE type \notin {"done", "error"}
      <4>1. Verdicts' = Verdicts
        BY <2>1, <2>2, <3>2 DEF Verdicts
      <4> QED
        BY <4>1 DEF StoryInv
    <3> QED
      BY <3>1, <3>2
  <2>7. CASE type = "provider_switched"
    <3>1. /\ frame.from < frame.to
          /\ \A i \in Frames("provider_switched") : out[i].to <= frame.from
      BY <1>1, <1>4, <2>2, <2>7 DEF Protocol!ProviderSwitched, Protocol!New
    <3>2. \A i \in Frames("provider_switched")' :
            \/ i \in Frames("provider_switched") /\ out'[i] = out[i] /\ i < Len(out) + 1
            \/ i = Len(out) + 1 /\ out'[i] = frame
      BY <2>2, <2>3
    <3>3. \A i \in Frames("provider_switched")' : out'[i].from < out'[i].to
      BY <3>1, <3>2 DEF StoryInv
    <3>4. ASSUME NEW i \in Frames("provider_switched")', NEW j \in Frames("provider_switched")', i < j
          PROVE  out'[i].to <= out'[j].from
      <4>1. i \in Frames("provider_switched") /\ out'[i] = out[i]
        BY <2>2, <2>3, <3>2, <3>4
      <4> QED
        BY <3>1, <3>2, <3>4, <4>1 DEF StoryInv
    <3> QED
      BY <2>1, <2>5, <2>6, <3>3, <3>4 DEF StoryInv
  <2>8. CASE type # "provider_switched"
    <3>1. Frames("provider_switched")' = Frames("provider_switched")
      BY <2>1, <2>2, <2>8
    <3> QED
      BY <2>1, <2>3, <2>5, <2>6, <3>1 DEF StoryInv
  <2> QED
    BY <2>7, <2>8
<1>5. CASE Protocol!Next
  BY <1>3, <1>4, <1>5
     DEF Protocol!Next, Protocol!OpenSession, Protocol!FinalTranscript, Protocol!UtteranceEnd,
         Protocol!ProviderSwitched, Protocol!Done, Protocol!Error
<1> QED
  BY <1>2, <1>5 DEF Protocol!vars

\* What the client was told and what is billed are one story: done comes last
\* and reports the audio of the bill, the one verdict is the recorded status,
\* and the switches billed are those announced, down the lane.
THEOREM ClientAndBillTellOneStory == Spec => []ClientAndBillAgree
<1>1. Init => ToldInv /\ CountInv /\ StoryInv
  <2>1. Init => \A type : Frames(type) = {}
    BY DEF Init, Frames
  <2> QED
    BY <2>1, FS_EmptySet DEF Init, ToldInv, CountInv, StoryInv, Verdicts
<1>2. SessionTypes /\ SessionTypes' /\ Drained /\ ContractInv /\ StoryInv /\ [Next]_vars => StoryInv'
  BY StepKeepsContract, ContractTellsOneStory DEF SessionTypes
<1>3. SessionTypes /\ GoneInv /\ ToldInv /\ CountInv /\ [Next]_vars => ToldInv' /\ CountInv'
  BY ToldStep, CountStep DEF SessionTypes
<1>4. Spec => []Drained
  BY DrainedMeansClosed DEF Drained
<1>5. SessionTypes /\ ContractInv /\ StoryInv /\ ToldInv /\ CountInv => ClientAndBillAgree
  <2> SUFFICES ASSUME TypeOK, UsageExactlyOnce, StoryInv, ToldInv, CountInv PROVE ClientAndBillAgree
    BY DEF SessionTypes, ContractInv
  <2>1. DoneAgreesWithUsage
    <3>1. run = "done" => usage # <<>>
      BY DEF UsageExactlyOnce
    <3> QED
      BY <3>1 DEF DoneAgreesWithUsage, StoryInv
  <2>2. Cardinality(Verdicts) <= 1
    <3>1. Verdicts = {} \/ \E i : Verdicts = {i}
      BY DEF StoryInv
    <3>2. Cardinality(Verdicts) = 0 \/ Cardinality(Verdicts) = 1
      BY <3>1, FS_EmptySet, FS_Singleton
    <3> QED
      BY <3>2
  <2>3. OneVerdict
    BY <2>2 DEF OneVerdict, ToldInv, Tells, Verdicts
  <2>4. SwitchesFormAChain
    BY DEF SwitchesFormAChain, StoryInv, CountInv
  <2> QED
    BY <2>1, <2>3, <2>4 DEF ClientAndBillAgree
<1> QED
  BY <1>1, <1>2, <1>3, <1>4, <1>5, ContractHolds, GoneHolds, InitTypes, NextKeepsTypes, PTL DEF Spec

-----------------------------------------------------------------------------
(* Sessions whose audio the ring holds: what is fed, labelled, suppressed. *)

\* The ring has not trimmed anything: the client has sent no more audio than
\* the ring retains.  Beyond it a failover loses audio, as session.py:182 has
\* it, and stt_trimmed_replay refutes LabelsAreTrue.
FitsTheRing == clock <= MaxSeconds

\* The session time at which the chunk of index p starts or will start.
Time(p) == IF p < Len(log) THEN log[p + 1].start ELSE clock

\* The chunks lie end to end from the start of the session.
TimeInv == Time(0) = 0 /\ \A i \in 1..Len(log) : Time(i) = log[i].start + log[i].duration

\* The current provider has heard the audio from its start up to the chunk
\* its feeder asks for next, all of it once its stream has returned.
HeardInv ==
    /\ \A i \in 1..Len(heard) : heard[i] = i - 1
    /\ loop \in {"next", "connecting"} => heard = <<>> /\ said = 0
    /\ loop \in {"connecting", "streaming"} => offset = 0
    /\ loop = "connecting" => pos[attempt] = 0
    /\ loop = "streaming" => pos[attempt] \in 0..Len(log) /\ Len(heard) = Time(pos[attempt])
    /\ loop = "returned" => closed /\ Len(heard) = clock

\* Nothing has been trimmed: the deque is the whole history, an index is a
\* place in it, and a replacement resumes at the start of the session.
LEMMA NothingIsTrimmed ==
    ASSUME SessionTypes, TimeInv, FitsTheRing
    PROVE  /\ Len(log) \in Nat /\ clock \in Nat
           /\ \A i \in 1..Len(log) : /\ log[i] \in RP!Chunk
                                     /\ log[i].start \in Nat /\ log[i].duration \in Nat
           /\ ResumeIdx = 0 /\ ResumeTime = 0
           /\ \A p \in 0..Len(log) :
                 Ring!Available(p) => p < Len(log) /\ Ring!Get(p) = log[p + 1]
                                      /\ log[p + 1].idx = p
<1>1. /\ chunks \in Seq(RP!Chunk) /\ log \in Seq(RP!Chunk) /\ clock \in Nat
      /\ Len(log) \in Nat /\ Len(chunks) \in Nat /\ nextIdx = Len(log)
      /\ MaxSeconds \in Nat
  BY RingConstantsHold DEF SessionTypes, RP!RingInv, RP!TypeOK, RP!LogInv, RingConstants
<1>2. \A i \in 1..Len(log) : /\ log[i] \in RP!Chunk /\ log[i].idx = i - 1
                             /\ log[i].start \in Nat /\ log[i].duration \in Nat
  <2>1. ASSUME NEW i \in 1..Len(log) PROVE log[i] \in RP!Chunk /\ log[i].idx = i - 1
    BY <1>1, <2>1 DEF SessionTypes, RP!RingInv, RP!LogInv
  <2> QED
    BY <2>1 DEF RP!Chunk
<1>3. Len(chunks) = Len(log)
  <2>1. /\ Len(log) - Len(chunks) >= 0
        /\ \A i \in 1..Len(log) : RP!Expired(log[i], clock) <=> i <= Len(log) - Len(chunks)
    BY DEF SessionTypes, RP!RingInv, RP!RetainsExactlyTheWindow
  <2>2. \A i \in 1..Len(log) : ~RP!Expired(log[i], clock)
    BY <1>1, <1>2 DEF RP!Expired, FitsTheRing
  <2> QED
    BY <1>1, <2>1, <2>2
<1>4. \A i \in 1..Len(log) : chunks[i] = log[i]
  BY <1>1, <1>3 DEF SessionTypes, RP!RingInv, RP!RetainsExactlyTheWindow
<1>5. chunks # <<>> <=> Len(log) # 0
  BY <1>1, <1>3
<1>6. chunks # <<>> => Head(chunks) = log[1]
  BY <1>1, <1>3, <1>4
<1>7. Ring!ReplayIdx = 0
  BY <1>1, <1>2, <1>5, <1>6 DEF Ring!ReplayIdx
<1>8. Ring!ReplayTime = 0
  BY <1>1, <1>2, <1>5, <1>6 DEF Ring!ReplayTime, TimeInv, Time
<1>9. ASSUME NEW p \in 0..Len(log), Ring!Available(p)
      PROVE  p < Len(log) /\ Ring!Get(p) = log[p + 1] /\ log[p + 1].idx = p
  <2>1. p < Len(log) /\ p + 1 \in 1..Len(log) /\ Head(chunks) = log[1] /\ log[1].idx = 0
    BY <1>1, <1>2, <1>6, <1>9 DEF Ring!Available
  <2>2. Ring!Get(p) = chunks[p + 1]
    BY <2>1 DEF Ring!Get
  <2> QED
    BY <1>2, <1>4, <2>1, <2>2
<1> QED
  BY <1>1, <1>2, <1>7, <1>8, <1>9 DEF ResumeIdx, ResumeTime

\* The times of the chunks stay; audio only comes while the ring is open.
LEMMA TimeStep ==
    ASSUME SessionTypes, TimeInv, [Next]_vars
    PROVE  /\ TimeInv'
           /\ clock \in Nat /\ clock' \in Nat /\ clock <= clock'
           /\ Len(log) \in Nat /\ Len(log)' \in Nat /\ Len(log) <= Len(log)'
           /\ \A p \in 0..Len(log) : Time(p)' = Time(p)
           /\ closed => closed' /\ clock' = clock
<1>1. /\ log \in Seq(Ring!Chunk) /\ clock \in Nat /\ nextIdx \in Nat /\ Len(log) \in Nat
      /\ \A i \in 1..Len(log) : log[i].start \in Nat /\ log[i].duration \in Nat
  <2>1. log \in Seq(Ring!Chunk) /\ clock \in Nat /\ nextIdx \in Nat
    BY DEF SessionTypes, TypeOK, Ring!TypeOK
  <2>2. Len(log) \in Nat /\ \A i \in 1..Len(log) : log[i] \in Ring!Chunk
    BY <2>1
  <2> QED
    BY <2>1, <2>2 DEF Ring!Chunk
<1>2. [Ring!Next]_ringPart
  BY SessionStepsTheRing
<1>3. CASE UNCHANGED <<log, clock>> /\ (closed => closed')
  BY <1>1, <1>3 DEF TimeInv, Time
<1>4. ASSUME NEW d \in Durations, Ring!AppendChunk(d)
      PROVE  /\ TimeInv'
             /\ clock' \in Nat /\ clock <= clock'
             /\ Len(log)' \in Nat /\ Len(log) <= Len(log)'
             /\ \A p \in 0..Len(log) : Time(p)' = Time(p)
             /\ ~closed
  <2> DEFINE new == [idx |-> nextIdx, start |-> clock, duration |-> Ring!DurationOf(d)]
  <2>1. Ring!DurationOf(d) \in Nat
    BY <1>4, RingConstantsHold DEF Ring!DurationOf, RingConstants
  <2>2. /\ ~closed /\ clock' = clock + Ring!DurationOf(d) /\ log' = Append(log, new)
    BY <1>4 DEF Ring!AppendChunk, Ring!Accepts
  <2>3. new.start = clock /\ new.duration = Ring!DurationOf(d)
    OBVIOUS
  <2> HIDE DEF new
  <2>4. /\ Len(log') = Len(log) + 1 /\ log'[Len(log) + 1] = new
        /\ \A i \in 1..Len(log) : log'[i] = log[i]
    BY <1>1, <2>2
  <2>5. \A p \in 0..Len(log) : Time(p)' = Time(p)
    BY <1>1, <2>3, <2>4 DEF Time
  <2>6. \A p \in Int : p = Len(log) + 1 => Time(p)' = clock'
    BY <1>1, <2>4 DEF Time
  <2>7. TimeInv'
    <3>1. Time(0)' = 0
      BY <1>1, <2>5 DEF TimeInv
    <3>2. ASSUME NEW i \in 1..Len(log') PROVE Time(i)' = log'[i].start + log'[i].duration
      <4>1. CASE i \in 1..Len(log)
        BY <1>1, <2>4, <2>5, <4>1 DEF TimeInv
      <4>2. CASE i = Len(log) + 1
        BY <1>1, <2>2, <2>3, <2>4, <2>6, <4>2
      <4> QED
        BY <1>1, <2>4, <3>2, <4>1, <4>2
    <3> QED
      BY <3>1, <3>2 DEF TimeInv
  <2> QED
    BY <1>1, <2>1, <2>2, <2>4, <2>5, <2>7, SMTT(30)
<1>5. (\E d \in Durations : Ring!AppendChunk(d)) \/ (UNCHANGED <<log, clock>> /\ (closed => closed'))
  BY <1>2 DEF ringPart, Ring!Next, Ring!Close, Ring!Place, Ring!PlaceAt, Ring!Iterate,
     Ring!ReaderStep, Ring!Yield, Ring!Wait, Ring!Drain, Ring!Cancel, Ring!ringVars
<1> QED
  BY <1>1, <1>3, <1>4, <1>5

\* An iteration over the providers that ends leaves nothing to account for.
LEMMA EndedStreamHeard ==
    ASSUME TypeOK, HeardInv, NEW next, EndStream(next),
           next \notin {"connecting", "streaming"},
           next = "returned" => closed /\ Len(heard) = clock
    PROVE  HeardInv'
<1>1. loop' = next /\ said' = 0 /\ UNCHANGED <<closed, clock>>
      /\ heard' = IF next = "returned" THEN heard ELSE <<>>
  BY DEF EndStream
<1>2. CASE next = "returned"
  BY <1>1, <1>2 DEF HeardInv
<1>3. CASE next # "returned"
  <2>1. heard' = <<>> /\ \A i \in 1..Len(<<>>) : <<>>[i] = i - 1
    BY <1>1, <1>3
  <2> QED
    BY <1>1, <1>3, <2>1 DEF HeardInv
<1> QED
  BY <1>2, <1>3

\* The seconds of a chunk, and audio that follows what was heard.
LEMMA SecondsOfAChunk ==
    ASSUME NEW c, c.start \in Nat, c.duration \in Nat
    PROVE  /\ Seconds(c) \in Seq(Nat) /\ Len(Seconds(c)) = c.duration
           /\ \A i \in 1..c.duration : Seconds(c)[i] = c.start + i - 1
<1>1. \A i \in 1..c.duration : c.start + i - 1 \in Nat
  OBVIOUS
<1>2. Seconds(c) \in Seq(Nat)
  BY <1>1 DEF Seconds
<1>3. DOMAIN Seconds(c) = 1..c.duration
  BY DEF Seconds
<1>4. \A i \in 1..c.duration : Seconds(c)[i] = c.start + i - 1
  BY DEF Seconds
<1>5. Len(Seconds(c)) = c.duration
  BY <1>2, <1>3
<1> QED
  BY <1>2, <1>4, <1>5

LEMMA JoinedSeconds ==
    ASSUME NEW h \in Seq(Nat), NEW s \in Seq(Nat)
    PROVE  /\ Len(h \o s) = Len(h) + Len(s)
           /\ \A i \in 1..Len(h) : (h \o s)[i] = h[i]
           /\ \A i \in 1..Len(s) : (h \o s)[Len(h) + i] = s[i]
  OBVIOUS

\* What a feeder hands over continues what the provider has heard.
LEMMA FedChunkHeard ==
    ASSUME SessionTypes, SessionTypes', TimeInv, HeardInv, FitsTheRing, FeedChunk
    PROVE  HeardInv'
<1> DEFINE p == pos[attempt]
           c == log[p + 1]
<1>1. /\ Len(log) \in Nat /\ heard \in Seq(Nat) /\ Len(heard) \in Nat
      /\ loop = "streaming" /\ attempt \in Attempts /\ pos \in [Attempts -> Nat]
      /\ p \in 0..Len(log) /\ Len(heard) = Time(p)
  <2>1. loop = "streaming"
    BY DEF FeedChunk, Streaming
  <2>2. attempt \in Attempts /\ heard \in Seq(Nat) /\ pos \in [Attempts -> Nat]
    BY <2>1 DEF SessionTypes, AtWork, TypeOK, Ring!TypeOK
  <2>3. p \in 0..Len(log) /\ Len(heard) = Time(p)
    BY <2>1 DEF HeardInv
  <2> QED
    BY <2>1, <2>2, <2>3, NothingIsTrimmed
<1>2. p < Len(log) /\ Ring!Get(p) = c /\ c.idx = p
  BY <1>1, NothingIsTrimmed DEF FeedChunk, Ring!Yield
<1>3. c.start \in Nat /\ c.duration \in Nat /\ p + 1 \in 1..Len(log)
  BY <1>1, <1>2, NothingIsTrimmed
<1>4. heard' = heard \o Seconds(c) /\ pos'[attempt] = p + 1
      /\ UNCHANGED <<log, clock, closed, loop, attempt, offset>>
  BY <1>1, <1>2 DEF FeedChunk, Ring!Yield, Ring!ringVars, loopPart
<1>5. Len(heard) = c.start /\ \A q \in Int : q = p + 1 => Time(q)' = c.start + c.duration
  <2>1. Len(heard) = c.start
    BY <1>1, <1>2 DEF Time
  <2>2. Time(p + 1) = c.start + c.duration
    BY <1>3 DEF TimeInv
  <2>3. \A q \in Int : Time(q)' = Time(q)
    BY <1>4 DEF Time
  <2> QED
    BY <1>3, <2>1, <2>2, <2>3
<1> HIDE DEF p, c
<1>6. /\ Seconds(c) \in Seq(Nat) /\ Len(Seconds(c)) = c.duration
      /\ \A i \in 1..c.duration : Seconds(c)[i] = c.start + i - 1
  BY <1>3, SecondsOfAChunk
<1>7. /\ Len(heard') = Len(heard) + c.duration
      /\ \A i \in 1..Len(heard) : heard'[i] = heard[i]
      /\ \A i \in 1..c.duration : heard'[Len(heard) + i] = Seconds(c)[i]
  BY <1>1, <1>4, <1>6, JoinedSeconds, ZenonT(30)
<1>8. \A i \in 1..Len(heard') : heard'[i] = i - 1
  <2> SUFFICES ASSUME NEW i \in 1..Len(heard') PROVE heard'[i] = i - 1
    OBVIOUS
  <2>1. CASE i <= Len(heard)
    BY <1>1, <1>7, <2>1 DEF HeardInv
  <2>2. CASE i > Len(heard)
    <3>1. i - Len(heard) \in 1..c.duration /\ i = Len(heard) + (i - Len(heard))
      BY <1>1, <1>3, <1>7, <2>2
    <3>2. heard'[i] = Seconds(c)[i - Len(heard)]
      BY <1>7, <3>1
    <3>3. Seconds(c)[i - Len(heard)] = c.start + (i - Len(heard)) - 1
      BY <1>6, <3>1
    <3> QED
      BY <1>1, <1>3, <1>5, <3>1, <3>2, <3>3
  <2> QED
    BY <1>1, <1>3, <1>7, <2>1, <2>2
<1>9. pos'[attempt'] \in 0..Len(log)' /\ Len(heard') = Time(pos[attempt])'
  <2>1. pos'[attempt'] = p + 1 /\ p + 1 \in Int /\ p + 1 \in 0..Len(log)
    BY <1>1, <1>3, <1>4
  <2>2. Time(pos[attempt])' = c.start + c.duration
    BY <1>5, <2>1
  <2> QED
    BY <1>1, <1>4, <1>5, <1>7, <2>1, <2>2
<1>10. loop' = "streaming" /\ offset' = 0
  BY <1>1, <1>4 DEF HeardInv
<1> QED
  BY <1>8, <1>9, <1>10 DEF HeardInv

\* A step that leaves the stream and its feeder's place alone.
LEMMA OtherwiseHeard ==
    ASSUME SessionTypes, TimeInv, HeardInv, [Next]_vars,
           UNCHANGED <<heard, said, offset, attempt, loop, pos>>
    PROVE  HeardInv'
<1>1. loop = "streaming" => pos[attempt] \in 0..Len(log)' /\ Len(heard) = Time(pos[attempt])'
  <2> SUFFICES ASSUME loop = "streaming" PROVE pos[attempt] \in 0..Len(log)' /\ Len(heard) = Time(pos[attempt])'
    OBVIOUS
  <2>1. pos[attempt] \in 0..Len(log) /\ Len(heard) = Time(pos[attempt])
    BY DEF HeardInv
  <2>2. \A p \in 0..Len(log) : Time(p)' = Time(p)
    BY TimeStep
  <2>3. pos'[attempt'] = pos[attempt]
    OBVIOUS
  <2>4. Time(pos[attempt])' = Time(pos[attempt])
    BY <2>1, <2>2, <2>3
  <2> QED
    BY <2>1, <2>4, TimeStep
<1>2. loop = "returned" => closed' /\ Len(heard) = clock'
  BY TimeStep DEF HeardInv
<1> QED
  BY <1>1, <1>2 DEF HeardInv

LEMMA HeardStep ==
    SessionTypes /\ SessionTypes' /\ TimeInv /\ FitsTheRing /\ Drained /\ HeardInv /\ [Next]_vars
        => HeardInv'
<1> SUFFICES ASSUME SessionTypes, SessionTypes', TimeInv, FitsTheRing, Drained, HeardInv, [Next]_vars
             PROVE  HeardInv'
  OBVIOUS
<1>0. /\ TypeOK /\ heard \in Seq(Nat) /\ Len(<<>>) = 0
      /\ attempt \in 0..N /\ N \in Nat /\ pos \in [Attempts -> Nat]
  BY SessionAssumption DEF SessionTypes, TypeOK, Ring!TypeOK
<1>1. CASE NextAttempt
  <2>1. /\ ResumeIdx = 0 /\ ResumeTime = 0
    BY NothingIsTrimmed
  <2>2. attempt + 1 \in Attempts
    BY <1>0, <1>1 DEF NextAttempt, Attempts
  <2>3. /\ loop' = "connecting" /\ offset' = 0 /\ attempt' = attempt + 1
        /\ pos' = [pos EXCEPT ![attempt + 1] = 0]
        /\ heard' = <<>> /\ said' = 0
    BY <1>1, <2>1 DEF NextAttempt, Ring!PlaceAt, streamPart, HeardInv
  <2>4. pos'[attempt'] = 0
    BY <1>0, <2>2, <2>3
  <2> QED
    BY <1>0, <2>3, <2>4 DEF HeardInv
<1>2. CASE Exhausted \/ SwitchFrameFails
  <2>1. loop' \in {"ProviderStreamError", "SessionClosed"} /\ UNCHANGED heard
    BY <1>2 DEF Exhausted, SwitchFrameFails, streamPart
  <2> QED
    BY <2>1 DEF HeardInv
<1>3. CASE ConnectFails
  <2>1. loop' = "next" /\ UNCHANGED <<heard, said>> /\ loop = "connecting"
    BY <1>3 DEF ConnectFails, streamPart
  <2> QED
    BY <2>1 DEF HeardInv
<1>4. CASE Connected
  <2>1. loop' = "streaming" /\ UNCHANGED <<heard, offset, attempt, pos, log, clock>> /\ loop = "connecting"
    BY <1>4 DEF Connected, Ring!Iterate, Ring!ringVars, streamPart
  <2>2. heard = <<>> /\ offset = 0 /\ pos[attempt] = 0 /\ Len(heard) = 0
    BY <1>0, <2>1 DEF HeardInv
  <2>3. Time(pos[attempt])' = 0 /\ pos'[attempt'] = 0
    <3>1. Time(0)' = 0
      BY TimeStep DEF TimeInv
    <3> QED
      BY <2>1, <2>2, <3>1
  <2>4. Len(log)' \in Nat
    BY TimeStep
  <2> QED
    BY <2>1, <2>2, <2>3, <2>4 DEF HeardInv
<1>5. CASE FeedChunk
  BY <1>5, FedChunkHeard
<1>6. CASE FeedFails
  BY <1>0, <1>6, EndedStreamHeard DEF FeedFails
<1>7. CASE StreamFails
  BY <1>0, <1>7, EndedStreamHeard DEF StreamFails
<1>8. CASE StreamReturns
  <2>1. loop = "streaming" /\ attempt \in Attempts /\ pc[attempt] = "drained"
    BY <1>8 DEF StreamReturns, Streaming, SessionTypes, AtWork
  <2>2. closed /\ pos[attempt] = Len(log) /\ Len(log) \in Nat
    BY <2>1, NothingIsTrimmed DEF Drained
  <2>3. Len(heard) = clock
    BY <2>1, <2>2 DEF HeardInv, Time
  <2> QED
    BY <1>0, <1>8, <2>2, <2>3, EndedStreamHeard DEF StreamReturns
<1>9. ASSUME NEW frame, NEW upto, DrainSends(frame, upto), loop = "streaming", UNCHANGED <<attempt, offset>>
      PROVE  HeardInv'
  <2>1. CASE EndStream("SessionClosed")
    BY <1>0, <2>1, EndedStreamHeard
  <2>2. CASE UNCHANGED <<ringPart, loop, heard>>
    <3>1. UNCHANGED <<log, clock, pos, attempt, offset, loop, heard>>
      BY <1>9, <2>2 DEF ringPart
    <3> QED
      BY <1>9, <3>1 DEF HeardInv, Time
  <2> QED
    BY <1>9, <2>1, <2>2 DEF DrainSends
<1>10. CASE DrainFinal
  <2>1. UNCHANGED <<attempt, offset>> /\ loop = "streaming"
    BY <1>10 DEF DrainFinal, Streaming
  <2>2. \/ UNCHANGED <<ringPart, loop, heard>>
        \/ \E frame, upto : DrainSends(frame, upto)
    BY <1>10 DEF DrainFinal
  <2>3. CASE UNCHANGED <<ringPart, loop, heard>>
    <3>1. UNCHANGED <<log, clock, pos, attempt, offset, loop, heard>>
      BY <2>1, <2>3 DEF ringPart
    <3> QED
      BY <2>1, <3>1 DEF HeardInv, Time
  <2> QED
    BY <1>9, <2>1, <2>2, <2>3
<1>11. CASE DrainUtteranceEnd
  <2>1. UNCHANGED <<attempt, offset>> /\ loop = "streaming"
        /\ \E frame, upto : DrainSends(frame, upto)
    BY <1>11 DEF DrainUtteranceEnd, Streaming
  <2> QED
    BY <1>9, <2>1
<1>12. CASE UNCHANGED <<heard, said, offset, attempt, loop, pos>>
  BY <1>12, OtherwiseHeard
<1>13. CASE FeedWaits \/ FeedFinishes \/ StreamEnds \/ LinkDrops
  BY <1>12, <1>13 DEF FeedWaits, FeedFinishes, StreamEnds, LinkDrops, Ring!Wait, Ring!Drain,
     streamPart, loopPart, ringPart
<1>14. CASE Reader \/ ClientLeaves \/ (\E limit \in Trips : WatchdogTrips(limit))
  BY <1>12, <1>14 DEF Reader, ReadAudio, ReadFinalize, ReadDisconnect, ClientLeaves, WatchdogTrips,
     Ring!AppendChunk, Ring!Close, streamPart, loopPart, ringPart
<1>15. CASE Open \/ OpenFails \/ Decide \/ Cancelled \/ Teardown \/ Killed \/ UNCHANGED vars
  BY <1>12, <1>15 DEF Open, OpenFails, Decide, DecideByProvider, DecideByOther, Cancelled, Teardown,
     Killed, vars, streamPart, loopPart, ringPart
<1> QED
  BY <1>1, <1>2, <1>3, <1>4, <1>5, <1>6, <1>7, <1>8, <1>10, <1>11, <1>13, <1>14, <1>15
     DEF Next, ProviderLoop, Feeder, DrainTask

\* While the client is there: every second before the horizon of the gate and
\* every second the provider has covered has reached it, the suppressed too.
SaidInv ==
    client = "here" =>
        0..(lastFinalEnd - 1) \subseteq Delivered /\ 0..(said - 1) \subseteq Delivered
        /\ dropped \subseteq Delivered

\* What one more frame adds to what was delivered and labelled.
LEMMA DeliveredByAppending ==
    ASSUME out \in Seq(Frame), NEW frame, out' = Append(out, frame)
    PROVE  /\ Delivered' = Delivered \cup (IF frame.type = "final" THEN frame.of ELSE {})
           /\ LabelsAreTrue /\ (frame.type = "final" /\ frame.end # NoTime =>
                                   frame.of = frame.start..(frame.end - 1)) => LabelsAreTrue'
<1>1. /\ Len(out) \in Nat
      /\ \A i \in 1..Len(out) : out'[i] = out[i]
      /\ out'[Len(out) + 1] = frame
  BY AppendedFrames
<1>2. Frames("final")' = Frames("final") \cup (IF frame.type = "final" THEN {Len(out) + 1} ELSE {})
  BY AppendedFrames
<1>3. \A i \in Frames("final") : i \in 1..Len(out) /\ out'[i] = out[i]
  BY <1>1 DEF Frames
<1>4. Delivered' = Delivered \cup (IF frame.type = "final" THEN frame.of ELSE {})
  <2>1. Delivered' = UNION {out'[i].of : i \in Frames("final")'}
    BY DEF Delivered
  <2>2. CASE frame.type = "final"
    BY <1>1, <1>2, <1>3, <2>1, <2>2 DEF Delivered
  <2>3. CASE frame.type # "final"
    BY <1>1, <1>2, <1>3, <2>1, <2>3 DEF Delivered
  <2> QED
    BY <2>2, <2>3
<1>5. ASSUME LabelsAreTrue,
             frame.type = "final" /\ frame.end # NoTime => frame.of = frame.start..(frame.end - 1)
      PROVE  LabelsAreTrue'
  <2> SUFFICES ASSUME NEW i \in Frames("final")', out'[i].end # NoTime
               PROVE  out'[i].of = out'[i].start..(out'[i].end - 1)
    BY DEF LabelsAreTrue, TimedFinals
  <2>1. CASE i \in Frames("final")
    BY <1>3, <1>5, <2>1 DEF LabelsAreTrue, TimedFinals
  <2>2. CASE frame.type = "final" /\ i = Len(out) + 1
    BY <1>1, <1>5, <2>2
  <2> QED
    BY <1>2, <2>1, <2>2
<1> QED
  BY <1>4, <1>5

\* Only the drain's final transcripts move the gate or hand out finals.
LEMMA OthersSayNoFinal ==
    ASSUME [Next]_vars
    PROVE  \/ DrainFinal
           \/ /\ UNCHANGED <<lastFinalEnd, dropped>>
              /\ said' = said \/ said' = 0
              /\ client' = client \/ client' = "gone"
              /\ \/ UNCHANGED out
                 \/ \E frame : frame.type # "final" /\ out' = Append(out, frame)
<1>1. ASSUME NEW frame, Send(frame), frame.type # "final"
      PROVE  UNCHANGED out \/ \E f : f.type # "final" /\ out' = Append(out, f)
  BY <1>1 DEF Send
<1>2. CASE DrainUtteranceEnd
  <2>1. /\ UNCHANGED <<lastFinalEnd, dropped, client>>
        /\ \E a : DrainSends([type |-> "utterance_end", at |-> a], said)
    BY <1>2 DEF DrainUtteranceEnd, clientPart
  <2>2. PICK a : DrainSends([type |-> "utterance_end", at |-> a], said)
    BY <2>1
  <2>3. CASE Send([type |-> "utterance_end", at |-> a]) /\ said' = said
    BY <1>1, <2>1, <2>3
  <2>4. CASE EndStream("SessionClosed") /\ UNCHANGED out
    BY <2>1, <2>4 DEF EndStream
  <2> QED
    BY <2>2, <2>3, <2>4 DEF DrainSends
<1>3. CASE Connected
  <2>1. UNCHANGED <<lastFinalEnd, dropped, said, client>> /\ (Send(SwitchFrame) \/ UNCHANGED out)
    BY <1>3 DEF Connected, gatePart, streamPart, clientPart
  <2>2. SwitchFrame.type # "final"
    BY DEF SwitchFrame
  <2> QED
    BY <1>1, <2>1, <2>2
<1>4. CASE Open
  <2>1. UNCHANGED <<lastFinalEnd, dropped, said, client>> /\ Send([type |-> "session.open"])
    BY <1>4 DEF Open, gatePart, streamPart, clientPart
  <2> QED
    BY <1>1, <2>1
<1>5. CASE Decide
  <2>1. UNCHANGED <<lastFinalEnd, dropped, said, client>>
    BY <1>5 DEF Decide, DecideByProvider, DecideByOther, gatePart, streamPart, clientPart
  <2>2. \/ UNCHANGED out
        \/ \E c : Send(Error(c))
        \/ Send([type |-> "done", audio |-> clock])
    BY <1>5 DEF Decide, DecideByProvider, DecideByOther, Silently, Verdict
  <2>3. \A c : Error(c).type # "final"
    BY DEF Error
  <2> QED
    BY <1>1, <2>1, <2>2, <2>3
<1>6. CASE FeedFails \/ StreamFails \/ StreamReturns
  BY <1>6 DEF FeedFails, StreamFails, StreamReturns, EndStream, gatePart, clientPart
<1>7. CASE ClientLeaves \/ ReadAudio \/ ReadFinalize \/ ReadDisconnect \/ UNCHANGED vars
           \/ (\E limit \in Trips : WatchdogTrips(limit))
  BY <1>7 DEF ClientLeaves, ReadAudio, ReadFinalize, ReadDisconnect, WatchdogTrips, vars, gatePart,
     streamPart, clientPart
<1>8. CASE OpenFails \/ NextAttempt \/ Exhausted \/ ConnectFails \/ SwitchFrameFails \/ FeedChunk
           \/ FeedWaits \/ FeedFinishes
  BY <1>8 DEF OpenFails, NextAttempt, Exhausted, ConnectFails, SwitchFrameFails, FeedChunk, FeedWaits,
     FeedFinishes, gatePart, streamPart, clientPart
<1>9. CASE StreamEnds \/ LinkDrops \/ Cancelled \/ Teardown \/ Killed
  BY <1>9 DEF StreamEnds, LinkDrops, Cancelled, Silently, Teardown, Killed, gatePart, streamPart,
     clientPart
<1> QED
  BY <1>2, <1>3, <1>4, <1>5, <1>6, <1>7, <1>8, <1>9 DEF Next, ProviderLoop, Feeder, DrainTask, Reader

\* What the drain does with a final transcript.
FinalOf(e) == [type |-> "final", of |-> {heard[i] : i \in (said + 1)..e},
               start |-> IF attempt \in Timed THEN offset + said ELSE NoTime,
               end |-> IF attempt \in Timed THEN offset + e ELSE NoTime]

LEMMA FinalSteps ==
    ASSUME DrainFinal
    PROVE  /\ loop = "streaming" /\ UNCHANGED client
           /\ \E e \in (said + 1)..Len(heard) :
                 \/ /\ offset + e <= lastFinalEnd /\ said' = e
                    /\ UNCHANGED <<lastFinalEnd, out>>
                    /\ dropped' = dropped \cup {heard[i] : i \in (said + 1)..e}
                 \/ /\ lastFinalEnd' = IF attempt \in Timed THEN offset + e ELSE lastFinalEnd
                    /\ UNCHANGED dropped
                    /\ DrainSends(FinalOf(e), e)
<1>1. loop = "streaming" /\ UNCHANGED client
  BY DEF DrainFinal, Streaming, clientPart
<1>2. PICK e \in (said + 1)..Len(heard) :
          LET of == {heard[i] : i \in (said + 1)..e}
              timed == attempt \in Timed
              start == offset + said
              end == offset + e
          IN  \/ /\ timed /\ AlreadyFinal(start, end)
                 /\ said' = e
                 /\ dropped' = dropped \cup of
                 /\ UNCHANGED <<ringPart, loop, upstreams, drain, flushed, link, heard,
                                out, lastFinalEnd>>
              \/ /\ ~(timed /\ AlreadyFinal(start, end))
                 /\ lastFinalEnd' = IF timed THEN end ELSE lastFinalEnd
                 /\ DrainSends([type |-> "final", of |-> of,
                                start |-> IF timed THEN start ELSE NoTime,
                                end |-> IF timed THEN end ELSE NoTime], e)
                 /\ UNCHANGED dropped
  BY DEF DrainFinal
<1>3. \/ /\ offset + e <= lastFinalEnd /\ said' = e
         /\ UNCHANGED <<lastFinalEnd, out>>
         /\ dropped' = dropped \cup {heard[i] : i \in (said + 1)..e}
      \/ /\ lastFinalEnd' = IF attempt \in Timed THEN offset + e ELSE lastFinalEnd
         /\ UNCHANGED dropped
         /\ DrainSends(FinalOf(e), e)
  BY <1>2 DEF AlreadyFinal, FinalOf
<1> QED
  BY <1>1, <1>3

LEMMA SaidStep ==
    SessionTypes /\ HeardInv /\ SaidInv /\ LabelsAreTrue /\ [Next]_vars
        => SaidInv' /\ LabelsAreTrue'
<1> SUFFICES ASSUME SessionTypes, HeardInv, SaidInv, LabelsAreTrue, [Next]_vars
             PROVE  SaidInv' /\ LabelsAreTrue'
  OBVIOUS
<1>1. /\ out \in Seq(Frame) /\ Len(heard) \in Nat /\ said \in 0..Len(heard)
      /\ lastFinalEnd \in Int /\ client \in {"here", "gone"}
  BY DEF SessionTypes, TypeOK, NoTime
<1>2. CASE UNCHANGED out
  <2>1. Delivered' = Delivered
    BY <1>2 DEF Delivered, Frames
  <2>2. LabelsAreTrue'
    BY <1>2 DEF LabelsAreTrue, TimedFinals, Frames
  <2>3. CASE /\ UNCHANGED <<lastFinalEnd, dropped>> /\ (said' = said \/ said' = 0)
             /\ (client' = client \/ client' = "gone")
    BY <1>1, <2>1, <2>2, <2>3 DEF SaidInv
  <2>4. CASE DrainFinal
    <3>1. UNCHANGED client
      BY <2>4 DEF DrainFinal, clientPart
    <3>2. CASE client = "gone"
      BY <2>2, <3>1, <3>2 DEF SaidInv
    <3>3. CASE client = "here"
      <4>1. PICK e \in (said + 1)..Len(heard) :
               \/ /\ offset + e <= lastFinalEnd /\ said' = e
                  /\ UNCHANGED <<lastFinalEnd, out>>
                  /\ dropped' = dropped \cup {heard[i] : i \in (said + 1)..e}
               \/ /\ lastFinalEnd' = IF attempt \in Timed THEN offset + e ELSE lastFinalEnd
                  /\ UNCHANGED dropped
                  /\ DrainSends(FinalOf(e), e)
        BY <2>4, FinalSteps
      <4>2. ~DrainSends(FinalOf(e), e)
        BY <1>1, <1>2, <3>3 DEF DrainSends, Send
      <4>3. offset = 0 /\ \A i \in 1..Len(heard) : heard[i] = i - 1
        BY <2>4 DEF DrainFinal, Streaming, HeardInv
      <4>4. e <= lastFinalEnd /\ said' = e /\ UNCHANGED lastFinalEnd
            /\ dropped' = dropped \cup {heard[i] : i \in (said + 1)..e} /\ e \in Int
        BY <1>1, <4>1, <4>2, <4>3
      <4>5. {heard[i] : i \in (said + 1)..e} \subseteq 0..(lastFinalEnd - 1)
        <5>1. ASSUME NEW i \in (said + 1)..e PROVE heard[i] \in 0..(lastFinalEnd - 1)
          BY <1>1, <4>1, <4>3, <4>4
        <5> QED
          BY <5>1
      <4>6. 0..(e - 1) \subseteq 0..(lastFinalEnd - 1)
        BY <1>1, <4>4
      <4> QED
        BY <2>1, <2>2, <3>1, <4>4, <4>5, <4>6 DEF SaidInv
    <3> QED
      BY <1>1, <3>2, <3>3
  <2> QED
    BY <1>2, <2>3, <2>4, OthersSayNoFinal
<1>3. ASSUME NEW frame, frame.type # "final", out' = Append(out, frame),
             UNCHANGED <<lastFinalEnd, dropped>>, said' = said \/ said' = 0,
             client' = client \/ client' = "gone"
      PROVE  SaidInv' /\ LabelsAreTrue'
  <2>1. Delivered' = Delivered /\ LabelsAreTrue'
    BY <1>1, <1>3, DeliveredByAppending
  <2> QED
    BY <1>1, <1>3, <2>1 DEF SaidInv
<1>4. CASE DrainFinal /\ out' # out
  <2>1. PICK e \in (said + 1)..Len(heard) :
           /\ lastFinalEnd' = IF attempt \in Timed THEN offset + e ELSE lastFinalEnd
           /\ UNCHANGED <<dropped, client>>
           /\ DrainSends(FinalOf(e), e)
    BY <1>4, FinalSteps
  <2> DEFINE frame == FinalOf(e)
  <2>2. client = "here" /\ out' = Append(out, frame) /\ said' = e
    BY <1>4, <2>1 DEF DrainSends, Send
  <2>3. offset = 0 /\ \A i \in 1..Len(heard) : heard[i] = i - 1
    BY <1>4 DEF DrainFinal, Streaming, HeardInv
  <2>4. {heard[i] : i \in (said + 1)..e} = said..(e - 1)
    <3>1. \A i \in (said + 1)..e : heard[i] = i - 1 /\ heard[i] \in said..(e - 1)
      BY <1>1, <2>3
    <3>2. \A k \in said..(e - 1) : k + 1 \in (said + 1)..e /\ heard[k + 1] = k
      BY <1>1, <2>3
    <3> QED
      BY <3>1, <3>2
  <2>5. /\ frame.type = "final" /\ frame.of = said..(e - 1)
        /\ attempt \in Timed => frame.start = said /\ frame.end = e
        /\ attempt \notin Timed => frame.end = NoTime
    BY <1>1, <2>3, <2>4 DEF FinalOf
  <2>6. e \in Nat /\ said \in Nat /\ said < e /\ NoTime # e
    BY <1>1 DEF NoTime
  <2> HIDE DEF frame
  <2>7. Delivered' = Delivered \cup (said..(e - 1))
    BY <1>1, <2>2, <2>5, DeliveredByAppending
  <2>8. LabelsAreTrue'
    <3>1. frame.type = "final" /\ frame.end # NoTime => frame.of = frame.start..(frame.end - 1)
      BY <2>5
    <3> QED
      BY <1>1, <2>2, <3>1, DeliveredByAppending
  <2>9. 0..(e - 1) \subseteq Delivered'
    <3>1. 0..(e - 1) = (0..(said - 1)) \cup (said..(e - 1))
      BY <2>6
    <3> QED
      BY <2>2, <2>7, <3>1 DEF SaidInv
  <2>10. lastFinalEnd' = e \/ lastFinalEnd' = lastFinalEnd
    <3>1. lastFinalEnd' = IF attempt \in Timed THEN 0 + e ELSE lastFinalEnd
      BY <2>1, <2>3
    <3> QED
      BY <2>6, <3>1
  <2>11. 0..(lastFinalEnd' - 1) \subseteq Delivered' /\ dropped' \subseteq Delivered'
    <3>1. 0..(lastFinalEnd - 1) \subseteq Delivered /\ dropped \subseteq Delivered
      BY <2>2 DEF SaidInv
    <3> QED
      BY <2>1, <2>7, <2>9, <2>10, <3>1
  <2> QED
    BY <2>2, <2>8, <2>9, <2>11 DEF SaidInv
<1> QED
  BY <1>2, <1>3, <1>4, OthersSayNoFinal

\* The invariant of the sessions the ring holds.  The clock only grows, so a
\* session that fits the ring now has fitted it all along.
WholeInv == FitsTheRing => HeardInv /\ SaidInv /\ LabelsAreTrue

LEMMA WholeStep ==
    SessionTypes /\ SessionTypes' /\ Drained /\ TimeInv /\ WholeInv /\ [Next]_vars
        => TimeInv' /\ WholeInv'
<1> SUFFICES ASSUME SessionTypes, SessionTypes', Drained, TimeInv, WholeInv, [Next]_vars
             PROVE  TimeInv' /\ WholeInv'
  OBVIOUS
<1>1. TimeInv' /\ clock \in Nat /\ clock' \in Nat /\ clock <= clock'
  BY TimeStep
<1>2. FitsTheRing' => FitsTheRing
  BY <1>1, SessionAssumption DEF FitsTheRing
<1>3. FitsTheRing => HeardInv' /\ SaidInv' /\ LabelsAreTrue'
  BY HeardStep, SaidStep DEF WholeInv
<1> QED
  BY <1>1, <1>2, <1>3 DEF WholeInv

LEMMA WholeHolds == Spec => [](TimeInv /\ WholeInv)
<1>1. Init => TimeInv /\ WholeInv
  <2> SUFFICES ASSUME Init PROVE TimeInv /\ WholeInv
    OBVIOUS
  <2>1. /\ log = <<>> /\ clock = 0 /\ heard = <<>> /\ said = 0 /\ loop = "next"
        /\ out = <<>> /\ dropped = {} /\ lastFinalEnd = -1
    BY DEF Init, Ring!Init, NoTime
  <2>2. Len(log) = 0 /\ Len(heard) = 0 /\ Len(out) = 0
    BY <2>1
  <2>3. TimeInv
    BY <2>1, <2>2 DEF TimeInv, Time
  <2>4. HeardInv
    BY <2>1, <2>2 DEF HeardInv
  <2>5. SaidInv
    BY <2>1 DEF SaidInv
  <2>6. LabelsAreTrue
    BY <2>2 DEF LabelsAreTrue, TimedFinals, Frames
  <2> QED
    BY <2>3, <2>4, <2>5, <2>6 DEF WholeInv
<1>2. Spec => []Drained
  BY DrainedMeansClosed DEF Drained
<1> QED
  BY <1>1, <1>2, WholeStep, InitTypes, NextKeepsTypes, PTL DEF Spec

\* A timed final labels the seconds it is about, through every failover and
\* replay, in any session whose audio the ring still holds.
THEOREM LabelsOfAWholeSessionAreTrue == Spec => [](FitsTheRing => LabelsAreTrue)
<1>1. WholeInv => (FitsTheRing => LabelsAreTrue)
  BY DEF WholeInv
<1> QED
  BY <1>1, WholeHolds, PTL

\* What the dedup gate suppresses has reached a client that is still there, in
\* any session whose audio the ring still holds.
THEOREM WhatIsSuppressedWasDelivered == Spec => [](FitsTheRing => SuppressedWasDelivered)
<1>1. WholeInv => (FitsTheRing => SuppressedWasDelivered)
  BY DEF WholeInv, SaidInv, SuppressedWasDelivered
<1> QED
  BY <1>1, WholeHolds, PTL

\* A client that is told done has been heard to its last second by the one
\* provider that finished, in any session whose audio the ring still holds.
THEOREM DoneMeansTheWholeSessionWasHeard == Spec => [](FitsTheRing => DoneMeansAllHeard)
<1>1. SessionTypes /\ ContractInv /\ WholeInv => (FitsTheRing => DoneMeansAllHeard)
  <2> SUFFICES ASSUME SessionTypes, ContractInv, HeardInv, Frames("done") # {}
               PROVE  0..(clock - 1) \subseteq {heard[i] : i \in 1..Len(heard)}
    BY DEF WholeInv, DoneMeansAllHeard
  <2>1. clock \in Nat
    BY DEF SessionTypes, TypeOK, Ring!TypeOK
  <2>2. Len(heard) = clock /\ \A i \in 1..Len(heard) : heard[i] = i - 1
    BY DEF ContractInv, VerdictInv, HeardInv
  <2>3. ASSUME NEW t \in 0..(clock - 1) PROVE t + 1 \in 1..Len(heard) /\ heard[t + 1] = t
    BY <2>1, <2>2
  <2> QED
    BY <2>3
<1> QED
  BY <1>1, WholeHolds, ContractHolds, InitTypes, NextKeepsTypes, PTL DEF Spec

===============================================================================
