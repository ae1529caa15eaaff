--------------------------- MODULE LiveSessionProofs ---------------------------
(***************************************************************************)
(* What TLAPS proves about LiveSession, for any number of frames,          *)
(* checkpoints and any balance: its usage events add up to the session.    *)
(***************************************************************************)
EXTENDS LiveSession, TLAPS

(* The types in full.                                                      *)
LiveTypes ==
  /\ TypeOK
  /\ dialect \in {"openai", "gemini"} /\ byok \in BOOLEAN
  /\ client \in {"here", "ok", "gone"} /\ upstream \in {"none", "open", "ok", "lost"}
  /\ setupSeen \in BOOLEAN /\ transcribes \in BOOLEAN /\ switched \in BOOLEAN /\ reported \in BOOLEAN
  /\ totals \in [Counts -> Nat] /\ emitted \in [Counts -> Nat] /\ written \in [Counts -> Nat]
  /\ event \in [Emissions -> [Counts -> Nat]] /\ writing \subseteq Emissions
  /\ seq \in Nat /\ setups \in Nat /\ debited \in Nat /\ ups \in Nat /\ downs \in Nat
  /\ balance \in Int /\ seen \in Int

(* What was never reported or transcribed counts for nothing.              *)
MeterInv ==
  /\ ~reported => totals["units"] = 0
  /\ ~transcribes /\ ~switched => totals["transcribed"] = 0

(* At most one checkpoint is being written, and then the watchdog waits for *)
(* it or has been cancelled; the final event once, when the tasks are gone. *)
WritingInv ==
  /\ \A e \in Emissions \ writing : event[e] = Nothing
  /\ "checkpoint" \in writing => dog \in {"emitting", "cancelled"}
  /\ "final" \in writing <=> phase = "writing"
  /\ phase \in {"final", "writing", "over"} => {up, down, dog} = {"cancelled"}

BilledInv == AudioIsBilledOnce /\ TokensAreBilledOnce /\ TranscriptionIsBilledOnce

(* The cloud debits what is written, so no reading of the balance is behind *)
(* what has been emitted.                                                   *)
BalanceInv ==
  /\ debited <= written["units"] /\ balance = Credit - debited
  /\ dog = "checking" => seen >= Credit - emitted["units"]

(* A pump that says the client went is right, and so the end of a session   *)
(* whose client is there was decided by the vendor or a limit.              *)
VerdictInv ==
  /\ {up, down} \cap ClientEnds # {} => client # "here"
  /\ phase = "rejecting" => status # "completed" /\ close = "error"
  /\ phase \in {"closing", "final", "writing", "over"} /\ client = "here" =>
       (status = "completed" <=> close = "ok")

(* The vendor has had its setup when the session runs, and a frame in the   *)
(* hands of _pump_up() is not another.                                      *)
Opening == Checks \cup {"slot", "dial"}

ModelInv ==
  /\ OneModel
  /\ up = "sending" => taking = "audio"
  /\ phase \in Opening => setups = 0 /\ upstream = "none"
  /\ Running /\ dialect = "gemini" => setupSeen

LiveInv ==
  LiveTypes /\ MeterInv /\ WritingInv /\ BilledInv /\ BalanceInv /\ VerdictInv /\ ModelInv

----------------------------------------------------------------------------
USE DEF sessionVars, taskVars, meterVars, billVars, worldVars

LEMMA ChecksAre ==
  /\ Checks = {"credentials", "blocked", "model", "resolve", "balance"}
  /\ \A check \in Checks : Later[check] \in (Checks \ {"credentials"}) \cup {"slot"}
BY DEF Checks, Later

(* The meter only counts up, and only while the session runs.               *)
LEMMA MeterMoves ==
  ASSUME LiveTypes,
         \/ MeterClientAudio \/ \E kind \in ServerFrames : MeterServer(kind)
  PROVE  totals' \in [Counts -> Nat] /\ \A c \in Counts : totals[c] <= totals'[c]
<1>1. totals \in [Counts -> Nat]
  BY DEF LiveTypes
<1>2. CASE MeterClientAudio
  BY <1>1, <1>2 DEF MeterClientAudio, Counts
<1>3. ASSUME NEW kind \in ServerFrames, MeterServer(kind)
      PROVE  totals' \in [Counts -> Nat] /\ \A c \in Counts : totals[c] <= totals'[c]
  <2>1. CASE kind \in {"audio", "usage"}
    <3>1. PICK c \in Counts : Plus(c)
      BY <1>3, <2>1 DEF MeterServer, Counts
    <3> QED
      BY <1>1, <3>1 DEF Plus
  <2>2. CASE kind \in {"transcription", "no transcription"}
    <3>1. UNCHANGED totals
      BY <1>3, <2>2 DEF MeterServer, Transcribing
    <3> QED
      BY <1>1, <3>1
  <2> QED
    BY <2>1, <2>2 DEF ServerFrames
<1> QED
  BY <1>2, <1>3

(* What _emit() takes for an event.                                         *)
LEMMA DeltaIs ==
  ASSUME LiveTypes, NEW final \in BOOLEAN
  PROVE  /\ Delta(final) \in [Counts -> Nat]
         /\ \A c \in {"in", "out"} : Delta(final)[c] = totals[c] - emitted[c]
         /\ Delta(final)["units"] =
              IF Estimates(final) THEN Estimate ELSE totals["units"] - emitted["units"]
         /\ Delta(final)["transcribed"] =
              IF transcribes THEN totals["transcribed"] - emitted["transcribed"] ELSE 0
<1>1. /\ totals \in [Counts -> Nat] /\ emitted \in [Counts -> Nat]
      /\ \A c \in Counts : emitted[c] <= totals[c]
  BY DEF LiveTypes, TypeOK
<1>2. Minus(totals, emitted) \in [Counts -> Nat]
      /\ \A c \in Counts : Minus(totals, emitted)[c] = totals[c] - emitted[c]
  BY <1>1 DEF Minus
<1>3. Estimate \in Nat
  BY <1>1 DEF Estimate, Counts
<1> QED
  BY <1>2, <1>3 DEF Delta, Counts

LEMMA EmitTypes ==
  ASSUME LiveTypes, NEW which \in Emissions, Emit(which)
  PROVE  /\ event' \in [Emissions -> [Counts -> Nat]] /\ writing' \subseteq Emissions
         /\ emitted' \in [Counts -> Nat] /\ seq' \in Nat
<1>1. Delta(which = "final") \in [Counts -> Nat]
  BY DeltaIs
<1> QED
  BY <1>1 DEF LiveTypes, Emit, Advance

LEMMA TypesStep == LiveTypes /\ [Next]_vars => LiveTypes'
<1> SUFFICES ASSUME LiveTypes, [Next]_vars PROVE LiveTypes'
  OBVIOUS
<1> USE ChecksAre DEF LiveTypes, TypeOK, Phases
<1>1. CASE Passes
  BY <1>1 DEF Passes, Running, Ends, ClientEnds, UpstreamEnds, LimitEnds
<1>2. CASE TakesSlot
  BY <1>2 DEF TakesSlot, Running, Ends, ClientEnds, UpstreamEnds, LimitEnds
<1>3. CASE Refused
  BY <1>3 DEF Refused, Running, Ends, ClientEnds, UpstreamEnds, LimitEnds
<1>4. CASE DialFails
  BY <1>4 DEF DialFails, Running, Ends, ClientEnds, UpstreamEnds, LimitEnds
<1>5. CASE Dials
  <2>1. setups' = setups + 1 \/ setups' = setups
    BY <1>5 DEF Dials
  <2>2. setups' \in Nat
    BY <2>1
  <2>3. setupSeen' \in BOOLEAN
    BY <1>5 DEF Dials, FirstSetup
  <2> QED
    BY <1>5, <2>2, <2>3 DEF Dials
<1>6. CASE FirstFrameFails
  BY <1>6 DEF FirstFrameFails, UpstreamClosed, Running, Ends, ClientEnds, UpstreamEnds, LimitEnds
<1>7. CASE Decide
  BY <1>7 DEF Decide, Finished, Ends, ClientEnds, UpstreamEnds, LimitEnds, UpstreamClosed, Running, Ends, ClientEnds, UpstreamEnds, LimitEnds
<1>8. CASE Rejects
  BY <1>8 DEF Rejects, Running, Ends, ClientEnds, UpstreamEnds, LimitEnds
<1>9. CASE Closes
  BY <1>9 DEF Closes
<1>10. CASE EmitFinal
  BY <1>10, EmitTypes DEF EmitFinal, Emit, Advance, Emissions
<1>11. CASE UpReceives
  <2>1. totals' \in [Counts -> Nat] /\ \A c \in Counts : totals[c] <= totals'[c]
    BY <1>11, MeterMoves DEF UpReceives
  <2>2. \A c \in Counts : emitted[c] \in 0 .. totals'[c]
    BY <2>1
  <2>3. up' \in {"recv", "sending", "invalid"} /\ setupSeen' \in BOOLEAN
    BY <1>11 DEF UpReceives
  <2> QED
    BY <1>11, <2>1, <2>2, <2>3 DEF UpReceives, Running, Ends, LimitEnds
<1>12. CASE UpSends
  <2>1. up' \in {"recv", "upstream_ok", "upstream_lost"} /\ setups' \in Nat
    BY <1>12 DEF UpSends
  <2> QED
    BY <1>12, <2>1 DEF UpSends, Ends, UpstreamEnds
<1>13. CASE UpGone
  BY <1>13 DEF UpGone, Running, Ends, ClientEnds, UpstreamEnds, LimitEnds
<1>14. CASE DownReceives
  <2>1. totals' \in [Counts -> Nat] /\ \A c \in Counts : totals[c] <= totals'[c]
    BY <1>14, MeterMoves DEF DownReceives
  <2>2. \A c \in Counts : emitted[c] \in 0 .. totals'[c]
    BY <2>1
  <2>3. transcribes' \in BOOLEAN /\ switched' \in BOOLEAN /\ reported' \in BOOLEAN
    BY <1>14 DEF DownReceives, MeterServer, ServerFrames, Transcribing
  <2> QED
    BY <1>14, <2>1, <2>2, <2>3 DEF DownReceives, Running
<1>15. CASE DownSends
  BY <1>15 DEF DownSends, Running, Ends, ClientEnds, UpstreamEnds, LimitEnds
<1>16. CASE DownClosed
  BY <1>16 DEF DownClosed, Running, Ends, ClientEnds, UpstreamEnds, LimitEnds
<1>17. CASE Checkpoint
  BY <1>17, EmitTypes DEF Checkpoint, Emit, Advance, Emissions, Running
<1>18. CASE ReadBalance
  BY <1>18 DEF ReadBalance, Running, Ends, ClientEnds, UpstreamEnds, LimitEnds
<1>19. CASE Compare
  BY <1>19 DEF Compare, Running, Ends, ClientEnds, UpstreamEnds, LimitEnds
<1>20. CASE Expires
  BY <1>20 DEF Expires, Running, Ends, ClientEnds, UpstreamEnds, LimitEnds
<1>21. CASE Writes
  <2>1. PICK e \in writing :
          /\ event' = [event EXCEPT ![e] = Nothing]
          /\ written' = [c \in Counts |-> written[c] + event[e][c]]
          /\ writing' = writing \ {e}
    BY <1>21 DEF Writes
  <2>2. Nothing \in [Counts -> Nat]
    BY DEF Nothing
  <2>3. written' \in [Counts -> Nat] /\ event' \in [Emissions -> [Counts -> Nat]]
    BY <2>1, <2>2
  <2>4. /\ dog' \in {dog, "sleep"}
        /\ \/ phase' = "over" /\ ~holding'
           \/ UNCHANGED <<phase, holding>>
    BY <1>21 DEF Writes, FreesSlot
  <2> QED
    BY <1>21, <2>1, <2>3, <2>4 DEF Writes
<1>22. CASE ClientLeaves
  BY <1>22 DEF ClientLeaves, Running, Ends, ClientEnds, UpstreamEnds, LimitEnds
<1>23. CASE VendorCloses
  BY <1>23 DEF VendorCloses, Running, Ends, ClientEnds, UpstreamEnds, LimitEnds
<1>24. CASE CloudDebits
  BY <1>24 DEF CloudDebits, Counts
<1>25. CASE UNCHANGED vars
  BY <1>25 DEF vars
<1> QED
  BY <1>1, <1>2, <1>3, <1>4, <1>5, <1>6, <1>7, <1>8, <1>9, <1>10, <1>11, <1>12, <1>13, <1>14, <1>15, <1>16, <1>17, <1>18, <1>19, <1>20, <1>21, <1>22, <1>23, <1>24, <1>25 DEF Next, Admission, Run, Pumps, Dog, World

----------------------------------------------------------------------------
(* What each action leaves alone: the meter is moved by the pumps while the *)
(* session runs, the bill by _emit() and the writing of events.             *)
BillMoves == Checkpoint \/ EmitFinal \/ Writes

LEMMA OthersLeaveTheBill ==
  ASSUME [Next]_vars
  PROVE  BillMoves \/ UNCHANGED billVars
BY DEF BillMoves, vars, Next, Admission, Run, Pumps, Dog, World, Passes, TakesSlot, Refused, DialFails, Dials, FirstFrameFails, Decide, Rejects, Closes, UpReceives, UpSends, UpGone, DownReceives, DownSends, DownClosed, ReadBalance, Compare, Expires, ClientLeaves, VendorCloses, CloudDebits

LEMMA OthersLeaveTheMeter ==
  ASSUME [Next]_vars
  PROVE  UpReceives \/ DownReceives \/ UNCHANGED <<transcribes, switched, totals, reported>>
BY DEF vars, Next, Admission, Run, Pumps, Dog, World, Passes, TakesSlot, Refused, DialFails, Dials, FirstFrameFails, Decide, Rejects, Closes, EmitFinal, UpSends, UpGone, DownSends, DownClosed, Checkpoint, ReadBalance, Compare, Expires, Writes, ClientLeaves, VendorCloses, CloudDebits

LEMMA MeterStep == LiveTypes /\ MeterInv /\ [Next]_vars => MeterInv'
<1> SUFFICES ASSUME LiveTypes, MeterInv, [Next]_vars PROVE MeterInv'
  OBVIOUS
<1>0. totals \in [Counts -> Nat] /\ transcribes \in BOOLEAN /\ switched \in BOOLEAN
  BY DEF LiveTypes
<1>1. CASE UpReceives
  <2>1. MeterClientAudio \/ UNCHANGED totals
    BY <1>1 DEF UpReceives
  <2>2. UNCHANGED <<transcribes, switched, reported>>
    BY <1>1 DEF UpReceives
  <2> QED
    BY <1>0, <2>1, <2>2 DEF MeterClientAudio, MeterInv, Counts
<1>2. CASE DownReceives
  <2>1. PICK kind \in ServerFrames : MeterServer(kind)
    BY <1>2 DEF DownReceives
  <2>2. CASE kind = "audio"
    BY <1>0, <2>1, <2>2 DEF MeterServer, Plus, MeterInv, Counts
  <2>3. CASE kind = "usage"
    BY <1>0, <2>1, <2>3 DEF MeterServer, Plus, MeterInv, Counts
  <2>4. CASE kind \in {"transcription", "no transcription"}
    BY <1>0, <2>1, <2>4 DEF MeterServer, Transcribing, MeterInv
  <2> QED
    BY <2>2, <2>3, <2>4 DEF ServerFrames
<1>3. CASE UNCHANGED <<transcribes, switched, totals, reported>>
  BY <1>3 DEF MeterInv
<1> QED
  BY <1>1, <1>2, <1>3, OthersLeaveTheMeter

(* How the phase moves: nothing but _emit() and the end of the writing      *)
(* leaves the finally of run().                                            *)
Finishing == {"final", "writing", "over"}

LEMMA PhaseMoves ==
  ASSUME [Next]_vars
  PROVE  \/ BillMoves \/ Closes \/ UNCHANGED phase
         \/ phase \notin Finishing /\ phase' \notin Finishing /\ UNCHANGED <<up, down, dog>>
<1>1. CASE Passes \/ TakesSlot \/ Refused
  BY <1>1, ChecksAre DEF Passes, TakesSlot, Refused, Finishing
<1>2. CASE Decide
  <2>1. phase = "run" /\ phase' \in {"closing", "rejecting"}
    BY <1>2 DEF Decide, Finished, Ends, ClientEnds, UpstreamEnds, LimitEnds
  <2> QED
    BY <1>2, <2>1 DEF Decide, Finishing
<1>3. CASE DialFails \/ Dials \/ FirstFrameFails \/ Rejects
  BY <1>3 DEF DialFails, Dials, FirstFrameFails, Rejects, Finishing
<1> QED
  BY <1>1, <1>2, <1>3 DEF BillMoves, vars, Next, Admission, Run, Pumps, Dog, World,
     UpReceives, UpSends, UpGone, DownReceives, DownSends, DownClosed, ReadBalance, Compare,
     Expires, ClientLeaves, VendorCloses, CloudDebits

(* Of the tasks, only the watchdog's own actions move it, but for the end   *)
(* of a write and of the session.                                           *)
LEMMA DogMoves ==
  ASSUME [Next]_vars
  PROVE  Closes \/ Dog \/ Writes \/ UNCHANGED dog
BY DEF vars, Next, Admission, Run, Pumps, Dog, World, Passes, TakesSlot, Refused, DialFails, Dials, FirstFrameFails, Decide, Rejects, EmitFinal, UpReceives, UpSends, UpGone, DownReceives, DownSends, DownClosed, ClientLeaves, VendorCloses, CloudDebits

LEMMA PumpsMove ==
  ASSUME [Next]_vars
  PROVE  Closes \/ Running \/ UNCHANGED <<up, down>>
BY DEF vars, Next, Admission, Run, Pumps, Dog, World, Passes, TakesSlot, Refused, DialFails, Dials, FirstFrameFails, Decide, Rejects, EmitFinal, UpReceives, UpSends, UpGone, DownReceives, DownSends, DownClosed, Checkpoint, ReadBalance, Compare, Expires, Writes, ClientLeaves, VendorCloses, CloudDebits

LEMMA WritingStep == LiveTypes /\ WritingInv /\ [Next]_vars => WritingInv'
<1> SUFFICES ASSUME LiveTypes, WritingInv, [Next]_vars PROVE WritingInv'
  OBVIOUS
<1>0. event \in [Emissions -> [Counts -> Nat]] /\ writing \subseteq Emissions
  BY DEF LiveTypes
<1>1. CASE Checkpoint
  <2>1. /\ writing' = writing \cup {"checkpoint"} /\ dog' = "emitting" /\ UNCHANGED <<phase, up, down>>
        /\ event' = [event EXCEPT !["checkpoint"] = Delta(FALSE)] /\ Running
    BY <1>1 DEF Checkpoint, Emit
  <2> QED
    BY <1>0, <2>1 DEF WritingInv, Running, Emissions
<1>2. CASE EmitFinal
  <2>1. /\ writing' = writing \cup {"final"} /\ UNCHANGED <<dog, up, down>>
        /\ event' = [event EXCEPT !["final"] = Delta(TRUE)] /\ phase = "final" /\ phase' = "writing"
    BY <1>2 DEF EmitFinal, Emit
  <2> QED
    BY <1>0, <2>1 DEF WritingInv, Emissions
<1>3. CASE Writes
  <2>1. PICK e \in writing :
          /\ writing' = writing \ {e} /\ event' = [event EXCEPT ![e] = Nothing]
          /\ dog' = IF e = "checkpoint" /\ dog = "emitting" /\ Running THEN "sleep" ELSE dog
          /\ IF e = "final" THEN phase' = "over" ELSE UNCHANGED phase
          /\ UNCHANGED <<up, down>>
    BY <1>3 DEF Writes
  <2>2. \A f \in Emissions \ writing' : event'[f] = Nothing
    BY <1>0, <2>1 DEF WritingInv
  <2> QED
    BY <1>0, <2>1, <2>2 DEF WritingInv, Running, Emissions
<1>4. CASE Closes
  BY <1>4 DEF Closes, WritingInv
<1>5. CASE ReadBalance \/ Compare \/ Expires
  BY <1>5 DEF ReadBalance, Compare, Expires, Running, WritingInv
<1>6. CASE UNCHANGED billVars /\ UNCHANGED dog /\ ~Closes
  <2>1. writing' = writing /\ event' = event
    BY <1>6
  <2>2. CASE Running /\ UNCHANGED phase
    BY <1>6, <2>1, <2>2 DEF WritingInv, Running
  <2>3. CASE UNCHANGED <<phase, up, down>>
    BY <1>6, <2>1, <2>3 DEF WritingInv
  <2>4. CASE phase \notin Finishing /\ phase' \notin Finishing
    BY <1>6, <2>1, <2>4 DEF WritingInv, Finishing
  <2>5. CASE BillMoves
    BY <1>1, <1>2, <1>3, <2>5 DEF BillMoves
  <2> QED
    BY <1>6, <2>2, <2>3, <2>4, <2>5, PhaseMoves, PumpsMove
<1> QED
  BY <1>1, <1>2, <1>3, <1>4, <1>5, <1>6, DogMoves, OthersLeaveTheBill DEF BillMoves, Dog

----------------------------------------------------------------------------
(* What a pump counts while the session runs does not touch the bill.       *)
LEMMA BilledStep == LiveInv /\ [Next]_vars => BilledInv'
<1> SUFFICES ASSUME LiveInv, [Next]_vars PROVE BilledInv'
  OBVIOUS
<1> DEFINE B(c) == Billed(c)
<1>0. /\ totals \in [Counts -> Nat] /\ emitted \in [Counts -> Nat] /\ written \in [Counts -> Nat]
      /\ event \in [Emissions -> [Counts -> Nat]] /\ writing \subseteq Emissions
      /\ transcribes \in BOOLEAN /\ switched \in BOOLEAN /\ reported \in BOOLEAN
      /\ \A c \in Counts : emitted[c] <= totals[c]
  BY DEF LiveInv, LiveTypes, TypeOK
<1>1. ASSUME NEW which \in Emissions, Emit(which), which \notin writing, ~Ended,
             which = "final" <=> Ended', UNCHANGED <<transcribes, switched, totals, reported>>
      PROVE  BilledInv'
  <2>1. event[which] = Nothing
    BY <1>1 DEF LiveInv, WritingInv
  <2>2. /\ emitted' = totals /\ written' = written
        /\ event' = [event EXCEPT ![which] = Delta(which = "final")]
    BY <1>1 DEF Emit, Advance
  <2>0. /\ Delta(which = "final") \in [Counts -> Nat]
        /\ \A c \in {"in", "out"} : Delta(which = "final")[c] = totals[c] - emitted[c]
        /\ Delta(which = "final")["units"] =
             IF Estimates(which = "final") THEN Estimate ELSE totals["units"] - emitted["units"]
        /\ Delta(which = "final")["transcribed"] =
             IF transcribes THEN totals["transcribed"] - emitted["transcribed"] ELSE 0
    BY DeltaIs DEF LiveInv
  <2>3. \A c \in Counts : /\ Billed(c)' = Billed(c) + Delta(which = "final")[c]
                          /\ Billed(c) \in Nat
    <3>1. \A c \in Counts : event[which][c] = 0
      BY <2>1 DEF Nothing
    <3> QED
      BY <1>0, <2>2, <2>0, <3>1 DEF Billed, Emissions
  <2>4. /\ \A c \in {"in", "out", "units"} : Billed(c) = emitted[c]
        /\ ~switched => Billed("transcribed") = emitted["transcribed"]
    BY <1>1 DEF LiveInv, BilledInv, AudioIsBilledOnce, TokensAreBilledOnce,
       TranscriptionIsBilledOnce
  <2>5. AudioIsBilledOnce'
    BY <1>0, <1>1, <2>2, <2>3, <2>4, <2>0 DEF AudioIsBilledOnce, Counts
  <2>6. TokensAreBilledOnce'
    <3>1. Estimate' = Estimate /\ Estimate \in Nat
      BY <1>0, <1>1 DEF Estimate, Counts
    <3>2. ~reported => totals["units"] = 0 /\ emitted["units"] = 0
      BY <1>0 DEF LiveInv, MeterInv, Counts
    <3>3. Billed("units")' =
            IF Estimates(which = "final") THEN Estimate ELSE totals["units"]
      BY <1>0, <2>3, <2>4, <3>2, <2>0 DEF Counts, Estimates
    <3> QED
      BY <1>0, <1>1, <2>2, <3>1, <3>2, <3>3 DEF TokensAreBilledOnce, Estimates, Counts
  <2>7. TranscriptionIsBilledOnce'
    <3>1. ~switched /\ ~transcribes => totals["transcribed"] = 0 /\ emitted["transcribed"] = 0
      BY <1>0 DEF LiveInv, MeterInv, Counts
    <3> QED
      BY <1>0, <1>1, <2>2, <2>3, <2>4, <3>1, <2>0 DEF TranscriptionIsBilledOnce, Counts
  <2> QED
    BY <2>5, <2>6, <2>7 DEF BilledInv
<1>2. CASE Checkpoint
  <2>1. "checkpoint" \notin writing /\ ~Ended /\ ~Ended'
    BY <1>2 DEF Checkpoint, LiveInv, WritingInv, Running, Ended
  <2> QED
    BY <1>1, <1>2, <2>1 DEF Checkpoint, Emissions
<1>3. CASE EmitFinal
  <2>1. "final" \notin writing /\ ~Ended /\ Ended'
    BY <1>3 DEF EmitFinal, LiveInv, WritingInv, Ended
  <2> QED
    BY <1>1, <1>3, <2>1 DEF EmitFinal, Emissions
<1>4. CASE Writes
  <2>1. PICK e \in writing :
          /\ event' = [event EXCEPT ![e] = Nothing]
          /\ written' = [c \in Counts |-> written[c] + event[e][c]]
          /\ IF e = "final" THEN phase' = "over" ELSE UNCHANGED phase
    BY <1>4 DEF Writes
  <2>2. \A c \in Counts : Billed(c)' = Billed(c)
    BY <1>0, <2>1 DEF Billed, Nothing, Emissions
  <2>3. Ended' <=> Ended
    BY <2>1 DEF Ended, LiveInv, WritingInv
  <2>4. UNCHANGED <<emitted, transcribes, switched, totals, reported>>
    BY <1>4 DEF Writes
  <2> QED
    BY <2>2, <2>3, <2>4 DEF LiveInv, BilledInv, AudioIsBilledOnce, TokensAreBilledOnce,
       TranscriptionIsBilledOnce, Estimate, Counts
<1>5. CASE UNCHANGED billVars /\ (UpReceives \/ DownReceives)
  <2>1. ~Ended /\ ~Ended'
    BY <1>5 DEF UpReceives, DownReceives, Running, Ended
  <2>2. switched => switched'
    BY <1>5 DEF UpReceives, DownReceives, MeterServer, ServerFrames, Transcribing
  <2> QED
    BY <1>5, <2>1, <2>2 DEF LiveInv, BilledInv, AudioIsBilledOnce, TokensAreBilledOnce,
       TranscriptionIsBilledOnce, Billed
<1>6. CASE UNCHANGED <<billVars, transcribes, switched, totals, reported>> /\ (Ended' <=> Ended)
  BY <1>6 DEF LiveInv, BilledInv, AudioIsBilledOnce, TokensAreBilledOnce,
     TranscriptionIsBilledOnce, Billed, Estimate
<1>7. BillMoves \/ (Ended' <=> Ended)
  <2>1. CASE Closes
    BY <2>1 DEF Closes, Ended
  <2> QED
    BY <2>1, PhaseMoves DEF Ended, Finishing
<1> QED
  BY <1>2, <1>3, <1>4, <1>5, <1>6, <1>7, OthersLeaveTheBill, OthersLeaveTheMeter DEF BillMoves

----------------------------------------------------------------------------
(* While the session runs the events written are not ahead of those         *)
(* emitted: what the cloud has taken is within them.                        *)
LEMMA WrittenWasEmitted ==
  ASSUME LiveTypes, BilledInv, ~Ended
  PROVE  written["units"] <= emitted["units"]
<1>1. Billed("units") = emitted["units"]
  BY DEF BilledInv, TokensAreBilledOnce
<1> QED
  BY <1>1 DEF Billed, LiveTypes, Emissions, Counts

LEMMA OthersLeaveTheBalance ==
  ASSUME [Next]_vars
  PROVE  ReadBalance \/ Compare \/ CloudDebits \/ Closes \/ UNCHANGED <<balance, debited, seen>>
BY DEF vars, Next, Admission, Run, Pumps, Dog, World, Passes, TakesSlot, Refused, DialFails, Dials, FirstFrameFails, Decide, Rejects, EmitFinal, UpReceives, UpSends, UpGone, DownReceives, DownSends, DownClosed, Checkpoint, Expires, Writes, ClientLeaves, VendorCloses

LEMMA BalanceStep == LiveInv /\ [Next]_vars => BalanceInv'
<1> SUFFICES ASSUME LiveInv, [Next]_vars PROVE BalanceInv'
  OBVIOUS
<1>0. /\ totals \in [Counts -> Nat] /\ emitted \in [Counts -> Nat] /\ written \in [Counts -> Nat]
      /\ event \in [Emissions -> [Counts -> Nat]] /\ writing \subseteq Emissions
      /\ debited \in Nat /\ balance \in Int /\ seen \in Int /\ Credit \in Nat /\ "units" \in Counts
  BY LiveAssumption DEF LiveInv, LiveTypes, Counts
<1>1. CASE ReadBalance
  <2>1. ~Ended
    BY <1>1 DEF ReadBalance, Running, Ended
  <2>2. written["units"] <= emitted["units"]
    BY <2>1, WrittenWasEmitted DEF LiveInv
  <2> QED
    BY <1>0, <1>1, <2>2 DEF ReadBalance, LiveInv, BalanceInv
<1>2. CASE Compare
  BY <1>0, <1>2 DEF Compare, LiveInv, BalanceInv
<1>3. CASE CloudDebits
  BY <1>0, <1>3 DEF CloudDebits, LiveInv, BalanceInv
<1>4. CASE Closes
  BY <1>0, <1>4 DEF Closes, LiveInv, BalanceInv
<1>5. CASE Checkpoint
  BY <1>0, <1>5 DEF Checkpoint, Emit, LiveInv, BalanceInv
<1>6. CASE EmitFinal
  <2>1. dog' = "cancelled"
    BY <1>6 DEF EmitFinal, LiveInv, WritingInv
  <2> QED
    BY <1>0, <1>6, <2>1 DEF EmitFinal, Emit, LiveInv, BalanceInv
<1>7. CASE Writes
  <2>1. PICK e \in writing :
          /\ written' = [c \in Counts |-> written[c] + event[e][c]]
          /\ dog' \in {dog, "sleep"} /\ UNCHANGED <<emitted, debited, balance, seen>>
    BY <1>7 DEF Writes
  <2>2. written["units"] <= written'["units"]
    BY <1>0, <2>1
  <2>3. written'["units"] \in Nat
    BY <1>0, <2>1
  <2> QED
    BY <1>0, <2>1, <2>2, <2>3 DEF LiveInv, BalanceInv
<1>8. CASE UNCHANGED <<billVars, balance, debited, seen>> /\ (dog' # "checking" \/ dog' = dog)
  BY <1>8 DEF LiveInv, BalanceInv
<1>9. CASE Expires
  BY <1>8, <1>9 DEF Expires
<1> QED
  BY <1>1, <1>2, <1>3, <1>4, <1>5, <1>6, <1>7, <1>8, <1>9, OthersLeaveTheBalance,
     OthersLeaveTheBill, DogMoves DEF BillMoves, Dog

----------------------------------------------------------------------------
LEMMA OthersLeaveTheVerdict ==
  ASSUME [Next]_vars
  PROVE  \/ Refused \/ DialFails \/ FirstFrameFails \/ Decide \/ UNCHANGED <<status, close>>
BY DEF vars, Next, Admission, Run, Pumps, Dog, World, Passes, TakesSlot, Dials, Rejects, Closes, EmitFinal, UpReceives, UpSends, UpGone, DownReceives, DownSends, DownClosed, Checkpoint, ReadBalance, Compare, Expires, Writes, ClientLeaves, VendorCloses, CloudDebits

(* A client that has gone does not come back.                               *)
LEMMA ClientStays ==
  ASSUME [Next]_vars
  PROVE  client' = "here" => client = "here"
BY DEF vars, Next, Admission, Run, Pumps, Dog, World, Passes, TakesSlot, Refused, DialFails, Dials, FirstFrameFails, Decide, Rejects, Closes, EmitFinal, UpReceives, UpSends, UpGone, DownReceives, DownSends, DownClosed, Checkpoint, ReadBalance, Compare, Expires, Writes, ClientLeaves, VendorCloses, CloudDebits

LEMMA PumpsAreRight ==
  ASSUME LiveTypes, VerdictInv, [Next]_vars
  PROVE  {up', down'} \cap ClientEnds # {} => client' # "here"
<1>1. CASE UNCHANGED <<up, down>>
  BY <1>1, ClientStays DEF VerdictInv
<1>2. CASE Closes
  BY <1>2 DEF Closes, ClientEnds
<1>3. CASE UpReceives
  BY <1>3 DEF UpReceives, VerdictInv, ClientEnds
<1>4. CASE UpSends
  BY <1>4 DEF UpSends, VerdictInv, ClientEnds
<1>5. CASE UpGone
  BY <1>5 DEF UpGone
<1>6. CASE DownReceives \/ DownClosed
  BY <1>6 DEF DownReceives, DownClosed, VerdictInv, ClientEnds
<1>7. CASE DownSends
  BY <1>7 DEF DownSends, VerdictInv, ClientEnds
<1> QED
  BY <1>1, <1>2, <1>3, <1>4, <1>5, <1>6, <1>7 DEF vars, Next, Admission, Run, Pumps, Dog, World,
     Passes, TakesSlot, Refused, DialFails, Dials, FirstFrameFails, Decide, Rejects, EmitFinal, Checkpoint, ReadBalance, Compare, Expires, Writes, ClientLeaves, VendorCloses, CloudDebits

LEMMA VerdictStep == LiveTypes /\ WritingInv /\ VerdictInv /\ [Next]_vars => VerdictInv'
<1> SUFFICES ASSUME LiveTypes, WritingInv, VerdictInv, [Next]_vars PROVE VerdictInv'
  OBVIOUS
<1> DEFINE Told == /\ phase = "rejecting" => status # "completed" /\ close = "error"
                   /\ phase \in {"closing"} \cup Finishing /\ client = "here" =>
                        (status = "completed" <=> close = "ok")
<1>0. Told
  BY DEF VerdictInv, Finishing
<1> SUFFICES Told'
  BY PumpsAreRight DEF VerdictInv, Finishing
<1>1. ASSUME UpstreamClosed("ok") \/ UpstreamClosed("lost") PROVE status' = "completed" <=> close' = "ok"
  BY <1>1 DEF UpstreamClosed
<1>2. CASE Decide
  <2>1. CASE phase' = "closing" /\ \E how \in UpstreamEnds : UpstreamClosed(IF how = "upstream_ok" THEN "ok" ELSE "lost")
    BY <1>1, <2>1 DEF Finishing
  <2>2. CASE /\ phase' = "closing" /\ client' = client
             /\ {up, down, dog} \cap ClientEnds # {}
    <3>1. dog \notin ClientEnds
      BY DEF LiveTypes, TypeOK, ClientEnds, LimitEnds
    <3> QED
      BY <2>2, <3>1 DEF VerdictInv
  <2>3. CASE phase' = "rejecting" /\ status' # "completed" /\ close' = "error"
    BY <2>3 DEF Finishing
  <2>4. PICK how \in Finished :
          \/ how \in ClientEnds /\ phase' = "closing"
          \/ how \in UpstreamEnds /\ phase' = "closing"
               /\ UpstreamClosed(IF how = "upstream_ok" THEN "ok" ELSE "lost")
          \/ how \in LimitEnds /\ phase' = "rejecting" /\ close' = "error"
               /\ status' = (IF how = "invalid" THEN "error" ELSE how)
    BY <1>2 DEF Decide, Finished, Ends, ClientEnds, UpstreamEnds, LimitEnds
  <2>5. how \in LimitEnds => (IF how = "invalid" THEN "error" ELSE how) # "completed"
    BY DEF LimitEnds
  <2>6. client' = client
    BY <1>2 DEF Decide
  <2> QED
    BY <2>1, <2>2, <2>3, <2>4, <2>5, <2>6 DEF Finished
<1>3. CASE DialFails
  BY <1>3 DEF DialFails, Finishing
<1>4. CASE FirstFrameFails
  BY <1>1, <1>4 DEF FirstFrameFails, Finishing
<1>5. CASE Refused
  BY <1>5 DEF Refused, Finishing
<1>6. CASE UNCHANGED <<status, close>>
  <2>1. CASE Rejects
    BY <1>0, <2>1 DEF Rejects, Finishing
  <2>2. CASE Closes \/ EmitFinal
    BY <1>0, <2>2 DEF Closes, EmitFinal, Finishing
  <2>3. CASE Writes
    <3>1. UNCHANGED phase \/ (phase = "writing" /\ phase' = "over")
      BY <2>3 DEF Writes, LiveTypes, Emissions, WritingInv
    <3> QED
      BY <1>0, <1>6, <3>1, ClientStays DEF Finishing
  <2>4. CASE UNCHANGED phase
    BY <1>0, <1>6, <2>4, ClientStays
  <2>5. CASE phase' \notin {"rejecting", "closing"} \cup Finishing
    BY <2>5 DEF Finishing
  <2>6. ASSUME Passes \/ TakesSlot PROVE phase' \notin {"rejecting", "closing"} \cup Finishing
    BY <2>6, ChecksAre DEF Passes, TakesSlot, Finishing
  <2>7. ASSUME Dials PROVE phase' \notin {"rejecting", "closing"} \cup Finishing
    BY <2>7 DEF Dials, Finishing
  <2> QED
    BY <1>2, <1>3, <1>4, <1>5, <2>1, <2>2, <2>3, <2>4, <2>5, <2>6, <2>7 DEF vars, Next, Admission,
       Run, Pumps, Dog, World, UpReceives, UpSends, UpGone, DownReceives, DownSends, DownClosed,
       Checkpoint, ReadBalance, Compare, Expires, ClientLeaves, VendorCloses, CloudDebits
<1> QED
  BY <1>2, <1>3, <1>4, <1>5, <1>6, OthersLeaveTheVerdict

----------------------------------------------------------------------------
LEMMA OthersLeaveTheModel ==
  ASSUME [Next]_vars
  PROVE  \/ Dials \/ FirstFrameFails \/ Closes \/ UpReceives \/ UpSends
         \/ /\ UNCHANGED <<setups, setupSeen, taking, dialect>>
            /\ up' = "sending" => up = "sending"
BY DEF vars, Next, Admission, Run, Pumps, Dog, World, Passes, TakesSlot, Refused, DialFails, Decide, Rejects, EmitFinal, UpGone, DownReceives, DownSends, DownClosed, Checkpoint, ReadBalance, Compare, Expires, Writes, ClientLeaves, VendorCloses, CloudDebits

(* No session comes to run but by _dial(), and none goes back to it.       *)
LEMMA OnlyDialsStart ==
  ASSUME LiveTypes, WritingInv, ModelInv, [Next]_vars
  PROVE  /\ Running' => Running \/ Dials
         /\ phase' \in Opening => phase \in Opening /\ UNCHANGED upstream
<1>0. Opening = {"credentials", "blocked", "model", "resolve", "balance", "slot", "dial"}
  BY ChecksAre DEF Opening
<1>1. CASE Passes \/ TakesSlot \/ Refused
  <2>1. phase' \in Opening \cup {"refused"} /\ phase \in Opening /\ UNCHANGED upstream
    BY <1>1, ChecksAre DEF Passes, TakesSlot, Refused, Opening
  <2> QED
    BY <1>0, <2>1 DEF Running
<1>2. CASE Decide
  <2>1. phase = "run" /\ phase' \in {"closing", "rejecting"} /\ UNCHANGED upstream
    BY <1>2 DEF Decide, Finished, Ends, ClientEnds, UpstreamEnds, LimitEnds
  <2> QED
    BY <1>0, <2>1 DEF Running
<1>3. CASE DialFails
  BY <1>0, <1>3 DEF DialFails, ModelInv, Running
<1>4. CASE Dials
  BY <1>0, <1>4 DEF Dials
<1>5. CASE Closes \/ EmitFinal \/ FirstFrameFails \/ Rejects
  BY <1>0, <1>5 DEF Closes, EmitFinal, FirstFrameFails, Rejects, Running
<1>6. CASE Writes
  <2>1. (UNCHANGED phase \/ phase' = "over") /\ UNCHANGED upstream
    BY <1>6 DEF Writes
  <2> QED
    BY <1>0, <2>1 DEF Running
<1>7. CASE UNCHANGED phase /\ (UNCHANGED upstream \/ Running)
  BY <1>0, <1>7 DEF Running
<1> QED
  BY <1>1, <1>2, <1>3, <1>4, <1>5, <1>6, <1>7 DEF vars, Next, Admission, Run, Pumps, Dog, World,
     UpReceives, UpSends, UpGone, DownReceives, DownSends, DownClosed, Checkpoint, ReadBalance,
     Compare, Expires, ClientLeaves, VendorCloses, CloudDebits

LEMMA ModelStep == LiveTypes /\ WritingInv /\ ModelInv /\ [Next]_vars => ModelInv'
<1> SUFFICES ASSUME LiveTypes, WritingInv, ModelInv, [Next]_vars PROVE ModelInv'
  OBVIOUS
<1>0. /\ setups \in Nat /\ dialect \in {"openai", "gemini"}
      /\ Opening = {"credentials", "blocked", "model", "resolve", "balance", "slot", "dial"}
  BY ChecksAre DEF LiveTypes, Opening
<1>1. CASE Dials
  <2>1. /\ phase = "dial" /\ phase' = "run" /\ UNCHANGED <<dialect, up, taking>>
        /\ dialect = "gemini" => setups' = setups + 1 /\ setupSeen'
        /\ dialect # "gemini" => UNCHANGED setups
    BY <1>1 DEF Dials, FirstSetup
  <2> QED
    BY <1>0, <2>1 DEF ModelInv, OneModel
<1>2. CASE FirstFrameFails
  BY <1>0, <1>2 DEF FirstFrameFails, ModelInv, OneModel, Running
<1>3. CASE Closes
  BY <1>0, <1>3 DEF Closes, ModelInv, OneModel, Running
<1>4. CASE UpReceives
  <2>1. PICK kind \in ClientFrames :
          /\ setupSeen' = (setupSeen \/ kind = "setup")
          /\ IF ~Forbidden(kind) THEN up' = "sending" /\ taking' = kind
             ELSE up' \in {"recv", "invalid"} /\ UNCHANGED taking
    BY <1>4 DEF UpReceives
  <2>2. ~Forbidden(kind) => kind = "audio"
    BY <1>0, <1>4 DEF ModelInv, UpReceives, Forbidden, ClientFrames
  <2> QED
    BY <1>0, <1>4, <2>1, <2>2 DEF UpReceives, ModelInv, OneModel, Running
<1>5. CASE UpSends
  <2>1. UNCHANGED setups
    BY <1>0, <1>5 DEF UpSends, ModelInv
  <2>2. up' # "sending"
    BY <1>5 DEF UpSends
  <2> QED
    BY <1>0, <1>5, <2>1, <2>2 DEF UpSends, ModelInv, OneModel, Running
<1>6. CASE /\ ~Dials /\ UNCHANGED <<setups, setupSeen, taking, dialect>>
           /\ up' = "sending" => up = "sending"
  BY <1>6, OnlyDialsStart DEF ModelInv, OneModel
<1> QED
  BY <1>1, <1>2, <1>3, <1>4, <1>5, <1>6, OthersLeaveTheModel

----------------------------------------------------------------------------
LEMMA LiveInvHolds == Spec => []LiveInv
<1>1. Init => LiveInv
  <2> SUFFICES ASSUME Init PROVE LiveInv
    OBVIOUS
  <2>0. Nothing \in [Counts -> Nat] /\ \A c \in Counts : Nothing[c] = 0
    BY DEF Nothing
  <2>1. LiveTypes
    <3>1. dialect \in {"openai", "gemini"} /\ Credit \in Nat
      BY LiveAssumption DEF Init
    <3>2. TypeOK
      BY <2>0, <3>1, ChecksAre DEF Init, TypeOK, Phases
    <3>3. event \in [Emissions -> [Counts -> Nat]] /\ writing \subseteq Emissions
      BY <2>0 DEF Init
    <3>4. /\ byok \in BOOLEAN /\ setupSeen \in BOOLEAN /\ transcribes \in BOOLEAN
          /\ switched \in BOOLEAN /\ reported \in BOOLEAN
      BY DEF Init
    <3>5. /\ seq \in Nat /\ setups \in Nat /\ debited \in Nat /\ ups \in Nat /\ downs \in Nat
          /\ balance \in Int /\ seen \in Int
      BY <3>1 DEF Init
    <3>6. /\ totals \in [Counts -> Nat] /\ emitted \in [Counts -> Nat] /\ written \in [Counts -> Nat]
          /\ client \in {"here", "ok", "gone"} /\ upstream \in {"none", "open", "ok", "lost"}
      BY <2>0 DEF Init
    <3> QED
      BY <3>1, <3>2, <3>3, <3>4, <3>5, <3>6 DEF LiveTypes
  <2>2. MeterInv /\ WritingInv
    BY <2>0, ChecksAre DEF Init, MeterInv, WritingInv, Counts
  <2>3. BilledInv
    <3>1. \A c \in Counts : Billed(c) = 0 /\ emitted[c] = 0
      BY <2>0 DEF Init, Billed, Emissions
    <3> QED
      BY <2>0, <3>1 DEF Init, BilledInv, AudioIsBilledOnce, TokensAreBilledOnce,
         TranscriptionIsBilledOnce, Ended, Counts
  <2>4. BalanceInv
    BY <2>0, LiveAssumption DEF Init, BalanceInv, Counts
  <2>5. VerdictInv
    BY DEF Init, VerdictInv, ClientEnds
  <2>6. ModelInv
    BY DEF Init, ModelInv, OneModel, Running
  <2> QED
    BY <2>1, <2>2, <2>3, <2>4, <2>5, <2>6 DEF LiveInv
<1>2. LiveInv /\ [Next]_vars => LiveInv'
  <2> SUFFICES ASSUME LiveInv, [Next]_vars PROVE LiveInv'
    OBVIOUS
  <2>1. LiveTypes' /\ MeterInv' /\ WritingInv'
    BY TypesStep, MeterStep, WritingStep DEF LiveInv
  <2>2. BilledInv' /\ BalanceInv' /\ VerdictInv' /\ ModelInv'
    BY BilledStep, BalanceStep, VerdictStep, ModelStep DEF LiveInv
  <2> QED
    BY <2>1, <2>2 DEF LiveInv
<1> QED
  BY <1>1, <1>2, PTL DEF Spec

(* However checkpoints, the end of the session and the writing of events    *)
(* fall together: what is billed is what went by, the client is told the    *)
(* end that is recorded, and the vendor got one model (proxy.py:131-161,    *)
(* 327-335, 350-410).                                                       *)
THEOREM LiveBillAddsUp == Spec => []BillAddsUp
<1>1. LiveInv => BillAddsUp
  BY DEF LiveInv, LiveTypes, BillAddsUp, BilledInv, VerdictInv, VerdictIsTold, ModelInv
<1> QED
  BY <1>1, LiveInvHolds, PTL

(* accrued_usd() and _check_credits(): whatever the cloud has debited when  *)
(* the balance is read, and whatever is emitted afterwards, a session is    *)
(* cut for want of credit only when it has used up what it had.             *)
THEOREM OnlyTheExhaustedAreCut == Spec => CutsOnlyTheExhausted
<1>1. LiveInv /\ [Next]_vars => (dog' = "credits" /\ dog # "credits" => Credit <= Cost)
  <2> SUFFICES ASSUME LiveInv, [Next]_vars, dog' = "credits", dog # "credits"
               PROVE  Credit <= Cost
    OBVIOUS
  <2>1. Compare
    BY DogMoves DEF Dog, Closes, Checkpoint, ReadBalance, Expires, Writes
  <2>2. dog = "checking" /\ seen - Accrued <= 0
    BY <2>1 DEF Compare
  <2>3. /\ seen >= Credit - emitted["units"] /\ seen \in Int /\ Credit \in Nat
        /\ emitted["units"] \in Nat /\ totals["units"] \in Nat /\ Estimate \in Nat
        /\ emitted["units"] <= totals["units"]
    BY <2>2, LiveAssumption DEF LiveInv, LiveTypes, TypeOK, BalanceInv, Counts, Estimate
  <2>4. ~reported => totals["units"] = 0
    BY DEF LiveInv, MeterInv
  <2> QED
    BY <2>2, <2>3, <2>4 DEF Accrued, Cost
<1> QED
  BY <1>1, LiveInvHolds, PTL DEF Spec, CutsOnlyTheExhausted
============================================================================
