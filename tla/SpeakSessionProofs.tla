--------------------------- MODULE SpeakSessionProofs ---------------------------
(***************************************************************************)
(* What TLAPS proves about SpeakSession, for every amount of text, every   *)
(* prefetch, every number of barge-ins and every way jobs may end: types,  *)
(* bounded prefetch, one bill per dispatched segment, and audio in the     *)
(* order of the text; and, for sessions with at most two barge-ins, that   *)
(* no clear splits a chunk, lets discarded audio through or costs text.    *)
(***************************************************************************)
EXTENDS SpeakSession, SequenceTheorems, TLAPS

-----------------------------------------------------------------------------
(* The inductive invariants.                                               *)

\* Final is queued last, by a client that has finalized, and is not in the
\* queue while a clear that dropped it has yet to put it back.
QueueInv ==
    /\ \A i \in 1..Len(queue) : queue[i] = Final => i = Len(queue) /\ finalized
    /\ finalSeen \/ refinal => finalized
    /\ reader \in {"clearing", "said"} => \A i \in 1..Len(queue) : queue[i] # Final

\* A pair that is still awaited belongs to a session that runs, and has the
\* number that was given out last.
PairInv ==
    pair # NoPair => /\ pair.seq = seq
                     /\ pair.own => run \in {"running", "decided"}

SpeakInv == TypeOK /\ QueueInv /\ PairInv /\ BoundedPrefetch

\* Every segment that was dispatched is in exactly one of three lists, until
\* the usage event takes what the lists hold.
Balanced ==
    /\ Len(finished) + Len(jobs) + Len(dying) = Len(dispatched)
    /\ RangeOf(finished) \cup RangeOf(Segments(jobs)) \cup RangeOf(dying)
         = RangeOf(dispatched)

BillInv ==
    /\ Balanced
    /\ run = "opening" => jobs = <<>>
    /\ reader # "gathering" => dying = <<>>
    /\ usage # <<>> => run = "done" /\ jobs = <<>>
    /\ \A k \in 1..Len(usage) : usage[k].runs = finished

\* Text goes one way: from the segmenter, which has let go of the first c
\* deltas, into the queue q, the jobs js, and then into the past: the pair that
\* is being sent and the client's audio.
Before(a, b) == a.to < b.from
Follows(a, js, i) == Before(a, js[i].seg) \/ (i = 1 /\ a = js[1].seg)
Chain(js, q, c, past) ==
    /\ \A i, j \in 1..Len(js) : i < j => Before(js[i].seg, js[j].seg)
    /\ \A i \in 1..Len(js), k \in 1..Len(q) : q[k] # Final => Before(js[i].seg, q[k])
    /\ \A k, l \in 1..Len(q) : k < l /\ q[l] # Final => Before(q[k], q[l])
    /\ \A k \in 1..Len(q) : q[k].to <= c
    /\ \A i \in 1..Len(js) : js[i].seg.to <= c
    /\ \A a \in past :
          /\ a.to <= c
          /\ \A i \in 1..Len(js) : Follows(a, js, i)
          /\ \A k \in 1..Len(q) : q[k] # Final => Before(a, q[k])

Past == {out[f].seg : f \in Frames("audio")} \cup (IF pair = NoPair THEN {} ELSE {pair.seg})
ChainInv == Chain(jobs, queue, cut, Past)

\* What the client has heard is in order, and before the pair being sent.
HeardInv ==
    /\ AudioInTextOrder
    /\ \A f \in Frames("audio") :
          /\ out[f].seq <= seq
          /\ pair # NoPair =>
                /\ out[f].seq < pair.seq
                /\ out[f].seg = pair.seg \/ Before(out[f].seg, pair.seg)

-----------------------------------------------------------------------------
(* _top_up.                                                                *)

\* A dispatched segment is a job.
LEMMA DispatchedIsJob == \A seg \in Segment : Dispatch(seg) \in Job /\ Dispatch(seg).seg = seg
  BY SpeakAssumption DEF Dispatch, Job

LEMMA FinalIsNoSegment == Final \notin Segment
  BY DEF Final, Segment

\* What is left of the queue after the first n of its elements went to the jobs
\* (or all of it, with Final).
TopsUp(js, n) ==
    /\ n \in 0..Len(queue)
    /\ jobs' \in Seq(Job)
    /\ Len(jobs') = Len(js) + n /\ Len(jobs') <= PREFETCH + 1
    /\ \A i \in 1..Len(js) : jobs'[i] = js[i]
    /\ \A i \in 1..n : queue[i] \in Segment /\ jobs'[Len(js) + i].seg = queue[i]
    /\ dispatched' = dispatched \o SubSeq(queue, 1, n)
    /\ queue' \in Seq(Segment \cup {Final})
    /\ Len(queue') = 0 \/ Len(queue') = Len(queue) - n
    /\ \A k \in 1..Len(queue') : k + n \in 1..Len(queue) /\ queue'[k] = queue[k + n]
    /\ \A k \in 1..Len(queue) : k > n /\ queue[k] # Final => k - n \in 1..Len(queue')
    /\ finalSeen' \in BOOLEAN /\ (finalSeen' => finalized)
    /\ finalSeen' => finalSeen \/ queue' = <<>>

LEMMA TopUpEffect ==
    ASSUME SpeakInv, NEW js \in Seq(Job), Len(js) <= PREFETCH + 1, TopUp(js)
    PROVE  \E n \in Nat : TopsUp(js, n)
<1> DEFINE segs == Len(queue) - (IF IsFinal(queue) THEN 1 ELSE 0)
           room == IF finalSeen THEN 0 ELSE Room(js)
           n == IF room < segs THEN room ELSE segs
           final == n < room /\ IsFinal(queue)
           new == [i \in 1..n |-> Dispatch(queue[i])]
<1>1. /\ queue \in Seq(Segment \cup {Final}) /\ Len(queue) \in Nat /\ Len(js) \in Nat
      /\ PREFETCH \in Nat
  BY SpeakAssumption DEF SpeakInv, TypeOK
<1>2. IsFinal(queue) => Len(queue) >= 1 /\ queue[Len(queue)] = Final
  BY <1>1 DEF IsFinal
<1>3. /\ segs \in Nat /\ segs <= Len(queue)
      /\ segs < Len(queue) => IsFinal(queue) /\ segs = Len(queue) - 1
  BY <1>1, <1>2
<1>4. room \in Nat /\ room <= PREFETCH + 1 - Len(js)
  BY <1>1 DEF Room
<1>5. n \in Nat /\ n <= segs /\ n <= room
  BY <1>3, <1>4
<1>6. \A i \in 1..n : i \in 1..Len(queue) /\ queue[i] \in Segment
  <2> SUFFICES ASSUME NEW i \in 1..n PROVE i \in 1..Len(queue) /\ queue[i] \in Segment
    OBVIOUS
  <2>1. i \in 1..Len(queue)
    BY <1>1, <1>3, <1>5
  <2>2. CASE queue[i] = Final
    <3>1. i = Len(queue)
      BY <2>1, <2>2 DEF SpeakInv, QueueInv
    <3>2. IsFinal(queue)
      BY <2>1, <2>2, <3>1, <1>1 DEF IsFinal
    <3>3. segs = Len(queue) - 1
      BY <3>2
    <3> QED
      BY <1>1, <1>5, <3>1, <3>3
  <2> QED
    BY <1>1, <2>1, <2>2
<1>7. /\ jobs' = js \o new
      /\ dispatched' = dispatched \o SubSeq(queue, 1, n)
      /\ queue' = IF final THEN <<>> ELSE SubSeq(queue, n + 1, Len(queue))
      /\ finalSeen' = (finalSeen \/ final)
  BY DEF TopUp
<1> HIDE DEF segs, room, n, final
<1>8. new \in Seq(Job) /\ Len(new) = n /\ \A i \in 1..n : new[i] = Dispatch(queue[i])
  <2>1. \A i \in 1..n : Dispatch(queue[i]) \in Job
    BY <1>6, DispatchedIsJob
  <2> QED
    BY <1>5, <2>1
<1> HIDE DEF new
<1>9. /\ jobs' \in Seq(Job) /\ Len(jobs') = Len(js) + n
      /\ \A i \in 1..Len(js) : jobs'[i] = js[i]
      /\ \A i \in 1..n : jobs'[Len(js) + i] = new[i]
  <2>1. js \o new \in Seq(Job) /\ Len(js \o new) = Len(js) + n
    BY <1>5, <1>8, ConcatProperties
  <2>2. \A i \in 1..Len(js) + n :
            (js \o new)[i] = IF i <= Len(js) THEN js[i] ELSE new[i - Len(js)]
    BY <1>8, ConcatProperties
  <2>3. \A i \in 1..n : Len(js) + i \in 1..Len(js) + n /\ ~(Len(js) + i <= Len(js))
                        /\ (Len(js) + i) - Len(js) = i
    BY <1>1, <1>5
  <2>4. \A i \in 1..Len(js) : i \in 1..Len(js) + n /\ i <= Len(js)
    BY <1>1, <1>5
  <2> QED
    BY <1>7, <2>1, <2>2, <2>3, <2>4
<1>10. \A i \in 1..n : jobs'[Len(js) + i].seg = queue[i]
  BY <1>6, <1>8, <1>9, DispatchedIsJob
<1>11. /\ queue' \in Seq(Segment \cup {Final})
       /\ Len(queue') = 0 \/ Len(queue') = Len(queue) - n
       /\ \A k \in 1..Len(queue') : k + n \in 1..Len(queue) /\ queue'[k] = queue[k + n]
  <2>1. CASE final
    BY <1>7, <2>1
  <2>2. CASE ~final
    <3>1. queue' = SubSeq(queue, n + 1, Len(queue))
      BY <1>7, <2>2
    <3> QED
      BY <1>1, <1>3, <1>5, <3>1, SMTT(30), ZenonT(30)
  <2> QED
    BY <2>1, <2>2
<1>12. finalSeen' \in BOOLEAN /\ (finalSeen' => finalized)
  <2>1. final => finalized
    BY <1>1, <1>2 DEF final, SpeakInv, QueueInv
  <2> QED
    BY <1>7, <2>1 DEF SpeakInv, TypeOK, QueueInv, final
<1>13. n \in 0..Len(queue) /\ Len(jobs') <= PREFETCH + 1
  BY <1>1, <1>3, <1>4, <1>5, <1>9
<1>14. finalSeen' => finalSeen \/ queue' = <<>>
  BY <1>7
<1>15. ASSUME NEW k \in 1..Len(queue), k > n, queue[k] # Final
       PROVE  k - n \in 1..Len(queue')
  <2>1. CASE final
    <3>1. n = segs /\ Len(queue) - 1 = segs
      BY <1>1, <1>3, <1>4, <2>1 DEF final, n, segs
    <3>2. k = Len(queue)
      BY <1>1, <1>15, <3>1
    <3> QED
      BY <1>2, <1>15, <2>1, <3>2 DEF final
  <2>2. CASE ~final
    <3>1. Len(queue') = Len(queue) - n
      BY <1>1, <1>3, <1>5, <1>7, <2>2
    <3> QED
      BY <1>1, <1>5, <1>15, <3>1
  <2> QED
    BY <2>1, <2>2
<1>16. TopsUp(js, n)
  BY <1>6, <1>7, <1>9, <1>10, <1>11, <1>12, <1>13, <1>14, <1>15 DEF TopsUp
<1> QED
  BY <1>5, <1>16

-----------------------------------------------------------------------------
(* Types, the queue, the pair and the prefetch.                            *)

\* A frame sent is a frame received, if the client is there.
LEMMA SendKeepsFrames ==
    ASSUME out \in Seq(Frame), NEW frame \in Frame, Send(frame)
    PROVE  out' \in Seq(Frame)
  BY DEF Send

LEMMA SegmentsOfJobs ==
    ASSUME NEW js \in Seq(Job)
    PROVE  /\ Segments(js) \in Seq(Segment) /\ Len(Segments(js)) = Len(js)
           /\ \A i \in 1..Len(js) : Segments(js)[i] = js[i].seg /\ js[i].seg \in Segment
<1>1. \A i \in 1..Len(js) : js[i].seg \in Segment
  <2>1. \A i \in 1..Len(js) : js[i] \in Job
    OBVIOUS
  <2> QED
    BY <2>1 DEF Job
<1> QED
  BY <1>1 DEF Segments

LEMMA UsageIsWellTyped ==
    ASSUME TypeOK, NEW s \in Statuses
    PROVE  UsageEvent(s) \in UsageRecord
<1>1. finished \o Segments(jobs) \in Seq(Segment)
  BY SegmentsOfJobs, ConcatProperties DEF TypeOK
<1> QED
  BY <1>1 DEF UsageEvent, UsageRecord

\* One more cut of the text, by the reader or by the watchdog.
LEMMA CutKeepsQueue ==
    ASSUME SpeakInv, ~finalized, ~finalized', NEW c \in (cut + 1)..MaxDeltas, Cut(c),
           UNCHANGED <<finalSeen, refinal, reader>>
    PROVE  queue' \in Seq(Segment \cup {Final}) /\ cut' = c /\ QueueInv'
<1>1. [from |-> cut + 1, to |-> c] \in Segment
  <2>1. cut \in Nat /\ c \in 1..MaxDeltas /\ cut + 1 \in 1..MaxDeltas /\ cut + 1 <= c
    BY SpeakAssumption DEF SpeakInv, TypeOK
  <2> QED
    BY <2>1 DEF Segment
<1>2. \A i \in 1..Len(queue) : queue[i] # Final
  BY DEF SpeakInv, QueueInv
<1>3. queue \in Seq(Segment \cup {Final})
  BY DEF SpeakInv, TypeOK
<1>4. /\ queue' \in Seq(Segment \cup {Final}) /\ Len(queue') = Len(queue) + 1
      /\ \A i \in 1..Len(queue) : queue'[i] = queue[i]
      /\ queue'[Len(queue) + 1] = [from |-> cut + 1, to |-> c]
  BY <1>1, <1>3, AppendProperties DEF Cut
<1>5. \A i \in 1..Len(queue') : queue'[i] # Final
  BY <1>1, <1>2, <1>3, <1>4, FinalIsNoSegment
<1> QED
  BY <1>4, <1>5 DEF Cut, SpeakInv, QueueInv

\* What is left of the queue is well formed, if the reader is not in a clear or
\* did not get a Final.
LEMMA TopUpKeepsQueue ==
    ASSUME SpeakInv, NEW js, NEW n \in Nat, TopsUp(js, n),
           UNCHANGED <<finalized, refinal, reader>>
    PROVE  QueueInv'
<1>1. \A k \in 1..Len(queue') : queue'[k] = Final => k = Len(queue') /\ finalized
  <2> SUFFICES ASSUME NEW k \in 1..Len(queue'), queue'[k] = Final
               PROVE  k = Len(queue') /\ finalized
    OBVIOUS
  <2>1. k + n \in 1..Len(queue) /\ queue[k + n] = Final
    BY DEF TopsUp
  <2>2. k + n = Len(queue) /\ finalized
    BY <2>1 DEF SpeakInv, QueueInv
  <2>3. Len(queue) \in Nat
    <3>1. queue \in Seq(Segment \cup {Final})
      BY DEF SpeakInv, TypeOK
    <3> QED
      BY <3>1
  <2>4. Len(queue') = 0 \/ Len(queue') = Len(queue) - n
    BY DEF TopsUp
  <2>5. Len(queue') \in Nat
    <3>1. queue' \in Seq(Segment \cup {Final})
      BY DEF TopsUp
    <3> QED
      BY <3>1
  <2> QED
    BY <2>2, <2>3, <2>4, <2>5
<1> QED
  BY <1>1 DEF TopsUp, SpeakInv, QueueInv

\* A step of the pipeline that tops up and touches neither reader nor text.
LEMMA TopUpKeepsTypes ==
    ASSUME SpeakInv, NEW js, NEW n \in Nat, TopsUp(js, n)
    PROVE  /\ queue' \in Seq(Segment \cup {Final}) /\ finalSeen' \in BOOLEAN
           /\ jobs' \in Seq(Job) /\ dispatched' \in Seq(Segment)
           /\ BoundedPrefetch'
<1>1. dispatched \in Seq(Segment)
  BY DEF SpeakInv, TypeOK
<1>2. SubSeq(queue, 1, n) \in Seq(Segment)
  <2>1. \A i \in 1..n : queue[i] \in Segment
    BY DEF TopsUp
  <2> QED
    BY <2>1, SubSeqProperties
<1>3. dispatched \o SubSeq(queue, 1, n) \in Seq(Segment)
  BY <1>1, <1>2, ConcatProperties
<1> QED
  BY <1>3 DEF TopsUp, BoundedPrefetch

\* What becomes of the jobs and the queue when a clear takes and drops them.
LEMMA DropKeepsQueue ==
    ASSUME SpeakInv, DropPending, UNCHANGED finalized
    PROVE  /\ QueueInv' /\ queue' = <<>> /\ cut' = deltas /\ refinal' \in BOOLEAN
           /\ finalSeen' = FALSE /\ reader' = "clearing"
<1>1. AnyFinal => finalized
  <2>1. IsFinal(queue) => Len(queue) \in 1..Len(queue) /\ queue[Len(queue)] = Final
    BY DEF IsFinal, SpeakInv, TypeOK
  <2> QED
    BY <2>1 DEF AnyFinal, SpeakInv, QueueInv
<1>2. AnyFinal \in BOOLEAN
  BY DEF AnyFinal, IsFinal, SpeakInv, TypeOK
<1> QED
  BY <1>1, <1>2 DEF DropPending, QueueInv

LEMMA TakeJobsKeepsTypes ==
    ASSUME SpeakInv, TakeJobs, UNCHANGED <<finalized, deltas>>,
           reader \notin {"clearing", "said"}
    PROVE  /\ QueueInv' /\ queue' \in Seq(Segment \cup {Final}) /\ cut' \in 0..deltas
           /\ refinal' \in BOOLEAN /\ finalSeen' \in BOOLEAN
           /\ reader' \in {"clearing", "gathering"}
           /\ dying' \in Seq(Segment) /\ jobs' = <<>>
<1>1. dying' \in Seq(Segment) /\ jobs' = <<>>
  BY SegmentsOfJobs DEF TakeJobs, SpeakInv, TypeOK
<1>2. CASE jobs = <<>>
  <2>1. DropPending
    BY <1>2 DEF TakeJobs
  <2>2. /\ QueueInv' /\ queue' = <<>> /\ cut' = deltas /\ refinal' \in BOOLEAN
        /\ finalSeen' = FALSE /\ reader' = "clearing"
    BY <2>1, DropKeepsQueue
  <2>3. deltas \in Nat
    BY SpeakAssumption DEF SpeakInv, TypeOK
  <2>4. cut' \in 0..deltas /\ <<>> \in Seq(Segment \cup {Final})
    BY <2>2, <2>3
  <2> QED
    BY <1>1, <2>2, <2>4
<1>3. CASE jobs # <<>>
  BY <1>1, <1>3 DEF TakeJobs, SpeakInv, TypeOK, QueueInv
<1> QED
  BY <1>2, <1>3

\* A job stays a job: one more chunk, one chunk sent, another end.
LEMMA JobSteps ==
    ASSUME NEW job \in Job
    PROVE  /\ job.made < MaxAudio => [job EXCEPT !.made = @ + 1, !.ready = @ + 1] \in Job
           /\ job.ready > 0 => [job EXCEPT !.ready = @ - 1] \in Job
           /\ \A e \in {"end"} \cup JobFaults : [job EXCEPT !.end = e] \in Job
<1> DEFINE AnyJob == [seg : Segment, ready : 0..MaxAudio, made : 0..MaxAudio,
                      end : {"no", "end"} \cup JobFaults]
<1>1. job \in AnyJob /\ job.ready <= job.made /\ MaxAudio \in Nat
  BY SpeakAssumption DEF Job
<1>2. job.ready \in 0..MaxAudio /\ job.made \in 0..MaxAudio
  BY <1>1
<1>3. ASSUME job.made < MaxAudio
      PROVE  [job EXCEPT !.made = @ + 1, !.ready = @ + 1] \in Job
  <2>1. job.made + 1 \in 0..MaxAudio /\ job.ready + 1 \in 0..MaxAudio
        /\ job.ready + 1 <= job.made + 1
    BY <1>1, <1>2, <1>3
  <2>2. [job EXCEPT !.made = @ + 1, !.ready = @ + 1] \in AnyJob
    BY <1>1, <2>1
  <2> QED
    BY <1>1, <2>1, <2>2 DEF Job
<1>4. ASSUME job.ready > 0
      PROVE  [job EXCEPT !.ready = @ - 1] \in Job
  <2>1. job.ready - 1 \in 0..MaxAudio /\ job.ready - 1 <= job.made
    BY <1>1, <1>2, <1>4
  <2>2. [job EXCEPT !.ready = @ - 1] \in AnyJob
    BY <1>1, <2>1
  <2> QED
    BY <1>1, <2>1, <2>2 DEF Job
<1>5. ASSUME NEW e \in {"end"} \cup JobFaults
      PROVE  [job EXCEPT !.end = e] \in Job
  BY <1>1, <1>5 DEF Job
<1> QED
  BY <1>3, <1>4, <1>5

\* The pair when nobody waits for it any more.
LEMMA OrphanedPair ==
    ASSUME SpeakInv
    PROVE  /\ Orphaned \in Pair \cup {NoPair}
           /\ Orphaned # NoPair => /\ pair # NoPair /\ ~Orphaned.own
                                   /\ Orphaned.seq = pair.seq /\ Orphaned.seg = pair.seg
<1>1. CASE pair = NoPair
  BY <1>1 DEF Orphaned
<1>2. CASE pair # NoPair
  <2>1. pair \in Pair
    BY <1>2 DEF SpeakInv, TypeOK
  <2> QED
    BY <1>2, <2>1 DEF Orphaned, Pair
<1> QED
  BY <1>1, <1>2

LEMMA StepKeepsSpeak == SpeakInv /\ [Next]_vars => SpeakInv'
<1> SUFFICES ASSUME SpeakInv, [Next]_vars PROVE SpeakInv'
  OBVIOUS
<1> USE DEF SpeakInv, textPart, workPart, pipePart, pairPart, readPart, runPart
<1>1. CASE Open
  <2>1. out' \in Seq(Frame)
    <3>1. [type |-> "session.open"] \in Frame
      BY DEF Frame
    <3> QED
      BY <1>1, <3>1, SendKeepsFrames DEF Open, TypeOK
  <2> QED
    BY <1>1, <2>1 DEF Open, TypeOK, QueueInv, PairInv, BoundedPrefetch
<1>2. CASE OpenFails
  <2>1. status' \in Statuses
    BY <1>2 DEF OpenFails, Statuses
  <2>2. usage' \in Seq(UsageRecord)
    BY <1>2, <2>1, UsageIsWellTyped DEF OpenFails, TypeOK
  <2> QED
    BY <1>2, <2>1, <2>2 DEF OpenFails, TypeOK, QueueInv, PairInv, BoundedPrefetch
<1>3. CASE ReadText
  <2>1. deltas' \in 0..MaxDeltas /\ deltas' = deltas + 1 /\ cut \in 0..deltas
    BY <1>3, SpeakAssumption DEF ReadText, TypeOK
  <2>2. queue' \in Seq(Segment \cup {Final}) /\ cut' \in 0..deltas' /\ QueueInv'
    <3>1. CASE UNCHANGED <<cut, queue>>
      BY <1>3, <2>1, <3>1 DEF ReadText, TypeOK, QueueInv
    <3>2. CASE \E c \in (cut + 1)..deltas' : Cut(c)
      <4>1. PICK c \in (cut + 1)..deltas' : Cut(c)
        BY <3>2
      <4>2. c \in (cut + 1)..MaxDeltas /\ c \in 0..deltas'
        BY <2>1, <4>1, SpeakAssumption
      <4> QED
        BY <1>3, <4>1, <4>2, CutKeepsQueue DEF ReadText
    <3> QED
      BY <1>3, <3>1, <3>2 DEF ReadText
  <2> QED
    BY <1>3, <2>1, <2>2 DEF ReadText, TypeOK, PairInv, BoundedPrefetch
<1>4. CASE ReadFinalize
  <2>1. \A i \in 1..Len(queue) : queue[i] # Final
    BY <1>4 DEF ReadFinalize, QueueInv
  <2>2. Tailed \in Seq(Segment \cup {Final}) /\ Len(Tailed) \in {1, 2}
        /\ \A i \in 1..Len(Tailed) : Tailed[i] = Final => i = Len(Tailed)
    <3>1. CASE cut < deltas
      <4>1. [from |-> cut + 1, to |-> deltas] \in Segment
        BY <3>1, SpeakAssumption DEF TypeOK, Segment
      <4>2. Tailed = <<[from |-> cut + 1, to |-> deltas], Final>>
        BY <3>1 DEF Tailed
      <4> HIDE DEF SpeakInv
      <4> QED
        BY <4>1, <4>2, FinalIsNoSegment
    <3>2. CASE ~(cut < deltas)
      <4>1. Tailed = <<Final>>
        BY <3>2 DEF Tailed
      <4> QED
        BY <4>1
    <3> QED
      BY <3>1, <3>2
  <2>3. queue' \in Seq(Segment \cup {Final})
        /\ \A i \in 1..Len(queue') : queue'[i] = Final => i = Len(queue')
    <3>1. /\ queue' \in Seq(Segment \cup {Final}) /\ Len(queue') = Len(queue) + Len(Tailed)
          /\ \A i \in 1..Len(queue) + Len(Tailed) :
                queue'[i] = IF i <= Len(queue) THEN queue[i] ELSE Tailed[i - Len(queue)]
      BY <1>4, <2>2, ConcatProperties DEF ReadFinalize, TypeOK
    <3>2. Len(queue) \in Nat /\ Len(Tailed) \in Nat
      BY <2>2 DEF TypeOK
    <3> SUFFICES ASSUME NEW i \in 1..Len(queue'), queue'[i] = Final PROVE i = Len(queue')
      BY <3>1
    <3>3. ~(i <= Len(queue))
      BY <2>1, <3>1, <3>2
    <3>4. i - Len(queue) \in 1..Len(Tailed)
      BY <3>1, <3>2, <3>3
    <3> QED
      BY <2>2, <3>1, <3>2, <3>3, <3>4
  <2> QED
    BY <1>4, <2>3, SpeakAssumption, SMTT(30), ZenonT(30) DEF ReadFinalize, TypeOK, QueueInv, PairInv, BoundedPrefetch
<1>5. CASE ReadDisconnect
  BY <1>5 DEF ReadDisconnect, TypeOK, QueueInv, PairInv, BoundedPrefetch
<1>6. CASE ReadClear
  <2>1. /\ clears' \in 0..MaxClears
        /\ UNCHANGED <<deltas, finalized, finished, restart, supervisor, seq, sent, watchdog,
                       run, status, usage, client, out, voiced>>
    BY <1>6, SpeakAssumption DEF ReadClear, TypeOK
  <2>2. CASE inner = "running"
    <3>1. /\ inner' = "cancelling" /\ reader' = "cancelling" /\ pair' = Orphaned
          /\ UNCHANGED <<cut, queue, finalSeen, jobs, dispatched, dying, refinal>>
      BY <1>6, <2>2 DEF ReadClear
    <3>2. PairInv'
      BY <2>1, <3>1, OrphanedPair DEF PairInv
    <3> QED
      BY <2>1, <3>1, <3>2, OrphanedPair DEF TypeOK, QueueInv, BoundedPrefetch
  <2>3. CASE inner # "running"
    <3>1. TakeJobs /\ UNCHANGED <<dispatched, inner, pair>> /\ reader = "on"
      BY <1>6, <2>3 DEF ReadClear
    <3>2. jobs' = <<>> /\ BoundedPrefetch'
      BY <3>1, SpeakAssumption DEF TakeJobs, BoundedPrefetch
    <3> QED
      BY <2>1, <3>1, <3>2, TakeJobsKeepsTypes DEF TypeOK, PairInv
  <2> QED
    BY <2>2, <2>3
<1>7. CASE ClearTakesJobs
  <2>1. TakeJobs /\ UNCHANGED <<finalized, deltas>> /\ reader = "cancelling"
    BY <1>7 DEF ClearTakesJobs
  <2>2. jobs' = <<>> /\ BoundedPrefetch'
    BY <2>1, SpeakAssumption DEF TakeJobs, BoundedPrefetch
  <2> QED
    BY <1>7, <2>1, <2>2, TakeJobsKeepsTypes DEF ClearTakesJobs, TypeOK, PairInv
<1>8. CASE ClearDrops
  <2>1. DropPending /\ UNCHANGED finalized
    BY <1>8 DEF ClearDrops
  <2>2. finished' \in Seq(Segment)
    BY <1>8, ConcatProperties DEF ClearDrops, TypeOK
  <2>3. /\ QueueInv' /\ queue' = <<>> /\ cut' = deltas /\ refinal' \in BOOLEAN
        /\ finalSeen' = FALSE /\ reader' = "clearing"
    BY <2>1, DropKeepsQueue
  <2>4. deltas \in Nat /\ <<>> \in Seq(Segment) /\ <<>> \in Seq(Segment \cup {Final})
    BY SpeakAssumption DEF TypeOK
  <2>5. cut' \in 0..deltas
    BY <2>3, <2>4
  <2> QED
    <3>1. dying' = <<>> /\ UNCHANGED <<deltas, finalized, jobs, dispatched, pipePart, pairPart,
                                      clears, watchdog, runPart, client, out, voiced>>
      BY <1>8 DEF ClearDrops
    <3>2. PairInv' /\ BoundedPrefetch'
      BY <3>1 DEF PairInv, BoundedPrefetch
    <3>3. TypeOK'
      BY <2>2, <2>3, <2>4, <2>5, <3>1, ZenonT(30) DEF TypeOK
    <3> QED
      BY <2>3, <3>2, <3>3
<1>9. CASE ClearSays
  <2>1. out' \in Seq(Frame)
    <3>1. [type |-> "cleared", seq |-> sent, deltas |-> deltas] \in Frame
      BY SpeakAssumption DEF Frame, TypeOK
    <3> QED
      BY <1>9, <3>1, SendKeepsFrames DEF ClearSays, TypeOK
  <2> QED
    BY <1>9, <2>1 DEF ClearSays, TypeOK, QueueInv, PairInv, BoundedPrefetch
<1>10. CASE ClearEnds
  <2>1. CASE refinal
    <3>1. queue' = Append(queue, Final) /\ finalized /\ \A i \in 1..Len(queue) : queue[i] # Final
      BY <1>10, <2>1 DEF ClearEnds, QueueInv
    <3>2. /\ queue' \in Seq(Segment \cup {Final}) /\ Len(queue') = Len(queue) + 1
          /\ \A i \in 1..Len(queue) : queue'[i] = queue[i]
      BY <3>1, AppendProperties DEF TypeOK
    <3>3. \A i \in 1..Len(queue') : queue'[i] = Final => i = Len(queue')
      BY <3>1, <3>2 DEF TypeOK
    <3> QED
      BY <1>10, <3>1, <3>2, <3>3 DEF ClearEnds, TypeOK, QueueInv, PairInv, BoundedPrefetch
  <2>2. CASE ~refinal
    BY <1>10, <2>2 DEF ClearEnds, TypeOK, QueueInv, PairInv, BoundedPrefetch
  <2> QED
    BY <2>1, <2>2
<1>11. CASE ClientLeaves
  BY <1>11 DEF ClientLeaves, TypeOK, QueueInv, PairInv, BoundedPrefetch
<1>12. CASE Supervisor
  <2>1. CASE Restart
    <3>1. inner' = "running" /\ restart' \in BOOLEAN
      BY <2>1 DEF Restart
    <3>2. UNCHANGED <<textPart, workPart, dying, finished, supervisor, pairPart, readPart,
                      watchdog, runPart, client, out, voiced>>
      BY <2>1 DEF Restart
    <3> QED
      BY <3>1, <3>2 DEF TypeOK, QueueInv, PairInv, BoundedPrefetch
  <2>2. CASE SupervisorEnds
    BY <2>2 DEF SupervisorEnds, TypeOK, QueueInv, PairInv, BoundedPrefetch
  <2> QED
    BY <1>12, <2>1, <2>2 DEF Supervisor
<1>13. ASSUME NEW js \in Seq(Job), Len(js) <= PREFETCH + 1, TopUp(js),
              UNCHANGED <<textPart, dying, restart, supervisor, readPart, watchdog, runPart,
                          client>>,
              inner' \in {"running", "cancelling", "cancelled"} \cup Ends,
              voiced' \subseteq 1..MaxDeltas, finished' \in Seq(Segment),
              out' \in Seq(Frame), pair' \in {pair, NoPair}, seq' = seq, sent' \in 0..seq
       PROVE  SpeakInv'
  <2>1. PICK n \in Nat : TopsUp(js, n)
    BY <1>13, TopUpEffect
  <2>2. QueueInv'
    BY <1>13, <2>1, TopUpKeepsQueue
  <2>3. /\ queue' \in Seq(Segment \cup {Final}) /\ finalSeen' \in BOOLEAN
        /\ jobs' \in Seq(Job) /\ dispatched' \in Seq(Segment) /\ BoundedPrefetch'
    BY <2>1, TopUpKeepsTypes
  <2>4. PairInv'
    BY <1>13 DEF PairInv
  <2> QED
    BY <1>13, <2>2, <2>3, <2>4 DEF TypeOK
<1>14. CASE Turn
  <2>1. <<>> \in Seq(Job) /\ Len(<<>>) <= PREFETCH + 1
    BY SpeakAssumption
  <2>2. TopUp(<<>>) /\ inner' \in {"returned", "running"}
    BY <1>14 DEF Turn, Advance
  <2> QED
    BY <1>13, <1>14, <2>1, <2>2 DEF Turn, TypeOK, Ends
<1>15. CASE Produce
  <2>1. PICK i \in 1..Len(jobs) :
            \/ /\ jobs[i].made < MaxAudio
               /\ jobs' = [jobs EXCEPT ![i].made = @ + 1, ![i].ready = @ + 1]
            \/ \E e \in {"end"} \cup (Faults \cap JobFaults) : jobs' = [jobs EXCEPT ![i].end = e]
    BY <1>15 DEF Produce
  <2>2. jobs \in Seq(Job) /\ jobs[i] \in Job
    BY DEF TypeOK
  <2>3. \E job \in Job : jobs' = [jobs EXCEPT ![i] = job]
    <3>1. CASE jobs[i].made < MaxAudio
               /\ jobs' = [jobs EXCEPT ![i].made = @ + 1, ![i].ready = @ + 1]
      <4>1. [jobs[i] EXCEPT !.made = @ + 1, !.ready = @ + 1] \in Job
        BY <2>2, <3>1, JobSteps
      <4>2. jobs' = [jobs EXCEPT ![i] = [jobs[i] EXCEPT !.made = @ + 1, !.ready = @ + 1]]
        BY <2>2, <3>1
      <4> QED
        BY <4>1, <4>2
    <3>2. ASSUME NEW e \in {"end"} \cup (Faults \cap JobFaults), jobs' = [jobs EXCEPT ![i].end = e]
          PROVE  \E job \in Job : jobs' = [jobs EXCEPT ![i] = job]
      <4>1. [jobs[i] EXCEPT !.end = e] \in Job
        BY <2>2, <3>2, JobSteps
      <4>2. jobs' = [jobs EXCEPT ![i] = [jobs[i] EXCEPT !.end = e]]
        BY <2>2, <3>2
      <4> QED
        BY <4>1, <4>2
    <3> QED
      BY <2>1, <3>1, <3>2
  <2>4. jobs' \in Seq(Job) /\ Len(jobs') = Len(jobs)
    BY <2>2, <2>3
  <2> QED
    BY <1>15, <2>4, SMTT(30), ZenonT(30) DEF Produce, TypeOK, QueueInv, PairInv, BoundedPrefetch
<1>16. CASE SendHeader
  <2>1. jobs \in Seq(Job) /\ jobs # <<>> /\ Head(jobs) = jobs[1] /\ jobs[1] \in Job
        /\ 1 \in 1..Len(jobs)
    BY <1>16 DEF SendHeader, TypeOK
  <2>2. jobs' \in Seq(Job) /\ Len(jobs') = Len(jobs)
    <3>1. [jobs[1] EXCEPT !.ready = @ - 1] \in Job
      BY <1>16, <2>1, JobSteps DEF SendHeader
    <3>2. jobs' = [jobs EXCEPT ![1] = [jobs[1] EXCEPT !.ready = @ - 1]]
      BY <1>16, <2>1 DEF SendHeader
    <3> QED
      BY <2>1, <3>1, <3>2
  <2>3. seq' = seq + 1 /\ seq' \in Nat /\ sent \in 0..seq' /\ pair = NoPair
    BY <1>16 DEF SendHeader, TypeOK, LockFree
  <2>4. /\ pair' \in Pair \cup {NoPair} /\ out' \in Seq(Frame)
        /\ inner' \in {"running"} \cup Ends
        /\ pair' # NoPair => pair'.seq = seq'
    <3>1. CASE /\ Send([type |-> "audio.chunk", seq |-> seq'])
               /\ pair' = [seq |-> seq', seg |-> Head(jobs).seg, own |-> TRUE]
               /\ UNCHANGED inner
      <4>1. [type |-> "audio.chunk", seq |-> seq'] \in Frame
        BY <2>3 DEF Frame
      <4>2. out' \in Seq(Frame)
        BY <3>1, <4>1, SendKeepsFrames DEF TypeOK
      <4>3. jobs[1].seg \in Segment
        BY <2>1 DEF Job
      <4> QED
        BY <1>16, <2>1, <2>3, <3>1, <4>2, <4>3 DEF Pair, SendHeader, Piping
    <3>2. CASE inner' = "SpeakClosed" /\ UNCHANGED <<out, pair>>
      BY <2>3, <3>2 DEF TypeOK, Ends
    <3> QED
      BY <1>16, <3>1, <3>2 DEF SendHeader
  <2>5. run \in {"running", "decided"} /\ UNCHANGED run
    BY <1>16 DEF SendHeader, Piping, Live
  <2> QED
    BY <1>16, <2>2, <2>3, <2>4, <2>5, SMTT(30), ZenonT(30) DEF SendHeader, TypeOK, QueueInv, PairInv, BoundedPrefetch
<1>17. CASE SendAudio
  <2>1. pair \in Pair /\ pair' = NoPair
    BY <1>17 DEF SendAudio, TypeOK
  <2>2. CASE /\ Send([type |-> "audio", seq |-> pair.seq, seg |-> pair.seg])
             /\ sent' = seq
             /\ IF pair.own THEN TopUp(jobs) ELSE UNCHANGED workPart
             /\ UNCHANGED inner
    <3>1. [type |-> "audio", seq |-> pair.seq, seg |-> pair.seg] \in Frame
      BY <2>1 DEF Pair, Frame
    <3>2. out' \in Seq(Frame)
      BY <2>2, <3>1, SendKeepsFrames DEF TypeOK
    <3>3. sent' \in 0..seq
      BY <2>2 DEF TypeOK
    <3>4. CASE pair.own
      BY <1>13, <1>17, <2>1, <2>2, <3>2, <3>3, <3>4 DEF SendAudio, TypeOK, BoundedPrefetch
    <3>5. CASE ~pair.own
      BY <1>17, <2>1, <2>2, <3>2, <3>3, <3>5
         DEF SendAudio, TypeOK, QueueInv, PairInv, BoundedPrefetch
    <3> QED
      BY <3>4, <3>5
  <2>3. CASE /\ inner' = IF pair.own THEN "SpeakClosed" ELSE inner
             /\ UNCHANGED <<out, sent, workPart>>
    BY <1>17, <2>1, <2>3 DEF SendAudio, TypeOK, QueueInv, PairInv, BoundedPrefetch, Ends
  <2> QED
    BY <1>17, <2>2, <2>3 DEF SendAudio
<1>18. CASE JobEnds
  <2>1. jobs \in Seq(Job) /\ jobs # <<>> /\ Head(jobs) = jobs[1] /\ jobs[1] \in Job
    BY <1>18 DEF JobEnds, TypeOK
  <2>2. jobs[1].seg \in Segment
    BY <2>1 DEF Job
  <2>3. Tail(jobs) \in Seq(Job) /\ Len(Tail(jobs)) <= PREFETCH + 1
    BY <2>1, SpeakAssumption DEF BoundedPrefetch
  <2>4. finished' \in Seq(Segment) /\ voiced' \subseteq 1..MaxDeltas
    <3>1. finished' = Append(finished, jobs[1].seg)
          /\ voiced' = voiced \cup (jobs[1].seg.from .. jobs[1].seg.to)
      BY <1>18, <2>1 DEF JobEnds
    <3>2. jobs[1].seg.from .. jobs[1].seg.to \subseteq 1..MaxDeltas
      BY <2>2, SpeakAssumption DEF Segment
    <3>3. finished \in Seq(Segment) /\ voiced \subseteq 1..MaxDeltas
      BY DEF TypeOK
    <3>4. finished' \in Seq(Segment)
      BY <2>2, <3>1, <3>3, AppendProperties
    <3>5. voiced' \subseteq 1..MaxDeltas
      BY <3>1, <3>2, <3>3
    <3> QED
      BY <3>4, <3>5
  <2>5. TopUp(Tail(jobs)) /\ inner' \in {"returned", "running"}
    BY <1>18 DEF JobEnds, Advance
  <2> QED
    BY <1>13, <1>18, <2>3, <2>4, <2>5 DEF JobEnds, TypeOK, Ends
<1>19. CASE JobFails
  BY <1>19 DEF JobFails, TypeOK, QueueInv, PairInv, BoundedPrefetch, Ends
<1>20. CASE TakeStale
  <2>1. PICK c \in (cut + 1)..(deltas - 1) : Cut(c)
    BY <1>20 DEF TakeStale
  <2>2. c \in (cut + 1)..MaxDeltas /\ c \in 0..deltas
    BY <2>1, SpeakAssumption DEF TypeOK
  <2>3. queue' \in Seq(Segment \cup {Final}) /\ cut' = c /\ QueueInv'
    BY <1>20, <2>1, <2>2, CutKeepsQueue DEF TakeStale
  <2> QED
    BY <1>20, <2>2, <2>3 DEF TakeStale, TypeOK, PairInv, BoundedPrefetch
<1>21. ASSUME NEW limit \in Trips, WatchdogTrips(limit) PROVE SpeakInv'
  BY <1>21, SpeakAssumption DEF WatchdogTrips, TypeOK, QueueInv, PairInv, BoundedPrefetch
<1>22. ASSUME NEW s \in Statuses, Silently(s), run = "running",
              UNCHANGED <<textPart, workPart, dying, finished, pipePart, seq, sent, readPart,
                          watchdog, usage, client, voiced>>
       PROVE  SpeakInv'
  <2>1. PairInv'
    BY <1>22, OrphanedPair DEF Silently, PairInv
  <2> QED
    BY <1>22, <2>1, OrphanedPair DEF Silently, TypeOK, QueueInv, BoundedPrefetch
<1>23. ASSUME NEW s \in Statuses, NEW frame \in Frame, Verdict(s, frame), run = "running",
              UNCHANGED <<textPart, workPart, dying, finished, pipePart, seq, sent, readPart,
                          watchdog, usage, client, voiced>>
       PROVE  SpeakInv'
  <2>1. out' \in Seq(Frame)
    BY <1>23, SendKeepsFrames DEF Verdict, TypeOK
  <2> QED
    BY <1>23, <2>1 DEF Verdict, TypeOK, QueueInv, PairInv, BoundedPrefetch
<1>24. ByeStatus \in Statuses
  BY DEF ByeStatus, Statuses
<1>25. CASE DecideBySupervisor
  <2>1. [type |-> "done", runs |-> finished \o Segments(jobs)] \in Frame
    <3>1. finished \o Segments(jobs) \in Seq(Segment)
      BY SegmentsOfJobs, ConcatProperties DEF TypeOK
    <3> QED
      BY <3>1 DEF Frame
  <2>2. Error("provider_error") \in Frame /\ Error("internal_error") \in Frame
    BY DEF Error, Frame
  <2>3. {"completed", "provider_error", "error"} \subseteq Statuses
    BY DEF Statuses
  <2>4. run = "running" /\ UNCHANGED <<textPart, workPart, dying, finished, pipePart, seq, sent,
                                      readPart, watchdog, usage, client, voiced>>
    BY <1>25 DEF DecideBySupervisor
  <2> HIDE DEF SpeakInv
  <2>5. CASE \E s \in Statuses : Silently(s)
    BY <1>22, <2>4, <2>5
  <2>6. CASE \E s \in Statuses, frame \in Frame : Verdict(s, frame)
    BY <1>23, <2>4, <2>6
  <2>7. (\E s \in Statuses : Silently(s)) \/ (\E s \in Statuses, frame \in Frame : Verdict(s, frame))
    BY <1>24, <1>25, <2>1, <2>2, <2>3 DEF DecideBySupervisor
  <2> QED
    BY <2>5, <2>6, <2>7
<1>26. CASE DecideByOther
  <2>1. watchdog # "on" => watchdog \in Statuses /\ Error(watchdog) \in Frame
    BY DEF TypeOK, Statuses, Error, Frame
  <2>2. run = "running" /\ UNCHANGED <<textPart, workPart, dying, finished, pipePart, seq, sent,
                                      readPart, watchdog, usage, client, voiced>>
    BY <1>26 DEF DecideByOther
  <2> HIDE DEF SpeakInv
  <2>3. CASE Silently(ByeStatus)
    BY <1>22, <1>24, <2>2, <2>3
  <2>4. CASE watchdog # "on" /\ Verdict(watchdog, Error(watchdog))
    BY <1>23, <2>1, <2>2, <2>4
  <2> QED
    BY <1>26, <2>3, <2>4 DEF DecideByOther
<1>27. CASE Cancelled
  <2>1. status \in Statuses
    BY DEF TypeOK
  <2> QED
    BY <1>22, <1>27, <2>1 DEF Cancelled
<1>28. CASE Teardown
  <2>1. usage' \in Seq(UsageRecord)
    <3>1. status \in Statuses
      BY DEF TypeOK
    <3> QED
      BY <1>28, <3>1, UsageIsWellTyped DEF Teardown, TypeOK
  <2>2. finished' \in Seq(Segment) /\ jobs' \in Seq(Job) /\ BoundedPrefetch'
    BY <1>28, SegmentsOfJobs, ConcatProperties, SpeakAssumption
       DEF Teardown, TypeOK, BoundedPrefetch
  <2>3. PairInv'
    BY <1>28, OrphanedPair DEF Teardown, PairInv
  <2> QED
    BY <1>28, <2>1, <2>2, <2>3, OrphanedPair DEF Teardown, TypeOK, QueueInv
<1>29. CASE Killed
  <2>1. PairInv'
    BY <1>29, OrphanedPair DEF Killed, PairInv
  <2> QED
    BY <1>29, <2>1, OrphanedPair DEF Killed, TypeOK, QueueInv, BoundedPrefetch
<1>30. CASE UNCHANGED vars
  BY <1>30 DEF vars, TypeOK, QueueInv, PairInv, BoundedPrefetch
<1> QED
  BY <1>1, <1>2, <1>3, <1>4, <1>5, <1>6, <1>7, <1>8, <1>9, <1>10, <1>11, <1>12, <1>14, <1>15,
     <1>16, <1>17, <1>18, <1>19, <1>20, <1>21, <1>25, <1>26, <1>27, <1>28, <1>29, <1>30
     DEF Next, Reader, Clear, Pipeline, Decide

LEMMA InitSpeak == Init => SpeakInv
<1> SUFFICES ASSUME Init PROVE SpeakInv
  OBVIOUS
<1>1. deltas \in 0..MaxDeltas /\ cut \in 0..deltas /\ clears \in 0..MaxClears
      /\ seq \in Nat /\ sent \in 0..seq /\ voiced \subseteq 1..MaxDeltas
  BY SpeakAssumption DEF Init
<1>2. queue = <<>> /\ jobs = <<>> /\ dying = <<>> /\ finished = <<>> /\ dispatched = <<>>
      /\ out = <<>> /\ usage = <<>>
  BY DEF Init
<1>3. QueueInv /\ PairInv /\ BoundedPrefetch
  BY SpeakAssumption DEF Init, QueueInv, PairInv, BoundedPrefetch
<1>4. TypeOK
  <2>1. <<>> \in Seq(Segment \cup {Final}) /\ <<>> \in Seq(Job) /\ <<>> \in Seq(Segment)
        /\ <<>> \in Seq(Frame) /\ <<>> \in Seq(UsageRecord)
    OBVIOUS
  <2>2. /\ finalized = FALSE /\ finalSeen = FALSE /\ refinal = FALSE /\ restart = FALSE
        /\ inner = "running" /\ supervisor = "on" /\ pair = NoPair /\ reader = "on"
        /\ watchdog = "on" /\ run = "opening" /\ status = "completed" /\ client = "here"
    BY DEF Init
  <2>3. status \in Statuses
    BY <2>2 DEF Statuses
  <2> QED
    BY <1>1, <1>2, <2>1, <2>2, <2>3 DEF TypeOK
<1> QED
  BY <1>3, <1>4 DEF SpeakInv

LEMMA SpeakInvariant == Spec => []SpeakInv
  BY InitSpeak, StepKeepsSpeak, PTL DEF Spec

\* Every variable keeps its type: a text.delta, a segment or a chunk number is
\* never more than there is text for, and every frame and usage event is one the
\* protocol knows.
THEOREM SpeakTypes == Spec => []TypeOK
<1>1. SpeakInv => TypeOK
  BY DEF SpeakInv
<1> QED
  BY <1>1, SpeakInvariant, PTL

\* However finalize, barge-ins and failing jobs interleave, no more than
\* PREFETCH segments are synthesized ahead of the one being sent.
THEOREM PrefetchIsBounded == Spec => []BoundedPrefetch
<1>1. SpeakInv => BoundedPrefetch
  BY DEF SpeakInv
<1> QED
  BY <1>1, SpeakInvariant, PTL
-----------------------------------------------------------------------------
(* The bill.                                                               *)

LEMMA RangeOfConcat ==
    ASSUME NEW S, NEW s \in Seq(S), NEW r \in Seq(S)
    PROVE  RangeOf(s \o r) = RangeOf(s) \cup RangeOf(r)
<1>1. /\ Len(s) \in Nat /\ Len(r) \in Nat /\ Len(s \o r) = Len(s) + Len(r)
      /\ \A i \in 1..Len(s) + Len(r) : (s \o r)[i] = IF i <= Len(s) THEN s[i] ELSE r[i - Len(s)]
  BY ConcatProperties
<1>2. RangeOf(s \o r) \subseteq RangeOf(s) \cup RangeOf(r)
  <2> SUFFICES ASSUME NEW i \in 1..Len(s \o r)
               PROVE  (s \o r)[i] \in RangeOf(s) \cup RangeOf(r)
    BY DEF RangeOf
  <2>1. CASE i <= Len(s)
    BY <1>1, <2>1 DEF RangeOf
  <2>2. CASE ~(i <= Len(s))
    <3>1. i - Len(s) \in 1..Len(r) /\ (s \o r)[i] = r[i - Len(s)]
      BY <1>1, <2>2
    <3> QED
      BY <3>1 DEF RangeOf
  <2> QED
    BY <2>1, <2>2
<1>3. RangeOf(s) \subseteq RangeOf(s \o r)
  <2> SUFFICES ASSUME NEW i \in 1..Len(s) PROVE s[i] \in RangeOf(s \o r)
    BY DEF RangeOf
  <2>1. i \in 1..Len(s \o r) /\ (s \o r)[i] = s[i]
    BY <1>1
  <2> QED
    BY <2>1 DEF RangeOf
<1>4. RangeOf(r) \subseteq RangeOf(s \o r)
  <2> SUFFICES ASSUME NEW i \in 1..Len(r) PROVE r[i] \in RangeOf(s \o r)
    BY DEF RangeOf
  <2>1. Len(s) + i \in 1..Len(s \o r) /\ (s \o r)[Len(s) + i] = r[i]
    BY <1>1
  <2> QED
    BY <2>1 DEF RangeOf
<1> QED
  BY <1>2, <1>3, <1>4

LEMMA RangeOfEmpty == RangeOf(<<>>) = {}
  BY DEF RangeOf

\* _jobs when jobs only make and send audio.
LEMMA SameSegments ==
    ASSUME NEW js \in Seq(Job), NEW ks \in Seq(Job), Len(js) = Len(ks),
           \A i \in 1..Len(js) : js[i].seg = ks[i].seg
    PROVE  Segments(js) = Segments(ks)
  BY SegmentsOfJobs DEF Segments

\* The first of the jobs and the others.
LEMMA SegmentsOfTail ==
    ASSUME NEW js \in Seq(Job), js # <<>>
    PROVE  RangeOf(Segments(js)) = {Head(js).seg} \cup RangeOf(Segments(Tail(js)))
<1>1. /\ Len(js) \in Nat \ {0} /\ Tail(js) \in Seq(Job) /\ Len(Tail(js)) = Len(js) - 1
      /\ \A i \in 1..Len(Tail(js)) : Tail(js)[i] = js[i + 1]
      /\ Head(js) = js[1]
  BY HeadTailProperties, EmptySeq
<1>2. RangeOf(Segments(js)) = {js[i].seg : i \in 1..Len(js)}
  BY SegmentsOfJobs DEF RangeOf
<1>3. RangeOf(Segments(Tail(js))) = {js[i + 1].seg : i \in 1..(Len(js) - 1)}
  <2>1. Len(Segments(Tail(js))) = Len(js) - 1
    BY <1>1, SegmentsOfJobs
  <2>2. \A i \in 1..(Len(js) - 1) : Segments(Tail(js))[i] = js[i + 1].seg
    BY <1>1, SegmentsOfJobs, ZenonT(30)
  <2> QED
    BY <2>1, <2>2 DEF RangeOf
<1>4. ASSUME NEW i \in 1..Len(js) PROVE i = 1 \/ i - 1 \in 1..(Len(js) - 1)
  BY <1>1
<1>5. \A i \in 1..(Len(js) - 1) : i + 1 \in 1..Len(js)
  BY <1>1
<1>6. 1 \in 1..Len(js)
  BY <1>1
<1>7. \A i \in 1..Len(js) : (i - 1) + 1 = i
  OBVIOUS
<1>8. RangeOf(Segments(js)) \subseteq {js[1].seg} \cup RangeOf(Segments(Tail(js)))
  <2> SUFFICES ASSUME NEW i \in 1..Len(js)
               PROVE  js[i].seg \in {js[1].seg} \cup RangeOf(Segments(Tail(js)))
    BY <1>2
  <2>1. CASE i = 1
    BY <2>1
  <2>2. CASE i - 1 \in 1..(Len(js) - 1)
    BY <1>3, <1>7, <2>2
  <2> QED
    BY <1>4, <2>1, <2>2
<1>9. {js[1].seg} \cup RangeOf(Segments(Tail(js))) \subseteq RangeOf(Segments(js))
  BY <1>2, <1>3, <1>5, <1>6
<1> QED
  BY <1>1, <1>8, <1>9

\* What is dispatched is in work.
LEMMA TopUpDispatches ==
    ASSUME SpeakInv, NEW js \in Seq(Job), NEW n \in Nat, TopsUp(js, n)
    PROVE  /\ Len(jobs') = Len(js) + n /\ Len(dispatched') = Len(dispatched) + n
           /\ \E new : /\ RangeOf(dispatched') = RangeOf(dispatched) \cup new
                       /\ RangeOf(Segments(jobs')) = RangeOf(Segments(js)) \cup new
<1> DEFINE seen == SubSeq(queue, 1, n)
<1>1. /\ seen \in Seq(Segment) /\ Len(seen) = n /\ \A i \in 1..n : seen[i] = queue[i]
  <2>1. \A i \in 1..n : queue[i] \in Segment
    BY DEF TopsUp
  <2>2. /\ seen \in Seq(Segment) /\ Len(seen) = IF 1 <= n THEN n - 1 + 1 ELSE 0
        /\ \A i \in 1..n - 1 + 1 : seen[i] = queue[1 + i - 1]
    BY <2>1, SubSeqProperties
  <2> QED
    BY <2>2
<1>2. dispatched \in Seq(Segment) /\ dispatched' = dispatched \o seen
  BY DEF SpeakInv, TypeOK, TopsUp
<1> HIDE DEF seen
<1>3. /\ Len(dispatched') = Len(dispatched) + n
      /\ RangeOf(dispatched') = RangeOf(dispatched) \cup RangeOf(seen)
  <2>1. Len(dispatched \o seen) = Len(dispatched) + Len(seen)
    BY <1>1, <1>2, ConcatProperties
  <2>2. RangeOf(dispatched \o seen) = RangeOf(dispatched) \cup RangeOf(seen)
    BY <1>1, <1>2, RangeOfConcat
  <2> QED
    BY <1>1, <1>2, <2>1, <2>2
<1>4. Segments(jobs') = Segments(js) \o seen
  <2>1. /\ Segments(js) \in Seq(Segment) /\ Len(Segments(js)) = Len(js)
        /\ \A i \in 1..Len(js) : Segments(js)[i] = js[i].seg
    BY SegmentsOfJobs
  <2>2. /\ Segments(js) \o seen \in Seq(Segment) /\ Len(Segments(js) \o seen) = Len(js) + n
        /\ \A i \in 1..Len(js) + n : (Segments(js) \o seen)[i]
              = IF i <= Len(js) THEN Segments(js)[i] ELSE seen[i - Len(js)]
    BY <1>1, <2>1, ConcatProperties
  <2>3. jobs' \in Seq(Job) /\ Len(jobs') = Len(js) + n
        /\ Segments(jobs') \in Seq(Segment) /\ Len(Segments(jobs')) = Len(js) + n
        /\ \A i \in 1..Len(js) + n : Segments(jobs')[i] = jobs'[i].seg
    <3>1. jobs' \in Seq(Job) /\ Len(jobs') = Len(js) + n
      BY DEF TopsUp
    <3>2. \A ks \in Seq(Job) : /\ Segments(ks) \in Seq(Segment) /\ Len(Segments(ks)) = Len(ks)
                               /\ \A i \in 1..Len(ks) : Segments(ks)[i] = ks[i].seg
      BY SegmentsOfJobs
    <3> QED
      BY <3>1, <3>2
  <2>4. ASSUME NEW i \in 1..Len(js) + n
        PROVE  Segments(jobs')[i] = (Segments(js) \o seen)[i]
    <3>1. CASE i <= Len(js)
      <4>1. i \in 1..Len(js)
        BY <3>1
      <4>2. jobs'[i] = js[i]
        BY <4>1 DEF TopsUp
      <4> QED
        BY <2>1, <2>2, <2>3, <3>1, <4>1, <4>2
    <3>2. CASE ~(i <= Len(js))
      <4>1. Len(js) \in Nat
        OBVIOUS
      <4>2. i - Len(js) \in 1..n /\ Len(js) + (i - Len(js)) = i
        BY <3>2, <4>1
      <4>3. jobs'[Len(js) + (i - Len(js))].seg = queue[i - Len(js)]
        BY <4>2 DEF TopsUp
      <4> QED
        BY <1>1, <2>2, <2>3, <3>2, <4>2, <4>3
    <3> QED
      BY <3>1, <3>2
  <2> QED
    BY <2>2, <2>3, <2>4, SeqEqual
<1>5. RangeOf(Segments(jobs')) = RangeOf(Segments(js)) \cup RangeOf(seen)
  BY <1>1, <1>4, RangeOfConcat, SegmentsOfJobs
<1> QED
  BY <1>3, <1>5 DEF TopsUp

\* The lengths of the three lists.
LEMMA Lengths ==
    ASSUME TypeOK
    PROVE  /\ Len(finished) \in Nat /\ Len(jobs) \in Nat /\ Len(dying) \in Nat
           /\ Len(dispatched) \in Nat /\ Segments(jobs) \in Seq(Segment)
           /\ Len(Segments(jobs)) = Len(jobs) /\ Segments(<<>>) = <<>>
<1>1. /\ finished \in Seq(Segment) /\ jobs \in Seq(Job) /\ dying \in Seq(Segment)
      /\ dispatched \in Seq(Segment)
  BY DEF TypeOK
<1>2. Segments(<<>>) = <<>>
  BY DEF Segments
<1> QED
  BY <1>1, <1>2, SegmentsOfJobs

\* A clear moves what is in work to what it cancels.
LEMMA TakeJobsKeepsBill ==
    ASSUME SpeakInv, BillInv, TakeJobs, reader # "gathering", run # "done",
           UNCHANGED <<finished, dispatched, usage, run>>
    PROVE  BillInv'
<1>1. dying' = Segments(jobs) /\ jobs' = <<>> /\ dying = <<>> /\ usage = <<>>
  BY DEF TakeJobs, BillInv
<1>2. Len(dying') = Len(jobs) /\ Len(jobs') = 0 /\ Segments(jobs') = <<>>
  BY <1>1, Lengths DEF SpeakInv
<1>3. Balanced'
  BY <1>1, <1>2, Lengths, RangeOfEmpty DEF Balanced, BillInv, SpeakInv
<1>4. reader' # "gathering" => dying' = <<>>
  <2>1. CASE jobs = <<>>
    BY <1>1, <2>1, Lengths DEF SpeakInv
  <2>2. CASE jobs # <<>>
    BY <2>2 DEF TakeJobs
  <2> QED
    BY <2>1, <2>2
<1> QED
  BY <1>1, <1>3, <1>4 DEF BillInv

\* Jobs that make or send audio keep their segments.
LEMMA SameSegmentsKeepBill ==
    ASSUME SpeakInv, SpeakInv', BillInv, run # "opening", run # "done",
           Len(jobs') = Len(jobs), \A i \in 1..Len(jobs) : jobs'[i].seg = jobs[i].seg,
           UNCHANGED <<finished, dying, dispatched, usage, run, reader>>
    PROVE  BillInv'
<1>1. jobs \in Seq(Job) /\ jobs' \in Seq(Job)
  BY DEF SpeakInv, TypeOK
<1>2. Segments(jobs') = Segments(jobs)
  BY <1>1, SameSegments
<1> QED
  BY <1>2 DEF BillInv, Balanced

\* A step that leaves the lists alone.
LEMMA SameListsKeepBill ==
    ASSUME BillInv, UNCHANGED <<jobs, finished, dying, dispatched, usage>>,
           run' = "opening" => run = "opening", run = "done" => run' = "done",
           reader = "gathering" => reader' = "gathering"
    PROVE  BillInv'
  BY DEF BillInv, Balanced

LEMMA StepKeepsBill == SpeakInv /\ SpeakInv' /\ BillInv /\ [Next]_vars => BillInv'
<1> SUFFICES ASSUME SpeakInv, SpeakInv', BillInv, [Next]_vars PROVE BillInv'
  OBVIOUS
<1> USE DEF textPart, workPart, pipePart, pairPart, readPart, runPart
<1>1. CASE Open
  BY <1>1, SameListsKeepBill DEF Open
<1>2. CASE OpenFails
  <2>1. jobs = <<>> /\ usage = <<>> /\ run' = "done"
        /\ UNCHANGED <<jobs, finished, dying, dispatched, reader>>
    BY <1>2 DEF OpenFails, BillInv
  <2>2. usage' = Append(<<>>, UsageEvent(status'))
    BY <1>2, <2>1 DEF OpenFails
  <2>3. UsageEvent(status').runs = finished
    <3>1. finished \o Segments(<<>>) = finished
      BY Lengths, ConcatEmptySeq DEF SpeakInv, TypeOK
    <3> QED
      BY <2>1, <3>1 DEF UsageEvent
  <2>4. Len(usage') = 1 /\ usage'[1] = UsageEvent(status')
    BY <2>2
  <2>5. \A k \in 1..Len(usage') : usage'[k].runs = finished
    BY <2>3, <2>4
  <2> QED
    BY <2>1, <2>5 DEF BillInv, Balanced
<1>3. CASE ReadText
  BY <1>3, SameListsKeepBill DEF ReadText
<1>4. CASE ReadFinalize
  BY <1>4, SameListsKeepBill DEF ReadFinalize
<1>5. CASE ReadDisconnect
  BY <1>5, SameListsKeepBill DEF ReadDisconnect
<1>6. CASE ReadClear
  <2>1. CASE inner = "running"
    BY <1>6, <2>1, SameListsKeepBill DEF ReadClear
  <2>2. CASE inner # "running"
    BY <1>6, <2>2, TakeJobsKeepsBill DEF ReadClear, Live
  <2> QED
    BY <2>1, <2>2
<1>7. CASE ClearTakesJobs
  BY <1>7, TakeJobsKeepsBill DEF ClearTakesJobs, Live
<1>8. CASE ClearDrops
  <2>1. /\ finished' = finished \o dying /\ dying' = <<>> /\ usage = <<>>
        /\ UNCHANGED <<jobs, dispatched, usage, run>> /\ run # "opening"
    BY <1>8 DEF ClearDrops, BillInv, Live
  <2>2. finished \in Seq(Segment) /\ dying \in Seq(Segment)
    BY DEF SpeakInv, TypeOK
  <2>3. Len(finished') = Len(finished) + Len(dying) /\ Len(dying') = 0
        /\ RangeOf(finished') = RangeOf(finished) \cup RangeOf(dying) /\ RangeOf(dying') = {}
    <3>1. Len(finished \o dying) = Len(finished) + Len(dying)
      BY <2>2, ConcatProperties
    <3>2. RangeOf(finished \o dying) = RangeOf(finished) \cup RangeOf(dying)
      BY <2>2, RangeOfConcat
    <3> QED
      BY <2>1, <3>1, <3>2, RangeOfEmpty
  <2>4. Balanced'
    BY <2>1, <2>3, Lengths DEF Balanced, BillInv, SpeakInv
  <2> QED
    BY <2>1, <2>4 DEF BillInv
<1>9. CASE ClearSays
  BY <1>9, SameListsKeepBill DEF ClearSays
<1>10. CASE ClearEnds
  BY <1>10, SameListsKeepBill DEF ClearEnds
<1>11. CASE ClientLeaves
  BY <1>11, SameListsKeepBill DEF ClientLeaves
<1>12. CASE Supervisor
  BY <1>12, SameListsKeepBill DEF Supervisor, Restart, SupervisorEnds
<1>13. ASSUME TopUp(jobs), run \in {"running", "decided"},
              UNCHANGED <<finished, dying, usage, run, reader>>
       PROVE  BillInv'
  <2>1. jobs \in Seq(Job) /\ Len(jobs) <= PREFETCH + 1
    BY DEF SpeakInv, TypeOK, BoundedPrefetch
  <2>2. PICK n \in Nat : TopsUp(jobs, n)
    BY <1>13, <2>1, TopUpEffect
  <2>3. /\ Len(jobs') = Len(jobs) + n /\ Len(dispatched') = Len(dispatched) + n
        /\ \E new : /\ RangeOf(dispatched') = RangeOf(dispatched) \cup new
                    /\ RangeOf(Segments(jobs')) = RangeOf(Segments(jobs)) \cup new
    BY <2>1, <2>2, TopUpDispatches
  <2>4. Balanced'
    BY <1>13, <2>3, Lengths, SMTT(30) DEF Balanced, BillInv, SpeakInv
  <2>5. usage = <<>>
    BY <1>13 DEF BillInv
  <2> QED
    BY <1>13, <2>4, <2>5 DEF BillInv
<1>14. CASE Turn
  BY <1>13, <1>14 DEF Turn, Advance, Piping, Live
<1>15. CASE Produce
  <2>1. Len(jobs') = Len(jobs) /\ \A i \in 1..Len(jobs) : jobs'[i].seg = jobs[i].seg
    <3>1. PICK i \in 1..Len(jobs) :
            \/ /\ jobs[i].made < MaxAudio
               /\ jobs' = [jobs EXCEPT ![i].made = @ + 1, ![i].ready = @ + 1]
            \/ \E e \in {"end"} \cup (Faults \cap JobFaults) : jobs' = [jobs EXCEPT ![i].end = e]
      BY <1>15 DEF Produce
    <3>2. jobs \in Seq(Job)
      BY DEF SpeakInv, TypeOK
    <3>3. \A k \in 1..Len(jobs) : jobs[k] \in Job
      BY <3>2, ElementOfSeq
    <3>4. DOMAIN jobs' = DOMAIN jobs /\ jobs' \in Seq(Job)
      BY <3>1 DEF SpeakInv, TypeOK
    <3>5. \A k \in 1..Len(jobs) : DOMAIN jobs[k] = {"seg", "ready", "made", "end"}
      BY <3>3 DEF Job
    <3>6. \A k \in 1..Len(jobs) : jobs'[k].seg = jobs[k].seg
      BY <3>1, <3>2, <3>5
    <3> QED
      BY <3>2, <3>4, <3>6, LenProperties
  <2> QED
    BY <1>15, <2>1, SameSegmentsKeepBill DEF Produce, Live
<1>16. CASE SendHeader
  <2>1. Len(jobs') = Len(jobs) /\ \A i \in 1..Len(jobs) : jobs'[i].seg = jobs[i].seg
    <3>1. jobs' = [jobs EXCEPT ![1].ready = @ - 1]
      BY <1>16 DEF SendHeader
    <3>2. jobs \in Seq(Job)
      BY DEF SpeakInv, TypeOK
    <3>3. \A i \in 1..Len(jobs) : jobs[i] \in Job
      BY <3>2, ElementOfSeq
    <3>4. \A i \in 1..Len(jobs) : DOMAIN jobs[i] = {"seg", "ready", "made", "end"}
      BY <3>3 DEF Job
    <3> QED
      BY <3>1, <3>2, <3>4
  <2> QED
    BY <1>16, <2>1, SameSegmentsKeepBill DEF SendHeader, Piping, Live
<1>17. CASE SendAudio
  <2>1. UNCHANGED <<finished, dying, usage, run, reader>> /\ pair # NoPair
    BY <1>17 DEF SendAudio
  <2>2. CASE pair.own /\ TopUp(jobs)
    BY <1>13, <2>1, <2>2 DEF SpeakInv, PairInv
  <2>3. CASE UNCHANGED workPart
    BY <2>1, <2>3, SameListsKeepBill
  <2> QED
    BY <1>17, <2>2, <2>3 DEF SendAudio
<1>18. CASE JobEnds
  <2>1. jobs \in Seq(Job) /\ jobs # <<>> /\ Head(jobs).seg \in Segment
    <3>1. jobs \in Seq(Job) /\ jobs # <<>> /\ Head(jobs) \in Job
      BY <1>18 DEF JobEnds, SpeakInv, TypeOK
    <3> QED
      BY <3>1 DEF Job
  <2>2. /\ finished' = Append(finished, Head(jobs).seg) /\ TopUp(Tail(jobs))
        /\ UNCHANGED <<dying, usage, run, reader>> /\ run \in {"running", "decided"}
    BY <1>18 DEF JobEnds, Advance, Piping, Live
  <2>3. Tail(jobs) \in Seq(Job) /\ Len(Tail(jobs)) = Len(jobs) - 1
        /\ Len(Tail(jobs)) <= PREFETCH + 1
    BY <2>1, SpeakAssumption DEF SpeakInv, BoundedPrefetch
  <2>4. PICK n \in Nat : TopsUp(Tail(jobs), n)
    BY <2>2, <2>3, TopUpEffect
  <2>5. /\ Len(jobs') = Len(Tail(jobs)) + n /\ Len(dispatched') = Len(dispatched) + n
        /\ \E new : /\ RangeOf(dispatched') = RangeOf(dispatched) \cup new
                    /\ RangeOf(Segments(jobs')) = RangeOf(Segments(Tail(jobs))) \cup new
    BY <2>3, <2>4, TopUpDispatches
  <2>6. RangeOf(Segments(jobs)) = {Head(jobs).seg} \cup RangeOf(Segments(Tail(jobs)))
    BY <2>1, SegmentsOfTail
  <2>7. Len(finished') = Len(finished) + 1
        /\ RangeOf(finished') = RangeOf(finished) \cup {Head(jobs).seg}
    <3>1. finished \in Seq(Segment) /\ <<Head(jobs).seg>> \in Seq(Segment)
      BY <2>1 DEF SpeakInv, TypeOK
    <3>2. finished' = finished \o <<Head(jobs).seg>>
      BY <2>1, <2>2, <3>1, AppendIsConcat
    <3>3. RangeOf(<<Head(jobs).seg>>) = {Head(jobs).seg} /\ Len(<<Head(jobs).seg>>) = 1
      BY DEF RangeOf
    <3>4. RangeOf(finished') = RangeOf(finished) \cup RangeOf(<<Head(jobs).seg>>)
      BY <3>1, <3>2, RangeOfConcat, SMTT(30), ZenonT(30)
    <3>5. Len(finished') = Len(finished) + Len(<<Head(jobs).seg>>)
      BY <3>1, <3>2, ConcatProperties
    <3> QED
      BY <3>3, <3>4, <3>5
  <2>8. Balanced'
    <3>1. Len(finished') + Len(jobs') + Len(dying') = Len(dispatched')
      <4>1. Len(finished) + Len(jobs) + Len(dying) = Len(dispatched) /\ dying' = dying
        BY <2>2 DEF Balanced, BillInv
      <4>2. Len(finished) \in Nat /\ Len(jobs) \in Nat /\ Len(dying) \in Nat
            /\ Len(dispatched) \in Nat
        BY Lengths DEF SpeakInv
      <4>3. Len(finished') = Len(finished) + 1 /\ Len(jobs') = (Len(jobs) - 1) + n
            /\ Len(dispatched') = Len(dispatched) + n
        BY <2>3, <2>5, <2>7
      <4> QED
        BY <4>1, <4>2, <4>3
    <3>2. RangeOf(finished') \cup RangeOf(Segments(jobs')) \cup RangeOf(dying')
            = RangeOf(dispatched')
      BY <2>2, <2>5, <2>6, <2>7 DEF Balanced, BillInv
    <3> QED
      BY <3>1, <3>2 DEF Balanced
  <2>9. usage = <<>>
    BY <2>2 DEF BillInv
  <2> QED
    BY <2>2, <2>8, <2>9 DEF BillInv
<1>19. CASE JobFails
  BY <1>19, SameListsKeepBill DEF JobFails
<1>20. CASE TakeStale
  BY <1>20, SameListsKeepBill DEF TakeStale
<1>21. ASSUME NEW limit \in Trips, WatchdogTrips(limit) PROVE BillInv'
  BY <1>21, SameListsKeepBill DEF WatchdogTrips
<1>22. CASE DecideBySupervisor
  BY <1>22, SameListsKeepBill DEF DecideBySupervisor, Verdict, Silently
<1>23. CASE DecideByOther
  BY <1>23, SameListsKeepBill DEF DecideByOther, Verdict, Silently
<1>24. CASE Cancelled
  BY <1>24, SameListsKeepBill DEF Cancelled, Silently
<1>25. CASE Teardown
  <2>1. /\ usage = <<>> /\ usage' = Append(usage, UsageEvent(status))
        /\ finished' = finished \o Segments(jobs) /\ jobs' = <<>> /\ run' = "done"
        /\ UNCHANGED <<dispatched, dying, reader>>
    BY <1>25 DEF Teardown, BillInv
  <2>2. usage' = Append(<<>>, UsageEvent(status))
    BY <2>1
  <2>3. Len(usage') = 1 /\ usage'[1] = UsageEvent(status)
    BY <2>2
  <2>4. \A k \in 1..Len(usage') : usage'[k].runs = finished'
    BY <2>1, <2>3 DEF UsageEvent
  <2>5. Len(finished') = Len(finished) + Len(jobs)
        /\ RangeOf(finished') = RangeOf(finished) \cup RangeOf(Segments(jobs))
    <3>1. finished \in Seq(Segment) /\ Segments(jobs) \in Seq(Segment)
          /\ Len(Segments(jobs)) = Len(jobs)
      BY Lengths DEF SpeakInv, TypeOK
    <3>2. Len(finished \o Segments(jobs)) = Len(finished) + Len(Segments(jobs))
      BY <3>1, ConcatProperties
    <3>3. RangeOf(finished \o Segments(jobs)) = RangeOf(finished) \cup RangeOf(Segments(jobs))
      BY <3>1, RangeOfConcat
    <3> QED
      BY <2>1, <3>1, <3>2, <3>3
  <2>6. Len(jobs') = 0 /\ RangeOf(Segments(jobs')) = {}
    BY <2>1, Lengths, RangeOfEmpty DEF SpeakInv
  <2>7. Balanced'
    BY <2>1, <2>5, <2>6, Lengths DEF Balanced, BillInv, SpeakInv
  <2> QED
    BY <2>1, <2>4, <2>7 DEF BillInv
<1>26. CASE Killed
  BY <1>26, SameListsKeepBill DEF Killed
<1>27. CASE UNCHANGED vars
  BY <1>27, SameListsKeepBill DEF vars
<1> QED
  BY <1>1, <1>2, <1>3, <1>4, <1>5, <1>6, <1>7, <1>8, <1>9, <1>10, <1>11, <1>12, <1>14, <1>15,
     <1>16, <1>17, <1>18, <1>19, <1>20, <1>21, <1>22, <1>23, <1>24, <1>25, <1>26, <1>27
     DEF Next, Reader, Clear, Pipeline, Decide

LEMMA InitBill == Init => BillInv
  BY RangeOfEmpty DEF Init, BillInv, Balanced, Segments

\* The bill has every dispatched segment, once: each run that was started is in
\* the usage event, except the jobs a clear is still cancelling.
THEOREM BillIsExact == Spec => []EachRunIsCountedOnce
<1>1. SpeakInv /\ BillInv => EachRunIsCountedOnce
  <2> SUFFICES ASSUME SpeakInv, BillInv, NEW i \in 1..Len(usage)
               PROVE  /\ Len(usage[i].runs \o dying) = Len(dispatched)
                      /\ RangeOf(usage[i].runs \o dying) = RangeOf(dispatched)
    BY DEF EachRunIsCountedOnce
  <2>1. usage[i].runs = finished /\ jobs = <<>>
    BY DEF BillInv
  <2>2. finished \in Seq(Segment) /\ dying \in Seq(Segment)
    BY DEF SpeakInv, TypeOK
  <2>3. Len(finished \o dying) = Len(finished) + Len(dying)
    BY <2>2, ConcatProperties
  <2>4. RangeOf(finished \o dying) = RangeOf(finished) \cup RangeOf(dying)
    BY <2>2, RangeOfConcat
  <2>5. Len(jobs) = 0 /\ RangeOf(Segments(jobs)) = {}
    BY <2>1, Lengths, RangeOfEmpty DEF SpeakInv
  <2> QED
    BY <2>1, <2>3, <2>4, <2>5, Lengths DEF BillInv, Balanced, SpeakInv
<1> QED
  BY <1>1, InitSpeak, InitBill, StepKeepsSpeak, StepKeepsBill, PTL DEF Spec
-----------------------------------------------------------------------------
(* The order of the audio.                                                 *)

\* A step that sends no audio and starts no pair.
SameAudio == /\ Frames("audio")' = Frames("audio")
             /\ \A f \in Frames("audio") : out'[f] = out[f]
SamePair == pair' # NoPair => /\ pair # NoPair
                              /\ pair'.seg = pair.seg /\ pair'.seq = pair.seq

LEMMA AudioFrames ==
    ASSUME TypeOK, NEW f \in Frames("audio")
    PROVE  out[f].seq \in Nat /\ out[f].seg \in Segment
<1>1. out[f] \in Frame /\ out[f].type = "audio"
  BY DEF TypeOK, Frames
<1> QED
  BY <1>1 DEF Frame

LEMMA PastIsText == ASSUME TypeOK PROVE Past \subseteq Segment
<1>1. pair # NoPair => pair.seg \in Segment
  BY DEF TypeOK, Pair
<1> QED
  BY <1>1, AudioFrames DEF Past

LEMMA OutUnchanged == UNCHANGED out => SameAudio
  BY DEF SameAudio, Frames

LEMMA SendsNoAudio ==
    ASSUME TypeOK, NEW frame \in Frame, frame.type # "audio", Send(frame)
    PROVE  SameAudio
<1>1. CASE client = "here"
  <2>1. out \in Seq(Frame) /\ out' = Append(out, frame)
    BY <1>1 DEF Send, TypeOK
  <2>2. /\ Len(out) \in Nat /\ Len(out') = Len(out) + 1 /\ out'[Len(out) + 1] = frame
        /\ \A i \in 1..Len(out) : out'[i] = out[i]
    BY <2>1, AppendProperties
  <2>3. Frames("audio")' = Frames("audio")
    BY <2>2 DEF Frames
  <2> QED
    BY <2>2, <2>3 DEF SameAudio, Frames
<1>2. CASE client # "here"
  BY <1>2, OutUnchanged DEF Send
<1> QED
  BY <1>1, <1>2

LEMMA PairUnchanged == UNCHANGED pair => SamePair
  BY DEF SamePair

LEMMA PairOrphaned == SpeakInv /\ pair' = Orphaned => SamePair
  BY OrphanedPair DEF SamePair

LEMMA SamePast == ASSUME SameAudio, SamePair PROVE Past' \subseteq Past
<1> DEFINE heard == {out[f].seg : f \in Frames("audio")}
<1>1. heard' = heard
  BY DEF SameAudio
<1>2. pair' # NoPair => pair # NoPair /\ pair'.seg = pair.seg
  BY DEF SamePair
<1> QED
  BY <1>1, <1>2 DEF Past

\* Only SendHeader and SendAudio have to do with audio.
LEMMA OthersSendNoAudio ==
    ASSUME SpeakInv, [Next]_vars
    PROVE  SendHeader \/ SendAudio \/ (SameAudio /\ SamePair /\ seq' = seq)
<1> USE DEF textPart, workPart, pipePart, pairPart, readPart, runPart
<1> DEFINE Quiet == SameAudio /\ SamePair /\ seq' = seq
<1>1. TypeOK
  BY DEF SpeakInv
<1>2. UNCHANGED <<out, pair, seq>> => Quiet
  BY OutUnchanged, PairUnchanged
<1>3. UNCHANGED <<out, seq>> /\ pair' = Orphaned => Quiet
  BY OutUnchanged, PairOrphaned
<1>4. ASSUME NEW frame \in Frame, frame.type # "audio", Send(frame), UNCHANGED <<pair, seq>>
      PROVE  Quiet
  BY <1>1, <1>4, SendsNoAudio, PairUnchanged
<1> SUFFICES SendHeader \/ SendAudio \/ Quiet
  OBVIOUS
<1> HIDE DEF Quiet
<1>5. CASE Open
  <2>1. [type |-> "session.open"] \in Frame
    BY DEF Frame
  <2> QED
    BY <1>4, <1>5, <2>1 DEF Open
<1>6. CASE OpenFails \/ ReadText \/ ReadFinalize \/ ReadDisconnect \/ ClearTakesJobs
           \/ ClearDrops \/ ClearEnds \/ ClientLeaves \/ Restart \/ SupervisorEnds
  BY <1>2, <1>6 DEF OpenFails, ReadText, ReadFinalize, ReadDisconnect, ClearTakesJobs,
                    ClearDrops, ClearEnds, ClientLeaves, Restart, SupervisorEnds
<1>7. CASE ReadClear
  BY <1>2, <1>3, <1>7 DEF ReadClear
<1>8. CASE ClearSays
  <2>1. [type |-> "cleared", seq |-> sent, deltas |-> deltas] \in Frame
    BY <1>1, SpeakAssumption DEF Frame, TypeOK
  <2>2. UNCHANGED <<pair, seq>>
    BY <1>8 DEF ClearSays
  <2>3. CASE Send([type |-> "cleared", seq |-> sent, deltas |-> deltas])
    BY <1>4, <2>1, <2>2, <2>3
  <2>4. CASE UNCHANGED out
    BY <1>2, <2>2, <2>4
  <2> QED
    BY <1>8, <2>3, <2>4 DEF ClearSays
<1>9. CASE Turn \/ JobEnds \/ JobFails \/ Produce \/ TakeStale
           \/ \E limit \in Trips : WatchdogTrips(limit)
  BY <1>2, <1>9 DEF Turn, JobEnds, JobFails, Produce, TakeStale, WatchdogTrips
<1>10. ASSUME NEW s, Silently(s), UNCHANGED seq PROVE Quiet
  BY <1>3, <1>10 DEF Silently
<1>11. CASE DecideBySupervisor
  <2>1. [type |-> "done", runs |-> finished \o Segments(jobs)] \in Frame
    <3>1. finished \o Segments(jobs) \in Seq(Segment)
      BY <1>1, SegmentsOfJobs, ConcatProperties DEF TypeOK
    <3> QED
      BY <3>1 DEF Frame
  <2>2. /\ Error("provider_error") \in Frame /\ Error("internal_error") \in Frame
        /\ Error("provider_error").type = "error" /\ Error("internal_error").type = "error"
    BY DEF Error, Frame
  <2>3. UNCHANGED seq
    BY <1>11 DEF DecideBySupervisor
  <2>4. CASE \E s : Silently(s)
    BY <1>10, <2>3, <2>4
  <2>5. CASE \E s : \E frame \in Frame : frame.type # "audio" /\ Verdict(s, frame)
    BY <1>4, <2>3, <2>5 DEF Verdict
  <2> QED
    <3>1. \/ Verdict("completed", [type |-> "done", runs |-> finished \o Segments(jobs)])
          \/ Silently(ByeStatus)
          \/ Verdict("provider_error", Error("provider_error"))
          \/ Verdict("error", Error("internal_error"))
      BY <1>11 DEF DecideBySupervisor
    <3>2. CASE Verdict("completed", [type |-> "done", runs |-> finished \o Segments(jobs)])
      <4>1. [type |-> "done", runs |-> finished \o Segments(jobs)].type # "audio"
        OBVIOUS
      <4> QED
        BY <2>1, <2>5, <3>2, <4>1
    <3>3. CASE Silently(ByeStatus)
      BY <2>4, <3>3
    <3>4. CASE Verdict("provider_error", Error("provider_error"))
      <4>1. Error("provider_error").type # "audio"
        BY <2>2
      <4> QED
        BY <2>2, <2>5, <3>4, <4>1
    <3>5. CASE Verdict("error", Error("internal_error"))
      <4>1. Error("internal_error").type # "audio"
        BY <2>2
      <4> QED
        BY <2>2, <2>5, <3>5, <4>1
    <3> QED
      BY <3>1, <3>2, <3>3, <3>4, <3>5
<1>12. CASE DecideByOther
  <2>1. watchdog # "on" => Error(watchdog) \in Frame /\ Error(watchdog).type = "error"
    BY <1>1 DEF TypeOK, Error, Frame
  <2>2. UNCHANGED seq
    BY <1>12 DEF DecideByOther
  <2>3. CASE Silently(ByeStatus)
    BY <1>10, <2>2, <2>3
  <2>4. CASE watchdog # "on" /\ Verdict(watchdog, Error(watchdog))
    BY <1>4, <2>1, <2>2, <2>4 DEF Verdict
  <2> QED
    BY <1>12, <2>3, <2>4 DEF DecideByOther
<1>13. CASE Cancelled
  BY <1>10, <1>13 DEF Cancelled
<1>14. CASE Teardown \/ Killed
  BY <1>3, <1>14 DEF Teardown, Killed
<1>15. CASE UNCHANGED vars
  BY <1>2, <1>15 DEF vars
<1> QED
  BY <1>5, <1>6, <1>7, <1>8, <1>9, <1>11, <1>12, <1>13, <1>14, <1>15
     DEF Next, Reader, Clear, Supervisor, Pipeline, Decide

\* The text in the jobs, when they make and send audio or are taken away.
LEMMA FewerJobsKeepChain ==
    ASSUME NEW js, NEW ks, NEW q, NEW c, NEW past, Chain(js, q, c, past),
           ks = <<>> \/ (/\ Len(ks) = Len(js)
                        /\ \A i \in 1..Len(js) : ks[i].seg = js[i].seg),
           Len(js) \in Nat
    PROVE  Chain(ks, q, c, past)
<1>1. CASE ks = <<>>
  <2>1. 1..Len(ks) = {}
    BY <1>1
  <2> QED
    BY <2>1 DEF Chain
<1>2. CASE Len(ks) = Len(js) /\ \A i \in 1..Len(js) : ks[i].seg = js[i].seg
  <2>1. \A a : \A i \in 1..Len(js) : Follows(a, js, i) => Follows(a, ks, i)
    <3> SUFFICES ASSUME NEW a, NEW i \in 1..Len(js), Follows(a, js, i) PROVE Follows(a, ks, i)
      OBVIOUS
    <3>1. 1 \in 1..Len(js)
      OBVIOUS
    <3> QED
      BY <1>2, <3>1 DEF Follows
  <2> QED
    BY <1>2, <2>1 DEF Chain
<1> QED
  BY <1>1, <1>2

\* Past is forgotten, not rewritten.
LEMMA ShorterPastKeepsChain ==
    ASSUME NEW js, NEW q, NEW c, NEW past, NEW less, less \subseteq past,
           Chain(js, q, c, past)
    PROVE  Chain(js, q, c, less)
  BY DEF Chain

\* The queue is emptied.
LEMMA EmptyQueueKeepsChain ==
    ASSUME NEW js, NEW q, NEW c \in Int, NEW d \in Int, NEW past, Chain(js, q, c, past),
           c <= d, past \subseteq Segment, js \in Seq(Job)
    PROVE  Chain(js, <<>>, d, past)
<1>1. \A i \in 1..Len(js) : js[i].seg.to \in Int
  <2>1. \A i \in 1..Len(js) : js[i].seg \in Segment
    BY SegmentsOfJobs
  <2> QED
    BY <2>1 DEF Segment
<1>2. \A a \in past : a.to \in Int
  BY DEF Segment
<1>3. 1..Len(<<>>) = {}
  OBVIOUS
<1> QED
  BY <1>1, <1>2, <1>3 DEF Chain

\* The segmenter lets go of more text, up to d, which is queued last; or Final is.
LEMMA AppendKeepsChain ==
    ASSUME NEW js \in Seq(Job), NEW q \in Seq(Segment \cup {Final}), NEW c \in Nat,
           NEW past, past \subseteq Segment, Chain(js, q, c, past),
           NEW d \in Nat, c <= d, NEW seg,
           seg = Final \/ (seg \in Segment /\ seg.from = c + 1 /\ seg.to = d)
    PROVE  Chain(js, Append(q, seg), d, past)
<1> DEFINE r == Append(q, seg)
<1>1. seg \in Segment \cup {Final}
  OBVIOUS
<1>2. /\ Len(q) \in Nat /\ Len(r) = Len(q) + 1 /\ r[Len(q) + 1] = seg
      /\ \A k \in 1..Len(q) : r[k] = q[k]
  BY <1>1, AppendProperties
<1> HIDE DEF r
<1>3. \A k \in 1..Len(r) : (k \in 1..Len(q) /\ r[k] = q[k]) \/ (k = Len(q) + 1 /\ r[k] = seg)
  BY <1>2
<1>4. \A i \in 1..Len(js) : js[i].seg.to \in Int /\ js[i].seg.to <= c
  <2>1. \A i \in 1..Len(js) : js[i].seg \in Segment
    BY SegmentsOfJobs
  <2> QED
    BY <2>1 DEF Segment, Chain
<1>5. \A a \in past : a.to \in Int /\ a.to <= c
  BY DEF Segment, Chain
<1>6. \A k \in 1..Len(q) : q[k].to \in Int /\ q[k].to <= c
  <2>1. \A k \in 1..Len(q) : q[k] \in Segment \cup {Final}
    BY ElementOfSeq
  <2>2. Final.to \in Int
    BY DEF Final
  <2> QED
    BY <2>1, <2>2 DEF Segment, Chain
<1>7. seg.to \in Int /\ seg.to <= d /\ (seg # Final => seg.from = c + 1)
  BY DEF Final
<1>8. \A k \in 1..Len(r) : r[k].to <= d
  BY <1>3, <1>6, <1>7
<1>9. \A a : a.to \in Int /\ a.to <= c /\ seg # Final => Before(a, seg)
  BY <1>7 DEF Before
<1>10. \A i \in 1..Len(js), k \in 1..Len(r) : r[k] # Final => Before(js[i].seg, r[k])
  BY <1>3, <1>4, <1>9 DEF Chain
<1>11. \A k, l \in 1..Len(r) : k < l /\ r[l] # Final => Before(r[k], r[l])
  <2> SUFFICES ASSUME NEW k \in 1..Len(r), NEW l \in 1..Len(r), k < l, r[l] # Final
               PROVE  Before(r[k], r[l])
    OBVIOUS
  <2>1. k \in 1..Len(q) /\ r[k] = q[k]
    BY <1>2, <1>3
  <2>2. CASE l \in 1..Len(q) /\ r[l] = q[l]
    BY <2>1, <2>2 DEF Chain
  <2>3. CASE r[l] = seg
    BY <1>6, <1>9, <2>1, <2>3
  <2> QED
    BY <1>3, <2>2, <2>3
<1>12. \A a \in past : /\ a.to <= d
                       /\ \A i \in 1..Len(js) : Follows(a, js, i)
                       /\ \A k \in 1..Len(r) : r[k] # Final => Before(a, r[k])
  <2> SUFFICES ASSUME NEW a \in past
               PROVE  /\ a.to <= d
                      /\ \A i \in 1..Len(js) : Follows(a, js, i)
                      /\ \A k \in 1..Len(r) : r[k] # Final => Before(a, r[k])
    OBVIOUS
  <2>1. a.to <= d
    BY <1>5
  <2>2. \A i \in 1..Len(js) : Follows(a, js, i)
    BY DEF Chain
  <2>3. \A k \in 1..Len(q) : q[k] # Final => Before(a, q[k])
    BY DEF Chain
  <2>4. \A k \in 1..Len(r) : r[k] # Final => Before(a, r[k])
    BY <1>3, <1>5, <1>9, <2>3
  <2> QED
    BY <2>1, <2>2, <2>4
<1>13. \A i \in 1..Len(js) : js[i].seg.to <= d
  BY <1>4
<1>14. \A i, j \in 1..Len(js) : i < j => Before(js[i].seg, js[j].seg)
  BY DEF Chain
<1>15. Chain(js, r, d, past)
  BY <1>8, <1>10, <1>11, <1>12, <1>13, <1>14 DEF Chain
<1> QED
  BY <1>15 DEF r

\* _top_up moves text from the queue to the jobs.
LEMMA TopUpKeepsChain ==
    ASSUME SpeakInv, NEW js \in Seq(Job), NEW n \in Nat, TopsUp(js, n),
           NEW past, Chain(js, queue, cut, past)
    PROVE  Chain(jobs', queue', cut, past)
<1>0. queue \in Seq(Segment \cup {Final}) /\ Len(queue) \in Nat
  <2>1. queue \in Seq(Segment \cup {Final})
    BY DEF SpeakInv, TypeOK
  <2> QED
    BY <2>1
<1>1. \A i \in 1..Len(jobs') :
          \/ i \in 1..Len(js) /\ jobs'[i].seg = js[i].seg
          \/ /\ i \notin 1..Len(js) /\ i - Len(js) \in 1..n /\ i - Len(js) \in 1..Len(queue)
             /\ jobs'[i].seg = queue[i - Len(js)] /\ queue[i - Len(js)] # Final
  <2> SUFFICES ASSUME NEW i \in 1..Len(jobs')
               PROVE  \/ i \in 1..Len(js) /\ jobs'[i].seg = js[i].seg
                      \/ /\ i \notin 1..Len(js) /\ i - Len(js) \in 1..n
                         /\ i - Len(js) \in 1..Len(queue)
                         /\ jobs'[i].seg = queue[i - Len(js)] /\ queue[i - Len(js)] # Final
    OBVIOUS
  <2>1. Len(js) \in Nat /\ Len(jobs') = Len(js) + n /\ n <= Len(queue) /\ Len(queue) \in Nat
    <3>1. n \in 0..Len(queue) /\ Len(jobs') = Len(js) + n
      BY DEF TopsUp
    <3> QED
      BY <1>0, <3>1
  <2>2. CASE i <= Len(js)
    <3>1. i \in 1..Len(js)
      BY <2>2
    <3> QED
      BY <3>1 DEF TopsUp
  <2>3. CASE ~(i <= Len(js))
    <3>1. i - Len(js) \in 1..n /\ i - Len(js) \in 1..Len(queue) /\ Len(js) + (i - Len(js)) = i
      BY <2>1, <2>3
    <3>2. queue[i - Len(js)] \in Segment /\ jobs'[Len(js) + (i - Len(js))].seg = queue[i - Len(js)]
      BY <3>1 DEF TopsUp
    <3> QED
      BY <2>3, <3>1, <3>2, FinalIsNoSegment
  <2> QED
    BY <2>2, <2>3
<1>2. \A k \in 1..Len(queue') : k + n \in 1..Len(queue) /\ queue'[k] = queue[k + n]
  BY DEF TopsUp
<1>3. Len(js) \in Nat /\ Len(jobs') \in Nat /\ Len(queue') \in Nat /\ Len(queue) \in Nat
  <2>1. jobs' \in Seq(Job) /\ queue' \in Seq(Segment \cup {Final})
    BY DEF TopsUp
  <2> QED
    BY <1>0, <2>1
<1>4. \A i, j \in 1..Len(jobs') : i < j => Before(jobs'[i].seg, jobs'[j].seg)
  <2> SUFFICES ASSUME NEW i \in 1..Len(jobs'), NEW j \in 1..Len(jobs'), i < j
               PROVE  Before(jobs'[i].seg, jobs'[j].seg)
    OBVIOUS
  <2>1. CASE j \in 1..Len(js)
    <3>1. i \in 1..Len(js)
      BY <1>3, <2>1
    <3> QED
      BY <1>1, <2>1, <3>1 DEF Chain
  <2>2. CASE j \notin 1..Len(js) /\ i \in 1..Len(js)
    BY <1>1, <2>2 DEF Chain
  <2>3. CASE j \notin 1..Len(js) /\ i \notin 1..Len(js)
    <3>1. i - Len(js) < j - Len(js)
      BY <1>3
    <3> QED
      BY <1>1, <2>3, <3>1 DEF Chain
  <2> QED
    BY <2>1, <2>2, <2>3
<1>5. \A i \in 1..Len(jobs'), k \in 1..Len(queue') :
          queue'[k] # Final => Before(jobs'[i].seg, queue'[k])
  <2> SUFFICES ASSUME NEW i \in 1..Len(jobs'), NEW k \in 1..Len(queue'), queue'[k] # Final
               PROVE  Before(jobs'[i].seg, queue[k + n])
    BY <1>2
  <2>1. k + n \in 1..Len(queue) /\ queue[k + n] # Final
    BY <1>2
  <2>2. CASE i \in 1..Len(js)
    BY <1>1, <2>1, <2>2 DEF Chain
  <2>3. CASE i \notin 1..Len(js)
    <3>1. i - Len(js) < k + n
      BY <1>1, <1>3, <2>3
    <3> QED
      BY <1>1, <2>1, <2>3, <3>1 DEF Chain
  <2> QED
    BY <2>2, <2>3
<1>6. \A k, l \in 1..Len(queue') : k < l /\ queue'[l] # Final => Before(queue'[k], queue'[l])
  <2> SUFFICES ASSUME NEW k \in 1..Len(queue'), NEW l \in 1..Len(queue'), k < l,
                      queue'[l] # Final
               PROVE  Before(queue[k + n], queue[l + n])
    BY <1>2
  <2>1. k + n < l + n
    OBVIOUS
  <2> QED
    BY <1>2, <2>1 DEF Chain
<1>7. \A k \in 1..Len(queue') : queue'[k].to <= cut
  BY <1>2 DEF Chain
<1>8. \A i \in 1..Len(jobs') : jobs'[i].seg.to <= cut
  BY <1>1 DEF Chain
<1>9. ASSUME NEW a \in past
      PROVE  /\ a.to <= cut
             /\ \A i \in 1..Len(jobs') : Follows(a, jobs', i)
             /\ \A k \in 1..Len(queue') : queue'[k] # Final => Before(a, queue'[k])
  <2>1. a.to <= cut /\ \A k \in 1..Len(queue') : queue'[k] # Final => Before(a, queue'[k])
    BY <1>2 DEF Chain
  <2>2. ASSUME NEW i \in 1..Len(jobs') PROVE Follows(a, jobs', i)
    <3>1. CASE i \in 1..Len(js)
      <4>1. Follows(a, js, i) /\ jobs'[i].seg = js[i].seg
        BY <1>1, <3>1 DEF Chain
      <4>2. i = 1 => jobs'[1].seg = js[1].seg
        BY <4>1
      <4> QED
        BY <4>1, <4>2 DEF Follows
    <3>2. CASE i \notin 1..Len(js)
      BY <1>1, <3>2 DEF Chain, Follows
    <3> QED
      BY <3>1, <3>2
  <2> QED
    BY <2>1, <2>2
<1> QED
  BY <1>4, <1>5, <1>6, <1>7, <1>8, <1>9 DEF Chain

\* The jobs without the first: whatever was before it or is it comes before them.
LEMMA TailKeepsChain ==
    ASSUME NEW js \in Seq(Job), js # <<>>, NEW q, NEW c, NEW past, Chain(js, q, c, past)
    PROVE  Chain(Tail(js), q, c, past)
<1>1. /\ Len(js) \in Nat /\ Len(Tail(js)) = Len(js) - 1
      /\ \A i \in 1..Len(Tail(js)) : Tail(js)[i] = js[i + 1]
  BY HeadTailProperties
<1>2. \A i \in 1..Len(Tail(js)) : i + 1 \in 1..Len(js) /\ i + 1 # 1
  BY <1>1
<1>3. \A a \in past, i \in 1..Len(Tail(js)) : Follows(a, Tail(js), i)
  BY <1>1, <1>2 DEF Chain, Follows
<1>4. \A i, j \in 1..Len(Tail(js)) : i < j => Before(Tail(js)[i].seg, Tail(js)[j].seg)
  <2> SUFFICES ASSUME NEW i \in 1..Len(Tail(js)), NEW j \in 1..Len(Tail(js)), i < j
               PROVE  Before(js[i + 1].seg, js[j + 1].seg)
    BY <1>1
  <2>1. i + 1 < j + 1
    OBVIOUS
  <2> QED
    BY <1>2, <2>1 DEF Chain
<1> QED
  BY <1>1, <1>2, <1>3, <1>4 DEF Chain

\* What no step that leaves the jobs' and the queue's text alone can disturb.
LEMMA SameTextKeepsChain ==
    ASSUME SpeakInv, ChainInv, SameAudio, SamePair, UNCHANGED <<queue, cut>>,
           jobs' = <<>> \/ (/\ Len(jobs') = Len(jobs)
                           /\ \A i \in 1..Len(jobs) : jobs'[i].seg = jobs[i].seg)
    PROVE  ChainInv'
<1>1. Past' \subseteq Past
  BY SamePast
<1>2. Len(jobs) \in Nat
  BY DEF SpeakInv, TypeOK
<1>3. Chain(jobs', queue, cut, Past)
  BY <1>2, FewerJobsKeepChain DEF ChainInv
<1>4. Chain(jobs', queue, cut, Past')
  BY <1>1, <1>3, ShorterPastKeepsChain
<1> QED
  BY <1>4 DEF ChainInv

\* A clear that drops the pending text, or takes the jobs and then drops it.
LEMMA DropKeepsChain ==
    ASSUME SpeakInv, ChainInv, SameAudio, SamePair, DropPending, jobs' \in {jobs, <<>>}
    PROVE  ChainInv'
<1>1. /\ queue' = <<>> /\ cut' = deltas /\ cut \in Int /\ deltas \in Int /\ cut <= deltas
      /\ jobs \in Seq(Job)
  BY SpeakAssumption DEF DropPending, SpeakInv, TypeOK
<1>2. Past' \subseteq Past /\ Past \subseteq Segment
  BY SamePast, PastIsText DEF SpeakInv
<1>3. Chain(jobs, <<>>, deltas, Past)
  BY <1>1, <1>2, EmptyQueueKeepsChain DEF ChainInv
<1>4. Chain(jobs', <<>>, deltas, Past)
  BY <1>1, <1>3, FewerJobsKeepChain
<1>5. Chain(jobs', <<>>, deltas, Past')
  BY <1>2, <1>4, ShorterPastKeepsChain
<1> QED
  BY <1>1, <1>5 DEF ChainInv

LEMMA TakeJobsKeepsChain ==
    ASSUME SpeakInv, ChainInv, SameAudio, SamePair, TakeJobs
    PROVE  ChainInv'
<1>1. jobs' = <<>>
  BY DEF TakeJobs
<1>2. CASE jobs = <<>>
  BY <1>1, <1>2, DropKeepsChain DEF TakeJobs
<1>3. CASE jobs # <<>>
  BY <1>1, <1>3, SameTextKeepsChain DEF TakeJobs
<1> QED
  BY <1>2, <1>3

\* The segmenter lets go of more text, or Final is queued.
LEMMA QueueingKeepsChain ==
    ASSUME SpeakInv, ChainInv, SameAudio, SamePair, UNCHANGED jobs,
           NEW d \in Nat, cut <= d, cut' = d, NEW seg, queue' = Append(queue, seg),
           seg = Final \/ (seg \in Segment /\ seg.from = cut + 1 /\ seg.to = d)
    PROVE  ChainInv'
<1>1. jobs \in Seq(Job) /\ queue \in Seq(Segment \cup {Final}) /\ cut \in Nat
  BY SpeakAssumption DEF SpeakInv, TypeOK
<1>2. Past' \subseteq Past /\ Past \subseteq Segment
  BY SamePast, PastIsText DEF SpeakInv
<1>3. Chain(jobs, queue', d, Past)
  BY <1>1, <1>2, AppendKeepsChain DEF ChainInv
<1>4. Chain(jobs, queue', d, Past')
  BY <1>2, <1>3, ShorterPastKeepsChain
<1> QED
  BY <1>4 DEF ChainInv

LEMMA CutKeepsChain ==
    ASSUME SpeakInv, ChainInv, SameAudio, SamePair, UNCHANGED jobs,
           NEW c \in (cut + 1)..MaxDeltas, Cut(c)
    PROVE  ChainInv'
<1>1. cut \in Nat /\ c \in 1..MaxDeltas /\ cut + 1 \in 1..MaxDeltas /\ cut + 1 <= c
  BY SpeakAssumption DEF SpeakInv, TypeOK
<1>2. [from |-> cut + 1, to |-> c] \in Segment
  BY <1>1 DEF Segment
<1>3. cut <= c /\ c \in Nat
  BY <1>1
<1> QED
  BY <1>2, <1>3, QueueingKeepsChain DEF Cut

LEMMA FirstJobIsPast ==
    ASSUME NEW js \in Seq(Job), js # <<>>, NEW q, NEW c, NEW past, Chain(js, q, c, past)
    PROVE  Chain(js, q, c, past \cup {js[1].seg})
<1>1. 1 \in 1..Len(js) /\ \A i \in 1..Len(js) : i = 1 \/ 1 < i
  BY EmptySeq
<1>2. \A i \in 1..Len(js) : Follows(js[1].seg, js, i)
  BY <1>1 DEF Chain, Follows
<1> QED
  BY <1>1, <1>2 DEF Chain

\* The client hears the audio of the pair that was being sent, if it is there.
LEMMA AudioIsHeard ==
    ASSUME SpeakInv, pair # NoPair,
           Send([type |-> "audio", seq |-> pair.seq, seg |-> pair.seg])
    PROVE  \/ UNCHANGED out
           \/ \E n \in Nat :
                 /\ Frames("audio")' = Frames("audio") \cup {n}
                 /\ \A f \in Frames("audio") : f < n /\ out'[f] = out[f]
                 /\ out'[n].seq = pair.seq /\ out'[n].seg = pair.seg
<1>1. CASE client # "here"
  BY <1>1 DEF Send
<1>2. CASE client = "here"
  <2> DEFINE frame == [type |-> "audio", seq |-> pair.seq, seg |-> pair.seg]
             n == Len(out) + 1
  <2>1. out \in Seq(Frame) /\ out' = Append(out, frame) /\ pair \in Pair
    BY <1>2 DEF Send, SpeakInv, TypeOK
  <2>2. frame \in Frame
    BY <2>1 DEF Pair, Frame
  <2>3. /\ Len(out) \in Nat /\ Len(out') = n /\ out'[n] = frame
        /\ \A i \in 1..Len(out) : out'[i] = out[i]
    BY <2>1, <2>2, AppendProperties
  <2>4. frame.type = "audio" /\ frame.seq = pair.seq /\ frame.seg = pair.seg
    OBVIOUS
  <2> HIDE DEF frame
  <2>5. Frames("audio")' = Frames("audio") \cup {n}
    BY <2>3, <2>4 DEF Frames
  <2>6. \A f \in Frames("audio") : f < n /\ out'[f] = out[f]
    BY <2>3 DEF Frames
  <2> QED
    BY <2>3, <2>4, <2>5, <2>6
<1> QED
  BY <1>1, <1>2

\* The header of a chunk: the first job's segment is past from here on.
LEMMA HeaderKeepsChain == SpeakInv /\ ChainInv /\ SendHeader => ChainInv' /\ SameAudio
<1> SUFFICES ASSUME SpeakInv, ChainInv, SendHeader PROVE ChainInv' /\ SameAudio
  OBVIOUS
<1>1. jobs \in Seq(Job) /\ jobs # <<>> /\ Head(jobs) = jobs[1] /\ pair = NoPair
      /\ UNCHANGED <<queue, cut>> /\ jobs' = [jobs EXCEPT ![1].ready = @ - 1]
      /\ seq \in Nat /\ seq' = seq + 1
  BY DEF SendHeader, LockFree, SpeakInv, TypeOK, textPart
<1>2. Len(jobs') = Len(jobs) /\ \A i \in 1..Len(jobs) : jobs'[i].seg = jobs[i].seg
  <2>1. \A i \in 1..Len(jobs) : jobs[i] \in Job
    BY <1>1, ElementOfSeq
  <2>2. \A i \in 1..Len(jobs) : DOMAIN jobs[i] = {"seg", "ready", "made", "end"}
    BY <2>1 DEF Job
  <2> QED
    BY <1>1, <2>2
<1>3. SameAudio
  <2>1. CASE Send([type |-> "audio.chunk", seq |-> seq'])
    <3>1. [type |-> "audio.chunk", seq |-> seq'] \in Frame
      BY <1>1 DEF Frame
    <3> QED
      BY <2>1, <3>1, SendsNoAudio DEF SpeakInv
  <2>2. CASE UNCHANGED out
    BY <2>2, OutUnchanged
  <2> QED
    BY <2>1, <2>2 DEF SendHeader
<1>4. pair' # NoPair => pair'.seg = jobs[1].seg
  BY <1>1 DEF SendHeader
<1>5. Past' \subseteq Past \cup {jobs[1].seg}
  <2> DEFINE heard == {out[f].seg : f \in Frames("audio")}
  <2>1. heard' = heard
    BY <1>3 DEF SameAudio
  <2> QED
    BY <1>4, <2>1 DEF Past
<1>6. Chain(jobs, queue, cut, Past \cup {jobs[1].seg})
  BY <1>1, FirstJobIsPast DEF ChainInv
<1>7. Chain(jobs', queue, cut, Past \cup {jobs[1].seg})
  <2> DEFINE past == Past \cup {jobs[1].seg}
  <2>1. Len(jobs) \in Nat
    BY <1>1
  <2>2. Chain(jobs, queue, cut, past)
    BY <1>6
  <2> HIDE DEF past
  <2>3. Chain(jobs', queue, cut, past)
    BY <1>2, <2>1, <2>2, FewerJobsKeepChain
  <2> QED
    BY <2>3 DEF past
<1>8. Chain(jobs', queue, cut, Past')
  BY <1>5, <1>7, ShorterPastKeepsChain
<1> QED
  BY <1>1, <1>3, <1>8 DEF ChainInv

\* The audio of a chunk: what is heard was past already.
LEMMA AudioKeepsChain == SpeakInv /\ ChainInv /\ SendAudio => ChainInv'
<1> SUFFICES ASSUME SpeakInv, ChainInv, SendAudio PROVE ChainInv'
  OBVIOUS
<1>1. pair # NoPair /\ pair' = NoPair /\ UNCHANGED cut
      /\ jobs \in Seq(Job) /\ Len(jobs) <= PREFETCH + 1
  BY DEF SendAudio, textPart, SpeakInv, TypeOK, BoundedPrefetch
<1>2. Past' \subseteq Past
  <2> DEFINE heard == {out[f].seg : f \in Frames("audio")}
  <2>1. CASE UNCHANGED out
    <3>1. heard' = heard
      BY <2>1, OutUnchanged DEF SameAudio
    <3> QED
      BY <1>1, <3>1 DEF Past
  <2>2. CASE Send([type |-> "audio", seq |-> pair.seq, seg |-> pair.seg]) /\ out' # out
    <3>1. PICK n \in Nat : /\ Frames("audio")' = Frames("audio") \cup {n}
                           /\ \A f \in Frames("audio") : f < n /\ out'[f] = out[f]
                           /\ out'[n].seq = pair.seq /\ out'[n].seg = pair.seg
      BY <1>1, <2>2, AudioIsHeard
    <3>2. heard' = heard \cup {pair.seg}
      BY <3>1
    <3> QED
      BY <1>1, <3>2 DEF Past
  <2> QED
    BY <2>1, <2>2 DEF SendAudio
<1>3. CASE TopUp(jobs)
  <2>1. PICK n \in Nat : TopsUp(jobs, n)
    BY <1>1, <1>3, TopUpEffect
  <2>2. Chain(jobs', queue', cut, Past)
    BY <1>1, <2>1, TopUpKeepsChain DEF ChainInv
  <2> QED
    BY <1>1, <1>2, <2>2, ShorterPastKeepsChain DEF ChainInv
<1>4. CASE UNCHANGED workPart
  <2>1. Chain(jobs', queue', cut', Past)
    BY <1>1, <1>4 DEF workPart, ChainInv
  <2> QED
    BY <1>2, <2>1, ShorterPastKeepsChain DEF ChainInv
<1> QED
  BY <1>3, <1>4 DEF SendAudio

\* finalize flushes the rest of the text and queues Final.
LEMMA FinalizeKeepsChain ==
    ASSUME SpeakInv, ChainInv, ReadFinalize, SameAudio, SamePair PROVE ChainInv'
<1>1. /\ jobs \in Seq(Job) /\ queue \in Seq(Segment \cup {Final}) /\ cut \in Nat
      /\ deltas \in Nat /\ deltas <= MaxDeltas /\ cut <= deltas
  BY SpeakAssumption DEF SpeakInv, TypeOK
<1>2. queue' = queue \o Tailed /\ cut' = deltas /\ UNCHANGED jobs
  BY DEF ReadFinalize
<1>3. Past' \subseteq Past /\ Past \subseteq Segment
  BY SamePast, PastIsText DEF SpeakInv
<1>4. CASE cut < deltas
  <2> DEFINE seg == [from |-> cut + 1, to |-> deltas]
  <2>1. seg \in Segment /\ seg.from = cut + 1 /\ seg.to = deltas
    BY <1>1, <1>4, SpeakAssumption DEF Segment
  <2>2. Tailed = <<seg, Final>>
    BY <1>4 DEF Tailed
  <2> HIDE DEF seg
  <2>3. Append(queue, seg) \in Seq(Segment \cup {Final})
    BY <1>1, <2>1, AppendProperties
  <2>4. Chain(jobs, Append(queue, seg), deltas, Past)
    BY <1>1, <1>3, <2>1, AppendKeepsChain DEF ChainInv
  <2>5. Chain(jobs, Append(Append(queue, seg), Final), deltas, Past)
    <3> DEFINE r == Append(queue, seg)
    <3>1. r \in Seq(Segment \cup {Final}) /\ Chain(jobs, r, deltas, Past)
      BY <2>3, <2>4
    <3>2. deltas <= deltas
      BY <1>1
    <3> HIDE DEF r
    <3>3. Chain(jobs, Append(r, Final), deltas, Past)
      BY <1>1, <1>3, <3>1, <3>2, AppendKeepsChain
    <3> QED
      BY <3>3 DEF r
  <2>6. queue' = Append(Append(queue, seg), Final)
    <3>1. <<seg>> \in Seq(Segment \cup {Final}) /\ <<Final>> \in Seq(Segment \cup {Final})
      BY <2>1
    <3>2. <<seg>> \o <<Final>> = <<seg, Final>>
      <4> DEFINE both == <<seg>> \o <<Final>>
      <4>1. /\ both \in Seq(Segment \cup {Final}) /\ Len(both) = 2
            /\ both[1] = seg /\ both[2] = Final
        BY <3>1, ConcatProperties
      <4>2. /\ <<seg, Final>> \in Seq(Segment \cup {Final}) /\ Len(<<seg, Final>>) = 2
            /\ <<seg, Final>>[1] = seg /\ <<seg, Final>>[2] = Final
        BY <2>1
      <4> HIDE DEF both
      <4>3. \A i \in 1..2 : i = 1 \/ i = 2
        OBVIOUS
      <4>4. \A i \in 1..Len(both) : both[i] = <<seg, Final>>[i]
        BY <4>1, <4>2, <4>3
      <4>5. both = <<seg, Final>>
        BY <4>1, <4>2, <4>4, SeqEqual
      <4> QED
        BY <4>5 DEF both
    <3>3. (queue \o <<seg>>) \o <<Final>> = queue \o (<<seg>> \o <<Final>>)
      BY <1>1, <3>1, ConcatAssociative
    <3>4. Append(queue, seg) = queue \o <<seg>>
      BY <1>1, <2>1, AppendIsConcat
    <3>5. Append(Append(queue, seg), Final) = Append(queue, seg) \o <<Final>>
      BY <2>3, AppendIsConcat
    <3> QED
      BY <1>2, <2>2, <3>2, <3>3, <3>4, <3>5
  <2> QED
    BY <1>2, <1>3, <2>5, <2>6, ShorterPastKeepsChain DEF ChainInv
<1>5. CASE ~(cut < deltas)
  <2>1. Tailed = <<Final>>
    BY <1>5 DEF Tailed
  <2>2. queue' = Append(queue, Final)
    BY <1>1, <1>2, <2>1, AppendIsConcat
  <2> QED
    BY <1>1, <1>2, <2>2, QueueingKeepsChain
<1> QED
  BY <1>4, <1>5

LEMMA StepKeepsChain == SpeakInv /\ ChainInv /\ [Next]_vars => ChainInv'
<1> SUFFICES ASSUME SpeakInv, ChainInv, [Next]_vars PROVE ChainInv'
  OBVIOUS
<1> USE DEF textPart, workPart, pipePart, pairPart, readPart, runPart
<1>1. CASE SendHeader
  BY <1>1, HeaderKeepsChain
<1>2. CASE SendAudio
  BY <1>2, AudioKeepsChain
<1>3. ASSUME SameAudio, SamePair, ~SendHeader, ~SendAudio PROVE ChainInv'
  <2>1. UNCHANGED <<jobs, queue, cut>> => ChainInv'
    BY <1>3, SameTextKeepsChain
  <2>2. CASE Open \/ OpenFails \/ ReadDisconnect \/ ClearSays \/ ClientLeaves \/ Restart
             \/ SupervisorEnds \/ JobFails \/ DecideBySupervisor \/ DecideByOther \/ Cancelled
             \/ Killed \/ UNCHANGED vars \/ \E limit \in Trips : WatchdogTrips(limit)
    BY <2>1, <2>2
       DEF Open, OpenFails, ReadDisconnect, ClearSays, ClientLeaves, Restart, SupervisorEnds,
           JobFails, DecideBySupervisor, DecideByOther, Cancelled, Killed, WatchdogTrips, vars
  <2>3. CASE ReadText
    <3>1. CASE UNCHANGED <<cut, queue>>
      BY <2>1, <2>3, <3>1 DEF ReadText
    <3>2. ASSUME NEW c \in (cut + 1)..deltas', Cut(c) PROVE ChainInv'
      <4>1. c \in (cut + 1)..MaxDeltas
        BY <2>3, <3>2, SpeakAssumption DEF ReadText, SpeakInv, TypeOK
      <4> QED
        BY <1>3, <2>3, <3>2, <4>1, CutKeepsChain DEF ReadText
    <3> QED
      BY <2>3, <3>1, <3>2 DEF ReadText
  <2>4. CASE ReadFinalize
    BY <1>3, <2>4, FinalizeKeepsChain
  <2>5. CASE ReadClear
    BY <1>3, <2>1, <2>5, TakeJobsKeepsChain DEF ReadClear
  <2>6. CASE ClearTakesJobs
    BY <1>3, <2>6, TakeJobsKeepsChain DEF ClearTakesJobs
  <2>7. CASE ClearDrops
    BY <1>3, <2>7, DropKeepsChain DEF ClearDrops
  <2>8. CASE ClearEnds
    <3>1. CASE refinal
      <4>1. cut \in Nat /\ cut' = cut /\ UNCHANGED jobs /\ queue' = Append(queue, Final)
        BY <2>8, <3>1, SpeakAssumption DEF ClearEnds, SpeakInv, TypeOK
      <4>2. cut <= cut
        BY <4>1
      <4> QED
        BY <1>3, <4>1, <4>2, QueueingKeepsChain
    <3>2. CASE ~refinal
      BY <2>1, <2>8, <3>2 DEF ClearEnds
    <3> QED
      BY <3>1, <3>2
  <2>9. ASSUME NEW js \in Seq(Job), Len(js) <= PREFETCH + 1, Chain(js, queue, cut, Past),
               TopUp(js), UNCHANGED cut
        PROVE  ChainInv'
    <3>1. PICK n \in Nat : TopsUp(js, n)
      BY <2>9, TopUpEffect
    <3>2. Chain(jobs', queue', cut, Past)
      BY <2>9, <3>1, TopUpKeepsChain
    <3>3. Past' \subseteq Past
      BY <1>3, SamePast
    <3> QED
      BY <2>9, <3>2, <3>3, ShorterPastKeepsChain DEF ChainInv
  <2>10. CASE Turn
    <3>1. jobs = <<>> /\ TopUp(jobs) /\ UNCHANGED cut /\ jobs \in Seq(Job)
          /\ Len(jobs) <= PREFETCH + 1
      BY <2>10 DEF Turn, Advance, SpeakInv, TypeOK, BoundedPrefetch
    <3> QED
      BY <2>9, <3>1 DEF ChainInv
  <2>11. CASE JobEnds
    <3>1. jobs # <<>> /\ TopUp(Tail(jobs)) /\ UNCHANGED cut /\ jobs \in Seq(Job)
          /\ Len(jobs) <= PREFETCH + 1
      BY <2>11 DEF JobEnds, Advance, SpeakInv, TypeOK, BoundedPrefetch
    <3>2. Tail(jobs) \in Seq(Job) /\ Len(Tail(jobs)) <= PREFETCH + 1
      BY <3>1, SpeakAssumption
    <3>3. Chain(Tail(jobs), queue, cut, Past)
      BY <3>1, TailKeepsChain DEF ChainInv
    <3> QED
      BY <2>9, <3>1, <3>2, <3>3
  <2>12. CASE Produce
    <3>1. Len(jobs') = Len(jobs) /\ \A i \in 1..Len(jobs) : jobs'[i].seg = jobs[i].seg
      <4>1. PICK i \in 1..Len(jobs) :
              \/ /\ jobs[i].made < MaxAudio
                 /\ jobs' = [jobs EXCEPT ![i].made = @ + 1, ![i].ready = @ + 1]
              \/ \E e \in {"end"} \cup (Faults \cap JobFaults) :
                    jobs' = [jobs EXCEPT ![i].end = e]
        BY <2>12 DEF Produce
      <4>2. jobs \in Seq(Job)
        BY DEF SpeakInv, TypeOK
      <4>3. \A k \in 1..Len(jobs) : jobs[k] \in Job
        BY <4>2, ElementOfSeq
      <4>4. \A k \in 1..Len(jobs) : DOMAIN jobs[k] = {"seg", "ready", "made", "end"}
        BY <4>3 DEF Job
      <4>5. \A k \in 1..Len(jobs) : jobs'[k].seg = jobs[k].seg
        BY <4>1, <4>2, <4>4
      <4>6. Len(jobs') = Len(jobs)
        BY <4>1, <4>2
      <4> QED
        BY <4>5, <4>6
    <3> QED
      BY <1>3, <2>12, <3>1, SameTextKeepsChain DEF Produce
  <2>13. CASE TakeStale
    <3>1. PICK c \in (cut + 1)..(deltas - 1) : Cut(c)
      BY <2>13 DEF TakeStale
    <3>2. c \in (cut + 1)..MaxDeltas
      BY SpeakAssumption DEF SpeakInv, TypeOK
    <3> QED
      BY <1>3, <2>13, <3>1, <3>2, CutKeepsChain DEF TakeStale
  <2>14. CASE Teardown
    BY <1>3, <2>14, SameTextKeepsChain DEF Teardown
  <2> QED
    BY <1>3, <2>2, <2>3, <2>4, <2>5, <2>6, <2>7, <2>8, <2>10, <2>11, <2>12, <2>13, <2>14
       DEF Next, Reader, Clear, Supervisor, Pipeline, Decide
<1> QED
  BY <1>1, <1>2, <1>3, OthersSendNoAudio

\* The order of what is heard.
LEMMA StepKeepsHeard ==
    SpeakInv /\ ChainInv /\ HeardInv /\ [Next]_vars => HeardInv'
<1> SUFFICES ASSUME SpeakInv, ChainInv, HeardInv, [Next]_vars PROVE HeardInv'
  OBVIOUS
<1>1. \A f \in Frames("audio") : out[f].seq \in Nat /\ out[f].seg \in Segment
  BY AudioFrames DEF SpeakInv
<1>2. CASE SendHeader
  <2>1. SameAudio
    BY <1>2, HeaderKeepsChain
  <2>2. /\ jobs # <<>> /\ pair = NoPair /\ seq \in Nat /\ seq' = seq + 1
        /\ pair' # NoPair => pair'.seq = seq + 1 /\ pair'.seg = jobs[1].seg
        /\ 1 \in 1..Len(jobs)
    <3>1. jobs \in Seq(Job) /\ jobs # <<>> /\ Head(jobs) = jobs[1] /\ seq \in Nat
      BY <1>2 DEF SendHeader, SpeakInv, TypeOK
    <3>2. 1 \in 1..Len(jobs)
      BY <3>1, EmptySeq
    <3> QED
      BY <1>2, <3>1, <3>2 DEF SendHeader, LockFree
  <2>3. ASSUME NEW f \in Frames("audio")
        PROVE  /\ out[f].seq <= seq
               /\ out[f].seg = jobs[1].seg \/ Before(out[f].seg, jobs[1].seg)
    <3>1. out[f].seg \in Past
      BY DEF Past
    <3>2. Follows(out[f].seg, jobs, 1)
      BY <2>2, <3>1 DEF ChainInv, Chain
    <3> QED
      BY <3>2 DEF Follows, HeardInv
  <2>4. \A f \in Frames("audio") : out[f].seq <= seq' /\ out[f].seq < seq + 1
    BY <1>1, <2>2, <2>3
  <2>5. AudioInTextOrder'
    BY <2>1 DEF HeardInv, AudioInTextOrder, SameAudio
  <2> QED
    BY <2>1, <2>2, <2>3, <2>4, <2>5 DEF HeardInv, SameAudio
<1>3. CASE SendAudio
  <2>1. pair # NoPair /\ pair' = NoPair /\ seq' = seq /\ seq \in Nat /\ pair.seq = seq
    BY <1>3 DEF SendAudio, SpeakInv, TypeOK, PairInv
  <2>2. CASE UNCHANGED out
    <3>1. SameAudio
      BY <2>2, OutUnchanged
    <3> QED
      BY <2>1, <3>1 DEF HeardInv, AudioInTextOrder, SameAudio
  <2>3. CASE out' # out
    <3>1. PICK n \in Nat : /\ Frames("audio")' = Frames("audio") \cup {n}
                           /\ \A f \in Frames("audio") : f < n /\ out'[f] = out[f]
                           /\ out'[n].seq = pair.seq /\ out'[n].seg = pair.seg
      BY <1>3, <2>1, <2>3, AudioIsHeard DEF SendAudio
    <3>2. \A f \in Frames("audio") : f \in Int
      BY DEF Frames
    <3>3. ASSUME NEW i \in Frames("audio"), NEW j \in Frames("audio"), i < j
          PROVE  /\ out'[i].seq < out'[j].seq
                 /\ out'[i].seg = out'[j].seg \/ out'[i].seg.to < out'[j].seg.from
      BY <3>1, <3>3 DEF HeardInv, AudioInTextOrder
    <3>4. ASSUME NEW i \in Frames("audio")
          PROVE  /\ out'[i].seq < out'[n].seq
                 /\ out'[i].seg = out'[n].seg \/ out'[i].seg.to < out'[n].seg.from
      BY <2>1, <3>1 DEF HeardInv, Before
    <3>5. \A i \in Frames("audio") : ~(n < i)
      BY <3>1, <3>2
    <3>6. AudioInTextOrder'
      <4> SUFFICES ASSUME NEW i \in Frames("audio")', NEW j \in Frames("audio")', i < j
                   PROVE  /\ out'[i].seq < out'[j].seq
                          /\ out'[i].seg = out'[j].seg \/ out'[i].seg.to < out'[j].seg.from
        BY DEF AudioInTextOrder
      <4>1. i # n
        BY <3>1, <3>5
      <4> QED
        BY <3>1, <3>3, <3>4, <4>1
    <3>7. \A f \in Frames("audio")' : out'[f].seq <= seq'
      BY <2>1, <3>1 DEF HeardInv
    <3> QED
      BY <2>1, <3>6, <3>7 DEF HeardInv
  <2> QED
    BY <2>2, <2>3
<1>4. CASE SameAudio /\ SamePair /\ seq' = seq
  <2>1. AudioInTextOrder'
    BY <1>4 DEF HeardInv, AudioInTextOrder, SameAudio
  <2> QED
    BY <1>4, <2>1 DEF HeardInv, SameAudio, SamePair
<1> QED
  BY <1>2, <1>3, <1>4, OthersSendNoAudio

LEMMA InitOrder == Init => ChainInv /\ HeardInv
<1> SUFFICES ASSUME Init PROVE ChainInv /\ HeardInv
  OBVIOUS
<1>1. Frames("audio") = {} /\ Past = {}
  BY DEF Init, Frames, Past
<1>2. 1..Len(jobs) = {} /\ 1..Len(queue) = {}
  BY DEF Init
<1> QED
  BY <1>1, <1>2 DEF ChainInv, Chain, HeardInv, AudioInTextOrder

\* Jobs that run ahead, barge-ins and a pair that outlives its pipeline never
\* put audio out of the order of the text, voice text in two segments or give
\* out a chunk number twice.
THEOREM AudioKeepsTextOrder == Spec => []AudioInTextOrder
<1>1. HeardInv => AudioInTextOrder
  BY DEF HeardInv
<1>2. SpeakInv /\ ChainInv /\ HeardInv /\ [Next]_vars => (ChainInv /\ HeardInv)'
  BY StepKeepsChain, StepKeepsHeard
<1> QED
  BY <1>1, <1>2, InitOrder, SpeakInvariant, PTL DEF Spec

-----------------------------------------------------------------------------
(* Barge-ins.  _restart stays set after a second clear that comes before the *)
(* pipeline is restarted for the first; a third clear is then not waited for *)
(* (README, section 7).  Up to that, no clear lets a pipeline run into it.   *)

Clearing == {"cancelling", "gathering", "clearing", "said"}

\* A clear waits for the pipeline and the jobs; nothing is in work once it has
\* dropped the pending text, until it is over.
TasksInv ==
    /\ clears = 0 => ~restart /\ reader \notin Clearing
    /\ clears <= 1 => /\ restart => inner \notin {"running", "cancelling"}
                      /\ reader \in Clearing => ~restart /\ inner # "running"
    /\ reader = "cancelling" => inner = "cancelling" /\ ~restart
    /\ inner = "cancelling" => reader = "cancelling"
    /\ inner = "cancelled" => jobs = <<>>
    /\ reader = "gathering" => /\ jobs = <<>>
                               /\ inner \in Ends \/ (inner = "cancelled" /\ ~restart)
    /\ reader \in {"clearing", "said"} =>
          jobs = <<>> /\ queue = <<>> /\ ~finalSeen /\ cut = deltas
    /\ supervisor # "on" => inner = supervisor

\* A pair belongs to a pipeline that has a job, or to a clear that waits for it.
LockInv ==
    /\ run = "opening" => out = <<>> /\ pair = NoPair
    /\ OwnPair => inner = "running" /\ Live /\ jobs # <<>>
    /\ pair # NoPair /\ Live => /\ inner \notin Ends
                                /\ ~pair.own => reader \in Clearing \ {"said"}

\* A header without its audio is the last but for errors, and its pair is being
\* sent unless the client has left.
PairsInv ==
    /\ \A a \in Frames("audio") : \E h \in Frames("audio.chunk") : Together(h, a)
    /\ \A h \in Frames("audio.chunk") :
          \/ \E a \in Frames("audio") : Together(h, a)
          \/ Hanging(h) /\ (client = "here" => pair # NoPair /\ out[h].seq = pair.seq)
    /\ client = "here" /\ pair # NoPair =>
          \E h \in Frames("audio.chunk") : Hanging(h) /\ out[h].seq = pair.seq

\* What is queued, dispatched or being sent is later than what a clear discarded.
Pending == {jobs[i].seg : i \in 1..Len(jobs)}
             \cup {queue[k] : k \in {k \in 1..Len(queue) : queue[k] # Final}}
             \cup (IF pair = NoPair THEN {} ELSE {pair.seg})
BarrierInv ==
    /\ \A a \in Frames("audio") : out[a].seq <= sent
    /\ ClearedIsABarrier
    /\ \A c \in Frames("cleared") :
          /\ out[c].deltas <= cut /\ \A seg \in Pending : seg.from > out[c].deltas
          /\ out[c].seq <= seq /\ (pair # NoPair => pair.seq > out[c].seq)

\* Text that was cut since the last `cleared` is voiced, in a job or queued, but
\* for what a clear has just taken away.
Told(d) == \E c \in Frames("cleared") : out[c].deltas = d
InWork(t) ==
    \/ t \in voiced
    \/ \E i \in 1..Len(jobs) : jobs[i].seg.from <= t /\ t <= jobs[i].seg.to
    \/ \E k \in 1..Len(queue) : queue[k].from <= t /\ t <= queue[k].to
Opened == run \in {"opening", "running", "decided"}
AllVoiced ==
    \E upto \in 0..deltas :
        (upto + 1)..deltas \subseteq voiced /\ (upto = 0 \/ Told(upto))
CoverInv ==
    client = "here" /\ Opened /\ reader \notin {"gathering", "clearing"} =>
        \E upto \in 0..deltas :
            (upto = 0 \/ Told(upto)) /\ \A t \in (upto + 1)..cut : InWork(t)
VoicedInv ==
    /\ finalized => cut = deltas
    /\ finalSeen => queue = <<>>
    /\ CoverInv
    /\ client = "here" /\ inner = "returned" => finalized /\ AllVoiced
    /\ Frames("done") # {} => finalized /\ AllVoiced

BargeInInv == TasksInv /\ LockInv /\ PairsInv /\ BarrierInv /\ VoicedInv

\* Only a clear message counts as one.
LEMMA ClearsGrow == TypeOK /\ [Next]_vars => clears \in Nat /\ clears' \in Nat /\ clears <= clears'
<1> SUFFICES ASSUME TypeOK, [Next]_vars PROVE clears' = clears \/ clears' = clears + 1
  BY SpeakAssumption DEF TypeOK
<1>1. CASE ReadClear
  BY <1>1 DEF ReadClear
<1>2. CASE ~ReadClear
  BY <1>2 DEF Next, vars, Reader, Clear, Supervisor, Pipeline, Decide, Open, OpenFails, ReadText,
     ReadFinalize, ReadDisconnect, ClearTakesJobs, ClearDrops, ClearSays, ClearEnds, ClientLeaves,
     Restart, SupervisorEnds, Turn, SendHeader, JobEnds, JobFails, Produce, SendAudio, TakeStale,
     WatchdogTrips, DecideBySupervisor, DecideByOther, Cancelled, Teardown, Killed, readPart
<1> QED
  BY <1>1, <1>2

\* A pipeline at work is not inside a clear.
LEMMA WorkIsNoClear ==
    ASSUME TasksInv, inner = "running", jobs # <<>> \/ finalSeen \/ queue # <<>>
    PROVE  reader \notin Clearing
  BY DEF TasksInv, Clearing, Ends, JobFaults

\* Steps that leave the tasks, the jobs and the pending text alone.
TasksStay == UNCHANGED <<inner, restart, supervisor, reader, clears, jobs, queue, finalSeen, cut, deltas>>

LEMMA OthersLeaveTasks ==
    ASSUME [Next]_vars
    PROVE  \/ ReadText \/ ReadFinalize \/ ReadDisconnect \/ Clear \/ Supervisor \/ Pipeline
           \/ Produce \/ SendAudio \/ TakeStale \/ Teardown
           \/ TasksStay /\ UNCHANGED voiced
  BY DEF Next, vars, Reader, Open, OpenFails, ClientLeaves, WatchdogTrips, Decide,
     DecideBySupervisor, DecideByOther, Cancelled, Killed, TasksStay, textPart, workPart, pipePart,
     readPart

\* The tasks, up to the second barge-in.
LEMMA TasksStep ==
    ASSUME SpeakInv, TasksInv, LockInv, clears' <= 2, [Next]_vars
    PROVE  TasksInv'
<1> USE DEF textPart, workPart, pipePart, pairPart, readPart, runPart, Clearing, Ends, JobFaults
<1>0. clears \in Nat /\ clears' \in Nat /\ clears <= clears' /\ cut \in Nat /\ deltas \in Nat
      /\ jobs \in Seq(Job)
  BY ClearsGrow, SpeakAssumption DEF SpeakInv, TypeOK
<1>a. supervisor # "on" => inner = supervisor /\ inner \in Ends
  BY DEF SpeakInv, TypeOK, TasksInv
<1>1. CASE TasksStay
  BY <1>1 DEF TasksStay, TasksInv
<1>2. CASE ReadText
  BY <1>2 DEF ReadText, TasksInv
<1>3. CASE ReadFinalize
  BY <1>3 DEF ReadFinalize, TasksInv
<1>4. CASE ReadDisconnect
  BY <1>4 DEF ReadDisconnect, TasksInv
<1>5. CASE ReadClear
  <2>1. clears \in {0, 1} /\ clears' = clears + 1 /\ reader = "on" /\ inner # "cancelling"
    BY <1>0, <1>5 DEF ReadClear, TasksInv
  <2>2. CASE inner = "running" /\ inner' = "cancelling"
    BY <1>a, <1>5, <2>1, <2>2 DEF ReadClear, TasksInv
  <2>3. CASE inner # "running" /\ TakeJobs /\ UNCHANGED inner
    <3>1. CASE jobs = <<>>
      BY <1>5, <2>1, <2>3, <3>1 DEF ReadClear, TasksInv, TakeJobs, DropPending
    <3>2. CASE jobs # <<>>
      <4>1. inner \in Ends
        BY <2>1, <2>3, <3>2 DEF TasksInv, SpeakInv, TypeOK
      <4> QED
        BY <1>5, <2>1, <2>3, <3>2, <4>1 DEF ReadClear, TasksInv, TakeJobs
    <3> QED
      BY <3>1, <3>2
  <2> QED
    BY <1>5, <2>2, <2>3 DEF ReadClear
<1>6. CASE ClearTakesJobs
  <2>1. CASE jobs = <<>>
    BY <1>0, <1>a, <1>6, <2>1 DEF ClearTakesJobs, TasksInv, TakeJobs, DropPending
  <2>2. CASE jobs # <<>>
    BY <1>0, <1>a, <1>6, <2>2 DEF ClearTakesJobs, TasksInv, TakeJobs
  <2> QED
    BY <2>1, <2>2
<1>7. CASE ClearDrops
  BY <1>7 DEF ClearDrops, TasksInv, DropPending
<1>8. CASE ClearSays
  BY <1>8 DEF ClearSays, TasksInv
<1>9. CASE ClearEnds
  BY <1>0, <1>9 DEF ClearEnds, TasksInv
<1>10. CASE Supervisor
  BY <1>0, <1>10 DEF Supervisor, Restart, SupervisorEnds, TasksInv
<1>11. CASE Turn
  <2>1. reader \notin Clearing /\ inner = "running" /\ inner' \in {"running", "returned"}
    BY <1>11, WorkIsNoClear DEF Turn, Piping, Advance
  <2> QED
    BY <1>a, <1>11, <2>1 DEF Turn, TasksInv
<1>12. CASE SendHeader
  <2>1. reader \notin Clearing /\ inner = "running" /\ inner' \in {"running", "SpeakClosed"}
    BY <1>12, WorkIsNoClear DEF SendHeader, Piping
  <2> QED
    BY <1>a, <1>12, <2>1 DEF SendHeader, TasksInv
<1>13. CASE JobEnds
  <2>1. reader \notin Clearing /\ inner = "running" /\ inner' \in {"running", "returned"}
    BY <1>13, WorkIsNoClear DEF JobEnds, Piping, Advance
  <2> QED
    BY <1>a, <1>13, <2>1 DEF JobEnds, TasksInv
<1>14. CASE JobFails
  <2>1. reader \notin Clearing /\ inner = "running" /\ inner' \in JobFaults
    BY <1>14, WorkIsNoClear DEF JobFails, Piping
  <2> QED
    BY <1>a, <1>14, <2>1 DEF JobFails, TasksInv
<1>15. CASE Produce
  <2>1. jobs # <<>>
    BY <1>15 DEF Produce
  <2> QED
    BY <1>15, <2>1 DEF Produce, TasksInv
<1>16. CASE SendAudio
  <2>1. CASE OwnPair
    <3>1. reader \notin Clearing /\ inner = "running" /\ inner' \in {"running", "SpeakClosed"}
      BY <1>16, <2>1, WorkIsNoClear DEF SendAudio, LockInv, OwnPair
    <3> QED
      BY <1>a, <1>16, <3>1 DEF SendAudio, TasksInv
  <2>2. CASE ~OwnPair
    BY <1>16, <2>2 DEF SendAudio, OwnPair, TasksInv
  <2> QED
    BY <2>1, <2>2
<1>17. CASE TakeStale
  <2>1. cut < deltas /\ UNCHANGED <<inner, restart, supervisor, reader, clears, jobs, finalSeen>>
    BY <1>0, <1>17 DEF TakeStale
  <2> QED
    BY <1>0, <2>1 DEF TasksInv
<1>18. CASE Teardown
  BY <1>18 DEF Teardown, TasksInv
<1> QED
  BY <1>1, <1>2, <1>3, <1>4, <1>5, <1>6, <1>7, <1>8, <1>9, <1>10, <1>11, <1>12, <1>13, <1>14,
     <1>15, <1>16, <1>17, <1>18, OthersLeaveTasks DEF Clear, Pipeline

\* The lock.
LEMMA LockStep ==
    ASSUME SpeakInv, TasksInv, LockInv, clears' <= 2, [Next]_vars
    PROVE  LockInv'
<1> USE DEF textPart, workPart, pipePart, pairPart, readPart, runPart, Clearing, Ends, JobFaults
<1>0. /\ inner \in {"running", "cancelling", "cancelled"} \cup Ends
      /\ pair # NoPair => pair \in Pair /\ pair.own \in BOOLEAN
      /\ jobs \in Seq(Job)
  BY DEF SpeakInv, TypeOK, Pair
<1>1. ASSUME pair' = NoPair, run' # "opening" PROVE LockInv'
  BY <1>1 DEF LockInv, OwnPair
<1>2. ASSUME pair' = Orphaned, run' \in {"closing", "done", "killed"} PROVE LockInv'
  <2>1. pair' # NoPair => ~pair'.own
    BY <1>2, OrphanedPair
  <2> QED
    BY <1>2, <2>1 DEF LockInv, OwnPair, Live
<1>3. ASSUME UNCHANGED <<pair, reader, inner>>, run' = run \/ run' = "decided", Live, jobs' = jobs
      PROVE  LockInv'
  BY <1>3 DEF LockInv, OwnPair, Live
<1>4. ASSUME Piping, jobs # <<>> \/ finalSeen \/ queue # <<>>, ~OwnPair
      PROVE  pair = NoPair
  BY <1>0, <1>4, WorkIsNoClear DEF LockInv, Piping, OwnPair
<1>5. CASE Open \/ OpenFails
  BY <1>5 DEF Open, OpenFails, LockInv, OwnPair
<1>6. CASE ReadText \/ ReadFinalize \/ TakeStale \/ \E limit \in Trips : WatchdogTrips(limit)
  BY <1>3, <1>6 DEF ReadText, ReadFinalize, TakeStale, WatchdogTrips
<1>7. CASE ReadDisconnect
  BY <1>7 DEF ReadDisconnect, LockInv, OwnPair, Live
<1>8. CASE ReadClear
  <2>1. reader = "on" /\ Live /\ run' = run
    BY <1>8 DEF ReadClear
  <2>2. CASE inner = "running" /\ inner' = "cancelling" /\ reader' = "cancelling" /\ pair' = Orphaned
    <3>1. pair' # NoPair => ~pair'.own
      BY <2>2, OrphanedPair
    <3> QED
      BY <2>1, <2>2, <3>1 DEF LockInv, OwnPair, Live
  <2>3. CASE inner # "running" /\ UNCHANGED pair
    <3>1. pair = NoPair
      BY <1>0, <2>1, <2>3 DEF LockInv, OwnPair
    <3> QED
      BY <1>1, <2>1, <2>3, <3>1 DEF Live
  <2> QED
    BY <1>8, <2>2, <2>3 DEF ReadClear
<1>9. CASE ClearTakesJobs
  <2>1. /\ Live /\ reader = "cancelling" /\ inner' = "cancelled" /\ UNCHANGED <<pair, run>>
        /\ reader' \in {"gathering", "clearing"}
    BY <1>9 DEF ClearTakesJobs, TakeJobs, DropPending
  <2>2. inner = "cancelling"
    BY <2>1 DEF TasksInv
  <2> QED
    BY <1>0, <2>1, <2>2 DEF LockInv, OwnPair, Live
<1>10. CASE ClearDrops
  <2>1. Live /\ reader = "gathering" /\ reader' = "clearing" /\ UNCHANGED <<pair, run, inner, jobs>>
    BY <1>10 DEF ClearDrops, DropPending
  <2> QED
    BY <1>0, <2>1 DEF LockInv, OwnPair, Live
<1>11. CASE ClearSays
  BY <1>1, <1>11 DEF ClearSays, LockFree, Live
<1>12. CASE ClearEnds
  <2>1. Live /\ reader = "said" /\ reader' = "on" /\ UNCHANGED <<pair, run, inner, jobs>>
    BY <1>12 DEF ClearEnds
  <2> QED
    BY <1>0, <2>1 DEF LockInv, OwnPair, Live
<1>13. CASE ClientLeaves
  BY <1>13 DEF ClientLeaves, LockInv, OwnPair, Live
<1>14. CASE Restart
  <2>1. Live /\ inner = "cancelled" /\ inner' = "running" /\ UNCHANGED <<pair, run, reader, jobs>>
    BY <1>14 DEF Restart
  <2> QED
    BY <1>0, <2>1 DEF LockInv, OwnPair, Live
<1>15. CASE SupervisorEnds
  BY <1>3, <1>15 DEF SupervisorEnds
<1>16. CASE Turn \/ JobEnds \/ JobFails
  <2>1. Piping /\ (jobs # <<>> \/ finalSeen \/ queue # <<>>) /\ UNCHANGED <<pair, run>>
        /\ (jobs = <<>> \/ ~OwnPair)
    BY <1>16 DEF Turn, JobEnds, JobFails
  <2>2. ~OwnPair
    BY <2>1 DEF LockInv
  <2>3. pair = NoPair
    BY <1>4, <2>1, <2>2
  <2> QED
    BY <1>1, <2>1, <2>3 DEF Piping, Live
<1>17. CASE SendHeader
  <2>1. Piping /\ pair = NoPair /\ UNCHANGED run /\ jobs # <<>> /\ jobs' = [jobs EXCEPT ![1].ready = @ - 1]
        /\ \/ pair' = [seq |-> seq', seg |-> Head(jobs).seg, own |-> TRUE] /\ UNCHANGED inner
           \/ UNCHANGED pair
    BY <1>17 DEF SendHeader, LockFree
  <2>2. jobs' # <<>>
    BY <1>0, <2>1
  <2> QED
    BY <2>1, <2>2 DEF LockInv, OwnPair, Piping, Live
<1>18. CASE Produce
  <2>1. Live /\ UNCHANGED <<pair, run, inner, reader>> /\ (jobs # <<>> => jobs' # <<>>)
    BY <1>0, <1>18 DEF Produce
  <2> QED
    BY <2>1 DEF LockInv, OwnPair, Live
<1>19. CASE SendAudio
  <2>1. run # "opening" /\ pair' = NoPair /\ UNCHANGED run
    BY <1>19 DEF SendAudio, LockInv
  <2> QED
    BY <1>1, <2>1
<1>20. CASE Decide
  <2>1. \/ \E s, frame : Verdict(s, frame)
        \/ \E s : Silently(s)
    BY <1>20 DEF Decide, DecideBySupervisor, DecideByOther
  <2>2. run = "running" /\ UNCHANGED <<reader, inner, jobs>>
    BY <1>20 DEF Decide, DecideBySupervisor, DecideByOther
  <2> QED
    BY <1>2, <1>3, <2>1, <2>2 DEF Verdict, Silently, Live
<1>21. CASE Cancelled \/ Teardown \/ Killed
  BY <1>2, <1>21 DEF Cancelled, Silently, Teardown, Killed
<1>22. CASE UNCHANGED vars
  BY <1>22 DEF vars, LockInv, OwnPair, Live
<1> QED
  BY <1>5, <1>6, <1>7, <1>8, <1>9, <1>10, <1>11, <1>12, <1>13, <1>14, <1>15, <1>16, <1>17,
     <1>18, <1>19, <1>20, <1>21, <1>22 DEF Next, Reader, Clear, Supervisor, Pipeline

\* One more frame: what was received stays, the new one comes last.
LEMMA FrameAdded ==
    ASSUME TypeOK, NEW frame \in Frame, out' = Append(out, frame)
    PROVE  /\ Len(out) \in Nat /\ Len(out') = Len(out) + 1 /\ out'[Len(out) + 1] = frame
           /\ \A i \in 1..Len(out) : out'[i] = out[i]
           /\ \A type : Frames(type)' = Frames(type)
                            \cup (IF frame.type = type THEN {Len(out) + 1} ELSE {})
<1>1. /\ Len(out) \in Nat /\ Len(out') = Len(out) + 1 /\ out'[Len(out) + 1] = frame
      /\ \A i \in 1..Len(out) : out'[i] = out[i]
  BY AppendProperties DEF TypeOK
<1>2. 1..Len(out') = (1..Len(out)) \cup {Len(out) + 1}
  BY <1>1
<1>3. Len(out) + 1 \notin 1..Len(out)
  BY <1>1
<1>4. ASSUME NEW type
      PROVE  Frames(type)' = Frames(type)
                 \cup (IF frame.type = type THEN {Len(out) + 1} ELSE {})
  BY <1>1, <1>2, <1>3 DEF Frames
<1> QED
  BY <1>1, <1>4

\* What one more frame leaves of pairs and of a header that waits.
LEMMA PairsStand ==
    ASSUME TypeOK, NEW frame \in Frame, out' = Append(out, frame),
           NEW n \in Nat, n = Len(out) + 1
    PROVE  /\ \A h, a \in 1..Len(out) : Together(h, a) => Together(h, a)'
           /\ \A h \in 1..Len(out) :
                 /\ Hanging(h) /\ frame.type = "error" => Hanging(h)'
                 /\ Hanging(h) /\ out[h].type = "audio.chunk" /\ frame.type = "audio"
                       /\ frame.seq = out[h].seq => Together(h, n)'
           /\ Hanging(n)'
<1>1. /\ Len(out) \in Nat /\ Len(out') = Len(out) + 1 /\ out'[Len(out) + 1] = frame
      /\ \A i \in 1..Len(out) : out'[i] = out[i]
  BY FrameAdded
<1>2. ASSUME NEW h \in 1..Len(out), NEW a \in 1..Len(out), Together(h, a)
      PROVE  Together(h, a)'
  <2>1. \A i \in (h + 1)..(a - 1) : i \in 1..Len(out)
    BY <1>1
  <2> QED
    BY <1>1, <1>2, <2>1 DEF Together
<1>3. ASSUME NEW h \in 1..Len(out), Hanging(h), frame.type = "error"
      PROVE  Hanging(h)'
  <2>1. \A i \in (h + 1)..Len(out') :
            i = Len(out) + 1 \/ (i \in (h + 1)..Len(out) /\ i \in 1..Len(out))
    BY <1>1
  <2> QED
    BY <1>1, <1>3, <2>1 DEF Hanging
<1>4. ASSUME NEW h \in 1..Len(out), Hanging(h), out[h].type = "audio.chunk",
             frame.type = "audio", frame.seq = out[h].seq
      PROVE  Together(h, n)'
  <2>1. \A i \in (h + 1)..(n - 1) : i \in 1..Len(out) /\ i \in (h + 1)..Len(out)
    BY <1>1
  <2>2. \A i \in (h + 1)..(n - 1) : out'[i].type = "error"
    BY <1>1, <1>4, <2>1 DEF Hanging
  <2>3. h < n /\ out'[h] = out[h] /\ out'[n] = frame
    BY <1>1
  <2>4. /\ h < n /\ out'[h].type = "audio.chunk" /\ out'[n].type = "audio"
        /\ out'[n].seq = out'[h].seq
    BY <1>4, <2>3
  <2> QED
    BY <2>2, <2>4 DEF Together
<1>5. Hanging(n)'
  <2>1. (n + 1)..Len(out') = {}
    BY <1>1
  <2> QED
    BY <2>1 DEF Hanging
<1> QED
  BY <1>2, <1>3, <1>4, <1>5

\* The pair before and after a step that says nothing.
PairStays == /\ pair' = NoPair <=> pair = NoPair
             /\ pair # NoPair => pair'.seq = pair.seq
SaysOfPair(frame) ==
    \/ frame.type = "error" /\ PairStays
    \/ frame.type \in {"session.open", "cleared", "done"} /\ pair = NoPair /\ pair' = NoPair
    \/ /\ frame.type = "audio.chunk" /\ pair = NoPair
       /\ pair' # NoPair /\ pair'.seq = frame.seq
    \/ /\ frame.type = "audio" /\ pair # NoPair /\ pair' = NoPair
       /\ frame.seq = pair.seq
SaysMore(frame) ==
    /\ frame.type = "done" => inner = "returned"
    /\ frame.type = "cleared" => reader = "clearing" /\ frame.seq = sent /\ frame.deltas = deltas
    /\ frame.type = "audio" => frame.seg = pair.seg /\ sent' = seq
Speaks == /\ client = "here" /\ client' = "here"
          /\ \E frame \in Frame :
                out' = Append(out, frame) /\ SaysOfPair(frame) /\ SaysMore(frame)
Quiet == UNCHANGED out /\ (client' # "here" \/ (client' = client /\ PairStays))

\* A step says nothing, or one frame that the lock lets through.
LEMMA StepSpeaks ==
    ASSUME SpeakInv, TasksInv, LockInv, [Next]_vars
    PROVE  Quiet \/ Speaks
<1> USE DEF textPart, workPart, pipePart, pairPart, readPart, runPart
<1>0. TypeOK /\ client \in {"here", "gone"}
  BY DEF SpeakInv, TypeOK
<1>1. UNCHANGED <<out, client>> /\ (pair' = pair \/ pair' = Orphaned) => Quiet
  <2>1. Orphaned = NoPair <=> pair = NoPair
    <3>1. CASE pair = NoPair
      BY <3>1 DEF Orphaned
    <3>2. CASE pair # NoPair
      <4>1. pair \in Pair
        BY <1>0, <3>2 DEF TypeOK
      <4>2. [pair EXCEPT !.own = FALSE] # NoPair
        <5>1. DOMAIN pair = {"seq", "seg", "own"} /\ DOMAIN NoPair = {"seq"}
          BY <4>1 DEF Pair, NoPair
        <5> QED
          BY <5>1
      <4> QED
        BY <3>2, <4>2 DEF Orphaned
    <3> QED
      BY <3>1, <3>2
  <2> QED
    BY <2>1, OrphanedPair DEF Quiet, PairStays
<1>2. ASSUME NEW frame \in Frame, Send(frame), UNCHANGED client, SaysOfPair(frame), SaysMore(frame)
      PROVE  Quiet \/ Speaks
  BY <1>0, <1>2 DEF Send, Quiet, Speaks
<1>3. CASE Open
  <2>1. [type |-> "session.open"] \in Frame /\ [type |-> "session.open"].type = "session.open"
    BY DEF Frame
  <2>2. pair = NoPair /\ pair' = pair /\ UNCHANGED client /\ Send([type |-> "session.open"])
    BY <1>3 DEF Open, LockInv
  <2> QED
    BY <1>2, <2>1, <2>2 DEF SaysOfPair, SaysMore
<1>4. CASE OpenFails \/ ReadText \/ ReadFinalize \/ ReadDisconnect \/ ClearTakesJobs
           \/ ClearDrops \/ ClearEnds \/ Restart \/ SupervisorEnds \/ Turn \/ JobEnds
           \/ JobFails \/ Produce \/ TakeStale \/ \E limit \in Trips : WatchdogTrips(limit)
  BY <1>1, <1>4 DEF OpenFails, ReadText, ReadFinalize, ReadDisconnect, ClearTakesJobs,
     ClearDrops, ClearEnds, Restart, SupervisorEnds, Turn, JobEnds, JobFails, Produce,
     TakeStale, WatchdogTrips
<1>5. CASE ReadClear
  BY <1>1, <1>5 DEF ReadClear
<1>6. CASE ClearSays
  <2> DEFINE frame == [type |-> "cleared", seq |-> sent, deltas |-> deltas]
  <2>1. /\ frame \in Frame /\ frame.type = "cleared"
        /\ frame.seq = sent /\ frame.deltas = deltas
    BY <1>0, SpeakAssumption DEF Frame, TypeOK
  <2>2. pair = NoPair /\ pair' = pair /\ UNCHANGED client /\ (Send(frame) \/ UNCHANGED out)
        /\ reader = "clearing"
    BY <1>6 DEF ClearSays, LockFree
  <2> HIDE DEF frame
  <2>3. SaysOfPair(frame) /\ SaysMore(frame)
    BY <2>1, <2>2 DEF SaysOfPair, SaysMore
  <2> QED
    BY <1>1, <1>2, <2>1, <2>2, <2>3
<1>7. CASE ClientLeaves
  BY <1>7 DEF ClientLeaves, Quiet
<1>8. CASE SendHeader
  <2> DEFINE frame == [type |-> "audio.chunk", seq |-> seq']
  <2>1. frame \in Frame /\ frame.type = "audio.chunk" /\ frame.seq = seq'
    BY <1>0, <1>8 DEF Frame, TypeOK, SendHeader
  <2>2. pair = NoPair /\ UNCHANGED client
        /\ \/ Send(frame) /\ pair' = [seq |-> seq', seg |-> Head(jobs).seg, own |-> TRUE]
           \/ UNCHANGED <<out, pair>>
    BY <1>8 DEF SendHeader, LockFree
  <2> HIDE DEF frame
  <2>3. CASE Send(frame) /\ pair' = [seq |-> seq', seg |-> Head(jobs).seg, own |-> TRUE]
    <3>1. pair' # NoPair /\ pair'.seq = seq'
      BY <2>3 DEF NoPair
    <3>2. SaysOfPair(frame) /\ SaysMore(frame)
      BY <2>1, <2>2, <3>1 DEF SaysOfPair, SaysMore
    <3> QED
      BY <1>2, <2>1, <2>2, <2>3, <3>2
  <2> QED
    BY <1>1, <2>2, <2>3
<1>9. CASE SendAudio
  <2> DEFINE frame == [type |-> "audio", seq |-> pair.seq, seg |-> pair.seg]
  <2>1. pair # NoPair /\ pair' = NoPair /\ UNCHANGED client
        /\ ((Send(frame) /\ sent' = seq) \/ (client = "gone" /\ UNCHANGED out))
    BY <1>9 DEF SendAudio
  <2>2. pair \in Pair
    BY <1>0, <2>1 DEF TypeOK
  <2>3. frame \in Frame /\ frame.type = "audio" /\ frame.seq = pair.seq /\ frame.seg = pair.seg
    BY <2>2 DEF Frame, Pair
  <2> HIDE DEF frame
  <2>4. SaysOfPair(frame) /\ (sent' = seq => SaysMore(frame))
    BY <2>1, <2>3 DEF SaysOfPair, SaysMore
  <2>5. client = "gone" /\ UNCHANGED <<out, client>> => Quiet
    BY DEF Quiet
  <2> QED
    BY <1>2, <2>1, <2>3, <2>4, <2>5
<1>10. CASE Decide
  <2>1. UNCHANGED client
    BY <1>10 DEF Decide, DecideBySupervisor, DecideByOther
  <2>2. \A s : Silently(s) => Quiet
    BY <1>1, <2>1 DEF Silently
  <2>3. ASSUME NEW code \in {"provider_error", "internal_error"} \cup Limits, NEW s,
               Verdict(s, Error(code))
        PROVE  Quiet \/ Speaks
    <3>1. Error(code) \in Frame /\ Error(code).type = "error"
      BY DEF Error, Frame
    <3>2. SaysOfPair(Error(code)) /\ SaysMore(Error(code))
      BY <2>3, <3>1 DEF SaysOfPair, PairStays, Verdict, SaysMore
    <3> QED
      BY <1>2, <2>1, <2>3, <3>1, <3>2 DEF Verdict
  <2>4. CASE DecideByOther
    BY <1>0, <2>2, <2>3, <2>4 DEF DecideByOther, TypeOK
  <2>5. CASE supervisor = "returned" /\ run = "running" /\
             Verdict("completed", [type |-> "done", runs |-> finished \o Segments(jobs)])
    <3> DEFINE frame == [type |-> "done", runs |-> finished \o Segments(jobs)]
    <3>1. frame \in Frame /\ frame.type = "done"
      <4>1. finished \o Segments(jobs) \in Seq(Segment)
        BY <1>0, SegmentsOfJobs, ConcatProperties DEF TypeOK
      <4> QED
        BY <4>1 DEF Frame
    <3>2. Send(frame) /\ UNCHANGED pair
      BY <2>5 DEF Verdict
    <3> HIDE DEF frame
    <3>3. inner = "returned"
      BY <2>5 DEF TasksInv
    <3>4. pair = NoPair
      BY <2>5, <3>3 DEF LockInv, Live, Ends
    <3> QED
      BY <1>2, <2>1, <3>1, <3>2, <3>3, <3>4 DEF SaysOfPair, SaysMore
  <2> QED
    BY <1>10, <2>2, <2>3, <2>4, <2>5 DEF Decide, DecideBySupervisor
<1>11. CASE Cancelled \/ Teardown \/ Killed
  BY <1>1, <1>11 DEF Cancelled, Silently, Teardown, Killed
<1>12. CASE UNCHANGED vars
  BY <1>1, <1>12 DEF vars
<1> QED
  BY <1>3, <1>4, <1>5, <1>6, <1>7, <1>8, <1>9, <1>10, <1>11, <1>12
     DEF Next, Reader, Clear, Supervisor, Pipeline

\* Headers and their audio.
LEMMA PairsStep ==
    ASSUME SpeakInv, TasksInv, LockInv, PairsInv, [Next]_vars
    PROVE  PairsInv'
<1>0. TypeOK
  BY DEF SpeakInv
<1>1. CASE Quiet
  <2>1. \A h, a : (Together(h, a)' <=> Together(h, a)) /\ (Hanging(h)' <=> Hanging(h))
    BY <1>1 DEF Quiet, Together, Hanging
  <2>2. \A type : Frames(type)' = Frames(type)
    BY <1>1 DEF Quiet, Frames
  <2>3. out' = out
    BY <1>1 DEF Quiet
  <2>4. CASE client' # "here"
    BY <2>1, <2>2, <2>3, <2>4 DEF PairsInv
  <2>5. CASE client' = client /\ PairStays
    BY <2>1, <2>2, <2>3, <2>5 DEF PairsInv, PairStays
  <2> QED
    BY <1>1, <2>4, <2>5 DEF Quiet
<1>2. ASSUME Speaks PROVE PairsInv'
  <2>1. PICK frame \in Frame : out' = Append(out, frame) /\ SaysOfPair(frame)
    BY <1>2 DEF Speaks
  <2>2. client = "here" /\ client' = "here"
    BY <1>2 DEF Speaks
  <2>n. PICK n \in Nat : n = Len(out) + 1
    BY <1>0, <2>1, FrameAdded
  <2>3. /\ Len(out) \in Nat /\ out'[n] = frame /\ \A i \in 1..Len(out) : out'[i] = out[i]
        /\ \A type : Frames(type)' = Frames(type) \cup (IF frame.type = type THEN {n} ELSE {})
    BY <1>0, <2>1, <2>n, FrameAdded
  <2>4. \A type : Frames(type) \subseteq 1..Len(out)
    BY DEF Frames
  <2>5. /\ \A h, a \in 1..Len(out) : Together(h, a) => Together(h, a)'
        /\ \A h \in 1..Len(out) :
              /\ Hanging(h) /\ frame.type = "error" => Hanging(h)'
              /\ Hanging(h) /\ out[h].type = "audio.chunk" /\ frame.type = "audio"
                    /\ frame.seq = out[h].seq => Together(h, n)'
        /\ Hanging(n)'
    BY <1>0, <2>1, <2>n, PairsStand
  <2>6. ASSUME NEW h \in Frames("audio.chunk"), \E a \in Frames("audio") : Together(h, a)
        PROVE  \E a \in Frames("audio")' : Together(h, a)'
    BY <2>3, <2>4, <2>5, <2>6
  <2>7. ASSUME NEW a \in Frames("audio")
        PROVE  \E h \in Frames("audio.chunk")' : Together(h, a)'
    <3>1. PICK h \in Frames("audio.chunk") : Together(h, a)
      BY DEF PairsInv
    <3> QED
      BY <2>3, <2>4, <2>5, <3>1
  <2>8. CASE frame.type = "error" /\ PairStays
    <3>1. /\ Frames("audio")' = Frames("audio") /\ Frames("audio.chunk")' = Frames("audio.chunk")
          /\ \A h \in Frames("audio.chunk") : out'[h] = out[h] /\ (Hanging(h) => Hanging(h)')
      BY <2>3, <2>4, <2>5, <2>8
    <3>2. \A h \in Frames("audio.chunk") :
              \/ \E a \in Frames("audio")' : Together(h, a)'
              \/ Hanging(h)' /\ pair' # NoPair /\ out'[h].seq = pair'.seq
      BY <2>2, <2>6, <2>8, <3>1 DEF PairsInv, PairStays
    <3>3. pair' # NoPair => \E h \in Frames("audio.chunk")' : Hanging(h)' /\ out'[h].seq = pair'.seq
      BY <2>2, <2>8, <3>1 DEF PairsInv, PairStays
    <3> QED
      BY <2>7, <3>1, <3>2, <3>3 DEF PairsInv
  <2>9. CASE frame.type \in {"session.open", "cleared", "done"} /\ pair = NoPair /\ pair' = NoPair
    <3>1. Frames("audio")' = Frames("audio") /\ Frames("audio.chunk")' = Frames("audio.chunk")
      BY <2>3, <2>9
    <3>2. \A h \in Frames("audio.chunk") : \E a \in Frames("audio")' : Together(h, a)'
      BY <2>2, <2>6, <2>9 DEF PairsInv
    <3> QED
      BY <2>7, <2>9, <3>1, <3>2 DEF PairsInv
  <2>10. CASE /\ frame.type = "audio.chunk" /\ pair = NoPair
              /\ pair' # NoPair /\ pair'.seq = frame.seq
    <3>1. Frames("audio")' = Frames("audio") /\ Frames("audio.chunk")' = Frames("audio.chunk") \cup {n}
      BY <2>3, <2>10
    <3>2. \A h \in Frames("audio.chunk") : \E a \in Frames("audio")' : Together(h, a)'
      BY <2>2, <2>6, <2>10 DEF PairsInv
    <3>3. Hanging(n)' /\ out'[n].seq = pair'.seq
      BY <2>3, <2>5, <2>10
    <3> QED
      BY <2>7, <2>10, <3>1, <3>2, <3>3 DEF PairsInv
  <2>11. CASE /\ frame.type = "audio" /\ pair # NoPair /\ pair' = NoPair
              /\ frame.seq = pair.seq
    <3>1. Frames("audio")' = Frames("audio") \cup {n} /\ Frames("audio.chunk")' = Frames("audio.chunk")
      BY <2>3, <2>11
    <3>2. ASSUME NEW h \in Frames("audio.chunk"), Hanging(h), out[h].seq = pair.seq
          PROVE  Together(h, n)'
      <4>1. h \in 1..Len(out) /\ out[h].type = "audio.chunk"
        BY DEF Frames
      <4> QED
        BY <2>5, <2>11, <3>2, <4>1
    <3>3. \E h \in Frames("audio.chunk")' : Together(h, n)'
      BY <2>2, <2>11, <3>1, <3>2 DEF PairsInv
    <3>4. ASSUME NEW h \in Frames("audio.chunk")
          PROVE  \E a \in Frames("audio")' : Together(h, a)'
      <4>1. CASE \E a \in Frames("audio") : Together(h, a)
        BY <2>6, <4>1
      <4>2. CASE Hanging(h) /\ out[h].seq = pair.seq
        BY <3>1, <3>2, <4>2
      <4> QED
        BY <2>2, <4>1, <4>2 DEF PairsInv
    <3> QED
      BY <2>7, <2>11, <3>1, <3>3, <3>4 DEF PairsInv
  <2> QED
    BY <2>1, <2>8, <2>9, <2>10, <2>11 DEF SaysOfPair
<1> QED
  BY <1>1, <1>2, StepSpeaks

-----------------------------------------------------------------------------
(* Text on its way.                                                        *)

\* What a step does to the text that is on its way.
SameJobs == Len(jobs') = Len(jobs) /\ \A i \in 1..Len(jobs) : jobs'[i].seg = jobs[i].seg
Cuts(c) == Cut(c) /\ ~finalized /\ UNCHANGED <<jobs, voiced, finalSeen, reader>>
Drops == /\ reader' \in {"gathering", "clearing"} /\ UNCHANGED voiced
         /\ cut' \in {cut, deltas} /\ jobs' \in {jobs, <<>>} /\ queue' \in {queue, <<>>}
         /\ finalSeen' => finalSeen /\ queue' = queue
MovesOn(js, n) == TopsUp(js, n) /\ UNCHANGED <<cut, reader>>

LEMMA TextMoves ==
    ASSUME SpeakInv, [Next]_vars
    PROVE  \/ SameJobs /\ UNCHANGED <<queue, cut, voiced, finalSeen>>
           \/ \E c \in (cut + 1)..MaxDeltas : Cuts(c)
           \/ ReadFinalize
           \/ Drops
           \/ ClearEnds
           \/ Teardown
           \/ \E n \in Nat : MovesOn(jobs, n) /\ UNCHANGED voiced
           \/ \E n \in Nat : JobEnds /\ MovesOn(Tail(jobs), n)
<1> USE DEF textPart, workPart, pipePart, pairPart, readPart, runPart
<1>0. jobs \in Seq(Job) /\ Len(jobs) <= PREFETCH + 1 /\ PREFETCH \in Nat /\ deltas \in 0..MaxDeltas
  BY SpeakAssumption DEF SpeakInv, TypeOK, BoundedPrefetch
<1>1. UNCHANGED jobs => SameJobs
  BY DEF SameJobs
<1>2. CASE Open \/ OpenFails \/ ReadDisconnect \/ ClearSays \/ ClientLeaves \/ Restart
           \/ SupervisorEnds \/ JobFails \/ DecideBySupervisor \/ DecideByOther \/ Cancelled
           \/ Killed \/ UNCHANGED vars \/ \E limit \in Trips : WatchdogTrips(limit)
  BY <1>1, <1>2
     DEF Open, OpenFails, ReadDisconnect, ClearSays, ClientLeaves, Restart, SupervisorEnds,
         JobFails, DecideBySupervisor, DecideByOther, Cancelled, Killed, WatchdogTrips, vars
<1>3. CASE ReadText
  <2>1. CASE UNCHANGED <<cut, queue>>
    BY <1>1, <1>3, <2>1 DEF ReadText
  <2>2. ASSUME NEW c \in (cut + 1)..deltas', Cut(c)
        PROVE  c \in (cut + 1)..MaxDeltas /\ Cuts(c)
    BY <1>0, <1>3, <2>2, SpeakAssumption DEF ReadText, Cuts, SpeakInv, TypeOK
  <2> QED
    BY <1>3, <2>1, <2>2 DEF ReadText
<1>4. CASE TakeStale
  <2>1. PICK c \in (cut + 1)..(deltas - 1) : Cut(c)
    BY <1>4 DEF TakeStale
  <2>2. c \in (cut + 1)..MaxDeltas
    BY <1>0, SpeakAssumption DEF SpeakInv, TypeOK
  <2>3. Cuts(c)
    BY <1>4, <2>1 DEF TakeStale, Cuts
  <2> QED
    BY <2>2, <2>3
<1>5. CASE ReadClear
  <2>1. CASE UNCHANGED <<cut, workPart>>
    BY <1>1, <1>5, <2>1 DEF ReadClear
  <2>2. CASE TakeJobs
    BY <1>5, <2>2 DEF ReadClear, TakeJobs, DropPending, Drops
  <2> QED
    BY <1>5, <2>1, <2>2 DEF ReadClear
<1>6. CASE ClearTakesJobs
  BY <1>6 DEF ClearTakesJobs, TakeJobs, DropPending, Drops
<1>7. CASE ClearDrops
  BY <1>7 DEF ClearDrops, DropPending, Drops
<1>8. CASE Turn
  <2>1. TopUp(jobs) /\ UNCHANGED <<cut, reader, voiced>>
    BY <1>8 DEF Turn, Advance
  <2>2. PICK n \in Nat : TopsUp(jobs, n)
    BY <1>0, <2>1, TopUpEffect
  <2> QED
    BY <2>1, <2>2 DEF MovesOn
<1>9. CASE JobEnds
  <2>1. jobs # <<>> /\ TopUp(Tail(jobs)) /\ UNCHANGED <<cut, reader>>
    BY <1>9 DEF JobEnds, Advance
  <2>2. Tail(jobs) \in Seq(Job) /\ Len(Tail(jobs)) <= PREFETCH + 1
    BY <1>0, <2>1
  <2>3. PICK n \in Nat : TopsUp(Tail(jobs), n)
    BY <2>1, <2>2, TopUpEffect
  <2> QED
    BY <1>9, <2>1, <2>3 DEF MovesOn
<1>10. CASE SendHeader
  <2>1. \A i \in 1..Len(jobs) : jobs[i] \in Job
    BY <1>0, ElementOfSeq
  <2>2. \A i \in 1..Len(jobs) : DOMAIN jobs[i] = {"seg", "ready", "made", "end"}
    BY <2>1 DEF Job
  <2>3. jobs' = [jobs EXCEPT ![1].ready = @ - 1] /\ UNCHANGED <<queue, cut, voiced, finalSeen>>
    BY <1>10 DEF SendHeader
  <2>4. SameJobs
    BY <1>0, <2>2, <2>3 DEF SameJobs
  <2> QED
    BY <2>3, <2>4
<1>11. CASE Produce
  <2>1. \A i \in 1..Len(jobs) : jobs[i] \in Job
    BY <1>0, ElementOfSeq
  <2>2. \A i \in 1..Len(jobs) : DOMAIN jobs[i] = {"seg", "ready", "made", "end"}
    BY <2>1 DEF Job
  <2>3. PICK i \in 1..Len(jobs) :
          \/ /\ jobs[i].made < MaxAudio
             /\ jobs' = [jobs EXCEPT ![i].made = @ + 1, ![i].ready = @ + 1]
          \/ \E e \in {"end"} \cup (Faults \cap JobFaults) :
                jobs' = [jobs EXCEPT ![i].end = e]
    BY <1>11 DEF Produce
  <2>4. \A k \in 1..Len(jobs) : jobs'[k].seg = jobs[k].seg
    BY <1>0, <2>2, <2>3
  <2>5. Len(jobs') = Len(jobs)
    BY <1>0, <2>3
  <2> QED
    BY <1>11, <2>4, <2>5 DEF Produce, SameJobs
<1>12. CASE SendAudio
  <2>1. CASE TopUp(jobs)
    <3>1. PICK n \in Nat : TopsUp(jobs, n)
      BY <1>0, <2>1, TopUpEffect
    <3> QED
      BY <1>12, <3>1 DEF SendAudio, MovesOn
  <2>2. CASE UNCHANGED workPart
    BY <1>1, <1>12, <2>2 DEF SendAudio
  <2> QED
    BY <1>12, <2>1, <2>2 DEF SendAudio
<1> QED
  BY <1>2, <1>3, <1>4, <1>5, <1>6, <1>7, <1>8, <1>9, <1>10, <1>11, <1>12
     DEF Next, Reader, Clear, Supervisor, Pipeline, Decide

\* What finalize queues: the rest of the text, if there is any, and Final.
LEMMA TailedQueue ==
    ASSUME SpeakInv, ReadFinalize
    PROVE  /\ \A k \in 1..Len(queue) : k \in 1..Len(queue') /\ queue'[k] = queue[k]
           /\ \A k \in 1..Len(queue') :
                 \/ k \in 1..Len(queue) /\ queue'[k] = queue[k]
                 \/ queue'[k] = Final
                 \/ queue'[k] = [from |-> cut + 1, to |-> deltas]
           /\ cut < deltas => \E k \in 1..Len(queue') : queue'[k] = [from |-> cut + 1, to |-> deltas]
<1>1. /\ queue \in Seq(Segment \cup {Final}) /\ Len(queue) \in Nat /\ cut \in 0..deltas
      /\ deltas \in 0..MaxDeltas /\ MaxDeltas \in Nat
  BY SpeakAssumption DEF SpeakInv, TypeOK
<1>2. queue' = queue \o Tailed
  BY DEF ReadFinalize
<1> DEFINE seg == [from |-> cut + 1, to |-> deltas]
<1>3. cut < deltas => seg \in Segment
  BY <1>1 DEF Segment
<1> HIDE DEF seg
<1>4. /\ Tailed \in Seq(Segment \cup {Final})
      /\ Len(Tailed) \in {1, 2}
      /\ \A k \in 1..Len(Tailed) : Tailed[k] \in {Final, seg}
      /\ cut < deltas => Tailed[1] = seg /\ 1 \in 1..Len(Tailed)
  <2>1. CASE cut < deltas
    <3>1. Tailed = <<seg, Final>>
      BY <2>1 DEF Tailed, seg
    <3> QED
      BY <1>3, <2>1, <3>1
  <2>2. CASE ~(cut < deltas)
    <3>1. Tailed = <<Final>>
      BY <2>2 DEF Tailed
    <3> QED
      BY <2>2, <3>1
  <2> QED
    BY <2>1, <2>2
<1>5. /\ Len(queue') = Len(queue) + Len(Tailed)
      /\ \A k \in 1..Len(queue) + Len(Tailed) :
            queue'[k] = IF k <= Len(queue) THEN queue[k] ELSE Tailed[k - Len(queue)]
  BY <1>1, <1>2, <1>4, ConcatProperties
<1>6. \A k \in 1..Len(queue) : k \in 1..Len(queue') /\ queue'[k] = queue[k]
  BY <1>1, <1>4, <1>5
<1>7. ASSUME NEW k \in 1..Len(queue'), k \notin 1..Len(queue)
      PROVE  queue'[k] = Final \/ queue'[k] = seg
  <2>1. ~(k <= Len(queue)) /\ k - Len(queue) \in 1..Len(Tailed)
    BY <1>1, <1>4, <1>5, <1>7
  <2> QED
    BY <1>4, <1>5, <2>1
<1>8. cut < deltas => Len(queue) + 1 \in 1..Len(queue') /\ queue'[Len(queue) + 1] = seg
  BY <1>1, <1>4, <1>5
<1> QED
  BY <1>6, <1>7, <1>8 DEF seg

\* Pending text is text.
LEMMA PendingIsText == ASSUME TypeOK PROVE \A seg \in Pending : seg.from \in Nat
<1>1. \A s \in Segment : s.from \in Nat
  BY SpeakAssumption DEF Segment
<1>2. \A i \in 1..Len(jobs) : jobs[i].seg \in Segment
  BY SegmentsOfJobs DEF TypeOK
<1>3. \A k \in 1..Len(queue) : queue[k] # Final => queue[k] \in Segment
  BY DEF TypeOK
<1>4. pair # NoPair => pair.seg \in Segment
  BY DEF TypeOK, Pair
<1> QED
  BY <1>1, <1>2, <1>3, <1>4 DEF Pending

\* The text that comes on its way is later than what was cut before.
LEMMA PendingIsNew ==
    ASSUME SpeakInv, [Next]_vars
    PROVE  /\ cut \in Nat /\ cut' \in Nat /\ cut <= cut'
           /\ \A seg \in Pending' : seg.from \in Nat /\ (seg \in Pending \/ seg.from > cut)
<1>0. /\ jobs \in Seq(Job) /\ queue \in Seq(Segment \cup {Final}) /\ cut \in 0..deltas
      /\ deltas \in 0..MaxDeltas /\ MaxDeltas \in Nat /\ Len(jobs) \in Nat /\ Len(queue) \in Nat
      /\ cut \in Nat
  BY SpeakAssumption DEF SpeakInv, TypeOK
<1> DEFINE Late(seg) == seg.from \in Nat /\ (seg \in Pending \/ seg.from > cut)
<1>a. \A seg \in Pending : seg.from \in Nat
  BY PendingIsText DEF SpeakInv
<1>1. \A i \in 1..Len(jobs) : Late(jobs[i].seg)
  BY <1>a DEF Pending
<1>2. \A k \in 1..Len(queue) : queue[k] # Final => Late(queue[k])
  BY <1>a DEF Pending
<1>3. pair # NoPair => Late(pair.seg)
  BY <1>a DEF Pending
<1> DEFINE JobsLate == \A i \in 1..Len(jobs') : Late(jobs'[i].seg)
           QueueLate == \A k \in 1..Len(queue') : queue'[k] # Final => Late(queue'[k])
           PairLate == pair' # NoPair => Late(pair'.seg)
           CutGrows == cut' \in Nat /\ cut <= cut'
<1> HIDE DEF Late
<1>4. PairLate
  <2>1. CASE SendHeader
    <3>1. pair = NoPair /\ jobs # <<>> /\ (pair' # NoPair => pair'.seg = Head(jobs).seg)
      BY <2>1 DEF SendHeader, LockFree
    <3>2. Head(jobs) = jobs[1] /\ 1 \in 1..Len(jobs)
      BY <1>0, <3>1
    <3> QED
      BY <1>1, <3>1, <3>2
  <2>2. CASE SendAudio
    BY <2>2 DEF SendAudio
  <2>3. CASE SamePair
    BY <1>3, <2>3 DEF SamePair
  <2> QED
    BY <2>1, <2>2, <2>3, OthersSendNoAudio
<1>5. ASSUME SameJobs PROVE JobsLate
  BY <1>1, <1>5 DEF SameJobs
<1>6. ASSUME UNCHANGED queue PROVE QueueLate
  BY <1>2, <1>6
<1>7. ASSUME UNCHANGED jobs PROVE JobsLate
  BY <1>1, <1>7
<1>8. ASSUME NEW js, NEW n \in Nat, TopsUp(js, n), \A i \in 1..Len(js) : Late(js[i].seg),
             js \in Seq(Job)
      PROVE  JobsLate /\ QueueLate
  <2>1. ASSUME NEW i \in 1..Len(jobs') PROVE Late(jobs'[i].seg)
    <3>1. Len(js) \in Nat
      BY <1>8
    <3>2. Len(jobs') = Len(js) + n
      BY <1>8 DEF TopsUp
    <3>3. CASE i \in 1..Len(js)
      BY <1>8, <3>3 DEF TopsUp
    <3>4. CASE i \notin 1..Len(js)
      <4>1. i - Len(js) \in 1..n /\ Len(js) + (i - Len(js)) = i
        BY <3>1, <3>2, <3>4
      <4>2. PICK k \in 1..n : Len(js) + k = i
        BY <4>1
      <4>3. jobs'[i].seg = queue[k] /\ queue[k] \in Segment /\ n \in 0..Len(queue)
        BY <1>8, <4>2 DEF TopsUp
      <4>4. k \in 1..Len(queue) /\ queue[k] # Final
        BY <1>0, <4>3, FinalIsNoSegment
      <4> QED
        BY <1>2, <4>3, <4>4
    <3> QED
      BY <3>3, <3>4
  <2>2. ASSUME NEW k \in 1..Len(queue'), queue'[k] # Final PROVE Late(queue'[k])
    <3>1. k + n \in 1..Len(queue) /\ queue'[k] = queue[k + n]
      BY <1>8 DEF TopsUp
    <3> QED
      BY <1>2, <2>2, <3>1
  <2> QED
    BY <2>1, <2>2
<1>9. JobsLate /\ QueueLate /\ CutGrows
  <2>1. CASE SameJobs /\ UNCHANGED <<queue, cut, voiced, finalSeen>>
    BY <1>0, <1>5, <1>6, <2>1
  <2>2. ASSUME NEW c \in (cut + 1)..MaxDeltas, Cuts(c) PROVE JobsLate /\ QueueLate /\ CutGrows
    <3> DEFINE seg == [from |-> cut + 1, to |-> c]
    <3>1. queue' = Append(queue, seg) /\ cut' = c /\ UNCHANGED jobs
      BY <2>2 DEF Cuts, Cut
    <3>2. Late(seg)
      BY <1>0 DEF Late
    <3> HIDE DEF seg
    <3>3. QueueLate
      BY <1>0, <1>2, <3>1, <3>2
    <3>4. CutGrows
      BY <1>0, <3>1
    <3> QED
      BY <1>7, <3>1, <3>3, <3>4
  <2>3. CASE ReadFinalize
    <3>1. CutGrows /\ UNCHANGED jobs
      BY <1>0, <2>3 DEF ReadFinalize
    <3>2. Late([from |-> cut + 1, to |-> deltas])
      BY <1>0 DEF Late
    <3>3. ASSUME NEW k \in 1..Len(queue'), queue'[k] # Final PROVE Late(queue'[k])
      BY <1>2, <2>3, <3>2, <3>3, TailedQueue
    <3> QED
      BY <1>7, <3>1, <3>3
  <2>4. CASE Drops
    <3>1. CutGrows
      BY <1>0, <2>4 DEF Drops
    <3>2. JobsLate
      BY <1>1, <2>4 DEF Drops
    <3>3. QueueLate
      BY <1>2, <2>4 DEF Drops
    <3> QED
      BY <3>1, <3>2, <3>3
  <2>5. CASE ClearEnds
    <3>1. /\ cut' = cut /\ UNCHANGED jobs
          /\ queue' = Append(queue, Final) \/ queue' = queue
      BY <2>5 DEF ClearEnds, textPart
    <3>2. CASE queue' = Append(queue, Final)
      <4>1. QueueLate
        BY <1>0, <1>2, <3>2
      <4> QED
        BY <1>0, <1>7, <3>1, <4>1
    <3> QED
      BY <1>0, <1>6, <1>7, <3>1, <3>2
  <2>6. CASE Teardown
    <3>1. cut' = cut /\ queue' = queue /\ jobs' = <<>>
      BY <2>6 DEF Teardown, textPart
    <3> QED
      BY <1>0, <1>6, <3>1
  <2>7. ASSUME NEW n \in Nat, MovesOn(jobs, n) PROVE JobsLate /\ QueueLate /\ CutGrows
    BY <1>0, <1>1, <1>8, <2>7 DEF MovesOn
  <2>8. ASSUME NEW n \in Nat, JobEnds, MovesOn(Tail(jobs), n)
        PROVE  JobsLate /\ QueueLate /\ CutGrows
    <3>1. jobs # <<>>
      BY <2>8 DEF JobEnds
    <3>2. /\ Tail(jobs) \in Seq(Job) /\ Len(Tail(jobs)) = Len(jobs) - 1
          /\ \A i \in 1..Len(Tail(jobs)) : Tail(jobs)[i] = jobs[i + 1] /\ i + 1 \in 1..Len(jobs)
      BY <1>0, <3>1
    <3>3. \A i \in 1..Len(Tail(jobs)) : Late(Tail(jobs)[i].seg)
      BY <1>1, <3>2
    <3>4. JobsLate /\ QueueLate
      BY <1>8, <2>8, <3>2, <3>3 DEF MovesOn
    <3> QED
      BY <1>0, <2>8, <3>4 DEF MovesOn
  <2> QED
    BY <2>1, <2>2, <2>3, <2>4, <2>5, <2>6, <2>7, <2>8, TextMoves
<1>10. \A seg \in Pending' : Late(seg)
  BY <1>4, <1>9 DEF Pending
<1> QED
  BY <1>0, <1>9, <1>10 DEF Late

\* Chunk numbers, and the number `cleared` quotes.
LEMMA SentGrows == SpeakInv /\ [Next]_vars => sent \in Nat /\ sent' \in Nat /\ sent <= sent'
<1> SUFFICES ASSUME SpeakInv, [Next]_vars PROVE sent \in 0..seq /\ seq \in Nat /\ sent' \in {sent, seq}
  OBVIOUS
<1>1. sent \in 0..seq /\ seq \in Nat
  BY DEF SpeakInv, TypeOK
<1>2. CASE SendAudio
  BY <1>1, <1>2 DEF SendAudio
<1>3. CASE ~SendAudio
  BY <1>1, <1>3 DEF Next, vars, Reader, Clear, Supervisor, Pipeline, Decide, Open, OpenFails, ReadText,
     ReadFinalize, ReadDisconnect, ReadClear, ClearTakesJobs, ClearDrops, ClearSays, ClearEnds,
     ClientLeaves, Restart, SupervisorEnds, Turn, SendHeader, JobEnds, JobFails, Produce, TakeStale,
     WatchdogTrips, DecideBySupervisor, DecideByOther, Cancelled, Teardown, Killed, pairPart
<1> QED
  BY <1>1, <1>2, <1>3

\* A pair gets a number of its own.
LEMMA PairNumber ==
    ASSUME SpeakInv, [Next]_vars
    PROVE  /\ seq \in Nat /\ seq' \in Nat /\ seq <= seq'
           /\ pair' # NoPair =>
                 /\ pair'.seq \in Nat
                 /\ pair'.seq > seq \/ (pair # NoPair /\ pair'.seq = pair.seq)
<1>0. seq \in Nat /\ (pair # NoPair => pair.seq \in Nat)
  BY DEF SpeakInv, TypeOK, Pair
<1>1. CASE SendHeader
  <2>1. pair = NoPair /\ seq' = seq + 1 /\ (pair' # NoPair => pair'.seq = seq')
    BY <1>1 DEF SendHeader, LockFree
  <2> QED
    BY <1>0, <2>1
<1>2. CASE SendAudio
  BY <1>0, <1>2 DEF SendAudio
<1>3. CASE SamePair /\ seq' = seq
  BY <1>0, <1>3 DEF SamePair
<1> QED
  BY <1>1, <1>2, <1>3, OthersSendNoAudio

\* `cleared` quotes numbers.
LEMMA ClearedFrames ==
    ASSUME TypeOK, NEW c \in Frames("cleared")
    PROVE  out[c].seq \in Nat /\ out[c].deltas \in Nat /\ c \in 1..Len(out)
<1>1. out[c] \in Frame /\ out[c].type = "cleared" /\ c \in 1..Len(out)
  BY DEF TypeOK, Frames
<1> QED
  BY <1>1 DEF Frame

\* The barrier.
LEMMA BarrierStep ==
    ASSUME SpeakInv, TasksInv, LockInv, BarrierInv, [Next]_vars
    PROVE  BarrierInv'
<1>0. TypeOK /\ sent \in 0..seq /\ seq \in Nat /\ deltas \in Nat
  BY SpeakAssumption DEF SpeakInv, TypeOK
<1>1. ASSUME NEW c \in Frames("cleared")
      PROVE  /\ out[c].deltas <= cut' /\ \A seg \in Pending' : seg.from > out[c].deltas
             /\ out[c].seq <= seq' /\ (pair' # NoPair => pair'.seq > out[c].seq)
  <2>1. /\ out[c].seq \in Nat /\ out[c].deltas \in Nat
        /\ out[c].deltas <= cut /\ out[c].seq <= seq
        /\ \A seg \in Pending : seg.from > out[c].deltas
        /\ pair # NoPair => pair.seq > out[c].seq
    BY <1>0, ClearedFrames DEF BarrierInv
  <2>2. ASSUME NEW seg \in Pending' PROVE seg.from > out[c].deltas
    BY <2>1, PendingIsNew
  <2>3. out[c].deltas <= cut'
    BY <2>1, PendingIsNew
  <2>4. out[c].seq <= seq'
    BY <2>1, PairNumber
  <2>5. pair' # NoPair => pair'.seq > out[c].seq
    BY <2>1, PairNumber
  <2> QED
    BY <2>2, <2>3, <2>4, <2>5
<1>2. \A a \in Frames("audio") : out[a].seq \in Nat /\ out[a].seq <= sent /\ out[a].seq <= sent'
  BY <1>0, AudioFrames, SentGrows DEF BarrierInv
<1>3. CASE UNCHANGED out
  <2>1. \A type : Frames(type)' = Frames(type)
    BY <1>3 DEF Frames
  <2>2. ClearedIsABarrier'
    BY <1>3, <2>1 DEF BarrierInv, ClearedIsABarrier
  <2> QED
    BY <1>1, <1>2, <1>3, <2>1, <2>2 DEF BarrierInv
<1>4. ASSUME NEW frame \in Frame, out' = Append(out, frame), SaysOfPair(frame), SaysMore(frame)
      PROVE  BarrierInv'
  <2>n. PICK n \in Nat : n = Len(out) + 1
    BY <1>0, <1>4, FrameAdded
  <2>1. /\ Len(out) \in Nat /\ out'[n] = frame /\ \A i \in 1..Len(out) : out'[i] = out[i]
        /\ \A type : Frames(type)' = Frames(type) \cup (IF frame.type = type THEN {n} ELSE {})
    BY <1>0, <1>4, <2>n, FrameAdded
  <2>2. \A type : \A i \in Frames(type) : i \in 1..Len(out) /\ i < n
    BY <2>n, <2>1 DEF Frames
  <2>3. /\ \A c \in Frames("cleared") : out'[c] = out[c]
        /\ \A a \in Frames("audio") : out'[a] = out[a]
    BY <2>1, <2>2
  <2>4. CASE frame.type \notin {"audio", "cleared"}
    <3>1. Frames("audio")' = Frames("audio") /\ Frames("cleared")' = Frames("cleared")
      BY <2>1, <2>4
    <3>2. ClearedIsABarrier'
      BY <2>3, <3>1 DEF BarrierInv, ClearedIsABarrier
    <3> QED
      BY <1>1, <1>2, <2>3, <3>1, <3>2 DEF BarrierInv
  <2>5. CASE frame.type = "audio"
    <3>1. Frames("audio")' = Frames("audio") \cup {n} /\ Frames("cleared")' = Frames("cleared")
      BY <2>1, <2>5
    <3>2. pair # NoPair /\ frame.seq = pair.seq /\ frame.seg = pair.seg /\ sent' = seq
      BY <1>4, <2>5 DEF SaysOfPair, SaysMore
    <3>3. pair.seq = seq /\ pair.seg \in Pending
      BY <3>2 DEF SpeakInv, PairInv, Pending
    <3>4. ASSUME NEW c \in Frames("cleared")
          PROVE  out'[n].seq > out'[c].seq /\ out'[n].seg.from > out'[c].deltas
      BY <2>1, <2>3, <3>2, <3>3 DEF BarrierInv
    <3>5. ASSUME NEW c \in Frames("cleared"), NEW i \in Frames("audio")
          PROVE  IF i < c THEN out'[i].seq <= out'[c].seq
                 ELSE out'[i].seq > out'[c].seq /\ out'[i].seg.from > out'[c].deltas
      BY <2>3 DEF BarrierInv, ClearedIsABarrier
    <3>6. \A c \in Frames("cleared") : ~(n < c)
      BY <2>2, <2>n, <2>1
    <3>7. ClearedIsABarrier'
      BY <3>1, <3>4, <3>5, <3>6 DEF ClearedIsABarrier
    <3>8. out'[n].seq <= sent'
      BY <1>0, <2>1, <3>2, <3>3
    <3> QED
      BY <1>1, <1>2, <2>3, <3>1, <3>7, <3>8 DEF BarrierInv
  <2>6. CASE frame.type = "cleared"
    <3>1. Frames("audio")' = Frames("audio") /\ Frames("cleared")' = Frames("cleared") \cup {n}
      BY <2>1, <2>6
    <3>2. /\ pair = NoPair /\ pair' = NoPair /\ reader = "clearing"
          /\ frame.seq = sent /\ frame.deltas = deltas
      BY <1>4, <2>6 DEF SaysOfPair, SaysMore
    <3>3. Pending = {} /\ cut = deltas
      <4>1. jobs = <<>> /\ queue = <<>> /\ cut = deltas
        BY <3>2 DEF TasksInv
      <4> QED
        BY <3>2, <4>1 DEF Pending
    <3>4. /\ out'[n].deltas <= cut' /\ \A seg \in Pending' : seg.from > out'[n].deltas
          /\ out'[n].seq <= seq' /\ (pair' # NoPair => pair'.seq > out'[n].seq)
      <4>1. deltas <= cut' /\ \A seg \in Pending' : seg.from > deltas
        BY <3>3, PendingIsNew
      <4>2. sent <= seq'
        BY <1>0, PairNumber
      <4> QED
        BY <2>1, <3>2, <4>1, <4>2
    <3>5. ASSUME NEW i \in Frames("audio") PROVE i < n /\ out'[i].seq <= out'[n].seq
      BY <1>2, <2>1, <2>2, <2>3, <3>2
    <3>6. ASSUME NEW c \in Frames("cleared"), NEW i \in Frames("audio")
          PROVE  IF i < c THEN out'[i].seq <= out'[c].seq
                 ELSE out'[i].seq > out'[c].seq /\ out'[i].seg.from > out'[c].deltas
      BY <2>3 DEF BarrierInv, ClearedIsABarrier
    <3>7. ClearedIsABarrier'
      BY <3>1, <3>5, <3>6 DEF ClearedIsABarrier
    <3> QED
      BY <1>1, <1>2, <2>3, <3>1, <3>4, <3>7 DEF BarrierInv
  <2> QED
    BY <2>4, <2>5, <2>6
<1> QED
  BY <1>3, <1>4, StepSpeaks DEF Quiet, Speaks

\* No text that is in work is lost, but by a clear.
LEMMA WorkIsKept ==
    ASSUME SpeakInv, [Next]_vars, Opened', reader' \notin {"gathering", "clearing"},
           NEW t \in 1..cut', t <= cut => InWork(t)
    PROVE  InWork(t)'
<1>0. /\ jobs \in Seq(Job) /\ queue \in Seq(Segment \cup {Final}) /\ cut \in Nat
      /\ deltas \in Nat /\ Len(jobs) \in Nat /\ Len(queue) \in Nat /\ t \in Nat /\ t >= 1
  <2>1. cut' \in Nat
    BY PendingIsNew
  <2> QED
    BY <2>1, SpeakAssumption DEF SpeakInv, TypeOK
<1> DEFINE Covers(seg) == seg.from <= t /\ t <= seg.to
<1>1. ASSUME NEW i \in 1..Len(jobs'), Covers(jobs'[i].seg) PROVE InWork(t)'
  BY <1>1 DEF InWork
<1>2. ASSUME NEW k \in 1..Len(queue'), Covers(queue'[k]) PROVE InWork(t)'
  BY <1>2 DEF InWork
<1>3. ASSUME t \in voiced' PROVE InWork(t)'
  BY <1>3 DEF InWork
<1>4. InWork(t) => \/ t \in voiced
                   \/ \E i \in 1..Len(jobs) : Covers(jobs[i].seg)
                   \/ \E k \in 1..Len(queue) : Covers(queue[k])
  BY DEF InWork
<1>5. ~Covers(Final)
  BY <1>0 DEF Final
<1> HIDE DEF Covers
<1>6. CASE SameJobs /\ UNCHANGED <<queue, cut, voiced, finalSeen>>
  <2>1. InWork(t)
    BY <1>0, <1>6
  <2> QED
    BY <1>1, <1>2, <1>3, <1>4, <1>6, <2>1 DEF SameJobs
<1>7. ASSUME NEW c \in (cut + 1)..MaxDeltas, Cuts(c) PROVE InWork(t)'
  <2> DEFINE seg == [from |-> cut + 1, to |-> c]
  <2>1. queue' = Append(queue, seg) /\ cut' = c /\ UNCHANGED <<jobs, voiced>>
    BY <1>7 DEF Cuts, Cut
  <2>2. t > cut => Covers(seg)
    BY <1>0, <2>1 DEF Covers
  <2> HIDE DEF seg
  <2>3. /\ Len(queue) + 1 \in 1..Len(queue') /\ queue'[Len(queue) + 1] = seg
        /\ \A k \in 1..Len(queue) : k \in 1..Len(queue') /\ queue'[k] = queue[k]
    BY <1>0, <2>1
  <2>4. CASE t > cut
    BY <1>2, <2>2, <2>3, <2>4
  <2>5. CASE t <= cut
    BY <1>1, <1>2, <1>3, <1>4, <2>1, <2>3, <2>5
  <2> QED
    BY <1>0, <2>4, <2>5
<1>8. CASE ReadFinalize
  <2>1. cut' = deltas /\ UNCHANGED <<jobs, voiced>>
    BY <1>8 DEF ReadFinalize
  <2>2. CASE t <= cut
    BY <1>1, <1>2, <1>3, <1>4, <1>8, <2>1, <2>2, TailedQueue
  <2>3. CASE t > cut
    <3>1. cut < deltas /\ Covers([from |-> cut + 1, to |-> deltas])
      BY <1>0, <2>1, <2>3 DEF Covers
    <3> QED
      BY <1>2, <1>8, <3>1, TailedQueue
  <2> QED
    BY <1>0, <2>2, <2>3
<1>9. CASE Drops
  BY <1>9 DEF Drops
<1>10. CASE ClearEnds
  <2>1. cut' = cut /\ UNCHANGED <<jobs, voiced>> /\ (queue' = Append(queue, Final) \/ queue' = queue)
    BY <1>10 DEF ClearEnds, textPart
  <2>2. \A k \in 1..Len(queue) : k \in 1..Len(queue') /\ queue'[k] = queue[k]
    BY <1>0, <2>1
  <2>3. InWork(t)
    BY <1>0, <2>1
  <2> QED
    BY <1>1, <1>2, <1>3, <1>4, <2>1, <2>2, <2>3
<1>11. CASE Teardown
  BY <1>11 DEF Teardown, Opened
<1>12. ASSUME NEW js \in Seq(Job), NEW n \in Nat, MovesOn(js, n), t \notin voiced',
              voiced \subseteq voiced', NEW k \in 1..Len(queue), Covers(queue[k])
       PROVE  InWork(t)'
  <2>1. Len(js) \in Nat /\ TopsUp(js, n) /\ queue[k] # Final
    BY <1>5, <1>12 DEF MovesOn
  <2>2. CASE k <= n
    <3>1. k \in 1..n
      BY <2>2
    <3>2. jobs'[Len(js) + k].seg = queue[k] /\ Len(jobs') = Len(js) + n
      BY <2>1, <3>1 DEF TopsUp
    <3>3. Len(js) + k \in 1..Len(jobs')
      BY <2>1, <3>1, <3>2
    <3> QED
      BY <1>1, <1>12, <3>2, <3>3
  <2>3. CASE k > n
    <3>1. k - n \in 1..Len(queue')
      BY <2>1, <2>3 DEF TopsUp
    <3>2. queue'[k - n] = queue[(k - n) + n]
      BY <2>1, <3>1 DEF TopsUp
    <3>3. (k - n) + n = k
      OBVIOUS
    <3> QED
      BY <1>2, <1>12, <3>1, <3>2, <3>3
  <2> QED
    BY <2>2, <2>3
<1>13. ASSUME NEW n \in Nat, MovesOn(jobs, n), UNCHANGED voiced PROVE InWork(t)'
  <2>1. InWork(t)
    BY <1>0, <1>13 DEF MovesOn
  <2>2. ASSUME NEW i \in 1..Len(jobs), Covers(jobs[i].seg) PROVE InWork(t)'
    <3>1. jobs'[i] = jobs[i] /\ Len(jobs') = Len(jobs) + n
      BY <1>13 DEF MovesOn, TopsUp
    <3>2. i \in 1..Len(jobs')
      BY <1>0, <3>1
    <3> QED
      BY <1>1, <2>2, <3>1, <3>2
  <2> QED
    BY <1>0, <1>3, <1>4, <1>12, <1>13, <2>1, <2>2
<1>14. ASSUME NEW n \in Nat, JobEnds, MovesOn(Tail(jobs), n) PROVE InWork(t)'
  <2>1. InWork(t)
    BY <1>0, <1>14 DEF MovesOn
  <2>2. jobs # <<>> /\ voiced' = voiced \cup (jobs[1].seg.from .. jobs[1].seg.to)
    BY <1>0, <1>14 DEF JobEnds
  <2>3. /\ Tail(jobs) \in Seq(Job) /\ Len(Tail(jobs)) = Len(jobs) - 1
        /\ \A i \in 1..Len(Tail(jobs)) : Tail(jobs)[i] = jobs[i + 1]
    BY <1>0, <2>2
  <2>4. ASSUME NEW i \in 1..Len(jobs), Covers(jobs[i].seg) PROVE InWork(t)'
    <3>1. CASE i = 1
      <4>1. 1 \in 1..Len(jobs)
        BY <3>1
      <4>2. jobs[1].seg.from \in Int /\ jobs[1].seg.to \in Int
        <5>1. jobs[1].seg \in Segment
          BY <1>0, <4>1, SegmentsOfJobs
        <5> QED
          BY <5>1 DEF Segment
      <4>3. t \in jobs[1].seg.from .. jobs[1].seg.to
        BY <1>0, <2>4, <3>1, <4>2 DEF Covers
      <4> QED
        BY <1>3, <2>2, <4>3
    <3>2. CASE i # 1
      <4>1. i - 1 \in 1..Len(Tail(jobs)) /\ Tail(jobs)[i - 1] = jobs[i]
        BY <1>0, <2>3, <3>2
      <4>2. jobs'[i - 1] = Tail(jobs)[i - 1] /\ Len(jobs') = Len(Tail(jobs)) + n
        BY <1>14, <4>1 DEF MovesOn, TopsUp
      <4>3. i - 1 \in 1..Len(jobs')
        BY <1>0, <2>3, <4>1, <4>2
      <4> QED
        BY <1>1, <2>4, <4>1, <4>2, <4>3
    <3> QED
      BY <3>1, <3>2
  <2>5. voiced \subseteq voiced'
    BY <2>2
  <2> QED
    BY <1>3, <1>4, <1>12, <1>14, <2>1, <2>3, <2>4, <2>5
<1> QED
  BY <1>6, <1>7, <1>8, <1>9, <1>10, <1>11, <1>13, <1>14, TextMoves

\* What finalize fixes.
LEMMA FinalizedText ==
    ASSUME SpeakInv, [Next]_vars
    PROVE  \/ ~finalized /\ ~finalized'
           \/ ReadFinalize
           \/ finalized /\ finalized' /\ UNCHANGED deltas /\ cut' \in {cut, deltas}
<1> USE DEF textPart
<1>1. CASE Clear
  BY <1>1 DEF Clear, ReadClear, ClearTakesJobs, ClearDrops, ClearSays, ClearEnds, TakeJobs,
     DropPending, SpeakInv, TypeOK
<1>2. CASE ~Clear
  BY <1>2 DEF Next, vars, Reader, Supervisor, Pipeline, Decide, Open, OpenFails, ReadText,
     ReadDisconnect, ClientLeaves, Restart, SupervisorEnds, Turn, SendHeader, JobEnds, JobFails,
     Produce, SendAudio, TakeStale, WatchdogTrips, DecideBySupervisor, DecideByOther, Cancelled,
     Teardown, Killed, SpeakInv, TypeOK
<1> QED
  BY <1>1, <1>2

\* A Final that was read is the last of the queue.
LEMMA FinalIsLast ==
    ASSUME SpeakInv, TasksInv, [Next]_vars, finalSeen => queue = <<>>
    PROVE  finalSeen' => queue' = <<>>
<1>0. /\ queue \in Seq(Segment \cup {Final}) /\ finalSeen \in BOOLEAN
      /\ (finalSeen => finalized) /\ <<>> \in Seq(Segment \cup {Final})
  BY DEF SpeakInv, TypeOK, QueueInv
<1>1. CASE SameJobs /\ UNCHANGED <<queue, cut, voiced, finalSeen>>
  BY <1>1
<1>2. ASSUME NEW c \in (cut + 1)..MaxDeltas, Cuts(c) PROVE ~finalSeen'
  BY <1>0, <1>2 DEF Cuts
<1>3. CASE ReadFinalize
  BY <1>0, <1>3 DEF ReadFinalize
<1>4. CASE Drops
  BY <1>4 DEF Drops
<1>5. CASE ClearEnds
  BY <1>5 DEF ClearEnds, TasksInv
<1>6. CASE Teardown
  BY <1>6 DEF Teardown
<1>7. ASSUME NEW js, NEW n \in Nat, TopsUp(js, n), finalSeen', finalSeen PROVE queue' = <<>>
  <2>1. /\ queue' \in Seq(Segment \cup {Final})
        /\ \A k \in 1..Len(queue') : k + n \in 1..Len(queue)
    BY <1>7 DEF TopsUp
  <2>2. 1..Len(queue) = {}
    BY <1>7
  <2>3. Len(queue') = 0
    BY <2>1, <2>2
  <2> QED
    BY <2>1, <2>3
<1>8. ASSUME NEW js, NEW n \in Nat, TopsUp(js, n), finalSeen' PROVE queue' = <<>>
  BY <1>7, <1>8 DEF TopsUp
<1> QED
  BY <1>1, <1>2, <1>3, <1>4, <1>5, <1>6, <1>8, TextMoves DEF MovesOn

\* Text is only added.
LEMMA DeltasGrow == SpeakInv /\ [Next]_vars => deltas \in Nat /\ deltas' \in Nat /\ deltas <= deltas'
<1> SUFFICES ASSUME SpeakInv, [Next]_vars PROVE deltas \in Nat /\ deltas' \in {deltas, deltas + 1}
  OBVIOUS
<1>1. deltas \in Nat
  BY SpeakAssumption DEF SpeakInv, TypeOK
<1>2. CASE ReadText
  BY <1>1, <1>2 DEF ReadText
<1>3. CASE ~ReadText
  BY <1>1, <1>3 DEF Next, vars, Reader, Clear, Supervisor, Pipeline, Decide, Open, OpenFails,
     ReadFinalize, ReadDisconnect, ReadClear, ClearTakesJobs, ClearDrops, ClearSays, ClearEnds,
     ClientLeaves, Restart, SupervisorEnds, Turn, SendHeader, JobEnds, JobFails, Produce, SendAudio,
     TakeStale, WatchdogTrips, DecideBySupervisor, DecideByOther, Cancelled, Teardown, Killed, textPart
<1> QED
  BY <1>1, <1>2, <1>3

\* Who may leave, open and return.
Returns == /\ Piping
           /\ jobs # <<>> \/ finalSeen \/ queue # <<>>
           /\ jobs' = <<>> /\ finalSeen' /\ UNCHANGED <<reader, client, run>>

LEMMA TasksAround ==
    ASSUME SpeakInv, [Next]_vars
    PROVE  /\ client' = "here" => client = "here"
           /\ Opened' => Opened
           /\ reader \in {"gathering", "clearing"} =>
                 reader' \in {"gathering", "clearing"} \/ ClearSays
           /\ inner' = "returned" => inner = "returned" \/ Returns
<1> USE DEF textPart, workPart, pipePart, pairPart, readPart, runPart, Opened
<1>1. CASE Open \/ OpenFails \/ ClientLeaves \/ Restart \/ SupervisorEnds
  BY <1>1 DEF Open, OpenFails, ClientLeaves, Restart, SupervisorEnds, Ends, JobFaults
<1>2. CASE Reader
  BY <1>2 DEF Reader, Clear, ReadText, ReadFinalize, ReadDisconnect, ReadClear, ClearTakesJobs,
     ClearDrops, ClearSays, ClearEnds, TakeJobs, DropPending
<1>3. CASE Turn
  BY <1>3 DEF Turn, Advance, Returns
<1>4. CASE JobEnds
  BY <1>4 DEF JobEnds, Advance, Returns
<1>5. CASE JobFails \/ SendHeader \/ SendAudio \/ Produce \/ TakeStale
  BY <1>5 DEF JobFails, JobFaults, SendHeader, SendAudio, Produce, TakeStale
<1>6. CASE Decide \/ Cancelled \/ Teardown \/ Killed \/ \E limit \in Trips : WatchdogTrips(limit)
  BY <1>6 DEF Decide, DecideBySupervisor, DecideByOther, Verdict, Silently, Cancelled, Teardown,
     Killed, WatchdogTrips
<1>7. CASE UNCHANGED vars
  BY <1>7 DEF vars
<1> QED
  BY <1>1, <1>2, <1>3, <1>4, <1>5, <1>6, <1>7 DEF Next, Supervisor, Pipeline

\* What was voiced stays voiced.
LEMMA VoicedGrows ==
    ASSUME SpeakInv, [Next]_vars
    PROVE  voiced \subseteq voiced'
<1> USE DEF textPart, workPart, pipePart, pairPart, readPart, runPart
<1>1. CASE JobEnds
  BY <1>1 DEF JobEnds
<1>2. CASE ~JobEnds
  BY <1>2 DEF Next, vars, Reader, Clear, Supervisor, Pipeline, Decide, Open, OpenFails, ReadText,
     ReadFinalize, ReadDisconnect, ReadClear, ClearTakesJobs, ClearDrops, ClearSays, ClearEnds,
     ClientLeaves, Restart, SupervisorEnds, Turn, SendHeader, JobFails, Produce, SendAudio,
     TakeStale, WatchdogTrips, DecideBySupervisor, DecideByOther, Cancelled, Teardown, Killed
<1> QED
  BY <1>1, <1>2

\* The frames.
LEMMA FramesStay ==
    ASSUME SpeakInv, TasksInv, LockInv, [Next]_vars
    PROVE  /\ \A d : Told(d) => Told(d)'
           /\ Frames("done")' # {} =>
                 Frames("done") # {} \/ (client = "here" /\ inner = "returned")
<1>0. TypeOK
  BY DEF SpeakInv
<1>1. CASE UNCHANGED out
  BY <1>1 DEF Frames, Told
<1>2. ASSUME client = "here", NEW frame \in Frame, out' = Append(out, frame), SaysMore(frame)
      PROVE  /\ \A d : Told(d) => Told(d)'
             /\ Frames("done")' # {} =>
                   Frames("done") # {} \/ (client = "here" /\ inner = "returned")
  <2>1. /\ \A i \in 1..Len(out) : out'[i] = out[i]
        /\ \A type : Frames(type)' = Frames(type)
                         \cup (IF frame.type = type THEN {Len(out) + 1} ELSE {})
    BY <1>0, <1>2, FrameAdded
  <2>2. \A c \in Frames("cleared") : c \in Frames("cleared")' /\ out'[c] = out[c]
    BY <2>1 DEF Frames
  <2>3. \A d : Told(d) => Told(d)'
    BY <2>2 DEF Told
  <2>4. CASE frame.type = "done"
    BY <1>2, <2>3, <2>4 DEF SaysMore
  <2>5. CASE frame.type # "done"
    <3>1. Frames("done")' = Frames("done")
      BY <2>1, <2>5
    <3> QED
      BY <2>3, <3>1
  <2> QED
    BY <2>4, <2>5
<1> QED
  BY <1>1, <1>2, StepSpeaks DEF Quiet, Speaks

\* `cleared` tells all text there is.
LEMMA ClearTells ==
    ASSUME SpeakInv, TasksInv, ClearSays, client' = "here"
    PROVE  Told(deltas)' /\ deltas' = deltas /\ cut' = deltas
<1>1. /\ out' = Append(out, [type |-> "cleared", seq |-> sent, deltas |-> deltas])
      /\ UNCHANGED <<deltas, cut>> /\ reader = "clearing"
  BY DEF ClearSays, Send, textPart
<1>2. TypeOK /\ sent \in Nat /\ deltas \in Nat
  BY SpeakAssumption DEF SpeakInv, TypeOK
<1> DEFINE frame == [type |-> "cleared", seq |-> sent, deltas |-> deltas]
<1>3. frame \in Frame /\ frame.type = "cleared" /\ frame.deltas = deltas
  BY <1>2 DEF Frame
<1>4. out' = Append(out, frame)
  BY <1>1
<1> HIDE DEF frame
<1>5. PICK n \in Nat : n = Len(out) + 1
  BY <1>2, <1>3, <1>4, FrameAdded
<1>6. n \in Frames("cleared")' /\ out'[n] = frame
  BY <1>2, <1>3, <1>4, <1>5, FrameAdded
<1>7. Told(deltas)'
  BY <1>1, <1>3, <1>6 DEF Told
<1> QED
  BY <1>1, <1>7 DEF TasksInv

\* The text of a session that is over.
LEMMA VoicedStep ==
    ASSUME SpeakInv, SpeakInv', TasksInv, LockInv, VoicedInv, [Next]_vars
    PROVE  VoicedInv'
<1>0. deltas \in Nat /\ deltas' \in Nat /\ cut \in 0..deltas /\ cut' \in 0..deltas'
  BY SpeakAssumption DEF SpeakInv, TypeOK
<1>1. finalized' => cut' = deltas'
  <2>1. CASE ReadFinalize
    BY <2>1 DEF ReadFinalize
  <2> QED
    BY <2>1, FinalizedText DEF VoicedInv
<1>2. finalSeen' => queue' = <<>>
  BY FinalIsLast DEF VoicedInv
<1>3. CoverInv'
  <2> SUFFICES ASSUME client' = "here", Opened', reader' \notin {"gathering", "clearing"}
               PROVE  \E upto \in 0..deltas' :
                         (upto = 0 \/ Told(upto)') /\ \A t \in (upto + 1)..cut' : InWork(t)'
    BY DEF CoverInv
  <2>1. client = "here" /\ Opened
    BY TasksAround
  <2>2. CASE reader \in {"gathering", "clearing"}
    <3>1. Told(deltas)' /\ deltas' = deltas /\ cut' = deltas
      BY <2>2, TasksAround, ClearTells
    <3>2. (deltas + 1)..cut' = {} /\ deltas \in 0..deltas'
      BY <1>0, <3>1
    <3> QED
      BY <3>1, <3>2
  <2>3. CASE reader \notin {"gathering", "clearing"}
    <3>1. PICK upto \in 0..deltas :
             (upto = 0 \/ Told(upto)) /\ \A t \in (upto + 1)..cut : InWork(t)
      BY <2>1, <2>3 DEF VoicedInv, CoverInv
    <3>2. deltas <= deltas'
      BY DeltasGrow
    <3>3. ASSUME NEW t \in (upto + 1)..cut' PROVE InWork(t)'
      <4>1. t \in 1..cut' /\ (t <= cut => t \in (upto + 1)..cut)
        BY <1>0, <3>1
      <4> QED
        BY <3>1, <4>1, WorkIsKept
    <3>4. upto \in 0..deltas' /\ (upto = 0 \/ Told(upto)')
      BY <1>0, <3>1, <3>2, FramesStay
    <3> QED
      BY <3>3, <3>4
  <2> QED
    BY <2>2, <2>3
<1>4. finalized /\ AllVoiced => finalized' /\ AllVoiced'
  <2> SUFFICES ASSUME finalized, AllVoiced PROVE finalized' /\ AllVoiced'
    OBVIOUS
  <2>1. finalized' /\ deltas' = deltas
    BY FinalizedText DEF ReadFinalize
  <2>2. PICK upto \in 0..deltas : (upto + 1)..deltas \subseteq voiced /\ (upto = 0 \/ Told(upto))
    BY DEF AllVoiced
  <2>3. (upto + 1)..deltas \subseteq voiced' /\ (upto = 0 \/ Told(upto)')
    BY <2>2, FramesStay, VoicedGrows
  <2> QED
    BY <2>1, <2>3 DEF AllVoiced
<1>5. ASSUME client' = "here", inner' = "returned" PROVE finalized' /\ AllVoiced'
  <2>1. client = "here"
    BY <1>5, TasksAround
  <2>2. CASE inner = "returned"
    BY <1>4, <2>1, <2>2 DEF VoicedInv
  <2>3. CASE Returns
    <3>1. /\ inner = "running" /\ reader' = reader /\ jobs' = <<>> /\ finalSeen'
          /\ run' = run /\ run \in {"running", "decided"}
          /\ jobs # <<>> \/ finalSeen \/ queue # <<>>
      BY <2>3 DEF Returns, Piping, Live
    <3>2. reader' \notin {"gathering", "clearing"} /\ Opened'
      BY <3>1, WorkIsNoClear DEF Clearing, Opened
    <3>3. finalized' /\ queue' = <<>> /\ cut' = deltas'
      BY <1>1, <1>2, <3>1 DEF SpeakInv, QueueInv
    <3>4. PICK upto \in 0..deltas' :
             (upto = 0 \/ Told(upto)') /\ \A t \in (upto + 1)..cut' : InWork(t)'
      BY <1>3, <1>5, <3>2 DEF CoverInv
    <3>5. \A t : InWork(t)' => t \in voiced'
      BY <3>1, <3>3 DEF InWork
    <3>6. (upto + 1)..deltas' \subseteq voiced'
      BY <3>3, <3>4, <3>5
    <3> QED
      BY <3>3, <3>4, <3>6 DEF AllVoiced
  <2> QED
    BY <1>5, <2>2, <2>3, TasksAround
<1>6. Frames("done")' # {} => finalized' /\ AllVoiced'
  BY <1>4, FramesStay DEF VoicedInv
<1> QED
  BY <1>1, <1>2, <1>3, <1>5, <1>6 DEF VoicedInv

-----------------------------------------------------------------------------
(* What holds up to the second barge-in.                                   *)

\* A session that opens.
LEMMA InitBargeIn == Init => BargeInInv
<1> SUFFICES ASSUME Init PROVE BargeInInv
  OBVIOUS
<1>1. \A type : Frames(type) = {}
  BY DEF Init, Frames
<1>2. pair = NoPair /\ inner = "running" /\ reader = "on" /\ run = "opening" /\ out = <<>>
      /\ deltas = 0 /\ cut = 0
  BY DEF Init
<1>3. TasksInv
  BY DEF Init, TasksInv, Clearing
<1>4. LockInv
  BY <1>2 DEF LockInv, OwnPair, Live
<1>5. PairsInv
  BY <1>1, <1>2 DEF PairsInv
<1>6. BarrierInv
  BY <1>1 DEF BarrierInv, ClearedIsABarrier
<1>7. VoicedInv
  <2>1. CoverInv
    <3>1. (0 + 1)..cut = {} /\ 0 \in 0..deltas
      BY <1>2
    <3> QED
      BY <3>1 DEF CoverInv
  <2> QED
    BY <1>1, <1>2, <2>1 DEF Init, VoicedInv
<1> QED
  BY <1>3, <1>4, <1>5, <1>6, <1>7 DEF BargeInInv

\* The invariant of sessions with at most two barge-ins, as one that all keep.
FewBargeIns == clears <= 2 => BargeInInv

\* The induction: a step from more than two clears leads to more than two.
LEMMA BargeInInvariant == Spec => [](SpeakInv /\ FewBargeIns)
<1>1. Init => FewBargeIns
  BY InitBargeIn DEF FewBargeIns
<1>2. SpeakInv /\ SpeakInv' /\ FewBargeIns /\ [Next]_vars => FewBargeIns'
  <2> SUFFICES ASSUME SpeakInv, SpeakInv', FewBargeIns, [Next]_vars, clears' <= 2
               PROVE  BargeInInv'
    BY DEF FewBargeIns
  <2>1. clears <= 2
    BY ClearsGrow DEF SpeakInv
  <2>2. TasksInv /\ LockInv /\ PairsInv /\ BarrierInv /\ VoicedInv
    BY <2>1 DEF FewBargeIns, BargeInInv
  <2>3. TasksInv' /\ LockInv'
    BY <2>2, TasksStep, LockStep
  <2>4. PairsInv' /\ BarrierInv'
    BY <2>2, PairsStep, BarrierStep
  <2>5. VoicedInv'
    BY <2>2, VoicedStep
  <2> QED
    BY <2>3, <2>4, <2>5 DEF BargeInInv
<1> QED
  BY <1>1, <1>2, SpeakInvariant, PTL DEF Spec

\* Two barge-ins, wherever they fall among the pipeline's awaits, never split a
\* chunk's header from its audio: the shielded pair keeps the lock that `cleared`
\* and the next pipeline wait for.
THEOREM BargeInKeepsPairs == Spec => [](clears <= 2 => PairsSurviveClear)
<1>1. FewBargeIns => (clears <= 2 => PairsSurviveClear)
  BY DEF FewBargeIns, BargeInInv, PairsInv, PairsSurviveClear
<1> QED
  BY <1>1, BargeInInvariant, PTL

\* Nor does audio of text that they discarded come after `cleared`, or under a
\* number that `cleared` declared stale.
THEOREM ClearedBars == Spec => [](clears <= 2 => ClearedIsABarrier)
<1>1. FewBargeIns => (clears <= 2 => ClearedIsABarrier)
  BY DEF FewBargeIns, BargeInInv, BarrierInv
<1> QED
  BY <1>1, BargeInInvariant, PTL

\* A client that is told `done` has heard to the end all text that none of its
\* barge-ins took back: neither finalize, nor a cut of the watchdog, nor a Final
\* that a clear drops and puts back loses a word.
THEOREM DoneIsComplete == Spec => [](clears <= 2 => DoneMeansAllVoiced)
<1>1. FewBargeIns => (clears <= 2 => DoneMeansAllVoiced)
  BY DEF FewBargeIns, BargeInInv, VoicedInv, AllVoiced, Told, DoneMeansAllVoiced
<1> QED
  BY <1>1, BargeInInvariant, PTL
=============================================================================
