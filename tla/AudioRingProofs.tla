-------------------------- MODULE AudioRingProofs --------------------------
(***************************************************************************)
(* What TLAPS proves about AudioRing, for every window, every client and   *)
(* every set of readers.                                                   *)
(***************************************************************************)
EXTENDS AudioRing, SequenceTheorems, WellFoundedInduction, TLAPS

-----------------------------------------------------------------------------
(* The trim loop.                                                          *)

\* A nonempty set of naturals has a least element.
LEMMA LeastElement ==
    ASSUME NEW K \in SUBSET Nat, K # {}
    PROVE  \E i \in K : \A j \in K : i <= j
<1>1. PICK i \in K : \A j \in K : ~ (<<j, i>> \in OpToRel(<, Nat))
  BY WFMin, NatLessThanWellFounded, Zenon
<1>2. \A j \in K : ~ (j < i)
  BY <1>1 DEF OpToRel
<1> QED
  BY <1>2, SMT

\* Chunks whose starts never decrease.
Ordered(cs) == \A i, j \in 1..Len(cs) : i <= j => cs[i].start <= cs[j].start

\* Trimming an ordered deque removes exactly its expired chunks, which are a
\* prefix of it, and leaves the rest untouched.
LEMMA TrimRemovesExpiredPrefix ==
    ASSUME NEW cs \in Seq(Chunk), NEW now \in Nat, Ordered(cs)
    PROVE  /\ Trim(cs, now) \in Seq(Chunk)
           /\ \E k \in 0..Len(cs) :
                 /\ Len(Trim(cs, now)) = Len(cs) - k
                 /\ \A i \in 1..(Len(cs) - k) : Trim(cs, now)[i] = cs[k + i]
                 /\ \A i \in 1..Len(cs) : Expired(cs[i], now) <=> i <= k
<1> DEFINE kept == {i \in 1..Len(cs) : ~Expired(cs[i], now)}
<1>0. Len(cs) \in Nat /\ \A i \in 1..Len(cs) : cs[i] \in Chunk
  OBVIOUS
<1>1. CASE kept = {}
  <2>1. Trim(cs, now) = <<>>
    BY <1>1 DEF Trim
  <2>2. \A i \in 1..Len(cs) : Expired(cs[i], now)
    BY <1>1
  <2> QED
    <3>1. Len(cs) \in 0..Len(cs)
      BY <1>0
    <3> QED
      BY <2>1, <2>2, <3>1, <1>0
<1>2. CASE kept # {}
  <2> DEFINE m == CHOOSE i \in kept : \A j \in kept : i <= j
  <2>1. m \in kept /\ \A j \in kept : m <= j
    <3>1. kept \in SUBSET Nat
      BY <1>0
    <3>2. \E i \in kept : \A j \in kept : i <= j
      BY <1>2, <3>1, LeastElement
    <3> HIDE DEF kept
    <3> QED
      BY <3>2
  <2>2. Trim(cs, now) = SubSeq(cs, m, Len(cs))
    BY <1>2 DEF Trim
  <2>3. m \in 1..Len(cs)
    BY <2>1
  <2>4. /\ SubSeq(cs, m, Len(cs)) \in Seq(Chunk)
        /\ Len(SubSeq(cs, m, Len(cs))) = Len(cs) - (m - 1)
        /\ \A i \in 1..(Len(cs) - (m - 1)) :
              SubSeq(cs, m, Len(cs))[i] = cs[(m - 1) + i]
    <3> HIDE DEF m
    <3>1. \A i \in m..Len(cs) : cs[i] \in Chunk
      BY <1>0, <2>3
    <3>2. /\ SubSeq(cs, m, Len(cs)) \in Seq(Chunk)
          /\ Len(SubSeq(cs, m, Len(cs))) = IF m <= Len(cs) THEN Len(cs) - m + 1 ELSE 0
          /\ \A i \in 1..(Len(cs) - m + 1) : SubSeq(cs, m, Len(cs))[i] = cs[m + i - 1]
      BY <3>1, <2>3, <1>0, SubSeqProperties
    <3> QED
      BY <3>2, <2>3, <1>0
  <2>5. \A i \in 1..Len(cs) : Expired(cs[i], now) <=> i <= m - 1
    <3> SUFFICES ASSUME NEW i \in 1..Len(cs)
                 PROVE  Expired(cs[i], now) <=> i <= m - 1
      OBVIOUS
    <3> HIDE DEF m
    <3>1. CASE i < m
      <4>1. i \notin kept
        BY <2>1, <2>3, <3>1, <1>0
      <4> QED
        BY <4>1, <3>1, <2>3
    <3>2. CASE i >= m
      <4>1. cs[m].start <= cs[i].start
        BY <3>2, <2>3 DEF Ordered
      <4>2. cs[m].start \in Nat /\ cs[i].start \in Nat
        BY <2>3, <1>0 DEF Chunk
      <4>3. ~(now - cs[m].start > MaxSeconds)
        BY <2>1 DEF Expired
      <4>4. ~(now - cs[i].start > MaxSeconds)
        BY <4>1, <4>2, <4>3, RingAssumption, SMTT(30)
      <4> QED
        BY <4>4, <3>2, <2>3 DEF Expired
    <3> QED
      BY <3>1, <3>2, <2>3
  <2>6. m - 1 \in 0..Len(cs)
    BY <2>3
  <2> HIDE DEF m
  <2> QED
    BY <2>2, <2>4, <2>5, <2>6
<1> QED
  BY <1>1, <1>2

-----------------------------------------------------------------------------
(* The inductive invariant.                                                *)

\* The history counts the chunks, and their starts follow the clock.
LogInv ==
    /\ nextIdx = Len(log)
    /\ \A i \in 1..Len(log) : log[i].idx = i - 1 /\ log[i].start <= clock
    /\ Ordered(log)

RingInv == TypeOK /\ LogInv /\ RetainsExactlyTheWindow

\* The position of a reader is an index the ring has handed out or the next.
PosInv == \A r \in Readers : pos[r] <= nextIdx

LEMMA InitRingInv == Init => RingInv
<1> SUFFICES ASSUME Init PROVE RingInv
  OBVIOUS
<1>1. Len(log) = 0 /\ Len(chunks) = 0 /\ log \in Seq(Chunk) /\ chunks \in Seq(Chunk)
  BY DEF Init
<1>2. TypeOK
  BY <1>1 DEF Init, TypeOK, ReaderStates
<1>3. LogInv
  BY <1>1 DEF Init, LogInv, Ordered
<1>4. RetainsExactlyTheWindow
  BY <1>1 DEF RetainsExactlyTheWindow
<1> QED
  BY <1>2, <1>3, <1>4 DEF RingInv

\* The chunk an append makes.
LEMMA DurationIsNat ==
    ASSUME NEW d \in Durations PROVE DurationOf(d) \in Nat
  BY RingAssumption DEF DurationOf

\* append() keeps the invariant: the trim removes what has just expired.
LEMMA AppendKeepsRingInv ==
    ASSUME RingInv, NEW d \in Durations, AppendChunk(d)
    PROVE  RingInv'
<1> DEFINE new == [idx |-> nextIdx, start |-> clock, duration |-> DurationOf(d)]
           cs == Append(chunks, new)
           n == Len(log)
           t == Len(log) - Len(chunks)
<1>1. /\ chunks \in Seq(Chunk) /\ log \in Seq(Chunk)
      /\ nextIdx \in Nat /\ clock \in Nat
      /\ n \in Nat /\ Len(chunks) \in Nat /\ nextIdx = n
  BY DEF RingInv, TypeOK, LogInv
<1>2. DurationOf(d) \in Nat
  BY DurationIsNat
<1>3. new \in Chunk
  BY <1>1, <1>2 DEF Chunk
<1>4. /\ nextIdx' = n + 1
      /\ clock' = clock + DurationOf(d) /\ clock' \in Nat /\ clock <= clock'
      /\ chunks' = Trim(cs, clock')
      /\ log' = Append(log, new)
  BY <1>1, <1>2 DEF AppendChunk
<1>5. /\ cs \in Seq(Chunk) /\ Len(cs) = Len(chunks) + 1
      /\ \A i \in 1..Len(chunks) : cs[i] = chunks[i]
      /\ cs[Len(chunks) + 1] = new
  BY <1>1, <1>3
<1>6. /\ log' \in Seq(Chunk) /\ Len(log') = n + 1
      /\ \A i \in 1..n : log'[i] = log[i]
      /\ log'[n + 1] = new
  BY <1>1, <1>3, <1>4
<1>7. /\ t \in Nat
      /\ \A i \in 1..Len(chunks) : chunks[i] = log[t + i]
      /\ \A i \in 1..n : Expired(log[i], clock) <=> i <= t
  <2> HIDE DEF cs, new
  <2>1. RetainsExactlyTheWindow
    BY DEF RingInv
  <2> QED
    BY <1>1, <2>1 DEF RetainsExactlyTheWindow
<1>8. \A i \in 1..Len(cs) : cs[i] = log'[t + i]
  <2> SUFFICES ASSUME NEW i \in 1..Len(cs) PROVE cs[i] = log'[t + i]
    OBVIOUS
  <2> HIDE DEF cs, new
  <2>1. CASE i \in 1..Len(chunks)
    <3>1. t + i \in 1..n
      BY <1>1, <1>7, <2>1
    <3> QED
      BY <1>5, <1>6, <1>7, <2>1, <3>1
  <2>2. CASE i = Len(chunks) + 1
    <3>1. t + i = n + 1
      BY <1>1, <2>2
    <3> QED
      BY <1>5, <1>6, <2>2, <3>1
  <2> QED
    BY <1>1, <1>5, <2>1, <2>2
<1>9. LogInv'
  <2> HIDE DEF new
  <2>1. \A i \in 1..n : log[i].idx = i - 1 /\ log[i].start <= clock /\ log[i].start \in Nat
    <3> HIDE DEF cs, n, t
    <3>1. \A i \in 1..n : log[i] \in Chunk
      BY <1>1 DEF n
    <3>2. \A i \in 1..n : log[i].start \in Nat
      BY <3>1 DEF Chunk
    <3> QED
      BY <3>2 DEF RingInv, LogInv, n
  <2>2. new.idx = n /\ new.start = clock
    BY <1>1 DEF new
  <2>3. \A i \in 1..(n + 1) : log'[i].idx = i - 1 /\ log'[i].start <= clock' /\ log'[i].start \in Nat
    <3> SUFFICES ASSUME NEW i \in 1..(n + 1)
                 PROVE  log'[i].idx = i - 1 /\ log'[i].start <= clock' /\ log'[i].start \in Nat
      OBVIOUS
    <3>1. CASE i \in 1..n
      BY <1>1, <1>4, <1>6, <2>1, <3>1, SMTT(30), ZenonT(30)
    <3>2. CASE i = n + 1
      BY <1>1, <1>4, <1>6, <2>2, <3>2
    <3> QED
      BY <1>1, <3>1, <3>2
  <2>4. Ordered(log')
    <3> SUFFICES ASSUME NEW i \in 1..(n + 1), NEW j \in 1..(n + 1), i <= j
                 PROVE  log'[i].start <= log'[j].start
      BY <1>6 DEF Ordered
    <3>1. CASE j \in 1..n
      <4>1. i \in 1..n
        BY <1>1, <3>1
      <4> QED
        BY <1>6, <3>1, <4>1 DEF RingInv, LogInv, Ordered
    <3>2. CASE j = n + 1 /\ i \in 1..n
      BY <1>6, <2>1, <2>2, <3>2
    <3>3. CASE j = n + 1 /\ i = n + 1
      BY <1>1, <2>3, <3>3
    <3> QED
      BY <1>1, <3>1, <3>2, <3>3
  <2> QED
    BY <1>4, <1>6, <2>3, <2>4 DEF LogInv, Ordered
<1>10. Ordered(cs)
  <2> SUFFICES ASSUME NEW i \in 1..Len(cs), NEW j \in 1..Len(cs), i <= j
               PROVE  cs[i].start <= cs[j].start
    BY DEF Ordered
  <2> HIDE DEF cs
  <2>1. /\ t + i \in 1..(n + 1) /\ t + j \in 1..(n + 1) /\ t + i <= t + j
    BY <1>1, <1>5, <1>7
  <2> HIDE DEF t, n
  <2> QED
    BY <1>6, <1>8, <1>9, <2>1 DEF LogInv, Ordered
<1>11. PICK k \in 0..Len(cs) :
          /\ Len(Trim(cs, clock')) = Len(cs) - k
          /\ \A i \in 1..(Len(cs) - k) : Trim(cs, clock')[i] = cs[k + i]
          /\ \A i \in 1..Len(cs) : Expired(cs[i], clock') <=> i <= k
  <2> HIDE DEF cs
  <2> QED
    BY <1>4, <1>5, <1>10, TrimRemovesExpiredPrefix
<1>12. chunks' \in Seq(Chunk)
  <2> HIDE DEF cs
  <2> QED
    BY <1>4, <1>5, <1>10, TrimRemovesExpiredPrefix
<1>13. RetainsExactlyTheWindow'
  <2> HIDE DEF cs, new
  <2>1. Len(log') - Len(chunks') = t + k
    BY <1>1, <1>4, <1>5, <1>6, <1>7, <1>11
  <2>2. t + k >= 0
    BY <1>5, <1>7, <1>11, <1>1
  <2>3. \A i \in 1..Len(chunks') : chunks'[i] = log'[(t + k) + i]
    <3> SUFFICES ASSUME NEW i \in 1..Len(chunks')
                 PROVE  chunks'[i] = log'[(t + k) + i]
      OBVIOUS
    <3>1. i \in 1..(Len(cs) - k) /\ k + i \in 1..Len(cs)
      BY <1>1, <1>4, <1>5, <1>11
    <3>2. chunks'[i] = log'[t + (k + i)]
      BY <1>4, <1>8, <1>11, <3>1
    <3> QED
      BY <1>1, <1>5, <1>7, <1>11, <3>1, <3>2
  <2>4. \A i \in 1..Len(log') : Expired(log'[i], clock') <=> i <= t + k
    <3> SUFFICES ASSUME NEW i \in 1..(n + 1)
                 PROVE  Expired(log'[i], clock') <=> i <= t + k
      BY <1>6
    <3>1. CASE i <= t
      <4>1. i \in 1..n /\ i <= t + k
        BY <1>1, <1>5, <1>7, <1>11, <3>1
      <4>2. log[i].start \in Nat
        <5>1. log[i] \in Chunk
          BY <1>1, <4>1
        <5> QED
          BY <5>1 DEF Chunk
      <4>3. clock - log[i].start > MaxSeconds
        BY <1>7, <3>1, <4>1 DEF Expired
      <4>4. clock' - log[i].start > MaxSeconds
        BY <1>1, <1>4, <4>2, <4>3, RingAssumption, SMTT(30), ZenonT(30)
      <4> QED
        BY <1>6, <4>1, <4>4 DEF Expired
    <3>2. CASE i > t
      <4>1. i - t \in 1..Len(cs) /\ t + (i - t) = i
        BY <1>1, <1>5, <1>7, <3>2
      <4>2. Expired(cs[i - t], clock') <=> i - t <= k
        BY <1>11, <4>1
      <4>3. cs[i - t] = log'[i]
        BY <1>8, <4>1
      <4> QED
        BY <1>1, <1>5, <1>7, <1>11, <4>2, <4>3
    <3> QED
      BY <1>1, <1>7, <3>1, <3>2
  <2> QED
    BY <2>1, <2>2, <2>3, <2>4 DEF RetainsExactlyTheWindow
<1>14. TypeOK'
  <2>1. pc' \in [Readers -> ReaderStates] /\ pos' \in [Readers -> Nat] /\ closed' \in BOOLEAN
    BY DEF RingInv, TypeOK, AppendChunk, NotifyAll, ReaderStates
  <2> HIDE DEF cs, new
  <2> QED
    BY <1>1, <1>4, <1>6, <1>12, <2>1 DEF TypeOK
<1> QED
  BY <1>9, <1>13, <1>14 DEF RingInv

\* _get(i) by index arithmetic is the first retained chunk at or after i: the
\* deque has no holes, so the subtraction of the first index lands on it.
LEMMA GetIsExact ==
    ASSUME RingInv, NEW i \in Nat, Available(i)
    PROVE  /\ Get(i) \in Chunk
           /\ Get(i).idx \in Nat /\ Get(i).idx >= i /\ Get(i).idx + 1 <= nextIdx
           /\ \A j \in i..(Get(i).idx - 1) : Expired(log[j + 1], clock)
           /\ ~Expired(log[Get(i).idx + 1], clock)
<1> DEFINE t == Len(log) - Len(chunks)
           from == IF i < t THEN t ELSE i
<1>1. /\ chunks \in Seq(Chunk) /\ log \in Seq(Chunk)
      /\ nextIdx = Len(log) /\ Len(log) \in Nat /\ Len(chunks) \in Nat
      /\ chunks # <<>> /\ i < nextIdx
  BY DEF RingInv, TypeOK, LogInv, Available
<1>2. /\ t \in Nat
      /\ \A j \in 1..Len(chunks) : chunks[j] = log[t + j]
      /\ \A j \in 1..Len(log) : Expired(log[j], clock) <=> j <= t
  <2>1. RetainsExactlyTheWindow
    BY DEF RingInv
  <2> QED
    BY <1>1, <2>1 DEF RetainsExactlyTheWindow
<1>3. \A j \in 1..Len(log) : log[j].idx = j - 1
  BY DEF RingInv, LogInv
<1>4. Len(chunks) >= 1 /\ t + 1 \in 1..Len(log)
  BY <1>1, <1>2
<1>5. Head(chunks).idx = t
  <2>1. Head(chunks) = chunks[1]
    BY <1>1
  <2>2. chunks[1] = log[t + 1]
    BY <1>1, <1>2, <1>4
  <2> QED
    BY <1>2, <1>3, <1>4, <2>1, <2>2
<1>6. Get(i) = chunks[from - t + 1]
  BY <1>5 DEF Get
<1>7. from - t + 1 \in 1..Len(chunks) /\ t + (from - t + 1) = from + 1 /\ from \in Nat
  BY <1>1, <1>2, <1>4
<1>8. Get(i) = log[from + 1] /\ from + 1 \in 1..Len(log)
  <2> HIDE DEF from, t
  <2> QED
    BY <1>1, <1>2, <1>6, <1>7 DEF t
<1>9. Get(i).idx = from
  BY <1>3, <1>7, <1>8
<1>10. Get(i) \in Chunk
  BY <1>1, <1>8
<1>11. \A j \in i..(from - 1) : Expired(log[j + 1], clock)
  <2> SUFFICES ASSUME NEW j \in i..(from - 1) PROVE Expired(log[j + 1], clock)
    OBVIOUS
  <2>1. j + 1 \in 1..Len(log) /\ j + 1 <= t
    BY <1>1, <1>2, <1>7, <1>8
  <2> QED
    BY <1>2, <2>1
<1>12. ~Expired(log[from + 1], clock)
  <2>1. ~(from + 1 <= t)
    BY <1>2, <1>7
  <2> QED
    BY <1>2, <1>8, <2>1
<1> HIDE DEF from
<1> QED
  BY <1>1, <1>7, <1>8, <1>9, <1>10, <1>11, <1>12 DEF from

\* Every step of the ring keeps the invariant.
LEMMA NextKeepsRingInv == RingInv /\ [Next]_vars => RingInv'
<1> SUFFICES ASSUME RingInv, [Next]_vars PROVE RingInv'
  OBVIOUS
<1>1. CASE \E d \in Durations : AppendChunk(d)
  BY <1>1, AppendKeepsRingInv
\* A step that leaves the ring alone, and the readers well typed.
<1>2. ASSUME UNCHANGED <<chunks, nextIdx, clock, log>>, closed' \in BOOLEAN,
             pc' \in [Readers -> ReaderStates], pos' \in [Readers -> Nat]
      PROVE  RingInv'
  <2>1. TypeOK'
    BY <1>2 DEF RingInv, TypeOK
  <2>2. LogInv'
    BY <1>2 DEF RingInv, LogInv, Ordered
  <2>3. RetainsExactlyTheWindow'
    BY <1>2 DEF RingInv, RetainsExactlyTheWindow, Expired
  <2> QED
    BY <2>1, <2>2, <2>3 DEF RingInv
<1>3. CASE Close
  BY <1>2, <1>3 DEF Close, NotifyAll, RingInv, TypeOK, ReaderStates
<1>4. ASSUME NEW r \in Readers, Place(r) PROVE RingInv'
  <2>1. ReplayIdx \in Nat
    <3>1. chunks # <<>> => Head(chunks) \in Chunk
      BY DEF RingInv, TypeOK
    <3> QED
      BY <3>1 DEF RingInv, TypeOK, ReplayIdx, Chunk
  <2> QED
    BY <1>2, <1>4, <2>1 DEF Place, PlaceAt, ringVars, RingInv, TypeOK, ReaderStates
<1>5. ASSUME NEW r \in Readers, Iterate(r) PROVE RingInv'
  BY <1>2, <1>5 DEF Iterate, ringVars, RingInv, TypeOK, ReaderStates
<1>6. ASSUME NEW r \in Readers, Yield(r) PROVE RingInv'
  <2>1. Get(pos[r]).idx + 1 \in Nat
    BY <1>6, GetIsExact DEF Yield, RingInv, TypeOK, Chunk
  <2> QED
    BY <1>2, <1>6, <2>1 DEF Yield, ringVars, RingInv, TypeOK, ReaderStates
<1>7. ASSUME NEW r \in Readers, Wait(r) PROVE RingInv'
  BY <1>2, <1>7 DEF Wait, ringVars, RingInv, TypeOK, ReaderStates
<1>8. ASSUME NEW r \in Readers, Drain(r) PROVE RingInv'
  BY <1>2, <1>8 DEF Drain, ringVars, RingInv, TypeOK, ReaderStates
<1>9. ASSUME NEW r \in Readers, Cancel(r) PROVE RingInv'
  BY <1>2, <1>9 DEF Cancel, ringVars, RingInv, TypeOK, ReaderStates
<1>10. CASE UNCHANGED vars
  BY <1>2, <1>10 DEF vars, RingInv, TypeOK
<1> QED
  BY <1>1, <1>3, <1>4, <1>5, <1>6, <1>7, <1>8, <1>9, <1>10 DEF Next, ReaderStep

\* The deque, the clock and the readers always have their types.
THEOREM TypeCorrect == Spec => []TypeOK
<1>1. RingInv => TypeOK
  BY DEF RingInv
<1> QED
  BY <1>1, InitRingInv, NextKeepsRingInv, PTL DEF Spec

\* For every window and every client: what the ring retains is exactly the
\* audio that has not expired (trimming is neither early nor late, no holes).
THEOREM WindowIsExact == Spec => []RetainsExactlyTheWindow
<1>1. RingInv => RetainsExactlyTheWindow
  BY DEF RingInv
<1> QED
  BY <1>1, InitRingInv, NextKeepsRingInv, PTL DEF Spec

-----------------------------------------------------------------------------
(* The readers.                                                            *)

\* A reader never parks over a chunk it could have, or over a drained ring.
THEOREM NoWakeupIsLost == Spec => []NoLostWakeup
<1>1. Init => NoLostWakeup
  BY DEF Init, NoLostWakeup
<1>2. RingInv /\ NoLostWakeup /\ [Next]_vars => NoLostWakeup'
  <2> SUFFICES ASSUME RingInv, NoLostWakeup, [Next]_vars,
                      NEW q \in Readers, pc'[q] = "waiting"
               PROVE  (~Available(pos[q]) /\ ~Finished(pos[q]))'
    BY DEF NoLostWakeup
  <2>0. pc \in [Readers -> ReaderStates] /\ pos \in [Readers -> Nat]
    BY DEF RingInv, TypeOK
  <2>1. CASE \E d \in Durations : AppendChunk(d)
    BY <2>0, <2>1 DEF AppendChunk, NotifyAll
  <2>2. CASE Close
    BY <2>0, <2>2 DEF Close, NotifyAll
  <2>3. ASSUME NEW r \in Readers, Wait(r)
        PROVE  (~Available(pos[q]) /\ ~Finished(pos[q]))'
    <3>1. CASE q = r
      BY <2>3, <3>1 DEF Wait, ringVars, Available, Finished
    <3>2. CASE q # r
      BY <2>0, <2>3, <3>2 DEF Wait, ringVars, Available, Finished, NoLostWakeup
    <3> QED
      BY <3>1, <3>2
  <2>4. ASSUME NEW r \in Readers, Place(r) \/ Iterate(r) \/ Yield(r) \/ Drain(r) \/ Cancel(r)
        PROVE  (~Available(pos[q]) /\ ~Finished(pos[q]))'
    <3>1. q # r
      BY <2>0, <2>4 DEF Place, PlaceAt, Iterate, Yield, Drain, Cancel
    <3> QED
      BY <2>0, <2>4, <3>1 DEF Place, PlaceAt, Iterate, Yield, Drain, Cancel, ringVars,
                              Available, Finished, NoLostWakeup
  <2>5. CASE UNCHANGED vars
    BY <2>5 DEF vars, Available, Finished, NoLostWakeup
  <2> QED
    BY <2>1, <2>2, <2>3, <2>4, <2>5 DEF Next, ReaderStep
<1> QED
  BY <1>1, <1>2, InitRingInv, NextKeepsRingInv, PTL DEF Spec

\* An iteration ends only past the last chunk that was ever accepted.
THEOREM NothingIsMissedAtTheEnd == Spec => []DrainedReaderMissesNothing
<1> DEFINE Inv == PosInv /\ DrainedReaderMissesNothing
<1>1. Init => Inv
  BY DEF Init, PosInv, DrainedReaderMissesNothing
<1>2. RingInv /\ Inv /\ [Next]_vars => Inv'
  <2> SUFFICES ASSUME RingInv, Inv, [Next]_vars, NEW q \in Readers
               PROVE  /\ pos'[q] <= nextIdx'
                      /\ pc'[q] = "drained" => closed' /\ pos'[q] = Len(log')
    BY DEF PosInv, DrainedReaderMissesNothing
  <2>0. /\ pc \in [Readers -> ReaderStates] /\ pos \in [Readers -> Nat]
        /\ nextIdx \in Nat /\ nextIdx = Len(log) /\ closed \in BOOLEAN
        /\ pos[q] <= nextIdx
        /\ pc[q] = "drained" => closed /\ pos[q] = nextIdx
    BY DEF RingInv, TypeOK, LogInv, PosInv, DrainedReaderMissesNothing
  <2>1. CASE \E d \in Durations : AppendChunk(d)
    <3>1. ~closed /\ nextIdx' = nextIdx + 1 /\ pos' = pos
      BY <2>1 DEF AppendChunk, Accepts
    <3>2. pc'[q] = "drained" => pc[q] = "drained"
      BY <2>0, <2>1 DEF AppendChunk, NotifyAll
    <3> QED
      BY <2>0, <3>1, <3>2
  <2>2. CASE Close
    BY <2>0, <2>2 DEF Close, NotifyAll
  <2>3. ASSUME NEW r \in Readers, Place(r)
        PROVE  /\ pos'[q] <= nextIdx'
               /\ pc'[q] = "drained" => closed' /\ pos'[q] = Len(log')
    <3>1. ReplayIdx <= nextIdx /\ ReplayIdx \in Nat
      <4>1. CASE chunks = <<>>
        BY <2>0, <4>1 DEF ReplayIdx
      <4>2. CASE chunks # <<>>
        <5>1. Len(chunks) \in 1..Len(log) /\ chunks[1] = log[Len(log) - Len(chunks) + 1]
          BY <4>2 DEF RingInv, TypeOK, RetainsExactlyTheWindow
        <5>2. Head(chunks).idx = Len(log) - Len(chunks)
          BY <4>2, <5>1 DEF RingInv, TypeOK, LogInv
        <5> QED
          BY <2>0, <4>2, <5>1, <5>2 DEF ReplayIdx
      <4> QED
        BY <4>1, <4>2
    <3>2. pos'[q] = pos[q] \/ pos'[q] \in {0, ReplayIdx}
      BY <2>0, <2>3 DEF Place, PlaceAt
    <3>3. pos'[q] <= nextIdx'
      BY <2>0, <2>3, <3>1, <3>2 DEF Place, PlaceAt, ringVars
    <3>4. pc'[q] = "drained" => q # r /\ pc[q] = "drained"
      BY <2>0, <2>3 DEF Place, PlaceAt
    <3> QED
      BY <2>0, <2>3, <3>3, <3>4 DEF Place, PlaceAt, ringVars
  <2>4. ASSUME NEW r \in Readers, Yield(r)
        PROVE  /\ pos'[q] <= nextIdx'
               /\ pc'[q] = "drained" => closed' /\ pos'[q] = Len(log')
    <3>1. Get(pos[r]).idx + 1 <= nextIdx
      BY <2>0, <2>4, GetIsExact DEF Yield
    <3>2. CASE q = r
      BY <2>0, <2>4, <3>1, <3>2 DEF Yield, ringVars
    <3>3. CASE q # r
      BY <2>0, <2>4, <3>3 DEF Yield, ringVars
    <3> QED
      BY <3>2, <3>3
  <2>5. ASSUME NEW r \in Readers, Iterate(r) \/ Wait(r) \/ Cancel(r)
        PROVE  /\ pos'[q] <= nextIdx'
               /\ pc'[q] = "drained" => closed' /\ pos'[q] = Len(log')
    <3>1. pc'[q] = "drained" => pc[q] = "drained"
      BY <2>0, <2>5 DEF Iterate, Wait, Cancel
    <3> QED
      BY <2>0, <2>5, <3>1 DEF Iterate, Wait, Cancel, ringVars
  <2>6. ASSUME NEW r \in Readers, Drain(r)
        PROVE  /\ pos'[q] <= nextIdx'
               /\ pc'[q] = "drained" => closed' /\ pos'[q] = Len(log')
    BY <2>0, <2>6 DEF Drain, Finished, ringVars
  <2>7. CASE UNCHANGED vars
    BY <2>0, <2>7 DEF vars
  <2> QED
    BY <2>1, <2>2, <2>3, <2>4, <2>5, <2>6, <2>7 DEF Next, ReaderStep
<1> QED
  BY <1>1, <1>2, InitRingInv, NextKeepsRingInv, PTL DEF Spec

\* A reader jumps forward only over expired chunks, and never goes back.
THEOREM ReadersSkipOnlyExpired == Spec => SkipsOnlyExpired
<1>1. RingInv /\ [Next]_vars =>
        [\A r \in Readers :
          (pc[r] = "reading" /\ pos'[r] # pos[r]) =>
              /\ pos'[r] > pos[r]
              /\ \A i \in pos[r]..(pos'[r] - 2) : Expired(log[i + 1], clock)
              /\ ~Expired(log[pos'[r]], clock)]_vars
  <2> SUFFICES ASSUME RingInv, Next, NEW q \in Readers,
                      pc[q] = "reading", pos'[q] # pos[q]
               PROVE  /\ pos'[q] > pos[q]
                      /\ \A i \in pos[q]..(pos'[q] - 2) : Expired(log[i + 1], clock)
                      /\ ~Expired(log[pos'[q]], clock)
    OBVIOUS
  <2>0. pos \in [Readers -> Nat] /\ pc \in [Readers -> ReaderStates]
    BY DEF RingInv, TypeOK
  <2>1. Yield(q)
    BY <2>0 DEF Next, ReaderStep, AppendChunk, Close, Place, PlaceAt, Iterate, Yield, Wait,
                Drain, Cancel
  <2>2. pos'[q] = Get(pos[q]).idx + 1 /\ Available(pos[q])
    BY <2>0, <2>1 DEF Yield
  <2>3. /\ Get(pos[q]).idx \in Nat /\ Get(pos[q]).idx >= pos[q]
        /\ \A i \in pos[q]..(Get(pos[q]).idx - 1) : Expired(log[i + 1], clock)
        /\ ~Expired(log[Get(pos[q]).idx + 1], clock)
    BY <2>0, <2>2, GetIsExact
  <2>4. \A i \in pos[q]..(pos'[q] - 2) : Expired(log[i + 1], clock)
    <3>1. pos'[q] - 2 = Get(pos[q]).idx - 1
      BY <2>2, <2>3
    <3> QED
      BY <2>3, <3>1
  <2> QED
    BY <2>0, <2>2, <2>3, <2>4
<1> QED
  BY <1>1, InitRingInv, NextKeepsRingInv, PTL DEF Spec, SkipsOnlyExpired

-----------------------------------------------------------------------------
(* When no chunk is longer than the window, no reader can be stranded.     *)

\* The newest chunk ends at the clock, and it fits into the window.
LastFits ==
    log # <<>> =>
        /\ clock = log[Len(log)].start + log[Len(log)].duration
        /\ log[Len(log)].duration <= MaxSeconds

\* If every chunk fits into the window, the deque holds at least the newest
\* chunk from the first append on, so a reader that is behind can always read.
THEOREM FittingChunksStrandNobody ==
    ASSUME ChunksFit PROVE Spec => []BehindMeansReadable
<1>1. Init => LastFits
  BY DEF Init, LastFits
<1>2. RingInv /\ LastFits /\ [Next]_vars => LastFits'
  <2> SUFFICES ASSUME RingInv, LastFits, [Next]_vars PROVE LastFits'
    OBVIOUS
  <2>1. ASSUME NEW d \in Durations, AppendChunk(d) PROVE LastFits'
    <3> DEFINE new == [idx |-> nextIdx, start |-> clock, duration |-> DurationOf(d)]
    <3>1. DurationOf(d) <= MaxSeconds
      BY ChunksFit, RingAssumption DEF ChunksFit, DurationOf
    <3>2. log \in Seq(Chunk)
      BY DEF RingInv, TypeOK
    <3>3. log' = Append(log, new) /\ clock' = clock + DurationOf(d)
      BY <2>1 DEF AppendChunk
    <3>4. Len(log') = Len(log) + 1 /\ log'[Len(log) + 1] = new
      BY <3>2, <3>3
    <3>5. new.start = clock /\ new.duration = DurationOf(d)
      OBVIOUS
    <3> HIDE DEF new
    <3> QED
      BY <3>1, <3>3, <3>4, <3>5 DEF LastFits
  <2>2. CASE UNCHANGED <<clock, log>>
    BY <2>2 DEF LastFits
  <2> QED
    BY <2>1, <2>2 DEF Next, ReaderStep, Close, Place, PlaceAt, Iterate, Yield, Wait, Drain,
                      Cancel, ringVars, vars
<1>3. RingInv /\ LastFits => BehindMeansReadable
  <2> SUFFICES ASSUME RingInv, LastFits, NEW r \in Readers, pos[r] < nextIdx
               PROVE  chunks # <<>>
    BY DEF BehindMeansReadable, Available
  <2> DEFINE n == Len(log)
  <2>1. /\ pos[r] \in Nat /\ nextIdx = n /\ n \in Nat
        /\ log \in Seq(Chunk) /\ chunks \in Seq(Chunk)
    BY DEF RingInv, TypeOK, LogInv
  <2>2. n >= 1 /\ log # <<>>
    BY <2>1
  <2>3. log[n] \in Chunk
    BY <2>1, <2>2
  <2>4. log[n].start \in Nat /\ log[n].duration \in Nat
    BY <2>3 DEF Chunk
  <2>5. ~(clock - log[n].start > MaxSeconds)
    BY <2>2, <2>4, RingAssumption DEF LastFits
  <2>6. ~(n <= n - Len(chunks))
    <3>1. Expired(log[n], clock) <=> n <= n - Len(chunks)
      BY <2>1, <2>2 DEF RingInv, RetainsExactlyTheWindow
    <3> QED
      BY <2>5, <3>1 DEF Expired
  <2> QED
    BY <2>1, <2>6
<1> QED
  BY <1>1, <1>2, <1>3, InitRingInv, NextKeepsRingInv, PTL DEF Spec

=============================================================================
