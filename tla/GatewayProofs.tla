----------------------------- MODULE GatewayProofs -----------------------------
(***************************************************************************)
(* What TLAPS proves about GatewayParts, for every number of clients,      *)
(* chunks, faults, polls and tokens, every size of a part, every answer of *)
(* a batch vendor and every rate a client may ask for.  A part's invariant *)
(* comes first, with a lemma for each of its conjuncts; admission, with two *)
(* theorems of its own, opens the module, and the five theorems about a    *)
(* gateway that is any of its parts close it.                              *)
(***************************************************************************)
EXTENDS GatewayParts, FiniteSetTheorems, SequenceTheorems, WellFoundedInduction, TLAPS

(* Admission, for any number of clients and scopes and every limit.         *)

\* A count is never below the number of sessions (a leak only makes it larger)
\* and never above the limit.
CountInv ==
    \A s \in Scopes :
        Limit > 0 => Cardinality(Holders(s)) <= counts[s] /\ counts[s] <= Limit

AdmissionInv == TypeOK /\ CountInv

LEMMA HoldersAreFinite ==
    ASSUME NEW s \in Scopes
    PROVE  IsFiniteSet(Holders(s)) /\ Cardinality(Holders(s)) \in Nat
<1>1. Holders(s) \subseteq Clients
  BY DEF Holders
<1> QED
  BY <1>1, AdmissionAssumption, FS_Subset, FS_CardinalityType

\* How a step of one handler moves the sessions of each scope.
LEMMA HoldersAfterStep ==
    ASSUME TypeOK, NEW c \in Clients, NEW from \in Stages, NEW to \in Stages,
           Goes(c, from, to), NEW s \in Scopes
    PROVE  /\ (from \in {"opening", "serving"} <=> to \in {"opening", "serving"})
                  => Holders(s)' = Holders(s)
           /\ (from \notin {"opening", "serving"} /\ to \in {"opening", "serving"})
                  => Holders(s)' = IF s = ScopeOf[c] THEN Holders(s) \cup {c} ELSE Holders(s)
           /\ (from \in {"opening", "serving"} /\ to \notin {"opening", "serving"})
                  => /\ Holders(s)' = IF s = ScopeOf[c] THEN Holders(s) \ {c} ELSE Holders(s)
                     /\ s = ScopeOf[c] => c \in Holders(s)
<1>1. /\ stage[c] = from /\ stage'[c] = to
      /\ \A d \in Clients : d # c => stage'[d] = stage[d]
  BY DEF Goes, TypeOK
<1> QED
  BY <1>1 DEF Holders, Holds

\* A step that admits nobody, and gives back at most the slot of one session.
LEMMA StepWithoutAdmission ==
    ASSUME AdmissionInv, NEW c \in Clients, NEW from \in Stages, NEW to \in Stages,
           Goes(c, from, to), to \in {"opening", "serving"} => from \in {"opening", "serving"},
           \/ UNCHANGED counts
           \/ /\ Release(ScopeOf[c])
              /\ from \in {"opening", "serving"} /\ to \notin {"opening", "serving"}
    PROVE  AdmissionInv'
<1>1. ScopeOf[c] \in Scopes /\ Limit \in Nat
  BY AdmissionAssumption
<1>2. TypeOK'
  BY <1>1 DEF AdmissionInv, TypeOK, Goes, Release
<1>3. ASSUME NEW s \in Scopes, Limit > 0
      PROVE  Cardinality(Holders(s)') <= counts'[s] /\ counts'[s] <= Limit
  <2>1. /\ Cardinality(Holders(s)) <= counts[s] /\ counts[s] <= Limit
        /\ counts[s] \in Nat /\ IsFiniteSet(Holders(s)) /\ Cardinality(Holders(s)) \in Nat
    BY <1>3, HoldersAreFinite DEF AdmissionInv, CountInv, TypeOK
  <2>2. CASE /\ s = ScopeOf[c]
             /\ from \in {"opening", "serving"} /\ to \notin {"opening", "serving"}
    <3>1. Holders(s)' = Holders(s) \ {c} /\ c \in Holders(s)
      BY <2>2, HoldersAfterStep DEF AdmissionInv
    <3>2. Cardinality(Holders(s)') = Cardinality(Holders(s)) - 1
      BY <2>1, <3>1, FS_RemoveElement
    <3>3. counts'[s] = counts[s] \/ counts'[s] = counts[s] - 1
      BY <1>3, <2>1, <2>2 DEF Release, AdmissionInv, TypeOK
    <3> QED
      BY <1>1, <2>1, <3>2, <3>3
  <2>3. CASE ~(/\ s = ScopeOf[c]
               /\ from \in {"opening", "serving"} /\ to \notin {"opening", "serving"})
    <3>1. Holders(s)' = Holders(s)
      BY <2>3, HoldersAfterStep DEF AdmissionInv
    <3>2. counts'[s] = counts[s]
      BY <1>1, <2>3 DEF Release, AdmissionInv, TypeOK
    <3> QED
      BY <2>1, <3>1, <3>2
  <2> QED
    BY <2>2, <2>3
<1> QED
  BY <1>2, <1>3 DEF AdmissionInv, CountInv

LEMMA AdmissionStep == AdmissionInv /\ [Next]_vars => AdmissionInv'
<1> SUFFICES ASSUME AdmissionInv, [Next]_vars PROVE AdmissionInv'
  OBVIOUS
<1>1. CASE UNCHANGED vars
  BY <1>1 DEF vars, AdmissionInv, TypeOK, CountInv, Holders, Holds
<1>2. ASSUME NEW c \in Clients,
             \/ Connect(c) \/ TurnAway(c) \/ Rejected(c) \/ OpenProbe(c) \/ ProbeFails(c)
             \/ SessionEnds(c) \/ Closes(c)
      PROVE  AdmissionInv'
  <2>1. {"away", "checking", "refused", "opening", "serving", "lingering"} = Stages
    BY DEF Stages
  <2> QED
    BY <1>2, <2>1, StepWithoutAdmission DEF Connect, TurnAway, Rejected, OpenProbe,
       ProbeFails, SessionEnds, Closes
<1>3. ASSUME NEW c \in Clients, Admit(c) PROVE AdmissionInv'
  <2>1. ScopeOf[c] \in Scopes /\ Limit \in Nat
    BY AdmissionAssumption
  <2>2. CASE Full(ScopeOf[c])
    BY <1>3, <2>2, StepWithoutAdmission DEF Admit, Stages
  <2>3. CASE ~Full(ScopeOf[c])
    <3>1. PICK to \in {"opening", "serving"} : Goes(c, "checking", to)
      BY <1>3, <2>3 DEF Admit
    <3>2. Take(ScopeOf[c])
      BY <1>3, <2>3 DEF Admit
    <3>3. TypeOK'
      BY <2>1, <3>1, <3>2 DEF AdmissionInv, TypeOK, Goes, Take, Stages
    <3>4. ASSUME NEW s \in Scopes, Limit > 0
          PROVE  Cardinality(Holders(s)') <= counts'[s] /\ counts'[s] <= Limit
      <4>1. /\ Cardinality(Holders(s)) <= counts[s] /\ counts[s] <= Limit
            /\ counts[s] \in Nat /\ IsFiniteSet(Holders(s))
            /\ Cardinality(Holders(s)) \in Nat
        BY <3>4, HoldersAreFinite DEF AdmissionInv, CountInv, TypeOK
      <4>2. Holders(s)' = IF s = ScopeOf[c] THEN Holders(s) \cup {c} ELSE Holders(s)
        BY <3>1, HoldersAfterStep DEF AdmissionInv, Stages
      <4>3. CASE s = ScopeOf[c]
        <5>1. /\ Cardinality(Holders(s)') <= Cardinality(Holders(s)) + 1
              /\ Cardinality(Holders(s)') \in Nat
          <6>1. Holders(s)' = Holders(s) \cup {c}
            BY <4>2, <4>3
          <6>2. Cardinality(Holders(s) \cup {c}) =
                  IF c \in Holders(s) THEN Cardinality(Holders(s))
                                      ELSE Cardinality(Holders(s)) + 1
            BY <4>1, FS_AddElement
          <6> QED
            BY <4>1, <6>1, <6>2
        <5>2. counts'[s] = counts[s] + 1 /\ counts[s] < Limit
          BY <2>1, <2>3, <3>2, <3>4, <4>1, <4>3 DEF Take, Full, AdmissionInv, TypeOK
        <5> QED
          BY <2>1, <4>1, <5>1, <5>2
      <4>4. CASE s # ScopeOf[c]
        BY <2>1, <3>2, <4>1, <4>2, <4>4 DEF Take, AdmissionInv, TypeOK
      <4> QED
        BY <4>3, <4>4
    <3> QED
      BY <3>3, <3>4 DEF AdmissionInv, CountInv
  <2> QED
    BY <2>2, <2>3
<1> QED
  BY <1>1, <1>2, <1>3 DEF Next

\* However many clients connect, fail and leave: no scope ever has more
\* sessions than the limit.
THEOREM NoScopeExceedsTheCap == Spec => []CapHolds
<1>1. Init => AdmissionInv
  <2> SUFFICES ASSUME Init PROVE AdmissionInv
    OBVIOUS
  <2>1. \A s \in Scopes : Holders(s) = {}
    BY DEF Init, Holders, Holds
  <2>2. Cardinality({}) = 0
    BY FS_EmptySet
  <2> QED
    BY <2>1, <2>2, AdmissionAssumption DEF Init, AdmissionInv, TypeOK, CountInv, Stages
<1>2. AdmissionInv => CapHolds
  <2> SUFFICES ASSUME AdmissionInv, NEW s \in Scopes, Limit > 0
               PROVE  Cardinality(Holders(s)) <= Limit
    BY DEF CapHolds
  <2>1. /\ Cardinality(Holders(s)) <= counts[s] /\ counts[s] <= Limit
        /\ counts[s] \in Nat /\ Cardinality(Holders(s)) \in Nat /\ Limit \in Nat
    BY HoldersAreFinite, AdmissionAssumption DEF AdmissionInv, CountInv, TypeOK
  <2> QED
    BY <2>1
<1> QED
  BY <1>1, <1>2, AdmissionStep, PTL DEF Spec

-----------------------------------------------------------------------------
(* The exact count, of scopes without speak clients.                        *)

\* Only a speak handler opens a probe, and only from there is a slot lost.
OpeningSpeaks == \A c \in Clients : stage[c] = "opening" => c \in SpeakClients

Listens(s) == Limit > 0 /\ \A c \in SpeakClients : ScopeOf[c] # s

ExactInv == AdmissionInv /\ OpeningSpeaks /\ CountsAreHolders

\* A session starts only by Admit, and ends only by SessionEnds or, in a speak
\* handler, by ProbeFails.
LEMMA ExactStep == ExactInv /\ [Next]_vars => (OpeningSpeaks /\ CountsAreHolders)'
<1> SUFFICES ASSUME ExactInv, [Next]_vars PROVE (OpeningSpeaks /\ CountsAreHolders)'
  OBVIOUS
<1>1. CASE UNCHANGED vars
  BY <1>1 DEF vars, ExactInv, OpeningSpeaks, CountsAreHolders, Holders, Holds
<1>2. ASSUME NEW c \in Clients,
             \/ Connect(c) \/ TurnAway(c) \/ Admit(c) \/ Rejected(c)
             \/ OpenProbe(c) \/ ProbeFails(c) \/ SessionEnds(c) \/ Closes(c)
      PROVE  (OpeningSpeaks /\ CountsAreHolders)'
  <2>1. PICK from \in Stages, to \in Stages :
           /\ Goes(c, from, to)
           /\ to = "opening" => c \in SpeakClients
    BY <1>2 DEF Connect, TurnAway, Admit, Rejected, OpenProbe, ProbeFails, SessionEnds, Closes,
       Stages
  <2>2. OpeningSpeaks'
    BY <2>1 DEF ExactInv, AdmissionInv, TypeOK, OpeningSpeaks, Goes
  <2>3. ASSUME NEW s \in Scopes, Listens(s)
        PROVE  counts'[s] = Cardinality(Holders(s)')
    <3>1. /\ counts[s] = Cardinality(Holders(s)) /\ IsFiniteSet(Holders(s))
          /\ counts[s] \in Nat /\ counts \in [Scopes -> Nat] /\ Limit > 0
          /\ ScopeOf[c] \in Scopes
      BY <2>3, HoldersAreFinite, AdmissionAssumption
         DEF ExactInv, AdmissionInv, TypeOK, CountsAreHolders, Listens
    <3>2. CASE s # ScopeOf[c]
      <4>1. Holders(s)' = Holders(s)
        BY <2>1, <3>2, HoldersAfterStep DEF ExactInv, AdmissionInv
      <4>2. counts'[s] = counts[s]
        BY <1>2, <3>1, <3>2 DEF Connect, TurnAway, Admit, Rejected, OpenProbe, ProbeFails,
           SessionEnds, Closes, Take, Release
      <4> QED
        BY <3>1, <4>1, <4>2
    <3>3. CASE s = ScopeOf[c]
      <4>1. c \notin SpeakClients /\ stage[c] # "opening"
        BY <2>3, <3>3 DEF Listens, ExactInv, OpeningSpeaks
      <4>2. CASE Admit(c) /\ ~Full(s)
        <5>1. Goes(c, "checking", "serving") /\ Take(s)
          BY <3>3, <4>1, <4>2 DEF Admit
        <5>2. c \notin Holders(s)
          BY <5>1 DEF Goes, Holders, Holds
        <5>3. Holders(s)' = Holders(s) \cup {c}
          BY <3>3, <5>1, HoldersAfterStep DEF ExactInv, AdmissionInv, Stages
        <5>4. Cardinality(Holders(s)') = Cardinality(Holders(s)) + 1
          BY <3>1, <5>2, <5>3, FS_AddElement
        <5> QED
          BY <3>1, <5>1, <5>4 DEF Take
      <4>3. CASE SessionEnds(c)
        <5>1. PICK next \in {"lingering", "away"} : Goes(c, "serving", next)
          BY <4>3 DEF SessionEnds
        <5>2. Holders(s)' = Holders(s) \ {c} /\ c \in Holders(s)
          BY <3>3, <5>1, HoldersAfterStep DEF ExactInv, AdmissionInv, Stages
        <5>3. Cardinality(Holders(s)') = Cardinality(Holders(s)) - 1
          BY <3>1, <5>2, FS_RemoveElement
        <5>4. Cardinality(Holders(s)) # 0
          BY <3>1, <5>2, FS_EmptySet
        <5> QED
          BY <3>1, <3>3, <4>3, <5>3, <5>4 DEF SessionEnds, Release
      <4>4. CASE ~SessionEnds(c) /\ ~(Admit(c) /\ ~Full(s))
        <5>1. /\ UNCHANGED counts
              /\ \/ Goes(c, "away", "checking") \/ Goes(c, "checking", "refused")
                 \/ Goes(c, "refused", "away") \/ Goes(c, "lingering", "away")
          BY <1>2, <3>3, <4>1, <4>4 DEF Connect, TurnAway, Admit, Rejected, OpenProbe, ProbeFails,
             SessionEnds, Closes, Goes
        <5>2. Holders(s)' = Holders(s)
          BY <5>1, HoldersAfterStep DEF ExactInv, AdmissionInv, Stages
        <5> QED
          BY <3>1, <5>1, <5>2
      <4> QED
        BY <4>2, <4>3, <4>4
    <3> QED
      BY <3>2, <3>3
  <2> QED
    BY <2>2, <2>3 DEF CountsAreHolders, Listens
<1> QED
  BY <1>1, <1>2 DEF Next

LEMMA ExactStarts == Init => ExactInv
<1> SUFFICES ASSUME Init PROVE ExactInv
  OBVIOUS
<1>1. \A s \in Scopes : Holders(s) = {}
  BY DEF Init, Holders, Holds
<1>2. Cardinality({}) = 0
  BY FS_EmptySet
<1>3. AdmissionInv
  BY <1>1, <1>2, AdmissionAssumption DEF Init, AdmissionInv, TypeOK, CountInv, Stages
<1>4. OpeningSpeaks
  BY DEF Init, OpeningSpeaks
<1>5. CountsAreHolders
  BY <1>1, <1>2 DEF Init, CountsAreHolders
<1> QED
  BY <1>3, <1>4, <1>5 DEF ExactInv

LEMMA ExactInvariance == ExactInv /\ [Next]_vars => ExactInv'
BY AdmissionStep, ExactStep DEF ExactInv

\* Slots are neither lost nor given twice: however handlers interleave and
\* sessions end, the count of a scope that does not use /v1/speak is the number
\* of its live sessions (limits.py:33-39).
THEOREM ListenSlotsAreExact == Spec => []CountsAreHolders
<1>1. ExactInv => CountsAreHolders
  BY DEF ExactInv
<1> QED
  BY <1>1, ExactStarts, ExactInvariance, PTL DEF Spec

-----------------------------------------------------------------------------
(* Least and largest elements, and sequences of one.                        *)

\* A nonempty set of naturals has a least element, and a bounded one a largest.
LEMMA LeastElement ==
    ASSUME NEW K \in SUBSET Nat, K # {}
    PROVE  \E i \in K : \A j \in K : i <= j
<1>1. PICK i \in K : \A j \in K : ~ (<<j, i>> \in OpToRel(<, Nat))
  BY WFMin, NatLessThanWellFounded, Zenon
<1>2. \A j \in K : ~ (j < i)
  BY <1>1 DEF OpToRel
<1> QED
  BY <1>2, SMT

LEMMA LargestElement ==
    ASSUME NEW n \in Nat, NEW K \in SUBSET (0..n), K # {}
    PROVE  \E i \in K : \A j \in K : j <= i
<1> DEFINE Gaps == {n - k : k \in K}
<1>1. Gaps \in SUBSET Nat /\ Gaps # {}
  <2>1. \A k \in K : n - k \in Nat
    OBVIOUS
  <2> QED
    BY <2>1
<1>2. PICK g \in Gaps : \A h \in Gaps : g <= h
  BY <1>1, LeastElement
<1>3. PICK i \in K : g = n - i
  BY <1>2
<1>4. ASSUME NEW j \in K PROVE j <= i
  <2>1. n - i <= n - j
    BY <1>2, <1>3
  <2> QED
    BY <2>1
<1> QED
  BY <1>4

LEMMA AppendToNone == ASSUME NEW e PROVE Append(<<>>, e) = <<e>>
<1>1. <<>> \in Seq({e}) /\ <<e>> \in Seq({e}) /\ Len(<<>>) = 0
  OBVIOUS
<1>2. /\ Append(<<>>, e) \in Seq({e}) /\ Len(Append(<<>>, e)) = 0 + 1
      /\ Append(<<>>, e)[0 + 1] = e
  BY <1>1, AppendProperties
<1> QED
  BY <1>1, <1>2, SeqEqual

-----------------------------------------------------------------------------
(* The audio sink.                                                         *)

SinkWaits == {"idle", "initiating", "uploading", "putting", "last part", "completing",
              "aborting", "done"}

\* Chunks that left the buffer: those before it, or before the part in flight.
Gone == given - Len(buffer) - Len(inflight)

SinkTypes ==
    /\ given \in Nat /\ given <= SinkChunks
    /\ buffer \in Seq(Nat) /\ inflight \in Seq(Nat) /\ object \in Seq(Nat)
    /\ id \in Nat /\ id <= Len(uploads) /\ number \in Nat /\ parts \in Seq(Nat)
    /\ pc \in SinkWaits /\ cut \in BOOLEAN /\ starved \in BOOLEAN
    /\ uploads \in Seq({"open", "completed", "aborted"})
    /\ (\E S : stored \in Seq(S)) /\ Len(stored) = Len(uploads)
    /\ faults \in Nat /\ faults <= SinkFaults
    /\ unknown \subseteq 1..Len(uploads)

\* The buffer and the part in flight are the last chunks given.
SinkHeld ==
    /\ Len(buffer) <= given /\ Len(inflight) <= given
    /\ \A i \in 1..Len(buffer) : buffer[i] = given - Len(buffer) + i
    /\ \A i \in 1..Len(inflight) : inflight[i] = given - Len(inflight) + i
    /\ IF pc \in {"uploading", "last part"} THEN inflight # <<>> /\ buffer = <<>>
       ELSE inflight = <<>>

SinkStage ==
    /\ pc \in {"putting", "last part", "completing", "aborting", "done"} => cut
    /\ pc \in {"initiating", "putting"} => id = 0 /\ buffer # <<>>
    /\ pc \in {"uploading", "last part", "completing", "aborting"} => id # 0
    /\ pc \in {"completing", "aborting"} => buffer = <<>>
    /\ pc = "aborting" => faults > 0 \/ lost # {}
    /\ pc = "done" /\ id # 0 => buffer = <<>>
    /\ id # 0 => given > 0
    /\ id = 0 => lost = {} /\ parts = <<>> /\ Len(buffer) = given

\* Parts are numbered from 1 on, and none is empty.
SinkNumbers ==
    /\ \A k \in 1..Len(parts) : parts[k] = k
    /\ Len(parts) <= Gone
    /\ number \in {Len(parts), Len(parts) + 1} /\ number > 0
    /\ pc \in {"idle", "initiating", "uploading", "last part"} => number = Len(parts) + 1

\* w is chunks up to m, all but the lost.
AllButTheLost(w, m) ==
    /\ w \in Seq(Nat) /\ Sink!Increasing(w)
    /\ \A c \in Nat : (\E i \in 1..Len(w) : w[i] = c) <=> 0 < c /\ c <= m /\ c \notin lost
    /\ lost = {} => Len(w) = m /\ \A i \in 1..m : w[i] = i

\* P[k] is what the first k parts make.
Prefixes(P, n) ==
    /\ P[0] = <<>>
    /\ \A k \in 1..n : /\ k \in DOMAIN stored[id] /\ stored[id][k] \in Seq(Nat)
                       /\ P[k] = P[k - 1] \o stored[id][k]

\* The parts S3 acknowledged make what left the buffer, but for the lost.
SinkStored ==
    /\ \A c \in lost : c \in Nat /\ 0 < c /\ c <= Gone
    /\ id # 0 => \E P : Prefixes(P, Len(parts)) /\ AllButTheLost(P[Len(parts)], Gone)

\* The object is what was given, but for the lost.
SinkObject ==
    /\ pc \notin {"aborting", "done"} => object = <<>>
    /\ object # <<>> => AllButTheLost(object, given)
    /\ pc = "done" /\ given > 0 /\ faults = 0 /\ lost = {} => AllButTheLost(object, given)

\* The sink forgets no upload but those whose number it never learned.
SinkUploads ==
    /\ \A u \in 1..Len(uploads) : u # id => u \in unknown
    /\ pc = "done" /\ id # 0 /\ uploads[id] = "open" => id \in unknown

SinkRoom ==
    ~starved => /\ Len(buffer) + Len(inflight) <= SinkPart
                /\ pc = "idle" => Len(buffer) < SinkPart

SinkParts ==
    /\ SinkHeld /\ SinkStage /\ SinkNumbers /\ SinkStored /\ SinkObject /\ SinkUploads /\ SinkRoom

SinkInv == SinkTypes /\ SinkParts

\* What FlattenSeq makes of sequences is the last of their prefixes.
LEMMA FlattenIsThePrefix ==
    ASSUME NEW n \in Nat, n > 0, NEW ss, Len(ss) = n, ss[1] \in Seq(Nat),
           NEW P, P[0] = <<>>, \A k \in 1..n : P[k] = P[k - 1] \o ss[k]
    PROVE  Sink!FlattenSeq(ss) = P[n]
<1> DEFINE F(f) == f = [i \in 1..Len(ss) |-> IF i = 1 THEN ss[i] ELSE f[i - 1] \o ss[i]]
           h == [i \in 1..n |-> P[i]]
           fl == CHOOSE f : F(f)
<1>1. 1 \in 1..n /\ P[1] = ss[1]
  <2>1. 1 \in 1..n /\ 1 - 1 = 0
    OBVIOUS
  <2>2. P[1] = P[1 - 1] \o ss[1]
    BY <2>1
  <2>3. P[1] = <<>> \o ss[1]
    BY <2>1, <2>2
  <2> QED
    BY <2>1, <2>3, ConcatEmptySeq
<1>2. F(h)
  <2>1. ASSUME NEW i \in 1..n
        PROVE  h[i] = IF i = 1 THEN ss[i] ELSE h[i - 1] \o ss[i]
    <3>1. CASE i = 1
      BY <1>1, <3>1
    <3>2. CASE i # 1
      <4>1. i - 1 \in 1..n
        BY <3>2
      <4> QED
        BY <3>2, <4>1
    <3> QED
      BY <3>1, <3>2
  <2> QED
    BY <2>1
<1>3. Sink!FlattenSeq(ss) = fl[n]
  <2>1. Sink!FlattenSeq(ss) = IF Len(ss) = 0 THEN ss ELSE fl[Len(ss)]
    BY DEF Sink!FlattenSeq
  <2> HIDE DEF fl
  <2> QED
    BY <2>1
<1>4. F(fl)
  BY <1>2
<1> HIDE DEF fl, h
<1>5. \A i \in 1..n : fl[i] = IF i = 1 THEN ss[i] ELSE fl[i - 1] \o ss[i]
  BY <1>4
<1>6. ASSUME fl[n] # P[n] PROVE FALSE
  <2> DEFINE K == {i \in 1..n : fl[i] # P[i]}
  <2>1. K \in SUBSET Nat /\ K # {}
    <3>1. n \in 1..n
      OBVIOUS
    <3>2. n \in K
      BY <1>6, <3>1
    <3>3. \A i \in K : i \in Nat
      OBVIOUS
    <3> QED
      BY <3>2, <3>3
  <2>2. PICK i \in K : \A j \in K : i <= j
    BY <2>1, LeastElement
  <2>3. i \in 1..n /\ fl[i] # P[i]
    BY <2>2
  <2>4. i # 1
    BY <1>1, <1>5, <2>3
  <2>5. i - 1 \in 1..n /\ ~ (i <= i - 1)
    BY <2>3, <2>4
  <2>6. fl[i - 1] = P[i - 1]
    <3>1. i - 1 \notin K
      BY <2>2, <2>5
    <3> QED
      BY <2>5, <3>1
  <2>7. fl[i] = fl[i - 1] \o ss[i]
    BY <1>5, <2>3, <2>4
  <2>8. P[i] = P[i - 1] \o ss[i]
    BY <2>3
  <2> QED
    BY <2>3, <2>6, <2>7, <2>8
<1> QED
  BY <1>3, <1>6

\* The next chunks after m, stored or lost.
LEMMA OneMorePart ==
    ASSUME NEW w, NEW m \in Nat, NEW d \in Seq(Nat), AllButTheLost(w, m),
           \A i \in 1..Len(d) : d[i] = m + i, \A c \in lost : c \in Nat /\ c <= m
    PROVE  AllButTheLost(w \o d, m + Len(d))
<1> DEFINE v == w \o d
<1>1. /\ w \in Seq(Nat) /\ Len(w) \in Nat /\ Len(d) \in Nat
      /\ \A i \in 1..Len(w) : w[i] \in Nat /\ w[i] <= m /\ 0 < w[i] /\ w[i] \notin lost
  <2>1. w \in Seq(Nat)
    BY DEF AllButTheLost
  <2>2. \A i \in 1..Len(w) : w[i] \in Nat
    BY <2>1
  <2> QED
    BY <2>1, <2>2 DEF AllButTheLost
<1>2. /\ v \in Seq(Nat) /\ Len(v) = Len(w) + Len(d)
      /\ \A i \in 1..(Len(w) + Len(d)) : v[i] = IF i <= Len(w) THEN w[i] ELSE d[i - Len(w)]
  BY <1>1, ConcatProperties, Zenon
<1> HIDE DEF v
<1>3. \A i \in 1..Len(w) : v[i] = w[i]
  BY <1>1, <1>2
<1>4. \A i \in 1..Len(d) : v[Len(w) + i] = m + i
  <2> SUFFICES ASSUME NEW i \in 1..Len(d) PROVE v[Len(w) + i] = m + i
    OBVIOUS
  <2>1. Len(w) + i \in 1..(Len(w) + Len(d)) /\ ~ (Len(w) + i <= Len(w)) /\ (Len(w) + i) - Len(w) = i
    BY <1>1
  <2> QED
    BY <1>2, <2>1
<1>5. \A i \in 1..Len(v) : i \in 1..Len(w) \/ \E k \in 1..Len(d) : i = Len(w) + k
  <2> SUFFICES ASSUME NEW i \in 1..Len(v), i \notin 1..Len(w)
               PROVE  \E k \in 1..Len(d) : i = Len(w) + k
    OBVIOUS
  <2>1. i - Len(w) \in 1..Len(d) /\ i = Len(w) + (i - Len(w))
    BY <1>1, <1>2
  <2> QED
    BY <2>1
<1>6. Sink!Increasing(v)
  <2> SUFFICES ASSUME NEW i \in 1..Len(v), NEW j \in 1..Len(v), i < j PROVE v[i] < v[j]
    BY DEF Sink!Increasing
  <2>1. CASE j \in 1..Len(w)
    <3>1. i \in 1..Len(w)
      BY <1>1, <1>2, <2>1
    <3> QED
      BY <1>3, <2>1, <3>1 DEF AllButTheLost, Sink!Increasing
  <2>2. CASE i \in 1..Len(w) /\ j \notin 1..Len(w)
    <3>1. PICK k \in 1..Len(d) : j = Len(w) + k
      BY <1>5, <2>2
    <3>2. v[i] = w[i] /\ w[i] \in Nat /\ w[i] <= m
      BY <1>1, <1>3, <2>2
    <3>3. v[j] = m + k /\ k \in Nat /\ k > 0
      BY <1>1, <1>4, <3>1
    <3> HIDE <3>1
    <3> QED
      BY <3>2, <3>3
  <2>3. CASE i \notin 1..Len(w) /\ j \notin 1..Len(w)
    <3>1. PICK k \in 1..Len(d) : j = Len(w) + k
      BY <1>5, <2>3
    <3>2. PICK l \in 1..Len(d) : i = Len(w) + l
      BY <1>5, <2>3
    <3> QED
      BY <1>1, <1>4, <3>1, <3>2
  <2> QED
    BY <2>1, <2>2, <2>3
<1>7. ASSUME NEW c \in Nat
      PROVE  (\E i \in 1..Len(v) : v[i] = c) <=> 0 < c /\ c <= m + Len(d) /\ c \notin lost
  <2>1. ASSUME NEW i \in 1..Len(v), v[i] = c PROVE 0 < c /\ c <= m + Len(d) /\ c \notin lost
    <3>1. CASE i \in 1..Len(w)
      <4>1. c = w[i] /\ w[i] \in Nat /\ w[i] <= m /\ 0 < w[i] /\ w[i] \notin lost
        BY <1>1, <1>3, <2>1, <3>1
      <4> QED
        BY <1>1, <4>1
    <3>2. CASE i \notin 1..Len(w)
      <4>1. PICK k \in 1..Len(d) : i = Len(w) + k
        BY <1>5, <3>2
      <4>2. c = m + k /\ k \in Nat /\ 0 < k /\ k <= Len(d)
        BY <1>1, <1>4, <2>1, <4>1
      <4> QED
        BY <1>1, <4>2
    <3> QED
      BY <3>1, <3>2
  <2>2. ASSUME 0 < c, c <= m + Len(d), c \notin lost PROVE \E i \in 1..Len(v) : v[i] = c
    <3>1. CASE c <= m
      <4>1. PICK i \in 1..Len(w) : w[i] = c
        BY <2>2, <3>1 DEF AllButTheLost
      <4>2. i \in 1..Len(v)
        BY <1>1, <1>2
      <4> QED
        BY <1>3, <4>1, <4>2
    <3>2. CASE ~ (c <= m)
      <4>1. c - m \in 1..Len(d) /\ Len(w) + (c - m) \in 1..Len(v) /\ m + (c - m) = c
        BY <1>1, <1>2, <2>2, <3>2
      <4> QED
        BY <1>4, <4>1
    <3> QED
      BY <3>1, <3>2
  <2> QED
    BY <2>1, <2>2
<1>8. ASSUME lost = {} PROVE Len(v) = m + Len(d) /\ \A i \in 1..(m + Len(d)) : v[i] = i
  <2>1. Len(w) = m /\ \A i \in 1..m : w[i] = i
    BY <1>8 DEF AllButTheLost
  <2>2. ASSUME NEW i \in 1..(m + Len(d)) PROVE v[i] = i
    <3>1. CASE i \in 1..Len(w)
      BY <1>3, <2>1, <3>1
    <3>2. CASE i \notin 1..Len(w)
      BY <1>2, <1>4, <1>5, <2>1, <3>2
    <3> QED
      BY <3>1, <3>2
  <2> QED
    BY <1>2, <2>1, <2>2
<1> QED
  BY <1>2, <1>6, <1>7, <1>8 DEF AllButTheLost, v

LEMMA OneLostPart ==
    ASSUME NEW w, NEW m \in Nat, NEW d \in Seq(Nat), AllButTheLost(w, m), d # <<>>,
           \A i \in 1..Len(d) : d[i] = m + i, \A c \in lost : c \in Nat /\ c <= m,
           lost' = lost \cup Sink!ToSet(d)
    PROVE  /\ AllButTheLost(w, m + Len(d))' /\ lost' # {}
           /\ \A c \in lost' : c \in Nat /\ c <= m + Len(d) /\ (c \in lost \/ 0 < c)
<1>1. Len(d) \in Nat /\ Len(d) > 0
  OBVIOUS
<1>2. \A c : c \in Sink!ToSet(d) <=> \E i \in 1..Len(d) : c = m + i
  <2>1. DOMAIN d = 1..Len(d)
    OBVIOUS
  <2>2. \A c : c \in Sink!ToSet(d) <=> \E i \in 1..Len(d) : c = d[i]
    BY <2>1, Zenon DEF Sink!ToSet
  <2> QED
    BY <2>2
<1>3. \A c \in Nat : c \in Sink!ToSet(d) <=> m < c /\ c <= m + Len(d)
  <2> SUFFICES ASSUME NEW c \in Nat, m < c, c <= m + Len(d) PROVE \E i \in 1..Len(d) : c = m + i
    BY <1>1, <1>2
  <2>1. c - m \in 1..Len(d) /\ c = m + (c - m)
    BY <1>1
  <2> QED
    BY <2>1
<1>4. \A c \in Sink!ToSet(d) : c \in Nat /\ 0 < c /\ c <= m + Len(d)
  BY <1>1, <1>2
<1>5. lost' # {}
  <2>1. 1 \in 1..Len(d)
    BY <1>1
  <2> QED
    BY <1>2, <2>1
<1>6. \A c \in Nat : (0 < c /\ c <= m /\ c \notin lost)
                        <=> (0 < c /\ c <= m + Len(d) /\ c \notin lost')
  BY <1>1, <1>3
<1>7. AllButTheLost(w, m + Len(d))'
  BY <1>5, <1>6 DEF AllButTheLost
<1> QED
  BY <1>1, <1>4, <1>5, <1>7

LEMMA SinkSizes ==
    ASSUME SinkTypes
    PROVE  /\ SinkPart \in Nat /\ SinkPart > 0 /\ SinkChunks \in Nat /\ SinkFaults \in Nat
           /\ Len(buffer) \in Nat /\ Len(inflight) \in Nat /\ Len(parts) \in Nat
           /\ Len(uploads) \in Nat /\ Len(stored) \in Nat
           /\ (buffer = <<>> <=> Len(buffer) = 0) /\ (inflight = <<>> <=> Len(inflight) = 0)
           /\ (parts = <<>> <=> Len(parts) = 0)
<1>1. Len(stored) \in Nat
  BY DEF SinkTypes
<1> QED
  BY <1>1, PartsAssumption DEF SinkTypes

\* A call that is not answered, of somebody still there, is a fault.
LEMMA CallsGo ==
    ASSUME SinkTypes, NEW o, Sink!Goes(o)
    PROVE  /\ faults' \in Nat /\ faults <= faults' /\ faults' <= SinkFaults
           /\ o # "answered" /\ pc \notin {"initiating", "uploading"} => faults' > 0
BY SinkSizes DEF SinkTypes, Sink!Goes, Sink!Interrupted

\* The chunk taken goes after those in the buffer.
LEMMA ChunkTaken ==
    ASSUME SinkTypes, SinkHeld, SinkStage, Sink!OnChunk
    PROVE  /\ pc = "idle" /\ ~cut /\ given < SinkChunks /\ given' = given + 1
           /\ inflight = <<>>
           /\ Append(buffer, given + 1) \in Seq(Nat)
           /\ Len(Append(buffer, given + 1)) = Len(buffer) + 1
           /\ \A i \in 1..(Len(buffer) + 1) :
                 Append(buffer, given + 1)[i] = (given + 1) - (Len(buffer) + 1) + i
           /\ \/ /\ buffer' = Append(buffer, given + 1) /\ inflight' = <<>>
                 /\ \/ pc' = "idle" /\ Len(buffer) + 1 < SinkPart
                    \/ pc' = "initiating" /\ id = 0
              \/ /\ inflight' = Append(buffer, given + 1) /\ buffer' = <<>>
                 /\ pc' = "uploading" /\ id # 0
           /\ Len(buffer') \in Nat /\ Len(inflight') \in Nat /\ Gone' = Gone
           /\ UNCHANGED <<id, number, parts, cut, uploads, stored, object, faults, lost, unknown,
                          starved>>
<1> DEFINE data == Append(buffer, given + 1)
<1>1. /\ pc = "idle" /\ ~cut /\ given < SinkChunks /\ given' = given + 1
      /\ UNCHANGED <<id, number, parts, cut, uploads, stored, object, faults, lost, unknown, starved>>
  BY DEF Sink!OnChunk, Sink!s3, Sink!history
<1>2. inflight = <<>> /\ Len(inflight) = 0
  BY <1>1, SinkSizes DEF SinkHeld
<1>3. /\ buffer \in Seq(Nat) /\ given \in Nat /\ given + 1 \in Nat /\ Len(buffer) \in Nat
      /\ \A i \in 1..Len(buffer) : buffer[i] = given - Len(buffer) + i
  <2>1. buffer \in Seq(Nat) /\ given \in Nat /\ Len(buffer) \in Nat
    BY SinkSizes DEF SinkTypes
  <2>2. \A i \in 1..Len(buffer) : buffer[i] = given - Len(buffer) + i
    BY DEF SinkHeld
  <2> QED
    BY <2>1, <2>2
<1>4. /\ data \in Seq(Nat) /\ Len(data) = Len(buffer) + 1
      /\ \A i \in 1..Len(buffer) : data[i] = buffer[i]
      /\ data[Len(buffer) + 1] = given + 1
  <2>1. buffer \in Seq(Nat) /\ given + 1 \in Nat
    BY <1>3
  <2> QED
    BY <2>1, AppendProperties
<1> HIDE DEF data
<1>5. \A i \in 1..(Len(buffer) + 1) : data[i] = (given + 1) - (Len(buffer) + 1) + i
  <2> SUFFICES ASSUME NEW i \in 1..(Len(buffer) + 1)
               PROVE  data[i] = (given + 1) - (Len(buffer) + 1) + i
    OBVIOUS
  <2>1. CASE i = Len(buffer) + 1
    BY <1>3, <1>4, <2>1
  <2>2. CASE i \in 1..Len(buffer)
    <3>1. data[i] = given - Len(buffer) + i /\ i \in Nat
      BY <1>3, <1>4, <2>2
    <3> QED
      BY <1>3, <3>1
  <2> QED
    BY <1>3, <2>1, <2>2
<1>6. \/ /\ buffer' = data /\ inflight' = <<>>
         /\ \/ pc' = "idle" /\ Len(buffer) + 1 < SinkPart
            \/ pc' = "initiating" /\ id = 0
      \/ /\ inflight' = data /\ buffer' = <<>> /\ pc' = "uploading" /\ id # 0
  <2>1. IF ~Sink!LargeEnough(data) THEN buffer' = data /\ UNCHANGED <<inflight, pc>>
        ELSE IF id = 0 THEN buffer' = data /\ pc' = "initiating" /\ UNCHANGED inflight
        ELSE Sink!StartPart(data, "uploading")
    BY DEF Sink!OnChunk, data
  <2>2. ~Sink!LargeEnough(data) <=> Len(buffer) + 1 < SinkPart
    BY <1>3, <1>4, SinkSizes DEF Sink!LargeEnough
  <2> QED
    BY <1>1, <1>2, <2>1, <2>2 DEF Sink!StartPart
<1>7. Len(buffer') \in Nat /\ Len(inflight') \in Nat /\ Gone' = Gone
  <2>0. Len(<<>>) = 0 /\ given' = given + 1 /\ given \in Nat /\ Len(buffer) \in Nat /\ Len(inflight) = 0
    BY <1>1, <1>2, <1>3
  <2>1. CASE buffer' = data /\ inflight' = <<>>
    <3>1. Len(buffer') = Len(buffer) + 1 /\ Len(inflight') = 0
      BY <1>4, <2>0, <2>1
    <3> QED
      BY <2>0, <3>1 DEF Gone
  <2>2. CASE inflight' = data /\ buffer' = <<>>
    <3>1. Len(inflight') = Len(buffer) + 1 /\ Len(buffer') = 0
      BY <1>4, <2>0, <2>2
    <3> QED
      BY <2>0, <3>1 DEF Gone
  <2> QED
    BY <1>6, <2>1, <2>2
<1> QED
  BY <1>1, <1>2, <1>4, <1>5, <1>6, <1>7 DEF data

LEMMA SeqOf ==
    ASSUME NEW S, NEW T, NEW q \in Seq(S), \A i \in 1..Len(q) : q[i] \in T
    PROVE  q \in Seq(T)
<1>1. Len(q) \in Nat /\ q = [i \in 1..Len(q) |-> q[i]]
  OBVIOUS
<1>2. q \in [1..Len(q) -> T]
  BY <1>1
<1> QED
  BY <1>1, <1>2, SeqDef

\* An upload begun has no part.
LEMMA UploadBegun ==
    ASSUME SinkTypes, NEW o, Sink!Initiate(o)
    PROVE  /\ uploads' \in Seq({"open", "completed", "aborted"})
           /\ (\E S : stored' \in Seq(S)) /\ Len(stored') = Len(uploads')
           /\ Len(uploads') = IF Sink!Take(o) THEN Len(uploads) + 1 ELSE Len(uploads)
<1>1. PICK S : stored \in Seq(S)
  BY DEF SinkTypes
<1>2. stored \in Seq(S \cup {<<>>}) /\ <<>> \in S \cup {<<>>}
  BY <1>1, SeqOf
<1>3. CASE Sink!Take(o)
  <2>1. uploads' = Append(uploads, "open") /\ stored' = Append(stored, <<>>)
    BY <1>3 DEF Sink!Initiate
  <2>2. /\ Append(stored, <<>>) \in Seq(S \cup {<<>>})
        /\ Len(Append(stored, <<>>)) = Len(stored) + 1
    BY <1>2, AppendProperties, Zenon
  <2>3. /\ uploads' \in Seq({"open", "completed", "aborted"}) /\ Len(uploads') = Len(uploads) + 1
    BY <2>1 DEF SinkTypes
  <2> QED
    BY <1>3, <2>1, <2>2, <2>3 DEF SinkTypes
<1>4. CASE ~Sink!Take(o)
  BY <1>4 DEF Sink!Initiate, SinkTypes
<1> QED
  BY <1>3, <1>4

\* S3 stores a part under its number, and no other changes.
LEMMA PartStored ==
    ASSUME SinkTypes, SinkNumbers, id # 0, NEW o, Sink!StorePart(o)
    PROVE  /\ (\E S : stored' \in Seq(S)) /\ Len(stored') = Len(stored)
           /\ \A k \in 1..Len(parts) : k \in DOMAIN stored[id] /\ k # number =>
                 k \in DOMAIN stored'[id] /\ stored'[id][k] = stored[id][k]
           /\ Sink!Take(o) => number \in DOMAIN stored'[id] /\ stored'[id][number] = inflight
<1> DEFINE old == stored[id]
           new == [n \in DOMAIN old \cup {number} |-> IF n = number THEN inflight ELSE old[n]]
<1>1. PICK S : stored \in Seq(S)
  BY DEF SinkTypes
<1>2. id \in 1..Len(stored)
  BY SinkSizes DEF SinkTypes
<1>3. CASE Sink!Take(o)
  <2>1. stored' = [stored EXCEPT ![id] = new]
    BY <1>3 DEF Sink!StorePart
  <2>2. /\ number \in DOMAIN new /\ new[number] = inflight
        /\ \A k : k \in DOMAIN old /\ k # number => k \in DOMAIN new /\ new[k] = old[k]
    OBVIOUS
  <2> HIDE DEF new
  <2>3. stored \in Seq(S \cup {new}) /\ new \in S \cup {new}
    BY <1>1, SeqOf
  <2>4. /\ [stored EXCEPT ![id] = new] \in Seq(S \cup {new})
        /\ Len([stored EXCEPT ![id] = new]) = Len(stored)
        /\ [stored EXCEPT ![id] = new][id] = new
    <3>1. stored = [i \in 1..Len(stored) |-> stored[i]]
      BY <1>1
    <3> QED
      BY <1>2, <2>3, ExceptSeq
  <2> QED
    BY <2>1, <2>2, <2>4
<1>4. CASE ~Sink!Take(o)
  BY <1>1, <1>4 DEF Sink!StorePart
<1> QED
  BY <1>3, <1>4

\* How the session ends: with nothing, with one PUT, or with the upload.
LEMMA HowItEnds ==
    ASSUME SinkTypes, SinkHeld, SinkStage, Sink!OnSessionEnd
    PROVE  /\ pc = "idle" /\ cut /\ inflight = <<>>
           /\ \/ pc' = "done" /\ id = 0 /\ given = 0 /\ UNCHANGED <<buffer, inflight>>
              \/ /\ pc' = "putting" /\ id = 0 /\ given > 0 /\ buffer # <<>>
                 /\ UNCHANGED <<buffer, inflight>>
              \/ /\ pc' = "last part" /\ id # 0 /\ buffer # <<>>
                 /\ inflight' = buffer /\ buffer' = <<>>
              \/ /\ pc' = "completing" /\ id # 0 /\ buffer = <<>>
                 /\ UNCHANGED <<buffer, inflight>>
           /\ UNCHANGED <<given, id, number, parts, cut, uploads, stored, object, faults, lost,
                          unknown, starved>>
<1>1. /\ pc = "idle" /\ cut
      /\ UNCHANGED <<given, id, number, parts, cut, uploads, stored, object, faults, lost, unknown,
                     starved>>
  BY DEF Sink!OnSessionEnd, Sink!s3, Sink!history
<1>2. inflight = <<>> /\ given \in Nat /\ Len(buffer) \in Nat
  BY <1>1, SinkSizes DEF SinkHeld, SinkTypes
<1>3. (id # 0 => given > 0) /\ (id = 0 => Len(buffer) = given) /\ (buffer = <<>> <=> Len(buffer) = 0)
  BY SinkSizes DEF SinkStage
<1>4. CASE given = 0
  <2>1. id = 0
    BY <1>2, <1>3, <1>4
  <2>2. pc' = "done" /\ UNCHANGED <<buffer, inflight>>
    BY <1>4, <2>1 DEF Sink!OnSessionEnd
  <2> QED
    BY <1>1, <1>2, <1>4, <2>1, <2>2
<1>5. CASE given > 0 /\ id = 0
  <2>1. buffer # <<>> /\ given # 0
    BY <1>2, <1>3, <1>5
  <2>2. pc' = "putting" /\ UNCHANGED <<buffer, inflight>>
    BY <1>5, <2>1 DEF Sink!OnSessionEnd
  <2> QED
    BY <1>1, <1>2, <1>5, <2>1, <2>2
<1>6. CASE id # 0 /\ buffer # <<>>
  <2>1. given # 0
    BY <1>2, <1>3, <1>6
  <2>2. Sink!StartPart(buffer, "last part")
    BY <1>6, <2>1 DEF Sink!OnSessionEnd
  <2> QED
    BY <1>1, <1>2, <1>6, <2>2 DEF Sink!StartPart
<1>7. CASE id # 0 /\ buffer = <<>>
  <2>1. given # 0
    BY <1>2, <1>3, <1>7
  <2>2. pc' = "completing" /\ UNCHANGED <<buffer, inflight>>
    BY <1>7, <2>1 DEF Sink!OnSessionEnd
  <2> QED
    BY <1>1, <1>2, <1>7, <2>2
<1>8. given = 0 \/ (given > 0 /\ id = 0) \/ (id # 0 /\ buffer # <<>>) \/ (id # 0 /\ buffer = <<>>)
  BY <1>2
<1> QED
  BY <1>4, <1>5, <1>6, <1>7, <1>8, Zenon

\* What S3 puts together from the parts, and why it may refuse to.
LEMMA PutTogether ==
    ASSUME SinkTypes, SinkHeld, SinkStage, SinkNumbers, SinkStored, pc = "completing"
    PROVE  /\ Gone = given /\ given > 0 /\ id # 0
           /\ Sink!Acceptable => AllButTheLost(
                 Sink!FlattenSeq([i \in 1..Len(parts) |-> stored[id][parts[i]]]), given)
           /\ ~Sink!Acceptable => lost # {}
<1> DEFINE n == Len(parts)
           ss == [i \in 1..n |-> stored[id][parts[i]]]
<1>1. buffer = <<>> /\ inflight = <<>> /\ id # 0 /\ given > 0 /\ given \in Nat
  BY DEF SinkStage, SinkHeld, SinkTypes
<1>2. Gone = given
  BY <1>1, SinkSizes DEF Gone
<1>3. PICK P : Prefixes(P, n) /\ AllButTheLost(P[n], given)
  BY <1>1, <1>2 DEF SinkStored
<1>4. n \in Nat /\ (n = 0 <=> parts = <<>>) /\ \A k \in 1..n : parts[k] = k
  BY SinkSizes DEF SinkNumbers
<1>5. /\ P[0] = <<>>
      /\ \A k \in 1..n : /\ k \in DOMAIN stored[id] /\ stored[id][k] \in Seq(Nat)
                         /\ P[k] = P[k - 1] \o stored[id][k]
  BY <1>3 DEF Prefixes
<1>6. CASE n # 0
  <2>1. Sink!Acceptable
    <3>1. \A i \in 1..(n - 1) : parts[i] < parts[i + 1]
      <4> SUFFICES ASSUME NEW i \in 1..(n - 1) PROVE parts[i] < parts[i + 1]
        OBVIOUS
      <4>1. i \in 1..n /\ i + 1 \in 1..n
        BY <1>4
      <4> QED
        BY <1>4, <4>1
    <3>2. Sink!ToSet(parts) \subseteq DOMAIN stored[id]
      <4>1. DOMAIN parts = 1..n
        BY DEF SinkTypes
      <4>2. \A k \in DOMAIN parts : parts[k] \in DOMAIN stored[id]
        BY <1>4, <1>5, <4>1
      <4> QED
        BY <4>2, Zenon DEF Sink!ToSet
    <3> QED
      BY <1>4, <1>6, <3>1, <3>2 DEF Sink!Acceptable
  <2>2. Len(ss) = n /\ \A k \in 1..n : ss[k] = stored[id][k]
    BY <1>4
  <2> HIDE DEF ss
  <2>3. ss[1] \in Seq(Nat) /\ n > 0
    <3>1. n > 0 /\ 1 \in 1..n
      BY <1>4, <1>6
    <3> QED
      BY <1>5, <2>2, <3>1
  <2>4. \A k \in 1..n : P[k] = P[k - 1] \o ss[k]
    BY <1>5, <2>2
  <2>5. Sink!FlattenSeq(ss) = P[n]
    <3>1. n \in Nat /\ Len(ss) = n /\ P[0] = <<>>
      BY <1>4, <1>5, <2>2
    <3> HIDE DEF n
    <3> QED
      BY <2>3, <2>4, <3>1, FlattenIsThePrefix
  <2> QED
    BY <1>1, <1>2, <1>3, <2>1, <2>5 DEF ss
<1>7. CASE n = 0
  <2>1. ~Sink!Acceptable
    BY <1>4, <1>7 DEF Sink!Acceptable
  <2>2. P[n] = <<>>
    BY <1>5, <1>7
  <2>3. ASSUME lost = {} PROVE FALSE
    <3>1. Len(P[n]) = given
      BY <1>3, <2>3 DEF AllButTheLost
    <3>2. Len(P[n]) = 0
      BY <2>2
    <3> QED
      BY <1>1, <3>1, <3>2
  <2> QED
    BY <1>1, <1>2, <2>1, <2>3
<1> QED
  BY <1>6, <1>7

\* What each action other than OnChunk leaves alone, and where it goes.
LEMMA SinkTypesStep ==
    ASSUME SinkTypes, SinkHeld, SinkStage, SinkNumbers, SinkStored, Sink!Next
    PROVE  SinkTypes'
<1> DEFINE Numbers == /\ given' \in Nat /\ given' <= SinkChunks /\ number' \in Nat
                      /\ faults' \in Nat /\ faults' <= SinkFaults
           Buffers == buffer' \in Seq(Nat) /\ inflight' \in Seq(Nat)
           Objects == object' \in Seq(Nat) /\ parts' \in Seq(Nat)
           Stage == pc' \in SinkWaits /\ cut' \in BOOLEAN /\ starved' \in BOOLEAN
           S3 == /\ uploads' \in Seq({"open", "completed", "aborted"})
                 /\ (\E S : stored' \in Seq(S)) /\ Len(stored') = Len(uploads')
                 /\ id' \in Nat /\ id' <= Len(uploads')
                 /\ unknown' \subseteq 1..Len(uploads')
<1>a. Numbers /\ Buffers /\ Objects /\ Stage /\ S3 => SinkTypes'
  BY DEF SinkTypes
<1>b. <<>> \in Seq(Nat) /\ Len(uploads) \in Nat /\ number \in Nat /\ id \in Nat /\ id <= Len(uploads)
  BY SinkSizes DEF SinkTypes
<1>c. ASSUME UNCHANGED <<given, number>>, faults' \in Nat, faults' <= SinkFaults PROVE Numbers
  BY <1>c DEF SinkTypes
<1>d. ASSUME UNCHANGED <<uploads, stored, id>>, unknown' \subseteq unknown \cup {id}, id # 0 \/ unknown' = unknown PROVE S3
  <2>1. unknown \subseteq 1..Len(uploads)
    BY DEF SinkTypes
  <2>2. unknown' \subseteq 1..Len(uploads)
    BY <1>b, <1>d, <2>1
  <2> QED
    BY <1>d, <2>2 DEF SinkTypes
<1>e. ASSUME id # 0, id' = id, Len(uploads') = Len(uploads), (\E S : stored' \in Seq(S)),
             Len(stored') = Len(stored), uploads' \in Seq({"open", "completed", "aborted"}),
             unknown' = unknown
      PROVE  S3
  BY <1>e DEF SinkTypes
<1>f. ASSUME id # 0, NEW s \in {"open", "completed", "aborted"}
      PROVE  /\ [uploads EXCEPT ![id] = s] \in Seq({"open", "completed", "aborted"})
             /\ Len([uploads EXCEPT ![id] = s]) = Len(uploads)
  <2>1. id \in 1..Len(uploads) /\ uploads \in Seq({"open", "completed", "aborted"})
    BY <1>b, <1>f DEF SinkTypes
  <2> QED
    BY <2>1, <1>f, ExceptSeq
<1> HIDE DEF Numbers, Buffers, Objects, Stage, S3
<1>1. CASE Sink!OnChunk
  <2>1. Numbers
    <3>1. given < SinkChunks /\ given' = given + 1 /\ UNCHANGED <<number, faults>>
      BY <1>1, ChunkTaken
    <3> QED
      BY <3>1, SinkSizes DEF SinkTypes, Numbers
  <2>2. Buffers
    BY <1>1, <1>b, ChunkTaken DEF Buffers
  <2>3. Objects /\ Stage
    BY <1>1, ChunkTaken DEF SinkTypes, Objects, Stage, SinkWaits
  <2>4. S3
    BY <1>1, ChunkTaken DEF SinkTypes, S3
  <2> QED
    BY <1>a, <2>1, <2>2, <2>3, <2>4
<1>2. ASSUME NEW o \in Sink!Outcomes, Sink!Initiate(o) PROVE SinkTypes'
  <2>1. Numbers
    BY <1>2, <1>c, CallsGo DEF Sink!Initiate
  <2>2. Buffers
    BY <1>2, <1>b DEF SinkTypes, Buffers, Sink!Initiate, Sink!StartPart
  <2>3. Objects /\ Stage
    BY <1>2 DEF SinkTypes, Objects, Stage, SinkWaits, Sink!Initiate, Sink!StartPart
  <2>4. S3
    <3>0. /\ uploads' \in Seq({"open", "completed", "aborted"})
          /\ (\E S : stored' \in Seq(S)) /\ Len(stored') = Len(uploads')
          /\ Len(uploads') = IF Sink!Take(o) THEN Len(uploads) + 1 ELSE Len(uploads)
      BY <1>2, UploadBegun
    <3>1. id' \in Nat /\ id' <= Len(uploads')
      <4>1. CASE o = "answered" /\ ~cut
        BY <1>2, <1>b, <3>0, <4>1 DEF Sink!Initiate, Sink!Take
      <4>2. CASE ~ (o = "answered" /\ ~cut)
        BY <1>2, <1>b, <3>0, <4>2 DEF Sink!Initiate
      <4> QED
        BY <4>1, <4>2
    <3>2. unknown' \subseteq 1..Len(uploads')
      <4>1. unknown \subseteq 1..Len(uploads)
        BY DEF SinkTypes
      <4>2. CASE o = "answered" /\ ~cut
        <5>1. unknown' = unknown /\ Len(uploads) <= Len(uploads')
          BY <1>2, <1>b, <3>0, <4>2 DEF Sink!Initiate
        <5> QED
          BY <1>b, <3>0, <4>1, <5>1
      <4>3. CASE ~ (o = "answered" /\ ~cut)
        <5>1. unknown' = IF Sink!Take(o) THEN unknown \cup {Len(uploads) + 1} ELSE unknown
          BY <1>2, <4>3 DEF Sink!Initiate
        <5>2. CASE Sink!Take(o)
          <6>1. Len(uploads') = Len(uploads) + 1 /\ unknown' = unknown \cup {Len(uploads) + 1}
            BY <3>0, <5>1, <5>2
          <6>2. ASSUME NEW u \in unknown' PROVE u \in 1..Len(uploads')
            <7>1. u \in 1..Len(uploads) \/ u = Len(uploads) + 1
              BY <4>1, <6>1, <6>2
            <7> QED
              BY <1>b, <6>1, <7>1
          <6> QED
            BY <6>2
        <5>3. CASE ~Sink!Take(o)
          BY <3>0, <4>1, <5>1, <5>3
        <5> QED
          BY <5>2, <5>3
      <4> QED
        BY <4>2, <4>3
    <3> QED
      BY <3>0, <3>1, <3>2 DEF S3
  <2> QED
    BY <1>a, <2>1, <2>2, <2>3, <2>4
<1>3. ASSUME NEW o \in Sink!Outcomes, Sink!UploadPart(o) PROVE SinkTypes'
  <2>0. id # 0
    BY <1>3 DEF Sink!UploadPart, SinkStage
  <2>1. Numbers
    <3>1. number' \in Nat
      BY <1>3, <1>b DEF Sink!UploadPart, Sink!Numbered
    <3> QED
      BY <1>3, <3>1, CallsGo DEF Sink!UploadPart, SinkTypes, Numbers
  <2>2. Buffers
    BY <1>3, <1>b DEF SinkTypes, Buffers, Sink!UploadPart
  <2>3. Objects
    <3>1. Append(parts, number) \in Seq(Nat)
      BY <1>b DEF SinkTypes
    <3> QED
      BY <1>3, <3>1 DEF SinkTypes, Objects, Sink!UploadPart
  <2>4. Stage
    BY <1>3 DEF SinkTypes, Stage, SinkWaits, Sink!UploadPart
  <2>5. S3
    BY <1>3, <1>e, <2>0, PartStored DEF Sink!UploadPart, SinkTypes
  <2> QED
    BY <1>a, <2>1, <2>2, <2>3, <2>4, <2>5
<1>4. CASE Sink!SessionEnds
  <2>1. Numbers
    BY <1>4, <1>c DEF Sink!SessionEnds, SinkTypes
  <2>2. Buffers /\ Objects /\ Stage
    <3>1. cut' = TRUE /\ UNCHANGED <<buffer, inflight, object, parts, pc, starved>>
      BY <1>4 DEF Sink!SessionEnds, Sink!s3, Sink!history
    <3> QED
      BY <3>1 DEF SinkTypes, Buffers, Objects, Stage
  <2>3. S3
    BY <1>4, <1>d DEF Sink!SessionEnds, Sink!s3, Sink!history
  <2> QED
    BY <1>a, <2>1, <2>2, <2>3
<1>5. CASE Sink!OnSessionEnd
  <2>1. Numbers
    BY <1>5, <1>c DEF Sink!OnSessionEnd, SinkTypes
  <2>2. Buffers /\ pc' \in SinkWaits
    BY <1>5, <1>b, HowItEnds DEF SinkTypes, Buffers, SinkWaits
  <2>3. Objects /\ Stage
    BY <1>5, <2>2 DEF Sink!OnSessionEnd, Sink!s3, Sink!history, SinkTypes, Objects, Stage
  <2>4. S3
    BY <1>5, <1>d DEF Sink!OnSessionEnd, Sink!s3, Sink!history
  <2> QED
    BY <1>a, <2>1, <2>2, <2>3, <2>4
<1>6. ASSUME NEW o \in Sink!Outcomes, Sink!PutWhole(o) PROVE SinkTypes'
  <2>1. Numbers
    BY <1>6, <1>c, CallsGo DEF Sink!PutWhole
  <2>2. Buffers /\ Objects /\ Stage
    BY <1>6 DEF Sink!PutWhole, Sink!history, SinkTypes, Buffers, Objects, Stage, SinkWaits
  <2>3. S3
    BY <1>6, <1>d DEF Sink!PutWhole, Sink!history
  <2> QED
    BY <1>a, <2>1, <2>2, <2>3
<1>7. ASSUME NEW o \in Sink!Outcomes, Sink!LastPart(o) PROVE SinkTypes'
  <2>0. id # 0
    BY <1>7 DEF Sink!LastPart, SinkStage
  <2>1. Numbers
    BY <1>7, <1>c, CallsGo DEF Sink!LastPart
  <2>2. Buffers
    BY <1>7, <1>b DEF SinkTypes, Buffers, Sink!LastPart
  <2>3. Objects
    <3>1. Append(parts, number) \in Seq(Nat)
      BY <1>b DEF SinkTypes
    <3> QED
      BY <1>7, <3>1 DEF SinkTypes, Objects, Sink!LastPart
  <2>4. Stage
    BY <1>7 DEF SinkTypes, Stage, SinkWaits, Sink!LastPart, Sink!GivesUp
  <2>5. S3
    BY <1>7, <1>e, <2>0, PartStored DEF Sink!LastPart, SinkTypes
  <2> QED
    BY <1>a, <2>1, <2>2, <2>3, <2>4, <2>5
<1>8. ASSUME NEW o \in Sink!Outcomes, Sink!Complete(o) PROVE SinkTypes'
  <2>0. id # 0
    BY <1>8 DEF Sink!Complete, SinkStage
  <2>1. Numbers
    BY <1>8, <1>c, CallsGo DEF Sink!Complete
  <2>a. object' \in Seq(Nat)
    <3>1. CASE Sink!Acceptable /\ Sink!Take(o)
      <4>1. object' = Sink!FlattenSeq([i \in 1..Len(parts) |-> stored[id][parts[i]]])
        BY <1>8, <3>1 DEF Sink!Complete
      <4>2. AllButTheLost(object', given)
        BY <1>8, <3>1, <4>1, PutTogether DEF Sink!Complete
      <4> QED
        BY <4>2 DEF AllButTheLost
    <3>2. CASE ~ (Sink!Acceptable /\ Sink!Take(o))
      BY <1>8, <3>2 DEF Sink!Complete, SinkTypes
    <3> QED
      BY <3>1, <3>2
  <2>2. Buffers /\ Objects /\ Stage
    <3>1. /\ UNCHANGED <<buffer, inflight, parts, cut, starved>>
          /\ pc' \in {"done", "aborting"}
      BY <1>8 DEF Sink!Complete, Sink!history, Sink!GivesUp
    <3> QED
      BY <2>a, <3>1 DEF SinkTypes, Buffers, Objects, Stage, SinkWaits
  <2>3. S3
    <3>1. uploads' \in Seq({"open", "completed", "aborted"}) /\ Len(uploads') = Len(uploads)
      BY <1>8, <1>f, <2>0 DEF Sink!Complete, SinkTypes
    <3> QED
      BY <1>8, <1>e, <2>0, <3>1 DEF Sink!Complete, Sink!history, SinkTypes
  <2> QED
    BY <1>a, <2>1, <2>2, <2>3
<1>9. ASSUME NEW o \in Sink!Outcomes, Sink!Abort(o) PROVE SinkTypes'
  <2>0. id # 0
    BY <1>9 DEF Sink!Abort, SinkStage
  <2>1. Numbers
    BY <1>9, <1>c, CallsGo DEF Sink!Abort
  <2>2. Buffers /\ Objects /\ Stage
    BY <1>9 DEF Sink!Abort, SinkTypes, Buffers, Objects, Stage, SinkWaits
  <2>3. S3
    <3>1. uploads' \in Seq({"open", "completed", "aborted"}) /\ Len(uploads') = Len(uploads)
      BY <1>9, <1>f, <2>0 DEF Sink!Abort, SinkTypes
    <3>2. unknown' \subseteq unknown \cup {id} /\ UNCHANGED <<stored, id>>
      BY <1>9 DEF Sink!Abort
    <3>3. unknown' \subseteq 1..Len(uploads')
      <4>1. unknown \subseteq 1..Len(uploads)
        BY DEF SinkTypes
      <4> QED
        BY <1>b, <2>0, <3>1, <3>2, <4>1
    <3> QED
      BY <3>1, <3>2, <3>3 DEF SinkTypes, S3
  <2> QED
    BY <1>a, <2>1, <2>2, <2>3
<1> QED
  BY <1>1, <1>2, <1>3, <1>4, <1>5, <1>6, <1>7, <1>8, <1>9 DEF Sink!Next, Sink!Calls

\* What the calls do to the buffer and to the part in flight.
LEMMA CallsOfS3 ==
    ASSUME SinkTypes, SinkHeld, SinkStage, NEW o \in Sink!Outcomes, Sink!Calls(o)
    PROVE  /\ given' = given /\ cut' = cut
           /\ \/ /\ Sink!Initiate(o) /\ pc = "initiating" /\ inflight = <<>> /\ buffer # <<>>
                 /\ \/ /\ o = "answered" /\ ~cut /\ inflight' = buffer /\ buffer' = <<>>
                       /\ pc' = "uploading" /\ id' = Len(uploads) + 1 /\ unknown' = unknown
                       /\ starved' = starved
                    \/ pc' = "idle" /\ UNCHANGED <<id, buffer, inflight>> /\ starved' = TRUE
              \/ /\ Sink!UploadPart(o) /\ pc = "uploading" /\ inflight # <<>> /\ buffer = <<>>
                 /\ inflight' = <<>> /\ buffer' = <<>> /\ pc' = "idle" /\ id' = id
                 /\ starved' = starved
              \/ /\ Sink!LastPart(o) /\ pc = "last part" /\ inflight # <<>> /\ buffer = <<>>
                 /\ inflight' = <<>> /\ buffer' = <<>> /\ pc' \in {"completing", "aborting"}
                 /\ id' = id /\ starved' = starved /\ cut
              \/ /\ Sink!PutWhole(o) /\ pc = "putting" /\ inflight = <<>> /\ pc' = "done"
                 /\ UNCHANGED <<id, buffer, inflight, starved>> /\ cut
              \/ /\ Sink!Complete(o) /\ pc = "completing" /\ inflight = <<>> /\ buffer = <<>>
                 /\ pc' \in {"done", "aborting"} /\ UNCHANGED <<id, buffer, inflight, starved>>
                 /\ cut
              \/ /\ Sink!Abort(o) /\ pc = "aborting" /\ inflight = <<>> /\ buffer = <<>>
                 /\ pc' = "done" /\ UNCHANGED <<id, buffer, inflight, starved>> /\ cut
<1>1. CASE Sink!Initiate(o)
  <2>1. /\ given' = given /\ cut' = cut /\ pc = "initiating"
        /\ \/ /\ o = "answered" /\ ~cut /\ inflight' = buffer /\ buffer' = <<>>
              /\ pc' = "uploading" /\ id' = Len(uploads) + 1 /\ unknown' = unknown
              /\ starved' = starved
           \/ pc' = "idle" /\ UNCHANGED <<id, buffer, inflight>> /\ starved' = TRUE
    BY <1>1 DEF Sink!Initiate, Sink!StartPart
  <2>2. inflight = <<>> /\ buffer # <<>>
    BY <2>1 DEF SinkHeld, SinkStage
  <2> QED
    BY <1>1, <2>1, <2>2
<1>2. CASE Sink!UploadPart(o)
  <2>1. /\ given' = given /\ cut' = cut /\ pc = "uploading" /\ inflight' = <<>> /\ buffer' = buffer
        /\ pc' = "idle" /\ id' = id /\ starved' = starved
    BY <1>2 DEF Sink!UploadPart
  <2>2. inflight # <<>> /\ buffer = <<>>
    BY <2>1 DEF SinkHeld
  <2> QED
    BY <1>2, <2>1, <2>2
<1>3. CASE Sink!LastPart(o)
  <2>1. /\ given' = given /\ cut' = cut /\ pc = "last part" /\ inflight' = <<>> /\ buffer' = buffer
        /\ pc' \in {"completing", "aborting"} /\ id' = id /\ starved' = starved
    BY <1>3 DEF Sink!LastPart, Sink!GivesUp
  <2>2. inflight # <<>> /\ buffer = <<>> /\ cut
    BY <2>1 DEF SinkHeld, SinkStage
  <2> QED
    BY <1>3, <2>1, <2>2
<1>4. CASE Sink!PutWhole(o)
  BY <1>4 DEF Sink!PutWhole, Sink!history, SinkHeld, SinkStage
<1>5. CASE Sink!Complete(o)
  <2>1. /\ given' = given /\ cut' = cut /\ pc = "completing"
        /\ pc' \in {"done", "aborting"} /\ UNCHANGED <<id, buffer, inflight, starved>>
    BY <1>5 DEF Sink!Complete, Sink!history, Sink!GivesUp
  <2>2. inflight = <<>> /\ buffer = <<>> /\ cut
    BY <2>1 DEF SinkHeld, SinkStage
  <2> QED
    BY <1>5, <2>1, <2>2
<1>6. CASE Sink!Abort(o)
  <2>1. /\ given' = given /\ cut' = cut /\ pc = "aborting"
        /\ pc' = "done" /\ UNCHANGED <<id, buffer, inflight, starved>>
    BY <1>6 DEF Sink!Abort
  <2>2. inflight = <<>> /\ buffer = <<>> /\ cut
    BY <2>1 DEF SinkHeld, SinkStage
  <2> QED
    BY <1>6, <2>1, <2>2
<1> QED
  BY <1>1, <1>2, <1>3, <1>4, <1>5, <1>6 DEF Sink!Calls

LEMMA SinkHeldStep ==
    ASSUME SinkTypes, SinkHeld, SinkStage, Sink!Next
    PROVE  SinkHeld'
<1>a. /\ given \in Nat /\ Len(buffer) \in Nat /\ Len(inflight) \in Nat /\ Len(<<>>) = 0
      /\ Len(buffer) <= given /\ Len(inflight) <= given
      /\ (\A i \in 1..Len(buffer) : buffer[i] = given - Len(buffer) + i)
      /\ (\A i \in 1..Len(inflight) : inflight[i] = given - Len(inflight) + i)
  <2>1. given \in Nat /\ Len(buffer) \in Nat /\ Len(inflight) \in Nat
    BY SinkSizes DEF SinkTypes
  <2>2. /\ Len(buffer) <= given /\ Len(inflight) <= given
        /\ (\A i \in 1..Len(buffer) : buffer[i] = given - Len(buffer) + i)
        /\ (\A i \in 1..Len(inflight) : inflight[i] = given - Len(inflight) + i)
    BY DEF SinkHeld
  <2> QED
    BY <2>1, <2>2
<1>b. ASSUME given' = given,
             buffer' = buffer \/ buffer' = <<>>,
             inflight' = inflight \/ inflight' = <<>> \/ inflight' = buffer,
             IF pc' \in {"uploading", "last part"} THEN inflight' # <<>> /\ buffer' = <<>>
             ELSE inflight' = <<>>
      PROVE  SinkHeld'
  <2>1. Len(buffer') <= given /\ \A i \in 1..Len(buffer') : buffer'[i] = given - Len(buffer') + i
    <3>1. CASE buffer' = buffer
      BY <1>a, <3>1
    <3>2. CASE buffer' = <<>>
      BY <1>a, <3>2
    <3> QED
      BY <1>b, <3>1, <3>2
  <2>2. /\ Len(inflight') <= given
        /\ \A i \in 1..Len(inflight') : inflight'[i] = given - Len(inflight') + i
    <3>1. CASE inflight' = inflight
      BY <1>a, <3>1
    <3>2. CASE inflight' = <<>>
      BY <1>a, <3>2
    <3>3. CASE inflight' = buffer
      BY <1>a, <3>3
    <3> QED
      BY <1>b, <3>1, <3>2, <3>3
  <2> QED
    BY <1>b, <2>1, <2>2 DEF SinkHeld
<1>1. CASE Sink!OnChunk
  <2> DEFINE data == Append(buffer, given + 1)
  <2>1. /\ given' = given + 1 /\ Len(data) = Len(buffer) + 1
        /\ \A i \in 1..(Len(buffer) + 1) : data[i] = (given + 1) - (Len(buffer) + 1) + i
        /\ \/ buffer' = data /\ inflight' = <<>> /\ pc' \in {"idle", "initiating"}
           \/ inflight' = data /\ buffer' = <<>> /\ pc' = "uploading"
    BY <1>1, ChunkTaken
  <2> HIDE DEF data
  <2>2. data # <<>> /\ Len(data) <= given'
    <3>1. Len(data) # 0
      BY <1>a, <2>1
    <3> QED
      BY <1>a, <2>1, <3>1
  <2>a. /\ \A i \in 1..Len(data) : data[i] = given' - Len(data) + i
        /\ \A i \in 1..Len(<<>>) : <<>>[i] = given' - Len(<<>>) + i
        /\ Len(<<>>) <= given'
    BY <1>a, <2>1
  <2>3. CASE buffer' = data /\ inflight' = <<>> /\ pc' \in {"idle", "initiating"}
    <3>1. ~ (pc' \in {"uploading", "last part"})
      BY <2>3
    <3> HIDE <2>1
    <3> QED
      BY <2>2, <2>a, <2>3, <3>1 DEF SinkHeld
  <2>4. CASE inflight' = data /\ buffer' = <<>> /\ pc' = "uploading"
    <3> HIDE <2>1
    <3> QED
      BY <2>2, <2>a, <2>4 DEF SinkHeld
  <2> QED
    BY <2>1, <2>3, <2>4
<1>2. CASE Sink!SessionEnds
  BY <1>2, <1>b DEF Sink!SessionEnds, Sink!s3, Sink!history, SinkHeld
<1>3. CASE Sink!OnSessionEnd
  BY <1>3, <1>b, HowItEnds
<1>4. ASSUME NEW o \in Sink!Outcomes, Sink!Calls(o) PROVE SinkHeld'
  BY <1>4, <1>b, CallsOfS3
<1> QED
  BY <1>1, <1>2, <1>3, <1>4 DEF Sink!Next

LEMMA SinkNumbersStep ==
    ASSUME SinkTypes, SinkHeld, SinkStage, SinkNumbers, Sink!Next
    PROVE  SinkNumbers' /\ (id' = 0 => parts' = <<>>)
<1>a. /\ given \in Nat /\ Len(buffer) \in Nat /\ Len(inflight) \in Nat /\ Len(<<>>) = 0
      /\ Len(parts) \in Nat /\ number \in Nat /\ (inflight = <<>> <=> Len(inflight) = 0)
      /\ (\A k \in 1..Len(parts) : parts[k] = k) /\ parts \in Seq(Nat)
      /\ Len(parts) <= Gone /\ number \in {Len(parts), Len(parts) + 1} /\ number > 0
      /\ (pc \in {"idle", "initiating", "uploading", "last part"} => number = Len(parts) + 1)
      /\ (id = 0 => parts = <<>>)
  BY SinkSizes DEF SinkTypes, SinkNumbers, SinkStage
<1>b. ASSUME number' = number, parts' = parts, Gone' = Gone, id' = id \/ id' # 0,
             pc' \in {"idle", "initiating", "uploading", "last part"} =>
                pc \in {"idle", "initiating", "uploading", "last part"}
      PROVE  SinkNumbers' /\ (id' = 0 => parts' = <<>>)
  BY <1>a, <1>b DEF SinkNumbers
<1>c. ASSUME number = Len(parts) + 1, inflight # <<>>, inflight' = <<>>, buffer = <<>>, buffer' = <<>>,
             given' = given
      PROVE  Gone = given - Len(inflight) /\ Gone' = given /\ Len(parts) + 1 <= Gone'
  BY <1>a, <1>c DEF Gone
<1>d. ASSUME number = Len(parts) + 1, parts' = Append(parts, number), Len(parts) + 1 <= Gone'
      PROVE  /\ Len(parts') = Len(parts) + 1 /\ Len(parts') <= Gone'
             /\ \A k \in 1..Len(parts') : parts'[k] = k
  <2>1. /\ Len(parts') = Len(parts) + 1 /\ parts'[Len(parts) + 1] = number
        /\ \A k \in 1..Len(parts) : parts'[k] = parts[k]
    BY <1>a, <1>d, AppendProperties
  <2>2. ASSUME NEW k \in 1..(Len(parts) + 1) PROVE parts'[k] = k
    <3>1. CASE k = Len(parts) + 1
      BY <1>d, <2>1, <3>1
    <3>2. CASE k \in 1..Len(parts)
      BY <1>a, <2>1, <3>2
    <3>3. k = Len(parts) + 1 \/ k \in 1..Len(parts)
      <4>1. Len(parts) \in Nat
        BY <1>a
      <4> HIDE <2>1
      <4> QED
        BY <4>1
    <3> QED
      BY <3>1, <3>2, <3>3
  <2> QED
    BY <1>d, <2>1, <2>2
<1>1. CASE Sink!OnChunk
  <2>1. UNCHANGED <<number, parts, id>> /\ Gone' = Gone /\ pc = "idle"
    BY <1>1, ChunkTaken
  <2> QED
    BY <1>b, <2>1
<1>2. CASE Sink!SessionEnds
  <2>1. UNCHANGED <<number, parts, id, pc, given, buffer, inflight>>
    BY <1>2 DEF Sink!SessionEnds
  <2>2. Gone' = Gone
    BY <2>1 DEF Gone
  <2> QED
    BY <1>b, <2>1, <2>2
<1>3. CASE Sink!OnSessionEnd
  <2>1. UNCHANGED <<number, parts, id, given>> /\ pc = "idle"
    BY <1>3, HowItEnds
  <2>2. Gone' = Gone
    <3>1. \/ UNCHANGED <<buffer, inflight>>
          \/ inflight = <<>> /\ inflight' = buffer /\ buffer' = <<>>
      BY <1>3, HowItEnds
    <3>2. CASE UNCHANGED <<buffer, inflight>>
      BY <2>1, <3>2 DEF Gone
    <3>3. CASE inflight = <<>> /\ inflight' = buffer /\ buffer' = <<>>
      BY <1>a, <2>1, <3>3 DEF Gone
    <3> QED
      BY <3>1, <3>2, <3>3
  <2> QED
    BY <1>b, <2>1, <2>2
<1>4. ASSUME NEW o \in Sink!Outcomes, Sink!Calls(o) PROVE SinkNumbers' /\ (id' = 0 => parts' = <<>>)
  <2>1. CASE Sink!Initiate(o)
    <3>1. UNCHANGED <<number, parts, given>> /\ pc = "initiating"
      BY <2>1 DEF Sink!Initiate
    <3>2. /\ inflight = <<>>
          /\ \/ inflight' = buffer /\ buffer' = <<>> /\ id' = Len(uploads) + 1
             \/ UNCHANGED <<id, buffer, inflight>>
      BY <1>4, <3>1, CallsOfS3
    <3>3. Gone' = Gone
      <4>1. CASE inflight' = buffer /\ buffer' = <<>>
        BY <1>a, <3>1, <3>2, <4>1 DEF Gone
      <4>2. CASE UNCHANGED <<buffer, inflight>>
        BY <3>1, <4>2 DEF Gone
      <4> QED
        BY <3>2, <4>1, <4>2
    <3>4. id' = id \/ id' # 0
      BY <3>2, SinkSizes
    <3> QED
      BY <1>b, <3>1, <3>3, <3>4
  <2>2. CASE Sink!UploadPart(o)
    <3>1. /\ pc = "uploading" /\ inflight # <<>> /\ buffer = <<>> /\ inflight' = <<>>
          /\ buffer' = <<>> /\ given' = given /\ id' = id /\ id # 0
      BY <1>4, <2>2, CallsOfS3 DEF Sink!UploadPart, SinkStage
    <3>2. number = Len(parts) + 1 /\ Gone' = given /\ Len(parts) + 1 <= Gone'
      BY <1>a, <1>c, <3>1
    <3>3. CASE parts' = Append(parts, number) /\ number' = number + 1
      BY <1>a, <1>d, <3>1, <3>2, <3>3 DEF SinkNumbers
    <3>4. CASE parts' = parts /\ number' = number
      <4>1. /\ Len(parts') <= Gone' /\ number' = Len(parts') + 1 /\ number' > 0
            /\ \A k \in 1..Len(parts') : parts'[k] = k
        <5>1. Gone' \in Nat
          BY <1>a, <3>2
        <5> QED
          BY <1>a, <3>2, <3>4, <5>1
      <4> QED
        BY <3>1, <4>1 DEF SinkNumbers
    <3> QED
      BY <2>2, <3>3, <3>4 DEF Sink!UploadPart, Sink!Numbered
  <2>3. CASE Sink!LastPart(o)
    <3>1. /\ pc = "last part" /\ inflight # <<>> /\ buffer = <<>> /\ inflight' = <<>>
          /\ buffer' = <<>> /\ given' = given /\ id' = id /\ id # 0
          /\ pc' \in {"completing", "aborting"} /\ number' = number
      BY <1>4, <2>3, CallsOfS3 DEF Sink!LastPart, SinkStage
    <3>2. number = Len(parts) + 1 /\ Gone' = given /\ Len(parts) + 1 <= Gone'
      BY <1>a, <1>c, <3>1
    <3>3. CASE parts' = Append(parts, number)
      BY <1>a, <1>d, <3>1, <3>2, <3>3 DEF SinkNumbers
    <3>4. CASE parts' = parts
      <4>1. /\ Len(parts') <= Gone' /\ number' = Len(parts') + 1 /\ number' > 0
            /\ \A k \in 1..Len(parts') : parts'[k] = k
        <5>1. Gone' \in Nat /\ number' = number
          BY <1>a, <3>1, <3>2
        <5> QED
          BY <1>a, <3>2, <3>4, <5>1
      <4> QED
        BY <3>1, <4>1 DEF SinkNumbers
    <3> QED
      BY <2>3, <3>3, <3>4 DEF Sink!LastPart
  <2>4. CASE Sink!PutWhole(o) \/ Sink!Complete(o) \/ Sink!Abort(o)
    <3>1. UNCHANGED <<number, parts, given, id, buffer, inflight>> /\ pc' \in {"done", "aborting"}
      BY <2>4 DEF Sink!PutWhole, Sink!Complete, Sink!Abort, Sink!GivesUp
    <3>2. Gone' = Gone
      BY <3>1 DEF Gone
    <3> QED
      BY <1>b, <3>1, <3>2
  <2> QED
    BY <1>4, <2>1, <2>2, <2>3, <2>4 DEF Sink!Calls
<1> QED
  BY <1>1, <1>2, <1>3, <1>4 DEF Sink!Next

LEMMA PrefixesKept ==
    ASSUME NEW P, NEW n \in Nat, Prefixes(P, n), id' = id,
           \A k \in 1..n : k \in DOMAIN stored[id] =>
              k \in DOMAIN stored'[id] /\ stored'[id][k] = stored[id][k]
    PROVE  Prefixes(P, n)'
BY DEF Prefixes

\* A part goes the way of those before it, or is lost.
LEMMA PartGoes ==
    ASSUME SinkTypes, SinkHeld, SinkStage, SinkNumbers, SinkStored, inflight # <<>>,
           buffer = <<>>, inflight' = <<>>, buffer' = <<>>, given' = given, id # 0, id' = id,
           number = Len(parts) + 1, NEW o, Sink!StorePart(o),
           \/ o = "answered" /\ parts' = Append(parts, number) /\ lost' = lost
           \/ parts' = parts /\ lost' = lost \cup Sink!ToSet(inflight)
    PROVE  SinkStored' /\ (parts' = parts => lost' # {})
<1>0. PICK n \in Nat, m \in Nat, d \in Seq(Nat) : n = Len(parts) /\ m = Gone /\ d = inflight
  <2>1. Len(parts) \in Nat /\ inflight \in Seq(Nat)
    BY SinkSizes DEF SinkTypes
  <2>2. Gone \in Nat
    <3>1. /\ given \in Nat /\ Len(inflight) \in Nat /\ Len(buffer) = 0
          /\ Len(inflight) <= given
      BY SinkSizes DEF SinkTypes, SinkHeld
    <3> QED
      BY <3>1 DEF Gone
  <2> QED
    BY <2>1, <2>2
<1>1. /\ Len(d) \in Nat /\ Len(d) > 0
      /\ m + Len(d) = given /\ Gone' = given /\ given \in Nat /\ number = n + 1
      /\ parts \in Seq(Nat)
  <2>1. /\ given \in Nat /\ Len(inflight) \in Nat /\ Len(inflight) # 0 /\ Len(buffer) = 0
        /\ parts \in Seq(Nat) /\ Len(inflight) <= given
    BY SinkSizes DEF SinkTypes, SinkHeld
  <2>2. Gone = given - Len(inflight) /\ Gone' = given
    BY <2>1 DEF Gone
  <2> QED
    BY <1>0, <2>1, <2>2
<1>2. \A i \in 1..Len(d) : d[i] = m + i
  <2>1. \A i \in 1..Len(inflight) : inflight[i] = given - Len(inflight) + i
    BY DEF SinkHeld
  <2>2. given - Len(inflight) = m
    BY <1>0, <1>1
  <2> QED
    BY <1>0, <2>1, <2>2
<1>3. \A c \in lost : c \in Nat /\ 0 < c /\ c <= m
  BY <1>0 DEF SinkStored
<1>4. PICK P : Prefixes(P, n) /\ AllButTheLost(P[n], m)
  BY <1>0 DEF SinkStored
<1>5. /\ \A k \in 1..n : k \in DOMAIN stored[id] =>
            k \in DOMAIN stored'[id] /\ stored'[id][k] = stored[id][k]
      /\ Sink!Take(o) => number \in DOMAIN stored'[id] /\ stored'[id][number] = inflight
  <2>1. /\ \A k \in 1..n : k \in DOMAIN stored[id] /\ k # number =>
              k \in DOMAIN stored'[id] /\ stored'[id][k] = stored[id][k]
        /\ Sink!Take(o) => number \in DOMAIN stored'[id] /\ stored'[id][number] = inflight
    BY <1>0, PartStored
  <2>2. \A k \in 1..n : k # number
    BY <1>1
  <2> QED
    BY <1>0, <2>1, <2>2
<1>6. Prefixes(P, n)'
  BY <1>1, <1>4, <1>5, PrefixesKept
<1>7. CASE o = "answered" /\ parts' = Append(parts, number) /\ lost' = lost
  <2> DEFINE Q == [k \in 0..(n + 1) |-> IF k = n + 1 THEN P[n] \o d ELSE P[k]]
  <2>1. Len(parts') = n + 1 /\ Len(parts') # Len(parts)
    BY <1>0, <1>1, <1>7
  <2>2. /\ Q[0] = P[0] /\ Q[n + 1] = P[n] \o d /\ Q[n] = P[n]
        /\ \A k \in 1..n : Q[k] = P[k] /\ Q[k - 1] = P[k - 1]
    <3>1. 0 \in 0..(n + 1) /\ 0 # n + 1 /\ n + 1 \in 0..(n + 1) /\ n \in 0..(n + 1) /\ n # n + 1
      BY <1>1
    <3>2. \A k \in 1..n : k \in 0..(n + 1) /\ k # n + 1 /\ k - 1 \in 0..(n + 1) /\ k - 1 # n + 1
      BY <1>1
    <3> QED
      BY <3>1, <3>2
  <2> HIDE DEF Q
  <2>3. /\ P[0] = <<>>
        /\ \A k \in 1..n : /\ k \in DOMAIN stored'[id'] /\ stored'[id'][k] \in Seq(Nat)
                           /\ P[k] = P[k - 1] \o stored'[id'][k]
    BY <1>6 DEF Prefixes
  <2>4. n + 1 \in DOMAIN stored'[id'] /\ stored'[id'][n + 1] = d /\ d \in Seq(Nat)
    BY <1>0, <1>1, <1>5, <1>7 DEF Sink!Take
  <2>5. Prefixes(Q, n + 1)'
    <3>1. ASSUME NEW k \in 1..(n + 1)
          PROVE  /\ k \in DOMAIN stored'[id'] /\ stored'[id'][k] \in Seq(Nat)
                 /\ Q[k] = Q[k - 1] \o stored'[id'][k]
      <4>1. CASE k = n + 1
        <5>1. k - 1 = n
          BY <1>1, <4>1
        <5> QED
          BY <2>2, <2>4, <4>1, <5>1
      <4>2. CASE k \in 1..n
        BY <2>2, <2>3, <4>2
      <4>3. k = n + 1 \/ k \in 1..n
        BY <1>1
      <4> QED
        BY <4>1, <4>2, <4>3
    <3> QED
      BY <2>2, <2>3, <3>1 DEF Prefixes
  <2>6. AllButTheLost(Q[n + 1], given)
    <3>1. AllButTheLost(P[n] \o d, m + Len(d))
      BY <1>1, <1>2, <1>3, <1>4, OneMorePart
    <3> QED
      BY <1>1, <2>2, <3>1
  <2>7. AllButTheLost(Q[n + 1], given)'
    <3>1. given' = given /\ lost' = lost
      BY <1>7
    <3> QED
      BY <2>6, <3>1 DEF AllButTheLost
  <2>8. \A c \in lost' : c \in Nat /\ 0 < c /\ c <= Gone'
    BY <1>1, <1>3, <1>7
  <2>9. (Prefixes(Q, Len(parts)) /\ AllButTheLost(Q[Len(parts)], Gone))'
    <3>1. AllButTheLost(Q[n + 1], Gone)'
      BY <1>1, <2>7
    <3> QED
      BY <2>1, <2>5, <3>1
  <2>10. SinkStored'
    BY <2>8, <2>9 DEF SinkStored
  <2> QED
    BY <2>1, <2>10
<1>8. CASE parts' = parts /\ lost' = lost \cup Sink!ToSet(inflight)
  <2>1. /\ AllButTheLost(P[n], m + Len(d))' /\ lost' # {}
        /\ \A c \in lost' : c \in Nat /\ c <= m + Len(d) /\ (c \in lost \/ 0 < c)
    <3>1. d # <<>> /\ lost' = lost \cup Sink!ToSet(d)
      BY <1>0, <1>1, <1>8
    <3> QED
      BY <1>1, <1>2, <1>3, <1>4, <3>1, OneLostPart
  <2>2. \A c \in lost' : c \in Nat /\ 0 < c /\ c <= Gone'
    BY <1>1, <1>3, <2>1
  <2>3. (Prefixes(P, Len(parts)) /\ AllButTheLost(P[Len(parts)], Gone))'
    <3>1. AllButTheLost(P[n], Gone)'
      BY <1>1, <2>1
    <3> QED
      BY <1>0, <1>6, <1>8, <3>1
  <2> QED
    BY <2>1, <2>2, <2>3 DEF SinkStored
<1> QED
  BY <1>7, <1>8

\* Only a part uploaded changes what is stored, and only one lost loses chunks.
LEMMA SinkStoredStep ==
    ASSUME SinkTypes, SinkHeld, SinkStage, SinkNumbers, SinkStored, Sink!Next
    PROVE  SinkStored' /\ (lost # {} => lost' # {}) /\ (id' = 0 => lost' = {})
<1>a. /\ given \in Nat /\ Len(buffer) \in Nat /\ Len(inflight) \in Nat /\ Len(<<>>) = 0
      /\ (id = 0 => lost = {} /\ Len(buffer) = given /\ parts = <<>>)
  BY SinkSizes DEF SinkTypes, SinkStage
<1>b. ASSUME UNCHANGED <<id, parts, stored, lost>>, Gone' = Gone
      PROVE  SinkStored' /\ (lost # {} => lost' # {}) /\ (id' = 0 => lost' = {})
  <2>1. \A c \in lost' : c \in Nat /\ 0 < c /\ c <= Gone'
    BY <1>b DEF SinkStored
  <2>2. ASSUME id' # 0
        PROVE  \E P : (Prefixes(P, Len(parts)) /\ AllButTheLost(P[Len(parts)], Gone))'
    <3>1. PICK P : Prefixes(P, Len(parts)) /\ AllButTheLost(P[Len(parts)], Gone)
      BY <1>b, <2>2 DEF SinkStored
    <3>2. Prefixes(P, Len(parts))'
      BY <1>b, <3>1 DEF Prefixes
    <3>3. AllButTheLost(P[Len(parts)], Gone)'
      BY <1>b, <3>1 DEF AllButTheLost
    <3> QED
      BY <3>2, <3>3
  <2> QED
    BY <1>a, <1>b, <2>1, <2>2 DEF SinkStored
<1>c. ASSUME given' = given, \/ UNCHANGED <<buffer, inflight>>
                             \/ inflight = <<>> /\ inflight' = buffer /\ buffer' = <<>>
      PROVE  Gone' = Gone
  <2>1. CASE UNCHANGED <<buffer, inflight>>
    BY <1>c, <2>1 DEF Gone
  <2>2. CASE inflight = <<>> /\ inflight' = buffer /\ buffer' = <<>>
    BY <1>a, <1>c, <2>2 DEF Gone
  <2> QED
    BY <1>c, <2>1, <2>2
<1>1. CASE Sink!OnChunk
  <2>1. UNCHANGED <<id, parts, stored, lost>> /\ Gone' = Gone
    BY <1>1, ChunkTaken
  <2> QED
    BY <1>b, <2>1
<1>2. CASE Sink!SessionEnds
  <2>1. UNCHANGED <<given, buffer, inflight, id, parts, stored, lost>>
    BY <1>2 DEF Sink!SessionEnds, Sink!s3, Sink!history
  <2> QED
    BY <1>b, <1>c, <2>1
<1>3. CASE Sink!OnSessionEnd
  <2>1. UNCHANGED <<given, id, parts, stored, lost>>
    BY <1>3, HowItEnds
  <2>2. Gone' = Gone
    BY <1>3, <1>c, HowItEnds
  <2> QED
    BY <1>b, <2>1, <2>2
<1>4. ASSUME NEW o \in Sink!Outcomes, Sink!Initiate(o)
      PROVE  SinkStored' /\ (lost # {} => lost' # {}) /\ (id' = 0 => lost' = {})
  <2>1. /\ UNCHANGED <<given, parts, lost>> /\ pc = "initiating"
    BY <1>4 DEF Sink!Initiate
  <2>2. id = 0 /\ lost = {} /\ parts = <<>> /\ Len(buffer) = given /\ inflight = <<>>
    BY <1>a, <2>1 DEF SinkStage, SinkHeld
  <2>3. /\ \/ inflight' = buffer /\ buffer' = <<>> /\ id' = Len(uploads) + 1
           \/ UNCHANGED <<id, buffer, inflight>>
    BY <1>4, CallsOfS3 DEF Sink!Calls, Sink!LastPart, Sink!UploadPart, Sink!PutWhole, Sink!Complete, Sink!Abort, Sink!Initiate
  <2>4. Gone' = Gone /\ Gone = 0
    <3>1. Gone = 0
      <4>1. Len(inflight) = 0 /\ Len(buffer) = given /\ given \in Nat
        BY <1>a, <2>2
      <4> QED
        BY <4>1 DEF Gone
    <3> QED
      BY <1>c, <2>1, <2>2, <2>3, <3>1
  <2> DEFINE P == [k \in {0} |-> <<>>]
  <2>5. P[0] = <<>> /\ Len(parts') = 0
    BY <2>1, <2>2
  <2> HIDE DEF P
  <2>6. Prefixes(P, Len(parts))'
    BY <2>5 DEF Prefixes
  <2>7. AllButTheLost(P[Len(parts)], Gone)'
    <3>1. lost' = {} /\ P[Len(parts')] = <<>> /\ Gone' = 0
      BY <2>1, <2>2, <2>4, <2>5
    <3>2. /\ <<>> \in Seq(Nat) /\ Sink!Increasing(<<>>) /\ Len(<<>>) = 0
      BY DEF Sink!Increasing
    <3>3. \A c \in Nat : (\E i \in 1..Len(<<>>) : <<>>[i] = c) <=> 0 < c /\ c <= 0 /\ c \notin {}
      BY <3>2
    <3>4. \A i \in 1..0 : <<>>[i] = i
      OBVIOUS
    <3> QED
      BY <3>1, <3>2, <3>3, <3>4 DEF AllButTheLost
  <2> QED
    BY <2>1, <2>2, <2>6, <2>7 DEF SinkStored
<1>5. ASSUME NEW o \in Sink!Outcomes, Sink!UploadPart(o)
      PROVE  SinkStored' /\ (lost # {} => lost' # {}) /\ (id' = 0 => lost' = {})
  <2>1. /\ UNCHANGED <<given, id, buffer>> /\ inflight' = <<>> /\ Sink!StorePart(o)
        /\ pc = "uploading"
        /\ \/ o = "answered" /\ parts' = Append(parts, number) /\ lost' = lost
           \/ parts' = parts /\ lost' = lost \cup Sink!ToSet(inflight)
    BY <1>5 DEF Sink!UploadPart
  <2>2. id # 0 /\ inflight # <<>> /\ buffer = <<>> /\ number = Len(parts) + 1
    BY <2>1 DEF SinkStage, SinkHeld, SinkNumbers
  <2>3. SinkStored'
    BY <2>1, <2>2, PartGoes
  <2> QED
    BY <2>1, <2>2, <2>3
<1>6. ASSUME NEW o \in Sink!Outcomes, Sink!LastPart(o)
      PROVE  SinkStored' /\ (lost # {} => lost' # {}) /\ (id' = 0 => lost' = {})
  <2>1. /\ UNCHANGED <<given, id, buffer>> /\ inflight' = <<>> /\ Sink!StorePart(o)
        /\ pc = "last part"
        /\ \/ o = "answered" /\ parts' = Append(parts, number) /\ lost' = lost
           \/ parts' = parts /\ lost' = lost \cup Sink!ToSet(inflight)
    BY <1>6 DEF Sink!LastPart
  <2>2. id # 0 /\ inflight # <<>> /\ buffer = <<>> /\ number = Len(parts) + 1
    BY <2>1 DEF SinkStage, SinkHeld, SinkNumbers
  <2>3. SinkStored'
    BY <2>1, <2>2, PartGoes
  <2> QED
    BY <2>1, <2>2, <2>3
<1>7. ASSUME NEW o \in Sink!Outcomes, Sink!PutWhole(o) \/ Sink!Complete(o) \/ Sink!Abort(o)
      PROVE  SinkStored' /\ (lost # {} => lost' # {}) /\ (id' = 0 => lost' = {})
  <2>1. UNCHANGED <<given, buffer, inflight, id, parts, stored, lost>>
    BY <1>7 DEF Sink!PutWhole, Sink!Complete, Sink!Abort, Sink!history
  <2> QED
    BY <1>b, <1>c, <2>1
<1> QED
  BY <1>1, <1>2, <1>3, <1>4, <1>5, <1>6, <1>7 DEF Sink!Next, Sink!Calls

\* What the first chunks are, with none lost.
LEMMA HeldIsWhole ==
    ASSUME SinkTypes, SinkHeld, lost = {}, Len(buffer) = given
    PROVE  AllButTheLost(buffer, given)
<1>1. /\ given \in Nat /\ buffer \in Seq(Nat) /\ Len(buffer) = given
      /\ \A i \in 1..given : buffer[i] = given - given + i
  BY DEF SinkTypes, SinkHeld
<1>2. \A i \in 1..given : buffer[i] = i
  BY <1>1
<1>3. Sink!Increasing(buffer)
  BY <1>1, <1>2 DEF Sink!Increasing
<1>4. \A c \in Nat : (\E i \in 1..Len(buffer) : buffer[i] = c) <=> 0 < c /\ c <= given /\ c \notin lost
  <2> SUFFICES ASSUME NEW c \in Nat
               PROVE  (\E i \in 1..given : buffer[i] = c) <=> 0 < c /\ c <= given
    BY <1>1
  <2>1. ASSUME 0 < c, c <= given PROVE \E i \in 1..given : buffer[i] = c
    <3>1. c \in 1..given
      BY <1>1, <2>1
    <3> QED
      BY <1>2, <3>1
  <2>2. ASSUME NEW i \in 1..given, buffer[i] = c PROVE 0 < c /\ c <= given
    BY <1>1, <1>2, <2>2
  <2> QED
    BY <2>1, <2>2
<1> QED
  BY <1>1, <1>2, <1>3, <1>4 DEF AllButTheLost

LEMMA SinkObjectStep ==
    ASSUME SinkTypes, SinkHeld, SinkStage, SinkNumbers, SinkStored, SinkObject, Sink!Next
    PROVE  SinkObject'
<1>a. ASSUME object' = <<>>, pc' # "done" PROVE SinkObject'
  BY <1>a DEF SinkObject
<1>1. CASE Sink!OnChunk
  BY <1>1, <1>a, ChunkTaken DEF SinkObject
<1>2. CASE Sink!SessionEnds
  BY <1>2 DEF Sink!SessionEnds, Sink!s3, Sink!history, SinkObject, AllButTheLost
<1>3. CASE Sink!OnSessionEnd
  <2>1. object' = <<>> /\ (pc' = "done" => given' = 0) /\ given' = given
    BY <1>3, HowItEnds DEF SinkObject
  <2> QED
    BY <2>1 DEF SinkObject
<1>4. ASSUME NEW o \in Sink!Outcomes, Sink!Initiate(o) \/ Sink!UploadPart(o) \/ Sink!LastPart(o)
      PROVE  SinkObject'
  <2>1. object' = object /\ pc' # "done" /\ pc \in {"initiating", "uploading", "last part"}
    BY <1>4 DEF Sink!Initiate, Sink!UploadPart, Sink!LastPart, Sink!StartPart, Sink!GivesUp
  <2> QED
    BY <1>a, <2>1 DEF SinkObject
<1>5. ASSUME NEW o \in Sink!Outcomes, Sink!PutWhole(o) PROVE SinkObject'
  <2>1. /\ pc = "putting" /\ object' = (IF Sink!Take(o) THEN buffer ELSE object) /\ pc' = "done"
        /\ UNCHANGED <<given, lost>> /\ Sink!Goes(o)
    BY <1>5 DEF Sink!PutWhole, Sink!history
  <2>2. id = 0 /\ lost = {} /\ Len(buffer) = given /\ object = <<>>
    BY <2>1 DEF SinkStage, SinkObject
  <2>3. AllButTheLost(buffer, given)
    BY <2>2, HeldIsWhole
  <2>4. o # "answered" => faults' > 0
    BY <2>1, CallsGo
  <2>5. CASE Sink!Take(o)
    <3>1. AllButTheLost(object', given')
      BY <2>1, <2>3, <2>5
    <3>2. AllButTheLost(object, given)'
      BY <2>1, <3>1 DEF AllButTheLost
    <3> QED
      BY <2>1, <3>2 DEF SinkObject
  <2>6. CASE ~Sink!Take(o)
    <3>1. object' = <<>> /\ faults' > 0
      BY <2>1, <2>2, <2>4, <2>6 DEF Sink!Take
    <3>2. faults' # 0
      BY <3>1, <2>1, CallsGo
    <3> QED
      BY <2>1, <3>1, <3>2 DEF SinkObject
  <2> QED
    BY <2>5, <2>6
<1>6. ASSUME NEW o \in Sink!Outcomes, Sink!Complete(o) PROVE SinkObject'
  <2>1. /\ pc = "completing" /\ UNCHANGED <<given, lost>>
        /\ pc' = IF Sink!Acceptable /\ o = "answered" THEN "done" ELSE "aborting"
        /\ IF Sink!Acceptable /\ Sink!Take(o)
           THEN object' = Sink!FlattenSeq([i \in 1..Len(parts) |-> stored[id][parts[i]]])
           ELSE object' = object
    BY <1>6 DEF Sink!Complete, Sink!history, Sink!GivesUp
  <2>2. object = <<>>
    BY <2>1 DEF SinkObject
  <2>3. CASE Sink!Acceptable /\ Sink!Take(o)
    <3>1. AllButTheLost(object', given)
      BY <2>1, <2>3, PutTogether
    <3>2. AllButTheLost(object, given)'
      BY <2>1, <3>1 DEF AllButTheLost
    <3> QED
      BY <2>1, <3>2 DEF SinkObject
  <2>4. CASE ~ (Sink!Acceptable /\ Sink!Take(o))
    <3>1. object' = <<>> /\ pc' # "done"
      BY <2>1, <2>2, <2>4 DEF Sink!Take
    <3> QED
      BY <1>a, <3>1
  <2> QED
    BY <2>3, <2>4
<1>7. ASSUME NEW o \in Sink!Outcomes, Sink!Abort(o) PROVE SinkObject'
  <2>1. pc = "aborting" /\ UNCHANGED <<given, lost, object>> /\ pc' = "done" /\ Sink!Goes(o)
    BY <1>7 DEF Sink!Abort
  <2>2. faults' = 0 => lost # {}
    <3>1. faults > 0 \/ lost # {}
      BY <2>1 DEF SinkStage
    <3>2. faults' \in Nat /\ faults <= faults' /\ faults \in Nat
      BY <2>1, CallsGo DEF SinkTypes
    <3> QED
      BY <3>1, <3>2
  <2>3. object' # <<>> => AllButTheLost(object, given)'
    BY <2>1 DEF SinkObject, AllButTheLost
  <2> QED
    BY <2>1, <2>2, <2>3 DEF SinkObject
<1> QED
  BY <1>1, <1>2, <1>3, <1>4, <1>5, <1>6, <1>7 DEF Sink!Next, Sink!Calls

LEMMA SinkStageStep ==
    ASSUME SinkTypes, SinkHeld, SinkStage, SinkNumbers, SinkStored, Sink!Next
    PROVE  SinkStage'
<1>a. /\ given \in Nat /\ Len(buffer) \in Nat /\ Len(uploads) \in Nat /\ Len(<<>>) = 0
      /\ (buffer = <<>> <=> Len(buffer) = 0)
  BY SinkSizes DEF SinkTypes
<1>b. /\ (id' = 0 => lost' = {} /\ parts' = <<>>) /\ (lost # {} => lost' # {})
  BY SinkStoredStep, SinkNumbersStep
<1>1. CASE Sink!OnChunk
  <2>1. /\ pc = "idle" /\ given' = given + 1 /\ UNCHANGED <<id, faults, cut>>
        /\ \/ /\ buffer' = Append(buffer, given + 1)
              /\ pc' = "idle" \/ (pc' = "initiating" /\ id = 0)
           \/ buffer' = <<>> /\ pc' = "uploading" /\ id # 0
        /\ Len(Append(buffer, given + 1)) = Len(buffer) + 1
    BY <1>1, ChunkTaken
  <2>2. given' > 0 /\ (id' = 0 => Len(buffer') = given' /\ buffer' # <<>>)
    BY <1>a, <2>1 DEF SinkStage
  <2> QED
    BY <1>b, <2>1, <2>2 DEF SinkStage
<1>2. CASE Sink!SessionEnds
  <2>1. cut' = TRUE /\ UNCHANGED <<given, buffer, id, number, parts, inflight, pc, faults, lost>>
    BY <1>2 DEF Sink!SessionEnds, Sink!s3, Sink!history
  <2> QED
    BY <2>1 DEF SinkStage
<1>3. CASE Sink!OnSessionEnd
  <2>1. /\ pc = "idle" /\ cut /\ cut' = cut /\ given' = given /\ id' = id
        /\ \/ pc' = "done" /\ id = 0 /\ buffer' = buffer
           \/ pc' = "putting" /\ id = 0 /\ buffer # <<>> /\ buffer' = buffer
           \/ pc' = "last part" /\ id # 0 /\ buffer' = <<>>
           \/ pc' = "completing" /\ id # 0 /\ buffer = <<>> /\ buffer' = buffer
    BY <1>3, HowItEnds
  <2> QED
    BY <1>b, <2>1 DEF SinkStage
<1>4. ASSUME NEW o \in Sink!Outcomes, Sink!Calls(o) PROVE SinkStage'
  <2>0. given' = given /\ cut' = cut
    BY <1>4, CallsOfS3
  <2>1. CASE Sink!Initiate(o)
    <3>1. pc = "initiating"
      BY <2>1 DEF Sink!Initiate
    <3>2. id = 0 /\ Len(buffer) = given /\ buffer # <<>> /\ given > 0
      BY <1>a, <3>1 DEF SinkStage
    <3>3. \/ buffer' = <<>> /\ pc' = "uploading" /\ id' # 0
          \/ pc' = "idle" /\ id' = id /\ buffer' = buffer
      <4>1. \/ buffer' = <<>> /\ pc' = "uploading" /\ id' = Len(uploads) + 1
            \/ pc' = "idle" /\ id' = id /\ buffer' = buffer
        BY <1>4, <3>1, CallsOfS3
      <4> QED
        BY <1>a, <4>1
    <3> QED
      BY <1>b, <2>0, <3>2, <3>3 DEF SinkStage
  <2>2. CASE Sink!UploadPart(o)
    <3>1. pc = "uploading"
      BY <2>2 DEF Sink!UploadPart
    <3>2. pc' = "idle" /\ id' = id /\ id # 0 /\ given > 0
      BY <1>4, <3>1, CallsOfS3 DEF SinkStage
    <3> QED
      BY <1>b, <2>0, <3>2 DEF SinkStage
  <2>3. CASE Sink!LastPart(o)
    <3>1. pc = "last part"
      BY <2>3 DEF Sink!LastPart
    <3>2. /\ pc' \in {"completing", "aborting"} /\ id' = id /\ id # 0 /\ given > 0 /\ buffer' = <<>>
          /\ cut /\ inflight # <<>>
      BY <1>4, <3>1, CallsOfS3 DEF SinkStage
    <3>3. pc' = "aborting" => faults' > 0
      <4>1. pc' = "aborting" => o # "answered"
        BY <2>3 DEF Sink!LastPart, Sink!GivesUp
      <4> QED
        BY <2>3, <3>1, <4>1, CallsGo DEF Sink!LastPart
    <3> QED
      BY <1>b, <2>0, <3>2, <3>3 DEF SinkStage
  <2>4. CASE Sink!PutWhole(o)
    <3>1. pc = "putting"
      BY <2>4 DEF Sink!PutWhole
    <3>2. pc' = "done" /\ id' = id /\ id = 0 /\ buffer' = buffer /\ Len(buffer) = given /\ cut
      BY <1>4, <3>1, CallsOfS3 DEF SinkStage
    <3> QED
      BY <1>b, <2>0, <3>2 DEF SinkStage
  <2>5. CASE Sink!Complete(o)
    <3>1. pc = "completing" /\ lost' = lost
      BY <2>5 DEF Sink!Complete, Sink!history
    <3>2. /\ pc' \in {"done", "aborting"} /\ id' = id /\ id # 0 /\ given > 0 /\ buffer' = <<>> /\ cut
      BY <1>4, <3>1, CallsOfS3 DEF SinkStage
    <3>3. pc' = "aborting" => faults' > 0 \/ lost' # {}
      <4>1. pc' = "aborting" => ~Sink!Acceptable \/ o # "answered"
        BY <2>5 DEF Sink!Complete
      <4>2. o # "answered" => faults' > 0
        BY <2>5, <3>1, CallsGo DEF Sink!Complete
      <4>3. ~Sink!Acceptable => lost # {}
        BY <3>1, PutTogether
      <4> QED
        BY <3>1, <4>1, <4>2, <4>3
    <3> QED
      BY <1>b, <2>0, <3>2, <3>3 DEF SinkStage
  <2>6. CASE Sink!Abort(o)
    <3>1. pc = "aborting"
      BY <2>6 DEF Sink!Abort
    <3>2. pc' = "done" /\ id' = id /\ id # 0 /\ given > 0 /\ buffer' = <<>> /\ cut
      BY <1>4, <3>1, CallsOfS3 DEF SinkStage
    <3> QED
      BY <1>b, <2>0, <3>2 DEF SinkStage
  <2> QED
    BY <1>4, <2>1, <2>2, <2>3, <2>4, <2>5, <2>6 DEF Sink!Calls
<1> QED
  BY <1>1, <1>2, <1>3, <1>4 DEF Sink!Next

LEMMA SinkUploadsStep ==
    ASSUME SinkTypes, SinkHeld, SinkStage, SinkUploads, Sink!Next
    PROVE  SinkUploads'
<1>a. /\ Len(uploads) \in Nat /\ uploads \in Seq({"open", "completed", "aborted"})
      /\ id \in Nat /\ id <= Len(uploads)
      /\ \A u \in 1..Len(uploads) : u # id => u \in unknown
  BY SinkSizes DEF SinkTypes, SinkUploads
<1>b. ASSUME UNCHANGED <<id, uploads, unknown>>, pc' = "done" => id = 0 \/ pc = "done"
      PROVE  SinkUploads'
  BY <1>b DEF SinkUploads
<1>c. ASSUME id # 0, NEW s \in {"completed", "aborted"}, uploads' = [uploads EXCEPT ![id] = s],
             id' = id, unknown \subseteq unknown'
      PROVE  SinkUploads'
  <2>1. id \in 1..Len(uploads)
    BY <1>a, <1>c
  <2>2. Len(uploads') = Len(uploads) /\ uploads'[id] = s
    BY <1>a, <1>c, <2>1, ExceptSeq
  <2>3. s # "open"
    BY <1>c
  <2> QED
    BY <1>a, <1>c, <2>2, <2>3 DEF SinkUploads
<1>1. CASE Sink!OnChunk
  <2>1. UNCHANGED <<id, uploads, unknown>> /\ pc' # "done"
    BY <1>1, ChunkTaken
  <2> QED
    BY <1>b, <2>1
<1>2. CASE Sink!SessionEnds
  BY <1>2, <1>b DEF Sink!SessionEnds, Sink!s3, Sink!history
<1>3. CASE Sink!OnSessionEnd
  <2>1. UNCHANGED <<id, uploads, unknown>> /\ (pc' = "done" => id = 0)
    BY <1>3, HowItEnds
  <2> QED
    BY <1>b, <2>1
<1>4. ASSUME NEW o \in Sink!Outcomes, Sink!Initiate(o) PROVE SinkUploads'
  <2>1. id = 0 /\ pc = "initiating"
    BY <1>4 DEF Sink!Initiate, SinkStage
  <2>2. Len(uploads') = IF Sink!Take(o) THEN Len(uploads) + 1 ELSE Len(uploads)
    BY <1>4, UploadBegun
  <2>3. \A u \in 1..Len(uploads) : u \in unknown
    BY <1>a, <2>1
  <2>4. CASE o = "answered" /\ ~cut
    <3>1. /\ id' = Len(uploads) + 1 /\ unknown' = unknown /\ pc' = "uploading"
          /\ Len(uploads') = Len(uploads) + 1
      BY <1>4, <2>2, <2>4 DEF Sink!Initiate, Sink!StartPart, Sink!Take
    <3>2. \A u \in 1..(Len(uploads) + 1) : u # Len(uploads) + 1 => u \in 1..Len(uploads)
      BY <1>a
    <3> QED
      BY <2>3, <3>1, <3>2 DEF SinkUploads
  <2>5. CASE ~ (o = "answered" /\ ~cut)
    <3>1. /\ id' = id /\ pc' = "idle"
          /\ unknown' = IF Sink!Take(o) THEN unknown \cup {Len(uploads) + 1} ELSE unknown
      BY <1>4, <2>5 DEF Sink!Initiate
    <3>2. \A u \in 1..(Len(uploads) + 1) : u # Len(uploads) + 1 => u \in 1..Len(uploads)
      BY <1>a
    <3>3. \A u \in 1..Len(uploads') : u \in unknown'
      BY <2>2, <2>3, <3>1, <3>2
    <3> QED
      BY <3>1, <3>3 DEF SinkUploads
  <2> QED
    BY <2>4, <2>5
<1>5. ASSUME NEW o \in Sink!Outcomes, Sink!UploadPart(o) \/ Sink!LastPart(o) PROVE SinkUploads'
  <2>1. UNCHANGED <<id, uploads, unknown>> /\ pc' # "done"
    BY <1>5 DEF Sink!UploadPart, Sink!LastPart, Sink!GivesUp
  <2> QED
    BY <1>b, <2>1
<1>6. ASSUME NEW o \in Sink!Outcomes, Sink!PutWhole(o) PROVE SinkUploads'
  <2>1. UNCHANGED <<id, uploads, unknown>> /\ id = 0
    BY <1>6 DEF Sink!PutWhole, Sink!history, SinkStage
  <2> QED
    BY <1>b, <2>1
<1>7. ASSUME NEW o \in Sink!Outcomes, Sink!Complete(o) PROVE SinkUploads'
  <2>1. id' = id /\ unknown' = unknown /\ id # 0 /\ pc = "completing"
    BY <1>7 DEF Sink!Complete, Sink!history, SinkStage
  <2>2. CASE Sink!Acceptable /\ Sink!Take(o)
    BY <1>7, <1>c, <2>1, <2>2 DEF Sink!Complete
  <2>3. CASE ~ (Sink!Acceptable /\ Sink!Take(o))
    <3>1. uploads' = uploads /\ pc' # "done"
      BY <1>7, <2>3 DEF Sink!Complete, Sink!Take, Sink!GivesUp
    <3> QED
      BY <1>b, <2>1, <3>1
  <2> QED
    BY <2>2, <2>3
<1>8. ASSUME NEW o \in Sink!Outcomes, Sink!Abort(o) PROVE SinkUploads'
  <2>1. id' = id /\ unknown \subseteq unknown' /\ id # 0
    BY <1>8 DEF Sink!Abort, SinkStage
  <2>2. CASE Sink!Take(o) /\ uploads[id] = "open"
    BY <1>8, <1>c, <2>1, <2>2 DEF Sink!Abort
  <2>3. CASE ~ (Sink!Take(o) /\ uploads[id] = "open")
    <3>1. uploads' = uploads /\ (uploads[id] = "open" => id \in unknown')
      BY <1>8, <2>3 DEF Sink!Abort, Sink!Take
    <3> QED
      BY <1>a, <2>1, <3>1 DEF SinkUploads
  <2> QED
    BY <2>2, <2>3
<1> QED
  BY <1>1, <1>2, <1>3, <1>4, <1>5, <1>6, <1>7, <1>8 DEF Sink!Next, Sink!Calls

LEMMA SinkRoomStep ==
    ASSUME SinkTypes, SinkHeld, SinkStage, SinkRoom, Sink!Next
    PROVE  SinkRoom'
<1>a. /\ Len(buffer) \in Nat /\ Len(inflight) \in Nat /\ Len(<<>>) = 0
      /\ SinkPart \in Nat /\ SinkPart > 0
  BY SinkSizes
<1>b. ASSUME starved' = starved, inflight = <<>>,
             \/ UNCHANGED <<buffer, inflight>> /\ (pc' = "idle" => pc = "idle")
             \/ inflight' = buffer /\ buffer' = <<>>
      PROVE  SinkRoom'
  <2> SUFFICES ASSUME ~starved
               PROVE  /\ Len(buffer') + Len(inflight') <= SinkPart
                      /\ pc' = "idle" => Len(buffer') < SinkPart
    BY <1>b DEF SinkRoom
  <2>1. Len(buffer) + Len(inflight) <= SinkPart /\ (pc = "idle" => Len(buffer) < SinkPart)
    BY DEF SinkRoom
  <2>2. CASE UNCHANGED <<buffer, inflight>> /\ (pc' = "idle" => pc = "idle")
    BY <2>1, <2>2
  <2>3. CASE inflight' = buffer /\ buffer' = <<>>
    BY <1>a, <1>b, <2>1, <2>3
  <2> QED
    BY <1>b, <2>2, <2>3
<1>1. CASE Sink!OnChunk
  <2>1. /\ pc = "idle" /\ inflight = <<>> /\ starved' = starved
        /\ Len(Append(buffer, given + 1)) = Len(buffer) + 1
        /\ \/ /\ buffer' = Append(buffer, given + 1) /\ inflight' = <<>>
              /\ \/ pc' = "idle" /\ Len(buffer) + 1 < SinkPart
                 \/ pc' = "initiating"
           \/ /\ inflight' = Append(buffer, given + 1) /\ buffer' = <<>> /\ pc' = "uploading"
    BY <1>1, ChunkTaken
  <2> SUFFICES ASSUME ~starved
               PROVE  /\ Len(buffer') + Len(inflight') <= SinkPart
                      /\ pc' = "idle" => Len(buffer') < SinkPart
    BY <2>1 DEF SinkRoom
  <2>2. Len(buffer) < SinkPart
    BY <2>1 DEF SinkRoom
  <2>3. \/ Len(buffer') = Len(buffer) + 1 /\ Len(inflight') = 0
        \/ Len(inflight') = Len(buffer) + 1 /\ Len(buffer') = 0
    BY <1>a, <2>1
  <2>4. pc' = "idle" => Len(buffer') = Len(buffer) + 1 /\ Len(buffer) + 1 < SinkPart
    BY <2>1
  <2> QED
    BY <1>a, <2>2, <2>3, <2>4
<1>2. CASE Sink!SessionEnds
  <2>1. UNCHANGED <<buffer, inflight, pc, starved>>
    BY <1>2 DEF Sink!SessionEnds, Sink!history
  <2> QED
    BY <2>1 DEF SinkRoom
<1>3. CASE Sink!OnSessionEnd
  <2>1. /\ inflight = <<>> /\ starved' = starved /\ pc = "idle"
        /\ UNCHANGED <<buffer, inflight>> \/ (inflight' = buffer /\ buffer' = <<>>)
    BY <1>3, HowItEnds
  <2> QED
    BY <1>b, <2>1
<1>4. ASSUME NEW o \in Sink!Outcomes, Sink!Calls(o) PROVE SinkRoom'
  <2>1. \/ starved' = TRUE
        \/ starved' = starved /\ inflight = <<>> /\ inflight' = buffer /\ buffer' = <<>>
        \/ starved' = starved /\ inflight' = <<>> /\ buffer' = <<>>
        \/ /\ starved' = starved /\ inflight = <<>> /\ UNCHANGED <<buffer, inflight>>
           /\ pc' \in {"done", "aborting"}
    BY <1>4, CallsOfS3
  <2>2. CASE starved' = TRUE
    BY <2>2 DEF SinkRoom
  <2>3. CASE starved' = starved /\ inflight = <<>> /\ inflight' = buffer /\ buffer' = <<>>
    BY <1>b, <2>3
  <2>4. CASE starved' = starved /\ inflight' = <<>> /\ buffer' = <<>>
    <3>1. Len(inflight') = 0 /\ Len(buffer') = 0
      BY <1>a, <2>4
    <3> QED
      BY <1>a, <3>1 DEF SinkRoom
  <2>5. CASE /\ starved' = starved /\ inflight = <<>> /\ UNCHANGED <<buffer, inflight>>
             /\ pc' \in {"done", "aborting"}
    BY <1>b, <2>5
  <2> QED
    BY <2>1, <2>2, <2>3, <2>4, <2>5
<1> QED
  BY <1>1, <1>2, <1>3, <1>4 DEF Sink!Next

LEMMA SinkInvariance == SinkInv /\ [Sink!Next]_(Sink!vars) => SinkInv'
<1>1. ASSUME SinkInv, Sink!Next PROVE SinkInv'
  <2>1. /\ SinkTypes /\ SinkHeld /\ SinkStage /\ SinkNumbers /\ SinkStored /\ SinkObject
        /\ SinkUploads /\ SinkRoom
    BY <1>1 DEF SinkInv, SinkParts
  <2>2. SinkTypes' /\ SinkHeld' /\ SinkStage' /\ SinkNumbers'
    BY <1>1, <2>1, SinkTypesStep, SinkHeldStep, SinkStageStep, SinkNumbersStep
  <2>3. SinkStored' /\ SinkObject' /\ SinkUploads' /\ SinkRoom'
    BY <1>1, <2>1, SinkStoredStep, SinkObjectStep, SinkUploadsStep, SinkRoomStep
  <2> QED
    BY <2>2, <2>3 DEF SinkInv, SinkParts
<1>2. ASSUME SinkInv, UNCHANGED Sink!vars PROVE SinkInv'
  <2>0. UNCHANGED <<given, buffer, id, number, parts, inflight, pc, cut, uploads, stored, object,
                    faults, lost, unknown, starved>>
    BY <1>2 DEF Sink!vars
  <2>1. /\ SinkTypes /\ SinkHeld /\ SinkStage /\ SinkNumbers /\ SinkStored /\ SinkObject
        /\ SinkUploads /\ SinkRoom
    BY <1>2 DEF SinkInv, SinkParts
  <2>2. SinkTypes' /\ SinkHeld' /\ SinkStage'
    BY <2>0, <2>1 DEF SinkTypes, SinkHeld, SinkStage
  <2>3. SinkNumbers' /\ SinkUploads' /\ SinkRoom' /\ Gone' = Gone
    BY <2>0, <2>1 DEF SinkNumbers, Gone, SinkUploads, SinkRoom
  <2>4. SinkObject'
    BY <2>0, <2>1 DEF SinkObject, AllButTheLost
  <2>5. SinkStored'
    BY <2>0, <2>1, <2>3 DEF SinkStored, AllButTheLost, Prefixes
  <2> QED
    BY <2>2, <2>3, <2>4, <2>5 DEF SinkInv, SinkParts
<1> QED
  BY <1>1, <1>2

LEMMA SinkStarts == Sink!Init \/ SinkRests => SinkInv
<1> SUFFICES ASSUME Sink!Init \/ SinkRests PROVE SinkInv
  OBVIOUS
<1>1. /\ given = 0 /\ buffer = <<>> /\ id = 0 /\ number = 1 /\ parts = <<>> /\ inflight = <<>>
      /\ uploads = <<>> /\ stored = <<>> /\ object = <<>>
      /\ faults = 0 /\ lost = {} /\ unknown = {} /\ starved = FALSE
      /\ (pc = "idle" /\ cut = FALSE) \/ (pc = "done" /\ cut = TRUE)
  BY DEF Sink!Init, Sink!FirstPart, SinkRests
<1>2. SinkPart \in Nat /\ SinkPart > 0 /\ SinkChunks \in Nat /\ SinkFaults \in Nat /\ Len(<<>>) = 0
  BY PartsAssumption
<1>3. SinkTypes
  <2>1. <<>> \in Seq({})
    OBVIOUS
  <2>2. \E S : stored \in Seq(S)
    BY <1>1, <2>1
  <2>3. /\ <<>> \in Seq(Nat) /\ <<>> \in Seq({"open", "completed", "aborted"})
    OBVIOUS
  <2>4. /\ given \in Nat /\ given <= SinkChunks /\ faults \in Nat /\ faults <= SinkFaults
        /\ Len(stored) = Len(uploads) /\ id \in Nat /\ id <= Len(uploads) /\ number \in Nat
    BY <1>1, <1>2
  <2>5. /\ pc \in SinkWaits /\ cut \in BOOLEAN /\ starved \in BOOLEAN
        /\ unknown \subseteq 1..Len(uploads)
    BY <1>1 DEF SinkWaits
  <2>6. /\ buffer \in Seq(Nat) /\ inflight \in Seq(Nat) /\ object \in Seq(Nat)
        /\ parts \in Seq(Nat) /\ uploads \in Seq({"open", "completed", "aborted"})
    BY <1>1, <2>3
  <2> QED
    BY <2>2, <2>4, <2>5, <2>6 DEF SinkTypes
<1>4. SinkHeld /\ SinkStage
  <2>1. /\ Len(buffer) = 0 /\ Len(inflight) = 0 /\ given = 0
        /\ pc \notin {"uploading", "last part", "initiating", "putting", "completing", "aborting"}
    <3>1. Len(buffer) = 0 /\ Len(inflight) = 0 /\ given = 0
      BY <1>1, <1>2
    <3>2. pc \notin {"uploading", "last part", "initiating", "putting", "completing", "aborting"}
      BY <1>1
    <3> QED
      BY <3>1, <3>2
  <2>2. SinkHeld
    <3>1. inflight = <<>> /\ pc \notin {"uploading", "last part"}
      BY <1>1, <2>1
    <3>2. Len(<<>>) <= 0 /\ \A i \in 1..Len(<<>>) : <<>>[i] = 0 - Len(<<>>) + i
      OBVIOUS
    <3>3. buffer = <<>> /\ inflight = <<>> /\ given = 0
      BY <1>1
    <3>4. /\ Len(buffer) <= given /\ Len(inflight) <= given
          /\ \A i \in 1..Len(buffer) : buffer[i] = given - Len(buffer) + i
          /\ \A i \in 1..Len(inflight) : inflight[i] = given - Len(inflight) + i
      BY <3>2, <3>3, Zenon
    <3> QED
      BY <3>1, <3>3, <3>4, Zenon DEF SinkHeld
  <2>3. SinkStage
    <3>1. pc = "done" => cut
      BY <1>1
    <3>2. id = 0 /\ lost = {} /\ parts = <<>> /\ Len(buffer) = given
      BY <1>1, <2>1
    <3> QED
      BY <2>1, <3>1, <3>2 DEF SinkStage
  <2> QED
    BY <2>2, <2>3
<1>5. Gone = 0
  <2>1. Len(buffer) = 0 /\ Len(inflight) = 0 /\ given = 0
    BY <1>1, <1>2
  <2> QED
    BY <2>1 DEF Gone
<1>6. SinkNumbers /\ SinkUploads
  BY <1>1, <1>2, <1>5 DEF SinkNumbers, SinkUploads
<1>7. SinkObject /\ SinkStored
  BY <1>1, <1>2, <1>5 DEF SinkObject, SinkStored
<1>8. SinkRoom
  BY <1>1, <1>2 DEF SinkRoom
<1> QED
  BY <1>3, <1>4, <1>6, <1>7, <1>8 DEF SinkInv, SinkParts

LEMMA SinkKeepsPromises ==
    SinkInv => /\ Sink!TypeOK /\ Sink!OnlyFailedPartsAreMissing /\ Sink!StoredUnlessAFault
               /\ Sink!NoUploadLeftOpen /\ Sink!OnePartBuffered
<1> SUFFICES ASSUME SinkInv
             PROVE  /\ Sink!TypeOK /\ Sink!OnlyFailedPartsAreMissing /\ Sink!StoredUnlessAFault
                    /\ Sink!NoUploadLeftOpen /\ Sink!OnePartBuffered
  OBVIOUS
<1>1. /\ SinkTypes /\ SinkHeld /\ SinkStage /\ SinkNumbers /\ SinkStored /\ SinkObject
      /\ SinkUploads /\ SinkRoom
  BY DEF SinkInv, SinkParts
<1>2. /\ given \in Nat /\ given <= SinkChunks /\ SinkChunks \in Nat
      /\ Len(buffer) \in Nat /\ Len(inflight) \in Nat /\ Len(parts) \in Nat
      /\ object \in Seq(Nat) /\ buffer \in Seq(Nat) /\ inflight \in Seq(Nat) /\ parts \in Seq(Nat)
  BY <1>1, SinkSizes DEF SinkTypes
<1>3. ASSUME object # <<>>
      PROVE  /\ Sink!Increasing(object)
             /\ \A c \in Nat : (\E i \in 1..Len(object) : object[i] = c)
                                  <=> 0 < c /\ c <= given /\ c \notin lost
  BY <1>1, <1>3 DEF SinkObject, AllButTheLost
<1>4. \A q \in Seq(Nat) : (\A i \in 1..Len(q) : q[i] \in 1..SinkChunks) => q \in Seq(1..SinkChunks)
  BY SeqOf
<1>5. Gone <= given /\ Gone \in Int
  BY <1>2 DEF Gone
<1>6. Sink!TypeOK
  <2>1. buffer \in Seq(1..SinkChunks) /\ inflight \in Seq(1..SinkChunks)
    <3>1. ASSUME NEW i \in 1..Len(buffer) PROVE buffer[i] \in 1..SinkChunks
      <4>1. buffer[i] = given - Len(buffer) + i /\ Len(buffer) <= given
        BY <1>1 DEF SinkHeld
      <4> QED
        BY <1>2, <4>1
    <3>2. ASSUME NEW i \in 1..Len(inflight) PROVE inflight[i] \in 1..SinkChunks
      <4>1. inflight[i] = given - Len(inflight) + i /\ Len(inflight) <= given
        BY <1>1 DEF SinkHeld
      <4> QED
        BY <1>2, <4>1
    <3> QED
      BY <1>2, <1>4, <3>1, <3>2
  <2>2. object \in Seq(1..SinkChunks)
    <3>1. CASE object = <<>>
      BY <3>1
    <3>2. CASE object # <<>>
      <4>1. ASSUME NEW i \in 1..Len(object) PROVE object[i] \in 1..SinkChunks
        <5>1. object[i] \in Nat
          BY <1>2
        <5>2. 0 < object[i] /\ object[i] <= given
          BY <1>3, <3>2, <5>1
        <5> QED
          BY <1>2, <5>1, <5>2
      <4> QED
        BY <1>2, <1>4, <4>1
    <3> QED
      BY <3>1, <3>2
  <2>3. parts \in Seq(1..SinkChunks) /\ number \in 1..(SinkChunks + 1)
    <3>1. /\ \A k \in 1..Len(parts) : parts[k] = k
          /\ Len(parts) <= Gone /\ number \in {Len(parts), Len(parts) + 1} /\ number > 0
      BY <1>1 DEF SinkNumbers
    <3>2. Len(parts) <= SinkChunks
      BY <1>2, <1>5, <3>1
    <3>3. \A k \in 1..Len(parts) : parts[k] \in 1..SinkChunks
      BY <1>2, <3>1, <3>2
    <3> QED
      BY <1>2, <1>4, <3>1, <3>2, <3>3
  <2>4. lost \subseteq 1..SinkChunks
    <3>1. \A c \in lost : c \in Nat /\ 0 < c /\ c <= Gone
      BY <1>1 DEF SinkStored
    <3> QED
      BY <1>2, <1>5, <3>1
  <2>5. /\ given \in 0..SinkChunks /\ id \in 0..Len(uploads) /\ faults \in 0..SinkFaults
    BY <1>1, <1>2, SinkSizes DEF SinkTypes
  <2>6. /\ pc \in SinkWaits /\ cut \in BOOLEAN /\ starved \in BOOLEAN
        /\ uploads \in Seq({"open", "completed", "aborted"}) /\ Len(stored) = Len(uploads)
        /\ unknown \subseteq 1..Len(uploads)
    BY <1>1 DEF SinkTypes
  <2> QED
    BY <2>1, <2>2, <2>3, <2>4, <2>5, <2>6 DEF Sink!TypeOK, SinkWaits
<1>7. Sink!OnlyFailedPartsAreMissing
  <2> SUFFICES ASSUME object # <<>>
               PROVE  Sink!Increasing(object) /\ Sink!ToSet(object) = (1..given) \ lost
    BY DEF Sink!OnlyFailedPartsAreMissing
  <2>1. DOMAIN object = 1..Len(object) /\ \A i \in 1..Len(object) : object[i] \in Nat
    BY <1>2
  <2>2. Sink!ToSet(object) = {object[i] : i \in 1..Len(object)}
    BY <2>1, Zenon DEF Sink!ToSet
  <2>3. \A c \in Nat : c \in Sink!ToSet(object) <=> 0 < c /\ c <= given /\ c \notin lost
    BY <1>3, <2>2
  <2>4. \A c \in Sink!ToSet(object) : c \in Nat
    BY <2>1, <2>2
  <2>5. \A c : c \in (1..given) \ lost <=> c \in Nat /\ 0 < c /\ c <= given /\ c \notin lost
    BY <1>2
  <2> QED
    BY <1>3, <2>3, <2>4, <2>5
<1>8. Sink!StoredUnlessAFault
  <2> SUFFICES ASSUME pc = "done", given > 0, faults = 0, lost = {}
               PROVE  object = [i \in 1..given |-> i]
    BY DEF Sink!StoredUnlessAFault, Sink!Whole
  <2>1. Len(object) = given /\ \A i \in 1..given : object[i] = i
    BY <1>1 DEF SinkObject, AllButTheLost
  <2>2. object = [i \in 1..Len(object) |-> object[i]]
    BY <1>2
  <2> QED
    BY <2>1, <2>2
<1>9. Sink!NoUploadLeftOpen
  BY <1>1 DEF SinkUploads, Sink!NoUploadLeftOpen
<1>10. Sink!OnePartBuffered
  BY <1>1 DEF SinkRoom, Sink!OnePartBuffered
<1> QED
  BY <1>6, <1>7, <1>8, <1>9, <1>10

-----------------------------------------------------------------------------
(* The batch endpoint.                                                     *)

BatchVendor == Batch!Vendor[batchVendor]
BatchChecks == {"credentials", "form", "blocked", "resolve", "audio"}
BatchEnds == {"delete job", "delete file", "settle", "done"}

BatchTypes ==
    /\ endpoint \in {"openai", "deepgram"} /\ batchVendor \in BatchVendors
    /\ step \in BatchChecks \cup Batch!AllCalls \cup BatchEnds
    /\ polls \in 0..BatchPolls
    /\ known \subseteq {"file", "job"} /\ artifacts \subseteq {"file", "job"}
    /\ doubtful \subseteq {"file", "job"}
    /\ outcome \in {"none", "completed", "timeout", "other", "raw"}
    /\ fetched \in BOOLEAN /\ called \in BOOLEAN

\* The adapter goes through its own calls.
BatchCalls == step \in Batch!AllCalls => \E i \in 1..Len(BatchVendor.calls) : step = BatchVendor.calls[i]

\* The vendor's answer is read by those who complete.
BatchPayload ==
    /\ outcome = "completed" => payload \in BatchPayloads
    /\ outcome # "completed" => payload = Batch!NoPayload

\* Nothing is made, called or metered before the adapter's turn; the adapter
\* knows of what it made until a call fails, and that ends transcribe().
BatchStage ==
    /\ step \in BatchChecks =>
         outcome = "none" /\ artifacts = {} /\ ~called
    /\ step \in Batch!AllCalls => outcome = "none"
    /\ step \in {"delete job", "delete file", "settle"} => outcome # "none"

\* One event, when the request is over, and the answer that goes with it.
BatchEvent ==
    /\ step # "done" => usage = <<>> /\ reply = "none"
    /\ step = "done" /\ outcome = "none" => usage = <<>> /\ reply # "ok"
    /\ step = "done" /\ outcome # "none" =>
         /\ usage = <<[status |-> Batch!StatusOf(outcome), seconds |-> Batch!BilledSeconds]>>
         /\ reply = Batch!AnswerOf(outcome)

\* What may be left at a vendor that keeps it.
BatchLeft ==
    /\ artifacts \subseteq known \cup doubtful
    /\ step \in BatchChecks \cup {"done"} /\ outcome = "none" => artifacts = {}
    /\ BatchVendor.cleans /\ step \in {"delete file", "settle", "done"} =>
         ("job" \in artifacts => "job" \in doubtful)
    /\ BatchVendor.cleans /\ step \in {"settle", "done"} =>
         ("file" \in artifacts => "file" \in doubtful)

\* A remote file is fetched when the organisation has been looked up.
BatchBlocked ==
    /\ fetched /\ step \in BatchChecks => endpoint = "deepgram" /\ step = "resolve"
    /\ reply = "insufficient_credits" => step = "done" /\ ~fetched /\ ~called

BatchParts ==
    /\ BatchCalls /\ BatchPayload /\ BatchStage /\ BatchEvent /\ BatchLeft /\ BatchBlocked

BatchInv == BatchTypes /\ BatchParts

\* The sequences of calls of the adapters.
CallsOfAdapters ==
    {<<"upload", "create", "poll", "fetch">>, <<"upload", "create", "poll">>,
     <<"create", "poll", "fetch">>, <<"transcribe">>}

LEMMA AdaptersOfVendors ==
    ASSUME batchVendor \in BatchVendors
    PROVE  \E c \in CallsOfAdapters, t, r, g \in {"timeout", "other", "raw"}, d, k \in BOOLEAN :
             BatchVendor = [calls |-> c, timeout |-> t, reset |-> r, garbled |-> g,
                            cleans |-> d, checks |-> k]
<1> DEFINE R(c, t, r, g, d, k) ==
      [calls |-> c, timeout |-> t, reset |-> r, garbled |-> g, cleans |-> d, checks |-> k]
<1>1. CASE batchVendor = "soniox"
  <2>1. BatchVendor = R(<<"upload", "create", "poll", "fetch">>, "raw", "raw", "raw", TRUE, FALSE)
    BY <1>1 DEF BatchVendor, Batch!Vendor, Batch!Soniox, Batch!Adapter, Batch!Post
  <2>2. <<"upload", "create", "poll", "fetch">> \in CallsOfAdapters
    BY DEF CallsOfAdapters
  <2> QED
    BY <2>1, <2>2
<1>2. CASE batchVendor = "assemblyai"
  <2>1. BatchVendor = R(<<"upload", "create", "poll">>, "raw", "raw", "raw", FALSE, FALSE)
    BY <1>2 DEF BatchVendor, Batch!Vendor, Batch!Assemblyai, Batch!Adapter, Batch!Post
  <2>2. <<"upload", "create", "poll">> \in CallsOfAdapters
    BY DEF CallsOfAdapters
  <2> QED
    BY <2>1, <2>2
<1>3. CASE batchVendor = "speechmatics"
  <2>1. BatchVendor = R(<<"create", "poll", "fetch">>, "raw", "raw", "raw", FALSE, FALSE)
    BY <1>3 DEF BatchVendor, Batch!Vendor, Batch!Speechmatics, Batch!Adapter, Batch!Post
  <2>2. <<"create", "poll", "fetch">> \in CallsOfAdapters
    BY DEF CallsOfAdapters
  <2> QED
    BY <2>1, <2>2
<1>4. CASE batchVendor = "deepgram"
  <2>1. BatchVendor = R(<<"transcribe">>, "timeout", "other", "other", FALSE, FALSE)
    BY <1>4 DEF BatchVendor, Batch!Vendor, Batch!Deepgram, Batch!Adapter, Batch!Post
  <2>2. <<"transcribe">> \in CallsOfAdapters
    BY DEF CallsOfAdapters
  <2> QED
    BY <2>1, <2>2
<1>5. CASE batchVendor = "xai"
  <2>1. BatchVendor = R(<<"transcribe">>, "timeout", "other", "raw", FALSE, FALSE)
    BY <1>5 DEF BatchVendor, Batch!Vendor, Batch!Xai, Batch!Adapter, Batch!Post
  <2>2. <<"transcribe">> \in CallsOfAdapters
    BY DEF CallsOfAdapters
  <2> QED
    BY <2>1, <2>2
<1>6. CASE batchVendor = "meta"
  <2>1. BatchVendor = R(<<"transcribe">>, "timeout", "other", "raw", FALSE, TRUE)
    BY <1>6 DEF BatchVendor, Batch!Vendor, Batch!Meta, Batch!Adapter, Batch!Post
  <2>2. <<"transcribe">> \in CallsOfAdapters
    BY DEF CallsOfAdapters
  <2> QED
    BY <2>1, <2>2
<1>7. CASE batchVendor = "openai"
  <2>1. BatchVendor = R(<<"transcribe">>, "timeout", "other", "raw", FALSE, FALSE)
    BY <1>7 DEF BatchVendor, Batch!Vendor, Batch!OpenaiCompat, Batch!Adapter, Batch!Post
  <2>2. <<"transcribe">> \in CallsOfAdapters
    BY DEF CallsOfAdapters
  <2> QED
    BY <2>1, <2>2
<1>8. CASE batchVendor = "cartesia"
  <2>1. BatchVendor = R(<<"transcribe">>, "other", "other", "raw", FALSE, FALSE)
    BY <1>8 DEF BatchVendor, Batch!Vendor, Batch!Cartesia, Batch!Adapter, Batch!Post
  <2>2. <<"transcribe">> \in CallsOfAdapters
    BY DEF CallsOfAdapters
  <2> QED
    BY <2>1, <2>2
<1>9. CASE batchVendor = "elevenlabs"
  <2>1. BatchVendor = R(<<"transcribe">>, "other", "other", "raw", FALSE, FALSE)
    BY <1>9 DEF BatchVendor, Batch!Vendor, Batch!Elevenlabs, Batch!Adapter, Batch!Post
  <2>2. <<"transcribe">> \in CallsOfAdapters
    BY DEF CallsOfAdapters
  <2> QED
    BY <2>1, <2>2
<1>10. CASE batchVendor = "azure"
  <2>1. BatchVendor = R(<<"transcribe">>, "other", "other", "raw", FALSE, FALSE)
    BY <1>10 DEF BatchVendor, Batch!Vendor, Batch!Azure, Batch!Adapter, Batch!Post
  <2>2. <<"transcribe">> \in CallsOfAdapters
    BY DEF CallsOfAdapters
  <2> QED
    BY <2>1, <2>2
<1> QED
  BY <1>1, <1>2, <1>3, <1>4, <1>5, <1>6, <1>7, <1>8, <1>9, <1>10 DEF BatchVendors

LEMMA CallsOfVendors ==
    ASSUME batchVendor \in BatchVendors
    PROVE  /\ BatchVendor.calls \in Seq(Batch!AllCalls) /\ Len(BatchVendor.calls) > 0
           /\ BatchVendor.cleans \in BOOLEAN
           /\ \A how \in {"timeout", "reset", "garbled"} :
                BatchVendor[how] \in {"timeout", "other", "raw"}
<1>1. PICK c \in CallsOfAdapters, t, r, g \in {"timeout", "other", "raw"}, d, k \in BOOLEAN :
             BatchVendor = [calls |-> c, timeout |-> t, reset |-> r, garbled |-> g,
                            cleans |-> d, checks |-> k]
  BY AdaptersOfVendors
<1>2. /\ BatchVendor.calls = c /\ BatchVendor.cleans = d
      /\ BatchVendor["timeout"] = t /\ BatchVendor["reset"] = r /\ BatchVendor["garbled"] = g
  BY <1>1
<1>3. c \in Seq(Batch!AllCalls) /\ Len(c) > 0
  <2> USE DEF Batch!AllCalls
  <2>1. CASE c = <<"upload", "create", "poll", "fetch">>
    BY <2>1
  <2>2. CASE c = <<"upload", "create", "poll">>
    BY <2>2
  <2>3. CASE c = <<"create", "poll", "fetch">>
    BY <2>3
  <2>4. CASE c = <<"transcribe">>
    BY <2>4
  <2> QED
    BY <2>1, <2>2, <2>3, <2>4 DEF CallsOfAdapters
<1> QED
  BY <1>2, <1>3

\* The checks of either endpoint, and where each stands.
LEMMA ChecksOfEndpoints ==
    ASSUME endpoint \in {"openai", "deepgram"}
    PROVE  /\ Batch!Checks \in Seq(BatchChecks) /\ Len(Batch!Checks) = 5
           /\ Batch!ToSet(Batch!Checks) = BatchChecks
           /\ \A i \in 1..5 :
                /\ Batch!Checks[i] = "audio" => i = IF endpoint = "openai" THEN 5 ELSE 4
                /\ endpoint = "deepgram" => (Batch!Checks[i] = "resolve" <=> i = 5)
<1> USE DEF Batch!Checks, BatchChecks
<1>1. CASE endpoint = "openai"
  <2>1. Batch!Checks = <<"credentials", "form", "blocked", "resolve", "audio">>
    BY <1>1 DEF Batch!TranscribeChecks
  <2> HIDE DEF Batch!Checks
  <2>2. Len(Batch!Checks) = 5 /\ Batch!Checks \in Seq(BatchChecks)
    BY <2>1
  <2>3. /\ Batch!Checks[1] = "credentials" /\ Batch!Checks[2] = "form"
        /\ Batch!Checks[3] = "blocked" /\ Batch!Checks[4] = "resolve" /\ Batch!Checks[5] = "audio"
    BY <2>1
  <2>4. Batch!ToSet(Batch!Checks) = {Batch!Checks[i] : i \in 1..5}
    BY <2>2 DEF Batch!ToSet
  <2>5. {Batch!Checks[i] : i \in 1..5} = BatchChecks
    BY <2>3
  <2> QED
    BY <1>1, <2>2, <2>3, <2>4, <2>5
<1>2. CASE endpoint = "deepgram"
  <2>1. Batch!Checks = <<"credentials", "blocked", "form", "audio", "resolve">>
    BY <1>2 DEF Batch!PrerecordedChecks
  <2> HIDE DEF Batch!Checks
  <2>2. Len(Batch!Checks) = 5 /\ Batch!Checks \in Seq(BatchChecks)
    BY <2>1
  <2>3. /\ Batch!Checks[1] = "credentials" /\ Batch!Checks[2] = "blocked"
        /\ Batch!Checks[3] = "form" /\ Batch!Checks[4] = "audio" /\ Batch!Checks[5] = "resolve"
    BY <2>1
  <2>4. Batch!ToSet(Batch!Checks) = {Batch!Checks[i] : i \in 1..5}
    BY <2>2 DEF Batch!ToSet
  <2>5. {Batch!Checks[i] : i \in 1..5} = BatchChecks
    BY <2>3
  <2> QED
    BY <1>2, <2>2, <2>3, <2>4, <2>5
<1> QED
  BY <1>1, <1>2

\* The steps of a request: the five checks, then the adapter's calls.
LEMMA StepsOfBatch ==
    ASSUME endpoint \in {"openai", "deepgram"}, batchVendor \in BatchVendors
    PROVE  /\ Len(Batch!Steps) = 5 + Len(BatchVendor.calls)
           /\ \A i \in 1..5 : Batch!Steps[i] = Batch!Checks[i] /\ Batch!Steps[i] \in BatchChecks
           /\ \A i \in 1..Len(BatchVendor.calls) :
                /\ Batch!Steps[5 + i] = BatchVendor.calls[i]
                /\ Batch!Steps[5 + i] \in Batch!AllCalls
<1> DEFINE S == BatchChecks \cup Batch!AllCalls
<1>1. /\ Batch!Checks \in Seq(BatchChecks) /\ Len(Batch!Checks) = 5
      /\ BatchVendor.calls \in Seq(Batch!AllCalls)
  BY ChecksOfEndpoints, CallsOfVendors
<1>2. Batch!Checks \in Seq(S) /\ BatchVendor.calls \in Seq(S)
  BY <1>1, SeqMonotonic
<1>3. Batch!Steps = Batch!Checks \o BatchVendor.calls
  BY DEF Batch!Steps, BatchVendor
<1>4. /\ Len(Batch!Checks \o BatchVendor.calls) = 5 + Len(BatchVendor.calls)
      /\ \A i \in 1..(5 + Len(BatchVendor.calls)) :
            (Batch!Checks \o BatchVendor.calls)[i] =
               IF i <= 5 THEN Batch!Checks[i] ELSE BatchVendor.calls[i - 5]
  <2>1. /\ Len(Batch!Checks \o BatchVendor.calls) = Len(Batch!Checks) + Len(BatchVendor.calls)
        /\ \A i \in 1..(Len(Batch!Checks) + Len(BatchVendor.calls)) :
              (Batch!Checks \o BatchVendor.calls)[i] =
                 IF i <= Len(Batch!Checks) THEN Batch!Checks[i]
                 ELSE BatchVendor.calls[i - Len(Batch!Checks)]
    BY <1>2, ConcatProperties, Zenon
  <2> QED
    BY <1>1, <2>1
<1>5. Len(BatchVendor.calls) \in Nat
  BY <1>1
<1>6. /\ \A i \in 1..5 : Batch!Checks[i] \in BatchChecks
      /\ \A i \in 1..Len(BatchVendor.calls) : BatchVendor.calls[i] \in Batch!AllCalls
  BY <1>1, ElementOfSeq
<1>7. ASSUME NEW i \in 1..Len(BatchVendor.calls)
      PROVE  Batch!Steps[5 + i] = BatchVendor.calls[i]
  <2>1. 5 + i \in 1..(5 + Len(BatchVendor.calls)) /\ ~ (5 + i <= 5) /\ (5 + i) - 5 = i
    BY <1>5
  <2> QED
    BY <1>3, <1>4, <2>1
<1> QED
  BY <1>3, <1>4, <1>5, <1>6, <1>7, SMTT(30), ZenonT(30)

\* What follows a check is a check or the first call, what follows a call is a
\* call, and audio comes where it comes.
LEMMA AfterAStep ==
    ASSUME endpoint \in {"openai", "deepgram"}, batchVendor \in BatchVendors
    PROVE  /\ \A check \in BatchChecks :
                /\ \/ Batch!After(check) \in BatchChecks
                   \/ \E i \in 1..Len(BatchVendor.calls) : Batch!After(check) = BatchVendor.calls[i]
                /\ check = "audio" /\ Batch!After(check) \in BatchChecks =>
                     endpoint = "deepgram" /\ Batch!After(check) = "resolve"
                /\ check = "resolve" /\ endpoint = "deepgram" => Batch!After(check) \notin BatchChecks
           /\ \A i \in 1..Len(BatchVendor.calls) : ~Batch!IsLast(BatchVendor.calls[i]) =>
                \E j \in 1..Len(BatchVendor.calls) :
                   Batch!After(BatchVendor.calls[i]) = BatchVendor.calls[j]
<1> DEFINE n == Len(BatchVendor.calls)
           at(x) == CHOOSE i \in 1..Len(Batch!Steps) : Batch!Steps[i] = x
<1>1. n \in Nat /\ n > 0 /\ BatchChecks \cap Batch!AllCalls = {}
  BY CallsOfVendors DEF BatchChecks, Batch!AllCalls
<1>2. /\ Len(Batch!Steps) = 5 + n
      /\ \A i \in 1..5 : Batch!Steps[i] = Batch!Checks[i] /\ Batch!Steps[i] \in BatchChecks
      /\ \A i \in 1..n : Batch!Steps[5 + i] = BatchVendor.calls[i] /\ Batch!Steps[5 + i] \in Batch!AllCalls
  BY StepsOfBatch
<1>3. \A x : Batch!After(x) = Batch!Steps[at(x) + 1]
  BY DEF Batch!After
<1>4. /\ \A x \in BatchChecks : \E i \in 1..5 : Batch!Checks[i] = x
      /\ \A i \in 1..5 :
           /\ Batch!Checks[i] = "audio" => i = IF endpoint = "openai" THEN 5 ELSE 4
           /\ endpoint = "deepgram" => (Batch!Checks[i] = "resolve" <=> i = 5)
  BY ChecksOfEndpoints DEF Batch!ToSet
<1>5. \A i \in 6..(5 + n) : Batch!Steps[i] = BatchVendor.calls[i - 5] /\ Batch!Steps[i] \in Batch!AllCalls
  <2> SUFFICES ASSUME NEW i \in 6..(5 + n)
               PROVE  Batch!Steps[i] = BatchVendor.calls[i - 5] /\ Batch!Steps[i] \in Batch!AllCalls
    OBVIOUS
  <2>1. i - 5 \in 1..n /\ 5 + (i - 5) = i
    BY <1>1
  <2> QED
    BY <1>2, <2>1
<1> HIDE DEF n, at
<1>6. ASSUME NEW check \in BatchChecks
      PROVE  at(check) \in 1..5 /\ Batch!Checks[at(check)] = check
  <2>1. \E i \in 1..Len(Batch!Steps) : Batch!Steps[i] = check
    BY <1>1, <1>2, <1>4
  <2>2. at(check) \in 1..Len(Batch!Steps) /\ Batch!Steps[at(check)] = check
    BY <2>1 DEF at
  <2>3. at(check) \notin 6..(5 + n)
    BY <1>1, <1>5, <2>2
  <2> QED
    BY <1>1, <1>2, <2>2, <2>3
<1>7. ASSUME NEW check \in BatchChecks
      PROVE  /\ \/ Batch!After(check) \in BatchChecks
                \/ \E i \in 1..n : Batch!After(check) = BatchVendor.calls[i]
             /\ check = "audio" /\ Batch!After(check) \in BatchChecks =>
                  endpoint = "deepgram" /\ Batch!After(check) = "resolve"
             /\ check = "resolve" /\ endpoint = "deepgram" => Batch!After(check) \notin BatchChecks
  <2>1. at(check) \in 1..5 /\ Batch!Checks[at(check)] = check /\ Batch!After(check) = Batch!Steps[at(check) + 1]
    BY <1>3, <1>6
  <2>2. CASE at(check) = 5
    <3>1. Batch!After(check) = BatchVendor.calls[1] /\ Batch!After(check) \in Batch!AllCalls
      BY <1>1, <1>5, <2>1, <2>2
    <3> QED
      BY <1>1, <3>1
  <2>3. CASE at(check) # 5
    <3>1. at(check) + 1 \in 1..5 /\ Batch!After(check) = Batch!Checks[at(check) + 1]
      BY <1>2, <2>1, <2>3
    <3>2. Batch!After(check) \in BatchChecks
      BY <1>2, <3>1
    <3>3. check = "audio" => endpoint = "deepgram" /\ Batch!After(check) = "resolve"
      BY <1>4, <2>1, <2>3, <3>1
    <3>4. ~ (check = "resolve" /\ endpoint = "deepgram")
      BY <1>4, <2>1, <2>3
    <3> QED
      BY <3>2, <3>3, <3>4
  <2> QED
    BY <2>2, <2>3
<1>8. ASSUME NEW i \in 1..n, ~Batch!IsLast(BatchVendor.calls[i])
      PROVE  \E j \in 1..n : Batch!After(BatchVendor.calls[i]) = BatchVendor.calls[j]
  <2> DEFINE call == BatchVendor.calls[i]
  <2>1. call \in Batch!AllCalls /\ call = Batch!Steps[5 + i] /\ 5 + i \in 1..Len(Batch!Steps)
    BY <1>1, <1>2
  <2>2. at(call) \in 1..Len(Batch!Steps) /\ Batch!Steps[at(call)] = call
    BY <2>1 DEF at
  <2>3. at(call) \notin 1..5
    BY <1>1, <1>2, <2>1, <2>2
  <2>4. at(call) # 5 + n
    BY <1>2, <1>8, <2>2 DEF Batch!IsLast
  <2>5. at(call) + 1 \in 6..(5 + n) /\ (at(call) + 1) - 5 \in 1..n
    BY <1>1, <1>2, <2>2, <2>3, <2>4
  <2> QED
    BY <1>3, <1>5, <2>5
<1> QED
  BY <1>7, <1>8 DEF n

\* An answered call leads to the next one or, when it was the last, to the end
\* of transcribe() with a payload.
LEMMA AnsweredCall ==
    ASSUME BatchTypes, BatchCalls, NEW call \in Batch!AllCalls,
           Batch!Answered(call) \/ (call = "poll" /\ Batch!PollCompleted)
    PROVE  /\ step = call
           /\ \/ /\ \E i \in 1..Len(BatchVendor.calls) : step' = BatchVendor.calls[i]
                 /\ step' \in Batch!AllCalls /\ UNCHANGED <<outcome, payload>>
              \/ /\ step' = IF BatchVendor.cleans THEN "delete job" ELSE "settle"
                 /\ outcome' = "completed" /\ payload' \in BatchPayloads
<1>1. step = call
  BY DEF Batch!Answered, Batch!PollCompleted
<1>2. \/ Batch!IsLast(call) /\ Batch!Concludes("completed") /\ payload' \in BatchPayloads
      \/ ~Batch!IsLast(call) /\ step' = Batch!After(call) /\ UNCHANGED <<outcome, payload>>
  BY DEF Batch!Answered, Batch!PollCompleted
<1>3. PICK i \in 1..Len(BatchVendor.calls) : call = BatchVendor.calls[i]
  BY <1>1 DEF BatchCalls
<1>4. \A j \in 1..Len(BatchVendor.calls) : BatchVendor.calls[j] \in Batch!AllCalls
  BY CallsOfVendors, ElementOfSeq DEF BatchTypes
<1>5. ~Batch!IsLast(call) =>
        \E j \in 1..Len(BatchVendor.calls) : Batch!After(call) = BatchVendor.calls[j]
  BY <1>3, AfterAStep DEF BatchTypes
<1> QED
  BY <1>1, <1>2, <1>4, <1>5 DEF Batch!Concludes, BatchVendor

LEMMA BatchTypesStep ==
    ASSUME BatchTypes, BatchCalls, BatchStage, BatchPayload, Batch!Next
    PROVE  BatchTypes'
<1> USE DEF BatchTypes, BatchCalls, BatchStage, BatchPayload, Batch!request, BatchVendor, BatchChecks, BatchEnds, Batch!AllCalls
<1>a. /\ Batch!ToSet(Batch!Checks) = BatchChecks
      /\ \A check \in BatchChecks :
            /\ \/ Batch!After(check) \in BatchChecks
               \/ \E i \in 1..Len(BatchVendor.calls) : Batch!After(check) = BatchVendor.calls[i]
            /\ check = "audio" /\ Batch!After(check) \in BatchChecks =>
                 endpoint = "deepgram" /\ Batch!After(check) = "resolve"
            /\ check = "resolve" /\ endpoint = "deepgram" => Batch!After(check) \notin BatchChecks
      /\ \A i \in 1..Len(BatchVendor.calls) : ~Batch!IsLast(BatchVendor.calls[i]) =>
            \E j \in 1..Len(BatchVendor.calls) :
               Batch!After(BatchVendor.calls[i]) = BatchVendor.calls[j]
  BY AfterAStep, ChecksOfEndpoints
<1>b. /\ \A i \in 1..Len(BatchVendor.calls) : BatchVendor.calls[i] \in Batch!AllCalls
      /\ BatchVendor.cleans \in BOOLEAN
      /\ \A how \in {"timeout", "reset", "garbled"} :
                BatchVendor[how] \in {"timeout", "other", "raw"}
  BY CallsOfVendors, ElementOfSeq
<1>c. ASSUME NEW call \in Batch!AllCalls,
             Batch!Answered(call) \/ (call = "poll" /\ Batch!PollCompleted)
      PROVE  /\ step = call
             /\ \/ /\ \E i \in 1..Len(BatchVendor.calls) : step' = BatchVendor.calls[i]
                   /\ step' \in Batch!AllCalls /\ UNCHANGED <<outcome, payload>>
                \/ /\ step' = IF BatchVendor.cleans THEN "delete job" ELSE "settle"
                   /\ outcome' = "completed" /\ payload' \in BatchPayloads
  BY <1>c, AnsweredCall
<1>1. CASE Batch!Pass
  BY <1>a, <1>b, <1>1 DEF Batch!Pass
<1>2. CASE Batch!Refuse
  BY <1>a, <1>b, <1>2 DEF Batch!Refuse, Batch!RefusalOf
<1>3. ASSUME NEW call \in Batch!AllCalls, Batch!Answered(call) PROVE BatchTypes'
  <2>1. /\ artifacts' = artifacts \cup Batch!ArtifactOf(call)
        /\ known' = known \cup Batch!ArtifactOf(call)
        /\ Batch!ArtifactOf(call) \subseteq {"file", "job"}
        /\ called' = TRUE
        /\ UNCHANGED <<endpoint, batchVendor, polls, reply, usage, fetched, doubtful>>
    BY <1>3 DEF Batch!Answered, Batch!ArtifactOf
  <2> QED
    BY <1>b, <1>c, <1>3, <2>1
<1>4. ASSUME NEW call \in Batch!AllCalls, Batch!Refused(call) PROVE BatchTypes'
  BY <1>a, <1>b, <1>4 DEF Batch!Refused, Batch!Concludes
<1>5. ASSUME NEW call \in Batch!AllCalls, NEW how \in {"timeout", "reset", "garbled"}, Batch!Lost(call, how) PROVE BatchTypes'
  BY <1>a, <1>b, <1>5 DEF Batch!Lost, Batch!Concludes, Batch!ArtifactOf
<1>6. CASE Batch!CheckWav
  BY <1>a, <1>b, <1>6 DEF Batch!CheckWav, Batch!Concludes
<1>7. CASE Batch!PollCompleted
  <2>1. UNCHANGED <<endpoint, batchVendor, polls, artifacts, known, reply, usage, fetched,
                    called, doubtful>>
    BY <1>7 DEF Batch!PollCompleted
  <2> QED
    BY <1>b, <1>c, <1>7, <2>1
<1>8. CASE Batch!PollFailed
  BY <1>a, <1>b, <1>8 DEF Batch!PollFailed, Batch!Concludes
<1>9. CASE Batch!PollPending
  <2>1. polls' \in 0..BatchPolls
    BY <1>9, PartsAssumption DEF Batch!PollPending, Batch!BudgetSpent, Batch!Spends
  <2> QED
    BY <1>b, <1>9, <2>1 DEF Batch!PollPending, Batch!Concludes
<1>10. CASE Batch!Delete("delete job", "job", "delete file")
  BY <1>a, <1>b, <1>10 DEF Batch!Delete
<1>11. CASE Batch!Delete("delete file", "file", "settle")
  BY <1>a, <1>b, <1>11 DEF Batch!Delete
<1>12. CASE Batch!Settle
  BY <1>a, <1>b, <1>12 DEF Batch!Settle, Batch!StatusOf, Batch!AnswerOf
<1> QED
  BY <1>1, <1>2, <1>3, <1>4, <1>5, <1>6, <1>7, <1>8, <1>9, <1>10, <1>11, <1>12 DEF Batch!Next, Batch!Works

LEMMA BatchCallsStep ==
    ASSUME BatchTypes, BatchCalls, Batch!Next
    PROVE  BatchCalls'
<1> USE DEF BatchTypes, BatchCalls, Batch!request, BatchVendor, BatchChecks, BatchEnds, Batch!AllCalls
<1>a. /\ Batch!ToSet(Batch!Checks) = BatchChecks
      /\ \A check \in BatchChecks :
            /\ \/ Batch!After(check) \in BatchChecks
               \/ \E i \in 1..Len(BatchVendor.calls) : Batch!After(check) = BatchVendor.calls[i]
            /\ check = "audio" /\ Batch!After(check) \in BatchChecks =>
                 endpoint = "deepgram" /\ Batch!After(check) = "resolve"
            /\ check = "resolve" /\ endpoint = "deepgram" => Batch!After(check) \notin BatchChecks
      /\ \A i \in 1..Len(BatchVendor.calls) : ~Batch!IsLast(BatchVendor.calls[i]) =>
            \E j \in 1..Len(BatchVendor.calls) :
               Batch!After(BatchVendor.calls[i]) = BatchVendor.calls[j]
  BY AfterAStep, ChecksOfEndpoints
<1>b. /\ \A i \in 1..Len(BatchVendor.calls) : BatchVendor.calls[i] \in Batch!AllCalls
      /\ BatchVendor.cleans \in BOOLEAN
      /\ \A how \in {"timeout", "reset", "garbled"} :
                BatchVendor[how] \in {"timeout", "other", "raw"}
  BY CallsOfVendors, ElementOfSeq
<1>c. ASSUME NEW call \in Batch!AllCalls,
             Batch!Answered(call) \/ (call = "poll" /\ Batch!PollCompleted)
      PROVE  /\ step = call
             /\ \/ /\ \E i \in 1..Len(BatchVendor.calls) : step' = BatchVendor.calls[i]
                   /\ step' \in Batch!AllCalls /\ UNCHANGED <<outcome, payload>>
                \/ /\ step' = IF BatchVendor.cleans THEN "delete job" ELSE "settle"
                   /\ outcome' = "completed" /\ payload' \in BatchPayloads
  BY <1>c, AnsweredCall
<1>1. CASE Batch!Pass
  BY <1>a, <1>b, <1>1 DEF Batch!Pass
<1>2. CASE Batch!Refuse
  BY <1>a, <1>b, <1>2 DEF Batch!Refuse, Batch!RefusalOf
<1>3. ASSUME NEW call \in Batch!AllCalls, Batch!Answered(call) PROVE BatchCalls'
  <2>1. /\ artifacts' = artifacts \cup Batch!ArtifactOf(call)
        /\ known' = known \cup Batch!ArtifactOf(call)
        /\ Batch!ArtifactOf(call) \subseteq {"file", "job"}
        /\ called' = TRUE
        /\ UNCHANGED <<endpoint, batchVendor, polls, reply, usage, fetched, doubtful>>
    BY <1>3 DEF Batch!Answered, Batch!ArtifactOf
  <2> QED
    BY <1>b, <1>c, <1>3, <2>1
<1>4. ASSUME NEW call \in Batch!AllCalls, Batch!Refused(call) PROVE BatchCalls'
  BY <1>a, <1>b, <1>4 DEF Batch!Refused, Batch!Concludes
<1>5. ASSUME NEW call \in Batch!AllCalls, NEW how \in {"timeout", "reset", "garbled"}, Batch!Lost(call, how) PROVE BatchCalls'
  BY <1>a, <1>b, <1>5 DEF Batch!Lost, Batch!Concludes, Batch!ArtifactOf
<1>6. CASE Batch!CheckWav
  BY <1>a, <1>b, <1>6 DEF Batch!CheckWav, Batch!Concludes
<1>7. CASE Batch!PollCompleted
  <2>1. UNCHANGED <<endpoint, batchVendor, polls, artifacts, known, reply, usage, fetched,
                    called, doubtful>>
    BY <1>7 DEF Batch!PollCompleted
  <2> QED
    BY <1>b, <1>c, <1>7, <2>1
<1>8. CASE Batch!PollFailed
  BY <1>a, <1>b, <1>8 DEF Batch!PollFailed, Batch!Concludes
<1>9. CASE Batch!PollPending
  BY <1>a, <1>b, <1>9 DEF Batch!PollPending, Batch!Concludes, Batch!BudgetSpent, Batch!Spends
<1>10. CASE Batch!Delete("delete job", "job", "delete file")
  BY <1>a, <1>b, <1>10 DEF Batch!Delete
<1>11. CASE Batch!Delete("delete file", "file", "settle")
  BY <1>a, <1>b, <1>11 DEF Batch!Delete
<1>12. CASE Batch!Settle
  BY <1>a, <1>b, <1>12 DEF Batch!Settle, Batch!StatusOf, Batch!AnswerOf
<1> QED
  BY <1>1, <1>2, <1>3, <1>4, <1>5, <1>6, <1>7, <1>8, <1>9, <1>10, <1>11, <1>12 DEF Batch!Next, Batch!Works

LEMMA BatchPayloadStep ==
    ASSUME BatchTypes, BatchCalls, BatchStage, BatchPayload, Batch!Next
    PROVE  BatchPayload'
<1> USE DEF BatchTypes, BatchCalls, BatchStage, BatchPayload, Batch!request, BatchVendor, BatchChecks, BatchEnds, Batch!AllCalls
<1>a. /\ Batch!ToSet(Batch!Checks) = BatchChecks
      /\ \A check \in BatchChecks :
            /\ \/ Batch!After(check) \in BatchChecks
               \/ \E i \in 1..Len(BatchVendor.calls) : Batch!After(check) = BatchVendor.calls[i]
            /\ check = "audio" /\ Batch!After(check) \in BatchChecks =>
                 endpoint = "deepgram" /\ Batch!After(check) = "resolve"
            /\ check = "resolve" /\ endpoint = "deepgram" => Batch!After(check) \notin BatchChecks
      /\ \A i \in 1..Len(BatchVendor.calls) : ~Batch!IsLast(BatchVendor.calls[i]) =>
            \E j \in 1..Len(BatchVendor.calls) :
               Batch!After(BatchVendor.calls[i]) = BatchVendor.calls[j]
  BY AfterAStep, ChecksOfEndpoints
<1>b. /\ \A i \in 1..Len(BatchVendor.calls) : BatchVendor.calls[i] \in Batch!AllCalls
      /\ BatchVendor.cleans \in BOOLEAN
      /\ \A how \in {"timeout", "reset", "garbled"} :
                BatchVendor[how] \in {"timeout", "other", "raw"}
  BY CallsOfVendors, ElementOfSeq
<1>c. ASSUME NEW call \in Batch!AllCalls,
             Batch!Answered(call) \/ (call = "poll" /\ Batch!PollCompleted)
      PROVE  /\ step = call
             /\ \/ /\ \E i \in 1..Len(BatchVendor.calls) : step' = BatchVendor.calls[i]
                   /\ step' \in Batch!AllCalls /\ UNCHANGED <<outcome, payload>>
                \/ /\ step' = IF BatchVendor.cleans THEN "delete job" ELSE "settle"
                   /\ outcome' = "completed" /\ payload' \in BatchPayloads
  BY <1>c, AnsweredCall
<1>1. CASE Batch!Pass
  BY <1>a, <1>b, <1>1 DEF Batch!Pass
<1>2. CASE Batch!Refuse
  BY <1>a, <1>b, <1>2 DEF Batch!Refuse, Batch!RefusalOf
<1>3. ASSUME NEW call \in Batch!AllCalls, Batch!Answered(call) PROVE BatchPayload'
  <2>1. /\ artifacts' = artifacts \cup Batch!ArtifactOf(call)
        /\ known' = known \cup Batch!ArtifactOf(call)
        /\ Batch!ArtifactOf(call) \subseteq {"file", "job"}
        /\ called' = TRUE
        /\ UNCHANGED <<endpoint, batchVendor, polls, reply, usage, fetched, doubtful>>
    BY <1>3 DEF Batch!Answered, Batch!ArtifactOf
  <2> QED
    BY <1>b, <1>c, <1>3, <2>1
<1>4. ASSUME NEW call \in Batch!AllCalls, Batch!Refused(call) PROVE BatchPayload'
  BY <1>a, <1>b, <1>4 DEF Batch!Refused, Batch!Concludes
<1>5. ASSUME NEW call \in Batch!AllCalls, NEW how \in {"timeout", "reset", "garbled"}, Batch!Lost(call, how) PROVE BatchPayload'
  BY <1>a, <1>b, <1>5 DEF Batch!Lost, Batch!Concludes, Batch!ArtifactOf
<1>6. CASE Batch!CheckWav
  BY <1>a, <1>b, <1>6 DEF Batch!CheckWav, Batch!Concludes
<1>7. CASE Batch!PollCompleted
  <2>1. UNCHANGED <<endpoint, batchVendor, polls, artifacts, known, reply, usage, fetched,
                    called, doubtful>>
    BY <1>7 DEF Batch!PollCompleted
  <2> QED
    BY <1>b, <1>c, <1>7, <2>1
<1>8. CASE Batch!PollFailed
  BY <1>a, <1>b, <1>8 DEF Batch!PollFailed, Batch!Concludes
<1>9. CASE Batch!PollPending
  BY <1>a, <1>b, <1>9 DEF Batch!PollPending, Batch!Concludes, Batch!BudgetSpent, Batch!Spends
<1>10. CASE Batch!Delete("delete job", "job", "delete file")
  BY <1>a, <1>b, <1>10 DEF Batch!Delete
<1>11. CASE Batch!Delete("delete file", "file", "settle")
  BY <1>a, <1>b, <1>11 DEF Batch!Delete
<1>12. CASE Batch!Settle
  BY <1>a, <1>b, <1>12 DEF Batch!Settle, Batch!StatusOf, Batch!AnswerOf
<1> QED
  BY <1>1, <1>2, <1>3, <1>4, <1>5, <1>6, <1>7, <1>8, <1>9, <1>10, <1>11, <1>12 DEF Batch!Next, Batch!Works

LEMMA BatchStageStep ==
    ASSUME BatchTypes, BatchCalls, BatchStage, Batch!Next
    PROVE  BatchStage'
<1> USE DEF BatchTypes, BatchCalls, BatchStage, Batch!request, BatchVendor, BatchChecks, BatchEnds, Batch!AllCalls
<1>a. /\ Batch!ToSet(Batch!Checks) = BatchChecks
      /\ \A check \in BatchChecks :
            /\ \/ Batch!After(check) \in BatchChecks
               \/ \E i \in 1..Len(BatchVendor.calls) : Batch!After(check) = BatchVendor.calls[i]
            /\ check = "audio" /\ Batch!After(check) \in BatchChecks =>
                 endpoint = "deepgram" /\ Batch!After(check) = "resolve"
            /\ check = "resolve" /\ endpoint = "deepgram" => Batch!After(check) \notin BatchChecks
      /\ \A i \in 1..Len(BatchVendor.calls) : ~Batch!IsLast(BatchVendor.calls[i]) =>
            \E j \in 1..Len(BatchVendor.calls) :
               Batch!After(BatchVendor.calls[i]) = BatchVendor.calls[j]
  BY AfterAStep, ChecksOfEndpoints
<1>b. /\ \A i \in 1..Len(BatchVendor.calls) : BatchVendor.calls[i] \in Batch!AllCalls
      /\ BatchVendor.cleans \in BOOLEAN
      /\ \A how \in {"timeout", "reset", "garbled"} :
                BatchVendor[how] \in {"timeout", "other", "raw"}
  BY CallsOfVendors, ElementOfSeq
<1>c. ASSUME NEW call \in Batch!AllCalls,
             Batch!Answered(call) \/ (call = "poll" /\ Batch!PollCompleted)
      PROVE  /\ step = call
             /\ \/ /\ \E i \in 1..Len(BatchVendor.calls) : step' = BatchVendor.calls[i]
                   /\ step' \in Batch!AllCalls /\ UNCHANGED <<outcome, payload>>
                \/ /\ step' = IF BatchVendor.cleans THEN "delete job" ELSE "settle"
                   /\ outcome' = "completed" /\ payload' \in BatchPayloads
  BY <1>c, AnsweredCall
<1>1. CASE Batch!Pass
  BY <1>a, <1>b, <1>1, SMTT(30), ZenonT(30) DEF Batch!Pass
<1>2. CASE Batch!Refuse
  BY <1>a, <1>b, <1>2 DEF Batch!Refuse, Batch!RefusalOf
<1>3. ASSUME NEW call \in Batch!AllCalls, Batch!Answered(call) PROVE BatchStage'
  <2>1. /\ artifacts' = artifacts \cup Batch!ArtifactOf(call)
        /\ known' = known \cup Batch!ArtifactOf(call)
        /\ Batch!ArtifactOf(call) \subseteq {"file", "job"}
        /\ called' = TRUE
        /\ UNCHANGED <<endpoint, batchVendor, polls, reply, usage, fetched, doubtful>>
    BY <1>3 DEF Batch!Answered, Batch!ArtifactOf
  <2> QED
    BY <1>b, <1>c, <1>3, <2>1
<1>4. ASSUME NEW call \in Batch!AllCalls, Batch!Refused(call) PROVE BatchStage'
  BY <1>a, <1>b, <1>4 DEF Batch!Refused, Batch!Concludes
<1>5. ASSUME NEW call \in Batch!AllCalls, NEW how \in {"timeout", "reset", "garbled"}, Batch!Lost(call, how) PROVE BatchStage'
  BY <1>a, <1>b, <1>5 DEF Batch!Lost, Batch!Concludes, Batch!ArtifactOf
<1>6. CASE Batch!CheckWav
  BY <1>a, <1>b, <1>6 DEF Batch!CheckWav, Batch!Concludes
<1>7. CASE Batch!PollCompleted
  <2>1. UNCHANGED <<endpoint, batchVendor, polls, artifacts, known, reply, usage, fetched,
                    called, doubtful>>
    BY <1>7 DEF Batch!PollCompleted
  <2> QED
    BY <1>b, <1>c, <1>7, <2>1
<1>8. CASE Batch!PollFailed
  BY <1>a, <1>b, <1>8 DEF Batch!PollFailed, Batch!Concludes
<1>9. CASE Batch!PollPending
  BY <1>a, <1>b, <1>9 DEF Batch!PollPending, Batch!Concludes, Batch!BudgetSpent, Batch!Spends
<1>10. CASE Batch!Delete("delete job", "job", "delete file")
  BY <1>a, <1>b, <1>10 DEF Batch!Delete
<1>11. CASE Batch!Delete("delete file", "file", "settle")
  BY <1>a, <1>b, <1>11 DEF Batch!Delete
<1>12. CASE Batch!Settle
  BY <1>a, <1>b, <1>12 DEF Batch!Settle, Batch!StatusOf, Batch!AnswerOf
<1> QED
  BY <1>1, <1>2, <1>3, <1>4, <1>5, <1>6, <1>7, <1>8, <1>9, <1>10, <1>11, <1>12 DEF Batch!Next, Batch!Works

LEMMA BatchEventStep ==
    ASSUME BatchTypes, BatchCalls, BatchStage, BatchEvent, BatchPayload, Batch!Next
    PROVE  BatchEvent'
<1> USE DEF BatchTypes, BatchCalls, BatchStage, BatchEvent, BatchPayload, Batch!request, BatchVendor, BatchChecks, BatchEnds, Batch!AllCalls
<1>a. /\ Batch!ToSet(Batch!Checks) = BatchChecks
      /\ \A check \in BatchChecks :
            /\ \/ Batch!After(check) \in BatchChecks
               \/ \E i \in 1..Len(BatchVendor.calls) : Batch!After(check) = BatchVendor.calls[i]
            /\ check = "audio" /\ Batch!After(check) \in BatchChecks =>
                 endpoint = "deepgram" /\ Batch!After(check) = "resolve"
            /\ check = "resolve" /\ endpoint = "deepgram" => Batch!After(check) \notin BatchChecks
      /\ \A i \in 1..Len(BatchVendor.calls) : ~Batch!IsLast(BatchVendor.calls[i]) =>
            \E j \in 1..Len(BatchVendor.calls) :
               Batch!After(BatchVendor.calls[i]) = BatchVendor.calls[j]
  BY AfterAStep, ChecksOfEndpoints
<1>b. /\ \A i \in 1..Len(BatchVendor.calls) : BatchVendor.calls[i] \in Batch!AllCalls
      /\ BatchVendor.cleans \in BOOLEAN
      /\ \A how \in {"timeout", "reset", "garbled"} :
                BatchVendor[how] \in {"timeout", "other", "raw"}
  BY CallsOfVendors, ElementOfSeq
<1>c. ASSUME NEW call \in Batch!AllCalls,
             Batch!Answered(call) \/ (call = "poll" /\ Batch!PollCompleted)
      PROVE  /\ step = call
             /\ \/ /\ \E i \in 1..Len(BatchVendor.calls) : step' = BatchVendor.calls[i]
                   /\ step' \in Batch!AllCalls /\ UNCHANGED <<outcome, payload>>
                \/ /\ step' = IF BatchVendor.cleans THEN "delete job" ELSE "settle"
                   /\ outcome' = "completed" /\ payload' \in BatchPayloads
  BY <1>c, AnsweredCall
<1>1. CASE Batch!Pass
  BY <1>a, <1>b, <1>1 DEF Batch!Pass
<1>2. CASE Batch!Refuse
  BY <1>a, <1>b, <1>2 DEF Batch!Refuse, Batch!RefusalOf
<1>3. ASSUME NEW call \in Batch!AllCalls, Batch!Answered(call) PROVE BatchEvent'
  <2>1. /\ artifacts' = artifacts \cup Batch!ArtifactOf(call)
        /\ known' = known \cup Batch!ArtifactOf(call)
        /\ Batch!ArtifactOf(call) \subseteq {"file", "job"}
        /\ called' = TRUE
        /\ UNCHANGED <<endpoint, batchVendor, polls, reply, usage, fetched, doubtful>>
    BY <1>3 DEF Batch!Answered, Batch!ArtifactOf
  <2> QED
    BY <1>b, <1>c, <1>3, <2>1
<1>4. ASSUME NEW call \in Batch!AllCalls, Batch!Refused(call) PROVE BatchEvent'
  BY <1>a, <1>b, <1>4 DEF Batch!Refused, Batch!Concludes
<1>5. ASSUME NEW call \in Batch!AllCalls, NEW how \in {"timeout", "reset", "garbled"}, Batch!Lost(call, how) PROVE BatchEvent'
  BY <1>a, <1>b, <1>5 DEF Batch!Lost, Batch!Concludes, Batch!ArtifactOf
<1>6. CASE Batch!CheckWav
  BY <1>a, <1>b, <1>6 DEF Batch!CheckWav, Batch!Concludes
<1>7. CASE Batch!PollCompleted
  <2>1. UNCHANGED <<endpoint, batchVendor, polls, artifacts, known, reply, usage, fetched,
                    called, doubtful>>
    BY <1>7 DEF Batch!PollCompleted
  <2> QED
    BY <1>b, <1>c, <1>7, <2>1
<1>8. CASE Batch!PollFailed
  BY <1>a, <1>b, <1>8 DEF Batch!PollFailed, Batch!Concludes
<1>9. CASE Batch!PollPending
  BY <1>a, <1>b, <1>9 DEF Batch!PollPending, Batch!Concludes, Batch!BudgetSpent, Batch!Spends
<1>10. CASE Batch!Delete("delete job", "job", "delete file")
  BY <1>a, <1>b, <1>10 DEF Batch!Delete
<1>11. CASE Batch!Delete("delete file", "file", "settle")
  BY <1>a, <1>b, <1>11 DEF Batch!Delete
<1>12. CASE Batch!Settle
  <2>1. /\ usage = <<>> /\ step' = "done" /\ outcome # "none"
        /\ UNCHANGED <<batchVendor, payload, outcome>>
        /\ usage' = Append(usage, [status |-> Batch!StatusOf(outcome),
                                   seconds |-> Batch!BilledSeconds])
        /\ reply' = Batch!AnswerOf(outcome)
    BY <1>12 DEF Batch!Settle
  <2>2. /\ Batch!BilledSeconds' = Batch!BilledSeconds
        /\ Batch!StatusOf(outcome)' = Batch!StatusOf(outcome)
        /\ Batch!AnswerOf(outcome)' = Batch!AnswerOf(outcome)
    BY <2>1 DEF Batch!BilledSeconds, Batch!StatusOf, Batch!AnswerOf
  <2>4. usage' = <<[status |-> Batch!StatusOf(outcome), seconds |-> Batch!BilledSeconds]>>
    BY <2>1, AppendToNone, Zenon
  <2> QED
    BY <2>1, <2>2, <2>4
<1> QED
  BY <1>1, <1>2, <1>3, <1>4, <1>5, <1>6, <1>7, <1>8, <1>9, <1>10, <1>11, <1>12 DEF Batch!Next, Batch!Works

LEMMA BatchLeftStep ==
    ASSUME BatchTypes, BatchCalls, BatchStage, BatchLeft, Batch!Next
    PROVE  BatchLeft'
<1> USE DEF BatchTypes, BatchCalls, BatchStage, BatchLeft, Batch!request, BatchVendor, BatchChecks, BatchEnds, Batch!AllCalls
<1>a. /\ Batch!ToSet(Batch!Checks) = BatchChecks
      /\ \A check \in BatchChecks :
            /\ \/ Batch!After(check) \in BatchChecks
               \/ \E i \in 1..Len(BatchVendor.calls) : Batch!After(check) = BatchVendor.calls[i]
            /\ check = "audio" /\ Batch!After(check) \in BatchChecks =>
                 endpoint = "deepgram" /\ Batch!After(check) = "resolve"
            /\ check = "resolve" /\ endpoint = "deepgram" => Batch!After(check) \notin BatchChecks
      /\ \A i \in 1..Len(BatchVendor.calls) : ~Batch!IsLast(BatchVendor.calls[i]) =>
            \E j \in 1..Len(BatchVendor.calls) :
               Batch!After(BatchVendor.calls[i]) = BatchVendor.calls[j]
  BY AfterAStep, ChecksOfEndpoints
<1>b. /\ \A i \in 1..Len(BatchVendor.calls) : BatchVendor.calls[i] \in Batch!AllCalls
      /\ BatchVendor.cleans \in BOOLEAN
      /\ \A how \in {"timeout", "reset", "garbled"} :
                BatchVendor[how] \in {"timeout", "other", "raw"}
  BY CallsOfVendors, ElementOfSeq
<1>c. ASSUME NEW call \in Batch!AllCalls,
             Batch!Answered(call) \/ (call = "poll" /\ Batch!PollCompleted)
      PROVE  /\ step = call
             /\ \/ /\ \E i \in 1..Len(BatchVendor.calls) : step' = BatchVendor.calls[i]
                   /\ step' \in Batch!AllCalls /\ UNCHANGED <<outcome, payload>>
                \/ /\ step' = IF BatchVendor.cleans THEN "delete job" ELSE "settle"
                   /\ outcome' = "completed" /\ payload' \in BatchPayloads
  BY <1>c, AnsweredCall
<1>1. CASE Batch!Pass
  BY <1>a, <1>b, <1>1 DEF Batch!Pass
<1>2. CASE Batch!Refuse
  BY <1>a, <1>b, <1>2 DEF Batch!Refuse, Batch!RefusalOf
<1>3. ASSUME NEW call \in Batch!AllCalls, Batch!Answered(call) PROVE BatchLeft'
  <2>1. /\ artifacts' = artifacts \cup Batch!ArtifactOf(call)
        /\ known' = known \cup Batch!ArtifactOf(call)
        /\ Batch!ArtifactOf(call) \subseteq {"file", "job"}
        /\ called' = TRUE
        /\ UNCHANGED <<endpoint, batchVendor, polls, reply, usage, fetched, doubtful>>
    BY <1>3 DEF Batch!Answered, Batch!ArtifactOf
  <2> QED
    BY <1>b, <1>c, <1>3, <2>1
<1>4. ASSUME NEW call \in Batch!AllCalls, Batch!Refused(call) PROVE BatchLeft'
  BY <1>a, <1>b, <1>4 DEF Batch!Refused, Batch!Concludes
<1>5. ASSUME NEW call \in Batch!AllCalls, NEW how \in {"timeout", "reset", "garbled"}, Batch!Lost(call, how) PROVE BatchLeft'
  BY <1>a, <1>b, <1>5 DEF Batch!Lost, Batch!Concludes, Batch!ArtifactOf
<1>6. CASE Batch!CheckWav
  BY <1>a, <1>b, <1>6 DEF Batch!CheckWav, Batch!Concludes
<1>7. CASE Batch!PollCompleted
  <2>1. UNCHANGED <<endpoint, batchVendor, polls, artifacts, known, reply, usage, fetched,
                    called, doubtful>>
    BY <1>7 DEF Batch!PollCompleted
  <2> QED
    BY <1>b, <1>c, <1>7, <2>1
<1>8. CASE Batch!PollFailed
  BY <1>a, <1>b, <1>8 DEF Batch!PollFailed, Batch!Concludes
<1>9. CASE Batch!PollPending
  BY <1>a, <1>b, <1>9 DEF Batch!PollPending, Batch!Concludes, Batch!BudgetSpent, Batch!Spends
<1>10. CASE Batch!Delete("delete job", "job", "delete file")
  BY <1>a, <1>b, <1>10, SMTT(30), ZenonT(30) DEF Batch!Delete
<1>11. CASE Batch!Delete("delete file", "file", "settle")
  <2>1. /\ step = "delete file" /\ step' = "settle" /\ outcome # "none"
        /\ UNCHANGED <<batchVendor, known, outcome>>
    BY <1>11 DEF Batch!Delete
  <2>2. \/ "file" \in known /\ artifacts' = artifacts \ {"file"} /\ doubtful' = doubtful
        \/ "file" \in known /\ artifacts' = artifacts /\ doubtful' = doubtful \cup {"file"}
        \/ "file" \notin known /\ artifacts' = artifacts /\ doubtful' = doubtful
    BY <1>11 DEF Batch!Delete
  <2>3. artifacts' \subseteq known \cup doubtful' /\ ("file" \in artifacts' => "file" \in doubtful')
    BY <2>2
  <2>4. BatchVendor.cleans => ("job" \in artifacts' => "job" \in doubtful')
    BY <2>1, <2>2
  <2> QED
    BY <2>1, <2>3, <2>4
<1>12. CASE Batch!Settle
  BY <1>a, <1>b, <1>12 DEF Batch!Settle, Batch!StatusOf, Batch!AnswerOf
<1> QED
  BY <1>1, <1>2, <1>3, <1>4, <1>5, <1>6, <1>7, <1>8, <1>9, <1>10, <1>11, <1>12 DEF Batch!Next, Batch!Works

LEMMA BatchBlockedStep ==
    ASSUME BatchTypes, BatchCalls, BatchStage, BatchEvent, BatchBlocked, Batch!Next
    PROVE  BatchBlocked'
<1> USE DEF BatchTypes, BatchCalls, BatchStage, BatchEvent, BatchBlocked, Batch!request, BatchVendor, BatchChecks, BatchEnds, Batch!AllCalls
<1>a. /\ Batch!ToSet(Batch!Checks) = BatchChecks
      /\ \A check \in BatchChecks :
            /\ \/ Batch!After(check) \in BatchChecks
               \/ \E i \in 1..Len(BatchVendor.calls) : Batch!After(check) = BatchVendor.calls[i]
            /\ check = "audio" /\ Batch!After(check) \in BatchChecks =>
                 endpoint = "deepgram" /\ Batch!After(check) = "resolve"
            /\ check = "resolve" /\ endpoint = "deepgram" => Batch!After(check) \notin BatchChecks
      /\ \A i \in 1..Len(BatchVendor.calls) : ~Batch!IsLast(BatchVendor.calls[i]) =>
            \E j \in 1..Len(BatchVendor.calls) :
               Batch!After(BatchVendor.calls[i]) = BatchVendor.calls[j]
  BY AfterAStep, ChecksOfEndpoints
<1>b. /\ \A i \in 1..Len(BatchVendor.calls) : BatchVendor.calls[i] \in Batch!AllCalls
      /\ BatchVendor.cleans \in BOOLEAN
      /\ \A how \in {"timeout", "reset", "garbled"} :
                BatchVendor[how] \in {"timeout", "other", "raw"}
  BY CallsOfVendors, ElementOfSeq
<1>c. ASSUME NEW call \in Batch!AllCalls,
             Batch!Answered(call) \/ (call = "poll" /\ Batch!PollCompleted)
      PROVE  /\ step = call
             /\ \/ /\ \E i \in 1..Len(BatchVendor.calls) : step' = BatchVendor.calls[i]
                   /\ step' \in Batch!AllCalls /\ UNCHANGED <<outcome, payload>>
                \/ /\ step' = IF BatchVendor.cleans THEN "delete job" ELSE "settle"
                   /\ outcome' = "completed" /\ payload' \in BatchPayloads
  BY <1>c, AnsweredCall
<1>1. CASE Batch!Pass
  BY <1>a, <1>b, <1>1 DEF Batch!Pass
<1>2. CASE Batch!Refuse
  BY <1>a, <1>b, <1>2 DEF Batch!Refuse, Batch!RefusalOf
<1>3. ASSUME NEW call \in Batch!AllCalls, Batch!Answered(call) PROVE BatchBlocked'
  <2>1. /\ artifacts' = artifacts \cup Batch!ArtifactOf(call)
        /\ known' = known \cup Batch!ArtifactOf(call)
        /\ Batch!ArtifactOf(call) \subseteq {"file", "job"}
        /\ called' = TRUE
        /\ UNCHANGED <<endpoint, batchVendor, polls, reply, usage, fetched, doubtful>>
    BY <1>3 DEF Batch!Answered, Batch!ArtifactOf
  <2> QED
    BY <1>b, <1>c, <1>3, <2>1
<1>4. ASSUME NEW call \in Batch!AllCalls, Batch!Refused(call) PROVE BatchBlocked'
  BY <1>a, <1>b, <1>4 DEF Batch!Refused, Batch!Concludes
<1>5. ASSUME NEW call \in Batch!AllCalls, NEW how \in {"timeout", "reset", "garbled"}, Batch!Lost(call, how) PROVE BatchBlocked'
  BY <1>a, <1>b, <1>5 DEF Batch!Lost, Batch!Concludes, Batch!ArtifactOf
<1>6. CASE Batch!CheckWav
  BY <1>a, <1>b, <1>6 DEF Batch!CheckWav, Batch!Concludes
<1>7. CASE Batch!PollCompleted
  <2>1. UNCHANGED <<endpoint, batchVendor, polls, artifacts, known, reply, usage, fetched,
                    called, doubtful>>
    BY <1>7 DEF Batch!PollCompleted
  <2> QED
    BY <1>b, <1>c, <1>7, <2>1
<1>8. CASE Batch!PollFailed
  BY <1>a, <1>b, <1>8 DEF Batch!PollFailed, Batch!Concludes
<1>9. CASE Batch!PollPending
  BY <1>a, <1>b, <1>9 DEF Batch!PollPending, Batch!Concludes, Batch!BudgetSpent, Batch!Spends
<1>10. CASE Batch!Delete("delete job", "job", "delete file")
  BY <1>a, <1>b, <1>10 DEF Batch!Delete
<1>11. CASE Batch!Delete("delete file", "file", "settle")
  BY <1>a, <1>b, <1>11 DEF Batch!Delete
<1>12. CASE Batch!Settle
  BY <1>a, <1>b, <1>12 DEF Batch!Settle, Batch!StatusOf, Batch!AnswerOf
<1> QED
  BY <1>1, <1>2, <1>3, <1>4, <1>5, <1>6, <1>7, <1>8, <1>9, <1>10, <1>11, <1>12 DEF Batch!Next, Batch!Works

-----------------------------------------------------------------------------
(* What a batch request is billed for.                                     *)

\* The end e of a transcript covers items.
Covers(e, items) ==
    /\ e \in {Batch!NoTime} \cup 0..BatchSeconds
    /\ \A i \in items : e # Batch!NoTime /\ i.end <= e

LEMMA LastEndCovers ==
    ASSUME NEW items, \A i \in items : i.end \in 0..BatchSeconds
    PROVE  Covers(Batch!LastEnd(Batch!Ends(items)), items)
<1> DEFINE ends == Batch!Ends(items)
<1>1. BatchSeconds \in Nat /\ ends \in SUBSET (0..BatchSeconds)
  BY PartsAssumption DEF Batch!Ends
<1>2. \A i \in items : i.end \in ends
  BY DEF Batch!Ends
<1> SUFFICES Covers(Batch!LastEnd(ends), items)
  OBVIOUS
<1> HIDE DEF ends
<1>3. CASE ends = {}
  BY <1>2, <1>3 DEF Covers, Batch!LastEnd
<1>4. CASE ends # {}
  <2>1. \E x \in ends : \A y \in ends : x >= y
    <3>1. PICK x \in ends : \A y \in ends : y <= x
      BY <1>1, <1>4, LargestElement
    <3> QED
      BY <1>1, <3>1
  <2>2. Batch!Max(ends) \in ends /\ \A y \in ends : Batch!Max(ends) >= y
    BY <2>1 DEF Batch!Max
  <2>3. Batch!LastEnd(ends) = Batch!Max(ends)
    BY <1>4 DEF Batch!LastEnd
  <2>4. Batch!Max(ends) \in 0..BatchSeconds
    BY <1>1, <2>2
  <2> QED
    BY <1>1, <1>2, <2>2, <2>3, <2>4 DEF Covers, Batch!NoTime
<1> QED
  BY <1>3, <1>4

LEMMA DurationCovers ==
    ASSUME NEW p, PayloadOK(p), NEW items \in SUBSET (p.words \cup p.more)
    PROVE  /\ Covers(Batch!LastEnd(Batch!Ends(items)), items)
           /\ Covers(Batch!DurationOr(p, Batch!Ends(items)), items)
<1>1. /\ BatchSeconds \in Nat /\ p.duration \in {Batch!NoTime} \cup 0..BatchSeconds
      /\ \A i \in items :
           i.end \in 0..(IF p.duration = Batch!NoTime THEN BatchSeconds ELSE p.duration)
  BY PartsAssumption DEF PayloadOK
<1>2. \A i \in items : i.end \in 0..BatchSeconds
  BY <1>1 DEF Batch!NoTime
<1>3. Covers(Batch!LastEnd(Batch!Ends(items)), items)
  BY <1>2, LastEndCovers
<1>4. CASE p.duration = Batch!NoTime
  BY <1>3, <1>4 DEF Batch!DurationOr
<1>5. CASE p.duration # Batch!NoTime
  <2>1. Batch!DurationOr(p, Batch!Ends(items)) = p.duration
    BY <1>5 DEF Batch!DurationOr
  <2>2. \A i \in items : i.end \in 0..p.duration
    BY <1>1, <1>5
  <2> QED
    BY <1>1, <1>3, <1>5, <2>1, <2>2 DEF Covers
<1> QED
  BY <1>3, <1>4, <1>5

LEMMA EndCoversTheWords ==
    ASSUME NEW v \in BatchVendors, NEW p, PayloadOK(p)
    PROVE  Covers(Batch!EndOf(v, p), Batch!Words(v, p))
<1>1. \A items \in SUBSET (p.words \cup p.more) :
        /\ Covers(Batch!LastEnd(Batch!Ends(items)), items)
        /\ Covers(Batch!DurationOr(p, Batch!Ends(items)), items)
  BY DurationCovers
<1>2. CASE v = "openai"
  <2> DEFINE spoken == Batch!Ends(Batch!OpenaiWords(p))
  <2>1. Batch!OpenaiWords(p) \in SUBSET (p.words \cup p.more)
    BY DEF Batch!OpenaiWords, Batch!Timed
  <2>2. /\ Batch!EndOf(v, p) = Batch!DurationOr(p, IF spoken = {} THEN Batch!Ends(p.more) ELSE spoken)
        /\ Batch!Words(v, p) = Batch!OpenaiWords(p)
    <3>1. Batch!EndOf(v, p) = Batch!OpenaiEnd(p)
      BY <1>2 DEF Batch!EndOf, Batch!NoDuration
    <3>2. Batch!OpenaiEnd(p)
            = Batch!DurationOr(p, IF spoken = {} THEN Batch!Ends(p.more) ELSE spoken)
      BY DEF Batch!OpenaiEnd
    <3>3. Batch!Words(v, p) = Batch!OpenaiWords(p)
      BY <1>2 DEF Batch!Words
    <3> QED
      BY <3>1, <3>2, <3>3
  <2>3. CASE spoken # {}
    BY <1>1, <2>1, <2>2, <2>3
  <2>4. CASE spoken = {}
    <3>1. Batch!OpenaiWords(p) = {}
      BY <2>4 DEF Batch!Ends
    <3>2. Covers(Batch!DurationOr(p, Batch!Ends(p.more)), p.more)
      BY <1>1
    <3> QED
      BY <2>2, <2>4, <3>1, <3>2 DEF Covers
  <2> QED
    BY <2>3, <2>4
<1>3. CASE v # "openai"
  <2>1. Batch!Words(v, p) \in SUBSET (p.words \cup p.more)
    BY <1>3 DEF BatchVendors, Batch!Words, Batch!Timed, Batch!SonioxWords, Batch!AssemblyaiWords,
       Batch!SpeechmaticsWords, Batch!ElevenlabsWords, Batch!DeepgramWords, Batch!CartesiaWords,
       Batch!AzureWords, Batch!MetaWords, Batch!XaiWords
  <2>2. Batch!EndOf(v, p) \in {Batch!LastEnd(Batch!Ends(Batch!Words(v, p))),
                               Batch!DurationOr(p, Batch!Ends(Batch!Words(v, p)))}
    BY <1>3 DEF BatchVendors, Batch!EndOf
  <2> QED
    BY <1>1, <2>1, <2>2
<1> QED
  BY <1>2, <1>3

LEMMA BatchInvariance == BatchInv /\ [Batch!Next]_(Batch!vars) => BatchInv'
<1>1. CASE BatchInv /\ Batch!Next
  BY <1>1, BatchTypesStep, BatchCallsStep, BatchPayloadStep, BatchStageStep, BatchEventStep,
     BatchLeftStep, BatchBlockedStep DEF BatchInv, BatchParts
<1>2. CASE BatchInv /\ UNCHANGED Batch!vars
  BY <1>2 DEF Batch!vars, Batch!request, BatchInv, BatchParts, BatchTypes, BatchCalls,
     BatchPayload, BatchStage, BatchEvent, BatchLeft, BatchBlocked, BatchVendor,
     Batch!BilledSeconds
<1> QED
  BY <1>1, <1>2

LEMMA BatchStarts == Batch!Init \/ BatchRests => BatchInv
<1> SUFFICES ASSUME Batch!Init \/ BatchRests PROVE BatchInv
  OBVIOUS
<1>1. /\ endpoint \in {"openai", "deepgram"} /\ batchVendor \in BatchVendors
      /\ polls = 0 /\ payload = Batch!NoPayload /\ artifacts = {} /\ known = {}
      /\ outcome = "none" /\ usage = <<>> /\ fetched = FALSE /\ called = FALSE /\ doubtful = {}
      /\ \/ step = "credentials" /\ reply = "none"
         \/ step = "done" /\ reply = "auth_failed"
  BY DEF Batch!Init, BatchRests, BatchVendors
<1>2. BatchTypes
  <2>1. polls \in 0..BatchPolls
    BY <1>1, PartsAssumption
  <2>2. step \in BatchChecks \cup BatchEnds
    BY <1>1 DEF BatchChecks, BatchEnds
  <2> QED
    BY <1>1, <2>1, <2>2 DEF BatchTypes
<1>3. BatchCalls /\ BatchStage
  BY <1>1 DEF BatchCalls, BatchStage, BatchChecks, Batch!AllCalls
<1>4. BatchPayload /\ BatchEvent
  BY <1>1 DEF BatchPayload, BatchEvent
<1>5. BatchLeft /\ BatchBlocked
  BY <1>1 DEF BatchLeft, BatchBlocked
<1> QED
  BY <1>2, <1>3, <1>4, <1>5 DEF BatchInv, BatchParts

LEMMA BatchKeepsPromises ==
    BatchInv => /\ Batch!TypeOK /\ Batch!UsageOncePerCall /\ Batch!BilledCoversTheWords
                /\ Batch!NothingLeftBehind /\ Batch!BlockedReachesNobody
<1> SUFFICES ASSUME BatchInv
             PROVE  /\ Batch!TypeOK /\ Batch!UsageOncePerCall /\ Batch!BilledCoversTheWords
                    /\ Batch!NothingLeftBehind /\ Batch!BlockedReachesNobody
  OBVIOUS
<1>1. BatchTypes /\ BatchPayload /\ BatchStage /\ BatchEvent /\ BatchLeft /\ BatchBlocked
  BY DEF BatchInv, BatchParts
<1>2. /\ Len(usage) = IF step = "done" /\ outcome # "none" THEN 1 ELSE 0
      /\ step = "done" /\ outcome # "none" =>
           /\ usage[1] = [status |-> Batch!StatusOf(outcome), seconds |-> Batch!BilledSeconds]
           /\ reply = Batch!AnswerOf(outcome)
  BY <1>1 DEF BatchEvent
<1>3. reply = "ok" <=> step = "done" /\ outcome = "completed"
  BY <1>1 DEF BatchEvent, BatchTypes, Batch!AnswerOf
<1>4. Batch!TypeOK
  <2>1. Batch!ToSet(Batch!Checks) = BatchChecks
    BY <1>1, ChecksOfEndpoints DEF BatchTypes
  <2>2. payload \in BatchPayloads \cup {Batch!NoPayload}
    BY <1>1 DEF BatchPayload
  <2>3. Len(usage) <= 1
    BY <1>2
  <2> QED
    BY <1>1, <2>1, <2>2, <2>3 DEF BatchTypes, BatchEnds, Batch!TypeOK
<1>5. Batch!UsageOncePerCall
  <2> SUFFICES ASSUME step = "done"
               PROVE  /\ Len(usage) = IF outcome = "none" THEN 0 ELSE 1
                      /\ reply = "ok" <=> \E i \in 1..Len(usage) : usage[i].status = "completed"
    BY DEF Batch!UsageOncePerCall
  <2>1. CASE outcome = "none"
    BY <1>2, <1>3, <2>1
  <2>2. CASE outcome # "none"
    <3>1. Len(usage) = 1 /\ usage[1].status = Batch!StatusOf(outcome)
      BY <1>2, <2>2
    <3>2. Batch!StatusOf(outcome) = "completed" <=> outcome = "completed"
      BY <1>1, <2>2 DEF BatchTypes, Batch!StatusOf
    <3> QED
      BY <1>3, <2>2, <3>1, <3>2
  <2> QED
    BY <2>1, <2>2
<1>6. Batch!BilledCoversTheWords
  <2> SUFFICES ASSUME step = "done", NEW i \in 1..Len(usage)
               PROVE  /\ usage[i].seconds <= IF reply = "ok" THEN BatchSeconds ELSE 0
                      /\ reply = "ok" =>
                           \A w \in Batch!Words(batchVendor, payload) : w.end <= usage[i].seconds
    BY DEF Batch!BilledCoversTheWords
  <2>1. outcome # "none" /\ i = 1 /\ usage[i].seconds = Batch!BilledSeconds
    BY <1>2
  <2>2. CASE outcome # "completed"
    BY <1>3, <2>1, <2>2 DEF Batch!BilledSeconds
  <2>3. CASE outcome = "completed"
    <3> DEFINE e == Batch!EndOf(batchVendor, payload)
    <3>1. PayloadOK(payload) /\ batchVendor \in BatchVendors /\ BatchSeconds \in Nat
      BY <1>1, <2>3, PartsAssumption DEF BatchPayload, BatchTypes
    <3>2. Covers(e, Batch!Words(batchVendor, payload))
      BY <3>1, EndCoversTheWords
    <3>3. Batch!BilledSeconds = IF e # Batch!NoTime THEN e ELSE 0
      BY <2>3 DEF Batch!BilledSeconds
    <3> QED
      BY <1>3, <2>1, <2>3, <3>1, <3>2, <3>3 DEF Covers, Batch!NoTime
  <2> QED
    BY <2>2, <2>3
<1>7. Batch!NothingLeftBehind
  BY <1>1 DEF BatchTypes, BatchLeft, BatchVendor, Batch!NothingLeftBehind
<1>8. Batch!BlockedReachesNobody
  BY <1>1 DEF BatchBlocked, Batch!BlockedReachesNobody
<1> QED
  BY <1>4, <1>5, <1>6, <1>7, <1>8

-----------------------------------------------------------------------------
(* The speech endpoint.                                                    *)

Engine == Speech!V

SpeechTypes ==
    /\ vendor \in SpeechVendors /\ stream \in BOOLEAN /\ byok \in BOOLEAN
    /\ handler \in {"checking", "first", "responding", "collecting", "failed", "left", "over"}
    /\ gen \in {"unstarted", "suspended", "pulling", "closed"} /\ run \in {"open", "closed"}
    /\ made \in Nat /\ held \in Nat /\ pulled \in Nat /\ sent \in Nat
    /\ made <= SpeechChunks /\ pulled + held <= made /\ sent <= pulled
    /\ vend \in {"open", "end", "error"}
    /\ chars \in {"none", "typed", "vendor"}
    /\ tokens \in {"none", "counted", "reported", "estimated"}
    /\ finisher \in {"none", "closing", "closed", "done"}
    /\ status \in {"none", "completed", "provider_error", "error", "client_disconnect"}
    /\ background \in BOOLEAN
\* Where handler, generator, run and finish() may stand together.
SpeechStage ==
    /\ handler = "checking" =>
         /\ gen = "unstarted" /\ run = "open" /\ finisher = "none"
         /\ made = 0 /\ held = 0 /\ pulled = 0 /\ sent = 0
    /\ handler = "first" =>
         gen = "unstarted" /\ run = "open" /\ finisher = "none" /\ pulled = 0 /\ sent = 0
    /\ handler = "failed" =>
         gen = "unstarted" /\ run = "closed" /\ finisher # "none" /\ status # "completed"
    /\ handler = "responding" => stream /\ (finisher = "none" <=> gen # "closed")
    /\ handler = "collecting" =>
         /\ ~stream /\ gen \in {"pulling", "closed"} /\ sent = 0
         /\ finisher = "none" <=> gen # "closed"
    /\ handler = "left" =>
         /\ stream /\ gen # "pulling" /\ status # "completed"
         /\ finisher = "none" <=> gen # "closed"
    /\ handler = "over" =>
         gen # "pulling" /\ (finisher = "none" => ~background /\ made = 0)
    /\ background => handler = "over"

\* finish() goes on only with a status, and after it the run is closed.
SpeechFinish ==
    /\ finisher = "none" <=> status = "none"
    /\ finisher \in {"closed", "done"} => run = "closed"
    /\ status = "completed" => run = "closed" /\ gen = "closed"

\* Chunks are pulled, held back, or lost when the run is cut; a request that was
\* completed gave all of them to a client that was told ok.
SpeechChunksInv ==
    /\ run = "open" => pulled + held = made
    /\ run = "closed" => held = 0
    /\ run = "closed" /\ status \in {"none", "completed"} => pulled = made
    /\ stream /\ (gen = "pulling" \/ status = "completed") => sent = pulled
    /\ ~stream /\ handler = "over" /\ status = "completed" => sent = pulled

SpeechAnswer ==
    /\ handler \in {"checking", "first", "collecting"} => answer.code = "none"
    /\ stream /\ gen \in {"suspended", "pulling"} => answer.code = "ok"
    /\ status = "completed" =>
         answer.code = IF handler = "collecting" THEN "none" ELSE "ok"

\* Tokens are counted at the start or estimated at the end, by those priced so.
SpeechTokens ==
    /\ made > 0 /\ run = "closed" /\ Engine.estimates => tokens # "none"
    /\ (handler \notin {"checking", "over"} \/ made > 0) /\ Engine.tokens = "at start" =>
         tokens # "none"

SpeechEvent ==
    events = IF finisher = "done"
             THEN <<[status |-> status, units |-> Speech!Units, made |-> made]>> ELSE <<>>

\* The vendor refuses the first call only, and the handler answers with that.
SpeechRefusal ==
    refusal # Speech!NoRefusal =>
        /\ refusal \in Speech!Refusals
        /\ handler \in {"failed", "over"}
        /\ answer = [code |-> Speech!ClientCode(Speech!CodeOf(refusal)),
                     text |-> Speech!Words(Speech!CodeOf(refusal))]

SpeechParts ==
    /\ SpeechStage /\ SpeechFinish /\ SpeechChunksInv /\ SpeechAnswer
    /\ SpeechTokens /\ SpeechEvent /\ SpeechRefusal

SpeechInv == SpeechTypes /\ SpeechParts

LEMMA SpeechTypesStep ==
    ASSUME SpeechTypes, Speech!Next
    PROVE  SpeechTypes'
<1> USE DEF SpeechTypes, Speech!request, Speech!usage, Speech!V
<1>1. CASE Speech!Refuse
  BY <1>1 DEF Speech!Refuse
<1>2. CASE Speech!Accept
  BY <1>2, SMTT(30), ZenonT(30) DEF Speech!Accept
<1>3. CASE Speech!VendorSpeaks
  <2>1. chars' \in {chars, "vendor"}
    BY <1>3 DEF Speech!VendorSpeaks
  <2>2. made' = made + 1 /\ made' <= SpeechChunks /\ SpeechChunks \in Nat
    BY <1>3, PartsAssumption DEF Speech!VendorSpeaks
  <2>3. \/ held' = held + 1 /\ UNCHANGED <<pulled, handler, gen>>
        \/ held' = 0 /\ pulled' = pulled + held + 1 /\ Speech!Yields
    BY <1>3 DEF Speech!VendorSpeaks
  <2>4. /\ held' \in Nat /\ pulled' \in Nat /\ pulled' + held' <= made' /\ pulled <= pulled'
        /\ UNCHANGED sent
    BY <1>3, <2>2, <2>3 DEF Speech!VendorSpeaks
  <2>5. /\ handler' \in {handler, "responding", "collecting"}
        /\ gen' \in {gen, "unstarted", "suspended", "pulling"}
    BY <2>3 DEF Speech!Yields
  <2>6. UNCHANGED <<vendor, stream, byok, run, sent, vend, tokens, finisher, status, background>>
    BY <1>3 DEF Speech!VendorSpeaks
  <2>7. made' \in Nat /\ sent' \in Nat /\ sent' <= pulled'
    BY <2>2, <2>4
  <2>8. /\ vendor' \in SpeechVendors /\ stream' \in BOOLEAN /\ byok' \in BOOLEAN
        /\ background' \in BOOLEAN
    BY <2>6
  <2>9. /\ handler' \in {"checking", "first", "responding", "collecting", "failed", "left", "over"}
        /\ gen' \in {"unstarted", "suspended", "pulling", "closed"} /\ run' \in {"open", "closed"}
        /\ vend' \in {"open", "end", "error"} /\ chars' \in {"none", "typed", "vendor"}
    BY <2>1, <2>5, <2>6
  <2>10. /\ tokens' \in {"none", "counted", "reported", "estimated"}
         /\ finisher' \in {"none", "closing", "closed", "done"}
         /\ status' \in {"none", "completed", "provider_error", "error", "client_disconnect"}
    BY <2>6
  <2> QED
    BY <2>2, <2>4, <2>7, <2>8, <2>9, <2>10
<1>4. CASE Speech!VendorEnds
  BY <1>4 DEF Speech!VendorEnds
<1>5. CASE Speech!VendorBreaks
  BY <1>5 DEF Speech!VendorBreaks, Speech!Fails, Speech!RunCloses, Speech!RestCloses, Speech!Finish
<1>6. CASE Speech!VendorCounts
  <2>1. chars' \in {chars, "vendor"} /\ tokens' \in {tokens, "reported"}
    BY <1>6 DEF Speech!VendorCounts
  <2>2. UNCHANGED <<vendor, stream, byok, handler, gen, run, made, held, pulled, sent, vend,
                    finisher, status, background>>
    BY <1>6 DEF Speech!VendorCounts
  <2> QED
    BY <2>1, <2>2
<1>7. CASE Speech!Crashes
  BY <1>7 DEF Speech!Crashes, Speech!Fails, Speech!RunCloses, Speech!RestCloses, Speech!Finish
<1>8. CASE Speech!Flush
  BY <1>8 DEF Speech!Flush, Speech!Yields
<1>9. CASE Speech!RunEnds
  BY <1>9 DEF Speech!RunEnds, Speech!RunCloses, Speech!RestCloses, Speech!Yields, Speech!Finish
<1>10. CASE Speech!RestFindsNothing
  BY <1>10 DEF Speech!RestFindsNothing, Speech!RestCloses, Speech!Finish
<1>11. CASE Speech!StartRest
  BY <1>11 DEF Speech!StartRest
<1>12. CASE Speech!Send
  BY <1>12 DEF Speech!Send
<1>13. CASE Speech!Background
  BY <1>13 DEF Speech!Background, Speech!Disconnected, Speech!Finish
<1>14. CASE Speech!Collected
  BY <1>14 DEF Speech!Collected, Speech!RestCloses, Speech!Finish
<1>15. CASE Speech!AnswerWhole
  BY <1>15 DEF Speech!AnswerWhole
<1>16. CASE Speech!AnswerFailure
  BY <1>16 DEF Speech!AnswerFailure
<1>17. CASE Speech!CloseUpstream
  BY <1>17 DEF Speech!CloseUpstream, Speech!RunCloses
<1>18. CASE Speech!Emit
  BY <1>18 DEF Speech!Emit
<1>19. CASE Speech!ClientGoes
  BY <1>19 DEF Speech!ClientGoes, Speech!RunCloses, Speech!RestCloses, Speech!Finish
<1>20. ASSUME NEW r \in Speech!Refusals, Speech!VendorRefuses(r) PROVE SpeechTypes'
  BY <1>20 DEF Speech!VendorRefuses, Speech!Fails, Speech!RunCloses, Speech!RestCloses, Speech!Finish
<1> QED
  BY <1>1, <1>2, <1>3, <1>4, <1>5, <1>6, <1>7, <1>8, <1>9, <1>10, <1>11, <1>12, <1>13, <1>14, <1>15, <1>16, <1>17, <1>18, <1>19, <1>20 DEF Speech!Next, Speech!Upstream, Speech!Gateway

LEMMA SpeechStageStep ==
    ASSUME SpeechTypes, SpeechStage, SpeechFinish, Speech!Next
    PROVE  SpeechStage'
<1> USE DEF SpeechTypes, SpeechStage, SpeechFinish, Speech!request, Speech!usage, Speech!Pulling
<1>1. CASE Speech!Refuse
  BY <1>1 DEF Speech!Refuse
<1>2. CASE Speech!Accept
  BY <1>2 DEF Speech!Accept
<1>3. CASE Speech!VendorSpeaks
  BY <1>3 DEF Speech!VendorSpeaks, Speech!Yields
<1>4. CASE Speech!VendorEnds
  BY <1>4 DEF Speech!VendorEnds
<1>5. CASE Speech!VendorBreaks
  BY <1>5 DEF Speech!VendorBreaks, Speech!Fails, Speech!RunCloses, Speech!RestCloses, Speech!Finish
<1>6. CASE Speech!VendorCounts
  BY <1>6 DEF Speech!VendorCounts
<1>7. CASE Speech!Crashes
  BY <1>7 DEF Speech!Crashes, Speech!Fails, Speech!RunCloses, Speech!RestCloses, Speech!Finish
<1>8. CASE Speech!Flush
  BY <1>8 DEF Speech!Flush, Speech!Yields
<1>9. CASE Speech!RunEnds
  BY <1>9 DEF Speech!RunEnds, Speech!RunCloses, Speech!RestCloses, Speech!Yields, Speech!Finish
<1>10. CASE Speech!RestFindsNothing
  BY <1>10 DEF Speech!RestFindsNothing, Speech!RestCloses, Speech!Finish
<1>11. CASE Speech!StartRest
  BY <1>11 DEF Speech!StartRest
<1>12. CASE Speech!Send
  BY <1>12 DEF Speech!Send
<1>13. CASE Speech!Background
  BY <1>13 DEF Speech!Background, Speech!Disconnected, Speech!Finish
<1>14. CASE Speech!Collected
  BY <1>14 DEF Speech!Collected, Speech!RestCloses, Speech!Finish
<1>15. CASE Speech!AnswerWhole
  BY <1>15 DEF Speech!AnswerWhole
<1>16. CASE Speech!AnswerFailure
  BY <1>16 DEF Speech!AnswerFailure
<1>17. CASE Speech!CloseUpstream
  BY <1>17 DEF Speech!CloseUpstream, Speech!RunCloses
<1>18. CASE Speech!Emit
  BY <1>18 DEF Speech!Emit
<1>19. CASE Speech!ClientGoes
  BY <1>19 DEF Speech!ClientGoes, Speech!RunCloses, Speech!RestCloses, Speech!Finish
<1>20. ASSUME NEW r \in Speech!Refusals, Speech!VendorRefuses(r) PROVE SpeechStage'
  BY <1>20 DEF Speech!VendorRefuses, Speech!Fails, Speech!RunCloses, Speech!RestCloses, Speech!Finish
<1> QED
  BY <1>1, <1>2, <1>3, <1>4, <1>5, <1>6, <1>7, <1>8, <1>9, <1>10, <1>11, <1>12, <1>13, <1>14, <1>15, <1>16, <1>17, <1>18, <1>19, <1>20 DEF Speech!Next, Speech!Upstream, Speech!Gateway

LEMMA SpeechFinishStep ==
    ASSUME SpeechTypes, SpeechStage, SpeechFinish, Speech!Next
    PROVE  SpeechFinish'
<1> USE DEF SpeechTypes, SpeechStage, SpeechFinish, Speech!request, Speech!usage, Speech!Pulling
<1>1. CASE Speech!Refuse
  BY <1>1 DEF Speech!Refuse
<1>2. CASE Speech!Accept
  BY <1>2 DEF Speech!Accept
<1>3. CASE Speech!VendorSpeaks
  BY <1>3 DEF Speech!VendorSpeaks, Speech!Yields
<1>4. CASE Speech!VendorEnds
  BY <1>4 DEF Speech!VendorEnds
<1>5. CASE Speech!VendorBreaks
  BY <1>5 DEF Speech!VendorBreaks, Speech!Fails, Speech!RunCloses, Speech!RestCloses, Speech!Finish
<1>6. CASE Speech!VendorCounts
  BY <1>6 DEF Speech!VendorCounts
<1>7. CASE Speech!Crashes
  BY <1>7 DEF Speech!Crashes, Speech!Fails, Speech!RunCloses, Speech!RestCloses, Speech!Finish
<1>8. CASE Speech!Flush
  BY <1>8 DEF Speech!Flush, Speech!Yields
<1>9. CASE Speech!RunEnds
  BY <1>9 DEF Speech!RunEnds, Speech!RunCloses, Speech!RestCloses, Speech!Yields, Speech!Finish
<1>10. CASE Speech!RestFindsNothing
  BY <1>10 DEF Speech!RestFindsNothing, Speech!RestCloses, Speech!Finish
<1>11. CASE Speech!StartRest
  BY <1>11 DEF Speech!StartRest
<1>12. CASE Speech!Send
  BY <1>12 DEF Speech!Send
<1>13. CASE Speech!Background
  BY <1>13 DEF Speech!Background, Speech!Disconnected, Speech!Finish
<1>14. CASE Speech!Collected
  BY <1>14 DEF Speech!Collected, Speech!RestCloses, Speech!Finish
<1>15. CASE Speech!AnswerWhole
  BY <1>15 DEF Speech!AnswerWhole
<1>16. CASE Speech!AnswerFailure
  BY <1>16 DEF Speech!AnswerFailure
<1>17. CASE Speech!CloseUpstream
  BY <1>17 DEF Speech!CloseUpstream, Speech!RunCloses
<1>18. CASE Speech!Emit
  BY <1>18 DEF Speech!Emit
<1>19. CASE Speech!ClientGoes
  BY <1>19 DEF Speech!ClientGoes, Speech!RunCloses, Speech!RestCloses, Speech!Finish
<1>20. ASSUME NEW r \in Speech!Refusals, Speech!VendorRefuses(r) PROVE SpeechFinish'
  BY <1>20 DEF Speech!VendorRefuses, Speech!Fails, Speech!RunCloses, Speech!RestCloses, Speech!Finish
<1> QED
  BY <1>1, <1>2, <1>3, <1>4, <1>5, <1>6, <1>7, <1>8, <1>9, <1>10, <1>11, <1>12, <1>13, <1>14, <1>15, <1>16, <1>17, <1>18, <1>19, <1>20 DEF Speech!Next, Speech!Upstream, Speech!Gateway

LEMMA SpeechChunksInvStep ==
    ASSUME SpeechTypes, SpeechStage, SpeechFinish, SpeechChunksInv, Speech!Next
    PROVE  SpeechChunksInv'
<1> USE DEF SpeechTypes, SpeechStage, SpeechFinish, SpeechChunksInv, Speech!request, Speech!usage, Speech!Pulling
<1>1. CASE Speech!Refuse
  BY <1>1 DEF Speech!Refuse
<1>2. CASE Speech!Accept
  BY <1>2 DEF Speech!Accept
<1>3. CASE Speech!VendorSpeaks
  BY <1>3 DEF Speech!VendorSpeaks, Speech!Yields
<1>4. CASE Speech!VendorEnds
  BY <1>4 DEF Speech!VendorEnds
<1>5. CASE Speech!VendorBreaks
  BY <1>5 DEF Speech!VendorBreaks, Speech!Fails, Speech!RunCloses, Speech!RestCloses, Speech!Finish
<1>6. CASE Speech!VendorCounts
  BY <1>6 DEF Speech!VendorCounts
<1>7. CASE Speech!Crashes
  BY <1>7 DEF Speech!Crashes, Speech!Fails, Speech!RunCloses, Speech!RestCloses, Speech!Finish
<1>8. CASE Speech!Flush
  BY <1>8 DEF Speech!Flush, Speech!Yields
<1>9. CASE Speech!RunEnds
  BY <1>9 DEF Speech!RunEnds, Speech!RunCloses, Speech!RestCloses, Speech!Yields, Speech!Finish
<1>10. CASE Speech!RestFindsNothing
  BY <1>10 DEF Speech!RestFindsNothing, Speech!RestCloses, Speech!Finish
<1>11. CASE Speech!StartRest
  BY <1>11 DEF Speech!StartRest
<1>12. CASE Speech!Send
  BY <1>12 DEF Speech!Send
<1>13. CASE Speech!Background
  BY <1>13 DEF Speech!Background, Speech!Disconnected, Speech!Finish
<1>14. CASE Speech!Collected
  BY <1>14 DEF Speech!Collected, Speech!RestCloses, Speech!Finish
<1>15. CASE Speech!AnswerWhole
  BY <1>15 DEF Speech!AnswerWhole
<1>16. CASE Speech!AnswerFailure
  BY <1>16 DEF Speech!AnswerFailure
<1>17. CASE Speech!CloseUpstream
  BY <1>17 DEF Speech!CloseUpstream, Speech!RunCloses
<1>18. CASE Speech!Emit
  BY <1>18 DEF Speech!Emit
<1>19. CASE Speech!ClientGoes
  BY <1>19 DEF Speech!ClientGoes, Speech!RunCloses, Speech!RestCloses, Speech!Finish
<1>20. ASSUME NEW r \in Speech!Refusals, Speech!VendorRefuses(r) PROVE SpeechChunksInv'
  BY <1>20 DEF Speech!VendorRefuses, Speech!Fails, Speech!RunCloses, Speech!RestCloses, Speech!Finish
<1> QED
  BY <1>1, <1>2, <1>3, <1>4, <1>5, <1>6, <1>7, <1>8, <1>9, <1>10, <1>11, <1>12, <1>13, <1>14, <1>15, <1>16, <1>17, <1>18, <1>19, <1>20 DEF Speech!Next, Speech!Upstream, Speech!Gateway

LEMMA SpeechAnswerStep ==
    ASSUME SpeechTypes, SpeechStage, SpeechFinish, SpeechAnswer, Speech!Next
    PROVE  SpeechAnswer'
<1> USE DEF SpeechTypes, SpeechStage, SpeechFinish, SpeechAnswer, Speech!request, Speech!usage, Speech!Pulling, Speech!Answers, Speech!None
<1>1. CASE Speech!Refuse
  BY <1>1 DEF Speech!Refuse
<1>2. CASE Speech!Accept
  BY <1>2 DEF Speech!Accept
<1>3. CASE Speech!VendorSpeaks
  BY <1>3 DEF Speech!VendorSpeaks, Speech!Yields
<1>4. CASE Speech!VendorEnds
  BY <1>4 DEF Speech!VendorEnds
<1>5. CASE Speech!VendorBreaks
  BY <1>5 DEF Speech!VendorBreaks, Speech!Fails, Speech!RunCloses, Speech!RestCloses, Speech!Finish
<1>6. CASE Speech!VendorCounts
  BY <1>6 DEF Speech!VendorCounts
<1>7. CASE Speech!Crashes
  BY <1>7 DEF Speech!Crashes, Speech!Fails, Speech!RunCloses, Speech!RestCloses, Speech!Finish
<1>8. CASE Speech!Flush
  BY <1>8 DEF Speech!Flush, Speech!Yields
<1>9. CASE Speech!RunEnds
  BY <1>9 DEF Speech!RunEnds, Speech!RunCloses, Speech!RestCloses, Speech!Yields, Speech!Finish
<1>10. CASE Speech!RestFindsNothing
  BY <1>10 DEF Speech!RestFindsNothing, Speech!RestCloses, Speech!Finish
<1>11. CASE Speech!StartRest
  BY <1>11 DEF Speech!StartRest
<1>12. CASE Speech!Send
  BY <1>12 DEF Speech!Send
<1>13. CASE Speech!Background
  BY <1>13 DEF Speech!Background, Speech!Disconnected, Speech!Finish
<1>14. CASE Speech!Collected
  BY <1>14 DEF Speech!Collected, Speech!RestCloses, Speech!Finish
<1>15. CASE Speech!AnswerWhole
  BY <1>15 DEF Speech!AnswerWhole
<1>16. CASE Speech!AnswerFailure
  BY <1>16 DEF Speech!AnswerFailure
<1>17. CASE Speech!CloseUpstream
  BY <1>17 DEF Speech!CloseUpstream, Speech!RunCloses
<1>18. CASE Speech!Emit
  BY <1>18 DEF Speech!Emit
<1>19. CASE Speech!ClientGoes
  BY <1>19 DEF Speech!ClientGoes, Speech!RunCloses, Speech!RestCloses, Speech!Finish
<1>20. ASSUME NEW r \in Speech!Refusals, Speech!VendorRefuses(r) PROVE SpeechAnswer'
  BY <1>20 DEF Speech!VendorRefuses, Speech!Fails, Speech!RunCloses, Speech!RestCloses, Speech!Finish
<1> QED
  BY <1>1, <1>2, <1>3, <1>4, <1>5, <1>6, <1>7, <1>8, <1>9, <1>10, <1>11, <1>12, <1>13, <1>14, <1>15, <1>16, <1>17, <1>18, <1>19, <1>20 DEF Speech!Next, Speech!Upstream, Speech!Gateway

LEMMA SpeechTokensStep ==
    ASSUME SpeechTypes, SpeechStage, SpeechTokens, Speech!Next
    PROVE  SpeechTokens'
<1> USE DEF SpeechTypes, SpeechStage, SpeechTokens, Speech!request, Speech!usage, Speech!Pulling, Engine, Speech!V
<1>1. CASE Speech!Refuse
  BY <1>1 DEF Speech!Refuse
<1>2. CASE Speech!Accept
  BY <1>2 DEF Speech!Accept
<1>3. CASE Speech!VendorSpeaks
  BY <1>3 DEF Speech!VendorSpeaks, Speech!Yields
<1>4. CASE Speech!VendorEnds
  BY <1>4 DEF Speech!VendorEnds
<1>5. CASE Speech!VendorBreaks
  BY <1>5 DEF Speech!VendorBreaks, Speech!Fails, Speech!RunCloses, Speech!RestCloses, Speech!Finish
<1>6. CASE Speech!VendorCounts
  BY <1>6 DEF Speech!VendorCounts
<1>7. CASE Speech!Crashes
  BY <1>7 DEF Speech!Crashes, Speech!Fails, Speech!RunCloses, Speech!RestCloses, Speech!Finish
<1>8. CASE Speech!Flush
  BY <1>8 DEF Speech!Flush, Speech!Yields
<1>9. CASE Speech!RunEnds
  BY <1>9 DEF Speech!RunEnds, Speech!RunCloses, Speech!RestCloses, Speech!Yields, Speech!Finish
<1>10. CASE Speech!RestFindsNothing
  BY <1>10 DEF Speech!RestFindsNothing, Speech!RestCloses, Speech!Finish
<1>11. CASE Speech!StartRest
  BY <1>11 DEF Speech!StartRest
<1>12. CASE Speech!Send
  BY <1>12 DEF Speech!Send
<1>13. CASE Speech!Background
  BY <1>13 DEF Speech!Background, Speech!Disconnected, Speech!Finish
<1>14. CASE Speech!Collected
  BY <1>14 DEF Speech!Collected, Speech!RestCloses, Speech!Finish
<1>15. CASE Speech!AnswerWhole
  BY <1>15 DEF Speech!AnswerWhole
<1>16. CASE Speech!AnswerFailure
  BY <1>16 DEF Speech!AnswerFailure
<1>17. CASE Speech!CloseUpstream
  BY <1>17 DEF Speech!CloseUpstream, Speech!RunCloses
<1>18. CASE Speech!Emit
  BY <1>18 DEF Speech!Emit
<1>19. CASE Speech!ClientGoes
  BY <1>19 DEF Speech!ClientGoes, Speech!RunCloses, Speech!RestCloses, Speech!Finish
<1>20. ASSUME NEW r \in Speech!Refusals, Speech!VendorRefuses(r) PROVE SpeechTokens'
  BY <1>20 DEF Speech!VendorRefuses, Speech!Fails, Speech!RunCloses, Speech!RestCloses, Speech!Finish
<1> QED
  BY <1>1, <1>2, <1>3, <1>4, <1>5, <1>6, <1>7, <1>8, <1>9, <1>10, <1>11, <1>12, <1>13, <1>14, <1>15, <1>16, <1>17, <1>18, <1>19, <1>20 DEF Speech!Next, Speech!Upstream, Speech!Gateway

LEMMA SpeechEventStep ==
    ASSUME SpeechTypes, SpeechFinish, SpeechStage, SpeechEvent, Speech!Next
    PROVE  SpeechEvent'
<1> USE DEF SpeechTypes, SpeechFinish, SpeechStage, SpeechEvent, Speech!request, Speech!usage, Speech!Pulling, Engine, Speech!V, Speech!Units
<1>1. CASE Speech!Refuse
  BY <1>1 DEF Speech!Refuse
<1>2. CASE Speech!Accept
  BY <1>2 DEF Speech!Accept
<1>3. CASE Speech!VendorSpeaks
  BY <1>3 DEF Speech!VendorSpeaks, Speech!Yields
<1>4. CASE Speech!VendorEnds
  BY <1>4 DEF Speech!VendorEnds
<1>5. CASE Speech!VendorBreaks
  BY <1>5 DEF Speech!VendorBreaks, Speech!Fails, Speech!RunCloses, Speech!RestCloses, Speech!Finish
<1>6. CASE Speech!VendorCounts
  BY <1>6 DEF Speech!VendorCounts
<1>7. CASE Speech!Crashes
  BY <1>7 DEF Speech!Crashes, Speech!Fails, Speech!RunCloses, Speech!RestCloses, Speech!Finish
<1>8. CASE Speech!Flush
  BY <1>8 DEF Speech!Flush, Speech!Yields
<1>9. CASE Speech!RunEnds
  BY <1>9 DEF Speech!RunEnds, Speech!RunCloses, Speech!RestCloses, Speech!Yields, Speech!Finish
<1>10. CASE Speech!RestFindsNothing
  BY <1>10 DEF Speech!RestFindsNothing, Speech!RestCloses, Speech!Finish
<1>11. CASE Speech!StartRest
  BY <1>11 DEF Speech!StartRest
<1>12. CASE Speech!Send
  BY <1>12 DEF Speech!Send
<1>13. CASE Speech!Background
  BY <1>13 DEF Speech!Background, Speech!Disconnected, Speech!Finish
<1>14. CASE Speech!Collected
  BY <1>14 DEF Speech!Collected, Speech!RestCloses, Speech!Finish
<1>15. CASE Speech!AnswerWhole
  BY <1>15 DEF Speech!AnswerWhole
<1>16. CASE Speech!AnswerFailure
  BY <1>16 DEF Speech!AnswerFailure
<1>17. CASE Speech!CloseUpstream
  BY <1>17 DEF Speech!CloseUpstream, Speech!RunCloses
<1>18. CASE Speech!Emit
  <2>1. /\ events = <<>> /\ finisher' = "done"
        /\ UNCHANGED <<vendor, status, made, chars, tokens>>
        /\ events' = Append(events, [status |-> status, units |-> Speech!Units, made |-> made])
    BY <1>18 DEF Speech!Emit
  <2>2. Speech!Units' = Speech!Units
    BY <2>1
  <2> HIDE DEF Speech!Units
  <2>3. events' = <<[status |-> status, units |-> Speech!Units, made |-> made]>>
    BY <2>1
  <2> QED
    BY <2>1, <2>2, <2>3
<1>19. CASE Speech!ClientGoes
  BY <1>19 DEF Speech!ClientGoes, Speech!RunCloses, Speech!RestCloses, Speech!Finish
<1>20. ASSUME NEW r \in Speech!Refusals, Speech!VendorRefuses(r) PROVE SpeechEvent'
  BY <1>20 DEF Speech!VendorRefuses, Speech!Fails, Speech!RunCloses, Speech!RestCloses, Speech!Finish
<1> QED
  BY <1>1, <1>2, <1>3, <1>4, <1>5, <1>6, <1>7, <1>8, <1>9, <1>10, <1>11, <1>12, <1>13, <1>14, <1>15, <1>16, <1>17, <1>18, <1>19, <1>20 DEF Speech!Next, Speech!Upstream, Speech!Gateway

LEMMA SpeechRefusalStep ==
    ASSUME SpeechRefusal, SpeechStage, Speech!Next
    PROVE  SpeechRefusal'
<1> USE DEF SpeechRefusal, SpeechStage, Speech!request, Speech!usage, Speech!Pulling, Speech!Answers, Speech!None, Speech!Words
<1>1. CASE Speech!Refuse
  BY <1>1 DEF Speech!Refuse
<1>2. CASE Speech!Accept
  BY <1>2 DEF Speech!Accept
<1>3. CASE Speech!VendorSpeaks
  BY <1>3 DEF Speech!VendorSpeaks, Speech!Yields
<1>4. CASE Speech!VendorEnds
  BY <1>4 DEF Speech!VendorEnds
<1>5. CASE Speech!VendorBreaks
  BY <1>5 DEF Speech!VendorBreaks, Speech!Fails, Speech!RunCloses, Speech!RestCloses, Speech!Finish
<1>6. CASE Speech!VendorCounts
  BY <1>6 DEF Speech!VendorCounts
<1>7. CASE Speech!Crashes
  BY <1>7 DEF Speech!Crashes, Speech!Fails, Speech!RunCloses, Speech!RestCloses, Speech!Finish
<1>8. CASE Speech!Flush
  BY <1>8 DEF Speech!Flush, Speech!Yields
<1>9. CASE Speech!RunEnds
  BY <1>9 DEF Speech!RunEnds, Speech!RunCloses, Speech!RestCloses, Speech!Yields, Speech!Finish
<1>10. CASE Speech!RestFindsNothing
  BY <1>10 DEF Speech!RestFindsNothing, Speech!RestCloses, Speech!Finish
<1>11. CASE Speech!StartRest
  BY <1>11 DEF Speech!StartRest
<1>12. CASE Speech!Send
  BY <1>12 DEF Speech!Send
<1>13. CASE Speech!Background
  BY <1>13 DEF Speech!Background, Speech!Disconnected, Speech!Finish
<1>14. CASE Speech!Collected
  BY <1>14 DEF Speech!Collected, Speech!RestCloses, Speech!Finish
<1>15. CASE Speech!AnswerWhole
  BY <1>15 DEF Speech!AnswerWhole
<1>16. CASE Speech!AnswerFailure
  BY <1>16 DEF Speech!AnswerFailure
<1>17. CASE Speech!CloseUpstream
  BY <1>17 DEF Speech!CloseUpstream, Speech!RunCloses
<1>18. CASE Speech!Emit
  BY <1>18 DEF Speech!Emit
<1>19. CASE Speech!ClientGoes
  BY <1>19 DEF Speech!ClientGoes, Speech!RunCloses, Speech!RestCloses, Speech!Finish
<1>20. ASSUME NEW r \in Speech!Refusals, Speech!VendorRefuses(r) PROVE SpeechRefusal'
  BY <1>20 DEF Speech!VendorRefuses, Speech!Fails, Speech!RunCloses, Speech!RestCloses, Speech!Finish
<1> QED
  BY <1>1, <1>2, <1>3, <1>4, <1>5, <1>6, <1>7, <1>8, <1>9, <1>10, <1>11, <1>12, <1>13, <1>14, <1>15, <1>16, <1>17, <1>18, <1>19, <1>20 DEF Speech!Next, Speech!Upstream, Speech!Gateway

LEMMA SpeechInvariance == SpeechInv /\ [Speech!Next]_(Speech!vars) => SpeechInv'
<1>1. CASE SpeechInv /\ Speech!Next
  BY <1>1, SpeechTypesStep, SpeechStageStep, SpeechFinishStep, SpeechChunksInvStep,
     SpeechAnswerStep, SpeechTokensStep, SpeechEventStep, SpeechRefusalStep
     DEF SpeechInv, SpeechParts
<1>2. CASE SpeechInv /\ UNCHANGED Speech!vars
  BY <1>2 DEF Speech!vars, Speech!request, Speech!usage, SpeechInv, SpeechParts, SpeechTypes,
     SpeechStage, SpeechFinish, SpeechChunksInv, SpeechAnswer, SpeechTokens, SpeechEvent,
     SpeechRefusal, Engine, Speech!V, Speech!Units, Speech!Words
<1> QED
  BY <1>1, <1>2

LEMMA SpeechStarts == Speech!Init \/ SpeechRests => SpeechInv
<1> SUFFICES ASSUME Speech!Init \/ SpeechRests PROVE SpeechInv
  OBVIOUS
<1>1. SpeechTypes
  <2>1. vendor \in SpeechVendors /\ stream \in BOOLEAN /\ byok \in BOOLEAN
    BY DEF Speech!Init, SpeechRests, SpeechVendors
  <2>2. /\ handler \in {"checking", "over"} /\ gen = "unstarted" /\ run = "open"
        /\ made = 0 /\ held = 0 /\ pulled = 0 /\ sent = 0 /\ vend = "open"
        /\ chars = "none" /\ tokens = "none" /\ finisher = "none" /\ status = "none"
        /\ background = FALSE
    BY DEF Speech!Init, SpeechRests
  <2>3. made \in Nat /\ held \in Nat /\ pulled \in Nat /\ sent \in Nat
        /\ made <= SpeechChunks /\ pulled + held <= made /\ sent <= pulled
    BY <2>2, PartsAssumption
  <2> QED
    BY <2>1, <2>2, <2>3 DEF SpeechTypes
<1>2. SpeechStage /\ SpeechFinish /\ SpeechChunksInv
  BY DEF Speech!Init, SpeechRests, SpeechStage, SpeechFinish, SpeechChunksInv
<1>3. SpeechAnswer
  BY DEF Speech!Init, SpeechRests, SpeechAnswer, Speech!None
<1>4. SpeechTokens
  <2>1. made = 0 /\ handler \in {"checking", "over"}
    BY DEF Speech!Init, SpeechRests
  <2>2. ~ (made > 0) /\ ~ (handler \notin {"checking", "over"})
    BY <2>1
  <2> QED
    BY <2>2, Zenon DEF SpeechTokens
<1>5. SpeechEvent
  BY DEF Speech!Init, SpeechRests, SpeechEvent
<1>6. SpeechRefusal
  BY DEF Speech!Init, SpeechRests, SpeechRefusal
<1> QED
  BY <1>1, <1>2, <1>3, <1>4, <1>5, <1>6 DEF SpeechInv, SpeechParts

\* Every engine that is priced in tokens counts or estimates them.
LEMMA EnginesCount ==
    ASSUME vendor \in SpeechVendors
    PROVE  /\ Engine.priced # "characters" =>
                Engine.estimates \/ Engine.tokens = "at start"
           /\ Engine.estimates \in BOOLEAN
<1> USE DEF Engine, Speech!V, Speech!Vendor, Speech!Engine
<1>1. CASE vendor = "plain"
  BY <1>1
<1>2. CASE vendor = "aws"
  BY <1>2 DEF Speech!Polly
<1>3. CASE vendor = "deepgram"
  BY <1>3 DEF Speech!Aura
<1>4. CASE vendor = "inworld"
  BY <1>4 DEF Speech!Inworld
<1>5. CASE vendor = "minimax"
  BY <1>5 DEF Speech!Minimax
<1>6. CASE vendor = "fishaudio"
  BY <1>6 DEF Speech!Fish
<1>7. CASE vendor = "openai"
  BY <1>7 DEF Speech!OpenaiMini
<1>8. CASE vendor = "gemini"
  BY <1>8 DEF Speech!Gemini
<1> QED
  BY <1>1, <1>2, <1>3, <1>4, <1>5, <1>6, <1>7, <1>8 DEF SpeechVendors

LEMMA SpeechKeepsPromises ==
    SpeechInv => /\ Speech!TypeOK
                 /\ Speech!GeneratedIsBilled /\ Speech!NothingGeneratedAfterTheEvent
                 /\ Speech!CompletedIsWhole /\ Speech!AccountTroubleIsNotShown
<1> SUFFICES ASSUME SpeechInv
             PROVE  /\ Speech!TypeOK
                    /\ Speech!GeneratedIsBilled /\ Speech!NothingGeneratedAfterTheEvent
                    /\ Speech!CompletedIsWhole /\ Speech!AccountTroubleIsNotShown
  OBVIOUS
<1>1. SpeechTypes /\ SpeechFinish /\ SpeechStage /\ SpeechTokens /\ SpeechEvent
  BY DEF SpeechInv, SpeechParts
<1>2. /\ Len(events) = IF finisher = "done" THEN 1 ELSE 0
      /\ finisher = "done" =>
           events[1] = [status |-> status, units |-> Speech!Units, made |-> made]
  BY <1>1 DEF SpeechEvent
<1>3. Speech!TypeOK
  <2>1. refusal \in Speech!Refusals \cup {Speech!NoRefusal}
    BY DEF SpeechInv, SpeechParts, SpeechRefusal
  <2>2. made \in 0..SpeechChunks /\ held \in 0..made /\ pulled \in 0..made /\ sent \in 0..pulled
    BY <1>1, PartsAssumption DEF SpeechTypes
  <2>3. Len(events) <= 1
    BY <1>2
  <2> QED
    BY <1>1, <2>1, <2>2, <2>3 DEF SpeechTypes, Speech!TypeOK
<1>4. Speech!GeneratedIsBilled
  <2> SUFFICES ASSUME finisher = "done"
               PROVE  Speech!Units # {} <=> made > 0
    BY <1>2 DEF Speech!GeneratedIsBilled
  <2>1. CASE made = 0
    BY <2>1 DEF Speech!Units
  <2>2. CASE made > 0
    <3>1. run = "closed" /\ vendor \in SpeechVendors
      BY <1>1 DEF SpeechFinish, SpeechTypes
    <3>2. Engine.priced = "characters" \/ tokens # "none"
      BY <1>1, <2>2, <3>1, EnginesCount DEF SpeechTokens
    <3> QED
      BY <2>2, <3>2 DEF Speech!Units, Engine
  <2> QED
    BY <1>1, <2>1, <2>2 DEF SpeechTypes
<1>5. Speech!NothingGeneratedAfterTheEvent
  BY <1>1, <1>2 DEF Speech!NothingGeneratedAfterTheEvent, SpeechFinish
<1>6. Speech!CompletedIsWhole
  <2>1. SpeechChunksInv /\ SpeechAnswer
    BY DEF SpeechInv, SpeechParts
  <2> SUFFICES ASSUME finisher = "done"
               PROVE  /\ status = "completed" /\ handler = "over" =>
                             sent = made /\ answer.code = "ok"
                      /\ answer.code \notin {"ok", "none"} => status # "completed"
    BY <1>2 DEF Speech!CompletedIsWhole
  <2> QED
    BY <1>1, <2>1 DEF SpeechChunksInv, SpeechAnswer, SpeechFinish, SpeechTypes
<1>7. Speech!AccountTroubleIsNotShown
  <2> SUFFICES ASSUME refusal.account, refusal.status \in {400, 402, 403}, ~byok
               PROVE  answer.text = "ours" /\ answer.code = "provider_error"
    BY DEF Speech!AccountTroubleIsNotShown
  <2>1. refusal # Speech!NoRefusal
    BY DEF Speech!NoRefusal
  <2>2. Speech!CodeOf(refusal) = "account"
    BY DEF Speech!CodeOf
  <2> QED
    BY <2>1, <2>2 DEF SpeechInv, SpeechParts, SpeechRefusal, Speech!Words, Speech!ClientCode
<1> QED
  BY <1>3, <1>4, <1>5, <1>6, <1>7

-----------------------------------------------------------------------------
(* The usage reports of the live vendors: first, sums over modalities.      *)

\* What the recursive function of the fold satisfies.
SumsUp(g, t, S) ==
    g = [s \in SUBSET S |-> IF s = {} THEN 0
                            ELSE t[CHOOSE x \in s : TRUE] + g[s \ {CHOOSE x \in s : TRUE}]]

Part(t, s, k) == IF k \in s THEN t[k] ELSE 0

\* A sum over at most three modalities has one value.
LEMMA TotalIsTheSum ==
    ASSUME NEW S \in SUBSET Units!Modalities, NEW t, DOMAIN t = S, \A k \in S : t[k] \in Nat
    PROVE  Units!Total(t) = Part(t, S, "text") + Part(t, S, "audio") + Part(t, S, "image")
<1> DEFINE Sum(s) == Part(t, s, "text") + Part(t, s, "audio") + Part(t, s, "image")
           h == [s \in SUBSET S |-> Sum(s)]
           pick(s) == CHOOSE x \in s : TRUE
           it == CHOOSE g : SumsUp(g, t, S)
<1>1. \A s \in SUBSET S : s # {} => pick(s) \in s /\ pick(s) \in S
  OBVIOUS
<1>2. \A s \in SUBSET S, k \in S : k \in s => Sum(s) = t[k] + Sum(s \ {k})
  <2> SUFFICES ASSUME NEW s \in SUBSET S, NEW k \in S, k \in s PROVE Sum(s) = t[k] + Sum(s \ {k})
    OBVIOUS
  <2>1. \A m \in {"text", "audio", "image"} : m \in s => t[m] \in Nat
    OBVIOUS
  <2>2. CASE k = "text"
    BY <2>1, <2>2 DEF Part
  <2>3. CASE k = "audio"
    BY <2>1, <2>3 DEF Part
  <2>4. CASE k = "image"
    BY <2>1, <2>4 DEF Part
  <2> QED
    BY <2>2, <2>3, <2>4 DEF Units!Modalities
<1>3. Sum({}) = 0
  BY DEF Part
<1>4. Units!Total(t) = it[S]
  BY DEF Units!Total, Units!MapThenSumSet, Units!MapThenFoldSet, SumsUp
<1>5. SumsUp(h, t, S)
  <2>1. ASSUME NEW s \in SUBSET S, s # {}
        PROVE  h[s] = t[pick(s)] + h[s \ {pick(s)}]
    <3>1. pick(s) \in s /\ pick(s) \in S /\ s \ {pick(s)} \in SUBSET S
      BY <1>1, <2>1
    <3>2. Sum(s) = t[pick(s)] + Sum(s \ {pick(s)})
      BY <1>2, <3>1
    <3>3. h[s] = Sum(s) /\ h[s \ {pick(s)}] = Sum(s \ {pick(s)})
      BY <3>1
    <3> QED
      BY <3>2, <3>3
  <2>2. {} \in SUBSET S /\ h[{}] = 0
    BY <1>3
  <2> HIDE DEF Sum
  <2>3. h = [s \in SUBSET S |-> IF s = {} THEN 0 ELSE t[pick(s)] + h[s \ {pick(s)}]]
    BY <2>1, <2>2
  <2> QED
    BY <2>3 DEF SumsUp
<1>6. SumsUp(it, t, S)
  BY <1>5
<1> HIDE DEF it, h
<1> DEFINE Good(s) == it[s] = Sum(s)
<1>7. Good({})
  BY <1>3, <1>6 DEF SumsUp
<1>8. ASSUME NEW s \in SUBSET S, s # {}, \A k \in s : Good(s \ {k})
      PROVE  Good(s)
  <2>1. it[s] = t[pick(s)] + it[s \ {pick(s)}]
    BY <1>6, <1>8 DEF SumsUp
  <2>2. it[s \ {pick(s)}] = Sum(s \ {pick(s)})
    BY <1>1, <1>8
  <2> QED
    BY <1>1, <1>2, <1>8, <2>1, <2>2
<1> HIDE DEF Good
<1>9. ASSUME NEW k \in S PROVE Good({k})
  <2>1. \A j \in {k} : {k} \ {j} = {}
    OBVIOUS
  <2> QED
    BY <1>7, <1>8, <2>1
<1>10. ASSUME NEW k \in S, NEW m \in S PROVE Good({k, m})
  <2>1. \A j \in {k, m} : {k, m} \ {j} \in {{}, {k}, {m}}
    OBVIOUS
  <2> QED
    BY <1>7, <1>8, <1>9, <2>1
<1>11. ASSUME NEW k \in S, NEW m \in S, NEW n \in S PROVE Good({k, m, n})
  <2>1. \A j \in {k, m, n} : {k, m, n} \ {j} \in {{}, {k}, {m}, {n}, {k, m}, {k, n}, {m, n}}
    OBVIOUS
  <2> QED
    BY <1>7, <1>8, <1>9, <1>10, <2>1, SMTT(30), ZenonT(30)
<1>12. S = {} \/ \E k, m, n \in S : S = {k, m, n}
  <2>1. S \subseteq {"text", "audio", "image"}
    BY DEF Units!Modalities
  <2>2. CASE "text" \in S /\ "audio" \in S /\ "image" \in S
    <3>1. S = {"text", "audio", "image"}
      BY <2>1, <2>2
    <3> QED
      BY <2>2, <3>1
  <2>3. CASE "text" \in S /\ "audio" \in S /\ "image" \notin S
    <3>1. S = {"text", "audio", "audio"}
      BY <2>1, <2>3
    <3> QED
      BY <2>3, <3>1
  <2>4. CASE "text" \in S /\ "audio" \notin S /\ "image" \in S
    <3>1. S = {"text", "image", "image"}
      BY <2>1, <2>4
    <3> QED
      BY <2>4, <3>1
  <2>5. CASE "text" \in S /\ "audio" \notin S /\ "image" \notin S
    <3>1. S = {"text", "text", "text"}
      BY <2>1, <2>5
    <3> QED
      BY <2>5, <3>1
  <2>6. CASE "text" \notin S /\ "audio" \in S /\ "image" \in S
    <3>1. S = {"audio", "image", "image"}
      BY <2>1, <2>6
    <3> QED
      BY <2>6, <3>1
  <2>7. CASE "text" \notin S /\ "audio" \in S /\ "image" \notin S
    <3>1. S = {"audio", "audio", "audio"}
      BY <2>1, <2>7
    <3> QED
      BY <2>7, <3>1
  <2>8. CASE "text" \notin S /\ "audio" \notin S /\ "image" \in S
    <3>1. S = {"image", "image", "image"}
      BY <2>1, <2>8
    <3> QED
      BY <2>8, <3>1
  <2>9. CASE "text" \notin S /\ "audio" \notin S /\ "image" \notin S
    BY <2>1, <2>9
  <2> QED
    BY <2>2, <2>3, <2>4, <2>5, <2>6, <2>7, <2>8, <2>9
<1>13. Good(S)
  BY <1>7, <1>11, <1>12
<1> QED
  BY <1>4, <1>13 DEF Good

\* The sum of a report's tokens, by modality.
LEMMA TotalOfInput ==
    ASSUME NEW t, DOMAIN t = Units!Modalities, \A k \in Units!Modalities : t[k] \in Nat
    PROVE  /\ Units!Total(t) = t["text"] + t["audio"] + t["image"]
           /\ Units!Total(t) \in Nat
<1>1. Units!Total(t) = Part(t, Units!Modalities, "text") + Part(t, Units!Modalities, "audio")
                       + Part(t, Units!Modalities, "image")
  BY TotalIsTheSum
<1> QED
  BY <1>1 DEF Part, Units!Modalities

LEMMA TotalOfOutput ==
    ASSUME NEW t, DOMAIN t = {"text", "audio"}, t["text"] \in Nat, t["audio"] \in Nat
    PROVE  /\ Units!Total(t) = t["text"] + t["audio"]
           /\ Units!Total(t) \in Nat
<1> DEFINE S == {"text", "audio"}
<1>1. S \in SUBSET Units!Modalities /\ DOMAIN t = S /\ \A k \in S : t[k] \in Nat
  BY DEF Units!Modalities
<1>2. Units!Total(t) = Part(t, S, "text") + Part(t, S, "audio") + Part(t, S, "image")
  BY <1>1, TotalIsTheSum
<1> QED
  BY <1>2 DEF Part

UnitsInv ==
    /\ dialect \in {"openai", "gemini"} /\ report \in Units!Reports(dialect)
    /\ counted \in BOOLEAN
    /\ counted => units = IF dialect = "openai" THEN Units!OpenaiUnits(report)
                          ELSE Units!GeminiUnits(report)

\* Of each modality there is a number of tokens, the cached ones among them.
LEMMA TokensOfReports ==
    ASSUME UnitsInv
    PROVE  /\ DOMAIN report.input = Units!Modalities /\ DOMAIN report.cached = Units!Modalities
           /\ DOMAIN report.output = {"text", "audio"}
           /\ \A k \in Units!Modalities :
                /\ report.input[k] \in Nat /\ report.cached[k] \in Nat
                /\ report.cached[k] <= report.input[k]
           /\ report.output["text"] \in Nat /\ report.output["audio"] \in Nat
           /\ dialect = "gemini" =>
                /\ report.split \in BOOLEAN /\ report.answered \in BOOLEAN
                /\ report.beyond \in Nat /\ report.tool \in Nat /\ report.thoughts \in Nat
<1>1. ReportTokens \in Nat
  BY PartsAssumption
<1>2. CASE dialect = "openai"
  <2>1. report \in Units!OpenaiReports
    BY <1>2 DEF UnitsInv, Units!Reports
  <2> QED
    BY <1>1, <1>2, <2>1 DEF Units!OpenaiReports, Units!Tokens
<1>3. CASE dialect = "gemini"
  <2>1. report \in Units!GeminiReports
    BY <1>3 DEF UnitsInv, Units!Reports
  <2> QED
    BY <1>1, <1>3, <2>1 DEF Units!GeminiReports, Units!Tokens
<1> QED
  BY <1>2, <1>3 DEF UnitsInv

LEMMA UnitsStarts == Units!Init \/ UnitsRest => UnitsInv
<1>1. ASSUME Units!Init PROVE UnitsInv
  BY <1>1 DEF Units!Init, UnitsInv
<1>2. ASSUME UnitsRest PROVE UnitsInv
  <2>1. ReportTokens \in Nat /\ 0 \in 0..ReportTokens
    BY PartsAssumption
  <2>2. /\ [k \in Units!Modalities |-> 0] \in Units!Tokens
        /\ [text |-> 0, audio |-> 0] \in [{"text", "audio"} -> 0..ReportTokens]
    BY <2>1 DEF Units!Tokens
  <2>3. Units!Nothing \in Units!OpenaiReports
    BY <2>1, <2>2 DEF Units!Nothing, Units!OpenaiReports
  <2> QED
    BY <1>2, <2>3 DEF UnitsRest, UnitsInv, Units!Reports
<1> QED
  BY <1>1, <1>2

LEMMA UnitsInvariance == UnitsInv /\ [Units!Next]_(Units!vars) => UnitsInv'
<1> USE DEF Units!Reports, Units!OpenaiReports, Units!GeminiReports, Units!OpenaiUnits,
   Units!GeminiUnits, Units!Pos, Units!PromptCount
<1>1. ASSUME UnitsInv, Units!Next PROVE UnitsInv'
  <2>1. UNCHANGED <<dialect, report>> /\ counted' = TRUE
    BY <1>1 DEF Units!Next, Units!Count
  <2>2. units' = IF dialect = "openai" THEN Units!OpenaiUnits(report)
                 ELSE Units!GeminiUnits(report)
    BY <1>1 DEF Units!Next, Units!Count
  <2> QED
    BY <1>1, <2>1, <2>2 DEF UnitsInv
<1>2. ASSUME UnitsInv, UNCHANGED Units!vars PROVE UnitsInv'
  BY <1>2 DEF UnitsInv, Units!vars
<1> QED
  BY <1>1, <1>2

LEMMA UnitsKeepPromises == UnitsInv => Units!EveryTokenIsBilledOnce
<1> SUFFICES ASSUME UnitsInv, counted
             PROVE  Units!Billed = Units!Reported
                      - (IF dialect = "gemini" THEN report.cached["image"] ELSE 0)
  BY DEF Units!EveryTokenIsBilledOnce
<1> DEFINE r == report
           in == r.input["text"] + r.input["audio"] + r.input["image"]
           ca == r.cached["text"] + r.cached["audio"] + r.cached["image"]
           ou == r.output["text"] + r.output["audio"]
<1>1. /\ \A k \in {"text", "audio", "image"} :
           r.input[k] \in Nat /\ r.cached[k] \in Nat /\ r.cached[k] <= r.input[k]
      /\ r.output["text"] \in Nat /\ r.output["audio"] \in Nat
      /\ DOMAIN r.input = Units!Modalities /\ DOMAIN r.cached = Units!Modalities
      /\ DOMAIN r.output = {"text", "audio"}
  BY TokensOfReports DEF Units!Modalities
<1>2. Units!Total(r.input) = in /\ Units!Total(r.cached) = ca /\ Units!Total(r.output) = ou
  BY <1>1, TotalOfInput, TotalOfOutput DEF Units!Modalities
<1>3. CASE dialect = "openai"
  <2>1. units = Units!OpenaiUnits(r)
    BY <1>3 DEF UnitsInv
  <2> DEFINE fresh == [k \in Units!Modalities |-> Units!Pos(r.input[k] - r.cached[k])]
  <2>2. units.input = fresh /\ units.cached = r.cached /\ units.output = r.output
    BY <2>1 DEF Units!OpenaiUnits
  <2>3. /\ DOMAIN fresh = Units!Modalities
        /\ \A k \in Units!Modalities : fresh[k] = r.input[k] - r.cached[k] /\ fresh[k] \in Nat
    BY <1>1 DEF Units!Modalities, Units!Pos
  <2> HIDE DEF fresh
  <2>4. Units!Total(fresh) = fresh["text"] + fresh["audio"] + fresh["image"]
    BY <2>3, TotalOfInput
  <2>5. Units!Total(fresh) = in - ca
    BY <1>1, <2>3, <2>4 DEF Units!Modalities
  <2> QED
    BY <1>1, <1>2, <1>3, <2>2, <2>5 DEF Units!Billed, Units!Reported
<1>4. CASE dialect = "gemini"
  <2>1. units = Units!GeminiUnits(r)
    BY <1>4 DEF UnitsInv
  <2> DEFINE cached == [k \in Units!Modalities |-> IF k = "image" THEN 0 ELSE r.cached[k]]
             rest == IF r.split THEN [k \in Units!Modalities |-> Units!Pos(r.input[k] - r.cached[k])
                                          + IF k = "text" THEN r.beyond ELSE 0]
                     ELSE [k \in Units!Modalities |-> IF k = "audio"
                              THEN Units!Pos(Units!PromptCount(r) - Units!Total(r.cached)) ELSE 0]
             answered == IF r.answered THEN r.output
                         ELSE [text |-> 0, audio |-> Units!Total(r.output)]
             fresh == [rest EXCEPT !["text"] = @ + r.tool]
             spoken == [answered EXCEPT !["text"] = @ + r.thoughts]
  <2>2. units.input = fresh /\ units.cached = cached /\ units.output = spoken
    BY <2>1 DEF Units!GeminiUnits
  <2>3. /\ r.split \in BOOLEAN /\ r.answered \in BOOLEAN
        /\ r.beyond \in Nat /\ r.tool \in Nat /\ r.thoughts \in Nat
    BY <1>4, TokensOfReports
  <2>4. Units!Total(cached) = r.cached["text"] + r.cached["audio"]
    <3>1. /\ DOMAIN cached = Units!Modalities
          /\ \A k \in Units!Modalities : cached[k] \in Nat
          /\ cached["text"] = r.cached["text"] /\ cached["audio"] = r.cached["audio"]
          /\ cached["image"] = 0
      BY <1>1 DEF Units!Modalities
    <3> HIDE DEF cached
    <3> QED
      BY <1>1, <3>1, TotalOfInput
  <2>5. /\ DOMAIN rest = Units!Modalities /\ \A k \in Units!Modalities : rest[k] \in Nat
        /\ rest["text"] + rest["audio"] + rest["image"] = in + r.beyond - ca
    <3>1. CASE r.split
      <4>1. /\ DOMAIN rest = Units!Modalities
            /\ rest["text"] = r.input["text"] - r.cached["text"] + r.beyond
            /\ rest["audio"] = r.input["audio"] - r.cached["audio"]
            /\ rest["image"] = r.input["image"] - r.cached["image"]
        BY <1>1, <2>3, <3>1 DEF Units!Modalities, Units!Pos
      <4> HIDE DEF rest
      <4> QED
        BY <1>1, <2>3, <4>1 DEF Units!Modalities
    <3>2. CASE ~r.split
      <4>1. Units!PromptCount(r) - Units!Total(r.cached) = in + r.beyond - ca
        BY <1>1, <1>2, <2>3 DEF Units!PromptCount
      <4>2. in + r.beyond - ca \in Nat
        BY <1>1, <2>3
      <4>3. Units!Pos(Units!PromptCount(r) - Units!Total(r.cached)) = in + r.beyond - ca
        BY <4>1, <4>2 DEF Units!Pos
      <4>4. /\ DOMAIN rest = Units!Modalities
            /\ rest["text"] = 0 /\ rest["audio"] = in + r.beyond - ca /\ rest["image"] = 0
        BY <3>2, <4>3 DEF Units!Modalities
      <4> HIDE DEF rest, in, ca
      <4> QED
        BY <4>2, <4>4 DEF Units!Modalities
    <3> QED
      BY <2>3, <3>1, <3>2
  <2>6. Units!Total(fresh) = in + r.beyond - ca + r.tool
    <3> HIDE DEF rest
    <3>1. /\ DOMAIN fresh = Units!Modalities
          /\ fresh["text"] = rest["text"] + r.tool
          /\ fresh["audio"] = rest["audio"] /\ fresh["image"] = rest["image"]
          /\ rest["text"] \in Nat /\ rest["audio"] \in Nat /\ rest["image"] \in Nat
      BY <2>5 DEF Units!Modalities
    <3> HIDE DEF fresh
    <3>2. \A k \in Units!Modalities : fresh[k] \in Nat
      BY <2>3, <3>1 DEF Units!Modalities
    <3>3. Units!Total(fresh) = fresh["text"] + fresh["audio"] + fresh["image"]
      BY <3>1, <3>2, TotalOfInput
    <3> QED
      BY <2>3, <2>5, <3>1, <3>3
  <2>7. Units!Total(spoken) = ou + r.thoughts
    <3>1. /\ DOMAIN answered = {"text", "audio"}
          /\ answered["text"] \in Nat /\ answered["audio"] \in Nat
          /\ answered["text"] + answered["audio"] = ou
      BY <1>1, <1>2, <2>3
    <3> HIDE DEF answered, ou
    <3>2. /\ DOMAIN spoken = {"text", "audio"}
          /\ spoken["text"] = answered["text"] + r.thoughts /\ spoken["audio"] = answered["audio"]
      BY <3>1
    <3> HIDE DEF spoken
    <3> QED
      BY <2>3, <3>1, <3>2, TotalOfOutput
  <2>8. /\ Units!Billed = (in + r.beyond - ca + r.tool)
                          + (r.cached["text"] + r.cached["audio"]) + (ou + r.thoughts)
        /\ Units!Reported = in + ou + (r.beyond + r.tool + r.thoughts)
    BY <1>2, <1>4, <2>2, <2>4, <2>6, <2>7 DEF Units!Billed, Units!Reported
  <2> QED
    BY <1>1, <1>4, <2>3, <2>8
<1> QED
  BY <1>3, <1>4 DEF UnitsInv

-----------------------------------------------------------------------------
(* The choice of a format.                                                 *)

RateOK(r) == r \in Nat /\ 0 < r /\ r <= 48000

\* Every adapter makes pcm, and the catalog lists no rate that is not a
\* divisor of one of the adapter's own.
CapOK(c) ==
    /\ "pcm" \in c.formats
    /\ c.rates # {} /\ \A r \in c.rates : RateOK(r)
    /\ \A l \in c.listed : \E r \in c.rates : Choice!Divides(l, r)

LEMMA CapabilitiesAreOK ==
    ASSUME adapter \in AdapterNames
    PROVE  CapOK(Choice!C)
<1> USE DEF Choice!Can, Choice!Telephony
<1>a. \A n \in Nat : 0 < n => n % n = 0
  OBVIOUS
<1>b. 24000 % 8000 = 0 /\ 16000 % 8000 = 0
  OBVIOUS
<1>1. CASE adapter = "aws"
  <2>1. Choice!C = Choice!Aws
    BY <1>1 DEF Choice!C, Choice!Adapter
  <2>2. /\ "pcm" \in Choice!Aws.formats
        /\ Choice!Aws.rates = Choice!Narrow /\ Choice!Aws.listed = Choice!Narrow
    BY DEF Choice!Aws
  <2>3. CapOK(Choice!Aws)
    BY <1>a, <1>b, <2>2 DEF CapOK, RateOK, Choice!Divides, Choice!Narrow
  <2> QED
    BY <2>1, <2>3
<1>2. CASE adapter = "azure"
  <2>1. Choice!C = Choice!Azure
    BY <1>2 DEF Choice!C, Choice!Adapter
  <2>2. /\ "pcm" \in Choice!Azure.formats
        /\ Choice!Azure.rates = Choice!Common \cup {48000} /\ Choice!Azure.listed = Choice!Common \cup {48000}
    BY DEF Choice!Azure
  <2>3. CapOK(Choice!Azure)
    BY <1>a, <1>b, <2>2 DEF CapOK, RateOK, Choice!Divides, Choice!Common
  <2> QED
    BY <2>1, <2>3
<1>3. CASE adapter = "cartesia"
  <2>1. Choice!C = Choice!Cartesia
    BY <1>3 DEF Choice!C, Choice!Adapter
  <2>2. /\ "pcm" \in Choice!Cartesia.formats
        /\ Choice!Cartesia.rates = Choice!Wide /\ Choice!Cartesia.listed = Choice!Wide
    BY DEF Choice!Cartesia
  <2>3. CapOK(Choice!Cartesia)
    BY <1>a, <1>b, <2>2 DEF CapOK, RateOK, Choice!Divides, Choice!Wide
  <2> QED
    BY <2>1, <2>3
<1>4. CASE adapter = "deepgram"
  <2>1. Choice!C = Choice!Deepgram
    BY <1>4 DEF Choice!C, Choice!Adapter
  <2>2. /\ "pcm" \in Choice!Deepgram.formats
        /\ Choice!Deepgram.rates = Choice!Common \cup {32000, 44100, 48000} /\ Choice!Deepgram.listed = Choice!Common \cup {32000, 44100, 48000}
    BY DEF Choice!Deepgram
  <2>3. CapOK(Choice!Deepgram)
    BY <1>a, <1>b, <2>2 DEF CapOK, RateOK, Choice!Divides, Choice!Common
  <2> QED
    BY <2>1, <2>3
<1>5. CASE adapter = "elevenlabs"
  <2>1. Choice!C = Choice!Elevenlabs
    BY <1>5 DEF Choice!C, Choice!Adapter
  <2>2. /\ "pcm" \in Choice!Elevenlabs.formats
        /\ Choice!Elevenlabs.rates = Choice!Wide /\ Choice!Elevenlabs.listed = Choice!Wide \ {44100}
    BY DEF Choice!Elevenlabs
  <2>3. CapOK(Choice!Elevenlabs)
    BY <1>a, <1>b, <2>2 DEF CapOK, RateOK, Choice!Divides, Choice!Wide
  <2> QED
    BY <2>1, <2>3
<1>6. CASE adapter = "fishaudio"
  <2>1. Choice!C = Choice!Fishaudio
    BY <1>6 DEF Choice!C, Choice!Adapter
  <2>2. /\ "pcm" \in Choice!Fishaudio.formats
        /\ Choice!Fishaudio.rates = Choice!Common \cup {32000, 44100} /\ Choice!Fishaudio.listed = Choice!Common \cup {32000, 44100}
    BY DEF Choice!Fishaudio
  <2>3. CapOK(Choice!Fishaudio)
    BY <1>a, <1>b, <2>2 DEF CapOK, RateOK, Choice!Divides, Choice!Common
  <2> QED
    BY <2>1, <2>3
<1>7. CASE adapter = "gemini"
  <2>1. Choice!C = Choice!Gemini
    BY <1>7 DEF Choice!C, Choice!Adapter
  <2>2. /\ "pcm" \in Choice!Gemini.formats
        /\ Choice!Gemini.rates = {24000} /\ Choice!Gemini.listed = {24000, 8000}
    BY DEF Choice!Gemini
  <2>3. CapOK(Choice!Gemini)
    BY <1>a, <1>b, <2>2 DEF CapOK, RateOK, Choice!Divides
  <2> QED
    BY <2>1, <2>3
<1>8. CASE adapter = "google"
  <2>1. Choice!C = Choice!Google
    BY <1>8 DEF Choice!C, Choice!Adapter
  <2>2. /\ "pcm" \in Choice!Google.formats
        /\ Choice!Google.rates = Choice!Common \cup {48000} /\ Choice!Google.listed = Choice!Common \cup {48000}
    BY DEF Choice!Google
  <2>3. CapOK(Choice!Google)
    BY <1>a, <1>b, <2>2 DEF CapOK, RateOK, Choice!Divides, Choice!Common
  <2> QED
    BY <2>1, <2>3
<1>9. CASE adapter = "groq"
  <2>1. Choice!C = Choice!Groq
    BY <1>9 DEF Choice!C, Choice!Adapter
  <2>2. /\ "pcm" \in Choice!Groq.formats
        /\ Choice!Groq.rates = Choice!Wide \cup {32000} /\ Choice!Groq.listed = Choice!Wide \cup {32000}
    BY DEF Choice!Groq
  <2>3. CapOK(Choice!Groq)
    BY <1>a, <1>b, <2>2 DEF CapOK, RateOK, Choice!Divides, Choice!Wide
  <2> QED
    BY <2>1, <2>3
<1>10. CASE adapter = "inworld"
  <2>1. Choice!C = Choice!Inworld
    BY <1>10 DEF Choice!C, Choice!Adapter
  <2>2. /\ "pcm" \in Choice!Inworld.formats
        /\ Choice!Inworld.rates = Choice!Wide /\ Choice!Inworld.listed = Choice!Wide
    BY DEF Choice!Inworld
  <2>3. CapOK(Choice!Inworld)
    BY <1>a, <1>b, <2>2 DEF CapOK, RateOK, Choice!Divides, Choice!Wide
  <2> QED
    BY <2>1, <2>3
<1>11. CASE adapter = "minimax"
  <2>1. Choice!C = Choice!Minimax
    BY <1>11 DEF Choice!C, Choice!Adapter
  <2>2. /\ "pcm" \in Choice!Minimax.formats
        /\ Choice!Minimax.rates = Choice!Common \cup {22050, 32000, 44100} /\ Choice!Minimax.listed = Choice!Common \cup {22050, 32000, 44100}
    BY DEF Choice!Minimax
  <2>3. CapOK(Choice!Minimax)
    BY <1>a, <1>b, <2>2 DEF CapOK, RateOK, Choice!Divides, Choice!Common
  <2> QED
    BY <2>1, <2>3
<1>12. CASE adapter = "mistral"
  <2>1. Choice!C = Choice!Mistral
    BY <1>12 DEF Choice!C, Choice!Adapter
  <2>2. /\ "pcm" \in Choice!Mistral.formats
        /\ Choice!Mistral.rates = {24000} /\ Choice!Mistral.listed = {24000, 8000}
    BY DEF Choice!Mistral
  <2>3. CapOK(Choice!Mistral)
    BY <1>a, <1>b, <2>2 DEF CapOK, RateOK, Choice!Divides
  <2> QED
    BY <2>1, <2>3
<1>13. CASE adapter = "murf"
  <2>1. Choice!C = Choice!Murf
    BY <1>13 DEF Choice!C, Choice!Adapter
  <2>2. /\ "pcm" \in Choice!Murf.formats
        /\ Choice!Murf.rates = Choice!Common \cup {44100, 48000} /\ Choice!Murf.listed = Choice!Common \cup {44100, 48000}
    BY DEF Choice!Murf
  <2>3. CapOK(Choice!Murf)
    BY <1>a, <1>b, <2>2 DEF CapOK, RateOK, Choice!Divides, Choice!Common
  <2> QED
    BY <2>1, <2>3
<1>14. CASE adapter = "openai"
  <2>1. Choice!C = Choice!Openai
    BY <1>14 DEF Choice!C, Choice!Adapter
  <2>2. /\ "pcm" \in Choice!Openai.formats
        /\ Choice!Openai.rates = {24000} /\ Choice!Openai.listed = {24000, 8000}
    BY DEF Choice!Openai
  <2>3. CapOK(Choice!Openai)
    BY <1>a, <1>b, <2>2 DEF CapOK, RateOK, Choice!Divides
  <2> QED
    BY <2>1, <2>3
<1>15. CASE adapter = "rime"
  <2>1. Choice!C = Choice!Rime
    BY <1>15 DEF Choice!C, Choice!Adapter
  <2>2. /\ "pcm" \in Choice!Rime.formats
        /\ Choice!Rime.rates = Choice!Common \cup {22050} /\ Choice!Rime.listed = Choice!Common \cup {22050}
    BY DEF Choice!Rime
  <2>3. CapOK(Choice!Rime)
    BY <1>a, <1>b, <2>2 DEF CapOK, RateOK, Choice!Divides, Choice!Common
  <2> QED
    BY <2>1, <2>3
<1>16. CASE adapter = "smallest"
  <2>1. Choice!C = Choice!Smallest
    BY <1>16 DEF Choice!C, Choice!Adapter
  <2>2. /\ "pcm" \in Choice!Smallest.formats
        /\ Choice!Smallest.rates = Choice!Common \cup {44100} /\ Choice!Smallest.listed = Choice!Common \cup {44100}
    BY DEF Choice!Smallest
  <2>3. CapOK(Choice!Smallest)
    BY <1>a, <1>b, <2>2 DEF CapOK, RateOK, Choice!Divides, Choice!Common
  <2> QED
    BY <2>1, <2>3
<1>17. CASE adapter = "speechmatics"
  <2>1. Choice!C = Choice!Speechmatics
    BY <1>17 DEF Choice!C, Choice!Adapter
  <2>2. /\ "pcm" \in Choice!Speechmatics.formats
        /\ Choice!Speechmatics.rates = {16000} /\ Choice!Speechmatics.listed = Choice!Narrow
    BY DEF Choice!Speechmatics
  <2>3. CapOK(Choice!Speechmatics)
    BY <1>a, <1>b, <2>2 DEF CapOK, RateOK, Choice!Divides, Choice!Narrow
  <2> QED
    BY <2>1, <2>3
<1>18. CASE adapter = "together"
  <2>1. Choice!C = Choice!Together
    BY <1>18 DEF Choice!C, Choice!Adapter
  <2>2. /\ "pcm" \in Choice!Together.formats
        /\ Choice!Together.rates = {24000} /\ Choice!Together.listed = {24000, 8000}
    BY DEF Choice!Together
  <2>3. CapOK(Choice!Together)
    BY <1>a, <1>b, <2>2 DEF CapOK, RateOK, Choice!Divides
  <2> QED
    BY <2>1, <2>3
<1>19. CASE adapter = "xai"
  <2>1. Choice!C = Choice!Xai
    BY <1>19 DEF Choice!C, Choice!Adapter
  <2>2. /\ "pcm" \in Choice!Xai.formats
        /\ Choice!Xai.rates = Choice!Wide /\ Choice!Xai.listed = Choice!Wide
    BY DEF Choice!Xai
  <2>3. CapOK(Choice!Xai)
    BY <1>a, <1>b, <2>2 DEF CapOK, RateOK, Choice!Divides, Choice!Wide
  <2> QED
    BY <2>1, <2>3
<1> QED
  BY <1>1, <1>2, <1>3, <1>4, <1>5, <1>6, <1>7, <1>8, <1>9, <1>10, <1>11, <1>12, <1>13, <1>14, <1>15, <1>16, <1>17, <1>18, <1>19 DEF AdapterNames

ChoiceInv ==
    /\ adapter \in AdapterNames
    /\ Choice!ConversionIsPossible /\ Choice!ToldRateIsTheirs /\ Choice!ListedIsServed

LEMMA ChoiceStarts == Choice!Init \/ ChoiceRests => ChoiceInv
BY DEF Choice!Init, ChoiceRests, ChoiceInv, AdapterNames, Choice!Resolved,
   Choice!ConversionIsPossible, Choice!ToldRateIsTheirs, Choice!ListedIsServed

\* The rate that is asked of the adapter is one of its own, and what the client
\* wants divides it.
LEMMA LargestRate ==
    ASSUME NEW R, R # {}, \A r \in R : RateOK(r)
    PROVE  Choice!Max(R) \in R
<1>0. PICK n \in Nat : \A r \in R : r \in Nat /\ r <= n
  BY DEF RateOK
<1>1. R \in SUBSET (0..n)
  BY <1>0
<1>2. PICK r \in R : \A q \in R : q <= r
  BY <1>1, LargestElement
<1>3. \A q \in R : r >= q
  BY <1>1, <1>2
<1> QED
  BY <1>3 DEF Choice!Max

LEMMA NativeIsARate ==
    ASSUME adapter \in AdapterNames
    PROVE  Choice!Native \in Choice!C.rates
<1>1. Choice!C.rates # {} /\ \A r \in Choice!C.rates : RateOK(r)
  BY CapabilitiesAreOK DEF CapOK
<1>2. Choice!Max(Choice!C.rates) \in Choice!C.rates
  BY <1>1, LargestRate
<1> QED
  BY <1>2 DEF Choice!Native

\* What each branch of resolve_tts serves or refuses keeps the promises.
LEMMA ChoiceStep ==
    ASSUME adapter \in AdapterNames, Choice!Resolve
    PROVE  ChoiceInv'
<1> DEFINE w == format \notin Choice!C.formats
           family == format \in Choice!PcmFamily
<1>1. /\ "pcm" \in Choice!C.formats /\ Choice!Native \in Choice!C.rates
      /\ \A l \in Choice!C.listed : \E r \in Choice!C.rates : Choice!Divides(l, r)
      /\ \A r \in Choice!C.rates : RateOK(r)
  BY CapabilitiesAreOK, NativeIsARate DEF CapOK
<1>2. UNCHANGED <<adapter, format, rate>>
  BY DEF Choice!Resolve
<1>3. /\ Choice!C' = Choice!C /\ Choice!Listed' = Choice!Listed /\ Choice!Wanted' = Choice!Wanted
  BY <1>2 DEF Choice!C, Choice!Listed, Choice!Wanted, Choice!Native
<1>4. \/ Choice!Fails("unsupported_encoding") /\ format \notin Choice!Listed
      \/ Choice!Fails("invalid_request") /\ ~family /\ rate # Choice!NoRate
      \/ Choice!Serves(w, Choice!Native) /\ ~w /\ ~family /\ rate = Choice!NoRate
      \/ Choice!ResolvePcm(w) /\ family
  <2>1. w /\ format \in Choice!Listed => family /\ format \in Choice!PcmWrapped
    BY <1>1 DEF Choice!Listed, Choice!PcmFamily, Choice!PcmWrapped
  <2>2. family => format \in Choice!Listed
    BY DEF Choice!Listed
  <2>3. CASE format \notin Choice!Listed
    <3>1. Choice!Fails("unsupported_encoding")
      BY <2>2, <2>3 DEF Choice!Resolve
    <3> QED
      BY <2>3, <3>1
  <2>4. CASE format \in Choice!Listed /\ ~family
    <3>1. IF rate # Choice!NoRate THEN Choice!Fails("invalid_request")
          ELSE Choice!Serves(w, Choice!Native)
      BY <1>1, <2>1, <2>4 DEF Choice!Resolve
    <3> QED
      BY <2>1, <2>4, <3>1
  <2>5. CASE family
    <3>1. Choice!ResolvePcm(w)
      BY <1>1, <2>1, <2>2, <2>5 DEF Choice!Resolve
    <3> QED
      BY <2>5, <3>1
  <2> QED
    BY <2>3, <2>4, <2>5
<1>5. Choice!ResolvePcm(w) =>
        \/ Choice!Fails("unsupported_encoding") /\ Choice!Wanted \notin Choice!C.listed
        \/ Choice!Serves(w, Choice!Wanted) /\ (w => Choice!Wanted = Choice!Native)
        \/ \E r \in Choice!Sources : Choice!Serves(TRUE, r)
  <2> SUFFICES ASSUME Choice!ResolvePcm(w), Choice!Wanted \in Choice!C.listed,
                      w \/ Choice!Wanted \notin Choice!RatesOf(format),
                      Choice!Wanted # Choice!Native
               PROVE  \E r \in Choice!Sources : Choice!Serves(TRUE, r)
    BY DEF Choice!ResolvePcm
  <2>1. Choice!Sources # {} /\ \A r \in Choice!Sources : RateOK(r)
    BY <1>1 DEF Choice!Sources
  <2>2. Choice!Max(Choice!Sources) \in Choice!Sources
    BY <2>1, LargestRate
  <2>3. Choice!Serves(TRUE, IF Choice!Native \in Choice!Sources THEN Choice!Native
                            ELSE Choice!Max(Choice!Sources))
    BY <1>1, <2>1 DEF Choice!ResolvePcm
  <2> QED
    BY <2>2, <2>3
<1> USE DEF Choice!Resolved, Choice!ConversionIsPossible, Choice!ToldRateIsTheirs, Choice!ListedIsServed
<1>6. CASE Choice!Fails("unsupported_encoding") /\ format \notin Choice!Listed
  BY <1>2, <1>3, <1>6 DEF ChoiceInv, Choice!Fails
<1>7. CASE Choice!Fails("invalid_request") /\ ~family /\ rate # Choice!NoRate
  BY <1>2, <1>3, <1>7 DEF ChoiceInv, Choice!Fails
<1>8. CASE Choice!Serves(w, Choice!Native) /\ ~w /\ ~family /\ rate = Choice!NoRate
  <2>1. Choice!Wanted = Choice!Native
    BY <1>8 DEF Choice!Wanted, Choice!G711, Choice!PcmFamily
  <2> QED
    BY <1>2, <1>3, <1>8, <2>1 DEF ChoiceInv, Choice!Serves
<1>9. CASE family /\ Choice!Fails("unsupported_encoding") /\ Choice!Wanted \notin Choice!C.listed
  BY <1>2, <1>3, <1>9 DEF ChoiceInv, Choice!Fails
<1>10. CASE family /\ Choice!Serves(w, Choice!Wanted) /\ (w => Choice!Wanted = Choice!Native)
  <2>1. Choice!Divides(Choice!Native, Choice!Native)
    <3>1. RateOK(Choice!Native)
      BY <1>1
    <3> QED
      BY <3>1 DEF RateOK, Choice!Divides
  <2> QED
    BY <1>1, <1>2, <1>3, <1>10, <2>1 DEF ChoiceInv, Choice!Serves
<1>11. CASE family /\ \E r \in Choice!Sources : Choice!Serves(TRUE, r)
  <2>1. PICK r \in Choice!C.rates : Choice!Serves(TRUE, r) /\ Choice!Divides(Choice!Wanted, r)
    BY <1>11 DEF Choice!Sources
  <2> QED
    BY <1>1, <1>2, <1>3, <1>11, <2>1 DEF ChoiceInv, Choice!Serves
<1> QED
  BY <1>4, <1>5, <1>6, <1>7, <1>8, <1>9, <1>10, <1>11

LEMMA ChoiceInvariance == ChoiceInv /\ [Choice!Next]_(Choice!vars) => ChoiceInv'
<1>1. CASE ChoiceInv /\ Choice!Next
  BY <1>1, ChoiceStep DEF ChoiceInv, Choice!Next
<1>2. CASE ChoiceInv /\ UNCHANGED Choice!vars
  BY <1>2 DEF ChoiceInv, Choice!vars, Choice!Resolved, Choice!ConversionIsPossible,
     Choice!ToldRateIsTheirs, Choice!ListedIsServed, Choice!C, Choice!Listed, Choice!Wanted,
     Choice!Native
<1> QED
  BY <1>1, <1>2

-----------------------------------------------------------------------------
(* The parts together.                                                     *)

PartsInv == ExactInv /\ SinkInv /\ BatchInv /\ SpeechInv /\ ChoiceInv /\ UnitsInv

LEMMA PartsStart == PartsInit => PartsInv
<1> SUFFICES ASSUME PartsInit PROVE PartsInv
  OBVIOUS
<1>1. ExactInv
  BY ExactStarts DEF PartsInit
<1>2. SinkInv
  BY SinkStarts DEF PartsInit
<1>3. BatchInv
  BY BatchStarts DEF PartsInit
<1>4. SpeechInv
  BY SpeechStarts DEF PartsInit
<1>5. ChoiceInv
  BY ChoiceStarts DEF PartsInit
<1>6. UnitsInv
  BY UnitsStarts DEF PartsInit
<1> QED
  BY <1>1, <1>2, <1>3, <1>4, <1>5, <1>6 DEF PartsInv

\* A step is one of a part at most, and the others stand still.
LEMMA StepOfAPart ==
    ASSUME [PartsNext]_partsVars
    PROVE  /\ [Next]_vars /\ [Sink!Next]_(Sink!vars) /\ [Batch!Next]_(Batch!vars)
           /\ [Speech!Next]_(Speech!vars) /\ [Choice!Next]_(Choice!vars)
           /\ [Units!Next]_(Units!vars)
<1>1. /\ Next \/ UNCHANGED vars
      /\ Sink!Next \/ UNCHANGED sinkVars
      /\ Batch!Next \/ UNCHANGED batchVars
      /\ Speech!Next \/ UNCHANGED speechVars
      /\ Choice!Next \/ UNCHANGED choiceVars
      /\ Units!Next \/ UNCHANGED unitsVars
  <2>1. CASE PartsNext
    BY <2>1 DEF PartsNext
  <2>2. CASE UNCHANGED partsVars
    BY <2>2 DEF partsVars
  <2> QED
    BY <2>1, <2>2
<1>2. [Next]_vars
  BY <1>1
<1>3. [Sink!Next]_(Sink!vars)
  BY <1>1 DEF sinkVars, Sink!vars
<1>4. [Batch!Next]_(Batch!vars)
  BY <1>1 DEF batchVars, Batch!vars, Batch!request
<1>5. [Speech!Next]_(Speech!vars)
  BY <1>1 DEF speechVars, Speech!vars, Speech!request, Speech!usage
<1>6. [Choice!Next]_(Choice!vars)
  BY <1>1 DEF choiceVars, Choice!vars
<1>7. [Units!Next]_(Units!vars)
  BY <1>1 DEF unitsVars, Units!vars
<1> QED
  BY <1>2, <1>3, <1>4, <1>5, <1>6, <1>7

LEMMA PartsInvariance == PartsInv /\ [PartsNext]_partsVars => PartsInv'
<1> SUFFICES ASSUME PartsInv, [PartsNext]_partsVars PROVE PartsInv'
  OBVIOUS
<1>0. /\ [Next]_vars /\ [Sink!Next]_(Sink!vars) /\ [Batch!Next]_(Batch!vars)
      /\ [Speech!Next]_(Speech!vars) /\ [Choice!Next]_(Choice!vars)
      /\ [Units!Next]_(Units!vars)
  BY StepOfAPart
<1>1. ExactInv'
  BY <1>0, ExactInvariance DEF PartsInv
<1>2. SinkInv'
  BY <1>0, SinkInvariance DEF PartsInv
<1>3. BatchInv'
  BY <1>0, BatchInvariance DEF PartsInv
<1>4. SpeechInv'
  BY <1>0, SpeechInvariance DEF PartsInv
<1>5. ChoiceInv'
  BY <1>0, ChoiceInvariance DEF PartsInv
<1>6. UnitsInv'
  BY <1>0, UnitsInvariance DEF PartsInv
<1> QED
  BY <1>1, <1>2, <1>3, <1>4, <1>5, <1>6 DEF PartsInv

LEMMA PartsStayInvariant == PartsSpec => []PartsInv
BY PartsStart, PartsInvariance, PTL DEF PartsSpec

\* Every variable of the six parts keeps its type, the numbers their bounds, and
\* no request has more than one usage event.
THEOREM PartsAreTyped == PartsSpec => []PartsTypeOK
<1>1. PartsInv => PartsTypeOK
  BY SinkKeepsPromises, BatchKeepsPromises, SpeechKeepsPromises
     DEF PartsInv, ExactInv, AdmissionInv, PartsTypeOK
<1> QED
  BY <1>1, PartsStayInvariant, PTL

\* Whatever S3, the vendors and the clients do, and wherever a session is cut
\* off: a scope's slots are those of its listen sessions, the sink leaves no
\* upload open and a batch adapter no file or job, but by a failure of the very
\* call that would have removed it (limits.py:33-39, s3_sink.py:170-178,
\* soniox/batch.py:96-106).
THEOREM WhatIsTakenIsGivenBack == PartsSpec => []NothingIsHeldForGood
<1>1. PartsInv => NothingIsHeldForGood
  BY SinkKeepsPromises, BatchKeepsPromises DEF PartsInv, ExactInv, NothingIsHeldForGood
<1> QED
  BY <1>1, PartsStayInvariant, PTL

\* For every number of chunks, size of a part and way the calls of S3 may go:
\* the object is what was received, in order, but for the parts whose upload
\* failed; it is there unless a call of the end failed; and the sink holds one
\* part at most (s3_sink.py:3-10, 136-170).
THEOREM TheObjectIsTheAudio == PartsSpec => []StoredAsReceived
<1>1. PartsInv => StoredAsReceived
  BY SinkKeepsPromises DEF PartsInv, StoredAsReceived
<1> QED
  BY <1>1, PartsStayInvariant, PTL

\* For every answer a vendor may give, and every way a call of it or the client
\* may go: one usage event per request that reached a vendor, which covers every
\* word returned, every character or token generated, and every token of a live
\* vendor's report once (api/transcriptions.py:133-170, api/speech.py:128-191,
\* meter.py:176-312).
THEOREM WhatIsDoneIsBilledOnce == PartsSpec => []EveryCallIsBilledOnce
<1>1. PartsInv => EveryCallIsBilledOnce
  BY BatchKeepsPromises, SpeechKeepsPromises, UnitsKeepPromises
     DEF PartsInv, EveryCallIsBilledOnce
<1> QED
  BY <1>1, PartsStayInvariant, PTL

\* A client is told completed of what it has whole, reads nothing of our account
\* with the vendor, is refused before anything is spent on it, and whichever of
\* the adapters, formats and rates meet, the conversion is possible and the rate
\* told is that of the audio (api/speech.py:105-180, api/transcriptions.py:98-102,
\* resolver.py:205-265).
THEOREM ClientsAreToldTheTruth == PartsSpec => []AnswersAreTrue
<1>1. ChoiceInv => /\ Choice!ConversionIsPossible /\ Choice!ToldRateIsTheirs
                   /\ Choice!ListedIsServed
  BY DEF ChoiceInv
<1>2. PartsInv => AnswersAreTrue
  BY <1>1, BatchKeepsPromises, SpeechKeepsPromises DEF PartsInv, AnswersAreTrue
<1> QED
  BY <1>2, PartsStayInvariant, PTL
================================================================================
