------------------------------ MODULE AudioRing ------------------------------
(***************************************************************************)
(* gateway/speechrouter_gateway/audio/ring.py: the audio ring of one       *)
(* streaming session.  The client reader appends chunks; provider feeders  *)
(* iterate over them by index; a failover starts a new iteration at the    *)
(* oldest chunk that is still retained.                                    *)
(*                                                                         *)
(* Time is counted in integer ticks of audio.  A chunk is its index, its   *)
(* start on the session clock and its duration: the bytes do not matter.   *)
(* Each step below runs between two awaits of the code, under the lock of  *)
(* the ring's condition variable where the code holds it.  A definition    *)
(* named in the list of mutants in PROJECT.json (TrimOne, NotifyNobody,    *)
(* ...) stands next to the one it would replace and is used nowhere else.  *)
(***************************************************************************)
EXTENDS Integers, Sequences

CONSTANTS
    Readers,      \* the feeders that iterate over the ring
    MaxSeconds,   \* max_seconds: how much audio the ring retains
    Opaque,       \* TRUE: the codec hides durations, arrival gaps stand in
    WallCap,      \* cap on an arrival gap (1.0 s in the code)
    Durations,    \* durations (or arrival gaps) a client's chunk may have
    MaxChunks     \* bound of the model: chunks one client sends

ASSUME RingAssumption ==
    /\ MaxSeconds \in Nat
    /\ Opaque \in BOOLEAN
    /\ WallCap \in Nat
    /\ Durations \subseteq Nat
    /\ MaxChunks \in Nat

VARIABLES
    chunks,       \* _chunks: the retained chunks, oldest first
    nextIdx,      \* _next_idx
    clock,        \* _clock: all audio ever appended
    closed,       \* _closed
    pc,           \* where each reader's iteration stands
    pos,          \* the index each reader asks for next
    log           \* history: every chunk ever accepted, oldest first

ringVars == <<chunks, nextIdx, clock, closed, log>>
readerVars == <<pc, pos>>
vars == <<chunks, nextIdx, clock, closed, pc, pos, log>>

Chunk == [idx : Nat, start : Nat, duration : Nat]
ReaderStates == {"idle", "placed", "reading", "waiting", "drained", "cancelled"}

TypeOK ==
    /\ chunks \in Seq(Chunk)
    /\ log \in Seq(Chunk)
    /\ nextIdx \in Nat
    /\ clock \in Nat
    /\ closed \in BOOLEAN
    /\ pc \in [Readers -> ReaderStates]
    /\ pos \in [Readers -> Nat]

Init ==
    /\ chunks = <<>>
    /\ log = <<>>
    /\ nextIdx = 0
    /\ clock = 0
    /\ closed = FALSE
    /\ pc = [r \in Readers |-> "idle"]
    /\ pos = [r \in Readers |-> 0]

-----------------------------------------------------------------------------
(* The pure parts.                                                         *)

\* An append is not counted once the client has sent its MaxChunks, nor taken
\* once the ring is closed.
AcceptsAfterClose == nextIdx < MaxChunks
Accepts == ~closed /\ nextIdx < MaxChunks

\* The duration of the next chunk: from its byte count, or from the capped
\* gap since the previous arrival (none before the first one).
DurationOf(d) ==
    IF ~Opaque THEN d
    ELSE IF nextIdx = 0 THEN 0 ELSE IF d > WallCap THEN WallCap ELSE d

\* No chunk is longer than the window (opaque codecs: by the cap alone).
ChunksFit ==
    IF Opaque THEN WallCap <= MaxSeconds ELSE \A d \in Durations : d <= MaxSeconds

\* A chunk that starts more than MaxSeconds before `now` is trimmed.
Expired(c, now) == now - c.start > MaxSeconds

\* The deque after the trim loop: chunks leave at the old end for as long as
\* the oldest one has expired.
TrimOne(cs, now) == IF cs # <<>> /\ Expired(Head(cs), now) THEN Tail(cs) ELSE cs
TrimAtBoundary(cs, now) ==
    LET kept == {i \in 1..Len(cs) : now - cs[i].start < MaxSeconds}
    IN  IF kept = {} THEN <<>>
        ELSE SubSeq(cs, CHOOSE i \in kept : \A j \in kept : i <= j, Len(cs))
Trim(cs, now) ==
    LET kept == {i \in 1..Len(cs) : ~Expired(cs[i], now)}
    IN  IF kept = {} THEN <<>>
        ELSE SubSeq(cs, CHOOSE i \in kept : \A j \in kept : i <= j, Len(cs))

\* replay_start(): the index and the time of the oldest retained chunk.
ReplayLast == nextIdx - 1
ReplayIdx == IF chunks # <<>> THEN Head(chunks).idx ELSE nextIdx
ReplayTime == IF chunks # <<>> THEN Head(chunks).start ELSE clock

\* _get(i) is not None.
Available(i) == chunks # <<>> /\ i < nextIdx

\* _get(i): the chunk i, or the oldest retained one when i was trimmed.
GetNewest(i) == chunks[Len(chunks)]
Get(i) ==
    LET first == Head(chunks).idx
        from  == IF i < first THEN first ELSE i
    IN  chunks[from - first + 1]

\* The iterator returns here: the ring is closed and has nothing after i.
Finished(i) == closed /\ i >= nextIdx

-----------------------------------------------------------------------------
(* The writer: STTSession._read_client.                                    *)

\* notify_all(): every reader parked on the condition re-evaluates it.
NotifyNobody == pc' = pc
NotifyAll ==
    pc' = [r \in Readers |-> IF pc[r] = "waiting" THEN "reading" ELSE pc[r]]

\* append() to an open ring (append to a closed one changes nothing).
AppendChunk(d) ==
    LET new == [idx |-> nextIdx, start |-> clock, duration |-> DurationOf(d)]
    IN  /\ Accepts
        /\ nextIdx' = nextIdx + 1
        /\ clock' = clock + new.duration
        /\ chunks' = Trim(Append(chunks, new), clock')
        /\ log' = Append(log, new)
        /\ NotifyAll
        /\ UNCHANGED <<closed, pos>>

\* close(); closing twice is legal and changes nothing but wakes the readers.
Close ==
    /\ closed' = TRUE
    /\ NotifyAll
    /\ UNCHANGED <<chunks, nextIdx, clock, log, pos>>

-----------------------------------------------------------------------------
(* A reader: the index is chosen first, the iteration starts later, when   *)
(* the provider is connected (STTSession._provider_loop).                  *)

PlaceAt(r, i) ==
    /\ pc[r] = "idle"
    /\ pos' = [pos EXCEPT ![r] = i]
    /\ pc' = [pc EXCEPT ![r] = "placed"]
    /\ UNCHANGED ringVars

\* A first provider starts at index 0, a replacement at replay_start().
Place(r) == \E i \in {0, ReplayIdx} : PlaceAt(r, i)

Iterate(r) ==
    /\ pc[r] = "placed"
    /\ pc' = [pc EXCEPT ![r] = "reading"]
    /\ UNCHANGED <<ringVars, pos>>

\* iter_from yields a chunk; the next request is for the index after it.
Yield(r) ==
    /\ pc[r] = "reading"
    /\ Available(pos[r])
    /\ pos' = [pos EXCEPT ![r] = Get(pos[r]).idx + 1]
    /\ UNCHANGED <<ringVars, pc>>

\* Nothing to yield and more may come: park on the condition variable.
Wait(r) ==
    /\ pc[r] = "reading"
    /\ ~Available(pos[r])
    /\ ~Finished(pos[r])
    /\ pc' = [pc EXCEPT ![r] = "waiting"]
    /\ UNCHANGED <<ringVars, pos>>

\* The ring is closed and drained: the iteration ends.
Drain(r) ==
    /\ pc[r] = "reading"
    /\ ~Available(pos[r])
    /\ Finished(pos[r])
    /\ pc' = [pc EXCEPT ![r] = "drained"]
    /\ UNCHANGED <<ringVars, pos>>

\* The task that iterates is cancelled, or its provider failed.
Cancel(r) ==
    /\ pc[r] \in {"placed", "reading", "waiting"}
    /\ pc' = [pc EXCEPT ![r] = "cancelled"]
    /\ UNCHANGED <<ringVars, pos>>

-----------------------------------------------------------------------------
ReaderStep(r) == Yield(r) \/ Wait(r) \/ Drain(r)

Next ==
    \/ \E d \in Durations : AppendChunk(d)
    \/ Close
    \/ \E r \in Readers : Place(r) \/ Iterate(r) \/ ReaderStep(r) \/ Cancel(r)

Spec == Init /\ [][Next]_vars

\* The event loop runs every ready task, so a reader that can take a step
\* does; nothing obliges the client to send, to close, or anyone to cancel.
FairSpec == Spec /\ \A r \in Readers : WF_vars(ReaderStep(r))

-----------------------------------------------------------------------------
(* Properties.                                                             *)

\* The deque is exactly the part of everything ever appended that has not
\* expired: trimming from the old end never drops audio that is still inside
\* the window, never keeps audio that is outside it, and leaves no hole.
\* (ring.py:65-69; replay after a failover relies on it.)
RetainsExactlyTheWindow ==
    LET trimmed == Len(log) - Len(chunks)
    IN  /\ trimmed >= 0
        /\ \A i \in 1..Len(chunks) : chunks[i] = log[trimmed + i]
        /\ \A i \in 1..Len(log) : Expired(log[i], clock) <=> i <= trimmed

\* A reader that is parked on the condition variable has nothing to do: no
\* append and no close slips in between its check and its wait (ring.py:91-97).
NoLostWakeup ==
    \A r \in Readers :
        pc[r] = "waiting" => ~Available(pos[r]) /\ ~Finished(pos[r])

\* An iteration ends only when it has gone past every chunk the client was
\* told is accepted: the ring takes nothing after it was closed (ring.py:63-64)
\* and a reader never stops short (ring.py:94-95).
DrainedReaderMissesNothing ==
    \A r \in Readers : pc[r] = "drained" => closed /\ pos[r] = Len(log)

\* A step of a reader hands over the chunk it asked for; it jumps forward only
\* over chunks that have expired, and it never goes back (ring.py:98-106).
SkipsOnlyExpired ==
    [][\A r \in Readers :
          (pc[r] = "reading" /\ pos'[r] # pos[r]) =>
              /\ pos'[r] > pos[r]
              /\ \A i \in pos[r]..(pos'[r] - 2) : Expired(log[i + 1], clock)
              /\ ~Expired(log[pos'[r]], clock)]_vars

\* A reader that is behind the writer always has something to read, so it can
\* never be stuck short of the end.  It takes that no single chunk is longer
\* than the window: a longer one is trimmed the moment it is appended, and the
\* deque is empty although the reader has not seen it (ring.py:68-69, 101).
BehindMeansReadable ==
    \A r \in Readers : pos[r] < nextIdx => Available(pos[r])

\* Once the ring is closed, every iteration ends: "iterators finish once
\* drained" (ring.py:73, 88).
ClosedRingDrains ==
    \A r \in Readers :
        (closed /\ pc[r] \in {"reading", "waiting"})
            ~> pc[r] \in {"drained", "cancelled"}

=============================================================================
