------------------------------- MODULE Admission -------------------------------
(***************************************************************************)
(* The life of the streaming handlers around a session, and the cap on     *)
(* concurrent streams they share: gateway/speechrouter_gateway/            *)
(* router/limits.py with api/listen_ws.py, api/speak_ws.py and             *)
(* api/realtime_ws.py (which has a guard of its own).  What goes on inside *)
(* a session is left to STTSession.                                        *)
(*                                                                         *)
(* A step of a handler is what it does between two awaits; the handlers of *)
(* one process interleave, and a client that is turned away or done may    *)
(* come back.  A definition named in the list of mutants in PROJECT.json   *)
(* stands next to the one it would replace and is used nowhere else.       *)
(***************************************************************************)
EXTENDS Integers, FiniteSets

CONSTANTS
    Clients,     \* the clients of one gateway process
    Scopes,      \* what the cap applies to: an org, or a key
    ScopeOf,     \* the scope of each client
    SpeakClients,\* those that use /v1/speak, the others /v1/listen or a live one
    Limit,       \* ConcurrencyGuard.limit; 0 means unlimited
    ProbeFaults  \* TRUE: opening a speak provider may fail or be cancelled

ASSUME AdmissionAssumption ==
    /\ IsFiniteSet(Clients)
    /\ ScopeOf \in [Clients -> Scopes]
    /\ SpeakClients \subseteq Clients
    /\ Limit \in Nat
    /\ ProbeFaults \in BOOLEAN

VARIABLES
    counts,   \* _counts: live sessions per scope (a missing key is 0)
    stage     \* where the handler of each client stands

vars == <<counts, stage>>

\* checking: credentials, balance, model are looked up; refused: the reject
\* frame is being sent; opening: speak probes the provider; serving:
\* session.run(); lingering: the socket is left open for the last frames.
Stages == {"away", "checking", "refused", "opening", "serving", "lingering"}

Holds(c) == stage[c] \in {"opening", "serving"}
Holders(s) == {c \in Clients : ScopeOf[c] = s /\ Holds(c)}

TypeOK ==
    /\ counts \in [Scopes -> Nat]
    /\ stage \in [Clients -> Stages]

Init ==
    /\ counts = [s \in Scopes |-> 0]
    /\ stage = [c \in Clients |-> "away"]

-----------------------------------------------------------------------------
(* ConcurrencyGuard.                                                       *)

\* acquire() returns FALSE: the scope is at its limit.
AdmitsOneTooMany(s) == Limit > 0 /\ counts[s] > Limit
Full(s) == Limit > 0 /\ counts[s] >= Limit

Take(s) == counts' = IF Limit > 0 THEN [counts EXCEPT ![s] = @ + 1] ELSE counts

\* release(): never below zero.
KeepSlot(s) == UNCHANGED counts
ReleaseTwice(s) == counts' = IF Limit > 0 THEN [counts EXCEPT ![s] = @ - 2] ELSE counts
Release(s) ==
    counts' = IF Limit > 0 /\ counts[s] > 0 THEN [counts EXCEPT ![s] = @ - 1] ELSE counts

-----------------------------------------------------------------------------
(* The handlers.                                                           *)

Goes(c, from, to) == stage[c] = from /\ stage' = [stage EXCEPT ![c] = to]

Connect(c) == Goes(c, "away", "checking") /\ UNCHANGED counts

\* No credentials, a blocked org, no such model: refused before the guard.
TurnAway(c) == Goes(c, "checking", "refused") /\ UNCHANGED counts

\* The guard is asked last, and the answer acted on before the next await:
\* speak still has a provider to open, the others start their session.
Admit(c) ==
    \/ /\ Full(ScopeOf[c])
       /\ Goes(c, "checking", "refused")
       /\ UNCHANGED counts
    \/ /\ ~Full(ScopeOf[c])
       /\ Goes(c, "checking", IF c \in SpeakClients THEN "opening" ELSE "serving")
       /\ Take(ScopeOf[c])

Rejected(c) == Goes(c, "refused", "away") /\ UNCHANGED counts

OpenProbe(c) == Goes(c, "opening", "serving") /\ UNCHANGED counts

\* build(), open_stream() or the await of probe.close() raises, between the
\* acquire and the try whose finally releases.
ProbeFails(c) == ProbeFaults /\ Goes(c, "opening", "away") /\ UNCHANGED counts

\* run() returns, raises or is cancelled: the finally releases the slot.
SessionEnds(c) ==
    /\ \E next \in {"lingering", "away"} : Goes(c, "serving", next)
    /\ Release(ScopeOf[c])

\* The client reads the last frames and closes, or the 3 s are over.
Closes(c) == Goes(c, "lingering", "away") /\ UNCHANGED counts

Next ==
    \E c \in Clients :
        \/ Connect(c) \/ TurnAway(c) \/ Admit(c) \/ Rejected(c)
        \/ OpenProbe(c) \/ ProbeFails(c) \/ SessionEnds(c) \/ Closes(c)

Spec == Init /\ [][Next]_vars

-----------------------------------------------------------------------------
(* Properties.                                                             *)

\* A leaked key cannot open unbounded parallel streams: no scope ever has more
\* sessions than the limit, however handlers interleave (limits.py:3-6).
CapHolds == \A s \in Scopes : Limit > 0 => Cardinality(Holders(s)) <= Limit

\* The count of a scope is the number of its live sessions, so that slots are
\* neither lost nor given away, whatever the other handlers do.  True of the
\* scopes that use /v1/listen and the live endpoints.
CountsAreHolders ==
    \A s \in Scopes :
        (Limit > 0 /\ \A c \in SpeakClients : ScopeOf[c] # s) =>
            counts[s] = Cardinality(Holders(s))

-----------------------------------------------------------------------------
(* What the documentation says of the program and the code does not do.    *)

\* "acquire/release wrap the session lifecycle so crashes can't leak slots"
\* (limits.py:5-6): a scope without sessions has all its slots.
NoSlotLeaks == \A s \in Scopes : Holders(s) = {} => counts[s] = 0
=============================================================================
