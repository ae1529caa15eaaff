---------------------------- MODULE ListenProtocol ----------------------------
(***************************************************************************)
(* What a /v1/listen session promises, seen from outside: the frames its   *)
(* client receives and the usage record the metering pipeline gets.        *)
(* Providers, failover, buffering, tasks and cancellation do not appear;   *)
(* STTSession implements this specification whatever they do.              *)
(*                                                                         *)
(* packages/spec/events.schema.json and router/session.py: the session is  *)
(* opened first; finals and endpoints only advance (the dedup guarantee);  *)
(* switches walk down the lane; one verdict, and nothing follows done; one *)
(* usage record, after which the client hears nothing more.                *)
(***************************************************************************)
EXTENDS Integers, Sequences

CONSTANT NoTime   \* the times of a final whose provider reports none

VARIABLES
    out,    \* the frames the client has received
    usage   \* the usage records emitted

vars == <<out, usage>>

Received(type) == {i \in 1..Len(out) : out[i].type = type}
Told == Received("done") \cup Received("error")

Init == out = <<>> /\ usage = <<>>

-----------------------------------------------------------------------------
\* A step that hands the client one more frame.
New == out'[Len(out) + 1]
Says(type) ==
    /\ usage = <<>> /\ Received("done") = {}
    /\ Len(out') = Len(out) + 1 /\ out' = Append(out, New)
    /\ New.type = type
    /\ UNCHANGED usage

OpenSession == Says("session.open") /\ out = <<>>

FinalTranscript ==
    /\ Says("final")
    /\ New.end # NoTime =>
          \A i \in Received("final") : out[i].end # NoTime => out[i].end < New.end

UtteranceEnd ==
    /\ Says("utterance_end")
    /\ \A i \in Received("utterance_end") : out[i].at < New.at
    /\ \A i \in Received("final") : out[i].end # NoTime => out[i].end <= New.at

ProviderSwitched ==
    /\ Says("provider_switched")
    /\ New.from < New.to
    /\ \A i \in Received("provider_switched") : out[i].to <= New.from

Done == Says("done") /\ Told = {}
Error == Says("error") /\ Told = {}

\* The usage record: once, and in agreement with the done frame.
Bill ==
    /\ usage = <<>> /\ Len(usage') = 1
    /\ \A i \in Received("done") :
          usage'[1].audio = out[i].audio /\ usage'[1].status = "completed"
    /\ UNCHANGED out

-----------------------------------------------------------------------------
Next ==
    \/ OpenSession \/ FinalTranscript \/ UtteranceEnd \/ ProviderSwitched
    \/ Done \/ Error \/ Bill

Spec == Init /\ [][Next]_vars
=============================================================================
