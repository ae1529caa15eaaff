-------------------------- MODULE StreamContract --------------------------
(***************************************************************************)
(* What the session may rely on in every speech-to-text adapter: the       *)
(* contract of STTStreamProvider in src/gateway/.../providers/base.py,     *)
(* apart from how any vendor keeps it.  StreamAdapter implements it.       *)
(***************************************************************************)
EXTENDS Integers

VARIABLES
  stage,  \* "new" | "ready" | "finished" | "exhausted" | "failed"
  fed,    \* chunks 1 .. fed were handed over
  said    \* chunks whose words a final transcript carried

contractVars == <<stage, fed, said>>

New == stage = "new" /\ fed = 0 /\ said = {}

(* connect() returns only when the vendor is ready to accept audio *)
Readied == stage = "new" /\ stage' = "ready" /\ UNCHANGED <<fed, said>>

Feed == stage = "ready" /\ fed' = fed + 1 /\ UNCHANGED <<stage, said>>

(* a final transcript: words of audio that was fed, none of them final before *)
Says == \E text \in SUBSET ((1 .. fed) \ said) : said' = said \cup text
Speak ==
  /\ stage \in {"ready", "finished"}
  /\ Says
  /\ UNCHANGED <<stage, fed>>

Finish == stage = "ready" /\ stage' = "finished" /\ UNCHANGED <<fed, said>>

(* events() exhausts, after finish() only, perhaps with its last words *)
Exhaust == stage = "finished" /\ stage' = "exhausted" /\ Says /\ UNCHANGED fed

(* it raises, or connect() did: at any time before it is exhausted *)
Fail == stage \notin {"exhausted", "failed"} /\ stage' = "failed" /\ UNCHANGED <<fed, said>>

ContractSpec ==
  New /\ [][Readied \/ Feed \/ Speak \/ Finish \/ Exhaust \/ Fail]_contractVars

(* after finish() it exhausts or raises: the session waits for nothing else *)
FinishedEnds == stage = "finished" ~> stage \in {"exhausted", "failed"}
============================================================================
