---------------------------- MODULE MCSpeakSession ----------------------------
(***************************************************************************)
(* SpeakSession for TLC.  The configurations bound deltas, barge-ins and   *)
(* chunks; every other constant is that of the code.                       *)
(***************************************************************************)
EXTENDS SpeakSession
=============================================================================
