---------------------------- MODULE MCSTTSession ----------------------------
(***************************************************************************)
(* STTSession for TLC: a lane of two or three models, a few ticks of audio.*)
(***************************************************************************)
EXTENDS STTSession

\* Everything that goes wrong upstream, on a gateway that stays up.
GatewayStaysUp == AnyFault \ {"cancelled"}
=============================================================================
