---------------------------- MODULE MCAudioRing ----------------------------
(***************************************************************************)
(* AudioRing for TLC: two readers (a provider and its replacement), a      *)
(* window of two ticks, a handful of chunks.                               *)
(***************************************************************************)
EXTENDS AudioRing

CONSTANTS r1, r2
MCReaders == {r1, r2}

\* Gaps between arrivals: none, one tick, exactly the cap, above it.
Gaps == {0, 1, 2, 5}
=============================================================================
