-------------------------- MODULE MCStreamAdapter --------------------------
(* StreamAdapter for TLC: the vendors of one run, and few chunks.            *)
EXTENDS StreamAdapter

NoChunks == {}
Second == {2}
============================================================================
