------------------------- MODULE MCRotatingStream -------------------------
(* RotatingStream for TLC: enough chunks to fill the buffer and spill.     *)
EXTENDS RotatingStream

BothAdapters == {"gemini", "google"}
OnlyGemini == {"gemini"}
============================================================================
