--------------------------- MODULE MCLiveSession ---------------------------
(* Both dialects at once.                                                  *)
EXTENDS LiveSession

BothDialects == {"openai", "gemini"}
============================================================================
