--------------------------- MODULE MCNativeSpeak ---------------------------
(* The two streams at once.                                                *)
EXTENDS NativeSpeak

BothStreams == {"xai", "flux"}
============================================================================
