--------------------------- MODULE MC_EventBuffer ---------------------------
(* EventBuffer for TLC: FlushSize and MaxRows are given in EventBuffer.cfg.  *)
EXTENDS EventBuffer
=============================================================================
