----------------------------- MODULE MCAmadec -----------------------------
(* The DTV audio decoder with a small pool, list and PCM buffer. *)
EXTENDS Amadec
=============================================================================
