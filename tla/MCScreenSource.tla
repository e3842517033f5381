--------------------------- MODULE MCScreenSource ---------------------------
(* The screen source with small numbers of buffers. *)
EXTENDS ScreenSource
=============================================================================
