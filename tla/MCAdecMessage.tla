--------------------------- MODULE MCAdecMessage ---------------------------
(* The message pool with four slots and two senders. *)
EXTENDS AdecMessage
=============================================================================
