------------------------------- MODULE MCUsb -------------------------------
(* One port that can be asked for one mode besides dual role. *)
EXTENDS Usb
=============================================================================
