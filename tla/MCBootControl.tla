---------------------------- MODULE MCBootControl ----------------------------
(* Two slots, as kSlotSuffixes "_a" and "_b" are used on the devices.       *)
EXTENDS BootControl
=============================================================================
