----------------------------- MODULE MCCMsgQueue -----------------------------
(* One message that is replaced, MSG_SET_OSD_NAME, and one that is added,   *)
(* MSG_DELAY_PHYSICAL_ADDRESS.                                              *)
EXTENDS CMsgQueue
=============================================================================
