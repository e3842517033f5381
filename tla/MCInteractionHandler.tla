------------------------ MODULE MCInteractionHandler ------------------------
(* A small instance of InteractionHandler: one input below the minimum, one *)
(* within the limits and one above the maximum.                             *)
EXTENDS InteractionHandler

MCInputs == {-1, 1, 4}
=============================================================================
