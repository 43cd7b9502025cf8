------------------------- MODULE MCEmbedderService --------------------------
(* Instances of EmbedderService for TLC. *)
EXTENDS EmbedderService

CONSTANTS q1, q2, b1, b2, b3
=============================================================================
