------------------------------ MODULE MCMapSync ------------------------------
(***************************************************************************)
(* Instances of MapSync for TLC: one player of each edition.               *)
(***************************************************************************)
EXTENDS MapSync, TLC

CONSTANTS java, bedrock
==============================================================================
