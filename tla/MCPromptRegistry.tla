-------------------------- MODULE MCPromptRegistry --------------------------
(***************************************************************************)
(* Instances of PromptRegistry for TLC.                                    *)
(***************************************************************************)
EXTENDS PromptRegistry

CONSTANTS p1, p2
=============================================================================
