----------------------------- MODULE MCLeadSync -----------------------------
(***************************************************************************)
(* Instances of LeadSync for TLC.                                          *)
(***************************************************************************)
EXTENDS LeadSync, TLC

CONSTANTS l1, l2, p1, p2, w1

\* Three stages tell apart the stage a deal is in, the one the adapter pushes and
\* the one a broker moves on to.
MCStages == {"New", "Qualified", "Won"}
MCTwoStages == {"New", "Qualified"}
MCBadStages == {"in talks"}

\* The pollers of two processes run the same loop.
ReplicaSymmetry == Permutations(Pollers)
=============================================================================
