--------------------------- MODULE MCConversation ---------------------------
(***************************************************************************)
(* Instances of Conversation for TLC.                                      *)
(***************************************************************************)
EXTENDS Conversation, TLC

CONSTANTS c1, m1, m2, l1, l2, w1, r1, r2, d1

\* One conversation; it and every lead have the same phone number.
OneConv == [m \in Messages |-> c1]
MCConvContact == [c \in Convs |-> "phone"]
MCLeadContact == [l \in Leads |-> "phone"]

Once == [m \in Messages |-> 1]
FirstTwice == [m \in Messages |-> IF m = m1 THEN 2 ELSE 1]

RequestSymmetry == Permutations(Requests)
=============================================================================
