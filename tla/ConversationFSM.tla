-------------------------- MODULE ConversationFSM --------------------------
(***************************************************************************)
(* The lifecycle of a conversation (conversation_ownership/domain/         *)
(* models.py) and the ownership policy (application/ownership_policy.py):  *)
(* the tables and pure decisions the Conversation module is built from.    *)
(***************************************************************************)

ConversationState ==
    {"New", "AIOwned", "Qualification", "Recommendation", "Appointment",
     "OwnershipEvaluation", "Unassigned", "AssignedHuman", "Visit",
     "Negotiation", "Dormant", "Reactivated", "ClosedWon", "ClosedLost"}

OwnerType == {"ai", "human", "unassigned"}

\* _ACTIVE_STATES: what dormancy decay scans for.
ActiveStates ==
    {"New", "AIOwned", "Qualification", "Recommendation", "Appointment",
     "Unassigned", "AssignedHuman", "Visit", "Negotiation"}

\* ALLOWED_TRANSITIONS
AllowedFrom(s) ==
    CASE s = "New"                 -> {"AIOwned", "AssignedHuman", "OwnershipEvaluation"}
      [] s = "AIOwned"             -> {"Qualification", "AssignedHuman"}
      [] s = "Qualification"       -> {"Recommendation", "AssignedHuman"}
      [] s = "Recommendation"      -> {"Appointment", "AssignedHuman"}
      [] s = "Appointment"         -> {"Visit", "AssignedHuman"}
      [] s = "Visit"               -> {"Negotiation", "AssignedHuman", "ClosedLost"}
      [] s = "Negotiation"         -> {"ClosedWon", "ClosedLost", "AssignedHuman"}
      [] s = "OwnershipEvaluation" -> {"AIOwned", "AssignedHuman", "Unassigned"}
      [] s = "Unassigned"          -> {"AIOwned", "AssignedHuman"}
      [] s = "AssignedHuman"       -> {"Visit", "Negotiation", "ClosedWon", "ClosedLost"}
      [] s = "Dormant"             -> {"Reactivated"}
      [] s = "Reactivated"         -> {"OwnershipEvaluation"}
      [] OTHER                     -> {}

\* Mutant of CanTransition: the table is not consulted.
CanTransitionUnchecked(s, target) == target \in ConversationState

\* transition_to applies the target or raises InvalidTransitionError.
CanTransition(s, target) == target \in AllowedFrom(s)

\* OwnershipPolicyEngine.evaluate outside a bypass: scenario 1 gives the AI a
\* conversation no human ever owned; every other one raises.
NeverHadHuman(owner) == owner \in {"unassigned", "ai"}

=============================================================================
