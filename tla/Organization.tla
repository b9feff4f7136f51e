---------------------------- MODULE Organization ----------------------------
(***************************************************************************)
(* One organization (an agency) and the row of its integration settings    *)
(* (app/modules/organization).  Administrators of the organization replace *)
(* the settings with PUT /organizations/{id}/config; a PUT whose body has  *)
(* the three mandatory parts activates the organization.                   *)
(*                                                                         *)
(* The row has one column per part.  A PUT loads it, and SQLAlchemy's      *)
(* UPDATE writes the columns whose new value differs from the one loaded,  *)
(* so that a PUT is a reading and a committing step, and two of them may   *)
(* overlap.  PUTs of other organizations are refused before any of this    *)
(* (api/router.py); their rows are other rows.                             *)
(***************************************************************************)
EXTENDS Naturals, Sequences, FiniteSets

CONSTANTS
    Admins,     \* requests of administrators that can be in flight together
    Bodies,     \* bodies of PUT requests, [Parts -> Values \union {None}]
    Values,     \* settings of a part
    None,       \* a part that is absent
    Idle,       \* nothing in flight
    MaxPuts     \* bound on the number of PUT requests

Parts == {"chatwoot", "whatsapp", "crm", "google_workspace"}
Configs == [Parts -> Values \union {None}]
NoRow == [p \in {} |-> None]     \* no organization_configs row

ASSUME OrganizationAssumption ==
    /\ None \notin Values
    /\ Bodies \subseteq Configs
    /\ MaxPuts \in Nat

VARIABLES
    orgStatus,  \* organizations.status, "absent" while there is no row
    config,     \* the organization_configs row
    puts,       \* [Admins -> PUT in flight or Idle]
    putCount    \* PUT requests so far

orgVars == <<orgStatus, config, puts, putCount>>

InitOrganization ==
    /\ orgStatus = "absent"
    /\ config = NoRow
    /\ puts = [a \in Admins |-> Idle]
    /\ putCount = 0

-----------------------------------------------------------------------------
\* OrganizationConfig.is_complete_for_activation
IsCompleteForActivation(c) == \A p \in {"chatwoot", "whatsapp", "crm"} : c[p] # None

\* Its OrganizationCreated event has no subscriber; the worker marks the row
\* processed without doing anything.
CreateOrganization ==
    /\ orgStatus = "absent"
    /\ orgStatus' = "onboarding"
    /\ UNCHANGED <<config, puts, putCount>>

\* OrganizationConfigRepository.upsert loads the row.
PutReads(a) ==
    /\ puts[a] = Idle /\ putCount < MaxPuts
    /\ orgStatus # "absent"
    /\ \E b \in Bodies : puts' = [puts EXCEPT ![a] = [body |-> b, loaded |-> config]]
    /\ putCount' = putCount + 1
    /\ UNCHANGED <<orgStatus, config>>

\* The row after the INSERT or the column-wise UPDATE.
Written(current, loaded, body) ==
    IF loaded = NoRow
    THEN body
    ELSE [p \in Parts |-> IF body[p] # loaded[p] THEN body[p] ELSE current[p]]

\* The body alone decides on the activation, and nothing ever undoes it.
PutCommits(a) ==
    /\ puts[a] # Idle
    /\ puts[a].loaded = NoRow => config = NoRow
    /\ config' = Written(config, puts[a].loaded, puts[a].body)
    /\ orgStatus' = IF IsCompleteForActivation(puts[a].body) THEN "active" ELSE orgStatus
    /\ puts' = [puts EXCEPT ![a] = Idle]
    /\ UNCHANGED putCount

\* Both requests found no row and the other INSERT won, or the connection was
\* lost: the transaction rolls back and the request fails.
PutFails(a) ==
    /\ puts[a] # Idle
    /\ puts' = [puts EXCEPT ![a] = Idle]
    /\ UNCHANGED <<orgStatus, config, putCount>>

OrganizationNext ==
    \/ CreateOrganization
    \/ \E a \in Admins : PutReads(a) \/ PutCommits(a) \/ PutFails(a)

-----------------------------------------------------------------------------
OrganizationTypeOK ==
    /\ orgStatus \in {"absent", "onboarding", "active"}
    /\ config \in Configs \union {NoRow}
    /\ putCount \in 0..MaxPuts
    /\ puts \in [Admins -> [body : Bodies, loaded : Configs \union {NoRow}] \union {Idle}]
=============================================================================
