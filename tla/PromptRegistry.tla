--------------------------- MODULE PromptRegistry ---------------------------
(***************************************************************************)
(* The versioned prompts of one agent of one organization                  *)
(* (app/modules/intelligence_ai_admin).  An administrator publishes a      *)
(* version, usually to activate it; each agent looks the active version up *)
(* before it calls its model.                                              *)
(*                                                                         *)
(* A publication is one transaction of several statements, and each sees   *)
(* what others had committed when that statement began (READ COMMITTED):   *)
(* the SELECT of the template, perhaps its INSERT, the UPDATE that         *)
(* deactivates all versions, the INSERT of the new one.  The row locks of  *)
(* the UPDATE can make a second publication wait, but do not let it see    *)
(* the version the first one is about to insert.                           *)
(***************************************************************************)
EXTENDS Naturals, FiniteSets

CONSTANTS
    Publishers,     \* publications that can be in flight together
    Idle,           \* nothing in flight
    MaxVersions     \* bound on the number of versions

VARIABLES
    template,     \* the prompt_templates row exists
    versions,     \* the number of prompt_versions, numbered in order of commit
    active,       \* those that say is_active
    activated,    \* the last version committed with activate, 0 if none
    publications, \* [Publishers -> publication in flight or Idle]
    lookup,       \* the lookup of the agent's turn: "none", "template" found,
                  \* or "fallback" because there is no template
    used          \* the version the last turn used, 0 for the fallback

registry == <<template, versions, active, activated>>
reader == <<lookup, used>>
vars == <<registry, publications, reader>>

Init ==
    /\ template = FALSE
    /\ versions = 0 /\ active = {}
    /\ activated = 0
    /\ publications = [p \in Publishers |-> Idle]
    /\ lookup = "none" /\ used = 0

Publications == [step : {"create", "template", "deactivated"},
                 new : BOOLEAN,         \* it inserted the template
                 activate : BOOLEAN,
                 seen : SUBSET (1..versions)]   \* versions it deactivates

-----------------------------------------------------------------------------
(* publish_version                                                          *)

At(p, step) == publications[p] # Idle /\ publications[p].step = step
EndPublication(p) == publications' = [publications EXCEPT ![p] = Idle]

PublishReads(p) ==
    /\ publications[p] = Idle
    /\ versions < MaxVersions
    /\ \E activate \in BOOLEAN :
         publications' = [publications EXCEPT ![p] =
             [step |-> IF template THEN "template" ELSE "create",
              new |-> FALSE, activate |-> activate, seen |-> {}]]
    /\ UNCHANGED <<registry, reader>>

\* The flush of a new template waits for another open INSERT of the same key ...
CreatesTemplate(p) ==
    /\ At(p, "create") /\ ~template
    /\ \A q \in Publishers : publications[q] # Idle => ~publications[q].new
    /\ publications' = [publications EXCEPT ![p].step = "template", ![p].new = TRUE]
    /\ UNCHANGED <<registry, reader>>

\* ... and fails (uq_org_agent) if that one has committed.
TemplateConflict(p) ==
    /\ At(p, "create") /\ template
    /\ EndPublication(p)
    /\ UNCHANGED <<registry, reader>>

\* deactivate_all_versions: the rows its UPDATE finds.
Deactivates(p) ==
    /\ At(p, "template") /\ publications[p].activate
    /\ publications' = [publications EXCEPT ![p].step = "deactivated",
                                            ![p].seen = 1..versions]
    /\ UNCHANGED <<registry, reader>>

\* The new version is inserted and the transaction commits.
PublishCommits(p) ==
    /\ \/ At(p, "deactivated")
       \/ At(p, "template") /\ ~publications[p].activate
    /\ template' = TRUE
    /\ versions' = versions + 1
    /\ active' = (active \ publications[p].seen)
                   \union (IF publications[p].activate THEN {versions'} ELSE {})
    /\ activated' = IF publications[p].activate THEN versions' ELSE activated
    /\ EndPublication(p)
    /\ UNCHANGED reader

\* The request is lost; everything it wrote rolls back.
PublishFails(p) ==
    /\ publications[p] # Idle
    /\ EndPublication(p)
    /\ UNCHANGED <<registry, reader>>

Publication(p) ==
    \/ PublishReads(p) \/ CreatesTemplate(p) \/ TemplateConflict(p)
    \/ Deactivates(p) \/ PublishCommits(p) \/ PublishFails(p)

-----------------------------------------------------------------------------
(* _load_system_prompt, which the event-bus worker runs turn by turn, and   *)
(* get_active_prompt, which answers 404 where the turn falls back: two      *)
(* statements, between which publications may commit.                       *)

LookupTemplate ==
    /\ lookup = "none"
    /\ lookup' = IF template THEN "template" ELSE "fallback"
    /\ UNCHANGED <<registry, publications, used>>

\* The one active version, or the fallback if none is.
LookupVersion ==
    /\ lookup = "template" /\ Cardinality(active) <= 1
    /\ lookup' = "none"
    /\ IF active = {} THEN used' = 0 ELSE used' \in active
    /\ UNCHANGED <<registry, publications>>

LookupFallsBack ==
    /\ lookup = "fallback"
    /\ lookup' = "none" /\ used' = 0
    /\ UNCHANGED <<registry, publications>>

\* scalar_one_or_none raises MultipleResultsFound, and the turn fails.
LookupRaises ==
    /\ lookup = "template" /\ Cardinality(active) > 1
    /\ lookup' = "none"
    /\ UNCHANGED <<registry, publications, used>>

Lookup == LookupTemplate \/ LookupVersion \/ LookupFallsBack \/ LookupRaises

Next == Lookup \/ \E p \in Publishers : Publication(p)
Spec == Init /\ [][Next]_vars

-----------------------------------------------------------------------------
(* Properties                                                               *)

TypeOK ==
    /\ template \in BOOLEAN
    /\ versions \in Nat
    /\ active \subseteq 1..versions
    /\ activated \in 0..versions
    /\ publications \in [Publishers -> {Idle} \union Publications]
    /\ lookup \in {"none", "template", "fallback"}
    /\ used \in 0..versions

\* Once a version has been activated the agent is never without a prompt,
\* however publications overlap and fail: the version activated last is active
\* until the transaction that activates another one.
NewestActivatedIsActive == activated # 0 => activated \in active

\* Turns never return to an older prompt, nor to the fallback once one has used
\* a published version, however publications overlap the two statements of the
\* lookup.
PromptsNeverGoBack == [][used' >= used]_vars

\* At most one version is active: "activating a new version never mutates or
\* deletes a prior one", and test_publishing_new_version_deactivates_previous
\* shows the previous one deactivated.  get_active_version takes it for granted
\* and raises if two are, in every turn of the agent until the next publication.
AtMostOneActive == Cardinality(active) <= 1
=============================================================================
