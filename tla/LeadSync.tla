------------------------------ MODULE LeadSync ------------------------------
(***************************************************************************)
(* The Lead Sync Adapter (lead_qualification/application/lead_sync.py):    *)
(* the local mirror of the leads of one organization, kept up to date with *)
(* wacrm, the system of record, by three kinds of transaction:             *)
(*                                                                         *)
(*   - poll_once, run by the crm_sync_loop of every application process:   *)
(*     change data capture with a persisted watermark;                     *)
(*   - push_profile_update, run by the event bus for ProfileCompleted;     *)
(*   - force_resync, called by the Staleness Guard of the recommendation   *)
(*     handler, which the bus runs for ProfileCompleted after the push.    *)
(*                                                                         *)
(* Each talks to wacrm over HTTP, loads the rows of the snapshots, saves   *)
(* them and commits at the end.  No lock is held before the save, and a    *)
(* snapshot's updated_at is not kept with the mirrored row.  The           *)
(* repositories return copies and keep no row, so that save reads the row  *)
(* again: whether a CRMStageSynced event is due is decided against the row *)
(* as it was loaded, whether the stage is written against the row as save  *)
(* finds it.                                                               *)
(*                                                                         *)
(* A lead is its pipeline stage: the other mirrored columns are written in *)
(* the same way.  The bus appears through its contract, as in Conversation.*)
(***************************************************************************)
EXTENDS Naturals, FiniteSetsExt

CONSTANTS
    Leads,       \* wacrm deals of the organization
    Stages,      \* PipelineStage
    BadStages,   \* stage names that break the stage-naming contract
    Qualified,   \* the stage push_profile_update pushes
    NoStage,     \* no such deal, or no mirrored row
    Pollers,     \* crm_sync_loop tasks, one per application process
    Workers,     \* event-bus workers, one per application process
    Idle,        \* no transaction in progress
    MaxEdits,    \* bound on what brokers change in wacrm
    MaxFaults    \* bound on crashes, timeouts and HTTP errors

ASSUME StagesAssumption ==
    /\ Stages \intersect BadStages = {}
    /\ NoStage \notin Stages \union BadStages
    /\ Qualified \in Stages
ASSUME LeadsAssumption == IsFiniteSet(Leads)
ASSUME LeadSyncBoundsAssumption == MaxEdits \in Nat /\ MaxFaults \in Nat

\* The two consumers of ProfileCompleted that reach the adapter, in
\* registration order.
Consumers == {"crm_push", "on_profile_completed"}
Deliveries == Consumers \X Leads

VARIABLES
    now,         \* wacrm's clock, which every change advances
    edits,       \* changes made by brokers
    crm,         \* [Leads -> [stage, at]]: wacrm's deals, at is updated_at
    mirror,      \* [Leads -> stage]: the leads table
    announced,   \* [Leads -> stage]: last CRMStageSynced event, or NoStage
    cursor,      \* watermark, 0 while crm_sync_cursors has no row
    completed,   \* leads with a ProfileCompleted event
    handled,     \* deliveries the bus has recorded
    unrecorded,  \* [Workers -> SUBSET Deliveries]: handled, batch not committed
    poll,        \* [Pollers -> poll in progress or Idle]
    task,        \* [Workers -> handler in progress or Idle]
    faults

crmVars == <<now, edits, crm>>
busVars == <<handled, unrecorded>>
vars == <<now, edits, crm, mirror, announced, cursor, completed, handled,
          unrecorded, poll, task, faults>>

Init ==
    /\ now = 0 /\ edits = 0 /\ faults = 0 /\ cursor = 0
    /\ crm = [l \in Leads |-> [stage |-> NoStage, at |-> 0]]
    /\ mirror = [l \in Leads |-> NoStage]
    /\ announced = [l \in Leads |-> NoStage]
    /\ completed = {} /\ handled = {}
    /\ unrecorded = [w \in Workers |-> {}]
    /\ poll = [p \in Pollers |-> Idle]
    /\ task = [w \in Workers |-> Idle]

-----------------------------------------------------------------------------
(* wacrm and the people who use it                                          *)

\* A broker creates a deal or moves it to another stage.
BrokerEdits(l, s) ==
    /\ edits < MaxEdits
    /\ s # crm[l].stage
    /\ now' = now + 1
    /\ edits' = edits + 1
    /\ crm' = [crm EXCEPT ![l] = [stage |-> s, at |-> now']]
    /\ UNCHANGED <<mirror, announced, cursor, completed, busVars, poll, task, faults>>

\* An operator repairs a stage name: updated_at does not move.
OperatorFixesName(l, s) ==
    /\ crm[l].stage \in BadStages
    /\ crm' = [crm EXCEPT ![l].stage = s]
    /\ UNCHANGED <<now, edits, mirror, announced, cursor, completed, busVars,
                   poll, task, faults>>

-----------------------------------------------------------------------------
(* _upsert_from_snapshot: what a session leaves in the row and in the outbox *)
(* when it commits stage s of lead l, having loaded the row as `loaded` and  *)
(* found it as `seen` when it saved.                                         *)

Conflict(l, loaded) == loaded = NoStage /\ mirror[l] # NoStage   \* uq_org_crm_lead

\* What save's session.get finds for the id of the row that was loaded: a lead that had
\* no row has been given an id of its own.
Reread(l, loaded) == IF loaded = NoStage THEN NoStage ELSE mirror[l]

\* Mutant of Upserted: the stage is written only when the row is new.
UpsertedOnInsert(l, seen, s) == IF mirror[l] = NoStage THEN s ELSE mirror[l]

Upserted(l, seen, s) == IF s = seen THEN mirror[l] ELSE s

\* Mutant of Announced: the event is built before the stage is assigned.
AnnouncedBefore(l, loaded, s) ==
    IF loaded # NoStage /\ s # loaded THEN loaded ELSE announced[l]

Announced(l, loaded, s) == IF loaded # NoStage /\ s # loaded THEN s ELSE announced[l]

-----------------------------------------------------------------------------
(* poll_once                                                                *)

\* get_watermark
PollReads(p) ==
    /\ poll[p] = Idle
    /\ poll' = [poll EXCEPT ![p] = [step |-> "fetch", wm |-> cursor, snaps |-> <<>>,
                                    loaded |-> <<>>, seen |-> <<>>, current |-> 0]]
    /\ UNCHANGED <<crmVars, mirror, announced, cursor, completed, busVars, task, faults>>

\* list_leads_updated_since(watermark)
PollFetches(p) ==
    /\ poll[p] # Idle /\ poll[p].step = "fetch"
    /\ LET changed == {l \in Leads : crm[l].at > poll[p].wm}
       IN poll' = [poll EXCEPT ![p].step = "load",
                               ![p].snaps = [l \in changed |-> crm[l]]]
    /\ UNCHANGED <<crmVars, mirror, announced, cursor, completed, busVars, task, faults>>

\* get_by_crm_id for every snapshot: one step for all, since no lead's row depends on
\* another's.
PollLoads(p) ==
    /\ poll[p] # Idle /\ poll[p].step = "load"
    /\ poll' = [poll EXCEPT ![p].step = "save",
                            ![p].loaded = [l \in DOMAIN poll[p].snaps |-> mirror[l]]]
    /\ UNCHANGED <<crmVars, mirror, announced, cursor, completed, busVars, task, faults>>

\* The session.get of every save, and that of advance_watermark.
PollSaves(p) ==
    /\ poll[p] # Idle /\ poll[p].step = "save"
    /\ poll' = [poll EXCEPT ![p].step = "commit",
                            ![p].seen = [l \in DOMAIN poll[p].snaps |->
                                            Reread(l, poll[p].loaded[l])],
                            ![p].current = cursor]
    /\ UNCHANGED <<crmVars, mirror, announced, cursor, completed, busVars, task, faults>>

\* Mutant of Parsed: any text is accepted as a stage.
ParsedAll(snaps) == DOMAIN snaps

\* PipelineStage(...) raises ValueError for the others, which are skipped.
Parsed(snaps) == {l \in DOMAIN snaps : snaps[l].stage \in Stages}
UpdateTimes(snaps, S) == {snaps[l].at : l \in S}

\* Mutant of MaxSeen: a skipped lead counts as seen.
MaxSeenPastSkipped(wm, snaps) == Max({wm} \union UpdateTimes(snaps, DOMAIN snaps))

\* max_seen: up to just before the earliest skipped lead.
MaxSeen(wm, snaps) ==
    LET seen == Max({wm} \union UpdateTimes(snaps, Parsed(snaps)))
        skipped == DOMAIN snaps \ Parsed(snaps)
    IN IF skipped = {} THEN seen
       ELSE Min({seen, Min(UpdateTimes(snaps, skipped)) - 1})

\* advance_watermark, called when max > wm: the comparison is with the row it has read
\* again, and the first watermark of an organization is inserted.
Advanced(wm, current, max) == IF max > wm /\ max > current THEN max ELSE cursor

CursorConflict(wm, current, max) == max > wm /\ current = 0 /\ cursor # 0

PollConflict(p) ==
    \/ \E l \in Parsed(poll[p].snaps) : Conflict(l, poll[p].loaded[l])
    \/ CursorConflict(poll[p].wm, poll[p].current, MaxSeen(poll[p].wm, poll[p].snaps))

PollCommits(p) ==
    /\ poll[p] # Idle /\ poll[p].step = "commit"
    /\ ~PollConflict(p)
    /\ LET snaps == poll[p].snaps
           wm == poll[p].wm
       IN /\ mirror' = [l \in Leads |-> IF l \in Parsed(snaps)
                          THEN Upserted(l, poll[p].seen[l], snaps[l].stage) ELSE mirror[l]]
          /\ announced' = [l \in Leads |-> IF l \in Parsed(snaps)
                             THEN Announced(l, poll[p].loaded[l], snaps[l].stage)
                             ELSE announced[l]]
          /\ cursor' = Advanced(wm, poll[p].current, MaxSeen(wm, snaps))
    /\ poll' = [poll EXCEPT ![p] = Idle]
    /\ UNCHANGED <<crmVars, completed, busVars, task, faults>>

\* IntegrityError: the pass for this organization is abandoned.
PollRollsBack(p) ==
    /\ poll[p] # Idle /\ poll[p].step = "commit"
    /\ PollConflict(p)
    /\ poll' = [poll EXCEPT ![p] = Idle]
    /\ UNCHANGED <<crmVars, mirror, announced, cursor, completed, busVars, task, faults>>

\* An HTTP error, a database error or a crash.
PollFails(p) ==
    /\ poll[p] # Idle
    /\ faults < MaxFaults
    /\ poll' = [poll EXCEPT ![p] = Idle]
    /\ faults' = faults + 1
    /\ UNCHANGED <<crmVars, mirror, announced, cursor, completed, busVars, task>>

-----------------------------------------------------------------------------
(* The handlers of ProfileCompleted                                         *)

\* Profile capture completes the profile of a mirrored lead.
CompleteProfile(l) ==
    /\ mirror[l] # NoStage
    /\ l \notin completed
    /\ completed' = completed \union {l}
    /\ UNCHANGED <<crmVars, mirror, announced, cursor, busVars, poll, task, faults>>

Reached(c, l) == <<c, l>> \in handled \union UNION {unrecorded[w] : w \in Workers}

\* The bus hands w a delivery nobody holds; the push of an event comes first.
Takes(w, c, l) ==
    /\ task[w] = Idle
    /\ l \in completed
    /\ ~Reached(c, l)
    /\ c = "on_profile_completed" => Reached("crm_push", l)
    /\ \A v \in Workers : task[v] # Idle => task[v].lead # l

\* leads.get finds the lead, whose row is not kept.  The Staleness Guard goes on to
\* force_resync only if the mirror looks stale; otherwise see GuardPasses.
HandlerTakes(w, c, l) ==
    /\ Takes(w, c, l)
    /\ task' = [task EXCEPT ![w] = [consumer |-> c, lead |-> l, step |-> "call",
                                    stage |-> NoStage, loaded |-> NoStage, seen |-> NoStage]]
    /\ UNCHANGED <<crmVars, mirror, announced, cursor, completed, busVars, poll, faults>>

At(w, c, step) == task[w] # Idle /\ task[w].consumer = c /\ task[w].step = step

\* update_stage: PATCH /deals/{id}; wacrm answers with the updated deal.
PushCalls(w) ==
    /\ At(w, "crm_push", "call")
    /\ now' = now + 1
    /\ crm' = [crm EXCEPT ![task[w].lead] = [stage |-> Qualified, at |-> now']]
    /\ task' = [task EXCEPT ![w].step = "load", ![w].stage = Qualified]
    /\ UNCHANGED <<edits, mirror, announced, cursor, completed, busVars, poll, faults>>

\* force_resync: GET /deals/{id}
ResyncCalls(w) ==
    /\ At(w, "on_profile_completed", "call")
    /\ crm[task[w].lead].stage \in Stages
    /\ task' = [task EXCEPT ![w].step = "load", ![w].stage = crm[task[w].lead].stage]
    /\ UNCHANGED <<crmVars, mirror, announced, cursor, completed, busVars, poll, faults>>

\* The deal's stage does not parse: ValueError, and the bus will retry.
ResyncRaises(w) ==
    /\ At(w, "on_profile_completed", "call")
    /\ crm[task[w].lead].stage \in BadStages
    /\ task' = [task EXCEPT ![w] = Idle]
    /\ UNCHANGED <<crmVars, mirror, announced, cursor, completed, busVars, poll, faults>>

\* get_by_crm_id, after the call
HandlerLoads(w) ==
    /\ task[w] # Idle /\ task[w].step = "load"
    /\ task' = [task EXCEPT ![w].step = "save", ![w].loaded = mirror[task[w].lead]]
    /\ UNCHANGED <<crmVars, mirror, announced, cursor, completed, busVars, poll, faults>>

\* The session.get of save
HandlerSaves(w) ==
    /\ task[w] # Idle /\ task[w].step = "save"
    /\ task' = [task EXCEPT ![w].step = "commit",
                            ![w].seen = Reread(task[w].lead, task[w].loaded)]
    /\ UNCHANGED <<crmVars, mirror, announced, cursor, completed, busVars, poll, faults>>

Returns(w, c, l) ==
    /\ unrecorded' = [unrecorded EXCEPT ![w] = @ \union {<<c, l>>}]
    /\ task' = [task EXCEPT ![w] = Idle]
    /\ UNCHANGED <<crmVars, cursor, completed, handled, poll, faults>>

\* The upsert, its event and the handler's other writes commit together.
HandlerCommits(w) ==
    /\ task[w] # Idle /\ task[w].step = "commit"
    /\ LET l == task[w].lead
       IN /\ mirror' = [mirror EXCEPT ![l] = Upserted(l, task[w].seen, task[w].stage)]
          /\ announced' = [announced EXCEPT ![l] = Announced(l, task[w].loaded, task[w].stage)]
    /\ Returns(w, task[w].consumer, task[w].lead)

\* The mirror looks fresh, or the search ends with IncompleteProfileError and
\* returns without a commit.
GuardPasses(w) ==
    /\ task[w] # Idle
    /\ task[w].consumer = "on_profile_completed"
    /\ Returns(w, task[w].consumer, task[w].lead)
    /\ UNCHANGED <<mirror, announced>>

\* A timeout, an exception or a crash: the session rolls back, what wacrm has
\* done stays done.  A crash also forgets the batch's earlier handlers.
HandlerFails(w) ==
    /\ task[w] # Idle
    /\ faults < MaxFaults
    /\ task' = [task EXCEPT ![w] = Idle]
    /\ unrecorded' \in {unrecorded, [unrecorded EXCEPT ![w] = {}]}
    /\ faults' = faults + 1
    /\ UNCHANGED <<crmVars, mirror, announced, cursor, completed, handled, poll>>

\* The bus commits its batch.
Acknowledge(w) ==
    /\ task[w] = Idle
    /\ unrecorded[w] # {}
    /\ handled' = handled \union unrecorded[w]
    /\ unrecorded' = [unrecorded EXCEPT ![w] = {}]
    /\ UNCHANGED <<crmVars, mirror, announced, cursor, completed, poll, task, faults>>

\* A crash between two handlers of a batch.
Crash(w) ==
    /\ task[w] = Idle
    /\ unrecorded[w] # {}
    /\ faults < MaxFaults
    /\ unrecorded' = [unrecorded EXCEPT ![w] = {}]
    /\ faults' = faults + 1
    /\ UNCHANGED <<crmVars, mirror, announced, cursor, completed, handled, poll,
                   task>>

-----------------------------------------------------------------------------
PollStep(p) == PollReads(p) \/ PollFetches(p) \/ PollLoads(p) \/ PollSaves(p)
               \/ PollCommits(p) \/ PollRollsBack(p)

HandlerStep(w) ==
    \/ \E c \in Consumers, l \in Leads : HandlerTakes(w, c, l)
    \/ PushCalls(w) \/ ResyncCalls(w) \/ ResyncRaises(w)
    \/ HandlerLoads(w) \/ HandlerSaves(w) \/ HandlerCommits(w)
    \/ GuardPasses(w) \/ Acknowledge(w)

Next ==
    \/ \E l \in Leads, s \in Stages \union BadStages : BrokerEdits(l, s)
    \/ \E l \in Leads, s \in Stages : OperatorFixesName(l, s)
    \/ \E l \in Leads : CompleteProfile(l)
    \/ \E p \in Pollers : PollStep(p) \/ PollFails(p)
    \/ \E w \in Workers : HandlerStep(w) \/ HandlerFails(w) \/ Crash(w)

Spec == Init /\ [][Next]_vars

\* crm_sync_loop survives every exception and polls again and again; the bus
\* offers unhandled deliveries again and again.
Fairness == /\ \A p \in Pollers : WF_vars(PollStep(p))
            /\ \A w \in Workers : WF_vars(HandlerStep(w))
FairSpec == Spec /\ Fairness

-----------------------------------------------------------------------------
(* Properties                                                               *)

TypeOK ==
    /\ now \in Nat /\ edits \in Nat /\ faults \in Nat
    /\ cursor \in 0..now
    /\ crm \in [Leads -> [stage : Stages \union BadStages \union {NoStage}, at : 0..now]]
    /\ mirror \in [Leads -> Stages \union {NoStage}]
    /\ announced \in [Leads -> Stages \union {NoStage}]
    /\ completed \subseteq Leads
    /\ handled \subseteq Deliveries
    /\ unrecorded \in [Workers -> SUBSET Deliveries]
    /\ DOMAIN poll = Pollers
    /\ \A p \in Pollers : poll[p] # Idle =>
          /\ DOMAIN poll[p] = {"step", "wm", "snaps", "loaded", "seen", "current"}
          /\ poll[p].step \in {"fetch", "load", "save", "commit"}
          /\ poll[p].wm \in 0..now /\ poll[p].current \in 0..now
          /\ DOMAIN poll[p].snaps \subseteq Leads
          /\ \A l \in DOMAIN poll[p].snaps : /\ poll[p].snaps[l].at \in 1..now
                                             /\ poll[p].snaps[l].stage \in Stages \union BadStages
          /\ poll[p].step \in {"save", "commit"} => \A l \in DOMAIN poll[p].snaps :
                poll[p].loaded[l] \in Stages \union {NoStage}
          /\ poll[p].step = "commit" => \A l \in DOMAIN poll[p].snaps :
                poll[p].seen[l] \in Stages \union {NoStage}
    /\ task \in [Workers -> {Idle} \union
                   [consumer : Consumers, lead : Leads,
                    step : {"call", "load", "save", "commit"}, stage : Stages \union {NoStage},
                    loaded : Stages \union {NoStage}, seen : Stages \union {NoStage}]]

\* The comment in poll_once: "The watermark must never pass a skipped lead", or
\* it is dropped forever.  However polls, edits, repairs, failures and the
\* handlers interleave, a deal the watermark has passed is in the mirror.
WatermarkNeverPassesSkipped ==
    \A l \in Leads : crm[l].at \in 1..cursor => mirror[l] # NoStage

\* When no poll overlaps another writer of the mirror, the watermark means what CDC
\* takes it to mean: every deal it has passed is mirrored as it is in wacrm.
CursorMeansSynced ==
    \A l \in Leads : crm[l].at \in 1..cursor => mirror[l] = crm[l].stage

\* mark_synced publishes CRMStageSynced with the change: when no poll overlaps another
\* writer of the mirror, the last event for a lead carries the stage the mirror has,
\* whichever polls failed and began anew.  A writer that is overtaken between its load and
\* its save may store a stage of which it has told nobody.
StageEventsMatchMirror ==
    \A l \in Leads : announced[l] # NoStage => announced[l] = mirror[l]

\* QA-13: the mirror reflects wacrm: once wacrm is left alone, the mirror
\* catches up and stays equal to it for every deal with a proper stage name.
MirrorConverges ==
    <>[](\A l \in Leads : crm[l].stage \in Stages => mirror[l] = crm[l].stage)
=============================================================================
