---------------------------- MODULE Conversation ----------------------------
(***************************************************************************)
(* The life of the conversations row: four kinds of transaction read it,   *)
(* work for a while, and write it back.                                    *)
(*                                                                         *)
(*   - the Chatwoot webhook (api/webhook_router.py), any number at a time; *)
(*   - the Coordinator handling MessageReceived, and                       *)
(*   - the Recommendation module handling ProfileCompleted, both run by an *)
(*     event-bus worker, one handler at a time per worker;                 *)
(*   - the dormancy decay loop (application/decay.py, main.py).            *)
(*                                                                         *)
(* No row lock and no version column protects the row.  The repository     *)
(* hands out a copy and lets the row go; save reads the row again and sets *)
(* every column from the copy, so whatever others committed since the copy *)
(* was made is put back.  Every transaction is three steps here: it loads, *)
(* it saves (the second SELECT), it commits.                               *)
(*                                                                         *)
(* The event bus appears through its contract (AtLeastOnce): an event may  *)
(* be worked on until it is recorded as handled.  A batch of events is     *)
(* recorded in one commit after the last handler of the batch, so a crash  *)
(* repeats the turns of the whole batch.                                   *)
(***************************************************************************)
EXTENDS Naturals, Sequences, FiniteSets, ConversationFSM

CONSTANTS
    Convs,          \* Chatwoot conversations
    Messages,       \* incoming lead messages
    ConvOf,         \* [Messages -> Convs]
    Bypass,         \* messages on which GuardrailInterceptor.check fires
    Leads,          \* wacrm leads
    Buyers,         \* leads that answer every question of the profile
    ConvContact,    \* [Convs -> contact references]
    LeadContact,    \* [Leads -> contact references]
    NoLead,
    Workers,        \* event-bus workers, one per application process
    Requests,       \* webhook requests that can be in flight together
    Decayers,       \* dormancy decay loops, one per application process
    Idle,           \* nothing in flight
    Threshold,      \* dormancy_threshold_hours, in clock ticks
    MaxClock,       \* bound on time
    MaxDeliveries,  \* [Messages -> Nat]: how often Chatwoot may deliver a message
    MaxFaults       \* bound on crashes and raising sidebar notes together

Times == 0..MaxClock
Events == Messages \union Leads   \* MessageReceived(m), ProfileCompleted(l)

ASSUME SetsAssumption ==
    /\ ConvOf \in [Messages -> Convs]
    /\ Bypass \subseteq Messages
    /\ IsFiniteSet(Leads) /\ NoLead \notin Leads /\ Buyers \subseteq Leads
    /\ Idle \notin Events
    /\ Messages \intersect Leads = {}
ASSUME ConversationBoundsAssumption ==
    /\ Threshold \in Nat /\ MaxClock \in Nat
    /\ MaxDeliveries \in [Messages -> Nat] /\ MaxFaults \in Nat

VARIABLES
    clock,
    sentAt,      \* [Messages -> Times]: the created_at of the webhook payload
    deliveries,  \* [Messages -> Nat]: webhook calls made for the message
    db,          \* [Convs -> Rows]: committed conversation rows
    received,    \* [Messages -> Nat]: archived rows = MessageReceived events
    mirrored,    \* leads the CRM poll has mirrored locally
    completed,   \* leads with a ProfileCompleted event
    handled,     \* events the bus has recorded as handled
    replies,     \* [Messages -> Nat]: ResponseReady events for the message
    offers,      \* [Leads -> Nat]: ResponseReady events with a Top-3
    decisions,   \* [Convs -> Seq(OwnerType)]: ownership_decisions rows
    transfers,   \* [Convs -> Seq(from, to)]: OwnershipTransferred events
    dormancies,  \* [Convs -> Nat]: ConversationWentDormant events
    req,         \* [Requests -> webhook transaction or Idle]
    job,         \* [Workers -> handler transaction or Idle]
    unrecorded,  \* [Workers -> SUBSET Events]: handlers done, batch not committed
    scan,        \* [Decayers -> decay pass or Idle]
    faults, raises,
    overtaken    \* history: conversations to which a copy was written after
                 \* their state or owner had changed under it (see WriteBack)

chatwoot == <<sentAt, deliveries>>
bus == <<handled, unrecorded>>
events == <<received, completed, replies, offers, dormancies>>
audit == <<decisions, transfers>>
rows == <<db, overtaken>>
trouble == <<faults, raises>>
vars == <<clock, sentAt, deliveries, db, received, mirrored, completed,
          handled, replies, offers, decisions, transfers, dormancies, req, job,
          unrecorded, scan, faults, raises, overtaken>>

\* A conversations row.  "Absent" stands for no row.  owner_id is always None
\* (no broker directory yet); owner_since and owner_reason follow owner.
Rows == [state : ConversationState \union {"Absent"}, owner : OwnerType,
         contact : Times, lead : Leads \union {NoLead}]
AbsentRow == [state |-> "Absent", owner |-> "unassigned", contact |-> 0,
              lead |-> NoLead]

\* A webhook call, a handler's turn and a decay pass in progress: the copy each
\* works on and the row save has found (AbsentRow before it).  A pass leaves
\* both AbsentRow for the conversations it is not about.
Calls == [msg : Messages, loaded : Rows, seen : Rows,
          lead : Leads \union {NoLead}, at : Times]
Turns == [event : Events, conv : Convs, loaded : Rows, seen : Rows, at : Times]
Passes == [loaded : [Convs -> Rows], seen : [Convs -> Rows]]

Init ==
    /\ clock = 0
    /\ sentAt = [m \in Messages |-> 0]
    /\ deliveries = [m \in Messages |-> 0]
    /\ db = [c \in Convs |-> AbsentRow]
    /\ received = [m \in Messages |-> 0]
    /\ mirrored = {} /\ completed = {} /\ handled = {}
    /\ replies = [m \in Messages |-> 0]
    /\ offers = [l \in Leads |-> 0]
    /\ decisions = [c \in Convs |-> <<>>]
    /\ transfers = [c \in Convs |-> <<>>]
    /\ dormancies = [c \in Convs |-> 0]
    /\ req = [r \in Requests |-> Idle]
    /\ job = [w \in Workers |-> Idle]
    /\ unrecorded = [w \in Workers |-> {}]
    /\ scan = [d \in Decayers |-> Idle]
    /\ faults = 0 /\ raises = 0
    /\ overtaken = {}

-----------------------------------------------------------------------------
(* ConversationRepository.save                                              *)

\* The UPDATE: the columns in which the copy differs from the row save has read.
Save(current, seen, copy) ==
    [state   |-> IF copy.state = seen.state THEN current.state ELSE copy.state,
     owner   |-> IF copy.owner = seen.owner THEN current.owner ELSE copy.owner,
     contact |-> IF copy.contact = seen.contact THEN current.contact ELSE copy.contact,
     lead    |-> IF copy.lead = seen.lead THEN current.lead ELSE copy.lead]

\* State or owner of c changed after its copy was loaded.
Standing(row) == <<row.state, row.owner>>
Overtaken(c, loaded, seen) ==
    ~(Standing(loaded) = Standing(seen) /\ Standing(seen) = Standing(db[c]))

\* The transaction t, which has loaded and saved c, commits the copy new.
WriteBack(c, t, new) ==
    /\ db' = [db EXCEPT ![c] = Save(@, t.seen, new)]
    /\ overtaken' = IF Overtaken(c, t.loaded, t.seen) THEN overtaken \union {c}
                    ELSE overtaken

-----------------------------------------------------------------------------
(* The world outside                                                        *)

Tick ==
    /\ clock < MaxClock
    /\ clock' = clock + 1
    /\ UNCHANGED <<chatwoot, rows, events, mirrored, bus, audit, req, job,
                   scan, trouble>>

\* Chatwoot calls the webhook with m (again), with the time at which the lead
\* wrote it.
ChatwootCalls(m) ==
    /\ deliveries[m] < MaxDeliveries[m]
    /\ deliveries' = [deliveries EXCEPT ![m] = @ + 1]
    /\ \E t \in 0..clock :
          sentAt' = IF deliveries[m] = 0 THEN [sentAt EXCEPT ![m] = t] ELSE sentAt

\* The CRM poll commits a new row of the local lead mirror.
MirrorLead(l) ==
    /\ l \notin mirrored
    /\ mirrored' = mirrored \union {l}
    /\ UNCHANGED <<clock, chatwoot, rows, events, bus, audit, req, job, scan,
                   trouble>>

\* Profile capture commits the patch that completes the lead's profile.
CompleteProfile(l) ==
    /\ l \in (mirrored \intersect Buyers) \ completed
    /\ completed' = completed \union {l}
    /\ UNCHANGED <<clock, chatwoot, rows, received, replies, offers, dormancies,
                   mirrored, bus, audit, req, job, scan, trouble>>

-----------------------------------------------------------------------------
(* receive_chatwoot_webhook                                                 *)

\* LeadRepository.get_by_contact_reference: the mirrored leads that match.
Matches(c) == {l \in mirrored : LeadContact[l] = ConvContact[c]}

\* LeadLinker.link_if_possible; scalar_one_or_none raises on two matches.
LinkRaises(c) == db[c].lead = NoLead /\ Cardinality(Matches(c)) > 1
\* Mutants of LinkedLead: the rows found instead of the one row; the lead is
\* looked up again although the conversation has one.
LinkedLeadAll(c) == IF db[c].lead = NoLead THEN Matches(c) ELSE db[c].lead
LinkedLeadAgain(c) ==
    IF Matches(c) # {} THEN CHOOSE l \in Matches(c) : l # db[c].lead \/ Cardinality(Matches(c)) = 1
    ELSE db[c].lead
LinkedLead(c) ==
    IF db[c].lead = NoLead /\ Matches(c) # {} THEN CHOOSE l \in Matches(c) : TRUE
    ELSE db[c].lead

\* The request loads the row and looks for a lead to link.
WebhookReads(r, m) ==
    /\ req[r] = Idle
    /\ ~LinkRaises(ConvOf[m])
    /\ ChatwootCalls(m)
    /\ req' = [req EXCEPT ![r] = [msg |-> m, loaded |-> db[ConvOf[m]], seen |-> AbsentRow,
                                  lead |-> LinkedLead(ConvOf[m]), at |-> clock]]
    /\ UNCHANGED <<clock, rows, events, mirrored, bus, audit, job, scan, trouble>>

\* The known conversation is saved: its row is read again.
WebhookSaves(r) ==
    /\ req[r] # Idle
    /\ req[r].loaded.state # "Absent"
    /\ req[r].seen.state = "Absent"
    /\ req' = [req EXCEPT ![r].seen = db[ConvOf[req[r].msg]]]
    /\ UNCHANGED <<clock, chatwoot, rows, events, mirrored, bus, audit, job, scan,
                   trouble>>

\* save has run; a new conversation has no row to be read again.
WebhookSaved(r) ==
    req[r] # Idle /\ (req[r].loaded.state = "Absent" \/ req[r].seen.state # "Absent")

\* MultipleResultsFound: the call answers 500 and nothing is kept.
WebhookLinkRaises(m) ==
    /\ LinkRaises(ConvOf[m])
    /\ ChatwootCalls(m)
    /\ UNCHANGED <<clock, rows, events, mirrored, bus, audit, req, job, scan,
                   trouble>>

\* Mutant of WebhookConflict: no duplicate check.
WebhookConflictOnCreateOnly(r) ==
    req[r].loaded.state = "Absent" /\ db[ConvOf[req[r].msg]].state # "Absent"

\* Either the archive already holds the message (the SELECT sees it, or the
\* unique constraint fires), or another request created the conversation first
\* (uq on organization and chatwoot id).
WebhookConflict(r) ==
    LET c == ConvOf[req[r].msg]
    IN \/ received[req[r].msg] > 0
       \/ req[r].loaded.state = "Absent" /\ db[c].state # "Absent"

\* Archive, MessageReceived and the row commit together.  A known conversation
\* is touched with the message's own timestamp.
WebhookCommits(r) ==
    /\ WebhookSaved(r)
    /\ ~WebhookConflict(r)
    /\ LET m == req[r].msg
           c == ConvOf[m]
           old == req[r].loaded
       IN /\ IF old.state = "Absent"
             THEN /\ db' = [db EXCEPT ![c] = [state |-> "New", owner |-> "unassigned",
                                              contact |-> req[r].at, lead |-> req[r].lead]]
                  /\ UNCHANGED overtaken
             ELSE WriteBack(c, req[r],
                            [old EXCEPT !.contact = sentAt[m], !.lead = req[r].lead])
          /\ received' = [received EXCEPT ![m] = @ + 1]
    /\ req' = [req EXCEPT ![r] = Idle]
    /\ UNCHANGED <<clock, chatwoot, mirrored, completed, bus, replies, offers,
                   dormancies, audit, job, scan, trouble>>

\* "duplicate", or an IntegrityError: the request's touch and link roll back.
WebhookRollsBack(r) ==
    /\ WebhookSaved(r)
    /\ WebhookConflict(r)
    /\ req' = [req EXCEPT ![r] = Idle]
    /\ UNCHANGED <<clock, chatwoot, rows, events, mirrored, bus, audit, job,
                   scan, trouble>>

-----------------------------------------------------------------------------
(* Handlers run by a worker                                                 *)

\* The bus hands w an unhandled event no other worker holds.
Takes(w, e) ==
    /\ job[w] = Idle
    /\ e \notin handled
    /\ \A v \in Workers : /\ e \notin unrecorded[v]
                          /\ job[v] # Idle => job[v].event # e

\* handle_message loads the row and touches its copy.
CoordinatorReads(w, m) ==
    /\ received[m] > 0
    /\ Takes(w, m)
    /\ job' = [job EXCEPT ![w] = [event |-> m, conv |-> ConvOf[m],
                                  loaded |-> db[ConvOf[m]], seen |-> AbsentRow,
                                  at |-> clock]]
    /\ UNCHANGED <<clock, chatwoot, rows, events, mirrored, bus, audit, req, scan,
                   trouble>>

\* handle_profile_completed has run the search and loads the one conversation
\* linked to the lead.
RecommendationReads(w, l) ==
    /\ l \in completed
    /\ Takes(w, l)
    /\ \E c \in Convs :
          /\ {d \in Convs : db[d].lead = l} = {c}
          /\ job' = [job EXCEPT ![w] = [event |-> l, conv |-> c,
                                        loaded |-> db[c], seen |-> AbsentRow, at |-> clock]]
    /\ UNCHANGED <<clock, chatwoot, rows, events, mirrored, bus, audit, req, scan,
                   trouble>>

\* No conversation is linked to the lead, or the search says there is nothing
\* to recommend: the handler returns normally.  (With several conversations
\* linked it raises MultipleResultsFound, which changes nothing.)
RecommendationSkips(w, l) ==
    /\ l \in completed
    /\ Takes(w, l)
    /\ unrecorded' = [unrecorded EXCEPT ![w] = @ \union {l}]
    /\ UNCHANGED <<clock, chatwoot, rows, events, mirrored, handled, audit, req, job,
                   scan, trouble>>

\* InvalidTransitionError from _transfer_to_human, or the policy engine's
\* NotImplementedPlaceholder on a New conversation a human has owned.
TurnIsRefused(w) ==
    IF job[w].event \in Bypass
    THEN ~CanTransition(job[w].loaded.state, "AssignedHuman")
    ELSE /\ job[w].event \in Messages
         /\ job[w].loaded.state = "New"
         /\ ~NeverHadHuman(job[w].loaded.owner)

\* The turn has decided (and called the LLM) and saves: the row is read again.
\* The recommendation saves only the conversation it moves on.
TurnSaves(w) ==
    /\ job[w] # Idle
    /\ job[w].seen.state = "Absent"
    /\ ~TurnIsRefused(w)
    /\ job[w].event \in Leads => job[w].loaded.state = "Qualification"
    /\ job' = [job EXCEPT ![w].seen = db[job[w].conv]]
    /\ UNCHANGED <<clock, chatwoot, rows, events, mirrored, bus, audit, req, scan,
                   trouble>>

\* Row, events and audit rows commit together.
CommitTurn(w, new) ==
    /\ job[w].seen.state # "Absent"
    /\ WriteBack(job[w].conv, job[w], new)
    /\ job' = [job EXCEPT ![w] = Idle]

\* The turn's handler returns to the bus; or the sidebar note, sent after the
\* commit, raises (an InvalidURL is no ChatwootSendError): the turn stands and
\* the event will be handed out again.
HandlerReturns(w) == unrecorded' = [unrecorded EXCEPT ![w] = @ \union {job[w].event}]
MessageDone(w) ==
    \/ HandlerReturns(w) /\ UNCHANGED raises
    \/ /\ faults + raises < MaxFaults
       /\ raises' = raises + 1
       /\ UNCHANGED unrecorded

\* Mutants of AssignOwner: the hand-off to a human is not recorded as an event,
\* or has no audit row.
AssignOwnerQuietly(w, owner) ==
    /\ decisions' = [decisions EXCEPT ![job[w].conv] = Append(@, owner)]
    /\ transfers' = IF owner = "human" THEN transfers
                    ELSE [transfers EXCEPT ![job[w].conv] =
                            Append(@, [from |-> job[w].loaded.owner, to |-> owner])]
AssignOwnerUnaudited(w, owner) ==
    /\ decisions' = IF owner = "human" THEN decisions
                    ELSE [decisions EXCEPT ![job[w].conv] = Append(@, owner)]
    /\ transfers' = [transfers EXCEPT ![job[w].conv] =
                        Append(@, [from |-> job[w].loaded.owner, to |-> owner])]

\* decisions.add and transition_to(..., owner_type=owner): the transfer event is
\* recorded only if the owner changes.
AssignOwner(w, owner) ==
    LET c == job[w].conv
        from == job[w].loaded.owner
    IN /\ decisions' = [decisions EXCEPT ![c] = Append(@, owner)]
       /\ transfers' = IF from = owner THEN transfers
                       ELSE [transfers EXCEPT ![c] = Append(@, [from |-> from, to |-> owner])]

\* Mutant of Assigned: the state moves and the owner stays.
AssignedStateOnly(row, state, owner, at) == [row EXCEPT !.state = state, !.contact = at]

\* The touched row after transition_to(state, owner_type=owner).
Assigned(row, state, owner, at) ==
    [row EXCEPT !.state = state, !.owner = owner, !.contact = at]

\* _transfer_to_human: scenario 8, no reply this turn.
TransferToHuman(w) ==
    /\ job[w] # Idle
    /\ job[w].event \in Bypass
    /\ CanTransition(job[w].loaded.state, "AssignedHuman")
    /\ AssignOwner(w, "human")
    /\ CommitTurn(w, Assigned(job[w].loaded, "AssignedHuman", "human", job[w].at))
    /\ MessageDone(w)
    /\ UNCHANGED <<clock, chatwoot, events, mirrored, handled, req, scan, faults>>

Reply(w) == replies' = [replies EXCEPT ![job[w].event] = @ + 1]

\* _conversational_turn in state New: scenario 1, New -> AIOwned ->
\* Qualification in one go, then the reply.
FirstTurn(w) ==
    /\ job[w] # Idle
    /\ job[w].event \in Messages \ Bypass
    /\ job[w].loaded.state = "New"
    /\ NeverHadHuman(job[w].loaded.owner)
    /\ AssignOwner(w, "ai")
    /\ CommitTurn(w, Assigned(job[w].loaded, "Qualification", "ai", job[w].at))
    /\ Reply(w)
    /\ MessageDone(w)
    /\ UNCHANGED <<clock, chatwoot, received, completed, offers, dormancies,
                   mirrored, handled, req, scan, faults>>

\* Mutants of LaterTurn: the AI keeps silent once a human owns the conversation,
\* or takes the conversation back when it replies.
LaterTurnMuted(w) ==
    /\ job[w] # Idle
    /\ job[w].event \in Messages \ Bypass
    /\ job[w].loaded.state # "New"
    /\ CommitTurn(w, [job[w].loaded EXCEPT !.contact = job[w].at])
    /\ IF job[w].loaded.owner = "human" THEN UNCHANGED replies ELSE Reply(w)
    /\ MessageDone(w)
    /\ UNCHANGED <<clock, chatwoot, received, completed, offers, dormancies,
                   mirrored, handled, audit, req, scan, faults>>
LaterTurnReclaims(w) ==
    /\ job[w] # Idle
    /\ job[w].event \in Messages \ Bypass
    /\ job[w].loaded.state # "New"
    /\ CommitTurn(w, [job[w].loaded EXCEPT !.contact = job[w].at, !.owner = "ai"])
    /\ Reply(w)
    /\ MessageDone(w)
    /\ UNCHANGED <<clock, chatwoot, received, completed, offers, dormancies,
                   mirrored, handled, audit, req, scan, faults>>

\* _conversational_turn in any other state: the AI replies, whoever owns the
\* conversation.
LaterTurn(w) ==
    /\ job[w] # Idle
    /\ job[w].event \in Messages \ Bypass
    /\ job[w].loaded.state # "New"
    /\ CommitTurn(w, [job[w].loaded EXCEPT !.contact = job[w].at])
    /\ Reply(w)
    /\ MessageDone(w)
    /\ UNCHANGED <<clock, chatwoot, received, completed, offers, dormancies,
                   mirrored, handled, audit, req, scan, faults>>

\* The session rolls back and the event stays unhandled, to be tried again.
TurnRaises(w) ==
    /\ job[w] # Idle
    /\ TurnIsRefused(w)
    /\ job' = [job EXCEPT ![w] = Idle]
    /\ UNCHANGED <<clock, chatwoot, rows, events, mirrored, bus, audit, req, scan,
                   trouble>>

\* The Top-3 is delivered; only a conversation in Qualification moves on.
RecommendationCommits(w) ==
    /\ job[w] # Idle
    /\ job[w].event \in Leads
    /\ IF job[w].loaded.state = "Qualification"
       THEN CommitTurn(w, [job[w].loaded EXCEPT !.state = "Recommendation"])
       ELSE job' = [job EXCEPT ![w] = Idle] /\ UNCHANGED rows
    /\ HandlerReturns(w)
    /\ offers' = [offers EXCEPT ![job[w].event] = @ + 1]
    /\ UNCHANGED <<clock, chatwoot, received, completed, replies, dormancies,
                   mirrored, handled, audit, req, scan, trouble>>

\* The bus commits its batch: its events are recorded as handled.
Acknowledge(w) ==
    /\ job[w] = Idle
    /\ unrecorded[w] # {}
    /\ handled' = handled \union unrecorded[w]
    /\ unrecorded' = [unrecorded EXCEPT ![w] = {}]
    /\ UNCHANGED <<clock, chatwoot, rows, events, mirrored, audit, req, job, scan,
                   trouble>>

\* A crash loses the turn in progress and the record of the batch's turns.
Crash(w) ==
    /\ job[w] # Idle \/ unrecorded[w] # {}
    /\ faults + raises < MaxFaults
    /\ job' = [job EXCEPT ![w] = Idle]
    /\ unrecorded' = [unrecorded EXCEPT ![w] = {}]
    /\ faults' = faults + 1
    /\ UNCHANGED <<clock, chatwoot, rows, events, mirrored, handled, audit, req, scan,
                   raises>>

-----------------------------------------------------------------------------
(* decay_inactive_conversations                                             *)

Inactive(c) == db[c].state \in ActiveStates /\ db[c].contact + Threshold < clock

\* The conversations a pass is about, once it has loaded them.
About(d) == {c \in Convs : scan[d].loaded[c].state # "Absent"}

\* list_inactive_since copies every inactive conversation.
DecayScans(d) ==
    /\ scan[d] = Idle
    /\ {c \in Convs : Inactive(c)} # {}
    /\ scan' = [scan EXCEPT ![d] =
                  [loaded |-> [c \in Convs |-> IF Inactive(c) THEN db[c] ELSE AbsentRow],
                   seen |-> [c \in Convs |-> AbsentRow]]]
    /\ UNCHANGED <<clock, chatwoot, rows, events, mirrored, bus, audit, req, job,
                   trouble>>

\* One round of the loop: the next conversation falls to Dormant and is saved.
DecaySaves(d, c) ==
    /\ scan[d] # Idle
    /\ c \in About(d)
    /\ scan[d].seen[c].state = "Absent"
    /\ scan' = [scan EXCEPT ![d].seen[c] = db[c]]
    /\ UNCHANGED <<clock, chatwoot, rows, events, mirrored, bus, audit, req, job,
                   trouble>>

\* The pass is one transaction: all its copies are written, and the events say so.
DecayCommits(d) ==
    /\ scan[d] # Idle
    /\ \A c \in About(d) : scan[d].seen[c].state # "Absent"
    /\ db' = [c \in Convs |->
                IF c \notin About(d) THEN db[c]
                ELSE Save(db[c], scan[d].seen[c],
                          [scan[d].loaded[c] EXCEPT !.state = "Dormant"])]
    /\ overtaken' = overtaken \union
                    {c \in About(d) : Overtaken(c, scan[d].loaded[c], scan[d].seen[c])}
    /\ dormancies' = [c \in Convs |-> IF c \in About(d) THEN dormancies[c] + 1
                                      ELSE dormancies[c]]
    /\ scan' = [scan EXCEPT ![d] = Idle]
    /\ UNCHANGED <<clock, chatwoot, received, completed, replies, offers, mirrored,
                   bus, audit, req, job, trouble>>

-----------------------------------------------------------------------------
HandlerStep(w) ==
    \/ \E m \in Messages : CoordinatorReads(w, m)
    \/ \E l \in Leads : RecommendationReads(w, l) \/ RecommendationSkips(w, l)
    \/ TurnSaves(w) \/ TurnRaises(w)
    \/ TransferToHuman(w) \/ FirstTurn(w) \/ LaterTurn(w)
    \/ RecommendationCommits(w) \/ Acknowledge(w)

RequestStep(r) ==
    \/ \E m \in Messages : WebhookReads(r, m)
    \/ WebhookSaves(r) \/ WebhookCommits(r) \/ WebhookRollsBack(r)

Next ==
    \/ Tick
    \/ \E m \in Messages : WebhookLinkRaises(m)
    \/ \E l \in Leads : MirrorLead(l) \/ CompleteProfile(l)
    \/ \E r \in Requests : RequestStep(r)
    \/ \E w \in Workers : HandlerStep(w) \/ Crash(w)
    \/ \E d \in Decayers : DecayScans(d) \/ DecayCommits(d) \/ \E c \in Convs : DecaySaves(d, c)

Spec == Init /\ [][Next]_vars

\* Each loop and each accepted request keeps running; the bus offers every
\* unhandled event again and again (EventBus, HealthyEventsProcessed), and a
\* batch is finite, so it commits however often its handlers raise.
Fairness ==
    /\ \A r \in Requests : 
         WF_vars(WebhookSaves(r) \/ WebhookCommits(r) \/ WebhookRollsBack(r))
    /\ \A w \in Workers : WF_vars(HandlerStep(w)) /\ SF_vars(Acknowledge(w))
    /\ \A m \in Messages : SF_vars(\E w \in Workers : CoordinatorReads(w, m))
FairSpec == Spec /\ Fairness

-----------------------------------------------------------------------------
(* Properties                                                               *)

TypeOK ==
    /\ clock \in Times
    /\ sentAt \in [Messages -> Times]
    /\ deliveries \in [Messages -> Nat]
    /\ db \in [Convs -> Rows]
    /\ received \in [Messages -> Nat]
    /\ mirrored \subseteq Leads /\ completed \subseteq Leads
    /\ handled \subseteq Events
    /\ replies \in [Messages -> Nat] /\ offers \in [Leads -> Nat]
    /\ decisions \in [Convs -> Seq(OwnerType)]
    /\ transfers \in [Convs -> Seq([from : OwnerType, to : OwnerType])]
    /\ dormancies \in [Convs -> Nat]
    /\ req \in [Requests -> Calls \union {Idle}]
    /\ job \in [Workers -> Turns \union {Idle}]
    /\ unrecorded \in [Workers -> SUBSET Events]
    /\ scan \in [Decayers -> Passes \union {Idle}]
    /\ faults \in Nat /\ raises \in Nat
    /\ overtaken \subseteq Convs

\* Copies of c with which a transaction ends in this step.
EndedWith(c) ==
    {req[r].loaded : r \in {x \in Requests : req[x] # Idle /\ req'[x] = Idle
                                             /\ ConvOf[req[x].msg] = c}} \union
    {job[w].loaded : w \in {x \in Workers : job[x] # Idle /\ job'[x] = Idle
                                            /\ job[x].conv = c}} \union
    {scan[d].loaded[c] : d \in {x \in Decayers : scan[x] # Idle /\ scan'[x] = Idle
                                                 /\ c \in About(x)}}

\* QA-09 (ArchitecturalDrivers.md): ownership is derivable from the state, and
\* "no conversation can be simultaneously AI-owned and human-owned", whatever
\* overlaps, crashes and is repeated, until a copy of the conversation is
\* written although its state or owner had changed since the copy was loaded.
OwnerMatchesState ==
    \A c \in Convs \ overtaken :
        /\ db[c].state \in {"Absent", "New"} => db[c].owner = "unassigned"
        /\ db[c].state \in {"Qualification", "Recommendation"} => db[c].owner = "ai"
        /\ db[c].state = "AssignedHuman" => db[c].owner = "human"

\* "An auditable ownership history" (models.py): until such a copy is written,
\* the OwnershipTransferred events of a conversation form a chain from unassigned
\* to the current owner, and each has its ownership_decisions row, in order.
OwnershipHistoryIsChain ==
    \A c \in Convs \ overtaken :
        LET h == transfers[c] IN
        /\ h = <<>> => db[c].owner = "unassigned"
        /\ h # <<>> => /\ h[1].from = "unassigned"
                       /\ h[Len(h)].to = db[c].owner
        /\ \A i \in 1..(Len(h) - 1) : h[i].to = h[i + 1].from
        /\ decisions[c] = [i \in 1..Len(h) |-> h[i].to]

\* However old the copies are that rows are put back from: no row ever names an
\* owner, or is in a state, that no recorded decision, transfer or dormancy
\* event has brought about.
OwnersWereDecided ==
    \A c \in Convs :
        LET decided == {decisions[c][i] : i \in DOMAIN decisions[c]}
            announced == {transfers[c][i].to : i \in DOMAIN transfers[c]}
        IN /\ db[c].owner \in {"unassigned"} \union (decided \intersect announced)
           /\ db[c].state \in {"Qualification", "Recommendation"} => "ai" \in decided
           /\ db[c].state = "AssignedHuman" => "human" \in decided
           /\ db[c].state = "Dormant" => dormancies[c] > 0

\* A hand-off to a human is undone only by a call, turn or decay pass that had
\* loaded the conversation before the human had it: no step that knows of the
\* human (a later turn, a redelivery, a recommendation, decay) takes it away.
HandoffIsFinal ==
    [][\A c \in Convs : db[c].owner = "human" /\ db'[c].owner # "human" =>
          \E old \in EndedWith(c) : old.owner # "human"]_vars

\* The state changes _transfer_to_human, the first turn, the recommendation and
\* decay are written to make.
Lawful(s, t) ==
    \/ s = "Absent" /\ t = "New"
    \/ t \in AllowedFrom(s)
    \/ s = "New" /\ t = "Qualification"      \* through AIOwned
    \/ s \in ActiveStates /\ t = "Dormant"

\* A stored state changes only to one the transition table leads to from the
\* state the transaction had loaded, or back to the very state it had loaded.
MovesAreLawful ==
    [][\A c \in Convs : db'[c].state # db[c].state =>
          \E old \in EndedWith(c) : db'[c].state = old.state
                                    \/ Lawful(old.state, db'[c].state)]_vars

\* A message is archived and published once however often and however
\* concurrently Chatwoot delivers it; it is answered at most once more than
\* there were crashes and sidebar notes that raised; a bypass message is never
\* answered by the AI.
OneTurnPerMessage ==
    \A m \in Messages :
        /\ received[m] <= 1
        /\ replies[m] <= received[m] + faults + raises
        /\ m \in Bypass => replies[m] = 0
        /\ m \in handled \ Bypass => replies[m] >= 1

\* A message that reached the archive is eventually answered, poisoned
\* neighbours notwithstanding, unless a copy loaded when the conversation was
\* New leaves it New with a human owner: the policy engine refuses every turn
\* of such a row.  Left out: settings under which every turn raises (two active
\* prompts, a malformed base_url) until they are put right.
Stranded(c) == db[c].state = "New" /\ db[c].owner = "human"
MessagesAnswered ==
    \A m \in Messages \ Bypass :
        received[m] > 0 ~> (m \in handled /\ replies[m] >= 1) \/ Stranded(ConvOf[m])

\* link_lead: a conversation is never moved from one lead to another; a link is
\* lost only to a call, turn or decay pass that had loaded the conversation
\* before it was linked.
LinkIsStable ==
    [][\A c \in Convs : db[c].lead # NoLead =>
          \/ db'[c].lead = db[c].lead
          \/ db'[c].lead = NoLead /\ \E old \in EndedWith(c) : old.lead = NoLead]_vars

\* "Every transfer originates in an OwnershipDecision" (Architecture.md): the
\* owner a row names changes only in a transaction that records a decision.
OwnerChangesAreDecided ==
    [][\A c \in Convs : db'[c].owner # db[c].owner => decisions'[c] # decisions[c]]_vars
=============================================================================
