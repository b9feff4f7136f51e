------------------------- MODULE ConversationProofs -------------------------
(***************************************************************************)
(* Proofs about Conversation for any conversations, messages, leads,       *)
(* overlapping webhook requests, workers, decay loops and bounds.          *)
(***************************************************************************)
EXTENDS Conversation, FiniteSetTheorems, TLAPS

USE SetsAssumption, ConversationBoundsAssumption
    DEF chatwoot, bus, events, audit, rows, trouble

-----------------------------------------------------------------------------
(* Types                                                                    *)

LEMMA SavedIsRow ==
    ASSUME NEW current \in Rows, NEW seen \in Rows, NEW copy \in Rows
    PROVE  Save(current, seen, copy) \in Rows
BY DEF Save, Rows

LEMMA AbsentIsRow == AbsentRow \in Rows
BY DEF AbsentRow, Rows, OwnerType, Times

LEMMA CallFields ==
    ASSUME TypeOK, NEW r \in Requests, req[r] # Idle
    PROVE  /\ req[r] \in Calls /\ req[r].msg \in Messages /\ ConvOf[req[r].msg] \in Convs
           /\ req[r].loaded \in Rows /\ req[r].seen \in Rows
           /\ req[r].lead \in Leads \union {NoLead} /\ req[r].at \in Times
BY DEF TypeOK, Calls

LEMMA TurnFields ==
    ASSUME TypeOK, NEW w \in Workers, job[w] # Idle
    PROVE  /\ job[w] \in Turns /\ job[w].event \in Events /\ job[w].conv \in Convs
           /\ job[w].loaded \in Rows /\ job[w].seen \in Rows /\ job[w].at \in Times
BY DEF TypeOK, Turns

LEMMA PassFields ==
    ASSUME TypeOK, NEW d \in Decayers, scan[d] # Idle, NEW c \in Convs
    PROVE  scan[d] \in Passes /\ scan[d].loaded[c] \in Rows /\ scan[d].seen[c] \in Rows
BY DEF TypeOK, Passes

\* The rows a turn may commit, given the one it has loaded.
LEMMA AssignedRow ==
    ASSUME NEW row \in Rows, NEW state \in ConversationState, NEW owner \in OwnerType,
           NEW at \in Times
    PROVE  LET new == Assigned(row, state, owner, at)
           IN  /\ new \in Rows /\ new.state = state /\ new.owner = owner
               /\ new.lead = row.lead
BY DEF Assigned, Rows

LEMMA Touched ==
    ASSUME NEW row \in Rows, NEW at \in Times, NEW new,
           new = [row EXCEPT !.contact = at]
    PROVE  /\ new \in Rows /\ new.state = row.state /\ new.owner = row.owner
           /\ new.lead = row.lead
BY DEF Rows, ConversationState, OwnerType

LEMMA Recommended ==
    ASSUME NEW row \in Rows, NEW new,
           new = [row EXCEPT !.state = "Recommendation"]
    PROVE  /\ new \in Rows /\ new.state = "Recommendation" /\ new.owner = row.owner
           /\ new.lead = row.lead
BY DEF Rows, ConversationState, OwnerType

LEMMA FallenAsleep ==
    ASSUME NEW row \in Rows, NEW new,
           new = [row EXCEPT !.state = "Dormant"]
    PROVE  /\ new \in Rows /\ new.state = "Dormant" /\ new.owner = row.owner
           /\ new.lead = row.lead
BY DEF Rows, ConversationState, OwnerType

LEMMA LinkedIsLead ==
    ASSUME TypeOK, NEW c \in Convs
    PROVE  LinkedLead(c) \in Leads \union {NoLead}
<1>1. db[c].lead \in Leads \union {NoLead}
  BY DEF TypeOK, Rows
<1>2. Matches(c) \subseteq Leads
  BY DEF TypeOK, Matches
<1> QED
  BY <1>1, <1>2 DEF LinkedLead

\* Chatwoot's bookkeeping of a call.
LEMMA ChatwootTypes ==
    ASSUME TypeOK, NEW m \in Messages, ChatwootCalls(m)
    PROVE  deliveries' \in [Messages -> Nat] /\ sentAt' \in [Messages -> Times]
<1>1. 0..clock \subseteq Times
  BY DEF TypeOK, Times
<1>2. PICK t \in 0..clock :
         sentAt' = IF deliveries[m] = 0 THEN [sentAt EXCEPT ![m] = t] ELSE sentAt
  BY DEF ChatwootCalls
<1>3. t \in Times
  BY <1>1
<1>4. sentAt' \in [Messages -> Times]
  BY <1>2, <1>3 DEF TypeOK
<1> QED
  BY <1>4 DEF ChatwootCalls, TypeOK

\* A transaction commits to a conversation.
LEMMA WriteBackTypes ==
    ASSUME TypeOK, NEW c \in Convs, NEW t, t.seen \in Rows, NEW new \in Rows,
           WriteBack(c, t, new)
    PROVE  db' \in [Convs -> Rows] /\ overtaken' \subseteq Convs
<1>1. db[c] \in Rows
  BY DEF TypeOK
<1>2. Save(db[c], t.seen, new) \in Rows
  BY <1>1, SavedIsRow
<1> QED
  BY <1>2 DEF WriteBack, TypeOK

LEMMA WebhookTypes ==
    ASSUME TypeOK, NEW r \in Requests, RequestStep(r)
    PROVE  TypeOK'
<1>1. ASSUME NEW m \in Messages, WebhookReads(r, m) PROVE TypeOK'
  <2>1. ConvOf[m] \in Convs /\ db[ConvOf[m]] \in Rows /\ clock \in Times
    BY DEF TypeOK
  <2>2. req'[r] \in Calls /\ req' = [req EXCEPT ![r] = req'[r]]
    BY <1>1, <2>1, LinkedIsLead, AbsentIsRow DEF WebhookReads, TypeOK, Calls
  <2>3. req' \in [Requests -> Calls \union {Idle}]
    BY <2>2 DEF TypeOK
  <2> QED
    BY <1>1, <2>3, ChatwootTypes DEF WebhookReads, TypeOK
<1>2. CASE WebhookSaves(r)
  <2>1. req[r] \in Calls /\ db[ConvOf[req[r].msg]] \in Rows
    BY <1>2, CallFields DEF WebhookSaves, TypeOK
  <2>2. [req[r] EXCEPT !.seen = db[ConvOf[req[r].msg]]] \in Calls
    BY <2>1 DEF Calls
  <2>3. req' \in [Requests -> Calls \union {Idle}]
    BY <1>2, <2>2 DEF WebhookSaves, TypeOK
  <2> QED
    BY <1>2, <2>3 DEF WebhookSaves, TypeOK
<1>3. CASE WebhookCommits(r)
  <2> DEFINE m == req[r].msg
             c == ConvOf[m]
             old == req[r].loaded
             touched == [old EXCEPT !.contact = sentAt[m], !.lead = req[r].lead]
  <2>1. /\ m \in Messages /\ c \in Convs /\ old \in Rows /\ req[r].seen \in Rows
        /\ req[r].lead \in Leads \union {NoLead} /\ req[r].at \in Times
        /\ sentAt[m] \in Times
    BY <1>3, CallFields DEF WebhookCommits, WebhookSaved, TypeOK
  <2>2. touched \in Rows
    BY <2>1 DEF Rows
  <2>3. [state |-> "New", owner |-> "unassigned", contact |-> req[r].at,
         lead |-> req[r].lead] \in Rows
    BY <2>1 DEF Rows, ConversationState, OwnerType
  <2>4. db' \in [Convs -> Rows] /\ overtaken' \subseteq Convs
    <3>1. CASE old.state = "Absent"
      <4>1. /\ db' = [db EXCEPT ![c] = [state |-> "New", owner |-> "unassigned",
                                         contact |-> req[r].at, lead |-> req[r].lead]]
            /\ overtaken' = overtaken
        BY <1>3, <3>1 DEF WebhookCommits
      <4> HIDE DEF c
      <4> QED
        BY <2>1, <2>3, <4>1 DEF TypeOK
    <3>2. CASE old.state # "Absent"
      <4>1. WriteBack(c, req[r], touched)
        BY <1>3, <3>2 DEF WebhookCommits
      <4> HIDE DEF c, touched
      <4> QED
        BY <2>1, <2>2, <4>1, WriteBackTypes
    <3> QED
      BY <3>1, <3>2
  <2>5. received' \in [Messages -> Nat]
    <3>1. received' = [received EXCEPT ![m] = @ + 1]
      BY <1>3 DEF WebhookCommits
    <3> QED
      BY <2>1, <3>1 DEF TypeOK
  <2>6. req' \in [Requests -> Calls \union {Idle}]
    BY <1>3 DEF WebhookCommits, TypeOK
  <2> QED
    BY <1>3, <2>4, <2>5, <2>6 DEF WebhookCommits, TypeOK
<1>4. CASE WebhookRollsBack(r)
  BY <1>4 DEF WebhookRollsBack, TypeOK
<1> QED
  BY <1>1, <1>2, <1>3, <1>4 DEF RequestStep

\* The turn of w commits the row new.
LEMMA CommitTypes ==
    ASSUME TypeOK, NEW w \in Workers, job[w] # Idle, NEW new \in Rows, CommitTurn(w, new)
    PROVE  /\ db' \in [Convs -> Rows] /\ overtaken' \subseteq Convs
           /\ job' \in [Workers -> Turns \union {Idle}]
<1>1. job[w].conv \in Convs /\ job[w].seen \in Rows /\ WriteBack(job[w].conv, job[w], new)
  BY TurnFields DEF CommitTurn
<1> QED
  BY <1>1, WriteBackTypes DEF CommitTurn, TypeOK

\* The turn is over for its worker.
LEMMA DoneTypes ==
    ASSUME TypeOK, NEW w \in Workers, job[w] # Idle, MessageDone(w) \/ HandlerReturns(w)
    PROVE  /\ unrecorded' \in [Workers -> SUBSET Events]
           /\ MessageDone(w) => raises' \in Nat
<1>1. job[w].event \in Events
  BY TurnFields
<1>2. HandlerReturns(w) => unrecorded' \in [Workers -> SUBSET Events]
  BY <1>1 DEF HandlerReturns, TypeOK
<1> QED
  BY <1>2 DEF MessageDone, TypeOK

LEMMA AssignTypes ==
    ASSUME TypeOK, NEW w \in Workers, job[w] # Idle, NEW owner \in OwnerType,
           AssignOwner(w, owner)
    PROVE  /\ decisions' \in [Convs -> Seq(OwnerType)]
           /\ transfers' \in [Convs -> Seq([from : OwnerType, to : OwnerType])]
<1> DEFINE c == job[w].conv
           from == job[w].loaded.owner
<1>1. c \in Convs /\ from \in OwnerType
  BY DEF TypeOK, Turns, Rows
<1>2. decisions' = [decisions EXCEPT ![c] = Append(@, owner)]
  BY DEF AssignOwner
<1>3. \/ transfers' = transfers
      \/ transfers' = [transfers EXCEPT ![c] = Append(@, [from |-> from, to |-> owner])]
  BY DEF AssignOwner
<1>4. decisions' \in [Convs -> Seq(OwnerType)]
  BY <1>1, <1>2 DEF TypeOK
<1> DEFINE Moves == [from : OwnerType, to : OwnerType]
<1>5. [from |-> from, to |-> owner] \in Moves
  BY <1>1
<1>6. transfers \in [Convs -> Seq(Moves)]
  BY DEF TypeOK
<1> HIDE DEF Moves, from
<1>7. transfers' \in [Convs -> Seq(Moves)]
  <2>1. transfers[c] \in Seq(Moves)
    BY <1>1, <1>6
  <2>2. Append(transfers[c], [from |-> from, to |-> owner]) \in Seq(Moves)
    BY <1>5, <2>1
  <2> QED
    BY <1>1, <1>3, <1>6, <2>2
<1> QED
  BY <1>4, <1>7 DEF Moves

LEMMA HandlerTypes ==
    ASSUME TypeOK, NEW w \in Workers, HandlerStep(w)
    PROVE  TypeOK'
<1>1. ASSUME NEW m \in Messages, CoordinatorReads(w, m) PROVE TypeOK'
  <2>1. job' \in [Workers -> Turns \union {Idle}]
    BY <1>1, AbsentIsRow DEF CoordinatorReads, TypeOK, Turns, Events
  <2> QED
    BY <1>1, <2>1 DEF CoordinatorReads, TypeOK
<1>2. ASSUME NEW l \in Leads, RecommendationReads(w, l) PROVE TypeOK'
  <2>1. job' \in [Workers -> Turns \union {Idle}]
    BY <1>2, AbsentIsRow DEF RecommendationReads, TypeOK, Turns, Events
  <2> QED
    BY <1>2, <2>1 DEF RecommendationReads, TypeOK
<1>3. ASSUME NEW l \in Leads, RecommendationSkips(w, l) PROVE TypeOK'
  <2>1. unrecorded' \in [Workers -> SUBSET Events]
    BY <1>3 DEF RecommendationSkips, TypeOK, Events
  <2> QED
    BY <1>3, <2>1 DEF RecommendationSkips, TypeOK
<1>4. CASE TurnSaves(w)
  <2>1. job[w] \in Turns /\ db[job[w].conv] \in Rows
    BY <1>4, TurnFields DEF TurnSaves, TypeOK
  <2>2. [job[w] EXCEPT !.seen = db[job[w].conv]] \in Turns
    BY <2>1 DEF Turns
  <2>3. job' \in [Workers -> Turns \union {Idle}]
    BY <1>4, <2>2 DEF TurnSaves, TypeOK
  <2> QED
    BY <1>4, <2>3 DEF TurnSaves, TypeOK
<1>5. CASE TransferToHuman(w)
  <2>1. Assigned(job[w].loaded, "AssignedHuman", "human", job[w].at) \in Rows
    BY <1>5, TurnFields, AssignedRow DEF TransferToHuman, ConversationState, OwnerType
  <2>2. "human" \in OwnerType
    BY DEF OwnerType
  <2> QED
    BY <1>5, <2>1, <2>2, CommitTypes, AssignTypes, DoneTypes DEF TransferToHuman, TypeOK
<1>6. CASE FirstTurn(w)
  <2>1. Assigned(job[w].loaded, "Qualification", "ai", job[w].at) \in Rows
    BY <1>6, TurnFields, AssignedRow DEF FirstTurn, ConversationState, OwnerType
  <2>2. "ai" \in OwnerType
    BY DEF OwnerType
  <2>3. replies' \in [Messages -> Nat]
    BY <1>6 DEF FirstTurn, Reply, TypeOK
  <2> QED
    BY <1>6, <2>1, <2>2, <2>3, CommitTypes, AssignTypes, DoneTypes DEF FirstTurn, TypeOK
<1>7. CASE LaterTurn(w)
  <2>1. [job[w].loaded EXCEPT !.contact = job[w].at] \in Rows
    BY <1>7, TurnFields, Touched DEF LaterTurn
  <2>2. replies' \in [Messages -> Nat]
    BY <1>7 DEF LaterTurn, Reply, TypeOK
  <2> QED
    BY <1>7, <2>1, <2>2, CommitTypes, DoneTypes DEF LaterTurn, TypeOK
<1>8. CASE TurnRaises(w)
  BY <1>8 DEF TurnRaises, TypeOK
<1>9. CASE RecommendationCommits(w)
  <2>1. [job[w].loaded EXCEPT !.state = "Recommendation"] \in Rows
    BY <1>9, TurnFields, Recommended DEF RecommendationCommits
  <2>2. offers' \in [Leads -> Nat]
    BY <1>9 DEF RecommendationCommits, TypeOK
  <2>3. /\ db' \in [Convs -> Rows] /\ overtaken' \subseteq Convs
        /\ job' \in [Workers -> Turns \union {Idle}]
    <3>1. CASE job[w].loaded.state = "Qualification"
      BY <1>9, <2>1, <3>1, CommitTypes DEF RecommendationCommits
    <3>2. CASE job[w].loaded.state # "Qualification"
      BY <1>9, <3>2 DEF RecommendationCommits, TypeOK
    <3> QED
      BY <3>1, <3>2
  <2> QED
    BY <1>9, <2>2, <2>3, DoneTypes DEF RecommendationCommits, TypeOK
<1>10. CASE Acknowledge(w)
  BY <1>10 DEF Acknowledge, TypeOK
<1> QED
  BY <1>1, <1>2, <1>3, <1>4, <1>5, <1>6, <1>7, <1>8, <1>9, <1>10 DEF HandlerStep

\* A step of a decay loop.
DecayStep(d) == DecayScans(d) \/ DecayCommits(d) \/ \E c \in Convs : DecaySaves(d, c)

LEMMA DecayTypes ==
    ASSUME TypeOK, NEW d \in Decayers, DecayStep(d)
    PROVE  TypeOK'
<1>1. CASE DecayScans(d)
  <2> DEFINE pass == [loaded |-> [c \in Convs |-> IF Inactive(c) THEN db[c] ELSE AbsentRow],
                      seen |-> [c \in Convs |-> AbsentRow]]
  <2>1. pass \in Passes
    BY AbsentIsRow DEF Passes, TypeOK
  <2>2. scan' = [scan EXCEPT ![d] = pass]
    BY <1>1 DEF DecayScans
  <2> HIDE DEF pass
  <2>3. scan' \in [Decayers -> Passes \union {Idle}]
    BY <2>1, <2>2 DEF TypeOK
  <2> QED
    BY <1>1, <2>3 DEF DecayScans, TypeOK
<1>2. ASSUME NEW c \in Convs, DecaySaves(d, c) PROVE TypeOK'
  <2>1. scan[d] \in Passes /\ db[c] \in Rows
    BY <1>2, PassFields DEF DecaySaves, TypeOK
  <2>2. [scan[d] EXCEPT !.seen[c] = db[c]] \in Passes
    BY <2>1 DEF Passes
  <2>3. scan' \in [Decayers -> Passes \union {Idle}]
    BY <1>2, <2>2 DEF DecaySaves, TypeOK
  <2> QED
    BY <1>2, <2>3 DEF DecaySaves, TypeOK
<1>3. CASE DecayCommits(d)
  <2>1. ASSUME NEW c \in Convs
        PROVE  Save(db[c], scan[d].seen[c], [scan[d].loaded[c] EXCEPT !.state = "Dormant"]) \in Rows
    <3>1. /\ db[c] \in Rows /\ scan[d].seen[c] \in Rows
          /\ [scan[d].loaded[c] EXCEPT !.state = "Dormant"] \in Rows
      BY <1>3, PassFields, FallenAsleep DEF DecayCommits, TypeOK
    <3> QED
      BY <3>1, SavedIsRow
  <2>2. db' \in [Convs -> Rows]
    BY <1>3, <2>1 DEF DecayCommits, TypeOK
  <2>3. dormancies' \in [Convs -> Nat]
    BY <1>3 DEF DecayCommits, TypeOK
  <2>4. scan' \in [Decayers -> Passes \union {Idle}]
    BY <1>3 DEF DecayCommits, TypeOK
  <2>5. overtaken' \subseteq Convs
    BY <1>3 DEF DecayCommits, TypeOK, About
  <2> QED
    BY <1>3, <2>2, <2>3, <2>4, <2>5 DEF DecayCommits, TypeOK
<1> QED
  BY <1>1, <1>2, <1>3 DEF DecayStep

LEMMA TypePreserved ==
    ASSUME TypeOK, [Next]_vars
    PROVE  TypeOK'
<1>1. CASE Tick
  <2>1. clock' \in Times
    BY <1>1 DEF Tick, TypeOK, Times
  <2> QED
    BY <1>1, <2>1 DEF Tick, TypeOK
<1>2. ASSUME NEW m \in Messages, WebhookLinkRaises(m) PROVE TypeOK'
  BY <1>2, ChatwootTypes DEF WebhookLinkRaises, TypeOK
<1>3. ASSUME NEW l \in Leads, MirrorLead(l) \/ CompleteProfile(l) PROVE TypeOK'
  BY <1>3 DEF MirrorLead, CompleteProfile, TypeOK
<1>4. ASSUME NEW w \in Workers, Crash(w) PROVE TypeOK'
  <2>1. job' \in [Workers -> Turns \union {Idle}]
    BY <1>4 DEF Crash, TypeOK
  <2>2. unrecorded' \in [Workers -> SUBSET Events]
    BY <1>4 DEF Crash, TypeOK
  <2>3. faults' \in Nat
    BY <1>4 DEF Crash, TypeOK
  <2> QED
    BY <1>4, <2>1, <2>2, <2>3 DEF Crash, TypeOK
<1>5. CASE UNCHANGED vars
  BY <1>5 DEF vars, TypeOK
<1> QED
  BY <1>1, <1>2, <1>3, <1>4, <1>5, WebhookTypes, HandlerTypes, DecayTypes DEF Next, DecayStep

\* Every variable has its type.
THEOREM TypeCorrect == Spec => []TypeOK
<1>1. Init => TypeOK
  BY AbsentIsRow DEF Init, TypeOK, Times
<1> QED
  BY <1>1, TypePreserved, PTL DEF Spec

-----------------------------------------------------------------------------
(* Turns and answers                                                        *)

\* The event has been handled, though the batch may not have been recorded.
Held(e) == e \in handled \/ \E w \in Workers : e \in unrecorded[w]

\* Each answer of a message is the one of the turn the bus remembers, or a crash or
\* a raising sidebar note made the bus forget its turn; and an event is in one
\* worker's hands, or has been handled.
TurnsCounted ==
    /\ \A m \in Messages : received[m] \in {0, 1}
    /\ \A m \in Messages : Held(m) => received[m] = 1
    /\ \A w \in Workers : job[w] # Idle /\ job[w].event \in Messages
                            => received[job[w].event] = 1
    /\ \A m \in Messages : replies[m] <= faults + raises + (IF Held(m) THEN 1 ELSE 0)
    /\ \A m \in Bypass : replies[m] = 0
    /\ \A m \in Messages \ Bypass : Held(m) => replies[m] >= 1
    /\ \A w \in Workers : job[w] # Idle => ~Held(job[w].event)
    /\ \A v, w \in Workers : v # w /\ job[v] # Idle /\ job[w] # Idle
                               => job[v].event # job[w].event

\* A step that leaves turns and answers alone, or only archives a message.
LEMMA CountedIsKept ==
    ASSUME TypeOK, TurnsCounted, UNCHANGED <<handled, unrecorded, replies, faults, raises>>,
           \A w \in Workers : job'[w] # Idle =>
               job[w] # Idle /\ job'[w].event = job[w].event,
           \A m \in Messages : received'[m] \in {received[m], 1}
    PROVE  TurnsCounted'
<1>1. \A e : Held(e)' <=> Held(e)
  BY DEF Held
<1>2. \A w \in Workers : job[w] # Idle => job[w].event \in Events
  BY TurnFields
<1> QED
  BY <1>1, <1>2 DEF TurnsCounted

\* A turn is taken up: nobody holds or has handled its event.
LEMMA CountedWhenTaken ==
    ASSUME TypeOK, TurnsCounted, NEW w \in Workers, NEW e \in Events, Takes(w, e),
           e \in Messages => received[e] = 1,
           \A v \in Workers : v # w => job'[v] = job[v], job'[w].event = e,
           UNCHANGED <<received, handled, unrecorded, replies, faults, raises>>
    PROVE  TurnsCounted'
<1>1. \A x : Held(x)' <=> Held(x)
  BY DEF Held
<1>2. ~Held(e)
  BY DEF Held, Takes
<1>3. \A v \in Workers : job[v] # Idle => job[v].event # e
  BY DEF Takes
<1>4. /\ \A v \in Workers : job'[v] # Idle => ~Held(job'[v].event)
      /\ \A u, v \in Workers : u # v /\ job'[u] # Idle /\ job'[v] # Idle
                                 => job'[u].event # job'[v].event
      /\ \A v \in Workers : job'[v] # Idle /\ job'[v].event \in Messages
                              => received[job'[v].event] = 1
  BY <1>2, <1>3 DEF TurnsCounted
<1> QED
  BY <1>1, <1>4 DEF TurnsCounted

\* A turn ends, and a message that does not ask for a broker has been answered: its
\* worker remembers the event, or the sidebar note has raised.
LEMMA CountedWhenDone ==
    ASSUME TypeOK, TurnsCounted, NEW w \in Workers, NEW e \in Events,
           ~Held(e), e \in Messages => received[e] = 1,
           \A v \in Workers : job[v] # Idle /\ job[v].event = e => v = w,
           \A v \in Workers : v # w => job'[v] = job[v],
           job'[w] = Idle,
           \/ unrecorded' = [unrecorded EXCEPT ![w] = @ \union {e}] /\ raises' = raises
           \/ unrecorded' = unrecorded /\ raises' = raises + 1,
           \A m \in Messages : m # e => replies'[m] = replies[m],
           e \in Bypass => replies'[e] = replies[e],
           e \in Messages \ Bypass => replies'[e] = replies[e] + 1,
           UNCHANGED <<received, handled, faults>>
    PROVE  TurnsCounted'
<1> DEFINE forgotten == raises' = raises + 1
<1>1. /\ raises \in Nat /\ faults \in Nat /\ \A m \in Messages : replies[m] \in Nat
      /\ forgotten \/ raises' = raises
  BY DEF TypeOK
<1>2. \A x : Held(x)' <=> Held(x) \/ (x = e /\ ~forgotten)
  <2>1. CASE forgotten
    <3>1. unrecorded' = unrecorded
      BY <1>1, <2>1
    <3> QED
      BY <2>1, <3>1 DEF Held
  <2>2. CASE ~forgotten
    <3>1. unrecorded' = [unrecorded EXCEPT ![w] = @ \union {e}]
      BY <2>2
    <3> HIDE DEF forgotten
    <3> QED
      BY <2>2, <3>1 DEF Held, TypeOK
  <2> QED
    BY <2>1, <2>2
<1>3. /\ \A v \in Workers : job'[v] # Idle => ~Held(job'[v].event) /\ job'[v].event # e
      /\ \A u, v \in Workers : u # v /\ job'[u] # Idle /\ job'[v] # Idle
                                 => job'[u].event # job'[v].event
      /\ \A v \in Workers : job'[v] # Idle /\ job'[v].event \in Messages
                              => received[job'[v].event] = 1
  BY DEF TurnsCounted
<1>4. /\ \A m \in Bypass : replies'[m] = 0
      /\ \A m \in Messages \ Bypass : Held(m)' => replies'[m] >= 1
  BY <1>1, <1>2 DEF TurnsCounted
<1>5. ASSUME NEW m \in Messages
      PROVE  replies'[m] <= faults + raises' + (IF Held(m)' THEN 1 ELSE 0)
  <2>1. CASE m # e
    BY <1>1, <1>2, <2>1 DEF TurnsCounted
  <2>2. CASE m = e
    <3>1. replies[e] <= faults + raises /\ replies'[e] <= replies[e] + 1
      BY <1>1, <2>2 DEF TurnsCounted
    <3> QED
      BY <1>1, <1>2, <2>2, <3>1
  <2> QED
    BY <2>1, <2>2
<1>6. \A m \in Messages : Held(m)' => received[m] = 1
  BY <1>2 DEF TurnsCounted
<1> HIDE DEF forgotten
<1> QED
  BY <1>2, <1>3, <1>4, <1>5, <1>6 DEF TurnsCounted

\* A crash may forget what was handled, a batch is recorded: no turn begins or ends
\* with an answer.
LEMMA CountedWhenLost ==
    ASSUME TypeOK, TurnsCounted,
           \A w \in Workers : job'[w] \in {job[w], Idle},
           \A e : Held(e)' => Held(e),
           \/ faults' = faults /\ (\A e : Held(e) => Held(e)')
           \/ faults' = faults + 1,
           UNCHANGED <<received, replies, raises>>
    PROVE  TurnsCounted'
<1>1. raises \in Nat /\ faults \in Nat /\ \A m \in Messages : replies[m] \in Nat
  BY DEF TypeOK
<1>2. \A m \in Messages : replies[m] <= faults' + raises + (IF Held(m)' THEN 1 ELSE 0)
  BY <1>1 DEF TurnsCounted
<1> QED
  BY <1>2 DEF TurnsCounted

LEMMA HandlerCounts ==
    ASSUME TypeOK, TurnsCounted, NEW w \in Workers, HandlerStep(w)
    PROVE  TurnsCounted'
<1>1. ASSUME NEW m \in Messages, CoordinatorReads(w, m) PROVE TurnsCounted'
  <2>1. m \in Events /\ received[m] = 1 /\ Takes(w, m)
    BY <1>1 DEF CoordinatorReads, TurnsCounted, Events
  <2>2. (\A v \in Workers : v # w => job'[v] = job[v]) /\ job'[w].event = m
    BY <1>1 DEF CoordinatorReads, TypeOK
  <2> QED
    BY <1>1, <2>1, <2>2, CountedWhenTaken DEF CoordinatorReads
<1>2. ASSUME NEW l \in Leads, RecommendationReads(w, l) PROVE TurnsCounted'
  <2>1. l \in Events /\ l \notin Messages /\ Takes(w, l)
    BY <1>2 DEF RecommendationReads, Events
  <2>2. (\A v \in Workers : v # w => job'[v] = job[v]) /\ job'[w].event = l
    BY <1>2 DEF RecommendationReads, TypeOK
  <2> QED
    BY <1>2, <2>1, <2>2, CountedWhenTaken DEF RecommendationReads
<1>3. ASSUME NEW l \in Leads, RecommendationSkips(w, l) PROVE TurnsCounted'
  <2>1. /\ l \in Events /\ l \notin Messages /\ ~Held(l) /\ job[w] = Idle
        /\ \A v \in Workers : job[v] # Idle => job[v].event # l
    BY <1>3 DEF RecommendationSkips, Takes, Held, Events
  <2> QED
    BY <1>3, <2>1, CountedWhenDone DEF RecommendationSkips
<1>4. ASSUME job[w] # Idle, job' = [job EXCEPT ![w] = Idle],
             (HandlerReturns(w) /\ UNCHANGED raises) \/ MessageDone(w),
             UNCHANGED <<received, handled, faults>>,
             job[w].event \in Messages \ Bypass => Reply(w),
             job[w].event \notin Messages \ Bypass => UNCHANGED replies
      PROVE  TurnsCounted'
  <2> DEFINE e == job[w].event
  <2>1. /\ e \in Events /\ ~Held(e) /\ (e \in Messages => received[e] = 1)
        /\ \A v \in Workers : job[v] # Idle /\ job[v].event = e => v = w
    BY <1>4, TurnFields DEF TurnsCounted
  <2>2. /\ \A v \in Workers : v # w => job'[v] = job[v]
        /\ job'[w] = Idle
    BY <1>4 DEF TypeOK
  <2>3. /\ \A m \in Messages : m # e => replies'[m] = replies[m]
        /\ e \in Bypass => replies'[e] = replies[e]
        /\ e \in Messages \ Bypass => replies'[e] = replies[e] + 1
    BY <1>4 DEF Reply, TypeOK
  <2>4. \/ unrecorded' = [unrecorded EXCEPT ![w] = @ \union {e}] /\ raises' = raises
        \/ unrecorded' = unrecorded /\ raises' = raises + 1
    BY <1>4 DEF HandlerReturns, MessageDone
  <2> HIDE DEF e
  <2> QED
    BY <1>4, <2>1, <2>2, <2>3, <2>4, CountedWhenDone
<1>5. CASE TransferToHuman(w)
  BY <1>4, <1>5 DEF TransferToHuman, CommitTurn
<1>6. CASE FirstTurn(w)
  BY <1>4, <1>6 DEF FirstTurn, CommitTurn
<1>7. CASE LaterTurn(w)
  BY <1>4, <1>7 DEF LaterTurn, CommitTurn
<1>8. CASE RecommendationCommits(w)
  <2>1. job' = [job EXCEPT ![w] = Idle] /\ job[w] # Idle /\ job[w].event \notin Messages
    BY <1>8 DEF RecommendationCommits, CommitTurn
  <2> QED
    BY <1>4, <1>8, <2>1 DEF RecommendationCommits
<1>9. CASE TurnRaises(w)
  BY <1>9, CountedIsKept DEF TurnRaises, TypeOK
<1>10. CASE Acknowledge(w)
  <2>1. \A e : Held(e)' <=> Held(e)
    BY <1>10 DEF Acknowledge, Held, TypeOK
  <2> QED
    BY <1>10, <2>1, CountedWhenLost DEF Acknowledge
<1>11. CASE TurnSaves(w)
  BY <1>11, TurnFields, CountedIsKept DEF TurnSaves, TypeOK, Turns
<1> QED
  BY <1>1, <1>2, <1>3, <1>5, <1>6, <1>7, <1>8, <1>9, <1>10, <1>11 DEF HandlerStep

LEMMA CountedPreserved ==
    ASSUME TypeOK, TurnsCounted, [Next]_vars
    PROVE  TurnsCounted'
<1>1. CASE Tick
  BY <1>1, CountedIsKept DEF Tick
<1>2. ASSUME NEW m \in Messages, WebhookLinkRaises(m) PROVE TurnsCounted'
  BY <1>2, CountedIsKept DEF WebhookLinkRaises
<1>3. ASSUME NEW l \in Leads, MirrorLead(l) \/ CompleteProfile(l) PROVE TurnsCounted'
  BY <1>3, CountedIsKept DEF MirrorLead, CompleteProfile
<1>4. ASSUME NEW r \in Requests, RequestStep(r) PROVE TurnsCounted'
  <2>1. ASSUME \/ \E m \in Messages : WebhookReads(r, m)
               \/ WebhookSaves(r) \/ WebhookRollsBack(r)
        PROVE  TurnsCounted'
    BY <2>1, CountedIsKept DEF WebhookReads, WebhookSaves, WebhookRollsBack
  <2>2. CASE WebhookCommits(r)
    <3>1. PICK k : k = req[r].msg /\ received' = [received EXCEPT ![k] = @ + 1]
                   /\ ~(received[k] > 0)
      BY <2>2 DEF WebhookCommits, WebhookConflict
    <3>2. \A m \in Messages : received'[m] \in {received[m], 1}
      BY <3>1 DEF TypeOK
    <3> QED
      BY <2>2, <3>2, CountedIsKept DEF WebhookCommits
  <2> QED
    BY <1>4, <2>1, <2>2 DEF RequestStep
<1>5. ASSUME NEW w \in Workers, Crash(w) PROVE TurnsCounted'
  <2>1. \A e : Held(e)' => Held(e)
    BY <1>5 DEF Crash, Held, TypeOK
  <2>2. \A v \in Workers : job'[v] \in {job[v], Idle}
    BY <1>5 DEF Crash, TypeOK
  <2> QED
    BY <1>5, <2>1, <2>2, CountedWhenLost DEF Crash
<1>6. ASSUME NEW d \in Decayers, DecayStep(d) PROVE TurnsCounted'
  BY <1>6, CountedIsKept DEF DecayStep, DecayScans, DecaySaves, DecayCommits
<1>7. CASE UNCHANGED vars
  BY <1>7, CountedIsKept DEF vars
<1> QED
  BY <1>1, <1>2, <1>3, <1>4, <1>5, <1>6, <1>7, HandlerCounts DEF Next, DecayStep

\* However calls, turns, raising sidebar notes and crashes interleave: a message is
\* archived once, answered at most once more than there were crashes and raising
\* notes, and at least once if it is recorded as handled.
THEOREM OneTurnEach == Spec => []OneTurnPerMessage
<1>1. Init => TurnsCounted
  BY DEF Init, TurnsCounted, Held
<1>2. TypeOK /\ TurnsCounted => OneTurnPerMessage
  <2> SUFFICES ASSUME TypeOK, TurnsCounted, NEW m \in Messages
               PROVE  /\ received[m] <= 1
                      /\ replies[m] <= received[m] + faults + raises
                      /\ m \in Bypass => replies[m] = 0
                      /\ m \in handled \ Bypass => replies[m] >= 1
    BY DEF OneTurnPerMessage
  <2>1. /\ replies[m] \in Nat /\ faults \in Nat /\ raises \in Nat
        /\ received[m] \in {0, 1}
    BY DEF TypeOK, TurnsCounted
  <2>2. /\ replies[m] <= faults + raises + (IF Held(m) THEN 1 ELSE 0)
        /\ Held(m) => received[m] = 1
    BY DEF TurnsCounted
  <2>3. m \in Bypass => replies[m] = 0
    BY DEF TurnsCounted
  <2>4. m \in handled \ Bypass => replies[m] >= 1
    BY DEF TurnsCounted, Held
  <2> QED
    BY <2>1, <2>2, <2>3, <2>4
<1> QED
  BY <1>1, <1>2, CountedPreserved, TypeCorrect, PTL DEF Spec

-----------------------------------------------------------------------------
(* Copies, and what is written back from them                               *)

\* The rows that transactions about c carry: the copies, the rows their saves have
\* found, and the committed row.
Carried(c, row) ==
    \/ row \in {db[c], AbsentRow}
    \/ \E r \in Requests : /\ req[r] # Idle /\ ConvOf[req[r].msg] = c
                           /\ row \in {req[r].loaded, req[r].seen}
    \/ \E w \in Workers : /\ job[w] # Idle /\ job[w].conv = c
                          /\ row \in {job[w].loaded, job[w].seen}
    \/ \E d \in Decayers : /\ scan[d] # Idle
                           /\ row \in {scan[d].loaded[c], scan[d].seen[c]}

\* The leads a transaction about c knows of.
Named(c, l) ==
    /\ l # NoLead
    /\ \/ \E row : Carried(c, row) /\ row.lead = l
       \/ \E r \in Requests : req[r] # Idle /\ ConvOf[req[r].msg] = c /\ req[r].lead = l

\* What a transaction makes of its copy old of c: a touch, a decision about the owner,
\* a recommendation, a fall asleep.
Quiet(c) == decisions'[c] = decisions[c] /\ transfers'[c] = transfers[c]
Touching(c, old, new) ==
    /\ new.state = old.state /\ new.owner = old.owner
    /\ Quiet(c) /\ dormancies'[c] = dormancies[c]
Deciding(c, old, new) ==
    /\ \/ /\ old.state = "New" /\ old.owner # "human"
          /\ new.state = "Qualification" /\ new.owner = "ai"
       \/ /\ "AssignedHuman" \in AllowedFrom(old.state)
          /\ new.state = "AssignedHuman" /\ new.owner = "human"
    /\ decisions'[c] = Append(decisions[c], new.owner)
    /\ transfers'[c] = IF old.owner = new.owner THEN transfers[c]
                       ELSE Append(transfers[c], [from |-> old.owner, to |-> new.owner])
    /\ dormancies'[c] = dormancies[c]
Recommending(c, old, new) ==
    /\ old.state = "Qualification" /\ new.state = "Recommendation"
    /\ new.owner = old.owner
    /\ Quiet(c) /\ dormancies'[c] = dormancies[c]
Sleeping(c, old, new) ==
    /\ old.state \in ActiveStates /\ new.state = "Dormant" /\ new.owner = old.owner
    /\ Quiet(c) /\ dormancies'[c] = dormancies[c] + 1
Change(c, old, new) ==
    \/ Touching(c, old, new) \/ Deciding(c, old, new)
    \/ Recommending(c, old, new) \/ Sleeping(c, old, new)

\* A step does one of three things to a conversation.
Left(c) == db'[c] = db[c] /\ Quiet(c) /\ dormancies'[c] = dormancies[c]
Created(c) ==
    /\ db[c].state = "Absent" /\ db'[c].state = "New" /\ db'[c].owner = "unassigned"
    /\ db'[c].lead = NoLead \/ Named(c, db'[c].lead)
    /\ Quiet(c) /\ dormancies'[c] = dormancies[c]
    /\ \E old \in EndedWith(c) : old.state = "Absent"
WrittenBack(c) ==
    \E old, seen, new \in Rows :
        /\ old \in EndedWith(c) /\ Carried(c, old) /\ Carried(c, seen)
        /\ old.state # "Absent" /\ seen.state # "Absent"
        /\ db'[c] = Save(db[c], seen, new)
        /\ Overtaken(c, old, seen) => c \in overtaken'
        /\ new.lead = old.lead \/ (old.lead = NoLead /\ Named(c, new.lead))
        /\ Change(c, old, new)
RowsStep ==
    /\ \A c \in Convs : Left(c) \/ Created(c) \/ WrittenBack(c)
    /\ \A c \in Convs : \A row : Carried(c, row)' => Carried(c, row) \/ row = db'[c]
    /\ overtaken \subseteq overtaken'

\* A row is in a state the code enters.
Reached == {"New", "Qualification", "Recommendation", "AssignedHuman", "Dormant"}
RowShape(row) ==
    \/ row.state \in Reached
    \/ row.state = "Absent" /\ row.owner = "unassigned" /\ row.lead = NoLead

\* Whoever carries a row of a conversation carries a sound one, and rows stay.
RowsSound ==
    \A c \in Convs : \A row : Carried(c, row) =>
        RowShape(row) /\ (row.state # "Absent" => db[c].state # "Absent")

\* What was true of a copy when it was made: a call has kept the link it found, a turn
\* is about a row, a decay pass about live ones; and an archived message has a row.
CopiesMade ==
    /\ \A r \in Requests : req[r] # Idle /\ req[r].loaded.lead # NoLead
                            => req[r].lead = req[r].loaded.lead
    /\ \A w \in Workers : job[w] # Idle => job[w].loaded.state # "Absent"
    /\ \A d \in Decayers : scan[d] # Idle =>
          \A c \in About(d) : scan[d].loaded[c].state \in ActiveStates
    /\ \A m \in Messages : received[m] > 0 => db[ConvOf[m]].state # "Absent"

\* A transaction in progress goes on, ends, or starts with carried rows.
LEMMA CarriedIsKept ==
    ASSUME req' = req \/ \A r \in Requests : req'[r] # Idle =>
             /\ Carried(ConvOf[req'[r].msg], req'[r].loaded)
             /\ Carried(ConvOf[req'[r].msg], req'[r].seen),
           job' = job \/ \A w \in Workers : job'[w] # Idle =>
             Carried(job'[w].conv, job'[w].loaded) /\ Carried(job'[w].conv, job'[w].seen),
           scan' = scan \/ \A d \in Decayers : scan'[d] # Idle => \A c \in Convs :
             Carried(c, scan'[d].loaded[c]) /\ Carried(c, scan'[d].seen[c])
    PROVE  \A c \in Convs : \A row : Carried(c, row)' => Carried(c, row) \/ row = db'[c]
<1>1. SUFFICES ASSUME NEW c \in Convs, NEW row, Carried(c, row)'
               PROVE  Carried(c, row) \/ row = db'[c]
  OBVIOUS
<1>2. CASE row \in {db'[c], AbsentRow}
  BY <1>2 DEF Carried
<1>3. ASSUME NEW r \in Requests, req'[r] # Idle, ConvOf[req'[r].msg] = c,
             row \in {req'[r].loaded, req'[r].seen}
      PROVE  Carried(c, row)
  <2>1. CASE req' = req
    BY <1>3, <2>1 DEF Carried
  <2>2. CASE req' # req
    BY <1>3, <2>2
  <2> QED
    BY <2>1, <2>2
<1>4. ASSUME NEW w \in Workers, job'[w] # Idle, job'[w].conv = c,
             row \in {job'[w].loaded, job'[w].seen}
      PROVE  Carried(c, row)
  <2>1. CASE job' = job
    BY <1>4, <2>1 DEF Carried
  <2>2. CASE job' # job
    BY <1>4, <2>2
  <2> QED
    BY <2>1, <2>2
<1>5. ASSUME NEW d \in Decayers, scan'[d] # Idle,
             row \in {scan'[d].loaded[c], scan'[d].seen[c]}
      PROVE  Carried(c, row)
  <2>1. CASE scan' = scan
    BY <1>5, <2>1 DEF Carried
  <2>2. CASE scan' # scan
    BY <1>5, <2>2
  <2> QED
    BY <2>1, <2>2
<1> QED
  BY <1>1, <1>2, <1>3, <1>4, <1>5 DEF Carried

\* A step that commits nothing to the rows.
LEMMA RowsLeft ==
    ASSUME UNCHANGED <<db, overtaken, decisions, transfers, dormancies>>,
           req' = req \/ \A r \in Requests : req'[r] # Idle =>
             /\ Carried(ConvOf[req'[r].msg], req'[r].loaded)
             /\ Carried(ConvOf[req'[r].msg], req'[r].seen),
           job' = job \/ \A w \in Workers : job'[w] # Idle =>
             Carried(job'[w].conv, job'[w].loaded) /\ Carried(job'[w].conv, job'[w].seen),
           scan' = scan \/ \A d \in Decayers : scan'[d] # Idle => \A c \in Convs :
             Carried(c, scan'[d].loaded[c]) /\ Carried(c, scan'[d].seen[c])
    PROVE  RowsStep
<1>1. \A c \in Convs : \A row : Carried(c, row)' => Carried(c, row) \/ row = db'[c]
  BY CarriedIsKept
<1> QED
  BY <1>1 DEF RowsStep, Left, Quiet

\* A step that ends transactions and commits to one conversation.
LEMMA RowWritten ==
    ASSUME NEW c \in Convs, Created(c) \/ WrittenBack(c),
           \A b \in Convs : b # c => Left(b), overtaken \subseteq overtaken',
           \A r \in Requests : req'[r] \in {req[r], Idle},
           \A w \in Workers : job'[w] \in {job[w], Idle},
           scan' = scan
    PROVE  RowsStep
<1>1. \A r \in Requests : req'[r] # Idle =>
          /\ Carried(ConvOf[req'[r].msg], req'[r].loaded)
          /\ Carried(ConvOf[req'[r].msg], req'[r].seen)
  BY DEF Carried
<1>2. \A w \in Workers : job'[w] # Idle =>
          Carried(job'[w].conv, job'[w].loaded) /\ Carried(job'[w].conv, job'[w].seen)
  BY DEF Carried
<1>3. \A b \in Convs : \A row : Carried(b, row)' => Carried(b, row) \/ row = db'[b]
  BY <1>1, <1>2, CarriedIsKept
<1> QED
  BY <1>3 DEF RowsStep

LEMMA CallCarries ==
    ASSUME NEW r \in Requests, req[r] # Idle
    PROVE  /\ Carried(ConvOf[req[r].msg], req[r].loaded)
           /\ Carried(ConvOf[req[r].msg], req[r].seen)
BY DEF Carried

LEMMA TurnCarries ==
    ASSUME NEW w \in Workers, job[w] # Idle
    PROVE  Carried(job[w].conv, job[w].loaded) /\ Carried(job[w].conv, job[w].seen)
BY DEF Carried

LEMMA PassCarries ==
    ASSUME NEW d \in Decayers, scan[d] # Idle, NEW c \in Convs
    PROVE  Carried(c, scan[d].loaded[c]) /\ Carried(c, scan[d].seen[c])
BY DEF Carried

LEMMA AlwaysCarried ==
    ASSUME NEW c PROVE Carried(c, db[c]) /\ Carried(c, AbsentRow)
BY DEF Carried

LEMMA WebhookWrites ==
    ASSUME TypeOK, RowsSound, CopiesMade, NEW r \in Requests, RequestStep(r)
    PROVE  RowsStep
<1>1. ASSUME NEW m \in Messages, WebhookReads(r, m) PROVE RowsStep
  <2>1. /\ \A s \in Requests : s # r => req'[s] = req[s]
        /\ req'[r].msg = m /\ req'[r].loaded = db[ConvOf[m]] /\ req'[r].seen = AbsentRow
    BY <1>1 DEF WebhookReads, TypeOK
  <2>2. \A s \in Requests : req'[s] # Idle =>
            /\ Carried(ConvOf[req'[s].msg], req'[s].loaded)
            /\ Carried(ConvOf[req'[s].msg], req'[s].seen)
    BY <2>1, CallCarries, AlwaysCarried
  <2> QED
    BY <1>1, <2>2, RowsLeft DEF WebhookReads
<1>2. CASE WebhookSaves(r)
  <2>1. /\ \A s \in Requests : s # r => req'[s] = req[s]
        /\ req[r] # Idle /\ req'[r].msg = req[r].msg /\ req'[r].loaded = req[r].loaded
        /\ req'[r].seen = db[ConvOf[req[r].msg]]
    BY <1>2, CallFields DEF WebhookSaves, TypeOK, Calls
  <2>2. \A s \in Requests : req'[s] # Idle =>
            /\ Carried(ConvOf[req'[s].msg], req'[s].loaded)
            /\ Carried(ConvOf[req'[s].msg], req'[s].seen)
    BY <2>1, CallCarries, AlwaysCarried
  <2> QED
    BY <1>2, <2>2, RowsLeft DEF WebhookSaves
<1>3. CASE WebhookRollsBack(r)
  <2>1. \A s \in Requests : req'[s] \in {req[s], Idle}
    BY <1>3 DEF WebhookRollsBack, TypeOK
  <2>2. \A s \in Requests : req'[s] # Idle =>
            /\ Carried(ConvOf[req'[s].msg], req'[s].loaded)
            /\ Carried(ConvOf[req'[s].msg], req'[s].seen)
    BY <2>1, CallCarries
  <2> QED
    BY <1>3, <2>2, RowsLeft DEF WebhookRollsBack
<1>4. CASE WebhookCommits(r)
  <2> DEFINE m == req[r].msg
             c == ConvOf[m]
             old == req[r].loaded
             seen == req[r].seen
             touched == [old EXCEPT !.contact = sentAt[m], !.lead = req[r].lead]
             fresh == [state |-> "New", owner |-> "unassigned", contact |-> req[r].at,
                       lead |-> req[r].lead]
  <2>1. /\ m \in Messages /\ c \in Convs /\ old \in Rows /\ seen \in Rows
        /\ sentAt[m] \in Times /\ req[r] # Idle
        /\ req[r].lead \in Leads \union {NoLead}
    BY <1>4, CallFields DEF WebhookCommits, WebhookSaved, TypeOK
  <2>2. /\ \A s \in Requests : req'[s] \in {req[s], Idle}
        /\ req'[r] = Idle
    BY <1>4 DEF WebhookCommits, TypeOK
  <2>3. old \in EndedWith(c)
    BY <2>1, <2>2 DEF EndedWith
  <2>4. /\ \A b \in Convs : Quiet(b) /\ dormancies'[b] = dormancies[b]
        /\ UNCHANGED <<job, scan>>
    BY <1>4 DEF WebhookCommits, Quiet
  <2>5. req[r].lead = NoLead \/ Named(c, req[r].lead)
    BY <2>1 DEF Named
  <2>6. CASE old.state = "Absent"
    <3>1. db' = [db EXCEPT ![c] = fresh] /\ overtaken' = overtaken
      BY <1>4, <2>6 DEF WebhookCommits
    <3>2. db[c].state = "Absent"
      BY <1>4, <2>1, <2>6 DEF WebhookCommits, WebhookConflict
    <3>3. db'[c] = fresh /\ \A b \in Convs : b # c => db'[b] = db[b]
      BY <2>1, <3>1 DEF TypeOK
    <3>4. Created(c)
      BY <2>1, <2>3, <2>4, <2>5, <2>6, <3>2, <3>3 DEF Created
    <3>5. \A b \in Convs : b # c => Left(b)
      BY <2>4, <3>3 DEF Left
    <3> HIDE DEF c, fresh, old
    <3> QED
      BY <2>1, <2>2, <2>4, <3>1, <3>4, <3>5, RowWritten
  <2>7. CASE old.state # "Absent"
    <3>1. WriteBack(c, req[r], touched) /\ seen.state # "Absent"
      BY <1>4, <2>7 DEF WebhookCommits, WebhookSaved
    <3>2. /\ touched \in Rows /\ touched.state = old.state /\ touched.owner = old.owner
          /\ touched.lead = req[r].lead
      BY <2>1 DEF Rows
    <3>3. touched.lead = old.lead \/ (old.lead = NoLead /\ Named(c, touched.lead))
      BY <2>1, <2>5, <3>2 DEF CopiesMade
    <3>4. Change(c, old, touched)
      BY <2>1, <2>4, <3>2 DEF Change, Touching
    <3>5. Carried(c, old) /\ Carried(c, seen)
      BY <2>1, CallCarries
    <3> HIDE DEF c, touched, old, seen
    <3>6. /\ db'[c] = Save(db[c], seen, touched)
          /\ Overtaken(c, old, seen) => c \in overtaken'
          /\ \A b \in Convs : b # c => db'[b] = db[b]
          /\ overtaken \subseteq overtaken'
      BY <2>1, <3>1 DEF WriteBack, TypeOK, old, seen
    <3>7. WrittenBack(c)
      BY <2>1, <2>3, <2>7, <3>1, <3>2, <3>3, <3>4, <3>5, <3>6 DEF WrittenBack
    <3>8. \A b \in Convs : b # c => Left(b)
      BY <2>4, <3>6 DEF Left
    <3> QED
      BY <2>1, <2>2, <2>4, <3>6, <3>7, <3>8, RowWritten
  <2> QED
    BY <2>6, <2>7
<1> QED
  BY <1>1, <1>2, <1>3, <1>4 DEF RequestStep

\* A turn commits the row new, made of its copy.
LEMMA TurnWrites ==
    ASSUME TypeOK, CopiesMade, NEW w \in Workers, job[w] # Idle, NEW new \in Rows,
           CommitTurn(w, new), new.lead = job[w].loaded.lead,
           Change(job[w].conv, job[w].loaded, new),
           \A b \in Convs : b # job[w].conv => Quiet(b),
           UNCHANGED <<req, scan, dormancies>>
    PROVE  RowsStep
<1> DEFINE c == job[w].conv
           old == job[w].loaded
           seen == job[w].seen
<1>1. c \in Convs /\ old \in Rows /\ seen \in Rows
  BY TurnFields
<1>2. /\ \A v \in Workers : job'[v] \in {job[v], Idle}
      /\ job'[w] = Idle
  BY DEF CommitTurn, TypeOK
<1>3. old \in EndedWith(c)
  BY <1>2 DEF EndedWith
<1>4. WriteBack(c, job[w], new) /\ seen.state # "Absent" /\ old.state # "Absent"
  BY DEF CommitTurn, CopiesMade
<1>5. Carried(c, old) /\ Carried(c, seen)
  BY TurnCarries
<1>6. /\ new.lead = old.lead /\ Change(c, old, new)
      /\ \A b \in Convs : b # c => Quiet(b)
  OBVIOUS
<1> HIDE DEF c, old, seen
<1>7. /\ db'[c] = Save(db[c], seen, new)
      /\ Overtaken(c, old, seen) => c \in overtaken'
      /\ \A b \in Convs : b # c => db'[b] = db[b]
      /\ overtaken \subseteq overtaken'
  BY <1>1, <1>4 DEF WriteBack, TypeOK, old, seen
<1>8. WrittenBack(c)
  BY <1>1, <1>3, <1>4, <1>5, <1>6, <1>7 DEF WrittenBack
<1>9. \A b \in Convs : b # c => Left(b)
  BY <1>6, <1>7 DEF Left
<1> QED
  BY <1>1, <1>2, <1>7, <1>8, <1>9, RowWritten

\* AssignOwner tells of one conversation.
LEMMA AssignTells ==
    ASSUME TypeOK, NEW w \in Workers, job[w] # Idle, NEW owner, AssignOwner(w, owner)
    PROVE  LET c == job[w].conv
               old == job[w].loaded
           IN  /\ decisions'[c] = Append(decisions[c], owner)
               /\ transfers'[c] = IF old.owner = owner THEN transfers[c]
                                  ELSE Append(transfers[c], [from |-> old.owner, to |-> owner])
               /\ \A b \in Convs : b # c => Quiet(b)
<1> DEFINE c == job[w].conv
           from == job[w].loaded.owner
<1>1. c \in Convs
  BY TurnFields
<1>2. /\ decisions' = [decisions EXCEPT ![c] = Append(@, owner)]
      /\ transfers' = IF from = owner THEN transfers
                      ELSE [transfers EXCEPT ![c] = Append(@, [from |-> from, to |-> owner])]
  BY DEF AssignOwner
<1> HIDE DEF c, from
<1>3. /\ decisions'[c] = Append(decisions[c], owner)
      /\ transfers'[c] = IF from = owner THEN transfers[c]
                         ELSE Append(transfers[c], [from |-> from, to |-> owner])
      /\ \A b \in Convs : b # c => Quiet(b)
  BY <1>1, <1>2 DEF TypeOK, Quiet
<1> QED
  BY <1>3 DEF c, from

LEMMA HandlerWrites ==
    ASSUME TypeOK, RowsSound, CopiesMade, NEW w \in Workers, HandlerStep(w)
    PROVE  RowsStep
<1> DEFINE c == job[w].conv
           old == job[w].loaded
<1>1. ASSUME NEW m \in Messages, CoordinatorReads(w, m) PROVE RowsStep
  <2>1. /\ \A v \in Workers : v # w => job'[v] = job[v]
        /\ job'[w].conv = ConvOf[m] /\ job'[w].loaded = db[ConvOf[m]]
        /\ job'[w].seen = AbsentRow
    BY <1>1 DEF CoordinatorReads, TypeOK
  <2>2. \A v \in Workers : job'[v] # Idle =>
            Carried(job'[v].conv, job'[v].loaded) /\ Carried(job'[v].conv, job'[v].seen)
    BY <2>1, TurnCarries, AlwaysCarried
  <2> QED
    BY <1>1, <2>2, RowsLeft DEF CoordinatorReads
<1>2. ASSUME NEW l \in Leads, RecommendationReads(w, l) PROVE RowsStep
  <2>1. PICK b \in Convs : job' = [job EXCEPT ![w] =
           [event |-> l, conv |-> b, loaded |-> db[b], seen |-> AbsentRow, at |-> clock]]
    BY <1>2 DEF RecommendationReads
  <2>2. /\ \A v \in Workers : v # w => job'[v] = job[v]
        /\ job'[w].conv = b /\ job'[w].loaded = db[b] /\ job'[w].seen = AbsentRow
    BY <2>1 DEF TypeOK
  <2>3. \A v \in Workers : job'[v] # Idle =>
            Carried(job'[v].conv, job'[v].loaded) /\ Carried(job'[v].conv, job'[v].seen)
    BY <2>2, TurnCarries, AlwaysCarried
  <2> QED
    BY <1>2, <2>3, RowsLeft DEF RecommendationReads
<1>3. ASSUME \/ \E l \in Leads : RecommendationSkips(w, l)
             \/ Acknowledge(w)
      PROVE  RowsStep
  BY <1>3, RowsLeft DEF RecommendationSkips, Acknowledge
<1>4. CASE TurnRaises(w)
  <2>1. \A v \in Workers : job'[v] \in {job[v], Idle}
    BY <1>4 DEF TurnRaises, TypeOK
  <2>2. \A v \in Workers : job'[v] # Idle =>
            Carried(job'[v].conv, job'[v].loaded) /\ Carried(job'[v].conv, job'[v].seen)
    BY <2>1, TurnCarries
  <2> QED
    BY <1>4, <2>2, RowsLeft DEF TurnRaises
<1>5. CASE TurnSaves(w)
  <2>1. /\ \A v \in Workers : v # w => job'[v] = job[v]
        /\ job[w] # Idle /\ job'[w].conv = c /\ job'[w].loaded = old
        /\ job'[w].seen = db[c]
    BY <1>5, TurnFields DEF TurnSaves, TypeOK, Turns
  <2>2. \A v \in Workers : job'[v] # Idle =>
            Carried(job'[v].conv, job'[v].loaded) /\ Carried(job'[v].conv, job'[v].seen)
    BY <2>1, TurnCarries, AlwaysCarried
  <2> QED
    BY <1>5, <2>2, RowsLeft DEF TurnSaves
<1>6. CASE TransferToHuman(w)
  <2> DEFINE new == Assigned(old, "AssignedHuman", "human", job[w].at)
  <2>1. /\ job[w] # Idle /\ CommitTurn(w, new) /\ AssignOwner(w, "human")
        /\ UNCHANGED <<req, scan, dormancies>>
        /\ "AssignedHuman" \in AllowedFrom(old.state)
    BY <1>6 DEF TransferToHuman, CanTransition
  <2>2. "AssignedHuman" \in ConversationState /\ "human" \in OwnerType
    BY DEF ConversationState, OwnerType
  <2>3. /\ new \in Rows /\ new.state = "AssignedHuman" /\ new.owner = "human"
        /\ new.lead = old.lead
    BY <2>1, <2>2, TurnFields, AssignedRow
  <2> HIDE DEF new
  <2>4. Change(c, old, new) /\ \A b \in Convs : b # c => Quiet(b)
    BY <2>1, <2>3, AssignTells DEF Change, Deciding
  <2> QED
    BY <2>1, <2>3, <2>4, TurnWrites
<1>7. CASE FirstTurn(w)
  <2> DEFINE new == Assigned(old, "Qualification", "ai", job[w].at)
  <2>1. /\ job[w] # Idle /\ CommitTurn(w, new) /\ AssignOwner(w, "ai")
        /\ UNCHANGED <<req, scan, dormancies>>
        /\ old.state = "New" /\ old.owner # "human"
    BY <1>7 DEF FirstTurn, NeverHadHuman
  <2>2. "Qualification" \in ConversationState /\ "ai" \in OwnerType
    BY DEF ConversationState, OwnerType
  <2>3. /\ new \in Rows /\ new.state = "Qualification" /\ new.owner = "ai"
        /\ new.lead = old.lead
    BY <2>1, <2>2, TurnFields, AssignedRow
  <2> HIDE DEF new
  <2>4. Change(c, old, new) /\ \A b \in Convs : b # c => Quiet(b)
    BY <2>1, <2>3, AssignTells DEF Change, Deciding
  <2> QED
    BY <2>1, <2>3, <2>4, TurnWrites
<1>8. CASE LaterTurn(w)
  <2> DEFINE new == [old EXCEPT !.contact = job[w].at]
  <2>1. /\ job[w] # Idle /\ CommitTurn(w, new) /\ \A b : Quiet(b)
        /\ UNCHANGED <<req, scan, dormancies>>
    BY <1>8 DEF LaterTurn, Quiet
  <2>2. /\ new \in Rows /\ new.state = old.state /\ new.owner = old.owner
        /\ new.lead = old.lead
    BY <2>1, TurnFields, Touched
  <2> HIDE DEF new
  <2>3. Change(c, old, new)
    BY <2>1, <2>2 DEF Change, Touching
  <2> QED
    BY <2>1, <2>2, <2>3, TurnWrites
<1>9. CASE RecommendationCommits(w)
  <2>1. /\ job[w] # Idle /\ \A b : Quiet(b)
        /\ UNCHANGED <<req, scan, dormancies, decisions, transfers>>
    BY <1>9 DEF RecommendationCommits, Quiet
  <2>2. CASE old.state = "Qualification"
    <3> DEFINE new == [old EXCEPT !.state = "Recommendation"]
    <3>1. CommitTurn(w, new)
      BY <1>9, <2>2 DEF RecommendationCommits
    <3>2. /\ new \in Rows /\ new.state = "Recommendation" /\ new.owner = old.owner
          /\ new.lead = old.lead
      BY <2>1, TurnFields, Recommended
    <3> HIDE DEF new
    <3>3. Change(c, old, new)
      BY <2>1, <2>2, <3>2 DEF Change, Recommending
    <3> QED
      BY <2>1, <3>1, <3>2, <3>3, TurnWrites
  <2>3. CASE old.state # "Qualification"
    <3>1. job' = [job EXCEPT ![w] = Idle] /\ UNCHANGED <<db, overtaken>>
      BY <1>9, <2>3 DEF RecommendationCommits
    <3>2. \A v \in Workers : job'[v] \in {job[v], Idle}
      BY <3>1 DEF TypeOK
    <3>3. \A v \in Workers : job'[v] # Idle =>
              Carried(job'[v].conv, job'[v].loaded) /\ Carried(job'[v].conv, job'[v].seen)
      BY <3>2, TurnCarries
    <3> QED
      BY <2>1, <3>1, <3>3, RowsLeft
  <2> QED
    BY <2>2, <2>3
<1> QED
  BY <1>1, <1>2, <1>3, <1>4, <1>5, <1>6, <1>7, <1>8, <1>9 DEF HandlerStep

LEMMA DecayWrites ==
    ASSUME TypeOK, RowsSound, CopiesMade, NEW d \in Decayers, DecayStep(d)
    PROVE  RowsStep
<1>1. CASE DecayScans(d)
  <2>1. \A e \in Decayers : e # d => scan'[e] = scan[e]
    BY <1>1 DEF DecayScans, TypeOK
  <2>2. \A c \in Convs : scan'[d].loaded[c] \in {db[c], AbsentRow}
                        /\ scan'[d].seen[c] = AbsentRow
    BY <1>1 DEF DecayScans, TypeOK
  <2>3. \A e \in Decayers : scan'[e] # Idle => \A c \in Convs :
            Carried(c, scan'[e].loaded[c]) /\ Carried(c, scan'[e].seen[c])
    BY <2>1, <2>2, PassCarries, AlwaysCarried
  <2> QED
    BY <1>1, <2>3, RowsLeft DEF DecayScans
<1>2. ASSUME NEW b \in Convs, DecaySaves(d, b) PROVE RowsStep
  <2>1. \A e \in Decayers : e # d => scan'[e] = scan[e]
    BY <1>2 DEF DecaySaves, TypeOK
  <2>2. /\ scan[d] # Idle
        /\ \A c \in Convs : /\ scan'[d].loaded[c] = scan[d].loaded[c]
                            /\ scan'[d].seen[c] \in {scan[d].seen[c], db[c]}
    <3>1. scan[d] \in Passes /\ scan' = [scan EXCEPT ![d].seen[b] = db[b]]
      BY <1>2, PassFields DEF DecaySaves
    <3> QED
      BY <1>2, <3>1 DEF DecaySaves, Passes, TypeOK
  <2>3. \A e \in Decayers : scan'[e] # Idle => \A c \in Convs :
            Carried(c, scan'[e].loaded[c]) /\ Carried(c, scan'[e].seen[c])
    BY <2>1, <2>2, PassCarries, AlwaysCarried
  <2> QED
    BY <1>2, <2>3, RowsLeft DEF DecaySaves
<1>3. CASE DecayCommits(d)
  <2>1. \A e \in Decayers : scan'[e] \in {scan[e], Idle}
    BY <1>3 DEF DecayCommits, TypeOK
  <2>2. \A e \in Decayers : scan'[e] # Idle => \A c \in Convs :
            Carried(c, scan'[e].loaded[c]) /\ Carried(c, scan'[e].seen[c])
    BY <2>1, PassCarries
  <2>3. UNCHANGED <<req, job, decisions, transfers>> /\ overtaken \subseteq overtaken'
    BY <1>3 DEF DecayCommits
  <2>4. \A c \in Convs : \A row : Carried(c, row)' => Carried(c, row) \/ row = db'[c]
    BY <2>2, <2>3, CarriedIsKept
  <2>5. ASSUME NEW c \in Convs, c \notin About(d) PROVE Left(c)
    BY <1>3, <2>3, <2>5 DEF DecayCommits, Left, Quiet
  <2>6. ASSUME NEW c \in Convs, c \in About(d) PROVE WrittenBack(c)
    <3> DEFINE old == scan[d].loaded[c]
               seen == scan[d].seen[c]
               new == [old EXCEPT !.state = "Dormant"]
    <3>1. scan[d] # Idle /\ scan'[d] = Idle
      BY <1>3 DEF DecayCommits, TypeOK
    <3>2. old \in Rows /\ seen \in Rows /\ Carried(c, old) /\ Carried(c, seen)
      BY <3>1, PassFields, PassCarries
    <3>3. old \in EndedWith(c)
      BY <2>6, <3>1 DEF EndedWith
    <3>4. old.state # "Absent" /\ seen.state # "Absent" /\ old.state \in ActiveStates
      BY <1>3, <2>6, <3>1 DEF DecayCommits, About, CopiesMade
    <3>5. /\ new \in Rows /\ new.state = "Dormant" /\ new.owner = old.owner
          /\ new.lead = old.lead
      BY <3>2, FallenAsleep
    <3>6. /\ db'[c] = Save(db[c], seen, new)
          /\ dormancies'[c] = dormancies[c] + 1
      BY <1>3, <2>6 DEF DecayCommits
    <3>7. Overtaken(c, old, seen) => c \in overtaken'
      BY <1>3, <2>6 DEF DecayCommits
    <3> HIDE DEF old, seen, new
    <3>8. Change(c, old, new)
      BY <2>3, <3>4, <3>5, <3>6 DEF Change, Sleeping, Quiet
    <3> QED
      BY <3>2, <3>3, <3>4, <3>5, <3>6, <3>7, <3>8 DEF WrittenBack
  <2> QED
    BY <2>3, <2>4, <2>5, <2>6 DEF RowsStep
<1> QED
  BY <1>1, <1>2, <1>3 DEF DecayStep

LEMMA StepWrites ==
    ASSUME TypeOK, RowsSound, CopiesMade, [Next]_vars
    PROVE  RowsStep
<1>1. CASE Tick
  BY <1>1, RowsLeft DEF Tick
<1>2. ASSUME NEW m \in Messages, WebhookLinkRaises(m) PROVE RowsStep
  BY <1>2, RowsLeft DEF WebhookLinkRaises
<1>3. ASSUME NEW l \in Leads, MirrorLead(l) \/ CompleteProfile(l) PROVE RowsStep
  BY <1>3, RowsLeft DEF MirrorLead, CompleteProfile
<1>4. ASSUME NEW w \in Workers, Crash(w) PROVE RowsStep
  <2>1. \A v \in Workers : job'[v] \in {job[v], Idle}
    BY <1>4 DEF Crash, TypeOK
  <2>2. \A v \in Workers : job'[v] # Idle =>
            Carried(job'[v].conv, job'[v].loaded) /\ Carried(job'[v].conv, job'[v].seen)
    BY <2>1, TurnCarries
  <2> QED
    BY <1>4, <2>2, RowsLeft DEF Crash
<1>5. CASE UNCHANGED vars
  BY <1>5, RowsLeft DEF vars
<1> QED
  BY <1>1, <1>2, <1>3, <1>4, <1>5, WebhookWrites, HandlerWrites, DecayWrites
  DEF Next, DecayStep

-----------------------------------------------------------------------------
(* Rows are sound                                                           *)

\* What a row can become.
LEMMA RowsStay ==
    ASSUME TypeOK, RowsSound, RowsStep, NEW c \in Convs
    PROVE  RowShape(db'[c]) /\ (db[c].state # "Absent" => db'[c].state # "Absent")
<1>1. RowShape(db[c]) /\ db[c] \in Rows
  BY AlwaysCarried DEF RowsSound, TypeOK
<1>2. CASE Left(c)
  BY <1>1, <1>2 DEF Left
<1>3. CASE Created(c)
  BY <1>3 DEF Created, RowShape, Reached
<1>4. CASE WrittenBack(c)
  <2>1. PICK old, seen, new \in Rows :
           /\ Carried(c, old) /\ old.state # "Absent"
           /\ db'[c] = Save(db[c], seen, new) /\ Change(c, old, new)
    BY <1>4 DEF WrittenBack
  <2>2. old.state \in Reached /\ db[c].state \in Reached
    BY <1>1, <2>1 DEF RowsSound, RowShape
  <2>3. new.state \in Reached
    BY <2>1, <2>2 DEF Change, Touching, Deciding, Recommending, Sleeping, Reached
  <2>4. db'[c].state \in {db[c].state, new.state}
    BY <2>1 DEF Save
  <2> QED
    BY <2>2, <2>3, <2>4 DEF RowShape, Reached
<1> QED
  BY <1>2, <1>3, <1>4 DEF RowsStep

LEMMA SoundPreserved ==
    ASSUME TypeOK, RowsSound, RowsStep
    PROVE  RowsSound'
<1>1. SUFFICES ASSUME NEW c \in Convs, NEW row, Carried(c, row)'
               PROVE  RowShape(row) /\ (row.state # "Absent" => db'[c].state # "Absent")
  BY DEF RowsSound, RowShape, Reached
<1>2. CASE Carried(c, row)
  BY <1>2, RowsStay DEF RowsSound
<1>3. CASE row = db'[c]
  BY <1>3, RowsStay
<1> QED
  BY <1>1, <1>2, <1>3 DEF RowsStep

\* Copies are changed only when they are made.
LEMMA CopiesAreKept ==
    ASSUME TypeOK, RowsSound, CopiesMade, RowsStep,
           req' = req \/ \A r \in Requests : req'[r] # Idle =>
             \/ /\ req[r] # Idle /\ req'[r].lead = req[r].lead
                /\ req'[r].loaded = req[r].loaded
             \/ req'[r].loaded.lead # NoLead => req'[r].lead = req'[r].loaded.lead,
           job' = job \/ \A w \in Workers : job'[w] # Idle =>
             \/ job[w] # Idle /\ job'[w].loaded = job[w].loaded
             \/ job'[w].loaded.state # "Absent",
           scan' = scan \/ \A d \in Decayers : scan'[d] # Idle => \A c \in Convs :
             \/ scan[d] # Idle /\ scan'[d].loaded[c] = scan[d].loaded[c]
             \/ scan'[d].loaded[c].state \in ActiveStates \union {"Absent"},
           \A m \in Messages : received'[m] = received[m] \/ db'[ConvOf[m]].state # "Absent"
    PROVE  CopiesMade'
<1>1. \A r \in Requests : req'[r] # Idle /\ req'[r].loaded.lead # NoLead
                         => req'[r].lead = req'[r].loaded.lead
  BY DEF CopiesMade
<1>2. \A w \in Workers : job'[w] # Idle => job'[w].loaded.state # "Absent"
  BY DEF CopiesMade
<1>3. ASSUME NEW d \in Decayers, scan'[d] # Idle, NEW c \in About(d)'
      PROVE  scan'[d].loaded[c].state \in ActiveStates
  <2>1. c \in Convs /\ scan'[d].loaded[c].state # "Absent"
    BY <1>3 DEF About
  <2>2. scan[d] # Idle /\ scan'[d].loaded[c] = scan[d].loaded[c]
          => scan'[d].loaded[c].state \in ActiveStates
    BY <2>1 DEF CopiesMade, About
  <2>3. CASE scan' = scan
    BY <1>3, <2>2, <2>3
  <2>4. CASE scan' # scan
    BY <1>3, <2>1, <2>2, <2>4
  <2> QED
    BY <2>3, <2>4
<1>4. \A m \in Messages : received'[m] > 0 => db'[ConvOf[m]].state # "Absent"
  BY RowsStay DEF CopiesMade
<1> QED
  BY <1>1, <1>2, <1>3, <1>4 DEF CopiesMade

LEMMA CopiesPreserved ==
    ASSUME TypeOK, RowsSound, CopiesMade, RowsStep, [Next]_vars
    PROVE  CopiesMade'
<1>1. ASSUME NEW r \in Requests, NEW m \in Messages, WebhookReads(r, m) PROVE CopiesMade'
  <2>1. /\ \A s \in Requests : s # r => req'[s] = req[s]
        /\ req'[r].loaded = db[ConvOf[m]] /\ req'[r].lead = LinkedLead(ConvOf[m])
    BY <1>1 DEF WebhookReads, TypeOK
  <2>2. req'[r].loaded.lead # NoLead => req'[r].lead = req'[r].loaded.lead
    BY <2>1 DEF LinkedLead
  <2> QED
    BY <1>1, <2>1, <2>2, CopiesAreKept DEF WebhookReads
<1>2. ASSUME NEW r \in Requests, WebhookSaves(r) PROVE CopiesMade'
  <2>1. /\ \A s \in Requests : s # r => req'[s] = req[s]
        /\ req[r] # Idle /\ req'[r].lead = req[r].lead /\ req'[r].loaded = req[r].loaded
    BY <1>2, CallFields DEF WebhookSaves, TypeOK, Calls
  <2> QED
    BY <1>2, <2>1, CopiesAreKept DEF WebhookSaves
<1>3. ASSUME NEW r \in Requests, WebhookCommits(r) PROVE CopiesMade'
  <2> DEFINE m == req[r].msg
             c == ConvOf[m]
  <2>1. /\ m \in Messages /\ c \in Convs /\ req[r] # Idle
        /\ \A s \in Requests : req'[s] \in {req[s], Idle}
        /\ \A n \in Messages : n # m => received'[n] = received[n]
    BY <1>3, CallFields DEF WebhookCommits, WebhookSaved, TypeOK
  <2>2. db'[c].state # "Absent"
    <3>1. CASE req[r].loaded.state = "Absent"
      BY <1>3, <2>1, <3>1 DEF WebhookCommits, TypeOK
    <3>2. CASE req[r].loaded.state # "Absent"
      BY <2>1, <3>2, CallCarries, RowsStay DEF RowsSound
    <3> QED
      BY <3>1, <3>2
  <2>3. \A n \in Messages : received'[n] = received[n] \/ db'[ConvOf[n]].state # "Absent"
    BY <2>1, <2>2
  <2>4. UNCHANGED <<job, scan>>
    BY <1>3 DEF WebhookCommits
  <2> QED
    BY <2>1, <2>3, <2>4, CopiesAreKept
<1>4. ASSUME NEW r \in Requests, WebhookRollsBack(r) PROVE CopiesMade'
  BY <1>4, CopiesAreKept DEF WebhookRollsBack, TypeOK
<1>5. ASSUME NEW w \in Workers, NEW m \in Messages, CoordinatorReads(w, m)
      PROVE  CopiesMade'
  <2>1. /\ \A v \in Workers : v # w => job'[v] = job[v]
        /\ job'[w].loaded = db[ConvOf[m]] /\ db[ConvOf[m]].state # "Absent"
    BY <1>5 DEF CoordinatorReads, TypeOK, CopiesMade
  <2> QED
    BY <1>5, <2>1, CopiesAreKept DEF CoordinatorReads
<1>6. ASSUME NEW w \in Workers, NEW l \in Leads, RecommendationReads(w, l)
      PROVE  CopiesMade'
  <2>1. PICK c \in Convs :
           /\ db[c].lead = l
           /\ job' = [job EXCEPT ![w] = [event |-> l, conv |-> c, loaded |-> db[c],
                                         seen |-> AbsentRow, at |-> clock]]
    BY <1>6 DEF RecommendationReads
  <2>2. db[c].state # "Absent"
    <3>1. RowShape(db[c])
      BY AlwaysCarried DEF RowsSound
    <3> QED
      BY <2>1, <3>1 DEF RowShape, Reached
  <2>3. (\A v \in Workers : v # w => job'[v] = job[v]) /\ job'[w].loaded = db[c]
    BY <2>1 DEF TypeOK
  <2> QED
    BY <1>6, <2>2, <2>3, CopiesAreKept DEF RecommendationReads
<1>7. ASSUME NEW w \in Workers, TurnSaves(w) PROVE CopiesMade'
  <2>1. /\ \A v \in Workers : v # w => job'[v] = job[v]
        /\ job[w] # Idle /\ job'[w].loaded = job[w].loaded
    BY <1>7, TurnFields DEF TurnSaves, TypeOK, Turns
  <2> QED
    BY <1>7, <2>1, CopiesAreKept DEF TurnSaves
<1>8. ASSUME NEW w \in Workers,
             \/ TransferToHuman(w) \/ FirstTurn(w) \/ LaterTurn(w)
             \/ RecommendationCommits(w) \/ TurnRaises(w) \/ Acknowledge(w) \/ Crash(w)
             \/ \E l \in Leads : RecommendationSkips(w, l)
      PROVE  CopiesMade'
  <2>1. /\ job' = job \/ job' = [job EXCEPT ![w] = Idle]
        /\ UNCHANGED <<req, scan, received>>
    BY <1>8 DEF TransferToHuman, FirstTurn, LaterTurn, RecommendationCommits, CommitTurn,
                TurnRaises, Acknowledge, Crash, RecommendationSkips
  <2>2. \A v \in Workers : job'[v] \in {job[v], Idle}
    BY <2>1 DEF TypeOK
  <2> QED
    BY <2>1, <2>2, CopiesAreKept
<1>9. ASSUME NEW d \in Decayers, DecayScans(d) PROVE CopiesMade'
  <2>1. /\ \A e \in Decayers : e # d => scan'[e] = scan[e]
        /\ \A c \in Convs : scan'[d].loaded[c].state \in ActiveStates \union {"Absent"}
    BY <1>9 DEF DecayScans, TypeOK, Inactive, AbsentRow
  <2> QED
    BY <1>9, <2>1, CopiesAreKept DEF DecayScans
<1>10. ASSUME NEW d \in Decayers, NEW b \in Convs, DecaySaves(d, b) PROVE CopiesMade'
  <2>1. /\ \A e \in Decayers : e # d => scan'[e] = scan[e]
        /\ scan[d] # Idle /\ scan'[d].loaded = scan[d].loaded
    BY <1>10, PassFields DEF DecaySaves, TypeOK, Passes
  <2> QED
    BY <1>10, <2>1, CopiesAreKept DEF DecaySaves
<1>11. ASSUME NEW d \in Decayers, DecayCommits(d) PROVE CopiesMade'
  <2>1. \A e \in Decayers : scan'[e] \in {scan[e], Idle}
    BY <1>11 DEF DecayCommits, TypeOK
  <2> QED
    BY <1>11, <2>1, CopiesAreKept DEF DecayCommits
<1>12. CASE \/ Tick \/ UNCHANGED vars
            \/ \E m \in Messages : WebhookLinkRaises(m)
            \/ \E l \in Leads : MirrorLead(l) \/ CompleteProfile(l)
  <2>1. UNCHANGED <<req, job, scan, received>>
    BY <1>12 DEF Tick, WebhookLinkRaises, MirrorLead, CompleteProfile, vars
  <2> QED
    BY <2>1, CopiesAreKept
<1> QED
  BY <1>1, <1>2, <1>3, <1>4, <1>5, <1>6, <1>7, <1>8, <1>9, <1>10, <1>11, <1>12
  DEF Next, RequestStep, HandlerStep

LEMMA RowsAlways == Spec => [](TypeOK /\ RowsSound /\ CopiesMade)
<1>1. Init => RowsSound /\ CopiesMade
  <2>1. Init => \A c \in Convs : \A row : Carried(c, row) => row = AbsentRow
    BY DEF Init, Carried
  <2> QED
    BY <2>1 DEF Init, RowsSound, RowShape, CopiesMade, AbsentRow, About
<1>2. TypeOK /\ RowsSound /\ CopiesMade /\ [Next]_vars => RowsSound' /\ CopiesMade'
  BY StepWrites, SoundPreserved, CopiesPreserved
<1> QED
  BY <1>1, <1>2, TypeCorrect, PTL DEF Spec

-----------------------------------------------------------------------------
(* Every owner and every state was decided                                  *)

Deciders(c) == {decisions[c][i] : i \in DOMAIN decisions[c]}
Announced(c) == {transfers[c][i].to : i \in DOMAIN transfers[c]}
Accounted(c, row) ==
    /\ row.owner \in {"unassigned"} \union (Deciders(c) \intersect Announced(c))
    /\ row.state \in {"Qualification", "Recommendation"} => "ai" \in Deciders(c)
    /\ row.state = "AssignedHuman" => "human" \in Deciders(c)
    /\ row.state = "Dormant" => dormancies[c] > 0
RowsAccounted == \A c \in Convs : \A row : Carried(c, row) => Accounted(c, row)

\* Decisions and announcements are only ever added.
LEMMA AccountsGrow ==
    ASSUME TypeOK, TypeOK', NEW c \in Convs, NEW old \in Rows, NEW new \in Rows,
           Left(c) \/ Created(c) \/ Change(c, old, new)
    PROVE  /\ Deciders(c) \subseteq Deciders(c)' /\ Announced(c) \subseteq Announced(c)'
           /\ dormancies'[c] >= dormancies[c]
           /\ Deciding(c, old, new) =>
                /\ new.owner \in Deciders(c)'
                /\ old.owner = new.owner \/ new.owner \in Announced(c)'
<1> DEFINE Moves == [from : OwnerType, to : OwnerType]
           move == [from |-> old.owner, to |-> new.owner]
<1>1. /\ decisions[c] \in Seq(OwnerType) /\ transfers[c] \in Seq(Moves)
      /\ dormancies[c] \in Nat
  BY DEF TypeOK
<1>2. new.owner \in OwnerType /\ move \in Moves /\ move.to = new.owner
  BY DEF Rows
<1>3. CASE Quiet(c)
  <2>1. Deciders(c)' = Deciders(c) /\ Announced(c)' = Announced(c)
    BY <1>3 DEF Quiet, Deciders, Announced
  <2>2. dormancies'[c] \in {dormancies[c], dormancies[c] + 1}
    BY <1>3 DEF Change, Touching, Deciding, Recommending, Sleeping, Left, Created
  <2>3. ~Deciding(c, old, new)
    <3>1. ASSUME Deciding(c, old, new) PROVE FALSE
      <4>1. decisions[c] = Append(decisions[c], new.owner)
        BY <1>3, <3>1 DEF Deciding, Quiet
      <4>2. Len(decisions[c]) = Len(decisions[c]) + 1 /\ Len(decisions[c]) \in Nat
        BY <1>1, <1>2, <4>1
      <4> QED
        BY <4>2
    <3> QED
      BY <3>1
  <2> QED
    BY <1>1, <2>1, <2>2, <2>3
<1>4. CASE Deciding(c, old, new)
  <2>1. /\ decisions'[c] = Append(decisions[c], new.owner)
        /\ transfers'[c] = IF old.owner = new.owner THEN transfers[c]
                           ELSE Append(transfers[c], move)
        /\ dormancies'[c] = dormancies[c]
    BY <1>4 DEF Deciding
  <2> HIDE DEF Moves, move
  <2>2. Deciders(c) \subseteq Deciders(c)' /\ new.owner \in Deciders(c)'
    <3>1. PICK s, t, x : s = decisions[c] /\ t = decisions'[c] /\ x = new.owner
      OBVIOUS
    <3>2. s \in Seq(OwnerType) /\ x \in OwnerType /\ t = Append(s, x)
      BY <1>1, <1>2, <2>1, <3>1
    <3>3. \A i \in DOMAIN s : i \in DOMAIN t /\ t[i] = s[i]
      BY <3>2
    <3>4. \E i \in DOMAIN t : t[i] = x
      <4>1. Len(t) \in DOMAIN t /\ t[Len(t)] = x
        BY <3>2
      <4> QED
        BY <4>1
    <3> QED
      BY <3>1, <3>3, <3>4 DEF Deciders
  <2>3. CASE old.owner = new.owner
    BY <1>1, <2>1, <2>2, <2>3 DEF Announced
  <2>4. CASE old.owner # new.owner
    <3>1. PICK s, t, x : s = transfers[c] /\ t = transfers'[c] /\ x = move
      OBVIOUS
    <3>2. s \in Seq(Moves) /\ x \in Moves /\ t = Append(s, x)
      BY <1>1, <1>2, <2>1, <2>4, <3>1
    <3>3. \A i \in DOMAIN s : i \in DOMAIN t /\ t[i] = s[i]
      BY <3>2
    <3>4. \E i \in DOMAIN t : t[i] = x
      <4>1. Len(t) \in DOMAIN t /\ t[Len(t)] = x
        BY <3>2
      <4> QED
        BY <4>1
    <3>5. Announced(c) \subseteq Announced(c)'
      BY <3>1, <3>3 DEF Announced
    <3>6. new.owner \in Announced(c)'
      BY <1>2, <3>1, <3>4 DEF Announced
    <3> QED
      BY <1>1, <2>1, <2>2, <3>5, <3>6
  <2> QED
    BY <2>3, <2>4
<1> QED
  BY <1>3, <1>4 DEF Change, Touching, Recommending, Sleeping, Left, Created

LEMMA AccountedPreserved ==
    ASSUME TypeOK, TypeOK', RowsSound, RowsAccounted, RowsStep
    PROVE  RowsAccounted'
<1>1. SUFFICES ASSUME NEW c \in Convs, NEW after, after = db'[c]
               PROVE  /\ Accounted(c, after)'
                      /\ \A row : Accounted(c, row) => Accounted(c, row)'
  BY DEF RowsStep, RowsAccounted
<1>2. ASSUME Deciders(c) \subseteq Deciders(c)', Announced(c) \subseteq Announced(c)',
             dormancies'[c] >= dormancies[c]
      PROVE  \A row : Accounted(c, row) => Accounted(c, row)'
  <2>1. dormancies[c] \in Nat /\ dormancies'[c] \in Nat
    BY DEF TypeOK
  <2> QED
    BY <1>2, <2>1 DEF Accounted
<1>3. Accounted(c, db[c]) /\ db[c] \in Rows
  BY AlwaysCarried DEF RowsAccounted, TypeOK
<1>4. CASE Left(c)
  <2>1. after = db[c]
    BY <1>1, <1>4 DEF Left
  <2>2. \A row : Accounted(c, row) => Accounted(c, row)'
    BY <1>2, <1>3, <1>4, AccountsGrow
  <2> QED
    BY <1>3, <2>1, <2>2
<1>5. CASE Created(c)
  <2>1. Accounted(c, after)'
    BY <1>1, <1>5 DEF Created, Accounted
  <2> QED
    BY <1>2, <1>3, <1>5, <2>1, AccountsGrow
<1>6. CASE WrittenBack(c)
  <2>1. PICK old, seen, new \in Rows :
           /\ Carried(c, old) /\ db'[c] = Save(db[c], seen, new) /\ Change(c, old, new)
    BY <1>6 DEF WrittenBack
  <2>2. /\ Deciders(c) \subseteq Deciders(c)' /\ Announced(c) \subseteq Announced(c)'
        /\ dormancies'[c] >= dormancies[c]
        /\ Deciding(c, old, new) =>
             /\ new.owner \in Deciders(c)'
             /\ old.owner = new.owner \/ new.owner \in Announced(c)'
    BY <2>1, AccountsGrow
  <2>3. \A row : Accounted(c, row) => Accounted(c, row)'
    BY <1>2, <2>2
  <2>4. Accounted(c, old)' /\ Accounted(c, old) /\ \A row : row = db[c] => Accounted(c, row)'
    BY <1>3, <2>1, <2>3 DEF RowsAccounted
  <2>5. Accounted(c, new)'
    <3>1. CASE Touching(c, old, new)
      BY <2>4, <3>1 DEF Touching, Accounted
    <3>2. CASE Deciding(c, old, new)
      <4>1. new.owner \in Announced(c)'
        BY <2>2, <2>4, <3>2 DEF Accounted, Deciding
      <4> QED
        BY <2>2, <3>2, <4>1 DEF Deciding, Accounted
    <3>3. CASE Recommending(c, old, new)
      BY <2>4, <3>3 DEF Recommending, Accounted
    <3>4. CASE Sleeping(c, old, new)
      <4>1. dormancies'[c] = dormancies[c] + 1 /\ dormancies[c] \in Nat
        BY <3>4 DEF Sleeping, TypeOK
      <4> QED
        BY <2>4, <3>4, <4>1 DEF Sleeping, Accounted
    <3> QED
      BY <2>1, <3>1, <3>2, <3>3, <3>4 DEF Change
  <2>6. /\ db'[c].owner \in {db[c].owner, new.owner}
        /\ db'[c].state \in {db[c].state, new.state}
    BY <2>1 DEF Save
  <2>7. Accounted(c, after)'
    <3>1. PICK before : before = db[c] /\ Accounted(c, before)'
      BY <2>4
    <3>2. after.owner \in {before.owner, new.owner} /\ after.state \in {before.state, new.state}
      BY <1>1, <2>6, <3>1
    <3> QED
      BY <2>5, <3>1, <3>2 DEF Accounted
  <2> QED
    BY <2>3, <2>7
<1> QED
  BY <1>4, <1>5, <1>6 DEF RowsStep

\* However old the copies are that rows are put back from: no row ever names an owner
\* or is in a state that no recorded decision, transfer or dormancy event has brought
\* about.
THEOREM OwnersAreDecided == Spec => []OwnersWereDecided
<1>1. Init => RowsAccounted
  <2>1. Init => \A c \in Convs : \A row : Carried(c, row) => row = AbsentRow
    BY DEF Init, Carried
  <2> QED
    BY <2>1 DEF RowsAccounted, Accounted, AbsentRow
<1>2. TypeOK /\ TypeOK' /\ RowsSound /\ CopiesMade /\ RowsAccounted /\ [Next]_vars
        => RowsAccounted'
  BY StepWrites, AccountedPreserved
<1>3. RowsAccounted => OwnersWereDecided
  BY AlwaysCarried DEF RowsAccounted, Accounted, Deciders, Announced, OwnersWereDecided
<1> QED
  BY <1>1, <1>2, <1>3, RowsAlways, PTL DEF Spec

-----------------------------------------------------------------------------
(* Hand-offs and moves                                                      *)

\* A conversation is taken from the human it was handed to only by a transaction
\* that had loaded it before: any turn, redelivered or late, any recommendation and
\* any decay pass that knows of the human leaves it with the human.
THEOREM HandoffStands == Spec => HandoffIsFinal
<1>1. ASSUME TypeOK, RowsSound, RowsStep, NEW c \in Convs,
             db[c].owner = "human", db'[c].owner # "human"
      PROVE  \E old \in EndedWith(c) : old.owner # "human"
  <2>1. ~Left(c)
    BY <1>1 DEF Left
  <2>2. ~Created(c)
    <3>1. RowShape(db[c])
      BY <1>1, AlwaysCarried DEF RowsSound
    <3> QED
      BY <1>1, <3>1 DEF Created, RowShape, Reached
  <2>3. PICK old, seen, new \in Rows :
           old \in EndedWith(c) /\ db'[c] = Save(db[c], seen, new) /\ Change(c, old, new)
    BY <1>1, <2>1, <2>2 DEF RowsStep, WrittenBack
  <2>4. new.owner # "human"
    BY <1>1, <2>3 DEF Save
  <2>5. old.owner # "human"
    BY <2>3, <2>4 DEF Change, Touching, Deciding, Recommending, Sleeping
  <2> QED
    BY <2>3, <2>5
<1>2. TypeOK /\ RowsSound /\ CopiesMade /\ [Next]_vars
        => [\A c \in Convs : db[c].owner = "human" /\ db'[c].owner # "human" =>
              \E old \in EndedWith(c) : old.owner # "human"]_vars
  BY <1>1, StepWrites
<1> QED
  BY <1>2, RowsAlways, PTL DEF Spec, HandoffIsFinal

\* A state changes only along the table, taken from the state the transaction had
\* loaded, or back to that state.
THEOREM MovesStayLawful == Spec => MovesAreLawful
<1>1. ASSUME TypeOK, RowsStep, NEW c \in Convs, db'[c].state # db[c].state
      PROVE  \E old \in EndedWith(c) : db'[c].state = old.state
                                      \/ Lawful(old.state, db'[c].state)
  <2>1. CASE Created(c)
    BY <2>1 DEF Created, Lawful
  <2>2. CASE ~Created(c)
    <3>1. PICK old, seen, new \in Rows :
             old \in EndedWith(c) /\ db'[c] = Save(db[c], seen, new) /\ Change(c, old, new)
      BY <1>1, <2>2 DEF RowsStep, WrittenBack, Left
    <3>2. db'[c].state = new.state
      BY <1>1, <3>1 DEF Save
    <3>3. new.state = old.state \/ Lawful(old.state, new.state)
      BY <3>1 DEF Change, Touching, Deciding, Recommending, Sleeping, Lawful, AllowedFrom
    <3> QED
      BY <3>1, <3>2, <3>3
  <2> QED
    BY <2>1, <2>2
<1>2. TypeOK /\ RowsSound /\ CopiesMade /\ [Next]_vars
        => [\A c \in Convs : db'[c].state # db[c].state =>
              \E old \in EndedWith(c) : db'[c].state = old.state
                                       \/ Lawful(old.state, db'[c].state)]_vars
  BY <1>1, StepWrites
<1> QED
  BY <1>2, RowsAlways, PTL DEF Spec, MovesAreLawful

-----------------------------------------------------------------------------
(* Links                                                                    *)

\* Whatever names a lead for a conversation names the same one, and it matches.
LinksAgree ==
    \A c \in Convs :
        /\ \A l : Named(c, l) => l \in Matches(c)
        /\ \A k, l : Named(c, k) /\ Named(c, l) => k = l

\* A lead found is the only one that matches.
LEMMA FoundIsOnly ==
    ASSUME TypeOK, NEW c \in Convs, ~LinkRaises(c), db[c].lead = NoLead,
           LinkedLead(c) # NoLead, NEW l \in Matches(c)
    PROVE  l = LinkedLead(c)
<1>1. IsFiniteSet(Matches(c)) /\ Cardinality(Matches(c)) <= 1
  <2>1. Matches(c) \subseteq Leads
    BY DEF TypeOK, Matches
  <2>2. IsFiniteSet(Matches(c)) /\ Cardinality(Matches(c)) \in Nat
    BY <2>1, FS_Subset, FS_CardinalityType
  <2> QED
    BY <2>2 DEF LinkRaises
<1>2. LinkedLead(c) \in Matches(c)
  BY DEF LinkedLead
<1>3. SUFFICES ASSUME l # LinkedLead(c) PROVE FALSE
  OBVIOUS
<1> DEFINE others == Matches(c) \ {LinkedLead(c)}
<1>4. IsFiniteSet(others) /\ Cardinality(others) = Cardinality(Matches(c)) - 1
  BY <1>1, <1>2, FS_RemoveElement
<1>5. Cardinality(Matches(c)) \in Nat /\ Cardinality(others) \in Nat
  BY <1>1, <1>4, FS_CardinalityType
<1>6. others = {}
  <2>1. Cardinality(others) = 0
    BY <1>1, <1>4, <1>5
  <2> QED
    BY <1>4, <2>1, FS_EmptySet
<1> QED
  BY <1>3, <1>6

\* The lead a row is committed with was known before.
LEMMA LeadWasNamed ==
    ASSUME RowsStep, NEW c \in Convs, db'[c].lead # NoLead
    PROVE  Named(c, db'[c].lead)
<1>1. db[c].lead # NoLead => Named(c, db[c].lead)
  BY AlwaysCarried DEF Named
<1>2. CASE Left(c)
  BY <1>1, <1>2 DEF Left
<1>3. CASE Created(c)
  BY <1>3 DEF Created
<1>4. CASE WrittenBack(c)
  <2>1. PICK old, seen, new \in Rows :
           /\ Carried(c, old) /\ db'[c] = Save(db[c], seen, new)
           /\ new.lead = old.lead \/ (old.lead = NoLead /\ Named(c, new.lead))
    BY <1>4 DEF WrittenBack
  <2>2. new.lead # NoLead => Named(c, new.lead)
    BY <2>1 DEF Named
  <2>3. db'[c].lead \in {db[c].lead, new.lead}
    BY <2>1 DEF Save
  <2> QED
    BY <1>1, <2>2, <2>3
<1> QED
  BY <1>2, <1>3, <1>4 DEF RowsStep

\* A step in which no call looks for a lead.
LEMMA LinksAreKept ==
    ASSUME LinksAgree, RowsStep, mirrored \subseteq mirrored',
           req' = req \/ \A r \in Requests : req'[r] # Idle =>
             req[r] # Idle /\ req'[r].msg = req[r].msg /\ req'[r].lead = req[r].lead
    PROVE  LinksAgree'
<1>1. \A c \in Convs : Matches(c) \subseteq Matches(c)'
  BY DEF Matches
<1>2. ASSUME NEW c \in Convs, NEW l, Named(c, l)' PROVE Named(c, l)
  <2>1. l # NoLead
    BY <1>2 DEF Named
  <2>2. ASSUME NEW row, Carried(c, row)', row.lead = l PROVE Named(c, l)
    <3>1. CASE Carried(c, row)
      BY <2>1, <2>2, <3>1 DEF Named
    <3>2. CASE row = db'[c]
      BY <2>1, <2>2, <3>2, LeadWasNamed
    <3> QED
      BY <2>2, <3>1, <3>2 DEF RowsStep
  <2>3. ASSUME NEW r \in Requests, req'[r] # Idle, ConvOf[req'[r].msg] = c, req'[r].lead = l
        PROVE  Named(c, l)
    <3>1. req[r] # Idle /\ ConvOf[req[r].msg] = c /\ req[r].lead = l
      BY <2>3
    <3> QED
      BY <2>1, <3>1 DEF Named
  <2> QED
    BY <1>2, <2>2, <2>3 DEF Named
<1> QED
  BY <1>1, <1>2 DEF LinksAgree

LEMMA LinksPreserved ==
    ASSUME TypeOK, LinksAgree, RowsStep, [Next]_vars
    PROVE  LinksAgree'
<1>1. ASSUME NEW r \in Requests, NEW m \in Messages, WebhookReads(r, m) PROVE LinksAgree'
  <2> DEFINE c == ConvOf[m]
             l == LinkedLead(c)
  <2>1. /\ c \in Convs
        /\ \A s \in Requests : s # r => req'[s] = req[s]
        /\ req'[r].msg = m /\ req'[r].lead = l
        /\ UNCHANGED <<db, mirrored>>
    BY <1>1 DEF WebhookReads, TypeOK
  <2>2. ~LinkRaises(c)
    BY <1>1 DEF WebhookReads
  <2>3. db[c].lead # NoLead => l = db[c].lead /\ Named(c, l)
    BY AlwaysCarried DEF LinkedLead, Named
  <2>4. db[c].lead = NoLead /\ l # NoLead => l \in Matches(c)
    BY DEF LinkedLead
  <2>5. l # NoLead => l \in Matches(c) /\ \A k : Named(c, k) => k = l
    <3>1. ASSUME db[c].lead = NoLead, l # NoLead, NEW k, Named(c, k) PROVE k = l
      <4>1. k \in Matches(c)
        BY <2>1, <3>1 DEF LinksAgree
      <4> QED
        BY <2>1, <2>2, <3>1, <4>1, FoundIsOnly
    <3>2. ASSUME db[c].lead # NoLead, NEW k, Named(c, k) PROVE k = l
      BY <2>1, <2>3, <3>2 DEF LinksAgree
    <3>3. l # NoLead => l \in Matches(c)
      BY <2>1, <2>3, <2>4 DEF LinksAgree
    <3> QED
      BY <3>1, <3>2, <3>3
  <2> HIDE DEF c, l
  <2>6. ASSUME NEW b \in Convs, NEW k, Named(b, k)'
        PROVE  Named(b, k) \/ (b = c /\ k = l /\ l # NoLead)
    <3>1. k # NoLead
      BY <2>6 DEF Named
    <3>2. ASSUME NEW row, Carried(b, row)', row.lead = k PROVE Named(b, k)
      <4>1. Carried(b, row)
        BY <2>1, <3>2, AlwaysCarried DEF RowsStep
      <4> QED
        BY <3>1, <3>2, <4>1 DEF Named
    <3>3. ASSUME NEW s \in Requests, req'[s] # Idle, ConvOf[req'[s].msg] = b, req'[s].lead = k
          PROVE  Named(b, k) \/ (b = c /\ k = l)
      <4>1. CASE s = r
        BY <2>1, <3>3, <4>1 DEF c
      <4>2. CASE s # r
        BY <2>1, <3>1, <3>3, <4>2 DEF Named
      <4> QED
        BY <4>1, <4>2
    <3> QED
      BY <2>6, <3>1, <3>2, <3>3 DEF Named
  <2>7. \A b \in Convs : Matches(b)' = Matches(b)
    BY <2>1 DEF Matches
  <2> QED
    BY <2>1, <2>5, <2>6, <2>7 DEF LinksAgree
<1>2. ASSUME NEW r \in Requests, WebhookSaves(r) PROVE LinksAgree'
  <2>1. /\ \A s \in Requests : s # r => req'[s] = req[s]
        /\ req[r] # Idle /\ req'[r].lead = req[r].lead /\ req'[r].msg = req[r].msg
        /\ mirrored' = mirrored
    BY <1>2, CallFields DEF WebhookSaves, TypeOK, Calls
  <2> QED
    BY <2>1, LinksAreKept
<1>3. ASSUME NEW r \in Requests, WebhookCommits(r) \/ WebhookRollsBack(r) PROVE LinksAgree'
  <2>1. req' = [req EXCEPT ![r] = Idle] /\ mirrored' = mirrored
    BY <1>3 DEF WebhookCommits, WebhookRollsBack
  <2>2. \A s \in Requests : req'[s] \in {req[s], Idle}
    BY <2>1 DEF TypeOK
  <2> QED
    BY <2>1, <2>2, LinksAreKept
<1>4. CASE \/ Tick \/ UNCHANGED vars
           \/ \E m \in Messages : WebhookLinkRaises(m)
           \/ \E l \in Leads : MirrorLead(l) \/ CompleteProfile(l)
           \/ \E w \in Workers : Crash(w)
           \/ \E d \in Decayers : DecayStep(d)
  <2>1. req' = req /\ mirrored \subseteq mirrored'
    BY <1>4 DEF Tick, WebhookLinkRaises, MirrorLead, CompleteProfile, vars, Crash,
                DecayStep, DecayScans, DecaySaves, DecayCommits
  <2> QED
    BY <2>1, LinksAreKept
<1>5. ASSUME NEW w \in Workers, HandlerStep(w) PROVE LinksAgree'
  <2>1. req' = req /\ mirrored' = mirrored
    BY <1>5 DEF HandlerStep, CoordinatorReads, RecommendationReads, RecommendationSkips,
                TurnSaves, TurnRaises, TransferToHuman, FirstTurn, LaterTurn,
                RecommendationCommits, Acknowledge
  <2> QED
    BY <2>1, LinksAreKept
<1> QED
  BY <1>1, <1>2, <1>3, <1>4, <1>5 DEF Next, RequestStep, DecayStep

\* However many calls that looked for a lead and copies made before are in flight: a
\* conversation is never moved to another lead, and loses its link only to a
\* transaction that had loaded it unlinked.
THEOREM LinksAreStable == Spec => LinkIsStable
<1>1. ASSUME LinksAgree, RowsSound, RowsStep, NEW c \in Convs, db[c].lead # NoLead
      PROVE  \/ db'[c].lead = db[c].lead
             \/ db'[c].lead = NoLead /\ \E old \in EndedWith(c) : old.lead = NoLead
  <2>1. Named(c, db[c].lead)
    BY <1>1, AlwaysCarried DEF Named
  <2>2. CASE Left(c)
    BY <2>2 DEF Left
  <2>3. ~Created(c)
    <3>1. RowShape(db[c])
      BY <1>1, AlwaysCarried DEF RowsSound
    <3> QED
      BY <1>1, <3>1 DEF Created, RowShape, Reached
  <2>4. CASE WrittenBack(c) /\ db'[c].lead # db[c].lead
    <3>1. PICK old, seen, new \in Rows :
             /\ old \in EndedWith(c) /\ db'[c] = Save(db[c], seen, new)
             /\ new.lead = old.lead \/ (old.lead = NoLead /\ Named(c, new.lead))
      BY <2>4 DEF WrittenBack
    <3>2. db'[c].lead = NoLead
      BY <1>1, <2>1, <2>4, LeadWasNamed DEF LinksAgree
    <3>3. new.lead = NoLead
      BY <2>4, <3>1, <3>2 DEF Save
    <3>4. old.lead = NoLead
      BY <3>1, <3>3
    <3> QED
      BY <3>1, <3>2, <3>4
  <2> QED
    BY <1>1, <2>2, <2>3, <2>4 DEF RowsStep
<1>2. Init => LinksAgree
  <2>1. Init => \A c \in Convs : \A row : Carried(c, row) => row = AbsentRow
    BY DEF Init, Carried
  <2> QED
    BY <2>1 DEF Init, LinksAgree, Named, AbsentRow
<1>3. TypeOK /\ RowsSound /\ CopiesMade /\ LinksAgree /\ [Next]_vars => LinksAgree'
  BY StepWrites, LinksPreserved
<1>4. TypeOK /\ RowsSound /\ CopiesMade /\ LinksAgree /\ [Next]_vars
        => [\A c \in Convs : db[c].lead # NoLead =>
              \/ db'[c].lead = db[c].lead
              \/ db'[c].lead = NoLead /\ \E old \in EndedWith(c) : old.lead = NoLead]_vars
  BY <1>1, StepWrites
<1> QED
  BY <1>2, <1>3, <1>4, RowsAlways, PTL DEF Spec, LinkIsStable

-----------------------------------------------------------------------------
(* Owners, until a row is overtaken                                         *)

OwnerFits(row) ==
    /\ row.state \in {"Absent", "New"} => row.owner = "unassigned"
    /\ row.state \in {"Qualification", "Recommendation"} => row.owner = "ai"
    /\ row.state = "AssignedHuman" => row.owner = "human"

\* The history of one conversation, h the events and d the audit rows.
Chain(h, d, owner) ==
    /\ h = <<>> => owner = "unassigned"
    /\ h # <<>> => h[1].from = "unassigned" /\ h[Len(h)].to = owner
    /\ \A i \in 1..(Len(h) - 1) : h[i].to = h[i + 1].from
    /\ d = [i \in 1..Len(h) |-> h[i].to]
Consistent ==
    \A c \in Convs \ overtaken :
        OwnerFits(db[c]) /\ Chain(transfers[c], decisions[c], db[c].owner)

LEMMA ChainGrows ==
    ASSUME NEW Moves, NEW Owners, NEW h \in Seq(Moves), NEW d \in Seq(Owners), NEW from,
           NEW move \in Moves, NEW to \in Owners, Chain(h, d, from),
           move.from = from, move.to = to
    PROVE  Chain(Append(h, move), Append(d, to), to)
<1> DEFINE g == Append(h, move)
           e == Append(d, to)
           n == Len(h)
<1>1. n \in Nat /\ g \in Seq(Moves) /\ Len(g) = n + 1
  OBVIOUS
<1>2. (\A i \in 1..n : g[i] = h[i]) /\ g[n + 1] = move
  OBVIOUS
<1>3. Len(d) = n /\ \A i \in 1..n : d[i] = h[i].to
  <2>1. d = [i \in 1..n |-> h[i].to]
    BY DEF Chain
  <2>2. DOMAIN d = 1..n /\ DOMAIN d = 1..Len(d) /\ Len(d) \in Nat
    BY <2>1
  <2> QED
    BY <1>1, <2>1, <2>2
<1>4. /\ e \in Seq(Owners) /\ Len(e) = n + 1 /\ e[n + 1] = to
      /\ \A i \in 1..n : e[i] = d[i]
  BY <1>3
<1>5. e = [i \in 1..(n + 1) |-> g[i].to]
  <2>1. e = [i \in 1..(n + 1) |-> e[i]]
    <3> HIDE DEF e
    <3>1. DOMAIN e = 1..Len(e) /\ e = [i \in DOMAIN e |-> e[i]]
      BY <1>4
    <3> QED
      BY <1>4, <3>1
  <2>2. ASSUME NEW i \in 1..(n + 1) PROVE e[i] = g[i].to
    <3>1. CASE i = n + 1
      BY <1>2, <1>4, <3>1
    <3>2. CASE i # n + 1
      <4>1. i \in 1..n
        BY <1>1, <3>2
      <4> QED
        BY <1>2, <1>3, <1>4, <4>1
    <3> QED
      BY <3>1, <3>2
  <2> HIDE DEF e, g
  <2> QED
    BY <2>1, <2>2
<1>6. ASSUME NEW i \in 1..(Len(g) - 1) PROVE g[i].to = g[i + 1].from
  <2>1. i \in 1..n
    BY <1>1
  <2>2. CASE i = n
    <3>1. h # <<>> /\ h[n].to = from
      BY <1>1, <2>1, <2>2 DEF Chain
    <3> QED
      BY <1>2, <2>1, <2>2, <3>1
  <2>3. CASE i # n
    <3>1. i \in 1..(n - 1) /\ i + 1 \in 1..n
      BY <1>1, <2>1, <2>3
    <3>2. h[i].to = h[i + 1].from
      BY <3>1 DEF Chain
    <3> QED
      BY <1>2, <2>1, <3>1, <3>2
  <2> QED
    BY <2>2, <2>3
<1>7. g # <<>> /\ g[1].from = "unassigned" /\ g[Len(g)].to = to
  <2>1. CASE h = <<>>
    BY <1>1, <1>2, <2>1 DEF Chain
  <2>2. CASE h # <<>>
    <3>1. 1 \in 1..n
      BY <1>1, <2>2
    <3> QED
      BY <1>1, <1>2, <2>2, <3>1 DEF Chain
  <2> QED
    BY <2>1, <2>2
<1> HIDE DEF g, e
<1>8. Chain(g, e, to)
  BY <1>1, <1>5, <1>6, <1>7 DEF Chain
<1> QED
  BY <1>8 DEF g, e

\* A decision about a row whose owner fits changes the owner, and the history tells.
LEMMA DecisionChains ==
    ASSUME TypeOK, NEW c \in Convs, NEW old \in Rows, NEW new \in Rows,
           old.state \in Reached, OwnerFits(old), Deciding(c, old, new),
           Chain(transfers[c], decisions[c], old.owner)
    PROVE  OwnerFits(new) /\ Chain(transfers'[c], decisions'[c], new.owner)
<1> DEFINE Moves == [from : OwnerType, to : OwnerType]
           move == [from |-> old.owner, to |-> new.owner]
<1>1. /\ transfers[c] \in Seq(Moves) /\ decisions[c] \in Seq(OwnerType)
      /\ new.owner \in OwnerType /\ move \in Moves
      /\ move.from = old.owner /\ move.to = new.owner
  BY DEF TypeOK, Rows
<1>2. OwnerFits(new) /\ old.owner # new.owner
  <2>1. CASE new.owner = "ai"
    BY <2>1 DEF Deciding, OwnerFits
  <2>2. CASE new.owner = "human"
    <3>1. old.state \in {"New", "Qualification", "Recommendation"}
      BY <2>2 DEF Deciding, AllowedFrom, Reached
    <3> QED
      BY <2>2, <3>1 DEF Deciding, OwnerFits
  <2> QED
    BY <2>1, <2>2 DEF Deciding
<1>3. /\ decisions'[c] = Append(decisions[c], new.owner)
      /\ transfers'[c] = Append(transfers[c], move)
  BY <1>2 DEF Deciding
<1> HIDE DEF Moves, move
<1>4. Chain(Append(transfers[c], move), Append(decisions[c], new.owner), new.owner)
  BY <1>1, ChainGrows
<1> QED
  BY <1>2, <1>3, <1>4

LEMMA ConsistentPreserved ==
    ASSUME TypeOK, RowsSound, Consistent, RowsStep
    PROVE  Consistent'
<1>1. SUFFICES ASSUME NEW c \in Convs, c \notin overtaken'
               PROVE  OwnerFits(db'[c]) /\ Chain(transfers'[c], decisions'[c], db'[c].owner)
  BY DEF Consistent, OwnerFits, Chain
<1>2. OwnerFits(db[c]) /\ Chain(transfers[c], decisions[c], db[c].owner)
  BY <1>1 DEF RowsStep, Consistent
<1>3. CASE Left(c)
  BY <1>2, <1>3 DEF Left, Quiet
<1>4. CASE Created(c)
  <2>1. db[c].owner = "unassigned" /\ db'[c].owner = "unassigned" /\ db'[c].state = "New"
    BY <1>2, <1>4 DEF Created, OwnerFits
  <2>2. transfers'[c] = transfers[c] /\ decisions'[c] = decisions[c]
    BY <1>4 DEF Created, Quiet
  <2> QED
    BY <1>2, <2>1, <2>2 DEF OwnerFits
<1>5. CASE WrittenBack(c)
  <2>1. PICK old, seen, new \in Rows :
           /\ Carried(c, old) /\ old.state # "Absent"
           /\ db'[c] = Save(db[c], seen, new)
           /\ Overtaken(c, old, seen) => c \in overtaken'
           /\ Change(c, old, new)
    BY <1>5 DEF WrittenBack
  <2>2. /\ old.state = seen.state /\ old.owner = seen.owner
        /\ seen.state = db[c].state /\ seen.owner = db[c].owner
    BY <1>1, <2>1 DEF Overtaken, Standing
  <2>3. db'[c].state = new.state /\ db'[c].owner = new.owner
    BY <2>1, <2>2 DEF Save
  <2>4. /\ OwnerFits(old) /\ old.state \in Reached
        /\ Chain(transfers[c], decisions[c], old.owner)
    BY <1>2, <2>1, <2>2 DEF OwnerFits, RowsSound, RowShape
  <2>5. OwnerFits(new) /\ Chain(transfers'[c], decisions'[c], new.owner)
    <3>1. CASE Deciding(c, old, new)
      BY <2>1, <2>4, <3>1, DecisionChains
    <3>2. CASE ~Deciding(c, old, new)
      <4>1. Quiet(c) /\ new.owner = old.owner
        BY <2>1, <3>2 DEF Change, Touching, Recommending, Sleeping
      <4>2. OwnerFits(new)
        BY <2>1, <2>4, <3>2 DEF Change, Touching, Recommending, Sleeping, OwnerFits
      <4> QED
        BY <2>4, <4>1, <4>2 DEF Quiet
    <3> QED
      BY <3>1, <3>2
  <2> QED
    BY <2>3, <2>5 DEF OwnerFits
<1> QED
  BY <1>3, <1>4, <1>5 DEF RowsStep

LEMMA ConsistentAlways == Spec => []Consistent
<1>1. Init => Consistent
  <2> SUFFICES ASSUME Init, NEW c \in Convs
               PROVE  OwnerFits(db[c]) /\ Chain(transfers[c], decisions[c], db[c].owner)
    BY DEF Consistent
  <2>1. transfers[c] = <<>> /\ decisions[c] = <<>> /\ db[c] = AbsentRow
    BY DEF Init
  <2>2. Len(<<>>) = 0 /\ 1..0 = {} /\ <<>> = [i \in 1..0 |-> transfers[c][i].to]
    OBVIOUS
  <2> QED
    BY <2>1, <2>2 DEF Chain, OwnerFits, AbsentRow
<1>2. TypeOK /\ RowsSound /\ CopiesMade /\ Consistent /\ [Next]_vars => Consistent'
  BY StepWrites, ConsistentPreserved
<1> QED
  BY <1>1, <1>2, RowsAlways, PTL DEF Spec

\* Until a copy of a conversation is written although its state or owner had changed
\* since the copy was loaded, the owner fits the state, whatever overlaps, crashes and
\* is repeated.
THEOREM OwnersFitStates == Spec => []OwnerMatchesState
<1>1. Consistent => OwnerMatchesState
  BY DEF Consistent, OwnerFits, OwnerMatchesState
<1> QED
  BY <1>1, ConsistentAlways, PTL

\* Until then, too, the recorded changes of owner chain up from unassigned to the owner
\* the row has, and the audit rows tell the same story.
THEOREM HistoryIsChain == Spec => []OwnershipHistoryIsChain
<1>1. Consistent => OwnershipHistoryIsChain
  BY DEF Consistent, Chain, OwnershipHistoryIsChain
<1> QED
  BY <1>1, ConsistentAlways, PTL

=============================================================================
