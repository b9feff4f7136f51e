------------------------------ MODULE Replies ------------------------------
(***************************************************************************)
(* The way of an answer: from a message of the lead through the turn of    *)
(* the Coordinator, the ResponseReady event and the HTTP client to the     *)
(* lead's screen, in one conversation with one event-bus worker.           *)
(*                                                                         *)
(* It composes four parts of the code that meet only here: the handlers of *)
(* conversation_ownership/wiring.py, which look the organization's         *)
(* settings up (Organization) before they do anything; the turn, which     *)
(* runs in a graph whose memory of the conversation lives in the process   *)
(* (langgraph_responder.py); ChatwootClient with its attempts and          *)
(* timeouts; and the event bus, here with the order in which one worker    *)
(* dispatches a batch, records it and returns to the rows that failed.     *)
(*                                                                         *)
(* The messages are those the Coordinator answers; hand-offs and the       *)
(* conversations row are Conversation's subject.                           *)
(*                                                                         *)
(* Rows are appended as they are committed.  The bus sorts them by         *)
(* occurred_at, which is set when an event is made, before its commit.     *)
(* The two orders are one as long as the webhook calls of the conversation *)
(* follow one another, which is assumed here: of two calls that overlap,   *)
(* the one that commits later may be the older, and its message, not yet   *)
(* visible, is passed by the other's.                                      *)
(***************************************************************************)
EXTENDS Organization

CONSTANTS
    Malformed,    \* Chatwoot settings no request can be built from: httpx
                  \* raises InvalidURL, which is not an httpx.HTTPError
    BatchSize,    \* settings.outbox_batch_size
    MaxAttempts,  \* _MAX_ATTEMPTS of ChatwootClient
    MaxMessages,  \* bound on the messages of the lead
    MaxFaults,    \* bound on failed attempts and failed commits
    MaxCrashes,   \* bound on crashes of the process
    MaxRaises     \* bound on turns repeated under malformed settings: further
                  \* polls would repeat them for ever

ASSUME RepliesAssumption ==
    /\ Malformed \subseteq Values
    /\ BatchSize \in Nat \ {0} /\ MaxAttempts \in Nat \ {0}
    /\ MaxMessages \in Nat /\ MaxFaults \in Nat /\ MaxCrashes \in Nat
    /\ MaxRaises \in Nat

VARIABLES
    outbox,   \* the rows of MessageReceived and ResponseReady, by occurred_at
    worker,   \* what the event-bus worker is doing
    memory,   \* InMemorySaver: the messages of the turns this process has run
    screen,   \* the rows whose answer the lead has read, in order
    faults, crashes,
    raises    \* turns that failed after their commit

replyVars == <<outbox, worker, memory, screen, faults, crashes, raises>>
vars == <<orgVars, replyVars>>

\* lost: POSTs that Chatwoot took and whose answer never came.
\* troubled: the row failed, or its process crashed around it.
\* dropped: its answer was given up for want of Chatwoot settings.
Rows == [type : {"MessageReceived", "ResponseReady"}, msg : 1..MaxMessages,
         processed : BOOLEAN, troubled : BOOLEAN, dropped : BOOLEAN,
         lost : Nat]
Row(type, m) == [type |-> type, msg |-> m, processed |-> FALSE, troubled |-> FALSE,
                 dropped |-> FALSE, lost |-> 0]

\* step: where the worker is in the row at the head of todo ("next": nowhere).
\* done: rows of the batch whose handler succeeded, not yet recorded.
Waiting == [step |-> "idle", todo |-> <<>>, done |-> {}, client |-> None,
            attempt |-> 0]

Init ==
    /\ InitOrganization
    /\ outbox = <<>>
    /\ worker = Waiting
    /\ memory = <<>> /\ screen = <<>>
    /\ faults = 0 /\ crashes = 0 /\ raises = 0

-----------------------------------------------------------------------------
Current == Head(worker.todo)
InStep(step) == worker.step = step

\* The worker goes on to the next row of the batch; the one it leaves is to be
\* recorded as processed, or has failed and keeps its place in the outbox.
Leave(done) == [step |-> "next", todo |-> Tail(worker.todo), done |-> done,
                client |-> None, attempt |-> 0]
\* Mutant of Succeed: the row is not recorded.
SucceedUnrecorded == worker' = Leave(worker.done)
Succeed == worker' = Leave(worker.done \union {Current})
\* Mutant of FailIn: the failure is caught and the row recorded as processed.
FailInQuietly(rows) ==
    /\ worker' = Leave(worker.done \union {Current})
    /\ outbox' = rows
FailIn(rows) ==
    /\ worker' = Leave(worker.done)
    /\ outbox' = [rows EXCEPT ![Current].troubled = TRUE]

\* The webhook archives a message and publishes MessageReceived; the call for the
\* message before has ended (see the head of the module).
MessageArrives ==
    LET m == Cardinality({r \in DOMAIN outbox : outbox[r].type = "MessageReceived"}) + 1
    IN  /\ orgStatus # "absent" /\ m <= MaxMessages
        /\ outbox' = Append(outbox, Row("MessageReceived", m))
        /\ UNCHANGED <<worker, memory, screen, faults, crashes, raises>>

-----------------------------------------------------------------------------
(* The worker                                                               *)

\* Mutant of Pending: the rows that are recorded are handled again.
PendingOrRecorded == DOMAIN outbox
Pending == {r \in DOMAIN outbox : ~outbox[r].processed}
Smaller(a, b) == IF a < b THEN a ELSE b
BatchLength == Smaller(BatchSize, Cardinality(Pending))

\* Mutant of Batches: the rows are taken from the newest one on.
BatchesNewestFirst ==
    {rows \in [1..BatchLength -> Pending] :
        \A i \in 1..BatchLength : Cardinality({r \in Pending : r > rows[i]}) = i - 1}

\* The oldest unprocessed rows, in order: the i-th has i - 1 of them before it.
Batches ==
    {rows \in [1..BatchLength -> Pending] :
        \A i \in 1..BatchLength : Cardinality({r \in Pending : r < rows[i]}) = i - 1}

DrainBatch ==
    /\ InStep("idle") /\ Pending # {}
    /\ \E rows \in Batches : worker' = [worker EXCEPT !.step = "next", !.todo = rows]
    /\ UNCHANGED <<outbox, memory, screen, faults, crashes, raises>>

\* _chatwoot_client_for: the Chatwoot settings as they are now, or None.
ClientNow == IF config = NoRow THEN None ELSE config["chatwoot"]

\* The row at the head of the batch is a `type` whose handler is about to begin.
Dispatches(type) ==
    /\ InStep("next") /\ worker.todo # <<>>
    /\ outbox[Current].type = type

SendBegins ==
    /\ Dispatches("ResponseReady") /\ ClientNow # None
    /\ worker' = [worker EXCEPT !.step = "send", !.client = ClientNow, !.attempt = 1]
    /\ UNCHANGED <<outbox, memory, screen, faults, crashes, raises>>

\* handle_response_ready returns without sending, and the row is recorded.
SendWithoutSettings ==
    /\ Dispatches("ResponseReady") /\ ClientNow = None
    /\ Succeed
    /\ outbox' = [outbox EXCEPT ![Current].dropped = TRUE]
    /\ UNCHANGED <<memory, screen, faults, crashes, raises>>

\* The batch's transaction commits.
BatchCommits ==
    /\ InStep("next") /\ worker.todo = <<>>
    /\ outbox' = [r \in DOMAIN outbox |-> [outbox[r] EXCEPT
                     !.processed = @ \/ r \in worker.done]]
    /\ worker' = Waiting
    /\ UNCHANGED <<memory, screen, faults, crashes, raises>>

\* The process crashes and restarts with an empty memory.
Crash ==
    /\ crashes < MaxCrashes
    /\ LET begun == IF InStep("next") \/ InStep("idle") THEN {} ELSE {Current}
       IN  outbox' = [r \in DOMAIN outbox |-> [outbox[r] EXCEPT
                         !.troubled = @ \/ r \in worker.done \union begun]]
    /\ worker' = Waiting
    /\ memory' = <<>>
    /\ crashes' = crashes + 1
    /\ UNCHANGED <<screen, faults, raises>>

-----------------------------------------------------------------------------
(* The Coordinator's turn                                                   *)

\* The turn builds the sidebar's client and runs the graph, whose checkpoint is
\* saved at once, whatever becomes of the turn.
TurnResponds ==
    /\ Dispatches("MessageReceived")
    /\ ClientNow \in Malformed => raises < MaxRaises
    /\ memory' = Append(memory, outbox[Current].msg)
    /\ worker' = [worker EXCEPT !.step = "responded", !.client = ClientNow]
    /\ UNCHANGED <<outbox, screen, faults, crashes, raises>>

\* Mutant of TurnCommits: no ResponseReady without Chatwoot settings.
TurnCommitsSilently ==
    /\ InStep("responded")
    /\ outbox' = IF worker.client = None THEN outbox
                 ELSE Append(outbox, Row("ResponseReady", outbox[Current].msg))
    /\ IF worker.client = None
       THEN Succeed
       ELSE worker' = [worker EXCEPT !.step = "note"]
    /\ UNCHANGED <<memory, screen, faults, crashes, raises>>

\* The turn commits with its ResponseReady; the sidebar note follows.
TurnCommits ==
    /\ InStep("responded")
    /\ outbox' = Append(outbox, Row("ResponseReady", outbox[Current].msg))
    /\ IF worker.client = None
       THEN Succeed
       ELSE worker' = [worker EXCEPT !.step = "note"]
    /\ UNCHANGED <<memory, screen, faults, crashes, raises>>

\* The commit fails and rolls back; the checkpoint stays.
TurnFails ==
    /\ InStep("responded") /\ faults < MaxFaults
    /\ FailIn(outbox)
    /\ faults' = faults + 1
    /\ UNCHANGED <<memory, screen, crashes, raises>>

\* SidebarPublisher.publish: posted, or given up with ChatwootSendError, which
\* it swallows.
NoteEnds ==
    /\ InStep("note") /\ worker.client \notin Malformed
    /\ Succeed
    /\ UNCHANGED <<outbox, memory, screen, faults, crashes, raises>>

\* Any other exception leaves handle_message after its commit.
NoteRaises ==
    /\ InStep("note") /\ worker.client \in Malformed
    /\ FailIn(outbox)
    /\ raises' = raises + 1
    /\ UNCHANGED <<memory, screen, faults, crashes>>

-----------------------------------------------------------------------------
(* ChatwootClient.send_message                                              *)

Posting == InStep("send") /\ worker.client \notin Malformed

\* Chatwoot takes the message and says so.
Delivered ==
    /\ Posting
    /\ screen' = Append(screen, Current)
    /\ Succeed
    /\ UNCHANGED <<outbox, memory, faults, crashes, raises>>

\* Mutant of AttemptFails: one attempt too many.
AttemptFailsOnceMore(rows) ==
    /\ faults < MaxFaults /\ faults' = faults + 1
    /\ IF worker.attempt <= MaxAttempts
       THEN /\ worker' = [worker EXCEPT !.attempt = @ + 1]
            /\ outbox' = rows
       ELSE FailIn(rows)

\* An attempt fails: the next one follows, or ChatwootSendError is raised.
AttemptFails(rows) ==
    /\ faults < MaxFaults /\ faults' = faults + 1
    /\ IF worker.attempt < MaxAttempts
       THEN /\ worker' = [worker EXCEPT !.attempt = @ + 1]
            /\ outbox' = rows
       ELSE FailIn(rows)

\* Chatwoot refuses the message or cannot be reached.
Refused ==
    /\ Posting
    /\ AttemptFails(outbox)
    /\ UNCHANGED <<memory, screen, crashes, raises>>

\* Chatwoot takes the message and its answer comes too late.
AnswerLost ==
    /\ Posting
    /\ AttemptFails([outbox EXCEPT ![Current].lost = @ + 1])
    /\ screen' = Append(screen, Current)
    /\ UNCHANGED <<memory, crashes, raises>>

SendRaises ==
    /\ InStep("send") /\ worker.client \in Malformed
    /\ FailIn(outbox)
    /\ UNCHANGED <<memory, screen, faults, crashes, raises>>

-----------------------------------------------------------------------------
WorkerStep ==
    \/ DrainBatch \/ SendBegins \/ SendWithoutSettings \/ BatchCommits
    \/ TurnResponds \/ TurnCommits \/ TurnFails
    \/ NoteEnds \/ NoteRaises
    \/ Delivered \/ Refused \/ AnswerLost \/ SendRaises

Next ==
    \/ (WorkerStep \/ MessageArrives \/ Crash) /\ UNCHANGED orgVars
    \/ OrganizationNext /\ UNCHANGED replyVars

Spec == Init /\ [][Next]_vars

\* The worker polls for ever.  Messages and requests of administrators need not
\* come, and a request once begun may hang.
Fairness == WF_vars(UNCHANGED orgVars /\ WorkerStep)
FairSpec == Spec /\ Fairness

-----------------------------------------------------------------------------
(* Properties                                                               *)

TypeOK ==
    /\ OrganizationTypeOK
    /\ outbox \in Seq(Rows)
    /\ worker \in [step : {"idle", "next", "responded", "note", "send"},
                   todo : Seq(DOMAIN outbox), done : SUBSET DOMAIN outbox,
                   client : Values \union {None}, attempt : 0..MaxAttempts]
    /\ memory \in Seq(1..MaxMessages)
    /\ screen \in Seq(DOMAIN outbox)
    /\ faults \in 0..MaxFaults /\ crashes \in 0..MaxCrashes
    /\ raises \in Nat

Answers(m) == {r \in DOMAIN outbox : outbox[r].type = "ResponseReady" /\ outbox[r].msg = m}
Copies(r) == Cardinality({k \in DOMAIN screen : screen[k] = r})

\* The lead reads an answer more than once only for a reason: a message gets a
\* second answer only after a crash of the process or a turn that failed after
\* its commit, and one answer is shown again only after a crash or a POST whose
\* answer was lost.
RepetitionsAreAccounted ==
    /\ \A m \in 1..MaxMessages : Cardinality(Answers(m)) <= 1 + crashes + raises
    /\ \A r \in DOMAIN outbox : Copies(r) <= 1 + outbox[r].lost + crashes

\* The sidebar note never fails the turn it follows: "a sidebar failure must
\* never fail the business operation that produced the state change"
\* (sidebar.py), so that no message is answered again but for a crash.
SidebarNeverRepeatsTurn ==
    \A m \in 1..MaxMessages : Cardinality(Answers(m)) <= 1 + crashes

\* Positions of the screen that show an answer to m, and the rows about m.
Shown(m) == {k \in DOMAIN screen : outbox[screen[k]].msg = m}
Troubled(m) == \E r \in DOMAIN outbox : outbox[r].msg = m /\ outbox[r].troubled

\* The lead reads the answers in the order of the messages, although a failed
\* row is passed by the rows behind it: an answer comes after the answer to a
\* later message only if its own message or its own answer met a failure.  (The
\* messages came one after another; two webhook calls that overlap are answered in
\* either order.)
OvertakenOnlyAfterTrouble ==
    \A i, j \in 1..MaxMessages :
        /\ i < j /\ Shown(i) # {} /\ Shown(j) # {}
        /\ \E k \in Shown(j) : \A l \in Shown(i) : k < l
        => Troubled(i)

\* What the process remembers of the conversation is what was said: a turn is
\* remembered without an answer, or more than once, only if it met a failure.
MemoryIsWhatWasSaid ==
    \A m \in 1..MaxMessages :
        LET turns == {k \in DOMAIN memory : memory[k] = m}
        IN  /\ ~Troubled(m) => Cardinality(turns) <= 1
            /\ ~Troubled(m) /\ ~InStep("responded") /\ turns # {} => Answers(m) # {}

\* The bus forgets a row only when its work is done: the message has an answer,
\* the answer has been on the lead's screen or there was no Chatwoot to send it.
NothingIsSkipped ==
    \A r \in DOMAIN outbox : outbox[r].processed =>
        IF outbox[r].type = "MessageReceived"
        THEN Answers(outbox[r].msg) # {}
        ELSE Copies(r) >= 1 \/ outbox[r].dropped

\* What the handler of row r has done that nothing takes back: the message's answers in
\* the outbox, the answer's copies on the screen, or that there was nowhere to send it.
WorkDone(r) ==
    CASE r \notin DOMAIN outbox -> 0
      [] r \in DOMAIN outbox /\ outbox[r].type = "MessageReceived" ->
            Cardinality(Answers(outbox[r].msg))
      [] r \in DOMAIN outbox /\ outbox[r].type = "ResponseReady" ->
            Copies(r) + (IF outbox[r].dropped THEN 1 ELSE 0)

\* The rows there can be: the messages, and their answers with those that crashes and
\* turns that raised repeat.
RowIds == 1..(MaxMessages * (2 + MaxCrashes + MaxRaises))
Recorded(r) == {x \in {r} : r \in DOMAIN outbox /\ outbox[r].processed}
Contract(r) == INSTANCE AtLeastOnce WITH
    Consumers <- {"handler"}, Events <- {r}, Subscribers <- [x \in {r} |-> {"handler"}],
    published <- {r} \intersect DOMAIN outbox,
    done <- Recorded(r), handled <- {"handler"} \X Recorded(r),
    effects <- [x \in {"handler"} \X {r} |-> WorkDone(r)]

\* This worker keeps the bus's contract for every row, whatever fails in the handlers: a
\* row is recorded after its work and no work follows, each step works once, and never on
\* a row that is yet to come.
KeepsContract ==
    /\ \A r \in RowIds : Contract(r)!Init
    /\ [][\A r \in RowIds : [Contract(r)!Next]_(Contract(r)!vars)]_vars

\* While the Chatwoot settings are in place and well formed, a message or an
\* answer that waits reaches the lead, unless the settings change for the worse.
Unsettled(m) == \E r \in DOMAIN outbox \ worker.done :
                    outbox[r].msg = m /\ ~outbox[r].processed
Serviceable == ClientNow \in Values \ Malformed
AnsweredWhileServiceable ==
    \A m \in 1..MaxMessages :
        (Unsettled(m) /\ Serviceable) ~> (Shown(m) # {} \/ ~Serviceable)
=============================================================================
