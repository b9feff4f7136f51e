# A formal model of the lead conversation backend

The program (`src/app`) is a FastAPI modular monolith. It answers real-estate
leads that write through Chatwoot, keeps a mirror of the leads of an external CRM
(wacrm), decides who owns a conversation, an AI or a human broker, and recommends
properties. Its state is in Postgres at READ COMMITTED, used through SQLAlchemy's
asynchronous sessions. No row is locked and no row carries a version, except the
outbox rows a worker has selected. Every application process starts three
background tasks (`main.py`, `lifespan`): the event-bus worker, the dormancy decay
loop and the CRM poll. The architecture asks for at least two processes
(`Documents/Oficial/Architecture.md:1954`) and for a single outbox worker
(`:566`, `:1956`); nothing in the code makes the worker single.

That combination is what this project is about. Handlers read rows, wait for a
language model or an HTTP call, and write back what they concluded; events are
delivered at least once; the tasks of several processes run the same loops.

## 1. Inventory

| Part | State | Operations | Talks to |
|---|---|---|---|
| Event bus (`shared/infrastructure/event_bus.py`) | `outbox_events`, `inbox_records`, the worker's open transaction | `publish`, `_drain_batch`, `_dispatch_row`, `run_forever` | every module: rows written in the caller's transaction, handlers awaited in sessions of their own |
| Chatwoot webhook (`conversation_ownership/api`) | `conversations`, `conversation_messages` | `receive_chatwoot_webhook`: link lead, create or touch, archive, publish `MessageReceived` | Chatwoot (which repeats calls), lead mirror, bus |
| Coordinator (`application/coordinator.py`) | `conversations`, `ownership_decisions`, events | `handle_message`: guardrail, hand-off or conversational turn | bus, responder, sidebar |
| Conversation FSM and ownership policy | none (pure) | `transition_to`, `decay_to_dormant`, `evaluate` | used by the three above |
| Dormancy decay (`application/decay.py`) | `conversations.state`, events | `decay_inactive_conversations` every interval | bus |
| Chatwoot client, sidebar | none | POST with three attempts; the note after a turn | Chatwoot, the settings of the organization |
| LangGraph responder, guardrail | the history of each conversation, in the memory of the process | `respond`, `check` | OpenAI |
| Lead Sync Adapter (`lead_qualification/application/lead_sync.py`) | `leads`, `crm_sync_cursors`, `crm_access_audit` | `poll_once`, `push_profile_update`, `force_resync`, `get_lead` | wacrm over HTTP, bus |
| Staleness Guard | none | `check_before_decision` | Lead Sync Adapter |
| Profile capture, completeness gate | `buyer_profiles` | `update_profile`, `check` | bus (`ProfileCompleted`) |
| Recommendation handler and search (`recommendation/`) | `conversations.state` (Qualification to Recommendation) | `handle_profile_completed`: guard, gate, filter, retrieval, ranking, explanation, enrichment | lead mirror, buyer profile, properties, maps, conversation |
| Neighborhood enrichment | background tasks of the process | parallel lookups with a shared budget, a bounded background retry each, `NeighborhoodEnriched` | maps service, bus |
| Property ingestion (`recommendation/application/property_ingestion.py`) | `properties`, `property_embeddings` | `ingest_from_source`: fetch, upsert, re-embedding by content hash | inventory source, Semantic Retrieval |
| Prompt registry (`intelligence_ai_admin/`) | `prompt_templates`, `prompt_versions` | `publish_version`, `get_active_version` | responder |
| Organization (`organization/`) | `organizations`, `organization_configs` | create, PUT of the configuration, activation | settings of every module, looked up when they are used |
| Authentication, core, decision traces | `users`, `decision_traces` | register, log in; sessions; one trace row a turn | |
| Appointment, engagement | none: empty packages | | |

How they interact. The webhook commits a conversation, an archived message and a
`MessageReceived` row together. A worker hands it to the Coordinator, which
commits the turn and a `ResponseReady` row; a worker hands that to the Chatwoot
sender. The CRM poll mirrors deals; profile capture publishes `ProfileCompleted`;
the bus runs the push to wacrm and then the recommendation, which goes through the
Staleness Guard (a re-sync) and writes the conversation and a `ResponseReady`.

What is hard:

* A batch of up to 50 events is one transaction, and each handler commits alone. A
  crash, or an exception outside a handler, undoes the memory of work that stays
  done. A row that fails keeps its place at the head of the queue.
* Four kinds of transaction write a `conversations` row whole, from a copy each made
  earlier: `save` reads the row again and sets every column, so that what others have
  committed in between is put back. State, owner and history live in different columns
  and tables. Leads and buyer profiles are written in the same way.
* Poll, push and re-sync write a mirrored lead from HTTP answers of different ages.
* Chatwoot repeats a webhook call, also while the first one is in progress.
* A budget is two columns of `buyer_profiles`, and two turns may write one each, or one
  may take the other's answers back. A profile goes on changing while the event that it is complete waits for delivery.
* Map lookups outlive the search that made them, and die with their process.
* An answer to a lead is three things that do not commit together: a checkpoint in
  memory, a `ResponseReady` row, and a POST that may have arrived although it failed.
  A failed row is passed by the rows behind it, and the settings may change meanwhile.
* Publications, ingestions and PUTs of settings overlap: each reads rows, and writes
  what it concluded under READ COMMITTED.

What makes each part correct: the bus delivers every event to every consumer,
repeats only what an incident undid, and keeps the consumers of an event in
order. Owner, state and ownership history of a conversation agree, and a hand-off is
not undone, as far as copies that are written late allow it. A message is archived once and answered. The mirror converges to
wacrm, and its watermark never leaves a deal behind. A complete profile is announced
once and answered; what a recommendation claims is true of the property and of the
profile it was made from. A lead reads each answer, in order, and again only for a
reason that can be named. A listed property and its embedding appear together and agree.
A prompt that was activated stays until another one is. These are the properties of
section 3; the hazards they answer are listed in `PROJECT.json`.

## 2. The modules

| Module | Models | Correspondence |
|---|---|---|
| `AtLeastOnce` | the contract of the bus: publish, do a consumer's work, record it, finish the event | what every other module assumes of the bus |
| `EventBus` | outbox, inbox and any number of workers | `Select`, `StartRow`, `SkipHandled`, `HandlerSucceeds`, `HandlerRaises`, `HandlerRaisesLate`, `FinishRow`, `CommitBatch` are the steps of `_drain_batch` and `_dispatch_row`; `Crash`, `Restart` a process; `DrainRaises` an exception that no `try` catches |
| `EventBusProofs` | the theorems about `EventBus` | section 5 |
| `ConversationFSM` | the transition table, the active states, the policy's decision | operators only |
| `Conversation` | webhook requests, Coordinator, recommendation handler, decay, on `conversations` rows | each transaction loads its copy (`WebhookReads`, `CoordinatorReads`, `RecommendationReads`, `DecayScans`), saves it, which reads the row again (`WebhookSaves`, `TurnSaves`, `DecaySaves`), and commits; `Save` is what SQLAlchemy's UPDATE does then |
| `LeadSync` | poll, push, re-sync, watermark, wacrm's deals | a poll is five steps, a handler five, so that everything else can happen between them |
| `LeadSyncProofs` | the theorems about `LeadSync` | section 5 |
| `BuyerProfile` | `update_profile` by any number of overlapping turns, the gate | `CaptureReads` loads, `CaptureSaves` is the second SELECT, `CaptureCommits` applies the patch to the copy, writes it whole and publishes; `Conflict` is the unique `lead_id` |
| `Ranking` | hard filter, retrieval, weighted score, sort and cut, `top_signals` | operators only; a score is an exact fraction over one denominator per buyer |
| `Recommendation` | the search for each `ProfileCompleted` and the background retries, on top of `BuyerProfile` (EXTENDS) and `Ranking` (INSTANCE) | `SearchBegins` is gate, filter, retrieval and ranking; `LookupAnswers`, `LookupMisses` are the branches of `fetch_one`; `SearchCommits` comes after `gather`; `Retry*` are the branches of `_retry_and_publish` |
| `Organization` | the organization, the row of its settings, overlapping PUTs | `PutReads` loads the row, `PutCommits` writes the columns that differ and activates; `Written` is the UPDATE |
| `Replies` | one conversation from message to screen, on top of `Organization` (EXTENDS): the handlers of `wiring.py`, the turn, `ChatwootClient`, one worker of the bus | `DrainBatch`, `BatchCommits` are the worker's; `TurnResponds` saves the checkpoint, `TurnCommits` the transaction, `Note*` the sidebar; `Send*`, `Delivered`, `Refused`, `AnswerLost` are the branches of `send_message` |
| `PromptRegistry` | publications of the versions of one prompt, and the lookup of a turn | one action per statement that sees the database: `PublishReads`, `CreatesTemplate`, `Deactivates`, `PublishCommits`; `LookupTemplate`, `LookupVersion` |
| `PropertyIngestion` | overlapping ingestions of a catalog that changes | `Fetch`, then `LoadRow` and `WriteRow` for each item, which wait for row locks, then `Commit`; `Conflict` is the unique key, `Upserted` the UPDATE |
| `ConversationProofs`, `BuyerProfileProofs`, `RecommendationProofs`, `RepliesProofs`, `PromptRegistryProofs`, `PropertyIngestionProofs` | the theorems about these modules | section 5 |
| `MCEventBus`, `MCConversation`, `MCLeadSync`, `MCRecommendation`, `MCReplies`, `MCPromptRegistry`, `MCPropertyIngestion` | instances for TLC | |

`Conversation`, `LeadSync` and `Recommendation` use the bus through its contract: an event may be
worked on until it is recorded, a batch is recorded in one step after its
handlers (`unrecorded`, `Acknowledge`), a crash in between repeats it. That this is
what the bus gives is `ImplementsContract` and its theorem. `Replies` has a worker of its
own instead, because the order of the answers depends on how a batch is gone through:
which rows it takes, when it records them, and that it comes back to those that failed.
That this worker, with the turns and deliveries it runs, keeps the same contract for each row is
`KeepsContract`, also with a theorem: a row is a contract of its own, because the commit of a turn
works on one row and publishes another in the same step.

### Choices

* *Write-back.* The repositories of conversations, leads and profiles hand out copies
  (`_to_domain`) and keep no reference to the ORM row, which SQLAlchemy's identity map
  holds weakly: it is gone when `get` returns. `save` therefore issues a SELECT of its own
  and assigns every column from the copy; the UPDATE writes the columns in which the copy
  differs from the row *as save has found it*. Commits between the load and the save are
  overwritten, while the language model answers for instance. `Save(current, seen, copy)`
  and `Upserted` say that: `seen` is the row of the second SELECT, `current` the row at the
  commit. What is committed between the two, while an UPDATE waits for a lock, survives
  where the copy does not differ from `seen`. `CRMStageSynced` and
  `ProfileCompleted` are decided against the first copy. `PropertyIngestion` and
  `Organization` hold the row from load to commit, and write the columns that differ from
  the row as loaded.
* *Overtaken conversations.* `overtaken` is a history variable of `Conversation`: the
  conversations to which a copy was written after their state or owner had changed under
  it. Properties that such a write may break are stated of the other conversations, and
  properties of the write itself speak of the copy (`EndedWith`).
* *Where transactions are cut.* Load, save, commit. READ COMMITTED makes no promise
  between them. The saves of one poll are one step, as its loads are. The HTTP calls
  of `LeadSync` are steps of their own, since their effect outlives a rollback.
* *After the commit.* A turn ends with the sidebar note. `MessageDone` lets it raise after
  the commit (`RepliesMalformedSettings` shows how): the turn stands, the event counts as
  failed and the turn will be repeated.
* *Order of arrival.* `Replies` appends outbox rows as they are committed; the bus
  sorts by `occurred_at`, set before the commit. The two agree while the webhook calls of
  a conversation follow one another, which `MessageArrives` assumes. Two that overlap may be
  answered in either order, without any failure.
* *Time.* `clock` ticks; a webhook touches the row with the message's own
  timestamp, which may be earlier than what the row holds, as the code does.
* *Data.* A message is whether the guardrail fires on it. A phone number is a value
  that conversations and leads share. A lead is its stage: the other mirrored
  columns are written in the same way.
* *Late failures.* `HandlerRaisesLate` is a handler whose work is done and that
  raises all the same: a POST that times out after delivery, the sidebar after
  the commit (`sidebar.publish` catches `ChatwootSendError` only).
* *Settings.* A setting is a value, absent, or malformed: a `base_url` no request can be
  built from, which httpx reports by an exception that the client does not translate.
* *An embedding* is the content it was computed from, which is also what `content_hash`
  hashes. Nothing in `app/` calls ingestion yet; that somebody runs it again and again and
  commits is assumed.
* *Supervision.* `Restart` assumes something starts a process again. The compose file
  sets no restart policy; this is an assumption about the deployment. A webhook call
  that Chatwoot gives up on cannot be told from one it never made.
* *Scores.* The code compares floats. `Ranking` compares the exact fractions, so that
  candidates with equal scores keep the order of the SELECT; rounding may order them
  either way. Retrieval scores nothing: the stand-in query vector has three
  components, a property's has sixteen, and `_cosine_similarity` is 0.0 for lengths
  that differ. It keeps the first `top_n` rows of a SELECT without ORDER BY, which
  `Listings` takes in every order. Every property has an embedding, since ingestion
  commits both together.
* *wacrm* is external: every change gives a deal a new, increasing `updated_at`,
  renaming a stage does not, deals are not deleted, a list is read at one instant.

## 3. The runs

Passing runs:

| Run | Instance | Shows |
|---|---|---|
| `EventBusDelivery` | 2 workers, 3 events (two consumers, one, none), batches of 2, a turn that fails for ever, a crash, a death, a late failure | type correctness; `ProcessedWasHandled`; `RepeatsNeedIncidents`: concurrency alone repeats nothing; `RegistrationOrder`; `ImplementsContract`; `HealthyEventsProcessed`: a failing row does not hold up the others while the batch has room for them and a worker is left |
| `ConversationOwnership` | one conversation, an ordinary and a bypass message, a lead to recommend to, two requests in flight, decay, a crash or a note that raises | `OwnerMatchesState` and `OwnershipHistoryIsChain`, until the conversation is overtaken; `OwnersWereDecided`: no owner or state without a recorded cause, ever; `HandoffIsFinal`: only a copy from before the hand-off undoes it; `MovesAreLawful`: a write moves the copy's state lawfully, or leaves it |
| `ConversationDelivery` | an ordinary message delivered twice next to a bypass message, which cannot be handled a second time, two requests in flight, two leads with one phone number, a crash or a note that raises | `OneTurnPerMessage`; `LinkIsStable`: only a copy from before the link undoes it; the request that finds two leads and answers 500; under fairness `MessagesAnswered` |
| `LeadSyncPolling` | one poller, two deals, a broken stage name, a fault | `CursorMeansSynced`; `StageEventsMatchMirror`: the last event tells the mirrored stage; under fairness `MirrorConverges`: a deal whose stage does not parse is neither lost nor in the way |
| `LeadSyncOverlap` | two pollers, push and re-sync of a deal, a fault; both pollers may insert the row, or the cursor | `WatermarkNeverPassesSkipped`; section 5 proves it for any number of deals, pollers and workers |
| `Replies` | two messages of a lead, one administrator with two PUTs (complete settings, no Chatwoot, a malformed one), batches of 2, 2 attempts, two faults, a crash | `RepetitionsAreAccounted`: each second answer and each repetition on the screen has its incident; `NothingIsSkipped`: a recorded row has been worked on; `OvertakenOnlyAfterTrouble`: answers are read in the order of the messages, unless the overtaken one met a failure; `MemoryIsWhatWasSaid`: the graph remembers what was said, failures apart; `KeepsContract`: for each row the worker implements `AtLeastOnce`; under fairness `AnsweredWhileServiceable` |
| `Inventory` | two ingestions of two items whose catalog changes twice, one failure | `SearchableOnceListed`: a row and its embedding commit together; `EmbeddingFitsRow`: they agree, unless an overtaken ingestion wrote last; under fairness `InventoryConverges`: that does not last |
| `Recommendation` | one lead, three patches (a budget, another budget, everything else), two inventories, a message of two out of three matches, two retries, a fault | `AnswersKept`, `CompletionToldOnce`, `NobodyIsRefused`, `RecommendsTheBest`, `PhrasedReasonsHold`, `LateInsightsWereMissed`; under fairness `EveryCompletionAnswered`, `RetriesEnd` |

Runs that show a disagreement between the code and what is written about it; each
checks one statement and TLC finds it false:

| Run | Statement | What happens |
|---|---|---|
| `ConversationWriteBack` | `OwnerChangesAreDecided` | a webhook call that loaded a new conversation saves its copy after the first turn: New and unassigned again, with no decision and no event |
| `LeadSyncLostUpdate` | `MirrorConverges` | a push or re-sync that commits after a newer poll puts the older stage back, behind a watermark that has passed the change |
| `RepliesMalformedSettings` | `SidebarNeverRepeatsTurn` | a Chatwoot `base_url` that is no URL makes the sidebar note raise `httpx.InvalidURL` after the turn has committed; `publish` catches `ChatwootSendError` only, so the event counts as failed and every poll answers the message again |
| `PromptRegistryRace` | `AtMostOneActive` | two publications that overlap each deactivate the version they see and insert an active one; `get_active_version` then raises `MultipleResultsFound` in every turn until somebody publishes again |

The models contain more behaviours of this kind, for which no run is kept:

* As many rows that fail for ever as the batch is long stop delivery for everyone: they
  are the oldest, `attempts` is never looked at, there is no dead-letter table.
  `HealthyEventsProcessed` fails in `EventBusDelivery` with `BatchSize = 1`.
* A bypass message in a Dormant conversation raises `InvalidTransitionError` at every
  attempt (`TurnRaises` in `Conversation`): neither a broker nor an answer.
* What is written late undoes what was committed before it. A turn that loaded
  a conversation without a lead unlinks the lead that a webhook found during the model's call;
  a call, a decay pass or a second worker's turn that loaded it before a hand-off takes it
  from the human; the worker of a second process writes Recommendation over the state of a
  hand-off. `OwnerMatchesState` and `OwnershipHistoryIsChain` fail without `overtaken`,
  `LinkIsStable` and `HandoffIsFinal` without their exception.
* Such a copy may leave a row New with a human owner: a call loads it as New, a turn, a decay
  pass and a hand-off commit before or after its second SELECT, and the columns mix. The policy
  engine refuses every turn of such a row (`Stranded`): `MessagesAnswered` excepts it.
* A poll or a handler that is overtaken between its load and its save writes a stage without
  a `CRMStageSynced` event, because the stage it loaded was the one it brought:
  `StageEventsMatchMirror` fails in `LeadSyncOverlap`.
* Of two captures that overlap, the later one takes the other's answers back, down to an
  announced profile that is incomplete and that the gate refuses. And a lead's budget may
  be 2..6: one turn lowers its upper end to 4, another, whose second SELECT came before that
  commit, raises its lower end to 5; the row says 5..4. `MoneyRange` raises at every later
  read: no capture and no recommendation can use the profile again. `AnswersKept`,
  `NobodyIsRefused` fail in `Recommendation` with two turns, `BudgetStaysARange` with two turns
  that say 2..4 and 5..6; they hold as long as no two turns of one lead overlap (section 5).
* Two administrators that replace the settings together leave a row that mixes both bodies,
  and a PUT without a mandatory part leaves the organization active (`PutCommits`).
* A property that leaves the catalog keeps its row and is still recommended: ingestion
  never deletes. `InventoryConverges` speaks of listed items only.
* A crash between a handler's commit and the batch's repeats the handler's work,
  although the tables' documentation calls a re-delivered event "a no-op for that
  consumer" (`db_models.py:8`). `RepeatsNeedIncidents` says what is true instead.
* A turn that overlaps a decay pass takes a conversation from Dormant straight to
  Qualification, although E14 (`domain/models.py:55`) knows one way back; a decay pass puts
  to sleep a conversation that was touched after its scan.
* A slower poll or handler writes an older stage behind a watermark that has passed the
  newer one, as in `LeadSyncLostUpdate`. The watermark itself does not move back:
  `advance_watermark` compares with the row it reads after the HTTP call.
* A push that is repeated after a broker moved the deal takes it back to Qualified.
  An audit row of a CRM access is rolled back with the access that failed.
* `DrainRaises` is never undone while its process lives, although the worker's
  docstring says "auto-restart".
* Two captures that overlap may publish `ProfileCompleted` twice, or never: each
  judges the profile it loaded with its own patch.
* `wait_for` cancels a lookup that is late; the retry makes a new call, although the
  adapter's docstring says the slow one keeps running. Nothing consumes
  `NeighborhoodEnriched`, so the promised follow-up message is never sent.
* `top_signals` takes three signals of four even when their contribution is zero.
  What they are phrased as is true all the same (`PhrasedReasonsHold`), because the
  gate and the filter see to it; a threshold of 80 or less would undo that.

### Bounds, and why they are enough

* Two workers, requests or consumers are the fewest that interfere; a third adds an
  interleaving of the same pairs. Three outbox rows give one in the batch, one
  beside it, one outside it. What is proved (section 5) holds for any number.
* `MaxAttempts` is where the attempts column saturates; the code never reads it. A
  handler that is not poisoned recovers by then, which is what "not broken" means
  in `Healthy`.
* One incident of each kind; in `Conversation` crashes and raising notes share the bound.
  `RepeatsNeedIncidents` and `OneTurnPerMessage` count them, so that a second one would be visible as a second repetition; for the bus the
  theorem covers any number.
* `Threshold = 0` and `MaxClock` of 1 or 2: a tick makes a conversation inactive, a
  touch before or after it does not. `ConversationDelivery` stops the clock and completes
  no profile (`Buyers` is empty): duplicates and links do not depend on either. Only the
  ordinary message comes twice (`MaxDeliveries` is a bound for each message), and
  `ConversationOwnership` delivers each once. Rows that are `Stranded` need a decay pass between two
  commits and do not occur without the clock; they do with `MaxClock = 1` and no lead, in which
  `MessagesAnswered` has to except them.
* `MaxEdits` of 2 or 3: a deal is created, moved, and moved again or another is
  created. Three stages tell apart the stage a deal is in, the pushed one and the one
  a broker chose; `LeadSyncOverlap`, whose property asks only whether a deal is mirrored, has two.
* `Recommendation`: three captures complete a profile and correct it once; the
  inventories hold properties at the edge of a budget and in its middle, with and
  without the must-haves, in another zone and of another type, more matches than the
  message holds and fewer. Retrieval's own cut is not exercised (three candidates,
  `TopN = 3`): it drops rows in SELECT order, which any order of three already shows.
  `MaxRetries` is 2, one more than the default, so that a task has a next attempt. One
  turn at a time.
* `Replies`: two messages are the fewest that can be answered out of order, and give four
  rows in batches of two. Two faults let a send fail for good (`MaxAttempts` is 2, the code's
  3 scaled down) or two rows fail. `MaxRaises` is 1: under malformed settings further polls
  would repeat the turn for ever. One administrator: what overlapping PUTs leave is a
  settings row like any other, and the theorems cover any number of administrators and any
  settings. The bodies of `RepliesMalformedSettings` are malformed only.
* `Inventory`: two jobs, and two items so that one job holds the lock of a row the other
  waits for. One column: a row that mixes the columns of two jobs counts as raced in any
  case. Two changes let a job fetch before, between and after them.
* `PromptRegistryRace`: two publications of two versions.
* `CHECK_DEADLOCK FALSE`: with every counter at its bound and every event handled, the
  instance stops; the program would wait for the next event.

### Fairness

`EventBus`: an asyncio task is scheduled again and again while its process lives
(weak fairness of `WorkerStep`), and a crashed process is started again (weak
fairness of `Restart`). Nothing is assumed of failures, and no fairness applies to
a dead task. `Conversation`: an accepted request saves and ends; the worker steps; and the bus
offers every unhandled message again and again although others fail (strong
fairness of `CoordinatorReads` for each message and of `Acknowledge`), which is
what `EventBusDelivery` shows of the bus as long as fewer rows are broken than a batch
holds. `MessagesAnswered` leaves out the settings under which every turn raises, two active
prompts (`PromptRegistryRace`) or a malformed `base_url`, until somebody puts them right. `LeadSync`: `crm_sync_loop` catches every
exception and polls again (weak fairness of `PollStep`), and the bus offers
deliveries. `Recommendation`: the worker goes on, since each lookup ends by its timeout
(weak fairness of `WorkerStep`), and so does each background task, in whatever way its
call ends (weak fairness of `RetryStep`). `Replies`: the worker polls for ever (weak fairness of
`WorkerStep`, with the settings left alone); messages need not come, and a PUT once begun may
hang. `Inventory`: its caller runs ingestions again and again (weak fairness of `Fetch`), and
one that has begun goes on, since the locks it waits for belong to ingestions that go on too
(weak fairness of `Proceed`). Brokers, operators, administrators, leads, faults and decay are
never forced.

## 4. Mutants

Beside each definition that a property depends on stand its mutants: the same
definition with a plausible bug, such as a SELECT without SKIP LOCKED
(`SelectableIgnoringLocks`), an `except` that falls through to `processed_at`
(`ContainFailureAsProcessed`), a hand-off without an audit row
(`AssignOwnerUnaudited`), an event built before its stage is assigned (`AnnouncedBefore`), a watermark that passes skipped leads (`MaxSeenPastSkipped`), a batch that
takes the newest rows first (`BatchesNewestFirst`) or an embedding compared with the row
instead of its hash (`StaleRow`).
Each property of a passing run is violated under one of them.

## 5. Proofs

TLAPS checks every proof below to its last leaf. The assumptions are the named
`ASSUME`s beside the constants (finite sets, positive bounds, disjoint markers);
TLC evaluates them in every run.

### The event bus (`EventBusProofs`)

For any workers, events, consumers, batch size and bounds on incidents:

| Theorem | Says |
|---|---|
| `TypeCorrect` | `Spec => []TypeOK` |
| `ProcessedIsHandled` | a processed row has been worked on by every consumer |
| `RepeatsAreAccounted` | each repetition of a handler's work is paid for by a crash, a dead task or a late failure |
| `OrderIsKept` | the consumers of an event do their work in registration order |
| `BusImplementsContract` | the bus implements `AtLeastOnce` |

None of these is inductive: that a processed row was handled depends on what the open
transactions hold, and that on the locks. `IInv` adds to them `TransactionShape` (what an open
transaction may look like), `LocksExclusive` (no row in two batches), `RecordsFollowWork` (an
inbox record, committed or open, has its work), `HandlersPassed` (the consumers before
the current one are recorded), `ProcessedRecorded` (a processed row has every record) and
`WorkIsAccounted` (a handler's work is recorded, in an open transaction, or paid for by an
incident). Refinement maps the contract's record to the committed inbox.

### Lead sync (`LeadSyncProofs`)

For any deals, stages, pollers, workers and bounds:

| Theorem | Says |
|---|---|
| `TypeCorrect` | `Spec => []TypeOK` |
| `WatermarkIsSafe` | no deal the watermark has passed is missing from the mirror, however many pollers, pushes and re-syncs overlap |
| `AloneCursorIsTrue` | `Spec /\ []PollsAlone => []CursorMeansSynced` |
| `AloneEventsAreTrue` | `Spec /\ []PollsAlone => []StageEventsMatchMirror` |

The watermark of a commit was computed from an answer fetched earlier, while other
pollers may commit; a poll in progress must therefore already satisfy what its commit will
need. `PollSound` says it of every phase of a poll: each deal at or before the watermark
it started from is mirrored, each deal at or before the one it will write is mirrored or
in its answer and parses. `TaskSound` says of a handler that the stage it carries is a
stage; `CompletedAreMirrored` and `DealsHaveStages` bound the rest. The heart is the
arithmetic of `MaxSeen`: `LeastElement` picks the earliest skipped deal, and
`MaxSeenBounds` shows that a watermark just before it passes no skipped deal.
The other two need their hypothesis, `PollsAlone`: while a poll is in progress there is no
other poll and no handler of `ProfileCompleted`. Pollers and handlers may be any number, and take
turns. `LeadSyncLostUpdate` is the counterexample without it. The invariant is `AloneInv`: a poll in
progress has fetched the present version of each deal past the watermark, or the deal has
moved on since, and the rows it has loaded and found are the mirror's (`AlonePoll`); a handler
writes over the row it loaded, with the stage the deal has unless that has moved past the
watermark (`FreshTask`); and the bus gives a lead to one handler at a time (`OneTaskEach`).

### Profile capture and recommendation (`BuyerProfileProofs`, `RecommendationProofs`)

For any leads, turns, patches and threshold, and in the second module any inventory,
bounds and failures:

| Theorem | Says |
|---|---|
| `TypeCorrect` | `ProfileSpec => []ProfileTypeOK` |
| `ApartTurnsTellOnce` | `ProfileSpec /\ []TurnsApart => []CompletionToldOnce` |
| `ApartTurnsKeepRange` | `ProfileSpec /\ []TurnsApart => []BudgetStaysARange` |
| `ApartTurnsKeepAnswers` | `ProfileSpec /\ []TurnsApart => AnswersKept` |
| `ApartTurnsKeepComplete` | `ProfileSpec /\ []TurnsApart => []AnnouncedAreComplete`: whoever `ProfileCompleted` was published for stays complete |
| `ApartTurnsRefuseNobody` | `Spec /\ []TurnsApart => []NobodyIsRefused`: the gate in front of a search refuses no announced lead |
| `SearchTypeCorrect` | `Spec => []TypeOK` for the searches |
| `BestAreRecommended` | `RecommendsTheBest`: what is recommended meets the hard filters, and nothing left out was similar enough and ranks before it |
| `ReasonsAreTrue` | `GateIsFull => (Spec => []PhrasedReasonsHold)`: a reason that is told is true of the buyer and the property |
| `LateInsightsAnswerMisses` | `LateInsightsWereMissed`: each late insight answers a neighborhood that a listing lacked |

A turn decides from what it loaded and writes its copy over what is there now.
`TurnsApart` says that no two turns capture for one lead at the same time, whatever the
turns of other leads do. Then the copy a turn has loaded, and the row its save has
found, are the row itself (`LoadedIsCurrent`): what is written is the patch, so that no answer is taken
back, a complete profile stays complete and a budget stays a range. When two turns of a
lead overlap each of the four is false (section 3). `CapturesProfiles`, a lemma, carries
`ApartTurnsKeepComplete` over to `Recommendation`, where `ApartTurnsRefuseNobody` adds that a
search reads the profile of an announced lead.

The last four rest on `SearchInv`, of which `SearchIsSound` is the heart: a search that has
retrieved holds what `Selects` says, distinct properties of the inventory that pass the filters,
in rank order, with nobody better left out. Sorting needs no induction over the data, because
`SortedBy` is stated as a permutation: the element at an index goes to the place that the number
of indices before it gives. `Preceding` and `Sorting` show that these numbers are a permutation of
the indices when the order is total on them, and `SortedByArranges` and `RankTakesTheBest` what
follows for a prefix. A reason is told only for one of the three highest parts of the score,
so that `ReasonsAreTrue` must show which parts can be among them: `ThreeSignals` says that a
coverage of zero comes last, and a full gate that the buyer named a zone. `GateIsFull` is
`Threshold > 80`, the code's default being 90. With a threshold of 80 or less a profile
passes without a zone, and a reason could speak of one.
Background tasks are counted as a set of pairs, so that a step adds one task or takes one away
(`OneMoreTask`, `OneTaskLess`); `RetriesAreSound` pays for each late insight with a listing that
went out without it. Assumed of the constants: an inventory is a finite catalogue of properties with
number prices, must-haves are a non-empty finite set (`models.py:99`).

### Conversation (`ConversationProofs`)

For any conversations, messages, contacts, requests, workers, decay loops and bounds, with
no hypothesis on what overlaps:

| Theorem | Says |
|---|---|
| `TypeCorrect` | `Spec => []TypeOK` |
| `OneTurnEach` | `OneTurnPerMessage`: one archived row, and each answer too many is paid for by a crash or a note that raised |
| `OwnersAreDecided` | `OwnersWereDecided`: no owner and no state without a recorded cause |
| `HandoffStands` | `HandoffIsFinal`: only a transaction that had loaded the conversation before the hand-off undoes it |
| `MovesStayLawful` | `MovesAreLawful`: a state changes to a lawful successor of the one in the copy, or to that one |
| `LinksAreStable` | `LinkIsStable`: never a second lead; a link is lost only to a copy from before it |
| `OwnersFitStates` | `OwnerMatchesState`, until the conversation is overtaken |
| `HistoryIsChain` | `OwnershipHistoryIsChain`, until the conversation is overtaken |

Any row that some transaction holds may be written back at any later time. The invariants
therefore speak of all of them: `Carried(c, row)` are the committed row of a conversation,
the copies made of it and the rows their saves have found. `RowsStep` says what a step can
do to a conversation: leave it, create it, or write back a copy with one of four changes (a touch, a
decision, a recommendation, a fall asleep); and no row is carried after it that was not
carried before or committed by it. `StepWrites` derives it from the actions, one by one, and the rest
is argued from it. `RowsSound` bounds the states a carried row can be in. `RowsAccounted`
says of each carried row that its owner was decided and announced and that its state has
its cause: a column written back comes from such a row, and decisions are only ever added.
`LinksAgree` says that all rows and calls that name a lead for a conversation name the same one, the
only one that matches; a call that finds two raises. `CopiesMade` keeps what was true of a
copy when it was made: decay took it from a live row, a turn from one that exists.

`Consistent` is about conversations that are not `overtaken`: there the copy, the row its save
has found and the committed row have one state and one owner, so that a decision adds a link
to a chain that ends in the owner of the row (`DecisionChains`), and every change fits. The
history variable is needed: what happens to such a conversation later depends on a write that the
rows no longer show. `TurnsCounted` says that each answer to a message is that of the turn the bus
remembers, or was paid for by a crash or a raising note.

### Chatwoot and the settings (`RepliesProofs`)

For any messages, administrators, settings, batch size and bounds:

| Theorem | Says |
|---|---|
| `TypeCorrect` | `Spec => []TypeOK` |
| `NothingSkipped` | `NothingIsSkipped`: a processed message has its answer in the outbox, a processed answer was sent or had nowhere to go |
| `RepetitionsAccounted` | `RepetitionsAreAccounted`: a second answer to a message is paid for by a crash or a note that raised after the commit, a second copy of an answer by a crash or a POST whose reply was lost |
| `MemoryTellsWhatWasSaid` | `MemoryIsWhatWasSaid`: without a failure a turn is remembered once and has its answer |
| `OvertakingIsExplained` | `OvertakenOnlyAfterTrouble`: an answer that is read after the answer to a later message met a failure, or its message did |
| `WorkerKeepsContract` | `KeepsContract`: for each row the worker implements `AtLeastOnce` |

`Sound` is the type with `WorkerShape` (what the worker holds at each step of a handler) and
`RowStays` (an administrator who has read a row still has one to write over). `QueueSound` says that
the rows of a batch are distinct and unsettled; `WorkIsDone` that a settled row has been worked on
and that a turn at its note has committed its answer. The counting rests on
`CopiesCounted`, `ArrivalsDistinct` (a message has one `MessageReceived`) and `AnswersCounted`, which
compares the answers of a message with the times it was taken up again. `MemorySound` ties a
remembered message to a turn that was begun and will answer, or failed.

Order goes from the rows to the screen. `RowsInOrder`: the bus goes past the rows, by doing or
failing them, in their order, because a batch holds the oldest pending rows (`BatchesAreOldest`
counts them). Hence `AnswersInOrder`: when a message is answered, each earlier one has failed or
has an older answer, which is its only one (`AnswersAreSole`). Hence `ScreenInOrder`: when an
answer is sent, the bus has gone past that older one, so that it has been shown or never will be.

For the contract, the work behind a row is counted: the answers of a message, the copies of an
answer on the screen, or that it was given up (`WorkDone`). `RowWorks` shows that a step of a
handler adds one piece to the row at the head of the batch, which is not recorded
(`QueueSound`); `WorkIsCounted` that what a batch records has one behind it; `ComingRow` that a
new row has none, since a message that has not arrived has no answer (`AnswersFollow`).

### Prompts (`PromptRegistryProofs`) and inventory (`PropertyIngestionProofs`)

| Theorem | Says |
|---|---|
| `PromptRegistryProofs!TypeCorrect` | `Spec => []TypeOK` |
| `NewestStaysActive` | the newest version that was ever activated is active, whatever overlaps |
| `TurnsGoForward` | the prompt that turns use never goes back to an older version |
| `ApartActivationsAreSafe` | `Spec /\ []ActivationsApart => []AtMostOneActive` |
| `PropertyIngestionProofs!TypeCorrect` | `Spec => []TypeOK` |
| `RowsAndEmbeddingsTogether` | a listed property has its row and its embedding, or neither |
| `EmbeddingsFit` | the embedding of a row was computed from what the row holds, except where an overtaken job wrote last |

A publication deactivates what it read as active: `QuietPublications` says what such a set may
hold while others commit, `UsedWasActivated` ties the turns to what was ever activated. `SeesAll`,
that a publication about to commit has read every version that is active, needs
`ActivationsApart`: no two publications are between the deactivation of the old version and their
commit, however else they overlap. `PromptRegistryRace` is the counterexample without it. For ingestion, `JobsAreConsistent` says what a
job in flight relies on: that the row it read is the row it will write over, which
`LocksExclude` gives once it holds the lock, or that it will fail on the unique key.

### What stays with TLC

Liveness under fairness and ENABLED are beyond the prover: `HealthyEventsProcessed`,
`MessagesAnswered`, `MirrorConverges`, `EveryCompletionAnswered`, `RetriesEnd`,
`AnsweredWhileServiceable` and `InventoryConverges` are checked on the instances. Every
other property of a passing run is stated by a theorem, some under the hypothesis named above.

## 6. What is not modelled

* Guardrail regular expressions, prompts, the wording of explanations and notes: text
  processing. `history()` of the responder reads for a debugger.
* In `LeadSync`: paging of the deal list, deleted deals, `get_lead` (a read), the
  audit of reads, and the denial of `_authorize`, which no caller in `src/app` can reach. The
  list is read at one instant. The client reads it page by page while brokers go on. If
  wacrm pages by `updated_at`, no edit is lost: it moves its deal to the end still to be
  read, or past a watermark that stays behind it. If it pages by another key, a deal edited or created
  behind the reader is missed, and a deal edited on a later page can carry the watermark past it. The
  repository does not tell which (`WACRM_API_Adaptation_Plan.md` says "the existing keyset
  pagination"), so that the theorems on the watermark hold under this assumption.
* In `Conversation`: broker directory (`owner_id` is always None), states beyond
  Recommendation other than AssignedHuman and Dormant, which no code enters yet.
* In `Recommendation`: ingestion while a search runs (the inventory is fixed), more than
  one process, and the conversation, which `Conversation` covers.
* In `PropertyIngestion`: delisting, which the code does not have.
* Authentication of a broker is one insert and a comparison; the header a PUT is authorized
  by keeps no state. Decision traces are rows in the session of their turn, and share its
  fate. Appointment and engagement are empty packages.

## 7. Plan

Modelled, checked and proved as sections 2 to 5 say: the event bus and its contract, the
conversation, lead sync, capture and recommendation, Chatwoot with the settings, prompts and
inventory. What is left, the most useful first:

1. Paging and deleted deals in `LeadSync`, with the order of pages a parameter.
2. A recommendation handled before its conversation is linked, by composing
   `Recommendation` with the link of `Conversation`.

Runs stay few: a new component takes the place of a disagreement that has been
settled in the code, or shares a run with its neighbour.
