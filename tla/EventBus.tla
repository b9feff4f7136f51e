------------------------------ MODULE EventBus ------------------------------
(***************************************************************************)
(* The internal event bus (app/shared/infrastructure/event_bus.py): a      *)
(* transactional outbox on the write side, and on the read side a polling  *)
(* worker that dispatches every unprocessed outbox row to the consumers    *)
(* registered for its event type, guarded by an inbox.                     *)
(*                                                                         *)
(* What makes it delicate is that one _drain_batch is ONE transaction over *)
(* up to BatchSize rows, while every handler it awaits opens a session of  *)
(* its own and commits by itself.  The inbox record that remembers the     *)
(* handler ran becomes durable only when the whole batch commits.          *)
(***************************************************************************)
EXTENDS Naturals, Sequences, FiniteSets

CONSTANTS
    Workers,        \* processes that run event_bus.run_forever (one per replica)
    Events,         \* outbox rows that may be written
    EventTypes,     \* names of event classes
    Consumers,      \* consumer names passed to register
    Handlers,       \* EventBusWorker._handlers: event type -> sequence of consumers
    EventType,      \* event_type column of each row
    OccurredAt,     \* occurred_at column of each row
    NoRow,          \* "no row is being dispatched"
    Poison,         \* <<consumer, event>> pairs whose handler always raises
    BatchSize,      \* settings.outbox_batch_size
    MaxAttempts,    \* bound: the attempts column saturates here; a handler that is
                    \* not poisoned has recovered by then
    MaxCrashes,     \* bound on process crashes
    MaxDeaths,      \* bound on exceptions that escape _drain_batch
    MaxLateRaises   \* bound on handlers that raise after their commit

Pairs == Consumers \X Events

ASSUME WorkersAssumption == IsFiniteSet(Workers)
ASSUME EventsAssumption ==
    /\ IsFiniteSet(Events)
    /\ EventType \in [Events -> EventTypes]
    /\ OccurredAt \in [Events -> Nat]
    /\ NoRow \notin Events
ASSUME HandlersAssumption == Handlers \in [EventTypes -> Seq(Consumers)]
ASSUME PoisonAssumption == Poison \subseteq Pairs
ASSUME BoundsAssumption ==
    /\ BatchSize \in Nat \ {0}
    /\ MaxAttempts \in Nat /\ MaxCrashes \in Nat
    /\ MaxDeaths \in Nat /\ MaxLateRaises \in Nat

\* No consumer name is registered twice for one event type (the three
\* register_event_handlers functions).
ASSUME RegisteredOnce ==
    \A t \in EventTypes : \A i, j \in DOMAIN Handlers[t] :
        Handlers[t][i] = Handlers[t][j] => i = j

HandlersOf(e) == Handlers[EventType[e]]

VARIABLES
    \* Committed rows
    outbox,      \* [Events -> {"absent", "pending", "processed"}] (processed_at)
    attempts,    \* [Events -> 0..MaxAttempts]
    inbox,       \* set of <<consumer, event>> records
    effects,     \* [Pairs -> Nat]: how often a handler's own transaction committed
    \* Each worker's open transaction
    phase,       \* "idle" polling, "batch" between rows, "row" inside
                 \* _dispatch_row, "down" crashed, "dead" task ended by an exception
    locked,      \* rows held FOR UPDATE
    todo,        \* rows of the batch not yet dispatched
    cur,         \* row being dispatched, or NoRow
    nextH,       \* index of the next handler of cur
    newInbox,    \* inbox records added, not committed
    newDone,     \* rows given a processed_at, not committed
    newFailed,   \* rows whose attempts grew, not committed
    \* Incidents so far
    crashes, deaths, lateRaises

committed == <<outbox, attempts, inbox>>
incidents == <<crashes, deaths, lateRaises>>
vars == <<outbox, attempts, inbox, effects, phase, locked, todo, cur, nextH,
          newInbox, newDone, newFailed, crashes, deaths, lateRaises>>

Phases == {"idle", "batch", "row", "down", "dead"}

Init ==
    /\ outbox = [e \in Events |-> "absent"]
    /\ attempts = [e \in Events |-> 0]
    /\ inbox = {}
    /\ effects = [x \in Pairs |-> 0]
    /\ phase = [w \in Workers |-> "idle"]
    /\ locked = [w \in Workers |-> {}]
    /\ todo = [w \in Workers |-> {}]
    /\ cur = [w \in Workers |-> NoRow]
    /\ nextH = [w \in Workers |-> 1]
    /\ newInbox = [w \in Workers |-> {}]
    /\ newDone = [w \in Workers |-> {}]
    /\ newFailed = [w \in Workers |-> {}]
    /\ crashes = 0 /\ deaths = 0 /\ lateRaises = 0

-----------------------------------------------------------------------------
(* publish: the row appears when the producer's transaction commits, which  *)
(* need not be in the order of occurred_at.                                 *)
Publish(e) ==
    /\ outbox[e] = "absent"
    /\ outbox' = [outbox EXCEPT ![e] = "pending"]
    /\ UNCHANGED <<attempts, inbox, effects, phase, locked, todo, cur, nextH,
                   newInbox, newDone, newFailed, incidents>>

\* Mutants of Selectable: a SELECT without SKIP LOCKED, and one that gives up on
\* rows that have failed.
SelectableIgnoringLocks == {e \in Events : outbox[e] = "pending"}
SelectableUntried == {e \in Events : /\ outbox[e] = "pending" /\ attempts[e] = 0
                                     /\ \A w \in Workers : e \notin locked[w]}

\* Rows the SELECT ... FOR UPDATE SKIP LOCKED may return.
Selectable == {e \in Events : /\ outbox[e] = "pending"
                              /\ \A w \in Workers : e \notin locked[w]}

\* ORDER BY occurred_at LIMIT batch_size over the rows of S.
IsBatch(b, S) ==
    /\ b \subseteq S
    /\ Cardinality(b) <= BatchSize
    /\ b = S \/ Cardinality(b) = BatchSize
    /\ \A e \in b, f \in S \ b : OccurredAt[e] <= OccurredAt[f]

\* _drain_batch's SELECT.  With no row the worker commits and sleeps, which
\* changes nothing here.
Select(w) ==
    /\ phase[w] = "idle"
    /\ \E b \in SUBSET Selectable :
          /\ b # {}
          /\ IsBatch(b, Selectable)
          /\ locked' = [locked EXCEPT ![w] = b]
          /\ todo' = [todo EXCEPT ![w] = b]
    /\ phase' = [phase EXCEPT ![w] = "batch"]
    /\ UNCHANGED <<committed, effects, cur, nextH, newInbox, newDone, newFailed,
                   incidents>>

\* The loop "for row in rows" takes the rows in the order of the SELECT.
StartRow(w) ==
    /\ phase[w] = "batch"
    /\ \E e \in todo[w] :
          /\ \A f \in todo[w] : OccurredAt[e] <= OccurredAt[f]
          /\ cur' = [cur EXCEPT ![w] = e]
          /\ todo' = [todo EXCEPT ![w] = @ \ {e}]
    /\ nextH' = [nextH EXCEPT ![w] = 1]
    /\ phase' = [phase EXCEPT ![w] = "row"]
    /\ UNCHANGED <<committed, effects, locked, newInbox, newDone, newFailed,
                   incidents>>

\* The consumer whose turn it is, paired with the row.
AtHandler(w) == phase[w] = "row" /\ nextH[w] <= Len(HandlersOf(cur[w]))
CurrentPair(w) == <<HandlersOf(cur[w])[nextH[w]], cur[w]>>

\* Mutant of AlreadyDone: no inbox lookup.
AlreadyDoneNever(w) == FALSE

\* session.get(InboxRecordORM, ...): committed records and the session's own.
AlreadyDone(w) == CurrentPair(w) \in inbox \union newInbox[w]

SkipHandled(w) ==
    /\ AtHandler(w)
    /\ AlreadyDone(w)
    /\ nextH' = [nextH EXCEPT ![w] = @ + 1]
    /\ UNCHANGED <<committed, effects, phase, locked, todo, cur, newInbox,
                   newDone, newFailed, incidents>>

\* The handler commits its own transaction and returns; the inbox record is
\* added to the batch's session.
HandlerSucceeds(w) ==
    /\ AtHandler(w)
    /\ ~AlreadyDone(w)
    /\ CurrentPair(w) \notin Poison
    /\ effects' = [effects EXCEPT ![CurrentPair(w)] = @ + 1]
    /\ newInbox' = [newInbox EXCEPT ![w] = @ \union {CurrentPair(w)}]
    /\ nextH' = [nextH EXCEPT ![w] = @ + 1]
    /\ UNCHANGED <<committed, phase, locked, todo, cur, newDone, newFailed,
                   incidents>>

\* Mutant of LeaveRow: the index of the next handler restarts one too low.
LeaveRowOffByOne(w) ==
    /\ phase' = [phase EXCEPT ![w] = "batch"]
    /\ cur' = [cur EXCEPT ![w] = NoRow]
    /\ nextH' = [nextH EXCEPT ![w] = 0]

\* _dispatch_row returns to the loop over the batch.
LeaveRow(w) ==
    /\ phase' = [phase EXCEPT ![w] = "batch"]
    /\ cur' = [cur EXCEPT ![w] = NoRow]
    /\ nextH' = [nextH EXCEPT ![w] = 1]

\* Mutants of ContainFailure: the except block falls through to processed_at, or
\* goes on with the next handler.
ContainFailureAsProcessed(w) ==
    /\ newFailed' = [newFailed EXCEPT ![w] = @ \union {cur[w]}]
    /\ newDone' = [newDone EXCEPT ![w] = @ \union {cur[w]}]
    /\ LeaveRow(w)
    /\ UNCHANGED <<committed, locked, todo, newInbox>>
ContainFailureAndContinue(w) ==
    /\ newFailed' = [newFailed EXCEPT ![w] = @ \union {cur[w]}]
    /\ nextH' = [nextH EXCEPT ![w] = @ + 1]
    /\ UNCHANGED <<committed, phase, cur, locked, todo, newInbox, newDone>>

\* except Exception: attempts += 1, last_error, return: the row stays
\* unprocessed and the consumers after the failing one do not run.
ContainFailure(w) ==
    /\ newFailed' = [newFailed EXCEPT ![w] = @ \union {cur[w]}]
    /\ LeaveRow(w)
    /\ UNCHANGED <<committed, locked, todo, newInbox, newDone>>

\* The handler raises and its session is rolled back.
HandlerRaises(w) ==
    /\ AtHandler(w)
    /\ ~AlreadyDone(w)
    /\ CurrentPair(w) \in Poison \/ attempts[cur[w]] < MaxAttempts
    /\ ContainFailure(w)
    /\ UNCHANGED <<effects, incidents>>

\* The handler's work is done and it raises all the same: a Chatwoot POST that
\* times out after delivery, a COMMIT whose acknowledgement is lost, an error
\* of the sidebar call made after the commit.
HandlerRaisesLate(w) ==
    /\ AtHandler(w)
    /\ ~AlreadyDone(w)
    /\ CurrentPair(w) \notin Poison
    /\ lateRaises < MaxLateRaises
    /\ effects' = [effects EXCEPT ![CurrentPair(w)] = @ + 1]
    /\ ContainFailure(w)
    /\ lateRaises' = lateRaises + 1
    /\ UNCHANGED <<crashes, deaths>>

\* The loop over the handlers ends: row.processed_at = now.
FinishRow(w) ==
    /\ phase[w] = "row"
    /\ nextH[w] > Len(HandlersOf(cur[w]))
    /\ newDone' = [newDone EXCEPT ![w] = @ \union {cur[w]}]
    /\ LeaveRow(w)
    /\ UNCHANGED <<committed, effects, locked, todo, newInbox, newFailed,
                   incidents>>

-----------------------------------------------------------------------------
\* The transaction ends and releases its row locks.
EndTransaction(w, next) ==
    /\ phase' = [phase EXCEPT ![w] = next]
    /\ locked' = [locked EXCEPT ![w] = {}]
    /\ todo' = [todo EXCEPT ![w] = {}]
    /\ newInbox' = [newInbox EXCEPT ![w] = {}]
    /\ newDone' = [newDone EXCEPT ![w] = {}]
    /\ newFailed' = [newFailed EXCEPT ![w] = {}]
    /\ cur' = [cur EXCEPT ![w] = NoRow]
    /\ nextH' = [nextH EXCEPT ![w] = 1]

\* session_scope's commit at the end of _drain_batch.
CommitBatch(w) ==
    /\ phase[w] = "batch"
    /\ todo[w] = {}
    /\ inbox' = inbox \union newInbox[w]
    /\ outbox' = [e \in Events |->
                    IF e \in newDone[w] THEN "processed" ELSE outbox[e]]
    /\ attempts' = [e \in Events |->
                      IF e \in newFailed[w] /\ attempts[e] < MaxAttempts
                      THEN attempts[e] + 1 ELSE attempts[e]]
    /\ EndTransaction(w, "idle")
    /\ UNCHANGED <<effects, incidents>>

\* The process dies (or is cancelled at shutdown): the transaction rolls back.
Crash(w) ==
    /\ phase[w] \in {"idle", "batch", "row"}
    /\ crashes < MaxCrashes
    /\ EndTransaction(w, "down")
    /\ crashes' = crashes + 1
    /\ UNCHANGED <<committed, effects, deaths, lateRaises>>

\* The process starts again and its lifespan creates a new worker task.
Restart(w) ==
    /\ phase[w] = "down"
    /\ phase' = [phase EXCEPT ![w] = "idle"]
    /\ UNCHANGED <<committed, effects, locked, todo, cur, nextH, newInbox,
                   newDone, newFailed, incidents>>

\* A database error in the SELECT, in the inbox lookup or in the batch's COMMIT
\* is outside the try of _dispatch_row and run_forever has none: the task
\* ends, the process lives on.
DrainRaises(w) ==
    /\ phase[w] \in {"idle", "batch", "row"}
    /\ deaths < MaxDeaths
    /\ EndTransaction(w, "dead")
    /\ deaths' = deaths + 1
    /\ UNCHANGED <<committed, effects, crashes, lateRaises>>

WorkerStep(w) ==
    \/ Select(w) \/ StartRow(w) \/ SkipHandled(w) \/ HandlerSucceeds(w)
    \/ HandlerRaises(w) \/ FinishRow(w) \/ CommitBatch(w)

Next ==
    \/ \E e \in Events : Publish(e)
    \/ \E w \in Workers :
          \/ WorkerStep(w) \/ HandlerRaisesLate(w)
          \/ Crash(w) \/ Restart(w) \/ DrainRaises(w)

Spec == Init /\ [][Next]_vars

\* run_forever is an asyncio task: while the process lives it is scheduled again
\* and again; a crashed process is started again by its supervisor.
Fairness == \A w \in Workers : WF_vars(WorkerStep(w)) /\ WF_vars(Restart(w))
FairSpec == Spec /\ Fairness

-----------------------------------------------------------------------------
(* The contract the bus implements: what is committed, seen without the     *)
(* workers and their open transactions.                                     *)
Contract == INSTANCE AtLeastOnce WITH
    Subscribers <- [e \in Events |-> {HandlersOf(e)[i] : i \in DOMAIN HandlersOf(e)}],
    published <- {e \in Events : outbox[e] # "absent"},
    done <- {e \in Events : outbox[e] = "processed"},
    handled <- inbox

-----------------------------------------------------------------------------
(* Properties                                                              *)

TypeOK ==
    /\ outbox \in [Events -> {"absent", "pending", "processed"}]
    /\ attempts \in [Events -> 0..MaxAttempts]
    /\ inbox \subseteq Pairs
    /\ effects \in [Pairs -> Nat]
    /\ phase \in [Workers -> Phases]
    /\ locked \in [Workers -> SUBSET Events]
    /\ todo \in [Workers -> SUBSET Events]
    /\ cur \in [Workers -> Events \union {NoRow}]
    /\ nextH \in [Workers -> Nat \ {0}]
    /\ newInbox \in [Workers -> SUBSET Pairs]
    /\ newDone \in [Workers -> SUBSET Events]
    /\ newFailed \in [Workers -> SUBSET Events]
    /\ crashes \in Nat /\ deaths \in Nat /\ lateRaises \in Nat

\* An outbox row that carries processed_at has really been handled: every
\* consumer registered for its type has committed its work at least once,
\* whatever crashed, failed or ran concurrently in between.
ProcessedWasHandled ==
    \A e \in Events : outbox[e] = "processed" =>
        \A i \in DOMAIN HandlersOf(e) : effects[<<HandlersOf(e)[i], e>>] >= 1

\* A consumer's work for an event is repeated only as often as a process
\* crashed, a worker task died or a handler raised after its commit: concurrent
\* workers alone (FOR UPDATE SKIP LOCKED) never run a handler twice.
RepeatsNeedIncidents ==
    \A x \in Pairs : effects[x] <= 1 + crashes + deaths + lateRaises

\* Consumers of one event do their work in registration order: the wacrm push
\* of ProfileCompleted has committed before the recommendation for it is sent,
\* in every retry too (_dispatch_row returns at the first failure).
RegistrationOrder ==
    \A e \in Events : \A i, j \in DOMAIN HandlersOf(e) :
        (i < j /\ effects[<<HandlersOf(e)[j], e>>] >= 1)
            => effects[<<HandlersOf(e)[i], e>>] >= 1

\* The bus implements the at-least-once contract of AtLeastOnce: work only for
\* published, unfinished, unhandled pairs; handled only after durable work;
\* processed only once every subscriber is handled.
ImplementsContract == Contract!Spec

\* What event_bus.publish promises its callers, under fair scheduling: an event
\* none of whose consumers is broken is eventually processed.
Healthy(e) == \A c \in Consumers : <<c, e>> \notin Poison
HealthyEventsProcessed ==
    \A e \in Events : Healthy(e) => (outbox[e] = "pending" ~> outbox[e] = "processed")
=============================================================================
