-------------------------- MODULE EventBusProofs --------------------------
(***************************************************************************)
(* Proofs about EventBus for every set of workers, events and consumers,   *)
(* every subscription table and every batch size.  The inductive invariant *)
(* IInv adds to the properties what they rest on: which rows an open       *)
(* transaction may touch, that two transactions never share one, and what  *)
(* the handlers already passed have left behind.                           *)
(***************************************************************************)
EXTENDS EventBus, TLAPS

\* The phases in which _drain_batch has a transaction open.
InBatch(w) == phase[w] \in {"batch", "row"}

\* Outside a batch nothing is held; inside one every pending write concerns a
\* locked row that is still unprocessed, and a row is current in phase "row".
TransactionShape ==
    \A w \in Workers :
        /\ ~InBatch(w) => /\ locked[w] = {} /\ newInbox[w] = {}
                          /\ newDone[w] = {}
        /\ \A e \in locked[w] : outbox[e] = "pending"
        /\ todo[w] \subseteq locked[w]
        /\ newDone[w] \subseteq locked[w]
        /\ \A x \in newInbox[w] : x[2] \in locked[w]
        /\ phase[w] = "row" => cur[w] \in locked[w]

\* FOR UPDATE: no row is in two open batches.
LocksExclusive ==
    \A v, w \in Workers : v # w => locked[v] \intersect locked[w] = {}

\* Every record, committed or not, was preceded by the consumer's work.
RecordsFollowWork ==
    /\ \A x \in inbox : effects[x] >= 1
    /\ \A w \in Workers : \A x \in newInbox[w] : effects[x] >= 1

\* _dispatch_row has a record for every handler it went past, and processed_at
\* is only given to a row all of whose handlers have one.
HandlersPassed ==
    \A w \in Workers :
        /\ phase[w] = "row" =>
             \A i \in DOMAIN HandlersOf(cur[w]) :
                 i < nextH[w] => <<HandlersOf(cur[w])[i], cur[w]>> \in inbox \union newInbox[w]
        /\ \A e \in newDone[w] : \A i \in DOMAIN HandlersOf(e) :
             <<HandlersOf(e)[i], e>> \in inbox \union newInbox[w]

\* A processed row has a committed record for every consumer.
ProcessedRecorded ==
    \A e \in Events : outbox[e] = "processed" =>
        \A i \in DOMAIN HandlersOf(e) : <<HandlersOf(e)[i], e>> \in inbox

\* x has a record, committed or pending in some batch.
Recorded(x) == x \in inbox \/ \E w \in Workers : x \in newInbox[w]

\* Work beyond the incidents is exactly the work some record remembers.
WorkIsAccounted ==
    \A x \in Pairs :
        /\ effects[x] <= 1 + crashes + deaths + lateRaises
        /\ ~Recorded(x) => effects[x] <= crashes + deaths + lateRaises

IInv ==
    /\ TypeOK
    /\ TransactionShape
    /\ LocksExclusive
    /\ RecordsFollowWork
    /\ HandlersPassed
    /\ ProcessedRecorded
    /\ WorkIsAccounted
    /\ RegistrationOrder

-----------------------------------------------------------------------------
\* The handlers of a row are a finite sequence of consumers.
LEMMA HandlersTyped ==
    ASSUME NEW e \in Events
    PROVE  /\ HandlersOf(e) \in Seq(Consumers)
           /\ Len(HandlersOf(e)) \in Nat
           /\ DOMAIN HandlersOf(e) = 1..Len(HandlersOf(e))
           /\ \A i \in DOMAIN HandlersOf(e) : /\ HandlersOf(e)[i] \in Consumers
                                              /\ <<HandlersOf(e)[i], e>> \in Pairs
<1>1. HandlersOf(e) \in Seq(Consumers)
  BY EventsAssumption, HandlersAssumption DEF HandlersOf
<1> QED
  BY <1>1 DEF Pairs

\* In phase "row" with handlers left, the current pair is a pair.
LEMMA CurrentPairTyped ==
    ASSUME TypeOK, TransactionShape, NEW w \in Workers, AtHandler(w)
    PROVE  /\ cur[w] \in Events /\ cur[w] \in locked[w]
           /\ nextH[w] \in DOMAIN HandlersOf(cur[w])
           /\ CurrentPair(w) \in Pairs
           /\ CurrentPair(w)[2] = cur[w]
<1>1. cur[w] \in locked[w] /\ cur[w] \in Events
  BY DEF AtHandler, TransactionShape, TypeOK
<1>2. nextH[w] \in 1..Len(HandlersOf(cur[w]))
  BY <1>1, HandlersTyped DEF AtHandler, TypeOK
<1> QED
  BY <1>1, <1>2, HandlersTyped DEF CurrentPair

\* TypeOK and TransactionShape are inductive together.
LEMMA TypeStep == TypeOK /\ TransactionShape /\ [Next]_vars => TypeOK'
<1> SUFFICES ASSUME TypeOK, TransactionShape, [Next]_vars
             PROVE  TypeOK'
  OBVIOUS
<1> USE EventsAssumption, BoundsAssumption
<1>1. ASSUME NEW e \in Events, Publish(e) PROVE TypeOK'
  BY <1>1 DEF Publish, TypeOK, incidents
<1>2. ASSUME NEW w \in Workers, Select(w) PROVE TypeOK'
  BY <1>2 DEF Select, Selectable, TypeOK, Phases, committed, incidents
<1>3. ASSUME NEW w \in Workers, StartRow(w) PROVE TypeOK'
  BY <1>3 DEF StartRow, TypeOK, Phases, committed, incidents
<1>4. ASSUME NEW w \in Workers, SkipHandled(w) PROVE TypeOK'
  BY <1>4 DEF SkipHandled, TypeOK, committed, incidents
<1>5. ASSUME NEW w \in Workers, HandlerSucceeds(w) PROVE TypeOK'
  <2>1. CurrentPair(w) \in Pairs
    BY <1>5, CurrentPairTyped DEF HandlerSucceeds
  <2> QED
    BY <1>5, <2>1 DEF HandlerSucceeds, TypeOK, committed, incidents
<1>6. ASSUME NEW w \in Workers, ContainFailure(w), cur[w] \in Events,
             effects' \in [Pairs -> Nat],
             crashes' \in Nat, deaths' \in Nat, lateRaises' \in Nat
      PROVE  TypeOK'
  BY <1>6 DEF ContainFailure, LeaveRow, TypeOK, Phases, committed
<1>7. ASSUME NEW w \in Workers, HandlerRaises(w) PROVE TypeOK'
  <2>1. cur[w] \in Events
    BY <1>7, CurrentPairTyped DEF HandlerRaises
  <2> QED
    BY <1>6, <1>7, <2>1 DEF HandlerRaises, TypeOK, incidents
<1>8. ASSUME NEW w \in Workers, HandlerRaisesLate(w) PROVE TypeOK'
  <2>1. cur[w] \in Events /\ CurrentPair(w) \in Pairs
    BY <1>8, CurrentPairTyped DEF HandlerRaisesLate
  <2>2. effects' \in [Pairs -> Nat]
    BY <1>8, <2>1 DEF HandlerRaisesLate, TypeOK
  <2> QED
    BY <1>6, <1>8, <2>1, <2>2 DEF HandlerRaisesLate, TypeOK
<1>9. ASSUME NEW w \in Workers, FinishRow(w) PROVE TypeOK'
  <2>1. cur[w] \in Events
    BY <1>9 DEF FinishRow, TransactionShape, TypeOK
  <2> QED
    BY <1>9, <2>1 DEF FinishRow, LeaveRow, TypeOK, Phases, committed, incidents
<1>10. ASSUME NEW w \in Workers, CommitBatch(w) PROVE TypeOK'
  BY <1>10 DEF CommitBatch, EndTransaction, TypeOK, Phases, incidents
<1>11. ASSUME NEW w \in Workers, Crash(w) PROVE TypeOK'
  BY <1>11 DEF Crash, EndTransaction, TypeOK, Phases, committed
<1>12. ASSUME NEW w \in Workers, Restart(w) PROVE TypeOK'
  BY <1>12 DEF Restart, TypeOK, Phases, committed, incidents
<1>13. ASSUME NEW w \in Workers, DrainRaises(w) PROVE TypeOK'
  BY <1>13 DEF DrainRaises, EndTransaction, TypeOK, Phases, committed
<1>14. CASE UNCHANGED vars
  BY <1>14 DEF TypeOK, vars
<1> QED
  BY <1>1, <1>2, <1>3, <1>4, <1>5, <1>7, <1>8, <1>9, <1>10, <1>11, <1>12,
     <1>13, <1>14 DEF Next, WorkerStep

-----------------------------------------------------------------------------
\* Publishing adds an unprocessed row that no batch holds.
LEMMA PublishStep ==
    ASSUME IInv, TypeOK', NEW e \in Events, Publish(e) PROVE IInv'
<1> USE DEF IInv
<1>1. UNCHANGED <<inbox, effects, phase, locked, todo, cur, nextH, newInbox,
                  newDone, crashes, deaths, lateRaises>>
  BY DEF Publish, incidents
<1>2. \A f \in Events : /\ outbox[f] = "pending" => outbox'[f] = "pending"
                        /\ outbox'[f] = "processed" => outbox[f] = "processed"
  BY DEF Publish, TypeOK
<1>3. TransactionShape'
  BY <1>1, <1>2 DEF TransactionShape, InBatch, TypeOK
<1>4. LocksExclusive' /\ RecordsFollowWork' /\ HandlersPassed' /\ RegistrationOrder'
  BY <1>1 DEF LocksExclusive, RecordsFollowWork, HandlersPassed, RegistrationOrder
<1>5. ProcessedRecorded'
  BY <1>1, <1>2 DEF ProcessedRecorded
<1>6. WorkIsAccounted'
  BY <1>1 DEF WorkIsAccounted, Recorded
<1> QED
  BY <1>3, <1>4, <1>5, <1>6

\* A SELECT takes rows nobody holds.
LEMMA SelectStep ==
    ASSUME IInv, TypeOK', NEW w \in Workers, Select(w) PROVE IInv'
<1> USE DEF IInv
<1>1. UNCHANGED <<outbox, inbox, effects, cur, nextH, newInbox, newDone,
                  crashes, deaths, lateRaises>>
  BY DEF Select, committed, incidents
<1>2. PICK b \in SUBSET Selectable : /\ locked' = [locked EXCEPT ![w] = b]
                                     /\ todo' = [todo EXCEPT ![w] = b]
  BY DEF Select
<1>3. phase[w] = "idle" /\ phase' = [phase EXCEPT ![w] = "batch"]
  BY DEF Select
<1>4. TransactionShape'
  BY <1>1, <1>2, <1>3 DEF TransactionShape, InBatch, TypeOK, Selectable
<1>5. LocksExclusive'
  BY <1>2 DEF LocksExclusive, TypeOK, Selectable
<1>6. HandlersPassed'
  BY <1>1, <1>3 DEF HandlersPassed, TypeOK
<1>7. RecordsFollowWork' /\ ProcessedRecorded' /\ RegistrationOrder'
  BY <1>1 DEF RecordsFollowWork, ProcessedRecorded, RegistrationOrder
<1>8. WorkIsAccounted'
  BY <1>1 DEF WorkIsAccounted, Recorded
<1> QED
  BY <1>4, <1>5, <1>6, <1>7, <1>8

\* Starting a row: no handler of it has been passed yet.
LEMMA StartRowStep ==
    ASSUME IInv, TypeOK', NEW w \in Workers, StartRow(w) PROVE IInv'
<1> USE DEF IInv
<1>1. UNCHANGED <<outbox, inbox, effects, locked, newInbox, newDone,
                  crashes, deaths, lateRaises>>
  BY DEF StartRow, committed, incidents
<1>2. PICK e \in todo[w] : /\ cur' = [cur EXCEPT ![w] = e]
                           /\ todo' = [todo EXCEPT ![w] = @ \ {e}]
  BY DEF StartRow
<1>3. /\ phase[w] = "batch" /\ phase' = [phase EXCEPT ![w] = "row"]
      /\ nextH' = [nextH EXCEPT ![w] = 1]
  BY DEF StartRow
<1>4. TransactionShape'
  BY <1>1, <1>2, <1>3 DEF TransactionShape, InBatch, TypeOK
<1>5. HandlersPassed'
  <2>1. e \in Events /\ nextH'[w] = 1 /\ cur'[w] = e
    BY <1>2, <1>3 DEF TypeOK
  <2>2. \A i \in DOMAIN HandlersOf(e) : ~(i < nextH'[w])
    BY <2>1, HandlersTyped
  <2>3. \A v \in Workers : v # w => /\ cur'[v] = cur[v] /\ nextH'[v] = nextH[v]
                                     /\ phase'[v] = phase[v]
    BY <1>2, <1>3 DEF TypeOK
  <2> QED
    BY <1>1, <2>1, <2>2, <2>3 DEF HandlersPassed
<1>6. LocksExclusive' /\ RecordsFollowWork' /\ ProcessedRecorded' /\ RegistrationOrder'
  BY <1>1 DEF LocksExclusive, RecordsFollowWork, ProcessedRecorded, RegistrationOrder
<1>7. WorkIsAccounted'
  BY <1>1 DEF WorkIsAccounted, Recorded
<1> QED
  BY <1>4, <1>5, <1>6, <1>7

\* Skipping a handler that has a record: one more handler is passed.
LEMMA SkipStep ==
    ASSUME IInv, TypeOK', NEW w \in Workers, SkipHandled(w) PROVE IInv'
<1> USE DEF IInv
<1>1. UNCHANGED <<outbox, inbox, effects, phase, locked, todo, cur, newInbox,
                  newDone, crashes, deaths, lateRaises>>
  BY DEF SkipHandled, committed, incidents
<1>2. nextH' = [nextH EXCEPT ![w] = @ + 1]
  BY DEF SkipHandled
<1>3. /\ <<HandlersOf(cur[w])[nextH[w]], cur[w]>> \in inbox \union newInbox[w]
      /\ cur[w] \in Events
  BY CurrentPairTyped DEF SkipHandled, AlreadyDone, CurrentPair
<1>4. TransactionShape'
  BY <1>1 DEF TransactionShape, InBatch
<1>5. HandlersPassed'
  <2>1. \A i \in DOMAIN HandlersOf(cur[w]) : i < nextH'[w] => i < nextH[w] \/ i = nextH[w]
    BY <1>2, <1>3, HandlersTyped DEF TypeOK
  <2>2. \A v \in Workers : v # w => nextH'[v] = nextH[v]
    BY <1>2 DEF TypeOK
  <2> QED
    BY <1>1, <1>3, <2>1, <2>2 DEF HandlersPassed
<1>6. LocksExclusive' /\ RecordsFollowWork' /\ ProcessedRecorded' /\ RegistrationOrder'
  BY <1>1 DEF LocksExclusive, RecordsFollowWork, ProcessedRecorded, RegistrationOrder
<1>7. WorkIsAccounted'
  BY <1>1 DEF WorkIsAccounted, Recorded
<1> QED
  BY <1>4, <1>5, <1>6, <1>7

-----------------------------------------------------------------------------
\* A handler that runs has no record anywhere: not in this batch by the inbox
\* check, not in another one because the row is locked here.
LEMMA RunningIsUnrecorded ==
    ASSUME IInv, NEW w \in Workers, AtHandler(w), ~AlreadyDone(w)
    PROVE  ~Recorded(CurrentPair(w))
<1>1. cur[w] \in locked[w] /\ CurrentPair(w)[2] = cur[w]
  BY CurrentPairTyped DEF IInv
<1>2. ASSUME NEW v \in Workers, CurrentPair(w) \in newInbox[v] PROVE FALSE
  <2>1. v # w
    BY <1>2 DEF AlreadyDone
  <2>2. cur[w] \in locked[v]
    BY <1>1, <1>2 DEF IInv, TransactionShape
  <2> QED
    BY <1>1, <2>1, <2>2 DEF IInv, LocksExclusive
<1> QED
  BY <1>2 DEF AlreadyDone, Recorded

\* Work of the current handler keeps the registration order: the handlers
\* before it have records, hence work.
LEMMA WorkKeepsOrder ==
    ASSUME IInv, TypeOK', NEW w \in Workers, AtHandler(w),
           effects' = [effects EXCEPT ![CurrentPair(w)] = @ + 1]
    PROVE  /\ RegistrationOrder'
           /\ \A x \in Pairs : effects'[x] >= effects[x]
<1> DEFINE e == cur[w]
           n == nextH[w]
<1>1. e \in Events /\ n \in DOMAIN HandlersOf(e) /\ CurrentPair(w) \in Pairs
  BY CurrentPairTyped DEF IInv
<1>2. CurrentPair(w) = <<HandlersOf(e)[n], e>>
  BY DEF CurrentPair
<1>3. \A x \in Pairs : /\ effects'[x] >= effects[x]
                       /\ x # CurrentPair(w) => effects'[x] = effects[x]
  BY <1>1 DEF IInv, TypeOK
<1>4. \A i \in DOMAIN HandlersOf(e) : i < n => effects[<<HandlersOf(e)[i], e>>] >= 1
  BY <1>1 DEF IInv, HandlersPassed, RecordsFollowWork, AtHandler
<1>5. ASSUME NEW f \in Events, NEW i \in DOMAIN HandlersOf(f), NEW j \in DOMAIN HandlersOf(f),
             i < j, effects'[<<HandlersOf(f)[j], f>>] >= 1
      PROVE  effects'[<<HandlersOf(f)[i], f>>] >= 1
  <2> DEFINE xi == <<HandlersOf(f)[i], f>>
             xj == <<HandlersOf(f)[j], f>>
  <2>1. xi \in Pairs /\ xj \in Pairs /\ effects[xi] \in Nat /\ effects'[xi] \in Nat
    BY HandlersTyped DEF IInv, TypeOK
  <2>2. CASE effects[xj] >= 1
    <3>1. effects[xi] >= 1
      BY <1>5, <2>2 DEF IInv, RegistrationOrder
    <3> QED
      BY <3>1, <1>3, <2>1
  <2>3. CASE ~(effects[xj] >= 1)
    <3>1. xj = CurrentPair(w)
      BY <1>3, <1>5, <2>1, <2>3
    <3>2. f = e /\ HandlersOf(f)[j] = HandlersOf(e)[n]
      BY <3>1, <1>2
    <3>3. j = n
      <4>1. EventType[e] \in EventTypes
        BY <1>1, EventsAssumption
      <4> QED
        BY <4>1, <3>2, <1>1, RegisteredOnce DEF HandlersOf
    <3>4. effects[xi] >= 1
      BY <1>4, <1>5, <3>2, <3>3
    <3> QED
      BY <3>4, <1>3, <2>1
  <2> QED
    BY <2>2, <2>3
<1> QED
  BY <1>3, <1>5 DEF RegistrationOrder

\* A handler runs and its record joins the batch.
LEMMA SucceedStep ==
    ASSUME IInv, TypeOK', NEW w \in Workers, HandlerSucceeds(w) PROVE IInv'
<1> USE DEF IInv
<1> DEFINE x0 == CurrentPair(w)
<1>1. UNCHANGED <<outbox, inbox, phase, locked, todo, cur, newDone,
                  crashes, deaths, lateRaises>>
  BY DEF HandlerSucceeds, committed, incidents
<1>2. /\ nextH' = [nextH EXCEPT ![w] = @ + 1]
      /\ newInbox' = [newInbox EXCEPT ![w] = @ \union {x0}]
      /\ effects' = [effects EXCEPT ![x0] = @ + 1]
      /\ AtHandler(w)
  BY DEF HandlerSucceeds
<1>3. /\ cur[w] \in Events /\ cur[w] \in locked[w] /\ x0 \in Pairs /\ x0[2] = cur[w]
      /\ ~Recorded(x0)
  BY <1>2, CurrentPairTyped, RunningIsUnrecorded DEF HandlerSucceeds
<1>4. RegistrationOrder' /\ \A x \in Pairs : effects'[x] >= effects[x]
  BY <1>2, WorkKeepsOrder
<1>5. \A v \in Workers : \A x \in newInbox'[v] : x \in newInbox[v] \/ (v = w /\ x = x0)
  BY <1>2 DEF TypeOK
<1>6. \A v \in Workers : newInbox[v] \subseteq newInbox'[v]
  BY <1>2 DEF TypeOK
<1>7. TransactionShape'
  <2>1. \A v \in Workers : \A x \in newInbox'[v] : x[2] \in locked'[v]
    BY <1>1, <1>3, <1>5 DEF TransactionShape
  <2>2. InBatch(w)
    BY <1>2 DEF AtHandler, InBatch
  <2> QED
    BY <1>1, <1>2, <2>1, <2>2 DEF TransactionShape, InBatch, TypeOK
<1>8. RecordsFollowWork'
  <2>1. effects'[x0] >= 1 /\ effects' \in [Pairs -> Nat] /\ effects \in [Pairs -> Nat]
    BY <1>2, <1>3 DEF TypeOK
  <2>2. inbox \subseteq Pairs /\ \A v \in Workers : newInbox[v] \subseteq Pairs
    BY DEF TypeOK
  <2> QED
    BY <1>1, <1>4, <1>5, <2>1, <2>2 DEF RecordsFollowWork
<1>9. HandlersPassed'
  <2>1. \A i \in DOMAIN HandlersOf(cur[w]) : i < nextH'[w] => i < nextH[w] \/ i = nextH[w]
    BY <1>2, <1>3, HandlersTyped DEF TypeOK
  <2>2. \A v \in Workers : v # w => nextH'[v] = nextH[v]
    BY <1>2 DEF TypeOK
  <2>3. <<HandlersOf(cur[w])[nextH[w]], cur[w]>> \in newInbox'[w]
    BY <1>2 DEF TypeOK, CurrentPair
  <2> QED
    BY <1>1, <1>6, <2>1, <2>2, <2>3 DEF HandlersPassed
<1>10. WorkIsAccounted'
  <2>1. \A x \in Pairs : x = x0 => Recorded(x)'
    BY <1>2 DEF Recorded, TypeOK
  <2>2. \A x \in Pairs : Recorded(x) => Recorded(x)'
    BY <1>1, <1>6 DEF Recorded
  <2>3. effects'[x0] = effects[x0] + 1 /\ \A x \in Pairs : x # x0 => effects'[x] = effects[x]
    BY <1>2, <1>3 DEF TypeOK
  <2>4. effects[x0] <= crashes + deaths + lateRaises
    BY <1>3 DEF WorkIsAccounted
  <2>5. /\ effects \in [Pairs -> Nat] /\ crashes \in Nat /\ deaths \in Nat /\ lateRaises \in Nat
    BY DEF TypeOK
  <2> QED
    BY <1>1, <1>3, <2>1, <2>2, <2>3, <2>4, <2>5 DEF WorkIsAccounted
<1>11. LocksExclusive' /\ ProcessedRecorded'
  BY <1>1 DEF LocksExclusive, ProcessedRecorded
<1> QED
  BY <1>4, <1>7, <1>8, <1>9, <1>10, <1>11

\* A contained failure leaves the row; nothing that was recorded is forgotten.
LEMMA ContainKeeps ==
    ASSUME IInv, TypeOK', NEW w \in Workers, phase[w] = "row", ContainFailure(w)
    PROVE  /\ TransactionShape' /\ LocksExclusive' /\ HandlersPassed' /\ ProcessedRecorded'
           /\ UNCHANGED <<inbox, newInbox>>
<1> USE DEF IInv
<1>1. UNCHANGED <<outbox, inbox, locked, todo, newInbox, newDone>>
  BY DEF ContainFailure, committed
<1>2. /\ phase' = [phase EXCEPT ![w] = "batch"]
      /\ cur' = [cur EXCEPT ![w] = NoRow]
      /\ nextH' = [nextH EXCEPT ![w] = 1]
  BY DEF ContainFailure, LeaveRow
<1>3. TransactionShape'
  BY <1>1, <1>2 DEF TransactionShape, InBatch, TypeOK
<1>4. HandlersPassed'
  <2>1. \A v \in Workers : phase'[v] = "row" =>
          v # w /\ phase[v] = "row" /\ cur'[v] = cur[v] /\ nextH'[v] = nextH[v]
    BY <1>2 DEF TypeOK
  <2> QED
    BY <1>1, <2>1 DEF HandlersPassed
<1> QED
  BY <1>1, <1>3, <1>4 DEF LocksExclusive, ProcessedRecorded

\* The handler raises before its commit.
LEMMA RaiseStep ==
    ASSUME IInv, TypeOK', NEW w \in Workers, HandlerRaises(w) PROVE IInv'
<1> USE DEF IInv
<1>1. UNCHANGED <<effects, crashes, deaths, lateRaises>>
  BY DEF HandlerRaises, incidents
<1>2. /\ TransactionShape' /\ LocksExclusive' /\ HandlersPassed' /\ ProcessedRecorded'
      /\ UNCHANGED <<inbox, newInbox>>
  BY ContainKeeps DEF HandlerRaises, AtHandler
<1>3. RecordsFollowWork' /\ RegistrationOrder'
  BY <1>1, <1>2 DEF RecordsFollowWork, RegistrationOrder
<1>4. WorkIsAccounted'
  BY <1>1, <1>2 DEF WorkIsAccounted, Recorded
<1> QED
  BY <1>2, <1>3, <1>4

\* The handler raises after its commit: unrecorded work, and one more incident.
LEMMA RaiseLateStep ==
    ASSUME IInv, TypeOK', NEW w \in Workers, HandlerRaisesLate(w) PROVE IInv'
<1> USE DEF IInv
<1>1. /\ AtHandler(w) /\ phase[w] = "row" /\ lateRaises' = lateRaises + 1
      /\ UNCHANGED <<crashes, deaths>>
      /\ effects' = [effects EXCEPT ![CurrentPair(w)] = @ + 1]
  BY DEF HandlerRaisesLate, AtHandler
<1>2. /\ TransactionShape' /\ LocksExclusive' /\ HandlersPassed' /\ ProcessedRecorded'
      /\ UNCHANGED <<inbox, newInbox>>
  BY <1>1, ContainKeeps DEF HandlerRaisesLate
<1>3. RegistrationOrder' /\ \A x \in Pairs : effects'[x] >= effects[x]
  BY <1>1, WorkKeepsOrder
<1>4. /\ effects \in [Pairs -> Nat] /\ effects' \in [Pairs -> Nat]
      /\ crashes \in Nat /\ deaths \in Nat /\ lateRaises \in Nat
      /\ inbox \subseteq Pairs /\ \A v \in Workers : newInbox[v] \subseteq Pairs
  BY DEF TypeOK
<1>5. RecordsFollowWork'
  BY <1>2, <1>3, <1>4 DEF RecordsFollowWork
<1>6. WorkIsAccounted'
  <2>1. \A x \in Pairs : effects'[x] <= effects[x] + 1
    BY <1>1, <1>4
  <2>2. \A x \in Pairs : Recorded(x)' <=> Recorded(x)
    BY <1>2 DEF Recorded
  <2>3. ~Recorded(CurrentPair(w)) /\ CurrentPair(w) \in Pairs
    BY <1>1, RunningIsUnrecorded, CurrentPairTyped DEF HandlerRaisesLate
  <2>4. \A x \in Pairs : Recorded(x) => effects'[x] = effects[x]
    BY <1>1, <1>4, <2>3
  <2> QED
    BY <1>1, <1>4, <2>1, <2>2, <2>4 DEF WorkIsAccounted
<1> QED
  BY <1>2, <1>3, <1>5, <1>6

\* All handlers passed: the row may be called done.
LEMMA FinishStep ==
    ASSUME IInv, TypeOK', NEW w \in Workers, FinishRow(w) PROVE IInv'
<1> USE DEF IInv
<1>1. UNCHANGED <<outbox, inbox, effects, locked, todo, newInbox,
                  crashes, deaths, lateRaises>>
  BY DEF FinishRow, committed, incidents
<1>2. /\ phase[w] = "row" /\ nextH[w] > Len(HandlersOf(cur[w]))
      /\ phase' = [phase EXCEPT ![w] = "batch"]
      /\ cur' = [cur EXCEPT ![w] = NoRow]
      /\ nextH' = [nextH EXCEPT ![w] = 1]
      /\ newDone' = [newDone EXCEPT ![w] = @ \union {cur[w]}]
  BY DEF FinishRow, LeaveRow
<1>3. cur[w] \in locked[w] /\ cur[w] \in Events
  BY <1>2 DEF TransactionShape, TypeOK
<1>4. TransactionShape'
  BY <1>1, <1>2, <1>3 DEF TransactionShape, InBatch, TypeOK
<1>5. HandlersPassed'
  <2>1. \A i \in DOMAIN HandlersOf(cur[w]) :
          <<HandlersOf(cur[w])[i], cur[w]>> \in inbox \union newInbox[w]
    <3>1. \A i \in DOMAIN HandlersOf(cur[w]) : i < nextH[w]
      BY <1>2, <1>3, HandlersTyped DEF TypeOK
    <3> QED
      BY <1>2, <3>1 DEF HandlersPassed
  <2>2. \A v \in Workers : \A e \in newDone'[v] : e \in newDone[v] \/ (v = w /\ e = cur[w])
    BY <1>2 DEF TypeOK
  <2>3. \A v \in Workers : phase'[v] = "row" =>
          v # w /\ phase[v] = "row" /\ cur'[v] = cur[v] /\ nextH'[v] = nextH[v]
    BY <1>2 DEF TypeOK
  <2> QED
    BY <1>1, <2>1, <2>2, <2>3 DEF HandlersPassed
<1>6. LocksExclusive' /\ RecordsFollowWork' /\ ProcessedRecorded' /\ RegistrationOrder'
  BY <1>1 DEF LocksExclusive, RecordsFollowWork, ProcessedRecorded, RegistrationOrder
<1>7. WorkIsAccounted'
  BY <1>1 DEF WorkIsAccounted, Recorded
<1> QED
  BY <1>4, <1>5, <1>6, <1>7

\* The batch commits: its pending records become the committed ones.
LEMMA CommitStep ==
    ASSUME IInv, TypeOK', NEW w \in Workers, CommitBatch(w) PROVE IInv'
<1> USE DEF IInv
<1>1. UNCHANGED <<effects, crashes, deaths, lateRaises>>
  BY DEF CommitBatch, incidents
<1>2. /\ phase[w] = "batch" /\ phase' = [phase EXCEPT ![w] = "idle"]
      /\ locked' = [locked EXCEPT ![w] = {}]
      /\ todo' = [todo EXCEPT ![w] = {}]
      /\ newInbox' = [newInbox EXCEPT ![w] = {}]
      /\ newDone' = [newDone EXCEPT ![w] = {}]
      /\ cur' = [cur EXCEPT ![w] = NoRow]
      /\ nextH' = [nextH EXCEPT ![w] = 1]
      /\ inbox' = inbox \union newInbox[w]
      /\ outbox' = [e \in Events |->
                      IF e \in newDone[w] THEN "processed" ELSE outbox[e]]
  BY DEF CommitBatch, EndTransaction
<1>3. \A v \in Workers : v # w => /\ locked'[v] = locked[v] /\ todo'[v] = todo[v]
                                   /\ newInbox'[v] = newInbox[v]
                                   /\ newDone'[v] = newDone[v] /\ cur'[v] = cur[v]
                                   /\ nextH'[v] = nextH[v] /\ phase'[v] = phase[v]
  BY <1>2 DEF TypeOK
<1>4. /\ locked'[w] = {} /\ todo'[w] = {} /\ newInbox'[w] = {}
      /\ newDone'[w] = {} /\ phase'[w] = "idle"
  BY <1>2 DEF TypeOK
<1>5. TransactionShape'
  <2>1. \A v \in Workers : v # w => \A e \in locked[v] : outbox'[e] = outbox[e]
    BY <1>2 DEF TransactionShape, LocksExclusive, TypeOK
  <2> QED
    BY <1>3, <1>4, <2>1 DEF TransactionShape, InBatch
<1>6. LocksExclusive'
  BY <1>3, <1>4 DEF LocksExclusive
<1>7. RecordsFollowWork'
  BY <1>1, <1>2, <1>3, <1>4 DEF RecordsFollowWork
<1>8. HandlersPassed'
  <2>1. ASSUME NEW v \in Workers, phase'[v] = "row",
               NEW i \in DOMAIN HandlersOf(cur'[v]), i < nextH'[v]
        PROVE  <<HandlersOf(cur'[v])[i], cur'[v]>> \in inbox' \union newInbox'[v]
    <3>1. v # w
      BY <1>4, <2>1
    <3>2. <<HandlersOf(cur[v])[i], cur[v]>> \in inbox \union newInbox[v]
      BY <1>3, <2>1, <3>1 DEF HandlersPassed
    <3> QED
      BY <1>2, <1>3, <3>1, <3>2
  <2>2. ASSUME NEW v \in Workers, NEW e \in newDone'[v], NEW i \in DOMAIN HandlersOf(e)
        PROVE  <<HandlersOf(e)[i], e>> \in inbox' \union newInbox'[v]
    <3>1. v # w
      BY <1>4, <2>2
    <3>2. <<HandlersOf(e)[i], e>> \in inbox \union newInbox[v]
      BY <1>3, <2>2, <3>1 DEF HandlersPassed
    <3> QED
      BY <1>2, <1>3, <3>1, <3>2
  <2> QED
    BY <2>1, <2>2 DEF HandlersPassed, HandlersOf
<1>9. ProcessedRecorded'
  BY <1>2 DEF ProcessedRecorded, HandlersPassed, TypeOK
<1>10. WorkIsAccounted'
  <2>1. \A x \in Pairs : Recorded(x) => Recorded(x)'
    BY <1>2, <1>3 DEF Recorded
  <2> QED
    BY <1>1, <2>1 DEF WorkIsAccounted
<1>11. RegistrationOrder'
  BY <1>1 DEF RegistrationOrder
<1> QED
  BY <1>5, <1>6, <1>7, <1>8, <1>9, <1>10, <1>11

\* A rolled-back batch forgets its records; the incident accounts for them.
LEMMA AbortStep ==
    ASSUME IInv, TypeOK', NEW w \in Workers, NEW next \in {"down", "dead"},
           EndTransaction(w, next), UNCHANGED <<outbox, inbox, effects>>,
           lateRaises' = lateRaises,
           \/ crashes' = crashes + 1 /\ deaths' = deaths
           \/ crashes' = crashes /\ deaths' = deaths + 1
    PROVE  IInv'
<1> USE DEF IInv
<1>1. \A v \in Workers : v # w => /\ locked'[v] = locked[v] /\ todo'[v] = todo[v]
                                   /\ newInbox'[v] = newInbox[v]
                                   /\ newDone'[v] = newDone[v] /\ cur'[v] = cur[v]
                                   /\ nextH'[v] = nextH[v] /\ phase'[v] = phase[v]
  BY DEF EndTransaction, TypeOK
<1>2. /\ locked'[w] = {} /\ todo'[w] = {} /\ newInbox'[w] = {}
      /\ newDone'[w] = {} /\ phase'[w] = next
  BY DEF EndTransaction, TypeOK
<1>3. TransactionShape'
  BY <1>1, <1>2 DEF TransactionShape, InBatch
<1>4. LocksExclusive' /\ RecordsFollowWork' /\ HandlersPassed'
  BY <1>1, <1>2 DEF LocksExclusive, RecordsFollowWork, HandlersPassed
<1>5. ProcessedRecorded' /\ RegistrationOrder'
  BY DEF ProcessedRecorded, RegistrationOrder
<1>6. WorkIsAccounted'
  <2>0. /\ effects \in [Pairs -> Nat] /\ crashes \in Nat /\ deaths \in Nat
        /\ lateRaises \in Nat
    BY DEF TypeOK
  <2>1. crashes' + deaths' + lateRaises' = crashes + deaths + lateRaises + 1
    BY <2>0
  <2>2. \A x \in Pairs : effects'[x] <= crashes' + deaths' + lateRaises'
    BY <2>0, <2>1 DEF WorkIsAccounted
  <2>3. crashes' \in Nat /\ deaths' \in Nat /\ lateRaises' \in Nat /\ effects' \in [Pairs -> Nat]
    BY DEF TypeOK
  <2> QED
    BY <2>2, <2>3 DEF WorkIsAccounted
<1> QED
  BY <1>3, <1>4, <1>5, <1>6

\* A restarted process starts with nothing held.
LEMMA RestartStep ==
    ASSUME IInv, TypeOK', NEW w \in Workers, Restart(w) PROVE IInv'
<1> USE DEF IInv
<1>1. UNCHANGED <<outbox, inbox, effects, locked, todo, cur, nextH, newInbox,
                  newDone, crashes, deaths, lateRaises>>
  BY DEF Restart, committed, incidents
<1>2. phase[w] = "down" /\ phase' = [phase EXCEPT ![w] = "idle"]
  BY DEF Restart
<1>3. TransactionShape' /\ HandlersPassed'
  BY <1>1, <1>2 DEF TransactionShape, InBatch, HandlersPassed, TypeOK
<1>4. LocksExclusive' /\ RecordsFollowWork' /\ ProcessedRecorded' /\ RegistrationOrder'
  BY <1>1 DEF LocksExclusive, RecordsFollowWork, ProcessedRecorded, RegistrationOrder
<1>5. WorkIsAccounted'
  BY <1>1 DEF WorkIsAccounted, Recorded
<1> QED
  BY <1>3, <1>4, <1>5

-----------------------------------------------------------------------------
\* IInv is an invariant of the bus.
LEMMA Inductive == Spec => []IInv
<1>1. Init => IInv
  <2> SUFFICES ASSUME Init PROVE IInv
    OBVIOUS
  <2>1. TypeOK
    BY EventsAssumption, BoundsAssumption DEF Init, TypeOK, Phases, Pairs
  <2>2. \A x \in Pairs : effects[x] = 0
    BY DEF Init
  <2>3. \A e \in Events : \A i \in DOMAIN HandlersOf(e) : effects[<<HandlersOf(e)[i], e>>] = 0
    BY <2>2, HandlersTyped
  <2>4. TransactionShape /\ LocksExclusive /\ RecordsFollowWork /\ HandlersPassed /\ ProcessedRecorded
    BY DEF Init, TransactionShape, InBatch, LocksExclusive, RecordsFollowWork,
           HandlersPassed, ProcessedRecorded
  <2>5. WorkIsAccounted
    BY <2>2 DEF Init, WorkIsAccounted
  <2>6. RegistrationOrder
    BY <2>3 DEF RegistrationOrder
  <2> QED
    BY <2>1, <2>4, <2>5, <2>6 DEF IInv
<1>2. IInv /\ [Next]_vars => IInv'
  <2> SUFFICES ASSUME IInv, [Next]_vars PROVE IInv'
    OBVIOUS
  <2>1. TypeOK'
    BY TypeStep DEF IInv
  <2>2. ASSUME NEW w \in Workers, Crash(w) PROVE IInv'
    BY <2>1, <2>2, AbortStep DEF Crash, committed
  <2>3. ASSUME NEW w \in Workers, DrainRaises(w) PROVE IInv'
    BY <2>1, <2>3, AbortStep DEF DrainRaises, committed
  <2>4. CASE UNCHANGED vars
    BY <2>4 DEF vars, IInv, TypeOK, TransactionShape, InBatch, LocksExclusive,
                RecordsFollowWork, HandlersPassed, ProcessedRecorded,
                WorkIsAccounted, Recorded, RegistrationOrder
  <2> QED
    BY <2>1, <2>2, <2>3, <2>4, PublishStep, SelectStep, StartRowStep, SkipStep,
       SucceedStep, RaiseStep, RaiseLateStep, FinishStep, CommitStep, RestartStep
    DEF Next, WorkerStep
<1> QED
  BY <1>1, <1>2, PTL DEF Spec

\* Type correctness of the outbox, the inbox and the open batches.
THEOREM TypeCorrect == Spec => []TypeOK
<1>1. IInv => TypeOK
  BY DEF IInv
<1> QED
  BY <1>1, Inductive, PTL

\* A row with processed_at was handled by every registered consumer, for any
\* number of workers, rows, consumers and incidents.
THEOREM ProcessedIsHandled == Spec => []ProcessedWasHandled
<1>1. IInv => ProcessedWasHandled
  BY DEF IInv, ProcessedRecorded, RecordsFollowWork, ProcessedWasHandled
<1> QED
  BY <1>1, Inductive, PTL

\* Concurrency alone never repeats a handler: repetitions are bounded by the
\* crashes, dead tasks and late raises so far.
THEOREM RepeatsAreAccounted == Spec => []RepeatsNeedIncidents
<1>1. IInv => RepeatsNeedIncidents
  BY DEF IInv, WorkIsAccounted, RepeatsNeedIncidents
<1> QED
  BY <1>1, Inductive, PTL

\* Consumers of an event work in registration order.
THEOREM OrderIsKept == Spec => []RegistrationOrder
<1>1. IInv => RegistrationOrder
  BY DEF IInv
<1> QED
  BY <1>1, Inductive, PTL

-----------------------------------------------------------------------------
\* The subscribers the contract sees are the registered handlers.
Subs == [e \in Events |-> {HandlersOf(e)[i] : i \in DOMAIN HandlersOf(e)}]
Published == {e \in Events : outbox[e] # "absent"}
Done == {e \in Events : outbox[e] = "processed"}

\* A handler's commit is the contract's Work.
LEMMA WorkRefines ==
    ASSUME IInv, NEW w \in Workers, AtHandler(w), ~AlreadyDone(w),
           effects' = [effects EXCEPT ![CurrentPair(w)] = @ + 1],
           UNCHANGED committed
    PROVE  Contract!Next
<1>1. /\ cur[w] \in Events /\ nextH[w] \in DOMAIN HandlersOf(cur[w])
      /\ outbox[cur[w]] = "pending"
  BY CurrentPairTyped DEF IInv, TransactionShape
<1> DEFINE c == HandlersOf(cur[w])[nextH[w]]
           e == cur[w]
<1>2. c \in Consumers /\ c \in Subs[e]
  BY <1>1, HandlersTyped DEF Subs
<1>3. <<c, e>> \notin inbox
  BY DEF AlreadyDone, CurrentPair
<1>4. effects' = [effects EXCEPT ![<<c, e>>] = @ + 1]
  BY DEF CurrentPair
<1>5. e \in Published \ Done
  BY <1>1 DEF Published, Done
<1>6. UNCHANGED <<Published, Done, inbox>>
  BY DEF committed, Published, Done
<1>7. Contract!Work(c, e)
  BY <1>2, <1>3, <1>4, <1>5, <1>6 DEF Contract!Work, Subs, Published, Done
<1> QED
  BY <1>1, <1>2, <1>7 DEF Contract!Next

\* A batch's commit is the contract's Record.
LEMMA CommitRefines ==
    ASSUME IInv, NEW w \in Workers, CommitBatch(w)
    PROVE  Contract!Next
<1> DEFINE R == newInbox[w] \ inbox
           D == newDone[w]
<1>1. /\ inbox' = inbox \union newInbox[w]
      /\ outbox' = [e \in Events |->
                      IF e \in newDone[w] THEN "processed" ELSE outbox[e]]
      /\ effects' = effects
  BY DEF CommitBatch, incidents
<1>2. R \in SUBSET {x \in Pairs \ inbox : effects[x] >= 1}
  BY DEF IInv, TypeOK, RecordsFollowWork
<1>3. D \in SUBSET (Published \ Done)
  BY DEF IInv, TypeOK, TransactionShape, Published, Done
<1>4. \A e \in D : \A c \in Subs[e] : <<c, e>> \in inbox \union R
  <2> SUFFICES ASSUME NEW e \in D, NEW c \in Subs[e] PROVE <<c, e>> \in inbox \union R
    OBVIOUS
  <2>1. e \in Events
    BY DEF IInv, TypeOK
  <2>2. PICK i \in DOMAIN HandlersOf(e) : c = HandlersOf(e)[i]
    BY <2>1 DEF Subs
  <2> QED
    BY <2>2 DEF IInv, HandlersPassed
<1>5. inbox' = inbox \union R /\ Done' = Done \union D /\ Published' = Published
  BY <1>1, <1>3 DEF Done, Published, IInv, TypeOK
<1>6. PICK S \in SUBSET Contract!Worked : S = R
  BY <1>2 DEF Contract!Worked, Contract!Pairs, Pairs
<1>7. PICK T \in SUBSET (Published \ Done) : T = D
  BY <1>3
<1>8. Contract!Record(S, T)
  BY <1>1, <1>4, <1>5, <1>6, <1>7 DEF Contract!Record, Subs, Published, Done
<1> QED
  BY <1>8 DEF Contract!Next, Published, Done

\* The bus implements the at-least-once contract.
THEOREM BusImplementsContract == Spec => ImplementsContract
<1>1. Init => Contract!Init
  BY DEF Init, Contract!Init, Contract!Pairs, Pairs
<1>2. IInv /\ [Next]_vars => [Contract!Next]_(Contract!vars)
  <2> SUFFICES ASSUME IInv, [Next]_vars, ~(UNCHANGED Contract!vars)
               PROVE  Contract!Next
    OBVIOUS
  <2> DEFINE Quiet == UNCHANGED <<outbox, inbox, effects>>
  <2>1. ASSUME Quiet PROVE FALSE
    BY <2>1 DEF Contract!vars
  <2>2. ASSUME NEW e \in Events, Publish(e) PROVE Contract!Next
    <3>1. Published' = Published \union {e} /\ e \notin Published /\ Done' = Done
      BY <2>2 DEF Publish, Published, Done, IInv, TypeOK
    <3>2. Contract!Publish(e)
      BY <2>2, <3>1 DEF Contract!Publish, Publish, Published, Done
    <3> QED
      BY <3>2 DEF Contract!Next
  <2>3. ASSUME NEW w \in Workers, WorkerStep(w) PROVE Contract!Next
    <3>1. CASE HandlerSucceeds(w)
      BY <3>1, WorkRefines DEF HandlerSucceeds
    <3>2. CASE CommitBatch(w)
      BY <3>2, CommitRefines
    <3>3. CASE Select(w) \/ StartRow(w) \/ SkipHandled(w) \/ HandlerRaises(w) \/ FinishRow(w)
      BY <3>3, <2>1 DEF Select, StartRow, SkipHandled, HandlerRaises, ContainFailure,
                        FinishRow, committed
    <3> QED
      BY <2>3, <3>1, <3>2, <3>3 DEF WorkerStep
  <2>4. ASSUME NEW w \in Workers, HandlerRaisesLate(w) PROVE Contract!Next
    BY <2>4, WorkRefines DEF HandlerRaisesLate, ContainFailure
  <2>5. ASSUME NEW w \in Workers, Crash(w) \/ Restart(w) \/ DrainRaises(w) PROVE Contract!Next
    BY <2>5, <2>1 DEF Crash, Restart, DrainRaises, committed
  <2>6. CASE UNCHANGED vars
    BY <2>6, <2>1 DEF vars
  <2> QED
    BY <2>2, <2>3, <2>4, <2>5, <2>6 DEF Next
<1> QED
  BY <1>1, <1>2, Inductive, PTL DEF Spec, ImplementsContract, Contract!Spec
=============================================================================
