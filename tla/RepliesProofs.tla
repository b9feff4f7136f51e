---------------------------- MODULE RepliesProofs ----------------------------
(***************************************************************************)
(* Proofs about Replies for any settings, requests of administrators,      *)
(* messages, batch size, attempts and failures.                            *)
(***************************************************************************)
EXTENDS Replies, FiniteSetTheorems, SequenceTheorems, TLAPS

USE OrganizationAssumption, RepliesAssumption DEF orgVars

-----------------------------------------------------------------------------
(* Types                                                                    *)

\* A settings row, once there, stays: a request that loaded one can count on it.
RowStays == \A a \in Admins : puts[a] # Idle /\ puts[a].loaded # NoRow => config # NoRow
OrganizationSound == OrganizationTypeOK /\ RowStays

LEMMA ConfigsAreRows == NoRow \notin Configs
<1>1. "chatwoot" \in Parts
  BY DEF Parts
<1>2. \A c \in Configs : DOMAIN c = Parts
  BY DEF Configs
<1> QED
  BY <1>1, <1>2 DEF NoRow

LEMMA OrganizationPreserved ==
    ASSUME OrganizationSound, OrganizationNext \/ UNCHANGED orgVars
    PROVE  OrganizationSound'
<1> USE DEF OrganizationSound
<1>1. CASE CreateOrganization
  BY <1>1 DEF CreateOrganization, OrganizationTypeOK, RowStays
<1>2. ASSUME NEW a \in Admins, PutReads(a) PROVE OrganizationSound'
  <2>1. PICK b \in Bodies : puts' = [puts EXCEPT ![a] = [body |-> b, loaded |-> config]]
    BY <1>2 DEF PutReads
  <2>2. putCount' \in 0..MaxPuts
    BY <1>2 DEF PutReads, OrganizationTypeOK
  <2>3. puts' \in [Admins -> [body : Bodies, loaded : Configs \union {NoRow}] \union {Idle}]
    BY <2>1 DEF OrganizationTypeOK
  <2>4. RowStays'
    BY <1>2, <2>1 DEF PutReads, OrganizationTypeOK, RowStays
  <2> QED
    BY <1>2, <2>2, <2>3, <2>4 DEF PutReads, OrganizationTypeOK
<1>3. ASSUME NEW a \in Admins, PutCommits(a) PROVE OrganizationSound'
  <2> DEFINE put == puts[a]
  <2>1. /\ put \in [body : Bodies, loaded : Configs \union {NoRow}]
        /\ put.body \in Configs /\ put.loaded \in Configs \union {NoRow}
    BY <1>3 DEF PutCommits, OrganizationTypeOK
  <2>2. config' = IF put.loaded = NoRow THEN put.body
                  ELSE [p \in Parts |-> IF put.body[p] # put.loaded[p] THEN put.body[p]
                                        ELSE config[p]]
    BY <1>3 DEF PutCommits, Written
  <2>3. put.loaded # NoRow => config \in Configs
    BY <1>3 DEF PutCommits, RowStays, OrganizationTypeOK
  <2>4. config' \in Configs
    BY <2>1, <2>2, <2>3 DEF Configs
  <2>5. RowStays'
    BY <2>4, ConfigsAreRows DEF RowStays
  <2> QED
    BY <1>3, <2>4, <2>5 DEF PutCommits, OrganizationTypeOK
<1>4. ASSUME NEW a \in Admins, PutFails(a) PROVE OrganizationSound'
  BY <1>4 DEF PutFails, OrganizationTypeOK, RowStays
<1>5. CASE UNCHANGED orgVars
  BY <1>5 DEF OrganizationTypeOK, RowStays
<1> QED
  BY <1>1, <1>2, <1>3, <1>4, <1>5 DEF OrganizationNext

LEMMA ClientIsSetting ==
    ASSUME OrganizationTypeOK
    PROVE  ClientNow \in Values \union {None}
BY ConfigsAreRows DEF OrganizationTypeOK, ClientNow, Configs, Parts

-----------------------------------------------------------------------------
(* What a step does to the outbox                                           *)

\* A later version of a row, and of the outbox.
Later(old, new) ==
    /\ new \in Rows
    /\ new.type = old.type /\ new.msg = old.msg
    /\ (old.processed => new.processed) /\ (old.dropped => new.dropped)
    /\ (old.troubled => new.troubled) /\ new.lost >= old.lost
OutboxGrows ==
    /\ outbox' \in Seq(Rows) /\ DOMAIN outbox \subseteq DOMAIN outbox'
    /\ \A r \in DOMAIN outbox : Later(outbox[r], outbox'[r])

LEMMA SameIsLater == \A row \in Rows : Later(row, row)
BY DEF Later, Rows

LEMMA OutboxStays ==
    ASSUME TypeOK, UNCHANGED outbox
    PROVE  OutboxGrows
<1>1. \A r \in DOMAIN outbox : outbox[r] \in Rows
  BY DEF TypeOK
<1> QED
  BY <1>1, SameIsLater DEF OutboxGrows, TypeOK

LEMMA RowChanges ==
    ASSUME NEW row \in Rows
    PROVE  /\ Later(row, [row EXCEPT !.troubled = TRUE])
           /\ Later(row, [row EXCEPT !.dropped = TRUE])
           /\ Later(row, [row EXCEPT !.lost = @ + 1])
           /\ [row EXCEPT !.troubled = TRUE].troubled
           /\ [row EXCEPT !.troubled = TRUE].processed = row.processed
           /\ [row EXCEPT !.dropped = TRUE].processed = row.processed
           /\ [row EXCEPT !.lost = @ + 1].processed = row.processed
           /\ [row EXCEPT !.dropped = TRUE].dropped
           /\ [row EXCEPT !.lost = @ + 1].lost = row.lost + 1
<1>1. row.lost \in Nat
  BY DEF Rows
<1> DEFINE troubled == [row EXCEPT !.troubled = TRUE]
           dropped == [row EXCEPT !.dropped = TRUE]
           lost == [row EXCEPT !.lost = @ + 1]
<1>2. /\ troubled \in Rows /\ troubled.type = row.type /\ troubled.msg = row.msg
      /\ troubled.processed = row.processed /\ troubled.dropped = row.dropped
      /\ troubled.lost = row.lost /\ troubled.troubled
  BY DEF Rows
<1>3. /\ dropped \in Rows /\ dropped.type = row.type /\ dropped.msg = row.msg
      /\ dropped.processed = row.processed /\ dropped.dropped
      /\ dropped.lost = row.lost /\ dropped.troubled = row.troubled
  BY DEF Rows
<1>4. /\ lost \in Rows /\ lost.type = row.type /\ lost.msg = row.msg
      /\ lost.processed = row.processed /\ lost.dropped = row.dropped
      /\ lost.lost = row.lost + 1 /\ lost.troubled = row.troubled
  BY <1>1 DEF Rows
<1> HIDE DEF troubled, dropped, lost
<1>5. Later(row, troubled) /\ Later(row, dropped) /\ Later(row, lost)
  BY <1>1, <1>2, <1>3, <1>4 DEF Later
<1> QED
  BY <1>2, <1>3, <1>4, <1>5 DEF troubled, dropped, lost

LEMMA OneRowChanges ==
    ASSUME TypeOK, NEW c \in DOMAIN outbox, NEW row, Later(outbox[c], row),
           outbox' = [outbox EXCEPT ![c] = row]
    PROVE  /\ OutboxGrows /\ DOMAIN outbox' = DOMAIN outbox /\ outbox'[c] = row
           /\ \A r \in DOMAIN outbox : r # c => outbox'[r] = outbox[r]
<1>1. outbox \in Seq(Rows) /\ c \in 1..Len(outbox) /\ row \in Rows
  <2>1. outbox \in Seq(Rows) /\ row \in Rows
    BY DEF TypeOK, Later
  <2> QED
    BY <2>1
<1>2. /\ outbox' \in Seq(Rows) /\ Len(outbox') = Len(outbox)
      /\ \A j \in 1..Len(outbox) : outbox'[j] = IF j = c THEN row ELSE outbox[j]
  <2> HIDE DEF Rows
  <2> QED
    BY <1>1, ExceptSeq
<1>3. DOMAIN outbox = 1..Len(outbox) /\ DOMAIN outbox' = 1..Len(outbox')
  BY <1>1, <1>2
<1>4. \A r \in DOMAIN outbox : Later(outbox[r], outbox[r])
  BY <1>1, SameIsLater
<1> QED
  BY <1>2, <1>3, <1>4 DEF OutboxGrows

LEMMA RowAppended ==
    ASSUME TypeOK, NEW row \in Rows, outbox' = Append(outbox, row)
    PROVE  /\ OutboxGrows
           /\ Len(outbox) \in Nat
           /\ DOMAIN outbox' = DOMAIN outbox \union {Len(outbox) + 1}
           /\ Len(outbox) + 1 \notin DOMAIN outbox
           /\ outbox'[Len(outbox) + 1] = row
           /\ \A r \in DOMAIN outbox : outbox'[r] = outbox[r]
<1>1. outbox \in Seq(Rows) /\ DOMAIN outbox = 1..Len(outbox) /\ Len(outbox) \in Nat
  BY DEF TypeOK
<1>2. /\ outbox' \in Seq(Rows) /\ Len(outbox') = Len(outbox) + 1
      /\ \A i \in 1..Len(outbox) : outbox'[i] = outbox[i]
      /\ outbox'[Len(outbox) + 1] = row
  BY <1>1, AppendProperties
<1>3. DOMAIN outbox' = 1..(Len(outbox) + 1)
  BY <1>2
<1>4. \A r \in DOMAIN outbox : Later(outbox[r], outbox[r])
  BY <1>1, SameIsLater
<1> QED
  BY <1>1, <1>2, <1>3, <1>4 DEF OutboxGrows

LEMMA RowsMarked ==
    ASSUME TypeOK, DOMAIN outbox' = DOMAIN outbox,
           outbox' = [r \in DOMAIN outbox |-> outbox'[r]],
           \A r \in DOMAIN outbox : Later(outbox[r], outbox'[r])
    PROVE  OutboxGrows
<1>1. DOMAIN outbox = 1..Len(outbox) /\ Len(outbox) \in Nat
  BY DEF TypeOK
<1>2. outbox' \in [1..Len(outbox) -> Rows]
  BY <1>1 DEF Later
<1> QED
  BY <1>1, <1>2, SeqDef DEF OutboxGrows

-----------------------------------------------------------------------------
(* What a step does to the worker                                           *)

WorkersOn(D) == [step : {"idle", "next", "responded", "note", "send"}, todo : Seq(D),
                 done : SUBSET D, client : Values \union {None}, attempt : 0..MaxAttempts]

\* A worker that is in a row has it at the head of its batch, and it is of the type the
\* step is for.
WorkerShape ==
    /\ worker.step \in {"responded", "note", "send"} => worker.todo # <<>>
    /\ worker.step \in {"responded", "note"} => outbox[Current].type = "MessageReceived"
    /\ worker.step = "send" => outbox[Current].type = "ResponseReady"

LEMMA WorkersGrow ==
    ASSUME NEW D, NEW E, D \subseteq E, NEW w \in WorkersOn(D)
    PROVE  w \in WorkersOn(E)
<1>1. w.todo \in Seq(E)
  BY SeqMonotonic DEF WorkersOn
<1> QED
  BY <1>1 DEF WorkersOn

LEMMA HeadIsRow ==
    ASSUME TypeOK, worker.todo # <<>>
    PROVE  /\ Current \in DOMAIN outbox /\ outbox[Current] \in Rows
           /\ Tail(worker.todo) \in Seq(DOMAIN outbox)
<1>1. worker.todo \in Seq(DOMAIN outbox)
  BY DEF TypeOK
<1>2. Current \in DOMAIN outbox /\ Tail(worker.todo) \in Seq(DOMAIN outbox)
  BY <1>1, HeadTailProperties DEF Current
<1> QED
  BY <1>2 DEF TypeOK

LEMMA Leaving ==
    ASSUME TypeOK, worker.todo # <<>>, NEW done \in SUBSET DOMAIN outbox
    PROVE  /\ Leave(done) \in WorkersOn(DOMAIN outbox)
           /\ Leave(done).step = "next" /\ Leave(done).done = done
           /\ Leave(done).todo = Tail(worker.todo)
<1>1. Tail(worker.todo) \in Seq(DOMAIN outbox)
  BY HeadIsRow
<1> QED
  BY <1>1 DEF Leave, WorkersOn

\* The steps of the worker in the row at the head.
LEMMA GoingOn ==
    ASSUME TypeOK, NEW client \in Values \union {None}, NEW attempt \in 0..MaxAttempts
    PROVE  /\ LET new == [worker EXCEPT !.step = "send", !.client = client, !.attempt = 1]
              IN  /\ new \in WorkersOn(DOMAIN outbox) /\ new.step = "send"
                  /\ new.todo = worker.todo /\ new.done = worker.done
           /\ LET new == [worker EXCEPT !.step = "responded", !.client = client]
              IN  /\ new \in WorkersOn(DOMAIN outbox) /\ new.step = "responded"
                  /\ new.todo = worker.todo /\ new.done = worker.done
           /\ LET new == [worker EXCEPT !.step = "note"]
              IN  /\ new \in WorkersOn(DOMAIN outbox) /\ new.step = "note"
                  /\ new.todo = worker.todo /\ new.done = worker.done
           /\ LET new == [worker EXCEPT !.attempt = attempt]
              IN  /\ new \in WorkersOn(DOMAIN outbox) /\ new.step = worker.step
                  /\ new.todo = worker.todo /\ new.done = worker.done
<1>1. 1 \in 0..MaxAttempts /\ worker \in WorkersOn(DOMAIN outbox)
  BY DEF TypeOK, WorkersOn
<1>2. ASSUME NEW D, NEW w \in WorkersOn(D), NEW first \in 0..MaxAttempts
      PROVE  LET new == [w EXCEPT !.step = "send", !.client = client, !.attempt = first]
             IN  /\ new \in WorkersOn(D) /\ new.step = "send"
                 /\ new.todo = w.todo /\ new.done = w.done
  BY DEF WorkersOn
<1>3. LET new == [worker EXCEPT !.step = "send", !.client = client, !.attempt = 1]
      IN  /\ new \in WorkersOn(DOMAIN outbox) /\ new.step = "send"
          /\ new.todo = worker.todo /\ new.done = worker.done
  BY <1>1, <1>2
<1> QED
  BY <1>1, <1>3 DEF WorkersOn

\* The worker keeps its batch and turns to another step of the same row, or leaves the
\* row at the head, which it has worked on (step: what it was doing) or has failed on.
GoesOn == /\ worker.todo # <<>> /\ worker'.step \in {"responded", "note", "send"}
          /\ worker'.todo = worker.todo /\ worker'.done = worker.done
Leaves == /\ worker.todo # <<>> /\ worker'.step = "next"
          /\ worker'.todo = Tail(worker.todo)
          /\ worker'.done \in {worker.done, worker.done \union {Current}}
RowsAsBefore == \A r \in DOMAIN outbox : outbox'[r].processed = outbox[r].processed

LEMMA Succeeding ==
    ASSUME TypeOK, worker.todo # <<>>, Succeed
    PROVE  /\ worker' \in WorkersOn(DOMAIN outbox) /\ Leaves
           /\ worker'.done = worker.done \union {Current}
<1>1. worker.done \union {Current} \in SUBSET DOMAIN outbox
  BY HeadIsRow DEF TypeOK
<1>2. worker' = Leave(worker.done \union {Current})
  BY DEF Succeed
<1> QED
  BY <1>1, <1>2, Leaving DEF Leaves

LEMMA Failing ==
    ASSUME TypeOK, worker.todo # <<>>, NEW row, Later(outbox[Current], row),
           row.processed = outbox[Current].processed,
           FailIn([outbox EXCEPT ![Current] = row])
    PROVE  /\ worker' \in WorkersOn(DOMAIN outbox) /\ Leaves /\ worker'.done = worker.done
           /\ OutboxGrows /\ RowsAsBefore /\ DOMAIN outbox' = DOMAIN outbox
           /\ outbox'[Current].lost = row.lost
           /\ \A r \in DOMAIN outbox : r # Current => outbox'[r] = outbox[r]
<1> DEFINE c == Current
           new == [row EXCEPT !.troubled = TRUE]
<1>1. c \in DOMAIN outbox /\ outbox[c] \in Rows /\ row \in Rows
  BY HeadIsRow DEF Later
<1>2. Later(outbox[c], new) /\ new.processed = outbox[c].processed /\ new.lost = row.lost
  <2>1. Later(row, new) /\ new.processed = row.processed
    BY <1>1, RowChanges
  <2>2. new.lost = row.lost
    BY <1>1 DEF Rows
  <2>3. outbox[c].lost \in Nat /\ row.lost \in Nat /\ new.lost \in Nat
    BY <1>1, <2>1 DEF Later, Rows
  <2> HIDE DEF new
  <2> QED
    BY <2>1, <2>2, <2>3 DEF Later
<1>3. outbox' = [outbox EXCEPT ![c] = new]
  <2>1. outbox' = [[outbox EXCEPT ![c] = row] EXCEPT ![c].troubled = TRUE]
    BY DEF FailIn
  <2>2. [outbox EXCEPT ![c] = row][c] = row
    BY <1>1
  <2>3. outbox' = [[outbox EXCEPT ![c] = row] EXCEPT ![c] = new]
    BY <2>1, <2>2
  <2> HIDE DEF new
  <2> QED
    BY <1>1, <2>3
<1>4. worker' = Leave(worker.done) /\ worker.done \in SUBSET DOMAIN outbox
  BY DEF FailIn, TypeOK
<1> HIDE DEF new, c
<1>5. /\ OutboxGrows /\ DOMAIN outbox' = DOMAIN outbox /\ outbox'[c] = new
      /\ \A r \in DOMAIN outbox : r # c => outbox'[r] = outbox[r]
  BY <1>1, <1>2, <1>3, OneRowChanges
<1>6. RowsAsBefore
  BY <1>2, <1>5 DEF RowsAsBefore
<1>7. worker' \in WorkersOn(DOMAIN outbox) /\ Leaves /\ worker'.done = worker.done
  BY <1>4, Leaving DEF Leaves
<1> QED
  BY <1>2, <1>5, <1>6, <1>7 DEF c

LEMMA FailingAsIs ==
    ASSUME TypeOK, worker.todo # <<>>, FailIn(outbox)
    PROVE  /\ worker' \in WorkersOn(DOMAIN outbox) /\ Leaves /\ worker'.done = worker.done
           /\ OutboxGrows /\ RowsAsBefore /\ DOMAIN outbox' = DOMAIN outbox
           /\ outbox'[Current].lost = outbox[Current].lost
           /\ \A r \in DOMAIN outbox : r # Current => outbox'[r] = outbox[r]
<1>1. Current \in DOMAIN outbox /\ outbox[Current] \in Rows
  BY HeadIsRow
<1>2. outbox = [outbox EXCEPT ![Current] = outbox[Current]]
  BY <1>1 DEF TypeOK
<1>3. Later(outbox[Current], outbox[Current])
  BY <1>1, SameIsLater
<1>4. FailIn([outbox EXCEPT ![Current] = outbox[Current]])
  BY <1>2
<1> QED
  BY <1>3, <1>4, Failing

\* A step of the worker in a row of its batch.
RowStep == RowsAsBefore /\ (GoesOn \/ Leaves)
StepIsTyped ==
    /\ OutboxGrows /\ worker' \in WorkersOn(DOMAIN outbox') /\ WorkerShape'
    /\ memory' \in Seq(1..MaxMessages) /\ screen' \in Seq(DOMAIN outbox')
    /\ faults' \in 0..MaxFaults /\ raises' \in Nat

LEMMA ShapeIsKept ==
    ASSUME TypeOK, OutboxGrows,
           \/ Leaves
           \/ /\ GoesOn
              /\ worker'.step = "send" => outbox[Current].type = "ResponseReady"
              /\ worker'.step # "send" => outbox[Current].type = "MessageReceived"
    PROVE  WorkerShape'
<1>1. CASE Leaves
  BY <1>1 DEF Leaves, WorkerShape
<1>2. CASE GoesOn
  <2>1. Current' = Current /\ Current \in DOMAIN outbox
    BY <1>2, HeadIsRow DEF GoesOn, Current
  <2>2. outbox'[Current].type = outbox[Current].type
    BY <2>1 DEF OutboxGrows, Later
  <2> QED
    BY <1>2, <2>1, <2>2 DEF GoesOn, Leaves, WorkerShape
<1> QED
  BY <1>1, <1>2

\* A step in a row that leaves memory and screen alone.
LEMMA RowStepTyped ==
    ASSUME TypeOK, OutboxGrows, worker' \in WorkersOn(DOMAIN outbox), WorkerShape',
           memory' = memory \/ memory' \in Seq(1..MaxMessages),
           screen' = screen \/ screen' \in Seq(DOMAIN outbox),
           faults' \in 0..MaxFaults, raises' \in Nat
    PROVE  StepIsTyped
<1>1. DOMAIN outbox \subseteq DOMAIN outbox'
  BY DEF OutboxGrows
<1>2. worker' \in WorkersOn(DOMAIN outbox')
  BY <1>1, WorkersGrow
<1>3. screen' \in Seq(DOMAIN outbox)
  BY DEF TypeOK
<1>4. screen' \in Seq(DOMAIN outbox')
  BY <1>1, <1>3, SeqMonotonic
<1> QED
  BY <1>2, <1>4 DEF StepIsTyped, TypeOK

LEMMA BatchBegins ==
    ASSUME TypeOK, DrainBatch
    PROVE  StepIsTyped /\ worker'.step = "next" /\ worker'.done = worker.done
           /\ worker'.todo \in Batches
<1>1. PICK rows \in Batches : worker' = [worker EXCEPT !.step = "next", !.todo = rows]
  BY DEF DrainBatch
<1>2. rows \in Seq(DOMAIN outbox)
  <2>1. DOMAIN outbox = 1..Len(outbox) /\ Len(outbox) \in Nat /\ Pending \subseteq DOMAIN outbox
    BY DEF TypeOK, Pending
  <2>2. IsFiniteSet(Pending)
    <3>1. IsFiniteSet(1..Len(outbox))
      BY <2>1, FS_Interval
    <3> QED
      BY <2>1, <3>1, FS_Subset
  <2>3. BatchLength \in Nat
    BY <2>2, FS_CardinalityType DEF BatchLength, Smaller
  <2>4. rows \in [1..BatchLength -> DOMAIN outbox]
    BY <1>1, <2>1 DEF Batches
  <2> QED
    BY <2>3, <2>4, SeqDef
<1>3. /\ worker' \in WorkersOn(DOMAIN outbox) /\ worker'.step = "next"
      /\ worker'.todo = rows /\ worker'.done = worker.done
  BY <1>1, <1>2 DEF TypeOK, WorkersOn
<1>4. OutboxGrows /\ WorkerShape'
  BY <1>3, OutboxStays DEF DrainBatch, WorkerShape
<1>5. StepIsTyped
  BY <1>3, <1>4, RowStepTyped DEF DrainBatch, TypeOK
<1> QED
  BY <1>1, <1>3, <1>5

LEMMA BatchEnds ==
    ASSUME TypeOK, BatchCommits
    PROVE  /\ StepIsTyped /\ worker' = Waiting /\ DOMAIN outbox' = DOMAIN outbox
           /\ \A r \in DOMAIN outbox :
                /\ outbox'[r].processed = (outbox[r].processed \/ r \in worker.done)
                /\ outbox'[r].lost = outbox[r].lost
<1>1. /\ outbox' = [r \in DOMAIN outbox |-> [outbox[r] EXCEPT
                       !.processed = @ \/ r \in worker.done]]
      /\ worker' = Waiting
  BY DEF BatchCommits
<1>2. ASSUME NEW r \in DOMAIN outbox
      PROVE  /\ Later(outbox[r], outbox'[r])
             /\ outbox'[r].processed = (outbox[r].processed \/ r \in worker.done)
             /\ outbox'[r].lost = outbox[r].lost
  <2> DEFINE marked == outbox[r].processed \/ r \in worker.done
             old == outbox[r]
  <2>1. outbox'[r] = [old EXCEPT !.processed = marked] /\ old \in Rows /\ marked \in BOOLEAN
    BY <1>1, <1>2 DEF TypeOK
  <2>2. old.processed => marked
    OBVIOUS
  <2> HIDE DEF marked, old
  <2>3. /\ [old EXCEPT !.processed = marked] \in Rows
        /\ [old EXCEPT !.processed = marked].type = old.type
        /\ [old EXCEPT !.processed = marked].msg = old.msg
        /\ [old EXCEPT !.processed = marked].processed = marked
        /\ [old EXCEPT !.processed = marked].dropped = old.dropped
        /\ [old EXCEPT !.processed = marked].troubled = old.troubled
        /\ [old EXCEPT !.processed = marked].lost = old.lost
        /\ old.lost \in Nat
    BY <2>1 DEF Rows
  <2>4. Later(old, outbox'[r]) /\ outbox'[r].processed = marked /\ outbox'[r].lost = old.lost
    BY <2>1, <2>2, <2>3 DEF Later
  <2> QED
    BY <2>4 DEF marked, old
<1>3. OutboxGrows /\ DOMAIN outbox' = DOMAIN outbox
  BY <1>1, <1>2, RowsMarked
<1>4. Waiting \in WorkersOn(DOMAIN outbox) /\ Waiting.step = "idle"
  BY DEF Waiting, WorkersOn
<1>5. WorkerShape'
  BY <1>1, <1>4 DEF WorkerShape
<1>6. StepIsTyped
  BY <1>1, <1>3, <1>4, <1>5, RowStepTyped DEF BatchCommits, TypeOK
<1> QED
  BY <1>1, <1>2, <1>3, <1>6

RowAction ==
    \/ SendBegins \/ SendWithoutSettings \/ TurnResponds \/ TurnCommits \/ TurnFails
    \/ NoteEnds \/ NoteRaises \/ Delivered \/ Refused \/ AnswerLost \/ SendRaises

LEMMA MessageOfRow ==
    ASSUME TypeOK, worker.todo # <<>>, NEW type \in {"MessageReceived", "ResponseReady"}
    PROVE  /\ outbox[Current].msg \in 1..MaxMessages
           /\ Row(type, outbox[Current].msg) \in Rows
BY HeadIsRow DEF Rows, Row

LEMMA Appearing ==
    ASSUME TypeOK, worker.todo # <<>>, screen' = Append(screen, Current)
    PROVE  screen' \in Seq(DOMAIN outbox)
BY HeadIsRow, AppendProperties DEF TypeOK

LEMMA Attempting ==
    ASSUME TypeOK, WorkerShape, InStep("send"), NEW row, Later(outbox[Current], row),
           row.processed = outbox[Current].processed,
           AttemptFails([outbox EXCEPT ![Current] = row])
    PROVE  /\ OutboxGrows /\ worker' \in WorkersOn(DOMAIN outbox) /\ WorkerShape' /\ RowStep
           /\ worker'.done = worker.done /\ DOMAIN outbox' = DOMAIN outbox
           /\ outbox'[Current].lost = row.lost
           /\ \A r \in DOMAIN outbox : r # Current => outbox'[r] = outbox[r]
<1>1. worker.step = "send" /\ worker.todo # <<>> /\ outbox[Current].type = "ResponseReady"
  BY DEF InStep, WorkerShape
<1>2. CASE worker.attempt < MaxAttempts
  <2>1. /\ worker' = [worker EXCEPT !.attempt = worker.attempt + 1]
        /\ outbox' = [outbox EXCEPT ![Current] = row]
    BY <1>2 DEF AttemptFails
  <2>2. worker.attempt + 1 \in 0..MaxAttempts /\ worker.client \in Values \union {None}
    BY <1>2 DEF TypeOK
  <2>3. /\ worker' \in WorkersOn(DOMAIN outbox) /\ worker'.step = "send"
        /\ worker'.todo = worker.todo /\ worker'.done = worker.done
    BY <1>1, <2>1, <2>2, GoingOn
  <2>4. /\ OutboxGrows /\ DOMAIN outbox' = DOMAIN outbox /\ outbox'[Current] = row
        /\ \A r \in DOMAIN outbox : r # Current => outbox'[r] = outbox[r]
    BY <1>1, <2>1, HeadIsRow, OneRowChanges
  <2>5. GoesOn /\ RowsAsBefore
    BY <1>1, <2>3, <2>4 DEF GoesOn, RowsAsBefore
  <2>6. WorkerShape'
    BY <1>1, <2>3, <2>4, <2>5, ShapeIsKept
  <2> QED
    BY <2>3, <2>4, <2>5, <2>6 DEF RowStep
<1>3. CASE ~(worker.attempt < MaxAttempts)
  <2>1. FailIn([outbox EXCEPT ![Current] = row])
    BY <1>3 DEF AttemptFails
  <2>2. /\ worker' \in WorkersOn(DOMAIN outbox) /\ Leaves /\ worker'.done = worker.done
        /\ OutboxGrows /\ RowsAsBefore /\ DOMAIN outbox' = DOMAIN outbox
        /\ outbox'[Current].lost = row.lost
        /\ \A r \in DOMAIN outbox : r # Current => outbox'[r] = outbox[r]
    BY <1>1, <2>1, Failing
  <2> QED
    BY <2>2, ShapeIsKept DEF RowStep
<1> QED
  BY <1>2, <1>3

LEMMA AttemptingAsIs ==
    ASSUME TypeOK, WorkerShape, InStep("send"), AttemptFails(outbox)
    PROVE  /\ OutboxGrows /\ worker' \in WorkersOn(DOMAIN outbox) /\ WorkerShape' /\ RowStep
           /\ worker'.done = worker.done /\ DOMAIN outbox' = DOMAIN outbox
           /\ outbox'[Current].lost = outbox[Current].lost
           /\ \A r \in DOMAIN outbox : r # Current => outbox'[r] = outbox[r]
<1>1. Current \in DOMAIN outbox /\ outbox[Current] \in Rows
  BY HeadIsRow DEF InStep, WorkerShape
<1>2. outbox = [outbox EXCEPT ![Current] = outbox[Current]]
  BY <1>1 DEF TypeOK
<1>3. Later(outbox[Current], outbox[Current])
  BY <1>1, SameIsLater
<1>4. AttemptFails([outbox EXCEPT ![Current] = outbox[Current]])
  BY <1>2
<1> QED
  BY <1>3, <1>4, Attempting

LEMMA RowSteps ==
    ASSUME TypeOK, WorkerShape, RowAction
    PROVE  StepIsTyped /\ RowStep
<1>1. /\ worker.done \in SUBSET DOMAIN outbox /\ worker.client \in Values \union {None}
      /\ memory \in Seq(1..MaxMessages) /\ faults \in 0..MaxFaults /\ raises \in Nat
      /\ ClientNow \in Values \union {None}
  BY ClientIsSetting DEF TypeOK
<1>2. ASSUME UNCHANGED outbox PROVE OutboxGrows /\ RowsAsBefore
  BY <1>2, OutboxStays DEF RowsAsBefore
<1>3. CASE SendBegins
  <2>1. /\ worker' = [worker EXCEPT !.step = "send", !.client = ClientNow, !.attempt = 1]
        /\ worker.todo # <<>> /\ outbox[Current].type = "ResponseReady"
        /\ 1 \in 0..MaxAttempts /\ ClientNow \in Values \union {None}
    BY <1>1, <1>3 DEF SendBegins, Dispatches
  <2> DEFINE new == [worker EXCEPT !.step = "send", !.client = ClientNow, !.attempt = 1]
  <2>2. /\ new \in WorkersOn(DOMAIN outbox) /\ new.step = "send"
        /\ new.todo = worker.todo /\ new.done = worker.done
    <3>1. 0 \in 0..MaxAttempts
      OBVIOUS
    <3> QED
      BY <1>1, <3>1, GoingOn
  <2>3. worker' = new
    BY <2>1
  <2> HIDE DEF new
  <2>4. worker' \in WorkersOn(DOMAIN outbox) /\ worker'.step = "send" /\ GoesOn
    BY <2>1, <2>2, <2>3 DEF GoesOn
  <2> QED
    BY <1>1, <1>2, <1>3, <2>1, <2>4, ShapeIsKept, RowStepTyped DEF SendBegins, RowStep
<1>4. CASE SendWithoutSettings
  <2> DEFINE new == [outbox[Current] EXCEPT !.dropped = TRUE]
  <2>1. /\ worker.todo # <<>> /\ Succeed
        /\ outbox' = [outbox EXCEPT ![Current] = new]
    BY <1>4 DEF SendWithoutSettings, Dispatches
  <2>2. /\ Current \in DOMAIN outbox /\ Later(outbox[Current], new)
        /\ new.processed = outbox[Current].processed
    BY <2>1, HeadIsRow, RowChanges
  <2> HIDE DEF new
  <2>3. OutboxGrows /\ RowsAsBefore
    BY <2>1, <2>2, OneRowChanges DEF RowsAsBefore
  <2>4. worker' \in WorkersOn(DOMAIN outbox) /\ Leaves
    BY <2>1, Succeeding
  <2> QED
    BY <1>1, <1>4, <2>3, <2>4, ShapeIsKept, RowStepTyped DEF SendWithoutSettings, RowStep
<1>5. CASE TurnResponds
  <2>1. /\ worker' = [worker EXCEPT !.step = "responded", !.client = ClientNow]
        /\ worker.todo # <<>> /\ outbox[Current].type = "MessageReceived"
    BY <1>5 DEF TurnResponds, Dispatches
  <2> DEFINE new == [worker EXCEPT !.step = "responded", !.client = ClientNow]
  <2>2. /\ new \in WorkersOn(DOMAIN outbox) /\ new.step = "responded"
        /\ new.todo = worker.todo /\ new.done = worker.done
    <3>1. 0 \in 0..MaxAttempts
      OBVIOUS
    <3> QED
      BY <1>1, <3>1, GoingOn
  <2>4. worker' = new
    BY <2>1
  <2> HIDE DEF new
  <2>5. worker' \in WorkersOn(DOMAIN outbox) /\ worker'.step = "responded" /\ GoesOn
    BY <2>1, <2>2, <2>4 DEF GoesOn
  <2>3. memory' \in Seq(1..MaxMessages)
    BY <1>1, <1>5, <2>1, MessageOfRow, AppendProperties DEF TurnResponds
  <2> QED
    BY <1>1, <1>2, <1>5, <2>1, <2>3, <2>5, ShapeIsKept, RowStepTyped
    DEF TurnResponds, RowStep
<1>6. CASE TurnCommits
  <2>1. /\ worker.todo # <<>> /\ outbox[Current].type = "MessageReceived"
        /\ outbox' = Append(outbox, Row("ResponseReady", outbox[Current].msg))
        /\ Succeed \/ worker' = [worker EXCEPT !.step = "note"]
    BY <1>6 DEF TurnCommits, InStep, WorkerShape
  <2>2. OutboxGrows /\ RowsAsBefore
    BY <2>1, MessageOfRow, RowAppended DEF RowsAsBefore
  <2>3. /\ worker' \in WorkersOn(DOMAIN outbox)
        /\ Leaves \/ (GoesOn /\ worker'.step = "note")
    <3>1. CASE Succeed
      BY <2>1, <3>1, Succeeding
    <3>2. CASE worker' = [worker EXCEPT !.step = "note"]
      <4>1. 0 \in 0..MaxAttempts
        OBVIOUS
      <4> QED
        BY <1>1, <2>1, <3>2, <4>1, GoingOn DEF GoesOn
    <3> QED
      BY <2>1, <3>1, <3>2
  <2> QED
    BY <1>1, <1>6, <2>1, <2>2, <2>3, ShapeIsKept, RowStepTyped DEF TurnCommits, RowStep
<1>7. ASSUME FailIn(outbox), worker.todo # <<>>,
             UNCHANGED <<memory, screen>>, faults' \in 0..MaxFaults, raises' \in Nat
      PROVE  StepIsTyped /\ RowStep
  BY <1>1, <1>7, FailingAsIs, ShapeIsKept, RowStepTyped DEF RowStep
<1>8. CASE TurnFails
  BY <1>1, <1>7, <1>8 DEF TurnFails, InStep, WorkerShape
<1>9. CASE NoteRaises
  BY <1>1, <1>7, <1>9 DEF NoteRaises, InStep, WorkerShape
<1>10. CASE SendRaises
  BY <1>1, <1>7, <1>10 DEF SendRaises, InStep, WorkerShape
<1>11. CASE NoteEnds
  <2>1. worker.todo # <<>> /\ Succeed
    BY <1>11 DEF NoteEnds, InStep, WorkerShape
  <2> QED
    BY <1>1, <1>2, <1>11, <2>1, Succeeding, ShapeIsKept, RowStepTyped DEF NoteEnds, RowStep
<1>12. CASE Delivered
  <2>1. worker.todo # <<>> /\ Succeed
    BY <1>12 DEF Delivered, Posting, InStep, WorkerShape
  <2>2. screen' \in Seq(DOMAIN outbox)
    BY <1>12, <2>1, Appearing DEF Delivered
  <2> QED
    BY <1>1, <1>2, <1>12, <2>1, <2>2, Succeeding, ShapeIsKept, RowStepTyped
    DEF Delivered, RowStep
<1>13. CASE Refused
  <2>1. faults' \in 0..MaxFaults /\ InStep("send") /\ AttemptFails(outbox)
    BY <1>1, <1>13 DEF Refused, AttemptFails, Posting
  <2> QED
    BY <1>1, <1>13, <2>1, AttemptingAsIs, RowStepTyped DEF Refused
<1>14. CASE AnswerLost
  <2> DEFINE new == [outbox[Current] EXCEPT !.lost = @ + 1]
  <2>1. /\ faults' \in 0..MaxFaults /\ InStep("send") /\ worker.todo # <<>>
        /\ AttemptFails([outbox EXCEPT ![Current] = new])
    BY <1>1, <1>14 DEF AnswerLost, AttemptFails, Posting, InStep, WorkerShape
  <2>2. Later(outbox[Current], new) /\ new.processed = outbox[Current].processed
    BY <2>1, HeadIsRow, RowChanges
  <2>3. screen' \in Seq(DOMAIN outbox)
    BY <1>14, <2>1, Appearing DEF AnswerLost
  <2> HIDE DEF new
  <2> QED
    BY <1>1, <1>14, <2>1, <2>2, <2>3, Attempting, RowStepTyped DEF AnswerLost
<1> QED
  BY <1>3, <1>4, <1>5, <1>6, <1>8, <1>9, <1>10, <1>11, <1>12, <1>13, <1>14 DEF RowAction

\* The rows of the messages that have arrived.
Arrived == {r \in DOMAIN outbox : outbox[r].type = "MessageReceived"}

LEMMA RowsAreFinite ==
    ASSUME TypeOK, NEW S \in SUBSET DOMAIN outbox
    PROVE  IsFiniteSet(S) /\ Cardinality(S) \in Nat
<1>1. DOMAIN outbox = 1..Len(outbox) /\ Len(outbox) \in Nat
  BY DEF TypeOK
<1>2. IsFiniteSet(1..Len(outbox))
  BY <1>1, FS_Interval
<1>3. IsFiniteSet(S)
  BY <1>1, <1>2, FS_Subset
<1> QED
  BY <1>3, FS_CardinalityType

LEMMA Arriving ==
    ASSUME TypeOK, WorkerShape, MessageArrives
    PROVE  /\ StepIsTyped /\ RowsAsBefore /\ UNCHANGED <<worker, screen, crashes, raises>>
           /\ Row("MessageReceived", Cardinality(Arrived) + 1) \in Rows
           /\ outbox' = Append(outbox, Row("MessageReceived", Cardinality(Arrived) + 1))
<1> DEFINE m == Cardinality(Arrived) + 1
<1>1. Cardinality(Arrived) \in Nat
  BY RowsAreFinite DEF Arrived
<1>2. m <= MaxMessages /\ outbox' = Append(outbox, Row("MessageReceived", m))
  BY DEF MessageArrives, Arrived
<1>3. m \in 1..MaxMessages
  BY <1>1, <1>2
<1> HIDE DEF m
<1>4. Row("MessageReceived", m) \in Rows
  BY <1>3 DEF Row, Rows
<1>5. OutboxGrows /\ RowsAsBefore
  BY <1>2, <1>4, RowAppended DEF RowsAsBefore
<1>6. worker \in WorkersOn(DOMAIN outbox) /\ UNCHANGED <<worker, memory, screen, faults,
                                                          crashes, raises>>
  BY DEF MessageArrives, TypeOK, WorkersOn
<1>7. WorkerShape'
  <2>1. worker.todo # <<>> => outbox'[Current].type = outbox[Current].type
    BY <1>5, HeadIsRow DEF OutboxGrows, Later
  <2> QED
    BY <1>6, <2>1 DEF WorkerShape, Current
<1>8. StepIsTyped
  BY <1>5, <1>6, <1>7, RowStepTyped DEF TypeOK
<1> QED
  BY <1>2, <1>4, <1>5, <1>6, <1>8 DEF m

LEMMA Crashing ==
    ASSUME TypeOK, Crash
    PROVE  /\ StepIsTyped /\ RowsAsBefore /\ worker' = Waiting /\ screen' = screen
           /\ crashes' = crashes + 1 /\ crashes' \in 0..MaxCrashes /\ raises' = raises
           /\ DOMAIN outbox' = DOMAIN outbox
           /\ \A r \in DOMAIN outbox : outbox'[r].lost = outbox[r].lost
<1>1. PICK begun : outbox' = [r \in DOMAIN outbox |-> [outbox[r] EXCEPT
                                 !.troubled = @ \/ r \in worker.done \union begun]]
  BY DEF Crash
<1>2. ASSUME NEW r \in DOMAIN outbox
      PROVE  /\ Later(outbox[r], outbox'[r])
             /\ outbox'[r].processed = outbox[r].processed
             /\ outbox'[r].lost = outbox[r].lost
  <2> DEFINE marked == outbox[r].troubled \/ r \in worker.done \union begun
             old == outbox[r]
  <2>1. outbox'[r] = [old EXCEPT !.troubled = marked] /\ old \in Rows /\ marked \in BOOLEAN
    BY <1>1, <1>2 DEF TypeOK
  <2> HIDE DEF marked, old
  <2>2. /\ [old EXCEPT !.troubled = marked] \in Rows
        /\ [old EXCEPT !.troubled = marked].type = old.type
        /\ [old EXCEPT !.troubled = marked].msg = old.msg
        /\ [old EXCEPT !.troubled = marked].processed = old.processed
        /\ [old EXCEPT !.troubled = marked].troubled = marked
        /\ [old EXCEPT !.troubled = marked].dropped = old.dropped
        /\ [old EXCEPT !.troubled = marked].lost = old.lost
        /\ old.lost \in Nat
    BY <2>1 DEF Rows
  <2>3. old.troubled => marked
    BY DEF old, marked
  <2>4. Later(old, outbox'[r]) /\ outbox'[r].processed = old.processed
        /\ outbox'[r].lost = old.lost
    BY <2>1, <2>2, <2>3 DEF Later
  <2> QED
    BY <2>4 DEF old
<1>3. OutboxGrows /\ DOMAIN outbox' = DOMAIN outbox /\ RowsAsBefore
  <2>1. OutboxGrows
    BY <1>1, <1>2, RowsMarked
  <2> QED
    BY <1>1, <1>2, <2>1 DEF RowsAsBefore
<1>4. /\ worker' = Waiting /\ UNCHANGED <<screen, faults, raises>> /\ memory' = <<>>
      /\ crashes' = crashes + 1 /\ crashes' \in 0..MaxCrashes
  <2>1. crashes \in 0..MaxCrashes /\ MaxCrashes \in Nat
    BY DEF TypeOK
  <2> QED
    BY <2>1 DEF Crash
<1>5. Waiting \in WorkersOn(DOMAIN outbox) /\ Waiting.step = "idle"
  BY DEF Waiting, WorkersOn
<1>6. WorkerShape' /\ memory' \in Seq(1..MaxMessages)
  BY <1>4, <1>5 DEF WorkerShape
<1>7. StepIsTyped
  BY <1>3, <1>4, <1>5, <1>6, RowStepTyped DEF TypeOK
<1> QED
  BY <1>2, <1>3, <1>4, <1>7

\* A step is one of the organization or one of the replies, which may be any of these.
ReplyStep == DrainBatch \/ BatchCommits \/ RowAction \/ MessageArrives \/ Crash
LEMMA StepsSplit ==
    ASSUME [Next]_vars
    PROVE  \/ UNCHANGED replyVars /\ (OrganizationNext \/ UNCHANGED orgVars)
           \/ ReplyStep /\ UNCHANGED orgVars
BY DEF Next, vars, WorkerStep, ReplyStep, RowAction

Sound == TypeOK /\ WorkerShape /\ RowStays
LEMMA SoundPreserved ==
    ASSUME Sound, [Next]_vars
    PROVE  Sound'
<1> USE DEF Sound
<1>1. OrganizationTypeOK' /\ RowStays'
  BY StepsSplit, OrganizationPreserved DEF OrganizationSound, TypeOK
<1>2. CASE UNCHANGED replyVars
  BY <1>1, <1>2 DEF TypeOK, replyVars, WorkerShape, Current
<1>3. CASE ReplyStep
  <2>1. StepIsTyped
    BY <1>3, BatchBegins, BatchEnds, RowSteps, Arriving, Crashing DEF ReplyStep
  <2>2. crashes' \in 0..MaxCrashes
    <3>1. CASE Crash
      BY <3>1, Crashing
    <3>2. CASE ~Crash
      <4>1. crashes' = crashes
        BY <1>3, <3>2 DEF ReplyStep, RowAction, DrainBatch, BatchCommits, MessageArrives,
           SendBegins, SendWithoutSettings, TurnResponds, TurnCommits, TurnFails, NoteEnds,
           NoteRaises, Delivered, Refused, AnswerLost, SendRaises
      <4> QED
        BY <4>1 DEF TypeOK
    <3> QED
      BY <3>1, <3>2
  <2> QED
    BY <1>1, <2>1, <2>2 DEF StepIsTyped, OutboxGrows, WorkersOn, TypeOK
<1> QED
  BY <1>2, <1>3, StepsSplit

LEMMA InitIsSound ==
    ASSUME Init
    PROVE  Sound
<1>1. OrganizationTypeOK /\ RowStays
  BY DEF Init, InitOrganization, OrganizationTypeOK, RowStays
<1>2. worker = Waiting /\ Waiting \in WorkersOn({}) /\ Waiting.step = "idle"
  BY DEF Init, Waiting, WorkersOn
<1>3. outbox = <<>> /\ memory = <<>> /\ screen = <<>> /\ DOMAIN outbox = {}
  BY DEF Init
<1>4. WorkerShape
  BY <1>2 DEF WorkerShape
<1> QED
  BY <1>1, <1>2, <1>3, <1>4 DEF Init, Sound, TypeOK, WorkersOn

LEMMA SoundAlways == Spec => []Sound
BY InitIsSound, SoundPreserved, PTL DEF Spec

\* Every variable has its type, among them the worker's batch and the screen, which name
\* rows of the outbox.
THEOREM TypeCorrect == Spec => []TypeOK
BY SoundAlways, PTL DEF Sound

-----------------------------------------------------------------------------
(* The queue of the worker                                                  *)

Settled(r) == r \in worker.done \/ outbox[r].processed

\* A row is in the batch once, and neither what is left of the batch nor what it has
\* done is recorded yet.
QueueSound ==
    /\ \A i, j \in 1..Len(worker.todo) : worker.todo[i] = worker.todo[j] => i = j
    /\ \A i \in 1..Len(worker.todo) :
          worker.todo[i] \notin worker.done /\ ~outbox[worker.todo[i]].processed
    /\ \A r \in worker.done : ~outbox[r].processed
    /\ worker.step = "idle" => worker.done = {}

LEMMA HeadIsUnsettled ==
    ASSUME TypeOK, QueueSound, worker.todo # <<>>
    PROVE  ~Settled(Current)
<1>1. worker.todo \in Seq(DOMAIN outbox) /\ Len(worker.todo) \in Nat
  BY DEF TypeOK
<1>2. 1 \in 1..Len(worker.todo) /\ Current = worker.todo[1]
  BY <1>1 DEF Current
<1> QED
  BY <1>2 DEF QueueSound, Settled

LEMMA QueueInRow ==
    ASSUME TypeOK, QueueSound, RowStep
    PROVE  QueueSound'
<1>1. worker.todo \in Seq(DOMAIN outbox) /\ worker.done \in SUBSET DOMAIN outbox
  BY DEF TypeOK
<1>2. /\ Len(worker.todo) \in Nat
      /\ \A i \in 1..Len(worker.todo) : worker.todo[i] \in DOMAIN outbox
  BY <1>1
<1>3. CASE GoesOn
  BY <1>1, <1>2, <1>3 DEF GoesOn, RowStep, RowsAsBefore, QueueSound
<1>4. CASE Leaves
  <2>1. /\ Len(worker'.todo) = Len(worker.todo) - 1
        /\ \A i \in 1..Len(worker'.todo) : worker'.todo[i] = worker.todo[i + 1]
        /\ Current = worker.todo[1] /\ Len(worker.todo) >= 1
    BY <1>1, <1>4, HeadTailProperties DEF Leaves, Current
  <2>2. \A i \in 1..Len(worker'.todo) : i + 1 \in 1..Len(worker.todo) /\ i + 1 # 1
    BY <1>2, <2>1
  <2>3. 1 \in 1..Len(worker.todo)
    BY <1>2, <2>1
  <2>4. \A i, j \in 1..Len(worker'.todo) : worker'.todo[i] = worker'.todo[j] => i = j
    <3> SUFFICES ASSUME NEW i \in 1..Len(worker'.todo), NEW j \in 1..Len(worker'.todo),
                        worker'.todo[i] = worker'.todo[j]
                 PROVE  i = j
      OBVIOUS
    <3>1. i + 1 = j + 1
      BY <2>1, <2>2 DEF QueueSound
    <3> QED
      BY <1>2, <2>1, <3>1
  <2>5. \A i \in 1..Len(worker'.todo) : worker'.todo[i] # Current
    BY <2>1, <2>2, <2>3 DEF QueueSound
  <2>6. ~outbox[Current].processed
    BY <1>4, HeadIsUnsettled DEF Leaves, Settled
  <2>7. \A i \in 1..Len(worker'.todo) :
          worker'.todo[i] \notin worker.done /\ ~outbox[worker'.todo[i]].processed
    BY <2>1, <2>2 DEF QueueSound
  <2>8. \A i \in 1..Len(worker'.todo) : worker'.todo[i] \in DOMAIN outbox
    BY <1>2, <2>1, <2>2
  <2>9. Current \in DOMAIN outbox /\ worker'.done \subseteq worker.done \union {Current}
    BY <1>2, <1>4, <2>1, <2>3 DEF Leaves
  <2>10. \A i \in 1..Len(worker'.todo) :
           worker'.todo[i] \notin worker'.done /\ ~outbox'[worker'.todo[i]].processed
    BY <2>5, <2>7, <2>8, <2>9 DEF RowStep, RowsAsBefore
  <2>11. \A r \in worker'.done : ~outbox'[r].processed
    BY <1>1, <2>6, <2>9 DEF QueueSound, RowStep, RowsAsBefore
  <2> QED
    BY <1>4, <2>4, <2>10, <2>11 DEF QueueSound, Leaves
<1> QED
  BY <1>3, <1>4 DEF RowStep

LEMMA QueuePreserved ==
    ASSUME Sound, QueueSound, ReplyStep \/ UNCHANGED replyVars
    PROVE  QueueSound'
<1> USE DEF Sound
<1>1. CASE DrainBatch
  <2>1. /\ worker'.todo \in Batches /\ worker'.step = "next" /\ worker'.done = {}
        /\ outbox' = outbox
    BY <1>1, BatchBegins DEF DrainBatch, InStep, QueueSound
  <2>2. BatchLength \in Nat
    <3>1. Pending \in SUBSET DOMAIN outbox
      BY DEF Pending
    <3> QED
      BY <3>1, RowsAreFinite DEF BatchLength, Smaller
  <2>3. /\ DOMAIN worker'.todo = 1..BatchLength
        /\ worker'.todo \in [1..BatchLength -> Pending]
    BY <2>1 DEF Batches
  <2>4. Len(worker'.todo) = BatchLength
    BY <2>2, <2>3
  <2>5. \A i \in 1..BatchLength :
          worker'.todo[i] \notin worker'.done /\ ~outbox'[worker'.todo[i]].processed
    BY <2>1, <2>3 DEF Pending
  <2>6. ASSUME NEW i \in 1..BatchLength, NEW j \in 1..BatchLength,
               worker'.todo[i] = worker'.todo[j]
        PROVE  i = j
    <3>1. i - 1 = j - 1
      BY <2>1, <2>6 DEF Batches
    <3> QED
      BY <2>2, <3>1
  <2> QED
    BY <2>1, <2>4, <2>5, <2>6 DEF QueueSound
<1>2. CASE RowAction
  BY <1>2, RowSteps, QueueInRow
<1>3. CASE BatchCommits \/ Crash
  <2>1. worker' = Waiting
    BY <1>3, BatchEnds, Crashing
  <2>2. worker'.done = {} /\ Len(worker'.todo) = 0
    BY <2>1 DEF Waiting
  <2> QED
    BY <2>2 DEF QueueSound
<1>4. CASE MessageArrives \/ UNCHANGED replyVars
  <2>1. worker' = worker /\ RowsAsBefore
    BY <1>4, Arriving DEF replyVars, RowsAsBefore
  <2>2. /\ \A i \in 1..Len(worker.todo) : worker.todo[i] \in DOMAIN outbox
        /\ worker.done \subseteq DOMAIN outbox
    BY DEF TypeOK
  <2> QED
    BY <2>1, <2>2 DEF QueueSound, Settled, RowsAsBefore
<1> QED
  BY <1>1, <1>2, <1>3, <1>4 DEF ReplyStep

QueueIsSound == Sound /\ QueueSound
LEMMA QueueAlways == Spec => []QueueIsSound
<1>1. Init => Sound /\ QueueSound
  <2> SUFFICES ASSUME Init PROVE Sound /\ QueueSound
    OBVIOUS
  <2>1. worker.todo = <<>> /\ worker.done = {} /\ Len(worker.todo) = 0
    BY DEF Init, Waiting
  <2> QED
    BY <2>1, InitIsSound DEF QueueSound
<1>2. Sound /\ QueueSound /\ [Next]_vars => Sound' /\ QueueSound'
  <2> SUFFICES ASSUME Sound, QueueSound, [Next]_vars PROVE Sound' /\ QueueSound'
    OBVIOUS
  <2> QED
    BY SoundPreserved, StepsSplit, QueuePreserved
<1> QED
  BY <1>1, <1>2, PTL DEF Spec, QueueIsSound

-----------------------------------------------------------------------------
(* What a step in a row comes to                                            *)

Shows == screen' = Append(screen, Current)
Answering == outbox' = Append(outbox, Row("ResponseReady", outbox[Current].msg))

\* Every step in a row either fails on it or goes on with it, leaving what is done as it
\* was, or ends it or notes its answer, for one of the reasons that settle a row.
RowOutcome ==
    \/ /\ worker'.done = worker.done /\ worker'.step # "note" /\ DOMAIN outbox' = DOMAIN outbox
       /\ raises' >= raises + (IF worker.step = "note" THEN 1 ELSE 0)
       /\ \/ UNCHANGED screen
          \/ Shows /\ outbox'[Current].lost >= outbox[Current].lost + 1
    \/ /\ worker'.done = worker.done \union {Current} /\ worker'.step = "next"
       /\ raises' = raises /\ DOMAIN outbox' = DOMAIN outbox
       /\ \/ /\ outbox[Current].type = "ResponseReady" /\ worker.step # "note"
             /\ \/ Shows
                \/ UNCHANGED screen /\ outbox'[Current].dropped
          \/ worker.step = "note" /\ UNCHANGED screen
    \/ /\ worker.step = "responded" /\ Answering /\ raises' = raises /\ UNCHANGED screen
       /\ \/ worker'.done = worker.done \union {Current} /\ worker'.step = "next"
          \/ /\ worker'.done = worker.done /\ worker'.step = "note"
             /\ worker'.todo = worker.todo

LEMMA AttemptsEnd ==
    ASSUME TypeOK, InStep("send"), NEW rows, AttemptFails(rows)
    PROVE  worker'.step # "note"
<1>1. worker \in WorkersOn(DOMAIN outbox) /\ worker.step = "send"
  BY DEF TypeOK, WorkersOn, InStep
<1>2. CASE worker' = [worker EXCEPT !.attempt = worker.attempt + 1]
  <2>1. worker'.step = worker.step
    BY <1>1, <1>2 DEF WorkersOn
  <2> QED
    BY <1>1, <2>1
<1>3. CASE worker' = Leave(worker.done)
  BY <1>3 DEF Leave
<1> QED
  BY <1>2, <1>3 DEF AttemptFails, FailIn

LEMMA RowOutcomes ==
    ASSUME TypeOK, WorkerShape, RowAction
    PROVE  RowOutcome /\ worker.todo # <<>> /\ crashes' = crashes
<1>1. raises \in Nat /\ worker \in WorkersOn(DOMAIN outbox)
      /\ worker.client \in Values \union {None} /\ 0 \in 0..MaxAttempts
  BY DEF TypeOK, WorkersOn
<1>2. worker.todo # <<>>
  BY DEF RowAction, SendBegins, SendWithoutSettings, TurnResponds, TurnCommits, TurnFails,
     NoteEnds, NoteRaises, Delivered, Refused, AnswerLost, SendRaises, Dispatches, Posting,
     InStep, WorkerShape
<1>3. crashes' = crashes
  BY DEF RowAction, SendBegins, SendWithoutSettings, TurnResponds, TurnCommits, TurnFails,
     NoteEnds, NoteRaises, Delivered, Refused, AnswerLost, SendRaises
<1>4. CASE SendBegins \/ TurnResponds
  <2>1. /\ worker'.done = worker.done /\ worker'.step \in {"send", "responded"}
    BY <1>4 DEF SendBegins, TurnResponds, TypeOK
  <2> QED
    BY <1>1, <1>2, <1>3, <1>4, <2>1 DEF SendBegins, TurnResponds, RowOutcome, Dispatches,
       InStep
<1>5. CASE TurnFails \/ SendRaises \/ NoteRaises
  <2>1. FailIn(outbox)
    BY <1>5 DEF TurnFails, SendRaises, NoteRaises
  <2>2. worker'.done = worker.done /\ worker'.step = "next" /\ DOMAIN outbox' = DOMAIN outbox
    BY <1>2, <2>1, FailingAsIs DEF Leaves
  <2>3. raises' >= raises + (IF worker.step = "note" THEN 1 ELSE 0) /\ screen' = screen
    BY <1>1, <1>5 DEF TurnFails, SendRaises, NoteRaises, InStep
  <2> QED
    BY <1>2, <1>3, <2>2, <2>3 DEF RowOutcome
<1>6. CASE Refused
  <2>1. AttemptFails(outbox) /\ InStep("send") /\ raises' = raises /\ screen' = screen
    BY <1>6 DEF Refused, Posting
  <2>2. /\ worker'.done = worker.done /\ DOMAIN outbox' = DOMAIN outbox
        /\ worker'.step # "note"
    <3>1. worker'.done = worker.done /\ DOMAIN outbox' = DOMAIN outbox
      BY <2>1, AttemptingAsIs
    <3>2. worker'.step # "note"
      BY <2>1, AttemptsEnd
    <3> QED
      BY <3>1, <3>2
  <2> QED
    BY <1>1, <1>2, <1>3, <2>1, <2>2 DEF RowOutcome, InStep
<1>7. CASE AnswerLost
  <2> DEFINE new == [outbox[Current] EXCEPT !.lost = @ + 1]
  <2>1. /\ AttemptFails([outbox EXCEPT ![Current] = new]) /\ InStep("send")
        /\ raises' = raises /\ Shows
    BY <1>7 DEF AnswerLost, Posting, Shows
  <2>2. /\ Later(outbox[Current], new) /\ new.processed = outbox[Current].processed
        /\ new.lost = outbox[Current].lost + 1
    BY <1>2, HeadIsRow, RowChanges
  <2>3. worker'.step # "note"
    BY <2>1, AttemptsEnd
  <2> HIDE DEF new
  <2>4. /\ worker'.done = worker.done /\ DOMAIN outbox' = DOMAIN outbox
        /\ outbox'[Current].lost = new.lost
    BY <2>1, <2>2, Attempting
  <2>5. new.lost >= outbox[Current].lost + 1
    BY <1>2, <2>2, HeadIsRow DEF Rows
  <2> QED
    BY <1>1, <1>2, <1>3, <2>1, <2>3, <2>4, <2>5, <2>2 DEF RowOutcome, InStep
<1>8. CASE SendWithoutSettings
  <2>1. /\ Succeed /\ raises' = raises /\ screen' = screen /\ worker.step = "next"
        /\ outbox[Current].type = "ResponseReady"
        /\ outbox' = [outbox EXCEPT ![Current].dropped = TRUE]
    BY <1>8 DEF SendWithoutSettings, Dispatches, InStep
  <2>2. worker'.done = worker.done \union {Current} /\ worker'.step = "next"
    BY <1>2, <2>1, Succeeding DEF Leaves
  <2>3. outbox'[Current].dropped /\ DOMAIN outbox' = DOMAIN outbox
    BY <1>2, <2>1, HeadIsRow, RowChanges
  <2> QED
    BY <1>2, <1>3, <2>1, <2>2, <2>3 DEF RowOutcome
<1>9. CASE NoteEnds
  <2>1. Succeed /\ raises' = raises /\ screen' = screen /\ worker.step = "note"
        /\ outbox' = outbox
    BY <1>9 DEF NoteEnds, InStep
  <2>2. worker'.done = worker.done \union {Current} /\ worker'.step = "next"
    BY <1>2, <2>1, Succeeding DEF Leaves
  <2> QED
    BY <1>2, <1>3, <2>1, <2>2 DEF RowOutcome
<1>10. CASE Delivered
  <2>1. /\ Succeed /\ raises' = raises /\ Shows /\ worker.step = "send" /\ outbox' = outbox
        /\ outbox[Current].type = "ResponseReady"
    BY <1>10 DEF Delivered, Posting, InStep, Shows, WorkerShape
  <2>2. worker'.done = worker.done \union {Current} /\ worker'.step = "next"
    BY <1>2, <2>1, Succeeding DEF Leaves
  <2> QED
    BY <1>2, <1>3, <2>1, <2>2 DEF RowOutcome
<1>11. CASE TurnCommits
  <2>1. /\ worker.step = "responded" /\ Answering /\ raises' = raises /\ screen' = screen
        /\ Succeed \/ worker' = [worker EXCEPT !.step = "note"]
    BY <1>11 DEF TurnCommits, InStep, Answering
  <2>2. CASE Succeed
    <3>1. worker'.done = worker.done \union {Current} /\ worker'.step = "next"
      BY <1>2, <2>2, Succeeding DEF Leaves
    <3> QED
      BY <1>2, <1>3, <2>1, <3>1 DEF RowOutcome
  <2>3. CASE worker' = [worker EXCEPT !.step = "note"]
    <3>1. worker'.done = worker.done /\ worker'.step = "note" /\ worker'.todo = worker.todo
      BY <1>1, <2>3, GoingOn
    <3> QED
      BY <1>2, <1>3, <2>1, <3>1 DEF RowOutcome
  <2> QED
    BY <2>1, <2>2, <2>3
<1> QED
  BY <1>4, <1>5, <1>6, <1>7, <1>8, <1>9, <1>10, <1>11 DEF RowAction


-----------------------------------------------------------------------------
(* Nothing is skipped                                                       *)

IsAnswer(r, m) == outbox[r].type = "ResponseReady" /\ outbox[r].msg = m
HasAnswer(m) == \E r \in DOMAIN outbox : IsAnswer(r, m)
Seen(r) == \E k \in DOMAIN screen : screen[k] = r
Worked(r) == IF outbox[r].type = "MessageReceived"
             THEN HasAnswer(outbox[r].msg)
             ELSE Seen(r) \/ outbox[r].dropped

\* The rows that are recorded, and those whose handler succeeded and that will be, have
\* their work behind them; so has the turn that writes its note.
WorkIsDone ==
    /\ \A r \in DOMAIN outbox : Settled(r) => Worked(r)
    /\ worker.step = "note" => HasAnswer(outbox[Current].msg)

LEMMA WorkStays ==
    ASSUME Sound, OutboxGrows, UNCHANGED screen \/ Shows, NEW r \in DOMAIN outbox
    PROVE  /\ \A m \in 1..MaxMessages : HasAnswer(m) => HasAnswer(m)'
           /\ Worked(r) => Worked(r)'
<1>1. \A a \in DOMAIN outbox : /\ outbox[a] \in Rows /\ a \in DOMAIN outbox'
                               /\ outbox'[a].type = outbox[a].type
                               /\ outbox'[a].msg = outbox[a].msg
                               /\ outbox[a].dropped => outbox'[a].dropped
  BY DEF OutboxGrows, Later, Sound, TypeOK
<1>2. \A m \in 1..MaxMessages : HasAnswer(m) => HasAnswer(m)'
  BY <1>1 DEF HasAnswer, IsAnswer
<1>3. Seen(r) => Seen(r)'
  <2>1. screen \in Seq(DOMAIN outbox)
    BY DEF Sound, TypeOK
  <2>2. \A k \in DOMAIN screen : k \in DOMAIN screen' /\ screen'[k] = screen[k]
    BY <2>1, AppendProperties DEF Shows
  <2> QED
    BY <2>2 DEF Seen
<1>4. outbox[r].msg \in 1..MaxMessages
  BY <1>1 DEF Rows
<1> QED
  BY <1>1, <1>2, <1>3, <1>4 DEF Worked

LEMMA WorkInRow ==
    ASSUME Sound, QueueSound, WorkIsDone, RowAction
    PROVE  WorkIsDone'
<1> DEFINE n == Len(outbox) + 1
<1>1. /\ RowOutcome /\ worker.todo # <<>> /\ OutboxGrows /\ RowStep
      /\ Current \in DOMAIN outbox /\ outbox[Current] \in Rows
  BY RowOutcomes, RowSteps, HeadIsRow DEF Sound, StepIsTyped
<1>2. PICK c \in DOMAIN outbox : c = Current
  BY <1>1
<1>3. PICK m \in 1..MaxMessages : m = outbox[c].msg
  BY <1>1, <1>2 DEF Rows
<1>4. UNCHANGED screen \/ Shows
  BY <1>1 DEF RowOutcome
<1>5. /\ \A r \in DOMAIN outbox : Worked(r) => Worked(r)'
      /\ HasAnswer(m) => HasAnswer(m)'
  BY <1>1, <1>4, WorkStays
<1>6. ASSUME Answering
      PROVE  /\ HasAnswer(m)' /\ DOMAIN outbox' = DOMAIN outbox \union {n}
             /\ n \notin DOMAIN outbox /\ ~outbox'[n].processed
  <2>1. Row("ResponseReady", m) \in Rows
    BY <1>1, <1>2, <1>3, MessageOfRow DEF Sound
  <2>2. /\ DOMAIN outbox' = DOMAIN outbox \union {n} /\ n \notin DOMAIN outbox
        /\ outbox'[n] = Row("ResponseReady", m)
    BY <1>2, <1>3, <1>6, <2>1, RowAppended DEF Sound, Answering
  <2>3. outbox'[n].type = "ResponseReady" /\ outbox'[n].msg = m /\ ~outbox'[n].processed
    BY <2>2 DEF Row
  <2> HIDE DEF n
  <2> QED
    BY <2>2, <2>3 DEF HasAnswer, IsAnswer
<1> HIDE DEF n
<1>7. /\ outbox'[c].type = outbox[c].type /\ outbox'[c].msg = m
      /\ worker.done \subseteq DOMAIN outbox
  BY <1>1, <1>3 DEF OutboxGrows, Later, Sound, TypeOK
<1>8. ASSUME NEW r \in DOMAIN outbox', Settled(r)'
      PROVE  /\ r \in DOMAIN outbox
             /\ \/ Settled(r)
                \/ r = c /\ c \in worker'.done /\ c \notin worker.done
  <2>1. r \in worker'.done \/ outbox'[r].processed
    BY <1>8 DEF Settled
  <2>2. r \in DOMAIN outbox
    <3>1. worker'.done \subseteq DOMAIN outbox
      BY <1>1, <1>7 DEF RowOutcome
    <3>2. DOMAIN outbox' = DOMAIN outbox \/ Answering
      BY <1>1 DEF RowOutcome
    <3> QED
      BY <1>6, <2>1, <3>1, <3>2
  <2>3. outbox'[r].processed = outbox[r].processed
    BY <1>1, <2>2 DEF RowStep, RowsAsBefore
  <2>4. worker'.done = worker.done \/ worker'.done = worker.done \union {c}
    BY <1>1, <1>2 DEF RowOutcome
  <2>5. CASE r \in worker.done \/ outbox[r].processed
    BY <2>2, <2>5 DEF Settled
  <2>6. CASE ~(r \in worker.done \/ outbox[r].processed)
    <3>1. r \in worker'.done
      BY <2>1, <2>3, <2>6
    <3> QED
      BY <2>2, <2>4, <2>6, <3>1
  <2> QED
    BY <2>5, <2>6
<1>9. ASSUME c \in worker'.done, c \notin worker.done
      PROVE  Worked(c)'
  <2>1. CASE Answering /\ worker.step = "responded"
    BY <1>2, <1>6, <1>7, <2>1 DEF Worked, Sound, WorkerShape
  <2>2. CASE worker.step = "note" /\ UNCHANGED screen
    <3>1. HasAnswer(m)'
      BY <1>2, <1>3, <1>5, <2>2 DEF WorkIsDone
    <3>2. outbox[c].type = "MessageReceived"
      BY <1>2, <2>2 DEF Sound, WorkerShape
    <3> QED
      BY <1>7, <3>1, <3>2 DEF Worked
  <2>3. CASE outbox[c].type = "ResponseReady" /\ Shows
    <3>1. Len(screen) + 1 \in DOMAIN screen' /\ screen'[Len(screen) + 1] = c
      BY <1>2, <2>3, <1>1, AppendProperties DEF Shows, Sound, TypeOK
    <3>2. Seen(c)'
      BY <3>1 DEF Seen
    <3> QED
      BY <1>7, <2>3, <3>2 DEF Worked
  <2>4. CASE outbox[c].type = "ResponseReady" /\ outbox'[c].dropped
    BY <1>7, <2>4 DEF Worked
  <2> QED
    BY <1>1, <1>2, <1>9, <2>1, <2>2, <2>3, <2>4 DEF RowOutcome
<1>10. ASSUME worker'.step = "note" PROVE Current' = c /\ HasAnswer(m)'
  <2>1. Answering /\ worker'.todo = worker.todo
    BY <1>1, <1>10 DEF RowOutcome
  <2> QED
    BY <1>2, <1>6, <2>1 DEF Current
<1>11. ASSUME NEW r \in DOMAIN outbox', Settled(r)' PROVE Worked(r)'
  BY <1>5, <1>8, <1>9, <1>11 DEF WorkIsDone
<1>12. worker'.step = "note" => HasAnswer(outbox[Current].msg)'
  <2> SUFFICES ASSUME worker'.step = "note" PROVE HasAnswer(outbox[Current].msg)'
    OBVIOUS
  <2>1. HasAnswer(m)' /\ (outbox[Current].msg)' = m
    BY <1>7, <1>10
  <2> QED
    BY <2>1 DEF HasAnswer, IsAnswer
<1> QED
  BY <1>11, <1>12 DEF WorkIsDone

LEMMA WorkPreserved ==
    ASSUME Sound, QueueSound, WorkIsDone, ReplyStep \/ UNCHANGED replyVars
    PROVE  WorkIsDone'
<1>1. CASE RowAction
  BY <1>1, WorkInRow
<1>2. CASE DrainBatch \/ BatchCommits \/ Crash \/ MessageArrives
  <2>1. /\ OutboxGrows /\ UNCHANGED screen
    BY <1>2, BatchBegins, BatchEnds, Crashing, Arriving
    DEF Sound, StepIsTyped, DrainBatch, BatchCommits
  <2>2. \A r \in DOMAIN outbox : Worked(r) => Worked(r)'
    BY <2>1, WorkStays
  <2>3. \A r \in DOMAIN outbox : Settled(r)' => Settled(r)
    <3>1. CASE DrainBatch
      BY <3>1, BatchBegins DEF Sound, DrainBatch, Settled
    <3>2. CASE BatchCommits
      <4>1. ASSUME NEW r \in DOMAIN outbox
            PROVE  r \notin worker'.done
                   /\ outbox'[r].processed = (outbox[r].processed \/ r \in worker.done)
        BY <3>2, BatchEnds DEF Sound, Waiting
      <4> QED
        BY <4>1 DEF Settled
    <3>3. CASE Crash
      BY <3>3, Crashing DEF Sound, Waiting, Settled, RowsAsBefore
    <3>4. CASE MessageArrives
      BY <3>4, Arriving DEF Sound, Settled, RowsAsBefore
    <3> QED
      BY <1>2, <3>1, <3>2, <3>3, <3>4
  <2>4. \A r \in DOMAIN outbox' : r \notin DOMAIN outbox => ~Settled(r)'
    <3>1. CASE MessageArrives
      <4>1. PICK row \in Rows : outbox' = Append(outbox, row) /\ ~row.processed
        BY <3>1, Arriving DEF Sound, Row
      <4>2. worker.done \subseteq DOMAIN outbox /\ worker' = worker
        BY <3>1, Arriving DEF Sound, TypeOK
      <4> QED
        BY <4>1, <4>2, RowAppended DEF Sound, Settled
    <3>2. CASE DrainBatch \/ BatchCommits \/ Crash
      BY <3>2, BatchEnds, Crashing DEF Sound, DrainBatch
    <3> QED
      BY <1>2, <3>1, <3>2
  <2>5. worker'.step = "note" => HasAnswer(outbox[Current].msg)'
    <3> SUFFICES ASSUME worker'.step = "note" PROVE HasAnswer(outbox[Current].msg)'
      OBVIOUS
    <3>1. CASE MessageArrives
      <4>1. worker' = worker /\ Current \in DOMAIN outbox
        BY <3>1, Arriving, HeadIsRow DEF Sound, WorkerShape
      <4>2. PICK m \in 1..MaxMessages : m = outbox[Current].msg
        <5>1. outbox[Current] \in Rows
          BY <4>1 DEF Sound, TypeOK
        <5> QED
          BY <5>1 DEF Rows
      <4>3. HasAnswer(m)'
        BY <2>1, <4>1, <4>2, WorkStays DEF WorkIsDone
      <4>4. (outbox[Current].msg)' = m
        BY <2>1, <4>1, <4>2 DEF OutboxGrows, Later, Current
      <4> QED
        BY <4>3, <4>4 DEF HasAnswer, IsAnswer
    <3>2. CASE DrainBatch \/ BatchCommits \/ Crash
      BY <3>2, BatchBegins, BatchEnds, Crashing DEF Sound, Waiting
    <3> QED
      BY <1>2, <3>1, <3>2
  <2> QED
    BY <2>2, <2>3, <2>4, <2>5 DEF WorkIsDone
<1>3. CASE UNCHANGED replyVars
  BY <1>3 DEF replyVars, WorkIsDone, Settled, Worked, HasAnswer, IsAnswer, Seen, Current
<1> QED
  BY <1>1, <1>2, <1>3 DEF ReplyStep

WorkIsSound == QueueIsSound /\ WorkIsDone
LEMMA WorkAlways == Spec => []WorkIsSound
<1>1. Init => WorkIsDone
  BY DEF Init, WorkIsDone, Waiting
<1>2. QueueIsSound /\ WorkIsDone /\ [Next]_vars => WorkIsDone'
  <2> SUFFICES ASSUME QueueIsSound, WorkIsDone, [Next]_vars PROVE WorkIsDone'
    OBVIOUS
  <2> QED
    BY StepsSplit, WorkPreserved DEF QueueIsSound
<1> QED
  BY <1>1, <1>2, QueueAlways, PTL DEF Spec, WorkIsSound

\* The bus records a row only when its work is done: the message has its answer, and the
\* answer has been on the lead's screen or was given up for want of Chatwoot settings,
\* whatever attempts, commits and processes failed on the way.
THEOREM NothingSkipped == Spec => []NothingIsSkipped
<1>1. ASSUME WorkIsSound PROVE NothingIsSkipped
  <2> SUFFICES ASSUME NEW r \in DOMAIN outbox, outbox[r].processed
               PROVE  IF outbox[r].type = "MessageReceived"
                      THEN Answers(outbox[r].msg) # {}
                      ELSE Copies(r) >= 1 \/ outbox[r].dropped
    BY DEF NothingIsSkipped
  <2>1. Worked(r)
    BY <1>1 DEF WorkIsSound, WorkIsDone, Settled
  <2>2. HasAnswer(outbox[r].msg) => Answers(outbox[r].msg) # {}
    BY DEF HasAnswer, IsAnswer, Answers
  <2>3. Seen(r) => Copies(r) >= 1
    <3>1. screen \in Seq(DOMAIN outbox)
      BY <1>1 DEF WorkIsSound, QueueIsSound, Sound, TypeOK
    <3> DEFINE S == {k \in DOMAIN screen : screen[k] = r}
    <3>2. IsFiniteSet(S)
      <4>1. DOMAIN screen = 1..Len(screen) /\ Len(screen) \in Nat
        BY <3>1
      <4>2. IsFiniteSet(1..Len(screen)) /\ S \subseteq 1..Len(screen)
        BY <4>1, FS_Interval
      <4> QED
        BY <4>2, FS_Subset
    <3>3. Seen(r) => S # {}
      BY DEF Seen
    <3>4. Cardinality(S) \in Nat /\ (S # {} => Cardinality(S) # 0)
      BY <3>2, FS_CardinalityType, FS_EmptySet
    <3> QED
      BY <3>3, <3>4 DEF Copies
  <2> QED
    BY <2>1, <2>2, <2>3 DEF Worked
<1> QED
  BY <1>1, WorkAlways, PTL


-----------------------------------------------------------------------------
(* Repetitions are accounted for                                            *)

LEMMA SettledStays ==
    ASSUME Sound, ReplyStep, ~Crash, NEW r \in DOMAIN outbox, Settled(r)
    PROVE  Settled(r)'
<1>1. CASE RowAction
  <2>1. RowOutcome /\ outbox'[r].processed = outbox[r].processed
    BY <1>1, RowOutcomes, RowSteps DEF Sound, RowStep, RowsAsBefore
  <2>2. worker.done \subseteq worker'.done
    BY <2>1 DEF RowOutcome
  <2> QED
    BY <2>1, <2>2 DEF Settled
<1>2. CASE DrainBatch
  BY <1>2, BatchBegins DEF Sound, DrainBatch, Settled
<1>3. CASE BatchCommits
  <2>1. outbox'[r].processed = (outbox[r].processed \/ r \in worker.done)
    BY <1>3, BatchEnds DEF Sound
  <2> QED
    BY <2>1 DEF Settled
<1>4. CASE MessageArrives
  BY <1>4, Arriving DEF Sound, Settled, RowsAsBefore
<1> QED
  BY <1>1, <1>2, <1>3, <1>4 DEF ReplyStep

LEMMA RowsAreRows == Sound => outbox \in [DOMAIN outbox -> Rows]
<1>1. Sound => outbox \in Seq(Rows)
  BY DEF Sound, TypeOK
<1> QED
  BY <1>1

\* An answer is on the screen once for being sent, and otherwise for lost answers of
\* Chatwoot and crashes.
CopiesCounted ==
    \A r \in DOMAIN outbox :
        Copies(r) <= outbox[r].lost + crashes + (IF Settled(r) THEN 1 ELSE 0)

LEMMA CopiesAreCountable ==
    ASSUME Sound, NEW r
    PROVE  /\ Copies(r) \in Nat
           /\ IsFiniteSet({k \in DOMAIN screen : screen[k] = r})
<1>1. DOMAIN screen = 1..Len(screen) /\ Len(screen) \in Nat
  BY DEF Sound, TypeOK
<1>2. IsFiniteSet(1..Len(screen))
  BY <1>1, FS_Interval
<1>3. {k \in DOMAIN screen : screen[k] = r} \subseteq 1..Len(screen)
  BY <1>1
<1> QED
  BY <1>2, <1>3, FS_Subset, FS_CardinalityType DEF Copies

LEMMA CopyShown ==
    ASSUME Sound, worker.todo # <<>>, Shows, NEW r
    PROVE  Copies(r)' = IF r = Current THEN Copies(r) + 1 ELSE Copies(r)
<1> DEFINE S == {k \in DOMAIN screen : screen[k] = r}
           n == Len(screen) + 1
<1>1. /\ screen \in Seq(DOMAIN outbox) /\ Len(screen) \in Nat
      /\ DOMAIN screen = 1..Len(screen) /\ Current \in DOMAIN outbox
  BY HeadIsRow DEF Sound, TypeOK
<1>2. /\ DOMAIN screen' = DOMAIN screen \union {n} /\ n \notin DOMAIN screen
      /\ screen'[n] = Current /\ \A k \in DOMAIN screen : screen'[k] = screen[k]
  BY <1>1, AppendProperties DEF Shows
<1> HIDE DEF n
<1>3. S' = IF r = Current THEN S \union {n} ELSE S
  BY <1>2
<1>4. IsFiniteSet(S) /\ n \notin S
  BY <1>2, CopiesAreCountable
<1>5. Copies(r) = Cardinality(S) /\ Copies(r)' = Cardinality(S')
  BY DEF Copies
<1> HIDE DEF S
<1> QED
  BY <1>3, <1>4, <1>5, FS_AddElement

LEMMA CopiesPreserved ==
    ASSUME Sound, QueueSound, CopiesCounted, ReplyStep, Sound'
    PROVE  CopiesCounted'
<1> SUFFICES ASSUME NEW r \in DOMAIN outbox'
             PROVE  Copies(r)' <= outbox'[r].lost + crashes'
                                  + (IF Settled(r)' THEN 1 ELSE 0)
  BY DEF CopiesCounted
<1>1. /\ OutboxGrows /\ crashes \in Nat /\ crashes' \in Nat
      /\ Copies(r) \in Nat /\ screen \in Seq(DOMAIN outbox) /\ outbox'[r].lost \in Nat
  <2>1. OutboxGrows
    BY BatchBegins, BatchEnds, RowSteps, Arriving, Crashing
    DEF ReplyStep, Sound, StepIsTyped
  <2>2. outbox'[r].lost \in Nat
    <3>1. outbox' \in Seq(Rows)
      BY DEF Sound, TypeOK
    <3>2. outbox'[r] \in Rows
      BY <3>1
    <3> QED
      BY <3>2 DEF Rows
  <2>3. crashes \in Nat /\ crashes' \in Nat /\ screen \in Seq(DOMAIN outbox)
    BY DEF Sound, TypeOK
  <2> QED
    BY <2>1, <2>2, <2>3, CopiesAreCountable
<1>2. /\ screen' = screen \/ (RowAction /\ Shows /\ DOMAIN outbox' = DOMAIN outbox)
      /\ crashes' = IF Crash THEN crashes + 1 ELSE crashes
  <2>1. CASE RowAction
    <3>1. RowOutcome /\ crashes' = crashes
      BY <2>1, RowOutcomes DEF Sound
    <3>2. ~Crash
      BY <1>1, <3>1 DEF Crash
    <3> QED
      BY <2>1, <3>1, <3>2 DEF RowOutcome
  <2>2. CASE Crash
    BY <2>2, Crashing DEF Sound
  <2>3. CASE DrainBatch \/ BatchCommits \/ MessageArrives
    <3>1. crashes' = crashes /\ screen' = screen
      BY <2>3 DEF DrainBatch, BatchCommits, MessageArrives
    <3> QED
      BY <1>1, <3>1 DEF Crash
  <2> QED
    BY <2>1, <2>2, <2>3 DEF ReplyStep
<1>3. CASE r \notin DOMAIN outbox
  <2>1. screen' = screen /\ \A k \in DOMAIN screen : screen[k] # r
    BY <1>1, <1>2, <1>3
  <2>2. {k \in DOMAIN screen' : screen'[k] = r} = {}
    BY <2>1
  <2>3. Copies(r)' = 0
    BY <2>2, FS_EmptySet DEF Copies
  <2> QED
    BY <1>1, <2>3
<1>4. CASE r \in DOMAIN outbox
  <2>1. /\ Copies(r) <= outbox[r].lost + crashes + (IF Settled(r) THEN 1 ELSE 0)
        /\ outbox'[r].lost >= outbox[r].lost /\ outbox[r].lost \in Nat
    <3>1. outbox[r] \in Rows
      BY <1>4, RowsAreRows
    <3>2. outbox[r].lost \in Nat
      BY <3>1 DEF Rows
    <3> QED
      BY <1>1, <1>4, <3>2 DEF CopiesCounted, OutboxGrows, Later
  <2>2. ~Crash /\ Settled(r) => Settled(r)'
    BY <1>4, SettledStays
  <2>3. CASE screen' = screen
    <3>1. Copies(r)' = Copies(r)
      BY <2>3 DEF Copies
    <3> DEFINE was == IF Settled(r) THEN 1 ELSE 0
               is  == IF Settled(r)' THEN 1 ELSE 0
    <3>a. was \in 0..1 /\ is \in 0..1 /\ Copies(r) <= outbox[r].lost + crashes + was
      BY <2>1
    <3>b. /\ outbox[r].lost \in Nat /\ outbox'[r].lost \in Nat /\ crashes \in Nat
          /\ Copies(r) \in Nat /\ outbox'[r].lost >= outbox[r].lost
      BY <1>1, <2>1
    <3>2. CASE Crash
      <4>1. crashes' = crashes + 1
        BY <1>2, <3>2
      <4> HIDE DEF was, is
      <4>2. Copies(r)' <= outbox'[r].lost + crashes' + is
        BY <3>1, <3>a, <3>b, <4>1
      <4> QED
        BY <4>2 DEF is
    <3>3. CASE ~Crash
      <4>1. crashes' = crashes /\ is >= was
        BY <1>2, <2>2, <3>3
      <4> HIDE DEF was, is
      <4>2. Copies(r)' <= outbox'[r].lost + crashes' + is
        BY <3>1, <3>a, <3>b, <4>1
      <4> QED
        BY <4>2 DEF is
    <3> QED
      BY <3>2, <3>3
  <2>4. CASE RowAction /\ Shows
    <3>1. RowOutcome /\ worker.todo # <<>> /\ crashes' = crashes
      BY <2>4, RowOutcomes DEF Sound
    <3>2. Copies(r)' = IF r = Current THEN Copies(r) + 1 ELSE Copies(r)
      BY <2>4, <3>1, CopyShown
    <3>3. ~Crash
      BY <1>1, <3>1 DEF Crash
    <3>4. CASE r # Current
      <4>1. /\ Copies(r)' = Copies(r) /\ crashes' = crashes /\ (Settled(r) => Settled(r)')
            /\ Copies(r) \in Nat /\ crashes \in Nat /\ outbox'[r].lost \in Nat
        BY <1>1, <2>2, <3>1, <3>2, <3>3, <3>4
      <4> QED
        BY <2>1, <4>1
    <3>5. CASE r = Current
      <4>1. ~Settled(r)
        BY <3>1, <3>5, HeadIsUnsettled DEF Sound
      <4>2. outbox'[r].lost >= outbox[r].lost + 1 \/ r \in worker'.done
        <5>1. screen' # screen
          BY <1>1, <2>4, <3>1, HeadIsRow, AppendProperties DEF Shows, Sound
        <5> QED
          BY <3>1, <3>5, <5>1 DEF RowOutcome
      <4>3. r \in worker'.done => Settled(r)'
        BY DEF Settled
      <4>4. Copies(r)' = Copies(r) + 1 /\ Copies(r) <= outbox[r].lost + crashes
        <5>1. Copies(r) <= outbox[r].lost + crashes + 0
          BY <2>1, <4>1
        <5>2. outbox[r].lost \in Nat /\ crashes \in Nat
          BY <1>1, <2>1
        <5> QED
          BY <3>2, <3>5, <5>1, <5>2
      <4>5. /\ crashes' = crashes /\ crashes \in Nat /\ Copies(r) \in Nat
            /\ outbox'[r].lost \in Nat /\ outbox[r].lost \in Nat
            /\ outbox'[r].lost >= outbox[r].lost
        BY <1>1, <2>1, <3>1
      <4> QED
        BY <4>2, <4>3, <4>4, <4>5
    <3> QED
      BY <3>4, <3>5
  <2> QED
    BY <1>2, <2>3, <2>4
<1> QED
  BY <1>3, <1>4


\* A message has one row, since the webhook numbers it after those that arrived.
ArrivalsDistinct ==
    /\ \A r \in Arrived : outbox[r].msg <= Cardinality(Arrived)
    /\ \A r, s \in Arrived : outbox[r].msg = outbox[s].msg => r = s

LEMMA AnswerAppended ==
    ASSUME Sound, worker.todo # <<>>, Answering
    PROVE  /\ Arrived' = Arrived /\ OutboxGrows
           /\ \E n : /\ n \notin DOMAIN outbox /\ DOMAIN outbox' = DOMAIN outbox \union {n}
                     /\ outbox'[n].type = "ResponseReady"
                     /\ outbox'[n].msg = outbox[Current].msg
<1> DEFINE n == Len(outbox) + 1
<1>1. Row("ResponseReady", outbox[Current].msg) \in Rows
  BY MessageOfRow DEF Sound
<1>2. /\ OutboxGrows /\ DOMAIN outbox' = DOMAIN outbox \union {n} /\ n \notin DOMAIN outbox
      /\ outbox'[n] = Row("ResponseReady", outbox[Current].msg)
      /\ \A r \in DOMAIN outbox : outbox'[r] = outbox[r]
  BY <1>1, RowAppended DEF Sound, Answering
<1>3. outbox'[n].type = "ResponseReady" /\ outbox'[n].msg = outbox[Current].msg
  BY <1>2 DEF Row
<1> HIDE DEF n
<1> QED
  BY <1>2, <1>3 DEF Arrived

LEMMA RowsKept ==
    ASSUME Sound, ReplyStep, ~MessageArrives
    PROVE  /\ OutboxGrows
           /\ DOMAIN outbox' = DOMAIN outbox
              \/ (RowAction /\ worker.todo # <<>> /\ RowOutcome /\ Answering)
<1>1. OutboxGrows
  BY BatchBegins, BatchEnds, RowSteps, Crashing DEF ReplyStep, Sound, StepIsTyped
<1>2. CASE RowAction
  BY <1>1, <1>2, RowOutcomes DEF Sound, RowOutcome
<1>3. CASE DrainBatch \/ BatchCommits \/ Crash
  BY <1>1, <1>3, BatchEnds, Crashing DEF Sound, DrainBatch
<1> QED
  BY <1>2, <1>3 DEF ReplyStep

LEMMA ArrivalsPreserved ==
    ASSUME Sound, ArrivalsDistinct, ReplyStep
    PROVE  ArrivalsDistinct'
<1>1. CASE MessageArrives
  <2> DEFINE n == Len(outbox) + 1
             m == Cardinality(Arrived) + 1
  <2>1. /\ Row("MessageReceived", m) \in Rows
        /\ outbox' = Append(outbox, Row("MessageReceived", m))
    BY <1>1, Arriving DEF Sound
  <2>2. /\ DOMAIN outbox' = DOMAIN outbox \union {n} /\ n \notin DOMAIN outbox
        /\ outbox'[n] = Row("MessageReceived", m)
        /\ \A r \in DOMAIN outbox : outbox'[r] = outbox[r]
    BY <2>1, RowAppended DEF Sound
  <2>3. outbox'[n].type = "MessageReceived" /\ outbox'[n].msg = m
    BY <2>2 DEF Row
  <2> HIDE DEF n
  <2>4. Arrived' = Arrived \union {n} /\ n \notin Arrived
    BY <2>2, <2>3 DEF Arrived
  <2>5. IsFiniteSet(Arrived) /\ Cardinality(Arrived) \in Nat
    BY RowsAreFinite DEF Sound, Arrived
  <2>6. Cardinality(Arrived') = m
    BY <2>4, <2>5, FS_AddElement
  <2>7. \A r \in Arrived : /\ outbox'[r].msg = outbox[r].msg /\ outbox[r].msg \in Nat
                           /\ outbox[r].msg < m
    <3> SUFFICES ASSUME NEW r \in Arrived
                 PROVE  /\ outbox'[r].msg = outbox[r].msg /\ outbox[r].msg \in Nat
                        /\ outbox[r].msg < m
      OBVIOUS
    <3>1. r \in DOMAIN outbox /\ outbox[r] \in Rows
      BY DEF Arrived, Sound, TypeOK
    <3>2. outbox[r].msg \in 1..MaxMessages
      BY <3>1 DEF Rows
    <3>3. outbox[r].msg <= Cardinality(Arrived)
      BY DEF ArrivalsDistinct
    <3> QED
      BY <2>2, <2>5, <3>1, <3>2, <3>3
  <2> HIDE DEF m
  <2>8. m \in Nat
    BY <2>5 DEF m
  <2>9. \A r \in Arrived' : outbox'[r].msg <= Cardinality(Arrived')
    BY <2>3, <2>4, <2>6, <2>7, <2>8
  <2>10. \A r, s \in Arrived' : outbox'[r].msg = outbox'[s].msg => r = s
    BY <2>3, <2>4, <2>7, <2>8 DEF ArrivalsDistinct
  <2> QED
    BY <2>9, <2>10 DEF ArrivalsDistinct
<1>2. CASE ~MessageArrives
  <2>1. OutboxGrows /\ Arrived' = Arrived
    <3>1. CASE DOMAIN outbox' = DOMAIN outbox
      BY <1>2, <3>1, RowsKept DEF OutboxGrows, Later, Arrived
    <3>2. CASE worker.todo # <<>> /\ Answering
      BY <3>2, AnswerAppended
    <3> QED
      BY <1>2, <3>1, <3>2, RowsKept
  <2>2. \A r \in Arrived : outbox'[r].msg = outbox[r].msg
    BY <2>1 DEF OutboxGrows, Later, Arrived
  <2> QED
    BY <2>1, <2>2 DEF ArrivalsDistinct
<1> QED
  BY <1>1, <1>2

\* The turn of the message has answered it, in the batch that is being worked on or in
\* one that is recorded.
Responded(m) ==
    \E r \in Arrived : /\ outbox[r].msg = m
                       /\ Settled(r) \/ (worker.step = "note" /\ r = Current)

\* A message has one answer for being answered, and otherwise for crashes and for turns
\* that fail after their commit.
AnswersCounted ==
    \A m \in 1..MaxMessages :
        Cardinality(Answers(m)) <= crashes + raises + (IF Responded(m) THEN 1 ELSE 0)

LEMMA AnswersOf ==
    ASSUME Sound, ReplyStep, NEW m \in 1..MaxMessages
    PROVE  /\ Cardinality(Answers(m)) \in Nat
           /\ \/ Answers(m)' = Answers(m)
              \/ /\ RowAction /\ worker.todo # <<>> /\ RowOutcome /\ Answering
                 /\ outbox[Current].msg = m
                 /\ Cardinality(Answers(m))' = Cardinality(Answers(m)) + 1
<1>1. IsFiniteSet(Answers(m)) /\ Cardinality(Answers(m)) \in Nat
  BY RowsAreFinite DEF Sound, Answers
<1>2. CASE MessageArrives
  <2> DEFINE n == Len(outbox) + 1
  <2>1. PICK row \in Rows : /\ outbox' = Append(outbox, row)
                            /\ row.type = "MessageReceived"
    BY <1>2, Arriving DEF Sound, Row
  <2>2. /\ DOMAIN outbox' = DOMAIN outbox \union {n} /\ n \notin DOMAIN outbox
        /\ outbox'[n] = row /\ \A r \in DOMAIN outbox : outbox'[r] = outbox[r]
    BY <2>1, RowAppended DEF Sound
  <2> HIDE DEF n
  <2>3. Answers(m)' = Answers(m)
    BY <2>1, <2>2 DEF Answers
  <2> QED
    BY <1>1, <2>3
<1>3. CASE ~MessageArrives /\ DOMAIN outbox' = DOMAIN outbox
  <2>1. Answers(m)' = Answers(m)
    BY <1>3, RowsKept DEF OutboxGrows, Later, Answers
  <2> QED
    BY <1>1, <2>1
<1>4. CASE RowAction /\ worker.todo # <<>> /\ RowOutcome /\ Answering
  <2>1. PICK n : /\ n \notin DOMAIN outbox /\ DOMAIN outbox' = DOMAIN outbox \union {n}
                 /\ outbox'[n].type = "ResponseReady"
                 /\ outbox'[n].msg = outbox[Current].msg
    BY <1>4, AnswerAppended
  <2>2. \A r \in DOMAIN outbox : /\ outbox'[r].type = outbox[r].type
                                 /\ outbox'[r].msg = outbox[r].msg
    BY <1>4, AnswerAppended DEF OutboxGrows, Later
  <2>3. CASE outbox[Current].msg = m
    <3>1. Answers(m)' = Answers(m) \union {n} /\ n \notin Answers(m)
      BY <2>1, <2>2, <2>3 DEF Answers
    <3>2. Cardinality(Answers(m))' = Cardinality(Answers(m)) + 1
      BY <1>1, <3>1, FS_AddElement
    <3> QED
      BY <1>1, <1>4, <2>3, <3>2
  <2>4. CASE outbox[Current].msg # m
    <3>1. Answers(m)' = Answers(m)
      BY <2>1, <2>2, <2>4 DEF Answers
    <3> QED
      BY <1>1, <3>1
  <2> QED
    BY <2>3, <2>4
<1> QED
  BY <1>2, <1>3, <1>4, RowsKept


LEMMA FailuresGrow ==
    ASSUME Sound, Sound', ReplyStep
    PROVE  /\ crashes \in Nat /\ raises \in Nat /\ crashes' \in Nat /\ raises' \in Nat
           /\ raises' >= raises
           /\ crashes' >= crashes + (IF Crash THEN 1 ELSE 0)
<1>1. crashes \in Nat /\ raises \in Nat /\ crashes' \in Nat /\ raises' \in Nat
  BY DEF Sound, TypeOK
<1>2. CASE RowAction
  <2>1. RowOutcome /\ crashes' = crashes
    BY <1>2, RowOutcomes DEF Sound
  <2> QED
    BY <1>1, <2>1 DEF RowOutcome, Crash
<1>3. CASE Crash
  BY <1>1, <1>3, Crashing DEF Sound
<1>4. CASE DrainBatch \/ BatchCommits \/ MessageArrives
  <2>1. crashes' = crashes /\ raises' = raises
    BY <1>4 DEF DrainBatch, BatchCommits, MessageArrives
  <2> QED
    BY <1>1, <2>1 DEF Crash
<1> QED
  BY <1>2, <1>3, <1>4 DEF ReplyStep

LEMMA RespondedStays ==
    ASSUME Sound, Sound', ReplyStep, ~Crash, NEW m \in 1..MaxMessages, Responded(m)
    PROVE  Responded(m)' \/ raises' >= raises + 1
<1>1. PICK r \in Arrived : /\ outbox[r].msg = m
                           /\ Settled(r) \/ (worker.step = "note" /\ r = Current)
  BY DEF Responded
<1>2. r \in DOMAIN outbox /\ r \in Arrived' /\ outbox'[r].msg = m
  <2>1. OutboxGrows
    BY RowsKept, Arriving DEF Sound, StepIsTyped
  <2> QED
    BY <1>1, <2>1 DEF Arrived, OutboxGrows, Later
<1>3. CASE Settled(r)
  BY <1>1, <1>2, <1>3, SettledStays DEF Responded
<1>4. CASE worker.step = "note" /\ r = Current
  <2>1. CASE RowAction
    <3>1. RowOutcome
      BY <2>1, RowOutcomes DEF Sound
    <3>2. raises' >= raises + 1 \/ r \in worker'.done
      BY <1>4, <3>1 DEF RowOutcome
    <3> QED
      BY <1>2, <3>2 DEF Responded, Settled
  <2>2. CASE MessageArrives
    <3>1. worker'.step = "note" /\ r = Current'
      BY <1>4, <2>2, Arriving DEF Sound, Current
    <3> QED
      BY <1>2, <3>1 DEF Responded
  <2>3. ~DrainBatch /\ ~BatchCommits
    BY <1>4 DEF DrainBatch, BatchCommits, InStep
  <2> QED
    BY <2>1, <2>2, <2>3 DEF ReplyStep
<1> QED
  BY <1>1, <1>3, <1>4

LEMMA AnswersPreserved ==
    ASSUME Sound, Sound', QueueSound, ArrivalsDistinct, AnswersCounted, ReplyStep
    PROVE  AnswersCounted'
<1> SUFFICES ASSUME NEW m \in 1..MaxMessages
             PROVE  Cardinality(Answers(m))' <= crashes' + raises'
                                                + (IF Responded(m)' THEN 1 ELSE 0)
  BY DEF AnswersCounted
<1> DEFINE answers == Cardinality(Answers(m))
<1>1. /\ crashes \in Nat /\ raises \in Nat /\ crashes' \in Nat /\ raises' \in Nat
      /\ raises' >= raises
      /\ crashes' >= crashes + (IF Crash THEN 1 ELSE 0)
  BY FailuresGrow
<1>2. answers \in Nat /\ answers <= crashes + raises + (IF Responded(m) THEN 1 ELSE 0)
  BY AnswersOf DEF AnswersCounted
<1>3. CASE Answers(m)' = Answers(m)
  <2>1. answers' = answers
    BY <1>3
  <2>2. Crash \/ (Responded(m) => Responded(m)' \/ raises' >= raises + 1)
    BY RespondedStays
  <2> HIDE DEF answers
  <2> QED
    BY <1>1, <1>2, <2>1, <2>2 DEF answers
<1>4. CASE /\ RowAction /\ worker.todo # <<>> /\ RowOutcome /\ Answering
           /\ outbox[Current].msg = m /\ answers' = answers + 1
  <2>1. PICK c \in DOMAIN outbox : c = Current
    BY <1>4, HeadIsRow DEF Sound
  <2>2. /\ worker.step = "responded" /\ outbox[c].type = "MessageReceived"
        /\ \/ c \in worker'.done
           \/ worker'.step = "note" /\ worker'.todo = worker.todo
    <3>1. DOMAIN outbox' # DOMAIN outbox
      BY <1>4, AnswerAppended
    <3> QED
      BY <1>4, <2>1, <3>1 DEF RowOutcome, Sound, WorkerShape
  <2>3. c \in Arrived /\ outbox[c].msg = m /\ ~Settled(c)
    BY <1>4, <2>1, <2>2, HeadIsUnsettled DEF Sound, Arrived
  <2>4. ~Responded(m)
    BY <2>2, <2>3 DEF Responded, ArrivalsDistinct
  <2>5. c \in Arrived' /\ outbox'[c].msg = m
    BY <1>4, <2>3, AnswerAppended DEF OutboxGrows, Later, Arrived
  <2>6. c \in worker'.done \/ (worker'.step = "note" /\ c = Current')
    BY <2>1, <2>2 DEF Current
  <2>7. Responded(m)'
    BY <2>5, <2>6 DEF Responded, Settled
  <2>8. answers <= crashes + raises /\ answers' = answers + 1
    BY <1>1, <1>2, <1>4, <2>4
  <2>9. /\ crashes \in Nat /\ raises \in Nat /\ crashes' \in Nat /\ raises' \in Nat
        /\ answers \in Nat /\ raises' >= raises /\ crashes' >= crashes
    BY <1>1, <1>2
  <2>10. \A a, c1, r1, c2, r2 \in Nat : a <= c1 + r1 /\ c2 >= c1 /\ r2 >= r1
                                         => a + 1 <= c2 + r2 + 1
    OBVIOUS
  <2>11. answers' <= crashes' + raises' + 1
    BY <2>8, <2>9, <2>10
  <2> QED
    BY <2>7, <2>11 DEF answers
<1> QED
  BY <1>3, <1>4, AnswersOf

CountsAreSound == CopiesCounted /\ ArrivalsDistinct /\ AnswersCounted
LEMMA CountsAlways == Spec => [](QueueIsSound /\ CountsAreSound)
<1>1. Init => CountsAreSound
  <2> SUFFICES ASSUME Init PROVE CountsAreSound
    OBVIOUS
  <2>1. outbox = <<>> /\ DOMAIN outbox = {} /\ crashes = 0 /\ raises = 0
    BY DEF Init
  <2>2. \A m \in 1..MaxMessages : Answers(m) = {}
    BY <2>1 DEF Answers
  <2>3. \A m \in 1..MaxMessages : Cardinality(Answers(m)) = 0
    BY <2>2, FS_EmptySet
  <2> QED
    BY <2>1, <2>3 DEF CountsAreSound, CopiesCounted, ArrivalsDistinct, AnswersCounted, Arrived
<1>2. QueueIsSound /\ QueueIsSound' /\ CountsAreSound /\ [Next]_vars => CountsAreSound'
  <2> SUFFICES ASSUME QueueIsSound, QueueIsSound', CountsAreSound, [Next]_vars
               PROVE  CountsAreSound'
    OBVIOUS
  <2>1. CASE ReplyStep
    BY <2>1, CopiesPreserved, ArrivalsPreserved, AnswersPreserved
    DEF CountsAreSound, QueueIsSound
  <2>2. CASE UNCHANGED replyVars
    <3>1. UNCHANGED <<outbox, worker, screen, crashes, raises>>
      BY <2>2 DEF replyVars
    <3>2. CopiesCounted'
      BY <3>1 DEF CountsAreSound, CopiesCounted, Copies, Settled
    <3>3. ArrivalsDistinct'
      BY <3>1 DEF CountsAreSound, ArrivalsDistinct, Arrived
    <3>4. AnswersCounted'
      BY <3>1 DEF CountsAreSound, AnswersCounted, Answers, Responded, Arrived, Settled,
         Current
    <3> QED
      BY <3>2, <3>3, <3>4 DEF CountsAreSound
  <2> QED
    BY <2>1, <2>2, StepsSplit
<1> QED
  BY <1>1, <1>2, QueueAlways, PTL DEF Spec

\* A message gets a second answer only by a crash of the process or a turn that failed
\* after its commit, and the lead reads one answer again only by a crash or a POST whose
\* answer was lost, whatever the batches, the attempts and the settings are.
THEOREM RepetitionsAccounted == Spec => []RepetitionsAreAccounted
<1>1. ASSUME QueueIsSound, CountsAreSound PROVE RepetitionsAreAccounted
  <2>1. crashes \in Nat /\ raises \in Nat
    BY <1>1 DEF QueueIsSound, Sound, TypeOK
  <2>2. ASSUME NEW m \in 1..MaxMessages
        PROVE  Cardinality(Answers(m)) <= 1 + crashes + raises
    <3> DEFINE answers == Cardinality(Answers(m))
    <3>1. answers \in Nat
      BY <1>1, RowsAreFinite DEF QueueIsSound, Sound, Answers
    <3>2. answers <= crashes + raises + (IF Responded(m) THEN 1 ELSE 0)
      BY <1>1 DEF CountsAreSound, AnswersCounted
    <3> HIDE DEF answers
    <3>3. answers <= 1 + crashes + raises
      BY <2>1, <3>1, <3>2
    <3> QED
      BY <3>3 DEF answers
  <2>3. ASSUME NEW r \in DOMAIN outbox
        PROVE  Copies(r) <= 1 + outbox[r].lost + crashes
    <3>1. outbox[r] \in Rows /\ Copies(r) \in Nat
      <4>1. Sound /\ outbox \in Seq(Rows)
        BY <1>1 DEF QueueIsSound, Sound, TypeOK
      <4>2. Copies(r) \in Nat
        BY <4>1, CopiesAreCountable
      <4> QED
        BY <4>1, <4>2
    <3>2. outbox[r].lost \in Nat
      BY <3>1 DEF Rows
    <3>3. Copies(r) <= outbox[r].lost + crashes + (IF Settled(r) THEN 1 ELSE 0)
      BY <1>1 DEF CountsAreSound, CopiesCounted
    <3> QED
      BY <2>1, <3>1, <3>2, <3>3
  <2> QED
    BY <2>2, <2>3 DEF RepetitionsAreAccounted
<1> QED
  BY <1>1, CountsAlways, PTL

-----------------------------------------------------------------------------
(* The memory of the conversation                                           *)

\* The turn of row r was begun: it failed on the way, it is done, or it is going on.
Begun(r) == \/ outbox[r].troubled
            \/ Settled(r)
            \/ worker.step \in {"responded", "note"} /\ r = Current

Remembered(m) == \E k \in DOMAIN memory : memory[k] = m

\* A message is remembered because the turn of its row was begun; it has an answer, or
\* will get one from the turn in progress, unless it met a failure; and it is remembered
\* twice only if it did.
MemorySound ==
    \A m \in 1..MaxMessages :
        /\ Remembered(m) =>
              /\ \E r \in Arrived : outbox[r].msg = m /\ Begun(r)
              /\ \/ Troubled(m) \/ HasAnswer(m)
                 \/ worker.step = "responded" /\ outbox[Current].msg = m
        /\ ~Troubled(m) => \A j, k \in DOMAIN memory : memory[j] = m /\ memory[k] = m => j = k

\* A row that fails is marked.
LEMMA FailureMarks ==
    ASSUME Sound, worker.todo # <<>>, NEW rows \in [DOMAIN outbox -> Rows], FailIn(rows)
    PROVE  Current \in DOMAIN outbox' /\ outbox'[Current].troubled
<1> DEFINE failed == [rows[Current] EXCEPT !.troubled = TRUE]
<1>1. Current \in DOMAIN outbox /\ rows[Current] \in Rows
  BY HeadIsRow DEF Sound
<1>2. outbox' = [rows EXCEPT ![Current] = failed]
  BY DEF FailIn
<1>3. failed.troubled
  BY <1>1, RowChanges
<1> HIDE DEF failed
<1> QED
  BY <1>1, <1>2, <1>3

\* The ways a turn that is going on can go.
LEMMA TurnsEnd ==
    ASSUME Sound, RowAction, ~TurnResponds
    PROVE  /\ memory' = memory
           /\ worker.step \in {"responded", "note"} =>
                 \/ Current \in worker'.done
                 \/ worker'.step = "note" /\ Current' = Current
                 \/ Current \in DOMAIN outbox' /\ outbox'[Current].troubled
           /\ worker.step = "responded" =>
                 Answering \/ outbox'[Current].troubled
<1>1. memory' = memory
  BY DEF RowAction, SendBegins, SendWithoutSettings, TurnCommits, TurnFails, NoteEnds,
     NoteRaises, Delivered, Refused, AnswerLost, SendRaises
<1>2. worker.todo # <<>> /\ worker \in WorkersOn(DOMAIN outbox)
  BY RowOutcomes DEF Sound, TypeOK, WorkersOn
<1>3. Current \in DOMAIN outbox /\ outbox[Current] \in Rows
  BY <1>2, HeadIsRow DEF Sound
<1>4. CASE TurnFails \/ NoteRaises
  <2>1. FailIn(outbox)
    BY <1>4 DEF TurnFails, NoteRaises
  <2> QED
    BY <1>1, <1>2, <2>1, FailureMarks, RowsAreRows
<1>5. CASE NoteEnds
  BY <1>1, <1>2, <1>5, Succeeding DEF Sound, NoteEnds, InStep
<1>6. CASE TurnCommits
  <2>1. worker.step = "responded" /\ Answering
    BY <1>6 DEF TurnCommits, Answering, InStep
  <2>2. CASE Succeed
    BY <1>1, <1>2, <2>1, <2>2, Succeeding DEF Sound
  <2>3. CASE worker' = [worker EXCEPT !.step = "note"]
    <3>1. worker'.step = "note" /\ worker'.todo = worker.todo
      BY <1>2, <2>3 DEF WorkersOn
    <3> QED
      BY <1>1, <2>1, <3>1 DEF Current
  <2> QED
    BY <1>6, <2>2, <2>3 DEF TurnCommits
<1>7. CASE \/ SendBegins \/ SendWithoutSettings \/ Delivered \/ Refused \/ AnswerLost
           \/ SendRaises
  <2>1. worker.step \in {"next", "send"}
    BY <1>7 DEF SendBegins, SendWithoutSettings, Delivered, Refused, AnswerLost,
       SendRaises, Dispatches, Posting, InStep
  <2> QED
    BY <1>1, <2>1
<1> QED
  BY <1>4, <1>5, <1>6, <1>7 DEF RowAction

\* What a message has met stays with it.
LEMMA TroublesStay ==
    ASSUME OutboxGrows, NEW m
    PROVE  /\ Troubled(m) => Troubled(m)'
           /\ HasAnswer(m) => HasAnswer(m)'
           /\ \A r \in Arrived : /\ r \in DOMAIN outbox /\ r \in Arrived'
                                 /\ outbox'[r].msg = outbox[r].msg
                                 /\ outbox[r].troubled => outbox'[r].troubled
BY DEF OutboxGrows, Later, Troubled, HasAnswer, IsAnswer, Arrived

LEMMA MemoryKept ==
    ASSUME QueueIsSound, MemorySound, ReplyStep, ~Crash, ~TurnResponds
    PROVE  MemorySound'
<1> USE DEF QueueIsSound
<1>1. OutboxGrows
  BY RowsKept, Arriving DEF Sound, StepIsTyped
<1>2. memory' = memory
  <2>1. CASE RowAction
    BY <2>1, TurnsEnd
  <2>2. CASE DrainBatch \/ BatchCommits \/ MessageArrives
    BY <2>2 DEF DrainBatch, BatchCommits, MessageArrives
  <2> QED
    BY <2>1, <2>2 DEF ReplyStep
<1>3. ASSUME worker.step \in {"responded", "note"}
      PROVE  /\ \/ Current \in worker'.done
                \/ worker'.step = worker.step /\ Current' = Current
                \/ worker'.step = "note" /\ Current' = Current
                \/ outbox'[Current].troubled
             /\ worker.step = "responded" =>
                   \/ worker'.step = "responded" /\ Current' = Current
                   \/ outbox'[Current].troubled
                   \/ Answering
  <2>1. CASE RowAction
    BY <1>3, <2>1, TurnsEnd
  <2>2. CASE MessageArrives
    BY <2>2 DEF MessageArrives, Current
  <2>3. ~DrainBatch /\ ~BatchCommits
    BY <1>3 DEF DrainBatch, BatchCommits, InStep
  <2> QED
    BY <2>1, <2>2, <2>3 DEF ReplyStep
<1>4. ASSUME NEW r \in Arrived, Begun(r)
      PROVE  Begun(r)'
  <2>1. CASE outbox[r].troubled
    BY <1>1, <2>1, TroublesStay DEF Begun
  <2>2. CASE Settled(r)
    BY <2>2, SettledStays DEF Begun, Arrived
  <2>3. CASE worker.step \in {"responded", "note"} /\ r = Current
    BY <1>3, <2>3 DEF Begun, Settled
  <2> QED
    BY <1>4, <2>1, <2>2, <2>3 DEF Begun
<1>5. ASSUME NEW m \in 1..MaxMessages, Remembered(m)
      PROVE  \E r \in Arrived' : outbox'[r].msg = m /\ Begun(r)'
  BY <1>1, <1>4, <1>5, TroublesStay DEF MemorySound
<1>6. ASSUME NEW m \in 1..MaxMessages, worker.step = "responded", outbox[Current].msg = m
      PROVE  \/ Troubled(m)' \/ HasAnswer(m)'
             \/ worker'.step = "responded" /\ outbox'[Current'].msg = m
  <2>1. worker.todo # <<>>
    BY <1>6 DEF Sound, WorkerShape
  <2>2. /\ Current \in DOMAIN outbox /\ Current \in DOMAIN outbox'
        /\ outbox'[Current].msg = m
    BY <1>1, <1>6, <2>1, HeadIsRow DEF Sound, OutboxGrows, Later
  <2>3. CASE Answering
    BY <1>6, <2>1, <2>3, AnswerAppended DEF HasAnswer, IsAnswer
  <2>4. CASE outbox'[Current].troubled
    BY <2>2, <2>4 DEF Troubled
  <2>5. CASE worker'.step = "responded" /\ Current' = Current
    BY <2>2, <2>5
  <2> QED
    BY <1>3, <1>6, <2>3, <2>4, <2>5
<1>7. ASSUME NEW m \in 1..MaxMessages, Remembered(m)
      PROVE  \/ Troubled(m)' \/ HasAnswer(m)'
             \/ worker'.step = "responded" /\ outbox'[Current'].msg = m
  BY <1>1, <1>6, <1>7, TroublesStay DEF MemorySound
<1>8. \A m \in 1..MaxMessages : Remembered(m)' = Remembered(m)
  BY <1>2 DEF Remembered
<1>9. ASSUME NEW m \in 1..MaxMessages, ~Troubled(m)'
      PROVE  \A j, k \in DOMAIN memory' : memory'[j] = m /\ memory'[k] = m => j = k
  BY <1>1, <1>2, <1>9, TroublesStay DEF MemorySound
<1> QED
  BY <1>5, <1>7, <1>8, <1>9 DEF MemorySound

\* A turn is begun for a message that no turn was begun for, or that met a failure.
LEMMA MemoryGrows ==
    ASSUME QueueIsSound, ArrivalsDistinct, MemorySound, TurnResponds
    PROVE  MemorySound'
<1> USE DEF QueueIsSound, Sound
<1>0. PICK c, m : c = Current /\ m = outbox[c].msg
  OBVIOUS
<1> DEFINE n == Len(memory) + 1
<1>1. /\ worker.step = "next" /\ worker.todo # <<>> /\ outbox[c].type = "MessageReceived"
      /\ outbox' = outbox /\ memory' = Append(memory, m)
  BY <1>0 DEF TurnResponds, Dispatches, InStep
<1>2. c \in Arrived /\ c \in DOMAIN outbox /\ outbox[c] \in Rows /\ ~Settled(c)
  BY <1>0, <1>1, HeadIsRow, HeadIsUnsettled DEF Arrived
<1>3. worker'.step = "responded" /\ worker'.done = worker.done /\ Current' = c
  <2>1. worker' = [worker EXCEPT !.step = "responded", !.client = ClientNow]
    BY DEF TurnResponds
  <2>2. worker'.todo = worker.todo
    BY <2>1 DEF TypeOK
  <2> QED
    BY <1>0, <2>1, <2>2 DEF TypeOK, Current
<1>4. m \in 1..MaxMessages /\ memory \in Seq(1..MaxMessages) /\ outbox[c].msg = m
  BY <1>0, <1>2 DEF Rows, TypeOK
<1>5. /\ DOMAIN memory' = DOMAIN memory \union {n} /\ n \notin DOMAIN memory
      /\ memory'[n] = m /\ \A k \in DOMAIN memory : memory'[k] = memory[k]
  <2>1. /\ memory' \in Seq(1..MaxMessages) /\ Len(memory') = Len(memory) + 1
        /\ \A i \in 1..Len(memory) : memory'[i] = memory[i]
        /\ memory'[Len(memory) + 1] = m
    BY <1>1, <1>4, AppendProperties
  <2>2. Len(memory) \in Nat /\ DOMAIN memory = 1..Len(memory)
        /\ DOMAIN memory' = 1..(Len(memory) + 1)
    BY <1>4, <2>1
  <2> QED
    BY <2>1, <2>2
<1> HIDE DEF n
<1>6. \A k : (Troubled(k)' <=> Troubled(k)) /\ (HasAnswer(k)' <=> HasAnswer(k))
  BY <1>1 DEF Troubled, HasAnswer, IsAnswer
<1>7. Arrived' = Arrived /\ \A r \in Arrived : Begun(r) => Begun(r)'
  BY <1>1, <1>3 DEF Arrived, Begun, Settled
<1>8. Begun(c)'
  BY <1>3 DEF Begun
<1>9. Remembered(m) => Troubled(m)
  <2> SUFFICES ASSUME Remembered(m) PROVE Troubled(m)
    OBVIOUS
  <2>1. PICK r \in Arrived : outbox[r].msg = m /\ Begun(r)
    BY <1>4 DEF MemorySound
  <2>2. r = c
    BY <1>2, <1>4, <2>1 DEF ArrivalsDistinct
  <2> QED
    BY <1>1, <1>2, <1>4, <2>1, <2>2 DEF Begun, Troubled
<1>10. \A x : Remembered(x)' => Remembered(x) \/ x = m
  BY <1>5 DEF Remembered
<1>11. ASSUME NEW x \in 1..MaxMessages, Remembered(x)'
       PROVE  /\ \E r \in Arrived' : outbox'[r].msg = x /\ Begun(r)'
              /\ \/ Troubled(x)' \/ HasAnswer(x)'
                 \/ worker'.step = "responded" /\ outbox'[Current'].msg = x
  <2>1. CASE x = m
    BY <1>1, <1>2, <1>3, <1>4, <1>7, <1>8, <2>1
  <2>2. CASE Remembered(x)
    BY <1>1, <1>6, <1>7, <2>2 DEF MemorySound
  <2> QED
    BY <1>10, <1>11, <2>1, <2>2
<1>12. ASSUME NEW x \in 1..MaxMessages, ~Troubled(x)'
       PROVE  \A j, k \in DOMAIN memory' : memory'[j] = x /\ memory'[k] = x => j = k
  <2>1. \A j, k \in DOMAIN memory : memory[j] = x /\ memory[k] = x => j = k
    BY <1>6, <1>12 DEF MemorySound
  <2>2. x = m => ~Remembered(x)
    BY <1>6, <1>9, <1>12
  <2> QED
    BY <1>5, <2>1, <2>2 DEF Remembered
<1> QED
  BY <1>11, <1>12 DEF MemorySound

LEMMA MemoryAlways == Spec => [](Sound /\ MemorySound)
<1>1. Init => MemorySound
  BY DEF Init, MemorySound, Remembered
<1>2. /\ QueueIsSound /\ CountsAreSound /\ MemorySound /\ [Next]_vars
      => MemorySound'
  <2> SUFFICES ASSUME QueueIsSound, CountsAreSound, MemorySound, [Next]_vars
               PROVE  MemorySound'
    OBVIOUS
  <2>1. CASE Crash
    <3>1. memory' = <<>>
      BY <2>1 DEF Crash
    <3> QED
      BY <3>1 DEF MemorySound, Remembered
  <2>2. CASE TurnResponds
    BY <2>2, MemoryGrows DEF CountsAreSound
  <2>3. CASE ReplyStep /\ ~Crash /\ ~TurnResponds
    BY <2>3, MemoryKept
  <2>4. CASE UNCHANGED replyVars
    BY <2>4 DEF replyVars, MemorySound, Remembered, Begun, Settled, Arrived, Troubled, HasAnswer,
       IsAnswer, Current
  <2> QED
    BY <2>1, <2>2, <2>3, <2>4, StepsSplit
<1> QED
  BY <1>1, <1>2, CountsAlways, PTL DEF Spec, QueueIsSound

\* What the process remembers of the conversation is what was said: without a failure a
\* turn is remembered once, and has its answer unless it is still going on.
THEOREM MemoryTellsWhatWasSaid == Spec => []MemoryIsWhatWasSaid
<1>1. ASSUME Sound, MemorySound PROVE MemoryIsWhatWasSaid
  <2> SUFFICES ASSUME NEW m \in 1..MaxMessages, ~Troubled(m)
               PROVE  LET turns == {k \in DOMAIN memory : memory[k] = m}
                      IN  /\ Cardinality(turns) <= 1
                          /\ ~InStep("responded") /\ turns # {} => Answers(m) # {}
    BY DEF MemoryIsWhatWasSaid
  <2> DEFINE turns == {k \in DOMAIN memory : memory[k] = m}
  <2>1. \A j, k \in turns : j = k
    BY <1>1 DEF MemorySound
  <2>2. ~InStep("responded") /\ turns # {} => Answers(m) # {}
    BY <1>1 DEF MemorySound, Remembered, InStep, HasAnswer, IsAnswer, Answers
  <2>3. CASE turns = {}
    <3>1. Cardinality(turns) = 0
      BY <2>3, FS_EmptySet
    <3> QED
      BY <2>2, <3>1
  <2>4. CASE turns # {}
    <3>1. PICK k \in turns : turns = {k}
      BY <2>1, <2>4
    <3>2. Cardinality(turns) = 1
      BY <3>1, FS_Singleton
    <3> QED
      BY <2>2, <3>2
  <2> QED
    BY <2>3, <2>4
<1> QED
  BY <1>1, MemoryAlways, PTL

-----------------------------------------------------------------------------
(* The order of the rows                                                    *)

\* The bus has gone past row r: it is done, or it failed.
Passed(r) == Settled(r) \/ outbox[r].troubled

\* The bus goes past the rows in their order, and what is left of the batch holds,
\* before each row, the older ones it has not gone past.
RowsInOrder ==
    /\ \A r, s \in DOMAIN outbox : r < s /\ Passed(s) => Passed(r)
    /\ \A i \in 1..Len(worker.todo) : \A r \in DOMAIN outbox :
          r < worker.todo[i] => Passed(r) \/ \E j \in 1..(i - 1) : worker.todo[j] = r

LEMMA LeftIsPassed ==
    ASSUME Sound, RowAction, Leaves
    PROVE  \/ Current \in worker'.done
           \/ Current \in DOMAIN outbox' /\ outbox'[Current].troubled
<1>1. worker.todo # <<>> /\ worker \in WorkersOn(DOMAIN outbox) /\ worker'.step = "next"
  BY DEF Leaves, Sound, TypeOK, WorkersOn
<1>2. Succeed => Current \in worker'.done
  BY <1>1, Succeeding DEF Sound
<1>3. ASSUME NEW rows \in [DOMAIN outbox -> Rows], InStep("send"), AttemptFails(rows)
      PROVE  Current \in DOMAIN outbox' /\ outbox'[Current].troubled
  <2>1. CASE FailIn(rows)
    BY <1>1, <2>1, FailureMarks
  <2>2. CASE worker' = [worker EXCEPT !.attempt = worker.attempt + 1]
    <3>1. worker'.step = worker.step
      BY <1>1, <2>2 DEF WorkersOn
    <3> QED
      BY <1>1, <1>3, <3>1 DEF InStep
  <2> QED
    BY <1>3, <2>1, <2>2 DEF AttemptFails
<1>4. CASE SendBegins \/ TurnResponds
  <2>1. worker'.step \in {"send", "responded"}
    BY <1>1, <1>4 DEF SendBegins, TurnResponds, WorkersOn
  <2> QED
    BY <1>1, <2>1
<1>5. CASE SendWithoutSettings \/ NoteEnds \/ Delivered
  <2>1. Succeed
    BY <1>5 DEF SendWithoutSettings, NoteEnds, Delivered
  <2> QED
    BY <1>2, <2>1
<1>6. CASE TurnCommits
  <2>1. Succeed \/ worker' = [worker EXCEPT !.step = "note"]
    BY <1>6 DEF TurnCommits
  <2>2. worker' # [worker EXCEPT !.step = "note"]
    BY <1>1 DEF WorkersOn
  <2> QED
    BY <1>2, <2>1, <2>2
<1>7. CASE TurnFails \/ NoteRaises \/ SendRaises
  BY <1>1, <1>7, FailureMarks, RowsAreRows DEF TurnFails, NoteRaises, SendRaises
<1>8. CASE Refused
  BY <1>3, <1>8, RowsAreRows DEF Refused, Posting
<1>9. CASE AnswerLost
  <2> DEFINE new == [outbox[Current] EXCEPT !.lost = @ + 1]
             rows == [outbox EXCEPT ![Current] = new]
  <2>1. AttemptFails(rows) /\ InStep("send")
    BY <1>9 DEF AnswerLost, Posting
  <2>2. new \in Rows
    BY <1>1, HeadIsRow, RowChanges DEF Sound, Later
  <2> HIDE DEF new
  <2>3. rows \in [DOMAIN outbox -> Rows]
    BY <2>2, RowsAreRows
  <2> HIDE DEF rows
  <2> QED
    BY <1>3, <2>1, <2>3
<1> QED
  BY <1>4, <1>5, <1>6, <1>7, <1>8, <1>9 DEF RowAction

LEMMA CrashMarks ==
    ASSUME Sound, Crash, NEW r \in DOMAIN outbox
    PROVE  /\ OutboxGrows
           /\ outbox'[r].processed = outbox[r].processed
           /\ r \in worker.done \/ (worker.step \notin {"idle", "next"} /\ r = Current)
              => outbox'[r].troubled
           /\ outbox'[r].troubled
              => \/ outbox[r].troubled \/ r \in worker.done
                 \/ worker.todo # <<>> /\ r = Current
<1>1. PICK begun : /\ begun = IF InStep("next") \/ InStep("idle") THEN {} ELSE {Current}
                   /\ outbox' = [a \in DOMAIN outbox |-> [outbox[a] EXCEPT
                                   !.troubled = @ \/ a \in worker.done \union begun]]
  BY DEF Crash
<1>2. OutboxGrows /\ outbox'[r].processed = outbox[r].processed
  BY Crashing DEF Sound, StepIsTyped, RowsAsBefore
<1>3. worker.step \notin {"idle", "next"} => worker.todo # <<>>
  BY DEF Sound, TypeOK, WorkerShape
<1> DEFINE marked == outbox[r].troubled \/ r \in worker.done \union begun
<1>4. outbox'[r] = [outbox[r] EXCEPT !.troubled = marked] /\ outbox[r] \in Rows
  BY <1>1, RowsAreRows
<1>5. outbox'[r].troubled = marked
  <2> HIDE DEF marked
  <2> QED
    BY <1>4 DEF Rows
<1> QED
  BY <1>1, <1>2, <1>3, <1>5 DEF InStep

\* Rows are added at the end, and the worker has not been there.
LEMMA NewRows ==
    ASSUME Sound, ReplyStep \/ UNCHANGED replyVars, NEW s \in DOMAIN outbox' \ DOMAIN outbox
    PROVE  /\ \A r \in DOMAIN outbox : r < s
           /\ RowAction \/ MessageArrives => ~Passed(s)'
<1>1. /\ outbox \in Seq(Rows) /\ Len(outbox) \in Nat /\ DOMAIN outbox = 1..Len(outbox)
      /\ worker.done \subseteq DOMAIN outbox
  BY DEF Sound, TypeOK
<1>2. PICK type, m :
         /\ Row(type, m) \in Rows /\ outbox' = Append(outbox, Row(type, m))
         /\ MessageArrives \/ RowAction
  <2>1. CASE MessageArrives
    BY <2>1, Arriving DEF Sound
  <2>2. CASE RowAction /\ worker.todo # <<>> /\ Answering
    BY <2>2, MessageOfRow DEF Sound, Answering
  <2>3. CASE UNCHANGED replyVars
    BY <2>3 DEF replyVars
  <2> QED
    BY <2>1, <2>2, <2>3, RowsKept
<1>3. /\ s = Len(outbox) + 1 /\ outbox'[s] = Row(type, m)
  BY <1>2, RowAppended DEF Sound
<1>4. ~outbox'[s].processed /\ ~outbox'[s].troubled
  BY <1>3 DEF Row
<1>5. s \notin worker'.done
  <2>1. CASE MessageArrives
    BY <1>1, <2>1 DEF MessageArrives
  <2>2. CASE RowAction
    <3>1. worker.todo # <<>> /\ RowStep
      BY <2>2, RowOutcomes, RowSteps DEF Sound
    <3>2. worker'.done \subseteq worker.done \union {Current} /\ Current \in DOMAIN outbox
      BY <3>1, HeadIsRow DEF Sound, RowStep, GoesOn, Leaves
    <3> QED
      BY <1>1, <3>2
  <2> QED
    BY <1>2, <2>1, <2>2
<1> QED
  BY <1>1, <1>3, <1>4, <1>5 DEF Passed, Settled

\* A step in a row leaves the others as they are.
LEMMA OthersStay ==
    ASSUME Sound, RowAction, NEW r \in DOMAIN outbox, r # Current
    PROVE  /\ outbox'[r] = outbox[r]
           /\ r \in worker'.done => r \in worker.done
<1>1. worker.todo # <<>> /\ RowStep
  BY RowOutcomes, RowSteps DEF Sound
<1>2. r \in worker'.done => r \in worker.done
  BY <1>1 DEF RowStep, GoesOn, Leaves
<1>3. Current \in DOMAIN outbox /\ outbox[Current] \in Rows
  BY <1>1, HeadIsRow DEF Sound
<1>4. ASSUME NEW rows, rows[r] = outbox[r], rows \in [DOMAIN outbox -> Rows],
             FailIn(rows) \/ outbox' = rows
      PROVE  outbox'[r] = outbox[r]
  BY <1>4 DEF FailIn
<1>5. CASE SendBegins \/ TurnResponds \/ NoteEnds \/ Delivered
  BY <1>2, <1>5 DEF SendBegins, TurnResponds, NoteEnds, Delivered
<1>6. CASE SendWithoutSettings
  BY <1>2, <1>6 DEF SendWithoutSettings
<1>7. CASE TurnCommits
  <2>1. Row("ResponseReady", outbox[Current].msg) \in Rows
    BY <1>1, MessageOfRow DEF Sound
  <2> QED
    BY <1>2, <1>7, <2>1, RowAppended DEF Sound, TurnCommits
<1>8. CASE TurnFails \/ NoteRaises \/ SendRaises \/ Refused
  BY <1>2, <1>4, <1>8, RowsAreRows
  DEF TurnFails, NoteRaises, SendRaises, Refused, AttemptFails
<1>9. CASE AnswerLost
  <2> DEFINE new == [outbox[Current] EXCEPT !.lost = @ + 1]
             rows == [outbox EXCEPT ![Current] = new]
  <2>1. AttemptFails(rows)
    BY <1>9 DEF AnswerLost
  <2>2. new \in Rows
    BY <1>3, RowChanges DEF Later
  <2> HIDE DEF new
  <2>3. rows \in [DOMAIN outbox -> Rows] /\ rows[r] = outbox[r]
    BY <2>2, RowsAreRows
  <2> HIDE DEF rows
  <2> QED
    BY <1>2, <1>4, <2>1, <2>3 DEF AttemptFails
<1> QED
  BY <1>5, <1>6, <1>7, <1>8, <1>9 DEF RowAction

\* What the bus has gone past stays behind it, crashes included: they mark the rows that
\* were done and not recorded.
LEMMA PassedStays ==
    ASSUME Sound, ReplyStep \/ UNCHANGED replyVars, NEW r \in DOMAIN outbox, Passed(r)
    PROVE  r \in DOMAIN outbox' /\ Passed(r)'
<1>1. CASE ReplyStep /\ ~Crash
  <2>1. OutboxGrows
    BY <1>1, RowsKept, Arriving DEF Sound, StepIsTyped
  <2>2. outbox[r].troubled => outbox'[r].troubled
    BY <2>1 DEF OutboxGrows, Later
  <2>3. Settled(r) => Settled(r)'
    BY <1>1, SettledStays
  <2> QED
    BY <2>1, <2>2, <2>3 DEF Passed, OutboxGrows
<1>2. CASE Crash
  <2>1. /\ OutboxGrows
        /\ r \in worker.done => outbox'[r].troubled
    BY <1>2, CrashMarks DEF Sound
  <2>2. /\ outbox[r].troubled => outbox'[r].troubled
        /\ outbox[r].processed => outbox'[r].processed
    BY <2>1 DEF OutboxGrows, Later
  <2> QED
    BY <2>1, <2>2 DEF Passed, Settled, OutboxGrows
<1>3. CASE UNCHANGED replyVars
  BY <1>3 DEF replyVars, Passed, Settled
<1> QED
  BY <1>1, <1>2, <1>3

\* A batch holds the rows that are pending before each of its rows: there are as many
\* before it in the batch as in the outbox.
LEMMA BatchesAreOldest ==
    ASSUME TypeOK, NEW rows \in Batches, NEW i \in 1..BatchLength, NEW p \in Pending,
           p < rows[i]
    PROVE  \E j \in 1..(i - 1) : rows[j] = p
<1> DEFINE Before(k) == {r \in Pending : r < rows[k]}
           first == [j \in 1..(i - 1) |-> rows[j]]
<1>1. BatchLength \in Nat /\ Pending \subseteq Nat
  <2>1. Pending \in SUBSET DOMAIN outbox
    BY DEF Pending
  <2>2. Cardinality(Pending) \in Nat
    BY <2>1, RowsAreFinite
  <2>3. DOMAIN outbox \subseteq Nat
    BY DEF TypeOK
  <2> QED
    BY <2>1, <2>2, <2>3 DEF BatchLength, Smaller
<1>2. /\ rows \in [1..BatchLength -> Pending]
      /\ \A k \in 1..BatchLength : Cardinality(Before(k)) = k - 1
  BY DEF Batches
<1>3. \A k \in 1..BatchLength : IsFiniteSet(Before(k))
  BY RowsAreFinite DEF Pending
<1>4. ASSUME NEW j \in 1..(i - 1)
      PROVE  j \in 1..BatchLength /\ rows[j] \in Before(i)
  <2>1. j \in 1..BatchLength /\ j \in Nat /\ i \in Nat /\ j < i
    BY <1>1, <1>4
  <2>2. rows[j] \in Pending /\ rows[i] \in Pending /\ rows[j] \in Nat /\ rows[i] \in Nat
    BY <1>1, <1>2, <2>1
  <2>3. CASE rows[j] >= rows[i]
    <3>1. Before(i) \subseteq Before(j)
      <4> SUFFICES ASSUME NEW r \in Pending, r < rows[i] PROVE r < rows[j]
        OBVIOUS
      <4>1. r \in Nat
        BY <1>1
      <4> QED
        BY <2>2, <2>3, <4>1
    <3>2. Cardinality(Before(i)) <= Cardinality(Before(j))
      BY <1>3, <2>1, <3>1, FS_Subset
    <3>3. i - 1 <= j - 1
      BY <1>2, <2>1, <3>2
    <3> QED
      BY <2>1, <3>3
  <2> QED
    BY <2>1, <2>2, <2>3
<1>5. ASSUME NEW j \in 1..(i - 1), NEW k \in 1..(i - 1), rows[j] = rows[k]
      PROVE  j = k
  <2>1. j \in 1..BatchLength /\ k \in 1..BatchLength /\ Before(j) = Before(k)
    BY <1>4, <1>5
  <2>2. j - 1 = k - 1
    BY <1>2, <2>1
  <2> QED
    BY <1>1, <2>1, <2>2
<1>6. first \in Injection(1..(i - 1), Before(i))
  <2>1. first \in [1..(i - 1) -> Before(i)]
    BY <1>4
  <2>2. \A j, k \in DOMAIN first : first[j] = first[k] => j = k
    BY <1>5
  <2> QED
    BY <2>1, <2>2 DEF Injection, IsInjective
<1>7. Cardinality(1..(i - 1)) = Cardinality(Before(i))
  <2>1. i \in Nat /\ i - 1 \in Int /\ i >= 1
    BY <1>1
  <2>2. Cardinality(1..(i - 1)) = IF 1 > i - 1 THEN 0 ELSE (i - 1) - 1 + 1
    BY <2>1, FS_Interval
  <2>3. Cardinality(1..(i - 1)) = i - 1
    BY <2>1, <2>2
  <2> QED
    BY <1>2, <2>3
<1>8. first \in Surjection(1..(i - 1), Before(i))
  BY <1>3, <1>6, <1>7, FS_Injection
<1>9. PICK j \in 1..(i - 1) : first[j] = p
  BY <1>8 DEF Surjection
<1> QED
  BY <1>9

LEMMA OrderPreserved ==
    ASSUME QueueIsSound, RowsInOrder, ReplyStep \/ UNCHANGED replyVars
    PROVE  RowsInOrder'
<1> USE DEF QueueIsSound
<1>1. /\ outbox \in Seq(Rows) /\ DOMAIN outbox \subseteq Nat /\ OutboxGrows
      /\ worker.todo \in Seq(DOMAIN outbox) /\ worker.done \subseteq DOMAIN outbox
      /\ Len(worker.todo) \in Nat /\ DOMAIN outbox' \subseteq Nat
      /\ \A i \in 1..Len(worker.todo) : worker.todo[i] \in DOMAIN outbox
  <2>1. outbox \in Seq(Rows) /\ worker.todo \in Seq(DOMAIN outbox)
        /\ worker.done \subseteq DOMAIN outbox
    BY DEF Sound, TypeOK
  <2>2. OutboxGrows
    BY RowsKept, Arriving, OutboxStays DEF Sound, StepIsTyped, replyVars
  <2>3. outbox' \in Seq(Rows)
    BY <2>2 DEF OutboxGrows
  <2> QED
    BY <2>1, <2>2, <2>3
<1>2. \A r \in DOMAIN outbox : Passed(r) => r \in DOMAIN outbox' /\ Passed(r)'
  BY PassedStays
<1>3. CASE UNCHANGED replyVars
  BY <1>3 DEF replyVars, RowsInOrder, Passed, Settled
<1>4. CASE DrainBatch
  <2>1. /\ worker'.todo \in Batches /\ worker'.done = worker.done /\ outbox' = outbox
    BY <1>4, BatchBegins DEF Sound, DrainBatch
  <2>2. \A r : Passed(r)' <=> Passed(r)
    BY <2>1 DEF Passed, Settled
  <2>3. Len(worker'.todo) = BatchLength
    <3>1. Pending \in SUBSET DOMAIN outbox
      BY DEF Pending
    <3>2. BatchLength \in Nat /\ worker'.todo \in [1..BatchLength -> Pending]
      BY <2>1, <3>1, RowsAreFinite DEF Batches, BatchLength, Smaller, Sound
    <3> QED
      BY <3>2
  <2>4. ASSUME NEW i \in 1..Len(worker'.todo), NEW r \in DOMAIN outbox', r < worker'.todo[i]
        PROVE  Passed(r)' \/ \E j \in 1..(i - 1) : worker'.todo[j] = r
    <3>1. CASE outbox[r].processed
      BY <2>1, <2>2, <3>1 DEF Passed, Settled
    <3>2. CASE ~outbox[r].processed
      <4>1. r \in Pending
        BY <2>1, <2>4, <3>2 DEF Pending
      <4> QED
        BY <2>1, <2>3, <2>4, <4>1, BatchesAreOldest DEF Sound
    <3> QED
      BY <3>1, <3>2
  <2>5. \A r, s \in DOMAIN outbox' : r < s /\ Passed(s)' => Passed(r)'
    BY <2>1, <2>2 DEF RowsInOrder
  <2> QED
    BY <2>4, <2>5 DEF RowsInOrder
<1>5. CASE BatchCommits \/ Crash
  <2>1. worker' = Waiting /\ DOMAIN outbox' = DOMAIN outbox
    BY <1>5, BatchEnds, Crashing DEF Sound
  <2>2. Len(worker'.todo) = 0 /\ worker'.done = {}
    BY <2>1 DEF Waiting
  <2>3. ASSUME NEW r \in DOMAIN outbox, NEW s \in DOMAIN outbox, r < s, Passed(s)'
        PROVE  Passed(r)'
    <3>1. CASE Passed(s)
      BY <1>2, <2>3, <3>1 DEF RowsInOrder
    <3>2. CASE ~Passed(s)
      <4>1. worker.todo # <<>> /\ s = Current
        <5>1. CASE BatchCommits
          <6>1. outbox'[s].processed = (outbox[s].processed \/ s \in worker.done)
            BY <5>1, BatchEnds DEF Sound
          <6>2. outbox'[s].troubled = outbox[s].troubled
            <7>1. outbox'[s] = [outbox[s] EXCEPT !.processed = @ \/ s \in worker.done]
              BY <5>1 DEF BatchCommits
            <7> QED
              BY <1>1, <7>1 DEF Rows
          <6> QED
            BY <2>2, <2>3, <3>2, <6>1, <6>2 DEF Passed, Settled
        <5>2. CASE Crash
          BY <2>2, <2>3, <3>2, <5>2, CrashMarks DEF Passed, Settled, Sound
        <5> QED
          BY <1>5, <5>1, <5>2
      <4>2. 1 \in 1..Len(worker.todo) /\ Current = worker.todo[1]
        BY <1>1, <4>1 DEF Current
      <4>3. Passed(r)
        BY <2>3, <4>1, <4>2 DEF RowsInOrder
      <4> QED
        BY <1>2, <4>3
    <3> QED
      BY <3>1, <3>2
  <2> QED
    BY <2>1, <2>2, <2>3 DEF RowsInOrder
<1>6. ASSUME NEW s \in DOMAIN outbox' \ DOMAIN outbox
      PROVE  /\ \A r \in DOMAIN outbox : r < s
             /\ RowAction \/ MessageArrives => ~Passed(s)'
  BY <1>6, NewRows
<1>7. CASE MessageArrives
  <2>1. worker' = worker
    BY <1>7 DEF MessageArrives
  <2>2. \A r \in DOMAIN outbox : Passed(r)' => Passed(r)
    <3>1. \A r \in DOMAIN outbox : outbox'[r] = outbox[r]
      BY <1>7, Arriving, RowAppended DEF Sound
    <3> QED
      BY <2>1, <3>1 DEF Passed, Settled
  <2>3. ASSUME NEW r \in DOMAIN outbox', NEW s \in DOMAIN outbox', r < s, Passed(s)'
        PROVE  Passed(r)'
    <3>1. s \in DOMAIN outbox
      BY <1>6, <1>7, <2>3
    <3>2. r \in DOMAIN outbox
      BY <1>1, <1>6, <2>3, <3>1
    <3> QED
      BY <1>2, <2>2, <2>3, <3>1, <3>2 DEF RowsInOrder
  <2>4. ASSUME NEW i \in 1..Len(worker.todo), NEW r \in DOMAIN outbox', r < worker.todo[i]
        PROVE  Passed(r)' \/ \E j \in 1..(i - 1) : worker.todo[j] = r
    <3>1. r \in DOMAIN outbox
      BY <1>1, <1>6, <2>4
    <3> QED
      BY <1>2, <2>4, <3>1 DEF RowsInOrder
  <2> QED
    BY <2>1, <2>3, <2>4 DEF RowsInOrder
<1>8. CASE RowAction
  <2>1. RowStep /\ worker.todo # <<>>
    BY <1>8, RowSteps, RowOutcomes DEF Sound
  <2>2. PICK c \in DOMAIN outbox : c = Current /\ 1 \in 1..Len(worker.todo) /\ c = worker.todo[1]
    BY <1>1, <2>1 DEF Current
  <2>3. \A r \in DOMAIN outbox : r < c => Passed(r)
    BY <2>2 DEF RowsInOrder
  <2>4. \A r \in DOMAIN outbox : r # c /\ Passed(r)' => Passed(r)
    BY <1>8, <2>2, OthersStay DEF Passed, Settled
  <2>5. ASSUME NEW r \in DOMAIN outbox', NEW s \in DOMAIN outbox', r < s, Passed(s)'
        PROVE  Passed(r)'
    <3>1. s \in DOMAIN outbox
      BY <1>6, <1>8, <2>5
    <3>2. r \in DOMAIN outbox
      BY <1>1, <1>6, <2>5, <3>1
    <3>3. Passed(r)
      BY <2>3, <2>4, <2>5, <3>1, <3>2 DEF RowsInOrder
    <3> QED
      BY <1>2, <3>2, <3>3
  <2>6. ASSUME NEW i \in 1..Len(worker'.todo), NEW r \in DOMAIN outbox', r < worker'.todo[i]
        PROVE  Passed(r)' \/ \E j \in 1..(i - 1) : worker'.todo[j] = r
    <3>1. CASE GoesOn
      <4>1. worker'.todo = worker.todo
        BY <3>1 DEF GoesOn
      <4>2. r \in DOMAIN outbox
        BY <1>1, <1>6, <2>6, <4>1
      <4> QED
        BY <1>2, <2>6, <4>1, <4>2 DEF RowsInOrder
    <3>2. CASE Leaves
      <4>1. /\ Len(worker'.todo) = Len(worker.todo) - 1
            /\ \A k \in 1..Len(worker'.todo) : worker'.todo[k] = worker.todo[k + 1]
        BY <1>1, <3>2, HeadTailProperties DEF Leaves
      <4>2. i + 1 \in 1..Len(worker.todo) /\ worker'.todo[i] = worker.todo[i + 1] /\ i \in Nat
        <5>1. Len(worker.todo) \in Nat
          BY <1>1
        <5> QED
          BY <2>6, <4>1, <5>1
      <4>3. r \in DOMAIN outbox
        BY <1>1, <1>6, <2>6, <4>2
      <4>4. CASE Passed(r)
        BY <1>2, <4>3, <4>4
      <4>5. CASE \E j \in 1..i : worker.todo[j] = r
        <5>1. PICK j \in 1..i : worker.todo[j] = r
          BY <4>5
        <5>2. CASE j = 1
          BY <1>8, <2>2, <3>2, <5>1, <5>2, LeftIsPassed DEF Passed, Settled
        <5>3. CASE j # 1
          <6>1. j - 1 \in 1..(i - 1) /\ j - 1 \in 1..Len(worker'.todo) /\ (j - 1) + 1 = j
            <7>1. i \in Nat /\ i <= Len(worker.todo) - 1 /\ Len(worker.todo) \in Nat
              BY <1>1, <4>2
            <7>2. j \in Nat /\ j >= 2 /\ j <= i
              BY <5>1, <5>3, <7>1
            <7> QED
              BY <4>1, <7>1, <7>2
          <6> QED
            BY <4>1, <5>1, <6>1
        <5> QED
          BY <5>2, <5>3
      <4>6. Passed(r) \/ \E j \in 1..((i + 1) - 1) : worker.todo[j] = r
        BY <2>6, <4>2, <4>3 DEF RowsInOrder
      <4> QED
        BY <4>2, <4>4, <4>5, <4>6
    <3> QED
      BY <2>1, <3>1, <3>2 DEF RowStep
  <2> QED
    BY <2>5, <2>6 DEF RowsInOrder
<1> QED
  BY <1>3, <1>4, <1>5, <1>7, <1>8 DEF ReplyStep

LEMMA OrderAlways == Spec => [](QueueIsSound /\ RowsInOrder)
<1>1. Init => RowsInOrder
  <2> SUFFICES ASSUME Init PROVE RowsInOrder
    OBVIOUS
  <2>1. DOMAIN outbox = {} /\ Len(worker.todo) = 0
    BY DEF Init, Waiting
  <2> QED
    BY <2>1 DEF RowsInOrder
<1>2. QueueIsSound /\ RowsInOrder /\ [Next]_vars => RowsInOrder'
  BY StepsSplit, OrderPreserved
<1> QED
  BY <1>1, <1>2, QueueAlways, PTL DEF Spec

-----------------------------------------------------------------------------
(* The order of the answers                                                 *)

\* The messages that have arrived are the first ones, and their rows are in their order.
ArrivalsInOrder ==
    /\ \A i \in 1..Cardinality(Arrived) : \E r \in Arrived : outbox[r].msg = i
    /\ \A r, s \in Arrived : outbox[r].msg < outbox[s].msg => r < s

\* Without a failure a message has one answer, and only if its turn is over.
AnswersAreSole ==
    \A m \in 1..MaxMessages : ~Troubled(m) /\ HasAnswer(m) =>
        /\ Responded(m)
        /\ \A a, b \in Answers(m) : a = b

\* A message without a failure was answered before the messages that came after it.
AnswersInOrder ==
    \A i, j \in 1..MaxMessages : i < j /\ ~Troubled(i) =>
        \A b \in Answers(j) : \E a \in Answers(i) : a < b

\* When an answer is on the screen, each earlier message that met no failure has an answer
\* the bus has gone past, which is on the screen before it or will never be.
ScreenInOrder ==
    \A k \in DOMAIN screen :
        /\ outbox[screen[k]].type = "ResponseReady"
        /\ \A i \in 1..MaxMessages : i < outbox[screen[k]].msg /\ ~Troubled(i) =>
              \E a \in Answers(i) :
                  /\ Passed(a)
                  /\ (\E l \in 1..(k - 1) : screen[l] = a) \/ ~Seen(a)

LEMMA ArrivalOrderPreserved ==
    ASSUME Sound, ArrivalsDistinct, ArrivalsInOrder, ReplyStep
    PROVE  ArrivalsInOrder'
<1>1. CASE MessageArrives
  <2> DEFINE n == Len(outbox) + 1
             m == Cardinality(Arrived) + 1
  <2>1. /\ Row("MessageReceived", m) \in Rows
        /\ outbox' = Append(outbox, Row("MessageReceived", m))
    BY <1>1, Arriving DEF Sound
  <2>2. /\ DOMAIN outbox' = DOMAIN outbox \union {n} /\ n \notin DOMAIN outbox
        /\ outbox'[n] = Row("MessageReceived", m)
        /\ \A r \in DOMAIN outbox : outbox'[r] = outbox[r]
    BY <2>1, RowAppended DEF Sound
  <2>3. outbox'[n].type = "MessageReceived" /\ outbox'[n].msg = m
    BY <2>2 DEF Row
  <2>4. \A r \in Arrived : r < n
    BY DEF Arrived, Sound, TypeOK
  <2> HIDE DEF n
  <2>5. Arrived' = Arrived \union {n} /\ n \notin Arrived
    BY <2>2, <2>3 DEF Arrived
  <2>6. IsFiniteSet(Arrived) /\ Cardinality(Arrived) \in Nat
    BY RowsAreFinite DEF Sound, Arrived
  <2>7. Cardinality(Arrived') = m
    BY <2>5, <2>6, FS_AddElement
  <2>8. \A r \in Arrived : /\ outbox'[r].msg = outbox[r].msg /\ outbox[r].msg \in Nat
                           /\ outbox[r].msg < m
    <3> SUFFICES ASSUME NEW r \in Arrived
                 PROVE  /\ outbox'[r].msg = outbox[r].msg /\ outbox[r].msg \in Nat
                        /\ outbox[r].msg < m
      OBVIOUS
    <3>1. r \in DOMAIN outbox /\ outbox[r] \in Rows
      BY DEF Arrived, Sound, TypeOK
    <3>2. outbox[r].msg \in 1..MaxMessages
      BY <3>1 DEF Rows
    <3>3. outbox[r].msg <= Cardinality(Arrived)
      BY DEF ArrivalsDistinct
    <3> QED
      BY <2>2, <2>6, <3>1, <3>2, <3>3
  <2>9. m \in Nat /\ \A i \in 1..m : i = m \/ i \in 1..Cardinality(Arrived)
    BY <2>6
  <2> HIDE DEF m
  <2>10. \A i \in 1..Cardinality(Arrived') : \E r \in Arrived' : outbox'[r].msg = i
    BY <2>3, <2>5, <2>7, <2>8, <2>9 DEF ArrivalsInOrder
  <2>11. \A r, s \in Arrived' : outbox'[r].msg < outbox'[s].msg => r < s
    <3> SUFFICES ASSUME NEW r \in Arrived', NEW s \in Arrived',
                        outbox'[r].msg < outbox'[s].msg
                 PROVE  r < s
      OBVIOUS
    <3>1. CASE r = n
      <4>1. outbox'[s].msg \in Nat /\ outbox'[s].msg <= m
        BY <2>3, <2>5, <2>8, <2>9
      <4> QED
        BY <2>3, <2>9, <3>1, <4>1
    <3>2. CASE r \in Arrived /\ s = n
      BY <2>4, <3>2
    <3>3. CASE r \in Arrived /\ s \in Arrived
      BY <2>8, <3>3 DEF ArrivalsInOrder
    <3> QED
      BY <2>5, <3>1, <3>2, <3>3
  <2> QED
    BY <2>10, <2>11 DEF ArrivalsInOrder
<1>2. CASE ~MessageArrives
  <2>1. OutboxGrows /\ Arrived' = Arrived
    <3>1. CASE DOMAIN outbox' = DOMAIN outbox
      BY <1>2, <3>1, RowsKept DEF OutboxGrows, Later, Arrived
    <3>2. CASE worker.todo # <<>> /\ Answering
      BY <3>2, AnswerAppended
    <3> QED
      BY <1>2, <3>1, <3>2, RowsKept
  <2>2. \A r \in Arrived : outbox'[r].msg = outbox[r].msg
    BY <2>1 DEF OutboxGrows, Later, Arrived
  <2> QED
    BY <2>1, <2>2 DEF ArrivalsInOrder
<1> QED
  BY <1>1, <1>2

\* A step answers the message of the turn in progress, or adds no answer.
LEMMA AnswersGrow ==
    ASSUME Sound, ReplyStep
    PROVE  /\ OutboxGrows
           /\ \A m : Answers(m) \subseteq Answers(m)' /\ (Troubled(m) => Troubled(m)')
           /\ \/ \A m : Answers(m)' = Answers(m)
              \/ /\ RowAction /\ worker.todo # <<>> /\ worker.step = "responded"
                 /\ outbox[Current].type = "MessageReceived"
                 /\ Current \in worker'.done \/ (worker'.step = "note" /\ Current' = Current)
                 /\ screen' = screen
                 /\ \E n : /\ \A r \in DOMAIN outbox : r < n
                           /\ \A m : Answers(m)' = IF m = outbox[Current].msg
                                                   THEN Answers(m) \union {n}
                                                   ELSE Answers(m)
<1>1. OutboxGrows
  BY RowsKept, Arriving DEF Sound, StepIsTyped
<1>2. \A m : Answers(m) \subseteq Answers(m)' /\ (Troubled(m) => Troubled(m)')
  BY <1>1 DEF OutboxGrows, Later, Answers, Troubled
<1>3. CASE MessageArrives
  <2> DEFINE n == Len(outbox) + 1
  <2>1. PICK row \in Rows : /\ outbox' = Append(outbox, row)
                            /\ row.type = "MessageReceived"
    BY <1>3, Arriving DEF Sound, Row
  <2>2. /\ DOMAIN outbox' = DOMAIN outbox \union {n} /\ n \notin DOMAIN outbox
        /\ outbox'[n] = row /\ \A r \in DOMAIN outbox : outbox'[r] = outbox[r]
    BY <2>1, RowAppended DEF Sound
  <2> HIDE DEF n
  <2>3. \A m : Answers(m)' = Answers(m)
    BY <2>1, <2>2 DEF Answers
  <2> QED
    BY <1>1, <1>2, <2>3
<1>4. CASE ~MessageArrives /\ DOMAIN outbox' = DOMAIN outbox
  <2>1. \A m : Answers(m)' = Answers(m)
    BY <1>1, <1>4 DEF OutboxGrows, Later, Answers
  <2> QED
    BY <1>1, <1>2, <2>1
<1>5. CASE RowAction /\ worker.todo # <<>> /\ RowOutcome /\ Answering
  <2>1. PICK n : /\ n \notin DOMAIN outbox /\ DOMAIN outbox' = DOMAIN outbox \union {n}
                 /\ outbox'[n].type = "ResponseReady"
                 /\ outbox'[n].msg = outbox[Current].msg
    BY <1>5, AnswerAppended
  <2>2. \A r \in DOMAIN outbox : /\ outbox'[r].type = outbox[r].type
                                 /\ outbox'[r].msg = outbox[r].msg
    BY <1>1 DEF OutboxGrows, Later
  <2>3. \A m : Answers(m)' = IF m = outbox[Current].msg THEN Answers(m) \union {n}
                             ELSE Answers(m)
    BY <2>1, <2>2 DEF Answers
  <2>4. n \in DOMAIN outbox' \ DOMAIN outbox
    BY <2>1
  <2>5. \A r \in DOMAIN outbox : r < n
    BY <2>4, NewRows
  <2>6. /\ worker.step = "responded" /\ screen' = screen
        /\ Current \in worker'.done
           \/ (worker'.step = "note" /\ worker'.todo = worker.todo)
    BY <1>5, <2>1 DEF RowOutcome
  <2>7. outbox[Current].type = "MessageReceived"
    BY <2>6 DEF Sound, WorkerShape
  <2>8. worker'.todo = worker.todo => Current' = Current
    BY DEF Current
  <2> QED
    BY <1>1, <1>2, <1>5, <2>3, <2>5, <2>6, <2>7, <2>8
<1> QED
  BY <1>3, <1>4, <1>5, RowsKept

LEMMA RespondedOrTroubled ==
    ASSUME Sound, ReplyStep, NEW m, Responded(m)
    PROVE  Responded(m)' \/ Troubled(m)'
<1>1. PICK r \in Arrived : /\ outbox[r].msg = m
                           /\ Settled(r) \/ (worker.step = "note" /\ r = Current)
  BY DEF Responded
<1>2. /\ r \in DOMAIN outbox /\ r \in Arrived' /\ outbox'[r].msg = m
      /\ r \in DOMAIN outbox'
  BY <1>1, AnswersGrow DEF Arrived, OutboxGrows, Later
<1>3. CASE Settled(r)
  <2>1. Passed(r)'
    BY <1>2, <1>3, PassedStays DEF Passed
  <2> QED
    BY <1>2, <2>1 DEF Passed, Responded, Troubled
<1>4. CASE worker.step = "note" /\ r = Current
  <2>1. CASE RowAction
    <3>1. ~TurnResponds
      BY <1>4 DEF TurnResponds, Dispatches, InStep
    <3>2. \/ Current \in worker'.done
          \/ worker'.step = "note" /\ Current' = Current
          \/ Current \in DOMAIN outbox' /\ outbox'[Current].troubled
      BY <1>4, <2>1, <3>1, TurnsEnd
    <3>3. \/ r \in worker'.done
          \/ worker'.step = "note" /\ Current' = r
          \/ outbox'[r].troubled
      BY <1>4, <3>2
    <3> QED
      BY <1>2, <3>3 DEF Responded, Settled, Troubled
  <2>2. CASE MessageArrives
    <3>1. worker'.step = "note" /\ r = Current'
      BY <1>4, <2>2, Arriving DEF Sound, Current
    <3> QED
      BY <1>2, <3>1 DEF Responded
  <2>3. CASE Crash
    BY <1>2, <1>4, <2>3, CrashMarks DEF Troubled
  <2>4. ~DrainBatch /\ ~BatchCommits
    BY <1>4 DEF DrainBatch, BatchCommits, InStep
  <2> QED
    BY <2>1, <2>2, <2>3, <2>4 DEF ReplyStep
<1> QED
  BY <1>1, <1>3, <1>4

LEMMA SoleAnswerPreserved ==
    ASSUME QueueIsSound, ArrivalsDistinct, AnswersAreSole, ReplyStep
    PROVE  AnswersAreSole'
<1> USE DEF QueueIsSound
<1> SUFFICES ASSUME NEW m \in 1..MaxMessages, ~Troubled(m)', HasAnswer(m)'
             PROVE  Responded(m)' /\ \A a, b \in Answers(m)' : a = b
  BY DEF AnswersAreSole
<1>1. ~Troubled(m) /\ (HasAnswer(m)' <=> Answers(m)' # {}) /\ (HasAnswer(m) <=> Answers(m) # {})
  BY AnswersGrow DEF HasAnswer, IsAnswer, Answers
<1>2. CASE Answers(m)' = Answers(m)
  <2>1. Responded(m) /\ \A a, b \in Answers(m) : a = b
    BY <1>1, <1>2 DEF AnswersAreSole
  <2> QED
    BY <1>2, <2>1, RespondedOrTroubled
<1>3. CASE Answers(m)' # Answers(m)
  <2>1. /\ worker.todo # <<>> /\ worker.step = "responded" /\ outbox[Current].msg = m
        /\ outbox[Current].type = "MessageReceived"
        /\ Current \in worker'.done \/ (worker'.step = "note" /\ Current' = Current)
    BY <1>3, AnswersGrow
  <2>2. PICK n : Answers(m)' = Answers(m) \union {n}
    BY <1>3, AnswersGrow
  <2>3. Current \in Arrived /\ ~Settled(Current)
    BY <2>1, HeadIsRow, HeadIsUnsettled DEF Sound, Arrived
  <2>4. ~Responded(m)
    BY <2>1, <2>3 DEF Responded, ArrivalsDistinct
  <2>5. Answers(m) = {}
    BY <1>1, <2>4 DEF AnswersAreSole
  <2>6. Responded(m)'
    <3>1. PICK c : c = Current
      OBVIOUS
    <3>2. c \in Arrived' /\ outbox'[c].msg = m
      BY <2>1, <2>3, <3>1, AnswersGrow DEF OutboxGrows, Later, Arrived
    <3> QED
      BY <2>1, <3>1, <3>2 DEF Responded, Settled
  <2> QED
    BY <2>2, <2>5, <2>6
<1> QED
  BY <1>2, <1>3

\* A turn begins after the rows of all earlier messages have been gone past.
LEMMA AnswerOrderPreserved ==
    ASSUME WorkIsSound, ArrivalsDistinct, ArrivalsInOrder, RowsInOrder, AnswersInOrder,
           ReplyStep
    PROVE  AnswersInOrder'
<1> USE DEF WorkIsSound, QueueIsSound
<1> SUFFICES ASSUME NEW i \in 1..MaxMessages, NEW j \in 1..MaxMessages, i < j,
                    ~Troubled(i)', NEW b \in Answers(j)'
             PROVE  \E a \in Answers(i)' : a < b
  BY DEF AnswersInOrder
<1>1. ~Troubled(i) /\ Answers(i) \subseteq Answers(i)'
  BY AnswersGrow
<1>2. CASE b \in Answers(j)
  BY <1>1, <1>2 DEF AnswersInOrder
<1>3. CASE b \notin Answers(j)
  <2>1. /\ worker.todo # <<>> /\ outbox[Current].msg = j
        /\ outbox[Current].type = "MessageReceived"
        /\ \A r \in DOMAIN outbox : r < b
    BY <1>3, AnswersGrow
  <2>2. PICK c \in Arrived : c = Current /\ outbox[c].msg = j
    BY <2>1, HeadIsRow DEF Sound, Arrived
  <2>3. PICK r \in Arrived : outbox[r].msg = i
    <3>1. j <= Cardinality(Arrived) /\ Cardinality(Arrived) \in Nat
      BY <2>2, RowsAreFinite DEF ArrivalsDistinct, Sound, Arrived
    <3>2. i \in 1..Cardinality(Arrived)
      BY <3>1
    <3> QED
      BY <3>2 DEF ArrivalsInOrder
  <2>4. r < c /\ r \in DOMAIN outbox /\ c \in DOMAIN outbox
    BY <2>2, <2>3 DEF ArrivalsInOrder, Arrived
  <2>5. 1 \in 1..Len(worker.todo) /\ c = worker.todo[1]
    BY <2>1, <2>2 DEF Current, Sound, TypeOK
  <2>6. Passed(r)
    BY <2>4, <2>5 DEF RowsInOrder
  <2>7. HasAnswer(i)
    <3>1. Settled(r)
      BY <1>1, <2>3, <2>4, <2>6 DEF Passed, Troubled
    <3> QED
      BY <2>3, <2>4, <3>1 DEF WorkIsDone, Worked, Arrived
  <2>8. PICK a \in Answers(i) : a \in DOMAIN outbox
    BY <2>7 DEF HasAnswer, IsAnswer, Answers
  <2> QED
    BY <1>1, <2>1, <2>8
<1> QED
  BY <1>2, <1>3

LEMMA ScreenGrows ==
    ASSUME Sound, ReplyStep
    PROVE  \/ UNCHANGED screen
           \/ RowAction /\ worker.step = "send" /\ Shows
BY DEF ReplyStep, DrainBatch, BatchCommits, MessageArrives, Crash, RowAction, SendBegins,
   SendWithoutSettings, TurnResponds, TurnCommits, TurnFails, NoteEnds, NoteRaises,
   Delivered, Refused, AnswerLost, SendRaises, Posting, InStep, Shows

\* An answer is sent after the bus has gone past every row before it.
LEMMA ScreenOrderPreserved ==
    ASSUME QueueIsSound, RowsInOrder, AnswersInOrder, ScreenInOrder, ReplyStep
    PROVE  ScreenInOrder'
<1> USE DEF QueueIsSound
<1>1. /\ screen \in Seq(DOMAIN outbox) /\ Len(screen) \in Nat
      /\ DOMAIN screen = 1..Len(screen)
      /\ \A k \in DOMAIN screen : screen[k] \in DOMAIN outbox
      /\ \A r \in DOMAIN outbox : outbox[r] \in Rows
  BY DEF Sound, TypeOK
<1>2. /\ \A r \in DOMAIN outbox : /\ r \in DOMAIN outbox'
                                  /\ outbox'[r].type = outbox[r].type
                                  /\ outbox'[r].msg = outbox[r].msg
      /\ \A m : Answers(m) \subseteq Answers(m)' /\ (Troubled(m) => Troubled(m)')
  BY AnswersGrow DEF OutboxGrows, Later
<1>3. \A m : Answers(m) \subseteq DOMAIN outbox
  BY DEF Answers
<1>4. \A r \in DOMAIN outbox : Passed(r) => Passed(r)'
  BY PassedStays
<1>5. CASE UNCHANGED screen
  <2>1. \A r : Seen(r)' <=> Seen(r)
    BY <1>5 DEF Seen
  <2> SUFFICES ASSUME NEW k \in DOMAIN screen'
               PROVE  /\ outbox'[screen'[k]].type = "ResponseReady"
                      /\ \A i \in 1..MaxMessages :
                            i < outbox'[screen'[k]].msg /\ ~Troubled(i)' =>
                               \E a \in Answers(i)' :
                                  /\ Passed(a)'
                                  /\ (\E l \in 1..(k - 1) : screen'[l] = a) \/ ~Seen(a)'
    BY DEF ScreenInOrder
  <2>2. /\ k \in DOMAIN screen /\ screen'[k] = screen[k]
        /\ outbox'[screen[k]].type = outbox[screen[k]].type
        /\ outbox'[screen[k]].msg = outbox[screen[k]].msg
    BY <1>1, <1>2, <1>5
  <2>3. outbox'[screen'[k]].type = "ResponseReady"
    BY <2>2 DEF ScreenInOrder
  <2>4. ASSUME NEW i \in 1..MaxMessages, i < outbox'[screen'[k]].msg, ~Troubled(i)'
        PROVE  \E a \in Answers(i)' :
                  /\ Passed(a)'
                  /\ (\E l \in 1..(k - 1) : screen'[l] = a) \/ ~Seen(a)'
    <3>1. PICK a \in Answers(i) :
             /\ Passed(a)
             /\ (\E l \in 1..(k - 1) : screen[l] = a) \/ ~Seen(a)
      BY <1>2, <2>2, <2>4 DEF ScreenInOrder
    <3>2. a \in Answers(i)' /\ Passed(a)'
      BY <1>2, <1>3, <1>4, <3>1
    <3> QED
      BY <1>5, <2>1, <3>1, <3>2
  <2> QED
    BY <2>3, <2>4
<1>6. CASE RowAction /\ worker.step = "send" /\ Shows
  <2> DEFINE n == Len(screen) + 1
  <2>1. worker.todo # <<>>
    BY <1>6 DEF Sound, WorkerShape
  <2>2. PICK c \in DOMAIN outbox :
           /\ c = Current /\ outbox[c].type = "ResponseReady" /\ ~Settled(c)
           /\ 1 \in 1..Len(worker.todo) /\ c = worker.todo[1]
    BY <1>6, <2>1, HeadIsRow, HeadIsUnsettled DEF Sound, TypeOK, WorkerShape, Current
  <2>3. /\ DOMAIN screen' = DOMAIN screen \union {n} /\ screen'[n] = c
        /\ \A l \in DOMAIN screen : screen'[l] = screen[l]
    <3>1. screen' = Append(screen, c)
      BY <1>6, <2>2 DEF Shows
    <3> QED
      BY <1>1, <3>1
  <2>4. \A k \in DOMAIN screen : k < n /\ \A l \in 1..(k - 1) : l \in DOMAIN screen
    BY <1>1
  <2>5. \A l \in DOMAIN screen : l \in 1..(n - 1)
    BY <1>1
  <2> HIDE DEF n
  <2>6. \A r : Seen(r)' => Seen(r) \/ r = c
    BY <2>3 DEF Seen
  <2>7. ASSUME NEW i \in 1..MaxMessages, ~Troubled(i)', NEW a \in Answers(i), Passed(a)
        PROVE  a # c /\ a \in Answers(i)' /\ Passed(a)'
    <3>1. a \in DOMAIN outbox /\ ~outbox[a].troubled
      BY <1>2, <2>7 DEF Answers, Troubled
    <3> QED
      BY <1>2, <1>4, <2>2, <2>7, <3>1 DEF Passed
  <2>8. ASSUME NEW k \in DOMAIN screen
        PROVE  /\ outbox'[screen'[k]].type = "ResponseReady"
               /\ \A i \in 1..MaxMessages :
                     i < outbox'[screen'[k]].msg /\ ~Troubled(i)' =>
                        \E a \in Answers(i)' :
                           /\ Passed(a)'
                           /\ (\E l \in 1..(k - 1) : screen'[l] = a) \/ ~Seen(a)'
    <3>1. /\ screen'[k] = screen[k]
          /\ outbox'[screen[k]].type = outbox[screen[k]].type
          /\ outbox'[screen[k]].msg = outbox[screen[k]].msg
      BY <1>1, <1>2, <2>3
    <3>2. outbox'[screen'[k]].type = "ResponseReady"
      BY <3>1 DEF ScreenInOrder
    <3>3. ASSUME NEW i \in 1..MaxMessages, i < outbox'[screen'[k]].msg, ~Troubled(i)'
          PROVE  \E a \in Answers(i)' :
                    /\ Passed(a)'
                    /\ (\E l \in 1..(k - 1) : screen'[l] = a) \/ ~Seen(a)'
      <4>1. PICK a \in Answers(i) :
               /\ Passed(a)
               /\ (\E l \in 1..(k - 1) : screen[l] = a) \/ ~Seen(a)
        BY <1>2, <3>1, <3>3 DEF ScreenInOrder
      <4>2. a # c /\ a \in Answers(i)' /\ Passed(a)'
        BY <2>7, <3>3, <4>1
      <4>3. (\E l \in 1..(k - 1) : screen'[l] = a) \/ ~Seen(a)'
        BY <2>3, <2>4, <2>6, <4>1, <4>2
      <4> QED
        BY <4>2, <4>3
    <3> QED
      BY <3>2, <3>3
  <2>9. /\ outbox'[screen'[n]].type = "ResponseReady"
        /\ \A i \in 1..MaxMessages :
              i < outbox'[screen'[n]].msg /\ ~Troubled(i)' =>
                 \E a \in Answers(i)' :
                    /\ Passed(a)'
                    /\ (\E l \in 1..(n - 1) : screen'[l] = a) \/ ~Seen(a)'
    <3>1. outbox'[screen'[n]].type = "ResponseReady" /\ outbox'[screen'[n]].msg = outbox[c].msg
      BY <1>2, <2>2, <2>3
    <3>2. ASSUME NEW i \in 1..MaxMessages, i < outbox[c].msg, ~Troubled(i)'
          PROVE  \E a \in Answers(i)' :
                    /\ Passed(a)'
                    /\ (\E l \in 1..(n - 1) : screen'[l] = a) \/ ~Seen(a)'
      <4>1. outbox[c].msg \in 1..MaxMessages /\ c \in Answers(outbox[c].msg)
        BY <1>1, <2>2 DEF Rows, Answers
      <4>2. ~Troubled(i)
        BY <1>2, <3>2
      <4>3. PICK a \in Answers(i) : a < c
        BY <3>2, <4>1, <4>2 DEF AnswersInOrder
      <4>4. Passed(a)
        BY <1>3, <2>2, <4>3 DEF RowsInOrder
      <4>5. a # c /\ a \in Answers(i)' /\ Passed(a)'
        BY <2>7, <3>2, <4>3, <4>4
      <4>6. (\E l \in 1..(n - 1) : screen'[l] = a) \/ ~Seen(a)'
        <5>1. CASE Seen(a)
          BY <2>3, <2>5, <5>1 DEF Seen
        <5>2. CASE ~Seen(a)
          BY <2>6, <4>5, <5>2
        <5> QED
          BY <5>1, <5>2
      <4> QED
        BY <4>5, <4>6
    <3> QED
      BY <3>1, <3>2
  <2> QED
    BY <2>3, <2>8, <2>9 DEF ScreenInOrder
<1> QED
  BY <1>5, <1>6, ScreenGrows

AnswerOrderSound == ArrivalsInOrder /\ AnswersAreSole /\ AnswersInOrder /\ ScreenInOrder
LEMMA AnswerOrderAlways == Spec => [](Sound /\ AnswerOrderSound)
<1>1. Init => AnswerOrderSound
  <2> SUFFICES ASSUME Init PROVE AnswerOrderSound
    OBVIOUS
  <2>1. DOMAIN outbox = {} /\ DOMAIN screen = {}
    BY DEF Init
  <2>2. Arrived = {} /\ \A m : Answers(m) = {}
    BY <2>1 DEF Arrived, Answers
  <2>3. Cardinality(Arrived) = 0
    BY <2>2, FS_EmptySet
  <2>4. ArrivalsInOrder
    BY <2>2, <2>3 DEF ArrivalsInOrder
  <2>5. AnswersAreSole /\ AnswersInOrder /\ ScreenInOrder
    BY <2>1, <2>2 DEF AnswersAreSole, HasAnswer, IsAnswer, AnswersInOrder, ScreenInOrder
  <2> QED
    BY <2>4, <2>5 DEF AnswerOrderSound
<1>2. /\ WorkIsSound /\ CountsAreSound /\ RowsInOrder /\ AnswerOrderSound /\ [Next]_vars
      => AnswerOrderSound'
  <2> SUFFICES ASSUME WorkIsSound, CountsAreSound, RowsInOrder, AnswerOrderSound, [Next]_vars
               PROVE  AnswerOrderSound'
    OBVIOUS
  <2>1. QueueIsSound /\ Sound /\ ArrivalsDistinct
    BY DEF WorkIsSound, QueueIsSound, CountsAreSound
  <2>2. CASE ReplyStep
    BY <2>1, <2>2, ArrivalOrderPreserved, SoleAnswerPreserved, AnswerOrderPreserved,
       ScreenOrderPreserved DEF AnswerOrderSound
  <2>3. CASE UNCHANGED replyVars
    BY <2>3 DEF replyVars, AnswerOrderSound, ArrivalsInOrder, AnswersAreSole, AnswersInOrder,
       ScreenInOrder, Arrived, Answers, HasAnswer, IsAnswer, Responded, Troubled, Settled,
       Passed, Seen, Current
  <2> QED
    BY <2>2, <2>3, StepsSplit
<1> QED
  BY <1>1, <1>2, WorkAlways, CountsAlways, OrderAlways, PTL
  DEF Spec, WorkIsSound, QueueIsSound

\* The lead reads an answer after the answer to a later message only if its own message or
\* its own answer met a failure, however the rows are cut into batches.
THEOREM OvertakingIsExplained == Spec => []OvertakenOnlyAfterTrouble
<1>1. ASSUME Sound, AnswerOrderSound PROVE OvertakenOnlyAfterTrouble
  <2> SUFFICES ASSUME NEW i \in 1..MaxMessages, NEW j \in 1..MaxMessages, i < j,
                      Shown(i) # {}, NEW k \in Shown(j), \A l \in Shown(i) : k < l,
                      ~Troubled(i)
               PROVE  FALSE
    BY DEF OvertakenOnlyAfterTrouble
  <2>1. k \in DOMAIN screen /\ k \in Nat /\ outbox[screen[k]].msg = j
    BY <1>1 DEF Shown, Sound, TypeOK
  <2>2. PICK a \in Answers(i) : (\E l \in 1..(k - 1) : screen[l] = a) \/ ~Seen(a)
    BY <1>1, <2>1 DEF AnswerOrderSound, ScreenInOrder
  <2>3. PICK l \in Shown(i) : l \in DOMAIN screen /\ outbox[screen[l]].msg = i
    BY DEF Shown
  <2>4. screen[l] \in Answers(i)
    BY <1>1, <2>3 DEF AnswerOrderSound, ScreenInOrder, Answers, Sound, TypeOK
  <2>5. a = screen[l]
    BY <1>1, <2>2, <2>4 DEF AnswerOrderSound, AnswersAreSole, HasAnswer, IsAnswer, Answers
  <2>6. Seen(a)
    BY <2>3, <2>5 DEF Seen
  <2>7. PICK p \in 1..(k - 1) : screen[p] = a
    BY <2>2, <2>6
  <2>8. p \in DOMAIN screen /\ p < k /\ p \in Nat
    <3>1. DOMAIN screen = 1..Len(screen) /\ Len(screen) \in Nat
      BY <1>1 DEF Sound, TypeOK
    <3> QED
      BY <2>1, <2>7, <3>1
  <2>9. p \in Shown(i)
    BY <2>3, <2>5, <2>7, <2>8 DEF Shown
  <2> QED
    BY <2>1, <2>8, <2>9
<1> QED
  BY <1>1, AnswerOrderAlways, PTL

-----------------------------------------------------------------------------
(* The contract of the bus                                                  *)

\* A row is given up only where nothing is sent.
LEMMA GivenUpUnsent ==
    ASSUME Sound, RowAction
    PROVE  /\ worker.todo # <<>> /\ Current \in DOMAIN outbox
           /\ \/ outbox'[Current].dropped = outbox[Current].dropped
              \/ UNCHANGED screen /\ outbox'[Current].dropped
<1>1. worker.todo # <<>> /\ Current \in DOMAIN outbox /\ outbox[Current] \in Rows
  BY RowOutcomes, HeadIsRow DEF Sound
<1>2. ASSUME NEW row \in Rows, row.dropped = outbox[Current].dropped,
             NEW rows, rows = [outbox EXCEPT ![Current] = row], FailIn(rows) \/ outbox' = rows
      PROVE  outbox'[Current].dropped = outbox[Current].dropped
  <2>1. rows \in [DOMAIN outbox -> Rows] /\ rows[Current] = row
    BY <1>1, <1>2, RowsAreRows
  <2>2. CASE outbox' = rows
    BY <1>2, <2>1, <2>2
  <2>3. CASE FailIn(rows)
    <3>1. outbox'[Current] = [row EXCEPT !.troubled = TRUE]
      BY <1>1, <2>1, <2>3 DEF FailIn
    <3> QED
      BY <1>2, <3>1 DEF Rows
  <2> QED
    BY <1>2, <2>2, <2>3
<1>3. outbox = [outbox EXCEPT ![Current] = outbox[Current]]
  BY <1>1, RowsAreRows
<1>4. CASE SendBegins \/ TurnResponds \/ NoteEnds \/ Delivered
  BY <1>1, <1>4 DEF SendBegins, TurnResponds, NoteEnds, Delivered
<1>5. CASE SendWithoutSettings
  <2>1. outbox'[Current] = [outbox[Current] EXCEPT !.dropped = TRUE]
    BY <1>1, <1>5, RowsAreRows DEF SendWithoutSettings
  <2> QED
    BY <1>1, <1>5, <2>1, RowChanges DEF SendWithoutSettings
<1>6. CASE TurnCommits
  <2>1. Row("ResponseReady", outbox[Current].msg) \in Rows
    BY <1>1, MessageOfRow DEF Sound
  <2> QED
    BY <1>1, <1>6, <2>1, RowAppended DEF Sound, TurnCommits
<1>7. CASE TurnFails \/ NoteRaises \/ SendRaises \/ Refused
  <2>1. FailIn(outbox) \/ outbox' = outbox
    BY <1>7 DEF TurnFails, NoteRaises, SendRaises, Refused, AttemptFails
  <2> QED
    BY <1>1, <1>2, <1>3, <2>1
<1>8. CASE AnswerLost
  <2> DEFINE row == [outbox[Current] EXCEPT !.lost = @ + 1]
             rows == [outbox EXCEPT ![Current] = row]
  <2>1. row \in Rows /\ row.dropped = outbox[Current].dropped
    BY <1>1 DEF Rows
  <2>2. FailIn(rows) \/ outbox' = rows
    BY <1>8 DEF AnswerLost, AttemptFails
  <2> HIDE DEF row
  <2> QED
    BY <1>1, <1>2, <2>1, <2>2
<1> QED
  BY <1>1, <1>4, <1>5, <1>6, <1>7, <1>8 DEF RowAction

\* Every answer has the message it answers before it in the outbox.
AnswersFollow ==
    \A r \in DOMAIN outbox : \E s \in Arrived : outbox[s].msg = outbox[r].msg

LEMMA AnswersFollowPreserved ==
    ASSUME Sound, AnswersFollow, ReplyStep
    PROVE  AnswersFollow'
<1>1. OutboxGrows
  BY RowsKept, Arriving DEF Sound, StepIsTyped
<1>2. ASSUME NEW r \in DOMAIN outbox
      PROVE  (\E s \in Arrived : outbox[s].msg = outbox[r].msg)'
  <2>1. PICK s \in Arrived : outbox[s].msg = outbox[r].msg
    BY DEF AnswersFollow
  <2>2. s \in Arrived' /\ outbox'[s].msg = outbox[s].msg /\ outbox'[r].msg = outbox[r].msg
    BY <1>1 DEF Arrived, OutboxGrows, Later
  <2> QED
    BY <2>1, <2>2
<1>3. ASSUME NEW r \in DOMAIN outbox' \ DOMAIN outbox
      PROVE  (\E s \in Arrived : outbox[s].msg = outbox[r].msg)'
  <2>1. CASE MessageArrives
    <3>1. PICK m : /\ Row("MessageReceived", m) \in Rows
                   /\ outbox' = Append(outbox, Row("MessageReceived", m))
      BY <2>1, Arriving DEF Sound
    <3>2. outbox'[r] = Row("MessageReceived", m)
      BY <3>1, RowAppended DEF Sound
    <3> QED
      BY <3>2 DEF Arrived, Row
  <2>2. CASE RowAction /\ worker.todo # <<>> /\ RowOutcome /\ Answering
    <3>1. outbox'[r].msg = outbox[Current].msg /\ Current \in DOMAIN outbox
      BY <2>2, AnswerAppended, HeadIsRow DEF Sound
    <3>2. outbox'[Current].msg = outbox[Current].msg
      BY <1>1, <3>1 DEF OutboxGrows, Later
    <3> QED
      BY <1>2, <3>1, <3>2
  <2> QED
    BY <2>1, <2>2, RowsKept
<1> QED
  BY <1>2, <1>3 DEF AnswersFollow

\* What a row has behind it is counted, and a row that is settled has something behind it.
LEMMA WorkIsCounted ==
    ASSUME Sound, NEW r \in DOMAIN outbox
    PROVE  WorkDone(r) \in Nat /\ (WorkIsDone /\ Settled(r) => WorkDone(r) >= 1)
<1>1. outbox[r] \in Rows
  BY DEF Sound, TypeOK
<1>2. CASE outbox[r].type = "MessageReceived"
  <2> DEFINE A == Answers(outbox[r].msg)
  <2>1. WorkDone(r) = Cardinality(A)
    BY <1>2 DEF WorkDone
  <2>2. IsFiniteSet(A) /\ Cardinality(A) \in Nat
    BY RowsAreFinite DEF Sound, Answers
  <2>3. WorkIsDone /\ Settled(r) => A # {}
    BY <1>2 DEF WorkIsDone, Worked, HasAnswer, IsAnswer, Answers
  <2> HIDE DEF A
  <2> QED
    BY <2>1, <2>2, <2>3, FS_EmptySet
<1>3. CASE outbox[r].type = "ResponseReady"
  <2> DEFINE S == {k \in DOMAIN screen : screen[k] = r}
  <2>1. WorkDone(r) = Copies(r) + (IF outbox[r].dropped THEN 1 ELSE 0)
    BY <1>3 DEF WorkDone
  <2>2. Copies(r) \in Nat /\ IsFiniteSet(S) /\ Copies(r) = Cardinality(S)
    BY CopiesAreCountable DEF Copies
  <2>3. WorkIsDone /\ Settled(r) => S # {} \/ outbox[r].dropped
    BY <1>3 DEF WorkIsDone, Worked, Seen
  <2> HIDE DEF S
  <2> QED
    BY <2>1, <2>2, <2>3, FS_EmptySet
<1> QED
  BY <1>1, <1>2, <1>3 DEF Rows

\* A step in a row works at most once, on that row, and records nothing.
LEMMA RowWorks ==
    ASSUME Sound, ArrivalsDistinct, RowAction, NEW r \in DOMAIN outbox
    PROVE  /\ r \in DOMAIN outbox' /\ outbox'[r].processed = outbox[r].processed
           /\ \/ WorkDone(r)' = WorkDone(r)
              \/ r = Current /\ WorkDone(r)' = WorkDone(r) + 1
<1>1. OutboxGrows /\ RowStep /\ RowOutcome /\ worker.todo # <<>> /\ ReplyStep
  BY RowSteps, RowOutcomes DEF Sound, StepIsTyped, ReplyStep
<1>2. /\ r \in DOMAIN outbox' /\ outbox'[r].processed = outbox[r].processed
      /\ outbox[r] \in Rows /\ outbox'[r].type = outbox[r].type
      /\ outbox'[r].msg = outbox[r].msg
  BY <1>1 DEF OutboxGrows, Later, RowStep, RowsAsBefore, Sound, TypeOK
<1>3. CASE outbox[r].type = "MessageReceived"
  <2>1. PICK m \in 1..MaxMessages : m = outbox[r].msg
    BY <1>2 DEF Rows
  <2>2. WorkDone(r) = Cardinality(Answers(m)) /\ WorkDone(r)' = Cardinality(Answers(m))'
    BY <1>2, <1>3, <2>1 DEF WorkDone
  <2>3. CASE Answers(m)' = Answers(m)
    BY <1>2, <2>2, <2>3
  <2>4. CASE /\ Answering /\ outbox[Current].msg = m
             /\ Cardinality(Answers(m))' = Cardinality(Answers(m)) + 1
    <3>1. worker.step = "responded"
      <4>1. DOMAIN outbox' # DOMAIN outbox
        BY <1>1, <2>4, AnswerAppended
      <4> QED
        BY <1>1, <4>1 DEF RowOutcome
    <3>2. Current \in Arrived /\ r \in Arrived
      BY <1>1, <1>3, <3>1, HeadIsRow DEF Sound, WorkerShape, Arrived
    <3>3. r = Current
      BY <2>1, <2>4, <3>2 DEF ArrivalsDistinct
    <3> QED
      BY <1>2, <2>2, <2>4, <3>3
  <2> QED
    BY <1>1, <2>3, <2>4, AnswersOf
<1>4. CASE outbox[r].type = "ResponseReady"
  <2>1. /\ WorkDone(r) = Copies(r) + (IF outbox[r].dropped THEN 1 ELSE 0)
        /\ WorkDone(r)' = Copies(r)' + (IF outbox'[r].dropped THEN 1 ELSE 0)
        /\ Copies(r) \in Nat
    BY <1>2, <1>4, CopiesAreCountable DEF WorkDone
  <2>2. UNCHANGED screen => Copies(r)' = Copies(r)
    BY DEF Copies
  <2>3. UNCHANGED screen \/ Shows
    BY <1>1 DEF RowOutcome
  <2>4. Shows => Copies(r)' = IF r = Current THEN Copies(r) + 1 ELSE Copies(r)
    BY <1>1, CopyShown
  <2>5. r # Current => outbox'[r] = outbox[r]
    BY OthersStay
  <2> QED
    BY <1>2, <2>1, <2>2, <2>3, <2>4, <2>5, GivenUpUnsent
<1> QED
  BY <1>2, <1>3, <1>4 DEF Rows

\* A row that comes has nothing behind it.
LEMMA ComingRow ==
    ASSUME Sound, ArrivalsDistinct, AnswersFollow, ReplyStep,
           NEW r \in DOMAIN outbox' \ DOMAIN outbox
    PROVE  ~outbox'[r].processed /\ WorkDone(r)' = 0
<1>1. CASE MessageArrives
  <2>1. PICK m : /\ m = Cardinality(Arrived) + 1
                 /\ Row("MessageReceived", m) \in Rows
                 /\ outbox' = Append(outbox, Row("MessageReceived", m))
    BY <1>1, Arriving DEF Sound
  <2>2. outbox'[r] = Row("MessageReceived", m)
    BY <2>1, RowAppended DEF Sound
  <2>3. /\ outbox'[r].type = "MessageReceived" /\ ~outbox'[r].processed
        /\ outbox'[r].msg = m /\ m \in 1..MaxMessages
    BY <2>1, <2>2 DEF Row, Rows
  <2>4. Cardinality(Arrived) \in Nat
    BY RowsAreFinite DEF Sound, Arrived
  <2>5. ASSUME NEW s \in DOMAIN outbox PROVE outbox[s].msg # m
    <3>1. PICK t \in Arrived : outbox[t].msg = outbox[s].msg
      BY DEF AnswersFollow
    <3>2. outbox[t].msg <= Cardinality(Arrived)
      BY DEF ArrivalsDistinct
    <3>3. outbox[s] \in Rows
      BY DEF Sound, TypeOK
    <3>4. outbox[s].msg \in Nat
      BY <3>3 DEF Rows
    <3> QED
      BY <2>1, <2>4, <3>1, <3>2, <3>4
  <2>6. Answers(m)' = {}
    <3>1. Answers(m) = {}
      BY <2>5 DEF Answers
    <3>2. worker.todo # <<>> => outbox[Current].msg # m
      BY <2>5, HeadIsRow DEF Sound
    <3>3. Answers(m)' = Answers(m)
      BY <2>3, <3>2, AnswersOf
    <3> QED
      BY <3>1, <3>3
  <2>7. WorkDone(r)' = Cardinality(Answers(m))'
    BY <2>3 DEF WorkDone
  <2> QED
    BY <2>3, <2>6, <2>7, FS_EmptySet
<1>2. CASE RowAction /\ worker.todo # <<>> /\ RowOutcome /\ Answering
  <2> DEFINE row == Row("ResponseReady", outbox[Current].msg)
             S == {k \in DOMAIN screen : screen[k] = r}
  <2>1. row \in Rows
    BY <1>2, MessageOfRow DEF Sound
  <2>2. DOMAIN outbox' # DOMAIN outbox /\ outbox'[r] = row
    BY <1>2, <2>1, RowAppended DEF Sound, Answering
  <2>3. outbox'[r].type = "ResponseReady" /\ ~outbox'[r].processed /\ ~outbox'[r].dropped
    BY <2>2 DEF Row
  <2>4. UNCHANGED screen
    BY <1>2, <2>2 DEF RowOutcome
  <2>5. S = {}
    <3>1. \A k \in DOMAIN screen : screen[k] \in DOMAIN outbox
      BY DEF Sound, TypeOK
    <3> QED
      BY <3>1
  <2>6. Copies(r)' = Cardinality(S)
    BY <2>4 DEF Copies
  <2>7. WorkDone(r)' = Copies(r)' + 0
    BY <2>3 DEF WorkDone
  <2> HIDE DEF S
  <2> QED
    BY <2>3, <2>5, <2>6, <2>7, FS_EmptySet
<1> QED
  BY <1>1, <1>2, RowsKept

\* The contract sees a row only through whether it has come, is recorded, and how much work
\* is behind it.
LEMMA ContractSees ==
    ASSUME NEW r, (r \in DOMAIN outbox)' = (r \in DOMAIN outbox), Recorded(r)' = Recorded(r),
           WorkDone(r)' = WorkDone(r)
    PROVE  UNCHANGED Contract(r)!vars
BY DEF Contract!vars

\* A row that comes is published.
LEMMA ContractPublishes ==
    ASSUME NEW r, r \notin DOMAIN outbox, r \in DOMAIN outbox', ~outbox'[r].processed,
           WorkDone(r)' = 0
    PROVE  Contract(r)!Next
<1>1. Recorded(r) = {} /\ Recorded(r)' = {} /\ WorkDone(r) = 0
  BY DEF Recorded, WorkDone
<1>2. Contract(r)!Publish(r)
  BY <1>1 DEF Contract!Publish
<1> QED
  BY <1>2 DEF Contract!Next

\* Work on a row that is not recorded yet is the contract's.
LEMMA ContractWorks ==
    ASSUME NEW r \in DOMAIN outbox, r \in DOMAIN outbox', ~outbox[r].processed,
           ~outbox'[r].processed, WorkDone(r)' = WorkDone(r) + 1
    PROVE  Contract(r)!Next
<1>1. Recorded(r) = {} /\ Recorded(r)' = {}
  BY DEF Recorded
<1>2. [x \in {"handler"} \X {r} |-> WorkDone(r)']
      = [[x \in {"handler"} \X {r} |-> WorkDone(r)] EXCEPT ![<<"handler", r>>] = @ + 1]
  OBVIOUS
<1>3. Contract(r)!Work("handler", r)
  BY <1>1, <1>2 DEF Contract!Work
<1> QED
  BY <1>3 DEF Contract!Next

\* A row that is recorded with work behind it is recorded as the contract wants.
LEMMA ContractRecords ==
    ASSUME NEW r \in DOMAIN outbox, r \in DOMAIN outbox', ~outbox[r].processed,
           outbox'[r].processed, WorkDone(r) \in Nat, WorkDone(r) >= 1,
           WorkDone(r)' = WorkDone(r)
    PROVE  Contract(r)!Next
<1>1. Recorded(r) = {} /\ Recorded(r)' = {r}
  BY DEF Recorded
<1>2. {<<"handler", r>>} \in SUBSET Contract(r)!Worked
  BY <1>1 DEF Contract!Worked, Contract!Pairs
<1>3. Contract(r)!Record({<<"handler", r>>}, {r})
  BY <1>1 DEF Contract!Record
<1> QED
  BY <1>1, <1>2, <1>3 DEF Contract!Next

\* Every step is, for every row, one of the contract or none.
LEMMA ContractSteps ==
    ASSUME WorkIsSound, ArrivalsDistinct, AnswersFollow, ReplyStep, NEW r
    PROVE  [Contract(r)!Next]_(Contract(r)!vars)
<1>1. Sound /\ QueueSound /\ WorkIsDone
  BY DEF WorkIsSound, QueueIsSound
<1>2. CASE r \in DOMAIN outbox' \ DOMAIN outbox
  BY <1>1, <1>2, ComingRow, ContractPublishes
<1>3. CASE r \notin DOMAIN outbox /\ r \notin DOMAIN outbox'
  BY <1>3, ContractSees DEF Recorded, WorkDone
<1>4. CASE r \in DOMAIN outbox /\ RowAction
  <2>1. WorkDone(r) = WorkDone(r)' => UNCHANGED Contract(r)!vars
    BY <1>1, <1>4, RowWorks, ContractSees DEF Recorded
  <2>2. CASE r = Current /\ WorkDone(r)' = WorkDone(r) + 1
    <3>1. ~outbox[r].processed
      BY <1>1, <1>4, <2>2, HeadIsUnsettled, RowOutcomes DEF Sound, Settled
    <3> QED
      BY <1>1, <1>4, <2>2, <3>1, RowWorks, ContractWorks
  <2> QED
    BY <1>1, <1>4, <2>1, <2>2, RowWorks
<1>5. CASE r \in DOMAIN outbox /\ ~RowAction
  <2>1. OutboxGrows /\ UNCHANGED screen /\ r \in DOMAIN outbox' /\ outbox[r] \in Rows
    <3>1. OutboxGrows
      BY <1>1, RowsKept, Arriving DEF Sound, StepIsTyped
    <3>2. UNCHANGED screen
      BY <1>5 DEF ReplyStep, DrainBatch, BatchCommits, MessageArrives, Crash
    <3> QED
      BY <1>1, <1>5, <3>1, <3>2 DEF OutboxGrows, Sound, TypeOK
  <2>2. PICK m \in 1..MaxMessages : m = outbox[r].msg
    BY <2>1 DEF Rows
  <2>3. /\ outbox'[r].type = outbox[r].type /\ outbox'[r].msg = m
        /\ Answers(m)' = Answers(m) /\ Copies(r)' = Copies(r)
    BY <1>1, <1>5, <2>1, <2>2, AnswersOf DEF OutboxGrows, Later, Copies
  <2>4. outbox'[r].dropped = outbox[r].dropped
    <3>1. CASE DrainBatch
      BY <3>1 DEF DrainBatch
    <3>2. CASE BatchCommits
      BY <1>5, <2>1, <3>2 DEF BatchCommits, Rows
    <3>3. CASE Crash
      BY <1>5, <2>1, <3>3 DEF Crash, Rows
    <3>4. CASE MessageArrives
      BY <1>1, <1>5, <3>4, Arriving, RowAppended DEF Sound
    <3> QED
      BY <1>5, <3>1, <3>2, <3>3, <3>4 DEF ReplyStep
  <2>5. WorkDone(r)' = WorkDone(r)
    BY <2>1, <2>2, <2>3, <2>4, <1>5 DEF WorkDone
  <2>6. CASE outbox'[r].processed = outbox[r].processed
    BY <1>5, <2>1, <2>5, <2>6, ContractSees DEF Recorded
  <2>7. CASE outbox'[r].processed # outbox[r].processed
    <3>1. BatchCommits
      BY <1>1, <1>5, <2>7, BatchBegins, Crashing, Arriving
      DEF ReplyStep, Sound, RowsAsBefore, DrainBatch
    <3>2. r \in worker.done /\ ~outbox[r].processed /\ outbox'[r].processed
      <4>1. outbox[r].processed \in BOOLEAN /\ outbox'[r].processed \in BOOLEAN
        <5>1. outbox'[r] \in Rows
          BY <1>5, <2>1 DEF OutboxGrows, Later
        <5> QED
          BY <2>1, <5>1 DEF Rows
      <4> QED
        BY <1>1, <1>5, <2>7, <3>1, <4>1, BatchEnds DEF Sound
    <3>3. WorkDone(r) \in Nat /\ WorkDone(r) >= 1
      BY <1>1, <1>5, <3>2, WorkIsCounted DEF Settled
    <3> QED
      BY <1>5, <2>1, <2>5, <3>2, <3>3, ContractRecords
  <2> QED
    BY <2>6, <2>7
<1> QED
  BY <1>2, <1>3, <1>4, <1>5

\* Whatever attempts, commits, notes and processes fail, the worker keeps the at-least-once
\* contract for every row: it records a row after its work, and works on none it recorded.
THEOREM WorkerKeepsContract == Spec => KeepsContract
<1>1. Init => AnswersFollow /\ \A r \in RowIds : Contract(r)!Init
  <2> SUFFICES ASSUME Init PROVE AnswersFollow /\ \A r \in RowIds : Contract(r)!Init
    OBVIOUS
  <2>1. DOMAIN outbox = {}
    BY DEF Init
  <2> QED
    BY <2>1 DEF AnswersFollow, Contract!Init, Contract!Pairs, Recorded, WorkDone
<1>2. Sound /\ AnswersFollow /\ [Next]_vars => AnswersFollow'
  <2> SUFFICES ASSUME Sound, AnswersFollow, [Next]_vars PROVE AnswersFollow'
    OBVIOUS
  <2>1. CASE UNCHANGED replyVars
    BY <2>1 DEF replyVars, AnswersFollow, Arrived
  <2> QED
    BY <2>1, StepsSplit, AnswersFollowPreserved
<1>3. WorkIsSound /\ CountsAreSound /\ AnswersFollow /\ [Next]_vars
      => [\A r \in RowIds : [Contract(r)!Next]_(Contract(r)!vars)]_vars
  <2> SUFFICES ASSUME WorkIsSound, CountsAreSound, AnswersFollow, [Next]_vars,
                      NEW r \in RowIds
               PROVE  [Contract(r)!Next]_(Contract(r)!vars)
    OBVIOUS
  <2>1. CASE ReplyStep
    BY <2>1, ContractSteps DEF CountsAreSound
  <2>2. CASE UNCHANGED replyVars
    <3>1. UNCHANGED <<outbox, screen>>
      BY <2>2 DEF replyVars
    <3>2. Recorded(r)' = Recorded(r) /\ WorkDone(r)' = WorkDone(r)
      BY <3>1 DEF Recorded, WorkDone, Answers, Copies
    <3> QED
      BY <3>1, <3>2, ContractSees
  <2> QED
    BY <2>1, <2>2, StepsSplit
<1> QED
  BY <1>1, <1>2, <1>3, SoundAlways, WorkAlways, CountsAlways, PTL DEF Spec, KeepsContract
=============================================================================
