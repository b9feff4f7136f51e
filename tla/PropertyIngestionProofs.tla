---------------------- MODULE PropertyIngestionProofs ----------------------
(***************************************************************************)
(* Proofs about PropertyIngestion for every catalog, every number of       *)
(* overlapping ingestions and every bound.                                 *)
(***************************************************************************)
EXTENDS PropertyIngestion, TLAPS

\* What an ingestion in flight relies on: it has yet to write the items of its
\* loop, the row it has loaded is still there, and what it has written it can
\* commit together with the embedding.
Consistent(job) ==
    /\ \A i \in job.todo : job.fetched[i] # None
    /\ job.item # None => job.item \in job.todo
    /\ job.item # None /\ job.loaded # None => rows[job.item] # None
    /\ \A i \in Items : job.written[i] # None =>
         /\ job.fetched[i] # None
         /\ i \in job.overtaken \/ job.written[i] = job.fetched[i]
         /\ i \in job.recomputed \/ embeddings[i] = job.fetched[i]
    /\ \A i \in job.recomputed : job.written[i] # None

JobsAreConsistent == \A j \in Jobs : jobs[j] # None => Consistent(jobs[j])

\* The rows an ingestion has written are locked.
LocksExclude ==
    \A j, k \in Jobs : \A i \in Items :
        /\ j # k /\ jobs[j] # None /\ jobs[k] # None
        /\ jobs[j].written[i] # None
        => jobs[k].written[i] = None

IInv ==
    /\ TypeOK
    /\ JobsAreConsistent
    /\ LocksExclude
    /\ SearchableOnceListed
    /\ EmbeddingFitsRow

-----------------------------------------------------------------------------
(* The upsert                                                               *)

LEMMA UpsertedType ==
    ASSUME NEW row \in Contents \union {None}, NEW loaded \in Contents \union {None},
           NEW property \in Contents,
           loaded # None => row # None
    PROVE  Upserted(row, loaded, property) \in Contents
BY DEF Upserted, Contents

\* The UPDATE of a row nobody changed makes it what was fetched.
LEMMA UpsertedFresh ==
    ASSUME NEW loaded \in Contents \union {None}, NEW property \in Contents
    PROVE  Upserted(loaded, loaded, property) = property
<1>1. CASE loaded = None
  BY <1>1 DEF Upserted
<1>2. CASE loaded # None
  <2>1. \A c \in Columns :
          (IF property[c] # loaded[c] THEN property[c] ELSE loaded[c]) = property[c]
    OBVIOUS
  <2> QED
    BY <1>2, <2>1 DEF Upserted, Contents
<1> QED
  BY <1>1, <1>2

-----------------------------------------------------------------------------
(* The records of the ingestions                                            *)

LEMMA LoadingFields ==
    ASSUME NEW job \in Ingestion, NEW i \in Items, NEW row \in Contents \union {None}
    PROVE  /\ Loading(job, i, row) \in Ingestion
           /\ Loading(job, i, row).fetched = job.fetched
           /\ Loading(job, i, row).todo = job.todo
           /\ Loading(job, i, row).item = i
           /\ Loading(job, i, row).loaded = row
           /\ Loading(job, i, row).written = job.written
           /\ Loading(job, i, row).recomputed = job.recomputed
           /\ Loading(job, i, row).overtaken = job.overtaken
BY DEF Loading, Ingestion

IsWriting(new, job, i, row) ==
    /\ new \in Ingestion
    /\ new.fetched = job.fetched
    /\ new.todo = job.todo \ {i}
    /\ new.item = None
    /\ new.loaded = job.loaded
    /\ new.written = [job.written EXCEPT ![i] = row]
    /\ new.recomputed = IF Stale(i, job.fetched[i]) THEN job.recomputed \union {i}
                                                    ELSE job.recomputed
    /\ new.overtaken = IF rows[i] # job.loaded THEN job.overtaken \union {i}
                                               ELSE job.overtaken

LEMMA WritingFields ==
    ASSUME NEW job \in Ingestion, NEW i \in Items, NEW row \in Contents
    PROVE  IsWriting(Writing(job, i, row), job, i, row)
BY DEF IsWriting, Writing, Ingestion, Listing

-----------------------------------------------------------------------------
(* The actions                                                              *)

\* A job stays consistent while rows are not removed and the embeddings of what
\* it has written do not change.
LEMMA StaysConsistent ==
    ASSUME NEW k \in Jobs, jobs[k] \in Ingestion, jobs'[k] = jobs[k],
           Consistent(jobs[k]),
           \A i \in Items : rows[i] # None => rows'[i] # None,
           \A i \in Items : jobs[k].written[i] # None => embeddings'[i] = embeddings[i]
    PROVE  Consistent(jobs[k])'
BY InventoryAssumption DEF Consistent, Ingestion

\* Ending an ingestion without a commit preserves the invariant.
LEMMA EndPreserves ==
    ASSUME IInv, NEW j \in Jobs, EndJob(j), UNCHANGED <<source, mirror, changes>>,
           failures' \in 0..MaxFailures
    PROVE  IInv'
<1> USE DEF IInv, mirror
<1>1. jobs' = [jobs EXCEPT ![j] = None]
  BY DEF EndJob
<1>2. \A k \in Jobs : jobs'[k] = None \/ jobs'[k] = jobs[k]
  BY <1>1 DEF TypeOK
<1>3. TypeOK'
  BY <1>1 DEF TypeOK
<1>4. JobsAreConsistent'
  BY <1>2 DEF JobsAreConsistent, Consistent
<1>5. LocksExclude'
  BY <1>2 DEF LocksExclude
<1>6. SearchableOnceListed' /\ EmbeddingFitsRow'
  BY DEF SearchableOnceListed, EmbeddingFitsRow
<1> QED
  BY <1>3, <1>4, <1>5, <1>6

LEMMA FetchPreserves ==
    ASSUME IInv, NEW j \in Jobs, Fetch(j)
    PROVE  IInv'
<1> USE DEF IInv, mirror
<1> DEFINE job == [fetched |-> source, todo |-> {i \in Items : source[i] # None},
                   item |-> None, loaded |-> None, written |-> [i \in Items |-> None],
                   recomputed |-> {}, overtaken |-> {}]
<1>1. job \in Ingestion
  BY DEF TypeOK, Ingestion, Listing
<1>2. jobs' = [jobs EXCEPT ![j] = job]
  BY DEF Fetch
<1>3. jobs' \in [Jobs -> Ingestion \union {None}]
      /\ \A k \in Jobs : jobs'[k] = (IF k = j THEN job ELSE jobs[k])
  BY <1>1, <1>2 DEF TypeOK
<1>4. UNCHANGED <<source, rows, embeddings, raced, changes, failures>>
  BY DEF Fetch
<1>5. TypeOK'
  BY <1>1, <1>3, <1>4 DEF TypeOK
<1>6. /\ \A i \in Items : job.written[i] = None
      /\ \A i \in job.todo : job.fetched[i] # None
      /\ job.item = None /\ job.recomputed = {}
  OBVIOUS
<1> HIDE DEF job
<1>7. JobsAreConsistent'
  BY <1>3, <1>4, <1>6 DEF JobsAreConsistent, Consistent
<1>8. LocksExclude'
  BY <1>3, <1>6 DEF LocksExclude
<1>9. SearchableOnceListed' /\ EmbeddingFitsRow'
  BY <1>4 DEF SearchableOnceListed, EmbeddingFitsRow
<1> QED
  BY <1>5, <1>7, <1>8, <1>9

LEMMA LoadRowPreserves ==
    ASSUME IInv, NEW j \in Jobs, LoadRow(j)
    PROVE  IInv'
<1> USE DEF IInv, mirror
<1>1. PICK i \in jobs[j].todo :
        jobs' = [jobs EXCEPT ![j] = Loading(jobs[j], i, rows[i])]
  BY DEF LoadRow
<1>2. UNCHANGED <<source, rows, embeddings, raced, changes, failures>>
  BY DEF LoadRow
<1>3. jobs[j] # None /\ jobs[j] \in Ingestion /\ i \in Items
  BY DEF LoadRow, TypeOK, Ingestion
<1> DEFINE job == Loading(jobs[j], i, rows[i])
<1>4. rows[i] \in Contents \union {None}
  BY <1>3 DEF TypeOK, Listing
<1>7. /\ job \in Ingestion
      /\ job.written = jobs[j].written /\ job.fetched = jobs[j].fetched
      /\ job.todo = jobs[j].todo /\ job.item = i /\ job.loaded = rows[i]
      /\ job.recomputed = jobs[j].recomputed /\ job.overtaken = jobs[j].overtaken
  BY <1>3, <1>4, LoadingFields
<1> HIDE DEF job
<1>5. jobs' \in [Jobs -> Ingestion \union {None}]
      /\ \A k \in Jobs : jobs'[k] = (IF k = j THEN job ELSE jobs[k])
  BY <1>1, <1>7 DEF TypeOK, job
<1>6. TypeOK'
  BY <1>2, <1>5, <1>7 DEF TypeOK
<1>8. Consistent(jobs[j])
  BY <1>3 DEF JobsAreConsistent
<1>9. Consistent(job)
  BY <1>7, <1>8 DEF Consistent
<1>10. JobsAreConsistent'
  BY <1>2, <1>5, <1>9 DEF JobsAreConsistent, Consistent
<1>11. LocksExclude'
  BY <1>3, <1>5, <1>7 DEF LocksExclude
<1>12. SearchableOnceListed' /\ EmbeddingFitsRow'
  BY <1>2 DEF SearchableOnceListed, EmbeddingFitsRow
<1> QED
  BY <1>6, <1>10, <1>11, <1>12

\* The lock is what keeps the embedding that the ingestion compared with its
\* content the stored one until it commits.
LEMMA WriteRowPreserves ==
    ASSUME IInv, NEW j \in Jobs, WriteRow(j)
    PROVE  IInv'
<1> USE DEF IInv, mirror
<1> DEFINE old == jobs[j]
           i == old.item
           property == old.fetched[i]
           row == Upserted(rows[i], old.loaded, property)
           job == Writing(old, i, row)
<1>1. old # None /\ old \in Ingestion /\ i # None /\ i \in Items
  BY DEF WriteRow, TypeOK, Ingestion
<1>2. UNCHANGED <<source, rows, embeddings, raced, changes, failures>>
  BY DEF WriteRow
<1>3. jobs' = [jobs EXCEPT ![j] = job]
  BY DEF WriteRow
<1>4. Consistent(old)
  BY <1>1 DEF JobsAreConsistent
<1>5. property \in Contents /\ property # None
  BY <1>1, <1>4, InventoryAssumption DEF Consistent, Ingestion, Listing
<1>6. row \in Contents /\ row # None
  BY <1>1, <1>4, <1>5, UpsertedType, InventoryAssumption
     DEF Consistent, Ingestion, TypeOK, Listing
<1>7. rows[i] = old.loaded => row = property
  BY <1>1, <1>5, UpsertedFresh DEF Ingestion
<1>8. IsWriting(job, old, i, row)
  BY <1>1, <1>6, WritingFields
<1> HIDE DEF job, row
<1>10. jobs' \in [Jobs -> Ingestion \union {None}]
       /\ \A k \in Jobs : jobs'[k] = (IF k = j THEN job ELSE jobs[k])
  BY <1>3, <1>8 DEF TypeOK, IsWriting
<1>11. TypeOK'
  BY <1>2, <1>10 DEF TypeOK
<1>12. Consistent(job)
  <2>1. \A k \in Items : job.written[k] = IF k = i THEN row ELSE old.written[k]
    BY <1>1, <1>8 DEF IsWriting, Ingestion, Listing
  <2>2. \A k \in job.todo : job.fetched[k] # None
    BY <1>4, <1>8 DEF IsWriting, Consistent
  <2>3. ASSUME NEW k \in Items, job.written[k] # None
        PROVE  /\ job.fetched[k] # None
               /\ k \in job.overtaken \/ job.written[k] = job.fetched[k]
               /\ k \in job.recomputed \/ embeddings[k] = job.fetched[k]
    BY <1>4, <1>5, <1>7, <1>8, <2>1, <2>3 DEF Consistent, IsWriting, Stale
  <2>4. \A k \in job.recomputed : job.written[k] # None
    <3>1. old.recomputed \subseteq Items
      BY <1>1 DEF Ingestion
    <3>2. job.recomputed \subseteq old.recomputed \union {i}
      BY <1>8 DEF IsWriting
    <3> QED
      BY <1>1, <1>4, <1>6, <2>1, <3>1, <3>2 DEF Consistent
  <2> QED
    BY <1>8, <2>2, <2>3, <2>4 DEF IsWriting, Consistent
<1>13. JobsAreConsistent'
  BY <1>2, <1>10, <1>12 DEF JobsAreConsistent, Consistent
<1>14. LocksExclude'
  <2>1. \A k \in Jobs \ {j} : jobs[k] # None => jobs[k].written[i] = None
    BY <1>1 DEF WriteRow, Locked
  <2>2. \A k \in Items : k # i => job.written[k] = old.written[k]
    BY <1>1, <1>8 DEF IsWriting, Ingestion, Listing
  <2>3. \A k \in Jobs : k # j => jobs'[k] = jobs[k]
    BY <1>3
  <2>4. jobs'[j] = job \/ jobs'[j] = jobs[j]
    BY <1>10
  <2> QED
    BY <1>1, <2>1, <2>2, <2>3, <2>4 DEF LocksExclude
<1>15. SearchableOnceListed' /\ EmbeddingFitsRow'
  BY <1>2 DEF SearchableOnceListed, EmbeddingFitsRow
<1> QED
  BY <1>11, <1>13, <1>14, <1>15

LEMMA CommitPreserves ==
    ASSUME IInv, NEW j \in Jobs, Commit(j)
    PROVE  IInv'
<1> USE DEF IInv, mirror
<1> DEFINE job == jobs[j]
           touched == {i \in Items : job.written[i] # None}
<1>1. job # None /\ job \in Ingestion /\ Consistent(job)
  BY DEF Commit, TypeOK, JobsAreConsistent
<1>2. /\ rows' = [i \in Items |-> IF i \in touched THEN job.written[i] ELSE rows[i]]
      /\ embeddings' = [i \in Items |->
             IF i \in job.recomputed THEN job.fetched[i] ELSE embeddings[i]]
      /\ raced' = (raced \ touched) \union job.overtaken
      /\ jobs' = [jobs EXCEPT ![j] = None]
      /\ UNCHANGED <<source, changes, failures>>
  BY DEF Commit, EndJob
<1>3. \A k \in Jobs : jobs'[k] = None \/ (k # j /\ jobs'[k] = jobs[k])
  <2>1. jobs \in [Jobs -> Ingestion \union {None}]
    BY DEF TypeOK
  <2>2. jobs' = [jobs EXCEPT ![j] = None]
    BY <1>2, Zenon
  <2>3. jobs'[j] = None /\ \A k \in Jobs \ {j} : jobs'[k] = jobs[k]
    BY <2>1, <2>2
  <2> QED
    BY <2>3
<1>4. ASSUME NEW i \in Items, i \in touched
      PROVE  /\ rows'[i] = job.written[i] /\ embeddings'[i] = job.fetched[i]
             /\ rows'[i] # None /\ embeddings'[i] # None
             /\ i \notin job.overtaken => rows'[i] = embeddings'[i]
  BY <1>1, <1>2, <1>4 DEF Consistent
<1>5. ASSUME NEW i \in Items, i \notin touched
      PROVE  rows'[i] = rows[i] /\ embeddings'[i] = embeddings[i]
  BY <1>1, <1>2, <1>5 DEF Consistent
<1>6. TypeOK'
  <2>1. rows' \in Listing /\ embeddings' \in Listing
    BY <1>1, <1>2 DEF TypeOK, Ingestion, Listing
  <2>2. raced' \subseteq Items
    BY <1>1, <1>2 DEF TypeOK, Ingestion
  <2> QED
    BY <1>2, <1>3, <2>1, <2>2 DEF TypeOK
<1>7. JobsAreConsistent'
  <2>1. ASSUME NEW k \in Jobs, jobs'[k] # None
        PROVE  Consistent(jobs[k])'
    <3>1. k # j /\ jobs'[k] = jobs[k] /\ jobs[k] # None
      BY <1>3, <2>1
    <3>2. jobs[k] \in Ingestion /\ Consistent(jobs[k])
      BY <3>1 DEF TypeOK, JobsAreConsistent
    <3>3. \A i \in Items : rows[i] # None => rows'[i] # None
      BY <1>4, <1>5
    <3>4. \A i \in Items : jobs[k].written[i] # None => i \notin touched
      BY <1>1, <3>1 DEF LocksExclude
    <3>5. \A i \in Items : jobs[k].written[i] # None => embeddings'[i] = embeddings[i]
      BY <1>5, <3>4
    <3> QED
      BY <3>1, <3>2, <3>3, <3>5, StaysConsistent
  <2> QED
    BY <2>1 DEF JobsAreConsistent
<1>8. LocksExclude'
  BY <1>3 DEF LocksExclude
<1>9. SearchableOnceListed'
  BY <1>4, <1>5 DEF SearchableOnceListed
<1>10. EmbeddingFitsRow'
  <2>1. ASSUME NEW i \in Items, i \notin raced'
        PROVE  embeddings'[i] = rows'[i]
    BY <1>2, <1>4, <1>5, <2>1 DEF EmbeddingFitsRow
  <2> QED
    BY <2>1 DEF EmbeddingFitsRow
<1> QED
  BY <1>6, <1>7, <1>8, <1>9, <1>10

-----------------------------------------------------------------------------
(* The theorems                                                             *)

LEMMA InitInvariant == Init => IInv
BY InventoryAssumption
   DEF Init, IInv, TypeOK, JobsAreConsistent, LocksExclude, SearchableOnceListed,
       EmbeddingFitsRow, Listing

LEMMA StepInvariant == IInv /\ [Next]_vars => IInv'
<1> SUFFICES ASSUME IInv, [Next]_vars PROVE IInv'
  OBVIOUS
<1>1. CASE SourceChanges
  <2>1. UNCHANGED <<rows, embeddings, raced, jobs, failures>>
    BY <1>1 DEF SourceChanges, mirror
  <2>2. source' \in Listing /\ changes' \in 0..MaxChanges
    BY <1>1, InventoryAssumption DEF SourceChanges, IInv, TypeOK, Listing
  <2> QED
    BY <2>1, <2>2 DEF IInv, TypeOK, JobsAreConsistent, Consistent, LocksExclude,
       SearchableOnceListed, EmbeddingFitsRow
<1>2. ASSUME NEW j \in Jobs, Fetch(j) PROVE IInv'
  BY <1>2, FetchPreserves
<1>3. ASSUME NEW j \in Jobs, Proceed(j) PROVE IInv'
  <2>1. CASE Conflict(j)
    <3>1. EndJob(j) /\ UNCHANGED <<source, mirror, changes>> /\ failures' \in 0..MaxFailures
      BY <2>1 DEF Conflict, IInv, TypeOK
    <3> QED
      BY <3>1, EndPreserves
  <2> QED
    BY <1>3, <2>1, LoadRowPreserves, WriteRowPreserves, CommitPreserves DEF Proceed
<1>4. ASSUME NEW j \in Jobs, Fail(j) PROVE IInv'
  <2>1. EndJob(j) /\ UNCHANGED <<source, mirror, changes>> /\ failures' \in 0..MaxFailures
    BY <1>4, InventoryAssumption DEF Fail, IInv, TypeOK
  <2> QED
    BY <2>1, EndPreserves
<1>5. CASE UNCHANGED vars
  BY <1>5 DEF vars, IInv, TypeOK, JobsAreConsistent, Consistent, LocksExclude,
     SearchableOnceListed, EmbeddingFitsRow
<1> QED
  BY <1>1, <1>2, <1>3, <1>4, <1>5 DEF Next

LEMMA Invariance == Spec => []IInv
BY InitInvariant, StepInvariant, PTL DEF Spec

\* Every variable keeps its type: in particular what the column-wise UPDATE of an
\* overtaken ingestion leaves in a row is a complete property.
THEOREM TypeCorrect == Spec => []TypeOK
BY Invariance, PTL DEF IInv

\* A property is in the mirror exactly if it has an embedding.
THEOREM RowsAndEmbeddingsTogether == Spec => []SearchableOnceListed
BY Invariance, PTL DEF IInv

\* Outside the items that an overtaken ingestion wrote last, the stored embedding
\* is the one of the stored row.
THEOREM EmbeddingsFit == Spec => []EmbeddingFitsRow
BY Invariance, PTL DEF IInv
=============================================================================
