------------------------- MODULE PropertyIngestion -------------------------
(***************************************************************************)
(* The mirror of an organization's inventory and the embeddings that       *)
(* Semantic Retrieval searches (recommendation/application/                *)
(* property_ingestion.py).  An ingestion fetches the whole catalog, then   *)
(* for each item upserts the row and, if the content differs from the one  *)
(* the stored embedding was computed from, recomputes the embedding.       *)
(*                                                                         *)
(* One transaction spans the catalog.  The row of an item is written when  *)
(* the session flushes before the SELECT of the item's embedding, and is   *)
(* locked from then to the end of the transaction (updated_at is written   *)
(* even if nothing else is): of two overlapping ingestions the second      *)
(* waits there, with the row it loaded before.  Its UPDATE then writes     *)
(* only the columns that differ from what it loaded.                       *)
(*                                                                         *)
(* Nothing in app/ calls the pipeline yet: that ingestions are run again   *)
(* and again, and that their caller commits, is assumed of that caller.    *)
(***************************************************************************)
EXTENDS Naturals

CONSTANTS
    Items,       \* external_ids of the inventory
    Rank,        \* their order in a catalog, [Items -> Nat]
    Columns,     \* what content_hash covers: price, zone, type, features, ...
    Values,      \* their values
    Jobs,        \* ingestions that can be in flight together
    None,        \* no row, no embedding, not in the catalog, no ingestion
    MaxChanges,  \* bound on changes of the catalog
    MaxFailures  \* bound on ingestions that are lost

Contents == [Columns -> Values]
Listing == [Items -> Contents \union {None}]

ASSUME InventoryAssumption ==
    /\ None \notin Contents /\ None \notin Items
    /\ Rank \in [Items -> Nat]
    /\ \A i, k \in Items : Rank[i] = Rank[k] => i = k
    /\ MaxChanges \in Nat /\ MaxFailures \in Nat

VARIABLES
    source,      \* the catalog, at the inventory system
    rows,        \* committed properties rows
    embeddings,  \* committed property_embeddings rows: the content each was
                 \* computed from (source_hash and vector)
    jobs,        \* [Jobs -> ingestion in flight or None]
    raced,       \* items last written by an ingestion that another overtook
    changes, failures

vars == <<source, rows, embeddings, jobs, raced, changes, failures>>
mirror == <<rows, embeddings, raced>>

Ingestion ==
    [fetched : Listing,             \* what fetch returned
     todo : SUBSET Items,           \* items the loop has not finished
     item : Items \union {None},    \* the one whose row is loaded
     loaded : Contents \union {None},
     written : Listing,             \* rows written, not yet committed
     recomputed : SUBSET Items,     \* items it saves an embedding of
     overtaken : SUBSET Items]      \* rows that changed after it loaded them

Init ==
    /\ source \in Listing
    /\ rows = [i \in Items |-> None]
    /\ embeddings = [i \in Items |-> None]
    /\ jobs = [j \in Jobs |-> None]
    /\ raced = {}
    /\ changes = 0 /\ failures = 0

-----------------------------------------------------------------------------
(* ingest_from_source                                                       *)

Fetch(j) ==
    /\ jobs[j] = None
    /\ jobs' = [jobs EXCEPT ![j] =
           [fetched |-> source, todo |-> {i \in Items : source[i] # None},
            item |-> None, loaded |-> None, written |-> [i \in Items |-> None],
            recomputed |-> {}, overtaken |-> {}]]
    /\ UNCHANGED <<source, mirror, changes, failures>>

Loading(job, i, row) == [job EXCEPT !.item = i, !.loaded = row]

\* The session.get of upsert, for the next item of the catalog.
LoadRow(j) ==
    /\ jobs[j] # None /\ jobs[j].item = None
    /\ \E i \in jobs[j].todo :
         /\ \A k \in jobs[j].todo : Rank[i] <= Rank[k]
         /\ jobs' = [jobs EXCEPT ![j] = Loading(@, i, rows[i])]
    /\ UNCHANGED <<source, mirror, changes, failures>>

Locked(i, j) == \E k \in Jobs \ {j} : jobs[k] # None /\ jobs[k].written[i] # None

\* Mutant of Upserted: a row that was found is left alone.
InsertedOnce(row, loaded, property) == IF loaded = None THEN property ELSE row

\* Mutant of Upserted: a field that was not loaded stays empty.
UpdatedOnly(row, loaded, property) ==
    [c \in Columns |-> IF loaded = None THEN None ELSE property[c]]

\* An INSERT, or an UPDATE of the columns the session saw change.
Upserted(row, loaded, property) ==
    IF loaded = None
    THEN property
    ELSE [c \in Columns |-> IF property[c] # loaded[c] THEN property[c] ELSE row[c]]

\* Mutant of Stale: the content is compared with the row instead of the hash.
StaleRow(i, property) == rows[i] # property

\* The row that decides whether the embedding is recomputed is read after the
\* lock on the item's row was taken.
Stale(i, property) == embeddings[i] # property

Writing(job, i, row) ==
    [job EXCEPT
        !.todo = @ \ {i},
        !.item = None,
        !.written[i] = row,
        !.recomputed = IF Stale(i, job.fetched[i]) THEN @ \union {i} ELSE @,
        !.overtaken = IF rows[i] # job.loaded THEN @ \union {i} ELSE @]

WriteRow(j) ==
    /\ jobs[j] # None /\ jobs[j].item # None
    /\ ~Locked(jobs[j].item, j)
    /\ LET i == jobs[j].item
           loaded == jobs[j].loaded
       IN  /\ loaded = None => rows[i] = None
           /\ jobs' = [jobs EXCEPT ![j] =
                  Writing(@, i, Upserted(rows[i], loaded, jobs[j].fetched[i]))]
    /\ UNCHANGED <<source, mirror, changes, failures>>

EndJob(j) == jobs' = [jobs EXCEPT ![j] = None]

\* The INSERT of an item that another ingestion has inserted meanwhile.
Conflict(j) ==
    /\ jobs[j] # None /\ jobs[j].item # None
    /\ jobs[j].loaded = None /\ rows[jobs[j].item] # None
    /\ EndJob(j)
    /\ UNCHANGED <<source, mirror, changes, failures>>

Commit(j) ==
    /\ jobs[j] # None /\ jobs[j].item = None /\ jobs[j].todo = {}
    /\ LET job == jobs[j]
           touched == {i \in Items : job.written[i] # None}
       IN  /\ rows' = [i \in Items |-> IF i \in touched THEN job.written[i] ELSE rows[i]]
           /\ embeddings' = [i \in Items |->
                  IF i \in job.recomputed THEN job.fetched[i] ELSE embeddings[i]]
           /\ raced' = (raced \ touched) \union job.overtaken
    /\ EndJob(j)
    /\ UNCHANGED <<source, changes, failures>>

\* Mutant of Fail: what was written before the failure stays.
FailKeepingRows(j) ==
    /\ jobs[j] # None /\ failures < MaxFailures
    /\ failures' = failures + 1
    /\ rows' = [i \in Items |-> IF jobs[j].written[i] # None
                                THEN jobs[j].written[i] ELSE rows[i]]
    /\ EndJob(j)
    /\ UNCHANGED <<source, embeddings, raced, changes>>

\* The process or the connection is lost, and the transaction rolls back.
Fail(j) ==
    /\ jobs[j] # None /\ failures < MaxFailures
    /\ failures' = failures + 1
    /\ EndJob(j)
    /\ UNCHANGED <<source, mirror, changes>>

-----------------------------------------------------------------------------
(* The inventory system lists, changes and delists items.  The mirror has   *)
(* no operation that removes a row.                                         *)

SourceChanges ==
    /\ changes < MaxChanges
    /\ \E i \in Items, c \in Contents \union {None} :
         /\ c # source[i]
         /\ source' = [source EXCEPT ![i] = c]
    /\ changes' = changes + 1
    /\ UNCHANGED <<mirror, jobs, failures>>

Proceed(j) == LoadRow(j) \/ WriteRow(j) \/ Conflict(j) \/ Commit(j)
Next == SourceChanges \/ \E j \in Jobs : Fetch(j) \/ Proceed(j) \/ Fail(j)
Spec == Init /\ [][Next]_vars

\* One caller keeps running ingestions, and an ingestion that has begun goes on:
\* the locks it waits for are held by ingestions that go on too.
Fairness == \A j \in Jobs : WF_vars(Fetch(j)) /\ WF_vars(Proceed(j))
FairSpec == Spec /\ Fairness

-----------------------------------------------------------------------------
(* Properties                                                               *)

TypeOK ==
    /\ source \in Listing
    /\ rows \in Listing
    /\ embeddings \in Listing
    /\ jobs \in [Jobs -> Ingestion \union {None}]
    /\ raced \subseteq Items
    /\ changes \in 0..MaxChanges /\ failures \in 0..MaxFailures

\* Every property of the mirror can be found by Semantic Retrieval, and every
\* embedding belongs to a property, however ingestions overlap and fail: the row
\* and the embedding of an item commit together or not at all.
SearchableOnceListed == \A i \in Items : rows[i] = None <=> embeddings[i] = None

\* The stored vector describes the property the customer is shown, except where
\* an ingestion that was overtaken between its load and its write came last:
\* that one merges its columns into a row it has not seen, and computes the
\* vector from what it fetched.
EmbeddingFitsRow == \A i \in Items : i \notin raced => embeddings[i] = rows[i]

\* Whatever overlaps, failures and races went before, once the catalog no longer
\* changes the mirror comes to show each listed item as it is, with the vector
\* computed from it.  (An item that was delisted keeps its last row.)
InventoryConverges ==
    <>[](\A i \in Items : source[i] # None => rows[i] = source[i] /\ embeddings[i] = source[i])
=============================================================================
