-------------------------- MODULE LeadSyncProofs --------------------------
(***************************************************************************)
(* Proofs about LeadSync for every set of deals, stages, pollers and bus   *)
(* workers, with any number of edits and faults: the watermark never       *)
(* leaves a deal behind unmirrored.  While no poll overlaps another        *)
(* writer, the watermark means that everything before it is synced, and    *)
(* the last event about a deal tells the stage the mirror has.             *)
(***************************************************************************)
EXTENDS LeadSync, FiniteSetTheorems, TLAPS

-----------------------------------------------------------------------------
(* Least and greatest elements                                              *)

\* A set of naturals has a least element, since the sets 0..n are well-founded
\* under strict inclusion.
LEMMA LeastElement ==
    ASSUME NEW S \in SUBSET Nat, S # {}
    PROVE  \E m \in S : \A n \in S : m <= n
<1>1. PICK k \in S : TRUE
  OBVIOUS
<1> DEFINE T == {0..n : n \in S}
           R == StrictSubsetOrdering(Nat)
<1>2. T \subseteq FiniteSubsetsOf(Nat)
  <2> SUFFICES ASSUME NEW n \in S PROVE 0..n \in SUBSET Nat /\ IsFiniteSet(0..n)
    BY DEF FiniteSubsetsOf
  <2> QED
    BY FS_Interval
<1>3. T # {}
  BY <1>1
<1>4. PICK t \in T : \A u \in T : <<u, t>> \notin R
  <2> HIDE DEF T
  <2> QED
    BY <1>2, <1>3, FS_StrictSubsetOrderingWellFounded, WFMin
<1>5. PICK m \in S : t = 0..m
  OBVIOUS
<1>6. ASSUME NEW n \in S PROVE m <= n
  <2> SUFFICES ASSUME n < m PROVE FALSE
    OBVIOUS
  <2>1. 0..n \subseteq 0..m /\ 0..n # 0..m
    <3>1. m \in 0..m /\ m \notin 0..n
      OBVIOUS
    <3> QED
      BY <3>1
  <2>2. <<0..n, 0..m>> \in R
    BY <2>1 DEF StrictSubsetOrdering
  <2> QED
    BY <1>4, <1>5, <2>2
<1> QED
  BY <1>6

\* What Min returns.
LEMMA MinIsLeast ==
    ASSUME NEW S \in SUBSET Nat, S # {}
    PROVE  Min(S) \in S /\ \A n \in S : Min(S) <= n
<1>1. \E m \in S : \A n \in S : m <= n
  BY LeastElement
<1> QED
  BY <1>1 DEF Min

\* What Max returns, for a set with an upper bound.
LEMMA MaxIsGreatest ==
    ASSUME NEW b \in Nat, NEW S \in SUBSET (0..b), S # {}
    PROVE  Max(S) \in S /\ \A n \in S : n <= Max(S)
<1> DEFINE T == {b - n : n \in S}
<1>1. T \in SUBSET Nat /\ T # {}
  <2>1. \A n \in S : n \in Nat /\ b - n \in Nat
    OBVIOUS
  <2>2. PICK k \in S : TRUE
    OBVIOUS
  <2>3. b - k \in T
    OBVIOUS
  <2> QED
    BY <2>1, <2>3
<1>2. PICK m \in T : \A n \in T : m <= n
  <2> HIDE DEF T
  <2> QED
    BY <1>1, LeastElement
<1>3. PICK k \in S : m = b - k
  OBVIOUS
<1>4. \A n \in S : k >= n
  <2> SUFFICES ASSUME NEW n \in S PROVE k >= n
    OBVIOUS
  <2>1. b - k <= b - n
    BY <1>2, <1>3
  <2> QED
    BY <2>1
<1>5. \E x \in S : \A y \in S : x >= y
  BY <1>4
<1>6. Max(S) \in S /\ \A y \in S : Max(S) >= y
  BY <1>5 DEF Max
<1> QED
  BY <1>6
\* max_seen is a time no later than the old watermark or some snapshot, and just
\* before the earliest snapshot that was skipped.
LEMMA MaxSeenBounds ==
    ASSUME NEW b \in Nat, NEW wm \in 0..b, NEW snaps,
           \A l \in DOMAIN snaps : snaps[l].at \in 1..b
    PROVE  /\ MaxSeen(wm, snaps) \in 0..b
           /\ \/ MaxSeen(wm, snaps) <= wm
              \/ \E k \in DOMAIN snaps : MaxSeen(wm, snaps) <= snaps[k].at
           /\ \A l \in DOMAIN snaps \ Parsed(snaps) : MaxSeen(wm, snaps) < snaps[l].at
<1> DEFINE P == Parsed(snaps)
           K == DOMAIN snaps \ P
           SeenTimes == {wm} \union UpdateTimes(snaps, P)
           SkippedTimes == UpdateTimes(snaps, K)
           seen == Max(SeenTimes)
<1>1. P \subseteq DOMAIN snaps
  BY DEF Parsed
<1>2. SeenTimes \in SUBSET (0..b) /\ SeenTimes # {}
  BY <1>1 DEF UpdateTimes
<1>3. seen \in SeenTimes
  <2> HIDE DEF SeenTimes
  <2> QED
    BY <1>2, MaxIsGreatest
<1>4. seen \in 0..b /\ (seen <= wm \/ \E k \in DOMAIN snaps : seen <= snaps[k].at)
  BY <1>1, <1>2, <1>3 DEF UpdateTimes
<1>5. CASE K = {}
  <2>1. MaxSeen(wm, snaps) = seen
    BY <1>5 DEF MaxSeen
  <2> QED
    BY <1>4, <1>5, <2>1
<1>6. CASE K # {}
  <2> DEFINE first == Min(SkippedTimes)
             both == {seen, first - 1}
  <2>1. SkippedTimes \in SUBSET Nat /\ SkippedTimes # {}
    BY <1>6 DEF UpdateTimes
  <2>2. first \in SkippedTimes /\ \A n \in SkippedTimes : first <= n
    <3> HIDE DEF SkippedTimes
    <3> QED
      BY <2>1, MinIsLeast
  <2>3. first \in 1..b
    BY <2>2 DEF UpdateTimes
  <2>4. both \in SUBSET Nat /\ both # {}
    <3> HIDE DEF first, seen
    <3> QED
      BY <1>4, <2>3
  <2>5. Min(both) \in both /\ \A n \in both : Min(both) <= n
    <3> HIDE DEF both
    <3> QED
      BY <2>4, MinIsLeast
  <2>6. MaxSeen(wm, snaps) = Min(both)
    BY <1>6 DEF MaxSeen
  <2>7. MaxSeen(wm, snaps) \in 0..b /\ MaxSeen(wm, snaps) <= seen
        /\ MaxSeen(wm, snaps) <= first - 1
    <3> HIDE DEF first, seen
    <3> QED
      BY <1>4, <2>3, <2>5, <2>6
  <2>8. \A l \in K : MaxSeen(wm, snaps) < snaps[l].at
    <3> SUFFICES ASSUME NEW l \in K PROVE MaxSeen(wm, snaps) < snaps[l].at
      OBVIOUS
    <3>1. snaps[l].at \in SkippedTimes /\ snaps[l].at \in Nat
      BY DEF UpdateTimes
    <3>2. first <= snaps[l].at
      BY <2>2, <3>1
    <3> HIDE DEF first, SkippedTimes, K
    <3> QED
      BY <2>3, <2>7, <3>1, <3>2
  <2>9. \/ MaxSeen(wm, snaps) <= wm
        \/ \E k \in DOMAIN snaps : MaxSeen(wm, snaps) <= snaps[k].at
    <3> HIDE DEF first, seen
    <3>1. CASE seen <= wm
      BY <1>4, <2>7, <3>1
    <3>2. ASSUME NEW k \in DOMAIN snaps, seen <= snaps[k].at
          PROVE  MaxSeen(wm, snaps) <= snaps[k].at
      BY <1>4, <2>7, <3>2
    <3> QED
      BY <1>4, <3>1, <3>2
  <2> QED
    BY <2>7, <2>8, <2>9
<1> QED
  BY <1>5, <1>6

-----------------------------------------------------------------------------
(* The inductive invariant                                                  *)

\* Every deal has a stage.
DealsHaveStages == \A l \in Leads : crm[l].at > 0 => crm[l].stage # NoStage

\* What a poll r in progress may rely on: its watermark left nothing behind, a
\* deal it did not fetch in its present version is older than its watermark or
\* newer than all it fetched, and a row it loaded, and may have read again, still exists.
SoundPoll(r) ==
    /\ \A l \in Leads : crm[l].at \in 1..r.wm => mirror[l] # NoStage
    /\ r.step # "fetch" => \A l \in Leads :
          \/ crm[l].at <= r.wm
          \/ l \in DOMAIN r.snaps /\ crm[l].at = r.snaps[l].at
          \/ \A k \in DOMAIN r.snaps : crm[l].at > r.snaps[k].at
    /\ r.step \in {"save", "commit"} => \A l \in DOMAIN r.snaps :
          r.loaded[l] # NoStage => mirror[l] # NoStage
    /\ r.step = "commit" => \A l \in DOMAIN r.snaps :
          r.loaded[l] = NoStage => r.seen[l] = NoStage

PollSound == \A p \in Pollers : poll[p] # Idle => SoundPoll(poll[p])

\* A handler has heard a proper stage from wacrm.
TaskSound ==
    \A w \in Workers : task[w] # Idle /\ task[w].step # "call" => task[w].stage \in Stages

IInv ==
    /\ TypeOK
    /\ DealsHaveStages
    /\ PollSound
    /\ TaskSound
    /\ WatermarkNeverPassesSkipped

-----------------------------------------------------------------------------
(* Type correctness                                                         *)

\* The stage an upsert leaves in the row and in the last event.
LEMMA UpsertTyped ==
    ASSUME TypeOK, NEW l \in Leads, NEW loaded, NEW seen,
           NEW s \in Stages \union {NoStage}
    PROVE  /\ Upserted(l, seen, s) \in Stages \union {NoStage}
           /\ Announced(l, loaded, s) \in Stages \union {NoStage}
  BY DEF Upserted, Announced, TypeOK

\* The part of TypeOK about one poll.
PollTyped(r, t) ==
    /\ DOMAIN r = {"step", "wm", "snaps", "loaded", "seen", "current"}
    /\ r.step \in {"fetch", "load", "save", "commit"}
    /\ r.wm \in 0..t /\ r.current \in 0..t
    /\ DOMAIN r.snaps \subseteq Leads
    /\ \A l \in DOMAIN r.snaps : /\ r.snaps[l].at \in 1..t
                                 /\ r.snaps[l].stage \in Stages \union BadStages
    /\ r.step \in {"save", "commit"} => \A l \in DOMAIN r.snaps :
          r.loaded[l] \in Stages \union {NoStage}
    /\ r.step = "commit" => \A l \in DOMAIN r.snaps :
          r.seen[l] \in Stages \union {NoStage}

\* The tasks of TypeOK.
TaskRecord ==
    [consumer : Consumers, lead : Leads,
     step : {"call", "load", "save", "commit"}, stage : Stages \union {NoStage},
     loaded : Stages \union {NoStage}, seen : Stages \union {NoStage}]

\* TypeOK, with the polls' part by name.
TypeRest ==
    /\ now \in Nat /\ edits \in Nat /\ faults \in Nat
    /\ cursor \in 0..now
    /\ crm \in [Leads -> [stage : Stages \union BadStages \union {NoStage}, at : 0..now]]
    /\ mirror \in [Leads -> Stages \union {NoStage}]
    /\ announced \in [Leads -> Stages \union {NoStage}]
    /\ completed \subseteq Leads
    /\ handled \subseteq Deliveries
    /\ unrecorded \in [Workers -> SUBSET Deliveries]
    /\ DOMAIN poll = Pollers
    /\ task \in [Workers -> {Idle} \union TaskRecord]

LEMMA TypeParts ==
    TypeOK <=> TypeRest /\ \A p \in Pollers : poll[p] # Idle => PollTyped(poll[p], now)
  BY DEF TypeOK, TypeRest, PollTyped, TaskRecord

\* A poll that stays as it is stays typed as time goes on.
LEMMA PollsKeepType ==
    ASSUME TypeOK, now' \in Nat, now' >= now, UNCHANGED poll
    PROVE  \A p \in Pollers : (poll[p] # Idle => PollTyped(poll[p], now))'
<1> SUFFICES ASSUME NEW p \in Pollers, poll[p] # Idle
             PROVE  PollTyped(poll[p], now')
  BY DEF PollTyped
<1>1. now \in Nat /\ PollTyped(poll[p], now)
  BY TypeParts DEF TypeOK
<1> QED
  BY <1>1 DEF PollTyped

\* One poll takes a step that ends typed; the others and the clock stay.
LEMMA OnePollMoves ==
    ASSUME TypeOK, NEW p \in Pollers, NEW r, poll' = [poll EXCEPT ![p] = r],
           r # Idle => PollTyped(r, now), now' = now
    PROVE  /\ DOMAIN poll' = Pollers
           /\ \A q \in Pollers : (poll[q] # Idle => PollTyped(poll[q], now))'
<1>1. DOMAIN poll = Pollers
  BY DEF TypeOK
<1>2. ASSUME NEW q \in Pollers PROVE (poll[q] # Idle => PollTyped(poll[q], now))'
  <2>1. CASE q = p
    BY <1>1, <2>1 DEF PollTyped
  <2>2. CASE q # p
    <3>1. poll'[q] = poll[q]
      BY <1>1, <2>2
    <3>2. poll[q] # Idle => PollTyped(poll[q], now)
      BY TypeParts
    <3> QED
      BY <3>1, <3>2 DEF PollTyped
  <2> QED
    BY <2>1, <2>2
<1> QED
  BY <1>1, <1>2

\* The record of a poll after each of its steps that do not end it.
LEMMA FetchedTyped ==
    ASSUME TypeOK, DealsHaveStages, NEW p \in Pollers, PollFetches(p)
    PROVE  LET r == poll'[p] IN
           /\ poll' = [poll EXCEPT ![p] = r]
           /\ PollTyped(r, now)
           /\ r.step = "load" /\ r.wm = poll[p].wm
           /\ DOMAIN r.snaps = {l \in Leads : crm[l].at > poll[p].wm}
           /\ \A l \in DOMAIN r.snaps : r.snaps[l] = crm[l]
<1> DEFINE changed == {l \in Leads : crm[l].at > poll[p].wm}
           S == [l \in changed |-> crm[l]]
           r == [poll[p] EXCEPT !.step = "load", !.snaps = S]
<1>1. DOMAIN poll = Pollers /\ PollTyped(poll[p], now)
  BY TypeParts DEF PollFetches, TypeOK
<1>2. poll' = [poll EXCEPT ![p] = r]
  BY DEF PollFetches
<1>3. poll'[p] = r
  BY <1>1, <1>2
<1>4. /\ DOMAIN r = {"step", "wm", "snaps", "loaded", "seen", "current"}
      /\ r.step = "load" /\ r.wm = poll[p].wm /\ r.snaps = S
      /\ r.current = poll[p].current
  <2> HIDE DEF S
  <2> QED
    BY <1>1 DEF PollTyped
<1>5. \A l \in changed : crm[l].at \in 1..now /\ crm[l].stage \in Stages \union BadStages
  <2> SUFFICES ASSUME NEW l \in changed
               PROVE  crm[l].at \in 1..now /\ crm[l].stage \in Stages \union BadStages
    OBVIOUS
  <2>1. /\ crm[l].at \in 0..now /\ now \in Nat
        /\ crm[l].stage \in Stages \union BadStages \union {NoStage}
        /\ crm[l].at > poll[p].wm /\ poll[p].wm \in 0..now
    BY <1>1 DEF TypeOK, PollTyped
  <2>2. crm[l].at > 0
    BY <2>1
  <2> QED
    BY <2>1, <2>2 DEF DealsHaveStages
<1>6. PollTyped(r, now)
  <2> HIDE DEF r
  <2> QED
    BY <1>1, <1>4, <1>5 DEF PollTyped
<1> QED
  <2> HIDE DEF r
  <2> QED
    BY <1>2, <1>3, <1>4, <1>6

LEMMA LoadedTyped ==
    ASSUME TypeOK, NEW p \in Pollers, PollLoads(p)
    PROVE  LET r == poll'[p] IN
           /\ poll' = [poll EXCEPT ![p] = r]
           /\ PollTyped(r, now)
           /\ r.step = "save" /\ r.wm = poll[p].wm /\ r.snaps = poll[p].snaps
           /\ \A l \in DOMAIN r.snaps : r.loaded[l] = mirror[l]
<1> DEFINE L == [l \in DOMAIN poll[p].snaps |-> mirror[l]]
           r == [poll[p] EXCEPT !.step = "save", !.loaded = L]
<1>1. DOMAIN poll = Pollers /\ PollTyped(poll[p], now)
  BY TypeParts DEF PollLoads, TypeOK
<1>2. poll' = [poll EXCEPT ![p] = r]
  BY DEF PollLoads
<1>3. poll'[p] = r
  BY <1>1, <1>2
<1>4. /\ DOMAIN r = {"step", "wm", "snaps", "loaded", "seen", "current"}
      /\ r.step = "save" /\ r.wm = poll[p].wm /\ r.snaps = poll[p].snaps /\ r.loaded = L
      /\ r.current = poll[p].current
  <2> HIDE DEF L
  <2> QED
    BY <1>1 DEF PollTyped
<1>5. \A l \in DOMAIN poll[p].snaps : L[l] = mirror[l] /\ mirror[l] \in Stages \union {NoStage}
  BY <1>1 DEF TypeOK, PollTyped
<1>6. PollTyped(r, now)
  <2> HIDE DEF r, L
  <2> QED
    BY <1>1, <1>4, <1>5 DEF PollTyped
<1> QED
  <2> HIDE DEF r, L
  <2> QED
    BY <1>2, <1>3, <1>4, <1>5, <1>6

LEMMA SavedTyped ==
    ASSUME TypeOK, NEW p \in Pollers, PollSaves(p)
    PROVE  LET r == poll'[p] IN
           /\ poll' = [poll EXCEPT ![p] = r]
           /\ PollTyped(r, now)
           /\ r.step = "commit" /\ r.wm = poll[p].wm /\ r.snaps = poll[p].snaps
           /\ r.loaded = poll[p].loaded /\ r.current = cursor
           /\ \A l \in DOMAIN r.snaps : r.seen[l] = Reread(l, r.loaded[l])
<1> DEFINE S == [l \in DOMAIN poll[p].snaps |-> Reread(l, poll[p].loaded[l])]
           r == [poll[p] EXCEPT !.step = "commit", !.seen = S, !.current = cursor]
<1>1. DOMAIN poll = Pollers /\ PollTyped(poll[p], now) /\ poll[p].step = "save"
  BY TypeParts DEF PollSaves, TypeOK
<1>2. poll' = [poll EXCEPT ![p] = r]
  BY DEF PollSaves
<1>3. poll'[p] = r
  BY <1>1, <1>2
<1>4. /\ DOMAIN r = {"step", "wm", "snaps", "loaded", "seen", "current"}
      /\ r.step = "commit" /\ r.wm = poll[p].wm /\ r.snaps = poll[p].snaps
      /\ r.loaded = poll[p].loaded /\ r.seen = S /\ r.current = cursor
  <2> HIDE DEF S
  <2> QED
    BY <1>1 DEF PollTyped
<1>5. \A l \in DOMAIN poll[p].snaps :
          S[l] = Reread(l, poll[p].loaded[l]) /\ S[l] \in Stages \union {NoStage}
  BY <1>1 DEF TypeOK, PollTyped, Reread
<1>6. PollTyped(r, now)
  <2>1. cursor \in 0..now
    BY DEF TypeOK
  <2> HIDE DEF r, S
  <2> QED
    BY <1>1, <1>4, <1>5, <2>1 DEF PollTyped
<1> QED
  <2> HIDE DEF r, S
  <2> QED
    BY <1>2, <1>3, <1>4, <1>5, <1>6

\* The record of a poll that has just read the watermark.
LEMMA StartedTyped ==
    ASSUME TypeOK, NEW p \in Pollers, PollReads(p)
    PROVE  LET r == poll'[p] IN
           /\ poll' = [poll EXCEPT ![p] = r]
           /\ PollTyped(r, now)
           /\ r.step = "fetch" /\ r.wm = cursor
<1> DEFINE r == [step |-> "fetch", wm |-> cursor, snaps |-> <<>>, loaded |-> <<>>,
                 seen |-> <<>>, current |-> 0]
<1>1. poll' = [poll EXCEPT ![p] = r] /\ DOMAIN poll = Pollers
  BY DEF PollReads, TypeOK
<1>2. poll'[p] = r
  BY <1>1
<1>3. DOMAIN r.snaps = {}
  OBVIOUS
<1>4. PollTyped(r, now)
  BY <1>3 DEF PollTyped, TypeOK
<1> QED
  BY <1>1, <1>2, <1>4

\* The task of a worker, typed.
LEMMA TaskTyped ==
    ASSUME TypeOK, NEW w \in Workers, task[w] # Idle
    PROVE  /\ task[w] \in TaskRecord
           /\ task[w].lead \in Leads /\ task[w].consumer \in Consumers
           /\ task[w].loaded \in Stages \union {NoStage}
           /\ task[w].stage \in Stages \union {NoStage}
<1>1. task[w] \in TaskRecord
  BY DEF TypeOK, TaskRecord
<1> QED
  BY <1>1 DEF TaskRecord

\* A step of one task that does not end it.
LEMMA OneTaskMoves ==
    ASSUME TypeOK, NEW w \in Workers, NEW r \in TaskRecord, task' = [task EXCEPT ![w] = r],
           UNCHANGED <<crmVars, mirror, announced, cursor, completed, busVars, poll, faults>>
    PROVE  TypeOK' /\ task'[w] = r
<1>1. TypeRest /\ \A p \in Pollers : poll[p] # Idle => PollTyped(poll[p], now)
  BY TypeParts
<1>2. TypeRest' /\ task'[w] = r
  BY <1>1 DEF TypeRest, crmVars, busVars
<1>3. \A p \in Pollers : (poll[p] # Idle => PollTyped(poll[p], now))'
  BY <1>1 DEF PollTyped, crmVars
<1> QED
  BY <1>2, <1>3, TypeParts DEF TypeOK, TypeRest, PollTyped, TaskRecord

\* The record of a task after its steps between the call and the commit.
LEMMA TaskSteps ==
    ASSUME TypeOK, NEW w \in Workers, HandlerLoads(w) \/ HandlerSaves(w)
    PROVE  LET r == task'[w] IN
           /\ task[w] # Idle /\ r \in TaskRecord
           /\ task' = [task EXCEPT ![w] = r]
           /\ r.lead = task[w].lead /\ r.stage = task[w].stage
           /\ HandlerLoads(w) => /\ task[w].step = "load" /\ r.step = "save"
                                 /\ r.loaded = mirror[r.lead]
           /\ HandlerSaves(w) => /\ task[w].step = "save" /\ r.step = "commit"
                                 /\ r.loaded = task[w].loaded
                                 /\ r.seen = Reread(r.lead, r.loaded)
<1>1. /\ task[w] # Idle /\ task[w] \in TaskRecord /\ DOMAIN task = Workers
      /\ mirror[task[w].lead] \in Stages \union {NoStage}
      /\ Reread(task[w].lead, task[w].loaded) \in Stages \union {NoStage}
  BY TaskTyped DEF HandlerLoads, HandlerSaves, TypeOK, Reread
<1>2. CASE HandlerLoads(w)
  <2> DEFINE loaded == mirror[task[w].lead]
             r == [task[w] EXCEPT !.step = "save", !.loaded = loaded]
  <2>1. task' = [task EXCEPT ![w] = r] /\ task[w].step = "load"
    BY <1>2 DEF HandlerLoads
  <2>2. /\ r \in TaskRecord /\ r.lead = task[w].lead /\ r.stage = task[w].stage
        /\ r.step = "save" /\ r.loaded = loaded
    <3> HIDE DEF loaded
    <3> QED
      BY <1>1 DEF TaskRecord, loaded
  <2>3. task'[w] = r /\ ~HandlerSaves(w)
    <3> HIDE DEF r
    <3> QED
      BY <1>1, <2>1 DEF HandlerSaves
  <2> HIDE DEF r
  <2> QED
    BY <1>1, <2>1, <2>2, <2>3
<1>3. CASE HandlerSaves(w)
  <2> DEFINE seen == Reread(task[w].lead, task[w].loaded)
             r == [task[w] EXCEPT !.step = "commit", !.seen = seen]
  <2>1. task' = [task EXCEPT ![w] = r] /\ task[w].step = "save"
    BY <1>3 DEF HandlerSaves
  <2>2. /\ r \in TaskRecord /\ r.lead = task[w].lead /\ r.stage = task[w].stage
        /\ r.step = "commit" /\ r.loaded = task[w].loaded /\ r.seen = seen
    <3> HIDE DEF seen
    <3> QED
      BY <1>1 DEF TaskRecord, seen
  <2>3. task'[w] = r /\ ~HandlerLoads(w)
    <3> HIDE DEF r
    <3> QED
      BY <1>1, <2>1 DEF HandlerLoads
  <2> HIDE DEF r
  <2> QED
    BY <1>1, <2>1, <2>2, <2>3
<1> QED
  BY <1>2, <1>3

\* A poll's committing step keeps types.
LEMMA PollCommitTyped ==
    ASSUME TypeOK, NEW p \in Pollers, PollCommits(p)
    PROVE  /\ mirror' \in [Leads -> Stages \union {NoStage}]
           /\ announced' \in [Leads -> Stages \union {NoStage}]
           /\ cursor' \in 0..now
<1> DEFINE snaps == poll[p].snaps
           loaded == poll[p].loaded
           seen == poll[p].seen
           wm == poll[p].wm
<1>1. PollTyped(poll[p], now) /\ poll[p].step = "commit"
  BY TypeParts DEF PollCommits
<1>2. ASSUME NEW l \in Leads, l \in Parsed(snaps)
      PROVE  /\ Upserted(l, seen[l], snaps[l].stage) \in Stages \union {NoStage}
             /\ Announced(l, loaded[l], snaps[l].stage) \in Stages \union {NoStage}
  <2>1. snaps[l].stage \in Stages
    BY <1>2 DEF Parsed
  <2> HIDE DEF snaps, loaded, seen
  <2> QED
    BY <2>1, UpsertTyped
<1>3. mirror' \in [Leads -> Stages \union {NoStage}]
      /\ announced' \in [Leads -> Stages \union {NoStage}]
  BY <1>2 DEF PollCommits, TypeOK
<1>4. MaxSeen(wm, snaps) \in 0..now
  <2>1. now \in Nat /\ wm \in 0..now /\ \A l \in DOMAIN snaps : snaps[l].at \in 1..now
    BY <1>1 DEF PollTyped, TypeOK
  <2> HIDE DEF snaps, wm
  <2> QED
    BY <2>1, MaxSeenBounds
<1>5. cursor' \in 0..now
  BY <1>4 DEF PollCommits, Advanced, TypeOK
<1> QED
  BY <1>3, <1>5

LEMMA TypeStep == IInv /\ [Next]_vars => TypeOK'
<1> SUFFICES ASSUME IInv, [Next]_vars PROVE TypeOK'
  OBVIOUS
<1>0. TypeOK /\ DealsHaveStages /\ TaskSound
  BY DEF IInv
<1> USE LeadSyncBoundsAssumption, StagesAssumption DEF crmVars, busVars
<1>1. ASSUME NEW l \in Leads, NEW s \in Stages \union BadStages, BrokerEdits(l, s)
      PROVE  TypeOK'
  <2>1. now' \in Nat /\ now' >= now /\ UNCHANGED poll
    BY <1>0, <1>1 DEF BrokerEdits, TypeOK
  <2>2. TypeRest'
    BY <1>0, <1>1 DEF BrokerEdits, TypeOK, TypeRest, TaskRecord
  <2> QED
    BY <1>0, <2>1, <2>2, PollsKeepType, TypeParts
       DEF TypeOK, TypeRest, PollTyped, TaskRecord
<1>2. ASSUME NEW l \in Leads, NEW s \in Stages, OperatorFixesName(l, s)
      PROVE  TypeOK'
  BY <1>0, <1>2 DEF OperatorFixesName, TypeOK
<1>3. ASSUME NEW l \in Leads, CompleteProfile(l) PROVE TypeOK'
  BY <1>0, <1>3 DEF CompleteProfile, TypeOK
<1>4. ASSUME NEW p \in Pollers, NEW r, poll' = [poll EXCEPT ![p] = r],
             r # Idle => PollTyped(r, now),
             UNCHANGED <<crmVars, mirror, announced, cursor, completed, busVars, task>>,
             faults' \in Nat
      PROVE  TypeOK'
  <2>1. /\ DOMAIN poll' = Pollers
        /\ \A q \in Pollers : (poll[q] # Idle => PollTyped(poll[q], now))'
    BY <1>0, <1>4, OnePollMoves
  <2> QED
    BY <1>0, <1>4, <2>1 DEF TypeOK, PollTyped
<1>5. ASSUME NEW p \in Pollers, PollReads(p) PROVE TypeOK'
  <2>1. /\ UNCHANGED <<crmVars, mirror, announced, cursor, completed, busVars, task>>
        /\ faults' \in Nat
    BY <1>0, <1>5 DEF PollReads, TypeOK
  <2>2. poll' = [poll EXCEPT ![p] = poll'[p]] /\ PollTyped(poll'[p], now)
    BY <1>0, <1>5, StartedTyped
  <2> QED
    BY <1>4, <2>1, <2>2
<1>6. ASSUME NEW p \in Pollers, PollFetches(p) PROVE TypeOK'
  <2>1. /\ UNCHANGED <<crmVars, mirror, announced, cursor, completed, busVars, task>>
        /\ faults' \in Nat
    BY <1>0, <1>6 DEF PollFetches, TypeOK
  <2>2. poll' = [poll EXCEPT ![p] = poll'[p]] /\ PollTyped(poll'[p], now)
    BY <1>0, <1>6, FetchedTyped
  <2> QED
    BY <1>4, <2>1, <2>2
<1>7. ASSUME NEW p \in Pollers, PollLoads(p) PROVE TypeOK'
  <2>1. /\ UNCHANGED <<crmVars, mirror, announced, cursor, completed, busVars, task>>
        /\ faults' \in Nat
    BY <1>0, <1>7 DEF PollLoads, TypeOK
  <2>2. poll' = [poll EXCEPT ![p] = poll'[p]] /\ PollTyped(poll'[p], now)
    BY <1>0, <1>7, LoadedTyped
  <2> QED
    BY <1>4, <2>1, <2>2
<1>20. ASSUME NEW p \in Pollers, PollSaves(p) PROVE TypeOK'
  <2>1. /\ UNCHANGED <<crmVars, mirror, announced, cursor, completed, busVars, task>>
        /\ faults' \in Nat
    BY <1>0, <1>20 DEF PollSaves, TypeOK
  <2>2. poll' = [poll EXCEPT ![p] = poll'[p]] /\ PollTyped(poll'[p], now)
    BY <1>0, <1>20, SavedTyped
  <2> QED
    BY <1>4, <2>1, <2>2
<1>8. ASSUME NEW p \in Pollers, PollRollsBack(p) \/ PollFails(p) PROVE TypeOK'
  <2>1. poll' = [poll EXCEPT ![p] = Idle] /\ faults' \in Nat
    BY <1>0, <1>8 DEF PollRollsBack, PollFails, TypeOK
  <2> QED
    BY <1>4, <1>8, <2>1 DEF PollRollsBack, PollFails
<1>9. ASSUME NEW p \in Pollers, PollCommits(p) PROVE TypeOK'
  <2>1. /\ DOMAIN poll' = Pollers
        /\ \A q \in Pollers : (poll[q] # Idle => PollTyped(poll[q], now))'
    BY <1>0, <1>9, OnePollMoves DEF PollCommits
  <2>2. /\ mirror' \in [Leads -> Stages \union {NoStage}]
        /\ announced' \in [Leads -> Stages \union {NoStage}]
        /\ cursor' \in 0..now
    BY <1>0, <1>9, PollCommitTyped
  <2>3. UNCHANGED <<crmVars, completed, busVars, task, faults>>
    BY <1>9 DEF PollCommits
  <2> QED
    BY <1>0, <2>1, <2>2, <2>3 DEF TypeOK, PollTyped
<1>10. ASSUME NEW w \in Workers, NEW c \in Consumers, NEW l \in Leads, HandlerTakes(w, c, l)
       PROVE  TypeOK'
  BY <1>0, <1>10, OneTaskMoves DEF HandlerTakes, TaskRecord
<1>19. ASSUME NEW w \in Workers, HandlerLoads(w) \/ HandlerSaves(w) PROVE TypeOK'
  <2>1. UNCHANGED <<crmVars, mirror, announced, cursor, completed, busVars, poll, faults>>
    BY <1>19 DEF HandlerLoads, HandlerSaves
  <2> QED
    BY <1>0, <1>19, <2>1, TaskSteps, OneTaskMoves
<1>11. ASSUME NEW w \in Workers, PushCalls(w) PROVE TypeOK'
  <2>1. now' \in Nat /\ now' >= now /\ UNCHANGED poll
    BY <1>0, <1>11 DEF PushCalls, TypeOK
  <2>2. task[w] # Idle
    BY <1>11 DEF PushCalls, At
  <2>3. task' \in [Workers -> {Idle} \union TaskRecord]
    <3>1. [task[w] EXCEPT !.step = "load", !.stage = Qualified] \in TaskRecord
      BY <1>0, <2>2, TaskTyped DEF TaskRecord
    <3>2. task' = [task EXCEPT ![w] = [task[w] EXCEPT !.step = "load", !.stage = Qualified]]
      BY <1>11 DEF PushCalls
    <3> QED
      BY <1>0, <3>1, <3>2 DEF TypeOK, TaskRecord
  <2>4. crm' \in [Leads -> [stage : Stages \union BadStages \union {NoStage}, at : 0..now']]
    <3>1. crm' = [crm EXCEPT ![task[w].lead] = [stage |-> Qualified, at |-> now']]
      BY <1>11 DEF PushCalls
    <3>2. \A l \in Leads : crm[l] \in [stage : Stages \union BadStages \union {NoStage}, at : 0..now']
      BY <1>0, <2>1 DEF TypeOK
    <3>3. crm = [l \in Leads |-> crm[l]]
      BY <1>0 DEF TypeOK
    <3>4. [stage |-> Qualified, at |-> now']
            \in [stage : Stages \union BadStages \union {NoStage}, at : 0..now']
      BY <2>1
    <3> QED
      BY <3>1, <3>2, <3>3, <3>4
  <2>5. TypeRest'
    BY <1>0, <1>11, <2>1, <2>3, <2>4 DEF PushCalls, TypeOK, TypeRest
  <2> QED
    BY <1>0, <2>1, <2>5, PollsKeepType, TypeParts
       DEF TypeOK, TypeRest, PollTyped, TaskRecord
<1>12. ASSUME NEW w \in Workers, ResyncCalls(w) PROVE TypeOK'
  <2>1. task[w] # Idle
    BY <1>12 DEF ResyncCalls, At
  <2> DEFINE s == crm[task[w].lead].stage
             r == [task[w] EXCEPT !.step = "load", !.stage = s]
  <2>2. r \in TaskRecord
    <3>1. s \in Stages
      BY <1>12 DEF ResyncCalls
    <3> HIDE DEF s
    <3> QED
      BY <1>0, <2>1, <3>1, TaskTyped DEF TaskRecord
  <2>3. /\ task' = [task EXCEPT ![w] = r]
        /\ UNCHANGED <<crmVars, mirror, announced, cursor, completed, busVars, poll, faults>>
    BY <1>12 DEF ResyncCalls
  <2> HIDE DEF r
  <2> QED
    BY <1>0, <2>2, <2>3, OneTaskMoves
<1>13. ASSUME NEW w \in Workers, ResyncRaises(w) PROVE TypeOK'
  BY <1>0, <1>13 DEF ResyncRaises, TypeOK
<1>14. ASSUME NEW w \in Workers, HandlerCommits(w) PROVE TypeOK'
  <2> DEFINE l == task[w].lead
  <2>1. /\ task[w].lead \in Leads /\ task[w].consumer \in Consumers
        /\ Upserted(l, task[w].seen, task[w].stage) \in Stages \union {NoStage}
        /\ Announced(l, task[w].loaded, task[w].stage) \in Stages \union {NoStage}
    <3>1. task[w] # Idle
      BY <1>14 DEF HandlerCommits
    <3> QED
      BY <1>0, <3>1, TaskTyped, UpsertTyped
  <2> QED
    BY <1>0, <1>14, <2>1 DEF HandlerCommits, Returns, TypeOK, Deliveries
<1>15. ASSUME NEW w \in Workers, GuardPasses(w) PROVE TypeOK'
  <2>1. task[w].lead \in Leads /\ task[w].consumer \in Consumers
    BY <1>0, <1>15, TaskTyped DEF GuardPasses
  <2> QED
    BY <1>0, <1>15, <2>1 DEF GuardPasses, Returns, TypeOK, Deliveries
<1>16. ASSUME NEW w \in Workers, HandlerFails(w) PROVE TypeOK'
  BY <1>0, <1>16 DEF HandlerFails, TypeOK
<1>17. ASSUME NEW w \in Workers, Acknowledge(w) \/ Crash(w) PROVE TypeOK'
  BY <1>0, <1>17 DEF Acknowledge, Crash, TypeOK
<1>18. CASE UNCHANGED vars
  BY <1>0, <1>18 DEF vars, TypeOK
<1> QED
  BY <1>1, <1>2, <1>3, <1>5, <1>6, <1>7, <1>8, <1>9, <1>10, <1>11, <1>12, <1>13,
     <1>14, <1>15, <1>16, <1>17, <1>18, <1>19, <1>20 DEF Next, PollStep, HandlerStep

-----------------------------------------------------------------------------
(* What a step does to each part of the state                               *)

\* wacrm's clock stamps every change of a deal, and a changed deal has a stage.
LEMMA WacrmMoves ==
    ASSUME TypeOK, [Next]_vars, NEW l \in Leads
    PROVE  /\ crm'[l].at = crm[l].at \/ crm'[l].at = now + 1
           /\ crm'[l] = crm[l] \/ crm'[l].stage \in Stages \union BadStages
<1> USE DEF crmVars, busVars
<1>0. /\ crm = [k \in Leads |-> crm[k]]
      /\ \A k \in Leads : crm[k] = [stage |-> crm[k].stage, at |-> crm[k].at]
  BY DEF TypeOK
<1>1. ASSUME NEW k \in Leads, NEW s \in Stages \union BadStages, NEW t \in {crm[k].at, now + 1},
             crm' = [crm EXCEPT ![k] = [stage |-> s, at |-> t]]
      PROVE  /\ crm'[l].at = crm[l].at \/ crm'[l].at = now + 1
             /\ crm'[l] = crm[l] \/ crm'[l].stage \in Stages \union BadStages
  <2>1. CASE l = k
    BY <1>0, <1>1, <2>1
  <2>2. CASE l # k
    BY <1>0, <1>1, <2>2
  <2> QED
    BY <2>1, <2>2
<1>2. ASSUME NEW k \in Leads, NEW s \in Stages \union BadStages, BrokerEdits(k, s)
      PROVE  crm' = [crm EXCEPT ![k] = [stage |-> s, at |-> now + 1]]
  BY <1>2 DEF BrokerEdits
<1>3. ASSUME NEW k \in Leads, NEW s \in Stages, OperatorFixesName(k, s)
      PROVE  crm' = [crm EXCEPT ![k] = [stage |-> s, at |-> crm[k].at]]
  <2>1. [crm[k] EXCEPT !.stage = s] = [stage |-> s, at |-> crm[k].at]
    BY <1>0
  <2> QED
    BY <1>3, <2>1 DEF OperatorFixesName
<1>4. ASSUME NEW w \in Workers, PushCalls(w)
      PROVE  /\ task[w].lead \in Leads /\ Qualified \in Stages
             /\ crm' = [crm EXCEPT ![task[w].lead] = [stage |-> Qualified, at |-> now + 1]]
  BY <1>4, TaskTyped, StagesAssumption DEF PushCalls, At
<1>5. CASE UNCHANGED crm
  BY <1>5
<1>6. ASSUME NEW w \in Workers, HandlerStep(w), ~PushCalls(w) PROVE UNCHANGED crm
  BY <1>6 DEF HandlerStep, HandlerTakes, HandlerLoads, HandlerSaves, ResyncCalls, ResyncRaises, HandlerCommits,
              GuardPasses, Returns, Acknowledge
<1>7. ASSUME NEW p \in Pollers, PollStep(p) \/ PollFails(p) PROVE UNCHANGED crm
  BY <1>7 DEF PollStep, PollReads, PollFetches, PollLoads, PollSaves, PollCommits, PollRollsBack, PollFails
<1>8. ASSUME NEW w \in Workers, HandlerFails(w) \/ Crash(w) PROVE UNCHANGED crm
  BY <1>8 DEF HandlerFails, Crash
<1>9. ASSUME NEW k \in Leads, CompleteProfile(k) PROVE UNCHANGED crm
  BY <1>9 DEF CompleteProfile
<1>10. CASE UNCHANGED vars
  BY <1>10 DEF vars
<1> QED
  BY <1>1, <1>2, <1>3, <1>4, <1>5, <1>6, <1>7, <1>8, <1>9, <1>10 DEF Next

\* The mirror and the events change only when a poll or a handler commits.
LEMMA WhoWritesTheMirror ==
    ASSUME [Next]_vars
    PROVE  \/ \E p \in Pollers : PollCommits(p)
           \/ \E w \in Workers : HandlerCommits(w)
           \/ UNCHANGED <<mirror, announced>>
<1>1. ASSUME NEW w \in Workers, HandlerStep(w), ~HandlerCommits(w)
      PROVE  UNCHANGED <<mirror, announced>>
  BY <1>1 DEF HandlerStep, HandlerTakes, HandlerLoads, HandlerSaves, PushCalls, ResyncCalls, ResyncRaises, GuardPasses,
              Acknowledge
<1>2. ASSUME NEW p \in Pollers, PollStep(p) \/ PollFails(p), ~PollCommits(p)
      PROVE  UNCHANGED <<mirror, announced>>
  BY <1>2 DEF PollStep, PollReads, PollFetches, PollLoads, PollSaves, PollRollsBack, PollFails
<1>3. ASSUME NEW w \in Workers, HandlerFails(w) \/ Crash(w) PROVE UNCHANGED <<mirror, announced>>
  BY <1>3 DEF HandlerFails, Crash
<1>4. ASSUME NEW l \in Leads, CompleteProfile(l) PROVE UNCHANGED <<mirror, announced>>
  BY <1>4 DEF CompleteProfile
<1>5. ASSUME NEW l \in Leads, NEW s, BrokerEdits(l, s) \/ OperatorFixesName(l, s)
      PROVE  UNCHANGED <<mirror, announced>>
  BY <1>5 DEF BrokerEdits, OperatorFixesName
<1>6. CASE UNCHANGED vars
  BY <1>6 DEF vars
<1> QED
  BY <1>1, <1>2, <1>3, <1>4, <1>5, <1>6 DEF Next

\* What a poll's commit leaves in one row and in its last event.
LEMMA PollWrites ==
    ASSUME TypeOK, NEW p \in Pollers, PollCommits(p), NEW l \in Leads
    PROVE  LET snaps == poll[p].snaps
               loaded == poll[p].loaded[l]
               s == poll[p].snaps[l].stage
           IN  /\ l \in Parsed(snaps) =>
                     /\ s \in Stages /\ ~Conflict(l, loaded) /\ l \in DOMAIN snaps
                     /\ mirror'[l] = Upserted(l, poll[p].seen[l], s)
                     /\ announced'[l] = Announced(l, loaded, s)
               /\ l \notin Parsed(snaps) => mirror'[l] = mirror[l] /\ announced'[l] = announced[l]
  BY DEF PollCommits, PollConflict, Parsed

\* What a handler's commit does.
LEMMA HandlerWrites ==
    ASSUME TypeOK, TaskSound, NEW w \in Workers, HandlerCommits(w), NEW l \in Leads
    PROVE  LET s == task[w].stage
           IN  /\ s \in Stages
               /\ l = task[w].lead => /\ mirror'[l] = Upserted(l, task[w].seen, s)
                                      /\ announced'[l] = Announced(l, task[w].loaded, s)
               /\ l # task[w].lead => mirror'[l] = mirror[l] /\ announced'[l] = announced[l]
  BY DEF HandlerCommits, TaskSound, TypeOK

\* A lead once mirrored stays mirrored.
LEMMA MirrorGrows ==
    ASSUME IInv, [Next]_vars, NEW l \in Leads, mirror[l] # NoStage
    PROVE  mirror'[l] # NoStage
<1>0. TypeOK /\ TaskSound
  BY DEF IInv
<1>1. ASSUME NEW p \in Pollers, PollCommits(p) PROVE mirror'[l] # NoStage
  BY <1>0, <1>1, PollWrites, StagesAssumption DEF Upserted
<1>2. ASSUME NEW w \in Workers, HandlerCommits(w) PROVE mirror'[l] # NoStage
  BY <1>0, <1>2, HandlerWrites, StagesAssumption DEF Upserted
<1> QED
  BY <1>1, <1>2, WhoWritesTheMirror

\* The watermark changes only when a poll commits.
LEMMA WhoMovesTheWatermark ==
    ASSUME [Next]_vars
    PROVE  UNCHANGED cursor \/ \E p \in Pollers : PollCommits(p)
<1>1. ASSUME NEW w \in Workers, HandlerStep(w) \/ HandlerFails(w) \/ Crash(w)
      PROVE  UNCHANGED cursor
  BY <1>1 DEF HandlerStep, HandlerTakes, HandlerLoads, HandlerSaves, PushCalls, ResyncCalls, ResyncRaises, HandlerCommits,
              GuardPasses, Returns, Acknowledge, HandlerFails, Crash
<1>2. ASSUME NEW p \in Pollers, PollStep(p) \/ PollFails(p)
      PROVE  PollCommits(p) \/ UNCHANGED cursor
  BY <1>2 DEF PollStep, PollReads, PollFetches, PollLoads, PollSaves, PollCommits, PollRollsBack, PollFails
<1>3. ASSUME NEW l \in Leads, NEW s, BrokerEdits(l, s) \/ OperatorFixesName(l, s)
      PROVE  UNCHANGED cursor
  BY <1>3 DEF BrokerEdits, OperatorFixesName
<1>4. ASSUME NEW l \in Leads, CompleteProfile(l) PROVE UNCHANGED cursor
  BY <1>4 DEF CompleteProfile
<1>5. CASE UNCHANGED vars
  BY <1>5 DEF vars
<1> QED
  BY <1>1, <1>2, <1>3, <1>4, <1>5 DEF Next

\* A poll stays, ends, or takes one of its steps to the commit.
LEMMA HowPollsMove ==
    ASSUME TypeOK, [Next]_vars, NEW p \in Pollers
    PROVE  \/ poll'[p] \in {poll[p], Idle}
           \/ PollReads(p) \/ PollFetches(p) \/ PollLoads(p) \/ PollSaves(p)
<1>1. ASSUME NEW w \in Workers, HandlerStep(w) \/ HandlerFails(w) \/ Crash(w) PROVE UNCHANGED poll
  BY <1>1 DEF HandlerStep, HandlerTakes, HandlerLoads, HandlerSaves, PushCalls, ResyncCalls, ResyncRaises, HandlerCommits,
              GuardPasses, Returns, Acknowledge, HandlerFails, Crash
<1>2. ASSUME NEW q \in Pollers, PollStep(q) \/ PollFails(q)
      PROVE  \/ poll'[p] \in {poll[p], Idle}
             \/ PollReads(p) \/ PollFetches(p) \/ PollLoads(p) \/ PollSaves(p)
  <2>1. CASE q = p
    BY <1>2, <2>1 DEF PollStep, PollCommits, PollRollsBack, PollFails, TypeOK
  <2>2. CASE q # p
    BY <1>2, <2>2 DEF PollStep, PollReads, PollFetches, PollLoads, PollSaves, PollCommits, PollRollsBack,
                      PollFails, TypeOK
  <2> QED
    BY <2>1, <2>2
<1>3. ASSUME NEW l \in Leads, NEW s, BrokerEdits(l, s) \/ OperatorFixesName(l, s) \/ CompleteProfile(l)
      PROVE  UNCHANGED poll
  BY <1>3 DEF BrokerEdits, OperatorFixesName, CompleteProfile
<1>4. CASE UNCHANGED vars
  BY <1>4 DEF vars
<1> QED
  BY <1>1, <1>2, <1>3, <1>4 DEF Next

\* A task stays, ends, begins, hears from wacrm, or reads a row.
LEMMA HowTasksMove ==
    ASSUME TypeOK, [Next]_vars, NEW w \in Workers
    PROVE  \/ task'[w] \in {task[w], Idle}
           \/ PushCalls(w) \/ ResyncCalls(w) \/ HandlerLoads(w) \/ HandlerSaves(w)
           \/ \E c \in Consumers, l \in Leads : HandlerTakes(w, c, l)
<1>0. DOMAIN task = Workers
  BY DEF TypeOK
<1>1. ASSUME NEW v \in Workers, HandlerStep(v) \/ HandlerFails(v) \/ Crash(v)
      PROVE  \/ task'[w] \in {task[w], Idle}
             \/ PushCalls(w) \/ ResyncCalls(w) \/ HandlerLoads(w) \/ HandlerSaves(w)
             \/ \E c \in Consumers, l \in Leads : HandlerTakes(w, c, l)
  <2>1. CASE v = w
    BY <1>0, <1>1, <2>1 DEF HandlerStep, ResyncRaises, HandlerCommits, GuardPasses, Returns,
                            Acknowledge, HandlerFails, Crash
  <2>2. CASE v # w
    BY <1>0, <1>1, <2>2 DEF HandlerStep, HandlerTakes, HandlerLoads, HandlerSaves, PushCalls, ResyncCalls, ResyncRaises,
                            HandlerCommits, GuardPasses, Returns, Acknowledge, HandlerFails, Crash
  <2> QED
    BY <2>1, <2>2
<1>2. ASSUME NEW p \in Pollers, PollStep(p) \/ PollFails(p) PROVE UNCHANGED task
  BY <1>2 DEF PollStep, PollReads, PollFetches, PollLoads, PollSaves, PollCommits, PollRollsBack, PollFails
<1>3. ASSUME NEW l \in Leads, NEW s, BrokerEdits(l, s) \/ OperatorFixesName(l, s) \/ CompleteProfile(l)
      PROVE  UNCHANGED task
  BY <1>3 DEF BrokerEdits, OperatorFixesName, CompleteProfile
<1>4. ASSUME UNCHANGED vars PROVE UNCHANGED task
  BY <1>4 DEF vars
<1> QED
  BY <1>1, <1>2, <1>3, <1>4 DEF Next

-----------------------------------------------------------------------------
(* Each part of the invariant is preserved                                  *)

LEMMA StagesStep == IInv /\ [Next]_vars => DealsHaveStages'
<1> SUFFICES ASSUME IInv, [Next]_vars, NEW l \in Leads, crm'[l].at > 0
             PROVE  crm'[l].stage # NoStage
  BY DEF DealsHaveStages
<1>1. crm'[l] = crm[l] \/ crm'[l].stage \in Stages \union BadStages
  BY WacrmMoves DEF IInv
<1> QED
  BY <1>1, StagesAssumption DEF IInv, DealsHaveStages

LEMMA PollStepSound == IInv /\ [Next]_vars => PollSound'
<1> SUFFICES ASSUME IInv, [Next]_vars, NEW p \in Pollers, poll'[p] # Idle
             PROVE  SoundPoll(poll[p])'
  BY DEF PollSound
<1>0. TypeOK /\ DealsHaveStages /\ PollSound /\ WatermarkNeverPassesSkipped
      /\ now \in Nat /\ cursor \in 0..now
  BY DEF IInv, TypeOK
<1>1. CASE poll'[p] = poll[p]
  <2>1. PollTyped(poll[p], now) /\ SoundPoll(poll[p])
    BY <1>0, <1>1, TypeParts DEF PollSound
  <2>2. \A l \in Leads : crm[l].at \in 0..now /\ (crm'[l].at = crm[l].at \/ crm'[l].at = now + 1)
    BY <1>0, WacrmMoves DEF TypeOK
  <2>3. \A l \in Leads : mirror[l] # NoStage => mirror'[l] # NoStage
    BY MirrorGrows
  <2> DEFINE r == poll[p]
  <2>4. /\ r.wm \in 0..now /\ DOMAIN r.snaps \subseteq Leads
        /\ \A k \in DOMAIN r.snaps : r.snaps[k].at \in 1..now
    BY <2>1 DEF PollTyped
  <2>5. \A l \in Leads : crm'[l].at \in 1..r.wm => mirror'[l] # NoStage
    <3> SUFFICES ASSUME NEW l \in Leads, crm'[l].at \in 1..r.wm PROVE mirror[l] # NoStage
      BY <2>3
    <3> HIDE DEF r
    <3>1. crm'[l].at = crm[l].at
      BY <1>0, <2>2, <2>4
    <3> QED
      BY <2>1, <3>1 DEF SoundPoll, r
  <2>6. ASSUME NEW l \in Leads, r.step # "fetch"
        PROVE  \/ crm'[l].at <= r.wm
               \/ l \in DOMAIN r.snaps /\ crm'[l].at = r.snaps[l].at
               \/ \A k \in DOMAIN r.snaps : crm'[l].at > r.snaps[k].at
    <3>1. CASE crm'[l].at = crm[l].at
      BY <2>1, <2>6, <3>1 DEF SoundPoll
    <3>2. CASE crm'[l].at = now + 1
      <4> HIDE DEF r
      <4> QED
        BY <1>0, <2>4, <3>2
    <3> QED
      BY <2>2, <3>1, <3>2
  <2>7. r.step \in {"save", "commit"} => \A l \in DOMAIN r.snaps :
            r.loaded[l] # NoStage => mirror'[l] # NoStage
    BY <2>1, <2>3, <2>4 DEF SoundPoll
  <2> QED
    BY <1>1, <2>1, <2>5, <2>6, <2>7 DEF SoundPoll
<1>2. CASE PollReads(p)
  <2>1. poll'[p].step = "fetch" /\ poll'[p].wm = cursor
    BY <1>0, <1>2, StartedTyped
  <2>2. UNCHANGED <<crm, mirror>>
    BY <1>2 DEF PollReads, crmVars
  <2> QED
    BY <1>0, <2>1, <2>2 DEF SoundPoll, WatermarkNeverPassesSkipped
<1>3. CASE PollFetches(p)
  <2> DEFINE r == poll'[p]
  <2>1. /\ r.step = "load" /\ r.wm = poll[p].wm
        /\ DOMAIN r.snaps = {l \in Leads : crm[l].at > poll[p].wm}
        /\ \A l \in DOMAIN r.snaps : r.snaps[l] = crm[l]
    BY <1>0, <1>3, FetchedTyped
  <2>2. UNCHANGED <<crm, mirror>>
    BY <1>3 DEF PollFetches, crmVars
  <2>3. SoundPoll(poll[p]) /\ PollTyped(poll[p], now)
    BY <1>0, <1>3, TypeParts DEF PollSound, PollFetches
  <2>4. \A l \in Leads : crm[l].at \in Nat
    BY <1>0 DEF TypeOK
  <2>5. poll[p].wm \in Nat
    BY <1>0, <2>3 DEF PollTyped
  <2> HIDE DEF r
  <2>6. \A l \in Leads : crm[l].at <= r.wm \/ (l \in DOMAIN r.snaps /\ crm[l].at = r.snaps[l].at)
    BY <2>1, <2>4, <2>5
  <2>7. \A l \in Leads : crm[l].at \in 1..r.wm => mirror[l] # NoStage
    BY <2>1, <2>3 DEF SoundPoll
  <2> QED
    BY <2>1, <2>2, <2>6, <2>7 DEF SoundPoll, r
<1>4. CASE PollLoads(p)
  <2> DEFINE r == poll'[p]
  <2>1. /\ r.step = "save" /\ r.wm = poll[p].wm /\ r.snaps = poll[p].snaps
        /\ \A l \in DOMAIN r.snaps : r.loaded[l] = mirror[l]
    BY <1>0, <1>4, LoadedTyped
  <2>2. UNCHANGED <<crm, mirror>>
    BY <1>4 DEF PollLoads, crmVars
  <2>3. SoundPoll(poll[p]) /\ poll[p].step = "load"
    BY <1>0, <1>4 DEF PollSound, PollLoads
  <2> HIDE DEF r
  <2> QED
    BY <2>1, <2>2, <2>3 DEF SoundPoll, r
<1>5. CASE PollSaves(p)
  <2> DEFINE r == poll'[p]
  <2>1. /\ r.step = "commit" /\ r.wm = poll[p].wm /\ r.snaps = poll[p].snaps
        /\ r.loaded = poll[p].loaded
        /\ \A l \in DOMAIN r.snaps : r.seen[l] = Reread(l, r.loaded[l])
    BY <1>0, <1>5, SavedTyped
  <2>2. UNCHANGED <<crm, mirror>>
    BY <1>5 DEF PollSaves, crmVars
  <2>3. SoundPoll(poll[p]) /\ poll[p].step = "save"
    BY <1>0, <1>5 DEF PollSound, PollSaves
  <2> HIDE DEF r
  <2> QED
    BY <2>1, <2>2, <2>3 DEF SoundPoll, r, Reread
<1> QED
  BY <1>0, <1>1, <1>2, <1>3, <1>4, <1>5, HowPollsMove

LEMMA TaskStepSound == IInv /\ [Next]_vars => TaskSound'
<1> SUFFICES ASSUME IInv, [Next]_vars, NEW w \in Workers, task'[w] # Idle, task'[w].step # "call"
             PROVE  task'[w].stage \in Stages
  BY DEF TaskSound
<1>0. TypeOK /\ TaskSound /\ DOMAIN task = Workers
  BY DEF IInv, TypeOK
<1>1. CASE task'[w] = task[w]
  BY <1>0, <1>1 DEF TaskSound
<1>2. ASSUME NEW c \in Consumers, NEW l \in Leads, HandlerTakes(w, c, l)
      PROVE  FALSE
  BY <1>0, <1>2 DEF HandlerTakes
<1>3. ASSUME PushCalls(w) \/ ResyncCalls(w)
      PROVE  task'[w].stage \in Stages
  <2>1. task[w] # Idle
    BY <1>3 DEF PushCalls, ResyncCalls, At
  <2>2. PICK s \in Stages : task' = [task EXCEPT ![w] = [task[w] EXCEPT !.step = "load", !.stage = s]]
    BY <1>3, StagesAssumption DEF PushCalls, ResyncCalls
  <2>3. task'[w] = [task[w] EXCEPT !.step = "load", !.stage = s]
    BY <1>0, <2>2
  <2> QED
    BY <1>0, <2>1, <2>3, TaskTyped DEF TaskRecord
<1>4. ASSUME HandlerLoads(w) \/ HandlerSaves(w)
      PROVE  task'[w].stage \in Stages
  <2>1. /\ task[w] # Idle /\ task[w].step # "call" /\ task'[w].stage = task[w].stage
    BY <1>0, <1>4, TaskSteps
  <2> QED
    BY <1>0, <2>1 DEF TaskSound
<1> QED
  BY <1>0, <1>1, <1>2, <1>3, <1>4, HowTasksMove

\* The new watermark of a committing poll, case by case over what the poll knows
\* of the deal.
LEMMA CommitIsSafe ==
    ASSUME IInv, NEW p \in Pollers, PollCommits(p), NEW l \in Leads,
           mirror[l] # NoStage => mirror'[l] # NoStage, crm[l].at \in 1..cursor'
    PROVE  mirror'[l] # NoStage
<1> DEFINE snaps == poll[p].snaps
           wm == poll[p].wm
           max == MaxSeen(wm, snaps)
<1>1. TypeOK /\ PollTyped(poll[p], now) /\ SoundPoll(poll[p]) /\ poll[p].step = "commit"
      /\ WatermarkNeverPassesSkipped
  BY TypeParts DEF IInv, PollSound, PollCommits
<1>2. now \in Nat /\ wm \in 0..now /\ crm[l].at \in 0..now
      /\ \A k \in DOMAIN snaps : snaps[k].at \in 1..now
  BY <1>1 DEF PollTyped, TypeOK
<1>3. /\ max \in 0..now
      /\ max <= wm \/ \E k \in DOMAIN snaps : max <= snaps[k].at
      /\ \A k \in DOMAIN snaps \ Parsed(snaps) : max < snaps[k].at
  <2> HIDE DEF snaps, wm
  <2> QED
    BY <1>2, MaxSeenBounds
<1>4. CASE cursor' = cursor
  BY <1>1, <1>4 DEF WatermarkNeverPassesSkipped
<1>5. CASE cursor' = max
  <2>1. CASE crm[l].at <= wm
    <3>1. crm[l].at \in 1..wm
      <4> HIDE DEF wm
      <4> QED
        BY <1>2, <2>1
    <3> QED
      BY <1>1, <3>1 DEF SoundPoll
  <2>2. CASE l \in DOMAIN snaps /\ crm[l].at = snaps[l].at
    <3>1. l \in Parsed(snaps)
      <4> HIDE DEF max, snaps
      <4> QED
        BY <1>2, <1>3, <1>5, <2>2
    <3>2. snaps[l].stage \in Stages /\ mirror'[l] = Upserted(l, poll[p].seen[l], snaps[l].stage)
      BY <1>1, <3>1, PollWrites
    <3>3. /\ poll[p].loaded[l] # NoStage => mirror[l] # NoStage
          /\ poll[p].loaded[l] = NoStage => poll[p].seen[l] = NoStage
      BY <1>1, <2>2 DEF SoundPoll
    <3> QED
      BY <3>2, <3>3, StagesAssumption DEF Upserted
  <2>3. CASE \A k \in DOMAIN snaps : crm[l].at > snaps[k].at
    <3>1. crm[l].at <= wm
      <4> HIDE DEF max, snaps, wm
      <4> QED
        BY <1>2, <1>3, <1>5, <2>3
    <3> QED
      BY <2>1, <3>1
  <2> QED
    BY <1>1, <2>1, <2>2, <2>3 DEF SoundPoll
<1>6. cursor' \in {cursor, max}
  BY DEF PollCommits, Advanced
<1> QED
  BY <1>4, <1>5, <1>6

LEMMA WatermarkStep == IInv /\ [Next]_vars => WatermarkNeverPassesSkipped'
<1> SUFFICES ASSUME IInv, [Next]_vars, NEW l \in Leads, crm'[l].at \in 1..cursor'
             PROVE  mirror'[l] # NoStage
  BY DEF WatermarkNeverPassesSkipped
<1>1. ASSUME NEW p \in Pollers, PollCommits(p) PROVE mirror'[l] # NoStage
  <2>1. UNCHANGED crm
    BY <1>1 DEF PollCommits, crmVars
  <2>2. mirror[l] # NoStage => mirror'[l] # NoStage
    BY MirrorGrows
  <2>3. crm[l].at \in 1..cursor'
    BY <2>1
  <2> QED
    BY <1>1, <2>2, <2>3, CommitIsSafe
<1>2. CASE UNCHANGED cursor
  <2>1. now \in Nat /\ cursor \in 0..now /\ (crm'[l].at = crm[l].at \/ crm'[l].at = now + 1)
    BY WacrmMoves DEF IInv, TypeOK
  <2>2. crm[l].at \in 1..cursor
    BY <1>2, <2>1
  <2> QED
    BY <2>2, MirrorGrows DEF IInv, WatermarkNeverPassesSkipped
<1> QED
  BY <1>1, <1>2, WhoMovesTheWatermark

-----------------------------------------------------------------------------
(* The theorems                                                             *)

LEMMA Initially == Init => IInv
  BY StagesAssumption
  DEF Init, IInv, TypeOK, DealsHaveStages, PollSound, TaskSound,
      WatermarkNeverPassesSkipped

LEMMA Inductive == IInv /\ [Next]_vars => IInv'
  BY TypeStep, StagesStep, PollStepSound, TaskStepSound, WatermarkStep DEF IInv

LEMMA AlwaysIInv == Spec => []IInv
  BY Initially, Inductive, PTL DEF Spec

\* The variables keep their types, whatever polls and handlers overlap.
THEOREM TypeCorrect == Spec => []TypeOK
<1>1. IInv => TypeOK
  BY DEF IInv
<1> QED
  BY <1>1, AlwaysIInv, PTL

\* poll_once's promise about its watermark, for any number of replicas polling,
\* any handlers of ProfileCompleted and any failures: a deal the watermark has
\* passed is in the mirror.
THEOREM WatermarkIsSafe == Spec => []WatermarkNeverPassesSkipped
<1>1. IInv => WatermarkNeverPassesSkipped
  BY DEF IInv
<1> QED
  BY <1>1, AlwaysIInv, PTL

-----------------------------------------------------------------------------
(* Polls that overlap no other writer                                       *)

\* While a poll is in progress there is no other, and no handler of ProfileCompleted.
PollsAlone ==
    \A p \in Pollers : poll[p] # Idle =>
        /\ \A q \in Pollers : poll[q] # Idle => q = p
        /\ \A w \in Workers : task[w] = Idle

\* A deal is behind the watermark and was not fetched; or was fetched in its
\* present version, whose name may have been repaired; or has moved on since.
AlonePoll(r) ==
    /\ r.wm = cursor
    /\ r.step # "fetch" => \A l \in Leads :
          \/ crm[l].at <= r.wm /\ l \notin DOMAIN r.snaps
          \/ /\ crm[l].at > r.wm
             /\ l \in DOMAIN r.snaps
             /\ crm[l].at = r.snaps[l].at
             /\ crm[l].stage = r.snaps[l].stage \/ r.snaps[l].stage \in BadStages
          \/ crm[l].at > r.wm /\ \A k \in DOMAIN r.snaps : crm[l].at > r.snaps[k].at
    /\ r.step \in {"save", "commit"} => \A l \in DOMAIN r.snaps : r.loaded[l] = mirror[l]
    /\ r.step = "commit" => \A l \in DOMAIN r.snaps : r.seen[l] = mirror[l]
    /\ r.step = "commit" => r.current = cursor

\* The row a handler has loaded is the row it will write over; what it heard is the
\* stage of the deal, unless the deal has moved past the watermark since.
FreshTask(t) ==
    /\ t.step \in {"save", "commit"} => t.loaded = mirror[t.lead]
    /\ t.step = "commit" => t.seen = mirror[t.lead]
    /\ t.step # "call" /\ crm[t.lead].at \in 1..cursor => t.stage = crm[t.lead].stage

\* The bus gives a lead to one handler at a time.
OneTaskEach ==
    \A v, w \in Workers :
        task[v] # Idle /\ task[w] # Idle /\ task[v].lead = task[w].lead => v = w

AloneInv ==
    /\ IInv
    /\ CursorMeansSynced
    /\ StageEventsMatchMirror
    /\ \A p \in Pollers : poll[p] # Idle => AlonePoll(poll[p])
    /\ \A w \in Workers : task[w] # Idle => FreshTask(task[w])
    /\ OneTaskEach

\* How a deal changes: its clock moves unless an operator repairs a name.
LEMMA HowDealsMove ==
    ASSUME TypeOK, [Next]_vars, NEW l \in Leads
    PROVE  \/ crm'[l] = crm[l]
           \/ crm'[l].at = now + 1
           \/ crm[l].stage \in BadStages /\ crm'[l].at = crm[l].at
<1>1. ASSUME NEW k \in Leads, NEW s, BrokerEdits(k, s)
      PROVE  crm'[l] = crm[l] \/ crm'[l].at = now + 1
  BY <1>1 DEF BrokerEdits, TypeOK
<1>2. ASSUME NEW k \in Leads, NEW s \in Stages, OperatorFixesName(k, s)
      PROVE  crm'[l] = crm[l] \/ (crm[l].stage \in BadStages /\ crm'[l].at = crm[l].at)
  <2>1. crm[k] \in [stage : Stages \union BadStages \union {NoStage}, at : 0..now]
    BY DEF TypeOK
  <2>2. [crm[k] EXCEPT !.stage = s].at = crm[k].at
    BY <2>1
  <2>3. CASE l = k
    BY <1>2, <2>2, <2>3 DEF OperatorFixesName, TypeOK
  <2>4. CASE l # k
    BY <1>2, <2>4 DEF OperatorFixesName, TypeOK
  <2> QED
    BY <2>3, <2>4
<1>3. ASSUME NEW p \in Pollers, PollStep(p) \/ PollFails(p) PROVE UNCHANGED crm
  BY <1>3 DEF PollStep, PollReads, PollFetches, PollLoads, PollSaves, PollCommits, PollRollsBack, PollFails,
              crmVars
<1>4. ASSUME NEW k \in Leads, CompleteProfile(k) PROVE UNCHANGED crm
  BY <1>4 DEF CompleteProfile, crmVars
<1>5. ASSUME UNCHANGED vars PROVE UNCHANGED crm
  BY <1>5 DEF vars
<1>6. ASSUME NEW w \in Workers, PushCalls(w) PROVE crm'[l] = crm[l] \/ crm'[l].at = now + 1
  BY <1>6 DEF PushCalls, TypeOK
<1>7. ASSUME NEW w \in Workers, HandlerStep(w) \/ HandlerFails(w) \/ Crash(w), ~PushCalls(w)
      PROVE  UNCHANGED crm
  BY <1>7 DEF HandlerStep, HandlerTakes, HandlerLoads, HandlerSaves, ResyncCalls, ResyncRaises, HandlerCommits,
              GuardPasses, Returns, Acknowledge, HandlerFails, Crash, crmVars
<1> QED
  BY <1>1, <1>2, <1>3, <1>4, <1>5, <1>6, <1>7 DEF Next

\* What the commit of such a poll means for one deal.
LEMMA AloneCommit ==
    ASSUME AloneInv, NEW p \in Pollers, PollCommits(p), NEW l \in Leads,
           crm[l].at \in 1..cursor'
    PROVE  mirror'[l] = crm[l].stage
<1> DEFINE snaps == poll[p].snaps
           wm == poll[p].wm
           max == MaxSeen(wm, snaps)
<1>1. TypeOK /\ PollTyped(poll[p], now) /\ AlonePoll(poll[p]) /\ poll[p].step = "commit"
      /\ CursorMeansSynced
  BY TypeParts DEF AloneInv, IInv, PollCommits
<1>2. now \in Nat /\ wm \in 0..now /\ crm[l].at \in 0..now /\ wm = cursor
      /\ \A k \in DOMAIN snaps : snaps[k].at \in 1..now
  BY <1>1 DEF PollTyped, TypeOK, AlonePoll
<1>3. /\ max \in 0..now
      /\ max <= wm \/ \E k \in DOMAIN snaps : max <= snaps[k].at
      /\ \A k \in DOMAIN snaps \ Parsed(snaps) : max < snaps[k].at
  <2> HIDE DEF snaps, wm
  <2> QED
    BY <1>2, MaxSeenBounds
<1>4. cursor' \in {wm, max} /\ (max <= wm => cursor' = wm)
  BY <1>1, <1>2, <1>3 DEF PollCommits, Advanced, AlonePoll
<1>5. CASE crm[l].at <= wm /\ l \notin DOMAIN snaps
  <2>1. crm[l].at \in 1..cursor
    <3> HIDE DEF wm, max
    <3> QED
      BY <1>2, <1>5
  <2>2. mirror'[l] = mirror[l]
    <3>1. l \notin Parsed(snaps)
      BY <1>5 DEF Parsed
    <3> QED
      BY <1>1, <3>1, PollWrites
  <2> QED
    BY <1>1, <2>1, <2>2 DEF CursorMeansSynced
<1>6. CASE /\ crm[l].at > wm
           /\ l \in DOMAIN snaps
           /\ crm[l].at = snaps[l].at
           /\ crm[l].stage = snaps[l].stage \/ snaps[l].stage \in BadStages
  <2>1. l \in Parsed(snaps)
    <3> HIDE DEF wm, max, snaps
    <3> QED
      BY <1>2, <1>3, <1>4, <1>6
  <2>2. /\ snaps[l].stage \in Stages
        /\ mirror'[l] = Upserted(l, poll[p].seen[l], snaps[l].stage)
    BY <1>1, <2>1, PollWrites
  <2>3. poll[p].seen[l] = mirror[l]
    BY <1>1, <1>6 DEF AlonePoll
  <2> QED
    BY <1>6, <2>2, <2>3, StagesAssumption DEF Upserted
<1>7. CASE crm[l].at > wm /\ \A k \in DOMAIN snaps : crm[l].at > snaps[k].at
  <2> HIDE DEF wm, max, snaps
  <2> QED
    BY <1>2, <1>3, <1>4, <1>7
<1> QED
  BY <1>1, <1>5, <1>6, <1>7 DEF AlonePoll

LEMMA SyncedStep == AloneInv /\ [Next]_vars => CursorMeansSynced'
<1> SUFFICES ASSUME AloneInv, [Next]_vars, NEW l \in Leads, crm'[l].at \in 1..cursor'
             PROVE  mirror'[l] = crm'[l].stage
  BY DEF CursorMeansSynced
<1>1. ASSUME NEW p \in Pollers, PollCommits(p) PROVE mirror'[l] = crm'[l].stage
  <2>1. UNCHANGED crm
    BY <1>1 DEF PollCommits, crmVars
  <2>2. crm[l].at \in 1..cursor'
    BY <2>1
  <2> QED
    BY <1>1, <2>1, <2>2, AloneCommit
<1>2. CASE UNCHANGED <<cursor, mirror>>
  <2>0. TypeOK /\ CursorMeansSynced /\ now \in Nat /\ cursor \in 0..now
    BY DEF AloneInv, IInv, TypeOK
  <2>1. crm'[l] = crm[l] \/ (crm[l].stage \in BadStages /\ crm'[l].at = crm[l].at)
    BY <1>2, <2>0, HowDealsMove
  <2>2. crm[l].at \in 1..cursor
    BY <1>2, <2>1
  <2>3. mirror[l] = crm[l].stage /\ mirror[l] \in Stages \union {NoStage}
    BY <2>0, <2>2 DEF CursorMeansSynced, TypeOK
  <2> QED
    BY <1>2, <2>1, <2>3, StagesAssumption
<1>3. ASSUME NEW w \in Workers, HandlerCommits(w) PROVE mirror'[l] = crm'[l].stage
  <2>1. TypeOK /\ TaskSound /\ FreshTask(task[w]) /\ task[w].step = "commit" /\ CursorMeansSynced
    BY <1>3 DEF AloneInv, IInv, HandlerCommits
  <2>2. UNCHANGED <<crm, cursor>>
    BY <1>3 DEF HandlerCommits, Returns, crmVars
  <2>3. CASE l = task[w].lead
    <3>1. mirror'[l] = Upserted(l, task[w].seen, task[w].stage)
      BY <1>3, <2>1, <2>3, HandlerWrites
    <3>2. task[w].seen = mirror[l] /\ task[w].stage = crm[l].stage
      BY <2>1, <2>2, <2>3 DEF FreshTask
    <3> QED
      BY <2>2, <3>1, <3>2 DEF Upserted
  <2>4. CASE l # task[w].lead
    <3>1. mirror'[l] = mirror[l]
      BY <1>3, <2>1, <2>4, HandlerWrites
    <3> QED
      BY <2>1, <2>2, <3>1 DEF CursorMeansSynced
  <2> QED
    BY <2>3, <2>4
<1> QED
  BY <1>1, <1>2, <1>3, WhoWritesTheMirror, WhoMovesTheWatermark

\* With what it loaded and saw as the mirror has it, a transaction writes a stage and
\* announces it, or does neither.
LEMMA ToldEvents == AloneInv /\ [Next]_vars => StageEventsMatchMirror'
<1> SUFFICES ASSUME AloneInv, [Next]_vars, NEW l \in Leads, announced'[l] # NoStage
             PROVE  announced'[l] = mirror'[l]
  BY DEF StageEventsMatchMirror
<1>0. TypeOK /\ TaskSound /\ (announced[l] # NoStage => announced[l] = mirror[l])
  BY DEF AloneInv, IInv, StageEventsMatchMirror
<1>1. ASSUME NEW p \in Pollers, PollCommits(p) PROVE announced'[l] = mirror'[l]
  <2>1. AlonePoll(poll[p]) /\ poll[p].step = "commit"
    BY <1>1 DEF AloneInv, PollCommits
  <2>2. CASE l \in Parsed(poll[p].snaps)
    <3>1. poll[p].loaded[l] = mirror[l] /\ poll[p].seen[l] = mirror[l]
      BY <2>1, <2>2 DEF AlonePoll, Parsed
    <3> QED
      BY <1>0, <1>1, <2>2, <3>1, PollWrites DEF Upserted, Announced
  <2>3. CASE l \notin Parsed(poll[p].snaps)
    BY <1>0, <1>1, <2>3, PollWrites
  <2> QED
    BY <2>2, <2>3
<1>2. ASSUME NEW w \in Workers, HandlerCommits(w) PROVE announced'[l] = mirror'[l]
  <2>1. FreshTask(task[w]) /\ task[w].step = "commit"
    BY <1>2 DEF AloneInv, HandlerCommits
  <2>2. CASE l = task[w].lead
    <3>1. task[w].loaded = mirror[l] /\ task[w].seen = mirror[l]
      BY <2>1, <2>2 DEF FreshTask
    <3> QED
      BY <1>0, <1>2, <2>2, <3>1, HandlerWrites DEF Upserted, Announced
  <2>3. CASE l # task[w].lead
    BY <1>0, <1>2, <2>3, HandlerWrites
  <2> QED
    BY <2>2, <2>3
<1> QED
  BY <1>0, <1>1, <1>2, WhoWritesTheMirror

LEMMA AlonePollStep ==
    ASSUME PollsAlone, AloneInv, [Next]_vars, NEW p \in Pollers, poll'[p] # Idle
    PROVE  AlonePoll(poll[p])'
<1>0. TypeOK /\ DealsHaveStages /\ now \in Nat /\ cursor \in 0..now
      /\ (poll[p] # Idle => AlonePoll(poll[p]) /\ PollTyped(poll[p], now))
  BY TypeParts DEF AloneInv, IInv, TypeOK
<1>1. UNCHANGED <<cursor, mirror>>
  <2>1. CASE poll[p] = Idle
    <3>1. PollReads(p)
      BY <1>0, <2>1, HowPollsMove DEF PollFetches, PollLoads, PollSaves
    <3> QED
      BY <3>1 DEF PollReads
  <2>2. CASE poll[p] # Idle
    <3>1. ASSUME NEW q \in Pollers, PollCommits(q) PROVE FALSE
      <4>1. q = p
        BY <2>2, <3>1 DEF PollsAlone, PollCommits
      <4> QED
        BY <1>0, <3>1, <4>1 DEF PollCommits, TypeOK
    <3>2. ~ \E w \in Workers : HandlerCommits(w)
      BY <2>2 DEF PollsAlone, HandlerCommits
    <3> QED
      BY <3>1, <3>2, WhoWritesTheMirror, WhoMovesTheWatermark
  <2> QED
    BY <2>1, <2>2
<1>2. CASE poll'[p] = poll[p]
  <2> DEFINE r == poll[p]
  <2>1. AlonePoll(r) /\ PollTyped(r, now)
    BY <1>0, <1>2
  <2>2. \A l \in Leads : \/ crm'[l] = crm[l]
                         \/ crm'[l].at = now + 1
                         \/ crm[l].stage \in BadStages /\ crm'[l].at = crm[l].at
    BY <1>0, HowDealsMove
  <2>3. r.wm \in 0..now /\ \A k \in DOMAIN r.snaps : r.snaps[k].at \in 1..now
    BY <2>1 DEF PollTyped
  <2>4. ASSUME NEW l \in Leads, r.step # "fetch"
        PROVE  \/ crm'[l].at <= r.wm /\ l \notin DOMAIN r.snaps
               \/ /\ crm'[l].at > r.wm
                  /\ l \in DOMAIN r.snaps
                  /\ crm'[l].at = r.snaps[l].at
                  /\ crm'[l].stage = r.snaps[l].stage \/ r.snaps[l].stage \in BadStages
               \/ crm'[l].at > r.wm /\ \A k \in DOMAIN r.snaps : crm'[l].at > r.snaps[k].at
    <3>1. CASE crm'[l].at = now + 1
      <4> HIDE DEF r
      <4> QED
        BY <1>0, <2>3, <3>1
    <3>2. CASE crm'[l] = crm[l]
      BY <2>1, <2>4, <3>2 DEF AlonePoll
    <3>3. CASE crm[l].stage \in BadStages /\ crm'[l].at = crm[l].at
      BY <2>1, <2>4, <3>3 DEF AlonePoll
    <3> QED
      BY <2>2, <3>1, <3>2, <3>3
  <2> QED
    BY <1>1, <1>2, <2>1, <2>4 DEF AlonePoll
<1>3. CASE PollReads(p)
  <2>1. poll'[p].step = "fetch" /\ poll'[p].wm = cursor
    BY <1>0, <1>3, StartedTyped
  <2> QED
    BY <1>1, <2>1 DEF AlonePoll
<1>4. CASE PollFetches(p)
  <2> DEFINE r == poll'[p]
  <2>1. /\ r.step = "load" /\ r.wm = poll[p].wm
        /\ DOMAIN r.snaps = {l \in Leads : crm[l].at > poll[p].wm}
        /\ \A l \in DOMAIN r.snaps : r.snaps[l] = crm[l]
    BY <1>0, <1>4, FetchedTyped
  <2>2. UNCHANGED crm /\ poll[p].wm = cursor
    BY <1>0, <1>4 DEF PollFetches, crmVars, AlonePoll
  <2>3. \A l \in Leads : crm[l].at \in Nat
    BY <1>0 DEF TypeOK
  <2> HIDE DEF r
  <2>4. \A l \in Leads : \/ crm[l].at <= r.wm /\ l \notin DOMAIN r.snaps
                         \/ crm[l].at > r.wm /\ l \in DOMAIN r.snaps /\ crm[l] = r.snaps[l]
    BY <1>0, <2>1, <2>2, <2>3
  <2> QED
    BY <1>1, <2>1, <2>2, <2>4 DEF AlonePoll, r
<1>5. CASE PollLoads(p)
  <2> DEFINE r == poll'[p]
  <2>1. /\ r.step = "save" /\ r.wm = poll[p].wm /\ r.snaps = poll[p].snaps
        /\ \A l \in DOMAIN r.snaps : r.loaded[l] = mirror[l]
    BY <1>0, <1>5, LoadedTyped
  <2>2. UNCHANGED crm /\ AlonePoll(poll[p]) /\ poll[p].step = "load"
    BY <1>0, <1>5 DEF PollLoads, crmVars
  <2> HIDE DEF r
  <2> QED
    BY <1>1, <2>1, <2>2 DEF AlonePoll, r
<1>6. CASE PollSaves(p)
  <2> DEFINE r == poll'[p]
  <2>1. /\ r.step = "commit" /\ r.wm = poll[p].wm /\ r.snaps = poll[p].snaps
        /\ r.loaded = poll[p].loaded /\ r.current = cursor
        /\ \A l \in DOMAIN r.snaps : r.seen[l] = Reread(l, r.loaded[l])
    BY <1>0, <1>6, SavedTyped
  <2>2. UNCHANGED crm /\ AlonePoll(poll[p]) /\ poll[p].step = "save"
    BY <1>0, <1>6 DEF PollSaves, crmVars
  <2> HIDE DEF r
  <2> QED
    BY <1>1, <2>1, <2>2 DEF AlonePoll, r, Reread
<1> QED
  BY <1>0, <1>2, <1>3, <1>4, <1>5, <1>6, HowPollsMove

LEMMA OneTaskStep == AloneInv /\ [Next]_vars => OneTaskEach'
<1> SUFFICES ASSUME AloneInv, [Next]_vars, NEW v \in Workers, NEW w \in Workers, v # w,
                    task'[v] # Idle, task'[w] # Idle, task'[v].lead = task'[w].lead
             PROVE  FALSE
  BY DEF OneTaskEach
<1>0. TypeOK /\ OneTaskEach /\ DOMAIN task = Workers
  BY DEF AloneInv, IInv, TypeOK
<1>1. ASSUME NEW u \in {v, w}, ~ \E c \in Consumers, l \in Leads : HandlerTakes(u, c, l)
      PROVE  task[u] # Idle /\ task'[u].lead = task[u].lead
  <2>1. CASE task'[u] = task[u]
    BY <2>1
  <2>2. CASE PushCalls(u) \/ ResyncCalls(u)
    <3>1. task[u] # Idle
      BY <2>2 DEF PushCalls, ResyncCalls, At
    <3>2. PICK s : task' = [task EXCEPT ![u] = [task[u] EXCEPT !.step = "load", !.stage = s]]
      BY <2>2 DEF PushCalls, ResyncCalls
    <3> QED
      BY <1>0, <3>1, <3>2, TaskTyped DEF TaskRecord
  <2>3. CASE HandlerLoads(u) \/ HandlerSaves(u)
    BY <1>0, <2>3, TaskSteps
  <2> QED
    BY <1>0, <1>1, <2>1, <2>2, <2>3, HowTasksMove
<1>2. ASSUME NEW u \in {v, w}, NEW x \in {v, w}, x # u,
             NEW c \in Consumers, NEW l \in Leads, HandlerTakes(u, c, l)
      PROVE  FALSE
  <2>1. task'[x] = task[x] /\ task'[u].lead = l
    BY <1>0, <1>2 DEF HandlerTakes
  <2> QED
    BY <1>2, <2>1 DEF HandlerTakes, Takes
<1>3. task[v] # Idle /\ task[w] # Idle /\ task[v].lead = task[w].lead
  BY <1>1, <1>2
<1> QED
  BY <1>0, <1>3 DEF OneTaskEach

LEMMA FreshTaskStep ==
    ASSUME PollsAlone, AloneInv, [Next]_vars, NEW w \in Workers, task'[w] # Idle
    PROVE  FreshTask(task[w])'
<1>0. /\ TypeOK /\ TaskSound /\ now \in Nat /\ cursor \in 0..now /\ DOMAIN task = Workers
      /\ task[w] # Idle => FreshTask(task[w])
  BY DEF AloneInv, IInv, TypeOK
<1>1. ASSUME NEW c \in Consumers, NEW l \in Leads, HandlerTakes(w, c, l)
      PROVE  FreshTask(task[w])'
  BY <1>0, <1>1 DEF HandlerTakes, FreshTask
<1>2. CASE PushCalls(w)
  <2> DEFINE l == task[w].lead
  <2>1. task[w] # Idle /\ l \in Leads
    BY <1>0, <1>2, TaskTyped DEF PushCalls, At
  <2>2. /\ task'[w] = [task[w] EXCEPT !.step = "load", !.stage = Qualified]
        /\ UNCHANGED <<mirror, cursor>>
    BY <1>0, <1>2 DEF PushCalls
  <2>3. task'[w].lead = l /\ task'[w].step = "load"
    BY <1>0, <2>1, <2>2, TaskTyped DEF TaskRecord
  <2>4. crm'[l].at = now + 1
    BY <1>0, <1>2, <2>1 DEF PushCalls, TypeOK
  <2>5. crm'[l].at \notin 1..cursor
    BY <1>0, <2>4
  <2> QED
    BY <1>0, <2>1, <2>2, <2>3, <2>5 DEF FreshTask
<1>3. CASE ResyncCalls(w)
  <2> DEFINE l == task[w].lead
  <2>1. task[w] # Idle /\ l \in Leads
    BY <1>0, <1>3, TaskTyped DEF ResyncCalls, At
  <2>2. /\ task'[w] = [task[w] EXCEPT !.step = "load", !.stage = crm[l].stage]
        /\ UNCHANGED <<mirror, cursor, crm>>
    BY <1>0, <1>3 DEF ResyncCalls, crmVars
  <2>3. task'[w].lead = l /\ task'[w].step = "load" /\ task'[w].stage = crm[l].stage
    BY <1>0, <2>1, <2>2, TaskTyped DEF TaskRecord
  <2> QED
    BY <1>0, <2>1, <2>2, <2>3 DEF FreshTask
<1>4. CASE task'[w] = task[w]
  <2> DEFINE l == task[w].lead
  <2>1. task[w] # Idle /\ l \in Leads /\ FreshTask(task[w])
    BY <1>0, <1>4, TaskTyped
  <2>2. ~ \E p \in Pollers : PollCommits(p)
    BY <2>1 DEF PollsAlone, PollCommits
  <2>3. cursor' = cursor
    BY <2>2, WhoMovesTheWatermark
  <2>4. mirror'[l] = mirror[l]
    <3>1. ASSUME NEW v \in Workers, HandlerCommits(v) PROVE mirror'[l] = mirror[l]
      <4>1. v # w
        BY <1>0, <1>4, <2>1, <3>1 DEF HandlerCommits, Returns
      <4>2. l # task[v].lead
        BY <2>1, <3>1, <4>1 DEF AloneInv, OneTaskEach, HandlerCommits
      <4> QED
        BY <1>0, <2>1, <3>1, <4>2, HandlerWrites
    <3> QED
      BY <2>2, <3>1, WhoWritesTheMirror
  <2>5. ASSUME task[w].step # "call", crm'[l].at \in 1..cursor
        PROVE  task[w].stage = crm'[l].stage
    <3>1. crm'[l].at # now + 1
      BY <1>0, <2>5
    <3>2. crm'[l].at = crm[l].at
      BY <1>0, <2>1, <3>1, HowDealsMove
    <3>3. task[w].stage = crm[l].stage /\ task[w].stage \in Stages
      BY <1>0, <2>1, <2>5, <3>2 DEF FreshTask, TaskSound
    <3> QED
      BY <1>0, <2>1, <3>1, <3>3, HowDealsMove, StagesAssumption
  <2> QED
    BY <1>4, <2>1, <2>3, <2>4, <2>5 DEF FreshTask
<1>5. CASE HandlerLoads(w) \/ HandlerSaves(w)
  <2>1. /\ task[w] # Idle /\ task[w].step \in {"load", "save"} /\ FreshTask(task[w])
        /\ task'[w].lead = task[w].lead /\ task'[w].stage = task[w].stage
        /\ HandlerLoads(w) => task'[w].step = "save" /\ task'[w].loaded = mirror[task'[w].lead]
        /\ HandlerSaves(w) => /\ task[w].step = "save" /\ task'[w].step = "commit"
                              /\ task'[w].loaded = task[w].loaded
                              /\ task'[w].seen = Reread(task'[w].lead, task'[w].loaded)
    BY <1>0, <1>5, TaskSteps
  <2>2. UNCHANGED <<mirror, cursor, crm>>
    BY <1>5 DEF HandlerLoads, HandlerSaves, crmVars
  <2> QED
    BY <1>5, <2>1, <2>2 DEF FreshTask, Reread
<1> QED
  BY <1>0, <1>1, <1>2, <1>3, <1>4, <1>5, HowTasksMove

LEMMA AloneHolds == Spec /\ []PollsAlone => []AloneInv
<1>1. Init => AloneInv
  BY Initially DEF Init, AloneInv, CursorMeansSynced, StageEventsMatchMirror, OneTaskEach
<1>2. PollsAlone /\ AloneInv /\ [Next]_vars => AloneInv'
  <2> SUFFICES ASSUME PollsAlone, AloneInv, [Next]_vars PROVE AloneInv'
    OBVIOUS
  <2>1. IInv'
    BY Inductive DEF AloneInv
  <2>2. CursorMeansSynced' /\ StageEventsMatchMirror' /\ OneTaskEach'
    BY SyncedStep, ToldEvents, OneTaskStep
  <2>3. \A p \in Pollers : (poll[p] # Idle => AlonePoll(poll[p]))'
    BY AlonePollStep
  <2>4. \A w \in Workers : (task[w] # Idle => FreshTask(task[w]))'
    BY FreshTaskStep
  <2> QED
    BY <2>1, <2>2, <2>3, <2>4 DEF AloneInv
<1> QED
  BY <1>1, <1>2, PTL DEF Spec

\* What CDC takes its watermark to mean holds as long as no poll overlaps another one or
\* a handler of ProfileCompleted: every deal it has passed is mirrored as it is in
\* wacrm, across pushes, re-syncs, brokers' edits, repaired stage names and failures.
THEOREM AloneCursorIsTrue == Spec /\ []PollsAlone => []CursorMeansSynced
<1>1. AloneInv => CursorMeansSynced
  BY DEF AloneInv
<1> QED
  BY <1>1, AloneHolds, PTL

\* Under the same condition the last CRMStageSynced event for a lead carries the mirrored
\* stage, across polls, pushes, re-syncs and all that fail.
THEOREM AloneEventsAreTrue == Spec /\ []PollsAlone => []StageEventsMatchMirror
<1>1. AloneInv => StageEventsMatchMirror
  BY DEF AloneInv
<1> QED
  BY <1>1, AloneHolds, PTL
=============================================================================
