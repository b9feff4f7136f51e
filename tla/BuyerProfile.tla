---------------------------- MODULE BuyerProfile ----------------------------
(***************************************************************************)
(* Progressive profiling: BuyerProfileCaptureService.update_profile        *)
(* (lead_qualification/application/profile_capture.py) and the             *)
(* Completeness Gate.                                                      *)
(*                                                                         *)
(* A conversational turn reads the profile of its lead, applies the        *)
(* dimensions the lead has just answered and, in the turn's transaction,   *)
(* saves the row and publishes ProfileCompleted when the profile crosses   *)
(* the threshold.  Turns of several workers may overlap, and no row is     *)
(* locked.  The repository keeps a copy of the row and not the row itself: *)
(* save reads the row again, and the columns in which the copy differs     *)
(* from what it then finds are written, whoever has filled them since the  *)
(* copy was made.  A budget is two columns.                                *)
(***************************************************************************)
EXTENDS Integers, FiniteSets, Sequences

CONSTANTS
    Leads,
    Turns,       \* turns in progress at a time, one per event-bus worker
    Patches,     \* ProfilePatch: columns with the values just answered
    Threshold,   \* profile_completeness_threshold, percent
    None,        \* no value in a column, an empty list included
    Idle,
    MaxCaptures  \* bound on calls of update_profile

Budget == {"budget_min", "budget_max"}
Lists == {"locations", "must_haves"}
Columns == Budget \union Lists \union {"property_type", "timeline"}

\* is_empty, and the validation of ProfilePatch and MoneyRange.
IsPatch(q) ==
    /\ DOMAIN q # {} /\ DOMAIN q \subseteq Columns
    /\ \A c \in DOMAIN q : q[c] # None
    /\ Budget \intersect DOMAIN q # {} =>
          /\ Budget \subseteq DOMAIN q
          /\ q["budget_min"] \in Nat \ {0} /\ q["budget_max"] \in Nat
          /\ q["budget_min"] <= q["budget_max"]

ASSUME PatchesAssumption == \A q \in Patches : IsPatch(q)
ASSUME ProfileBoundsAssumption == Threshold \in 1..100 /\ MaxCaptures \in Nat

VARIABLES
    profiles,     \* [Leads -> a buyer_profiles row, EmptyRow if there is none]
    captures,     \* [Turns -> capture in progress or Idle]
    taken,        \* captures begun
    completions   \* ProfileCompleted events, by lead, in order of commit

profileVars == <<profiles, captures, taken, completions>>

\* No row, or the profile update_profile makes for a lead that has none.  No patch is
\* empty, so that a row that exists is never this.
EmptyRow == [c \in Columns |-> None]

ProfileInit ==
    /\ profiles = [l \in Leads |-> EmptyRow]
    /\ captures = [t \in Turns |-> Idle]
    /\ taken = 0
    /\ completions = <<>>

-----------------------------------------------------------------------------
(* The domain model                                                         *)

\* captured_dimensions: five of them, the budget being one.
Captured(r) ==
    (IF \A c \in Budget : r[c] # None THEN {"budget"} ELSE {})
        \union {c \in Columns \ Budget : r[c] # None}

Completeness(r) == (100 * Cardinality(Captured(r))) \div 5

Complete(r) == Completeness(r) >= Threshold

\* Mutant of Apply: a dimension that is not part of the patch is cleared.
ApplyAll(r, q) == [c \in Columns |-> IF c \in DOMAIN q THEN q[c] ELSE None]

Apply(r, q) == [c \in Columns |-> IF c \in DOMAIN q THEN q[c] ELSE r[c]]

\* _to_domain builds a MoneyRange, which raises unless minimum <= maximum.
Readable(r) == (\A c \in Budget : r[c] # None) => r["budget_min"] <= r["budget_max"]

\* BuyerProfileRepository.save assigns every column to the row it has `seen`; at the
\* commit those that differ from it are written over `current`.
Save(current, seen, copy) ==
    [c \in Columns |-> IF copy[c] = seen[c] THEN current[c] ELSE copy[c]]

-----------------------------------------------------------------------------
(* update_profile, in the transaction of a turn                             *)

CaptureReads(t, l, q) ==
    /\ captures[t] = Idle
    /\ taken < MaxCaptures
    /\ Readable(profiles[l])
    /\ captures' = [captures EXCEPT ![t] = [lead |-> l, loaded |-> profiles[l], patch |-> q,
                                            seen |-> Idle]]
    /\ taken' = taken + 1
    /\ UNCHANGED <<profiles, completions>>

\* save: session.get finds the row by its id.  A profile made for a lead that had none
\* has an id of its own, and no row.
CaptureSaves(t) ==
    /\ captures[t] # Idle
    /\ captures[t].seen = Idle
    /\ captures' = [captures EXCEPT ![t].seen =
          IF captures[t].loaded = EmptyRow THEN EmptyRow ELSE profiles[captures[t].lead]]
    /\ UNCHANGED <<profiles, taken, completions>>

\* Mutants of Crosses: every update of a complete profile is announced, or every
\* update of any profile that was not complete.
CrossesAgain(old, new) == Complete(new)
CrossesEarly(old, new) == ~Complete(old)

Crosses(old, new) == Complete(new) /\ ~Complete(old)

\* Two turns may both find no row; lead_id is unique.
Conflict(t) == captures[t].loaded = EmptyRow /\ profiles[captures[t].lead] # EmptyRow

\* The event carries a snapshot of the profile as well, which no consumer reads.
CaptureCommits(t) ==
    /\ captures[t] # Idle
    /\ captures[t].seen # Idle
    /\ ~Conflict(t)
    /\ LET l == captures[t].lead
           old == captures[t].loaded
           new == Apply(old, captures[t].patch)
       IN /\ profiles' = [profiles EXCEPT ![l] = Save(profiles[l], captures[t].seen, new)]
          /\ completions' = IF Crosses(old, new) THEN Append(completions, l) ELSE completions
    /\ captures' = [captures EXCEPT ![t] = Idle]
    /\ UNCHANGED taken

\* IntegrityError, or anything else in the turn fails.
CaptureRollsBack(t) ==
    /\ captures[t] # Idle
    /\ captures' = [captures EXCEPT ![t] = Idle]
    /\ UNCHANGED <<profiles, taken, completions>>

ProfileNext ==
    \E t \in Turns :
        \/ \E l \in Leads, q \in Patches : CaptureReads(t, l, q)
        \/ CaptureSaves(t)
        \/ CaptureCommits(t)
        \/ CaptureRollsBack(t)

ProfileSpec == ProfileInit /\ [][ProfileNext]_profileVars

-----------------------------------------------------------------------------
(* Properties                                                               *)

ColumnValues(c) == {None} \union {q[c] : q \in {p \in Patches : c \in DOMAIN p}}
IsRow(r) == DOMAIN r = Columns /\ \A c \in Columns : r[c] \in ColumnValues(c)

ProfileTypeOK ==
    /\ DOMAIN profiles = Leads /\ DOMAIN captures = Turns
    /\ \A l \in Leads : IsRow(profiles[l])
    /\ \A t \in Turns : captures[t] # Idle =>
          /\ DOMAIN captures[t] = {"lead", "loaded", "patch", "seen"}
          /\ captures[t].lead \in Leads /\ captures[t].patch \in Patches
          /\ IsRow(captures[t].loaded)
          /\ captures[t].seen # Idle => IsRow(captures[t].seen)
    /\ taken \in 0..MaxCaptures
    /\ completions \in Seq(Leads)

\* "`None` means 'not part of this patch', never 'clear the value'" (ProfilePatch):
\* what a lead has answered stays answered, as long as the captures of a lead follow one
\* another.  A capture that overlaps another takes back what its copy does not have.
AnswersKept ==
    [][\A l \in Leads, c \in Columns : profiles[l][c] # None => profiles'[l][c] # None]_profiles

\* "publishes `ProfileCompleted` exactly when the profile CROSSES the
\* completeness threshold": once for a complete profile, and not before, as long as
\* the captures of a lead follow one another.
CompletionToldOnce ==
    \A l \in Leads :
        Cardinality({d \in DOMAIN completions : completions[d] = l})
            = IF Complete(profiles[l]) THEN 1 ELSE 0

\* ProfileValidationError: "Raised before anything is persisted - invalid data
\* never reaches the profile", so every row can be read back, as long as the captures
\* of a lead follow one another.
BudgetStaysARange == \A l \in Leads : Readable(profiles[l])
=============================================================================
