----------------------------- MODULE SourceIntake -----------------------------
(***************************************************************************)
(* The intake of a source slice from the Dukascopy feed: execute_intake    *)
(* fetches the objects of a window into a staging directory of its own,    *)
(* audits the rows, and renames the directory to the slice's destination   *)
(* or to the quarantine.  The profiles are RPS (dukascopy_intake, also     *)
(* under the constants of G1A), and A1 and A2, which fetch the full month  *)
(* for one destination.                                                    *)
(*                                                                         *)
(* A day has one hour of two minutes.  A row is its time; prices are       *)
(* reduced to the minutes at which BID is above ASK (crossed) and the      *)
(* hours whose native row is not that of its minutes (unlike).  No other   *)
(* process sees what a call fetches or writes in its staging directory, so *)
(* each loop over objects is one step.  The byte limits, a provider that   *)
(* does not answer fifteen requests, a broken body and an error of the     *)
(* disk are all exceptions for the same handler.                           *)
(***************************************************************************)
EXTENDS Integers, FiniteSets, FiniteSetsExt

CONSTANTS
  Intakers,      \* processes that run execute_intake
  Profiles,      \* what they ask for: a subset of {"RPS", "A1", "A2"}
  LastDay,       \* the window is the days 1..LastDay
  TargetDays,    \* in A1 and A2 the native H1 objects are for the days 1..TargetDays
  WeekendDays,
  Markets,       \* what the provider may have
  MaxDenials,    \* bound: objects a mirror denies although the provider has them
  NoIntake,
  NoDirectory,   \* no directory
  Vacant         \* an empty directory

VARIABLES
  market,        \* [m1, h1 : [QuoteSides -> times], crossed, unlike : times]
  destination,   \* [SliceIds -> NoDirectory, Vacant or a slice]
  intake,        \* [Intakers -> NoIntake or the call]
  denials,       \* number of denials so far
  returned       \* history: <<slice id, slice>> of the calls that returned

intakeVars == <<market, destination, intake, denials, returned>>

QuoteSides == {"BID", "ASK"}
SliceIds == {"RPS", "MDR"}
SliceId(profile) == IF profile = "RPS" THEN "RPS" ELSE "MDR"

Days == 1..LastDay
DayOf(minute) == (minute + 1) \div 2
MinutesOf(d) == {2 * d - 1, 2 * d}
Minutes == UNION {MinutesOf(d) : d \in Days}

IsSlice(x) == x \notin {NoDirectory, Vacant}

\* What an intake freezes.
Slices ==
  [profile : Profiles, absent : SUBSET (QuoteSides \X Days),
   m1 : [QuoteSides -> SUBSET Minutes], h1 : [QuoteSides -> SUBSET Days]]

ASSUME IntakeAssumption ==
  /\ LastDay \in Nat /\ TargetDays \in Nat
  /\ Profiles \subseteq {"RPS", "A1", "A2"}
  /\ \A m \in Markets :
       /\ m.m1 \in [QuoteSides -> SUBSET Minutes]
       /\ m.h1 \in [QuoteSides -> SUBSET Days]
  /\ NoDirectory \notin Slices /\ Vacant \notin Slices

(***************************************************************************)
(* The rows of a call                                                      *)
(***************************************************************************)

M1Rows(c, side) == {t \in market.m1[side] : <<side, DayOf(t)>> \notin c.absent}

\* Mutant of CompleteHours: an hour with one of its minutes counts.
MutCompleteHours(rows) == {d \in Days : MinutesOf(d) \cap rows # {}}

\* _aggregate_complete_h1
CompleteHours(rows) == {d \in Days : MinutesOf(d) \subseteq rows}

FullMonth(c) == c.profile # "RPS"
NativeDays(c) == IF FullMonth(c) THEN 1..TargetDays ELSE Days
NativeRows(c, side) == market.h1[side] \cap NativeDays(c)
PostTarget(c, side) == CompleteHours(M1Rows(c, side)) \ NativeDays(c)
H1Rows(c, side) == NativeRows(c, side) \cup PostTarget(c, side)

(***************************************************************************)
(* The audits of the rows of a clock.                                      *)
(***************************************************************************)

DateOf(clock, t) == IF clock = "M1" THEN DayOf(t) ELSE t
LastOf(clock) == IF clock = "M1" THEN Max(Minutes) ELSE LastDay

CrossesWeekend(from, to) == \E d \in from..to : d \in WeekendDays

\* Mutant of NoUnexpectedGap: only gaps of more than one row are looked at.
MutNoUnexpectedGap(rows, clock) ==
  \A l, r \in rows :
    (l + 2 < r /\ \A t \in rows : t <= l \/ r <= t)
      => CrossesWeekend(DateOf(clock, l), DateOf(clock, r))

NoUnexpectedGap(rows, clock) ==
  \A l, r \in rows :
    (l + 1 < r /\ \A t \in rows : t <= l \/ r <= t)
      => CrossesWeekend(DateOf(clock, l), DateOf(clock, r))

\* _gap_audit
GapAudit(rows, clock) ==
  NoUnexpectedGap(rows, clock) /\ Min(rows) = 1 /\ Max(rows) = LastOf(clock)

\* Mutant of StartAccepted: the first row may be anywhere.
MutStartAccepted(rows, clock) == TRUE

StartAccepted(rows, clock) ==
  Min(rows) = 1 \/ CrossesWeekend(1, DateOf(clock, Min(rows)))
EndAccepted(rows, clock) ==
  Max(rows) = LastOf(clock) \/ CrossesWeekend(DateOf(clock, Max(rows)), LastDay)

\* _coverage_audit of A1; A2 leaves the gaps to the pairing.
CoverageAudit(profile, rows, clock) ==
  /\ profile = "A1" => NoUnexpectedGap(rows, clock)
  /\ StartAccepted(rows, clock)
  /\ EndAccepted(rows, clock)

\* Mutant of Paired: the minutes BID has may be missing from ASK.
MutPaired(bid, ask) == ask \subseteq bid

Paired(bid, ask) == bid = ask

\* _bid_ask_audit for both clocks
BidAskAudit(c) ==
  /\ Paired(M1Rows(c, "BID"), M1Rows(c, "ASK"))
  /\ Paired(H1Rows(c, "BID"), H1Rows(c, "ASK"))
  /\ M1Rows(c, "BID") \cap market.crossed = {}

\* Mutant of H1Reconciliation: hours without a native row are passed over.
MutH1Reconciliation(c, side) ==
  LET derived == CompleteHours(M1Rows(c, side)) \cap NativeDays(c)
  IN derived \cap NativeRows(c, side) # {} /\ derived \cap market.unlike = {}

\* _h1_reconciliation
H1Reconciliation(c, side) ==
  LET derived == CompleteHours(M1Rows(c, side)) \cap NativeDays(c)
  IN derived # {} /\ derived \subseteq NativeRows(c, side) /\ derived \cap market.unlike = {}

\* _post_target_h1_audit; A2 wants one complete hour only.
PostTargetAudit(c, side) ==
  IF c.profile = "A1" THEN PostTarget(c, side) = Days \ NativeDays(c)
  ELSE PostTarget(c, side) # {}

AuditsPass(c) ==
  /\ \A side \in QuoteSides :
       /\ M1Rows(c, side) # {} /\ H1Rows(c, side) # {}
       /\ IF FullMonth(c)
          THEN /\ CoverageAudit(c.profile, M1Rows(c, side), "M1")
               /\ CoverageAudit(c.profile, H1Rows(c, side), "H1")
               /\ PostTargetAudit(c, side)
          ELSE /\ GapAudit(M1Rows(c, side), "M1")
               /\ GapAudit(H1Rows(c, side), "H1")
       /\ H1Reconciliation(c, side)
  /\ BidAskAudit(c)

(***************************************************************************)
(* The steps of a call                                                     *)
(***************************************************************************)

Stands(p, pc) == intake[p] # NoIntake /\ intake[p].pc = pc
Step(p, pc) == intake' = [intake EXCEPT ![p].pc = pc]
EndIntake(p) == intake' = [intake EXCEPT ![p] = NoIntake]

IntakeInit ==
  /\ market \in Markets
  /\ destination \in [SliceIds -> {NoDirectory, Vacant}]
  /\ intake = [p \in Intakers |-> NoIntake]
  /\ denials = 0
  /\ returned = {}

\* Material at the destination raises.
CheckDestination(p, profile) ==
  /\ intake[p] = NoIntake
  /\ ~IsSlice(destination[SliceId(profile)])
  /\ intake' = [intake EXCEPT ![p] =
       [profile |-> profile, absent |-> {},
        pc |-> IF destination[SliceId(profile)] = Vacant THEN "CLEAR" ELSE "FETCH"]]
  /\ UNCHANGED <<market, destination, denials, returned>>

\* rmdir raises when the directory has gone or has got content meanwhile.
ClearDestination(p) ==
  /\ Stands(p, "CLEAR")
  /\ LET id == SliceId(intake[p].profile) IN
     IF destination[id] = Vacant
     THEN destination' = [destination EXCEPT ![id] = NoDirectory] /\ Step(p, "FETCH")
     ELSE EndIntake(p) /\ UNCHANGED destination
  /\ UNCHANGED <<market, denials, returned>>

\* The day objects of which the provider has rows.
Offered == {o \in QuoteSides \X Days : MinutesOf(o[2]) \cap market.m1[o[1]] # {}}

\* _request returns NOT_PRESENT for a day object as soon as one mirror answers 404,
\* 410 or with an empty body, whatever the others have.
NotPresent == SUBSET Offered

FetchObjects(p) ==
  /\ Stands(p, "FETCH")
  /\ \E absent \in NotPresent :
       /\ denials' = denials + Cardinality(absent)
       /\ denials' <= MaxDenials
       /\ intake' = [intake EXCEPT ![p].absent = absent, ![p].pc = "AUDIT"]
  /\ UNCHANGED <<market, destination, returned>>

\* The audits, and the writing of source objects, receipts and manifest.
AuditRows(p) ==
  /\ Stands(p, "AUDIT")
  /\ Step(p, IF AuditsPass(intake[p]) THEN "RENAME" ELSE "FAILED")
  /\ UNCHANGED <<market, destination, denials, returned>>

IntakeRaises(p) ==
  /\ \E pc \in {"FETCH", "AUDIT", "RENAME"} : Stands(p, pc)
  /\ Step(p, "FAILED")
  /\ UNCHANGED <<market, destination, denials, returned>>

SliceOf(c) ==
  [profile |-> c.profile, absent |-> c.absent,
   m1 |-> [side \in QuoteSides |-> M1Rows(c, side)],
   h1 |-> [side \in QuoteSides |-> H1Rows(c, side)]]

\* Mutant of Renames: the directory that is there is replaced.
MutRenames(id) == TRUE

\* rename of a directory replaces an empty directory, and nothing else.
Renames(id) == ~IsSlice(destination[id])

Freeze(id, slice) ==
  /\ destination' = [destination EXCEPT ![id] = slice]
  /\ returned' = returned \cup {<<id, slice>>}

RenameStaging(p) ==
  /\ Stands(p, "RENAME")
  /\ LET id == SliceId(intake[p].profile) IN
     IF Renames(id)
     THEN Freeze(id, SliceOf(intake[p])) /\ EndIntake(p)
     ELSE Step(p, "FAILED") /\ UNCHANGED <<destination, returned>>
  /\ UNCHANGED <<market, denials>>

\* _quarantine, after which the call raises; a call that is stopped leaves its
\* staging directory where nothing looks.
QuarantineStaging(p) ==
  /\ Stands(p, "FAILED")
  /\ EndIntake(p)
  /\ UNCHANGED <<market, destination, denials, returned>>

StopIntake(p) ==
  /\ intake[p] # NoIntake
  /\ EndIntake(p)
  /\ UNCHANGED <<market, destination, denials, returned>>

IntakeStep(p) ==
  \/ \E profile \in Profiles : CheckDestination(p, profile)
  \/ ClearDestination(p)
  \/ FetchObjects(p)
  \/ AuditRows(p)
  \/ IntakeRaises(p)
  \/ RenameStaging(p)
  \/ QuarantineStaging(p)
  \/ StopIntake(p)

(***************************************************************************)
(* Properties                                                              *)
(***************************************************************************)

IntakeSlices == {s \in {r[2] : r \in returned} : s.profile \in Profiles}

\* A destination is frozen once: the directory there is the one of the only call
\* that returned, however many calls passed the check of the destination.
OneSlicePerId ==
  /\ \A r, q \in returned : r[1] = q[1] => r = q
  /\ \A id \in SliceIds :
       IsSlice(destination[id]) <=> \E r \in returned : r = <<id, destination[id]>>

\* One wrong answer of a mirror is caught: rows the provider has are missing from
\* a slice only if the other side has no row of that day either.
OneDenialIsCaught ==
  \A slice \in IntakeSlices, d \in Days :
    (\E side \in QuoteSides :
       MinutesOf(d) \cap market.m1[side] # MinutesOf(d) \cap slice.m1[side])
      => \A side \in QuoteSides : <<side, d>> \in Offered => <<side, d>> \in slice.absent

\* Days without a weekend between them.
OneSession(d, e) == (d..e) \cap WeekendDays = {}

\* In RPS and A1 the minutes of a trading session have no hole, and one that
\* reaches the edge of the window reaches its first or last minute.
SessionsWhole ==
  \A slice \in {s \in IntakeSlices : s.profile # "A2"}, side \in QuoteSides :
    LET rows == slice.m1[side] IN
    /\ \A l, r \in rows : OneSession(DayOf(l), DayOf(r)) => l..r \subseteq rows
    /\ \A t \in rows : /\ OneSession(1, DayOf(t)) => 1 \in rows
                       /\ OneSession(DayOf(t), LastDay) => Max(Minutes) \in rows

\* Both sides of a slice have the same times, and an hour with all its minutes is
\* there as an H1 row: from the provider, or after the target from the minutes.
HoursFollowMinutes ==
  \A slice \in IntakeSlices :
    /\ slice.m1["BID"] = slice.m1["ASK"] /\ slice.h1["BID"] = slice.h1["ASK"]
    /\ LET whole == {d \in Days : MinutesOf(d) \subseteq slice.m1["BID"]} IN
       /\ whole # {} /\ whole \subseteq slice.h1["BID"]
       /\ slice.profile # "RPS" => slice.h1["BID"] \ whole \subseteq 1..TargetDays
===============================================================================
