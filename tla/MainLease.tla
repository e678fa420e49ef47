------------------------------- MODULE MainLease -------------------------------
(***************************************************************************)
(* run_with_lease: exact-final assurance runs as a child process while the *)
(* base branch is polled.  The child is killed when the branch has left    *)
(* the base of the lease, or when it could not be observed three times in  *)
(* a row.  The branch is a repository on a server: here, the set of the    *)
(* changes in its tree.                                                    *)
(***************************************************************************)
EXTENDS Integers

CONSTANTS
  Changes,         \* what can be merged into the branch
  MaxUnobserved    \* bound: observations that fail

VARIABLES
  main,            \* tree of the base branch
  loop,            \* where run_with_lease is: "NONE", "TOP", "SLEEP" or "EXITED"
  base,            \* OVC_LEASE_BASE_SHA
  child,           \* "NONE", "RUNNING", "PASSED", "FAILED" or "KILLED"
  failures,        \* consecutive_observation_failures
  code,            \* exit code
  unobserved,      \* number of observations that failed so far
  lastSeen         \* history: main at the last observation that succeeded

leaseVars == <<main, loop, base, child, failures, code, unobserved, lastSeen>>
leaseRun == <<loop, base, child, failures, code, unobserved, lastSeen>>

EXIT_BASE_MOVED == 86
EXIT_LEASE_OBSERVABILITY == 87
MAX_CONSECUTIVE_OBSERVATION_FAILURES == 3

Exit(c) == loop' = "EXITED" /\ code' = c

\* The branch is observed before the child is started.
StartRun(tree) ==
  /\ loop = "NONE"
  /\ base' = tree
  /\ failures' = 0
  /\ lastSeen' = main
  /\ IF main # tree
     THEN Exit(EXIT_BASE_MOVED) /\ UNCHANGED child
     ELSE loop' = "TOP" /\ child' = "RUNNING" /\ UNCHANGED code
  /\ UNCHANGED <<main, unobserved>>

\* The first observation is not repeated: main() turns its LeaseError into a code.
StartFails(tree) ==
  /\ loop = "NONE"
  /\ unobserved < MaxUnobserved
  /\ unobserved' = unobserved + 1
  /\ base' = tree
  /\ Exit(EXIT_LEASE_OBSERVABILITY)
  /\ UNCHANGED <<main, child, failures, lastSeen>>

ChildEnds(result) ==
  /\ child = "RUNNING"
  /\ child' = result
  /\ UNCHANGED <<main, loop, base, failures, code, unobserved, lastSeen>>

\* while process.poll() is None
PollChild ==
  /\ loop = "TOP"
  /\ IF child = "RUNNING"
     THEN loop' = "SLEEP" /\ UNCHANGED code
     ELSE Exit(IF child = "PASSED" THEN 0 ELSE 1)
  /\ UNCHANGED <<main, base, child, failures, unobserved, lastSeen>>

\* Mutant of Moved: the head of the placement is looked at, not the branch.
MutMoved == FALSE

Moved == main # base

Terminated == IF child = "RUNNING" THEN "KILLED" ELSE child

\* After the sleep the branch is observed, even if the child has ended meanwhile.
ObserveBranch ==
  /\ loop = "SLEEP"
  /\ failures' = 0
  /\ lastSeen' = main
  /\ IF Moved THEN Exit(EXIT_BASE_MOVED) /\ child' = Terminated
              ELSE loop' = "TOP" /\ UNCHANGED <<code, child>>
  /\ UNCHANGED <<main, base, unobserved>>

\* Mutant of TooMany: the third failure is tolerated, and the ones after it.
MutTooMany == FALSE

TooMany == failures + 1 >= MAX_CONSECUTIVE_OBSERVATION_FAILURES

ObservationFails ==
  /\ loop = "SLEEP"
  /\ unobserved < MaxUnobserved
  /\ unobserved' = unobserved + 1
  /\ failures' = failures + 1
  /\ IF TooMany THEN Exit(EXIT_LEASE_OBSERVABILITY) /\ child' = Terminated
                ELSE loop' = "TOP" /\ UNCHANGED <<code, child>>
  /\ UNCHANGED <<main, base, lastSeen>>

Cleared ==
  /\ loop' = "NONE" /\ base' = {} /\ child' = "NONE" /\ failures' = 0 /\ code' = -1
  /\ lastSeen' = {}
  /\ UNCHANGED <<main, unobserved>>

\* The job that runs the script is over, and another may start.
NextRun == loop = "EXITED" /\ Cleared

\* The job is at its time limit, and everything in it is killed.
CancelRun == loop \in {"TOP", "SLEEP"} /\ Cleared

\* Somebody's change is merged.
Merge(change) ==
  /\ main' = main \cup {change}
  /\ UNCHANGED leaseRun

LeaseInit ==
  /\ main = {} /\ loop = "NONE" /\ base = {} /\ child = "NONE"
  /\ failures = 0 /\ code = -1 /\ unobserved = 0 /\ lastSeen = {}

\* Type invariant: a child runs only while its lease is being watched.
LeaseTypeOK ==
  /\ main \subseteq Changes /\ base \subseteq Changes /\ lastSeen \subseteq Changes
  /\ loop \in {"NONE", "TOP", "SLEEP", "EXITED"}
  /\ child \in {"NONE", "RUNNING", "PASSED", "FAILED", "KILLED"}
  /\ child = "RUNNING" => loop \in {"TOP", "SLEEP"}
  /\ failures \in 0..MAX_CONSECUTIVE_OBSERVATION_FAILURES
  /\ code \in {-1, 0, 1, EXIT_BASE_MOVED, EXIT_LEASE_OBSERVABILITY}
  /\ unobserved \in 0..MaxUnobserved

\* Assurance that ends with code 0 ran on the base of its lease as far as the branch
\* was observed, and was never three observations in a row without seeing it.
PassedOnBase ==
  code = 0 => lastSeen = base /\ failures < MAX_CONSECUTIVE_OBSERVATION_FAILURES
===============================================================================
