-------------------------------- MODULE Jobs --------------------------------
(***************************************************************************)
(* What a concurrent block promises (foreach with concurrency > 1,         *)
(* parallel): every job runs at most once, no more than limit at a time;   *)
(* the block reports when no job is running and none can start any more,   *)
(* and what it reports is how many failed.  A block that drops jobs may,   *)
(* once it is cancelled, report without having started some of them.       *)
(***************************************************************************)
EXTENDS Integers, FiniteSets

VARIABLES
    limit,      \* how many jobs may run at once; never changes
    drops,      \* whether a cancelled block drops jobs; never changes
    status,     \* of every job
    cancelled,
    failures    \* what was reported, -1 before

vars == <<limit, drops, status, cancelled, failures>>

Job == DOMAIN status

With(s) == {j \in Job : status[j] = s}

Init ==
    /\ limit \in Nat \ {0}
    /\ drops \in BOOLEAN
    /\ \A j \in Job : status[j] = "pending"
    /\ cancelled = FALSE
    /\ failures = -1

Start(j) ==
    /\ status[j] = "pending"
    /\ Cardinality(With("running")) < limit
    /\ failures = -1
    /\ status' = [status EXCEPT ![j] = "running"]
    /\ UNCHANGED <<limit, drops, cancelled, failures>>

Finish(j) ==
    /\ status[j] = "running"
    /\ \E outcome \in {"ok", "failed"} :
          status' = [status EXCEPT ![j] = outcome]
    /\ UNCHANGED <<limit, drops, cancelled, failures>>

Cancel ==
    /\ ~cancelled
    /\ cancelled' = TRUE
    /\ UNCHANGED <<limit, drops, status, failures>>

Report ==
    /\ failures = -1
    /\ With("running") = {}
    /\ With("pending") = {} \/ (cancelled /\ drops)
    /\ failures' = Cardinality(With("failed"))
    /\ UNCHANGED <<limit, drops, status, cancelled>>

Progress == (\E j \in Job : Start(j) \/ Finish(j)) \/ Report

Next == Progress \/ Cancel

(* There are finitely many jobs, each started and finished once, so that    *)
(* progress of any kind leads to the report: a cancelled block need not     *)
(* start the jobs that are left.                                            *)
Spec == Init /\ [][Next]_vars /\ WF_vars(Progress)

=============================================================================
