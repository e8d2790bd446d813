-------------------------- MODULE DevelopmentActions --------------------------
(***************************************************************************)
(* The other executors of the production runtime: CISelfRepair              *)
(* (ci_repair.py), ProviderlessCIRecovery (providerless_ci_recovery.py) and *)
(* AutonomousDevelopmentActions (development_actions.py), again one step    *)
(* for each durable write or effect on GitHub.                              *)
(***************************************************************************)
EXTENDS GoalGovernor

CONSTANTS
    MaxRepairs,      \* max_repairs_per_pr
    MaxReruns        \* max_reruns_per_run

ASSUME DevelopmentAssumption == MaxRepairs \in Nat /\ MaxReruns \in Nat

VARIABLES
    repairs,         \* omega.ci_repair.pr.<number>.attempts
    reruns,          \* omega.providerless_ci_recovery.run.<id>.attempts, one
                     \* run for each commit of a pull request
    retried          \* history: how often GitHub was asked to rerun each run
budgets == <<repairs, reruns, retried>>

\* Both are absent, so zero, until written.
CountOf(f, x) == IF x \in DOMAIN f THEN f[x] ELSE 0
Counted(f, x) == [y \in DOMAIN f \union {x} |-> IF y = x THEN CountOf(f, x) + 1 ELSE f[y]]

BudgetsTypeOK ==
    /\ \A p \in DOMAIN repairs : p \in Nat /\ repairs[p] \in Nat
    /\ \A r \in DOMAIN reruns : r \in Nat \X Nat /\ reruns[r] \in Nat
    /\ \A r \in DOMAIN retried : r \in Nat \X Nat /\ retried[r] \in Nat

Subject(e) == pulls[e.pull].checks[e.head]

-----------------------------------------------------------------------------
(* CISelfRepair *)

\* Mutation: one repair more.
RepairLeftOver(p) == CountOf(repairs, p) <= MaxRepairs
RepairLeft(p) == CountOf(repairs, p) < MaxRepairs

\* repair(): budget left, and the failing commit is still the head.
RepairAdmitted(e) == RepairLeft(e.pull) /\ pulls[e.pull].head = e.head

RepairRefused ==
    /\ job.at = "repair"
    /\ ~RepairAdmitted(job.event)
    /\ Goto("raised")
    /\ UNCHANGED <<world, pool, goals, budgets, setup, incidents, meddling>>

ProposeRepair ==
    /\ job.at = "repair"
    /\ RepairAdmitted(job.event)
    /\ Propose([job EXCEPT !.at = "commit"], [job EXCEPT !.at = "raised"])
    /\ UNCHANGED <<world, goals, budgets, setup, meddling>>

CommitRepair ==
    /\ job.at = "commit"
    /\ LET p == job.event.pull IN
         IF CommitAllowed(p, job.event.head)
         THEN pulls' = [pulls EXCEPT ![p] = Committed(p, 1)] /\ Goto("count")
         ELSE Goto("raised") /\ UNCHANGED pulls
    /\ UNCHANGED <<main, branches, pool, goals, budgets, setup, incidents, meddling>>

\* The attempt is counted after its effect.
CountRepair ==
    /\ job.at = "count"
    /\ repairs' = Counted(repairs, job.event.pull)
    /\ Goto("returned")
    /\ UNCHANGED <<world, pool, goals, reruns, retried, setup, incidents, meddling>>

-----------------------------------------------------------------------------
(* ProviderlessCIRecovery *)

RunOf(e) == <<e.pull, e.head>>

\* Transient evidence: the log of the failed run has a marker.
RerunReady(e) ==
    /\ CountOf(reruns, RunOf(e)) < MaxReruns
    /\ Subject(e) = "flaky"

Rerun ==
    /\ job.at = "rerun"
    /\ LET e == job.event IN
         IF RerunReady(e)
         THEN /\ pulls' = [pulls EXCEPT ![e.pull].checks[e.head] = "pending"]
              /\ retried' = Counted(retried, RunOf(e))
              /\ Goto("recount")
         ELSE Goto("raised") /\ UNCHANGED <<pulls, retried>>
    /\ UNCHANGED <<main, branches, pool, goals, repairs, reruns, setup, incidents, meddling>>

\* As in a repair, the attempt is counted after its effect.
CountRerun ==
    /\ job.at = "recount"
    /\ reruns' = Counted(reruns, RunOf(job.event))
    /\ Goto("returned")
    /\ UNCHANGED <<world, pool, goals, repairs, retried, setup, incidents, meddling>>

-----------------------------------------------------------------------------
(* AutonomousDevelopmentActions *)

\* merge_verified_pr: the verified commit is the head of an open pull request,
\* and _verify_merge_workflow_evidence on all its runs.
VerifyMerge ==
    /\ job.at = "verify"
    /\ LET p == job.event.pull IN
         Goto(IF /\ pulls[p].state = "open"
                 /\ pulls[p].head = job.event.head
                 /\ HeadCheck(p) = "green"
              THEN "merge" ELSE "raised")
    /\ UNCHANGED <<world, pool, goals, budgets, setup, incidents, meddling>>

\* record_ci_failure and record_pr_merged write one state value nothing reads.
Note ==
    /\ job.at = "note"
    /\ Goto("returned")
    /\ UNCHANGED <<world, pool, goals, budgets, setup, incidents, meddling>>

\* The merge itself delivers an event: see AutonomyLoop.
DevelopmentStep ==
    \/ RepairRefused \/ ProposeRepair \/ CommitRepair \/ CountRepair
    \/ Rerun \/ CountRerun \/ VerifyMerge \/ Note
    \/ GovernorStep /\ UNCHANGED budgets
=============================================================================
