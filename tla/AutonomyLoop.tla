----------------------------- MODULE AutonomyLoop -----------------------------
(***************************************************************************)
(* The autonomy runtime in one process (run_autonomy.py, run_event_once.py): *)
(* build_runtime_from_env starts it, webhooks put events into its durable   *)
(* queue, the supervisor drains the queue through the recovery governor     *)
(* into the executors of DevelopmentActions and GoalGovernor, and calls the *)
(* heartbeat: self audit (self_audit.py) and continuous excellence          *)
(* (continuous_excellence.py).  The process may die between two steps and   *)
(* any of its calls may raise.  WorkQueue and RecoveryGovernor have the     *)
(* transactions that are single steps here.                                 *)
(***************************************************************************)
EXTENDS DevelopmentActions

CONSTANTS
    MaxAttempts,     \* max_attempts of every row
    MaxFailures      \* max_failures_per_path

ASSUME LoopAssumption ==
    /\ MaxAttempts \in Nat \ {0} /\ MaxFailures \in Nat \ {0}

VARIABLES
    rows,            \* the queue; an event no row is listed for is unknown
    report           \* status of omega.self_audit.last

vars == <<world, pool, goals, budgets, rows, report, job, setup, incidents, meddling>>

Events ==
    [kind : {"bootstrap", "signal", "audit", "excellence", "merged", "passed", "failed"},
     goal : Goals \union {None}, pull : Nat, head : Nat]

Paths == {"advance", "complete", "repair", "rerun", "merge", "note"}
Row == [status : {"pending", "leased", "completed", "dead"},
        attempts : Nat, failed : [Paths -> 0..MaxFailures]]
NewRow == [status |-> "pending", attempts |-> 0, failed |-> [a \in Paths |-> 0]]

TypeOK ==
    /\ WorldTypeOK /\ PoolTypeOK /\ PortfolioTypeOK /\ BudgetsTypeOK
    /\ DOMAIN rows \subseteq Events
    /\ \A e \in DOMAIN rows : rows[e] \in Row
    /\ report \in {"none", "healthy", "blocked", "recovery_enqueued"}
    /\ job.event \in Events /\ job.path \in Paths \union {"none"}
    /\ \A g \in Goals : portfolio[g].pull \in {0} \union DOMAIN pulls

Init ==
    /\ WorldInit /\ PoolInit
    /\ portfolio = [g \in Goals |-> Blank("absent")] /\ generation = 1
    /\ repairs = <<>> /\ reruns = <<>> /\ retried = <<>>
    /\ rows = <<>> /\ report = "none"
    /\ job = Job("down")

-----------------------------------------------------------------------------
(* The queue *)

\* Events whose identifier is new at each delivery: once settled, their row
\* cannot matter any more.
OneDelivery == {"signal", "passed", "failed"}

\* enqueue: a known identifier changes nothing.
Enqueued(e) == [x \in DOMAIN rows \union {e} |-> IF x \in DOMAIN rows THEN rows[x] ELSE NewRow]

\* A delivery arrives, or is lost: the service is down, or no workflow starts.
Delivery(e) == (e.kind \in setup.events /\ rows' = Enqueued(e)) \/ UNCHANGED rows

SetRow(e, r) == rows' = [rows EXCEPT ![e] = r]
Without(e) == [x \in DOMAIN rows \ {e} |-> rows[x]]

\* Of a completed row it matters only whether it took more than one attempt.
CompleteRow(e, attempts) ==
    IF e.kind \in OneDelivery THEN rows' = Without(e)
    ELSE SetRow(e, [NewRow EXCEPT !.status = "completed",
                                  !.attempts = IF attempts > 1 THEN 2 ELSE 1])

\* fail(): the failure of the path was counted before.
FailRow(e, r) ==
    SetRow(e, [r EXCEPT !.status = IF r.attempts >= MaxAttempts THEN "dead" ELSE "pending"])

-----------------------------------------------------------------------------
(* The process *)

\* build_runtime_from_env: seed_if_empty, then the bootstrap event.
Start ==
    /\ job.at = "down"
    /\ portfolio' = IF \A g \in Goals : portfolio[g].status = "absent" THEN Seeded ELSE portfolio
    /\ rows' = Enqueued(Boot)
    /\ paidUsed' = 0
    /\ job' = Job("idle")
    /\ UNCHANGED <<world, health, paidCalls, generation, budgets, report,
                   setup, incidents, meddling>>

\* Whatever it was doing, its row stays leased.
Crash ==
    /\ job.at # "down"
    /\ Incident(1)
    /\ job' = Job("down")
    /\ UNCHANGED <<world, pool, goals, budgets, rows, report, setup, meddling>>

\* The lease of an earlier process runs out.
RecoverLease ==
    /\ job.at = "idle"
    /\ \E e \in DOMAIN rows : rows[e].status = "leased" /\ SetRow(e, [rows[e] EXCEPT !.status = "pending"])
    /\ UNCHANGED <<world, pool, goals, budgets, report, job, setup, incidents, meddling>>

\* The actions of an event type, in the order the route optimizer
\* gives them: the recorders' profiles rank before everything else's default.
\* A failure costs a rerun its lead over the repair where a recorder outranks
\* both; no other order that matters depends on the failures.
Ranking(e) ==
    CASE e.kind \in {"bootstrap", "signal", "audit", "excellence"} -> <<"advance">>
      [] e.kind = "merged" -> <<"note", "complete", "advance">>
      [] e.kind = "failed" ->
            IF /\ "development" \in setup.actions
               /\ rows[e].failed["rerun"] > 0 /\ rows[e].failed["repair"] = 0
            THEN <<"note", "repair", "rerun">> ELSE <<"note", "rerun", "repair">>
      [] e.kind = "passed" -> <<"merge">>

\* What each install() registers: an event type, and a path it may take.
GovernorTable ==
    ({"bootstrap", "signal", "audit", "excellence", "merged"} \X {"advance"})
        \union {<<"merged", "complete">>}
DevelopmentTable == {<<"passed", "merge">>, <<"failed", "note">>, <<"merged", "note">>}
RepairTable == {<<"failed", "repair">>}
RerunTable == {<<"failed", "rerun">>}

Registered(e, a) ==
    \/ "governor" \in setup.actions /\ <<e.kind, a>> \in GovernorTable
    \/ "development" \in setup.actions /\ <<e.kind, a>> \in DevelopmentTable
    \/ "repair" \in setup.actions /\ <<e.kind, a>> \in RepairTable
    \/ "rerun" \in setup.actions /\ <<e.kind, a>> \in RerunTable

\* Mutation: failures do not count.
CanRunForever(e, a) ==
    /\ Registered(e, a)
    /\ a = "rerun" => RerunReady(e)
    /\ a = "repair" => RepairLeft(e.pull)
\* ready() of each, and the failures of the path for this event.
CanRun(e, a) ==
    /\ Registered(e, a)
    /\ rows[e].failed[a] < MaxFailures
    /\ a = "rerun" => RerunReady(e)
    /\ a = "repair" => RepairLeft(e.pull)

Candidates(e) == {i \in DOMAIN Ranking(e) : CanRun(e, Ranking(e)[i])}

FirstStage(a) == IF a = "merge" THEN "verify" ELSE a

\* claim, then candidates(): the best one is executed.  With no candidate the
\* decision is "blocked" and the row is completed.
Claim ==
    /\ job.at = "idle"
    /\ \E e \in DOMAIN rows :
         /\ rows[e].status = "pending"
         /\ IF Candidates(e) = {}
            THEN CompleteRow(e, rows[e].attempts + 1) /\ UNCHANGED job
            ELSE LET best == CHOOSE i \in Candidates(e) : \A k \in Candidates(e) : i <= k
                     a == Ranking(e)[best] IN
                 /\ SetRow(e, [rows[e] EXCEPT !.status = "leased", !.attempts = @ + 1])
                 /\ job' = [Job(FirstStage(a)) EXCEPT !.event = e, !.path = a]
    /\ UNCHANGED <<world, pool, goals, budgets, report, setup, incidents, meddling>>

\* The executor returned: the path's failures are cleared, the row completed.
Settle ==
    /\ job.at = "returned"
    /\ CompleteRow(job.event, rows[job.event].attempts)
    /\ job' = Job("idle")
    /\ UNCHANGED <<world, pool, goals, budgets, report, setup, incidents, meddling>>

\* It raised: the failure is counted and the row retried.
SettleFailed ==
    /\ job.at = "raised"
    /\ LET r == rows[job.event] IN FailRow(job.event, [r EXCEPT !.failed[job.path] = @ + 1])
    /\ job' = Job("idle")
    /\ UNCHANGED <<world, pool, goals, budgets, report, setup, incidents, meddling>>

\* Any call of an executor may raise: a request to GitHub, a store call; also
\* the note it leaves last, or the clearing of the path's failures.
CallRaises ==
    /\ job.at \notin {"down", "idle", "raised"}
    /\ Incident(1)
    /\ Goto("raised")
    /\ UNCHANGED <<world, pool, goals, budgets, rows, report, setup, meddling>>

\* merge_pull_request; the event of the merge is delivered or lost.
MergePull ==
    /\ job.at = "merge"
    /\ LET p == job.event.pull IN
         IF MergeAllowed(p, job.event.head)
         THEN Merge(p, "governor") /\ Delivery(Merged(p)) /\ Goto("returned")
         ELSE Goto("raised") /\ UNCHANGED <<world, rows>>
    /\ UNCHANGED <<pool, goals, budgets, report, setup, incidents, meddling>>

Executor ==
    \/ DevelopmentStep /\ UNCHANGED <<rows, report>>
    \/ MergePull

-----------------------------------------------------------------------------
(* The heartbeat *)

Unsettled == {e \in DOMAIN rows : rows[e].status \in {"pending", "leased"}}
Dead == {e \in DOMAIN rows : rows[e].status = "dead"}

\* The required provider is the paid one; without it, it counts as healthy.
Blocked ==
    \/ Dead # {}
    \/ \E g \in Active : CountOf(repairs, portfolio[g].pull) >= MaxRepairs
    \/ \E v \in Paid : ~Healthy(v)

\* run_once: a blocker, or an idle mission to recover, or neither.
Assessment ==
    IF Blocked THEN "blocked"
    ELSE IF Active = {} /\ Ready # {} /\ Unsettled = {} THEN "recovery_enqueued"
    ELSE "healthy"

\* Mutation: a goal that is ready does not keep excellence back.
BaselineEarly == Active = {}
Baseline == Active = {} /\ Ready = {}

\* collect(): an observation on record, or work that took a second attempt;
\* dead work is a signal too, but it blocks the audit.
Signals == setup.signal \/ \E e \in DOMAIN rows : rows[e].status = "completed" /\ rows[e].attempts > 1

\* evaluate() selects one signal; its event is named after the generation.
Evaluate(audited) ==
    IF audited = "healthy" /\ Baseline /\ Signals /\ generation \in 1..Improvements
    THEN rows' = Enqueued(Excellence(generation))
    ELSE UNCHANGED rows

\* run_once makes a new report and enqueues the recovery it decides on ...
AuditNow ==
    /\ report' = Assessment
    /\ IF Assessment = "recovery_enqueued"
       THEN \E g \in Ready : rows' = Enqueued(Audit(g))
       ELSE Evaluate(Assessment)

\* ... or, within the minimum interval, returns the saved one.
AuditSaved == report # "none" /\ Evaluate(report) /\ UNCHANGED report

\* autonomy_heartbeat, while the process is idle.
Heartbeat ==
    /\ job.at = "idle"
    /\ AuditNow \/ AuditSaved
    /\ UNCHANGED <<world, pool, goals, budgets, job, setup, incidents, meddling>>

-----------------------------------------------------------------------------
(* What arrives from outside *)

\* All workflows of a head end; one event of the last of them is delivered.
ChecksEnd ==
    /\ \E p \in DOMAIN pulls :
         LET h == pulls[p].head IN
         /\ HeadCheck(p) = "pending"
         /\ \E c \in setup.checks \ {"pending"} :
              /\ pulls' = [pulls EXCEPT ![p].checks[h] = c]
              /\ Delivery(IF c \in Acceptable THEN Passed(p, h) ELSE Failed(p, h))
    /\ UNCHANGED <<main, branches, pool, goals, budgets, report, job,
                   setup, incidents, meddling>>

\* One workflow of several succeeds while others still run.
WorkflowPasses ==
    /\ Meddling
    /\ \E p \in DOMAIN pulls :
         /\ HeadCheck(p) = "pending"
         /\ Delivery(Passed(p, pulls[p].head))
    /\ UNCHANGED <<world, pool, goals, budgets, report, job, setup, incidents>>

\* People merge whatever the checks say.
PersonMerges ==
    /\ \E p \in DOMAIN pulls :
         /\ pulls[p].state = "open"
         /\ Merge(p, "person")
         /\ Delivery(Merged(p))
    /\ UNCHANGED <<pool, goals, budgets, report, job, setup, incidents, meddling>>

\* The same merge arrives a second time, under the identifier of the other
\* ingress (webhook or workflow run).
MergeRepeated ==
    /\ Incident(1)
    /\ \E e \in DOMAIN rows :
         /\ e.kind = "merged" /\ rows[e].status = "completed"
         /\ SetRow(e, NewRow)
    /\ UNCHANGED <<world, pool, goals, budgets, report, job, setup, meddling>>

\* task.completed, or the scheduled watchdog.
SignalArrives ==
    /\ Meddling
    /\ Delivery(Signal)
    /\ UNCHANGED <<world, pool, goals, budgets, report, job, setup, incidents>>

Outside ==
    \/ ChecksEnd \/ WorkflowPasses \/ PersonMerges \/ MergeRepeated \/ SignalArrives
    \/ People /\ UNCHANGED <<pool, goals, budgets, rows, report, job>>

Process ==
    \/ Start \/ RecoverLease \/ Claim \/ Settle \/ SettleFailed \/ Executor \/ Heartbeat

Next == Process \/ Crash \/ CallRaises \/ Outside

Spec == Init /\ [][Next]_vars

-----------------------------------------------------------------------------
(* Properties *)

\* A completed goal has a merged pull request, merged at the very commit the
\* governor recorded and with acceptable checks, whatever people pushed and
\* merged meanwhile and wherever the process died.
CompletedIsMerged ==
    \A g \in CompletedGoals :
        /\ portfolio[g].pull \in DOMAIN pulls
        /\ LET pull == pulls[portfolio[g].pull] IN
             /\ pull.state = "merged" /\ pull.goal = g
             /\ pull.head = portfolio[g].head
             /\ pull.checks[pull.head] \in Acceptable

\* Pull requests of the governor the portfolio does not know.
Unrecorded == {p \in DOMAIN pulls : \A g \in Goals : portfolio[g].pull # p}

\* One goal is in progress at a time, and a pull request the portfolio does
\* not know takes an incident, or is about to be recorded.
OneGoalInFlight ==
    /\ Cardinality(Active) <= 1
    /\ Cardinality({p \in Unrecorded : pulls[p].state = "open" /\ p # job.pull}) <= incidents

\* A completed roadmap goal stays completed; an excellence goal is taken up
\* again only after an incident.
CompletedStays ==
    [][\A g \in CompletedGoals :
          g \in Roadmap \/ incidents = 0 => portfolio'[g] = portfolio[g]]_vars

\* Continuous excellence is entered only on the finished roadmap, also when
\* the heartbeat works from a report that is no longer true.
ExcellenceAfterBaseline ==
    (\E e \in DOMAIN rows : e.kind = "excellence") => setup.roadmap \subseteq CompletedGoals

\* What the governor merged is exactly a commit all whose required workflows
\* succeeded, whatever was pushed between the verification and the merge.
MergedWasVerified ==
    \A p \in DOMAIN pulls : pulls[p].by = "governor" => HeadCheck(p) = "green"

\* No pull request gets more repairs, and no failed run more reruns, than its
\* budget, one more at most for each incident; no process makes more paid calls
\* than its own budget.
BudgetsHold ==
    /\ \A p \in DOMAIN pulls : pulls[p].fixes <= MaxRepairs + incidents
    /\ \A r \in DOMAIN retried : retried[r] <= MaxReruns + incidents
    /\ paidCalls <= PaidBudget * (1 + incidents)

\* A goal whose pull request the governor verified and merged, at the commit it
\* recorded, is completed once the event of the merge was consumed.
VerifiedMergeCompletesGoal ==
    \A p \in DOMAIN pulls :
        /\ pulls[p].by = "governor" /\ incidents = 0
        /\ Merged(p) \in DOMAIN rows /\ rows[Merged(p)].status = "completed"
        => \A g \in ByPull(p) :
              portfolio[g].head = pulls[p].head => portfolio[g].status = "completed"

-----------------------------------------------------------------------------
(* Inductive strengthenings, for AutonomyLoop_proofs                       *)

Jobs == [at : Stages, event : Events, path : Paths \union {"none"},
         goal : Goals \union {None}, base : Nat, pull : Nat, more : BOOLEAN]

Shape ==
    /\ main \in Nat /\ pulls \in Seq(Pull)
    /\ \A p \in DOMAIN pulls : pulls[p].head \in DOMAIN pulls[p].checks
    /\ setup \in Setups
    /\ portfolio \in [Goals -> Entry]
    /\ DOMAIN rows \subseteq Events
    /\ job \in Jobs

\* An event names what exists, and an executor runs on an event of its kind.
KnownEvent(e) ==
    /\ e.kind \in {"merged", "passed", "failed"} => e.pull \in DOMAIN pulls
    /\ e.kind \in {"passed", "failed"} => e.head \in DOMAIN pulls[e.pull].checks
    /\ e.kind = "excellence" => e.goal \in Goals

EventsInv ==
    /\ \A e \in DOMAIN rows : KnownEvent(e)
    /\ KnownEvent(job.event)
    /\ job.at \in {"repair", "commit", "count", "rerun", "recount"} => job.event.kind = "failed"
    /\ job.at \in {"verify", "merge"} => job.event.kind = "passed"
    /\ job.at \in {"complete", "update"} => job.event.kind = "merged"
    /\ job.at \in {"propose", "branch", "open", "record", "update"} => job.goal \in Goals

VerifiedInv ==
    /\ \A p \in DOMAIN pulls : pulls[p].by = "governor" => pulls[p].state = "merged"
    /\ job.at = "merge" => pulls[job.event.pull].checks[job.event.head] = "green"
    /\ MergedWasVerified

\* The portfolio's pull requests are the goals' own.
GoalsInv ==
    /\ \A g \in Goals :
         portfolio[g].pull # 0 => /\ portfolio[g].pull \in DOMAIN pulls
                                  /\ pulls[portfolio[g].pull].goal = g
    /\ job.at = "record" => job.pull \in DOMAIN pulls /\ pulls[job.pull].goal = job.goal
    /\ job.at = "update" => /\ portfolio[job.goal].pull = job.event.pull
                            /\ Accepted(job.goal, job.event.pull)
    /\ CompletedIsMerged

\* The row of the event in hand stays leased until it is settled.
RowsInv ==
    /\ \A e \in DOMAIN rows : rows[e] \in Row
    /\ job.at \notin {"down", "idle"} =>
         /\ job.event \in DOMAIN rows /\ job.path \in Paths
         /\ rows[job.event].status = "leased"
         /\ rows[job.event].failed[job.path] < MaxFailures

\* A repair that was committed and is not yet counted.
Uncounted(p) == IF job.at = "count" /\ job.event.pull = p THEN 1 ELSE 0

RepairsInv ==
    /\ \A p \in DOMAIN repairs : repairs[p] \in 0..MaxRepairs
    /\ job.at \in {"commit", "count"} => CountOf(repairs, job.event.pull) < MaxRepairs
    /\ \A p \in DOMAIN pulls : pulls[p].fixes <= CountOf(repairs, p) + Uncounted(p) + incidents

\* A rerun that was asked for and is not yet counted.
Unlisted(r) == IF job.at = "recount" /\ RunOf(job.event) = r THEN 1 ELSE 0

RerunsInv ==
    /\ \A r \in DOMAIN reruns : reruns[r] \in 0..MaxReruns
    /\ job.at = "recount" => CountOf(reruns, RunOf(job.event)) < MaxReruns
    /\ \A r \in DOMAIN retried : /\ retried[r] \in Nat
                                 /\ retried[r] <= CountOf(reruns, r) + Unlisted(r) + incidents

\* A process that is gone has spent its budget at most, and left an incident.
PaidInv ==
    /\ PoolTypeOK /\ incidents \in Nat
    /\ paidCalls <= PaidBudget * incidents + paidUsed
    /\ job.at = "down" => paidCalls <= PaidBudget * incidents

Proposing == {"propose", "branch", "open", "record"}

\* Open pull requests that no goal has and none is about to get.
Orphans == {p \in Unrecorded : pulls[p].state = "open" /\ ~(job.at = "record" /\ p = job.pull)}

FlightInv ==
    /\ \A g, h \in Active : g = h
    /\ \A g \in Goals : portfolio[g].status \in {"absent", "planned"} => portfolio[g].pull = 0
    /\ job.at \in Proposing => /\ Active = {}
                               /\ portfolio[job.goal].status \in {"planned", "completed"}
    /\ Cardinality(Orphans) <= incidents

Improves(e) == e.kind = "excellence" => \E n \in 1..Improvements : e = Excellence(n)

\* The roadmap is listed from the first start on, an excellence goal by its event.
BaselineInv ==
    /\ \A e \in DOMAIN rows : Improves(e)
    /\ Improves(job.event)
    /\ \A n \in 1..Improvements :
         portfolio[Improvement(n)].status # "absent" => Excellence(n) \in DOMAIN rows
    /\ job.at \in Proposing /\ job.goal \in Roadmap => portfolio[job.goal].status = "planned"
    /\ \/ \A g \in setup.roadmap : portfolio[g].status # "absent"
       \/ job.at = "down" /\ \A g \in Goals : portfolio[g].status = "absent"
    /\ ExcellenceAfterBaseline

\* While nothing has failed: an excellence event that is still to be handled
\* has a goal nobody has proposed yet, or is the one in hand, or nobody answers.
FreshInv ==
    incidents = 0 =>
        /\ job.at = "down" => \A g \in Goals : portfolio[g].status = "absent"
        /\ job.at \in Proposing => portfolio[job.goal].status = "planned"
        /\ \A e \in DOMAIN rows :
             e.kind = "excellence" /\ rows[e].status # "completed" =>
                \/ portfolio[e.goal].status = "absent"
                \/ /\ portfolio[e.goal].status = "planned" /\ Eligible = {}
                   /\ ~(job.at \in {"branch", "open", "record"} /\ job.goal = e.goal)
                \/ job.event = e /\ job.goal = e.goal /\ job.at \in Proposing \union {"returned"}
        /\ \A b \in branches :
             \/ portfolio[b[1]].status \in {"verifying", "completed"}
             \/ job.at \in {"open", "record"} /\ job.goal = b[1]
=============================================================================
