----------------------------- MODULE GoalGovernor -----------------------------
(***************************************************************************)
(* The goal portfolio and its governor (goal_governor.py, goal_loop.py,     *)
(* completion_auditor.py): advance() and complete_merged_goal() as the      *)
(* executors of one process, one step for each durable write or effect on   *)
(* GitHub.  The portfolio is one list that is read and written whole; only  *)
(* the process that drains the queue touches it.                            *)
(***************************************************************************)
EXTENDS GitHubWorld, CodingProviders

CONSTANTS
    Requires,        \* dependencies of each roadmap goal
    None

ASSUME GovernorAssumption ==
    /\ Requires \in [Roadmap -> SUBSET Roadmap]
    /\ None \notin Goals

\* What is seeded brings its dependencies along, and these have no cycles: in
\* DEFAULT_AUTONOMY_ROADMAP each goal depends on earlier ones.  save_all itself
\* looks for unknown dependencies only.
ASSUME RoadmapAssumption ==
    /\ \A s \in Setups : \A g \in s.roadmap : Requires[g] \subseteq s.roadmap
    /\ \A S \in SUBSET Roadmap : S # {} => \E g \in S : Requires[g] \intersect S = {}

VARIABLES
    portfolio,       \* omega.goal_portfolio.v1
    generation,      \* omega.continuous_excellence.generation
    job              \* the executor call in progress

goals == <<portfolio, generation>>

GoalStatus == {"absent", "planned", "verifying", "completed"}
Entry == [status : GoalStatus, pull : Nat, head : Nat]
Blank(s) == [status |-> s, pull |-> 0, head |-> 0]

(* Events, as the queue's rows identify them *)
Boot == [kind |-> "bootstrap", goal |-> None, pull |-> 0, head |-> 0]
Signal == [kind |-> "signal", goal |-> None, pull |-> 0, head |-> 0]
Audit(g) == [kind |-> "audit", goal |-> g, pull |-> 0, head |-> 0]
Excellence(n) == [kind |-> "excellence", goal |-> Improvement(n), pull |-> 0, head |-> 0]
Merged(p) == [kind |-> "merged", goal |-> None, pull |-> p, head |-> 0]
Passed(p, h) == [kind |-> "passed", goal |-> None, pull |-> p, head |-> h]
Failed(p, h) == [kind |-> "failed", goal |-> None, pull |-> p, head |-> h]

\* What the executor is about to do, for which event and which registered
\* action; the goal, the base commit and the pull request it has seen, and
\* whether the next goal is to be started afterwards.
Stages == {"down", "idle", "advance", "propose", "branch", "open", "record",
           "complete", "update", "generation", "repair", "commit", "count",
           "rerun", "recount", "verify", "merge", "note", "returned", "raised"}

Job(at) == [at |-> at, event |-> Boot, path |-> "none", goal |-> None, base |-> 0, pull |-> 0,
            more |-> FALSE]

PortfolioTypeOK ==
    /\ portfolio \in [Goals -> Entry]
    /\ generation \in Nat
    /\ job.at \in Stages /\ job.goal \in Goals \union {None}
    /\ job.base \in Nat /\ job.pull \in Nat

Goto(l) == job' = [job EXCEPT !.at = l]

-----------------------------------------------------------------------------
(* GoalPortfolio *)

\* save_all refuses dependencies it does not know, so all of them are listed.
Seeded == [g \in Goals |-> Blank(IF g \in setup.roadmap THEN "planned" ELSE "absent")]

CompletedGoals == {g \in Goals : portfolio[g].status = "completed"}
Active == {g \in Goals : portfolio[g].status = "verifying"}

\* Mutation: the status of a goal is not looked at.
ReadyWhatever ==
    {g \in Goals : /\ portfolio[g].status # "absent"
                   /\ g \in Roadmap => Requires[g] \subseteq CompletedGoals}
\* next_ready() returns the one of the highest priority: any of them.
Ready ==
    {g \in Goals : /\ portfolio[g].status = "planned"
                   /\ g \in Roadmap => Requires[g] \subseteq CompletedGoals}

ByPull(p) == {g \in Goals : portfolio[g].pull = p}

\* add_if_absent: a goal that is listed stays as it is.
AddedIfAbsent(g) ==
    IF portfolio[g].status = "absent" THEN [portfolio EXCEPT ![g] = Blank("planned")] ELSE portfolio

\* update replaces the one goal of this name.
Updated(g, entry) == [portfolio EXCEPT ![g] = entry]

-----------------------------------------------------------------------------
(* advance() *)

\* Mutation: goals in progress do not keep the next one back.
AdvanceKeepsNone ==
    /\ job.at = "advance"
    /\ \E g \in Ready : job' = [job EXCEPT !.at = "propose", !.goal = g]
    /\ UNCHANGED <<world, pool, goals, setup, incidents, meddling>>

\* A goal is in progress, or none is ready.
AdvanceNothing ==
    /\ job.at = "advance"
    /\ Active # {} \/ (Ready = {} /\ job.event.kind # "excellence")
    /\ Goto("returned")
    /\ UNCHANGED <<world, pool, goals, setup, incidents, meddling>>

AdvanceReady ==
    /\ job.at = "advance"
    /\ Active = {}
    /\ \E g \in Ready : job' = [job EXCEPT !.at = "propose", !.goal = g]
    /\ UNCHANGED <<world, pool, goals, setup, incidents, meddling>>

\* _materialize_excellence_goal: add_if_absent, and whatever is listed under
\* the goal's name is advanced.
AdvanceExcellence ==
    /\ job.at = "advance"
    /\ Active = {} /\ Ready = {}
    /\ job.event.kind = "excellence"
    /\ LET g == job.event.goal IN
         /\ portfolio' = AddedIfAbsent(g)
         /\ job' = [job EXCEPT !.at = "propose", !.goal = g]
    /\ UNCHANGED <<world, pool, generation, setup, incidents, meddling>>

\* The coding providers answer, or all of them fail; those that failed are
\* incidents.  next is what the answer is for.
Propose(next, raised) ==
    \/ \E v \in Eligible :
         /\ AnswerOf(v)
         /\ Incident(Cardinality(Cheaper(v)))
         /\ job' = next
    \/ /\ NoAnswer
       /\ Incident(Cardinality(Eligible))
       /\ job' = raised

\* branch_head(main), the context, and the plan.
ProposeGoal ==
    /\ job.at = "propose"
    /\ Propose([job EXCEPT !.at = "branch", !.base = main], [job EXCEPT !.at = "raised"])
    /\ UNCHANGED <<world, goals, setup, meddling>>

CreateBranch ==
    /\ job.at = "branch"
    /\ IF BranchFree(job.goal, job.base)
       THEN branches' = branches \union {<<job.goal, job.base>>} /\ Goto("open")
       ELSE Goto("raised") /\ UNCHANGED branches
    /\ UNCHANGED <<main, pulls, pool, goals, setup, incidents, meddling>>

\* commit_files on the branch, then create_pull_request.
OpenPull ==
    /\ job.at = "open"
    /\ pulls' = Append(pulls, NewPull(job.goal))
    /\ job' = [job EXCEPT !.at = "record", !.pull = Len(pulls) + 1]
    /\ UNCHANGED <<main, branches, pool, goals, setup, incidents, meddling>>

\* portfolio.update: the new head is the commit advance() made, not the one
\* the branch has by now.
RecordGoal ==
    /\ job.at = "record"
    /\ portfolio' = Updated(job.goal, [status |-> "verifying", pull |-> job.pull, head |-> 1])
    /\ Goto("returned")
    /\ UNCHANGED <<world, pool, generation, setup, incidents, meddling>>

-----------------------------------------------------------------------------
(* complete_merged_goal() *)

\* Mutation: the head is not compared with the goal's.
AuditAnyHead(g, p) == pulls[p].state = "merged" /\ HeadCheck(p) \in Acceptable
\* audit_merged_goal: every roadmap goal has acceptance criteria.
Accepted(g, p) ==
    /\ pulls[p].state = "merged"
    /\ portfolio[g].head = pulls[p].head
    /\ HeadCheck(p) \in Acceptable

\* No goal has this pull request, or the audit rejects it: the event is done.
CompleteNothing ==
    /\ job.at = "complete"
    /\ \A g \in ByPull(job.event.pull) : ~Accepted(g, job.event.pull)
    /\ Goto("returned")
    /\ UNCHANGED <<world, pool, goals, setup, incidents, meddling>>

CompleteAccepted ==
    /\ job.at = "complete"
    /\ \E g \in ByPull(job.event.pull) :
         /\ Accepted(g, job.event.pull)
         /\ job' = [job EXCEPT !.at = "update", !.goal = g]
    /\ UNCHANGED <<world, pool, goals, setup, incidents, meddling>>

\* A goal in progress has ended and none is left: the next one is started
\* with the same event.
Continue(more) == Goto(IF more THEN "advance" ELSE "returned")

UpdateCompleted ==
    /\ job.at = "update"
    /\ portfolio' = Updated(job.goal, [portfolio[job.goal] EXCEPT !.status = "completed"])
    /\ LET more == Active # {} /\ Active' = {} IN
         IF job.goal \in Roadmap
         THEN Continue(more)
         ELSE job' = [job EXCEPT !.at = "generation", !.more = more]
    /\ UNCHANGED <<world, pool, generation, setup, incidents, meddling>>

\* An excellence goal begins the next generation, also when it was completed
\* before.
NextGeneration ==
    /\ job.at = "generation"
    /\ generation' = generation + 1
    /\ Continue(job.more)
    /\ UNCHANGED <<world, pool, portfolio, setup, incidents, meddling>>

GovernorStep ==
    \/ AdvanceNothing \/ AdvanceReady \/ AdvanceExcellence
    \/ ProposeGoal \/ CreateBranch \/ OpenPull \/ RecordGoal
    \/ CompleteNothing \/ CompleteAccepted \/ UpdateCompleted \/ NextGeneration
=============================================================================
