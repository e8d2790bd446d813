-------------------------- MODULE AutonomyGoals_proofs --------------------------
(***************************************************************************)
(* More proofs about AutonomyLoop, for any roadmap without cycles and any   *)
(* providers, budgets, bounds and deployments: its types, its budgets, one  *)
(* goal at a time, completed goals stay, and continuous excellence comes    *)
(* after the roadmap.                                                       *)
(***************************************************************************)
EXTENDS AutonomyLoop_proofs, FiniteSetTheorems

-----------------------------------------------------------------------------
(* The call in hand                                                        *)

\* The same event goes on, under the same action.
Continues ==
    /\ job' \in Jobs
    /\ job.at \notin {"down", "idle"} /\ job'.at \notin {"down", "idle"}
    /\ job'.event = job.event /\ job'.path = job.path

LEMMA GotoContinues ==
    ASSUME job \in Jobs, job.at \notin {"down", "idle"},
           NEW l \in Stages \ {"down", "idle"}, Goto(l)
    PROVE  Continues /\ job'.at = l /\ job'.goal = job.goal /\ job'.pull = job.pull
BY DEF Goto, Jobs, Continues

LEMMA GovernorContinues ==
    ASSUME Shape, EventsInv, GovernorStep
    PROVE  Continues
<1>0. job \in Jobs /\ main \in Nat
  BY DEF Shape
<1>1. CASE AdvanceNothing \/ RecordGoal \/ CompleteNothing
  <2>1. Goto("returned") /\ job.at \notin {"down", "idle"}
    BY <1>1 DEF AdvanceNothing, RecordGoal, CompleteNothing
  <2> QED
    BY <1>0, <2>1, GotoContinues DEF Stages
<1>2. CASE AdvanceReady \/ AdvanceExcellence
  <2>1. PICK g \in Goals : job' = [job EXCEPT !.at = "propose", !.goal = g]
    BY <1>2 DEF AdvanceReady, AdvanceExcellence, Ready, EventsInv, KnownEvent
  <2>2. job.at = "advance"
    BY <1>2 DEF AdvanceReady, AdvanceExcellence
  <2> QED
    BY <1>0, <2>1, <2>2 DEF Jobs, Stages, Continues
<1>3. CASE ProposeGoal
  <2>1. job.at = "propose"
    BY <1>3 DEF ProposeGoal
  <2>2. CASE job' = [job EXCEPT !.at = "raised"]
    BY <1>0, <2>1, <2>2 DEF Jobs, Stages, Continues
  <2>3. CASE job' = [job EXCEPT !.at = "branch", !.base = main]
    BY <1>0, <2>1, <2>3 DEF Jobs, Stages, Continues
  <2> QED
    BY <1>3, <2>2, <2>3 DEF ProposeGoal, Propose
<1>4. CASE CreateBranch
  <2>1. (Goto("open") \/ Goto("raised")) /\ job.at = "branch"
    BY <1>4 DEF CreateBranch
  <2> QED
    BY <1>0, <2>1, GotoContinues DEF Stages
<1>5. CASE OpenPull
  <2>1. Len(pulls) + 1 \in Nat
    <3>1. pulls \in Seq(Pull)
      BY DEF Shape
    <3> QED
      BY <3>1
  <2>2. job' = [job EXCEPT !.at = "record", !.pull = Len(pulls) + 1] /\ job.at = "open"
    BY <1>5 DEF OpenPull
  <2> QED
    BY <1>0, <2>1, <2>2 DEF Jobs, Stages, Continues
<1>6. CASE CompleteAccepted
  <2>1. PICK g \in Goals : job' = [job EXCEPT !.at = "update", !.goal = g]
    BY <1>6 DEF CompleteAccepted, ByPull
  <2>2. job.at = "complete"
    BY <1>6 DEF CompleteAccepted
  <2> QED
    BY <1>0, <2>1, <2>2 DEF Jobs, Stages, Continues
<1>7. CASE UpdateCompleted
  <2>1. job.at = "update"
    BY <1>7 DEF UpdateCompleted
  <2>2. CASE Goto("advance") \/ Goto("returned")
    BY <1>0, <2>1, <2>2, GotoContinues DEF Stages
  <2>3. CASE job' = [job EXCEPT !.at = "generation", !.more = Active # {} /\ Active' = {}]
    BY <1>0, <2>1, <2>3 DEF Jobs, Stages, Continues
  <2> QED
    BY <1>7, <2>2, <2>3 DEF UpdateCompleted, Continue
<1>8. CASE NextGeneration
  <2>1. (Goto("advance") \/ Goto("returned")) /\ job.at = "generation"
    BY <1>8 DEF NextGeneration, Continue
  <2> QED
    BY <1>0, <2>1, GotoContinues DEF Stages
<1> QED
  BY <1>1, <1>2, <1>3, <1>4, <1>5, <1>6, <1>7, <1>8 DEF GovernorStep

LEMMA ExecutorContinues ==
    ASSUME Shape, EventsInv, Executor \/ CallRaises
    PROVE  Continues
<1>0. job \in Jobs
  BY DEF Shape
<1>1. CASE GovernorStep
  BY <1>1, GovernorContinues
<1>2. CASE RepairRefused \/ CountRepair \/ CountRerun \/ Note \/ CommitRepair \/ Rerun \/ VerifyMerge
           \/ MergePull \/ CallRaises
  <2>1. Goto("raised") \/ Goto("returned") \/ Goto("count") \/ Goto("recount") \/ Goto("merge")
    BY <1>2 DEF RepairRefused, CountRepair, CountRerun, Note, CommitRepair, Rerun, VerifyMerge, MergePull,
       CallRaises
  <2>2. job.at \notin {"down", "idle"}
    BY <1>2 DEF RepairRefused, CountRepair, CountRerun, Note, CommitRepair, Rerun, VerifyMerge, MergePull,
       CallRaises
  <2> QED
    BY <1>0, <2>1, <2>2, GotoContinues DEF Stages
<1>3. CASE ProposeRepair
  <2>1. job.at = "repair" /\ (Goto("commit") \/ Goto("raised"))
    BY <1>3 DEF ProposeRepair, Propose, Goto
  <2> QED
    BY <1>0, <2>1, GotoContinues DEF Stages
<1> QED
  BY <1>1, <1>2, <1>3 DEF Executor, DevelopmentStep

\* Who else touches the call in hand.
LEMMA JobCases ==
    ASSUME Shape, EventsInv, [Next]_vars
    PROVE  \/ Start \/ Crash \/ Claim \/ Settle \/ SettleFailed
           \/ (Executor \/ CallRaises) /\ Continues
           \/ (RecoverLease \/ Heartbeat \/ Outside \/ UNCHANGED vars) /\ job' = job
<1>1. CASE Executor \/ CallRaises
  BY <1>1, ExecutorContinues
<1>2. CASE RecoverLease \/ Heartbeat \/ Outside \/ UNCHANGED vars
  <2>1. job' = job
    BY <1>2 DEF RecoverLease, Heartbeat, Outside, ChecksEnd, WorkflowPasses, PersonMerges, MergeRepeated,
       SignalArrives, vars
  <2> QED
    BY <1>2, <2>1
<1> QED
  BY <1>1, <1>2 DEF Next, Process

ClaimTakes(e, a) ==
    /\ CanRun(e, a)
    /\ a \in {"repair", "rerun"} => e.kind = "failed"
    /\ SetRow(e, [rows[e] EXCEPT !.status = "leased", !.attempts = @ + 1])
    /\ job' \in Jobs /\ job'.event = e /\ job'.path = a /\ job'.at = FirstStage(a)

LEMMA ClaimCases ==
    ASSUME Shape, EventsInv, Claim
    PROVE  \E e \in DOMAIN rows :
             /\ rows[e].status = "pending" /\ job.at = "idle"
             /\ \/ CompleteRow(e, rows[e].attempts + 1) /\ job' = job
                \/ \E a \in Paths : ClaimTakes(e, a)
<1>1. PICK e \in DOMAIN rows :
         /\ rows[e].status = "pending"
         /\ IF Candidates(e) = {}
            THEN CompleteRow(e, rows[e].attempts + 1) /\ job' = job
            ELSE LET best == CHOOSE i \in Candidates(e) : \A k \in Candidates(e) : i <= k
                     a == Ranking(e)[best] IN
                 /\ SetRow(e, [rows[e] EXCEPT !.status = "leased", !.attempts = @ + 1])
                 /\ job' = [Job(FirstStage(a)) EXCEPT !.event = e, !.path = a]
  BY DEF Claim
<1>2. CASE Candidates(e) = {}
  BY <1>1, <1>2 DEF Claim
<1>3. CASE Candidates(e) # {}
  <2> DEFINE best == CHOOSE i \in Candidates(e) : \A k \in Candidates(e) : i <= k
             a == Ranking(e)[best]
             j == Job(FirstStage(a))
  <2>1. best \in DOMAIN Ranking(e) /\ CanRun(e, Ranking(e)[best])
    <3>1. Candidates(e) \subseteq 1..3 /\ Candidates(e) \subseteq DOMAIN Ranking(e)
      BY DEF Candidates, Ranking, Shape, Events
    <3>2. \E i \in Candidates(e) : \A k \in Candidates(e) : i <= k
      BY <1>3, <3>1
    <3>3. best \in Candidates(e)
      BY <3>2
    <3> QED
      BY <3>1, <3>3 DEF Candidates
  <2>2. e \in Events
    BY DEF Shape
  <2>3. a \in Paths /\ (a \in {"repair", "rerun"} => e.kind = "failed")
    BY <2>1, <2>2 DEF Ranking, Events, Paths
  <2>4. CanRun(e, a)
    BY <2>1
  <2>5. SetRow(e, [rows[e] EXCEPT !.status = "leased", !.attempts = @ + 1])
        /\ job' = [j EXCEPT !.event = e, !.path = a]
    BY <1>1, <1>3
  <2> HIDE DEF a
  <2>6. FirstStage(a) \in Stages
    BY <2>3 DEF FirstStage, Paths, Stages
  <2>7. j \in Jobs /\ j.at = FirstStage(a)
    BY <2>6, JobType
  <2> HIDE DEF j
  <2>8. job' \in Jobs /\ job'.event = e /\ job'.path = a /\ job'.at = FirstStage(a)
    BY <2>2, <2>3, <2>5, <2>7 DEF Jobs
  <2>9. ClaimTakes(e, a)
    BY <2>3, <2>4, <2>5, <2>8 DEF ClaimTakes
  <2> QED
    BY <1>1, <2>3, <2>9 DEF Claim
<1> QED
  BY <1>2, <1>3

-----------------------------------------------------------------------------
(* Incidents and paid calls                                                *)

LEMMA IncidentMoves ==
    ASSUME incidents \in Nat, NEW n \in Nat, Incident(n)
    PROVE  incidents' \in Nat /\ incidents <= incidents'
BY DEF Incident

LEMMA TriedFinite ==
    ASSUME NEW tried \in SUBSET Eligible
    PROVE  IsFiniteSet(tried) /\ Cardinality(tried) \in Nat
<1>1. IsFiniteSet(Providers)
  BY FS_Interval, ProviderAssumption DEF Providers
<1>2. IsFiniteSet(tried)
  BY <1>1, FS_Subset DEF Eligible
<1> QED
  BY <1>2, FS_CardinalityType

\* At most one provider is paid, and it is tried only within the budget.
LEMMA ChargedMoves ==
    ASSUME paidUsed \in 0..PaidBudget, paidCalls \in Nat, NEW tried \in SUBSET Eligible, Charged(tried)
    PROVE  /\ paidUsed' \in 0..PaidBudget /\ paidCalls' \in Nat
           /\ paidCalls' - paidUsed' = paidCalls - paidUsed
<1> DEFINE c == Cardinality(tried \intersect Paid)
<1>1. paidUsed' = paidUsed + c /\ paidCalls' = paidCalls + c
  BY DEF Charged
<1>2. CASE tried \intersect Paid = {}
  <2>1. c = 0
    BY <1>2, FS_EmptySet
  <2> QED
    BY <1>1, <2>1
<1>3. CASE tried \intersect Paid # {}
  <2>1. tried \intersect Paid = {ProviderCount}
    BY <1>3, ProviderAssumption
  <2>2. c = 1
    BY <2>1, FS_Singleton
  <2>3. paidUsed < PaidBudget
    BY <2>1 DEF Eligible, Admits
  <2>4. PaidBudget \in Nat
    BY ProviderAssumption
  <2> HIDE DEF c
  <2> QED
    BY <1>1, <2>2, <2>3, <2>4
<1> QED
  BY <1>2, <1>3

LEMMA RecordedMoves ==
    ASSUME health \in [Providers -> 0..HealthThreshold], NEW failed \in SUBSET Eligible, NEW answered,
           Recorded(failed, answered)
    PROVE  health' \in [Providers -> 0..HealthThreshold]
<1>1. HealthThreshold \in Nat
  BY ProviderAssumption
<1>2. ASSUME NEW v \in Providers
      PROVE  (IF v \in answered THEN 0 ELSE IF v \in failed THEN health[v] + 1 ELSE health[v])
               \in 0..HealthThreshold
  BY <1>1, <1>2 DEF Eligible, Healthy
<1> QED
  BY <1>2 DEF Recorded

PoolOk == PoolTypeOK /\ incidents \in Nat

LEMMA ProposeMoves ==
    ASSUME PoolOk, NEW next, NEW raised, Propose(next, raised)
    PROVE  /\ PoolOk' /\ incidents <= incidents'
           /\ paidCalls' - paidUsed' = paidCalls - paidUsed
<1>1. CASE NoAnswer /\ Incident(Cardinality(Eligible))
  <2>1. incidents' \in Nat /\ incidents <= incidents'
    BY <1>1, IncidentMoves, TriedFinite DEF PoolOk, PoolTypeOK
  <2>2. health' \in [Providers -> 0..HealthThreshold]
    BY <1>1, RecordedMoves DEF NoAnswer, PoolOk, PoolTypeOK
  <2> QED
    BY <1>1, <2>1, <2>2, ChargedMoves DEF NoAnswer, PoolOk, PoolTypeOK
<1>2. ASSUME NEW v \in Eligible, AnswerOf(v), Incident(Cardinality(Cheaper(v)))
      PROVE  PoolOk' /\ incidents <= incidents' /\ paidCalls' - paidUsed' = paidCalls - paidUsed
  <2>0. Cheaper(v) \in SUBSET Eligible /\ Cheaper(v) \union {v} \in SUBSET Eligible
    BY DEF Cheaper
  <2>1. incidents' \in Nat /\ incidents <= incidents'
    BY <1>2, <2>0, IncidentMoves, TriedFinite DEF PoolOk, PoolTypeOK
  <2>2. health' \in [Providers -> 0..HealthThreshold]
    BY <1>2, <2>0, RecordedMoves DEF AnswerOf, PoolOk, PoolTypeOK
  <2> QED
    BY <1>2, <2>0, <2>1, <2>2, ChargedMoves DEF AnswerOf, PoolOk, PoolTypeOK
<1> QED
  BY <1>1, <1>2 DEF Propose

\* The steps that make no paid call.
Unpaid ==
    \/ RecoverLease \/ Claim \/ Settle \/ SettleFailed \/ Heartbeat \/ Outside \/ UNCHANGED vars
    \/ MergePull \/ CallRaises \/ RepairRefused \/ CommitRepair \/ CountRepair \/ Rerun \/ CountRerun
    \/ VerifyMerge \/ Note
    \/ GovernorStep /\ ~ ProposeGoal

LEMMA UnpaidMoves ==
    ASSUME incidents \in Nat, Unpaid
    PROVE  UNCHANGED pool /\ incidents' \in Nat /\ incidents <= incidents'
<1>1. CASE CallRaises \/ MergeRepeated
  <2>1. UNCHANGED pool /\ Incident(1)
    BY <1>1 DEF CallRaises, MergeRepeated
  <2> QED
    BY <2>1, IncidentMoves
<1>2. CASE RecoverLease \/ Claim \/ Settle \/ SettleFailed \/ Heartbeat \/ (Outside /\ ~ MergeRepeated)
           \/ UNCHANGED vars
  <2>1. UNCHANGED pool /\ incidents' = incidents
    BY <1>2 DEF RecoverLease, Claim, Settle, SettleFailed, Heartbeat, Outside, ChecksEnd, WorkflowPasses,
       PersonMerges, SignalArrives, People, PersonPushes, PersonCloses, MainMoves, vars
  <2> QED
    BY <2>1
<1>3. CASE MergePull \/ RepairRefused \/ CommitRepair \/ CountRepair \/ Rerun \/ CountRerun
           \/ VerifyMerge \/ Note
  <2>1. UNCHANGED pool /\ incidents' = incidents
    BY <1>3 DEF MergePull, RepairRefused, CommitRepair, CountRepair, Rerun, CountRerun, VerifyMerge, Note
  <2> QED
    BY <2>1
<1>4. CASE GovernorStep /\ ~ ProposeGoal
  <2>1. UNCHANGED pool /\ incidents' = incidents
    BY <1>4 DEF GovernorStep, AdvanceNothing, AdvanceReady, AdvanceExcellence, CreateBranch, OpenPull,
       RecordGoal, CompleteNothing, CompleteAccepted, UpdateCompleted, NextGeneration
  <2> QED
    BY <2>1
<1> QED
  BY <1>1, <1>2, <1>3, <1>4 DEF Unpaid

LEMMA PaidCases ==
    ASSUME [Next]_vars
    PROVE  Start \/ Crash \/ ProposeGoal \/ ProposeRepair \/ Unpaid
BY DEF Next, Process, Executor, DevelopmentStep, GovernorStep, Unpaid

LEMMA PoolMoves ==
    ASSUME PoolOk, [Next]_vars
    PROVE  PoolOk' /\ incidents <= incidents'
<1>1. CASE Start
  <2>1. health' = health /\ paidUsed' = 0 /\ paidCalls' = paidCalls /\ incidents' = incidents
    BY <1>1 DEF Start
  <2> QED
    BY <2>1, ProviderAssumption DEF PoolOk, PoolTypeOK
<1>2. CASE Crash
  <2>1. UNCHANGED pool /\ Incident(1)
    BY <1>2 DEF Crash
  <2> QED
    BY <2>1, IncidentMoves DEF PoolOk, PoolTypeOK, pool
<1>3. CASE ProposeGoal \/ ProposeRepair
  BY <1>3, ProposeMoves DEF ProposeGoal, ProposeRepair
<1>4. CASE Unpaid
  BY <1>4, UnpaidMoves DEF PoolOk, PoolTypeOK, pool
<1> QED
  BY <1>1, <1>2, <1>3, <1>4, PaidCases

\* Only a crash brings the process down.
LEMMA DownMoves ==
    ASSUME Shape, EventsInv, [Next]_vars, job'.at = "down"
    PROVE  Crash \/ (job.at = "down" /\ job' = job)
<1>1. CASE Start \/ Settle \/ SettleFailed
  <2>1. job' = Job("idle")
    BY <1>1 DEF Start, Settle, SettleFailed
  <2> QED
    BY <2>1 DEF Job
<1>2. CASE Claim
  <2>1. job.at = "idle" /\ (job' = job \/ \E a \in Paths : job'.at = FirstStage(a))
    BY <1>2, ClaimCases DEF ClaimTakes
  <2> QED
    BY <2>1 DEF FirstStage, Paths
<1> QED
  BY <1>1, <1>2, JobCases DEF Continues

LEMMA PaidSum ==
    ASSUME NEW b \in Nat, NEW i \in Nat, NEW j \in Nat, i <= j,
           NEW c \in Nat, NEW d \in Nat, NEW u \in Nat, NEW v \in Nat, u <= b
    PROVE  /\ c <= b * i => c <= b * j /\ c <= b * j + v
           /\ c <= b * i + u /\ j = i + 1 => c <= b * j /\ c <= b * j + v
           /\ c <= b * i + u /\ d - v = c - u => d <= b * j + v
<1> DEFINE k == j - i
<1>1. k \in Nat /\ j = i + k
  OBVIOUS
<1> HIDE DEF k
<1>2. b * i \in Nat /\ b * k \in Nat /\ b * j \in Nat
  BY <1>1
<1>3. b * j = b * i + b * k
  BY <1>1
<1>4. k = 1 => b * k = b
  OBVIOUS
<1> QED
  BY <1>1, <1>2, <1>3, <1>4

LEMMA PaidStep == Shape /\ EventsInv /\ PaidInv /\ [Next]_vars => PaidInv'
<1> SUFFICES ASSUME Shape, EventsInv, PaidInv, [Next]_vars PROVE PaidInv'
  OBVIOUS
<1>p. PoolOk /\ PoolOk'
  BY PoolMoves DEF PaidInv, PoolOk
<1>0. PaidBudget \in Nat /\ incidents <= incidents'
  BY PoolMoves, ProviderAssumption DEF PaidInv, PoolOk
<1>1. /\ paidUsed \in Nat /\ paidUsed' \in Nat /\ paidUsed <= PaidBudget
      /\ paidCalls \in Nat /\ paidCalls' \in Nat
      /\ incidents \in Nat /\ incidents' \in Nat
  BY <1>p, <1>0 DEF PoolOk, PoolTypeOK
<1>2. /\ paidCalls <= PaidBudget * incidents =>
           paidCalls <= PaidBudget * incidents' /\ paidCalls <= PaidBudget * incidents' + paidUsed'
      /\ paidCalls <= PaidBudget * incidents + paidUsed /\ incidents' = incidents + 1 =>
           paidCalls <= PaidBudget * incidents' /\ paidCalls <= PaidBudget * incidents' + paidUsed'
      /\ paidCalls <= PaidBudget * incidents + paidUsed /\ paidCalls' - paidUsed' = paidCalls - paidUsed =>
           paidCalls' <= PaidBudget * incidents' + paidUsed'
  BY <1>0, <1>1, PaidSum
<1>3. CASE Start
  <2>1. paidCalls' = paidCalls /\ job.at = "down"
    BY <1>3 DEF Start
  <2>2. paidCalls <= PaidBudget * incidents
    BY <2>1 DEF PaidInv
  <2> QED
    BY <1>p, <1>2, <2>1, <2>2 DEF PaidInv, PoolOk
<1>4. CASE Crash
  <2>1. paidCalls' = paidCalls /\ incidents' = incidents + 1
    BY <1>4 DEF Crash, Incident, pool
  <2>2. paidCalls <= PaidBudget * incidents + paidUsed
    BY DEF PaidInv
  <2> QED
    BY <1>p, <1>2, <2>1, <2>2 DEF PaidInv, PoolOk
<1>5. CASE ~ Start /\ ~ Crash
  <2>1. paidCalls' - paidUsed' = paidCalls - paidUsed
    <3>1. CASE ProposeGoal \/ ProposeRepair
      BY <1>p, <3>1, ProposeMoves DEF ProposeGoal, ProposeRepair
    <3>2. CASE Unpaid
      BY <1>1, <3>2, UnpaidMoves DEF pool
    <3> QED
      BY <1>5, <3>1, <3>2, PaidCases
  <2>2. ASSUME job'.at = "down" PROVE paidCalls' <= PaidBudget * incidents'
    <3>1. job.at = "down" /\ job' = job
      BY <1>5, <2>2, DownMoves
    <3>2. Unpaid
      BY <1>5, <3>1, PaidCases DEF ProposeGoal, ProposeRepair
    <3>3. paidCalls' = paidCalls
      BY <1>1, <3>2, UnpaidMoves DEF pool
    <3>4. paidCalls <= PaidBudget * incidents
      BY <3>1 DEF PaidInv
    <3> QED
      BY <1>2, <3>3, <3>4
  <2>3. paidCalls <= PaidBudget * incidents + paidUsed
    BY DEF PaidInv
  <2> QED
    BY <1>p, <1>2, <2>1, <2>2, <2>3 DEF PaidInv, PoolOk
<1> QED
  BY <1>3, <1>4, <1>5

-----------------------------------------------------------------------------
(* Pull requests: what stays of one                                        *)

\* None is opened again.
Kept(p) == p \in DOMAIN pulls /\ (pulls'[p].state = "open" => pulls[p].state = "open")

\* Repairs are what CommitRepair commits.
FixesNext(p) ==
    \/ p \notin DOMAIN pulls /\ OpenPull /\ p = Len(pulls) + 1 /\ pulls'[p].fixes = 0
    \/ Kept(p) /\ pulls'[p].fixes = pulls[p].fixes
    \/ /\ Kept(p) /\ pulls'[p].fixes = pulls[p].fixes + 1
       /\ CommitRepair /\ p = job.event.pull /\ Goto("count")

LEMMA FixesReplaced ==
    ASSUME Shape, NEW p \in DOMAIN pulls, NEW b, pulls' = [pulls EXCEPT ![p] = b],
           b.state = "open" => pulls[p].state = "open",
           \/ b.fixes = pulls[p].fixes
           \/ b.fixes = pulls[p].fixes + 1 /\ CommitRepair /\ p = job.event.pull /\ Goto("count")
    PROVE  \A q \in DOMAIN pulls' : FixesNext(q)
<1>1. pulls \in Seq(Pull)
  BY DEF Shape
<1>2. DOMAIN pulls' = DOMAIN pulls /\ pulls'[p] = b /\ \A q \in DOMAIN pulls : q # p => pulls'[q] = pulls[q]
  BY <1>1
<1> QED
  BY <1>2 DEF FixesNext, Kept

LEMMA FixesCommitted ==
    ASSUME Shape, NEW p \in DOMAIN pulls, NEW fix \in {0, 1}, pulls' = [pulls EXCEPT ![p] = Committed(p, fix)],
           fix = 1 => CommitRepair /\ p = job.event.pull /\ Goto("count")
    PROVE  \A q \in DOMAIN pulls' : FixesNext(q)
<1> DEFINE a == pulls[p]
           b == Committed(p, fix)
<1>1. a \in Pull /\ a.fixes \in Nat
  BY ShapePulls DEF PullsOk, OkPull, Pull
<1>2. b.state = a.state /\ b.fixes = a.fixes + fix
  BY <1>1 DEF Committed, Pull
<1>3. \/ fix = 0 /\ b.fixes = a.fixes
      \/ fix = 1 /\ b.fixes = a.fixes + 1
  BY <1>1, <1>2
<1>4. pulls' = [pulls EXCEPT ![p] = b]
  OBVIOUS
<1> HIDE DEF b
<1> QED
  BY <1>2, <1>3, <1>4, FixesReplaced

LEMMA FixesClosed ==
    ASSUME Shape, NEW p \in DOMAIN pulls, pulls[p].state = "open",
           \/ pulls' = [pulls EXCEPT ![p].state = "closed"]
           \/ \E who : pulls' = [pulls EXCEPT ![p].state = "merged", ![p].by = who]
    PROVE  \A q \in DOMAIN pulls' : FixesNext(q)
<1>1. pulls \in Seq(Pull) /\ pulls[p] \in Pull
  BY ShapePulls DEF PullsOk, OkPull
<1>2. CASE pulls' = [pulls EXCEPT ![p].state = "closed"]
  <2> DEFINE b == [pulls[p] EXCEPT !.state = "closed"]
  <2>1. b.state = "closed" /\ b.fixes = pulls[p].fixes /\ pulls' = [pulls EXCEPT ![p] = b]
    BY <1>1, <1>2 DEF Pull
  <2> HIDE DEF b
  <2> QED
    BY <2>1, FixesReplaced
<1>3. ASSUME NEW who, pulls' = [pulls EXCEPT ![p].state = "merged", ![p].by = who]
      PROVE  \A q \in DOMAIN pulls' : FixesNext(q)
  <2> DEFINE b == [pulls[p] EXCEPT !.state = "merged", !.by = who]
  <2>1. b.state = "merged" /\ b.fixes = pulls[p].fixes /\ pulls' = [pulls EXCEPT ![p] = b]
    BY <1>1, <1>3 DEF Pull
  <2> HIDE DEF b
  <2> QED
    BY <2>1, FixesReplaced
<1> QED
  BY <1>2, <1>3

LEMMA FixesChecked ==
    ASSUME Shape, NEW p \in DOMAIN pulls, NEW h, NEW c, pulls' = [pulls EXCEPT ![p].checks[h] = c]
    PROVE  \A q \in DOMAIN pulls' : FixesNext(q)
<1> DEFINE b == [pulls[p] EXCEPT !.checks[h] = c]
<1>1. pulls \in Seq(Pull) /\ pulls[p] \in Pull
  BY ShapePulls DEF PullsOk, OkPull
<1>2. b.state = pulls[p].state /\ b.fixes = pulls[p].fixes /\ pulls' = [pulls EXCEPT ![p] = b]
  BY <1>1 DEF Pull
<1> HIDE DEF b
<1> QED
  BY <1>2, FixesReplaced

LEMMA FixesMove ==
    ASSUME Shape, EventsInv, [Next]_vars
    PROVE  \A p \in DOMAIN pulls' : FixesNext(p)
<1>1. CASE pulls' = pulls
  BY <1>1 DEF FixesNext, Kept
<1>2. CASE OpenPull
  <2>1. OkPull(NewPull(job.goal)) /\ pulls' = Append(pulls, NewPull(job.goal)) /\ NewPull(job.goal).fixes = 0
    <3>1. job.goal \in Goals
      BY <1>2 DEF OpenPull, EventsInv
    <3>2. <<"pending">> \in Seq(Check) /\ 1 \in DOMAIN <<"pending">>
      BY DEF Check
    <3> QED
      BY <1>2, <3>1, <3>2 DEF OpenPull, NewPull, OkPull, Pull
  <2>2. /\ DOMAIN pulls' = DOMAIN pulls \union {Len(pulls) + 1}
        /\ pulls'[Len(pulls) + 1] = NewPull(job.goal)
        /\ \A q \in DOMAIN pulls : pulls'[q] = pulls[q]
    BY <2>1, ShapePulls, PullsAppended
  <2>3. Len(pulls) + 1 \notin DOMAIN pulls
    <3>1. pulls \in Seq(Pull)
      BY DEF Shape
    <3> QED
      BY <3>1
  <2> QED
    BY <1>2, <2>1, <2>2, <2>3 DEF FixesNext, Kept
<1>3. CASE CommitRepair
  <2>1. job.event.pull \in DOMAIN pulls
    BY <1>3 DEF CommitRepair, EventsInv, KnownEvent
  <2> QED
    BY <1>1, <1>3, <2>1, FixesCommitted DEF CommitRepair
<1>4. CASE Rerun
  <2>1. job.event.pull \in DOMAIN pulls
    BY <1>4 DEF Rerun, EventsInv, KnownEvent
  <2> QED
    BY <1>1, <1>4, <2>1, FixesChecked DEF Rerun
<1>5. CASE MergePull
  <2>1. job.event.pull \in DOMAIN pulls
    BY <1>5 DEF MergePull, EventsInv, KnownEvent
  <2> QED
    BY <1>1, <1>5, <2>1, FixesClosed DEF MergePull, MergeAllowed, Merge, world
<1>6. CASE ChecksEnd
  <2>1. PICK p \in DOMAIN pulls : \E c \in setup.checks \ {"pending"} :
          pulls' = [pulls EXCEPT ![p].checks[pulls[p].head] = c]
    BY <1>6 DEF ChecksEnd
  <2> QED
    BY <2>1, FixesChecked
<1>7. CASE PersonMerges
  <2>1. PICK p \in DOMAIN pulls : pulls[p].state = "open" /\ Merge(p, "person")
    BY <1>7 DEF PersonMerges
  <2> QED
    BY <2>1, FixesClosed DEF Merge
<1>8. CASE People
  <2>1. CASE PersonPushes
    <3>1. PICK p \in DOMAIN pulls : pulls' = [pulls EXCEPT ![p] = Committed(p, 0)]
      BY <2>1 DEF PersonPushes
    <3>2. 0 \in {0, 1} /\ 0 # 1
      OBVIOUS
    <3> QED
      BY <3>1, <3>2, FixesCommitted
  <2>2. CASE PersonCloses
    <3>1. PICK p \in DOMAIN pulls : pulls[p].state = "open" /\ pulls' = [pulls EXCEPT ![p].state = "closed"]
      BY <2>2 DEF PersonCloses
    <3> QED
      BY <3>1, FixesClosed
  <2> QED
    BY <1>1, <1>8, <2>1, <2>2 DEF People, MainMoves
<1>9. CASE Start \/ RecoverLease \/ Claim \/ Settle \/ SettleFailed \/ Heartbeat \/ Crash \/ CallRaises
           \/ WorkflowPasses \/ MergeRepeated \/ SignalArrives \/ UNCHANGED vars
  <2>1. pulls' = pulls
    BY <1>9 DEF Start, RecoverLease, Claim, Settle, SettleFailed, Heartbeat, Crash, CallRaises,
       WorkflowPasses, MergeRepeated, SignalArrives, vars, world
  <2> QED
    BY <1>1, <2>1
<1>10. CASE GovernorStep /\ ~ OpenPull
  <2>1. pulls' = pulls
    BY <1>10 DEF GovernorStep, AdvanceNothing, AdvanceReady, AdvanceExcellence, ProposeGoal, CreateBranch,
       RecordGoal, CompleteNothing, CompleteAccepted, UpdateCompleted, NextGeneration, world
  <2> QED
    BY <1>1, <2>1
<1>11. CASE RepairRefused \/ ProposeRepair \/ CountRepair \/ CountRerun \/ VerifyMerge \/ Note
  <2>1. pulls' = pulls
    BY <1>11 DEF RepairRefused, ProposeRepair, CountRepair, CountRerun, VerifyMerge, Note, world
  <2> QED
    BY <1>1, <2>1
<1> QED
  BY <1>2, <1>3, <1>4, <1>5, <1>6, <1>7, <1>8, <1>9, <1>10, <1>11
     DEF Next, Process, Outside, Executor, DevelopmentStep

-----------------------------------------------------------------------------
(* Repairs                                                                 *)

LEMMA CountStages ==
    ASSUME Shape, EventsInv, [Next]_vars, job.at = "count"
    PROVE  job' = job \/ CountRepair \/ Crash \/ CallRaises
<1>1. CASE Executor
  BY <1>1 DEF Executor, DevelopmentStep, MergePull, RepairRefused, ProposeRepair, CommitRepair, Rerun, CountRerun,
     VerifyMerge, Note, GovernorStep, AdvanceNothing, AdvanceReady, AdvanceExcellence, ProposeGoal, CreateBranch,
     OpenPull, RecordGoal, CompleteNothing, CompleteAccepted, UpdateCompleted, NextGeneration
<1> QED
  BY <1>1, JobCases DEF Start, Claim, Settle, SettleFailed

LEMMA GovernorStages ==
    ASSUME Shape, EventsInv, GovernorStep
    PROVE  job'.at \in {"propose", "branch", "open", "record", "update", "generation", "advance", "returned", "raised"}
<1>0. job \in Jobs
  BY DEF Shape
<1>1. CASE AdvanceNothing \/ RecordGoal \/ CompleteNothing \/ CreateBranch \/ NextGeneration
  <2>1. \E l \in {"returned", "open", "raised", "advance"} : Goto(l)
    BY <1>1 DEF AdvanceNothing, RecordGoal, CompleteNothing, CreateBranch, NextGeneration, Continue
  <2> QED
    BY <1>0, <2>1 DEF Goto, Jobs
<1>2. CASE AdvanceReady \/ AdvanceExcellence \/ OpenPull \/ CompleteAccepted
  <2>1. \/ \E g : job' = [job EXCEPT !.at = "propose", !.goal = g] \/ job' = [job EXCEPT !.at = "update", !.goal = g]
        \/ \E p : job' = [job EXCEPT !.at = "record", !.pull = p]
    BY <1>2 DEF AdvanceReady, AdvanceExcellence, OpenPull, CompleteAccepted
  <2> QED
    BY <1>0, <2>1 DEF Jobs
<1>3. CASE ProposeGoal
  BY <1>0, <1>3 DEF ProposeGoal, Propose, Jobs
<1>4. CASE UpdateCompleted
  <2>1. \/ \E l \in {"returned", "advance"} : Goto(l)
        \/ \E m : job' = [job EXCEPT !.at = "generation", !.more = m]
    BY <1>4 DEF UpdateCompleted, Continue
  <2> QED
    BY <1>0, <2>1 DEF Goto, Jobs
<1> QED
  BY <1>1, <1>2, <1>3, <1>4 DEF GovernorStep

LEMMA RepairStages ==
    ASSUME Shape, EventsInv, [Next]_vars, job'.at \in {"commit", "count"}
    PROVE  \/ job' = job
           \/ ProposeRepair /\ Goto("commit")
           \/ CommitRepair /\ Goto("count")
<1>0. job \in Jobs
  BY DEF Shape
<1>1. CASE Executor
  <2>1. ~ GovernorStep
    BY GovernorStages
  <2>2. ASSUME NEW l \in {"raised", "returned", "recount", "merge"}, Goto(l) PROVE FALSE
    BY <1>0, <2>2 DEF Goto, Jobs
  <2> QED
    BY <1>1, <2>1, <2>2 DEF Executor, DevelopmentStep, MergePull, RepairRefused, ProposeRepair, CommitRepair, CountRepair,
       Rerun, CountRerun, VerifyMerge, Note, Propose, Goto
<1>2. CASE Start \/ Crash \/ Settle \/ SettleFailed
  <2>1. job' = Job("idle") \/ job' = Job("down")
    BY <1>2 DEF Start, Crash, Settle, SettleFailed
  <2> QED
    BY <2>1 DEF Job
<1>3. CASE CallRaises
  BY <1>0, <1>3 DEF CallRaises, Goto, Jobs
<1>4. CASE Claim
  <2>1. job' = job \/ \E a \in Paths : job'.at = FirstStage(a)
    BY <1>4, ClaimCases DEF ClaimTakes
  <2> QED
    BY <2>1 DEF FirstStage, Paths
<1> QED
  BY <1>1, <1>2, <1>3, <1>4, JobCases

LEMMA RepairsCases ==
    ASSUME [Next]_vars
    PROVE  CountRepair \/ repairs' = repairs
<1>1. CASE Executor
  BY <1>1 DEF Executor, DevelopmentStep, MergePull, RepairRefused, ProposeRepair, CommitRepair, Rerun, CountRerun,
     VerifyMerge, Note, budgets
<1>2. CASE ~ Executor
  BY <1>2 DEF Next, Process, Start, RecoverLease, Claim, Settle, SettleFailed, Heartbeat, Crash, CallRaises, Outside,
     ChecksEnd, WorkflowPasses, PersonMerges, MergeRepeated, SignalArrives, budgets, vars
<1> QED
  BY <1>1, <1>2

\* Counts are within the budget.
CountsOk == \A p \in DOMAIN repairs : repairs[p] \in 0..MaxRepairs

LEMMA CountMoves ==
    ASSUME CountsOk, RepairsInv, [Next]_vars
    PROVE  /\ CountsOk'
           /\ \A p : /\ CountOf(repairs, p) \in Nat /\ CountOf(repairs', p) \in Nat
                     /\ CountOf(repairs, p) <= MaxRepairs /\ CountOf(repairs', p) <= MaxRepairs
                     /\ \/ repairs' = repairs /\ CountOf(repairs', p) = CountOf(repairs, p)
                        \/ /\ CountRepair
                           /\ CountOf(repairs', p) =
                                CountOf(repairs, p) + (IF p = job.event.pull THEN 1 ELSE 0)
<1>0. MaxRepairs \in Nat
  BY DevelopmentAssumption
<1>1. ASSUME NEW p PROVE CountOf(repairs, p) \in Nat /\ CountOf(repairs, p) <= MaxRepairs
  BY <1>0 DEF CountOf, CountsOk
<1>2. CASE repairs' = repairs
  BY <1>1, <1>2 DEF CountsOk
<1>3. CASE CountRepair
  <2> DEFINE q == job.event.pull
  <2>1. CountOf(repairs, q) < MaxRepairs /\ repairs' = Counted(repairs, q)
    BY <1>3 DEF CountRepair, RepairsInv
  <2>2. DOMAIN repairs' = DOMAIN repairs \union {q} /\ repairs'[q] = CountOf(repairs, q) + 1
        /\ \A p \in DOMAIN repairs : p # q => repairs'[p] = repairs[p]
    BY <2>1 DEF Counted
  <2> HIDE DEF q
  <2>3. CountsOk'
    BY <1>0, <1>1, <2>1, <2>2 DEF CountsOk
  <2>4. ASSUME NEW p
        PROVE  CountOf(repairs', p) = CountOf(repairs, p) + (IF p = q THEN 1 ELSE 0)
    <3>1. CASE p = q
      BY <2>2, <3>1 DEF CountOf
    <3>2. CASE p # q
      <4>1. CountOf(repairs', p) = CountOf(repairs, p)
        BY <2>2, <3>2 DEF CountOf
      <4> QED
        BY <1>1, <3>2, <4>1
    <3> QED
      BY <3>1, <3>2
  <2>5. ASSUME NEW p PROVE CountOf(repairs', p) \in Nat /\ CountOf(repairs', p) <= MaxRepairs
    BY <1>0, <2>3 DEF CountOf, CountsOk
  <2> QED
    BY <1>1, <1>3, <2>3, <2>4, <2>5 DEF q
<1> QED
  BY <1>2, <1>3, RepairsCases

LEMMA FixesSum ==
    ASSUME NEW f \in Nat, NEW c \in Nat, NEW d \in Nat, NEW u \in Nat, NEW v \in Nat, NEW i \in Nat, NEW j \in Nat,
           f <= c + u + i, i <= j, c <= d
    PROVE  /\ u <= v => f <= d + v + j
           /\ u <= 1 /\ c + 1 = d => f <= d + v + j
           /\ u <= 1 /\ i + 1 = j => f <= d + v + j
           /\ u = 0 /\ v = 1 => f + 1 <= d + v + j
OBVIOUS

LEMMA RepairsStep ==
    Shape /\ EventsInv /\ Shape' /\ PaidInv /\ RepairsInv /\ [Next]_vars => RepairsInv'
<1> SUFFICES ASSUME Shape, EventsInv, Shape', PaidInv, RepairsInv, [Next]_vars PROVE RepairsInv'
  OBVIOUS
<1>1. PoolOk /\ PoolOk' /\ CountsOk
  BY PoolMoves DEF PaidInv, PoolOk, RepairsInv, CountsOk
<1>2. incidents \in Nat /\ incidents' \in Nat /\ incidents <= incidents'
  BY <1>1, PoolMoves DEF PoolOk
<1>3. CountsOk'
  BY <1>1, CountMoves
<1>4. ASSUME job'.at \in {"commit", "count"}
      PROVE  CountOf(repairs', job'.event.pull) < MaxRepairs
  <2>1. job \in Jobs
    BY DEF Shape
  <2>2. CASE job' = job
    <3>1. ~ CountRepair
      BY <1>4, <2>1, <2>2 DEF CountRepair, Goto, Jobs
    <3> QED
      BY <1>4, <2>2, <3>1, RepairsCases DEF RepairsInv
  <2>3. CASE ProposeRepair /\ Goto("commit")
    <3>1. repairs' = repairs /\ job'.event = job.event
      BY <2>1, <2>3, GotoType DEF ProposeRepair, budgets, Stages, Goto
    <3> QED
      BY <2>3, <3>1 DEF ProposeRepair, RepairAdmitted, RepairLeft
  <2>4. CASE CommitRepair /\ Goto("count")
    <3>1. repairs' = repairs /\ job'.event = job.event /\ job.at = "commit"
      BY <2>1, <2>4, GotoType DEF CommitRepair, budgets, Stages, Goto
    <3> QED
      BY <3>1 DEF RepairsInv
  <2> QED
    BY <1>4, <2>2, <2>3, <2>4, RepairStages
<1>5. ASSUME NEW p \in DOMAIN pulls'
      PROVE  pulls'[p].fixes <= CountOf(repairs', p) + Uncounted(p)' + incidents'
  <2> DEFINE c == CountOf(repairs, p)
             d == CountOf(repairs', p)
             u == Uncounted(p)
             v == Uncounted(p)'
             f == pulls[p].fixes
  <2>1. c \in Nat /\ d \in Nat /\ c <= d
    BY <1>1, CountMoves
  <2>2. u \in {0, 1} /\ v \in {0, 1}
    BY DEF Uncounted
  <2>3. p \in DOMAIN pulls => f \in Nat /\ f <= c + u + incidents
    BY ShapePulls DEF RepairsInv, PullsOk, OkPull, Pull
  <2>4. p \in DOMAIN pulls /\ u = 1 => \/ v = 1
                                       \/ c + 1 = d
                                       \/ incidents + 1 = incidents'
    <3>1. CASE job.at = "count" /\ job.event.pull = p
      <4>1. CASE job' = job
        BY <3>1, <4>1 DEF Uncounted
      <4>2. CASE CountRepair
        <5>1. repairs' # repairs
          <6>1. repairs' = Counted(repairs, p)
            BY <3>1, <4>2 DEF CountRepair
          <6>2. p \in DOMAIN repairs' /\ repairs'[p] = c + 1
            BY <6>1 DEF Counted
          <6>3. CountOf(repairs', p) = c + 1
            BY <6>2 DEF CountOf
          <6> QED
            BY <2>1, <6>3
        <5>2. d = c + (IF p = job.event.pull THEN 1 ELSE 0)
          BY <1>1, <5>1, CountMoves
        <5> QED
          BY <3>1, <5>2
      <4>3. CASE Crash \/ CallRaises
        BY <4>3 DEF Crash, CallRaises, Incident
      <4> QED
        BY <3>1, <4>1, <4>2, <4>3, CountStages
    <3> QED
      BY <3>1 DEF Uncounted
  <2>5. CASE p \notin DOMAIN pulls /\ pulls'[p].fixes = 0
    <3> HIDE DEF c, d, u, v, f
    <3> QED
      BY <1>2, <2>1, <2>2, <2>5 DEF d, v
  <2>6. CASE p \in DOMAIN pulls /\ pulls'[p].fixes = f
    <3> HIDE DEF c, d, u, v, f
    <3>1. f <= d + v + incidents'
      <4>1. CASE u <= v
        BY <1>2, <2>1, <2>2, <2>3, <2>6, <4>1, FixesSum
      <4>2. CASE u = 1 /\ v = 0
        BY <1>2, <2>1, <2>2, <2>3, <2>4, <2>6, <4>2, FixesSum
      <4> QED
        BY <2>2, <4>1, <4>2
    <3> QED
      BY <2>6, <3>1 DEF d, v
  <2>7. CASE p \in DOMAIN pulls /\ pulls'[p].fixes = f + 1 /\ CommitRepair /\ p = job.event.pull /\ Goto("count")
    <3>1. u = 0
      BY <2>7 DEF CommitRepair, Uncounted
    <3>2. v = 1
      <4>1. job' \in Jobs /\ job'.at = "count" /\ job'.event = job.event
        BY <2>7, GotoType DEF Goto, Stages, Shape
      <4> QED
        BY <2>7, <4>1 DEF Uncounted
    <3> HIDE DEF c, d, u, v, f
    <3>3. f + 1 <= d + v + incidents'
      BY <1>2, <2>1, <2>3, <2>7, <3>1, <3>2, FixesSum
    <3> QED
      BY <2>7, <3>3 DEF d, v
  <2> QED
    BY <2>5, <2>6, <2>7, FixesMove DEF FixesNext, Kept
<1> QED
  BY <1>3, <1>4, <1>5 DEF RepairsInv, CountsOk

-----------------------------------------------------------------------------
(* Reruns                                                                  *)

LEMMA RecountStages ==
    ASSUME Shape, EventsInv, [Next]_vars, job.at = "recount"
    PROVE  job' = job \/ CountRerun \/ Crash \/ CallRaises
<1>1. CASE Executor
  BY <1>1 DEF Executor, DevelopmentStep, MergePull, RepairRefused, ProposeRepair, CommitRepair, CountRepair, Rerun,
     VerifyMerge, Note, GovernorStep, AdvanceNothing, AdvanceReady, AdvanceExcellence, ProposeGoal, CreateBranch,
     OpenPull, RecordGoal, CompleteNothing, CompleteAccepted, UpdateCompleted, NextGeneration
<1> QED
  BY <1>1, JobCases DEF Start, Claim, Settle, SettleFailed

LEMMA RerunStages ==
    ASSUME Shape, EventsInv, [Next]_vars, job'.at = "recount"
    PROVE  job' = job \/ (Rerun /\ Goto("recount"))
<1>0. job \in Jobs
  BY DEF Shape
<1>1. CASE Executor
  <2>1. ~ GovernorStep
    BY GovernorStages
  <2>2. ASSUME NEW l \in {"raised", "returned", "commit", "count", "merge"}, Goto(l) PROVE FALSE
    BY <1>0, <2>2 DEF Goto, Jobs
  <2>3. ~ ProposeRepair
    BY <1>0, <2>2 DEF ProposeRepair, Propose, Jobs
  <2> QED
    BY <1>1, <2>1, <2>2, <2>3 DEF Executor, DevelopmentStep, MergePull, RepairRefused, CommitRepair, CountRepair,
       Rerun, CountRerun, VerifyMerge, Note
<1>2. CASE Start \/ Crash \/ Settle \/ SettleFailed
  <2>1. job' = Job("idle") \/ job' = Job("down")
    BY <1>2 DEF Start, Crash, Settle, SettleFailed
  <2> QED
    BY <2>1 DEF Job
<1>3. CASE CallRaises
  BY <1>0, <1>3 DEF CallRaises, Goto, Jobs
<1>4. CASE Claim
  <2>1. job' = job \/ \E a \in Paths : job'.at = FirstStage(a)
    BY <1>4, ClaimCases DEF ClaimTakes
  <2> QED
    BY <2>1 DEF FirstStage, Paths
<1> QED
  BY <1>1, <1>2, <1>3, <1>4, JobCases

LEMMA RerunsMove ==
    ASSUME [Next]_vars
    PROVE  reruns' = reruns \/ (CountRerun /\ reruns' = Counted(reruns, RunOf(job.event)))
<1>1. CASE Executor
  BY <1>1 DEF Executor, DevelopmentStep, MergePull, RepairRefused, ProposeRepair, CommitRepair, CountRepair, Rerun,
     CountRerun, VerifyMerge, Note, budgets
<1>2. CASE ~ Executor
  BY <1>2 DEF Next, Process, Start, RecoverLease, Claim, Settle, SettleFailed, Heartbeat, Crash, CallRaises, Outside,
     ChecksEnd, WorkflowPasses, PersonMerges, MergeRepeated, SignalArrives, budgets, vars
<1> QED
  BY <1>1, <1>2

LEMMA RetriedMoves ==
    ASSUME [Next]_vars
    PROVE  \/ retried' = retried
           \/ /\ Rerun /\ RerunReady(job.event) /\ Goto("recount")
              /\ retried' = Counted(retried, RunOf(job.event))
<1>1. CASE Executor
  BY <1>1 DEF Executor, DevelopmentStep, MergePull, RepairRefused, ProposeRepair, CommitRepair, CountRepair, Rerun,
     CountRerun, VerifyMerge, Note, budgets
<1>2. CASE ~ Executor
  BY <1>2 DEF Next, Process, Start, RecoverLease, Claim, Settle, SettleFailed, Heartbeat, Crash, CallRaises, Outside,
     ChecksEnd, WorkflowPasses, PersonMerges, MergeRepeated, SignalArrives, budgets, vars
<1> QED
  BY <1>1, <1>2

LEMMA CountedAdds ==
    ASSUME NEW f, NEW y, \A x \in DOMAIN f : f[x] \in Nat, NEW x
    PROVE  /\ CountOf(f, x) \in Nat
           /\ CountOf(Counted(f, y), x) = CountOf(f, x) + (IF x = y THEN 1 ELSE 0)
           /\ x \in DOMAIN Counted(f, y) => Counted(f, y)[x] = CountOf(Counted(f, y), x)
<1>1. CountOf(f, x) \in Nat
  BY DEF CountOf
<1>2. DOMAIN Counted(f, y) = DOMAIN f \union {y}
  BY DEF Counted
<1>3. x \in DOMAIN Counted(f, y) => Counted(f, y)[x] = CountOf(Counted(f, y), x)
  BY DEF CountOf
<1>4. CountOf(Counted(f, y), x) = CountOf(f, x) + (IF x = y THEN 1 ELSE 0)
  <2>1. CASE x = y
    <3>1. Counted(f, y)[x] = CountOf(f, x) + 1
      BY <1>2, <2>1 DEF Counted
    <3> QED
      BY <1>2, <1>3, <2>1, <3>1
  <2>2. CASE x # y
    <3>1. x \in DOMAIN f => Counted(f, y)[x] = f[x]
      BY <1>2, <2>2 DEF Counted
    <3>2. CountOf(Counted(f, y), x) = CountOf(f, x)
      BY <1>2, <2>2, <3>1 DEF CountOf
    <3> QED
      BY <1>1, <2>2, <3>2
  <2> QED
    BY <2>1, <2>2
<1> QED
  BY <1>1, <1>3, <1>4

\* RerunsInv of one run, also of one GitHub was never asked to rerun.
RerunPaid(r) == CountOf(retried, r) <= CountOf(reruns, r) + Unlisted(r) + incidents

LEMMA RerunsRead ==
    ASSUME RerunsInv
    PROVE  /\ \A r : /\ CountOf(reruns, r) \in Nat /\ CountOf(reruns, r) <= MaxReruns
                     /\ CountOf(retried, r) \in Nat /\ Unlisted(r) \in {0, 1}
           /\ incidents \in Nat => \A r : RerunPaid(r)
<1>1. MaxReruns \in Nat
  BY DevelopmentAssumption
<1>2. ASSUME NEW r
      PROVE  /\ CountOf(reruns, r) \in Nat /\ CountOf(reruns, r) <= MaxReruns
             /\ CountOf(retried, r) \in Nat
  BY <1>1 DEF RerunsInv, CountOf
<1>3. ASSUME NEW r PROVE Unlisted(r) \in {0, 1}
  BY DEF Unlisted
<1>4. ASSUME NEW r, incidents \in Nat PROVE RerunPaid(r)
  <2>1. CASE r \in DOMAIN retried
    <3>1. CountOf(retried, r) = retried[r]
      BY <2>1 DEF CountOf
    <3> QED
      BY <2>1, <3>1 DEF RerunsInv, RerunPaid
  <2>2. CASE r \notin DOMAIN retried
    <3>1. CountOf(retried, r) = 0
      BY <2>2 DEF CountOf
    <3> QED
      BY <1>2, <1>3, <1>4, <3>1 DEF RerunPaid
  <2> QED
    BY <2>1, <2>2
<1> QED
  BY <1>2, <1>3, <1>4

LEMMA RerunsStep ==
    Shape /\ EventsInv /\ Shape' /\ PaidInv /\ RerunsInv /\ [Next]_vars => RerunsInv'
<1> SUFFICES ASSUME Shape, EventsInv, Shape', PaidInv, RerunsInv, [Next]_vars PROVE RerunsInv'
  OBVIOUS
<1> DEFINE q == RunOf(job.event)
<1>0. MaxReruns \in Nat /\ job \in Jobs /\ job' \in Jobs
  BY DevelopmentAssumption DEF Shape
<1>1. incidents \in Nat /\ incidents' \in Nat /\ incidents <= incidents'
  BY PoolMoves DEF PaidInv, PoolOk
<1>2. \A r : /\ CountOf(reruns, r) \in Nat /\ CountOf(reruns, r) <= MaxReruns
             /\ CountOf(retried, r) \in Nat /\ Unlisted(r) \in {0, 1} /\ RerunPaid(r)
  BY <1>1, RerunsRead
<1>3. \A r : Unlisted(r)' \in {0, 1}
  BY DEF Unlisted
<1>4. /\ \A r \in DOMAIN reruns : reruns[r] \in Nat
      /\ \A r \in DOMAIN retried : retried[r] \in Nat /\ retried[r] = CountOf(retried, r)
  BY <1>0 DEF RerunsInv, CountOf
<1>c. \A r : /\ CountOf(Counted(retried, q), r) = CountOf(retried, r) + (IF r = q THEN 1 ELSE 0)
             /\ r \in DOMAIN Counted(retried, q) => Counted(retried, q)[r] = CountOf(Counted(retried, q), r)
  <2>1. \A r \in DOMAIN retried : retried[r] \in Nat
    BY <1>4
  <2> HIDE DEF q
  <2> QED
    BY <2>1, CountedAdds
<1>d. \A r : /\ CountOf(Counted(reruns, q), r) = CountOf(reruns, r) + (IF r = q THEN 1 ELSE 0)
             /\ r \in DOMAIN Counted(reruns, q) => Counted(reruns, q)[r] = CountOf(Counted(reruns, q), r)
  <2>1. \A r \in DOMAIN reruns : reruns[r] \in Nat
    BY <1>4
  <2> HIDE DEF q
  <2> QED
    BY <2>1, CountedAdds
<1>5. CASE Rerun /\ RerunReady(job.event) /\ Goto("recount") /\ retried' = Counted(retried, q)
  <2>1. reruns' = reruns /\ incidents' = incidents /\ job.at = "rerun" /\ CountOf(reruns, q) < MaxReruns
    BY <1>5 DEF Rerun, RerunReady
  <2>2. job'.at = "recount" /\ job'.event = job.event
    BY <1>0, <1>5 DEF Goto, Jobs
  <2>3. \A r : Unlisted(r) = 0 /\ Unlisted(r)' = IF r = q THEN 1 ELSE 0
    BY <2>1, <2>2 DEF Unlisted
  <2> HIDE DEF q
  <2>4. ASSUME NEW r \in DOMAIN retried'
        PROVE  retried'[r] \in Nat /\ retried'[r] <= CountOf(reruns', r) + Unlisted(r)' + incidents'
    <3>1. retried'[r] = CountOf(retried, r) + (IF r = q THEN 1 ELSE 0)
      BY <1>5, <1>c
    <3>2. CountOf(retried, r) <= CountOf(reruns, r) + incidents
      BY <1>1, <1>2, <2>3 DEF RerunPaid
    <3> QED
      BY <1>1, <1>2, <2>1, <2>3, <3>1, <3>2
  <2>5. CountOf(reruns', RunOf(job'.event)) < MaxReruns
    BY <2>1, <2>2 DEF q
  <2> QED
    BY <2>1, <2>4, <2>5 DEF RerunsInv
<1>6. CASE CountRerun
  <2>1. reruns' = Counted(reruns, q) /\ retried' = retried /\ job.at = "recount"
    BY <1>6 DEF CountRerun
  <2>2. job'.at = "returned"
    BY <1>0, <1>6 DEF CountRerun, Goto, Jobs
  <2>3. \A r : Unlisted(r)' = 0 /\ Unlisted(r) = IF r = q THEN 1 ELSE 0
    BY <2>1, <2>2 DEF Unlisted
  <2>4. CountOf(reruns, q) < MaxReruns
    BY <2>1 DEF RerunsInv
  <2> HIDE DEF q
  <2>5. \A r : CountOf(reruns', r) = CountOf(reruns, r) + (IF r = q THEN 1 ELSE 0)
    BY <1>d, <2>1
  <2>6. ASSUME NEW r \in DOMAIN reruns' PROVE reruns'[r] \in 0..MaxReruns
    <3>1. reruns'[r] = CountOf(reruns, r) + (IF r = q THEN 1 ELSE 0)
      BY <1>d, <2>1
    <3> QED
      BY <1>0, <1>2, <2>4, <3>1
  <2>7. ASSUME NEW r \in DOMAIN retried'
        PROVE  retried'[r] \in Nat /\ retried'[r] <= CountOf(reruns', r) + Unlisted(r)' + incidents'
    <3>1. retried'[r] = CountOf(retried, r) /\ retried'[r] \in Nat
      BY <1>4, <2>1
    <3>2. CountOf(retried, r) <= CountOf(reruns, r) + Unlisted(r) + incidents
      BY <1>2 DEF RerunPaid
    <3> QED
      BY <1>1, <1>2, <2>3, <2>5, <3>1, <3>2
  <2> QED
    BY <2>2, <2>6, <2>7 DEF RerunsInv
<1>7. CASE reruns' = reruns /\ retried' = retried
  <2>1. ASSUME job'.at = "recount" PROVE job' = job
    <3>1. ~ (Rerun /\ Goto("recount"))
      <4> SUFFICES ASSUME Rerun, Goto("recount") PROVE FALSE
        OBVIOUS
      <4>1. retried' = Counted(retried, q)
        BY <1>0, <2>1 DEF Rerun, Goto, Jobs
      <4>2. CountOf(retried', q) = CountOf(retried, q) + 1
        BY <1>c, <4>1
      <4> QED
        BY <1>2, <1>7, <4>2
    <3> QED
      BY <2>1, <3>1, RerunStages
  <2>2. ASSUME job.at = "recount" PROVE job' = job \/ incidents' = incidents + 1
    <3>1. ~ CountRerun
      <4> SUFFICES ASSUME CountRerun PROVE FALSE
        OBVIOUS
      <4>1. reruns' = Counted(reruns, q)
        BY DEF CountRerun
      <4>2. CountOf(reruns', q) = CountOf(reruns, q) + 1
        BY <1>d, <4>1
      <4> QED
        BY <1>2, <1>7, <4>2
    <3> QED
      BY <2>2, <3>1, RecountStages DEF Crash, CallRaises, Incident
  <2>3. ASSUME NEW r PROVE Unlisted(r) <= Unlisted(r)' \/ incidents' = incidents + 1
    <3>1. CASE job.at = "recount"
      <4>1. CASE job' = job
        BY <1>2, <4>1 DEF Unlisted
      <4> QED
        BY <2>2, <3>1, <4>1
    <3>2. CASE job.at # "recount"
      BY <1>3, <3>2 DEF Unlisted
    <3> QED
      BY <3>1, <3>2
  <2>4. ASSUME NEW r \in DOMAIN retried'
        PROVE  retried'[r] \in Nat /\ retried'[r] <= CountOf(reruns', r) + Unlisted(r)' + incidents'
    <3>1. retried'[r] = CountOf(retried, r) /\ retried'[r] \in Nat
      BY <1>4, <1>7
    <3>2. CountOf(retried, r) <= CountOf(reruns, r) + Unlisted(r) + incidents
      BY <1>2 DEF RerunPaid
    <3>3. CountOf(reruns', r) = CountOf(reruns, r)
      BY <1>7
    <3> QED
      BY <1>1, <1>2, <1>3, <2>3, <3>1, <3>2, <3>3
  <2> QED
    BY <1>7, <2>1, <2>4 DEF RerunsInv
<1> QED
  BY <1>5, <1>6, <1>7, RerunsMove, RetriedMoves

LEMMA BudgetsInit == Init => PaidInv /\ RepairsInv /\ RerunsInv
<1> SUFFICES ASSUME Init PROVE PaidInv /\ RepairsInv /\ RerunsInv
  OBVIOUS
<1>1. /\ pulls = <<>> /\ repairs = <<>> /\ reruns = <<>> /\ retried = <<>> /\ job.at = "down" /\ incidents = 0
      /\ health = [v \in Providers |-> 0] /\ paidUsed = 0 /\ paidCalls = 0
  BY DEF Init, WorldInit, PoolInit, Job
<1>2. DOMAIN pulls = {} /\ DOMAIN repairs = {} /\ DOMAIN reruns = {} /\ DOMAIN retried = {}
  BY <1>1
<1>3. PaidBudget \in Nat /\ HealthThreshold \in Nat /\ PaidBudget * 0 = 0
  BY ProviderAssumption
<1> QED
  BY <1>1, <1>2, <1>3 DEF PaidInv, PoolTypeOK, RepairsInv, RerunsInv

\* No pull request gets more commits of CI repair than max_repairs_per_pr, and
\* no workflow run more reruns than max_reruns_per_run, one more at most for
\* each incident, although the attempt is counted after its effect (ci_repair.py,
\* providerless_ci_recovery.py); and no process makes more paid calls than the
\* budget of its CostPolicy, which a restart resets.
THEOREM BudgetsKept == Spec => []BudgetsHold
<1>1. Init => PaidInv /\ RepairsInv /\ RerunsInv
  BY BudgetsInit
<1>2. Shape /\ EventsInv /\ (Shape /\ EventsInv)' /\ PaidInv /\ RepairsInv /\ RerunsInv /\ [Next]_vars
      => (PaidInv /\ RepairsInv /\ RerunsInv)'
  BY PaidStep, RepairsStep, RerunsStep
<1>3. Shape /\ PaidInv /\ RepairsInv /\ RerunsInv => BudgetsHold
  <2> SUFFICES ASSUME Shape, PaidInv, RepairsInv, RerunsInv PROVE BudgetsHold
    OBVIOUS
  <2>0. MaxRepairs \in Nat /\ PaidBudget \in Nat
    BY DevelopmentAssumption, ProviderAssumption
  <2>1. incidents \in Nat /\ paidUsed \in Nat /\ paidUsed <= PaidBudget /\ paidCalls \in Nat
    BY <2>0 DEF PaidInv, PoolTypeOK
  <2>2. ASSUME NEW p \in DOMAIN pulls PROVE pulls[p].fixes <= MaxRepairs + incidents
    <3>1. pulls[p].fixes \in Nat
      BY ShapePulls DEF PullsOk, OkPull, Pull
    <3>2. pulls[p].fixes <= CountOf(repairs, p) + Uncounted(p) + incidents
      BY DEF RepairsInv
    <3>3. CountOf(repairs, p) \in Nat /\ Uncounted(p) \in {0, 1} /\ CountOf(repairs, p) + Uncounted(p) <= MaxRepairs
      <4>1. CountOf(repairs, p) \in Nat /\ CountOf(repairs, p) <= MaxRepairs
        BY <2>0 DEF RepairsInv, CountOf
      <4>2. CASE job.at = "count" /\ job.event.pull = p
        <5>1. CountOf(repairs, p) < MaxRepairs /\ Uncounted(p) = 1
          BY <4>2 DEF RepairsInv, Uncounted
        <5> QED
          BY <2>0, <4>1, <5>1
      <4>3. CASE ~ (job.at = "count" /\ job.event.pull = p)
        <5>1. Uncounted(p) = 0
          BY <4>3 DEF Uncounted
        <5> QED
          BY <2>0, <4>1, <5>1
      <4> QED
        BY <4>2, <4>3
    <3> QED
      BY <2>0, <2>1, <3>1, <3>2, <3>3
  <2>3. paidCalls <= PaidBudget * (1 + incidents)
    <3>1. paidCalls <= PaidBudget * incidents + paidUsed
      BY DEF PaidInv
    <3>2. PaidBudget * incidents \in Nat /\ PaidBudget * (1 + incidents) = PaidBudget * incidents + PaidBudget
      BY <2>0, <2>1
    <3> QED
      BY <2>0, <2>1, <3>1, <3>2
  <2>4. ASSUME NEW r \in DOMAIN retried PROVE retried[r] <= MaxReruns + incidents
    <3>0. MaxReruns \in Nat
      BY DevelopmentAssumption
    <3>1. retried[r] \in Nat /\ retried[r] <= CountOf(reruns, r) + Unlisted(r) + incidents
      BY DEF RerunsInv
    <3>2. CountOf(reruns, r) \in Nat /\ CountOf(reruns, r) <= MaxReruns /\ Unlisted(r) \in {0, 1}
      BY RerunsRead
    <3>3. Unlisted(r) = 1 => CountOf(reruns, r) < MaxReruns
      BY DEF Unlisted, RerunsInv
    <3> QED
      BY <2>1, <3>0, <3>1, <3>2, <3>3
  <2> QED
    BY <2>2, <2>3, <2>4 DEF BudgetsHold
<1> QED
  BY <1>1, <1>2, <1>3, EventsKnown, PTL DEF Spec

-----------------------------------------------------------------------------
(* The row in hand                                                         *)

LEMMA EnqueuedKeeps ==
    ASSUME NEW e, rows' = Enqueued(e)
    PROVE  /\ DOMAIN rows' = DOMAIN rows \union {e}
           /\ \A x \in DOMAIN rows : x \in DOMAIN rows' /\ rows'[x] = rows[x]
           /\ \A x \in DOMAIN rows' \ DOMAIN rows : rows'[x] = NewRow
BY DEF Enqueued

\* What comes in from outside, from the process's own start and heartbeat, and
\* from a merge, adds rows and changes none.
Adds ==
    /\ \A x \in DOMAIN rows : x \in DOMAIN rows' /\ rows'[x] = rows[x]
    /\ \A x \in DOMAIN rows' \ DOMAIN rows : rows'[x] = NewRow

LEMMA DeliveryAdds == ASSUME NEW e, Delivery(e) PROVE Adds
BY EnqueuedKeeps DEF Delivery, Adds

LEMMA RowsAdded ==
    ASSUME Start \/ Crash \/ CallRaises \/ Executor \/ Heartbeat \/ (Outside /\ ~ MergeRepeated) \/ UNCHANGED vars
    PROVE  Adds
<1>1. CASE rows' = rows
  BY <1>1 DEF Adds
<1>2. ASSUME NEW e, rows' = Enqueued(e) PROVE Adds
  BY <1>2, EnqueuedKeeps DEF Adds
<1>3. CASE Start
  BY <1>2, <1>3 DEF Start
<1>4. CASE Executor
  BY <1>1, <1>4, DeliveryAdds DEF Executor, MergePull
<1>5. CASE Heartbeat
  BY <1>1, <1>2, <1>5 DEF Heartbeat, AuditNow, AuditSaved, Evaluate
<1>6. CASE Outside /\ ~ MergeRepeated
  BY <1>1, <1>6, DeliveryAdds DEF Outside, ChecksEnd, WorkflowPasses, PersonMerges, SignalArrives
<1> QED
  BY <1>1, <1>3, <1>4, <1>5, <1>6 DEF Crash, CallRaises, vars

RowsOk == \A e \in DOMAIN rows : rows[e] \in Row

LEMMA AddsOk == ASSUME RowsOk, Adds PROVE RowsOk'
<1>1. NewRow \in Row
  BY LoopAssumption DEF NewRow, Row
<1> QED
  BY <1>1 DEF RowsOk, Adds

LEMMA SetOk ==
    ASSUME RowsOk, NEW e \in DOMAIN rows, NEW r \in Row, SetRow(e, r)
    PROVE  /\ RowsOk' /\ DOMAIN rows' = DOMAIN rows /\ rows'[e] = r
           /\ \A x \in DOMAIN rows : x # e => rows'[x] = rows[x]
BY DEF RowsOk, SetRow

LEMMA CompleteOk ==
    ASSUME RowsOk, NEW e \in DOMAIN rows, NEW n \in Nat, CompleteRow(e, n)
    PROVE  /\ RowsOk' /\ DOMAIN rows' \subseteq DOMAIN rows
           /\ e \in DOMAIN rows' => rows'[e].status = "completed"
           /\ \A x \in DOMAIN rows : x # e => x \in DOMAIN rows' /\ rows'[x] = rows[x]
<1>1. CASE e.kind \in OneDelivery
  BY <1>1 DEF CompleteRow, Without, RowsOk
<1>2. CASE e.kind \notin OneDelivery
  <2> DEFINE m == IF n > 1 THEN 2 ELSE 1
             r == [NewRow EXCEPT !.status = "completed", !.attempts = m]
  <2>1. m \in Nat
    OBVIOUS
  <2> HIDE DEF m
  <2>2. r \in Row /\ r.status = "completed"
    <3>1. NewRow \in Row
      BY LoopAssumption DEF NewRow, Row
    <3> QED
      BY <2>1, <3>1 DEF Row
  <2> USE DEF m
  <2>3. SetRow(e, r)
    BY <1>2 DEF CompleteRow
  <2> HIDE DEF r
  <2> QED
    BY <2>2, <2>3, SetOk
<1> QED
  BY <1>1, <1>2

\* What a claim leases.
LEMMA TakenOk ==
    ASSUME RowsOk, NEW e \in DOMAIN rows, NEW a \in Paths, ClaimTakes(e, a)
    PROVE  /\ RowsOk' /\ DOMAIN rows' = DOMAIN rows /\ rows'[e].status = "leased"
           /\ rows'[e].failed = rows[e].failed /\ rows[e].failed[a] < MaxFailures
           /\ \A x \in DOMAIN rows : x # e => rows'[x] = rows[x]
<1> DEFINE n == rows[e].attempts + 1
           r == [rows[e] EXCEPT !.status = "leased", !.attempts = n]
<1>1. rows[e] \in Row /\ SetRow(e, r) /\ rows[e].failed[a] < MaxFailures /\ n \in Nat
  BY DEF RowsOk, ClaimTakes, CanRun, Row
<1> HIDE DEF n
<1>2. r \in Row /\ r.status = "leased" /\ r.failed = rows[e].failed
  BY <1>1 DEF Row
<1> HIDE DEF r
<1> QED
  BY <1>1, <1>2, SetOk

LEMMA FailedOk ==
    ASSUME RowsOk, RowsInv, SettleFailed
    PROVE  /\ RowsOk' /\ DOMAIN rows' = DOMAIN rows /\ job.event \in DOMAIN rows
           /\ rows'[job.event].status \in {"dead", "pending"}
           /\ \A x \in DOMAIN rows : x # job.event => rows'[x] = rows[x]
<1> DEFINE e == job.event
           a == job.path
           f == [rows[e].failed EXCEPT ![a] = @ + 1]
           r == [rows[e] EXCEPT !.failed = f]
           s == IF r.attempts >= MaxAttempts THEN "dead" ELSE "pending"
           t == [r EXCEPT !.status = s]
<1>1. e \in DOMAIN rows /\ rows[e] \in Row /\ a \in Paths /\ rows[e].failed[a] < MaxFailures
  BY DEF RowsOk, RowsInv, SettleFailed
<1>2. f \in [Paths -> 0..MaxFailures]
  <2>1. rows[e].failed \in [Paths -> 0..MaxFailures] /\ rows[e].failed[a] + 1 \in 0..MaxFailures
    BY <1>1, LoopAssumption DEF Row
  <2> QED
    BY <2>1
<1>3. SetRow(e, t)
  <2>1. r = [rows[e] EXCEPT !.failed[a] = @ + 1]
    BY <1>1 DEF Row
  <2>2. FailRow(e, r)
    BY <2>1 DEF SettleFailed
  <2> QED
    BY <2>2 DEF FailRow
<1> HIDE DEF f
<1>4. r \in Row
  BY <1>1, <1>2 DEF Row
<1> HIDE DEF r
<1>5. t \in Row /\ t.status \in {"dead", "pending"}
  BY <1>4 DEF Row
<1> HIDE DEF t
<1> QED
  BY <1>1, <1>3, <1>5, SetOk

LEMMA RowsStep == Shape /\ EventsInv /\ RowsInv /\ [Next]_vars => RowsInv'
<1> SUFFICES ASSUME Shape, EventsInv, RowsInv, [Next]_vars PROVE RowsInv'
  OBVIOUS
<1>0. RowsOk
  BY DEF RowsInv, RowsOk
<1>1. CASE Start \/ Crash
  <2>1. job'.at \in {"down", "idle"}
    BY <1>1 DEF Start, Crash, Job
  <2> QED
    BY <1>0, <1>1, <2>1, RowsAdded, AddsOk DEF RowsInv, RowsOk
<1>2. CASE Settle
  <2>1. job'.at = "idle" /\ job.at = "returned"
    BY <1>2 DEF Settle, Job
  <2>2. job.event \in DOMAIN rows /\ rows[job.event].attempts \in Nat
    BY <1>0, <2>1 DEF RowsInv, RowsOk, Row
  <2>3. RowsOk'
    BY <1>0, <1>2, <2>2, CompleteOk DEF Settle
  <2> QED
    BY <2>1, <2>3 DEF RowsInv, RowsOk
<1>3. CASE SettleFailed
  <2>1. job'.at = "idle"
    BY <1>3 DEF SettleFailed, Job
  <2> QED
    BY <1>0, <1>3, <2>1, FailedOk DEF RowsInv, RowsOk
<1>4. CASE Claim
  <2>1. PICK e \in DOMAIN rows :
          /\ job.at = "idle"
          /\ (CompleteRow(e, rows[e].attempts + 1) /\ job' = job) \/ \E a \in Paths : ClaimTakes(e, a)
    BY <1>4, ClaimCases
  <2>2. CASE CompleteRow(e, rows[e].attempts + 1) /\ job' = job
    <3>1. rows[e].attempts + 1 \in Nat
      BY <1>0 DEF RowsOk, Row
    <3> QED
      BY <1>0, <2>1, <2>2, <3>1, CompleteOk DEF RowsInv, RowsOk
  <2>3. ASSUME NEW a \in Paths, ClaimTakes(e, a)
        PROVE  RowsInv'
    BY <1>0, <2>3, TakenOk DEF RowsInv, RowsOk, ClaimTakes
  <2> QED
    BY <2>1, <2>2, <2>3
<1>5. CASE (Executor \/ CallRaises) /\ Continues
  BY <1>0, <1>5, RowsAdded, AddsOk DEF RowsInv, RowsOk, Adds, Continues
<1>6. CASE (Heartbeat \/ Outside \/ UNCHANGED vars) /\ job' = job /\ ~ MergeRepeated
  BY <1>0, <1>6, RowsAdded, AddsOk DEF RowsInv, RowsOk, Adds
<1>7. CASE RecoverLease /\ job' = job
  <2>1. PICK e \in DOMAIN rows : SetRow(e, [rows[e] EXCEPT !.status = "pending"]) /\ job.at = "idle"
    BY <1>7 DEF RecoverLease
  <2>2. [rows[e] EXCEPT !.status = "pending"] \in Row
    BY <1>0 DEF RowsOk, Row
  <2>3. RowsOk'
    BY <1>0, <2>1, <2>2, SetOk
  <2> QED
    BY <1>7, <2>1, <2>3 DEF RowsInv, RowsOk
<1>8. CASE MergeRepeated /\ job' = job
  <2>1. PICK e \in DOMAIN rows : rows[e].status = "completed" /\ SetRow(e, NewRow)
    BY <1>8 DEF MergeRepeated
  <2>2. NewRow \in Row
    BY LoopAssumption DEF NewRow, Row
  <2>3. RowsOk' /\ DOMAIN rows' = DOMAIN rows /\ \A x \in DOMAIN rows : x # e => rows'[x] = rows[x]
    BY <1>0, <2>1, <2>2, SetOk
  <2> QED
    BY <1>8, <2>1, <2>3 DEF RowsInv, RowsOk
<1> QED
  BY <1>1, <1>2, <1>3, <1>4, <1>5, <1>6, <1>7, <1>8, JobCases

-----------------------------------------------------------------------------
(* Types                                                                   *)

LEMMA ExecutorBounds ==
    ASSUME Executor
    PROVE  /\ setup' = setup /\ meddling' = meddling /\ report' = report
           /\ incidents' = incidents \/ \E n : Incident(n)
<1>1. CASE ProposeGoal \/ ProposeRepair
  <2>1. setup' = setup /\ meddling' = meddling /\ \E n : Incident(n)
    BY <1>1 DEF ProposeGoal, ProposeRepair, Propose
  <2>2. report' = report
    BY <1>1 DEF Executor, MergePull, ProposeGoal, ProposeRepair
  <2> QED
    BY <2>1, <2>2
<1>2. CASE MergePull \/ RepairRefused \/ CommitRepair \/ CountRepair \/ Rerun \/ CountRerun \/ VerifyMerge \/ Note
  <2>1. UNCHANGED <<setup, incidents, meddling>>
    BY <1>2 DEF MergePull, RepairRefused, CommitRepair, CountRepair, Rerun, CountRerun, VerifyMerge, Note
  <2>2. report' = report
    BY DEF Executor, MergePull
  <2> QED
    BY <2>1, <2>2
<1>3. CASE GovernorStep /\ ~ ProposeGoal
  <2>1. UNCHANGED <<setup, incidents, meddling>>
    BY <1>3 DEF GovernorStep, AdvanceNothing, AdvanceReady, AdvanceExcellence, CreateBranch, OpenPull,
       RecordGoal, CompleteNothing, CompleteAccepted, UpdateCompleted, NextGeneration
  <2>2. report' = report
    BY DEF Executor, MergePull
  <2> QED
    BY <2>1, <2>2
<1> QED
  BY <1>1, <1>2, <1>3 DEF Executor, DevelopmentStep

Reports == {"none", "healthy", "blocked", "recovery_enqueued"}

\* Every bound is looked at before it is used up.
LEMMA BoundsMove ==
    ASSUME report \in Reports, [Next]_vars
    PROVE  /\ setup' = setup /\ report' \in Reports
           /\ incidents' = incidents \/ \E n : Incident(n)
           /\ meddling' = meddling \/ Meddling
<1>1. CASE Executor
  BY <1>1, ExecutorBounds
<1>2. CASE Heartbeat
  <2>1. Assessment \in Reports
    BY DEF Assessment, Reports
  <2>2. report' \in Reports
    BY <1>2, <2>1 DEF Heartbeat, AuditNow, AuditSaved
  <2> QED
    BY <1>2, <2>2 DEF Heartbeat, AuditNow, AuditSaved
<1>3. CASE Start \/ RecoverLease \/ Claim \/ Settle \/ SettleFailed \/ Crash \/ CallRaises \/ UNCHANGED vars
  BY <1>3 DEF Start, RecoverLease, Claim, Settle, SettleFailed, Crash, CallRaises, vars
<1>4. CASE Outside
  BY <1>4 DEF Outside, ChecksEnd, WorkflowPasses, PersonMerges, MergeRepeated, SignalArrives, People,
     PersonPushes, PersonCloses, MainMoves
<1> QED
  BY <1>1, <1>2, <1>3, <1>4 DEF Next, Process

LEMMA BranchesMove ==
    ASSUME [Next]_vars
    PROVE  branches' = branches \/ (CreateBranch /\ branches' = branches \union {<<job.goal, job.base>>})
<1>1. CASE GovernorStep
  BY <1>1 DEF GovernorStep, AdvanceNothing, AdvanceReady, AdvanceExcellence, CreateBranch, OpenPull, ProposeGoal,
     RecordGoal, CompleteNothing, CompleteAccepted, UpdateCompleted, NextGeneration, world
<1>2. CASE Executor /\ ~ GovernorStep
  BY <1>2 DEF Executor, DevelopmentStep, MergePull, Merge, RepairRefused, ProposeRepair, CommitRepair, CountRepair,
     Rerun, CountRerun, VerifyMerge, Note, world
<1>3. CASE ~ Executor
  BY <1>3 DEF Next, Process, Start, RecoverLease, Claim, Settle, SettleFailed, Heartbeat, Crash, CallRaises, Outside,
     ChecksEnd, WorkflowPasses, PersonMerges, Merge, MergeRepeated, SignalArrives, People, PersonPushes,
     PersonCloses, MainMoves, world, vars
<1> QED
  BY <1>1, <1>2, <1>3 DEF Executor, DevelopmentStep

LEMMA GenerationMoves ==
    ASSUME [Next]_vars
    PROVE  generation' = generation \/ generation' = generation + 1
<1>1. CASE GovernorStep
  BY <1>1 DEF GovernorStep, AdvanceNothing, AdvanceReady, AdvanceExcellence, CreateBranch, OpenPull, ProposeGoal,
     RecordGoal, CompleteNothing, CompleteAccepted, UpdateCompleted, NextGeneration, goals
<1>2. CASE Executor /\ ~ GovernorStep
  BY <1>2 DEF Executor, DevelopmentStep, MergePull, RepairRefused, ProposeRepair, CommitRepair, CountRepair,
     Rerun, CountRerun, VerifyMerge, Note, goals
<1>3. CASE ~ Executor
  BY <1>3 DEF Next, Process, Start, RecoverLease, Claim, Settle, SettleFailed, Heartbeat, Crash, CallRaises, Outside,
     ChecksEnd, WorkflowPasses, PersonMerges, MergeRepeated, SignalArrives, goals, vars
<1> QED
  BY <1>1, <1>2, <1>3 DEF Executor, DevelopmentStep

LEMMA CountedType ==
    ASSUME NEW f, NEW D, \A x \in DOMAIN f : x \in D /\ f[x] \in Nat, NEW y \in D
    PROVE  \A x \in DOMAIN Counted(f, y) : x \in D /\ Counted(f, y)[x] \in Nat
<1>1. CountOf(f, y) + 1 \in Nat
  BY DEF CountOf
<1> QED
  BY <1>1 DEF Counted

Counters ==
    /\ branches \subseteq (Goals \X Nat)
    /\ incidents \in 0..setup.incidents /\ meddling \in 0..setup.meddling
    /\ generation \in Nat /\ report \in Reports
    /\ BudgetsTypeOK

LEMMA CountersStep == Shape /\ EventsInv /\ PaidInv /\ Counters /\ [Next]_vars => Counters'
<1> SUFFICES ASSUME Shape, EventsInv, PaidInv, Counters, [Next]_vars PROVE Counters'
  OBVIOUS
<1>1. job \in Jobs /\ setup \in Setup
  BY WorldAssumption DEF Shape
<1>2. setup.incidents \in Nat /\ setup.meddling \in Nat /\ job.event.pull \in Nat /\ job.event.head \in Nat
  BY <1>1 DEF Setup, Jobs, Events
<1>3. setup' = setup /\ report' \in Reports
  BY BoundsMove DEF Counters
<1>4. branches' \subseteq (Goals \X Nat)
  <2>1. CreateBranch => job.goal \in Goals /\ job.base \in Nat
    BY <1>1 DEF CreateBranch, EventsInv, Jobs
  <2> QED
    BY <2>1, BranchesMove DEF Counters
<1>5. incidents' \in 0..setup'.incidents
  <2>1. PoolOk /\ PoolOk'
    BY PoolMoves DEF PaidInv, PoolOk
  <2>2. incidents \in Nat /\ incidents' \in Nat
    BY <2>1 DEF PoolOk
  <2>3. incidents' <= setup.incidents
    BY <1>2, BoundsMove DEF Counters, Incident
  <2> QED
    BY <1>2, <1>3, <2>2, <2>3
<1>6. meddling' \in 0..setup'.meddling
  <2>1. meddling' = meddling \/ Meddling
    BY BoundsMove DEF Counters
  <2> QED
    BY <1>2, <1>3, <2>1 DEF Counters, Meddling
<1>7. generation' \in Nat
  BY GenerationMoves DEF Counters
<1>8. BudgetsTypeOK'
  <2>1. \A p \in DOMAIN repairs' : p \in Nat /\ repairs'[p] \in Nat
    <3>1. \A p \in DOMAIN repairs : p \in Nat /\ repairs[p] \in Nat
      BY DEF Counters, BudgetsTypeOK
    <3>2. CASE repairs' = Counted(repairs, job.event.pull)
      BY <1>2, <3>1, <3>2, CountedType
    <3> QED
      BY <3>1, <3>2, RepairsCases DEF CountRepair
  <2>2. \A r \in DOMAIN reruns' : r \in Nat \X Nat /\ reruns'[r] \in Nat
    <3>1. \A r \in DOMAIN reruns : r \in Nat \X Nat /\ reruns[r] \in Nat
      BY DEF Counters, BudgetsTypeOK
    <3>2. CASE reruns' = Counted(reruns, RunOf(job.event))
      <4>1. RunOf(job.event) \in Nat \X Nat
        BY <1>2 DEF RunOf
      <4> HIDE DEF RunOf
      <4> QED
        BY <3>1, <3>2, <4>1, CountedType
    <3> QED
      BY <3>1, <3>2, RerunsMove
  <2>3. \A r \in DOMAIN retried' : r \in Nat \X Nat /\ retried'[r] \in Nat
    <3>1. \A r \in DOMAIN retried : r \in Nat \X Nat /\ retried[r] \in Nat
      BY DEF Counters, BudgetsTypeOK
    <3>2. CASE retried' = Counted(retried, RunOf(job.event))
      <4>1. RunOf(job.event) \in Nat \X Nat
        BY <1>2 DEF RunOf
      <4> HIDE DEF RunOf
      <4> QED
        BY <3>1, <3>2, <4>1, CountedType
    <3> QED
      BY <3>1, <3>2, RetriedMoves
  <2> QED
    BY <2>1, <2>2, <2>3 DEF BudgetsTypeOK
<1> QED
  BY <1>3, <1>4, <1>5, <1>6, <1>7, <1>8 DEF Counters

LEMMA TypesInit == Init => RowsInv /\ Counters
<1> SUFFICES ASSUME Init PROVE RowsInv /\ Counters
  OBVIOUS
<1>1. /\ rows = <<>> /\ repairs = <<>> /\ reruns = <<>> /\ retried = <<>> /\ job.at = "down" /\ branches = {}
      /\ incidents = 0 /\ meddling = 0 /\ generation = 1 /\ report = "none" /\ setup \in Setups
  BY DEF Init, WorldInit, Job
<1>2. DOMAIN rows = {} /\ DOMAIN repairs = {} /\ DOMAIN reruns = {} /\ DOMAIN retried = {}
  BY <1>1
<1>3. setup.incidents \in Nat /\ setup.meddling \in Nat
  BY <1>1, WorldAssumption DEF Setup
<1>4. 0 \in 0..setup.incidents /\ 0 \in 0..setup.meddling
  BY <1>3
<1> QED
  BY <1>1, <1>2, <1>4 DEF RowsInv, Counters, BudgetsTypeOK, Reports

\* The loop's state is as described, in particular: the failures counted for a
\* path never exceed max_failures_per_path, as the row in hand stays leased and
\* its path below that limit until it is settled, whatever arrives meanwhile.
THEOREM TypeCorrect == Spec => []TypeOK
<1>1. Init => PaidInv /\ RowsInv /\ Counters /\ GoalsInv
  BY BudgetsInit, TypesInit, GoalsInit
<1>2. Shape /\ EventsInv /\ (Shape /\ EventsInv)' /\ PaidInv /\ RowsInv /\ Counters /\ GoalsInv /\ [Next]_vars
      => (PaidInv /\ RowsInv /\ Counters /\ GoalsInv)'
  BY PaidStep, RowsStep, CountersStep, GoalsStep
<1>3. Shape /\ PaidInv /\ RowsInv /\ Counters /\ GoalsInv => TypeOK
  <2> SUFFICES ASSUME Shape, PaidInv, RowsInv, Counters, GoalsInv PROVE TypeOK
    OBVIOUS
  <2>1. WorldTypeOK /\ PoolTypeOK /\ BudgetsTypeOK
    BY DEF Shape, PaidInv, Counters, WorldTypeOK
  <2>2. PortfolioTypeOK /\ job.event \in Events /\ job.path \in Paths \union {"none"}
    BY DEF Shape, Counters, PortfolioTypeOK, Jobs
  <2>3. DOMAIN rows \subseteq Events /\ (\A e \in DOMAIN rows : rows[e] \in Row)
        /\ report \in {"none", "healthy", "blocked", "recovery_enqueued"}
    BY DEF Shape, RowsInv, Counters, Reports
  <2>4. \A g \in Goals : portfolio[g].pull \in {0} \union DOMAIN pulls
    BY DEF GoalsInv
  <2> QED
    BY <2>1, <2>2, <2>3, <2>4 DEF TypeOK
<1> QED
  BY <1>1, <1>2, <1>3, EventsKnown, PTL DEF Spec

-----------------------------------------------------------------------------
(* One goal in flight                                                      *)

LEMMA PortfolioCases ==
    ASSUME [Next]_vars
    PROVE  \/ portfolio' = portfolio
           \/ Start /\ (\A g \in Goals : portfolio[g].status = "absent") /\ portfolio' = Seeded
           \/ AdvanceExcellence \/ RecordGoal \/ UpdateCompleted
<1>1. CASE GovernorStep
  BY <1>1 DEF GovernorStep, AdvanceNothing, AdvanceReady, CreateBranch, OpenPull, ProposeGoal, CompleteNothing,
     CompleteAccepted, NextGeneration, goals
<1>2. CASE Executor /\ ~ GovernorStep
  BY <1>2 DEF Executor, DevelopmentStep, MergePull, RepairRefused, ProposeRepair, CommitRepair, CountRepair,
     Rerun, CountRerun, VerifyMerge, Note, goals
<1>3. CASE Start
  BY <1>3 DEF Start
<1>4. CASE ~ Executor /\ ~ Start
  BY <1>4 DEF Next, Process, RecoverLease, Claim, Settle, SettleFailed, Heartbeat, Crash, CallRaises, Outside,
     ChecksEnd, WorkflowPasses, PersonMerges, MergeRepeated, SignalArrives, goals, vars
<1> QED
  BY <1>1, <1>2, <1>3, <1>4 DEF Executor, DevelopmentStep

LEMMA RecordStages ==
    ASSUME Shape, EventsInv, [Next]_vars, job.at = "record"
    PROVE  job' = job \/ RecordGoal \/ Crash \/ CallRaises
<1>1. CASE Executor
  BY <1>1 DEF Executor, DevelopmentStep, MergePull, RepairRefused, ProposeRepair, CommitRepair, CountRepair, Rerun,
     CountRerun, VerifyMerge, Note, GovernorStep, AdvanceNothing, AdvanceReady, AdvanceExcellence, ProposeGoal,
     CreateBranch, OpenPull, CompleteNothing, CompleteAccepted, UpdateCompleted, NextGeneration
<1> QED
  BY <1>1, JobCases DEF Start, Claim, Settle, SettleFailed

\* The stages follow one another with the goal advance() has chosen.
Follows ==
    /\ job.at \in Proposing /\ job'.goal = job.goal /\ portfolio' = portfolio
    /\ \/ ProposeGoal /\ job'.at = "branch"
       \/ CreateBranch /\ job'.at = "open" /\ branches' = branches \union {<<job.goal, job.base>>}
          /\ BranchFree(job.goal, job.base)
       \/ OpenPull /\ job'.at = "record" /\ job'.pull = Len(pulls) + 1

LEMMA ProposingStages ==
    ASSUME Shape, EventsInv, [Next]_vars, job'.at \in Proposing
    PROVE  \/ job' = job /\ portfolio' = portfolio
           \/ /\ AdvanceReady /\ Active = {} /\ portfolio' = portfolio
              /\ job'.at = "propose" /\ job'.goal \in Ready
           \/ AdvanceExcellence /\ job'.at = "propose" /\ job'.goal = job.event.goal
           \/ Follows
<1>0. job \in Jobs
  BY DEF Shape
<1>1. CASE GovernorStep
  <2>1. CASE AdvanceNothing \/ RecordGoal \/ CompleteNothing \/ NextGeneration
    <3>1. Goto("returned") \/ Goto("advance")
      BY <2>1 DEF AdvanceNothing, RecordGoal, CompleteNothing, NextGeneration, Continue
    <3> QED
      BY <1>0, <3>1 DEF Goto, Jobs, Proposing
  <2>2. CASE AdvanceReady
    <3>1. PICK g \in Ready : job' = [job EXCEPT !.at = "propose", !.goal = g]
      BY <2>2 DEF AdvanceReady
    <3>2. job'.at = "propose" /\ job'.goal = g
      BY <1>0, <3>1 DEF Jobs
    <3> QED
      BY <2>2, <3>2 DEF AdvanceReady, goals
  <2>3. CASE AdvanceExcellence
    <3>1. job' = [job EXCEPT !.at = "propose", !.goal = job.event.goal]
      BY <2>3 DEF AdvanceExcellence
    <3> QED
      BY <1>0, <2>3, <3>1 DEF Jobs
  <2>4. CASE ProposeGoal
    <3>1. CASE job' = [job EXCEPT !.at = "raised"]
      BY <1>0, <3>1 DEF Jobs, Proposing
    <3>2. CASE job' = [job EXCEPT !.at = "branch", !.base = main]
      <4>1. job'.at = "branch" /\ job'.goal = job.goal
        BY <1>0, <3>2 DEF Jobs
      <4> QED
        BY <2>4, <4>1 DEF ProposeGoal, Follows, Proposing, goals
    <3> QED
      BY <2>4, <3>1, <3>2 DEF ProposeGoal, Propose
  <2>5. CASE CreateBranch
    <3>1. CASE Goto("raised")
      BY <1>0, <3>1 DEF Goto, Jobs, Proposing
    <3>2. CASE Goto("open") /\ BranchFree(job.goal, job.base)
               /\ branches' = branches \union {<<job.goal, job.base>>}
      <4>1. job'.at = "open" /\ job'.goal = job.goal
        BY <1>0, <3>2 DEF Goto, Jobs
      <4> QED
        BY <2>5, <3>2, <4>1 DEF CreateBranch, Follows, Proposing, goals
    <3> QED
      BY <2>5, <3>1, <3>2 DEF CreateBranch
  <2>6. CASE OpenPull
    <3>1. job' = [job EXCEPT !.at = "record", !.pull = Len(pulls) + 1]
      BY <2>6 DEF OpenPull
    <3>2. job'.at = "record" /\ job'.goal = job.goal /\ job'.pull = Len(pulls) + 1
      BY <1>0, <3>1 DEF Jobs
    <3> QED
      BY <2>6, <3>2 DEF OpenPull, Follows, Proposing, goals
  <2>7. CASE CompleteAccepted
    <3>1. \E g : job' = [job EXCEPT !.at = "update", !.goal = g]
      BY <2>7 DEF CompleteAccepted
    <3> QED
      BY <1>0, <3>1 DEF Jobs, Proposing
  <2>8. CASE UpdateCompleted
    <3>1. \/ \E l \in {"returned", "advance"} : Goto(l)
          \/ \E m : job' = [job EXCEPT !.at = "generation", !.more = m]
      BY <2>8 DEF UpdateCompleted, Continue
    <3> QED
      BY <1>0, <3>1 DEF Goto, Jobs, Proposing
  <2> QED
    BY <1>1, <2>1, <2>2, <2>3, <2>4, <2>5, <2>6, <2>7, <2>8 DEF GovernorStep
<1>2. CASE (Executor /\ ~ GovernorStep) \/ CallRaises
  <2>1. \E l \in {"raised", "returned", "commit", "count", "recount", "merge"} : Goto(l)
    BY <1>2 DEF Executor, DevelopmentStep, MergePull, RepairRefused, ProposeRepair, CommitRepair, CountRepair,
       Rerun, CountRerun, VerifyMerge, Note, Propose, Goto, CallRaises
  <2> QED
    BY <1>0, <2>1 DEF Goto, Jobs, Proposing
<1>3. CASE Start \/ Crash \/ Settle \/ SettleFailed
  <2>1. job' = Job("idle") \/ job' = Job("down")
    BY <1>3 DEF Start, Crash, Settle, SettleFailed
  <2> QED
    BY <2>1 DEF Job, Proposing
<1>4. CASE Claim
  <2>1. job.at = "idle" /\ (job' = job \/ \E a \in Paths : job'.at = FirstStage(a))
    BY <1>4, ClaimCases DEF ClaimTakes
  <2> QED
    BY <2>1 DEF FirstStage, Paths, Proposing
<1>5. CASE (RecoverLease \/ Heartbeat \/ Outside \/ UNCHANGED vars) /\ job' = job
  <2>1. portfolio' = portfolio
    BY <1>5 DEF RecoverLease, Heartbeat, Outside, ChecksEnd, WorkflowPasses, PersonMerges, MergeRepeated,
       SignalArrives, goals, vars
  <2> QED
    BY <1>5, <2>1
<1> QED
  BY <1>1, <1>2, <1>3, <1>4, <1>5, JobCases DEF Executor, DevelopmentStep

OneActive == \A g, h \in Active : g = h
PlannedBlank == \A g \in Goals : portfolio[g].status \in {"absent", "planned"} => portfolio[g].pull = 0

LEMMA BlankFields ==
    ASSUME NEW s
    PROVE  Blank(s).status = s /\ Blank(s).pull = 0
BY DEF Blank

\* What the governor writes into the portfolio.
LEMMA ExcellenceWrites ==
    ASSUME Shape, EventsInv, AdvanceExcellence
    PROVE  /\ job.event.goal \in Goals /\ Active = {} /\ Ready = {}
           /\ \A g \in Goals :
                \/ portfolio'[g] = portfolio[g]
                \/ g = job.event.goal /\ portfolio[g].status = "absent" /\ portfolio'[g] = Blank("planned")
           /\ portfolio'[job.event.goal].status # "absent"
<1>1. job.event.goal \in Goals
  BY DEF AdvanceExcellence, EventsInv, KnownEvent
<1> QED
  BY <1>1, BlankFields DEF AdvanceExcellence, AddedIfAbsent, Shape

LEMMA RecordWrites ==
    ASSUME Shape, EventsInv, RecordGoal
    PROVE  /\ job.goal \in Goals /\ job.at = "record"
           /\ portfolio'[job.goal].status = "verifying" /\ portfolio'[job.goal].pull = job.pull
           /\ \A g \in Goals : g # job.goal => portfolio'[g] = portfolio[g]
BY DEF RecordGoal, EventsInv, Shape, Updated

LEMMA UpdateWrites ==
    ASSUME Shape, EventsInv, UpdateCompleted
    PROVE  /\ job.goal \in Goals /\ job.at = "update"
           /\ portfolio'[job.goal].status = "completed" /\ portfolio'[job.goal].pull = portfolio[job.goal].pull
           /\ portfolio[job.goal].status = "completed" => portfolio'[job.goal] = portfolio[job.goal]
           /\ \A g \in Goals : g # job.goal => portfolio'[g] = portfolio[g]
<1> DEFINE g == job.goal
           entry == [portfolio[g] EXCEPT !.status = "completed"]
<1>1. g \in Goals /\ job.at = "update" /\ portfolio[g] \in Entry
  BY DEF UpdateCompleted, EventsInv, Shape
<1>2. entry.status = "completed" /\ entry.pull = portfolio[g].pull
      /\ (portfolio[g].status = "completed" => entry = portfolio[g])
  BY <1>1 DEF Entry
<1>3. portfolio' = [portfolio EXCEPT ![g] = entry]
  BY DEF UpdateCompleted, Updated
<1> HIDE DEF entry, g
<1>4. portfolio'[g] = entry /\ \A h \in Goals : h # g => portfolio'[h] = portfolio[h]
  BY <1>1, <1>3 DEF Shape
<1> QED
  BY <1>1, <1>2, <1>4 DEF g

LEMMA SeededWrites ==
    ASSUME portfolio' = Seeded, NEW g \in Goals
    PROVE  /\ portfolio'[g].pull = 0 /\ portfolio'[g].status \in {"planned", "absent"}
           /\ g \in setup.roadmap => portfolio'[g].status = "planned"
BY DEF Seeded, Blank

LEMMA PlannedStep ==
    ASSUME Shape, EventsInv, PlannedBlank, [Next]_vars
    PROVE  PlannedBlank'
<1> SUFFICES ASSUME NEW g \in Goals, portfolio'[g].status \in {"absent", "planned"}
             PROVE  portfolio'[g].pull = 0
  BY DEF PlannedBlank
<1>1. CASE portfolio' = portfolio
  BY <1>1 DEF PlannedBlank
<1>2. CASE portfolio' = Seeded
  BY <1>2, SeededWrites
<1>3. CASE AdvanceExcellence
  BY <1>3, ExcellenceWrites, BlankFields DEF PlannedBlank
<1>4. CASE RecordGoal
  BY <1>4, RecordWrites DEF PlannedBlank
<1>5. CASE UpdateCompleted
  BY <1>5, UpdateWrites DEF PlannedBlank
<1> QED
  BY <1>1, <1>2, <1>3, <1>4, <1>5, PortfolioCases

ProposingInv ==
    job.at \in Proposing => Active = {} /\ portfolio[job.goal].status \in {"planned", "completed"}

LEMMA ProposingStep ==
    ASSUME Shape, EventsInv, ProposingInv, [Next]_vars
    PROVE  ProposingInv'
<1> SUFFICES ASSUME job'.at \in Proposing
             PROVE  Active' = {} /\ portfolio'[job'.goal].status \in {"planned", "completed"}
  BY DEF ProposingInv
<1>1. CASE portfolio' = portfolio /\ (job' = job \/ Follows)
  BY <1>1 DEF ProposingInv, Follows, Active
<1>2. CASE Active = {} /\ portfolio' = portfolio /\ job'.goal \in Ready
  BY <1>2 DEF Ready, Active
<1>3. CASE AdvanceExcellence /\ job'.goal = job.event.goal
  <2>1. Active' = {}
    BY <1>3, ExcellenceWrites, BlankFields DEF Active
  <2>2. portfolio[job.event.goal].status \in GoalStatus \ {"verifying"}
    BY <1>3, ExcellenceWrites DEF Shape, Entry, Active
  <2> QED
    BY <1>3, <2>1, <2>2, ExcellenceWrites, BlankFields DEF GoalStatus
<1> QED
  BY <1>1, <1>2, <1>3, ProposingStages DEF Follows

LEMMA ActiveStep ==
    ASSUME Shape, EventsInv, OneActive, ProposingInv, [Next]_vars
    PROVE  OneActive'
<1>1. CASE portfolio' = portfolio
  BY <1>1 DEF OneActive, Active
<1>2. CASE portfolio' = Seeded
  <2>1. Active' = {}
    BY <1>2, SeededWrites DEF Active
  <2> QED
    BY <2>1 DEF OneActive
<1>3. CASE AdvanceExcellence
  <2>1. Active' = {}
    BY <1>3, ExcellenceWrites, BlankFields DEF Active
  <2> QED
    BY <2>1 DEF OneActive
<1>4. CASE RecordGoal
  <2>1. Active = {}
    BY <1>4, RecordWrites DEF ProposingInv, Proposing
  <2>2. Active' \subseteq {job.goal}
    BY <1>4, <2>1, RecordWrites DEF Active
  <2> QED
    BY <2>2 DEF OneActive
<1>5. CASE UpdateCompleted
  <2>1. Active' \subseteq Active
    BY <1>5, UpdateWrites DEF Active
  <2> QED
    BY <2>1 DEF OneActive
<1> QED
  BY <1>1, <1>2, <1>3, <1>4, <1>5, PortfolioCases

\* An orphan is left by an incident only.
LEMMA OrphansMove ==
    ASSUME Shape, EventsInv, GoalsInv, PlannedBlank, ProposingInv, [Next]_vars
    PROVE  \/ Orphans' \subseteq Orphans
           \/ Orphans' \subseteq Orphans \union {job.pull} /\ Incident(1)
<1>0. pulls \in Seq(Pull)
  BY DEF Shape
<1>1. ASSUME NEW p \in Orphans'
      PROVE  p \in Orphans \/ (p = job.pull /\ job.at = "record" /\ Incident(1))
  <2>1. p \in DOMAIN pulls' /\ pulls'[p].state = "open" /\ (\A g \in Goals : portfolio'[g].pull # p)
        /\ ~ (job'.at = "record" /\ p = job'.pull)
    BY DEF Orphans, Unrecorded
  <2>2. p \in DOMAIN pulls /\ pulls[p].state = "open"
    <3>1. CASE OpenPull /\ p = Len(pulls) + 1
      <4>1. job' = [job EXCEPT !.at = "record", !.pull = Len(pulls) + 1] /\ job \in Jobs
        BY <3>1 DEF OpenPull, Shape
      <4>2. job'.at = "record" /\ job'.pull = p
        BY <3>1, <4>1 DEF Jobs
      <4> QED
        BY <2>1, <4>2
    <3> QED
      BY <2>1, <3>1, FixesMove DEF FixesNext, Kept
  <2>3. p # 0
    BY <1>0, <2>2
  <2>4. ASSUME NEW g \in Goals PROVE portfolio[g].pull # p
    <3>1. CASE portfolio' = portfolio
      BY <2>1, <3>1
    <3>2. CASE \A h \in Goals : portfolio[h].status = "absent"
      BY <2>3, <3>2 DEF PlannedBlank
    <3>3. CASE AdvanceExcellence
      <4>1. portfolio'[g] = portfolio[g] \/ portfolio[g].pull = 0
        BY <3>3, ExcellenceWrites DEF PlannedBlank
      <4> QED
        BY <2>1, <2>3, <4>1
    <3>4. CASE RecordGoal
      <4>1. CASE g # job.goal
        BY <2>1, <3>4, <4>1, RecordWrites
      <4>2. CASE g = job.goal
        <5>1. portfolio[g].status \in {"planned", "completed"}
          BY <3>4, <4>2, RecordWrites DEF ProposingInv, Proposing
        <5>2. CASE portfolio[g].status = "planned"
          BY <2>3, <5>2 DEF PlannedBlank
        <5>3. CASE portfolio[g].status = "completed"
          <6>1. pulls[portfolio[g].pull].state = "merged"
            BY <5>3 DEF GoalsInv, CompletedIsMerged, CompletedGoals
          <6> QED
            BY <2>2, <6>1
        <5> QED
          BY <5>1, <5>2, <5>3
      <4> QED
        BY <4>1, <4>2
    <3>5. CASE UpdateCompleted
      BY <2>1, <3>5, UpdateWrites
    <3> QED
      BY <3>1, <3>2, <3>3, <3>4, <3>5, PortfolioCases
  <2>5. ASSUME job.at = "record", p = job.pull
        PROVE  Incident(1)
    <3>1. ~ RecordGoal
      BY <2>1, <2>5, RecordWrites
    <3>2. job' # job
      BY <2>1, <2>5
    <3> QED
      BY <2>5, <3>1, <3>2, RecordStages DEF Crash, CallRaises
  <2> QED
    BY <2>2, <2>4, <2>5 DEF Orphans, Unrecorded
<1> QED
  BY <1>1

LEMMA OrphansCount ==
    ASSUME Shape, Shape', PaidInv, Cardinality(Orphans) <= incidents, [Next]_vars,
           \/ Orphans' \subseteq Orphans
           \/ Orphans' \subseteq Orphans \union {job.pull} /\ Incident(1)
    PROVE  Cardinality(Orphans') <= incidents'
<1>0. PoolOk /\ PoolOk'
  BY PoolMoves DEF PaidInv, PoolOk
<1>1. incidents \in Nat /\ incidents' \in Nat /\ incidents <= incidents'
  BY <1>0, PoolMoves DEF PoolOk
<1>2. IsFiniteSet(Orphans)
  <2>1. pulls \in Seq(Pull)
    BY DEF Shape
  <2>2. DOMAIN pulls = 1..Len(pulls) /\ Len(pulls) \in Nat
    BY <2>1
  <2>3. IsFiniteSet(DOMAIN pulls)
    BY <2>2, FS_Interval
  <2>4. Orphans \subseteq DOMAIN pulls
    BY DEF Orphans, Unrecorded
  <2> QED
    BY <2>3, <2>4, FS_Subset
<1> DEFINE S == Orphans
           T == Orphans'
           q == job.pull
<1>3. Cardinality(S) \in Nat
  BY <1>2, FS_CardinalityType
<1> HIDE DEF S, T, q
<1>4. CASE T \subseteq S
  <2>1. Cardinality(T) <= Cardinality(S) /\ Cardinality(T) \in Nat
    BY <1>2, <1>4, FS_Subset, FS_CardinalityType DEF S
  <2> QED
    BY <1>1, <1>3, <2>1 DEF S, T
<1>5. CASE T \subseteq S \union {q} /\ Incident(1)
  <2>1. IsFiniteSet(S \union {q}) /\ Cardinality(S \union {q}) \in {Cardinality(S), Cardinality(S) + 1}
    BY <1>2, FS_AddElement DEF S
  <2>2. Cardinality(T) <= Cardinality(S \union {q}) /\ Cardinality(T) \in Nat
    BY <1>5, <2>1, FS_Subset, FS_CardinalityType
  <2>3. incidents' = incidents + 1 /\ Cardinality(S) <= incidents
    BY <1>5 DEF Incident, S
  <2>4. Cardinality(T) <= incidents'
    BY <1>1, <1>3, <2>1, <2>2, <2>3
  <2> QED
    BY <2>4 DEF T
<1> QED
  BY <1>4, <1>5 DEF S, T, q

LEMMA FlightStep ==
    Shape /\ EventsInv /\ Shape' /\ GoalsInv /\ PaidInv /\ FlightInv /\ [Next]_vars => FlightInv'
<1> SUFFICES ASSUME Shape, EventsInv, Shape', GoalsInv, PaidInv, FlightInv, [Next]_vars PROVE FlightInv'
  OBVIOUS
<1>1. OneActive /\ PlannedBlank /\ ProposingInv
  BY DEF FlightInv, OneActive, PlannedBlank, ProposingInv
<1>2. OneActive' /\ PlannedBlank' /\ ProposingInv'
  BY <1>1, ActiveStep, PlannedStep, ProposingStep
<1>3. Cardinality(Orphans') <= incidents'
  BY <1>1, OrphansMove, OrphansCount DEF FlightInv
<1> QED
  BY <1>2, <1>3 DEF FlightInv, OneActive, PlannedBlank, ProposingInv

LEMMA FlightInit == Init => FlightInv
<1> SUFFICES ASSUME Init PROVE FlightInv
  OBVIOUS
<1>1. /\ portfolio = [g \in Goals |-> Blank("absent")] /\ job.at = "down" /\ pulls = <<>> /\ incidents = 0
  BY DEF Init, WorldInit, Job
<1>2. \A g \in Goals : portfolio[g].status = "absent" /\ portfolio[g].pull = 0
  BY <1>1, BlankFields
<1>3. Active = {} /\ Orphans = {}
  BY <1>1, <1>2 DEF Active, Orphans, Unrecorded
<1>4. Cardinality(Orphans) = 0
  BY <1>3, FS_EmptySet
<1> QED
  BY <1>1, <1>2, <1>3, <1>4 DEF FlightInv, Proposing

LEMMA FlightShows == Shape /\ PaidInv /\ FlightInv => OneGoalInFlight
<1> SUFFICES ASSUME Shape, PaidInv, FlightInv PROVE OneGoalInFlight
  OBVIOUS
<1>1. Cardinality(Active) <= 1
  <2>1. CASE Active = {}
    BY <2>1, FS_EmptySet
  <2>2. CASE Active # {}
    <3>1. PICK g \in Active : TRUE
      BY <2>2
    <3>2. \A h \in Active : h = g
      BY <3>1 DEF FlightInv
    <3>3. Active = {g}
      BY <3>1, <3>2
    <3> QED
      BY <3>3, FS_Singleton
  <2> QED
    BY <2>1, <2>2
<1> DEFINE T == {p \in Unrecorded : pulls[p].state = "open" /\ p # job.pull}
<1>2. Cardinality(T) <= incidents
  <2>1. pulls \in Seq(Pull)
    BY DEF Shape
  <2>2. DOMAIN pulls = 1..Len(pulls) /\ Len(pulls) \in Nat
    BY <2>1
  <2>3. IsFiniteSet(DOMAIN pulls)
    BY <2>2, FS_Interval
  <2>4. IsFiniteSet(Orphans) /\ T \subseteq Orphans
    BY <2>3, FS_Subset DEF Orphans, Unrecorded
  <2>5. Cardinality(T) <= Cardinality(Orphans) /\ Cardinality(T) \in Nat /\ Cardinality(Orphans) \in Nat
    BY <2>4, FS_Subset, FS_CardinalityType
  <2>6. Cardinality(Orphans) <= incidents /\ incidents \in Nat
    BY DEF FlightInv, PaidInv
  <2> QED
    BY <2>5, <2>6
<1> QED
  BY <1>1, <1>2 DEF OneGoalInFlight

\* The governor works on one goal at a time (advance, under no lock), and an
\* open pull request of its own that the portfolio does not know is one that a
\* crash or a failed call left, or the one about to be recorded.
THEOREM OneInFlight == Spec => []OneGoalInFlight
<1>1. Init => PaidInv /\ GoalsInv /\ FlightInv
  BY BudgetsInit, GoalsInit, FlightInit
<1>2. Shape /\ EventsInv /\ (Shape /\ EventsInv)' /\ PaidInv /\ GoalsInv /\ FlightInv /\ [Next]_vars
      => (PaidInv /\ GoalsInv /\ FlightInv)'
  BY PaidStep, GoalsStep, FlightStep
<1>3. Shape /\ PaidInv /\ FlightInv => OneGoalInFlight
  BY FlightShows
<1> QED
  BY <1>1, <1>2, <1>3, EventsKnown, PTL DEF Spec

-----------------------------------------------------------------------------
(* The roadmap and continuous excellence                                   *)

LEMMA ExcellenceGoals ==
    ASSUME NEW n \in 1..Improvements
    PROVE  /\ Improvement(n) \in Goals \ Roadmap /\ Excellence(n).goal = Improvement(n)
           /\ Excellence(n).kind = "excellence" /\ Excellence(n).kind \notin OneDelivery
           /\ \A m \in 1..Improvements : Improvement(m) = Improvement(n) => Excellence(m) = Excellence(n)
BY WorldAssumption DEF Goals, Excellence, OneDelivery

\* Excellence events come from the heartbeat, on a finished baseline.
LEMMA ExcellenceEnqueued ==
    ASSUME [Next]_vars, Improves(job.event), \A e \in DOMAIN rows : Improves(e)
    PROVE  /\ Improves(job'.event) \/ job'.event \notin {job.event, Boot} \union DOMAIN rows
           /\ \A e \in DOMAIN rows' :
                \/ e \in DOMAIN rows
                \/ e.kind # "excellence"
                \/ /\ Heartbeat /\ Baseline /\ job.at = "idle"
                   /\ \E n \in 1..Improvements : e = Excellence(n)
<1>1. Improves(job'.event) \/ job'.event \notin {job.event, Boot} \union DOMAIN rows
  BY DEF Improves, Boot
<1>2. ASSUME NEW e \in DOMAIN rows', e \notin DOMAIN rows, e.kind = "excellence"
      PROVE  Heartbeat /\ Baseline /\ job.at = "idle" /\ \E n \in 1..Improvements : e = Excellence(n)
  <2>1. ASSUME NEW x, x.kind # "excellence", rows' = Enqueued(x) \/ Delivery(x)
        PROVE  FALSE
    <3>1. rows' = Enqueued(x)
      BY <1>2, <2>1 DEF Delivery
    <3>2. DOMAIN rows' = DOMAIN rows \union {x}
      BY <3>1, EnqueuedKeeps
    <3> QED
      BY <1>2, <2>1, <3>2
  <2>2. CASE Heartbeat
    <3>1. ASSUME NEW audited, Evaluate(audited)
          PROVE  Baseline /\ \E n \in 1..Improvements : e = Excellence(n)
      <4>1. Baseline /\ \E n \in 1..Improvements : rows' = Enqueued(Excellence(n))
        BY <1>2, <3>1 DEF Evaluate
      <4> QED
        BY <1>2, <4>1, EnqueuedKeeps
    <3>2. ASSUME NEW g \in Ready, rows' = Enqueued(Audit(g))
          PROVE  FALSE
      BY <2>1, <3>2 DEF Audit
    <3> QED
      BY <2>2, <3>1, <3>2 DEF Heartbeat, AuditNow, AuditSaved
  <2>3. CASE Start
    BY <2>1, <2>3 DEF Start, Boot
  <2>4. CASE Executor
    <3>1. MergePull
      BY <1>2, <2>4 DEF Executor
    <3> QED
      BY <1>2, <2>1, <3>1 DEF MergePull, Merged
  <2>5. CASE Outside
    <3>1. CASE ChecksEnd
      <4>1. \E p, h : Delivery(Passed(p, h)) \/ Delivery(Failed(p, h))
        BY <3>1 DEF ChecksEnd
      <4> QED
        BY <2>1, <4>1 DEF Passed, Failed
    <3>2. CASE WorkflowPasses
      BY <2>1, <3>2 DEF WorkflowPasses, Passed
    <3>3. CASE PersonMerges
      BY <2>1, <3>3 DEF PersonMerges, Merged
    <3>4. CASE SignalArrives
      BY <2>1, <3>4 DEF SignalArrives, Signal
    <3>5. CASE MergeRepeated \/ (People /\ UNCHANGED <<pool, goals, budgets, rows, report, job>>)
      BY <1>2, <3>5 DEF MergeRepeated, SetRow
    <3> QED
      BY <2>5, <3>1, <3>2, <3>3, <3>4, <3>5 DEF Outside
  <2>6. CASE RecoverLease \/ Claim \/ Settle \/ SettleFailed \/ Crash \/ CallRaises \/ UNCHANGED vars
    BY <1>2, <2>6 DEF RecoverLease, Claim, Settle, SettleFailed, SetRow, CompleteRow, FailRow, Without, Crash,
       CallRaises, vars
  <2> QED
    BY <2>2, <2>3, <2>4, <2>5, <2>6 DEF Next, Process
<1> QED
  BY <1>1, <1>2

\* Only an event that is new at each delivery leaves the queue.
LEMMA RowsStay ==
    ASSUME [Next]_vars, NEW e \in DOMAIN rows, e.kind \notin OneDelivery
    PROVE  e \in DOMAIN rows'
<1>1. ASSUME NEW x, NEW n, CompleteRow(x, n) PROVE e \in DOMAIN rows'
  BY <1>1 DEF CompleteRow, SetRow, Without
<1>2. ASSUME NEW x, NEW r, SetRow(x, r) PROVE e \in DOMAIN rows'
  BY <1>2 DEF SetRow
<1>3. CASE Claim
  BY <1>1, <1>2, <1>3 DEF Claim
<1>4. CASE Settle
  BY <1>1, <1>4 DEF Settle
<1>5. CASE SettleFailed \/ RecoverLease \/ MergeRepeated
  BY <1>2, <1>5 DEF SettleFailed, RecoverLease, MergeRepeated, FailRow
<1> QED
  BY <1>3, <1>4, <1>5, RowsAdded DEF Next, Process, Adds

\* Of a completed goal only RecordGoal writes the entry again.
LEMMA CompletedMoves ==
    ASSUME Shape, EventsInv, [Next]_vars, NEW g \in Goals, portfolio[g].status = "completed"
    PROVE  portfolio'[g] = portfolio[g] \/ (RecordGoal /\ g = job.goal /\ job.at = "record")
<1>1. CASE AdvanceExcellence
  BY <1>1, ExcellenceWrites
<1>2. CASE RecordGoal
  BY <1>2, RecordWrites
<1>3. CASE UpdateCompleted
  BY <1>3, UpdateWrites
<1> QED
  BY <1>1, <1>2, <1>3, PortfolioCases

\* With a roadmap that is listed, without cycles and not finished, a goal of it
\* is in progress or ready.
LEMMA BaselineFinished ==
    ASSUME Shape, Baseline, \A g \in setup.roadmap : portfolio[g].status # "absent"
    PROVE  setup.roadmap \subseteq CompletedGoals
<1>1. setup.roadmap \subseteq Roadmap /\ setup.roadmap \subseteq Goals /\ setup \in Setups
  BY WorldAssumption DEF Shape, Setup, Goals
<1> DEFINE S == {g \in setup.roadmap : g \notin CompletedGoals}
<1>2. ASSUME S # {} PROVE FALSE
  <2>1. PICK g \in S : Requires[g] \intersect S = {}
    <3>1. S \in SUBSET Roadmap
      BY <1>1
    <3> HIDE DEF S
    <3> QED
      BY <1>2, <3>1, RoadmapAssumption
  <2>2. g \in setup.roadmap /\ g \in Goals /\ Requires[g] \subseteq setup.roadmap
    BY <1>1, <2>1, RoadmapAssumption
  <2>3. Requires[g] \subseteq CompletedGoals
    BY <2>1, <2>2
  <2>4. portfolio[g].status = "planned"
    <3>1. portfolio[g].status \in GoalStatus
      BY <2>2 DEF Shape, Entry
    <3>2. portfolio[g].status # "absent" /\ portfolio[g].status # "completed" /\ portfolio[g].status # "verifying"
      BY <2>1, <2>2 DEF Baseline, Active, CompletedGoals
    <3> QED
      BY <3>1, <3>2 DEF GoalStatus
  <2>5. g \in Ready
    BY <2>2, <2>3, <2>4 DEF Ready
  <2> QED
    BY <2>5 DEF Baseline
<1> QED
  BY <1>2

LEMMA ImprovesMove ==
    ASSUME Shape, EventsInv, \A e \in DOMAIN rows : Improves(e), Improves(job.event), [Next]_vars
    PROVE  (\A e \in DOMAIN rows' : Improves(e)) /\ Improves(job'.event)
<1>1. JobNext
  BY JobMoves
<1>2. Improves(job'.event)
  BY <1>1, ExcellenceEnqueued DEF JobNext
<1>3. \A e \in DOMAIN rows' : Improves(e)
  BY ExcellenceEnqueued DEF Improves
<1> QED
  BY <1>2, <1>3

Listed ==
    \/ \A g \in setup.roadmap : portfolio[g].status # "absent"
    \/ job.at = "down" /\ \A g \in Goals : portfolio[g].status = "absent"

LEMMA ListedStep ==
    ASSUME Shape, EventsInv, Listed, setup' = setup, [Next]_vars
    PROVE  Listed'
<1>0. setup.roadmap \subseteq Goals
  BY WorldAssumption DEF Shape, Setup, Goals
<1>1. CASE portfolio' = portfolio
  <2>1. CASE \A g \in setup.roadmap : portfolio[g].status # "absent"
    BY <1>1, <2>1 DEF Listed
  <2>2. CASE job.at = "down" /\ (\A g \in Goals : portfolio[g].status = "absent") /\ job' = job
    BY <1>1, <2>2 DEF Listed
  <2>3. CASE job.at = "down" /\ (\A g \in Goals : portfolio[g].status = "absent") /\ Start
    <3>1. portfolio' = Seeded
      BY <2>3 DEF Start
    <3> QED
      BY <1>0, <3>1, SeededWrites DEF Listed
  <2>4. job.at = "down" => job' = job \/ Start
    BY JobCases DEF Crash, Claim, Settle, SettleFailed, Continues
  <2> QED
    BY <2>1, <2>2, <2>3, <2>4 DEF Listed
<1>2. CASE portfolio' = Seeded
  BY <1>0, <1>2, SeededWrites DEF Listed
<1>3. CASE AdvanceExcellence
  <2>1. job.at # "down"
    BY <1>3 DEF AdvanceExcellence
  <2>2. \A g \in Goals : portfolio[g].status # "absent" => portfolio'[g].status # "absent"
    BY <1>3, ExcellenceWrites, BlankFields
  <2> QED
    BY <1>0, <2>1, <2>2 DEF Listed
<1>4. CASE RecordGoal
  BY <1>0, <1>4, RecordWrites DEF Listed
<1>5. CASE UpdateCompleted
  BY <1>0, <1>5, UpdateWrites DEF Listed
<1> QED
  BY <1>1, <1>2, <1>3, <1>4, <1>5, PortfolioCases

\* A goal of the roadmap is proposed only as long as it is planned.
RoadmapPlanned == job.at \in Proposing /\ job.goal \in Roadmap => portfolio[job.goal].status = "planned"

LEMMA RoadmapPlannedStep ==
    ASSUME Shape, EventsInv, RoadmapPlanned, Improves(job.event), [Next]_vars
    PROVE  RoadmapPlanned'
<1> SUFFICES ASSUME job'.at \in Proposing, job'.goal \in Roadmap
             PROVE  portfolio'[job'.goal].status = "planned"
  BY DEF RoadmapPlanned
<1>1. CASE portfolio' = portfolio /\ (job' = job \/ Follows)
  BY <1>1 DEF RoadmapPlanned, Follows
<1>2. CASE portfolio' = portfolio /\ job'.goal \in Ready
  BY <1>2 DEF Ready
<1>3. CASE AdvanceExcellence /\ job'.goal = job.event.goal
  <2>1. job.event.kind = "excellence"
    BY <1>3 DEF AdvanceExcellence
  <2>2. job.event.goal \notin Roadmap
    BY <2>1, ExcellenceGoals DEF Improves
  <2> QED
    BY <1>3, <2>2
<1> QED
  BY <1>1, <1>2, <1>3, ProposingStages DEF Follows

\* Whose events a listed excellence goal has.
ImprovementsListed ==
    \A n \in 1..Improvements : portfolio[Improvement(n)].status # "absent" => Excellence(n) \in DOMAIN rows

LEMMA ImprovementsStep ==
    ASSUME Shape, EventsInv, RowsInv, ImprovementsListed, Improves(job.event), PlannedBlank, GoalsInv,
           ProposingInv, [Next]_vars
    PROVE  ImprovementsListed'
<1> SUFFICES ASSUME NEW n \in 1..Improvements, portfolio'[Improvement(n)].status # "absent"
             PROVE  Excellence(n) \in DOMAIN rows'
  BY DEF ImprovementsListed, Improvement, Excellence
<1> DEFINE g == Improvement(n)
<1>1. g \in Goals \ Roadmap /\ Excellence(n).kind \notin OneDelivery
  BY ExcellenceGoals
<1>2. portfolio[g].status # "absent" => Excellence(n) \in DOMAIN rows'
  BY <1>1, RowsStay DEF ImprovementsListed
<1>3. CASE portfolio'[g] = portfolio[g]
  BY <1>2, <1>3
<1>4. CASE portfolio' = Seeded
  <2>1. g \notin setup.roadmap
    BY <1>1, WorldAssumption DEF Shape, Setup
  <2>2. portfolio'[g].status = "absent"
    BY <1>1, <1>4, <2>1, BlankFields DEF Seeded
  <2> QED
    BY <2>2
<1>5. CASE AdvanceExcellence /\ g = job.event.goal
  <2>1. job.at = "advance" /\ job.event.kind = "excellence"
    BY <1>5 DEF AdvanceExcellence
  <2>2. PICK m \in 1..Improvements : job.event = Excellence(m)
    BY <2>1 DEF Improves
  <2>3. job.event = Excellence(n)
    BY <1>5, <2>2, ExcellenceGoals
  <2>4. job.event \in DOMAIN rows
    BY <2>1 DEF RowsInv
  <2> QED
    BY <1>1, <2>3, <2>4, RowsStay
<1>6. CASE RecordGoal /\ g = job.goal
  <2>1. portfolio[g].status \in {"planned", "completed"}
    BY <1>6, RecordWrites DEF ProposingInv, Proposing
  <2> QED
    BY <1>2, <2>1
<1>7. CASE UpdateCompleted /\ g = job.goal
  <2>1. portfolio[g].pull = job.event.pull /\ job.event.kind = "merged"
    BY <1>7 DEF UpdateCompleted, GoalsInv, EventsInv
  <2>2. job.event.pull \in DOMAIN pulls /\ pulls \in Seq(Pull)
    BY <2>1 DEF EventsInv, KnownEvent, Shape
  <2>3. portfolio[g].pull # 0
    BY <2>1, <2>2
  <2>4. portfolio[g].status # "absent"
    BY <1>1, <2>3 DEF PlannedBlank
  <2> QED
    BY <1>2, <2>4
<1> QED
  <2>1. CASE portfolio' = portfolio \/ portfolio' = Seeded
    BY <1>3, <1>4, <2>1
  <2>2. CASE AdvanceExcellence
    BY <1>1, <1>3, <1>5, <2>2, ExcellenceWrites
  <2>3. CASE RecordGoal
    BY <1>1, <1>3, <1>6, <2>3, RecordWrites
  <2>4. CASE UpdateCompleted
    BY <1>1, <1>3, <1>7, <2>4, UpdateWrites
  <2> QED
    BY <2>1, <2>2, <2>3, <2>4, PortfolioCases

LEMMA BaselineStep ==
    Shape /\ EventsInv /\ PaidInv /\ Counters /\ RowsInv /\ GoalsInv /\ FlightInv /\ BaselineInv /\ [Next]_vars
    => BaselineInv'
<1> SUFFICES ASSUME Shape, EventsInv, PaidInv, Counters, RowsInv, GoalsInv, FlightInv, BaselineInv, [Next]_vars
             PROVE  BaselineInv'
  OBVIOUS
<1>1. setup' = setup
  BY BoundsMove DEF Counters
<1>2. /\ (\A e \in DOMAIN rows : Improves(e)) /\ Improves(job.event) /\ ImprovementsListed /\ RoadmapPlanned
      /\ Listed /\ ExcellenceAfterBaseline /\ PlannedBlank /\ ProposingInv
  BY DEF BaselineInv, ImprovementsListed, RoadmapPlanned, Listed, FlightInv, PlannedBlank, ProposingInv
<1>3. (\A e \in DOMAIN rows' : Improves(e)) /\ Improves(job'.event)
  BY <1>2, ImprovesMove
<1>4. ImprovementsListed' /\ RoadmapPlanned' /\ Listed'
  BY <1>1, <1>2, ImprovementsStep, RoadmapPlannedStep, ListedStep
<1>5. ASSUME setup.roadmap \subseteq CompletedGoals
      PROVE  setup.roadmap \subseteq CompletedGoals'
  <2> SUFFICES ASSUME NEW g \in setup.roadmap PROVE g \in CompletedGoals'
    OBVIOUS
  <2>1. g \in Roadmap /\ g \in Goals /\ portfolio[g].status = "completed"
    BY <1>5, WorldAssumption DEF Shape, Setup, CompletedGoals
  <2>2. ~ (RecordGoal /\ g = job.goal /\ job.at = "record")
    BY <1>2, <2>1 DEF RoadmapPlanned, Proposing
  <2>3. portfolio'[g] = portfolio[g]
    BY <2>1, <2>2, CompletedMoves
  <2> QED
    BY <2>1, <2>3 DEF CompletedGoals
<1>6. ExcellenceAfterBaseline'
  <2> SUFFICES ASSUME NEW e \in DOMAIN rows', e.kind = "excellence"
               PROVE  setup.roadmap \subseteq CompletedGoals'
    BY <1>1 DEF ExcellenceAfterBaseline
  <2>1. CASE e \in DOMAIN rows
    BY <1>2, <1>5, <2>1 DEF ExcellenceAfterBaseline
  <2>2. CASE Heartbeat /\ Baseline /\ job.at = "idle"
    <3>1. \A g \in setup.roadmap : portfolio[g].status # "absent"
      BY <1>2, <2>2 DEF Listed
    <3>2. setup.roadmap \subseteq CompletedGoals
      BY <2>2, <3>1, BaselineFinished
    <3> QED
      BY <1>5, <3>2
  <2> QED
    BY <1>2, <2>1, <2>2, ExcellenceEnqueued
<1> QED
  BY <1>3, <1>4, <1>6 DEF BaselineInv, ImprovementsListed, RoadmapPlanned, Listed, Improves, Improvement, Excellence

LEMMA BaselineInit == Init => BaselineInv
<1> SUFFICES ASSUME Init PROVE BaselineInv
  OBVIOUS
<1>1. /\ portfolio = [g \in Goals |-> Blank("absent")] /\ job.at = "down" /\ job.event = Boot /\ rows = <<>>
  BY DEF Init, Job
<1>2. DOMAIN rows = {} /\ \A g \in Goals : portfolio[g].status = "absent"
  BY <1>1, BlankFields
<1>3. Improves(Boot)
  BY DEF Improves, Boot
<1> QED
  BY <1>1, <1>2, <1>3, ExcellenceGoals DEF BaselineInv, ExcellenceAfterBaseline, Proposing

\* Continuous excellence (self_audit.run_once, continuous_excellence.run) is
\* entered only on the finished roadmap: when the heartbeat enqueues its first
\* event, also from a saved report, every goal of the roadmap is completed, and
\* stays so.
THEOREM ExcellenceFollowsBaseline == Spec => []ExcellenceAfterBaseline
<1>1. Init => PaidInv /\ RowsInv /\ Counters /\ GoalsInv /\ FlightInv /\ BaselineInv
  BY BudgetsInit, TypesInit, GoalsInit, FlightInit, BaselineInit
<1>2. Shape /\ EventsInv /\ (Shape /\ EventsInv)' /\ PaidInv /\ RowsInv /\ Counters /\ GoalsInv /\ FlightInv
      /\ BaselineInv /\ [Next]_vars
      => (PaidInv /\ RowsInv /\ Counters /\ GoalsInv /\ FlightInv /\ BaselineInv)'
  BY PaidStep, RowsStep, CountersStep, GoalsStep, FlightStep, BaselineStep
<1>3. BaselineInv => ExcellenceAfterBaseline
  BY DEF BaselineInv
<1> QED
  BY <1>1, <1>2, <1>3, EventsKnown, PTL DEF Spec

-----------------------------------------------------------------------------
(* Completed goals stay                                                    *)

\* The stages in which only one step of the executor is possible.
LEMMA StageSteps ==
    ASSUME Shape, EventsInv, [Next]_vars, ~ Crash, ~ CallRaises
    PROVE  /\ job.at = "propose" => job' = job \/ ProposeGoal
           /\ job.at = "branch" => job' = job \/ CreateBranch
           /\ job.at = "open" => job' = job \/ OpenPull
           /\ job.at = "record" => job' = job \/ RecordGoal
           /\ job.at = "returned" => job' = job \/ Settle
<1>1. CASE Executor
  BY <1>1 DEF Executor, DevelopmentStep, MergePull, RepairRefused, ProposeRepair, CommitRepair, CountRepair, Rerun,
     CountRerun, VerifyMerge, Note, GovernorStep, AdvanceNothing, AdvanceReady, AdvanceExcellence, ProposeGoal,
     CreateBranch, OpenPull, RecordGoal, CompleteNothing, CompleteAccepted, UpdateCompleted, NextGeneration
<1> QED
  BY <1>1, JobCases DEF Start, Claim, Settle, SettleFailed

\* Without an eligible provider nothing is spent and nothing is learned.
LEMMA NobodyAnswers ==
    ASSUME PoolOk, Propose(job', job'), Eligible = {}
    PROVE  Eligible' = {} /\ NoAnswer
<1>1. NoAnswer
  BY DEF Propose
<1>2. Cardinality(Eligible \intersect Paid) = 0
  BY FS_EmptySet
<1>3. paidUsed' = paidUsed
  BY <1>1, <1>2 DEF NoAnswer, Charged, PoolOk, PoolTypeOK
<1>4. health' = health
  <2>1. health' = [v \in Providers |-> health[v]]
    BY <1>1 DEF NoAnswer, Recorded
  <2> QED
    BY <2>1 DEF PoolOk, PoolTypeOK
<1> QED
  BY <1>1, <1>3, <1>4 DEF Eligible, Admits, Healthy

\* Providers that fail are incidents.
LEMMA NobodyFailed ==
    ASSUME PoolOk, NoAnswer, Incident(Cardinality(Eligible)), incidents' = incidents
    PROVE  Eligible = {}
<1>1. IsFiniteSet(Eligible) /\ Cardinality(Eligible) \in Nat
  BY TriedFinite
<1>2. Cardinality(Eligible) = 0
  BY <1>1 DEF Incident, PoolOk
<1> QED
  BY <1>1, <1>2, FS_EmptySet

\* An undisturbed step.
Fresh == incidents = 0 /\ incidents' = 0 /\ ~ Crash /\ ~ CallRaises /\ ~ MergeRepeated

LEMMA FreshSteps ==
    ASSUME PaidInv, incidents' = 0, [Next]_vars
    PROVE  Fresh
<1>1. PoolOk /\ PoolOk'
  BY PoolMoves DEF PaidInv, PoolOk
<1>2. incidents \in Nat /\ incidents' \in Nat /\ incidents <= incidents'
  BY <1>1, PoolMoves DEF PoolOk
<1>3. incidents = 0
  BY <1>2
<1>4. ~ Incident(1)
  BY <1>3 DEF Incident
<1> QED
  BY <1>3, <1>4 DEF Fresh, Crash, CallRaises, MergeRepeated

\* What the providers answer, undisturbed, if somebody is asked.
LEMMA EligibleMoves ==
    ASSUME Shape, EventsInv, PaidInv, Fresh, Eligible = {}, job.at # "down", [Next]_vars
    PROVE  Eligible' = {}
<1>1. CASE ProposeGoal \/ ProposeRepair
  <2>1. PoolOk
    BY DEF PaidInv, PoolOk
  <2>2. Propose(job', job')
    BY <1>1 DEF ProposeGoal, ProposeRepair, Propose
  <2> QED
    BY <2>1, <2>2, NobodyAnswers
<1>2. CASE Unpaid
  <2>1. UNCHANGED pool
    BY <1>2, UnpaidMoves DEF PaidInv
  <2> QED
    BY <2>1 DEF Eligible, Admits, Healthy, pool
<1> QED
  BY <1>1, <1>2, PaidCases DEF Start, Fresh

FreshDown == job.at = "down" => \A g \in Goals : portfolio[g].status = "absent"
FreshProposing == job.at \in Proposing => portfolio[job.goal].status = "planned"
FreshBranches ==
    \A b \in branches :
        \/ portfolio[b[1]].status \in {"verifying", "completed"}
        \/ job.at \in {"open", "record"} /\ job.goal = b[1]

\* The excellence event e, not handled yet.
Untouched(e) == portfolio[e.goal].status = "absent"
Unanswered(e) ==
    /\ portfolio[e.goal].status = "planned" /\ Eligible = {}
    /\ ~(job.at \in {"branch", "open", "record"} /\ job.goal = e.goal)
InHand(e) == job.event = e /\ job.goal = e.goal /\ job.at \in Proposing \union {"returned"}

FreshEvents ==
    \A e \in DOMAIN rows :
        e.kind = "excellence" /\ rows[e].status # "completed" => Untouched(e) \/ Unanswered(e) \/ InHand(e)

\* AdvanceExcellence meets a goal that is not listed yet.
LEMMA ExcellenceFresh ==
    ASSUME Shape, EventsInv, RowsInv, FreshEvents, Improves(job.event), AdvanceExcellence
    PROVE  portfolio[job.event.goal].status = "absent" /\ portfolio'[job.event.goal].status = "planned"
<1>1. job.at = "advance" /\ job.event.kind = "excellence" /\ Ready = {}
  BY DEF AdvanceExcellence
<1>2. job.event \in DOMAIN rows /\ rows[job.event].status = "leased"
  BY <1>1 DEF RowsInv
<1>3. job.event.goal \in Goals \ Roadmap
  <2>1. PICK n \in 1..Improvements : job.event = Excellence(n)
    BY <1>1 DEF Improves
  <2> QED
    BY <2>1, ExcellenceGoals
<1>4. portfolio[job.event.goal].status # "planned"
  BY <1>1, <1>3 DEF Ready
<1>5. ~ InHand(job.event)
  BY <1>1 DEF InHand, Proposing
<1>6. portfolio[job.event.goal].status = "absent"
  BY <1>1, <1>2, <1>4, <1>5 DEF FreshEvents, Untouched, Unanswered
<1>7. portfolio'[job.event.goal].status # "absent"
  BY ExcellenceWrites
<1> QED
  BY <1>3, <1>6, <1>7, ExcellenceWrites, BlankFields

LEMMA FreshDownStep ==
    ASSUME Shape, EventsInv, FreshDown, Fresh, [Next]_vars
    PROVE  FreshDown'
<1> SUFFICES ASSUME job'.at = "down", NEW g \in Goals PROVE portfolio'[g].status = "absent"
  BY DEF FreshDown
<1>1. job.at = "down" /\ job' = job
  BY DownMoves DEF Fresh
<1>2. portfolio[g].status = "absent"
  BY <1>1 DEF FreshDown
<1>3. portfolio' = portfolio \/ portfolio' = Seeded
  BY <1>1, PortfolioCases DEF AdvanceExcellence, RecordGoal, UpdateCompleted
<1>4. ~ Start
  BY <1>1 DEF Start, Job
<1> QED
  BY <1>1, <1>2, <1>4, PortfolioCases DEF AdvanceExcellence, RecordGoal, UpdateCompleted

LEMMA FreshProposingStep ==
    ASSUME Shape, EventsInv, RowsInv, FreshEvents, Improves(job.event), FreshProposing, [Next]_vars
    PROVE  FreshProposing'
<1> SUFFICES ASSUME job'.at \in Proposing PROVE portfolio'[job'.goal].status = "planned"
  BY DEF FreshProposing
<1>1. CASE portfolio' = portfolio /\ (job' = job \/ Follows)
  BY <1>1 DEF FreshProposing, Follows
<1>2. CASE portfolio' = portfolio /\ job'.goal \in Ready
  BY <1>2 DEF Ready
<1>3. CASE AdvanceExcellence /\ job'.goal = job.event.goal
  BY <1>3, ExcellenceFresh
<1> QED
  BY <1>1, <1>2, <1>3, ProposingStages DEF Follows

\* A goal that is in progress or completed does not go back, undisturbed.
LEMMA StatusStays ==
    ASSUME Shape, EventsInv, [Next]_vars, NEW g \in Goals,
           portfolio[g].status \in {"verifying", "completed"}
    PROVE  portfolio'[g].status \in {"verifying", "completed"}
<1>1. CASE AdvanceExcellence
  BY <1>1, ExcellenceWrites
<1>2. CASE RecordGoal
  BY <1>2, RecordWrites
<1>3. CASE UpdateCompleted
  BY <1>3, UpdateWrites
<1> QED
  BY <1>1, <1>2, <1>3, PortfolioCases

LEMMA FreshBranchesStep ==
    ASSUME Shape, EventsInv, Counters, FreshBranches, Fresh, [Next]_vars
    PROVE  FreshBranches'
<1> SUFFICES ASSUME NEW b \in branches'
             PROVE  \/ portfolio'[b[1]].status \in {"verifying", "completed"}
                    \/ job'.at \in {"open", "record"} /\ job'.goal = b[1]
  BY DEF FreshBranches
<1>0. job \in Jobs
  BY DEF Shape
<1>1. CASE b \in branches /\ portfolio[b[1]].status \in {"verifying", "completed"}
  <2>1. b[1] \in Goals
    BY <1>1 DEF Counters
  <2> QED
    BY <1>1, <2>1, StatusStays
<1>2. CASE b \in branches /\ job.at \in {"open", "record"} /\ job.goal = b[1]
  <2>1. job' = job \/ OpenPull \/ RecordGoal
    BY <1>2, StageSteps DEF Fresh
  <2>2. CASE job' = job
    BY <1>2, <2>2
  <2>3. CASE OpenPull
    <3>1. job' = [job EXCEPT !.at = "record", !.pull = Len(pulls) + 1]
      BY <2>3 DEF OpenPull
    <3> QED
      BY <1>0, <1>2, <3>1 DEF Jobs
  <2>4. CASE RecordGoal
    BY <1>2, <2>4, RecordWrites
  <2> QED
    BY <2>1, <2>2, <2>3, <2>4
<1>3. CASE b \notin branches
  <2>1. CreateBranch /\ branches' = branches \union {<<job.goal, job.base>>}
    BY <1>3, BranchesMove
  <2>2. b = <<job.goal, job.base>> /\ Goto("open")
    BY <1>3, <2>1 DEF CreateBranch
  <2>3. job'.at = "open" /\ job'.goal = job.goal
    BY <1>0, <2>2 DEF Goto, Jobs
  <2> QED
    BY <2>2, <2>3
<1> QED
  BY <1>1, <1>2, <1>3 DEF FreshBranches

\* A handled event is not taken up again: only a merge is delivered twice.
LEMMA HandledStays ==
    ASSUME Shape, EventsInv, RowsInv, Fresh, [Next]_vars, NEW e \in DOMAIN rows, e \in DOMAIN rows',
           rows[e].status = "completed"
    PROVE  rows'[e].status = "completed"
<1>0. RowsOk
  BY DEF RowsInv, RowsOk
<1>1. CASE Adds
  BY <1>1 DEF Adds
<1>2. CASE Claim
  <2>1. PICK x \in DOMAIN rows :
          /\ rows[x].status = "pending"
          /\ CompleteRow(x, rows[x].attempts + 1) \/ \E a \in Paths : ClaimTakes(x, a)
    BY <1>2, ClaimCases
  <2>2. x # e /\ rows[x].attempts + 1 \in Nat
    BY <1>0, <2>1 DEF RowsOk, Row
  <2> QED
    BY <1>0, <2>1, <2>2, CompleteOk, TakenOk
<1>3. CASE Settle
  <2>1. job.event \in DOMAIN rows /\ rows[job.event].status = "leased" /\ rows[job.event].attempts \in Nat
    BY <1>0, <1>3 DEF Settle, RowsInv, RowsOk, Row
  <2> QED
    BY <1>0, <1>3, <2>1, CompleteOk DEF Settle
<1>4. CASE SettleFailed
  <2>1. job.event \in DOMAIN rows /\ rows[job.event].status = "leased"
    BY <1>4 DEF SettleFailed, RowsInv
  <2> QED
    BY <1>0, <1>4, <2>1, FailedOk
<1>5. CASE RecoverLease
  BY <1>5 DEF RecoverLease, SetRow
<1> QED
  BY <1>1, <1>2, <1>3, <1>4, <1>5, RowsAdded DEF Next, Process, Fresh

\* A goal that is not in progress is not completed.
LEMMA UpdateOfActive ==
    ASSUME Shape, EventsInv, GoalsInv, PlannedBlank, UpdateCompleted
    PROVE  portfolio[job.goal].status \notin {"absent", "planned"}
<1>1. job.goal \in Goals /\ portfolio[job.goal].pull = job.event.pull /\ job.event.kind = "merged"
  BY DEF UpdateCompleted, GoalsInv, EventsInv
<1>2. job.event.pull \in DOMAIN pulls /\ pulls \in Seq(Pull)
  BY <1>1 DEF EventsInv, KnownEvent, Shape
<1>3. portfolio[job.goal].pull # 0
  BY <1>1, <1>2
<1> QED
  BY <1>1, <1>3 DEF PlannedBlank

LEMMA FreshEventsStep ==
    ASSUME Shape, EventsInv, PaidInv, RowsInv, GoalsInv, PlannedBlank, ImprovementsListed,
           \A e \in DOMAIN rows : Improves(e), Improves(job.event),
           FreshDown, FreshProposing, FreshBranches, FreshEvents, Fresh, [Next]_vars
    PROVE  \A e \in DOMAIN rows' :
             e.kind = "excellence" /\ rows'[e].status # "completed" =>
                \/ portfolio'[e.goal].status = "absent"
                \/ /\ portfolio'[e.goal].status = "planned" /\ Eligible' = {}
                   /\ ~(job'.at \in {"branch", "open", "record"} /\ job'.goal = e.goal)
                \/ job'.event = e /\ job'.goal = e.goal /\ job'.at \in Proposing \union {"returned"}
<1> SUFFICES ASSUME NEW e \in DOMAIN rows', e.kind = "excellence", rows'[e].status # "completed"
             PROVE  \/ portfolio'[e.goal].status = "absent"
                    \/ /\ portfolio'[e.goal].status = "planned" /\ Eligible' = {}
                       /\ ~(job'.at \in {"branch", "open", "record"} /\ job'.goal = e.goal)
                    \/ job'.event = e /\ job'.goal = e.goal /\ job'.at \in Proposing \union {"returned"}
  OBVIOUS
<1>0. job \in Jobs /\ PoolOk
  BY DEF Shape, PaidInv, PoolOk
<1>1. CASE e \notin DOMAIN rows
  <2>1. PICK n \in 1..Improvements : e = Excellence(n) /\ Heartbeat
    BY <1>1, ExcellenceEnqueued
  <2>2. portfolio[e.goal].status = "absent"
    BY <1>1, <2>1, ExcellenceGoals DEF ImprovementsListed
  <2> QED
    BY <2>1, <2>2 DEF Heartbeat, goals
<1>2. CASE e \in DOMAIN rows
  <2>1. rows[e].status # "completed"
    BY <1>2, HandledStays
  <2>2. PICK n \in 1..Improvements : e = Excellence(n)
    BY <1>2 DEF Improves
  <2>3. e.goal \in Goals \ Roadmap
    BY <2>2, ExcellenceGoals
  <2>4. CASE Untouched(e)
    <3>1. CASE portfolio'[e.goal] = portfolio[e.goal]
      BY <2>4, <3>1 DEF Untouched
    <3>2. CASE portfolio' = Seeded
      <4>1. e.goal \notin setup.roadmap
        BY <2>3, WorldAssumption DEF Shape, Setup
      <4> QED
        BY <2>3, <3>2, <4>1, BlankFields DEF Seeded
    <3>3. CASE AdvanceExcellence /\ e.goal = job.event.goal
      <4>1. job.event.kind = "excellence" /\ job' = [job EXCEPT !.at = "propose", !.goal = job.event.goal]
        BY <3>3 DEF AdvanceExcellence
      <4>2. PICK m \in 1..Improvements : job.event = Excellence(m)
        BY <4>1 DEF Improves
      <4>3. job.event = e
        BY <2>2, <3>3, <4>2, ExcellenceGoals
      <4> QED
        BY <1>0, <4>1, <4>3 DEF Jobs, Proposing
    <3>4. ~ (RecordGoal /\ e.goal = job.goal)
      BY <2>4, RecordWrites DEF FreshProposing, Proposing, Untouched
    <3>5. ~ (UpdateCompleted /\ e.goal = job.goal)
      BY <2>4, UpdateOfActive DEF Untouched
    <3> QED
      BY <2>3, <3>1, <3>2, <3>3, <3>4, <3>5, PortfolioCases, ExcellenceWrites, RecordWrites, UpdateWrites
  <2>5. CASE Unanswered(e)
    <3>1. job.at # "down"
      BY <2>3, <2>5 DEF Unanswered, FreshDown
    <3>2. Eligible = {} /\ Eligible' = {} /\ portfolio[e.goal].status = "planned"
      BY <2>5, <3>1, EligibleMoves DEF Unanswered
    <3>3. portfolio'[e.goal] = portfolio[e.goal]
      <4>1. ~ Start
        BY <3>1 DEF Start
      <4>2. ~ (RecordGoal /\ e.goal = job.goal)
        BY <2>5, RecordWrites DEF Unanswered
      <4>3. ~ (UpdateCompleted /\ e.goal = job.goal)
        BY <3>2, UpdateOfActive
      <4>4. AdvanceExcellence => portfolio'[e.goal] = portfolio[e.goal]
        BY <2>3, <3>2, ExcellenceWrites
      <4> QED
        BY <2>3, <4>1, <4>2, <4>3, <4>4, PortfolioCases, RecordWrites, UpdateWrites
    <3>4. ASSUME job'.at \in {"branch", "open", "record"}, job'.goal = e.goal
          PROVE  FALSE
      <4>1. job' = job \/ Follows
        BY <3>4, ProposingStages DEF Proposing
      <4>2. CASE job' = job
        BY <2>5, <3>4, <4>2 DEF Unanswered
      <4>3. CASE ProposeGoal
        <5>1. Propose([job EXCEPT !.at = "branch", !.base = main], [job EXCEPT !.at = "raised"])
          BY <4>3 DEF ProposeGoal
        <5>2. job' = [job EXCEPT !.at = "raised"]
          BY <3>2, <5>1 DEF Propose
        <5> QED
          BY <1>0, <3>4, <5>2 DEF Jobs
      <4>4. CASE Follows /\ (CreateBranch \/ OpenPull)
        BY <2>5, <3>4, <4>4 DEF Follows, CreateBranch, OpenPull, Unanswered
      <4> QED
        BY <4>1, <4>2, <4>3, <4>4 DEF Follows
    <3> QED
      BY <3>2, <3>3, <3>4
  <2>6. CASE InHand(e)
    <3>0. job.event = e /\ job.goal = e.goal /\ job.at \in Proposing \union {"returned"}
      BY <2>6 DEF InHand
    <3>1. CASE job' = job
      BY <3>0, <3>1
    <3>2. CASE ProposeGoal
      <4>1. portfolio' = portfolio /\ portfolio[e.goal].status = "planned"
        BY <3>0, <3>2 DEF ProposeGoal, FreshProposing, Proposing, goals
      <4>2. CASE job' = [job EXCEPT !.at = "branch", !.base = main]
        BY <1>0, <3>0, <4>2 DEF Jobs, Proposing
      <4>3. CASE NoAnswer /\ Incident(Cardinality(Eligible)) /\ job' = [job EXCEPT !.at = "raised"]
        <5>1. Eligible = {}
          BY <1>0, <4>3, NobodyFailed DEF Fresh
        <5>2. Eligible' = {}
          BY <3>0, <3>2, <5>1, EligibleMoves DEF ProposeGoal
        <5>3. job'.at = "raised"
          BY <1>0, <4>3 DEF Jobs
        <5> QED
          BY <4>1, <5>2, <5>3
      <4> QED
        BY <3>2, <4>2, <4>3 DEF ProposeGoal, Propose
    <3>3. CASE CreateBranch
      <4>1. portfolio[job.goal].status = "planned" /\ job.at = "branch"
        BY <3>3 DEF CreateBranch, FreshProposing, Proposing
      <4>2. BranchFree(job.goal, job.base)
        BY <4>1 DEF BranchFree, FreshBranches
      <4>3. Goto("open")
        BY <3>3, <4>2 DEF CreateBranch
      <4> QED
        BY <1>0, <3>0, <4>3 DEF Goto, Jobs, Proposing
    <3>4. CASE OpenPull
      <4>1. job' = [job EXCEPT !.at = "record", !.pull = Len(pulls) + 1]
        BY <3>4 DEF OpenPull
      <4> QED
        BY <1>0, <3>0, <4>1 DEF Jobs, Proposing
    <3>5. CASE RecordGoal
      <4>1. Goto("returned")
        BY <3>5 DEF RecordGoal
      <4> QED
        BY <1>0, <3>0, <4>1 DEF Goto, Jobs
    <3>6. CASE Settle
      <4>1. RowsOk /\ rows[e].attempts \in Nat
        BY <1>2 DEF RowsInv, RowsOk, Row
      <4>2. rows'[e].status = "completed"
        BY <1>2, <3>0, <3>6, <4>1, CompleteOk DEF Settle
      <4> QED
        BY <4>2
    <3> QED
      BY <3>0, <3>1, <3>2, <3>3, <3>4, <3>5, <3>6, StageSteps DEF Proposing, Fresh
  <2> QED
    BY <1>2, <2>1, <2>4, <2>5, <2>6 DEF FreshEvents
<1> QED
  BY <1>1, <1>2

LEMMA FreshStep ==
    Shape /\ EventsInv /\ PaidInv /\ Counters /\ RowsInv /\ GoalsInv /\ FlightInv /\ BaselineInv /\ FreshInv
    /\ [Next]_vars => FreshInv'
<1> SUFFICES ASSUME Shape, EventsInv, PaidInv, Counters, RowsInv, GoalsInv, FlightInv, BaselineInv, FreshInv,
                    [Next]_vars, incidents' = 0
             PROVE  FreshInv'
  BY DEF FreshInv
<1>1. Fresh
  BY FreshSteps
<1>2. FreshDown /\ FreshProposing /\ FreshEvents /\ FreshBranches
  BY <1>1 DEF FreshInv, Fresh, FreshDown, FreshProposing, FreshEvents, FreshBranches, Untouched, Unanswered, InHand
<1>3. PlannedBlank /\ ImprovementsListed /\ (\A e \in DOMAIN rows : Improves(e)) /\ Improves(job.event)
  BY DEF FlightInv, PlannedBlank, BaselineInv, ImprovementsListed
<1>4. FreshDown' /\ FreshProposing' /\ FreshBranches'
  BY <1>1, <1>2, <1>3, FreshDownStep, FreshProposingStep, FreshBranchesStep
<1>5. \A e \in DOMAIN rows' :
        e.kind = "excellence" /\ rows'[e].status # "completed" =>
           \/ portfolio'[e.goal].status = "absent"
           \/ /\ portfolio'[e.goal].status = "planned" /\ Eligible' = {}
              /\ ~(job'.at \in {"branch", "open", "record"} /\ job'.goal = e.goal)
           \/ job'.event = e /\ job'.goal = e.goal /\ job'.at \in Proposing \union {"returned"}
  BY <1>1, <1>2, <1>3, FreshEventsStep
<1> QED
  BY <1>4, <1>5 DEF FreshInv, FreshDown, FreshProposing, FreshBranches

LEMMA FreshInit == Init => FreshInv
<1> SUFFICES ASSUME Init PROVE FreshInv
  OBVIOUS
<1>1. /\ portfolio = [g \in Goals |-> Blank("absent")] /\ job.at = "down" /\ rows = <<>> /\ branches = {}
  BY DEF Init, WorldInit, Job
<1>2. DOMAIN rows = {} /\ \A g \in Goals : portfolio[g].status = "absent"
  BY <1>1, BlankFields
<1> QED
  BY <1>1, <1>2 DEF FreshInv, Proposing

LEMMA CompletedRest ==
    Shape /\ EventsInv /\ BaselineInv /\ FreshInv /\ [Next]_vars
    => [\A g \in CompletedGoals : g \in Roadmap \/ incidents = 0 => portfolio'[g] = portfolio[g]]_vars
<1> SUFFICES ASSUME Shape, EventsInv, BaselineInv, FreshInv, [Next]_vars,
                    NEW g \in CompletedGoals, g \in Roadmap \/ incidents = 0
             PROVE  portfolio'[g] = portfolio[g]
  OBVIOUS
<1>1. g \in Goals /\ portfolio[g].status = "completed"
  BY DEF CompletedGoals
<1>2. ~ (g = job.goal /\ job.at = "record")
  BY <1>1 DEF BaselineInv, FreshInv, Proposing
<1> QED
  BY <1>1, <1>2, CompletedMoves

\* A goal that was accepted is settled: nothing writes a completed goal of the
\* roadmap again (GoalPortfolio.update, the seeding of GoalStore.load), and an
\* excellence goal is taken up a second time only when a failure left its event
\* unhandled behind it (advance calls add_goal and update for any event).
THEOREM CompletedGoalsStay == Spec => CompletedStays
<1>1. Init => PaidInv /\ RowsInv /\ Counters /\ GoalsInv /\ FlightInv /\ BaselineInv /\ FreshInv
  BY BudgetsInit, TypesInit, GoalsInit, FlightInit, BaselineInit, FreshInit
<1>2. Shape /\ EventsInv /\ (Shape /\ EventsInv)' /\ PaidInv /\ RowsInv /\ Counters /\ GoalsInv /\ FlightInv
      /\ BaselineInv /\ FreshInv /\ [Next]_vars
      => (PaidInv /\ RowsInv /\ Counters /\ GoalsInv /\ FlightInv /\ BaselineInv /\ FreshInv)'
  BY PaidStep, RowsStep, CountersStep, GoalsStep, FlightStep, BaselineStep, FreshStep
<1>3. Shape /\ EventsInv /\ BaselineInv /\ FreshInv /\ [Next]_vars
      => [\A g \in CompletedGoals : g \in Roadmap \/ incidents = 0 => portfolio'[g] = portfolio[g]]_vars
  BY CompletedRest
<1> QED
  BY <1>1, <1>2, <1>3, EventsKnown, PTL DEF Spec, CompletedStays
=============================================================================
