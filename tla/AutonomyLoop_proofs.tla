-------------------------- MODULE AutonomyLoop_proofs --------------------------
(***************************************************************************)
(* Proofs about AutonomyLoop, for any roadmap, providers, budgets, bounds   *)
(* and deployments: what the governor merged had been verified, and a       *)
(* completed goal was merged as it was recorded.                            *)
(***************************************************************************)
EXTENDS AutonomyLoop, TLAPS

-----------------------------------------------------------------------------
(* Pull requests: what may happen to one of them                           *)

OkPull(b) == b \in Pull /\ b.head \in DOMAIN b.checks

\* Whatever was merged stays as it was merged; an acceptable check stays.
Later(a, b) ==
    /\ OkPull(b)
    /\ b.goal = a.goal
    /\ a.state = "merged" => b.state = "merged" /\ b.head = a.head /\ b.by = a.by
    /\ \A h \in DOMAIN a.checks :
         /\ h \in DOMAIN b.checks
         /\ a.checks[h] \in Acceptable => b.checks[h] = a.checks[h]

LEMMA SameLater == ASSUME NEW a, OkPull(a) PROVE Later(a, a)
BY DEF Later

LEMMA CommittedLater ==
    ASSUME NEW p \in DOMAIN pulls, OkPull(pulls[p]), NEW fix \in {0, 1}
    PROVE  Later(pulls[p], Committed(p, fix)) /\ Committed(p, fix).by = pulls[p].by
                                              /\ Committed(p, fix).state = pulls[p].state
<1> DEFINE a == pulls[p]
           c == Append(a.checks, "pending")
           b == [a EXCEPT !.tip = @ + 1, !.head = @ + 1, !.checks = c, !.fixes = @ + fix]
           d == [a EXCEPT !.tip = @ + 1, !.fixes = @ + fix]
<1>1. /\ a \in Pull /\ a.checks \in Seq(Check) /\ a.head \in 1..Len(a.checks)
      /\ a.tip + 1 \in Nat \ {0} /\ a.head + 1 \in Nat \ {0} /\ a.fixes + fix \in Nat
  BY DEF OkPull, Pull
<1>2. /\ c \in Seq(Check) /\ a.head + 1 \in DOMAIN c
      /\ \A h \in DOMAIN a.checks : h \in DOMAIN c /\ c[h] = a.checks[h]
  <2>1. "pending" \in Check
    BY DEF Check
  <2>2. c \in Seq(Check) /\ Len(c) = Len(a.checks) + 1
    BY <1>1, <2>1
  <2>3. DOMAIN c = 1..(Len(a.checks) + 1) /\ DOMAIN a.checks = 1..Len(a.checks)
    BY <1>1, <2>2
  <2>4. \A h \in DOMAIN a.checks : c[h] = a.checks[h]
    BY <1>1
  <2> QED
    BY <1>1, <2>2, <2>3, <2>4
<1>3. CASE a.state = "open"
  <2>1. Committed(p, fix) = b
    BY <1>3 DEF Committed
  <2>2. b \in Pull /\ b.head = a.head + 1 /\ b.checks = c /\ b.goal = a.goal /\ b.by = a.by /\ b.state = a.state
    BY <1>1, <1>2 DEF Pull
  <2> HIDE DEF b, c
  <2> QED
    BY <1>2, <1>3, <2>1, <2>2 DEF Later, OkPull
<1>4. CASE a.state # "open"
  <2>1. Committed(p, fix) = d
    BY <1>4 DEF Committed
  <2>2. d \in Pull /\ d.head = a.head /\ d.checks = a.checks /\ d.goal = a.goal /\ d.by = a.by /\ d.state = a.state
    BY <1>1 DEF Pull
  <2> HIDE DEF d
  <2> QED
    BY <1>1, <2>1, <2>2 DEF Later, OkPull
<1> QED
  BY <1>3, <1>4

LEMMA ClosedLater ==
    ASSUME NEW a, OkPull(a), a.state = "open",
           NEW s \in {"merged", "closed"}, NEW who \in {"nobody", "person", "governor"}
    PROVE  /\ Later(a, [a EXCEPT !.state = s, !.by = who])
           /\ Later(a, [a EXCEPT !.state = s])
BY DEF Later, OkPull, Pull

LEMMA CheckedLater ==
    ASSUME NEW a, OkPull(a), NEW h \in DOMAIN a.checks, a.checks[h] \notin Acceptable, NEW c \in Check
    PROVE  /\ Later(a, [a EXCEPT !.checks[h] = c])
           /\ [a EXCEPT !.checks[h] = c].by = a.by
           /\ [a EXCEPT !.checks[h] = c].state = a.state
<1> DEFINE k == [a.checks EXCEPT ![h] = c]
           b == [a EXCEPT !.checks = k]
<1>1. a.checks \in Seq(Check) /\ a \in Pull
  BY DEF OkPull, Pull
<1>2. k \in Seq(Check) /\ DOMAIN k = DOMAIN a.checks /\ \A i \in DOMAIN k : i # h => k[i] = a.checks[i]
  BY <1>1
<1>3. b \in Pull /\ b.checks = k /\ b.goal = a.goal /\ b.head = a.head /\ b.state = a.state /\ b.by = a.by
  BY <1>1, <1>2 DEF Pull
<1>4. b = [a EXCEPT !.checks[h] = c]
  BY <1>1 DEF Pull
<1> HIDE DEF b, k
<1>5. Later(a, b)
  BY <1>2, <1>3 DEF Later, OkPull
<1> QED
  BY <1>3, <1>4, <1>5

-----------------------------------------------------------------------------
(* What a step does to all of them                                         *)

PullsOk == pulls \in Seq(Pull) /\ \A p \in DOMAIN pulls : OkPull(pulls[p])

PullsNext ==
    /\ PullsOk'
    /\ \A p \in DOMAIN pulls : p \in DOMAIN pulls' /\ Later(pulls[p], pulls'[p])

LEMMA PullsSame == ASSUME PullsOk, pulls' = pulls PROVE PullsNext
BY SameLater DEF PullsOk, PullsNext

LEMMA PullsChanged ==
    ASSUME PullsOk, NEW p \in DOMAIN pulls, NEW b, Later(pulls[p], b), pulls' = [pulls EXCEPT ![p] = b]
    PROVE  PullsNext /\ pulls'[p] = b /\ DOMAIN pulls' = DOMAIN pulls
           /\ \A q \in DOMAIN pulls : q # p => pulls'[q] = pulls[q]
<1>1. b \in Pull /\ OkPull(b)
  BY DEF Later, OkPull
<1>2. pulls \in Seq(Pull)
  BY DEF PullsOk
<1>3. pulls' \in Seq(Pull) /\ DOMAIN pulls' = DOMAIN pulls
      /\ pulls'[p] = b /\ \A q \in DOMAIN pulls : q # p => pulls'[q] = pulls[q]
  BY <1>1, <1>2
<1> QED
  BY <1>1, <1>3, SameLater DEF PullsOk, PullsNext

LEMMA PullsAppended ==
    ASSUME PullsOk, NEW b, OkPull(b), pulls' = Append(pulls, b)
    PROVE  /\ PullsNext /\ Len(pulls) + 1 \in DOMAIN pulls' /\ pulls'[Len(pulls) + 1] = b
           /\ DOMAIN pulls' = DOMAIN pulls \union {Len(pulls) + 1}
           /\ \A q \in DOMAIN pulls : pulls'[q] = pulls[q]
<1>1. b \in Pull /\ pulls \in Seq(Pull)
  BY DEF OkPull, PullsOk
<1>2. /\ pulls' \in Seq(Pull) /\ Len(pulls') = Len(pulls) + 1
      /\ pulls'[Len(pulls) + 1] = b
      /\ \A q \in DOMAIN pulls : pulls'[q] = pulls[q]
      /\ DOMAIN pulls' = DOMAIN pulls \union {Len(pulls) + 1}
  BY <1>1
<1> QED
  BY <1>2, SameLater DEF PullsOk, PullsNext

LEMMA ShapePulls == Shape => PullsOk
<1>1. ASSUME Shape, NEW p \in DOMAIN pulls PROVE OkPull(pulls[p])
  BY <1>1 DEF Shape, OkPull
<1> QED
  BY <1>1 DEF Shape, PullsOk

\* Nobody but MergePull leaves a pull request merged by the governor.
GovernorMergesNone ==
    \A p \in DOMAIN pulls' : pulls'[p].by = "governor" => p \in DOMAIN pulls /\ pulls[p].by = "governor"

GovernorMerges(p) ==
    /\ MergePull /\ p = job.event.pull /\ p \in DOMAIN pulls
    /\ pulls[p].head = job.event.head
    /\ DOMAIN pulls' = DOMAIN pulls
    /\ pulls'[p].state = "merged" /\ pulls'[p].head = job.event.head
    /\ \A q \in DOMAIN pulls : q # p => pulls'[q] = pulls[q]

LEMMA OpenPullMoves ==
    ASSUME Shape, EventsInv, OpenPull
    PROVE  /\ PullsNext /\ GovernorMergesNone
           /\ Len(pulls) + 1 \in DOMAIN pulls' /\ pulls'[Len(pulls) + 1].goal = job.goal
<1> DEFINE b == NewPull(job.goal)
<1>1. <<"pending">> \in Seq(Check) /\ 1 \in DOMAIN <<"pending">>
  BY DEF Check
<1>2. job.goal \in Goals
  BY DEF OpenPull, EventsInv
<1>3. b \in Pull /\ b.head = 1 /\ b.checks = <<"pending">> /\ b.goal = job.goal /\ b.by = "nobody"
  BY <1>1, <1>2 DEF NewPull, Pull
<1>4. OkPull(b)
  BY <1>1, <1>3 DEF OkPull
<1>5. pulls' = Append(pulls, b)
  BY DEF OpenPull
<1> HIDE DEF b
<1>6. /\ PullsNext /\ Len(pulls) + 1 \in DOMAIN pulls' /\ pulls'[Len(pulls) + 1] = b
      /\ DOMAIN pulls' = DOMAIN pulls \union {Len(pulls) + 1}
      /\ \A q \in DOMAIN pulls : pulls'[q] = pulls[q]
  BY <1>4, <1>5, ShapePulls, PullsAppended
<1> QED
  BY <1>3, <1>6 DEF GovernorMergesNone

\* A step that replaces one pull request.
LEMMA ReplacedMoves ==
    ASSUME Shape, NEW p \in DOMAIN pulls, NEW b, Later(pulls[p], b), pulls' = [pulls EXCEPT ![p] = b],
           b.by = "governor" => pulls[p].by = "governor"
    PROVE  PullsNext /\ GovernorMergesNone
<1>1. PullsNext /\ pulls'[p] = b /\ DOMAIN pulls' = DOMAIN pulls
      /\ \A q \in DOMAIN pulls : q # p => pulls'[q] = pulls[q]
  BY ShapePulls, PullsChanged
<1> QED
  BY <1>1 DEF GovernorMergesNone

LEMMA CommitMoves ==
    ASSUME Shape, NEW p \in DOMAIN pulls, NEW fix \in {0, 1}, pulls' = [pulls EXCEPT ![p] = Committed(p, fix)]
    PROVE  PullsNext /\ GovernorMergesNone
<1>1. OkPull(pulls[p])
  BY ShapePulls DEF PullsOk
<1>2. Later(pulls[p], Committed(p, fix)) /\ Committed(p, fix).by = pulls[p].by
  BY <1>1, CommittedLater
<1> QED
  BY <1>2, ReplacedMoves

LEMMA CheckMoves ==
    ASSUME Shape, NEW p \in DOMAIN pulls, NEW h \in DOMAIN pulls[p].checks,
           pulls[p].checks[h] \notin Acceptable, NEW c \in Check,
           pulls' = [pulls EXCEPT ![p].checks[h] = c]
    PROVE  PullsNext /\ GovernorMergesNone
<1> DEFINE b == [pulls[p] EXCEPT !.checks[h] = c]
<1>1. OkPull(pulls[p])
  BY ShapePulls DEF PullsOk
<1>2. Later(pulls[p], b) /\ b.by = pulls[p].by
  BY <1>1, CheckedLater
<1>3. pulls' = [pulls EXCEPT ![p] = b]
  BY <1>1 DEF OkPull, Pull, Shape
<1> HIDE DEF b
<1> QED
  BY <1>2, <1>3, ReplacedMoves

LEMMA CloseMoves ==
    ASSUME Shape, NEW p \in DOMAIN pulls, pulls[p].state = "open",
           \/ pulls' = [pulls EXCEPT ![p].state = "closed"]
           \/ pulls' = [pulls EXCEPT ![p].state = "merged", ![p].by = "person"]
    PROVE  PullsNext /\ GovernorMergesNone
<1> DEFINE b1 == [pulls[p] EXCEPT !.state = "closed"]
           b2 == [pulls[p] EXCEPT !.state = "merged", !.by = "person"]
<1>1. OkPull(pulls[p]) /\ pulls \in Seq(Pull) /\ pulls[p] \in Pull
  BY ShapePulls DEF PullsOk, OkPull
<1>2. Later(pulls[p], b1) /\ Later(pulls[p], b2)
  BY <1>1, ClosedLater
<1>3. b1.by = pulls[p].by /\ b2.by = "person"
  BY <1>1 DEF Pull
<1>4. pulls' = [pulls EXCEPT ![p] = b1] \/ pulls' = [pulls EXCEPT ![p] = b2]
  BY <1>1 DEF Pull
<1> HIDE DEF b1, b2
<1> QED
  BY <1>2, <1>3, <1>4, ReplacedMoves

LEMMA GovernorMoves ==
    ASSUME Shape, EventsInv, MergePull
    PROVE  PullsNext /\ (GovernorMergesNone \/ GovernorMerges(job.event.pull))
<1> DEFINE p == job.event.pull
           b == [pulls[p] EXCEPT !.state = "merged", !.by = "governor"]
<1>1. CASE pulls' = pulls
  BY <1>1, ShapePulls, PullsSame DEF GovernorMergesNone
<1>2. CASE MergeAllowed(p, job.event.head) /\ Merge(p, "governor")
  <2>1. p \in DOMAIN pulls
    BY DEF MergePull, EventsInv, KnownEvent
  <2>2. OkPull(pulls[p]) /\ pulls[p] \in Pull /\ pulls[p].state = "open" /\ pulls[p].head = job.event.head
        /\ pulls \in Seq(Pull)
    BY <1>2, <2>1, ShapePulls DEF PullsOk, OkPull, MergeAllowed
  <2>3. Later(pulls[p], b) /\ b.state = "merged" /\ b.head = pulls[p].head
    BY <2>2, ClosedLater DEF Pull
  <2>4. pulls' = [pulls EXCEPT ![p] = b]
    BY <1>2, <2>1, <2>2 DEF Merge, Pull
  <2> HIDE DEF b
  <2>5. PullsNext /\ pulls'[p] = b /\ DOMAIN pulls' = DOMAIN pulls
        /\ \A q \in DOMAIN pulls : q # p => pulls'[q] = pulls[q]
    BY <2>1, <2>3, <2>4, ShapePulls, PullsChanged
  <2> QED
    BY <2>1, <2>2, <2>3, <2>5 DEF GovernorMerges
<1> QED
  BY <1>1, <1>2 DEF MergePull, world

\* The steps that leave the pull requests alone.
LEMMA QuietMoves ==
    ASSUME Shape, pulls' = pulls
    PROVE  PullsNext /\ GovernorMergesNone
BY ShapePulls, PullsSame DEF GovernorMergesNone

LEMMA WorldMoves ==
    ASSUME Shape, EventsInv, [Next]_vars
    PROVE  /\ PullsNext /\ (GovernorMergesNone \/ GovernorMerges(job.event.pull))
           /\ main' \in Nat /\ setup' \in Setups
<1>0. main \in Nat /\ main + 1 \in Nat /\ setup \in Setups
  BY DEF Shape
<1>1. CASE OpenPull /\ UNCHANGED budgets /\ UNCHANGED <<rows, report>>
  BY <1>0, <1>1, OpenPullMoves DEF OpenPull
<1>2. CASE CommitRepair
  <2>1. CASE pulls' = pulls
    BY <1>0, <1>2, <2>1, QuietMoves DEF CommitRepair
  <2>2. CASE pulls' = [pulls EXCEPT ![job.event.pull] = Committed(job.event.pull, 1)]
    <3>1. job.event.pull \in DOMAIN pulls
      BY <1>2 DEF CommitRepair, EventsInv, KnownEvent
    <3> QED
      BY <1>0, <1>2, <2>2, <3>1, CommitMoves DEF CommitRepair
  <2> QED
    BY <1>2, <2>1, <2>2 DEF CommitRepair
<1>3. CASE Rerun
  <2> DEFINE e == job.event
  <2>1. CASE pulls' = pulls
    BY <1>0, <1>3, <2>1, QuietMoves DEF Rerun
  <2>2. CASE RerunReady(e) /\ pulls' = [pulls EXCEPT ![e.pull].checks[e.head] = "pending"]
    <3>1. e.pull \in DOMAIN pulls /\ e.head \in DOMAIN pulls[e.pull].checks
      BY <1>3 DEF Rerun, EventsInv, KnownEvent
    <3>2. pulls[e.pull].checks[e.head] \notin Acceptable /\ "pending" \in Check
      BY <2>2 DEF RerunReady, Subject, Acceptable, Check
    <3>3. PullsNext /\ GovernorMergesNone
      BY <2>2, <3>1, <3>2, CheckMoves
    <3> QED
      BY <1>0, <1>3, <3>3 DEF Rerun
  <2> QED
    BY <1>3, <2>1, <2>2 DEF Rerun
<1>4. CASE MergePull
  <2>1. main' \in {main, main + 1} /\ setup' = setup
    BY <1>4 DEF MergePull, Merge, world
  <2> QED
    BY <1>0, <1>4, <2>1, GovernorMoves
<1>5. CASE ChecksEnd
  <2>1. PICK p \in DOMAIN pulls : \E c \in setup.checks \ {"pending"} :
          HeadCheck(p) = "pending" /\ pulls' = [pulls EXCEPT ![p].checks[pulls[p].head] = c]
    BY <1>5 DEF ChecksEnd
  <2>2. PICK c \in setup.checks :
          HeadCheck(p) = "pending" /\ pulls' = [pulls EXCEPT ![p].checks[pulls[p].head] = c]
    BY <2>1
  <2>3. c \in Check
    BY <1>0, WorldAssumption DEF Setup
  <2>4. pulls[p].head \in DOMAIN pulls[p].checks /\ pulls[p].checks[pulls[p].head] \notin Acceptable
    BY <2>2 DEF Shape, HeadCheck, Acceptable
  <2>5. PullsNext /\ GovernorMergesNone
    BY <2>2, <2>3, <2>4, CheckMoves
  <2> QED
    BY <1>0, <1>5, <2>5 DEF ChecksEnd
<1>6. CASE PersonMerges
  <2>1. PICK p \in DOMAIN pulls : pulls[p].state = "open" /\ Merge(p, "person")
    BY <1>6 DEF PersonMerges
  <2>2. PullsNext /\ GovernorMergesNone
    BY <2>1, CloseMoves DEF Merge
  <2> QED
    BY <1>0, <1>6, <2>1, <2>2 DEF PersonMerges, Merge
<1>7. CASE People
  <2>1. CASE PersonPushes
    <3>1. PICK p \in DOMAIN pulls : pulls' = [pulls EXCEPT ![p] = Committed(p, 0)]
      BY <2>1 DEF PersonPushes
    <3> QED
      BY <1>0, <2>1, <3>1, CommitMoves DEF PersonPushes
  <2>2. CASE PersonCloses
    <3>1. PICK p \in DOMAIN pulls : pulls[p].state = "open" /\ pulls' = [pulls EXCEPT ![p].state = "closed"]
      BY <2>2 DEF PersonCloses
    <3> QED
      BY <1>0, <2>2, <3>1, CloseMoves DEF PersonCloses
  <2>3. CASE MainMoves
    BY <1>0, <2>3, QuietMoves DEF MainMoves
  <2> QED
    BY <1>7, <2>1, <2>2, <2>3 DEF People
<1>8. CASE Start \/ RecoverLease \/ Claim \/ Settle \/ SettleFailed \/ Heartbeat \/ Crash \/ CallRaises
           \/ WorkflowPasses \/ MergeRepeated \/ SignalArrives \/ UNCHANGED vars
  <2>1. pulls' = pulls /\ main' = main /\ setup' = setup
    BY <1>8 DEF Start, RecoverLease, Claim, Settle, SettleFailed, Heartbeat, Crash, CallRaises,
       WorkflowPasses, MergeRepeated, SignalArrives, vars, world
  <2> QED
    BY <1>0, <2>1, QuietMoves
<1>9. CASE GovernorStep /\ ~ OpenPull
  <2>1. pulls' = pulls /\ main' = main /\ setup' = setup
    BY <1>9 DEF GovernorStep, AdvanceNothing, AdvanceReady, AdvanceExcellence, ProposeGoal, CreateBranch,
       RecordGoal, CompleteNothing, CompleteAccepted, UpdateCompleted, NextGeneration, world
  <2> QED
    BY <1>0, <2>1, QuietMoves
<1>10. CASE RepairRefused \/ ProposeRepair \/ CountRepair \/ CountRerun \/ VerifyMerge \/ Note
  <2>1. pulls' = pulls /\ main' = main /\ setup' = setup
    BY <1>10 DEF RepairRefused, ProposeRepair, CountRepair, CountRerun, VerifyMerge, Note, world
  <2> QED
    BY <1>0, <2>1, QuietMoves
<1> QED
  BY <1>1, <1>2, <1>3, <1>4, <1>5, <1>6, <1>7, <1>8, <1>9, <1>10
     DEF Next, Process, Outside, Executor, DevelopmentStep

-----------------------------------------------------------------------------
(* What a step does to the executor call in progress                       *)

LEMMA JobType ==
    ASSUME NEW at \in Stages
    PROVE  /\ Job(at) \in Jobs /\ Job(at).at = at /\ Job(at).event = Boot
           /\ KnownEvent(Boot)
<1>1. Boot \in Events
  BY DEF Boot, Events
<1> QED
  BY <1>1 DEF Job, Jobs, Boot, KnownEvent

LEMMA GotoType ==
    ASSUME job \in Jobs, NEW l \in Stages
    PROVE  LET j == [job EXCEPT !.at = l] IN
             /\ j \in Jobs /\ j.at = l /\ j.event = job.event /\ j.goal = job.goal /\ j.pull = job.pull
BY DEF Jobs

\* Where the stages come from whose executors rely on what they have seen.
JobNext ==
    /\ job' \in Jobs
    /\ job'.event \in {job.event, Boot} \union DOMAIN rows
    /\ job'.at \in {"repair", "commit", "count", "rerun", "recount"} => job'.event.kind = "failed"
    /\ job'.at \in {"verify", "merge"} => job'.event.kind = "passed"
    /\ job'.at \in {"complete", "update"} => job'.event.kind = "merged"
    /\ job'.at \in {"propose", "branch", "open", "record", "update"} => job'.goal \in Goals
    /\ job'.at = "merge" =>
         \/ job' = job
         \/ /\ pulls' = pulls /\ job'.event = job.event
            /\ pulls[job.event.pull].checks[job.event.head] = "green"
    /\ job'.at = "record" =>
         job' = job \/ (OpenPull /\ job'.pull = Len(pulls) + 1 /\ job'.goal = job.goal)
    /\ job'.at = "update" =>
         /\ portfolio' = portfolio
         /\ \/ job' = job
            \/ /\ job'.event = job.event /\ job'.goal \in ByPull(job.event.pull)
               /\ Accepted(job'.goal, job.event.pull)

\* The stages nothing is claimed about.
Free == {"down", "idle", "advance", "generation", "note", "returned", "raised"}

LEMMA FreeMoves ==
    ASSUME job' \in Jobs, job'.at \in Free, job'.event \in {job.event, Boot} \union DOMAIN rows
    PROVE  JobNext
BY DEF JobNext, Free

LEMMA GotoFree ==
    ASSUME Shape, NEW l \in Free, Goto(l)
    PROVE  JobNext
<1>1. job \in Jobs /\ l \in Stages
  BY DEF Shape, Free, Stages
<1>2. job' \in Jobs /\ job'.at = l /\ job'.event = job.event
  BY <1>1, GotoType DEF Goto
<1> QED
  BY <1>2, FreeMoves

LEMMA NewFree ==
    ASSUME NEW l \in Free, job' = Job(l)
    PROVE  JobNext
<1>1. l \in Stages
  BY DEF Free, Stages
<1>2. job' \in Jobs /\ job'.at = l /\ job'.event = Boot
  BY <1>1, JobType
<1> QED
  BY <1>2, FreeMoves

LEMMA SameJob ==
    ASSUME Shape, EventsInv, job' = job, portfolio' = portfolio
    PROVE  JobNext
BY DEF Shape, EventsInv, JobNext

LEMMA ClaimMoves ==
    ASSUME Shape, EventsInv, Claim
    PROVE  JobNext
<1>1. PICK e \in DOMAIN rows :
         IF Candidates(e) = {}
         THEN job' = job
         ELSE LET best == CHOOSE i \in Candidates(e) : \A k \in Candidates(e) : i <= k IN
              job' = [Job(FirstStage(Ranking(e)[best])) EXCEPT !.event = e, !.path = Ranking(e)[best]]
  BY DEF Claim
<1>2. portfolio' = portfolio
  BY DEF Claim, goals
<1>3. CASE Candidates(e) = {}
  BY <1>1, <1>2, <1>3, SameJob
<1>4. CASE Candidates(e) # {}
  <2> DEFINE best == CHOOSE i \in Candidates(e) : \A k \in Candidates(e) : i <= k
             a == Ranking(e)[best]
             j == Job(FirstStage(a))
  <2>1. best \in DOMAIN Ranking(e)
    <3>1. Candidates(e) \subseteq 1..3 /\ Candidates(e) \subseteq DOMAIN Ranking(e)
      BY DEF Candidates, Ranking, Shape, Events
    <3>2. \E i \in Candidates(e) : \A k \in Candidates(e) : i <= k
      BY <1>4, <3>1
    <3>3. best \in Candidates(e)
      BY <3>2
    <3> QED
      BY <3>1, <3>3
  <2>2. e \in Events
    BY DEF Shape
  <2>3. /\ a \in Paths
        /\ a \in {"repair", "rerun"} => e.kind = "failed"
        /\ a = "merge" => e.kind = "passed"
        /\ a = "complete" => e.kind = "merged"
    BY <2>1, <2>2 DEF Ranking, Events, Paths
  <2> HIDE DEF a
  <2>4. FirstStage(a) \in Stages /\ j \in Jobs /\ j.at = FirstStage(a)
    <3>1. FirstStage(a) \in Stages
      BY <2>3 DEF FirstStage, Paths, Stages
    <3> QED
      BY <3>1, JobType
  <2>5. job' = [j EXCEPT !.event = e, !.path = a]
    BY <1>1, <1>4 DEF a
  <2> HIDE DEF j
  <2>6. job' \in Jobs /\ job'.event = e /\ job'.at = FirstStage(a)
    BY <2>2, <2>3, <2>4, <2>5 DEF Jobs
  <2>7. FirstStage(a) \in {"advance", "complete", "repair", "rerun", "verify", "note"}
    BY <2>3 DEF FirstStage, Paths
  <2>8. /\ FirstStage(a) \in {"repair", "rerun"} => e.kind = "failed"
        /\ FirstStage(a) = "verify" => e.kind = "passed"
        /\ FirstStage(a) = "complete" => e.kind = "merged"
    BY <2>3 DEF FirstStage, Paths
  <2> QED
    BY <2>6, <2>7, <2>8 DEF JobNext
<1> QED
  BY <1>3, <1>4

\* Going on with the same event, to a stage that relies on its kind.
LEMMA GotoMoves ==
    ASSUME Shape, EventsInv, NEW l \in {"commit", "count", "recount"}, Goto(l),
           job.at \in {"repair", "commit", "rerun"}
    PROVE  JobNext
<1>1. job \in Jobs /\ l \in Stages
  BY DEF Shape, Stages
<1>2. job' \in Jobs /\ job'.at = l /\ job'.event = job.event
  BY <1>1, GotoType DEF Goto
<1> QED
  BY <1>2 DEF JobNext, EventsInv

LEMMA GovernorJob ==
    ASSUME Shape, EventsInv, GovernorStep
    PROVE  JobNext
<1>0. job \in Jobs
  BY DEF Shape
<1>1. CASE AdvanceNothing \/ RecordGoal \/ CompleteNothing
  <2>1. Goto("returned")
    BY <1>1 DEF AdvanceNothing, RecordGoal, CompleteNothing
  <2> QED
    BY <2>1, GotoFree DEF Free
<1>2. CASE AdvanceReady \/ AdvanceExcellence
  <2>1. PICK g \in Goals : job' = [job EXCEPT !.at = "propose", !.goal = g]
    BY <1>2 DEF AdvanceReady, AdvanceExcellence, Ready, EventsInv, KnownEvent
  <2>2. job' \in Jobs /\ job'.at = "propose" /\ job'.goal \in Goals /\ job'.event = job.event
    BY <1>0, <2>1 DEF Jobs, Stages
  <2> QED
    BY <2>2 DEF JobNext
<1>3. CASE ProposeGoal
  <2>1. CASE job' = [job EXCEPT !.at = "raised"]
    BY <2>1, GotoFree DEF Free, Goto
  <2>2. CASE job' = [job EXCEPT !.at = "branch", !.base = main]
    <3>1. job' \in Jobs /\ job'.at = "branch" /\ job'.goal = job.goal /\ job'.event = job.event
      BY <1>0, <2>2 DEF Jobs, Stages, Shape
    <3>2. job.goal \in Goals
      BY <1>3 DEF ProposeGoal, EventsInv
    <3> QED
      BY <3>1, <3>2 DEF JobNext
  <2> QED
    BY <1>3, <2>1, <2>2 DEF ProposeGoal, Propose
<1>4. CASE CreateBranch
  <2>1. CASE Goto("raised")
    BY <2>1, GotoFree DEF Free
  <2>2. CASE Goto("open")
    <3>1. job' \in Jobs /\ job'.at = "open" /\ job'.goal = job.goal /\ job'.event = job.event
      BY <1>0, <2>2, GotoType DEF Goto, Stages
    <3>2. job.goal \in Goals
      BY <1>4 DEF CreateBranch, EventsInv
    <3> QED
      BY <3>1, <3>2 DEF JobNext
  <2> QED
    BY <1>4, <2>1, <2>2 DEF CreateBranch
<1>5. CASE OpenPull
  <2>1. job' \in Jobs /\ job'.at = "record" /\ job'.goal = job.goal /\ job'.pull = Len(pulls) + 1
        /\ job'.event = job.event
    <3>1. Len(pulls) + 1 \in Nat
      <4>1. pulls \in Seq(Pull)
        BY DEF Shape
      <4> QED
        BY <4>1
    <3>2. job' = [job EXCEPT !.at = "record", !.pull = Len(pulls) + 1]
      BY <1>5 DEF OpenPull
    <3> QED
      BY <1>0, <3>1, <3>2 DEF Jobs, Stages
  <2>2. job.goal \in Goals
    BY <1>5 DEF OpenPull, EventsInv
  <2> QED
    BY <1>5, <2>1, <2>2 DEF JobNext
<1>6. CASE CompleteAccepted
  <2>1. PICK g \in ByPull(job.event.pull) :
          Accepted(g, job.event.pull) /\ job' = [job EXCEPT !.at = "update", !.goal = g]
    BY <1>6 DEF CompleteAccepted
  <2>2. g \in Goals
    BY DEF ByPull
  <2>3. job' \in Jobs /\ job'.at = "update" /\ job'.goal = g /\ job'.event = job.event
    BY <1>0, <2>1, <2>2 DEF Jobs, Stages
  <2>4. job.event.kind = "merged" /\ portfolio' = portfolio
    BY <1>6 DEF CompleteAccepted, EventsInv, goals
  <2> QED
    BY <2>1, <2>2, <2>3, <2>4 DEF JobNext
<1>7. CASE UpdateCompleted
  <2>1. CASE Goto("advance") \/ Goto("returned")
    BY <2>1, GotoFree DEF Free
  <2>2. CASE job' = [job EXCEPT !.at = "generation", !.more = Active # {} /\ Active' = {}]
    <3>1. job' \in Jobs /\ job'.at = "generation" /\ job'.event = job.event
      BY <1>0, <2>2 DEF Jobs, Stages
    <3> QED
      BY <3>1, FreeMoves DEF Free
  <2> QED
    BY <1>7, <2>1, <2>2 DEF UpdateCompleted, Continue
<1>8. CASE NextGeneration
  <2>1. Goto("advance") \/ Goto("returned")
    BY <1>8 DEF NextGeneration, Continue
  <2> QED
    BY <2>1, GotoFree DEF Free
<1> QED
  BY <1>1, <1>2, <1>3, <1>4, <1>5, <1>6, <1>7, <1>8 DEF GovernorStep

LEMMA DevelopmentJob ==
    ASSUME Shape, EventsInv, DevelopmentStep
    PROVE  JobNext
<1>1. CASE RepairRefused \/ CountRepair \/ CountRerun \/ Note
  <2>1. Goto("raised") \/ Goto("returned")
    BY <1>1 DEF RepairRefused, CountRepair, CountRerun, Note
  <2> QED
    BY <2>1, GotoFree DEF Free
<1>2. CASE ProposeRepair
  <2>1. job.at = "repair" /\ (Goto("commit") \/ Goto("raised"))
    BY <1>2 DEF ProposeRepair, Propose, Goto
  <2> QED
    BY <2>1, GotoFree, GotoMoves DEF Free
<1>3. CASE CommitRepair
  <2>1. job.at = "commit" /\ (Goto("count") \/ Goto("raised"))
    BY <1>3 DEF CommitRepair
  <2> QED
    BY <2>1, GotoFree, GotoMoves DEF Free
<1>4. CASE Rerun
  <2>1. job.at = "rerun" /\ (Goto("recount") \/ Goto("raised"))
    BY <1>4 DEF Rerun
  <2> QED
    BY <2>1, GotoFree, GotoMoves DEF Free
<1>5. CASE VerifyMerge
  <2>1. CASE Goto("raised")
    BY <2>1, GotoFree DEF Free
  <2>2. CASE Goto("merge") /\ pulls[job.event.pull].head = job.event.head /\ HeadCheck(job.event.pull) = "green"
    <3>1. job' \in Jobs /\ job'.at = "merge" /\ job'.event = job.event
      BY <2>2, GotoType DEF Goto, Shape, Stages
    <3>2. job.event.kind = "passed" /\ pulls' = pulls
      BY <1>5 DEF VerifyMerge, EventsInv, world
    <3> QED
      BY <2>2, <3>1, <3>2 DEF JobNext, HeadCheck
  <2> QED
    BY <1>5, <2>1, <2>2 DEF VerifyMerge
<1>6. CASE GovernorStep
  BY <1>6, GovernorJob
<1> QED
  BY <1>1, <1>2, <1>3, <1>4, <1>5, <1>6 DEF DevelopmentStep

LEMMA JobMoves ==
    ASSUME Shape, EventsInv, [Next]_vars
    PROVE  JobNext
<1>1. CASE DevelopmentStep
  BY <1>1, DevelopmentJob
<1>2. CASE MergePull
  <2>1. Goto("returned") \/ Goto("raised")
    BY <1>2 DEF MergePull
  <2> QED
    BY <2>1, GotoFree DEF Free
<1>3. CASE Start \/ Settle \/ SettleFailed \/ Crash
  <2>1. job' = Job("idle") \/ job' = Job("down")
    BY <1>3 DEF Start, Settle, SettleFailed, Crash
  <2> QED
    BY <2>1, NewFree DEF Free
<1>4. CASE CallRaises
  BY <1>4, GotoFree DEF CallRaises, Free
<1>5. CASE Claim
  BY <1>5, ClaimMoves
<1>6. CASE RecoverLease \/ Heartbeat \/ Outside \/ UNCHANGED vars
  <2>1. job' = job /\ portfolio' = portfolio
    BY <1>6 DEF RecoverLease, Heartbeat, Outside, ChecksEnd, WorkflowPasses, PersonMerges, MergeRepeated,
       SignalArrives, vars, goals
  <2> QED
    BY <2>1, SameJob
<1> QED
  BY <1>1, <1>2, <1>3, <1>4, <1>5, <1>6 DEF Next, Process, Executor

-----------------------------------------------------------------------------
(* What a step does to the queue                                           *)

\* What an event names does not go away.
LEMMA KnownStays ==
    ASSUME PullsNext, NEW e, KnownEvent(e)
    PROVE  KnownEvent(e)'
BY DEF PullsNext, KnownEvent, Later

RowsNext ==
    /\ DOMAIN rows' \subseteq Events
    /\ \A e \in DOMAIN rows' : KnownEvent(e)'

LEMMA FewerRows ==
    ASSUME Shape, EventsInv, PullsNext, DOMAIN rows' \subseteq DOMAIN rows
    PROVE  RowsNext
BY KnownStays DEF Shape, EventsInv, RowsNext

LEMMA RowsEnqueued ==
    ASSUME Shape, EventsInv, PullsNext, NEW e \in Events, KnownEvent(e), rows' = Enqueued(e)
    PROVE  RowsNext
<1>1. DOMAIN rows' = DOMAIN rows \union {e}
  BY DEF Enqueued
<1> QED
  BY <1>1, KnownStays DEF Shape, EventsInv, RowsNext

LEMMA Delivered ==
    ASSUME Shape, EventsInv, PullsNext, NEW e \in Events, KnownEvent(e), Delivery(e)
    PROVE  RowsNext
BY FewerRows, RowsEnqueued DEF Delivery

\* The events the actions make.
LEMMA EventsMade ==
    ASSUME Shape
    PROVE  /\ Boot \in Events /\ KnownEvent(Boot) /\ Signal \in Events /\ KnownEvent(Signal)
           /\ \A g \in Goals : Audit(g) \in Events /\ KnownEvent(Audit(g))
           /\ \A n \in 1..Improvements : Excellence(n) \in Events /\ KnownEvent(Excellence(n))
           /\ \A p \in DOMAIN pulls :
                /\ Merged(p) \in Events /\ KnownEvent(Merged(p))
                /\ Passed(p, pulls[p].head) \in Events /\ KnownEvent(Passed(p, pulls[p].head))
                /\ Failed(p, pulls[p].head) \in Events /\ KnownEvent(Failed(p, pulls[p].head))
<1>1. Boot \in Events /\ KnownEvent(Boot) /\ Signal \in Events /\ KnownEvent(Signal)
  BY DEF Boot, Signal, Events, KnownEvent
<1>2. ASSUME NEW g \in Goals PROVE Audit(g) \in Events /\ KnownEvent(Audit(g))
  BY DEF Audit, Events, KnownEvent
<1>3. ASSUME NEW n \in 1..Improvements PROVE Excellence(n) \in Events /\ KnownEvent(Excellence(n))
  <2>1. Improvement(n) \in Goals
    BY DEF Goals
  <2> QED
    BY <2>1 DEF Excellence, Events, KnownEvent
<1>4. ASSUME NEW p \in DOMAIN pulls
      PROVE  /\ Merged(p) \in Events /\ KnownEvent(Merged(p))
             /\ Passed(p, pulls[p].head) \in Events /\ KnownEvent(Passed(p, pulls[p].head))
             /\ Failed(p, pulls[p].head) \in Events /\ KnownEvent(Failed(p, pulls[p].head))
  <2>1. p \in Nat
    <3>1. pulls \in Seq(Pull)
      BY DEF Shape
    <3> QED
      BY <3>1
  <2>2. pulls[p].head \in Nat /\ pulls[p].head \in DOMAIN pulls[p].checks
    <3>1. OkPull(pulls[p])
      BY ShapePulls DEF PullsOk
    <3> QED
      BY <3>1 DEF OkPull, Pull
  <2> QED
    BY <2>1, <2>2 DEF Merged, Passed, Failed, Events, KnownEvent
<1> QED
  BY <1>1, <1>2, <1>3, <1>4

LEMMA RowsMoves ==
    ASSUME Shape, EventsInv, PullsNext, [Next]_vars
    PROVE  RowsNext
<1>1. CASE Start
  BY <1>1, EventsMade, RowsEnqueued DEF Start
<1>2. CASE MergePull
  <2>1. job.event.pull \in DOMAIN pulls
    BY <1>2 DEF MergePull, EventsInv, KnownEvent
  <2> QED
    BY <1>2, <2>1, EventsMade, Delivered, FewerRows DEF MergePull
<1>3. CASE ChecksEnd
  <2>1. PICK p \in DOMAIN pulls : \E c \in setup.checks \ {"pending"} :
          Delivery(IF c \in Acceptable THEN Passed(p, pulls[p].head) ELSE Failed(p, pulls[p].head))
    BY <1>3 DEF ChecksEnd
  <2>2. Delivery(Passed(p, pulls[p].head)) \/ Delivery(Failed(p, pulls[p].head))
    BY <2>1
  <2> QED
    BY <2>2, EventsMade, Delivered
<1>4. CASE WorkflowPasses
  <2>1. PICK p \in DOMAIN pulls : Delivery(Passed(p, pulls[p].head))
    BY <1>4 DEF WorkflowPasses
  <2> QED
    BY <2>1, EventsMade, Delivered
<1>5. CASE PersonMerges
  <2>1. PICK p \in DOMAIN pulls : Delivery(Merged(p))
    BY <1>5 DEF PersonMerges
  <2> QED
    BY <2>1, EventsMade, Delivered
<1>6. CASE SignalArrives
  BY <1>6, EventsMade, Delivered DEF SignalArrives
<1>7. CASE Heartbeat
  <2>1. CASE rows' = rows
    BY <2>1, FewerRows
  <2>2. CASE \E g \in Ready : rows' = Enqueued(Audit(g))
    BY <2>2, EventsMade, RowsEnqueued DEF Ready
  <2>3. CASE \E n \in 1..Improvements : rows' = Enqueued(Excellence(n))
    BY <2>3, EventsMade, RowsEnqueued
  <2>4. ASSUME NEW audited, Evaluate(audited)
        PROVE  rows' = rows \/ \E n \in 1..Improvements : rows' = Enqueued(Excellence(n))
    BY <2>4 DEF Evaluate
  <2> QED
    BY <1>7, <2>1, <2>2, <2>3, <2>4 DEF Heartbeat, AuditNow, AuditSaved
<1>8. CASE RecoverLease \/ Claim \/ Settle \/ SettleFailed \/ MergeRepeated
  <2>1. DOMAIN rows' \subseteq DOMAIN rows
    BY <1>8 DEF RecoverLease, Claim, Settle, SettleFailed, MergeRepeated, SetRow, CompleteRow, FailRow, Without
  <2> QED
    BY <2>1, FewerRows
<1>9. CASE Crash \/ CallRaises \/ (DevelopmentStep /\ UNCHANGED <<rows, report>>) \/ UNCHANGED vars
           \/ (People /\ UNCHANGED <<pool, goals, budgets, rows, report, job>>)
  <2>1. rows' = rows
    BY <1>9 DEF Crash, CallRaises, vars
  <2> QED
    BY <2>1, FewerRows
<1> QED
  BY <1>1, <1>2, <1>3, <1>4, <1>5, <1>6, <1>7, <1>8, <1>9 DEF Next, Process, Outside, Executor

-----------------------------------------------------------------------------
(* What a step does to the portfolio                                       *)

EntryNext(g) ==
    \/ portfolio'[g] = portfolio[g]
    \/ portfolio'[g].pull = 0 /\ portfolio'[g].status # "completed"
    \/ /\ job.at = "record" /\ g = job.goal
       /\ portfolio'[g].pull = job.pull /\ portfolio'[g].status # "completed"
    \/ /\ job.at = "update" /\ g = job.goal /\ job'.at # "update" /\ pulls' = pulls
       /\ portfolio'[g].pull = portfolio[g].pull /\ portfolio'[g].head = portfolio[g].head

PortfolioNext == portfolio' \in [Goals -> Entry] /\ \A g \in Goals : EntryNext(g)

\* A step that writes the entry of one goal.
LEMMA EntryMoves ==
    ASSUME Shape, NEW g \in Goals, NEW entry \in Entry, portfolio' = Updated(g, entry),
           portfolio'[g] = entry => EntryNext(g)
    PROVE  PortfolioNext
BY DEF Shape, Updated, PortfolioNext, EntryNext

LEMMA PortfolioMoves ==
    ASSUME Shape, EventsInv, [Next]_vars
    PROVE  PortfolioNext
<1>0. ASSUME NEW s \in GoalStatus PROVE Blank(s) \in Entry /\ Blank(s).pull = 0 /\ Blank(s).status = s
  BY DEF Blank, Entry
<1>1. CASE portfolio' = portfolio
  BY <1>1 DEF Shape, PortfolioNext, EntryNext
<1>2. CASE Start
  <2>1. CASE portfolio' = Seeded
    <3>1. ASSUME NEW g \in Goals
          PROVE  portfolio'[g] \in Entry /\ portfolio'[g].pull = 0 /\ portfolio'[g].status # "completed"
      BY <1>0, <2>1 DEF Seeded, GoalStatus
    <3>2. portfolio' = [g \in Goals |-> portfolio'[g]]
      BY <2>1 DEF Seeded
    <3> QED
      BY <3>1, <3>2 DEF PortfolioNext, EntryNext
  <2> QED
    BY <1>1, <1>2, <2>1 DEF Start
<1>3. CASE AdvanceExcellence
  <2>1. job.event.goal \in Goals
    BY <1>3 DEF AdvanceExcellence, EventsInv, KnownEvent
  <2>2. CASE portfolio' = [portfolio EXCEPT ![job.event.goal] = Blank("planned")]
    <3>1. Blank("planned") \in Entry /\ Blank("planned").pull = 0 /\ Blank("planned").status = "planned"
      BY <1>0 DEF GoalStatus
    <3> QED
      BY <2>1, <2>2, <3>1, EntryMoves DEF EntryNext, Updated
  <2> QED
    BY <1>1, <1>3, <2>2 DEF AdvanceExcellence, AddedIfAbsent
<1>4. CASE RecordGoal
  <2> DEFINE entry == [status |-> "verifying", pull |-> job.pull, head |-> 1]
  <2>1. /\ job.goal \in Goals /\ job.at = "record" /\ entry \in Entry
        /\ entry.pull = job.pull /\ entry.status = "verifying"
    BY <1>4 DEF RecordGoal, EventsInv, Shape, Jobs, Entry, GoalStatus
  <2>2. portfolio' = Updated(job.goal, entry)
    BY <1>4 DEF RecordGoal
  <2> HIDE DEF entry
  <2> QED
    BY <2>1, <2>2, EntryMoves DEF EntryNext
<1>5. CASE UpdateCompleted
  <2> DEFINE g == job.goal
             entry == [portfolio[g] EXCEPT !.status = "completed"]
  <2>1. g \in Goals /\ job.at = "update" /\ pulls' = pulls
    BY <1>5 DEF UpdateCompleted, EventsInv, world
  <2>2. entry \in Entry /\ entry.pull = portfolio[g].pull /\ entry.head = portfolio[g].head
    BY <2>1 DEF Shape, Entry, GoalStatus
  <2>3. portfolio' = Updated(g, entry)
    BY <1>5 DEF UpdateCompleted
  <2>4. job'.at # "update"
    <3>1. job \in Jobs
      BY DEF Shape
    <3> QED
      BY <1>5, <3>1 DEF UpdateCompleted, Continue, Goto, Jobs
  <2> HIDE DEF g, entry
  <2> QED
    BY <2>1, <2>2, <2>3, <2>4, EntryMoves DEF EntryNext, g
<1> QED
  <2>1. CASE GovernorStep
    BY <1>1, <1>3, <1>4, <1>5, <2>1 DEF GovernorStep, AdvanceNothing, AdvanceReady, ProposeGoal, CreateBranch,
       OpenPull, CompleteNothing, CompleteAccepted, NextGeneration, goals
  <2>2. CASE Process /\ ~ (Start \/ GovernorStep)
    BY <1>1, <2>2 DEF Process, RecoverLease, Claim, Settle, SettleFailed, Executor, DevelopmentStep,
       RepairRefused, ProposeRepair, CommitRepair, CountRepair, Rerun, CountRerun, VerifyMerge, Note,
       MergePull, Heartbeat, goals
  <2>3. CASE Crash \/ CallRaises \/ Outside \/ UNCHANGED vars
    BY <1>1, <2>3 DEF Crash, CallRaises, Outside, ChecksEnd, WorkflowPasses, PersonMerges, MergeRepeated,
       SignalArrives, goals, vars
  <2>4. CASE Process /\ GovernorStep
    BY <2>1, <2>4
  <2> QED
    BY <1>2, <2>2, <2>3, <2>4 DEF Next

-----------------------------------------------------------------------------
(* Events and executor calls                                               *)

LEMMA ShapeInit == Init => Shape /\ EventsInv
<1> SUFFICES ASSUME Init PROVE Shape /\ EventsInv
  OBVIOUS
<1>1. main = 0 /\ pulls = <<>> /\ rows = <<>> /\ setup \in Setups
      /\ portfolio = [g \in Goals |-> Blank("absent")] /\ job = Job("down")
  BY DEF Init, WorldInit
<1>2. pulls \in Seq(Pull) /\ DOMAIN pulls = {} /\ DOMAIN rows = {}
  BY <1>1
<1>3. Blank("absent") \in Entry
  BY DEF Blank, Entry, GoalStatus
<1>4. job \in Jobs /\ job.at = "down" /\ job.event = Boot /\ KnownEvent(Boot)
  BY <1>1, JobType DEF Stages
<1> QED
  BY <1>1, <1>2, <1>3, <1>4 DEF Shape, EventsInv

LEMMA ShapeStep == Shape /\ EventsInv /\ [Next]_vars => (Shape /\ EventsInv)'
<1> SUFFICES ASSUME Shape, EventsInv, [Next]_vars PROVE (Shape /\ EventsInv)'
  OBVIOUS
<1>1. PullsNext /\ main' \in Nat /\ setup' \in Setups
  BY WorldMoves
<1>2. RowsNext /\ JobNext /\ PortfolioNext
  BY <1>1, RowsMoves, JobMoves, PortfolioMoves
<1>3. Shape'
  BY <1>1, <1>2 DEF Shape, PullsNext, PullsOk, OkPull, RowsNext, JobNext, PortfolioNext
<1>4. KnownEvent(job.event)'
  <2>1. KnownEvent(job'.event)
    BY <1>2, JobType DEF JobNext, EventsInv, Stages
  <2>2. ASSUME NEW e, KnownEvent(e) PROVE KnownEvent(e)'
    BY <1>1, <2>2, KnownStays
  <2> QED
    BY <2>1, <2>2 DEF KnownEvent
<1>5. EventsInv'
  BY <1>2, <1>4 DEF EventsInv, RowsNext, JobNext
<1> QED
  BY <1>3, <1>5

\* Every event in the queue names a pull request, a commit and a goal that
\* exist, also after restarts, and every executor of DevelopmentActions and
\* GoalGovernor runs on an event of the kind it is registered for.
THEOREM EventsKnown == Spec => [](Shape /\ EventsInv)
<1>1. Init => Shape /\ EventsInv
  BY ShapeInit
<1>2. Shape /\ EventsInv /\ [Next]_vars => (Shape /\ EventsInv)'
  BY ShapeStep
<1> QED
  BY <1>1, <1>2, PTL DEF Spec

-----------------------------------------------------------------------------
(* Verified merges                                                         *)

LEMMA VerifiedInit == Init => VerifiedInv
<1> SUFFICES ASSUME Init PROVE VerifiedInv
  OBVIOUS
<1>1. pulls = <<>> /\ job = Job("down")
  BY DEF Init, WorldInit
<1>2. DOMAIN pulls = {} /\ job.at = "down"
  BY <1>1 DEF Job
<1> QED
  BY <1>2 DEF VerifiedInv, MergedWasVerified

LEMMA VerifiedStep ==
    Shape /\ EventsInv /\ Shape' /\ VerifiedInv /\ [Next]_vars => VerifiedInv'
<1> SUFFICES ASSUME Shape, EventsInv, Shape', VerifiedInv, [Next]_vars PROVE VerifiedInv'
  OBVIOUS
<1>1. PullsNext /\ (GovernorMergesNone \/ GovernorMerges(job.event.pull)) /\ JobNext
  BY WorldMoves, JobMoves
<1>2. ASSUME NEW p \in DOMAIN pulls, pulls[p].by = "governor"
      PROVE  pulls'[p].state = "merged" /\ pulls'[p].checks[pulls'[p].head] = "green"
  <2>1. pulls[p].state = "merged" /\ pulls[p].checks[pulls[p].head] = "green"
        /\ pulls[p].head \in DOMAIN pulls[p].checks
    BY <1>2 DEF VerifiedInv, MergedWasVerified, HeadCheck, Shape
  <2>2. Later(pulls[p], pulls'[p])
    BY <1>1 DEF PullsNext
  <2> QED
    BY <2>1, <2>2 DEF Later, Acceptable
\* Between the verification and the merge the commit's checks stay green.
<1>3. ASSUME job.at = "merge"
      PROVE  /\ job.event.pull \in DOMAIN pulls
             /\ pulls'[job.event.pull].checks[job.event.head] = "green"
  <2> DEFINE p == job.event.pull
  <2>1. p \in DOMAIN pulls /\ job.event.head \in DOMAIN pulls[p].checks
        /\ pulls[p].checks[job.event.head] = "green"
    BY <1>3 DEF EventsInv, KnownEvent, VerifiedInv
  <2>2. Later(pulls[p], pulls'[p])
    BY <1>1, <2>1 DEF PullsNext
  <2> QED
    BY <2>1, <2>2 DEF Later, Acceptable
<1>4. ASSUME NEW p \in DOMAIN pulls', pulls'[p].by = "governor"
      PROVE  pulls'[p].state = "merged" /\ pulls'[p].checks[pulls'[p].head] = "green"
  <2>1. CASE GovernorMergesNone
    BY <1>2, <1>4, <2>1 DEF GovernorMergesNone
  <2>2. CASE GovernorMerges(job.event.pull)
    <3>1. CASE p = job.event.pull
      BY <1>3, <2>2, <3>1 DEF GovernorMerges, MergePull
    <3>2. CASE p # job.event.pull
      BY <1>2, <1>4, <2>2, <3>2 DEF GovernorMerges
    <3> QED
      BY <3>1, <3>2
  <2> QED
    BY <1>1, <2>1, <2>2
<1>5. ASSUME job'.at = "merge"
      PROVE  pulls'[job'.event.pull].checks[job'.event.head] = "green"
  <2>1. CASE job' = job
    BY <1>3, <1>5, <2>1
  <2>2. CASE job' # job
    BY <1>1, <1>5, <2>2 DEF JobNext
  <2> QED
    BY <2>1, <2>2
<1> QED
  BY <1>4, <1>5 DEF VerifiedInv, MergedWasVerified, HeadCheck

\* What the governor merged is exactly a commit all whose required workflows
\* succeeded (merge_verified_pr), whatever is pushed or closed between
\* the verification and the merge, and wherever the process dies.
THEOREM MergedVerified == Spec => []MergedWasVerified
<1>1. Init => VerifiedInv
  BY VerifiedInit
<1>2. Shape /\ EventsInv /\ (Shape /\ EventsInv)' /\ VerifiedInv /\ [Next]_vars => VerifiedInv'
  BY VerifiedStep
<1>3. VerifiedInv => MergedWasVerified
  BY DEF VerifiedInv
<1> QED
  BY <1>1, <1>2, <1>3, EventsKnown, PTL DEF Spec

-----------------------------------------------------------------------------
(* Completed goals                                                         *)

LEMMA GoalsInit == Init => GoalsInv
<1> SUFFICES ASSUME Init PROVE GoalsInv
  OBVIOUS
<1>1. portfolio = [g \in Goals |-> Blank("absent")] /\ job.at = "down"
  BY DEF Init, Job
<1>2. \A g \in Goals : portfolio[g].pull = 0 /\ portfolio[g].status = "absent"
  BY <1>1 DEF Blank
<1> QED
  BY <1>1, <1>2 DEF GoalsInv, CompletedIsMerged, CompletedGoals

\* What completes a goal.
Complete(g) ==
    /\ portfolio[g].pull \in DOMAIN pulls /\ pulls[portfolio[g].pull].goal = g
    /\ Accepted(g, portfolio[g].pull)

LEMMA CompleteStays ==
    ASSUME Shape, PullsNext, NEW g \in Goals, Complete(g),
           portfolio'[g].pull = portfolio[g].pull, portfolio'[g].head = portfolio[g].head
    PROVE  Complete(g)'
<1> DEFINE p == portfolio[g].pull
<1>1. /\ p \in DOMAIN pulls /\ pulls[p].goal = g /\ pulls[p].state = "merged"
      /\ portfolio[g].head = pulls[p].head
      /\ pulls[p].checks[pulls[p].head] \in Acceptable
      /\ pulls[p].head \in DOMAIN pulls[p].checks
  BY DEF Complete, Accepted, HeadCheck, Shape
<1>2. p \in DOMAIN pulls' /\ Later(pulls[p], pulls'[p])
  BY <1>1 DEF PullsNext
<1>3. /\ pulls'[p].goal = g /\ pulls'[p].state = "merged" /\ pulls'[p].head = pulls[p].head
      /\ pulls'[p].checks[pulls[p].head] = pulls[p].checks[pulls[p].head]
  BY <1>1, <1>2 DEF Later
<1>4. portfolio'[g].pull = p /\ portfolio'[g].head = pulls'[p].head
  BY <1>1, <1>3
<1> HIDE DEF p
<1> QED
  BY <1>1, <1>2, <1>3, <1>4 DEF Complete, Accepted, HeadCheck

LEMMA GoalsStep ==
    Shape /\ EventsInv /\ Shape' /\ GoalsInv /\ [Next]_vars => GoalsInv'
<1> SUFFICES ASSUME Shape, EventsInv, Shape', GoalsInv, [Next]_vars PROVE GoalsInv'
  OBVIOUS
<1>1. PullsNext /\ JobNext /\ \A g \in Goals : EntryNext(g)
  BY WorldMoves, JobMoves, PortfolioMoves DEF PortfolioNext
<1>2. \A p \in DOMAIN pulls : p \in DOMAIN pulls' /\ pulls'[p].goal = pulls[p].goal
  BY <1>1 DEF PullsNext, Later
<1>3. ASSUME NEW g \in Goals, portfolio'[g].pull # 0
      PROVE  portfolio'[g].pull \in DOMAIN pulls' /\ pulls'[portfolio'[g].pull].goal = g
  BY <1>1, <1>2, <1>3 DEF EntryNext, GoalsInv
<1>4. ASSUME job'.at = "record" PROVE job'.pull \in DOMAIN pulls' /\ pulls'[job'.pull].goal = job'.goal
  <2>1. CASE job' = job
    BY <1>2, <1>4, <2>1 DEF GoalsInv
  <2>2. CASE job' # job
    BY <1>1, <1>4, <2>2, OpenPullMoves DEF JobNext
  <2> QED
    BY <2>1, <2>2
\* An entry the executor of the event is about to complete, or one completed.
<1>5. ASSUME job.at = "update" PROVE job.goal \in Goals /\ Complete(job.goal)
  <2>1. job.goal \in Goals /\ job.event.pull \in DOMAIN pulls
    BY <1>5 DEF EventsInv, KnownEvent
  <2>2. pulls \in Seq(Pull)
    BY DEF Shape
  <2>3. job.event.pull # 0
    BY <2>1, <2>2
  <2> QED
    BY <1>5, <2>1, <2>3 DEF GoalsInv, Complete
<1>6. ASSUME job'.at = "update"
      PROVE  (portfolio[job.goal].pull = job.event.pull /\ Accepted(job.goal, job.event.pull))'
  <2>1. portfolio' = portfolio /\ job'.event = job.event /\ job'.goal \in Goals
    BY <1>1, <1>6 DEF JobNext
  <2>2. job.event.pull \in DOMAIN pulls /\ job.event.pull # 0
    <3>1. KnownEvent(job.event) /\ job.event.kind = "merged"
      BY <1>1, <1>6, <2>1 DEF JobNext, EventsInv
    <3>2. pulls \in Seq(Pull)
      BY DEF Shape
    <3> QED
      BY <3>1, <3>2 DEF KnownEvent
  <2>3. portfolio[job'.goal].pull = job.event.pull /\ Accepted(job'.goal, job.event.pull)
    BY <1>1, <1>6 DEF JobNext, GoalsInv, ByPull
  <2>4. Complete(job'.goal)
    BY <2>1, <2>2, <2>3 DEF GoalsInv, Complete
  <2>5. ASSUME NEW g \in Goals, Complete(g) PROVE Complete(g)'
    BY <1>1, <2>1, <2>5, CompleteStays
  <2>6. (Complete(job.goal))'
    BY <2>1, <2>4, <2>5 DEF Complete, Accepted, HeadCheck
  <2> QED
    BY <2>1, <2>3, <2>6 DEF Complete, Accepted, HeadCheck
<1>7. ASSUME NEW g \in Goals, portfolio[g].status = "completed" PROVE Complete(g)
  BY <1>7 DEF GoalsInv, CompletedIsMerged, CompletedGoals, Complete, Accepted, HeadCheck
<1>8. ASSUME NEW g \in Goals, portfolio'[g].status = "completed" PROVE Complete(g)'
  <2>1. CASE portfolio'[g] = portfolio[g]
    BY <1>1, <1>7, <1>8, <2>1, CompleteStays
  <2>2. CASE portfolio'[g] # portfolio[g]
    <3>1. job.at = "update" /\ g = job.goal /\ portfolio'[g].pull = portfolio[g].pull
          /\ portfolio'[g].head = portfolio[g].head
      BY <1>1, <1>8, <2>2 DEF EntryNext
    <3> QED
      BY <1>1, <1>5, <3>1, CompleteStays
  <2> QED
    BY <2>1, <2>2
<1>9. CompletedIsMerged'
  BY <1>8 DEF CompletedIsMerged, CompletedGoals, Complete, Accepted, HeadCheck
<1> QED
  BY <1>3, <1>4, <1>6, <1>9 DEF GoalsInv

\* A completed goal has a pull request of its own, merged at the very commit
\* the governor recorded and with acceptable checks (complete_merged_goal and
\* audit_merged_goal), whatever people pushed and merged meanwhile and wherever
\* the process died.
THEOREM CompletedMerged == Spec => []CompletedIsMerged
<1>1. Init => GoalsInv
  BY GoalsInit
<1>2. Shape /\ EventsInv /\ (Shape /\ EventsInv)' /\ GoalsInv /\ [Next]_vars => GoalsInv'
  BY GoalsStep
<1>3. GoalsInv => CompletedIsMerged
  BY DEF GoalsInv
<1> QED
  BY <1>1, <1>2, <1>3, EventsKnown, PTL DEF Spec
=============================================================================
