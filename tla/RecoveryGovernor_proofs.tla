------------------------ MODULE RecoveryGovernor_proofs ------------------------
(***************************************************************************)
(* Proofs about RecoveryGovernor, for any registered paths, any number of   *)
(* processes and events, and any bound on the incidents and the faults.     *)
(***************************************************************************)
EXTENDS RecoveryGovernor, ContinuationWorker_proofs

\* Every step of the composed system is a step of ContinuationWorker or leaves
\* its variables alone.
LEMMA GovernedStep == [GovNext]_allVars => [Next]_vars
<1> SUFFICES ASSUME [GovNext]_allVars PROVE [Next]_vars
  OBVIOUS
<1>1. ASSUME NEW w \in Workers, Handle(w) PROVE [Next]_vars
  <2>1. HandleDecided(w) \/ HandleFailed(w) \/ UNCHANGED vars
    BY <1>1 DEF Handle, Screen, GiveUp, Select, Authorize, Run, RecordRead, RecordWrite, Clear,
                Continue, Executed, Blocked, Failed
  <2> QED
    BY <2>1 DEF Next, Step
<1>2. ASSUME NEW w \in Workers, Elsewhere(w) PROVE [Next]_vars
  BY <1>2 DEF Elsewhere, Next, Step
<1>3. ASSUME NEW w \in Workers, Fault(w) PROVE [Next]_vars
  <2>1. HandleFailed(w)
    BY <1>3 DEF Fault, Raised, Failed
  <2> QED
    BY <2>1 DEF Next, Step
<1>4. ASSUME NEW w \in Workers, Crash(w) \/ StoreFault(w) PROVE [Next]_vars
  BY <1>4 DEF Next
<1>5. CASE Tick \/ \E j \in Jobs : Enqueue(j)
  BY <1>5 DEF Next
<1>6. CASE Change \/ UNCHANGED allVars
  BY <1>6 DEF Change, allVars
<1> QED
  BY <1>1, <1>2, <1>3, <1>4, <1>5, <1>6 DEF GovNext, Work

\* Whatever the governor does, the workers behave as ContinuationWorker says:
\* what is proved of its queue and its leases holds here.
THEOREM GovernorImplementsWorker == GovSpec => ImplementsWorker
<1>1. GovInit => Init
  BY DEF GovInit
<1> QED
  BY <1>1, GovernedStep, PTL DEF GovSpec, ImplementsWorker, Spec

\* In particular its events are handled by one process at a time, stay settled,
\* and take effect again only for incidents, whatever the paths do.
COROLLARY GovernedQueueSafe ==
    GovSpec => /\ [](LeaseExclusive /\ CompletedWasHandled /\ DeadMeansExhausted /\ RepeatsNeedIncidents)
               /\ SettledIsFinal
<1>1. Spec => [](LeaseExclusive /\ CompletedWasHandled /\ DeadMeansExhausted /\ RepeatsNeedIncidents)
  BY NoConcurrentHandling, CompletionsWereHandled, DeadLettersExhausted, RepeatsAreIncidents, PTL
<1> QED
  BY <1>1, GovernorImplementsWorker, SettledJobsStaySettled DEF ImplementsWorker

LEMMA GovernedTypes == GovSpec => [](TypeOK /\ ItemInv)
BY GovernorImplementsWorker, TypeCorrect DEF ImplementsWorker

-----------------------------------------------------------------------------
(* How steps disturb the governor's state *)

\* Where a decision leaves the process: nowhere in handle(), with its event.
LEMMA DecisionLeaves ==
    ASSUME TypeOK, NEW w \in Workers, HandleDecided(w) \/ HandleFailed(w) \/ HandleDuplicate(w)
    PROVE  pc'[w] # "handle" /\ item'[w] = item[w]
BY DEF TypeOK, HandleDecided, HandleFailed, HandleDuplicate, FailureLabel, Goto, locals

\* Steps outside handle() neither happen within it nor change its event.
LEMMA ElsewhereKeeps ==
    ASSUME TypeOK, CallInv, NEW w \in Workers, Elsewhere(w)
    PROVE  call[w] = Fresh
BY DEF Elsewhere, CallInv, RecoverExpired, ClaimJob, ClaimNothing, HandleDuplicate,
       CompleteItem, LoseLease, FailSelect, FailNotOwned, FailItem

-----------------------------------------------------------------------------
(* Type correctness *)

\* What a step within handle() works on.
LEMMA Within ==
    ASSUME TypeOK, ItemInv, GovTypeOK, CallInv, NEW w \in Workers, NEW l, At(w, l)
    PROVE  /\ item[w] \in Jobs
           /\ call[w] \in Call
           /\ l # "screen" => call[w].path \in Paths
BY DEF TypeOK, ItemInv, Polling, GovTypeOK, CallInv, At

LEMMA FreshTyped == Fresh \in Call /\ Fresh.at = "screen"
BY DEF Fresh, Call

LEMMA GovTypeStep ==
    ASSUME TypeOK, ItemInv, GovTypeOK, CallInv, [GovNext]_allVars
    PROVE  GovTypeOK'
<1> USE FreshTyped DEF GovTypeOK, registry
<1>1. ASSUME NEW w \in Workers, Screen(w) PROVE GovTypeOK'
  <2>1. PICK a \in call[w].left : LET found == ~Exhausted(item[w], a) /\ Open(a) IN
           call' = [call EXCEPT ![w] = [call[w] EXCEPT !.left = @ \ {a},
                         !.candidates = IF found THEN @ \union {a} ELSE @]]
    BY <1>1 DEF Screen, Continue
  <2>2. call[w] \in Call /\ a \in Paths
    BY <1>1 DEF Call
  <2>3. call' \in [Workers -> Call]
    BY <2>1, <2>2 DEF Call
  <2> QED
    BY <1>1, <2>3 DEF Screen
<1>2. ASSUME NEW w \in Workers, GiveUp(w) PROVE GovTypeOK'
  BY <1>2, Within DEF GiveUp, Forget
<1>3. ASSUME NEW w \in Workers, Select(w) PROVE GovTypeOK'
  <2>1. PICK a \in call[w].candidates :
           call' = [call EXCEPT ![w] = [call[w] EXCEPT !.at = "authorize", !.path = a]]
    BY <1>3 DEF Select, Continue
  <2>2. call' \in [Workers -> Call]
    BY <2>1 DEF Call
  <2> QED
    BY <1>3, <2>2 DEF Select
<1>4. ASSUME NEW w \in Workers, Authorize(w) PROVE GovTypeOK'
  <2>1. call' \in [Workers -> Call]
    <3>1. CASE call' = [call EXCEPT ![w] = [call[w] EXCEPT !.at = "run"]]
      BY <3>1 DEF Call
    <3>2. CASE call' = [call EXCEPT ![w] = Fresh]
      BY <3>2
    <3> QED
      BY <1>4, <3>1, <3>2 DEF Authorize, Continue, Forget
  <2> QED
    BY <1>4, <2>1 DEF Authorize
<1>5. ASSUME NEW w \in Workers, Run(w) PROVE GovTypeOK'
  <2>1. item[w] \in Jobs /\ call[w].path \in Paths
    BY <1>5, Within DEF Run
  <2>2. call' \in [Workers -> Call]
    <3>1. CASE call' = [call EXCEPT ![w] = [call[w] EXCEPT !.at = "clear"]]
      BY <3>1 DEF Call
    <3>2. CASE call' = [call EXCEPT ![w] = [call[w] EXCEPT !.at = "record"]]
      BY <3>2 DEF Call
    <3> QED
      BY <1>5, <3>1, <3>2 DEF Run, Continue
  <2>3. failed' \in [Jobs -> [Paths -> Nat]]
    <3>1. CASE failed' = failed
      BY <3>1
    <3>2. CASE failed' = [failed EXCEPT ![item[w]][call[w].path] = @ + 1]
      BY <2>1, <3>2
    <3> QED
      BY <1>5, <3>1, <3>2 DEF Run
  <2> QED
    BY <1>5, <2>1, <2>2, <2>3 DEF Run
<1>6. ASSUME NEW w \in Workers, RecordRead(w) PROVE GovTypeOK'
  <2>1. item[w] \in Jobs /\ call[w].path \in Paths
    BY <1>6, Within DEF RecordRead
  <2>2. failures[item[w]][call[w].path] \in Nat
    BY <2>1
  <2>3. call' \in [Workers -> Call]
    BY <1>6, <2>2 DEF RecordRead, Continue, Call
  <2> QED
    BY <1>6, <2>3 DEF RecordRead
<1>7. ASSUME NEW w \in Workers, RecordWrite(w) PROVE GovTypeOK'
  <2>1. item[w] \in Jobs /\ call[w].path \in Paths /\ call[w].count + 1 \in Nat
    BY <1>7, Within DEF RecordWrite, Call
  <2>2. failures' \in [Jobs -> [Paths -> Nat]]
    BY <1>7, <2>1 DEF RecordWrite
  <2> QED
    BY <1>7, <2>2 DEF RecordWrite, Forget
<1>8. ASSUME NEW w \in Workers, Clear(w) PROVE GovTypeOK'
  <2>1. item[w] \in Jobs /\ call[w].path \in Paths
    BY <1>8, Within DEF Clear
  <2>2. failures' \in [Jobs -> [Paths -> Nat]]
    BY <1>8, <2>1 DEF Clear
  <2> QED
    BY <1>8, <2>2 DEF Clear, Forget
<1>9. ASSUME NEW w \in Workers, Fault(w) PROVE GovTypeOK'
  BY <1>9 DEF Fault, Forget
<1>10. ASSUME UNCHANGED govVars PROVE GovTypeOK'
  BY <1>10 DEF govVars
<1>11. ASSUME NEW w \in Workers, Forget(w), UNCHANGED <<registry, failures, failed, taken, gaveUp, faults>>
       PROVE  GovTypeOK'
  BY <1>11 DEF Forget
<1>12. CASE Change
  BY <1>12 DEF Change
<1> QED
  BY <1>1, <1>2, <1>3, <1>4, <1>5, <1>6, <1>7, <1>8, <1>9, <1>10, <1>11, <1>12
     DEF GovNext, Work, Handle, allVars

LEMMA CallStep ==
    ASSUME TypeOK, ItemInv, GovTypeOK, CallInv, [GovNext]_allVars
    PROVE  CallInv'
<1> USE FreshTyped
<1>1. ASSUME NEW w \in Workers, NEW c, At(w, call[w].at), Continue(w, c),
             c.at # "screen" => c.path \in Paths
      PROVE  CallInv'
  BY <1>1 DEF CallInv, Continue, At, GovTypeOK, vars, locals
<1>2. ASSUME NEW w \in Workers, Forget(w), Step(w) \/ Crash(w) \/ StoreFault(w) PROVE CallInv'
  <2> SUFFICES ASSUME NEW v \in Workers
               PROVE  /\ call'[v] # Fresh => pc'[v] = "handle" /\ item'[v] \notin processed'[v]
                      /\ call'[v].at # "screen" => call'[v].path \in Paths
    BY DEF CallInv
  <2>1. CASE v = w
    BY <1>2, <2>1 DEF Forget, GovTypeOK
  <2>2. CASE v # w
    BY <1>2, <2>2, OthersRest DEF Forget, GovTypeOK, CallInv
  <2> QED
    BY <2>1, <2>2
<1>3. ASSUME NEW w \in Workers, Elsewhere(w), UNCHANGED govVars PROVE CallInv'
  <2>1. Step(w) /\ call[w] = Fresh
    BY <1>3, ElsewhereKeeps DEF Elsewhere, Step
  <2>2. Forget(w)
    BY <1>3, <2>1 DEF Forget, govVars, GovTypeOK
  <2> QED
    BY <1>2, <2>1, <2>2
<1>4. ASSUME NEW w \in Workers, Handle(w) PROVE CallInv'
  <2>1. CASE Screen(w)
    <3>1. PICK a \in call[w].left : LET found == ~Exhausted(item[w], a) /\ Open(a) IN
             Continue(w, [call[w] EXCEPT !.left = @ \ {a},
                           !.candidates = IF found THEN @ \union {a} ELSE @])
      BY <2>1 DEF Screen
    <3> DEFINE found == ~Exhausted(item[w], a) /\ Open(a)
               c == [call[w] EXCEPT !.left = @ \ {a},
                                    !.candidates = IF found THEN @ \union {a} ELSE @]
    <3>2. c.at = "screen"
      BY <2>1 DEF Screen, At, GovTypeOK, Call
    <3>3. Continue(w, c)
      BY <3>1
    <3> HIDE DEF c
    <3> QED
      BY <1>1, <2>1, <3>2, <3>3 DEF Screen, At
  <2>2. CASE Select(w)
    <3>1. PICK a \in call[w].candidates :
             Continue(w, [call[w] EXCEPT !.at = "authorize", !.path = a])
      BY <2>2 DEF Select
    <3>2. a \in Paths /\ [call[w] EXCEPT !.at = "authorize", !.path = a].path = a
      BY <3>1 DEF GovTypeOK, Call
    <3> QED
      BY <1>1, <2>2, <3>1, <3>2 DEF Select, At
  <2>3. CASE Authorize(w) /\ Gates(call[w].path)
    <3>1. [call[w] EXCEPT !.at = "run"].path \in Paths
      BY <2>3, Within DEF Authorize, Call
    <3> QED
      BY <1>1, <2>3, <3>1 DEF Authorize, At
  <2>4. CASE Run(w)
    <3>1. /\ [call[w] EXCEPT !.at = "clear"].path \in Paths
          /\ [call[w] EXCEPT !.at = "record"].path \in Paths
      BY <2>4, Within DEF Run, Call
    <3> QED
      BY <1>1, <2>4, <3>1 DEF Run, At
  <2>5. CASE RecordRead(w)
    <3>1. [call[w] EXCEPT !.at = "write", !.count = failures[item[w]][call[w].path]].path \in Paths
      BY <2>5, Within DEF RecordRead, Call
    <3> QED
      BY <1>1, <2>5, <3>1 DEF RecordRead, At
  <2>6. CASE GiveUp(w) \/ (Authorize(w) /\ ~Gates(call[w].path)) \/ RecordWrite(w) \/ Clear(w)
    <3>1. Forget(w) /\ Step(w)
      BY <2>6 DEF GiveUp, Authorize, RecordWrite, Clear, Blocked, Failed, Executed, Step
    <3> QED
      BY <1>2, <3>1
  <2> QED
    BY <1>4, <2>1, <2>2, <2>3, <2>4, <2>5, <2>6 DEF Handle
<1>5. ASSUME NEW w \in Workers, Fault(w) PROVE CallInv'
  <2>1. Forget(w) /\ Step(w)
    BY <1>5 DEF Fault, Raised, Failed, Step
  <2> QED
    BY <1>2, <2>1
<1>6. CASE (Tick \/ \E j \in Jobs : Enqueue(j)) /\ UNCHANGED govVars
  BY <1>6 DEF Tick, Enqueue, govVars, locals, CallInv
<1>7. CASE Change
  BY <1>7 DEF Change, vars, locals, CallInv
<1>8. CASE UNCHANGED allVars
  BY <1>8 DEF allVars, vars, govVars, locals, CallInv
<1> QED
  BY <1>2, <1>3, <1>4, <1>5, <1>6, <1>7, <1>8 DEF GovNext, Work

\* The governor's variables keep their types, and handle() keeps nothing from
\* one event to the next.
THEOREM GovernorTypeCorrect == GovSpec => [](GovTypeOK /\ CallInv)
<1>1. GovInit => GovTypeOK /\ CallInv
  BY FreshTyped DEF GovInit, GovTypeOK, CallInv
<1>2. TypeOK /\ ItemInv /\ GovTypeOK /\ CallInv /\ [GovNext]_allVars => GovTypeOK' /\ CallInv'
  BY GovTypeStep, CallStep
<1> QED
  BY <1>1, <1>2, GovernedTypes, PTL DEF GovSpec

-----------------------------------------------------------------------------
(* Consequential paths *)

LEMMA GatesKeepRoutine ==
    ASSUME GovTypeOK, NEW a \in Paths, Gates(a)
    PROVE  Routine(a)
<1> DEFINE p == [profile[a] EXCEPT !.evidence = a \in evident]
<1>1. profile[a] \in StepProfile
  BY GovernorAssumption DEF GovTypeOK
<1>2. GovernanceDecision(p) = "proceed"
  BY DEF Gates
<1>3. p.human = profile[a].human /\ p.risk = profile[a].risk /\ p.reversible = profile[a].reversible
  BY <1>1 DEF StepProfile
<1>4. p.human \in BOOLEAN /\ p.risk \in 0..3 /\ p.reversible \in BOOLEAN
  BY <1>1, <1>3 DEF StepProfile, Risk
<1> HIDE DEF p
<1>5. ~p.human /\ ~(p.risk >= High) /\ p.reversible
  BY <1>2, <1>4 DEF GovernanceDecision
<1> QED
  BY <1>3, <1>4, <1>5 DEF Routine, High

LEMMA SafeStep ==
    ASSUME TypeOK, ItemInv, GovTypeOK, CallInv, SafeInv, [GovNext]_allVars
    PROVE  SafeInv'
<1> USE FreshTyped DEF SafeInv, NoConsequentialPath, Routine, registry
<1>1. ASSUME NEW w \in Workers, Forget(w), UNCHANGED <<registry, taken>> PROVE SafeInv'
  BY <1>1 DEF Forget, GovTypeOK
<1>2. ASSUME NEW w \in Workers, Handle(w) PROVE SafeInv'
  <2>1. CASE Screen(w)
    BY <2>1 DEF Screen, At, Continue, GovTypeOK, Call
  <2>2. CASE Select(w)
    BY <2>2 DEF Select, Continue, GovTypeOK, Call
  <2>3. CASE Authorize(w) /\ Gates(call[w].path)
    <3>1. Routine(call[w].path)
      BY <2>3, Within, GatesKeepRoutine DEF Authorize
    <3> QED
      BY <2>3, <3>1 DEF Authorize, Continue, GovTypeOK, Call
  <2>4. CASE Run(w)
    <3>1. Routine(call[w].path)
      BY <2>4 DEF Run, At
    <3>2. PICK l \in {"clear", "record"} : call' = [call EXCEPT ![w] = [call[w] EXCEPT !.at = l]]
      BY <2>4 DEF Run, Continue
    <3>3. call'[w].at # "run" /\ \A v \in Workers \ {w} : call'[v] = call[v]
      BY <3>2 DEF GovTypeOK, Call
    <3>4. profile' = profile /\ taken' = taken \union {call[w].path}
      BY <2>4 DEF Run
    <3> QED
      BY <3>1, <3>3, <3>4
  <2>5. CASE RecordRead(w)
    BY <2>5 DEF RecordRead, Continue, GovTypeOK, Call
  <2>6. CASE GiveUp(w) \/ (Authorize(w) /\ ~Gates(call[w].path)) \/ RecordWrite(w) \/ Clear(w)
    BY <1>1, <2>6 DEF GiveUp, Authorize, RecordWrite, Clear
  <2> QED
    BY <1>2, <2>1, <2>2, <2>3, <2>4, <2>5, <2>6 DEF Handle
<1>3. ASSUME NEW w \in Workers, Fault(w) PROVE SafeInv'
  BY <1>1, <1>3 DEF Fault
<1>4. CASE UNCHANGED govVars
  BY <1>4 DEF govVars
<1>5. CASE Change
  BY <1>5 DEF Change
<1> QED
  BY <1>1, <1>2, <1>3, <1>4, <1>5 DEF GovNext, Work, allVars

\* No path that needs a person, is risky or cannot be undone is ever taken.
THEOREM ConsequentialPathsNeverTaken == GovSpec => []NoConsequentialPath
<1>1. GovInit => SafeInv
  BY FreshTyped DEF GovInit, SafeInv, NoConsequentialPath
<1>2. TypeOK /\ ItemInv /\ GovTypeOK /\ CallInv /\ SafeInv /\ [GovNext]_allVars => SafeInv'
  BY SafeStep
<1>3. SafeInv => NoConsequentialPath
  BY DEF SafeInv
<1> QED
  BY <1>1, <1>2, <1>3, GovernedTypes, GovernorTypeCorrect, PTL DEF GovSpec

-----------------------------------------------------------------------------
(* Failure counters *)

LEMMA OwingCounted ==
    ASSUME NEW j, NEW a
    PROVE  IsFiniteSet(Owing(j, a)) /\ Cardinality(Owing(j, a)) \in Nat
<1>1. Owing(j, a) \in SUBSET Workers
  BY DEF Owing
<1> QED
  BY <1>1, WorkerAssumption, FS_Subset, FS_CardinalityType

LEMMA OwingCountedNext ==
    ASSUME NEW j, NEW a
    PROVE  IsFiniteSet(Owing(j, a)') /\ Cardinality(Owing(j, a)') \in Nat
<1>1. Owing(j, a)' \in SUBSET Workers
  BY DEF Owing
<1> QED
  BY <1>1, WorkerAssumption, FS_Subset, FS_CardinalityType

\* Steps after which no process owes or is about to write more than before.
LEMMA CountKept ==
    ASSUME GovTypeOK, GovTypeOK', CountInv,
           \A j \in Jobs, a \in Paths :
              /\ failures'[j][a] <= failures[j][a]
              /\ failed'[j][a] = failed[j][a]
              /\ Owing(j, a)' \subseteq Owing(j, a),
           \A w \in Workers : call'[w].at = "write" => call'[w] = call[w] /\ item'[w] = item[w]
    PROVE  CountInv'
<1> SUFFICES ASSUME NEW j \in Jobs, NEW a \in Paths
             PROVE  /\ failures'[j][a] + Cardinality(Owing(j, a)') <= failed'[j][a]
                    /\ \A w \in Workers :
                         call'[w].at = "write" /\ item'[w] = j /\ call'[w].path = a
                           => call'[w].count + 1 + Cardinality(Owing(j, a)') <= failed'[j][a]
  BY DEF CountInv
<1>1. Cardinality(Owing(j, a)') <= Cardinality(Owing(j, a))
  BY OwingCounted, FS_Subset
<1>2. Cardinality(Owing(j, a)') \in Nat /\ Cardinality(Owing(j, a)) \in Nat
  BY OwingCounted, OwingCountedNext
<1>3. /\ failures'[j][a] \in Nat /\ failures[j][a] \in Nat
      /\ failed'[j][a] \in Nat /\ failed[j][a] \in Nat
  BY DEF GovTypeOK
<1>4. failures'[j][a] + Cardinality(Owing(j, a)') <= failed'[j][a]
  BY <1>1, <1>2, <1>3 DEF CountInv
<1>5. ASSUME NEW w \in Workers, call'[w].at = "write", item'[w] = j, call'[w].path = a
      PROVE  call'[w].count + 1 + Cardinality(Owing(j, a)') <= failed'[j][a]
  <2>1. call[w].count \in Nat /\ call'[w].count = call[w].count
    BY <1>5 DEF GovTypeOK, Call
  <2>2. call[w].count + 1 + Cardinality(Owing(j, a)) <= failed[j][a]
    BY <1>5 DEF CountInv
  <2> QED
    BY <1>1, <1>2, <1>3, <2>1, <2>2
<1> QED
  BY <1>4, <1>5

\* Counts that CountInv speaks about are not raised by leaving handle() ...
LEMMA ForgetKeeps ==
    ASSUME TypeOK, GovTypeOK, NEW w \in Workers, Forget(w), Step(w) \/ Crash(w) \/ StoreFault(w)
    PROVE  /\ \A j \in Jobs, a \in Paths : Owing(j, a)' \subseteq Owing(j, a)
           /\ \A v \in Workers :
                call'[v].at = "write" => call'[v] = call[v] /\ item'[v] = item[v] /\ v # w
<1>1. call'[w] = Fresh /\ \A v \in Workers \ {w} : call'[v] = call[v]
  BY DEF Forget, GovTypeOK
<1>2. \A v \in Workers \ {w} : item'[v] = item[v]
  BY OthersRest
<1> QED
  BY <1>1, <1>2, FreshTyped DEF Owing

\* ... nor by going on to a step that does not concern the counters.
LEMMA ContinueKeeps ==
    ASSUME GovTypeOK, NEW w \in Workers, NEW c, Continue(w, c), c.at \notin {"record", "write"}
    PROVE  /\ \A j \in Jobs, a \in Paths : Owing(j, a)' \subseteq Owing(j, a)
           /\ \A v \in Workers : call'[v].at = "write" => call'[v] = call[v] /\ item'[v] = item[v]
<1>1. call'[w] = c /\ \A v \in Workers \ {w} : call'[v] = call[v]
  BY DEF Continue, GovTypeOK
<1>2. item' = item
  BY DEF Continue, vars, locals
<1> QED
  BY <1>1, <1>2 DEF Owing

\* The executor raises: one more failure, and one more process that owes it.
LEMMA CountRun ==
    ASSUME TypeOK, ItemInv, GovTypeOK, GovTypeOK', CallInv, CountInv,
           NEW w \in Workers, At(w, "run"),
           Continue(w, [call[w] EXCEPT !.at = "record"]),
           failed' = [failed EXCEPT ![item[w]][call[w].path] = @ + 1],
           failures' = failures
    PROVE  CountInv'
<1> SUFFICES ASSUME NEW j \in Jobs, NEW a \in Paths
             PROVE  /\ failures'[j][a] + Cardinality(Owing(j, a)') <= failed'[j][a]
                    /\ \A v \in Workers :
                         call'[v].at = "write" /\ item'[v] = j /\ call'[v].path = a
                           => call'[v].count + 1 + Cardinality(Owing(j, a)') <= failed'[j][a]
  BY DEF CountInv
<1>1. item[w] \in Jobs /\ call[w].path \in Paths /\ call[w].at = "run"
  BY Within DEF At
<1>2. /\ item' = item
      /\ call'[w].at = "record" /\ call'[w].path = call[w].path
      /\ \A v \in Workers \ {w} : call'[v] = call[v]
  BY DEF Continue, vars, locals, GovTypeOK, Call
<1>3. /\ Cardinality(Owing(j, a)) \in Nat /\ IsFiniteSet(Owing(j, a))
      /\ failures[j][a] \in Nat /\ failed[j][a] \in Nat
      /\ \A v \in Workers : call[v].count \in Nat
  BY OwingCounted DEF GovTypeOK, Call
<1>4. \A v \in Workers : call'[v].at = "write" => call'[v] = call[v] /\ v # w
  BY <1>2
<1>5. CASE item[w] = j /\ call[w].path = a
  <2>1. failed'[j][a] = failed[j][a] + 1
    BY <1>1, <1>5 DEF GovTypeOK
  <2>2. Owing(j, a)' = Owing(j, a) \union {w} /\ w \notin Owing(j, a)
    BY <1>1, <1>2, <1>5 DEF Owing
  <2>3. Cardinality(Owing(j, a)') = Cardinality(Owing(j, a)) + 1
    BY <1>3, <2>2, FS_AddElement
  <2> QED
    BY <1>2, <1>3, <1>4, <2>1, <2>3 DEF CountInv
<1>6. CASE ~(item[w] = j /\ call[w].path = a)
  <2>1. failed'[j][a] = failed[j][a]
    BY <1>1, <1>6 DEF GovTypeOK
  <2>2. Owing(j, a)' = Owing(j, a)
    BY <1>1, <1>2, <1>6 DEF Owing
  <2> QED
    BY <1>2, <1>3, <1>4, <2>1, <2>2 DEF CountInv
<1> QED
  BY <1>5, <1>6

\* A process reads the counter it owes a failure to.
LEMMA CountRead ==
    ASSUME TypeOK, ItemInv, GovTypeOK, GovTypeOK', CallInv, CountInv,
           NEW w \in Workers, RecordRead(w)
    PROVE  CountInv'
<1> DEFINE n == failures[item[w]][call[w].path]
<1> SUFFICES ASSUME NEW j \in Jobs, NEW a \in Paths
             PROVE  /\ failures'[j][a] + Cardinality(Owing(j, a)') <= failed'[j][a]
                    /\ \A v \in Workers :
                         call'[v].at = "write" /\ item'[v] = j /\ call'[v].path = a
                           => call'[v].count + 1 + Cardinality(Owing(j, a)') <= failed'[j][a]
  BY DEF CountInv
<1>1. item[w] \in Jobs /\ call[w].path \in Paths /\ call[w].at = "record"
  BY Within DEF RecordRead, At
<1>2. /\ item' = item
      /\ call'[w].at = "write" /\ call'[w].path = call[w].path /\ call'[w].count = n
      /\ \A v \in Workers \ {w} : call'[v] = call[v]
  BY DEF RecordRead, Continue, vars, locals, GovTypeOK, Call
<1>3. /\ Cardinality(Owing(j, a)) \in Nat /\ IsFiniteSet(Owing(j, a))
      /\ failures[j][a] \in Nat /\ failed[j][a] \in Nat
      /\ failures' = failures /\ failed' = failed
      /\ \A v \in Workers : call[v].count \in Nat
  BY OwingCounted DEF GovTypeOK, Call, RecordRead
<1>4. CASE item[w] = j /\ call[w].path = a
  <2>1. Owing(j, a)' = Owing(j, a) \ {w} /\ w \in Owing(j, a)
    BY <1>1, <1>2, <1>4 DEF Owing
  <2>2. Cardinality(Owing(j, a)') = Cardinality(Owing(j, a)) - 1
    BY <1>3, <2>1, FS_RemoveElement
  <2>3. failures[j][a] + Cardinality(Owing(j, a)) <= failed[j][a]
    BY DEF CountInv
  <2>4. ASSUME NEW v \in Workers, call'[v].at = "write", item'[v] = j, call'[v].path = a
        PROVE  call'[v].count + 1 + Cardinality(Owing(j, a)') <= failed'[j][a]
    <3>1. CASE v = w
      BY <1>2, <1>3, <1>4, <2>2, <2>3, <3>1
    <3>2. CASE v # w
      <4>1. call'[v] = call[v] /\ item[v] = j
        BY <1>2, <2>4, <3>2
      <4>2. call[v].count + 1 + Cardinality(Owing(j, a)) <= failed[j][a]
        BY <2>4, <4>1 DEF CountInv
      <4> QED
        BY <1>3, <2>2, <4>1, <4>2
    <3> QED
      BY <3>1, <3>2
  <2> QED
    BY <1>3, <2>2, <2>3, <2>4
<1>5. CASE ~(item[w] = j /\ call[w].path = a)
  <2>1. Owing(j, a)' = Owing(j, a)
    BY <1>1, <1>2, <1>5 DEF Owing
  <2>2. \A v \in Workers : call'[v].at = "write" /\ item'[v] = j /\ call'[v].path = a
           => call'[v] = call[v] /\ item[v] = j
    BY <1>2, <1>5
  <2> QED
    BY <1>3, <2>1, <2>2 DEF CountInv
<1> QED
  BY <1>4, <1>5

\* A process writes what it had read, and one more.
LEMMA CountWrite ==
    ASSUME TypeOK, ItemInv, GovTypeOK, GovTypeOK', CallInv, CountInv,
           NEW w \in Workers, RecordWrite(w)
    PROVE  CountInv'
<1>1. item[w] \in Jobs /\ call[w].path \in Paths /\ call[w].at = "write"
  BY Within DEF RecordWrite, At
<1>2. /\ \A j \in Jobs, a \in Paths : Owing(j, a)' \subseteq Owing(j, a)
      /\ \A v \in Workers : call'[v].at = "write" => call'[v] = call[v] /\ item'[v] = item[v]
  BY ForgetKeeps DEF RecordWrite, Failed, Step
<1> SUFFICES ASSUME NEW j \in Jobs, NEW a \in Paths
             PROVE  /\ failures'[j][a] + Cardinality(Owing(j, a)') <= failed'[j][a]
                    /\ \A v \in Workers :
                         call'[v].at = "write" /\ item'[v] = j /\ call'[v].path = a
                           => call'[v].count + 1 + Cardinality(Owing(j, a)') <= failed'[j][a]
  BY DEF CountInv
<1>3. /\ Cardinality(Owing(j, a)) \in Nat /\ Cardinality(Owing(j, a)') \in Nat
      /\ failures[j][a] \in Nat /\ failed[j][a] \in Nat
      /\ failed' = failed
      /\ \A v \in Workers : call[v].count \in Nat
  BY OwingCounted, OwingCountedNext DEF GovTypeOK, Call, RecordWrite
<1>4. Cardinality(Owing(j, a)') <= Cardinality(Owing(j, a))
  BY <1>2, OwingCounted, FS_Subset
<1>5. failures'[j][a] + Cardinality(Owing(j, a)') <= failed'[j][a]
  <2>1. CASE item[w] = j /\ call[w].path = a
    <3>1. failures'[j][a] = call[w].count + 1
      BY <1>1, <2>1 DEF RecordWrite, GovTypeOK
    <3>2. call[w].count + 1 + Cardinality(Owing(j, a)) <= failed[j][a]
      BY <1>1, <2>1 DEF CountInv
    <3> QED
      BY <1>3, <1>4, <3>1, <3>2
  <2>2. CASE ~(item[w] = j /\ call[w].path = a)
    <3>1. failures'[j][a] = failures[j][a]
      BY <1>1, <2>2 DEF RecordWrite, GovTypeOK
    <3>2. failures[j][a] + Cardinality(Owing(j, a)) <= failed[j][a]
      BY DEF CountInv
    <3> QED
      BY <1>3, <1>4, <3>1, <3>2
  <2> QED
    BY <2>1, <2>2
<1>6. ASSUME NEW v \in Workers, call'[v].at = "write", item'[v] = j, call'[v].path = a
      PROVE  call'[v].count + 1 + Cardinality(Owing(j, a)') <= failed'[j][a]
  <2>1. call'[v] = call[v] /\ item[v] = j
    BY <1>2, <1>6
  <2>2. call[v].count + 1 + Cardinality(Owing(j, a)) <= failed[j][a]
    BY <1>6, <2>1 DEF CountInv
  <2> QED
    BY <1>3, <1>4, <2>1, <2>2
<1> QED
  BY <1>5, <1>6

LEMMA CountStep ==
    ASSUME TypeOK, ItemInv, GovTypeOK, GovTypeOK', CallInv, CountInv, [GovNext]_allVars
    PROVE  CountInv'
<1>1. ASSUME NEW w \in Workers, Forget(w), Step(w) \/ Crash(w) \/ StoreFault(w),
             failures' = failures, failed' = failed
      PROVE  CountInv'
  <2>1. \A j \in Jobs, a \in Paths : failures'[j][a] <= failures[j][a]
    BY <1>1 DEF GovTypeOK
  <2> QED
    BY <1>1, <2>1, ForgetKeeps, CountKept
<1>2. ASSUME NEW w \in Workers, NEW c, Continue(w, c), c.at \notin {"record", "write"},
             failures' = failures, failed' = failed
      PROVE  CountInv'
  <2>1. \A j \in Jobs, a \in Paths : failures'[j][a] <= failures[j][a]
    BY <1>2 DEF GovTypeOK
  <2> QED
    BY <1>2, <2>1, ContinueKeeps, CountKept
<1>3. ASSUME NEW w \in Workers, Handle(w) PROVE CountInv'
  <2>1. CASE Screen(w)
    <3>1. PICK a \in call[w].left : LET found == ~Exhausted(item[w], a) /\ Open(a) IN
             Continue(w, [call[w] EXCEPT !.left = @ \ {a},
                                         !.candidates = IF found THEN @ \union {a} ELSE @])
      BY <2>1 DEF Screen
    <3> DEFINE found == ~Exhausted(item[w], a) /\ Open(a)
               c == [call[w] EXCEPT !.left = @ \ {a},
                                    !.candidates = IF found THEN @ \union {a} ELSE @]
    <3>2. c.at = "screen"
      BY <2>1 DEF Screen, At, GovTypeOK, Call
    <3>3. Continue(w, c)
      BY <3>1
    <3> HIDE DEF c
    <3> QED
      BY <1>2, <2>1, <3>2, <3>3 DEF Screen
  <2>2. CASE Select(w)
    <3>1. PICK a \in call[w].candidates :
             Continue(w, [call[w] EXCEPT !.at = "authorize", !.path = a])
      BY <2>2 DEF Select
    <3>2. [call[w] EXCEPT !.at = "authorize", !.path = a].at = "authorize"
      BY DEF GovTypeOK, Call
    <3> QED
      BY <1>2, <2>2, <3>1, <3>2 DEF Select
  <2>3. CASE Authorize(w) /\ Gates(call[w].path)
    <3>1. [call[w] EXCEPT !.at = "run"].at = "run"
      BY DEF GovTypeOK, Call
    <3> QED
      BY <1>2, <2>3, <3>1 DEF Authorize
  <2>4. CASE Run(w)
    <3>1. [call[w] EXCEPT !.at = "clear"].at = "clear"
      BY DEF GovTypeOK, Call
    <3>2. CASE Continue(w, [call[w] EXCEPT !.at = "clear"]) /\ UNCHANGED failed
      BY <1>2, <2>4, <3>1, <3>2 DEF Run
    <3>3. CASE /\ Continue(w, [call[w] EXCEPT !.at = "record"])
               /\ failed' = [failed EXCEPT ![item[w]][call[w].path] = @ + 1]
      BY <2>4, <3>3, CountRun DEF Run
    <3> QED
      BY <2>4, <3>2, <3>3 DEF Run
  <2>5. CASE RecordRead(w)
    BY <2>5, CountRead
  <2>6. CASE RecordWrite(w)
    BY <2>6, CountWrite
  <2>7. CASE Clear(w)
    <3>1. item[w] \in Jobs /\ call[w].path \in Paths
      BY <2>7, Within DEF Clear
    <3>2. \A j \in Jobs, a \in Paths : failures'[j][a] <= failures[j][a] /\ failed'[j][a] = failed[j][a]
      BY <2>7, <3>1 DEF Clear, GovTypeOK
    <3>3. Forget(w) /\ Step(w)
      BY <2>7 DEF Clear, Executed, Step
    <3> QED
      BY <3>2, <3>3, ForgetKeeps, CountKept
  <2>8. CASE GiveUp(w) \/ (Authorize(w) /\ ~Gates(call[w].path))
    BY <1>1, <2>8 DEF GiveUp, Authorize, Blocked, Failed, Step
  <2> QED
    BY <1>3, <2>1, <2>2, <2>3, <2>4, <2>5, <2>6, <2>7, <2>8 DEF Handle
<1>4. ASSUME NEW w \in Workers, Elsewhere(w), UNCHANGED govVars PROVE CountInv'
  <2>1. Step(w) /\ call[w] = Fresh
    BY <1>4, ElsewhereKeeps DEF Elsewhere, Step
  <2>2. Forget(w)
    BY <1>4, <2>1 DEF Forget, govVars, GovTypeOK
  <2> QED
    BY <1>1, <1>4, <2>1, <2>2 DEF govVars
<1>5. ASSUME NEW w \in Workers, Fault(w) PROVE CountInv'
  BY <1>1, <1>5 DEF Fault, Raised, Failed, Step
<1>6. CASE UNCHANGED <<item, call, failures, failed>>
  BY <1>6 DEF CountInv, Owing
<1>7. CASE Change
  BY <1>6, <1>7 DEF Change, vars, locals
<1>8. CASE (Tick \/ \E j \in Jobs : Enqueue(j)) /\ UNCHANGED govVars
  BY <1>6, <1>8 DEF Tick, Enqueue, govVars, locals
<1> QED
  BY <1>1, <1>3, <1>4, <1>5, <1>6, <1>7, <1>8 DEF GovNext, Work, allVars, vars, locals, govVars

-----------------------------------------------------------------------------
(* Events are let go only after every open path was tried *)

\* Steps that give nothing up, after which no process remembers less.
LEMMA TriedKept ==
    ASSUME TypeOK, ItemInv, GovTypeOK, TriedInv,
           UNCHANGED <<registry, gaveUp>>,
           \A j \in Jobs, a \in Paths : failed'[j][a] \in Nat /\ failed'[j][a] >= failed[j][a],
           \A v \in Workers : pc'[v] = "handle" =>
              \/ call'[v] = Fresh
              \/ /\ pc[v] = "handle" /\ item'[v] = item[v]
                 /\ call'[v].left \union call'[v].candidates
                      = call[v].left \union call[v].candidates
    PROVE  TriedInv'
<1> USE GovernorAssumption
<1>1. GivesUpAfterTrying'
  <2> SUFFICES ASSUME NEW j \in gaveUp, NEW a \in Paths
               PROVE  a \in closed \/ failed'[j][a] >= MaxFailures
    BY DEF GivesUpAfterTrying, registry
  <2>1. a \in closed \/ failed[j][a] >= MaxFailures
    BY DEF TriedInv, GivesUpAfterTrying
  <2> QED
    BY <2>1 DEF GovTypeOK
<1>2. \A a \in Paths \ closed' : Open(a)'
  BY DEF TriedInv, Open, Gates, registry
<1>3. ASSUME NEW v \in Workers, pc'[v] = "handle", NEW a \in Paths \ closed
      PROVE  a \in call'[v].left \union call'[v].candidates \/ failed'[item'[v]][a] >= MaxFailures
  <2>1. CASE call'[v] = Fresh
    BY <2>1 DEF Fresh
  <2>2. CASE /\ pc[v] = "handle" /\ item'[v] = item[v]
             /\ call'[v].left \union call'[v].candidates = call[v].left \union call[v].candidates
    <3>1. item[v] \in Jobs
      BY <2>2 DEF TypeOK, ItemInv, Polling
    <3>2. a \in call[v].left \union call[v].candidates \/ failed[item[v]][a] >= MaxFailures
      BY <2>2 DEF TriedInv
    <3> QED
      BY <2>2, <3>1, <3>2 DEF GovTypeOK
  <2> QED
    BY <1>3, <2>1, <2>2
<1> QED
  BY <1>1, <1>2, <1>3 DEF TriedInv, registry

LEMMA TriedStep ==
    ASSUME TypeOK, ItemInv, GovTypeOK, GovTypeOK', CallInv, CountInv, TriedInv,
           [GovNext]_allVars
    PROVE  TriedInv'
<1> USE GovernorAssumption
<1>1. \A j \in Jobs, a \in Paths : failed[j][a] \in Nat
  BY DEF GovTypeOK
<1>2. ASSUME NEW w \in Workers, Forget(w), Step(w) \/ Crash(w) \/ StoreFault(w),
             UNCHANGED <<registry, gaveUp, failed>>
      PROVE  TriedInv'
  <2>1. call'[w] = Fresh /\ \A v \in Workers \ {w} : call'[v] = call[v]
    BY <1>2 DEF Forget, GovTypeOK
  <2>2. \A v \in Workers \ {w} : pc'[v] = pc[v] /\ item'[v] = item[v]
    BY <1>2, OthersRest
  <2> QED
    BY <1>1, <1>2, <2>1, <2>2, TriedKept
<1>3. ASSUME NEW w \in Workers, NEW c, Continue(w, c),
             c.left \union c.candidates = call[w].left \union call[w].candidates,
             UNCHANGED <<registry, gaveUp>>,
             \A j \in Jobs, a \in Paths : failed'[j][a] \in Nat /\ failed'[j][a] >= failed[j][a]
      PROVE  TriedInv'
  <2>1. call'[w] = c /\ \A v \in Workers \ {w} : call'[v] = call[v]
    BY <1>3 DEF Continue, GovTypeOK
  <2>2. pc' = pc /\ item' = item
    BY <1>3 DEF Continue, vars, locals
  <2> QED
    BY <1>3, <2>1, <2>2, TriedKept
<1>4. ASSUME NEW w \in Workers, Screen(w) PROVE TriedInv'
  <2>1. PICK a \in call[w].left : LET found == ~Exhausted(item[w], a) /\ Open(a) IN
           Continue(w, [call[w] EXCEPT !.left = @ \ {a},
                                       !.candidates = IF found THEN @ \union {a} ELSE @])
    BY <1>4 DEF Screen
  <2>2. /\ item[w] \in Jobs /\ pc[w] = "handle" /\ call[w] \in Call
        /\ UNCHANGED <<profile, evident, ready, closed, gaveUp, failed, pc, item>>
    BY <1>4, <2>1, Within DEF Screen, At, Continue, vars, locals, registry
  <2>3. /\ call'[w].left = call[w].left \ {a}
        /\ call[w].candidates \subseteq call'[w].candidates
        /\ ~Exhausted(item[w], a) /\ Open(a) => a \in call'[w].candidates
        /\ \A v \in Workers \ {w} : call'[v] = call[v]
    BY <2>1, <2>2 DEF Continue, GovTypeOK, Call
  <2>4. a \in Paths \ closed /\ Exhausted(item[w], a) => failed[item[w]][a] >= MaxFailures
    <3>1. SUFFICES ASSUME a \in Paths, failures[item[w]][a] >= MaxFailures
                   PROVE  failed[item[w]][a] >= MaxFailures
      BY DEF Exhausted
    <3>2. /\ failures[item[w]][a] + Cardinality(Owing(item[w], a)) <= failed[item[w]][a]
          /\ Cardinality(Owing(item[w], a)) \in Nat
          /\ failures[item[w]][a] \in Nat /\ failed[item[w]][a] \in Nat
      BY <2>2, <3>1, OwingCounted DEF CountInv, GovTypeOK
    <3> QED
      BY <3>1, <3>2
  <2>5. GivesUpAfterTrying' /\ \A b \in Paths \ closed' : Open(b)'
    BY <2>2 DEF TriedInv, GivesUpAfterTrying, Open, Gates
  <2>6. ASSUME NEW v \in Workers, pc[v] = "handle", NEW b \in Paths \ closed
        PROVE  b \in call'[v].left \union call'[v].candidates \/ failed[item[v]][b] >= MaxFailures
    <3>1. b \in call[v].left \union call[v].candidates \/ failed[item[v]][b] >= MaxFailures
      BY <2>6 DEF TriedInv
    <3>2. CASE v # w
      BY <2>3, <3>1, <3>2
    <3>3. CASE v = w /\ b # a
      BY <2>3, <3>1, <3>3
    <3>4. CASE v = w /\ b = a
      <4>1. Open(a)
        BY <2>6, <3>4 DEF TriedInv
      <4> QED
        BY <2>3, <2>4, <2>6, <3>4, <4>1
    <3> QED
      BY <3>2, <3>3, <3>4
  <2> QED
    BY <2>2, <2>5, <2>6 DEF TriedInv
<1>5. ASSUME NEW w \in Workers, GiveUp(w) PROVE TriedInv'
  <2>1. /\ item[w] \in Jobs /\ pc[w] = "handle"
        /\ call[w].left = {} /\ call[w].candidates = {}
        /\ UNCHANGED <<profile, evident, ready, closed, failed>>
        /\ gaveUp' = gaveUp \union {item[w]}
    BY <1>5, Within DEF GiveUp, At, registry
  <2>2. \A a \in Paths \ closed : failed[item[w]][a] >= MaxFailures
    BY <2>1 DEF TriedInv
  <2>3. GivesUpAfterTrying' /\ \A b \in Paths \ closed' : Open(b)'
    BY <2>1, <2>2 DEF TriedInv, GivesUpAfterTrying, Open, Gates
  <2>4. Forget(w) /\ Step(w)
    BY <1>5 DEF GiveUp, Blocked, Step
  <2>5. \A v \in Workers \ {w} : pc'[v] = pc[v] /\ item'[v] = item[v] /\ call'[v] = call[v]
    BY <2>4, OthersRest DEF Forget, GovTypeOK
  <2>6. call'[w] = Fresh
    BY <2>4 DEF Forget, GovTypeOK
  <2>7. ASSUME NEW v \in Workers, pc'[v] = "handle", NEW b \in Paths \ closed
        PROVE  b \in call'[v].left \union call'[v].candidates \/ failed[item'[v]][b] >= MaxFailures
    <3>1. CASE v = w
      BY <2>6, <3>1 DEF Fresh
    <3>2. CASE v # w
      BY <2>5, <2>7, <3>2 DEF TriedInv
    <3> QED
      BY <3>1, <3>2
  <2> QED
    BY <2>1, <2>3, <2>7 DEF TriedInv
<1>6. ASSUME NEW w \in Workers, Handle(w) PROVE TriedInv'
  <2>1. CASE Select(w)
    <3>1. PICK a \in call[w].candidates :
             Continue(w, [call[w] EXCEPT !.at = "authorize", !.path = a])
      BY <2>1 DEF Select
    <3> DEFINE c == [call[w] EXCEPT !.at = "authorize", !.path = a]
    <3>2. c.left = call[w].left /\ c.candidates = call[w].candidates
      BY DEF GovTypeOK, Call
    <3>3. Continue(w, c)
      BY <3>1
    <3> HIDE DEF c
    <3> QED
      BY <1>1, <1>3, <2>1, <3>2, <3>3 DEF Select
  <2>2. CASE Authorize(w) /\ Gates(call[w].path)
    <3> DEFINE c == [call[w] EXCEPT !.at = "run"]
    <3>1. c.left = call[w].left /\ c.candidates = call[w].candidates
      BY DEF GovTypeOK, Call
    <3>2. Continue(w, c)
      BY <2>2 DEF Authorize
    <3> HIDE DEF c
    <3> QED
      BY <1>1, <1>3, <2>2, <3>1, <3>2 DEF Authorize
  <2>3. CASE Run(w)
    <3>1. PICK l \in {"clear", "record"} : Continue(w, [call[w] EXCEPT !.at = l])
      BY <2>3 DEF Run
    <3> DEFINE c == [call[w] EXCEPT !.at = l]
    <3>2. c.left = call[w].left /\ c.candidates = call[w].candidates
      BY DEF GovTypeOK, Call
    <3>3. item[w] \in Jobs /\ call[w].path \in Paths
      BY <2>3, Within DEF Run
    <3>4. ASSUME NEW j \in Jobs, NEW a \in Paths
          PROVE  failed'[j][a] \in Nat /\ failed'[j][a] >= failed[j][a]
      <4>1. CASE failed' = failed
        BY <1>1, <4>1
      <4>2. CASE failed' = [failed EXCEPT ![item[w]][call[w].path] = @ + 1]
        <5>1. failed'[j][a] = failed[j][a] \/ failed'[j][a] = failed[j][a] + 1
          BY <3>3, <4>2 DEF GovTypeOK
        <5> QED
          BY <1>1, <5>1
      <4> QED
        BY <2>3, <4>1, <4>2 DEF Run
    <3>5. Continue(w, c)
      BY <3>1
    <3> HIDE DEF c
    <3> QED
      BY <1>3, <2>3, <3>2, <3>4, <3>5 DEF Run
  <2>4. CASE RecordRead(w)
    <3> DEFINE c == [call[w] EXCEPT !.at = "write", !.count = failures[item[w]][call[w].path]]
    <3>1. c.left = call[w].left /\ c.candidates = call[w].candidates
      BY DEF GovTypeOK, Call
    <3>2. Continue(w, c)
      BY <2>4 DEF RecordRead
    <3> HIDE DEF c
    <3> QED
      BY <1>1, <1>3, <2>4, <3>1, <3>2 DEF RecordRead
  <2>5. CASE (Authorize(w) /\ ~Gates(call[w].path)) \/ RecordWrite(w) \/ Clear(w)
    <3>1. Forget(w) /\ Step(w) /\ UNCHANGED <<registry, gaveUp, failed>>
      BY <2>5 DEF Authorize, RecordWrite, Clear, Failed, Executed, Step
    <3> QED
      BY <1>2, <3>1
  <2> QED
    BY <1>4, <1>5, <1>6, <2>1, <2>2, <2>3, <2>4, <2>5 DEF Handle
<1>7. ASSUME NEW w \in Workers, Elsewhere(w), UNCHANGED govVars PROVE TriedInv'
  <2>1. Step(w) /\ call[w] = Fresh
    BY <1>7, ElsewhereKeeps DEF Elsewhere, Step
  <2>2. Forget(w)
    BY <1>7, <2>1 DEF Forget, govVars, GovTypeOK
  <2> QED
    BY <1>2, <1>7, <2>1, <2>2 DEF govVars
<1>8. ASSUME NEW w \in Workers, Fault(w) PROVE TriedInv'
  <2>1. Forget(w) /\ Step(w) /\ UNCHANGED <<registry, gaveUp, failed>>
    BY <1>8 DEF Fault, Raised, Failed, Step
  <2> QED
    BY <1>2, <2>1
<1>9. CASE UNCHANGED <<pc, item, govVars>>
  BY <1>1, <1>9, TriedKept DEF govVars
<1>10. CASE Change
  <2>1. /\ closed' = closed \union {a \in Paths : ~Open(a)'}
        /\ UNCHANGED <<failed, gaveUp, pc, item, call>>
    BY <1>10 DEF Change, vars, locals
  <2>2. \A a \in Paths \ closed' : Open(a)'
    BY <2>1
  <2>3. GivesUpAfterTrying'
    BY <2>1 DEF TriedInv, GivesUpAfterTrying
  <2> QED
    BY <2>1, <2>2, <2>3 DEF TriedInv
<1>11. CASE (Tick \/ \E j \in Jobs : Enqueue(j)) /\ UNCHANGED govVars
  BY <1>9, <1>11 DEF Tick, Enqueue, locals
<1> QED
  BY <1>2, <1>6, <1>7, <1>8, <1>9, <1>10, <1>11 DEF GovNext, Work, allVars, vars, locals

\* The governor never lets an event go as blocked while one of its paths is
\* open and has failed less than max_failures_per_path times.
THEOREM NoEarlySurrender == GovSpec => []GivesUpAfterTrying
<1>1. GovInit => CountInv /\ TriedInv
  <2> SUFFICES ASSUME GovInit PROVE CountInv /\ TriedInv
    OBVIOUS
  <2>1. \A j \in Jobs, a \in Paths : Owing(j, a) = {} /\ failures[j][a] = 0 /\ failed[j][a] = 0
    BY FreshTyped DEF GovInit, Owing
  <2>2. \A w \in Workers : call[w].at = "screen" /\ call[w].left = Paths
    BY FreshTyped DEF GovInit, Fresh
  <2>3. CountInv
    <3>1. \A j \in Jobs, a \in Paths : Cardinality(Owing(j, a)) = 0
      BY <2>1, FS_EmptySet
    <3>2. \A j \in Jobs, a \in Paths : failures[j][a] + Cardinality(Owing(j, a)) <= failed[j][a]
      BY <2>1, <3>1
    <3> QED
      BY <2>2, <3>2 DEF CountInv
  <2>4. TriedInv
    BY <2>2 DEF GovInit, TriedInv, GivesUpAfterTrying
  <2> QED
    BY <2>3, <2>4
<1>2. TypeOK /\ ItemInv /\ GovTypeOK /\ CallInv /\ CountInv /\ TriedInv /\ [GovNext]_allVars
        => CountInv' /\ TriedInv'
  BY GovTypeStep, CountStep, TriedStep
<1>3. TriedInv => GivesUpAfterTrying
  BY DEF TriedInv
<1> QED
  BY <1>1, <1>2, <1>3, GovernedTypes, GovernorTypeCorrect, PTL DEF GovSpec

-----------------------------------------------------------------------------
(* Failing paths are left *)

\* As long as no process outlives its lease, an event that is decided or settled
\* stays so, unless there is an incident.
LEMMA LineFalls ==
    ASSUME TypeOK, ItemInv, HeldInv, ClaimInv, ~outlived, ~outlived', NEW j \in Jobs,
           \/ \E w \in Workers : Step(w)
           \/ Tick \/ (\E k \in Jobs : Enqueue(k)) \/ UNCHANGED vars
    PROVE  Line(j)' <= Line(j)
<1> USE WorkerAssumption DEF TypeOK, QueueTypeOK, queue, locals
<1>1. SUFFICES ASSUME Line(j) = 0 PROVE Line(j)' = 0
  BY DEF Line
<1>2. [Next]_vars
  BY DEF Next
<1>3. CASE status[j] \in Settled
  BY <1>2, <1>3, SettledStep DEF Line
<1>4. CASE status[j] \notin Settled
  <2>1. holder[j] # None /\ pc[holder[j]] = "complete"
    BY <1>1, <1>4 DEF Line
  <2>2. PICK h \in Workers : h = holder[j] /\ pc[h] = "complete" /\ item[h] = j
    BY <2>1 DEF ClaimInv
  <2>3. status[j] = "leased" /\ owner[j] = workerId[h] /\ lease[j] > 0
    BY <2>2 DEF HeldInv, Owned
  <2>4. ASSUME holder'[j] = h, pc'[h] = "complete" PROVE Line(j)' = 0
    BY <2>4 DEF Line
  <2>5. ASSUME NEW w \in Workers, Step(w), w # h PROVE Line(j)' = 0
    <3>1. pc'[h] = pc[h]
      BY <2>5, OthersRest
    <3>2. item[w] # j
      BY <2>2, <2>5, HeldDistinct
    <3>3. CASE RecoverExpired(w)
      BY <2>2, <2>3, <2>4, <3>1, <3>3 DEF RecoverExpired, Recover, Expired
    <3>4. CASE ClaimJob(w)
      BY <2>2, <2>3, <2>4, <3>1, <3>4 DEF ClaimJob, Oldest, Claimable
    <3>5. CASE CompleteItem(w) \/ FailItem(w)
      BY <2>2, <2>4, <3>1, <3>2, <3>5 DEF CompleteItem, FailItem, Release
    <3>6. CASE ~RecoverExpired(w) /\ ~ClaimJob(w) /\ ~CompleteItem(w) /\ ~FailItem(w)
      <4>1. holder' = holder
        BY <2>5, <3>6 DEF Step, ClaimNothing, HandleDuplicate, HandleDecided, HandleFailed, LoseLease,
           FailSelect, FailNotOwned
      <4> QED
        BY <2>2, <2>4, <3>1, <4>1
    <3> QED
      BY <3>3, <3>4, <3>5, <3>6
  <2>6. ASSUME Step(h) PROVE Line(j)' = 0
    <3>1. CompleteItem(h)
      BY <2>2, <2>3, <2>6 DEF Step, RecoverExpired, ClaimJob, ClaimNothing, HandleDuplicate, HandleDecided,
         HandleFailed, LoseLease, FailSelect, FailNotOwned, FailItem, Owned
    <3>2. status'[j] = "completed"
      BY <2>2, <3>1 DEF CompleteItem, Complete
    <3> QED
      BY <3>2 DEF Line, Settled
  <2>7. ASSUME holder' = holder, pc' = pc PROVE Line(j)' = 0
    BY <2>2, <2>4, <2>7
  <2>8. (Tick \/ (\E k \in Jobs : Enqueue(k)) \/ UNCHANGED vars) => holder' = holder /\ pc' = pc
    BY DEF Tick, Enqueue, vars
  <2> QED
    BY <2>5, <2>6, <2>7, <2>8
<1> QED
  BY <1>3, <1>4

LEMMA Multiples ==
    ASSUME NEW m \in Nat, NEW n \in Nat, NEW k \in Nat
    PROVE  /\ m * n \in Nat /\ m * (n + k) \in Nat /\ m * (n + k) >= m * n
           /\ k >= 1 => m * (n + k) >= m * n + m
<1>1. \A x, y \in Nat : m * (x + y) = m * x + m * y /\ m * x \in Nat /\ m * y \in Nat
  OBVIOUS
<1>2. m * (n + k) = m * n + m * k /\ m * n \in Nat /\ m * k \in Nat
  BY <1>1
<1>3. ASSUME k >= 1 PROVE m * k >= m
  <2>1. k - 1 \in Nat /\ k = 1 + (k - 1)
    BY <1>3
  <2>2. m * k = m * 1 + m * (k - 1) /\ m * (k - 1) \in Nat /\ m * 1 = m
    BY <1>1, <2>1
  <2> DEFINE x == m * k
             y == m * (k - 1)
  <2>3. x = m + y /\ y \in Nat
    BY <2>2
  <2> HIDE DEF x, y
  <2>4. x >= m
    BY <2>3
  <2> QED
    BY <2>4 DEF x
<1> DEFINE u == m * (n + k)
           v == m * n
           t == m * k
<1>4. u = v + t /\ v \in Nat /\ t \in Nat /\ (k >= 1 => t >= m)
  BY <1>2, <1>3
<1> HIDE DEF u, v, t
<1>5. u \in Nat /\ v \in Nat /\ u >= v /\ (k >= 1 => u >= v + m)
  BY <1>4
<1> QED
  BY <1>5 DEF u, v

LEMMA BudgetGrows ==
    ASSUME TypeOK, GovTypeOK, TypeOK', GovTypeOK', incidents' >= incidents, faults' >= faults
    PROVE  /\ Budget \in Nat /\ Budget' \in Nat /\ Budget' >= Budget
           /\ incidents' + faults' >= incidents + faults + 1 => Budget' >= Budget + MaxFailures
<1>1. /\ incidents \in Nat /\ incidents' \in Nat /\ faults \in Nat /\ faults' \in Nat /\ MaxFailures \in Nat
  BY GovernorAssumption DEF TypeOK, GovTypeOK
<1>2. PICK k \in Nat : /\ 1 + incidents' + faults' = (1 + incidents + faults) + k
                       /\ incidents' + faults' >= incidents + faults + 1 => k >= 1
  <2>1. PICK a \in Nat, b \in Nat, c \in Nat, d \in Nat :
             a = incidents /\ b = faults /\ c = incidents' /\ d = faults'
    BY <1>1
  <2>2. c >= a /\ d >= b
    BY <2>1
  <2>3. (c - a) + (d - b) \in Nat
    BY <2>2
  <2>4. /\ 1 + c + d = (1 + a + b) + ((c - a) + (d - b))
        /\ c + d >= a + b + 1 => (c - a) + (d - b) >= 1
    BY <2>2
  <2> QED
    BY <2>1, <2>3, <2>4
<1>3. PICK n \in Nat : n = 1 + incidents + faults
  BY <1>1
<1>4. Budget = MaxFailures * n /\ Budget' = MaxFailures * (n + k)
  BY <1>2, <1>3 DEF Budget
<1> QED
  BY <1>1, <1>2, <1>4, Multiples

\* The ways a step may change what a path has failed and may still fail.
LEMMA Balance ==
    ASSUME NEW m \in Nat \ {0}, NEW b \in Nat, NEW c \in Nat, NEW d \in Nat, NEW e \in Nat, NEW f \in Nat, NEW g \in Nat,
           NEW o \in {0, 1}, NEW p \in {0, 1}, NEW l \in {0, 1}, NEW k \in {0, 1},
           d + (IF l = 0 THEN 0 ELSE m - f - o) <= b, f + o <= m,
           \/ e = d /\ g = f /\ p = o /\ k <= l /\ c >= b
           \/ e = d /\ g = f /\ p <= o /\ c >= b + m
           \/ e = d + 1 /\ g = f /\ f < m /\ o = 0 /\ p = 1 /\ l = 1 /\ k = 1 /\ c = b
           \/ e = d /\ g = f + 1 /\ o = 1 /\ p = 0 /\ k <= l /\ c = b
           \/ e = d /\ g = 0 /\ p = 0 /\ k = 0 /\ c = b
    PROVE  e + (IF k = 0 THEN 0 ELSE m - g - p) <= c /\ g + p <= m
OBVIOUS

LEMMA SpendingStep ==
    ASSUME TypeOK, GovTypeOK, TypeOK', GovTypeOK', NEW j \in Jobs, NEW a \in Paths, Spending(j, a),
           incidents' >= incidents, faults' >= faults,
           \/ /\ failed'[j][a] = failed[j][a] /\ failures'[j][a] = failures[j][a]
              /\ Owed(j, a)' = Owed(j, a) /\ Line(j)' <= Line(j)
           \/ /\ failed'[j][a] = failed[j][a] /\ failures'[j][a] = failures[j][a]
              /\ Owed(j, a)' <= Owed(j, a) /\ incidents' + faults' >= incidents + faults + 1
           \/ /\ failed'[j][a] = failed[j][a] + 1 /\ failures'[j][a] = failures[j][a] /\ failures[j][a] < MaxFailures
              /\ Owed(j, a) = 0 /\ Owed(j, a)' = 1 /\ Line(j) = 1 /\ Line(j)' = 1
              /\ UNCHANGED <<incidents, faults>>
           \/ /\ failed'[j][a] = failed[j][a] /\ failures'[j][a] = failures[j][a] + 1
              /\ Owed(j, a) = 1 /\ Owed(j, a)' = 0 /\ Line(j)' <= Line(j)
              /\ UNCHANGED <<incidents, faults>>
           \/ /\ failed'[j][a] = failed[j][a] /\ failures'[j][a] = 0
              /\ Owed(j, a)' = 0 /\ Line(j)' = 0
              /\ UNCHANGED <<incidents, faults>>
    PROVE  Spending(j, a)'
<1>1. /\ failed[j][a] \in Nat /\ failed'[j][a] \in Nat /\ failures[j][a] \in Nat /\ failures'[j][a] \in Nat
      /\ MaxFailures \in Nat \ {0}
  BY GovernorAssumption DEF GovTypeOK
<1>2. Owed(j, a) \in {0, 1} /\ Owed(j, a)' \in {0, 1} /\ Line(j) \in {0, 1} /\ Line(j)' \in {0, 1}
  BY DEF Owed, Line
<1>3. /\ Budget \in Nat /\ Budget' \in Nat /\ Budget' >= Budget
      /\ incidents' + faults' >= incidents + faults + 1 => Budget' >= Budget + MaxFailures
  BY BudgetGrows
<1>4. UNCHANGED <<incidents, faults>> => Budget' = Budget
  BY DEF Budget
<1>5. /\ failed[j][a] + (IF Line(j) = 0 THEN 0 ELSE MaxFailures - failures[j][a] - Owed(j, a)) <= Budget
      /\ failures[j][a] + Owed(j, a) <= MaxFailures
  BY DEF Spending, Remaining
<1>6. /\ failed'[j][a] + (IF Line(j)' = 0 THEN 0 ELSE MaxFailures - failures'[j][a] - Owed(j, a)') <= Budget'
      /\ failures'[j][a] + Owed(j, a)' <= MaxFailures
  <2> DEFINE m == MaxFailures  b == Budget  c == Budget'  d == failed[j][a]  e == failed'[j][a]
             f == failures[j][a]  g == failures'[j][a]
             o == Owed(j, a)  p == Owed(j, a)'  l == Line(j)  k == Line(j)'
  <2>1. /\ m \in Nat \ {0} /\ b \in Nat /\ c \in Nat /\ d \in Nat /\ e \in Nat /\ f \in Nat /\ g \in Nat
        /\ o \in {0, 1} /\ p \in {0, 1} /\ l \in {0, 1} /\ k \in {0, 1}
    BY <1>1, <1>2, <1>3
  <2>2. d + (IF l = 0 THEN 0 ELSE m - f - o) <= b /\ f + o <= m
    BY <1>5
  <2>3. \/ e = d /\ g = f /\ p = o /\ k <= l /\ c >= b
        \/ e = d /\ g = f /\ p <= o /\ c >= b + m
        \/ e = d + 1 /\ g = f /\ f < m /\ o = 0 /\ p = 1 /\ l = 1 /\ k = 1 /\ c = b
        \/ e = d /\ g = f + 1 /\ o = 1 /\ p = 0 /\ k <= l /\ c = b
        \/ e = d /\ g = 0 /\ p = 0 /\ k = 0 /\ c = b
    BY <1>3, <1>4
  <2> HIDE DEF m, b, c, d, e, f, g, o, p, l, k
  <2>4. e + (IF k = 0 THEN 0 ELSE m - g - p) <= c /\ g + p <= m
    BY <2>1, <2>2, <2>3, Balance
  <2> QED
    BY <2>4 DEF m, c, e, g, p, k
<1> QED
  BY <1>6 DEF Spending, Remaining

\* Steps that neither count nor try anything.
LEMMA SpentKept ==
    ASSUME TypeOK, TypeOK', GovTypeOK, GovTypeOK', SpentInv, ~outlived,
           failures' = failures, failed' = failed, incidents' >= incidents, faults' >= faults,
           \A v \in Workers : call'[v] = Fresh \/ (call'[v] = call[v] /\ item'[v] = item[v]),
           \/ incidents' + faults' >= incidents + faults + 1
           \/ /\ \A j \in Jobs : Line(j)' <= Line(j)
              /\ \A v \in Workers : call[v].at \in {"record", "write"} => call'[v] = call[v] /\ item'[v] = item[v]
    PROVE  SpentInv'
<1> USE FreshTyped
<1>1. \A w \in Workers : call'[w].at # "screen" => call'[w].path \in call'[w].candidates
  BY DEF SpentInv
<1>2. ASSUME NEW j \in Jobs, NEW a \in Paths PROVE Spending(j, a)'
  <2>1. Spending(j, a) /\ failures'[j][a] = failures[j][a] /\ failed'[j][a] = failed[j][a]
    BY <1>2 DEF SpentInv
  <2>2. \A v \in Workers : Counting(v, j, a)' => Counting(v, j, a)
    BY DEF Counting
  <2>3. Owed(j, a)' <= Owed(j, a)
    BY <2>2 DEF Owed
  <2>4. CASE incidents' + faults' >= incidents + faults + 1
    BY <2>1, <2>3, <2>4, SpendingStep
  <2>5. CASE /\ \A k \in Jobs : Line(k)' <= Line(k)
             /\ \A v \in Workers : call[v].at \in {"record", "write"} => call'[v] = call[v] /\ item'[v] = item[v]
    <3>1. \A v \in Workers : Counting(v, j, a) => Counting(v, j, a)'
      BY <2>5 DEF Counting
    <3>2. Owed(j, a)' = Owed(j, a)
      BY <2>2, <3>1 DEF Owed
    <3> QED
      BY <2>1, <2>5, <3>2, SpendingStep
  <2> QED
    BY <2>4, <2>5
<1>3. ASSUME NEW j \in Jobs, NEW a \in Paths, NEW v \in Workers PROVE Trying(v, j, a)'
  BY <1>3 DEF SpentInv, Trying, Fresh
<1> QED
  BY <1>1, <1>2, <1>3 DEF SpentInv

\* Who owes a count, when one process alone works on its event.
LEMMA OwedAlone ==
    ASSUME TypeOK, HeldInv, ~outlived, NEW w \in Workers, item[w] \in Jobs, item' = item,
           \A v \in Workers \ {w} : call'[v] = call[v], NEW j \in Jobs, NEW a
    PROVE  /\ j # item[w] => Owed(j, a)' = Owed(j, a)
           /\ j = item[w] => /\ Owed(j, a) = IF Counting(w, j, a) THEN 1 ELSE 0
                             /\ Owed(j, a)' = IF Counting(w, j, a)' THEN 1 ELSE 0
<1>1. \A v \in Workers \ {w} : item[v] # item[w]
  BY HeldDistinct, WorkerAssumption
<1>2. CASE j # item[w]
  <2>1. \A v \in Workers : Counting(v, j, a)' <=> Counting(v, j, a)
    BY <1>2 DEF Counting
  <2> QED
    BY <1>2, <2>1 DEF Owed
<1>3. CASE j = item[w]
  <2>1. \A v \in Workers \ {w} : ~Counting(v, j, a) /\ ~Counting(v, j, a)'
    BY <1>1, <1>3 DEF Counting
  <2> QED
    BY <1>3, <2>1 DEF Owed
<1> QED
  BY <1>2, <1>3

\* handle() goes on to a step that does not concern the counters.
LEMMA SpentGoesOn ==
    ASSUME TypeOK, TypeOK', GovTypeOK, GovTypeOK', HeldInv, SpentInv, ~outlived,
           NEW w \in Workers, NEW c, item[w] \in Jobs, Continue(w, c),
           UNCHANGED <<failures, failed, faults>>,
           call[w].at \notin {"record", "write"}, c.at \notin {"record", "write"},
           c.at # "screen" => c.path \in c.candidates,
           \A a \in c.candidates : a \in call[w].candidates \/ failures[item[w]][a] < MaxFailures
    PROVE  SpentInv'
<1>1. /\ call'[w] = c /\ \A v \in Workers \ {w} : call'[v] = call[v]
      /\ item' = item /\ UNCHANGED <<status, holder, pc, incidents>>
  BY DEF Continue, GovTypeOK, vars, locals, queue
<1>2. \A v \in Workers : call'[v].at # "screen" => call'[v].path \in call'[v].candidates
  BY <1>1 DEF SpentInv
<1>3. ASSUME NEW j \in Jobs, NEW a \in Paths PROVE Spending(j, a)'
  <2>1. Spending(j, a) /\ failures'[j][a] = failures[j][a] /\ failed'[j][a] = failed[j][a]
    BY <1>3 DEF SpentInv
  <2>2. \A v \in Workers : Counting(v, j, a)' <=> Counting(v, j, a)
    BY <1>1 DEF Counting
  <2>3. Owed(j, a)' = Owed(j, a)
    BY <2>2 DEF Owed
  <2>4. Line(j)' = Line(j)
    BY <1>1 DEF Line
  <2>5. Line(j)' <= Line(j) /\ incidents' >= incidents /\ faults' >= faults
    <3>1. Line(j) \in {0, 1}
      BY DEF Line
    <3>2. Line(j)' <= Line(j)
      BY <2>4, <3>1
    <3>3. incidents \in Nat /\ faults \in Nat
      BY DEF TypeOK, GovTypeOK
    <3> QED
      BY <1>1, <3>2, <3>3
  <2> QED
    BY <2>1, <2>3, <2>5, SpendingStep
<1>4. ASSUME NEW j \in Jobs, NEW a \in Paths, NEW v \in Workers PROVE Trying(v, j, a)'
  <2>1. Trying(v, j, a)
    BY <1>4 DEF SpentInv
  <2> QED
    BY <1>1, <2>1 DEF Trying
<1> QED
  BY <1>2, <1>3, <1>4 DEF SpentInv

\* The executor raises: a path that has not failed often enough fails once more.
LEMMA SpentFails ==
    ASSUME TypeOK, TypeOK', ItemInv, GovTypeOK, GovTypeOK', CallInv, HeldInv, SpentInv, ~outlived,
           NEW w \in Workers, At(w, "run"), Continue(w, [call[w] EXCEPT !.at = "record"]),
           failed' = [failed EXCEPT ![item[w]][call[w].path] = @ + 1], UNCHANGED <<failures, faults>>
    PROVE  SpentInv'
<1>1. /\ call[w].at = "run" /\ pc[w] = "handle" /\ item[w] \in Jobs /\ call[w].path \in Paths
      /\ call[w].path \in call[w].candidates /\ item[w] # None
  BY Within, WorkerAssumption DEF At, SpentInv
<1>2. /\ call'[w].at = "record" /\ call'[w].path = call[w].path /\ call'[w].candidates = call[w].candidates
      /\ \A v \in Workers \ {w} : call'[v] = call[v]
      /\ item' = item /\ UNCHANGED <<status, holder, pc, incidents>>
  BY DEF Continue, GovTypeOK, Call, vars, locals, queue
<1>3. \A v \in Workers : call'[v].at # "screen" => call'[v].path \in call'[v].candidates
  BY <1>1, <1>2 DEF SpentInv
<1>4. /\ incidents' >= incidents /\ faults' >= faults
      /\ \A j \in Jobs : Line(j) \in {0, 1} /\ Line(j)' = Line(j) /\ Line(j)' <= Line(j)
  <2>1. incidents \in Nat /\ faults \in Nat
    BY DEF TypeOK, GovTypeOK
  <2>2. \A j \in Jobs : Line(j) \in {0, 1} /\ Line(j)' = Line(j)
    BY <1>2 DEF Line
  <2>3. \A j \in Jobs : Line(j)' <= Line(j)
    BY <2>2
  <2> QED
    BY <1>2, <2>1, <2>2, <2>3
<1>5. ASSUME NEW j \in Jobs, NEW a \in Paths PROVE Spending(j, a)'
  <2>1. Spending(j, a) /\ failures'[j][a] = failures[j][a]
    BY <1>5 DEF SpentInv
  <2>2. CASE j = item[w] /\ a = call[w].path
    <3>1. failed'[j][a] = failed[j][a] + 1
      BY <2>2 DEF GovTypeOK
    <3>2. failures[j][a] < MaxFailures
      BY <1>1, <2>2 DEF SpentInv, Trying
    <3>3. Owed(j, a) = 0 /\ Owed(j, a)' = 1
      <4>1. ~Counting(w, j, a) /\ Counting(w, j, a)'
        BY <1>1, <1>2, <2>2 DEF Counting
      <4> QED
        BY <1>1, <1>2, <2>2, <4>1, OwedAlone
    <3>4. Line(j) = 1 /\ Line(j)' = 1
      <4>1. status[j] = "leased" /\ holder[j] = w
        BY <1>1, <2>2 DEF HeldInv, Owned
      <4> QED
        BY <1>1, <1>2, <4>1 DEF Line, Settled
    <3>5. UNCHANGED <<incidents, faults>>
      BY <1>2
    <3> QED
      BY <1>4, <2>1, <3>1, <3>2, <3>3, <3>4, <3>5, SpendingStep
  <2>3. CASE ~(j = item[w] /\ a = call[w].path)
    <3>1. failed'[j][a] = failed[j][a]
      BY <1>1, <2>3 DEF GovTypeOK
    <3>2. Owed(j, a)' = Owed(j, a)
      <4>1. \A v \in Workers : Counting(v, j, a)' <=> Counting(v, j, a)
        BY <1>1, <1>2, <2>3 DEF Counting
      <4> QED
        BY <4>1 DEF Owed
    <3> QED
      BY <1>4, <2>1, <3>1, <3>2, SpendingStep
  <2> QED
    BY <2>2, <2>3
<1>6. ASSUME NEW j \in Jobs, NEW a \in Paths, NEW v \in Workers PROVE Trying(v, j, a)'
  <2>1. Trying(v, j, a)
    BY <1>6 DEF SpentInv
  <2> QED
    BY <1>2, <2>1 DEF Trying
<1> QED
  BY <1>3, <1>5, <1>6 DEF SpentInv

LEMMA SpentReads ==
    ASSUME TypeOK, TypeOK', ItemInv, GovTypeOK, GovTypeOK', CallInv, SpentInv, ~outlived,
           NEW w \in Workers, RecordRead(w)
    PROVE  SpentInv'
<1> DEFINE c == [call[w] EXCEPT !.at = "write", !.count = failures[item[w]][call[w].path]]
<1>1. call[w].at = "record" /\ call[w] \in Call /\ call[w].path \in call[w].candidates
  BY DEF RecordRead, At, SpentInv, GovTypeOK
<1>2. /\ c.at = "write" /\ c.path = call[w].path /\ c.candidates = call[w].candidates
      /\ c.count = failures[item[w]][call[w].path]
  BY <1>1 DEF Call
<1>3. Continue(w, c) /\ UNCHANGED <<failures, failed, faults>>
  BY DEF RecordRead
<1> HIDE DEF c
<1>4. /\ call'[w] = c /\ \A v \in Workers \ {w} : call'[v] = call[v]
      /\ item' = item /\ UNCHANGED <<status, holder, pc, incidents>>
  BY <1>3 DEF Continue, GovTypeOK, vars, locals, queue
<1>5. \A v \in Workers : call'[v].at # "screen" => call'[v].path \in call'[v].candidates
  BY <1>1, <1>2, <1>4 DEF SpentInv
<1>6. ASSUME NEW j \in Jobs, NEW a \in Paths PROVE Spending(j, a)'
  <2>1. Spending(j, a)
    BY <1>6 DEF SpentInv
  <2>2. \A v \in Workers : Counting(v, j, a)' <=> Counting(v, j, a)
    BY <1>1, <1>2, <1>4 DEF Counting
  <2>3. Owed(j, a)' = Owed(j, a) /\ Line(j)' = Line(j) /\ Budget' = Budget
    BY <1>3, <1>4, <2>2 DEF Owed, Line, Budget
  <2> QED
    BY <1>3, <2>1, <2>3 DEF Spending, Remaining
<1>7. ASSUME NEW j \in Jobs, NEW a \in Paths, NEW v \in Workers PROVE Trying(v, j, a)'
  <2>1. Trying(v, j, a)
    BY <1>7 DEF SpentInv
  <2> QED
    BY <1>2, <1>3, <1>4, <2>1 DEF Trying
<1> QED
  BY <1>5, <1>6, <1>7 DEF SpentInv

\* The counter of the selected path moves with the decision.
LEMMA SpentCounts ==
    ASSUME TypeOK, TypeOK', ItemInv, GovTypeOK, GovTypeOK', CallInv, HeldInv, ClaimInv, SpentInv,
           ~outlived, ~outlived', NEW w \in Workers, RecordWrite(w) \/ Clear(w)
    PROVE  SpentInv'
<1> USE FreshTyped
<1> DEFINE n == IF RecordWrite(w) THEN call[w].count + 1 ELSE 0
<1>1. /\ pc[w] = "handle" /\ item[w] \in Jobs /\ call[w].path \in Paths /\ item[w] # None
      /\ call[w].at = IF RecordWrite(w) THEN "write" ELSE "clear"
  BY Within, WorkerAssumption DEF RecordWrite, Clear, At
<1>2. /\ failures' = [failures EXCEPT ![item[w]][call[w].path] = n] /\ UNCHANGED <<failed, faults, incidents>>
      /\ Forget(w) /\ Step(w) /\ item' = item /\ UNCHANGED <<status, holder>>
      /\ RecordWrite(w) \/ pc' = [pc EXCEPT ![w] = "complete"]
  BY DEF RecordWrite, Clear, Failed, Executed, HandleFailed, HandleDecided, Step, Quiet, Goto, locals, queue
<1> HIDE DEF n
<1>3. call'[w] = Fresh /\ \A v \in Workers \ {w} : call'[v] = call[v]
  BY <1>2 DEF Forget, GovTypeOK
<1>4. \A v \in Workers : call'[v].at # "screen" => call'[v].path \in call'[v].candidates
  BY <1>3 DEF SpentInv
<1>5. \A j \in Jobs, a \in Paths : ~(j = item[w] /\ a = call[w].path) => failures'[j][a] = failures[j][a]
  BY <1>1, <1>2 DEF GovTypeOK
<1>6. failures'[item[w]][call[w].path] = n
  BY <1>1, <1>2 DEF GovTypeOK
<1>7. incidents' >= incidents /\ faults' >= faults /\ incidents' = incidents /\ faults' = faults
  <2>1. incidents \in Nat /\ faults \in Nat
    BY DEF TypeOK, GovTypeOK
  <2> QED
    BY <1>2, <2>1
<1>8. ASSUME NEW j \in Jobs, NEW a \in Paths PROVE Spending(j, a)'
  <2>1. Spending(j, a) /\ failed'[j][a] = failed[j][a]
    BY <1>2, <1>8 DEF SpentInv
  <2>2. Line(j)' <= Line(j)
    BY <1>2, LineFalls
  <2>3. CASE j = item[w] /\ a = call[w].path /\ RecordWrite(w)
    <3>1. call[w].count = failures[j][a]
      BY <1>1, <2>3 DEF SpentInv, Trying
    <3>2. failures'[j][a] = failures[j][a] + 1
      BY <1>6, <2>3, <3>1 DEF n
    <3>3. Owed(j, a) = 1 /\ Owed(j, a)' = 0
      <4>1. Counting(w, j, a) /\ ~Counting(w, j, a)'
        BY <1>1, <1>3, <2>3 DEF Counting
      <4> QED
        BY <1>1, <1>2, <1>3, <2>3, <4>1, OwedAlone
    <3> QED
      BY <1>7, <2>1, <2>2, <3>2, <3>3, SpendingStep
  <2>4. CASE j = item[w] /\ a = call[w].path /\ ~RecordWrite(w)
    <3>1. failures'[j][a] = 0
      BY <1>6, <2>4 DEF n
    <3>2. Owed(j, a)' = 0
      <4>1. ~Counting(w, j, a)'
        BY <1>3 DEF Counting
      <4> QED
        BY <1>1, <1>2, <1>3, <2>4, <4>1, OwedAlone
    <3>3. Line(j)' = 0
      <4>1. holder[j] = w /\ pc'[w] = "complete"
        BY <1>1, <1>2, <2>4 DEF HeldInv, TypeOK
      <4> QED
        BY <1>2, <4>1, WorkerAssumption DEF Line
    <3> QED
      BY <1>7, <2>1, <3>1, <3>2, <3>3, SpendingStep
  <2>5. CASE ~(j = item[w] /\ a = call[w].path)
    <3>1. \A v \in Workers : Counting(v, j, a)' <=> Counting(v, j, a)
      BY <1>1, <1>2, <1>3, <2>5 DEF Counting
    <3>2. Owed(j, a)' = Owed(j, a)
      BY <3>1 DEF Owed
    <3> QED
      BY <1>5, <1>7, <2>1, <2>2, <2>5, <3>2, SpendingStep
  <2> QED
    BY <2>3, <2>4, <2>5
<1>9. ASSUME NEW j \in Jobs, NEW a \in Paths, NEW v \in Workers PROVE Trying(v, j, a)'
  <2>1. CASE v = w
    BY <1>3, <2>1 DEF Trying, Fresh
  <2>2. CASE v # w /\ item[v] = j
    <3>1. item[v] # item[w]
      BY <1>1, <2>2, HeldDistinct
    <3>2. Trying(v, j, a) /\ failures'[j][a] = failures[j][a]
      BY <1>5, <2>2, <3>1 DEF SpentInv
    <3> QED
      BY <1>2, <1>3, <2>2, <3>2 DEF Trying
  <2>3. CASE item[v] # j
    BY <1>2, <2>3 DEF Trying
  <2> QED
    BY <2>1, <2>2, <2>3
<1> QED
  BY <1>4, <1>8, <1>9 DEF SpentInv

LEMMA SpentStep ==
    ASSUME TypeOK, TypeOK', ItemInv, GovTypeOK, GovTypeOK', CallInv, HeldInv, ClaimInv, SpentInv,
           [GovNext]_allVars
    PROVE  SpentInv'
<1>1. CASE outlived'
  BY <1>1 DEF SpentInv
<1>2. CASE ~outlived'
  <2>1. ~outlived
    BY <1>2, GovernedStep, ConfiguredOnce
  <2>2. incidents \in Nat /\ faults \in Nat /\ incidents' \in Nat /\ faults' \in Nat
    BY DEF TypeOK, GovTypeOK
  <2>3. ASSUME NEW w \in Workers, Forget(w), Step(w), UNCHANGED <<failures, failed, faults>>,
               call[w].at \notin {"record", "write"}
        PROVE  SpentInv'
    <3>1. \A v \in Workers : call'[v] = Fresh \/ (call'[v] = call[v] /\ item'[v] = item[v])
      BY <2>3, OthersRest DEF Forget, GovTypeOK
    <3>2. \A v \in Workers : call[v].at \in {"record", "write"} => call'[v] = call[v] /\ item'[v] = item[v]
      BY <2>3, OthersRest DEF Forget, GovTypeOK
    <3>3. \A j \in Jobs : Line(j)' <= Line(j)
      BY <1>2, <2>1, <2>3, LineFalls
    <3>4. incidents' = incidents
      BY <2>3 DEF Step, RecoverExpired, ClaimJob, ClaimNothing, HandleDuplicate, HandleDecided, HandleFailed,
         CompleteItem, LoseLease, FailSelect, FailNotOwned, FailItem, Quiet
    <3>5. incidents' >= incidents /\ faults' >= faults
      BY <2>2, <2>3, <3>4
    <3> QED
      BY <2>1, <2>3, <3>1, <3>2, <3>3, <3>5, SpentKept
  <2>4. ASSUME NEW w \in Workers, Forget(w), Step(w) \/ Crash(w) \/ StoreFault(w), UNCHANGED <<failures, failed>>,
               incidents' + faults' >= incidents + faults + 1, incidents' >= incidents, faults' >= faults
        PROVE  SpentInv'
    <3>1. \A v \in Workers : call'[v] = Fresh \/ (call'[v] = call[v] /\ item'[v] = item[v])
      BY <2>4, OthersRest DEF Forget, GovTypeOK
    <3> QED
      BY <2>1, <2>4, <3>1, SpentKept
  <2>5. ASSUME NEW w \in Workers, Screen(w) PROVE SpentInv'
    <3>1. PICK a \in call[w].left : LET found == ~Exhausted(item[w], a) /\ Open(a) IN
             Continue(w, [call[w] EXCEPT !.left = @ \ {a},
                           !.candidates = IF found THEN @ \union {a} ELSE @])
      BY <2>5 DEF Screen
    <3> DEFINE found == ~Exhausted(item[w], a) /\ Open(a)
               c == [call[w] EXCEPT !.left = @ \ {a},
                                    !.candidates = IF found THEN @ \union {a} ELSE @]
    <3>2. /\ item[w] \in Jobs /\ call[w].at = "screen" /\ call[w] \in Call /\ a \in Paths
          /\ UNCHANGED <<failures, failed, faults>>
      BY <2>5, Within DEF Screen, At, Call
    <3>3. Exhausted(item[w], a) \/ failures[item[w]][a] < MaxFailures
      BY <3>2, GovernorAssumption DEF Exhausted, GovTypeOK
    <3>4. c.at = "screen" /\ \A b \in c.candidates : b \in call[w].candidates \/ failures[item[w]][b] < MaxFailures
      BY <3>2, <3>3 DEF Call
    <3>5. Continue(w, c)
      BY <3>1
    <3> HIDE DEF c
    <3> QED
      BY <2>1, <3>2, <3>4, <3>5, SpentGoesOn
  <2>6. ASSUME NEW w \in Workers, Select(w) PROVE SpentInv'
    <3>1. PICK a \in call[w].candidates :
             Continue(w, [call[w] EXCEPT !.at = "authorize", !.path = a])
      BY <2>6 DEF Select
    <3> DEFINE c == [call[w] EXCEPT !.at = "authorize", !.path = a]
    <3>2. /\ item[w] \in Jobs /\ call[w].at = "screen" /\ call[w] \in Call
          /\ UNCHANGED <<failures, failed, faults>>
      BY <2>6, Within DEF Select, At
    <3>3. c.at = "authorize" /\ c.path = a /\ c.candidates = call[w].candidates
      BY <3>2 DEF Call
    <3>4. Continue(w, c)
      BY <3>1
    <3> HIDE DEF c
    <3> QED
      BY <2>1, <3>1, <3>2, <3>3, <3>4, SpentGoesOn
  <2>7. ASSUME NEW w \in Workers, NEW l, At(w, l), l \in {"authorize", "run"}, UNCHANGED <<failures, failed, faults>>,
               NEW l2 \in {"run", "clear"}, Continue(w, [call[w] EXCEPT !.at = l2])
        PROVE SpentInv'
    <3> DEFINE c == [call[w] EXCEPT !.at = l2]
    <3>1. /\ item[w] \in Jobs /\ call[w].at = l /\ call[w] \in Call /\ call[w].path \in call[w].candidates
      BY <2>1, <2>7, Within DEF At, SpentInv
    <3>2. c.at = l2 /\ c.path = call[w].path /\ c.candidates = call[w].candidates
      BY <3>1 DEF Call
    <3>3. Continue(w, c)
      BY <2>7
    <3> HIDE DEF c
    <3> QED
      BY <2>1, <2>7, <3>1, <3>2, <3>3, SpentGoesOn
  <2>8. ASSUME NEW w \in Workers, Authorize(w) PROVE SpentInv'
    <3>1. CASE Gates(call[w].path)
      <4>1. /\ At(w, "authorize") /\ UNCHANGED <<failures, failed, faults>>
            /\ Continue(w, [call[w] EXCEPT !.at = "run"])
        BY <2>8, <3>1 DEF Authorize
      <4> QED
        BY <2>7, <4>1
    <3>2. CASE ~Gates(call[w].path)
      <4>1. Forget(w) /\ Step(w) /\ UNCHANGED <<failures, failed, faults>> /\ call[w].at = "authorize"
        BY <2>8, <3>2 DEF Authorize, Failed, Step, At
      <4> QED
        BY <2>3, <4>1
    <3> QED
      BY <3>1, <3>2
  <2>9. ASSUME NEW w \in Workers, Run(w) PROVE SpentInv'
    <3>1. CASE Continue(w, [call[w] EXCEPT !.at = "clear"]) /\ UNCHANGED failed
      <4>1. At(w, "run") /\ UNCHANGED <<failures, failed, faults>>
        BY <2>9, <3>1 DEF Run
      <4> QED
        BY <2>7, <3>1, <4>1
    <3>2. CASE /\ Continue(w, [call[w] EXCEPT !.at = "record"])
               /\ failed' = [failed EXCEPT ![item[w]][call[w].path] = @ + 1]
      <4>1. At(w, "run") /\ UNCHANGED <<failures, faults>>
        BY <2>9 DEF Run
      <4> QED
        BY <2>1, <3>2, <4>1, SpentFails
    <3> QED
      BY <2>9, <3>1, <3>2 DEF Run
  <2>10. ASSUME NEW w \in Workers, GiveUp(w) PROVE SpentInv'
    <3>1. Forget(w) /\ Step(w) /\ UNCHANGED <<failures, failed, faults>> /\ call[w].at = "screen"
      BY <2>10 DEF GiveUp, Blocked, Step, At
    <3> QED
      BY <2>3, <3>1
  <2>11. ASSUME NEW w \in Workers, Handle(w) PROVE SpentInv'
    BY <1>2, <2>1, <2>5, <2>6, <2>8, <2>9, <2>10, <2>11, SpentReads, SpentCounts DEF Handle
  <2>12. ASSUME NEW w \in Workers, Elsewhere(w), UNCHANGED govVars PROVE SpentInv'
    <3>1. Step(w) /\ call[w] = Fresh
      BY <2>12, ElsewhereKeeps DEF Elsewhere, Step
    <3>2. Forget(w) /\ UNCHANGED <<failures, failed, faults>> /\ call[w].at = "screen"
      BY <2>12, <3>1, FreshTyped DEF Forget, govVars, GovTypeOK
    <3> QED
      BY <2>3, <3>1, <3>2
  <2>13. ASSUME NEW w \in Workers, Fault(w) PROVE SpentInv'
    <3>1. Forget(w) /\ Step(w) /\ UNCHANGED <<failures, failed, incidents>> /\ faults' = faults + 1
      BY <2>13 DEF Fault, Raised, Failed, HandleFailed, Quiet, Step
    <3>2. incidents' + faults' >= incidents + faults + 1 /\ incidents' >= incidents /\ faults' >= faults
      BY <2>2, <3>1
    <3> QED
      BY <2>4, <3>1, <3>2
  <2>14. ASSUME NEW w \in Workers, Crash(w) \/ StoreFault(w), Forget(w),
                UNCHANGED <<registry, failures, failed, taken, gaveUp, faults>>
         PROVE  SpentInv'
    <3>1. incidents' = incidents + 1 /\ faults' = faults
      BY <2>14 DEF Crash, StoreFault, Incident
    <3>2. incidents' + faults' >= incidents + faults + 1 /\ incidents' >= incidents /\ faults' >= faults
      BY <2>2, <3>1
    <3> QED
      BY <2>4, <2>14, <3>2
  <2>15. CASE /\ Tick \/ (\E j \in Jobs : Enqueue(j)) \/ UNCHANGED vars
              /\ UNCHANGED <<failures, failed, call, faults>>
    <3>1. \A j \in Jobs : Line(j)' <= Line(j)
      BY <1>2, <2>1, <2>15, LineFalls
    <3>2. item' = item
      BY <2>15 DEF Tick, Enqueue, vars, locals
    <3>3. incidents' >= incidents
      <4>1. CASE Tick
        <5>1. Outliving \subseteq Workers
          BY DEF Outliving
        <5>2. Cardinality(Outliving) \in Nat
          BY <5>1, WorkersCounted
        <5>3. incidents' = incidents + Cardinality(Outliving)
          BY <4>1 DEF Tick, Incident
        <5> QED
          BY <2>2, <5>2, <5>3
      <4>2. CASE ~Tick
        <5>1. incidents' = incidents
          BY <2>15, <4>2 DEF Enqueue, vars
        <5> QED
          BY <2>2, <5>1
      <4> QED
        BY <4>1, <4>2
    <3>4. faults' >= faults
      BY <2>2, <2>15
    <3> QED
      BY <2>1, <2>15, <3>1, <3>2, <3>3, <3>4, SpentKept
  <2>16. CASE Change
    <3>1. UNCHANGED vars /\ UNCHANGED <<failures, failed, call, faults>>
      BY <2>16 DEF Change
    <3> QED
      BY <2>15, <3>1
  <2> QED
    BY <2>11, <2>12, <2>13, <2>14, <2>15, <2>16 DEF GovNext, Work, allVars, govVars
<1> QED
  BY <1>1, <1>2

\* As long as no lease is outlived, a path that keeps failing for an event is
\* tried max_failures_per_path times, and as often again at most for each death
\* or raised store call: no interleaving of processes adds to that.
THEOREM FailingPathsLeft == GovSpec => []FailingPathsAreLeft
<1>1. GovInit => SpentInv
  <2> SUFFICES ASSUME GovInit PROVE SpentInv
    OBVIOUS
  <2>1. /\ \A w \in Workers : call[w].at = "screen" /\ call[w].candidates = {} /\ item[w] = None
        /\ \A j \in Jobs, a \in Paths : failures[j][a] = 0 /\ failed[j][a] = 0
        /\ incidents = 0 /\ faults = 0
    BY DEF GovInit, Init, Fresh
  <2>2. Budget = MaxFailures /\ MaxFailures \in Nat
    <3>1. Budget = MaxFailures * (1 + 0 + 0) /\ MaxFailures \in Nat
      BY <2>1, GovernorAssumption DEF Budget
    <3> QED
      BY <3>1
  <2>3. ASSUME NEW j \in Jobs, NEW a \in Paths PROVE Spending(j, a)
    <3>1. Owed(j, a) = 0
      BY <2>1 DEF Owed, Counting
    <3>2. Line(j) = 1
      BY <2>3 DEF GovInit, Init, QueueInit, Line, Settled
    <3>3. Remaining(j, a) = MaxFailures
      BY <2>1, <2>2, <3>1, <3>2 DEF Remaining
    <3> QED
      BY <2>1, <2>2, <3>1, <3>3 DEF Spending
  <2>4. \A j \in Jobs, a \in Paths, w \in Workers : Trying(w, j, a)
    BY <2>1 DEF Trying
  <2> QED
    BY <2>1, <2>3, <2>4 DEF SpentInv
<1>2. GovSpec => [](HeldInv /\ ClaimInv)
  BY GovernorImplementsWorker, HeldAlways, ClaimAlways, PTL DEF ImplementsWorker
<1>3. TypeOK /\ ItemInv /\ GovTypeOK /\ CallInv /\ HeldInv /\ ClaimInv /\ SpentInv
        /\ [GovNext]_allVars /\ TypeOK' /\ GovTypeOK' => SpentInv'
  BY SpentStep
<1>4. GovTypeOK /\ TypeOK /\ SpentInv => FailingPathsAreLeft
  <2> SUFFICES ASSUME GovTypeOK, TypeOK, SpentInv, ~outlived, NEW j \in Jobs, NEW a \in Paths
               PROVE  failed[j][a] <= MaxFailures * (1 + incidents + faults)
    BY DEF FailingPathsAreLeft
  <2>1. Spending(j, a)
    BY DEF SpentInv
  <2>2. failed[j][a] \in Nat /\ failures[j][a] \in Nat /\ MaxFailures \in Nat /\ Owed(j, a) \in {0, 1}
    BY GovernorAssumption DEF GovTypeOK, Owed
  <2>3. Remaining(j, a) \in Nat
    BY <2>1, <2>2 DEF Remaining, Spending
  <2>4. Budget \in Nat
    <3>1. 1 + incidents + faults \in Nat
      BY DEF TypeOK, GovTypeOK
    <3> QED
      BY <2>2, <3>1, Multiples DEF Budget
  <2>5. failed[j][a] <= Budget
    BY <2>1, <2>2, <2>3, <2>4 DEF Spending
  <2> QED
    BY <2>5 DEF Budget
<1> QED
  BY <1>1, <1>2, <1>3, <1>4, GovernedTypes, GovernorTypeCorrect, PTL DEF GovSpec
=============================================================================
