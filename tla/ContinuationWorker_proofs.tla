----------------------- MODULE ContinuationWorker_proofs -----------------------
(***************************************************************************)
(* Proofs about ContinuationWorker, for any finite set of jobs and of       *)
(* processes, any worker ids (shared or not), any lease, backoff and number *)
(* of attempts, and any bound on the incidents.                             *)
(***************************************************************************)
EXTENDS ContinuationWorker, FiniteSetTheorems, TLAPS

(* The queue's transactions keep the types of its rows *)

LEMMA InsertKeepsTypes ==
    ASSUME QueueTypeOK, NEW j \in Jobs, Insert(j)
    PROVE  QueueTypeOK'
<1>1. Cardinality(Present) \in Nat
  <2>1. IsFiniteSet(Present)
    BY QueueAssumption, FS_Subset DEF Present
  <2> QED
    BY <2>1, FS_CardinalityType
<1>2. Cardinality(Present) + 1 \in Nat
  BY <1>1
<1> QED
  BY <1>2 DEF Insert, QueueTypeOK, Status, queue

LEMMA RecoverKeepsTypes ==
    ASSUME QueueTypeOK, Recover
    PROVE  QueueTypeOK'
BY DEF Recover, QueueTypeOK, Status

LEMMA LeaseKeepsTypes ==
    ASSUME QueueTypeOK, NEW j \in Jobs, NEW o \in Owners, Lease(j, o)
    PROVE  QueueTypeOK'
<1>1. lease' \in [Jobs -> 0..LeaseTime]
  BY QueueAssumption DEF Lease, QueueTypeOK
<1> QED
  BY <1>1 DEF Lease, QueueTypeOK, Status

LEMMA CompleteKeepsTypes ==
    ASSUME QueueTypeOK, NEW j, NEW o, Complete(j, o)
    PROVE  QueueTypeOK'
<1>1. status' \in [Jobs -> Status]
  <2>1. "completed" \in Status
    BY DEF Status
  <2> QED
    BY <2>1 DEF Complete, QueueTypeOK
<1>2. owner' \in [Jobs -> Owners \union {None}] /\ lease' \in [Jobs -> 0..LeaseTime]
  <2>1. 0 \in 0..LeaseTime
    BY QueueAssumption
  <2>2. owner' \in [Jobs -> Owners \union {None}]
    BY DEF Complete, QueueTypeOK
  <2>3. lease' \in [Jobs -> 0..LeaseTime]
    BY <2>1 DEF Complete, QueueTypeOK
  <2> QED
    BY <2>2, <2>3
<1> QED
  BY <1>1, <1>2 DEF Complete, QueueTypeOK

LEMMA FailUpdateKeepsTypes ==
    ASSUME QueueTypeOK, NEW j, NEW verdict \in {"pending", "dead"}, FailUpdate(j, verdict)
    PROVE  QueueTypeOK'
<1>1. delay' \in [Jobs -> Nat]
  BY QueueAssumption DEF FailUpdate, QueueTypeOK
<1>2. status' \in [Jobs -> Status]
  <2>1. verdict \in Status
    BY DEF Status
  <2> QED
    BY <2>1 DEF FailUpdate, QueueTypeOK
<1>3. owner' \in [Jobs -> Owners \union {None}] /\ lease' \in [Jobs -> 0..LeaseTime]
  <2>1. 0 \in 0..LeaseTime
    BY QueueAssumption
  <2>2. owner' \in [Jobs -> Owners \union {None}]
    BY DEF FailUpdate, QueueTypeOK
  <2>3. lease' \in [Jobs -> 0..LeaseTime]
    BY <2>1 DEF FailUpdate, QueueTypeOK
  <2> QED
    BY <2>2, <2>3
<1> QED
  BY <1>1, <1>2, <1>3 DEF FailUpdate, QueueTypeOK

LEMMA ElapseKeepsTypes ==
    ASSUME QueueTypeOK, Elapse
    PROVE  QueueTypeOK'
<1>1. \A j \in Jobs : Less(lease[j]) \in 0..LeaseTime /\ Less(delay[j]) \in Nat
  BY QueueAssumption DEF QueueTypeOK, Less
<1> QED
  BY <1>1 DEF Elapse, QueueTypeOK

-----------------------------------------------------------------------------
(* Type correctness *)

LEMMA TypeStep ==
    ASSUME TypeOK, ItemInv, [Next]_vars
    PROVE  TypeOK' /\ ItemInv'
<1> USE DEF TypeOK, Control
<1> USE DEF locals, history, Goto, Return, Release, Quiet
<1>1. ASSUME NEW j \in Jobs, Enqueue(j) PROVE TypeOK' /\ ItemInv'
  <2>1. QueueTypeOK'
    BY <1>1, InsertKeepsTypes DEF Enqueue
  <2> QED
    BY <1>1, <2>1 DEF Enqueue, ItemInv
<1>2. ASSUME NEW w \in Workers, RecoverExpired(w) PROVE TypeOK' /\ ItemInv'
  <2>1. QueueTypeOK'
    BY <1>2, RecoverKeepsTypes DEF RecoverExpired
  <2> QED
    BY <1>2, <2>1 DEF RecoverExpired, ItemInv, Polling
<1>3. ASSUME NEW w \in Workers, ClaimJob(w) PROVE TypeOK' /\ ItemInv'
  <2>1. PICK j \in Jobs : /\ Lease(j, workerId[w])
                          /\ item' = [item EXCEPT ![w] = j]
                          /\ holder' = [holder EXCEPT ![j] = w]
    BY <1>3 DEF ClaimJob
  <2>2. QueueTypeOK'
    BY <2>1, LeaseKeepsTypes
  <2> QED
    BY <1>3, <2>1, <2>2, WorkerAssumption DEF ClaimJob, ItemInv, Polling
<1>4. ASSUME NEW w \in Workers, ClaimNothing(w) PROVE TypeOK' /\ ItemInv'
  BY <1>4 DEF ClaimNothing, ItemInv, Polling, queue, QueueTypeOK
<1>5. ASSUME NEW w \in Workers, HandleDuplicate(w) PROVE TypeOK' /\ ItemInv'
  <2>1. QueueTypeOK' /\ item[w] \in Jobs
    BY <1>5 DEF HandleDuplicate, queue, QueueTypeOK, ItemInv, Polling
  <2> QED
    BY <1>5, <2>1 DEF HandleDuplicate, ItemInv, Polling
<1>6. ASSUME NEW w \in Workers, HandleDecided(w) PROVE TypeOK' /\ ItemInv'
  <2>1. QueueTypeOK' /\ item[w] \in Jobs
    BY <1>6 DEF HandleDecided, queue, QueueTypeOK, ItemInv, Polling
  <2>2. processed' \in [Workers -> SUBSET Jobs]
    BY <1>6, <2>1 DEF HandleDecided, Decide
  <2> QED
    BY <1>6, <2>1, <2>2 DEF HandleDecided, Decide, ItemInv, Polling
<1>7. ASSUME NEW w \in Workers, HandleFailed(w) PROVE TypeOK' /\ ItemInv'
  <2>1. QueueTypeOK'
    BY <1>7 DEF HandleFailed, queue, QueueTypeOK
  <2> QED
    BY <1>7, <2>1 DEF HandleFailed, FailureLabel, ItemInv, Polling
<1>8. ASSUME NEW w \in Workers, CompleteItem(w) PROVE TypeOK' /\ ItemInv'
  <2>1. QueueTypeOK'
    BY <1>8, CompleteKeepsTypes DEF CompleteItem
  <2> QED
    BY <1>8, <2>1 DEF CompleteItem, ItemInv, Polling
<1>9. ASSUME NEW w \in Workers, LoseLease(w) PROVE TypeOK' /\ ItemInv'
  BY <1>9 DEF LoseLease, queue, QueueTypeOK, ItemInv, Polling
<1>10. ASSUME NEW w \in Workers, FailSelect(w) PROVE TypeOK' /\ ItemInv'
  <2>1. QueueTypeOK' /\ Verdict(item[w]) \in {"pending", "dead"}
    BY <1>10 DEF FailSelect, queue, QueueTypeOK, Verdict
  <2> QED
    BY <1>10, <2>1 DEF FailSelect, ItemInv, Polling
<1>11. ASSUME NEW w \in Workers, FailNotOwned(w) PROVE TypeOK' /\ ItemInv'
  BY <1>11 DEF FailNotOwned, queue, QueueTypeOK, ItemInv, Polling
<1>12. ASSUME NEW w \in Workers, FailItem(w) PROVE TypeOK' /\ ItemInv'
  <2>1. QueueTypeOK'
    BY <1>12, FailUpdateKeepsTypes DEF FailItem
  <2> QED
    BY <1>12, <2>1 DEF FailItem, ItemInv, Polling
<1>13. ASSUME NEW w \in Workers, Crash(w) PROVE TypeOK' /\ ItemInv'
  <2>1. QueueTypeOK'
    BY <1>13 DEF Crash, Die, queue, QueueTypeOK
  <2>2. incidents' \in Nat /\ holder' \in [Jobs -> Workers \union {None}]
    BY <1>13 DEF Crash, Die, Incident
  <2>3. processed' \in [Workers -> SUBSET Jobs]
    BY <1>13 DEF Crash, Die
  <2>4. ItemInv'
    BY <1>13 DEF Crash, Die, ItemInv, Polling
  <2> QED
    BY <1>13, <2>1, <2>2, <2>3, <2>4 DEF Crash, Die
<1>14. ASSUME NEW w \in Workers, StoreFault(w) PROVE TypeOK' /\ ItemInv'
  <2>1. QueueTypeOK'
    BY <1>14 DEF StoreFault, Die, queue, QueueTypeOK
  <2>2. incidents' \in Nat /\ holder' \in [Jobs -> Workers \union {None}]
    BY <1>14 DEF StoreFault, Die, Incident
  <2>3. processed' \in [Workers -> SUBSET Jobs]
    BY <1>14 DEF StoreFault, Die
  <2>4. ItemInv'
    BY <1>14 DEF StoreFault, Guarded, Die, ItemInv, Polling
  <2> QED
    BY <1>14, <2>1, <2>2, <2>3, <2>4 DEF StoreFault, Die
<1>15. ASSUME Tick PROVE TypeOK' /\ ItemInv'
  <2>1. QueueTypeOK'
    BY <1>15, ElapseKeepsTypes DEF Tick
  <2>2. Cardinality(Outliving) \in Nat
    <3>1. IsFiniteSet(Outliving)
      BY WorkerAssumption, FS_Subset DEF Outliving
    <3> QED
      BY <3>1, FS_CardinalityType
  <2>3. incidents' \in Nat
    BY <1>15, <2>2 DEF Tick, Incident
  <2>4. outlived' \in BOOLEAN
    BY <1>15, Zenon DEF Tick
  <2> QED
    BY <1>15, <2>1, <2>3, <2>4 DEF Tick, ItemInv
<1>16. CASE UNCHANGED vars
  BY <1>16 DEF vars, queue, QueueTypeOK, ItemInv
<1> QED
  BY <1>1, <1>2, <1>3, <1>4, <1>5, <1>6, <1>7, <1>8, <1>9, <1>10, <1>11,
     <1>12, <1>13, <1>14, <1>15, <1>16 DEF Next, Step

\* The variables keep their types, and run_once has an item exactly from its
\* claim to its return.
THEOREM TypeCorrect == Spec => [](TypeOK /\ ItemInv)
<1> USE DEF TypeOK, Control
<1>1. Init => TypeOK /\ ItemInv
  <2>1. QueueInit => QueueTypeOK
    BY QueueAssumption DEF QueueInit, QueueTypeOK, Status
  <2>2. Init => TypeOK
    <3> SUFFICES ASSUME Init PROVE TypeOK
      OBVIOUS
    <3>1. pc \in [Workers -> Control] /\ item \in [Workers -> Jobs \union {None}]
      BY DEF Init
    <3>2. decided \in [Workers -> {"pending", "dead"}] /\ caught \in [Workers -> BOOLEAN]
      BY DEF Init
    <3>3. processed \in [Workers -> SUBSET Jobs] /\ handled \subseteq Jobs
      BY DEF Init
    <3>4. holder \in [Jobs -> Workers \union {None}] /\ effects \in [Jobs -> Nat]
      BY DEF Init
    <3> QED
      BY <2>1, <3>1, <3>2, <3>3, <3>4 DEF Init
  <2>3. Init => ItemInv
    BY DEF Init, ItemInv, Polling
  <2> QED
    BY <2>2, <2>3
<1>2. TypeOK /\ ItemInv /\ [Next]_vars => TypeOK' /\ ItemInv'
  BY TypeStep
<1> QED
  BY <1>1, <1>2, PTL DEF Spec

-----------------------------------------------------------------------------
(* Completion *)

LEMMA HandledStep ==
    ASSUME TypeOK, ItemInv, HandledInv, [Next]_vars
    PROVE  HandledInv'
<1> USE DEF HandledInv, CompletedWasHandled, Goto, Return, Quiet, locals, history
<1> \A w \in Workers : pc[w] \notin Polling => item[w] \in Jobs
  BY DEF TypeOK, ItemInv
<1>1. ASSUME NEW j \in Jobs, Enqueue(j) PROVE HandledInv'
  BY <1>1 DEF Enqueue, Insert, queue, TypeOK, QueueTypeOK
<1>2. ASSUME NEW w \in Workers, RecoverExpired(w) PROVE HandledInv'
  BY <1>2 DEF RecoverExpired, Recover, TypeOK, QueueTypeOK
<1>3. ASSUME NEW w \in Workers, ClaimJob(w) PROVE HandledInv'
  BY <1>3 DEF ClaimJob, Lease, TypeOK, QueueTypeOK
<1>4. ASSUME NEW w \in Workers, ClaimNothing(w) PROVE HandledInv'
  BY <1>4 DEF ClaimNothing, queue, TypeOK
<1>5. ASSUME NEW w \in Workers, HandleDuplicate(w) PROVE HandledInv'
  BY <1>5 DEF HandleDuplicate, queue, TypeOK
<1>6. ASSUME NEW w \in Workers, HandleDecided(w) PROVE HandledInv'
  BY <1>6 DEF HandleDecided, Decide, queue, TypeOK
<1>7. ASSUME NEW w \in Workers, HandleFailed(w) PROVE HandledInv'
  BY <1>7 DEF HandleFailed, FailureLabel, queue, TypeOK
<1>8. ASSUME NEW w \in Workers, CompleteItem(w) PROVE HandledInv'
  BY <1>8 DEF CompleteItem, Complete, TypeOK, QueueTypeOK
<1>9. ASSUME NEW w \in Workers, LoseLease(w) PROVE HandledInv'
  BY <1>9 DEF LoseLease, queue, TypeOK
<1>10. ASSUME NEW w \in Workers, FailSelect(w) PROVE HandledInv'
  BY <1>10 DEF FailSelect, queue, TypeOK
<1>11. ASSUME NEW w \in Workers, FailNotOwned(w) PROVE HandledInv'
  BY <1>11 DEF FailNotOwned, queue, TypeOK
<1>12. ASSUME NEW w \in Workers, FailItem(w) PROVE HandledInv'
  BY <1>12 DEF FailItem, FailUpdate, TypeOK, QueueTypeOK
<1>13. ASSUME NEW w \in Workers, Crash(w) PROVE HandledInv'
  BY <1>13 DEF Crash, Die, queue, TypeOK
<1>14. ASSUME NEW w \in Workers, StoreFault(w) PROVE HandledInv'
  BY <1>14 DEF StoreFault, Guarded, Die, queue, TypeOK
<1>15. ASSUME Tick PROVE HandledInv'
  BY <1>15 DEF Tick, Elapse
<1>16. CASE UNCHANGED vars
  BY <1>16 DEF vars, queue
<1> QED
  BY <1>1, <1>2, <1>3, <1>4, <1>5, <1>6, <1>7, <1>8, <1>9, <1>10, <1>11, <1>12,
     <1>13, <1>14, <1>15, <1>16 DEF Next, Step

\* Only a job some process reached a decision on is ever completed.
THEOREM CompletionsWereHandled == Spec => []CompletedWasHandled
<1>1. Init => HandledInv
  BY DEF Init, QueueInit, HandledInv, CompletedWasHandled
<1>2. TypeOK /\ ItemInv /\ HandledInv /\ [Next]_vars => HandledInv'
  BY HandledStep
<1>3. HandledInv => CompletedWasHandled
  BY DEF HandledInv
<1> QED
  BY <1>1, <1>2, <1>3, TypeCorrect, PTL DEF Spec

-----------------------------------------------------------------------------
(* Dead letters *)

\* No step takes back an attempt.
LEMMA AttemptsGrow ==
    ASSUME TypeOK, [Next]_vars, NEW j \in Jobs
    PROVE  attempts'[j] >= attempts[j]
<1> USE DEF TypeOK, QueueTypeOK, queue
<1>1. ASSUME NEW k \in Jobs, Enqueue(k) PROVE attempts' = attempts
  BY <1>1 DEF Enqueue, Insert
<1>2. ASSUME NEW w \in Workers, ClaimJob(w) PROVE attempts'[j] >= attempts[j]
  <2>1. PICK k \in Jobs : Lease(k, workerId[w])
    BY <1>2 DEF ClaimJob
  <2> QED
    BY <2>1 DEF Lease
<1>3. ASSUME NEW w \in Workers, Step(w), ~ClaimJob(w) PROVE attempts' = attempts
  BY <1>3 DEF Step, RecoverExpired, Recover, ClaimNothing, HandleDuplicate, HandleDecided,
     HandleFailed, CompleteItem, Complete, LoseLease, FailSelect, FailNotOwned, FailItem, FailUpdate
<1>4. ASSUME NEW w \in Workers, Crash(w) \/ StoreFault(w) PROVE attempts' = attempts
  BY <1>4 DEF Crash, StoreFault, Die
<1>5. CASE Tick
  BY <1>5 DEF Tick, Elapse
<1>6. CASE UNCHANGED vars
  BY <1>6 DEF vars
<1> QED
  BY <1>1, <1>2, <1>3, <1>4, <1>5, <1>6 DEF Next

\* A dead row was dead, or fails for good now; a dead-letter verdict was in
\* hand, or is read now from a row whose attempts are exhausted.
LEMMA DeadFromVerdict ==
    ASSUME TypeOK, ItemInv, [Next]_vars
    PROVE  /\ \A j \in Jobs : status'[j] = "dead" =>
                \/ status[j] = "dead"
                \/ \E w \in Workers : /\ pc[w] = "fail_update"
                                      /\ item[w] = j /\ decided[w] = "dead"
           /\ \A w \in Workers : pc'[w] = "fail_update" /\ decided'[w] = "dead" =>
                /\ item'[w] = item[w]
                /\ \/ pc[w] = "fail_update" /\ decided[w] = "dead"
                   \/ attempts[item[w]] >= MaxAttempts
<1> DEFINE Goal == /\ \A j \in Jobs : status'[j] = "dead" =>
                        \/ status[j] = "dead"
                        \/ \E w \in Workers : /\ pc[w] = "fail_update"
                                              /\ item[w] = j /\ decided[w] = "dead"
                   /\ \A w \in Workers : pc'[w] = "fail_update" /\ decided'[w] = "dead" =>
                        /\ item'[w] = item[w]
                        /\ \/ pc[w] = "fail_update" /\ decided[w] = "dead"
                           \/ attempts[item[w]] >= MaxAttempts
<1> USE DEF TypeOK, QueueTypeOK, queue, Goto, Return, Quiet, locals, history
<1>1. ASSUME NEW j \in Jobs, Enqueue(j) PROVE Goal
  BY <1>1 DEF Enqueue, Insert
<1>2. ASSUME NEW w \in Workers, RecoverExpired(w) PROVE Goal
  BY <1>2 DEF RecoverExpired, Recover
<1>3. ASSUME NEW w \in Workers, ClaimJob(w) PROVE Goal
  BY <1>3 DEF ClaimJob, Lease
<1>4. ASSUME NEW w \in Workers, ClaimNothing(w) PROVE Goal
  BY <1>4 DEF ClaimNothing
<1>5. ASSUME NEW w \in Workers, HandleDuplicate(w) \/ HandleDecided(w) \/ HandleFailed(w)
      PROVE Goal
  BY <1>5 DEF HandleDuplicate, HandleDecided, HandleFailed, FailureLabel
<1>6. ASSUME NEW w \in Workers, CompleteItem(w) PROVE Goal
  BY <1>6 DEF CompleteItem, Complete
<1>7. ASSUME NEW w \in Workers, LoseLease(w) PROVE Goal
  BY <1>7 DEF LoseLease
<1>8. ASSUME NEW w \in Workers, FailSelect(w) PROVE Goal
  BY <1>8 DEF FailSelect, Verdict
<1>9. ASSUME NEW w \in Workers, FailNotOwned(w) PROVE Goal
  BY <1>9 DEF FailNotOwned
<1>10. ASSUME NEW w \in Workers, FailItem(w) PROVE Goal
  BY <1>10 DEF FailItem, FailUpdate
<1>11. ASSUME NEW w \in Workers, Crash(w) \/ StoreFault(w) PROVE Goal
  BY <1>11 DEF Crash, StoreFault, Guarded, Die
<1>12. CASE Tick
  BY <1>12 DEF Tick, Elapse
<1>13. CASE UNCHANGED vars
  BY <1>13 DEF vars
<1> QED
  BY <1>1, <1>2, <1>3, <1>4, <1>5, <1>6, <1>7, <1>8, <1>9, <1>10, <1>11, <1>12,
     <1>13 DEF Next, Step

\* No event is dead-lettered before it was claimed max_attempts times, however
\* failures, recoveries and claims interleave.
THEOREM DeadLettersExhausted == Spec => []DeadMeansExhausted
<1>1. Init => ExhaustedInv
  BY DEF Init, QueueInit, ExhaustedInv, DeadMeansExhausted
<1>2. TypeOK /\ ItemInv /\ ExhaustedInv /\ [Next]_vars => ExhaustedInv'
  <2> SUFFICES ASSUME TypeOK, ItemInv, ExhaustedInv, [Next]_vars PROVE ExhaustedInv'
    OBVIOUS
  <2>1. \A j \in Jobs : attempts[j] >= MaxAttempts => attempts'[j] >= MaxAttempts
    <3>1. TypeOK'
      BY TypeStep
    <3>2. \A j \in Jobs : attempts[j] \in Nat /\ attempts'[j] \in Nat
      BY <3>1 DEF TypeOK, QueueTypeOK
    <3> QED
      BY <3>2, AttemptsGrow, QueueAssumption
  <2>2. \A w \in Workers : pc'[w] = "fail_update" => item'[w] \in Jobs
    BY TypeStep DEF TypeOK, ItemInv, Polling
  <2> QED
    BY <2>1, <2>2, DeadFromVerdict DEF ExhaustedInv, DeadMeansExhausted
<1>3. ExhaustedInv => DeadMeansExhausted
  BY DEF ExhaustedInv
<1> QED
  BY <1>1, <1>2, <1>3, TypeCorrect, PTL DEF Spec

-----------------------------------------------------------------------------
(* Leases, as long as no process outlives one *)

\* The items in hand are distinct leased rows.
LEMMA HeldDistinct ==
    ASSUME TypeOK, HeldInv, ~outlived, NEW v \in Workers, NEW w \in Workers,
           v # w, item[v] # None
    PROVE  item[v] # item[w]
BY DEF HeldInv

LEMMA HeldStep ==
    ASSUME TypeOK, ItemInv, HeldInv, [Next]_vars
    PROVE  HeldInv'
<1> SUFFICES ASSUME ~outlived', NEW v \in Workers, item'[v] # None
             PROVE  /\ holder'[item'[v]] = v
                    /\ status'[item'[v]] = "leased"
                    /\ owner'[item'[v]] = workerId'[v]
                    /\ lease'[item'[v]] > 0
  BY DEF HeldInv, Owned
<1> DEFINE Goal == /\ holder'[item'[v]] = v
                   /\ status'[item'[v]] = "leased"
                   /\ owner'[item'[v]] = workerId'[v]
                   /\ lease'[item'[v]] > 0
<1> USE DEF Owned, Goto, Return, Release, Quiet, locals, history
<1>0. item[v] # None /\ ~outlived =>
        item[v] \in Jobs /\ holder[item[v]] = v /\ Owned(item[v], workerId[v]) /\ lease[item[v]] > 0
  BY DEF HeldInv, TypeOK
<1>1. ASSUME NEW j \in Jobs, Enqueue(j) PROVE Goal
  BY <1>1, <1>0 DEF Enqueue, Insert, queue, TypeOK, QueueTypeOK
<1>2. ASSUME NEW w \in Workers, RecoverExpired(w) PROVE Goal
  BY <1>2, <1>0 DEF RecoverExpired, Recover, Expired, TypeOK, QueueTypeOK
<1>3. ASSUME NEW w \in Workers, ClaimJob(w) PROVE Goal
  <2>1. PICK j \in Jobs : /\ Oldest(j) /\ Lease(j, workerId[w])
                          /\ item' = [item EXCEPT ![w] = j]
                          /\ holder' = [holder EXCEPT ![j] = w]
    BY <1>3 DEF ClaimJob
  <2>2. status[j] = "pending"
    BY <2>1 DEF Oldest, Claimable
  <2>3. workerId' = workerId /\ outlived' = outlived
    BY <1>3 DEF ClaimJob
  <2>4. CASE v = w
    BY <2>1, <2>3, <2>4, QueueAssumption DEF Lease, TypeOK, QueueTypeOK
  <2>5. CASE v # w
    <3>1. item'[v] = item[v] /\ item[v] # j
      BY <2>1, <2>2, <2>3, <2>5, <1>0 DEF TypeOK
    <3> QED
      BY <2>1, <2>3, <3>1, <1>0 DEF Lease, TypeOK, QueueTypeOK
  <2> QED
    BY <2>4, <2>5
<1>4. ASSUME NEW w \in Workers, ClaimNothing(w) PROVE Goal
  BY <1>4, <1>0 DEF ClaimNothing, queue, TypeOK
<1>5. ASSUME NEW w \in Workers, HandleDuplicate(w) \/ HandleDecided(w) \/ HandleFailed(w)
      PROVE Goal
  BY <1>5, <1>0 DEF HandleDuplicate, HandleDecided, HandleFailed, queue
<1>6. ASSUME NEW w \in Workers, CompleteItem(w) \/ FailItem(w) PROVE Goal
  <2>1. workerId' = workerId /\ outlived' = outlived
    BY <1>6 DEF CompleteItem, FailItem
  <2>2. v # w /\ item'[v] = item[v]
    BY <1>6 DEF CompleteItem, FailItem, TypeOK
  <2>3. item[v] # item[w]
    BY <2>1, <2>2, HeldDistinct
  <2> QED
    BY <1>6, <1>0, <2>1, <2>2, <2>3
    DEF CompleteItem, Complete, FailItem, FailUpdate, TypeOK, QueueTypeOK
<1>7. ASSUME NEW w \in Workers, LoseLease(w) \/ FailSelect(w) \/ FailNotOwned(w) PROVE Goal
  BY <1>7, <1>0 DEF LoseLease, FailSelect, FailNotOwned, queue, TypeOK
<1>8. ASSUME NEW w \in Workers, Crash(w) PROVE Goal
  BY <1>8, <1>0 DEF Crash, Die, queue, TypeOK
<1>9. ASSUME NEW w \in Workers, StoreFault(w) PROVE Goal
  BY <1>9, <1>0 DEF StoreFault, Die, queue, TypeOK
<1>10. CASE Tick
  <2>1. item' = item /\ holder' = holder /\ workerId' = workerId /\ ~outlived /\ Outliving = {}
    BY <1>10 DEF Tick
  <2>2. lease[item[v]] # 1 /\ lease[item[v]] \in Nat
    BY <2>1, <1>0 DEF Outliving, Holding, TypeOK, QueueTypeOK
  <2>3. lease'[item[v]] = Less(lease[item[v]]) /\ status' = status /\ owner' = owner
    BY <1>10, <2>1, <1>0 DEF Tick, Elapse
  <2> QED
    BY <2>1, <2>2, <2>3, <1>0 DEF Less
<1>11. CASE UNCHANGED vars
  BY <1>11, <1>0 DEF vars, queue
<1> QED
  BY <1>1, <1>2, <1>3, <1>4, <1>5, <1>6, <1>7, <1>8, <1>9, <1>10, <1>11 DEF Next, Step

LEMMA HeldAlways == Spec => []HeldInv
<1>1. Init => HeldInv
  BY DEF Init, HeldInv
<1>2. TypeOK /\ ItemInv /\ HeldInv /\ [Next]_vars => HeldInv'
  BY HeldStep
<1> QED
  BY <1>1, <1>2, TypeCorrect, PTL DEF Spec

\* As long as no process has outlived its lease, no two processes work on the
\* same event, though processes die, store calls raise and worker ids are shared.
THEOREM NoConcurrentHandling == Spec => []LeaseExclusive
<1>1. TypeOK /\ HeldInv => LeaseExclusive
  BY HeldDistinct DEF LeaseExclusive
<1> QED
  BY <1>1, HeldAlways, TypeCorrect, PTL

LEMMA SettledStep ==
    ASSUME TypeOK, ItemInv, HeldInv, [Next]_vars, NEW j \in Jobs, ~outlived', status[j] \in Settled
    PROVE  status'[j] = status[j]
<1> USE DEF Settled, TypeOK, QueueTypeOK, queue
<1>1. ASSUME NEW k \in Jobs, Enqueue(k) PROVE status'[j] = status[j]
  BY <1>1 DEF Enqueue, Insert
<1>2. ASSUME NEW w \in Workers, RecoverExpired(w) PROVE status'[j] = status[j]
  BY <1>2 DEF RecoverExpired, Recover, Expired
<1>3. ASSUME NEW w \in Workers, ClaimJob(w) PROVE status'[j] = status[j]
  BY <1>3 DEF ClaimJob, Oldest, Claimable, Lease
<1>4. ASSUME NEW w \in Workers, CompleteItem(w) PROVE status'[j] = status[j]
  BY <1>4 DEF CompleteItem, Complete, Owned
<1>5. ASSUME NEW w \in Workers, FailItem(w) PROVE status'[j] = status[j]
  <2>1. pc[w] = "fail_update" /\ FailUpdate(item[w], decided[w]) /\ ~outlived
    BY <1>5 DEF FailItem, Quiet
  <2>2. item[w] # None
    BY <2>1 DEF ItemInv, Polling
  <2>3. status[item[w]] = "leased"
    BY <2>1, <2>2 DEF HeldInv, Owned
  <2> QED
    BY <2>1, <2>3 DEF FailUpdate
<1>6. ASSUME NEW w \in Workers, Step(w), ~RecoverExpired(w), ~ClaimJob(w),
             ~CompleteItem(w), ~FailItem(w)
      PROVE status'[j] = status[j]
  BY <1>6 DEF Step, ClaimNothing, HandleDuplicate, HandleDecided, HandleFailed,
     LoseLease, FailSelect, FailNotOwned
<1>7. ASSUME NEW w \in Workers, Crash(w) \/ StoreFault(w) PROVE status'[j] = status[j]
  BY <1>7 DEF Crash, StoreFault, Die
<1>8. CASE Tick
  BY <1>8 DEF Tick, Elapse
<1>9. CASE UNCHANGED vars
  BY <1>9 DEF vars
<1> QED
  BY <1>1, <1>2, <1>3, <1>4, <1>5, <1>6, <1>7, <1>8, <1>9 DEF Next

\* As long as no process has outlived its lease, a completed or dead-lettered
\* job keeps its status for ever.
THEOREM SettledJobsStaySettled == Spec => SettledIsFinal
<1> DEFINE Final == \A j \in Jobs : ~outlived' /\ status[j] \in Settled => status'[j] = status[j]
<1>1. TypeOK /\ ItemInv /\ HeldInv /\ [Next]_vars => [Final]_vars
  BY SettledStep
<1> QED
  BY <1>1, HeldAlways, TypeCorrect, PTL DEF Spec, SettledIsFinal

-----------------------------------------------------------------------------
(* Repeated effects *)

\* What a step of run_once leaves alone of the other processes.
LEMMA OthersRest ==
    ASSUME TypeOK, NEW w \in Workers, Step(w) \/ Crash(w) \/ StoreFault(w), NEW u \in Workers, u # w
    PROVE  item'[u] = item[u] /\ pc'[u] = pc[u] /\ processed'[u] = processed[u]
<1> USE DEF TypeOK, Goto, Return, locals
<1>1. CASE Step(w)
  BY <1>1 DEF Step, RecoverExpired, ClaimJob, ClaimNothing, HandleDuplicate, HandleDecided, Decide, HandleFailed,
     CompleteItem, LoseLease, FailSelect, FailNotOwned, FailItem
<1>2. CASE Crash(w) \/ StoreFault(w)
  BY <1>2 DEF Crash, StoreFault, Die
<1> QED
  BY <1>1, <1>2

\* The worker ids are configured once, and an outlived lease is not forgotten.
LEMMA ConfiguredOnce ==
    ASSUME TypeOK, [Next]_vars
    PROVE  workerId' = workerId /\ (outlived => outlived')
<1>1. CASE \E j \in Jobs : Enqueue(j)
  BY <1>1 DEF Enqueue
<1>2. CASE \E w \in Workers : Step(w)
  BY <1>2 DEF Step, RecoverExpired, ClaimJob, ClaimNothing, HandleDuplicate, HandleDecided, Decide, HandleFailed,
     CompleteItem, LoseLease, FailSelect, FailNotOwned, FailItem, Quiet
<1>3. CASE \E w \in Workers : Crash(w) \/ StoreFault(w)
  BY <1>3 DEF Crash, StoreFault, Die
<1>4. CASE Tick \/ UNCHANGED vars
  <2>1. workerId' = workerId
    BY <1>4 DEF Tick, vars
  <2>2. CASE Tick
    <3>1. outlived' = (outlived \/ Outliving # {})
      BY <2>2 DEF Tick
    <3>2. outlived => outlived'
      BY <3>1
    <3> QED
      BY <2>1, <3>2
  <2>3. CASE UNCHANGED vars
    BY <2>3 DEF vars
  <2> QED
    BY <1>4, <2>2, <2>3
<1> QED
  BY <1>1, <1>2, <1>3, <1>4 DEF Next

LEMMA ClaimStep == TypeOK /\ ItemInv /\ ClaimInv /\ [Next]_vars => ClaimInv'
<1> SUFFICES ASSUME TypeOK, ItemInv, ClaimInv, [Next]_vars PROVE ClaimInv'
  OBVIOUS
<1> DEFINE Standing == \A j \in Jobs : holder'[j] # None =>
                         /\ item'[holder'[j]] = j
                         /\ status'[j] = "leased" /\ owner'[j] = workerId[holder'[j]]
           Own == Distinct => \A w \in Workers :
                         item'[w] # None /\ status'[item'[w]] = "leased" /\ owner'[item'[w]] = workerId[w]
                         => holder'[item'[w]] = w
<1>0. /\ \A j \in Jobs : holder[j] # None =>
           /\ holder[j] \in Workers /\ item[holder[j]] = j
           /\ status[j] = "leased" /\ owner[j] = workerId[holder[j]]
           /\ pc[holder[j]] \notin Polling
      /\ Distinct => \A w \in Workers :
           item[w] # None /\ status[item[w]] = "leased" /\ owner[item[w]] = workerId[w] => holder[item[w]] = w
  BY WorkerAssumption DEF ClaimInv, Owned, Holding, ItemInv, TypeOK
<1>1. workerId' = workerId
  BY ConfiguredOnce
<1>2. SUFFICES Standing /\ Own
  BY <1>1 DEF ClaimInv, Owned, Holding, Distinct
<1> USE DEF TypeOK, QueueTypeOK, Goto, Return, Release, Quiet, locals, history, queue, Polling
<1>3. ASSUME NEW j \in Jobs, Enqueue(j) PROVE Standing /\ Own
  BY <1>0, <1>3 DEF Enqueue, Insert
<1>4. ASSUME NEW w \in Workers, RecoverExpired(w) PROVE Standing /\ Own
  BY <1>0, <1>4 DEF RecoverExpired, Recover, Expired
<1>5. ASSUME NEW w \in Workers, ClaimJob(w) PROVE Standing /\ Own
  <2>1. PICK k \in Jobs : /\ status[k] = "pending"
                          /\ status' = [status EXCEPT ![k] = "leased"] /\ owner' = [owner EXCEPT ![k] = workerId[w]]
                          /\ item' = [item EXCEPT ![w] = k] /\ holder' = [holder EXCEPT ![k] = w]
    BY <1>5 DEF ClaimJob, Oldest, Claimable, Lease
  <2>2. item[w] = None /\ holder[k] = None
    BY <1>0, <1>5, <2>1 DEF ClaimJob, ItemInv
  <2>3. Standing
    <3>1. \A j \in Jobs : holder[j] # None => holder[j] # w /\ j # k
      BY <1>0, <2>2, WorkerAssumption
    <3> QED
      BY <1>0, <2>1, <2>2, <3>1
  <2>4. Own
    BY <1>0, <2>1, <2>2, WorkerAssumption DEF Distinct
  <2> QED
    BY <2>3, <2>4
<1>6. ASSUME NEW w \in Workers, ClaimNothing(w) PROVE Standing /\ Own
  BY <1>0, <1>6 DEF ClaimNothing
<1>7. ASSUME NEW w \in Workers,
             HandleDuplicate(w) \/ HandleDecided(w) \/ HandleFailed(w) \/ LoseLease(w) \/ FailSelect(w)
      PROVE Standing /\ Own
  <2>1. UNCHANGED <<queue, item, holder>>
    BY <1>7 DEF HandleDuplicate, HandleDecided, HandleFailed, LoseLease, FailSelect
  <2> QED
    BY <1>0, <2>1
<1>8. ASSUME NEW w \in Workers, CompleteItem(w) \/ FailItem(w) PROVE Standing /\ Own
  <2>1. /\ item' = [item EXCEPT ![w] = None] /\ holder' = [holder EXCEPT ![item[w]] = None]
        /\ status'[item[w]] # "leased" /\ item[w] \in Jobs
        /\ \A j \in Jobs : j # item[w] => status'[j] = status[j] /\ owner'[j] = owner[j]
    BY <1>8 DEF CompleteItem, Complete, FailItem, FailUpdate, ItemInv
  <2>2. \A j \in Jobs : holder[j] = w => j = item[w]
    BY <1>0, WorkerAssumption
  <2>3. Standing
    <3> SUFFICES ASSUME NEW j \in Jobs, holder'[j] # None
                 PROVE  item'[holder'[j]] = j /\ status'[j] = "leased" /\ owner'[j] = workerId[holder'[j]]
      OBVIOUS
    <3>1. j # item[w] /\ holder'[j] = holder[j]
      BY <2>1
    <3>2. holder[j] # w /\ holder[j] \in Workers
      BY <1>0, <2>2, <3>1
    <3> QED
      BY <1>0, <2>1, <3>1, <3>2
  <2>4. Own
    <3> SUFFICES ASSUME Distinct, NEW v \in Workers, item'[v] # None, status'[item'[v]] = "leased",
                        owner'[item'[v]] = workerId[v]
                 PROVE  holder'[item'[v]] = v
      OBVIOUS
    <3>1. v # w /\ item'[v] = item[v] /\ item[v] # item[w] /\ item[v] \in Jobs
      BY <2>1
    <3> QED
      BY <1>0, <2>1, <3>1
  <2> QED
    BY <2>3, <2>4
<1>9. ASSUME NEW w \in Workers, FailNotOwned(w) PROVE Standing /\ Own
  <2>1. /\ item' = [item EXCEPT ![w] = None] /\ UNCHANGED <<queue, holder>>
        /\ ~(status[item[w]] = "leased" /\ owner[item[w]] = workerId[w])
    BY <1>9 DEF FailNotOwned, Owned
  <2>2. \A j \in Jobs : holder[j] # w
    BY <1>0, <2>1, WorkerAssumption
  <2> QED
    BY <1>0, <2>1, <2>2
<1>10. ASSUME NEW w \in Workers, Die(w) PROVE Standing /\ Own
  BY <1>0, <1>10, WorkerAssumption DEF Die
<1>11. ASSUME NEW w \in Workers, Crash(w) \/ StoreFault(w) PROVE Standing /\ Own
  <2>1. CASE UNCHANGED <<queue, item, holder>>
    BY <1>0, <2>1
  <2> QED
    BY <1>10, <1>11, <2>1 DEF Crash, StoreFault
<1>12. CASE Tick \/ UNCHANGED vars
  BY <1>0, <1>12 DEF Tick, Elapse, vars
<1> QED
  BY <1>3, <1>4, <1>5, <1>6, <1>7, <1>8, <1>9, <1>11, <1>12 DEF Next, Step

LEMMA ClaimAlways == Spec => []ClaimInv
<1>1. Init => ClaimInv
  BY DEF Init, ClaimInv
<1>2. TypeOK /\ ItemInv /\ ClaimInv /\ [Next]_vars => ClaimInv'
  BY ClaimStep
<1> QED
  BY <1>1, <1>2, TypeCorrect, PTL DEF Spec

LEMMA WorkersCounted ==
    ASSUME NEW S, S \subseteq Workers
    PROVE  /\ IsFiniteSet(S) /\ Cardinality(S) \in Nat
           /\ Cardinality(S) <= Cardinality(Workers) /\ Cardinality(Workers) \in Nat
BY WorkerAssumption, FS_Subset, FS_CardinalityType

\* A process remembers what it handled: a job takes effect in it once in a life.
LEMMA MemoryStep ==
    ASSUME TypeOK, TypeOK', [Next]_vars, NEW j \in Jobs,
           effects[j] <= Cardinality(Effective(j)) + incidents
    PROVE  effects'[j] <= Cardinality(Effective(j)') + incidents'
<1>0. /\ IsFiniteSet(Effective(j)) /\ Cardinality(Effective(j)) \in Nat /\ effects[j] \in Nat /\ incidents \in Nat
      /\ Cardinality(Effective(j)') \in Nat /\ incidents' \in Nat
  <2>1. Effective(j) \subseteq Workers /\ Effective(j)' \subseteq Workers
    BY DEF Effective
  <2>2. IsFiniteSet(Effective(j)) /\ Cardinality(Effective(j)) \in Nat /\ Cardinality(Effective(j)') \in Nat
    BY <2>1, WorkersCounted
  <2> QED
    BY <2>2 DEF TypeOK
<1>1. ASSUME NEW w \in Workers, HandleDecided(w) PROVE effects'[j] <= Cardinality(Effective(j)') + incidents'
  <2>1. /\ processed' = [processed EXCEPT ![w] = @ \union {item[w]}] /\ item[w] \notin processed[w]
        /\ incidents' = incidents
        /\ effects' = effects \/ effects' = [effects EXCEPT ![item[w]] = @ + 1]
    BY <1>1 DEF HandleDecided, Decide, Quiet
  <2>2. CASE item[w] = j
    <3>1. Effective(j)' = Effective(j) \union {w} /\ w \notin Effective(j)
      BY <2>1, <2>2 DEF Effective, TypeOK
    <3>2. Cardinality(Effective(j)') = Cardinality(Effective(j)) + 1
      BY <1>0, <3>1, FS_AddElement
    <3>3. effects'[j] = effects[j] \/ effects'[j] = effects[j] + 1
      BY <2>1, <2>2 DEF TypeOK
    <3> QED
      BY <1>0, <2>1, <3>2, <3>3
  <2>3. CASE item[w] # j
    <3>1. Effective(j)' = Effective(j)
      BY <2>1, <2>3 DEF Effective, TypeOK
    <3>2. effects'[j] = effects[j]
      BY <2>1, <2>3 DEF TypeOK
    <3> QED
      BY <2>1, <3>1, <3>2
  <2> QED
    BY <2>2, <2>3
<1>2. ASSUME NEW w \in Workers, Die(w), Incident(1) PROVE effects'[j] <= Cardinality(Effective(j)') + incidents'
  <2>1. processed' = [processed EXCEPT ![w] = {}] /\ effects' = effects /\ incidents' = incidents + 1
    BY <1>2 DEF Die, Incident, history
  <2>2. Effective(j)' = Effective(j) \ {w}
    BY <2>1 DEF Effective, TypeOK
  <2>3. Cardinality(Effective(j)') >= Cardinality(Effective(j)) - 1
    <3>1. Cardinality(Effective(j) \ {w}) \in {Cardinality(Effective(j)) - 1, Cardinality(Effective(j))}
      BY <1>0, FS_RemoveElement
    <3> QED
      BY <1>0, <2>2, <3>1
  <2> QED
    BY <1>0, <2>1, <2>3
<1>3. ASSUME processed' = processed, effects' = effects, incidents <= incidents'
      PROVE  effects'[j] <= Cardinality(Effective(j)') + incidents'
  <2>1. Effective(j)' = Effective(j)
    BY <1>3 DEF Effective
  <2> QED
    BY <1>0, <1>3, <2>1
<1>4. CASE \E k \in Jobs : Enqueue(k)
  BY <1>0, <1>3, <1>4 DEF Enqueue, history
<1>5. CASE \E w \in Workers : Step(w) /\ ~HandleDecided(w)
  <2>1. processed' = processed /\ effects' = effects /\ incidents' = incidents
    BY <1>5 DEF Step, RecoverExpired, ClaimJob, ClaimNothing, HandleDuplicate, HandleFailed,
       CompleteItem, LoseLease, FailSelect, FailNotOwned, FailItem, Quiet, history
  <2> QED
    BY <1>0, <1>3, <2>1
<1>6. CASE \E w \in Workers : Crash(w) \/ StoreFault(w)
  <2>1. PICK w \in Workers : Crash(w) \/ StoreFault(w)
    BY <1>6
  <2>2. Incident(1) /\ incidents' = incidents + 1
    BY <2>1 DEF Crash, StoreFault, Incident
  <2>3. Die(w) \/ (processed' = processed /\ effects' = effects)
    BY <2>1 DEF Crash, StoreFault, history
  <2> QED
    BY <1>0, <1>2, <1>3, <2>2, <2>3
<1>7. CASE Tick
  <2>1. processed' = processed /\ effects' = effects /\ incidents' = incidents + Cardinality(Outliving)
    BY <1>7 DEF Tick, Incident, history
  <2>2. Cardinality(Outliving) \in Nat
    BY WorkerAssumption, FS_Subset, FS_CardinalityType DEF Outliving
  <2> QED
    BY <1>0, <1>3, <2>1, <2>2
<1>8. CASE UNCHANGED vars
  BY <1>0, <1>3, <1>8 DEF vars, history
<1> QED
  BY <1>1, <1>4, <1>5, <1>6, <1>7, <1>8 DEF Next

Credit(j) == effects[j] + Line(j) + Overdue(j) + Cardinality(Late(j))

\* A process whose claim stands, and a process that owns its row.
Standing(j) ==
    holder[j] # None =>
        /\ holder[j] \in Workers /\ item[holder[j]] = j
        /\ status[j] = "leased" /\ owner[j] = workerId[holder[j]] /\ pc[holder[j]] \notin Polling
OwnersHold ==
    \A w \in Workers :
        item[w] # None /\ status[item[w]] = "leased" /\ owner[item[w]] = workerId[w] => holder[item[w]] = w

\* A step that adds nothing to what a job may still come to, and one that an
\* incident pays for.
LEMMA CreditKept ==
    ASSUME TypeOK, TypeOK', NEW j \in Jobs, Credit(j) <= 1 + incidents,
           Late(j)' \subseteq Late(j), Line(j)' <= Line(j), Overdue(j)' <= Overdue(j),
           effects'[j] = effects[j], incidents' = incidents
    PROVE  Credit(j)' <= 1 + incidents'
<1>1. Late(j) \subseteq Workers
  BY DEF Late
<1>2. IsFiniteSet(Late(j)) /\ Cardinality(Late(j)) \in Nat
  BY <1>1, WorkersCounted
<1>3. Cardinality(Late(j)') <= Cardinality(Late(j)) /\ Cardinality(Late(j)') \in Nat
  BY <1>2, FS_Subset, FS_CardinalityType
<1>4. /\ Line(j) \in {0, 1} /\ Overdue(j) \in {0, 1} /\ effects[j] \in Nat /\ incidents \in Nat
      /\ Line(j)' \in {0, 1} /\ Overdue(j)' \in {0, 1}
  BY DEF Line, Overdue, TypeOK
<1>5. effects[j] + Line(j) + Overdue(j) + Cardinality(Late(j)) <= 1 + incidents
  BY DEF Credit
<1>6. effects'[j] + Line(j)' + Overdue(j)' + Cardinality(Late(j)') <= 1 + incidents'
  BY <1>2, <1>3, <1>4, <1>5
<1> QED
  BY <1>6 DEF Credit

LEMMA CreditPaid ==
    ASSUME TypeOK, TypeOK', NEW j \in Jobs, Credit(j) <= 1 + incidents,
           Late(j)' \subseteq Late(j), Overdue(j)' <= Overdue(j) \/ Line(j)' <= Line(j),
           effects'[j] = effects[j], incidents' >= incidents + 1
    PROVE  Credit(j)' <= 1 + incidents'
<1>1. Late(j) \subseteq Workers
  BY DEF Late
<1>2. IsFiniteSet(Late(j)) /\ Cardinality(Late(j)) \in Nat
  BY <1>1, WorkersCounted
<1>3. Cardinality(Late(j)') <= Cardinality(Late(j)) /\ Cardinality(Late(j)') \in Nat
  BY <1>2, FS_Subset, FS_CardinalityType
<1>4. /\ Line(j) \in {0, 1} /\ Overdue(j) \in {0, 1} /\ effects[j] \in Nat /\ incidents \in Nat /\ incidents' \in Nat
      /\ Line(j)' \in {0, 1} /\ Overdue(j)' \in {0, 1}
  BY DEF Line, Overdue, TypeOK
<1>5. effects[j] + Line(j) + Overdue(j) + Cardinality(Late(j)) <= 1 + incidents
  BY DEF Credit
<1>6. effects'[j] + Line(j)' + Overdue(j)' + Cardinality(Late(j)') <= 1 + incidents'
  BY <1>2, <1>3, <1>4, <1>5
<1> QED
  BY <1>6 DEF Credit

\* A claim that is taken back: its process is late, or the job is in line again.
LEMMA CreditMoved ==
    ASSUME TypeOK, TypeOK', NEW j \in Jobs, Credit(j) <= 1 + incidents,
           NEW v, Late(j)' \subseteq Late(j) \union {v}, Overdue(j) = 1, Overdue(j)' = 0,
           Line(j) = 1 \/ Late(j)' \subseteq Late(j),
           effects'[j] = effects[j], incidents' = incidents
    PROVE  Credit(j)' <= 1 + incidents'
<1>1. Late(j) \subseteq Workers
  BY DEF Late
<1>2. IsFiniteSet(Late(j)) /\ Cardinality(Late(j)) \in Nat
  BY <1>1, WorkersCounted
<1>3. IsFiniteSet(Late(j) \union {v}) /\ Cardinality(Late(j) \union {v}) \in {Cardinality(Late(j)), Cardinality(Late(j)) + 1}
  BY <1>2, FS_AddElement
<1>4. Cardinality(Late(j)') <= Cardinality(Late(j) \union {v}) /\ Cardinality(Late(j)') \in Nat
  BY <1>3, FS_Subset, FS_CardinalityType
<1>5. Late(j)' \subseteq Late(j) => Cardinality(Late(j)') <= Cardinality(Late(j))
  BY <1>2, FS_Subset
<1>6. /\ Line(j) \in {0, 1} /\ effects[j] \in Nat /\ incidents \in Nat /\ Line(j)' \in {0, 1}
  BY DEF Line, TypeOK
<1>7. effects[j] + Line(j) + Overdue(j) + Cardinality(Late(j)) <= 1 + incidents
  BY DEF Credit
<1>8. effects'[j] + Line(j)' + Overdue(j)' + Cardinality(Late(j)') <= 1 + incidents'
  BY <1>2, <1>3, <1>4, <1>5, <1>6, <1>7
<1> QED
  BY <1>8 DEF Credit

\* A late process takes effect, or takes the next claim back.
LEMMA CreditSpent ==
    ASSUME TypeOK, TypeOK', NEW j \in Jobs, Credit(j) <= 1 + incidents,
           NEW w \in Late(j), NEW v, w \notin Late(j)',
           Late(j)' \subseteq Late(j) \union {v}, Late(j)' \subseteq Late(j) \/ Line(j)' <= Line(j),
           Overdue(j)' <= Overdue(j), incidents' = incidents,
           \/ effects'[j] = effects[j]
           \/ effects'[j] = effects[j] + 1 /\ Line(j)' <= Line(j) /\ Late(j)' \subseteq Late(j)
    PROVE  Credit(j)' <= 1 + incidents'
<1>1. Late(j) \subseteq Workers
  BY DEF Late
<1>2. IsFiniteSet(Late(j)) /\ Cardinality(Late(j)) \in Nat
  BY <1>1, WorkersCounted
<1>3. IsFiniteSet(Late(j) \ {w}) /\ Cardinality(Late(j) \ {w}) = Cardinality(Late(j)) - 1
  BY <1>2, FS_RemoveElement
<1>4. /\ IsFiniteSet((Late(j) \ {w}) \union {v})
      /\ Cardinality((Late(j) \ {w}) \union {v}) <= Cardinality(Late(j))
  <2> DEFINE S == Late(j) \ {w}
  <2>1. IsFiniteSet(S) /\ Cardinality(S) = Cardinality(Late(j)) - 1
    BY <1>3
  <2> HIDE DEF S
  <2>2. IsFiniteSet(S \union {v}) /\ Cardinality(S \union {v}) \in {Cardinality(S), Cardinality(S) + 1}
    BY <2>1, FS_AddElement
  <2>3. Cardinality(S \union {v}) <= Cardinality(Late(j))
    BY <1>2, <2>1, <2>2
  <2> QED
    BY <2>2, <2>3 DEF S
<1>5. Late(j)' \subseteq (Late(j) \ {w}) \union {v}
  OBVIOUS
<1>6. Cardinality(Late(j)') <= Cardinality(Late(j)) /\ Cardinality(Late(j)') \in Nat
  <2>1. IsFiniteSet(Late(j)') /\ Cardinality(Late(j)') <= Cardinality((Late(j) \ {w}) \union {v})
    BY <1>4, <1>5, FS_Subset
  <2>2. Cardinality(Late(j)') \in Nat /\ Cardinality((Late(j) \ {w}) \union {v}) \in Nat
    BY <1>4, <2>1, FS_CardinalityType
  <2> QED
    BY <1>2, <1>4, <2>1, <2>2
<1>7. Late(j)' \subseteq Late(j) => Cardinality(Late(j)') <= Cardinality(Late(j)) - 1
  <2> SUFFICES ASSUME Late(j)' \subseteq Late(j) PROVE Cardinality(Late(j)') <= Cardinality(Late(j)) - 1
    OBVIOUS
  <2>1. Late(j)' \subseteq Late(j) \ {w}
    OBVIOUS
  <2>2. Cardinality(Late(j)') <= Cardinality(Late(j) \ {w})
    BY <1>3, <2>1, FS_Subset
  <2> QED
    BY <1>3, <2>2
<1>8. /\ Line(j) \in {0, 1} /\ Overdue(j) \in {0, 1} /\ effects[j] \in Nat /\ incidents \in Nat
      /\ Line(j)' \in {0, 1} /\ Overdue(j)' \in {0, 1}
  BY DEF Line, Overdue, TypeOK
<1>9. effects[j] + Line(j) + Overdue(j) + Cardinality(Late(j)) <= 1 + incidents
  BY DEF Credit
<1>10. effects'[j] + Line(j)' + Overdue(j)' + Cardinality(Late(j)') <= 1 + incidents'
  BY <1>2, <1>6, <1>7, <1>8, <1>9
<1> QED
  BY <1>10 DEF Credit

\* The process whose claim stands has handled the job.
LEMMA CreditTaken ==
    ASSUME TypeOK, TypeOK', NEW j \in Jobs, Credit(j) <= 1 + incidents,
           Late(j)' \subseteq Late(j), Overdue(j)' = Overdue(j), Line(j) = 1, Line(j)' = 0,
           effects'[j] = effects[j] \/ effects'[j] = effects[j] + 1, incidents' = incidents
    PROVE  Credit(j)' <= 1 + incidents'
<1>1. Late(j) \subseteq Workers
  BY DEF Late
<1>2. IsFiniteSet(Late(j)) /\ Cardinality(Late(j)) \in Nat
  BY <1>1, WorkersCounted
<1>3. Cardinality(Late(j)') <= Cardinality(Late(j)) /\ Cardinality(Late(j)') \in Nat
  BY <1>2, FS_Subset, FS_CardinalityType
<1>4. Overdue(j) \in {0, 1} /\ effects[j] \in Nat /\ incidents \in Nat
  BY DEF Overdue, TypeOK
<1>5. effects[j] + Line(j) + Overdue(j) + Cardinality(Late(j)) <= 1 + incidents
  BY DEF Credit
<1>6. effects'[j] + Line(j)' + Overdue(j)' + Cardinality(Late(j)') <= 1 + incidents'
  BY <1>2, <1>3, <1>4, <1>5
<1> QED
  BY <1>6 DEF Credit

LEMMA CreditStep ==
    ASSUME TypeOK, TypeOK', ItemInv, OwnersHold, NEW j \in Jobs, Standing(j),
           Credit(j) <= 1 + incidents, [Next]_vars
    PROVE  Credit(j)' <= 1 + incidents'
<1> DEFINE Goal == Credit(j)' <= 1 + incidents'
<1> USE WorkerAssumption DEF TypeOK, QueueTypeOK, Goto, Return, Release, Quiet, locals, history, queue, Polling, Settled
<1>a. ASSUME Late(j)' \subseteq Late(j), Line(j)' <= Line(j), Overdue(j)' <= Overdue(j),
             effects'[j] = effects[j], incidents' = incidents
      PROVE  Goal
  BY <1>a, CreditKept
<1>b. /\ Line(j) \in {0, 1} /\ Overdue(j) \in {0, 1} /\ Line(j)' \in {0, 1} /\ Overdue(j)' \in {0, 1}
  BY DEF Line, Overdue
<1>1. ASSUME NEW k \in Jobs, Enqueue(k) PROVE Goal
  <2>1. UNCHANGED <<pc, item, processed, holder, lease, effects, incidents>>
    BY <1>1 DEF Enqueue, Insert
  <2>2. status'[j] = status[j] \/ (status[j] = "absent" /\ status'[j] = "pending")
    BY <1>1 DEF Enqueue, Insert
  <2>3. Line(j)' <= Line(j)
    BY <1>b, <2>1, <2>2 DEF Line, Standing
  <2>4. Late(j)' = Late(j) /\ Overdue(j)' = Overdue(j)
    BY <2>1 DEF Late, Overdue
  <2> QED
    BY <1>a, <1>b, <2>1, <2>3, <2>4
<1>2. ASSUME NEW w \in Workers, RecoverExpired(w) PROVE Goal
  <2>1. /\ UNCHANGED <<item, processed, effects, lease, incidents>>
        /\ pc[w] = "recover" /\ pc' = [pc EXCEPT ![w] = "claim"] /\ item[w] = None
    BY <1>2 DEF RecoverExpired, Recover, ItemInv
  <2>2. CASE status[j] = "leased" /\ lease[j] = 0
    <3>1. status'[j] = "pending" /\ holder'[j] = None
      BY <1>2, <2>2 DEF RecoverExpired, Recover, Expired
    <3>2. CASE holder[j] = None
      <4>1. Late(j)' \subseteq Late(j)
        BY <2>1, <3>2 DEF Late
      <4>2. Line(j) = 1 /\ Overdue(j)' = 0
        BY <2>2, <3>1, <3>2 DEF Line, Overdue
      <4> QED
        BY <1>a, <1>b, <2>1, <4>1, <4>2
    <3>3. CASE holder[j] # None
      <4>1. Overdue(j) = 1 /\ Overdue(j)' = 0
        BY <2>2, <3>1, <3>3 DEF Overdue
      <4>2. Late(j)' \subseteq Late(j) \union {holder[j]}
        BY <2>1 DEF Late
      <4>3. pc[holder[j]] = "complete" => Late(j)' \subseteq Late(j)
        BY <2>1 DEF Late
      <4>4. pc[holder[j]] # "complete" => Line(j) = 1
        BY <2>2 DEF Line
      <4> QED
        BY <2>1, <4>1, <4>2, <4>3, <4>4, CreditMoved
    <3> QED
      BY <3>2, <3>3
  <2>3. CASE ~(status[j] = "leased" /\ lease[j] = 0)
    <3>1. status'[j] = status[j] /\ holder'[j] = holder[j]
      BY <1>2, <2>3 DEF RecoverExpired, Recover, Expired, Standing
    <3>2. holder[j] # w
      BY <2>1 DEF Standing
    <3>3. Late(j)' \subseteq Late(j) /\ Line(j)' = Line(j) /\ Overdue(j)' = Overdue(j)
      BY <2>1, <3>1, <3>2 DEF Late, Line, Overdue, Standing
    <3> QED
      BY <1>a, <1>b, <2>1, <3>3
  <2> QED
    BY <2>2, <2>3
<1>3. ASSUME NEW w \in Workers, ClaimJob(w) PROVE Goal
  <2>1. PICK k \in Jobs :
          /\ status[k] = "pending" /\ status' = [status EXCEPT ![k] = "leased"]
          /\ item' = [item EXCEPT ![w] = k] /\ holder' = [holder EXCEPT ![k] = w]
          /\ \E t \in 1..LeaseTime : lease' = [lease EXCEPT ![k] = t]
    BY <1>3 DEF ClaimJob, Oldest, Claimable, Lease
  <2>2. /\ UNCHANGED <<processed, effects, incidents>> /\ item[w] = None
        /\ pc[w] = "claim" /\ pc' = [pc EXCEPT ![w] = "handle"]
    BY <1>3 DEF ClaimJob, ItemInv
  <2>3. CASE k = j
    <3>1. Line(j) = 1
      BY <2>1, <2>3 DEF Line, Standing
    <3>2. lease'[j] # 0
      BY <2>1, <2>3, QueueAssumption
    <3>3. Overdue(j)' = 0
      BY <3>2 DEF Overdue
    <3>4. Late(j)' \subseteq Late(j)
      BY <2>1, <2>2, <2>3 DEF Late, Standing
    <3> QED
      BY <1>a, <1>b, <2>2, <3>1, <3>3, <3>4
  <2>4. CASE k # j
    <3>1. /\ holder[j] # w /\ holder'[j] = holder[j] /\ status'[j] = status[j] /\ lease'[j] = lease[j]
      BY <2>1, <2>2, <2>4 DEF Standing
    <3>2. Late(j)' \subseteq Late(j)
      BY <2>1, <2>2, <2>4, <3>1 DEF Late
    <3>3. Line(j)' = Line(j) /\ Overdue(j)' = Overdue(j)
      BY <2>2, <3>1 DEF Line, Overdue, Standing
    <3> QED
      BY <1>a, <1>b, <2>2, <3>2, <3>3
  <2> QED
    BY <2>3, <2>4
\* What run_once does to its item, elsewhere than in the row of j: nothing.
<1>c. ASSUME NEW w \in Workers, Step(w), ~RecoverExpired(w), ~ClaimJob(w), item[w] # j PROVE Goal
  <2>1. /\ UNCHANGED incidents /\ effects'[j] = effects[j]
        /\ holder'[j] = holder[j] /\ status'[j] = status[j] /\ lease'[j] = lease[j]
        /\ item'[w] = item[w] \/ item'[w] = None
    BY <1>c DEF Step, ClaimNothing, HandleDuplicate, HandleDecided, Decide, HandleFailed, CompleteItem, Complete,
       LoseLease, FailSelect, FailNotOwned, FailItem, FailUpdate
  <2>2. \A u \in Workers : u # w => item'[u] = item[u] /\ pc'[u] = pc[u] /\ processed'[u] = processed[u]
    BY <1>c, OthersRest
  <2>3. holder[j] # w
    BY <1>c DEF Standing
  <2>4. Late(j)' \subseteq Late(j)
    BY <1>c, <2>1, <2>2 DEF Late
  <2>5. Line(j)' = Line(j) /\ Overdue(j)' = Overdue(j)
    BY <2>1, <2>2, <2>3 DEF Line, Overdue, Standing
  <2> QED
    BY <1>a, <1>b, <2>1, <2>4, <2>5
<1>4. ASSUME NEW w \in Workers, ClaimNothing(w) PROVE Goal
  <2>1. item[w] # j
    BY <1>4 DEF ClaimNothing, ItemInv
  <2> QED
    <3>1. ~RecoverExpired(w)
      BY <1>4 DEF ClaimNothing, RecoverExpired
    <3>2. ~ClaimJob(w)
      BY <1>4 DEF ClaimNothing, ClaimJob, Oldest
    <3>3. Step(w)
      BY <1>4 DEF Step
    <3> QED
      BY <1>c, <2>1, <3>1, <3>2, <3>3
<1>5. ASSUME NEW w \in Workers, item[w] = j, HandleDuplicate(w) \/ HandleFailed(w) PROVE Goal
  <2>1. /\ UNCHANGED <<queue, item, processed, holder, effects, incidents>> /\ pc[w] = "handle"
        /\ pc' = [pc EXCEPT ![w] = "complete"] \/ pc' = [pc EXCEPT ![w] = "fail"]
    BY <1>5 DEF HandleDuplicate, HandleFailed, FailureLabel
  <2>2. Late(j)' \subseteq Late(j)
    BY <2>1 DEF Late
  <2>3. Line(j)' <= Line(j) /\ Overdue(j)' = Overdue(j)
    BY <2>1 DEF Line, Overdue, Standing
  <2> QED
    BY <1>a, <1>b, <2>1, <2>2, <2>3
<1>6. ASSUME NEW w \in Workers, item[w] = j, HandleDecided(w) PROVE Goal
  <2>1. /\ UNCHANGED <<queue, item, holder, incidents>> /\ pc[w] = "handle" /\ j \notin processed[w]
        /\ pc' = [pc EXCEPT ![w] = "complete"] /\ processed' = [processed EXCEPT ![w] = @ \union {j}]
        /\ effects'[j] = effects[j] \/ effects'[j] = effects[j] + 1
    BY <1>6 DEF HandleDecided, Decide
  <2>2. Late(j)' \subseteq Late(j) /\ w \notin Late(j)'
    BY <2>1 DEF Late
  <2>3. Overdue(j)' = Overdue(j) /\ Line(j)' <= Line(j)
    BY <2>1 DEF Line, Overdue, Standing
  <2>4. CASE holder[j] = w
    <3>1. Line(j) = 1 /\ Line(j)' = 0
      BY <2>1, <2>4 DEF Line, Standing
    <3> QED
      BY <2>1, <2>2, <2>3, <3>1, CreditTaken
  <2>5. CASE holder[j] # w
    <3>1. w \in Late(j)
      BY <1>6, <2>1, <2>5 DEF Late
    <3>2. Late(j)' \subseteq Late(j) \union {w} /\ Overdue(j)' <= Overdue(j)
      BY <1>b, <2>2, <2>3
    <3> QED
      BY <2>1, <2>2, <2>3, <3>1, <3>2, CreditSpent
  <2> QED
    BY <2>4, <2>5
<1>7. ASSUME NEW w \in Workers, item[w] = j, CompleteItem(w) PROVE Goal
  <2>1. /\ status[j] = "leased" /\ owner[j] = workerId[w] /\ pc[w] = "complete"
        /\ status'[j] = "completed" /\ item'[w] = None /\ holder'[j] = None
        /\ UNCHANGED <<processed, effects, incidents>>
    BY <1>7 DEF CompleteItem, Complete, Owned
  <2>2. holder[j] = w
    BY <1>7, <2>1 DEF OwnersHold
  <2>3. \A u \in Workers : u # w => item'[u] = item[u] /\ pc'[u] = pc[u]
    BY <1>7, OthersRest DEF Step
  <2>4. Late(j)' \subseteq Late(j)
    BY <2>1, <2>2, <2>3 DEF Late
  <2>5. Line(j)' = 0 /\ Overdue(j)' = 0
    BY <2>1 DEF Line, Overdue
  <2> QED
    BY <1>a, <1>b, <2>1, <2>4, <2>5
<1>8. ASSUME NEW w \in Workers, item[w] = j, LoseLease(w) \/ FailSelect(w) \/ FailNotOwned(w) PROVE Goal
  <2>1. /\ UNCHANGED <<queue, processed, holder, effects, incidents>>
        /\ item'[w] = j \/ item'[w] = None
        /\ pc[w] \in {"complete", "fail"} /\ pc'[w] \in {"fail", "fail_update", "recover"}
        /\ pc'[w] = "fail_update" => status[j] = "leased" /\ owner[j] = workerId[w]
        /\ pc'[w] # "fail_update" => ~(status[j] = "leased" /\ owner[j] = workerId[w])
    BY <1>8 DEF LoseLease, FailSelect, FailNotOwned, Owned
  <2>2. \A u \in Workers : u # w => item'[u] = item[u] /\ pc'[u] = pc[u]
    BY <1>8, OthersRest DEF Step
  <2>3. (pc'[w] = "fail_update") <=> holder[j] = w
    BY <1>8, <2>1 DEF OwnersHold, Standing
  <2>4. Late(j)' \subseteq Late(j)
    BY <2>1, <2>2, <2>3 DEF Late
  <2>5. pc'[w] = "fail_update" => pc[w] = "fail"
    BY <1>8 DEF LoseLease, FailSelect, FailNotOwned
  <2>6. Line(j)' = Line(j) /\ Overdue(j)' = Overdue(j)
    BY <2>1, <2>2, <2>3, <2>5 DEF Line, Overdue, Standing
  <2> QED
    BY <1>a, <1>b, <2>1, <2>4, <2>6
<1>9. ASSUME NEW w \in Workers, item[w] = j, FailItem(w) PROVE Goal
  <2>1. /\ pc[w] = "fail_update" /\ item'[w] = None /\ holder'[j] = None
        /\ UNCHANGED <<processed, effects, incidents>>
    BY <1>9 DEF FailItem
  <2>2. \A u \in Workers : u # w => item'[u] = item[u] /\ pc'[u] = pc[u]
    BY <1>9, OthersRest DEF Step
  <2>3. Overdue(j)' = 0
    BY <2>1 DEF Overdue
  <2>4. CASE holder[j] = w
    <3>1. Line(j) = 1
      BY <2>1, <2>4 DEF Line, Standing
    <3>2. Late(j)' \subseteq Late(j)
      BY <2>1, <2>2, <2>4 DEF Late
    <3> QED
      BY <1>a, <1>b, <2>1, <2>3, <3>1, <3>2
  <2>5. CASE holder[j] # w
    <3>1. w \in Late(j) /\ w \notin Late(j)'
      BY <1>9, <2>1, <2>5 DEF Late
    <3>2. Late(j)' \subseteq Late(j) \union {holder[j]}
      BY <2>1, <2>2 DEF Late
    <3>3. Late(j)' \subseteq Late(j) \/ Line(j)' <= Line(j)
      <4>1. CASE holder[j] # None /\ pc[holder[j]] = "complete"
        <5>1. Late(j)' \subseteq Late(j)
          BY <2>1, <2>2, <4>1 DEF Late, Standing
        <5> QED
          BY <5>1
      <4>2. CASE holder[j] # None /\ pc[holder[j]] # "complete"
        <5>1. Line(j) = 1
          BY <4>2 DEF Line, Standing
        <5> QED
          BY <1>b, <5>1
      <4>3. CASE holder[j] = None
        <5>1. Late(j)' \subseteq Late(j)
          BY <2>1, <2>2, <4>3 DEF Late
        <5> QED
          BY <5>1
      <4> QED
        BY <4>1, <4>2, <4>3
    <3> QED
      <4>1. Overdue(j)' <= Overdue(j)
        BY <1>b, <2>3
      <4>2. effects'[j] = effects[j] /\ incidents' = incidents
        BY <2>1
      <4> QED
        BY <3>1, <3>2, <3>3, <4>1, <4>2, CreditSpent
  <2> QED
    BY <2>4, <2>5
<1>10. ASSUME NEW w \in Workers, Crash(w) \/ StoreFault(w) PROVE Goal
  <2>1. incidents' = incidents + 1
    BY <1>10 DEF Crash, StoreFault, Incident
  <2>2. \A u \in Workers : u # w => item'[u] = item[u] /\ pc'[u] = pc[u] /\ processed'[u] = processed[u]
    BY <1>10, OthersRest
  <2>3. CASE Die(w)
    <3>1. item'[w] = None /\ UNCHANGED <<queue, effects>> /\ holder'[j] = IF holder[j] = w THEN None ELSE holder[j]
      BY <2>3 DEF Die
    <3>2. Late(j)' \subseteq Late(j)
      BY <2>2, <3>1 DEF Late
    <3>3. Overdue(j)' <= Overdue(j)
      BY <3>1 DEF Overdue
    <3> QED
      BY <2>1, <3>1, <3>2, <3>3, CreditPaid
  <2>4. CASE Guarded(w) /\ Goto(w, "fail") /\ UNCHANGED <<queue, item, processed, holder, effects>>
    <3>1. Late(j)' \subseteq Late(j)
      BY <2>4 DEF Late
    <3>2. Overdue(j)' = Overdue(j)
      BY <2>4 DEF Overdue
    <3> QED
      BY <1>b, <2>1, <2>4, <3>1, <3>2, CreditPaid
  <2> QED
    BY <1>10, <2>3, <2>4 DEF Crash, StoreFault
<1>11. CASE Tick
  <2>1. /\ UNCHANGED <<status, item, pc, processed, holder, effects>> /\ incidents' = incidents + Cardinality(Outliving)
        /\ lease'[j] = Less(lease[j])
    BY <1>11 DEF Tick, Elapse, Incident
  <2>2. Outliving \subseteq Workers
    BY DEF Outliving
  <2>3. IsFiniteSet(Outliving) /\ Cardinality(Outliving) \in Nat
    BY <2>2, WorkersCounted
  <2>4. Late(j)' \subseteq Late(j) /\ Line(j)' = Line(j)
    BY <2>1 DEF Late, Line
  <2>5. CASE holder[j] # None /\ lease[j] = 1
    <3>1. holder[j] \in Outliving
      BY <2>5 DEF Outliving, Holding, Standing
    <3>2. Cardinality(Outliving) # 0
      BY <2>3, <3>1, FS_EmptySet
    <3>3. incidents' >= incidents + 1
      BY <2>1, <2>3, <3>2
    <3>4. Line(j)' <= Line(j)
      BY <1>b, <2>4
    <3>5. effects'[j] = effects[j]
      BY <2>1
    <3> QED
      BY <2>4, <3>3, <3>4, <3>5, CreditPaid
  <2>6. CASE ~(holder[j] # None /\ lease[j] = 1)
    <3>1. Overdue(j)' = Overdue(j)
      BY <2>1, <2>6 DEF Overdue, Less
    <3>2. CASE Outliving = {}
      <4>1. incidents' = incidents
        BY <2>1, <3>2, FS_EmptySet
      <4> QED
        BY <1>a, <1>b, <2>1, <2>4, <3>1, <4>1
    <3>3. CASE Outliving # {}
      <4>1. Cardinality(Outliving) # 0
        BY <2>3, <3>3, FS_EmptySet
      <4>2. incidents' >= incidents + 1
        BY <2>1, <2>3, <4>1
      <4> QED
        BY <1>b, <2>1, <2>4, <3>1, <4>2, CreditPaid, SMTT(20)
    <3> QED
      BY <3>2, <3>3
  <2> QED
    BY <2>5, <2>6
<1>12. CASE UNCHANGED vars
  <2>1. Late(j)' = Late(j) /\ Line(j)' = Line(j) /\ Overdue(j)' = Overdue(j)
    BY <1>12 DEF Late, Line, Overdue, vars
  <2> QED
    BY <1>a, <1>b, <1>12, <2>1 DEF vars
<1> QED
  BY <1>1, <1>2, <1>3, <1>c, <1>4, <1>5, <1>6, <1>7, <1>8, <1>9, <1>10, <1>11, <1>12 DEF Next, Step

LEMMA RepeatsStep ==
    ASSUME TypeOK, TypeOK', ItemInv, HeldInv, ClaimInv, RepeatsInv, [Next]_vars
    PROVE  RepeatsInv'
<1>1. ASSUME NEW j \in Jobs PROVE effects'[j] <= Cardinality(Effective(j)') + incidents'
  BY <1>1, MemoryStep DEF RepeatsInv
<1>2. ASSUME NEW j \in Jobs, (Distinct \/ ~outlived)'
      PROVE  effects'[j] + Line(j)' + Overdue(j)' + Cardinality(Late(j)') <= 1 + incidents'
  <2>1. Distinct \/ ~outlived
    BY <1>2, ConfiguredOnce DEF Distinct
  <2>2. Credit(j) <= 1 + incidents
    BY <1>2, <2>1 DEF RepeatsInv, Credit
  <2>3. Standing(j)
    BY <1>2, WorkerAssumption DEF Standing, ClaimInv, Owned, ItemInv, TypeOK
  <2>4. OwnersHold
    BY <2>1 DEF OwnersHold, ClaimInv, HeldInv, Owned, Holding
  <2>5. Credit(j)' <= 1 + incidents'
    BY <1>2, <2>2, <2>3, <2>4, CreditStep
  <2> QED
    BY <2>5 DEF Credit
<1> QED
  BY <1>1, <1>2 DEF RepeatsInv

LEMMA RepeatsInit == Init => RepeatsInv
<1> SUFFICES ASSUME Init PROVE RepeatsInv
  OBVIOUS
<1>1. ASSUME NEW j \in Jobs
      PROVE  /\ effects[j] <= Cardinality(Effective(j)) + incidents
             /\ effects[j] + Line(j) + Overdue(j) + Cardinality(Late(j)) <= 1 + incidents
  <2>1. Effective(j) = {} /\ Late(j) = {}
    BY <1>1, WorkerAssumption DEF Init, Effective, Late
  <2>2. Cardinality(Effective(j)) = 0 /\ Cardinality(Late(j)) = 0
    BY <2>1, FS_EmptySet
  <2>3. effects[j] = 0 /\ incidents = 0 /\ Line(j) \in {0, 1} /\ Overdue(j) = 0
    BY <1>1 DEF Init, Line, Overdue
  <2> QED
    BY <2>2, <2>3
<1> QED
  BY <1>1 DEF RepeatsInv

\* An event takes effect once, and once more at most for each process death,
\* raised store call or outlived lease; where processes share a worker id and a
\* lease was outlived, at most once more in each process besides.
THEOREM RepeatsAreIncidents == Spec => []RepeatsNeedIncidents
<1>1. TypeOK /\ ItemInv /\ HeldInv /\ ClaimInv /\ RepeatsInv /\ [Next]_vars /\ TypeOK' => RepeatsInv'
  BY RepeatsStep
<1>2. TypeOK /\ RepeatsInv => RepeatsNeedIncidents
  <2> SUFFICES ASSUME TypeOK, RepeatsInv, NEW j \in Jobs
               PROVE  effects[j] <= incidents + (IF Distinct \/ ~outlived THEN 1 ELSE Cardinality(Workers))
    BY DEF RepeatsNeedIncidents
  <2>1. Effective(j) \subseteq Workers /\ Late(j) \subseteq Workers
    BY DEF Effective, Late
  <2>2. /\ Cardinality(Effective(j)) \in Nat /\ Cardinality(Effective(j)) <= Cardinality(Workers)
        /\ Cardinality(Workers) \in Nat /\ Cardinality(Late(j)) \in Nat
    BY <2>1, WorkersCounted
  <2>3. effects[j] \in Nat /\ incidents \in Nat /\ Line(j) \in {0, 1} /\ Overdue(j) \in {0, 1}
    BY DEF TypeOK, Line, Overdue
  <2>4. effects[j] <= Cardinality(Effective(j)) + incidents
    BY DEF RepeatsInv
  <2>5. CASE Distinct \/ ~outlived
    <3>1. effects[j] + Line(j) + Overdue(j) + Cardinality(Late(j)) <= 1 + incidents
      BY <2>5 DEF RepeatsInv
    <3>2. effects[j] <= incidents + 1
      BY <2>2, <2>3, <3>1
    <3> QED
      BY <2>5, <3>2
  <2>6. CASE ~(Distinct \/ ~outlived)
    <3>1. effects[j] <= incidents + Cardinality(Workers)
      BY <2>2, <2>3, <2>4
    <3> QED
      BY <2>6, <3>1
  <2> QED
    BY <2>5, <2>6
<1> QED
  BY <1>1, <1>2, RepeatsInit, ClaimAlways, HeldAlways, TypeCorrect, PTL DEF Spec
=============================================================================
