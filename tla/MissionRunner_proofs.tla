------------------------ MODULE MissionRunner_proofs ------------------------
(***************************************************************************)
(* Proofs about MissionRunner, for any set of runners, any mission length, *)
(* any proofs and any crashes and faults: type correctness, single use of  *)
(* approval proofs, no second execution without a proven rollback, the     *)
(* order of the mission, completed outcomes that are no fiction, and the   *)
(* authority gates; then what a lone runner leaves that is not disturbed.  *)
(***************************************************************************)
EXTENDS MissionRunner, FiniteSetTheorems, TLAPS

(* Type correctness *)

\* What the type argument needs of the constant sets.
LEMMA Members ==
    /\ {"none", "completed", "failed", "rolled_back", "blocked"} \subseteq Outcome
    /\ {"absent", "reserved", "compensated"} \subseteq Reservation
    /\ StoreCalls \subseteq Control
    /\ {"idle", "authorize", "execute", "rollback", "block", "read", "reconcile_get",
        "reconcile_cas", "claim", "reserve", "reserve_cas", "compensate_get",
        "compensate_cas", "record"} \subseteq Control
    /\ 1 \in Steps
    /\ \A s \in Steps : s < NSteps => s + 1 \in Steps
    /\ None \notin Proofs /\ None \notin Steps
BY MissionAssumption DEF Outcome, Reservation, StoreCalls, Control, Steps

\* The variables keep their types in every behaviour of the runner.
THEOREM TypeCorrect == Spec => []TypeOK
<1> USE Members DEF TypeOK
<1>1. Init => TypeOK
  BY DEF Init
<1>2. TypeOK /\ [Next]_vars => TypeOK'
  <2> SUFFICES ASSUME TypeOK, [Next]_vars PROVE TypeOK'
    OBVIOUS
  <2> USE DEF durable, locals, world, Goto, Put, Advance
  <2>1. ASSUME NEW r \in Runners, Start(r) PROVE TypeOK'
    BY <2>1 DEF Start
  <2>2. ASSUME NEW r \in Runners, ReadOutcome(r) PROVE TypeOK'
    BY <2>2 DEF ReadOutcome
  <2>3. ASSUME NEW r \in Runners, ReconcileGet(r) PROVE TypeOK'
    BY <2>3 DEF ReconcileGet, CompensationGet
  <2>4. ASSUME NEW r \in Runners, ReconcileCas(r) PROVE TypeOK'
    BY <2>4 DEF ReconcileCas, CompensationCas
  <2>5. ASSUME NEW r \in Runners, Authorize(r) PROVE TypeOK'
    <3>1. pc' \in [Runners -> Control]
      BY <2>5 DEF Authorize
    <3>2. proof' \in [Runners -> Proofs \union {None}]
      BY <2>5 DEF Authorize
    <3> QED
      BY <2>5, <3>1, <3>2 DEF Authorize
  <2>6. ASSUME NEW r \in Runners, ClaimApproved(r) PROVE TypeOK'
    <3>1. step[r] \in Steps /\ pc' \in [Runners -> Control]
      BY <2>6 DEF ClaimApproved, Claimable, ClaimOnceAndReserve
    <3>2. reservation' \in [Steps -> Reservation]
      BY <2>6, <3>1 DEF ClaimApproved, Claimable, ClaimOnceAndReserve
    <3>3. approval' \in [Proofs -> Steps \union {None}]
      BY <2>6, <3>1 DEF ClaimApproved, Claimable, ClaimOnceAndReserve
    <3> QED
      BY <2>6, <3>1, <3>2, <3>3 DEF ClaimApproved, Claimable, ClaimOnceAndReserve
  <2>7. ASSUME NEW r \in Runners, ReserveInsert(r) PROVE TypeOK'
    BY <2>7 DEF ReserveInsert
  <2>8. ASSUME NEW r \in Runners, ReserveCas(r) PROVE TypeOK'
    BY <2>8 DEF ReserveCas
  <2>9. ASSUME NEW r \in Runners, Execute(r) PROVE TypeOK'
    BY <2>9 DEF Execute, Verdict
  <2>10. ASSUME NEW r \in Runners, Rollback(r) PROVE TypeOK'
    <3>1. step[r] \in Steps
      BY <2>10
    <3>2. live' \in [Steps -> Int]
      BY <2>10, <3>1 DEF Rollback
    <3>5. applied' \in [Runners -> BOOLEAN]
      BY <2>10 DEF Rollback
    <3>3. pc' \in [Runners -> Control] /\ pending' \in [Runners -> Outcome]
      BY <2>10 DEF Rollback
    <3>4. proven' \subseteq Steps
      BY <2>10, <3>1 DEF Rollback
    <3> QED
      BY <2>10, <3>2, <3>3, <3>4, <3>5 DEF Rollback
  <2>11. ASSUME NEW r \in Runners, CompensateGet(r) PROVE TypeOK'
    BY <2>11 DEF CompensateGet, CompensationGet
  <2>12. ASSUME NEW r \in Runners, CompensateCas(r) PROVE TypeOK'
    BY <2>12 DEF CompensateCas, CompensationCas
  <2>13. ASSUME NEW r \in Runners, RecordOutcome(r) PROVE TypeOK'
    <3>1. step[r] \in Steps /\ outcome' \in [Steps -> Outcome]
      BY <2>13 DEF RecordOutcome
    <3>2. done' \subseteq Steps
      BY <2>13, <3>1 DEF RecordOutcome
    <3>3. pc' \in [Runners -> Control] /\ step' \in [Runners -> Steps]
      BY <2>13, <3>1 DEF RecordOutcome
    <3> QED
      BY <2>13, <3>1, <3>2, <3>3 DEF RecordOutcome
  <2>14. ASSUME NEW r \in Runners, Block(r) PROVE TypeOK'
    BY <2>14 DEF Block
  <2>15. ASSUME NEW r \in Runners, PersistenceFault(r) PROVE TypeOK'
    BY <2>15 DEF PersistenceFault
  <2>16. ASSUME NEW r \in Runners, Crash(r) PROVE TypeOK'
    BY <2>16 DEF Crash
  <2>17. CASE UNCHANGED vars
    BY <2>17 DEF vars
  <2> QED
    BY <2>1, <2>2, <2>3, <2>4, <2>5, <2>6, <2>7, <2>8, <2>9, <2>10, <2>11,
       <2>12, <2>13, <2>14, <2>15, <2>16, <2>17 DEF Next, Progress
<1> QED
  BY <1>1, <1>2, PTL DEF Spec

-----------------------------------------------------------------------------
(* Approval proofs *)

\* Most steps of run() leave the approval ledger, the callbacks and the proofs
\* in hand alone, and lead to no claim and no callback.
QuietForApproval(r) ==
    /\ UNCHANGED <<approval, proofExecs, proof>>
    /\ \E l \in Control \ {"claim", "reserve", "execute"} :
         /\ l = "reserve_cas" => pc[r] = "reserve"
         /\ Goto(r, l)

LEMMA QuietSteps ==
    ASSUME TypeOK, NEW r \in Runners,
           \/ ReadOutcome(r) \/ ReconcileGet(r) \/ ReconcileCas(r) \/ Rollback(r)
           \/ CompensateGet(r) \/ CompensateCas(r) \/ RecordOutcome(r) \/ Block(r)
           \/ PersistenceFault(r) \/ Crash(r)
    PROVE  QuietForApproval(r)
<1> USE Members DEF QuietForApproval, durable, locals, world, Goto, Advance
<1>1. CASE ReadOutcome(r)
  BY <1>1 DEF ReadOutcome
<1>2. CASE ReconcileGet(r)
  BY <1>2 DEF ReconcileGet, CompensationGet
<1>3. CASE ReconcileCas(r)
  BY <1>3 DEF ReconcileCas, CompensationCas
<1>4. CASE Rollback(r)
  BY <1>4 DEF Rollback
<1>5. CASE CompensateGet(r)
  BY <1>5 DEF CompensateGet, CompensationGet
<1>6. CASE CompensateCas(r)
  BY <1>6 DEF CompensateCas, CompensationCas
<1>7. CASE RecordOutcome(r)
  BY <1>7 DEF RecordOutcome
<1>8. CASE Block(r)
  BY <1>8 DEF Block
<1>9. CASE PersistenceFault(r)
  BY <1>9 DEF PersistenceFault
<1>10. CASE Crash(r)
  BY <1>10 DEF Crash
<1> QED
  BY <1>1, <1>2, <1>3, <1>4, <1>5, <1>6, <1>7, <1>8, <1>9, <1>10

LEMMA ApprovalStep == TypeOK /\ ApprovalInv /\ [Next]_vars => ApprovalInv'
<1> SUFFICES ASSUME TypeOK, ApprovalInv, [Next]_vars PROVE ApprovalInv'
  OBVIOUS
<1> USE Members
<1>1. ASSUME NEW r \in Runners, QuietForApproval(r) PROVE ApprovalInv'
  BY <1>1 DEF TypeOK, ApprovalInv, QuietForApproval, Goto
<1>2. ASSUME NEW r \in Runners, Start(r) PROVE ApprovalInv'
  BY <1>2 DEF TypeOK, ApprovalInv, Start, Goto, durable, world
<1>3. ASSUME NEW r \in Runners, Authorize(r) PROVE ApprovalInv'
  <2>1. UNCHANGED <<approval, proofExecs>>
    BY <1>3 DEF Authorize, durable, world
  <2>2. \/ proof' = [proof EXCEPT ![r] = None] /\ pc' = [pc EXCEPT ![r] = "reserve"]
        \/ \E q \in Proofs : /\ proof' = [proof EXCEPT ![r] = q]
                            /\ pc' = [pc EXCEPT ![r] = "claim"]
        \/ UNCHANGED proof /\ pc' = [pc EXCEPT ![r] = "block"]
    BY <1>3 DEF Authorize, Goto
  <2>3. \A q \in Runners : pc'[q] = "execute" =>
                              pc[q] = "execute" /\ proof'[q] = proof[q]
    BY <2>2 DEF TypeOK
  <2> QED
    BY <2>1, <2>2, <2>3 DEF TypeOK, ApprovalInv
<1>4. ASSUME NEW r \in Runners, ClaimApproved(r) PROVE ApprovalInv'
  BY <1>4 DEF TypeOK, ApprovalInv, ClaimApproved, Claimable, ClaimOnceAndReserve, Goto, Put, locals, world
<1>5. ASSUME NEW r \in Runners, ReserveInsert(r) PROVE ApprovalInv'
  BY <1>5 DEF TypeOK, ApprovalInv, ReserveInsert, Goto, Put, locals, world
<1>6. ASSUME NEW r \in Runners, ReserveCas(r) PROVE ApprovalInv'
  BY <1>6 DEF TypeOK, ApprovalInv, ReserveCas, Goto, Put, locals, world
<1>7. ASSUME NEW r \in Runners, Execute(r) PROVE ApprovalInv'
  <2>1. /\ pc[r] = "execute" /\ UNCHANGED <<approval, proof>>
        /\ proofExecs' = IF proof[r] = None THEN proofExecs
                         ELSE [proofExecs EXCEPT ![proof[r]] = @ + 1]
        /\ \E l \in {"record", "rollback"} : pc' = [pc EXCEPT ![r] = l]
    BY <1>7 DEF Execute, Goto, durable
  <2>2. CASE proof[r] = None
    BY <2>1, <2>2 DEF TypeOK, ApprovalInv
  <2>3. CASE proof[r] # None
    <3>1. proof[r] \in Proofs /\ proofExecs[proof[r]] = 0 /\ approval[proof[r]] # None
      BY <2>1, <2>3 DEF TypeOK, ApprovalInv
    <3>2. \A p \in Proofs : proofExecs'[p] = IF p = proof[r] THEN 1 ELSE proofExecs[p]
      BY <2>1, <2>3, <3>1 DEF TypeOK
    <3>3. \A q \in Runners : pc'[q] = "execute" => q # r /\ pc[q] = "execute"
      BY <2>1 DEF TypeOK
    <3> QED
      BY <2>1, <3>1, <3>2, <3>3 DEF TypeOK, ApprovalInv
  <2> QED
    BY <2>2, <2>3
<1>8. CASE UNCHANGED vars
  BY <1>8 DEF ApprovalInv, vars, durable, locals, world
<1> QED
  BY <1>1, <1>2, <1>3, <1>4, <1>5, <1>6, <1>7, <1>8, QuietSteps DEF Next, Progress

\* A consumed approval proof never authorises a second callback, whoever
\* offers it again, on whatever step, after whatever crash or fault.
THEOREM ApprovalsAreSingleUse == Spec => []ApprovalSingleUse
<1>1. Init => ApprovalInv
  BY Members DEF Init, ApprovalInv
<1>2. ApprovalInv => ApprovalSingleUse
  BY DEF ApprovalInv, ApprovalSingleUse
<1> QED
  BY <1>1, <1>2, TypeCorrect, ApprovalStep, PTL DEF Spec

-----------------------------------------------------------------------------
(* The execution slot *)

LEMMA SlotStep == TypeOK /\ SlotInv /\ [Next]_vars => SlotInv'
<1> SUFFICES ASSUME TypeOK, SlotInv, [Next]_vars,
                    NEW s \in Steps, s \notin proven'
             PROVE  SlotTakenOnce(s)'
  BY DEF SlotInv
<1>p. proven \subseteq proven'
  <2>1. ASSUME NEW r \in Runners,
               Start(r) \/ ReadOutcome(r) \/ ReconcileGet(r) \/ ReconcileCas(r) \/ Authorize(r)
        PROVE  proven' = proven
    BY <2>1 DEF world, Start, ReadOutcome, ReconcileGet, ReconcileCas, CompensationCas, Authorize
  <2>2. ASSUME NEW r \in Runners,
               ClaimApproved(r) \/ ReserveInsert(r) \/ ReserveCas(r) \/ Execute(r)
        PROVE  proven' = proven
    BY <2>2 DEF world, ClaimApproved, Claimable, ClaimOnceAndReserve, ReserveInsert, ReserveCas, Execute
  <2>3. ASSUME NEW r \in Runners, Rollback(r) PROVE proven \subseteq proven'
    BY <2>3 DEF Rollback
  <2>4. ASSUME NEW r \in Runners,
               CompensateGet(r) \/ CompensateCas(r) \/ RecordOutcome(r) \/ Block(r)
        PROVE  proven' = proven
    BY <2>4 DEF world, CompensateGet, CompensateCas, CompensationCas, RecordOutcome, Block
  <2>5. ASSUME NEW r \in Runners, PersistenceFault(r) \/ Crash(r) PROVE proven' = proven
    BY <2>5 DEF world, PersistenceFault, Crash
  <2>6. UNCHANGED vars => proven' = proven
    BY DEF vars, world
  <2> QED
    BY <2>1, <2>2, <2>3, <2>4, <2>5, <2>6 DEF Next, Progress
<1>s. SlotTakenOnce(s)
  BY <1>p DEF SlotInv
<1> USE Members, <1>p, <1>s DEF TypeOK, SlotTakenOnce, Compensating, Goto, Put
<1>1. ASSUME NEW r \in Runners, Start(r) PROVE SlotTakenOnce(s)'
  BY <1>1 DEF Start, durable, world
<1>2. ASSUME NEW r \in Runners, ReadOutcome(r) PROVE SlotTakenOnce(s)'
  BY <1>2 DEF ReadOutcome, Advance, durable, world, locals
<1>3. ASSUME NEW r \in Runners, ReconcileGet(r) PROVE SlotTakenOnce(s)'
  BY <1>3 DEF ReconcileGet, CompensationGet, durable, world, locals
<1>4. ASSUME NEW r \in Runners, ReconcileCas(r) PROVE SlotTakenOnce(s)'
  BY <1>4 DEF ReconcileCas, CompensationCas, world, locals
<1>5. ASSUME NEW r \in Runners, Authorize(r) PROVE SlotTakenOnce(s)'
  <2>1. /\ pc[r] = "authorize"
        /\ \E to \in {"reserve", "claim", "block"} : pc' = [pc EXCEPT ![r] = to]
        /\ UNCHANGED <<step, pending, outcome, reservation, execs>>
    BY <1>5 DEF Authorize, durable, world
  <2> QED
    BY <2>1
<1>6. ASSUME NEW r \in Runners, ClaimApproved(r) PROVE SlotTakenOnce(s)'
  BY <1>6 DEF ClaimApproved, Claimable, ClaimOnceAndReserve, world, locals, Reservation
<1>7. ASSUME NEW r \in Runners, ReserveInsert(r) PROVE SlotTakenOnce(s)'
  BY <1>7 DEF ReserveInsert, world, locals
<1>8. ASSUME NEW r \in Runners, ReserveCas(r) PROVE SlotTakenOnce(s)'
  BY <1>8 DEF ReserveCas, world, locals
<1>9. ASSUME NEW r \in Runners, Execute(r) PROVE SlotTakenOnce(s)'
  BY <1>9 DEF Execute, Verdict, durable
<1>10. ASSUME NEW r \in Runners, Rollback(r) PROVE SlotTakenOnce(s)'
  BY <1>10 DEF Rollback, durable
<1>11. ASSUME NEW r \in Runners, CompensateGet(r) PROVE SlotTakenOnce(s)'
  BY <1>11 DEF CompensateGet, CompensationGet, durable, world
<1>12. ASSUME NEW r \in Runners, CompensateCas(r) PROVE SlotTakenOnce(s)'
  BY <1>12 DEF CompensateCas, CompensationCas, world
<1>13. ASSUME NEW r \in Runners, RecordOutcome(r) PROVE SlotTakenOnce(s)'
  BY <1>13 DEF RecordOutcome, Advance, world, locals
<1>14. ASSUME NEW r \in Runners, Block(r) PROVE SlotTakenOnce(s)'
  BY <1>14 DEF Block, world, locals
<1>15. ASSUME NEW r \in Runners, PersistenceFault(r) PROVE SlotTakenOnce(s)'
  BY <1>15 DEF PersistenceFault, durable, world, locals
<1>16. ASSUME NEW r \in Runners, Crash(r) PROVE SlotTakenOnce(s)'
  BY <1>16 DEF Crash, durable, world, locals
<1>17. CASE UNCHANGED vars
  BY <1>17 DEF vars, durable, world, locals
<1> QED
  BY <1>1, <1>2, <1>3, <1>4, <1>5, <1>6, <1>7, <1>8, <1>9, <1>10, <1>11,
     <1>12, <1>13, <1>14, <1>15, <1>16, <1>17 DEF Next, Progress

\* A step's callback runs again only after a proven rollback: a crash, a lost
\* record or a rival runner never makes an ambiguous attempt repeat itself.
THEOREM NoBlindReexecution == Spec => []ReexecutionNeedsProvenRollback
<1>1. Init => SlotInv
  BY Members DEF Init, SlotInv, SlotTakenOnce, Compensating
<1>2. TypeOK /\ SlotInv => ReexecutionNeedsProvenRollback
  BY DEF TypeOK, SlotInv, SlotTakenOnce, ReexecutionNeedsProvenRollback
<1> QED
  BY <1>1, <1>2, TypeCorrect, SlotStep, PTL DEF Spec

-----------------------------------------------------------------------------
(* The order of the mission *)

\* The loop moves on only past a step that is durably completed.
LEMMA AdvanceKeepsOrder ==
    ASSUME TypeOK, OrderInv, NEW r \in Runners, Advance(r), pc[r] # "idle",
           done \subseteq done', step[r] \in done'
    PROVE  \A q \in Runners : pc'[q] # "idle" => \A t \in 1..(step'[q]-1) : t \in done'
<1>1. \A q \in Runners : q # r => pc'[q] = pc[q] /\ step'[q] = step[q]
  BY DEF Advance, Goto, TypeOK
<1>2. pc'[r] # "idle" => step'[r] = step[r] + 1
  BY DEF Advance, Goto, TypeOK
<1>3. \A t \in 1..step[r] : t \in done'
  BY MissionAssumption DEF OrderInv, TypeOK, Steps
<1>4. ASSUME NEW q \in Runners, q # r, pc'[q] # "idle", NEW t \in 1..(step'[q]-1)
      PROVE  t \in done'
  BY <1>1, <1>4 DEF OrderInv
<1>5. ASSUME pc'[r] # "idle", NEW t \in 1..(step'[r]-1) PROVE t \in done'
  <2>1. step[r] \in Nat /\ t \in 1..(step[r] + 1 - 1)
    BY <1>2, <1>5, MissionAssumption DEF TypeOK, Steps
  <2> QED
    BY <1>3, <2>1
<1> QED
  BY <1>4, <1>5

LEMMA OrderStep == TypeOK /\ OrderInv /\ [Next]_vars => OrderInv'
<1> SUFFICES ASSUME TypeOK, OrderInv, [Next]_vars PROVE OrderInv'
  OBVIOUS
<1> USE Members DEF TypeOK, Goto, Put
<1>1. ASSUME NEW r \in Runners, Start(r) PROVE OrderInv'
  BY <1>1 DEF Start, OrderInv, MissionOrder, durable, world, Steps
<1>2. ASSUME NEW r \in Runners, ReadOutcome(r) PROVE OrderInv'
  <2>1. CASE outcome[step[r]] = "completed"
    <3>1. Advance(r) /\ UNCHANGED <<outcome, execs, done>> /\ step[r] \in done
      BY <1>2, <2>1 DEF ReadOutcome, OrderInv, durable, world
    <3> QED
      BY <1>2, <3>1, AdvanceKeepsOrder DEF ReadOutcome, OrderInv, MissionOrder
  <2>2. CASE outcome[step[r]] # "completed"
    BY <1>2, <2>2 DEF ReadOutcome, OrderInv, MissionOrder, durable, world, locals
  <2> QED
    BY <2>1, <2>2
<1>3. ASSUME NEW r \in Runners, ReconcileGet(r) PROVE OrderInv'
  BY <1>3 DEF ReconcileGet, CompensationGet, OrderInv, MissionOrder, durable, world, locals
<1>4. ASSUME NEW r \in Runners, ReconcileCas(r) PROVE OrderInv'
  BY <1>4 DEF ReconcileCas, CompensationCas, OrderInv, MissionOrder, world, locals
<1>5. ASSUME NEW r \in Runners, Authorize(r) PROVE OrderInv'
  BY <1>5 DEF Authorize, OrderInv, MissionOrder, durable, world
<1>6. ASSUME NEW r \in Runners, ClaimApproved(r) PROVE OrderInv'
  BY <1>6 DEF ClaimApproved, Claimable, ClaimOnceAndReserve, OrderInv, MissionOrder, world, locals
<1>7. ASSUME NEW r \in Runners, ReserveInsert(r) PROVE OrderInv'
  BY <1>7 DEF ReserveInsert, OrderInv, MissionOrder, world, locals
<1>8. ASSUME NEW r \in Runners, ReserveCas(r) PROVE OrderInv'
  BY <1>8 DEF ReserveCas, OrderInv, MissionOrder, world, locals
<1>9. ASSUME NEW r \in Runners, Execute(r) PROVE OrderInv'
  <2>1. /\ pc[r] = "execute" /\ UNCHANGED <<outcome, done, step>>
        /\ execs' = [execs EXCEPT ![step[r]] = @ + 1]
        /\ \E l \in {"record", "rollback"} : pc' = [pc EXCEPT ![r] = l]
    BY <1>9 DEF Execute, durable
  <2> QED
    BY <2>1 DEF OrderInv, MissionOrder
<1>10. ASSUME NEW r \in Runners, Rollback(r) PROVE OrderInv'
  BY <1>10 DEF Rollback, OrderInv, MissionOrder, durable
<1>11. ASSUME NEW r \in Runners, CompensateGet(r) PROVE OrderInv'
  BY <1>11 DEF CompensateGet, CompensationGet, OrderInv, MissionOrder, durable, world
<1>12. ASSUME NEW r \in Runners, CompensateCas(r) PROVE OrderInv'
  BY <1>12 DEF CompensateCas, CompensationCas, OrderInv, MissionOrder, world
<1>13. ASSUME NEW r \in Runners, RecordOutcome(r) PROVE OrderInv'
  <2>1. CASE pending[r] = "completed"
    <3>1. Advance(r) /\ done' = done \union {step[r]} /\ UNCHANGED execs
      BY <1>13, <2>1 DEF RecordOutcome, world
    <3> QED
      BY <1>13, <2>1, <3>1, AdvanceKeepsOrder DEF RecordOutcome, OrderInv, MissionOrder
  <2>2. CASE pending[r] # "completed"
    BY <1>13, <2>2 DEF RecordOutcome, OrderInv, MissionOrder, world, locals
  <2> QED
    BY <2>1, <2>2
<1>14. ASSUME NEW r \in Runners, Block(r) PROVE OrderInv'
  BY <1>14 DEF Block, OrderInv, MissionOrder, world, locals
<1>15. ASSUME NEW r \in Runners, PersistenceFault(r) PROVE OrderInv'
  <2>1. UNCHANGED <<outcome, done, execs, step>> /\ pc[r] # "idle"
    BY <1>15 DEF PersistenceFault, StoreCalls, durable, world, locals
  <2> QED
    BY <1>15, <2>1 DEF PersistenceFault, OrderInv, MissionOrder
<1>16. ASSUME NEW r \in Runners, Crash(r) PROVE OrderInv'
  BY <1>16 DEF Crash, OrderInv, MissionOrder, durable, world, locals
<1>17. CASE UNCHANGED vars
  BY <1>17 DEF OrderInv, MissionOrder, vars, durable, world, locals
<1> QED
  BY <1>1, <1>2, <1>3, <1>4, <1>5, <1>6, <1>7, <1>8, <1>9, <1>10, <1>11,
     <1>12, <1>13, <1>14, <1>15, <1>16, <1>17 DEF Next, Progress

\* A step's callback runs only after every earlier step was durably completed.
THEOREM StepsRunInOrder == Spec => []MissionOrder
<1>1. Init => OrderInv
  BY Members DEF Init, OrderInv, MissionOrder
<1>2. OrderInv => MissionOrder
  BY DEF OrderInv
<1> QED
  BY <1>1, <1>2, TypeCorrect, OrderStep, PTL DEF Spec

-----------------------------------------------------------------------------
(* The runners implement the slot ledger *)

LEMMA LedgerStep ==
    TypeOK /\ ApprovalInv /\ [Next]_vars => [Ledger!LedgerNext]_(Ledger!ledger)
<1> SUFFICES ASSUME TypeOK, ApprovalInv, [Next]_vars
             PROVE  Ledger!LedgerNext \/ UNCHANGED Ledger!ledger
  OBVIOUS
<1> DEFINE held  == {s \in Steps : reservation[s] = "reserved"}
           armed == [s \in Steps |-> {r \in Runners : pc[r] = "execute" /\ step[r] = s}]
           spent == {p \in Proofs : approval[p] # None}
<1> USE Members DEF TypeOK, Goto, Put
\* A step that neither writes the ledger nor enters or leaves a callback.
<1>q. ASSUME NEW r \in Runners, UNCHANGED <<reservation, approval, execs>>,
             pc[r] # "execute", NEW l \in Control \ {"execute"},
             pc' = [pc EXCEPT ![r] = l],
             \A q \in Runners : q # r => step'[q] = step[q]
      PROVE  UNCHANGED Ledger!ledger
  BY <1>q DEF Ledger!ledger
<1>c. ASSUME NEW r \in Runners, UNCHANGED <<approval, execs, step>>, pc[r] # "execute",
             reservation[step[r]] = "reserved",
             reservation' = [reservation EXCEPT ![step[r]] = "compensated"],
             NEW l \in Control \ {"execute"}, pc' = [pc EXCEPT ![r] = l]
      PROVE  Ledger!LedgerNext
  <2>1. PICK s \in Steps : s = step[r]
    OBVIOUS
  <2>2. Ledger!Release(s)
    BY <1>c, <2>1 DEF Ledger!Release
  <2> QED
    BY <2>2 DEF Ledger!LedgerNext
<1>g. ASSUME NEW r \in Runners, UNCHANGED <<execs, step>>, pc[r] # "execute",
             reservation[step[r]] # "reserved",
             reservation' = [reservation EXCEPT ![step[r]] = "reserved"],
             pc' = [pc EXCEPT ![r] = "execute"], NEW p \in Proofs \union {None},
             IF p = None THEN UNCHANGED approval
               ELSE approval[p] = None /\ approval' = [approval EXCEPT ![p] = step[r]]
      PROVE  Ledger!LedgerNext
  <2>1. PICK s \in Steps : s = step[r]
    OBVIOUS
  <2>2. held' = held \union {s} /\ s \notin held
    BY <1>g, <2>1
  <2>3. armed' = [armed EXCEPT ![s] = @ \union {r}]
    <3>1. \A t \in Steps : armed'[t] = IF t = s THEN armed[t] \union {r} ELSE armed[t]
      BY <1>g, <2>1
    <3> QED
      BY <3>1
  <2>4. p \notin spent /\ spent' = IF p = None THEN spent ELSE spent \union {p}
    BY <1>g
  <2>5. Ledger!Grant(r, s, p)
    BY <1>g, <2>2, <2>3, <2>4 DEF Ledger!Grant
  <2> QED
    BY <2>5 DEF Ledger!LedgerNext
<1>1. ASSUME NEW r \in Runners, Start(r) PROVE UNCHANGED Ledger!ledger
  BY <1>1, <1>q DEF Start, durable, world
<1>2. ASSUME NEW r \in Runners, ReadOutcome(r) PROVE UNCHANGED Ledger!ledger
  <2>1. /\ UNCHANGED <<reservation, approval, execs>> /\ pc[r] # "execute"
        /\ \A q \in Runners : q # r => step'[q] = step[q]
        /\ \E l \in Control \ {"execute"} : pc' = [pc EXCEPT ![r] = l]
    BY <1>2 DEF ReadOutcome, Advance, durable, world, locals
  <2> QED
    BY <2>1, <1>q
<1>3. ASSUME NEW r \in Runners, ReconcileGet(r) PROVE UNCHANGED Ledger!ledger
  BY <1>3, <1>q DEF ReconcileGet, CompensationGet, durable, world, locals
<1>4. ASSUME NEW r \in Runners, ReconcileCas(r) \/ CompensateCas(r)
      PROVE  Ledger!LedgerNext \/ UNCHANGED Ledger!ledger
  <2>1. /\ UNCHANGED <<approval, execs, step>> /\ pc[r] # "execute"
        /\ \E l \in Control \ {"execute"} : pc' = [pc EXCEPT ![r] = l]
        /\ \/ /\ reservation[step[r]] = "reserved"
              /\ reservation' = [reservation EXCEPT ![step[r]] = "compensated"]
           \/ UNCHANGED reservation
    BY <1>4 DEF ReconcileCas, CompensateCas, CompensationCas, world, locals
  <2> QED
    BY <2>1, <1>c, <1>q
<1>5. ASSUME NEW r \in Runners, Authorize(r) PROVE UNCHANGED Ledger!ledger
  <2>1. /\ UNCHANGED <<reservation, approval, execs, step>> /\ pc[r] # "execute"
        /\ \E l \in Control \ {"execute"} : pc' = [pc EXCEPT ![r] = l]
    BY <1>5 DEF Authorize, durable, world
  <2> QED
    BY <2>1, <1>q
<1>6. ASSUME NEW r \in Runners, ClaimApproved(r)
      PROVE  Ledger!LedgerNext \/ UNCHANGED Ledger!ledger
  <2>0. UNCHANGED <<execs, step>> /\ pc[r] # "execute"
    BY <1>6 DEF ClaimApproved, Claimable, ClaimOnceAndReserve, locals, world
  <2>1. CASE approval[proof[r]] = None /\ reservation[step[r]] # "reserved"
    BY <1>6, <2>0, <2>1, <1>g DEF ClaimApproved, Claimable, ClaimOnceAndReserve, ApprovalInv
  <2>2. CASE ~(approval[proof[r]] = None /\ reservation[step[r]] # "reserved")
    BY <1>6, <2>0, <2>2, <1>q DEF ClaimApproved, Claimable, ClaimOnceAndReserve
  <2> QED
    BY <2>1, <2>2
<1>7. ASSUME NEW r \in Runners, ReserveInsert(r) \/ ReserveCas(r)
      PROVE  Ledger!LedgerNext \/ UNCHANGED Ledger!ledger
  <2>0. UNCHANGED <<approval, execs, step>> /\ pc[r] # "execute"
    BY <1>7 DEF ReserveInsert, ReserveCas, locals, world
  <2>1. \/ /\ reservation[step[r]] # "reserved"
           /\ reservation' = [reservation EXCEPT ![step[r]] = "reserved"]
           /\ pc' = [pc EXCEPT ![r] = "execute"]
        \/ /\ UNCHANGED reservation
           /\ \E l \in Control \ {"execute"} : pc' = [pc EXCEPT ![r] = l]
    BY <1>7 DEF ReserveInsert, ReserveCas
  <2> QED
    BY <2>0, <2>1, <1>g, <1>q
<1>8. ASSUME NEW r \in Runners, Execute(r) PROVE Ledger!LedgerNext
  <2>1. /\ pc[r] = "execute" /\ UNCHANGED <<reservation, approval, step>>
        /\ execs' = [execs EXCEPT ![step[r]] = @ + 1]
        /\ \E l \in {"record", "rollback"} : pc' = [pc EXCEPT ![r] = l]
    BY <1>8 DEF Execute, durable
  <2>2. PICK s \in Steps : s = step[r]
    OBVIOUS
  <2>3. armed' = [armed EXCEPT ![s] = @ \ {r}]
    <3>1. \A t \in Steps : armed'[t] = IF t = s THEN armed[t] \ {r} ELSE armed[t]
      BY <2>1, <2>2
    <3> QED
      BY <3>1
  <2>4. Ledger!Begin(r, s)
    BY <2>1, <2>2, <2>3 DEF Ledger!Begin
  <2> QED
    BY <2>4 DEF Ledger!LedgerNext
<1>9. ASSUME NEW r \in Runners, Rollback(r) \/ CompensateGet(r) \/ Block(r) \/ PersistenceFault(r)
      PROVE  UNCHANGED Ledger!ledger
  <2>1. /\ UNCHANGED <<reservation, approval, execs, step>> /\ pc[r] # "execute"
        /\ \E l \in Control \ {"execute"} : pc' = [pc EXCEPT ![r] = l]
    BY <1>9 DEF Rollback, CompensateGet, CompensationGet, Block, PersistenceFault,
                StoreCalls, durable, world, locals
  <2> QED
    BY <2>1, <1>q
<1>10. ASSUME NEW r \in Runners, RecordOutcome(r) PROVE UNCHANGED Ledger!ledger
  <2>1. /\ UNCHANGED <<reservation, approval, execs>> /\ pc[r] # "execute"
        /\ \A q \in Runners : q # r => step'[q] = step[q]
        /\ \E l \in Control \ {"execute"} : pc' = [pc EXCEPT ![r] = l]
    BY <1>10 DEF RecordOutcome, Advance, world, locals
  <2> QED
    BY <2>1, <1>q
<1>11. ASSUME NEW r \in Runners, Crash(r) PROVE Ledger!LedgerNext \/ UNCHANGED Ledger!ledger
  <2>1. UNCHANGED <<reservation, approval, execs, step>> /\ pc' = [pc EXCEPT ![r] = "idle"]
    BY <1>11 DEF Crash, durable, world, locals
  <2>2. CASE pc[r] = "execute"
    <3>1. PICK s \in Steps : s = step[r]
      OBVIOUS
    <3>2. armed' = [armed EXCEPT ![s] = @ \ {r}]
      <4>1. \A t \in Steps : armed'[t] = IF t = s THEN armed[t] \ {r} ELSE armed[t]
        BY <2>1, <3>1
      <4> QED
        BY <4>1
    <3>3. Ledger!Forfeit(r, s)
      BY <2>1, <2>2, <3>1, <3>2 DEF Ledger!Forfeit
    <3> QED
      BY <3>3 DEF Ledger!LedgerNext
  <2>3. CASE pc[r] # "execute"
    BY <2>1, <2>3, <1>q
  <2> QED
    BY <2>2, <2>3
<1>12. CASE UNCHANGED vars
  BY <1>12 DEF Ledger!ledger, vars, durable, locals, world
<1> QED
  BY <1>1, <1>2, <1>3, <1>4, <1>5, <1>6, <1>7, <1>8, <1>9, <1>10, <1>11, <1>12
     DEF Next, Progress

\* Whatever the runners, crashes and faults do, the store grants a slot only
\* while it is free, one grant lets one callback begin, and a proof is spent in
\* the very step that takes the slot.
THEOREM RunnersImplementLedger == Spec => ImplementsLedger
<1>1. Init => Ledger!LedgerInit
  BY Members DEF Init, Ledger!LedgerInit
<1>2. Init => ApprovalInv
  BY Members DEF Init, ApprovalInv
<1> QED
  BY <1>1, <1>2, TypeCorrect, ApprovalStep, LedgerStep, PTL
     DEF Spec, ImplementsLedger, Ledger!LedgerSpec

-----------------------------------------------------------------------------
(* A completed outcome is no fiction *)

\* Except for the callbacks and the record of an outcome, no step puts a runner
\* in charge of a side effect or makes an outcome "completed".
QuietForEffects(r) ==
    /\ live' = live
    /\ \A s \in Steps : outcome'[s] = "completed" => outcome[s] = "completed"
    /\ \A q \in Runners \ {r} :
         step'[q] = step[q] /\ applied'[q] = applied[q] /\ pending'[q] = pending[q] /\ pc'[q] = pc[q]
    /\ pc'[r] # "rollback"
    /\ ~(pc'[r] = "record" /\ pending'[r] = "completed")

LEMMA QuietEffects ==
    ASSUME TypeOK, NEW r \in Runners,
           \/ Start(r) \/ ReadOutcome(r) \/ ReconcileGet(r) \/ ReconcileCas(r) \/ Authorize(r)
           \/ ClaimApproved(r) \/ ReserveInsert(r) \/ ReserveCas(r)
           \/ CompensateGet(r) \/ CompensateCas(r) \/ Block(r) \/ PersistenceFault(r) \/ Crash(r)
    PROVE  QuietForEffects(r)
<1> USE DEF TypeOK, QuietForEffects, durable, locals, world, Goto, Put, Advance
<1>1. CASE Start(r)
  BY <1>1 DEF Start
<1>2. CASE ReadOutcome(r)
  BY <1>2 DEF ReadOutcome
<1>3. CASE ReconcileGet(r)
  BY <1>3 DEF ReconcileGet, CompensationGet
<1>4. CASE ReconcileCas(r)
  BY <1>4 DEF ReconcileCas, CompensationCas
<1>5. CASE Authorize(r)
  BY <1>5 DEF Authorize
<1>6. CASE ClaimApproved(r)
  BY <1>6 DEF ClaimApproved, Claimable, ClaimOnceAndReserve
<1>7. CASE ReserveInsert(r)
  BY <1>7 DEF ReserveInsert
<1>8. CASE ReserveCas(r)
  BY <1>8 DEF ReserveCas
<1>9. CASE CompensateGet(r)
  BY <1>9 DEF CompensateGet, CompensationGet
<1>10. CASE CompensateCas(r)
  BY <1>10 DEF CompensateCas, CompensationCas
<1>11. CASE Block(r)
  BY <1>11 DEF Block
<1>12. CASE PersistenceFault(r)
  BY <1>12 DEF PersistenceFault
<1>13. CASE Crash(r)
  BY <1>13 DEF Crash
<1> QED
  BY <1>1, <1>2, <1>3, <1>4, <1>5, <1>6, <1>7, <1>8, <1>9, <1>10, <1>11, <1>12, <1>13

\* Whoever owes no more than before leaves no less behind.
LEMMA OwesLess ==
    ASSUME NEW S, IsFiniteSet(S), NEW T \in SUBSET S
    PROVE  IsFiniteSet(T) /\ Cardinality(T) <= Cardinality(S) /\ Cardinality(T) \in Nat /\ Cardinality(S) \in Nat
BY FS_Subset, FS_CardinalityType

LEMMA OwesOneLess ==
    ASSUME NEW S, NEW x \in S, IsFiniteSet(S), NEW T \in SUBSET (S \ {x})
    PROVE  /\ IsFiniteSet(T)
           /\ Cardinality(T) + 1 <= Cardinality(S) /\ Cardinality(T) \in Nat /\ Cardinality(S) \in Nat
<1>1. IsFiniteSet(S \ {x}) /\ Cardinality(S \ {x}) = Cardinality(S) - 1
  BY FS_RemoveElement
<1>2. IsFiniteSet(T) /\ Cardinality(T) <= Cardinality(S \ {x})
  BY <1>1, FS_Subset
<1>3. Cardinality(T) \in Nat /\ Cardinality(S) \in Nat
  BY <1>2, FS_CardinalityType
<1> QED
  BY <1>1, <1>2, <1>3

LEMMA OwesOneMore ==
    ASSUME NEW S, NEW x, IsFiniteSet(S), NEW T \in SUBSET (S \union {x})
    PROVE  /\ IsFiniteSet(T)
           /\ Cardinality(T) <= Cardinality(S) + 1 /\ Cardinality(T) \in Nat /\ Cardinality(S) \in Nat
<1>1. IsFiniteSet(S \union {x}) /\ Cardinality(S \union {x}) \in {Cardinality(S), Cardinality(S) + 1}
  BY FS_AddElement
<1>2. IsFiniteSet(T) /\ Cardinality(T) <= Cardinality(S \union {x})
  BY <1>1, FS_Subset
<1>3. Cardinality(T) \in Nat /\ Cardinality(S) \in Nat
  BY <1>2, FS_CardinalityType
<1> QED
  BY <1>1, <1>2, <1>3

LEMMA EffectStep == TypeOK /\ EffectInv /\ [Next]_vars => EffectInv'
<1> SUFFICES ASSUME TypeOK, EffectInv, [Next]_vars PROVE EffectInv'
  OBVIOUS
<1>1. ASSUME NEW r \in Runners, QuietForEffects(r) PROVE EffectInv'
  <2>1. \A q \in Runners : pc'[q] = "record" /\ pending'[q] = "completed" => applied'[q]
    BY <1>1 DEF QuietForEffects, EffectInv
  <2>2. ASSUME NEW s \in Steps
        PROVE  /\ IsFiniteSet(Owing(s)')
               /\ live'[s] >= Cardinality(Owing(s)') + (IF outcome'[s] = "completed" THEN 1 ELSE 0)
    <3>1. Owing(s)' \subseteq Owing(s)
      BY <1>1 DEF QuietForEffects, Owing
    <3>2. IsFiniteSet(Owing(s))
      BY DEF EffectInv
    <3>3. IsFiniteSet(Owing(s)') /\ Cardinality(Owing(s)') <= Cardinality(Owing(s))
          /\ Cardinality(Owing(s)') \in Nat /\ Cardinality(Owing(s)) \in Nat
      BY <3>1, <3>2, OwesLess
    <3> QED
      BY <1>1, <3>3 DEF QuietForEffects, EffectInv, TypeOK
  <2> QED
    BY <2>1, <2>2 DEF EffectInv
<1>2. ASSUME NEW r \in Runners, Execute(r) PROVE EffectInv'
  <2>1. PICK did \in BOOLEAN :
          /\ applied' = [applied EXCEPT ![r] = did]
          /\ live' = [live EXCEPT ![step[r]] = IF did THEN @ + 1 ELSE @]
          /\ pc'[r] = "record" /\ pending'[r] = "completed" => did
    BY <1>2 DEF Execute, Verdict, Goto, TypeOK
  <2>2. /\ outcome' = outcome /\ step' = step /\ pc[r] = "execute"
        /\ \A q \in Runners \ {r} : applied'[q] = applied[q] /\ pending'[q] = pending[q] /\ pc'[q] = pc[q]
    BY <1>2 DEF Execute, Goto, TypeOK, durable
  <2>3. \A q \in Runners : pc'[q] = "record" /\ pending'[q] = "completed" => applied'[q]
    BY <2>1, <2>2 DEF EffectInv, TypeOK
  <2>4. ASSUME NEW s \in Steps
        PROVE  /\ IsFiniteSet(Owing(s)')
               /\ live'[s] >= Cardinality(Owing(s)') + (IF outcome'[s] = "completed" THEN 1 ELSE 0)
    <3>1. IsFiniteSet(Owing(s))
      BY DEF EffectInv
    <3>2. CASE s = step[r] /\ did
      <4>1. Owing(s)' \subseteq Owing(s) \union {r}
        BY <2>2 DEF Owing
      <4>2. IsFiniteSet(Owing(s)') /\ Cardinality(Owing(s)') <= Cardinality(Owing(s)) + 1
            /\ Cardinality(Owing(s)') \in Nat /\ Cardinality(Owing(s)) \in Nat
        BY <3>1, <4>1, OwesOneMore
      <4>3. live'[s] = live[s] + 1
        BY <2>1, <3>2 DEF TypeOK
      <4> QED
        BY <2>2, <4>2, <4>3 DEF EffectInv, TypeOK
    <3>3. CASE ~(s = step[r] /\ did)
      <4>1. Owing(s)' \subseteq Owing(s)
        BY <2>1, <2>2, <3>3 DEF Owing, TypeOK
      <4>2. IsFiniteSet(Owing(s)') /\ Cardinality(Owing(s)') <= Cardinality(Owing(s))
            /\ Cardinality(Owing(s)') \in Nat /\ Cardinality(Owing(s)) \in Nat
        BY <3>1, <4>1, OwesLess
      <4>3. live'[s] = live[s]
        BY <2>1, <3>3 DEF TypeOK
      <4> QED
        BY <2>2, <4>2, <4>3 DEF EffectInv, TypeOK
    <3> QED
      BY <3>2, <3>3
  <2> QED
    BY <2>3, <2>4 DEF EffectInv
<1>3. ASSUME NEW r \in Runners, Rollback(r) PROVE EffectInv'
  <2>1. /\ outcome' = outcome /\ step' = step /\ pc[r] = "rollback" /\ step[r] \in Steps
        /\ ~(pc'[r] = "record" /\ pending'[r] = "completed") /\ pc'[r] # "rollback"
        /\ \A q \in Runners \ {r} : applied'[q] = applied[q] /\ pending'[q] = pending[q] /\ pc'[q] = pc[q]
    BY <1>3 DEF Rollback, Goto, TypeOK, durable
  <2>2. \A q \in Runners : pc'[q] = "record" /\ pending'[q] = "completed" => applied'[q]
    BY <2>1 DEF EffectInv
  <2>3. ASSUME NEW s \in Steps
        PROVE  /\ IsFiniteSet(Owing(s)')
               /\ live'[s] >= Cardinality(Owing(s)') + (IF outcome'[s] = "completed" THEN 1 ELSE 0)
    <3>1. IsFiniteSet(Owing(s))
      BY DEF EffectInv
    <3>2. Owing(s)' \subseteq Owing(s) \ {r}
      BY <2>1 DEF Owing
    <3>3. CASE s = step[r] /\ applied[r]
      <4>1. r \in Owing(s)
        BY <2>1, <3>3 DEF Owing
      <4>2. IsFiniteSet(Owing(s)') /\ Cardinality(Owing(s)') + 1 <= Cardinality(Owing(s))
            /\ Cardinality(Owing(s)') \in Nat /\ Cardinality(Owing(s)) \in Nat
        BY <3>1, <3>2, <4>1, OwesOneLess
      <4>3. live'[s] = live[s] - 1 \/ live' = live
        BY <1>3, <3>3 DEF Rollback, TypeOK
      <4> QED
        BY <2>1, <4>2, <4>3 DEF EffectInv, TypeOK
    <3>4. CASE ~(s = step[r] /\ applied[r])
      <4>1. Owing(s)' \subseteq Owing(s)
        BY <3>2
      <4>2. IsFiniteSet(Owing(s)') /\ Cardinality(Owing(s)') <= Cardinality(Owing(s))
            /\ Cardinality(Owing(s)') \in Nat /\ Cardinality(Owing(s)) \in Nat
        BY <3>1, <4>1, OwesLess
      <4>3. live'[s] = live[s]
        BY <1>3, <3>4 DEF Rollback, TypeOK
      <4> QED
        BY <2>1, <4>2, <4>3 DEF EffectInv, TypeOK
    <3> QED
      BY <3>3, <3>4
  <2> QED
    BY <2>2, <2>3 DEF EffectInv
<1>4. ASSUME NEW r \in Runners, RecordOutcome(r) PROVE EffectInv'
  <2>1. /\ live' = live /\ pc[r] = "record" /\ pc'[r] \notin {"record", "rollback"} /\ step[r] \in Steps
        /\ outcome' = [outcome EXCEPT ![step[r]] = pending[r]] /\ applied' = applied /\ pending' = pending
        /\ \A q \in Runners \ {r} : step'[q] = step[q] /\ pc'[q] = pc[q]
    BY <1>4 DEF RecordOutcome, Advance, Goto, Put, TypeOK, locals, world
  <2>2. \A q \in Runners : pc'[q] = "record" /\ pending'[q] = "completed" => applied'[q]
    BY <2>1 DEF EffectInv
  <2>3. ASSUME NEW s \in Steps
        PROVE  /\ IsFiniteSet(Owing(s)')
               /\ live'[s] >= Cardinality(Owing(s)') + (IF outcome'[s] = "completed" THEN 1 ELSE 0)
    <3>1. IsFiniteSet(Owing(s))
      BY DEF EffectInv
    <3>2. Owing(s)' \subseteq Owing(s) \ {r}
      BY <2>1 DEF Owing
    <3>3. CASE s = step[r] /\ pending[r] = "completed"
      <4>1. r \in Owing(s)
        BY <2>1, <3>3 DEF Owing, EffectInv
      <4>2. IsFiniteSet(Owing(s)') /\ Cardinality(Owing(s)') + 1 <= Cardinality(Owing(s))
            /\ Cardinality(Owing(s)') \in Nat /\ Cardinality(Owing(s)) \in Nat
        BY <3>1, <3>2, <4>1, OwesOneLess
      <4>3. live[s] \in Int /\ live[s] >= Cardinality(Owing(s))
        BY <4>2 DEF EffectInv, TypeOK
      <4> QED
        BY <2>1, <4>2, <4>3
    <3>4. CASE ~(s = step[r] /\ pending[r] = "completed")
      <4>1. Owing(s)' \subseteq Owing(s)
        BY <3>2
      <4>2. IsFiniteSet(Owing(s)') /\ Cardinality(Owing(s)') <= Cardinality(Owing(s))
            /\ Cardinality(Owing(s)') \in Nat /\ Cardinality(Owing(s)) \in Nat
        BY <3>1, <4>1, OwesLess
      <4>3. outcome'[s] = "completed" => outcome[s] = "completed"
        BY <2>1, <3>4 DEF TypeOK
      <4> QED
        BY <2>1, <4>2, <4>3 DEF EffectInv, TypeOK
    <3> QED
      BY <3>3, <3>4
  <2> QED
    BY <2>2, <2>3 DEF EffectInv
<1>5. CASE UNCHANGED vars
  <2>1. \A s \in Steps : Owing(s)' = Owing(s)
    BY <1>5 DEF Owing, vars, locals
  <2> QED
    BY <1>5, <2>1 DEF EffectInv, vars, durable, locals, world
<1> QED
  BY <1>1, <1>2, <1>3, <1>4, <1>5, QuietEffects DEF Next, Progress

\* A durable "completed" is never fiction, whoever crashes, retries or rolls
\* back beside it: a rollback undoes the side effect of its own callback only,
\* and that one no other runner has recorded.
THEOREM CompletedIsDone == Spec => []CompletedMeansDone
<1>1. Init => EffectInv
  <2> SUFFICES ASSUME Init PROVE EffectInv
    OBVIOUS
  <2>1. \A s \in Steps : Owing(s) = {}
    BY DEF Init, Owing
  <2>2. \A s \in Steps : IsFiniteSet(Owing(s)) /\ Cardinality(Owing(s)) = 0
    BY <2>1, FS_EmptySet
  <2>3. \A s \in Steps : live[s] = 0 /\ outcome[s] # "completed"
    BY DEF Init
  <2>4. \A r \in Runners : pc[r] # "record"
    BY DEF Init
  <2> QED
    BY <2>2, <2>3, <2>4 DEF EffectInv
<1>2. TypeOK /\ EffectInv => CompletedMeansDone
  <2> SUFFICES ASSUME TypeOK, EffectInv, NEW s \in Steps, outcome[s] = "completed" PROVE live[s] >= 1
    BY DEF CompletedMeansDone
  <2>1. Cardinality(Owing(s)) \in Nat
    BY FS_CardinalityType DEF EffectInv
  <2> QED
    BY <2>1 DEF EffectInv, TypeOK
<1> QED
  BY <1>1, <1>2, TypeCorrect, EffectStep, PTL DEF Spec

-----------------------------------------------------------------------------
(* The gates *)

\* A step past the gates is inside the envelope, and the governance kernel
\* asks a proof exactly of the steps that are not routine.
LEMMA GatesDecide ==
    ASSUME NEW s \in Steps, plan[s] \in StepProfile
    PROVE  /\ GovernanceDecision(plan[s]) = "proceed" => IsRoutine(s)
           /\ GovernanceDecision(plan[s]) = "approval_required" => ~IsRoutine(s)
           /\ \A approved \in BOOLEAN : KernelAllows(plan[s], approved) => Admissible(plan[s])
BY EnvelopeAssumption DEF GovernanceDecision, KernelAllows, Admissible, IsRoutine, StepProfile, Risk, High

\* Steps that lead to no claim and no callback.
QuietForGates(r) ==
    /\ approval' = approval /\ execs' = execs /\ plan' = plan
    /\ \A q \in Runners \ {r} : step'[q] = step[q] /\ pc'[q] = pc[q] /\ proof'[q] = proof[q]
    /\ pc[r] # "execute"
    /\ \/ pc'[r] \notin {"reserve", "reserve_cas", "claim", "execute"}
       \/ step'[r] = step[r] /\ Admissible(plan[step[r]]) /\
            (\/ pc'[r] \in {"reserve", "reserve_cas"} /\ IsRoutine(step[r])
             \/ pc'[r] = "claim" /\ ~IsRoutine(step[r]) /\ proof'[r] \in Proofs)

LEMMA QuietGates ==
    ASSUME TypeOK, GateInv, NEW r \in Runners,
           \/ Start(r) \/ ReadOutcome(r) \/ ReconcileGet(r) \/ ReconcileCas(r) \/ Authorize(r)
           \/ Rollback(r) \/ CompensateGet(r) \/ CompensateCas(r) \/ RecordOutcome(r)
           \/ Block(r) \/ PersistenceFault(r)
    PROVE  QuietForGates(r)
<1> USE DEF TypeOK, QuietForGates, durable, locals, world, Goto, Put, Advance
<1>1. CASE Start(r)
  BY <1>1 DEF Start
<1>2. CASE ReadOutcome(r)
  BY <1>2 DEF ReadOutcome
<1>3. CASE ReconcileGet(r)
  BY <1>3 DEF ReconcileGet, CompensationGet
<1>4. CASE ReconcileCas(r)
  BY <1>4 DEF ReconcileCas, CompensationCas
<1>5. CASE Authorize(r)
  <2>0. step[r] \in Steps /\ plan[step[r]] \in StepProfile
    BY MissionAssumption
  <2>1. CASE /\ GovernanceDecision(plan[step[r]]) = "proceed" /\ KernelAllows(plan[step[r]], FALSE)
             /\ Goto(r, "reserve")
    <3>1. IsRoutine(step[r]) /\ Admissible(plan[step[r]])
      BY <2>0, <2>1, GatesDecide
    <3> QED
      BY <1>5, <2>1, <3>1 DEF Authorize
  <2>2. CASE /\ GovernanceDecision(plan[step[r]]) = "approval_required" /\ KernelAllows(plan[step[r]], TRUE)
             /\ \E q \in Proofs : proof' = [proof EXCEPT ![r] = q]
             /\ Goto(r, "claim")
    <3>1. ~IsRoutine(step[r]) /\ Admissible(plan[step[r]])
      BY <2>0, <2>2, GatesDecide
    <3> QED
      BY <1>5, <2>2, <3>1 DEF Authorize
  <2>3. CASE UNCHANGED proof /\ Goto(r, "block")
    BY <1>5, <2>3 DEF Authorize
  <2> QED
    BY <1>5, <2>1, <2>2, <2>3 DEF Authorize
<1>6. CASE Rollback(r)
  BY <1>6 DEF Rollback
<1>7. CASE CompensateGet(r)
  BY <1>7 DEF CompensateGet, CompensationGet
<1>8. CASE CompensateCas(r)
  BY <1>8 DEF CompensateCas, CompensationCas
<1>9. CASE RecordOutcome(r)
  BY <1>9 DEF RecordOutcome
<1>10. CASE Block(r)
  BY <1>10 DEF Block
<1>11. CASE PersistenceFault(r)
  BY <1>11 DEF PersistenceFault, StoreCalls
<1> QED
  BY <1>1, <1>2, <1>3, <1>4, <1>5, <1>6, <1>7, <1>8, <1>9, <1>10, <1>11

\* The part of GateInv that is about where the runners are.
PastTheGates ==
    \A r \in Runners :
        /\ pc[r] \in {"reserve", "reserve_cas", "claim", "execute"} => Admissible(plan[step[r]])
        /\ pc[r] \in {"reserve", "reserve_cas"} => IsRoutine(step[r])
        /\ pc[r] = "claim" => ~IsRoutine(step[r]) /\ proof[r] \in Proofs

\* The part that counts proofs and callbacks.
Accounted(s) ==
    /\ IsFiniteSet(ClaimedBy(s)) /\ IsFiniteSet(Armed(s))
    /\ execs[s] > 0 => Admissible(plan[s])
    /\ IsRoutine(s) => ClaimedBy(s) = {}
    /\ Cardinality(ClaimedBy(s)) >= Admitted(s)
    /\ ~Crashes => Cardinality(ClaimedBy(s)) = Admitted(s)

LEMMA GateParts == GateInv <=> PastTheGates /\ \A s \in Steps : Accounted(s)
BY DEF GateInv, PastTheGates, Accounted

\* A step that adds r to the armed runners of its step, takes it away, or
\* leaves all as they are.
LEMMA ArmedGrows ==
    ASSUME NEW s \in Steps, IsFiniteSet(Armed(s)), NEW r \in Runners, r \notin Armed(s),
           Armed(s)' = Armed(s) \union {r}
    PROVE  /\ IsFiniteSet(Armed(s)') /\ Cardinality(Armed(s)') = Cardinality(Armed(s)) + 1
           /\ Cardinality(Armed(s)) \in Nat
BY FS_AddElement, FS_CardinalityType

LEMMA ArmedShrinks ==
    ASSUME NEW s \in Steps, IsFiniteSet(Armed(s)), NEW r \in Armed(s),
           Armed(s)' = Armed(s) \ {r}
    PROVE  /\ IsFiniteSet(Armed(s)') /\ Cardinality(Armed(s)') = Cardinality(Armed(s)) - 1
           /\ Cardinality(Armed(s)) \in Nat
BY FS_RemoveElement, FS_CardinalityType

LEMMA GateStep == TypeOK /\ GateInv /\ [Next]_vars => GateInv'
<1> SUFFICES ASSUME TypeOK, GateInv, [Next]_vars PROVE PastTheGates' /\ \A s \in Steps : Accounted(s)'
  BY DEF GateInv, PastTheGates, Accounted
<1>0. PastTheGates /\ \A s \in Steps : Accounted(s)
  BY GateParts
<1>n. \A s \in Steps : execs[s] \in Nat /\ Cardinality(Armed(s)) \in Nat /\ Cardinality(ClaimedBy(s)) \in Nat
  BY <1>0, FS_CardinalityType DEF Accounted, TypeOK
<1>1. ASSUME NEW r \in Runners, QuietForGates(r) PROVE PastTheGates' /\ \A s \in Steps : Accounted(s)'
  <2>1. PastTheGates'
    BY <1>0, <1>1 DEF QuietForGates, PastTheGates, IsRoutine
  <2>2. ASSUME NEW s \in Steps PROVE Accounted(s)'
    <3>1. Armed(s)' = Armed(s) /\ ClaimedBy(s)' = ClaimedBy(s) /\ IsRoutine(s)' = IsRoutine(s)
      BY <1>1 DEF QuietForGates, Armed, ClaimedBy, IsRoutine
    <3> QED
      BY <1>0, <1>1, <3>1 DEF QuietForGates, Accounted, Admitted
  <2> QED
    BY <2>1, <2>2
<1>2. ASSUME NEW r \in Runners, ReserveInsert(r) \/ ReserveCas(r)
      PROVE  PastTheGates' /\ \A s \in Steps : Accounted(s)'
  <2>1. /\ approval' = approval /\ execs' = execs /\ plan' = plan /\ step' = step /\ proof' = proof
        /\ \A q \in Runners \ {r} : pc'[q] = pc[q]
        /\ pc[r] \in {"reserve", "reserve_cas"} /\ pc'[r] \in {"reserve_cas", "execute", "block"}
    BY <1>2 DEF ReserveInsert, ReserveCas, Goto, TypeOK, durable, locals, world
  <2>2. PastTheGates'
    BY <1>0, <2>1 DEF PastTheGates, IsRoutine
  <2>3. ASSUME NEW s \in Steps PROVE Accounted(s)'
    <3>1. ClaimedBy(s)' = ClaimedBy(s) /\ (IsRoutine(s)' <=> IsRoutine(s)) /\ r \notin Armed(s)
      BY <2>1 DEF Armed, ClaimedBy, IsRoutine
    <3>2. CASE pc'[r] = "execute" /\ s = step[r]
      <4>1. Armed(s)' = Armed(s) \union {r} /\ IsRoutine(s)
        BY <1>0, <2>1, <3>2 DEF Armed, PastTheGates
      <4>2. IsFiniteSet(Armed(s)')
        BY <1>0, <3>1, <4>1, ArmedGrows DEF Accounted
      <4> QED
        BY <1>0, <2>1, <3>1, <4>1, <4>2 DEF Accounted, Admitted
    <3>3. CASE ~(pc'[r] = "execute" /\ s = step[r])
      <4>1. Armed(s)' = Armed(s)
        BY <2>1, <3>3 DEF Armed
      <4> QED
        BY <1>0, <2>1, <3>1, <4>1 DEF Accounted, Admitted
    <3> QED
      BY <3>2, <3>3
  <2> QED
    BY <2>2, <2>3
<1>3. ASSUME NEW r \in Runners, ClaimApproved(r) PROVE PastTheGates' /\ \A s \in Steps : Accounted(s)'
  <2>1. /\ execs' = execs /\ plan' = plan /\ step' = step /\ proof' = proof
        /\ \A q \in Runners \ {r} : pc'[q] = pc[q]
        /\ pc[r] = "claim" /\ pc'[r] \in {"execute", "block"}
    BY <1>3 DEF ClaimApproved, Claimable, ClaimOnceAndReserve, Goto, TypeOK, locals, world
  <2>2. /\ pc'[r] = "execute" => approval[proof[r]] = None /\ approval' = [approval EXCEPT ![proof[r]] = step[r]]
        /\ pc'[r] = "block" => approval' = approval
    BY <1>3 DEF ClaimApproved, Claimable, ClaimOnceAndReserve, Goto, Put, TypeOK
  <2>3. proof[r] \in Proofs /\ ~IsRoutine(step[r]) /\ step[r] \in Steps
    BY <1>0, <2>1 DEF PastTheGates, TypeOK
  <2>4. PastTheGates'
    BY <1>0, <2>1 DEF PastTheGates, IsRoutine
  <2>5. ASSUME NEW s \in Steps PROVE Accounted(s)'
    <3>1. (IsRoutine(s)' <=> IsRoutine(s)) /\ r \notin Armed(s)
      BY <2>1 DEF Armed, IsRoutine
    <3>2. CASE pc'[r] = "execute" /\ s = step[r]
      <4>1. Armed(s)' = Armed(s) \union {r} /\ ~IsRoutine(s)
        BY <2>1, <2>3, <3>2 DEF Armed
      <4>2. IsFiniteSet(Armed(s)') /\ Cardinality(Armed(s)') = Cardinality(Armed(s)) + 1
        BY <1>0, <3>1, <4>1, ArmedGrows DEF Accounted
      <4>3. ClaimedBy(s)' = ClaimedBy(s) \union {proof[r]} /\ proof[r] \notin ClaimedBy(s)
        BY <2>2, <2>3, <3>2, Members DEF ClaimedBy, TypeOK
      <4>4. IsFiniteSet(ClaimedBy(s)') /\ Cardinality(ClaimedBy(s)') = Cardinality(ClaimedBy(s)) + 1
        <5>1. IsFiniteSet(ClaimedBy(s))
          BY <1>0 DEF Accounted
        <5> QED
          BY <4>3, <5>1, FS_AddElement
      <4>5. Admitted(s)' = Admitted(s) + 1 /\ Admitted(s) \in Nat
        BY <1>n, <2>1, <3>1, <4>1, <4>2 DEF Admitted
      <4>6. /\ Cardinality(ClaimedBy(s)') >= Admitted(s)'
            /\ ~Crashes => Cardinality(ClaimedBy(s)') = Admitted(s)'
        BY <1>0, <1>n, <4>4, <4>5 DEF Accounted
      <4>7. (execs'[s] > 0 => Admissible(plan'[s])) /\ ~IsRoutine(s)'
        BY <1>0, <2>1, <3>1, <4>1 DEF Accounted
      <4> QED
        BY <4>2, <4>4, <4>6, <4>7 DEF Accounted
    <3>3. CASE ~(pc'[r] = "execute" /\ s = step[r])
      <4>1. Armed(s)' = Armed(s)
        BY <2>1, <3>3 DEF Armed
      <4>2. ClaimedBy(s)' = ClaimedBy(s)
        BY <2>1, <2>2, <2>3, <3>3, Members DEF ClaimedBy, TypeOK
      <4> QED
        BY <1>0, <2>1, <3>1, <4>1, <4>2 DEF Accounted, Admitted
    <3> QED
      BY <3>2, <3>3
  <2> QED
    BY <2>4, <2>5
<1>4. ASSUME NEW r \in Runners, Execute(r) PROVE PastTheGates' /\ \A s \in Steps : Accounted(s)'
  <2>1. /\ approval' = approval /\ plan' = plan /\ step' = step /\ proof' = proof
        /\ \A q \in Runners \ {r} : pc'[q] = pc[q]
        /\ pc[r] = "execute" /\ pc'[r] \in {"record", "rollback"}
        /\ execs' = [execs EXCEPT ![step[r]] = @ + 1]
    BY <1>4 DEF Execute, Goto, TypeOK, durable
  <2>2. PastTheGates'
    BY <1>0, <2>1 DEF PastTheGates, IsRoutine
  <2>3. ASSUME NEW s \in Steps PROVE Accounted(s)'
    <3>1. ClaimedBy(s)' = ClaimedBy(s) /\ (IsRoutine(s)' <=> IsRoutine(s))
      BY <2>1 DEF ClaimedBy, IsRoutine
    <3>2. CASE s = step[r]
      <4>1. Armed(s)' = Armed(s) \ {r} /\ r \in Armed(s) /\ Admissible(plan[s])
        BY <1>0, <2>1, <3>2 DEF Armed, PastTheGates
      <4>2. IsFiniteSet(Armed(s)') /\ Cardinality(Armed(s)') = Cardinality(Armed(s)) - 1
        BY <1>0, <4>1, ArmedShrinks DEF Accounted
      <4>3. execs'[s] = execs[s] + 1
        BY <2>1, <3>2 DEF TypeOK
      <4>4. Admitted(s)' = Admitted(s)
        BY <1>n, <3>1, <4>2, <4>3 DEF Admitted
      <4> QED
        BY <1>0, <2>1, <3>1, <4>1, <4>2, <4>4 DEF Accounted
    <3>3. CASE s # step[r]
      <4>1. Armed(s)' = Armed(s) /\ execs'[s] = execs[s]
        BY <2>1, <3>3 DEF Armed, TypeOK
      <4> QED
        BY <1>0, <2>1, <3>1, <4>1 DEF Accounted, Admitted
    <3> QED
      BY <3>2, <3>3
  <2> QED
    BY <2>2, <2>3
<1>5. ASSUME NEW r \in Runners, Crash(r) PROVE PastTheGates' /\ \A s \in Steps : Accounted(s)'
  <2>1. /\ approval' = approval /\ execs' = execs /\ plan' = plan /\ step' = step /\ proof' = proof /\ Crashes
        /\ pc' = [pc EXCEPT ![r] = "idle"]
    BY <1>5 DEF Crash, Goto, durable, locals, world
  <2>2. PastTheGates'
    BY <1>0, <2>1 DEF PastTheGates, IsRoutine, TypeOK
  <2>3. ASSUME NEW s \in Steps PROVE Accounted(s)'
    <3>1. ClaimedBy(s)' = ClaimedBy(s) /\ (IsRoutine(s)' <=> IsRoutine(s)) /\ Armed(s)' \subseteq Armed(s)
      BY <2>1 DEF ClaimedBy, IsRoutine, Armed, TypeOK
    <3>2. IsFiniteSet(Armed(s)') /\ Cardinality(Armed(s)') <= Cardinality(Armed(s)) /\ Cardinality(Armed(s)') \in Nat
      BY <1>0, <3>1, FS_Subset, FS_CardinalityType DEF Accounted
    <3>3. Admitted(s)' <= Admitted(s) /\ Admitted(s)' \in Nat /\ Admitted(s) \in Nat
      BY <1>n, <2>1, <3>1, <3>2 DEF Admitted
    <3>4. Cardinality(ClaimedBy(s)') >= Admitted(s)'
      BY <1>0, <1>n, <3>1, <3>3 DEF Accounted
    <3> QED
      BY <1>0, <2>1, <3>1, <3>2, <3>4 DEF Accounted
  <2> QED
    BY <2>2, <2>3
<1>6. CASE UNCHANGED vars
  BY <1>0, <1>6 DEF PastTheGates, Accounted, Admitted, IsRoutine, ClaimedBy, Armed, vars, durable, locals, world
<1> QED
  BY <1>1, <1>2, <1>3, <1>4, <1>5, <1>6, QuietGates DEF Next, Progress

LEMMA GateInit == Init => GateInv
<1> SUFFICES ASSUME Init PROVE GateInv
  OBVIOUS
<1>1. /\ \A r \in Runners : pc[r] = "idle"
      /\ \A p \in Proofs : approval[p] = None
      /\ \A s \in Steps : execs[s] = 0
  BY DEF Init
<1>2. \A s \in Steps : Armed(s) = {} /\ ClaimedBy(s) = {}
  BY <1>1, Members DEF Armed, ClaimedBy
<1>3. \A s \in Steps : Cardinality(Armed(s)) = 0 /\ Cardinality(ClaimedBy(s)) = 0
                       /\ IsFiniteSet(Armed(s)) /\ IsFiniteSet(ClaimedBy(s))
  BY <1>2, FS_EmptySet
<1> QED
  BY <1>1, <1>2, <1>3 DEF GateInv, Admitted

\* Whatever crashes and faults do, a step that runs is inside the envelope, and
\* as many approvals were consumed for a consequential one as callbacks begun.
THEOREM CallbacksApproved == Spec => []NoUnapprovedCallback
<1>1. TypeOK /\ GateInv => NoUnapprovedCallback
  <2> SUFFICES ASSUME TypeOK, GateInv, NEW s \in Steps, ~IsRoutine(s)
               PROVE  execs[s] <= Cardinality(ClaimedBy(s))
    BY DEF NoUnapprovedCallback, GateInv
  <2>1. execs[s] \in Nat /\ Cardinality(Armed(s)) \in Nat /\ Cardinality(ClaimedBy(s)) \in Nat
    BY FS_CardinalityType DEF GateInv, TypeOK
  <2> QED
    BY <2>1 DEF GateInv, Admitted
<1> QED
  BY <1>1, GateInit, GateStep, TypeCorrect, PTL DEF Spec

\* While no process dies, no approval is burnt and none is missing, whatever
\* the runners do at the same time and whichever store calls raise: a
\* consequential step has spent exactly one for each of its callbacks, a
\* routine one takes none.
THEOREM GatesHold ==
    ASSUME ~Crashes
    PROVE  Spec => []AuthorityRespected
<1>1. GateInv => AuthorityRespected
  <2> SUFFICES ASSUME GateInv, NEW s \in Steps
               PROVE  /\ execs[s] > 0 => Admissible(plan[s])
                      /\ Cardinality(ClaimedBy(s)) = Admitted(s)
    BY DEF AuthorityRespected, Admissible, Admitted
  <2> QED
    BY DEF GateInv
<1> QED
  BY <1>1, GateInit, GateStep, TypeCorrect, PTL DEF Spec

-----------------------------------------------------------------------------
(* A lone runner                                                           *)

\* The governance kernel lets a routine step proceed that the mission kernel
\* allows.
LEMMA RoutineProceeds ==
    ASSUME NEW s \in Steps, plan[s] \in StepProfile, IsRoutine(s), KernelAllows(plan[s], FALSE)
    PROVE  GovernanceDecision(plan[s]) = "proceed"
BY DEF GovernanceDecision, KernelAllows, IsRoutine, StepProfile, Risk, High

\* SerialInv for one runner: a step that ends up blocked though the gates let
\* it pass has its slot taken.
Wedged(r) == pc[r] = "block" /\ IsRoutine(step[r]) /\ KernelAllows(plan[step[r]], FALSE)
Alone(r) ==
    /\ pc[r] # "reconcile_cas"
    /\ pc[r] = "claim" => ~IsRoutine(step[r])
    /\ Wedged(r) => reservation[step[r]] = "reserved"
    /\ \A s \in Steps : IF s = step[r] THEN Underway(r, s) ELSE Truthful(s)

\* The steps that write neither the store nor the world.
LEMMA AloneMoves ==
    ASSUME TypeOK, NEW r \in Runners, Alone(r),
           Start(r) \/ ReadOutcome(r) \/ ReconcileGet(r) \/ Authorize(r) \/ CompensateGet(r)
    PROVE  Alone(r)'
<1> USE DEF Alone, TypeOK, Goto
<1>0. step[r] \in Steps /\ Underway(r, step[r]) /\ \A s \in Steps : s # step[r] => Truthful(s)
  OBVIOUS
<1>1. CASE Start(r)
  <2>1. \A s \in Steps : Truthful(s)
    BY <1>0, <1>1 DEF Start, Underway
  <2>2. \A s \in Steps : Truthful(s)'
    BY <1>1, <2>1 DEF Start, Truthful, durable, world
  <2>3. pc'[r] = "read"
    BY <1>1 DEF Start
  <2> QED
    BY <2>2, <2>3 DEF Underway, Wedged
<1>2. CASE ReadOutcome(r)
  <2>1. \A s \in Steps : Truthful(s)
    BY <1>0, <1>2 DEF ReadOutcome, Underway
  <2>2. \A s \in Steps : Truthful(s)'
    BY <1>2, <2>1 DEF ReadOutcome, Truthful, durable, world
  <2>3. CASE outcome[step[r]] = "completed" /\ Advance(r)
    <3>1. pc'[r] \in {"read", "idle"}
      BY <2>3 DEF Advance
    <3> QED
      BY <2>2, <3>1 DEF Underway, Wedged
  <2>4. CASE outcome[step[r]] = "rolled_back" /\ Goto(r, "reconcile_get") /\ UNCHANGED locals
    <3>1. pc'[r] = "reconcile_get" /\ outcome'[step'[r]] = "rolled_back"
      BY <1>2, <2>4 DEF ReadOutcome, durable, locals
    <3> QED
      BY <2>2, <3>1 DEF Underway, Wedged
  <2>5. CASE outcome[step[r]] \notin {"completed", "rolled_back"} /\ Goto(r, "authorize") /\ UNCHANGED locals
    <3>1. pc'[r] = "authorize" /\ outcome'[step'[r]] # "completed"
      BY <1>2, <2>5 DEF ReadOutcome, durable, locals
    <3> QED
      BY <2>2, <3>1 DEF Underway, Wedged
  <2> QED
    BY <1>2, <2>3, <2>4, <2>5 DEF ReadOutcome
<1>3. CASE ReconcileGet(r)
  <2>1. Truthful(step[r]) /\ outcome[step[r]] = "rolled_back"
    BY <1>0, <1>3 DEF ReconcileGet, CompensationGet, Underway
  <2>2. reservation[step[r]] = "compensated"
    BY <2>1 DEF Truthful
  <2>3. pc'[r] = "authorize" /\ UNCHANGED <<outcome, reservation, live, step>>
    BY <1>3, <2>2 DEF ReconcileGet, CompensationGet, durable, locals, world
  <2>4. \A s \in Steps : Truthful(s)'
    BY <1>0, <2>1, <2>3 DEF Truthful
  <2> QED
    BY <2>1, <2>3, <2>4 DEF Underway, Wedged
<1>4. CASE Authorize(r)
  <2>1. Truthful(step[r]) /\ outcome[step[r]] # "completed"
    BY <1>0, <1>4 DEF Authorize, Underway
  <2>2. UNCHANGED <<outcome, reservation, live, step, plan>>
    BY <1>4 DEF Authorize, durable, world
  <2>3. plan[step[r]] \in StepProfile
    BY <1>0, MissionAssumption
  <2>4. /\ pc'[r] \in {"reserve", "claim", "block"}
        /\ pc'[r] = "claim" => GovernanceDecision(plan[step[r]]) = "approval_required"
        /\ pc'[r] = "block" => GovernanceDecision(plan[step[r]]) # "proceed" \/ ~KernelAllows(plan[step[r]], FALSE)
    BY <1>4 DEF Authorize
  <2>5. pc'[r] = "claim" => ~IsRoutine(step[r])
    BY <1>0, <2>3, <2>4, GatesDecide
  <2>6. pc'[r] = "block" => ~(IsRoutine(step[r]) /\ KernelAllows(plan[step[r]], FALSE))
    BY <1>0, <2>3, <2>4, RoutineProceeds
  <2>7. ~Wedged(r)' /\ (pc'[r] = "claim" => ~IsRoutine(step[r])')
    BY <2>2, <2>5, <2>6 DEF Wedged, IsRoutine, KernelAllows
  <2>8. \A s \in Steps : Truthful(s)'
    BY <1>0, <2>1, <2>2 DEF Truthful
  <2> QED
    BY <2>1, <2>2, <2>4, <2>7, <2>8 DEF Underway
<1>5. CASE CompensateGet(r)
  <2>1. reservation[step[r]] = "reserved" /\ live[step[r]] = 0
    BY <1>0, <1>5 DEF CompensateGet, CompensationGet, Underway
  <2>2. pc'[r] = "compensate_cas" /\ UNCHANGED <<outcome, reservation, live, step>>
    BY <1>5, <2>1 DEF CompensateGet, CompensationGet, durable, world
  <2>3. \A s \in Steps : s # step[r] => Truthful(s)'
    BY <1>0, <2>2 DEF Truthful
  <2> QED
    BY <2>1, <2>2, <2>3 DEF Underway, Wedged
<1> QED
  BY <1>1, <1>2, <1>3, <1>4, <1>5

\* The steps that take, keep or give back the slot.
LEMMA AloneSlot ==
    ASSUME TypeOK, NEW r \in Runners, Alone(r),
           ClaimApproved(r) \/ ReserveInsert(r) \/ ReserveCas(r) \/ CompensateCas(r)
    PROVE  Alone(r)'
<1> USE DEF Alone, TypeOK, Goto, Put
<1>0. step[r] \in Steps /\ Underway(r, step[r]) /\ \A s \in Steps : s # step[r] => Truthful(s)
  OBVIOUS
<1>1. CASE CompensateCas(r)
  <2>1. reservation[step[r]] = "reserved" /\ live[step[r]] = 0
    BY <1>0, <1>1 DEF CompensateCas, CompensationCas, Underway
  <2>2. /\ pc'[r] = "record" /\ pending'[r] = "rolled_back"
        /\ reservation' = [reservation EXCEPT ![step[r]] = "compensated"]
        /\ UNCHANGED <<outcome, live, step>>
    BY <1>1, <2>1 DEF CompensateCas, CompensationCas, world
  <2>3. \A s \in Steps : s # step[r] => Truthful(s)'
    BY <1>0, <2>2 DEF Truthful
  <2> QED
    BY <1>0, <2>1, <2>2, <2>3 DEF Underway, Wedged
<1>2. CASE ClaimApproved(r) \/ ReserveInsert(r) \/ ReserveCas(r)
  <2>1. Truthful(step[r]) /\ outcome[step[r]] # "completed" /\ pc[r] \in {"claim", "reserve", "reserve_cas"}
    BY <1>0, <1>2 DEF ClaimApproved, Claimable, ClaimOnceAndReserve, ReserveInsert, ReserveCas, Underway
  <2>2. UNCHANGED <<outcome, live, step, plan>>
    BY <1>2 DEF ClaimApproved, Claimable, ClaimOnceAndReserve, ReserveInsert, ReserveCas, locals, world
  <2>3. CASE pc'[r] = "execute" /\ reservation[step[r]] # "reserved"
             /\ reservation' = [reservation EXCEPT ![step[r]] = "reserved"]
    <3>1. live[step[r]] = 0
      BY <2>1, <2>3 DEF Truthful
    <3>2. \A s \in Steps : s # step[r] => Truthful(s)'
      BY <1>0, <2>2, <2>3 DEF Truthful
    <3> QED
      BY <1>0, <2>2, <2>3, <3>1, <3>2 DEF Underway, Wedged
  <2>4. CASE /\ reservation' = reservation /\ pc'[r] \in {"reserve_cas", "block"}
             /\ pc'[r] = "reserve_cas" => reservation[step[r]] # "absent"
             /\ pc'[r] = "block" => reservation[step[r]] = "reserved" \/ ~IsRoutine(step[r])
    <3>1. \A s \in Steps : Truthful(s)'
      BY <1>0, <2>1, <2>2, <2>4 DEF Truthful
    <3>2. Wedged(r)' => reservation'[step'[r]] = "reserved"
      BY <2>2, <2>4 DEF Wedged, IsRoutine
    <3> QED
      BY <2>1, <2>2, <2>4, <3>1, <3>2 DEF Underway
  <2>5. CASE ClaimApproved(r)
    <3>1. ~IsRoutine(step[r])
      BY <2>5 DEF ClaimApproved, Claimable, ClaimOnceAndReserve
    <3> QED
      BY <2>3, <2>4, <2>5, <3>1 DEF ClaimApproved, Claimable, ClaimOnceAndReserve
  <2>6. CASE ReserveInsert(r)
    BY <2>3, <2>4, <2>6 DEF ReserveInsert
  <2>7. CASE ReserveCas(r)
    <3>1. reservation[step[r]] \in {"reserved", "compensated"}
      BY <1>0, <2>7 DEF ReserveCas, Underway, Reservation
    <3> QED
      BY <2>3, <2>4, <2>7, <3>1 DEF ReserveCas
  <2> QED
    BY <1>2, <2>5, <2>6, <2>7
<1> QED
  BY <1>1, <1>2

\* The callbacks and the outcome.
LEMMA AloneWrites ==
    ASSUME TypeOK, NEW r \in Runners, Alone(r), ~Faults,
           Execute(r) \/ Rollback(r) \/ RecordOutcome(r) \/ Block(r)
    PROVE  Alone(r)'
<1> USE DEF Alone, TypeOK, Goto, Put
<1>0. step[r] \in Steps /\ Underway(r, step[r]) /\ \A s \in Steps : s # step[r] => Truthful(s)
  OBVIOUS
<1>1. CASE Execute(r)
  <2>1. reservation[step[r]] = "reserved" /\ live[step[r]] = 0
    BY <1>0, <1>1 DEF Execute, Underway
  <2>2. UNCHANGED <<outcome, reservation, step>>
    BY <1>1 DEF Execute, durable
  <2>3. PICK ok, did \in BOOLEAN :
          /\ ok => did
          /\ applied' = [applied EXCEPT ![r] = did]
          /\ live' = [live EXCEPT ![step[r]] = IF did THEN @ + 1 ELSE @]
          /\ pending' = [pending EXCEPT ![r] = Verdict(ok)]
          /\ Goto(r, IF Verdict(ok) = "completed" THEN "record" ELSE "rollback")
    BY <1>1 DEF Execute
  <2>4. live'[step[r]] = (IF did THEN 1 ELSE 0) /\ \A s \in Steps : s # step[r] => live'[s] = live[s]
    BY <1>0, <2>1, <2>3
  <2>5. \A s \in Steps : s # step[r] => Truthful(s)'
    BY <1>0, <2>2, <2>4 DEF Truthful
  <2>6. CASE ok
    <3>1. pc'[r] = "record" /\ pending'[r] = "completed" /\ live'[step[r]] = 1
      BY <2>3, <2>4, <2>6 DEF Verdict
    <3> QED
      BY <2>1, <2>2, <2>5, <3>1 DEF Underway, Wedged
  <2>7. CASE ~ok
    <3>1. pc'[r] = "rollback" /\ applied'[r] = did
      BY <2>3, <2>7 DEF Verdict
    <3> QED
      BY <2>1, <2>2, <2>4, <2>5, <3>1 DEF Underway, Wedged
  <2> QED
    BY <2>6, <2>7
<1>2. CASE Rollback(r)
  <2>1. reservation[step[r]] = "reserved" /\ live[step[r]] = (IF applied[r] THEN 1 ELSE 0)
    BY <1>0, <1>2 DEF Rollback, Underway
  <2>2. UNCHANGED <<outcome, reservation, step>>
    BY <1>2 DEF Rollback, durable
  <2>3. CASE /\ live' = [live EXCEPT ![step[r]] = IF applied[r] THEN @ - 1 ELSE @]
             /\ Goto(r, "compensate_get")
    <3>1. live'[step[r]] = 0 /\ \A s \in Steps : s # step[r] => live'[s] = live[s]
      BY <1>0, <2>1, <2>3
    <3>2. \A s \in Steps : s # step[r] => Truthful(s)'
      BY <1>0, <2>2, <3>1 DEF Truthful
    <3>3. pc'[r] = "compensate_get"
      BY <2>3
    <3> QED
      BY <2>1, <2>2, <3>1, <3>2, <3>3 DEF Underway, Wedged
  <2>4. CASE live' = live /\ pending' = [pending EXCEPT ![r] = "failed"] /\ Goto(r, "record")
    <3>1. \A s \in Steps : s # step[r] => Truthful(s)'
      BY <1>0, <2>2, <2>4 DEF Truthful
    <3>2. pc'[r] = "record" /\ pending'[r] = "failed" /\ live'[step[r]] \in {0, 1}
      BY <2>1, <2>4
    <3> QED
      BY <2>1, <2>2, <3>1, <3>2 DEF Underway, Wedged
  <2> QED
    BY <1>2, <2>3, <2>4 DEF Rollback
<1>3. CASE RecordOutcome(r)
  <2>1. /\ outcome' = [outcome EXCEPT ![step[r]] = pending[r]]
        /\ UNCHANGED <<reservation, live>> /\ pc[r] = "record" /\ pc'[r] \in {"read", "idle"}
    BY <1>3 DEF RecordOutcome, Advance, world
  <2>2. \A s \in Steps : s = step[r] => Truthful(s)'
    BY <1>0, <2>1 DEF Underway, Truthful
  <2>3. \A s \in Steps : s # step[r] => Truthful(s)'
    BY <1>0, <2>1 DEF Truthful
  <2>4. \A s \in Steps : Truthful(s)'
    BY <2>2, <2>3
  <2> QED
    BY <2>1, <2>4 DEF Underway, Wedged
<1>4. CASE Block(r)
  <2>1. Truthful(step[r])
    BY <1>0, <1>4 DEF Block, Underway
  <2>2. /\ outcome' = [outcome EXCEPT ![step[r]] = "blocked"] /\ UNCHANGED <<reservation, live>>
        /\ pc'[r] = "idle"
    BY <1>4 DEF Block, world
  <2>3. \A s \in Steps : Truthful(s)'
    BY <1>0, <2>1, <2>2 DEF Truthful
  <2> QED
    BY <2>2, <2>3 DEF Underway, Wedged
<1> QED
  BY <1>1, <1>2, <1>3, <1>4

LEMMA SerialStep ==
    TypeOK /\ SerialInv /\ ~Crashes /\ ~Faults /\ (\A r, q \in Runners : r = q) /\ [Next]_vars
    => SerialInv'
<1> SUFFICES ASSUME TypeOK, SerialInv, ~Crashes, ~Faults, \A r, q \in Runners : r = q, [Next]_vars,
                    NEW r \in Runners
             PROVE  Alone(r)'
  BY DEF SerialInv, Alone, Wedged
<1>1. Alone(r)
  BY DEF SerialInv, Alone, Wedged
<1>2. ~ReconcileCas(r) /\ ~CompensationCas(r, "reconcile_cas", "authorize", "block")
  BY <1>1 DEF Alone, ReconcileCas, CompensationCas
<1>3. CASE UNCHANGED vars
  BY <1>1, <1>3 DEF Alone, Wedged, IsRoutine, KernelAllows, Underway, Truthful, vars, durable, locals, world
<1> QED
  BY <1>1, <1>2, <1>3, AloneMoves, AloneSlot, AloneWrites DEF Next, Progress, PersistenceFault, Crash

LEMMA SerialInit == Init => SerialInv
<1> SUFFICES ASSUME Init, NEW r \in Runners PROVE Alone(r)
  BY DEF SerialInv, Alone, Wedged
<1>1. pc[r] = "idle" /\ \A s \in Steps : live[s] = 0 /\ outcome[s] = "none" /\ reservation[s] = "absent"
  BY DEF Init
<1>2. \A s \in Steps : Truthful(s)
  BY <1>1 DEF Truthful
<1> QED
  BY <1>1, <1>2 DEF Alone, Underway, Wedged

\* When no process dies and the store never fails, a lone runner's outcomes
\* tell the truth about side effect and slot whenever run() has returned.
THEOREM OutcomesAreTrue ==
    ASSUME \A r, q \in Runners : r = q, Runners # {}, ~Crashes, ~Faults
    PROVE  Spec => []OutcomeTellsTheWorld
<1>1. SerialInv => OutcomeTellsTheWorld
  <2> SUFFICES ASSUME SerialInv, \A r \in Runners : pc[r] = "idle", NEW s \in Steps
               PROVE  Truthful(s)
    BY DEF OutcomeTellsTheWorld, Truthful
  <2>1. PICK r \in Runners : TRUE
    OBVIOUS
  <2> QED
    BY <2>1 DEF SerialInv, Underway
<1>2. TypeOK /\ SerialInv /\ [Next]_vars => SerialInv'
  BY SerialStep
<1> QED
  BY <1>1, <1>2, SerialInit, TypeCorrect, PTL DEF Spec

\* A step the gates admit is never blocked by its own proven rollback: its slot
\* was compensated before "rolled_back" was recorded, and is taken again.
THEOREM RetriesNotWedged ==
    ASSUME \A r, q \in Runners : r = q, ~Crashes, ~Faults
    PROVE  Spec => []RetryNotWedged
<1>1. SerialInv /\ TypeOK => RetryNotWedged
  <2> SUFFICES ASSUME SerialInv, TypeOK, NEW r \in Runners, Wedged(r)
               PROVE  outcome[step[r]] \in {"failed", "blocked"} /\ reservation[step[r]] = "reserved"
    BY DEF RetryNotWedged, Wedged
  <2>1. step[r] \in Steps /\ reservation[step[r]] = "reserved" /\ Underway(r, step[r]) /\ outcome[step[r]] \in Outcome
    BY DEF SerialInv, TypeOK, Wedged
  <2>2. Truthful(step[r]) /\ outcome[step[r]] # "completed"
    BY <2>1 DEF Underway, Wedged
  <2> QED
    BY <2>1, <2>2 DEF Truthful, Outcome
<1>2. TypeOK /\ SerialInv /\ [Next]_vars => SerialInv'
  BY SerialStep
<1> QED
  BY <1>1, <1>2, SerialInit, TypeCorrect, PTL DEF Spec

\* And at most one side effect of a step is in place; two processes, a crash
\* or a lost write can break it (mission_stale_rollback).
THEOREM OneSideEffect ==
    ASSUME \A r, q \in Runners : r = q, ~Crashes, ~Faults
    PROVE  Spec => []AtMostOneSideEffect
<1>1. CASE Runners = {}
  <2>1. Init => AtMostOneSideEffect
    BY DEF Init, AtMostOneSideEffect
  <2>2. AtMostOneSideEffect /\ [Next]_vars => AtMostOneSideEffect'
    BY <1>1 DEF Next, AtMostOneSideEffect, vars, world
  <2> QED
    BY <2>1, <2>2, PTL DEF Spec
<1>2. CASE Runners # {}
  <2>1. SerialInv => AtMostOneSideEffect
    <3> SUFFICES ASSUME SerialInv, NEW s \in Steps PROVE live[s] \in {0, 1}
      BY DEF AtMostOneSideEffect
    <3>1. PICK r \in Runners : TRUE
      BY <1>2
    <3>2. IF s = step[r] THEN Underway(r, s) ELSE Truthful(s)
      BY <3>1 DEF SerialInv
    <3> QED
      BY <3>2 DEF Underway, Truthful
  <2>2. TypeOK /\ SerialInv /\ [Next]_vars => SerialInv'
    BY SerialStep
  <2> QED
    BY <2>1, <2>2, SerialInit, TypeCorrect, PTL DEF Spec
<1> QED
  BY <1>1, <1>2
=============================================================================
