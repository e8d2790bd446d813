---------------------------- MODULE MissionRunner ----------------------------
(***************************************************************************)
(* BoundedMissionRunner (mission_autonomy.py) over the durable state store *)
(* (durable_state.py): processes run the steps of one mission in order,    *)
(* any number of times, and share nothing but the SQLite store.  A durable *)
(* outcome, an execution reservation and the consumed approval proofs      *)
(* decide whether a step's callback may run.  Every store transaction and  *)
(* every callback is one atomic step; between two of them other runners    *)
(* move, the process may crash, and a store call may raise.                *)
(***************************************************************************)
EXTENDS MissionAuthority, FiniteSets

CONSTANTS
    Runners,         \* processes that may run the mission
    NSteps,          \* the mission is the sequence of steps 1..NSteps
    Proofs,          \* human approval proofs (their SHA-256 digests)
    Profiles,        \* the step profiles a mission is planned from
    None,            \* no proof
    MaxRuns,         \* bound: calls of run() in a behaviour
    Crashes,         \* may a process die between two atomic steps?
    Faults           \* may a store transaction raise without effect?

Steps == 1..NSteps

ASSUME MissionAssumption ==
    /\ NSteps \in Nat \ {0}
    /\ None \notin Proofs \union Steps
    /\ Profiles \subseteq StepProfile
    /\ MaxRuns \in Nat
    /\ Crashes \in BOOLEAN /\ Faults \in BOOLEAN

VARIABLES
    (* the durable store *)
    outcome,         \* OutcomeAudit.PREFIX: the last outcome of each step
    reservation,     \* RESERVATION_PREFIX: the execution slot of each step
    approval,        \* APPROVAL_PREFIX: the step that consumed each proof
    (* each runner's call of run() *)
    pc, step, proof,
    applied,         \* did its callback leave a side effect in place?
    pending,         \* the outcome it is about to record
    (* the mission and the world *)
    plan,            \* the profile of each step
    runs,            \* calls of run() so far
    live,            \* side effects in place and not rolled back, by step
    execs,           \* callbacks begun, by step
    proofExecs,      \* callbacks begun under each proof
    proven,          \* steps some rollback of which was proven
    done             \* steps some "completed" record of which was written

durable == <<outcome, reservation, approval>>
locals  == <<step, proof, applied, pending>>
world   == <<live, execs, proofExecs, proven>>
vars    == <<durable, pc, locals, plan, runs, world, done>>

Outcome     == {"none", "completed", "failed", "rolled_back", "blocked"}
Reservation == {"absent", "reserved", "compensated"}
StoreCalls  == {"read", "reconcile_get", "reconcile_cas", "claim", "reserve",
                "reserve_cas", "compensate_get", "compensate_cas", "record"}
Control     == StoreCalls \union {"idle", "authorize", "execute", "rollback", "block"}

TypeOK ==
    /\ outcome \in [Steps -> Outcome]
    /\ reservation \in [Steps -> Reservation]
    /\ approval \in [Proofs -> Steps \union {None}]
    /\ pc \in [Runners -> Control]
    /\ step \in [Runners -> Steps]
    /\ proof \in [Runners -> Proofs \union {None}]
    /\ applied \in [Runners -> BOOLEAN]
    /\ pending \in [Runners -> Outcome]
    /\ plan \in [Steps -> Profiles]
    /\ runs \in Nat
    /\ live \in [Steps -> Int]
    /\ execs \in [Steps -> Nat]
    /\ proofExecs \in [Proofs -> Nat]
    /\ proven \subseteq Steps
    /\ done \subseteq Steps

Init ==
    /\ outcome = [s \in Steps |-> "none"]
    /\ reservation = [s \in Steps |-> "absent"]
    /\ approval = [p \in Proofs |-> None]
    /\ pc = [r \in Runners |-> "idle"]
    /\ step = [r \in Runners |-> 1]
    /\ proof = [r \in Runners |-> None]
    /\ applied = [r \in Runners |-> FALSE]
    /\ pending = [r \in Runners |-> "none"]
    /\ plan \in [Steps -> Profiles]
    /\ runs = 0
    /\ live = [s \in Steps |-> 0]
    /\ execs = [s \in Steps |-> 0]
    /\ proofExecs = [p \in Proofs |-> 0]
    /\ proven = {}
    /\ done = {}

-----------------------------------------------------------------------------
(* Control helpers *)

Goto(r, l) == pc' = [pc EXCEPT ![r] = l]

\* A store update by compare and set, insert or upsert.
Put(f, k, v) == [f EXCEPT ![k] = v]

\* The loop's "continue": the next step, or return from run().
\* Mutation: off by one at the end of the mission.
AdvancePastEnd(r) ==
    /\ IF step[r] <= NSteps
         THEN step' = [step EXCEPT ![r] = @ + 1] /\ Goto(r, "read")
         ELSE UNCHANGED step /\ Goto(r, "idle")
    /\ UNCHANGED <<proof, applied, pending>>
Advance(r) ==
    /\ IF step[r] < NSteps
         THEN step' = [step EXCEPT ![r] = @ + 1] /\ Goto(r, "read")
         ELSE UNCHANGED step /\ Goto(r, "idle")
    /\ UNCHANGED <<proof, applied, pending>>

-----------------------------------------------------------------------------
(* run(): entry, replay of a durable outcome and reconciliation *)

Start(r) ==
    /\ pc[r] = "idle"
    /\ runs < MaxRuns
    /\ runs' = runs + 1
    /\ step' = [step EXCEPT ![r] = 1]
    /\ proof' = [proof EXCEPT ![r] = None]
    /\ applied' = [applied EXCEPT ![r] = FALSE]
    /\ pending' = [pending EXCEPT ![r] = "none"]
    /\ Goto(r, "read")
    /\ UNCHANGED <<durable, plan, world, done>>

\* A durably completed step is skipped, a proven rollback is reconciled.
ReadOutcome(r) ==
    /\ pc[r] = "read"
    /\ \/ outcome[step[r]] = "completed" /\ Advance(r)
       \/ outcome[step[r]] = "rolled_back" /\ Goto(r, "reconcile_get") /\ UNCHANGED locals
       \/ /\ outcome[step[r]] \notin {"completed", "rolled_back"}
          /\ Goto(r, "authorize")
          /\ UNCHANGED locals
    /\ UNCHANGED <<durable, plan, runs, world, done>>

\* mark_execution_compensated reads the reservation in one transaction ...
CompensationGet(r, here, cas, already) ==
    /\ pc[r] = here
    /\ Goto(r, IF reservation[step[r]] = "compensated" THEN already ELSE cas)

\* ... and swaps reserved for compensated in another.
CompensationCas(r, here, swapped, lost) ==
    /\ pc[r] = here
    /\ IF reservation[step[r]] = "reserved"
         THEN /\ reservation' = Put(reservation, step[r], "compensated")
              /\ Goto(r, swapped)
         ELSE UNCHANGED reservation /\ Goto(r, lost)
    /\ UNCHANGED <<outcome, approval, plan, runs, world, done>>

ReconcileGet(r) ==
    /\ CompensationGet(r, "reconcile_get", "reconcile_cas", "authorize")
    /\ UNCHANGED <<durable, locals, plan, runs, world, done>>

ReconcileCas(r) ==
    /\ CompensationCas(r, "reconcile_cas", "authorize", "block")
    /\ UNCHANGED locals

-----------------------------------------------------------------------------
(* Authority and the execution slot *)

\* _authorized: the verifier may be missing, reject, raise, offer no proof,
\* or offer any proof, spent or not.
Authorize(r) ==
    /\ pc[r] = "authorize"
    /\ LET p == plan[step[r]] IN
         \/ /\ GovernanceDecision(p) = "proceed" /\ KernelAllows(p, FALSE)
            /\ proof' = [proof EXCEPT ![r] = None]
            /\ Goto(r, "reserve")
         \/ /\ GovernanceDecision(p) = "approval_required" /\ KernelAllows(p, TRUE)
            /\ \E q \in Proofs : proof' = [proof EXCEPT ![r] = q]
            /\ Goto(r, "claim")
         \/ /\ \/ GovernanceDecision(p) # "proceed"
               \/ ~KernelAllows(p, FALSE)
            /\ UNCHANGED proof /\ Goto(r, "block")
    /\ UNCHANGED <<durable, step, applied, pending, plan, runs, world, done>>

\* claim_once_and_reserve finds proof p unspent and the slot of step s free ...
Claimable(p, s) == approval[p] = None /\ reservation[s] # "reserved"

\* ... and writes both rows, which commit together.
ClaimOnceAndReserve(p, s) ==
    /\ reservation' = Put(reservation, s, "reserved")
    /\ approval' = Put(approval, p, s)

\* claim_approved_execution, or the blocked outcome of a claim that was refused.
\* Mutation: the proof is consumed before the slot is known to be free.
ClaimApprovedFirst(r) ==
    /\ pc[r] = "claim"
    /\ LET s == step[r]  p == proof[r] IN
         IF approval[p] = None
           THEN /\ approval' = Put(approval, p, s)
                /\ IF reservation[s] = "reserved"
                     THEN UNCHANGED reservation /\ Goto(r, "block")
                     ELSE reservation' = Put(reservation, s, "reserved") /\ Goto(r, "execute")
           ELSE UNCHANGED <<approval, reservation>> /\ Goto(r, "block")
    /\ UNCHANGED <<outcome, locals, plan, runs, world, done>>
\* Mutation: a consumed proof is accepted again.
ClaimApprovedAgain(r) ==
    /\ pc[r] = "claim"
    /\ IF reservation[step[r]] # "reserved"
           THEN ClaimOnceAndReserve(proof[r], step[r]) /\ Goto(r, "execute")
           ELSE UNCHANGED <<approval, reservation>> /\ Goto(r, "block")
    /\ UNCHANGED <<outcome, locals, plan, runs, world, done>>
ClaimApproved(r) ==
    /\ pc[r] = "claim"
    /\ IF Claimable(proof[r], step[r])
           THEN ClaimOnceAndReserve(proof[r], step[r]) /\ Goto(r, "execute")
           ELSE UNCHANGED <<approval, reservation>> /\ Goto(r, "block")
    /\ UNCHANGED <<outcome, locals, plan, runs, world, done>>

\* reserve_execution is two transactions: insert if absent ...
ReserveInsert(r) ==
    /\ pc[r] = "reserve"
    /\ IF reservation[step[r]] = "absent"
         THEN /\ reservation' = Put(reservation, step[r], "reserved")
              /\ Goto(r, "execute")
         ELSE UNCHANGED reservation /\ Goto(r, "reserve_cas")
    /\ UNCHANGED <<outcome, approval, locals, plan, runs, world, done>>

\* ... then compensated to reserved.
\* Mutation: any existing reservation is taken over.
ReserveCasBlind(r) ==
    /\ pc[r] = "reserve_cas"
    /\ reservation' = Put(reservation, step[r], "reserved")
    /\ Goto(r, "execute")
    /\ UNCHANGED <<outcome, approval, locals, plan, runs, world, done>>
\* Mutation: a compensated reservation is never reused.
ReserveCasNever(r) ==
    /\ pc[r] = "reserve_cas"
    /\ Goto(r, "block")
    /\ UNCHANGED <<durable, locals, plan, runs, world, done>>
ReserveCas(r) ==
    /\ pc[r] = "reserve_cas"
    /\ IF reservation[step[r]] = "compensated"
         THEN /\ reservation' = Put(reservation, step[r], "reserved")
              /\ Goto(r, "execute")
         ELSE UNCHANGED reservation /\ Goto(r, "block")
    /\ UNCHANGED <<outcome, approval, locals, plan, runs, world, done>>

-----------------------------------------------------------------------------
(* The callbacks *)

\* ok and evidence make a completed outcome.
\* Mutation: the callback's verdict is ignored.
VerdictIgnored(ok) == "completed"
Verdict(ok) == IF ok THEN "completed" ELSE "none"

\* step.execute(): a success leaves its side effect in place; a failure, an
\* exception or a success without evidence may or may not leave one.
Execute(r) ==
    /\ pc[r] = "execute"
    /\ LET s == step[r]  p == proof[r] IN
         /\ execs' = [execs EXCEPT ![s] = @ + 1]
         /\ proofExecs' = IF p = None THEN proofExecs
                                      ELSE [proofExecs EXCEPT ![p] = @ + 1]
         /\ \E ok, did \in BOOLEAN :
              /\ ok => did
              /\ applied' = [applied EXCEPT ![r] = did]
              /\ live' = [live EXCEPT ![s] = IF did THEN @ + 1 ELSE @]
              /\ pending' = [pending EXCEPT ![r] = Verdict(ok)]
              /\ Goto(r, IF Verdict(ok) = "completed" THEN "record" ELSE "rollback")
    /\ UNCHANGED <<durable, step, proof, plan, runs, proven, done>>

\* step.rollback(): TRUE means that this callback's side effect is undone.
\* Mutation: a proven rollback is recorded without compensating the slot.
RollbackForgetsSlot(r) ==
    /\ pc[r] = "rollback"
    /\ \/ /\ live' = [live EXCEPT ![step[r]] = IF applied[r] THEN @ - 1 ELSE @]
          /\ applied' = [applied EXCEPT ![r] = FALSE]
          /\ proven' = proven \union {step[r]}
          /\ pending' = [pending EXCEPT ![r] = "rolled_back"]
       \/ /\ pending' = [pending EXCEPT ![r] = "failed"]
          /\ UNCHANGED <<live, applied, proven>>
    /\ Goto(r, "record")
    /\ UNCHANGED <<durable, step, proof, plan, runs, execs, proofExecs, done>>
Rollback(r) ==
    /\ pc[r] = "rollback"
    /\ \/ /\ live' = [live EXCEPT ![step[r]] = IF applied[r] THEN @ - 1 ELSE @]
          /\ applied' = [applied EXCEPT ![r] = FALSE]
          /\ proven' = proven \union {step[r]}
          /\ UNCHANGED pending
          /\ Goto(r, "compensate_get")
       \/ /\ pending' = [pending EXCEPT ![r] = "failed"]
          /\ Goto(r, "record")
          /\ UNCHANGED <<live, applied, proven>>
    /\ UNCHANGED <<durable, step, proof, plan, runs, execs, proofExecs, done>>

-----------------------------------------------------------------------------
(* After the callbacks: compensation and the durable outcome *)

CompensateGet(r) ==
    /\ CompensationGet(r, "compensate_get", "compensate_cas", "record")
    /\ pending' = [pending EXCEPT ![r] = "rolled_back"]
    /\ UNCHANGED <<durable, step, proof, applied, plan, runs, world, done>>

CompensateCas(r) ==
    /\ CompensationCas(r, "compensate_cas", "record", "record")
    /\ pending' = [pending EXCEPT ![r] =
                     IF reservation[step[r]] = "reserved" THEN "rolled_back" ELSE "blocked"]
    /\ UNCHANGED <<step, proof, applied>>

\* audit.record of the step's outcome; only a completed step lets run() go on.
\* Mutation: run() goes on after a step that did not complete.
RecordOutcomeContinues(r) ==
    /\ pc[r] = "record"
    /\ outcome' = Put(outcome, step[r], pending[r])
    /\ done' = IF pending[r] = "completed" THEN done \union {step[r]} ELSE done
    /\ Advance(r)
    /\ UNCHANGED <<reservation, approval, plan, runs, world>>
RecordOutcome(r) ==
    /\ pc[r] = "record"
    /\ outcome' = Put(outcome, step[r], pending[r])
    /\ IF pending[r] = "completed"
         THEN done' = done \union {step[r]} /\ Advance(r)
         ELSE UNCHANGED <<done, locals>> /\ Goto(r, "idle")
    /\ UNCHANGED <<reservation, approval, plan, runs, world>>

\* Every blocked exit: the record is best-effort, and run() returns.
Block(r) ==
    /\ pc[r] = "block"
    /\ \/ outcome' = Put(outcome, step[r], "blocked")
       \/ Faults /\ UNCHANGED outcome
    /\ Goto(r, "idle")
    /\ UNCHANGED <<reservation, approval, locals, plan, runs, world, done>>

-----------------------------------------------------------------------------
(* The environment *)

\* A store call raises (a locked or full database): run() contains it.
PersistenceFault(r) ==
    /\ Faults
    /\ pc[r] \in StoreCalls
    /\ Goto(r, "block")
    /\ UNCHANGED <<durable, locals, plan, runs, world, done>>

\* The process dies; what it had in memory is gone.
Crash(r) ==
    /\ Crashes
    /\ pc[r] # "idle"
    /\ Goto(r, "idle")
    /\ UNCHANGED <<durable, locals, plan, runs, world, done>>

Progress(r) ==
    \/ ReadOutcome(r) \/ ReconcileGet(r) \/ ReconcileCas(r)
    \/ Authorize(r) \/ ClaimApproved(r) \/ ReserveInsert(r) \/ ReserveCas(r)
    \/ Execute(r) \/ Rollback(r)
    \/ CompensateGet(r) \/ CompensateCas(r) \/ RecordOutcome(r) \/ Block(r)

Next == \E r \in Runners : Start(r) \/ Progress(r) \/ PersistenceFault(r) \/ Crash(r)

Spec == Init /\ [][Next]_vars

-----------------------------------------------------------------------------
(* Safety *)

\* A consumed approval proof never authorises a second callback, on any step,
\* by any runner, after any restart (claim_once_and_reserve).
ApprovalSingleUse == \A p \in Proofs : proofExecs[p] <= 1

\* A step's callback runs a second time only if a rollback of an earlier
\* callback was proven: an ambiguous attempt keeps its reservation.
ReexecutionNeedsProvenRollback == \A s \in Steps : execs[s] > 1 => s \in proven

\* The mission's order survives crashes, retries and rival runners: a step's
\* callback runs only after every earlier step was durably completed.
MissionOrder == \A s \in Steps : execs[s] > 0 => \A t \in 1..(s-1) : t \in done

\* A durable "completed" is never fiction: a side effect of the step is in place.
CompletedMeansDone == \A s \in Steps : outcome[s] = "completed" => live[s] >= 1

\* A step outside the envelope never runs, a routine step takes no proof, and
\* a consequential one consumes a proof exactly when it obtains its slot: no
\* approval is burnt, none is missing (while no process dies).
IsRoutine(s) == ~plan[s].human /\ plan[s].risk < High /\ plan[s].reversible
ClaimedBy(s) == {p \in Proofs : approval[p] = s}
Armed(s) == {r \in Runners : pc[r] = "execute" /\ step[r] = s}
AuthorityRespected ==
    \A s \in Steps :
        /\ execs[s] > 0 =>
             /\ plan[s].evidence /\ plan[s].capable /\ plan[s].risk <= MaxRisk
             /\ plan[s].reversible \/ plan[s].risk <= ReversibleAbove
        /\ Cardinality(ClaimedBy(s)) =
             IF IsRoutine(s) THEN 0 ELSE execs[s] + Cardinality(Armed(s))

(* The inductive strengthenings of the first three, for the proofs *)

\* Of two runners about to call back, each holds an unspent proof of its own.
ApprovalInv ==
    /\ \A p \in Proofs :
         /\ proofExecs[p] <= 1
         /\ approval[p] = None => proofExecs[p] = 0
    /\ \A r \in Runners :
         /\ pc[r] = "claim" => proof[r] \in Proofs
         /\ pc[r] \in {"reserve", "reserve_cas"} => proof[r] = None
         /\ pc[r] = "execute" /\ proof[r] # None =>
              approval[proof[r]] # None /\ proofExecs[proof[r]] = 0
    /\ \A r, q \in Runners :
         (pc[r] = "execute" /\ pc[q] = "execute" /\ proof[r] = proof[q] /\ proof[r] # None)
             => r = q

\* Until a rollback of the step is proven, its slot is taken once and for all.
Compensating == {"reconcile_get", "reconcile_cas", "compensate_get", "compensate_cas"}
SlotTakenOnce(s) ==
    /\ reservation[s] # "compensated" /\ outcome[s] # "rolled_back"
    /\ execs[s] <= 1
    /\ reservation[s] = "absent" => execs[s] = 0
    /\ \A r \in Runners : step[r] = s =>
         /\ pc[r] \notin Compensating
         /\ pc[r] = "record" => pending[r] # "rolled_back"
         /\ pc[r] = "execute" => reservation[s] = "reserved" /\ execs[s] = 0
    /\ \A r, q \in Runners :
         (pc[r] = "execute" /\ pc[q] = "execute" /\ step[r] = s /\ step[q] = s) => r = q
SlotInv == \A s \in Steps : s \notin proven => SlotTakenOnce(s)

\* A runner past a step, and any callback of a later one, has seen it completed.
OrderInv ==
    /\ \A s \in Steps : outcome[s] = "completed" => s \in done
    /\ \A r \in Runners : pc[r] # "idle" => \A t \in 1..(step[r]-1) : t \in done
    /\ MissionOrder

\* At most one side effect of a step is in place: what the comments of the
\* reservation ledger promise for every crash and retry.  It holds for a lone
\* runner that neither crashes nor loses a store call; a stale "rolled_back"
\* outcome refutes it as soon as the process can die (mission_stale_rollback).
AtMostOneSideEffect == \A s \in Steps : live[s] <= 1

\* When no process dies and the store never fails, a lone runner leaves an
\* outcome that tells the truth about the world and the slot.
OutcomeTellsTheWorld ==
    (\A r \in Runners : pc[r] = "idle") =>
        \A s \in Steps :
            /\ outcome[s] = "completed"   => live[s] = 1 /\ reservation[s] = "reserved"
            /\ outcome[s] = "rolled_back" => live[s] = 0 /\ reservation[s] = "compensated"
            /\ outcome[s] = "failed"      => reservation[s] = "reserved"
            /\ live[s] = 1                => reservation[s] = "reserved"

\* A proven rollback leaves the step free to retry: without crashes and
\* faults an admissible routine step is blocked only by the slot of an attempt
\* whose rollback was never proven.
RetryNotWedged ==
    \A r \in Runners :
        LET s == step[r] IN
          (pc[r] = "block" /\ IsRoutine(s) /\ KernelAllows(plan[s], FALSE)) =>
              outcome[s] \in {"failed", "blocked"} /\ reservation[s] = "reserved"

(* Their inductive strengthenings *)

\* Runners with a side effect of step s of their own in place, that they have
\* neither undone nor recorded yet.
Owing(s) ==
    {r \in Runners : /\ step[r] = s /\ applied[r]
                     /\ \/ pc[r] = "rollback"
                        \/ pc[r] = "record" /\ pending[r] = "completed"}

\* No rollback takes away the side effect a "completed" outcome stands for.
EffectInv ==
    /\ \A r \in Runners : pc[r] = "record" /\ pending[r] = "completed" => applied[r]
    /\ \A s \in Steps :
         /\ IsFiniteSet(Owing(s))
         /\ live[s] >= Cardinality(Owing(s)) + (IF outcome[s] = "completed" THEN 1 ELSE 0)

\* Past authorization a step is inside the envelope, and takes the way that is
\* for its kind: a claim with a proof, or a plain reservation.
Admissible(p) ==
    p.evidence /\ p.capable /\ p.risk <= MaxRisk /\ (p.reversible \/ p.risk <= ReversibleAbove)
Admitted(s) == IF IsRoutine(s) THEN 0 ELSE execs[s] + Cardinality(Armed(s))
GateInv ==
    /\ \A r \in Runners :
         /\ pc[r] \in {"reserve", "reserve_cas", "claim", "execute"} => Admissible(plan[step[r]])
         /\ pc[r] \in {"reserve", "reserve_cas"} => IsRoutine(step[r])
         /\ pc[r] = "claim" => ~IsRoutine(step[r]) /\ proof[r] \in Proofs
    /\ \A s \in Steps :
         /\ IsFiniteSet(ClaimedBy(s)) /\ IsFiniteSet(Armed(s))
         /\ execs[s] > 0 => Admissible(plan[s])
         /\ IsRoutine(s) => ClaimedBy(s) = {}
         /\ Cardinality(ClaimedBy(s)) >= Admitted(s)
         /\ ~Crashes => Cardinality(ClaimedBy(s)) = Admitted(s)

\* What AuthorityRespected leaves when processes die: a dead one may have burnt
\* its approval, but no callback of a consequential step is without one.
NoUnapprovedCallback ==
    \A s \in Steps :
        /\ execs[s] > 0 => Admissible(plan[s])
        /\ ~IsRoutine(s) => execs[s] <= Cardinality(ClaimedBy(s))

\* What outcome, reservation and world say of a step a lone runner is not in.
Truthful(s) ==
    /\ live[s] \in {0, 1}
    /\ live[s] = 1 => reservation[s] = "reserved"
    /\ CASE outcome[s] = "none"        -> reservation[s] = "absent"
         [] outcome[s] = "completed"   -> live[s] = 1
         [] outcome[s] = "rolled_back" -> reservation[s] = "compensated"
         [] outcome[s] = "failed"      -> reservation[s] = "reserved"
         [] OTHER                      -> TRUE

\* And of the step it is in, at each point of run().
Underway(r, s) ==
    CASE pc[r] \in {"execute", "compensate_get", "compensate_cas"} ->
           reservation[s] = "reserved" /\ live[s] = 0
      [] pc[r] = "rollback" ->
           reservation[s] = "reserved" /\ live[s] = (IF applied[r] THEN 1 ELSE 0)
      [] pc[r] = "record" ->
           /\ live[s] \in {0, 1}
           /\ CASE pending[r] = "completed" -> reservation[s] = "reserved" /\ live[s] = 1
                [] pending[r] = "failed"    -> reservation[s] = "reserved"
                [] OTHER -> /\ pending[r] = "rolled_back"
                            /\ reservation[s] = "compensated" /\ live[s] = 0
      [] OTHER ->
           /\ Truthful(s)
           /\ pc[r] = "reconcile_get" => outcome[s] = "rolled_back"
           /\ pc[r] = "reserve_cas" => reservation[s] # "absent"
           /\ pc[r] \in {"authorize", "claim", "reserve", "reserve_cas", "block"} =>
                outcome[s] # "completed"
SerialInv ==
    \A r \in Runners :
        /\ pc[r] # "reconcile_cas"
        /\ pc[r] = "claim" => ~IsRoutine(step[r])
        /\ pc[r] = "block" /\ IsRoutine(step[r]) /\ KernelAllows(plan[step[r]], FALSE) =>
             reservation[step[r]] = "reserved"
        /\ \A s \in Steps : IF s = step[r] THEN Underway(r, s) ELSE Truthful(s)

-----------------------------------------------------------------------------
(* The ledger promises of SlotLedger, under this refinement mapping *)

Ledger == INSTANCE SlotLedger WITH
              held  <- {s \in Steps : reservation[s] = "reserved"},
              armed <- [s \in Steps |-> {r \in Runners : pc[r] = "execute" /\ step[r] = s}],
              spent <- {p \in Proofs : approval[p] # None},
              begun <- execs

\* The runners implement the slot ledger.
ImplementsLedger == Ledger!LedgerSpec
=============================================================================
