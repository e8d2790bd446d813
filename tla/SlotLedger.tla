----------------------------- MODULE SlotLedger -----------------------------
(***************************************************************************)
(* What the execution-slot ledger of OutcomeAudit promises, whatever the   *)
(* runners, crashes and faults do: a slot is granted only while it is      *)
(* free, one grant allows one execution to begin, and an approval proof    *)
(* buys at most one grant, in the same step that spends it.                *)
(***************************************************************************)
EXTENDS Integers

CONSTANTS Runners, Steps, Proofs, None

VARIABLES
    held,      \* the steps whose execution slot is taken
    armed,     \* runners granted a slot whose execution has not begun
    spent,     \* the approval proofs already used
    begun      \* how many executions of a step have begun

ledger == <<held, armed, spent, begun>>

LedgerInit ==
    /\ held = {}
    /\ armed = [s \in Steps |-> {}]
    /\ spent = {}
    /\ begun = [s \in Steps |-> 0]

\* One atomic step takes the slot and, if a proof is offered, spends it.
Grant(r, s, p) ==
    /\ s \notin held
    /\ p \notin spent
    /\ held' = held \union {s}
    /\ armed' = [armed EXCEPT ![s] = @ \union {r}]
    /\ spent' = IF p = None THEN spent ELSE spent \union {p}
    /\ UNCHANGED begun

Begin(r, s) ==
    /\ r \in armed[s]
    /\ armed' = [armed EXCEPT ![s] = @ \ {r}]
    /\ begun' = [begun EXCEPT ![s] = @ + 1]
    /\ UNCHANGED <<held, spent>>

\* The runner died between the grant and the execution: the slot stays held.
Forfeit(r, s) ==
    /\ r \in armed[s]
    /\ armed' = [armed EXCEPT ![s] = @ \ {r}]
    /\ UNCHANGED <<held, spent, begun>>

\* The slot was durably compensated.
Release(s) ==
    /\ s \in held
    /\ held' = held \ {s}
    /\ UNCHANGED <<armed, spent, begun>>

LedgerNext ==
    \E s \in Steps :
        \/ Release(s)
        \/ \E r \in Runners : Begin(r, s) \/ Forfeit(r, s)
        \/ \E r \in Runners, p \in Proofs \union {None} : Grant(r, s, p)

LedgerSpec == LedgerInit /\ [][LedgerNext]_ledger
=============================================================================
