------------------------------ MODULE WorkQueue ------------------------------
(***************************************************************************)
(* DurableWorkQueue (durable_worker.py): the work_queue table and its       *)
(* transactions.  A row is claimed under a lease; an expired lease puts it  *)
(* back; a failed attempt retries it after a delay or dead-letters it.      *)
(* Time is what is left: Elapse takes one unit off every lease and delay.   *)
(***************************************************************************)
EXTENDS Naturals, FiniteSets

CONSTANTS
    Jobs,            \* job ids, the idempotency keys of events
    Owners,          \* worker ids, as lease_owner records them
    None,            \* NULL
    MaxAttempts,     \* max_attempts of every row
    LeaseTime,       \* lease_seconds
    Delays           \* what the worker's backoff function may return

ASSUME QueueAssumption ==
    /\ IsFiniteSet(Jobs)
    /\ None \notin Owners
    /\ MaxAttempts \in Nat \ {0}
    /\ LeaseTime \in Nat \ {0}
    /\ Delays \subseteq Nat /\ Delays # {}

VARIABLES
    status, attempts, \* of each row; "absent" before its insertion
    owner, lease,     \* lease_owner, and the time left until lease_until
    delay,            \* the time left until available_at
    born              \* created_at, as the rank of the insertion

queue == <<status, attempts, owner, lease, delay, born>>

Status  == {"absent", "pending", "leased", "completed", "dead"}
Settled == {"completed", "dead"}

QueueTypeOK ==
    /\ status \in [Jobs -> Status]
    /\ attempts \in [Jobs -> Nat]
    /\ owner \in [Jobs -> Owners \union {None}]
    /\ lease \in [Jobs -> 0..LeaseTime]
    /\ delay \in [Jobs -> Nat]
    /\ born \in [Jobs -> Nat]

QueueInit ==
    /\ status = [j \in Jobs |-> "absent"]
    /\ attempts = [j \in Jobs |-> 0]
    /\ owner = [j \in Jobs |-> None]
    /\ lease = [j \in Jobs |-> 0]
    /\ delay = [j \in Jobs |-> 0]
    /\ born = [j \in Jobs |-> 0]

Present == {j \in Jobs : status[j] # "absent"}

\* enqueue(): a second delivery of the same job id hits the primary key and
\* changes nothing.
\* Mutation: INSERT OR REPLACE, a delivery starts the row afresh.
Reinsert(j) ==
    /\ status' = [status EXCEPT ![j] = "pending"]
    /\ attempts' = [attempts EXCEPT ![j] = 0]
    /\ born' = [born EXCEPT ![j] = IF status[j] = "absent" THEN Cardinality(Present) + 1 ELSE @]
    /\ UNCHANGED <<owner, lease, delay>>
Insert(j) ==
    \/ /\ status[j] = "absent"
       /\ status' = [status EXCEPT ![j] = "pending"]
       /\ born' = [born EXCEPT ![j] = Cardinality(Present) + 1]
       /\ UNCHANGED <<attempts, owner, lease, delay>>
    \/ /\ status[j] # "absent"
       /\ UNCHANGED queue

Expired == {j \in Jobs : status[j] = "leased" /\ lease[j] = 0}

\* recover_expired_leases(): one UPDATE over the expired rows.
\* Mutation: a live lease is taken back as well.
RecoverLive ==
    LET leased == {j \in Jobs : status[j] = "leased"} IN
    /\ status' = [j \in Jobs |-> IF j \in leased THEN "pending" ELSE status[j]]
    /\ owner' = [j \in Jobs |-> IF j \in leased THEN None ELSE owner[j]]
    /\ lease' = [j \in Jobs |-> IF j \in leased THEN 0 ELSE lease[j]]
    /\ UNCHANGED <<attempts, delay, born>>
\* Mutation: nothing is recovered.
RecoverNothing == UNCHANGED queue
Recover ==
    /\ status' = [j \in Jobs |-> IF j \in Expired THEN "pending" ELSE status[j]]
    /\ owner' = [j \in Jobs |-> IF j \in Expired THEN None ELSE owner[j]]
    /\ UNCHANGED <<attempts, lease, delay, born>>

\* The row claim() selects: pending, available, and the oldest such.
\* Mutation: the status is not part of the WHERE clause.
ClaimableAny == {j \in Jobs : status[j] \in {"pending", "leased"} /\ delay[j] = 0}
Claimable == {j \in Jobs : status[j] = "pending" /\ delay[j] = 0}
Oldest(j) == j \in Claimable /\ \A k \in Claimable : born[j] <= born[k]

\* claim(): the SELECT and the UPDATE share one BEGIN IMMEDIATE.  The lease
\* runs from a clock read before the transaction, which may have waited for
\* the write lock: any part of it may be left.
Lease(j, o) ==
    /\ status' = [status EXCEPT ![j] = "leased"]
    /\ owner' = [owner EXCEPT ![j] = o]
    /\ \E t \in 1..LeaseTime : lease' = [lease EXCEPT ![j] = t]
    /\ attempts' = [attempts EXCEPT ![j] = @ + 1]
    /\ UNCHANGED <<delay, born>>

\* The WHERE clause of complete() and of fail()'s SELECT: lease_until is not
\* part of it.
Owned(j, o) == status[j] = "leased" /\ owner[j] = o

Complete(j, o) ==
    /\ Owned(j, o)
    /\ status' = [status EXCEPT ![j] = "completed"]
    /\ owner' = [owner EXCEPT ![j] = None]
    /\ lease' = [lease EXCEPT ![j] = 0]
    /\ UNCHANGED <<attempts, delay, born>>

\* What fail() decides from the row its SELECT read.
\* Mutation: one attempt too few before the dead letter.
VerdictTooSoon(j) == IF attempts[j] >= MaxAttempts - 1 THEN "dead" ELSE "pending"
\* Mutation: a status the table does not know and no query selects.
VerdictFailed(j) == IF attempts[j] >= MaxAttempts THEN "dead" ELSE "failed"
Verdict(j) == IF attempts[j] >= MaxAttempts THEN "dead" ELSE "pending"

\* fail()'s UPDATE, a transaction of its own that checks neither the status
\* nor the owner again.
FailUpdate(j, decided) ==
    /\ status' = [status EXCEPT ![j] = decided]
    /\ owner' = [owner EXCEPT ![j] = None]
    /\ lease' = [lease EXCEPT ![j] = 0]
    /\ \E d \in Delays : delay' = [delay EXCEPT ![j] = d]
    /\ UNCHANGED <<attempts, born>>

Less(n) == IF n > 0 THEN n - 1 ELSE 0

Elapse ==
    /\ \E j \in Jobs : lease[j] > 0 \/ delay[j] > 0
    /\ lease' = [j \in Jobs |-> Less(lease[j])]
    /\ delay' = [j \in Jobs |-> Less(delay[j])]
    /\ UNCHANGED <<status, attempts, owner, born>>
=============================================================================
