-------------------------- MODULE ContinuationWorker --------------------------
(***************************************************************************)
(* DurableContinuationWorker.run_once over the work queue, each event going *)
(* through EventDrivenContinuation.handle (event_continuation.py).          *)
(* Processes share only the queue's database; the set of processed event    *)
(* ids is in each one's memory.  Every transaction and every handler call   *)
(* is one step; time passes, processes die and store calls raise between    *)
(* any two.                                                                 *)
(***************************************************************************)
EXTENDS WorkQueue

CONSTANTS
    Workers,         \* processes that drain the queue
    MaxIncidents     \* bound: deaths, raised store calls and outlived leases

ASSUME WorkerAssumption ==
    /\ None \notin Jobs \union Workers
    /\ IsFiniteSet(Workers)
    /\ MaxIncidents \in Nat

VARIABLES
    workerId,        \* the worker id each process was configured with
    pc, item,        \* where run_once is, and the job it claimed
    decided,         \* the status fail()'s SELECT led to
    caught,          \* is run_once in its except clause?
    processed,       \* EventDrivenContinuation.processed_event_ids
    (* history *)
    holder,          \* the process whose claim of each row stands
    effects,         \* executor calls that succeeded, by job
    handled,         \* jobs handle() returned a decision other than "failed" for
    incidents,       \* deaths, raised store calls and outlived leases so far
    outlived         \* has a process outlived its lease?

locals  == <<item, decided, caught>>
history == <<effects, handled>>
vars    == <<queue, workerId, pc, locals, processed, holder, history, incidents, outlived>>

Control == {"recover", "claim", "handle", "complete", "fail", "fail_update"}

TypeOK ==
    /\ QueueTypeOK
    /\ workerId \in [Workers -> Owners]
    /\ pc \in [Workers -> Control]
    /\ item \in [Workers -> Jobs \union {None}]
    /\ decided \in [Workers -> {"pending", "dead"}]
    /\ caught \in [Workers -> BOOLEAN]
    /\ processed \in [Workers -> SUBSET Jobs]
    /\ holder \in [Jobs -> Workers \union {None}]
    /\ effects \in [Jobs -> Nat]
    /\ handled \subseteq Jobs
    /\ incidents \in Nat
    /\ outlived \in BOOLEAN

Init ==
    /\ QueueInit
    /\ workerId \in [Workers -> Owners]
    /\ pc = [w \in Workers |-> "recover"]
    /\ item = [w \in Workers |-> None]
    /\ decided = [w \in Workers |-> "pending"]
    /\ caught = [w \in Workers |-> FALSE]
    /\ processed = [w \in Workers |-> {}]
    /\ holder = [j \in Jobs |-> None]
    /\ effects = [j \in Jobs |-> 0]
    /\ handled = {}
    /\ incidents = 0
    /\ outlived = FALSE

Goto(w, l) == pc' = [pc EXCEPT ![w] = l]

\* run_once returns: the supervisor's loop polls again.
Return(w) ==
    /\ Goto(w, "recover")
    /\ item' = [item EXCEPT ![w] = None]
    /\ decided' = [decided EXCEPT ![w] = "pending"]
    /\ caught' = [caught EXCEPT ![w] = FALSE]

\* A row whose claim ended has no holder.
Release(j) == holder' = [holder EXCEPT ![j] = None]

Quiet == UNCHANGED <<workerId, incidents, outlived>>

-----------------------------------------------------------------------------
\* EventIngress.accept: any process delivers an event, any number of times.
Enqueue(j) ==
    /\ Insert(j)
    /\ UNCHANGED <<workerId, pc, locals, processed, holder, history, incidents, outlived>>

\* claim()'s first transaction.
RecoverExpired(w) ==
    /\ pc[w] = "recover"
    /\ Recover
    /\ Goto(w, "claim")
    /\ holder' = [j \in Jobs |-> IF status'[j] = "leased" THEN holder[j] ELSE None]
    /\ Quiet /\ UNCHANGED <<locals, processed, history>>

ClaimJob(w) ==
    /\ pc[w] = "claim"
    /\ \E j \in Jobs :
         /\ Oldest(j)
         /\ Lease(j, workerId[w])
         /\ item' = [item EXCEPT ![w] = j]
         /\ holder' = [holder EXCEPT ![j] = w]
    /\ Goto(w, "handle")
    /\ Quiet /\ UNCHANGED <<decided, caught, processed, history>>

ClaimNothing(w) ==
    /\ pc[w] = "claim"
    /\ Claimable = {}
    /\ Return(w)
    /\ Quiet /\ UNCHANGED <<queue, processed, holder, history>>

\* handle(): the event was processed before by this process.
HandleDuplicate(w) ==
    /\ pc[w] = "handle"
    /\ item[w] \in processed[w]
    /\ handled' = handled \union {item[w]}
    /\ Goto(w, "complete")
    /\ Quiet /\ UNCHANGED <<queue, locals, processed, holder, effects>>

\* handle(): no executable candidate; or the selected one ran to its end.
Decide(w) ==
    /\ processed' = [processed EXCEPT ![w] = @ \union {item[w]}]
    /\ handled' = handled \union {item[w]}
    /\ \/ UNCHANGED effects                                       \* blocked
       \/ effects' = [effects EXCEPT ![item[w]] = @ + 1]          \* executed

HandleDecided(w) ==
    /\ pc[w] = "handle"
    /\ item[w] \notin processed[w]
    /\ Decide(w)
    /\ Goto(w, "complete")
    /\ Quiet /\ UNCHANGED <<queue, locals, holder>>

\* run_once raises on a decision "failed", and its except clause fails the job.
\* Mutation: a failed decision is completed like the others.
FailureLabelIgnored == "complete"
FailureLabel == "fail"

\* handle() returns "failed", or raises: the event type does not parse, or a
\* candidate cannot be computed.  After a raise the executor never ran.
HandleFailed(w) ==
    /\ pc[w] = "handle"
    /\ item[w] \notin processed[w]
    /\ \E raised \in BOOLEAN : caught' = [caught EXCEPT ![w] = raised]
    /\ Goto(w, FailureLabel)
    /\ Quiet /\ UNCHANGED <<queue, item, decided, processed, holder, history>>

CompleteItem(w) ==
    /\ pc[w] = "complete"
    /\ Complete(item[w], workerId[w])
    /\ Release(item[w])
    /\ Return(w)
    /\ Quiet /\ UNCHANGED <<processed, history>>

\* complete() returned False: RuntimeError, caught below.
LoseLease(w) ==
    /\ pc[w] = "complete"
    /\ ~Owned(item[w], workerId[w])
    /\ Goto(w, "fail")
    /\ caught' = [caught EXCEPT ![w] = TRUE]
    /\ Quiet /\ UNCHANGED <<queue, item, decided, processed, holder, history>>

\* fail()'s SELECT, which runs outside the UPDATE's transaction.
FailSelect(w) ==
    /\ pc[w] = "fail"
    /\ Owned(item[w], workerId[w])
    /\ decided' = [decided EXCEPT ![w] = Verdict(item[w])]
    /\ Goto(w, "fail_update")
    /\ Quiet /\ UNCHANGED <<queue, item, caught, processed, holder, history>>

FailNotOwned(w) ==
    /\ pc[w] = "fail"
    /\ ~Owned(item[w], workerId[w])
    /\ Return(w)
    /\ Quiet /\ UNCHANGED <<queue, processed, holder, history>>

FailItem(w) ==
    /\ pc[w] = "fail_update"
    /\ FailUpdate(item[w], decided[w])
    /\ Release(item[w])
    /\ Return(w)
    /\ Quiet /\ UNCHANGED <<processed, history>>

-----------------------------------------------------------------------------
(* Time and failure *)

Incident(n) ==
    /\ incidents + n <= MaxIncidents
    /\ incidents' = incidents + n

\* The processes at work on a job whose claim still stands.
Holding(w) == item[w] # None /\ holder[item[w]] = w
\* The leases the next instant outlives.
Outliving == {w \in Workers : Holding(w) /\ lease[item[w]] = 1}

Tick ==
    /\ Elapse
    /\ Incident(Cardinality(Outliving))
    /\ outlived' = (outlived \/ Outliving # {})
    /\ UNCHANGED <<workerId, pc, locals, processed, holder, history>>

\* The process dies and is started again: its memory is gone, and the row it
\* claimed stays leased until the lease runs out.
Die(w) ==
    /\ Return(w)
    /\ processed' = [processed EXCEPT ![w] = {}]
    /\ holder' = [j \in Jobs |-> IF holder[j] = w THEN None ELSE holder[j]]
    /\ UNCHANGED <<queue, workerId, history, outlived>>

Crash(w) ==
    /\ Incident(1)
    /\ Die(w)

\* A store call raises (busy for 30 seconds, disk error) without effect.  In
\* the try block the except clause fails the job; anywhere else the exception
\* leaves run_once and ends the serving thread or the one-shot process.
Guarded(w) == pc[w] \in {"complete", "fail", "fail_update"} /\ ~caught[w]

StoreFault(w) ==
    /\ pc[w] # "handle"
    /\ Incident(1)
    /\ \/ /\ Guarded(w)
          /\ Goto(w, "fail")
          /\ caught' = [caught EXCEPT ![w] = TRUE]
          /\ UNCHANGED <<queue, workerId, item, decided, processed, holder, history, outlived>>
       \/ /\ ~Guarded(w)
          /\ Die(w)

Step(w) ==
    \/ RecoverExpired(w) \/ ClaimJob(w) \/ ClaimNothing(w)
    \/ HandleDuplicate(w) \/ HandleDecided(w) \/ HandleFailed(w)
    \/ CompleteItem(w) \/ LoseLease(w)
    \/ FailSelect(w) \/ FailNotOwned(w) \/ FailItem(w)

Next ==
    \/ \E j \in Jobs : Enqueue(j)
    \/ \E w \in Workers : Step(w) \/ Crash(w) \/ StoreFault(w)
    \/ Tick

Spec == Init /\ [][Next]_vars

\* serve_forever polls without end, a handler returns, time passes.
FairSpec == Spec /\ WF_vars(Tick) /\ \A w \in Workers : WF_vars(Step(w))

-----------------------------------------------------------------------------
(* Properties *)

\* As long as no process has outlived its lease, no two processes work on the
\* same event: not even one that died and left its row leased, nor one whose
\* store calls raised.
LeaseExclusive ==
    ~outlived => \A v, w \in Workers :
        v # w /\ item[v] # None => item[v] # item[w]

\* As long as no process has outlived its lease, a settled job stays as it is:
\* a late failure, a redelivery or a recovery never reopens it.
SettledIsFinal ==
    [][\A j \in Jobs : ~outlived' /\ status[j] \in Settled => status'[j] = status[j]]_vars

\* Only a job some process reached a decision on is ever completed.
CompletedWasHandled ==
    \A j \in Jobs : status[j] = "completed" => j \in handled

\* No event is dead-lettered before it was claimed max_attempts times, however
\* failures, recoveries and claims interleave.
DeadMeansExhausted ==
    \A j \in Jobs : status[j] = "dead" => attempts[j] >= MaxAttempts

\* An event takes effect once, and once more at most for each process death,
\* raised store call or outlived lease.  Where processes share a worker id, one
\* outlived lease may repeat it once in every process: each late fail() finds
\* the row leased under its own id, and puts back the claim of the next.
Distinct == \A v, w \in Workers : workerId[v] = workerId[w] => v = w
RepeatsNeedIncidents ==
    \A j \in Jobs :
        effects[j] <= incidents + (IF Distinct \/ ~outlived THEN 1 ELSE Cardinality(Workers))

\* Every accepted event is completed or dead-lettered in the end, whatever the
\* (finitely many) incidents.
EveryJobSettles ==
    \A j \in Jobs : (status[j] # "absent") ~> (status[j] \in Settled)

\* A failing event is retried up to max_attempts times and is then
\* dead-lettered: it is never claimed once more.
AttemptsBounded ==
    \A j \in Jobs : attempts[j] <= MaxAttempts

-----------------------------------------------------------------------------
(* Inductive invariants *)

\* run_once has an item exactly from its claim to its return.
Polling == {"recover", "claim"}
ItemInv == \A w \in Workers : item[w] # None <=> pc[w] \notin Polling

\* About to complete means decided.
HandledInv ==
    /\ CompletedWasHandled
    /\ \A w \in Workers : pc[w] = "complete" => item[w] \in handled

\* Attempts only grow, so a dead-letter verdict stays right until its UPDATE.
ExhaustedInv ==
    /\ DeadMeansExhausted
    /\ \A w \in Workers : pc[w] = "fail_update" /\ decided[w] = "dead"
                             => attempts[item[w]] >= MaxAttempts

\* In time, a claimed item is leased to its process and to no other.
HeldInv ==
    ~outlived => \A w \in Workers : item[w] # None =>
        /\ holder[item[w]] = w
        /\ Owned(item[w], workerId[w])
        /\ lease[item[w]] > 0

\* A claim that stands is leased to its process; with ids of their own, or as
\* long as no lease was outlived, a process owns no row but by such a claim.
ClaimInv ==
    /\ \A j \in Jobs : holder[j] # None =>
         /\ item[holder[j]] = j
         /\ Owned(j, workerId[holder[j]])
    /\ Distinct => \A w \in Workers : item[w] # None /\ Owned(item[w], workerId[w]) => Holding(w)

\* What may still make a job take effect: the claims to come, unless its row is
\* settled or decided; a claim that is about to be taken back; and the processes
\* that lost their claim, but will handle the job or take the next claim back.
Line(j) ==
    IF status[j] \in Settled \/ (holder[j] # None /\ pc[holder[j]] = "complete") THEN 0 ELSE 1
Overdue(j) == IF holder[j] # None /\ lease[j] = 0 THEN 1 ELSE 0
Late(j) ==
    {w \in Workers : /\ item[w] = j /\ holder[j] # w
                     /\ \/ pc[w] = "handle" /\ j \notin processed[w]
                        \/ pc[w] = "fail_update"}
Effective(j) == {w \in Workers : j \in processed[w]}

RepeatsInv ==
    \A j \in Jobs :
        /\ effects[j] <= Cardinality(Effective(j)) + incidents
        /\ Distinct \/ ~outlived =>
             effects[j] + Line(j) + Overdue(j) + Cardinality(Late(j)) <= 1 + incidents
=============================================================================
