--------------------------- MODULE RecoveryGovernor ---------------------------
(***************************************************************************)
(* RecoveryGovernor (recovery_governor.py) as the engine of the continuation *)
(* workers: what EventDrivenContinuation.handle does with its candidates    *)
(* and its execute().  ContinuationWorker takes handle() as one step; here  *)
(* every transaction on the failure counters, every gate and the executor   *)
(* are steps of their own, between which the other processes move.          *)
(***************************************************************************)
EXTENDS ContinuationWorker, MissionAuthority

CONSTANTS
    Paths,           \* registered actions, all of them for the events' types
    Profiles,        \* what they may be registered as
    MaxFailures,     \* max_failures_per_path
    MaxFaults        \* bound: store calls that raise within handle()

ASSUME GovernorAssumption ==
    /\ None \notin Paths
    /\ Profiles \subseteq StepProfile
    /\ MaxFailures \in Nat \ {0}
    /\ MaxFaults \in Nat

VARIABLES
    profile,         \* each path's registration
    evident,         \* paths whose claim_factory finds evidence at present
    ready,           \* paths whose ready() predicate holds at present
    failures,        \* omega.recovery.failures.<event>.<path>
    call,            \* each process' handle(), see Call
    (* history *)
    failed,          \* executor calls that raised, by event and path
    taken,           \* paths whose executor was called
    closed,          \* paths that were closed at some time
    gaveUp,          \* events decided "blocked"
    faults           \* store calls that raised within handle() so far

registry == <<profile, evident, ready, closed>>
govVars  == <<registry, failures, call, failed, taken, gaveUp, faults>>
allVars  == <<vars, govVars>>

\* candidates() looks at the paths one by one ("screen"), then one is chosen
\* and execute() runs.  Meaningful while its process is at "handle".
Call == [at: {"screen", "authorize", "run", "record", "write", "clear"},
         left: SUBSET Paths,          \* not looked at yet
         candidates: SUBSET Paths,    \* executable ones found so far
         path: Paths \union {None},   \* the selected one
         count: Nat]                  \* failure_count() as it was read

Fresh == [at |-> "screen", left |-> Paths, candidates |-> {}, path |-> None, count |-> 0]

GovTypeOK ==
    /\ profile \in [Paths -> Profiles]
    /\ evident \subseteq Paths /\ ready \subseteq Paths
    /\ failures \in [Jobs -> [Paths -> Nat]]
    /\ call \in [Workers -> Call]
    /\ failed \in [Jobs -> [Paths -> Nat]]
    /\ taken \subseteq Paths /\ closed \subseteq Paths
    /\ gaveUp \subseteq Jobs
    /\ faults \in Nat

-----------------------------------------------------------------------------
\* _authorize(): both gates, over what the claim says now; there is never a
\* human's approval.
\* Mutation: the mission kernel alone decides.
GatesWithoutGovernance(a) ==
    KernelAllows([profile[a] EXCEPT !.evidence = a \in evident], FALSE)
Gates(a) ==
    LET p == [profile[a] EXCEPT !.evidence = a \in evident] IN
    GovernanceDecision(p) = "proceed" /\ KernelAllows(p, FALSE)

Open(a) == Gates(a) /\ a \in ready

GovInit ==
    /\ Init
    /\ profile \in [Paths -> Profiles]
    /\ evident = Paths /\ ready = Paths
    /\ failures = [j \in Jobs |-> [a \in Paths |-> 0]]
    /\ call = [w \in Workers |-> Fresh]
    /\ failed = [j \in Jobs |-> [a \in Paths |-> 0]]
    /\ taken = {}
    /\ closed = {a \in Paths : ~Open(a)}
    /\ gaveUp = {} /\ faults = 0

At(w, l) == pc[w] = "handle" /\ item[w] \notin processed[w] /\ call[w].at = l

\* handle() goes on, or it is over and keeps nothing.
Continue(w, c) == call' = [call EXCEPT ![w] = c] /\ UNCHANGED vars
Forget(w) == call' = [call EXCEPT ![w] = Fresh]

\* handle()'s three ways out, as ContinuationWorker has them.
Executed(w) == HandleDecided(w) /\ effects' = [effects EXCEPT ![item[w]] = @ + 1]
Blocked(w)  == HandleDecided(w) /\ effects' = effects
Failed(w)   == HandleFailed(w) /\ caught' = [caught EXCEPT ![w] = FALSE]
Raised(w)   == HandleFailed(w) /\ caught' = [caught EXCEPT ![w] = TRUE]

-----------------------------------------------------------------------------
(* candidates() *)

\* The paths that are left out for their failures.
\* Mutation: one failure less is enough.
ExhaustedTooSoon(j, a) == failures[j][a] >= MaxFailures - 1
Exhausted(j, a) == failures[j][a] >= MaxFailures

Screen(w) ==
    /\ At(w, "screen")
    /\ \E a \in call[w].left :
         LET found == ~Exhausted(item[w], a) /\ Open(a) IN
         Continue(w, [call[w] EXCEPT !.left = @ \ {a},
                                     !.candidates = IF found THEN @ \union {a} ELSE @])
    /\ UNCHANGED <<registry, failures, failed, taken, gaveUp, faults>>

\* No executable candidate: the decision is "blocked", and the event counts as
\* processed.
GiveUp(w) ==
    /\ At(w, "screen") /\ call[w].left = {} /\ call[w].candidates = {}
    /\ Blocked(w)
    /\ Forget(w)
    /\ gaveUp' = gaveUp \union {item[w]}
    /\ UNCHANGED <<registry, failures, failed, taken, faults>>

\* The scores of the candidates are left open: any may be the best.
Select(w) ==
    /\ At(w, "screen") /\ call[w].left = {}
    /\ \E a \in call[w].candidates : Continue(w, [call[w] EXCEPT !.at = "authorize", !.path = a])
    /\ UNCHANGED <<registry, failures, failed, taken, gaveUp, faults>>

-----------------------------------------------------------------------------
(* execute() *)

\* The gates are asked again, ready() and the failures are not.
Authorize(w) ==
    /\ At(w, "authorize")
    /\ \/ Gates(call[w].path) /\ Continue(w, [call[w] EXCEPT !.at = "run"])
       \/ ~Gates(call[w].path) /\ Failed(w) /\ Forget(w)
    /\ UNCHANGED <<registry, failures, failed, taken, gaveUp, faults>>

\* The executor returns or raises.
Run(w) ==
    /\ At(w, "run")
    /\ taken' = taken \union {call[w].path}
    /\ \/ /\ Continue(w, [call[w] EXCEPT !.at = "clear"])
          /\ UNCHANGED failed
       \/ /\ Continue(w, [call[w] EXCEPT !.at = "record"])
          /\ failed' = [failed EXCEPT ![item[w]][call[w].path] = @ + 1]
    /\ UNCHANGED <<registry, failures, gaveUp, faults>>

\* _record_failure: the counter is read in one transaction ...
RecordRead(w) ==
    /\ At(w, "record")
    /\ Continue(w, [call[w] EXCEPT !.at = "write", !.count = failures[item[w]][call[w].path]])
    /\ UNCHANGED <<registry, failures, failed, taken, gaveUp, faults>>

\* ... and written in another, and the exception goes on.
\* Mutation: the counter is written back as it was read.
RecordWriteSame(w) ==
    /\ At(w, "write")
    /\ failures' = [failures EXCEPT ![item[w]][call[w].path] = call[w].count]
    /\ Failed(w) /\ Forget(w)
    /\ UNCHANGED <<registry, failed, taken, gaveUp, faults>>
RecordWrite(w) ==
    /\ At(w, "write")
    /\ failures' = [failures EXCEPT ![item[w]][call[w].path] = call[w].count + 1]
    /\ Failed(w) /\ Forget(w)
    /\ UNCHANGED <<registry, failed, taken, gaveUp, faults>>

\* Mutation: a success takes one failure back.
ClearOne(w) ==
    /\ At(w, "clear")
    /\ failures' = [failures EXCEPT ![item[w]][call[w].path] = @ - 1]
    /\ Executed(w) /\ Forget(w)
    /\ UNCHANGED <<registry, failed, taken, gaveUp, faults>>
\* _clear_failure, and the decision is "executed".
Clear(w) ==
    /\ At(w, "clear")
    /\ failures' = [failures EXCEPT ![item[w]][call[w].path] = 0]
    /\ Executed(w) /\ Forget(w)
    /\ UNCHANGED <<registry, failed, taken, gaveUp, faults>>

\* A store call raises: candidates() lets it out of handle(), around execute()
\* it makes the decision "failed", also when the executor had succeeded.
Fault(w) ==
    /\ faults < MaxFaults /\ faults' = faults + 1
    /\ \/ At(w, "screen") /\ call[w].left # {} /\ Raised(w)
       \/ \E l \in {"authorize", "record", "write", "clear"} : At(w, l) /\ Failed(w)
    /\ Forget(w)
    /\ UNCHANGED <<registry, failures, failed, taken, gaveUp>>

-----------------------------------------------------------------------------
\* What claims and predicates are about changes at any time.
Change ==
    /\ \E a \in Paths :
         \/ evident' \in {evident \union {a}, evident \ {a}} /\ UNCHANGED ready
         \/ ready' \in {ready \union {a}, ready \ {a}} /\ UNCHANGED evident
    /\ UNCHANGED <<vars, profile, failures, call, failed, taken, gaveUp, faults>>
    /\ closed' = closed \union {a \in Paths : ~Open(a)'}

Handle(w) ==
    \/ Screen(w) \/ GiveUp(w) \/ Select(w)
    \/ Authorize(w) \/ Run(w) \/ RecordRead(w) \/ RecordWrite(w) \/ Clear(w)

\* The steps of ContinuationWorker that are not handle().
Elsewhere(w) ==
    \/ RecoverExpired(w) \/ ClaimJob(w) \/ ClaimNothing(w) \/ HandleDuplicate(w)
    \/ CompleteItem(w) \/ LoseLease(w)
    \/ FailSelect(w) \/ FailNotOwned(w) \/ FailItem(w)

Work(w) ==
    \/ Handle(w)
    \/ Elsewhere(w) /\ UNCHANGED govVars

GovNext ==
    \/ \E w \in Workers :
         \/ Work(w) \/ Fault(w)
         \/ /\ Crash(w) \/ StoreFault(w)
            /\ Forget(w)
            /\ UNCHANGED <<registry, failures, failed, taken, gaveUp, faults>>
    \/ (Tick \/ \E j \in Jobs : Enqueue(j)) /\ UNCHANGED govVars
    \/ Change

GovSpec == GovInit /\ [][GovNext]_allVars

-----------------------------------------------------------------------------
(* Properties *)

Routine(a) == ~profile[a].human /\ profile[a].risk < High /\ profile[a].reversible

\* No path that needs a person, is risky or cannot be undone is ever taken,
\* whatever its claim and the order of the two authorizations.
NoConsequentialPath == \A a \in taken : Routine(a)

\* An event is let go as blocked only after each of its paths has failed
\* max_failures_per_path times or was closed at some time: neither stale
\* counters nor rival processes make the governor give up early.
GivesUpAfterTrying ==
    \A j \in gaveUp, a \in Paths : a \in closed \/ failed[j][a] >= MaxFailures

\* As long as no process has outlived its lease, a failing path is tried
\* max_failures_per_path times for an event, and as often again at most for each
\* death or raised store call, which may lose a count or keep it from the path.
FailingPathsAreLeft ==
    ~outlived => \A j \in Jobs, a \in Paths :
        failed[j][a] <= MaxFailures * (1 + incidents + faults)

\* The workers behave as ContinuationWorker says whatever the governor does.
ImplementsWorker == Spec

(* Inductive invariants, for the proofs *)

\* Between two events handle() keeps nothing, and it works on one path.
CallInv ==
    \A w \in Workers :
        /\ call[w] # Fresh => pc[w] = "handle" /\ item[w] \notin processed[w]
        /\ call[w].at # "screen" => call[w].path \in Paths

\* Only an authorized path is about to be taken.
SafeInv ==
    /\ NoConsequentialPath
    /\ \A w \in Workers : call[w].at = "run" => Routine(call[w].path)

\* The processes that owe a counter one failure they have not read it for.
Owing(j, a) ==
    {w \in Workers : call[w].at = "record" /\ item[w] = j /\ call[w].path = a}

\* A counter never exceeds the calls that failed, nor what processes are about
\* to make of it.
CountInv ==
    \A j \in Jobs, a \in Paths :
        /\ failures[j][a] + Cardinality(Owing(j, a)) <= failed[j][a]
        /\ \A w \in Workers :
             call[w].at = "write" /\ item[w] = j /\ call[w].path = a
               => call[w].count + 1 + Cardinality(Owing(j, a)) <= failed[j][a]

\* A path that candidates() left out was closed, or had failed often enough.
TriedInv ==
    /\ GivesUpAfterTrying
    /\ \A a \in Paths \ closed : Open(a)
    /\ \A w \in Workers : pc[w] = "handle" =>
         \A a \in Paths \ closed :
            a \in call[w].left \union call[w].candidates
              \/ failed[item[w]][a] >= MaxFailures

\* What a path may fail for an event, given the incidents and faults so far.
Budget == MaxFailures * (1 + incidents + faults)

\* What it may still fail without another one: the rest of its
\* max_failures_per_path, unless the event is settled or decided.
Counting(w, j, a) == item[w] = j /\ call[w].at \in {"record", "write"} /\ call[w].path = a
Owed(j, a) == IF \E w \in Workers : Counting(w, j, a) THEN 1 ELSE 0
Remaining(j, a) == IF Line(j) = 0 THEN 0 ELSE MaxFailures - failures[j][a] - Owed(j, a)

Spending(j, a) ==
    /\ failed[j][a] + Remaining(j, a) <= Budget
    /\ failures[j][a] + Owed(j, a) <= MaxFailures

\* A process tries no path that has failed often enough, and counts on.
Trying(w, j, a) ==
    item[w] = j =>
        /\ a \in call[w].candidates => failures[j][a] < MaxFailures
        /\ call[w].at = "write" /\ call[w].path = a => call[w].count = failures[j][a]

SpentInv ==
    ~outlived =>
        /\ \A w \in Workers : call[w].at # "screen" => call[w].path \in call[w].candidates
        /\ \A j \in Jobs, a \in Paths : Spending(j, a) /\ \A w \in Workers : Trying(w, j, a)
=============================================================================
