----------------------------- MODULE GitHubWorld -----------------------------
(***************************************************************************)
(* The repository as the autonomy runtime sees it through GitHubControl     *)
(* (github_control.py): its main branch, the candidate branches of goals    *)
(* and their pull requests, with the checks of every commit.  People merge, *)
(* close and push at any time.  A commit is its place on its branch.        *)
(***************************************************************************)
EXTENDS Integers, Sequences, FiniteSets

CONSTANTS
    Roadmap,         \* goals of DEFAULT_AUTONOMY_ROADMAP
    Improvements,    \* number of excellence generations that have a goal
    Setups           \* what may be deployed, see Setup

\* An excellence goal is named after its event, which the generation and its
\* signal determine: one signal, so one goal per generation.
Improvement(n) == <<"excellence", n>>
Goals == Roadmap \union {Improvement(n) : n \in 1..Improvements}

\* What all workflow runs of a commit say together.  "partial": all are
\* acceptable and a required one is missing or skipped; "flaky": one failed
\* with a transient marker in its log.
Check == {"pending", "green", "partial", "red", "flaky"}
Acceptable == {"green", "partial"}

\* build_runtime_from_env installs all actions, "rerun" if its flag is set; the
\* tests install the governor or the CI recovery without the others.
Actions == {"governor", "repair", "rerun", "development"}
Setup == [actions : SUBSET Actions,
          roadmap : SUBSET Roadmap,  \* seeded: with all they depend on
          signal : BOOLEAN,          \* an observation of a gap is on record
          checks : SUBSET Check,     \* how checks may end
          events : SUBSET {"merged", "passed", "failed", "signal"},
                                     \* what the webhooks are subscribed to
          incidents : Nat,           \* bound: crashes, calls that raise,
                                     \* repeated deliveries
          meddling : Nat]            \* bound: what people push or close, early
                                     \* and stray events

ASSUME WorldAssumption ==
    /\ IsFiniteSet(Roadmap) /\ Roadmap # {}
    /\ Improvements \in Nat
    /\ Setups \subseteq Setup
    /\ \A n \in 1..Improvements : Improvement(n) \notin Roadmap

VARIABLES
    main,            \* commits on the base branch, so its head
    branches,        \* candidate branches: <<goal, base commit>>, as in the name
    pulls,           \* pull requests, by number
    setup,           \* one of Setups, for good
    incidents, meddling

world == <<main, branches, pulls>>

Pull == [goal : Goals,
         state : {"open", "merged", "closed"},
         by : {"nobody", "person", "governor"},   \* who merged it
         tip : Nat \ {0},                         \* commits on its branch
         head : Nat \ {0},                        \* the head it shows
         checks : Seq(Check),
         fixes : Nat]                             \* commits of CI repair

WorldTypeOK ==
    /\ main \in Nat
    /\ branches \subseteq (Goals \X Nat)
    /\ pulls \in Seq(Pull)
    /\ \A p \in DOMAIN pulls : pulls[p].head \in DOMAIN pulls[p].checks
    /\ setup \in Setups
    /\ incidents \in 0..setup.incidents
    /\ meddling \in 0..setup.meddling

WorldInit ==
    /\ main = 0 /\ branches = {} /\ pulls = <<>>
    /\ setup \in Setups
    /\ incidents = 0 /\ meddling = 0

Meddling == meddling < setup.meddling /\ meddling' = meddling + 1
Incident(n) == incidents + n <= setup.incidents /\ incidents' = incidents + n

HeadCheck(p) == pulls[p].checks[pulls[p].head]

-----------------------------------------------------------------------------
(* GitHubControl *)

\* create_branch: the reference must not exist.
BranchFree(g, base) == <<g, base>> \notin branches

\* commit_files on the new branch, then create_pull_request.
NewPull(g) == [goal |-> g, state |-> "open", by |-> "nobody", tip |-> 1, head |-> 1,
               checks |-> <<"pending">>, fixes |-> 0]

\* A commit on the branch of p shows in the pull request while it is open.
Committed(p, fix) ==
    LET pull == pulls[p] IN
    IF pull.state = "open"
    THEN [pull EXCEPT !.tip = @ + 1, !.head = @ + 1,
                      !.checks = Append(@, "pending"), !.fixes = @ + fix]
    ELSE [pull EXCEPT !.tip = @ + 1, !.fixes = @ + fix]

\* commit_files moves the branch only from the head the caller has seen.
CommitAllowed(p, expected) == pulls[p].tip = expected

\* merge_pull_request merges only the head the caller has seen.
\* Mutation: the expected head is not passed on.
MergeAllowedAny(p, expected) == pulls[p].state = "open"
MergeAllowed(p, expected) == pulls[p].state = "open" /\ pulls[p].head = expected

Merge(p, who) ==
    /\ pulls' = [pulls EXCEPT ![p].state = "merged", ![p].by = who]
    /\ main' = main + 1
    /\ UNCHANGED branches

-----------------------------------------------------------------------------
(* People *)

PersonPushes ==
    /\ Meddling
    /\ \E p \in DOMAIN pulls :
         /\ pulls[p].state = "open"
         /\ pulls' = [pulls EXCEPT ![p] = Committed(p, 0)]
    /\ UNCHANGED <<main, branches, setup, incidents>>

PersonCloses ==
    /\ Meddling
    /\ \E p \in DOMAIN pulls :
         /\ pulls[p].state = "open"
         /\ pulls' = [pulls EXCEPT ![p].state = "closed"]
    /\ UNCHANGED <<main, branches, setup, incidents>>

MainMoves ==
    /\ Meddling
    /\ main' = main + 1
    /\ UNCHANGED <<branches, pulls, setup, incidents>>

People == PersonPushes \/ PersonCloses \/ MainMoves
=============================================================================
