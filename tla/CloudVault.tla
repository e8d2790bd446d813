----------------------------- MODULE CloudVault -----------------------------
(***************************************************************************)
(* The cloud continuity vault (cloud_continuity.py, run_cloud_continuity)  *)
(* in the life it has: a workspace holding the SQLite file and a directory *)
(* of snapshots and manifests, prepared, worked on and sealed by three     *)
(* processes in turn, each of which may die between two file operations.   *)
(* On a cloud runner the workspace comes from the newest cache and is      *)
(* saved to it only after a successful seal; run by hand it stays in       *)
(* place.  Files are damaged at rest.                                      *)
(*                                                                         *)
(* A snapshot's name is its creation time: here a number, larger later.    *)
(* A file's content is the version of the database it holds; a digest is   *)
(* the version it was computed from.                                       *)
(***************************************************************************)
EXTENDS Integers, FiniteSetsExt

CONSTANTS
    Retention,     \* OMEGA_CONTINUITY_RETENTION
    MaxSeals,      \* bound: snapshots ever named
    MaxWrites,     \* bound: versions of the database ever written
    MaxFaults,     \* bound: files damaged at rest
    MaxDeaths,     \* bound: processes and runners that die
    Absent, Corrupt

ASSUME VaultAssumption ==
    /\ Retention \in Nat /\ Retention >= 2
    /\ MaxSeals \in Nat /\ MaxWrites \in Nat
    /\ MaxFaults \in Nat /\ MaxDeaths \in Nat
    /\ Absent \notin Int /\ Corrupt \notin Int /\ Absent # Corrupt

VARIABLES
    deployment,    \* "cloud": a fresh runner per run; "local": one directory
    disk,          \* the workspace: database, its -wal file, snapshots
    cache,         \* the newest saved workspace; Absent before the first
    stage,         \* what the run is about to do
    todo,          \* restore_latest: valid snapshots not yet tried
    result,        \* how prepare ended
    clock,         \* the newest snapshot name used by any run
    writes, faults, deaths

vars == <<deployment, disk, cache, stage, todo, result, clock, writes, faults,
          deaths>>

Names == 1..MaxSeals
Versions == 1..MaxWrites
Files == Versions \union {Absent, Corrupt}

\* sealed and damaged are history: what a completed seal recorded under a
\* name, and the names one of whose files, or a copy restored from it, was damaged.
Disk == [main : Files,
         wal : Versions \union {Absent},
         snap : [Names -> Files],
         manifest : [Names -> Files],
         sealed : [Names -> Versions \union {Absent}],
         damaged : SUBSET Names]

Stages == {"idle", "prepare", "restore", "sidecars", "replace", "mark", "work",
           "seal", "backup", "manifest", "prune", "unlink", "save"}

EmptyDisk ==
    [main |-> Absent, wal |-> Absent,
     snap |-> [n \in Names |-> Absent], manifest |-> [n \in Names |-> Absent],
     sealed |-> [n \in Names |-> Absent], damaged |-> {}]

Init ==
    /\ deployment \in {"cloud", "local"}
    /\ disk = EmptyDisk
    /\ cache = Absent
    /\ stage = "idle"
    /\ todo = {}
    /\ result = "none"
    /\ clock = 0
    /\ writes = 0
    /\ faults = 0
    /\ deaths = 0

(***************************************************************************)
(* Reading the workspace                                                   *)
(***************************************************************************)

\* PRAGMA integrity_check of the database file.
Healthy(d) == d.main \in Versions

Sealed(d) == {n \in Names : d.sealed[n] # Absent}
Manifests(d) == {n \in Names : d.manifest[n] # Absent}

\* The manifest parses, its digest is the snapshot's and the snapshot passes.
ValidRecord(d, n) ==
    /\ d.manifest[n] \in Versions
    /\ d.snap[n] = d.manifest[n]

ValidSnapshots(d) == {n \in Manifests(d) : ValidRecord(d, n)}

\* Mutation: the manifest just written is counted twice.
BeyondRetentionShort(d) ==
    {n \in Manifests(d) :
        Cardinality({m \in Manifests(d) : m > n}) >= Retention - 1}

\* Manifests sorted by name, newest first, beyond the retained ones.
BeyondRetention(d) ==
    {n \in Manifests(d) :
        Cardinality({m \in Manifests(d) : m > n}) >= Retention}

(***************************************************************************)
(* A run: the newest cache is restored, prepare, work, seal, save          *)
(***************************************************************************)

\* Mutation: a run that finds no cache takes it for a workspace.
BeginRunUnchecked ==
    /\ stage = "idle"
    /\ disk' = IF deployment = "local" THEN disk ELSE cache
    /\ stage' = "prepare"
    /\ result' = "none"
    /\ UNCHANGED <<deployment, cache, todo, clock, writes, faults, deaths>>

BeginRun ==
    /\ stage = "idle"
    /\ disk' = IF deployment = "local" THEN disk
               ELSE IF cache = Absent THEN EmptyDisk ELSE cache
    /\ stage' = "prepare"
    /\ result' = "none"
    /\ UNCHANGED <<deployment, cache, todo, clock, writes, faults, deaths>>

PrepareHealthy ==
    /\ stage = "prepare"
    /\ Healthy(disk)
    /\ result' = "healthy"
    /\ stage' = "mark"
    /\ UNCHANGED <<deployment, disk, cache, todo, clock, writes, faults, deaths>>

\* The list of valid snapshots is read once, before any of them is tried.
PrepareDamaged ==
    /\ stage = "prepare"
    /\ ~Healthy(disk)
    /\ todo' = ValidSnapshots(disk)
    /\ stage' = "restore"
    /\ UNCHANGED <<deployment, disk, cache, result, clock, writes, faults, deaths>>

\* Mutation: the list is sorted in ascending order.
OldestOf(S) == CHOOSE n \in S : \A m \in S : n <= m

\* Snapshots are tried, and pruned, newest first.
NewestOf(S) == CHOOSE n \in S : \A m \in S : m <= n

\* It is copied beside the database and the copy passes its check.
CopyForRestore ==
    /\ stage = "restore"
    /\ todo # {}
    /\ stage' = "sidecars"
    /\ UNCHANGED <<deployment, disk, cache, todo, result, clock, writes, faults,
                   deaths>>

\* The copy fails its check: the medium damaged it, the next one is tried.
CopyRejected ==
    /\ stage = "restore"
    /\ todo # {}
    /\ faults < MaxFaults
    /\ faults' = faults + 1
    /\ disk' = [disk EXCEPT !.damaged = @ \union {NewestOf(todo)}]
    /\ todo' = todo \ {NewestOf(todo)}
    /\ UNCHANGED <<deployment, cache, stage, result, clock, writes, deaths>>

\* Mutation: the old -wal file is left for the next connection.
RemoveSidecarsLater ==
    /\ stage = "sidecars"
    /\ stage' = "replace"
    /\ UNCHANGED <<deployment, disk, cache, todo, result, clock, writes, faults,
                   deaths>>

\* The old database's -wal and -shm go before its replacement arrives.
RemoveSidecars ==
    /\ stage = "sidecars"
    /\ disk' = [disk EXCEPT !.wal = Absent]
    /\ stage' = "replace"
    /\ UNCHANGED <<deployment, cache, todo, result, clock, writes, faults, deaths>>

ReplaceDatabase ==
    /\ stage = "replace"
    /\ disk' = [disk EXCEPT !.main = disk.snap[NewestOf(todo)]]
    /\ result' = "restored"
    /\ stage' = "mark"
    /\ UNCHANGED <<deployment, cache, todo, clock, writes, faults, deaths>>

\* The database in place fails its check: the next snapshot is tried.
ReplacementRejected ==
    /\ stage = "replace"
    /\ faults < MaxFaults
    /\ faults' = faults + 1
    /\ disk' = [disk EXCEPT !.main = Corrupt,
                            !.damaged = @ \union {NewestOf(todo)}]
    /\ todo' = todo \ {NewestOf(todo)}
    /\ stage' = "restore"
    /\ UNCHANGED <<deployment, cache, result, clock, writes, deaths>>

\* Nothing to restore: a missing database starts fresh, a corrupt one raises,
\* and the workflow goes to its seal step, which runs always().
PrepareWithoutSnapshot ==
    /\ stage = "restore"
    /\ todo = {}
    /\ IF disk.main = Absent
         THEN result' = "fresh" /\ stage' = "mark"
         ELSE result' = "blocked" /\ stage' = "seal"
    /\ UNCHANGED <<deployment, disk, cache, todo, clock, writes, faults, deaths>>

\* A committed write: a new version, whose frames may stay in the -wal file.
Write(d, w) == [d EXCEPT !.main = writes + 1, !.wal = w]

MarkPrepared ==
    /\ stage = "mark"
    /\ writes < MaxWrites
    /\ \E w \in {Absent, writes + 1} : disk' = Write(disk, w)
    /\ writes' = writes + 1
    /\ todo' = {}
    /\ stage' = "work"
    /\ UNCHANGED <<deployment, cache, result, clock, faults, deaths>>

Work ==
    /\ stage = "work"
    /\ writes < MaxWrites
    /\ \E w \in {Absent, writes + 1} : disk' = Write(disk, w)
    /\ writes' = writes + 1
    /\ UNCHANGED <<deployment, cache, stage, todo, result, clock, faults, deaths>>

WorkEnds ==
    /\ stage = "work"
    /\ stage' = "seal"
    /\ UNCHANGED <<deployment, disk, cache, todo, result, clock, writes, faults,
                   deaths>>

SealRefused ==
    /\ stage = "seal"
    /\ ~Healthy(disk)
    /\ stage' = "idle"
    /\ todo' = {}
    /\ UNCHANGED <<deployment, disk, cache, result, clock, writes, faults, deaths>>

MarkSealed ==
    /\ stage = "seal"
    /\ Healthy(disk)
    /\ writes < MaxWrites
    /\ \E w \in {Absent, writes + 1} : disk' = Write(disk, w)
    /\ writes' = writes + 1
    /\ todo' = {}
    /\ stage' = "backup"
    /\ UNCHANGED <<deployment, cache, result, clock, faults, deaths>>

\* Backup into a temporary file, its check, its rename to the final name.
TakeSnapshot ==
    /\ stage = "backup"
    /\ Healthy(disk)
    /\ clock < MaxSeals
    /\ clock' = clock + 1
    /\ disk' = [disk EXCEPT !.snap[clock + 1] = disk.main]
    /\ stage' = "manifest"
    /\ UNCHANGED <<deployment, cache, todo, result, writes, faults, deaths>>

WriteManifest ==
    /\ stage = "manifest"
    /\ disk' = [disk EXCEPT !.manifest[clock] = disk.snap[clock],
                            !.sealed[clock] = disk.snap[clock]]
    /\ stage' = "prune"
    /\ UNCHANGED <<deployment, cache, todo, result, clock, writes, faults, deaths>>

\* A manifest beyond the retention: its snapshot goes first, then itself.  An
\* unreadable manifest names no snapshot, whose file stays.
PruneSnapshot ==
    /\ stage = "prune"
    /\ BeyondRetention(disk) # {}
    /\ todo' = {NewestOf(BeyondRetention(disk))}
    /\ disk' = [disk EXCEPT !.snap = [n \in Names |->
                   IF n \in todo' /\ disk.manifest[n] # Corrupt
                   THEN Absent ELSE @[n]]]
    /\ stage' = "unlink"
    /\ UNCHANGED <<deployment, cache, result, clock, writes, faults, deaths>>

PruneManifest ==
    /\ stage = "unlink"
    /\ disk' = [disk EXCEPT !.manifest = [n \in Names |->
                                IF n \in todo THEN Absent ELSE @[n]]]
    /\ todo' = {}
    /\ stage' = "prune"
    /\ UNCHANGED <<deployment, cache, result, clock, writes, faults, deaths>>

SealEnds ==
    /\ stage = "prune"
    /\ BeyondRetention(disk) = {}
    /\ stage' = "save"
    /\ UNCHANGED <<deployment, disk, cache, todo, result, clock, writes, faults,
                   deaths>>

\* The cache is saved because the seal step succeeded.
SaveCache ==
    /\ stage = "save"
    /\ cache' = IF deployment = "cloud" THEN disk ELSE cache
    /\ stage' = "idle"
    /\ UNCHANGED <<deployment, disk, todo, result, clock, writes, faults, deaths>>

(***************************************************************************)
(* What goes wrong                                                         *)
(***************************************************************************)

\* A process dies.  After prepare or the work the workflow still seals; a dead
\* seal ends the run unsaved.  By hand, the next run finds what was left.
ProcessDies ==
    /\ stage # "idle"
    /\ deaths < MaxDeaths
    /\ deaths' = deaths + 1
    /\ stage' = IF /\ deployment = "cloud"
                   /\ stage \in {"prepare", "restore", "sidecars", "replace",
                                 "mark", "work"}
                THEN "seal" ELSE "idle"
    /\ todo' = {}
    /\ UNCHANGED <<deployment, disk, cache, result, clock, writes, faults>>

\* The runner itself is lost (timeout-minutes), and with it the workspace.
RunnerDies ==
    /\ stage # "idle"
    /\ deployment = "cloud"
    /\ deaths < MaxDeaths
    /\ deaths' = deaths + 1
    /\ disk' = IF cache = Absent THEN EmptyDisk ELSE cache
    /\ stage' = "idle"
    /\ todo' = {}
    /\ UNCHANGED <<deployment, cache, result, clock, writes, faults>>

\* One file of the workspace at rest is damaged or lost.
Damaged(d) ==
    {[d EXCEPT !.main = f] : f \in {Absent, Corrupt}} \union
    {[d EXCEPT !.snap[n] = Corrupt, !.damaged = @ \union {n}] :
        n \in {m \in Names : d.snap[m] \in Versions}} \union
    {[d EXCEPT !.manifest[n] = Corrupt, !.damaged = @ \union {n}] :
        n \in {m \in Names : d.manifest[m] \in Versions}}

MediumFault ==
    /\ stage = "idle"
    /\ faults < MaxFaults
    /\ faults' = faults + 1
    /\ \/ /\ deployment = "local" /\ Healthy(disk)
          /\ disk' \in Damaged(disk)
          /\ UNCHANGED cache
       \/ /\ deployment = "cloud" /\ cache # Absent
          /\ cache' \in Damaged(cache)
          /\ UNCHANGED disk
    /\ UNCHANGED <<deployment, stage, todo, result, clock, writes, deaths>>

\* The bounds are used up.
Exhausted ==
    /\ \/ stage \in {"mark", "seal"} /\ writes = MaxWrites /\ (stage = "seal" => Healthy(disk))
       \/ stage = "backup" /\ clock = MaxSeals
    /\ UNCHANGED vars

Next ==
    \/ BeginRun
    \/ PrepareHealthy \/ PrepareDamaged
    \/ CopyForRestore \/ CopyRejected \/ RemoveSidecars
    \/ ReplaceDatabase \/ ReplacementRejected
    \/ PrepareWithoutSnapshot \/ MarkPrepared
    \/ Work \/ WorkEnds
    \/ SealRefused \/ MarkSealed \/ TakeSnapshot \/ WriteManifest
    \/ PruneSnapshot \/ PruneManifest \/ SealEnds \/ SaveCache
    \/ ProcessDies \/ RunnerDies \/ MediumFault
    \/ Exhausted

Spec == Init /\ [][Next]_vars

(***************************************************************************)
(* Properties                                                              *)
(***************************************************************************)

\* The workspace in use and the one that is saved.
Workspaces == {disk} \union ({cache} \ {Absent})

\* So many seals have followed n that it is not retained any more.
Superseded(d, n) == Cardinality({m \in Sealed(d) : m > n}) >= Retention

\* Every file holds a version or is damaged; counters stay in their bounds.
TypeOK ==
    /\ deployment \in {"cloud", "local"}
    /\ disk \in Disk
    /\ cache \in Disk \union {Absent}
    /\ stage \in Stages
    /\ todo \subseteq Names
    /\ result \in {"none", "healthy", "restored", "fresh", "blocked"}
    /\ clock \in 0..MaxSeals
    /\ writes \in 0..MaxWrites
    /\ faults \in 0..MaxFaults
    /\ deaths \in 0..MaxDeaths

\* SQLite replays a -wal file into whatever database lies beside it: a
\* database file that passes its check never lies beside the -wal file of
\* another one, wherever prepare, the work or the restore were interrupted.
SidecarsMatch ==
    Healthy(disk) /\ disk.wal # Absent => disk.wal = disk.main

\* A vault sealed k times keeps min(k, retention) recovery points, less the
\* ones whose own files were damaged: no interrupted seal or prune costs one.
RecoveryPointsKept ==
    \A d \in Workspaces :
        Cardinality(ValidSnapshots(d)) + Cardinality(d.damaged)
            >= Min({Retention, Cardinality(Sealed(d))})

\* A restored database is exactly what a completed seal recorded, and of the
\* newest seals, as many as are retained, each one after it was damaged:
\* recovery goes no further back than the damage does.
RestoresNewestIntact ==
    stage = "mark" /\ result = "restored" =>
        /\ disk.main = disk.sealed[NewestOf(todo)]
        /\ \A n \in Sealed(disk) \ disk.damaged :
              n > NewestOf(todo) => Superseded(disk, n)

(***************************************************************************)
(* Inductive strengthenings, for CloudVault_proofs                         *)
(***************************************************************************)

\* What a stage finds done by the one before.
StageInv ==
    /\ stage \in {"sidecars", "replace"} => todo # {}
    /\ stage = "manifest" => clock \in Names /\ disk.snap[clock] \in Versions

SidecarsInv ==
    /\ \A d \in Workspaces : Healthy(d) /\ d.wal # Absent => d.wal = d.main
    /\ stage = "replace" => disk.wal = Absent

\* A manifest is a seal's, and names to come are free.
ManifestsOf(d) ==
    \A n \in Names :
        /\ d.manifest[n] # Absent => d.sealed[n] # Absent
        /\ d.manifest[n] \in Versions => d.manifest[n] = d.sealed[n]
        /\ n > clock => d.snap[n] = Absent /\ d.sealed[n] = Absent

\* What was sealed is still valid, unless it is damaged or superseded.
KeptOf(d) ==
    \A n \in Sealed(d) \ d.damaged : ValidRecord(d, n) \/ Superseded(d, n)

Restoring == stage \in {"restore", "sidecars", "replace"}

PointsInv ==
    /\ \A d \in Workspaces : ManifestsOf(d) /\ KeptOf(d)
    /\ stage = "unlink" => \A n \in todo : Superseded(disk, n)
    /\ Restoring => /\ todo \subseteq ValidSnapshots(disk)
                    /\ ValidSnapshots(disk) \ disk.damaged \subseteq todo

=============================================================================
