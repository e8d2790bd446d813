--------------------------- MODULE CloudVault_proofs ---------------------------
(***************************************************************************)
(* Proofs about CloudVault, for any retention and any bound on the seals,  *)
(* the writes, the damaged files and the deaths.                           *)
(***************************************************************************)
EXTENDS CloudVault, FiniteSetTheorems, WellFoundedInduction, TLAPS

-----------------------------------------------------------------------------
(* Types *)

LEMMA EmptyDiskType == EmptyDisk \in Disk
BY DEF EmptyDisk, Disk, Files

LEMMA NextVersion == ASSUME writes \in 0..MaxWrites, writes < MaxWrites PROVE writes + 1 \in Versions
BY VaultAssumption DEF Versions

LEMMA WriteType ==
    ASSUME NEW d \in Disk, writes + 1 \in Versions, NEW w \in {Absent, writes + 1}
    PROVE  /\ Write(d, w) \in Disk
           /\ Write(d, w).main = writes + 1 /\ Write(d, w).wal = w
           /\ Write(d, w).snap = d.snap /\ Write(d, w).manifest = d.manifest
           /\ Write(d, w).sealed = d.sealed /\ Write(d, w).damaged = d.damaged
BY DEF Write, Disk, Files

\* What a fault at rest may do to a workspace.
Worse(d, e) ==
    /\ e \in Disk
    /\ e.wal = d.wal /\ e.sealed = d.sealed
    /\ e.main = d.main \/ e.main \in {Absent, Corrupt}
    /\ d.damaged \subseteq e.damaged
    /\ \A n \in Names :
         /\ e.snap[n] = d.snap[n] \/ (e.snap[n] = Corrupt /\ d.snap[n] # Absent)
         /\ e.manifest[n] = d.manifest[n] \/ (e.manifest[n] = Corrupt /\ d.manifest[n] # Absent)
         /\ n \notin e.damaged => e.snap[n] = d.snap[n] /\ e.manifest[n] = d.manifest[n]

LEMMA DamagedType ==
    ASSUME NEW d \in Disk, NEW e \in Damaged(d)
    PROVE  Worse(d, e)
<1>1. Absent \notin Versions
  BY VaultAssumption DEF Versions
<1>2. ASSUME NEW f \in {Absent, Corrupt}, e = [d EXCEPT !.main = f] PROVE Worse(d, e)
  BY <1>2 DEF Files, Disk, Worse
<1>3. ASSUME NEW n \in Names, d.snap[n] \in Versions,
             e = [d EXCEPT !.snap[n] = Corrupt, !.damaged = @ \union {n}]
      PROVE  Worse(d, e)
  <2>1. [d.snap EXCEPT ![n] = Corrupt] \in [Names -> Files]
    BY DEF Disk, Files
  <2>2. d.damaged \union {n} \in SUBSET Names
    BY DEF Disk
  <2> QED
    BY <1>1, <1>3, <2>1, <2>2 DEF Disk, Worse
<1>4. ASSUME NEW n \in Names, d.manifest[n] \in Versions,
             e = [d EXCEPT !.manifest[n] = Corrupt, !.damaged = @ \union {n}]
      PROVE  Worse(d, e)
  <2>1. [d.manifest EXCEPT ![n] = Corrupt] \in [Names -> Files]
    BY DEF Disk, Files
  <2>2. d.damaged \union {n} \in SUBSET Names
    BY DEF Disk
  <2> QED
    BY <1>1, <1>4, <2>1, <2>2 DEF Disk, Worse
<1> QED
  BY <1>2, <1>3, <1>4 DEF Damaged

LEMMA NewestIsOne ==
    ASSUME NEW N \in Nat, NEW S, S \subseteq 1..N, S # {}
    PROVE  /\ NewestOf(S) \in S
           /\ \A m \in S : m <= NewestOf(S)
<1> DEFINE T == {N - n : n \in S}
<1>1. T \subseteq Nat
  <2> SUFFICES ASSUME NEW n \in S PROVE N - n \in Nat
    OBVIOUS
  <2> QED
    BY n \in 1..N
<1>2. T # {}
  OBVIOUS
<1>3. PICK x \in T : \A y \in T : ~ (<<y, x>> \in OpToRel(<, Nat))
  BY <1>1, <1>2, NatLessThanWellFounded, WFMin
<1>4. \A y \in T : ~ (y < x)
  BY <1>1, <1>3 DEF OpToRel
<1>5. PICK n \in S : x = N - n
  OBVIOUS
<1>6. ASSUME NEW m \in S PROVE m <= n
  <2>1. ~ (N - m < N - n)
    BY <1>4, <1>5
  <2>2. m \in Int /\ n \in Int
    OBVIOUS
  <2> QED
    BY <2>1, <2>2
<1> QED
  BY <1>6 DEF NewestOf

LEMMA NewestOfNames ==
    ASSUME NEW S, S \subseteq Names, S # {}
    PROVE  NewestOf(S) \in S /\ \A m \in S : m <= NewestOf(S)
BY VaultAssumption, NewestIsOne DEF Names

\* Every file of the workspace and of the cache holds a version or is damaged,
\* through any interruption of prepare, work, seal and prune.
THEOREM TypeCorrect == Spec => [](TypeOK /\ StageInv)
<1>1. Init => TypeOK /\ StageInv
  BY VaultAssumption, EmptyDiskType DEF Init, TypeOK, Stages, StageInv
<1>2. TypeOK /\ StageInv /\ [Next]_vars => TypeOK' /\ StageInv'
  <2> SUFFICES ASSUME TypeOK, StageInv, [Next]_vars PROVE TypeOK' /\ StageInv'
    OBVIOUS
  <2> USE VaultAssumption DEF TypeOK, StageInv
  <2>1. CASE BeginRun
    BY <2>1, EmptyDiskType DEF BeginRun, Stages
  <2>2. CASE PrepareHealthy \/ PrepareDamaged \/ CopyForRestore \/ PrepareWithoutSnapshot
    BY <2>2 DEF PrepareHealthy, PrepareDamaged, CopyForRestore, PrepareWithoutSnapshot, ValidSnapshots, Manifests, Stages
  <2>3. CASE CopyRejected
    <3>1. NewestOf(todo) \in Names
      BY <2>3, NewestOfNames DEF CopyRejected
    <3>2. [disk EXCEPT !.damaged = @ \union {NewestOf(todo)}] \in Disk
      BY <3>1 DEF Disk
    <3> QED
      BY <2>3, <3>2 DEF CopyRejected
  <2>4. CASE RemoveSidecars
    BY <2>4 DEF RemoveSidecars, Disk, Stages
  <2>5. CASE ReplaceDatabase
    <3>1. NewestOf(todo) \in Names
      BY <2>5, NewestOfNames DEF ReplaceDatabase
    <3>2. [disk EXCEPT !.main = disk.snap[NewestOf(todo)]] \in Disk
      BY <3>1 DEF Disk
    <3> QED
      BY <2>5, <3>2 DEF ReplaceDatabase, Stages
  <2>6. CASE ReplacementRejected
    <3>1. NewestOf(todo) \in Names
      BY <2>6, NewestOfNames DEF ReplacementRejected
    <3>2. [disk EXCEPT !.main = Corrupt, !.damaged = @ \union {NewestOf(todo)}] \in Disk
      BY <3>1 DEF Disk, Files
    <3> QED
      BY <2>6, <3>2 DEF ReplacementRejected, Stages
  <2>7. CASE MarkPrepared \/ Work \/ MarkSealed
    BY <2>7, NextVersion, WriteType DEF MarkPrepared, Work, MarkSealed, Stages
  <2>8. CASE WorkEnds \/ SealRefused \/ SealEnds \/ SaveCache
    BY <2>8 DEF WorkEnds, SealRefused, SealEnds, SaveCache, Stages
  <2>9. CASE TakeSnapshot
    <3>1. clock + 1 \in Names /\ disk.main \in Files
      BY <2>9 DEF TakeSnapshot, Names, Disk
    <3>2. [disk.snap EXCEPT ![clock + 1] = disk.main] \in [Names -> Files]
      BY <3>1 DEF Disk
    <3>3. disk' \in Disk /\ disk'.snap[clock'] \in Versions
      BY <2>9, <3>1, <3>2 DEF TakeSnapshot, Disk, Healthy
    <3> QED
      BY <2>9, <3>1, <3>3 DEF TakeSnapshot, Stages, Names
  <2>10. CASE WriteManifest
    <3> DEFINE v == disk.snap[clock]
    <3>1. clock \in Names /\ v \in Versions
      BY <2>10 DEF WriteManifest
    <3>2. /\ [disk.manifest EXCEPT ![clock] = v] \in [Names -> Files]
          /\ [disk.sealed EXCEPT ![clock] = v] \in [Names -> Versions \union {Absent}]
      BY <3>1 DEF Disk, Files
    <3>3. disk' \in Disk
      BY <2>10, <3>2 DEF WriteManifest, Disk
    <3> QED
      BY <2>10, <3>3 DEF WriteManifest, Stages
  <2>11. CASE PruneSnapshot
    <3>1. BeyondRetention(disk) \subseteq Names
      BY DEF BeyondRetention, Manifests
    <3>2. todo' \subseteq Names
      BY <2>11, <3>1, NewestOfNames DEF PruneSnapshot
    <3>3. disk' \in Disk
      BY <2>11 DEF PruneSnapshot, Disk, Files
    <3> QED
      BY <2>11, <3>2, <3>3 DEF PruneSnapshot, Stages
  <2>12. CASE PruneManifest
    BY <2>12 DEF PruneManifest, Disk, Files, Stages
  <2>13. CASE ProcessDies \/ RunnerDies
    BY <2>13, EmptyDiskType DEF ProcessDies, RunnerDies, Stages
  <2>14. CASE MediumFault
    BY <2>14, DamagedType DEF MediumFault, Worse
  <2>15. CASE UNCHANGED vars
    BY <2>15 DEF vars
  <2> QED
    BY <2>1, <2>2, <2>3, <2>4, <2>5, <2>6, <2>7, <2>8, <2>9, <2>10, <2>11, <2>12, <2>13, <2>14, <2>15 DEF Next, Exhausted
<1> QED
  BY <1>1, <1>2, PTL DEF Spec

-----------------------------------------------------------------------------
(* No foreign -wal file *)

\* A database that passes its check never lies beside the -wal file of another
\* one, wherever prepare, the work or a restore were interrupted.
THEOREM NoForeignSidecar == Spec => []SidecarsMatch
<1>1. Init => SidecarsInv
  BY DEF Init, SidecarsInv, Workspaces, EmptyDisk
<1>2. TypeOK /\ StageInv /\ SidecarsInv /\ [Next]_vars => SidecarsInv'
  <2> SUFFICES ASSUME TypeOK, StageInv, SidecarsInv, [Next]_vars PROVE SidecarsInv'
    OBVIOUS
  <2>0. Absent \notin Versions /\ Corrupt \notin Versions
    BY VaultAssumption DEF Versions
  <2> USE DEF SidecarsInv, Workspaces, Healthy
  <2>1. CASE BeginRun
    BY <2>1 DEF BeginRun, EmptyDisk
  <2>2. CASE PrepareHealthy \/ PrepareDamaged \/ CopyForRestore \/ PrepareWithoutSnapshot
    BY <2>2 DEF PrepareHealthy, PrepareDamaged, CopyForRestore, PrepareWithoutSnapshot
  <2>3. CASE CopyRejected
    BY <2>3 DEF CopyRejected, TypeOK, Disk
  <2>4. CASE RemoveSidecars
    BY <2>4 DEF RemoveSidecars, TypeOK, Disk
  <2>5. CASE ReplaceDatabase
    BY <2>5 DEF ReplaceDatabase, TypeOK, Disk
  <2>6. CASE ReplacementRejected
    BY <2>0, <2>6 DEF ReplacementRejected, TypeOK, Disk
  <2>7. CASE MarkPrepared \/ Work \/ MarkSealed
    <3>1. writes + 1 \in Versions
      BY <2>7, NextVersion DEF MarkPrepared, Work, MarkSealed, TypeOK
    <3>2. PICK w \in {Absent, writes + 1} : disk' = Write(disk, w)
      BY <2>7 DEF MarkPrepared, Work, MarkSealed
    <3>3. disk'.main = writes + 1 /\ disk'.wal = w
      BY <3>1, <3>2, WriteType DEF TypeOK
    <3>4. cache' = cache /\ stage' # "replace"
      BY <2>7 DEF MarkPrepared, Work, MarkSealed
    <3>5. disk'.main \in Versions /\ disk'.wal # Absent => disk'.wal = disk'.main
      BY <3>2, <3>3
    <3> QED
      BY <3>4, <3>5
  <2>8. CASE WorkEnds \/ SealRefused \/ SealEnds \/ SaveCache
    BY <2>8 DEF WorkEnds, SealRefused, SealEnds, SaveCache
  <2>9. CASE TakeSnapshot \/ WriteManifest \/ PruneSnapshot \/ PruneManifest
    <3>1. disk'.main = disk.main /\ disk'.wal = disk.wal
      <4>1. CASE TakeSnapshot
        BY <4>1 DEF TakeSnapshot, TypeOK, Disk
      <4>2. CASE WriteManifest
        BY <4>2 DEF WriteManifest, TypeOK, Disk
      <4>3. CASE PruneSnapshot
        BY <4>3 DEF PruneSnapshot, TypeOK, Disk
      <4>4. CASE PruneManifest
        BY <4>4 DEF PruneManifest, TypeOK, Disk
      <4> QED
        BY <2>9, <4>1, <4>2, <4>3, <4>4
    <3>2. cache' = cache /\ stage' # "replace"
      BY <2>9 DEF TakeSnapshot, WriteManifest, PruneSnapshot, PruneManifest
    <3> QED
      BY <3>1, <3>2
  <2>10. CASE ProcessDies \/ RunnerDies
    BY <2>10 DEF ProcessDies, RunnerDies, EmptyDisk
  <2>11. CASE MediumFault
    BY <2>0, <2>11, DamagedType DEF MediumFault, TypeOK, Worse
  <2>12. CASE UNCHANGED vars
    BY <2>12 DEF vars
  <2> QED
    BY <2>1, <2>2, <2>3, <2>4, <2>5, <2>6, <2>7, <2>8, <2>9, <2>10, <2>11, <2>12 DEF Next, Exhausted
<1>3. SidecarsInv => SidecarsMatch
  BY DEF SidecarsInv, SidecarsMatch, Workspaces
<1> QED
  BY <1>1, <1>2, <1>3, TypeCorrect, PTL DEF Spec

-----------------------------------------------------------------------------
(* Recovery points *)

LEMMA CardMonotone ==
    ASSUME NEW T, T \subseteq Names, NEW S, S \subseteq T
    PROVE  /\ IsFiniteSet(S) /\ IsFiniteSet(T)
           /\ Cardinality(S) \in Nat /\ Cardinality(T) \in Nat
           /\ Cardinality(S) <= Cardinality(T)
<1>1. IsFiniteSet(Names)
  BY VaultAssumption, FS_Interval DEF Names
<1>2. IsFiniteSet(T) /\ IsFiniteSet(S)
  BY <1>1, FS_Subset
<1> QED
  BY <1>2, FS_Subset, FS_CardinalityType

LEMMA SupersededGrows ==
    ASSUME NEW d, NEW e, Sealed(d) \subseteq Sealed(e), NEW n \in Names, Superseded(d, n)
    PROVE  Superseded(e, n)
<1>1. {m \in Sealed(e) : m > n} \subseteq Names
  BY DEF Sealed
<1>2. {m \in Sealed(d) : m > n} \subseteq {m \in Sealed(e) : m > n}
  OBVIOUS
<1> QED
  BY <1>1, <1>2, CardMonotone, VaultAssumption DEF Superseded

\* Beyond the retained manifests are superseded seals only.
LEMMA BeyondSuperseded ==
    ASSUME NEW d, ManifestsOf(d), NEW n \in BeyondRetention(d)
    PROVE  n \in Names /\ Superseded(d, n)
<1>1. n \in Names /\ Manifests(d) \subseteq Sealed(d) /\ Sealed(d) \subseteq Names
  BY DEF BeyondRetention, Manifests, ManifestsOf, Sealed
<1>2. {m \in Manifests(d) : m > n} \subseteq {m \in Sealed(d) : m > n}
  BY <1>1
<1>3. {m \in Sealed(d) : m > n} \subseteq Names
  BY <1>1
<1> QED
  BY <1>1, <1>2, <1>3, CardMonotone, VaultAssumption DEF Superseded, BeyondRetention

\* What lies in the snapshot directory, apart from the database beside it.
SameVault(d, e) ==
    /\ e.snap = d.snap /\ e.manifest = d.manifest
    /\ e.sealed = d.sealed /\ d.damaged \subseteq e.damaged

LEMMA SameVaultKept ==
    ASSUME NEW d, NEW e, SameVault(d, e)
    PROVE  /\ ValidSnapshots(e) = ValidSnapshots(d)
           /\ ManifestsOf(d) => ManifestsOf(e)
           /\ KeptOf(d) => KeptOf(e)
           /\ \A n : Superseded(d, n) => Superseded(e, n)
BY DEF SameVault, ValidSnapshots, Manifests, ValidRecord, ManifestsOf, KeptOf, Sealed, Superseded

LEMMA WorseKept ==
    ASSUME NEW d, NEW e, Worse(d, e), ManifestsOf(d), KeptOf(d)
    PROVE  ManifestsOf(e) /\ KeptOf(e)
<1>1. Corrupt \notin Versions
  BY VaultAssumption DEF Versions
<1>2. ManifestsOf(e)
  BY <1>1 DEF Worse, ManifestsOf
<1>3. KeptOf(e)
  BY DEF Worse, KeptOf, ValidRecord, Sealed, Superseded
<1> QED
  BY <1>2, <1>3

LEMMA EmptyKept == ManifestsOf(EmptyDisk) /\ KeptOf(EmptyDisk)
<1>1. Absent \notin Versions
  BY VaultAssumption DEF Versions
<1> QED
  BY <1>1 DEF EmptyDisk, ManifestsOf, KeptOf, Sealed

LEMMA VaultsNext ==
    ASSUME \A d \in Workspaces : ManifestsOf(d) /\ KeptOf(d),
           clock \in Int, clock' \in Int, clock <= clock',
           ManifestsOf(disk)', KeptOf(disk)',
           cache' \in {cache, disk} \/ (ManifestsOf(cache) /\ KeptOf(cache))'
    PROVE  (\A d \in Workspaces : ManifestsOf(d) /\ KeptOf(d))'
<1>1. ASSUME NEW d, ManifestsOf(d) PROVE ManifestsOf(d)'
  BY <1>1, VaultAssumption DEF ManifestsOf, Names
<1>2. ASSUME NEW d, KeptOf(d) PROVE KeptOf(d)'
  BY <1>2 DEF KeptOf, Sealed, ValidRecord, Superseded, Names
<1> SUFFICES ASSUME NEW d \in Workspaces' PROVE (ManifestsOf(d) /\ KeptOf(d))'
  OBVIOUS
<1>3. CASE d = disk'
  BY <1>3 DEF ManifestsOf, KeptOf, Sealed, ValidRecord, Superseded
<1>4. CASE d \in Workspaces
  BY <1>1, <1>2, <1>4
<1>5. CASE d = cache' /\ (ManifestsOf(cache) /\ KeptOf(cache))'
  BY <1>5 DEF ManifestsOf, KeptOf, Sealed, ValidRecord, Superseded
<1> QED
  BY <1>3, <1>4, <1>5 DEF Workspaces

\* A step that leaves the snapshot directory of the workspace as it is.
LEMMA VaultsUntouched ==
    ASSUME PointsInv, TypeOK, clock' = clock, SameVault(disk, disk'),
           cache' \in {cache, disk}
    PROVE  /\ (\A d \in Workspaces : ManifestsOf(d) /\ KeptOf(d))'
           /\ ValidSnapshots(disk') = ValidSnapshots(disk)
           /\ \A n : Superseded(disk, n) => Superseded(disk', n)
<1>1. ManifestsOf(disk') /\ KeptOf(disk')
  BY SameVaultKept DEF PointsInv, Workspaces
<1>2. ManifestsOf(disk)' /\ KeptOf(disk)'
  BY <1>1 DEF ManifestsOf, KeptOf, Sealed, ValidRecord, Superseded
<1>3. clock \in Int /\ clock' \in Int /\ clock <= clock'
  BY DEF TypeOK
<1>4. (\A d \in Workspaces : ManifestsOf(d) /\ KeptOf(d))'
  BY <1>2, <1>3, VaultsNext DEF PointsInv
<1> QED
  BY <1>4, SameVaultKept

\* So does what is left of the list of snapshots to try.
LEMMA VaultUntouched ==
    ASSUME PointsInv, TypeOK, clock' = clock, SameVault(disk, disk'),
           cache' \in {cache, disk},
           \/ stage' \notin {"unlink", "restore", "sidecars", "replace"}
           \/ /\ todo' = todo
              /\ stage' = "unlink" => stage = "unlink"
              /\ Restoring' => Restoring
    PROVE  PointsInv'
<1>1. /\ (\A d \in Workspaces : ManifestsOf(d) /\ KeptOf(d))'
      /\ ValidSnapshots(disk') = ValidSnapshots(disk)
      /\ \A n : Superseded(disk, n) => Superseded(disk', n)
  BY VaultsUntouched
<1>2. disk.damaged \subseteq disk'.damaged
  BY DEF SameVault
<1> QED
  BY <1>1, <1>2 DEF PointsInv, Restoring, ValidSnapshots, Manifests, ValidRecord, Superseded, Sealed

\* Whatever is interrupted, in the workspace and in the cache, a seal stays valid
\* until it is damaged or superseded, and a restore lists every such one.
THEOREM VaultKept == Spec => []PointsInv
<1>1. Init => PointsInv
  BY EmptyKept DEF Init, PointsInv, Workspaces, Restoring
<1>2. TypeOK /\ StageInv /\ PointsInv /\ [Next]_vars => PointsInv'
  <2> SUFFICES ASSUME TypeOK, StageInv, PointsInv, [Next]_vars PROVE PointsInv'
    OBVIOUS
  <2>0. Absent \notin Versions /\ Corrupt \notin Versions
    BY VaultAssumption DEF Versions
  <2>c. clock \in Int
    BY DEF TypeOK
  <2>d. /\ \A d \in Workspaces : ManifestsOf(d) /\ KeptOf(d)
        /\ ManifestsOf(disk) /\ KeptOf(disk)
    BY DEF PointsInv, Workspaces
  <2>r. disk.damaged \subseteq Names /\ disk.snap \in [Names -> Files] /\ disk.manifest \in [Names -> Files]
        /\ disk.sealed \in [Names -> Versions \union {Absent}]
    BY DEF TypeOK, Disk
  <2>1. ASSUME BeginRun \/ RunnerDies PROVE PointsInv'
    <3>1. clock' = clock /\ cache' = cache /\ stage' \in {"prepare", "idle"}
      BY <2>1 DEF BeginRun, RunnerDies
    <3>2. disk' \in Workspaces \union {EmptyDisk}
      BY <2>1 DEF BeginRun, RunnerDies, Workspaces
    <3>3. ManifestsOf(disk') /\ KeptOf(disk')
      BY <2>d, <3>2, EmptyKept
    <3>4. ManifestsOf(disk)' /\ KeptOf(disk)'
      BY <3>1, <3>3 DEF ManifestsOf, KeptOf, Sealed, ValidRecord, Superseded
    <3>5. (\A d \in Workspaces : ManifestsOf(d) /\ KeptOf(d))'
      BY <2>c, <2>d, <3>1, <3>4, VaultsNext
    <3> QED
      BY <3>1, <3>5 DEF PointsInv, Restoring
  <2>2. CASE PrepareHealthy \/ CopyForRestore \/ PrepareWithoutSnapshot
    BY <2>2, VaultUntouched DEF PrepareHealthy, CopyForRestore, PrepareWithoutSnapshot, SameVault, Restoring
  <2>3. CASE PrepareDamaged
    <3>1. (\A d \in Workspaces : ManifestsOf(d) /\ KeptOf(d))'
      BY <2>3, VaultsUntouched DEF PrepareDamaged, SameVault
    <3>2. todo' = ValidSnapshots(disk) /\ disk' = disk /\ stage' = "restore"
      BY <2>3 DEF PrepareDamaged
    <3> QED
      BY <3>1, <3>2 DEF PointsInv, Restoring, ValidSnapshots, Manifests, ValidRecord
  <2>4. CASE RemoveSidecars \/ ReplaceDatabase
    BY <2>4, VaultUntouched DEF RemoveSidecars, ReplaceDatabase, SameVault, Restoring, TypeOK, Disk
  <2>5. CASE WorkEnds \/ SealEnds \/ SaveCache \/ SealRefused \/ ProcessDies \/ UNCHANGED vars
    BY <2>5, VaultUntouched DEF WorkEnds, SealEnds, SaveCache, SealRefused, ProcessDies, SameVault, Restoring, vars
  <2>6. CASE MarkPrepared \/ Work \/ MarkSealed
    <3>1. writes + 1 \in Versions
      BY <2>6, NextVersion DEF MarkPrepared, Work, MarkSealed, TypeOK
    <3>2. PICK w \in {Absent, writes + 1} : disk' = Write(disk, w)
      BY <2>6 DEF MarkPrepared, Work, MarkSealed
    <3>3. SameVault(disk, disk')
      BY <3>1, <3>2, WriteType DEF TypeOK, SameVault
    <3> QED
      BY <2>6, <3>3, VaultUntouched DEF MarkPrepared, Work, MarkSealed
  <2>7. CASE CopyRejected \/ ReplacementRejected
    <3> DEFINE b == NewestOf(todo)
    <3>1. SameVault(disk, disk') /\ disk'.damaged = disk.damaged \union {b}
      BY <2>7 DEF CopyRejected, ReplacementRejected, SameVault, TypeOK, Disk
    <3>2. clock' = clock /\ cache' = cache /\ stage' = "restore" /\ todo' = todo \ {b} /\ Restoring
      BY <2>7 DEF CopyRejected, ReplacementRejected, Restoring
    <3>3. /\ (\A d \in Workspaces : ManifestsOf(d) /\ KeptOf(d))'
          /\ ValidSnapshots(disk') = ValidSnapshots(disk)
      BY <3>1, <3>2, VaultsUntouched
    <3>4. ValidSnapshots(disk)' = ValidSnapshots(disk)
      BY <3>3 DEF ValidSnapshots, Manifests, ValidRecord
    <3> QED
      BY <3>1, <3>2, <3>3, <3>4 DEF PointsInv, Restoring
  <2>8. CASE TakeSnapshot
    <3> DEFINE c == clock + 1
    <3>1. /\ c \in Names /\ clock' = c /\ cache' = cache
          /\ stage' = "manifest"
          /\ disk' = [disk EXCEPT !.snap[c] = disk.main]
      BY <2>8, VaultAssumption DEF TakeSnapshot, TypeOK, Names
    <3>2. /\ disk'.manifest = disk.manifest /\ disk'.sealed = disk.sealed
          /\ disk'.damaged = disk.damaged
          /\ \A n \in Names : n # c => disk'.snap[n] = disk.snap[n]
      BY <2>r, <3>1 DEF TypeOK, Disk
    <3>3. disk.sealed[c] = Absent
      BY <2>c, <2>d, <3>1 DEF ManifestsOf
    <3>4. ManifestsOf(disk)'
      BY <2>c, <2>d, <3>1, <3>2, VaultAssumption DEF ManifestsOf, Names
    <3>5. KeptOf(disk)'
      BY <2>d, <3>2, <3>3 DEF KeptOf, Sealed, ValidRecord, Superseded
    <3>6. (\A d \in Workspaces : ManifestsOf(d) /\ KeptOf(d))'
      BY <2>c, <2>d, <3>1, <3>4, <3>5, VaultsNext
    <3> QED
      BY <3>1, <3>6 DEF PointsInv, Restoring
  <2>9. CASE WriteManifest
    <3> DEFINE v == disk.snap[clock]
    <3>1. /\ clock \in Names /\ v \in Versions
          /\ clock' = clock /\ cache' = cache /\ stage' = "prune"
          /\ disk' = [disk EXCEPT !.manifest[clock] = v, !.sealed[clock] = v]
      BY <2>9 DEF WriteManifest, StageInv
    <3>2. /\ disk'.snap = disk.snap /\ disk'.damaged = disk.damaged
          /\ disk'.manifest[clock] = v /\ disk'.sealed[clock] = v
          /\ \A n \in Names \ {clock} : disk'.manifest[n] = disk.manifest[n] /\ disk'.sealed[n] = disk.sealed[n]
      BY <2>r, <3>1 DEF TypeOK, Disk
    <3>3. ManifestsOf(disk)'
      BY <2>0, <2>c, <2>d, <3>1, <3>2 DEF ManifestsOf, Names
    <3>4. Sealed(disk) \subseteq Sealed(disk')
      BY <2>0, <3>1, <3>2 DEF Sealed
    <3>5. ASSUME NEW n \in Sealed(disk') \ disk'.damaged
          PROVE  ValidRecord(disk', n) \/ Superseded(disk', n)
      <4>1. CASE n = clock
        BY <3>1, <3>2, <4>1 DEF ValidRecord
      <4>2. CASE n # clock
        <5>1. n \in Sealed(disk) \ disk.damaged /\ n \in Names
          BY <3>2, <4>2, <3>5 DEF Sealed
        <5>2. ValidRecord(disk, n) => ValidRecord(disk', n)
          BY <3>2, <4>2, <5>1 DEF ValidRecord
        <5> QED
          BY <2>d, <3>4, <5>1, <5>2, SupersededGrows DEF KeptOf
      <4> QED
        BY <4>1, <4>2
    <3>6. KeptOf(disk')
      BY <3>5 DEF KeptOf
    <3>7. KeptOf(disk)'
      BY <3>6 DEF KeptOf, Sealed, ValidRecord, Superseded
    <3>8. (\A d \in Workspaces : ManifestsOf(d) /\ KeptOf(d))'
      BY <2>c, <2>d, <3>1, <3>3, <3>7, VaultsNext
    <3> QED
      BY <3>1, <3>8 DEF PointsInv, Restoring
  <2>10. CASE PruneSnapshot
    <3> DEFINE b == NewestOf(BeyondRetention(disk))
    <3>1. /\ clock' = clock /\ cache' = cache /\ stage' = "unlink" /\ todo' = {b}
          /\ disk' = [disk EXCEPT !.snap = [n \in Names |->
                 IF n \in {b} /\ disk.manifest[n] # Corrupt THEN Absent ELSE disk.snap[n]]]
      BY <2>10 DEF PruneSnapshot
    <3>2. b \in BeyondRetention(disk)
      BY <2>10, NewestOfNames DEF PruneSnapshot, BeyondRetention, Manifests
    <3>3. b \in Names /\ Superseded(disk, b)
      BY <2>d, <3>2, BeyondSuperseded
    <3>4. /\ disk'.manifest = disk.manifest /\ disk'.sealed = disk.sealed
          /\ disk'.damaged = disk.damaged
          /\ \A n \in Names : disk'.snap[n] \in {disk.snap[n], Absent}
          /\ \A n \in Names : n # b => disk'.snap[n] = disk.snap[n]
      BY <3>1 DEF TypeOK, Disk
    <3>5. ManifestsOf(disk)'
      BY <2>d, <3>1, <3>4 DEF ManifestsOf
    <3>6. Sealed(disk') = Sealed(disk) /\ \A n : Superseded(disk, n) => Superseded(disk', n)
      BY <3>4 DEF Sealed, Superseded
    <3>7. KeptOf(disk')
      BY <2>d, <3>3, <3>4, <3>6 DEF KeptOf, ValidRecord, Sealed
    <3>8. KeptOf(disk)'
      BY <3>7 DEF KeptOf, Sealed, ValidRecord, Superseded
    <3>9. (\A d \in Workspaces : ManifestsOf(d) /\ KeptOf(d))'
      BY <2>c, <2>d, <3>1, <3>5, <3>8, VaultsNext
    <3>10. \A n \in todo' : Superseded(disk', n)
      BY <3>1, <3>3, <3>6
    <3> QED
      BY <3>1, <3>9, <3>10 DEF PointsInv, Restoring, Superseded, Sealed
  <2>11. CASE PruneManifest
    <3>1. /\ clock' = clock /\ cache' = cache /\ stage' = "prune"
          /\ disk' = [disk EXCEPT !.manifest = [n \in Names |->
                                IF n \in todo THEN Absent ELSE disk.manifest[n]]]
      BY <2>11 DEF PruneManifest
    <3>2. /\ disk'.snap = disk.snap /\ disk'.sealed = disk.sealed
          /\ disk'.damaged = disk.damaged
          /\ \A n \in Names : disk'.manifest[n] \in {disk.manifest[n], Absent}
          /\ \A n \in Names : n \notin todo => disk'.manifest[n] = disk.manifest[n]
      BY <3>1 DEF TypeOK, Disk
    <3>3. ManifestsOf(disk)'
      BY <2>0, <2>d, <3>1, <3>2 DEF ManifestsOf
    <3>4. \A n \in todo : Superseded(disk, n)
      BY <2>11 DEF PruneManifest, PointsInv
    <3>5. Sealed(disk') = Sealed(disk) /\ \A n : Superseded(disk, n) => Superseded(disk', n)
      BY <3>2 DEF Sealed, Superseded
    <3>6. KeptOf(disk')
      BY <2>d, <3>2, <3>4, <3>5 DEF KeptOf, ValidRecord, Sealed
    <3>7. KeptOf(disk)'
      BY <3>6 DEF KeptOf, Sealed, ValidRecord, Superseded
    <3>8. (\A d \in Workspaces : ManifestsOf(d) /\ KeptOf(d))'
      BY <2>c, <2>d, <3>1, <3>3, <3>7, VaultsNext
    <3> QED
      BY <3>1, <3>8 DEF PointsInv, Restoring
  <2>12. CASE MediumFault
    <3>1. clock' = clock /\ stage' = "idle"
      BY <2>12 DEF MediumFault
    <3>2. CASE disk' \in Damaged(disk) /\ cache' = cache
      <4>1. ManifestsOf(disk') /\ KeptOf(disk')
        BY <2>d, <3>2, DamagedType, WorseKept DEF TypeOK
      <4>2. ManifestsOf(disk)' /\ KeptOf(disk)'
        BY <3>1, <4>1 DEF ManifestsOf, KeptOf, Sealed, ValidRecord, Superseded
      <4>3. (\A d \in Workspaces : ManifestsOf(d) /\ KeptOf(d))'
        BY <2>c, <2>d, <3>1, <3>2, <4>2, VaultsNext
      <4> QED
        BY <3>1, <4>3 DEF PointsInv, Restoring
    <3>3. CASE disk' = disk /\ cache # Absent /\ cache' \in Damaged(cache)
      <4>1. cache \in Disk /\ ManifestsOf(cache) /\ KeptOf(cache)
        BY <2>d, <3>3 DEF TypeOK, Workspaces
      <4>2. Worse(cache, cache')
        BY <3>3, <4>1, DamagedType
      <4>3. ManifestsOf(cache') /\ KeptOf(cache')
        BY <4>1, <4>2, WorseKept
      <4>4. (ManifestsOf(cache) /\ KeptOf(cache))' /\ ManifestsOf(disk)' /\ KeptOf(disk)'
        BY <2>d, <3>1, <3>3, <4>3 DEF ManifestsOf, KeptOf, Sealed, ValidRecord, Superseded
      <4>5. (\A d \in Workspaces : ManifestsOf(d) /\ KeptOf(d))'
        BY <2>c, <2>d, <3>1, <4>4, VaultsNext
      <4> QED
        BY <3>1, <4>5 DEF PointsInv, Restoring
    <3> QED
      BY <2>12, <3>2, <3>3 DEF MediumFault
  <2> QED
    BY <2>1, <2>2, <2>3, <2>4, <2>5, <2>6, <2>7, <2>8, <2>9, <2>10, <2>11, <2>12 DEF Next, Exhausted
<1> QED
  BY <1>1, <1>2, TypeCorrect, PTL DEF Spec

\* A database restored by prepare is exactly what a completed seal recorded,
\* and no newer undamaged seal that is still retained was passed over.
THEOREM RestoredIsNewest == Spec => []RestoresNewestIntact
<1>1. Init => RestoresNewestIntact
  BY DEF Init, RestoresNewestIntact
<1>2. TypeOK /\ StageInv /\ PointsInv /\ RestoresNewestIntact /\ [Next]_vars
        => RestoresNewestIntact'
  <2> SUFFICES ASSUME TypeOK, StageInv, PointsInv, RestoresNewestIntact, [Next]_vars,
                      (stage = "mark" /\ result = "restored")'
               PROVE  RestoresNewestIntact'
    BY DEF RestoresNewestIntact
  <2>1. CASE ReplaceDatabase
    <3> DEFINE b == NewestOf(todo)
    <3>1. todo # {} /\ Restoring
      BY <2>1 DEF ReplaceDatabase, StageInv, Restoring
    <3>2. b \in todo /\ \A m \in todo : m <= b
      BY <3>1, NewestOfNames DEF TypeOK
    <3>3. b \in Names /\ disk.manifest[b] \in Versions /\ disk.snap[b] = disk.manifest[b]
      BY <3>1, <3>2 DEF PointsInv, ValidSnapshots, Manifests, ValidRecord
    <3>4. disk.manifest[b] = disk.sealed[b]
      BY <3>3 DEF PointsInv, Workspaces, ManifestsOf
    <3>5. ASSUME NEW n \in Sealed(disk) \ disk.damaged, n > b PROVE Superseded(disk, n)
      <4>1. n \in Names /\ (ValidRecord(disk, n) \/ Superseded(disk, n))
        BY <3>5 DEF PointsInv, Workspaces, KeptOf, Sealed
      <4>2. ValidRecord(disk, n) => n \in todo
        BY <3>1, <3>5, <4>1, VaultAssumption DEF PointsInv, ValidSnapshots, Manifests, ValidRecord, Versions
      <4>3. n \notin todo
        BY <3>2, <3>3, <3>5, <4>1 DEF Names
      <4> QED
        BY <4>1, <4>2, <4>3
    <3>6. /\ todo' = todo /\ disk'.main = disk.snap[b]
          /\ disk'.sealed = disk.sealed /\ disk'.damaged = disk.damaged
      BY <2>1 DEF ReplaceDatabase, TypeOK, Disk
    <3>7. Sealed(disk)' = Sealed(disk) /\ \A n : Superseded(disk, n) => Superseded(disk, n)'
      BY <3>6 DEF Sealed, Superseded
    <3> QED
      BY <3>3, <3>4, <3>5, <3>6, <3>7 DEF RestoresNewestIntact
  <2>2. CASE UNCHANGED vars \/ Exhausted
    BY <2>2 DEF RestoresNewestIntact, vars, Exhausted, Sealed, Superseded
  <2> QED
    BY <2>1, <2>2 DEF Next, BeginRun, PrepareHealthy, PrepareDamaged, CopyForRestore, CopyRejected,
       RemoveSidecars, ReplacementRejected, PrepareWithoutSnapshot, MarkPrepared, Work, WorkEnds,
       SealRefused, MarkSealed, TakeSnapshot, WriteManifest, PruneSnapshot, PruneManifest, SealEnds,
       SaveCache, ProcessDies, RunnerDies, MediumFault
<1> QED
  BY <1>1, <1>2, TypeCorrect, VaultKept, PTL DEF Spec

LEMMA CardSum ==
    ASSUME NEW V, V \subseteq Names, NEW D, D \subseteq Names, NEW S, S \subseteq V \union D
    PROVE  /\ Cardinality(S) \in Nat /\ Cardinality(V) \in Nat /\ Cardinality(D) \in Nat
           /\ Cardinality(S) <= Cardinality(V) + Cardinality(D)
<1>1. /\ IsFiniteSet(V) /\ IsFiniteSet(D)
      /\ Cardinality(V) \in Nat /\ Cardinality(D) \in Nat
  BY CardMonotone
<1>2. Cardinality(V \union D) = Cardinality(V) + Cardinality(D) - Cardinality(V \intersect D)
  BY <1>1, FS_Union
<1>3. Cardinality(V \intersect D) \in Nat
  BY CardMonotone
<1>4. /\ Cardinality(S) \in Nat /\ Cardinality(V \union D) \in Nat
      /\ Cardinality(S) <= Cardinality(V \union D)
  BY CardMonotone
<1> QED
  BY <1>1, <1>2, <1>3, <1>4

LEMMA MinOfTwo ==
    ASSUME NEW a \in Nat, NEW b \in Nat
    PROVE  Min({a, b}) \in Nat /\ Min({a, b}) <= a /\ Min({a, b}) <= b
<1>1. \E x \in {a, b} : \A y \in {a, b} : x <= y
  OBVIOUS
<1> QED
  BY <1>1 DEF Min

\* The seals that nothing supersedes are as many as the retention asks for.
LEMMA KeptCounts ==
    ASSUME NEW d \in Disk, KeptOf(d)
    PROVE  Cardinality(ValidSnapshots(d)) + Cardinality(d.damaged)
               >= Min({Retention, Cardinality(Sealed(d))})
<1> DEFINE S == Sealed(d)
           V == ValidSnapshots(d)
           D == d.damaged
           P == {n \in S : Superseded(d, n)}
<1>1. S \subseteq Names /\ V \subseteq Names /\ D \subseteq Names /\ P \subseteq Names
  BY DEF Sealed, ValidSnapshots, Manifests, Disk
<1>2. S \ P \subseteq V \union D
  <2>1. ASSUME NEW n \in S \ P, n \notin D PROVE n \in V
    BY <1>1, <2>1, VaultAssumption DEF KeptOf, ValidSnapshots, Manifests, ValidRecord, Versions
  <2> QED
    BY <2>1
<1>3. Cardinality(S) \in Nat /\ Retention \in Nat
  BY <1>1, CardMonotone, VaultAssumption
<1>4. CASE P = {}
  <2>1. /\ Cardinality(V) \in Nat /\ Cardinality(D) \in Nat
        /\ Cardinality(S) <= Cardinality(V) + Cardinality(D)
    BY <1>1, <1>2, <1>4, CardSum
  <2>2. Min({Retention, Cardinality(S)}) \in Nat /\ Min({Retention, Cardinality(S)}) <= Cardinality(S)
    BY <1>3, MinOfTwo
  <2> HIDE DEF S, V, D, P
  <2> QED
    BY <1>3, <2>1, <2>2 DEF S, V, D
<1>5. CASE P # {}
  <2> DEFINE b == NewestOf(P)
             T == {m \in S : m > b}
  <2>1. b \in P /\ \A m \in P : m <= b
    BY <1>1, <1>5, NewestOfNames
  <2>2. T \subseteq V \union D
    <3>1. ASSUME NEW m \in T PROVE m \notin P
      BY <1>1, <2>1 DEF Names
    <3> QED
      BY <1>2, <3>1
  <2>3. /\ Cardinality(V) \in Nat /\ Cardinality(D) \in Nat /\ Cardinality(T) \in Nat
        /\ Cardinality(T) <= Cardinality(V) + Cardinality(D)
    BY <1>1, <2>2, CardSum
  <2>4. Cardinality(T) >= Retention
    BY <2>1 DEF Superseded
  <2>5. Min({Retention, Cardinality(S)}) \in Nat /\ Min({Retention, Cardinality(S)}) <= Retention
    BY <1>3, MinOfTwo
  <2> HIDE DEF S, V, D, P, T
  <2> QED
    BY <1>3, <2>3, <2>4, <2>5 DEF S, V, D
<1> QED
  BY <1>4, <1>5

\* No interrupted seal, prune, save or restore costs a recovery point: min(k,
\* retention) of them survive k seals, less the ones damaged at rest.
THEOREM NoPointLost == Spec => []RecoveryPointsKept
<1>1. TypeOK /\ PointsInv => RecoveryPointsKept
  <2> SUFFICES ASSUME TypeOK, PointsInv, NEW d \in Workspaces
               PROVE  Cardinality(ValidSnapshots(d)) + Cardinality(d.damaged)
                          >= Min({Retention, Cardinality(Sealed(d))})
    BY DEF RecoveryPointsKept
  <2>1. d \in Disk /\ KeptOf(d)
    BY DEF TypeOK, Workspaces, PointsInv
  <2> QED
    BY <2>1, KeptCounts
<1> QED
  BY <1>1, TypeCorrect, VaultKept, PTL
=============================================================================
