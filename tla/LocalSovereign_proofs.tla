------------------------- MODULE LocalSovereign_proofs -------------------------
(***************************************************************************)
(* Proofs about LocalSovereign, for any processes, goals, texts, backup    *)
(* names and bounds.                                                       *)
(***************************************************************************)
EXTENDS LocalSovereign, TLAPS

-----------------------------------------------------------------------------
(* Types *)

Bounds == {"goals", "writes", "inits", "backups", "deaths", "raises", "expiries", "faults"}

LEMMA UseType ==
    ASSUME TypeOK, NEW what \in Bounds, Use(what)
    PROVE  left' \in [Bounds -> Nat]
BY SMTT(20) DEF TypeOK, Use, Bounds

LEMMA IdleType == Idle \in Procs
BY DEF Idle, Procs, Places

\* The other processes are where they were.
OthersStay(p) == \A q \in Process \ {p} : proc'[q] = proc[q]

LEMMA GotoType ==
    ASSUME TypeOK, NEW p \in Process, NEW at \in Places, Goto(p, at)
    PROVE  /\ proc' \in [Process -> Procs] /\ OthersStay(p)
           /\ proc'[p].at = at /\ proc'[p].goal = proc[p].goal /\ proc'[p].name = proc[p].name
           /\ proc'[p].cid = proc[p].cid /\ proc'[p].copied = proc[p].copied
<1>1. proc \in [Process -> Procs] /\ proc[p] \in Procs /\ proc' = [proc EXCEPT ![p].at = at]
  BY DEF TypeOK, Goto
<1>2. [proc[p] EXCEPT !.at = at] \in Procs
  BY <1>1 DEF Procs
<1>3. proc' = [proc EXCEPT ![p] = [proc[p] EXCEPT !.at = at]]
  BY <1>1
<1> QED
  BY <1>1, <1>2, <1>3 DEF Procs, OthersStay

LEMMA EndsType ==
    ASSUME TypeOK, NEW p \in Process, Ends(p)
    PROVE  /\ proc' \in [Process -> Procs] /\ OthersStay(p)
           /\ proc'[p] = Idle
BY IdleType DEF TypeOK, Ends, OthersStay

\* Any other step of a process replaces its record.
LEMMA ProcType ==
    ASSUME TypeOK, NEW p \in Process, NEW r \in Procs, proc' = [proc EXCEPT ![p] = r]
    PROVE  /\ proc' \in [Process -> Procs] /\ OthersStay(p)
           /\ proc'[p] = r
BY DEF TypeOK, OthersStay

LEMMA NextTurnType ==
    ASSUME TypeOK, NEW p \in Process, NextTurn(p)
    PROVE  /\ proc' \in [Process -> Procs] /\ OthersStay(p)
           /\ proc'[p].at = "turn" /\ proc'[p].goal = proc[p].goal
<1> DEFINE r == [proc[p] EXCEPT !.at = "turn", !.turn = proc[p].turn + 1, !.text = None]
<1>1. proc[p] \in Procs
  BY DEF TypeOK
<1>2. "turn" \in Places /\ proc[p].turn \in Nat /\ proc[p].turn + 1 \in Nat
  BY <1>1 DEF Procs, Places, WorkPlaces
<1>3. r \in Procs /\ r.at = "turn" /\ r.goal = proc[p].goal
  BY <1>1, <1>2 DEF Procs
<1>4. proc' = [proc EXCEPT ![p] = r]
  BY <1>1 DEF NextTurn, TypeOK, Procs
<1> QED
  BY <1>3, <1>4, ProcType

LEMMA LineType == ASSUME TypeOK, NEW i \in DOMAIN line PROVE line[i] \in Goal
BY DEF TypeOK

LEMMA LastVerifiedIsOne ==
    ASSUME TypeOK, OnePromoted
    PROVE  LastVerified \in Nat /\ (LastVerified = 0 \/ LastVerified \in Promoted)
<1>1. Promoted \subseteq Nat
  BY DEF Promoted, TypeOK
<1>2. Promoted # {} => \E i \in Promoted : \A k \in Promoted : k <= i
  <2> SUFFICES ASSUME NEW i \in Promoted PROVE \A k \in Promoted : k <= i
    OBVIOUS
  <2> QED
    BY <1>1 DEF OnePromoted, Promoted
<1> QED
  BY <1>1, <1>2 DEF LastVerified

LEMMA RowType ==
    ASSUME TypeOK, NEW g \in Goal, NEW r \in Jobs, job' = [job EXCEPT ![g] = r]
    PROVE  job' \in [Goal -> Jobs]
BY DEF TypeOK

\* What a step may do to the checkpoints.
LEMMA AppendedType ==
    ASSUME TypeOK, NEW c \in Checkpoints, checkpoint' = Append(checkpoint, c)
    PROVE  /\ checkpoint' \in Seq(Checkpoints)
           /\ Len(checkpoint') = Len(checkpoint) + 1
           /\ \A i \in DOMAIN checkpoint : i \in DOMAIN checkpoint' /\ checkpoint'[i] = checkpoint[i]
           /\ checkpoint'[Len(checkpoint) + 1] = c
           /\ DOMAIN checkpoint' = DOMAIN checkpoint \cup {Len(checkpoint) + 1}
BY DEF TypeOK

LEMMA RecordType ==
    ASSUME NEW c \in Seq(Checkpoints), NEW i \in DOMAIN c
    PROVE  c[i] \in Checkpoints /\ c[i].verified \in BOOLEAN /\ c[i].promoted \in BOOLEAN
<1>1. c[i] \in Checkpoints
  OBVIOUS
<1> QED
  BY <1>1 DEF Checkpoints

\* A step that replaces every record, or some, keeps the sequence.
LEMMA MappedType ==
    ASSUME NEW c \in Seq(Checkpoints), NEW d, DOMAIN d = DOMAIN c,
           d = [i \in DOMAIN c |-> d[i]],
           \A i \in DOMAIN c : d[i] \in Checkpoints
    PROVE  d \in Seq(Checkpoints)
<1>1. DOMAIN c = 1..Len(c) /\ Len(c) \in Nat
  OBVIOUS
<1>2. d \in [1..Len(c) -> Checkpoints]
  BY <1>1
<1> QED
  BY <1>1, <1>2

LEMMA VerifiedType ==
    ASSUME TypeOK, NEW p \in Process, VerifyCheckpoint(p)
    PROVE  /\ checkpoint' \in Seq(Checkpoints)
           /\ DOMAIN checkpoint' = DOMAIN checkpoint
           /\ \A i \in DOMAIN checkpoint :
                /\ checkpoint'[i].promoted = checkpoint[i].promoted
                /\ i = proc[p].cid => checkpoint'[i].verified
                /\ i # proc[p].cid => checkpoint'[i].verified = checkpoint[i].verified
<1>1. checkpoint \in Seq(Checkpoints)
  BY DEF TypeOK
<1>2. checkpoint' = [checkpoint EXCEPT ![proc[p].cid].verified = TRUE]
  BY DEF VerifyCheckpoint
<1>3. DOMAIN checkpoint' = DOMAIN checkpoint /\ checkpoint' = [i \in DOMAIN checkpoint |-> checkpoint'[i]]
  BY <1>2
<1>4. ASSUME NEW i \in DOMAIN checkpoint
      PROVE  /\ checkpoint'[i] \in Checkpoints
             /\ checkpoint'[i].promoted = checkpoint[i].promoted
             /\ i = proc[p].cid => checkpoint'[i].verified
             /\ i # proc[p].cid => checkpoint'[i].verified = checkpoint[i].verified
  <2>1. checkpoint[i] \in Checkpoints
    BY <1>1, RecordType
  <2>2. CASE i = proc[p].cid
    <3>1. checkpoint'[i] = [checkpoint[i] EXCEPT !.verified = TRUE]
      BY <1>2, <2>2
    <3> QED
      BY <2>1, <2>2, <3>1 DEF Checkpoints
  <2>3. CASE i # proc[p].cid
    <3>1. checkpoint'[i] = checkpoint[i]
      BY <1>2, <2>3
    <3> QED
      BY <2>1, <2>3, <3>1
  <2> QED
    BY <2>2, <2>3
<1>5. checkpoint' \in Seq(Checkpoints)
  BY <1>1, <1>3, <1>4, MappedType
<1> QED
  BY <1>3, <1>4, <1>5

LEMMA PromotedType ==
    ASSUME TypeOK, NEW p \in Process, PromoteCheckpoint(p)
    PROVE  /\ checkpoint' \in Seq(Checkpoints)
           /\ DOMAIN checkpoint' = DOMAIN checkpoint
           /\ \A i \in DOMAIN checkpoint :
                /\ checkpoint'[i].promoted => i = proc[p].cid
                /\ checkpoint'[i].verified = checkpoint[i].verified
<1>1. checkpoint \in Seq(Checkpoints)
  BY DEF TypeOK
<1>2. checkpoint' = [i \in DOMAIN checkpoint |-> [checkpoint[i] EXCEPT !.promoted = (i = proc[p].cid)]]
  BY DEF PromoteCheckpoint
<1>3. ASSUME NEW i \in DOMAIN checkpoint
      PROVE  /\ checkpoint'[i] \in Checkpoints
             /\ checkpoint'[i].promoted => i = proc[p].cid
             /\ checkpoint'[i].verified = checkpoint[i].verified
  <2>1. checkpoint[i] \in Checkpoints
    BY <1>1, RecordType
  <2>2. checkpoint'[i] = [checkpoint[i] EXCEPT !.promoted = (i = proc[p].cid)]
    BY <1>2
  <2> QED
    BY <2>1, <2>2 DEF Checkpoints
<1>4. DOMAIN checkpoint' = DOMAIN checkpoint /\ checkpoint' = [i \in DOMAIN checkpoint |-> checkpoint'[i]]
  BY <1>2, <1>3
<1>5. checkpoint' \in Seq(Checkpoints)
  BY <1>1, <1>3, <1>4, MappedType
<1> QED
  BY <1>3, <1>4, <1>5

-----------------------------------------------------------------------------
(* Where a step takes a process, and which step took it there              *)

Acts(p) == Work(p) \/ Checkpointing(p) \/ BackingUp(p) \/ Dies(p)

Moved(p) ==
    /\ proc' \in [Process -> Procs] /\ OthersStay(p)
    /\ At(p, WorkPlaces)' => proc'[p].goal \in Goal
    /\ proc'[p].goal \in {proc[p].goal, None} \/ Claim(p)
    /\ At(p, {"failing", "excepting"})' => FailReads(p)
    /\ At(p, {"stage"})' => CopyUndo(p)
    /\ At(p, {"replace"})' => Stage(p)
    /\ At(p, {"verify"})' => InsertCheckpoint(p) /\ proc'[p].cid = Len(checkpoint) + 1
    /\ At(p, {"promote"})' => VerifyCheckpoint(p) /\ proc'[p].cid = proc[p].cid
    /\ At(p, {"manifest"})' => \E n \in BackupName : /\ CopyDatabase(p, n)
                                                    /\ proc'[p].name = n
                                                    /\ proc'[p].copied = LastVerified
    /\ At(p, {"zip"})' => /\ WriteManifest(p) /\ proc'[p].name = proc[p].name
                          /\ proc'[p].copied = proc[p].copied
                          /\ proc'[p].cid = LastVerified
    /\ At(p, {"check"})' => PlaceZip(p) /\ proc'[p].name = proc[p].name
    /\ At(p, {"report"})' => CheckZip(p) /\ proc'[p].name = proc[p].name

LEMMA Moves ==
    ASSUME TypeOK, OnePromoted, GoalsHeld, NEW p \in Process, Acts(p)
    PROVE  Moved(p)
<1> DEFINE r0 == proc[p]
<1>0. r0 \in Procs
  BY DEF TypeOK
<1>1. ASSUME Ends(p) PROVE Moved(p)
  BY <1>1, EndsType DEF Moved, At, Idle, WorkPlaces
<1>2. ASSUME NextTurn(p), At(p, WorkPlaces) PROVE Moved(p)
  BY <1>2, NextTurnType DEF Moved, At, WorkPlaces, GoalsHeld
<1>3. CASE BeginWork(p)
  <2>1. Goto(p, "claim") /\ "claim" \in Places
    BY <1>3 DEF BeginWork, Places
  <2> QED
    BY <2>1, GotoType DEF Moved, At, WorkPlaces
<1>4. CASE Complete(p) \/ LeaseLost(p) \/ ReplyFinal(p) \/ Exhausted(p) \/ CallRaises(p)
  <2>1. PICK at \in {"log", "except", "complete", "fail"} : Goto(p, at)
    BY <1>4 DEF Complete, LeaseLost, ReplyFinal, Exhausted, CallRaises
  <2>2. r0.goal \in Goal
    BY <1>4 DEF Complete, LeaseLost, ReplyFinal, Exhausted, CallRaises, At, WorkPlaces, GoalsHeld
  <2>3. at \in Places
    BY DEF Places, WorkPlaces
  <2> QED
    BY <2>1, <2>2, <2>3, GotoType DEF Moved, At, WorkPlaces
<1>15. CASE CopyUndo(p) \/ Stage(p)
  <2>1. r0.goal \in Goal
    BY <1>15 DEF CopyUndo, Stage, At, WorkPlaces, GoalsHeld
  <2>2. "stage" \in Places /\ "replace" \in Places
    BY DEF Places, WorkPlaces
  <2>3. CASE CopyUndo(p)
    BY <2>1, <2>2, <2>3, GotoType DEF CopyUndo, Moved, At
  <2>4. CASE Stage(p)
    BY <2>1, <2>2, <2>4, GotoType DEF Stage, Moved, At
  <2> QED
    BY <1>15, <2>3, <2>4
<1>16. CASE VerifyCheckpoint(p) \/ PlaceZip(p) \/ CheckZip(p)
  <2>1. "promote" \in Places /\ "check" \in Places /\ "report" \in Places
    BY DEF Places
  <2>2. CASE VerifyCheckpoint(p)
    BY <2>1, <2>2, GotoType DEF VerifyCheckpoint, Moved, At, WorkPlaces
  <2>3. CASE PlaceZip(p)
    BY <2>1, <2>3, GotoType DEF PlaceZip, Moved, At, WorkPlaces
  <2>4. CASE CheckZip(p)
    BY <2>1, <2>4, GotoType DEF CheckZip, Moved, At, WorkPlaces
  <2> QED
    BY <1>16, <2>2, <2>3, <2>4
<1>5. CASE FailUpdates(p)
  <2>1. (Goto(p, "log") \/ Ends(p)) /\ r0.goal \in Goal
    BY <1>5 DEF FailUpdates, GoalsHeld, At, WorkPlaces
  <2>2. ASSUME Goto(p, "log") PROVE Moved(p)
    BY <2>1, <2>2, GotoType DEF Moved, At, Places, WorkPlaces
  <2> QED
    BY <1>1, <2>1, <2>2
<1>6. CASE Claim(p)
  <2>1. PICK i \in Due : proc' = [proc EXCEPT ![p].at = "turn", ![p].goal = line[i], ![p].turn = 1]
    BY <1>6 DEF Claim
  <2> DEFINE r == [r0 EXCEPT !.at = "turn", !.goal = line[i], !.turn = 1]
  <2>2. line[i] \in Goal
    BY LineType DEF Due
  <2>3. r \in Procs /\ r.at = "turn" /\ r.goal = line[i]
    BY <1>0, <2>2 DEF Procs, Places, WorkPlaces
  <2>4. proc' = [proc EXCEPT ![p] = r]
    BY <2>1 DEF TypeOK, Procs
  <2> QED
    BY <1>6, <2>2, <2>3, <2>4, ProcType DEF Moved, At, WorkPlaces
<1>7. CASE ReplyTool(p)
  <2>1. At(p, WorkPlaces) /\ r0.goal \in Goal
    BY <1>7 DEF ReplyTool, At, WorkPlaces, GoalsHeld
  <2>2. ASSUME NEW c \in Content, proc' = [proc EXCEPT ![p].at = "copy", ![p].text = c] PROVE Moved(p)
    <3> DEFINE r == [r0 EXCEPT !.at = "copy", !.text = c]
    <3>1. r \in Procs /\ r.at = "copy" /\ r.goal = r0.goal
      BY <1>0 DEF Procs, Places, WorkPlaces
    <3>2. proc' = [proc EXCEPT ![p] = r]
      BY <2>2 DEF TypeOK, Procs
    <3> QED
      BY <2>1, <3>1, <3>2, ProcType DEF Moved, At, WorkPlaces
  <2> QED
    BY <1>2, <1>7, <2>1, <2>2 DEF ReplyTool
<1>8. CASE Replace(p) \/ ToolRaises(p)
  BY <1>2, <1>8 DEF Replace, ToolRaises, At, WorkPlaces
<1>9. CASE FailReads(p)
  <2> DEFINE a == IF r0.at = "fail" THEN "failing" ELSE "excepting"
             r == [r0 EXCEPT !.at = a, !.read = job[r0.goal].attempts]
  <2>1. r0.goal \in Goal
    BY <1>9 DEF FailReads, GoalsHeld, At, WorkPlaces
  <2>2. job[r0.goal].attempts \in Nat
    BY <2>1 DEF TypeOK, Jobs
  <2>3. r \in Procs /\ r.at \in {"failing", "excepting"} /\ r.goal = r0.goal
    BY <1>0, <2>2 DEF Procs, Places, WorkPlaces
  <2>4. proc' = [proc EXCEPT ![p] = r]
    BY <1>9 DEF FailReads, TypeOK, Procs
  <2> QED
    BY <1>9, <2>1, <2>3, <2>4, ProcType DEF Moved, At, WorkPlaces
<1>10. CASE BeginInit(p)
  <2> DEFINE r == [r0 EXCEPT !.at = "insert", !.cid = LastVerified]
  <2>1. r \in Procs /\ r.at = "insert" /\ r.goal = r0.goal
    BY <1>0, LastVerifiedIsOne DEF Procs, Places
  <2>2. proc' = [proc EXCEPT ![p] = r]
    BY <1>10 DEF BeginInit, TypeOK, Procs
  <2> QED
    BY <2>1, <2>2, ProcType DEF Moved, At, WorkPlaces
<1>11. CASE InsertCheckpoint(p)
  <2> DEFINE r == [r0 EXCEPT !.at = "verify", !.cid = Len(checkpoint) + 1]
  <2>0. Len(checkpoint) + 1 \in Nat
    BY DEF TypeOK
  <2>1. r \in Procs /\ r.at = "verify" /\ r.goal = r0.goal /\ r.cid = Len(checkpoint) + 1
    BY <1>0, <2>0 DEF Procs, Places
  <2>2. proc' = [proc EXCEPT ![p] = r]
    BY <1>11 DEF InsertCheckpoint, TypeOK, Procs
  <2> QED
    BY <1>11, <2>1, <2>2, ProcType DEF Moved, At, WorkPlaces
<1>12. ASSUME NEW n \in BackupName, CopyDatabase(p, n) PROVE Moved(p)
  <2> DEFINE r == [r0 EXCEPT !.at = "manifest", !.name = n, !.copied = LastVerified]
  <2>1. /\ r \in Procs /\ r.at = "manifest" /\ r.goal = r0.goal
        /\ r.name = n /\ r.copied = LastVerified
    BY <1>0, LastVerifiedIsOne DEF Procs, Places
  <2>2. proc' = [proc EXCEPT ![p] = r]
    BY <1>12 DEF CopyDatabase, TypeOK, Procs
  <2> QED
    BY <1>12, <2>1, <2>2, ProcType DEF Moved, At, WorkPlaces
<1>13. CASE WriteManifest(p)
  <2> DEFINE r == [r0 EXCEPT !.at = "zip", !.cid = LastVerified]
  <2>1. /\ r \in Procs /\ r.at = "zip" /\ r.goal = r0.goal
        /\ r.name = r0.name /\ r.copied = r0.copied /\ r.cid = LastVerified
    BY <1>0, LastVerifiedIsOne DEF Procs, Places
  <2>2. proc' = [proc EXCEPT ![p] = r]
    BY <1>13 DEF WriteManifest, TypeOK, Procs
  <2> QED
    BY <1>13, <2>1, <2>2, ProcType DEF Moved, At, WorkPlaces
<1>14. CASE ClaimNothing(p) \/ NotOwned(p) \/ Logged(p) \/ PromoteCheckpoint(p) \/ RemoveZip(p) \/ Report(p) \/ Dies(p)
  BY <1>1, <1>14 DEF ClaimNothing, NotOwned, Logged, PromoteCheckpoint, RemoveZip, Report, Dies
<1> QED
  BY <1>3, <1>4, <1>5, <1>6, <1>7, <1>8, <1>9, <1>10, <1>11, <1>12, <1>13, <1>14, <1>15, <1>16 DEF Acts, Work, Checkpointing, BackingUp

-----------------------------------------------------------------------------
(* Type correctness *)

\* What the steps do to the other variables.
LEMMA JobTypes ==
    ASSUME TypeOK, GoalsHeld, NEW p \in Process, Acts(p)
    PROVE  job' \in [Goal -> Jobs]
<1>1. CASE BeginWork(p)
  <2>1. ASSUME NEW r \in Jobs PROVE Released(r) \in Jobs
    BY DEF Released, Jobs
  <2> QED
    BY <1>1, <2>1 DEF BeginWork, TypeOK
<1>2. CASE Claim(p)
  <2>1. PICK i \in Due :
            job' = [job EXCEPT ![line[i]].status = "leased", ![line[i]].owner = id[p],
                               ![line[i]].attempts = @ + 1, ![line[i]].expired = FALSE]
    BY <1>2 DEF Claim
  <2> DEFINE g == line[i]
             r == [job[g] EXCEPT !.status = "leased", !.owner = id[p],
                                 !.attempts = job[g].attempts + 1, !.expired = FALSE]
  <2>2. g \in Goal
    BY LineType DEF Due
  <2>3. job[g] \in Jobs /\ job[g].attempts + 1 \in Nat /\ id[p] \in WorkerId
    BY <2>2, SMTT(20) DEF TypeOK, Jobs
  <2>4. r \in Jobs
    BY <2>3 DEF Jobs
  <2>5. job' = [job EXCEPT ![g] = r]
    BY <2>1, <2>2, <2>3 DEF TypeOK, Jobs
  <2> QED
    BY <2>2, <2>4, <2>5, RowType
<1>3. CASE Complete(p)
  <2> DEFINE g == proc[p].goal
             r == [job[g] EXCEPT !.status = "completed", !.owner = None, !.expired = FALSE]
  <2>1. g \in Goal /\ job[g] \in Jobs
    BY <1>3 DEF Complete, GoalsHeld, At, WorkPlaces, TypeOK
  <2>2. r \in Jobs
    BY <2>1 DEF Jobs
  <2>3. job' = [job EXCEPT ![g] = r]
    BY <1>3, <2>1 DEF Complete, TypeOK, Jobs
  <2> QED
    BY <2>1, <2>2, <2>3, RowType
<1>4. CASE FailUpdates(p)
  <2> DEFINE g == proc[p].goal
             s == IF proc[p].read >= MaxAttempts THEN "dead" ELSE "pending"
             r == [job[g] EXCEPT !.status = s, !.owner = None, !.expired = FALSE, !.waiting = TRUE]
  <2>1. g \in Goal /\ job[g] \in Jobs
    BY <1>4 DEF FailUpdates, GoalsHeld, At, WorkPlaces, TypeOK
  <2>2. r \in Jobs
    BY <2>1 DEF Jobs
  <2>3. job' = [job EXCEPT ![g] = r]
    BY <1>4, <2>1 DEF FailUpdates, TypeOK, Jobs
  <2> QED
    BY <2>1, <2>2, <2>3, RowType
<1>5. CASE job' = job
  BY <1>5 DEF TypeOK
<1> QED
  BY <1>1, <1>2, <1>3, <1>4, <1>5 DEF Acts, Work, Checkpointing, BackingUp, Dies, ClaimNothing, ReplyTool,
     ReplyFinal, Exhausted, CopyUndo, Stage, Replace, ToolRaises, LeaseLost, FailReads, NotOwned, Logged,
     CallRaises, BeginInit, InsertCheckpoint, VerifyCheckpoint, PromoteCheckpoint, CopyDatabase,
     WriteManifest, PlaceZip, CheckZip, RemoveZip, Report, store

LEMMA CheckpointTypes ==
    ASSUME TypeOK, OnePromoted, NEW p \in Process, Acts(p)
    PROVE  checkpoint' \in Seq(Checkpoints) /\ OnePromoted'
<1>1. CASE InsertCheckpoint(p)
  <2> DEFINE c == [parent |-> proc[p].cid, verified |-> FALSE, promoted |-> FALSE]
  <2>1. c \in Checkpoints /\ checkpoint' = Append(checkpoint, c)
    BY <1>1 DEF InsertCheckpoint, TypeOK, Procs, Checkpoints
  <2> QED
    BY <2>1, AppendedType DEF OnePromoted
<1>2. CASE VerifyCheckpoint(p)
  BY <1>2, VerifiedType DEF OnePromoted
<1>3. CASE PromoteCheckpoint(p)
  BY <1>3, PromotedType DEF OnePromoted
<1>4. CASE checkpoint' = checkpoint
  BY <1>4 DEF OnePromoted, TypeOK
<1> QED
  BY <1>1, <1>2, <1>3, <1>4 DEF Acts, Work, Checkpointing, BackingUp, Dies, BeginWork, Claim, ClaimNothing,
     ReplyTool, ReplyFinal, Exhausted, CopyUndo, Stage, Replace, ToolRaises, Complete, LeaseLost, FailReads,
     FailUpdates, NotOwned, Logged, CallRaises, BeginInit, CopyDatabase, WriteManifest, PlaceZip, CheckZip,
     RemoveZip, Report, store

LEMMA FileTypes ==
    ASSUME TypeOK, NEW p \in Process, Acts(p)
    PROVE  /\ file' \in Content \cup {None} /\ staged' \in Content \cup {None}
           /\ undo' \subseteq Content /\ held' \subseteq Content /\ overlapped' \in BOOLEAN
<1>1. CASE CopyUndo(p) \/ Stage(p)
  BY <1>1 DEF CopyUndo, Stage, TypeOK, Procs
<1>2. CASE Replace(p)
  BY <1>2 DEF Replace, TypeOK
<1>3. CASE UNCHANGED files
  BY <1>3 DEF files, TypeOK
<1> QED
  BY <1>1, <1>2, <1>3 DEF Acts, Work, Checkpointing, BackingUp, Dies, BeginWork, Claim, ClaimNothing,
     ReplyTool, ReplyFinal, Exhausted, ToolRaises, Complete, LeaseLost, FailReads,
     FailUpdates, NotOwned, Logged, CallRaises, BeginInit, InsertCheckpoint, VerifyCheckpoint,
     PromoteCheckpoint, CopyDatabase, WriteManifest, PlaceZip, CheckZip, RemoveZip, Report

Archive == [database : Nat, manifest : Nat, whole : BOOLEAN]

LEMMA BackupTypes ==
    ASSUME TypeOK, Named, NEW p \in Process, Acts(p)
    PROVE  /\ zips' \in [BackupName -> {None} \cup Archive]
           /\ reported' \subseteq BackupName /\ reused' \subseteq BackupName
<1>1. CASE PlaceZip(p)
  <2>1. proc[p].name \in BackupName /\ proc[p].copied \in Nat /\ proc[p].cid \in Nat
    BY <1>1 DEF PlaceZip, Named, At, TypeOK, Procs
  <2>2. PICK whole \in BOOLEAN :
          zips' = [zips EXCEPT ![proc[p].name] =
                     [database |-> proc[p].copied, manifest |-> proc[p].cid, whole |-> whole]]
    BY <1>1 DEF PlaceZip
  <2>3. [database |-> proc[p].copied, manifest |-> proc[p].cid, whole |-> whole] \in Archive
    BY <2>1 DEF Archive
  <2>4. zips' \in [BackupName -> {None} \cup Archive]
    BY <2>1, <2>2, <2>3 DEF TypeOK, Archive
  <2> QED
    BY <1>1, <2>1, <2>4 DEF PlaceZip, TypeOK
<1>2. CASE RemoveZip(p)
  BY <1>2 DEF RemoveZip, TypeOK, Archive
<1>3. CASE Report(p)
  BY <1>3 DEF Report, Named, At, TypeOK, Archive
<1>4. CASE UNCHANGED backups
  BY <1>4 DEF backups, TypeOK, Archive
<1> QED
  BY <1>1, <1>2, <1>3, <1>4 DEF Acts, Work, Checkpointing, BackingUp, Dies, BeginWork, Claim, ClaimNothing,
     ReplyTool, ReplyFinal, Exhausted, CopyUndo, Stage, Replace, ToolRaises, Complete, LeaseLost, FailReads,
     FailUpdates, NotOwned, Logged, CallRaises, BeginInit, InsertCheckpoint, VerifyCheckpoint,
     PromoteCheckpoint, CopyDatabase, WriteManifest, CheckZip

LEMMA OtherTypes ==
    ASSUME TypeOK, NEW p \in Process, Acts(p)
    PROVE  /\ id' = id /\ line' = line
           /\ left' \in [Bounds -> Nat]
           /\ shared' \subseteq Goal
<1>1. id' = id /\ line' = line
  BY DEF Acts, Work, Checkpointing, BackingUp, Dies, BeginWork, Claim, ClaimNothing,
     ReplyTool, ReplyFinal, Exhausted, CopyUndo, Stage, Replace, ToolRaises, Complete, LeaseLost, FailReads,
     FailUpdates, NotOwned, Logged, CallRaises, BeginInit, InsertCheckpoint, VerifyCheckpoint,
     PromoteCheckpoint, CopyDatabase, WriteManifest, PlaceZip, CheckZip, RemoveZip, Report, store
<1>2. left' = left \/ \E what \in Bounds : Use(what)
  BY DEF Bounds, Acts, Work, Checkpointing, BackingUp, Dies, BeginWork, Claim, ClaimNothing,
     ReplyTool, ReplyFinal, Exhausted, CopyUndo, Stage, Replace, ToolRaises, Complete, LeaseLost, FailReads,
     FailUpdates, NotOwned, Logged, CallRaises, BeginInit, InsertCheckpoint, VerifyCheckpoint,
     PromoteCheckpoint, CopyDatabase, WriteManifest, PlaceZip, CheckZip, RemoveZip, Report
<1>3. left' \in [Bounds -> Nat]
  BY <1>2, UseType DEF TypeOK, Bounds
<1>4. shared' = shared \/ Claim(p)
  BY DEF Acts, Work, Checkpointing, BackingUp, Dies, BeginWork, ClaimNothing,
     ReplyTool, ReplyFinal, Exhausted, CopyUndo, Stage, Replace, ToolRaises, Complete, LeaseLost, FailReads,
     FailUpdates, NotOwned, Logged, CallRaises, BeginInit, InsertCheckpoint, VerifyCheckpoint,
     PromoteCheckpoint, CopyDatabase, WriteManifest, PlaceZip, CheckZip, RemoveZip, Report
<1>5. ASSUME Claim(p) PROVE shared' \subseteq Goal
  BY <1>5, LineType, SMTT(20) DEF Claim, Due, TypeOK
<1> QED
  BY <1>1, <1>3, <1>4, <1>5 DEF TypeOK

\* What happens to the queue without a process of the runtime at work.
Arrives ==
    \/ \E p \in Process, g \in Goal, priority \in Priority : Enqueue(p, g, priority)
    \/ \E g \in Goal : LeaseRunsOut(g) \/ BackoffEnds(g)

LEMMA ArrivalTypes ==
    ASSUME TypeOK, Arrives
    PROVE  /\ job' \in [Goal -> Jobs] /\ line' \in Seq(Goal) /\ left' \in [Bounds -> Nat]
           /\ UNCHANGED <<id, checkpoint, files, backups, proc, shared>>
<1>1. ASSUME NEW p \in Process, NEW g \in Goal, NEW priority \in Priority, Enqueue(p, g, priority)
      PROVE  /\ job' \in [Goal -> Jobs] /\ line' \in Seq(Goal) /\ left' \in [Bounds -> Nat]
             /\ UNCHANGED <<id, checkpoint, files, backups, proc, shared>>
  <2>1. Inserted(g, priority) \in Jobs
    BY LocalAssumption DEF Inserted, NoJob, Jobs, TypeOK
  <2>2. job' \in [Goal -> Jobs] /\ line' \in Seq(Goal)
    BY <1>1, <2>1 DEF Enqueue, TypeOK
  <2>3. left' \in [Bounds -> Nat]
    BY <1>1, UseType DEF Enqueue, Bounds
  <2> QED
    BY <1>1, <2>2, <2>3 DEF Enqueue
<1>2. ASSUME NEW g \in Goal, LeaseRunsOut(g) \/ BackoffEnds(g)
      PROVE  /\ job' \in [Goal -> Jobs] /\ line' \in Seq(Goal) /\ left' \in [Bounds -> Nat]
             /\ UNCHANGED <<id, checkpoint, files, backups, proc, shared>>
  <2>1. job[g] \in Jobs
    BY DEF TypeOK
  <2>2. [job[g] EXCEPT !.expired = TRUE] \in Jobs /\ [job[g] EXCEPT !.waiting = FALSE] \in Jobs
    BY <2>1 DEF Jobs
  <2>3. job' \in [Goal -> Jobs]
    BY <1>2, <2>2, RowType DEF LeaseRunsOut, BackoffEnds
  <2>4. left' \in [Bounds -> Nat]
    BY <1>2, UseType DEF LeaseRunsOut, BackoffEnds, Bounds, TypeOK
  <2> QED
    BY <1>2, <2>3, <2>4 DEF LeaseRunsOut, BackoffEnds, TypeOK
<1> QED
  BY <1>1, <1>2 DEF Arrives

\* Rows, files and processes keep the shape of their schema, promotion leaves
\* one last known good checkpoint, and a process that works has a goal.
THEOREM TypeCorrect == Spec => [](TypeOK /\ OnePromoted /\ GoalsHeld /\ Named)
<1>1. Init => TypeOK /\ OnePromoted /\ GoalsHeld /\ Named
  <2> SUFFICES ASSUME Init PROVE TypeOK /\ OnePromoted /\ GoalsHeld /\ Named
    OBVIOUS
  <2>1. proc \in [Process -> Procs]
    BY IdleType DEF Init
  <2>2. left \in [Bounds -> Nat]
    BY LocalAssumption DEF Init, Bounds
  <2>3. job \in [Goal -> Jobs]
    BY DEF Init, NoJob, Jobs
  <2>4. checkpoint = <<>> /\ line = <<>>
    BY DEF Init
  <2>5. OnePromoted
    BY <2>4 DEF OnePromoted
  <2>6. checkpoint \in Seq(Checkpoints) /\ line \in Seq(Goal)
    BY <2>4
  <2>7. /\ zips \in [BackupName -> {None} \cup Archive]
        /\ undo \subseteq Content /\ held \subseteq Content /\ file \in Content \cup {None}
    BY DEF Init
  <2>8. /\ id \in [Process -> WorkerId] /\ staged \in Content \cup {None}
        /\ shared \subseteq Goal /\ overlapped \in BOOLEAN
        /\ reported \subseteq BackupName /\ reused \subseteq BackupName
    BY DEF Init
  <2>9. GoalsHeld /\ Named
    BY DEF Init, Idle, GoalsHeld, Named, At, WorkPlaces
  <2> QED
    BY <2>1, <2>2, <2>3, <2>5, <2>6, <2>7, <2>8, <2>9 DEF TypeOK, Bounds, Archive
<1>2. TypeOK /\ OnePromoted /\ GoalsHeld /\ Named /\ [Next]_vars
        => (TypeOK /\ OnePromoted /\ GoalsHeld /\ Named)'
  <2> SUFFICES ASSUME TypeOK, OnePromoted, GoalsHeld, Named, [Next]_vars
               PROVE  (TypeOK /\ OnePromoted /\ GoalsHeld /\ Named)'
    OBVIOUS
  <2>1. ASSUME NEW p \in Process, Acts(p) PROVE (TypeOK /\ OnePromoted /\ GoalsHeld /\ Named)'
    <3>1. Moved(p)
      BY <2>1, Moves
    <3>2. GoalsHeld'
      BY <3>1 DEF Moved, OthersStay, GoalsHeld, At
    <3>3. Named'
      BY <3>1 DEF Moved, OthersStay, Named, At, WriteManifest, PlaceZip, CheckZip
    <3>4. /\ job' \in [Goal -> Jobs]
          /\ checkpoint' \in Seq(Checkpoints) /\ OnePromoted'
      BY <2>1, JobTypes, CheckpointTypes
    <3>5. /\ file' \in Content \cup {None} /\ staged' \in Content \cup {None}
          /\ undo' \subseteq Content /\ held' \subseteq Content /\ overlapped' \in BOOLEAN
      BY <2>1, FileTypes
    <3>6. /\ zips' \in [BackupName -> {None} \cup Archive]
          /\ reported' \subseteq BackupName /\ reused' \subseteq BackupName
      BY <2>1, BackupTypes
    <3>7. id' = id /\ line' = line /\ left' \in [Bounds -> Nat] /\ shared' \subseteq Goal
      BY <2>1, OtherTypes
    <3>8. proc' \in [Process -> Procs]
      BY <3>1 DEF Moved
    <3> QED
      BY <3>2, <3>3, <3>4, <3>5, <3>6, <3>7, <3>8 DEF TypeOK, Archive, Bounds
  <2>2. CASE Arrives
    BY <2>2, ArrivalTypes DEF TypeOK, OnePromoted, GoalsHeld, Named, At, Bounds, files, backups
  <2>3. CASE UNCHANGED vars
    BY <2>3 DEF vars, store, files, backups, TypeOK, OnePromoted, GoalsHeld, Named, At
  <2> QED
    BY <2>1, <2>2, <2>3 DEF Next, Acts, Arrives
<1> QED
  BY <1>1, <1>2, PTL DEF Spec

-----------------------------------------------------------------------------
(* Settled goals *)

\* What a step does to a row: only its own process settles a goal.
LEMMA RowMoves ==
    ASSUME TypeOK, GoalsHeld, SettledInv, NEW p \in Process, Acts(p), NEW g \in Goal
    PROVE  /\ \/ job'[g].status = job[g].status
              \/ job[g].status = "leased" /\ job'[g].status = "pending"
              \/ job[g].status = "pending" /\ job'[g].status = "leased"
              \/ job[g].status = "leased" /\ proc[p].goal = g
              \/ proc[p].goal = g /\ At(p, {"failing", "excepting"})
<1>1. CASE BeginWork(p)
  BY <1>1 DEF BeginWork, Released, TypeOK, Jobs
<1>2. CASE Claim(p)
  <2>1. PICK i \in Due :
            job' = [job EXCEPT ![line[i]].status = "leased", ![line[i]].owner = id[p],
                               ![line[i]].attempts = @ + 1, ![line[i]].expired = FALSE]
    BY <1>2 DEF Claim
  <2>2. line[i] \in Goal /\ job[line[i]].status = "pending"
    BY LineType DEF Due
  <2> QED
    BY <2>1, <2>2, SMTT(20) DEF TypeOK, Jobs
<1>3. CASE Complete(p)
  BY <1>3 DEF Complete, Owned, TypeOK, Jobs
<1>4. CASE FailUpdates(p)
  BY <1>4 DEF FailUpdates, TypeOK, Jobs
<1>5. CASE job' = job
  BY <1>5
<1> QED
  BY <1>1, <1>2, <1>3, <1>4, <1>5 DEF Acts, Work, Checkpointing, BackingUp, Dies, ClaimNothing, ReplyTool,
     ReplyFinal, Exhausted, CopyUndo, Stage, Replace, ToolRaises, LeaseLost, FailReads, NotOwned, Logged,
     CallRaises, BeginInit, InsertCheckpoint, VerifyCheckpoint, PromoteCheckpoint, CopyDatabase,
     WriteManifest, PlaceZip, CheckZip, RemoveZip, Report, store

LEMMA ArrivalMoves ==
    ASSUME TypeOK, Arrives, NEW g \in Goal
    PROVE  job'[g].status = job[g].status \/ (job[g].status = "absent" /\ job'[g].status = "pending")
<1>1. ASSUME NEW p \in Process, NEW h \in Goal, NEW priority \in Priority, Enqueue(p, h, priority)
      PROVE  job'[g].status = job[g].status \/ (job[g].status = "absent" /\ job'[g].status = "pending")
  <2>1. job' = [job EXCEPT ![h] = Inserted(h, priority)]
    BY <1>1 DEF Enqueue
  <2>2. \/ job[h].status = "absent" /\ Inserted(h, priority).status = "pending"
        \/ Inserted(h, priority) = job[h]
    BY DEF Inserted, NoJob
  <2> QED
    BY <2>1, <2>2 DEF TypeOK
<1>2. ASSUME NEW h \in Goal, LeaseRunsOut(h) \/ BackoffEnds(h)
      PROVE  job'[g].status = job[g].status
  <2>1. job[g] \in Jobs
    BY DEF TypeOK
  <2>2. job' = [job EXCEPT ![h].expired = TRUE] \/ job' = [job EXCEPT ![h].waiting = FALSE]
    BY <1>2 DEF LeaseRunsOut, BackoffEnds
  <2>3. \/ job'[g] = job[g]
        \/ job'[g] = [job[g] EXCEPT !.expired = TRUE]
        \/ job'[g] = [job[g] EXCEPT !.waiting = FALSE]
    BY <2>2 DEF TypeOK
  <2> QED
    BY <2>1, <2>3 DEF Jobs
<1> QED
  BY <1>1, <1>2 DEF Arrives

\* A claim of a goal that another process holds marks it as shared.
LEMMA SharedMoves ==
    ASSUME TypeOK, NEW p \in Process, Acts(p)
    PROVE  /\ shared \subseteq shared'
           /\ Claim(p) => \A q \in Process \ {p} : proc[q].goal = proc'[p].goal => proc'[p].goal \in shared'
<1>1. CASE Claim(p)
  <2>1. PICK i \in Due :
          /\ proc' = [proc EXCEPT ![p].at = "turn", ![p].goal = line[i], ![p].turn = 1]
          /\ shared' = IF \E q \in Process \ {p} : proc[q].goal = line[i]
                       THEN shared \cup {line[i]} ELSE shared
    BY <1>1 DEF Claim
  <2>2. proc'[p].goal = line[i]
    BY <2>1 DEF TypeOK, Procs
  <2> QED
    BY <2>1, <2>2
<1>2. CASE ~ Claim(p)
  BY <1>2 DEF Acts, Work, Checkpointing, BackingUp, Dies, BeginWork, ClaimNothing,
     ReplyTool, ReplyFinal, Exhausted, CopyUndo, Stage, Replace, ToolRaises, Complete, LeaseLost, FailReads,
     FailUpdates, NotOwned, Logged, CallRaises, BeginInit, InsertCheckpoint, VerifyCheckpoint,
     PromoteCheckpoint, CopyDatabase, WriteManifest, PlaceZip, CheckZip, RemoveZip, Report
<1> QED
  BY <1>1, <1>2

\* Two processes have one goal in hand only after a lease ran out under a live
\* process, and without that a goal whose failure is being handled is not settled.
THEOREM SettledKept == Spec => []SettledInv
<1>1. Init => SettledInv
  BY DEF Init, Idle, SettledInv, At
<1>2. TypeOK /\ OnePromoted /\ GoalsHeld /\ SettledInv /\ [Next]_vars => SettledInv'
  <2> SUFFICES ASSUME TypeOK, OnePromoted, GoalsHeld, SettledInv, [Next]_vars PROVE SettledInv'
    OBVIOUS
  <2>1. ASSUME NEW p \in Process, Acts(p) PROVE SettledInv'
    <3>1. Moved(p)
      BY <2>1, Moves
    <3>2. /\ shared \subseteq shared'
          /\ Claim(p) => \A q \in Process \ {p} :
                           proc[q].goal = proc'[p].goal => proc'[p].goal \in shared'
      BY <2>1, SharedMoves
    <3>3. ASSUME NEW q \in Process, NEW r \in Process, q # r, proc'[q].goal = proc'[r].goal
          PROVE  proc'[q].goal \in shared' \cup {None}
      <4>1. CASE q # p /\ r # p
        BY <3>1, <3>2, <3>3, <4>1 DEF Moved, OthersStay, SettledInv
      <4>2. CASE q = p \/ r = p
        <5>1. PICK o \in Process \ {p} : proc[o].goal = proc'[p].goal /\ proc'[p].goal = proc'[q].goal
          BY <3>1, <3>3, <4>2 DEF Moved, OthersStay
        <5>2. CASE Claim(p)
          BY <3>2, <5>1, <5>2
        <5>3. CASE ~ Claim(p)
          BY <3>1, <3>2, <5>1, <5>3 DEF Moved, SettledInv
        <5> QED
          BY <5>2, <5>3
      <4> QED
        BY <4>1, <4>2
    <3>4. ASSUME NEW q \in Process, proc'[q].at \in {"failing", "excepting"}, proc'[q].goal \notin shared'
          PROVE  job'[proc'[q].goal].status \notin {"completed", "dead"}
      <4>1. CASE q = p
        <5>1. FailReads(p) /\ job' = job /\ proc'[p].goal = proc[p].goal
          <6>1. FailReads(p)
            BY <3>1, <3>4, <4>1 DEF Moved, At
          <6>2. proc[p].goal \in Goal
            BY <6>1 DEF FailReads, GoalsHeld, At, WorkPlaces
          <6> QED
            BY <6>1, <6>2 DEF FailReads, store, TypeOK, Procs
        <5> QED
          BY <4>1, <5>1 DEF FailReads, Owned
      <4>2. CASE q # p
        <5> DEFINE g == proc[q].goal
        <5>1. proc'[q] = proc[q] /\ g \in Goal /\ g \notin shared
          BY <3>1, <3>2, <3>4, <4>2 DEF Moved, OthersStay, GoalsHeld, At, WorkPlaces
        <5>2. job[g].status \notin {"completed", "dead"}
          BY <3>4, <5>1 DEF SettledInv, At
        <5>3. proc[p].goal # g
          BY <4>2, <5>1, LocalAssumption DEF SettledInv
        <5> QED
          BY <2>1, <5>1, <5>2, <5>3, RowMoves
      <4> QED
        BY <4>1, <4>2
    <3> QED
      BY <3>3, <3>4 DEF SettledInv, At
  <2>2. CASE Arrives
    <3>1. proc' = proc /\ shared' = shared
      BY <2>2, ArrivalTypes
    <3>2. ASSUME NEW g \in Goal, job[g].status \notin {"completed", "dead"}
          PROVE  job'[g].status \notin {"completed", "dead"}
      BY <2>2, <3>2, ArrivalMoves
    <3> QED
      BY <3>1, <3>2 DEF SettledInv, GoalsHeld, At, WorkPlaces
  <2>3. CASE UNCHANGED vars
    BY <2>3 DEF vars, store, SettledInv, At
  <2> QED
    BY <2>1, <2>2, <2>3 DEF Next, Acts, Arrives
<1> QED
  BY <1>1, <1>2, TypeCorrect, PTL DEF Spec

\* A goal that is completed or dead is never put back in the queue, whoever
\* enqueues it again, fails it late, restarts or recovers leases, unless two
\* live processes have held it at once.
THEOREM SettledGoalsStay == Spec => SettledStays
<1> DEFINE Stays == \A g \in Goal \ shared :
                      job[g].status \in {"completed", "dead"} => job'[g].status = job[g].status
<1>1. TypeOK /\ OnePromoted /\ GoalsHeld /\ SettledInv /\ [Next]_vars => [Stays]_vars
  <2> SUFFICES ASSUME TypeOK, OnePromoted, GoalsHeld, SettledInv, Next,
                      NEW g \in Goal \ shared, job[g].status \in {"completed", "dead"}
               PROVE  job'[g].status = job[g].status
    OBVIOUS
  <2>1. ASSUME NEW p \in Process, Acts(p) PROVE job'[g].status = job[g].status
    <3>1. ~ (proc[p].goal = g /\ At(p, {"failing", "excepting"}))
      BY DEF SettledInv
    <3> QED
      BY <2>1, <3>1, RowMoves
  <2>2. CASE Arrives
    BY <2>2, ArrivalMoves
  <2> QED
    BY <2>1, <2>2 DEF Next, Acts, Arrives
<1> QED
  BY <1>1, TypeCorrect, SettledKept, PTL DEF Spec, SettledStays

-----------------------------------------------------------------------------
(* Undo copies *)

\* Until two writes overlap, a write that is under way has its undo copy, and
\* only one is under way.
THEOREM UndoKept == Spec => []UndoInv
<1>1. Init => UndoInv
  BY DEF Init, Idle, UndoInv, At, Writing
<1>2. TypeOK /\ OnePromoted /\ GoalsHeld /\ UndoInv /\ [Next]_vars => UndoInv'
  <2> SUFFICES ASSUME TypeOK, OnePromoted, GoalsHeld, UndoInv, [Next]_vars, ~ overlapped'
               PROVE  UndoInv'
    BY DEF UndoInv
  <2>1. ASSUME NEW p \in Process, Acts(p) PROVE UndoInv'
    <3>1. Moved(p)
      BY <2>1, Moves
    <3>2. CASE CopyUndo(p)
      <4>1. /\ ~ overlapped /\ \A q \in Process \ {p} : ~ At(q, Writing)
            /\ undo' = undo \cup ({file} \ {None}) /\ file' = file /\ held' = held
        BY <3>2 DEF CopyUndo
      <4> QED
        BY <3>1, <4>1 DEF Moved, OthersStay, UndoInv, At, Writing
    <3>3. CASE Replace(p)
      <4>1. ~ overlapped /\ At(p, Writing)
        BY <3>3 DEF Replace, At, Writing
      <4>2. \A q \in Process \ {p} : ~ At(q, Writing)
        BY <4>1 DEF UndoInv
      <4>3. proc'[p].at = "turn"
        BY <3>3, NextTurnType DEF Replace
      <4>4. \A q \in Process : ~ At(q, Writing)'
        BY <3>1, <4>2, <4>3 DEF Moved, OthersStay, At, Writing
      <4>5. held' \subseteq {file'} \cup undo'
        BY <3>3, <4>1, LocalAssumption DEF Replace, UndoInv, TypeOK
      <4> QED
        BY <4>4, <4>5 DEF UndoInv
    <3>4. CASE Stage(p)
      <4>1. /\ ~ overlapped /\ At(p, Writing)
            /\ undo' = undo /\ file' = file /\ held' = held
        BY <3>4 DEF Stage, At, Writing
      <4> QED
        BY <3>1, <4>1 DEF Moved, OthersStay, UndoInv, At, Writing
    <3>5. CASE ~ CopyUndo(p) /\ ~ Replace(p) /\ ~ Stage(p)
      <4>1. UNCHANGED files
        BY <2>1, <3>5 DEF Acts, Work, Checkpointing, BackingUp, Dies, BeginWork, Claim, ClaimNothing,
           ReplyTool, ReplyFinal, Exhausted, ToolRaises, Complete, LeaseLost, FailReads,
           FailUpdates, NotOwned, Logged, CallRaises, BeginInit, InsertCheckpoint, VerifyCheckpoint,
           PromoteCheckpoint, CopyDatabase, WriteManifest, PlaceZip, CheckZip, RemoveZip, Report
      <4>2. ~ At(p, Writing)'
        BY <3>1, <3>5 DEF Moved, At, Writing
      <4> QED
        BY <3>1, <4>1, <4>2 DEF files, Moved, OthersStay, UndoInv, At, Writing
    <3> QED
      BY <3>2, <3>3, <3>4, <3>5
  <2>2. CASE Arrives
    BY <2>2, ArrivalTypes DEF files, UndoInv, At, Writing
  <2>3. CASE UNCHANGED vars
    BY <2>3 DEF vars, files, UndoInv, At, Writing
  <2> QED
    BY <2>1, <2>2, <2>3 DEF Next, Acts, Arrives
<1> QED
  BY <1>1, <1>2, TypeCorrect, PTL DEF Spec

\* Whatever the file has held is in it or in the undo directory, wherever a
\* write was interrupted, unless two writes overlapped.
THEOREM WritesCanBeUndone == Spec => []WritesReversible
<1>1. UndoInv => WritesReversible
  BY DEF UndoInv, WritesReversible
<1> QED
  BY <1>1, UndoKept, PTL

-----------------------------------------------------------------------------
(* Backups *)

\* Known of the next state.
KnownNext(i) == i = 0 \/ (i \in DOMAIN checkpoint' /\ checkpoint'[i].verified)

\* What was verified stays verified, and so does what a backup names.
LEMMA KnownStays ==
    ASSUME TypeOK, NEW p \in Process, Acts(p)
    PROVE  DOMAIN checkpoint \subseteq DOMAIN checkpoint' /\ \A i : Known(i) => KnownNext(i)
<1>1. CASE InsertCheckpoint(p)
  <2> DEFINE c == [parent |-> proc[p].cid, verified |-> FALSE, promoted |-> FALSE]
  <2>1. c \in Checkpoints /\ checkpoint' = Append(checkpoint, c)
    BY <1>1 DEF InsertCheckpoint, TypeOK, Procs, Checkpoints
  <2>2. \A k \in DOMAIN checkpoint : k \in DOMAIN checkpoint' /\ checkpoint'[k] = checkpoint[k]
    BY <2>1, AppendedType
  <2> QED
    BY <2>2 DEF Known, KnownNext
<1>2. CASE VerifyCheckpoint(p)
  BY <1>2, VerifiedType DEF Known, KnownNext
<1>3. CASE PromoteCheckpoint(p)
  BY <1>3, PromotedType DEF Known, KnownNext
<1>4. CASE checkpoint' = checkpoint
  BY <1>4 DEF Known, KnownNext
<1> QED
  BY <1>1, <1>2, <1>3, <1>4 DEF Acts, Work, Checkpointing, BackingUp, Dies, BeginWork, Claim, ClaimNothing,
     ReplyTool, ReplyFinal, Exhausted, CopyUndo, Stage, Replace, ToolRaises, Complete, LeaseLost, FailReads,
     FailUpdates, NotOwned, Logged, CallRaises, BeginInit, CopyDatabase, WriteManifest, PlaceZip, CheckZip,
     RemoveZip, Report, store

LEMMA LastVerifiedKnown == ASSUME TypeOK, OnePromoted PROVE Known(LastVerified)
BY LastVerifiedIsOne DEF Known, Promoted

\* What the steps do to the archives.
LEMMA ZipMoves ==
    ASSUME TypeOK, Named, NEW p \in Process, Acts(p)
    PROVE  \/ /\ PlaceZip(p) /\ proc[p].name \in BackupName
              /\ \A n \in BackupName \ {proc[p].name} : zips'[n] = zips[n]
              /\ zips'[proc[p].name].database = proc[p].copied
              /\ zips'[proc[p].name].manifest = proc[p].cid
              /\ reused \subseteq reused'
              /\ zips[proc[p].name] # None => proc[p].name \in reused'
              /\ \A q \in Process \ {p} : proc[q].name = proc[p].name => proc[p].name \in reused'
              /\ reported' = reported
           \/ /\ RemoveZip(p) /\ proc[p].name \in BackupName
              /\ \A n \in BackupName \ {proc[p].name} : zips'[n] = zips[n]
              /\ zips'[proc[p].name] \in {None, zips[proc[p].name]}
              /\ reused' = reused /\ reported' = reported
           \/ /\ Report(p) /\ zips' = zips /\ reused' = reused
              /\ reported' \in {reported, reported \cup {proc[p].name}}
           \/ UNCHANGED backups
<1>1. CASE PlaceZip(p)
  <2> DEFINE n == proc[p].name
  <2>1. n \in BackupName
    BY <1>1 DEF PlaceZip, Named, At
  <2>2. PICK whole \in BOOLEAN :
          zips' = [zips EXCEPT ![n] =
                     [database |-> proc[p].copied, manifest |-> proc[p].cid, whole |-> whole]]
    BY <1>1 DEF PlaceZip
  <2>3. /\ \A m \in BackupName \ {n} : zips'[m] = zips[m]
        /\ zips'[n] = [database |-> proc[p].copied, manifest |-> proc[p].cid, whole |-> whole]
    BY <2>1, <2>2 DEF TypeOK
  <2>4. reported' = reported /\ reused' = IF \/ zips[n] # None
                       \/ \E q \in Process \ {p} : proc[q].name = n
                    THEN reused \cup {n} ELSE reused
    BY <1>1 DEF PlaceZip
  <2> QED
    BY <1>1, <2>1, <2>3, <2>4
<1>2. CASE RemoveZip(p)
  BY <1>2 DEF RemoveZip, Named, At, TypeOK
<1>3. CASE Report(p)
  BY <1>3 DEF Report
<1>4. CASE UNCHANGED backups
  BY <1>4
<1> QED
  BY <1>1, <1>2, <1>3, <1>4 DEF Acts, Work, Checkpointing, BackingUp, Dies, BeginWork, Claim, ClaimNothing,
     ReplyTool, ReplyFinal, Exhausted, CopyUndo, Stage, Replace, ToolRaises, Complete, LeaseLost, FailReads,
     FailUpdates, NotOwned, Logged, CallRaises, BeginInit, InsertCheckpoint, VerifyCheckpoint,
     PromoteCheckpoint, CopyDatabase, WriteManifest, CheckZip

\* What any archive names was verified, and an archive that was read back stays
\* as it is until its name is used again.
THEOREM BackupsKept == Spec => []BackupInv
<1>1. Init => BackupInv
  BY DEF Init, Idle, BackupInv, At
<1>2. TypeOK /\ OnePromoted /\ GoalsHeld /\ Named /\ BackupInv /\ [Next]_vars => BackupInv'
  <2> SUFFICES ASSUME TypeOK, OnePromoted, GoalsHeld, Named, BackupInv, [Next]_vars PROVE BackupInv'
    OBVIOUS
  <2>1. ASSUME NEW p \in Process, Acts(p) PROVE BackupInv'
    <3>1. Moved(p)
      BY <2>1, Moves
    <3>2. DOMAIN checkpoint \subseteq DOMAIN checkpoint' /\ \A i : Known(i) => KnownNext(i)
      BY <2>1, KnownStays
    <3>3. Known(LastVerified)
      BY LastVerifiedKnown
    <3>4. \A q \in Process \ {p} : proc'[q] = proc[q]
      BY <3>1 DEF Moved, OthersStay
    <3>z. \/ /\ PlaceZip(p) /\ proc[p].name \in BackupName
             /\ \A n \in BackupName \ {proc[p].name} : zips'[n] = zips[n]
             /\ zips'[proc[p].name].database = proc[p].copied
             /\ zips'[proc[p].name].manifest = proc[p].cid
             /\ reused \subseteq reused'
             /\ zips[proc[p].name] # None => proc[p].name \in reused'
             /\ \A q \in Process \ {p} : proc[q].name = proc[p].name => proc[p].name \in reused'
             /\ reported' = reported
          \/ /\ RemoveZip(p) /\ proc[p].name \in BackupName
             /\ \A n \in BackupName \ {proc[p].name} : zips'[n] = zips[n]
             /\ zips'[proc[p].name] \in {None, zips[proc[p].name]}
             /\ reused' = reused /\ reported' = reported
          \/ /\ Report(p) /\ zips' = zips /\ reused' = reused
             /\ reported' \in {reported, reported \cup {proc[p].name}}
          \/ UNCHANGED backups
      BY <2>1, ZipMoves
    <3>5. \A q \in Process : At(q, {"verify", "promote"})' => proc'[q].cid \in DOMAIN checkpoint'
      <4>1. At(p, {"verify"})' => proc'[p].cid \in DOMAIN checkpoint'
        <5>1. ASSUME InsertCheckpoint(p) PROVE Len(checkpoint) + 1 \in DOMAIN checkpoint'
          <6> DEFINE c == [parent |-> proc[p].cid, verified |-> FALSE, promoted |-> FALSE]
          <6>1. c \in Checkpoints /\ checkpoint' = Append(checkpoint, c)
            BY <5>1 DEF InsertCheckpoint, TypeOK, Procs, Checkpoints
          <6> QED
            BY <6>1, AppendedType
        <5> QED
          BY <3>1, <5>1 DEF Moved
      <4>2. At(p, {"promote"})' => proc'[p].cid \in DOMAIN checkpoint'
        BY <3>1, <3>2 DEF Moved, VerifyCheckpoint, At, BackupInv
      <4> QED
        BY <3>2, <3>4, <4>1, <4>2 DEF At, BackupInv
    <3>6. \A q \in Process : /\ At(q, {"manifest", "zip"})' => KnownNext(proc'[q].copied)
                             /\ At(q, {"zip"})' => KnownNext(proc'[q].cid)
      <4>1. /\ At(p, {"manifest"})' => KnownNext(proc'[p].copied)
            /\ At(p, {"zip"})' => KnownNext(proc'[p].copied) /\ KnownNext(proc'[p].cid)
        BY <3>1, <3>2, <3>3 DEF Moved, WriteManifest, At, BackupInv
      <4>2. ASSUME NEW q \in Process \ {p}
            PROVE  /\ At(q, {"manifest", "zip"})' => KnownNext(proc'[q].copied)
                   /\ At(q, {"zip"})' => KnownNext(proc'[q].cid)
        BY <3>2, <3>4 DEF At, BackupInv
      <4> QED
        BY <4>1, <4>2 DEF At
    <3>7. \A q, r \in Process :
            q # r /\ At(q, {"check", "report"})' /\ At(r, {"check", "report"})'
                  /\ proc'[q].name = proc'[r].name => proc'[q].name \in reused'
      <4>1. reused \subseteq reused'
        BY <3>z DEF backups
      <4>2. ASSUME At(p, {"check", "report"})'
            PROVE  /\ PlaceZip(p) \/ (CheckZip(p) /\ At(p, {"check"}))
                   /\ proc'[p].name = proc[p].name
        BY <3>1, <4>2 DEF Moved, At, CheckZip
      <4>3. ASSUME NEW q \in Process \ {p}, At(p, {"check", "report"})', At(q, {"check", "report"}),
                   proc[q].name = proc[p].name
            PROVE  proc[p].name \in reused'
        <5>1. CASE PlaceZip(p)
          BY <3>z, <4>3, <5>1 DEF PlaceZip, RemoveZip, Report, At
        <5>2. CASE At(p, {"check"})
          BY <4>1, <4>3, <5>2 DEF BackupInv, At
        <5> QED
          BY <4>2, <4>3, <5>1, <5>2
      <4> QED
        BY <3>4, <4>1, <4>2, <4>3 DEF BackupInv, At
    <3>8. \A n \in BackupName : zips'[n] # None => KnownNext(zips'[n].database) /\ KnownNext(zips'[n].manifest)
      <4>1. ASSUME PlaceZip(p) PROVE KnownNext(proc[p].copied) /\ KnownNext(proc[p].cid)
        BY <3>2, <4>1 DEF PlaceZip, At, BackupInv
      <4>2. ASSUME NEW n \in BackupName, zips[n] # None
            PROVE  KnownNext(zips[n].database) /\ KnownNext(zips[n].manifest)
        BY <3>2, <4>2 DEF BackupInv
      <4> QED
        BY <3>z, <4>1, <4>2 DEF backups
    <3>9. \A n \in reported' \ reused' : Valid(n)'
      <4> SUFFICES ASSUME NEW n \in reported', n \notin reused' PROVE zips'[n] # None /\ zips'[n].whole
        BY DEF Valid
      <4>0. n \in reported /\ n \notin reused => Valid(n)
        BY DEF BackupInv
      <4>1. CASE PlaceZip(p)
        BY <3>z, <4>0, <4>1 DEF PlaceZip, RemoveZip, Report, backups, At, Valid, TypeOK
      <4>2. CASE RemoveZip(p)
        <5>1. proc[p].name \notin reported \ reused
          BY <4>2 DEF RemoveZip, BackupInv
        <5> QED
          BY <3>z, <4>0, <4>2, <5>1 DEF PlaceZip, RemoveZip, Report, backups, At, Valid, TypeOK
      <4>3. CASE Report(p)
        <5>1. proc[p].name \notin reused => Valid(proc[p].name)
          BY <4>3 DEF Report, BackupInv
        <5> QED
          BY <4>0, <4>3, <5>1 DEF Report, Valid
      <4>4. CASE UNCHANGED backups
        BY <4>0, <4>4 DEF backups, Valid
      <4> QED
        BY <3>z, <4>1, <4>2, <4>3, <4>4
    <3>10. \A q \in Process : /\ At(q, {"report"})' /\ proc'[q].name \notin reused' => Valid(proc[q].name)'
                              /\ At(q, {"check"})' => proc'[q].name \notin reported' \ reused'
      <4>0. reused \subseteq reused'
        BY <3>z DEF backups
      <4>1. ASSUME At(p, {"report"})' PROVE zips'[proc'[p].name] # None /\ zips'[proc'[p].name].whole
        BY <3>1, <4>1 DEF Moved, CheckZip, Valid, backups
      <4>2. ASSUME At(p, {"check"})' PROVE proc'[p].name \notin reported' \ reused'
        <5>1. PlaceZip(p) /\ proc'[p].name = proc[p].name
          BY <3>1, <4>2 DEF Moved
        <5>2. proc[p].name \in reported \ reused => zips[proc[p].name] # None
          BY DEF BackupInv, Valid
        <5>3. zips[proc[p].name] # None => proc[p].name \in reused'
          BY <5>1 DEF PlaceZip
        <5>4. reported' = reported
          BY <5>1 DEF PlaceZip
        <5> QED
          BY <4>0, <5>1, <5>2, <5>3, <5>4
      <4>3. ASSUME NEW q \in Process \ {p}, At(q, {"report"}), proc[q].name \notin reused'
            PROVE  zips'[proc[q].name] # None /\ zips'[proc[q].name].whole
        <5> DEFINE n == proc[q].name
        <5>1. n \in BackupName /\ zips[n] # None /\ zips[n].whole
          BY <4>0, <4>3 DEF BackupInv, Named, Valid, At
        <5>2. ASSUME RemoveZip(p) PROVE proc[p].name # n
          BY <4>0, <4>3, <5>2 DEF RemoveZip, BackupInv, At
        <5> QED
          BY <3>z, <4>3, <5>1, <5>2 DEF backups
      <4>4. ASSUME NEW q \in Process \ {p}, At(q, {"check"})
            PROVE  proc[q].name \notin reported' \ reused'
        <5>1. ASSUME Report(p), proc[p].name = proc[q].name PROVE proc[q].name \in reused
          BY <4>4, <5>1 DEF Report, BackupInv, At
        <5>2. proc[q].name \notin reported \ reused
          BY <4>4 DEF BackupInv
        <5> QED
          BY <3>z, <4>0, <5>1, <5>2 DEF backups
      <4>5. \A q \in Process \ {p} : /\ At(q, {"report"})' = At(q, {"report"})
                                     /\ At(q, {"check"})' = At(q, {"check"})
                                     /\ proc'[q].name = proc[q].name
        BY <3>4 DEF At
      <4> QED
        BY <4>1, <4>2, <4>3, <4>4, <4>5 DEF Valid
    <3> QED
      BY <3>5, <3>6, <3>7, <3>8, <3>9, <3>10 DEF BackupInv, Known, KnownNext
  <2>2. CASE Arrives
    BY <2>2, ArrivalTypes DEF backups, BackupInv, At, Known, Valid
  <2>3. CASE UNCHANGED vars
    BY <2>3 DEF vars, store, backups, BackupInv, At, Known, Valid
  <2> QED
    BY <2>1, <2>2, <2>3 DEF Next, Acts, Arrives
<1> QED
  BY <1>1, <1>2, TypeCorrect, PTL DEF Spec

\* A backup reported as made can be restored, and what it names as last known
\* good was verified, unless two backups have used its name.
THEOREM ReportedRestores == Spec => []ReportedBackupsRestore
<1>1. TypeOK /\ BackupInv => ReportedBackupsRestore
  BY DEF TypeOK, BackupInv, ReportedBackupsRestore, Valid, Known
<1> QED
  BY <1>1, TypeCorrect, BackupsKept, PTL
=============================================================================
