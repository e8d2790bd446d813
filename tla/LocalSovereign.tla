--------------------------- MODULE LocalSovereign ---------------------------
(***************************************************************************)
(* The local sovereign runtime (local_sovereign.py) as its command lines   *)
(* (run_local_sovereign.py, run_android_sovereign.py) use it: processes    *)
(* that share one workspace directory and one SQLite file, each enqueueing *)
(* a goal, working the queue, initialising a checkpoint or making a        *)
(* backup.  A step is a transaction, a file operation or a reply of the    *)
(* model.  Any process may die between two steps, and may then be started  *)
(* again with any command.                                                 *)
(*                                                                         *)
(* A goal stands for its row of work_queue: its idempotency key is a hash  *)
(* of the goal.  A checkpoint is its place in the order of creation.  All  *)
(* writes go to one file of the workspace.                                 *)
(***************************************************************************)
EXTENDS Integers, Sequences, FiniteSets

CONSTANTS
    Process,       \* operating system processes
    WorkerId,      \* "omega-local-1" and "omega-android-1"
    Goal,          \* goals, one row of work_queue each
    Priority,      \* priorities a goal is given
    MaxAttempts,   \* work_queue.max_attempts, 5 by default
    MaxSteps,      \* run_goal's max_steps
    Content,       \* texts written to the file
    BackupName,    \* names: the label and the second of the backup
    Setups,        \* bounds: what a behaviour may use up
    None

ASSUME LocalAssumption ==
    /\ MaxAttempts \in Nat \ {0} /\ MaxSteps \in Nat
    /\ Priority \subseteq Nat
    /\ None \notin Goal \cup Content \cup WorkerId \cup BackupName
    /\ Setups \subseteq [goals : Nat, writes : Nat, inits : Nat, backups : Nat,
                         deaths : Nat, raises : Nat, expiries : Nat, faults : Nat]

VARIABLES
    id,            \* the worker id each process's command line passes
    job,           \* work_queue
    line,          \* the order in which goals were enqueued (created_at)
    checkpoint,    \* checkpoints, in order of creation
    file, staged,  \* the workspace file and its temporary name
    undo,          \* contents of the undo directory
    zips,          \* the backup directory
    proc,          \* where each process is and what it holds in memory
    left           \* bound: what the behaviour may still use up

\* Contents the file has had; goals claimed while another process that is
\* alive held them; whether two writes overlapped; backups reported as made;
\* names that two backups have used.
VARIABLES held, shared, overlapped, reported, reused

store == <<job, line, checkpoint>>
files == <<file, staged, undo, held, overlapped>>
backups == <<zips, reported, reused>>
vars == <<id, store, files, backups, proc, left, shared>>

-----------------------------------------------------------------------------
(* The rows, and a process between two commands                            *)

NoJob == [status |-> "absent", priority |-> 0, attempts |-> 0, owner |-> None,
          expired |-> FALSE, waiting |-> FALSE]

Idle == [at |-> "free", goal |-> None, read |-> 0, turn |-> 0, text |-> None,
         name |-> None, copied |-> 0, cid |-> 0]

\* The file may exist already; one that no write of the setup may reach is
\* left out.
Init ==
    /\ left \in Setups
    /\ id \in [Process -> WorkerId]
    /\ job = [g \in Goal |-> NoJob] /\ line = <<>> /\ checkpoint = <<>>
    /\ file \in {None} \cup {c \in Content : left.writes > 0} /\ staged = None /\ undo = {}
    /\ zips = [n \in BackupName |-> None]
    /\ proc = [p \in Process |-> Idle]
    /\ held = {file} \ {None} /\ shared = {} /\ overlapped = FALSE
    /\ reported = {} /\ reused = {}

At(p, places) == proc[p].at \in places
Goto(p, at) == proc' = [proc EXCEPT ![p].at = at]
Ends(p) == proc' = [proc EXCEPT ![p] = Idle]
Use(what) == left[what] > 0 /\ left' = [left EXCEPT ![what] = @ - 1]

-----------------------------------------------------------------------------
(* The queue.  The audit row of a transaction is written in one of its     *)
(* own: it decides nothing, but it may raise.                              *)

\* enqueue_goal: the key is unique, a repeated goal returns the row it has.
Inserted(g, priority) ==
    IF job[g].status = "absent"
    THEN [NoJob EXCEPT !.status = "pending", !.priority = priority]
    ELSE job[g]

Enqueue(p, g, priority) ==
    /\ At(p, {"free"}) /\ Use("goals")
    /\ job' = [job EXCEPT ![g] = Inserted(g, priority)]
    /\ line' = IF job[g].status = "absent" THEN Append(line, g) ELSE line
    /\ UNCHANGED <<id, checkpoint, files, backups, proc, shared>>

\* recover_expired_leases
Released(row) ==
    IF row.status = "leased" /\ row.expired
    THEN [row EXCEPT !.status = "pending", !.owner = None, !.expired = FALSE]
    ELSE row

\* process_once begins; a daemon does so again and again.
BeginWork(p) ==
    /\ At(p, {"free"})
    /\ job' = [g \in Goal |-> Released(job[g])]
    /\ Goto(p, "claim")
    /\ UNCHANGED <<id, line, checkpoint, files, backups, left, shared>>

Due == {i \in DOMAIN line : job[line[i]].status = "pending" /\ ~job[line[i]].waiting}

\* Highest priority first, then the oldest.
Foremost(i) ==
    \A k \in Due : \/ job[line[i]].priority > job[line[k]].priority
                   \/ job[line[i]].priority = job[line[k]].priority /\ i <= k

Claim(p) ==
    /\ At(p, {"claim"})
    /\ \E i \in Due :
         LET g == line[i] IN
         /\ Foremost(i)
         /\ job' = [job EXCEPT ![g].status = "leased", ![g].owner = id[p],
                               ![g].attempts = @ + 1, ![g].expired = FALSE]
         /\ proc' = [proc EXCEPT ![p].at = "turn", ![p].goal = g, ![p].turn = 1]
         /\ shared' = IF \E q \in Process \ {p} : proc[q].goal = g
                      THEN shared \cup {g} ELSE shared
    /\ UNCHANGED <<id, line, checkpoint, files, backups, left>>

ClaimNothing(p) ==
    /\ At(p, {"claim"}) /\ Due = {}
    /\ Ends(p)
    /\ UNCHANGED <<id, store, files, backups, left, shared>>

Owned(p) == job[proc[p].goal].status = "leased" /\ job[proc[p].goal].owner = id[p]

Complete(p) ==
    /\ At(p, {"complete"}) /\ Owned(p)
    /\ job' = [job EXCEPT ![proc[p].goal].status = "completed", ![proc[p].goal].owner = None,
                          ![proc[p].goal].expired = FALSE]
    /\ Goto(p, "log")
    /\ UNCHANGED <<id, line, checkpoint, files, backups, left, shared>>

\* "lost local work lease" is raised and caught.
LeaseLost(p) ==
    /\ At(p, {"complete"}) /\ ~Owned(p)
    /\ Goto(p, "except")
    /\ UNCHANGED <<id, store, files, backups, left, shared>>

\* Mutation: the row is not looked at before the update.
FailReadsAny(p) ==
    /\ At(p, {"fail", "except"})
    /\ proc' = [proc EXCEPT ![p].at = IF @ = "fail" THEN "failing" ELSE "excepting",
                            ![p].read = job[proc[p].goal].attempts]
    /\ UNCHANGED <<id, store, files, backups, left, shared>>

\* fail() reads the row and then updates it, in two transactions.  It is
\* called for a FAIL or NO_GO, and again in the except clause.
FailReads(p) ==
    /\ At(p, {"fail", "except"}) /\ Owned(p)
    /\ proc' = [proc EXCEPT ![p].at = IF @ = "fail" THEN "failing" ELSE "excepting",
                            ![p].read = job[proc[p].goal].attempts]
    /\ UNCHANGED <<id, store, files, backups, left, shared>>

NotOwned(p) ==
    /\ At(p, {"fail", "except"}) /\ ~Owned(p)
    /\ Ends(p)
    /\ UNCHANGED <<id, store, files, backups, left, shared>>

FailUpdates(p) ==
    /\ At(p, {"failing", "excepting"})
    /\ job' = [job EXCEPT
         ![proc[p].goal].status = IF proc[p].read >= MaxAttempts THEN "dead" ELSE "pending",
         ![proc[p].goal].owner = None, ![proc[p].goal].expired = FALSE,
         ![proc[p].goal].waiting = TRUE]
    /\ IF proc[p].at = "failing" THEN Goto(p, "log") ELSE Ends(p)
    /\ UNCHANGED <<id, line, checkpoint, files, backups, left, shared>>

Logged(p) ==
    /\ At(p, {"log"}) /\ Ends(p)
    /\ UNCHANGED <<id, store, files, backups, left, shared>>

-----------------------------------------------------------------------------
(* run_goal: the model's replies, each a tool call or the end              *)

NextTurn(p) == proc' = [proc EXCEPT ![p].at = "turn", ![p].turn = @ + 1, ![p].text = None]

ReplyTool(p) ==
    /\ At(p, {"turn"}) /\ proc[p].turn <= MaxSteps
    /\ \/ NextTurn(p) /\ UNCHANGED left
       \/ /\ Use("writes")
          /\ \E c \in Content : proc' = [proc EXCEPT ![p].at = "copy", ![p].text = c]
    /\ UNCHANGED <<id, store, files, backups, shared>>

\* A final status; or a reply that is none, which raises.
ReplyFinal(p) ==
    /\ At(p, {"turn"}) /\ proc[p].turn <= MaxSteps
    /\ \E at \in {"complete", "fail", "except"} : Goto(p, at)
    /\ UNCHANGED <<id, store, files, backups, left, shared>>

\* The loop ends NOT_PROVEN, which completes the goal.
Exhausted(p) ==
    /\ At(p, {"turn"}) /\ proc[p].turn > MaxSteps
    /\ Goto(p, "complete")
    /\ UNCHANGED <<id, store, files, backups, left, shared>>

-----------------------------------------------------------------------------
(* write_text: an undo copy, the temporary file, the replacement           *)

Writing == {"stage", "replace"}

\* Mutation: the undo copy is made of a first version only.
CopyUndoOnce(p) ==
    /\ At(p, {"copy"})
    /\ undo' = IF undo = {} THEN {file} \ {None} ELSE undo
    /\ overlapped' = (overlapped \/ \E q \in Process \ {p} : At(q, Writing))
    /\ Goto(p, "stage")
    /\ UNCHANGED <<id, store, file, staged, held, backups, left, shared>>

CopyUndo(p) ==
    /\ At(p, {"copy"})
    /\ undo' = undo \cup ({file} \ {None})
    /\ overlapped' = (overlapped \/ \E q \in Process \ {p} : At(q, Writing))
    /\ Goto(p, "stage")
    /\ UNCHANGED <<id, store, file, staged, held, backups, left, shared>>

Stage(p) ==
    /\ At(p, {"stage"})
    /\ staged' = proc[p].text
    /\ Goto(p, "replace")
    /\ UNCHANGED <<id, store, file, undo, held, overlapped, backups, left, shared>>

Replace(p) ==
    /\ At(p, {"replace"}) /\ staged # None
    /\ file' = staged /\ staged' = None /\ held' = held \cup {staged}
    /\ NextTurn(p)
    /\ UNCHANGED <<id, store, undo, overlapped, backups, left, shared>>

\* An exception of a tool is its result: the other writer has taken the
\* temporary file away, or the operation failed.
ToolRaises(p) ==
    /\ \/ At(p, {"replace"}) /\ staged = None /\ UNCHANGED left
       \/ At(p, {"copy", "stage", "replace"}) /\ Use("raises")
    /\ NextTurn(p)
    /\ UNCHANGED <<id, store, files, backups, shared>>

-----------------------------------------------------------------------------
(* Checkpoints: the init command                                           *)

Promoted == {i \in DOMAIN checkpoint : checkpoint[i].promoted /\ checkpoint[i].verified}

\* last_verified_checkpoint_id; 0 is None.
LastVerified == IF Promoted = {} THEN 0
                ELSE CHOOSE i \in Promoted : \A k \in Promoted : k <= i

\* create_checkpoint reads the parent, then inserts.
BeginInit(p) ==
    /\ At(p, {"free"}) /\ Use("inits")
    /\ proc' = [proc EXCEPT ![p].at = "insert", ![p].cid = LastVerified]
    /\ UNCHANGED <<id, store, files, backups, shared>>

InsertCheckpoint(p) ==
    /\ At(p, {"insert"})
    /\ checkpoint' = Append(checkpoint, [parent |-> proc[p].cid, verified |-> FALSE, promoted |-> FALSE])
    /\ proc' = [proc EXCEPT ![p].at = "verify", ![p].cid = Len(checkpoint) + 1]
    /\ UNCHANGED <<id, job, line, files, backups, left, shared>>

VerifyCheckpoint(p) ==
    /\ At(p, {"verify"})
    /\ checkpoint' = [checkpoint EXCEPT ![proc[p].cid].verified = TRUE]
    /\ Goto(p, "promote")
    /\ UNCHANGED <<id, job, line, files, backups, left, shared>>

PromoteCheckpoint(p) ==
    /\ At(p, {"promote"}) /\ checkpoint[proc[p].cid].verified
    /\ checkpoint' = [i \in DOMAIN checkpoint |->
                        [checkpoint[i] EXCEPT !.promoted = (i = proc[p].cid)]]
    /\ Ends(p)
    /\ UNCHANGED <<id, job, line, files, backups, left, shared>>

-----------------------------------------------------------------------------
(* Backups                                                                 *)

\* The database is copied; the manifest then reads the live one.
CopyDatabase(p, n) ==
    /\ At(p, {"free"}) /\ Use("backups")
    /\ proc' = [proc EXCEPT ![p].at = "manifest", ![p].name = n, ![p].copied = LastVerified]
    /\ UNCHANGED <<id, store, files, backups, shared>>

WriteManifest(p) ==
    /\ At(p, {"manifest"})
    /\ proc' = [proc EXCEPT ![p].at = "zip", ![p].cid = LastVerified]
    /\ UNCHANGED <<id, store, files, backups, left, shared>>

\* The archive takes its final name; what was written may be damaged.
PlaceZip(p) ==
    /\ At(p, {"zip"})
    /\ \E whole \in BOOLEAN :
         /\ IF whole THEN UNCHANGED left ELSE Use("faults")
         /\ zips' = [zips EXCEPT ![proc[p].name] =
                       [database |-> proc[p].copied, manifest |-> proc[p].cid, whole |-> whole]]
    /\ reused' = IF \/ zips[proc[p].name] # None
                    \/ \E q \in Process \ {p} : proc[q].name = proc[p].name
                 THEN reused \cup {proc[p].name} ELSE reused
    /\ Goto(p, "check")
    /\ UNCHANGED <<id, store, files, reported, shared>>

\* VerifiedBackupManager.verify
Valid(n) == zips[n] # None /\ zips[n].whole

\* Mutation: the archive is reported without being read back.
CheckZipUnread(p) ==
    /\ At(p, {"check"}) /\ zips[proc[p].name] # None
    /\ Goto(p, "report")
    /\ UNCHANGED <<id, store, files, backups, left, shared>>

CheckZip(p) ==
    /\ At(p, {"check"}) /\ Valid(proc[p].name)
    /\ Goto(p, "report")
    /\ UNCHANGED <<id, store, files, backups, left, shared>>

\* It is removed, unless reading it raises what verify() does not catch (a
\* zlib.error): then it is left where it is.  Either way create() raises.
RemoveZip(p) ==
    /\ At(p, {"check"}) /\ ~Valid(proc[p].name)
    /\ zips' \in {zips, [zips EXCEPT ![proc[p].name] = None]}
    /\ Ends(p)
    /\ UNCHANGED <<id, store, files, reported, reused, left, shared>>

\* The digest of the file is reported; without the file that raises.
Report(p) ==
    /\ At(p, {"report"})
    /\ reported' = IF zips[proc[p].name] # None THEN reported \cup {proc[p].name} ELSE reported
    /\ Ends(p)
    /\ UNCHANGED <<id, store, files, zips, reused, left, shared>>

-----------------------------------------------------------------------------
(* Incidents, and time                                                     *)

\* A store or model call raises inside the try of process_once.
CallRaises(p) ==
    /\ At(p, {"turn", "complete", "fail", "failing", "log"}) /\ Use("raises")
    /\ Goto(p, "except")
    /\ UNCHANGED <<id, store, files, backups, shared>>

\* The process dies, or a call raises where nothing catches it.
Dies(p) ==
    /\ ~At(p, {"free"}) /\ Use("deaths")
    /\ Ends(p)
    /\ UNCHANGED <<id, store, files, backups, shared>>

LeaseRunsOut(g) ==
    /\ job[g].status = "leased" /\ ~job[g].expired /\ Use("expiries")
    /\ job' = [job EXCEPT ![g].expired = TRUE]
    /\ UNCHANGED <<id, line, checkpoint, files, backups, proc, shared>>

BackoffEnds(g) ==
    /\ job[g].status = "pending" /\ job[g].waiting
    /\ job' = [job EXCEPT ![g].waiting = FALSE]
    /\ UNCHANGED <<id, line, checkpoint, files, backups, proc, left, shared>>

Work(p) ==
    \/ BeginWork(p) \/ Claim(p) \/ ClaimNothing(p)
    \/ ReplyTool(p) \/ ReplyFinal(p) \/ Exhausted(p)
    \/ CopyUndo(p) \/ Stage(p) \/ Replace(p) \/ ToolRaises(p)
    \/ Complete(p) \/ LeaseLost(p) \/ FailReads(p) \/ NotOwned(p) \/ FailUpdates(p)
    \/ Logged(p) \/ CallRaises(p)

Checkpointing(p) ==
    BeginInit(p) \/ InsertCheckpoint(p) \/ VerifyCheckpoint(p) \/ PromoteCheckpoint(p)

BackingUp(p) ==
    \/ \E n \in BackupName : CopyDatabase(p, n)
    \/ WriteManifest(p) \/ PlaceZip(p) \/ CheckZip(p) \/ RemoveZip(p) \/ Report(p)

Next ==
    \/ \E p \in Process :
         \/ \E g \in Goal, priority \in Priority : Enqueue(p, g, priority)
         \/ Work(p) \/ Checkpointing(p) \/ BackingUp(p) \/ Dies(p)
    \/ \E g \in Goal : LeaseRunsOut(g) \/ BackoffEnds(g)

Spec == Init /\ [][Next]_vars

-----------------------------------------------------------------------------
(* What the runtime promises                                               *)

Jobs == [status : {"absent", "pending", "leased", "completed", "dead"},
         priority : Nat, attempts : Nat, owner : WorkerId \cup {None},
         expired : BOOLEAN, waiting : BOOLEAN]

Checkpoints == [parent : Nat, verified : BOOLEAN, promoted : BOOLEAN]

WorkPlaces == {"turn", "copy", "stage", "replace", "complete", "fail", "except",
               "failing", "excepting", "log"}
Places == WorkPlaces \cup {"free", "claim", "insert", "verify", "promote",
                           "manifest", "zip", "check", "report"}

Procs == [at : Places, goal : Goal \cup {None}, read : Nat, turn : Nat,
          text : Content \cup {None}, name : BackupName \cup {None},
          copied : Nat, cid : Nat]

\* Rows, files and processes have the shape of their schema.
TypeOK ==
    /\ id \in [Process -> WorkerId]
    /\ job \in [Goal -> Jobs] /\ line \in Seq(Goal) /\ checkpoint \in Seq(Checkpoints)
    /\ file \in Content \cup {None} /\ staged \in Content \cup {None}
    /\ undo \subseteq Content /\ held \subseteq Content
    /\ zips \in [BackupName -> {None} \cup [database : Nat, manifest : Nat, whole : BOOLEAN]]
    /\ proc \in [Process -> Procs]
    /\ left \in [{"goals", "writes", "inits", "backups", "deaths", "raises",
                  "expiries", "faults"} -> Nat]
    /\ shared \subseteq Goal /\ overlapped \in BOOLEAN
    /\ reported \subseteq BackupName /\ reused \subseteq BackupName

\* A goal that is completed or dead is never put back in the queue, and so
\* never worked on again, whoever else enqueues it, fails it late, restarts
\* or recovers leases - unless two live processes have held it at once: then
\* one of them may have read the row in fail() before the other settled it.
SettledStays ==
    [][\A g \in Goal \ shared :
         job[g].status \in {"completed", "dead"} => job'[g].status = job[g].status]_vars

\* Whatever the file has held is in it or in the undo directory, also when a
\* process dies in the middle of write_text or the goal is worked on again -
\* unless two writes overlapped.
WritesReversible == overlapped \/ held \subseteq {file} \cup undo

\* A backup that was reported as made can be restored, and the checkpoints its
\* database and its manifest name as last known good had been verified -
\* unless two backups have used its name, a label and a second, and one has
\* replaced or removed the other's.
ReportedBackupsRestore ==
    \A n \in reported \ reused :
        /\ Valid(n)
        /\ \A i \in {zips[n].database, zips[n].manifest} \ {0} : checkpoint[i].verified

-----------------------------------------------------------------------------
(* Inductive strengthenings, for LocalSovereign_proofs                     *)

\* A process that works has a goal.
GoalsHeld == \A p \in Process : At(p, WorkPlaces) => proc[p].goal \in Goal

\* A backup that is being made has a name.
Named ==
    \A p \in Process :
        At(p, {"manifest", "zip", "check", "report"}) => proc[p].name \in BackupName

\* A goal is one process's, and about to be put back only if it is not settled.
SettledInv ==
    /\ \A p, q \in Process :
         p # q /\ proc[p].goal = proc[q].goal => proc[p].goal \in shared \cup {None}
    /\ \A p \in Process :
         At(p, {"failing", "excepting"}) /\ proc[p].goal \notin shared
           => job[proc[p].goal].status \notin {"completed", "dead"}

\* Until writes overlap, one at most is under way, and it has its undo copy.
UndoInv ==
    \/ overlapped
    \/ /\ held \subseteq {file} \cup undo
       /\ \A p \in Process : At(p, Writing) => {file} \ {None} \subseteq undo
       /\ \A p, q \in Process : At(p, Writing) /\ At(q, Writing) => p = q

\* Promotion leaves one last known good checkpoint.
OnePromoted ==
    \A i, k \in DOMAIN checkpoint :
        checkpoint[i].promoted /\ checkpoint[k].promoted => i = k

Known(i) == i = 0 \/ (i \in DOMAIN checkpoint /\ checkpoint[i].verified)

\* What a backup names was verified; an archive that was read back stays as it
\* is until its name is used again.
BackupInv ==
    /\ \A p \in Process :
         /\ At(p, {"verify", "promote"}) => proc[p].cid \in DOMAIN checkpoint
         /\ At(p, {"manifest", "zip"}) => Known(proc[p].copied)
         /\ At(p, {"zip"}) => Known(proc[p].cid)
         /\ At(p, {"report"}) /\ proc[p].name \notin reused => Valid(proc[p].name)
         /\ At(p, {"check"}) => proc[p].name \notin reported \ reused
    /\ \A p, q \in Process :
         p # q /\ At(p, {"check", "report"}) /\ At(q, {"check", "report"})
               /\ proc[p].name = proc[q].name => proc[p].name \in reused
    /\ \A n \in BackupName :
         zips[n] # None => Known(zips[n].database) /\ Known(zips[n].manifest)
    /\ \A n \in reported \ reused : Valid(n)
=============================================================================
