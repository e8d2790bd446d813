--------------------------- MODULE PermissionBroker ---------------------------
(***************************************************************************)
(* AndroidPermissionBroker (android_permission_broker.py): one approval     *)
(* request, which is one JSON file.  The process that asked polls it; the   *)
(* buttons of a notification and of a local page each run decide() in a     *)
(* process or a thread of their own.  Nothing is locked: every load is a    *)
(* step, and _atomic_json is three (open, write, replace) through one       *)
(* temporary name that all writers share.                                   *)
(***************************************************************************)
EXTENDS Naturals

CONSTANTS
    Callers,         \* calls of decide() and decision() by anyone but the requester
    Requester,       \* the process in request_and_wait()
    None             \* no temporary file, no answer

Actors == Callers \union {Requester}

Press  == {"approved", "rejected"}
Final  == Press \union {"expired"}
Status == Final \union {"pending"}
Channel == {"null", "browser", "notification"}
Doc == [status: Status, channel: Channel]

\* The characters of a document that differ from one to another: the status,
\* decided_at (null or a time stamp) and ui_channel.
Length(d) ==
    (CASE d.status = "pending" -> 13 [] d.status = "expired" -> 43 [] OTHER -> 44)
      + (CASE d.channel = "null" -> 4 [] d.channel = "browser" -> 9 [] OTHER -> 14)

\* A file is the text written last from its start, and its length: an empty
\* one has size 0, one that ends with the tail of an older text is too long.
File == [text: Doc, size: Nat]
Whole(d) == [text |-> d, size |-> Length(d)]

ASSUME BrokerAssumption ==
    /\ Requester \notin Callers
    /\ None \notin Status \union File

VARIABLES
    file, tmp,       \* <request_id>.json and its .tmp
    late,            \* has expires_at passed?
    shown,           \* has a person been shown a way to decide?
    call,            \* each actor's call, see Call
    answer,          \* what its call returned, or "error" if it raised
    (* history *)
    pressed,         \* decisions sent with the right token
    overlapped       \* has an actor moved in the middle of another's call?

disk == <<file, tmp>>
vars == <<disk, late, shown, call, answer, pressed, overlapped>>

Control == {"idle", "done", "dead",
            "check", "judge", "reload", "recheck", "answer",
            "open", "write", "replace",
            "notify", "set_notification", "fallback", "set_browser", "browser"}

\* The name an opened file has by now, if any.
Handle == {"closed", "tmp", "file", "replaced"}

\* Where a call is and where its write goes on; the document in memory and the
\* file it writes; what it asks for, and whether its token is the right one.
Call == [at: Control, then: Control, doc: Doc, handle: Handle,
         op: Press \union {"status"}, token: BOOLEAN]

TypeOK ==
    /\ file \in File
    /\ tmp \in File \union {None}
    /\ late \in BOOLEAN /\ shown \in BOOLEAN
    /\ call \in [Actors -> Call]
    /\ answer \in [Actors -> Status \union {None, "error"}]
    /\ pressed \subseteq Press
    /\ overlapped \in BOOLEAN

Asked == [status |-> "pending", channel |-> "null"]

\* A call that is at l and keeps nothing in memory.
Blank(l) == [at |-> l, then |-> "answer", doc |-> Asked, handle |-> "closed",
             op |-> "status", token |-> TRUE]

\* request() has written the pending document; nobody has been told of it.
Init ==
    /\ file = Whole(Asked) /\ tmp = None
    /\ late = FALSE /\ shown = FALSE
    /\ call = [a \in Actors |-> Blank(IF a = Requester THEN "notify" ELSE "idle")]
    /\ answer = [a \in Actors |-> None]
    /\ pressed = {} /\ overlapped = FALSE

-----------------------------------------------------------------------------
Set(a, c) == call' = [call EXCEPT ![a] = c]
Goto(a, l) == Set(a, [call[a] EXCEPT !.at = l])

\* The document goes to the file, and control to l afterwards.
Save(a, d, l) == Set(a, [call[a] EXCEPT !.doc = d, !.then = l, !.at = "open"])

Finish(a, result) ==
    /\ answer' = [answer EXCEPT ![a] = result]
    /\ Set(a, Blank("done"))

\* _load raises on a file that is empty or ends with the tail of an older text.
Readable == file.size = Length(file.text)

\* An exception ends the call; one in _notify leads to the fallback.
Raise(a) ==
    IF call[a].then = "fallback"
      THEN Set(a, Blank("fallback")) /\ UNCHANGED answer
      ELSE Finish(a, "error")

-----------------------------------------------------------------------------
(* _atomic_json *)

Empty == [text |-> Asked, size |-> 0]
WrittenOver(f, d) == [text |-> d, size |-> IF Length(d) > f.size THEN Length(d) ELSE f.size]

\* Opening truncates the temporary file, which another writer may have left or
\* may still write.
\* Mutation: the request file itself is opened.
OpenInPlace(a) ==
    /\ call[a].at = "open"
    /\ file' = Empty /\ tmp' = Empty
    /\ Set(a, [call[a] EXCEPT !.handle = "file", !.at = "write"])
    /\ UNCHANGED answer
Open(a) ==
    /\ call[a].at = "open"
    /\ tmp' = Empty
    /\ Set(a, [call[a] EXCEPT !.handle = "tmp", !.at = "write"])
    /\ UNCHANGED <<file, answer>>

\* The text goes to the start of the opened file, whatever its name is by now.
Write(a) ==
    /\ call[a].at = "write"
    /\ LET h == call[a].handle  d == call[a].doc IN
         /\ tmp' = IF h = "tmp" THEN WrittenOver(tmp, d) ELSE tmp
         /\ file' = IF h = "file" THEN WrittenOver(file, d) ELSE file
    /\ Set(a, [call[a] EXCEPT !.handle = "closed", !.at = "replace"])
    /\ UNCHANGED answer

\* What a replace makes of the other writers' open files.
Renamed(h) == CASE h = "tmp" -> "file" [] h = "file" -> "replaced" [] OTHER -> h

\* chmod and replace raise if another writer's replace took the name away.
Replace(a) ==
    /\ call[a].at = "replace"
    /\ \/ /\ tmp # None
          /\ file' = tmp /\ tmp' = None
          /\ call' = [b \in Actors |->
                IF b = a THEN [call[a] EXCEPT !.then = "answer", !.at = call[a].then]
                         ELSE [call[b] EXCEPT !.handle = Renamed(@)]]
          /\ UNCHANGED answer
       \/ tmp = None /\ Raise(a) /\ UNCHANGED disk

-----------------------------------------------------------------------------
(* decision() and decide() *)

\* decision(): load, and expire what is still pending after the deadline.
\* Mutation: a request never expires.
CheckForever(a, here, next) ==
    /\ call[a].at = here
    /\ \/ /\ Readable
          /\ Set(a, [call[a] EXCEPT !.doc = file.text, !.at = next])
          /\ UNCHANGED answer
       \/ ~Readable /\ Raise(a)
    /\ UNCHANGED disk
Check(a, here, next) ==
    /\ call[a].at = here
    /\ \/ /\ Readable /\ file.text.status = "pending" /\ late
          /\ Save(a, [file.text EXCEPT !.status = "expired"], next)
          /\ UNCHANGED answer
       \/ /\ Readable /\ ~(file.text.status = "pending" /\ late)
          /\ Set(a, [call[a] EXCEPT !.doc = file.text, !.at = next])
          /\ UNCHANGED answer
       \/ ~Readable /\ Raise(a)
    /\ UNCHANGED disk

\* decide() keeps a final status, and refuses a wrong token.
\* Mutation: the token is not compared.
JudgeAnyToken(a) ==
    /\ call[a].at = "judge"
    /\ \/ call[a].doc.status \in Final /\ Finish(a, call[a].doc.status)
       \/ call[a].doc.status \notin Final /\ Goto(a, "reload") /\ UNCHANGED answer
    /\ UNCHANGED disk
\* Mutation: the last decision wins.
JudgeLastWins(a) ==
    /\ call[a].at = "judge"
    /\ IF call[a].token THEN Goto(a, "reload") /\ UNCHANGED answer ELSE Finish(a, "error")
    /\ UNCHANGED disk
Judge(a) ==
    /\ call[a].at = "judge"
    /\ LET s == call[a].doc.status IN
         \/ s \in Final /\ Finish(a, s)
         \/ s \notin Final /\ ~call[a].token /\ Finish(a, "error")
         \/ s \notin Final /\ call[a].token /\ Goto(a, "reload") /\ UNCHANGED answer
    /\ UNCHANGED disk

\* The file is loaded again, not checked again, and saved with the decision.
Reload(a) ==
    /\ call[a].at = "reload"
    /\ \/ /\ Readable
          /\ Save(a, [file.text EXCEPT !.status = call[a].op], "recheck")
          /\ UNCHANGED answer
       \/ ~Readable /\ Raise(a)
    /\ UNCHANGED disk

\* The call returns the status it saw; the requester sleeps and polls on.
Answer(a) ==
    /\ call[a].at = "answer"
    /\ IF a = Requester /\ call[a].doc.status \notin Final
         THEN Set(a, Blank("recheck")) /\ UNCHANGED answer
         ELSE Finish(a, call[a].doc.status)
    /\ UNCHANGED disk

Proceed(a) ==
    /\ \/ Check(a, "check", "judge") \/ Judge(a) \/ Reload(a)
       \/ Check(a, "recheck", "answer") \/ Answer(a)
       \/ Open(a) \/ Write(a) \/ Replace(a)
    /\ UNCHANGED <<late, shown, pressed>>

-----------------------------------------------------------------------------
(* request_and_wait() up to its polling loop *)

\* There is no notification command; or it is run, and may show the buttons
\* even if it fails or times out.
Notify(a) ==
    /\ call[a].at = "notify"
    /\ \/ Set(a, Blank("fallback")) /\ shown' \in BOOLEAN
       \/ Set(a, Blank("set_notification")) /\ shown' = TRUE
    /\ UNCHANGED <<disk, answer>>

\* _set_channel: the second half of a load and save.
SetChannel(a, here, channel, next) ==
    /\ call[a].at = here
    /\ \/ /\ Readable
          /\ Save(a, [file.text EXCEPT !.channel = channel], next)
          /\ UNCHANGED answer
       \/ /\ ~Readable
          /\ IF next = "fallback" THEN Set(a, Blank("fallback")) /\ UNCHANGED answer
                                  ELSE Finish(a, "error")
    /\ UNCHANGED <<disk, shown>>

\* Without a notification on record the local page is the way, if the phone
\* can open one.
Fallback(a) ==
    /\ call[a].at = "fallback"
    /\ LET notified == Readable /\ file.text.channel = "notification" IN
         \/ notified /\ Set(a, Blank("recheck")) /\ UNCHANGED answer
         \/ Readable /\ ~notified /\ Set(a, Blank("set_browser")) /\ UNCHANGED answer
         \/ ~notified /\ Finish(a, "error")
    /\ UNCHANGED <<disk, shown>>

\* _start_browser_gate serves the page; the call raises if "am" cannot open it.
OpenBrowser(a) ==
    /\ call[a].at = "browser"
    /\ \/ Set(a, Blank("recheck")) /\ shown' = TRUE /\ UNCHANGED answer
       \/ Finish(a, "error") /\ UNCHANGED shown
    /\ UNCHANGED disk

Setup(a) ==
    /\ a = Requester
    /\ \/ Notify(a) \/ Fallback(a) \/ OpenBrowser(a)
       \/ SetChannel(a, "set_notification", "notification", "fallback")
       \/ SetChannel(a, "set_browser", "browser", "browser")
    /\ UNCHANGED <<late, pressed>>

-----------------------------------------------------------------------------
\* Somebody presses a button, or runs the decide or the status command.
\* Mutation: the status command goes the way of decide.
BeginStatusDecides(c) ==
    /\ c \in Callers /\ call[c].at = "idle" /\ shown
    /\ Set(c, Blank("check"))
    /\ UNCHANGED <<disk, late, shown, answer, pressed>>
Begin(c) ==
    /\ c \in Callers /\ call[c].at = "idle" /\ shown
    /\ \/ Set(c, Blank("recheck")) /\ UNCHANGED pressed
       \/ \E what \in Press, right \in BOOLEAN :
            /\ Set(c, [Blank("check") EXCEPT !.op = what, !.token = right])
            /\ pressed' = IF right THEN pressed \union {what} ELSE pressed
    /\ UNCHANGED <<disk, late, shown, answer>>

Resting(a) ==
    \/ call[a].at \in {"idle", "done", "dead"}
    \/ a = Requester /\ call[a].at = "recheck"

Move(a) ==
    /\ Proceed(a) \/ Setup(a) \/ Begin(a)
    /\ overlapped' = (overlapped \/ \E b \in Actors \ {a} : ~Resting(b))

Deadline ==
    /\ ~late /\ late' = TRUE
    /\ UNCHANGED <<disk, shown, call, answer, pressed, overlapped>>

\* Android ends a process; its temporary file stays.
Die(a) ==
    /\ call[a].at \notin {"idle", "done", "dead"}
    /\ Set(a, Blank("dead"))
    /\ UNCHANGED <<disk, late, shown, answer, pressed, overlapped>>

Next == (\E a \in Actors : Move(a) \/ Die(a)) \/ Deadline

Spec == Init /\ [][Next]_vars

\* request_and_wait() runs on, and the deadline comes.
FairSpec == Spec /\ WF_vars(Move(Requester)) /\ WF_vars(Deadline)

-----------------------------------------------------------------------------
(* Properties *)

\* Whatever overlaps, no call answers "approved" or "rejected" unless somebody
\* with the token pressed just that, nor "expired" before the deadline.
Founded(s) == (s \in Press => s \in pressed) /\ (s = "expired" => late)
AnswersFounded == \A a \in Actors : Founded(answer[a])

\* A request is decided once: calls that do not overlap in time never give two
\* different final answers, whoever died in the middle of one.
AnswersAgree ==
    ~overlapped => \A a, b \in Actors :
        answer[a] \in Final /\ answer[b] \in Final => answer[a] = answer[b]

\* Without overlapping calls the request file can be read at every moment,
\* also after a writer died between any two steps.
FileReadable == ~overlapped => Readable

\* request_and_wait() comes to an end: an answer, an exception or death.
RequesterEnds == <>(call[Requester].at \in {"done", "dead"})

(* The inductive strengthening of AnswersFounded, for the proofs *)

\* Only decide() judges and writes a decision, and only one it was given; a
\* file is open between its opening and its writing.
Orderly(c) ==
    /\ c.at \in {"check", "judge", "reload"} \/ c.then = "judge" => c.op \in Press
    /\ c.then \notin {"check", "reload", "write", "replace"}
    /\ c.handle # "closed" => c.at = "write"
OrderInv == \A a \in Actors : Orderly(call[a])
HandleInv == \A a \in Actors : call[a].handle = "tmp" => tmp # None

\* Every text on disk or in memory is founded, and a decision is written only
\* for a call that sent it with the right token.
FoundedCall(c) ==
    /\ Founded(c.doc.status)
    /\ c.op \in Press /\ c.token => c.op \in pressed
    /\ c.at = "reload" => c.token
FoundedInv ==
    /\ Founded(file.text.status)
    /\ tmp # None => Founded(tmp.text.status)
    /\ \A a \in Actors : FoundedCall(call[a]) /\ Founded(answer[a])

\* A call that nobody moves in the middle of knows the status on file, and what
\* its temporary file holds.
Alone(c) ==
    /\ c.at \in {"judge", "answer"} => c.doc.status = file.text.status
    /\ c.at = "reload" => file.text.status \notin Final
    /\ c.at \in {"open", "write", "replace"} /\ file.text.status \in Final
         => c.doc.status = file.text.status
    /\ c.at = "write" => c.handle = "tmp" /\ tmp = Empty
    /\ c.at = "replace" => tmp = Whole(c.doc)
SoloInv ==
    ~overlapped =>
        /\ \A a, b \in Actors : a # b => Resting(a) \/ Resting(b)
        /\ Readable
        /\ \A a \in Actors : answer[a] \in Final => answer[a] = file.text.status
        /\ \A a \in Actors : Alone(call[a])
=============================================================================
