----------------------- MODULE PermissionBroker_proofs -----------------------
(***************************************************************************)
(* Proofs about PermissionBroker, for any number of callers and however     *)
(* their loads and writes interleave: the types of its variables, that no   *)
(* call answers a decision nobody with the token sent, and what calls that  *)
(* do not overlap in time may rely on.                                      *)
(***************************************************************************)
EXTENDS PermissionBroker, TLAPS

(* Type correctness *)

\* The texts the actions save are documents, with a length.
LEMMA Documents ==
    /\ Asked \in Doc
    /\ \A d \in Doc : Length(d) \in Nat
    /\ \A d \in Doc, s \in Status : [d EXCEPT !.status = s] \in Doc
    /\ \A d \in Doc, c \in Channel : [d EXCEPT !.channel = c] \in Doc
BY DEF Doc, Asked, Length, Status, Final, Press, Channel

\* So are the files they make.
LEMMA Files ==
    /\ Empty \in File
    /\ Whole(Asked) \in File
    /\ \A f \in File, d \in Doc : WrittenOver(f, d) \in File
BY Documents DEF Empty, Whole, WrittenOver, File

\* A blank call is a call, and no decider unless it starts to check.
LEMMA Blanks ==
    \A l \in Control : /\ Blank(l) \in Call
                       /\ l \notin {"check", "judge", "reload"} => Orderly(Blank(l))
BY Documents DEF Blank, Call, Control, Handle, Orderly

CallsOK   == call \in [Actors -> Call] /\ \A a \in Actors : Orderly(call[a])
AnswersOK == answer \in [Actors -> Status \union {None, "error"}]

\* A step that only replaces a's call by a well-formed one.
LEMMA SetKeeps ==
    ASSUME CallsOK, NEW a \in Actors, NEW c \in Call, Orderly(c), Set(a, c)
    PROVE  CallsOK'
BY DEF Set, CallsOK, OrderInv

\* The ends of a call.
LEMMA EndKeeps ==
    ASSUME CallsOK, AnswersOK, NEW a \in Actors
    PROVE  /\ \A r \in Status \union {"error"} : Finish(a, r) => CallsOK' /\ AnswersOK'
           /\ Raise(a) => CallsOK' /\ AnswersOK'
<1>1. "done" \in Control /\ "fallback" \in Control
  BY DEF Control
<1>2. ASSUME NEW r \in Status \union {"error"}, Finish(a, r) PROVE CallsOK' /\ AnswersOK'
  BY <1>1, <1>2, SetKeeps, Blanks DEF Finish, AnswersOK
<1>3. ASSUME Raise(a) PROVE CallsOK' /\ AnswersOK'
  BY <1>1, <1>2, <1>3, SetKeeps, Blanks DEF Raise, AnswersOK
<1> QED
  BY <1>2, <1>3

\* The load of decision(), with or without the expiry.
LEMMA CheckKeeps ==
    ASSUME TypeOK, OrderInv, NEW a \in Actors,
           NEW here \in {"check", "recheck"}, NEW next \in {"judge", "answer"},
           next = "judge" => here = "check",
           Check(a, here, next)
    PROVE  CallsOK' /\ AnswersOK'
<1>1. file.text \in Doc /\ CallsOK /\ AnswersOK /\ call[a] \in Call
  BY DEF TypeOK, OrderInv, File, CallsOK, AnswersOK
<1>2. Orderly(call[a]) /\ call[a].at = here
  BY DEF OrderInv, Check
<1>3. CASE ~Readable
  BY <1>1, <1>3, EndKeeps DEF Check
<1>4. CASE Readable /\ ~(file.text.status = "pending" /\ late)
  <2>1. [call[a] EXCEPT !.doc = file.text, !.at = next] \in Call
    BY <1>1 DEF Call, Control
  <2>2. Orderly([call[a] EXCEPT !.doc = file.text, !.at = next])
    BY <1>1, <1>2 DEF Call, Orderly
  <2> QED
    BY <1>1, <1>4, <2>1, <2>2, SetKeeps DEF Check, AnswersOK
<1>5. CASE Readable /\ file.text.status = "pending" /\ late
  <2> DEFINE d == [file.text EXCEPT !.status = "expired"]
  <2>1. d \in Doc
    BY <1>1, Documents DEF Status, Final
  <2>2. [call[a] EXCEPT !.doc = d, !.then = next, !.at = "open"] \in Call
    BY <1>1, <2>1 DEF Call, Control
  <2>3. Orderly([call[a] EXCEPT !.doc = d, !.then = next, !.at = "open"])
    BY <1>1, <1>2 DEF Call, Orderly
  <2> HIDE DEF d
  <2>4. Save(a, d, next) /\ UNCHANGED answer
    BY <1>5, <1>2 DEF Check, d
  <2> QED
    BY <1>1, <2>2, <2>3, <2>4, SetKeeps DEF Save, AnswersOK
<1> QED
  BY <1>3, <1>4, <1>5

\* The writes of _atomic_json keep the types of files and calls.
LEMMA WriteKeeps ==
    ASSUME TypeOK, OrderInv, HandleInv, NEW a \in Actors, Open(a) \/ Write(a) \/ Replace(a)
    PROVE  CallsOK' /\ AnswersOK' /\ file' \in File /\ tmp' \in File \union {None}
<1>1. CallsOK /\ AnswersOK /\ call[a] \in Call /\ Orderly(call[a])
  BY DEF TypeOK, CallsOK, AnswersOK, OrderInv
<1>2. CASE Open(a)
  <2>1. [call[a] EXCEPT !.handle = "tmp", !.at = "write"] \in Call
    BY <1>1 DEF Call, Handle, Control
  <2>2. Orderly([call[a] EXCEPT !.handle = "tmp", !.at = "write"])
    BY <1>1 DEF Call, Orderly
  <2> QED
    BY <1>1, <1>2, <2>1, <2>2, SetKeeps, Files DEF Open, TypeOK, AnswersOK
<1>3. CASE Write(a)
  <2>1. [call[a] EXCEPT !.handle = "closed", !.at = "replace"] \in Call
    BY <1>1 DEF Call, Handle, Control
  <2>2. Orderly([call[a] EXCEPT !.handle = "closed", !.at = "replace"])
    BY <1>1 DEF Call, Orderly
  <2>3. call[a].doc \in Doc
    BY <1>1 DEF Call
  <2>4. WrittenOver(file, call[a].doc) \in File
    BY <2>3, Files DEF TypeOK
  <2>5. tmp = None \/ WrittenOver(tmp, call[a].doc) \in File
    BY <2>3, Files DEF TypeOK
  <2>6. CallsOK' /\ AnswersOK' /\ file' \in File
    BY <1>1, <1>3, <2>1, <2>2, <2>4, SetKeeps DEF Write, TypeOK, AnswersOK
  <2>7. tmp' \in File \union {None}
    BY <1>3, <2>5 DEF Write, TypeOK, HandleInv
  <2> QED
    BY <2>6, <2>7
<1>4. CASE Replace(a)
  <2>1. CASE tmp = None
    <3>1. Raise(a) /\ file' = file /\ tmp' = tmp
      BY <1>4, <2>1 DEF Replace, disk
    <3>2. CallsOK' /\ AnswersOK'
      BY <1>1, <3>1, EndKeeps
    <3> QED
      BY <3>1, <3>2 DEF TypeOK
  <2>2. CASE tmp # None
    <3>1. file' \in File /\ tmp' = None /\ AnswersOK'
      BY <1>1, <1>4, <2>2 DEF Replace, TypeOK, AnswersOK
    <3>2. [call[a] EXCEPT !.then = "answer", !.at = call[a].then] \in Call
      BY <1>1 DEF Call, Control
    <3>3. Orderly([call[a] EXCEPT !.then = "answer", !.at = call[a].then])
      BY <1>1, <1>4 DEF Replace, Call, Orderly
    <3>4. ASSUME NEW b \in Actors
          PROVE  /\ [call[b] EXCEPT !.handle = Renamed(@)] \in Call
                 /\ Orderly([call[b] EXCEPT !.handle = Renamed(@)])
      BY DEF TypeOK, Call, Handle, Renamed, OrderInv, Orderly
    <3>5. call' = [b \in Actors |->
                IF b = a THEN [call[a] EXCEPT !.then = "answer", !.at = call[a].then]
                         ELSE [call[b] EXCEPT !.handle = Renamed(@)]]
      BY <1>4, <2>2 DEF Replace
    <3> QED
      BY <3>1, <3>2, <3>3, <3>4, <3>5 DEF CallsOK, OrderInv
  <2> QED
    BY <2>1, <2>2
<1> QED
  BY <1>2, <1>3, <1>4

\* Where a call saves, and where its save goes on.
LEMMA SavePlaces == {"open", "recheck", "fallback", "browser"} \subseteq Control
  BY DEF Control

\* Every step keeps the types of the variables and who may decide.
LEMMA TypeStep == TypeOK /\ OrderInv /\ HandleInv /\ [Next]_vars => TypeOK' /\ OrderInv'
<1> SUFFICES ASSUME TypeOK, OrderInv, HandleInv, [Next]_vars PROVE TypeOK' /\ OrderInv'
  OBVIOUS
<1>0. /\ CallsOK /\ AnswersOK
      /\ \A a \in Actors : call[a] \in Call /\ Orderly(call[a])
      /\ \A a \in Actors : call[a].doc \in Doc /\ call[a].doc.status \in Status
      /\ file.text \in Doc
  BY DEF TypeOK, CallsOK, AnswersOK, OrderInv, Call, Doc, File
<1>1. /\ {"dead", "check", "judge", "reload", "recheck", "answer", "notify",
          "set_notification", "fallback", "set_browser", "browser"} \subseteq Control
  BY DEF Control
<1>2. ASSUME NEW a \in Actors, Move(a) PROVE TypeOK' /\ OrderInv'
  <2> USE DEF TypeOK, OrderInv, CallsOK, AnswersOK
  <2>0. overlapped' \in BOOLEAN
    BY <1>2 DEF Move
  <2>1. CASE Proceed(a)
    <3> SUFFICES CallsOK' /\ AnswersOK' /\ file' \in File /\ tmp' \in File \union {None}
      BY <2>0, <2>1 DEF Proceed
    <3>1. CASE Check(a, "check", "judge")
      <4>1. CallsOK' /\ AnswersOK'
        BY <3>1, CheckKeeps
      <4> QED
        BY <3>1, <4>1 DEF Check, disk
    <3>2. CASE Check(a, "recheck", "answer")
      <4>1. CallsOK' /\ AnswersOK'
        BY <3>2, CheckKeeps
      <4> QED
        BY <3>2, <4>1 DEF Check, disk
    <3>3. CASE Judge(a)
      <4>1. CASE call[a].doc.status \in Final \/ ~call[a].token
        BY <1>0, <3>3, <4>1, EndKeeps DEF Judge, disk, Status
      <4>2. CASE call[a].doc.status \notin Final /\ call[a].token
        <5>1. [call[a] EXCEPT !.at = "reload"] \in Call
          BY <1>0, <1>1 DEF Call
        <5>2. Orderly([call[a] EXCEPT !.at = "reload"])
          BY <1>0, <3>3 DEF Judge, Orderly, Call
        <5> QED
          BY <1>0, <3>3, <4>2, <5>1, <5>2, SetKeeps DEF Judge, Goto, disk
      <4> QED
        BY <4>1, <4>2
    <3>4. CASE Reload(a)
      <4>1. CASE Readable
        <5> DEFINE d == [file.text EXCEPT !.status = call[a].op]
        <5>1. call[a].op \in Status
          BY <1>0, <3>4 DEF Reload, Orderly, Status, Final
        <5>2. d \in Doc
          BY <1>0, <5>1, Documents
        <5> HIDE DEF d
        <5>3. [call[a] EXCEPT !.doc = d, !.then = "recheck", !.at = "open"] \in Call
          BY <1>0, <5>2, SavePlaces DEF Call
        <5>4. Orderly([call[a] EXCEPT !.doc = d, !.then = "recheck", !.at = "open"])
          BY <1>0, <3>4 DEF Reload, Call, Orderly
        <5>5. Save(a, d, "recheck") /\ UNCHANGED answer
          BY <3>4, <4>1 DEF Reload, d
        <5> QED
          BY <1>0, <3>4, <5>3, <5>4, <5>5, SetKeeps DEF Reload, Save, disk
      <4>2. CASE ~Readable
        BY <1>0, <3>4, <4>2, EndKeeps DEF Reload, disk
      <4> QED
        BY <4>1, <4>2
    <3>5. CASE Answer(a)
      BY <1>0, <1>1, <3>5, EndKeeps, SetKeeps, Blanks DEF Answer, disk
    <3>6. CASE Open(a) \/ Write(a) \/ Replace(a)
      BY <3>6, WriteKeeps
    <3> QED
      BY <2>1, <3>1, <3>2, <3>3, <3>4, <3>5, <3>6 DEF Proceed
  <2>2. CASE Setup(a)
    <3> SUFFICES CallsOK' /\ AnswersOK' /\ shown' \in BOOLEAN /\ UNCHANGED disk
      BY <2>0, <2>2 DEF Setup, disk
    <3>1. CASE Notify(a)
      BY <1>0, <1>1, <3>1, SetKeeps, Blanks DEF Notify, disk
    <3>2. CASE Fallback(a)
      BY <1>0, <1>1, <3>2, SetKeeps, EndKeeps, Blanks DEF Fallback, disk
    <3>3. CASE OpenBrowser(a)
      BY <1>0, <1>1, <3>3, SetKeeps, EndKeeps, Blanks DEF OpenBrowser, disk
    <3>4. ASSUME NEW here \in {"set_notification", "set_browser"}, NEW channel \in Channel, NEW next \in {"fallback", "browser"},
                 SetChannel(a, here, channel, next)
          PROVE  CallsOK' /\ AnswersOK' /\ shown' \in BOOLEAN /\ UNCHANGED disk
      <4> DEFINE d == [file.text EXCEPT !.channel = channel]
      <4>1. d \in Doc
        BY <1>0, Documents
      <4> HIDE DEF d
      <4>2. [call[a] EXCEPT !.doc = d, !.then = next, !.at = "open"] \in Call
        BY <1>0, <4>1, SavePlaces DEF Call
      <4>3. Orderly([call[a] EXCEPT !.doc = d, !.then = next, !.at = "open"])
        BY <1>0, <3>4 DEF SetChannel, Call, Orderly
      <4>4. Readable => Save(a, d, next) /\ UNCHANGED answer
        BY <3>4 DEF SetChannel, d
      <4>5. CASE Readable
        BY <1>0, <3>4, <4>2, <4>3, <4>4, <4>5, SetKeeps DEF SetChannel, Save, disk
      <4>6. CASE ~Readable
        BY <1>0, <1>1, <3>4, <4>6, SetKeeps, EndKeeps, Blanks DEF SetChannel, disk
      <4> QED
        BY <4>5, <4>6
    <3> QED
      BY <2>2, <3>1, <3>2, <3>3, <3>4 DEF Setup, Channel
  <2>3. CASE Begin(a)
    <3>1. CASE Set(a, Blank("recheck"))
      BY <1>0, <1>1, <2>0, <2>3, <3>1, SetKeeps, Blanks DEF Begin, disk
    <3>2. ASSUME NEW what \in Press, NEW right \in BOOLEAN,
                 Set(a, [Blank("check") EXCEPT !.op = what, !.token = right])
          PROVE  CallsOK'
      <4>1. [Blank("check") EXCEPT !.op = what, !.token = right] \in Call
        BY <1>1, Documents DEF Blank, Call, Handle
      <4>2. Orderly([Blank("check") EXCEPT !.op = what, !.token = right])
        BY DEF Orderly, Blank
      <4> QED
        BY <1>0, <3>2, <4>1, <4>2, SetKeeps
    <3> QED
      BY <1>0, <2>0, <2>3, <3>1, <3>2 DEF Begin, disk
  <2> QED
    BY <1>2, <2>1, <2>2, <2>3 DEF Move
<1>3. ASSUME NEW a \in Actors, Die(a) PROVE TypeOK' /\ OrderInv'
  BY <1>0, <1>1, <1>3, SetKeeps, Blanks DEF Die, disk, TypeOK, OrderInv, CallsOK
<1>4. CASE Deadline
  BY <1>4 DEF Deadline, disk, TypeOK, OrderInv
<1>5. CASE UNCHANGED vars
  BY <1>5 DEF vars, disk, TypeOK, OrderInv
<1> QED
  BY <1>2, <1>3, <1>4, <1>5 DEF Next

\* Only an open gives a call a file, so one it has open under the temporary
\* name is there: a replace renames it in every call at once.
LEMMA HandleStep == TypeOK /\ OrderInv /\ HandleInv /\ [Next]_vars => HandleInv'
<1> SUFFICES ASSUME TypeOK, OrderInv, HandleInv, [Next]_vars PROVE HandleInv'
  OBVIOUS
<1>0. /\ \A a \in Actors : Orderly(call[a])' /\ call'[a] \in Call
      /\ \A a \in Actors : Orderly(call[a]) /\ call[a] \in Call
  BY TypeStep DEF TypeOK, OrderInv
<1>1. ASSUME NEW a \in Actors, NEW c, Set(a, c), c.at # "write", UNCHANGED tmp PROVE HandleInv'
  BY <1>0, <1>1 DEF Set, HandleInv, TypeOK, Orderly
<1>2. ASSUME NEW a \in Actors, NEW r, Finish(a, r) \/ Raise(a), UNCHANGED tmp PROVE HandleInv'
  BY <1>1, <1>2 DEF Finish, Raise, Blank
<1>3. ASSUME NEW a \in Actors, NEW d, NEW l, Save(a, d, l), UNCHANGED tmp PROVE HandleInv'
  <2>1. [call[a] EXCEPT !.doc = d, !.then = l, !.at = "open"].at # "write"
    BY <1>0 DEF Call
  <2> QED
    BY <1>1, <1>3, <2>1 DEF Save
<1>4. ASSUME NEW a \in Actors, NEW here, NEW next \in {"judge", "answer"}, Check(a, here, next)
      PROVE HandleInv'
  <2>1. [call[a] EXCEPT !.doc = file.text, !.at = next].at # "write"
    BY <1>0 DEF Call
  <2> QED
    BY <1>1, <1>2, <1>3, <1>4, <2>1 DEF Check, disk
<1>5. ASSUME NEW a \in Actors, Judge(a) PROVE HandleInv'
  <2>1. [call[a] EXCEPT !.at = "reload"].at # "write"
    BY <1>0 DEF Call
  <2> QED
    BY <1>1, <1>2, <1>5, <2>1 DEF Judge, Goto, disk
<1>6. ASSUME NEW a \in Actors, Reload(a) PROVE HandleInv'
  BY <1>2, <1>3, <1>6 DEF Reload, disk
<1>7. ASSUME NEW a \in Actors, Answer(a) PROVE HandleInv'
  BY <1>1, <1>2, <1>7 DEF Answer, Blank, disk
<1>8. ASSUME NEW a \in Actors, Open(a) PROVE HandleInv'
  <2>1. tmp' # None
    BY <1>8, Files, BrokerAssumption DEF Open
  <2> QED
    BY <2>1 DEF HandleInv
<1>9. ASSUME NEW a \in Actors, Write(a) PROVE HandleInv'
  <2>1. /\ \A b \in Actors : call'[b].handle = "tmp" => call[b].handle = "tmp" /\ b # a
    BY <1>0, <1>9 DEF Write, Set, TypeOK, Call
  <2>2. tmp # None => tmp' # None
    <3>1. tmp # None => WrittenOver(tmp, call[a].doc) \in File
      BY <1>0, Files DEF TypeOK, Call
    <3> QED
      BY <1>9, <3>1, BrokerAssumption DEF Write
  <2> QED
    BY <2>1, <2>2 DEF HandleInv
<1>10. ASSUME NEW a \in Actors, Replace(a) PROVE HandleInv'
  <2>1. CASE tmp = None
    BY <1>2, <1>10, <2>1 DEF Replace, disk
  <2>2. CASE tmp # None
    <3>1. ASSUME NEW b \in Actors, b # a PROVE call'[b].handle # "tmp"
      BY <1>0, <1>10, <2>2, <3>1 DEF Replace, Renamed, Call
    <3>2. call'[a].handle # "tmp"
      BY <1>0, <1>10, <2>2 DEF Replace, Orderly, Call
    <3> QED
      BY <3>1, <3>2 DEF HandleInv
  <2> QED
    BY <2>1, <2>2
<1>11. ASSUME NEW a \in Actors, Setup(a) PROVE HandleInv'
  BY <1>1, <1>2, <1>3, <1>11
     DEF Setup, Notify, Fallback, OpenBrowser, SetChannel, Blank, disk
<1>12. ASSUME NEW a \in Actors, Begin(a) PROVE HandleInv'
  <2>1. ASSUME NEW what, NEW right
        PROVE [Blank("check") EXCEPT !.op = what, !.token = right].at # "write"
    BY DEF Blank
  <2> QED
    BY <1>1, <1>12, <2>1 DEF Begin, Blank, disk
<1>13. ASSUME NEW a \in Actors, Die(a) PROVE HandleInv'
  BY <1>1, <1>13 DEF Die, Blank, disk
<1>14. CASE Deadline \/ UNCHANGED vars
  BY <1>14 DEF Deadline, vars, disk, HandleInv
<1> QED
  BY <1>4, <1>5, <1>6, <1>7, <1>8, <1>9, <1>10, <1>11, <1>12, <1>13, <1>14
     DEF Next, Move, Proceed

\* The broker's variables keep their types, and only decide() decides.
THEOREM TypeCorrect == Spec => [](TypeOK /\ OrderInv /\ HandleInv)
<1>1. Init => TypeOK /\ OrderInv /\ HandleInv
  <2> SUFFICES ASSUME Init PROVE TypeOK /\ OrderInv /\ HandleInv
    OBVIOUS
  <2>1. \A a \in Actors : call[a] \in Call /\ Orderly(call[a]) /\ call[a].handle # "tmp"
    BY Blanks DEF Init, Control, Blank
  <2> QED
    BY <2>1, Files DEF Init, TypeOK, OrderInv, HandleInv
<1> QED
  BY <1>1, TypeStep, HandleStep, PTL DEF Spec

(* Answers are founded *)

\* A blank call holds nothing but the pending request.
LEMMA FoundedBlank == \A l : l # "reload" => FoundedCall(Blank(l))
BY DEF FoundedCall, Founded, Blank, Asked, Press

FoundedCalls == \A a \in Actors : FoundedCall(call[a]) /\ Founded(answer[a])

\* Every step keeps texts, memories and answers founded.
LEMMA FoundedStep == TypeOK /\ OrderInv /\ HandleInv /\ FoundedInv /\ [Next]_vars => FoundedInv'
<1> SUFFICES ASSUME TypeOK, OrderInv, HandleInv, FoundedInv, [Next]_vars PROVE FoundedInv'
  OBVIOUS
<1>0. /\ late => late'
      /\ pressed \subseteq pressed'
  <2>1. ASSUME NEW a \in Actors, Proceed(a) \/ Setup(a) \/ Die(a)
        PROVE late' = late /\ pressed' = pressed
    BY <2>1 DEF Proceed, Setup, Die
  <2>2. ASSUME NEW a \in Actors, Begin(a) PROVE late' = late /\ pressed \subseteq pressed'
    BY <2>2 DEF Begin
  <2>3. CASE Deadline \/ UNCHANGED vars
    BY <2>3 DEF Deadline, vars
  <2> QED
    BY <2>1, <2>2, <2>3 DEF Next, Move
\* What was sent stays sent, and the deadline does not come back.
<1>1. /\ \A s : Founded(s) => Founded(s)'
      /\ \A c : FoundedCall(c) => FoundedCall(c)'
  BY <1>0 DEF Founded, FoundedCall
<1>2. /\ FoundedCalls /\ Founded(file.text.status)
      /\ call \in [Actors -> Call] /\ file \in File /\ file.text \in Doc
      /\ answer \in [Actors -> Status \union {None, "error"}]
      /\ \A a \in Actors : call[a] \in Call /\ Orderly(call[a])
  BY DEF FoundedInv, FoundedCalls, TypeOK, File, OrderInv
<1>3. ASSUME FoundedCalls', file' = file, tmp' = tmp PROVE FoundedInv'
  BY <1>1, <1>3 DEF FoundedInv, FoundedCalls
<1>4. ASSUME NEW a \in Actors, NEW c, Set(a, c), FoundedCall(c)', UNCHANGED answer
      PROVE FoundedCalls'
  BY <1>1, <1>2, <1>4 DEF Set, FoundedCalls
<1>5. ASSUME NEW a \in Actors, NEW r \in Status \union {"error"}, Finish(a, r), Founded(r)
      PROVE FoundedCalls'
  BY <1>1, <1>2, <1>5, FoundedBlank DEF Finish, Set, FoundedCalls
<1>6. ASSUME NEW a \in Actors, Raise(a) PROVE FoundedCalls'
  <2>1. Founded("error") /\ FoundedCall(Blank("fallback"))
    BY FoundedBlank DEF Founded, Press
  <2> QED
    BY <1>1, <1>4, <1>5, <1>6, <2>1 DEF Raise
<1>7. ASSUME NEW a \in Actors, NEW d \in Doc, NEW l, Save(a, d, l), Founded(d.status),
             UNCHANGED answer
      PROVE FoundedCalls'
  <2>1. FoundedCall([call[a] EXCEPT !.doc = d, !.then = l, !.at = "open"])
    BY <1>2, <1>7 DEF FoundedCall, FoundedCalls, Call
  <2> QED
    BY <1>1, <1>4, <1>7, <2>1 DEF Save
<1>8. ASSUME NEW a \in Actors, NEW next \in {"judge", "answer"}, NEW here, Check(a, here, next)
      PROVE FoundedCalls'
  <2>1. FoundedCall([call[a] EXCEPT !.doc = file.text, !.at = next])
    BY <1>2 DEF FoundedCall, FoundedCalls, Call
  <2>2. ASSUME late
        PROVE  /\ [file.text EXCEPT !.status = "expired"] \in Doc
               /\ Founded([file.text EXCEPT !.status = "expired"].status)
    BY <1>2, <2>2 DEF Founded, Doc, Status, Final, Press
  <2> QED
    BY <1>1, <1>4, <1>6, <1>7, <1>8, <2>1, <2>2 DEF Check
<1>9. ASSUME NEW a \in Actors, Judge(a) PROVE FoundedCalls'
  <2>1. call[a].doc.status \in Status /\ Founded(call[a].doc.status) /\ Founded("error")
    BY <1>2 DEF FoundedCall, FoundedCalls, Call, Doc, Founded, Press
  <2>2. call[a].token => FoundedCall([call[a] EXCEPT !.at = "reload"])
    BY <1>2 DEF FoundedCall, FoundedCalls, Call
  <2> QED
    BY <1>1, <1>4, <1>5, <1>9, <2>1, <2>2 DEF Judge, Goto
<1>10. ASSUME NEW a \in Actors, Reload(a) PROVE FoundedCalls'
  <2>1. call[a].op \in Press /\ call[a].op \in pressed
    BY <1>2, <1>10 DEF Reload, FoundedCalls, FoundedCall, Orderly
  <2>2. /\ [file.text EXCEPT !.status = call[a].op] \in Doc
        /\ Founded([file.text EXCEPT !.status = call[a].op].status)
    BY <1>2, <2>1 DEF Founded, Doc, Status, Final, Press
  <2> QED
    BY <1>6, <1>7, <1>10, <2>2 DEF Reload
<1>11. ASSUME NEW a \in Actors, Answer(a) PROVE FoundedCalls'
  <2>1. call[a].doc.status \in Status /\ Founded(call[a].doc.status)
    BY <1>2 DEF FoundedCall, FoundedCalls, Call, Doc
  <2>2. FoundedCall(Blank("recheck"))
    BY FoundedBlank
  <2> QED
    BY <1>1, <1>4, <1>5, <1>11, <2>1, <2>2 DEF Answer
<1>12. ASSUME NEW a \in Actors, Open(a) PROVE FoundedInv'
  <2>1. FoundedCall([call[a] EXCEPT !.handle = "tmp", !.at = "write"])
    BY <1>2 DEF FoundedCall, FoundedCalls, Call
  <2>2. FoundedCalls'
    BY <1>1, <1>4, <1>12, <2>1 DEF Open
  <2>3. Founded(Empty.text.status)'
    BY DEF Founded, Empty, Asked, Press
  <2> QED
    BY <1>1, <1>2, <1>12, <2>2, <2>3 DEF Open, FoundedInv, FoundedCalls
<1>13. ASSUME NEW a \in Actors, Write(a) PROVE FoundedInv'
  <2>1. FoundedCall([call[a] EXCEPT !.handle = "closed", !.at = "replace"])
    BY <1>2 DEF FoundedCall, FoundedCalls, Call
  <2>2. FoundedCalls'
    BY <1>1, <1>4, <1>13, <2>1 DEF Write
  <2>3. \A s : s = call[a].doc.status => Founded(s)'
    BY <1>1, <1>2 DEF FoundedCalls, FoundedCall
  <2>4. \A f : WrittenOver(f, call[a].doc).text = call[a].doc
    BY DEF WrittenOver
  <2>5. Founded(file.text.status)'
    <3>1. file'.text \in {file.text, call[a].doc}
      BY <1>13, <2>4 DEF Write
    <3> QED
      BY <1>1, <1>2, <2>3, <3>1
  <2>6. (tmp # None => Founded(tmp.text.status))'
    <3>1. CASE tmp' = tmp
      BY <1>1, <3>1 DEF FoundedInv
    <3>2. CASE tmp'.text = call[a].doc
      BY <2>3, <3>2
    <3> QED
      BY <1>13, <2>4, <3>1, <3>2 DEF Write
  <2> QED
    BY <2>2, <2>5, <2>6 DEF FoundedInv, FoundedCalls
<1>14. ASSUME NEW a \in Actors, Replace(a) PROVE FoundedInv'
  <2>1. CASE tmp = None
    BY <1>3, <1>6, <1>14, <2>1, <1>2 DEF Replace, disk
  <2>2. CASE tmp # None
    <3>1. FoundedCall([call[a] EXCEPT !.then = "answer", !.at = call[a].then])
      BY <1>2, <1>14 DEF FoundedCall, FoundedCalls, Call, Orderly
    <3>2. ASSUME NEW b \in Actors
          PROVE FoundedCall([call[b] EXCEPT !.handle = Renamed(@)])
      BY <1>2 DEF FoundedCall, FoundedCalls, Call
    <3>3. FoundedCalls'
      BY <1>1, <1>2, <1>14, <2>2, <3>1, <3>2 DEF Replace, FoundedCalls
    <3>4. Founded(file.text.status)' /\ tmp' = None
      BY <1>1, <1>14, <2>2 DEF Replace, FoundedInv
    <3> QED
      BY <3>3, <3>4 DEF FoundedInv, FoundedCalls
  <2> QED
    BY <2>1, <2>2
<1>15. ASSUME NEW a \in Actors, Setup(a) PROVE FoundedCalls'
  <2>1. \A l \in {"fallback", "set_notification", "recheck", "set_browser"} : FoundedCall(Blank(l))'
    BY <1>1, FoundedBlank
  <2>2. Founded("error")
    BY DEF Founded, Press
  <2>3. ASSUME NEW here, NEW channel \in Channel, NEW next, SetChannel(a, here, channel, next)
        PROVE FoundedCalls'
    <3>1. /\ [file.text EXCEPT !.channel = channel] \in Doc
          /\ Founded([file.text EXCEPT !.channel = channel].status)
      BY <1>2 DEF Doc
    <3> QED
      BY <1>4, <1>5, <1>7, <2>1, <2>2, <2>3, <3>1 DEF SetChannel
  <2> QED
    BY <1>4, <1>5, <1>15, <2>1, <2>2, <2>3
       DEF Setup, Notify, Fallback, OpenBrowser, Channel
<1>16. ASSUME NEW a \in Actors, Begin(a) PROVE FoundedCalls'
  <2>1. CASE Set(a, Blank("recheck"))
    BY <1>1, <1>4, <1>16, <2>1, FoundedBlank DEF Begin
  <2>2. ASSUME NEW what \in Press, NEW right \in BOOLEAN,
               Set(a, [Blank("check") EXCEPT !.op = what, !.token = right]),
               pressed' = IF right THEN pressed \union {what} ELSE pressed
        PROVE FoundedCalls'
    <3>1. FoundedCall([Blank("check") EXCEPT !.op = what, !.token = right])'
      BY <2>2 DEF FoundedCall, Founded, Blank, Asked, Press
    <3> QED
      BY <1>4, <1>16, <2>2, <3>1 DEF Begin
  <2> QED
    BY <1>16, <2>1, <2>2 DEF Begin
<1>17. ASSUME NEW a \in Actors, Die(a) PROVE FoundedCalls'
  BY <1>1, <1>4, <1>17, FoundedBlank DEF Die
<1>18. CASE Deadline \/ UNCHANGED vars
  BY <1>1, <1>2, <1>18 DEF Deadline, vars, disk, FoundedInv, FoundedCalls
<1> QED
  <2>1. ASSUME NEW a \in Actors, Move(a) PROVE FoundedInv'
    <3>1. CASE Check(a, "check", "judge") \/ Check(a, "recheck", "answer")
      BY <3>1, <1>3, <1>8 DEF Check, disk
    <3>2. CASE Judge(a)
      BY <3>2, <1>3, <1>9 DEF Judge, disk
    <3>3. CASE Reload(a)
      BY <3>3, <1>3, <1>10 DEF Reload, disk
    <3>4. CASE Answer(a)
      BY <3>4, <1>3, <1>11 DEF Answer, disk
    <3>5. CASE Setup(a)
      <4>1. file' = file /\ tmp' = tmp
        BY <3>5 DEF Setup, Notify, Fallback, OpenBrowser, SetChannel, disk
      <4> QED
        BY <3>5, <4>1, <1>3, <1>15
    <3>6. CASE Begin(a)
      BY <3>6, <1>3, <1>16 DEF Begin, disk
    <3> QED
      BY <2>1, <3>1, <3>2, <3>3, <3>4, <3>5, <3>6, <1>12, <1>13, <1>14 DEF Move, Proceed
  <2>2. ASSUME NEW a \in Actors, Die(a) PROVE FoundedInv'
    BY <2>2, <1>2, <1>3, <1>17 DEF Die, disk
  <2> QED
    BY <1>18, <2>1, <2>2 DEF Next

\* However calls overlap, no answer is a decision nobody sent.
THEOREM NoUnsentDecision == Spec => []AnswersFounded
<1>1. Init => FoundedInv
  <2> SUFFICES ASSUME Init PROVE FoundedInv
    OBVIOUS
  <2>1. \A a \in Actors : FoundedCall(call[a]) /\ Founded(answer[a])
    BY FoundedBlank, BrokerAssumption DEF Init, Founded, Status, Final, Press
  <2> QED
    BY <2>1 DEF Init, FoundedInv, Founded, Whole, Asked, Press
<1>2. FoundedInv => AnswersFounded
  BY DEF FoundedInv, AnswersFounded
<1> QED
  BY <1>1, <1>2, FoundedStep, TypeCorrect, PTL DEF Spec

(* Calls that do not overlap *)

\* A step that nobody is moved in the middle of, judged by its own call alone.
LEMMA SoloMove ==
    ASSUME TypeOK, SoloInv, ~overlapped, NEW a \in Actors, \A b \in Actors \ {a} : Resting(b),
           \A b \in Actors \ {a} : call'[b].at = call[b].at,
           Readable', \A b \in Actors : answer'[b] \in Final => answer'[b] = file'.text.status,
           Alone(call[a])'
    PROVE  SoloInv'
<1>1. \A b \in Actors \ {a} : Resting(b)'
  BY DEF Resting
<1>2. \A b \in Actors \ {a} : Alone(call[b])'
  BY <1>1 DEF Resting, Alone
<1> QED
  BY <1>1, <1>2 DEF SoloInv

LEMMA Whence ==
    /\ \A d \in Doc : Length(d) > 0 /\ WrittenOver(Empty, d) = Whole(d)
    /\ \A d \in Doc : Whole(d) # None /\ Whole(d).text = d /\ Whole(d).size = Length(d)
    /\ Empty # None
<1>1. \A d \in Doc : Length(d) \in Nat /\ Length(d) > 0
  BY DEF Length
<1>2. \A d \in Doc : Whole(d) \in File
  BY <1>1 DEF Whole, File
<1> QED
  BY <1>1, <1>2, Files, BrokerAssumption DEF WrittenOver, Empty, Whole

LEMMA SoloStep ==
    ASSUME TypeOK, OrderInv, HandleInv, SoloInv, [Next]_vars
    PROVE  SoloInv'
<1>1. CASE overlapped'
  BY <1>1 DEF SoloInv
<1>2. CASE ~overlapped'
  <2>0. /\ ~overlapped /\ call \in [Actors -> Call] /\ file.text \in Doc
        /\ \A a \in Actors : call[a] \in Call /\ Orderly(call[a]) /\ call[a].doc \in Doc
        /\ answer \in [Actors -> Status \union {None, "error"}]
    <3>1. ~overlapped
      BY <1>2 DEF Next, Move, Die, Deadline, vars
    <3> QED
      BY <3>1 DEF TypeOK, OrderInv, Call, File
  <2>1. /\ Readable /\ \A a \in Actors : answer[a] \in Final => answer[a] = file.text.status
        /\ \A a \in Actors : Alone(call[a])
    BY <2>0 DEF SoloInv
  <2>2. ASSUME NEW a \in Actors, \A b \in Actors \ {a} : Resting(b), NEW c, Set(a, c),
               UNCHANGED <<file, answer>>, \A s : s = c => Alone(s)'
        PROVE  SoloInv'
    <3>1. call'[a] = c /\ \A b \in Actors \ {a} : call'[b].at = call[b].at
      BY <2>0, <2>2 DEF Set
    <3>2. Alone(call[a])'
      BY <2>2, <3>1
    <3>3. Readable' /\ \A b \in Actors : answer'[b] \in Final => answer'[b] = file'.text.status
      BY <2>1, <2>2 DEF Readable
    <3> QED
      BY <2>0, <2>2, <3>1, <3>2, <3>3, SoloMove
  <2>3. ASSUME NEW a \in Actors, \A b \in Actors \ {a} : Resting(b), NEW r, Finish(a, r), UNCHANGED disk,
               r \in Final => r = file.text.status
        PROVE  SoloInv'
    <3>1. call'[a] = Blank("done") /\ \A b \in Actors \ {a} : call'[b].at = call[b].at
      BY <2>0, <2>3 DEF Finish, Set
    <3>2. Alone(call[a])'
      BY <3>1 DEF Alone, Blank
    <3>3. Readable' /\ \A b \in Actors : answer'[b] \in Final => answer'[b] = file'.text.status
      BY <2>0, <2>1, <2>3 DEF Readable, Finish, disk
    <3> QED
      BY <2>0, <2>3, <3>1, <3>2, <3>3, SoloMove
  <2>4. \A l \in {"fallback", "set_notification", "set_browser", "recheck", "check", "dead", "browser"} :
          Alone(Blank(l))'
    BY DEF Alone, Blank
  <2>5. ASSUME NEW a \in Actors, \A b \in Actors \ {a} : Resting(b), Raise(a), UNCHANGED disk PROVE SoloInv'
    BY <2>2, <2>3, <2>4, <2>5 DEF Raise, Final, Press, disk
  <2>6. ASSUME NEW a \in Actors, \A b \in Actors \ {a} : Resting(b), NEW d \in Doc, NEW l, Save(a, d, l),
               UNCHANGED <<disk, answer>>, file.text.status \in Final => d.status = file.text.status
        PROVE  SoloInv'
    <3> DEFINE c == [call[a] EXCEPT !.doc = d, !.then = l, !.at = "open"]
    <3>1. c.at = "open" /\ c.doc = d
      BY <2>0 DEF Call
    <3>2. Set(a, c) /\ UNCHANGED <<file, answer>>
      BY <2>6 DEF Save, disk
    <3> HIDE DEF c
    <3>3. \A s : s = c => Alone(s)'
      BY <2>6, <3>1, <3>2 DEF Alone
    <3> QED
      BY <2>2, <2>6, <3>2, <3>3
  <2>7. ASSUME NEW a \in Actors, \A b \in Actors \ {a} : Resting(b), NEW here, NEW next \in {"judge", "answer"},
               Check(a, here, next)
        PROVE  SoloInv'
    <3>1. CASE file.text.status = "pending" /\ late
      <4> DEFINE d == [file.text EXCEPT !.status = "expired"]
      <4>1. d \in Doc /\ file.text.status \notin Final
        BY <2>0, <3>1, Documents DEF Final, Press, Status
      <4>2. Save(a, d, next) /\ UNCHANGED <<disk, answer>>
        BY <2>1, <2>7, <3>1 DEF Check, disk
      <4> HIDE DEF d
      <4> QED
        BY <2>6, <2>7, <4>1, <4>2
    <3>2. CASE ~(file.text.status = "pending" /\ late)
      <4> DEFINE c == [call[a] EXCEPT !.doc = file.text, !.at = next]
      <4>1. c.at = next /\ c.doc = file.text
        BY <2>0 DEF Call
      <4>2. Set(a, c) /\ UNCHANGED <<file, answer>>
        BY <2>1, <2>7, <3>2 DEF Check, disk
      <4> HIDE DEF c
      <4>3. \A s : s = c => Alone(s)'
        BY <4>1, <4>2 DEF Alone
      <4> QED
        BY <2>2, <2>7, <4>2, <4>3
    <3> QED
      BY <3>1, <3>2
  <2>8. ASSUME NEW a \in Actors, \A b \in Actors \ {a} : Resting(b), Judge(a) PROVE SoloInv'
    <3>1. call[a].doc.status = file.text.status /\ UNCHANGED disk
      BY <2>1, <2>8 DEF Judge, Alone
    <3>2. CASE call[a].doc.status \in Final \/ ~call[a].token
      <4>1. PICK r : Finish(a, r) /\ r \in {call[a].doc.status, "error"}
        BY <2>8, <3>2 DEF Judge
      <4>2. "error" \notin Final
        BY DEF Final, Press
      <4> QED
        BY <2>3, <2>8, <3>1, <4>1, <4>2
    <3>3. CASE call[a].doc.status \notin Final /\ call[a].token
      <4> DEFINE c == [call[a] EXCEPT !.at = "reload"]
      <4>1. c.at = "reload"
        BY <2>0 DEF Call
      <4>2. Set(a, c) /\ UNCHANGED <<file, answer>>
        BY <2>8, <3>1, <3>3 DEF Judge, Goto, disk
      <4> HIDE DEF c
      <4>3. \A s : s = c => Alone(s)'
        BY <3>1, <3>3, <4>1, <4>2 DEF Alone
      <4> QED
        BY <2>2, <2>8, <4>2, <4>3
    <3> QED
      BY <3>2, <3>3
  <2>9. ASSUME NEW a \in Actors, \A b \in Actors \ {a} : Resting(b), Reload(a) PROVE SoloInv'
    <3> DEFINE d == [file.text EXCEPT !.status = call[a].op]
    <3>1. d \in Doc /\ file.text.status \notin Final
      <4>1. call[a].op \in Status
        BY <2>0, <2>9 DEF Reload, Orderly, Status, Final
      <4> QED
        BY <2>0, <2>1, <2>9, <4>1, Documents DEF Reload, Alone
    <3>2. Save(a, d, "recheck") /\ UNCHANGED <<disk, answer>>
      BY <2>1, <2>9 DEF Reload, disk
    <3> HIDE DEF d
    <3> QED
      BY <2>6, <2>9, <3>1, <3>2
  <2>10. ASSUME NEW a \in Actors, \A b \in Actors \ {a} : Resting(b), Answer(a) PROVE SoloInv'
    <3>1. call[a].doc.status = file.text.status /\ UNCHANGED disk
      BY <2>1, <2>10 DEF Answer, Alone
    <3>2. CASE Set(a, Blank("recheck")) /\ UNCHANGED answer
      BY <2>2, <2>4, <2>10, <3>1, <3>2 DEF disk
    <3>3. CASE Finish(a, call[a].doc.status)
      BY <2>3, <2>10, <3>1, <3>3
    <3> QED
      BY <2>10, <3>2, <3>3 DEF Answer
  <2>11. ASSUME NEW a \in Actors, \A b \in Actors \ {a} : Resting(b), Open(a) PROVE SoloInv'
    <3> DEFINE c == [call[a] EXCEPT !.handle = "tmp", !.at = "write"]
    <3>1. c.at = "write" /\ c.handle = "tmp" /\ c.doc = call[a].doc
      BY <2>0 DEF Call
    <3>2. Set(a, c) /\ UNCHANGED <<file, answer>> /\ tmp' = Empty
      BY <2>11 DEF Open
    <3>3. file.text.status \in Final => call[a].doc.status = file.text.status
      BY <2>1, <2>11 DEF Open, Alone
    <3> HIDE DEF c
    <3>4. \A s : s = c => Alone(s)'
      BY <3>1, <3>2, <3>3 DEF Alone
    <3> QED
      BY <2>2, <2>11, <3>2, <3>4
  <2>12. ASSUME NEW a \in Actors, \A b \in Actors \ {a} : Resting(b), Write(a) PROVE SoloInv'
    <3> DEFINE c == [call[a] EXCEPT !.handle = "closed", !.at = "replace"]
    <3>1. c.at = "replace" /\ c.doc = call[a].doc
      BY <2>0 DEF Call
    <3>2. call[a].handle = "tmp" /\ tmp = Empty /\ (file.text.status \in Final => call[a].doc.status = file.text.status)
      BY <2>1, <2>12 DEF Write, Alone
    <3>3. Set(a, c) /\ UNCHANGED <<file, answer>> /\ tmp' = WrittenOver(Empty, call[a].doc)
      BY <2>12, <3>2 DEF Write
    <3>4. tmp' = Whole(call[a].doc)
      BY <2>0, <3>3, Whence
    <3> HIDE DEF c
    <3>5. \A s : s = c => Alone(s)'
      BY <3>1, <3>2, <3>3, <3>4 DEF Alone
    <3> QED
      BY <2>2, <2>12, <3>3, <3>5
  <2>13. ASSUME NEW a \in Actors, \A b \in Actors \ {a} : Resting(b), Replace(a) PROVE SoloInv'
    <3>1. tmp = Whole(call[a].doc) /\ tmp # None /\ (file.text.status \in Final => call[a].doc.status = file.text.status)
      BY <2>0, <2>1, <2>13, Whence DEF Replace, Alone
    <3>2. file' = Whole(call[a].doc) /\ UNCHANGED answer /\ file'.text = call[a].doc
      BY <2>0, <2>13, <3>1, Whence DEF Replace
    <3>3. /\ call'[a] = [call[a] EXCEPT !.then = "answer", !.at = call[a].then]
          /\ \A b \in Actors \ {a} : call'[b] = [call[b] EXCEPT !.handle = Renamed(@)]
      BY <2>13, <3>1 DEF Replace
    <3>4. /\ call'[a].at = call[a].then /\ call'[a].doc = call[a].doc
          /\ \A b \in Actors \ {a} : call'[b].at = call[b].at
      <4>1. call'[a].at = call[a].then /\ call'[a].doc = call[a].doc
        BY <2>0, <3>3 DEF Call
      <4>2. ASSUME NEW b \in Actors \ {a} PROVE call'[b].at = call[b].at
        BY <2>0, <3>3 DEF Call
      <4> QED
        BY <4>1, <4>2
    <3>5. call[a].then \notin {"check", "reload", "write", "replace"}
      BY <2>0 DEF Orderly
    <3>6. Readable'
      BY <2>0, <3>2, Whence DEF Readable
    <3>7. \A b \in Actors : answer'[b] \in Final => answer'[b] = file'.text.status
      BY <2>1, <3>1, <3>2
    <3>8. Alone(call[a])'
      BY <3>2, <3>4, <3>5 DEF Alone
    <3> QED
      BY <2>0, <2>13, <3>4, <3>6, <3>7, <3>8, SoloMove
  <2>14. ASSUME NEW a \in Actors, \A b \in Actors \ {a} : Resting(b), Setup(a) PROVE SoloInv'
    <3>1. "error" \notin Final
      BY DEF Final, Press
    <3>2. ASSUME NEW here, NEW channel \in Channel, NEW next, SetChannel(a, here, channel, next) PROVE SoloInv'
      <4> DEFINE d == [file.text EXCEPT !.channel = channel]
      <4>1. d \in Doc /\ d.status = file.text.status
        BY <2>0, Documents DEF Doc
      <4>2. Save(a, d, next) /\ UNCHANGED <<disk, answer>>
        BY <2>1, <3>2 DEF SetChannel, disk
      <4> HIDE DEF d
      <4> QED
        BY <2>6, <2>14, <4>1, <4>2
    <3>3. CASE Notify(a)
      BY <2>2, <2>4, <2>14, <3>3 DEF Notify, disk
    <3>4. CASE Fallback(a)
      BY <2>2, <2>3, <2>4, <2>14, <3>1, <3>4 DEF Fallback, disk
    <3>5. CASE OpenBrowser(a)
      BY <2>2, <2>3, <2>4, <2>14, <3>1, <3>5 DEF OpenBrowser, disk
    <3> QED
      BY <2>14, <3>2, <3>3, <3>4, <3>5 DEF Setup, Channel
  <2>15. ASSUME NEW a \in Actors, \A b \in Actors \ {a} : Resting(b), Begin(a) PROVE SoloInv'
    <3>2. UNCHANGED <<file, answer>>
      BY <2>15 DEF Begin, disk
    <3>3. CASE Set(a, Blank("recheck"))
      BY <2>2, <2>4, <2>15, <3>2, <3>3
    <3>4. ASSUME NEW what, NEW right, Set(a, [Blank("check") EXCEPT !.op = what, !.token = right]) PROVE SoloInv'
      <4> DEFINE c == [Blank("check") EXCEPT !.op = what, !.token = right]
      <4>1. Set(a, c) /\ c.at = "check"
        BY <3>4 DEF Blank
      <4> HIDE DEF c
      <4>2. \A s : s = c => Alone(s)'
        BY <4>1 DEF Alone
      <4> QED
        BY <2>2, <2>15, <3>2, <4>1, <4>2
    <3> QED
      BY <2>15, <3>3, <3>4 DEF Begin
  <2>16. ASSUME NEW a \in Actors, Die(a) PROVE SoloInv'
    <3>1. call'[a] = Blank("dead") /\ \A b \in Actors \ {a} : call'[b] = call[b]
      BY <2>0, <2>16 DEF Die, Set
    <3>2. UNCHANGED <<file, tmp, answer>>
      BY <2>16 DEF Die, disk
    <3>3. \A b \in Actors : Alone(call[b])'
      BY <2>1, <3>1, <3>2 DEF Alone, Blank
    <3>4. \A b \in Actors : Resting(b) \/ b = a => Resting(b)'
      BY <3>1 DEF Resting, Blank
    <3>5. \A b, c \in Actors : b # c => Resting(b) \/ Resting(c)
      BY <2>0 DEF SoloInv
    <3>6. \A b, c \in Actors : b # c => (Resting(b) \/ Resting(c))'
      BY <3>4, <3>5
    <3>7. Readable' /\ \A b \in Actors : answer'[b] \in Final => answer'[b] = file'.text.status
      BY <2>1, <3>2 DEF Readable
    <3> QED
      BY <3>3, <3>6, <3>7 DEF SoloInv
  <2>17. CASE Deadline \/ UNCHANGED vars
    <3>1. UNCHANGED <<file, tmp, answer, call, overlapped>>
      BY <2>17 DEF Deadline, vars, disk
    <3> QED
      BY <3>1 DEF SoloInv, Readable, Resting, Alone
  <2>18. ASSUME NEW a \in Actors, Move(a) PROVE SoloInv'
    <3>1. \A b \in Actors \ {a} : Resting(b)
      BY <1>2, <2>18 DEF Move
    <3> QED
      BY <2>7, <2>8, <2>9, <2>10, <2>11, <2>12, <2>13, <2>14, <2>15, <2>18, <3>1 DEF Move, Proceed
  <2> QED
    BY <2>16, <2>17, <2>18 DEF Next
<1> QED
  BY <1>1, <1>2

LEMMA SoloAlways == Spec => []SoloInv
<1>1. Init => SoloInv
  <2> SUFFICES ASSUME Init PROVE SoloInv
    OBVIOUS
  <2>1. \A a \in Actors : Alone(call[a])
    BY DEF Init, Alone, Blank
  <2>2. \A a, b \in Actors : a # b => Resting(a) \/ Resting(b)
    BY DEF Init, Resting, Blank
  <2>3. Readable
    BY Documents, Whence DEF Init, Readable
  <2>4. \A a \in Actors : answer[a] \notin Final
    BY BrokerAssumption DEF Init, Status
  <2> QED
    BY <2>1, <2>2, <2>3, <2>4 DEF SoloInv
<1> QED
  BY <1>1, SoloStep, TypeCorrect, PTL DEF Spec

\* Calls that do not overlap in time give one final answer, whoever died in the
\* middle of a load, of a write or between two of them.
THEOREM DecidedOnce == Spec => []AnswersAgree
<1>1. SoloInv => AnswersAgree
  BY DEF SoloInv, AnswersAgree
<1> QED
  BY <1>1, SoloAlways, PTL

\* The file is replaced whole: as long as no calls overlap it can be read at
\* every moment, whatever a dead writer left under the temporary name.
THEOREM RequestFileReadable == Spec => []FileReadable
<1>1. SoloInv => FileReadable
  BY DEF SoloInv, FileReadable
<1> QED
  BY <1>1, SoloAlways, PTL
=============================================================================
