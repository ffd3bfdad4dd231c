-------------------------- MODULE FileStoreProofs ---------------------------
(***************************************************************************)
(* Proofs about the persistence object for every set of keys and messages: *)
(* the files implement the atomic store as long as files can be read and   *)
(* deleted.                                                                *)
(***************************************************************************)
EXTENDS FileStore, TLAPS

-----------------------------------------------------------------------------
(* The inductive invariant.                                                *)

NoSent(k) == file[SentName(k)] = None /\ file[UpdName(k)] = None

Adding == call.op \in {"addSent", "updSent", "addRcvd"}

\* The call in progress has the arguments of its operation, and is made in a
\* phase that makes it.
CallOK ==
    /\ call \in Store!Calls \cup {NoCall}
    /\ call.op = "allSent" => phase = "recover"
    /\ call.op = "allRcvd" => phase = "load"
    /\ call.op = "reset" => phase \in {"recover", "up"}
    /\ call.op \notin {"none", "allSent", "allRcvd", "reset"} => phase = "up"

\* The next step is one of the operation in progress.
StepOK ==
    /\ at = "idle" <=> call = NoCall
    /\ at \in {"open", "write", "rename", "unlinkTmp"} => Adding
    /\ at = "unlinkOld" => call.op = "updSent"
    /\ at \in {"unlinkFirst", "unlinkSecond"} => call.op = "delSent"
    /\ at \in {"openRcvd", "writeByte"} => call.op = "updRcvd"
    /\ at = "unlinkRcvd" => call.op = "delRcvd"
    /\ at = "readdir" => call.op \in {"allSent", "allRcvd", "reset"}
    /\ at = "readdirRcvd" => call.op = "reset"
    /\ at = "fail" => call.op \in {"addSent", "updSent", "addRcvd", "updRcvd", "delRcvd"}

\* What the steps of a call have done to the files of its key.
FilesOK ==
    /\ at = "rename" => file[TmpName(Target(call))] = call.data
    /\ at = "unlinkOld" => file[UpdName(call.key)] # None
    /\ at = "writeByte" => file[RcvdName(call.key)] # None
    /\ call.op = "addSent" => file[UpdName(call.key)] = None
    /\ call.op = "delSent" /\ at \in {"unlinkSecond", "ok"} => file[SentName(call.key)] = None
    /\ call.op = "delSent" /\ at = "ok" => file[UpdName(call.key)] = None

\* A key that the library does not hold is free, but for the message that the
\* call in progress has just written.
HeldOK ==
    phase \in {"load", "up"} =>
        \A k \in Keys :
            <<"sent", k>> \notin held =>
                \/ NoSent(k)
                \/ /\ call.op \in {"addSent", "updSent"} /\ call.key = k
                   /\ at \in {"unlinkOld", "ok"}

\* While a directory is read: what was gathered is what the entries visited
\* so far hold.
GatheredOK ==
    /\ call.op = "allSent" =>
         /\ todo \subseteq Entries("sent")
         /\ \A k \in Keys : \A d \in Contents :
              <<k, d>> \in res <=>
                \/ UpdName(k) \notin todo /\ file[UpdName(k)] = d
                \/ /\ UpdName(k) \in todo \/ file[UpdName(k)] = None
                   /\ SentName(k) \notin todo
                   /\ file[SentName(k)] = d
         /\ at = "ok" => todo = {}
    /\ call.op = "allRcvd" =>
         /\ todo \subseteq Entries("rcvd")
         /\ \A k \in Keys : \A d \in Contents :
              <<k, d>> \in res <=> RcvdName(k) \notin todo /\ file[RcvdName(k)] = d
         /\ at = "ok" => todo = {}

\* While the store is reset: what was visited is gone.
ResetOK ==
    call.op = "reset" =>
        /\ at = "readdir" => \A k \in Keys :
             /\ SentName(k) \notin todo => file[SentName(k)] = None
             /\ UpdName(k) \notin todo => file[UpdName(k)] = None
        /\ at \in {"readdirRcvd", "ok"} => \A k \in Keys : NoSent(k)
        /\ at = "readdirRcvd" => \A k \in Keys :
             RcvdName(k) \notin todo => file[RcvdName(k)] = None
        /\ at = "ok" => \A k \in Keys : file[RcvdName(k)] = None

\* Between two calls nothing is gathered.
IdleOK == at = "idle" => res = {}

IInv ==
    /\ TypeOK
    /\ CallOK
    /\ StepOK
    /\ FilesOK
    /\ HeldOK
    /\ GatheredOK
    /\ ResetOK
    /\ IdleOK

\* What the theorems assume: files can be read, and deleted by the calls that
\* delete them.
FilesObey == "read" \notin Faults /\ "delete" \notin Faults

-----------------------------------------------------------------------------
(* Lemmas about names and calls.                                           *)

\* The names of the files of different keys, and of different kinds, differ.
LEMMA NameFacts ==
    ASSUME NEW k \in Keys
    PROVE  /\ SentName(k) \in Names /\ UpdName(k) \in Names /\ RcvdName(k) \in Names
           /\ TmpName(SentName(k)) \in Names /\ TmpName(UpdName(k)) \in Names
           /\ TmpName(RcvdName(k)) \in Names
           /\ \A j \in Keys :
                /\ SentName(k) # UpdName(j) /\ SentName(k) # RcvdName(j)
                /\ UpdName(k) # RcvdName(j)
                /\ SentName(k) = SentName(j) => k = j
                /\ UpdName(k) = UpdName(j) => k = j
                /\ RcvdName(k) = RcvdName(j) => k = j
                /\ TmpName(SentName(k)) \notin {SentName(j), UpdName(j), RcvdName(j)}
                /\ TmpName(UpdName(k)) \notin {SentName(j), UpdName(j), RcvdName(j)}
                /\ TmpName(RcvdName(k)) \notin {SentName(j), UpdName(j), RcvdName(j)}
  BY ContentsAssumption DEF Names, Dirs, SentName, UpdName, RcvdName, TmpName

LEMMA NameParts ==
    ASSUME NEW k
    PROVE  /\ SentName(k)[1] = "sent" /\ SentName(k)[2] = k /\ SentName(k)[3] = ""
           /\ UpdName(k)[1] = "sent" /\ UpdName(k)[2] = k /\ UpdName(k)[3] = "u"
           /\ RcvdName(k)[1] = "rcvd" /\ RcvdName(k)[2] = k /\ RcvdName(k)[3] = ""
  BY DEF SentName, UpdName, RcvdName

\* The components of a name.
LEMMA Components ==
    ASSUME NEW A, NEW B, NEW C, NEW n \in A \X B \X C
    PROVE  n[2] \in B /\ n = <<n[1], n[2], n[3]>>
  OBVIOUS

\* The arguments of a call are those of its operation.
LEMMA CallFacts ==
    ASSUME NEW c \in Store!Calls \cup {NoCall}
    PROVE  /\ c \in [op : Ops, key : Keys \cup {None}, data : Contents \cup {None}]
           /\ c.op = "addSent" => c.key \in Keys /\ c.data \in Requests
           /\ c.op = "updSent" => c.key \in Keys /\ c.data \in Releases
           /\ c.op = "addRcvd" =>
                c.key \in Keys /\ c.data \in Received /\ c.data.released = FALSE
           /\ c.op \in {"delSent", "updRcvd", "delRcvd"} => c.key \in Keys
           /\ c = NoCall <=> c.op = "none"
<1>1. CASE c \in [op : {"addSent"}, key : Keys, data : Requests]
  BY <1>1 DEF NoCall, Ops, Contents
<1>2. CASE c \in [op : {"updSent"}, key : Keys, data : Releases]
  BY <1>2 DEF NoCall, Ops, Contents
<1>3. CASE c \in [op : {"addRcvd"}, key : Keys,
                   data : [pub : Publications, released : {FALSE}]]
  <2>1. /\ c.data \in Received /\ c.data.released = FALSE
        /\ c.op = "addRcvd" /\ c.key \in Keys
    BY <1>3 DEF Received
  <2>2. c = [op |-> c.op, key |-> c.key, data |-> c.data]
    BY <1>3
  <2>3. c \in [op : Ops, key : Keys \cup {None}, data : Contents \cup {None}]
    BY <2>1, <2>2 DEF Ops, Contents
  <2>4. QED
    BY <2>1, <2>3 DEF NoCall
<1>4. CASE c \in [op : {"delSent", "updRcvd", "delRcvd"}, key : Keys, data : {None}]
  BY <1>4 DEF NoCall, Ops
<1>5. CASE c \in [op : {"allSent", "allRcvd", "reset"}, key : {None}, data : {None}]
  BY <1>5 DEF NoCall, Ops
<1>6. CASE c = NoCall
  BY <1>6 DEF NoCall, Ops
<1>7. QED
  BY <1>1, <1>2, <1>3, <1>4, <1>5, <1>6 DEF Store!Calls

LEMMA InitHolds == Init => IInv
<1> SUFFICES ASSUME Init PROVE IInv
  OBVIOUS
<1> USE DEF Init
<1>1. /\ \A n \in Names : file[n] = None
      /\ call.op = "none" /\ call.data = None
  BY DEF NoCall
<1>2. TypeOK
  <2>1. \A k \in Keys : file[SentName(k)] = None /\ file[UpdName(k)] = None
                        /\ file[RcvdName(k)] = None
    BY <1>1, NameFacts
  <2>2. /\ call \in [op : Ops, key : Keys \cup {None}, data : Contents \cup {None}]
        /\ reply \in [rc : {0, 1}, records : SUBSET (Keys \X Contents)]
    BY DEF NoCall, Ops, Ok
  <2>3. QED
    BY <1>1, <2>1, <2>2 DEF TypeOK, Steps
<1>3. CallOK /\ StepOK /\ IdleOK
  BY <1>1 DEF CallOK, StepOK, IdleOK, Adding
<1>4. FilesOK /\ HeldOK /\ GatheredOK /\ ResetOK
  BY <1>1 DEF FilesOK, HeldOK, GatheredOK, ResetOK
<1>5. QED
  BY <1>2, <1>3, <1>4 DEF IInv

-----------------------------------------------------------------------------
(* The steps that begin a call.                                            *)

\* A call may begin between two calls; the files stay as they are.
LEMMA BeginFacts ==
    ASSUME IInv, NEW op, NEW k, NEW d, NEW first, Begin(op, k, d, first)
    PROVE  /\ call.op = "none" /\ at = "idle" /\ res = {}
           /\ call' = [op |-> op, key |-> k, data |-> d]
           /\ call'.op = op /\ call'.key = k /\ call'.data = d
           /\ at' = first /\ res' = {} /\ file' = file /\ reply' = reply /\ held' = held
  BY DEF Begin, IInv, StepOK, IdleOK, NoCall

\* The calls that are about one key.
LEMMA KeyCallHolds ==
    ASSUME IInv, NEW op, NEW k \in Keys, NEW d, NEW first, Begin(op, k, d, first),
           [op |-> op, key |-> k, data |-> d] \in Store!Calls,
           phase = "up", UNCHANGED <<todo, phase, newest>>,
           \/ op \in {"addSent", "updSent", "addRcvd"} /\ first = "open"
           \/ op = "delSent" /\ first = "unlinkFirst"
           \/ op = "updRcvd" /\ first = "openRcvd"
           \/ op = "delRcvd" /\ first = "unlinkRcvd",
           op = "addSent" => NoSent(k)
    PROVE  IInv'
<1>1. /\ call.op = "none" /\ at = "idle" /\ res = {}
      /\ call' = [op |-> op, key |-> k, data |-> d]
      /\ call'.op = op /\ call'.key = k /\ call'.data = d
      /\ at' = first /\ res' = {} /\ file' = file /\ reply' = reply /\ held' = held
  BY BeginFacts
<1>2. call' \in Store!Calls
  BY <1>1
<1>3. call' \in [op : Ops, key : Keys \cup {None}, data : Contents \cup {None}]
  BY <1>2, CallFacts
<1>4. TypeOK'
  BY <1>1, <1>3 DEF IInv, TypeOK, Steps
<1>5. CallOK' /\ StepOK' /\ IdleOK'
  BY <1>1, <1>2 DEF IInv, CallOK, StepOK, IdleOK, Adding, NoCall
<1>6. FilesOK'
  BY <1>1 DEF FilesOK, NoSent
<1>7. HeldOK'
  BY <1>1 DEF IInv, HeldOK, NoSent
<1>8. GatheredOK' /\ ResetOK'
  BY <1>1 DEF GatheredOK, ResetOK
<1>9. QED
  BY <1>4, <1>5, <1>6, <1>7, <1>8 DEF IInv

\* Between two calls, a key that is not held is free.
LEMMA AddSentFree ==
    ASSUME IInv, NEW k \in Keys, NEW d \in Requests, AddSent(k, d)
    PROVE  NoSent(k)
  BY BeginFacts DEF AddSent, IInv, HeldOK

LEMMA KeyCallsHold ==
    ASSUME IInv, NEW k \in Keys,
           \/ \E d \in Requests : AddSent(k, d)
           \/ \E d \in Releases : UpdSent(k, d)
           \/ \E p \in Publications : AddRcvd(k, p)
           \/ DelSent(k) \/ UpdRcvd(k) \/ DelRcvd(k)
    PROVE  IInv'
<1>1. ASSUME NEW d \in Requests, AddSent(k, d) PROVE IInv'
  <2>1. NoSent(k)
    BY <1>1, AddSentFree
  <2>2. [op |-> "addSent", key |-> k, data |-> d] \in Store!Calls
    BY DEF Store!Calls
  <2>3. QED
    BY <1>1, <2>1, <2>2, KeyCallHolds DEF AddSent
<1>2. ASSUME NEW d \in Releases, UpdSent(k, d) PROVE IInv'
  <2>1. [op |-> "updSent", key |-> k, data |-> d] \in Store!Calls
    BY DEF Store!Calls
  <2>2. QED
    BY <1>2, <2>1, KeyCallHolds DEF UpdSent
<1>3. ASSUME NEW p \in Publications, AddRcvd(k, p) PROVE IInv'
  <2>1. [op |-> "addRcvd", key |-> k, data |-> [pub |-> p, released |-> FALSE]]
           \in Store!Calls
    BY DEF Store!Calls
  <2>2. QED
    BY <1>3, <2>1, KeyCallHolds DEF AddRcvd
<1>4. \A op \in {"delSent", "updRcvd", "delRcvd"} :
        [op |-> op, key |-> k, data |-> None] \in Store!Calls
  BY DEF Store!Calls
<1>5. CASE DelSent(k)
  BY <1>4, <1>5, KeyCallHolds DEF DelSent
<1>6. CASE UpdRcvd(k)
  BY <1>4, <1>6, KeyCallHolds DEF UpdRcvd
<1>7. CASE DelRcvd(k)
  BY <1>4, <1>7, KeyCallHolds DEF DelRcvd
<1>8. QED
  BY <1>1, <1>2, <1>3, <1>5, <1>6, <1>7

\* The calls that visit the entries of a directory.
LEMMA DirCallHolds ==
    ASSUME IInv, NEW op, NEW dir \in Dirs, Begin(op, None, None, "readdir"),
           todo' = Entries(dir),
           \/ op = "allSent" /\ dir = "sent" /\ phase' = "recover"
           \/ op = "allRcvd" /\ dir = "rcvd" /\ phase' = "load" /\ phase = "load"
           \/ op = "reset" /\ dir = "sent" /\ phase' = "recover"
           \/ op = "reset" /\ dir = "sent" /\ phase' = "up" /\ phase = "up",
           newest' \in {newest, [k \in Keys |-> None]}
    PROVE  IInv'
<1>1. /\ call.op = "none" /\ at = "idle" /\ res = {}
      /\ call' = [op |-> op, key |-> None, data |-> None]
      /\ call'.op = op /\ call'.key = None /\ call'.data = None
      /\ at' = "readdir" /\ res' = {} /\ file' = file /\ reply' = reply /\ held' = held
  BY BeginFacts
<1>2. call' \in Store!Calls
  BY <1>1 DEF Store!Calls
<1>3. call' \in [op : Ops, key : Keys \cup {None}, data : Contents \cup {None}]
  BY <1>2, CallFacts
<1>4. todo' \subseteq Names
  BY DEF Entries
<1>5. TypeOK'
  BY <1>1, <1>3, <1>4 DEF IInv, TypeOK, Steps
<1>6. CallOK' /\ StepOK' /\ IdleOK'
  BY <1>1, <1>2 DEF IInv, CallOK, StepOK, IdleOK, Adding, NoCall
<1>7. FilesOK'
  BY <1>1 DEF FilesOK
<1>8. HeldOK'
  BY <1>1 DEF IInv, HeldOK, NoSent
<1>9. Entries(dir)' = Entries(dir)
  BY <1>1 DEF Entries
<1>10. \A k \in Keys :
         /\ dir = "sent" /\ SentName(k) \notin todo' => file[SentName(k)] = None
         /\ dir = "sent" /\ UpdName(k) \notin todo' => file[UpdName(k)] = None
         /\ dir = "rcvd" /\ RcvdName(k) \notin todo' => file[RcvdName(k)] = None
  <2>1. \A k \in Keys : SentName(k)[1] = "sent" /\ UpdName(k)[1] = "sent" /\ RcvdName(k)[1] = "rcvd"
    BY DEF SentName, UpdName, RcvdName
  <2>2. QED
    BY <2>1, NameFacts DEF Entries
<1>11. \A k \in Keys, d \in Contents : d # None
  BY ContentsAssumption DEF Contents
<1>12. GatheredOK'
  BY <1>1, <1>9, <1>10, <1>11 DEF GatheredOK
<1>13. ResetOK'
  BY <1>1, <1>10 DEF ResetOK
<1>14. QED
  BY <1>5, <1>6, <1>7, <1>8, <1>12, <1>13 DEF IInv

LEMMA DirCallsHold ==
    ASSUME IInv, (\E clean \in BOOLEAN : Connect(clean)) \/ LoadReceived \/ Reset
    PROVE  IInv'
<1>1. CASE Connect(TRUE)
  BY <1>1, DirCallHolds DEF Connect, Dirs
<1>2. CASE Connect(FALSE)
  BY <1>2, DirCallHolds DEF Connect, Dirs
<1>3. CASE LoadReceived
  BY <1>3, DirCallHolds DEF LoadReceived, Dirs
<1>4. CASE Reset
  BY <1>4, DirCallHolds DEF Reset, Dirs
<1>5. QED
  BY <1>1, <1>2, <1>3, <1>4

-----------------------------------------------------------------------------
(* The steps of addMessage and updSentMessage.                             *)

\* A temporary name is none that recovery reads.
LEMMA TmpFacts ==
    ASSUME call \in Store!Calls \cup {NoCall}, Adding
    PROVE  /\ TmpName(Target(call)) \in Names
           /\ \A k \in Keys : TmpName(Target(call)) \notin {SentName(k), UpdName(k), RcvdName(k)}
           /\ call.key \in Keys
           /\ call.op = "addSent" => Target(call) = SentName(call.key)
           /\ call.op = "updSent" => Target(call) = UpdName(call.key)
           /\ call.op = "addRcvd" => Target(call) = RcvdName(call.key)
  BY CallFacts, NameFacts DEF Adding, Target

\* A step that touches at most the temporary file.
LEMMA TmpStepHolds ==
    ASSUME IInv, at \in {"open", "write", "rename", "unlinkTmp"}, UNCHANGED newest,
           NEW step \in {"write", "rename", "unlinkTmp", "fail"}, Goto(step),
           NEW d \in Contents \cup {None, Torn},
           Write(TmpName(Target(call)), d) \/ UNCHANGED file,
           step = "rename" => Write(TmpName(Target(call)), call.data)
    PROVE  /\ IInv'
           /\ \A k \in Keys : /\ file'[SentName(k)] = file[SentName(k)]
                              /\ file'[UpdName(k)] = file[UpdName(k)]
                              /\ file'[RcvdName(k)] = file[RcvdName(k)]
<1>1. Adding /\ call \in Store!Calls \cup {NoCall}
  BY DEF IInv, StepOK, CallOK
<1>2. /\ at' = step /\ call' = call /\ todo' = todo /\ res' = res /\ reply' = reply
      /\ phase' = phase /\ held' = held
  BY DEF Goto
<1>3. file \in [Names -> Contents \cup {None, Torn}]
  BY DEF IInv, TypeOK
<1>4. /\ file' \in [Names -> Contents \cup {None, Torn}]
      /\ \A n \in Names : n # TmpName(Target(call)) => file'[n] = file[n]
      /\ step = "rename" => file'[TmpName(Target(call))] = call.data
  BY <1>1, <1>3, TmpFacts DEF Write
<1>5. \A k \in Keys : /\ file'[SentName(k)] = file[SentName(k)]
                      /\ file'[UpdName(k)] = file[UpdName(k)]
                      /\ file'[RcvdName(k)] = file[RcvdName(k)]
  BY <1>1, <1>4, TmpFacts, NameFacts
<1>6. call.op \in {"addSent", "updSent", "addRcvd"} /\ call.key \in Keys
  BY <1>1, TmpFacts DEF Adding
<1>7. TypeOK'
  BY <1>2, <1>4, <1>5 DEF IInv, TypeOK, Steps
<1>8. CallOK' /\ StepOK' /\ IdleOK'
  BY <1>1, <1>2, <1>6, CallFacts DEF IInv, CallOK, StepOK, IdleOK, Adding
<1>9. FilesOK'
  BY <1>2, <1>4, <1>5, <1>6 DEF IInv, FilesOK
<1>10. HeldOK'
  BY <1>2, <1>5 DEF IInv, HeldOK, NoSent
<1>11. GatheredOK' /\ ResetOK'
  BY <1>2, <1>6 DEF GatheredOK, ResetOK
<1>12. QED
  BY <1>5, <1>7, <1>8, <1>9, <1>10, <1>11 DEF IInv

\* The rename that succeeds: the message stands under its name.
RenameOk ==
    /\ at = "rename"
    /\ file' = [file EXCEPT ![TmpName(Target(call))] = None,
                            ![Target(call)] = file[TmpName(Target(call))]]
    /\ Goto(IF call.op = "updSent" THEN "unlinkOld" ELSE "ok")
    /\ newest' = IF call.op = "addRcvd" THEN newest
                 ELSE [newest EXCEPT ![call.key] = file[TmpName(Target(call))]]

LEMMA RenameFacts ==
    ASSUME IInv, RenameOk
    PROVE  /\ Adding /\ call.key \in Keys
           /\ file' \in [Names -> Contents \cup {None, Torn}]
           /\ \A k \in Keys :
                /\ file'[SentName(k)] = IF call.op = "addSent" /\ k = call.key
                                        THEN call.data ELSE file[SentName(k)]
                /\ file'[UpdName(k)] = IF call.op = "updSent" /\ k = call.key
                                       THEN call.data ELSE file[UpdName(k)]
                /\ file'[RcvdName(k)] = IF call.op = "addRcvd" /\ k = call.key
                                        THEN call.data ELSE file[RcvdName(k)]
           /\ newest' = IF call.op = "addRcvd" THEN newest
                        ELSE [newest EXCEPT ![call.key] = call.data]
<1>1. Adding /\ call \in Store!Calls \cup {NoCall}
  BY DEF IInv, StepOK, CallOK, RenameOk
<1>2. /\ call.key \in Keys /\ file[TmpName(Target(call))] = call.data
      /\ call.data \in Contents
  BY <1>1, CallFacts, TmpFacts DEF IInv, FilesOK, RenameOk, Adding, Contents
<1>3. Target(call) \in Names
  BY <1>1, TmpFacts, NameFacts DEF Adding
<1>4. /\ file' \in [Names -> Contents \cup {None, Torn}]
      /\ \A n \in Names : file'[n] = IF n = Target(call) THEN call.data
                                     ELSE IF n = TmpName(Target(call)) THEN None ELSE file[n]
  BY <1>1, <1>2, <1>3, TmpFacts DEF IInv, TypeOK, RenameOk
<1>5. QED
  BY <1>1, <1>2, <1>4, TmpFacts, NameFacts DEF RenameOk, Adding

LEMMA RenameHolds ==
    ASSUME IInv, RenameOk
    PROVE  IInv'
<1>1. Adding /\ call \in Store!Calls \cup {NoCall} /\ call.key \in Keys
  BY RenameFacts DEF IInv, CallOK
<1>2. /\ at' = IF call.op = "updSent" THEN "unlinkOld" ELSE "ok"
      /\ call' = call /\ todo' = todo /\ res' = res /\ reply' = reply
      /\ phase' = phase /\ held' = held
  BY DEF Goto, RenameOk
<1>3. /\ call.op = "addSent" => call.data \in Requests
      /\ call.op = "updSent" => call.data \in Releases
      /\ call.op = "addRcvd" => call.data \in Received
      /\ call.data # None
  BY <1>1, CallFacts, ContentsAssumption DEF Adding
<1>4. TypeOK'
  <2>1. \A k \in Keys : /\ file'[SentName(k)] \in Requests \cup {None}
                        /\ file'[UpdName(k)] \in Releases \cup {None}
                        /\ file'[RcvdName(k)] \in Received \cup {None}
    BY <1>1, <1>3, RenameFacts DEF IInv, TypeOK, Adding
  <2>2. newest' \in [Keys -> Requests \cup Releases \cup {None}]
    BY <1>1, <1>3, RenameFacts DEF IInv, TypeOK, Adding
  <2>3. file' \in [Names -> Contents \cup {None, Torn}] /\ at' \in Steps
    BY <1>2, RenameFacts DEF Steps
  <2>4. QED
    BY <1>2, <2>1, <2>2, <2>3 DEF IInv, TypeOK
<1>5. CallOK' /\ StepOK' /\ IdleOK'
  BY <1>1, <1>2, CallFacts DEF IInv, CallOK, StepOK, IdleOK, Adding
<1>6. FilesOK'
  BY <1>1, <1>2, <1>3, RenameFacts DEF IInv, FilesOK, Adding
<1>7. HeldOK'
  BY <1>1, <1>2, RenameFacts DEF IInv, HeldOK, NoSent, Adding, RenameOk
<1>8. GatheredOK' /\ ResetOK'
  BY <1>1, <1>2 DEF GatheredOK, ResetOK, Adding
<1>9. QED
  BY <1>4, <1>5, <1>6, <1>7, <1>8 DEF IInv

\* updSentMessage removes NNN, or fails to, when NNNu is there.
LEMMA UnlinkOldHolds ==
    ASSUME IInv, UnlinkOld
    PROVE  /\ IInv'
           /\ call.key \in Keys /\ file[UpdName(call.key)] # None
           /\ \A k \in Keys : /\ file'[SentName(k)] = file[SentName(k)] \/ file'[SentName(k)] = None
                              /\ k # call.key => file'[SentName(k)] = file[SentName(k)]
                              /\ file'[UpdName(k)] = file[UpdName(k)]
                              /\ file'[RcvdName(k)] = file[RcvdName(k)]
<1>1. /\ at = "unlinkOld" /\ call.op = "updSent" /\ call.key \in Keys
      /\ call \in Store!Calls \cup {NoCall} /\ file[UpdName(call.key)] # None
  BY CallFacts DEF IInv, StepOK, CallOK, FilesOK, UnlinkOld
<1>2. /\ at' = "ok" /\ call' = call /\ todo' = todo /\ res' = res /\ reply' = reply
      /\ phase' = phase /\ held' = held /\ newest' = newest
  BY DEF Goto, UnlinkOld
<1>3. /\ file' \in [Names -> Contents \cup {None, Torn}]
      /\ \A n \in Names : /\ n # SentName(call.key) => file'[n] = file[n]
                          /\ file'[n] = file[n] \/ file'[n] = None
  BY <1>1, NameFacts DEF IInv, TypeOK, UnlinkOld, Write
<1>4. \A k \in Keys : /\ file'[SentName(k)] = file[SentName(k)] \/ file'[SentName(k)] = None
                      /\ k # call.key => file'[SentName(k)] = file[SentName(k)]
                      /\ file'[UpdName(k)] = file[UpdName(k)]
                      /\ file'[RcvdName(k)] = file[RcvdName(k)]
  <2>1. \A k \in Keys : /\ SentName(k) \in Names /\ UpdName(k) \in Names /\ RcvdName(k) \in Names
                        /\ SentName(k) = SentName(call.key) => k = call.key
                        /\ SentName(call.key) # UpdName(k)
                        /\ SentName(call.key) # RcvdName(k)
    BY <1>1, NameFacts
  <2>2. \A k \in Keys : k # call.key => file'[SentName(k)] = file[SentName(k)]
    BY <1>3, <2>1
  <2>3. \A k \in Keys : file'[SentName(k)] = file[SentName(k)] \/ file'[SentName(k)] = None
    BY <1>3, <2>1
  <2>4. \A k \in Keys : /\ file'[UpdName(k)] = file[UpdName(k)]
                        /\ file'[RcvdName(k)] = file[RcvdName(k)]
    BY <1>3, <2>1
  <2>5. QED
    BY <2>2, <2>3, <2>4
<1>5. TypeOK'
  BY <1>2, <1>3, <1>4 DEF IInv, TypeOK, Steps
<1>6. CallOK' /\ StepOK' /\ IdleOK'
  BY <1>1, <1>2, CallFacts DEF IInv, CallOK, StepOK, IdleOK, Adding
<1>7. FilesOK'
  BY <1>1, <1>2, <1>4 DEF IInv, FilesOK
<1>8. HeldOK'
  BY <1>1, <1>2, <1>4 DEF IInv, HeldOK, NoSent
<1>9. GatheredOK' /\ ResetOK'
  BY <1>1, <1>2 DEF GatheredOK, ResetOK
<1>10. QED
  BY <1>1, <1>4, <1>5, <1>6, <1>7, <1>8, <1>9 DEF IInv

-----------------------------------------------------------------------------
(* The steps of delSentMessage.                                            *)

\* A step that removes the file n of the key of the call, or no file.
LEMMA UnlinkFacts ==
    ASSUME IInv, call.key \in Keys,
           NEW n \in {SentName(call.key), UpdName(call.key), RcvdName(call.key)},
           Write(n, None)
    PROVE  /\ file' \in [Names -> Contents \cup {None, Torn}]
           /\ \A k \in Keys :
                /\ file'[SentName(k)] = IF n = SentName(k) THEN None ELSE file[SentName(k)]
                /\ file'[UpdName(k)] = IF n = UpdName(k) THEN None ELSE file[UpdName(k)]
                /\ file'[RcvdName(k)] = IF n = RcvdName(k) THEN None ELSE file[RcvdName(k)]
<1>1. n \in Names
  BY NameFacts
<1>2. /\ file' \in [Names -> Contents \cup {None, Torn}]
      /\ \A m \in Names : file'[m] = IF m = n THEN None ELSE file[m]
  BY <1>1 DEF IInv, TypeOK, Write
<1>3. \A k \in Keys : SentName(k) \in Names /\ UpdName(k) \in Names /\ RcvdName(k) \in Names
  BY NameFacts
<1>4. QED
  BY <1>2, <1>3

LEMMA UnlinkFirstHolds ==
    ASSUME FilesObey, IInv, UnlinkFirst
    PROVE  /\ IInv'
           /\ call.key \in Keys /\ at' = "unlinkSecond" /\ call' = call /\ reply' = reply
           /\ \A k \in Keys : /\ file'[SentName(k)] = IF k = call.key THEN None ELSE file[SentName(k)]
                              /\ file'[UpdName(k)] = file[UpdName(k)]
                              /\ file'[RcvdName(k)] = file[RcvdName(k)]
<1>1. /\ at = "unlinkFirst" /\ call.op = "delSent" /\ call.key \in Keys
      /\ call \in Store!Calls \cup {NoCall}
  BY CallFacts DEF IInv, StepOK, CallOK, UnlinkFirst
<1>2. /\ Write(SentName(call.key), None)
      /\ at' = "unlinkSecond" /\ call' = call /\ todo' = todo /\ res' = res /\ reply' = reply
      /\ phase' = phase /\ held' = held /\ newest' = newest
  BY DEF Goto, UnlinkFirst, FilesObey, DelOrder
<1>3. file' \in [Names -> Contents \cup {None, Torn}]
  BY <1>1, <1>2, UnlinkFacts
<1>4. \A k \in Keys : /\ file'[SentName(k)] = IF k = call.key THEN None ELSE file[SentName(k)]
                      /\ file'[UpdName(k)] = file[UpdName(k)]
                      /\ file'[RcvdName(k)] = file[RcvdName(k)]
  <2>1. \A k \in Keys : /\ SentName(k) = SentName(call.key) => k = call.key
                        /\ SentName(call.key) \notin {UpdName(k), RcvdName(k)}
    BY <1>1, NameFacts
  <2>2. \A k \in Keys :
         /\ file'[SentName(k)] = IF SentName(call.key) = SentName(k) THEN None ELSE file[SentName(k)]
         /\ file'[UpdName(k)] = IF SentName(call.key) = UpdName(k) THEN None ELSE file[UpdName(k)]
         /\ file'[RcvdName(k)] = IF SentName(call.key) = RcvdName(k) THEN None ELSE file[RcvdName(k)]
    BY <1>1, <1>2, UnlinkFacts
  <2>3. QED
    BY <2>1, <2>2
<1>5. TypeOK'
  BY <1>2, <1>3, <1>4 DEF IInv, TypeOK, Steps
<1>6. CallOK' /\ StepOK' /\ IdleOK'
  BY <1>1, <1>2, CallFacts DEF IInv, CallOK, StepOK, IdleOK, Adding
<1>7. FilesOK'
  BY <1>1, <1>2, <1>4 DEF IInv, FilesOK
<1>8. HeldOK'
  BY <1>1, <1>2, <1>4 DEF IInv, HeldOK, NoSent
<1>9. GatheredOK' /\ ResetOK'
  BY <1>1, <1>2 DEF GatheredOK, ResetOK
<1>10. IInv'
  BY <1>5, <1>6, <1>7, <1>8, <1>9 DEF IInv
<1>11. QED
  BY <1>1, <1>2, <1>4, <1>10

LEMMA UnlinkSecondHolds ==
    ASSUME FilesObey, IInv, UnlinkSecond
    PROVE  /\ IInv'
           /\ call.key \in Keys /\ at' = "ok" /\ call' = call /\ reply' = reply
           /\ \A k \in Keys : /\ file'[SentName(k)] = file[SentName(k)]
                              /\ file'[UpdName(k)] = IF k = call.key THEN None ELSE file[UpdName(k)]
                              /\ file'[RcvdName(k)] = file[RcvdName(k)]
<1>1. /\ at = "unlinkSecond" /\ call.op = "delSent" /\ call.key \in Keys
      /\ call \in Store!Calls \cup {NoCall} /\ file[SentName(call.key)] = None
  BY CallFacts DEF IInv, StepOK, CallOK, FilesOK, UnlinkSecond
<1>2. /\ Write(UpdName(call.key), None)
      /\ at' = "ok" /\ call' = call /\ todo' = todo /\ res' = res /\ reply' = reply
      /\ phase' = phase /\ held' = held /\ newest' = newest
  BY DEF Goto, UnlinkSecond, FilesObey, DelOrder
<1>3. file' \in [Names -> Contents \cup {None, Torn}]
  BY <1>1, <1>2, UnlinkFacts
<1>4. \A k \in Keys : /\ file'[SentName(k)] = file[SentName(k)]
                      /\ file'[UpdName(k)] = IF k = call.key THEN None ELSE file[UpdName(k)]
                      /\ file'[RcvdName(k)] = file[RcvdName(k)]
  <2>1. \A k \in Keys : /\ UpdName(k) = UpdName(call.key) => k = call.key
                        /\ UpdName(call.key) \notin {SentName(k), RcvdName(k)}
    BY <1>1, NameFacts
  <2>2. \A k \in Keys :
         /\ file'[SentName(k)] = IF UpdName(call.key) = SentName(k) THEN None ELSE file[SentName(k)]
         /\ file'[UpdName(k)] = IF UpdName(call.key) = UpdName(k) THEN None ELSE file[UpdName(k)]
         /\ file'[RcvdName(k)] = IF UpdName(call.key) = RcvdName(k) THEN None ELSE file[RcvdName(k)]
    BY <1>1, <1>2, UnlinkFacts
  <2>3. QED
    BY <2>1, <2>2
<1>5. TypeOK'
  BY <1>2, <1>3, <1>4 DEF IInv, TypeOK, Steps
<1>6. CallOK' /\ StepOK' /\ IdleOK'
  BY <1>1, <1>2, CallFacts DEF IInv, CallOK, StepOK, IdleOK, Adding
<1>7. FilesOK'
  BY <1>1, <1>2, <1>4 DEF IInv, FilesOK
<1>8. HeldOK'
  BY <1>1, <1>2, <1>4 DEF IInv, HeldOK, NoSent
<1>9. GatheredOK' /\ ResetOK'
  BY <1>1, <1>2 DEF GatheredOK, ResetOK
<1>10. IInv'
  BY <1>5, <1>6, <1>7, <1>8, <1>9 DEF IInv
<1>11. QED
  BY <1>1, <1>2, <1>4, <1>10

-----------------------------------------------------------------------------
(* The steps of updReceivedMessage and delReceivedMessage.                 *)

\* A step that touches at most the file of the publication.
LEMMA RcvdStepHolds ==
    ASSUME IInv, at \in {"openRcvd", "writeByte", "unlinkRcvd"}, UNCHANGED newest,
           NEW step \in {"writeByte", "ok", "fail"}, Goto(step),
           step = "writeByte" => at = "openRcvd",
           NEW d \in Received \cup {None},
           Write(RcvdName(call.key), d) \/ UNCHANGED file,
           step = "writeByte" => file[RcvdName(call.key)] # None /\ UNCHANGED file
    PROVE  /\ IInv'
           /\ call.key \in Keys
           /\ \A k \in Keys :
                /\ file'[SentName(k)] = file[SentName(k)]
                /\ file'[UpdName(k)] = file[UpdName(k)]
                /\ k # call.key => file'[RcvdName(k)] = file[RcvdName(k)]
           /\ \/ file' = file
              \/ file'[RcvdName(call.key)] = d
<1>1. /\ call.op \in {"updRcvd", "delRcvd"} /\ call.key \in Keys
      /\ call \in Store!Calls \cup {NoCall}
      /\ at \in {"openRcvd", "writeByte"} => call.op = "updRcvd"
  BY CallFacts DEF IInv, StepOK, CallOK
<1>2. /\ at' = step /\ call' = call /\ todo' = todo /\ res' = res /\ reply' = reply
      /\ phase' = phase /\ held' = held /\ newest' = newest
  BY DEF Goto
<1>3. /\ file' \in [Names -> Contents \cup {None, Torn}]
      /\ \A n \in Names : n # RcvdName(call.key) => file'[n] = file[n]
      /\ \/ file' = file
         \/ file'[RcvdName(call.key)] = d
  BY <1>1, NameFacts DEF IInv, TypeOK, Write, Contents
<1>4. /\ \A k \in Keys : /\ file'[SentName(k)] = file[SentName(k)]
                         /\ file'[UpdName(k)] = file[UpdName(k)]
                         /\ k # call.key => file'[RcvdName(k)] = file[RcvdName(k)]
      /\ \/ file' = file
         \/ file'[RcvdName(call.key)] = d
  <2>1. \A k \in Keys : /\ SentName(k) \in Names /\ UpdName(k) \in Names /\ RcvdName(k) \in Names
                        /\ RcvdName(k) = RcvdName(call.key) => k = call.key
                        /\ RcvdName(call.key) \notin {SentName(k), UpdName(k)}
    BY <1>1, NameFacts
  <2>2. QED
    BY <1>3, <2>1
<1>5. \A k \in Keys : file'[RcvdName(k)] \in Received \cup {None}
  BY <1>4 DEF IInv, TypeOK
<1>6. TypeOK'
  BY <1>2, <1>3, <1>4, <1>5 DEF IInv, TypeOK, Steps
<1>7. CallOK' /\ StepOK' /\ IdleOK'
  BY <1>1, <1>2, CallFacts DEF IInv, CallOK, StepOK, IdleOK, Adding
<1>8. FilesOK'
  BY <1>1, <1>2, <1>4 DEF IInv, FilesOK
<1>9. HeldOK'
  BY <1>1, <1>2, <1>4 DEF IInv, HeldOK, NoSent
<1>10. GatheredOK' /\ ResetOK'
  BY <1>1, <1>2 DEF GatheredOK, ResetOK
<1>11. QED
  BY <1>1, <1>4, <1>6, <1>7, <1>8, <1>9, <1>10 DEF IInv

-----------------------------------------------------------------------------
(* The steps of forallfiles.                                               *)

\* What an entry that recovery matches is.
LEMMA EntryFacts ==
    ASSUME IInv, NEW dir \in Dirs, NEW n \in Entries(dir)
    PROVE  /\ n \in Names /\ file[n] # None
           /\ Recoverable(n) /\ dir = "sent" => \E k \in Keys : n \in {SentName(k), UpdName(k)}
           /\ Recoverable(n) /\ dir = "rcvd" => \E k \in Keys : n = RcvdName(k)
           /\ \A k \in Keys : n \in {SentName(k), UpdName(k), RcvdName(k)} => Recoverable(n)
<1>1. /\ n \in Names /\ file[n] # None /\ n[1] = dir
  BY DEF Entries
<1>2. Recoverable(n) => n[2] \in Keys /\ n = <<n[1], n[2], n[3]>>
  <2>1. CASE n \in Dirs \X Keys \X {"", "u"}
    BY <2>1, Components
  <2>2. CASE n \in Dirs \X {None} \X {"tmp"}
    <3>1. n[3] = "tmp"
      BY <2>2
    <3>2. QED
      BY <3>1 DEF Recoverable
  <2>3. QED
    BY <1>1, <2>1, <2>2 DEF Names
<1>3. Recoverable(n) /\ dir = "sent" => \E k \in Keys : n \in {SentName(k), UpdName(k)}
  BY <1>1, <1>2 DEF Recoverable, SentName, UpdName
<1>4. Recoverable(n) /\ dir = "rcvd" => \E k \in Keys : n = RcvdName(k)
  BY <1>1, <1>2 DEF Recoverable, RcvdName
<1>5. \A k \in Keys : n \in {SentName(k), UpdName(k), RcvdName(k)} => Recoverable(n)
  <2>1. TAKE k \in Keys
  <2>2. CASE n = SentName(k)
    BY <2>2 DEF Recoverable, SentName
  <2>3. CASE n = UpdName(k)
    BY <2>3 DEF Recoverable, UpdName
  <2>4. CASE n = RcvdName(k)
    BY <2>4 DEF Recoverable, RcvdName
  <2>5. QED
    BY <2>2, <2>3, <2>4
<1>6. QED
  BY <1>1, <1>3, <1>4, <1>5

\* What getAllSentMessages has gathered grows with the entries it visits.
LEMMA ReadSentGathers ==
    ASSUME FilesObey, IInv, NEW n \in Names, ReadEntry(n), call.op = "allSent"
    PROVE  /\ res' \subseteq Keys \X Contents
           /\ \A k \in Keys : \A d \in Contents :
                <<k, d>> \in res' <=>
                  \/ UpdName(k) \notin todo' /\ file[UpdName(k)] = d
                  \/ /\ UpdName(k) \in todo' \/ file[UpdName(k)] = None
                     /\ SentName(k) \notin todo'
                     /\ file[SentName(k)] = d
<1>1. /\ n \in Entries("sent") /\ n \in todo /\ todo' = todo \ {n}
      /\ res \subseteq Keys \X Contents
  BY DEF ReadEntry, IInv, GatheredOK, TypeOK
<1>2. \A k \in Keys : \A d \in Contents :
        <<k, d>> \in res <=>
          \/ UpdName(k) \notin todo /\ file[UpdName(k)] = d
          \/ /\ UpdName(k) \in todo \/ file[UpdName(k)] = None
             /\ SentName(k) \notin todo
             /\ file[SentName(k)] = d
  BY DEF IInv, GatheredOK
<1>3. "sent" \in Dirs
  BY DEF Dirs
<1>4. \A k \in Keys : /\ file[UpdName(k)] \in Contents \cup {None}
                      /\ file[SentName(k)] \in Contents \cup {None}
  BY DEF IInv, TypeOK, Contents
<1>5. None \notin Contents
  BY ContentsAssumption DEF Contents
<1>6. CASE ~Recoverable(n)
  <2>1. \A k \in Keys : n # SentName(k) /\ n # UpdName(k)
    BY <1>1, <1>3, <1>6, EntryFacts
  <2>2. res' = res
    BY <1>6 DEF ReadEntry, FilesObey
  <2>3. QED
    BY <1>1, <1>2, <2>1, <2>2
<1>7. CASE Recoverable(n)
  <2>1. PICK j \in Keys : n \in {SentName(j), UpdName(j)}
    BY <1>1, <1>3, <1>7, EntryFacts
  <2>2. n[1] = "sent" /\ n[2] = j
    <3>1. CASE n = SentName(j)
      BY <3>1 DEF SentName
    <3>2. CASE n = UpdName(j)
      BY <3>2 DEF UpdName
    <3>3. QED
      BY <2>1, <3>1, <3>2
  <2>3. file[n] # None /\ file[n] \in Contents
    BY <1>1, <1>4, <2>1 DEF Entries
  <2>4. res' = Gathered(n)
    BY <1>7 DEF ReadEntry, FilesObey
  <2>5. \A k \in Keys : /\ SentName(k) # UpdName(j) /\ UpdName(k) # SentName(j)
                        /\ SentName(k) = SentName(j) => k = j
                        /\ UpdName(k) = UpdName(j) => k = j
    BY NameFacts
  <2>6. Seen(j) <=> \E d \in Contents : <<j, d>> \in res
    <3>1. \A e \in res : e = <<e[1], e[2]>> /\ e[2] \in Contents
      BY <1>1
    <3>2. \A d : <<j, d>>[1] = j
      OBVIOUS
    <3>3. QED
      BY <3>1, <3>2 DEF Seen
  <2>7. CASE n = UpdName(j)
    <3>1. n[3] = "u"
      BY <2>7 DEF UpdName
    <3>2. \A k \in Keys : \A d \in Contents :
            <<k, d>> \in res' <=> IF k = j THEN d = file[n] ELSE <<k, d>> \in res
      <4>1. CASE Seen(j)
        <5>1. res' = {e \in res : e[1] # j} \cup {<<j, file[n]>>}
          BY <2>2, <2>4, <3>1, <4>1 DEF Gathered
        <5>2. QED
          BY <5>1
      <4>2. CASE ~Seen(j)
        <5>1. res' = res \cup {<<j, file[n]>>}
          BY <2>2, <2>4, <4>2 DEF Gathered
        <5>2. \A d \in Contents : <<j, d>> \notin res
          BY <2>6, <4>2
        <5>3. QED
          BY <5>1, <5>2
      <4>3. QED
        BY <4>1, <4>2
    <3>3. res' \subseteq Keys \X Contents
      BY <1>1, <2>2, <2>3, <2>4 DEF Gathered
    <3>4. ASSUME NEW k \in Keys, NEW d \in Contents
          PROVE  <<k, d>> \in res' <=>
                  \/ UpdName(k) \notin todo' /\ file[UpdName(k)] = d
                  \/ /\ UpdName(k) \in todo' \/ file[UpdName(k)] = None
                     /\ SentName(k) \notin todo'
                     /\ file[SentName(k)] = d
      <4>1. CASE k = j
        BY <1>1, <2>3, <2>7, <3>2, <4>1
      <4>2. CASE k # j
        <5>1. UpdName(k) # n /\ SentName(k) # n
          BY <2>5, <2>7, <4>2
        <5>2. QED
          BY <1>1, <1>2, <3>2, <4>2, <5>1
      <4>3. QED
        BY <4>1, <4>2
    <3>5. QED
      BY <3>3, <3>4
  <2>8. CASE n = SentName(j)
    <3>1. n[3] = ""
      BY <2>8 DEF SentName
    <3>2. res' = IF Seen(j) THEN res ELSE res \cup {<<j, file[n]>>}
      BY <2>2, <2>4, <3>1 DEF Gathered
    <3>3. Seen(j) <=> UpdName(j) \notin todo /\ file[UpdName(j)] # None
      BY <1>1, <1>2, <1>4, <1>5, <2>6, <2>8
    <3>4. res' \subseteq Keys \X Contents
      BY <1>1, <2>3, <3>2
    <3>5. ASSUME NEW k \in Keys, NEW d \in Contents
          PROVE  <<k, d>> \in res' <=>
                  \/ UpdName(k) \notin todo' /\ file[UpdName(k)] = d
                  \/ /\ UpdName(k) \in todo' \/ file[UpdName(k)] = None
                     /\ SentName(k) \notin todo'
                     /\ file[SentName(k)] = d
      <4>1. CASE k # j
        <5>1. UpdName(k) # n /\ SentName(k) # n
          BY <2>5, <2>8, <4>1
        <5>2. <<k, d>> \in res' <=> <<k, d>> \in res
          BY <3>2, <4>1
        <5>3. QED
          BY <1>1, <1>2, <5>1, <5>2
      <4>2. CASE k = j /\ Seen(j)
        <5>1. UpdName(j) \notin todo' /\ file[UpdName(j)] # None
          BY <1>1, <3>3, <4>2
        <5>2. <<k, d>> \in res' <=> <<k, d>> \in res
          BY <3>2, <4>2
        <5>3. QED
          BY <1>1, <1>2, <3>3, <4>2, <5>1, <5>2
      <4>3. CASE k = j /\ ~Seen(j)
        <5>1. <<k, d>> \in res' <=> d = file[n]
          BY <2>6, <3>2, <4>3
        <5>2. UpdName(j) \in todo' \/ file[UpdName(j)] = None
          BY <1>1, <2>5, <2>8, <3>3, <4>3
        <5>3. SentName(j) \notin todo'
          BY <1>1, <2>8
        <5>4. ~(UpdName(j) \notin todo' /\ file[UpdName(j)] = d)
          BY <1>5, <5>2
        <5>5. QED
          BY <2>8, <4>3, <5>1, <5>2, <5>3, <5>4
      <4>4. QED
        BY <4>1, <4>2, <4>3
    <3>6. QED
      BY <3>4, <3>5
  <2>9. QED
    BY <2>1, <2>7, <2>8
<1>8. QED
  BY <1>6, <1>7

\* And so does what getAllReceivedMessages has gathered.
LEMMA ReadRcvdGathers ==
    ASSUME FilesObey, IInv, NEW n \in Names, ReadEntry(n), call.op = "allRcvd"
    PROVE  /\ res' \subseteq Keys \X Contents
           /\ \A k \in Keys : \A d \in Contents :
                <<k, d>> \in res' <=> RcvdName(k) \notin todo' /\ file[RcvdName(k)] = d
<1>1. /\ n \in Entries("rcvd") /\ n \in todo /\ todo' = todo \ {n}
      /\ res \subseteq Keys \X Contents
  BY DEF ReadEntry, IInv, GatheredOK, TypeOK
<1>2. \A k \in Keys : \A d \in Contents :
        <<k, d>> \in res <=> RcvdName(k) \notin todo /\ file[RcvdName(k)] = d
  BY DEF IInv, GatheredOK
<1>3. "rcvd" \in Dirs
  BY DEF Dirs
<1>4. CASE ~Recoverable(n)
  <2>1. \A k \in Keys : n # RcvdName(k)
    BY <1>1, <1>3, <1>4, EntryFacts
  <2>2. res' = res
    BY <1>4 DEF ReadEntry, FilesObey
  <2>3. QED
    BY <1>1, <1>2, <2>1, <2>2
<1>5. CASE Recoverable(n)
  <2>1. PICK j \in Keys : n = RcvdName(j)
    BY <1>1, <1>3, <1>5, EntryFacts
  <2>2. n[1] = "rcvd" /\ n[2] = j
    BY <2>1, NameParts
  <2>3. file[n] \in Contents
    BY <1>1, <2>1 DEF Entries, IInv, TypeOK, Contents
  <2>4. res' = res \cup {<<j, file[n]>>}
    BY <1>5, <2>2 DEF ReadEntry, Gathered, FilesObey
  <2>5. \A k \in Keys : RcvdName(k) = RcvdName(j) => k = j
    BY NameFacts
  <2>6. QED
    BY <1>1, <1>2, <2>1, <2>3, <2>4, <2>5
<1>6. QED
  BY <1>4, <1>5

LEMMA ReadEntryHolds ==
    ASSUME FilesObey, IInv, NEW n \in Names, ReadEntry(n)
    PROVE  IInv'
<1>1. /\ call.op \in {"allSent", "allRcvd"} /\ at = "readdir" /\ todo' = todo \ {n}
      /\ file' = file /\ call' = call /\ at' = at /\ reply' = reply /\ phase' = phase
      /\ held' = held /\ newest' = newest
  BY DEF ReadEntry
<1>2. TypeOK'
  BY <1>1, ReadSentGathers, ReadRcvdGathers DEF IInv, TypeOK
<1>3. CallOK' /\ StepOK' /\ IdleOK' /\ FilesOK' /\ HeldOK' /\ ResetOK'
  BY <1>1 DEF IInv, CallOK, StepOK, IdleOK, FilesOK, HeldOK, ResetOK, NoSent, Adding
<1>4. \A dir : Entries(dir)' = Entries(dir)
  BY <1>1 DEF Entries
<1>5. GatheredOK'
  BY <1>1, <1>4, ReadSentGathers, ReadRcvdGathers DEF IInv, GatheredOK
<1>6. QED
  BY <1>2, <1>3, <1>5 DEF IInv

\* A step of a reset removes the file it visits.
LEMMA ResetEntryHolds ==
    ASSUME FilesObey, IInv, NEW n \in Names, ResetEntry(n)
    PROVE  /\ IInv'
           /\ \A m \in Names : file'[m] = IF m = n THEN None ELSE file[m]
           /\ call.op = "reset" /\ at \in {"readdir", "readdirRcvd"} /\ n \in todo
<1>1. /\ call.op = "reset" /\ at \in {"readdir", "readdirRcvd"} /\ n \in todo
      /\ todo' = todo \ {n} /\ Write(n, None)
      /\ call' = call /\ at' = at /\ res' = res /\ reply' = reply /\ phase' = phase
      /\ held' = held /\ newest' = newest
  BY DEF ResetEntry, FilesObey
<1>2. /\ file' \in [Names -> Contents \cup {None, Torn}]
      /\ \A m \in Names : file'[m] = IF m = n THEN None ELSE file[m]
  BY <1>1 DEF IInv, TypeOK, Write
<1>3. \A k \in Keys : SentName(k) \in Names /\ UpdName(k) \in Names /\ RcvdName(k) \in Names
  BY NameFacts
<1>4. TypeOK'
  BY <1>1, <1>2, <1>3 DEF IInv, TypeOK
<1>5. CallOK' /\ StepOK' /\ IdleOK'
  BY <1>1 DEF IInv, CallOK, StepOK, IdleOK, Adding
<1>6. FilesOK'
  BY <1>1 DEF FilesOK
<1>7. HeldOK'
  BY <1>1, <1>2, <1>3 DEF IInv, HeldOK, NoSent
<1>8. GatheredOK'
  BY <1>1 DEF GatheredOK
<1>9. ResetOK'
  BY <1>1, <1>2, <1>3 DEF IInv, ResetOK, NoSent
<1>10. QED
  BY <1>1, <1>2, <1>4, <1>5, <1>6, <1>7, <1>8, <1>9 DEF IInv

LEMMA EndOfDirHolds ==
    ASSUME IInv, EndOfDir
    PROVE  IInv'
<1>1. /\ at \in {"readdir", "readdirRcvd"} /\ todo = {}
      /\ call.op \in {"allSent", "allRcvd", "reset"}
      /\ at = "readdirRcvd" => call.op = "reset"
      /\ file' = file /\ call' = call /\ res' = res /\ reply' = reply /\ phase' = phase
      /\ held' = held /\ newest' = newest
  BY DEF EndOfDir, IInv, StepOK
<1>2. CASE call.op = "reset" /\ at = "readdir"
  <2>1. at' = "readdirRcvd" /\ todo' = Entries("rcvd")
    BY <1>2 DEF EndOfDir
  <2>2. \A k \in Keys : RcvdName(k) \notin todo' => file[RcvdName(k)] = None
    <3>1. \A k \in Keys : RcvdName(k) \in Names /\ RcvdName(k)[1] = "rcvd"
      BY NameFacts, NameParts
    <3>2. QED
      BY <2>1, <3>1 DEF Entries
  <2>3. \A k \in Keys : NoSent(k)
    BY <1>1, <1>2 DEF IInv, ResetOK, NoSent
  <2>4. ResetOK'
    BY <1>1, <2>1, <2>2, <2>3 DEF ResetOK, NoSent
  <2>5. TypeOK'
    BY <1>1, <2>1 DEF IInv, TypeOK, Steps, Entries
  <2>6. CallOK' /\ StepOK' /\ IdleOK' /\ FilesOK' /\ HeldOK' /\ GatheredOK'
    BY <1>1, <1>2, <2>1 DEF IInv, CallOK, StepOK, IdleOK, FilesOK, HeldOK, GatheredOK, NoSent, Adding
  <2>7. QED
    BY <2>4, <2>5, <2>6 DEF IInv
<1>3. CASE ~(call.op = "reset" /\ at = "readdir")
  <2>1. at' = "ok" /\ todo' = todo
    BY <1>3 DEF EndOfDir
  <2>2. \A dir : Entries(dir)' = Entries(dir)
    BY <1>1 DEF Entries
  <2>3. TypeOK'
    BY <1>1, <2>1 DEF IInv, TypeOK, Steps
  <2>4. CallOK' /\ StepOK' /\ IdleOK' /\ FilesOK' /\ HeldOK'
    BY <1>1, <2>1, CallFacts
    DEF IInv, CallOK, StepOK, IdleOK, FilesOK, HeldOK, NoSent, Adding
  <2>5. GatheredOK'
    BY <1>1, <2>1, <2>2 DEF IInv, GatheredOK
  <2>6. ResetOK'
    BY <1>1, <1>3, <2>1 DEF IInv, ResetOK, NoSent
  <2>7. QED
    BY <2>3, <2>4, <2>5, <2>6 DEF IInv
<1>4. QED
  BY <1>2, <1>3

-----------------------------------------------------------------------------
(* The end of a call and of the process.                                   *)

LEMMA StopHolds ==
    ASSUME IInv, Stop
    PROVE  IInv'
<1>1. /\ file' = file /\ call' = NoCall /\ at' = "idle" /\ todo' = {} /\ res' = {}
      /\ held' = {} /\ phase' = "down" /\ reply' = reply /\ newest' = newest
      /\ call'.op = "none"
  BY DEF Stop, NoCall
<1>2. call' \in [op : Ops, key : Keys \cup {None}, data : Contents \cup {None}]
  BY <1>1, CallFacts
<1>3. TypeOK'
  BY <1>1, <1>2 DEF IInv, TypeOK, Steps
<1>4. CallOK' /\ StepOK' /\ IdleOK' /\ FilesOK' /\ HeldOK' /\ GatheredOK' /\ ResetOK'
  BY <1>1 DEF CallOK, StepOK, IdleOK, FilesOK, HeldOK, GatheredOK, ResetOK, Adding
<1>5. QED
  BY <1>3, <1>4 DEF IInv

\* What getAllSentMessages and getAllReceivedMessages return is what is stored.
LEMMA GatheredAll ==
    ASSUME IInv, at = "ok"
    PROVE  /\ call.op = "allSent" =>
                \A k \in Keys : \A d \in Contents :
                  <<k, d>> \in res <=> Current(k) = d
           /\ call.op = "allRcvd" =>
                \A k \in Keys : \A d \in Contents :
                  <<k, d>> \in res <=> file[RcvdName(k)] = d
<1>1. None \notin Contents
  BY ContentsAssumption DEF Contents
<1>2. QED
  BY <1>1 DEF IInv, GatheredOK, Current

LEMMA ReturnHolds ==
    ASSUME IInv, Return
    PROVE  IInv'
<1>1. /\ at \in {"ok", "fail"} /\ call.op # "none" /\ call \in Store!Calls \cup {NoCall}
      /\ file' = file /\ call' = NoCall /\ at' = "idle" /\ todo' = todo /\ res' = {}
      /\ newest' = newest /\ call'.op = "none"
      /\ held' = HeldAfter /\ phase' = IF call.op = "allSent" THEN "load" ELSE "up"
  BY CallFacts DEF Return, IInv, StepOK, CallOK, NoCall
<1>2. call' \in [op : Ops, key : Keys \cup {None}, data : Contents \cup {None}]
  BY <1>1, CallFacts
<1>3. reply' \in [rc : {0, 1}, records : SUBSET (Keys \X Contents)]
  BY DEF Return, Ok, Failure, IInv, TypeOK
<1>4. \A e \in res : e[1] \in Keys /\ e[2] \in Contents /\ e = <<e[1], e[2]>>
  BY DEF IInv, TypeOK
<1>5. held' \subseteq Dirs \X Keys
  <2>1. held \subseteq Dirs \X Keys /\ "sent" \in Dirs /\ "rcvd" \in Dirs
    BY DEF IInv, TypeOK, Dirs
  <2>2. CASE call.op \in {"addSent", "updSent", "addRcvd"} /\ at = "ok"
    <3>1. call.key \in Keys
      BY <1>1, <2>2, CallFacts
    <3>2. held' = held \cup {<<IF call.op \in {"addSent", "updSent"} THEN "sent" ELSE "rcvd", call.key>>}
      BY <1>1, <2>2 DEF HeldAfter
    <3>3. QED
      BY <2>1, <3>1, <3>2
  <2>3. CASE call.op \in {"allSent", "allRcvd"}
    <3>1. held' = held \cup {<<IF call.op = "allSent" THEN "sent" ELSE "rcvd", e[1]>> : e \in res}
      BY <1>1, <2>3 DEF HeldAfter
    <3>2. QED
      BY <1>4, <2>1, <3>1
  <2>4. CASE /\ call.op \notin {"allSent", "allRcvd"}
             /\ ~(call.op \in {"addSent", "updSent", "addRcvd"} /\ at = "ok")
    <3>1. held' \subseteq held
      BY <1>1, <2>4 DEF HeldAfter
    <3>2. QED
      BY <2>1, <3>1
  <2>5. QED
    BY <2>2, <2>3, <2>4
<1>6. TypeOK'
  BY <1>1, <1>2, <1>3, <1>5 DEF IInv, TypeOK, Steps
<1>7. CallOK' /\ StepOK' /\ IdleOK' /\ FilesOK' /\ GatheredOK' /\ ResetOK'
  BY <1>1 DEF CallOK, StepOK, IdleOK, FilesOK, GatheredOK, ResetOK, Adding
<1>8. ASSUME NEW k \in Keys, <<"sent", k>> \notin held'
      PROVE  NoSent(k)
  <2>1. CASE call.op \in {"addSent", "updSent"}
    <3>1. phase = "up"
      BY <1>1, <2>1 DEF IInv, CallOK
    <3>2. <<"sent", k>> \notin held /\ (at = "ok" => k # call.key)
      BY <1>1, <1>8, <2>1 DEF HeldAfter
    <3>3. QED
      BY <1>1, <3>1, <3>2 DEF IInv, HeldOK
  <2>2. CASE call.op = "delSent"
    <3>1. at = "ok" /\ phase = "up"
      BY <1>1, <2>2 DEF IInv, StepOK, CallOK
    <3>2. CASE k = call.key
      BY <2>2, <3>1, <3>2 DEF IInv, FilesOK, NoSent
    <3>3. CASE k # call.key
      <4>1. <<"sent", k>> \notin held
        BY <1>1, <1>8, <2>2, <3>3 DEF HeldAfter
      <4>2. QED
        BY <2>2, <3>1, <4>1 DEF IInv, HeldOK
    <3>4. QED
      BY <3>2, <3>3
  <2>3. CASE call.op = "allSent"
    <3>1. at = "ok"
      BY <1>1, <2>3 DEF IInv, StepOK
    <3>2. \A d \in Contents : <<k, d>> \notin res
      BY <1>1, <1>8, <2>3 DEF HeldAfter
    <3>3. Current(k) \in Contents \cup {None}
      BY DEF Current, IInv, TypeOK, Contents
    <3>4. Current(k) = None
      BY <2>3, <3>1, <3>2, <3>3, GatheredAll
    <3>5. QED
      BY <3>4 DEF Current, NoSent
  <2>4. CASE call.op = "reset"
    <3>1. at = "ok"
      BY <1>1, <2>4 DEF IInv, StepOK
    <3>2. QED
      BY <2>4, <3>1 DEF IInv, ResetOK
  <2>5. CASE call.op \in {"addRcvd", "updRcvd", "delRcvd", "allRcvd"}
    <3>1. phase \in {"load", "up"}
      BY <1>1, <2>5 DEF IInv, CallOK
    <3>2. <<"sent", k>> \notin held
      BY <1>1, <1>8, <2>5 DEF HeldAfter
    <3>3. QED
      BY <2>5, <3>1, <3>2 DEF IInv, HeldOK
  <2>6. QED
    BY <1>1, <2>1, <2>2, <2>3, <2>4, <2>5, CallFacts DEF Ops
<1>9. HeldOK'
  BY <1>1, <1>8 DEF HeldOK, NoSent
<1>10. QED
  BY <1>6, <1>7, <1>9 DEF IInv

-----------------------------------------------------------------------------
(* The steps of addMessage and of the files received, action by action.    *)

\* The steps before the rename, and the ones after a failure, leave every file
\* that recovery reads as it is.
LEMMA TmpHolds ==
    ASSUME IInv, OpenTmp \/ WriteTmp \/ (RenameTmp /\ ~RenameOk) \/ UnlinkTmp
    PROVE  /\ IInv' /\ Adding /\ UNCHANGED <<call, reply, newest>>
           /\ at \in {"open", "write", "rename", "unlinkTmp"}
           /\ at' \in {"write", "rename", "unlinkTmp", "fail"}
           /\ \A k \in Keys : /\ file'[SentName(k)] = file[SentName(k)]
                              /\ file'[UpdName(k)] = file[UpdName(k)]
                              /\ file'[RcvdName(k)] = file[RcvdName(k)]
<1>1. call.data \in Contents \cup {None, Torn} /\ None \in Contents \cup {None, Torn}
      /\ Torn \in Contents \cup {None, Torn}
  BY DEF IInv, TypeOK
<1>2. CASE OpenTmp
  <2>1. CASE Write(TmpName(Target(call)), Torn) /\ Goto("write")
    BY <1>1, <1>2, <2>1, TmpStepHolds DEF OpenTmp, Goto, IInv, StepOK
  <2>2. CASE Goto("fail") /\ UNCHANGED file
    BY <1>1, <1>2, <2>2, TmpStepHolds DEF OpenTmp, Goto, IInv, StepOK
  <2>3. QED
    BY <1>2, <2>1, <2>2 DEF OpenTmp
<1>3. CASE WriteTmp
  <2>1. CASE Write(TmpName(Target(call)), call.data) /\ Goto("rename")
    BY <1>1, <1>3, <2>1, TmpStepHolds DEF WriteTmp, Goto, IInv, StepOK
  <2>2. CASE (\E d \in {Torn, call.data} : Write(TmpName(Target(call)), d)) /\ Goto("unlinkTmp")
    BY <1>1, <1>3, <2>2, TmpStepHolds DEF WriteTmp, Goto, IInv, StepOK
  <2>3. QED
    BY <1>3, <2>1, <2>2 DEF WriteTmp
<1>4. CASE RenameTmp /\ ~RenameOk
  <2>1. at = "rename" /\ Goto("unlinkTmp") /\ UNCHANGED <<file, newest>>
    BY <1>4 DEF RenameTmp, RenameOk
  <2>2. QED
    BY <1>1, <2>1, TmpStepHolds DEF Goto, IInv, StepOK
<1>5. CASE UnlinkTmp
  <2>1. Goto("fail")
    BY <1>5 DEF UnlinkTmp
  <2>2. Write(TmpName(Target(call)), None) \/ UNCHANGED file
    BY <1>5 DEF UnlinkTmp
  <2>3. QED
    BY <1>1, <1>5, <2>1, <2>2, TmpStepHolds DEF UnlinkTmp, Goto, IInv, StepOK
<1>6. QED
  BY <1>2, <1>3, <1>4, <1>5

LEMMA OpenRcvdHolds ==
    ASSUME IInv, OpenRcvd
    PROVE  /\ IInv' /\ call.op = "updRcvd" /\ call.key \in Keys
           /\ UNCHANGED <<call, reply, newest, file>>
           /\ at = "openRcvd" /\ at' \in {"writeByte", "fail"}
<1>1. None \in Received \cup {None} /\ at = "openRcvd" /\ call.op = "updRcvd"
      /\ UNCHANGED <<newest, file>>
  BY DEF OpenRcvd, IInv, StepOK
<1>2. CASE file[RcvdName(call.key)] # None /\ Goto("writeByte")
  BY <1>1, <1>2, RcvdStepHolds DEF Goto
<1>3. CASE Goto("fail")
  BY <1>1, <1>3, RcvdStepHolds DEF Goto
<1>4. QED
  BY <1>2, <1>3 DEF OpenRcvd

\* The file of the call, with its release flag set.
Flagged == [file[RcvdName(call.key)] EXCEPT !.released = TRUE]

LEMMA WriteByteHolds ==
    ASSUME IInv, WriteByte
    PROVE  /\ IInv' /\ call.op = "updRcvd" /\ call.key \in Keys
           /\ UNCHANGED <<call, reply, newest>>
           /\ file[RcvdName(call.key)] \in Received /\ Flagged \in Received
           /\ at = "writeByte" /\ at' \in {"ok", "fail"}
           /\ file' = file \/ file'[RcvdName(call.key)] = Flagged
           /\ at' = "ok" => file'[RcvdName(call.key)] = Flagged
           /\ \A k \in Keys : /\ file'[SentName(k)] = file[SentName(k)]
                              /\ file'[UpdName(k)] = file[UpdName(k)]
                              /\ k # call.key => file'[RcvdName(k)] = file[RcvdName(k)]
<1>1. at = "writeByte" /\ call.op = "updRcvd" /\ UNCHANGED newest
      /\ call \in Store!Calls \cup {NoCall}
  BY DEF WriteByte, IInv, StepOK, CallOK
<1>2. call.key \in Keys
  BY <1>1, CallFacts
<1>3. file[RcvdName(call.key)] \in Received /\ RcvdName(call.key) \in Names
  BY <1>1, <1>2, NameFacts DEF IInv, FilesOK, TypeOK
<1>4. Flagged \in Received
  BY <1>3 DEF Flagged, Received
<1>5. CASE Write(RcvdName(call.key), Flagged)
  <2>1. file'[RcvdName(call.key)] = Flagged
    BY <1>3, <1>5 DEF Write, IInv, TypeOK
  <2>2. CASE Goto("ok")
    BY <1>1, <1>2, <1>3, <1>4, <1>5, <2>1, <2>2, RcvdStepHolds DEF Goto
  <2>3. CASE Goto("fail")
    BY <1>1, <1>2, <1>3, <1>4, <1>5, <2>1, <2>3, RcvdStepHolds DEF Goto
  <2>4. QED
    BY <1>5, <2>2, <2>3 DEF WriteByte
<1>6. CASE Goto("fail") /\ UNCHANGED file
  BY <1>1, <1>2, <1>3, <1>4, <1>6, RcvdStepHolds DEF Goto
<1>7. QED
  BY <1>5, <1>6 DEF WriteByte, Flagged

LEMMA UnlinkRcvdHolds ==
    ASSUME IInv, UnlinkRcvd
    PROVE  /\ IInv' /\ call.op = "delRcvd" /\ call.key \in Keys
           /\ UNCHANGED <<call, reply, newest>>
           /\ at = "unlinkRcvd" /\ at' \in {"ok", "fail"}
           /\ at' = "ok" => file'[RcvdName(call.key)] = None
           /\ at' = "fail" => file' = file
           /\ \A k \in Keys : /\ file'[SentName(k)] = file[SentName(k)]
                              /\ file'[UpdName(k)] = file[UpdName(k)]
                              /\ k # call.key => file'[RcvdName(k)] = file[RcvdName(k)]
<1>1. at = "unlinkRcvd" /\ call.op = "delRcvd" /\ UNCHANGED newest
      /\ call \in Store!Calls \cup {NoCall} /\ None \in Received \cup {None}
  BY DEF UnlinkRcvd, IInv, StepOK, CallOK
<1>2. call.key \in Keys /\ RcvdName(call.key) \in Names
  BY <1>1, CallFacts, NameFacts
<1>3. CASE Write(RcvdName(call.key), None) /\ Goto("ok")
  <2>1. file'[RcvdName(call.key)] = None
    BY <1>2, <1>3 DEF Write, IInv, TypeOK
  <2>2. QED
    BY <1>1, <1>2, <1>3, <2>1, RcvdStepHolds DEF Goto
<1>4. CASE Goto("fail") /\ UNCHANGED file
  BY <1>1, <1>2, <1>4, RcvdStepHolds DEF Goto
<1>5. QED
  BY <1>3, <1>4 DEF UnlinkRcvd

-----------------------------------------------------------------------------
(* The invariant is inductive.                                             *)

LEMMA StutterHolds ==
    ASSUME IInv, UNCHANGED vars
    PROVE  IInv'
<1>1. \A dir : Entries(dir)' = Entries(dir)
  BY DEF vars, Entries
<1>2. QED
  BY <1>1 DEF vars, IInv, TypeOK, CallOK, StepOK, FilesOK, HeldOK, GatheredOK,
              ResetOK, IdleOK, NoSent, Adding

LEMMA StepHolds == FilesObey /\ IInv /\ [Next]_vars => IInv'
<1> SUFFICES ASSUME FilesObey, IInv, [Next]_vars PROVE IInv'
  OBVIOUS
<1>1. CASE (\E clean \in BOOLEAN : Connect(clean)) \/ LoadReceived \/ Reset
  BY <1>1, DirCallsHold
<1>2. ASSUME NEW k \in Keys,
             \/ \E d \in Requests : AddSent(k, d)
             \/ \E d \in Releases : UpdSent(k, d)
             \/ \E p \in Publications : AddRcvd(k, p)
             \/ DelSent(k) \/ UpdRcvd(k) \/ DelRcvd(k)
      PROVE  IInv'
  BY <1>2, KeyCallsHold
<1>3. CASE OpenTmp \/ WriteTmp \/ RenameTmp \/ UnlinkTmp
  BY <1>3, TmpHolds, RenameHolds
<1>4. CASE UnlinkOld \/ UnlinkFirst \/ UnlinkSecond
  BY <1>4, UnlinkOldHolds, UnlinkFirstHolds, UnlinkSecondHolds
<1>5. CASE OpenRcvd \/ WriteByte \/ UnlinkRcvd
  BY <1>5, OpenRcvdHolds, WriteByteHolds, UnlinkRcvdHolds
<1>6. ASSUME NEW n \in Names, ReadEntry(n) \/ ResetEntry(n) PROVE IInv'
  BY <1>6, ReadEntryHolds, ResetEntryHolds
<1>7. CASE EndOfDir \/ Return \/ Stop
  BY <1>7, EndOfDirHolds, ReturnHolds, StopHolds
<1>8. CASE UNCHANGED vars
  BY <1>8, StutterHolds
<1>9. QED
  BY <1>1, <1>2, <1>3, <1>4, <1>5, <1>6, <1>7, <1>8 DEF Next

\* The inductive invariant holds in every reachable state.
LEMMA Invariance ==
    ASSUME FilesObey
    PROVE  Spec => []IInv
<1>1. IInv /\ [Next]_vars => IInv'
  BY StepHolds
<1>2. Init => IInv
  BY InitHolds
<1>3. QED
  BY <1>1, <1>2, PTL DEF Spec

\* What stands under a name that recovery reads was written to its end, and
\* every variable has its type, while the calls of File.pm run and wherever
\* the process stops.
THEOREM TypeCorrect ==
    ASSUME FilesObey
    PROVE  Spec => []TypeOK
<1>1. IInv => TypeOK
  BY DEF IInv
<1>2. QED
  BY <1>1, Invariance, PTL

-----------------------------------------------------------------------------
(* The records the files stand for.                                        *)

LEMMA RecordFacts ==
    ASSUME IInv
    PROVE  /\ SentRecords \in [Keys -> Requests \cup Releases \cup {None}]
           /\ RcvdRecords \in [Keys -> Received \cup {None}]
           /\ \A k \in Keys : /\ SentRecords[k] = Current(k)
                              /\ RcvdRecords[k] = file[RcvdName(k)]
                              /\ SentRecords[k] = None <=> NoSent(k)
<1>1. \A k \in Keys : /\ file[SentName(k)] \in Requests \cup {None}
                      /\ file[UpdName(k)] \in Releases \cup {None}
                      /\ file[RcvdName(k)] \in Received \cup {None}
  BY DEF IInv, TypeOK
<1>2. QED
  BY <1>1 DEF SentRecords, RcvdRecords, Current, NoSent

\* What a step that leaves files alone leaves of the records.
LEMMA SentKept ==
    ASSUME \A k \in Keys : /\ file'[SentName(k)] = file[SentName(k)]
                           /\ file'[UpdName(k)] = file[UpdName(k)]
    PROVE  SentRecords' = SentRecords /\ \A k \in Keys : Current(k)' = Current(k)
<1>1. \A k \in Keys : Current(k)' = Current(k)
  BY DEF Current
<1>2. QED
  BY <1>1 DEF SentRecords

LEMMA RcvdKept ==
    ASSUME \A k \in Keys : file'[RcvdName(k)] = file[RcvdName(k)]
    PROVE  RcvdRecords' = RcvdRecords
  BY DEF RcvdRecords

-----------------------------------------------------------------------------
(* Every step is a step of the atomic store, or none.                      *)

Stutter == UNCHANGED Store!vars

\* A step that changes no record and does not begin or end a call.
LEMMA StutterMaps ==
    ASSUME UNCHANGED <<call, reply>>,
           SentRecords' = SentRecords, RcvdRecords' = RcvdRecords,
           Done <=> Done'
    PROVE  Stutter
<1>1. Done' = Done
  BY DEF Done
<1>2. QED
  BY <1>1 DEF Stutter, Store!vars

\* Before its first step no call has taken effect.
LEMMA BeginMaps ==
    ASSUME IInv, NEW op, NEW k, NEW d, NEW first, Begin(op, k, d, first),
           first \in {"open", "unlinkFirst", "openRcvd", "unlinkRcvd", "readdir"},
           [op |-> op, key |-> k, data |-> d] \in Store!Calls,
           op = "addSent" => k \in Keys /\ NoSent(k)
    PROVE  Store!Next
<1>1. /\ call = NoCall /\ at = "idle" /\ at' = first /\ reply' = reply /\ file' = file
      /\ call' = [op |-> op, key |-> k, data |-> d]
  BY BeginFacts DEF Begin
<1>2. SentRecords' = SentRecords /\ RcvdRecords' = RcvdRecords
  BY <1>1, SentKept, RcvdKept
<1>3. Done = FALSE /\ Done' = FALSE
  BY <1>1 DEF Done
<1>4. op = "addSent" => SentRecords[k] = None
  BY RecordFacts
<1>5. Store!Begin([op |-> op, key |-> k, data |-> d])
  BY <1>1, <1>2, <1>3, <1>4 DEF Store!Begin, Store!NoCall, NoCall
<1>6. QED
  BY <1>5 DEF Store!Next

LEMMA BeginsMap ==
    ASSUME IInv,
           \/ \E clean \in BOOLEAN : Connect(clean)
           \/ LoadReceived \/ Reset
           \/ \E k \in Keys :
                \/ \E d \in Requests : AddSent(k, d)
                \/ \E d \in Releases : UpdSent(k, d)
                \/ \E p \in Publications : AddRcvd(k, p)
                \/ DelSent(k) \/ UpdRcvd(k) \/ DelRcvd(k)
    PROVE  Store!Next
<1>1. \A op \in {"allSent", "allRcvd", "reset"} :
        [op |-> op, key |-> None, data |-> None] \in Store!Calls
  BY DEF Store!Calls
<1>2. CASE Connect(TRUE)
  BY <1>1, <1>2, BeginMaps DEF Connect
<1>3. CASE Connect(FALSE)
  BY <1>1, <1>3, BeginMaps DEF Connect
<1>4. CASE LoadReceived \/ Reset
  BY <1>1, <1>4, BeginMaps DEF LoadReceived, Reset
<1>5. ASSUME NEW k \in Keys, NEW d \in Requests, AddSent(k, d) PROVE Store!Next
  <2>1. [op |-> "addSent", key |-> k, data |-> d] \in Store!Calls /\ NoSent(k)
    BY <1>5, AddSentFree DEF Store!Calls
  <2>2. QED
    BY <1>5, <2>1, BeginMaps DEF AddSent
<1>6. ASSUME NEW k \in Keys, NEW d \in Releases, UpdSent(k, d) PROVE Store!Next
  <2>1. [op |-> "updSent", key |-> k, data |-> d] \in Store!Calls
    BY DEF Store!Calls
  <2>2. QED
    BY <1>6, <2>1, BeginMaps DEF UpdSent
<1>7. ASSUME NEW k \in Keys, NEW p \in Publications, AddRcvd(k, p) PROVE Store!Next
  <2>1. [op |-> "addRcvd", key |-> k, data |-> [pub |-> p, released |-> FALSE]]
           \in Store!Calls
    BY DEF Store!Calls
  <2>2. QED
    BY <1>7, <2>1, BeginMaps DEF AddRcvd
<1>8. ASSUME NEW k \in Keys, DelSent(k) \/ UpdRcvd(k) \/ DelRcvd(k) PROVE Store!Next
  <2>1. \A op \in {"delSent", "updRcvd", "delRcvd"} :
          [op |-> op, key |-> k, data |-> None] \in Store!Calls
    BY DEF Store!Calls
  <2>2. QED
    BY <1>8, <2>1, BeginMaps DEF DelSent, UpdRcvd, DelRcvd
<1>9. QED
  BY <1>2, <1>3, <1>4, <1>5, <1>6, <1>7, <1>8

\* Writing the temporary file is not seen; the rename is the moment at which a
\* message is stored.
LEMMA TmpMaps ==
    ASSUME IInv, OpenTmp \/ WriteTmp \/ (RenameTmp /\ ~RenameOk) \/ UnlinkTmp
    PROVE  Stutter
<1>1. /\ UNCHANGED <<call, reply>> /\ Adding
      /\ SentRecords' = SentRecords /\ RcvdRecords' = RcvdRecords
  BY TmpHolds, SentKept, RcvdKept
<1>2. ~Done /\ ~Done'
  BY <1>1, TmpHolds DEF Done, Adding
<1>3. QED
  BY <1>1, <1>2, StutterMaps

LEMMA RenameMaps ==
    ASSUME IInv, RenameOk
    PROVE  Store!Effect
<1>1. /\ at = "rename" /\ at' \in {"unlinkOld", "ok"} /\ call' = call /\ reply' = reply
      /\ call.key \in Keys /\ Adding /\ call # NoCall /\ IInv'
  BY RenameFacts, RenameHolds DEF RenameOk, Goto, Adding, NoCall
<1>2. /\ call.op = "addSent" => file[UpdName(call.key)] = None
      /\ call.op = "updSent" => call.data # None
  BY CallFacts, ContentsAssumption DEF IInv, FilesOK, CallOK
<1>3. Done = FALSE /\ Done' = TRUE
  BY <1>1 DEF Done
<1>4. CASE call.op \in {"addSent", "updSent"}
  <2>1. \A k \in Keys : Current(k)' = IF k = call.key THEN call.data ELSE Current(k)
    BY <1>2, <1>4, RenameFacts DEF Current
  <2>2. SentRecords' = [SentRecords EXCEPT ![call.key] = call.data]
    BY <2>1 DEF SentRecords
  <2>3. RcvdRecords' = RcvdRecords
    BY <1>4, RenameFacts, RcvdKept
  <2>4. QED
    BY <1>1, <1>3, <1>4, <2>2, <2>3 DEF Store!Effect, Store!NoCall, NoCall
<1>5. CASE call.op = "addRcvd"
  <2>1. SentRecords' = SentRecords
    BY <1>5, RenameFacts, SentKept
  <2>2. RcvdRecords' = [RcvdRecords EXCEPT ![call.key] = call.data]
    BY <1>5, RenameFacts DEF RcvdRecords
  <2>3. QED
    BY <1>1, <1>3, <1>5, <2>1, <2>2 DEF Store!Effect, Store!NoCall, NoCall
<1>6. QED
  BY <1>1, <1>4, <1>5 DEF Adding

\* The PUBLISH is not seen any more once the PUBREL is there.
LEMMA UnlinkOldMaps ==
    ASSUME IInv, UnlinkOld
    PROVE  Stutter
<1>1. \A k \in Keys : Current(k)' = Current(k)
  BY UnlinkOldHolds DEF Current
<1>2. SentRecords' = SentRecords
  BY <1>1 DEF SentRecords
<1>3. RcvdRecords' = RcvdRecords
  BY UnlinkOldHolds, RcvdKept
<1>4. at = "unlinkOld" /\ at' = "ok" /\ UNCHANGED <<call, reply>>
  BY DEF UnlinkOld, Goto
<1>5. QED
  BY <1>2, <1>3, <1>4, StutterMaps DEF Done

\* A message is deleted with the last of its files.
LEMMA UnlinksMap ==
    ASSUME FilesObey, IInv, UnlinkFirst \/ UnlinkSecond
    PROVE  Store!Effect \/ Stutter
<1>1. /\ call.key \in Keys /\ call.op = "delSent" /\ call # NoCall
      /\ call' = call /\ reply' = reply /\ RcvdRecords' = RcvdRecords
  <2>1. call.op = "delSent" /\ call # NoCall
    BY DEF UnlinkFirst, UnlinkSecond, IInv, StepOK, NoCall
  <2>2. QED
    BY <2>1, UnlinkFirstHolds, UnlinkSecondHolds, RcvdKept
<1>2. \A k \in Keys \ {call.key} : Current(k)' = Current(k)
  BY UnlinkFirstHolds, UnlinkSecondHolds DEF Current
<1>3. ASSUME Current(call.key)' = None, ~Done, Done' PROVE Store!Effect
  <2>1. \A k \in Keys : Current(k)' = IF k = call.key THEN None ELSE Current(k)
    BY <1>1, <1>2, <1>3 DEF Current
  <2>2. SentRecords' = [SentRecords EXCEPT ![call.key] = None]
    BY <2>1 DEF SentRecords
  <2>3. Done = FALSE /\ Done' = TRUE
    BY <1>3 DEF Done
  <2>4. QED
    BY <1>1, <2>2, <2>3 DEF Store!Effect, Store!NoCall, NoCall
<1>4. ASSUME Current(call.key)' = Current(call.key), Done <=> Done' PROVE Stutter
  <2>1. \A k \in Keys : Current(k)' = Current(k)
    BY <1>1, <1>2, <1>4 DEF Current
  <2>2. SentRecords' = SentRecords
    BY <2>1 DEF SentRecords
  <2>3. QED
    BY <1>1, <1>4, <2>2, StutterMaps
<1>5. CASE UnlinkFirst
  <2>1. /\ at = "unlinkFirst" /\ at' = "unlinkSecond" /\ ~Done
        /\ file'[SentName(call.key)] = None
        /\ file'[UpdName(call.key)] = file[UpdName(call.key)]
    BY <1>1, <1>5, UnlinkFirstHolds DEF UnlinkFirst, Done
  <2>2. CASE file[UpdName(call.key)] = None
    BY <1>1, <1>3, <2>1, <2>2 DEF Done, Current
  <2>3. CASE file[UpdName(call.key)] # None
    BY <1>1, <1>4, <2>1, <2>3 DEF Done, Current
  <2>4. QED
    BY <2>2, <2>3
<1>6. CASE UnlinkSecond
  <2>1. /\ at = "unlinkSecond" /\ at' = "ok" /\ Done'
        /\ file'[SentName(call.key)] = None /\ file[SentName(call.key)] = None
        /\ file'[UpdName(call.key)] = None
    BY <1>1, <1>6, UnlinkSecondHolds DEF UnlinkSecond, Done, IInv, FilesOK
  <2>2. CASE file[UpdName(call.key)] = None
    BY <1>1, <1>4, <2>1, <2>2 DEF Done, Current
  <2>3. CASE file[UpdName(call.key)] # None
    BY <1>1, <1>3, <2>1, <2>3 DEF Done, Current
  <2>4. QED
    BY <2>2, <2>3
<1>7. QED
  BY <1>5, <1>6

\* The release flag is set when its byte is written.
LEMMA UpdRcvdMaps ==
    ASSUME IInv, OpenRcvd \/ WriteByte
    PROVE  Store!Effect \/ Stutter
<1>1. /\ call.key \in Keys /\ call.op = "updRcvd" /\ call # NoCall
      /\ call' = call /\ reply' = reply /\ Done = FALSE
      /\ at' \in {"writeByte", "ok", "fail"}
  BY OpenRcvdHolds, WriteByteHolds DEF Done, NoCall
<1>2. SentRecords' = SentRecords
  <2>1. \A k \in Keys : /\ file'[SentName(k)] = file[SentName(k)]
                        /\ file'[UpdName(k)] = file[UpdName(k)]
    BY OpenRcvdHolds, WriteByteHolds
  <2>2. QED
    BY <2>1, SentKept
<1>3. \A k \in Keys \ {call.key} : file'[RcvdName(k)] = file[RcvdName(k)]
  BY OpenRcvdHolds, WriteByteHolds
<1>4. file' = file \/ (file'[RcvdName(call.key)] = Flagged /\ WriteByte)
  BY OpenRcvdHolds, WriteByteHolds
<1>5. CASE ~Done'
  <2>1. file'[RcvdName(call.key)] = file[RcvdName(call.key)]
    <3>1. CASE file' = file
      BY <3>1
    <3>2. CASE file'[RcvdName(call.key)] = Flagged /\ WriteByte
      <4>1. Flagged.released = TRUE /\ Flagged # None /\ at' \in {"ok", "fail"}
        BY <3>2, WriteByteHolds, ContentsAssumption DEF Flagged, Received
      <4>2. QED
        BY <1>1, <1>5, <3>2, <4>1 DEF Done
    <3>3. QED
      BY <1>4, <3>1, <3>2
  <2>2. RcvdRecords' = RcvdRecords
    BY <1>3, <2>1, RcvdKept
  <2>3. QED
    BY <1>1, <1>2, <1>5, <2>2, StutterMaps
<1>6. CASE Done'
  <2>1. Done' = TRUE
    BY <1>6 DEF Done
  <2>2. file[RcvdName(call.key)] \in Received /\ file'[RcvdName(call.key)] = Flagged
    <3>1. CASE WriteByte /\ at' = "ok"
      BY <3>1, WriteByteHolds
    <3>2. CASE at' = "fail"
      <4>1. file'[RcvdName(call.key)] # None /\ file'[RcvdName(call.key)].released
        BY <1>1, <1>6, <3>2 DEF Done
      <4>2. CASE file' = file
        <5>1. file[RcvdName(call.key)] \in Received
          BY <1>1, <4>1, <4>2 DEF IInv, TypeOK
        <5>2. file[RcvdName(call.key)] = Flagged
          BY <4>1, <4>2, <5>1 DEF Flagged, Received
        <5>3. QED
          BY <4>2, <5>1, <5>2
      <4>3. QED
        BY <1>4, <4>2, WriteByteHolds
    <3>3. QED
      BY <1>1, <1>6, <3>1, <3>2, OpenRcvdHolds DEF Done
  <2>3. RcvdRecords[call.key] # None
    BY <1>1, <2>2, ContentsAssumption DEF RcvdRecords
  <2>4. RcvdRecords' = [RcvdRecords EXCEPT ![call.key].released = TRUE]
    <3>1. RcvdRecords[call.key] = file[RcvdName(call.key)]
      BY <1>1 DEF RcvdRecords
    <3>2. RcvdRecords' = [RcvdRecords EXCEPT ![call.key] = Flagged]
      BY <1>1, <1>3, <2>2 DEF RcvdRecords
    <3>3. QED
      BY <1>1, <3>1, <3>2 DEF Flagged
  <2>5. QED
    BY <1>1, <1>2, <2>1, <2>3, <2>4 DEF Store!Effect, Store!NoCall, NoCall
<1>7. QED
  BY <1>5, <1>6

LEMMA UnlinkRcvdMaps ==
    ASSUME IInv, UnlinkRcvd
    PROVE  Store!Effect \/ Stutter
<1>1. /\ call.key \in Keys /\ call.op = "delRcvd" /\ call # NoCall
      /\ call' = call /\ reply' = reply /\ Done = FALSE
      /\ SentRecords' = SentRecords
  BY UnlinkRcvdHolds, SentKept DEF Done, NoCall
<1>2. CASE at' = "ok"
  <2>1. RcvdRecords' = [RcvdRecords EXCEPT ![call.key] = None]
    BY <1>1, <1>2, UnlinkRcvdHolds DEF RcvdRecords
  <2>2. Done' = TRUE
    BY <1>2 DEF Done
  <2>3. QED
    BY <1>1, <2>1, <2>2 DEF Store!Effect, Store!NoCall, NoCall
<1>3. CASE at' = "fail"
  <2>1. ~Done' /\ RcvdRecords' = RcvdRecords
    BY <1>1, <1>3, UnlinkRcvdHolds, RcvdKept DEF Done
  <2>2. QED
    BY <1>1, <2>1, StutterMaps
<1>4. QED
  BY <1>2, <1>3, UnlinkRcvdHolds

\* Reading is seen at its end; a reset forgets one record after the other, and
\* of a request that was released the release first or last.
LEMMA ReadEntryMaps ==
    ASSUME IInv, NEW n \in Names, ReadEntry(n)
    PROVE  Stutter
<1>1. /\ UNCHANGED <<call, reply>> /\ ~Done /\ ~Done'
      /\ SentRecords' = SentRecords /\ RcvdRecords' = RcvdRecords
  BY SentKept, RcvdKept DEF ReadEntry, Done
<1>2. QED
  BY <1>1, StutterMaps

LEMMA ResetEntryMaps ==
    ASSUME FilesObey, IInv, NEW n \in Names, ResetEntry(n)
    PROVE  Store!Next \/ Stutter
<1>1. /\ call' = call /\ reply' = reply /\ at' = at /\ call.op = "reset"
      /\ at \in {"readdir", "readdirRcvd"}
      /\ \A m \in Names : file'[m] = IF m = n THEN None ELSE file[m]
  BY ResetEntryHolds DEF ResetEntry
<1>2. Done = FALSE /\ Done' = FALSE
  BY <1>1 DEF Done
<1>3. \A k \in Keys :
        /\ SentName(k) \in Names /\ UpdName(k) \in Names /\ RcvdName(k) \in Names
        /\ \A j \in Keys : /\ SentName(k) # UpdName(j) /\ SentName(k) # RcvdName(j)
                           /\ UpdName(k) # RcvdName(j)
                           /\ SentName(k) = SentName(j) => k = j
                           /\ UpdName(k) = UpdName(j) => k = j
                           /\ RcvdName(k) = RcvdName(j) => k = j
  BY NameFacts
<1>4. ASSUME NEW k \in Keys, n \in {SentName(k), UpdName(k)}
      PROVE  Store!Next \/ Stutter
  <2>1. \A j \in Keys \ {k} : Current(j)' = Current(j)
    BY <1>1, <1>3, <1>4 DEF Current
  <2>2. RcvdRecords' = RcvdRecords
    BY <1>1, <1>3, <1>4, RcvdKept
  <2>3. SentRecords' = [SentRecords EXCEPT ![k] = Current(k)']
    BY <2>1 DEF SentRecords
  <2>4. Current(k)' = Current(k) \/ (Current(k) # None /\ Current(k)' \in Requests \cup {None})
    <3>1. file[SentName(k)] \in Requests \cup {None}
      BY DEF IInv, TypeOK
    <3>2. CASE n = SentName(k)
      BY <1>1, <1>3, <3>2 DEF Current
    <3>3. CASE n = UpdName(k)
      BY <1>1, <1>3, <3>1, <3>3 DEF Current
    <3>4. QED
      BY <1>4, <3>2, <3>3
  <2>5. CASE Current(k)' = Current(k)
    <3>1. SentRecords' = SentRecords
      BY <2>1, <2>5 DEF SentRecords
    <3>2. QED
      BY <1>1, <1>2, <2>2, <3>1, StutterMaps
  <2>6. CASE Current(k) # None /\ Current(k)' \in Requests \cup {None}
    <3>1. SentRecords[k] # None
      BY <2>6 DEF SentRecords
    <3>2. Store!ResetOne(k)
      BY <1>1, <1>2, <2>2, <2>3, <2>6, <3>1 DEF Store!ResetOne
    <3>3. QED
      BY <3>2 DEF Store!Next
  <2>7. QED
    BY <2>4, <2>5, <2>6
<1>5. ASSUME NEW k \in Keys, n = RcvdName(k)
      PROVE  Store!Next
  <2>1. SentRecords' = SentRecords
    BY <1>1, <1>3, <1>5, SentKept
  <2>2. RcvdRecords' = [RcvdRecords EXCEPT ![k] = None]
    BY <1>1, <1>3, <1>5 DEF RcvdRecords
  <2>3. Store!ResetOne(k)
    BY <1>1, <1>2, <2>1, <2>2 DEF Store!ResetOne
  <2>4. QED
    BY <2>3 DEF Store!Next
<1>6. CASE \A k \in Keys : n \notin {SentName(k), UpdName(k), RcvdName(k)}
  <2>1. SentRecords' = SentRecords /\ RcvdRecords' = RcvdRecords
    BY <1>1, <1>3, <1>6, SentKept, RcvdKept
  <2>2. QED
    BY <1>1, <1>2, <2>1, StutterMaps
<1>7. QED
  BY <1>4, <1>5, <1>6

LEMMA EndOfDirMaps ==
    ASSUME IInv, EndOfDir
    PROVE  Store!Effect \/ Stutter
<1>1. /\ call' = call /\ reply' = reply /\ file' = file /\ at \in {"readdir", "readdirRcvd"}
      /\ at' \in {"readdirRcvd", "ok"} /\ IInv'
      /\ SentRecords' = SentRecords /\ RcvdRecords' = RcvdRecords
  BY EndOfDirHolds, SentKept, RcvdKept DEF EndOfDir
<1>2. call.op \in {"allSent", "allRcvd", "reset"} /\ call # NoCall /\ Done = FALSE
  BY <1>1 DEF IInv, StepOK, Done, NoCall
<1>3. CASE at' = "readdirRcvd"
  BY <1>1, <1>2, <1>3, StutterMaps DEF Done
<1>4. CASE at' = "ok"
  <2>1. Done' = TRUE
    BY <1>4 DEF Done
  <2>2. CASE call.op = "reset"
    <3>1. \A k \in Keys : Current(k) = None /\ file[RcvdName(k)] = None
      BY <1>1, <1>4, <2>2 DEF IInv, ResetOK, NoSent, Current
    <3>2. SentRecords = [k \in Keys |-> None] /\ RcvdRecords = [k \in Keys |-> None]
      BY <3>1 DEF SentRecords, RcvdRecords
    <3>3. QED
      BY <1>1, <1>2, <2>1, <2>2, <3>2 DEF Store!Effect, Store!NoCall, NoCall
  <2>3. CASE call.op \in {"allSent", "allRcvd"}
    BY <1>1, <1>2, <2>1, <2>3 DEF Store!Effect, Store!NoCall, NoCall
  <2>4. QED
    BY <1>2, <2>2, <2>3
<1>5. QED
  BY <1>1, <1>3, <1>4

\* What the calls that read return is the records at that moment.
LEMMA ReturnMaps ==
    ASSUME IInv, Return
    PROVE  Store!ReturnOk \/ Store!ReturnFailure
<1>1. /\ call' = NoCall /\ at' = "idle" /\ at \in {"ok", "fail"} /\ call # NoCall
      /\ SentRecords' = SentRecords /\ RcvdRecords' = RcvdRecords
      /\ Done' = FALSE
  BY SentKept, RcvdKept DEF Return, IInv, StepOK, Done
<1>2. CASE at = "fail"
  <2>1. call.op \in {"addSent", "updSent", "addRcvd"} => ~Done
    BY <1>2 DEF Done
  <2>2. reply' = Failure
    BY <1>2 DEF Return, IInv, StepOK
  <2>3. QED
    BY <1>1, <2>1, <2>2 DEF Store!ReturnFailure, Store!NoCall, NoCall, Store!Failure, Failure
<1>3. CASE at = "ok"
  <2>1. Done = TRUE
    BY <1>3 DEF Done
  <2>2. None \notin Contents
    BY ContentsAssumption DEF Contents
  <2>3. /\ SentRecords \in [Keys -> Contents \cup {None}]
        /\ RcvdRecords \in [Keys -> Contents \cup {None}]
        /\ res \subseteq Keys \X Contents
    BY RecordFacts DEF IInv, TypeOK, Contents
  <2>4. call.op = "allSent" => res = Store!Records(SentRecords)
    <3>1. SUFFICES ASSUME call.op = "allSent" PROVE res = Store!Records(SentRecords)
      OBVIOUS
    <3>2. \A k \in Keys, d \in Contents : <<k, d>> \in res <=> SentRecords[k] = d
      BY <1>3, <3>1, GatheredAll DEF SentRecords
    <3>3. QED
      BY <2>2, <2>3, <3>2 DEF Store!Records
  <2>5. call.op = "allRcvd" => res = Store!Records(RcvdRecords)
    <3>1. SUFFICES ASSUME call.op = "allRcvd" PROVE res = Store!Records(RcvdRecords)
      OBVIOUS
    <3>2. \A k \in Keys, d \in Contents : <<k, d>> \in res <=> RcvdRecords[k] = d
      BY <1>3, <3>1, GatheredAll DEF RcvdRecords
    <3>3. QED
      BY <2>2, <2>3, <3>2 DEF Store!Records
  <2>6. reply' = CASE call.op = "allSent" -> [Ok EXCEPT !.records = Store!Records(SentRecords)]
                   [] call.op = "allRcvd" -> [Ok EXCEPT !.records = Store!Records(RcvdRecords)]
                   [] OTHER               -> Ok
    <3>1. reply' = IF call.op \in {"allSent", "allRcvd"} THEN [Ok EXCEPT !.records = res] ELSE Ok
      BY <1>3 DEF Return
    <3>2. CASE call.op = "allSent"
      BY <2>4, <3>1, <3>2
    <3>3. CASE call.op = "allRcvd"
      BY <2>5, <3>1, <3>3
    <3>4. CASE call.op \notin {"allSent", "allRcvd"}
      BY <3>1, <3>4
    <3>5. QED
      BY <3>2, <3>3, <3>4
  <2>7. QED
    BY <1>1, <2>1, <2>6 DEF Store!ReturnOk, Store!NoCall, NoCall, Store!Ok, Ok
<1>4. QED
  BY <1>1, <1>2, <1>3

LEMMA StopMaps ==
    ASSUME Stop
    PROVE  Store!Crash
<1>1. /\ call' = NoCall /\ reply' = reply /\ Done' = FALSE
      /\ SentRecords' = SentRecords /\ RcvdRecords' = RcvdRecords
  BY SentKept, RcvdKept DEF Stop, Done
<1>2. QED
  BY <1>1 DEF Store!Crash, Store!NoCall, NoCall

LEMMA InitMaps == Init => Store!Init
<1> SUFFICES ASSUME Init PROVE Store!Init
  OBVIOUS
<1>1. \A k \in Keys : Current(k) = None /\ file[RcvdName(k)] = None
  BY NameFacts DEF Init, Current
<1>2. /\ SentRecords = [k \in Keys |-> None] /\ RcvdRecords = [k \in Keys |-> None]
      /\ Done = FALSE
  BY <1>1 DEF SentRecords, RcvdRecords, Done, Init
<1>3. QED
  BY <1>2 DEF Init, Store!Init, Store!NoCall, NoCall, Store!Ok, Ok

LEMMA NextMaps ==
    ASSUME FilesObey, IInv, [Next]_vars
    PROVE  [Store!Next]_(Store!vars)
<1>1. CASE \/ \E clean \in BOOLEAN : Connect(clean)
           \/ LoadReceived \/ Reset
           \/ \E k \in Keys :
                \/ \E d \in Requests : AddSent(k, d)
                \/ \E d \in Releases : UpdSent(k, d)
                \/ \E p \in Publications : AddRcvd(k, p)
                \/ DelSent(k) \/ UpdRcvd(k) \/ DelRcvd(k)
  BY <1>1, BeginsMap
<1>2. CASE OpenTmp \/ WriteTmp \/ RenameTmp \/ UnlinkTmp
  BY <1>2, TmpMaps, RenameMaps DEF Store!Next, Stutter
<1>3. CASE UnlinkOld \/ UnlinkFirst \/ UnlinkSecond
  BY <1>3, UnlinkOldMaps, UnlinksMap DEF Store!Next, Stutter
<1>4. CASE OpenRcvd \/ WriteByte \/ UnlinkRcvd
  BY <1>4, UpdRcvdMaps, UnlinkRcvdMaps DEF Store!Next, Stutter
<1>5. ASSUME NEW n \in Names, ReadEntry(n) \/ ResetEntry(n)
      PROVE  [Store!Next]_(Store!vars)
  BY <1>5, ReadEntryMaps, ResetEntryMaps DEF Stutter
<1>6. CASE EndOfDir \/ Return \/ Stop
  BY <1>6, EndOfDirMaps, ReturnMaps, StopMaps DEF Store!Next, Stutter
<1>7. CASE UNCHANGED vars
  <2>1. SentRecords' = SentRecords /\ RcvdRecords' = RcvdRecords /\ (Done <=> Done')
    BY <1>7, SentKept, RcvdKept DEF vars, Done
  <2>2. QED
    BY <1>7, <2>1, StutterMaps DEF vars, Stutter
<1>8. QED
  BY <1>1, <1>2, <1>3, <1>4, <1>5, <1>6, <1>7 DEF Next

\* While files can be read, and deleted by the calls that delete them, File.pm
\* is a store whose calls take effect at one moment or not at all, for every
\* set of keys and messages, whichever write fails and wherever the process
\* stops.
THEOREM FilesImplementStore ==
    ASSUME FilesObey
    PROVE  Spec => ImplementsAtomicStore
<1>1. Init => Store!Init
  BY InitMaps
<1>2. IInv /\ [Next]_vars => [Store!Next]_(Store!vars)
  BY NextMaps
<1>3. QED
  BY <1>1, <1>2, Invariance, PTL DEF Spec, ImplementsAtomicStore, Store!Spec

-----------------------------------------------------------------------------
(* Recovery returns what was last written.                                 *)

\* What the files of a key stand for is what was last written under it, and
\* nothing was written since a reset began.
LatestOK ==
    /\ \A k \in Keys : Current(k) # None => newest[k] \in {Current(k), None}
    /\ call.op = "reset" => newest = [k \in Keys |-> None]

\* A step that writes nothing leaves the records, or takes one away.
LEMMA LatestKept ==
    ASSUME IInv, LatestOK, newest' = newest,
           \A k \in Keys : Current(k)' \in {Current(k), None},
           call'.op = "reset" => call.op = "reset"
    PROVE  LatestOK'
  BY DEF LatestOK

LEMMA LatestBegin ==
    ASSUME IInv, LatestOK, file' = file,
           \/ newest' = newest /\ call'.op # "reset"
           \/ newest' = [k \in Keys |-> None]
    PROVE  LatestOK'
  BY SentKept DEF LatestOK

LEMMA LatestHolds ==
    ASSUME FilesObey, IInv, LatestOK, [Next]_vars
    PROVE  LatestOK'
<1>1. CASE (\E clean \in BOOLEAN : Connect(clean)) \/ LoadReceived \/ Reset
  BY <1>1, LatestBegin DEF Connect, LoadReceived, Reset, Begin
<1>2. ASSUME NEW k \in Keys,
             \/ \E d \in Requests : AddSent(k, d)
             \/ \E d \in Releases : UpdSent(k, d)
             \/ \E p \in Publications : AddRcvd(k, p)
             \/ DelSent(k) \/ UpdRcvd(k) \/ DelRcvd(k)
      PROVE  LatestOK'
  BY <1>2, LatestBegin DEF AddSent, UpdSent, AddRcvd, DelSent, UpdRcvd, DelRcvd, Begin
<1>3. CASE OpenTmp \/ WriteTmp \/ (RenameTmp /\ ~RenameOk) \/ UnlinkTmp
  BY <1>3, TmpHolds, SentKept, LatestKept
<1>4. CASE RenameOk
  <2>1. call' = call /\ call.key \in Keys /\ Adding /\ call.op # "reset"
    BY <1>4, RenameFacts DEF RenameOk, Goto, Adding
  <2>2. \A k \in Keys :
          Current(k)' = IF call.op # "addRcvd" /\ k = call.key THEN call.data ELSE Current(k)
    <3>1. /\ call.op = "addSent" => file[UpdName(call.key)] = None
          /\ call.op = "updSent" => call.data # None
      BY CallFacts, ContentsAssumption DEF IInv, FilesOK, CallOK
    <3>2. QED
      BY <1>4, <2>1, <3>1, RenameFacts DEF Current, Adding
  <2>3. QED
    BY <1>4, <2>1, <2>2, RenameFacts DEF LatestOK, IInv, TypeOK
<1>5. CASE UnlinkOld
  <2>1. \A k \in Keys : Current(k)' = Current(k)
    BY <1>5, UnlinkOldHolds DEF Current
  <2>2. QED
    BY <1>5, <2>1, LatestKept DEF UnlinkOld, Goto
<1>6. CASE UnlinkFirst \/ UnlinkSecond
  <2>1. \A k \in Keys : Current(k)' \in {Current(k), None}
    <3>1. CASE UnlinkFirst
      BY <3>1, UnlinkFirstHolds DEF Current
    <3>2. CASE UnlinkSecond
      <4>1. file[SentName(call.key)] = None
        BY <3>2 DEF UnlinkSecond, IInv, FilesOK, StepOK
      <4>2. QED
        BY <3>2, <4>1, UnlinkSecondHolds DEF Current
    <3>3. QED
      BY <1>6, <3>1, <3>2
  <2>2. QED
    BY <1>6, <2>1, LatestKept DEF UnlinkFirst, UnlinkSecond, Goto
<1>7. CASE OpenRcvd \/ WriteByte \/ UnlinkRcvd
  BY <1>7, OpenRcvdHolds, WriteByteHolds, UnlinkRcvdHolds, SentKept, LatestKept
<1>8. ASSUME NEW n \in Names, ReadEntry(n) PROVE LatestOK'
  BY <1>8, SentKept, LatestKept DEF ReadEntry
<1>9. ASSUME NEW n \in Names, ResetEntry(n) PROVE LatestOK'
  <2>1. newest' = newest /\ call' = call /\ call.op = "reset"
    BY <1>9 DEF ResetEntry
  <2>2. QED
    BY <2>1 DEF LatestOK
<1>10. CASE EndOfDir \/ Return \/ Stop
  BY <1>10, SentKept, LatestKept DEF EndOfDir, Return, Stop, NoCall
<1>11. CASE UNCHANGED vars
  BY <1>11, SentKept, LatestKept DEF vars
<1>12. QED
  BY <1>1, <1>2, <1>3, <1>4, <1>5, <1>6, <1>7, <1>8, <1>9, <1>10, <1>11
  DEF Next

\* While files can be read, and deleted by the calls that delete them, what
\* getAllSentMessages returns under a key is what was last written under it,
\* never the PUBLISH of a PUBREL, whatever a crash left on the disk.
THEOREM RestoresLatestHolds ==
    ASSUME FilesObey
    PROVE  Spec => []RestoresLatest
<1>1. Init => LatestOK
  <2>1. SUFFICES ASSUME Init PROVE LatestOK
    OBVIOUS
  <2>2. \A k \in Keys : Current(k) = None
    BY <2>1, NameFacts DEF Init, Current
  <2>3. QED
    BY <2>1, <2>2 DEF LatestOK, Init, NoCall
<1>2. IInv /\ LatestOK /\ [Next]_vars => LatestOK'
  BY LatestHolds
<1>3. IInv /\ LatestOK => RestoresLatest
  <2>1. SUFFICES ASSUME IInv, LatestOK, call.op = "allSent", at = "ok", NEW e \in res
                 PROVE  newest[e[1]] \in {e[2], None}
    BY DEF RestoresLatest
  <2>2. e[1] \in Keys /\ e[2] \in Contents /\ e = <<e[1], e[2]>> /\ None \notin Contents
    BY <2>1, ContentsAssumption DEF IInv, TypeOK, Contents
  <2>3. Current(e[1]) = e[2]
    BY <2>1, <2>2, GatheredAll
  <2>4. QED
    BY <2>1, <2>2, <2>3 DEF LatestOK
<1>4. QED
  BY <1>1, <1>2, <1>3, Invariance, PTL DEF Spec
=============================================================================
