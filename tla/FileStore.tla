----------------------------- MODULE FileStore ------------------------------
(***************************************************************************)
(* The persistence object WebSphere::MQTT::Persist::File (File.pm), as the *)
(* library calls it through ppersist.c: two directories, one file per      *)
(* message, its name the key.  A PUBREL is a second file, NNNu, written    *)
(* before the file NNN of its PUBLISH is removed.                          *)
(*                                                                         *)
(* One action is one system call.  Any of them may fail where Faults says  *)
(* so, and the process may die between any two.  A file is written under a *)
(* temporary name and renamed, so what a crash leaves half written is not  *)
(* found by the calls that read the directories.                           *)
(***************************************************************************)
EXTENDS Naturals

CONSTANTS
    Keys,          \* the keys of the records
    Requests,      \* the PUBLISH, SUBSCRIBE and UNSUBSCRIBE messages sent
    Releases,      \* the PUBREL messages that take the place of a PUBLISH
    Publications,  \* the publications received
    None,          \* no file, no argument
    Torn,          \* the content of a file that is not written to its end
    Faults         \* the system calls that may fail, see FaultKinds

\* "write": writing or renaming a file, and unlinking a received one;
\* "leftover": unlinking NNN after NNNu was written;
\* "delete": unlinking in delSentMessage and reset; "read": reading a file.
FaultKinds == {"write", "leftover", "delete", "read"}

Received == [pub : Publications, released : BOOLEAN]

ASSUME FaultsAssumption == Faults \subseteq FaultKinds

ASSUME ContentsAssumption ==
    /\ Requests \cap Releases = {}
    /\ None \notin Keys \cup Requests \cup Releases \cup Received
    /\ Torn \notin Requests \cup Releases \cup Received \cup {None}
    /\ (Requests \cup Releases) \cap Received = {}

VARIABLES
    file,     \* file[n]: what the file of name n holds, or None
    call,     \* the call in progress, or NoCall
    at,       \* the next system call it makes; "ok", "fail": it returns
    todo,     \* the directory entries still to be visited
    res,      \* what a call that reads a directory has gathered
    reply,    \* what the last call returned: a code and the records it read
    phase,    \* "down", "recover" (reading what was sent, or reset), "load"
              \* (reading what was received), "up"
    held,     \* the keys the library holds a message under, see HeldAfter
    newest    \* history: newest[k] is the message last written as sent under k

vars == <<file, call, at, todo, res, reply, phase, held, newest>>

NoCall == [op |-> "none", key |-> None, data |-> None]

Ok      == [rc |-> 0, records |-> {}]
Failure == [rc |-> 1, records |-> {}]

-----------------------------------------------------------------------------
(* The names of the files.                                                 *)

Dirs == {"sent", "rcvd"}

Names == Dirs \X Keys \X {"", "u"} \cup Dirs \X {None} \X {"tmp"}

SentName(k) == <<"sent", k, "">>
UpdName(k)  == <<"sent", k, "u">>
RcvdName(k) == <<"rcvd", k, "">>

\* Mutant: messages are written under their own name.
TmpNameInPlace(n) == n

\* The temporary name of the file n.  It holds the key and the process id;
\* of the temporary files that crashes left, one per directory is kept.
TmpName(n) == <<n[1], None, "tmp">>

\* The names that getAllSentMessages and getAllReceivedMessages match.
Recoverable(n) ==
    \/ n[1] = "sent" /\ n[3] \in {"", "u"}
    \/ n[1] = "rcvd" /\ n[3] = ""

\* The file that addMessage writes for the call in progress.
Target(c) ==
    CASE c.op = "addSent" -> SentName(c.key)
      [] c.op = "updSent" -> UpdName(c.key)
      [] c.op = "addRcvd" -> RcvdName(c.key)

Entries(dir) == {n \in Names : n[1] = dir /\ file[n] # None}

-----------------------------------------------------------------------------
Init ==
    /\ file = [n \in Names |-> None]
    /\ call = NoCall
    /\ at = "idle"
    /\ todo = {}
    /\ res = {}
    /\ reply = Ok
    /\ phase = "down"
    /\ held = {}
    /\ newest = [k \in Keys |-> None]

(* The calls, AddMessage, DelMessage, Close and GetAllMessages of          *)
(* ppersist.c: the method is called and its result is passed on.           *)
Begin(op, k, d, first) ==
    /\ call = NoCall
    /\ call' = [op |-> op, key |-> k, data |-> d]
    /\ at' = first
    /\ UNCHANGED <<file, res, reply, held>>

\* A connect empties the store (clean session) or reads what was sent.
Connect(clean) ==
    /\ phase = "down"
    /\ phase' = "recover"
    /\ Begin(IF clean THEN "reset" ELSE "allSent", None, None, "readdir")
    /\ todo' = Entries("sent")
    /\ newest' = IF clean THEN [k \in Keys |-> None] ELSE newest

LoadReceived ==
    /\ phase = "load"
    /\ Begin("allRcvd", None, None, "readdir")
    /\ todo' = Entries("rcvd")
    /\ UNCHANGED <<phase, newest>>

AddSent(k, d) ==
    /\ phase = "up" /\ <<"sent", k>> \notin held
    /\ Begin("addSent", k, d, "open")
    /\ UNCHANGED <<todo, phase, newest>>

\* Also for a key the library does not hold: every PUBREC is answered.
UpdSent(k, d) ==
    /\ phase = "up"
    /\ Begin("updSent", k, d, "open")
    /\ UNCHANGED <<todo, phase, newest>>

\* Also for a key the library does not hold: acknowledgements are repeated.
DelSent(k) ==
    /\ phase = "up"
    /\ Begin("delSent", k, None, "unlinkFirst")
    /\ UNCHANGED <<todo, phase, newest>>

AddRcvd(k, p) ==
    /\ phase = "up" /\ <<"rcvd", k>> \notin held
    /\ Begin("addRcvd", k, [pub |-> p, released |-> FALSE], "open")
    /\ UNCHANGED <<todo, phase, newest>>

UpdRcvd(k) ==
    /\ phase = "up" /\ <<"rcvd", k>> \in held
    /\ Begin("updRcvd", k, None, "openRcvd")
    /\ UNCHANGED <<todo, phase, newest>>

DelRcvd(k) ==
    /\ phase = "up" /\ <<"rcvd", k>> \in held
    /\ Begin("delRcvd", k, None, "unlinkRcvd")
    /\ UNCHANGED <<todo, phase, newest>>

\* mspResetHconn of a clean session empties the store, then the process may
\* disconnect or go on to connect again.
Reset ==
    /\ phase = "up"
    /\ Begin("reset", None, None, "readdir")
    /\ todo' = Entries("sent")
    /\ newest' = [k \in Keys |-> None]
    /\ UNCHANGED phase

-----------------------------------------------------------------------------
(* addMessage: open, write, close and rename.                              *)

Write(n, d) == file' = [file EXCEPT ![n] = d]

Goto(step) ==
    /\ at' = step
    /\ UNCHANGED <<call, todo, res, reply, phase, held>>

OpenTmp ==
    /\ at = "open"
    /\ \/ Write(TmpName(Target(call)), Torn) /\ Goto("write")
       \/ "write" \in Faults /\ Goto("fail") /\ UNCHANGED file
    /\ UNCHANGED newest

\* Writing and closing: one that fails may have written all or a part.
WriteTmp ==
    /\ at = "write"
    /\ \/ Write(TmpName(Target(call)), call.data) /\ Goto("rename")
       \/ /\ "write" \in Faults
          /\ \E d \in {Torn, call.data} : Write(TmpName(Target(call)), d)
          /\ Goto("unlinkTmp")
    /\ UNCHANGED newest

RenameTmp ==
    /\ at = "rename"
    /\ \/ /\ file' = [file EXCEPT ![TmpName(Target(call))] = None,
                                  ![Target(call)] = file[TmpName(Target(call))]]
          /\ Goto(IF call.op = "updSent" THEN "unlinkOld" ELSE "ok")
          /\ newest' = IF call.op = "addRcvd" THEN newest
                       ELSE [newest EXCEPT ![call.key] = file[TmpName(Target(call))]]
       \/ "write" \in Faults /\ Goto("unlinkTmp") /\ UNCHANGED <<file, newest>>

UnlinkTmp ==
    /\ at = "unlinkTmp"
    /\ \/ Write(TmpName(Target(call)), None)
       \/ UNCHANGED file
    /\ Goto("fail")
    /\ UNCHANGED newest

\* updSentMessage removes NNN once NNNu is there, and does not look whether
\* it could.
UnlinkOld ==
    /\ at = "unlinkOld"
    /\ \/ Write(SentName(call.key), None)
       \/ "leftover" \in Faults /\ UNCHANGED file
    /\ Goto("ok")
    /\ UNCHANGED newest

-----------------------------------------------------------------------------
(* delSentMessage: NNN first, then NNNu; a file that is not there is not   *)
(* an error.                                                               *)

\* Mutant: NNNu is removed before NNN.
DelOrderSwapped(k) == <<UpdName(k), SentName(k)>>

DelOrder(k) == <<SentName(k), UpdName(k)>>

UnlinkFirst ==
    /\ at = "unlinkFirst"
    /\ \/ Write(DelOrder(call.key)[1], None) /\ Goto("unlinkSecond")
       \/ "delete" \in Faults /\ Goto("fail") /\ UNCHANGED file
    /\ UNCHANGED newest

UnlinkSecond ==
    /\ at = "unlinkSecond"
    /\ \/ Write(DelOrder(call.key)[2], None) /\ Goto("ok")
       \/ "delete" \in Faults /\ Goto("fail") /\ UNCHANGED file
    /\ UNCHANGED newest

-----------------------------------------------------------------------------
(* updReceivedMessage sets the release flag in place; delReceivedMessage.  *)

OpenRcvd ==
    /\ at = "openRcvd"
    /\ \/ file[RcvdName(call.key)] # None /\ Goto("writeByte")
       \/ file[RcvdName(call.key)] = None /\ Goto("fail")
       \/ "write" \in Faults /\ Goto("fail")
    /\ UNCHANGED <<file, newest>>

\* Reading the last byte, writing it with the flag, and closing.
WriteByte ==
    /\ at = "writeByte"
    /\ \/ Write(RcvdName(call.key), [file[RcvdName(call.key)] EXCEPT !.released = TRUE])
          /\ \/ Goto("ok")
             \/ "write" \in Faults /\ Goto("fail")
       \/ "write" \in Faults /\ Goto("fail") /\ UNCHANGED file
    /\ UNCHANGED newest

UnlinkRcvd ==
    /\ at = "unlinkRcvd"
    /\ \/ /\ file[RcvdName(call.key)] # None
          /\ Write(RcvdName(call.key), None)
          /\ Goto("ok")
       \/ /\ file[RcvdName(call.key)] = None \/ "write" \in Faults
          /\ Goto("fail")
          /\ UNCHANGED file
    /\ UNCHANGED newest

-----------------------------------------------------------------------------
(* forallfiles: the entries of a directory, in any order.                  *)

Seen(k) == \E e \in res : e[1] = k

\* Mutant: whatever is met first under a key is kept.
GatheredFirst(n) == IF n[1] = "sent" /\ Seen(n[2]) THEN res ELSE res \cup {<<n[2], file[n]>>}

\* NNNu takes the place of NNN in what getAllSentMessages gathers, and NNN is
\* ignored after NNNu.
Gathered(n) ==
    IF n[1] = "sent" /\ Seen(n[2])
    THEN IF n[3] = "u" THEN {e \in res : e[1] # n[2]} \cup {<<n[2], file[n]>>} ELSE res
    ELSE res \cup {<<n[2], file[n]>>}

\* A file that cannot be read is left out.
ReadEntry(n) ==
    /\ at = "readdir" /\ call.op \in {"allSent", "allRcvd"} /\ n \in todo
    /\ todo' = todo \ {n}
    /\ \/ res' = IF Recoverable(n) THEN Gathered(n) ELSE res
       \/ "read" \in Faults /\ res' = res
    /\ UNCHANGED <<file, call, at, reply, phase, held, newest>>

\* reset does not look whether a file could be removed.
ResetEntry(n) ==
    /\ at \in {"readdir", "readdirRcvd"} /\ call.op = "reset" /\ n \in todo
    /\ todo' = todo \ {n}
    /\ \/ Write(n, None)
       \/ "delete" \in Faults /\ UNCHANGED file
    /\ UNCHANGED <<call, at, res, reply, phase, held, newest>>

EndOfDir ==
    /\ at \in {"readdir", "readdirRcvd"} /\ todo = {}
    /\ IF call.op = "reset" /\ at = "readdir"
       THEN at' = "readdirRcvd" /\ todo' = Entries("rcvd")
       ELSE at' = "ok" /\ UNCHANGED todo
    /\ UNCHANGED <<file, call, res, reply, phase, held, newest>>

-----------------------------------------------------------------------------
(* The end of a call, of the connection and of the process.                *)

\* What the library holds a message under when the call returns.  It does
\* not look at what the calls that delete return.
HeldAfter ==
    LET half == IF call.op \in {"addSent", "updSent", "delSent", "allSent"}
                THEN "sent" ELSE "rcvd"
        gathered == {<<half, e[1]>> : e \in res}
    IN  CASE call.op \in {"addSent", "updSent", "addRcvd"} /\ at = "ok"
                                              -> held \cup {<<half, call.key>>}
          [] call.op \in {"delSent", "delRcvd"}  -> held \ {<<half, call.key>>}
          [] call.op \in {"allSent", "allRcvd"}  -> held \cup gathered
          [] call.op = "reset"                   -> {}
          [] OTHER                               -> held

Return ==
    /\ at \in {"ok", "fail"}
    /\ reply' = CASE at = "fail"                        -> Failure
                  [] call.op \in {"allSent", "allRcvd"} -> [Ok EXCEPT !.records = res]
                  [] OTHER                             -> Ok
    /\ held' = HeldAfter
    /\ phase' = IF call.op = "allSent" THEN "load" ELSE "up"
    /\ call' = NoCall
    /\ at' = "idle"
    /\ res' = {}
    /\ UNCHANGED <<file, todo, newest>>

\* A disconnect, or the end of the process, at any moment.
Stop ==
    /\ phase # "down"
    /\ phase' = "down"
    /\ call' = NoCall
    /\ at' = "idle"
    /\ todo' = {}
    /\ res' = {}
    /\ held' = {}
    /\ UNCHANGED <<file, reply, newest>>

Next ==
    \/ \E clean \in BOOLEAN : Connect(clean)
    \/ LoadReceived
    \/ \E k \in Keys :
         \/ \E d \in Requests : AddSent(k, d)
         \/ \E d \in Releases : UpdSent(k, d)
         \/ \E p \in Publications : AddRcvd(k, p)
         \/ DelSent(k) \/ UpdRcvd(k) \/ DelRcvd(k)
    \/ Reset
    \/ OpenTmp \/ WriteTmp \/ RenameTmp \/ UnlinkTmp \/ UnlinkOld
    \/ UnlinkFirst \/ UnlinkSecond
    \/ OpenRcvd \/ WriteByte \/ UnlinkRcvd
    \/ \E n \in Names : ReadEntry(n) \/ ResetEntry(n)
    \/ EndOfDir
    \/ Return
    \/ Stop

Spec == Init /\ [][Next]_vars

-----------------------------------------------------------------------------
(* Properties.                                                             *)

Steps == {"idle", "open", "write", "rename", "unlinkTmp", "unlinkOld",
          "unlinkFirst", "unlinkSecond", "openRcvd", "writeByte",
          "unlinkRcvd", "readdir", "readdirRcvd", "ok", "fail"}

Contents == Requests \cup Releases \cup Received

Ops == {"none", "addSent", "updSent", "delSent", "addRcvd", "updRcvd",
        "delRcvd", "allSent", "allRcvd", "reset"}

\* Every variable has its type; what stands under a name that recovery reads
\* was written to its end, and is what that name is for.
TypeOK ==
    /\ file \in [Names -> Contents \cup {None, Torn}]
    /\ \A k \in Keys :
         /\ file[SentName(k)] \in Requests \cup {None}
         /\ file[UpdName(k)] \in Releases \cup {None}
         /\ file[RcvdName(k)] \in Received \cup {None}
    /\ call \in [op : Ops, key : Keys \cup {None}, data : Contents \cup {None}]
    /\ at \in Steps
    /\ todo \subseteq Names
    /\ res \subseteq Keys \X Contents
    /\ reply \in [rc : {0, 1}, records : SUBSET (Keys \X Contents)]
    /\ phase \in {"down", "recover", "load", "up"}
    /\ held \subseteq Dirs \X Keys
    /\ newest \in [Keys -> Requests \cup Releases \cup {None}]

\* The message that the files of a key stand for: the PUBREL if there is one.
Current(k) == IF file[UpdName(k)] # None THEN file[UpdName(k)] ELSE file[SentName(k)]

\* The call in progress has taken effect: a file got its name, or the last
\* file of the key lost it.
Done ==
    \/ at \in {"unlinkOld", "ok"}
    \/ at = "unlinkSecond" /\ file[UpdName(call.key)] = None
    \/ at = "fail" /\ call.op = "updRcvd" /\ file[RcvdName(call.key)] # None
                   /\ file[RcvdName(call.key)].released

SentRecords == [k \in Keys |-> Current(k)]
RcvdRecords == [k \in Keys |-> file[RcvdName(k)]]

Store == INSTANCE AtomicStore
    WITH sent <- SentRecords, rcvd <- RcvdRecords, done <- Done

\* The files implement the atomic store: whatever system call fails or is the
\* last one before the process dies, a call that returned 0 has happened and
\* stays, one that could not store a message has not, a record is never half
\* of something or the older one of two, and recovery returns each record once.
ImplementsAtomicStore == Store!Spec

\* "we only restore the latest message associated with a particular key"
\* (File.pm:126): what getAllSentMessages returns under a key is what was last
\* written under it since the store was last emptied.
RestoresLatest ==
    call.op = "allSent" /\ at = "ok" =>
        \A e \in res : newest[e[1]] \in {e[2], None}
=============================================================================
