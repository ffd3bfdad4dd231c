---------------------------- MODULE AtomicStore -----------------------------
(***************************************************************************)
(* What the library relies on when it calls a persistence interface        *)
(* (MQISDP_PERSIST of MQIsdp.h): a record of what was sent and one of what *)
(* was received under every key.  A call takes effect at one moment        *)
(* between its beginning and its end, or not at all; a call that returns 0 *)
(* has taken effect; a crash at any moment loses the call in progress and  *)
(* nothing else.  Only a reset is spread over several moments.             *)
(*                                                                         *)
(* FileStore implements this with the files of                             *)
(* WebSphere::MQTT::Persist::File.                                         *)
(***************************************************************************)
EXTENDS Naturals

CONSTANTS
    Keys,          \* the keys of the records
    Requests,      \* the PUBLISH, SUBSCRIBE and UNSUBSCRIBE messages sent
    Releases,      \* the PUBREL messages that take the place of a PUBLISH
    Publications,  \* the publications received
    None           \* no record, no argument

VARIABLES
    sent,          \* sent[k]: the message stored as sent under k, or None
    rcvd,          \* rcvd[k]: the publication stored as received under k, or None
    call,          \* the call in progress, or NoCall
    done,          \* it has taken effect
    reply          \* what the last call returned: a code and the records it read

vars == <<sent, rcvd, call, done, reply>>

Received == [pub : Publications, released : BOOLEAN]

NoCall == [op |-> "none", key |-> None, data |-> None]

Calls ==
         [op : {"addSent"}, key : Keys, data : Requests]
    \cup [op : {"updSent"}, key : Keys, data : Releases]
    \cup [op : {"addRcvd"}, key : Keys, data : [pub : Publications, released : {FALSE}]]
    \cup [op : {"delSent", "updRcvd", "delRcvd"}, key : Keys, data : {None}]
    \cup [op : {"allSent", "allRcvd", "reset"}, key : {None}, data : {None}]

Ok      == [rc |-> 0, records |-> {}]
Failure == [rc |-> 1, records |-> {}]

\* The records of a half of the store, as the calls that read them return them.
Records(half) == {<<k, half[k]>> : k \in {j \in Keys : half[j] # None}}

Init ==
    /\ sent = [k \in Keys |-> None]
    /\ rcvd = [k \in Keys |-> None]
    /\ call = NoCall
    /\ done = FALSE
    /\ reply = Ok

\* A key is given to a new request only when no record is left under it.
Begin(c) ==
    /\ call = NoCall
    /\ c.op = "addSent" => sent[c.key] = None
    /\ call' = c
    /\ UNCHANGED <<sent, rcvd, done, reply>>

\* The moment the call in progress takes effect.
Effect ==
    /\ call # NoCall /\ ~done
    /\ done' = TRUE
    /\ call.op = "updRcvd" => rcvd[call.key] # None
    /\ sent' = CASE call.op \in {"addSent", "updSent"} -> [sent EXCEPT ![call.key] = call.data]
                 [] call.op = "delSent"                -> [sent EXCEPT ![call.key] = None]
                 [] call.op = "reset"                  -> [k \in Keys |-> None]
                 [] OTHER                              -> sent
    /\ rcvd' = CASE call.op = "addRcvd" -> [rcvd EXCEPT ![call.key] = call.data]
                 [] call.op = "updRcvd" -> [rcvd EXCEPT ![call.key].released = TRUE]
                 [] call.op = "delRcvd" -> [rcvd EXCEPT ![call.key] = None]
                 [] call.op = "reset"   -> [k \in Keys |-> None]
                 [] OTHER               -> rcvd
    /\ UNCHANGED <<call, reply>>

\* A reset forgets the records one by one.  Until it returns, a request may
\* take the place of the PUBREL that had replaced it.
ResetOne(k) ==
    /\ call.op = "reset" /\ ~done
    /\ \/ /\ sent[k] # None
          /\ \E d \in Requests \cup {None} : sent' = [sent EXCEPT ![k] = d]
          /\ UNCHANGED rcvd
       \/ /\ rcvd' = [rcvd EXCEPT ![k] = None]
          /\ UNCHANGED sent
    /\ UNCHANGED <<call, done, reply>>

\* The call in progress returns 0, or the records it was asked for.
ReturnOk ==
    /\ done
    /\ reply' = CASE call.op = "allSent" -> [Ok EXCEPT !.records = Records(sent)]
                  [] call.op = "allRcvd" -> [Ok EXCEPT !.records = Records(rcvd)]
                  [] OTHER               -> Ok
    /\ call' = NoCall
    /\ done' = FALSE
    /\ UNCHANGED <<sent, rcvd>>

\* The call in progress returns 1.  A message that could not be stored is not
\* stored; of the other calls the caller does not know.
ReturnFailure ==
    /\ call # NoCall
    /\ call.op \in {"addSent", "updSent", "addRcvd"} => ~done
    /\ reply' = Failure
    /\ call' = NoCall
    /\ done' = FALSE
    /\ UNCHANGED <<sent, rcvd>>

Crash ==
    /\ call' = NoCall
    /\ done' = FALSE
    /\ UNCHANGED <<sent, rcvd, reply>>

Next ==
    \/ \E c \in Calls : Begin(c)
    \/ Effect
    \/ \E k \in Keys : ResetOne(k)
    \/ ReturnOk
    \/ ReturnFailure
    \/ Crash

Spec == Init /\ [][Next]_vars
=============================================================================
