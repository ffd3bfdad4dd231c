------------------------------ MODULE TxQueue ------------------------------
(***************************************************************************)
(* WebSphere::MQTT::Client (Client.pm): txqueue, the publications whose    *)
(* delivery the application wants to hear of, and the calls that report it *)
(* through callbacks.  Nearly every method begins with txQueueSize, and a  *)
(* callback may call a method again, so the Perl stack is a sequence of    *)
(* frames.  The C library underneath is what the methods see of it: the    *)
(* state of the connection and the messages that are hashed under an id.   *)
(***************************************************************************)
EXTENDS Integers, SequencesExt

CONSTANTS
    Msgs,        \* the publications of the application
    Qos0,        \* those of QoS 0
    NoMsg,       \* no publication
    MaxId,       \* MQISDP_MAX_MSGS
    MaxTries,    \* 10: how often disconnect waits
    MaxBreaks,   \* bound: lost connections
    Options,     \* [persist: a persistence object is set and clean_start is not;
                 \*  async: connect does not wait;
                 \*  again: the application connects again without a disconnect]
    Inner,       \* what callbacks call: a subset of {"status", "publish"}
    MaxDepth     \* bound: frames on the stack

ASSUME ClientAssumption ==
    /\ NoMsg \notin Msgs /\ Qos0 \subseteq Msgs
    /\ MaxId \in Nat \ {0} /\ MaxTries \in Nat /\ MaxBreaks \in Nat /\ MaxDepth \in Nat \ {0}
    /\ Options \subseteq [persist : BOOLEAN, async : BOOLEAN, again : BOOLEAN]
    /\ Inner \subseteq {"status", "publish"}

VARIABLES
    opts,        \* the configuration of the client
    conn,        \* the connection of {'handle'}: "NONE", or its status
    hash,        \* the unacknowledged publication of each id, in the queue and the store
    nextId,      \* nextMsgId
    breaks,      \* lost connections so far
    txqueue,     \* {'txqueue'}: [hmsg, msg], with the publication for its callback
    stack,       \* the methods that run, the innermost last
    published,   \* the publications xs_publish was called for
    acked,       \* the publications the broker has acknowledged
    reports      \* the calls of each publication's callback: "ok" or "failed"

libVars == <<conn, hash, nextId, breaks, acked>>
vars    == <<opts, libVars, txqueue, stack, published, reports>>

Ids == 1..MaxId

\* "BROKEN": MQISDP_CONNECTION_BROKEN.
Statuses == {"CONNECTING", "CONNECTED", "DISCONNECTED", "BROKEN"}

\* A method, and where its txQueueSize is: the index into the queue, and "ask", the verdict
\* on the entry there, or "called" after its callback.
Frame(call, msg) == [call |-> call, msg |-> msg, tries |-> 0, i |-> 1, at |-> "ask"]
Top       == Last(stack)
Step(f)   == stack' = Append(Front(stack), f)
Return    == stack' = Front(stack)

Init ==
    /\ opts \in Options
    /\ conn = "NONE" /\ hash = [id \in Ids |-> NoMsg] /\ nextId = 1 /\ breaks = 0
    /\ txqueue = <<>> /\ stack = <<>>
    /\ published = {} /\ acked = {} /\ reports = [m \in Msgs |-> <<>>]

-----------------------------------------------------------------------------
(* The library                                                             *)

\* xs_getMsgStatus.
MsgStatus(hmsg) ==
    IF conn = "NONE" THEN {"CONN_HANDLE_ERROR"}
    ELSE IF hash[hmsg] = NoMsg THEN {"DELIVERED"} ELSE {"IN_PROGRESS", "RETRYING"}

\* The id after this one: MSP_SET_NEXT_MSGID.
SetNextMsgId(id) == (id % MaxId) + 1

\* A new connection handle begins its ids after the largest one it finds in the store.
IdsRestart ==
    \E last \in {0} \union {id \in Ids : hash'[id] # NoMsg} :
        /\ \A id \in Ids : hash'[id] # NoMsg => id <= last
        /\ nextId' = SetNextMsgId(last)

\* xs_connect succeeds: the connection has the publications of the store, or none; or it
\* fails and {'handle'} becomes undefined.
Opened ==
    /\ conn' = "CONNECTING"
    /\ hash' = IF opts.persist THEN hash ELSE [id \in Ids |-> NoMsg]
    /\ IdsRestart
    /\ UNCHANGED <<breaks, acked>>

NotOpened == conn' = "NONE" /\ UNCHANGED <<hash, nextId, breaks, acked>>

\* The work the library does in every call: acknowledgements arrive, the connection is lost
\* and comes back, the retries are used up.
Acknowledged ==
    /\ conn = "CONNECTED"
    /\ \E id \in Ids :
          /\ hash[id] # NoMsg
          /\ acked' = acked \union {hash[id]} /\ hash' = [hash EXCEPT ![id] = NoMsg]
    /\ UNCHANGED <<opts, conn, nextId, breaks, txqueue, stack, published, reports>>

\* The connection is lost, or the broker refuses it.
LinkBreaks ==
    /\ conn \in {"CONNECTING", "CONNECTED"} /\ breaks < MaxBreaks
    /\ conn' = "DISCONNECTED" /\ breaks' = breaks + 1
    /\ UNCHANGED <<opts, hash, nextId, txqueue, stack, published, acked, reports>>

\* The CONNACK comes, a lost connection is tried again, or the retries are used up.
LinkSettles ==
    /\ \/ conn = "CONNECTING" /\ conn' \in {"CONNECTED", "BROKEN"}
       \/ conn = "DISCONNECTED" /\ conn' \in {"CONNECTING", "BROKEN"}
    /\ UNCHANGED <<opts, hash, nextId, breaks, txqueue, stack, published, acked, reports>>

\* The CONNACK of the last try comes after the retries were used up.
LateConnack ==
    /\ conn = "BROKEN" /\ conn' = "CONNECTED"
    /\ UNCHANGED <<opts, hash, nextId, breaks, txqueue, stack, published, acked, reports>>

-----------------------------------------------------------------------------
(* txQueueSize                                                             *)

Running == stack # <<>>

\* Mutant: the status is compared with the result of a call.
VerdictOnOk(s) ==
    IF s = "OK" THEN "ok"
    ELSE IF s \in {"MSG_HANDLE_ERROR", "CONN_HANDLE_ERROR"} THEN "failed" ELSE "transit"

\* What the answer of xs_getMsgStatus says of the message.
Verdict(s) ==
    IF s = "DELIVERED" THEN "ok"
    ELSE IF s \in {"MSG_HANDLE_ERROR", "CONN_HANDLE_ERROR"} THEN "failed" ELSE "transit"

\* The status of the next entry; one in transit is passed over.
Ask ==
    /\ Running /\ Top.at = "ask" /\ Top.i <= Len(txqueue)
    /\ \E s \in MsgStatus(txqueue[Top.i].hmsg) :
          IF Verdict(s) = "transit" THEN Step([Top EXCEPT !.i = @ + 1])
          ELSE Step([Top EXCEPT !.at = Verdict(s)])
    /\ UNCHANGED <<opts, libVars, txqueue, published, reports>>

\* The calls a callback may make, besides none.
Calls ==
    {<<Frame(call, NoMsg)>> : call \in Inner \intersect {"status"}}
    \union {<<Frame("publish", m)>> : m \in IF "publish" \in Inner THEN Msgs \ published ELSE {}}

\* The callback of the entry, which is still in the queue.
Callback ==
    /\ Running /\ Top.at \in {"ok", "failed"} /\ Top.i <= Len(txqueue)
    /\ reports' = [reports EXCEPT ![txqueue[Top.i].msg] = Append(@, Top.at)]
    /\ \E call \in {<<>>} \union IF Len(stack) < MaxDepth THEN Calls ELSE {} :
          stack' = Append(Front(stack), [Top EXCEPT !.at = "called"]) \o call
    /\ UNCHANGED <<opts, libVars, txqueue, published>>

\* Mutant: the index moves on as it does for an entry in transit.
AfterSpliceNext(i) == i + 1

\* Where txQueueSize goes on.
AfterSplice(i) == i

\* Mutant: the index is advanced before the entry is removed.
SplicedNext(q, i) == IF i + 1 <= Len(q) THEN RemoveAt(q, i + 1) ELSE q

\* splice @$q, $i, 1.
Spliced(q, i) == IF i <= Len(q) THEN RemoveAt(q, i) ELSE q

Splice ==
    /\ Running /\ Top.at = "called"
    /\ txqueue' = Spliced(txqueue, Top.i)
    /\ Step([Top EXCEPT !.at = "ask", !.i = AfterSplice(@)])
    /\ UNCHANGED <<opts, libVars, published, reports>>

\* txQueueSize returns to the method, which may begin it again.
Asked(call) == Running /\ Top.call = call /\ Top.at = "ask" /\ Top.i > Len(txqueue)
Again(f)    == [f EXCEPT !.i = 1]

-----------------------------------------------------------------------------
(* The methods                                                             *)

\* The application calls status, disconnect or receivePub.
Call ==
    /\ stack = <<>>
    /\ \E call \in {"status", "disconnect", "receivePub"} : stack' = <<Frame(call, NoMsg)>>
    /\ UNCHANGED <<opts, libVars, txqueue, published, reports>>

CallPublish ==
    /\ stack = <<>>
    /\ \E m \in Msgs \ published : stack' = <<Frame("publish", m)>>
    /\ UNCHANGED <<opts, libVars, txqueue, published, reports>>

\* connect: the handle of an earlier connection is replaced, and forgotten.
Connect ==
    /\ stack = <<>>
    /\ conn = "NONE" \/ (conn = "BROKEN" /\ opts.again)
    /\ \/ /\ Opened
          /\ stack' = IF opts.async THEN <<>> ELSE <<Frame("connect", NoMsg)>>
       \/ NotOpened /\ UNCHANGED stack
    /\ UNCHANGED <<opts, txqueue, published, reports>>

\* connect waits for the end of CONNECTING, and disconnects when that is not CONNECTED.
ConnectPolls ==
    /\ Asked("connect")
    /\ CASE conn = "CONNECTING" -> Step(Again(Top))
         [] conn = "CONNECTED"  -> Return
         [] OTHER               -> Step([Again(Top) EXCEPT !.call = "disconnect"])
    /\ UNCHANGED <<opts, libVars, txqueue, published, reports>>

\* The end of status, and of receivePub when a publication has come or the connection fails.
StatusReturns ==
    /\ Asked("status")
    /\ Return
    /\ UNCHANGED <<opts, libVars, txqueue, published, reports>>

ReceivePubReturns ==
    /\ Asked("receivePub")
    /\ Return
    /\ UNCHANGED <<opts, libVars, txqueue, published, reports>>

\* Mutant: a callback is kept for QoS 0 too.
TrackedAlways(m) == TRUE

\* Only a publication that is acknowledged has its callback kept.
Tracked(m) == m \notin Qos0

\* The send task takes requests and gives each an id, also one it then refuses.
GivesIds == conn \in Statuses \ {"BROKEN"}

\* xs_publish accepts the publication, with a callback or without, or refuses it.  It gives
\* an id to a publication of QoS 0 too.  That the ids wrap onto one in use is left to Outbound.
Publish ==
    /\ Asked("publish")
    /\ published' = published \union {Top.msg}
    /\ nextId' = IF GivesIds THEN SetNextMsgId(nextId) ELSE nextId
    /\ \/ /\ GivesIds /\ hash[nextId] = NoMsg
          /\ hash' = [hash EXCEPT ![nextId] = IF Top.msg \in Qos0 THEN NoMsg ELSE Top.msg]
          /\ \/ Tracked(Top.msg) /\ txqueue' = Append(txqueue, [hmsg |-> nextId, msg |-> Top.msg])
             \/ UNCHANGED txqueue
       \/ UNCHANGED <<hash, txqueue>>
    /\ Return
    /\ UNCHANGED <<opts, conn, breaks, acked, reports>>

TriesLeft(f) == f.tries < MaxTries

\* Mutant: the tries are not counted.
NextTryStuck(f) == Again(f)

NextTry(f) == [Again(f) EXCEPT !.tries = @ + 1]

\* disconnect asks again while messages are in transit, at most MaxTries times.
DisconnectWaits ==
    /\ Asked("disconnect")
    /\ txqueue # <<>> /\ TriesLeft(Top)
    /\ Step(NextTry(Top))
    /\ UNCHANGED <<opts, libVars, txqueue, published, reports>>

Disconnect ==
    /\ Asked("disconnect")
    /\ txqueue = <<>> \/ ~TriesLeft(Top)
    /\ txqueue' = <<>> /\ conn' = "NONE"
    /\ Return
    /\ UNCHANGED <<opts, hash, nextId, breaks, published, acked, reports>>

Method  == Ask \/ Callback \/ Splice \/ ConnectPolls \/ StatusReturns \/ Publish
           \/ DisconnectWaits \/ Disconnect

Next == Acknowledged \/ LinkBreaks \/ LinkSettles \/ LateConnack \/ Ask \/ Callback \/ Splice
        \/ Call \/ CallPublish \/ Connect \/ ConnectPolls \/ StatusReturns \/ ReceivePubReturns \/ Publish
        \/ DisconnectWaits \/ Disconnect

Spec == Init /\ [][Next]_vars

\* Perl runs; the library's retries end; the application keeps calling.  Nothing makes
\* xs_receivePub return.
FairSpec == Spec /\ WF_vars(Method) /\ WF_vars(LinkSettles) /\ WF_vars(Call)

-----------------------------------------------------------------------------
(* Properties                                                              *)

InQueue(m) == \E k \in 1..Len(txqueue) : txqueue[k].msg = m

\* The index of the innermost txQueueSize never runs past the queue, and the queue holds
\* each publication once, and only accepted ones that are to be acknowledged.
TypeOK ==
    /\ conn \in Statuses \union {"NONE"}
    /\ hash \in [Ids -> Msgs \union {NoMsg}] /\ nextId \in Ids
    /\ \A k \in 1..Len(txqueue) :
          /\ txqueue[k].hmsg \in Ids
          /\ txqueue[k].msg \in published \ Qos0
          /\ \A j \in 1..Len(txqueue) : txqueue[j].msg = txqueue[k].msg => j = k
    /\ Running => Top.i \in 1..(Len(txqueue) + 1) /\ Top.tries \in 0..MaxTries

\* A callback is told of a success only for a publication the broker has acknowledged
\* (Client.pm: "will be invoked when message has had its delivery ACK'd").
SuccessIsTrue == \A m \in Msgs : "ok" \in ToSet(reports[m]) => m \in acked

\* The callback of a publication is called at most once.
CallbackOnce == \A m \in Msgs : Len(reports[m]) <= 1

\* An entry leaves the queue when its callback has been called, or when disconnect gives up
\* after its last try: no other entry goes with it.
LeavesWhenReported ==
    [][\A m \in Msgs : InQueue(m) /\ ~InQueue(m)' =>
          \/ reports[m] # <<>>
          \/ Top.call = "disconnect" /\ Top.tries = MaxTries]_vars

\* Every method returns, except a receivePub that waits for a publication.
Waits == Asked("receivePub")
CallsReturn == Running ~> ~Running \/ Waits

\* A publication that is known to be delivered does not stay in the queue, while the
\* application calls; a receivePub that waits reports nothing.
NoneForgotten ==
    \A m \in Msgs : []<>(Waits \/ ~\E k \in 1..Len(txqueue) :
                            txqueue[k].msg = m /\ hash[txqueue[k].hmsg] = NoMsg)
=============================================================================
