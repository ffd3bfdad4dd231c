------------------------------ MODULE Outbound ------------------------------
(***************************************************************************)
(* The sending half of the WMQTT client library: the in-progress queue of  *)
(* requests that wait for an acknowledgement (mspscada.c, msphash.c), the  *)
(* send task that fills, retries and drains it (msputils.c), its persisted *)
(* copy, and recovery from that copy when the application connects again.  *)
(* The broker, the network and the persistence store are the environment.  *)
(*                                                                         *)
(* One action is one handler of the send task.  The two loops whose body   *)
(* is mspSendScadaMessage (recovery and the retry pass) take one step per  *)
(* iteration; control stays in the loop until it ends, so only the broker  *)
(* or a crash can come between two iterations.                             *)
(***************************************************************************)
EXTENDS Integers, Sequences, LinkedList

CONSTANTS
    Msgs,        \* the requests the application makes, each at most once
    NoMsg,       \* the request of a message that carries none (PUBREL, CONNECT)
    Kind,        \* Kind[m]: what m asks for, see Kinds
    Length,      \* Length[m]: bytes of the MQIsdp message built for m
    PubrelLen,   \* bytes of a PUBREL (4)
    IpqSize,     \* sizeof(IPQ), charged for every queued message
    MaxOutQ,     \* MSP_DEFAULT_MAX_OUTQ_SZ
    ShortMax,    \* SHRT_MAX: ids above it are negative as a short
    Addr,        \* the memory cells that can hold an IPQ
    Null,        \* the NULL pointer
    RetryCount,  \* retryCount of CONN_PARMS
    Options,     \* what the application connects with, see OptionsAssumption
    MaxFaults,   \* bound: network faults in a behaviour
    MaxStops,    \* bound: crashes and voluntary disconnects in a behaviour
    MaxChan      \* bound: messages in flight, both directions together

Kinds == {"PUBLISH0", "PUBLISH1", "PUBLISH2", "SUBSCRIBE", "UNSUBSCRIBE"}

\* MQISDP_MAX_MSGS: the largest value of the unsigned 16 bit message id.
MaxMsgs == 2 * ShortMax + 1

Ids == 1..MaxMsgs

ASSUME MsgsAssumption ==
    /\ NoMsg \notin Msgs
    /\ Kind \in [Msgs -> Kinds]
    /\ Length \in [Msgs -> Nat]

ASSUME SizesAssumption ==
    /\ PubrelLen \in Nat /\ IpqSize \in Nat /\ MaxOutQ \in Nat
    /\ ShortMax \in Nat \ {0} /\ RetryCount \in Nat
    /\ MaxFaults \in Nat /\ MaxStops \in Nat /\ MaxChan \in Nat

ASSUME CellsAssumption == Null \notin Addr

\* A persistence interface or none; the clean start option or not; and
\* whether a write to the persistence store may fail.
ASSUME OptionsAssumption ==
    Options \subseteq [persist : BOOLEAN, cleanStart : BOOLEAN, storeFails : BOOLEAN]

VARIABLES
    \* The connection handle of the send task (HCONNCB).
    pc,              \* "off", "load" (recovery loop), "idle", "retry" (retry loop)
    connState,       \* MQISDP_CONNECTING, _CONNECTED, _DISCONNECTED, _CONNECTION_BROKEN
    sockOpen,        \* tcpParms.sockfd # MSP_INVALID_SOCKET
    connRetries,     \* reconnect.connRetries (-1: clean start)
    nextMsgId,       \* the id of the next request
    heap,            \* the contents of the cells: IPQ structures
    inProgressQ,     \* outQ.inProgressQ: the linked list, as a sequence of cells
    ipHash,          \* outQ.ipHash: id -> cell
    numBytesQueued,  \* outQ.numBytesQueued
    cursor,          \* the position of curIpqEntry in the retry loop
    toLoad,          \* the persisted messages the recovery loop has still to load
    \* The environment.
    sentStore,       \* the messages sent, as the persistence store holds them
    toBroker,        \* bytes in flight to the broker
    toClient,        \* bytes in flight to the client
    brokerIds,       \* ids of QoS 2 publications the broker has not seen released
    got,             \* got[m]: how often the broker acted on m (2: more than once)
    reply,           \* reply[m]: the return code the application got for m
    handle,          \* handle[m]: the message handle it got with it
    options,         \* the options of this application, the same at every connect
    faults, stops    \* counters for the bounds

connVars  == <<connState, sockOpen, connRetries>>
queueVars == <<heap, inProgressQ, ipHash, numBytesQueued>>
netVars   == <<toBroker, toClient>>
appVars   == <<reply, handle, options>>
brokerVars == <<brokerIds, got>>
loopVars  == <<pc, cursor, toLoad>>

vars == <<loopVars, connVars, nextMsgId, queueVars, sentStore, netVars,
          brokerVars, appVars, faults, stops>>

Persist == options.persist
CleanStart == options.cleanStart
StoreFails == options.storeFails

-----------------------------------------------------------------------------
(* Data.                                                                   *)

\* An IPQ structure in use.
Entry == [msgId : Ids, type : {"REQUEST"}, m : Msgs,
          status : {"IN_PROGRESS", "RETRYING"}, dup : BOOLEAN]
         \cup
         [msgId : Ids, type : {"PUBREL"}, m : {NoMsg},
          status : {"IN_PROGRESS", "RETRYING"}, dup : BOOLEAN]

Freed == [msgId |-> 0, type |-> "FREE", m |-> NoMsg,
          status |-> "IN_PROGRESS", dup |-> FALSE]

\* mspAddIPMToList initialises the structure.
NewEntry(id, type, m, status) ==
    [msgId |-> id, type |-> type, m |-> m, status |-> status, dup |-> FALSE]

\* The bytes a queued message is charged for.
Charge(type, m) == IpqSize + (IF type = "REQUEST" THEN Length[m] ELSE PubrelLen)

ConnectMsg == [type |-> "CONNECT", id |-> 0, m |-> NoMsg, dup |-> FALSE]
Qos0Msg(m) == [type |-> "QOS0", id |-> 0, m |-> m, dup |-> FALSE]

\* What the client writes to the socket.
Wire == {ConnectMsg} \cup {Qos0Msg(m) : m \in Msgs}
        \cup [type : {"REQUEST"}, id : Ids, m : Msgs, dup : BOOLEAN]
        \cup [type : {"PUBREL"}, id : Ids, m : {NoMsg}, dup : BOOLEAN]

\* Mutant: the DUP flag is not set on a retry.
WireOfFirstSend(e) == [type |-> e.type, id |-> e.msgId, m |-> e.m, dup |-> FALSE]

WireOf(e) == [type |-> e.type, id |-> e.msgId, m |-> e.m, dup |-> e.dup]

\* All of PUBACK, PUBCOMP, SUBACK and UNSUBACK take one path: "ACK".  A CONNACK
\* that does not accept the connection is "REFUSED".
Answer == [type : {"CONNACK", "REFUSED"}, id : {0}]
          \cup [type : {"PUBREC", "ACK"}, id : Ids]

\* Mutant: the id is not advanced.
SetNextMsgIdStuck(id) == IF id = 0 THEN 1 ELSE id

\* MSP_SET_NEXT_MSGID
SetNextMsgId(id) == IF id = MaxMsgs THEN 1 ELSE id + 1

\* A short passed as an unsigned long key is sign extended.  A key is kept
\* modulo 2 * (MaxMsgs + 1), which keeps the sign extended ones apart.
KeyOfShort(id) == IF id > ShortMax THEN id + MaxMsgs + 1 ELSE id

\* An unsigned short passed as an unsigned long key is itself.
KeyOfUShort(id) == id

Keys == (1..(2 * MaxMsgs + 1)) \ {MaxMsgs + 1}

\* (u_short)key and (short)key both name this id.
IdOfKey(key) == IF key > MaxMsgs THEN key - (MaxMsgs + 1) ELSE key

Stored == [key : Keys, type : {"REQUEST"}, m : Msgs]
          \cup [key : Keys, type : {"PUBREL"}, m : {NoMsg}]

\* Mutants: all messages are written to one file; the write, or the delete, does not
\* reach the store.
StorePutOneFile(key, type, m) == {[key |-> key, type |-> type, m |-> m]}
StorePutLost(key, type, m) == sentStore
StoreDelLost(key) == sentStore

\* Contents of the store after a message was written under key, or deleted.
StorePut(key, type, m) ==
    {s \in sentStore : s.key # key} \cup {[key |-> key, type |-> type, m |-> m]}
StoreDel(key) == {s \in sentStore : s.key # key}

-----------------------------------------------------------------------------
(* The in-progress queue and its hash table.                               *)

FreeCells == Addr \ Cells(inProgressQ)

\* mspMalloc( sizeof(IPQ) ): NULL when memory is exhausted.
Malloc == IF FreeCells = {} THEN Null ELSE CHOOSE a \in FreeCells : TRUE

\* Mutant: nothing is given back.
RefundNothing(a) == 0

\* Bytes given back when the cell a is freed.
Refund(a) == IF a = Null THEN 0 ELSE Charge(heap[a].type, heap[a].m)

\* mspSendScadaMessage, retryFlag 0, once the message is persisted: append
\* the new entry, delete the entry hashed under the same id, hash the new one.
Enqueue(id, type, m, status) ==
    LET new == Malloc
        old == ipHash[id]
    IN  /\ heap' = [a \in Addr |-> CASE a = new -> NewEntry(id, type, m, status)
                                     [] a # new /\ a = old -> Freed
                                     [] OTHER -> heap[a]]
        /\ inProgressQ' = Link(Unlink(inProgressQ, old), new)
        /\ ipHash' = [ipHash EXCEPT ![id] = new]
        /\ numBytesQueued' = numBytesQueued + Charge(type, m) - Refund(old)

\* mspReadFromHash, mspDelFromHash, mspDeleteIPMFromList
Dequeue(id) ==
    LET old == ipHash[id]
    IN  /\ heap' = [a \in Addr |-> IF a = old THEN Freed ELSE heap[a]]
        /\ inProgressQ' = Unlink(inProgressQ, old)
        /\ ipHash' = [ipHash EXCEPT ![id] = Null]
        /\ numBytesQueued' = numBytesQueued - Refund(old)

\* Mutant: the message itself is not counted.
FitsIfNotFull(type, m) == numBytesQueued <= MaxOutQ

\* The queue has room for the message (mspSendScadaMessage and the builders).
Fits(type, m) == numBytesQueued + Charge(type, m) <= MaxOutQ

EmptyQueue ==
    /\ heap' = [a \in Addr |-> Freed]
    /\ inProgressQ' = <<>>
    /\ ipHash' = [id \in Ids |-> Null]
    /\ numBytesQueued' = 0

-----------------------------------------------------------------------------
(* TCP/IP.                                                                 *)

\* The socket is closed; what was in flight on it is lost.
CloseSocket == sockOpen' = FALSE /\ toBroker' = <<>> /\ toClient' = <<>>

Fault == faults < MaxFaults /\ faults' = faults + 1

\* The end of mspSendScadaMessage: write to the socket if there is one; a
\* failed write closes it.  What has arrived and is not yet read is then in.
Transmit(w, in) ==
    \/ /\ sockOpen
       /\ toBroker' = Append(toBroker, w) /\ toClient' = in
       /\ UNCHANGED <<connVars, faults>>
    \/ /\ sockOpen
       /\ Fault
       /\ connState' = "DISCONNECTED"
       /\ CloseSocket
       /\ UNCHANGED connRetries
    \/ /\ ~sockOpen
       /\ UNCHANGED <<connVars, netVars, faults>>

\* The bound on messages in flight leaves room for n more.
Room(n) == Len(toBroker) + Len(toClient) + n <= MaxChan

\* mspTCPInitialise, and the CONNECT message on the new socket.  The state
\* while the attempt runs is st; a failed write leaves DISCONNECTED.
OpenSocket(st, failed) ==
    \/ /\ sockOpen' = TRUE
       /\ toBroker' = <<ConnectMsg>> /\ toClient' = <<>>
       /\ connState' = st
       /\ UNCHANGED faults
    \/ /\ Fault
       /\ CloseSocket
       /\ connState' \in {failed, "DISCONNECTED"}

-----------------------------------------------------------------------------
(* The application connects, disconnects or dies.                          *)

\* The requests accepted so far are given up: by a clean start, or because
\* nothing of them was persisted.
Forget == [m \in Msgs |-> IF reply[m] = "OK" THEN "GIVEN_UP" ELSE reply[m]]

\* MQIsdp_connect, up to the recovery loop of mspInitialiseHconn: a new
\* connection handle, the store opened, and reset by a clean start.
Connect ==
    /\ pc = "off"
    /\ pc' = "load"
    /\ connState' = "CONNECTING"
    /\ connRetries' = IF CleanStart THEN -1 ELSE 0
    /\ sentStore' = IF CleanStart THEN {} ELSE sentStore
    /\ reply' = IF CleanStart THEN Forget ELSE reply
    /\ toLoad' = sentStore'
    /\ UNCHANGED <<sockOpen, nextMsgId, queueVars, netVars, brokerVars, handle,
                   options, cursor, faults, stops>>

\* One iteration of the recovery loop: any order, as the store returns them.
LoadSent ==
    /\ pc = "load"
    /\ \E s \in toLoad :
         /\ toLoad' = toLoad \ {s}
         /\ nextMsgId' = IF s.key > nextMsgId THEN IdOfKey(s.key) ELSE nextMsgId
         /\ IF Fits(s.type, s.m) /\ Malloc # Null
              THEN Enqueue(IdOfKey(s.key), s.type, s.m, "RETRYING")
              ELSE UNCHANGED queueVars
    /\ UNCHANGED <<pc, cursor, connVars, sentStore, netVars, brokerVars, appVars,
                   faults, stops>>

\* The rest of the connect handler: open the socket, send CONNECT.
Establish ==
    /\ pc = "load" /\ toLoad = {}
    /\ pc' = "idle"
    /\ OpenSocket("CONNECTING", "CONNECTING")
    /\ nextMsgId' = SetNextMsgId(nextMsgId)
    /\ UNCHANGED <<cursor, toLoad, connRetries, queueVars, sentStore, brokerVars,
                   appVars, stops>>

\* The connection handle goes: mspResetHconn, or the process dies.
DropHandle ==
    /\ pc' = "off"
    /\ connState' = "DISCONNECTED" /\ connRetries' = 0
    /\ CloseSocket
    /\ EmptyQueue
    /\ nextMsgId' = 0 /\ cursor' = 0 /\ toLoad' = {}
    /\ UNCHANGED <<brokerVars, handle, options, faults>>

\* MQIsdp_disconnect; a clean session also resets the store.  An application
\* told CONNECTION_BROKEN has to disconnect: that one is not bounded.
Disconnect ==
    /\ pc = "idle"
    /\ IF connState = "CONNECTION_BROKEN" THEN UNCHANGED stops
                                          ELSE stops < MaxStops /\ stops' = stops + 1
    /\ DropHandle
    /\ sentStore' = IF CleanStart THEN {} ELSE sentStore
    /\ reply' = IF CleanStart \/ ~Persist THEN Forget ELSE reply

\* The process dies, in any loop.
Crash ==
    /\ pc # "off"
    /\ stops < MaxStops /\ stops' = stops + 1
    /\ DropHandle
    /\ reply' = IF Persist THEN reply ELSE Forget
    /\ UNCHANGED sentStore

-----------------------------------------------------------------------------
(* The API calls that send: MQIsdp_publish, _subscribe, _unsubscribe.      *)

\* The reply carries an id even when the request failed: mspIPCExchange stores it as the
\* handle, whatever the return code.
Reply(m, rc, id) ==
    /\ reply' = [reply EXCEPT ![m] = rc]
    /\ handle' = [handle EXCEPT ![m] = id]

RequestRejected(m) ==
    /\ \/ connState = "CONNECTION_BROKEN" /\ Reply(m, "CONNECTION_BROKEN", 0)
          /\ UNCHANGED nextMsgId
       \/ connState # "CONNECTION_BROKEN" /\ nextMsgId' = SetNextMsgId(nextMsgId)
          /\ \/ ~Fits("REQUEST", m) /\ Reply(m, "Q_FULL", nextMsgId)
             \/ Fits("REQUEST", m) /\ Kind[m] # "PUBLISH0"
                /\ \/ Malloc = Null /\ Reply(m, "OUT_OF_MEMORY", nextMsgId)
                   \/ Malloc # Null /\ Persist /\ StoreFails
                      /\ Reply(m, "PERSISTENCE_FAILED", nextMsgId)
    /\ UNCHANGED <<connVars, queueVars, sentStore, netVars, faults>>

\* QoS 0 is written if there is a socket, and is never queued.
RequestQos0(m) ==
    /\ connState # "CONNECTION_BROKEN"
    /\ Kind[m] = "PUBLISH0" /\ Fits("REQUEST", m)
    /\ Transmit(Qos0Msg(m), toClient)
    /\ Reply(m, "OK", nextMsgId)
    /\ nextMsgId' = SetNextMsgId(nextMsgId)
    /\ UNCHANGED <<queueVars, sentStore>>

\* Everything else is queued and persisted before it is written.
RequestQueued(m) ==
    /\ connState # "CONNECTION_BROKEN"
    /\ Kind[m] # "PUBLISH0" /\ Fits("REQUEST", m) /\ Malloc # Null
    /\ Enqueue(nextMsgId, "REQUEST", m, "IN_PROGRESS")
    /\ sentStore' = IF Persist THEN StorePut(KeyOfShort(nextMsgId), "REQUEST", m)
                               ELSE sentStore
    /\ Transmit([type |-> "REQUEST", id |-> nextMsgId, m |-> m, dup |-> FALSE],
                toClient)
    /\ Reply(m, "OK", nextMsgId)
    /\ nextMsgId' = SetNextMsgId(nextMsgId)

Request(m) ==
    /\ pc = "idle" /\ reply[m] = "NONE" /\ Room(1)
    /\ RequestRejected(m) \/ RequestQos0(m) \/ RequestQueued(m)
    /\ UNCHANGED <<loopVars, brokerVars, options, stops>>

\* Mutant: a message sent once more counts as delivered.
MsgStatusHasty(id) ==
    IF id \notin Ids THEN "MSG_HANDLE_ERROR"
    ELSE IF ipHash[id] = Null \/ heap[ipHash[id]].status = "RETRYING" THEN "DELIVERED"
    ELSE "IN_PROGRESS"

\* MQIsdp_getMsgStatus: what mspSendGetStatusResponse answers for a handle.
MsgStatus(id) ==
    IF id \notin Ids THEN "MSG_HANDLE_ERROR"
    ELSE IF ipHash[id] = Null THEN "DELIVERED"
    ELSE heap[ipHash[id]].status

-----------------------------------------------------------------------------
(* mspReceiveScadaMessage: what arrives from the broker.                   *)

Receive(type) ==
    /\ pc = "idle" /\ sockOpen
    /\ toClient # <<>> /\ Head(toClient).type = type

ReceiveConnack ==
    /\ Receive("CONNACK")
    /\ connState' = "CONNECTED"
    /\ connRetries' = IF connRetries > 0 THEN 0 ELSE connRetries
    /\ toClient' = Tail(toClient)
    /\ UNCHANGED <<loopVars, sockOpen, nextMsgId, queueVars, sentStore, toBroker,
                   brokerVars, appVars, faults, stops>>

\* The broker does not accept the connection: no more retries.
ReceiveRefused ==
    /\ Receive("REFUSED")
    /\ connState' = "DISCONNECTED" /\ connRetries' = RetryCount + 1
    /\ CloseSocket
    /\ UNCHANGED <<loopVars, nextMsgId, queueVars, sentStore, brokerVars, appVars,
                   faults, stops>>

\* A PUBREC is answered with a PUBREL, queued in the place of the PUBLISH.
\* If the PUBREL cannot be queued or persisted, nothing is sent.
ReceivePubrec ==
    /\ Receive("PUBREC")
    /\ LET id == Head(toClient).id
           answer == [type |-> "PUBREL", id |-> id, m |-> NoMsg, dup |-> FALSE]
           rest == Tail(toClient)
       IN  \/ /\ \/ ~Fits("PUBREL", NoMsg) \/ Malloc = Null
                 \/ Persist /\ StoreFails
              /\ toClient' = rest
              /\ UNCHANGED <<queueVars, sentStore, connVars, toBroker, faults>>
           \/ /\ Fits("PUBREL", NoMsg) /\ Malloc # Null
              /\ Enqueue(id, "PUBREL", NoMsg, "IN_PROGRESS")
              /\ sentStore' = IF Persist THEN StorePut(KeyOfShort(id), "PUBREL", NoMsg)
                                         ELSE sentStore
              /\ Transmit(answer, rest)
    /\ UNCHANGED <<loopVars, nextMsgId, brokerVars, appVars, stops>>

\* PUBACK, PUBCOMP, SUBACK, UNSUBACK.  A failed delete is ignored.
ReceiveAck ==
    /\ Receive("ACK")
    /\ LET id == Head(toClient).id
       IN  /\ Dequeue(id)
           /\ \/ sentStore' = IF Persist THEN StoreDel(KeyOfUShort(id)) ELSE sentStore
              \/ Persist /\ StoreFails /\ UNCHANGED sentStore
    /\ toClient' = Tail(toClient)
    /\ UNCHANGED <<loopVars, connVars, nextMsgId, toBroker, brokerVars, appVars,
                   faults, stops>>

-----------------------------------------------------------------------------
(* The timed work of mspHandleClientConnection.  Time is not modelled: a   *)
(* timer may expire at any moment.                                         *)

\* mspTCPReadMsg reports an error or a closed socket.
SocketError ==
    /\ pc = "idle" /\ sockOpen
    /\ Fault
    /\ CloseSocket
    /\ connState' = "DISCONNECTED"
    /\ UNCHANGED <<loopVars, connRetries, nextMsgId, queueVars, sentStore,
                   brokerVars, appVars, stops>>

\* timeForNextConnect has passed and the connection is not up.  To find the
\* socket open here means that the CONNACK is late, which counts as a fault.
CheckConnection ==
    /\ pc = "idle" /\ connState # "CONNECTED"
    /\ sockOpen => faults < MaxFaults
    /\ IF connRetries + 1 <= RetryCount /\ connRetries >= 0
         THEN /\ connRetries' = connRetries + 1
              /\ IF sockOpen
                   THEN /\ faults' = faults + 1
                        /\ \/ /\ connState' = "CONNECTING" /\ UNCHANGED sockOpen
                              /\ toBroker' = <<ConnectMsg>> /\ toClient' = <<>>
                           \/ connState' \in {connState, "DISCONNECTED"} /\ CloseSocket
                   ELSE OpenSocket("CONNECTING", connState)
         ELSE /\ connState' = "CONNECTION_BROKEN"
              /\ faults' = IF sockOpen THEN faults + 1 ELSE faults
              /\ UNCHANGED <<sockOpen, connRetries, netVars>>
    /\ UNCHANGED <<loopVars, nextMsgId, queueVars, sentStore, brokerVars, appVars,
                   stops>>

\* Mutant: the first entry is not checked for NULL.
RetryDueUnchecked == pc = "idle"

\* timeForNextRetry has passed.
RetryDue == pc = "idle" /\ inProgressQ # <<>>

StartRetry ==
    /\ RetryDue
    /\ Room(Len(inProgressQ))
    /\ pc' = "retry" /\ cursor' = 1
    /\ UNCHANGED <<toLoad, connVars, nextMsgId, queueVars, sentStore, netVars,
                   brokerVars, appVars, faults, stops>>

\* One entry of the retry pass: sent again as a duplicate if it was there at
\* the last pass too, otherwise only marked.
RetryEntry ==
    /\ pc = "retry"
    /\ LET a == inProgressQ[cursor]
           e == heap[a]
       IN  IF e.status = "RETRYING"
             THEN /\ heap' = [heap EXCEPT ![a] = [e EXCEPT !.dup = TRUE]]
                  /\ Transmit(WireOf([e EXCEPT !.dup = TRUE]), toClient)
             ELSE /\ heap' = [heap EXCEPT ![a] = [e EXCEPT !.status = "RETRYING"]]
                  /\ UNCHANGED <<connVars, netVars, faults>>
    /\ IF cursor = Len(inProgressQ) THEN pc' = "idle" /\ cursor' = 0
                                    ELSE pc' = pc /\ cursor' = cursor + 1
    /\ UNCHANGED <<toLoad, nextMsgId, inProgressQ, ipHash, numBytesQueued,
                   sentStore, brokerVars, appVars, stops>>

-----------------------------------------------------------------------------
(* The broker, external: it keeps the session of a client that did not ask *)
(* for a clean start, acts on a QoS 2 publication when it arrives, and     *)
(* recognises a repeated one the way this library does on its own          *)
(* receiving side, by the DUP flag and the id of an unreleased message.    *)

\* The client has been told that the connection is not accepted.
Refused == \E i \in 1..Len(toClient) : toClient[i].type = "REFUSED"

\* The broker reads nothing more on a connection it has refused.
BrokerTakes(type) ==
    /\ sockOpen /\ toBroker # <<>> /\ Head(toBroker).type = type
    /\ ~Refused
    /\ toBroker' = Tail(toBroker)
    /\ UNCHANGED <<loopVars, connVars, nextMsgId, queueVars, sentStore, appVars,
                   faults, stops>>

Answers(type, id) == toClient' = Append(toClient, [type |-> type, id |-> id])

\* The broker acts on m once more.
Act(m) == [got EXCEPT ![m] = IF @ = 0 THEN 1 ELSE 2]

BrokerConnect ==
    /\ BrokerTakes("CONNECT")
    /\ brokerIds' = IF CleanStart THEN {} ELSE brokerIds
    /\ Answers("CONNACK", 0)
    /\ UNCHANGED got

\* The broker is not available, or does not like the client.
BrokerRefuses ==
    /\ sockOpen /\ toBroker # <<>> /\ Head(toBroker).type = "CONNECT"
    /\ Fault
    /\ toBroker' = <<>>
    /\ Answers("REFUSED", 0)
    /\ UNCHANGED <<loopVars, connVars, nextMsgId, queueVars, sentStore, brokerVars,
                   appVars, stops>>

BrokerQos0 ==
    /\ BrokerTakes("QOS0")
    /\ got' = Act(Head(toBroker).m)
    /\ UNCHANGED <<toClient, brokerIds>>

BrokerRequest ==
    /\ BrokerTakes("REQUEST")
    /\ LET w == Head(toBroker)
       IN  IF Kind[w.m] = "PUBLISH2"
             THEN /\ got' = IF w.dup /\ w.id \in brokerIds THEN got ELSE Act(w.m)
                  /\ brokerIds' = brokerIds \cup {w.id}
                  /\ Answers("PUBREC", w.id)
             ELSE /\ got' = Act(w.m)
                  /\ Answers("ACK", w.id)
                  /\ UNCHANGED brokerIds

BrokerPubrel ==
    /\ BrokerTakes("PUBREL")
    /\ brokerIds' = brokerIds \ {Head(toBroker).id}
    /\ Answers("ACK", Head(toBroker).id)
    /\ UNCHANGED got

-----------------------------------------------------------------------------
Init ==
    /\ pc = "off" /\ cursor = 0 /\ toLoad = {}
    /\ connState = "DISCONNECTED" /\ sockOpen = FALSE /\ connRetries = 0
    /\ nextMsgId = 0
    /\ heap = [a \in Addr |-> Freed]
    /\ inProgressQ = <<>>
    /\ ipHash = [id \in Ids |-> Null]
    /\ numBytesQueued = 0
    /\ sentStore = {}
    /\ toBroker = <<>> /\ toClient = <<>>
    /\ brokerIds = {}
    /\ got = [m \in Msgs |-> 0]
    /\ reply = [m \in Msgs |-> "NONE"]
    /\ handle = [m \in Msgs |-> 0]
    /\ options \in Options
    /\ faults = 0 /\ stops = 0


\* Every request is answered for and nothing is left to do.
Quiescent ==
    /\ pc = "idle" /\ connState = "CONNECTED"
    /\ inProgressQ = <<>> /\ toBroker = <<>> /\ toClient = <<>>
    /\ \A m \in Msgs : reply[m] # "NONE"
    /\ UNCHANGED vars

Next ==
    \/ Connect \/ LoadSent \/ Establish \/ Disconnect \/ Crash
    \/ \E m \in Msgs : Request(m)
    \/ ReceiveConnack \/ ReceiveRefused \/ ReceivePubrec \/ ReceiveAck
    \/ SocketError \/ CheckConnection \/ StartRetry \/ RetryEntry
    \/ BrokerConnect \/ BrokerRefuses \/ BrokerQos0 \/ BrokerRequest \/ BrokerPubrel
    \/ Quiescent

Spec == Init /\ [][Next]_vars

\* Every pass of the send task's loop visits the mailbox, the network, the
\* reconnect block and the retry block in turn, so none of them is starved by
\* another (SF: the retry loop suspends the others).  The broker answers, and
\* the application makes the calls the API asks of it: it connects, and after
\* CONNECTION_BROKEN disconnects and connects again.
Fairness ==
    /\ WF_vars(Connect) /\ WF_vars(LoadSent) /\ WF_vars(Establish)
    /\ SF_vars(Disconnect /\ connState = "CONNECTION_BROKEN")
    /\ SF_vars(ReceiveConnack) /\ SF_vars(ReceiveRefused)
    /\ SF_vars(ReceivePubrec) /\ SF_vars(ReceiveAck)
    /\ SF_vars(CheckConnection) /\ SF_vars(StartRetry) /\ WF_vars(RetryEntry)
    /\ WF_vars(BrokerConnect) /\ WF_vars(BrokerQos0)
    /\ WF_vars(BrokerRequest) /\ WF_vars(BrokerPubrel)

FairSpec == Spec /\ Fairness

-----------------------------------------------------------------------------
(* Properties.                                                             *)

Rcs == {"NONE", "OK", "GIVEN_UP", "CONNECTION_BROKEN", "Q_FULL",
        "OUT_OF_MEMORY", "PERSISTENCE_FAILED"}

\* The type of every variable; while the send task serves a connected
\* application there is a valid next message id, and the retry loop is at an
\* entry of the queue.
TypeOK ==
    /\ pc \in {"off", "load", "idle", "retry"}
    /\ connState \in {"CONNECTING", "CONNECTED", "DISCONNECTED", "CONNECTION_BROKEN"}
    /\ sockOpen \in BOOLEAN
    /\ connRetries \in -1..(RetryCount + 1)
    /\ nextMsgId \in 0..MaxMsgs
    /\ heap \in [Addr -> Entry \cup {Freed}]
    /\ inProgressQ \in Seq(Addr)
    /\ ipHash \in [Ids -> Addr \cup {Null}]
    /\ numBytesQueued \in Int
    /\ cursor \in Nat
    /\ toLoad \subseteq Stored
    /\ sentStore \subseteq Stored
    /\ toBroker \in Seq(Wire)
    /\ toClient \in Seq(Answer)
    /\ brokerIds \subseteq Ids
    /\ got \in [Msgs -> 0..2]
    /\ reply \in [Msgs -> Rcs]
    /\ handle \in [Msgs -> 0..MaxMsgs]
    /\ options \in Options
    /\ faults \in Nat /\ stops \in Nat
    /\ pc \in {"idle", "retry"} => nextMsgId \in Ids
    /\ pc = "retry" => cursor \in 1..Len(inProgressQ)

\* The hash table and the linked list describe the same queue: no cell is
\* linked twice, a hashed pointer is never dangling (it is a linked cell
\* holding that id), and every linked message is hashed, so that its
\* acknowledgement will find it.  (mspSendScadaMessage and the ACK path of
\* mspReceiveScadaMessage update the two one after the other.)
HashMatchesList ==
    /\ \A i, j \in 1..Len(inProgressQ) :
         inProgressQ[i] = inProgressQ[j] => i = j
    /\ \A id \in Ids : ipHash[id] # Null =>
         /\ ipHash[id] \in Cells(inProgressQ)
         /\ heap[ipHash[id]].msgId = id
    /\ \A a \in Cells(inProgressQ) :
         heap[a].msgId \in Ids /\ ipHash[heap[a].msgId] = a

\* numBytesQueued is what the linked messages really occupy; a byte leaked
\* here would in the end refuse every request with Q_FULL.
Charges == [a \in Addr |-> Charge(heap[a].type, heap[a].m)]
BytesAccounted == numBytesQueued = Total(inProgressQ, Charges)

\* The queue never grows past its limit: not by requests, not by the PUBRELs
\* that answer the broker, not by recovery from a store that holds more.
QueueBounded == numBytesQueued <= MaxOutQ

\* MQIsdp_getMsgStatus never says DELIVERED of an accepted request that the
\* broker has not acted on.
DeliveredIsTrue ==
    \A m \in Msgs :
      /\ pc \in {"idle", "retry"}
      /\ reply[m] = "OK" /\ Kind[m] # "PUBLISH0"
      /\ MsgStatus(handle[m]) = "DELIVERED"
      => got[m] > 0

\* With persistence, an accepted request the broker has not acted on is in
\* the store at every moment, so a crash at any point cannot lose it.
StoreKeepsUndelivered ==
    Persist =>
      \A m \in Msgs : reply[m] = "OK" /\ Kind[m] # "PUBLISH0" /\ got[m] = 0
        => \E s \in sentStore : s.type = "REQUEST" /\ s.m = m

\* Unless the store fails, it holds the same messages as the queue of a
\* connected application, in the same stage of delivery: nothing acknowledged
\* stays behind in it to be sent again after a restart.
StoreMirrorsQueue ==
    Persist /\ ~StoreFails /\ pc \in {"idle", "retry"} =>
      {[id |-> IdOfKey(s.key), type |-> s.type, m |-> s.m] : s \in sentStore}
        = {[id |-> heap[a].msgId, type |-> heap[a].type, m |-> heap[a].m] :
             a \in Cells(inProgressQ)}

\* The broker acts on a QoS 2 publication at most once, whatever is lost,
\* retried or recovered.
AtMostOnce == \A m \in Msgs : Kind[m] = "PUBLISH2" => got[m] <= 1

\* Unacknowledged requests are kept, and so retried, in the order they were
\* made.
SentOrder ==
    \A i, j \in 1..Len(inProgressQ) :
      LET e == heap[inProgressQ[i]]
          f == heap[inProgressQ[j]]
      IN  i < j /\ e.type = "REQUEST" /\ f.type = "REQUEST" => e.msgId < f.msgId

\* Once a request is queued it stays queued until it is acknowledged: only the
\* arrival of an answer with its id takes it off, or the connection handle
\* going.
LeavesOnlyWhenAnswered ==
    [][\A m \in Msgs :
         /\ \E a \in Cells(inProgressQ) : heap[a].type = "REQUEST" /\ heap[a].m = m
         /\ ~ \E a \in Cells(inProgressQ') : heap'[a].type = "REQUEST" /\ heap'[a].m = m
         => \/ pc' = "off"
            \/ toClient # <<>> /\ Head(toClient).id = handle[m]]_vars

\* What becomes of each request that asks for an answer, seen from outside: once taken
\* it is owed as long as it would be sent again after a restart, that is, while the
\* store has it. Without persistence a restart gives everything up, and nothing is
\* settled before.
Reliable == {m \in Msgs : Kind[m] # "PUBLISH0"}
Holds(m) == Persist => \E s \in sentStore : s.type = "REQUEST" /\ s.m = m
Stage == [m \in Reliable |-> CASE reply[m] = "NONE"     -> "new"
                              [] reply[m] = "GIVEN_UP" -> "given up"
                              [] reply[m] = "OK"       -> IF Holds(m) THEN "owed" ELSE "settled"
                              [] OTHER                 -> "refused"]
Acted == [m \in Reliable |-> got[m]]

Promise == INSTANCE Delivery WITH
             Requests <- Reliable, Once <- {m \in Msgs : Kind[m] = "PUBLISH2"},
             stage <- Stage, acted <- Acted

\* The sending half keeps its promise, whatever is lost, retried, refused or recovered:
\* the store never loses or brings back a request that was accepted, a record is
\* replaced or deleted only after the broker has acted on it, no publication of QoS 2 is
\* acted on twice, and none that was given up arrives later.
ImplementsDelivery == Promise!Spec

\* Every accepted request is acted on by the broker and then leaves the
\* queue, unless the application itself gave it up.
EventuallyDelivered ==
    \A m \in Msgs :
      reply[m] = "OK" /\ Kind[m] # "PUBLISH0"
        ~> \/ reply[m] = "GIVEN_UP"
           \/ pc = "idle" /\ got[m] > 0 /\ MsgStatus(handle[m]) = "DELIVERED"
=============================================================================
