------------------------------ MODULE Inbound ------------------------------
(***************************************************************************)
(* The receiving half of the WMQTT client library: publications that       *)
(* arrive from the broker are stored in a list, hashed while they wait for *)
(* their PUBREL (QoS 2), persisted, answered, released, handed to the      *)
(* application by MQIsdp_receivePub and deleted when it has confirmed.     *)
(* The broker, the network and the persistence store are the environment.  *)
(*                                                                         *)
(* The library is single threaded: a handler is one action.  A crash can   *)
(* come between two iterations of the recovery loop and between the two    *)
(* exchanges of MQIsdp_receivePub.  How often a lost connection is retried *)
(* is the subject of Outbound; here it may come back at any time.          *)
(***************************************************************************)
EXTENDS Integers, Sequences, FiniteSetsExt, LinkedList

CONSTANTS
    Pubs,        \* the publications of the broker for this client
    NoPub,       \* the publication of a PUBREL
    Qos,         \* Qos[p]: quality of service of p
    Length,      \* Length[p]: bytes of topic and data
    MsgIds,      \* message ids the broker has for messages in flight
    RpqSize,     \* sizeof(RPQ), charged for every queued publication
    MaxInQ,      \* MSP_DEFAULT_MAX_INQ_SZ
    RcvMax,      \* 0xFFFFFFFF: the largest rcvId
    Addr,        \* the memory cells that can hold an RPQ
    Null,        \* the NULL pointer
    Options,     \* what the application connects with, see OptionsAssumption
    MaxFaults,   \* bound: lost connections, early repeats, failed allocations and writes
    MaxStops,    \* bound: crashes and voluntary disconnects
    MaxChan      \* bound: messages in flight, both directions together

ASSUME PubsAssumption ==
    /\ NoPub \notin Pubs
    /\ Qos \in [Pubs -> 0..2]
    /\ Length \in [Pubs -> Nat]
    /\ MsgIds \subseteq Nat \ {0}

ASSUME LimitsAssumption ==
    /\ RpqSize \in Nat /\ MaxInQ \in Nat /\ RcvMax \in Nat \ {0}
    /\ MaxFaults \in Nat /\ MaxStops \in Nat /\ MaxChan \in Nat

ASSUME MemoryAssumption == Null \notin Addr

\* A persistence interface or none; the clean start option or not; and
\* whether a write to the persistence store may fail.
ASSUME OptionsAssumption ==
    Options \subseteq [persist : BOOLEAN, cleanStart : BOOLEAN, storeFails : BOOLEAN]

VARIABLES
    \* The connection handle of the send task (HCONNCB).
    pc,              \* "off", "load" (recovery loop), "idle", "taken" (in receivePub)
    sockOpen,        \* tcpParms.sockfd # MSP_INVALID_SOCKET
    nextRcvId,       \* the last rcvId given out
    heap,            \* the contents of the cells: RPQ structures
    rcvdPubsQ,       \* inQ.rcvdPubsQ: the linked list, as a sequence of cells
    rpHash,          \* inQ.rpHash: message id -> cell
    rtpEntries,      \* inQ.rtpEntries: entries ready for the application
    numBytesQueued,  \* inQ.numBytesQueued
    toLoad,          \* the persisted publications the recovery loop has still to load
    taken,           \* what MQIsdp_receivePub has copied and not yet confirmed
    \* The environment.
    rcvdStore,       \* the publications received, as the persistence store holds them
    toClient,        \* bytes in flight to the client
    toBroker,        \* bytes in flight to the broker
    phase,           \* phase[p]: how far the broker is with p, see Phases
    idOf,            \* idOf[p]: the message id of p while it is in flight
    delivered,       \* delivered[p]: how often MQIsdp_receivePub returned p (2: more)
    options,         \* the options of this application, the same at every connect
    faults, stops    \* counters for the bounds

queueVars  == <<heap, rcvdPubsQ, rpHash, rtpEntries, numBytesQueued>>
loadVars   == <<pc, toLoad, taken>>
netVars    == <<toClient, toBroker>>
brokerVars == <<phase, idOf>>
appVars    == <<delivered, options>>

vars == <<loadVars, sockOpen, nextRcvId, queueVars, rcvdStore, netVars,
          brokerVars, appVars, faults, stops>>

Persist == options.persist
CleanStart == options.cleanStart
StoreFails == options.storeFails

-----------------------------------------------------------------------------
(* Data.                                                                   *)

\* An RPQ structure in use.
Entry == [p : Pubs, rcvId : 0..RcvMax, readyToPublish : BOOLEAN]

Freed == [p |-> NoPub, rcvId |-> 0, readyToPublish |-> FALSE]

Charge(p) == RpqSize + Length[p]

\* What is in flight to the client, and to the broker.
Publish(p, id, dup) == [type |-> "PUBLISH", p |-> p, id |-> id, dup |-> dup]
Pubrel(id) == [type |-> "PUBREL", p |-> NoPub, id |-> id, dup |-> FALSE]

ToClient == [type : {"PUBLISH"}, p : Pubs, id : MsgIds \cup {0}, dup : BOOLEAN]
            \cup [type : {"PUBREL"}, p : {NoPub}, id : MsgIds, dup : {FALSE}]
ToBroker == [type : {"PUBACK", "PUBREC", "PUBCOMP"}, id : MsgIds]

\* A persisted publication: its key, its wire format, and the released flag
\* kept in its last byte.
Stored == [key : 0..RcvMax, p : Pubs, id : MsgIds, dup : BOOLEAN,
           readyToPublish : BOOLEAN]

\* MSP_SET_NEXT_RCVID
SetNextRcvId(id) == IF id = RcvMax THEN 1 ELSE id + 1

\* Mutant: the ids in the store are not skipped.
NextRcvIdAfterStuck(key) == nextRcvId

\* The recovery loop leaves nextRcvId at the largest key of the store.
NextRcvIdAfter(key) == IF key > nextRcvId THEN key ELSE nextRcvId

\* Mutant: every publication waits for a PUBREL.
ReleasedOnArrivalNever(p) == FALSE

\* The last byte of the read buffer: QoS 2 waits for its PUBREL.
ReleasedOnArrival(p) == Qos[p] # 2

\* Mutants: the release or the delete does not reach the store.
StoreUpdLost(key) == rcvdStore
StoreDelLost(key) == rcvdStore

\* addReceivedMessage, updReceivedMessage, delReceivedMessage
StoreAdd(s) == {r \in rcvdStore : r.key # s.key} \cup {s}
StoreUpd(key) ==
    {IF r.key = key THEN [r EXCEPT !.readyToPublish = TRUE] ELSE r : r \in rcvdStore}
StoreDel(key) == {r \in rcvdStore : r.key # key}

HasKey(key) == \E r \in rcvdStore : r.key = key

-----------------------------------------------------------------------------
(* The list of received publications and its hash table.                   *)

FreeCells == Addr \ Cells(rcvdPubsQ)

Fault == faults < MaxFaults /\ faults' = faults + 1

\* A write to the persistence store fails.
StoreFault == StoreFails /\ Fault

\* Mutant: no publication is recognised.
IsRepeatNever(p, id, dup, released) == FALSE

\* mspStorePublication: a repeated QoS 2 publication that is already held.
IsRepeat(p, id, dup, released) ==
    Qos[p] = 2 /\ ~released /\ dup /\ rpHash[id] # Null

\* mspStorePublication: larger than the whole receive queue may be.
TooBig(p) == Charge(p) > MaxInQ

\* Mutant: nothing is added to the hash table.
HashedNever(p, id, released, a) == rpHash

\* mspAddToHash, for a QoS 2 publication that is not released.
Hashed(p, id, released, a) ==
    IF Qos[p] = 2 /\ ~released THEN [rpHash EXCEPT ![id] = a] ELSE rpHash

\* mspAddRPMToList and mspAddToHash, the end of mspStorePublication.
StorePublication(a, p, id, released, rcvId) ==
    /\ heap' = [heap EXCEPT ![a] = [p |-> p, rcvId |-> rcvId,
                                    readyToPublish |-> released]]
    /\ rcvdPubsQ' = Link(rcvdPubsQ, a)
    /\ rpHash' = Hashed(p, id, released, a)
    /\ rtpEntries' = IF released THEN rtpEntries + 1 ELSE rtpEntries
    /\ numBytesQueued' = numBytesQueued + Charge(p)

\* mspMalloc: a cell that is not in use; the pointer is not dereferenced when
\* memory is exhausted.
Malloc == IF FreeCells = {} THEN Null ELSE CHOOSE a \in FreeCells : TRUE

\* Mutant: a released entry is deleted without being counted.
CountAfterDeleteStuck(e) == rtpEntries

CountAfterDelete(e) == IF e.readyToPublish THEN rtpEntries - 1 ELSE rtpEntries

\* mspDeleteRPMFromList
DeleteRPM(a) ==
    /\ heap' = [heap EXCEPT ![a] = Freed]
    /\ rcvdPubsQ' = Unlink(rcvdPubsQ, a)
    /\ rtpEntries' = CountAfterDelete(heap[a])
    /\ numBytesQueued' = numBytesQueued - Charge(heap[a].p)

EmptyQueue ==
    /\ heap' = [a \in Addr |-> Freed]
    /\ rcvdPubsQ' = <<>>
    /\ rpHash' = [id \in MsgIds |-> Null]
    /\ rtpEntries' = 0 /\ numBytesQueued' = 0

-----------------------------------------------------------------------------
(* TCP/IP.                                                                 *)

\* The socket is closed; what was in flight on it is lost.
CloseSocket == sockOpen' = FALSE /\ toBroker' = <<>> /\ toClient' = <<>>

\* An answer is built and written by mspSendScadaMessage, which does not queue
\* it; rest is what has arrived and is not yet read.  There may be no memory
\* for it, and a failed write closes the socket.
Transmit(w, rest) ==
    \/ sockOpen' = TRUE /\ toBroker' = Append(toBroker, w) /\ toClient' = rest
       /\ UNCHANGED faults
    \/ Fault /\ sockOpen' = TRUE /\ toBroker' = toBroker /\ toClient' = rest
    \/ Fault /\ CloseSocket

\* The bound on messages in flight.
Room == Len(toBroker) + Len(toClient) < MaxChan

\* The broker of a client that asks for a clean start drops its session.
Session ==
    [p \in Pubs |-> IF CleanStart /\ phase[p] \in {"sent", "rel"} THEN "dropped"
                                                                  ELSE phase[p]]

\* A new socket, and the CONNECT exchange on it, or a failed attempt.
OpenSocket ==
    \/ sockOpen' = TRUE /\ phase' = Session /\ UNCHANGED <<faults, netVars>>
    \/ Fault /\ UNCHANGED <<sockOpen, phase, netVars>>

-----------------------------------------------------------------------------
(* The application connects, disconnects or dies.                          *)

\* Mutant: the store is reset whatever the application asked for.
StoreAtConnectReset == {}

\* open, and under clean start reset, of the persistence interface.
StoreAtConnect == IF CleanStart THEN {} ELSE rcvdStore

\* MQIsdp_connect, up to the recovery loop of mspInitialiseHconn.
Connect ==
    /\ pc = "off"
    /\ pc' = "load"
    /\ rcvdStore' = StoreAtConnect
    /\ toLoad' = rcvdStore'
    /\ UNCHANGED <<taken, sockOpen, nextRcvId, queueVars, netVars, brokerVars,
                   appVars, faults, stops>>

\* The connection handle goes: a failed connect, mspResetHconn, or a crash.
DropHandle ==
    /\ pc' = "off"
    /\ CloseSocket
    /\ EmptyQueue
    /\ nextRcvId' = 0 /\ toLoad' = {} /\ taken' = <<>>
    /\ UNCHANGED <<brokerVars, appVars>>

\* One iteration of the recovery loop, in the order the store returns them.
\* A publication that cannot be stored fails the whole connect.
LoadReceived ==
    /\ pc = "load"
    /\ \E s \in toLoad :
         IF TooBig(s.p) \/ IsRepeat(s.p, s.id, s.dup, s.readyToPublish)
            \/ Malloc = Null
           THEN DropHandle /\ UNCHANGED faults
           ELSE \/ Fault /\ DropHandle
                \/ /\ StorePublication(Malloc, s.p, s.id, s.readyToPublish, s.key)
                   /\ nextRcvId' = NextRcvIdAfter(s.key)
                   /\ toLoad' = toLoad \ {s}
                   /\ UNCHANGED <<pc, taken, sockOpen, netVars, brokerVars,
                                  appVars, faults>>
    /\ UNCHANGED <<rcvdStore, stops>>

\* The rest of the connect handler: open the socket, send CONNECT.
Establish ==
    /\ pc = "load" /\ toLoad = {}
    /\ pc' = "idle"
    /\ OpenSocket
    /\ UNCHANGED <<toLoad, taken, nextRcvId, queueVars, rcvdStore, idOf, appVars,
                   stops>>

\* MQIsdp_disconnect; a clean session also resets the store.
Disconnect ==
    /\ pc = "idle"
    /\ stops < MaxStops /\ stops' = stops + 1
    /\ DropHandle
    /\ rcvdStore' = IF CleanStart THEN {} ELSE rcvdStore
    /\ UNCHANGED faults

\* The process dies, in the recovery loop or inside MQIsdp_receivePub too.
Crash ==
    /\ pc # "off"
    /\ stops < MaxStops /\ stops' = stops + 1
    /\ DropHandle
    /\ UNCHANGED <<rcvdStore, faults>>

\* mspTCPReadMsg reports an error or a closed socket.
SocketError ==
    /\ pc = "idle" /\ sockOpen
    /\ Fault
    /\ CloseSocket
    /\ UNCHANGED <<loadVars, nextRcvId, queueVars, rcvdStore, brokerVars, appVars,
                   stops>>

\* mspMQIsdpReconnect; under clean start only the application connects again.
Reconnect ==
    /\ pc = "idle" /\ ~sockOpen /\ ~CleanStart
    /\ OpenSocket
    /\ UNCHANGED <<loadVars, nextRcvId, queueVars, rcvdStore, idOf, appVars, stops>>

-----------------------------------------------------------------------------
(* mspReceiveScadaMessage: PUBLISH and PUBREL.                             *)

Receive(type) ==
    /\ pc = "idle" /\ sockOpen
    /\ toClient # <<>> /\ Head(toClient).type = type
    /\ UNCHANGED <<loadVars, brokerVars, appVars, stops>>

\* mspStorePublication returns NULL: the publication is not stored and the
\* broker gets no answer.
PublishRefused ==
    /\ Receive("PUBLISH")
    /\ LET w == Head(toClient)
       IN  IF TooBig(w.p) \/ IsRepeat(w.p, w.id, w.dup, ReleasedOnArrival(w.p))
              \/ Malloc = Null
             THEN UNCHANGED faults
             ELSE Fault
    /\ toClient' = Tail(toClient)
    /\ UNCHANGED <<sockOpen, nextRcvId, queueVars, rcvdStore, toBroker>>

\* Mutant: the pointer that mspMalloc returns is not checked.
StorableUnchecked(w) ==
    ~TooBig(w.p) /\ ~IsRepeat(w.p, w.id, w.dup, ReleasedOnArrival(w.p))

\* mspStorePublication gets as far as the list.
Storable(w) ==
    ~TooBig(w.p) /\ Malloc # Null
    /\ ~IsRepeat(w.p, w.id, w.dup, ReleasedOnArrival(w.p))

\* addReceivedMessage fails: the publication is taken off the list again, and
\* whatever was hashed under its id is gone.
PublishUnpersisted ==
    /\ Receive("PUBLISH")
    /\ Persist /\ StoreFault
    /\ LET w == Head(toClient)
       IN  /\ Qos[w.p] > 0 /\ Storable(w)
           /\ rpHash' = [rpHash EXCEPT ![w.id] = Null]
    /\ nextRcvId' = SetNextRcvId(nextRcvId)
    /\ toClient' = Tail(toClient)
    /\ UNCHANGED <<sockOpen, heap, rcvdPubsQ, rtpEntries, numBytesQueued, rcvdStore,
                   toBroker>>

\* mspSendPublishResponse
Answer(p) == IF Qos[p] = 2 THEN "PUBREC" ELSE "PUBACK"

\* The publication is stored; rcvId is assigned only when it is persisted, and
\* is 0 otherwise: mspMalloc clears the structure.
PublishStored ==
    /\ Receive("PUBLISH")
    /\ LET w == Head(toClient)
           released == ReleasedOnArrival(w.p)
       IN  /\ Storable(w)
           /\ IF Persist /\ Qos[w.p] > 0
                THEN /\ nextRcvId' = SetNextRcvId(nextRcvId)
                     /\ StorePublication(Malloc, w.p, w.id, released, nextRcvId')
                     /\ rcvdStore' = StoreAdd([key |-> nextRcvId', p |-> w.p,
                                               id |-> w.id, dup |-> w.dup,
                                               readyToPublish |-> released])
                ELSE /\ StorePublication(Malloc, w.p, w.id, released, 0)
                     /\ UNCHANGED <<nextRcvId, rcvdStore>>
           /\ IF Qos[w.p] = 0
                THEN toClient' = Tail(toClient) /\ UNCHANGED <<sockOpen, toBroker, faults>>
                ELSE Transmit([type |-> Answer(w.p), id |-> w.id], Tail(toClient))

\* Mutant: the released publication stays in the hash table.
UnhashNothing(id) == rpHash

\* mspDelFromHash
Unhash(id) == [rpHash EXCEPT ![id] = Null]

\* A PUBREL releases the publication hashed under its id.  The PUBCOMP is
\* sent also when there is none, but not when the store cannot be updated.
ReceivePubrel ==
    /\ Receive("PUBREL")
    /\ LET id == Head(toClient).id
           a == rpHash[id]
           rest == Tail(toClient)
           complete == Transmit([type |-> "PUBCOMP", id |-> id], rest)
       IN  \/ a = Null /\ complete /\ UNCHANGED <<queueVars, rcvdStore>>
           \/ /\ a # Null /\ Persist
              /\ StoreFault \/ (~HasKey(heap[a].rcvId) /\ UNCHANGED faults)
              /\ toClient' = rest
              /\ UNCHANGED <<sockOpen, queueVars, rcvdStore, toBroker>>
           \/ /\ a # Null
              /\ Persist => HasKey(heap[a].rcvId)
              /\ rcvdStore' = IF Persist THEN StoreUpd(heap[a].rcvId) ELSE rcvdStore
              /\ heap' = [heap EXCEPT ![a].readyToPublish = TRUE]
              /\ rtpEntries' = rtpEntries + 1
              /\ rpHash' = Unhash(id)
              /\ complete
              /\ UNCHANGED <<rcvdPubsQ, numBytesQueued>>
    /\ UNCHANGED nextRcvId

-----------------------------------------------------------------------------
(* MQIsdp_receivePub: two exchanges with the send task.                    *)

\* The first cell of the list that is one of these, or Null.
FirstCell(cells) ==
    LET found == {i \in 1..Len(rcvdPubsQ) : rcvdPubsQ[i] \in cells}
    IN  IF found = {} THEN Null ELSE rcvdPubsQ[Min(found)]

\* mspSendRcvPubResponse: the first entry that is released, with its rcvId.
ReceivePub ==
    /\ pc = "idle"
    /\ LET a == FirstCell({c \in Addr : heap[c].readyToPublish})
       IN  a # Null /\ taken' = <<a, heap[a].p, heap[a].rcvId>>
    /\ pc' = "taken"
    /\ UNCHANGED <<toLoad, sockOpen, nextRcvId, queueVars, rcvdStore, netVars,
                   brokerVars, appVars, faults, stops>>

\* The cell mspDeletePublication deletes for the confirmed rcvId.
ConfirmedCell(rcvId) == FirstCell({c \in Addr : heap[c].rcvId = rcvId})

\* The application has the publication: mspDeletePublication.  A failed delete
\* in the store is ignored.
ReceivePubAck ==
    /\ pc = "taken"
    /\ LET a == ConfirmedCell(taken[3])
       IN  IF a = Null THEN UNCHANGED <<queueVars, rcvdStore, faults>>
           ELSE /\ DeleteRPM(a)
                /\ UNCHANGED rpHash
                /\ IF Persist /\ Qos[heap[a].p] > 0
                     THEN \/ rcvdStore' = StoreDel(heap[a].rcvId) /\ UNCHANGED faults
                          \/ StoreFault /\ UNCHANGED rcvdStore
                     ELSE UNCHANGED <<rcvdStore, faults>>
    /\ delivered' = [delivered EXCEPT ![taken[2]] = IF @ = 0 THEN 1 ELSE 2]
    /\ pc' = "idle" /\ taken' = <<>>
    /\ UNCHANGED <<toLoad, sockOpen, nextRcvId, netVars, brokerVars, options, stops>>

\* The buffer of the application is too small: nothing is deleted.
ReceivePubDecline ==
    /\ pc = "taken"
    /\ pc' = "idle" /\ taken' = <<>>
    /\ UNCHANGED <<toLoad, sockOpen, nextRcvId, queueVars, rcvdStore, netVars,
                   brokerVars, appVars, faults, stops>>

-----------------------------------------------------------------------------
(* The broker, external: it sends each publication once, and again with    *)
(* the DUP flag as long as it is not answered.                             *)

Phases == {"new",      \* not sent yet
           "sent",     \* sent, QoS > 0, not answered
           "rel",      \* QoS 2, PUBREC received: it sends the PUBREL
           "done",     \* nothing left to do
           "dropped"}  \* its session ended first

InFlight(p) == phase[p] \in {"sent", "rel"}

BrokerSends(w) ==
    /\ sockOpen /\ Room
    /\ toClient' = Append(toClient, w)
    /\ UNCHANGED <<loadVars, sockOpen, nextRcvId, queueVars, rcvdStore, toBroker,
                   appVars, stops>>

InTransit(id) ==
    \/ \E i \in 1..Len(toClient) : toClient[i].id = id
    \/ \E i \in 1..Len(toBroker) : toBroker[i].id = id

\* The broker goes through its ids in turn: one comes back when nothing about
\* its last use is under way.
FreeIds == {id \in MsgIds : ~InTransit(id) /\ \A p \in Pubs : InFlight(p) => idOf[p] # id}

BrokerPublish(p) ==
    /\ phase[p] = "new"
    /\ IF Qos[p] = 0
         THEN BrokerSends(Publish(p, 0, FALSE)) /\ UNCHANGED idOf
         ELSE /\ FreeIds # {}
              /\ BrokerSends(Publish(p, Min(FreeIds), FALSE))
              /\ idOf' = [idOf EXCEPT ![p] = Min(FreeIds)]
    /\ phase' = [phase EXCEPT ![p] = IF Qos[p] = 0 THEN "done" ELSE "sent"]
    /\ UNCHANGED faults

\* A repeat that overtakes an answer still on its way counts as a fault.
BrokerResend(p) ==
    /\ InFlight(p)
    /\ IF InTransit(idOf[p]) THEN Fault ELSE UNCHANGED faults
    /\ BrokerSends(IF phase[p] = "sent" THEN Publish(p, idOf[p], TRUE)
                                        ELSE Pubrel(idOf[p]))
    /\ UNCHANGED brokerVars

\* The broker reads an answer to a publication q of the given QoS.
BrokerTakes(type, qos, q) ==
    /\ sockOpen /\ toBroker # <<>> /\ Head(toBroker).type = type
    /\ q \in Pubs /\ InFlight(q) /\ Qos[q] = qos /\ idOf[q] = Head(toBroker).id
    /\ toBroker' = Tail(toBroker)
    /\ idOf' = [idOf EXCEPT ![q] = IF type = "PUBREC" THEN @ ELSE 0]
    /\ UNCHANGED <<loadVars, sockOpen, nextRcvId, queueVars, rcvdStore, appVars,
                   faults, stops>>

BrokerPuback(q) ==
    /\ BrokerTakes("PUBACK", 1, q)
    /\ phase' = [phase EXCEPT ![q] = "done"]
    /\ UNCHANGED toClient

BrokerPubrec(q) ==
    /\ BrokerTakes("PUBREC", 2, q)
    /\ phase' = [phase EXCEPT ![q] = "rel"]
    /\ toClient' = Append(toClient, Pubrel(idOf[q]))

BrokerPubcomp(q) ==
    /\ BrokerTakes("PUBCOMP", 2, q)
    /\ phase' = [phase EXCEPT ![q] = "done"]
    /\ UNCHANGED toClient

\* An answer to nothing in flight (a second PUBACK, a second PUBCOMP).
BrokerIgnores ==
    /\ sockOpen /\ toBroker # <<>>
    /\ \A q \in Pubs : InFlight(q) /\ idOf[q] = Head(toBroker).id =>
         (Qos[q] = 1) # (Head(toBroker).type = "PUBACK")
    /\ toBroker' = Tail(toBroker)
    /\ UNCHANGED <<loadVars, sockOpen, nextRcvId, queueVars, rcvdStore, toClient,
                   brokerVars, appVars, faults, stops>>

-----------------------------------------------------------------------------
Init ==
    /\ pc = "off" /\ toLoad = {} /\ taken = <<>>
    /\ sockOpen = FALSE
    /\ nextRcvId = 0
    /\ heap = [a \in Addr |-> Freed]
    /\ rcvdPubsQ = <<>>
    /\ rpHash = [id \in MsgIds |-> Null]
    /\ rtpEntries = 0 /\ numBytesQueued = 0
    /\ rcvdStore = {}
    /\ toClient = <<>> /\ toBroker = <<>>
    /\ phase = [p \in Pubs |-> "new"]
    /\ idOf = [p \in Pubs |-> 0]
    /\ delivered = [p \in Pubs |-> 0]
    /\ options \in Options
    /\ faults = 0 /\ stops = 0

\* Every publication is dealt with; the application waits for another.  A
\* connection lost under clean start is the application's to restore.
Quiescent ==
    /\ pc = "idle" /\ rtpEntries = 0 /\ toClient = <<>> /\ toBroker = <<>>
    /\ \/ \A p \in Pubs : phase[p] \in {"done", "dropped"}
       \/ CleanStart /\ ~sockOpen
    /\ UNCHANGED vars

Next ==
    \/ Connect \/ LoadReceived \/ Establish \/ Disconnect \/ Crash
    \/ SocketError \/ Reconnect
    \/ PublishRefused \/ PublishUnpersisted \/ PublishStored \/ ReceivePubrel
    \/ ReceivePub \/ ReceivePubAck \/ ReceivePubDecline
    \/ \E p \in Pubs : BrokerPublish(p) \/ BrokerResend(p) \/ BrokerPuback(p)
                       \/ BrokerPubrec(p) \/ BrokerPubcomp(p)
    \/ BrokerIgnores
    \/ Quiescent

Spec == Init /\ [][Next]_vars

\* Every pass of the send task's loop serves the network and the reconnect
\* block; the application keeps calling MQIsdp_receivePub, and not for ever
\* with too small a buffer; the broker repeats what is not answered.
Fairness ==
    /\ WF_vars(Connect) /\ WF_vars(LoadReceived) /\ WF_vars(Establish)
    /\ SF_vars(Reconnect)
    /\ SF_vars(PublishStored) /\ SF_vars(PublishRefused) /\ SF_vars(ReceivePubrel)
    /\ SF_vars(ReceivePub) /\ SF_vars(ReceivePubAck)
    /\ \A p \in Pubs :
         /\ SF_vars(BrokerPublish(p)) /\ SF_vars(BrokerResend(p))
         /\ WF_vars(BrokerPuback(p)) /\ WF_vars(BrokerPubrec(p))
         /\ WF_vars(BrokerPubcomp(p))
    /\ WF_vars(BrokerIgnores)

FairSpec == Spec /\ Fairness

-----------------------------------------------------------------------------
(* Properties.                                                             *)

\* The type of every variable; while a publication is with the application
\* it is still linked.
TypeOK ==
    /\ pc \in {"off", "load", "idle", "taken"}
    /\ sockOpen \in BOOLEAN
    /\ nextRcvId \in 0..RcvMax
    /\ heap \in [Addr -> Entry \cup {Freed}]
    /\ rcvdPubsQ \in Seq(Addr)
    /\ rpHash \in [MsgIds -> Addr \cup {Null}]
    /\ rtpEntries \in Int /\ numBytesQueued \in Int
    /\ toLoad \subseteq Stored /\ rcvdStore \subseteq Stored
    /\ toClient \in Seq(ToClient) /\ toBroker \in Seq(ToBroker)
    /\ phase \in [Pubs -> Phases]
    /\ idOf \in [Pubs -> MsgIds \cup {0}]
    /\ delivered \in [Pubs -> 0..2]
    /\ options \in Options
    /\ faults \in Nat /\ stops \in Nat
    /\ IF pc = "taken"
         THEN taken[1] \in Cells(rcvdPubsQ) /\ taken[2] \in Pubs /\ taken[3] \in 0..RcvMax
         ELSE taken = <<>>

\* rtpEntries, on which MQIsdp_receivePub decides whether to wait and whether
\* to report more publications, is the number of released entries: it is
\* counted on arrival, by a PUBREL, and at deletion, in three functions.
ReadyCounted ==
    rtpEntries = Quantify(Cells(rcvdPubsQ), LAMBDA a : heap[a].readyToPublish)

\* A PUBREL always finds a live publication that still waits for it: the hash
\* table holds no dangling pointer and no released one, and every publication
\* that waits is hashed, so that it can be released.
HashHoldsUnreleased ==
    /\ \A id \in MsgIds : rpHash[id] # Null =>
         rpHash[id] \in Cells(rcvdPubsQ) /\ ~heap[rpHash[id]].readyToPublish
    /\ \A a \in Cells(rcvdPubsQ) : ~heap[a].readyToPublish =>
         \E id \in MsgIds : rpHash[id] = a

\* The confirmation of MQIsdp_receivePub deletes the publication that was
\* received and no other: rcvId identifies it.
ConfirmsWhatWasTaken == pc = "taken" => ConfirmedCell(taken[3]) = taken[1]

\* With persistence, what the broker was told is safe is safe: a publication
\* it has an answer for was received by the application or is in the store,
\* released if the broker is done with it.  (A clean start gives them up.)
AnsweredIsKept ==
    Persist /\ ~CleanStart => \A p \in Pubs :
      Qos[p] > 0 /\ phase[p] \in {"rel", "done"} /\ delivered[p] = 0 =>
        \E s \in rcvdStore : s.p = p /\ (phase[p] = "done" => s.readyToPublish)

\* Unless it fails, the store of a connected application mirrors its queue:
\* the same publications (QoS 1 and 2) under the same ids, released or not.
StoreMirrorsQueue ==
    Persist /\ ~StoreFails /\ pc \in {"idle", "taken"} =>
      {<<s.key, s.p, s.readyToPublish>> : s \in rcvdStore}
        = {<<heap[a].rcvId, heap[a].p, heap[a].readyToPublish>> :
             a \in {b \in Cells(rcvdPubsQ) : Qos[heap[b].p] > 0}}

\* The application receives a QoS 2 publication at most once, across lost
\* answers, repeats and restarts; unless the store fails to delete it, which
\* mspDeletePublication does not look at.
AtMostOnce == ~StoreFails => \A p \in Pubs : Qos[p] = 2 => delivered[p] <= 1

\* A QoS 2 publication reaches the application only after the broker has
\* released it.
NotBeforeRelease ==
    \A p \in Pubs : Qos[p] = 2 /\ delivered[p] > 0 => phase[p] \in {"rel", "done", "dropped"}

\* What becomes of each QoS 2 publication, seen from outside: once the broker has its
\* PUBREC it is owed, as long as it would be received after a restart, that is, while the
\* store has it. Only a store that is not reset promises that, and one that fails to
\* delete promises no more than that the publication is received.
Exact == {p \in Pubs : Qos[p] = 2}
Holds(p) == Persist /\ ~CleanStart => \E s \in rcvdStore : s.p = p
Stage == [p \in Exact |-> CASE phase[p] \in {"new", "sent"} -> "new"
                           [] phase[p] = "dropped"         -> "given up"
                           [] OTHER                        -> IF Holds(p) THEN "owed" ELSE "settled"]
Acted == [p \in Exact |-> IF StoreFails /\ delivered[p] > 1 THEN 1 ELSE delivered[p]]

Promise == INSTANCE Delivery WITH
             Requests <- Exact, Once <- Exact, stage <- Stage, acted <- Acted

\* The receiving half keeps its promise: what it has answered for is in the store until
\* the application has received it and never comes back to it, it is received after its
\* release and once, and not at all after its session was given up.
ImplementsDelivery == Promise!Spec

\* Every publication sent with QoS 1 or 2 is received by the application, and
\* the broker learns that it need not repeat it; but an application without
\* persistence that stops loses what it has not received.
EventuallyReceived ==
    \A p \in Pubs :
      Qos[p] > 0 /\ phase[p] = "sent"
        ~> \/ delivered[p] > 0 /\ phase[p] = "done"
           \/ ~Persist /\ stops > 0
=============================================================================
