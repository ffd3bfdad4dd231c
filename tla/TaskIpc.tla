------------------------------ MODULE TaskIpc ------------------------------
(***************************************************************************)
(* The threaded build of the WMQTT client library: application threads,    *)
(* the send task and the receive task, which exchange messages through     *)
(* three mailboxes (pipes), a mutex for the send task's mailbox and a      *)
(* semaphore that tells the application of publications.                   *)
(*                                                                         *)
(* A step is what a thread does between two operations on what it shares   *)
(* with others: a handler of the send task is one step, a call of the      *)
(* application is a step for each message it exchanges.  What the send     *)
(* task stores and persists is the subject of Outbound and Inbound; a      *)
(* publication is a number here, and is ready for the application as soon  *)
(* as it has been received.                                                *)
(***************************************************************************)
EXTENDS Integers, SequencesExt

CONSTANTS
    Apps,        \* the threads of the application, which share one handle
    Fds,         \* the socket descriptors the process can get
    MaxPubs,     \* bound: publications of the broker
    MaxConnects, \* bound: TCP connections that succeed
    RetryCount,  \* retryCount of CONN_PARMS; 0 stands for clean start as well
    Faults,      \* "init": mspInitialiseHconn may fail; "second": a thread may
                 \* connect with a handle of its own
    NoSock,      \* MSP_INVALID_SOCKET
    Nobody,      \* the holder of a mutex that is free
    Nothing,     \* the data of a message that carries none
    Connack,     \* what the broker sends besides publications: a CONNACK that
    Refused      \* accepts, one that refuses

ASSUME TasksAssumption ==
    /\ NoSock \notin Fds
    /\ Nobody \notin Apps /\ "rcv" \notin Apps \union {Nobody}
    /\ Nothing \notin Nat \union Fds
    /\ Connack \notin Nat /\ Refused \notin Nat /\ Connack # Refused
    /\ MaxPubs \in Nat /\ MaxConnects \in Nat /\ RetryCount \in Nat
    /\ Faults \subseteq {"init", "second"}

VARIABLES
    \* Shared.
    sendMutex,      \* who holds the mutex of the send task's mailbox
    sendMailbox,    \* messages for the send task
    apiMailbox,     \* messages for the application
    receiveMailbox, \* messages for the receive task
    msgAvailable,   \* the flag of the receive semaphore
    mspEnding,      \* set by MQIsdp_terminate
    \* The application.
    pc,             \* pc[a]: "idle", "wait" or "sleep" (at the semaphore, for a time or
                    \* for ever), "lock", "reply", "confirm" (waits for RCV_B)
    call,           \* call[a]: the eye catcher of the request a is making, or Nothing
    handle,         \* the connection handle is valid
    \* The send task.
    spc,            \* "ipc", "ping", "reconnect", "retry", "ended"
    appConnected,   \* ctrlFlags & MSP_CLIENT_APP_CONNECTED
    connState,      \* the MQIsdp_StatusInfo of the connection
    connRetries,    \* reconnect.connRetries
    sockfd,         \* tcpParms.sockfd
    ready,          \* the publications of inQ.rcvdPubsQ, all of them ready
    \* The receive task.
    rpc,            \* "loop", "close" (has seen the end of the stream), "lock",
                    \* "reply" (waits for RTSK_R), "ended"
    rcvSockfd,      \* rcvHconn.sockfd
    rcvBuffer,      \* rcvHconn.ipcCb.pIpcBuffer
    \* The network and the broker.
    link,           \* link[f]: "closed", "asked" (CONNECT sent), "up", "gone" (peer closed)
    stream,         \* stream[f]: what the broker has sent and nobody has read
    conns,          \* TCP connections made so far
    pubs            \* publications sent so far

shared  == <<sendMutex, sendMailbox, apiMailbox, receiveMailbox, msgAvailable>>
appVars == <<pc, call, handle>>
conn    == <<connState, connRetries, sockfd, link, stream, conns>>
sndVars == <<spc, appConnected, ready, conn>>
rcvVars == <<rpc, rcvSockfd, rcvBuffer>>
vars    == <<shared, mspEnding, appVars, sndVars, rcvVars, pubs>>

\* CB_HEAD: the eye catcher, the return code, and the publication or descriptor
\* (or Nothing) the message is about.
Message(ec, rc, data) == [ec |-> ec, rc |-> rc, data |-> data]

\* The requests that are one exchange (mspIPCExchange): connect, disconnect,
\* publish/subscribe/unsubscribe, message status, connection status.
Requests == {"C", "D", "P", "M", "T"}
States == {"CONNECTED", "CONNECTING", "DISCONNECTED", "CONNECTION_BROKEN"}
Items == {Connack, Refused} \union (1..MaxPubs)

Init ==
    /\ sendMutex = Nobody /\ msgAvailable = FALSE /\ mspEnding = FALSE
    /\ sendMailbox = <<>> /\ apiMailbox = <<>> /\ receiveMailbox = <<>>
    /\ pc = [a \in Apps |-> "idle"] /\ call = [a \in Apps |-> Nothing] /\ handle = FALSE
    /\ spc = "ipc" /\ appConnected = FALSE
    /\ connState = "DISCONNECTED" /\ connRetries = 0 /\ sockfd = NoSock /\ ready = <<>>
    /\ rpc = "loop" /\ rcvSockfd = NoSock /\ rcvBuffer = Nothing
    /\ link = [f \in Fds |-> "closed"] /\ stream = [f \in Fds |-> <<>>]
    /\ conns = 0 /\ pubs = 0

-----------------------------------------------------------------------------
(* The application                                                         *)

\* A call enters the library.  A thread connects when the handle is invalid (or
\* when it has its own), disconnects when no other thread is in a call: the
\* handle is freed under it.
Begin(a, ec) ==
    /\ pc[a] = "idle" /\ ~mspEnding
    /\ IF ec = "C"
         THEN \/ "second" \in Faults
              \/ ~handle /\ \A b \in Apps : pc[b] = "idle" \/ call[b] # "C"
         ELSE handle
    /\ ec = "D" => \A b \in Apps : pc[b] = "idle"
    /\ \A b \in Apps : pc[b] = "idle" \/ call[b] # "D"
    /\ pc' = [pc EXCEPT ![a] = "lock"] /\ call' = [call EXCEPT ![a] = ec]
    /\ UNCHANGED <<shared, mspEnding, handle, sndVars, rcvVars, pubs>>

\* MQIsdp_receivePub waits at the semaphore, for a time or for ever.
BeginReceive(a) ==
    /\ pc[a] = "idle" /\ ~mspEnding /\ handle
    /\ \A b \in Apps : pc[b] = "idle" \/ call[b] # "D"
    /\ \E p \in {"wait", "sleep"} : pc' = [pc EXCEPT ![a] = p]
    /\ call' = [call EXCEPT ![a] = "R"]
    /\ UNCHANGED <<shared, mspEnding, handle, sndVars, rcvVars, pubs>>

\* mspWaitForSemaphore returns: a message is available, the time is over, or the
\* condition variable wakes a thread for no reason.  The flag is reset in every case,
\* and the send task is asked in every case.
Wake(a) ==
    /\ pc[a] \in {"wait", "sleep"}
    /\ msgAvailable' = FALSE
    /\ pc' = [pc EXCEPT ![a] = "lock"]
    /\ UNCHANGED <<sendMutex, sendMailbox, apiMailbox, receiveMailbox, mspEnding,
                   call, handle, sndVars, rcvVars, pubs>>

\* Mutant: the request is written without the mutex.
RequestUnlocked(a) ==
    /\ pc[a] = "lock"
    /\ sendMutex' = a
    /\ sendMailbox' = Append(sendMailbox, Message(call[a], "OK", Nothing))
    /\ pc' = [pc EXCEPT ![a] = "reply"]
    /\ UNCHANGED <<apiMailbox, receiveMailbox, msgAvailable, mspEnding, call, handle,
                   sndVars, rcvVars, pubs>>

\* Lock the mutex and write the request into the send task's mailbox.
Request(a) ==
    /\ pc[a] = "lock" /\ sendMutex = Nobody
    /\ sendMutex' = a
    /\ sendMailbox' = Append(sendMailbox, Message(call[a], "OK", Nothing))
    /\ pc' = [pc EXCEPT ![a] = "reply"]
    /\ UNCHANGED <<apiMailbox, receiveMailbox, msgAvailable, mspEnding, call, handle,
                   sndVars, rcvVars, pubs>>

\* The call is over: the mutex is released.
Return(a) ==
    /\ sendMutex' = Nobody
    /\ pc' = [pc EXCEPT ![a] = "idle"] /\ call' = [call EXCEPT ![a] = Nothing]

\* Mutant: receivePub returns without waiting for RCV_B.
AnswerPubAndReturn(a, pub) ==
    /\ \E ec \in {"A", "E"} : sendMailbox' = Append(sendMailbox, Message(ec, "OK", pub))
    /\ Return(a)

\* receivePub has a publication: it answers "A" (taken) or "E" (its buffer is too
\* small), and keeps the mutex until the send task has confirmed that.
AnswerPub(a, pub) ==
    /\ \E ec \in {"A", "E"} : sendMailbox' = Append(sendMailbox, Message(ec, "OK", pub))
    /\ pc' = [pc EXCEPT ![a] = "confirm"]
    /\ UNCHANGED <<sendMutex, call>>

\* The blocking read of the reply.
Reply(a) ==
    /\ pc[a] = "reply" /\ apiMailbox # <<>>
    /\ apiMailbox' = Tail(apiMailbox)
    /\ LET m == Head(apiMailbox)
       IN /\ handle' = CASE call[a] = "C" -> m.rc = "OK"
                         [] call[a] = "D" -> FALSE
                         [] OTHER -> handle
          /\ IF call[a] = "R" /\ m.data # Nothing
               THEN AnswerPub(a, m.data)
               ELSE Return(a) /\ UNCHANGED sendMailbox
    /\ UNCHANGED <<receiveMailbox, msgAvailable, mspEnding, sndVars, rcvVars, pubs>>

\* receivePub reads the confirmation.
Confirmed(a) ==
    /\ pc[a] = "confirm" /\ apiMailbox # <<>>
    /\ apiMailbox' = Tail(apiMailbox)
    /\ Return(a)
    /\ UNCHANGED <<sendMailbox, receiveMailbox, msgAvailable, mspEnding, handle,
                   sndVars, rcvVars, pubs>>

\* MQIsdp_terminate, by an application that has disconnected and calls no more.
Terminate ==
    /\ ~mspEnding /\ ~handle /\ \A a \in Apps : pc[a] = "idle"
    /\ mspEnding' = TRUE
    /\ UNCHANGED <<shared, appVars, sndVars, rcvVars, pubs>>

-----------------------------------------------------------------------------
(* The connection, as the send task uses it                                *)

\* mspTCPDisconnect of a descriptor: closed, its stream lost.
Closed(f) ==
    /\ link' = IF f = NoSock THEN link ELSE [link EXCEPT ![f] = "closed"]
    /\ stream' = IF f = NoSock THEN stream ELSE [stream EXCEPT ![f] = <<>>]

\* mspSendScadaMessage writes to the socket, if there is one.  A write to a descriptor
\* that the receive task has closed fails; a write to a connection the peer has left may
\* fail; a write that fails closes the socket.
Write ==
    \/ /\ sockfd # NoSock => link[sockfd] # "closed"
       /\ UNCHANGED conn
    \/ /\ sockfd # NoSock /\ link[sockfd] \in {"closed", "gone"}
       /\ connState' = "DISCONNECTED" /\ sockfd' = NoSock
       /\ Closed(sockfd)
       /\ UNCHANGED <<connRetries, conns>>

\* mspTCPInitialise: the network refuses the connection, or gives it a descriptor that
\* is not in use; mspInitReceiveTask then tells the receive task, and the CONNECT goes
\* out.  The socket of before, if any, is closed (mspMQIsdpReconnect).
Connect(failedState) ==
    LET free == {f \in Fds : link[f] = "closed" \/ f = sockfd}
    IN \/ /\ connState' = failedState /\ sockfd' = NoSock
          /\ Closed(sockfd)
          /\ UNCHANGED <<receiveMailbox, conns>>
       \/ /\ conns < MaxConnects
          /\ \E f \in free :
                /\ sockfd' = f
                /\ link' = [g \in Fds |-> IF g = f THEN "asked"
                                          ELSE IF g = sockfd THEN "closed" ELSE link[g]]
                /\ stream' = [g \in Fds |-> IF g \in {f, sockfd} THEN <<>> ELSE stream[g]]
                /\ receiveMailbox' = Append(receiveMailbox, Message("RCON_S", "OK", f))
          /\ connState' = "CONNECTING" /\ conns' = conns + 1

-----------------------------------------------------------------------------
(* The send task                                                           *)

\* mspSignalSemaphore
Signal == msgAvailable' = TRUE

\* Where the loop of mspHandleClientConnection goes: to the next of stages whose time has
\* come and that has something to do, or to its end.
Proceed(stages) ==
    spc' \in {IF mspEnding THEN "ended" ELSE "ipc"}
             \union (IF connState' = "CONNECTED" THEN stages \ {"reconnect"}
                     ELSE stages \ {"ping"})
Stages == {"ping", "reconnect", "retry"}

Respond(ec, rc, data) == apiMailbox' = Append(apiMailbox, Message(ec, rc, data))

\* "C": an application that connects to a task that serves one already is not answered.
\* Otherwise the CONNECT cannot be built (the task serves nobody), the connection cannot
\* be initialised (host name, persistence), or the connection is tried.
ReadConnect ==
    /\ UNCHANGED <<msgAvailable, ready>>
    /\ \/ /\ appConnected
          /\ UNCHANGED <<apiMailbox, receiveMailbox, appConnected, conn>>
       \/ /\ ~appConnected
          /\ Respond("C", "FAILED", Nothing)
          /\ UNCHANGED <<receiveMailbox, appConnected, conn>>
       \/ /\ ~appConnected /\ "init" \in Faults
          /\ appConnected' = TRUE /\ Respond("C", "FAILED", Nothing)
          /\ connState' = "CONNECTING"
          /\ UNCHANGED <<receiveMailbox, connRetries, sockfd, link, stream, conns>>
       \/ /\ ~appConnected
          /\ appConnected' = TRUE /\ Respond("C", "OK", Nothing)
          /\ Connect("CONNECTING")
          /\ UNCHANGED connRetries

\* "D": mspResetHconn closes the socket and frees what was received.  It does not tell
\* the receive task.
ReadDisconnect ==
    /\ appConnected' = FALSE /\ Respond("D", "OK", Nothing)
    /\ sockfd' = NoSock /\ connRetries' = 0 /\ ready' = <<>>
    /\ Closed(sockfd)
    /\ connState' \in {connState} \union
           (IF sockfd # NoSock /\ link[sockfd] \in {"closed", "gone"}
              THEN {"DISCONNECTED"} ELSE {})
    /\ UNCHANGED <<receiveMailbox, msgAvailable, conns>>

\* Mutant: a request on a broken connection is not answered.
ReadPublishSilent ==
    /\ \/ /\ connState = "CONNECTION_BROKEN"
          /\ UNCHANGED <<apiMailbox, conn>>
       \/ /\ connState # "CONNECTION_BROKEN"
          /\ Respond("P", "OK", Nothing) /\ Write
    /\ UNCHANGED <<receiveMailbox, msgAvailable, appConnected, ready>>

\* "P", "S", "U": the request is refused on a broken connection, else sent.
ReadPublish ==
    /\ \/ /\ connState = "CONNECTION_BROKEN"
          /\ Respond("P", "CONNECTION_BROKEN", Nothing) /\ UNCHANGED conn
       \/ /\ connState # "CONNECTION_BROKEN"
          /\ Respond("P", "OK", Nothing) /\ Write
    /\ UNCHANGED <<receiveMailbox, msgAvailable, appConnected, ready>>

\* "M", "T": the status of a message, of the connection.
ReadStatus(ec) ==
    /\ Respond(ec, IF ec = "T" THEN connState ELSE "OK", Nothing)
    /\ UNCHANGED <<receiveMailbox, msgAvailable, appConnected, ready, conn>>

\* Mutant: a publication is deleted when it is offered.
ReadReceiveAndDelete ==
    /\ IF ready = <<>>
         THEN /\ Respond("RCV_R", IF connState = "CONNECTION_BROKEN"
                                    THEN connState ELSE "NO_PUBS_AVAILABLE", Nothing)
              /\ UNCHANGED ready
         ELSE /\ Respond("RCV_R", "OK", Head(ready))
              /\ ready' = Tail(ready)
    /\ UNCHANGED <<receiveMailbox, msgAvailable, appConnected, conn>>

\* "R": mspSendRcvPubResponse offers the first publication and keeps it.
ReadReceive ==
    /\ IF ready = <<>>
         THEN Respond("RCV_R", IF connState = "CONNECTION_BROKEN"
                                 THEN connState ELSE "NO_PUBS_AVAILABLE", Nothing)
         ELSE Respond("RCV_R", "OK", Head(ready))
    /\ UNCHANGED <<receiveMailbox, msgAvailable, appConnected, ready, conn>>

\* "A": mspDeletePublication of the first entry that is this publication, and a signal
\* when more can be received.
ReadTaken(pub) ==
    /\ Respond("RCV_B", "OK", pub)
    /\ ready' = RemoveFirst(ready, pub)
    /\ IF ready' # <<>> THEN Signal ELSE UNCHANGED msgAvailable
    /\ UNCHANGED <<receiveMailbox, appConnected, conn>>

\* Mutant: a declined publication is not signalled again.
ReadDeclinedUnsignalled ==
    /\ Respond("RCV_B", "OK", Nothing)
    /\ UNCHANGED <<receiveMailbox, appConnected, ready, conn, msgAvailable>>

\* "E": the publication stays; a signal for the next waiter.
ReadDeclined ==
    /\ Respond("RCV_B", "OK", Nothing)
    /\ IF ready # <<>> THEN Signal ELSE UNCHANGED msgAvailable
    /\ UNCHANGED <<receiveMailbox, appConnected, ready, conn>>

\* mspReceiveScadaMessage of a CONNACK: it is taken for the connection of now.
ReadConnack(item) ==
    /\ UNCHANGED <<msgAvailable, ready, conns>>
    /\ \/ /\ item = Connack
          /\ connState' = "CONNECTED"
          /\ connRetries' = 0
          /\ UNCHANGED <<sockfd, link, stream>>
       \/ /\ item = Refused
          /\ connState' = "DISCONNECTED" /\ sockfd' = NoSock
          /\ Closed(sockfd)
          /\ connRetries' = RetryCount + 1

\* mspReceiveScadaMessage of a publication: queued; a signal when it is the first one
\* that is ready; answered, or not (QoS 0).
ReadPub(item) ==
    /\ item \in 1..MaxPubs
    /\ ready' = Append(ready, item)
    /\ IF ready = <<>> THEN Signal ELSE UNCHANGED msgAvailable
    /\ Write

\* "K": what the pointer of the receive task points at is processed, then answered.
ReadNetwork ==
    /\ ReadConnack(rcvBuffer) \/ ReadPub(rcvBuffer)
    /\ receiveMailbox' = Append(receiveMailbox, Message("RTSK_R", "OK", Nothing))
    /\ UNCHANGED <<apiMailbox, appConnected>>

\* mspReadIPC and mspReceiveIPCMessage.
ReadIPC ==
    /\ spc = "ipc" /\ sendMailbox # <<>>
    /\ sendMailbox' = Tail(sendMailbox)
    /\ LET m == Head(sendMailbox)
       IN \/ m.ec = "C" /\ ReadConnect
          \/ m.ec = "D" /\ ReadDisconnect
          \/ m.ec = "P" /\ ReadPublish
          \/ m.ec \in {"M", "T"} /\ ReadStatus(m.ec)
          \/ m.ec = "R" /\ ReadReceive
          \/ m.ec = "A" /\ ReadTaken(m.data)
          \/ m.ec = "E" /\ ReadDeclined
          \/ m.ec = "K" /\ ReadNetwork
    /\ Proceed(IF appConnected' THEN Stages ELSE {})
    /\ UNCHANGED <<sendMutex, mspEnding, appVars, rcvVars, pubs>>

\* The read of the mailbox times out.
IpcTimeout ==
    /\ spc = "ipc" /\ sendMailbox = <<>>
    /\ UNCHANGED <<shared, mspEnding, appVars, appConnected, ready, conn, rcvVars, pubs>>
    /\ Proceed(IF appConnected THEN Stages ELSE {})

\* The keep alive interval is over.
Ping ==
    /\ spc = "ping"
    /\ Write
    /\ UNCHANGED <<shared, mspEnding, appVars, appConnected, ready, rcvVars, pubs>>
    /\ Proceed({"reconnect", "retry"})

\* A connection that is not up is tried again, until the retries have been used up.
Reconnect ==
    /\ spc = "reconnect"
    /\ \/ /\ connRetries < RetryCount
          /\ connRetries' = connRetries + 1
          /\ Connect(connState)
       \/ /\ connRetries >= RetryCount
          /\ connState' = "CONNECTION_BROKEN"
          /\ UNCHANGED <<receiveMailbox, connRetries, sockfd, link, stream, conns>>
    /\ UNCHANGED <<sendMutex, sendMailbox, apiMailbox, msgAvailable, mspEnding, appVars,
                   appConnected, ready, rcvVars, pubs>>
    /\ Proceed({"retry"})

\* The retry interval is over: messages are sent again.
Retry ==
    /\ spc = "retry"
    /\ Write
    /\ UNCHANGED <<shared, mspEnding, appVars, appConnected, ready, rcvVars, pubs>>
    /\ Proceed({})

-----------------------------------------------------------------------------
(* The receive task                                                        *)

\* Without a socket: read the mailbox.
GetSocket ==
    /\ rpc = "loop" /\ ~mspEnding /\ rcvSockfd = NoSock /\ receiveMailbox # <<>>
    /\ receiveMailbox' = Tail(receiveMailbox)
    /\ LET m == Head(receiveMailbox)
       IN rcvSockfd' = IF m.ec = "RCON_S" THEN m.data ELSE NoSock
    /\ UNCHANGED <<sendMutex, sendMailbox, apiMailbox, msgAvailable, mspEnding, appVars,
                   sndVars, rpc, rcvBuffer, pubs>>

\* With a socket: wait for it and read a message.  select fails on a descriptor that is
\* closed, and the loop begins again.
GetData ==
    /\ rpc = "loop" /\ ~mspEnding /\ rcvSockfd # NoSock
    /\ link[rcvSockfd] # "closed" /\ stream[rcvSockfd] # <<>>
    /\ rcvBuffer' = Head(stream[rcvSockfd])
    /\ stream' = [stream EXCEPT ![rcvSockfd] = Tail(@)]
    /\ rpc' = "lock"
    /\ UNCHANGED <<shared, mspEnding, appVars, spc, appConnected, ready, connState,
                   connRetries, sockfd, link, conns, rcvSockfd, pubs>>

\* The read finds the end of the stream ...
GetEnd ==
    /\ rpc = "loop" /\ ~mspEnding /\ rcvSockfd # NoSock
    /\ link[rcvSockfd] = "gone" /\ stream[rcvSockfd] = <<>>
    /\ rpc' = "close"
    /\ UNCHANGED <<shared, mspEnding, appVars, sndVars, rcvSockfd, rcvBuffer, pubs>>

\* ... and the descriptor is closed, whatever the send task has done with it meanwhile.
CloseSocket ==
    /\ rpc = "close"
    /\ Closed(rcvSockfd)
    /\ rcvSockfd' = NoSock /\ rpc' = "loop"
    /\ UNCHANGED <<shared, mspEnding, appVars, spc, appConnected, ready, connState,
                   connRetries, sockfd, conns, rcvBuffer, pubs>>

\* mspWriteDataToSendTask: lock the mutex, write a pointer to the buffer.
HandData ==
    /\ rpc = "lock" /\ sendMutex = Nobody
    /\ sendMutex' = "rcv" /\ rpc' = "reply"
    /\ sendMailbox' = Append(sendMailbox, Message("K", "OK", Nothing))
    /\ UNCHANGED <<apiMailbox, receiveMailbox, msgAvailable, mspEnding, appVars, sndVars,
                   rcvSockfd, rcvBuffer, pubs>>

\* Mutant: the mutex is not released.
HandedDataLocked ==
    /\ rpc = "reply" /\ receiveMailbox # <<>>
    /\ receiveMailbox' = Tail(receiveMailbox)
    /\ rpc' = "loop"
    /\ UNCHANGED <<sendMutex, sendMailbox, apiMailbox, msgAvailable, mspEnding, appVars,
                   sndVars, rcvSockfd, rcvBuffer, pubs>>

\* ... and wait for the answer, for ever.  Any message ends the wait: a new descriptor is
\* stored in the function's copy of the structure, and lost.
HandedData ==
    /\ rpc = "reply" /\ receiveMailbox # <<>>
    /\ receiveMailbox' = Tail(receiveMailbox)
    /\ sendMutex' = Nobody /\ rpc' = "loop"
    /\ UNCHANGED <<sendMailbox, apiMailbox, msgAvailable, mspEnding, appVars, sndVars,
                   rcvSockfd, rcvBuffer, pubs>>

RcvEnd ==
    /\ rpc = "loop" /\ mspEnding
    /\ rpc' = "ended"
    /\ UNCHANGED <<shared, mspEnding, appVars, sndVars, rcvSockfd, rcvBuffer, pubs>>

-----------------------------------------------------------------------------
(* The broker and the network                                              *)

BrokerAnswers(f) ==
    /\ link[f] = "asked"
    /\ \/ link' = [link EXCEPT ![f] = "up"] /\ stream' = [stream EXCEPT ![f] = <<Connack>>]
       \/ link' = [link EXCEPT ![f] = "gone"] /\ stream' = [stream EXCEPT ![f] = <<Refused>>]
    /\ UNCHANGED <<shared, mspEnding, appVars, spc, appConnected, ready, connState,
                   connRetries, sockfd, conns, rcvVars, pubs>>

BrokerPublishes(f) ==
    /\ link[f] = "up" /\ pubs < MaxPubs
    /\ pubs' = pubs + 1
    /\ stream' = [stream EXCEPT ![f] = Append(@, pubs + 1)]
    /\ UNCHANGED <<shared, mspEnding, appVars, spc, appConnected, ready, connState,
                   connRetries, sockfd, link, conns, rcvVars>>

LinkBreaks(f) ==
    /\ link[f] \in {"asked", "up"}
    /\ link' = [link EXCEPT ![f] = "gone"]
    /\ UNCHANGED <<shared, mspEnding, appVars, spc, appConnected, ready, connState,
                   connRetries, sockfd, stream, conns, rcvVars, pubs>>

\* The tasks have ended, or wait for one that has: the program may stop.
Stopped ==
    /\ spc = "ended" /\ rpc \in {"ended", "reply", "lock"}
    /\ UNCHANGED vars

-----------------------------------------------------------------------------
SendTask == ReadIPC \/ IpcTimeout \/ Ping \/ Reconnect \/ Retry
ReceiveTask == GetSocket \/ GetData \/ GetEnd \/ CloseSocket \/ HandedData \/ RcvEnd

Next ==
    \/ \E a \in Apps, ec \in Requests : Begin(a, ec)
    \/ \E a \in Apps : BeginReceive(a)
    \/ \E a \in Apps : Wake(a)
    \/ \E a \in Apps : Request(a)
    \/ \E a \in Apps : Reply(a)
    \/ \E a \in Apps : Confirmed(a)
    \/ Terminate
    \/ ReadIPC \/ IpcTimeout \/ Ping \/ Reconnect \/ Retry
    \/ GetSocket \/ GetData \/ GetEnd \/ CloseSocket \/ HandData \/ HandedData \/ RcvEnd
    \/ \E f \in Fds : BrokerAnswers(f)
    \/ \E f \in Fds : BrokerPublishes(f)
    \/ \E f \in Fds : LinkBreaks(f)
    \/ Stopped

\* The tasks are scheduled; a thread's blocking read returns when there is something to
\* read, a wait with a time limit ends; semop serves the threads that wait for the mutex
\* in turn.  Nothing is assumed of the application, the broker or the network.
Fairness ==
    /\ WF_vars(SendTask) /\ WF_vars(ReceiveTask) /\ SF_vars(HandData)
    /\ \A a \in Apps :
          /\ WF_vars(pc[a] = "wait" /\ Wake(a))
          /\ SF_vars(Request(a))
          /\ WF_vars(Reply(a)) /\ WF_vars(Confirmed(a))

Spec == Init /\ [][Next]_vars
FairSpec == Spec /\ Fairness

-----------------------------------------------------------------------------
(* Properties                                                              *)

Waiting(a) == pc[a] \in {"reply", "confirm"}

TypeOK ==
    /\ sendMutex \in Apps \union {"rcv", Nobody}
    /\ msgAvailable \in BOOLEAN /\ mspEnding \in BOOLEAN /\ handle \in BOOLEAN
    /\ pc \in [Apps -> {"idle", "wait", "sleep", "lock", "reply", "confirm"}]
    /\ call \in [Apps -> Requests \union {"R", Nothing}]
    /\ spc \in {"ipc", "ping", "reconnect", "retry", "ended"}
    /\ appConnected \in BOOLEAN /\ connState \in States
    /\ connRetries \in 0..(RetryCount + 1) /\ conns \in 0..MaxConnects /\ pubs \in 0..MaxPubs
    /\ sockfd \in Fds \union {NoSock} /\ rcvSockfd \in Fds \union {NoSock}
    /\ rpc \in {"loop", "close", "lock", "reply", "ended"}
    /\ rcvBuffer \in Items \union {Nothing}
    /\ link \in [Fds -> {"closed", "asked", "up", "gone"}]
    /\ \A f \in Fds : stream[f] \in Seq(Items)
    /\ ready \in Seq(1..MaxPubs)
    \* What a mailbox holds is for its reader, and who waits for an answer holds the mutex.
    /\ \A i \in DOMAIN sendMailbox : sendMailbox[i].ec \in Requests \union {"R", "A", "E", "K"}
    /\ \A i \in DOMAIN receiveMailbox : receiveMailbox[i].ec \in {"RCON_S", "RTSK_R"}
    /\ \A a \in Apps : Waiting(a) => sendMutex = a

\* What is in the application's mailbox is the answer to the request of the thread that
\* holds the mutex: no thread ever reads the answer to another's call, although the mailbox
\* is shared and a message does not say whom it is for (mspclnt.c:390-399).
OwnReply ==
    /\ Len(apiMailbox) <= 1
    /\ apiMailbox # <<>> =>
          \E a \in Apps :
             /\ sendMutex = a /\ Waiting(a)
             /\ Head(apiMailbox).ec = IF pc[a] = "confirm" THEN "RCV_B"
                                      ELSE IF call[a] = "R" THEN "RCV_R" ELSE call[a]

\* The publication a thread confirms is still queued when the send task comes to delete
\* it: nobody else has confirmed it, and no disconnect has freed it, in between
\* (mspDeletePublication's error path is not reached).
ConfirmedIsQueued ==
    \A i \in DOMAIN sendMailbox :
        sendMailbox[i].ec \in {"A", "E"} => \E j \in DOMAIN ready : ready[j] = sendMailbox[i].data

\* No lost wake-up: while a publication can be received, the semaphore is available, or a
\* thread is past it and has still to ask or to confirm; so no thread sleeps for ever on a
\* publication that has arrived, although only the first publication signals and every
\* wait resets the flag.
NoLostWakeup ==
    ready # <<>> =>
        \/ msgAvailable
        \/ \E a \in Apps : call[a] = "R" /\ pc[a] \in {"lock", "reply", "confirm"}

\* Nobody waits for an answer that will not come: the request of a thread that waits is
\* still in the send task's mailbox, or its answer is in the thread's own.
Answered ==
    /\ \A a \in Apps : Waiting(a) => sendMailbox # <<>> \/ apiMailbox # <<>>
    /\ rpc = "reply" => mspEnding \/ sendMailbox # <<>> \/ receiveMailbox # <<>>

\* Every call returns, also when connections are refused or lost, unless a connect fails
\* while it is initialised or a second handle is used (Faults); only receivePub may wait for
\* ever, at the semaphore, when the application has told it to.
CallsReturn ==
    \A a \in Apps : (pc[a] \notin {"idle", "sleep"}) ~> (pc[a] \in {"idle"})

\* The receive task gets rid of a socket that has been closed (mspdmn.c:51).
ListensAgain ==
    (rcvSockfd # NoSock /\ link[rcvSockfd] = "closed" /\ ~mspEnding)
        ~> (rcvSockfd = NoSock \/ link[rcvSockfd] # "closed" \/ mspEnding)

=============================================================================
