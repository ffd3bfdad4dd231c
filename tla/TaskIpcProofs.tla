--------------------------- MODULE TaskIpcProofs ----------------------------
(***************************************************************************)
(* Proofs about the threaded build for every number of application         *)
(* threads, descriptors, publications and connections: who may be waiting  *)
(* for what at the three mailboxes.                                        *)
(***************************************************************************)
EXTENDS TaskIpc, TLAPS, WellFoundedInduction

-----------------------------------------------------------------------------
(* The inductive invariant.                                                *)

\* The variables of the connection, which Write, Connect and Closed change.
ConnOK ==
    /\ connState \in States /\ connRetries \in 0..(RetryCount + 1) /\ conns \in 0..MaxConnects
    /\ sockfd \in Fds \union {NoSock}
    /\ link \in [Fds -> {"closed", "asked", "up", "gone"}]
    /\ stream \in [Fds -> Seq(Items)]

\* The other variables, but for the mailboxes.
TasksOK ==
    /\ sendMutex \in Apps \union {"rcv", Nobody}
    /\ msgAvailable \in BOOLEAN /\ mspEnding \in BOOLEAN /\ handle \in BOOLEAN
    /\ pc \in [Apps -> {"idle", "wait", "sleep", "lock", "reply", "confirm"}]
    /\ call \in [Apps -> Requests \union {"R", Nothing}]
    /\ spc \in {"ipc", "ping", "reconnect", "retry", "ended"}
    /\ appConnected \in BOOLEAN /\ pubs \in 0..MaxPubs
    /\ rpc \in {"loop", "close", "lock", "reply", "ended"}
    /\ rcvSockfd \in Fds \union {NoSock}
    /\ rcvBuffer \in Items \union {Nothing}
    /\ ready \in Seq(1..MaxPubs)

Pubs  == 1..MaxPubs
Codes == States \union {"OK", "FAILED", "NO_PUBS_AVAILABLE"}

SendMessages == [ec : Requests \union {"R", "A", "E", "K"}, rc : {"OK"}, data : Pubs \union {Nothing}]
ApiMessages  == [ec : Requests \union {"RCV_R", "RCV_B"}, rc : Codes, data : Pubs \union {Nothing}]
RcvMessages  == [ec : {"RCON_S"}, rc : {"OK"}, data : Fds]
                \union [ec : {"RTSK_R"}, rc : {"OK"}, data : {Nothing}]

MailboxesOK ==
    /\ sendMailbox \in Seq(SendMessages)
    /\ apiMailbox \in Seq(ApiMessages)
    /\ receiveMailbox \in Seq(RcvMessages)

\* The mutex is held by the thread that waits for an answer.
HolderWaits ==
    /\ \A a \in Apps : Waiting(a) <=> sendMutex = a
    /\ rpc = "reply" <=> sendMutex = "rcv"

\* A thread in a call knows which.
CallOK ==
    \A a \in Apps :
        /\ pc[a] # "idle" => call[a] \in Requests \union {"R"}
        /\ pc[a] \in {"wait", "sleep", "confirm"} => call[a] = "R"

\* The message of an application that the send task has not read yet.
FromApp(m) == m.ec # "K"

Asks(a, m) ==
    IF pc[a] = "confirm" THEN m.ec \in {"A", "E"} ELSE pc[a] = "reply" /\ m.ec = call[a]

\* There is one at most, it is what the holder of the mutex has asked, and no answer
\* lies in the application's mailbox beside it.  Messages of the receive task may be left
\* from before: their writer does not always wait for the answer.
OneRequest ==
    /\ \A i, j \in DOMAIN sendMailbox :
          FromApp(sendMailbox[i]) /\ FromApp(sendMailbox[j]) => i = j
    /\ \A i \in DOMAIN sendMailbox :
          FromApp(sendMailbox[i]) =>
              /\ apiMailbox = <<>>
              /\ \E a \in Apps : sendMutex = a /\ Asks(a, sendMailbox[i])

IsReady(p) == \E j \in DOMAIN ready : ready[j] = p

\* The publication that is offered stays in the queue until it is confirmed.
OfferedIsQueued ==
    apiMailbox # <<>> /\ Head(apiMailbox).ec = "RCV_R" /\ Head(apiMailbox).data # Nothing
        => IsReady(Head(apiMailbox).data)

\* A publication that can be received has been signalled to a thread that has still to
\* ask; or one that has asked will be told of it, or be asked to signal it again.
Signalled ==
    ready # <<>> =>
        \/ msgAvailable
        \/ \E a \in Apps : call[a] = "R" /\ pc[a] = "lock"
        \/ \E a \in Apps :
              /\ sendMutex = a /\ call[a] = "R"
              /\ \/ pc[a] = "reply" /\ (apiMailbox = <<>> \/ Head(apiMailbox).data # Nothing)
                 \/ pc[a] = "confirm" /\ apiMailbox = <<>>

Exchanges ==
    /\ HolderWaits /\ CallOK /\ OwnReply /\ OneRequest

Protocol == Exchanges /\ ConfirmedIsQueued /\ OfferedIsQueued /\ Signalled

IInv == ConnOK /\ TasksOK /\ MailboxesOK /\ Protocol

-----------------------------------------------------------------------------
(* With one handle and a connection that is initialised, nobody waits for  *)
(* an answer that will not come.                                           *)

\* What a thread waits for is on its way.
OnTheWay ==
    /\ \A a \in Apps :
          Waiting(a) => apiMailbox # <<>> \/ \E i \in DOMAIN sendMailbox : FromApp(sendMailbox[i])
    /\ rpc = "reply" =>
          receiveMailbox # <<>> \/ \E i \in DOMAIN sendMailbox : ~FromApp(sendMailbox[i])

\* A thread that connects or disconnects is alone in the library, and the send task
\* serves an application exactly while there is a handle, but for the time an answer
\* to either takes.
OneHandle ==
    /\ \A a, b \in Apps :
          pc[a] # "idle" /\ pc[b] # "idle" /\ call[a] \in {"C", "D"} => a = b
    /\ \A a \in Apps : pc[a] # "idle" => (call[a] = "C" <=> ~handle)
    /\ ~handle /\ appConnected =>
          \E a \in Apps : /\ call[a] = "C" /\ pc[a] = "reply" /\ apiMailbox # <<>>
                          /\ Head(apiMailbox).rc = "OK"
    /\ \A a \in Apps : call[a] = "D" /\ pc[a] = "reply" /\ apiMailbox # <<>> => ~appConnected

AInv == OnTheWay /\ OneHandle

-----------------------------------------------------------------------------
(* Lemmas about sequences.                                                 *)

LEMMA AppendFacts ==
    ASSUME NEW S, NEW s \in Seq(S), NEW e \in S
    PROVE  /\ Append(s, e) \in Seq(S) /\ Append(s, e) # <<>>
           /\ Len(Append(s, e)) = Len(s) + 1
           /\ DOMAIN Append(s, e) = DOMAIN s \union {Len(s) + 1}
           /\ Len(s) + 1 \notin DOMAIN s
           /\ \A i \in DOMAIN s : Append(s, e)[i] = s[i]
           /\ Append(s, e)[Len(s) + 1] = e
           /\ s = <<>> => Head(Append(s, e)) = e /\ Len(Append(s, e)) = 1
OBVIOUS

LEMMA TailFacts ==
    ASSUME NEW S, NEW s \in Seq(S), s # <<>>
    PROVE  /\ Head(s) \in S /\ 1 \in DOMAIN s /\ s[1] = Head(s)
           /\ Tail(s) \in Seq(S)
           /\ \A i \in DOMAIN Tail(s) : i + 1 \in DOMAIN s /\ Tail(s)[i] = s[i + 1]
           /\ \A i \in DOMAIN s : i # 1 => i - 1 \in DOMAIN Tail(s) /\ Tail(s)[i - 1] = s[i]
           /\ Len(s) <= 1 => Tail(s) = <<>>
OBVIOUS

\* A sequence that loses its first element of a kind has elements of the same set.
LEMMA RemoveFacts ==
    ASSUME NEW S, NEW s \in Seq(S), NEW e
    PROVE  RemoveFirst(s, e) \in Seq(S)
<1>1. CASE ~\E i \in 1..Len(s) : s[i] = e
  BY <1>1 DEF RemoveFirst
<1>2. CASE \E i \in 1..Len(s) : s[i] = e
  <2> DEFINE I == {i \in 1..Len(s) : s[i] = e}
  <2>1. I \subseteq Nat /\ I # {}
    BY <1>2
  <2>2. \E n \in I : \A i \in I : n <= i
    <3>1. PICK n \in I : \A i \in I : <<i, n>> \notin OpToRel(<, Nat)
      BY <2>1, NatLessThanWellFounded, WFMin
    <3>2. \A i \in I : ~(i < n)
      BY <2>1, <3>1, Zenon DEF OpToRel
    <3>3. QED
      BY <2>1, <3>2
  <2>3. Min(I) \in 1..Len(s)
    BY <2>2 DEF Min
  <2>4. RemoveFirst(s, e) = SubSeq(s, 1, Min(I) - 1) \o SubSeq(s, Min(I) + 1, Len(s))
    BY <1>2 DEF RemoveFirst, SelectInSeq, RemoveAt
  <2> HIDE DEF I
  <2>5. QED
    BY <2>3, <2>4
<1>3. QED
  BY <1>1, <1>2

-----------------------------------------------------------------------------
(* Lemmas about the connection.                                            *)

LEMMA ClosedLemma ==
    ASSUME ConnOK, NEW f \in Fds \union {NoSock}, Closed(f)
    PROVE  /\ link' \in [Fds -> {"closed", "asked", "up", "gone"}]
           /\ stream' \in [Fds -> Seq(Items)]
BY TasksAssumption DEF ConnOK, Closed

LEMMA WriteLemma ==
    ASSUME ConnOK, Write
    PROVE  ConnOK'
<1>1. CASE UNCHANGED conn
  BY <1>1 DEF ConnOK, conn
<1>2. CASE /\ connState' = "DISCONNECTED" /\ sockfd' = NoSock
           /\ Closed(sockfd)
           /\ UNCHANGED <<connRetries, conns>>
  BY <1>2, ClosedLemma DEF ConnOK, States
<1>3. QED
  BY <1>1, <1>2 DEF Write

LEMMA ConnectLemma ==
    ASSUME ConnOK, NEW s \in States, Connect(s), connRetries' \in 0..(RetryCount + 1),
           MailboxesOK
    PROVE  /\ ConnOK'
           /\ \/ UNCHANGED receiveMailbox
              \/ /\ receiveMailbox' \in Seq(RcvMessages)
                 /\ receiveMailbox' # <<>>
<1>1. CASE /\ connState' = s /\ sockfd' = NoSock
           /\ Closed(sockfd)
           /\ UNCHANGED <<receiveMailbox, conns>>
  BY <1>1, ClosedLemma DEF ConnOK
<1>2. ASSUME conns < MaxConnects, NEW f \in Fds,
             sockfd' = f,
             link' = [g \in Fds |-> IF g = f THEN "asked"
                                    ELSE IF g = sockfd THEN "closed" ELSE link[g]],
             stream' = [g \in Fds |-> IF g \in {f, sockfd} THEN <<>> ELSE stream[g]],
             receiveMailbox' = Append(receiveMailbox, Message("RCON_S", "OK", f)),
             connState' = "CONNECTING", conns' = conns + 1
      PROVE  /\ ConnOK'
             /\ receiveMailbox' \in Seq(RcvMessages)
             /\ receiveMailbox' # <<>>
  <2>1. Message("RCON_S", "OK", f) \in RcvMessages
    BY DEF Message, RcvMessages
  <2>2. receiveMailbox' \in Seq(RcvMessages) /\ receiveMailbox' # <<>>
    BY <1>2, <2>1, AppendFacts DEF MailboxesOK
  <2>3. conns' \in 0..MaxConnects
    BY <1>2, TasksAssumption DEF ConnOK
  <2>4. link' \in [Fds -> {"closed", "asked", "up", "gone"}]
    BY <1>2 DEF ConnOK
  <2>5. stream' \in [Fds -> Seq(Items)]
    BY <1>2 DEF ConnOK
  <2>6. QED
    BY <1>2, <2>2, <2>3, <2>4, <2>5 DEF ConnOK, States
<1>3. QED
  BY <1>1, <1>2 DEF Connect

\* Every loop of the send task goes to one of its stages.
LEMMA ProceedLemma ==
    ASSUME NEW S \in SUBSET Stages, Proceed(S)
    PROVE  spc' \in {"ipc", "ping", "reconnect", "retry", "ended"}
BY DEF Proceed, Stages

-----------------------------------------------------------------------------
(* Lemmas about the exchanges.                                             *)

\* What no step outside the exchanges touches.
protocolVars == <<sendMutex, sendMailbox, apiMailbox, pc, call, ready, msgAvailable>>

LEMMA Undisturbed ==
    ASSUME Protocol, UNCHANGED protocolVars, rpc' = "reply" <=> rpc = "reply"
    PROVE  Protocol'
BY DEF Protocol, protocolVars, Exchanges, HolderWaits, Waiting, CallOK, OwnReply, OneRequest,
       FromApp, Asks, ConfirmedIsQueued, OfferedIsQueued, IsReady, Signalled

\* The send task takes a message; nothing that is ready is lost by that.
LEMMA TakeLemma ==
    ASSUME MailboxesOK, Protocol, sendMailbox # <<>>, sendMailbox' = Tail(sendMailbox),
           UNCHANGED <<sendMutex, pc, call, rpc, apiMailbox>>,
           \A p : IsReady(p) => IsReady(p)'
    PROVE  /\ sendMailbox' \in Seq(SendMessages)
           /\ Exchanges' /\ ConfirmedIsQueued' /\ OfferedIsQueued'
<1>1. /\ sendMailbox' \in Seq(SendMessages)
      /\ \A i \in DOMAIN sendMailbox' :
            i + 1 \in DOMAIN sendMailbox /\ sendMailbox'[i] = sendMailbox[i + 1]
      /\ DOMAIN sendMailbox' \subseteq Int
  BY TailFacts DEF MailboxesOK
<1>2. HolderWaits' /\ CallOK' /\ OwnReply'
  BY DEF Protocol, Exchanges, HolderWaits, Waiting, CallOK, OwnReply
<1>3. OneRequest'
  <2>1. ASSUME NEW i \in DOMAIN sendMailbox', NEW j \in DOMAIN sendMailbox',
               FromApp(sendMailbox'[i]), FromApp(sendMailbox'[j])
        PROVE  i = j
    <3>1. i + 1 = j + 1
      BY <1>1, <2>1 DEF Protocol, Exchanges, OneRequest
    <3>2. QED
      BY <1>1, <3>1
  <2>2. ASSUME NEW i \in DOMAIN sendMailbox', FromApp(sendMailbox'[i])
        PROVE  /\ apiMailbox' = <<>>
               /\ \E a \in Apps : sendMutex' = a /\ Asks(a, sendMailbox[i])'
    <3>1. i + 1 \in DOMAIN sendMailbox /\ sendMailbox'[i] = sendMailbox[i + 1]
      BY <1>1
    <3>2. /\ apiMailbox = <<>>
          /\ \E a \in Apps : sendMutex = a /\ Asks(a, sendMailbox[i + 1])
      BY <3>1, <2>2 DEF Protocol, Exchanges, OneRequest
    <3>3. QED
      BY <3>1, <3>2 DEF Asks
  <2>3. QED
    BY <2>1, <2>2 DEF OneRequest, FromApp
<1>4. ConfirmedIsQueued'
  <2>1. SUFFICES ASSUME NEW i \in DOMAIN sendMailbox', sendMailbox'[i].ec \in {"A", "E"}
                 PROVE  IsReady(sendMailbox[i].data)'
    BY DEF ConfirmedIsQueued, IsReady
  <2>2. IsReady(sendMailbox[i + 1].data)
    BY <1>1, <2>1 DEF Protocol, ConfirmedIsQueued, IsReady
  <2>3. QED
    BY <1>1, <2>1, <2>2 DEF IsReady
<1>5. OfferedIsQueued'
  BY DEF Protocol, OfferedIsQueued, IsReady
<1>6. QED
  BY <1>1, <1>2, <1>3, <1>4, <1>5 DEF Exchanges

\* The eye catcher of the answer to a message.
AnswerTo(ec) == IF ec \in {"A", "E"} THEN "RCV_B" ELSE IF ec = "R" THEN "RCV_R" ELSE ec

\* The send task takes the message of an application and answers it.
LEMMA AnswerLemma ==
    ASSUME MailboxesOK, Protocol, sendMailbox # <<>>, sendMailbox' = Tail(sendMailbox),
           FromApp(Head(sendMailbox)),
           NEW rc \in Codes, NEW data \in Pubs \union {Nothing},
           Respond(AnswerTo(Head(sendMailbox).ec), rc, data),
           AnswerTo(Head(sendMailbox).ec) = "RCV_R" /\ data # Nothing => IsReady(data)',
           UNCHANGED <<sendMutex, pc, call, rpc>>
    PROVE  /\ sendMailbox' \in Seq(SendMessages) /\ apiMailbox' \in Seq(ApiMessages)
           /\ Exchanges' /\ ConfirmedIsQueued' /\ OfferedIsQueued'
           /\ apiMailbox = <<>> /\ apiMailbox' # <<>>
           /\ Head(apiMailbox').rc = rc /\ Head(apiMailbox').data = data
           /\ \E a \in Apps : sendMutex = a /\ Asks(a, Head(sendMailbox))
           /\ \A i \in DOMAIN sendMailbox' : ~FromApp(sendMailbox'[i])
<1> DEFINE m == Head(sendMailbox)
           r == Message(AnswerTo(m.ec), rc, data)
<1>1. /\ m \in SendMessages /\ 1 \in DOMAIN sendMailbox /\ sendMailbox[1] = m
      /\ sendMailbox' \in Seq(SendMessages)
      /\ \A i \in DOMAIN sendMailbox' :
            i + 1 \in DOMAIN sendMailbox /\ sendMailbox'[i] = sendMailbox[i + 1] /\ i + 1 # 1
  BY TailFacts DEF MailboxesOK
<1>2. PICK a \in Apps : sendMutex = a /\ Asks(a, m)
  BY <1>1 DEF Protocol, Exchanges, OneRequest
<1>3. apiMailbox = <<>>
  BY <1>1 DEF Protocol, Exchanges, OneRequest
<1>4. \A i \in DOMAIN sendMailbox' : ~FromApp(sendMailbox'[i])
  BY <1>1 DEF Protocol, Exchanges, OneRequest
<1>5. r \in ApiMessages /\ r.rc = rc /\ r.data = data /\ r.ec = AnswerTo(m.ec)
  BY <1>1 DEF Message, ApiMessages, SendMessages, AnswerTo, FromApp
<1>6. /\ apiMailbox' \in Seq(ApiMessages) /\ apiMailbox' # <<>>
      /\ Head(apiMailbox') = r /\ Len(apiMailbox') = 1
  BY <1>3, <1>5, AppendFacts DEF Respond, MailboxesOK
<1>7. HolderWaits' /\ CallOK'
  BY DEF Protocol, Exchanges, HolderWaits, Waiting, CallOK
<1>8. OwnReply'
  <2>1. sendMutex' = a /\ Waiting(a)'
    BY <1>2 DEF Asks, Waiting
  <2>2. Head(apiMailbox').ec = IF pc'[a] = "confirm" THEN "RCV_B"
                               ELSE IF call'[a] = "R" THEN "RCV_R" ELSE call'[a]
    BY <1>1, <1>2, <1>5, <1>6 DEF Asks, AnswerTo, SendMessages, Protocol, Exchanges, CallOK,
       Requests
  <2>3. QED
    BY <1>2, <1>6, <2>1, <2>2 DEF OwnReply
<1>9. OneRequest'
  BY <1>4 DEF OneRequest, FromApp
<1>10. ConfirmedIsQueued'
  BY <1>4 DEF ConfirmedIsQueued, FromApp
<1>11. OfferedIsQueued'
  BY <1>5, <1>6 DEF OfferedIsQueued, IsReady
<1>12. QED
  BY <1>1, <1>2, <1>3, <1>4, <1>5, <1>6, <1>7, <1>8, <1>9, <1>10, <1>11
  DEF Exchanges

\* Nobody but the thread that asks to receive is waited for by the semaphore: another
\* request and its answer leave it as it is.
LEMMA OtherAnswer ==
    ASSUME Protocol, NEW a \in Apps, sendMutex = a, NEW m, Asks(a, m), m.ec \in Requests,
           UNCHANGED <<pc, call, msgAvailable>>, ready' # <<>> => ready # <<>>
    PROVE  Signalled'
BY DEF Protocol, Exchanges, CallOK, Asks, Signalled, Requests

-----------------------------------------------------------------------------
(* The handlers of the send task.                                          *)

LEMMA ReadConnectHolds ==
    ASSUME IInv, ReadIPC, Head(sendMailbox).ec = "C", ReadConnect
    PROVE  IInv'
<1> DEFINE m == Head(sendMailbox)
<1>1. /\ MailboxesOK /\ Protocol /\ ConnOK /\ TasksOK
      /\ sendMailbox # <<>> /\ sendMailbox' = Tail(sendMailbox)
      /\ UNCHANGED <<sendMutex, mspEnding, appVars, rcvVars, pubs, msgAvailable, ready>>
      /\ FromApp(m) /\ AnswerTo(m.ec) = "C"
  BY DEF IInv, ReadIPC, ReadConnect, FromApp, AnswerTo
<1>2. UNCHANGED <<pc, call, handle, rpc, rcvSockfd, rcvBuffer>>
  BY <1>1 DEF appVars, rcvVars
<1>3. ASSUME appConnected' \in BOOLEAN PROVE TasksOK'
  <2>1. spc' \in {"ipc", "ping", "reconnect", "retry", "ended"}
    BY ProceedLemma DEF ReadIPC
  <2>2. QED
    BY <1>1, <1>2, <1>3, <2>1 DEF TasksOK
<1>4. CASE UNCHANGED <<apiMailbox, receiveMailbox, appConnected, conn>>
  <2>1. /\ sendMailbox' \in Seq(SendMessages)
        /\ Exchanges' /\ ConfirmedIsQueued' /\ OfferedIsQueued'
    BY <1>1, <1>2, <1>4, TakeLemma DEF IsReady
  <2>2. Signalled'
    BY <1>1, <1>2, <1>4 DEF Protocol, Signalled
  <2>3. ConnOK'
    BY <1>1, <1>4 DEF ConnOK, conn
  <2>4. QED
    BY <1>1, <1>3, <1>4, <2>1, <2>2, <2>3 DEF IInv, MailboxesOK, Protocol, TasksOK
<1>5. ASSUME NEW rc \in {"OK", "FAILED"}, Respond("C", rc, Nothing)
      PROVE  /\ sendMailbox' \in Seq(SendMessages) /\ apiMailbox' \in Seq(ApiMessages)
             /\ Protocol'
  <2>1. /\ sendMailbox' \in Seq(SendMessages) /\ apiMailbox' \in Seq(ApiMessages)
        /\ Exchanges' /\ ConfirmedIsQueued' /\ OfferedIsQueued'
        /\ \E a \in Apps : sendMutex = a /\ Asks(a, m)
    BY <1>1, <1>2, <1>5, AnswerLemma DEF Codes
  <2>2. Signalled'
    BY <1>1, <1>2, <2>1, OtherAnswer DEF Requests
  <2>3. QED
    BY <2>1, <2>2 DEF Protocol
<1>6. CASE /\ Respond("C", "FAILED", Nothing)
           /\ UNCHANGED <<receiveMailbox, appConnected, conn>>
  BY <1>1, <1>3, <1>5, <1>6 DEF IInv, MailboxesOK, ConnOK, conn, TasksOK
<1>7. CASE /\ appConnected' = TRUE /\ Respond("C", "FAILED", Nothing)
           /\ connState' = "CONNECTING"
           /\ UNCHANGED <<receiveMailbox, connRetries, sockfd, link, stream, conns>>
  BY <1>1, <1>3, <1>5, <1>7 DEF IInv, MailboxesOK, ConnOK, States
<1>8. CASE /\ appConnected' = TRUE /\ Respond("C", "OK", Nothing)
           /\ Connect("CONNECTING")
           /\ UNCHANGED connRetries
  <2>1. ConnOK' /\ receiveMailbox' \in Seq(RcvMessages)
    BY <1>1, <1>8, ConnectLemma DEF States, ConnOK, MailboxesOK
  <2>2. QED
    BY <1>3, <1>5, <1>8, <2>1 DEF IInv, MailboxesOK
<1>9. QED
  BY <1>4, <1>6, <1>7, <1>8 DEF ReadConnect

\* What a handler that answers an application has to show: that it keeps the types of what
\* it changes, and that the semaphore is not forgotten.
LEMMA HandlerLemma ==
    ASSUME IInv, ReadIPC, FromApp(Head(sendMailbox)),
           NEW rc \in Codes, NEW data \in Pubs \union {Nothing},
           Respond(AnswerTo(Head(sendMailbox).ec), rc, data),
           AnswerTo(Head(sendMailbox).ec) = "RCV_R" /\ data # Nothing => IsReady(data)',
           UNCHANGED receiveMailbox,
           ConnOK', msgAvailable' \in BOOLEAN, appConnected' \in BOOLEAN, ready' \in Seq(1..MaxPubs),
           Signalled'
    PROVE  IInv'
<1>1. /\ MailboxesOK /\ Protocol /\ TasksOK
      /\ sendMailbox # <<>> /\ sendMailbox' = Tail(sendMailbox)
      /\ UNCHANGED <<sendMutex, mspEnding, pc, call, handle, rpc, rcvSockfd, rcvBuffer, pubs>>
  BY DEF IInv, ReadIPC, appVars, rcvVars
<1>2. TasksOK'
  <2>1. spc' \in {"ipc", "ping", "reconnect", "retry", "ended"}
    BY ProceedLemma DEF ReadIPC
  <2>2. QED
    BY <1>1, <2>1 DEF TasksOK
<1>3. /\ sendMailbox' \in Seq(SendMessages) /\ apiMailbox' \in Seq(ApiMessages)
      /\ Exchanges' /\ ConfirmedIsQueued' /\ OfferedIsQueued'
  BY <1>1, AnswerLemma
<1>4. QED
  BY <1>1, <1>2, <1>3 DEF IInv, MailboxesOK, Protocol

\* The facts about the message that is handled.
LEMMA HandledFacts ==
    ASSUME IInv, ReadIPC, FromApp(Head(sendMailbox))
    PROVE  /\ apiMailbox = <<>>
           /\ UNCHANGED <<sendMutex, pc, call>>
           /\ \E a \in Apps : sendMutex = a /\ Asks(a, Head(sendMailbox))
           /\ Head(sendMailbox) \in SendMessages
<1>1. /\ Head(sendMailbox) \in SendMessages
      /\ 1 \in DOMAIN sendMailbox /\ sendMailbox[1] = Head(sendMailbox)
  BY TailFacts DEF IInv, MailboxesOK, ReadIPC
<1>2. QED
  BY <1>1 DEF IInv, Protocol, Exchanges, OneRequest, ReadIPC, appVars

LEMMA ReadDisconnectHolds ==
    ASSUME IInv, ReadIPC, Head(sendMailbox).ec = "D", ReadDisconnect
    PROVE  IInv'
<1>1. FromApp(Head(sendMailbox)) /\ AnswerTo(Head(sendMailbox).ec) = "D"
  BY DEF FromApp, AnswerTo
<1>2. ConnOK'
  <2>1. ConnOK /\ RetryCount \in Nat
    BY TasksAssumption DEF IInv
  <2>2. /\ link' \in [Fds -> {"closed", "asked", "up", "gone"}]
        /\ stream' \in [Fds -> Seq(Items)]
    BY <2>1, ClosedLemma DEF ReadDisconnect, ConnOK
  <2>3. connState' \in States
    BY <2>1 DEF ReadDisconnect, ConnOK, States
  <2>4. QED
    BY <2>1, <2>2, <2>3 DEF ReadDisconnect, ConnOK
<1>3. Signalled' /\ ready' \in Seq(1..MaxPubs)
  BY DEF ReadDisconnect, Signalled
<1>4. msgAvailable' \in BOOLEAN /\ appConnected' \in BOOLEAN
  BY DEF IInv, TasksOK, ReadDisconnect
<1>5. QED
  BY <1>1, <1>2, <1>3, <1>4, HandlerLemma DEF ReadDisconnect, Codes

LEMMA ReadPublishHolds ==
    ASSUME IInv, ReadIPC, Head(sendMailbox).ec = "P", ReadPublish
    PROVE  IInv'
<1>1. FromApp(Head(sendMailbox)) /\ AnswerTo(Head(sendMailbox).ec) = "P"
  BY DEF FromApp, AnswerTo
<1>2. ConnOK'
  BY WriteLemma DEF IInv, ConnOK, conn, ReadPublish
<1>3. Signalled'
  BY <1>1, HandledFacts, OtherAnswer DEF IInv, ReadPublish, Requests
<1>4. PICK rc \in {"CONNECTION_BROKEN", "OK"} : Respond("P", rc, Nothing)
  BY DEF ReadPublish
<1>5. rc \in Codes
  BY DEF Codes, States
<1>6. QED
  BY <1>1, <1>2, <1>3, <1>4, <1>5, HandlerLemma DEF ReadPublish, IInv, TasksOK

LEMMA ReadStatusHolds ==
    ASSUME IInv, ReadIPC, Head(sendMailbox).ec \in {"M", "T"}, ReadStatus(Head(sendMailbox).ec)
    PROVE  IInv'
<1> DEFINE rc == IF Head(sendMailbox).ec = "T" THEN connState ELSE "OK"
<1>1. FromApp(Head(sendMailbox)) /\ AnswerTo(Head(sendMailbox).ec) = Head(sendMailbox).ec
  BY DEF FromApp, AnswerTo
<1>2. ConnOK' /\ rc \in Codes
  BY DEF IInv, ConnOK, conn, ReadStatus, Codes
<1>3. Signalled'
  BY <1>1, HandledFacts, OtherAnswer DEF IInv, ReadStatus, Requests
<1>4. Respond(Head(sendMailbox).ec, rc, Nothing)
  BY DEF ReadStatus
<1> HIDE DEF rc
<1>5. QED
  BY <1>1, <1>2, <1>3, <1>4, HandlerLemma DEF ReadStatus, IInv, TasksOK

LEMMA ReadReceiveHolds ==
    ASSUME IInv, ReadIPC, Head(sendMailbox).ec = "R", ReadReceive
    PROVE  IInv'
<1>1. /\ FromApp(Head(sendMailbox)) /\ AnswerTo(Head(sendMailbox).ec) = "RCV_R"
      /\ UNCHANGED <<receiveMailbox, msgAvailable, appConnected, ready, conn>>
  BY DEF FromApp, AnswerTo, ReadReceive
<1>2. ConnOK' /\ msgAvailable' \in BOOLEAN /\ appConnected' \in BOOLEAN /\ ready' \in Seq(1..MaxPubs)
  BY <1>1 DEF IInv, ConnOK, conn, TasksOK
<1>3. CASE ready = <<>>
  <2>1. PICK rc \in Codes : Respond("RCV_R", rc, Nothing)
    BY <1>3 DEF ReadReceive, Codes, States
  <2>2. Signalled'
    BY <1>1, <1>3 DEF Signalled
  <2>3. QED
    BY <1>1, <1>2, <2>1, <2>2, HandlerLemma
<1>4. CASE ready # <<>>
  <2>1. /\ Head(ready) \in Pubs /\ IsReady(Head(ready))' /\ Head(ready) # Nothing
    BY <1>1, <1>4, TailFacts, TasksAssumption DEF IInv, TasksOK, IsReady, Pubs
  <2>2. Respond("RCV_R", "OK", Head(ready)) /\ "OK" \in Codes
    BY <1>4 DEF ReadReceive, Codes
  <2>3. apiMailbox' = Append(<<>>, Message("RCV_R", "OK", Head(ready)))
    BY <1>1, <2>2, HandledFacts DEF Respond
  <2>4. Head(apiMailbox').data = Head(ready)
    BY <2>3 DEF Message
  <2>5. Signalled'
    <3>1. PICK a \in Apps : sendMutex = a /\ Asks(a, Head(sendMailbox))
      BY <1>1, HandledFacts
    <3>2. pc[a] = "reply" /\ call[a] = "R"
      BY <3>1 DEF Asks
    <3>3. QED
      BY <1>1, <2>1, <2>4, <3>1, <3>2, HandledFacts DEF Signalled
  <2>6. QED
    BY <1>1, <1>2, <2>1, <2>2, <2>5, HandlerLemma
<1>5. QED
  BY <1>3, <1>4

LEMMA ReadTakenHolds ==
    ASSUME IInv, ReadIPC, Head(sendMailbox).ec = "A", ReadTaken(Head(sendMailbox).data)
    PROVE  IInv'
<1>1. /\ FromApp(Head(sendMailbox)) /\ AnswerTo(Head(sendMailbox).ec) = "RCV_B"
      /\ UNCHANGED <<receiveMailbox, appConnected, conn>>
  BY DEF FromApp, AnswerTo, ReadTaken
<1>2. ready' \in Seq(1..MaxPubs)
  BY RemoveFacts DEF ReadTaken, IInv, TasksOK
<1>3. ConnOK' /\ msgAvailable' \in BOOLEAN /\ appConnected' \in BOOLEAN
  BY <1>1 DEF IInv, ConnOK, conn, TasksOK, ReadTaken, Signal
<1>4. Signalled'
  BY DEF ReadTaken, Signal, Signalled
<1>5. /\ Respond("RCV_B", "OK", Head(sendMailbox).data) /\ "OK" \in Codes
      /\ Head(sendMailbox).data \in Pubs \union {Nothing}
  BY <1>1, HandledFacts DEF ReadTaken, Codes, SendMessages
<1>6. QED
  BY <1>1, <1>2, <1>3, <1>4, <1>5, HandlerLemma

LEMMA ReadDeclinedHolds ==
    ASSUME IInv, ReadIPC, Head(sendMailbox).ec = "E", ReadDeclined
    PROVE  IInv'
<1>1. /\ FromApp(Head(sendMailbox)) /\ AnswerTo(Head(sendMailbox).ec) = "RCV_B"
      /\ UNCHANGED <<receiveMailbox, appConnected, ready, conn>>
  BY DEF FromApp, AnswerTo, ReadDeclined
<1>2. /\ ConnOK' /\ msgAvailable' \in BOOLEAN /\ appConnected' \in BOOLEAN
      /\ ready' \in Seq(1..MaxPubs)
  BY <1>1 DEF IInv, ConnOK, conn, TasksOK, ReadDeclined, Signal
<1>3. Signalled'
  BY DEF ReadDeclined, Signal, Signalled
<1>4. Respond("RCV_B", "OK", Nothing) /\ "OK" \in Codes
  BY DEF ReadDeclined, Codes
<1>5. QED
  BY <1>1, <1>2, <1>3, <1>4, HandlerLemma

LEMMA ReadNetworkHolds ==
    ASSUME IInv, ReadIPC, Head(sendMailbox).ec = "K", ReadNetwork
    PROVE  IInv'
<1>1. /\ ConnOK /\ MailboxesOK /\ Protocol /\ TasksOK
      /\ sendMailbox # <<>> /\ sendMailbox' = Tail(sendMailbox)
      /\ UNCHANGED <<sendMutex, mspEnding, pc, call, handle, rpc, rcvSockfd, rcvBuffer, pubs,
                     apiMailbox, appConnected>>
  BY DEF IInv, ReadIPC, appVars, rcvVars, ReadNetwork
<1>2. receiveMailbox' \in Seq(RcvMessages)
  <2>1. Message("RTSK_R", "OK", Nothing) \in RcvMessages
    BY DEF Message, RcvMessages
  <2>2. QED
    BY <1>1, <2>1, AppendFacts DEF ReadNetwork, MailboxesOK
<1>3. /\ ConnOK' /\ msgAvailable' \in BOOLEAN /\ ready' \in Seq(1..MaxPubs)
      /\ Signalled'
      /\ \A p : IsReady(p) => IsReady(p)'
  <2>1. CASE ReadConnack(rcvBuffer)
    <3>1. ConnOK'
      <4>1. CASE rcvBuffer = Connack /\ connState' = "CONNECTED" /\ connRetries' = 0
                 /\ UNCHANGED <<sockfd, link, stream>>
        BY <1>1, <2>1, <4>1, TasksAssumption DEF ReadConnack, ConnOK, States
      <4>2. CASE /\ connState' = "DISCONNECTED" /\ sockfd' = NoSock
                 /\ Closed(sockfd)
                 /\ connRetries' = RetryCount + 1
        BY <1>1, <2>1, <4>2, ClosedLemma, TasksAssumption DEF ReadConnack, ConnOK, States
      <4>3. QED
        BY <2>1, <4>1, <4>2 DEF ReadConnack
    <3>2. UNCHANGED <<msgAvailable, ready>>
      BY <2>1 DEF ReadConnack
    <3>3. Signalled'
      BY <1>1, <3>2 DEF Protocol, Signalled
    <3>4. QED
      BY <1>1, <3>1, <3>2, <3>3 DEF IsReady, TasksOK
  <2>2. CASE ReadPub(rcvBuffer)
    <3>1. ConnOK'
      BY <1>1, <2>2, WriteLemma DEF ReadPub
    <3>2. /\ rcvBuffer \in 1..MaxPubs /\ ready' = Append(ready, rcvBuffer)
          /\ ready \in Seq(1..MaxPubs)
      BY <1>1, <2>2 DEF ReadPub, TasksOK
    <3>3. ready' \in Seq(1..MaxPubs) /\ \A p : IsReady(p) => IsReady(p)'
      BY <3>2, AppendFacts DEF IsReady
    <3>4. Signalled' /\ msgAvailable' \in BOOLEAN
      BY <1>1, <2>2 DEF ReadPub, Signal, Signalled, Protocol, TasksOK
    <3>5. QED
      BY <3>1, <3>3, <3>4
  <2>3. QED
    BY <2>1, <2>2 DEF ReadNetwork
<1>4. TasksOK'
  <2>1. spc' \in {"ipc", "ping", "reconnect", "retry", "ended"}
    BY ProceedLemma DEF ReadIPC
  <2>2. QED
    BY <1>1, <1>3, <2>1 DEF TasksOK
<1>5. /\ sendMailbox' \in Seq(SendMessages)
      /\ Exchanges' /\ ConfirmedIsQueued' /\ OfferedIsQueued'
  BY <1>1, <1>3, TakeLemma
<1>6. QED
  BY <1>1, <1>2, <1>3, <1>4, <1>5 DEF IInv, MailboxesOK, Protocol

LEMMA ReadIPCHolds == IInv /\ ReadIPC => IInv'
<1>1. SUFFICES ASSUME IInv, ReadIPC PROVE IInv'
  OBVIOUS
<1>2. \/ Head(sendMailbox).ec = "C" /\ ReadConnect
      \/ Head(sendMailbox).ec = "D" /\ ReadDisconnect
      \/ Head(sendMailbox).ec = "P" /\ ReadPublish
      \/ Head(sendMailbox).ec \in {"M", "T"} /\ ReadStatus(Head(sendMailbox).ec)
      \/ Head(sendMailbox).ec = "R" /\ ReadReceive
      \/ Head(sendMailbox).ec = "A" /\ ReadTaken(Head(sendMailbox).data)
      \/ Head(sendMailbox).ec = "E" /\ ReadDeclined
      \/ Head(sendMailbox).ec = "K" /\ ReadNetwork
  BY <1>1 DEF ReadIPC
<1>3. QED
  BY <1>1, <1>2, ReadConnectHolds, ReadDisconnectHolds, ReadPublishHolds, ReadStatusHolds,
     ReadReceiveHolds, ReadTakenHolds, ReadDeclinedHolds, ReadNetworkHolds

-----------------------------------------------------------------------------
(* The rest of the send task: nothing of it is an exchange.                *)

\* A step that keeps the exchanges and the types of what it changes.
LEMMA QuietLemma ==
    ASSUME IInv, ConnOK', TasksOK', receiveMailbox' \in Seq(RcvMessages),
           UNCHANGED protocolVars, rpc' = "reply" <=> rpc = "reply"
    PROVE  IInv'
<1>1. Protocol'
  BY Undisturbed DEF IInv
<1>2. QED
  BY <1>1 DEF IInv, MailboxesOK, protocolVars

LEMMA IpcTimeoutHolds == IInv /\ IpcTimeout => IInv'
<1>1. SUFFICES ASSUME IInv, IpcTimeout PROVE IInv'
  OBVIOUS
<1>2. spc' \in {"ipc", "ping", "reconnect", "retry", "ended"}
  BY <1>1, ProceedLemma DEF IpcTimeout
<1>3. TasksOK' /\ ConnOK'
  BY <1>1, <1>2 DEF IInv, TasksOK, ConnOK, IpcTimeout, shared, appVars, conn, rcvVars
<1>4. QED
  BY <1>1, <1>3, QuietLemma DEF IInv, MailboxesOK, IpcTimeout, shared, appVars, rcvVars,
     protocolVars

LEMMA WritesHold == IInv /\ (Ping \/ Retry) => IInv'
<1>1. SUFFICES ASSUME IInv, Ping \/ Retry PROVE IInv'
  OBVIOUS
<1>2. spc' \in {"ipc", "ping", "reconnect", "retry", "ended"}
  BY <1>1, ProceedLemma DEF Ping, Retry, Stages
<1>3. /\ Write
      /\ UNCHANGED <<shared, mspEnding, appVars, appConnected, ready, rcvVars, pubs>>
  BY <1>1 DEF Ping, Retry
<1>4. ConnOK'
  BY <1>1, <1>3, WriteLemma DEF IInv
<1>5. TasksOK'
  BY <1>1, <1>2, <1>3 DEF IInv, TasksOK, shared, appVars, rcvVars
<1>6. QED
  BY <1>1, <1>3, <1>4, <1>5, QuietLemma DEF IInv, MailboxesOK, shared, appVars, rcvVars,
     protocolVars

LEMMA ReconnectHolds == IInv /\ Reconnect => IInv'
<1>1. SUFFICES ASSUME IInv, Reconnect PROVE IInv'
  OBVIOUS
<1>2. /\ spc' \in {"ipc", "ping", "reconnect", "retry", "ended"}
      /\ UNCHANGED <<sendMutex, sendMailbox, apiMailbox, msgAvailable, mspEnding, appVars,
                     appConnected, ready, rcvVars, pubs>>
  BY <1>1, ProceedLemma DEF Reconnect, Stages
<1>3. ConnOK' /\ receiveMailbox' \in Seq(RcvMessages)
  <2>1. CASE connRetries < RetryCount /\ connRetries' = connRetries + 1 /\ Connect(connState)
    <3>1. connState \in States /\ connRetries' \in 0..(RetryCount + 1)
      BY <1>1, <2>1, TasksAssumption DEF IInv, ConnOK
    <3>2. QED
      BY <1>1, <2>1, <3>1, ConnectLemma DEF IInv, MailboxesOK
  <2>2. CASE /\ connState' = "CONNECTION_BROKEN"
             /\ UNCHANGED <<receiveMailbox, connRetries, sockfd, link, stream, conns>>
    BY <1>1, <2>2 DEF IInv, ConnOK, States, MailboxesOK
  <2>3. QED
    BY <1>1, <2>1, <2>2 DEF Reconnect
<1>4. TasksOK'
  BY <1>1, <1>2 DEF IInv, TasksOK, appVars, rcvVars
<1>5. QED
  BY <1>1, <1>2, <1>3, <1>4, QuietLemma DEF appVars, rcvVars, protocolVars

-----------------------------------------------------------------------------
(* The application.                                                        *)

\* A thread that comes from nowhere near the mailboxes, and goes nowhere near them.
LEMMA OutsideLemma ==
    ASSUME TasksOK, Protocol, NEW a \in Apps, ~Waiting(a),
           NEW p \in {"wait", "sleep", "lock"}, NEW c \in Requests \union {"R"},
           p # "lock" => c = "R",
           pc' = [pc EXCEPT ![a] = p], call' = [call EXCEPT ![a] = c],
           UNCHANGED <<sendMutex, sendMailbox, apiMailbox, ready, rpc>>
    PROVE  Exchanges' /\ ConfirmedIsQueued' /\ OfferedIsQueued'
<1>1. /\ pc'[a] = p /\ call'[a] = c
      /\ \A b \in Apps : b # a => pc'[b] = pc[b] /\ call'[b] = call[b]
  BY DEF TasksOK
<1>2. sendMutex # a
  BY DEF Protocol, Exchanges, HolderWaits
<1>3. HolderWaits' /\ CallOK'
  BY <1>1, <1>2 DEF Protocol, Exchanges, HolderWaits, Waiting, CallOK
<1>4. OwnReply'
  BY <1>1, <1>2 DEF Protocol, Exchanges, OwnReply, Waiting
<1>5. OneRequest'
  <2>1. ASSUME NEW i \in DOMAIN sendMailbox, FromApp(sendMailbox[i])
        PROVE  /\ apiMailbox = <<>>
               /\ \E b \in Apps : sendMutex = b /\ Asks(b, sendMailbox[i])'
    <3>1. apiMailbox = <<>> /\ \E b \in Apps : sendMutex = b /\ Asks(b, sendMailbox[i])
      BY <2>1 DEF Protocol, Exchanges, OneRequest
    <3>2. QED
      BY <1>1, <1>2, <3>1 DEF Asks
  <2>2. QED
    BY <2>1 DEF Protocol, Exchanges, OneRequest, FromApp
<1>6. QED
  BY <1>3, <1>4, <1>5 DEF Exchanges, Protocol, ConfirmedIsQueued, OfferedIsQueued, IsReady

LEMMA BeginHolds == \A a \in Apps, ec \in Requests : IInv /\ Begin(a, ec) => IInv'
<1>1. SUFFICES ASSUME NEW a \in Apps, NEW ec \in Requests, IInv, Begin(a, ec) PROVE IInv'
  OBVIOUS
<1>2. /\ ConnOK /\ TasksOK /\ MailboxesOK /\ Protocol
      /\ pc[a] = "idle" /\ ~Waiting(a)
      /\ pc' = [pc EXCEPT ![a] = "lock"] /\ call' = [call EXCEPT ![a] = ec]
      /\ UNCHANGED <<shared, mspEnding, handle, sndVars, rcvVars, pubs>>
  BY <1>1 DEF IInv, Begin, Waiting
<1>3. ConnOK' /\ MailboxesOK'
  BY <1>2 DEF ConnOK, MailboxesOK, shared, sndVars, conn
<1>4. TasksOK'
  BY <1>2 DEF TasksOK, shared, sndVars, rcvVars
<1>5. Exchanges' /\ ConfirmedIsQueued' /\ OfferedIsQueued'
  BY <1>2, OutsideLemma DEF shared, sndVars, rcvVars
<1>6. Signalled'
  BY <1>2 DEF Protocol, Signalled, TasksOK, shared, sndVars
<1>7. QED
  BY <1>3, <1>4, <1>5, <1>6 DEF IInv, Protocol

LEMMA BeginReceiveHolds == \A a \in Apps : IInv /\ BeginReceive(a) => IInv'
<1>1. SUFFICES ASSUME NEW a \in Apps, IInv, BeginReceive(a) PROVE IInv'
  OBVIOUS
<1>2. PICK p \in {"wait", "sleep"} : pc' = [pc EXCEPT ![a] = p]
  BY <1>1 DEF BeginReceive
<1>3. /\ ConnOK /\ TasksOK /\ MailboxesOK /\ Protocol
      /\ pc[a] = "idle" /\ ~Waiting(a) /\ call' = [call EXCEPT ![a] = "R"]
      /\ UNCHANGED <<shared, mspEnding, handle, sndVars, rcvVars, pubs>>
  BY <1>1 DEF IInv, BeginReceive, Waiting
<1>4. ConnOK' /\ MailboxesOK'
  BY <1>3 DEF ConnOK, MailboxesOK, shared, sndVars, conn
<1>5. TasksOK'
  BY <1>2, <1>3 DEF TasksOK, shared, sndVars, rcvVars
<1>6. Exchanges' /\ ConfirmedIsQueued' /\ OfferedIsQueued'
  BY <1>2, <1>3, OutsideLemma DEF shared, sndVars, rcvVars
<1>7. Signalled'
  BY <1>2, <1>3 DEF Protocol, Signalled, TasksOK, shared, sndVars
<1>8. QED
  BY <1>4, <1>5, <1>6, <1>7 DEF IInv, Protocol

LEMMA WakeHolds == \A a \in Apps : IInv /\ Wake(a) => IInv'
<1>1. SUFFICES ASSUME NEW a \in Apps, IInv, Wake(a) PROVE IInv'
  OBVIOUS
<1>2. /\ ConnOK /\ TasksOK /\ MailboxesOK /\ Protocol
      /\ ~Waiting(a) /\ call[a] = "R"
      /\ pc' = [pc EXCEPT ![a] = "lock"] /\ msgAvailable' = FALSE
      /\ UNCHANGED <<sendMutex, sendMailbox, apiMailbox, receiveMailbox, mspEnding,
                     call, handle, sndVars, rcvVars, pubs>>
  BY <1>1 DEF IInv, Wake, Waiting, Protocol, Exchanges, CallOK
<1>3. ConnOK' /\ MailboxesOK'
  BY <1>2 DEF ConnOK, MailboxesOK, sndVars, conn
<1>4. TasksOK'
  BY <1>2 DEF TasksOK, sndVars, rcvVars
<1>5. call' = [call EXCEPT ![a] = "R"]
  BY <1>2 DEF TasksOK
<1>6. Exchanges' /\ ConfirmedIsQueued' /\ OfferedIsQueued'
  BY <1>2, <1>5, OutsideLemma DEF sndVars, rcvVars
<1>7. Signalled'
  BY <1>2 DEF Signalled, TasksOK
<1>8. QED
  BY <1>3, <1>4, <1>6, <1>7 DEF IInv, Protocol

\* While no thread of the application holds the mutex there is nothing of it under way.
LEMMA FreeLemma ==
    ASSUME Protocol, sendMutex \notin Apps
    PROVE  /\ apiMailbox = <<>>
           /\ \A i \in DOMAIN sendMailbox : ~FromApp(sendMailbox[i])
BY DEF Protocol, Exchanges, OwnReply, OneRequest

\* A message of an application is written when there is none before it.
LEMMA AskLemma ==
    ASSUME MailboxesOK, NEW m \in SendMessages, FromApp(m),
           \A i \in DOMAIN sendMailbox : ~FromApp(sendMailbox[i]),
           sendMailbox' = Append(sendMailbox, m), apiMailbox' = <<>>,
           NEW a \in Apps, sendMutex' = a, Asks(a, m)',
           m.ec \in {"A", "E"} => IsReady(m.data)'
    PROVE  /\ sendMailbox' \in Seq(SendMessages)
           /\ OneRequest' /\ ConfirmedIsQueued'
           /\ OwnReply' /\ OfferedIsQueued'
<1>1. /\ sendMailbox' \in Seq(SendMessages)
      /\ DOMAIN sendMailbox' = DOMAIN sendMailbox \union {Len(sendMailbox) + 1}
      /\ \A i \in DOMAIN sendMailbox : sendMailbox'[i] = sendMailbox[i]
      /\ sendMailbox'[Len(sendMailbox) + 1] = m
  BY AppendFacts DEF MailboxesOK
<1>2. \A i \in DOMAIN sendMailbox' : FromApp(sendMailbox'[i]) => i = Len(sendMailbox) + 1
  BY <1>1
<1>3. OneRequest'
  <2>1. \A i, j \in DOMAIN sendMailbox' :
           FromApp(sendMailbox'[i]) /\ FromApp(sendMailbox'[j]) => i = j
    BY <1>2
  <2>2. ASSUME NEW i \in DOMAIN sendMailbox', FromApp(sendMailbox'[i])
        PROVE  \E b \in Apps : sendMutex' = b /\ Asks(b, sendMailbox[i])'
    <3>1. sendMailbox'[i] = m
      BY <1>1, <1>2, <2>2
    <3>2. QED
      BY <3>1 DEF Asks
  <2>3. QED
    BY <2>1, <2>2 DEF OneRequest, FromApp
<1>4. ConfirmedIsQueued'
  BY <1>1, <1>2 DEF ConfirmedIsQueued, IsReady, FromApp
<1>5. QED
  BY <1>1, <1>3, <1>4 DEF OwnReply, OfferedIsQueued

LEMMA RequestHolds == \A a \in Apps : IInv /\ Request(a) => IInv'
<1>1. SUFFICES ASSUME NEW a \in Apps, IInv, Request(a) PROVE IInv'
  OBVIOUS
<1> DEFINE m == Message(call[a], "OK", Nothing)
<1>2. /\ ConnOK /\ TasksOK /\ MailboxesOK /\ Protocol
      /\ pc[a] = "lock" /\ sendMutex = Nobody /\ sendMutex' = a
      /\ pc' = [pc EXCEPT ![a] = "reply"]
      /\ sendMailbox' = Append(sendMailbox, m)
      /\ UNCHANGED <<apiMailbox, receiveMailbox, msgAvailable, mspEnding, call, handle,
                     sndVars, rcvVars, pubs>>
  BY <1>1 DEF IInv, Request
<1>3. sendMutex \notin Apps /\ sendMutex # "rcv" /\ a # "rcv"
  BY <1>2, TasksAssumption
<1>4. call[a] \in Requests \union {"R"}
  BY <1>2 DEF Protocol, Exchanges, CallOK
<1>5. m \in SendMessages /\ FromApp(m) /\ m.ec = call[a] /\ m.ec \notin {"A", "E"}
  BY <1>4 DEF Message, SendMessages, FromApp, Requests
<1>6. ConnOK'
  BY <1>2 DEF ConnOK, sndVars, conn
<1>7. TasksOK'
  BY <1>2 DEF TasksOK, sndVars, rcvVars
<1>8. /\ pc'[a] = "reply" /\ call' = call
      /\ \A b \in Apps : b # a => pc'[b] = pc[b]
  BY <1>2 DEF TasksOK
<1>9. HolderWaits' /\ CallOK'
  BY <1>2, <1>3, <1>4, <1>8 DEF Protocol, Exchanges, HolderWaits, Waiting, CallOK, rcvVars
<1>10. apiMailbox' = <<>> /\ \A i \in DOMAIN sendMailbox : ~FromApp(sendMailbox[i])
  BY <1>2, <1>3, FreeLemma
<1>11. /\ sendMailbox' \in Seq(SendMessages)
       /\ OneRequest' /\ ConfirmedIsQueued' /\ OwnReply' /\ OfferedIsQueued'
  <2>1. PICK k \in SendMessages : k = m
    BY <1>5
  <2>2. FromApp(k) /\ k.ec = call[a] /\ k.ec \notin {"A", "E"}
    BY <1>5, <2>1
  <2>3. Asks(a, k)'
    BY <1>8, <2>2 DEF Asks
  <2>4. sendMailbox' = Append(sendMailbox, k)
    BY <1>2, <2>1
  <2>5. QED
    BY <1>2, <1>10, <2>2, <2>3, <2>4, AskLemma
<1>12. Signalled'
  BY <1>2, <1>3, <1>8, <1>10 DEF Protocol, Signalled, sndVars
<1>13. QED
  BY <1>2, <1>6, <1>7, <1>9, <1>11, <1>12 DEF IInv, MailboxesOK, Protocol, Exchanges


\* The thread that reads an answer has the mutex, and the answer is the one in the mailbox.
LEMMA AnsweredFacts ==
    ASSUME MailboxesOK, Protocol, NEW a \in Apps, Waiting(a), apiMailbox # <<>>
    PROVE  /\ sendMutex = a /\ Tail(apiMailbox) = <<>>
           /\ Head(apiMailbox) \in ApiMessages
           /\ \A i \in DOMAIN sendMailbox : ~FromApp(sendMailbox[i])
           /\ Head(apiMailbox).ec = IF pc[a] = "confirm" THEN "RCV_B"
                                    ELSE IF call[a] = "R" THEN "RCV_R" ELSE call[a]
<1>1. sendMutex = a
  BY DEF Protocol, Exchanges, HolderWaits
<1>2. Len(apiMailbox) <= 1 /\ apiMailbox \in Seq(ApiMessages)
  BY DEF Protocol, Exchanges, OwnReply, MailboxesOK
<1>3. Tail(apiMailbox) = <<>> /\ Head(apiMailbox) \in ApiMessages
  BY <1>2, TailFacts
<1>4. \A i \in DOMAIN sendMailbox : ~FromApp(sendMailbox[i])
  BY DEF Protocol, Exchanges, OneRequest
<1>5. QED
  BY <1>1, <1>3, <1>4 DEF Protocol, Exchanges, OwnReply

\* An empty mailbox says nothing wrong.
LEMMA NoAnswerLemma ==
    ASSUME apiMailbox' = <<>>
    PROVE  OwnReply' /\ OfferedIsQueued'
BY DEF OwnReply, OfferedIsQueued

\* The end of a call.
LEMMA ReturnLemma ==
    ASSUME TasksOK, MailboxesOK, Protocol, NEW a \in Apps, Waiting(a), apiMailbox # <<>>,
           pc[a] = "confirm" \/ call[a] # "R" \/ Head(apiMailbox).data = Nothing,
           Return(a), apiMailbox' = Tail(apiMailbox),
           UNCHANGED <<sendMailbox, ready, msgAvailable, rpc>>
    PROVE  Protocol'
<1>1. /\ sendMutex = a /\ apiMailbox' = <<>>
      /\ \A i \in DOMAIN sendMailbox : ~FromApp(sendMailbox[i])
  BY AnsweredFacts
<1>2. /\ sendMutex' = Nobody /\ pc'[a] = "idle"
      /\ \A b \in Apps : b # a => pc'[b] = pc[b] /\ call'[b] = call[b]
  BY DEF TasksOK, Return
<1>3. HolderWaits'
  BY <1>1, <1>2, TasksAssumption DEF Protocol, Exchanges, HolderWaits, Waiting
<1>4. CallOK'
  BY <1>2 DEF Protocol, Exchanges, CallOK
<1>5. OwnReply' /\ OneRequest' /\ ConfirmedIsQueued' /\ OfferedIsQueued'
  <2>1. \A i \in DOMAIN sendMailbox' : ~FromApp(sendMailbox'[i])
    BY <1>1
  <2>2. OwnReply' /\ OfferedIsQueued'
    BY <1>1, NoAnswerLemma
  <2>3. OneRequest'
    BY <2>1 DEF OneRequest, FromApp
  <2>4. ConfirmedIsQueued'
    BY <2>1 DEF FromApp, ConfirmedIsQueued
  <2>5. QED
    BY <2>2, <2>3, <2>4
<1>6. Signalled'
  BY <1>1, <1>2 DEF Protocol, Signalled, Waiting
<1>7. QED
  BY <1>3, <1>4, <1>5, <1>6 DEF Protocol, Exchanges

\* The types after a step of an application that reads its mailbox.
LEMMA ReplyTypes ==
    ASSUME IInv, NEW a \in Apps, apiMailbox # <<>>, apiMailbox' = Tail(apiMailbox),
           handle' \in BOOLEAN,
           \/ Return(a)
           \/ pc' = [pc EXCEPT ![a] = "confirm"] /\ UNCHANGED <<sendMutex, call>>,
           UNCHANGED <<receiveMailbox, msgAvailable, mspEnding, sndVars, rcvVars, pubs>>
    PROVE  ConnOK' /\ TasksOK' /\ apiMailbox' \in Seq(ApiMessages)
<1>1. ConnOK'
  BY DEF IInv, ConnOK, sndVars, conn
<1>2. TasksOK'
  BY DEF IInv, TasksOK, sndVars, rcvVars, Return
<1>3. apiMailbox' \in Seq(ApiMessages)
  BY TailFacts DEF IInv, MailboxesOK
<1>4. QED
  BY <1>1, <1>2, <1>3

LEMMA ReplyHolds == \A a \in Apps : IInv /\ Reply(a) => IInv'
<1>1. SUFFICES ASSUME NEW a \in Apps, IInv, Reply(a) PROVE IInv'
  OBVIOUS
<1> DEFINE r == Head(apiMailbox)
<1>2. /\ ConnOK /\ TasksOK /\ MailboxesOK /\ Protocol
      /\ pc[a] = "reply" /\ Waiting(a) /\ apiMailbox # <<>> /\ apiMailbox' = Tail(apiMailbox)
      /\ UNCHANGED <<receiveMailbox, msgAvailable, mspEnding, sndVars, rcvVars, pubs>>
  BY <1>1 DEF IInv, Reply, Waiting
<1>3. handle' \in BOOLEAN
  BY <1>1, <1>2 DEF Reply, TasksOK
<1>4. CASE call[a] = "R" /\ r.data # Nothing
  <2>1. /\ AnswerPub(a, r.data)
        /\ pc' = [pc EXCEPT ![a] = "confirm"] /\ UNCHANGED <<sendMutex, call>>
    BY <1>1, <1>4 DEF Reply, AnswerPub
  <2>2. /\ sendMutex = a /\ apiMailbox' = <<>> /\ r \in ApiMessages /\ r.ec = "RCV_R"
        /\ \A i \in DOMAIN sendMailbox : ~FromApp(sendMailbox[i])
    BY <1>2, <1>4, AnsweredFacts
  <2>3. /\ pc'[a] = "confirm"
        /\ \A b \in Apps : b # a => pc'[b] = pc[b]
    BY <1>2, <2>1 DEF TasksOK
  <2>4. HolderWaits' /\ CallOK'
    BY <1>2, <1>4, <2>1, <2>3 DEF Protocol, Exchanges, HolderWaits, Waiting, CallOK, rcvVars
  <2>5. IsReady(r.data) /\ r.data \in Pubs
    BY <1>2, <1>4, <2>2 DEF Protocol, OfferedIsQueued, ApiMessages
  <2>6. PICK ec \in {"A", "E"} : sendMailbox' = Append(sendMailbox, Message(ec, "OK", r.data))
    BY <2>1 DEF AnswerPub
  <2>7. PICK k \in SendMessages : k = Message(ec, "OK", r.data)
    BY <2>5 DEF Message, SendMessages
  <2>8. FromApp(k) /\ k.ec = ec /\ k.data = r.data
    BY <2>7 DEF Message, FromApp
  <2>9. Asks(a, k)' /\ IsReady(k.data)'
    BY <1>2, <2>3, <2>5, <2>8 DEF Asks, IsReady, sndVars
  <2>10. /\ sendMailbox' \in Seq(SendMessages)
         /\ OneRequest' /\ ConfirmedIsQueued' /\ OwnReply' /\ OfferedIsQueued'
    <3>1. sendMailbox' = Append(sendMailbox, k)
      BY <2>6, <2>7
    <3>2. sendMutex' = a
      BY <2>1, <2>2
    <3>3. QED
      BY <1>2, <2>2, <2>8, <2>9, <3>1, <3>2, AskLemma
  <2>11. Signalled'
    BY <1>4, <2>1, <2>2, <2>3 DEF Signalled
  <2>12. ConnOK' /\ TasksOK' /\ apiMailbox' \in Seq(ApiMessages)
    BY <1>1, <1>2, <1>3, <2>1, ReplyTypes
  <2>13. QED
    BY <1>2, <2>4, <2>10, <2>11, <2>12 DEF IInv, MailboxesOK, Protocol, Exchanges
<1>5. CASE ~(call[a] = "R" /\ r.data # Nothing)
  <2>1. Return(a) /\ UNCHANGED sendMailbox
    BY <1>1, <1>5 DEF Reply
  <2>2. ConnOK' /\ TasksOK' /\ apiMailbox' \in Seq(ApiMessages)
    BY <1>1, <1>2, <1>3, <2>1, ReplyTypes
  <2>3. Protocol'
    BY <1>2, <1>5, <2>1, ReturnLemma DEF sndVars, rcvVars
  <2>4. QED
    BY <1>2, <2>1, <2>2, <2>3 DEF IInv, MailboxesOK
<1>6. QED
  BY <1>4, <1>5

LEMMA ConfirmedHolds == \A a \in Apps : IInv /\ Confirmed(a) => IInv'
<1>1. SUFFICES ASSUME NEW a \in Apps, IInv, Confirmed(a) PROVE IInv'
  OBVIOUS
<1>2. /\ ConnOK /\ TasksOK /\ MailboxesOK /\ Protocol
      /\ pc[a] = "confirm" /\ Waiting(a) /\ apiMailbox # <<>> /\ apiMailbox' = Tail(apiMailbox)
      /\ Return(a)
      /\ UNCHANGED <<sendMailbox, receiveMailbox, msgAvailable, mspEnding, handle, sndVars,
                     rcvVars, pubs>>
  BY <1>1 DEF IInv, Confirmed, Waiting
<1>3. ConnOK' /\ TasksOK' /\ apiMailbox' \in Seq(ApiMessages)
  BY <1>1, <1>2, ReplyTypes DEF TasksOK
<1>4. Protocol'
  BY <1>2, ReturnLemma DEF sndVars, rcvVars
<1>5. QED
  BY <1>2, <1>3, <1>4 DEF IInv, MailboxesOK

LEMMA TerminateHolds == IInv /\ Terminate => IInv'
<1>1. SUFFICES ASSUME IInv, Terminate PROVE IInv'
  OBVIOUS
<1>2. mspEnding' = TRUE /\ UNCHANGED <<shared, appVars, sndVars, rcvVars, pubs>>
  BY <1>1 DEF Terminate
<1>3. ConnOK' /\ TasksOK'
  BY <1>1, <1>2 DEF IInv, ConnOK, TasksOK, shared, appVars, sndVars, conn, rcvVars
<1>4. QED
  BY <1>1, <1>2, <1>3, QuietLemma DEF IInv, MailboxesOK, shared, appVars, sndVars, rcvVars,
     protocolVars

-----------------------------------------------------------------------------
(* The receive task.                                                       *)

LEMMA GetSocketHolds == IInv /\ GetSocket => IInv'
<1>1. SUFFICES ASSUME IInv, GetSocket PROVE IInv'
  OBVIOUS
<1>2. /\ receiveMailbox # <<>> /\ receiveMailbox \in Seq(RcvMessages)
      /\ receiveMailbox' = Tail(receiveMailbox)
      /\ UNCHANGED <<sendMutex, sendMailbox, apiMailbox, msgAvailable, mspEnding, appVars,
                     sndVars, rpc, rcvBuffer, pubs>>
  BY <1>1 DEF GetSocket, IInv, MailboxesOK
<1>3. Head(receiveMailbox) \in RcvMessages /\ receiveMailbox' \in Seq(RcvMessages)
  BY <1>2, TailFacts
<1>4. rcvSockfd' \in Fds \union {NoSock}
  BY <1>1, <1>3 DEF GetSocket, RcvMessages
<1>5. ConnOK' /\ TasksOK'
  BY <1>1, <1>2, <1>4 DEF IInv, ConnOK, TasksOK, appVars, sndVars, conn
<1>6. QED
  BY <1>1, <1>2, <1>3, <1>5, QuietLemma DEF appVars, sndVars, protocolVars

LEMMA GetDataHolds == IInv /\ GetData => IInv'
<1>1. SUFFICES ASSUME IInv, GetData PROVE IInv'
  OBVIOUS
<1> DEFINE s == stream[rcvSockfd]
<1>2. /\ rpc = "loop" /\ rpc' = "lock" /\ s # <<>> /\ rcvBuffer' = Head(s)
      /\ stream' = [stream EXCEPT ![rcvSockfd] = Tail(s)]
      /\ rcvSockfd \in Fds /\ s \in Seq(Items)
      /\ UNCHANGED <<shared, mspEnding, appVars, spc, appConnected, ready, connState,
                     connRetries, sockfd, link, conns, rcvSockfd, pubs>>
  BY <1>1 DEF GetData, IInv, TasksOK, ConnOK
<1>3. Head(s) \in Items /\ Tail(s) \in Seq(Items)
  BY <1>2, TailFacts
<1> HIDE DEF s
<1>4. ConnOK' /\ TasksOK'
  BY <1>1, <1>2, <1>3 DEF IInv, ConnOK, TasksOK, shared, appVars
<1>5. QED
  BY <1>1, <1>2, <1>4, QuietLemma DEF IInv, MailboxesOK, shared, appVars, protocolVars

LEMMA GetEndHolds == IInv /\ (GetEnd \/ RcvEnd) => IInv'
<1>1. SUFFICES ASSUME IInv, GetEnd \/ RcvEnd PROVE IInv'
  OBVIOUS
<1>2. /\ rpc = "loop" /\ rpc' \in {"close", "ended"}
      /\ UNCHANGED <<shared, mspEnding, appVars, sndVars, rcvSockfd, rcvBuffer, pubs>>
  BY <1>1 DEF GetEnd, RcvEnd
<1>3. ConnOK' /\ TasksOK'
  BY <1>1, <1>2 DEF IInv, ConnOK, TasksOK, shared, appVars, sndVars, conn
<1>4. QED
  BY <1>1, <1>2, <1>3, QuietLemma DEF IInv, MailboxesOK, shared, appVars, sndVars, protocolVars

LEMMA CloseSocketHolds == IInv /\ CloseSocket => IInv'
<1>1. SUFFICES ASSUME IInv, CloseSocket PROVE IInv'
  OBVIOUS
<1>2. /\ rpc = "close" /\ rpc' = "loop" /\ rcvSockfd' = NoSock /\ Closed(rcvSockfd)
      /\ UNCHANGED <<shared, mspEnding, appVars, spc, appConnected, ready, connState,
                     connRetries, sockfd, conns, rcvBuffer, pubs>>
  BY <1>1 DEF CloseSocket
<1>3. ConnOK'
  BY <1>1, <1>2, ClosedLemma DEF IInv, ConnOK, TasksOK
<1>4. TasksOK'
  BY <1>1, <1>2 DEF IInv, TasksOK, shared, appVars
<1>5. QED
  BY <1>1, <1>2, <1>3, <1>4, QuietLemma DEF IInv, MailboxesOK, shared, appVars, protocolVars

LEMMA HandDataHolds == IInv /\ HandData => IInv'
<1>1. SUFFICES ASSUME IInv, HandData PROVE IInv'
  OBVIOUS
<1> DEFINE m == Message("K", "OK", Nothing)
<1>2. /\ ConnOK /\ TasksOK /\ MailboxesOK /\ Protocol
      /\ rpc = "lock" /\ rpc' = "reply" /\ sendMutex = Nobody /\ sendMutex' = "rcv"
      /\ sendMailbox' = Append(sendMailbox, m)
      /\ UNCHANGED <<apiMailbox, receiveMailbox, msgAvailable, mspEnding, appVars, sndVars,
                     rcvSockfd, rcvBuffer, pubs>>
  BY <1>1 DEF IInv, HandData
<1>3. ConnOK' /\ TasksOK'
  BY <1>2 DEF ConnOK, TasksOK, appVars, sndVars, conn
<1>4. m \in SendMessages /\ ~FromApp(m)
  BY DEF Message, SendMessages, FromApp
<1> HIDE DEF m
<1>5. /\ sendMailbox' \in Seq(SendMessages)
      /\ DOMAIN sendMailbox' = DOMAIN sendMailbox \union {Len(sendMailbox) + 1}
      /\ \A i \in DOMAIN sendMailbox : sendMailbox'[i] = sendMailbox[i]
      /\ sendMailbox'[Len(sendMailbox) + 1] = m
  BY <1>2, <1>4, AppendFacts DEF MailboxesOK
<1>6. apiMailbox' = <<>> /\ \A i \in DOMAIN sendMailbox' : ~FromApp(sendMailbox'[i])
  BY <1>2, <1>4, <1>5, FreeLemma, TasksAssumption
<1>7. HolderWaits' /\ CallOK'
  BY <1>2, TasksAssumption DEF Protocol, Exchanges, HolderWaits, Waiting, CallOK, appVars
<1>8. OwnReply' /\ OneRequest' /\ ConfirmedIsQueued' /\ OfferedIsQueued'
  BY <1>6 DEF OwnReply, OneRequest, FromApp, ConfirmedIsQueued, OfferedIsQueued
<1>9. Signalled'
  BY <1>2, TasksAssumption DEF Protocol, Signalled, appVars, sndVars
<1>10. QED
  BY <1>2, <1>3, <1>5, <1>7, <1>8, <1>9 DEF IInv, MailboxesOK, Protocol, Exchanges

LEMMA HandedDataHolds == IInv /\ HandedData => IInv'
<1>1. SUFFICES ASSUME IInv, HandedData PROVE IInv'
  OBVIOUS
<1>2. /\ ConnOK /\ TasksOK /\ MailboxesOK /\ Protocol
      /\ rpc = "reply" /\ rpc' = "loop" /\ sendMutex' = Nobody
      /\ receiveMailbox # <<>> /\ receiveMailbox' = Tail(receiveMailbox)
      /\ UNCHANGED <<sendMailbox, apiMailbox, msgAvailable, mspEnding, appVars, sndVars,
                     rcvSockfd, rcvBuffer, pubs>>
  BY <1>1 DEF IInv, HandedData
<1>3. sendMutex = "rcv" /\ sendMutex \notin Apps
  BY <1>2, TasksAssumption DEF Protocol, Exchanges, HolderWaits
<1>4. ConnOK' /\ TasksOK'
  BY <1>2 DEF ConnOK, TasksOK, appVars, sndVars, conn
<1>5. MailboxesOK'
  BY <1>2, TailFacts DEF MailboxesOK
<1>6. apiMailbox = <<>> /\ \A i \in DOMAIN sendMailbox : ~FromApp(sendMailbox[i])
  BY <1>2, <1>3, FreeLemma
<1>7. HolderWaits' /\ CallOK'
  BY <1>2, <1>3, TasksAssumption DEF Protocol, Exchanges, HolderWaits, Waiting, CallOK, appVars
<1>8. OwnReply' /\ OneRequest' /\ ConfirmedIsQueued' /\ OfferedIsQueued'
  BY <1>2, <1>6 DEF OwnReply, OneRequest, FromApp, ConfirmedIsQueued, OfferedIsQueued
<1>9. Signalled'
  BY <1>2, <1>3 DEF Protocol, Signalled, appVars, sndVars
<1>10. QED
  BY <1>4, <1>5, <1>7, <1>8, <1>9 DEF IInv, Protocol, Exchanges

-----------------------------------------------------------------------------
(* The broker and the network.                                             *)

LEMMA EnvironmentHolds ==
    \A f \in Fds : IInv /\ (BrokerAnswers(f) \/ BrokerPublishes(f) \/ LinkBreaks(f)) => IInv'
<1>1. SUFFICES ASSUME NEW f \in Fds, IInv,
                      BrokerAnswers(f) \/ BrokerPublishes(f) \/ LinkBreaks(f)
               PROVE  IInv'
  OBVIOUS
<1>2. UNCHANGED <<shared, mspEnding, appVars, spc, appConnected, ready, connState,
                  connRetries, sockfd, conns, rcvVars>>
  BY <1>1 DEF BrokerAnswers, BrokerPublishes, LinkBreaks
<1>3. /\ link' \in [Fds -> {"closed", "asked", "up", "gone"}]
      /\ stream' \in [Fds -> Seq(Items)] /\ pubs' \in 0..MaxPubs
  <2>1. CASE BrokerAnswers(f)
    <3>1. <<Connack>> \in Seq(Items) /\ <<Refused>> \in Seq(Items)
      BY DEF Items
    <3>2. QED
      BY <1>1, <2>1, <3>1 DEF BrokerAnswers, IInv, ConnOK, TasksOK
  <2>2. CASE BrokerPublishes(f)
    <3>1. pubs' = pubs + 1 /\ pubs' \in 1..MaxPubs /\ pubs + 1 \in Items
      BY <1>1, <2>2, TasksAssumption DEF BrokerPublishes, IInv, TasksOK, Items
    <3>2. Append(stream[f], pubs + 1) \in Seq(Items)
      BY <1>1, <3>1, AppendFacts DEF IInv, ConnOK
    <3>3. QED
      BY <1>1, <2>2, <3>1, <3>2 DEF BrokerPublishes, IInv, ConnOK
  <2>3. CASE LinkBreaks(f)
    BY <1>1, <2>3 DEF LinkBreaks, IInv, ConnOK, TasksOK
  <2>4. QED
    BY <1>1, <2>1, <2>2, <2>3
<1>4. ConnOK' /\ TasksOK'
  BY <1>1, <1>2, <1>3 DEF IInv, ConnOK, TasksOK, shared, appVars, rcvVars
<1>5. QED
  BY <1>1, <1>2, <1>4, QuietLemma DEF IInv, MailboxesOK, shared, appVars, rcvVars,
     protocolVars


-----------------------------------------------------------------------------
(* The theorems.                                                           *)

LEMMA InitHolds == Init => IInv
<1>1. SUFFICES ASSUME Init PROVE IInv
  OBVIOUS
<1>2. ConnOK
  <2>1. <<>> \in Seq(Items) /\ 0 \in 0..(RetryCount + 1) /\ 0 \in 0..MaxConnects
    BY TasksAssumption
  <2>2. QED
    BY <1>1, <2>1 DEF Init, ConnOK, States
<1>3. TasksOK
  <2>1. <<>> \in Seq(1..MaxPubs) /\ 0 \in 0..MaxPubs
    BY TasksAssumption
  <2>2. QED
    BY <1>1, <2>1 DEF Init, TasksOK
<1>4. MailboxesOK
  BY <1>1 DEF Init, MailboxesOK
<1>5. HolderWaits /\ CallOK
  BY <1>1, TasksAssumption DEF Init, HolderWaits, CallOK, Waiting
<1>6. Protocol
  BY <1>1, <1>5 DEF Init, Protocol, Exchanges, OwnReply, OneRequest, ConfirmedIsQueued,
     OfferedIsQueued, Signalled
<1>7. QED
  BY <1>2, <1>3, <1>4, <1>6 DEF IInv

LEMMA UnchangedHolds == IInv /\ UNCHANGED vars => IInv'
<1>1. SUFFICES ASSUME IInv, UNCHANGED vars PROVE IInv'
  OBVIOUS
<1>2. ConnOK' /\ TasksOK'
  BY <1>1 DEF IInv, ConnOK, TasksOK, vars, shared, appVars, sndVars, conn, rcvVars
<1>3. QED
  BY <1>1, <1>2, QuietLemma
  DEF IInv, MailboxesOK, vars, shared, appVars, sndVars, rcvVars, protocolVars

LEMMA NextHolds == IInv /\ [Next]_vars => IInv'
<1>1. SUFFICES ASSUME IInv, [Next]_vars PROVE IInv'
  OBVIOUS
<1>2. CASE \E a \in Apps, ec \in Requests : Begin(a, ec)
  BY <1>1, <1>2, BeginHolds
<1>3. CASE \E a \in Apps : BeginReceive(a) \/ Wake(a) \/ Request(a) \/ Reply(a) \/ Confirmed(a)
  BY <1>1, <1>3, BeginReceiveHolds, WakeHolds, RequestHolds, ReplyHolds, ConfirmedHolds
<1>4. CASE Terminate
  BY <1>1, <1>4, TerminateHolds
<1>5. CASE SendTask
  BY <1>1, <1>5, ReadIPCHolds, IpcTimeoutHolds, WritesHold, ReconnectHolds DEF SendTask
<1>6. CASE ReceiveTask \/ HandData
  BY <1>1, <1>6, GetSocketHolds, GetDataHolds, GetEndHolds, CloseSocketHolds, HandDataHolds,
     HandedDataHolds DEF ReceiveTask
<1>7. CASE \E f \in Fds : BrokerAnswers(f) \/ BrokerPublishes(f) \/ LinkBreaks(f)
  BY <1>1, <1>7, EnvironmentHolds
<1>8. CASE Stopped \/ UNCHANGED vars
  BY <1>1, <1>8, UnchangedHolds DEF Stopped
<1>9. QED
  BY <1>1, <1>2, <1>3, <1>4, <1>5, <1>6, <1>7, <1>8 DEF Next, SendTask, ReceiveTask

\* The inductive invariant holds in every state, with faults or without.
THEOREM Invariance == Spec => []IInv
<1>1. Init => IInv
  BY InitHolds
<1>2. IInv /\ [Next]_vars => IInv'
  BY NextHolds
<1>3. QED
  BY <1>1, <1>2, PTL DEF Spec

\* Type correctness: what a mailbox holds is for its reader, and who waits for an answer
\* holds the mutex of the send task's mailbox.
THEOREM TypeCorrect == Spec => []TypeOK
<1>1. IInv => TypeOK
  <2>1. SUFFICES ASSUME IInv PROVE TypeOK
    OBVIOUS
  <2>2. ConnOK /\ TasksOK /\ MailboxesOK /\ Protocol
    BY <2>1 DEF IInv
  <2>3. \A f \in Fds : stream[f] \in Seq(Items)
    BY <2>2 DEF ConnOK
  <2>4. \A i \in DOMAIN sendMailbox : sendMailbox[i].ec \in Requests \union {"R", "A", "E", "K"}
    <3>1. \A i \in DOMAIN sendMailbox : sendMailbox[i] \in SendMessages
      BY <2>2 DEF MailboxesOK
    <3>2. QED
      BY <3>1 DEF SendMessages
  <2>5. \A i \in DOMAIN receiveMailbox : receiveMailbox[i].ec \in {"RCON_S", "RTSK_R"}
    BY <2>2 DEF MailboxesOK, RcvMessages
  <2>6. \A a \in Apps : Waiting(a) => sendMutex = a
    BY <2>2 DEF Protocol, Exchanges, HolderWaits
  <2>7. QED
    BY <2>2, <2>3, <2>4, <2>5, <2>6 DEF TypeOK, ConnOK, TasksOK
<1>2. QED
  BY <1>1, Invariance, PTL

\* What is in the application's mailbox answers the call of the thread that holds the
\* mutex: no thread reads the answer to another's request, although the mailbox is shared.
THEOREM RepliesAreOwn == Spec => []OwnReply
<1>1. IInv => OwnReply
  BY DEF IInv, Protocol, Exchanges
<1>2. QED
  BY <1>1, Invariance, PTL

\* The publication that a thread confirms is still queued when the send task comes to
\* delete it.
THEOREM ConfirmedStays == Spec => []ConfirmedIsQueued
<1>1. IInv => ConfirmedIsQueued
  BY DEF IInv, Protocol
<1>2. QED
  BY <1>1, Invariance, PTL

\* No wake-up is lost: a publication that can be received is signalled, or a thread is on
\* its way to it.
THEOREM WakeupsAreKept == Spec => []NoLostWakeup
<1>1. IInv => NoLostWakeup
  BY DEF IInv, Protocol, Signalled, NoLostWakeup
<1>2. QED
  BY <1>1, Invariance, PTL


-----------------------------------------------------------------------------
(* Everybody who waits is answered, when the connection is initialised and *)
(* the threads share one handle.                                           *)

\* A step that is no exchange and does not touch what an answer depends on.
LEMMA UnansweredLemma ==
    ASSUME AInv, UNCHANGED <<sendMailbox, apiMailbox, pc, call, handle, appConnected>>,
           rpc' = "reply" => rpc = "reply",
           receiveMailbox' # <<>> \/ UNCHANGED receiveMailbox \/ rpc' # "reply"
    PROVE  AInv'
BY DEF AInv, OnTheWay, OneHandle, Waiting

\* The thread that has asked what the send task is about to handle.
LEMMA AskerFacts ==
    ASSUME IInv, AInv, ReadIPC, FromApp(Head(sendMailbox))
    PROVE  \E a \in Apps :
              /\ Asks(a, Head(sendMailbox)) /\ Waiting(a)
              /\ \A b \in Apps : Waiting(b) => b = a
              /\ Head(sendMailbox).ec = "C" <=> ~handle
              /\ pc[a] = "reply" => call[a] = Head(sendMailbox).ec
              /\ pc[a] = "confirm" => call[a] = "R"
<1>1. PICK a \in Apps : sendMutex = a /\ Asks(a, Head(sendMailbox))
  BY HandledFacts
<1>2. Waiting(a) /\ \A b \in Apps : Waiting(b) => b = a
  BY <1>1 DEF IInv, Protocol, Exchanges, HolderWaits
<1>3. /\ pc[a] # "idle" /\ call[a] = "C" <=> ~handle
      /\ pc[a] = "reply" => call[a] = Head(sendMailbox).ec
      /\ pc[a] = "confirm" => call[a] = "R" /\ Head(sendMailbox).ec \in {"A", "E"}
  <2>1. pc[a] # "idle"
    BY <1>2 DEF Waiting
  <2>2. call[a] = "C" <=> ~handle
    BY <2>1 DEF AInv, OneHandle
  <2>3. pc[a] = "confirm" => call[a] = "R"
    BY DEF IInv, Protocol, Exchanges, CallOK
  <2>4. QED
    BY <1>1, <2>1, <2>2, <2>3 DEF Asks
<1>4. Head(sendMailbox).ec = "C" <=> ~handle
  BY <1>2, <1>3 DEF Waiting
<1>5. QED
  BY <1>1, <1>2, <1>3, <1>4

\* A handler that has answered: what the others wait for is where it was.
LEMMA AnsweredLemma ==
    ASSUME IInv, AInv, ReadIPC, FromApp(Head(sendMailbox)), apiMailbox' # <<>>,
           receiveMailbox' # <<>> \/ UNCHANGED receiveMailbox
    PROVE  OnTheWay'
<1>1. /\ sendMailbox \in Seq(SendMessages) /\ sendMailbox # <<>>
      /\ sendMailbox' = Tail(sendMailbox) /\ sendMailbox[1] = Head(sendMailbox)
      /\ UNCHANGED <<pc, rpc>>
  BY TailFacts DEF IInv, MailboxesOK, ReadIPC, appVars, rcvVars
<1>2. ASSUME rpc = "reply", receiveMailbox = <<>>
      PROVE  \E i \in DOMAIN sendMailbox' : ~FromApp(sendMailbox'[i])
  <2>1. PICK i \in DOMAIN sendMailbox : ~FromApp(sendMailbox[i])
    BY <1>2 DEF AInv, OnTheWay
  <2>2. i - 1 \in DOMAIN sendMailbox' /\ sendMailbox'[i - 1] = sendMailbox[i]
    BY <1>1, <2>1, TailFacts
  <2>3. QED
    BY <2>1, <2>2
<1>3. QED
  BY <1>1, <1>2 DEF AInv, OnTheWay, FromApp

LEMMA ConnectAnswered ==
    ASSUME Faults = {}, IInv, AInv, ReadIPC, Head(sendMailbox).ec = "C", ReadConnect
    PROVE  AInv'
<1>1. FromApp(Head(sendMailbox)) /\ AnswerTo(Head(sendMailbox).ec) = "C"
  BY DEF FromApp, AnswerTo
<1>2. PICK a \in Apps :
          /\ Asks(a, Head(sendMailbox)) /\ Waiting(a)
          /\ \A b \in Apps : Waiting(b) => b = a
          /\ Head(sendMailbox).ec = "C" <=> ~handle
          /\ pc[a] = "reply" => call[a] = Head(sendMailbox).ec
  BY <1>1, AskerFacts
<1>3. apiMailbox = <<>> /\ UNCHANGED <<pc, call, handle>>
  BY <1>1, HandledFacts DEF ReadIPC, appVars
<1>4. ~appConnected /\ ~handle
  BY <1>2, <1>3 DEF AInv, OneHandle
<1>5. \/ Respond("C", "OK", Nothing) /\ Connect("CONNECTING")
      \/ Respond("C", "FAILED", Nothing) /\ UNCHANGED <<receiveMailbox, appConnected>>
  BY <1>4 DEF ReadConnect
<1>6. apiMailbox' # <<>> /\ (appConnected' => Head(apiMailbox').rc = "OK")
  BY <1>3, <1>4, <1>5 DEF Respond, Message
<1>7. receiveMailbox' # <<>> \/ UNCHANGED receiveMailbox
  BY <1>5, AppendFacts DEF Connect, IInv, MailboxesOK
<1>8. pc[a] = "reply" /\ call[a] = "C"
  BY <1>2 DEF Asks, Waiting
<1>9. OneHandle'
  <2>1. \A b \in Apps : pc[b] = "reply" => call[b] = "C"
    BY <1>2, <1>8 DEF Waiting
  <2>2. QED
    BY <1>3, <1>6, <1>8, <2>1 DEF AInv, OneHandle
<1>10. QED
  BY <1>1, <1>6, <1>7, <1>9, AnsweredLemma DEF AInv

\* Every handler answers, and but for connect and disconnect none changes whom the send
\* task serves.
LEMMA RequestAnswered ==
    ASSUME IInv, AInv, ReadIPC, FromApp(Head(sendMailbox)), Head(sendMailbox).ec # "C",
           apiMailbox' # <<>>, UNCHANGED receiveMailbox,
           appConnected' = IF Head(sendMailbox).ec = "D" THEN FALSE ELSE appConnected
    PROVE  AInv'
<1>1. PICK a \in Apps :
          /\ Asks(a, Head(sendMailbox)) /\ Waiting(a)
          /\ \A b \in Apps : Waiting(b) => b = a
          /\ Head(sendMailbox).ec = "C" <=> ~handle
          /\ pc[a] = "reply" => call[a] = Head(sendMailbox).ec
  BY AskerFacts
<1>2. handle /\ UNCHANGED <<pc, call, handle>>
  BY <1>1 DEF ReadIPC, appVars
<1>3. ASSUME NEW b \in Apps, call[b] = "D", pc[b] = "reply"
      PROVE  ~appConnected'
  BY <1>1, <1>3 DEF Waiting
<1>4. OneHandle'
  BY <1>2, <1>3 DEF AInv, OneHandle
<1>5. QED
  BY <1>4, AnsweredLemma DEF AInv

LEMMA NetworkAnswered ==
    ASSUME IInv, AInv, ReadIPC, Head(sendMailbox).ec = "K", ReadNetwork
    PROVE  AInv'
<1>1. /\ sendMailbox \in Seq(SendMessages) /\ sendMailbox # <<>>
      /\ sendMailbox' = Tail(sendMailbox) /\ sendMailbox[1] = Head(sendMailbox)
      /\ UNCHANGED <<pc, call, handle, apiMailbox, appConnected>>
  BY TailFacts DEF IInv, MailboxesOK, ReadIPC, ReadNetwork, appVars
<1>2. receiveMailbox' # <<>>
  <2>1. Message("RTSK_R", "OK", Nothing) \in RcvMessages
    BY DEF Message, RcvMessages
  <2>2. QED
    BY <2>1, AppendFacts DEF ReadNetwork, IInv, MailboxesOK
<1>3. ASSUME NEW i \in DOMAIN sendMailbox, FromApp(sendMailbox[i])
      PROVE  \E j \in DOMAIN sendMailbox' : FromApp(sendMailbox'[j])
  <2>1. i # 1
    BY <1>1, <1>3 DEF FromApp
  <2>2. i - 1 \in DOMAIN sendMailbox' /\ sendMailbox'[i - 1] = sendMailbox[i]
    BY <1>1, <2>1, TailFacts
  <2>3. QED
    BY <1>3, <2>2
<1>4. QED
  BY <1>1, <1>2, <1>3 DEF AInv, OnTheWay, OneHandle, Waiting, FromApp

LEMMA ReadIPCAnswered == Faults = {} /\ IInv /\ AInv /\ ReadIPC => AInv'
<1>1. SUFFICES ASSUME Faults = {}, IInv, AInv, ReadIPC PROVE AInv'
  OBVIOUS
<1> DEFINE m == Head(sendMailbox)
<1>2. CASE m.ec = "C" /\ ReadConnect
  BY <1>1, <1>2, ConnectAnswered
<1>3. CASE m.ec = "K" /\ ReadNetwork
  BY <1>1, <1>3, NetworkAnswered
<1>4. CASE \/ m.ec = "D" /\ ReadDisconnect
           \/ m.ec = "P" /\ ReadPublish
           \/ m.ec \in {"M", "T"} /\ ReadStatus(m.ec)
           \/ m.ec = "R" /\ ReadReceive
           \/ m.ec = "A" /\ ReadTaken(m.data)
           \/ m.ec = "E" /\ ReadDeclined
  <2>1. FromApp(m) /\ m.ec # "C"
    BY <1>4 DEF FromApp
  <2>2. \E ec, rc, data : Respond(ec, rc, data)
    BY <1>4 DEF ReadDisconnect, ReadPublish, ReadStatus, ReadReceive, ReadTaken, ReadDeclined
  <2>3. apiMailbox' # <<>>
    <3>1. apiMailbox = <<>>
      BY <1>1, <2>1, HandledFacts
    <3>2. QED
      BY <2>2, <3>1 DEF Respond
  <2>4. /\ UNCHANGED receiveMailbox
        /\ appConnected' = IF m.ec = "D" THEN FALSE ELSE appConnected
    BY <1>4 DEF ReadDisconnect, ReadPublish, ReadStatus, ReadReceive, ReadTaken, ReadDeclined
  <2> HIDE DEF m
  <2>5. QED
    BY <1>1, <2>1, <2>3, <2>4, RequestAnswered DEF m
<1>5. QED
  BY <1>1, <1>2, <1>3, <1>4 DEF ReadIPC


\* A thread that waits for nothing.
LEMMA OutsideAnswered ==
    ASSUME TasksOK, OnTheWay, NEW a \in Apps, NEW p \in {"wait", "sleep", "lock"},
           pc' = [pc EXCEPT ![a] = p],
           UNCHANGED <<sendMailbox, apiMailbox, receiveMailbox, rpc>>
    PROVE  OnTheWay'
BY DEF TasksOK, OnTheWay, Waiting

LEMMA BeginAnswered ==
    \A a \in Apps, ec \in Requests : Faults = {} /\ IInv /\ AInv /\ Begin(a, ec) => AInv'
<1>1. SUFFICES ASSUME NEW a \in Apps, NEW ec \in Requests, Faults = {}, IInv, AInv, Begin(a, ec)
               PROVE  AInv'
  OBVIOUS
<1>2. /\ TasksOK /\ OnTheWay /\ OneHandle
      /\ pc[a] = "idle"
      /\ IF ec = "C" THEN ~handle /\ \A b \in Apps : pc[b] = "idle" \/ call[b] # "C" ELSE handle
      /\ ec = "D" => \A b \in Apps : pc[b] = "idle"
      /\ \A b \in Apps : pc[b] = "idle" \/ call[b] # "D"
      /\ pc' = [pc EXCEPT ![a] = "lock"] /\ call' = [call EXCEPT ![a] = ec]
      /\ UNCHANGED <<sendMailbox, apiMailbox, receiveMailbox, rpc, handle, appConnected>>
  BY <1>1 DEF IInv, AInv, Begin, shared, sndVars, rcvVars
<1>3. /\ pc'[a] = "lock" /\ call'[a] = ec
      /\ \A b \in Apps : b # a => pc'[b] = pc[b] /\ call'[b] = call[b]
  BY <1>2 DEF TasksOK
<1>4. ec \in {"C", "D"} => \A b \in Apps : pc[b] = "idle"
  BY <1>2 DEF OneHandle
<1>5. OneHandle'
  <2>1. \A b, c \in Apps :
           pc'[b] # "idle" /\ pc'[c] # "idle" /\ call'[b] \in {"C", "D"} => b = c
    BY <1>2, <1>3, <1>4 DEF OneHandle
  <2>2. \A b \in Apps : pc'[b] # "idle" => (call'[b] = "C" <=> ~handle')
    BY <1>2, <1>3 DEF OneHandle
  <2>3. ~handle /\ appConnected =>
           \E b \in Apps : /\ call'[b] = "C" /\ pc'[b] = "reply" /\ apiMailbox # <<>>
                           /\ Head(apiMailbox).rc = "OK"
    BY <1>2, <1>3 DEF OneHandle
  <2>4. \A b \in Apps : call'[b] = "D" /\ pc'[b] = "reply" /\ apiMailbox # <<>> => ~appConnected
    BY <1>2, <1>3 DEF OneHandle
  <2>5. QED
    BY <1>2, <2>1, <2>2, <2>3, <2>4 DEF OneHandle
<1>6. QED
  BY <1>2, <1>5, OutsideAnswered DEF AInv

LEMMA ReceiveAnswered ==
    \A a \in Apps : IInv /\ AInv /\ (BeginReceive(a) \/ Wake(a)) => AInv'
<1>1. SUFFICES ASSUME NEW a \in Apps, IInv, AInv, BeginReceive(a) \/ Wake(a) PROVE AInv'
  OBVIOUS
<1>2. PICK p \in {"wait", "sleep", "lock"} : pc' = [pc EXCEPT ![a] = p]
  BY <1>1 DEF BeginReceive, Wake
<1>3. /\ TasksOK /\ OnTheWay /\ OneHandle
      /\ handle /\ \A b \in Apps : pc[b] = "idle" \/ call[b] # "D"
      /\ call'[a] = "R" /\ ~Waiting(a)
      /\ UNCHANGED <<sendMailbox, apiMailbox, receiveMailbox, rpc, handle, appConnected>>
      /\ \A b \in Apps : b # a => call'[b] = call[b]
  <2>1. CASE BeginReceive(a)
    BY <1>1, <2>1 DEF IInv, AInv, BeginReceive, TasksOK, Waiting, shared, sndVars, rcvVars
  <2>2. CASE Wake(a)
    <3>1. call[a] = "R" /\ pc[a] # "idle" /\ UNCHANGED call /\ ~Waiting(a)
      BY <1>1, <2>2 DEF IInv, Protocol, Exchanges, CallOK, Wake, Waiting
    <3>2. handle /\ \A b \in Apps : pc[b] = "idle" \/ call[b] # "D"
      BY <1>1, <3>1 DEF AInv, OneHandle
    <3>3. QED
      BY <1>1, <2>2, <3>1, <3>2 DEF IInv, AInv, Wake, sndVars, rcvVars
  <2>3. QED
    BY <1>1, <2>1, <2>2
<1>4. /\ pc'[a] = p
      /\ \A b \in Apps : b # a => pc'[b] = pc[b]
  BY <1>2, <1>3 DEF TasksOK
<1>5. OneHandle'
  <2>1. \A b \in Apps : pc[b] # "idle" => call[b] \notin {"C", "D"}
    BY <1>3 DEF OneHandle
  <2>2. \A b \in Apps : pc'[b] # "idle" => call'[b] \notin {"C", "D"}
    BY <1>3, <1>4, <2>1
  <2>3. QED
    BY <1>3, <2>2 DEF OneHandle
<1>6. QED
  BY <1>2, <1>3, <1>5, OutsideAnswered DEF AInv

LEMMA RequestIsOnTheWay == \A a \in Apps : IInv /\ AInv /\ Request(a) => AInv'
<1>1. SUFFICES ASSUME NEW a \in Apps, IInv, AInv, Request(a) PROVE AInv'
  OBVIOUS
<1> DEFINE m == Message(call[a], "OK", Nothing)
<1>2. /\ TasksOK /\ MailboxesOK /\ Protocol /\ OnTheWay /\ OneHandle
      /\ pc[a] = "lock" /\ sendMutex = Nobody
      /\ pc' = [pc EXCEPT ![a] = "reply"]
      /\ sendMailbox' = Append(sendMailbox, m)
      /\ UNCHANGED <<apiMailbox, receiveMailbox, rpc, call, handle, appConnected>>
  BY <1>1 DEF IInv, AInv, Request, sndVars, rcvVars
<1>3. sendMutex \notin Apps /\ sendMutex # "rcv"
  BY <1>2, TasksAssumption
<1>4. apiMailbox = <<>> /\ rpc # "reply"
  BY <1>2, <1>3, FreeLemma DEF Protocol, Exchanges, HolderWaits
<1>5. call[a] \in Requests \union {"R"}
  BY <1>2 DEF Protocol, Exchanges, CallOK
<1>6. m \in SendMessages /\ FromApp(m)
  BY <1>5 DEF Message, SendMessages, FromApp, Requests
<1> HIDE DEF m
<1>7. Len(sendMailbox) + 1 \in DOMAIN sendMailbox' /\ sendMailbox'[Len(sendMailbox) + 1] = m
  BY <1>2, <1>6, AppendFacts DEF MailboxesOK
<1>8. OnTheWay'
  BY <1>2, <1>4, <1>6, <1>7 DEF OnTheWay, FromApp
<1>9. OneHandle'
  <2>1. /\ pc'[a] = "reply"
        /\ \A b \in Apps : b # a => pc'[b] = pc[b]
    BY <1>2 DEF TasksOK
  <2>2. QED
    BY <1>2, <1>4, <2>1 DEF OneHandle
<1>10. QED
  BY <1>8, <1>9 DEF AInv

LEMMA ReplyAnswered == \A a \in Apps : IInv /\ AInv /\ (Reply(a) \/ Confirmed(a)) => AInv'
<1>1. SUFFICES ASSUME NEW a \in Apps, IInv, AInv, Reply(a) \/ Confirmed(a) PROVE AInv'
  OBVIOUS
<1>2. /\ TasksOK /\ MailboxesOK /\ Protocol /\ OnTheWay /\ OneHandle
      /\ Waiting(a) /\ pc[a] # "idle" /\ apiMailbox # <<>> /\ apiMailbox' = Tail(apiMailbox)
      /\ UNCHANGED <<receiveMailbox, rpc, appConnected>>
  BY <1>1 DEF IInv, AInv, Reply, Confirmed, Waiting, sndVars, rcvVars
<1>3. sendMutex = a /\ apiMailbox' = <<>> /\ \A i \in DOMAIN sendMailbox : ~FromApp(sendMailbox[i])
  BY <1>2, AnsweredFacts
<1>4. /\ \A b \in Apps : Waiting(b) => b = a
      /\ rpc # "reply"
  BY <1>2, <1>3, TasksAssumption DEF Protocol, Exchanges, HolderWaits
<1>5. CASE Return(a)
  <2>1. /\ pc'[a] = "idle"
        /\ \A b \in Apps : b # a => pc'[b] = pc[b] /\ call'[b] = call[b]
    BY <1>2, <1>5 DEF TasksOK, Return
  <2>2. OnTheWay'
    BY <1>2, <1>4, <2>1 DEF OnTheWay, Waiting
  <2>3. handle' = handle \/ call[a] \in {"C", "D"}
    BY <1>1 DEF Reply, Confirmed
  <2>4. \A b \in Apps : pc'[b] # "idle" => (call'[b] = "C" <=> ~handle')
    BY <1>2, <2>1, <2>3 DEF OneHandle
  <2>5. ~handle' => ~appConnected
    <3>1. CASE call[a] = "D"
      <4>1. pc[a] = "reply"
        BY <1>2, <3>1 DEF Waiting, Protocol, Exchanges, CallOK
      <4>2. QED
        BY <1>2, <3>1, <4>1 DEF OneHandle
    <3>2. CASE call[a] = "C"
      <4>1. handle' = (Head(apiMailbox).rc = "OK")
        BY <1>1, <1>2, <3>2 DEF Reply, Confirmed, Protocol, Exchanges, CallOK
      <4>2. ~handle
        BY <1>2, <3>2 DEF OneHandle
      <4>3. QED
        BY <1>2, <1>4, <4>1, <4>2 DEF OneHandle
    <3>3. CASE call[a] \notin {"C", "D"}
      BY <1>2, <2>3, <3>3 DEF OneHandle
    <3>4. QED
      BY <3>1, <3>2, <3>3
  <2>6. OneHandle'
    BY <1>2, <1>3, <2>1, <2>4, <2>5 DEF OneHandle
  <2>7. QED
    BY <2>2, <2>6 DEF AInv
<1>6. CASE Reply(a) /\ call[a] = "R" /\ AnswerPub(a, Head(apiMailbox).data)
  <2>1. PICK ec \in {"A", "E"} :
           sendMailbox' = Append(sendMailbox, Message(ec, "OK", Head(apiMailbox).data))
    BY <1>6 DEF AnswerPub
  <2>2. /\ pc' = [pc EXCEPT ![a] = "confirm"] /\ UNCHANGED <<call, handle>>
    BY <1>6 DEF AnswerPub, Reply
  <2>3. Message(ec, "OK", Head(apiMailbox).data) \in SendMessages
    <3>1. Head(apiMailbox) \in ApiMessages
      BY <1>2, AnsweredFacts
    <3>2. QED
      BY <3>1 DEF ApiMessages, SendMessages, Message
  <2>4. PICK k \in SendMessages : k = Message(ec, "OK", Head(apiMailbox).data)
    BY <2>3
  <2>5. FromApp(k) /\ sendMailbox' = Append(sendMailbox, k)
    BY <2>1, <2>4 DEF FromApp, Message
  <2>6. Len(sendMailbox) + 1 \in DOMAIN sendMailbox' /\ sendMailbox'[Len(sendMailbox) + 1] = k
    BY <1>2, <2>5, AppendFacts DEF MailboxesOK
  <2>7. OnTheWay'
    BY <1>2, <1>4, <2>5, <2>6 DEF OnTheWay, FromApp
  <2>8. handle
    BY <1>2, <1>6 DEF OneHandle
  <2>9. /\ pc'[a] = "confirm"
        /\ \A b \in Apps : b # a => pc'[b] = pc[b]
    BY <1>2, <2>2 DEF TasksOK
  <2>10. OneHandle'
    BY <1>2, <1>3, <2>2, <2>8, <2>9 DEF OneHandle
  <2>11. QED
    BY <2>7, <2>10 DEF AInv
<1>7. QED
  BY <1>1, <1>5, <1>6 DEF Reply, Confirmed

LEMMA OthersAnswered ==
    ASSUME IInv, AInv,
           \/ Terminate
           \/ IpcTimeout \/ Ping \/ Reconnect \/ Retry
           \/ GetSocket \/ GetData \/ GetEnd \/ CloseSocket \/ RcvEnd
           \/ \E f \in Fds : BrokerAnswers(f) \/ BrokerPublishes(f) \/ LinkBreaks(f)
           \/ UNCHANGED vars
    PROVE  AInv'
<1>1. CASE Reconnect
  <2>1. /\ UNCHANGED <<sendMailbox, apiMailbox, pc, call, handle, appConnected, rpc>>
        /\ receiveMailbox' # <<>> \/ UNCHANGED receiveMailbox
    BY <1>1, AppendFacts DEF Reconnect, Connect, appVars, rcvVars, IInv, MailboxesOK
  <2>2. QED
    BY <2>1, UnansweredLemma
<1>2. CASE GetSocket
  BY <1>2, UnansweredLemma DEF GetSocket, appVars, sndVars
<1>3. CASE \/ Terminate \/ IpcTimeout \/ Ping \/ Retry
           \/ GetData \/ GetEnd \/ CloseSocket \/ RcvEnd
           \/ \E f \in Fds : BrokerAnswers(f) \/ BrokerPublishes(f) \/ LinkBreaks(f)
           \/ UNCHANGED vars
  <2>1. /\ UNCHANGED <<sendMailbox, apiMailbox, receiveMailbox, pc, call, handle, appConnected>>
        /\ rpc' = "reply" => rpc = "reply"
    BY <1>3 DEF Terminate, IpcTimeout, Ping, Retry, GetData, GetEnd, CloseSocket, RcvEnd,
       BrokerAnswers, BrokerPublishes, LinkBreaks, vars, shared, appVars, sndVars, rcvVars
  <2>2. QED
    BY <2>1, UnansweredLemma
<1>4. QED
  BY <1>1, <1>2, <1>3

LEMMA HandAnswered == IInv /\ AInv /\ (HandData \/ HandedData) => AInv'
<1>1. SUFFICES ASSUME IInv, AInv, HandData \/ HandedData PROVE AInv'
  OBVIOUS
<1>2. CASE HandedData
  BY <1>1, <1>2, UnansweredLemma DEF HandedData, appVars, sndVars
<1>3. CASE HandData
  <2> DEFINE m == Message("K", "OK", Nothing)
  <2>1. /\ MailboxesOK /\ sendMailbox' = Append(sendMailbox, m) /\ OnTheWay /\ OneHandle
        /\ UNCHANGED <<apiMailbox, receiveMailbox, pc, call, handle, appConnected>>
    BY <1>1, <1>3 DEF IInv, AInv, HandData, appVars, sndVars
  <2>2. m \in SendMessages /\ ~FromApp(m)
    BY DEF Message, SendMessages, FromApp
  <2> HIDE DEF m
  <2>3. /\ Len(sendMailbox) + 1 \in DOMAIN sendMailbox' /\ sendMailbox'[Len(sendMailbox) + 1] = m
        /\ \A i \in DOMAIN sendMailbox :
              i \in DOMAIN sendMailbox' /\ sendMailbox'[i] = sendMailbox[i]
    BY <2>1, <2>2, AppendFacts DEF MailboxesOK
  <2>4. OnTheWay'
    BY <2>1, <2>2, <2>3 DEF OnTheWay, Waiting, FromApp
  <2>5. OneHandle'
    BY <2>1 DEF OneHandle
  <2>6. QED
    BY <2>4, <2>5 DEF AInv
<1>4. QED
  BY <1>1, <1>2, <1>3

\* Nobody waits for an answer that will not come, as long as no connection fails to be
\* initialised and no thread connects with a handle of its own: the answer to every request
\* is under way, or written.
THEOREM EveryoneAnswered == Faults = {} /\ Spec => []Answered
<1>1. Faults = {} /\ Init => IInv /\ AInv
  <2>1. SUFFICES ASSUME Init PROVE AInv
    BY InitHolds
  <2>2. QED
    BY <2>1 DEF Init, AInv, OnTheWay, OneHandle, Waiting
<1>2. Faults = {} /\ (IInv /\ AInv) /\ [Next]_vars => (IInv /\ AInv)'
  <2>1. SUFFICES ASSUME Faults = {}, IInv, AInv, [Next]_vars PROVE AInv'
    BY NextHolds
  <2>2. CASE \E a \in Apps, ec \in Requests : Begin(a, ec)
    BY <2>1, <2>2, BeginAnswered
  <2>3. CASE \E a \in Apps : BeginReceive(a) \/ Wake(a)
    BY <2>1, <2>3, ReceiveAnswered
  <2>4. CASE \E a \in Apps : Request(a)
    BY <2>1, <2>4, RequestIsOnTheWay
  <2>5. CASE \E a \in Apps : Reply(a) \/ Confirmed(a)
    BY <2>1, <2>5, ReplyAnswered
  <2>6. CASE ReadIPC
    BY <2>1, <2>6, ReadIPCAnswered
  <2>7. CASE HandData \/ HandedData
    BY <2>1, <2>7, HandAnswered
  <2>8. CASE \/ Terminate
             \/ IpcTimeout \/ Ping \/ Reconnect \/ Retry
             \/ GetSocket \/ GetData \/ GetEnd \/ CloseSocket \/ RcvEnd
             \/ \E f \in Fds : BrokerAnswers(f) \/ BrokerPublishes(f) \/ LinkBreaks(f)
             \/ UNCHANGED vars
    BY <2>1, <2>8, OthersAnswered
  <2>9. QED
    BY <2>1, <2>2, <2>3, <2>4, <2>5, <2>6, <2>7, <2>8 DEF Next, Stopped
<1>3. IInv /\ AInv => Answered
  BY DEF IInv, AInv, OnTheWay, Answered
<1>4. CASE Faults = {}
  <2>1. Init => IInv /\ AInv
    BY <1>1, <1>4
  <2>2. (IInv /\ AInv) /\ [Next]_vars => (IInv /\ AInv)'
    BY <1>2, <1>4
  <2>3. Spec => []Answered
    BY <1>3, <2>1, <2>2, PTL DEF Spec
  <2>4. QED
    BY <2>3
<1>5. QED
  BY <1>4
=============================================================================
