--------------------------- MODULE OutboundProofs ---------------------------
(***************************************************************************)
(* Proofs about the sending half for every value of the constants: any     *)
(* number of requests, ids, cells, faults and restarts.                    *)
(*                                                                         *)
(* Types, the hash table and the limit of the queue need no hypothesis.    *)
(* What is about the broker and the store needs that ids do not run out    *)
(* (IdsFit: the next id has not wrapped and, with persistence, is not      *)
(* negative as a short).  That nothing is missing from the queue also      *)
(* needs that recovery has room for what it finds (RecoveryFits), since    *)
(* mspInitialiseHconn drops what does not fit.                             *)
(***************************************************************************)
EXTENDS OutboundExchange

-----------------------------------------------------------------------------
(* Lemmas about the queue operations.                                      *)

\* The types of the variables of the queue: the part of TypeOK that Enqueue,
\* Dequeue and EmptyQueue change.
QueueType ==
    /\ heap \in [Addr -> Entry \cup {Freed}]
    /\ inProgressQ \in Seq(Addr)
    /\ ipHash \in [Ids -> Addr \cup {Null}]
    /\ numBytesQueued \in Int

\* What the queue operations preserve.
QueueInv == QueueType /\ HashMatchesList /\ QueueBounded

LEMMA MallocLemma == Malloc # Null => Malloc \in Addr \ Cells(inProgressQ)
BY DEF Malloc, FreeCells

LEMMA IdsLemma == MaxMsgs \in Nat /\ MaxMsgs > 1 /\ 0 \notin Ids /\ Ids \subseteq Nat
BY SizesAssumption DEF MaxMsgs, Ids

\* A message of the queue is charged a natural number of bytes.
LEMMA ChargeLemma ==
    ASSUME NEW e \in Entry
    PROVE  Charge(e.type, e.m) \in Nat
BY MsgsAssumption, SizesAssumption DEF Charge, Entry

LEMMA RefundLemma ==
    ASSUME QueueInv, NEW id \in Ids
    PROVE  Refund(ipHash[id]) \in Nat
<1>1. CASE ipHash[id] = Null
  BY <1>1 DEF Refund
<1>2. CASE ipHash[id] # Null
  <2>1. heap[ipHash[id]].msgId = id /\ heap[ipHash[id]] \in Entry \cup {Freed}
    BY <1>2 DEF QueueInv, QueueType, HashMatchesList
  <2>2. heap[ipHash[id]] \in Entry
    BY <2>1, IdsLemma DEF Freed
  <2> QED BY <1>2, <2>2, ChargeLemma DEF Refund
<1> QED BY <1>1, <1>2

\* mspSendScadaMessage keeps list and hash table together when it queues a
\* message, also when it replaces one of the same id.
LEMMA EnqueueLemma ==
    ASSUME QueueInv, NEW id \in Ids, NEW type, NEW m, NEW status,
           NewEntry(id, type, m, status) \in Entry,
           Fits(type, m), Malloc # Null,
           Enqueue(id, type, m, status)
    PROVE  QueueInv'
<1> DEFINE new == Malloc
           old == ipHash[id]
           e == NewEntry(id, type, m, status)
           u == Unlink(inProgressQ, old)
<1>1. new \in Addr /\ new \notin Cells(inProgressQ) /\ new # Null
  BY MallocLemma
<1>2. old \in Addr \cup {Null} /\ old # new
  BY <1>1 DEF QueueInv, QueueType, HashMatchesList
<1>3. /\ heap' = [a \in Addr |-> IF a = new THEN e
                                 ELSE IF a = old THEN Freed ELSE heap[a]]
      /\ inProgressQ' = Append(u, new)
      /\ ipHash' = [ipHash EXCEPT ![id] = new]
      /\ numBytesQueued' = numBytesQueued + Charge(type, m) - Refund(old)
  BY DEF Enqueue, Link
<1>4. Distinct(inProgressQ) /\ inProgressQ \in Seq(Addr)
  BY DEF QueueInv, QueueType, HashMatchesList, Distinct
<1>5. u \in Seq(Addr) /\ Distinct(u) /\ Cells(u) = Cells(inProgressQ) \ {old}
  BY <1>4, UnlinkLemma
<1>6. /\ inProgressQ' \in Seq(Addr) /\ Distinct(inProgressQ')
      /\ Cells(inProgressQ') = (Cells(inProgressQ) \ {old}) \cup {new}
  BY <1>1, <1>3, <1>5, AppendLemma
<1>7. Charge(type, m) \in Nat /\ Refund(old) \in Nat
  <2>1. Charge(e.type, e.m) \in Nat
    BY ChargeLemma
  <2> QED BY <2>1, RefundLemma DEF NewEntry
<1>8. e.msgId = id
  BY DEF NewEntry
<1> HIDE DEF new, old, e, u
<1>9. QueueType'
  BY <1>2, <1>1, <1>3, <1>6, <1>7 DEF QueueInv, QueueType, e
<1>10. QueueBounded'
  BY <1>3, <1>7, SizesAssumption DEF QueueInv, QueueType, QueueBounded, Fits
<1>11. ASSUME NEW i \in Ids, ipHash'[i] # Null
       PROVE  ipHash'[i] \in Cells(inProgressQ') /\ heap'[ipHash'[i]].msgId = i
  <2>1. CASE i = id
    BY <2>1, <1>1, <1>3, <1>6, <1>8 DEF QueueInv, QueueType
  <2>2. CASE i # id
    <3>1. ipHash'[i] = ipHash[i]
      BY <2>2, <1>3 DEF QueueInv, QueueType
    <3>2. ipHash[i] \in Cells(inProgressQ) /\ heap[ipHash[i]].msgId = i
      BY <3>1, <1>11 DEF QueueInv, HashMatchesList
    <3>3. ipHash[i] # old
      <4>1. old # Null => heap[old].msgId = id
        BY DEF QueueInv, HashMatchesList, old
      <4> QED BY <4>1, <3>1, <3>2, <1>11, <2>2
    <3>4. ipHash[i] \in Addr /\ ipHash[i] # new
      BY <3>1, <3>2, <1>1, <1>11 DEF QueueInv, QueueType
    <3> QED BY <3>1, <3>2, <3>3, <3>4, <1>3, <1>6
  <2> QED BY <2>1, <2>2
<1>12. ASSUME NEW a \in Cells(inProgressQ')
       PROVE  heap'[a].msgId \in Ids /\ ipHash'[heap'[a].msgId] = a
  <2>1. CASE a = new
    BY <2>1, <1>1, <1>3, <1>8 DEF QueueInv, QueueType
  <2>2. CASE a # new
    <3>1. a \in Cells(inProgressQ) /\ a # old
      BY <2>2, <1>6
    <3>2. a \in Addr
      BY <3>1, <1>4 DEF Cells
    <3>3. heap'[a] = heap[a]
      BY <3>1, <3>2, <2>2, <1>3
    <3>4. heap[a].msgId \in Ids /\ ipHash[heap[a].msgId] = a
      BY <3>1 DEF QueueInv, HashMatchesList
    <3>5. heap[a].msgId # id
      BY <3>1, <3>4 DEF old
    <3> QED BY <3>3, <3>4, <3>5, <1>3 DEF QueueInv, QueueType
  <2> QED BY <2>1, <2>2
<1> QED BY <1>6, <1>9, <1>10, <1>11, <1>12 DEF QueueInv, HashMatchesList, Distinct

\* So does the arrival of an acknowledgement.
LEMMA DequeueLemma ==
    ASSUME QueueInv, NEW id \in Ids, Dequeue(id)
    PROVE  QueueInv'
<1> DEFINE old == ipHash[id]
<1>1. /\ heap' = [a \in Addr |-> IF a = old THEN Freed ELSE heap[a]]
      /\ inProgressQ' = Unlink(inProgressQ, old)
      /\ ipHash' = [ipHash EXCEPT ![id] = Null]
      /\ numBytesQueued' = numBytesQueued - Refund(old)
  BY DEF Dequeue
<1>2. Distinct(inProgressQ) /\ inProgressQ \in Seq(Addr)
  BY DEF QueueInv, QueueType, HashMatchesList, Distinct
<1>3. /\ inProgressQ' \in Seq(Addr) /\ Distinct(inProgressQ')
      /\ Cells(inProgressQ') = Cells(inProgressQ) \ {old}
  BY <1>1, <1>2, UnlinkLemma
<1>4. Refund(old) \in Nat
  BY RefundLemma
<1> HIDE DEF old
<1>5. QueueType'
  BY <1>1, <1>3, <1>4 DEF QueueInv, QueueType
<1>6. QueueBounded'
  BY <1>1, <1>4, SizesAssumption DEF QueueInv, QueueType, QueueBounded
<1>7. ASSUME NEW i \in Ids, ipHash'[i] # Null
      PROVE  ipHash'[i] \in Cells(inProgressQ') /\ heap'[ipHash'[i]].msgId = i
  <2>1. i # id /\ ipHash'[i] = ipHash[i]
    BY <1>1, <1>7 DEF QueueInv, QueueType
  <2>2. ipHash[i] \in Cells(inProgressQ) /\ heap[ipHash[i]].msgId = i
    BY <2>1, <1>7 DEF QueueInv, HashMatchesList
  <2>3. ipHash[i] # old
    <3>1. old # Null => heap[old].msgId = id
      BY DEF QueueInv, HashMatchesList, old
    <3> QED BY <3>1, <2>1, <2>2, <1>7
  <2>4. ipHash[i] \in Addr
    BY <2>1, <1>7 DEF QueueInv, QueueType
  <2> QED BY <2>1, <2>2, <2>3, <2>4, <1>1, <1>3
<1>8. ASSUME NEW a \in Cells(inProgressQ')
      PROVE  heap'[a].msgId \in Ids /\ ipHash'[heap'[a].msgId] = a
  <2>1. a \in Cells(inProgressQ) /\ a # old
    BY <1>3
  <2>2. a \in Addr
    BY <2>1, <1>2 DEF Cells
  <2>3. heap[a].msgId \in Ids /\ ipHash[heap[a].msgId] = a
    BY <2>1 DEF QueueInv, HashMatchesList
  <2>4. heap[a].msgId # id
    BY <2>1, <2>3 DEF old
  <2> QED BY <2>1, <2>2, <2>3, <2>4, <1>1 DEF QueueInv, QueueType
<1> QED BY <1>3, <1>5, <1>6, <1>7, <1>8 DEF QueueInv, HashMatchesList, Distinct

\* And the end of the connection handle.
LEMMA EmptyQueueLemma ==
    ASSUME EmptyQueue
    PROVE  QueueInv'
<1>1. QueueType'
  BY CellsAssumption DEF EmptyQueue, QueueType
<1>2. Cells(inProgressQ') = {} /\ Len(inProgressQ') = 0
  BY DEF EmptyQueue, Cells
<1> QED BY <1>1, <1>2, SizesAssumption
        DEF EmptyQueue, QueueInv, HashMatchesList, QueueBounded

\* A step that leaves the queue alone leaves its invariant alone.
LEMMA SameQueueLemma ==
    ASSUME QueueInv, UNCHANGED queueVars
    PROVE  QueueInv'
BY DEF QueueInv, QueueType, HashMatchesList, QueueBounded, queueVars, Cells

-----------------------------------------------------------------------------
(* The inductive invariant.                                                *)

\* The three together: HashMatchesList needs that ids in flight are valid
\* (TypeOK), and the type of the queue needs that no hashed pointer dangles
\* (HashMatchesList).
IInv == TypeOK /\ HashMatchesList /\ QueueBounded

LEMMA IInvQueue == IInv => QueueInv
BY DEF IInv, TypeOK, QueueInv, QueueType

LEMMA SetNextMsgIdLemma == \A id \in 0..MaxMsgs : SetNextMsgId(id) \in Ids
BY IdsLemma DEF SetNextMsgId, Ids

LEMMA KeysLemma ==
    /\ \A id \in Ids : KeyOfShort(id) \in Keys /\ KeyOfUShort(id) \in Keys
    /\ \A k \in Keys : IdOfKey(k) \in Ids
BY IdsLemma, SizesAssumption DEF KeyOfShort, KeyOfUShort, IdOfKey, Keys, Ids, MaxMsgs

\* A new entry of the queue has the type of one.
LEMMA EntryLemma ==
    /\ \A id \in Ids, m \in Msgs, st \in {"IN_PROGRESS", "RETRYING"} :
         NewEntry(id, "REQUEST", m, st) \in Entry
    /\ \A id \in Ids, st \in {"IN_PROGRESS", "RETRYING"} :
         NewEntry(id, "PUBREL", NoMsg, st) \in Entry
BY DEF NewEntry, Entry

LEMMA CloseSocketLemma ==
    ASSUME CloseSocket
    PROVE  /\ sockOpen' \in BOOLEAN
           /\ toBroker' \in Seq(Wire) /\ toClient' \in Seq(Answer)
<1>1. <<>> \in Seq(Wire) /\ <<>> \in Seq(Answer)
  OBVIOUS
<1> QED BY <1>1 DEF CloseSocket

\* The variables of the network and the connection keep their types when
\* mspSendScadaMessage writes to the socket.
LEMMA TransmitLemma ==
    ASSUME IInv, NEW w \in Wire, NEW in \in Seq(Answer), Transmit(w, in)
    PROVE  /\ connState' \in {"CONNECTING", "CONNECTED", "DISCONNECTED",
                              "CONNECTION_BROKEN"}
           /\ sockOpen' \in BOOLEAN /\ connRetries' = connRetries
           /\ toBroker' \in Seq(Wire) /\ toClient' \in Seq(Answer)
           /\ faults' \in Nat
<1>1. /\ connState \in {"CONNECTING", "CONNECTED", "DISCONNECTED", "CONNECTION_BROKEN"}
      /\ sockOpen \in BOOLEAN /\ faults \in Nat
      /\ toBroker \in Seq(Wire) /\ toClient \in Seq(Answer)
  BY DEF IInv, TypeOK
<1>2. CASE /\ toBroker' = Append(toBroker, w) /\ toClient' = in
           /\ UNCHANGED <<connVars, faults>>
  <2>1. Append(toBroker, w) \in Seq(Wire)
    BY <1>1
  <2> QED BY <1>1, <1>2, <2>1 DEF connVars
<1>3. CASE /\ Fault /\ connState' = "DISCONNECTED" /\ CloseSocket
           /\ UNCHANGED connRetries
  <2>1. /\ sockOpen' \in BOOLEAN
        /\ toBroker' \in Seq(Wire) /\ toClient' \in Seq(Answer)
    BY <1>3, CloseSocketLemma
  <2>2. faults' \in Nat
    BY <1>1, <1>3 DEF Fault
  <2> QED BY <1>1, <1>3, <2>1, <2>2
<1>4. CASE UNCHANGED <<connVars, netVars, faults>>
  BY <1>1, <1>4 DEF connVars, netVars
<1> QED BY <1>2, <1>3, <1>4 DEF Transmit

LEMMA OpenSocketLemma ==
    ASSUME IInv, NEW st \in {"CONNECTING", "CONNECTED", "DISCONNECTED",
                             "CONNECTION_BROKEN"},
           OpenSocket("CONNECTING", st)
    PROVE  /\ connState' \in {"CONNECTING", "CONNECTED", "DISCONNECTED",
                              "CONNECTION_BROKEN"}
           /\ sockOpen' \in BOOLEAN
           /\ toBroker' \in Seq(Wire) /\ toClient' \in Seq(Answer)
           /\ faults' \in Nat
<1>1. <<ConnectMsg>> \in Seq(Wire) /\ <<>> \in Seq(Wire) /\ <<>> \in Seq(Answer)
  <2>1. ConnectMsg \in Wire
    BY DEF Wire
  <2> QED BY <2>1
<1>2. faults \in Nat
  BY DEF IInv, TypeOK
<1>3. CASE /\ sockOpen' = TRUE /\ toBroker' = <<ConnectMsg>> /\ toClient' = <<>>
           /\ connState' = "CONNECTING" /\ UNCHANGED faults
  BY <1>1, <1>2, <1>3
<1>4. CASE Fault /\ CloseSocket /\ connState' \in {st, "DISCONNECTED"}
  <2>1. faults' \in Nat
    BY <1>2, <1>4 DEF Fault
  <2> QED BY <1>4, <2>1, CloseSocketLemma
<1> QED BY <1>3, <1>4 DEF OpenSocket

\* The part of TypeOK that is not about the queue.
RestType ==
    /\ pc \in {"off", "load", "idle", "retry"}
    /\ connState \in {"CONNECTING", "CONNECTED", "DISCONNECTED", "CONNECTION_BROKEN"}
    /\ sockOpen \in BOOLEAN
    /\ connRetries \in -1..(RetryCount + 1)
    /\ nextMsgId \in 0..MaxMsgs
    /\ cursor \in Nat
    /\ toLoad \subseteq Stored
    /\ sentStore \subseteq Stored
    /\ toBroker \in Seq(Wire)
    /\ toClient \in Seq(Answer)
    /\ brokerIds \subseteq Ids
    /\ got \in [Msgs -> 0..2]
    /\ reply \in [Msgs -> Rcs]
    /\ handle \in [Msgs -> 0..MaxMsgs]
    /\ options \in Options
    /\ faults \in Nat /\ stops \in Nat
    /\ pc \in {"idle", "retry"} => nextMsgId \in Ids
    /\ pc = "retry" => cursor \in 1..Len(inProgressQ)

LEMMA SplitLemma == IInv <=> QueueInv /\ RestType
BY DEF IInv, TypeOK, QueueInv, QueueType, RestType

LEMMA ForgetLemma == RestType => Forget \in [Msgs -> Rcs]
BY DEF RestType, Forget, Rcs

LEMMA ConnectStep == ASSUME IInv, Connect PROVE IInv'
<1> USE SplitLemma
<1>1. QueueInv'
  BY SameQueueLemma DEF Connect
<1>2. RestType'
  BY ForgetLemma, SizesAssumption
     DEF Connect, RestType, brokerVars, netVars, queueVars
<1> QED BY <1>1, <1>2, PTL

LEMMA LoadSentStep == ASSUME IInv, LoadSent PROVE IInv'
<1> USE SplitLemma
<1>1. PICK s \in toLoad :
        /\ toLoad' = toLoad \ {s}
        /\ nextMsgId' = IF s.key > nextMsgId THEN IdOfKey(s.key) ELSE nextMsgId
        /\ IF Fits(s.type, s.m) /\ Malloc # Null
             THEN Enqueue(IdOfKey(s.key), s.type, s.m, "RETRYING")
             ELSE UNCHANGED queueVars
  BY DEF LoadSent
<1>2. s \in Stored
  BY DEF RestType
<1>3. s.key \in Keys /\ IdOfKey(s.key) \in Ids
  BY <1>2, KeysLemma DEF Stored
<1>4. NewEntry(IdOfKey(s.key), s.type, s.m, "RETRYING") \in Entry
  BY <1>2, <1>3, EntryLemma DEF Stored
<1>5. QueueInv'
  BY <1>1, <1>3, <1>4, EnqueueLemma, SameQueueLemma
<1>6. nextMsgId' \in 0..MaxMsgs
  BY <1>1, <1>3, IdsLemma DEF RestType, Ids
<1>7. RestType'
  BY <1>1, <1>6 DEF LoadSent, RestType, connVars, netVars, brokerVars, appVars
<1> QED BY <1>5, <1>7, PTL

LEMMA EstablishStep == ASSUME IInv, Establish PROVE IInv'
<1> USE SplitLemma
<1>1. QueueInv'
  BY SameQueueLemma DEF Establish
<1>2. nextMsgId' \in Ids /\ Ids \subseteq 0..MaxMsgs
  BY SetNextMsgIdLemma, IdsLemma DEF Establish, RestType, Ids
<1>3. /\ connState' \in {"CONNECTING", "CONNECTED", "DISCONNECTED", "CONNECTION_BROKEN"}
      /\ sockOpen' \in BOOLEAN
      /\ toBroker' \in Seq(Wire) /\ toClient' \in Seq(Answer)
      /\ faults' \in Nat
  BY OpenSocketLemma DEF Establish
<1>4. RestType'
  BY <1>2, <1>3 DEF Establish, RestType, brokerVars, appVars
<1> QED BY <1>1, <1>4, PTL

\* What disconnecting and dying have in common.
LEMMA DropHandleLemma ==
    ASSUME IInv, DropHandle, sentStore' \subseteq Stored,
           reply' \in [Msgs -> Rcs], stops' \in Nat
    PROVE  IInv'
<1> USE SplitLemma
<1>1. QueueInv'
  BY EmptyQueueLemma DEF DropHandle
<1>2. RestType'
  BY CloseSocketLemma, IdsLemma, SizesAssumption DEF DropHandle, RestType, brokerVars
<1> QED BY <1>1, <1>2, PTL

LEMMA DisconnectStep == ASSUME IInv, Disconnect PROVE IInv'
<1> USE SplitLemma
<1>1. sentStore' \subseteq Stored
  BY DEF Disconnect, RestType
<1>2. reply' \in [Msgs -> Rcs]
  BY ForgetLemma DEF Disconnect, RestType
<1>3. stops' \in Nat
  BY DEF Disconnect, RestType
<1> QED BY <1>1, <1>2, <1>3, DropHandleLemma DEF Disconnect

LEMMA CrashStep == ASSUME IInv, Crash PROVE IInv'
<1> USE SplitLemma
<1>1. sentStore' \subseteq Stored
  BY DEF Crash, RestType
<1>2. reply' \in [Msgs -> Rcs]
  BY ForgetLemma DEF Crash, RestType
<1>3. stops' \in Nat
  BY DEF Crash, RestType
<1> QED BY <1>1, <1>2, <1>3, DropHandleLemma DEF Crash

LEMMA StorePutLemma ==
    ASSUME RestType, NEW id \in Ids,
           NEW type, NEW m, [key |-> KeyOfShort(id), type |-> type, m |-> m] \in Stored
    PROVE  StorePut(KeyOfShort(id), type, m) \subseteq Stored
BY DEF RestType, StorePut

LEMMA ReplyLemma ==
    ASSUME RestType, NEW m \in Msgs, NEW rc \in Rcs, NEW id \in 0..MaxMsgs,
           Reply(m, rc, id)
    PROVE  reply' \in [Msgs -> Rcs] /\ handle' \in [Msgs -> 0..MaxMsgs]
BY DEF RestType, Reply

LEMMA RequestStep ==
    ASSUME IInv, NEW m \in Msgs, Request(m)
    PROVE  IInv'
<1> USE SplitLemma
<1>1. /\ pc = "idle" /\ nextMsgId \in Ids /\ SetNextMsgId(nextMsgId) \in Ids
      /\ Ids \subseteq 0..MaxMsgs /\ 0 \in 0..MaxMsgs
      /\ UNCHANGED <<loopVars, brokerVars, options, stops>>
  BY SetNextMsgIdLemma, IdsLemma DEF Request, RestType, Ids
<1>2. CASE RequestRejected(m)
  <2>1. QueueInv'
    BY <1>2, SameQueueLemma DEF RequestRejected
  <2>2. reply' \in [Msgs -> Rcs] /\ handle' \in [Msgs -> 0..MaxMsgs]
    <3>1. PICK rc \in Rcs, id \in 0..MaxMsgs : Reply(m, rc, id)
      BY <1>1, <1>2 DEF RequestRejected, Rcs
    <3> QED BY <1>1, <3>1, ReplyLemma
  <2>3. nextMsgId' \in Ids
    BY <1>1, <1>2 DEF RequestRejected
  <2>4. RestType'
    BY <1>1, <1>2, <2>2, <2>3
       DEF RequestRejected, RestType, loopVars, connVars, netVars, brokerVars
  <2> QED BY <2>1, <2>4, PTL
<1>3. CASE RequestQos0(m)
  <2>1. QueueInv'
    BY <1>3, SameQueueLemma DEF RequestQos0
  <2>2. Qos0Msg(m) \in Wire /\ toClient \in Seq(Answer)
    BY DEF Wire, RestType
  <2>3. /\ connState' \in {"CONNECTING", "CONNECTED", "DISCONNECTED", "CONNECTION_BROKEN"}
        /\ sockOpen' \in BOOLEAN /\ connRetries' = connRetries
        /\ toBroker' \in Seq(Wire) /\ toClient' \in Seq(Answer)
        /\ faults' \in Nat
    BY <1>3, <2>2, TransmitLemma DEF RequestQos0
  <2>4. reply' \in [Msgs -> Rcs] /\ handle' \in [Msgs -> 0..MaxMsgs]
    BY <1>1, <1>3, ReplyLemma DEF RequestQos0, Rcs
  <2>5. nextMsgId' \in Ids
    BY <1>1, <1>3 DEF RequestQos0
  <2>6. RestType'
    BY <1>1, <1>3, <2>3, <2>4, <2>5 DEF RequestQos0, RestType, loopVars, brokerVars
  <2> QED BY <2>1, <2>6, PTL
<1>4. CASE RequestQueued(m)
  <2> DEFINE w == [type |-> "REQUEST", id |-> nextMsgId, m |-> m, dup |-> FALSE]
             r == [key |-> KeyOfShort(nextMsgId), type |-> "REQUEST", m |-> m]
  <2>1. NewEntry(nextMsgId, "REQUEST", m, "IN_PROGRESS") \in Entry
    BY <1>1, EntryLemma
  <2>2. QueueInv'
    BY <1>1, <1>4, <2>1, EnqueueLemma DEF RequestQueued
  <2>3. w \in Wire /\ toClient \in Seq(Answer)
    BY <1>1 DEF Wire, RestType
  <2>4. /\ connState' \in {"CONNECTING", "CONNECTED", "DISCONNECTED", "CONNECTION_BROKEN"}
        /\ sockOpen' \in BOOLEAN /\ connRetries' = connRetries
        /\ toBroker' \in Seq(Wire) /\ toClient' \in Seq(Answer)
        /\ faults' \in Nat
    BY <1>4, <2>3, TransmitLemma DEF RequestQueued
  <2>5. r \in Stored
    BY <1>1, KeysLemma DEF Stored
  <2>6. sentStore' \subseteq Stored
    BY <1>1, <1>4, <2>5, StorePutLemma DEF RequestQueued, RestType
  <2>7. reply' \in [Msgs -> Rcs] /\ handle' \in [Msgs -> 0..MaxMsgs]
    BY <1>1, <1>4, ReplyLemma DEF RequestQueued, Rcs
  <2>8. nextMsgId' \in Ids
    BY <1>1, <1>4 DEF RequestQueued
  <2>9. RestType'
    BY <1>1, <1>4, <2>4, <2>6, <2>7, <2>8 DEF RestType, loopVars, brokerVars
  <2> QED BY <2>2, <2>9, PTL
<1> QED BY <1>2, <1>3, <1>4 DEF Request

\* The answer at the head of the channel, and the ones behind it.
LEMMA ReceiveLemma ==
    ASSUME RestType, NEW type, Receive(type)
    PROVE  /\ Head(toClient) \in Answer /\ Tail(toClient) \in Seq(Answer)
           /\ type \in {"PUBREC", "ACK"} => Head(toClient).id \in Ids
<1>1. toClient \in Seq(Answer) /\ toClient # <<>> /\ Head(toClient).type = type
  BY DEF RestType, Receive
<1>2. Head(toClient) \in Answer /\ Tail(toClient) \in Seq(Answer)
  BY <1>1
<1> QED BY <1>1, <1>2 DEF Answer

LEMMA ReceiveConnackStep == ASSUME IInv, ReceiveConnack PROVE IInv'
<1> USE SplitLemma
<1>1. QueueInv'
  BY SameQueueLemma DEF ReceiveConnack
<1>2. toClient' \in Seq(Answer)
  BY ReceiveLemma DEF ReceiveConnack
<1>3. connRetries' \in -1..(RetryCount + 1)
  <2>1. connRetries \in -1..(RetryCount + 1)
    BY DEF RestType
  <2>2. connRetries' = 0 \/ connRetries' = connRetries
    BY DEF ReceiveConnack
  <2>3. RetryCount \in Nat
    BY SizesAssumption
  <2> QED BY <2>1, <2>2, <2>3
<1>4. RestType'
  BY <1>2, <1>3 DEF ReceiveConnack, RestType, loopVars, brokerVars, appVars, queueVars
<1> QED BY <1>1, <1>4, PTL

LEMMA ReceiveRefusedStep == ASSUME IInv, ReceiveRefused PROVE IInv'
<1> USE SplitLemma
<1>1. QueueInv'
  BY SameQueueLemma DEF ReceiveRefused
<1>2. connRetries' \in -1..(RetryCount + 1)
  BY SizesAssumption DEF ReceiveRefused
<1>3. RestType'
  BY <1>2, CloseSocketLemma
     DEF ReceiveRefused, Receive, RestType, loopVars, brokerVars, appVars, queueVars
<1> QED BY <1>1, <1>3, PTL

LEMMA ReceivePubrecStep == ASSUME IInv, ReceivePubrec PROVE IInv'
<1> USE SplitLemma
<1> DEFINE id == Head(toClient).id
           w == [type |-> "PUBREL", id |-> id, m |-> NoMsg, dup |-> FALSE]
           r == [key |-> KeyOfShort(id), type |-> "PUBREL", m |-> NoMsg]
           in == Tail(toClient)
<1>1. id \in Ids /\ in \in Seq(Answer)
  BY ReceiveLemma DEF ReceivePubrec
<1>2. pc = "idle" /\ UNCHANGED <<loopVars, nextMsgId, brokerVars, appVars, stops>>
  BY DEF ReceivePubrec, Receive
<1> HIDE DEF id, in
<1>3. CASE toClient' = in /\ UNCHANGED <<queueVars, sentStore, connVars, toBroker, faults>>
  <2>1. QueueInv'
    BY <1>3, SameQueueLemma
  <2>2. RestType'
    BY <1>1, <1>2, <1>3
       DEF RestType, loopVars, connVars, brokerVars, appVars, queueVars
  <2> QED BY <2>1, <2>2, PTL
<1>4. CASE /\ Fits("PUBREL", NoMsg) /\ Malloc # Null
           /\ Enqueue(id, "PUBREL", NoMsg, "IN_PROGRESS")
           /\ sentStore' = IF Persist THEN StorePut(KeyOfShort(id), "PUBREL", NoMsg)
                                      ELSE sentStore
           /\ Transmit(w, in)
  <2>1. NewEntry(id, "PUBREL", NoMsg, "IN_PROGRESS") \in Entry
    BY <1>1, EntryLemma
  <2>2. QueueInv'
    BY <1>1, <1>4, <2>1, EnqueueLemma
  <2>3. w \in Wire
    BY <1>1 DEF Wire
  <2>4. /\ connState' \in {"CONNECTING", "CONNECTED", "DISCONNECTED", "CONNECTION_BROKEN"}
        /\ sockOpen' \in BOOLEAN /\ connRetries' = connRetries
        /\ toBroker' \in Seq(Wire) /\ toClient' \in Seq(Answer)
        /\ faults' \in Nat
    BY <1>1, <1>4, <2>3, TransmitLemma
  <2>5. r \in Stored
    BY <1>1, KeysLemma DEF Stored
  <2>6. sentStore' \subseteq Stored
    BY <1>1, <1>4, <2>5, StorePutLemma DEF RestType
  <2>7. RestType'
    BY <1>2, <2>4, <2>6 DEF RestType, loopVars, brokerVars, appVars
  <2> QED BY <2>2, <2>7, PTL
<1> QED BY <1>3, <1>4 DEF ReceivePubrec, id, in

LEMMA ReceiveAckStep == ASSUME IInv, ReceiveAck PROVE IInv'
<1> USE SplitLemma
<1> DEFINE id == Head(toClient).id
<1>1. id \in Ids /\ toClient' \in Seq(Answer)
  BY ReceiveLemma DEF ReceiveAck
<1>2. Dequeue(id)
  BY DEF ReceiveAck
<1>3. QueueInv'
  BY <1>1, <1>2, DequeueLemma
<1>4. sentStore' \subseteq Stored
  BY DEF ReceiveAck, StoreDel, RestType
<1>5. RestType'
  BY <1>1, <1>4 DEF ReceiveAck, Receive, RestType, loopVars, connVars, brokerVars, appVars
<1> QED BY <1>3, <1>5, PTL

LEMMA SocketErrorStep == ASSUME IInv, SocketError PROVE IInv'
<1> USE SplitLemma
<1>1. QueueInv'
  BY SameQueueLemma DEF SocketError
<1>2. faults' \in Nat
  BY DEF SocketError, Fault, RestType
<1>3. RestType'
  BY <1>2, CloseSocketLemma DEF SocketError, RestType, loopVars, brokerVars, appVars
<1> QED BY <1>1, <1>3, PTL

LEMMA CheckConnectionStep == ASSUME IInv, CheckConnection PROVE IInv'
<1> USE SplitLemma
<1>1. /\ pc = "idle"
      /\ UNCHANGED <<loopVars, nextMsgId, queueVars, sentStore, brokerVars, appVars, stops>>
  BY DEF CheckConnection
<1>2. QueueInv'
  BY <1>1, SameQueueLemma
<1>3. /\ connState' \in {"CONNECTING", "CONNECTED", "DISCONNECTED", "CONNECTION_BROKEN"}
      /\ connRetries' \in -1..(RetryCount + 1)
      /\ sockOpen' \in BOOLEAN
      /\ toBroker' \in Seq(Wire) /\ toClient' \in Seq(Answer)
      /\ faults' \in Nat
  <2> DEFINE tried == /\ connRetries + 1 <= RetryCount /\ connRetries >= 0
                      /\ connRetries' = connRetries + 1
  <2>1. faults \in Nat /\ faults + 1 \in Nat
    BY DEF RestType
  <2>2. tried => connRetries' \in -1..(RetryCount + 1)
    BY SizesAssumption DEF RestType
  <2>3. connState \in {"CONNECTING", "CONNECTED", "DISCONNECTED", "CONNECTION_BROKEN"}
    BY DEF RestType
  <2> HIDE DEF tried
  <2>4. CASE /\ tried
             /\ sockOpen /\ faults' = faults + 1
             /\ connState' = "CONNECTING" /\ UNCHANGED sockOpen
             /\ toBroker' = <<ConnectMsg>> /\ toClient' = <<>>
    <3>1. <<ConnectMsg>> \in Seq(Wire) /\ <<>> \in Seq(Answer)
      BY DEF Wire
    <3> QED BY <2>4, <2>1, <2>2, <3>1 DEF RestType
  <2>5. CASE /\ tried
             /\ sockOpen /\ faults' = faults + 1
             /\ connState' \in {connState, "DISCONNECTED"} /\ CloseSocket
    BY <2>5, <2>1, <2>2, <2>3, CloseSocketLemma
  <2>6. CASE /\ tried
             /\ OpenSocket("CONNECTING", connState)
    BY <2>6, <2>2, <2>3, OpenSocketLemma
  <2>7. CASE /\ connState' = "CONNECTION_BROKEN"
             /\ faults' = IF sockOpen THEN faults + 1 ELSE faults
             /\ UNCHANGED <<sockOpen, connRetries, netVars>>
    BY <2>7 DEF RestType, netVars
  <2> QED BY <2>4, <2>5, <2>6, <2>7 DEF CheckConnection, tried
<1>4. RestType'
  BY <1>1, <1>3 DEF RestType, loopVars, brokerVars, appVars
<1> QED BY <1>2, <1>4, PTL

LEMMA StartRetryStep == ASSUME IInv, StartRetry PROVE IInv'
<1> USE SplitLemma
<1>1. QueueInv'
  BY SameQueueLemma DEF StartRetry
<1>2. inProgressQ \in Seq(Addr) /\ inProgressQ # <<>>
  BY DEF StartRetry, RetryDue, QueueInv, QueueType
<1>3. 1 \in 1..Len(inProgressQ)
  BY <1>2
<1>4. RestType'
  BY <1>3 DEF StartRetry, RetryDue, RestType, connVars, queueVars, netVars, brokerVars, appVars
<1> QED BY <1>1, <1>4, PTL

\* A queued message is sent again as a message of its own type.
LEMMA WireLemma == ASSUME NEW e \in Entry PROVE WireOf(e) \in Wire
<1>1. CASE e.type = "REQUEST"
  <2>1. e.msgId \in Ids /\ e.m \in Msgs /\ e.dup \in BOOLEAN
    BY <1>1 DEF Entry
  <2> QED BY <1>1, <2>1 DEF WireOf, Wire
<1>2. CASE e.type = "PUBREL"
  <2>1. e.msgId \in Ids /\ e.m = NoMsg /\ e.dup \in BOOLEAN
    BY <1>2, MsgsAssumption DEF Entry
  <2> QED BY <1>2, <2>1 DEF WireOf, Wire
<1> QED BY <1>1, <1>2 DEF Entry

\* Marking an entry, or setting its DUP flag, moves no pointer.
LEMMA RetryEntryStep == ASSUME IInv, RetryEntry PROVE IInv'
<1> USE SplitLemma
<1> DEFINE a == inProgressQ[cursor]
           e == heap[a]
<1>1. pc = "retry" /\ cursor \in 1..Len(inProgressQ) /\ nextMsgId \in Ids
  BY DEF RetryEntry, RestType
<1>2. inProgressQ \in Seq(Addr) /\ a \in Addr /\ a \in Cells(inProgressQ)
  BY <1>1 DEF QueueInv, QueueType, Cells
<1>3. e \in Entry
  <2>1. e.msgId \in Ids
    BY <1>2 DEF QueueInv, HashMatchesList
  <2> QED BY <1>2, <2>1, IdsLemma DEF QueueInv, QueueType, Freed
<1>4. /\ [e EXCEPT !.dup = TRUE] \in Entry
      /\ [e EXCEPT !.dup = TRUE].msgId = e.msgId
      /\ [e EXCEPT !.status = "RETRYING"] \in Entry
      /\ [e EXCEPT !.status = "RETRYING"].msgId = e.msgId
  BY <1>3 DEF Entry
<1>5. WireOf([e EXCEPT !.dup = TRUE]) \in Wire
  BY <1>4, WireLemma
<1>6. PICK f \in Entry : f.msgId = e.msgId /\ heap' = [heap EXCEPT ![a] = f]
  BY <1>4 DEF RetryEntry
<1>7. UNCHANGED <<toLoad, nextMsgId, inProgressQ, ipHash, numBytesQueued,
                  sentStore, brokerVars, appVars, stops>>
  BY DEF RetryEntry
<1>8. /\ connState' \in {"CONNECTING", "CONNECTED", "DISCONNECTED", "CONNECTION_BROKEN"}
      /\ sockOpen' \in BOOLEAN /\ connRetries' = connRetries
      /\ toBroker' \in Seq(Wire) /\ toClient' \in Seq(Answer)
      /\ faults' \in Nat
  <2>1. CASE Transmit(WireOf([e EXCEPT !.dup = TRUE]), toClient)
    <3>1. toClient \in Seq(Answer)
      BY DEF RestType
    <3> QED BY <2>1, <3>1, <1>5, TransmitLemma
  <2>2. CASE UNCHANGED <<connVars, netVars, faults>>
    BY <2>2 DEF RestType, connVars, netVars
  <2> QED BY <2>1, <2>2 DEF RetryEntry
<1>9. /\ pc' \in {"idle", "retry"}
      /\ pc' = "retry" => cursor' \in 1..Len(inProgressQ)
      /\ cursor' \in Nat
  BY <1>1, <1>2 DEF RetryEntry
<1> HIDE DEF a, e
<1>10. \A c \in Addr : heap'[c] = IF c = a THEN f ELSE heap[c]
  BY <1>2, <1>6 DEF QueueInv, QueueType
<1>11. QueueType'
  BY <1>2, <1>6, <1>7 DEF QueueInv, QueueType
<1>12. ASSUME NEW c \in Addr PROVE heap'[c].msgId = heap[c].msgId
  BY <1>6, <1>10 DEF e
<1>13. Cells(inProgressQ') = Cells(inProgressQ) /\ Cells(inProgressQ) \subseteq Addr
  BY <1>2, <1>7 DEF Cells
<1>14. HashMatchesList'
  <2>1. \A i, j \in 1..Len(inProgressQ') : inProgressQ'[i] = inProgressQ'[j] => i = j
    BY <1>7 DEF QueueInv, HashMatchesList
  <2>2. ASSUME NEW id \in Ids, ipHash'[id] # Null
        PROVE  ipHash'[id] \in Cells(inProgressQ') /\ heap'[ipHash'[id]].msgId = id
    BY <1>7, <1>12, <1>13, <2>2 DEF QueueInv, HashMatchesList
  <2>3. ASSUME NEW c \in Cells(inProgressQ')
        PROVE  heap'[c].msgId \in Ids /\ ipHash'[heap'[c].msgId] = c
    BY <1>7, <1>12, <1>13 DEF QueueInv, HashMatchesList
  <2> QED BY <2>1, <2>2, <2>3 DEF HashMatchesList
<1>15. QueueInv'
  BY <1>7, <1>11, <1>14 DEF QueueInv, QueueBounded
<1>16. RestType'
  BY <1>1, <1>7, <1>8, <1>9 DEF RestType, brokerVars, appVars
<1> QED BY <1>15, <1>16, PTL

\* What the broker takes from the head of the channel.
LEMMA BrokerTakesLemma ==
    ASSUME IInv, NEW type \in {"CONNECT", "QOS0", "REQUEST", "PUBREL"},
           BrokerTakes(type)
    PROVE  /\ QueueInv'
           /\ toBroker' \in Seq(Wire)
           /\ type = "QOS0" => Head(toBroker).m \in Msgs
           /\ type = "REQUEST" => Head(toBroker).id \in Ids /\ Head(toBroker).m \in Msgs
           /\ type = "PUBREL" => Head(toBroker).id \in Ids
<1>1. /\ toBroker \in Seq(Wire) /\ toBroker # <<>> /\ Head(toBroker).type = type
      /\ toBroker' = Tail(toBroker) /\ UNCHANGED queueVars
  BY SplitLemma DEF BrokerTakes, RestType
<1>2. Head(toBroker) \in Wire /\ toBroker' \in Seq(Wire)
  BY <1>1
<1>3. QueueInv'
  BY <1>1, SplitLemma, SameQueueLemma
<1> DEFINE w == Head(toBroker)
<1>4. w \in Wire /\ w.type = type
  BY <1>1, <1>2
<1> HIDE DEF w
<1>5. /\ type = "QOS0" => w.m \in Msgs
      /\ type = "REQUEST" => w.id \in Ids /\ w.m \in Msgs
      /\ type = "PUBREL" => w.id \in Ids
  BY <1>4 DEF Wire, ConnectMsg, Qos0Msg
<1> QED BY <1>2, <1>3, <1>5 DEF w

\* The rest of the types, once the broker's own variables are typed.
LEMMA BrokerRestLemma ==
    ASSUME IInv, NEW type \in {"CONNECT", "QOS0", "REQUEST", "PUBREL"},
           BrokerTakes(type),
           brokerIds' \subseteq Ids, got' \in [Msgs -> 0..2], toClient' \in Seq(Answer)
    PROVE  IInv'
<1>1. QueueInv' /\ toBroker' \in Seq(Wire)
  BY BrokerTakesLemma
<1>2. RestType'
  BY <1>1, SplitLemma DEF BrokerTakes, RestType, loopVars, connVars, queueVars, appVars
<1> QED BY <1>1, <1>2, SplitLemma, PTL

LEMMA AnswersLemma ==
    ASSUME RestType, NEW type \in {"CONNACK", "REFUSED", "PUBREC", "ACK"},
           NEW id, IF type \in {"CONNACK", "REFUSED"} THEN id = 0 ELSE id \in Ids, Answers(type, id)
    PROVE  toClient' \in Seq(Answer)
<1>1. [type |-> type, id |-> id] \in Answer
  BY DEF Answer
<1>2. toClient \in Seq(Answer)
  BY DEF RestType
<1> QED BY <1>1, <1>2 DEF Answers

LEMMA ActLemma ==
    ASSUME RestType, NEW m \in Msgs
    PROVE  Act(m) \in [Msgs -> 0..2]
BY DEF RestType, Act

LEMMA BrokerStep ==
    ASSUME IInv, BrokerConnect \/ BrokerQos0 \/ BrokerRequest \/ BrokerPubrel
    PROVE  IInv'
<1>0. RestType /\ brokerIds \subseteq Ids /\ got \in [Msgs -> 0..2] /\ toClient \in Seq(Answer)
  BY SplitLemma DEF RestType
<1>1. CASE BrokerConnect
  <2>1. toClient' \in Seq(Answer)
    BY <1>0, <1>1, AnswersLemma DEF BrokerConnect
  <2> QED BY <1>0, <1>1, <2>1, BrokerRestLemma DEF BrokerConnect
<1>2. CASE BrokerQos0
  <2>1. got' \in [Msgs -> 0..2]
    BY <1>0, <1>2, BrokerTakesLemma, ActLemma DEF BrokerQos0
  <2> QED BY <1>0, <1>2, <2>1, BrokerRestLemma DEF BrokerQos0
<1>3. CASE BrokerRequest
  <2> DEFINE w == Head(toBroker)
  <2>1. w.id \in Ids /\ w.m \in Msgs /\ BrokerTakes("REQUEST")
    BY <1>3, BrokerTakesLemma DEF BrokerRequest
  <2>2. Act(w.m) \in [Msgs -> 0..2]
    BY <1>0, <2>1, ActLemma
  <2> HIDE DEF w
  <2>3. got' \in [Msgs -> 0..2] /\ brokerIds' \subseteq Ids
    BY <1>0, <1>3, <2>1, <2>2 DEF BrokerRequest, w
  <2>4. toClient' \in Seq(Answer)
    <3>1. Answers("PUBREC", w.id) \/ Answers("ACK", w.id)
      BY <1>3 DEF BrokerRequest, w
    <3> QED BY <1>0, <2>1, <3>1, AnswersLemma
  <2> QED BY <2>1, <2>3, <2>4, BrokerRestLemma
<1>4. CASE BrokerPubrel
  <2>1. Head(toBroker).id \in Ids
    BY <1>4, BrokerTakesLemma DEF BrokerPubrel
  <2>2. toClient' \in Seq(Answer)
    BY <1>0, <1>4, <2>1, AnswersLemma DEF BrokerPubrel
  <2> QED BY <1>0, <1>4, <2>2, BrokerRestLemma DEF BrokerPubrel
<1> QED BY <1>1, <1>2, <1>3, <1>4

LEMMA BrokerRefusesStep == ASSUME IInv, BrokerRefuses PROVE IInv'
<1> USE SplitLemma
<1>1. QueueInv'
  BY SameQueueLemma DEF BrokerRefuses
<1>2. toClient' \in Seq(Answer) /\ faults' \in Nat /\ toBroker' \in Seq(Wire)
  <2>1. toClient' \in Seq(Answer)
    BY AnswersLemma DEF BrokerRefuses
  <2>2. faults' \in Nat
    BY DEF BrokerRefuses, Fault, RestType
  <2> QED BY <2>1, <2>2 DEF BrokerRefuses
<1>3. RestType'
  BY <1>2 DEF BrokerRefuses, RestType, loopVars, connVars, brokerVars, appVars, queueVars
<1> QED BY <1>1, <1>3, PTL

LEMMA InitLemma == Init => IInv
<1> SUFFICES ASSUME Init PROVE IInv
  OBVIOUS
<1>1. QueueInv
  BY SizesAssumption, CellsAssumption
     DEF Init, QueueInv, QueueType, HashMatchesList, QueueBounded, Cells
<1>2. toBroker \in Seq(Wire) /\ toClient \in Seq(Answer)
  BY DEF Init
<1>3. /\ got \in [Msgs -> 0..2] /\ reply \in [Msgs -> Rcs]
      /\ handle \in [Msgs -> 0..MaxMsgs]
  BY IdsLemma DEF Init, Rcs
<1>4. /\ pc = "off" /\ connState = "DISCONNECTED" /\ sockOpen \in BOOLEAN
      /\ cursor = 0 /\ toLoad = {} /\ sentStore = {} /\ brokerIds = {}
      /\ options \in Options /\ faults = 0 /\ stops = 0
  BY DEF Init
<1>5. connRetries \in -1..(RetryCount + 1) /\ nextMsgId \in 0..MaxMsgs
  BY SizesAssumption, IdsLemma DEF Init
<1>6. RestType
  BY <1>2, <1>3, <1>4, <1>5 DEF RestType
<1> QED BY <1>1, <1>6, SplitLemma

LEMMA StutterLemma == ASSUME IInv, UNCHANGED vars PROVE IInv'
<1> USE SplitLemma
<1>1. UNCHANGED queueVars
  BY DEF vars
<1>2. QueueInv'
  BY <1>1, SameQueueLemma
<1>3. RestType'
  BY DEF RestType, vars, loopVars, connVars, queueVars, netVars, brokerVars, appVars
<1> QED BY <1>2, <1>3, PTL

LEMMA NextLemma == IInv /\ [Next]_vars => IInv'
<1> SUFFICES ASSUME IInv, [Next]_vars PROVE IInv'
  OBVIOUS
<1>1. CASE Connect BY <1>1, ConnectStep
<1>2. CASE LoadSent BY <1>2, LoadSentStep
<1>3. CASE Establish BY <1>3, EstablishStep
<1>4. CASE Disconnect BY <1>4, DisconnectStep
<1>5. CASE Crash BY <1>5, CrashStep
<1>6. ASSUME NEW m \in Msgs, Request(m) PROVE IInv'
  BY <1>6, RequestStep
<1>7. CASE ReceiveConnack BY <1>7, ReceiveConnackStep
<1>8. CASE ReceivePubrec BY <1>8, ReceivePubrecStep
<1>9. CASE ReceiveAck BY <1>9, ReceiveAckStep
<1>10. CASE SocketError BY <1>10, SocketErrorStep
<1>11. CASE CheckConnection BY <1>11, CheckConnectionStep
<1>12. CASE StartRetry BY <1>12, StartRetryStep
<1>13. CASE RetryEntry BY <1>13, RetryEntryStep
<1>14. CASE BrokerConnect \/ BrokerQos0 \/ BrokerRequest \/ BrokerPubrel
  BY <1>14, BrokerStep
<1>15. CASE Quiescent BY <1>15, StutterLemma DEF Quiescent
<1>16. CASE UNCHANGED vars BY <1>16, StutterLemma
<1>17. CASE ReceiveRefused BY <1>17, ReceiveRefusedStep
<1>18. CASE BrokerRefuses BY <1>18, BrokerRefusesStep
<1> QED BY <1>1, <1>2, <1>3, <1>4, <1>5, <1>6, <1>7, <1>8, <1>9, <1>10, <1>11,
           <1>12, <1>13, <1>14, <1>15, <1>16, <1>17, <1>18 DEF Next

-----------------------------------------------------------------------------
(* The exchange with the broker.  Everything below is about a connection   *)
(* handle whose ids do not run out: past SHRT_MAX the persistence store    *)
(* files a message under another key than its acknowledgement deletes, and *)
(* past MaxMsgs an id is given out again that may still be in use.         *)

IdsFit == nextMsgId <= IF Persist THEN ShortMax ELSE MaxMsgs - 1

\* What the persistence store has of an entry, and what the queue holds.
Rec(e) == [key |-> e.msgId, type |-> e.type, m |-> e.m]
Queued == {Rec(heap[c]) : c \in Cells(inProgressQ)}

\* What the client holds: the store when there is one, otherwise the queue.
Held == IF Persist THEN sentStore ELSE Queued

\* The broker has taken the CONNECT of this session.
SessionUp ==
    \/ ~CleanStart
    \/ /\ sockOpen /\ ~Refused
       /\ \A i \in 1..Len(toBroker) : toBroker[i].type # "CONNECT"

Known == Persist /\ SessionUp

ExchangeInv ==
    Exchange(toBroker, toClient, Held, brokerIds, got, reply, handle, Known, options)

\* What is queued is held, and is not what recovery has still to load.
QueuedOK ==
    /\ toLoad \subseteq sentStore /\ (pc # "load" => toLoad = {})
    /\ ~Persist => sentStore = {}
    /\ pc = "off" => Queued = {}
    /\ pc = "load" /\ (CleanStart \/ ~Persist) => Held = {}
    /\ Queued \subseteq Held \ toLoad

\* Every id in use was given out already.
IdsOK ==
    /\ pc = "load" => \A s \in Held \ toLoad : s.key <= nextMsgId
    /\ pc \in {"idle", "retry"} =>
         /\ \A s \in Held : s.key < nextMsgId
         /\ \A i \in 1..Len(toBroker) : toBroker[i].id < nextMsgId
         /\ \A i \in 1..Len(toClient) : toClient[i].id < nextMsgId

\* A closed socket carries nothing; after a clean start a socket that was
\* closed is not opened again.
SocketOK ==
    /\ pc \in {"off", "load"} => ~sockOpen
    /\ ~sockOpen => toBroker = <<>> /\ toClient = <<>>
    /\ CleanStart /\ pc # "off" =>
         connRetries = -1 \/ (connRetries = RetryCount + 1 /\ pc # "load" /\ ~sockOpen)

EInv == ExchangeInv /\ QueuedOK /\ IdsOK /\ SocketOK

-----------------------------------------------------------------------------
(* What the queue holds.                                                   *)

\* A linked cell holds an entry, under its own id.
LEMMA LinkedLemma ==
    ASSUME QueueInv, NEW c \in Cells(inProgressQ)
    PROVE  /\ c \in Addr /\ heap[c] \in Entry /\ heap[c].msgId \in Ids
           /\ ipHash[heap[c].msgId] = c
<1>1. c \in Addr
  BY DEF QueueInv, QueueType, Cells
<1>2. heap[c].msgId \in Ids /\ ipHash[heap[c].msgId] = c
  BY DEF QueueInv, HashMatchesList
<1>3. heap[c] \in Entry
  BY <1>1, <1>2, IdsLemma DEF QueueInv, QueueType, Freed
<1> QED BY <1>1, <1>2, <1>3

LEMMA EnqueueQueued ==
    ASSUME QueueInv, NEW id \in Ids, NEW type, NEW m, NEW status,
           Malloc # Null, Enqueue(id, type, m, status)
    PROVE  Queued' = Put(Queued, id, type, m)
<1> DEFINE new == Malloc
           old == ipHash[id]
           L == Cells(inProgressQ)
<1>1. new \in Addr /\ new \notin L
  BY MallocLemma
<1>2. /\ heap' = [a \in Addr |-> IF a = new THEN NewEntry(id, type, m, status)
                                 ELSE IF a = old THEN Freed ELSE heap[a]]
      /\ inProgressQ' = Append(Unlink(inProgressQ, old), new)
  BY DEF Enqueue, Link
<1>3. Distinct(inProgressQ) /\ inProgressQ \in Seq(Addr)
  BY DEF QueueInv, QueueType, HashMatchesList, Distinct
<1>4. /\ Unlink(inProgressQ, old) \in Seq(Addr) /\ Distinct(Unlink(inProgressQ, old))
      /\ Cells(Unlink(inProgressQ, old)) = L \ {old}
  BY <1>3, UnlinkLemma
<1>5. Cells(inProgressQ') = (L \ {old}) \cup {new}
  BY <1>1, <1>2, <1>4, AppendLemma
<1>6. \A c \in L : c \in Addr /\ heap[c].msgId \in Ids /\ ipHash[heap[c].msgId] = c
  BY LinkedLemma
<1>7. \A c \in L : c = old <=> heap[c].msgId = id
  <2>1. old # Null => heap[old].msgId = id
    BY DEF QueueInv, HashMatchesList
  <2>2. \A c \in L : c # Null
    BY <1>6, CellsAssumption
  <2> QED BY <1>6, <2>1, <2>2
<1> HIDE DEF new, old, L
<1>8. Rec(heap'[new]) = [key |-> id, type |-> type, m |-> m]
  BY <1>1, <1>2 DEF Rec, NewEntry
<1>9. \A c \in L \ {old} : c # new /\ heap'[c] = heap[c]
  BY <1>1, <1>2, <1>6
<1>10. \A c \in L : Rec(heap[c]).key = heap[c].msgId
  BY DEF Rec
<1>11. Queued' = {Rec(heap'[c]) : c \in L \ {old}} \cup {Rec(heap'[new])}
  BY <1>5 DEF Queued
<1>12. {Rec(heap'[c]) : c \in L \ {old}} = {s \in Queued : s.key # id}
  BY <1>7, <1>9, <1>10 DEF Queued, L
<1> QED BY <1>8, <1>11, <1>12 DEF Put

LEMMA DequeueQueued ==
    ASSUME QueueInv, NEW id \in Ids, Dequeue(id)
    PROVE  Queued' = Del(Queued, id)
<1> DEFINE old == ipHash[id]
           L == Cells(inProgressQ)
<1>1. /\ heap' = [a \in Addr |-> IF a = old THEN Freed ELSE heap[a]]
      /\ inProgressQ' = Unlink(inProgressQ, old)
  BY DEF Dequeue
<1>2. Distinct(inProgressQ) /\ inProgressQ \in Seq(Addr)
  BY DEF QueueInv, QueueType, HashMatchesList, Distinct
<1>3. Cells(inProgressQ') = L \ {old}
  BY <1>1, <1>2, UnlinkLemma
<1>4. \A c \in L : c \in Addr /\ heap[c].msgId \in Ids /\ ipHash[heap[c].msgId] = c
  BY LinkedLemma
<1>5. \A c \in L : c = old <=> heap[c].msgId = id
  <2>1. old # Null => heap[old].msgId = id
    BY DEF QueueInv, HashMatchesList
  <2>2. \A c \in L : c # Null
    BY <1>4, CellsAssumption
  <2> QED BY <1>4, <2>1, <2>2
<1> HIDE DEF old, L
<1>6. \A c \in L \ {old} : heap'[c] = heap[c]
  BY <1>1, <1>4
<1>7. \A c \in L : Rec(heap[c]).key = heap[c].msgId
  BY DEF Rec
<1>8. Queued' = {Rec(heap'[c]) : c \in L \ {old}}
  BY <1>3 DEF Queued
<1>9. {Rec(heap'[c]) : c \in L \ {old}} = {s \in Queued : s.key # id}
  BY <1>5, <1>6, <1>7 DEF Queued, L
<1> QED BY <1>8, <1>9 DEF Del

LEMMA SameQueued == ASSUME UNCHANGED queueVars PROVE Queued' = Queued
BY DEF queueVars, Queued, Cells

LEMMA EmptyQueued == ASSUME EmptyQueue PROVE Queued' = {}
<1>1. Cells(inProgressQ') = {}
  BY DEF EmptyQueue, Cells
<1> QED BY <1>1 DEF Queued

-----------------------------------------------------------------------------
(* Each step keeps the exchange.                                           *)

LEMMA OptionsLemma ==
    ASSUME IInv
    PROVE  /\ Persist \in BOOLEAN /\ CleanStart \in BOOLEAN /\ Known \in BOOLEAN
           /\ options \in Options
<1>1. options \in Options
  BY DEF IInv, TypeOK
<1>2. Known \in BOOLEAN
  BY DEF Known
<1> QED BY <1>1, <1>2, OptionFacts DEF Persist, CleanStart

\* A session that the broker knows was known before, unless its CONNECT was
\* taken.
LEMMA KnownLemma ==
    ASSUME options' = options, CleanStart /\ SessionUp' => SessionUp
    PROVE  Known' \in BOOLEAN /\ (Known' => Known)
<1>1. Persist' = Persist /\ CleanStart' = CleanStart
  BY DEF Persist, CleanStart
<1>2. SessionUp' => SessionUp
  BY <1>1 DEF SessionUp
<1> QED BY <1>1, <1>2 DEF Known

\* The exchange of the state after a step, from its parts.
LEMMA ExchangeLemma ==
    ASSUME options' = options, Known' \in BOOLEAN, Known' => Known,
           NEW B, NEW C, NEW K, NEW b, NEW g, NEW r, NEW h,
           Exchange(B, C, K, b, g, r, h, Known, options),
           B = toBroker', C = toClient', K = Held', b = brokerIds', g = got',
           r = reply', h = handle'
    PROVE  ExchangeInv'
<1>1. PICK u : u = Known
  OBVIOUS
<1>2. PICK v : v = Known'
  OBVIOUS
<1>3. PICK o : o = options
  OBVIOUS
<1>4. Exchange(B, C, K, b, g, r, h, u, o)
  BY <1>1, <1>3
<1>5. v \in BOOLEAN /\ (v => u)
  BY <1>1, <1>2
<1> HIDE <1>1, <1>2, <1>3
<1>6. Exchange(B, C, K, b, g, r, h, v, o)
  BY <1>4, <1>5, WeakenLemma
<1> QED BY <1>2, <1>3, <1>6 DEF ExchangeInv

\* The socket is closed: the exchange goes on without what was in flight.
LEMMA ClosedKnown ==
    ASSUME options' = options, sockOpen' = FALSE
    PROVE  Known' \in BOOLEAN /\ (Known' => Known)
BY KnownLemma DEF SessionUp, CleanStart

LEMMA ClosedExchange ==
    ASSUME ExchangeInv, CloseSocket,
           UNCHANGED <<brokerIds, got, reply, handle, options>>, Held' = Held
    PROVE  ExchangeInv'
<1>1. /\ sockOpen' = FALSE /\ toBroker' = <<>> /\ toClient' = <<>>
      /\ brokerIds' = brokerIds /\ got' = got /\ reply' = reply /\ handle' = handle
      /\ options' = options
  BY DEF CloseSocket
<1>2. Exchange(<<>>, <<>>, Held, brokerIds, got, reply, handle, Known, options)
  BY LostLemma DEF ExchangeInv
<1>3. Known' \in BOOLEAN /\ (Known' => Known)
  BY <1>1, ClosedKnown
<1> QED BY <1>1, <1>2, <1>3, ExchangeLemma

\* The requests are given up.
LEMMA GivenUpExchange ==
    ASSUME IInv, ExchangeInv, sockOpen' = FALSE, toBroker' = <<>>, toClient' = <<>>,
           CleanStart \/ ~Persist, reply' = Forget,
           UNCHANGED <<brokerIds, got, handle, options>>, Held' = {}
    PROVE  ExchangeInv'
<1>1. Exchange(<<>>, <<>>, Held, brokerIds, got, reply, handle, Known, options)
  BY LostLemma DEF ExchangeInv
<1>2. Exchange(<<>>, <<>>, {}, brokerIds, got, Forget, handle, FALSE, options)
  BY <1>1, GiveUpLemma DEF Forget
<1>3. Known' = FALSE
  BY OptionsLemma DEF Known, SessionUp, CleanStart, Persist
<1> QED BY <1>2, <1>3 DEF ExchangeInv

LEMMA ConnectExchange == ASSUME IInv, EInv, Connect PROVE EInv'
<1>0. /\ pc = "off" /\ pc' = "load" /\ ~sockOpen /\ sockOpen' = sockOpen
      /\ connRetries' = (IF CleanStart THEN -1 ELSE 0)
      /\ sentStore' = (IF CleanStart THEN {} ELSE sentStore)
      /\ reply' = (IF CleanStart THEN Forget ELSE reply)
      /\ toLoad' = sentStore'
      /\ UNCHANGED <<nextMsgId, queueVars, netVars, brokerVars, handle, options>>
  BY DEF Connect, EInv, SocketOK
<1>1. /\ sockOpen' = FALSE /\ toBroker' = <<>> /\ toClient' = <<>>
      /\ brokerIds' = brokerIds /\ got' = got /\ handle' = handle /\ options' = options
      /\ toBroker = <<>> /\ toClient = <<>> /\ sockOpen = FALSE
  <2>1. sockOpen \in BOOLEAN
    BY DEF IInv, TypeOK
  <2> QED BY <1>0, <2>1 DEF EInv, SocketOK, netVars, brokerVars
<1>2. Persist' = Persist /\ CleanStart' = CleanStart /\ Persist \in BOOLEAN
  BY <1>1, OptionsLemma DEF Persist, CleanStart
<1>3. Queued' = {} /\ Queued = {}
  BY <1>0, SameQueued DEF EInv, QueuedOK
<1>4. CASE CleanStart
  <2>1. sentStore' = {} /\ Held' = {}
    BY <1>0, <1>2, <1>3, <1>4 DEF Held
  <2>2. ExchangeInv'
    BY <1>0, <1>1, <1>4, <2>1, GivenUpExchange DEF EInv
  <2>3. QueuedOK'
    BY <1>0, <1>3, <2>1 DEF QueuedOK
  <2>4. IdsOK' /\ SocketOK'
    BY <1>0, <1>1, <1>2, <1>4, <2>1 DEF IdsOK, SocketOK
  <2> QED BY <2>2, <2>3, <2>4 DEF EInv
<1>5. CASE ~CleanStart
  <2>1. sentStore' = sentStore /\ Held' = Held /\ reply' = reply
    BY <1>0, <1>2, <1>3, <1>5 DEF Held
  <2>2. ExchangeInv'
    BY <1>0, <1>1, <2>1, ClosedExchange DEF EInv, CloseSocket
  <2>3. Persist => Held' = toLoad'
    BY <1>0, <1>2 DEF Held
  <2>4. ~Persist => Held' = {} /\ sentStore' = {}
    BY <1>2, <1>3, <2>1 DEF Held, EInv, QueuedOK
  <2>5. QueuedOK'
    BY <1>0, <1>2, <1>3, <1>5, <2>3, <2>4 DEF QueuedOK
  <2>6. IdsOK' /\ SocketOK'
    BY <1>0, <1>1, <1>2, <1>5, <2>3, <2>4 DEF IdsOK, SocketOK
  <2> QED BY <2>2, <2>5, <2>6 DEF EInv
<1> QED BY <1>4, <1>5

\* The ids in use are natural numbers.
LEMMA NatLemma ==
    ASSUME IInv, EInv
    PROVE  /\ nextMsgId \in Nat
           /\ \A s \in Held : s.key \in Ids /\ s.key \in Nat
<1>1. nextMsgId \in 0..MaxMsgs
  BY DEF IInv, TypeOK
<1>2. nextMsgId \in Nat
  BY <1>1, IdsLemma
<1>3. \A s \in Held : s.key \in Ids
  BY DEF EInv, ExchangeInv, Exchange, HeldOK
<1> QED BY <1>2, <1>3, IdsLemma

\* A loaded message is queued under the id it was stored under.
LEMMA LoadSentExchange == ASSUME IInv, EInv, LoadSent PROVE EInv'
<1>1. PICK s \in toLoad :
        /\ toLoad' = toLoad \ {s}
        /\ nextMsgId' = IF s.key > nextMsgId THEN IdOfKey(s.key) ELSE nextMsgId
        /\ IF Fits(s.type, s.m) /\ Malloc # Null
             THEN Enqueue(IdOfKey(s.key), s.type, s.m, "RETRYING")
             ELSE UNCHANGED queueVars
  BY DEF LoadSent
<1>2. /\ pc = "load" /\ pc' = pc /\ sentStore' = sentStore /\ sockOpen' = sockOpen
      /\ connRetries' = connRetries /\ toBroker' = toBroker /\ toClient' = toClient
      /\ brokerIds' = brokerIds /\ got' = got /\ reply' = reply /\ handle' = handle
      /\ options' = options
  BY DEF LoadSent, connVars, netVars, brokerVars, appVars
<1>3. Persist' = Persist /\ CleanStart' = CleanStart /\ Persist
  BY <1>1, <1>2 DEF Persist, CleanStart, EInv, QueuedOK
<1>4. Held = sentStore /\ Held' = sentStore
  BY <1>2, <1>3 DEF Held
<1>5. s \in Held /\ s \in Stored
  BY <1>4 DEF EInv, QueuedOK, IInv, TypeOK
<1>6. s.key \in Ids /\ \A t \in Held : t.key = s.key => t = s
  BY <1>5 DEF EInv, ExchangeInv, Exchange, HeldOK
<1>7. IdOfKey(s.key) = s.key
  BY <1>6, IdsLemma DEF IdOfKey, Ids
<1>8. Queued' \subseteq Held \ toLoad'
  <2>1. CASE UNCHANGED queueVars
    BY <1>1, <2>1, SameQueued DEF EInv, QueuedOK
  <2>2. CASE Malloc # Null /\ Enqueue(IdOfKey(s.key), s.type, s.m, "RETRYING")
    <3>1. Queued' = Put(Queued, s.key, s.type, s.m)
      BY <1>6, <1>7, <2>2, IInvQueue, EnqueueQueued
    <3>2. [key |-> s.key, type |-> s.type, m |-> s.m] = s
      BY <1>5 DEF Stored
    <3>3. Queued' \subseteq Queued \cup {s}
      BY <3>1, <3>2 DEF Put
    <3> QED BY <1>1, <1>5, <3>3 DEF EInv, QueuedOK
  <2> QED BY <1>1, <2>1, <2>2
<1>9. Known' \in BOOLEAN /\ (Known' => Known)
  BY <1>2, KnownLemma DEF SessionUp, CleanStart, Refused
<1>10. ExchangeInv'
  <2>1. Exchange(toBroker, toClient, Held, brokerIds, got, reply, handle, Known, options)
    BY DEF EInv, ExchangeInv
  <2> QED BY <1>2, <1>4, <1>9, <2>1, ExchangeLemma
<1>11. QueuedOK'
  <2>1. toLoad' \subseteq sentStore'
    BY <1>1, <1>2 DEF EInv, QueuedOK
  <2> QED BY <1>2, <1>3, <1>4, <1>8, <2>1 DEF EInv, QueuedOK
<1>12. IdsOK'
  <2>1. nextMsgId \in Nat /\ s.key \in Nat
    BY <1>5, NatLemma
  <2>2. nextMsgId' >= nextMsgId /\ nextMsgId' >= s.key /\ nextMsgId' \in Nat
    BY <1>1, <1>7, <2>1
  <2>3. ASSUME NEW t \in Held' \ toLoad' PROVE t.key <= nextMsgId'
    <3>1. CASE t = s
      BY <2>2, <3>1
    <3>2. CASE t # s
      <4>1. t \in Held \ toLoad
        BY <1>1, <1>4, <2>3, <3>2
      <4>2. t.key \in Nat /\ t.key <= nextMsgId
        BY <1>2, <4>1, NatLemma DEF EInv, IdsOK
      <4> QED BY <2>1, <2>2, <4>2
    <3> QED BY <3>1, <3>2
  <2> QED BY <1>2, <2>3 DEF IdsOK
<1>13. SocketOK'
  BY <1>2, <1>3 DEF EInv, SocketOK
<1> QED BY <1>10, <1>11, <1>12, <1>13 DEF EInv

LEMMA NextIdLemma ==
    ASSUME IInv, IdsFit
    PROVE  /\ nextMsgId \in Nat /\ nextMsgId < MaxMsgs
           /\ SetNextMsgId(nextMsgId) = nextMsgId + 1
           /\ Persist => nextMsgId <= ShortMax
<1>1. nextMsgId \in Nat /\ ShortMax \in Nat /\ ShortMax < MaxMsgs
  BY IdsLemma, SizesAssumption DEF IInv, TypeOK, MaxMsgs
<1>2. nextMsgId < MaxMsgs /\ (Persist => nextMsgId <= ShortMax)
  BY <1>1, IdsLemma DEF IdsFit
<1> QED BY <1>1, <1>2 DEF SetNextMsgId

LEMMA EstablishExchange == ASSUME IInv, EInv, IdsFit, Establish PROVE EInv'
<1>1. /\ pc = "load" /\ toLoad = {} /\ pc' = "idle" /\ toLoad' = toLoad
      /\ nextMsgId' = SetNextMsgId(nextMsgId)
      /\ sentStore' = sentStore /\ connRetries' = connRetries
      /\ brokerIds' = brokerIds /\ got' = got /\ reply' = reply /\ handle' = handle
      /\ options' = options /\ OpenSocket("CONNECTING", "CONNECTING")
      /\ UNCHANGED queueVars
  BY DEF Establish, brokerVars, appVars
<1>2. Persist' = Persist /\ CleanStart' = CleanStart
  BY <1>1 DEF Persist, CleanStart
<1>3. Queued' = Queued /\ Held' = Held
  BY <1>1, <1>2, SameQueued DEF Held
<1>4. \/ sockOpen' = TRUE /\ toBroker' = <<ConnectMsg>> /\ toClient' = <<>>
      \/ CloseSocket
  BY <1>1 DEF OpenSocket
<1>5. nextMsgId \in Nat /\ nextMsgId' = nextMsgId + 1
  BY <1>1, NextIdLemma
<1>6. CleanStart => Held = {}
  BY <1>1 DEF EInv, QueuedOK
<1>7. ExchangeInv'
  <2>1. CASE sockOpen' = TRUE /\ toBroker' = <<ConnectMsg>> /\ toClient' = <<>>
    <3>1. Exchange(<<ConnectMsg>>, <<>>, Held, brokerIds, got, reply, handle, Known, options)
      BY <1>6, OpenLemma DEF EInv, ExchangeInv, CleanStart
    <3>2. ~ \A i \in 1..Len(toBroker') : toBroker'[i].type # "CONNECT"
      <4>1. 1 \in 1..Len(<<ConnectMsg>>) /\ <<ConnectMsg>>[1].type = "CONNECT"
        BY DEF ConnectMsg
      <4> QED BY <2>1, <4>1
    <3>3. Known' \in BOOLEAN /\ (Known' => Known)
      BY <1>1, <1>2, <3>2, KnownLemma DEF SessionUp
    <3> QED BY <1>1, <1>3, <2>1, <3>1, <3>3, ExchangeLemma
  <2>2. CASE CloseSocket
    BY <1>1, <1>3, <2>2, ClosedExchange DEF EInv
  <2> QED BY <1>4, <2>1, <2>2
<1>8. QueuedOK'
  BY <1>1, <1>2, <1>3 DEF EInv, QueuedOK
<1>9. IdsOK'
  <2>1. \A s \in Held' : s.key < nextMsgId'
    <3>1. \A s \in Held : s.key \in Nat /\ s.key <= nextMsgId
      BY <1>1, NatLemma DEF EInv, IdsOK
    <3> QED BY <1>3, <1>5, <3>1
  <2>2. /\ \A i \in 1..Len(toBroker') : toBroker'[i].id < nextMsgId'
        /\ \A i \in 1..Len(toClient') : toClient'[i].id < nextMsgId'
    <3>1. \A i \in 1..Len(<<ConnectMsg>>) : <<ConnectMsg>>[i].id = 0
      BY DEF ConnectMsg
    <3>2. \A i \in 1..Len(<<>>) : FALSE
      OBVIOUS
    <3> QED BY <1>4, <1>5, <3>1, <3>2 DEF CloseSocket
  <2> QED BY <1>1, <2>1, <2>2 DEF IdsOK
<1>10. SocketOK'
  BY <1>1, <1>2, <1>4 DEF EInv, SocketOK, CloseSocket
<1> QED BY <1>7, <1>8, <1>9, <1>10 DEF EInv

\* Disconnecting and dying either give up what is held, or leave it in the
\* store.
LEMMA DropHandleExchange ==
    ASSUME IInv, EInv, DropHandle,
           \/ (CleanStart \/ ~Persist) /\ reply' = Forget /\ sentStore' = {}
           \/ Persist /\ reply' = reply /\ sentStore' = sentStore
    PROVE  EInv'
<1>1. /\ pc' = "off" /\ connRetries' = 0 /\ CloseSocket /\ toLoad' = {}
      /\ sockOpen' = FALSE /\ toBroker' = <<>> /\ toClient' = <<>>
      /\ brokerIds' = brokerIds /\ got' = got /\ handle' = handle /\ options' = options
  BY DEF DropHandle, CloseSocket, brokerVars
<1>2. Persist' = Persist /\ CleanStart' = CleanStart /\ Persist \in BOOLEAN
  BY <1>1, OptionsLemma DEF Persist, CleanStart
<1>3. Queued' = {}
  BY EmptyQueued DEF DropHandle
<1>4. IdsOK' /\ SocketOK'
  BY <1>1 DEF IdsOK, SocketOK
<1>5. CASE (CleanStart \/ ~Persist) /\ reply' = Forget /\ sentStore' = {}
  <2>1. Held' = {}
    BY <1>3, <1>5 DEF Held
  <2>2. ExchangeInv'
    BY <1>1, <1>5, <2>1, GivenUpExchange DEF EInv
  <2>3. QueuedOK'
    BY <1>1, <1>3, <1>5, <2>1 DEF QueuedOK
  <2> QED BY <1>4, <2>2, <2>3 DEF EInv
<1>6. CASE Persist /\ reply' = reply /\ sentStore' = sentStore
  <2>1. Held' = Held
    BY <1>2, <1>6 DEF Held
  <2>2. ExchangeInv'
    BY <1>1, <1>6, <2>1, ClosedExchange DEF EInv
  <2>3. QueuedOK'
    BY <1>1, <1>2, <1>3, <1>6 DEF QueuedOK
  <2> QED BY <1>4, <2>2, <2>3 DEF EInv
<1> QED BY <1>5, <1>6

LEMMA DisconnectExchange == ASSUME IInv, EInv, Disconnect PROVE EInv'
<1>1. /\ DropHandle
      /\ sentStore' = (IF CleanStart THEN {} ELSE sentStore)
      /\ reply' = (IF CleanStart \/ ~Persist THEN Forget ELSE reply)
  BY DEF Disconnect
<1>2. ~Persist => sentStore = {}
  BY DEF EInv, QueuedOK
<1> QED BY <1>1, <1>2, DropHandleExchange

LEMMA CrashExchange == ASSUME IInv, EInv, Crash PROVE EInv'
<1>1. /\ DropHandle /\ sentStore' = sentStore
      /\ reply' = (IF Persist THEN reply ELSE Forget)
  BY DEF Crash
<1>2. ~Persist => sentStore = {}
  BY DEF EInv, QueuedOK
<1> QED BY <1>1, <1>2, DropHandleExchange

\* A step between idle and the retry loop that leaves what is held and the
\* ids alone keeps all but the exchange.
LEMMA QuietLemma ==
    ASSUME EInv, pc \in {"idle", "retry"}, pc' \in {"idle", "retry"},
           UNCHANGED <<toLoad, nextMsgId, sentStore, options>>,
           Queued' = Queued, Held' = Held,
           \/ toBroker' = <<>> /\ toClient' = <<>>
           \/ sockOpen' /\ (\A i \in 1..Len(toBroker') : toBroker'[i].id < nextMsgId)
                        /\ (\A i \in 1..Len(toClient') : toClient'[i].id < nextMsgId),
           CleanStart => connRetries' = -1 \/ (connRetries' = RetryCount + 1 /\ ~sockOpen'),
           ExchangeInv'
    PROVE  EInv'
<1>1. Persist' = Persist /\ CleanStart' = CleanStart
  BY DEF Persist, CleanStart
<1>2. QueuedOK'
  BY <1>1 DEF EInv, QueuedOK
<1>3. /\ \A i \in 1..Len(toBroker') : toBroker'[i].id < nextMsgId'
      /\ \A i \in 1..Len(toClient') : toClient'[i].id < nextMsgId'
  <2>1. \A i \in 1..Len(<<>>) : FALSE
    OBVIOUS
  <2> QED BY <2>1
<1>4. IdsOK'
  BY <1>3 DEF EInv, IdsOK
<1>5. SocketOK'
  BY <1>1 DEF EInv, SocketOK
<1> QED BY <1>2, <1>4, <1>5 DEF EInv

LEMMA SocketErrorExchange == ASSUME IInv, EInv, SocketError PROVE EInv'
<1>1. /\ pc = "idle" /\ pc' = pc /\ CloseSocket /\ UNCHANGED queueVars
      /\ UNCHANGED <<toLoad, nextMsgId, sentStore, options, connRetries>>
      /\ UNCHANGED <<brokerIds, got, reply, handle, options>>
      /\ sockOpen' = FALSE /\ toBroker' = <<>> /\ toClient' = <<>>
  BY DEF SocketError, CloseSocket, loopVars, brokerVars, appVars
<1>2. Queued' = Queued /\ Held' = Held
  BY <1>1, SameQueued DEF Held, Persist
<1>3. ExchangeInv'
  BY <1>1, <1>2, ClosedExchange DEF EInv
<1>4. CleanStart => connRetries' = -1 \/ (connRetries' = RetryCount + 1 /\ ~sockOpen')
  BY <1>1 DEF EInv, SocketOK
<1> QED BY <1>1, <1>2, <1>3, <1>4, QuietLemma

\* A lost connection is opened again only when the session is kept.
LEMMA CheckConnectionExchange == ASSUME IInv, EInv, CheckConnection PROVE EInv'
<1>1. /\ pc = "idle" /\ pc' = pc /\ UNCHANGED queueVars
      /\ UNCHANGED <<toLoad, nextMsgId, sentStore, options>>
      /\ UNCHANGED <<brokerIds, got, reply, handle, options>>
  BY DEF CheckConnection, loopVars, brokerVars, appVars
<1>2. Queued' = Queued /\ Held' = Held
  BY <1>1, SameQueued DEF Held, Persist
<1>3. CleanStart => connRetries = -1 \/ (connRetries = RetryCount + 1 /\ ~sockOpen)
  BY <1>1 DEF EInv, SocketOK
<1>4. nextMsgId \in Nat /\ 0 < nextMsgId
  <2>1. nextMsgId \in Ids
    BY <1>1 DEF IInv, TypeOK
  <2> QED BY <2>1, IdsLemma DEF Ids
<1>5. CASE UNCHANGED <<sockOpen, connRetries, netVars>>
  <2>1. /\ sockOpen' = sockOpen /\ connRetries' = connRetries
        /\ toBroker' = toBroker /\ toClient' = toClient
    BY <1>5 DEF netVars
  <2>2. Known' \in BOOLEAN /\ (Known' => Known)
    BY <1>1, <2>1, KnownLemma DEF SessionUp, Refused, CleanStart
  <2>3. ExchangeInv'
    <3>1. Exchange(toBroker, toClient, Held, brokerIds, got, reply, handle, Known, options)
      BY DEF EInv, ExchangeInv
    <3> QED BY <1>1, <1>2, <2>1, <2>2, <3>1, ExchangeLemma
  <2>4. \/ toBroker' = <<>> /\ toClient' = <<>>
        \/ sockOpen' /\ (\A i \in 1..Len(toBroker') : toBroker'[i].id < nextMsgId)
                     /\ (\A i \in 1..Len(toClient') : toClient'[i].id < nextMsgId)
    BY <1>1, <2>1 DEF EInv, IdsOK, SocketOK
  <2>5. CleanStart => connRetries' = -1 \/ (connRetries' = RetryCount + 1 /\ ~sockOpen')
    BY <1>3, <2>1
  <2> QED BY <1>1, <1>2, <2>3, <2>4, <2>5, QuietLemma
<1>6. CASE /\ connRetries + 1 <= RetryCount /\ connRetries >= 0
           /\ \/ CloseSocket
              \/ sockOpen' = TRUE /\ toBroker' = <<ConnectMsg>> /\ toClient' = <<>>
  <2>1. ~CleanStart
    BY <1>3, <1>6, SizesAssumption DEF IInv, TypeOK
  <2>2. CASE CloseSocket
    <3>1. ExchangeInv'
      BY <1>1, <1>2, <2>2, ClosedExchange DEF EInv
    <3> QED BY <1>1, <1>2, <2>1, <2>2, <3>1, QuietLemma DEF CloseSocket
  <2>3. CASE sockOpen' = TRUE /\ toBroker' = <<ConnectMsg>> /\ toClient' = <<>>
    <3>1. Exchange(<<ConnectMsg>>, <<>>, Held, brokerIds, got, reply, handle, Known, options)
      BY <2>1, OpenLemma DEF EInv, ExchangeInv, CleanStart
    <3>2. Known' \in BOOLEAN /\ (Known' => Known)
      BY <1>1, <2>1, KnownLemma
    <3>3. ExchangeInv'
      BY <1>1, <1>2, <2>3, <3>1, <3>2, ExchangeLemma
    <3>4. /\ \A i \in 1..Len(<<ConnectMsg>>) : <<ConnectMsg>>[i].id < nextMsgId
          /\ \A i \in 1..Len(<<>>) : <<>>[i].id < nextMsgId
      BY <1>4 DEF ConnectMsg
    <3>5. /\ \A i \in 1..Len(toBroker') : toBroker'[i].id < nextMsgId
          /\ \A i \in 1..Len(toClient') : toClient'[i].id < nextMsgId
      BY <2>3, <3>4
    <3> QED BY <1>1, <1>2, <2>1, <2>3, <3>3, <3>5, QuietLemma
  <2> QED BY <1>6, <2>2, <2>3
<1> QED BY <1>5, <1>6 DEF CheckConnection, OpenSocket

-----------------------------------------------------------------------------
(* What arrives from the broker.                                           *)

\* What a handler of an answer has to start from.
LEMMA ReceiveFacts ==
    ASSUME IInv, EInv, NEW type, type # "REFUSED", Receive(type)
    PROVE  /\ pc = "idle" /\ sockOpen /\ toLoad = {} /\ nextMsgId \in Nat
           /\ toClient \in Seq(Answer) /\ toClient # <<>> /\ Head(toClient).type = type
           /\ Tail(toClient) \in Seq(Answer)
           /\ 1 \in 1..Len(toClient) /\ toClient[1] = Head(toClient)
           /\ Head(toClient).id < nextMsgId
           /\ \A i \in 1..Len(toBroker) : toBroker[i].id < nextMsgId
           /\ \A i \in 1..Len(Tail(toClient)) : Tail(toClient)[i].id < nextMsgId
           /\ Refused <=> \E i \in 1..Len(Tail(toClient)) : Tail(toClient)[i].type = "REFUSED"
           /\ CleanStart => connRetries = -1
           /\ Exchange(toBroker, Tail(toClient), Held, brokerIds, got, reply, handle,
                       Known, options)
<1> DEFINE U == Tail(toClient)
<1>1. /\ pc = "idle" /\ sockOpen /\ toLoad = {} /\ nextMsgId \in Nat
      /\ toClient # <<>> /\ Head(toClient).type = type
  BY NatLemma DEF Receive, EInv, QueuedOK
<1>2. toClient \in Seq(Answer)
  BY DEF IInv, TypeOK
<1>3. /\ U \in Seq(Answer) /\ Len(toClient) \in Nat /\ Len(U) = Len(toClient) - 1
      /\ 1 \in 1..Len(toClient) /\ toClient[1] = Head(toClient)
      /\ \A i \in 1..Len(U) : i + 1 \in 1..Len(toClient) /\ U[i] = toClient[i + 1]
  BY <1>1, <1>2, TailFacts
<1> HIDE DEF U
<1>4. /\ \A i \in 1..Len(toBroker) : toBroker[i].id < nextMsgId
      /\ \A i \in 1..Len(toClient) : toClient[i].id < nextMsgId
  BY <1>1 DEF EInv, IdsOK
<1>5. Head(toClient).id < nextMsgId /\ \A i \in 1..Len(U) : U[i].id < nextMsgId
  BY <1>3, <1>4
<1>6. Refused <=> \E i \in 1..Len(U) : U[i].type = "REFUSED"
  <2>1. ASSUME Refused PROVE \E i \in 1..Len(U) : U[i].type = "REFUSED"
    <3>1. PICK i \in 1..Len(toClient) : toClient[i].type = "REFUSED"
      BY <2>1 DEF Refused
    <3>2. i # 1
      BY <1>1, <1>3, <3>1
    <3>3. i - 1 \in 1..Len(U) /\ (i - 1) + 1 = i
      BY <1>3, <3>2
    <3> QED BY <1>3, <3>1, <3>3
  <2>2. (\E i \in 1..Len(U) : U[i].type = "REFUSED") => Refused
    BY <1>3 DEF Refused
  <2> QED BY <2>1, <2>2
<1>7. CleanStart => connRetries = -1
  BY <1>1 DEF EInv, SocketOK
<1>8. Exchange(toBroker, U, Held, brokerIds, got, reply, handle, Known, options)
  BY <1>1, ReadLemma DEF EInv, ExchangeInv, U
<1> QED BY <1>1, <1>2, <1>3, <1>4, <1>5, <1>6, <1>7, <1>8 DEF U

LEMMA ReceiveConnackExchange == ASSUME IInv, EInv, ReceiveConnack PROVE EInv'
<1>1. /\ Receive("CONNACK") /\ toClient' = Tail(toClient) /\ pc' = pc
      /\ connRetries' = (IF connRetries > 0 THEN 0 ELSE connRetries)
      /\ UNCHANGED queueVars /\ toBroker' = toBroker /\ sockOpen' = sockOpen
      /\ UNCHANGED <<toLoad, nextMsgId, sentStore, options>>
      /\ UNCHANGED <<brokerIds, got, reply, handle, options>>
  BY DEF ReceiveConnack, loopVars, brokerVars, appVars
<1>2. /\ pc = "idle" /\ sockOpen
      /\ \A i \in 1..Len(toBroker) : toBroker[i].id < nextMsgId
      /\ \A i \in 1..Len(Tail(toClient)) : Tail(toClient)[i].id < nextMsgId
      /\ Refused <=> \E i \in 1..Len(Tail(toClient)) : Tail(toClient)[i].type = "REFUSED"
      /\ CleanStart => connRetries = -1
      /\ Exchange(toBroker, Tail(toClient), Held, brokerIds, got, reply, handle,
                  Known, options)
  BY <1>1, ReceiveFacts
<1>3. Queued' = Queued /\ Held' = Held
  BY <1>1, SameQueued DEF Held, Persist
<1>4. Known' \in BOOLEAN /\ (Known' => Known)
  BY <1>1, <1>2, KnownLemma DEF SessionUp, Refused, CleanStart
<1>5. ExchangeInv'
  BY <1>1, <1>2, <1>3, <1>4, ExchangeLemma
<1>6. CleanStart => connRetries' = -1
  BY <1>1, <1>2
<1>7. /\ \A i \in 1..Len(toBroker') : toBroker'[i].id < nextMsgId
      /\ \A i \in 1..Len(toClient') : toClient'[i].id < nextMsgId
  BY <1>1, <1>2
<1> QED BY <1>1, <1>2, <1>3, <1>5, <1>6, <1>7, QuietLemma

LEMMA ReceiveRefusedExchange == ASSUME IInv, EInv, ReceiveRefused PROVE EInv'
<1>1. /\ pc = "idle" /\ pc' = pc /\ CloseSocket /\ UNCHANGED queueVars
      /\ connRetries' = RetryCount + 1
      /\ UNCHANGED <<toLoad, nextMsgId, sentStore, options>>
      /\ UNCHANGED <<brokerIds, got, reply, handle, options>>
      /\ sockOpen' = FALSE /\ toBroker' = <<>> /\ toClient' = <<>>
  BY DEF ReceiveRefused, Receive, CloseSocket, loopVars, brokerVars, appVars
<1>2. Queued' = Queued /\ Held' = Held
  BY <1>1, SameQueued DEF Held, Persist
<1>3. ExchangeInv'
  BY <1>1, <1>2, ClosedExchange DEF EInv
<1> QED BY <1>1, <1>2, <1>3, QuietLemma

\* An id below the next one is kept under itself in the store.
LEMMA KeyLemma ==
    ASSUME IInv, IdsFit, NEW id \in Ids, id <= nextMsgId
    PROVE  /\ KeyOfUShort(id) = id
           /\ Persist => id <= ShortMax /\ KeyOfShort(id) = id
<1>1. id \in Nat /\ nextMsgId \in Nat /\ ShortMax \in Nat
  BY IdsLemma, NextIdLemma, SizesAssumption
<1>2. Persist => nextMsgId <= ShortMax
  BY NextIdLemma
<1> QED BY <1>1, <1>2 DEF KeyOfUShort, KeyOfShort

\* mspSendScadaMessage writes the message, or finds the connection gone.
LEMMA TransmitExchange ==
    ASSUME IInv, EInv, NEW w, NEW in, Transmit(w, in), options' = options,
           w.type # "CONNECT",
           ~sockOpen => in = toClient,
           Refused => \E i \in 1..Len(in) : in[i].type = "REFUSED",
           NEW K, NEW r, NEW h, K = Held', r = reply', h = handle',
           UNCHANGED brokerVars,
           Exchange(toBroker, in, K, brokerIds, got, r, h, Known, options),
           Exchange(Append(toBroker, w), in, K, brokerIds, got, r, h, Known, options)
    PROVE  /\ ExchangeInv'
           /\ connRetries' = connRetries /\ (sockOpen' => sockOpen)
           /\ \/ sockOpen' /\ toBroker' = Append(toBroker, w) /\ toClient' = in
              \/ ~sockOpen' /\ toBroker' = <<>> /\ toClient' = <<>>
<1>1. brokerIds' = brokerIds /\ got' = got /\ CleanStart' = CleanStart
  BY DEF brokerVars, CleanStart
<1>2. toBroker \in Seq(Wire) /\ sockOpen \in BOOLEAN
  BY DEF IInv, TypeOK
<1>3. CASE /\ sockOpen /\ toBroker' = Append(toBroker, w) /\ toClient' = in
           /\ UNCHANGED connVars
  <2>1. sockOpen' = sockOpen /\ connRetries' = connRetries
    BY <1>3 DEF connVars
  <2>2. \A i \in 1..Len(toBroker) : i \in 1..Len(toBroker') /\ toBroker'[i] = toBroker[i]
    BY <1>2, <1>3
  <2>3. Refused => Refused'
    BY <1>3 DEF Refused
  <2>4. Known' \in BOOLEAN /\ (Known' => Known)
    <3>1. SessionUp' => SessionUp
      BY <1>1, <2>1, <2>2, <2>3 DEF SessionUp
    <3> QED BY <3>1, KnownLemma
  <2>5. ExchangeInv'
    BY <1>1, <1>3, <2>4, ExchangeLemma
  <2> QED BY <1>3, <2>1, <2>5
<1>4. CASE CloseSocket /\ UNCHANGED connRetries /\ sockOpen
  <2>1. sockOpen' = FALSE /\ toBroker' = <<>> /\ toClient' = <<>>
    BY <1>4 DEF CloseSocket
  <2>2. Exchange(<<>>, <<>>, K, brokerIds, got, r, h, Known, options)
    BY LostLemma
  <2>3. Known' \in BOOLEAN /\ (Known' => Known)
    BY <2>1, ClosedKnown
  <2>4. ExchangeInv'
    BY <1>1, <2>1, <2>2, <2>3, ExchangeLemma
  <2> QED BY <1>4, <2>1, <2>4
<1>5. CASE ~sockOpen /\ UNCHANGED <<connVars, netVars>>
  <2>1. /\ sockOpen' = FALSE /\ sockOpen' = sockOpen /\ connRetries' = connRetries
        /\ toBroker' = toBroker /\ toClient' = in
    BY <1>2, <1>5 DEF connVars, netVars
  <2>2. toBroker = <<>> /\ toClient = <<>>
    BY <1>5 DEF EInv, SocketOK
  <2>3. Known' \in BOOLEAN /\ (Known' => Known)
    BY <2>1, ClosedKnown
  <2>4. ExchangeInv'
    BY <1>1, <2>1, <2>3, ExchangeLemma
  <2> QED BY <1>5, <2>1, <2>2, <2>4
<1> QED BY <1>3, <1>4, <1>5 DEF Transmit

\* The PUBREL takes the place of the publication, in the queue and the store.
LEMMA ReceivePubrecExchange == ASSUME IInv, EInv, IdsFit, ReceivePubrec PROVE EInv'
<1> DEFINE id == Head(toClient).id
           w == [type |-> "PUBREL", id |-> id, m |-> NoMsg, dup |-> FALSE]
           in == Tail(toClient)
           K == Put(Held, id, "PUBREL", NoMsg)
<1>1. /\ Receive("PUBREC") /\ pc' = pc
      /\ UNCHANGED <<toLoad, nextMsgId, options, reply, handle, brokerIds, got>>
      /\ UNCHANGED brokerVars
  BY DEF ReceivePubrec, loopVars, brokerVars, appVars
<1>2. Persist' = Persist /\ CleanStart' = CleanStart
  BY <1>1 DEF Persist, CleanStart
<1>3. /\ pc = "idle" /\ sockOpen /\ toLoad = {} /\ nextMsgId \in Nat
      /\ toClient \in Seq(Answer) /\ toClient # <<>> /\ Head(toClient).type = "PUBREC"
      /\ in \in Seq(Answer)
      /\ 1 \in 1..Len(toClient) /\ toClient[1] = Head(toClient)
      /\ id < nextMsgId
      /\ \A i \in 1..Len(toBroker) : toBroker[i].id < nextMsgId
      /\ \A i \in 1..Len(in) : in[i].id < nextMsgId
      /\ Refused <=> \E i \in 1..Len(in) : in[i].type = "REFUSED"
      /\ CleanStart => connRetries = -1
      /\ Exchange(toBroker, in, Held, brokerIds, got, reply, handle, Known, options)
  BY <1>1, ReceiveFacts
<1>4. id \in Ids
  <2>1. Head(toClient) \in Answer
    BY <1>3
  <2> QED BY <1>3, <2>1, AnswerFacts
<1> HIDE DEF id, in, K
<1>5. CASE /\ toClient' = in
           /\ UNCHANGED <<queueVars, sentStore, connVars, toBroker, faults>>
  <2>1. Queued' = Queued /\ Held' = Held
    BY <1>2, <1>5, SameQueued DEF Held
  <2>2. sockOpen' = sockOpen /\ connRetries' = connRetries /\ toBroker' = toBroker
    BY <1>5 DEF connVars
  <2>3. Known' \in BOOLEAN /\ (Known' => Known)
    BY <1>1, <1>3, <1>5, <2>2, KnownLemma DEF SessionUp, Refused, CleanStart
  <2>4. ExchangeInv'
    BY <1>1, <1>3, <1>5, <2>1, <2>2, <2>3, ExchangeLemma
  <2>5. /\ \A i \in 1..Len(toBroker') : toBroker'[i].id < nextMsgId
        /\ \A i \in 1..Len(toClient') : toClient'[i].id < nextMsgId
    BY <1>3, <1>5, <2>2
  <2> QED BY <1>1, <1>3, <1>5, <2>1, <2>2, <2>4, <2>5, QuietLemma
<1>6. CASE /\ Malloc # Null
           /\ Enqueue(id, "PUBREL", NoMsg, "IN_PROGRESS")
           /\ sentStore' = IF Persist THEN StorePut(KeyOfShort(id), "PUBREL", NoMsg)
                                      ELSE sentStore
           /\ Transmit(w, in)
  <2>1. Persist => id <= ShortMax /\ KeyOfShort(id) = id
    BY <1>3, <1>4, KeyLemma, IdsLemma
  <2>2. Queued' = Put(Queued, id, "PUBREL", NoMsg)
    BY <1>4, <1>6, IInvQueue, EnqueueQueued
  <2>3. Held' = K
    <3>1. CASE Persist
      BY <1>2, <1>6, <2>1, <3>1 DEF Held, StorePut, Put, K
    <3>2. CASE ~Persist
      BY <1>2, <2>2, <3>2 DEF Held, K
    <3> QED BY <3>1, <3>2
  <2>4. \A s \in Held : s.key = id /\ IsReq(s) => (options.persist => got[s.m] > 0)
    BY <1>3 DEF EInv, ExchangeInv, Exchange, PubrecOK, id
  <2>5. Exchange(toBroker, in, K, brokerIds, got, reply, handle, Known, options)
    BY <1>3, <1>4, <2>1, <2>4, PutPubrelLemma DEF K, Persist
  <2>6. w \in Wire /\ w.type = "PUBREL" /\ w.id = id
    BY <1>4 DEF Wire
  <2>7. \A s \in K : s.key = id => ~IsReq(s)
    BY DEF K, Put, IsReq
  <2> HIDE DEF w
  <2>8. Exchange(Append(toBroker, w), in, K, brokerIds, got, reply, handle, Known, options)
    BY <2>5, <2>6, <2>7, SendOtherLemma
  <2>9. /\ ExchangeInv'
        /\ connRetries' = connRetries /\ (sockOpen' => sockOpen)
        /\ \/ sockOpen' /\ toBroker' = Append(toBroker, w) /\ toClient' = in
           \/ ~sockOpen' /\ toBroker' = <<>> /\ toClient' = <<>>
    BY <1>1, <1>3, <1>6, <2>3, <2>5, <2>6, <2>8, TransmitExchange
  <2>10. QueuedOK'
    <3>1. Queued' \subseteq Held'
      BY <1>3, <2>2, <2>3 DEF EInv, QueuedOK, K, Put
    <3>2. ~Persist => sentStore' = {}
      BY <1>6 DEF EInv, QueuedOK
    <3> QED BY <1>1, <1>2, <1>3, <3>1, <3>2 DEF QueuedOK
  <2>11. IdsOK'
    <3>1. \A s \in Held' : s.key < nextMsgId'
      BY <1>1, <1>3, <2>3 DEF EInv, IdsOK, K, Put
    <3>2. \A i \in 1..Len(toBroker') : toBroker'[i].id < nextMsgId'
      <4>1. CASE toBroker' = Append(toBroker, w)
        <5>1. toBroker \in Seq(Wire)
          BY DEF IInv, TypeOK
        <5>2. \A i \in 1..Len(toBroker') : toBroker'[i] = w \/ (i \in 1..Len(toBroker) /\ toBroker'[i] = toBroker[i])
          BY <4>1, <5>1, <2>6, AppendFacts
        <5> QED BY <1>1, <1>3, <2>6, <5>2
      <4>2. CASE toBroker' = <<>>
        BY <4>2
      <4> QED BY <2>9, <4>1, <4>2
    <3>3. \A i \in 1..Len(toClient') : toClient'[i].id < nextMsgId'
      BY <1>1, <1>3, <2>9
    <3> QED BY <1>1, <1>3, <3>1, <3>2, <3>3 DEF IdsOK
  <2>12. SocketOK'
    BY <1>1, <1>2, <1>3, <2>9 DEF SocketOK
  <2> QED BY <2>9, <2>10, <2>11, <2>12 DEF EInv
<1> QED BY <1>5, <1>6 DEF ReceivePubrec, id, in, w

\* An acknowledged message is gone, from the queue and, unless the delete
\* fails, from the store.
LEMMA ReceiveAckExchange == ASSUME IInv, EInv, IdsFit, ReceiveAck PROVE EInv'
<1> DEFINE id == Head(toClient).id
           in == Tail(toClient)
<1>1. /\ Receive("ACK") /\ pc' = pc /\ toClient' = in /\ Dequeue(id)
      /\ \/ sentStore' = IF Persist THEN StoreDel(KeyOfUShort(id)) ELSE sentStore
         \/ Persist /\ UNCHANGED sentStore
      /\ sockOpen' = sockOpen /\ connRetries' = connRetries /\ toBroker' = toBroker
      /\ UNCHANGED <<toLoad, nextMsgId, options, reply, handle, brokerIds, got>>
  BY DEF ReceiveAck, loopVars, connVars, brokerVars, appVars
<1>2. Persist' = Persist /\ CleanStart' = CleanStart
  BY <1>1 DEF Persist, CleanStart
<1>3. /\ pc = "idle" /\ sockOpen /\ toLoad = {} /\ nextMsgId \in Nat
      /\ toClient \in Seq(Answer) /\ toClient # <<>> /\ Head(toClient).type = "ACK"
      /\ 1 \in 1..Len(toClient) /\ toClient[1] = Head(toClient)
      /\ id < nextMsgId
      /\ \A i \in 1..Len(toBroker) : toBroker[i].id < nextMsgId
      /\ \A i \in 1..Len(in) : in[i].id < nextMsgId
      /\ Refused <=> \E i \in 1..Len(in) : in[i].type = "REFUSED"
      /\ CleanStart => connRetries = -1
      /\ Exchange(toBroker, in, Held, brokerIds, got, reply, handle, Known, options)
  BY <1>1, ReceiveFacts
<1>4. id \in Ids
  <2>1. Head(toClient) \in Answer
    BY <1>3
  <2> QED BY <1>3, <2>1, AnswerFacts
<1> HIDE DEF id, in
<1>5. KeyOfUShort(id) = id
  BY DEF KeyOfUShort
<1>6. Queued' = Del(Queued, id)
  BY <1>1, <1>4, IInvQueue, DequeueQueued
<1>7. Known' \in BOOLEAN /\ (Known' => Known)
  BY <1>1, <1>3, KnownLemma DEF SessionUp, Refused, CleanStart
<1>8. Held' = Del(Held, id) \/ (Persist /\ Held' = Held)
  <2>1. CASE Persist
    BY <1>1, <1>2, <1>5, <2>1 DEF Held, StoreDel, Del
  <2>2. CASE ~Persist
    BY <1>2, <1>6, <2>2 DEF Held
  <2> QED BY <2>1, <2>2
<1>9. /\ \A s \in Held : s.key = id /\ IsReq(s) => got[s.m] > 0
      /\ \A i \in 1..Len(toBroker) : IsReq(toBroker[i]) /\ Q2(toBroker[i].m) => toBroker[i].id # id
      /\ Known => id \notin brokerIds
  BY <1>3 DEF EInv, ExchangeInv, Exchange, AckOK, id
<1>10. Exchange(toBroker, in, Held', brokerIds, got, reply, handle, Known, options)
  <2>1. Exchange(toBroker, in, Del(Held, id), brokerIds, got, reply, handle, Known, options)
    BY <1>3, <1>9, DelLemma
  <2> QED BY <1>3, <1>8, <2>1
<1>11. ExchangeInv'
  BY <1>1, <1>7, <1>10, ExchangeLemma
<1>12. QueuedOK'
  <2>1. Queued' \subseteq Held'
    BY <1>3, <1>6, <1>8 DEF EInv, QueuedOK, Del
  <2>2. ~Persist => sentStore' = {}
    BY <1>1 DEF EInv, QueuedOK
  <2> QED BY <1>1, <1>2, <1>3, <2>1, <2>2 DEF QueuedOK
<1>13. IdsOK'
  <2>1. Held' \subseteq Held
    BY <1>8 DEF Del
  <2> QED BY <1>1, <1>3, <2>1 DEF EInv, IdsOK
<1>14. SocketOK'
  BY <1>1, <1>2, <1>3 DEF SocketOK
<1> QED BY <1>11, <1>12, <1>13, <1>14 DEF EInv

-----------------------------------------------------------------------------
(* Retries and requests.                                                   *)

\* What is written has an id that was given out; what is already in flight
\* has one too.
LEMMA SentIds ==
    ASSUME IInv, NEW w \in Wire, NEW in, NEW n,
           w.id < n, \A i \in 1..Len(toBroker) : toBroker[i].id < n,
           \A i \in 1..Len(in) : in[i].id < n,
           \/ toBroker' = Append(toBroker, w) /\ toClient' = in
           \/ toBroker' = <<>> /\ toClient' = <<>>
    PROVE  /\ \A i \in 1..Len(toBroker') : toBroker'[i].id < n
           /\ \A i \in 1..Len(toClient') : toClient'[i].id < n
<1>1. \A i \in 1..Len(<<>>) : FALSE
  OBVIOUS
<1>2. CASE toBroker' = Append(toBroker, w) /\ toClient' = in
  <2>1. toBroker \in Seq(Wire)
    BY DEF IInv, TypeOK
  <2>2. \A i \in 1..Len(toBroker') :
          toBroker'[i] = w \/ (i \in 1..Len(toBroker) /\ toBroker'[i] = toBroker[i])
    BY <1>2, <2>1, AppendFacts
  <2> QED BY <1>2, <2>2
<1> QED BY <1>1, <1>2

LEMMA StartRetryExchange == ASSUME IInv, EInv, StartRetry PROVE EInv'
<1>1. /\ pc = "idle" /\ pc' = "retry" /\ UNCHANGED queueVars
      /\ sockOpen' = sockOpen /\ connRetries' = connRetries
      /\ toBroker' = toBroker /\ toClient' = toClient
      /\ UNCHANGED <<toLoad, nextMsgId, sentStore, options>>
      /\ UNCHANGED <<brokerIds, got, reply, handle, options>>
  BY DEF StartRetry, RetryDue, connVars, netVars, brokerVars, appVars
<1>2. Queued' = Queued /\ Held' = Held
  BY <1>1, SameQueued DEF Held, Persist
<1>3. Known' \in BOOLEAN /\ (Known' => Known)
  BY <1>1, KnownLemma DEF SessionUp, Refused, CleanStart
<1>4. ExchangeInv'
  <2>1. Exchange(toBroker, toClient, Held, brokerIds, got, reply, handle, Known, options)
    BY DEF EInv, ExchangeInv
  <2> QED BY <1>1, <1>2, <1>3, <2>1, ExchangeLemma
<1>5. \/ toBroker' = <<>> /\ toClient' = <<>>
      \/ sockOpen' /\ (\A i \in 1..Len(toBroker') : toBroker'[i].id < nextMsgId)
                   /\ (\A i \in 1..Len(toClient') : toClient'[i].id < nextMsgId)
  BY <1>1 DEF EInv, IdsOK, SocketOK
<1>6. CleanStart => connRetries' = -1 \/ (connRetries' = RetryCount + 1 /\ ~sockOpen')
  BY <1>1 DEF EInv, SocketOK
<1> QED BY <1>1, <1>2, <1>4, <1>5, <1>6, QuietLemma

\* Marking an entry does not change what it stands for.
LEMMA RetryQueued ==
    ASSUME IInv, RetryEntry
    PROVE  Queued' = Queued
<1> DEFINE a == inProgressQ[cursor]
           L == Cells(inProgressQ)
<1>1. cursor \in 1..Len(inProgressQ) /\ inProgressQ \in Seq(Addr)
  BY DEF IInv, TypeOK, RetryEntry
<1>2. a \in Addr /\ a \in L /\ L \subseteq Addr
  BY <1>1 DEF Cells
<1>3. heap[a] \in Entry
  BY <1>2, IInvQueue, LinkedLemma
<1>4. PICK f : heap' = [heap EXCEPT ![a] = f] /\ Rec(f) = Rec(heap[a])
  BY <1>3 DEF RetryEntry, Rec, Entry
<1>5. heap \in [Addr -> Entry \cup {Freed}]
  BY DEF IInv, TypeOK
<1>6. Cells(inProgressQ') = L
  BY DEF RetryEntry
<1> HIDE DEF a, L
<1>7. \A c \in L : Rec(heap'[c]) = Rec(heap[c])
  BY <1>2, <1>4, <1>5
<1>8. Queued' = {Rec(heap'[c]) : c \in L}
  BY <1>6 DEF Queued
<1>9. Queued = {Rec(heap[c]) : c \in L}
  BY DEF Queued, L
<1> QED BY <1>7, <1>8, <1>9

\* A message that is sent again is one the client holds.
LEMMA RetryEntryExchange == ASSUME IInv, EInv, RetryEntry PROVE EInv'
<1> DEFINE a == inProgressQ[cursor]
           e == heap[a]
           w == WireOf([e EXCEPT !.dup = TRUE])
<1>1. /\ pc = "retry" /\ pc' \in {"idle", "retry"}
      /\ \/ Transmit(w, toClient)
         \/ UNCHANGED <<connVars, netVars>>
      /\ UNCHANGED <<toLoad, nextMsgId, sentStore, options>>
      /\ UNCHANGED <<brokerIds, got, reply, handle, options>>
      /\ UNCHANGED brokerVars
  BY DEF RetryEntry, brokerVars, appVars
<1>2. Persist' = Persist /\ CleanStart' = CleanStart
  BY <1>1 DEF Persist, CleanStart
<1>3. Queued' = Queued /\ Held' = Held
  BY <1>1, <1>2, RetryQueued DEF Held
<1>4. a \in Cells(inProgressQ)
  BY DEF IInv, TypeOK, RetryEntry, Cells
<1>5. e \in Entry
  BY <1>4, IInvQueue, LinkedLemma
<1>6. Rec(e) \in Queued /\ Rec(e) \in Held
  <2>1. Rec(e) \in Queued
    BY <1>4 DEF Queued
  <2> QED BY <2>1 DEF EInv, QueuedOK
<1>7. /\ w \in Wire /\ w.type \in {"REQUEST", "PUBREL"} /\ w.dup = TRUE
      /\ Rec(e) = [key |-> w.id, type |-> w.type, m |-> w.m]
  <2>1. [e EXCEPT !.dup = TRUE] \in Entry
    BY <1>5 DEF Entry
  <2>2. w \in Wire
    BY <2>1, WireLemma
  <2>3. /\ w.type = e.type /\ w.id = e.msgId /\ w.m = e.m /\ w.dup = TRUE
        /\ e.type \in {"REQUEST", "PUBREL"}
    BY <1>5 DEF Entry, WireOf
  <2> QED BY <2>2, <2>3 DEF Rec
<1> HIDE DEF a, e, w
<1>8. Exchange(toBroker, toClient, Held, brokerIds, got, reply, handle, Known, options)
  BY DEF EInv, ExchangeInv
<1>9. Exchange(Append(toBroker, w), toClient, Held, brokerIds, got, reply, handle,
               Known, options)
  <2>1. CASE w.type = "REQUEST"
    BY <1>6, <1>7, <1>8, <2>1, SendRequestLemma DEF IsReq
  <2>2. CASE w.type = "PUBREL"
    <3>1. \A s \in Held : s.key = w.id => s = Rec(e)
      BY <1>6, <1>7, <1>8 DEF Exchange, HeldOK
    <3>2. ~IsReq(Rec(e))
      BY <1>7, <2>2 DEF IsReq
    <3> QED BY <1>7, <1>8, <2>2, <3>1, <3>2, SendOtherLemma
  <2> QED BY <1>7, <2>1, <2>2
<1>10. /\ \A i \in 1..Len(toBroker) : toBroker[i].id < nextMsgId
       /\ \A i \in 1..Len(toClient) : toClient[i].id < nextMsgId
       /\ w.id < nextMsgId
  <2>1. \A s \in Held : s.key < nextMsgId
    BY <1>1 DEF EInv, IdsOK
  <2> QED BY <1>1, <1>6, <1>7, <2>1 DEF EInv, IdsOK
<1>11. CleanStart => connRetries = -1 \/ (connRetries = RetryCount + 1 /\ ~sockOpen)
  BY <1>1 DEF EInv, SocketOK
<1>12. CASE Transmit(w, toClient)
  <2>1. Refused => \E i \in 1..Len(toClient) : toClient[i].type = "REFUSED"
    BY DEF Refused
  <2>2. /\ ExchangeInv'
        /\ connRetries' = connRetries /\ (sockOpen' => sockOpen)
        /\ \/ sockOpen' /\ toBroker' = Append(toBroker, w) /\ toClient' = toClient
           \/ ~sockOpen' /\ toBroker' = <<>> /\ toClient' = <<>>
    BY <1>1, <1>3, <1>7, <1>8, <1>9, <1>12, <2>1, TransmitExchange
  <2>3. /\ \A i \in 1..Len(toBroker') : toBroker'[i].id < nextMsgId
        /\ \A i \in 1..Len(toClient') : toClient'[i].id < nextMsgId
    BY <1>7, <1>10, <2>2, SentIds
  <2> QED BY <1>1, <1>3, <1>11, <2>2, <2>3, QuietLemma
<1>13. CASE UNCHANGED <<connVars, netVars>>
  <2>1. /\ sockOpen' = sockOpen /\ connRetries' = connRetries
        /\ toBroker' = toBroker /\ toClient' = toClient
    BY <1>13 DEF connVars, netVars
  <2>2. Known' \in BOOLEAN /\ (Known' => Known)
    BY <1>1, <2>1, KnownLemma DEF SessionUp, Refused, CleanStart
  <2>3. ExchangeInv'
    BY <1>1, <1>3, <1>8, <2>1, <2>2, ExchangeLemma
  <2>4. \/ toBroker' = <<>> /\ toClient' = <<>>
        \/ sockOpen' /\ (\A i \in 1..Len(toBroker') : toBroker'[i].id < nextMsgId)
                     /\ (\A i \in 1..Len(toClient') : toClient'[i].id < nextMsgId)
    BY <1>10, <2>1 DEF EInv, SocketOK
  <2> QED BY <1>1, <1>3, <1>11, <2>1, <2>3, <2>4, QuietLemma
<1> QED BY <1>1, <1>12, <1>13

\* A request that is not queued: it is rejected, or of QoS 0.
LEMMA UnqueuedRequestExchange ==
    ASSUME IInv, EInv, IdsFit, NEW m \in Msgs, Request(m),
           RequestRejected(m) \/ RequestQos0(m)
    PROVE  EInv'
<1>1. /\ pc = "idle" /\ pc' = pc /\ reply[m] = "NONE"
      /\ UNCHANGED <<toLoad, options, brokerIds, got>> /\ UNCHANGED brokerVars
  BY DEF Request, loopVars, brokerVars
<1>2. UNCHANGED queueVars /\ sentStore' = sentStore
  BY DEF RequestRejected, RequestQos0
<1>3. Persist' = Persist /\ CleanStart' = CleanStart
  BY <1>1 DEF Persist, CleanStart
<1>4. Queued' = Queued /\ Held' = Held
  BY <1>2, <1>3, SameQueued DEF Held
<1>5. nextMsgId \in Nat /\ nextMsgId' \in {nextMsgId, nextMsgId + 1}
  BY NextIdLemma DEF RequestRejected, RequestQos0
<1>6. PICK rc \in Rcs \ {"NONE"} :
        /\ reply' = [reply EXCEPT ![m] = rc]
        /\ Kind[m] = "PUBLISH0" \/ rc # "OK"
  BY DEF RequestRejected, RequestQos0, Reply, Rcs
<1>7. /\ reply' \in [Msgs -> Rcs] /\ reply'[m] = rc
      /\ \A n \in Msgs : n # m => reply'[n] = reply[n]
  BY <1>6 DEF IInv, TypeOK
<1>8. /\ handle' \in [Msgs -> 0..MaxMsgs]
      /\ \A n \in Msgs : n # m => handle'[n] = handle[n]
  <2>1. /\ handle \in [Msgs -> 0..MaxMsgs]
        /\ nextMsgId \in 0..MaxMsgs /\ 0 \in 0..MaxMsgs
    BY IdsLemma DEF IInv, TypeOK
  <2>2. \/ handle' = [handle EXCEPT ![m] = 0]
        \/ handle' = [handle EXCEPT ![m] = nextMsgId]
    BY DEF RequestRejected, RequestQos0, Reply
  <2> QED BY <2>1, <2>2
<1>9. Exchange(toBroker, toClient, Held, brokerIds, got, reply', handle', Known, options)
  <2>1. Exchange(toBroker, toClient, Held, brokerIds, got, reply, handle, Known, options)
    BY DEF EInv, ExchangeInv
  <2>2. PICK q \in [Msgs -> Rcs] : q = reply'
    BY <1>7
  <2>3. PICK k \in [Msgs -> 0..MaxMsgs] : k = handle'
    BY <1>8
  <2>4. \A n \in Msgs : n # m => q[n] = reply[n] /\ k[n] = handle[n]
    BY <1>7, <1>8, <2>2, <2>3
  <2>5. q[m] # "NONE" /\ (Kind[m] = "PUBLISH0" \/ q[m] # "OK")
    BY <1>6, <1>7, <2>2
  <2>6. Exchange(toBroker, toClient, Held, brokerIds, got, q, k, Known, options)
    BY <1>1, <2>1, <2>4, <2>5, AnsweredLemma
  <2> QED BY <2>2, <2>3, <2>6
<1>10. /\ \A i \in 1..Len(toBroker) : toBroker[i].id < nextMsgId
       /\ \A i \in 1..Len(toClient) : toClient[i].id < nextMsgId
       /\ \A s \in Held : s.key < nextMsgId
       /\ \A s \in Held : s.key \in Nat
  BY <1>1, NatLemma DEF EInv, IdsOK
<1>11. \A s \in Held' : s.key < nextMsgId'
  BY <1>4, <1>5, <1>10
<1>12. toBroker \in Seq(Wire) /\ toClient \in Seq(Answer)
  BY DEF IInv, TypeOK
<1>13. /\ \A i \in 1..Len(toBroker) : toBroker[i].id < nextMsgId'
       /\ \A i \in 1..Len(toClient) : toClient[i].id < nextMsgId'
  <2>1. /\ \A i \in 1..Len(toBroker) : toBroker[i].id \in Nat
        /\ \A i \in 1..Len(toClient) : toClient[i].id \in Nat
    BY <1>12, WireFacts, AnswerFacts
  <2> QED BY <1>5, <1>10, <2>1
<1>14. QueuedOK'
  BY <1>1, <1>2, <1>3, <1>4 DEF EInv, QueuedOK
<1>15. CASE RequestRejected(m)
  <2>1. /\ sockOpen' = sockOpen /\ connRetries' = connRetries
        /\ toBroker' = toBroker /\ toClient' = toClient
    BY <1>15 DEF RequestRejected, connVars, netVars
  <2>2. Known' \in BOOLEAN /\ (Known' => Known)
    BY <1>1, <2>1, KnownLemma DEF SessionUp, Refused, CleanStart
  <2>3. ExchangeInv'
    BY <1>1, <1>4, <1>9, <2>1, <2>2, ExchangeLemma
  <2>4. IdsOK'
    BY <1>1, <1>11, <1>13, <2>1 DEF IdsOK
  <2>5. SocketOK'
    BY <1>1, <1>3, <2>1 DEF EInv, SocketOK
  <2> QED BY <1>14, <2>3, <2>4, <2>5 DEF EInv
<1>16. CASE RequestQos0(m)
  <2> DEFINE w == Qos0Msg(m)
  <2>1. Transmit(w, toClient) /\ Kind[m] = "PUBLISH0" /\ nextMsgId' = nextMsgId + 1
    BY <1>16, NextIdLemma DEF RequestQos0
  <2>2. w \in Wire /\ w.type = "QOS0" /\ w.m = m /\ w.id = 0
    BY DEF Wire, Qos0Msg
  <2> HIDE DEF w
  <2>3. Exchange(Append(toBroker, w), toClient, Held, brokerIds, got, reply', handle',
                 Known, options)
    BY <1>9, <2>1, <2>2, SendOtherLemma
  <2>4. Refused => \E i \in 1..Len(toClient) : toClient[i].type = "REFUSED"
    BY DEF Refused
  <2>5. /\ ExchangeInv'
        /\ connRetries' = connRetries /\ (sockOpen' => sockOpen)
        /\ \/ sockOpen' /\ toBroker' = Append(toBroker, w) /\ toClient' = toClient
           \/ ~sockOpen' /\ toBroker' = <<>> /\ toClient' = <<>>
    BY <1>1, <1>4, <1>9, <2>1, <2>2, <2>3, <2>4, TransmitExchange
  <2>6. w.id < nextMsgId'
    BY <1>5, <2>1, <2>2
  <2>7. /\ \A i \in 1..Len(toBroker') : toBroker'[i].id < nextMsgId'
        /\ \A i \in 1..Len(toClient') : toClient'[i].id < nextMsgId'
    BY <1>13, <2>2, <2>5, <2>6, SentIds
  <2>8. IdsOK'
    BY <1>1, <1>11, <2>7 DEF IdsOK
  <2>9. SocketOK'
    BY <1>1, <1>3, <2>5 DEF EInv, SocketOK
  <2> QED BY <1>14, <2>5, <2>8, <2>9 DEF EInv
<1> QED BY <1>15, <1>16

\* A request that is queued gets an id that nothing in use has.
LEMMA QueuedRequestExchange ==
    ASSUME IInv, EInv, IdsFit, NEW m \in Msgs, Request(m), RequestQueued(m)
    PROVE  EInv'
<1> DEFINE id == nextMsgId
           w == [type |-> "REQUEST", id |-> id, m |-> m, dup |-> FALSE]
           K == Put(Held, id, "REQUEST", m)
<1>1. /\ pc = "idle" /\ pc' = pc /\ reply[m] = "NONE" /\ Kind[m] # "PUBLISH0"
      /\ UNCHANGED <<toLoad, options, brokerIds, got>> /\ UNCHANGED brokerVars
      /\ reply' = [reply EXCEPT ![m] = "OK"] /\ handle' = [handle EXCEPT ![m] = id]
      /\ Malloc # Null /\ Enqueue(id, "REQUEST", m, "IN_PROGRESS")
      /\ sentStore' = IF Persist THEN StorePut(KeyOfShort(id), "REQUEST", m)
                                 ELSE sentStore
      /\ Transmit(w, toClient)
  BY DEF Request, RequestQueued, Reply, loopVars, brokerVars
<1>2. Persist' = Persist /\ CleanStart' = CleanStart
  BY <1>1 DEF Persist, CleanStart
<1>3. id \in Ids /\ id \in Nat /\ nextMsgId' = id + 1 /\ toLoad = {}
  BY <1>1, NextIdLemma DEF IInv, TypeOK, RequestQueued, EInv, QueuedOK
<1>4. Persist => id <= ShortMax /\ KeyOfShort(id) = id
  BY <1>3, KeyLemma
<1>5. /\ \A i \in 1..Len(toBroker) : toBroker[i].id < id /\ toBroker[i].id \in Nat
      /\ \A i \in 1..Len(toClient) : toClient[i].id < id /\ toClient[i].id \in Nat
      /\ \A s \in Held : s.key < id /\ s.key \in Nat
  <2>1. toBroker \in Seq(Wire) /\ toClient \in Seq(Answer)
    BY DEF IInv, TypeOK
  <2>2. /\ \A i \in 1..Len(toBroker) : toBroker[i].id \in Nat
        /\ \A i \in 1..Len(toClient) : toClient[i].id \in Nat
        /\ \A s \in Held : s.key \in Nat
    BY <2>1, WireFacts, AnswerFacts, NatLemma
  <2>3. /\ \A i \in 1..Len(toBroker) : toBroker[i].id < id
        /\ \A i \in 1..Len(toClient) : toClient[i].id < id
        /\ \A s \in Held : s.key < id
    BY <1>1 DEF EInv, IdsOK
  <2> QED BY <2>2, <2>3
<1>6. Queued' = Put(Queued, id, "REQUEST", m)
  BY <1>1, <1>3, IInvQueue, EnqueueQueued
<1>7. w \in Wire /\ w.type = "REQUEST" /\ w.id = id /\ w.m = m
  BY <1>3 DEF Wire
<1> HIDE DEF id, w, K
<1>8. Held' = K
  <2>1. CASE Persist
    BY <1>1, <1>2, <1>4, <2>1 DEF Held, StorePut, Put, K
  <2>2. CASE ~Persist
    BY <1>2, <1>6, <2>2 DEF Held, K
  <2> QED BY <2>1, <2>2
<1>9. Exchange(toBroker, toClient, Held, brokerIds, got, reply, handle, Known, options)
  BY DEF EInv, ExchangeInv
<1>10. /\ \A s \in Held : s.key # id
       /\ \A i \in 1..Len(toBroker) : toBroker[i].id # id
       /\ \A i \in 1..Len(toClient) : toClient[i].id # id
  BY <1>3, <1>5
<1>11. Exchange(toBroker, toClient, K, brokerIds, got, reply', handle', Known, options)
  BY <1>1, <1>3, <1>4, <1>9, <1>10, PutRequestLemma DEF K, Persist
<1>12. /\ got[m] = 0
       /\ \A i \in 1..Len(toBroker) : IsReq(toBroker[i]) => toBroker[i].m # m
  BY <1>1, <1>9, NewRequestLemma
<1>13. [key |-> w.id, type |-> "REQUEST", m |-> w.m] \in K
  BY <1>7 DEF K, Put
<1>14. Exchange(Append(toBroker, w), toClient, K, brokerIds, got, reply', handle',
                Known, options)
  BY <1>7, <1>11, <1>12, <1>13, SendRequestLemma DEF IsReq
<1>15. Refused => \E i \in 1..Len(toClient) : toClient[i].type = "REFUSED"
  BY DEF Refused
<1>16. /\ ExchangeInv'
       /\ connRetries' = connRetries /\ (sockOpen' => sockOpen)
       /\ \/ sockOpen' /\ toBroker' = Append(toBroker, w) /\ toClient' = toClient
          \/ ~sockOpen' /\ toBroker' = <<>> /\ toClient' = <<>>
  BY <1>1, <1>7, <1>8, <1>11, <1>14, <1>15, TransmitExchange
<1>17. QueuedOK'
  <2>1. Queued' \subseteq Held'
    BY <1>3, <1>6, <1>8 DEF EInv, QueuedOK, K, Put
  <2>2. ~Persist => sentStore' = {}
    BY <1>1 DEF EInv, QueuedOK
  <2> QED BY <1>1, <1>2, <1>3, <2>1, <2>2 DEF QueuedOK
<1>18. IdsOK'
  <2>1. \A s \in Held' : s.key < nextMsgId'
    BY <1>3, <1>5, <1>8 DEF K, Put
  <2>2. /\ w.id < nextMsgId'
        /\ \A i \in 1..Len(toBroker) : toBroker[i].id < nextMsgId'
        /\ \A i \in 1..Len(toClient) : toClient[i].id < nextMsgId'
    BY <1>3, <1>5, <1>7
  <2>3. /\ \A i \in 1..Len(toBroker') : toBroker'[i].id < nextMsgId'
        /\ \A i \in 1..Len(toClient') : toClient'[i].id < nextMsgId'
    BY <1>7, <1>16, <2>2, SentIds
  <2> QED BY <1>1, <2>1, <2>3 DEF IdsOK
<1>19. SocketOK'
  BY <1>1, <1>2, <1>16 DEF EInv, SocketOK
<1> QED BY <1>16, <1>17, <1>18, <1>19 DEF EInv

-----------------------------------------------------------------------------
(* What the broker takes.                                                  *)

\* What it has to start from.
LEMMA BrokerFacts ==
    ASSUME IInv, EInv, NEW type, BrokerTakes(type)
    PROVE  /\ pc \in {"idle", "retry"} /\ sockOpen /\ ~Refused
           /\ toBroker # <<>> /\ Head(toBroker).type = type
           /\ toBroker' = Tail(toBroker)
           /\ Exchange(toBroker, toClient, Held, brokerIds, got, reply, handle,
                       Known, options)
           /\ Exchange(Tail(toBroker), toClient, Held, brokerIds, got, reply, handle,
                       Known, options)
           /\ \A i \in 1..Len(Tail(toBroker)) : Tail(toBroker)[i].type # "CONNECT"
           /\ Head(toBroker).id < nextMsgId
           /\ type # "CONNECT" /\ Persist => Known
           /\ Held' = Held /\ options' = options /\ reply' = reply /\ handle' = handle
<1>1. /\ sockOpen /\ ~Refused /\ toBroker # <<>> /\ Head(toBroker).type = type
      /\ toBroker' = Tail(toBroker) /\ UNCHANGED queueVars /\ sentStore' = sentStore
      /\ options' = options /\ reply' = reply /\ handle' = handle
  BY DEF BrokerTakes, appVars
<1>2. pc \in {"idle", "retry"}
  BY <1>1 DEF EInv, SocketOK, IInv, TypeOK
<1>3. Exchange(toBroker, toClient, Held, brokerIds, got, reply, handle, Known, options)
  BY DEF EInv, ExchangeInv
<1>4. /\ Exchange(Tail(toBroker), toClient, Held, brokerIds, got, reply, handle,
                  Known, options)
      /\ \A i \in 1..Len(Tail(toBroker)) : Tail(toBroker)[i].type # "CONNECT"
  BY <1>1, <1>3, TakeLemma
<1>5. /\ 1 \in 1..Len(toBroker) /\ toBroker[1] = Head(toBroker)
      /\ Len(toBroker) \in Nat
  BY <1>1, TailFacts DEF IInv, TypeOK
<1>6. Head(toBroker).id < nextMsgId
  BY <1>2, <1>5 DEF EInv, IdsOK
<1>7. type # "CONNECT" /\ Persist => Known
  <2> SUFFICES ASSUME type # "CONNECT", Persist, NEW i \in 1..Len(toBroker),
                      toBroker[i].type = "CONNECT"
               PROVE  FALSE
    BY <1>1 DEF Known, SessionUp
  <2>1. i = 1
    BY <1>3 DEF Exchange, ConnectOK
  <2> QED BY <1>1, <1>5, <2>1
<1>8. Held' = Held
  BY <1>1, SameQueued DEF Held, Persist
<1> QED BY <1>1, <1>2, <1>3, <1>4, <1>6, <1>7, <1>8

\* Once the exchange is kept, so is the rest.
LEMMA BrokerEnd ==
    ASSUME IInv, EInv, NEW type, BrokerTakes(type), NEW a \in Answer, a.id < nextMsgId,
           toClient' = toClient \/ toClient' = Append(toClient, a),
           ExchangeInv'
    PROVE  EInv'
<1>1. /\ sockOpen' = sockOpen /\ connRetries' = connRetries /\ pc' = pc
      /\ UNCHANGED <<toLoad, nextMsgId, sentStore, options>> /\ UNCHANGED queueVars
      /\ sockOpen /\ toBroker # <<>> /\ toBroker' = Tail(toBroker)
  BY DEF BrokerTakes, loopVars, connVars, appVars
<1>2. Queued' = Queued /\ Held' = Held /\ pc \in {"idle", "retry"}
  BY <1>1, SameQueued, BrokerFacts
<1>3. toBroker \in Seq(Wire) /\ toClient \in Seq(Answer)
  BY DEF IInv, TypeOK
<1>4. /\ \A i \in 1..Len(toBroker) : toBroker[i].id < nextMsgId
      /\ \A i \in 1..Len(toClient) : toClient[i].id < nextMsgId
  BY <1>2 DEF EInv, IdsOK
<1>5. \A i \in 1..Len(toBroker') : toBroker'[i].id < nextMsgId
  <2>1. \A i \in 1..Len(toBroker') : i + 1 \in 1..Len(toBroker) /\ toBroker'[i] = toBroker[i + 1]
    BY <1>1, <1>3, TailFacts
  <2> QED BY <1>4, <2>1
<1>6. \A i \in 1..Len(toClient') : toClient'[i].id < nextMsgId
  <2>1. CASE toClient' = toClient
    BY <1>4, <2>1
  <2>2. CASE toClient' = Append(toClient, a)
    <3>1. \A i \in 1..Len(toClient') :
            toClient'[i] = a \/ (i \in 1..Len(toClient) /\ toClient'[i] = toClient[i])
      BY <1>3, <2>2, AppendFacts
    <3> QED BY <1>4, <3>1
  <2> QED BY <2>1, <2>2
<1>7. CleanStart => connRetries' = -1 \/ (connRetries' = RetryCount + 1 /\ ~sockOpen')
  BY <1>1, <1>2 DEF EInv, SocketOK
<1> QED BY <1>1, <1>2, <1>5, <1>6, <1>7, QuietLemma

\* The session goes on as the broker knew it.
LEMMA BrokerKnown ==
    ASSUME IInv, EInv, NEW type, BrokerTakes(type), type # "CONNECT"
    PROVE  Known' \in BOOLEAN /\ (Known' => Known)
<1>1. /\ Persist => Known
      /\ options' = options
  BY BrokerFacts
<1>2. Persist' = Persist
  BY <1>1 DEF Persist
<1> QED BY <1>1, <1>2 DEF Known

LEMMA BrokerConnectExchange == ASSUME IInv, EInv, BrokerConnect PROVE EInv'
<1> DEFINE a == [type |-> "CONNACK", id |-> 0]
           D == Tail(toBroker)
<1>1. /\ BrokerTakes("CONNECT") /\ got' = got /\ toClient' = Append(toClient, a)
      /\ brokerIds' = (IF CleanStart THEN {} ELSE brokerIds)
  BY DEF BrokerConnect, Answers
<1>2. /\ toBroker # <<>> /\ Head(toBroker).type = "CONNECT" /\ toBroker' = D
      /\ Exchange(toBroker, toClient, Held, brokerIds, got, reply, handle, Known, options)
      /\ Exchange(D, toClient, Held, brokerIds, got, reply, handle, Known, options)
      /\ Head(toBroker).id < nextMsgId
      /\ Held' = Held /\ options' = options /\ reply' = reply /\ handle' = handle
  BY <1>1, BrokerFacts
<1>3. a \in Answer /\ a.type = "CONNACK" /\ a.id < nextMsgId
  <2>1. nextMsgId \in Ids
    BY <1>1, BrokerFacts DEF IInv, TypeOK
  <2> QED BY <2>1 DEF Answer, Ids
<1>4. Persist' = Persist /\ CleanStart' = CleanStart
  BY <1>2 DEF Persist, CleanStart
<1> HIDE DEF a, D
<1>5. PICK v \in BOOLEAN : v = Known'
  BY DEF Known
<1>6. Exchange(D, toClient, Held, brokerIds', got, reply, handle, v, options)
  <2>1. CASE CleanStart
    <3>1. /\ \A s \in Held : IsReq(s) => got[s.m] = 0
          /\ \A i \in 1..Len(D) : IsReq(D[i]) => got[D[i].m] = 0
      BY <1>2, <2>1, TakeOtherFacts DEF CleanStart, D
    <3>2. Exchange(D, toClient, Held, {}, got, reply, handle, v, options)
      BY <1>2, <3>1, CleanLemma
    <3> QED BY <1>1, <2>1, <3>2
  <2>2. CASE ~CleanStart
    <3>1. v => Known
      BY <1>4, <1>5, <2>2 DEF Known, SessionUp
    <3>2. PICK u : u = Known
      OBVIOUS
    <3>3. Exchange(D, toClient, Held, brokerIds, got, reply, handle, u, options) /\ (v => u)
      BY <1>2, <3>1, <3>2
    <3>4. Exchange(D, toClient, Held, brokerIds, got, reply, handle, v, options)
      BY <3>3, WeakenLemma
    <3> QED BY <1>1, <2>2, <3>4
  <2> QED BY <2>1, <2>2
<1>7. Exchange(D, Append(toClient, a), Held, brokerIds', got, reply, handle, v, options)
  BY <1>3, <1>6, AnswerLemma
<1>8. ExchangeInv'
  BY <1>1, <1>2, <1>5, <1>7 DEF ExchangeInv
<1> QED BY <1>1, <1>3, <1>8, BrokerEnd

LEMMA BrokerQos0Exchange == ASSUME IInv, EInv, BrokerQos0 PROVE EInv'
<1> DEFINE a == [type |-> "CONNACK", id |-> 0]
           D == Tail(toBroker)
           m == Head(toBroker).m
<1>1. /\ BrokerTakes("QOS0") /\ got' = Act(m) /\ toClient' = toClient
      /\ brokerIds' = brokerIds
  BY DEF BrokerQos0
<1>2. /\ toBroker # <<>> /\ Head(toBroker).type = "QOS0" /\ toBroker' = D
      /\ Exchange(toBroker, toClient, Held, brokerIds, got, reply, handle, Known, options)
      /\ Exchange(D, toClient, Held, brokerIds, got, reply, handle, Known, options)
      /\ \A i \in 1..Len(D) : D[i].type # "CONNECT"
      /\ Held' = Held /\ options' = options /\ reply' = reply /\ handle' = handle
  BY <1>1, BrokerFacts
<1>3. a \in Answer /\ a.id < nextMsgId
  <2>1. nextMsgId \in Ids
    BY <1>1, BrokerFacts DEF IInv, TypeOK
  <2> QED BY <2>1 DEF Answer, Ids
<1>4. m \in Msgs /\ Kind[m] = "PUBLISH0"
  BY <1>2, TakeOtherFacts
<1> HIDE DEF a, D, m
<1>5. PICK q : q = Act(m)
  OBVIOUS
<1>6. /\ q \in [Msgs -> 0..2] /\ q[m] > 0
      /\ \A n \in Msgs : n # m => q[n] = got[n]
  <2>1. got \in [Msgs -> 0..2]
    BY DEF IInv, TypeOK
  <2> QED BY <1>4, <1>5, <2>1 DEF Act
<1>7. ~Q2(m)
  BY <1>4 DEF Q2
<1>8. Exchange(D, toClient, Held, brokerIds, q, reply, handle, Known, options)
  BY <1>2, <1>4, <1>6, <1>7, ActPlainLemma
<1>9. ExchangeInv'
  <2>1. Known' \in BOOLEAN /\ (Known' => Known)
    BY <1>1, BrokerKnown
  <2> QED BY <1>1, <1>2, <1>5, <1>8, <2>1, ExchangeLemma
<1> QED BY <1>1, <1>3, <1>9, BrokerEnd

LEMMA BrokerPubrelExchange == ASSUME IInv, EInv, BrokerPubrel PROVE EInv'
<1> DEFINE id == Head(toBroker).id
           a == [type |-> "ACK", id |-> id]
           D == Tail(toBroker)
           b == brokerIds \ {id}
<1>1. /\ BrokerTakes("PUBREL") /\ got' = got /\ toClient' = Append(toClient, a)
      /\ brokerIds' = b
  BY DEF BrokerPubrel, Answers
<1>2. /\ toBroker # <<>> /\ Head(toBroker).type = "PUBREL" /\ toBroker' = D
      /\ Exchange(toBroker, toClient, Held, brokerIds, got, reply, handle, Known, options)
      /\ Exchange(D, toClient, Held, brokerIds, got, reply, handle, Known, options)
      /\ id < nextMsgId
      /\ Held' = Held /\ options' = options /\ reply' = reply /\ handle' = handle
  BY <1>1, BrokerFacts
<1>3. /\ id \in Ids
      /\ \A s \in Held : s.key = id => ~IsReq(s)
      /\ \A i \in 1..Len(D) : IsReq(D[i]) => D[i].id # id
  BY <1>2, TakeOtherFacts
<1>4. a \in Answer /\ a.id = id /\ a.type = "ACK"
  BY <1>3 DEF Answer
<1> HIDE DEF a, D, id
<1>5. Exchange(D, toClient, Held, b, got, reply, handle, Known, options)
  BY <1>2, <1>3, ReleaseLemma
<1>6. id \notin b
  OBVIOUS
<1> HIDE DEF b
<1>7. Exchange(D, Append(toClient, a), Held, b, got, reply, handle, Known, options)
  BY <1>3, <1>4, <1>5, <1>6, AnswerLemma
<1>8. ExchangeInv'
  <2>1. Known' \in BOOLEAN /\ (Known' => Known)
    BY <1>1, BrokerKnown
  <2> QED BY <1>1, <1>2, <1>7, <2>1, ExchangeLemma
<1>9. a.id < nextMsgId
  BY <1>2, <1>4
<1> QED BY <1>1, <1>4, <1>8, <1>9, BrokerEnd

\* Publication or not, the broker acts on a request and answers it.
LEMMA BrokerRequestExchange == ASSUME IInv, EInv, BrokerRequest PROVE EInv'
<1> DEFINE w == Head(toBroker)
           D == Tail(toBroker)
<1>1. BrokerTakes("REQUEST")
  BY DEF BrokerRequest
<1>2. /\ toBroker # <<>> /\ IsReq(w) /\ toBroker' = D
      /\ Exchange(toBroker, toClient, Held, brokerIds, got, reply, handle, Known, options)
      /\ Exchange(D, toClient, Held, brokerIds, got, reply, handle, Known, options)
      /\ \A i \in 1..Len(D) : D[i].type # "CONNECT"
      /\ w.id < nextMsgId /\ (Persist => Known)
      /\ Held' = Held /\ options' = options /\ reply' = reply /\ handle' = handle
  <2>1. "REQUEST" # "CONNECT"
    OBVIOUS
  <2>2. /\ toBroker # <<>> /\ w.type = "REQUEST" /\ toBroker' = D
        /\ w.id < nextMsgId /\ (Persist => Known)
        /\ Held' = Held /\ options' = options /\ reply' = reply /\ handle' = handle
    BY <1>1, <2>1, BrokerFacts
  <2>3. /\ Exchange(toBroker, toClient, Held, brokerIds, got, reply, handle, Known, options)
        /\ Exchange(D, toClient, Held, brokerIds, got, reply, handle, Known, options)
        /\ \A i \in 1..Len(D) : D[i].type # "CONNECT"
    BY <1>1, BrokerFacts
  <2> QED BY <2>2, <2>3 DEF IsReq
<1>3. /\ w.id \in Ids /\ w.m \in Msgs /\ w.dup \in BOOLEAN
      /\ reply[w.m] = "OK" /\ handle[w.m] = w.id /\ Kind[w.m] # "PUBLISH0"
      /\ \A s \in Held : s.key = w.id /\ IsReq(s) => s.m = w.m
      /\ \A i \in 1..Len(D) : IsReq(D[i]) =>
           (D[i].id = w.id <=> D[i].m = w.m) /\ (Q2(w.m) /\ D[i].m = w.m => D[i].dup)
      /\ Q2(w.m) =>
           /\ \E s \in Held : s.key = w.id
           /\ got[w.m] > 0 => w.dup /\ w.id \in brokerIds
           /\ \A i \in 1..Len(toClient) :
                toClient[i].type = "ACK" => toClient[i].id # w.id
      /\ Known /\ ~Q2(w.m) => w.id \notin brokerIds
  BY <1>2, TakeRequestFacts
<1> HIDE DEF w, D
<1>4. PICK q : q = Act(w.m)
  OBVIOUS
<1>5. /\ q \in [Msgs -> 0..2] /\ q[w.m] > 0 /\ (got[w.m] = 0 => q[w.m] = 1)
      /\ \A n \in Msgs : n # w.m => q[n] = got[n]
  <2>1. got \in [Msgs -> 0..2]
    BY DEF IInv, TypeOK
  <2> QED BY <1>3, <1>4, <2>1 DEF Act
<1>6. Known' \in BOOLEAN /\ (Known' => Known)
  BY <1>1, BrokerKnown
<1>7. CASE Q2(w.m)
  <2> DEFINE a == [type |-> "PUBREC", id |-> w.id]
             b == brokerIds \cup {w.id}
  <2>1. /\ got' = (IF w.dup /\ w.id \in brokerIds THEN got ELSE q)
        /\ brokerIds' = b /\ toClient' = Append(toClient, a)
    BY <1>4, <1>7 DEF BrokerRequest, Answers, Q2, w
  <2>2. a \in Answer /\ a.type = "PUBREC" /\ a.id = w.id
    BY <1>3 DEF Answer
  <2> HIDE DEF a
  <2>3. ASSUME w.dup /\ w.id \in brokerIds PROVE ExchangeInv'
    <3>1. got' = got /\ b = brokerIds
      BY <2>1, <2>3
    <3>2. \A s \in Held : s.key = w.id /\ IsReq(s) =>
            Q2(s.m) /\ (options.persist => got[s.m] > 0)
      <4> SUFFICES ASSUME NEW s \in Held, s.key = w.id, IsReq(s)
                   PROVE  Q2(s.m) /\ (options.persist => got[s.m] > 0)
        OBVIOUS
      <4>1. Q2(s.m)
        BY <1>3, <1>7
      <4>2. ASSUME options.persist PROVE got[s.m] > 0
        <5>1. Known
          BY <1>2, <4>2 DEF Persist
        <5>2. PICK t \in Held : t.key = w.id /\ (IsReq(t) => Q2(t.m) /\ got[t.m] > 0)
          BY <1>2, <2>3, <5>1 DEF Exchange, UnreleasedOK
        <5>3. t = s
          BY <1>2, <5>2 DEF Exchange, HeldOK
        <5> QED BY <5>2, <5>3
      <4> QED BY <4>1, <4>2
    <3>3. Exchange(D, Append(toClient, a), Held, brokerIds, got, reply, handle,
                   Known, options)
      BY <1>2, <2>2, <3>2, AnswerLemma
    <3> QED BY <1>2, <1>6, <2>1, <3>1, <3>3, ExchangeLemma
  <2>4. ASSUME ~(w.dup /\ w.id \in brokerIds) PROVE ExchangeInv'
    <3>1. got[w.m] = 0 /\ q[w.m] = 1
      <4>1. got[w.m] \in 0..2
        BY <1>3 DEF IInv, TypeOK
      <4> QED BY <1>3, <1>5, <1>7, <2>4, <4>1
    <3>2. Exchange(D, toClient, Held, b, q, reply, handle, Known, options)
      BY <1>2, <1>3, <1>5, <1>7, <3>1, ActOnceLemma
    <3> HIDE DEF b
    <3>3. \A s \in Held : s.key = w.id /\ IsReq(s) =>
            Q2(s.m) /\ (options.persist => q[s.m] > 0)
      BY <1>3, <1>5, <1>7
    <3>4. Exchange(D, Append(toClient, a), Held, b, q, reply, handle, Known, options)
      BY <2>2, <3>2, <3>3, AnswerLemma
    <3>5. PICK C : C = Append(toClient, a)
      OBVIOUS
    <3>6. Exchange(D, C, Held, b, q, reply, handle, Known, options)
      BY <3>4, <3>5
    <3>7. /\ D = toBroker' /\ C = toClient' /\ Held = Held' /\ b = brokerIds'
          /\ q = got' /\ reply = reply' /\ handle = handle' /\ options' = options
      BY <1>2, <2>1, <2>4, <3>5
    <3> QED BY <1>6, <3>6, <3>7, ExchangeLemma
  <2>5. ExchangeInv'
    BY <2>3, <2>4
  <2>6. a.id < nextMsgId /\ (toClient' = toClient \/ toClient' = Append(toClient, a))
    BY <1>2, <2>1, <2>2
  <2> QED BY <1>1, <2>2, <2>5, <2>6, BrokerEnd
<1>8. CASE ~Q2(w.m)
  <2> DEFINE a == [type |-> "ACK", id |-> w.id]
  <2>1. got' = q /\ brokerIds' = brokerIds /\ toClient' = Append(toClient, a)
    BY <1>4, <1>8 DEF BrokerRequest, Answers, Q2, w
  <2>2. a \in Answer /\ a.type = "ACK" /\ a.id = w.id
    BY <1>3 DEF Answer
  <2> HIDE DEF a
  <2>3. Exchange(D, toClient, Held, brokerIds, q, reply, handle, Known, options)
    BY <1>2, <1>3, <1>5, <1>8, ActPlainLemma
  <2>4. /\ \A s \in Held : s.key = w.id /\ IsReq(s) => ~Q2(s.m) /\ q[s.m] > 0
        /\ \A j \in 1..Len(D) : IsReq(D[j]) /\ Q2(D[j].m) => D[j].id # w.id
        /\ Known => w.id \notin brokerIds
    BY <1>3, <1>5, <1>8
  <2>5. Exchange(D, Append(toClient, a), Held, brokerIds, q, reply, handle, Known, options)
    BY <2>2, <2>3, <2>4, AnswerLemma
  <2>6. ExchangeInv'
    <3>1. PICK C : C = Append(toClient, a)
      OBVIOUS
    <3>2. Exchange(D, C, Held, brokerIds, q, reply, handle, Known, options)
      BY <2>5, <3>1
    <3>3. /\ D = toBroker' /\ C = toClient' /\ Held = Held' /\ brokerIds = brokerIds'
          /\ q = got' /\ reply = reply' /\ handle = handle' /\ options' = options
      BY <1>2, <2>1, <3>1
    <3> QED BY <1>6, <3>2, <3>3, ExchangeLemma
  <2>7. a.id < nextMsgId /\ (toClient' = toClient \/ toClient' = Append(toClient, a))
    BY <1>2, <2>1, <2>2
  <2> QED BY <1>1, <2>2, <2>6, <2>7, BrokerEnd
<1> QED BY <1>7, <1>8

LEMMA BrokerRefusesExchange == ASSUME IInv, EInv, BrokerRefuses PROVE EInv'
<1> DEFINE a == [type |-> "REFUSED", id |-> 0]
<1>1. /\ sockOpen /\ sockOpen' = sockOpen /\ toBroker' = <<>>
      /\ toClient' = Append(toClient, a) /\ UNCHANGED queueVars
      /\ UNCHANGED <<pc, toLoad, connRetries, nextMsgId, sentStore, brokerIds, got,
                     reply, handle, options>>
  BY DEF BrokerRefuses, Answers, loopVars, connVars, brokerVars, appVars
<1>2. /\ pc \in {"idle", "retry"} /\ nextMsgId \in Ids /\ toClient \in Seq(Answer)
      /\ pc' = pc
  BY <1>1 DEF EInv, SocketOK, IInv, TypeOK
<1>3. a \in Answer /\ a.id < nextMsgId /\ a.type = "REFUSED" /\ a.id = 0
  BY <1>2 DEF Answer, Ids
<1>4. Persist' = Persist /\ CleanStart' = CleanStart /\ Held' = Held /\ Queued' = Queued
  BY <1>1, SameQueued DEF Persist, CleanStart, Held
<1> HIDE DEF a
<1>5. LET n == Len(toClient) + 1
      IN  /\ toClient' \in Seq(Answer) /\ Len(toClient') = n /\ toClient'[n] = a
          /\ n \in 1..n
          /\ \A i \in 1..Len(toClient') :
               toClient'[i] = a \/ (i \in 1..Len(toClient) /\ toClient'[i] = toClient[i])
  BY <1>1, <1>2, <1>3, AppendFacts
<1>6. Refused'
  BY <1>3, <1>5 DEF Refused
<1>7. Known' \in BOOLEAN /\ (Known' => Known)
  BY <1>1, <1>4, <1>6, KnownLemma DEF SessionUp
<1>8. PICK B, C : B = <<>> /\ C = Append(toClient, a)
  OBVIOUS
<1>9. \A j \in 1..Len(B) : FALSE
  BY <1>8
<1>10. Exchange(B, toClient, Held, brokerIds, got, reply, handle, Known, options)
  BY <1>8, EmptyBrokerLemma DEF EInv, ExchangeInv
<1>11. Exchange(B, C, Held, brokerIds, got, reply, handle, Known, options)
  BY <1>3, <1>8, <1>10, AnswerLemma
<1>12. ExchangeInv'
  BY <1>1, <1>4, <1>7, <1>8, <1>11, ExchangeLemma
<1>13. \A i \in 1..Len(toBroker') : toBroker'[i].id < nextMsgId
  BY <1>1
<1>14. \A i \in 1..Len(toClient') : toClient'[i].id < nextMsgId
  <2>1. \A i \in 1..Len(toClient) : toClient[i].id < nextMsgId
    BY <1>2 DEF EInv, IdsOK
  <2> QED BY <1>3, <1>5, <2>1
<1>15. CleanStart => connRetries' = -1 \/ (connRetries' = RetryCount + 1 /\ ~sockOpen')
  BY <1>1, <1>2 DEF EInv, SocketOK
<1> QED BY <1>1, <1>2, <1>4, <1>12, <1>13, <1>14, <1>15, QuietLemma

-----------------------------------------------------------------------------
(* Every step.                                                             *)

LEMMA InitExchange == Init => EInv
<1> SUFFICES ASSUME Init PROVE EInv
  OBVIOUS
<1>1. IInv
  BY InitLemma
<1>2. /\ toBroker = <<>> /\ toClient = <<>> /\ sentStore = {} /\ brokerIds = {}
      /\ got = [m \in Msgs |-> 0] /\ reply = [m \in Msgs |-> "NONE"]
      /\ pc = "off" /\ toLoad = {} /\ sockOpen = FALSE /\ inProgressQ = <<>>
  BY DEF Init
<1>3. Queued = {} /\ Held = {}
  <2>1. Cells(inProgressQ) = {}
    BY <1>2 DEF Cells
  <2> QED BY <1>2, <2>1 DEF Queued, Held
<1>4. ExchangeType(<<>>, <<>>, {}, {}, got, reply, handle, Known, options)
  BY <1>1, OptionsLemma DEF ExchangeType, IInv, TypeOK
<1>5. \A i \in 1..Len(<<>>) : FALSE
  OBVIOUS
<1>6. /\ HeldOK({}, reply, handle, options) /\ GotOK({}, {}, got, reply)
      /\ KeptOK({}, got, reply, options) /\ UnreleasedOK({}, {}, got, Known)
  BY <1>2 DEF HeldOK, GotOK, KeptOK, UnreleasedOK
<1>7. /\ ConnectOK(<<>>, {}, got, options)
      /\ RequestOK(<<>>, {}, {}, reply, handle, Known) /\ CopyOK(<<>>, {}, got)
      /\ PubrelOK(<<>>, {}) /\ Qos0OK(<<>>) /\ PubrecOK(<<>>, {}, got, options)
      /\ AckOK(<<>>, <<>>, {}, {}, got, Known)
  BY <1>5 DEF ConnectOK, RequestOK, CopyOK, PubrelOK, Qos0OK, PubrecOK, AckOK
<1>8. ExchangeInv
  BY <1>2, <1>3, <1>4, <1>6, <1>7 DEF ExchangeInv, Exchange
<1>9. QueuedOK /\ IdsOK /\ SocketOK
  BY <1>2, <1>3 DEF QueuedOK, IdsOK, SocketOK
<1> QED BY <1>8, <1>9 DEF EInv

LEMMA StutterExchange == ASSUME IInv, EInv, UNCHANGED vars PROVE EInv'
<1>1. UNCHANGED queueVars
  BY DEF vars
<1>2. /\ UNCHANGED <<pc, toLoad, sockOpen, connRetries, nextMsgId, sentStore,
                     toBroker, toClient, brokerIds, got, reply, handle, options>>
  BY DEF vars, loopVars, connVars, netVars, brokerVars, appVars
<1>3. Persist' = Persist /\ CleanStart' = CleanStart
  BY <1>2 DEF Persist, CleanStart
<1>4. Queued' = Queued /\ Held' = Held
  BY <1>1, <1>2, <1>3, SameQueued DEF Held
<1>5. Known' = Known
  BY <1>2, <1>3 DEF Known, SessionUp, Refused
<1>6. ExchangeInv'
  BY <1>2, <1>4, <1>5 DEF EInv, ExchangeInv
<1>7. QueuedOK' /\ IdsOK' /\ SocketOK'
  BY <1>2, <1>3, <1>4 DEF EInv, QueuedOK, IdsOK, SocketOK
<1> QED BY <1>6, <1>7 DEF EInv

LEMMA RequestExchange ==
    ASSUME IInv, EInv, IdsFit, NEW m \in Msgs, Request(m) PROVE EInv'
<1>1. CASE RequestQueued(m) BY <1>1, QueuedRequestExchange
<1>2. CASE RequestRejected(m) \/ RequestQos0(m) BY <1>2, UnqueuedRequestExchange
<1> QED BY <1>1, <1>2 DEF Request

LEMMA NextExchange == IInv /\ EInv /\ IdsFit /\ [Next]_vars => EInv'
<1> SUFFICES ASSUME IInv, EInv, IdsFit, [Next]_vars PROVE EInv'
  OBVIOUS
<1>1. CASE Connect BY <1>1, ConnectExchange
<1>2. CASE LoadSent BY <1>2, LoadSentExchange
<1>3. CASE Establish BY <1>3, EstablishExchange
<1>4. CASE Disconnect BY <1>4, DisconnectExchange
<1>5. CASE Crash BY <1>5, CrashExchange
<1>6. ASSUME NEW m \in Msgs, Request(m) PROVE EInv'
  BY <1>6, RequestExchange
<1>7. CASE ReceiveConnack BY <1>7, ReceiveConnackExchange
<1>8. CASE ReceiveRefused BY <1>8, ReceiveRefusedExchange
<1>9. CASE ReceivePubrec BY <1>9, ReceivePubrecExchange
<1>10. CASE ReceiveAck BY <1>10, ReceiveAckExchange
<1>11. CASE SocketError BY <1>11, SocketErrorExchange
<1>12. CASE CheckConnection BY <1>12, CheckConnectionExchange
<1>13. CASE StartRetry BY <1>13, StartRetryExchange
<1>14. CASE RetryEntry BY <1>14, RetryEntryExchange
<1>15. CASE BrokerConnect BY <1>15, BrokerConnectExchange
<1>16. CASE BrokerRefuses BY <1>16, BrokerRefusesExchange
<1>17. CASE BrokerQos0 BY <1>17, BrokerQos0Exchange
<1>18. CASE BrokerRequest BY <1>18, BrokerRequestExchange
<1>19. CASE BrokerPubrel BY <1>19, BrokerPubrelExchange
<1>20. CASE Quiescent BY <1>20, StutterExchange DEF Quiescent
<1>21. CASE UNCHANGED vars BY <1>21, StutterExchange
<1> QED BY <1>1, <1>2, <1>3, <1>4, <1>5, <1>6, <1>7, <1>8, <1>9, <1>10, <1>11,
           <1>12, <1>13, <1>14, <1>15, <1>16, <1>17, <1>18, <1>19, <1>20, <1>21
        DEF Next

-----------------------------------------------------------------------------
(* How a step changes what the queue and the store hold.                   *)

Untouched ==
    /\ Queued' = Queued /\ UNCHANGED <<sentStore, toLoad>>
    /\ pc' # "off" => pc # "off"

\* The connection handle is new; all that is stored is still to be loaded.
Begun == toLoad' = sentStore' /\ Queued = {} /\ Queued' = {}

\* A stored message is loaded, if there is room for it.
Loaded ==
    \E s \in toLoad :
      /\ pc = "load" /\ toLoad' = toLoad \ {s} /\ sentStore' = sentStore
      /\ IF Fits(s.type, s.m) /\ Malloc # Null THEN Queued' = Queued \cup {s}
                                               ELSE Queued' = Queued

\* A message is added; what had its id before is the request the broker has
\* just answered, if there was anything.
Added ==
    \E s \in Stored :
      /\ pc = "idle" /\ toLoad = {} /\ toLoad' = {}
      /\ Queued' = Put(Queued, s.key, s.type, s.m)
      /\ Persist => sentStore' = Put(sentStore, s.key, s.type, s.m)
      /\ \/ \A t \in Held : t.key # s.key
         \/ toClient # <<>> /\ Head(toClient).id = s.key

\* The message that the broker has acknowledged is deleted, and only then.
Acknowledged ==
    \E id \in Ids :
      /\ pc = "idle" /\ toLoad = {} /\ toLoad' = {}
      /\ toClient # <<>> /\ Head(toClient).id = id
      /\ Queued' = Del(Queued, id)
      /\ Persist => \/ sentStore' = Del(sentStore, id)
                    \/ StoreFails /\ sentStore' = sentStore
      /\ \A s \in Held : s.key = id /\ IsReq(s) => got[s.m] > 0

QueueStep == pc' = "off" \/ Untouched \/ Begun \/ Loaded \/ Added \/ Acknowledged

LEMMA ConnectQueue == ASSUME IInv, EInv, Connect PROVE Begun
<1>1. /\ pc = "off" /\ toLoad' = sentStore' /\ UNCHANGED queueVars
  BY DEF Connect
<1>2. Queued = {}
  BY <1>1 DEF EInv, QueuedOK
<1> QED BY <1>1, <1>2, SameQueued DEF Begun

LEMMA LoadSentQueue == ASSUME IInv, EInv, LoadSent PROVE Loaded
<1>1. PICK s \in toLoad :
        /\ pc = "load" /\ toLoad' = toLoad \ {s} /\ sentStore' = sentStore
        /\ IF Fits(s.type, s.m) /\ Malloc # Null
             THEN Enqueue(IdOfKey(s.key), s.type, s.m, "RETRYING")
             ELSE UNCHANGED queueVars
  BY DEF LoadSent
<1>2. Held = sentStore
  BY <1>1 DEF Held, EInv, QueuedOK
<1>3. s \in Held /\ s \in Stored
  BY <1>2 DEF EInv, QueuedOK, IInv, TypeOK
<1>4. s.key \in Ids /\ \A t \in Held : t.key = s.key => t = s
  BY <1>3 DEF EInv, ExchangeInv, Exchange, HeldOK
<1>5. IdOfKey(s.key) = s.key
  BY <1>4, IdsLemma DEF IdOfKey, Ids
<1>6. \A t \in Queued : t.key # s.key
  BY <1>1, <1>4 DEF EInv, QueuedOK
<1>7. CASE Fits(s.type, s.m) /\ Malloc # Null
  <2>1. Queued' = Put(Queued, s.key, s.type, s.m)
    BY <1>1, <1>4, <1>5, <1>7, IInvQueue, EnqueueQueued
  <2>2. [key |-> s.key, type |-> s.type, m |-> s.m] = s
    BY <1>3 DEF Stored
  <2>3. Queued' = Queued \cup {s}
    BY <1>6, <2>1, <2>2 DEF Put
  <2> QED BY <1>1, <1>7, <2>3 DEF Loaded
<1>8. CASE ~(Fits(s.type, s.m) /\ Malloc # Null)
  <2>1. Queued' = Queued
    BY <1>1, <1>8, SameQueued
  <2> QED BY <1>1, <1>8, <2>1 DEF Loaded
<1> QED BY <1>7, <1>8

LEMMA IdKeys ==
    ASSUME NEW id \in Ids
    PROVE  /\ [key |-> id, type |-> "PUBREL", m |-> NoMsg] \in Stored
           /\ \A m \in Msgs : [key |-> id, type |-> "REQUEST", m |-> m] \in Stored
<1>1. id \in Keys
  BY IdsLemma DEF Keys, Ids
<1> QED BY <1>1 DEF Stored

LEMMA PubrecQueue ==
    ASSUME IInv, EInv, IdsFit, ReceivePubrec PROVE Untouched \/ Added
<1> DEFINE id == Head(toClient).id
           s == [key |-> id, type |-> "PUBREL", m |-> NoMsg]
<1>1. /\ Receive("PUBREC") /\ pc' = pc /\ toLoad' = toLoad
  BY DEF ReceivePubrec, loopVars
<1>2. /\ pc = "idle" /\ toLoad = {} /\ toClient \in Seq(Answer) /\ toClient # <<>>
      /\ Head(toClient).type = "PUBREC" /\ id < nextMsgId
  BY <1>1, ReceiveFacts
<1>3. id \in Ids
  <2>1. Head(toClient) \in Answer
    BY <1>2
  <2> QED BY <1>2, <2>1, AnswerFacts
<1>4. Persist => KeyOfShort(id) = id
  <2>1. nextMsgId \in Nat /\ id \in Nat
    BY <1>3, IdsLemma, NatLemma
  <2> QED BY <1>2, <1>3, <2>1, KeyLemma
<1>5. s \in Stored /\ s.key = id /\ s.type = "PUBREL" /\ s.m = NoMsg
  BY <1>3, IdKeys
<1> HIDE DEF id, s
<1>6. CASE UNCHANGED <<queueVars, sentStore>>
  BY <1>1, <1>2, <1>6, SameQueued DEF Untouched
<1>7. CASE /\ Malloc # Null
           /\ Enqueue(id, "PUBREL", NoMsg, "IN_PROGRESS")
           /\ sentStore' = IF Persist THEN StorePut(KeyOfShort(id), "PUBREL", NoMsg)
                                      ELSE sentStore
  <2>1. Queued' = Put(Queued, id, "PUBREL", NoMsg)
    BY <1>3, <1>7, IInvQueue, EnqueueQueued
  <2>2. Persist => sentStore' = Put(sentStore, id, "PUBREL", NoMsg)
    BY <1>4, <1>7 DEF StorePut, Put
  <2> QED BY <1>1, <1>2, <1>5, <2>1, <2>2 DEF Added, id
<1> QED BY <1>6, <1>7 DEF ReceivePubrec, id

LEMMA AckQueue ==
    ASSUME IInv, EInv, IdsFit, ReceiveAck PROVE Acknowledged
<1> DEFINE id == Head(toClient).id
<1>1. /\ Receive("ACK") /\ toLoad' = toLoad /\ Dequeue(id)
      /\ \/ sentStore' = IF Persist THEN StoreDel(KeyOfUShort(id)) ELSE sentStore
         \/ StoreFails /\ sentStore' = sentStore
  BY DEF ReceiveAck, loopVars
<1>2. /\ pc = "idle" /\ toLoad = {} /\ toClient \in Seq(Answer) /\ toClient # <<>>
      /\ 1 \in 1..Len(toClient) /\ toClient[1] = Head(toClient)
      /\ Head(toClient).type = "ACK"
  BY <1>1, ReceiveFacts
<1>3. id \in Ids
  <2>1. Head(toClient) \in Answer
    BY <1>2
  <2> QED BY <1>2, <2>1, AnswerFacts
<1> HIDE DEF id
<1>4. Queued' = Del(Queued, id)
  BY <1>1, <1>3, IInvQueue, DequeueQueued
<1>5. Persist => \/ sentStore' = Del(sentStore, id)
                 \/ StoreFails /\ sentStore' = sentStore
  BY <1>1 DEF KeyOfUShort, StoreDel, Del
<1>6. \A s \in Held : s.key = id /\ IsReq(s) => got[s.m] > 0
  BY <1>2 DEF EInv, ExchangeInv, Exchange, AckOK, id
<1> QED BY <1>1, <1>2, <1>3, <1>4, <1>5, <1>6 DEF Acknowledged, id

LEMMA RequestQueue ==
    ASSUME IInv, EInv, IdsFit, NEW m \in Msgs, Request(m) PROVE Untouched \/ Added
<1> DEFINE id == nextMsgId
           s == [key |-> id, type |-> "REQUEST", m |-> m]
<1>1. pc = "idle" /\ toLoad' = toLoad /\ toLoad = {}
  BY DEF Request, loopVars, EInv, QueuedOK
<1>2. id \in Ids
  BY <1>1 DEF IInv, TypeOK
<1>3. s \in Stored /\ s.key = id /\ s.type = "REQUEST" /\ s.m = m
  BY <1>2, IdKeys
<1>4. \A t \in Held : t.key # id
  BY <1>1, NatLemma DEF EInv, IdsOK
<1>5. Persist => KeyOfShort(id) = id
  <2>1. nextMsgId \in Nat
    BY NatLemma
  <2> QED BY <1>2, <2>1, KeyLemma
<1> HIDE DEF id, s
<1>6. CASE UNCHANGED <<queueVars, sentStore>>
  BY <1>1, <1>6, SameQueued DEF Untouched
<1>7. CASE RequestQueued(m)
  <2>1. /\ Malloc # Null /\ Enqueue(id, "REQUEST", m, "IN_PROGRESS")
        /\ sentStore' = IF Persist THEN StorePut(KeyOfShort(id), "REQUEST", m)
                                   ELSE sentStore
    BY <1>7 DEF RequestQueued, id
  <2>2. Queued' = Put(Queued, id, "REQUEST", m)
    BY <1>2, <2>1, IInvQueue, EnqueueQueued
  <2>3. Persist => sentStore' = Put(sentStore, id, "REQUEST", m)
    BY <1>5, <2>1 DEF StorePut, Put
  <2> QED BY <1>1, <1>3, <1>4, <2>2, <2>3 DEF Added
<1> QED BY <1>6, <1>7 DEF Request, RequestRejected, RequestQos0

\* Every step, and only the broker counts what it acted on.
LEMMA QueueStepLemma ==
    ASSUME IInv, EInv, IdsFit, [Next]_vars
    PROVE  QueueStep
<1> USE DEF QueueStep
<1>1. CASE Connect BY <1>1, ConnectQueue
<1>2. CASE LoadSent BY <1>2, LoadSentQueue
<1>3. CASE Establish \/ ReceiveConnack \/ ReceiveRefused \/ SocketError \/ CheckConnection
           \/ StartRetry
  <2>1. UNCHANGED queueVars /\ sentStore' = sentStore /\ toLoad' = toLoad /\ pc # "off"
    BY <1>3 DEF Establish, ReceiveConnack, ReceiveRefused, Receive, SocketError,
                CheckConnection, StartRetry, RetryDue, loopVars
  <2> QED BY <2>1, SameQueued DEF Untouched
<1>4. CASE Disconnect \/ Crash
  BY <1>4 DEF Disconnect, Crash, DropHandle
<1>5. ASSUME NEW m \in Msgs, Request(m) PROVE QueueStep
  BY <1>5, RequestQueue
<1>6. CASE ReceivePubrec BY <1>6, PubrecQueue
<1>7. CASE ReceiveAck BY <1>7, AckQueue
<1>8. CASE RetryEntry
  <2>1. sentStore' = sentStore /\ toLoad' = toLoad /\ pc # "off"
    BY <1>8 DEF RetryEntry
  <2> QED BY <1>8, <2>1, RetryQueued DEF Untouched
<1>9. CASE BrokerConnect \/ BrokerRefuses \/ BrokerQos0 \/ BrokerRequest \/ BrokerPubrel
  <2>1. UNCHANGED queueVars /\ sentStore' = sentStore /\ toLoad' = toLoad /\ pc' = pc
    BY <1>9 DEF BrokerConnect, BrokerRefuses, BrokerQos0, BrokerRequest, BrokerPubrel,
                BrokerTakes, loopVars
  <2> QED BY <2>1, SameQueued DEF Untouched
<1>10. CASE UNCHANGED vars
  <2>1. UNCHANGED queueVars /\ sentStore' = sentStore /\ toLoad' = toLoad /\ pc' = pc
    BY <1>10 DEF vars, loopVars
  <2> QED BY <2>1, SameQueued DEF Untouched
<1>11. CASE Quiescent BY <1>10, <1>11 DEF Quiescent
<1> QED BY <1>1, <1>2, <1>3, <1>4, <1>5, <1>6, <1>7, <1>8, <1>9, <1>10, <1>11 DEF Next

LEMMA GotStep ==
    ASSUME IInv, [Next]_vars
    PROVE  options' = options /\ \A m \in Msgs : got[m] > 0 => got'[m] > 0
<1>1. CASE got' = got /\ options' = options
  BY <1>1
<1>2. ASSUME NEW m, got' = Act(m), options' = options
      PROVE  options' = options /\ \A n \in Msgs : got[n] > 0 => got'[n] > 0
  <2>1. got \in [Msgs -> 0..2]
    BY DEF IInv, TypeOK
  <2> QED BY <1>2, <2>1 DEF Act
<1>3. CASE BrokerQos0
  BY <1>2, <1>3 DEF BrokerQos0, BrokerTakes, appVars
<1>4. CASE BrokerRequest
  BY <1>1, <1>2, <1>4 DEF BrokerRequest, BrokerTakes, appVars
<1>5. CASE BrokerConnect \/ BrokerPubrel \/ BrokerRefuses
  BY <1>1, <1>5 DEF BrokerConnect, BrokerPubrel, BrokerRefuses, BrokerTakes, appVars,
                    brokerVars
<1>6. CASE Connect \/ LoadSent \/ Establish \/ Disconnect \/ Crash
  BY <1>1, <1>6 DEF Connect, LoadSent, Establish, Disconnect, Crash, DropHandle, appVars,
                    brokerVars
<1>7. ASSUME NEW m \in Msgs, Request(m)
      PROVE  options' = options /\ \A n \in Msgs : got[n] > 0 => got'[n] > 0
  BY <1>1, <1>7 DEF Request, brokerVars
<1>8. CASE ReceiveConnack \/ ReceiveRefused \/ ReceivePubrec \/ ReceiveAck \/ SocketError
           \/ CheckConnection \/ StartRetry \/ RetryEntry
  BY <1>1, <1>8 DEF ReceiveConnack, ReceiveRefused, ReceivePubrec, ReceiveAck,
       SocketError, CheckConnection, StartRetry, RetryEntry, appVars, brokerVars
<1>9. CASE Quiescent \/ UNCHANGED vars
  BY <1>1, <1>9 DEF Quiescent, vars, appVars, brokerVars
<1> QED BY <1>3, <1>4, <1>5, <1>6, <1>7, <1>8, <1>9 DEF Next

-----------------------------------------------------------------------------
(* Nothing held is missing from the queue.                                 *)

\* Recovery has room for what the previous process left in the store.
RecoveryFits ==
    pc = "load" => \A s \in toLoad : Fits(s.type, s.m) /\ Malloc # Null

\* What is in the store, and not still to be loaded, is queued; but for what
\* was acknowledged and could not be deleted.
AllQueued ==
    Persist /\ pc # "off" =>
      \A s \in Held \ toLoad :
        s \in Queued \/ (StoreFails /\ (IsReq(s) => got[s.m] > 0))

LEMMA AllQueuedStep ==
    ASSUME IInv, EInv, IdsFit, RecoveryFits, AllQueued, [Next]_vars
    PROVE  AllQueued'
<1>1. options' = options /\ \A m \in Msgs : got[m] > 0 => got'[m] > 0
  BY GotStep
<1>2. Persist' = Persist /\ StoreFails' = StoreFails
  BY <1>1 DEF Persist, StoreFails
<1> SUFFICES ASSUME Persist, pc' # "off", NEW t \in Held' \ toLoad'
             PROVE  t \in Queued' \/ (StoreFails /\ (IsReq(t) => got'[t.m] > 0))
  BY <1>2 DEF AllQueued
<1>3. Held = sentStore /\ Held' = sentStore'
  BY <1>2 DEF Held
<1>4. ASSUME t \in Held \ toLoad, pc # "off"
      PROVE  t \in Queued \/ (StoreFails /\ (IsReq(t) => got'[t.m] > 0))
  <2>1. IsReq(t) => t.m \in Msgs
    BY <1>3, <1>4, StoredFacts DEF IInv, TypeOK
  <2> QED BY <1>1, <1>4, <2>1 DEF AllQueued
<1>5. CASE Untouched
  BY <1>3, <1>4, <1>5 DEF Untouched
<1>6. CASE Begun
  BY <1>3, <1>6 DEF Begun
<1>7. CASE Loaded
  <2>1. PICK s \in toLoad :
          /\ pc = "load" /\ toLoad' = toLoad \ {s} /\ sentStore' = sentStore
          /\ Fits(s.type, s.m) /\ Malloc # Null => Queued' = Queued \cup {s}
    BY <1>7 DEF Loaded
  <2>2. Queued' = Queued \cup {s}
    BY <2>1 DEF RecoveryFits
  <2> QED BY <1>3, <1>4, <2>1, <2>2
<1>8. CASE Added
  <2>1. PICK s \in Stored :
          /\ pc = "idle" /\ toLoad = {} /\ toLoad' = {}
          /\ Queued' = Put(Queued, s.key, s.type, s.m)
          /\ Persist => sentStore' = Put(sentStore, s.key, s.type, s.m)
    BY <1>8 DEF Added
  <2> QED BY <1>3, <1>4, <2>1 DEF Put
<1>9. CASE Acknowledged
  <2>1. PICK id \in Ids :
          /\ pc = "idle" /\ toLoad = {} /\ toLoad' = {}
          /\ Queued' = Del(Queued, id)
          /\ \/ sentStore' = Del(sentStore, id)
             \/ StoreFails /\ sentStore' = sentStore
          /\ \A s \in Held : s.key = id /\ IsReq(s) => got[s.m] > 0
    BY <1>9 DEF Acknowledged
  <2>2. t \in Held
    BY <1>3, <2>1 DEF Del
  <2>3. CASE t.key # id
    BY <1>4, <2>1, <2>2, <2>3 DEF Del
  <2>4. CASE t.key = id
    <3>1. StoreFails
      BY <1>3, <2>1, <2>4 DEF Del
    <3>2. IsReq(t) => t.m \in Msgs
      BY <1>3, <2>2, StoredFacts DEF IInv, TypeOK
    <3> QED BY <1>1, <2>1, <2>2, <2>4, <3>1, <3>2
  <2> QED BY <2>3, <2>4
<1> QED BY <1>5, <1>6, <1>7, <1>8, <1>9, QueueStepLemma DEF QueueStep

\* A record of a request that is queued is found by its handle.
LEMMA QueuedIsHashed ==
    ASSUME IInv, NEW s \in Queued
    PROVE  s.key \in Ids /\ ipHash[s.key] # Null /\ heap[ipHash[s.key]].status # "DELIVERED"
<1>1. PICK c \in Cells(inProgressQ) : s = Rec(heap[c])
  BY DEF Queued
<1>2. /\ c \in Addr /\ heap[c] \in Entry /\ heap[c].msgId \in Ids
      /\ ipHash[heap[c].msgId] = c
  BY <1>1, IInvQueue, LinkedLemma
<1>3. s.key = heap[c].msgId
  BY <1>1 DEF Rec
<1>4. heap[c].status # "DELIVERED"
  BY <1>2 DEF Entry
<1> QED BY <1>2, <1>3, <1>4, CellsAssumption

LEMMA DeliveredLemma ==
    ASSUME IInv, EInv, AllQueued, Persist PROVE DeliveredIsTrue
<1> SUFFICES ASSUME NEW m \in Msgs, pc \in {"idle", "retry"}, reply[m] = "OK",
                    Kind[m] # "PUBLISH0", got[m] = 0
             PROVE  MsgStatus(handle[m]) # "DELIVERED"
  <2>1. got \in [Msgs -> 0..2]
    BY DEF IInv, TypeOK
  <2>2. \A m \in Msgs : got[m] \in 0..2
    BY <2>1
  <2>3. \A m \in Msgs : ~(got[m] > 0) => got[m] = 0
    BY <2>2
  <2> QED BY <2>3 DEF DeliveredIsTrue
<1>1. toLoad = {} /\ Exchange(toBroker, toClient, Held, brokerIds, got, reply, handle,
                              Known, options)
  BY DEF EInv, QueuedOK, ExchangeInv
<1>2. PICK s \in Held : IsReq(s) /\ s.m = m
  BY <1>1 DEF Exchange, KeptOK, Persist
<1>3. handle[m] = s.key
  BY <1>1, <1>2 DEF Exchange, HeldOK
<1>4. s \in Queued
  BY <1>1, <1>2 DEF AllQueued
<1> QED BY <1>3, <1>4, QueuedIsHashed DEF MsgStatus

LEMMA MirrorsLemma ==
    ASSUME IInv, EInv, AllQueued PROVE StoreMirrorsQueue
<1> SUFFICES ASSUME Persist, ~StoreFails, pc \in {"idle", "retry"}
             PROVE  {[id |-> IdOfKey(s.key), type |-> s.type, m |-> s.m] : s \in sentStore}
                      = {[id |-> heap[a].msgId, type |-> heap[a].type, m |-> heap[a].m] :
                           a \in Cells(inProgressQ)}
  BY DEF StoreMirrorsQueue
<1>1. Held = sentStore /\ toLoad = {} /\ Queued \subseteq Held
  BY DEF Held, EInv, QueuedOK
<1>2. Queued = sentStore
  BY <1>1 DEF AllQueued
<1>3. \A s \in sentStore : IdOfKey(s.key) = s.key
  BY <1>1, NatLemma, IdsLemma DEF IdOfKey, Ids
<1>4. {[id |-> IdOfKey(s.key), type |-> s.type, m |-> s.m] : s \in sentStore}
        = {[id |-> s.key, type |-> s.type, m |-> s.m] : s \in Queued}
  BY <1>2, <1>3
<1>5. \A a \in Cells(inProgressQ) :
        /\ Rec(heap[a]).key = heap[a].msgId /\ Rec(heap[a]).type = heap[a].type
        /\ Rec(heap[a]).m = heap[a].m
  BY DEF Rec
<1> QED BY <1>4, <1>5 DEF Queued

-----------------------------------------------------------------------------
(* What leaves the queue.                                                  *)

LEMMA LeavesLemma ==
    ASSUME IInv, EInv, IdsFit, [Next]_vars, NEW m \in Msgs,
           \E a \in Cells(inProgressQ) : heap[a].type = "REQUEST" /\ heap[a].m = m,
           ~ \E a \in Cells(inProgressQ') : heap'[a].type = "REQUEST" /\ heap'[a].m = m
    PROVE  pc' = "off" \/ (toClient # <<>> /\ Head(toClient).id = handle[m])
<1>1. PICK s \in Queued : IsReq(s) /\ s.m = m
  <2>1. PICK a \in Cells(inProgressQ) : heap[a].type = "REQUEST" /\ heap[a].m = m
    OBVIOUS
  <2>2. Rec(heap[a]) \in Queued /\ IsReq(Rec(heap[a])) /\ Rec(heap[a]).m = m
    BY <2>1 DEF Queued, Rec, IsReq
  <2> QED BY <2>2
<1>2. \A t \in Queued' : ~(IsReq(t) /\ t.m = m)
  BY DEF Queued, Rec, IsReq
<1>3. s \in Held \ toLoad
  BY DEF EInv, QueuedOK
<1>4. handle[m] = s.key
  BY <1>1, <1>3 DEF EInv, ExchangeInv, Exchange, HeldOK
<1>5. s \notin Queued'
  BY <1>1, <1>2
<1>6. ~Untouched /\ ~Begun /\ ~Loaded
  BY <1>5 DEF Untouched, Begun, Loaded
<1>7. CASE Added
  <2>1. PICK t \in Stored :
          /\ Queued' = Put(Queued, t.key, t.type, t.m)
          /\ (\A v \in Held : v.key # t.key) \/ (toClient # <<>> /\ Head(toClient).id = t.key)
    BY <1>7 DEF Added
  <2>2. s.key = t.key
    BY <1>5, <2>1 DEF Put
  <2> QED BY <1>3, <1>4, <2>1, <2>2
<1>8. CASE Acknowledged
  <2>1. PICK id \in Ids : /\ toClient # <<>> /\ Head(toClient).id = id
                          /\ Queued' = Del(Queued, id)
    BY <1>8 DEF Acknowledged
  <2>2. s.key = id
    BY <1>5, <2>1 DEF Del
  <2> QED BY <1>4, <2>1, <2>2
<1> QED BY <1>6, <1>7, <1>8, QueueStepLemma DEF QueueStep

-----------------------------------------------------------------------------
(* The order of the queue.                                                 *)

LEMMA EnqueueOrder ==
    ASSUME QueueInv, SentOrder, NEW id \in Ids, NEW type, NEW m, NEW status,
           Malloc # Null, Enqueue(id, type, m, status),
           type = "REQUEST" => \A c \in Cells(inProgressQ) : heap[c].msgId < id
    PROVE  SentOrder'
<1> DEFINE new == Malloc
           old == ipHash[id]
           L == Cells(inProgressQ)
           u == Unlink(inProgressQ, old)
<1>1. new \in Addr /\ new \notin L
  BY MallocLemma
<1>2. /\ heap' = [a \in Addr |-> IF a = new THEN NewEntry(id, type, m, status)
                                 ELSE IF a = old THEN Freed ELSE heap[a]]
      /\ inProgressQ' = Append(u, new)
  BY DEF Enqueue, Link
<1>3. Distinct(inProgressQ) /\ inProgressQ \in Seq(Addr)
  BY DEF QueueInv, QueueType, HashMatchesList, Distinct
<1>4. u \in Seq(Addr) /\ Cells(u) = L \ {old}
  BY <1>3, UnlinkLemma
<1>5. \A c \in L : c \in Addr
  BY LinkedLemma
<1>6. \A x, y \in 1..Len(u) : x < y =>
        \E v, w \in 1..Len(inProgressQ) :
          v < w /\ u[x] = inProgressQ[v] /\ u[y] = inProgressQ[w]
  BY <1>3, UnlinkOrder
<1>7. LET n == Len(u) + 1
      IN  /\ Len(u) \in Nat /\ Len(inProgressQ') = n /\ inProgressQ'[n] = new
          /\ \A i \in 1..Len(u) : inProgressQ'[i] = u[i] /\ u[i] \in L \ {old}
  <2>1. \A i \in 1..Len(u) : u[i] \in Cells(u)
    BY DEF Cells
  <2> QED BY <1>1, <1>2, <1>4, <2>1, AppendFacts
<1> HIDE DEF new, old, L, u
<1>8. \A c \in L \ {old} : heap'[c] = heap[c]
  BY <1>1, <1>2, <1>5
<1>9. heap'[new] = NewEntry(id, type, m, status)
  BY <1>1, <1>2
<1>10. heap'[new].msgId = id /\ heap'[new].type = type
  BY <1>9 DEF NewEntry
<1> SUFFICES ASSUME NEW i \in 1..Len(inProgressQ'), NEW j \in 1..Len(inProgressQ'), i < j,
                    heap'[inProgressQ'[i]].type = "REQUEST",
                    heap'[inProgressQ'[j]].type = "REQUEST"
             PROVE  heap'[inProgressQ'[i]].msgId < heap'[inProgressQ'[j]].msgId
  BY DEF SentOrder
<1>11. i \in 1..Len(u)
  BY <1>7
<1>12. heap'[inProgressQ'[i]] = heap[u[i]] /\ u[i] \in L
  BY <1>7, <1>8, <1>11
<1>13. CASE j = Len(u) + 1
  BY <1>7, <1>10, <1>12, <1>13 DEF L
<1>14. CASE j \in 1..Len(u)
  <2>1. heap'[inProgressQ'[j]] = heap[u[j]]
    BY <1>7, <1>8, <1>14
  <2>2. PICK v, w \in 1..Len(inProgressQ) :
          v < w /\ u[i] = inProgressQ[v] /\ u[j] = inProgressQ[w]
    BY <1>6, <1>11, <1>14
  <2> QED BY <1>12, <2>1, <2>2 DEF SentOrder
<1> QED BY <1>7, <1>13, <1>14

LEMMA DequeueOrder ==
    ASSUME QueueInv, SentOrder, NEW id \in Ids, Dequeue(id)
    PROVE  SentOrder'
<1> DEFINE old == ipHash[id]
           u == Unlink(inProgressQ, old)
<1>1. /\ heap' = [a \in Addr |-> IF a = old THEN Freed ELSE heap[a]]
      /\ inProgressQ' = u
  BY DEF Dequeue
<1>2. Distinct(inProgressQ) /\ inProgressQ \in Seq(Addr)
  BY DEF QueueInv, QueueType, HashMatchesList, Distinct
<1>3. u \in Seq(Addr) /\ Cells(u) = Cells(inProgressQ) \ {old}
  BY <1>2, UnlinkLemma
<1>4. \A x, y \in 1..Len(u) : x < y =>
        \E v, w \in 1..Len(inProgressQ) :
          v < w /\ u[x] = inProgressQ[v] /\ u[y] = inProgressQ[w]
  BY <1>2, UnlinkOrder
<1>5. \A i \in 1..Len(u) : u[i] \in Addr /\ u[i] # old
  <2>1. \A i \in 1..Len(u) : u[i] \in Cells(u)
    BY DEF Cells
  <2> QED BY <1>3, <2>1
<1> HIDE DEF old, u
<1>6. \A i \in 1..Len(u) : heap'[u[i]] = heap[u[i]]
  BY <1>1, <1>5
<1> SUFFICES ASSUME NEW i \in 1..Len(u), NEW j \in 1..Len(u), i < j,
                    heap[u[i]].type = "REQUEST", heap[u[j]].type = "REQUEST"
             PROVE  heap[u[i]].msgId < heap[u[j]].msgId
  BY <1>1, <1>6 DEF SentOrder
<1>7. PICK v, w \in 1..Len(inProgressQ) :
        v < w /\ u[i] = inProgressQ[v] /\ u[j] = inProgressQ[w]
  BY <1>4
<1> QED BY <1>7 DEF SentOrder

LEMMA SameOrder == ASSUME SentOrder, UNCHANGED queueVars PROVE SentOrder'
BY DEF SentOrder, queueVars

LEMMA EmptyOrder == ASSUME EmptyQueue PROVE SentOrder'
BY DEF SentOrder, EmptyQueue

LEMMA RetryOrder == ASSUME IInv, SentOrder, RetryEntry PROVE SentOrder'
<1> DEFINE a == inProgressQ[cursor]
<1>1. cursor \in 1..Len(inProgressQ) /\ inProgressQ \in Seq(Addr)
  BY DEF IInv, TypeOK, RetryEntry
<1>2. a \in Addr /\ a \in Cells(inProgressQ)
  BY <1>1 DEF Cells
<1>3. heap[a] \in Entry
  BY <1>2, IInvQueue, LinkedLemma
<1>4. PICK f : heap' = [heap EXCEPT ![a] = f] /\ f.type = heap[a].type
                                              /\ f.msgId = heap[a].msgId
  BY <1>3 DEF RetryEntry, Entry
<1>5. heap \in [Addr -> Entry \cup {Freed}] /\ inProgressQ' = inProgressQ
  BY DEF IInv, TypeOK, RetryEntry
<1> HIDE DEF a
<1>6. \A i \in 1..Len(inProgressQ) : inProgressQ[i] \in Addr
  BY <1>1
<1>7. \A i \in 1..Len(inProgressQ) :
        /\ heap'[inProgressQ[i]].type = heap[inProgressQ[i]].type
        /\ heap'[inProgressQ[i]].msgId = heap[inProgressQ[i]].msgId
  BY <1>2, <1>4, <1>5, <1>6
<1> QED BY <1>5, <1>7 DEF SentOrder

LEMMA OrderStep ==
    ASSUME IInv, EInv, ~Persist, SentOrder, [Next]_vars
    PROVE  SentOrder'
<1>1. ~LoadSent
  BY DEF LoadSent, EInv, QueuedOK
<1>2. CASE UNCHANGED queueVars
  BY <1>2, SameOrder
<1>3. CASE Disconnect \/ Crash
  BY <1>3, EmptyOrder DEF Disconnect, Crash, DropHandle
<1>4. ASSUME NEW m \in Msgs, Request(m) PROVE SentOrder'
  <2>1. CASE RequestQueued(m)
    <3>1. /\ pc = "idle" /\ Malloc # Null
          /\ Enqueue(nextMsgId, "REQUEST", m, "IN_PROGRESS")
      BY <1>4, <2>1 DEF Request, RequestQueued
    <3>2. nextMsgId \in Ids
      BY <3>1 DEF IInv, TypeOK
    <3>3. \A c \in Cells(inProgressQ) : Rec(heap[c]).key < nextMsgId
      BY <3>1 DEF EInv, IdsOK, Held, Queued
    <3>4. \A c \in Cells(inProgressQ) : heap[c].msgId < nextMsgId
      BY <3>3 DEF Rec
    <3> QED BY <3>1, <3>2, <3>4, IInvQueue, EnqueueOrder
  <2>2. CASE RequestRejected(m) \/ RequestQos0(m)
    BY <1>2, <2>2 DEF RequestRejected, RequestQos0
  <2> QED BY <1>4, <2>1, <2>2 DEF Request
<1>5. CASE ReceivePubrec
  <2> DEFINE id == Head(toClient).id
  <2>1. Receive("PUBREC")
    BY <1>5 DEF ReceivePubrec
  <2>2. id \in Ids
    <3>1. toClient \in Seq(Answer) /\ toClient # <<>> /\ Head(toClient).type = "PUBREC"
      BY <2>1 DEF Receive, IInv, TypeOK
    <3>2. Head(toClient) \in Answer
      BY <3>1
    <3> QED BY <3>1, <3>2, AnswerFacts
  <2>3. CASE Malloc # Null /\ Enqueue(id, "PUBREL", NoMsg, "IN_PROGRESS")
    BY <2>2, <2>3, IInvQueue, EnqueueOrder
  <2> QED BY <1>2, <1>5, <2>3 DEF ReceivePubrec
<1>6. CASE ReceiveAck
  <2> DEFINE id == Head(toClient).id
  <2>1. Receive("ACK") /\ Dequeue(id)
    BY <1>6 DEF ReceiveAck
  <2>2. id \in Ids
    <3>1. toClient \in Seq(Answer) /\ toClient # <<>> /\ Head(toClient).type = "ACK"
      BY <2>1 DEF Receive, IInv, TypeOK
    <3>2. Head(toClient) \in Answer
      BY <3>1
    <3> QED BY <3>1, <3>2, AnswerFacts
  <2> QED BY <2>1, <2>2, IInvQueue, DequeueOrder
<1>7. CASE RetryEntry BY <1>7, RetryOrder
<1>8. CASE Connect \/ Establish \/ ReceiveConnack \/ ReceiveRefused \/ SocketError
           \/ CheckConnection \/ StartRetry
  BY <1>2, <1>8 DEF Connect, Establish, ReceiveConnack, ReceiveRefused, SocketError,
                    CheckConnection, StartRetry
<1>9. CASE BrokerConnect \/ BrokerRefuses \/ BrokerQos0 \/ BrokerRequest \/ BrokerPubrel
  BY <1>2, <1>9 DEF BrokerConnect, BrokerRefuses, BrokerQos0, BrokerRequest,
                    BrokerPubrel, BrokerTakes
<1>10. CASE Quiescent \/ UNCHANGED vars
  BY <1>2, <1>10 DEF Quiescent, vars
<1> QED BY <1>1, <1>3, <1>4, <1>5, <1>6, <1>7, <1>8, <1>9, <1>10 DEF Next

-----------------------------------------------------------------------------
(* The count of bytes.                                                     *)

BytesInv == Summed(inProgressQ, Charges, numBytesQueued)

LEMMA ChargesType == QueueType => Charges \in [Addr -> Int]
<1> SUFFICES ASSUME QueueType, NEW a \in Addr PROVE Charge(heap[a].type, heap[a].m) \in Int
  BY DEF Charges
<1>1. heap[a] \in Entry \cup {Freed}
  BY DEF QueueType
<1>2. CASE heap[a] \in Entry
  BY <1>2, ChargeLemma
<1>3. CASE heap[a] = Freed
  BY <1>3, SizesAssumption DEF Freed, Charge
<1> QED BY <1>1, <1>2, <1>3

\* What is counted is the total, when it can be added up along the list.
LEMMA BytesLemma == QueueType /\ BytesInv => BytesAccounted
<1> SUFFICES ASSUME QueueType, BytesInv PROVE BytesAccounted
  OBVIOUS
<1>1. Len(inProgressQ) \in Nat
  BY DEF QueueType
<1>2. PICK f : Sums(f, inProgressQ, Charges, numBytesQueued)
  BY DEF BytesInv, Summed
<1>3. Total(inProgressQ, Charges) = numBytesQueued
  BY <1>1, <1>2, TotalLemma
<1> QED BY <1>3 DEF BytesAccounted

\* The cell that is hashed under an id is taken off, if there is one.
LEMMA BytesUnlink ==
    ASSUME QueueInv, BytesInv, NEW id \in Ids
    PROVE  Summed(Unlink(inProgressQ, ipHash[id]), Charges, numBytesQueued - Refund(ipHash[id]))
<1>1. inProgressQ \in Seq(Addr) /\ numBytesQueued \in Int /\ Charges \in [Addr -> Int]
  BY ChargesType DEF QueueInv, QueueType
<1>2. CASE ipHash[id] = Null
  <2>1. Null \notin Cells(inProgressQ)
    BY <1>1, CellsAssumption DEF Cells
  <2> QED BY <1>1, <1>2, <2>1 DEF Unlink, Refund, BytesInv
<1>3. CASE ipHash[id] # Null
  <2>1. ipHash[id] \in Cells(inProgressQ) /\ ipHash[id] \in Addr
    BY <1>1, <1>3 DEF QueueInv, HashMatchesList, Cells
  <2>2. Charges[ipHash[id]] = Refund(ipHash[id])
    BY <1>3, <2>1 DEF Charges, Refund
  <2> QED BY <1>1, <2>1, <2>2, SummedUnlink DEF BytesInv
<1> QED BY <1>2, <1>3

LEMMA BytesEnqueue ==
    ASSUME QueueInv, BytesInv, NEW id \in Ids, NEW type, NEW m, NEW status,
           NewEntry(id, type, m, status) \in Entry, Malloc # Null,
           Enqueue(id, type, m, status), QueueType'
    PROVE  BytesInv'
<1> DEFINE new == Malloc
           old == ipHash[id]
           u == Unlink(inProgressQ, old)
           n == numBytesQueued - Refund(old)
           v == Charges'
<1>1. new \in Addr /\ new \notin Cells(inProgressQ)
  BY MallocLemma
<1>2. /\ inProgressQ \in Seq(Addr) /\ Distinct(inProgressQ)
      /\ numBytesQueued \in Int /\ Refund(old) \in Nat
  BY RefundLemma DEF QueueInv, QueueType, HashMatchesList, Distinct
<1>3. u \in Seq(Addr) /\ Cells(u) = Cells(inProgressQ) \ {old}
  BY <1>2, UnlinkLemma
<1>4. Summed(u, Charges, n)
  BY BytesUnlink
<1>5. v[new] = Charge(type, m) /\ v[new] \in Int
  <2>1. heap'[new] = NewEntry(id, type, m, status)
    BY <1>1 DEF Enqueue
  <2>2. v[new] = Charge(heap'[new].type, heap'[new].m)
    BY <1>1 DEF Charges
  <2>3. Charge(heap'[new].type, heap'[new].m) \in Int
    BY <2>1, ChargeLemma
  <2> QED BY <2>1, <2>2, <2>3 DEF NewEntry
<1>6. ASSUME NEW a \in Cells(u) PROVE v[a] = Charges[a]
  <2>0. Cells(inProgressQ) \subseteq Addr
    BY <1>2 DEF Cells
  <2>1. a \in Addr /\ a # new /\ a # old
    BY <1>3, <1>1, <2>0
  <2>2. heap'[a] = heap[a]
    BY <2>1 DEF Enqueue
  <2> QED BY <2>1, <2>2 DEF Charges
<1>7. inProgressQ' = Append(u, new) /\ numBytesQueued' = n + v[new]
  BY <1>2, <1>5 DEF Enqueue, Link
<1> HIDE DEF new, old, u, v
<1>8. Summed(u, v, n)
  BY <1>3, <1>4, <1>6, SummedSame
<1>9. Summed(Append(u, new), v, n + v[new])
  BY <1>1, <1>2, <1>3, <1>5, <1>8, SummedAppend
<1> QED BY <1>7, <1>9 DEF BytesInv, v

LEMMA BytesDequeue ==
    ASSUME QueueInv, BytesInv, NEW id \in Ids, Dequeue(id)
    PROVE  BytesInv'
<1> DEFINE old == ipHash[id]
           u == Unlink(inProgressQ, old)
           n == numBytesQueued - Refund(old)
           v == Charges'
<1>1. inProgressQ \in Seq(Addr) /\ Distinct(inProgressQ)
  BY DEF QueueInv, QueueType, HashMatchesList, Distinct
<1>2. u \in Seq(Addr) /\ Cells(u) = Cells(inProgressQ) \ {old}
  BY <1>1, UnlinkLemma
<1>3. ASSUME NEW a \in Cells(u) PROVE v[a] = Charges[a]
  <2>0. Cells(inProgressQ) \subseteq Addr
    BY <1>1 DEF Cells
  <2>1. a \in Addr /\ a # old
    BY <1>2, <2>0
  <2>2. heap'[a] = heap[a]
    BY <2>1 DEF Dequeue
  <2> QED BY <2>1, <2>2 DEF Charges
<1>4. Summed(u, Charges, n)
  BY BytesUnlink
<1>5. inProgressQ' = u /\ numBytesQueued' = n
  BY DEF Dequeue
<1> HIDE DEF u, n, v
<1>6. Summed(u, v, n)
  BY <1>2, <1>3, <1>4, SummedSame
<1> QED BY <1>5, <1>6 DEF BytesInv, v

LEMMA BytesEmpty ==
    ASSUME EmptyQueue
    PROVE  BytesInv'
<1>1. inProgressQ' = <<>> /\ numBytesQueued' = 0
  BY DEF EmptyQueue
<1>2. Summed(<<>>, Charges', 0)
  <2>1. Sums([i \in 0..0 |-> 0], <<>>, Charges', 0)
    BY DEF Sums
  <2> QED BY <2>1 DEF Summed
<1> QED BY <1>1, <1>2 DEF BytesInv

LEMMA InitBytes == Init => BytesInv
<1> SUFFICES ASSUME Init PROVE BytesInv
  OBVIOUS
<1>1. Sums([i \in 0..0 |-> 0], <<>>, Charges, 0)
  BY DEF Sums
<1> QED BY <1>1 DEF Summed, BytesInv, Init

\* A step that only marks an entry leaves its charge.
LEMMA BytesSame ==
    ASSUME QueueType, BytesInv, UNCHANGED <<inProgressQ, numBytesQueued>>,
           \A a \in Addr : heap'[a].type = heap[a].type /\ heap'[a].m = heap[a].m
    PROVE  BytesInv'
<1>1. Charges' = Charges
  BY DEF Charges, Charge
<1> QED BY <1>1 DEF BytesInv

LEMMA BytesUnchanged ==
    ASSUME QueueType, BytesInv, UNCHANGED queueVars
    PROVE  BytesInv'
BY BytesSame DEF queueVars

LEMMA IInvQueueNext == IInv' => QueueType'
BY DEF IInv, TypeOK, QueueType

\* The count follows the queue in every step.
LEMMA BytesStep ==
    ASSUME IInv, BytesInv, [Next]_vars
    PROVE  BytesInv'
<1>1. QueueInv /\ QueueType /\ IInv' /\ QueueType'
  BY NextLemma, IInvQueue, IInvQueueNext DEF QueueInv
<1>2. CASE LoadSent
  <2>1. PICK s \in toLoad :
          IF Fits(s.type, s.m) /\ Malloc # Null
            THEN Enqueue(IdOfKey(s.key), s.type, s.m, "RETRYING")
            ELSE UNCHANGED queueVars
    BY <1>2 DEF LoadSent
  <2>2. IdOfKey(s.key) \in Ids /\ NewEntry(IdOfKey(s.key), s.type, s.m, "RETRYING") \in Entry
    <3>1. s \in Stored
      BY DEF IInv, TypeOK
    <3>2. CASE s \in [key : Keys, type : {"REQUEST"}, m : Msgs]
      BY <3>2, KeysLemma, EntryLemma
    <3>3. CASE s \in [key : Keys, type : {"PUBREL"}, m : {NoMsg}]
      BY <3>3, KeysLemma, EntryLemma
    <3> QED BY <3>1, <3>2, <3>3 DEF Stored
  <2> QED BY <1>1, <2>1, <2>2, BytesEnqueue, BytesUnchanged
<1>3. CASE Connect \/ Establish \/ ReceiveConnack \/ ReceiveRefused \/ SocketError
           \/ CheckConnection \/ StartRetry
  <2>1. UNCHANGED queueVars
    BY <1>3 DEF Connect, Establish, ReceiveConnack, ReceiveRefused, Receive, SocketError,
                CheckConnection, StartRetry
  <2> QED BY <1>1, <2>1, BytesUnchanged
<1>4. CASE Disconnect \/ Crash
  BY <1>4, BytesEmpty DEF Disconnect, Crash, DropHandle
<1>5. ASSUME NEW m \in Msgs, Request(m) PROVE BytesInv'
  <2>1. CASE RequestRejected(m) \/ RequestQos0(m)
    BY <1>1, <2>1, BytesUnchanged DEF RequestRejected, RequestQos0
  <2>2. CASE RequestQueued(m)
    <3>1. /\ nextMsgId \in Ids /\ Malloc # Null
          /\ Enqueue(nextMsgId, "REQUEST", m, "IN_PROGRESS")
      BY <1>5, <2>2 DEF Request, RequestQueued, IInv, TypeOK
    <3> QED BY <1>1, <3>1, EntryLemma, BytesEnqueue
  <2> QED BY <1>5, <2>1, <2>2 DEF Request
<1>6. CASE ReceivePubrec
  <2> DEFINE id == Head(toClient).id
  <2>1. \/ UNCHANGED queueVars
        \/ Malloc # Null /\ Enqueue(id, "PUBREL", NoMsg, "IN_PROGRESS")
    BY <1>6 DEF ReceivePubrec
  <2>2. id \in Ids
    <3>1. Head(toClient) \in Answer /\ Head(toClient).type = "PUBREC"
      BY <1>6 DEF ReceivePubrec, Receive, IInv, TypeOK
    <3> QED BY <3>1 DEF Answer
  <2> QED BY <1>1, <2>1, <2>2, EntryLemma, BytesEnqueue, BytesUnchanged
<1>7. CASE ReceiveAck
  <2>1. Dequeue(Head(toClient).id)
    BY <1>7 DEF ReceiveAck
  <2>2. Head(toClient).id \in Ids
    <3>1. Head(toClient) \in Answer /\ Head(toClient).type = "ACK"
      BY <1>7 DEF ReceiveAck, Receive, IInv, TypeOK
    <3> QED BY <3>1 DEF Answer
  <2> QED BY <1>1, <2>1, <2>2, BytesDequeue
<1>8. CASE RetryEntry
  <2> DEFINE a == inProgressQ[cursor]
  <2>1. /\ UNCHANGED <<inProgressQ, numBytesQueued>>
        /\ \/ heap' = [heap EXCEPT ![a] = [heap[a] EXCEPT !.dup = TRUE]]
           \/ heap' = [heap EXCEPT ![a] = [heap[a] EXCEPT !.status = "RETRYING"]]
    BY <1>8 DEF RetryEntry
  <2>2. ASSUME NEW c \in Addr PROVE heap'[c].type = heap[c].type /\ heap'[c].m = heap[c].m
    <3>1. heap[c] \in Entry \cup {Freed} /\ heap \in [Addr -> Entry \cup {Freed}]
      BY <1>1 DEF QueueType
    <3>2. CASE c # a
      BY <2>1, <3>1, <3>2
    <3>3. CASE c = a
      BY <2>1, <3>1, <3>3 DEF Entry, Freed
    <3> QED BY <3>2, <3>3
  <2> QED BY <1>1, <2>1, <2>2, BytesSame
<1>9. CASE BrokerConnect \/ BrokerRefuses \/ BrokerQos0 \/ BrokerRequest \/ BrokerPubrel
  <2>1. UNCHANGED queueVars
    BY <1>9 DEF BrokerConnect, BrokerRefuses, BrokerQos0, BrokerRequest, BrokerPubrel,
                BrokerTakes
  <2> QED BY <1>1, <2>1, BytesUnchanged
<1>10. CASE UNCHANGED vars
  BY <1>1, <1>10, BytesUnchanged DEF vars
<1>11. CASE Quiescent BY <1>10, <1>11 DEF Quiescent
<1> QED BY <1>2, <1>3, <1>4, <1>5, <1>6, <1>7, <1>8, <1>9, <1>10, <1>11 DEF Next

-----------------------------------------------------------------------------
(* The promise kept: each step is one of Delivery, or shows nothing.       *)

ReliableType == reply \in [Msgs -> Rcs] /\ got \in [Msgs -> 0..2] /\ Reliable \subseteq Msgs

LEMMA ReliableLemma == IInv => ReliableType
BY DEF IInv, TypeOK, ReliableType, Reliable

LEMMA InitMaps == Init => Promise!Init
<1> SUFFICES ASSUME Init PROVE Promise!Init
  OBVIOUS
<1>1. \A m \in Reliable : m \in Msgs /\ reply[m] = "NONE" /\ got[m] = 0
  BY DEF Init, Reliable
<1>2. Stage = [m \in Reliable |-> "new"] /\ Acted = [m \in Reliable |-> 0]
  BY <1>1 DEF Stage, Acted
<1> QED BY <1>2 DEF Promise!Init

\* A step shows nothing of what it does not reply, store or act on.
LEMMA SameStage ==
    ASSUME \A m \in Reliable : reply'[m] = reply[m],
           \A m \in Reliable : reply[m] = "OK" => (Holds(m)' <=> Holds(m))
    PROVE  Stage' = Stage
BY DEF Stage, Reliable

LEMMA SameActed ==
    ASSUME \A m \in Reliable : got'[m] = got[m] PROVE Acted' = Acted
BY DEF Acted, Reliable

LEMMA SameMaps ==
    ASSUME UNCHANGED <<sentStore, reply, got, options>>
    PROVE  UNCHANGED Promise!vars
<1>1. Stage' = Stage
  BY SameStage DEF Holds, Persist
<1>2. Acted' = Acted
  BY SameActed
<1> QED BY <1>1, <1>2 DEF Promise!vars

\* A session ends, or its requests outlive it in the store.
LEMMA SessionMaps ==
    ASSUME IInv, Connect \/ Disconnect \/ Crash
    PROVE  [Promise!Next]_(Promise!vars)
<1>1. options' = options /\ got' = got
  BY DEF Connect, Disconnect, Crash, DropHandle, brokerVars
<1>2. CASE reply' = reply /\ sentStore' = sentStore
  BY <1>1, <1>2, SameMaps
<1>3. CASE reply' = Forget
  <2>1. ReliableType
    BY ReliableLemma
  <2> DEFINE S == {m \in Reliable : reply[m] = "OK"}
  <2>2. \A m \in Reliable : Stage'[m] = IF m \in S THEN "given up" ELSE Stage[m]
    <3> SUFFICES ASSUME NEW m \in Reliable
                 PROVE  Stage'[m] = IF m \in S THEN "given up" ELSE Stage[m]
      OBVIOUS
    <3>1. m \in Msgs /\ reply'[m] = IF reply[m] = "OK" THEN "GIVEN_UP" ELSE reply[m]
      BY <1>3, <2>1 DEF ReliableType, Forget
    <3>2. CASE reply[m] = "OK"
      BY <3>1, <3>2 DEF Stage, Reliable
    <3>3. CASE reply[m] # "OK"
      BY <3>1, <3>3 DEF Stage, Reliable
    <3> QED BY <3>2, <3>3
  <2>3. Stage' = [m \in Reliable |-> IF m \in S THEN "given up" ELSE Stage[m]]
    <3>1. Stage' = [m \in Reliable |-> Stage'[m]]
      BY DEF Stage, Reliable
    <3> QED BY <2>2, <3>1
  <2>4. Acted' = Acted
    BY <1>1, SameActed
  <2>5. S \in SUBSET {m \in Reliable : Stage[m] # "refused"}
    BY DEF Stage
  <2> HIDE DEF S
  <2> QED BY <2>3, <2>4, <2>5 DEF Promise!Next, Promise!GiveUp
<1> QED BY <1>2, <1>3 DEF Connect, Disconnect, Crash

\* A request is refused, or taken.
LEMMA RequestMaps ==
    ASSUME IInv, EInv, IdsFit, NEW m \in Msgs, Request(m)
    PROVE  [Promise!Next]_(Promise!vars)
<1>1. pc = "idle" /\ reply[m] = "NONE" /\ UNCHANGED <<got, options>>
  BY DEF Request, brokerVars
<1>2. ReliableType
  BY ReliableLemma
<1>3. Acted' = Acted
  BY <1>1, SameActed
<1>4. CASE RequestRejected(m)
  <2>1. PICK rc \in {"CONNECTION_BROKEN", "Q_FULL", "OUT_OF_MEMORY", "PERSISTENCE_FAILED"} :
          reply' = [reply EXCEPT ![m] = rc]
    BY <1>4 DEF RequestRejected, Reply
  <2>2. sentStore' = sentStore
    BY <1>4 DEF RequestRejected
  <2>3. \A n \in Reliable : Holds(n)' <=> Holds(n)
    BY <1>1, <2>2 DEF Holds, Persist
  <2>4. CASE m \in Reliable
    <3>1. \A n \in Reliable : Stage'[n] = IF n = m THEN "refused" ELSE Stage[n]
      BY <1>2, <2>1, <2>3, <2>4 DEF Stage, Reliable, ReliableType
    <3>2. Stage' = [Stage EXCEPT ![m] = "refused"]
      BY <3>1 DEF Stage, Reliable
    <3>3. Stage[m] = "new"
      BY <1>1, <2>4 DEF Stage
    <3> QED BY <1>3, <2>4, <3>2, <3>3 DEF Promise!Next, Promise!Refuse
  <2>5. CASE m \notin Reliable
    <3>1. \A n \in Reliable : reply'[n] = reply[n]
      BY <1>2, <2>1, <2>5 DEF ReliableType
    <3> QED BY <1>3, <2>3, <3>1, SameStage DEF Promise!vars
  <2> QED BY <2>4, <2>5
<1>5. CASE RequestQos0(m)
  <2>1. /\ m \notin Reliable /\ sentStore' = sentStore
        /\ reply' = [reply EXCEPT ![m] = "OK"]
    BY <1>5 DEF RequestQos0, Reply, Reliable
  <2>2. \A n \in Reliable : reply'[n] = reply[n]
    BY <1>2, <2>1 DEF ReliableType
  <2>3. \A n \in Reliable : Holds(n)' <=> Holds(n)
    BY <1>1, <2>1 DEF Holds, Persist
  <2> QED BY <1>3, <2>2, <2>3, SameStage DEF Promise!vars
<1>6. CASE RequestQueued(m)
  <2> DEFINE id == nextMsgId
             s == [key |-> id, type |-> "REQUEST", m |-> m]
  <2>1. /\ m \in Reliable /\ reply' = [reply EXCEPT ![m] = "OK"]
        /\ sentStore' = IF Persist THEN StorePut(KeyOfShort(id), "REQUEST", m) ELSE sentStore
    BY <1>6 DEF RequestQueued, Reply, Reliable
  <2>2. Persist => KeyOfShort(id) = id
    <3>1. nextMsgId \in Nat /\ nextMsgId \in Ids
      BY <1>1, NatLemma DEF IInv, TypeOK
    <3> QED BY <3>1, KeyLemma
  <2>3. Persist => sentStore' = {t \in sentStore : t.key # id} \cup {s}
    BY <2>1, <2>2 DEF StorePut
  <2>4. Persist => \A t \in sentStore : t.key # id
    BY <1>1, NatLemma DEF EInv, IdsOK, Held
  <2>5. Persist => sentStore' = sentStore \cup {s}
    BY <2>3, <2>4
  <2>6. Holds(m)' /\ \A n \in Reliable \ {m} : Holds(n)' <=> Holds(n)
    <3>1. CASE ~Persist
      BY <1>1, <3>1 DEF Holds, Persist
    <3>2. CASE Persist
      <4>1. /\ s \in sentStore' /\ s.type = "REQUEST" /\ s.m = m
            /\ \A n \in Reliable \ {m} : s.m # n
        BY <2>5, <3>2
      <4>2. \A t : t \in sentStore' <=> t \in sentStore \/ t = s
        BY <2>5, <3>2
      <4>3. Persist'
        BY <1>1, <3>2 DEF Persist
      <4> HIDE DEF s
      <4>4. Holds(m)'
        BY <4>1 DEF Holds
      <4>5. ASSUME NEW n \in Reliable \ {m} PROVE Holds(n)' <=> Holds(n)
        BY <3>2, <4>1, <4>2, <4>3 DEF Holds
      <4> QED BY <4>4, <4>5
    <3> QED BY <3>1, <3>2
  <2>7. \A n \in Reliable : Stage'[n] = IF n = m THEN "owed" ELSE Stage[n]
    BY <1>2, <2>1, <2>6 DEF Stage, Reliable, ReliableType
  <2>8. Stage' = [Stage EXCEPT ![m] = "owed"]
    BY <2>7 DEF Stage, Reliable
  <2>9. Stage[m] = "new"
    BY <1>1, <2>1 DEF Stage
  <2> QED BY <1>3, <2>1, <2>8, <2>9 DEF Promise!Next, Promise!Take
<1> QED BY <1>4, <1>5, <1>6 DEF Request

\* A record leaves the store, or is replaced by a PUBREL: what it was for had been acted
\* on.
LEMMA LeaveMaps ==
    ASSUME IInv, EInv, EInv', NEW id,
           UNCHANGED <<reply, got, options>>,
           Persist => \/ sentStore' = sentStore
                      \/ sentStore' = Del(sentStore, id)
                      \/ sentStore' = Put(sentStore, id, "PUBREL", NoMsg)
    PROVE  [Promise!Next]_(Promise!vars)
<1>1. Acted' = Acted
  BY SameActed
<1>2. ReliableType
  BY ReliableLemma
<1>3. CASE \A n \in Reliable : reply[n] = "OK" => (Holds(n)' <=> Holds(n))
  BY <1>1, <1>3, SameStage DEF Promise!vars
<1>4. ASSUME NEW m \in Reliable, reply[m] = "OK", ~(Holds(m)' <=> Holds(m))
      PROVE  [Promise!Next]_(Promise!vars)
  <2>1. Persist /\ Persist'
    BY <1>4 DEF Holds, Persist
  <2>2. Held = sentStore /\ Held' = sentStore'
    BY <2>1 DEF Held
  <2>3. sentStore' # sentStore => \A t \in sentStore' : IsReq(t) => t \in sentStore /\ t.key # id
    BY <2>1 DEF Del, Put, IsReq
  <2>4. sentStore' # sentStore
    BY <1>4, <2>1 DEF Holds, Persist
  <2>5. /\ \A t \in sentStore' : IsReq(t) => t \in sentStore
        /\ \A t \in sentStore : t.key # id => t \in sentStore'
    BY <2>1, <2>3, <2>4 DEF Del, Put
  <2>6. Holds(m) /\ ~Holds(m)'
    BY <1>4, <2>1, <2>5 DEF Holds, Persist, IsReq
  <2>7. PICK s \in sentStore : IsReq(s) /\ s.m = m
    BY <2>1, <2>6 DEF Holds, IsReq
  <2>8. s.key = id
    BY <2>1, <2>5, <2>6, <2>7 DEF Holds, Persist, IsReq
  <2>9. \A n \in Reliable \ {m} : Holds(n)' <=> Holds(n)
    <3> SUFFICES ASSUME NEW n \in Reliable \ {m} PROVE Holds(n)' <=> Holds(n)
      OBVIOUS
    <3>1. Holds(n)' => Holds(n)
      BY <2>1, <2>5 DEF Holds, Persist, IsReq
    <3>2. ASSUME Holds(n) PROVE Holds(n)'
      <4>1. PICK t \in sentStore : IsReq(t) /\ t.m = n
        BY <2>1, <3>2 DEF Holds, IsReq
      <4>2. t.key # id
        BY <2>2, <2>7, <2>8, <4>1 DEF EInv, ExchangeInv, Exchange, HeldOK
      <4> QED BY <2>5, <4>1, <4>2 DEF Holds, IsReq
    <3> QED BY <3>1, <3>2
  <2>10. Stage[m] = "owed" /\ Stage' = [Stage EXCEPT ![m] = "settled"]
    <3>1. \A n \in Reliable : Stage'[n] = IF n = m THEN "settled" ELSE Stage[n]
      BY <1>4, <2>6, <2>9 DEF Stage, Reliable
    <3>2. Stage' = [Stage EXCEPT ![m] = "settled"]
      BY <3>1 DEF Stage, Reliable
    <3> QED BY <1>4, <2>6, <3>2 DEF Stage
  <2>11. got[m] > 0
    <3>1. m \in Msgs /\ Kind[m] # "PUBLISH0" /\ got[m] \in 0..2
      BY <1>2 DEF ReliableType, Reliable
    <3>2. KeptOK(sentStore', got, reply, options)
      BY <2>2 DEF EInv, ExchangeInv, Exchange
    <3>3. got[m] # 0
      BY <1>4, <2>1, <2>6, <3>1, <3>2 DEF KeptOK, Holds, Persist, IsReq
    <3> QED BY <3>1, <3>3
  <2>12. Acted[m] > 0
    BY <2>11 DEF Acted
  <2> QED BY <1>1, <2>10, <2>12 DEF Promise!Next, Promise!Settle
<1> QED BY <1>3, <1>4

\* The broker acts on a request it was sent, which is owed or has been repeated.
LEMMA BrokerMaps ==
    ASSUME IInv, EInv, EInv', BrokerRequest \/ BrokerQos0
    PROVE  [Promise!Next]_(Promise!vars)
<1> DEFINE w == Head(toBroker)
<1>1. UNCHANGED <<sentStore, reply, options>>
  BY DEF BrokerRequest, BrokerQos0, BrokerTakes, appVars
<1>2. ReliableType
  BY ReliableLemma
<1>3. Stage' = Stage
  BY <1>1, SameStage DEF Holds, Persist
<1>4. CASE got' = got
  BY <1>1, <1>4, SameMaps
<1>5. toBroker \in Seq(Wire) /\ toBroker # <<>> /\ 1 \in 1..Len(toBroker) /\ toBroker[1] = w
  <2>1. toBroker \in Seq(Wire) /\ toBroker # <<>>
    BY DEF BrokerRequest, BrokerQos0, BrokerTakes, IInv, TypeOK
  <2> QED BY <2>1, TailFacts
<1> HIDE DEF w
<1>6. CASE BrokerQos0
  <2>1. w.type = "QOS0" /\ got' = Act(w.m)
    BY <1>6 DEF BrokerQos0, BrokerTakes, w
  <2>2. Kind[w.m] = "PUBLISH0"
    BY <1>5, <2>1 DEF EInv, ExchangeInv, Exchange, Qos0OK
  <2>3. \A n \in Reliable : got'[n] = got[n]
    BY <1>2, <2>1, <2>2 DEF Act, ReliableType, Reliable
  <2> QED BY <1>3, <2>3, SameActed DEF Promise!vars
<1>7. CASE BrokerRequest /\ got' # got
  <2>1. w.type = "REQUEST" /\ got' = Act(w.m)
    BY <1>7 DEF BrokerRequest, BrokerTakes, w
  <2>2. reply[w.m] = "OK" /\ Kind[w.m] # "PUBLISH0"
    BY <1>5, <2>1 DEF EInv, ExchangeInv, Exchange, RequestOK, IsReq
  <2>3. w.m \in Msgs /\ w.m \in Reliable
    <3>1. w \in Wire
      BY <1>5
    <3>2. w.m \in Msgs
      BY <2>1, <3>1 DEF Wire, ConnectMsg, Qos0Msg
    <3> QED BY <2>2, <3>2 DEF Reliable
  <2>4. Stage[w.m] \in {"owed", "settled"}
    BY <2>2, <2>3 DEF Stage
  <2>5. \A n \in Reliable : Acted'[n] = IF n = w.m THEN IF Acted[n] = 0 THEN 1 ELSE 2
                                        ELSE Acted[n]
    BY <1>2, <2>1, <2>3 DEF Acted, Act, ReliableType, Reliable
  <2>6. Acted' = [Acted EXCEPT ![w.m] = IF @ = 0 THEN 1 ELSE 2]
    BY <2>3, <2>5 DEF Acted, Reliable
  <2>7. ASSUME Kind[w.m] = "PUBLISH2" PROVE Acted[w.m] = 0
    <3>1. got'[w.m] <= 1
      BY <2>3, <2>7 DEF EInv, ExchangeInv, Exchange, GotOK, Q2
    <3>2. got'[w.m] = IF got[w.m] = 0 THEN 1 ELSE 2
      BY <1>2, <2>1, <2>3 DEF Act, ReliableType
    <3> QED BY <2>3, <3>1, <3>2 DEF Acted
  <2> QED BY <1>3, <2>3, <2>4, <2>6, <2>7 DEF Promise!Next, Promise!Act
<1> QED BY <1>4, <1>6, <1>7

LEMMA NextMaps ==
    ASSUME IInv, EInv, IdsFit, [Next]_vars
    PROVE  [Promise!Next]_(Promise!vars)
<1>1. EInv'
  BY NextExchange
<1>2. CASE Connect \/ Disconnect \/ Crash
  BY <1>2, SessionMaps
<1>3. ASSUME NEW m \in Msgs, Request(m) PROVE [Promise!Next]_(Promise!vars)
  BY <1>3, RequestMaps
<1>4. CASE LoadSent \/ Establish \/ ReceiveConnack \/ ReceiveRefused \/ SocketError
           \/ CheckConnection \/ StartRetry \/ RetryEntry
  <2>1. UNCHANGED <<sentStore, reply, got, options>>
    BY <1>4 DEF LoadSent, Establish, ReceiveConnack, ReceiveRefused, SocketError,
                CheckConnection, StartRetry, RetryEntry, appVars, brokerVars
  <2> QED BY <2>1, SameMaps
<1>5. CASE BrokerConnect \/ BrokerRefuses \/ BrokerPubrel
  <2>1. UNCHANGED <<sentStore, reply, got, options>>
    BY <1>5 DEF BrokerConnect, BrokerRefuses, BrokerPubrel, BrokerTakes, appVars, brokerVars
  <2> QED BY <2>1, SameMaps
<1>6. CASE BrokerQos0 \/ BrokerRequest
  BY <1>1, <1>6, BrokerMaps
<1>7. CASE ReceivePubrec \/ ReceiveAck
  <2>1. UNCHANGED <<reply, got, options>>
    BY <1>7 DEF ReceivePubrec, ReceiveAck, appVars, brokerVars
  <2>2. CASE ReceivePubrec
    <3>1. Receive("PUBREC")
      BY <2>2 DEF ReceivePubrec
    <3> DEFINE id == Head(toClient).id
    <3>2. Persist => KeyOfShort(id) = id
      <4>1. /\ toClient \in Seq(Answer) /\ toClient # <<>> /\ Head(toClient).type = "PUBREC"
            /\ id < nextMsgId
        BY <3>1, ReceiveFacts
      <4>2. id \in Ids
        <5>1. Head(toClient) \in Answer
          BY <4>1
        <5> QED BY <4>1, <5>1, AnswerFacts
      <4>3. nextMsgId \in Nat /\ id \in Nat
        BY <4>2, IdsLemma, NatLemma
      <4> QED BY <4>1, <4>2, <4>3, KeyLemma
    <3>3. \/ sentStore' = sentStore
          \/ sentStore' = IF Persist THEN StorePut(KeyOfShort(id), "PUBREL", NoMsg)
                                     ELSE sentStore
      BY <2>2 DEF ReceivePubrec
    <3>4. Persist => sentStore' = sentStore \/ sentStore' = Put(sentStore, id, "PUBREL", NoMsg)
      BY <3>2, <3>3 DEF StorePut, Put
    <3> QED BY <1>1, <2>1, <3>4, LeaveMaps
  <2>3. CASE ReceiveAck
    <3>1. PICK id \in Ids :
            Persist => sentStore' = Del(sentStore, id) \/ sentStore' = sentStore
      BY <2>3, AckQueue DEF Acknowledged
    <3> QED BY <1>1, <2>1, <3>1, LeaveMaps
  <2> QED BY <1>7, <2>2, <2>3
<1>8. CASE Quiescent \/ UNCHANGED vars
  <2>1. UNCHANGED <<sentStore, reply, got, options>>
    BY <1>8 DEF Quiescent, vars, appVars, brokerVars
  <2> QED BY <2>1, SameMaps
<1> QED BY <1>2, <1>3, <1>4, <1>5, <1>6, <1>7, <1>8 DEF Next

-----------------------------------------------------------------------------
(* The theorems.                                                           *)

\* The inductive invariant holds in every reachable state.
THEOREM Invariance == Spec => []IInv
BY InitLemma, NextLemma, PTL DEF Spec

\* Every variable keeps its type: in particular no id outside 1..65535 is ever
\* given to a message, sent, stored or looked up.
THEOREM TypeCorrect == Spec => []TypeOK
<1>1. IInv => TypeOK
  BY DEF IInv
<1> QED BY Invariance, <1>1, PTL

\* The list of messages in progress and its hash table never disagree,
\* whatever is lost, retried, replaced, wrapped or recovered: mspReadFromHash
\* never returns a freed message, and none is linked without being hashed.
THEOREM HashAgrees == Spec => []HashMatchesList
<1>1. IInv => HashMatchesList
  BY DEF IInv
<1> QED BY Invariance, <1>1, PTL

\* The bytes queued never exceed MSP_DEFAULT_MAX_OUTQ_SZ, although a PUBREL is
\* queued before the PUBLISH it replaces is given back.
THEOREM QueueStaysBounded == Spec => []QueueBounded
<1>1. IInv => QueueBounded
  BY DEF IInv
<1> QED BY Invariance, <1>1, PTL

\* And what numBytesQueued says is the sum of what the messages in the list
\* were charged: no replacement of a PUBLISH by its PUBREL, no reused id and no
\* emptied queue leaves bytes counted that nothing holds, or the reverse.
THEOREM BytesCounted == Spec => []BytesAccounted
<1>1. Init => BytesInv
  BY InitBytes
<1>2. IInv /\ BytesInv /\ [Next]_vars => BytesInv'
  BY BytesStep
<1>3. IInv /\ BytesInv => BytesAccounted
  BY IInvQueue, BytesLemma DEF QueueInv
<1> QED BY Invariance, <1>1, <1>2, <1>3, PTL DEF Spec

\* As long as ids do not run out, what is in flight, what the client holds and
\* what the broker remembers stay in step.
THEOREM ExchangeInvariance == Spec /\ []IdsFit => []EInv
<1>1. Init => EInv
  BY InitExchange
<1>2. IInv /\ EInv /\ IdsFit /\ [Next]_vars => EInv'
  BY NextExchange
<1> QED BY Invariance, <1>1, <1>2, PTL DEF Spec

\* The broker never acts on a QoS 2 publication twice: a repeated PUBLISH
\* carries the DUP flag and an id the broker still remembers, because the
\* PUBREL replaces the publication before it is sent (mspReceiveScadaMessage).
THEOREM OnlyOnce == Spec /\ []IdsFit => []AtMostOnce
<1>1. EInv => AtMostOnce
  BY DEF EInv, ExchangeInv, Exchange, GotOK, AtMostOnce, Q2
<1> QED BY ExchangeInvariance, <1>1, PTL

\* A request that the application was told was accepted is in the persistence
\* store until the broker has acted on it, across lost connections, crashes
\* between any two steps, and failing stores.
THEOREM NothingLost == Spec /\ []IdsFit => []StoreKeepsUndelivered
<1>1. EInv => StoreKeepsUndelivered
  BY DEF EInv, ExchangeInv, Exchange, KeptOK, StoreKeepsUndelivered, Held, Persist, IsReq
<1> QED BY ExchangeInvariance, <1>1, PTL

\* No step takes a request off the queue but the arrival of an answer with its
\* id, or the end of the connection handle: not a retry, not another request,
\* not recovery.
THEOREM LeavesWhenAnswered == Spec /\ []IdsFit => LeavesOnlyWhenAnswered
<1> DEFINE Leaves ==
      \A m \in Msgs :
        /\ \E a \in Cells(inProgressQ) : heap[a].type = "REQUEST" /\ heap[a].m = m
        /\ ~ \E a \in Cells(inProgressQ') : heap'[a].type = "REQUEST" /\ heap'[a].m = m
        => \/ pc' = "off"
           \/ toClient # <<>> /\ Head(toClient).id = handle[m]
<1>1. IInv /\ EInv /\ IdsFit /\ [Next]_vars => Leaves
  BY LeavesLemma
<1> HIDE DEF Leaves
<1>2. Spec /\ []IdsFit => [][Leaves]_vars
  BY Invariance, ExchangeInvariance, <1>1, PTL DEF Spec
<1> QED BY <1>2 DEF LeavesOnlyWhenAnswered, Leaves

\* If recovery has room for what it finds in the store, everything stored is
\* queued again, and stays so.
THEOREM NothingMissing == Spec /\ []IdsFit /\ []RecoveryFits => []AllQueued
<1>1. Init => AllQueued
  BY DEF Init, AllQueued
<1>2. IInv /\ EInv /\ IdsFit /\ RecoveryFits /\ AllQueued /\ [Next]_vars => AllQueued'
  BY AllQueuedStep
<1> QED BY Invariance, ExchangeInvariance, <1>1, <1>2, PTL DEF Spec

\* Then MQIsdp_getMsgStatus says DELIVERED only of what the broker acted on,
\* for an application with persistence.
THEOREM DeliveredTruthfully ==
    Spec /\ []IdsFit /\ []RecoveryFits => [](Persist => DeliveredIsTrue)
<1>1. IInv /\ EInv /\ AllQueued => (Persist => DeliveredIsTrue)
  BY DeliveredLemma
<1> QED BY Invariance, ExchangeInvariance, NothingMissing, <1>1, PTL

\* And the store holds what the queue holds, in the same stage of delivery.
THEOREM StoreIsQueue ==
    Spec /\ []IdsFit /\ []RecoveryFits => []StoreMirrorsQueue
<1>1. IInv /\ EInv /\ AllQueued => StoreMirrorsQueue
  BY MirrorsLemma
<1> QED BY Invariance, ExchangeInvariance, NothingMissing, <1>1, PTL

\* Without persistence, so that nothing is recovered in the order of a
\* directory, the queue keeps requests in the order they were made.
THEOREM OrderKept == Spec /\ []IdsFit => [](~Persist => SentOrder)
<1>1. Init => SentOrder
  BY DEF Init, SentOrder
<1>2. IInv /\ EInv /\ (~Persist => SentOrder) /\ [Next]_vars => (~Persist => SentOrder)'
  BY OrderStep, GotStep DEF Persist
<1> QED BY Invariance, ExchangeInvariance, <1>1, <1>2, PTL DEF Spec

\* The sending half implements the abstract delivery service: what was taken is owed until
\* the broker has acted on it and settled only then, at most once for QoS 2, and nothing
\* that was given up arrives later.
THEOREM SendingImplementsDelivery == Spec /\ []IdsFit => ImplementsDelivery
<1>1. Init => Promise!Init
  BY InitMaps
<1>2. IInv /\ EInv /\ IdsFit /\ [Next]_vars => [Promise!Next]_(Promise!vars)
  BY NextMaps
<1> QED BY Invariance, ExchangeInvariance, <1>1, <1>2, PTL
        DEF Spec, ImplementsDelivery, Promise!Spec
=============================================================================
