# A verification development of the WMQTT client library

The repository is `WebSphere::MQTT::Client`, a Perl client for the MQIsdp (MQTT 3)
protocol: IBM's C client library (`src/`), XS bindings and a Perl class
(`lib/WebSphere/MQTT`), and a persistence store in files
(`lib/WebSphere/MQTT/Persist/File.pm`). The library can be built with three tasks that
exchange messages, or as a set of functions; `Build.PL` compiles the latter,
`-DMSP_SINGLE_THREAD`. These modules model how messages are queued, stored, sent, received,
confirmed and reported, in TLA+, check it with TLC and prove part of it with TLAPS.
Paths below are relative to the repository.

## The system

| Component | State | Operations | Model |
|---|---|---|---|
| Outbound queue and send task (`mspscada.c`, `msputils.c`, `msphash.c`) | `outQ` (list, hash table, byte count), `nextMsgId`, each entry's status | publish, subscribe, unsubscribe, getMsgStatus; PUBREC, PUBACK, PUBCOMP, SUBACK, UNSUBACK; the retry pass; recovery | `Outbound` |
| Inbound queue (same files) | `inQ` (list, hash table, `rtpEntries`, byte count), `nextRcvId` | PUBLISH, PUBREL; MQIsdp_receivePub (hand over, confirm, decline); recovery | `Inbound` |
| Persistence (`ppersist.c`, `File.pm`) | two directories of message files | open, reset, getAll, add, upd, del | `FileStore`, which implements `AtomicStore` |
| Threaded build (`mspipc.c`, `mspdmn.c`, `mspclnt.c`) | three mailboxes, a mutex, a semaphore, the tasks' copies of the socket | the exchanges of the API, the loops of the two tasks | `TaskIpc` |
| TCP/IP and the fixed header (`msptcp.c`, `msputils.c`, `mspscada.c`) | the socket, the buffer, `errno` | reading a message, encoding and decoding its length | `TcpRead` |
| Perl client (`Client.pm`, `Client.xs`) | `txqueue`, `handle` | connect, disconnect, publish, receivePub, status, callbacks on delivery | `TxQueue` |
| Connection (`msputils.c`, `mspscada.c`) | `connState`, `connRetries`, `timeForNextConnect`, the socket | connect, disconnect, CONNACK, the reconnect block | in `Outbound` and `TaskIpc` |
| Keep alive (`msputils.c`) | `timeForNextPoll` | PINGREQ | in `TaskIpc`, as a write that may fail at any time |
| API (`mspclnt.c`) | a handle, one shared buffer | one exchange per call, two for MQIsdp_receivePub | the exchanges in `TaskIpc`, folded into the handlers elsewhere |
| Hash table (`msphash.c`) | 16 collision chains | add, find, delete | a function |
| Memory and logging | heap, counters | mspMalloc, mspFree | cells in `Outbound` and `Inbound` |

How they interact. Every call of the API writes a request into the send task's mailbox and
waits for the answer in the application's. In the single threaded build writing the request
runs one pass of `mspHandleClientConnection`: it takes the request (`mspReceiveIPCMessage`),
reads what the socket has (`mspReceiveScadaMessage`), then runs the reconnect block and the
retry pass, and answers. Nothing in the library runs concurrently then. What is concurrent is
everything around it: the broker, the network, the moment the process dies, and the two calls
MQIsdp_receivePub makes. In the threaded build the send task runs these passes by itself, a
receive task waits at the socket and hands the send task what it has read, and any number of
application threads share the one handle. The queues are held in memory and, if the application
passes a persistence interface, copied to the store at each change; the next connect
rebuilds them from there. The Perl class keeps the handle of each publication that has
a callback in `txqueue`, and asks the library for their status at the start of nearly every method.

What is hard. Every fact about an unacknowledged message is kept in four or five
places (list, hash table, counters, store, `txqueue`) that are updated one after another, with
early exits between them. Messages and answers are lost with a connection and
repeated after it. Message ids are 16 bits, pass through `short`, `u_short` and
`unsigned long`, and come back. The limits of the queues are checked at some places
and not at others. A crash can come between any two updates of store and memory, and between
any two system calls of one update. Mailboxes carry no addresses: who reads an answer is
decided by a mutex alone. Bytes arrive in any pieces. Callbacks may call back. The
hazards in `PROJECT.json` list these at their lines.

What makes each component correct:

* Outbound: an accepted request is never lost and is delivered in the end; a QoS 2
  publication is acted on once; the application is told the truth; the list, the hash
  table, the byte count and the store agree; the queue stays within its limit and in order.
* Inbound: what the broker has an answer for is safe; QoS 2 is received once and not
  before it is released; every publication waiting for a PUBREL can be found by it;
  the confirmation deletes what was received; the counter is the number of entries ready.
* Connection: what is queued survives every connection and is sent on the next.
* Persistence: a call takes effect at one moment or not at all; after a crash each message
  is there in its last stage, once.
* Threaded build: each thread reads the answer to its own request, no wake-up is lost, and
  every call returns.
* TCP/IP: the messages read are the messages sent, and a peer that leaves is noticed.
* Perl client: each callback is made once, with the fate of its own message.

## The modules

| Module | What it is |
|---|---|
| `LinkedList`, `LinkedListProofs` | the doubly linked lists of `msphash.c`, as sequences of cells; lemmas about them |
| `Outbound`, `MCOutbound` | the sending half, with the broker, the network and the store as its environment; its instances |
| `OutboundExchange`, `OutboundProofs` | its theorems: lemmas about client, channels and broker, then the steps |
| `Inbound`, `MCInbound` | the receiving half, likewise |
| `InboundProofs` | its theorems: the protocol's invariant first, then the queue |
| `Delivery` | the abstract specification of what both halves promise; both are shown to implement it |
| `AtomicStore` | the abstract specification of a persistence interface, what the two halves rely on |
| `FileStore`, `MCFileStore` | `File.pm`, one action per system call |
| `FileStoreProofs` | its theorems: `FileStore` implements `AtomicStore` |
| `TaskIpc`, `MCTaskIpc` | the tasks, the mailboxes, the mutex and the semaphore of the threaded build |
| `TaskIpcProofs` | its theorems |
| `TcpRead`, `MCTcpRead` | messages out of a stream of bytes |
| `TcpReadProofs` | its theorems, from the digits of a length to whole messages |
| `TxQueue`, `MCTxQueue` | the Perl class |
| `TxQueueProofs` | its theorems |

The two halves share the socket and the connection, and no other state: the queues,
ids and files are separate. They are modelled apart so that each can be checked with
interesting bounds. `FileStore`, `TaskIpc`, `TcpRead` and `TxQueue` each take one assumption of
theirs apart: that a call of the store is atomic, that an exchange is a function call, that
a message arrives whole, that the handle of a publication is what the application asks about.

### Correspondence with the code: `Outbound` and `Inbound`

A handler is an action, with the calls it makes: `ReceivePubrec` is the PUBREC case
of `mspReceiveScadaMessage`, `mspSendPubReceivedResponse` and everything
`mspSendScadaMessage` does for it, including the deletion of the PUBLISH, the write to
the store, and the write to the socket that may fail and close it. Two loops whose
body is `mspSendScadaMessage` or `mspStorePublication`, recovery (`LoadSent`,
`LoadReceived`) and the retry pass (`RetryEntry`), take a step per iteration: only the
broker and a crash can come between two iterations. Variables have the names of the
fields they stand for; `PROJECT.json` maps every definition to its lines.

The heap is modelled: the list and the hash table hold cells, and a cell that is freed
loses its contents, so that a dangling pointer shows. `mspMalloc` gives any one cell not
in use, cleared; running out of cells is running out of memory.

The reply to a request carries an id whatever its return code, 0 when the connection is broken, and
`handle` is what `mspIPCExchange` makes of it. `DeliveredIsTrue` is about accepted requests:
under the handle of a refused one nothing need be hashed, and the library would answer DELIVERED for
it. `Client.pm` drops that handle.

Message contents are model values; lengths are kept, because the limits of the queues
are about them. In `Outbound` the key under which a message is stored has its width:
a key is taken modulo 2 * (MaxMsgs + 1), which keeps the sign extension of a negative
`short` apart from the `u_short` of the same bits.

`pc` is "off" without a connected application, "load" in the recovery loop, "idle"
between handlers, "retry" in the retry pass and "taken" between the two exchanges of
MQIsdp_receivePub. `delivered` counts a publication as received when its confirmation
is handled: the copy to the application and the deletion happen in calls that follow
each other at once, and a crash between them means that the application's call
never returned.

The environment:

* The network keeps order and loses everything when a connection ends (TCP).
* The broker of `Outbound` keeps the session of a client that does not ask for clean
  start, answers everything, and recognises a repeated QoS 2 publication by its DUP flag
  and id, the way this library does on its own receiving side. It may refuse a
  connection (`BrokerRefuses`), and reads nothing more on one it has refused.
* The broker of `Inbound` gives a publication the least id with nothing under way,
  and repeats it, or its PUBREL, as long as it is not answered.
* The store does each call atomically or, with `StoreFails`, perhaps not at all: what
  `FileStore` establishes of `File.pm`. It returns its records in any order.
* Time is not modelled: a timer may expire at any moment. That a CONNACK comes later
  than the retry interval counts as a fault.
* A failed connect (recovery that fails in `mspInitialiseHconn`) leaves the application
  without a handle, as `MQIsdp_connect` does: the model is "off" again.

What the two halves promise is `Delivery`: what one side asks of the other is refused or taken
once, is owed from then on until the other side has acted on it, is settled only then, for some
requests is acted on at most once, and is never acted on after it was given up. Each half has a
refinement mapping (`Stage`, `Acted`, `Promise`) and the property `ImplementsDelivery`:

| `Delivery` | `Outbound`: requests of QoS 1 and 2, subscriptions | `Inbound`: publications of QoS 2 |
|---|---|---|
| `Refuse` | the API call returns an error | (none: a publication that cannot be stored is not answered, and comes again) |
| `Take` | the call returns MQISDP_OK | the broker has the PUBREC |
| `Act` | the broker acts on it | `MQIsdp_receivePub` is confirmed |
| `Settle` | its record leaves the store, or becomes its PUBREL | its record leaves the store, mostly with the `Act` |
| `GiveUp` | the session of a clean start, or without persistence, ends | a clean start ends the session of the broker |

"Owed" means that the store has it, so that it survives the process, where there is a store
that is not reset; elsewhere what was taken counts as owed until it is given up. In `Inbound`
a store that fails to delete brings a publication back that was received, so there `Acted` counts no
further than one. The ids, the retries, the recovery and the queues do not show.

### Correspondence with the code: `FileStore`

`call` is the method that runs, `at` its next system call, and each of `OpenTmp` to
`ResetEntry` is one system call, with the outcomes `Faults` allows. A file is what it holds,
`Torn` when it was not written to its end. The library makes its calls in phases, as
`mspInitialiseHconn` does: it reads what was sent (or resets), then what was received, then
adds, updates and deletes under keys it holds (`held`). `newest` is a history variable.

The refinement mapping: the record of a key among the messages sent is the content of `NNNu`
if there is one and of `NNN` otherwise (`Current`), of a publication that of its file, and a
call has taken effect (`Done`) from the moment a file gets its name or the last file of a
key loses it. So `rename`, the last `unlink` and the write of the byte that
releases a publication map to `Effect`, and the removal of the older of two files is a stutter.

### Correspondence with the code: `TaskIpc`

A step is what a thread does between two operations on what it shares with others: a handler
of the send task is one step, an API call is one step for each message it exchanges. A
publication is a number, ready as soon as it is received; storing it is the subject of
`Inbound`. Each task has its own copy of the socket's descriptor, `sockfd` and `rcvSockfd`. The
receive task reads every message it gets into the buffer it also hands data over from (`rcvBuffer`), takes any
message for the end of the hand over (`HandedData`), and keeps nothing of a descriptor that
comes with it. The second exchange of MQIsdp_receivePub is
made under the same lock as the first ("confirm"), and deletes the first publication of
the queue that matches, as `mspDeletePublication` does.

### Correspondence with the code: `TcpRead`

A byte is a number below 2 * `Base` (128 in the code), so that small messages have lengths of
several digits. The two loops of `mspTCPReadMsg` take a step for each `recv`, which returns
any piece of what has arrived, an error or the end of the stream;
the two loops of the encoding are recursive functions (`Left`, `Turns`), one value for each turn; `errno` keeps the last error,
as the code does, also past calls that succeed. `received` is what
`mspReceiveScadaMessage` is given.

### Correspondence with the code: `TxQueue`

The Perl stack is a sequence of frames, because a callback may call the client again: a frame
is a method with the index `txQueueSize` is at. The library is what the methods see of
it, `conn` and `hash`: with a connection a publication that is not hashed is
reported as delivered, the rule of `msputils.c:575`. The ids restart with each connection, after the
largest one in the store (`IdsRestart`), and a refused publication uses one up too (`GivesIds`).
The constant `Options` is, as above, a set of applications: with or without a persistence object,
asynchronous or not, connecting again with or without a disconnect. `Inner` is what callbacks call.

## The runs

| Run | Asks | Result |
|---|---|---|
| `outbound_stores` | consistency, no loss, truth of DELIVERED, at most once, `Delivery` implemented; with persistence, a store that may fail, clean start; lost connections, crashes, restarts | holds |
| `outbound_volatile` | limits, order, when a request leaves the queue; publications of every QoS and a subscription | holds |
| `outbound_live` | delivery in the end | holds |
| `inbound_stores` | consistency, safety of what was answered, at most once, `Delivery` implemented; the same three kinds of store | holds |
| `inbound_qos1` | QoS 0 and 1, with and without persistence: receipt in the end | holds |
| `inbound_lost_pubrec` | QoS 2 when a PUBREC is lost | violated |
| `file_store` | the files implement the atomic store; recovery reads the latest message of each key | holds |
| `task_ipc` | two application threads and the two tasks: answers, confirmations, wake-ups, waiting | holds |
| `task_live` | every call returns, as long as no connect fails during initialisation and none is made with a second handle (`Faults` is empty) | holds |
| `tcp_read` | messages whole and in order from a stream in pieces; all are read; a peer that leaves is noticed | holds |
| `tx_queue` | callbacks once and true, entries leave one by one, methods return, nothing is forgotten | holds |
| `tx_queue_again` | a connect that follows a lost connection without a disconnect | violated |

`Outbound` and `Inbound` have a constant `Options`, a set of applications: with or without a
persistence interface, with or without clean start, with a store that may fail or not.
Each behaviour picks one in `Init` and keeps it (`options`), as an application that
always connects in the same way. A run over `MCStores` covers three of them at once.

### What a property asks of the options

A store that refuses a delete keeps a message that was acknowledged (both callers ignore what
the delete returns, `mspscada.c:734` and `msputils.c:774`), and one that refuses
the release of a publication keeps its old stage: `StoreMirrorsQueue` is asked of a store
that works, in both modules, and `AtMostOnce` of `Inbound` too, where a publication whose
delete failed comes back after a restart and is received again. The other properties hold
with a store that fails. A clean start throws away what was held, so `AnsweredIsKept` is
not asked of it; neither is `EventuallyReceived` of an application that has no persistence
and disconnects or dies. `SuccessIsTrue` of `TxQueue` is asked of an application without persistence
only if it disconnects before it connects again.

### What the violated runs show

* `inbound_lost_pubrec`. A repeated QoS 2 PUBLISH that is already held is taken
  for one that could not be stored, and is not answered; so once a PUBREC is lost the
  broker repeats for ever.
* `tx_queue_again`. After CONNECTION_BROKEN the documentation has the application
  connect again. `connect` keeps `txqueue`, whose handles are ids of the connection before.
  The new one starts with an empty hash table unless it reads a store, and an id
  without a hash entry is one that was delivered: the callback of a publication that is lost
  is told of its success.

### Instances beside the runs

These configurations are kept for the reader and are not in `PROJECT.json`; each is run as
`tlc -config <file> <MC module>`. All but the first are violated, and show where the
properties of the runs above end.

| Configuration | Property | What it shows |
|---|---|---|
| `InboundQos2` | `EventuallyReceived` | holds: QoS 2 on a connection that does not break |
| `OutboundWrap` | `LeavesOnlyWhenAnswered` | a request whose id is still in the hash table deletes the entry of that id. The comment says this is only ever a PUBLISH replaced by its PUBREL; after 65535 requests (QoS 0 ones count) it is an unacknowledged request that is lost |
| `OutboundHighIds` | `StoreMirrorsQueue` | the add and the delete of a message with an id above 32767 use different keys, so the store keeps it; the next connect sends it again |
| `OutboundFull` | `EventuallyDelivered` | the PUBREL must fit beside the PUBLISH it replaces. If it does not it is dropped, the PUBLISH is repeated, and so on for ever, with no fault at all |
| `OutboundRecovery` | `DeliveredIsTrue` | an acknowledged message whose delete failed is recovered again, and the last message of the store no longer fits: recovery ignores the error (`msputils.c:521`), and the library answers DELIVERED for a request the broker has not seen. It stays in the store, for the next restart |
| `InboundSameRcvId` | `ConfirmsWhatWasTaken` | without persistence every `rcvId` is 0, and the first entry of the list is deleted, released or not. If that is a QoS 2 publication its hash entry stays, with a pointer to a freed structure |
| `TaskIpcAnswered` | `Answered` | the send task answers a connect only if it has no application yet (`msputils.c:319`): after a failed initialisation, or with a second handle, the thread waits for ever |
| `TaskIpcListens` | `ListensAgain` | `mspdmn.c:147-149` stores the answer to a hand over, the new socket or none, in a copy of the connection block that is dropped on return: the receive task keeps a closed descriptor until it is told of the next one |
| `TcpReadHead` | `WholeMessages` | a signal that interrupts the read of the fixed header adds -1 to the bytes read so far |
| `TcpReadClose` | `CloseAlwaysNoticed` | a `recv` that returns 0 is taken for an interruption if an earlier call left EINTR in `errno` (`msptcp.c:284`) |
| `TxQueueStatus` | `CallbackOnce` | the callback runs before its entry is removed: a callback that asks for a status is called again |
| `TxQueuePublish` | `LeavesWhenReported` | a callback that publishes makes `txQueueSize` run inside `txQueueSize`; the outer one then removes another entry |

Two more limits of the code are known and have no configuration. Recovery queues requests in the
order the store enumerates them, for `File.pm` that of `readdir`, so `SentOrder` is checked
without persistence only. And the limit of the receive queue is compared with the size of
one publication (`TooBig`), not with what is queued: the code keeps the count and never reads it.
With "delete" in `Faults`, `RestoresLatest` of `FileStore` is violated: a PUBREL whose file could
not be unlinked is read in the place of the next PUBLISH under its key.

### Bounds, and why they are enough

Two to four requests or publications, so that every kind of exchange meets another one:
a QoS 1 and a QoS 2 publication in `outbound_stores`, one of each QoS and a subscription in
`outbound_volatile`, two of QoS 2 and one of QoS 1 in `inbound_stores`. Three cells: in
`outbound_volatile` and `inbound_stores`
memory can run out, in `outbound_stores` it cannot (a request whose recovery finds no memory
is known to be dropped from the queue, and stays in the store). `MaxMsgs` is 15 where no
wrap is wanted and 3 where it is (`ShortMax` = 1: ids 2 and 3 are negative as a short, so
that two QoS 0 requests reach the wrap). A queue of 30 bytes in `outbound_volatile` holds
two requests of 12 and one PUBREL of 6, so that every one of the places that compare with
the limit both passes and fails. `MaxFaults` (0 to 2) bounds lost connections, failed
attempts, refusals and late CONNACKs, in `Inbound` also failed writes to the store and
early repeats; `MaxStops` (0 to 2) bounds crashes and disconnects; a second one, in
`outbound_stores`, shows what recovery from a recovered state does. The disconnect that
answers CONNECTION_BROKEN is not bounded. `MaxChan` bounds messages in flight: three or four
hold a whole retry pass and its answers. In the violated instances faults are off where they are
not needed, so that the counterexample shows the code alone. `inbound_qos1` leaves QoS 2 out
because of `InboundSameRcvId` and `inbound_lost_pubrec`, and `InboundQos2` leaves faults
out because of the latter.

`file_store` has two keys, so that a call can disturb the files of another, and one message
of each kind; it has no bound at all, any number of calls, crashes and restarts is
explored. `task_ipc` has two application threads, which is what it takes for one to read the answer
of the other, two descriptors and two connections, so that a new socket can have the number
of the old one or another, and two publications, because the semaphore is signalled for the
first of them only. `task_live` has one of each but the threads. `tcp_read` has `Base` 2 and remaining lengths
of 0, 1, 2 and 5, that is one, two and three digits, a buffer that some of
the messages exceed, two messages, so that a read that takes too much shows, and two
connections, so that what an unfinished read leaves behind shows. `tx_queue` has one QoS 0 publication
and two others, two ids, so that they come back, one lost connection and
two tries of `disconnect` where the code has ten.

Deadlock is checked in every run. The steps `Quiescent`, `Stopped` and `Rest` mark the states where
everything is done and the application may simply stop calling.

### Fairness

`Outbound` and `Inbound`. Each pass of `mspHandleClientConnection` serves the mailbox, the socket, the reconnect
block and the retry pass in turn, none can starve another, and they are visited as long as
the application keeps calling. So the handlers and the timed work are fair; strongly,
because the retry loop, or an exchange of MQIsdp_receivePub, disables the others for a
while. The broker answers, and repeats what is not answered. Of the application it is
assumed that it connects, disconnects after CONNECTION_BROKEN as the API asks it to,
and keeps receiving with a buffer that is large enough. No fairness is assumed of faults,
crashes, requests or the decline of a publication.

`TaskIpc`. The operating system runs the two tasks (weak fairness), returns from a blocking read
when there is something to read and from a timed wait in the end, and `semop` serves those who
wait for the mutex in turn (strong fairness of `Request` and `HandData`, since others take the mutex
in between). Nothing is assumed of the application, the broker or the network, nor of a
wait for ever at the semaphore.

`TcpRead`. The client reads when `select` says there is something to read. Signals,
the network and the peer are not fair.

`TxQueue`. Perl runs the method it is in, the library's retries end with a connection or
with CONNECTION_BROKEN, and the application keeps calling some method. The broker's acknowledgements
are not fair, and nothing makes a `receivePub` return that waits for a publication.

## The proofs

Each subsection names the theorems, the hypotheses, and the argument. A theorem of the form
`Spec /\ []H => []P` is about the behaviours in which `H` holds in every state; what the code does
without `H` is said beside it, and where a configuration above shows it, that is named.

### `OutboundProofs`

It proves, for any number of requests, ids, cells, faults and restarts:

| Theorem | Property | Hypotheses |
|---|---|---|
| `TypeCorrect` | `TypeOK` | none |
| `HashAgrees` | `HashMatchesList`: list and hash table describe the same queue | none |
| `QueueStaysBounded` | `QueueBounded`: the limit of the queue holds | none |
| `BytesCounted` | `BytesAccounted`: the count of bytes is the sum of what the entries were charged | none |
| `OnlyOnce` | `AtMostOnce`: the broker acts once on a QoS 2 publication | `IdsFit` |
| `NothingLost` | `StoreKeepsUndelivered`: an accepted request is stored until it is acted on | `IdsFit` |
| `LeavesWhenAnswered` | `LeavesOnlyWhenAnswered` | `IdsFit` |
| `OrderKept` | `SentOrder`, without persistence | `IdsFit` |
| `NothingMissing` | `AllQueued`: what is in the store is in the queue | `IdsFit`, `RecoveryFits` |
| `DeliveredTruthfully` | `DeliveredIsTrue`, with persistence | `IdsFit`, `RecoveryFits` |
| `StoreIsQueue` | `StoreMirrorsQueue` | `IdsFit`, `RecoveryFits` |
| `SendingImplementsDelivery` | `ImplementsDelivery`: a refinement of `Delivery` | `IdsFit` |

The first three come from `Invariance`: `IInv`, their conjunction, is inductive. They need each
other. That Enqueue keeps the list free of repetitions needs that the deleted cell is
the one the list holds (`HashMatchesList`), which needs that ids are in range
(`TypeOK`). That the count stays under the limit when an entry is deleted needs that a
hashed pointer is a cell in use, whose charge is a natural number. `TypeOK` itself says that
the retry loop is at an entry of the list, which `Unlink` could break. The proof has a
lemma for each operation on the queue (`EnqueueLemma`, `DequeueLemma`,
`EmptyQueueLemma`, over `UnlinkLemma` and `AppendLemma` on sequences), and a lemma
for each action, which uses the former for the queue and types the rest.

The others come from `ExchangeInvariance`: `EInv` is inductive given `IInv` and `IdsFit`. It says
what is true at any time between the channels, the records the client holds (`Held`: the
store if there is one, otherwise the queue), the ids the broker remembers (`brokerIds`), what it
has done (`got`), and the replies and handles of the application:

* `HeldOK`: one record per id; the record of a request is the one its handle names.
* `GotOK`, `UnreleasedOK`: an id the broker remembers is held by the client, for the publication that was
  acted on or for its PUBREL; while the publication is held the broker remembers its id.
* `KeptOK`: what was accepted and not yet acted on is held. This is `StoreKeepsUndelivered`.
* `RequestOK`: an id in flight stands for one request, the one held under it.
* `CopyOK`: a QoS 2 publication in flight that was acted on, or that follows a copy of itself, has
  the DUP flag, and if it was acted on the broker remembers its id. `AtMostOnce` follows.
* `PubrelOK`: once a PUBREL is sent no PUBLISH with its id follows, because the PUBREL replaces the
  publication in queue and store before it is sent. Otherwise the broker could forget
  the id and act on the publication again.
* `PubrecOK`, `AckOK`: an answer in flight is to something the broker acted on; an acknowledgement to a QoS 2
  publication is to its PUBREL only.
* `ConnectOK`: CONNECT is the first message of a connection, and that of a clean start comes before anything
  was acted on.
* `QueuedOK`, `IdsOK`, `SocketOK`: what is queued is held, no id from `nextMsgId` on is in use anywhere, and
  a closed socket carries nothing.

`OutboundExchange` proves, in lemmas about constants, that no single effect (a message is sent, taken or
lost, a record comes, goes or turns into a PUBREL, a session ends) breaks any part of
this; `OutboundProofs` finds the effects in each action. What a step does to the queue and the store is
one of six things (`QueueStep`: nothing, emptied, recovery begun, or one record loaded, added, or
acknowledged); `QueueStepLemma` says so, and the rest follows from it.

`SendingImplementsDelivery` is shown for each step. That a record leaves the store only when its request was acted on,
which is a `Settle`, is `KeptOK` of the state after the step; that no other request leaves with it is `HeldOK`; that a
new record replaces none is `IdsOK`; that what the broker acts on is owed or settled, and neither refused nor given
up, is `RequestOK`; and that it is its first time, for QoS 2, is `GotOK` afterwards.

`IdsFit` says that ids have not run out: with persistence the next one is at most the largest
short, otherwise below `MaxMsgs`. Beyond that the code reuses an id without looking for
it, and uses two keys for one message (`OutboundWrap`, `OutboundHighIds`). `RecoveryFits` says
that recovery finds room and memory for what is in the store. A message for which it does not is dropped
from the queue while it stays in the store, and the application would be told
that it is delivered, since it is not hashed. `DeliveredTruthfully` is about persistence
only: without it, and without a clean start, the broker may remember an id from an earlier
life of the client; it takes a retried publication under that id for the old one, and acknowledges
it without acting on it. `OrderKept` is about its absence, see above.
In `outbound_stores`, where TLC checked them as invariants, `IdsFit`, `RecoveryFits`, `EInv` and
`AllQueued` hold in every state: the theorems' hypotheses are met by all that run explores.

The assumptions on constants are the named ones of `Outbound`: they have their types, `NULL` is
not a cell, the largest short is at least 1. Nothing is assumed of `MaxOutQ`, of the sizes
of messages or of the behaviour of the store.

### `InboundProofs`

It proves every safety property of `Inbound` that the runs check: `TypeOK`, `ReadyCounted`,
`HashHoldsUnreleased`, `ConfirmsWhatWasTaken`, `StoreMirrorsQueue`, `AtMostOnce`, `AnsweredIsKept` and
`ImplementsDelivery`, and `NotBeforeRelease`, for any number of publications, ids, cells, faults and restarts. Each follows from
`Invariance`: `IInv` is inductive under two hypotheses. `Identified`: there is persistence or no QoS 2;
without it every `rcvId` is 0 and the confirmation may delete another publication (`InboundSameRcvId`).
`NoWrap`: `nextRcvId` has not reached 0xFFFFFFFF.

`IInv` relates in `QueueOK` each linked entry to its record, its `rcvId` and the hash table, and the
counter to the number of released entries; in `LinksOK`, each record to an entry, once recovery is past it;
in `TakenOK`, the publication the application is about to confirm to its entry; in `StoreOK` and
`NetOK`, ids and `rcvId`s to what is given out and a closed socket to empty channels. `ExchangeInv` is the protocol:

* `IdsOK`, `ClientOK`, `BrokerOK`: an id belongs to one publication of the broker, and a message in flight under it
  is about that publication, in the stage it is in.
* `OrderOK`: no PUBLISH follows the PUBREL of its id, and a PUBLISH that follows a copy of itself has the DUP
  flag. The library drops a repeated one only because of that flag.
* `RecordsOK`, `ReleasedOK`: a QoS 2 publication has one record; once it is released the broker does
  not send it again.
* `OnceOK`: what the application has received is not in the store, unless a delete failed. With `ReleasedOK` this
  is `AtMostOnce`.
* `AnsweredOK`: what is answered, or whose answer is under way, is stored or was received.

`ReceivingImplementsDelivery` needs one invariant more, `DroppedOK`: the store has nothing of a QoS 2 publication whose
session was dropped, because a clean start resets the store before the broker drops the session. So what the application
receives, which is released in the store, is in a stage in which it is owed (`ReleasedOK`). What was answered and is not
in the store was received (`AnsweredOK`) and never comes back to it, since no PUBLISH of it is under way (`ReleasedOK`);
and the PUBREC that takes it comes when the store has it. `ImplementsDelivery` implies `NotBeforeRelease`, which the runs
therefore do not check on its own.

### `TcpReadProofs`

It proves, for any base and any lengths the protocol allows, any number of messages and connections,
and a buffer that starts with any size:

* `RoundTrip`: decoding what was encoded gives the length and the number of its digits, and stops at the last of
  them, whatever bytes follow.
* `TypeCorrect`: no byte is written outside the buffer, and what is left to read always fits in it (`TypeOK`).
* `ReadsWholeMessages`: what is delivered is what was sent, whole and in order (`WholeMessages`).

The last two have the hypothesis `"head" \notin Faults`: no signal interrupts the `recv` of a fixed header.
`TcpReadHead` shows what happens otherwise. Interruptions of the second loop, closed and reset
connections and new ones are all allowed.

The invariant `IInv` says that the bytes read of the current message, followed by those on the wire, are
the first bytes of what has not been delivered: all of them, unless the peer has left. In
the first loop (`HeadOK`) no digit read so far is the last one, so that the next byte asked for still
belongs to the header; in the second (`BodyOK`) `msgLen` and `nleft` are those of the first message that was not
delivered. `RoundTrip` carries the step from the one to the other. What a recursive function
computes is proved by induction written with a set in the place of a predicate (`SetInduction`, from the
well-foundedness of the natural numbers), which gives the existence of the function (`Recursion`) and what
its values are.

### `TaskIpcProofs`

It proves, for any number of threads, descriptors, publications and connections: `TypeOK`, `OwnReply`,
`ConfirmedIsQueued` and `NoLostWakeup` with all faults, and `Answered` with none (`Faults = {}`).
The mailboxes carry no addresses, so the inductive invariant says what the mutex means:
the holder, and nobody else, waits (`HolderWaits`); there is at most one message of an application in the send
task's mailbox, it is what the holder asked, and no answer lies beside it (`OneRequest`); what the answer
offers is still queued (`OfferedIsQueued`); and for whatever can be received the semaphore is up, or a
thread has still to ask, or the answer to the one that asked will lead back to it (`Signalled`). For
`Answered`, `AInv` adds that what is waited for is under way (`OnTheWay`) and that the send task serves an application
exactly while there is a handle (`OneHandle`). That is what a failed initialisation or a second handle
breaks (`TaskIpcAnswered`), hence the hypothesis.

### `TxQueueProofs`

It proves, for any number of publications, ids, tries and lost connections: `TypeOK`, `CallbackOnce` and the
action property `LeavesWhenReported` for callbacks that do not call the client (`QuietCallbacks`), and
`SuccessIsTrue` if also a client that connects again without a disconnect has a stored session
(`KeepsItsSession`). `TxQueueStatus`, `TxQueuePublish` and `tx_queue_again` show what happens
otherwise. The invariant says that a publication is in the queue once, that the index of the method that walks
it is at an entry or just past the last, and that the callback of an entry has been called if and only if
the walk is about to remove that entry (`ReportsOK`). `TrueInv` adds that a queued publication is hashed
under its handle until it is acknowledged.

### `FileStoreProofs`

It proves, for any set of keys and messages, whichever write fails and wherever the process stops:

* `TypeCorrect`: what stands under a name that recovery reads was written to its end (`TypeOK`).
* `FilesImplementStore`: `FileStore` implements `AtomicStore` under the mapping above.
* `RestoresLatestHolds`: recovery returns under a key only what was last written (`RestoresLatest`).

Every lemma assumes `FilesObey`: reading a file, and deleting one in `delSentMessage` and
`reset`, do not fail. Without it the refinement is false, see above. The inductive invariant
`IInv` says, besides `TypeOK`: that the call in progress is one of its phase, with the arguments
of its operation (`CallOK`), and at one of its own steps (`StepOK`); what its steps have done to
the files of its key so far (`FilesOK`); that a key the library does not hold has no file
left, but for the one the call is writing (`HeldOK`), without which a new PUBLISH could lie beside
an old PUBREL and lose to it; and that a directory that is being read or emptied
is as gathered, or gone, up to the entries still to be visited (`GatheredOK`, `ResetOK`),
in whatever order they come.
With it the refinement is a lemma for each action: the steps named above map to
`Effect`, a return to the return of the store, and every other step to a stutter
(`NextMaps`). `RestoresLatestHolds` adds `LatestOK`, that the record a key stands for is the
one last written under it, which is inductive given `IInv`.

### Model-checked only

* Liveness (`EventuallyDelivered`, `EventuallyReceived`, `CallsReturn`, `AllRead`, `CloseNoticed`,
  `NoneForgotten`, and that methods return): the prover does not do liveness under fairness.
* Where a theorem has a hypothesis, its run checks the property in every state within the bounds, whether the
  hypothesis holds there or not.

## Not modelled

* Partial writes of `mspTCPWrite`: a write succeeds or closes the socket.
* Topics, UTF strings and the fields of CONNECT: they keep no state. Nor are wildcards matched
  anywhere in the client.
* The collision chains of the hash table, and a failed allocation of a chain entry, which in
  `mspStorePublication` (`mspscada.c:1108`) frees a structure twice and which a model without
  freed memory cannot show.
* The timers: `timeForNextPoll`, `timeForNextConnect` and the retry interval may expire at any moment.
* `lastError`, the reason of a refusal, validation of handles and parameters, logging, DNS, the
  branches for Windows.
* The conversion of arguments in the XS bindings. In `TxQueue`, subscribe and unsubscribe (they do not
  touch `txqueue`) and an id that wraps onto one in use, which is the subject of `OutboundWrap`.
* The examples, the tests and the build.

## Plan

Every module above is done, and every safety property that a passing run checks is proved, liveness aside. What is left:

1. The remaining hazards without a property (`PROJECT.json` says of each why it has none).
2. QoS 1 on the receiving side as an instance of `Delivery`: a publication there may be stored,
   answered and received more than once, so that "owed" would have to count.
