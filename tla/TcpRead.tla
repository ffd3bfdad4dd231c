------------------------------ MODULE TcpRead ------------------------------
(***************************************************************************)
(* How the client takes messages out of the stream of bytes of a TCP       *)
(* connection: mspGetDataFromNetwork (msputils.c) and mspTCPReadMsg        *)
(* (msptcp.c), with the encoding of the remaining length (mspscada.c).     *)
(* The network delivers the bytes in pieces of any size; a signal may      *)
(* interrupt a recv that waits; the peer may close or reset the connection *)
(* at any byte.                                                            *)
(*                                                                         *)
(* A byte is a number below 2 * Base: Base is 128 in the code, and its     *)
(* multiple is the byte's top bit.                                         *)
(***************************************************************************)
EXTENDS Integers, Sequences, FiniteSetsExt

CONSTANTS
    Base,        \* 128: the values of a digit of the remaining length
    Lengths,     \* the remaining lengths of the messages of the instance
    MaxMsgs,     \* bound: messages of the broker
    MaxConns,    \* bound: connections
    Faults,      \* "head", "body": a signal interrupts a recv of the fixed header, of
                 \* the rest; "close", "reset": what the peer does
    IpcBufferSz  \* MSP_DEFAULT_IPC_BUFFER_SZ: the first size of the buffer

\* The largest remaining length: the protocol gives it four digits.
MaxLength == Base * Base * Base * Base - 1

ASSUME ReadAssumption ==
    /\ Base \in Nat \ {0, 1}
    /\ Lengths \subseteq 0..MaxLength
    /\ MaxMsgs \in Nat /\ MaxConns \in Nat \ {0} /\ IpcBufferSz \in Nat
    /\ Faults \subseteq {"head", "body", "close", "reset"}

VARIABLES
    sent,        \* the messages of the broker
    wire,        \* the bytes that have been sent and not read
    peer,        \* "open", "closed", "reset"
    conns,       \* connections made so far
    sockOpen,    \* *pSockfd # MSP_INVALID_SOCKET
    errno,       \* the error of the last system call that failed
    pc,          \* "select", "head" and "body": the two loops of mspTCPReadMsg
    buffer,      \* the contents of *buffer
    bufLen,      \* *bufLen, what the code takes the buffer's size for
    ptr,         \* where the next byte goes
    msgLen,      \* *msgLen
    nleft,       \* bytes of the rest still to read
    received     \* what mspReceiveScadaMessage has been given

netVars == <<sent, wire, peer, conns>>
bufVars == <<buffer, bufLen, ptr, msgLen, nleft>>
vars    == <<netVars, sockOpen, errno, pc, bufVars, received>>

-----------------------------------------------------------------------------
(* The encoding                                                            *)

More(b) == b >= Base

\* What is left to encode after each digit.
Left(l) ==
    LET left[k \in 0..4] == IF k = 0 THEN l ELSE left[k - 1] \div Base
    IN  left

\* mspEncodeFHeaderLength: digits, the lowest first, the top bit on all but the last.
NumDigits(l) == Min({n \in 1..4 : Left(l)[n] = 0})
EncodeLength(l) ==
    [k \in 1..NumDigits(l) |-> (Left(l)[k - 1] % Base) + (IF Left(l)[k] > 0 THEN Base ELSE 0)]

\* The loop of mspDecodeFHeaderLength after n turns, one for each of buf[1] .. buf[n].
Turns(n, buf) ==
    LET turn[k \in 0..n] ==
          IF k = 0 THEN [length |-> 0, multiplier |-> 1]
          ELSE [length     |-> turn[k - 1].length + (buf[k] % Base) * turn[k - 1].multiplier,
                multiplier |-> turn[k - 1].multiplier * Base]
    IN  turn[n]

\* mspDecodeFHeaderLength: the length the digits from buf[1] on stand for and the number
\* of digits, 0 if no last digit is found among the first numBytes + 1.
DecodeLength(numBytes, buf) ==
    LET ends == {k \in 1..(numBytes + 1) : ~More(buf[k])}
    IN  IF ends = {} THEN [digits |-> 0, length |-> 0]
        ELSE [digits |-> Min(ends), length |-> Turns(Min(ends), buf).length]

\* The message type in the fixed header.
Header(type) == IF type = "PUBLISH" THEN 3 ELSE 2
IsPublish(b) == b = Header("PUBLISH")

\* A message as the broker sends it; the rest is bytes of any value.
Bytes(m) == <<Header(m.type)>> \o EncodeLength(m.length)
            \o [i \in 1..m.length |-> (3 * i) % (2 * Base)]
Messages == [type : {"PUBLISH", "OTHER"}, length : Lengths]

\* The bytes of the last n messages.
LastBytes(ms, n) ==
    LET last[k \in 0..Len(ms)] ==
          IF k = 0 THEN <<>> ELSE Bytes(ms[Len(ms) - k + 1]) \o last[k - 1]
    IN  last[n]

\* The cells of the buffer: a fixed header, its digits, the rest, and the byte more.
Cells == 0..(MaxLength + 5)

Init ==
    /\ sent \in UNION {[1..n -> Messages] : n \in 0..MaxMsgs}
    /\ wire = LastBytes(sent, Len(sent)) /\ peer = "open" /\ conns = 1
    /\ sockOpen = TRUE /\ errno = "NONE" /\ pc = "select"
    /\ buffer = [i \in Cells |-> 0] /\ bufLen = IpcBufferSz
    /\ ptr = 0 /\ msgLen = 0 /\ nleft = 0 /\ received = <<>>

-----------------------------------------------------------------------------
(* Reading a message                                                       *)

\* The bytes bs written into the buffer from ptr on.
Filled(bs) == [i \in Cells |-> IF i >= ptr /\ i < ptr + Len(bs) THEN bs[i - ptr + 1] ELSE buffer[i]]

\* select finds the socket readable: data, or the end.
Select ==
    /\ pc = "select" /\ sockOpen
    /\ wire # <<>> \/ peer # "open"
    /\ pc' = "head" /\ ptr' = 0 /\ msgLen' = 0
    /\ UNCHANGED <<netVars, sockOpen, errno, buffer, bufLen, nleft, received>>

\* recv returns some of the bytes asked for.
Recv(n) ==
    /\ n <= Len(wire)
    /\ buffer' = Filled(SubSeq(wire, 1, n))
    /\ wire' = SubSeq(wire, n + 1, Len(wire))

\* mspTCPReadMsg returns -1 and mspGetDataFromNetwork closes the socket.
Fail ==
    /\ pc' = "select" /\ sockOpen' = FALSE
    /\ UNCHANGED <<netVars, buffer, ptr, nleft, received>>

\* mspTCPReadMsg returns 0: len bytes of the buffer go to mspReceiveScadaMessage.
Deliver(len) ==
    /\ pc' = "select"
    /\ received' = Append(received, [i \in 1..len |-> buffer'[i - 1]])

\* Mutant: every message gets the byte.
MessageLengthPadded(b, digits, length) == length + digits + 2

\* A publication gets a byte more, for the persistence to say whether it is released.
MessageLength(b, digits, length) == length + digits + 1 + (IF IsPublish(b) THEN 1 ELSE 0)

\* Mutant: the buffer grows a byte too late.
RoomOneShort(total) == IF total > bufLen + 1 THEN total ELSE bufLen

\* The size of the buffer with a message of total bytes in it; it never shrinks.
Room(total) == IF total > bufLen THEN total ELSE bufLen

\* The header is complete: decode the length, make room, read the rest if there is one.
DecodeHeader(len) ==
    LET d     == DecodeLength(len - 1, buffer')
        total == MessageLength(buffer'[0], d.digits, d.length)
    IN IF d.digits = 0
         THEN /\ msgLen' = 0 /\ pc' = "select" /\ sockOpen' = FALSE
              /\ UNCHANGED <<bufLen, nleft, received>>
         ELSE /\ msgLen' = total /\ nleft' = d.length
              /\ bufLen' = Room(total)
              /\ UNCHANGED sockOpen
              /\ IF d.length = 0 THEN Deliver(total) ELSE pc' = "body" /\ UNCHANGED received

\* What the first loop does with the result of recv, -1 when it was interrupted: it adds
\* it to the length, and goes on from the byte it takes for the last one.
HeadRead(nread) ==
    LET len  == msgLen + nread
        last == ptr + nread - 1
    IN IF len > 1 /\ ~More(buffer'[last])
         THEN ptr' = 1 + DecodeLength(len - 1, buffer').digits /\ DecodeHeader(len)
         ELSE /\ ptr' = IF len > 1 THEN last + 1 ELSE ptr + 1
              /\ msgLen' = len
              /\ UNCHANGED <<pc, sockOpen, bufLen, nleft, received>>

\* Mutant: two bytes are asked for every time.
HeadWantsTwo == 2

\* Two bytes are asked for the first time, then one.
HeadWants == IF ptr = 0 THEN 2 ELSE 1

\* A recv that waits for more of the header may be interrupted by a signal.
RecvHead ==
    /\ pc = "head"
    /\ \/ /\ \E n \in 1..HeadWants : Recv(n) /\ HeadRead(n)
          /\ UNCHANGED errno
       \/ /\ ptr > 0 /\ peer = "open" /\ "head" \in Faults
          /\ errno' = "EINTR" /\ UNCHANGED <<wire, buffer>>
          /\ HeadRead(-1)
    /\ UNCHANGED <<sent, peer, conns>>

\* The second loop.
RecvBody ==
    /\ pc = "body"
    /\ \E n \in 1..nleft :
          /\ Recv(n)
          /\ ptr' = ptr + n /\ nleft' = nleft - n
          /\ IF n = nleft THEN Deliver(msgLen) ELSE UNCHANGED <<pc, received>>
    /\ UNCHANGED <<sent, peer, conns, sockOpen, errno, bufLen, msgLen>>

\* A signal interrupts the recv that waits for more of the rest: it is called again.
InterruptBody ==
    /\ pc = "body" /\ peer = "open" /\ "body" \in Faults
    /\ errno' = "EINTR"
    /\ UNCHANGED <<netVars, sockOpen, pc, bufVars, received>>

\* The peer has closed and recv returns 0.
HeadClosed ==
    /\ pc = "head" /\ wire = <<>> /\ peer = "closed"
    /\ msgLen' = 0
    /\ Fail
    /\ UNCHANGED <<errno, bufLen>>

\* Mutant: the end of the stream is retried like an interruption.
BodyClosedRetried ==
    /\ pc = "body" /\ wire = <<>> /\ peer = "closed"
    /\ UNCHANGED vars

\* The second loop takes a 0 for an error, and errno for its reason: after a call that was
\* interrupted it calls recv again, and again.
BodyClosed ==
    /\ pc = "body" /\ wire = <<>> /\ peer = "closed" /\ errno # "EINTR"
    /\ bufLen' = 0 /\ msgLen' = 0
    /\ Fail
    /\ UNCHANGED errno

\* The peer has reset the connection and recv returns -1.
RecvReset ==
    /\ pc \in {"head", "body"} /\ peer = "reset"
    /\ errno' = "ECONNRESET" /\ msgLen' = 0
    /\ bufLen' = IF pc = "body" THEN 0 ELSE bufLen
    /\ Fail

-----------------------------------------------------------------------------
(* The peer                                                                *)

\* The peer closes, or resets the connection, before it has sent everything.
PeerLeaves ==
    /\ peer = "open" /\ sockOpen /\ Len(received) # Len(sent)
    /\ \/ /\ "close" \in Faults /\ peer' = "closed"
          /\ \E n \in 0..Len(wire) : wire' = SubSeq(wire, 1, n)
       \/ "reset" \in Faults /\ peer' = "reset" /\ wire' = <<>>
    /\ UNCHANGED <<sent, conns, sockOpen, errno, pc, bufVars, received>>

\* A new connection: the broker sends what has not been received.
Reopen ==
    /\ ~sockOpen /\ conns < MaxConns
    /\ sockOpen' = TRUE /\ conns' = conns + 1
    /\ peer' = "open" /\ wire' = LastBytes(sent, Len(sent) - Len(received))
    /\ UNCHANGED <<sent, errno, pc, bufVars, received>>

\* Everything has been read, or there is no connection any more, or recv is called for ever.
Rest ==
    /\ \/ pc = "select" /\ ~(sockOpen /\ (wire # <<>> \/ peer # "open"))
       \/ pc # "select" /\ wire = <<>> /\ peer # "reset"
    /\ UNCHANGED vars

Read == Select \/ RecvHead \/ RecvBody \/ HeadClosed \/ BodyClosed \/ RecvReset
Next == Select \/ RecvHead \/ RecvBody \/ InterruptBody \/ HeadClosed
        \/ BodyClosed \/ RecvReset \/ PeerLeaves \/ Reopen \/ Rest

Spec == Init /\ [][Next]_vars

\* The client reads when there is something to read.
FairSpec == Spec /\ WF_vars(Read)

-----------------------------------------------------------------------------
(* Properties                                                              *)

TypeOK ==
    /\ peer \in {"open", "closed", "reset"} /\ conns \in 0..MaxConns
    /\ sockOpen \in BOOLEAN /\ errno \in {"NONE", "EINTR", "ECONNRESET"}
    /\ pc \in {"select", "head", "body"}
    /\ buffer \in [Cells -> 0..(2 * Base - 1)]
    /\ ptr \in Cells /\ nleft \in Nat /\ msgLen \in Nat /\ bufLen \in Nat
    /\ pc = "body" => msgLen <= bufLen /\ nleft > 0 /\ ptr + nleft <= msgLen

\* Whatever the pieces the network delivers, the interruptions of the second loop and the
\* failures of earlier reads: what the client takes for messages are the messages the
\* broker sent, whole, in order, a publication with its byte more.
WholeMessages ==
    /\ Len(received) <= Len(sent)
    /\ \A i \in 1..Len(received) :
          LET bs == Bytes(sent[i])
          IN /\ Len(received[i]) = Len(bs) + (IF sent[i].type = "PUBLISH" THEN 1 ELSE 0)
             /\ SubSeq(received[i], 1, Len(bs)) = bs

\* Every message is read while the connection lasts: no read waits for bytes that belong
\* to no message, or to the next one.
AllRead == []<>(Len(received) = Len(sent) \/ peer # "open")

\* A peer that leaves is noticed, in the middle of a message too; but not when a call that
\* was interrupted has left its mark in errno.
CloseNoticed == peer # "open" /\ errno # "EINTR" ~> ~sockOpen \/ peer = "open"

\* The same, whatever happened before.
CloseAlwaysNoticed == peer # "open" ~> ~sockOpen \/ peer = "open"
=============================================================================
