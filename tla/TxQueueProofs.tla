--------------------------- MODULE TxQueueProofs ----------------------------
(***************************************************************************)
(* Proofs about the queue of the Perl client for every number of           *)
(* publications, ids, tries and lost connections, with callbacks that do   *)
(* not call the client: with callbacks that do, what is proved is false.   *)
(***************************************************************************)
EXTENDS TxQueue, SequenceTheorems, TLAPS

\* A callback calls no method: one frame is on the stack at most.
QuietCallbacks == Inner = {}

\* A client that connects again without a disconnect reads a stored session.
KeepsItsSession == \A o \in Options : o.again => o.persist

-----------------------------------------------------------------------------
(* The inductive invariant.                                                *)

Frames == [call : {"status", "disconnect", "receivePub", "publish", "connect"},
           msg : Msgs \union {NoMsg}, tries : 0..MaxTries, i : Nat,
           at : {"ask", "ok", "failed", "called"}]
Entries == [hmsg : Ids, msg : Msgs]

LibOK ==
    /\ opts \in Options
    /\ conn \in Statuses \union {"NONE"}
    /\ hash \in [Ids -> Msgs \union {NoMsg}] /\ nextId \in Ids
    /\ published \subseteq Msgs /\ acked \subseteq Msgs

\* The queue holds each publication once, and only those that were accepted.
QueueOK ==
    /\ txqueue \in Seq(Entries)
    /\ \A k \in 1..Len(txqueue) : txqueue[k].msg \in published \ Qos0
    /\ \A j, k \in 1..Len(txqueue) : txqueue[j].msg = txqueue[k].msg => j = k

\* The method that runs, if any: its index is at an entry, or just past the last.
FrameOK(f) ==
    /\ f.i \in 1..(Len(txqueue) + 1)
    /\ f.at # "ask" => f.i <= Len(txqueue)
    /\ f.call = "publish" => f.msg \in Msgs \ published

StackOK == stack = <<>> \/ \E f \in Frames : stack = <<f>> /\ FrameOK(f)

Called(k) == Running /\ Top.at = "called" /\ Top.i = k

\* The callback of an entry has been called when the entry is about to go, and not before.
ReportsOK ==
    /\ reports \in [Msgs -> Seq({"ok", "failed"})]
    /\ \A m \in Msgs : Len(reports[m]) <= 1 /\ (reports[m] # <<>> => m \in published)
    /\ \A k \in 1..Len(txqueue) : reports[txqueue[k].msg] = <<>> <=> ~Called(k)

IInv == LibOK /\ QueueOK /\ StackOK /\ ReportsOK

\* What is in the queue is hashed under its id until it is acknowledged; a client without
\* a session has nothing in the queue while it has no connection.
SessionOK ==
    /\ \A k \in 1..Len(txqueue) :
          hash[txqueue[k].hmsg] = txqueue[k].msg \/ txqueue[k].msg \in acked
    /\ ~opts.persist /\ conn = "NONE" => txqueue = <<>>
    /\ Running /\ Top.at = "ok" => txqueue[Top.i].msg \in acked

TrueInv == SuccessIsTrue /\ SessionOK

-----------------------------------------------------------------------------
(* Lemmas about sequences.                                                 *)

LEMMA RemoveAtFacts ==
    ASSUME NEW S, NEW s \in Seq(S), NEW i \in 1..Len(s)
    PROVE  /\ RemoveAt(s, i) \in Seq(S) /\ Len(RemoveAt(s, i)) = Len(s) - 1
           /\ \A k \in 1..(Len(s) - 1) :
                 RemoveAt(s, i)[k] = IF k < i THEN s[k] ELSE s[k + 1]
<1> DEFINE a == SubSeq(s, 1, i - 1)
           b == SubSeq(s, i + 1, Len(s))
<1>1. a \in Seq(S) /\ Len(a) = i - 1 /\ \A k \in 1..(i - 1) : a[k] = s[k]
  OBVIOUS
<1>2. b \in Seq(S) /\ Len(b) = Len(s) - i /\ \A k \in 1..(Len(s) - i) : b[k] = s[i + k]
  OBVIOUS
<1>3. RemoveAt(s, i) = a \o b
  BY DEF RemoveAt
<1> HIDE DEF a, b
<1>4. /\ a \o b \in Seq(S) /\ Len(a \o b) = Len(a) + Len(b)
      /\ \A k \in 1..(Len(a) + Len(b)) :
            (a \o b)[k] = IF k <= Len(a) THEN a[k] ELSE b[k - Len(a)]
  BY <1>1, <1>2, ConcatProperties
<1>5. ASSUME NEW k \in 1..(Len(s) - 1)
      PROVE  (a \o b)[k] = IF k < i THEN s[k] ELSE s[k + 1]
  <2>1. CASE k < i
    BY <1>1, <1>2, <1>4, <2>1
  <2>2. CASE ~(k < i)
    <3>1. k - (i - 1) \in 1..(Len(s) - i) /\ i + (k - (i - 1)) = k + 1
      BY <2>2
    <3>2. b[k - (i - 1)] = s[k + 1]
      BY <1>2, <3>1
    <3>3. QED
      BY <1>1, <1>2, <1>4, <2>2, <3>2
  <2>3. QED
    BY <2>1, <2>2
<1>6. QED
  BY <1>1, <1>2, <1>3, <1>4, <1>5

LEMMA AppendFacts ==
    ASSUME NEW S, NEW s \in Seq(S), NEW e \in S
    PROVE  /\ Append(s, e) \in Seq(S) /\ Len(Append(s, e)) = Len(s) + 1
           /\ \A k \in 1..Len(s) : Append(s, e)[k] = s[k]
           /\ Append(s, e)[Len(s) + 1] = e
OBVIOUS

\* A stack of one frame, and of none.
LEMMA StackFacts ==
    ASSUME NEW f, stack = <<f>>
    PROVE  /\ Running /\ Top = f /\ Front(stack) = <<>>
           /\ \A k : Called(k) <=> f.at = "called" /\ f.i = k
BY DEF Running, Top, Last, Front, Called

LEMMA NextStackFacts ==
    ASSUME NEW f, stack' = <<f>>
    PROVE  /\ Running' /\ Top' = f
           /\ \A k : Called(k)' <=> f.at = "called" /\ f.i = k
BY DEF Running, Top, Last, Called

LEMMA EmptyFacts ==
    /\ stack = <<>> => ~Running /\ \A k : ~Called(k)
    /\ stack' = <<>> => ~Running' /\ \A k : ~Called(k)'
BY DEF Running, Called

\* An entry of the queue.
LEMMA EntryFacts ==
    ASSUME QueueOK, NEW k \in 1..Len(txqueue)
    PROVE  /\ txqueue[k] \in Entries /\ txqueue[k].hmsg \in Ids
           /\ txqueue[k].msg \in Msgs /\ txqueue[k].msg \in published \ Qos0
<1>1. txqueue[k] \in Entries
  BY DEF QueueOK
<1>2. QED
  BY <1>1 DEF QueueOK, Entries

-----------------------------------------------------------------------------
(* The library.                                                            *)

\* What the library does by itself touches neither the queue nor the stack.
LEMMA StillLemma ==
    ASSUME IInv, LibOK', UNCHANGED <<txqueue, stack, published, reports>>
    PROVE  IInv'
BY DEF IInv, QueueOK, StackOK, FrameOK, ReportsOK, Called, Running, Top

LEMMA LibraryHolds ==
    ASSUME IInv, Acknowledged \/ LinkBreaks \/ LinkSettles \/ LateConnack
    PROVE  IInv'
<1>1. UNCHANGED <<opts, nextId, txqueue, stack, published, reports>>
  BY DEF Acknowledged, LinkBreaks, LinkSettles, LateConnack
<1>2. LibOK'
  <2>1. CASE Acknowledged
    BY <2>1 DEF IInv, LibOK, Acknowledged
  <2>2. CASE LinkBreaks \/ LinkSettles \/ LateConnack
    BY <1>1, <2>2 DEF IInv, LibOK, LinkBreaks, LinkSettles, LateConnack, Statuses
  <2>3. QED
    BY <2>1, <2>2
<1>3. QED
  BY <1>1, <1>2, StillLemma

-----------------------------------------------------------------------------
(* txQueueSize.                                                            *)

\* A method that goes on at an index, and has called no callback of an entry there.
LEMMA GoesOnLemma ==
    ASSUME IInv, UNCHANGED <<opts, libVars, txqueue, published, reports>>,
           NEW f \in Frames, stack = <<f>>, f.at # "called",
           NEW g \in Frames, stack' = <<g>>, FrameOK(g), g.at # "called"
    PROVE  IInv'
<1>1. LibOK' /\ QueueOK'
  BY DEF IInv, LibOK, QueueOK, libVars
<1>2. StackOK'
  BY DEF StackOK, FrameOK
<1>3. ReportsOK'
  <2>1. \A k : ~Called(k) /\ ~Called(k)'
    BY StackFacts, NextStackFacts
  <2>2. QED
    BY <2>1 DEF IInv, ReportsOK
<1>4. QED
  BY <1>1, <1>2, <1>3 DEF IInv

LEMMA AskHolds == IInv /\ Ask => IInv'
<1>1. SUFFICES ASSUME IInv, Ask PROVE IInv'
  OBVIOUS
<1>2. PICK f \in Frames : stack = <<f>> /\ FrameOK(f)
  BY <1>1 DEF IInv, StackOK, Ask, Running
<1>3. /\ Top = f /\ Front(stack) = <<>> /\ f.at = "ask" /\ f.i <= Len(txqueue)
      /\ UNCHANGED <<opts, libVars, txqueue, published, reports>>
  BY <1>1, <1>2, StackFacts DEF Ask
<1>4. PICK s : IF Verdict(s) = "transit" THEN Step([f EXCEPT !.i = @ + 1])
               ELSE Step([f EXCEPT !.at = Verdict(s)])
  BY <1>1, <1>3 DEF Ask
<1>5. CASE Verdict(s) = "transit"
  <2> DEFINE g == [f EXCEPT !.i = @ + 1]
  <2>1. g \in Frames /\ FrameOK(g) /\ g.at # "called"
    BY <1>2, <1>3 DEF Frames, FrameOK, IInv, QueueOK
  <2>2. stack' = <<g>>
    BY <1>3, <1>4, <1>5 DEF Step
  <2> HIDE DEF g
  <2>3. QED
    BY <1>1, <1>2, <1>3, <2>1, <2>2, GoesOnLemma
<1>6. CASE Verdict(s) # "transit"
  <2> DEFINE g == [f EXCEPT !.at = Verdict(s)]
  <2>1. Verdict(s) \in {"ok", "failed"}
    BY <1>6 DEF Verdict
  <2>2. g \in Frames /\ FrameOK(g) /\ g.at # "called"
    BY <1>2, <1>3, <2>1 DEF Frames, FrameOK
  <2>3. stack' = <<g>>
    BY <1>3, <1>4, <1>6 DEF Step
  <2> HIDE DEF g
  <2>4. QED
    BY <1>1, <1>2, <1>3, <2>2, <2>3, GoesOnLemma
<1>7. QED
  BY <1>5, <1>6

\* The callback: the entry it is about has not been reported before.
LEMMA CallbackHolds == QuietCallbacks /\ IInv /\ Callback => IInv'
<1>1. SUFFICES ASSUME QuietCallbacks, IInv, Callback PROVE IInv'
  OBVIOUS
<1>2. PICK f \in Frames : stack = <<f>> /\ FrameOK(f)
  BY <1>1 DEF IInv, StackOK, Callback, Running
<1>3. /\ Top = f /\ Front(stack) = <<>> /\ f.at \in {"ok", "failed"} /\ f.i <= Len(txqueue)
      /\ reports' = [reports EXCEPT ![txqueue[f.i].msg] = Append(@, f.at)]
      /\ UNCHANGED <<opts, libVars, txqueue, published>>
  BY <1>1, <1>2, StackFacts DEF Callback
<1> DEFINE g == [f EXCEPT !.at = "called"]
           e == txqueue[f.i].msg
<1>4. stack' = <<g>>
  <2>1. Calls = {}
    BY <1>1 DEF QuietCallbacks, Calls
  <2>2. stack' = Append(<<>>, g) \o <<>>
    BY <1>1, <1>3, <2>1 DEF Callback
  <2>3. QED
    BY <2>2
<1>5. g \in Frames /\ FrameOK(g) /\ g.at = "called" /\ g.i = f.i
  BY <1>2, <1>3 DEF Frames, FrameOK
<1>6. LibOK' /\ QueueOK' /\ StackOK'
  BY <1>1, <1>3, <1>4, <1>5 DEF IInv, LibOK, QueueOK, StackOK, FrameOK, libVars
<1>7. f.i \in 1..Len(txqueue) /\ e \in Msgs /\ e \in published
  <2>1. f.i \in 1..Len(txqueue)
    BY <1>1, <1>2, <1>3 DEF IInv, FrameOK, QueueOK
  <2>2. QED
    BY <1>1, <2>1, EntryFacts DEF IInv
<1>8. reports[e] = <<>>
  <2>1. ~Called(f.i)
    BY <1>2, <1>3, StackFacts
  <2>2. QED
    BY <1>1, <1>7, <2>1 DEF IInv, ReportsOK
<1>9. ReportsOK'
  <2>1. /\ reports'[e] = <<f.at>>
        /\ \A m \in Msgs : m # e => reports'[m] = reports[m]
        /\ reports' \in [Msgs -> Seq({"ok", "failed"})]
    BY <1>1, <1>3, <1>7, <1>8 DEF IInv, ReportsOK
  <2>2. \A k : Called(k)' <=> k = f.i
    BY <1>4, <1>5, NextStackFacts
  <2>3. \A k \in 1..Len(txqueue) : txqueue[k].msg = e <=> k = f.i
    BY <1>1, <1>7 DEF IInv, QueueOK
  <2>4. \A k \in 1..Len(txqueue) : k # f.i => ~Called(k)
    BY <1>2, StackFacts
  <2>5. \A k \in 1..Len(txqueue) : txqueue[k].msg \in Msgs
    BY <1>1, EntryFacts DEF IInv
  <2>6. ASSUME NEW k \in 1..Len(txqueue)
        PROVE  reports'[txqueue[k].msg] = <<>> <=> ~Called(k)'
    <3>1. CASE k = f.i
      <4>1. reports'[txqueue[k].msg] = <<f.at>> /\ Called(k)'
        BY <2>1, <2>2, <3>1
      <4>2. QED
        BY <4>1
    <3>2. CASE k # f.i
      BY <1>1, <2>1, <2>2, <2>3, <2>4, <2>5, <3>2 DEF IInv, ReportsOK
    <3>3. QED
      BY <3>1, <3>2
  <2>7. ASSUME NEW m \in Msgs
        PROVE  Len(reports'[m]) <= 1 /\ (reports'[m] # <<>> => m \in published)
    <3>1. CASE m = e
      <4>1. reports'[m] = <<f.at>> /\ m \in published
        BY <1>7, <2>1, <3>1
      <4>2. QED
        BY <4>1
    <3>2. CASE m # e
      BY <1>1, <2>1, <3>2 DEF IInv, ReportsOK
    <3>3. QED
      BY <3>1, <3>2
  <2>8. QED
    BY <1>3, <2>1, <2>6, <2>7 DEF ReportsOK
<1>10. QED
  BY <1>6, <1>9 DEF IInv


\* The entry that goes is the one whose callback has been called.
LEMMA SpliceHolds == IInv /\ Splice => IInv'
<1>1. SUFFICES ASSUME IInv, Splice PROVE IInv'
  OBVIOUS
<1>2. PICK f \in Frames : stack = <<f>> /\ FrameOK(f)
  BY <1>1 DEF IInv, StackOK, Splice, Running
<1> DEFINE g == [f EXCEPT !.at = "ask", !.i = f.i]
<1>3. /\ f.at = "called" /\ f.i \in 1..Len(txqueue)
      /\ txqueue \in Seq(Entries) /\ txqueue' = RemoveAt(txqueue, f.i)
      /\ stack' = <<g>>
      /\ UNCHANGED <<opts, libVars, published, reports>>
  <2>1. f.at = "called" /\ Top = f /\ Front(stack) = <<>>
    BY <1>1, <1>2, StackFacts DEF Splice
  <2>2. f.i \in 1..Len(txqueue) /\ txqueue \in Seq(Entries)
    BY <1>1, <1>2, <2>1 DEF IInv, FrameOK, QueueOK
  <2>3. stack' = <<g>>
    BY <1>1, <2>1 DEF Splice, Step, AfterSplice
  <2>4. QED
    BY <1>1, <2>1, <2>2, <2>3 DEF Splice, Spliced
<1>4. /\ txqueue' \in Seq(Entries) /\ Len(txqueue') = Len(txqueue) - 1
      /\ \A k \in 1..Len(txqueue') :
            txqueue'[k] = IF k < f.i THEN txqueue[k] ELSE txqueue[k + 1]
  BY <1>3, RemoveAtFacts
<1> DEFINE was(k) == IF k < f.i THEN k ELSE k + 1
<1>5. /\ \A k \in 1..Len(txqueue') :
            was(k) \in 1..Len(txqueue) /\ was(k) # f.i /\ txqueue'[k] = txqueue[was(k)]
      /\ \A j, k \in 1..Len(txqueue') : was(j) = was(k) => j = k
  BY <1>3, <1>4
<1> HIDE DEF was
<1>6. QueueOK'
  <2>1. \A k \in 1..Len(txqueue') : txqueue'[k].msg \in published \ Qos0
    BY <1>1, <1>5 DEF IInv, QueueOK
  <2>2. ASSUME NEW j \in 1..Len(txqueue'), NEW k \in 1..Len(txqueue'),
               txqueue'[j].msg = txqueue'[k].msg
        PROVE  j = k
    <3>1. was(j) = was(k)
      BY <1>1, <1>5, <2>2 DEF IInv, QueueOK
    <3>2. QED
      BY <1>5, <3>1
  <2>3. QED
    BY <1>3, <1>4, <2>1, <2>2 DEF QueueOK
<1>7. g \in Frames /\ g.at = "ask" /\ g.i = f.i /\ g.call = f.call /\ g.msg = f.msg
  BY DEF Frames
<1> HIDE DEF g
<1>8. FrameOK(g)'
  BY <1>2, <1>3, <1>4, <1>7 DEF FrameOK
<1>9. LibOK' /\ StackOK'
  BY <1>1, <1>3, <1>7, <1>8 DEF IInv, LibOK, libVars, StackOK
<1>10. ReportsOK'
  <2>1. \A k : ~Called(k)'
    BY <1>3, <1>7, NextStackFacts
  <2>2. \A k \in 1..Len(txqueue) : k # f.i => reports[txqueue[k].msg] = <<>>
    BY <1>1, <1>2, <1>3, StackFacts DEF IInv, ReportsOK
  <2>3. \A k \in 1..Len(txqueue') : reports[txqueue'[k].msg] = <<>>
    BY <1>5, <2>2
  <2>4. QED
    BY <1>1, <1>3, <2>1, <2>3 DEF IInv, ReportsOK
<1>11. QED
  BY <1>6, <1>9, <1>10 DEF IInv

-----------------------------------------------------------------------------
(* The methods.                                                            *)

\* A method that returns.
LEMMA ReturnLemma ==
    ASSUME IInv, NEW f \in Frames, stack = <<f>>, f.at = "ask", stack' = <<>>,
           UNCHANGED <<opts, libVars, txqueue, published, reports>>
    PROVE  IInv'
<1>1. \A k : ~Called(k) /\ ~Called(k)'
  BY StackFacts, EmptyFacts
<1>2. LibOK' /\ QueueOK' /\ StackOK'
  BY DEF IInv, LibOK, QueueOK, StackOK, libVars
<1>3. ReportsOK'
  BY <1>1 DEF IInv, ReportsOK
<1>4. QED
  BY <1>2, <1>3 DEF IInv

\* A method that is called, and the state it has changed before txQueueSize begins.
LEMMA CallLemma ==
    ASSUME IInv, stack = <<>>, LibOK', UNCHANGED <<txqueue, published, reports>>,
           NEW call \in {"status", "disconnect", "receivePub", "publish", "connect"},
           NEW m \in Msgs \union {NoMsg}, call = "publish" => m \in Msgs \ published,
           stack' \in {<<>>, <<Frame(call, m)>>}
    PROVE  IInv'
<1> DEFINE g == Frame(call, m)
<1>1. \A k : ~Called(k)
  BY EmptyFacts
<1>2. CASE stack' = <<g>>
  <2>1. /\ g \in Frames /\ g.i = 1 /\ g.at = "ask" /\ g.call = call /\ g.msg = m
    BY ClientAssumption DEF Frame, Frames
  <2> HIDE DEF g
  <2>2. FrameOK(g)' /\ \A k : ~Called(k)'
    BY <1>2, <2>1, NextStackFacts DEF FrameOK, IInv, QueueOK
  <2>3. StackOK' /\ QueueOK' /\ ReportsOK'
    BY <1>1, <1>2, <2>1, <2>2 DEF StackOK, IInv, QueueOK, ReportsOK
  <2>4. QED
    BY <2>3 DEF IInv
<1>3. CASE stack' = <<>>
  <2>1. \A k : ~Called(k)'
    BY <1>3, EmptyFacts
  <2>2. StackOK' /\ QueueOK' /\ ReportsOK'
    BY <1>1, <1>3, <2>1 DEF StackOK, IInv, QueueOK, ReportsOK
  <2>3. QED
    BY <2>2 DEF IInv
<1>4. QED
  BY <1>2, <1>3

\* The id after any id, and the first one, is an id.
LEMMA NextIdFacts ==
    ASSUME NEW id \in {0} \union Ids
    PROVE  SetNextMsgId(id) \in Ids
BY ClientAssumption DEF SetNextMsgId, Ids

LEMMA CallHolds == IInv /\ (Call \/ CallPublish \/ Connect) => IInv'
<1>1. CASE IInv /\ Call
  <2>1. PICK call \in {"status", "disconnect", "receivePub"} : stack' = <<Frame(call, NoMsg)>>
    BY <1>1 DEF Call
  <2>2. LibOK'
    BY <1>1 DEF IInv, LibOK, libVars, Call
  <2>3. QED
    BY <1>1, <2>1, <2>2, CallLemma DEF Call
<1>2. CASE IInv /\ CallPublish
  <2>1. PICK m \in Msgs \ published : stack' = <<Frame("publish", m)>>
    BY <1>2 DEF CallPublish
  <2>2. LibOK'
    BY <1>2 DEF IInv, LibOK, libVars, CallPublish
  <2>3. QED
    BY <1>2, <2>1, <2>2, CallLemma DEF CallPublish
<1>3. CASE IInv /\ Connect
  <2>1. LibOK'
    <3>1. nextId' \in Ids
      BY <1>3, NextIdFacts DEF IInv, LibOK, Connect, Opened, NotOpened, IdsRestart
    <3>2. QED
      BY <1>3, <3>1 DEF IInv, LibOK, Connect, Opened, NotOpened, Statuses
  <2>2. /\ stack = <<>> /\ UNCHANGED <<txqueue, published, reports>>
        /\ stack' \in {<<>>, <<Frame("connect", NoMsg)>>}
    BY <1>3 DEF Connect
  <2>3. QED
    BY <1>3, <2>1, <2>2, CallLemma
<1>4. QED
  BY <1>1, <1>2, <1>3

\* Where a method goes on after txQueueSize.
LEMMA AskedFacts ==
    ASSUME IInv, NEW call, Asked(call)
    PROVE  \E f \in Frames :
              /\ stack = <<f>> /\ FrameOK(f) /\ f.call = call /\ f.at = "ask"
              /\ Top = f /\ Front(stack) = <<>>
<1>1. PICK f \in Frames : stack = <<f>> /\ FrameOK(f)
  BY DEF IInv, StackOK, Asked, Running
<1>2. QED
  BY <1>1, StackFacts DEF Asked

\* The frame of a method that asks again.
LEMMA AgainFacts ==
    ASSUME NEW f \in Frames
    PROVE  /\ Again(f) \in Frames /\ Again(f).i = 1
           /\ Again(f).at = f.at /\ Again(f).call = f.call
           /\ [Again(f) EXCEPT !.call = "disconnect"] \in Frames
           /\ TriesLeft(f) =>
                 /\ NextTry(f) \in Frames /\ NextTry(f).i = 1
                 /\ NextTry(f).at = f.at /\ NextTry(f).call = f.call
<1>1. /\ Again(f) \in Frames /\ Again(f).i = 1
      /\ Again(f).at = f.at /\ Again(f).call = f.call /\ Again(f).tries = f.tries
  BY DEF Again, Frames
<1>2. [Again(f) EXCEPT !.call = "disconnect"] \in Frames
  BY <1>1 DEF Frames
<1>3. ASSUME TriesLeft(f)
      PROVE  /\ NextTry(f) \in Frames /\ NextTry(f).i = 1
             /\ NextTry(f).at = f.at /\ NextTry(f).call = f.call
  <2>1. f.tries + 1 \in 0..MaxTries
    BY <1>3, ClientAssumption DEF TriesLeft, Frames
  <2>2. NextTry(f) = [Again(f) EXCEPT !.tries = f.tries + 1]
    BY <1>1 DEF NextTry
  <2>3. QED
    BY <1>1, <2>1, <2>2 DEF Frames
<1>4. QED
  BY <1>1, <1>2, <1>3

LEMMA ReturnsHold == IInv /\ (StatusReturns \/ ReceivePubReturns) => IInv'
<1>1. SUFFICES ASSUME IInv, StatusReturns \/ ReceivePubReturns PROVE IInv'
  OBVIOUS
<1>2. PICK call : /\ Asked(call) /\ Return
                  /\ UNCHANGED <<opts, libVars, txqueue, published, reports>>
  BY <1>1 DEF StatusReturns, ReceivePubReturns
<1>3. PICK f \in Frames : stack = <<f>> /\ f.at = "ask" /\ Front(stack) = <<>>
  BY <1>1, <1>2, AskedFacts
<1>4. QED
  BY <1>1, <1>2, <1>3, ReturnLemma DEF Return

LEMMA ConnectPollsHolds == IInv /\ ConnectPolls => IInv'
<1>1. SUFFICES ASSUME IInv, ConnectPolls PROVE IInv'
  OBVIOUS
<1>2. PICK f \in Frames : /\ stack = <<f>> /\ FrameOK(f) /\ f.call = "connect" /\ f.at = "ask"
                          /\ Top = f /\ Front(stack) = <<>>
  BY <1>1, AskedFacts DEF ConnectPolls
<1>3. UNCHANGED <<opts, libVars, txqueue, published, reports>>
  BY <1>1 DEF ConnectPolls
<1>4. CASE Return
  BY <1>1, <1>2, <1>3, <1>4, ReturnLemma DEF Return
<1>5. ASSUME NEW g \in {Again(f), [Again(f) EXCEPT !.call = "disconnect"]}, Step(g)
      PROVE  IInv'
  <2>1. g \in Frames /\ FrameOK(g) /\ g.at # "called"
    <3>1. g \in Frames /\ g.i = 1 /\ g.at = "ask" /\ g.call # "publish"
      <4>1. CASE g = Again(f)
        BY <1>2, <4>1, AgainFacts
      <4>2. CASE g = [Again(f) EXCEPT !.call = "disconnect"]
        <5>1. g \in Frames /\ g.i = Again(f).i /\ g.at = Again(f).at /\ g.call = "disconnect"
          BY <4>2, AgainFacts DEF Frames
        <5>2. QED
          BY <1>2, <5>1, AgainFacts
      <4>3. QED
        BY <1>5, <4>1, <4>2
    <3>2. QED
      BY <1>1, <3>1 DEF FrameOK, IInv, QueueOK
  <2>2. stack' = <<g>>
    BY <1>2, <1>5 DEF Step
  <2>3. QED
    BY <1>1, <1>2, <1>3, <2>1, <2>2, GoesOnLemma
<1>6. Return \/ Step(Again(f)) \/ Step([Again(f) EXCEPT !.call = "disconnect"])
  BY <1>1, <1>2 DEF ConnectPolls
<1>7. QED
  BY <1>4, <1>5, <1>6

LEMMA DisconnectWaitsHolds == IInv /\ DisconnectWaits => IInv'
<1>1. SUFFICES ASSUME IInv, DisconnectWaits PROVE IInv'
  OBVIOUS
<1>2. PICK f \in Frames : /\ stack = <<f>> /\ FrameOK(f) /\ f.call = "disconnect" /\ f.at = "ask"
                          /\ Top = f /\ Front(stack) = <<>>
  BY <1>1, AskedFacts DEF DisconnectWaits
<1> DEFINE g == NextTry(f)
<1>3. /\ TriesLeft(f) /\ stack' = <<g>>
      /\ UNCHANGED <<opts, libVars, txqueue, published, reports>>
  BY <1>1, <1>2 DEF DisconnectWaits, Step
<1>4. g \in Frames /\ FrameOK(g) /\ g.at # "called"
  <2>1. g \in Frames /\ g.i = 1 /\ g.at = "ask" /\ g.call = "disconnect"
    BY <1>2, <1>3, AgainFacts
  <2> HIDE DEF g
  <2>2. QED
    BY <1>1, <2>1 DEF FrameOK, IInv, QueueOK
<1> HIDE DEF g
<1>5. QED
  BY <1>1, <1>2, <1>3, <1>4, GoesOnLemma

LEMMA DisconnectHolds == IInv /\ Disconnect => IInv'
<1>1. SUFFICES ASSUME IInv, Disconnect PROVE IInv'
  OBVIOUS
<1>2. /\ txqueue' = <<>> /\ stack' = <<>> /\ conn' = "NONE"
      /\ UNCHANGED <<opts, hash, nextId, breaks, published, acked, reports>>
  BY <1>1, AskedFacts DEF Disconnect, Return
<1>3. LibOK'
  BY <1>1, <1>2 DEF IInv, LibOK
<1>4. QueueOK' /\ StackOK'
  BY <1>2 DEF QueueOK, StackOK
<1>5. ReportsOK'
  BY <1>1, <1>2 DEF IInv, ReportsOK
<1>6. QED
  BY <1>3, <1>4, <1>5 DEF IInv


LEMMA PublishHolds == IInv /\ Publish => IInv'
<1>1. SUFFICES ASSUME IInv, Publish PROVE IInv'
  OBVIOUS
<1>2. PICK f \in Frames : /\ stack = <<f>> /\ FrameOK(f) /\ f.call = "publish" /\ f.at = "ask"
                          /\ Top = f /\ Front(stack) = <<>>
  BY <1>1, AskedFacts DEF Publish
<1>3. /\ f.msg \in Msgs \ published /\ published' = published \union {f.msg}
      /\ stack' = <<>> /\ UNCHANGED <<opts, conn, breaks, acked, reports>>
  BY <1>1, <1>2 DEF Publish, Return, FrameOK
<1>4. \A k : ~Called(k) /\ ~Called(k)'
  BY <1>2, <1>3, StackFacts, EmptyFacts
<1>5. LibOK'
  <2>1. nextId' \in Ids
    <3>1. SetNextMsgId(nextId) \in Ids
      BY <1>1, NextIdFacts DEF IInv, LibOK
    <3>2. QED
      BY <1>1, <3>1 DEF Publish, IInv, LibOK
  <2>2. hash' \in [Ids -> Msgs \union {NoMsg}]
    BY <1>1, <1>2, <1>3 DEF Publish, IInv, LibOK
  <2>3. QED
    BY <1>1, <1>3, <2>1, <2>2 DEF IInv, LibOK
<1>6. reports[f.msg] = <<>>
  BY <1>1, <1>3 DEF IInv, ReportsOK
<1>7. \A m \in Msgs : Len(reports'[m]) <= 1 /\ (reports'[m] # <<>> => m \in published')
  BY <1>1, <1>3 DEF IInv, ReportsOK
<1>8. CASE UNCHANGED txqueue
  <2>1. QueueOK' /\ StackOK'
    BY <1>1, <1>3, <1>8 DEF IInv, QueueOK, StackOK
  <2>2. ReportsOK'
    BY <1>1, <1>3, <1>4, <1>7, <1>8 DEF IInv, ReportsOK
  <2>3. QED
    BY <1>5, <2>1, <2>2 DEF IInv
<1>9. CASE Tracked(f.msg) /\ txqueue' = Append(txqueue, [hmsg |-> nextId, msg |-> f.msg])
  <2> DEFINE e == [hmsg |-> nextId, msg |-> f.msg]
             n == Len(txqueue) + 1
  <2>1. e \in Entries /\ e.msg = f.msg
    BY <1>1, <1>3 DEF Entries, IInv, LibOK
  <2> HIDE DEF e
  <2>2. /\ txqueue' \in Seq(Entries) /\ Len(txqueue') = n
        /\ \A k \in 1..Len(txqueue) : txqueue'[k] = txqueue[k]
        /\ txqueue'[n] = e
        /\ Len(txqueue) \in Nat
    BY <1>1, <1>9, <2>1, AppendFacts DEF IInv, QueueOK, e
  <2>3. \A k \in 1..Len(txqueue) : txqueue[k].msg # f.msg
    BY <1>1, <1>3, EntryFacts DEF IInv
  <2>4. \A k \in 1..n : k = n \/ k \in 1..Len(txqueue)
    BY <2>2
  <2> HIDE DEF n
  <2>5. \A k \in 1..n : txqueue'[k].msg \in published' \ Qos0
    BY <1>1, <1>3, <1>9, <2>1, <2>2, <2>4 DEF IInv, QueueOK, Tracked
  <2>6. \A j, k \in 1..n : txqueue'[j].msg = txqueue'[k].msg => j = k
    BY <1>1, <2>1, <2>2, <2>3, <2>4 DEF IInv, QueueOK
  <2>7. QueueOK' /\ StackOK'
    BY <1>3, <2>2, <2>5, <2>6 DEF QueueOK, StackOK
  <2>8. \A k \in 1..n : reports[txqueue'[k].msg] = <<>>
    BY <1>1, <1>4, <1>6, <2>1, <2>2, <2>4 DEF IInv, ReportsOK
  <2>9. ReportsOK'
    BY <1>1, <1>3, <1>4, <1>7, <2>2, <2>8 DEF IInv, ReportsOK
  <2>10. QED
    BY <1>5, <2>7, <2>9 DEF IInv
<1>10. QED
  BY <1>1, <1>2, <1>8, <1>9 DEF Publish

-----------------------------------------------------------------------------
(* The theorems.                                                           *)

LEMMA InitHolds == Init => IInv /\ SuccessIsTrue
<1>1. SUFFICES ASSUME Init PROVE IInv /\ SuccessIsTrue
  OBVIOUS
<1>2. LibOK
  <2>1. 1 \in Ids
    BY ClientAssumption DEF Ids
  <2>2. QED
    BY <1>1, <2>1 DEF Init, LibOK
<1>3. QueueOK /\ StackOK
  BY <1>1 DEF Init, QueueOK, StackOK
<1>4. \A m \in Msgs : reports[m] = <<>>
  BY <1>1 DEF Init
<1>5. ReportsOK
  BY <1>1, <1>4 DEF Init, ReportsOK
<1>6. SuccessIsTrue
  BY <1>4 DEF SuccessIsTrue, ToSet
<1>7. QED
  BY <1>2, <1>3, <1>5, <1>6 DEF IInv

LEMMA NextHolds == QuietCallbacks /\ IInv /\ [Next]_vars => IInv'
<1>1. SUFFICES ASSUME QuietCallbacks, IInv, [Next]_vars PROVE IInv'
  OBVIOUS
<1>2. CASE Next
  BY <1>1, <1>2, LibraryHolds, AskHolds, CallbackHolds, SpliceHolds, CallHolds, ConnectPollsHolds,
     ReturnsHold, PublishHolds, DisconnectWaitsHolds, DisconnectHolds DEF Next
<1>3. CASE UNCHANGED vars
  <2>1. LibOK'
    BY <1>1, <1>3 DEF IInv, LibOK, vars, libVars
  <2>2. QED
    BY <1>1, <1>3, <2>1, StillLemma DEF vars, libVars
<1>4. QED
  BY <1>1, <1>2, <1>3

\* The inductive invariant of the queue and of the method that walks it.
THEOREM Invariance == QuietCallbacks /\ Spec => []IInv
<1>1. CASE QuietCallbacks
  <2>1. Init => IInv
    BY InitHolds
  <2>2. IInv /\ [Next]_vars => IInv'
    BY <1>1, NextHolds
  <2>3. Spec => []IInv
    BY <2>1, <2>2, PTL DEF Spec
  <2>4. QED
    BY <2>3
<1>2. QED
  BY <1>1

\* Type correctness: the index of txQueueSize never runs past the queue, and the queue holds
\* each publication once and none that is not to be acknowledged.
THEOREM TypeCorrect == QuietCallbacks /\ Spec => []TypeOK
<1>1. IInv => TypeOK
  <2>1. SUFFICES ASSUME IInv PROVE TypeOK
    OBVIOUS
  <2>2. Running => Top.i \in 1..(Len(txqueue) + 1) /\ Top.tries \in 0..MaxTries
    <3>1. SUFFICES ASSUME Running PROVE Top.i \in 1..(Len(txqueue) + 1) /\ Top.tries \in 0..MaxTries
      OBVIOUS
    <3>2. PICK f \in Frames : stack = <<f>> /\ FrameOK(f)
      BY <2>1, <3>1 DEF IInv, StackOK, Running
    <3>3. QED
      BY <3>2, StackFacts DEF Frames, FrameOK
  <2>3. QED
    BY <2>1, <2>2, EntryFacts DEF TypeOK, IInv, LibOK, QueueOK
<1>2. QED
  BY <1>1, Invariance, PTL

\* The callback of a publication is called at most once, whatever the answers of the library
\* while the queue is walked.
THEOREM CallbackOnceHolds == QuietCallbacks /\ Spec => []CallbackOnce
<1>1. IInv => CallbackOnce
  BY DEF IInv, ReportsOK, CallbackOnce
<1>2. QED
  BY <1>1, Invariance, PTL


-----------------------------------------------------------------------------
(* A success is told only of what was acknowledged.                        *)

\* Nothing that the session knows is touched.
LEMMA SessionStill ==
    ASSUME SessionOK, UNCHANGED <<opts, txqueue, hash, acked, conn>>,
           Running' /\ Top'.at = "ok" => txqueue[Top'.i].msg \in acked
    PROVE  SessionOK'
BY DEF SessionOK

LEMMA SuccessStill ==
    ASSUME SuccessIsTrue, UNCHANGED reports, acked \subseteq acked'
    PROVE  SuccessIsTrue'
BY DEF SuccessIsTrue

LEMMA LibraryTrue ==
    ASSUME IInv, TrueInv, Acknowledged \/ LinkBreaks \/ LinkSettles \/ LateConnack
    PROVE  TrueInv'
<1>1. UNCHANGED <<opts, nextId, txqueue, stack, published, reports>>
  BY DEF Acknowledged, LinkBreaks, LinkSettles, LateConnack
<1>2. acked \subseteq acked'
  BY DEF Acknowledged, LinkBreaks, LinkSettles, LateConnack
<1>3. SuccessIsTrue'
  BY <1>1, <1>2, SuccessStill DEF TrueInv
<1>4. conn # "NONE"
  BY DEF Acknowledged, LinkBreaks, LinkSettles, LateConnack
<1>5. conn' # "NONE"
  BY <1>4 DEF Acknowledged, LinkBreaks, LinkSettles, LateConnack
<1>6. \A k \in 1..Len(txqueue) :
         hash'[txqueue[k].hmsg] = txqueue[k].msg \/ txqueue[k].msg \in acked'
  <2>1. CASE Acknowledged
    <3>1. PICK id \in Ids : acked' = acked \union {hash[id]} /\ hash' = [hash EXCEPT ![id] = NoMsg]
      BY <2>1 DEF Acknowledged
    <3>2. QED
      BY <3>1, EntryFacts DEF TrueInv, SessionOK, IInv, LibOK
  <2>2. CASE LinkBreaks \/ LinkSettles \/ LateConnack
    BY <2>2 DEF LinkBreaks, LinkSettles, LateConnack, TrueInv, SessionOK
  <2>3. QED
    BY <2>1, <2>2
<1>7. Running' /\ Top'.at = "ok" => txqueue'[Top'.i].msg \in acked'
  BY <1>1, <1>2 DEF TrueInv, SessionOK, Running, Top
<1>8. SessionOK'
  BY <1>1, <1>5, <1>6, <1>7 DEF SessionOK
<1>9. QED
  BY <1>3, <1>8 DEF TrueInv

\* What the library calls delivered is not hashed any more.
LEMMA AskTrue == IInv /\ TrueInv /\ Ask => TrueInv'
<1>1. SUFFICES ASSUME IInv, TrueInv, Ask PROVE TrueInv'
  OBVIOUS
<1>2. PICK f \in Frames : stack = <<f>> /\ FrameOK(f)
  BY <1>1 DEF IInv, StackOK, Ask, Running
<1>3. /\ Top = f /\ Front(stack) = <<>> /\ f.at = "ask" /\ f.i \in 1..Len(txqueue)
      /\ UNCHANGED <<opts, libVars, txqueue, published, reports>>
  BY <1>1, <1>2, StackFacts DEF Ask, FrameOK, IInv, QueueOK
<1>4. PICK s \in MsgStatus(txqueue[f.i].hmsg) :
         IF Verdict(s) = "transit" THEN Step([f EXCEPT !.i = @ + 1])
         ELSE Step([f EXCEPT !.at = Verdict(s)])
  BY <1>1, <1>3 DEF Ask
<1>5. Verdict(s) = "ok" => txqueue[f.i].msg \in acked
  <2>1. SUFFICES ASSUME Verdict(s) = "ok" PROVE txqueue[f.i].msg \in acked
    OBVIOUS
  <2>2. s = "DELIVERED"
    BY <2>1 DEF Verdict
  <2>3. hash[txqueue[f.i].hmsg] = NoMsg
    BY <1>4, <2>2 DEF MsgStatus
  <2>4. QED
    BY <1>1, <1>3, <2>3, EntryFacts, ClientAssumption DEF TrueInv, SessionOK, IInv
<1>6. PICK g \in {[f EXCEPT !.i = @ + 1], [f EXCEPT !.at = Verdict(s)]} :
         stack' = <<g>> /\ (g.at = "ok" => g.i = f.i /\ Verdict(s) = "ok")
  <2>1. CASE Verdict(s) = "transit"
    <3> DEFINE g == [f EXCEPT !.i = @ + 1]
    <3>1. stack' = <<g>>
      BY <1>3, <1>4, <2>1 DEF Step
    <3>2. g.at = "ask"
      BY <1>3 DEF Frames
    <3>3. QED
      BY <3>1, <3>2
  <2>2. CASE Verdict(s) # "transit"
    <3> DEFINE g == [f EXCEPT !.at = Verdict(s)]
    <3>1. stack' = <<g>>
      BY <1>3, <1>4, <2>2 DEF Step
    <3>2. g.at = Verdict(s) /\ g.i = f.i
      BY DEF Frames
    <3>3. QED
      BY <3>1, <3>2
  <2>3. QED
    BY <2>1, <2>2
<1>7. Running' /\ Top'.at = "ok" => txqueue[Top'.i].msg \in acked
  BY <1>5, <1>6, NextStackFacts
<1>8. QED
  BY <1>1, <1>3, <1>7, SessionStill, SuccessStill DEF TrueInv, libVars

LEMMA CallbackTrue == QuietCallbacks /\ IInv /\ TrueInv /\ Callback => TrueInv'
<1>1. SUFFICES ASSUME QuietCallbacks, IInv, TrueInv, Callback PROVE TrueInv'
  OBVIOUS
<1>2. PICK f \in Frames : stack = <<f>> /\ FrameOK(f)
  BY <1>1 DEF IInv, StackOK, Callback, Running
<1> DEFINE e == txqueue[f.i].msg
           g == [f EXCEPT !.at = "called"]
<1>3. /\ Top = f /\ Front(stack) = <<>> /\ Running /\ f.i \in 1..Len(txqueue)
      /\ f.at \in {"ok", "failed"}
      /\ reports' = [reports EXCEPT ![e] = Append(@, f.at)]
      /\ UNCHANGED <<opts, libVars, txqueue, published>>
  <2>1. Top = f /\ Front(stack) = <<>> /\ Running
    BY <1>2, StackFacts
  <2>2. f.at \in {"ok", "failed"} /\ f.i \in 1..Len(txqueue)
    BY <1>1, <1>2, <2>1 DEF Callback, FrameOK, IInv, QueueOK
  <2>3. QED
    BY <1>1, <2>1, <2>2 DEF Callback
<1>4. e \in Msgs /\ (f.at = "ok" => e \in acked)
  BY <1>1, <1>3, EntryFacts DEF TrueInv, SessionOK, IInv
<1>5. stack' = <<g>> /\ g.at = "called"
  <2>1. Calls = {}
    BY <1>1 DEF QuietCallbacks, Calls
  <2>2. stack' = Append(<<>>, g) \o <<>>
    BY <1>1, <1>3, <2>1 DEF Callback
  <2>3. QED
    BY <2>2 DEF Frames
<1>6. SessionOK'
  <2>1. ~(Running' /\ Top'.at = "ok")
    BY <1>5, NextStackFacts
  <2>2. QED
    BY <1>1, <1>3, <2>1, SessionStill DEF TrueInv, libVars
<1>7. SuccessIsTrue'
  <2>1. reports[e] = <<>>
    <3>1. ~Called(f.i)
      BY <1>2, <1>3, StackFacts
    <3>2. QED
      BY <1>1, <1>3, <3>1 DEF IInv, ReportsOK
  <2>2. reports'[e] = <<f.at>> /\ \A m \in Msgs : m # e => reports'[m] = reports[m]
    BY <1>1, <1>3, <1>4, <2>1 DEF IInv, ReportsOK
  <2>3. ToSet(<<f.at>>) = {f.at}
    BY DEF ToSet
  <2>4. acked' = acked
    BY <1>3 DEF libVars
  <2>5. ASSUME NEW m \in Msgs, "ok" \in ToSet(reports'[m]) PROVE m \in acked
    <3>1. CASE m = e
      BY <1>4, <2>2, <2>3, <2>5, <3>1
    <3>2. CASE m # e
      BY <1>1, <2>2, <2>5, <3>2 DEF TrueInv, SuccessIsTrue
    <3>3. QED
      BY <3>1, <3>2
  <2>6. QED
    BY <2>4, <2>5 DEF SuccessIsTrue
<1>8. QED
  BY <1>6, <1>7 DEF TrueInv

LEMMA SpliceTrue == IInv /\ TrueInv /\ Splice => TrueInv'
<1>1. SUFFICES ASSUME IInv, TrueInv, Splice PROVE TrueInv'
  OBVIOUS
<1>2. PICK f \in Frames : stack = <<f>> /\ FrameOK(f)
  BY <1>1 DEF IInv, StackOK, Splice, Running
<1> DEFINE g == [f EXCEPT !.at = "ask", !.i = f.i]
<1>3. /\ f.i \in 1..Len(txqueue) /\ txqueue \in Seq(Entries)
      /\ txqueue' = RemoveAt(txqueue, f.i) /\ stack' = <<g>> /\ g.at = "ask"
      /\ UNCHANGED <<opts, libVars, published, reports>>
  <2>1. f.at = "called" /\ Top = f /\ Front(stack) = <<>>
    BY <1>1, <1>2, StackFacts DEF Splice
  <2>2. f.i \in 1..Len(txqueue) /\ txqueue \in Seq(Entries)
    BY <1>1, <1>2, <2>1 DEF IInv, FrameOK, QueueOK
  <2>3. stack' = <<g>> /\ g.at = "ask"
    BY <1>1, <2>1 DEF Splice, Step, AfterSplice, Frames
  <2>4. QED
    BY <1>1, <2>1, <2>2, <2>3 DEF Splice, Spliced
<1>4. \A k \in 1..Len(txqueue') : \E j \in 1..Len(txqueue) : txqueue'[k] = txqueue[j]
  <2>1. /\ Len(txqueue') = Len(txqueue) - 1
        /\ \A k \in 1..Len(txqueue') :
              txqueue'[k] = IF k < f.i THEN txqueue[k] ELSE txqueue[k + 1]
    BY <1>3, RemoveAtFacts
  <2>2. ASSUME NEW k \in 1..Len(txqueue')
        PROVE  /\ k \in 1..Len(txqueue) /\ k + 1 \in 1..Len(txqueue)
               /\ txqueue'[k] = txqueue[k] \/ txqueue'[k] = txqueue[k + 1]
    BY <1>3, <2>1
  <2>3. QED
    BY <2>2
<1>5. \A k \in 1..Len(txqueue') :
         hash[txqueue'[k].hmsg] = txqueue'[k].msg \/ txqueue'[k].msg \in acked
  BY <1>1, <1>4 DEF TrueInv, SessionOK
<1>6. ~opts.persist => conn # "NONE"
  <2>1. txqueue # <<>>
    BY <1>3
  <2>2. QED
    BY <1>1, <2>1 DEF TrueInv, SessionOK
<1>7. ~(Running' /\ Top'.at = "ok")
  BY <1>3, NextStackFacts
<1>8. SessionOK'
  BY <1>3, <1>5, <1>6, <1>7 DEF SessionOK, libVars
<1>9. QED
  BY <1>1, <1>3, <1>8, SuccessStill DEF TrueInv, libVars

\* The next connection has the publications of the store, or the queue is empty.
LEMMA ConnectTrue == KeepsItsSession /\ IInv /\ TrueInv /\ Connect => TrueInv'
<1>1. SUFFICES ASSUME KeepsItsSession, IInv, TrueInv, Connect PROVE TrueInv'
  OBVIOUS
<1>2. /\ UNCHANGED <<opts, txqueue, published, reports, acked>>
      /\ stack' \in {<<>>, <<Frame("connect", NoMsg)>>}
      /\ conn = "NONE" \/ opts.again
      /\ conn' = "NONE" => UNCHANGED hash
      /\ opts.persist => UNCHANGED hash
  BY <1>1 DEF Connect, Opened, NotOpened
<1>3. ~(Running' /\ Top'.at = "ok")
  <2>1. CASE stack' = <<>>
    BY <2>1, EmptyFacts
  <2>2. CASE stack' = <<Frame("connect", NoMsg)>>
    BY <2>2, NextStackFacts DEF Frame
  <2>3. QED
    BY <1>2, <2>1, <2>2
<1>4. ~opts.persist => conn = "NONE" /\ txqueue = <<>>
  BY <1>1, <1>2 DEF KeepsItsSession, TrueInv, SessionOK, IInv, LibOK
<1>5. SessionOK'
  BY <1>1, <1>2, <1>3, <1>4 DEF TrueInv, SessionOK
<1>6. QED
  BY <1>1, <1>2, <1>5, SuccessStill DEF TrueInv

\* A step of a method that neither asks the library nor touches the queue.
LEMMA MethodTrue ==
    ASSUME IInv, TrueInv,
           Call \/ CallPublish \/ ConnectPolls \/ StatusReturns \/ ReceivePubReturns
           \/ DisconnectWaits
    PROVE  TrueInv'
<1>1. UNCHANGED <<opts, libVars, txqueue, published, reports>>
  BY DEF Call, CallPublish, ConnectPolls, StatusReturns, ReceivePubReturns, DisconnectWaits
<1>2. stack' = <<>> \/ \E g : stack' = <<g>> /\ g.at = "ask"
  <2>1. CASE Call \/ CallPublish
    BY <2>1 DEF Call, CallPublish, Frame
  <2>2. CASE StatusReturns \/ ReceivePubReturns
    BY <2>2, AskedFacts DEF StatusReturns, ReceivePubReturns, Return
  <2>3. CASE ConnectPolls
    <3>1. PICK f \in Frames : f.at = "ask" /\ Top = f /\ Front(stack) = <<>>
      BY <2>3, AskedFacts DEF ConnectPolls
    <3>2. Return \/ Step(Again(f)) \/ Step([Again(f) EXCEPT !.call = "disconnect"])
      BY <2>3, <3>1 DEF ConnectPolls
    <3>3. Again(f).at = "ask" /\ [Again(f) EXCEPT !.call = "disconnect"].at = "ask"
      BY <3>1, AgainFacts DEF Frames
    <3>4. \A g : Step(g) => stack' = <<g>>
      BY <3>1 DEF Step
    <3>5. Return => stack' = <<>>
      BY <3>1 DEF Return
    <3>6. CASE Step(Again(f))
      <4>1. stack' = <<Again(f)>>
        BY <3>4, <3>6
      <4>2. QED
        BY <3>3, <4>1
    <3>7. CASE Step([Again(f) EXCEPT !.call = "disconnect"])
      <4> DEFINE g == [Again(f) EXCEPT !.call = "disconnect"]
      <4>1. stack' = <<g>> /\ g.at = "ask"
        BY <3>3, <3>4, <3>7
      <4> HIDE DEF g
      <4>2. QED
        BY <4>1
    <3>8. QED
      BY <3>2, <3>5, <3>6, <3>7
  <2>4. CASE DisconnectWaits
    <3>1. PICK f \in Frames : f.at = "ask" /\ Top = f /\ Front(stack) = <<>>
      BY <2>4, AskedFacts DEF DisconnectWaits
    <3>2. TriesLeft(f) /\ stack' = <<NextTry(f)>>
      BY <2>4, <3>1 DEF DisconnectWaits, Step
    <3>3. NextTry(f).at = "ask"
      BY <3>1, <3>2, AgainFacts
    <3>4. QED
      BY <3>2, <3>3
  <2>5. QED
    BY <2>1, <2>2, <2>3, <2>4
<1>3. ~(Running' /\ Top'.at = "ok")
  BY <1>2, EmptyFacts, NextStackFacts
<1>4. QED
  BY <1>1, <1>3, SessionStill, SuccessStill DEF TrueInv, libVars

LEMMA DisconnectTrue == IInv /\ TrueInv /\ Disconnect => TrueInv'
<1>1. SUFFICES ASSUME IInv, TrueInv, Disconnect PROVE TrueInv'
  OBVIOUS
<1>2. txqueue' = <<>> /\ stack' = <<>> /\ UNCHANGED <<acked, reports>>
  BY <1>1, AskedFacts DEF Disconnect, Return
<1>3. SessionOK'
  BY <1>2, EmptyFacts DEF SessionOK
<1>4. QED
  BY <1>1, <1>2, <1>3, SuccessStill DEF TrueInv

\* The id that a publication gets has no other in the hash table: what is in the queue under
\* the same id has been acknowledged.
LEMMA PublishTrue == IInv /\ TrueInv /\ Publish => TrueInv'
<1>1. SUFFICES ASSUME IInv, TrueInv, Publish PROVE TrueInv'
  OBVIOUS
<1>2. PICK f \in Frames : /\ stack = <<f>> /\ FrameOK(f) /\ f.call = "publish" /\ f.at = "ask"
                          /\ Top = f /\ Front(stack) = <<>>
  BY <1>1, AskedFacts DEF Publish
<1>3. /\ f.msg \in Msgs /\ stack' = <<>> /\ UNCHANGED <<opts, conn, acked, reports>>
  BY <1>1, <1>2 DEF Publish, Return, FrameOK
<1>4. ~(Running' /\ Top'.at = "ok")
  BY <1>3, EmptyFacts
<1> DEFINE e == [hmsg |-> nextId, msg |-> f.msg]
           Old == \A k \in 1..Len(txqueue) :
                     hash'[txqueue[k].hmsg] = txqueue[k].msg \/ txqueue[k].msg \in acked
<1>5. CASE UNCHANGED <<hash, txqueue>>
  <2>1. SessionOK'
    BY <1>1, <1>3, <1>4, <1>5 DEF TrueInv, SessionOK
  <2>2. QED
    BY <1>1, <1>3, <2>1, SuccessStill DEF TrueInv
<1>6. CASE /\ GivesIds /\ hash[nextId] = NoMsg
           /\ hash' = [hash EXCEPT ![nextId] = IF f.msg \in Qos0 THEN NoMsg ELSE f.msg]
           /\ \/ Tracked(f.msg) /\ txqueue' = Append(txqueue, e)
              \/ UNCHANGED txqueue
  <2>1. Old
    BY <1>1, <1>6, EntryFacts, ClientAssumption DEF IInv, LibOK, TrueInv, SessionOK
  <2>2. conn' # "NONE"
    BY <1>3, <1>6 DEF GivesIds, Statuses
  <2>3. \A k \in 1..Len(txqueue') :
           hash'[txqueue'[k].hmsg] = txqueue'[k].msg \/ txqueue'[k].msg \in acked
    <3>1. CASE UNCHANGED txqueue
      BY <2>1, <3>1
    <3>2. CASE Tracked(f.msg) /\ txqueue' = Append(txqueue, e)
      <4>1. hash'[e.hmsg] = e.msg /\ e \in Entries
        BY <1>1, <1>3, <1>6, <3>2 DEF Tracked, IInv, LibOK, Entries
      <4> HIDE DEF e
      <4>2. /\ Len(txqueue') = Len(txqueue) + 1 /\ Len(txqueue) \in Nat
            /\ \A k \in 1..Len(txqueue) : txqueue'[k] = txqueue[k]
            /\ txqueue'[Len(txqueue) + 1] = e
        BY <1>1, <3>2, <4>1, AppendFacts DEF IInv, QueueOK
      <4>3. ASSUME NEW k \in 1..Len(txqueue')
            PROVE  hash'[txqueue'[k].hmsg] = txqueue'[k].msg \/ txqueue'[k].msg \in acked
        <5>1. CASE k = Len(txqueue) + 1
          BY <4>1, <4>2, <5>1
        <5>2. CASE k # Len(txqueue) + 1
          <6>1. k \in 1..Len(txqueue)
            BY <4>2, <5>2
          <6>2. QED
            BY <2>1, <4>2, <6>1
        <5>3. QED
          BY <5>1, <5>2
      <4>4. QED
        BY <4>3
    <3>3. QED
      BY <1>6, <3>1, <3>2
  <2>4. SessionOK'
    BY <1>3, <1>4, <2>2, <2>3 DEF SessionOK
  <2>5. QED
    BY <1>1, <1>3, <2>4, SuccessStill DEF TrueInv
<1>7. QED
  BY <1>1, <1>2, <1>5, <1>6 DEF Publish

\* A callback is told of a success only when the broker has acknowledged the publication:
\* true as long as a client that connects again without a disconnect has a stored session.
THEOREM SuccessIsTrueHolds == QuietCallbacks /\ KeepsItsSession /\ Spec => []SuccessIsTrue
<1>1. CASE QuietCallbacks /\ KeepsItsSession
  <2>1. Init => IInv /\ TrueInv
    <3>1. ASSUME Init PROVE SessionOK
      BY <3>1, EmptyFacts DEF Init, SessionOK
    <3>2. QED
      BY <3>1, InitHolds DEF TrueInv
  <2>2. (IInv /\ TrueInv) /\ [Next]_vars => (IInv /\ TrueInv)'
    <3>1. SUFFICES ASSUME IInv, TrueInv, [Next]_vars PROVE TrueInv'
      BY <1>1, NextHolds
    <3>2. CASE UNCHANGED vars
      BY <3>1, <3>2 DEF vars, libVars, TrueInv, SuccessIsTrue, SessionOK, Running, Top
    <3>3. CASE Next
      BY <1>1, <3>1, <3>3, LibraryTrue, AskTrue, CallbackTrue, SpliceTrue, ConnectTrue, MethodTrue,
         DisconnectTrue, PublishTrue DEF Next
    <3>4. QED
      BY <3>1, <3>2, <3>3
  <2>3. IInv /\ TrueInv => SuccessIsTrue
    BY DEF TrueInv
  <2>4. Spec => []SuccessIsTrue
    BY <2>1, <2>2, <2>3, PTL DEF Spec
  <2>5. QED
    BY <2>4
<1>2. QED
  BY <1>1


-----------------------------------------------------------------------------
(* What an entry leaves the queue for.                                     *)

\* The action of LeavesWhenReported.
LeavesReported ==
    \A m \in Msgs : InQueue(m) /\ ~InQueue(m)' =>
        \/ reports[m] # <<>>
        \/ Top.call = "disconnect" /\ Top.tries = MaxTries

LEMMA SpliceReported == IInv /\ Splice => LeavesReported
<1>1. SUFFICES ASSUME IInv, Splice, NEW m \in Msgs, InQueue(m), ~InQueue(m)'
               PROVE  reports[m] # <<>>
  BY DEF LeavesReported
<1>2. PICK f \in Frames : stack = <<f>> /\ FrameOK(f)
  BY <1>1 DEF IInv, StackOK, Splice, Running
<1>3. /\ f.at = "called" /\ f.i \in 1..Len(txqueue)
      /\ txqueue \in Seq(Entries) /\ txqueue' = RemoveAt(txqueue, f.i)
  <2>1. f.at = "called" /\ Top = f
    BY <1>1, <1>2, StackFacts DEF Splice
  <2>2. f.i \in 1..Len(txqueue) /\ txqueue \in Seq(Entries)
    BY <1>1, <1>2, <2>1 DEF IInv, FrameOK, QueueOK
  <2>3. QED
    BY <1>1, <2>1, <2>2 DEF Splice, Spliced
<1>4. PICK k \in 1..Len(txqueue) : txqueue[k].msg = m
  BY <1>1 DEF InQueue
<1>5. k = f.i
  <2>1. SUFFICES ASSUME k # f.i PROVE FALSE
    OBVIOUS
  <2> DEFINE j == IF k < f.i THEN k ELSE k - 1
  <2>2. j \in 1..(Len(txqueue) - 1) /\ k = IF j < f.i THEN j ELSE j + 1
    BY <1>3, <1>4, <2>1
  <2> HIDE DEF j
  <2>3. j \in 1..Len(txqueue') /\ txqueue'[j] = txqueue[k]
    BY <1>3, <2>2, RemoveAtFacts
  <2>4. QED
    BY <1>1, <1>4, <2>3 DEF InQueue
<1>6. Called(k)
  BY <1>2, <1>3, <1>5, StackFacts
<1>7. QED
  BY <1>1, <1>4, <1>6 DEF IInv, ReportsOK

LEMMA DisconnectReported == IInv /\ Disconnect => LeavesReported
<1>1. SUFFICES ASSUME IInv, Disconnect, NEW m \in Msgs, InQueue(m)
               PROVE  Top.call = "disconnect" /\ Top.tries = MaxTries
  BY DEF LeavesReported
<1>2. PICK f \in Frames : f.call = "disconnect" /\ Top = f
  BY <1>1, AskedFacts DEF Disconnect
<1>3. txqueue # <<>>
  BY <1>1 DEF InQueue
<1>4. ~(f.tries < MaxTries) /\ f.tries \in 0..MaxTries
  BY <1>1, <1>2, <1>3 DEF Disconnect, TriesLeft, Frames
<1>5. QED
  BY <1>2, <1>4, ClientAssumption

LEMMA PublishReported == IInv /\ Publish => LeavesReported
<1>1. SUFFICES ASSUME IInv, Publish, NEW m \in Msgs, InQueue(m) PROVE InQueue(m)'
  BY DEF LeavesReported
<1>2. txqueue \in Seq(Entries)
  BY <1>1 DEF IInv, QueueOK
<1>3. PICK k \in 1..Len(txqueue) : txqueue[k].msg = m
  BY <1>1 DEF InQueue
<1>4. CASE UNCHANGED txqueue
  BY <1>3, <1>4 DEF InQueue
<1>5. ASSUME NEW e, txqueue' = Append(txqueue, e) PROVE InQueue(m)'
  <2>1. k \in 1..Len(txqueue') /\ txqueue'[k] = txqueue[k]
    BY <1>2, <1>3, <1>5
  <2>2. QED
    BY <1>3, <2>1 DEF InQueue
<1>6. UNCHANGED txqueue \/ \E e : txqueue' = Append(txqueue, e)
  BY <1>1 DEF Publish
<1>7. QED
  BY <1>4, <1>5, <1>6

LEMMA NextReported == IInv /\ [Next]_vars => [LeavesReported]_vars
<1>1. SUFFICES ASSUME IInv, Next PROVE LeavesReported
  OBVIOUS
<1>2. ASSUME UNCHANGED txqueue PROVE LeavesReported
  BY <1>2 DEF LeavesReported, InQueue
<1>3. Splice \/ Disconnect \/ Publish \/ UNCHANGED txqueue
  BY <1>1 DEF Next, Acknowledged, LinkBreaks, LinkSettles, LateConnack, Ask, Callback, Call,
     CallPublish, Connect, ConnectPolls, StatusReturns, ReceivePubReturns, DisconnectWaits
<1>4. QED
  BY <1>1, <1>2, <1>3, SpliceReported, DisconnectReported, PublishReported

\* An entry leaves the queue when its callback has been called, or when disconnect gives up:
\* the splice at the index of the walk never takes another one.
THEOREM LeavesWhenReportedHolds == QuietCallbacks /\ Spec => LeavesWhenReported
<1>1. CASE QuietCallbacks
  <2>1. Spec => []IInv
    BY <1>1, Invariance
  <2>2. IInv /\ [Next]_vars => [LeavesReported]_vars
    BY NextReported
  <2>3. Spec => [][LeavesReported]_vars
    BY <2>1, <2>2, PTL DEF Spec
  <2>4. QED
    BY <2>3 DEF LeavesWhenReported, LeavesReported
<1>2. QED
  BY <1>1
=============================================================================
