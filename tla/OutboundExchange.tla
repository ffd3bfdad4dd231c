-------------------------- MODULE OutboundExchange --------------------------
(***************************************************************************)
(* What holds at any time between the requests of the application, the     *)
(* messages in flight, what the client holds for retry and recovery, and   *)
(* the broker, and that no single effect of a step breaks it.  Every lemma *)
(* is about constants: what is in flight to the broker (B) and to the      *)
(* client (C), the records the client holds (K), the ids the broker has    *)
(* not seen released (b), how often it acted (g), the replies and the      *)
(* handles (r, h), and the options (o).  u says that the broker has taken  *)
(* the CONNECT of a persistent client's session, so that b is about it.    *)
(* OutboundProofs composes the effects to the steps.                       *)
(***************************************************************************)
EXTENDS Outbound, LinkedListProofs

-----------------------------------------------------------------------------
(* The invariant.                                                          *)

IsReq(w) == w.type = "REQUEST"

Q2(m) == Kind[m] = "PUBLISH2"

ExchangeType(B, C, K, b, g, r, h, u, o) ==
    /\ B \in Seq(Wire) /\ C \in Seq(Answer)
    /\ K \subseteq Stored /\ b \subseteq Ids
    /\ g \in [Msgs -> 0..2] /\ r \in [Msgs -> Rcs] /\ h \in [Msgs -> 0..MaxMsgs]
    /\ u \in BOOLEAN /\ o \in Options

\* The client holds one record for an id; that of a request is the one its
\* handle names.
HeldOK(K, r, h, o) ==
    /\ \A s, t \in K : s.key = t.key => s = t
    /\ \A s \in K : s.key \in Ids /\ (o.persist => s.key <= ShortMax)
    /\ \A s \in K : IsReq(s) =>
         r[s.m] = "OK" /\ h[s.m] = s.key /\ Kind[s.m] # "PUBLISH0"

\* The broker acts on a QoS 2 publication at most once, acts on nothing that
\* was not requested, and remembers the id of a publication still held.
GotOK(K, b, g, r) ==
    /\ \A m \in Msgs : Q2(m) => g[m] <= 1
    /\ \A m \in Msgs : Kind[m] # "PUBLISH0" /\ g[m] > 0 => r[m] # "NONE"
    /\ \A s \in K : IsReq(s) /\ Q2(s.m) /\ g[s.m] > 0 => s.key \in b

\* With persistence, the client holds an accepted request until it is acted on.
KeptOK(K, g, r, o) ==
    o.persist => \A m \in Msgs : r[m] = "OK" /\ Kind[m] # "PUBLISH0" /\ g[m] = 0 =>
      \E s \in K : IsReq(s) /\ s.m = m

\* An id the broker remembers is one the client holds, for the publication
\* that the broker acted on or for its PUBREL.
UnreleasedOK(K, b, g, u) ==
    u => \A i \in b : \E s \in K :
           s.key = i /\ (IsReq(s) => Q2(s.m) /\ g[s.m] > 0)

\* A CONNECT comes first, and that of a clean start comes before any request
\* of the session was acted on.
ConnectOK(B, K, g, o) ==
    /\ \A i \in 1..Len(B) : B[i].type = "CONNECT" => i = 1
    /\ o.cleanStart /\ (\E i \in 1..Len(B) : B[i].type = "CONNECT") =>
         /\ \A s \in K : IsReq(s) => g[s.m] = 0
         /\ \A i \in 1..Len(B) : IsReq(B[i]) => g[B[i].m] = 0

\* A request in flight is the one its id stands for, in the records of the
\* client and among the messages in flight; the id of another kind of request
\* than a QoS 2 publication is not one the broker remembers.
RequestOK(B, K, b, r, h, u) ==
    \A i \in 1..Len(B) : IsReq(B[i]) =>
      LET w == B[i]
      IN  /\ r[w.m] = "OK" /\ h[w.m] = w.id /\ Kind[w.m] # "PUBLISH0"
          /\ \A s \in K : s.key = w.id /\ IsReq(s) => s.m = w.m
          /\ \A j \in 1..Len(B) : IsReq(B[j]) /\ B[j].id = w.id => B[j].m = w.m
          /\ Q2(w.m) => \E s \in K : s.key = w.id
          /\ u /\ ~Q2(w.m) => w.id \notin b

\* A QoS 2 publication that the broker acted on, or that follows another copy,
\* is marked as a duplicate, and the broker remembers it if it acted on it.
CopyOK(B, b, g) ==
    \A i \in 1..Len(B) : IsReq(B[i]) /\ Q2(B[i].m) =>
      LET w == B[i]
      IN  /\ g[w.m] > 0 => w.dup /\ w.id \in b
          /\ \A j \in 1..Len(B) : j < i /\ IsReq(B[j]) /\ B[j].m = w.m => w.dup

\* Once a PUBREL is sent, the publication is not sent again.
PubrelOK(B, K) ==
    \A i \in 1..Len(B) : B[i].type = "PUBREL" =>
      /\ \A s \in K : s.key = B[i].id => ~IsReq(s)
      /\ \A j \in 1..Len(B) : j > i /\ IsReq(B[j]) => B[j].id # B[i].id

Qos0OK(B) == \A i \in 1..Len(B) : B[i].type = "QOS0" => Kind[B[i].m] = "PUBLISH0"

\* A PUBREC answers a QoS 2 publication that the broker acted on.
PubrecOK(C, K, g, o) ==
    \A i \in 1..Len(C) : C[i].type = "PUBREC" =>
      \A s \in K : s.key = C[i].id /\ IsReq(s) =>
        Q2(s.m) /\ (o.persist => g[s.m] > 0)

\* An acknowledgement answers what the broker acted on, and for a QoS 2
\* publication only its PUBREL.
AckOK(B, C, K, b, g, u) ==
    \A i \in 1..Len(C) : C[i].type = "ACK" =>
      /\ \A s \in K : s.key = C[i].id /\ IsReq(s) => ~Q2(s.m) /\ g[s.m] > 0
      /\ \A j \in 1..Len(B) : IsReq(B[j]) /\ Q2(B[j].m) => B[j].id # C[i].id
      /\ u => C[i].id \notin b

Exchange(B, C, K, b, g, r, h, u, o) ==
    /\ ExchangeType(B, C, K, b, g, r, h, u, o)
    /\ HeldOK(K, r, h, o)
    /\ GotOK(K, b, g, r)
    /\ KeptOK(K, g, r, o)
    /\ UnreleasedOK(K, b, g, u)
    /\ ConnectOK(B, K, g, o)
    /\ RequestOK(B, K, b, r, h, u)
    /\ CopyOK(B, b, g)
    /\ PubrelOK(B, K)
    /\ Qos0OK(B)
    /\ PubrecOK(C, K, g, o)
    /\ AckOK(B, C, K, b, g, u)

-----------------------------------------------------------------------------
(* Data.                                                                   *)

LEMMA WireFacts ==
    ASSUME NEW w \in Wire
    PROVE  /\ w.id \in Nat /\ w.type \in {"CONNECT", "QOS0", "REQUEST", "PUBREL"}
           /\ IsReq(w) => w.id \in Ids /\ w.m \in Msgs /\ w.dup \in BOOLEAN
           /\ w.type = "QOS0" => w.m \in Msgs
           /\ w.type = "PUBREL" => w.id \in Ids
<1>0. Ids \subseteq Nat
  BY DEF Ids
<1>1. CASE w = ConnectMsg
  BY <1>1 DEF ConnectMsg, IsReq
<1>2. CASE w \in {Qos0Msg(m) : m \in Msgs}
  BY <1>2 DEF Qos0Msg, IsReq
<1>3. CASE w \in [type : {"REQUEST"}, id : Ids, m : Msgs, dup : BOOLEAN]
  BY <1>0, <1>3 DEF IsReq
<1>4. CASE w \in [type : {"PUBREL"}, id : Ids, m : {NoMsg}, dup : BOOLEAN]
  BY <1>0, <1>4 DEF IsReq
<1> QED BY <1>1, <1>2, <1>3, <1>4 DEF Wire

LEMMA AnswerFacts ==
    ASSUME NEW a \in Answer
    PROVE  /\ a.id \in Nat /\ a.type \in {"CONNACK", "REFUSED", "PUBREC", "ACK"}
           /\ a.type \in {"PUBREC", "ACK"} => a.id \in Ids
BY DEF Answer, Ids

LEMMA StoredFacts ==
    ASSUME NEW s \in Stored
    PROVE  /\ s.key \in Nat /\ s.type \in {"REQUEST", "PUBREL"}
           /\ IsReq(s) => s.m \in Msgs
BY DEF Stored, Keys, IsReq

LEMMA OptionFacts ==
    ASSUME NEW o \in Options
    PROVE  o.persist \in BOOLEAN /\ o.cleanStart \in BOOLEAN /\ o.storeFails \in BOOLEAN
BY OptionsAssumption


-----------------------------------------------------------------------------
(* The connection.                                                         *)

\* What holds of the session's ids holds while nothing is known of them.
LEMMA WeakenLemma ==
    ASSUME NEW B, NEW C, NEW K, NEW b, NEW g, NEW r, NEW h, NEW u, NEW o,
           Exchange(B, C, K, b, g, r, h, u, o), NEW v \in BOOLEAN, v => u
    PROVE  Exchange(B, C, K, b, g, r, h, v, o)
<1>1. ExchangeType(B, C, K, b, g, r, h, v, o)
  BY DEF Exchange, ExchangeType
<1>2. UnreleasedOK(K, b, g, v)
  BY DEF Exchange, UnreleasedOK
<1>3. RequestOK(B, K, b, r, h, v)
  BY DEF Exchange, RequestOK
<1>4. AckOK(B, C, K, b, g, v)
  BY DEF Exchange, AckOK
<1> QED BY <1>1, <1>2, <1>3, <1>4 DEF Exchange

\* The socket is closed: what was in flight is lost.
LEMMA LostLemma ==
    ASSUME NEW B, NEW C, NEW K, NEW b, NEW g, NEW r, NEW h, NEW u, NEW o,
           Exchange(B, C, K, b, g, r, h, u, o)
    PROVE  Exchange(<<>>, <<>>, K, b, g, r, h, u, o)
<1>1. ExchangeType(<<>>, <<>>, K, b, g, r, h, u, o)
  BY DEF Exchange, ExchangeType
<1>2. \A i \in 1..Len(<<>>) : FALSE
  OBVIOUS
<1>3. /\ RequestOK(<<>>, K, b, r, h, u) /\ CopyOK(<<>>, b, g) /\ PubrelOK(<<>>, K)
      /\ Qos0OK(<<>>) /\ PubrecOK(<<>>, K, g, o) /\ AckOK(<<>>, <<>>, K, b, g, u)
      /\ ConnectOK(<<>>, K, g, o)
  BY <1>2 DEF RequestOK, CopyOK, PubrelOK, Qos0OK, PubrecOK, AckOK, ConnectOK
<1> QED BY <1>1, <1>3 DEF Exchange

\* What was in flight to the broker is lost.
LEMMA EmptyBrokerLemma ==
    ASSUME NEW B, NEW C, NEW K, NEW b, NEW g, NEW r, NEW h, NEW u, NEW o,
           Exchange(B, C, K, b, g, r, h, u, o)
    PROVE  Exchange(<<>>, C, K, b, g, r, h, u, o)
<1>1. ExchangeType(<<>>, C, K, b, g, r, h, u, o)
  BY DEF Exchange, ExchangeType
<1>2. \A i \in 1..Len(<<>>) : FALSE
  OBVIOUS
<1>3. /\ RequestOK(<<>>, K, b, r, h, u) /\ CopyOK(<<>>, b, g) /\ PubrelOK(<<>>, K)
      /\ Qos0OK(<<>>) /\ ConnectOK(<<>>, K, g, o)
  BY <1>2 DEF RequestOK, CopyOK, PubrelOK, Qos0OK, ConnectOK
<1>4. AckOK(<<>>, C, K, b, g, u)
  BY <1>2 DEF Exchange, AckOK
<1> QED BY <1>1, <1>3, <1>4 DEF Exchange

\* A socket is opened, and the CONNECT written to it.
LEMMA OpenLemma ==
    ASSUME NEW B, NEW C, NEW K, NEW b, NEW g, NEW r, NEW h, NEW u, NEW o,
           Exchange(B, C, K, b, g, r, h, u, o), o.cleanStart => K = {}
    PROVE  Exchange(<<ConnectMsg>>, <<>>, K, b, g, r, h, u, o)
<1> DEFINE B1 == <<ConnectMsg>>
<1>1. B1 \in Seq(Wire) /\ Len(B1) = 1 /\ \A i \in 1..Len(B1) : i = 1 /\ B1[i] = ConnectMsg
  <2>1. ConnectMsg \in Wire
    BY DEF Wire
  <2> QED BY <2>1
<1>2. ConnectMsg.type = "CONNECT"
  BY DEF ConnectMsg
<1>3. \A i \in 1..Len(<<>>) : FALSE
  OBVIOUS
<1> HIDE DEF B1
<1>4. ExchangeType(B1, <<>>, K, b, g, r, h, u, o)
  BY <1>1 DEF Exchange, ExchangeType
<1>5. \A i \in 1..Len(B1) : B1[i].type = "CONNECT" /\ i = 1
  BY <1>1, <1>2
<1>6. /\ RequestOK(B1, K, b, r, h, u) /\ CopyOK(B1, b, g) /\ PubrelOK(B1, K)
      /\ Qos0OK(B1) /\ ConnectOK(B1, K, g, o)
  BY <1>5 DEF RequestOK, CopyOK, PubrelOK, Qos0OK, ConnectOK, IsReq
<1>7. PubrecOK(<<>>, K, g, o) /\ AckOK(B1, <<>>, K, b, g, u)
  BY <1>3 DEF PubrecOK, AckOK
<1> QED BY <1>4, <1>6, <1>7 DEF Exchange, B1

\* The client gives up the requests it made, and holds nothing of them.
LEMMA GiveUpLemma ==
    ASSUME NEW K, NEW b, NEW g, NEW r, NEW h, NEW u, NEW o,
           Exchange(<<>>, <<>>, K, b, g, r, h, u, o)
    PROVE  Exchange(<<>>, <<>>, {}, b, g,
                    [m \in Msgs |-> IF r[m] = "OK" THEN "GIVEN_UP" ELSE r[m]],
                    h, FALSE, o)
<1> DEFINE s == [m \in Msgs |-> IF r[m] = "OK" THEN "GIVEN_UP" ELSE r[m]]
<1>1. ExchangeType(<<>>, <<>>, {}, b, g, s, h, FALSE, o)
  <2>1. s \in [Msgs -> Rcs]
    BY DEF Exchange, ExchangeType, Rcs
  <2> QED BY <2>1 DEF Exchange, ExchangeType
<1>2. \A m \in Msgs : s[m] # "OK" /\ (r[m] # "NONE" => s[m] # "NONE")
  OBVIOUS
<1>3. \A i \in 1..Len(<<>>) : FALSE
  OBVIOUS
<1> HIDE DEF s
<1>4. HeldOK({}, s, h, o) /\ UnreleasedOK({}, b, g, FALSE)
  BY DEF HeldOK, UnreleasedOK
<1>5. GotOK({}, b, g, s)
  BY <1>2 DEF Exchange, GotOK
<1>6. KeptOK({}, g, s, o)
  BY <1>2 DEF KeptOK
<1>7. /\ RequestOK(<<>>, {}, b, s, h, FALSE) /\ CopyOK(<<>>, b, g) /\ PubrelOK(<<>>, {})
      /\ Qos0OK(<<>>) /\ PubrecOK(<<>>, {}, g, o) /\ AckOK(<<>>, <<>>, {}, b, g, FALSE)
      /\ ConnectOK(<<>>, {}, g, o)
  BY <1>3 DEF RequestOK, CopyOK, PubrelOK, Qos0OK, PubrecOK, AckOK, ConnectOK
<1> QED BY <1>1, <1>4, <1>5, <1>6, <1>7 DEF Exchange, s

\* A message to the client is read.
LEMMA ReadLemma ==
    ASSUME NEW B, NEW C, NEW K, NEW b, NEW g, NEW r, NEW h, NEW u, NEW o,
           Exchange(B, C, K, b, g, r, h, u, o), C # <<>>
    PROVE  Exchange(B, Tail(C), K, b, g, r, h, u, o)
<1> DEFINE D == Tail(C)
<1>1. /\ D \in Seq(Answer)
      /\ \A i \in 1..Len(D) : i + 1 \in 1..Len(C) /\ D[i] = C[i + 1]
  BY TailFacts DEF Exchange, ExchangeType
<1> HIDE DEF D
<1>2. ExchangeType(B, D, K, b, g, r, h, u, o)
  BY <1>1 DEF Exchange, ExchangeType
<1>3. PubrecOK(D, K, g, o) /\ AckOK(B, D, K, b, g, u)
  BY <1>1 DEF Exchange, PubrecOK, AckOK
<1> QED BY <1>2, <1>3 DEF Exchange, D


-----------------------------------------------------------------------------
(* What the client holds.                                                  *)

\* The records once the one of id is replaced, and once it is deleted.
Put(K, id, type, m) == {s \in K : s.key # id} \cup {[key |-> id, type |-> type, m |-> m]}
Del(K, id) == {s \in K : s.key # id}

\* A PUBREC is taken: the PUBREL takes the place of the publication.
LEMMA PutPubrelLemma ==
    ASSUME NEW B, NEW C, NEW K, NEW b, NEW g, NEW r, NEW h, NEW u, NEW o,
           Exchange(B, C, K, b, g, r, h, u, o),
           NEW id \in Ids, o.persist => id <= ShortMax,
           \A s \in K : s.key = id /\ IsReq(s) => (o.persist => g[s.m] > 0)
    PROVE  Exchange(B, C, Put(K, id, "PUBREL", NoMsg), b, g, r, h, u, o)
<1> DEFINE new == [key |-> id, type |-> "PUBREL", m |-> NoMsg]
           L == Put(K, id, "PUBREL", NoMsg)
<1>1. new.key = id /\ ~IsReq(new) /\ new \in L
  BY DEF IsReq, Put
<1>2. \A s \in L : s = new \/ (s \in K /\ s.key # id)
  BY DEF Put
<1>3. \A s \in K : s.key # id => s \in L
  BY DEF Put
<1>4. L \subseteq Stored
  <2>1. id \in Keys
    BY SizesAssumption DEF Ids, Keys, MaxMsgs
  <2>2. new \in Stored
    BY <2>1 DEF Stored
  <2> QED BY <1>2, <2>2 DEF Exchange, ExchangeType
<1> HIDE DEF new, L
<1>5. \A s \in L : IsReq(s) => s \in K /\ s.key # id
  BY <1>1, <1>2
<1>6. ExchangeType(B, C, L, b, g, r, h, u, o)
  BY <1>4 DEF Exchange, ExchangeType
<1>7. HeldOK(L, r, h, o)
  BY <1>1, <1>2, <1>5 DEF Exchange, HeldOK
<1>8. GotOK(L, b, g, r)
  BY <1>5 DEF Exchange, GotOK
<1>9. KeptOK(L, g, r, o)
  <2> SUFFICES ASSUME o.persist, NEW m \in Msgs, r[m] = "OK", Kind[m] # "PUBLISH0", g[m] = 0
               PROVE  \E s \in L : IsReq(s) /\ s.m = m
    BY DEF KeptOK
  <2>1. PICK s \in K : IsReq(s) /\ s.m = m
    BY DEF Exchange, KeptOK
  <2> QED BY <1>3, <2>1
<1>10. UnreleasedOK(L, b, g, u)
  <2> SUFFICES ASSUME u, NEW i \in b
               PROVE  \E s \in L : s.key = i /\ (IsReq(s) => Q2(s.m) /\ g[s.m] > 0)
    BY DEF UnreleasedOK
  <2>1. CASE i = id
    BY <1>1, <2>1
  <2>2. CASE i # id
    <3>1. PICK s \in K : s.key = i /\ (IsReq(s) => Q2(s.m) /\ g[s.m] > 0)
      BY DEF Exchange, UnreleasedOK
    <3> QED BY <1>3, <2>2, <3>1
  <2> QED BY <2>1, <2>2
<1>11. ConnectOK(B, L, g, o)
  BY <1>5 DEF Exchange, ConnectOK
<1>12. RequestOK(B, L, b, r, h, u)
  <2> SUFFICES ASSUME NEW i \in 1..Len(B), IsReq(B[i])
               PROVE  /\ \A s \in L : s.key = B[i].id /\ IsReq(s) => s.m = B[i].m
                      /\ Q2(B[i].m) => \E s \in L : s.key = B[i].id
    BY DEF Exchange, RequestOK
  <2>1. \A s \in L : s.key = B[i].id /\ IsReq(s) => s.m = B[i].m
    BY <1>5 DEF Exchange, RequestOK
  <2>2. ASSUME Q2(B[i].m) PROVE \E s \in L : s.key = B[i].id
    <3>1. PICK s \in K : s.key = B[i].id
      BY <2>2 DEF Exchange, RequestOK
    <3> QED BY <1>1, <1>3, <3>1
  <2> QED BY <2>1, <2>2
<1>13. PubrelOK(B, L)
  BY <1>5 DEF Exchange, PubrelOK
<1>14. PubrecOK(C, L, g, o) /\ AckOK(B, C, L, b, g, u)
  BY <1>5 DEF Exchange, PubrecOK, AckOK
<1> QED BY <1>6, <1>7, <1>8, <1>9, <1>10, <1>11, <1>12, <1>13, <1>14 DEF Exchange, L

\* An acknowledgement is taken: the record of its id goes.
LEMMA DelLemma ==
    ASSUME NEW B, NEW C, NEW K, NEW b, NEW g, NEW r, NEW h, NEW u, NEW o,
           Exchange(B, C, K, b, g, r, h, u, o), NEW id,
           \A s \in K : s.key = id /\ IsReq(s) => g[s.m] > 0,
           \A i \in 1..Len(B) : IsReq(B[i]) /\ Q2(B[i].m) => B[i].id # id,
           u => id \notin b
    PROVE  Exchange(B, C, Del(K, id), b, g, r, h, u, o)
<1> DEFINE L == Del(K, id)
<1>1. \A s : s \in L <=> s \in K /\ s.key # id
  BY DEF Del
<1> HIDE DEF L
<1>2. ExchangeType(B, C, L, b, g, r, h, u, o)
  BY <1>1 DEF Exchange, ExchangeType
<1>3. HeldOK(L, r, h, o)
  BY <1>1 DEF Exchange, HeldOK
<1>4. GotOK(L, b, g, r)
  BY <1>1 DEF Exchange, GotOK
<1>5. KeptOK(L, g, r, o)
  <2> SUFFICES ASSUME o.persist, NEW m \in Msgs, r[m] = "OK", Kind[m] # "PUBLISH0", g[m] = 0
               PROVE  \E s \in L : IsReq(s) /\ s.m = m
    BY DEF KeptOK
  <2>1. PICK s \in K : IsReq(s) /\ s.m = m
    BY DEF Exchange, KeptOK
  <2> QED BY <1>1, <2>1
<1>6. UnreleasedOK(L, b, g, u)
  <2> SUFFICES ASSUME u, NEW i \in b
               PROVE  \E s \in L : s.key = i /\ (IsReq(s) => Q2(s.m) /\ g[s.m] > 0)
    BY DEF UnreleasedOK
  <2>1. PICK s \in K : s.key = i /\ (IsReq(s) => Q2(s.m) /\ g[s.m] > 0)
    BY DEF Exchange, UnreleasedOK
  <2> QED BY <1>1, <2>1
<1>7. ConnectOK(B, L, g, o)
  BY <1>1 DEF Exchange, ConnectOK
<1>8. RequestOK(B, L, b, r, h, u)
  <2> SUFFICES ASSUME NEW i \in 1..Len(B), IsReq(B[i])
               PROVE  /\ \A s \in L : s.key = B[i].id /\ IsReq(s) => s.m = B[i].m
                      /\ Q2(B[i].m) => \E s \in L : s.key = B[i].id
    BY DEF Exchange, RequestOK
  <2>1. \A s \in L : s.key = B[i].id /\ IsReq(s) => s.m = B[i].m
    BY <1>1 DEF Exchange, RequestOK
  <2>2. ASSUME Q2(B[i].m) PROVE \E s \in L : s.key = B[i].id
    <3>1. PICK s \in K : s.key = B[i].id
      BY <2>2 DEF Exchange, RequestOK
    <3> QED BY <1>1, <2>2, <3>1
  <2> QED BY <2>1, <2>2
<1>9. PubrelOK(B, L)
  BY <1>1 DEF Exchange, PubrelOK
<1>10. PubrecOK(C, L, g, o) /\ AckOK(B, C, L, b, g, u)
  BY <1>1 DEF Exchange, PubrecOK, AckOK
<1> QED BY <1>2, <1>3, <1>4, <1>5, <1>6, <1>7, <1>8, <1>9, <1>10 DEF Exchange, L


-----------------------------------------------------------------------------
(* The application makes a request.                                        *)

\* Nothing is known of a request that was not made.
LEMMA NewRequestLemma ==
    ASSUME NEW B, NEW C, NEW K, NEW b, NEW g, NEW r, NEW h, NEW u, NEW o,
           Exchange(B, C, K, b, g, r, h, u, o),
           NEW m \in Msgs, r[m] = "NONE"
    PROVE  /\ Kind[m] # "PUBLISH0" => g[m] = 0
           /\ \A s \in K : IsReq(s) => s.m \in Msgs /\ s.m # m
           /\ \A i \in 1..Len(B) : IsReq(B[i]) => B[i].m \in Msgs /\ B[i].m # m
<1>1. Kind[m] # "PUBLISH0" => g[m] = 0
  <2>1. g[m] \in 0..2
    BY DEF Exchange, ExchangeType
  <2> QED BY <2>1 DEF Exchange, GotOK
<1>2. \A s \in K : IsReq(s) => s.m \in Msgs /\ s.m # m
  <2>1. \A s \in K : s \in Stored
    BY DEF Exchange, ExchangeType
  <2> QED BY <2>1, StoredFacts DEF Exchange, HeldOK
<1>3. \A i \in 1..Len(B) : IsReq(B[i]) => B[i].m \in Msgs /\ B[i].m # m
  <2>1. \A i \in 1..Len(B) : B[i] \in Wire
    BY DEF Exchange, ExchangeType
  <2> QED BY <2>1, WireFacts DEF Exchange, RequestOK
<1> QED BY <1>1, <1>2, <1>3

\* It is answered, and nothing of it is kept: it was rejected, or it is of
\* QoS 0.
LEMMA AnsweredLemma ==
    ASSUME NEW B, NEW C, NEW K, NEW b, NEW g, NEW r, NEW h, NEW u, NEW o,
           Exchange(B, C, K, b, g, r, h, u, o),
           NEW m \in Msgs, r[m] = "NONE",
           NEW q \in [Msgs -> Rcs], NEW k \in [Msgs -> 0..MaxMsgs],
           \A n \in Msgs : n # m => q[n] = r[n] /\ k[n] = h[n],
           q[m] # "NONE", Kind[m] = "PUBLISH0" \/ q[m] # "OK"
    PROVE  Exchange(B, C, K, b, g, q, k, u, o)
<1>1. /\ \A s \in K : IsReq(s) => s.m \in Msgs /\ s.m # m
      /\ \A i \in 1..Len(B) : IsReq(B[i]) => B[i].m \in Msgs /\ B[i].m # m
  BY NewRequestLemma
<1>2. ExchangeType(B, C, K, b, g, q, k, u, o)
  BY DEF Exchange, ExchangeType
<1>3. HeldOK(K, q, k, o)
  BY <1>1 DEF Exchange, HeldOK
<1>4. GotOK(K, b, g, q)
  BY DEF Exchange, GotOK
<1>5. KeptOK(K, g, q, o)
  BY DEF Exchange, KeptOK
<1>6. RequestOK(B, K, b, q, k, u)
  <2> SUFFICES ASSUME NEW i \in 1..Len(B), IsReq(B[i])
               PROVE  q[B[i].m] = "OK" /\ k[B[i].m] = B[i].id
    BY DEF Exchange, RequestOK
  <2>1. r[B[i].m] = "OK" /\ h[B[i].m] = B[i].id
    BY DEF Exchange, RequestOK
  <2> QED BY <1>1, <2>1
<1> QED BY <1>2, <1>3, <1>4, <1>5, <1>6 DEF Exchange

\* It is accepted, and held under an id that is not in use.
LEMMA PutRequestLemma ==
    ASSUME NEW B, NEW C, NEW K, NEW b, NEW g, NEW r, NEW h, NEW u, NEW o,
           Exchange(B, C, K, b, g, r, h, u, o),
           NEW m \in Msgs, r[m] = "NONE", Kind[m] # "PUBLISH0",
           NEW id \in Ids, o.persist => id <= ShortMax,
           \A s \in K : s.key # id,
           \A i \in 1..Len(B) : B[i].id # id,
           \A i \in 1..Len(C) : C[i].id # id
    PROVE  Exchange(B, C, Put(K, id, "REQUEST", m), b, g,
                    [r EXCEPT ![m] = "OK"], [h EXCEPT ![m] = id], u, o)
<1> DEFINE new == [key |-> id, type |-> "REQUEST", m |-> m]
           L == Put(K, id, "REQUEST", m)
           q == [r EXCEPT ![m] = "OK"]
           k == [h EXCEPT ![m] = id]
<1>1. new.key = id /\ IsReq(new) /\ new.m = m
  BY DEF IsReq
<1>2. \A s : s \in L <=> s \in K \/ s = new
  BY DEF Put
<1>3. new \in Stored
  <2>1. id \in Keys
    BY SizesAssumption DEF Ids, Keys, MaxMsgs
  <2> QED BY <2>1 DEF Stored
<1>4. q \in [Msgs -> Rcs] /\ k \in [Msgs -> 0..MaxMsgs]
  BY DEF Exchange, ExchangeType, Rcs, Ids
<1>5. q[m] = "OK" /\ k[m] = id /\ \A n \in Msgs : n # m => q[n] = r[n] /\ k[n] = h[n]
  BY DEF Exchange, ExchangeType
<1>6. /\ g[m] = 0
      /\ \A s \in K : IsReq(s) => s.m \in Msgs /\ s.m # m
      /\ \A i \in 1..Len(B) : IsReq(B[i]) => B[i].m \in Msgs /\ B[i].m # m
  BY NewRequestLemma
<1> HIDE DEF new, L, q, k
<1>7. ExchangeType(B, C, L, b, g, q, k, u, o)
  BY <1>2, <1>3, <1>4 DEF Exchange, ExchangeType
<1>8. HeldOK(L, q, k, o)
  <2>1. \A s, t \in L : s.key = t.key => s = t
    BY <1>1, <1>2 DEF Exchange, HeldOK
  <2>2. \A s \in L : s.key \in Ids /\ (o.persist => s.key <= ShortMax)
    BY <1>1, <1>2 DEF Exchange, HeldOK
  <2>3. \A s \in L : IsReq(s) => q[s.m] = "OK" /\ k[s.m] = s.key /\ Kind[s.m] # "PUBLISH0"
    BY <1>1, <1>2, <1>5, <1>6 DEF Exchange, HeldOK
  <2> QED BY <2>1, <2>2, <2>3 DEF HeldOK
<1>9. GotOK(L, b, g, q)
  BY <1>1, <1>2, <1>5, <1>6 DEF Exchange, GotOK
<1>10. KeptOK(L, g, q, o)
  BY <1>1, <1>2, <1>5 DEF Exchange, KeptOK
<1>11. UnreleasedOK(L, b, g, u)
  BY <1>2 DEF Exchange, UnreleasedOK
<1>12. ConnectOK(B, L, g, o)
  BY <1>1, <1>2, <1>6 DEF Exchange, ConnectOK
<1>13. RequestOK(B, L, b, q, k, u)
  <2> SUFFICES ASSUME NEW i \in 1..Len(B), IsReq(B[i])
               PROVE  /\ q[B[i].m] = "OK" /\ k[B[i].m] = B[i].id
                      /\ \A s \in L : s.key = B[i].id /\ IsReq(s) => s.m = B[i].m
                      /\ Q2(B[i].m) => \E s \in L : s.key = B[i].id
    BY DEF Exchange, RequestOK
  <2>1. /\ r[B[i].m] = "OK" /\ h[B[i].m] = B[i].id
        /\ \A s \in K : s.key = B[i].id /\ IsReq(s) => s.m = B[i].m
        /\ Q2(B[i].m) => \E s \in K : s.key = B[i].id
    BY DEF Exchange, RequestOK
  <2> QED BY <1>1, <1>2, <1>5, <1>6, <2>1
<1>14. PubrelOK(B, L)
  BY <1>1, <1>2 DEF Exchange, PubrelOK
<1>15. PubrecOK(C, L, g, o) /\ AckOK(B, C, L, b, g, u)
  BY <1>1, <1>2 DEF Exchange, PubrecOK, AckOK
<1> QED BY <1>7, <1>8, <1>9, <1>10, <1>11, <1>12, <1>13, <1>14, <1>15
        DEF Exchange, L, q, k


-----------------------------------------------------------------------------
(* The client writes to the socket.                                        *)

\* A request it holds; the first time with no DUP flag.
LEMMA SendRequestLemma ==
    ASSUME NEW B, NEW C, NEW K, NEW b, NEW g, NEW r, NEW h, NEW u, NEW o,
           Exchange(B, C, K, b, g, r, h, u, o),
           NEW w \in Wire, IsReq(w),
           [key |-> w.id, type |-> "REQUEST", m |-> w.m] \in K,
           w.dup \/ (g[w.m] = 0 /\ \A i \in 1..Len(B) : IsReq(B[i]) => B[i].m # w.m)
    PROVE  Exchange(Append(B, w), C, K, b, g, r, h, u, o)
<1> DEFINE D == Append(B, w)
           n == Len(B) + 1
           rec == [key |-> w.id, type |-> "REQUEST", m |-> w.m]
<1>1. /\ D \in Seq(Wire) /\ Len(D) = n /\ Len(B) \in Nat /\ D[n] = w
      /\ \A i \in 1..Len(B) : D[i] = B[i] /\ i < n
  BY AppendFacts DEF Exchange, ExchangeType
<1>2. n \in 1..Len(D) /\ \A i \in 1..Len(D) : i = n \/ i \in 1..Len(B)
  BY <1>1
<1>3. rec \in K /\ rec.key = w.id /\ rec.m = w.m /\ IsReq(rec)
  BY DEF IsReq
<1>4. w.id \in Ids /\ w.m \in Msgs /\ w.dup \in BOOLEAN
  BY WireFacts
<1> HIDE DEF D, n, rec
<1>5. \A s \in K : s.key = w.id => s = rec
  BY <1>3 DEF Exchange, HeldOK
<1>6. r[w.m] = "OK" /\ h[w.m] = w.id /\ Kind[w.m] # "PUBLISH0"
  BY <1>3 DEF Exchange, HeldOK
<1>7. ExchangeType(D, C, K, b, g, r, h, u, o)
  BY <1>1 DEF Exchange, ExchangeType
<1>8. ConnectOK(D, K, g, o)
  <2>1. ASSUME NEW i \in 1..Len(D), D[i].type = "CONNECT"
        PROVE  i \in 1..Len(B) /\ B[i].type = "CONNECT" /\ i = 1
    <3>1. i # n
      BY <1>1, <2>1 DEF IsReq
    <3>2. i \in 1..Len(B) /\ D[i] = B[i]
      BY <1>1, <1>2, <3>1
    <3> QED BY <2>1, <3>2 DEF Exchange, ConnectOK
  <2>2. ASSUME o.cleanStart, \E i \in 1..Len(D) : D[i].type = "CONNECT"
        PROVE  /\ \A s \in K : IsReq(s) => g[s.m] = 0
               /\ \A i \in 1..Len(D) : IsReq(D[i]) => g[D[i].m] = 0
    <3>1. /\ \A s \in K : IsReq(s) => g[s.m] = 0
          /\ \A i \in 1..Len(B) : IsReq(B[i]) => g[B[i].m] = 0
      BY <2>1, <2>2 DEF Exchange, ConnectOK
    <3> QED BY <1>1, <1>2, <1>3, <3>1
  <2> QED BY <2>1, <2>2 DEF ConnectOK
<1>9. RequestOK(D, K, b, r, h, u)
  <2>1. \A i \in 1..Len(B) : IsReq(B[i]) /\ B[i].id = w.id => B[i].m = w.m
    BY <1>3 DEF Exchange, RequestOK
  <2>2. u /\ ~Q2(w.m) => w.id \notin b
    BY <1>3, <1>5 DEF Exchange, UnreleasedOK
  <2> SUFFICES ASSUME NEW i \in 1..Len(D), IsReq(D[i])
               PROVE  /\ r[D[i].m] = "OK" /\ h[D[i].m] = D[i].id /\ Kind[D[i].m] # "PUBLISH0"
                      /\ \A s \in K : s.key = D[i].id /\ IsReq(s) => s.m = D[i].m
                      /\ \A j \in 1..Len(D) : IsReq(D[j]) /\ D[j].id = D[i].id => D[j].m = D[i].m
                      /\ Q2(D[i].m) => \E s \in K : s.key = D[i].id
                      /\ u /\ ~Q2(D[i].m) => D[i].id \notin b
    BY DEF RequestOK
  <2>3. CASE i = n
    <3>1. D[i] = w /\ \A j \in 1..Len(D) : IsReq(D[j]) /\ D[j].id = w.id => D[j].m = w.m
      BY <1>1, <1>2, <2>1, <2>3
    <3>2. \A s \in K : s.key = w.id /\ IsReq(s) => s.m = w.m
      BY <1>3, <1>5
    <3> QED BY <1>3, <1>6, <2>2, <3>1, <3>2
  <2>4. CASE i # n
    <3>1. i \in 1..Len(B) /\ D[i] = B[i] /\ IsReq(B[i])
      BY <1>1, <1>2, <2>4
    <3>2. /\ r[B[i].m] = "OK" /\ h[B[i].m] = B[i].id /\ Kind[B[i].m] # "PUBLISH0"
          /\ \A s \in K : s.key = B[i].id /\ IsReq(s) => s.m = B[i].m
          /\ \A j \in 1..Len(B) : IsReq(B[j]) /\ B[j].id = B[i].id => B[j].m = B[i].m
          /\ Q2(B[i].m) => \E s \in K : s.key = B[i].id
          /\ u /\ ~Q2(B[i].m) => B[i].id \notin b
      BY <3>1 DEF Exchange, RequestOK
    <3>3. \A j \in 1..Len(D) : IsReq(D[j]) /\ D[j].id = B[i].id => D[j].m = B[i].m
      BY <1>1, <1>2, <2>1, <3>1, <3>2
    <3> QED BY <3>1, <3>2, <3>3
  <2> QED BY <2>3, <2>4
<1>10. CopyOK(D, b, g)
  <2>0. Q2(w.m) /\ g[w.m] > 0 => w.id \in b
    BY <1>3 DEF Exchange, GotOK
  <2>1. g[w.m] \in 0..2
    BY <1>4 DEF Exchange, ExchangeType
  <2> SUFFICES ASSUME NEW i \in 1..Len(D), IsReq(D[i]), Q2(D[i].m)
               PROVE  /\ g[D[i].m] > 0 => D[i].dup /\ D[i].id \in b
                      /\ \A j \in 1..Len(D) :
                           j < i /\ IsReq(D[j]) /\ D[j].m = D[i].m => D[i].dup
    BY DEF CopyOK
  <2>2. CASE i = n
    <3>1. D[i] = w
      BY <1>1, <2>2
    <3>2. g[w.m] > 0 => w.dup /\ w.id \in b
      BY <2>0, <2>1, <2>2, <3>1
    <3>3. ASSUME NEW j \in 1..Len(D), j < i, IsReq(D[j]), D[j].m = w.m
          PROVE  w.dup
      <4>1. j \in 1..Len(B) /\ D[j] = B[j]
        BY <1>1, <1>2, <2>2, <3>3
      <4> QED BY <3>3, <4>1
    <3> QED BY <3>1, <3>2, <3>3
  <2>3. CASE i # n
    <3>1. i \in 1..Len(B) /\ D[i] = B[i]
      BY <1>1, <1>2, <2>3
    <3>2. \A j \in 1..Len(D) : j < i => j \in 1..Len(B) /\ D[j] = B[j]
      BY <1>1, <1>2, <3>1
    <3> QED BY <3>1, <3>2 DEF Exchange, CopyOK
  <2> QED BY <2>2, <2>3
<1>11. PubrelOK(D, K)
  <2> SUFFICES ASSUME NEW i \in 1..Len(D), D[i].type = "PUBREL"
               PROVE  /\ \A s \in K : s.key = D[i].id => ~IsReq(s)
                      /\ \A j \in 1..Len(D) : j > i /\ IsReq(D[j]) => D[j].id # D[i].id
    BY DEF PubrelOK
  <2>1. i \in 1..Len(B) /\ D[i] = B[i]
    BY <1>1, <1>2 DEF IsReq
  <2>2. /\ \A s \in K : s.key = B[i].id => ~IsReq(s)
        /\ \A j \in 1..Len(B) : j > i /\ IsReq(B[j]) => B[j].id # B[i].id
    BY <2>1 DEF Exchange, PubrelOK
  <2>3. w.id # B[i].id
    BY <1>3, <2>2
  <2> QED BY <1>1, <1>2, <2>1, <2>2, <2>3
<1>12. Qos0OK(D)
  <2>1. \A i \in 1..Len(D) : D[i].type = "QOS0" => i \in 1..Len(B) /\ D[i] = B[i]
    BY <1>1, <1>2 DEF IsReq
  <2> QED BY <2>1 DEF Exchange, Qos0OK
<1>13. AckOK(D, C, K, b, g, u)
  <2> SUFFICES ASSUME NEW i \in 1..Len(C), C[i].type = "ACK",
                      NEW j \in 1..Len(D), IsReq(D[j]), Q2(D[j].m)
               PROVE  D[j].id # C[i].id
    BY DEF Exchange, AckOK
  <2>1. CASE j = n
    BY <1>1, <1>3, <2>1 DEF Exchange, AckOK
  <2>2. CASE j # n
    <3>1. j \in 1..Len(B) /\ D[j] = B[j]
      BY <1>1, <1>2, <2>2
    <3> QED BY <3>1 DEF Exchange, AckOK
  <2> QED BY <2>1, <2>2
<1> QED BY <1>7, <1>8, <1>9, <1>10, <1>11, <1>12, <1>13 DEF Exchange, D


\* A PUBREL in the place of its publication, or a QoS 0 publication.
LEMMA SendOtherLemma ==
    ASSUME NEW B, NEW C, NEW K, NEW b, NEW g, NEW r, NEW h, NEW u, NEW o,
           Exchange(B, C, K, b, g, r, h, u, o),
           NEW w \in Wire, w.type \in {"PUBREL", "QOS0"},
           w.type = "PUBREL" => \A s \in K : s.key = w.id => ~IsReq(s),
           w.type = "QOS0" => Kind[w.m] = "PUBLISH0"
    PROVE  Exchange(Append(B, w), C, K, b, g, r, h, u, o)
<1> DEFINE D == Append(B, w)
           n == Len(B) + 1
<1>1. /\ D \in Seq(Wire) /\ Len(D) = n /\ Len(B) \in Nat /\ D[n] = w
      /\ \A i \in 1..Len(B) : D[i] = B[i] /\ i < n
  BY AppendFacts DEF Exchange, ExchangeType
<1>2. n \in 1..Len(D) /\ \A i \in 1..Len(D) : i = n \/ i \in 1..Len(B)
  BY <1>1
<1>3. ~IsReq(w) /\ w.type # "CONNECT"
  BY DEF IsReq
<1> HIDE DEF D, n
<1>4. \A i \in 1..Len(D) : IsReq(D[i]) \/ D[i].type = "CONNECT" =>
        i \in 1..Len(B) /\ D[i] = B[i]
  BY <1>1, <1>2, <1>3
<1>5. ExchangeType(D, C, K, b, g, r, h, u, o)
  BY <1>1 DEF Exchange, ExchangeType
<1>6. ConnectOK(D, K, g, o)
  <2>1. \A i \in 1..Len(D) : D[i].type = "CONNECT" => i = 1 /\ i \in 1..Len(B) /\ B[i].type = "CONNECT"
    BY <1>4 DEF Exchange, ConnectOK
  <2>2. ASSUME o.cleanStart, \E i \in 1..Len(D) : D[i].type = "CONNECT"
        PROVE  /\ \A s \in K : IsReq(s) => g[s.m] = 0
               /\ \A i \in 1..Len(D) : IsReq(D[i]) => g[D[i].m] = 0
    <3>1. /\ \A s \in K : IsReq(s) => g[s.m] = 0
          /\ \A i \in 1..Len(B) : IsReq(B[i]) => g[B[i].m] = 0
      BY <2>1, <2>2 DEF Exchange, ConnectOK
    <3> QED BY <1>4, <3>1
  <2> QED BY <2>1, <2>2 DEF ConnectOK
<1>7. RequestOK(D, K, b, r, h, u)
  <2> SUFFICES ASSUME NEW i \in 1..Len(D), IsReq(D[i])
               PROVE  /\ r[D[i].m] = "OK" /\ h[D[i].m] = D[i].id /\ Kind[D[i].m] # "PUBLISH0"
                      /\ \A s \in K : s.key = D[i].id /\ IsReq(s) => s.m = D[i].m
                      /\ \A j \in 1..Len(D) : IsReq(D[j]) /\ D[j].id = D[i].id => D[j].m = D[i].m
                      /\ Q2(D[i].m) => \E s \in K : s.key = D[i].id
                      /\ u /\ ~Q2(D[i].m) => D[i].id \notin b
    BY DEF RequestOK
  <2>1. i \in 1..Len(B) /\ D[i] = B[i]
    BY <1>4
  <2>2. /\ r[B[i].m] = "OK" /\ h[B[i].m] = B[i].id /\ Kind[B[i].m] # "PUBLISH0"
        /\ \A s \in K : s.key = B[i].id /\ IsReq(s) => s.m = B[i].m
        /\ \A j \in 1..Len(B) : IsReq(B[j]) /\ B[j].id = B[i].id => B[j].m = B[i].m
        /\ Q2(B[i].m) => \E s \in K : s.key = B[i].id
        /\ u /\ ~Q2(B[i].m) => B[i].id \notin b
    BY <2>1 DEF Exchange, RequestOK
  <2>3. \A j \in 1..Len(D) : IsReq(D[j]) /\ D[j].id = B[i].id => D[j].m = B[i].m
    BY <1>4, <2>2
  <2> QED BY <2>1, <2>2, <2>3
<1>8. CopyOK(D, b, g)
  BY <1>4 DEF Exchange, CopyOK
<1>9. PubrelOK(D, K)
  <2> SUFFICES ASSUME NEW i \in 1..Len(D), D[i].type = "PUBREL"
               PROVE  /\ \A s \in K : s.key = D[i].id => ~IsReq(s)
                      /\ \A j \in 1..Len(D) : j > i /\ IsReq(D[j]) => D[j].id # D[i].id
    BY DEF PubrelOK
  <2>1. CASE i = n
    <3>1. \A j \in 1..Len(D) : IsReq(D[j]) => ~(j > n)
      BY <1>1, <1>4
    <3> QED BY <1>1, <2>1, <3>1
  <2>2. CASE i # n
    <3>1. i \in 1..Len(B) /\ D[i] = B[i]
      BY <1>1, <1>2, <2>2
    <3> QED BY <1>4, <3>1 DEF Exchange, PubrelOK
  <2> QED BY <2>1, <2>2
<1>10. Qos0OK(D)
  BY <1>1, <1>2 DEF Exchange, Qos0OK
<1>11. AckOK(D, C, K, b, g, u)
  BY <1>4 DEF Exchange, AckOK
<1> QED BY <1>5, <1>6, <1>7, <1>8, <1>9, <1>10, <1>11 DEF Exchange, D


-----------------------------------------------------------------------------
(* The broker.                                                             *)

\* A message to the broker is taken.
LEMMA TakeLemma ==
    ASSUME NEW B, NEW C, NEW K, NEW b, NEW g, NEW r, NEW h, NEW u, NEW o,
           Exchange(B, C, K, b, g, r, h, u, o), B # <<>>
    PROVE  /\ Exchange(Tail(B), C, K, b, g, r, h, u, o)
           /\ \A i \in 1..Len(Tail(B)) : Tail(B)[i].type # "CONNECT"
<1> DEFINE D == Tail(B)
<1>1. /\ D \in Seq(Wire) /\ Len(B) \in Nat /\ Len(D) = Len(B) - 1
      /\ \A i \in 1..Len(D) : i + 1 \in 1..Len(B) /\ 1 < i + 1 /\ D[i] = B[i + 1]
  BY TailFacts DEF Exchange, ExchangeType
<1> HIDE DEF D
<1>2. ExchangeType(D, C, K, b, g, r, h, u, o)
  BY <1>1 DEF Exchange, ExchangeType
<1>3. \A i \in 1..Len(D) : D[i].type # "CONNECT"
  BY <1>1 DEF Exchange, ConnectOK
<1>4. ConnectOK(D, K, g, o)
  BY <1>3 DEF ConnectOK
<1>5. RequestOK(D, K, b, r, h, u)
  <2> SUFFICES ASSUME NEW i \in 1..Len(D), IsReq(D[i])
               PROVE  /\ r[D[i].m] = "OK" /\ h[D[i].m] = D[i].id /\ Kind[D[i].m] # "PUBLISH0"
                      /\ \A s \in K : s.key = D[i].id /\ IsReq(s) => s.m = D[i].m
                      /\ \A j \in 1..Len(D) : IsReq(D[j]) /\ D[j].id = D[i].id => D[j].m = D[i].m
                      /\ Q2(D[i].m) => \E s \in K : s.key = D[i].id
                      /\ u /\ ~Q2(D[i].m) => D[i].id \notin b
    BY DEF RequestOK
  <2>1. i + 1 \in 1..Len(B) /\ D[i] = B[i + 1]
    BY <1>1
  <2>2. /\ r[D[i].m] = "OK" /\ h[D[i].m] = D[i].id /\ Kind[D[i].m] # "PUBLISH0"
        /\ \A s \in K : s.key = D[i].id /\ IsReq(s) => s.m = D[i].m
        /\ \A j \in 1..Len(B) : IsReq(B[j]) /\ B[j].id = D[i].id => B[j].m = D[i].m
        /\ Q2(D[i].m) => \E s \in K : s.key = D[i].id
        /\ u /\ ~Q2(D[i].m) => D[i].id \notin b
    BY <2>1 DEF Exchange, RequestOK
  <2> QED BY <1>1, <2>2
<1>6. CopyOK(D, b, g)
  <2> SUFFICES ASSUME NEW i \in 1..Len(D), IsReq(D[i]), Q2(D[i].m)
               PROVE  /\ g[D[i].m] > 0 => D[i].dup /\ D[i].id \in b
                      /\ \A j \in 1..Len(D) :
                           j < i /\ IsReq(D[j]) /\ D[j].m = D[i].m => D[i].dup
    BY DEF CopyOK
  <2>1. i + 1 \in 1..Len(B) /\ D[i] = B[i + 1]
    BY <1>1
  <2>2. /\ g[D[i].m] > 0 => D[i].dup /\ D[i].id \in b
        /\ \A j \in 1..Len(B) : j < i + 1 /\ IsReq(B[j]) /\ B[j].m = D[i].m => D[i].dup
    BY <2>1 DEF Exchange, CopyOK
  <2>3. \A j \in 1..Len(D) : j < i => j + 1 \in 1..Len(B) /\ j + 1 < i + 1 /\ D[j] = B[j + 1]
    BY <1>1
  <2> QED BY <2>2, <2>3
<1>7. PubrelOK(D, K)
  <2> SUFFICES ASSUME NEW i \in 1..Len(D), D[i].type = "PUBREL"
               PROVE  /\ \A s \in K : s.key = D[i].id => ~IsReq(s)
                      /\ \A j \in 1..Len(D) : j > i /\ IsReq(D[j]) => D[j].id # D[i].id
    BY DEF PubrelOK
  <2>1. i + 1 \in 1..Len(B) /\ D[i] = B[i + 1]
    BY <1>1
  <2>2. /\ \A s \in K : s.key = D[i].id => ~IsReq(s)
        /\ \A j \in 1..Len(B) : j > i + 1 /\ IsReq(B[j]) => B[j].id # D[i].id
    BY <2>1 DEF Exchange, PubrelOK
  <2>3. \A j \in 1..Len(D) : j > i => j + 1 \in 1..Len(B) /\ j + 1 > i + 1 /\ D[j] = B[j + 1]
    BY <1>1
  <2> QED BY <2>2, <2>3
<1>8. Qos0OK(D)
  BY <1>1 DEF Exchange, Qos0OK
<1>9. AckOK(D, C, K, b, g, u)
  BY <1>1 DEF Exchange, AckOK
<1> QED BY <1>2, <1>3, <1>4, <1>5, <1>6, <1>7, <1>8, <1>9 DEF Exchange, D

\* What the broker can rely on when it has taken a CONNECT or a PUBREL.
LEMMA TakeOtherFacts ==
    ASSUME NEW B, NEW C, NEW K, NEW b, NEW g, NEW r, NEW h, NEW u, NEW o,
           Exchange(B, C, K, b, g, r, h, u, o), B # <<>>
    PROVE  /\ Head(B).type = "CONNECT" /\ o.cleanStart =>
                /\ \A s \in K : IsReq(s) => g[s.m] = 0
                /\ \A i \in 1..Len(Tail(B)) : IsReq(Tail(B)[i]) => g[Tail(B)[i].m] = 0
           /\ Head(B).type = "PUBREL" =>
                /\ Head(B).id \in Ids
                /\ \A s \in K : s.key = Head(B).id => ~IsReq(s)
                /\ \A i \in 1..Len(Tail(B)) : IsReq(Tail(B)[i]) => Tail(B)[i].id # Head(B).id
           /\ Head(B).type = "QOS0" => Head(B).m \in Msgs /\ Kind[Head(B).m] = "PUBLISH0"
<1> DEFINE D == Tail(B)
           w == Head(B)
<1>1. /\ w \in Wire /\ 1 \in 1..Len(B) /\ B[1] = w
      /\ \A i \in 1..Len(D) : i + 1 \in 1..Len(B) /\ 1 < i + 1 /\ D[i] = B[i + 1]
  BY TailFacts DEF Exchange, ExchangeType
<1> HIDE DEF D, w
<1>2. ASSUME w.type = "CONNECT", o.cleanStart
      PROVE  /\ \A s \in K : IsReq(s) => g[s.m] = 0
             /\ \A i \in 1..Len(D) : IsReq(D[i]) => g[D[i].m] = 0
  <2>1. \E i \in 1..Len(B) : B[i].type = "CONNECT"
    BY <1>1, <1>2
  <2>2. /\ \A s \in K : IsReq(s) => g[s.m] = 0
        /\ \A i \in 1..Len(B) : IsReq(B[i]) => g[B[i].m] = 0
    BY <1>2, <2>1 DEF Exchange, ConnectOK
  <2> QED BY <1>1, <2>2
<1>3. ASSUME w.type = "PUBREL"
      PROVE  /\ w.id \in Ids
             /\ \A s \in K : s.key = w.id => ~IsReq(s)
             /\ \A i \in 1..Len(D) : IsReq(D[i]) => D[i].id # w.id
  <2>1. w.id \in Ids
    BY <1>1, <1>3, WireFacts
  <2>2. /\ \A s \in K : s.key = w.id => ~IsReq(s)
        /\ \A j \in 1..Len(B) : j > 1 /\ IsReq(B[j]) => B[j].id # w.id
    BY <1>1, <1>3 DEF Exchange, PubrelOK
  <2>3. \A i \in 1..Len(D) : i + 1 \in 1..Len(B) /\ i + 1 > 1 /\ D[i] = B[i + 1]
    BY <1>1
  <2> QED BY <2>1, <2>2, <2>3
<1>4. w.type = "QOS0" => w.m \in Msgs /\ Kind[w.m] = "PUBLISH0"
  BY <1>1, WireFacts DEF Exchange, Qos0OK
<1> QED BY <1>2, <1>3, <1>4 DEF D, w

\* And when it has taken a request.
LEMMA TakeRequestFacts ==
    ASSUME NEW B, NEW C, NEW K, NEW b, NEW g, NEW r, NEW h, NEW u, NEW o,
           Exchange(B, C, K, b, g, r, h, u, o), B # <<>>, IsReq(Head(B))
    PROVE  LET w == Head(B)
               D == Tail(B)
           IN  /\ w.id \in Ids /\ w.m \in Msgs /\ w.dup \in BOOLEAN
               /\ r[w.m] = "OK" /\ h[w.m] = w.id /\ Kind[w.m] # "PUBLISH0"
               /\ \A s \in K : s.key = w.id /\ IsReq(s) => s.m = w.m
               /\ \A i \in 1..Len(D) : IsReq(D[i]) =>
                    /\ D[i].id = w.id <=> D[i].m = w.m
                    /\ Q2(w.m) /\ D[i].m = w.m => D[i].dup
               /\ Q2(w.m) =>
                    /\ \E s \in K : s.key = w.id
                    /\ g[w.m] > 0 => w.dup /\ w.id \in b
                    /\ \A i \in 1..Len(C) : C[i].type = "ACK" => C[i].id # w.id
               /\ u /\ ~Q2(w.m) => w.id \notin b
<1> DEFINE D == Tail(B)
           w == Head(B)
<1>1. /\ w \in Wire /\ 1 \in 1..Len(B) /\ B[1] = w
      /\ \A i \in 1..Len(D) : i + 1 \in 1..Len(B) /\ 1 < i + 1 /\ D[i] = B[i + 1]
  BY TailFacts DEF Exchange, ExchangeType
<1>2. IsReq(w)
  OBVIOUS
<1> HIDE DEF D, w
<1>3. w.id \in Ids /\ w.m \in Msgs /\ w.dup \in BOOLEAN
  BY <1>1, <1>2, WireFacts
<1>4. /\ r[w.m] = "OK" /\ h[w.m] = w.id /\ Kind[w.m] # "PUBLISH0"
      /\ \A s \in K : s.key = w.id /\ IsReq(s) => s.m = w.m
      /\ \A j \in 1..Len(B) : IsReq(B[j]) /\ B[j].id = w.id => B[j].m = w.m
      /\ Q2(w.m) => \E s \in K : s.key = w.id
      /\ u /\ ~Q2(w.m) => w.id \notin b
  BY <1>1, <1>2 DEF Exchange, RequestOK
<1>5. ASSUME NEW i \in 1..Len(D), IsReq(D[i])
      PROVE  /\ D[i].id = w.id <=> D[i].m = w.m
             /\ Q2(w.m) /\ D[i].m = w.m => D[i].dup
  <2>1. i + 1 \in 1..Len(B) /\ 1 < i + 1 /\ D[i] = B[i + 1]
    BY <1>1
  <2>2. h[D[i].m] = D[i].id
    BY <1>5, <2>1 DEF Exchange, RequestOK
  <2>3. D[i].id = w.id <=> D[i].m = w.m
    BY <1>4, <1>5, <2>1, <2>2
  <2>4. ASSUME Q2(w.m), D[i].m = w.m PROVE D[i].dup
    BY <1>1, <1>2, <1>5, <2>1, <2>4 DEF Exchange, CopyOK
  <2> QED BY <2>3, <2>4
<1>6. Q2(w.m) /\ g[w.m] > 0 => w.dup /\ w.id \in b
  BY <1>1, <1>2 DEF Exchange, CopyOK
<1>7. Q2(w.m) => \A i \in 1..Len(C) : C[i].type = "ACK" => C[i].id # w.id
  BY <1>1, <1>2 DEF Exchange, AckOK
<1> QED BY <1>3, <1>4, <1>5, <1>6, <1>7 DEF D, w


\* A CONNECT that asks for a clean start is accepted: the broker forgets the
\* session, and knows only the new one.
LEMMA CleanLemma ==
    ASSUME NEW B, NEW C, NEW K, NEW b, NEW g, NEW r, NEW h, NEW u, NEW o,
           Exchange(B, C, K, b, g, r, h, u, o),
           \A s \in K : IsReq(s) => g[s.m] = 0,
           \A i \in 1..Len(B) : IsReq(B[i]) => g[B[i].m] = 0,
           NEW v \in BOOLEAN
    PROVE  Exchange(B, C, K, {}, g, r, h, v, o)
<1>1. ExchangeType(B, C, K, {}, g, r, h, v, o)
  BY DEF Exchange, ExchangeType
<1>2. GotOK(K, {}, g, r)
  BY DEF Exchange, GotOK
<1>3. UnreleasedOK(K, {}, g, v)
  BY DEF UnreleasedOK
<1>4. RequestOK(B, K, {}, r, h, v)
  BY DEF Exchange, RequestOK
<1>5. CopyOK(B, {}, g)
  BY DEF Exchange, CopyOK
<1>6. AckOK(B, C, K, {}, g, v)
  BY DEF Exchange, AckOK
<1> QED BY <1>1, <1>2, <1>3, <1>4, <1>5, <1>6 DEF Exchange

\* The broker answers.
LEMMA AnswerLemma ==
    ASSUME NEW B, NEW C, NEW K, NEW b, NEW g, NEW r, NEW h, NEW u, NEW o,
           Exchange(B, C, K, b, g, r, h, u, o), NEW a \in Answer,
           a.type = "PUBREC" => \A s \in K : s.key = a.id /\ IsReq(s) =>
             Q2(s.m) /\ (o.persist => g[s.m] > 0),
           a.type = "ACK" =>
             /\ \A s \in K : s.key = a.id /\ IsReq(s) => ~Q2(s.m) /\ g[s.m] > 0
             /\ \A j \in 1..Len(B) : IsReq(B[j]) /\ Q2(B[j].m) => B[j].id # a.id
             /\ u => a.id \notin b
    PROVE  Exchange(B, Append(C, a), K, b, g, r, h, u, o)
<1> DEFINE D == Append(C, a)
           n == Len(C) + 1
<1>1. /\ D \in Seq(Answer) /\ Len(D) = n /\ Len(C) \in Nat /\ D[n] = a
      /\ \A i \in 1..Len(C) : D[i] = C[i]
  BY AppendFacts DEF Exchange, ExchangeType
<1>2. \A i \in 1..Len(D) : D[i] = a \/ (i \in 1..Len(C) /\ D[i] = C[i])
  BY <1>1
<1> HIDE DEF D, n
<1>3. ExchangeType(B, D, K, b, g, r, h, u, o)
  BY <1>1 DEF Exchange, ExchangeType
<1>4. PubrecOK(D, K, g, o)
  BY <1>2 DEF Exchange, PubrecOK
<1>5. AckOK(B, D, K, b, g, u)
  BY <1>2 DEF Exchange, AckOK
<1> QED BY <1>3, <1>4, <1>5 DEF Exchange, D

\* The broker acts on a request that is not a QoS 2 publication.
LEMMA ActPlainLemma ==
    ASSUME NEW B, NEW C, NEW K, NEW b, NEW g, NEW r, NEW h, NEW u, NEW o,
           Exchange(B, C, K, b, g, r, h, u, o),
           \A i \in 1..Len(B) : B[i].type # "CONNECT",
           NEW m \in Msgs, ~Q2(m), Kind[m] = "PUBLISH0" \/ r[m] # "NONE",
           NEW q \in [Msgs -> 0..2], q[m] > 0, \A n \in Msgs : n # m => q[n] = g[n]
    PROVE  Exchange(B, C, K, b, q, r, h, u, o)
<1>1. \A n \in Msgs : Q2(n) => q[n] = g[n]
  OBVIOUS
<1>2. \A n \in Msgs : q[n] = g[n] \/ (n = m /\ q[n] > 0)
  OBVIOUS
<1>3. \A n \in Msgs : /\ g[n] > 0 => q[n] > 0
                      /\ q[n] = 0 => g[n] = 0
  BY <1>2
<1>4. /\ \A s \in K : IsReq(s) => s.m \in Msgs
      /\ \A i \in 1..Len(B) : IsReq(B[i]) => B[i].m \in Msgs
  BY WireFacts, StoredFacts DEF Exchange, ExchangeType
<1>5. ExchangeType(B, C, K, b, q, r, h, u, o)
  BY DEF Exchange, ExchangeType
<1>6. GotOK(K, b, q, r)
  BY <1>1, <1>2, <1>4 DEF Exchange, GotOK
<1>7. KeptOK(K, q, r, o)
  BY <1>3 DEF Exchange, KeptOK
<1>8. UnreleasedOK(K, b, q, u)
  <2> SUFFICES ASSUME u, NEW i \in b
               PROVE  \E s \in K : s.key = i /\ (IsReq(s) => Q2(s.m) /\ q[s.m] > 0)
    BY DEF UnreleasedOK
  <2>1. PICK s \in K : s.key = i /\ (IsReq(s) => Q2(s.m) /\ g[s.m] > 0)
    BY DEF Exchange, UnreleasedOK
  <2> QED BY <1>3, <1>4, <2>1
<1>9. ConnectOK(B, K, q, o)
  BY DEF Exchange, ConnectOK
<1>10. CopyOK(B, b, q)
  BY <1>1, <1>4 DEF Exchange, CopyOK
<1>11. PubrecOK(C, K, q, o) /\ AckOK(B, C, K, b, q, u)
  BY <1>3, <1>4 DEF Exchange, PubrecOK, AckOK
<1> QED BY <1>5, <1>6, <1>7, <1>8, <1>9, <1>10, <1>11 DEF Exchange

\* The broker acts on a QoS 2 publication, and remembers its id.
LEMMA ActOnceLemma ==
    ASSUME NEW B, NEW C, NEW K, NEW b, NEW g, NEW r, NEW h, NEW u, NEW o,
           Exchange(B, C, K, b, g, r, h, u, o),
           \A i \in 1..Len(B) : B[i].type # "CONNECT",
           NEW m \in Msgs, Q2(m), r[m] = "OK", NEW id \in Ids, h[m] = id,
           \A s \in K : s.key = id /\ IsReq(s) => s.m = m,
           \E s \in K : s.key = id,
           \A i \in 1..Len(B) : IsReq(B[i]) =>
             (B[i].id = id <=> B[i].m = m) /\ (B[i].m = m => B[i].dup),
           \A i \in 1..Len(C) : C[i].type = "ACK" => C[i].id # id,
           NEW q \in [Msgs -> 0..2], q[m] = 1, \A n \in Msgs : n # m => q[n] = g[n]
    PROVE  Exchange(B, C, K, b \cup {id}, q, r, h, u, o)
<1> DEFINE c == b \cup {id}
<1>1. \A n \in Msgs : q[n] = g[n] \/ (n = m /\ q[n] > 0)
  OBVIOUS
<1>2. \A n \in Msgs : /\ g[n] > 0 => q[n] > 0
                      /\ q[n] = 0 => g[n] = 0
  BY <1>1
<1>3. /\ \A s \in K : IsReq(s) => s.m \in Msgs
      /\ \A i \in 1..Len(B) : IsReq(B[i]) => B[i].m \in Msgs
  BY WireFacts, StoredFacts DEF Exchange, ExchangeType
<1>4. \A i : i \in c <=> i \in b \/ i = id
  OBVIOUS
<1> HIDE DEF c
<1>5. ExchangeType(B, C, K, c, q, r, h, u, o)
  BY <1>4 DEF Exchange, ExchangeType
<1>6. GotOK(K, c, q, r)
  <2>1. \A n \in Msgs : Q2(n) => q[n] <= 1
    BY <1>1 DEF Exchange, GotOK
  <2>2. \A n \in Msgs : Kind[n] # "PUBLISH0" /\ q[n] > 0 => r[n] # "NONE"
    BY <1>1 DEF Exchange, GotOK
  <2>3. ASSUME NEW s \in K, IsReq(s), Q2(s.m), q[s.m] > 0 PROVE s.key \in c
    <3>1. CASE s.m = m
      BY <1>4, <2>3, <3>1 DEF Exchange, HeldOK
    <3>2. CASE s.m # m
      BY <1>1, <1>3, <1>4, <2>3, <3>2 DEF Exchange, GotOK
    <3> QED BY <3>1, <3>2
  <2> QED BY <2>1, <2>2, <2>3 DEF GotOK
<1>7. KeptOK(K, q, r, o)
  BY <1>2 DEF Exchange, KeptOK
<1>8. UnreleasedOK(K, c, q, u)
  <2> SUFFICES ASSUME u, NEW i \in c
               PROVE  \E s \in K : s.key = i /\ (IsReq(s) => Q2(s.m) /\ q[s.m] > 0)
    BY DEF UnreleasedOK
  <2>1. CASE i = id
    <3>1. PICK s \in K : s.key = id
      OBVIOUS
    <3> QED BY <2>1, <3>1
  <2>2. CASE i # id
    <3>1. PICK s \in K : s.key = i /\ (IsReq(s) => Q2(s.m) /\ g[s.m] > 0)
      BY <1>4, <2>2 DEF Exchange, UnreleasedOK
    <3> QED BY <1>2, <1>3, <3>1
  <2> QED BY <2>1, <2>2
<1>9. ConnectOK(B, K, q, o)
  BY DEF Exchange, ConnectOK
<1>10. RequestOK(B, K, c, r, h, u)
  <2> SUFFICES ASSUME NEW i \in 1..Len(B), IsReq(B[i]), u, ~Q2(B[i].m)
               PROVE  B[i].id \notin c
    BY DEF Exchange, RequestOK
  <2>1. B[i].id \notin b
    BY DEF Exchange, RequestOK
  <2> QED BY <1>4, <2>1
<1>11. CopyOK(B, c, q)
  <2> SUFFICES ASSUME NEW i \in 1..Len(B), IsReq(B[i]), Q2(B[i].m)
               PROVE  /\ q[B[i].m] > 0 => B[i].dup /\ B[i].id \in c
                      /\ \A j \in 1..Len(B) :
                           j < i /\ IsReq(B[j]) /\ B[j].m = B[i].m => B[i].dup
    BY DEF CopyOK
  <2>1. /\ g[B[i].m] > 0 => B[i].dup /\ B[i].id \in b
        /\ \A j \in 1..Len(B) :
             j < i /\ IsReq(B[j]) /\ B[j].m = B[i].m => B[i].dup
    BY DEF Exchange, CopyOK
  <2>2. CASE B[i].m = m
    BY <1>4, <2>1, <2>2
  <2>3. CASE B[i].m # m
    BY <1>1, <1>3, <1>4, <2>1, <2>3
  <2> QED BY <2>2, <2>3
<1>12. PubrecOK(C, K, q, o)
  BY <1>2, <1>3 DEF Exchange, PubrecOK
<1>13. AckOK(B, C, K, c, q, u)
  BY <1>2, <1>3, <1>4 DEF Exchange, AckOK
<1> QED BY <1>5, <1>6, <1>7, <1>8, <1>9, <1>10, <1>11, <1>12, <1>13 DEF Exchange, c

\* The broker releases an id.
LEMMA ReleaseLemma ==
    ASSUME NEW B, NEW C, NEW K, NEW b, NEW g, NEW r, NEW h, NEW u, NEW o,
           Exchange(B, C, K, b, g, r, h, u, o), NEW id \in Ids,
           \A s \in K : s.key = id => ~IsReq(s),
           \A i \in 1..Len(B) : IsReq(B[i]) => B[i].id # id
    PROVE  Exchange(B, C, K, b \ {id}, g, r, h, u, o)
<1> DEFINE c == b \ {id}
<1>1. \A i : i \in c <=> i \in b /\ i # id
  OBVIOUS
<1> HIDE DEF c
<1>2. ExchangeType(B, C, K, c, g, r, h, u, o)
  BY <1>1 DEF Exchange, ExchangeType
<1>3. GotOK(K, c, g, r)
  BY <1>1 DEF Exchange, GotOK
<1>4. UnreleasedOK(K, c, g, u)
  BY <1>1 DEF Exchange, UnreleasedOK
<1>5. RequestOK(B, K, c, r, h, u)
  BY <1>1 DEF Exchange, RequestOK
<1>6. CopyOK(B, c, g)
  BY <1>1 DEF Exchange, CopyOK
<1>7. AckOK(B, C, K, c, g, u)
  BY <1>1 DEF Exchange, AckOK
<1> QED BY <1>2, <1>3, <1>4, <1>5, <1>6, <1>7 DEF Exchange, c
=============================================================================
