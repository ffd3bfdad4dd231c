--------------------------- MODULE InboundProofs ---------------------------
(***************************************************************************)
(* Proofs about the receiving half for every value of the constants: any   *)
(* number of publications, ids, cells, faults and restarts.                *)
(*                                                                         *)
(* Two hypotheses say when an rcvId identifies a publication.  Without     *)
(* persistence no rcvId is given out, and mspDeletePublication can delete  *)
(* a QoS 2 publication that waits for its PUBREL in place of another       *)
(* (Identified excludes it); and the rcvId must not wrap at 0xFFFFFFFF     *)
(* (NoWrap), since mspStorePublication does not look for one in use.       *)
(***************************************************************************)
EXTENDS Inbound, LinkedListProofs

Identified == Persist \/ \A p \in Pubs : Qos[p] < 2

NoWrap == nextRcvId < RcvMax

-----------------------------------------------------------------------------
(* What holds at any time between the broker, the messages in flight and   *)
(* the persistence store of the client, and that no single effect of a     *)
(* step breaks it.  Every lemma of this part is about constants: what is   *)
(* in flight to the client (T) and to the broker (B), the store (S), what  *)
(* the application has received (d), the phases (ph), the ids (ids), and   *)
(* the options (o).                                                        *)

IsPublish(m) == m.type = "PUBLISH"

Owns(ph, ids, q, id) == ph[q] \in {"sent", "rel"} /\ ids[q] = id

\* The application has received p, or could: p is in the store, released.
Released(S, d, p) == d[p] > 0 \/ \E s \in S : s.p = p /\ s.readyToPublish

\* The application has received p, or the store has it.
Held(S, d, p) == d[p] > 0 \/ \E s \in S : s.p = p

ExchangeType(T, B, S, d, ph, ids, o) ==
    /\ T \in Seq(ToClient) /\ B \in Seq(ToBroker)
    /\ S \subseteq Stored
    /\ d \in [Pubs -> 0..2]
    /\ ph \in [Pubs -> Phases] /\ ids \in [Pubs -> MsgIds \cup {0}]
    /\ o \in Options

\* An id belongs to one publication in flight, of QoS 1 or 2.
IdsOK(ph, ids) ==
    /\ \A p, q \in Pubs : ph[q] \in {"sent", "rel"} /\ Owns(ph, ids, p, ids[q]) => p = q
    /\ \A p \in Pubs : ph[p] \in {"sent", "rel"} => ids[p] \in MsgIds /\ Qos[p] > 0
    /\ \A p \in Pubs : ph[p] = "rel" => Qos[p] = 2

\* A message in flight to the client names the publication that owns its id,
\* or an id nobody owns; a first PUBLISH is of a publication not in the store.
ClientOK(T, S, ph, ids) ==
    \A i \in 1..Len(T) :
      /\ IsPublish(T[i]) =>
           /\ Qos[T[i].p] > 0 <=> T[i].id # 0
           /\ \A q \in Pubs : Owns(ph, ids, q, T[i].id) => q = T[i].p
           /\ Qos[T[i].p] = 2 => Owns(ph, ids, T[i].p, T[i].id)
           /\ Qos[T[i].p] = 2 /\ ~T[i].dup => \A s \in S : s.p # T[i].p
      /\ ~IsPublish(T[i]) =>
           \A q \in Pubs : Owns(ph, ids, q, T[i].id) => ph[q] = "rel"

\* No PUBLISH follows the PUBREL of its id; one that follows another is marked DUP.
OrderOK(T) ==
    \A i, j \in 1..Len(T) : i < j /\ IsPublish(T[j]) =>
      /\ ~IsPublish(T[i]) => T[i].id # T[j].id
      /\ IsPublish(T[i]) /\ T[i].p = T[j].p /\ Qos[T[i].p] = 2 => T[j].dup

\* An answer in flight is one the owner of its id waits for; after a PUBCOMP
\* nothing is on its way, and nothing waits in the store, to be released.
BrokerOK(T, B, S, ph, ids) ==
    \A i \in 1..Len(B) :
      /\ B[i].type = "PUBACK" => \A q \in Pubs : Owns(ph, ids, q, B[i].id) => Qos[q] = 1
      /\ B[i].type = "PUBREC" => \A q \in Pubs : Owns(ph, ids, q, B[i].id) => Qos[q] = 2
      /\ B[i].type = "PUBCOMP" =>
           /\ \A q \in Pubs : Owns(ph, ids, q, B[i].id) => ph[q] = "rel"
           /\ \A j \in 1..Len(T) : IsPublish(T[j]) => T[j].id # B[i].id
           /\ \A s \in S : ~s.readyToPublish => s.id # B[i].id

\* A record that waits for its PUBREL belongs to a publication in flight; a QoS 2
\* publication has one record.
RecordsOK(S, ph, ids) ==
    /\ \A s \in S : Qos[s.p] > 0
    /\ \A s \in S : ~s.readyToPublish => Qos[s.p] = 2 /\ Owns(ph, ids, s.p, s.id)
    /\ \A s, t \in S : s.p = t.p /\ Qos[s.p] = 2 => s = t

\* What was released stays so: the broker has seen the PUBREC and does not
\* send the publication again.
ReleasedOK(T, S, d, ph) ==
    \A p \in Pubs : Qos[p] = 2 /\ Released(S, d, p) =>
      /\ ph[p] \in {"rel", "done", "dropped"}
      /\ \A i \in 1..Len(T) : IsPublish(T[i]) => T[i].p # p

\* A QoS 2 publication that the application has received is gone from the store.
OnceOK(S, d, o) ==
    ~o.storeFails => \A p \in Pubs : Qos[p] = 2 =>
      d[p] <= 1 /\ (d[p] > 0 => \A s \in S : s.p # p)

\* With persistence the broker is answered, or on the way to be, only for what
\* the store holds or the application has received.
AnsweredOK(B, S, d, ph, ids, o) ==
    o.persist /\ ~o.cleanStart =>
      /\ \A p \in Pubs : Qos[p] > 0 =>
           /\ ph[p] \in {"rel", "done"} => Held(S, d, p)
           /\ ph[p] = "done" => Released(S, d, p)
      /\ \A i \in 1..Len(B) : \A q \in Pubs : Owns(ph, ids, q, B[i].id) =>
           /\ Held(S, d, q)
           /\ B[i].type = "PUBCOMP" => Released(S, d, q)

Exchange(T, B, S, d, ph, ids, o) ==
    /\ ExchangeType(T, B, S, d, ph, ids, o)
    /\ IdsOK(ph, ids)
    /\ ClientOK(T, S, ph, ids)
    /\ OrderOK(T)
    /\ BrokerOK(T, B, S, ph, ids)
    /\ RecordsOK(S, ph, ids)
    /\ ReleasedOK(T, S, d, ph)
    /\ OnceOK(S, d, o)
    /\ AnsweredOK(B, S, d, ph, ids, o)

-----------------------------------------------------------------------------
(* Data.                                                                   *)

LEMMA ClientFacts ==
    ASSUME NEW m \in ToClient
    PROVE  /\ m.id \in MsgIds \cup {0} /\ m.id \in Nat
           /\ IsPublish(m) => m.p \in Pubs /\ m.dup \in BOOLEAN
           /\ ~IsPublish(m) => m.id \in MsgIds /\ m.id # 0
<1>1. 0 \notin MsgIds /\ \A id \in MsgIds \cup {0} : id \in Nat
  BY PubsAssumption
<1>2. CASE m \in [type : {"PUBLISH"}, p : Pubs, id : MsgIds \cup {0}, dup : BOOLEAN]
  <2>1. m.type = "PUBLISH" /\ m.p \in Pubs /\ m.id \in MsgIds \cup {0} /\ m.dup \in BOOLEAN
    BY <1>2
  <2>2. m.id \in Nat
    BY <1>1, <2>1, Zenon
  <2> QED BY <2>1, <2>2 DEF IsPublish
<1>3. CASE m \in [type : {"PUBREL"}, p : {NoPub}, id : MsgIds, dup : {FALSE}]
  <2>1. m.type = "PUBREL" /\ m.id \in MsgIds
    BY <1>3
  <2> QED BY <1>1, <2>1 DEF IsPublish
<1> QED BY <1>2, <1>3 DEF ToClient

LEMMA BrokerFacts ==
    ASSUME NEW m \in ToBroker
    PROVE  m.id \in MsgIds /\ m.type \in {"PUBACK", "PUBREC", "PUBCOMP"}
BY DEF ToBroker

LEMMA StoredFacts ==
    ASSUME NEW s \in Stored
    PROVE  /\ s.key \in 0..RcvMax /\ s.key \in Int /\ s.p \in Pubs /\ s.id \in MsgIds
           /\ s.dup \in BOOLEAN /\ s.readyToPublish \in BOOLEAN
           /\ Qos[s.p] \in 0..2
BY PubsAssumption, LimitsAssumption DEF Stored

LEMMA OptionFacts ==
    ASSUME NEW o \in Options
    PROVE  o.persist \in BOOLEAN /\ o.cleanStart \in BOOLEAN /\ o.storeFails \in BOOLEAN
BY OptionsAssumption

-----------------------------------------------------------------------------
(* The network.                                                            *)

\* The socket is closed: what was in flight is lost.
LEMMA LostLemma ==
    ASSUME NEW T, NEW B, NEW S, NEW d, NEW ph, NEW ids, NEW o,
           Exchange(T, B, S, d, ph, ids, o)
    PROVE  Exchange(<<>>, <<>>, S, d, ph, ids, o)
<1>1. ExchangeType(<<>>, <<>>, S, d, ph, ids, o)
  BY DEF Exchange, ExchangeType
<1>2. \A i \in 1..Len(<<>>) : FALSE
  OBVIOUS
<1>3. ClientOK(<<>>, S, ph, ids) /\ OrderOK(<<>>) /\ BrokerOK(<<>>, <<>>, S, ph, ids)
  BY <1>2 DEF ClientOK, OrderOK, BrokerOK
<1>4. ReleasedOK(<<>>, S, d, ph)
  BY <1>2 DEF Exchange, ReleasedOK
<1>5. AnsweredOK(<<>>, S, d, ph, ids, o)
  BY <1>2 DEF Exchange, AnsweredOK
<1> QED BY <1>1, <1>3, <1>4, <1>5 DEF Exchange

\* A message to the client is read.
LEMMA ReadLemma ==
    ASSUME NEW T, NEW B, NEW S, NEW d, NEW ph, NEW ids, NEW o,
           Exchange(T, B, S, d, ph, ids, o), T # <<>>
    PROVE  Exchange(Tail(T), B, S, d, ph, ids, o)
<1> DEFINE U == Tail(T)
<1>1. /\ U \in Seq(ToClient) /\ Len(T) \in Nat /\ Len(U) = Len(T) - 1
      /\ \A i \in 1..Len(U) : i + 1 \in 1..Len(T) /\ U[i] = T[i + 1]
  BY TailFacts DEF Exchange, ExchangeType
<1> HIDE DEF U
<1>2. ExchangeType(U, B, S, d, ph, ids, o)
  BY <1>1 DEF Exchange, ExchangeType
<1>3. ClientOK(U, S, ph, ids)
  BY <1>1 DEF Exchange, ClientOK
<1>4. OrderOK(U)
  <2> SUFFICES ASSUME NEW i \in 1..Len(U), NEW j \in 1..Len(U), i < j, IsPublish(U[j])
               PROVE  /\ ~IsPublish(U[i]) => U[i].id # U[j].id
                      /\ IsPublish(U[i]) /\ U[i].p = U[j].p /\ Qos[U[i].p] = 2 => U[j].dup
    BY DEF OrderOK
  <2>1. U[i] = T[i + 1] /\ U[j] = T[j + 1] /\ i + 1 < j + 1
        /\ i + 1 \in 1..Len(T) /\ j + 1 \in 1..Len(T)
    BY <1>1
  <2> QED BY <2>1 DEF Exchange, OrderOK
<1>5. BrokerOK(U, B, S, ph, ids)
  BY <1>1 DEF Exchange, BrokerOK
<1>6. ReleasedOK(U, S, d, ph)
  BY <1>1 DEF Exchange, ReleasedOK
<1> QED BY <1>2, <1>3, <1>4, <1>5, <1>6 DEF Exchange, U

\* What the client can rely on when it has read a PUBLISH.
LEMMA ReadPublishLemma ==
    ASSUME NEW T, NEW B, NEW S, NEW d, NEW ph, NEW ids, NEW o,
           Exchange(T, B, S, d, ph, ids, o), T # <<>>, IsPublish(Head(T))
    PROVE  LET m == Head(T)
           IN  /\ m.p \in Pubs /\ m.id \in MsgIds \cup {0} /\ m.dup \in BOOLEAN
               /\ Qos[m.p] > 0 <=> m.id # 0
               /\ \A q \in Pubs : Owns(ph, ids, q, m.id) => q = m.p
               /\ Qos[m.p] = 2 =>
                    /\ Owns(ph, ids, m.p, m.id)
                    /\ ~Released(S, d, m.p)
                    /\ ~m.dup => \A s \in S : s.p # m.p
                    /\ \A i \in 1..Len(Tail(T)) : 
                         IsPublish(Tail(T)[i]) /\ Tail(T)[i].p = m.p => Tail(T)[i].dup
                    /\ \A i \in 1..Len(B) : B[i].type = "PUBCOMP" => B[i].id # m.id
<1> DEFINE m == Head(T)
           U == Tail(T)
<1>1. /\ m \in ToClient /\ m = T[1] /\ 1 \in 1..Len(T)
      /\ \A i \in 1..Len(U) : i + 1 \in 1..Len(T) /\ 1 < i + 1 /\ U[i] = T[i + 1]
  BY TailFacts DEF Exchange, ExchangeType
<1> HIDE DEF m, U
<1>2. IsPublish(m)
  BY DEF m
<1>3. m.p \in Pubs /\ m.id \in MsgIds \cup {0} /\ m.dup \in BOOLEAN
  BY <1>1, <1>2, ClientFacts
<1>4. /\ Qos[m.p] > 0 <=> m.id # 0
      /\ \A q \in Pubs : Owns(ph, ids, q, m.id) => q = m.p
      /\ Qos[m.p] = 2 => Owns(ph, ids, m.p, m.id)
      /\ Qos[m.p] = 2 /\ ~m.dup => \A s \in S : s.p # m.p
  BY <1>1, <1>2 DEF Exchange, ClientOK
<1>5. Qos[m.p] = 2 => ~Released(S, d, m.p)
  BY <1>1, <1>2, <1>3 DEF Exchange, ReleasedOK
<1>6. Qos[m.p] = 2 => \A i \in 1..Len(U) : IsPublish(U[i]) /\ U[i].p = m.p => U[i].dup
  BY <1>1, <1>2 DEF Exchange, OrderOK
<1>7. \A i \in 1..Len(B) : B[i].type = "PUBCOMP" => B[i].id # m.id
  BY <1>1, <1>2 DEF Exchange, BrokerOK
<1> QED BY <1>3, <1>4, <1>5, <1>6, <1>7 DEF m, U

\* What it can rely on when it has read a PUBREL.
LEMMA ReadPubrelLemma ==
    ASSUME NEW T, NEW B, NEW S, NEW d, NEW ph, NEW ids, NEW o,
           Exchange(T, B, S, d, ph, ids, o), T # <<>>, ~IsPublish(Head(T))
    PROVE  LET m == Head(T)
           IN  /\ m.id \in MsgIds
               /\ \A q \in Pubs : Owns(ph, ids, q, m.id) => ph[q] = "rel"
               /\ \A i \in 1..Len(Tail(T)) : IsPublish(Tail(T)[i]) => Tail(T)[i].id # m.id
<1> DEFINE m == Head(T)
           U == Tail(T)
<1>1. /\ m \in ToClient /\ m = T[1] /\ 1 \in 1..Len(T)
      /\ \A i \in 1..Len(U) : i + 1 \in 1..Len(T) /\ 1 < i + 1 /\ U[i] = T[i + 1]
  BY TailFacts DEF Exchange, ExchangeType
<1> HIDE DEF m, U
<1>2. ~IsPublish(m)
  BY DEF m
<1>3. m.id \in MsgIds
  BY <1>1, <1>2, ClientFacts
<1>4. \A q \in Pubs : Owns(ph, ids, q, m.id) => ph[q] = "rel"
  BY <1>1, <1>2 DEF Exchange, ClientOK
<1>5. \A i \in 1..Len(U) : IsPublish(U[i]) => U[i].id # m.id
  BY <1>1, <1>2 DEF Exchange, OrderOK
<1> QED BY <1>3, <1>4, <1>5 DEF m, U

-----------------------------------------------------------------------------
(* The persistence store and the application.                              *)

\* A publication is added to the store.
LEMMA AddLemma ==
    ASSUME NEW T, NEW B, NEW S, NEW d, NEW ph, NEW ids, NEW o,
           Exchange(T, B, S, d, ph, ids, o),
           NEW r \in Stored, Qos[r.p] > 0,
           Qos[r.p] # 2 => r.readyToPublish,
           Qos[r.p] = 2 =>
             /\ ~r.readyToPublish /\ Owns(ph, ids, r.p, r.id)
             /\ ~Released(S, d, r.p)
             /\ \A s \in S : s.p # r.p
             /\ \A i \in 1..Len(T) : IsPublish(T[i]) /\ T[i].p = r.p => T[i].dup
             /\ \A i \in 1..Len(B) : B[i].type = "PUBCOMP" => B[i].id # r.id
    PROVE  Exchange(T, B, S \cup {r}, d, ph, ids, o)
<1> DEFINE R == S \cup {r}
<1>1. r.p \in Pubs
  BY StoredFacts
<1>2. ExchangeType(T, B, R, d, ph, ids, o)
  BY DEF Exchange, ExchangeType
<1>3. ClientOK(T, R, ph, ids)
  BY DEF Exchange, ClientOK
<1>4. BrokerOK(T, B, R, ph, ids)
  BY DEF Exchange, BrokerOK
<1>5. RecordsOK(R, ph, ids)
  BY DEF Exchange, RecordsOK
<1>6. \A p \in Pubs : Qos[p] = 2 /\ Released(R, d, p) => Released(S, d, p)
  BY DEF Released
<1>7. ReleasedOK(T, R, d, ph)
  BY <1>6 DEF Exchange, ReleasedOK
<1>8. OnceOK(R, d, o)
  BY DEF Exchange, OnceOK, Released
<1>9. \A p \in Pubs : /\ Held(S, d, p) => Held(R, d, p)
                      /\ Released(S, d, p) => Released(R, d, p)
  BY DEF Held, Released
<1>10. AnsweredOK(B, R, d, ph, ids, o)
  BY <1>9 DEF Exchange, AnsweredOK
<1> QED BY <1>2, <1>3, <1>4, <1>5, <1>7, <1>8, <1>10 DEF Exchange

\* The record of key k is released.
Release(S, k) == {IF r.key = k THEN [r EXCEPT !.readyToPublish = TRUE] ELSE r : r \in S}

\* The records after a release, one by one.
LEMMA ReleaseFacts ==
    ASSUME NEW S \in SUBSET Stored, NEW k
    PROVE  /\ Release(S, k) \in SUBSET Stored
           /\ \A s \in S : \E t \in Release(S, k) :
                /\ t.key = s.key /\ t.p = s.p /\ t.id = s.id /\ t.dup = s.dup
                /\ t.readyToPublish <=> s.readyToPublish \/ s.key = k
           /\ \A t \in Release(S, k) : \E s \in S :
                /\ t.key = s.key /\ t.p = s.p /\ t.id = s.id /\ t.dup = s.dup
                /\ t.readyToPublish <=> s.readyToPublish \/ s.key = k
<1> DEFINE f(r) == IF r.key = k THEN [r EXCEPT !.readyToPublish = TRUE] ELSE r
<1>1. ASSUME NEW r \in S
      PROVE  /\ f(r) \in Stored
             /\ f(r).key = r.key /\ f(r).p = r.p /\ f(r).id = r.id /\ f(r).dup = r.dup
             /\ f(r).readyToPublish <=> (r.readyToPublish \/ r.key = k)
  BY DEF Stored
<1>2. Release(S, k) = {f(r) : r \in S}
  BY DEF Release
<1> HIDE DEF f
<1> QED BY <1>1, <1>2

LEMMA StoredEqual ==
    ASSUME NEW s \in Stored, NEW t \in Stored, s.key = t.key, s.p = t.p, s.id = t.id,
           s.dup = t.dup, s.readyToPublish = t.readyToPublish
    PROVE  s = t
BY DEF Stored

\* A PUBREL releases a publication in the store that waits for it.
LEMMA ReleaseLemma ==
    ASSUME NEW T, NEW B, NEW S, NEW d, NEW ph, NEW ids, NEW o,
           Exchange(T, B, S, d, ph, ids, o),
           \A s, t \in S : s.key = t.key => s = t,
           NEW r \in S, ~r.readyToPublish, ph[r.p] = "rel",
           \A i \in 1..Len(T) : IsPublish(T[i]) => T[i].id # r.id
    PROVE  /\ Exchange(T, B, Release(S, r.key), d, ph, ids, o)
           /\ Released(Release(S, r.key), d, r.p)
           /\ \A s \in Release(S, r.key) : ~s.readyToPublish => s.id # r.id
<1> DEFINE R == Release(S, r.key)
<1>1. S \in SUBSET Stored
  BY DEF Exchange, ExchangeType
<1>2. /\ R \subseteq Stored
      /\ \A s \in S : \E t \in R :
           /\ t.key = s.key /\ t.p = s.p /\ t.id = s.id /\ t.dup = s.dup
           /\ t.readyToPublish <=> s.readyToPublish \/ s.key = r.key
      /\ \A t \in R : \E s \in S :
           /\ t.key = s.key /\ t.p = s.p /\ t.id = s.id /\ t.dup = s.dup
           /\ t.readyToPublish <=> s.readyToPublish \/ s.key = r.key
  BY <1>1, ReleaseFacts
<1>3. \A s \in S : s.key = r.key => s = r
  OBVIOUS
<1>4. r.p \in Pubs /\ r.id \in MsgIds /\ r.readyToPublish \in BOOLEAN
  BY <1>1, StoredFacts
<1>5. Qos[r.p] = 2 /\ Owns(ph, ids, r.p, r.id)
  BY DEF Exchange, RecordsOK
<1> HIDE DEF R
<1>6. ExchangeType(T, B, R, d, ph, ids, o)
  BY <1>2 DEF Exchange, ExchangeType
<1>7. ClientOK(T, R, ph, ids)
  BY <1>2 DEF Exchange, ClientOK
<1>8. BrokerOK(T, B, R, ph, ids)
  BY <1>2 DEF Exchange, BrokerOK
<1>9. RecordsOK(R, ph, ids)
  <2>1. ASSUME NEW t \in R
        PROVE  Qos[t.p] > 0 /\ (~t.readyToPublish => Qos[t.p] = 2 /\ Owns(ph, ids, t.p, t.id))
    BY <1>2 DEF Exchange, RecordsOK
  <2>2. ASSUME NEW t \in R, NEW u \in R, t.p = u.p, Qos[t.p] = 2
        PROVE  t = u
    <3>1. PICK x \in S : /\ t.key = x.key /\ t.p = x.p /\ t.id = x.id /\ t.dup = x.dup
                         /\ t.readyToPublish <=> x.readyToPublish \/ x.key = r.key
      BY <1>2
    <3>2. PICK y \in S : /\ u.key = y.key /\ u.p = y.p /\ u.id = y.id /\ u.dup = y.dup
                         /\ u.readyToPublish <=> y.readyToPublish \/ y.key = r.key
      BY <1>2
    <3>3. x = y
      BY <3>1, <3>2, <2>2 DEF Exchange, RecordsOK
    <3>4. /\ t \in Stored /\ t.readyToPublish \in BOOLEAN
          /\ u \in Stored /\ u.readyToPublish \in BOOLEAN
      BY <1>2, StoredFacts
    <3>5. t.readyToPublish = u.readyToPublish
      BY <3>1, <3>2, <3>3, <3>4
    <3> QED BY <3>1, <3>2, <3>3, <3>4, <3>5, StoredEqual
  <2> QED BY <2>1, <2>2 DEF RecordsOK
<1>10. \A p \in Pubs : Released(R, d, p) => Released(S, d, p) \/ p = r.p
  BY <1>2, <1>3 DEF Released
<1>11. ASSUME NEW i \in 1..Len(T), IsPublish(T[i]) PROVE T[i].p # r.p
  BY <1>5, <1>11 DEF Exchange, ClientOK, Owns
<1>12. ReleasedOK(T, R, d, ph)
  BY <1>10, <1>11 DEF Exchange, ReleasedOK
<1>13. OnceOK(R, d, o)
  BY <1>2 DEF Exchange, OnceOK
<1>14. \A p \in Pubs : /\ Held(S, d, p) => Held(R, d, p)
                       /\ Released(S, d, p) => Released(R, d, p)
  BY <1>2 DEF Held, Released
<1>15. AnsweredOK(B, R, d, ph, ids, o)
  BY <1>14 DEF Exchange, AnsweredOK
<1>16. Released(R, d, r.p)
  BY <1>2 DEF Released
<1>17. ASSUME NEW t \in R, ~t.readyToPublish PROVE t.id # r.id
  <2>1. PICK s \in S : /\ t.key = s.key /\ t.p = s.p /\ t.id = s.id /\ t.dup = s.dup
                       /\ t.readyToPublish <=> s.readyToPublish \/ s.key = r.key
    BY <1>2
  <2>2. ~s.readyToPublish /\ s # r /\ s.p \in Pubs
    BY <2>1, <1>17, <1>1, StoredFacts
  <2>3. Qos[s.p] = 2 /\ Owns(ph, ids, s.p, s.id)
    BY <2>2 DEF Exchange, RecordsOK
  <2>4. s.p # r.p
    BY <2>2, <2>3 DEF Exchange, RecordsOK
  <2> QED BY <2>1, <2>2, <2>3, <2>4, <1>4, <1>5 DEF Exchange, IdsOK, Owns
<1> QED BY <1>6, <1>7, <1>8, <1>9, <1>12, <1>13, <1>15, <1>16, <1>17 DEF Exchange, R

\* The client answers.
LEMMA AnswerLemma ==
    ASSUME NEW T, NEW B, NEW S, NEW d, NEW ph, NEW ids, NEW o,
           Exchange(T, B, S, d, ph, ids, o), NEW w \in ToBroker,
           w.type = "PUBACK" => \A q \in Pubs : Owns(ph, ids, q, w.id) => Qos[q] = 1,
           w.type = "PUBREC" => \A q \in Pubs : Owns(ph, ids, q, w.id) => Qos[q] = 2,
           w.type = "PUBCOMP" =>
             /\ \A q \in Pubs : Owns(ph, ids, q, w.id) => ph[q] = "rel"
             /\ \A j \in 1..Len(T) : IsPublish(T[j]) => T[j].id # w.id
             /\ \A s \in S : ~s.readyToPublish => s.id # w.id,
           o.persist /\ ~o.cleanStart =>
             \A q \in Pubs : Owns(ph, ids, q, w.id) =>
               Held(S, d, q) /\ (w.type = "PUBCOMP" => Released(S, d, q))
    PROVE  Exchange(T, Append(B, w), S, d, ph, ids, o)
<1> DEFINE C == Append(B, w)
<1>1. /\ C \in Seq(ToBroker) /\ Len(B) \in Nat /\ Len(C) = Len(B) + 1
      /\ C[Len(B) + 1] = w /\ \A i \in 1..Len(B) : C[i] = B[i]
  BY AppendFacts DEF Exchange, ExchangeType
<1> HIDE DEF C
<1>2. \A i \in 1..Len(C) : C[i] = w \/ (i \in 1..Len(B) /\ C[i] = B[i])
  BY <1>1
<1>3. ExchangeType(T, C, S, d, ph, ids, o)
  BY <1>1 DEF Exchange, ExchangeType
<1>4. BrokerOK(T, C, S, ph, ids)
  BY <1>2 DEF Exchange, BrokerOK
<1>5. AnsweredOK(C, S, d, ph, ids, o)
  BY <1>2 DEF Exchange, AnsweredOK
<1> QED BY <1>3, <1>4, <1>5 DEF Exchange, C

\* The application has received p, and the store deletes at most its record.
LEMMA DeliverLemma ==
    ASSUME NEW T, NEW B, NEW S, NEW d, NEW ph, NEW ids, NEW o,
           Exchange(T, B, S, d, ph, ids, o),
           NEW p \in Pubs, NEW R \in SUBSET S, \A s \in S : s.p # p => s \in R,
           Qos[p] = 2 => \E s \in S : s.p = p /\ s.readyToPublish,
           Qos[p] = 2 /\ ~o.storeFails => \A s \in R : s.p # p
    PROVE  Exchange(T, B, R, [d EXCEPT ![p] = IF @ = 0 THEN 1 ELSE 2], ph, ids, o)
<1> DEFINE e == [d EXCEPT ![p] = IF @ = 0 THEN 1 ELSE 2]
<1>1. /\ e \in [Pubs -> 0..2] /\ e[p] > 0 /\ e[p] = IF d[p] = 0 THEN 1 ELSE 2
      /\ \A q \in Pubs : q # p => e[q] = d[q]
  BY DEF Exchange, ExchangeType
<1> HIDE DEF e
<1>2. ExchangeType(T, B, R, e, ph, ids, o)
  BY <1>1 DEF Exchange, ExchangeType
<1>3. ClientOK(T, R, ph, ids)
  BY DEF Exchange, ClientOK
<1>4. BrokerOK(T, B, R, ph, ids)
  BY DEF Exchange, BrokerOK
<1>5. RecordsOK(R, ph, ids)
  BY DEF Exchange, RecordsOK
<1>6. \A q \in Pubs : Qos[q] = 2 /\ Released(R, e, q) => Released(S, d, q)
  BY <1>1 DEF Released
<1>7. ReleasedOK(T, R, e, ph)
  BY <1>6 DEF Exchange, ReleasedOK
<1>8. OnceOK(R, e, o)
  <2> SUFFICES ASSUME ~o.storeFails, NEW q \in Pubs, Qos[q] = 2
               PROVE  e[q] <= 1 /\ (e[q] > 0 => \A s \in R : s.p # q)
    BY DEF OnceOK
  <2>1. d[q] <= 1 /\ (d[q] > 0 => \A s \in S : s.p # q)
    BY DEF Exchange, OnceOK
  <2>2. CASE q = p
    <3>1. ~(d[p] > 0) /\ d[p] \in 0..2
      BY <2>1, <2>2 DEF Exchange, ExchangeType
    <3> QED BY <2>2, <3>1, <1>1
  <2>3. CASE q # p
    BY <2>1, <2>3, <1>1
  <2> QED BY <2>2, <2>3
<1>9. \A q \in Pubs : /\ Held(S, d, q) => Held(R, e, q)
                      /\ Released(S, d, q) => Released(R, e, q)
  <2> TAKE q \in Pubs
  <2>1. CASE q = p
    BY <2>1, <1>1 DEF Held, Released
  <2>2. CASE q # p
    BY <2>2, <1>1 DEF Held, Released
  <2> QED BY <2>1, <2>2
<1>10. AnsweredOK(B, R, e, ph, ids, o)
  BY <1>9 DEF Exchange, AnsweredOK
<1> QED BY <1>2, <1>3, <1>4, <1>5, <1>7, <1>8, <1>10 DEF Exchange, e

\* A clean start empties the store.
LEMMA ResetLemma ==
    ASSUME NEW T, NEW B, NEW S, NEW d, NEW ph, NEW ids, NEW o,
           Exchange(T, B, S, d, ph, ids, o), o.cleanStart
    PROVE  Exchange(T, B, {}, d, ph, ids, o)
<1>1. ExchangeType(T, B, {}, d, ph, ids, o)
  BY DEF Exchange, ExchangeType
<1>2. ClientOK(T, {}, ph, ids) /\ BrokerOK(T, B, {}, ph, ids)
  BY DEF Exchange, ClientOK, BrokerOK
<1>3. RecordsOK({}, ph, ids) /\ AnsweredOK(B, {}, d, ph, ids, o)
  BY DEF RecordsOK, AnsweredOK
<1>4. ReleasedOK(T, {}, d, ph)
  BY DEF Exchange, ReleasedOK, Released
<1>5. OnceOK({}, d, o)
  BY DEF Exchange, OnceOK
<1> QED BY <1>1, <1>2, <1>3, <1>4, <1>5 DEF Exchange

-----------------------------------------------------------------------------
(* The broker.                                                             *)

\* The broker forgets the session of a client that starts clean.
LEMMA SessionLemma ==
    ASSUME NEW d, NEW ph, NEW ids, NEW o,
           Exchange(<<>>, <<>>, {}, d, ph, ids, o), o.cleanStart
    PROVE  Exchange(<<>>, <<>>, {}, d,
                    [p \in Pubs |-> IF ph[p] \in {"sent", "rel"} THEN "dropped" ELSE ph[p]],
                    ids, o)
<1> DEFINE f == [p \in Pubs |-> IF ph[p] \in {"sent", "rel"} THEN "dropped" ELSE ph[p]]
<1>1. /\ f \in [Pubs -> Phases]
      /\ \A p \in Pubs : /\ f[p] \notin {"sent", "rel"}
                         /\ f[p] = ph[p] \/ f[p] = "dropped"
  BY DEF Exchange, ExchangeType, Phases
<1> HIDE DEF f
<1>2. ExchangeType(<<>>, <<>>, {}, d, f, ids, o)
  BY <1>1 DEF Exchange, ExchangeType
<1>3. IdsOK(f, ids)
  BY <1>1 DEF IdsOK, Owns
<1>4. \A i \in 1..Len(<<>>) : FALSE
  OBVIOUS
<1>5. ClientOK(<<>>, {}, f, ids) /\ BrokerOK(<<>>, <<>>, {}, f, ids) /\ OrderOK(<<>>)
  BY <1>4 DEF ClientOK, BrokerOK, OrderOK
<1>6. RecordsOK({}, f, ids) /\ AnsweredOK(<<>>, {}, d, f, ids, o)
  BY DEF RecordsOK, AnsweredOK
<1>7. ReleasedOK(<<>>, {}, d, f)
  BY <1>1, <1>4 DEF Exchange, ReleasedOK
<1> QED BY <1>2, <1>3, <1>5, <1>6, <1>7 DEF Exchange, f

\* It reads an answer, and can rely on what was known of it.
LEMMA TakeLemma ==
    ASSUME NEW T, NEW B, NEW S, NEW d, NEW ph, NEW ids, NEW o,
           Exchange(T, B, S, d, ph, ids, o), B # <<>>
    PROVE  LET m == Head(B)
           IN  /\ Exchange(T, Tail(B), S, d, ph, ids, o)
               /\ m.id \in MsgIds
               /\ m.type = "PUBCOMP" =>
                    /\ \A j \in 1..Len(T) : IsPublish(T[j]) => T[j].id # m.id
                    /\ \A s \in S : ~s.readyToPublish => s.id # m.id
               /\ o.persist /\ ~o.cleanStart =>
                    \A q \in Pubs : Owns(ph, ids, q, m.id) =>
                      Held(S, d, q) /\ (m.type = "PUBCOMP" => Released(S, d, q))
<1> DEFINE m == Head(B)
           C == Tail(B)
<1>1. /\ C \in Seq(ToBroker) /\ m \in ToBroker /\ m = B[1] /\ 1 \in 1..Len(B)
      /\ \A i \in 1..Len(C) : i + 1 \in 1..Len(B) /\ C[i] = B[i + 1]
  BY TailFacts DEF Exchange, ExchangeType
<1> HIDE DEF m, C
<1>2. ExchangeType(T, C, S, d, ph, ids, o)
  BY <1>1 DEF Exchange, ExchangeType
<1>3. BrokerOK(T, C, S, ph, ids)
  BY <1>1 DEF Exchange, BrokerOK
<1>4. AnsweredOK(C, S, d, ph, ids, o)
  BY <1>1 DEF Exchange, AnsweredOK
<1>5. Exchange(T, C, S, d, ph, ids, o)
  BY <1>2, <1>3, <1>4 DEF Exchange
<1>6. m.id \in MsgIds
  BY <1>1, BrokerFacts
<1>7. m.type = "PUBCOMP" =>
        /\ \A j \in 1..Len(T) : IsPublish(T[j]) => T[j].id # m.id
        /\ \A s \in S : ~s.readyToPublish => s.id # m.id
  BY <1>1 DEF Exchange, BrokerOK
<1>8. o.persist /\ ~o.cleanStart =>
        \A q \in Pubs : Owns(ph, ids, q, m.id) =>
          Held(S, d, q) /\ (m.type = "PUBCOMP" => Released(S, d, q))
  BY <1>1 DEF Exchange, AnsweredOK
<1> QED BY <1>5, <1>6, <1>7, <1>8 DEF m, C

\* A publication whose last answer has arrived is done.
LEMMA FinishLemma ==
    ASSUME NEW T, NEW B, NEW S, NEW d, NEW ph, NEW ids, NEW o,
           Exchange(T, B, S, d, ph, ids, o),
           NEW q \in Pubs, ph[q] \in {"sent", "rel"},
           Qos[q] = 2 =>
             /\ ph[q] = "rel"
             /\ \A j \in 1..Len(T) : IsPublish(T[j]) => T[j].id # ids[q]
             /\ \A s \in S : ~s.readyToPublish => s.id # ids[q],
           o.persist /\ ~o.cleanStart => Released(S, d, q)
    PROVE  Exchange(T, B, S, d, [ph EXCEPT ![q] = "done"], [ids EXCEPT ![q] = 0], o)
<1> DEFINE f == [ph EXCEPT ![q] = "done"]
           g == [ids EXCEPT ![q] = 0]
<1>1. /\ f \in [Pubs -> Phases] /\ g \in [Pubs -> MsgIds \cup {0}]
      /\ f[q] = "done"
      /\ \A p \in Pubs : p # q => f[p] = ph[p] /\ g[p] = ids[p]
  BY DEF Exchange, ExchangeType, Phases
<1> HIDE DEF f, g
<1>2. \A p \in Pubs : \A id : Owns(f, g, p, id) <=> p # q /\ Owns(ph, ids, p, id)
  BY <1>1 DEF Owns
<1>3. Owns(ph, ids, q, ids[q])
  BY DEF Owns
<1>4. ExchangeType(T, B, S, d, f, g, o)
  BY <1>1 DEF Exchange, ExchangeType
<1>5. IdsOK(f, g)
  BY <1>1 DEF Exchange, IdsOK, Owns
<1>6. ASSUME NEW i \in 1..Len(T), IsPublish(T[i]), Qos[T[i].p] = 2
      PROVE  T[i].p # q
  BY <1>6, <1>3 DEF Exchange, ClientOK, Owns
<1>7. \A i \in 1..Len(T) : IsPublish(T[i]) => T[i].p \in Pubs
  <2>1. \A i \in 1..Len(T) : T[i] \in ToClient
    BY DEF Exchange, ExchangeType
  <2> QED BY <2>1, ClientFacts
<1>8. ClientOK(T, S, f, g)
  <2> SUFFICES ASSUME NEW i \in 1..Len(T)
               PROVE  /\ IsPublish(T[i]) =>
                           /\ Qos[T[i].p] > 0 <=> T[i].id # 0
                           /\ \A p \in Pubs : Owns(f, g, p, T[i].id) => p = T[i].p
                           /\ Qos[T[i].p] = 2 => Owns(f, g, T[i].p, T[i].id)
                           /\ Qos[T[i].p] = 2 /\ ~T[i].dup => \A s \in S : s.p # T[i].p
                      /\ ~IsPublish(T[i]) =>
                           \A p \in Pubs : Owns(f, g, p, T[i].id) => f[p] = "rel"
    BY DEF ClientOK
  <2>1. CASE IsPublish(T[i])
    BY <2>1, <1>2, <1>6, <1>7 DEF Exchange, ClientOK
  <2>2. CASE ~IsPublish(T[i])
    BY <2>2, <1>1, <1>2 DEF Exchange, ClientOK
  <2> QED BY <2>1, <2>2
<1>9. BrokerOK(T, B, S, f, g)
  BY <1>1, <1>2 DEF Exchange, BrokerOK
<1>10. S \subseteq Stored
  BY DEF Exchange, ExchangeType
<1>11. RecordsOK(S, f, g)
  <2>1. ASSUME NEW s \in S, ~s.readyToPublish
        PROVE  Qos[s.p] = 2 /\ s.p \in Pubs /\ s.p # q /\ Owns(ph, ids, s.p, s.id)
    BY <2>1, <1>10, StoredFacts DEF Exchange, RecordsOK, Owns
  <2> QED BY <2>1, <1>2 DEF Exchange, RecordsOK
<1>12. ReleasedOK(T, S, d, f)
  BY <1>1 DEF Exchange, ReleasedOK
<1>13. Qos[q] > 0 /\ (o.persist /\ ~o.cleanStart => Held(S, d, q))
  BY DEF Exchange, IdsOK, Held, Released
<1>14. AnsweredOK(B, S, d, f, g, o)
  BY <1>1, <1>2, <1>13 DEF Exchange, AnsweredOK
<1> QED BY <1>4, <1>5, <1>8, <1>9, <1>11, <1>12, <1>14 DEF Exchange, f, g

\* A QoS 2 publication whose PUBREC has arrived is to be released.
LEMMA RelLemma ==
    ASSUME NEW T, NEW B, NEW S, NEW d, NEW ph, NEW ids, NEW o,
           Exchange(T, B, S, d, ph, ids, o),
           NEW q \in Pubs, ph[q] \in {"sent", "rel"}, Qos[q] = 2,
           o.persist /\ ~o.cleanStart => Held(S, d, q)
    PROVE  Exchange(T, B, S, d, [ph EXCEPT ![q] = "rel"], ids, o)
<1> DEFINE f == [ph EXCEPT ![q] = "rel"]
<1>1. /\ f \in [Pubs -> Phases] /\ f[q] = "rel"
      /\ \A p \in Pubs : p # q => f[p] = ph[p]
  BY DEF Exchange, ExchangeType, Phases
<1> HIDE DEF f
<1>2. \A p \in Pubs : \A id : Owns(f, ids, p, id) <=> Owns(ph, ids, p, id)
  BY <1>1 DEF Owns
<1>3. ExchangeType(T, B, S, d, f, ids, o)
  BY <1>1 DEF Exchange, ExchangeType
<1>4. IdsOK(f, ids)
  BY <1>1, <1>2 DEF Exchange, IdsOK
<1>5. \A i \in 1..Len(T) : IsPublish(T[i]) => T[i].p \in Pubs
  <2>1. \A i \in 1..Len(T) : T[i] \in ToClient
    BY DEF Exchange, ExchangeType
  <2> QED BY <2>1, ClientFacts
<1>6. ClientOK(T, S, f, ids)
  BY <1>1, <1>2, <1>5 DEF Exchange, ClientOK
<1>7. BrokerOK(T, B, S, f, ids)
  BY <1>1, <1>2 DEF Exchange, BrokerOK
<1>8. S \subseteq Stored
  BY DEF Exchange, ExchangeType
<1>9. RecordsOK(S, f, ids)
  BY <1>2, <1>8, StoredFacts DEF Exchange, RecordsOK
<1>10. ReleasedOK(T, S, d, f)
  BY <1>1 DEF Exchange, ReleasedOK
<1>11. AnsweredOK(B, S, d, f, ids, o)
  BY <1>1, <1>2 DEF Exchange, AnsweredOK
<1> QED BY <1>3, <1>4, <1>6, <1>7, <1>9, <1>10, <1>11 DEF Exchange, f

\* A publication of QoS 1 or 2 is given an id that nothing under way uses.
LEMMA StartLemma ==
    ASSUME NEW T, NEW B, NEW S, NEW d, NEW ph, NEW ids, NEW o,
           Exchange(T, B, S, d, ph, ids, o),
           NEW p \in Pubs, ph[p] = "new", Qos[p] > 0,
           NEW id \in MsgIds,
           \A q \in Pubs : ~Owns(ph, ids, q, id),
           \A i \in 1..Len(T) : T[i].id # id,
           \A i \in 1..Len(B) : B[i].id # id
    PROVE  /\ Exchange(T, B, S, d, [ph EXCEPT ![p] = "sent"], [ids EXCEPT ![p] = id], o)
           /\ Qos[p] = 2 => /\ \A i \in 1..Len(T) : IsPublish(T[i]) => T[i].p # p
                            /\ \A s \in S : s.p # p
<1> DEFINE f == [ph EXCEPT ![p] = "sent"]
           g == [ids EXCEPT ![p] = id]
<1>1. /\ f \in [Pubs -> Phases] /\ g \in [Pubs -> MsgIds \cup {0}]
      /\ f[p] = "sent" /\ g[p] = id
      /\ \A q \in Pubs : q # p => f[q] = ph[q] /\ g[q] = ids[q]
  BY DEF Exchange, ExchangeType, Phases
<1> HIDE DEF f, g
<1>2. /\ \A q \in Pubs : \A x : Owns(f, g, q, x) <=> IF q = p THEN x = id ELSE Owns(ph, ids, q, x)
      /\ \A x : ~Owns(ph, ids, p, x)
  BY <1>1 DEF Owns
<1>3. ExchangeType(T, B, S, d, f, g, o)
  BY <1>1 DEF Exchange, ExchangeType
<1>4. IdsOK(f, g)
  <2>1. ASSUME NEW a \in Pubs, NEW b \in Pubs, f[b] \in {"sent", "rel"}, Owns(f, g, a, g[b])
        PROVE  a = b
    <3>1. CASE b = p
      BY <3>1, <2>1, <1>1, <1>2
    <3>2. CASE b # p
      <4>1. g[b] = ids[b] /\ ph[b] \in {"sent", "rel"}
        BY <3>2, <2>1, <1>1
      <4>2. Owns(ph, ids, b, g[b])
        BY <4>1 DEF Owns
      <4>3. a # p
        BY <4>2, <2>1, <1>2
      <4> QED BY <4>1, <4>3, <2>1, <1>2 DEF Exchange, IdsOK
    <3> QED BY <3>1, <3>2
  <2>2. \A a \in Pubs : /\ f[a] \in {"sent", "rel"} => g[a] \in MsgIds /\ Qos[a] > 0
                        /\ f[a] = "rel" => Qos[a] = 2
    BY <1>1 DEF Exchange, IdsOK
  <2> QED BY <2>1, <2>2 DEF IdsOK
<1>5. \A i \in 1..Len(T) : IsPublish(T[i]) => T[i].p \in Pubs
  <2>1. \A i \in 1..Len(T) : T[i] \in ToClient
    BY DEF Exchange, ExchangeType
  <2> QED BY <2>1, ClientFacts
<1>6. \A i \in 1..Len(T), q \in Pubs : Owns(f, g, q, T[i].id) <=> Owns(ph, ids, q, T[i].id)
  BY <1>2
<1>7. \A q \in Pubs : f[q] = "rel" <=> ph[q] = "rel"
  BY <1>1
<1>8. ClientOK(T, S, f, g)
  <2> SUFFICES ASSUME NEW i \in 1..Len(T)
               PROVE  /\ IsPublish(T[i]) =>
                           /\ Qos[T[i].p] > 0 <=> T[i].id # 0
                           /\ \A q \in Pubs : Owns(f, g, q, T[i].id) => q = T[i].p
                           /\ Qos[T[i].p] = 2 => Owns(f, g, T[i].p, T[i].id)
                           /\ Qos[T[i].p] = 2 /\ ~T[i].dup => \A s \in S : s.p # T[i].p
                      /\ ~IsPublish(T[i]) =>
                           \A q \in Pubs : Owns(f, g, q, T[i].id) => f[q] = "rel"
    BY DEF ClientOK
  <2>1. CASE IsPublish(T[i])
    BY <2>1, <1>5, <1>6 DEF Exchange, ClientOK
  <2>2. CASE ~IsPublish(T[i])
    BY <2>2, <1>6, <1>7 DEF Exchange, ClientOK
  <2> QED BY <2>1, <2>2
<1>9. \A i \in 1..Len(B), q \in Pubs : Owns(f, g, q, B[i].id) <=> Owns(ph, ids, q, B[i].id)
  BY <1>2
<1>10. BrokerOK(T, B, S, f, g)
  BY <1>7, <1>9 DEF Exchange, BrokerOK
<1>11. S \subseteq Stored
  BY DEF Exchange, ExchangeType
<1>12. RecordsOK(S, f, g)
  <2>1. ASSUME NEW s \in S, ~s.readyToPublish
        PROVE  Qos[s.p] = 2 /\ s.p \in Pubs /\ s.p # p /\ Owns(ph, ids, s.p, s.id)
    BY <2>1, <1>2, <1>11, StoredFacts DEF Exchange, RecordsOK
  <2> QED BY <2>1, <1>2 DEF Exchange, RecordsOK
<1>13. Qos[p] = 2 => ~Released(S, d, p)
  BY DEF Exchange, ReleasedOK
<1>14. ReleasedOK(T, S, d, f)
  BY <1>1, <1>13 DEF Exchange, ReleasedOK
<1>15. AnsweredOK(B, S, d, f, g, o)
  <2>1. \A q \in Pubs : f[q] \in {"rel", "done"} => f[q] = ph[q]
    BY <1>1
  <2> QED BY <2>1, <1>9 DEF Exchange, AnsweredOK
<1>16. ASSUME Qos[p] = 2, NEW i \in 1..Len(T), IsPublish(T[i]) PROVE T[i].p # p
  BY <1>16, <1>2 DEF Exchange, ClientOK
<1>17. ASSUME Qos[p] = 2, NEW s \in S PROVE s.p # p
  BY <1>17, <1>2, <1>13 DEF Exchange, RecordsOK, Released
<1> QED BY <1>3, <1>4, <1>8, <1>10, <1>12, <1>14, <1>15, <1>16, <1>17 DEF Exchange, f, g

\* A publication of QoS 0 is done when it is sent.
LEMMA StartQos0Lemma ==
    ASSUME NEW T, NEW B, NEW S, NEW d, NEW ph, NEW ids, NEW o,
           Exchange(T, B, S, d, ph, ids, o),
           NEW p \in Pubs, ph[p] = "new", Qos[p] = 0
    PROVE  Exchange(T, B, S, d, [ph EXCEPT ![p] = "done"], ids, o)
<1> DEFINE f == [ph EXCEPT ![p] = "done"]
<1>1. /\ f \in [Pubs -> Phases] /\ f[p] = "done"
      /\ \A q \in Pubs : q # p => f[q] = ph[q]
  BY DEF Exchange, ExchangeType, Phases
<1> HIDE DEF f
<1>2. \A q \in Pubs : \A x : Owns(f, ids, q, x) <=> Owns(ph, ids, q, x)
  BY <1>1 DEF Owns
<1>3. ExchangeType(T, B, S, d, f, ids, o)
  BY <1>1 DEF Exchange, ExchangeType
<1>4. \A q \in Pubs : /\ f[q] = "rel" <=> ph[q] = "rel"
                      /\ f[q] = "sent" <=> ph[q] = "sent"
                      /\ Qos[q] > 0 => f[q] = ph[q]
  BY <1>1
<1>5. IdsOK(f, ids)
  BY <1>2, <1>4 DEF Exchange, IdsOK
<1>6. \A i \in 1..Len(T) : IsPublish(T[i]) => T[i].p \in Pubs
  <2>1. \A i \in 1..Len(T) : T[i] \in ToClient
    BY DEF Exchange, ExchangeType
  <2> QED BY <2>1, ClientFacts
<1>7. ClientOK(T, S, f, ids)
  BY <1>2, <1>4, <1>6 DEF Exchange, ClientOK
<1>8. BrokerOK(T, B, S, f, ids)
  BY <1>2, <1>4 DEF Exchange, BrokerOK
<1>9. S \subseteq Stored
  BY DEF Exchange, ExchangeType
<1>10. RecordsOK(S, f, ids)
  BY <1>2, <1>9, StoredFacts DEF Exchange, RecordsOK
<1>11. ReleasedOK(T, S, d, f)
  BY <1>4 DEF Exchange, ReleasedOK
<1>12. AnsweredOK(B, S, d, f, ids, o)
  BY <1>2, <1>4 DEF Exchange, AnsweredOK
<1> QED BY <1>3, <1>5, <1>7, <1>8, <1>10, <1>11, <1>12 DEF Exchange, f

\* A PUBLISH is sent to the client, the first time or again.
LEMMA SendPublishLemma ==
    ASSUME NEW T, NEW B, NEW S, NEW d, NEW ph, NEW ids, NEW o,
           Exchange(T, B, S, d, ph, ids, o),
           NEW p \in Pubs, NEW id \in MsgIds \cup {0}, NEW dup \in BOOLEAN,
           Qos[p] > 0 <=> id # 0,
           \A q \in Pubs : Owns(ph, ids, q, id) => q = p,
           Qos[p] = 2 => Owns(ph, ids, p, id) /\ ph[p] = "sent",
           Qos[p] = 2 /\ ~dup =>
             /\ \A s \in S : s.p # p
             /\ \A i \in 1..Len(T) : IsPublish(T[i]) => T[i].p # p,
           \A i \in 1..Len(T) : ~IsPublish(T[i]) => T[i].id # id,
           \A i \in 1..Len(B) : B[i].type = "PUBCOMP" => B[i].id # id
    PROVE  Exchange(Append(T, Publish(p, id, dup)), B, S, d, ph, ids, o)
<1> DEFINE w == Publish(p, id, dup)
           U == Append(T, w)
<1>1. w \in ToClient /\ IsPublish(w) /\ w.p = p /\ w.id = id /\ w.dup = dup
  BY DEF Publish, ToClient, IsPublish
<1> HIDE DEF w
<1>2. /\ U \in Seq(ToClient) /\ Len(T) \in Nat /\ Len(U) = Len(T) + 1
      /\ U[Len(T) + 1] = w /\ \A i \in 1..Len(T) : U[i] = T[i]
  BY <1>1, AppendFacts DEF Exchange, ExchangeType
<1> HIDE DEF U
<1>3. \A i \in 1..Len(U) : U[i] = w \/ (i \in 1..Len(T) /\ U[i] = T[i])
  BY <1>2
<1>4. ExchangeType(U, B, S, d, ph, ids, o)
  BY <1>2 DEF Exchange, ExchangeType
<1>5. ClientOK(U, S, ph, ids)
  BY <1>1, <1>3 DEF Exchange, ClientOK
<1>6. OrderOK(U)
  <2> SUFFICES ASSUME NEW i \in 1..Len(U), NEW j \in 1..Len(U), i < j, IsPublish(U[j])
               PROVE  /\ ~IsPublish(U[i]) => U[i].id # U[j].id
                      /\ IsPublish(U[i]) /\ U[i].p = U[j].p /\ Qos[U[i].p] = 2 => U[j].dup
    BY DEF OrderOK
  <2>1. i \in 1..Len(T) /\ U[i] = T[i]
    BY <1>2
  <2>2. CASE j \in 1..Len(T)
    BY <2>1, <2>2, <1>2 DEF Exchange, OrderOK
  <2>3. CASE j = Len(T) + 1
    BY <2>1, <2>3, <1>1, <1>2
  <2> QED BY <2>2, <2>3, <1>2
<1>7. BrokerOK(U, B, S, ph, ids)
  BY <1>1, <1>3 DEF Exchange, BrokerOK
<1>8. ReleasedOK(U, S, d, ph)
  BY <1>1, <1>3 DEF Exchange, ReleasedOK
<1> QED BY <1>4, <1>5, <1>6, <1>7, <1>8 DEF Exchange, U, w

\* So is a PUBREL.
LEMMA SendPubrelLemma ==
    ASSUME NEW T, NEW B, NEW S, NEW d, NEW ph, NEW ids, NEW o,
           Exchange(T, B, S, d, ph, ids, o),
           NEW id \in MsgIds, \A q \in Pubs : Owns(ph, ids, q, id) => ph[q] = "rel"
    PROVE  Exchange(Append(T, Pubrel(id)), B, S, d, ph, ids, o)
<1> DEFINE w == Pubrel(id)
           U == Append(T, w)
<1>1. w \in ToClient /\ ~IsPublish(w) /\ w.id = id
  BY DEF Pubrel, ToClient, IsPublish
<1> HIDE DEF w
<1>2. /\ U \in Seq(ToClient) /\ Len(T) \in Nat /\ Len(U) = Len(T) + 1
      /\ U[Len(T) + 1] = w /\ \A i \in 1..Len(T) : U[i] = T[i]
  BY <1>1, AppendFacts DEF Exchange, ExchangeType
<1> HIDE DEF U
<1>3. \A i \in 1..Len(U) : U[i] = w \/ (i \in 1..Len(T) /\ U[i] = T[i])
  BY <1>2
<1>4. ExchangeType(U, B, S, d, ph, ids, o)
  BY <1>2 DEF Exchange, ExchangeType
<1>5. ClientOK(U, S, ph, ids)
  BY <1>1, <1>3 DEF Exchange, ClientOK
<1>6. OrderOK(U)
  <2> SUFFICES ASSUME NEW i \in 1..Len(U), NEW j \in 1..Len(U), i < j, IsPublish(U[j])
               PROVE  /\ ~IsPublish(U[i]) => U[i].id # U[j].id
                      /\ IsPublish(U[i]) /\ U[i].p = U[j].p /\ Qos[U[i].p] = 2 => U[j].dup
    BY DEF OrderOK
  <2>1. j \in 1..Len(T) /\ U[j] = T[j]
    BY <1>1, <1>3
  <2>2. i \in 1..Len(T) /\ U[i] = T[i]
    BY <2>1, <1>2
  <2> QED BY <2>1, <2>2 DEF Exchange, OrderOK
<1>7. BrokerOK(U, B, S, ph, ids)
  BY <1>1, <1>3 DEF Exchange, BrokerOK
<1>8. ReleasedOK(U, S, d, ph)
  BY <1>1, <1>3 DEF Exchange, ReleasedOK
<1> QED BY <1>4, <1>5, <1>6, <1>7, <1>8 DEF Exchange, U, w

-----------------------------------------------------------------------------
(* The invariant of the queue.                                             *)

Linked == Cells(rcvdPubsQ)

ReadyCells == {c \in Linked : heap[c].readyToPublish}

\* The entry has a record in the persistence store.
Kept(e) == Persist /\ Qos[e.p] > 0

\* The part of the store that the recovery loop has loaded.
Loaded == rcvdStore \ toLoad

QueueType ==
    /\ heap \in [Addr -> Entry \cup {Freed}]
    /\ rcvdPubsQ \in Seq(Addr)
    /\ rpHash \in [MsgIds -> Addr \cup {Null}]
    /\ rtpEntries \in Int /\ numBytesQueued \in Int

\* No cell is linked twice or freed; a persisted entry has its record under its
\* rcvId, which no other entry has; any other entry is ready, under rcvId 0.
EntriesOK ==
    /\ Distinct(rcvdPubsQ)
    /\ \A c \in Linked : heap[c] \in Entry
    /\ \A c \in Linked : ~Kept(heap[c]) => heap[c].rcvId = 0 /\ heap[c].readyToPublish
    /\ \A c \in Linked : Kept(heap[c]) =>
         \E s \in Loaded : /\ s.key = heap[c].rcvId /\ s.p = heap[c].p
                           /\ s.readyToPublish <=> heap[c].readyToPublish
    /\ \A c, d \in Linked : heap[c].rcvId = heap[d].rcvId /\ heap[c].rcvId > 0 => c = d

\* What is hashed is linked, waits for its PUBREL, and is persisted with the id
\* under which it is hashed.
HashOK ==
    \A id \in MsgIds : rpHash[id] # Null =>
      /\ rpHash[id] \in Linked /\ ~heap[rpHash[id]].readyToPublish
      /\ \E s \in Loaded : s.key = heap[rpHash[id]].rcvId /\ s.id = id

QueueOK ==
    /\ QueueType
    /\ EntriesOK
    /\ HashOK
    /\ rtpEntries = Cardinality(ReadyCells)

\* Every record that waits for its PUBREL is hashed.
AllHashed ==
    \A s \in Loaded : ~s.readyToPublish =>
      \E c \in Linked : heap[c].rcvId = s.key /\ rpHash[s.id] = c

\* Every record has its entry.
AllLinked == \A s \in Loaded : \E c \in Linked : heap[c].rcvId = s.key

-----------------------------------------------------------------------------
(* Lemmas about the data.                                                  *)

LEMMA MallocLemma == Malloc # Null => Malloc \in Addr \ Linked
BY DEF Malloc, FreeCells, Linked

LEMMA EntryFacts ==
    ASSUME NEW e \in Entry
    PROVE  /\ e.p \in Pubs /\ e.rcvId \in 0..RcvMax /\ e.rcvId \in Int
           /\ e.readyToPublish \in BOOLEAN
           /\ Charge(e.p) \in Int
BY PubsAssumption, LimitsAssumption DEF Entry, Charge

LEMMA MinLemma ==
    ASSUME NEW S \in SUBSET Nat, S # {}
    PROVE  Min(S) \in S /\ \A y \in S : Min(S) <= y
<1>1. PICK n \in S : \A i \in S : <<i, n>> \notin OpToRel(<, Nat)
  BY NatLessThanWellFounded, WFMin
<1>2. \A i \in S : ~(i < n)
  BY <1>1, Zenon DEF OpToRel
<1>3. \A i \in S : n <= i
  BY <1>2
<1> QED BY <1>3 DEF Min

\* FirstCell finds a linked cell of the set if there is one, and none before it.
LEMMA FirstCellLemma ==
    ASSUME rcvdPubsQ \in Seq(Addr), NEW X
    PROVE  /\ Linked \cap X = {} => FirstCell(X) = Null
           /\ Linked \cap X # {} =>
                \E i \in 1..Len(rcvdPubsQ) :
                  /\ FirstCell(X) = rcvdPubsQ[i] /\ rcvdPubsQ[i] \in Linked \cap X
                  /\ \A j \in 1..Len(rcvdPubsQ) : j < i => rcvdPubsQ[j] \notin X
<1> DEFINE found == {i \in 1..Len(rcvdPubsQ) : rcvdPubsQ[i] \in X}
<1>1. FirstCell(X) = IF found = {} THEN Null ELSE rcvdPubsQ[Min(found)]
  BY DEF FirstCell
<1>2. found = {} <=> Linked \cap X = {}
  BY DEF Linked, Cells
<1>3. ASSUME found # {}
      PROVE  /\ Min(found) \in 1..Len(rcvdPubsQ) /\ rcvdPubsQ[Min(found)] \in X
             /\ \A j \in 1..Len(rcvdPubsQ) : j < Min(found) => rcvdPubsQ[j] \notin X
  <2>1. found \in SUBSET Nat
    OBVIOUS
  <2>2. Min(found) \in found /\ \A y \in found : Min(found) <= y
    BY <2>1, <1>3, MinLemma
  <2> DEFINE k == Min(found)
  <2> HIDE DEF k
  <2>3. k \in found /\ \A y \in found : k <= y
    BY <2>2 DEF k
  <2>4. ASSUME NEW j \in 1..Len(rcvdPubsQ), j < k PROVE rcvdPubsQ[j] \notin X
    <3>1. j \notin found
      BY <2>1, <2>3, <2>4
    <3> QED BY <3>1
  <2> QED BY <2>3, <2>4 DEF k
<1> HIDE DEF found
<1>4. \A i \in 1..Len(rcvdPubsQ) : rcvdPubsQ[i] \in Linked
  BY DEF Linked, Cells
<1> QED BY <1>1, <1>2, <1>3, <1>4

\* There are finitely many linked cells.
LEMMA LinkedFinite ==
    ASSUME QueueType
    PROVE  IsFiniteSet(Linked) /\ IsFiniteSet(ReadyCells) /\ Cardinality(ReadyCells) \in Nat
<1>1. IsFiniteSet(Linked)
  BY CellsFinite DEF QueueType, Linked
<1>2. IsFiniteSet(ReadyCells)
  BY <1>1, FS_Subset DEF ReadyCells
<1> QED BY <1>1, <1>2, FS_CardinalityType

-----------------------------------------------------------------------------
(* Lemmas about the queue operations.                                      *)

\* What linking a new entry does.
LEMMA LinkLemma ==
    ASSUME QueueOK, Malloc # Null, NEW p \in Pubs, NEW id, NEW released \in BOOLEAN,
           NEW rcvId \in 0..RcvMax,
           StorePublication(Malloc, p, id, released, rcvId)
    PROVE  /\ Malloc \in Addr /\ Malloc \notin Linked
           /\ heap'[Malloc] = [p |-> p, rcvId |-> rcvId, readyToPublish |-> released]
           /\ heap'[Malloc] \in Entry
           /\ \A c \in Linked : heap'[c] = heap[c]
           /\ heap' \in [Addr -> Entry \cup {Freed}]
           /\ rcvdPubsQ' \in Seq(Addr) /\ Distinct(rcvdPubsQ')
           /\ Linked' = Linked \cup {Malloc}
           /\ rtpEntries' = Cardinality(ReadyCells')
           /\ rtpEntries' \in Int /\ numBytesQueued' \in Int
<1> DEFINE a == Malloc
           e == [p |-> p, rcvId |-> rcvId, readyToPublish |-> released]
<1>1. a \in Addr /\ a \notin Linked
  BY MallocLemma
<1>2. e \in Entry /\ e.p = p /\ e.readyToPublish = released
  BY DEF Entry
<1>3. heap' = [heap EXCEPT ![a] = e]
  BY DEF StorePublication
<1> HIDE DEF a, e
<1>4. heap \in [Addr -> Entry \cup {Freed}] /\ rcvdPubsQ \in Seq(Addr) /\ Distinct(rcvdPubsQ)
  BY DEF QueueOK, QueueType, EntriesOK
<1>5. Linked \subseteq Addr
  BY <1>4 DEF Linked, Cells
<1>6. heap'[a] = e /\ \A c \in Linked : heap'[c] = heap[c]
  BY <1>1, <1>3, <1>4, <1>5
<1>7. heap' \in [Addr -> Entry \cup {Freed}]
  BY <1>2, <1>3, <1>4
<1>8. rcvdPubsQ' = Append(rcvdPubsQ, a)
  BY DEF StorePublication, Link, a
<1>9. rcvdPubsQ' \in Seq(Addr) /\ Distinct(rcvdPubsQ') /\ Linked' = Linked \cup {a}
  BY <1>1, <1>4, <1>8, AppendLemma DEF Linked
<1>10. ReadyCells' = IF released THEN ReadyCells \cup {a} ELSE ReadyCells
  BY <1>1, <1>2, <1>6, <1>9 DEF ReadyCells
<1>11. rtpEntries' = IF released THEN rtpEntries + 1 ELSE rtpEntries
  BY DEF StorePublication
<1>12. IsFiniteSet(ReadyCells) /\ a \notin ReadyCells
       /\ rtpEntries = Cardinality(ReadyCells) /\ rtpEntries \in Int
  BY <1>1, LinkedFinite DEF QueueOK, QueueType, ReadyCells
<1>13. rtpEntries' = Cardinality(ReadyCells') /\ rtpEntries' \in Int
  BY <1>10, <1>11, <1>12, FS_AddElement
<1>14. numBytesQueued' \in Int
  BY <1>2, EntryFacts DEF StorePublication, QueueOK, QueueType
<1> QED BY <1>1, <1>2, <1>6, <1>7, <1>9, <1>13, <1>14 DEF a, e

\* A publication with a record: from the network, or from the store.
LEMMA StoreKeptLemma ==
    ASSUME QueueOK, Malloc # Null, NEW r \in Stored,
           Persist, Qos[r.p] > 0, r.key > 0, ~r.readyToPublish => Qos[r.p] = 2,
           \A s \in Loaded : s.key # r.key,
           StorePublication(Malloc, r.p, r.id, r.readyToPublish, r.key),
           Loaded' = Loaded \cup {r}, options' = options
    PROVE  /\ QueueOK'
           /\ AllLinked => AllLinked'
           /\ AllHashed /\ (\A s \in Loaded : ~s.readyToPublish /\ ~r.readyToPublish => s.id # r.id)
                => AllHashed'
<1> DEFINE a == Malloc
<1>1. r.p \in Pubs /\ r.id \in MsgIds /\ r.key \in 0..RcvMax /\ r.readyToPublish \in BOOLEAN
  BY StoredFacts
<1>2. /\ a \in Addr /\ a \notin Linked
      /\ heap'[a] = [p |-> r.p, rcvId |-> r.key, readyToPublish |-> r.readyToPublish]
      /\ heap'[a] \in Entry
      /\ \A c \in Linked : heap'[c] = heap[c]
      /\ heap' \in [Addr -> Entry \cup {Freed}]
      /\ rcvdPubsQ' \in Seq(Addr) /\ Distinct(rcvdPubsQ')
      /\ Linked' = Linked \cup {a}
      /\ rtpEntries' = Cardinality(ReadyCells')
      /\ rtpEntries' \in Int /\ numBytesQueued' \in Int
  BY <1>1, LinkLemma
<1>3. heap'[a].p = r.p /\ heap'[a].rcvId = r.key /\ heap'[a].readyToPublish = r.readyToPublish
  BY <1>2
<1>4. rpHash' = IF ~r.readyToPublish THEN [rpHash EXCEPT ![r.id] = a] ELSE rpHash
  BY DEF StorePublication, Hashed
<1>5. a # Null
  OBVIOUS
<1> HIDE DEF a
<1>6. QueueType'
  BY <1>1, <1>2, <1>4 DEF QueueOK, QueueType
<1>7. \A e : Kept(e)' <=> Kept(e)
  BY DEF Kept, Persist
<1>8. \A c \in Linked : heap[c].rcvId # r.key
  BY DEF QueueOK, EntriesOK
<1>9. EntriesOK'
  <2>1. \A c \in Linked' : heap'[c] \in Entry
    BY <1>2 DEF QueueOK, EntriesOK
  <2>2. \A c \in Linked' : ~Kept(heap[c])' =>
          heap'[c].rcvId = 0 /\ heap'[c].readyToPublish
    <3> SUFFICES ASSUME NEW c \in Linked', ~Kept(heap[c])'
                 PROVE  heap'[c].rcvId = 0 /\ heap'[c].readyToPublish
      OBVIOUS
    <3>1. ~(Persist /\ Qos[heap'[c].p] > 0)
      BY DEF Kept, Persist
    <3>2. c \in Linked
      BY <1>2, <1>3, <3>1
    <3> QED BY <3>1, <3>2, <1>2 DEF QueueOK, EntriesOK, Kept
  <2>3. \A c \in Linked' : Kept(heap[c])' =>
          \E s \in Loaded' : /\ s.key = heap'[c].rcvId /\ s.p = heap'[c].p
                             /\ s.readyToPublish <=> heap'[c].readyToPublish
    <3> SUFFICES ASSUME NEW c \in Linked', Kept(heap[c])'
                 PROVE  \E s \in Loaded' : /\ s.key = heap'[c].rcvId /\ s.p = heap'[c].p
                                           /\ s.readyToPublish <=> heap'[c].readyToPublish
      OBVIOUS
    <3>1. CASE c = a
      BY <3>1, <1>3
    <3>2. CASE c \in Linked
      <4>1. Kept(heap[c])
        BY <3>2, <1>2 DEF Kept, Persist
      <4> QED BY <3>2, <4>1, <1>2 DEF QueueOK, EntriesOK
    <3> QED BY <3>1, <3>2, <1>2
  <2>4. \A c, d \in Linked' : heap'[c].rcvId = heap'[d].rcvId /\ heap'[c].rcvId > 0 => c = d
    BY <1>2, <1>3, <1>8 DEF QueueOK, EntriesOK
  <2> QED BY <2>1, <2>2, <2>3, <2>4, <1>2 DEF EntriesOK
<1>10. HashOK'
  <2> SUFFICES ASSUME NEW id \in MsgIds, rpHash'[id] # Null
               PROVE  /\ rpHash'[id] \in Linked' /\ ~heap'[rpHash'[id]].readyToPublish
                      /\ \E s \in Loaded' : s.key = heap'[rpHash'[id]].rcvId /\ s.id = id
    BY DEF HashOK
  <2>1. CASE ~r.readyToPublish /\ id = r.id
    <3>1. rpHash'[id] = a
      BY <2>1, <1>4 DEF QueueOK, QueueType
    <3> QED BY <2>1, <3>1, <1>2, <1>3
  <2>2. CASE r.readyToPublish \/ id # r.id
    <3>1. rpHash'[id] = rpHash[id]
      BY <2>2, <1>4 DEF QueueOK, QueueType
    <3> QED BY <3>1, <1>2 DEF QueueOK, HashOK
  <2> QED BY <2>1, <2>2
<1>11. AllLinked => AllLinked'
  BY <1>2, <1>3 DEF AllLinked
<1>12. ASSUME AllHashed,
              \A s \in Loaded : ~s.readyToPublish /\ ~r.readyToPublish => s.id # r.id
       PROVE  AllHashed'
  <2> SUFFICES ASSUME NEW s \in Loaded', ~s.readyToPublish
               PROVE  \E c \in Linked' : heap'[c].rcvId = s.key /\ rpHash'[s.id] = c
    BY DEF AllHashed
  <2>1. CASE s = r
    <3>1. rpHash'[s.id] = a
      BY <2>1, <1>1, <1>4 DEF QueueOK, QueueType
    <3> QED BY <2>1, <3>1, <1>2, <1>3
  <2>2. CASE s \in Loaded
    <3>1. PICK c \in Linked : heap[c].rcvId = s.key /\ rpHash[s.id] = c
      BY <2>2, <1>12 DEF AllHashed
    <3>2. rpHash'[s.id] = rpHash[s.id]
      BY <2>2, <1>4, <1>12 DEF QueueOK, QueueType
    <3> QED BY <3>1, <3>2, <1>2
  <2> QED BY <2>1, <2>2
<1> QED BY <1>2, <1>6, <1>9, <1>10, <1>11, <1>12 DEF QueueOK

\* A publication without a record: it is ready when it arrives.
LEMMA StorePlainLemma ==
    ASSUME QueueOK, Malloc # Null, NEW p \in Pubs, NEW id,
           ~(Persist /\ Qos[p] > 0), Qos[p] # 2,
           StorePublication(Malloc, p, id, TRUE, 0),
           Loaded' = Loaded, options' = options
    PROVE  /\ QueueOK'
           /\ AllLinked => AllLinked'
           /\ AllHashed => AllHashed'
<1> DEFINE a == Malloc
<1>1. 0 \in 0..RcvMax
  BY LimitsAssumption
<1>2. /\ a \in Addr /\ a \notin Linked
      /\ heap'[a] = [p |-> p, rcvId |-> 0, readyToPublish |-> TRUE]
      /\ heap'[a] \in Entry
      /\ \A c \in Linked : heap'[c] = heap[c]
      /\ heap' \in [Addr -> Entry \cup {Freed}]
      /\ rcvdPubsQ' \in Seq(Addr) /\ Distinct(rcvdPubsQ')
      /\ Linked' = Linked \cup {a}
      /\ rtpEntries' = Cardinality(ReadyCells')
      /\ rtpEntries' \in Int /\ numBytesQueued' \in Int
  BY <1>1, LinkLemma
<1>3. heap'[a].p = p /\ heap'[a].rcvId = 0 /\ heap'[a].readyToPublish
  BY <1>2
<1>4. rpHash' = rpHash
  BY DEF StorePublication, Hashed
<1> HIDE DEF a
<1>5. QueueType'
  BY <1>2, <1>4 DEF QueueOK, QueueType
<1>6. EntriesOK'
  <2>1. \A c \in Linked' : heap'[c] \in Entry
    BY <1>2 DEF QueueOK, EntriesOK
  <2>2. \A c \in Linked' : ~Kept(heap[c])' =>
          heap'[c].rcvId = 0 /\ heap'[c].readyToPublish
    <3> SUFFICES ASSUME NEW c \in Linked', ~Kept(heap[c])'
                 PROVE  heap'[c].rcvId = 0 /\ heap'[c].readyToPublish
      OBVIOUS
    <3>1. ~(Persist /\ Qos[heap'[c].p] > 0)
      BY DEF Kept, Persist
    <3>2. CASE c = a
      BY <3>2, <1>3
    <3>3. CASE c \in Linked
      BY <3>1, <3>3, <1>2 DEF QueueOK, EntriesOK, Kept
    <3> QED BY <3>2, <3>3, <1>2
  <2>3. \A c \in Linked' : Kept(heap[c])' =>
          \E s \in Loaded' : /\ s.key = heap'[c].rcvId /\ s.p = heap'[c].p
                             /\ s.readyToPublish <=> heap'[c].readyToPublish
    <3> SUFFICES ASSUME NEW c \in Linked', Kept(heap[c])'
                 PROVE  \E s \in Loaded' : /\ s.key = heap'[c].rcvId /\ s.p = heap'[c].p
                                           /\ s.readyToPublish <=> heap'[c].readyToPublish
      OBVIOUS
    <3>1. Persist /\ Qos[heap'[c].p] > 0
      BY DEF Kept, Persist
    <3>2. c \in Linked
      BY <3>1, <1>2, <1>3
    <3> QED BY <3>1, <3>2, <1>2 DEF QueueOK, EntriesOK, Kept
  <2>4. \A c, d \in Linked' : heap'[c].rcvId = heap'[d].rcvId /\ heap'[c].rcvId > 0 => c = d
    BY <1>2, <1>3 DEF QueueOK, EntriesOK
  <2> QED BY <2>1, <2>2, <2>3, <2>4, <1>2 DEF EntriesOK
<1>7. HashOK'
  BY <1>2, <1>4 DEF QueueOK, HashOK
<1>8. AllLinked => AllLinked'
  BY <1>2 DEF AllLinked
<1>9. AllHashed => AllHashed'
  BY <1>2, <1>4 DEF AllHashed
<1> QED BY <1>2, <1>5, <1>6, <1>7, <1>8, <1>9 DEF QueueOK

\* The end of the connection handle.
LEMMA EmptyQueueLemma ==
    ASSUME EmptyQueue
    PROVE  QueueOK' /\ Linked' = {}
<1>1. Linked' = {}
  BY DEF EmptyQueue, Linked, Cells
<1>2. QueueType'
  BY DEF EmptyQueue, QueueType
<1>3. EntriesOK'
  BY <1>1 DEF EmptyQueue, EntriesOK, Distinct
<1>4. HashOK'
  BY DEF EmptyQueue, HashOK
<1>5. ReadyCells' = {}
  BY <1>1 DEF ReadyCells
<1>6. rtpEntries' = Cardinality(ReadyCells')
  BY <1>5, FS_EmptySet DEF EmptyQueue
<1> QED BY <1>1, <1>2, <1>3, <1>4, <1>6 DEF QueueOK

\* A failed addReceivedMessage clears the hash slot of the id.
LEMMA UnhashLemma ==
    ASSUME QueueOK, NEW id \in MsgIds, rpHash' = [rpHash EXCEPT ![id] = Null],
           UNCHANGED <<heap, rcvdPubsQ, rtpEntries, numBytesQueued, options>>,
           Loaded' = Loaded
    PROVE  /\ QueueOK'
           /\ AllLinked => AllLinked'
           /\ AllHashed /\ (\A s \in Loaded : ~s.readyToPublish => s.id # id) => AllHashed'
<1>1. Linked' = Linked /\ ReadyCells' = ReadyCells
  BY DEF Linked, ReadyCells
<1>2. QueueType'
  BY DEF QueueOK, QueueType
<1>3. EntriesOK'
  BY <1>1 DEF QueueOK, EntriesOK, Kept, Persist
<1>4. \A i \in MsgIds : rpHash'[i] = IF i = id THEN Null ELSE rpHash[i]
  BY DEF QueueOK, QueueType
<1>5. HashOK'
  BY <1>1, <1>4 DEF QueueOK, HashOK
<1>6. AllLinked => AllLinked'
  BY <1>1 DEF AllLinked
<1>7. ASSUME AllHashed, \A s \in Loaded : ~s.readyToPublish => s.id # id PROVE AllHashed'
  <2>1. \A s \in Loaded : ~s.readyToPublish => rpHash'[s.id] = rpHash[s.id]
    BY <1>7 DEF QueueOK, QueueType
  <2> QED BY <2>1, <1>1, <1>7 DEF AllHashed
<1> QED BY <1>1, <1>2, <1>3, <1>5, <1>6, <1>7 DEF QueueOK

\* Nothing happens to the queue or to the loaded part of the store.
LEMMA SameQueueLemma ==
    ASSUME QueueOK, UNCHANGED <<queueVars, options>>, Loaded' = Loaded
    PROVE  /\ QueueOK'
           /\ AllLinked => AllLinked'
           /\ AllHashed => AllHashed'
<1>1. Linked' = Linked /\ ReadyCells' = ReadyCells
  BY DEF Linked, ReadyCells, queueVars
<1>2. QueueType' /\ EntriesOK' /\ HashOK'
  BY <1>1 DEF QueueOK, QueueType, EntriesOK, HashOK, Kept, Persist, queueVars
<1> QED BY <1>1, <1>2 DEF QueueOK, AllLinked, AllHashed, queueVars

\* A PUBREL releases the entry hashed under its id, and its record.
LEMMA ReleaseEntryLemma ==
    ASSUME QueueOK, NEW id \in MsgIds, rpHash[id] # Null,
           rcvdStore \subseteq Stored, Loaded = rcvdStore, Loaded' = rcvdStore',
           \A s, t \in rcvdStore : s.key = t.key => s = t,
           \A s \in rcvdStore : s.key > 0,
           rcvdStore' = Release(rcvdStore, heap[rpHash[id]].rcvId),
           heap' = [heap EXCEPT ![rpHash[id]].readyToPublish = TRUE],
           rtpEntries' = rtpEntries + 1, rpHash' = Unhash(id),
           UNCHANGED <<rcvdPubsQ, numBytesQueued, options>>
    PROVE  /\ QueueOK'
           /\ AllLinked => AllLinked'
           /\ AllHashed => AllHashed'
<1> DEFINE a == rpHash[id]
           k == heap[a].rcvId
<1>1. /\ a \in Linked /\ ~heap[a].readyToPublish /\ heap[a] \in Entry
      /\ \E s \in rcvdStore : s.key = k /\ s.id = id
  BY DEF QueueOK, HashOK, EntriesOK
<1>2. heap \in [Addr -> Entry \cup {Freed}] /\ rcvdPubsQ \in Seq(Addr)
  BY DEF QueueOK, QueueType
<1>3. Linked \subseteq Addr /\ Linked' = Linked
  BY <1>2 DEF Linked, Cells
<1>4. heap' = [heap EXCEPT ![a].readyToPublish = TRUE]
  OBVIOUS
<1>5. \A i \in MsgIds : rpHash'[i] = IF i = id THEN Null ELSE rpHash[i]
  BY DEF Unhash, QueueOK, QueueType
<1>6. /\ rcvdStore' \subseteq Stored
      /\ \A s \in rcvdStore : \E t \in rcvdStore' :
           /\ t.key = s.key /\ t.p = s.p /\ t.id = s.id
           /\ t.readyToPublish <=> s.readyToPublish \/ s.key = k
      /\ \A t \in rcvdStore' : \E s \in rcvdStore :
           /\ t.key = s.key /\ t.p = s.p /\ t.id = s.id
           /\ t.readyToPublish <=> s.readyToPublish \/ s.key = k
  BY ReleaseFacts
<1>7. rpHash' = [rpHash EXCEPT ![id] = Null]
  BY DEF Unhash
<1> HIDE DEF a
<1>8. /\ heap'[a] \in Entry /\ heap'[a].readyToPublish
      /\ heap'[a].p = heap[a].p /\ heap'[a].rcvId = k
      /\ \A c \in Addr : c # a => heap'[c] = heap[c]
  BY <1>1, <1>2, <1>3, <1>4 DEF Entry
<1> HIDE DEF k
<1>9. k > 0
  BY <1>1
<1>10. QueueType'
  <2>1. heap' \in [Addr -> Entry \cup {Freed}]
    BY <1>1, <1>2, <1>3, <1>4, <1>8
  <2> QED BY <2>1, <1>7 DEF QueueOK, QueueType
<1>11. \A c \in Linked : c # a => heap[c].rcvId # k
  BY <1>1, <1>9 DEF QueueOK, EntriesOK, k
<1>12. EntriesOK'
  <2>1. Distinct(rcvdPubsQ') /\ \A c \in Linked' : heap'[c] \in Entry
    BY <1>3, <1>8 DEF QueueOK, EntriesOK
  <2>2. \A c \in Linked' : ~Kept(heap[c])' =>
          heap'[c].rcvId = 0 /\ heap'[c].readyToPublish
    <3> SUFFICES ASSUME NEW c \in Linked, ~(Persist /\ Qos[heap'[c].p] > 0)
                 PROVE  heap'[c].rcvId = 0 /\ heap'[c].readyToPublish
      BY <1>3 DEF Kept, Persist
    <3>1. CASE c = a
      BY <3>1, <1>1, <1>8 DEF QueueOK, EntriesOK, Kept
    <3>2. CASE c # a
      BY <3>2, <1>3, <1>8 DEF QueueOK, EntriesOK, Kept
    <3> QED BY <3>1, <3>2
  <2>3. \A c \in Linked' : Kept(heap[c])' =>
          \E s \in Loaded' : /\ s.key = heap'[c].rcvId /\ s.p = heap'[c].p
                             /\ s.readyToPublish <=> heap'[c].readyToPublish
    <3> SUFFICES ASSUME NEW c \in Linked, Persist /\ Qos[heap'[c].p] > 0
                 PROVE  \E s \in rcvdStore' : /\ s.key = heap'[c].rcvId /\ s.p = heap'[c].p
                                              /\ s.readyToPublish <=> heap'[c].readyToPublish
      BY <1>3 DEF Kept, Persist
    <3>1. heap'[c].p = heap[c].p /\ heap'[c].rcvId = heap[c].rcvId
      BY <1>3, <1>8 DEF k
    <3>2. PICK s \in rcvdStore : /\ s.key = heap[c].rcvId /\ s.p = heap[c].p
                                 /\ s.readyToPublish <=> heap[c].readyToPublish
      BY <3>1 DEF QueueOK, EntriesOK, Kept
    <3>3. PICK t \in rcvdStore' : /\ t.key = s.key /\ t.p = s.p
                                  /\ t.readyToPublish <=> s.readyToPublish \/ s.key = k
      BY <1>6
    <3>4. t.readyToPublish <=> heap'[c].readyToPublish
      <4>1. CASE c = a
        BY <4>1, <3>2, <3>3, <1>8 DEF k
      <4>2. CASE c # a
        BY <4>2, <3>2, <3>3, <1>3, <1>8, <1>11
      <4> QED BY <4>1, <4>2
    <3> QED BY <3>1, <3>2, <3>3, <3>4
  <2>4. \A c, e \in Linked' : heap'[c].rcvId = heap'[e].rcvId /\ heap'[c].rcvId > 0 => c = e
    <3>1. \A c \in Linked : heap'[c].rcvId = heap[c].rcvId
      BY <1>3, <1>8 DEF k
    <3> QED BY <3>1, <1>3 DEF QueueOK, EntriesOK
  <2> QED BY <2>1, <2>2, <2>3, <2>4 DEF EntriesOK
<1>13. \A i \in MsgIds : i # id => rpHash[i] # a
  <2> SUFFICES ASSUME NEW i \in MsgIds, rpHash[i] = a PROVE i = id
    OBVIOUS
  <2>1. a # Null
    BY DEF a
  <2>2. PICK s \in rcvdStore : s.key = k /\ s.id = i
    BY <2>1 DEF QueueOK, HashOK, k
  <2>3. PICK t \in rcvdStore : t.key = k /\ t.id = id
    BY <1>1
  <2> QED BY <2>2, <2>3
<1>14. HashOK'
  <2> SUFFICES ASSUME NEW i \in MsgIds, rpHash'[i] # Null
               PROVE  /\ rpHash'[i] \in Linked' /\ ~heap'[rpHash'[i]].readyToPublish
                      /\ \E s \in Loaded' : s.key = heap'[rpHash'[i]].rcvId /\ s.id = i
    BY DEF HashOK
  <2>1. i # id /\ rpHash'[i] = rpHash[i] /\ rpHash[i] # a
    BY <1>5, <1>13
  <2>2. /\ rpHash[i] \in Linked /\ ~heap[rpHash[i]].readyToPublish
        /\ \E s \in rcvdStore : s.key = heap[rpHash[i]].rcvId /\ s.id = i
    BY <2>1 DEF QueueOK, HashOK
  <2>3. heap'[rpHash[i]] = heap[rpHash[i]]
    BY <2>1, <2>2, <1>3, <1>8
  <2>4. \E t \in rcvdStore' : t.key = heap[rpHash[i]].rcvId /\ t.id = i
    BY <2>2, <1>6
  <2> QED BY <2>1, <2>2, <2>3, <2>4, <1>3
<1>15. rtpEntries' = Cardinality(ReadyCells')
  <2>1. ReadyCells' = ReadyCells \cup {a}
    BY <1>1, <1>3, <1>8 DEF ReadyCells
  <2>2. IsFiniteSet(ReadyCells) /\ a \notin ReadyCells /\ rtpEntries = Cardinality(ReadyCells)
    BY <1>1, LinkedFinite DEF QueueOK, ReadyCells
  <2> QED BY <2>1, <2>2, FS_AddElement
<1>16. AllLinked => AllLinked'
  <2>1. \A c \in Linked : heap'[c].rcvId = heap[c].rcvId
    BY <1>3, <1>8 DEF k
  <2> QED BY <2>1, <1>3, <1>6 DEF AllLinked
<1>17. ASSUME AllHashed PROVE AllHashed'
  <2> SUFFICES ASSUME NEW t \in rcvdStore', ~t.readyToPublish
               PROVE  \E c \in Linked' : heap'[c].rcvId = t.key /\ rpHash'[t.id] = c
    BY DEF AllHashed
  <2>1. PICK s \in rcvdStore : /\ t.key = s.key /\ t.id = s.id
                               /\ ~s.readyToPublish /\ s.key # k
    BY <1>6
  <2>2. PICK c \in Linked : heap[c].rcvId = s.key /\ rpHash[s.id] = c
    BY <2>1, <1>17 DEF AllHashed
  <2>3. s.id \in MsgIds
    BY StoredFacts
  <2>4. s.id # id
    BY <2>1, <2>2 DEF a, k
  <2>5. rpHash'[s.id] = c /\ c # a
    BY <2>1, <2>2, <2>3, <2>4, <1>5 DEF k
  <2> QED BY <2>1, <2>2, <2>5, <1>3, <1>8
<1> QED BY <1>10, <1>12, <1>14, <1>15, <1>16, <1>17 DEF QueueOK

\* A released entry is deleted, and at most its record with it.
LEMMA DeleteLemma ==
    ASSUME QueueOK, NEW a \in Linked, heap[a].readyToPublish,
           rcvdStore \subseteq Stored,
           \A s \in rcvdStore : s.key > 0,
           DeleteRPM(a), UNCHANGED <<rpHash, options>>,
           Loaded' \subseteq Loaded,
           \A s \in Loaded : s.key # heap[a].rcvId => s \in Loaded'
    PROVE  /\ QueueOK'
           /\ AllLinked /\ (\A s \in Loaded' : s.key # heap[a].rcvId) => AllLinked'
           /\ AllHashed => AllHashed'
<1> DEFINE k == heap[a].rcvId
<1>1. heap' = [heap EXCEPT ![a] = Freed] /\ rcvdPubsQ' = Unlink(rcvdPubsQ, a)
  BY DEF DeleteRPM
<1>2. /\ heap \in [Addr -> Entry \cup {Freed}] /\ rcvdPubsQ \in Seq(Addr)
      /\ Distinct(rcvdPubsQ) /\ heap[a] \in Entry
  BY DEF QueueOK, QueueType, EntriesOK
<1>3. rcvdPubsQ' \in Seq(Addr) /\ Distinct(rcvdPubsQ') /\ Linked' = Linked \ {a}
  BY <1>1, <1>2, UnlinkLemma DEF Linked
<1>4. Linked \subseteq Addr
  BY <1>2 DEF Linked, Cells
<1>5. \A c \in Linked' : c \in Linked /\ c # a /\ heap'[c] = heap[c]
  BY <1>1, <1>2, <1>3, <1>4
<1> HIDE DEF k
<1>6. QueueType'
  <2>1. heap' \in [Addr -> Entry \cup {Freed}]
    BY <1>1, <1>2
  <2>2. rtpEntries' \in Int /\ numBytesQueued' \in Int
    BY <1>2, EntryFacts DEF DeleteRPM, CountAfterDelete, QueueOK, QueueType
  <2> QED BY <2>1, <2>2, <1>3 DEF QueueOK, QueueType
<1>7. \A s \in Loaded : s \in rcvdStore
  BY DEF Loaded
<1>8. \A c \in Linked', s \in Loaded : s.key = heap[c].rcvId => s \in Loaded'
  <2> SUFFICES ASSUME NEW c \in Linked', NEW s \in Loaded, s.key = heap[c].rcvId
               PROVE  s.key # k
    BY DEF k
  <2>1. s.key > 0 /\ c \in Linked /\ c # a
    BY <1>5, <1>7
  <2> QED BY <2>1 DEF QueueOK, EntriesOK, k
<1>9. EntriesOK'
  <2>1. \A c \in Linked' : Kept(heap[c])' <=> Kept(heap[c])
    BY <1>5 DEF Kept, Persist
  <2>2. \A c \in Linked' : heap'[c] \in Entry
    BY <1>5 DEF QueueOK, EntriesOK
  <2>3. \A c \in Linked' : ~Kept(heap[c])' =>
          heap'[c].rcvId = 0 /\ heap'[c].readyToPublish
    BY <1>5, <2>1 DEF QueueOK, EntriesOK
  <2>4. \A c \in Linked' : Kept(heap[c])' =>
          \E s \in Loaded' : /\ s.key = heap'[c].rcvId /\ s.p = heap'[c].p
                             /\ s.readyToPublish <=> heap'[c].readyToPublish
    BY <1>5, <1>8, <2>1 DEF QueueOK, EntriesOK
  <2>5. \A c, e \in Linked' : heap'[c].rcvId = heap'[e].rcvId /\ heap'[c].rcvId > 0 => c = e
    BY <1>5 DEF QueueOK, EntriesOK
  <2> QED BY <2>2, <2>3, <2>4, <2>5, <1>3 DEF EntriesOK
<1>10. \A id \in MsgIds : rpHash[id] # Null => rpHash[id] \in Linked'
  BY <1>3 DEF QueueOK, HashOK
<1>11. HashOK'
  <2> SUFFICES ASSUME NEW id \in MsgIds, rpHash[id] # Null
               PROVE  /\ rpHash[id] \in Linked' /\ ~heap'[rpHash[id]].readyToPublish
                      /\ \E s \in Loaded' : s.key = heap'[rpHash[id]].rcvId /\ s.id = id
    BY DEF HashOK
  <2>1. rpHash[id] \in Linked' /\ heap'[rpHash[id]] = heap[rpHash[id]]
    BY <1>5, <1>10
  <2>2. /\ ~heap[rpHash[id]].readyToPublish
        /\ \E s \in Loaded : s.key = heap[rpHash[id]].rcvId /\ s.id = id
    BY DEF QueueOK, HashOK
  <2> QED BY <2>1, <2>2, <1>8
<1>12. rtpEntries' = Cardinality(ReadyCells')
  <2>1. ReadyCells' = ReadyCells \ {a}
    BY <1>3, <1>5 DEF ReadyCells
  <2>2. IsFiniteSet(ReadyCells) /\ a \in ReadyCells /\ rtpEntries = Cardinality(ReadyCells)
    BY LinkedFinite DEF QueueOK, ReadyCells
  <2>3. rtpEntries' = rtpEntries - 1
    BY DEF DeleteRPM, CountAfterDelete
  <2> QED BY <2>1, <2>2, <2>3, FS_RemoveElement
<1>13. ASSUME AllLinked, \A s \in Loaded' : s.key # k PROVE AllLinked'
  <2> SUFFICES ASSUME NEW s \in Loaded' PROVE \E c \in Linked' : heap'[c].rcvId = s.key
    BY DEF AllLinked
  <2>1. PICK c \in Linked : heap[c].rcvId = s.key
    BY <1>13 DEF AllLinked
  <2>2. c # a
    BY <2>1, <1>13 DEF k
  <2> QED BY <2>1, <2>2, <1>3, <1>5
<1>14. ASSUME AllHashed PROVE AllHashed'
  <2> SUFFICES ASSUME NEW s \in Loaded', ~s.readyToPublish
               PROVE  \E c \in Linked' : heap'[c].rcvId = s.key /\ rpHash'[s.id] = c
    BY DEF AllHashed
  <2>1. PICK c \in Linked : heap[c].rcvId = s.key /\ rpHash[s.id] = c
    BY <1>14 DEF AllHashed
  <2>2. s.id \in MsgIds /\ c # Null
    BY <2>1, <1>4, <1>7, MemoryAssumption, StoredFacts
  <2>3. c \in Linked'
    BY <2>1, <2>2, <1>10
  <2> QED BY <2>1, <2>3, <1>5
<1> QED BY <1>6, <1>9, <1>11, <1>12, <1>13, <1>14 DEF QueueOK, k

-----------------------------------------------------------------------------
(* The inductive invariant.                                                *)

ControlType ==
    /\ pc \in {"off", "load", "idle", "taken"}
    /\ sockOpen \in BOOLEAN
    /\ nextRcvId \in 0..RcvMax
    /\ faults \in Nat /\ stops \in Nat

\* The keys of the store are distinct and no larger than the last rcvId.
StoreOK ==
    /\ toLoad \subseteq rcvdStore
    /\ pc # "load" => toLoad = {}
    /\ ~Persist => rcvdStore = {}
    /\ CleanStart /\ pc = "load" => rcvdStore = {}
    /\ \A s, t \in rcvdStore : s.key = t.key => s = t
    /\ \A s \in rcvdStore : s.key > 0
    /\ pc # "off" => \A s \in Loaded : s.key <= nextRcvId

LinksOK ==
    /\ pc = "off" => Linked = {}
    /\ pc # "off" => AllHashed
    /\ pc # "off" /\ ~StoreFails => AllLinked

NetOK ==
    /\ pc \in {"off", "load"} => ~sockOpen
    /\ ~sockOpen => toClient = <<>> /\ toBroker = <<>>

\* What the application is about to confirm is linked, released, and the cell
\* that its confirmation will delete.
TakenOK ==
    IF pc = "taken"
      THEN /\ taken[1] \in Linked /\ heap[taken[1]].readyToPublish
           /\ taken[2] = heap[taken[1]].p /\ taken[3] = heap[taken[1]].rcvId
           /\ ConfirmedCell(taken[3]) = taken[1]
      ELSE taken = <<>>

ExchangeInv == Exchange(toClient, toBroker, rcvdStore, delivered, phase, idOf, options)

IInv ==
    /\ ControlType
    /\ StoreOK
    /\ QueueOK
    /\ LinksOK
    /\ NetOK
    /\ TakenOK
    /\ ExchangeInv

-----------------------------------------------------------------------------
(* Lemmas about parts of the invariant.                                    *)

LEMMA FaultLemma == faults \in Nat /\ Fault => faults' \in Nat
BY DEF Fault

LEMMA StoredLemma == IInv => rcvdStore \subseteq Stored /\ options \in Options
BY DEF IInv, ExchangeInv, Exchange, ExchangeType

\* Without persistence a publication is released on arrival.
LEMMA PlainLemma ==
    ASSUME IInv, Identified, NEW p \in Pubs, ~(Persist /\ Qos[p] > 0)
    PROVE  Qos[p] # 2
BY PubsAssumption DEF Identified

\* The queue and the store stay as they are.
LEMMA StayLemma ==
    ASSUME IInv, UNCHANGED <<toLoad, nextRcvId, queueVars, rcvdStore, options>>,
           \/ pc' = pc
           \/ pc # "off" /\ pc' \in {"idle", "taken"} /\ toLoad = {}
    PROVE  StoreOK' /\ QueueOK' /\ LinksOK'
<1>1. Loaded' = Loaded
  BY DEF Loaded
<1>2. QueueOK' /\ (AllLinked => AllLinked') /\ (AllHashed => AllHashed')
  BY <1>1, SameQueueLemma DEF IInv
<1>3. StoreOK'
  BY <1>1 DEF IInv, StoreOK, Persist, CleanStart
<1>4. Linked' = Linked
  BY DEF Linked, queueVars
<1>5. LinksOK'
  BY <1>2, <1>4 DEF IInv, LinksOK, StoreFails
<1> QED BY <1>2, <1>3, <1>5

\* Nothing but the network and the broker changes.
LEMMA QuietLemma ==
    ASSUME IInv, UNCHANGED <<loadVars, nextRcvId, queueVars, rcvdStore, options>>,
           sockOpen' \in BOOLEAN, faults' \in Nat, stops' \in Nat,
           NetOK', ExchangeInv'
    PROVE  IInv'
<1>1. StoreOK' /\ QueueOK' /\ LinksOK'
  BY StayLemma DEF loadVars
<1>2. TakenOK'
  BY DEF IInv, TakenOK, Linked, ConfirmedCell, FirstCell, queueVars, loadVars
<1>3. ControlType'
  BY DEF IInv, ControlType, loadVars
<1> QED BY <1>1, <1>2, <1>3 DEF IInv

\* The connection handle goes.
LEMMA DropLemma ==
    ASSUME IInv, DropHandle, faults' \in Nat, stops' \in Nat,
           rcvdStore' = rcvdStore \/ (CleanStart /\ rcvdStore' = {})
    PROVE  IInv'
<1>1. /\ pc' = "off" /\ sockOpen' = FALSE /\ toBroker' = <<>> /\ toClient' = <<>>
      /\ nextRcvId' = 0 /\ toLoad' = {} /\ taken' = <<>>
      /\ phase' = phase /\ idOf' = idOf /\ delivered' = delivered /\ options' = options
  BY DEF DropHandle, CloseSocket, brokerVars, appVars
<1>2. QueueOK' /\ Linked' = {}
  BY EmptyQueueLemma DEF DropHandle
<1>3. ControlType'
  <2>1. 0 \in 0..RcvMax
    BY LimitsAssumption
  <2> QED BY <1>1, <2>1 DEF ControlType
<1>4. StoreOK'
  BY <1>1 DEF IInv, StoreOK, Persist
<1>5. LinksOK' /\ NetOK' /\ TakenOK'
  BY <1>1, <1>2 DEF LinksOK, NetOK, TakenOK
<1>6. Exchange(<<>>, <<>>, rcvdStore, delivered, phase, idOf, options)
  BY LostLemma DEF IInv, ExchangeInv
<1>7. CleanStart => Exchange(<<>>, <<>>, {}, delivered, phase, idOf, options)
  BY <1>6, ResetLemma DEF CleanStart
<1>8. ExchangeInv'
  BY <1>1, <1>6, <1>7 DEF ExchangeInv
<1> QED BY <1>2, <1>3, <1>4, <1>5, <1>8 DEF IInv

\* A socket is opened, or the attempt fails.
LEMMA OpenLemma ==
    ASSUME IInv, ~sockOpen, pc' = "idle", OpenSocket,
           UNCHANGED <<rcvdStore, idOf, appVars>>,
           CleanStart => rcvdStore = {}
    PROVE  sockOpen' \in BOOLEAN /\ faults' \in Nat /\ NetOK' /\ ExchangeInv'
<1>1. toClient' = <<>> /\ toBroker' = <<>> /\ toClient = <<>> /\ toBroker = <<>>
  BY DEF IInv, NetOK, OpenSocket, netVars
<1>2. sockOpen' \in BOOLEAN /\ faults' \in Nat
  BY FaultLemma DEF IInv, ControlType, OpenSocket
<1>3. NetOK'
  BY <1>1 DEF NetOK
<1>4. Exchange(<<>>, <<>>, rcvdStore, delivered, phase, idOf, options)
  BY <1>1 DEF IInv, ExchangeInv
<1>5. CASE phase' = phase
  BY <1>1, <1>2, <1>3, <1>4, <1>5 DEF ExchangeInv, appVars
<1>6. CASE phase' = Session /\ ~CleanStart
  <2>1. Session = phase
    BY <1>6, <1>4 DEF Session, Exchange, ExchangeType
  <2> QED BY <1>5, <1>6, <2>1, <1>2, <1>3
<1>7. CASE phase' = Session /\ CleanStart
  <2>1. Session = [p \in Pubs |-> IF phase[p] \in {"sent", "rel"} THEN "dropped" ELSE phase[p]]
    BY <1>7 DEF Session
  <2>2. Exchange(<<>>, <<>>, {}, delivered, Session, idOf, options)
    BY <1>4, <1>7, <2>1, SessionLemma DEF CleanStart
  <2> QED BY <2>2, <1>1, <1>2, <1>3, <1>7 DEF ExchangeInv, appVars
<1>8. phase' = phase \/ phase' = Session
  BY DEF OpenSocket
<1> QED BY <1>5, <1>6, <1>7, <1>8, Zenon

\* An answer is written, or is lost.
LEMMA TransmitLemma ==
    ASSUME IInv, pc' = "idle", NEW w, Transmit(w, Tail(toClient)),
           Exchange(Tail(toClient), toBroker, rcvdStore', delivered', phase', idOf', options'),
           Exchange(Tail(toClient), Append(toBroker, w), rcvdStore', delivered', phase', idOf',
                    options')
    PROVE  sockOpen' \in BOOLEAN /\ faults' \in Nat /\ NetOK' /\ ExchangeInv'
<1>1. faults \in Nat
  BY DEF IInv, ControlType
<1>2. Exchange(<<>>, <<>>, rcvdStore', delivered', phase', idOf', options')
  BY LostLemma
<1>3. CASE /\ sockOpen' = TRUE /\ toBroker' = Append(toBroker, w)
           /\ toClient' = Tail(toClient) /\ UNCHANGED faults
  BY <1>1, <1>3 DEF NetOK, ExchangeInv
<1>4. CASE Fault /\ sockOpen' = TRUE /\ toBroker' = toBroker /\ toClient' = Tail(toClient)
  BY <1>1, <1>4, FaultLemma DEF NetOK, ExchangeInv
<1>5. CASE Fault /\ CloseSocket
  BY <1>1, <1>2, <1>5, FaultLemma DEF NetOK, ExchangeInv, CloseSocket
<1> QED BY <1>3, <1>4, <1>5 DEF Transmit

-----------------------------------------------------------------------------
(* The invariant holds at first.                                           *)

LEMMA InitLemma == Init => IInv
<1> SUFFICES ASSUME Init PROVE IInv
  OBVIOUS
<1>1. Linked = {} /\ Loaded = {}
  BY DEF Init, Linked, Loaded, Cells
<1>2. ControlType /\ StoreOK /\ NetOK /\ TakenOK
  <2>1. 0 \in 0..RcvMax
    BY LimitsAssumption
  <2>2. ControlType
    BY <2>1 DEF Init, ControlType
  <2>3. StoreOK
    BY <1>1 DEF Init, StoreOK
  <2>4. NetOK /\ TakenOK
    BY DEF Init, NetOK, TakenOK
  <2> QED BY <2>2, <2>3, <2>4
<1>3. LinksOK
  BY <1>1 DEF Init, LinksOK
<1>4. QueueOK
  <2>1. QueueType
    BY DEF Init, QueueType
  <2>2. EntriesOK
    BY <1>1 DEF Init, EntriesOK, Distinct
  <2>3. HashOK
    BY DEF Init, HashOK
  <2>4. rtpEntries = Cardinality(ReadyCells)
    BY <1>1, FS_EmptySet DEF Init, ReadyCells
  <2> QED BY <2>1, <2>2, <2>3, <2>4 DEF QueueOK
<1>5. ExchangeInv
  <2>1. ExchangeType(toClient, toBroker, rcvdStore, delivered, phase, idOf, options)
    BY DEF Init, ExchangeType, Phases
  <2>2. \A p \in Pubs : phase[p] = "new" /\ delivered[p] = 0
    BY DEF Init
  <2>3. rcvdStore = {} /\ \A i \in 1..Len(toClient) : FALSE
    BY DEF Init
  <2>4. \A i \in 1..Len(toBroker) : FALSE
    BY DEF Init
  <2>5. IdsOK(phase, idOf)
    BY <2>2 DEF IdsOK
  <2>6. ClientOK(toClient, rcvdStore, phase, idOf) /\ OrderOK(toClient)
    BY <2>3 DEF ClientOK, OrderOK
  <2>7. BrokerOK(toClient, toBroker, rcvdStore, phase, idOf)
    BY <2>4 DEF BrokerOK
  <2>8. RecordsOK(rcvdStore, phase, idOf)
    BY <2>3 DEF RecordsOK
  <2>9. ReleasedOK(toClient, rcvdStore, delivered, phase)
    BY <2>2, <2>3 DEF ReleasedOK, Released
  <2>10. OnceOK(rcvdStore, delivered, options)
    BY <2>2 DEF OnceOK
  <2>11. AnsweredOK(toBroker, rcvdStore, delivered, phase, idOf, options)
    BY <2>2, <2>4 DEF AnsweredOK
  <2> QED BY <2>1, <2>5, <2>6, <2>7, <2>8, <2>9, <2>10, <2>11 DEF ExchangeInv, Exchange
<1> QED BY <1>2, <1>3, <1>4, <1>5 DEF IInv

-----------------------------------------------------------------------------
(* Every action preserves it: connecting and stopping.                     *)

LEMMA ConnectStep == IInv /\ Connect => IInv'
<1> SUFFICES ASSUME IInv, Connect PROVE IInv'
  OBVIOUS
<1>1. /\ pc = "off" /\ pc' = "load"
      /\ rcvdStore' = IF CleanStart THEN {} ELSE rcvdStore
      /\ toLoad' = rcvdStore' /\ toLoad = {}
      /\ UNCHANGED <<taken, sockOpen, nextRcvId, queueVars, netVars, brokerVars, appVars,
                     faults, stops>>
  BY DEF Connect, StoreAtConnect, IInv, StoreOK
<1>2. ~sockOpen /\ toClient = <<>> /\ toBroker = <<>> /\ Linked = {}
  BY <1>1 DEF IInv, NetOK, LinksOK
<1>3. Loaded' = {} /\ Linked' = {} /\ ReadyCells' = {} /\ ReadyCells = {}
  BY <1>1, <1>2 DEF Loaded, Linked, ReadyCells, queueVars
<1>4. QueueOK'
  <2>1. QueueType'
    BY <1>1 DEF IInv, QueueOK, QueueType, queueVars
  <2>2. EntriesOK'
    BY <1>1, <1>3 DEF IInv, QueueOK, EntriesOK, queueVars
  <2>3. \A id \in MsgIds : rpHash[id] = Null
    BY <1>2 DEF IInv, QueueOK, HashOK
  <2>4. HashOK'
    BY <1>1, <2>3 DEF HashOK, queueVars
  <2>5. rtpEntries' = Cardinality(ReadyCells')
    BY <1>1, <1>3 DEF IInv, QueueOK, queueVars
  <2> QED BY <2>1, <2>2, <2>4, <2>5 DEF QueueOK
<1>5. LinksOK'
  BY <1>1, <1>3 DEF LinksOK, AllHashed, AllLinked
<1>6. StoreOK'
  BY <1>1, <1>3 DEF IInv, StoreOK, Persist, CleanStart, appVars
<1>7. NetOK' /\ TakenOK'
  BY <1>1, <1>2 DEF IInv, NetOK, TakenOK, netVars
<1>8. ControlType'
  BY <1>1 DEF IInv, ControlType
<1>9. Exchange(toClient, toBroker, rcvdStore', delivered, phase, idOf, options)
  BY <1>1, ResetLemma DEF IInv, ExchangeInv, CleanStart
<1>10. ExchangeInv'
  BY <1>1, <1>9 DEF ExchangeInv, netVars, brokerVars, appVars
<1> QED BY <1>4, <1>5, <1>6, <1>7, <1>8, <1>10 DEF IInv

LEMMA LoadReceivedStep == IInv /\ LoadReceived => IInv'
<1> SUFFICES ASSUME IInv, LoadReceived PROVE IInv'
  OBVIOUS
<1>1. pc = "load" /\ rcvdStore' = rcvdStore /\ stops' = stops /\ faults \in Nat /\ stops \in Nat
  BY DEF LoadReceived, IInv, ControlType
<1>2. CASE DropHandle /\ faults' \in Nat
  BY <1>1, <1>2, DropLemma
<1>3. CASE \E s \in toLoad :
             /\ Malloc # Null
             /\ StorePublication(Malloc, s.p, s.id, s.readyToPublish, s.key)
             /\ nextRcvId' = NextRcvIdAfter(s.key)
             /\ toLoad' = toLoad \ {s}
             /\ UNCHANGED <<pc, taken, sockOpen, netVars, brokerVars, appVars, faults>>
  <2>1. PICK s \in toLoad :
             /\ Malloc # Null
             /\ StorePublication(Malloc, s.p, s.id, s.readyToPublish, s.key)
             /\ nextRcvId' = NextRcvIdAfter(s.key)
             /\ toLoad' = toLoad \ {s}
             /\ UNCHANGED <<pc, taken, sockOpen, netVars, brokerVars, appVars, faults>>
    BY <1>3
  <2>2. s \in rcvdStore /\ s \in Stored /\ s \notin Loaded /\ options' = options
    BY <2>1, StoredLemma DEF IInv, StoreOK, Loaded, appVars
  <2>3. Loaded' = Loaded \cup {s} /\ Loaded \subseteq rcvdStore
    BY <2>1, <2>2, <1>1 DEF Loaded
  <2>4. /\ Persist /\ s.key > 0 /\ Qos[s.p] > 0 /\ (~s.readyToPublish => Qos[s.p] = 2)
        /\ \A t \in Loaded : t.key # s.key
    BY <2>2, <2>3 DEF IInv, StoreOK, ExchangeInv, Exchange, RecordsOK
  <2>5. \A t \in Loaded : ~t.readyToPublish /\ ~s.readyToPublish => t.id # s.id
    <3> SUFFICES ASSUME NEW t \in Loaded, ~t.readyToPublish, ~s.readyToPublish, t.id = s.id
                 PROVE  FALSE
      OBVIOUS
    <3>1. /\ Qos[t.p] = 2 /\ Owns(phase, idOf, t.p, t.id)
          /\ Qos[s.p] = 2 /\ Owns(phase, idOf, s.p, t.id)
      BY <2>2, <2>3 DEF IInv, ExchangeInv, Exchange, RecordsOK
    <3>2. t.p \in Pubs /\ s.p \in Pubs
      BY <2>2, <2>3, StoredLemma, StoredFacts
    <3>3. t.p = s.p
      BY <3>1, <3>2 DEF IInv, ExchangeInv, Exchange, IdsOK, Owns
    <3>4. t = s
      BY <2>2, <2>3, <3>1, <3>3 DEF IInv, ExchangeInv, Exchange, RecordsOK
    <3> QED BY <2>2, <3>4
  <2>6. QueueOK' /\ (AllLinked => AllLinked') /\ (AllHashed => AllHashed')
    BY <2>1, <2>2, <2>3, <2>4, <2>5, StoreKeptLemma DEF IInv
  <2>7. LinksOK'
    BY <2>1, <2>2, <2>6, <1>1 DEF IInv, LinksOK, StoreFails
  <2>8. s.key \in 0..RcvMax /\ nextRcvId \in 0..RcvMax
    BY <2>2, StoredFacts DEF IInv, ControlType
  <2>9. nextRcvId' \in 0..RcvMax /\ nextRcvId' >= s.key /\ nextRcvId' >= nextRcvId
    BY <2>1, <2>8, LimitsAssumption DEF NextRcvIdAfter
  <2>10. ControlType'
    BY <2>1, <2>9, <1>1 DEF IInv, ControlType
  <2>11. \A t \in Loaded' : t.key <= nextRcvId'
    <3>1. \A t \in Loaded : t.key <= nextRcvId /\ t.key \in Int
      BY <2>3, <1>1, StoredLemma, StoredFacts DEF IInv, StoreOK
    <3> QED BY <3>1, <2>3, <2>8, <2>9
  <2>12. StoreOK'
    BY <2>1, <2>2, <2>11, <1>1 DEF IInv, StoreOK, Persist, CleanStart
  <2>13. NetOK' /\ TakenOK'
    BY <2>1, <1>1 DEF IInv, NetOK, TakenOK, netVars
  <2>14. ExchangeInv'
    BY <2>1, <1>1 DEF IInv, ExchangeInv, netVars, brokerVars, appVars
  <2> QED BY <2>6, <2>7, <2>10, <2>12, <2>13, <2>14 DEF IInv
<1>4. Fault => faults' \in Nat
  BY <1>1, FaultLemma
<1> QED BY <1>1, <1>2, <1>3, <1>4 DEF LoadReceived

LEMMA EstablishStep == IInv /\ Establish => IInv'
<1> SUFFICES ASSUME IInv, Establish PROVE IInv'
  OBVIOUS
<1>1. /\ pc = "load" /\ toLoad = {} /\ pc' = "idle" /\ OpenSocket
      /\ UNCHANGED <<toLoad, taken, nextRcvId, queueVars, rcvdStore, idOf, appVars, stops>>
  BY DEF Establish
<1>2. ~sockOpen /\ (CleanStart => rcvdStore = {})
  BY <1>1 DEF IInv, NetOK, StoreOK
<1>3. sockOpen' \in BOOLEAN /\ faults' \in Nat /\ NetOK' /\ ExchangeInv'
  BY <1>1, <1>2, OpenLemma
<1>4. StoreOK' /\ QueueOK' /\ LinksOK'
  BY <1>1, StayLemma DEF appVars
<1>5. ControlType' /\ TakenOK'
  BY <1>1, <1>3 DEF IInv, ControlType, TakenOK
<1> QED BY <1>3, <1>4, <1>5 DEF IInv

LEMMA StopStep == IInv /\ (Disconnect \/ Crash) => IInv'
<1> SUFFICES ASSUME IInv, Disconnect \/ Crash PROVE IInv'
  OBVIOUS
<1>1. /\ DropHandle /\ faults' = faults /\ stops' = stops + 1
      /\ rcvdStore' = rcvdStore \/ (CleanStart /\ rcvdStore' = {})
  BY DEF Disconnect, Crash
<1>2. faults' \in Nat /\ stops' \in Nat
  BY <1>1 DEF IInv, ControlType
<1> QED BY <1>1, <1>2, DropLemma

LEMMA SocketErrorStep == IInv /\ SocketError => IInv'
<1> SUFFICES ASSUME IInv, SocketError PROVE IInv'
  OBVIOUS
<1>1. /\ Fault /\ sockOpen' = FALSE /\ toBroker' = <<>> /\ toClient' = <<>>
      /\ UNCHANGED <<loadVars, nextRcvId, queueVars, rcvdStore, brokerVars, appVars, stops>>
  BY DEF SocketError, CloseSocket
<1>2. faults' \in Nat /\ stops' \in Nat
  BY <1>1, FaultLemma DEF IInv, ControlType
<1>3. NetOK'
  BY <1>1 DEF NetOK
<1>4. Exchange(<<>>, <<>>, rcvdStore, delivered, phase, idOf, options)
  BY LostLemma DEF IInv, ExchangeInv
<1>5. ExchangeInv'
  BY <1>1, <1>4 DEF ExchangeInv, brokerVars, appVars
<1> QED BY <1>1, <1>2, <1>3, <1>5, QuietLemma DEF appVars

LEMMA ReconnectStep == IInv /\ Reconnect => IInv'
<1> SUFFICES ASSUME IInv, Reconnect PROVE IInv'
  OBVIOUS
<1>1. /\ pc = "idle" /\ ~sockOpen /\ ~CleanStart /\ OpenSocket
      /\ UNCHANGED <<loadVars, nextRcvId, queueVars, rcvdStore, idOf, appVars, stops>>
  BY DEF Reconnect
<1>2. sockOpen' \in BOOLEAN /\ faults' \in Nat /\ NetOK' /\ ExchangeInv'
  BY <1>1, OpenLemma DEF loadVars
<1>3. stops' \in Nat
  BY <1>1 DEF IInv, ControlType
<1> QED BY <1>1, <1>2, <1>3, QuietLemma DEF appVars

-----------------------------------------------------------------------------
(* What arrives from the broker.                                           *)

\* What a handler of a message has to start from.
LEMMA ReceiveLemma ==
    ASSUME IInv, NEW type, Receive(type)
    PROVE  /\ pc = "idle" /\ pc' = "idle" /\ sockOpen /\ toLoad = {} /\ toLoad' = {}
           /\ toClient # <<>> /\ Head(toClient).type = type
           /\ UNCHANGED <<loadVars, brokerVars, appVars, stops>>
           /\ UNCHANGED <<delivered, phase, idOf, options, taken>>
           /\ Loaded = rcvdStore /\ Loaded' = rcvdStore'
           /\ AllHashed /\ (~StoreFails => AllLinked) /\ taken = <<>>
           /\ faults \in Nat /\ stops' \in Nat
           /\ Exchange(Tail(toClient), toBroker, rcvdStore, delivered, phase, idOf, options)
<1>1. /\ pc = "idle" /\ sockOpen /\ toClient # <<>> /\ Head(toClient).type = type
      /\ UNCHANGED <<loadVars, brokerVars, appVars, stops>>
  BY DEF Receive
<1>2. UNCHANGED <<pc, toLoad, delivered, phase, idOf, options, taken>>
  BY <1>1 DEF loadVars, brokerVars, appVars
<1>3. toLoad = {}
  BY <1>1 DEF IInv, StoreOK
<1>4. Loaded = rcvdStore /\ Loaded' = rcvdStore'
  BY <1>2, <1>3 DEF Loaded
<1>5. AllHashed /\ (~StoreFails => AllLinked) /\ taken = <<>>
  BY <1>1 DEF IInv, LinksOK, TakenOK
<1>6. faults \in Nat /\ stops' \in Nat
  BY <1>1 DEF IInv, ControlType
<1>7. Exchange(Tail(toClient), toBroker, rcvdStore, delivered, phase, idOf, options)
  BY <1>1, ReadLemma DEF IInv, ExchangeInv
<1> QED BY <1>1, <1>2, <1>3, <1>4, <1>5, <1>6, <1>7

LEMMA PublishRefusedStep == IInv /\ PublishRefused => IInv'
<1> SUFFICES ASSUME IInv, PublishRefused PROVE IInv'
  OBVIOUS
<1>1. /\ Receive("PUBLISH") /\ toClient' = Tail(toClient)
      /\ UNCHANGED <<sockOpen, nextRcvId, queueVars, rcvdStore, toBroker>>
      /\ UNCHANGED faults \/ Fault
  BY DEF PublishRefused
<1>2. /\ sockOpen /\ UNCHANGED <<loadVars, delivered, phase, idOf, options>>
      /\ faults \in Nat /\ stops' \in Nat
      /\ Exchange(Tail(toClient), toBroker, rcvdStore, delivered, phase, idOf, options)
  BY <1>1, ReceiveLemma
<1>3. faults' \in Nat /\ sockOpen' \in BOOLEAN
  BY <1>1, <1>2, FaultLemma DEF IInv, ControlType
<1>4. NetOK' /\ ExchangeInv'
  <2>1. NetOK'
    BY <1>1, <1>2 DEF IInv, NetOK, loadVars
  <2>2. ExchangeInv'
    BY <1>1, <1>2 DEF ExchangeInv
  <2> QED BY <2>1, <2>2
<1> QED BY <1>1, <1>2, <1>3, <1>4, QuietLemma

\* The rcvId of a publication that is persisted is new.
LEMMA NextRcvIdLemma ==
    ASSUME IInv, NoWrap
    PROVE  /\ SetNextRcvId(nextRcvId) = nextRcvId + 1
           /\ SetNextRcvId(nextRcvId) \in 0..RcvMax /\ SetNextRcvId(nextRcvId) > 0
BY LimitsAssumption DEF IInv, ControlType, NoWrap, SetNextRcvId

\* A publication that is not recognised as a repeat is not in the store.
LEMMA NotHeldLemma ==
    ASSUME IInv, Receive("PUBLISH"), Storable(Head(toClient)), Qos[Head(toClient).p] = 2
    PROVE  \A s \in rcvdStore : s.p # Head(toClient).p
<1> DEFINE w == Head(toClient)
<1>1. /\ toClient # <<>> /\ IsPublish(w) /\ Loaded = rcvdStore /\ AllHashed
  BY ReceiveLemma DEF IsPublish
<1>2. Exchange(toClient, toBroker, rcvdStore, delivered, phase, idOf, options)
  BY DEF IInv, ExchangeInv
<1>3. /\ w.p \in Pubs /\ w.dup \in BOOLEAN
      /\ Owns(phase, idOf, w.p, w.id) /\ ~Released(rcvdStore, delivered, w.p)
      /\ ~w.dup => \A s \in rcvdStore : s.p # w.p
  BY <1>1, <1>2, ReadPublishLemma
<1>4. ~w.dup \/ rpHash[w.id] = Null
  BY DEF Storable, IsRepeat, ReleasedOnArrival
<1> HIDE DEF w
<1>5. ASSUME NEW s \in rcvdStore, s.p = w.p, rpHash[w.id] = Null PROVE FALSE
  <2>1. ~s.readyToPublish
    BY <1>3, <1>5 DEF Released
  <2>2. Owns(phase, idOf, s.p, s.id)
    BY <1>2, <2>1 DEF Exchange, RecordsOK
  <2>3. s.id = w.id
    BY <1>3, <1>5, <2>2 DEF Owns
  <2>4. PICK c \in Linked : rpHash[s.id] = c
    BY <1>1, <2>1 DEF AllHashed
  <2>5. Linked \subseteq Addr
    BY DEF Linked, Cells, IInv, QueueOK, QueueType
  <2> QED BY <1>5, <2>3, <2>4, <2>5, MemoryAssumption
<1> QED BY <1>3, <1>4, <1>5 DEF w

LEMMA PublishUnpersistedStep == IInv /\ NoWrap /\ PublishUnpersisted => IInv'
<1> SUFFICES ASSUME IInv, NoWrap, PublishUnpersisted PROVE IInv'
  OBVIOUS
<1> DEFINE w == Head(toClient)
<1>1. /\ Receive("PUBLISH") /\ Persist /\ Fault
      /\ Qos[w.p] > 0 /\ Storable(w)
      /\ rpHash' = [rpHash EXCEPT ![w.id] = Null]
      /\ nextRcvId' = SetNextRcvId(nextRcvId) /\ toClient' = Tail(toClient)
      /\ UNCHANGED <<sockOpen, heap, rcvdPubsQ, rtpEntries, numBytesQueued, rcvdStore, toBroker>>
  BY DEF PublishUnpersisted, StoreFault
<1>2. /\ pc = "idle" /\ pc' = "idle" /\ sockOpen /\ toLoad' = {} /\ toLoad = {}
      /\ toClient # <<>> /\ IsPublish(w)
      /\ UNCHANGED <<delivered, phase, idOf, options, taken>>
      /\ Loaded = rcvdStore /\ Loaded' = rcvdStore'
      /\ AllHashed /\ (~StoreFails => AllLinked) /\ taken = <<>>
      /\ faults \in Nat /\ stops' \in Nat
      /\ Exchange(Tail(toClient), toBroker, rcvdStore, delivered, phase, idOf, options)
  BY <1>1, ReceiveLemma DEF IsPublish
<1>3. Exchange(toClient, toBroker, rcvdStore, delivered, phase, idOf, options)
  BY DEF IInv, ExchangeInv
<1>4. /\ w.p \in Pubs /\ w.id \in MsgIds
      /\ \A q \in Pubs : Owns(phase, idOf, q, w.id) => q = w.p
  BY <1>1, <1>2, <1>3, ReadPublishLemma
<1>5. Qos[w.p] = 2 => \A s \in rcvdStore : s.p # w.p
  BY <1>1, NotHeldLemma
<1> HIDE DEF w
<1>6. \A s \in Loaded : ~s.readyToPublish => s.id # w.id
  <2> SUFFICES ASSUME NEW s \in rcvdStore, ~s.readyToPublish, s.id = w.id PROVE FALSE
    BY <1>2
  <2>1. Qos[s.p] = 2 /\ Owns(phase, idOf, s.p, w.id) /\ s.p \in Pubs
    BY <1>3, StoredLemma, StoredFacts DEF Exchange, RecordsOK
  <2> QED BY <2>1, <1>4, <1>5
<1>7. Loaded' = Loaded
  BY <1>1, <1>2
<1>8. QueueOK' /\ (AllLinked => AllLinked') /\ (AllHashed => AllHashed')
  <2>1. PICK id : id = w.id
    OBVIOUS
  <2>2. id \in MsgIds /\ rpHash' = [rpHash EXCEPT ![id] = Null]
        /\ \A s \in Loaded : ~s.readyToPublish => s.id # id
    BY <2>1, <1>1, <1>4, <1>6
  <2>3. UNCHANGED <<heap, rcvdPubsQ, rtpEntries, numBytesQueued, options>>
    BY <1>1, <1>2
  <2> QED BY <2>2, <2>3, <1>7, UnhashLemma DEF IInv
<1>9. LinksOK'
  BY <1>2, <1>8 DEF LinksOK, StoreFails
<1>10. faults' \in Nat
  BY <1>1, <1>2, FaultLemma
<1>11. nextRcvId' = nextRcvId + 1 /\ nextRcvId' \in 0..RcvMax
  BY <1>1, NextRcvIdLemma
<1>12. ControlType'
  BY <1>1, <1>2, <1>10, <1>11 DEF IInv, ControlType
<1>13. StoreOK'
  <2>1. \A s \in Loaded : s.key <= nextRcvId + 1
    <3>1. \A s \in Loaded : s.key <= nextRcvId /\ s.key \in Int
      BY <1>2, StoredLemma, StoredFacts DEF IInv, StoreOK
    <3> QED BY <3>1 DEF IInv, ControlType
  <2> QED BY <2>1, <1>1, <1>2, <1>7, <1>11 DEF IInv, StoreOK, Persist, CleanStart
<1>14. NetOK' /\ TakenOK'
  BY <1>1, <1>2 DEF IInv, NetOK, TakenOK
<1>15. ExchangeInv'
  BY <1>1, <1>2 DEF ExchangeInv
<1> QED BY <1>8, <1>9, <1>12, <1>13, <1>14, <1>15 DEF IInv

\* A publication is stored and, of QoS 1 or 2, answered: the answer is one its
\* owner waits for.
LEMMA PublishAnswerLemma ==
    ASSUME IInv, Receive("PUBLISH"), NEW p, p = Head(toClient).p,
           NEW id, id = Head(toClient).id, NEW S, Qos[p] > 0,
           Exchange(Tail(toClient), toBroker, S, delivered, phase, idOf, options),
           Persist => \E s \in S : s.p = p
    PROVE  Exchange(Tail(toClient), Append(toBroker, [type |-> Answer(p), id |-> id]),
                    S, delivered, phase, idOf, options)
<1> DEFINE w == [type |-> Answer(p), id |-> id]
<1>1. toClient # <<>> /\ IsPublish(Head(toClient))
  BY ReceiveLemma DEF IsPublish
<1>2. /\ p \in Pubs /\ id \in MsgIds
      /\ \A q \in Pubs : Owns(phase, idOf, q, id) => q = p
  BY <1>1, ReadPublishLemma DEF IInv, ExchangeInv
<1>3. Qos[p] \in 0..2
  BY <1>2, PubsAssumption
<1>4. /\ w \in ToBroker /\ w.id = id
      /\ w.type = IF Qos[p] = 2 THEN "PUBREC" ELSE "PUBACK"
  BY <1>2 DEF ToBroker, Answer
<1> HIDE DEF w
<1>5. options.persist => Held(S, delivered, p)
  BY DEF Persist, Held
<1>6. Exchange(Tail(toClient), Append(toBroker, w), S, delivered, phase, idOf, options)
  BY <1>2, <1>3, <1>4, <1>5, AnswerLemma
<1> QED BY <1>6 DEF w

LEMMA PublishStoredStep == IInv /\ NoWrap /\ Identified /\ PublishStored => IInv'
<1> SUFFICES ASSUME IInv, NoWrap, Identified, PublishStored PROVE IInv'
  OBVIOUS
<1>1. PICK p, id, dup : p = Head(toClient).p /\ id = Head(toClient).id /\ dup = Head(toClient).dup
  OBVIOUS
<1> DEFINE released == ReleasedOnArrival(p)
           kept == Persist /\ Qos[p] > 0
<1>2. /\ Receive("PUBLISH") /\ Storable(Head(toClient)) /\ Malloc # Null
      /\ kept => /\ nextRcvId' = SetNextRcvId(nextRcvId)
                 /\ StorePublication(Malloc, p, id, released, nextRcvId')
                 /\ rcvdStore' = StoreAdd([key |-> nextRcvId', p |-> p, id |-> id, dup |-> dup,
                                           readyToPublish |-> released])
      /\ ~kept => /\ StorePublication(Malloc, p, id, released, 0)
                  /\ UNCHANGED <<nextRcvId, rcvdStore>>
      /\ Qos[p] = 0 => toClient' = Tail(toClient) /\ UNCHANGED <<sockOpen, toBroker, faults>>
      /\ Qos[p] # 0 => Transmit([type |-> Answer(p), id |-> id], Tail(toClient))
  BY <1>1 DEF PublishStored, Storable
<1>3. /\ pc = "idle" /\ pc' = "idle" /\ sockOpen /\ toLoad' = {} /\ toLoad = {}
      /\ toClient # <<>> /\ IsPublish(Head(toClient))
      /\ UNCHANGED <<delivered, phase, idOf, options, taken>>
      /\ Loaded = rcvdStore /\ Loaded' = rcvdStore'
      /\ AllHashed /\ (~StoreFails => AllLinked) /\ taken = <<>>
      /\ faults \in Nat /\ stops' \in Nat
      /\ Exchange(Tail(toClient), toBroker, rcvdStore, delivered, phase, idOf, options)
  BY <1>2, ReceiveLemma DEF IsPublish
<1>4. /\ p \in Pubs /\ id \in MsgIds \cup {0} /\ dup \in BOOLEAN /\ Qos[p] \in 0..2
      /\ Qos[p] > 0 => id \in MsgIds
      /\ \A q \in Pubs : Owns(phase, idOf, q, id) => q = p
      /\ Qos[p] = 2 =>
           /\ Owns(phase, idOf, p, id) /\ ~Released(rcvdStore, delivered, p)
           /\ \A i \in 1..Len(Tail(toClient)) :
                IsPublish(Tail(toClient)[i]) /\ Tail(toClient)[i].p = p => Tail(toClient)[i].dup
           /\ \A i \in 1..Len(toBroker) : toBroker[i].type = "PUBCOMP" => toBroker[i].id # id
  BY <1>1, <1>3, ReadPublishLemma, PubsAssumption DEF IInv, ExchangeInv
<1>5. Qos[p] = 2 => \A s \in rcvdStore : s.p # p
  BY <1>1, <1>2, NotHeldLemma
<1>6. released \in BOOLEAN /\ (~released <=> Qos[p] = 2)
  BY DEF ReleasedOnArrival
<1>7. /\ QueueOK' /\ StoreOK' /\ LinksOK' /\ nextRcvId' \in 0..RcvMax
      /\ Exchange(Tail(toClient), toBroker, rcvdStore', delivered, phase, idOf, options)
      /\ Persist /\ Qos[p] > 0 => \E s \in rcvdStore' : s.p = p
  <2>1. CASE kept
    <3>1. nextRcvId' = nextRcvId + 1 /\ nextRcvId' \in 0..RcvMax /\ nextRcvId' > 0
      BY <1>2, <2>1, NextRcvIdLemma
    <3>2. PICK r : r = [key |-> nextRcvId', p |-> p, id |-> id, dup |-> dup,
                        readyToPublish |-> released]
      OBVIOUS
    <3>3. /\ r.key = nextRcvId' /\ r.p = p /\ r.id = id /\ r.dup = dup
          /\ r.readyToPublish = released
      BY <3>2
    <3>4. r \in Stored
      BY <3>1, <3>2, <1>4, <1>6, <2>1 DEF Stored
    <3>5. \A s \in rcvdStore : s.key <= nextRcvId /\ s.key \in Int
      BY <1>3, StoredLemma, StoredFacts DEF IInv, StoreOK
    <3>6. nextRcvId \in Int
      BY DEF IInv, ControlType
    <3>7. \A s \in rcvdStore : s.key # r.key /\ s.key <= nextRcvId'
      BY <3>1, <3>3, <3>5, <3>6
    <3>8. rcvdStore' = rcvdStore \cup {r}
      BY <1>2, <2>1, <3>2, <3>7 DEF StoreAdd
    <3>9. /\ QueueOK' /\ (AllLinked => AllLinked')
          /\ AllHashed /\ (\A s \in Loaded : ~s.readyToPublish /\ ~r.readyToPublish => s.id # r.id)
               => AllHashed'
      <4>1. StorePublication(Malloc, r.p, r.id, r.readyToPublish, r.key)
        BY <1>2, <2>1, <3>3
      <4>2. /\ Qos[r.p] > 0 /\ r.key > 0 /\ (~r.readyToPublish => Qos[r.p] = 2)
            /\ Loaded' = Loaded \cup {r} /\ \A s \in Loaded : s.key # r.key
        BY <1>3, <1>6, <2>1, <3>1, <3>3, <3>7, <3>8
      <4> QED BY <4>1, <4>2, <1>2, <1>3, <2>1, <3>4, StoreKeptLemma DEF IInv
    <3>10. \A s \in Loaded : ~s.readyToPublish /\ ~r.readyToPublish => s.id # r.id
      <4> SUFFICES ASSUME NEW s \in rcvdStore, ~s.readyToPublish, Qos[p] = 2, s.id = id
                   PROVE  FALSE
        BY <1>3, <1>6, <3>3
      <4>1. Owns(phase, idOf, s.p, id) /\ s.p \in Pubs
        BY StoredLemma, StoredFacts DEF IInv, ExchangeInv, Exchange, RecordsOK
      <4> QED BY <4>1, <1>4, <1>5
    <3>11. LinksOK'
      BY <1>3, <3>9, <3>10 DEF LinksOK, StoreFails
    <3>12. StoreOK'
      BY <1>3, <2>1, <3>1, <3>3, <3>6, <3>7, <3>8 DEF IInv, StoreOK, Persist, CleanStart
    <3>13. Exchange(Tail(toClient), toBroker, rcvdStore', delivered, phase, idOf, options)
      <4>1. Qos[r.p] > 0 /\ (Qos[r.p] # 2 => r.readyToPublish)
        BY <1>6, <2>1, <3>3
      <4>2. Qos[r.p] = 2 =>
              /\ ~r.readyToPublish /\ Owns(phase, idOf, r.p, r.id)
              /\ ~Released(rcvdStore, delivered, r.p)
              /\ \A s \in rcvdStore : s.p # r.p
              /\ \A i \in 1..Len(Tail(toClient)) :
                   IsPublish(Tail(toClient)[i]) /\ Tail(toClient)[i].p = r.p
                     => Tail(toClient)[i].dup
              /\ \A i \in 1..Len(toBroker) : toBroker[i].type = "PUBCOMP" => toBroker[i].id # r.id
        BY <1>4, <1>5, <1>6, <3>3
      <4> QED BY <4>1, <4>2, <1>3, <3>4, <3>8, AddLemma
    <3> QED BY <3>1, <3>3, <3>8, <3>9, <3>11, <3>12, <3>13
  <2>2. CASE ~kept
    <3>1. Qos[p] # 2
      BY <1>4, <2>2, PlainLemma
    <3>2. StorePublication(Malloc, p, id, TRUE, 0) /\ UNCHANGED <<nextRcvId, rcvdStore>>
      BY <1>2, <2>2, <3>1 DEF ReleasedOnArrival
    <3>3. Loaded' = Loaded
      BY <1>3, <3>2
    <3>4. QueueOK' /\ (AllLinked => AllLinked') /\ (AllHashed => AllHashed')
      BY <1>2, <1>3, <1>4, <2>2, <3>1, <3>2, <3>3, StorePlainLemma DEF IInv
    <3>5. LinksOK'
      BY <1>3, <3>4 DEF LinksOK, StoreFails
    <3>6. StoreOK' /\ nextRcvId' \in 0..RcvMax
      BY <1>3, <3>2, <3>3 DEF IInv, StoreOK, ControlType, Persist, CleanStart
    <3> QED BY <1>3, <2>2, <3>2, <3>4, <3>5, <3>6
  <2> QED BY <2>1, <2>2
<1>8. sockOpen' \in BOOLEAN /\ faults' \in Nat /\ NetOK' /\ ExchangeInv'
  <2>1. CASE Qos[p] = 0
    <3>1. sockOpen' \in BOOLEAN /\ faults' \in Nat /\ NetOK'
      BY <1>2, <1>3, <2>1 DEF IInv, ControlType, NetOK
    <3>2. ExchangeInv'
      BY <1>2, <1>3, <1>7, <2>1 DEF ExchangeInv
    <3> QED BY <3>1, <3>2
  <2>2. CASE Qos[p] # 0
    <3>1. PICK w : w = [type |-> Answer(p), id |-> id]
      OBVIOUS
    <3>2. Qos[p] > 0
      BY <1>4, <2>2
    <3>3. Exchange(Tail(toClient), Append(toBroker, w), rcvdStore', delivered, phase, idOf,
                   options)
      BY <1>1, <1>2, <1>7, <3>1, <3>2, PublishAnswerLemma
    <3>4. Transmit(w, Tail(toClient))
      BY <1>2, <2>2, <3>1
    <3> QED BY <1>3, <1>7, <3>3, <3>4, TransmitLemma
  <2> QED BY <2>1, <2>2
<1>9. ControlType' /\ TakenOK'
  BY <1>3, <1>7, <1>8 DEF ControlType, TakenOK
<1> QED BY <1>7, <1>8, <1>9 DEF IInv

\* A PUBCOMP may be sent when nothing waits for the PUBREL of its id any more.
LEMMA PubcompLemma ==
    ASSUME NEW T, NEW B, NEW S, NEW d, NEW ph, NEW ids, NEW o,
           Exchange(T, B, S, d, ph, ids, o),
           NEW id \in MsgIds,
           \A q \in Pubs : Owns(ph, ids, q, id) => ph[q] = "rel",
           \A i \in 1..Len(T) : IsPublish(T[i]) => T[i].id # id,
           \A s \in S : ~s.readyToPublish => s.id # id
    PROVE  Exchange(T, Append(B, [type |-> "PUBCOMP", id |-> id]), S, d, ph, ids, o)
<1> DEFINE w == [type |-> "PUBCOMP", id |-> id]
<1>1. w \in ToBroker /\ w.type = "PUBCOMP" /\ w.id = id
  BY DEF ToBroker
<1> HIDE DEF w
<1>2. ASSUME o.persist /\ ~o.cleanStart, NEW q \in Pubs, Owns(ph, ids, q, id)
      PROVE  Held(S, d, q) /\ Released(S, d, q)
  <2>1. ph[q] = "rel" /\ Qos[q] > 0 /\ Held(S, d, q)
    BY <1>2 DEF Exchange, AnsweredOK, IdsOK
  <2>2. ASSUME NEW s \in S, s.p = q PROVE s.readyToPublish
    BY <2>2, <1>2 DEF Exchange, RecordsOK, Owns
  <2> QED BY <2>1, <2>2 DEF Held, Released
<1>3. Exchange(T, Append(B, w), S, d, ph, ids, o)
  BY <1>1, <1>2, AnswerLemma
<1> QED BY <1>3 DEF w

LEMMA ReceivePubrelStep == IInv /\ ReceivePubrel => IInv'
<1> SUFFICES ASSUME IInv, ReceivePubrel PROVE IInv'
  OBVIOUS
<1>1. PICK id, a, w : /\ id = Head(toClient).id /\ a = rpHash[id]
                      /\ w = [type |-> "PUBCOMP", id |-> id]
  OBVIOUS
<1>2. Receive("PUBREL") /\ nextRcvId' = nextRcvId
  BY DEF ReceivePubrel
<1>3. /\ pc = "idle" /\ pc' = "idle" /\ sockOpen /\ toLoad' = {} /\ toLoad = {}
      /\ toClient # <<>> /\ ~IsPublish(Head(toClient))
      /\ UNCHANGED <<delivered, phase, idOf, options, taken, loadVars>>
      /\ Loaded = rcvdStore /\ Loaded' = rcvdStore'
      /\ AllHashed /\ (~StoreFails => AllLinked) /\ taken = <<>>
      /\ faults \in Nat /\ stops' \in Nat
      /\ Exchange(Tail(toClient), toBroker, rcvdStore, delivered, phase, idOf, options)
  BY <1>2, ReceiveLemma DEF IsPublish
<1>4. /\ id \in MsgIds
      /\ \A q \in Pubs : Owns(phase, idOf, q, id) => phase[q] = "rel"
      /\ \A i \in 1..Len(Tail(toClient)) :
           IsPublish(Tail(toClient)[i]) => Tail(toClient)[i].id # id
  BY <1>1, <1>3, ReadPubrelLemma DEF IInv, ExchangeInv
<1>5. CASE a = Null /\ Transmit(w, Tail(toClient)) /\ UNCHANGED <<queueVars, rcvdStore>>
  <2>1. \A s \in rcvdStore : ~s.readyToPublish => s.id # id
    <3>1. Linked \subseteq Addr
      BY DEF Linked, Cells, IInv, QueueOK, QueueType
    <3> QED BY <3>1, <1>1, <1>3, <1>5, MemoryAssumption DEF AllHashed
  <2>2. Exchange(Tail(toClient), Append(toBroker, w), rcvdStore, delivered, phase, idOf, options)
    BY <1>1, <1>3, <1>4, <2>1, PubcompLemma
  <2>3. sockOpen' \in BOOLEAN /\ faults' \in Nat /\ NetOK' /\ ExchangeInv'
    BY <1>3, <1>5, <2>2, TransmitLemma
  <2> QED BY <1>2, <1>3, <1>5, <2>3, QuietLemma
<1>6. CASE /\ faults' \in Nat
           /\ toClient' = Tail(toClient)
           /\ UNCHANGED <<sockOpen, queueVars, rcvdStore, toBroker>>
  <2>1. NetOK'
    BY <1>3, <1>6 DEF IInv, NetOK
  <2>2. ExchangeInv'
    BY <1>3, <1>6 DEF ExchangeInv
  <2>3. sockOpen' \in BOOLEAN
    BY <1>6 DEF IInv, ControlType
  <2> QED BY <1>2, <1>3, <1>6, <2>1, <2>2, <2>3, QuietLemma
<1>7. CASE /\ a # Null
           /\ rcvdStore' = IF Persist THEN StoreUpd(heap[a].rcvId) ELSE rcvdStore
           /\ heap' = [heap EXCEPT ![a].readyToPublish = TRUE]
           /\ rtpEntries' = rtpEntries + 1
           /\ rpHash' = Unhash(id)
           /\ Transmit(w, Tail(toClient))
           /\ UNCHANGED <<rcvdPubsQ, numBytesQueued>>
  <2>1. /\ a \in Linked /\ ~heap[a].readyToPublish
        /\ \E s \in rcvdStore : s.key = heap[a].rcvId /\ s.id = id
    BY <1>1, <1>3, <1>4, <1>7 DEF IInv, QueueOK, HashOK
  <2>2. PICK r \in rcvdStore : r.key = heap[a].rcvId /\ r.id = id
    BY <2>1
  <2>3. Kept(heap[a])
    BY <2>1 DEF IInv, QueueOK, EntriesOK
  <2>4. ~r.readyToPublish
    BY <2>1, <2>2, <2>3, <1>3 DEF IInv, QueueOK, EntriesOK, StoreOK
  <2>5. rcvdStore' = Release(rcvdStore, r.key)
    BY <1>7, <2>2, <2>3 DEF Kept, StoreUpd, Release
  <2>6. /\ rcvdStore \subseteq Stored
        /\ \A s, t \in rcvdStore : s.key = t.key => s = t
        /\ \A s \in rcvdStore : s.key > 0
    BY StoredLemma DEF IInv, StoreOK
  <2>7. QueueOK' /\ (AllLinked => AllLinked') /\ (AllHashed => AllHashed')
    BY <1>1, <1>3, <1>4, <1>7, <2>2, <2>5, <2>6, ReleaseEntryLemma DEF IInv
  <2>8. LinksOK'
    BY <1>3, <2>7 DEF LinksOK, StoreFails
  <2>9. Owns(phase, idOf, r.p, id) /\ r.p \in Pubs
    BY <2>2, <2>4, <2>6, StoredFacts DEF IInv, ExchangeInv, Exchange, RecordsOK
  <2>10. /\ Exchange(Tail(toClient), toBroker, rcvdStore', delivered, phase, idOf, options)
         /\ \A s \in rcvdStore' : ~s.readyToPublish => s.id # id
    <3>1. phase[r.p] = "rel"
      BY <1>4, <2>9
    <3>2. \A i \in 1..Len(Tail(toClient)) :
            IsPublish(Tail(toClient)[i]) => Tail(toClient)[i].id # r.id
      BY <1>4, <2>2
    <3>3. /\ Exchange(Tail(toClient), toBroker, Release(rcvdStore, r.key), delivered, phase,
                      idOf, options)
          /\ \A s \in Release(rcvdStore, r.key) : ~s.readyToPublish => s.id # r.id
      <4>1. PICK T, S : T = Tail(toClient) /\ S = rcvdStore
        OBVIOUS
      <4>2. Exchange(T, toBroker, S, delivered, phase, idOf, options)
        BY <1>3, <4>1
      <4>3. \A s, t \in S : s.key = t.key => s = t
        BY <2>6, <4>1
      <4>4. r \in S
        BY <4>1
      <4>5. \A i \in 1..Len(T) : IsPublish(T[i]) => T[i].id # r.id
        BY <3>2, <4>1
      <4>6. /\ Exchange(T, toBroker, Release(S, r.key), delivered, phase, idOf, options)
            /\ \A s \in Release(S, r.key) : ~s.readyToPublish => s.id # r.id
        BY <2>4, <3>1, <4>2, <4>3, <4>4, <4>5, ReleaseLemma
      <4> QED BY <4>1, <4>6
    <3> QED BY <2>2, <2>5, <3>3
  <2>11. Exchange(Tail(toClient), Append(toBroker, w), rcvdStore', delivered, phase, idOf,
                  options)
    BY <1>1, <1>4, <2>10, PubcompLemma
  <2>12. sockOpen' \in BOOLEAN /\ faults' \in Nat /\ NetOK' /\ ExchangeInv'
    BY <1>3, <1>7, <2>10, <2>11, TransmitLemma
  <2>13. ControlType' /\ TakenOK'
    BY <1>2, <1>3, <2>12 DEF IInv, ControlType, TakenOK
  <2>14. /\ \A s \in rcvdStore' : \E t \in rcvdStore :
              /\ s.key = t.key /\ s.p = t.p /\ s.id = t.id /\ s.dup = t.dup
              /\ s.readyToPublish <=> t.readyToPublish \/ t.key = r.key
         /\ rcvdStore' \subseteq Stored
    BY <2>5, <2>6, ReleaseFacts
  <2>15. \A s, t \in rcvdStore' : s.key = t.key => s = t
    <3> SUFFICES ASSUME NEW s \in rcvdStore', NEW t \in rcvdStore', s.key = t.key
                 PROVE  s = t
      OBVIOUS
    <3>1. PICK x \in rcvdStore : /\ s.key = x.key /\ s.p = x.p /\ s.id = x.id /\ s.dup = x.dup
                                 /\ s.readyToPublish <=> x.readyToPublish \/ x.key = r.key
      BY <2>14
    <3>2. PICK y \in rcvdStore : /\ t.key = y.key /\ t.p = y.p /\ t.id = y.id /\ t.dup = y.dup
                                 /\ t.readyToPublish <=> y.readyToPublish \/ y.key = r.key
      BY <2>14
    <3>3. x = y
      BY <2>6, <3>1, <3>2
    <3>4. s \in Stored /\ s.readyToPublish \in BOOLEAN /\ t \in Stored /\ t.readyToPublish \in BOOLEAN
      BY <2>14, StoredFacts
    <3>5. s.readyToPublish = t.readyToPublish
      BY <3>1, <3>2, <3>3, <3>4
    <3> QED BY <3>1, <3>2, <3>3, <3>4, <3>5, StoredEqual
  <2>16. StoreOK'
    <3>1. \A s \in rcvdStore' : s.key > 0 /\ s.key <= nextRcvId
      BY <1>3, <2>14 DEF IInv, StoreOK
    <3>2. Persist'
      BY <1>3, <2>3 DEF Kept, Persist
    <3> QED BY <1>2, <1>3, <2>15, <3>1, <3>2 DEF StoreOK
  <2> QED BY <2>7, <2>8, <2>12, <2>13, <2>16 DEF IInv
<1>8. Fault => faults' \in Nat
  BY <1>3, FaultLemma
<1> QED BY <1>1, <1>3, <1>5, <1>6, <1>7, <1>8 DEF ReceivePubrel, StoreFault

-----------------------------------------------------------------------------
(* The application receives.                                               *)

\* The first released entry is the first entry under its rcvId.
LEMMA ConfirmLemma ==
    ASSUME QueueOK, \A s \in Loaded : s.key > 0, NEW a,
           a = FirstCell({c \in Addr : heap[c].readyToPublish}), a # Null
    PROVE  /\ a \in Linked /\ heap[a].readyToPublish
           /\ ConfirmedCell(heap[a].rcvId) = a
<1> DEFINE R == {c \in Addr : heap[c].readyToPublish}
           X == {c \in Addr : heap[c].rcvId = heap[a].rcvId}
<1>1. rcvdPubsQ \in Seq(Addr) /\ Distinct(rcvdPubsQ)
  BY DEF QueueOK, QueueType, EntriesOK
<1>2. Linked \cap R # {}
  BY <1>1, FirstCellLemma
<1>3. PICK i \in 1..Len(rcvdPubsQ) :
        /\ a = rcvdPubsQ[i] /\ a \in Linked \cap R
        /\ \A j \in 1..Len(rcvdPubsQ) : j < i => rcvdPubsQ[j] \notin R
  BY <1>1, <1>2, FirstCellLemma
<1>4. a \in Linked \cap X
  BY <1>3
<1>5. PICK k \in 1..Len(rcvdPubsQ) :
        /\ FirstCell(X) = rcvdPubsQ[k] /\ rcvdPubsQ[k] \in Linked \cap X
        /\ \A j \in 1..Len(rcvdPubsQ) : j < k => rcvdPubsQ[j] \notin X
  <2>1. Linked \cap X # {}
    BY <1>4
  <2> HIDE DEF X
  <2> QED BY <1>1, <2>1, FirstCellLemma
<1>6. rcvdPubsQ[k] = a
  <2> DEFINE c == rcvdPubsQ[k]
  <2>1. c \in Linked /\ heap[c].rcvId = heap[a].rcvId /\ heap[c] \in Entry /\ heap[a] \in Entry
    BY <1>3, <1>5 DEF QueueOK, EntriesOK
  <2>2. CASE heap[a].rcvId > 0
    BY <1>3, <2>1, <2>2 DEF QueueOK, EntriesOK
  <2>3. CASE ~(heap[a].rcvId > 0)
    <3>1. heap[c].readyToPublish
      <4>1. CASE Kept(heap[c])
        <5>1. PICK s \in Loaded : s.key = heap[c].rcvId
          BY <2>1, <4>1 DEF QueueOK, EntriesOK
        <5> QED BY <5>1, <2>1, <2>3
      <4>2. CASE ~Kept(heap[c])
        BY <2>1, <4>2 DEF QueueOK, EntriesOK
      <4> QED BY <4>1, <4>2
    <3>2. c \in Addr
      BY <1>1
    <3>3. ~(k < i)
      BY <3>1, <3>2, <1>3
    <3>4. ~(i < k)
      BY <1>3, <1>4, <1>5
    <3>5. k = i
      BY <3>3, <3>4
    <3> QED BY <3>5, <1>3
  <2> QED BY <2>2, <2>3
<1> QED BY <1>3, <1>5, <1>6 DEF ConfirmedCell

LEMMA ReceivePubStep == IInv /\ ReceivePub => IInv'
<1> SUFFICES ASSUME IInv, ReceivePub PROVE IInv'
  OBVIOUS
<1>1. PICK a : /\ a = FirstCell({c \in Addr : heap[c].readyToPublish})
               /\ a # Null /\ taken' = <<a, heap[a].p, heap[a].rcvId>>
  BY DEF ReceivePub
<1>2. /\ pc = "idle" /\ pc' = "taken" /\ toLoad = {}
      /\ UNCHANGED <<toLoad, sockOpen, nextRcvId, queueVars, rcvdStore, netVars,
                     brokerVars, appVars, faults, stops>>
  BY DEF ReceivePub, IInv, StoreOK
<1>3. StoreOK' /\ QueueOK' /\ LinksOK'
  BY <1>2, StayLemma DEF appVars
<1>4. ControlType' /\ NetOK'
  BY <1>2 DEF IInv, ControlType, NetOK, netVars
<1>5. ExchangeInv'
  BY <1>2 DEF IInv, ExchangeInv, netVars, brokerVars, appVars
<1>6. \A s \in Loaded : s.key > 0
  BY DEF IInv, StoreOK, Loaded
<1>7. /\ a \in Linked /\ heap[a].readyToPublish
      /\ ConfirmedCell(heap[a].rcvId) = a
  BY <1>1, <1>6, ConfirmLemma DEF IInv
<1>8. TakenOK'
  <2>1. taken'[1] = a /\ taken'[2] = heap[a].p /\ taken'[3] = heap[a].rcvId
    BY <1>1
  <2>2. Linked' = Linked /\ heap' = heap /\ rcvdPubsQ' = rcvdPubsQ
    BY <1>2 DEF Linked, queueVars
  <2>3. ConfirmedCell(taken[3])' = ConfirmedCell(heap[a].rcvId)
    BY <2>1, <2>2 DEF ConfirmedCell, FirstCell
  <2> QED BY <2>1, <2>2, <2>3, <1>2, <1>7 DEF TakenOK
<1> QED BY <1>3, <1>4, <1>5, <1>8 DEF IInv

LEMMA ReceivePubAckStep == IInv /\ Identified /\ ReceivePubAck => IInv'
<1> SUFFICES ASSUME IInv, Identified, ReceivePubAck PROVE IInv'
  OBVIOUS
<1>1. pc = "taken" /\ pc' = "idle" /\ taken' = <<>> /\ toLoad = {} /\ toLoad' = {}
      /\ UNCHANGED <<toLoad, sockOpen, nextRcvId, netVars, brokerVars, options, stops>>
      /\ delivered' = [delivered EXCEPT ![taken[2]] = IF @ = 0 THEN 1 ELSE 2]
  BY DEF ReceivePubAck, IInv, StoreOK
<1>2. PICK a, k, p : a = taken[1] /\ k = heap[a].rcvId /\ p = heap[a].p
  OBVIOUS
<1>3. /\ a \in Linked /\ heap[a].readyToPublish /\ p = taken[2]
      /\ ConfirmedCell(taken[3]) = a /\ heap[a] \in Entry
  BY <1>1, <1>2 DEF IInv, TakenOK, QueueOK, EntriesOK
<1>4. a # Null /\ p \in Pubs /\ Qos[p] \in 0..2
  <2>1. Linked \subseteq Addr
    BY DEF Linked, Cells, IInv, QueueOK, QueueType
  <2> QED BY <1>2, <1>3, <2>1, MemoryAssumption, EntryFacts, PubsAssumption
<1>5. /\ DeleteRPM(a) /\ rpHash' = rpHash
      /\ IF Persist /\ Qos[p] > 0
           THEN \/ rcvdStore' = StoreDel(k) /\ UNCHANGED faults
                \/ StoreFault /\ UNCHANGED rcvdStore
           ELSE UNCHANGED <<rcvdStore, faults>>
  BY <1>2, <1>3, <1>4 DEF ReceivePubAck
<1>6. Loaded = rcvdStore /\ Loaded' = rcvdStore' /\ AllHashed /\ (~StoreFails => AllLinked)
  BY <1>1 DEF Loaded, IInv, LinksOK
<1>7. /\ rcvdStore \subseteq Stored
      /\ \A s, t \in rcvdStore : s.key = t.key => s = t
      /\ \A s \in rcvdStore : s.key > 0
      /\ \A s \in rcvdStore : s.key <= nextRcvId
  BY <1>1, <1>6, StoredLemma DEF IInv, StoreOK
<1>8. rcvdStore' \subseteq rcvdStore /\ \A s \in rcvdStore : s.key # k => s \in rcvdStore'
  BY <1>5 DEF StoreDel
<1>9. Persist /\ Qos[p] > 0 => \E s \in rcvdStore : s.key = k /\ s.p = p /\ s.readyToPublish
  BY <1>2, <1>3, <1>6 DEF IInv, QueueOK, EntriesOK, Kept
<1>10. ~StoreFails => \A s \in rcvdStore' : s.key # k
  <2>1. CASE Persist /\ Qos[p] > 0
    BY <2>1, <1>5 DEF StoreFault, StoreDel
  <2>2. CASE ~(Persist /\ Qos[p] > 0)
    <3>1. k = 0
      BY <2>2, <1>2, <1>3 DEF IInv, QueueOK, EntriesOK, Kept
    <3> QED BY <3>1, <1>7, <1>8
  <2> QED BY <2>1, <2>2
<1>11. /\ QueueOK' /\ (AllHashed => AllHashed')
       /\ AllLinked /\ (\A s \in Loaded' : s.key # heap[a].rcvId) => AllLinked'
  BY <1>1, <1>2, <1>3, <1>5, <1>6, <1>7, <1>8, DeleteLemma DEF IInv
<1>12. LinksOK'
  BY <1>1, <1>2, <1>6, <1>10, <1>11 DEF LinksOK, StoreFails
<1>13. faults' \in Nat
  BY <1>5, FaultLemma DEF IInv, ControlType, StoreFault
<1>14. ControlType' /\ NetOK' /\ TakenOK'
  BY <1>1, <1>13 DEF IInv, ControlType, NetOK, TakenOK, netVars
<1>15. StoreOK'
  BY <1>1, <1>6, <1>7, <1>8 DEF IInv, StoreOK, Persist
<1>16. ExchangeInv'
  <2>1. \A s \in rcvdStore : s.p # p => s \in rcvdStore'
    <3> SUFFICES ASSUME NEW s \in rcvdStore, s \notin rcvdStore' PROVE s.p = p
      OBVIOUS
    <3>1. s.key = k /\ Persist /\ Qos[p] > 0
      BY <1>5, <1>8
    <3> QED BY <3>1, <1>7, <1>9
  <2>2. Qos[p] = 2 => Persist /\ Qos[p] > 0
    BY <1>4, PlainLemma
  <2>3. Qos[p] = 2 => \E s \in rcvdStore : s.p = p /\ s.readyToPublish
    BY <2>2, <1>9
  <2>4. Qos[p] = 2 /\ ~options.storeFails => \A s \in rcvdStore' : s.p # p
    <3> SUFFICES ASSUME Qos[p] = 2, ~StoreFails, NEW s \in rcvdStore', s.p = p PROVE FALSE
      BY DEF StoreFails
    <3>1. PICK t \in rcvdStore : t.key = k /\ t.p = p
      BY <2>2, <1>9
    <3>2. s \in rcvdStore
      BY <1>8
    <3>3. s = t
      BY <3>1, <3>2 DEF IInv, ExchangeInv, Exchange, RecordsOK
    <3> QED BY <3>1, <3>3, <1>10
  <2>5. Exchange(toClient, toBroker, rcvdStore,  delivered, phase, idOf, options)
    BY DEF IInv, ExchangeInv
  <2>6. PICK R : R = rcvdStore'
    OBVIOUS
  <2>7. Exchange(toClient, toBroker, R, [delivered EXCEPT ![p] = IF @ = 0 THEN 1 ELSE 2],
                 phase, idOf, options)
    BY <2>1, <2>3, <2>4, <2>5, <2>6, <1>4, <1>8, DeliverLemma
  <2> QED BY <2>6, <2>7, <1>1, <1>3 DEF ExchangeInv, netVars, brokerVars
<1> QED BY <1>11, <1>12, <1>14, <1>15, <1>16 DEF IInv

LEMMA ReceivePubDeclineStep == IInv /\ ReceivePubDecline => IInv'
<1> SUFFICES ASSUME IInv, ReceivePubDecline PROVE IInv'
  OBVIOUS
<1>1. /\ pc = "taken" /\ pc' = "idle" /\ taken' = <<>> /\ toLoad = {}
      /\ UNCHANGED <<toLoad, sockOpen, nextRcvId, queueVars, rcvdStore, netVars,
                     brokerVars, appVars, faults, stops>>
  BY DEF ReceivePubDecline, IInv, StoreOK
<1>2. StoreOK' /\ QueueOK' /\ LinksOK'
  BY <1>1, StayLemma DEF appVars
<1>3. ControlType' /\ NetOK' /\ TakenOK'
  BY <1>1 DEF IInv, ControlType, NetOK, TakenOK, netVars
<1>4. ExchangeInv'
  BY <1>1 DEF IInv, ExchangeInv, netVars, brokerVars, appVars
<1> QED BY <1>2, <1>3, <1>4 DEF IInv

-----------------------------------------------------------------------------
(* The broker.                                                             *)

\* Only the connection and the broker change.
LEMMA BrokerLemma ==
    ASSUME IInv, sockOpen,
           UNCHANGED <<loadVars, sockOpen, nextRcvId, queueVars, rcvdStore, appVars, stops>>,
           UNCHANGED faults \/ Fault, ExchangeInv'
    PROVE  IInv'
<1>1. sockOpen' \in BOOLEAN /\ faults' \in Nat /\ stops' \in Nat
  BY FaultLemma DEF IInv, ControlType
<1>2. NetOK'
  BY DEF IInv, NetOK, loadVars
<1> QED BY <1>1, <1>2, QuietLemma DEF appVars

LEMMA BrokerPublishStep ==
    ASSUME IInv, NEW p \in Pubs, BrokerPublish(p)
    PROVE  IInv'
<1>1. Exchange(toClient, toBroker, rcvdStore, delivered, phase, idOf, options)
  BY DEF IInv, ExchangeInv
<1>2. /\ phase[p] = "new" /\ sockOpen /\ faults' = faults
      /\ UNCHANGED <<loadVars, sockOpen, nextRcvId, queueVars, rcvdStore, toBroker, appVars,
                     stops>>
      /\ phase' = [phase EXCEPT ![p] = IF Qos[p] = 0 THEN "done" ELSE "sent"]
  BY DEF BrokerPublish, BrokerSends
<1>3. Qos[p] \in 0..2
  BY PubsAssumption
<1>4. CASE Qos[p] = 0
  <2>1. toClient' = Append(toClient, Publish(p, 0, FALSE)) /\ idOf' = idOf
        /\ phase' = [phase EXCEPT ![p] = "done"]
    BY <1>2, <1>4 DEF BrokerPublish, BrokerSends
  <2>2. PICK ph : ph = [phase EXCEPT ![p] = "done"]
    OBVIOUS
  <2>3. Exchange(toClient, toBroker, rcvdStore, delivered, ph, idOf, options)
    BY <1>1, <1>2, <1>4, <2>2, StartQos0Lemma
  <2>4. \A q \in Pubs : ~Owns(ph, idOf, q, 0)
    BY <2>3, PubsAssumption DEF Exchange, IdsOK, Owns
  <2>5. \A i \in 1..Len(toClient) : ~IsPublish(toClient[i]) => toClient[i].id # 0
    <3>1. \A i \in 1..Len(toClient) : toClient[i] \in ToClient
      BY <1>1 DEF Exchange, ExchangeType
    <3> QED BY <3>1, ClientFacts
  <2>6. \A i \in 1..Len(toBroker) : toBroker[i].id # 0
    <3>1. \A i \in 1..Len(toBroker) : toBroker[i] \in ToBroker
      BY <1>1 DEF Exchange, ExchangeType
    <3> QED BY <3>1, BrokerFacts, PubsAssumption
  <2>7. Exchange(Append(toClient, Publish(p, 0, FALSE)), toBroker, rcvdStore, delivered,
                 ph, idOf, options)
    <3>1. PICK T, B, S, d, ids, o : /\ T = toClient /\ B = toBroker /\ S = rcvdStore
                                    /\ d = delivered /\ ids = idOf /\ o = options
      OBVIOUS
    <3>2. Exchange(T, B, S, d, ph, ids, o)
      BY <2>3, <3>1
    <3>3. \A q \in Pubs : Owns(ph, ids, q, 0) => q = p
      BY <2>4, <3>1
    <3>4. \A i \in 1..Len(T) : ~IsPublish(T[i]) => T[i].id # 0
      BY <2>5, <3>1
    <3>5. \A i \in 1..Len(B) : B[i].type = "PUBCOMP" => B[i].id # 0
      BY <2>6, <3>1
    <3>6. /\ Qos[p] > 0 <=> 0 # 0
          /\ Qos[p] # 2 /\ 0 \in MsgIds \cup {0} /\ FALSE \in BOOLEAN
      BY <1>4
    <3>7. Exchange(Append(T, Publish(p, 0, FALSE)), B, S, d, ph, ids, o)
      BY <3>2, <3>3, <3>4, <3>5, <3>6, SendPublishLemma
    <3> QED BY <3>1, <3>7
  <2>8. ExchangeInv'
    BY <1>2, <2>1, <2>2, <2>7 DEF ExchangeInv, appVars
  <2> QED BY <1>2, <2>8, BrokerLemma
<1>5. CASE Qos[p] # 0
  <2>1. PICK id : id = Min(FreeIds)
    OBVIOUS
  <2>2. /\ FreeIds # {} /\ idOf' = [idOf EXCEPT ![p] = id]
        /\ toClient' = Append(toClient, Publish(p, id, FALSE))
        /\ phase' = [phase EXCEPT ![p] = "sent"]
    BY <1>2, <1>5, <2>1 DEF BrokerPublish, BrokerSends
  <2>3. id \in FreeIds
    <3>1. FreeIds \in SUBSET Nat
      BY PubsAssumption DEF FreeIds
    <3> QED BY <2>1, <2>2, <3>1, MinLemma
  <2>4. /\ id \in MsgIds
        /\ \A q \in Pubs : ~Owns(phase, idOf, q, id)
        /\ \A i \in 1..Len(toClient) : toClient[i].id # id
        /\ \A i \in 1..Len(toBroker) : toBroker[i].id # id
    BY <2>3 DEF FreeIds, InFlight, InTransit, Owns
  <2>5. PICK ph, ids : /\ ph = [phase EXCEPT ![p] = "sent"]
                       /\ ids = [idOf EXCEPT ![p] = id]
    OBVIOUS
  <2>6. Qos[p] > 0
    BY <1>3, <1>5
  <2>7. /\ Exchange(toClient, toBroker, rcvdStore, delivered, ph, ids, options)
        /\ Qos[p] = 2 =>
             /\ \A i \in 1..Len(toClient) : IsPublish(toClient[i]) => toClient[i].p # p
             /\ \A s \in rcvdStore : s.p # p
    <3>1. PICK T, B, S, d, f, g, o : /\ T = toClient /\ B = toBroker /\ S = rcvdStore
                                     /\ d = delivered /\ f = phase /\ g = idOf /\ o = options
      OBVIOUS
    <3>2. Exchange(T, B, S, d, f, g, o) /\ f[p] = "new"
      BY <1>1, <1>2, <3>1
    <3>3. /\ \A q \in Pubs : ~Owns(f, g, q, id)
          /\ \A i \in 1..Len(T) : T[i].id # id
          /\ \A i \in 1..Len(B) : B[i].id # id
      BY <2>4, <3>1
    <3>4. /\ Exchange(T, B, S, d, [f EXCEPT ![p] = "sent"], [g EXCEPT ![p] = id], o)
          /\ Qos[p] = 2 => /\ \A i \in 1..Len(T) : IsPublish(T[i]) => T[i].p # p
                           /\ \A s \in S : s.p # p
      BY <2>4, <2>6, <3>2, <3>3, StartLemma
    <3> QED BY <2>5, <3>1, <3>4
  <2>8. ph[p] = "sent" /\ Owns(ph, ids, p, id) /\ \A q \in Pubs : Owns(ph, ids, q, id) => q = p
    <3>1. ph[p] = "sent" /\ ids[p] = id /\ \A q \in Pubs : q # p => ph[q] = phase[q] /\ ids[q] = idOf[q]
      BY <1>1, <2>5 DEF Exchange, ExchangeType
    <3> QED BY <3>1, <2>4 DEF Owns
  <2>9. id # 0
    BY <2>4, PubsAssumption
  <2>10. Exchange(Append(toClient, Publish(p, id, FALSE)), toBroker, rcvdStore, delivered,
                  ph, ids, options)
    BY <2>4, <2>6, <2>7, <2>8, <2>9, SendPublishLemma
  <2>11. ExchangeInv'
    BY <1>2, <2>2, <2>5, <2>10 DEF ExchangeInv, appVars
  <2> QED BY <1>2, <2>11, BrokerLemma
<1> QED BY <1>4, <1>5

LEMMA BrokerResendStep ==
    ASSUME IInv, NEW p \in Pubs, BrokerResend(p)
    PROVE  IInv'
<1>1. Exchange(toClient, toBroker, rcvdStore, delivered, phase, idOf, options)
  BY DEF IInv, ExchangeInv
<1>2. PICK id : id = idOf[p]
  OBVIOUS
<1>3. /\ phase[p] \in {"sent", "rel"} /\ sockOpen /\ (UNCHANGED faults \/ Fault)
      /\ UNCHANGED <<loadVars, sockOpen, nextRcvId, queueVars, rcvdStore, toBroker, appVars,
                     stops>>
      /\ UNCHANGED <<phase, idOf>>
      /\ toClient' = Append(toClient, IF phase[p] = "sent" THEN Publish(p, id, TRUE)
                                                          ELSE Pubrel(id))
  BY <1>2 DEF BrokerResend, BrokerSends, InFlight, brokerVars
<1>4. /\ Owns(phase, idOf, p, id) /\ id \in MsgIds /\ id # 0 /\ Qos[p] > 0
      /\ \A q \in Pubs : Owns(phase, idOf, q, id) => q = p
  BY <1>1, <1>2, <1>3, PubsAssumption DEF Exchange, IdsOK, Owns
<1>5. CASE phase[p] = "sent"
  <2>1. \A i \in 1..Len(toClient) : ~IsPublish(toClient[i]) => toClient[i].id # id
    BY <1>1, <1>4, <1>5 DEF Exchange, ClientOK
  <2>2. \A i \in 1..Len(toBroker) : toBroker[i].type = "PUBCOMP" => toBroker[i].id # id
    BY <1>1, <1>4, <1>5 DEF Exchange, BrokerOK
  <2>3. Exchange(Append(toClient, Publish(p, id, TRUE)), toBroker, rcvdStore, delivered,
                 phase, idOf, options)
    BY <1>1, <1>4, <1>5, <2>1, <2>2, SendPublishLemma
  <2>4. ExchangeInv'
    BY <1>3, <1>5, <2>3 DEF ExchangeInv, appVars
  <2> QED BY <1>3, <2>4, BrokerLemma
<1>6. CASE phase[p] # "sent"
  <2>1. \A q \in Pubs : Owns(phase, idOf, q, id) => phase[q] = "rel"
    BY <1>3, <1>4, <1>6
  <2>2. Exchange(Append(toClient, Pubrel(id)), toBroker, rcvdStore, delivered,
                 phase, idOf, options)
    BY <1>1, <1>4, <2>1, SendPubrelLemma
  <2>3. ExchangeInv'
    BY <1>3, <1>6, <2>2 DEF ExchangeInv, appVars
  <2> QED BY <1>3, <2>3, BrokerLemma
<1> QED BY <1>5, <1>6

LEMMA BrokerPubackStep ==
    ASSUME IInv, NEW q \in Pubs, BrokerPuback(q)
    PROVE  IInv'
<1>1. Exchange(toClient, toBroker, rcvdStore, delivered, phase, idOf, options)
  BY DEF IInv, ExchangeInv
<1>2. /\ sockOpen /\ toBroker # <<>> /\ phase[q] \in {"sent", "rel"} /\ Qos[q] = 1
      /\ idOf[q] = Head(toBroker).id /\ toBroker' = Tail(toBroker)
      /\ UNCHANGED <<loadVars, sockOpen, nextRcvId, queueVars, rcvdStore, appVars, faults, stops>>
      /\ phase' = [phase EXCEPT ![q] = "done"] /\ toClient' = toClient
      /\ idOf' = [idOf EXCEPT ![q] = 0]
  BY DEF BrokerPuback, BrokerTakes, InFlight
<1>3. /\ Exchange(toClient, Tail(toBroker), rcvdStore, delivered, phase, idOf, options)
      /\ options.persist /\ ~options.cleanStart => Held(rcvdStore, delivered, q)
  BY <1>1, <1>2, TakeLemma DEF Owns
<1>4. \A s \in rcvdStore : s.p = q => s.readyToPublish
  BY <1>1, <1>2 DEF Exchange, RecordsOK
<1>5. options.persist /\ ~options.cleanStart => Released(rcvdStore, delivered, q)
  BY <1>3, <1>4 DEF Held, Released
<1>6. PICK ph, ids : ph = [phase EXCEPT ![q] = "done"] /\ ids = [idOf EXCEPT ![q] = 0]
  OBVIOUS
<1>7. Exchange(toClient, Tail(toBroker), rcvdStore, delivered, ph, ids, options)
  <2>1. PICK T, B, S, d, f, g, o : /\ T = toClient /\ B = Tail(toBroker) /\ S = rcvdStore
                                   /\ d = delivered /\ f = phase /\ g = idOf /\ o = options
    OBVIOUS
  <2>2. Exchange(T, B, S, d, f, g, o) /\ f[q] \in {"sent", "rel"} /\ Qos[q] # 2
    BY <1>2, <1>3, <2>1
  <2>3. o.persist /\ ~o.cleanStart => Released(S, d, q)
    BY <1>5, <2>1
  <2>4. Exchange(T, B, S, d, [f EXCEPT ![q] = "done"], [g EXCEPT ![q] = 0], o)
    BY <2>2, <2>3, FinishLemma
  <2> QED BY <1>6, <2>1, <2>4
<1>8. ExchangeInv'
  BY <1>2, <1>6, <1>7 DEF ExchangeInv, appVars
<1> QED BY <1>2, <1>8, BrokerLemma

LEMMA BrokerPubrecStep ==
    ASSUME IInv, NEW q \in Pubs, BrokerPubrec(q)
    PROVE  IInv'
<1>1. Exchange(toClient, toBroker, rcvdStore, delivered, phase, idOf, options)
  BY DEF IInv, ExchangeInv
<1>2. PICK id, ph : id = idOf[q] /\ ph = [phase EXCEPT ![q] = "rel"]
  OBVIOUS
<1>3. /\ sockOpen /\ toBroker # <<>> /\ phase[q] \in {"sent", "rel"} /\ Qos[q] = 2
      /\ id = Head(toBroker).id /\ toBroker' = Tail(toBroker)
      /\ UNCHANGED <<loadVars, sockOpen, nextRcvId, queueVars, rcvdStore, appVars, faults, stops>>
      /\ phase' = ph /\ toClient' = Append(toClient, Pubrel(id))
      /\ idOf' = [idOf EXCEPT ![q] = @]
  BY <1>2 DEF BrokerPubrec, BrokerTakes, InFlight
<1>4. idOf' = idOf /\ ph[q] = "rel" /\ \A p \in Pubs : p # q => ph[p] = phase[p]
  BY <1>1, <1>2, <1>3 DEF Exchange, ExchangeType
<1>5. /\ Exchange(toClient, Tail(toBroker), rcvdStore, delivered, phase, idOf, options)
      /\ options.persist /\ ~options.cleanStart => Held(rcvdStore, delivered, q)
      /\ id \in MsgIds
  BY <1>1, <1>2, <1>3, TakeLemma DEF Owns
<1>6. Exchange(toClient, Tail(toBroker), rcvdStore, delivered, ph, idOf, options)
  BY <1>2, <1>3, <1>5, RelLemma
<1>7. \A p \in Pubs : Owns(ph, idOf, p, id) => ph[p] = "rel"
  <2>1. Owns(ph, idOf, q, id)
    BY <1>2, <1>4 DEF Owns
  <2> QED BY <1>2, <1>4, <1>6, <2>1 DEF Exchange, IdsOK, Owns
<1>8. Exchange(Append(toClient, Pubrel(id)), Tail(toBroker), rcvdStore, delivered, ph, idOf,
               options)
  BY <1>5, <1>6, <1>7, SendPubrelLemma
<1>9. ExchangeInv'
  BY <1>3, <1>4, <1>8 DEF ExchangeInv, appVars
<1> QED BY <1>3, <1>9, BrokerLemma

LEMMA BrokerPubcompStep ==
    ASSUME IInv, NEW q \in Pubs, BrokerPubcomp(q)
    PROVE  IInv'
<1>1. Exchange(toClient, toBroker, rcvdStore, delivered, phase, idOf, options)
  BY DEF IInv, ExchangeInv
<1>2. /\ sockOpen /\ toBroker # <<>> /\ phase[q] \in {"sent", "rel"} /\ Qos[q] = 2
      /\ Head(toBroker).type = "PUBCOMP"
      /\ idOf[q] = Head(toBroker).id /\ toBroker' = Tail(toBroker)
      /\ UNCHANGED <<loadVars, sockOpen, nextRcvId, queueVars, rcvdStore, appVars, faults, stops>>
      /\ phase' = [phase EXCEPT ![q] = "done"] /\ toClient' = toClient
      /\ idOf' = [idOf EXCEPT ![q] = 0]
  BY DEF BrokerPubcomp, BrokerTakes, InFlight
<1>3. /\ Exchange(toClient, Tail(toBroker), rcvdStore, delivered, phase, idOf, options)
      /\ \A j \in 1..Len(toClient) : IsPublish(toClient[j]) => toClient[j].id # idOf[q]
      /\ \A s \in rcvdStore : ~s.readyToPublish => s.id # idOf[q]
      /\ options.persist /\ ~options.cleanStart => Released(rcvdStore, delivered, q)
  BY <1>1, <1>2, TakeLemma DEF Owns
<1>4. phase[q] = "rel"
  <2>1. 1 \in 1..Len(toBroker) /\ Head(toBroker) = toBroker[1]
    BY <1>1, <1>2, TailFacts DEF Exchange, ExchangeType
  <2>2. Owns(phase, idOf, q, toBroker[1].id) /\ toBroker[1].type = "PUBCOMP"
    BY <1>2, <2>1 DEF Owns
  <2> QED BY <1>1, <2>1, <2>2 DEF Exchange, BrokerOK
<1>5. PICK ph, ids : ph = [phase EXCEPT ![q] = "done"] /\ ids = [idOf EXCEPT ![q] = 0]
  OBVIOUS
<1>6. Exchange(toClient, Tail(toBroker), rcvdStore, delivered, ph, ids, options)
  BY <1>2, <1>3, <1>4, <1>5, FinishLemma
<1>7. ExchangeInv'
  BY <1>2, <1>5, <1>6 DEF ExchangeInv, appVars
<1> QED BY <1>2, <1>7, BrokerLemma

LEMMA BrokerIgnoresStep == IInv /\ BrokerIgnores => IInv'
<1> SUFFICES ASSUME IInv, BrokerIgnores PROVE IInv'
  OBVIOUS
<1>1. /\ sockOpen /\ toBroker # <<>> /\ toBroker' = Tail(toBroker)
      /\ UNCHANGED <<loadVars, sockOpen, nextRcvId, queueVars, rcvdStore, toClient,
                     brokerVars, appVars, faults, stops>>
  BY DEF BrokerIgnores
<1>2. Exchange(toClient, Tail(toBroker), rcvdStore, delivered, phase, idOf, options)
  BY <1>1, TakeLemma DEF IInv, ExchangeInv
<1>3. ExchangeInv'
  BY <1>1, <1>2 DEF ExchangeInv, brokerVars, appVars
<1> QED BY <1>1, <1>3, BrokerLemma

LEMMA StutterLemma == IInv /\ UNCHANGED vars => IInv'
<1> SUFFICES ASSUME IInv, UNCHANGED vars PROVE IInv'
  OBVIOUS
<1>1. UNCHANGED <<loadVars, nextRcvId, queueVars, rcvdStore, options>>
  BY DEF vars, appVars
<1>2. sockOpen' \in BOOLEAN /\ faults' \in Nat /\ stops' \in Nat
  BY DEF vars, IInv, ControlType
<1>3. NetOK'
  BY DEF vars, loadVars, netVars, IInv, NetOK
<1>4. ExchangeInv'
  BY DEF vars, netVars, brokerVars, appVars, IInv, ExchangeInv
<1> QED BY <1>1, <1>2, <1>3, <1>4, QuietLemma

-----------------------------------------------------------------------------
(* The invariant holds.                                                    *)

LEMMA NextLemma == IInv /\ NoWrap /\ Identified /\ [Next]_vars => IInv'
<1> SUFFICES ASSUME IInv, NoWrap, Identified, [Next]_vars PROVE IInv'
  OBVIOUS
<1>1. CASE Connect \/ LoadReceived \/ Establish \/ Disconnect \/ Crash
  BY <1>1, ConnectStep, LoadReceivedStep, EstablishStep, StopStep
<1>2. CASE SocketError \/ Reconnect
  BY <1>2, SocketErrorStep, ReconnectStep
<1>3. CASE PublishRefused \/ PublishUnpersisted \/ PublishStored \/ ReceivePubrel
  BY <1>3, PublishRefusedStep, PublishUnpersistedStep, PublishStoredStep, ReceivePubrelStep
<1>4. CASE ReceivePub \/ ReceivePubAck \/ ReceivePubDecline
  BY <1>4, ReceivePubStep, ReceivePubAckStep, ReceivePubDeclineStep
<1>5. CASE \E p \in Pubs : \/ BrokerPublish(p) \/ BrokerResend(p) \/ BrokerPuback(p)
                           \/ BrokerPubrec(p) \/ BrokerPubcomp(p)
  <2>1. PICK p \in Pubs : \/ BrokerPublish(p) \/ BrokerResend(p) \/ BrokerPuback(p)
                          \/ BrokerPubrec(p) \/ BrokerPubcomp(p)
    BY <1>5
  <2> QED BY <2>1, BrokerPublishStep, BrokerResendStep, BrokerPubackStep, BrokerPubrecStep,
             BrokerPubcompStep
<1>6. CASE BrokerIgnores
  BY <1>6, BrokerIgnoresStep
<1>7. CASE Quiescent \/ UNCHANGED vars
  BY <1>7, StutterLemma DEF Quiescent
<1> QED BY <1>1, <1>2, <1>3, <1>4, <1>5, <1>6, <1>7 DEF Next

\* The invariant is inductive, as long as no rcvId wraps and every QoS 2
\* publication has a record.
THEOREM Invariance == Spec /\ [](NoWrap /\ Identified) => []IInv
<1>1. Init => IInv
  BY InitLemma
<1>2. IInv /\ (NoWrap /\ Identified) /\ [Next]_vars => IInv'
  BY NextLemma
<1> QED BY <1>1, <1>2, PTL DEF Spec

\* Every variable keeps its type, and what the application is about to confirm
\* is still linked.
THEOREM TypeCorrect == Spec /\ [](NoWrap /\ Identified) => []TypeOK
<1>1. IInv => TypeOK
  <2> SUFFICES ASSUME IInv PROVE TypeOK
    OBVIOUS
  <2>1. /\ toLoad \subseteq Stored /\ rcvdStore \subseteq Stored
        /\ toClient \in Seq(ToClient) /\ toBroker \in Seq(ToBroker)
        /\ phase \in [Pubs -> Phases] /\ idOf \in [Pubs -> MsgIds \cup {0}]
        /\ delivered \in [Pubs -> 0..2] /\ options \in Options
    BY DEF IInv, StoreOK, ExchangeInv, Exchange, ExchangeType
  <2>2. /\ heap \in [Addr -> Entry \cup {Freed}] /\ rcvdPubsQ \in Seq(Addr)
        /\ rpHash \in [MsgIds -> Addr \cup {Null}]
        /\ rtpEntries \in Int /\ numBytesQueued \in Int
    BY DEF IInv, QueueOK, QueueType
  <2>3. CASE pc = "taken"
    <3>1. /\ taken[1] \in Linked
          /\ taken[2] = heap[taken[1]].p /\ taken[3] = heap[taken[1]].rcvId
      BY <2>3 DEF IInv, TakenOK
    <3>2. heap[taken[1]] \in Entry
      BY <3>1 DEF IInv, QueueOK, EntriesOK
    <3>3. taken[2] \in Pubs /\ taken[3] \in 0..RcvMax
      BY <3>1, <3>2, EntryFacts
    <3> QED BY <2>1, <2>2, <2>3, <3>1, <3>3 DEF TypeOK, IInv, ControlType, Linked
  <2>4. CASE pc # "taken"
    <3>1. taken = <<>>
      BY <2>4 DEF IInv, TakenOK
    <3> QED BY <2>1, <2>2, <2>4, <3>1 DEF TypeOK, IInv, ControlType
  <2> QED BY <2>3, <2>4
<1> QED BY <1>1, Invariance, PTL

\* rtpEntries, on which MQIsdp_receivePub decides whether there is something
\* to receive, is the number of released entries of the queue.
THEOREM ReadyCountedHolds == Spec /\ [](NoWrap /\ Identified) => []ReadyCounted
<1>1. IInv => ReadyCounted
  <2> SUFFICES ASSUME IInv PROVE ReadyCounted
    OBVIOUS
  <2>1. rtpEntries = Cardinality(ReadyCells)
    BY DEF IInv, QueueOK
  <2> QED BY <2>1 DEF ReadyCounted, Quantify, ReadyCells, Linked
<1> QED BY <1>1, Invariance, PTL

\* The hash table leads every PUBREL to a live entry that waits for it, and every
\* entry that waits can be reached: no PUBREL is lost on the way, whatever was
\* repeated, deleted or recovered from the store.
THEOREM HashHoldsUnreleasedHolds ==
    Spec /\ [](NoWrap /\ Identified) => []HashHoldsUnreleased
<1>1. IInv => HashHoldsUnreleased
  <2> SUFFICES ASSUME IInv PROVE HashHoldsUnreleased
    OBVIOUS
  <2>1. \A id \in MsgIds : rpHash[id] # Null =>
          rpHash[id] \in Linked /\ ~heap[rpHash[id]].readyToPublish
    BY DEF IInv, QueueOK, HashOK
  <2>2. ASSUME NEW a \in Linked, ~heap[a].readyToPublish
        PROVE  \E id \in MsgIds : rpHash[id] = a
    <3>1. PICK s \in Loaded : /\ s.key = heap[a].rcvId
                              /\ s.readyToPublish <=> heap[a].readyToPublish
      BY <2>2 DEF IInv, QueueOK, EntriesOK
    <3>2. PICK c \in Linked : heap[c].rcvId = s.key /\ rpHash[s.id] = c
      BY <2>2, <3>1 DEF IInv, LinksOK, AllHashed
    <3>3. s \in Stored /\ s.key > 0
      BY StoredLemma DEF IInv, StoreOK, Loaded
    <3>4. c = a
      BY <2>2, <3>1, <3>2, <3>3 DEF IInv, QueueOK, EntriesOK
    <3> QED BY <3>2, <3>3, <3>4, StoredFacts
  <2> QED BY <2>1, <2>2 DEF HashHoldsUnreleased, Linked
<1> QED BY <1>1, Invariance, PTL

\* The confirmation that follows MQIsdp_receivePub deletes the entry the
\* application has received, although it names it only by its rcvId.
THEOREM ConfirmsWhatWasTakenHolds ==
    Spec /\ [](NoWrap /\ Identified) => []ConfirmsWhatWasTaken
<1>1. IInv => ConfirmsWhatWasTaken
  BY DEF IInv, TakenOK, ConfirmsWhatWasTaken
<1> QED BY <1>1, Invariance, PTL

\* As long as the store does not fail, a connected application's store has a
\* record for every queued publication of QoS 1 or 2, and for no other.
THEOREM StoreMirrorsQueueHolds ==
    Spec /\ [](NoWrap /\ Identified) => []StoreMirrorsQueue
<1>1. IInv => StoreMirrorsQueue
  <2> SUFFICES ASSUME IInv, Persist, ~StoreFails, pc \in {"idle", "taken"}
               PROVE  {<<s.key, s.p, s.readyToPublish>> : s \in rcvdStore}
                        = {<<heap[a].rcvId, heap[a].p, heap[a].readyToPublish>> :
                             a \in {b \in Cells(rcvdPubsQ) : Qos[heap[b].p] > 0}}
    BY DEF StoreMirrorsQueue
  <2>1. Loaded = rcvdStore
    BY DEF IInv, StoreOK, Loaded
  <2>2. ASSUME NEW a \in Linked, NEW s \in rcvdStore, s.key = heap[a].rcvId
        PROVE  /\ Qos[heap[a].p] > 0
               /\ <<s.key, s.p, s.readyToPublish>>
                    = <<heap[a].rcvId, heap[a].p, heap[a].readyToPublish>>
    <3>1. s \in Stored /\ s.key > 0
      BY StoredLemma DEF IInv, StoreOK
    <3>2. heap[a] \in Entry /\ Kept(heap[a])
      BY <2>2, <3>1 DEF IInv, QueueOK, EntriesOK
    <3>3. PICK t \in rcvdStore : /\ t.key = heap[a].rcvId /\ t.p = heap[a].p
                                 /\ t.readyToPublish <=> heap[a].readyToPublish
      BY <2>1, <3>2 DEF IInv, QueueOK, EntriesOK
    <3>4. t = s
      BY <2>2, <3>3 DEF IInv, StoreOK
    <3>5. s.readyToPublish = heap[a].readyToPublish
      BY <3>1, <3>2, <3>3, <3>4, StoredFacts, EntryFacts
    <3> QED BY <2>2, <3>2, <3>3, <3>4, <3>5 DEF Kept
  <2>3. ASSUME NEW s \in rcvdStore
        PROVE  \E a \in Linked : s.key = heap[a].rcvId
    BY <2>1 DEF IInv, LinksOK, AllLinked
  <2>4. ASSUME NEW a \in Linked, Qos[heap[a].p] > 0
        PROVE  \E s \in rcvdStore : s.key = heap[a].rcvId
    BY <2>1, <2>4 DEF IInv, QueueOK, EntriesOK, Kept
  <2> QED BY <2>2, <2>3, <2>4 DEF Linked
<1> QED BY <1>1, Invariance, PTL

\* A QoS 2 publication is handed to the application at most once, across lost
\* answers, repeats and restarts, unless the store fails to delete it.
THEOREM AtMostOnceHolds == Spec /\ [](NoWrap /\ Identified) => []AtMostOnce
<1>1. IInv => AtMostOnce
  BY DEF IInv, ExchangeInv, Exchange, OnceOK, AtMostOnce, StoreFails
<1> QED BY <1>1, Invariance, PTL

\* A QoS 2 publication is handed to the application only after the broker has
\* released it.
THEOREM NotBeforeReleaseHolds == Spec /\ [](NoWrap /\ Identified) => []NotBeforeRelease
<1>1. IInv => NotBeforeRelease
  BY DEF IInv, ExchangeInv, Exchange, ReleasedOK, Released, NotBeforeRelease
<1> QED BY <1>1, Invariance, PTL

\* With persistence, a publication the broker has an answer for was received by
\* the application or is in the store, released if the broker is done with it.
THEOREM AnsweredIsKeptHolds == Spec /\ [](NoWrap /\ Identified) => []AnsweredIsKept
<1>1. IInv => AnsweredIsKept
  <2> SUFFICES ASSUME IInv, Persist, ~CleanStart, NEW p \in Pubs, Qos[p] > 0,
                      phase[p] \in {"rel", "done"}, delivered[p] = 0
               PROVE  \E s \in rcvdStore : s.p = p /\ (phase[p] = "done" => s.readyToPublish)
    BY DEF AnsweredIsKept
  <2>1. /\ Held(rcvdStore, delivered, p)
        /\ phase[p] = "done" => Released(rcvdStore, delivered, p)
    BY DEF IInv, ExchangeInv, Exchange, AnsweredOK, Persist, CleanStart
  <2> QED BY <2>1 DEF Held, Released
<1> QED BY <1>1, Invariance, PTL

-----------------------------------------------------------------------------
(* The promise kept: each step is one of Delivery, or shows nothing.       *)

\* The store has nothing of a QoS 2 publication whose session was dropped.
DroppedOK == \A s \in rcvdStore : Qos[s.p] = 2 => phase[s.p] # "dropped"

PromiseType ==
    /\ phase \in [Pubs -> Phases] /\ delivered \in [Pubs -> 0..2]
    /\ rcvdStore \subseteq Stored /\ Exact \subseteq Pubs

LEMMA PromiseTypeLemma == IInv => PromiseType
BY DEF IInv, ExchangeInv, Exchange, ExchangeType, PromiseType, Exact

LEMMA SessionPhase ==
    ASSUME ~CleanStart PROVE Session = [p \in Pubs |-> phase[p]]
BY DEF Session

\* What is added to the store is of a publication in flight.
LEMMA AddedLemma ==
    ASSUME IInv, NoWrap, PublishStored, NEW w, w = Head(toClient)
    PROVE  /\ w.p \in Pubs /\ w \in ToClient /\ IsPublish(w)
           /\ \E i \in 1..Len(toClient) : toClient[i] = w
           /\ Qos[w.p] = 2 => phase[w.p] \in {"sent", "rel"}
           /\ UNCHANGED <<phase, delivered, options>>
           /\ \/ rcvdStore' = rcvdStore
              \/ \E s : s.p = w.p /\ rcvdStore' = rcvdStore \cup {s}
<1>1. /\ pc = "idle" /\ toClient # <<>> /\ w.type = "PUBLISH" /\ toLoad = {}
      /\ UNCHANGED <<phase, delivered, options>>
  BY DEF PublishStored, Receive, brokerVars, appVars, IInv, StoreOK
<1>2. toClient \in Seq(ToClient)
  BY DEF IInv, ExchangeInv, Exchange, ExchangeType
<1>3. 1 \in 1..Len(toClient) /\ toClient[1] = w /\ w \in ToClient
  BY <1>1, <1>2, TailFacts
<1>4. IsPublish(w) /\ w.p \in Pubs
  BY <1>1, <1>3, ClientFacts DEF IsPublish
<1>5. Qos[w.p] = 2 => phase[w.p] \in {"sent", "rel"}
  BY <1>3, <1>4 DEF IInv, ExchangeInv, Exchange, ClientOK, Owns
<1>6. \/ rcvdStore' = rcvdStore
      \/ \E s : s.p = w.p /\ rcvdStore' = rcvdStore \cup {s}
  <2>1. CASE Persist /\ Qos[w.p] > 0
    <3> DEFINE s == [key |-> nextRcvId', p |-> w.p, id |-> w.id, dup |-> w.dup,
                     readyToPublish |-> ReleasedOnArrival(w.p)]
    <3>1. nextRcvId' = SetNextRcvId(nextRcvId) /\ rcvdStore' = StoreAdd(s)
      BY <2>1 DEF PublishStored
    <3>2. nextRcvId \in Nat /\ nextRcvId' = nextRcvId + 1
      BY <3>1, LimitsAssumption DEF NoWrap, SetNextRcvId, IInv, ControlType
    <3>3. \A r \in rcvdStore : r.key <= nextRcvId /\ r.key \in Nat
      <4>1. \A r \in rcvdStore : r.key <= nextRcvId
        BY <1>1 DEF IInv, StoreOK, Loaded
      <4>2. \A r \in rcvdStore : r.key \in Nat
        BY StoredLemma, StoredFacts, LimitsAssumption
      <4> QED BY <4>1, <4>2
    <3>4. \A r \in rcvdStore : r.key # s.key
      BY <3>2, <3>3
    <3>5. rcvdStore' = rcvdStore \cup {s} /\ s.p = w.p
      BY <3>1, <3>4 DEF StoreAdd
    <3> QED BY <3>5
  <2>2. CASE ~(Persist /\ Qos[w.p] > 0)
    BY <2>2 DEF PublishStored
  <2> QED BY <2>1, <2>2
<1> QED BY <1>1, <1>3, <1>4, <1>5, <1>6

\* The steps that leave the broker and what was delivered alone, and at most take
\* records out of the store or release them.
Keeps == \A p \in Pubs : (\E s \in rcvdStore' : s.p = p) => \E s \in rcvdStore : s.p = p

LEMMA DroppedKept ==
    ASSUME IInv, IInv', DroppedOK, phase' = phase, Keeps PROVE DroppedOK'
<1>1. \A s \in rcvdStore' : s.p \in Pubs
  BY StoredFacts, StoredLemma DEF IInv, ExchangeInv, Exchange, ExchangeType
<1> QED BY <1>1 DEF DroppedOK, Keeps

LEMMA PubrelStore ==
    ASSUME ReceivePubrel
    PROVE  \A p : (\E s \in rcvdStore' : s.p = p) <=> \E s \in rcvdStore : s.p = p
<1>1. CASE rcvdStore' = rcvdStore
  BY <1>1
<1>2. CASE rcvdStore' # rcvdStore
  <2>1. PICK k : rcvdStore' = StoreUpd(k)
    BY <1>2 DEF ReceivePubrel
  <2>2. \A r : (IF r.key = k THEN [r EXCEPT !.readyToPublish = TRUE] ELSE r).p = r.p
    OBVIOUS
  <2> QED BY <2>1, <2>2 DEF StoreUpd
<1> QED BY <1>1, <1>2

\* Only the broker's steps and a new session change the phases; the store gains records
\* only of what has arrived.
LEMMA DroppedStep ==
    ASSUME IInv, IInv', NoWrap, DroppedOK, [Next]_vars PROVE DroppedOK'
<1>1. CASE PublishStored
  <2>1. PICK w : w = Head(toClient)
    OBVIOUS
  <2>2. /\ Qos[w.p] = 2 => phase[w.p] \in {"sent", "rel"}
        /\ phase' = phase
        /\ rcvdStore' = rcvdStore \/ \E s : s.p = w.p /\ rcvdStore' = rcvdStore \cup {s}
    BY <1>1, <2>1, AddedLemma
  <2> QED BY <2>2 DEF DroppedOK
<1>2. CASE Establish \/ Reconnect
  <2>1. rcvdStore' = rcvdStore
    BY <1>2 DEF Establish, Reconnect
  <2>2. CASE phase' = phase
    BY <2>1, <2>2 DEF DroppedOK
  <2>3. CASE CleanStart /\ Establish
    <3>1. rcvdStore = {}
      BY <2>3 DEF Establish, IInv, StoreOK
    <3> QED BY <2>1, <3>1 DEF DroppedOK
  <2>4. CASE ~CleanStart /\ phase' = Session
    <3>1. phase \in [Pubs -> Phases]
      BY PromiseTypeLemma DEF PromiseType
    <3>2. phase' = phase
      BY <2>4, <3>1, SessionPhase
    <3> QED BY <2>1, <3>2 DEF DroppedOK
  <2> QED BY <1>2, <2>2, <2>3, <2>4 DEF Establish, Reconnect, OpenSocket
<1>3. ASSUME NEW q \in Pubs, BrokerPublish(q) \/ BrokerPuback(q) \/ BrokerPubrec(q) \/ BrokerPubcomp(q)
      PROVE  DroppedOK'
  <2>1. PICK ph \in {"sent", "rel", "done"} : phase' = [phase EXCEPT ![q] = ph]
    BY <1>3 DEF BrokerPublish, BrokerPuback, BrokerPubrec, BrokerPubcomp
  <2>2. rcvdStore' = rcvdStore
    BY <1>3 DEF BrokerPublish, BrokerPuback, BrokerPubrec, BrokerPubcomp, BrokerSends, BrokerTakes
  <2>3. \A s \in rcvdStore : phase'[s.p] = phase[s.p] \/ phase'[s.p] = ph
    BY <2>1, PromiseTypeLemma DEF PromiseType
  <2>4. "dropped" \notin {"sent", "rel", "done"}
    OBVIOUS
  <2> QED BY <2>2, <2>3, <2>4 DEF DroppedOK
<1>4. CASE ReceivePubrel
  <2>1. phase' = phase
    BY <1>4 DEF ReceivePubrel, Receive, brokerVars
  <2> QED BY <1>4, <2>1, PubrelStore, DroppedKept DEF Keeps
<1>5. CASE Connect \/ LoadReceived \/ Disconnect \/ Crash
  <2>1. phase' = phase /\ Keeps
    BY <1>5 DEF Connect, LoadReceived, Disconnect, Crash, DropHandle, StoreAtConnect,
                brokerVars, Keeps
  <2> QED BY <2>1, DroppedKept
<1>6. CASE ReceivePubAck
  <2>1. phase' = phase /\ Keeps
    BY <1>6 DEF ReceivePubAck, StoreDel, brokerVars, Keeps
  <2> QED BY <2>1, DroppedKept
<1>7. CASE \/ SocketError \/ PublishRefused \/ PublishUnpersisted \/ ReceivePub
           \/ ReceivePubDecline \/ BrokerIgnores \/ (\E p \in Pubs : BrokerResend(p))
           \/ Quiescent \/ UNCHANGED vars
  <2>1. UNCHANGED <<phase, rcvdStore>>
    BY <1>7 DEF SocketError, PublishRefused, PublishUnpersisted, Receive, ReceivePub,
                ReceivePubDecline, BrokerIgnores, BrokerResend, BrokerSends, Quiescent,
                vars, brokerVars
  <2> QED BY <2>1 DEF DroppedOK
<1> QED BY <1>1, <1>2, <1>3, <1>4, <1>5, <1>6, <1>7 DEF Next

LEMMA InitMaps == Init => Promise!Init /\ DroppedOK
<1> SUFFICES ASSUME Init PROVE Promise!Init /\ DroppedOK
  OBVIOUS
<1>1. \A p \in Exact : p \in Pubs /\ phase[p] = "new" /\ delivered[p] = 0
  BY DEF Init, Exact
<1>2. Stage = [p \in Exact |-> "new"] /\ Acted = [p \in Exact |-> 0]
  BY <1>1 DEF Stage, Acted
<1>3. rcvdStore = {}
  BY DEF Init
<1> QED BY <1>2, <1>3 DEF Promise!Init, DroppedOK

Answered(p) == phase[p] \notin {"new", "sent", "dropped"}

LEMMA AnsweredLemma ==
    ASSUME IInv, NEW p \in Pubs PROVE Answered(p) <=> phase[p] \in {"rel", "done"}
BY PromiseTypeLemma DEF PromiseType, Phases, Answered

\* A step shows nothing of what it does not answer, store, release or hand over.
LEMMA SameStage ==
    ASSUME \A p \in Exact : phase'[p] = phase[p],
           \A p \in Exact : Answered(p) => (Holds(p)' <=> Holds(p))
    PROVE  Stage' = Stage
BY DEF Stage, Answered, Exact

LEMMA SameActed ==
    ASSUME UNCHANGED options, \A p \in Exact : delivered'[p] = delivered[p]
    PROVE  Acted' = Acted
BY DEF Acted, Exact, StoreFails

LEMMA SameMaps ==
    ASSUME UNCHANGED <<phase, delivered, options>>,
           \A p \in Exact : Answered(p) => (Holds(p)' <=> Holds(p))
    PROVE  UNCHANGED Promise!vars
BY SameStage, SameActed DEF Promise!vars

LEMMA SameStore ==
    ASSUME UNCHANGED <<rcvdStore, options>> PROVE \A p \in Exact : Holds(p)' <=> Holds(p)
BY DEF Holds, Persist, CleanStart

\* What was answered and is no longer in the store has been received.
LEMMA ReceivedLemma ==
    ASSUME IInv, NEW p \in Exact, Answered(p), ~Holds(p) PROVE delivered[p] > 0
<1>1. p \in Pubs /\ Qos[p] = 2 /\ Qos[p] > 0 /\ phase[p] \in {"rel", "done"}
  <2>1. p \in Pubs /\ Qos[p] = 2
    BY DEF Exact
  <2> QED BY <2>1, AnsweredLemma
<1>2. options.persist /\ ~options.cleanStart /\ ~\E s \in rcvdStore : s.p = p
  BY DEF Holds, Persist, CleanStart
<1>3. Held(rcvdStore, delivered, p)
  BY <1>1, <1>2 DEF IInv, ExchangeInv, Exchange, AnsweredOK
<1> QED BY <1>2, <1>3 DEF Held

\* The application connects or stops: a store that is reset never counted.
LEMMA HandleMaps ==
    ASSUME Connect \/ LoadReceived \/ Disconnect \/ Crash
    PROVE  UNCHANGED Promise!vars
<1>1. UNCHANGED <<phase, delivered, options>> /\ (CleanStart \/ rcvdStore' = rcvdStore)
  BY DEF Connect, LoadReceived, Disconnect, Crash, DropHandle, StoreAtConnect, brokerVars,
         appVars
<1>2. CASE CleanStart
  BY <1>1, <1>2, SameMaps DEF Holds, CleanStart
<1>3. CASE rcvdStore' = rcvdStore
  BY <1>1, <1>3, SameMaps, SameStore
<1> QED BY <1>1, <1>2, <1>3

\* A publication is stored again only while it is in flight, and only if it was not
\* received.
LEMMA StoredMaps ==
    ASSUME IInv, NoWrap, PublishStored PROVE UNCHANGED Promise!vars
<1>1. PICK w : w = Head(toClient)
  OBVIOUS
<1>2. /\ w.p \in Pubs /\ IsPublish(w) /\ \E i \in 1..Len(toClient) : toClient[i] = w
      /\ UNCHANGED <<phase, delivered, options>>
      /\ rcvdStore' = rcvdStore \/ \E s : s.p = w.p /\ rcvdStore' = rcvdStore \cup {s}
  BY <1>1, AddedLemma
<1>3. ASSUME NEW p \in Exact, Answered(p) PROVE Holds(p)' <=> Holds(p)
  <2>1. Holds(p) => Holds(p)'
    BY <1>2 DEF Holds, Persist, CleanStart
  <2>2. ASSUME ~Holds(p), Holds(p)' PROVE FALSE
    <3>1. p = w.p
      BY <1>2, <2>2 DEF Holds, Persist, CleanStart
    <3>2. delivered[p] > 0 /\ p \in Pubs /\ Qos[p] = 2
      BY <1>3, <2>2, ReceivedLemma DEF Exact
    <3>3. \A i \in 1..Len(toClient) : IsPublish(toClient[i]) => toClient[i].p # p
      BY <3>2 DEF IInv, ExchangeInv, Exchange, ReleasedOK, Released
    <3> QED BY <1>2, <3>1, <3>3
  <2> QED BY <2>1, <2>2
<1> QED BY <1>2, <1>3, SameMaps

LEMMA PubrelMaps == ASSUME ReceivePubrel PROVE UNCHANGED Promise!vars
<1>1. UNCHANGED <<phase, delivered, options>>
  BY DEF ReceivePubrel, Receive, brokerVars, appVars
<1>2. \A p : (\E s \in rcvdStore' : s.p = p) <=> \E s \in rcvdStore : s.p = p
  BY PubrelStore
<1>3. \A p \in Exact : Holds(p)' <=> Holds(p)
  BY <1>1, <1>2 DEF Holds, Persist, CleanStart
<1> QED BY <1>1, <1>3, SameMaps

\* A new session gives up what the broker had not finished with, if it is a clean one.
LEMMA SessionMaps ==
    ASSUME IInv, Establish \/ Reconnect PROVE [Promise!Next]_(Promise!vars)
<1>1. UNCHANGED <<rcvdStore, delivered, options>> /\ (phase' = phase \/ phase' = Session)
  BY DEF Establish, Reconnect, OpenSocket, appVars
<1>2. CASE phase' = phase
  BY <1>1, <1>2, SameMaps, SameStore
<1>3. CASE phase' = Session
  <2> DEFINE S == {p \in Exact : CleanStart /\ phase[p] \in {"sent", "rel"}}
  <2>1. ASSUME NEW p \in Exact
        PROVE  Stage'[p] = IF p \in S THEN "given up" ELSE Stage[p]
    <3>1. p \in Pubs /\ phase'[p] = IF CleanStart /\ phase[p] \in {"sent", "rel"} THEN "dropped"
                                                                                 ELSE phase[p]
      BY <1>3 DEF Session, Exact
    <3>2. Holds(p)' <=> Holds(p)
      BY <1>1, SameStore
    <3>3. CASE p \in S
      BY <3>1, <3>3 DEF Stage, Exact
    <3>4. CASE p \notin S
      <4>1. phase'[p] = phase[p]
        BY <3>1, <3>4
      <4> QED BY <3>2, <3>4, <4>1 DEF Stage, Exact
    <3> QED BY <3>3, <3>4
  <2>2. S \in SUBSET {p \in Exact : Stage[p] # "refused"}
    BY DEF Stage
  <2> HIDE DEF S
  <2>3. Stage' = [p \in Exact |-> IF p \in S THEN "given up" ELSE Stage[p]]
    <3>1. Stage' = [p \in Exact |-> Stage'[p]]
      BY DEF Stage, Exact
    <3> QED BY <2>1, <3>1
  <2>4. Acted' = Acted
    BY <1>1, SameActed
  <2> QED BY <2>2, <2>3, <2>4 DEF Promise!Next, Promise!GiveUp
<1> QED BY <1>1, <1>2, <1>3

\* The first PUBREC takes a publication; what else the broker does shows nothing.
LEMMA PubrecMaps ==
    ASSUME IInv, IInv', NEW q \in Pubs, BrokerPubrec(q)
    PROVE  [Promise!Next]_(Promise!vars)
<1>1. /\ phase[q] \in {"sent", "rel"} /\ Qos[q] = 2
      /\ phase' = [phase EXCEPT ![q] = "rel"]
      /\ UNCHANGED <<rcvdStore, delivered, options>>
  BY DEF BrokerPubrec, BrokerTakes, InFlight, appVars
<1>2. phase \in [Pubs -> Phases] /\ delivered \in [Pubs -> 0..2]
  BY PromiseTypeLemma DEF PromiseType
<1>3. \A p \in Exact : Holds(p)' <=> Holds(p)
  BY <1>1, SameStore
<1>4. CASE phase[q] = "rel"
  <2>1. phase' = phase
    BY <1>1, <1>2, <1>4
  <2> QED BY <1>1, <1>3, <2>1, SameMaps
<1>5. CASE phase[q] = "sent"
  <2>1. q \in Exact
    BY <1>1 DEF Exact
  <2>2. delivered[q] = 0
    <3>1. ~Released(rcvdStore, delivered, q)
      BY <1>1, <1>5 DEF IInv, ExchangeInv, Exchange, ReleasedOK
    <3> QED BY <1>2, <3>1 DEF Released
  <2>3. Holds(q)
    <3>1. phase'[q] = "rel" /\ Answered(q)'
      BY <1>1, <1>2 DEF Answered
    <3>2. ASSUME ~Holds(q)' PROVE FALSE
      <4>1. options'.persist /\ ~options'.cleanStart /\ ~\E s \in rcvdStore' : s.p = q
        BY <3>2 DEF Holds, Persist, CleanStart
      <4>2. Qos[q] > 0 /\ phase'[q] \in {"rel", "done"}
        BY <1>1, <3>1
      <4>3. Held(rcvdStore', delivered', q)
        BY <4>1, <4>2 DEF IInv, ExchangeInv, Exchange, AnsweredOK
      <4> QED BY <1>1, <2>2, <4>1, <4>3 DEF Held
    <3> QED BY <1>3, <2>1, <3>2
  <2>4. \A p \in Exact : Stage'[p] = IF p = q THEN "owed" ELSE Stage[p]
    <3> SUFFICES ASSUME NEW p \in Exact
                 PROVE  Stage'[p] = IF p = q THEN "owed" ELSE Stage[p]
      OBVIOUS
    <3>1. phase'[p] = IF p = q THEN "rel" ELSE phase[p]
      BY <1>1, <1>2 DEF Exact
    <3> QED BY <1>3, <2>3, <3>1 DEF Stage, Exact
  <2>5. Stage' = [Stage EXCEPT ![q] = "owed"]
    BY <2>4 DEF Stage, Exact
  <2>6. Stage[q] = "new"
    BY <1>5, <2>1 DEF Stage
  <2>7. Acted' = Acted
    BY <1>1, SameActed
  <2> QED BY <2>1, <2>5, <2>6, <2>7 DEF Promise!Next, Promise!Take
<1> QED BY <1>1, <1>4, <1>5

LEMMA BrokerMaps ==
    ASSUME IInv, IInv', NEW q \in Pubs,
           BrokerPublish(q) \/ BrokerPuback(q) \/ BrokerPubcomp(q)
    PROVE  UNCHANGED Promise!vars
<1>1. UNCHANGED <<rcvdStore, delivered, options>>
  BY DEF BrokerPublish, BrokerPuback, BrokerPubcomp, BrokerTakes, BrokerSends, appVars
<1>2. phase \in [Pubs -> Phases]
  BY PromiseTypeLemma DEF PromiseType
<1>3. \A p \in Exact : Holds(p)' <=> Holds(p)
  BY <1>1, SameStore
<1>4. Acted' = Acted
  BY <1>1, SameActed
<1>5. CASE BrokerPublish(q)
  <2>1. /\ phase[q] = "new"
        /\ phase' = [phase EXCEPT ![q] = IF Qos[q] = 0 THEN "done" ELSE "sent"]
    BY <1>5 DEF BrokerPublish
  <2>2. \A p \in Exact : phase'[p] = IF p = q THEN "sent" ELSE phase[p]
    BY <1>2, <2>1 DEF Exact
  <2>3. ASSUME NEW p \in Exact PROVE Stage'[p] = Stage[p]
    <3>1. CASE p = q
      <4>1. phase[p] = "new" /\ phase'[p] = "sent"
        BY <2>1, <2>2, <3>1
      <4>2. Stage[p] = "new" /\ Stage'[p] = "new"
        BY <4>1 DEF Stage
      <4> QED BY <4>2
    <3>2. CASE p # q
      <4>1. phase'[p] = phase[p] /\ (Holds(p)' <=> Holds(p))
        BY <1>3, <2>2, <3>2
      <4> QED BY <4>1 DEF Stage
    <3> QED BY <3>1, <3>2
  <2>4. Stage' = Stage
    BY <2>3 DEF Stage, Exact
  <2> QED BY <1>4, <2>4 DEF Promise!vars
<1>6. CASE BrokerPuback(q)
  <2>1. Qos[q] = 1 /\ phase' = [phase EXCEPT ![q] = "done"]
    BY <1>6 DEF BrokerPuback, BrokerTakes
  <2>2. \A p \in Exact : phase'[p] = phase[p]
    BY <1>2, <2>1 DEF Exact
  <2> QED BY <1>3, <1>4, <2>2, SameStage DEF Promise!vars
<1>7. CASE BrokerPubcomp(q)
  <2>1. /\ toBroker # <<>> /\ phase[q] \in {"sent", "rel"}
        /\ idOf[q] = Head(toBroker).id /\ Head(toBroker).type = "PUBCOMP"
        /\ phase' = [phase EXCEPT ![q] = "done"]
    BY <1>7 DEF BrokerPubcomp, BrokerTakes, InFlight
  <2>2. toBroker \in Seq(ToBroker)
    BY DEF IInv, ExchangeInv, Exchange, ExchangeType
  <2>3. 1 \in 1..Len(toBroker) /\ Head(toBroker) = toBroker[1]
    BY <2>1, <2>2, TailFacts
  <2>4. phase[q] = "rel"
    <3>1. Owns(phase, idOf, q, toBroker[1].id) /\ toBroker[1].type = "PUBCOMP"
      BY <2>1, <2>3 DEF Owns
    <3> QED BY <2>3, <3>1 DEF IInv, ExchangeInv, Exchange, BrokerOK
  <2>5. \A p \in Exact : phase'[p] = IF p = q THEN "done" ELSE phase[p]
    BY <1>2, <2>1 DEF Exact
  <2>6. Stage' = Stage
    BY <1>3, <2>4, <2>5 DEF Stage, Exact
  <2> QED BY <1>4, <2>6 DEF Promise!vars
<1> QED BY <1>5, <1>6, <1>7

\* The application receives a publication that is owed; with that it leaves the store,
\* unless the store fails.
LEMMA ReceiveMaps ==
    ASSUME IInv, IInv', Identified, DroppedOK, ReceivePubAck
    PROVE  [Promise!Next]_(Promise!vars)
<1>1. PICK a, k, p : a = taken[1] /\ k = heap[a].rcvId /\ p = heap[a].p
  OBVIOUS
<1>2. /\ pc = "taken" /\ UNCHANGED <<phase, options>>
      /\ delivered' = [delivered EXCEPT ![taken[2]] = IF @ = 0 THEN 1 ELSE 2]
  BY DEF ReceivePubAck, brokerVars
<1>3. /\ a \in Linked /\ heap[a].readyToPublish /\ p = taken[2]
      /\ ConfirmedCell(taken[3]) = a /\ heap[a] \in Entry
  BY <1>1, <1>2 DEF IInv, TakenOK, QueueOK, EntriesOK
<1>4. a # Null /\ p \in Pubs /\ Qos[p] \in 0..2
  <2>1. Linked \subseteq Addr
    BY DEF Linked, Cells, IInv, QueueOK, QueueType
  <2> QED BY <1>1, <1>3, <2>1, MemoryAssumption, EntryFacts, PubsAssumption
<1>5. IF Persist /\ Qos[p] > 0
        THEN rcvdStore' = StoreDel(k) \/ (StoreFails /\ rcvdStore' = rcvdStore)
        ELSE rcvdStore' = rcvdStore
  BY <1>1, <1>3, <1>4 DEF ReceivePubAck, StoreFault
<1>6. Persist /\ Qos[p] > 0 => \E s \in rcvdStore : s.key = k /\ s.p = p /\ s.readyToPublish
  BY <1>1, <1>2, <1>3 DEF IInv, QueueOK, EntriesOK, Kept, StoreOK, Loaded
<1>7. \A s \in rcvdStore : s.p # p => s \in rcvdStore'
  <2> SUFFICES ASSUME NEW s \in rcvdStore, s \notin rcvdStore' PROVE s.p = p
    OBVIOUS
  <2>1. s.key = k /\ Persist /\ Qos[p] > 0
    BY <1>5 DEF StoreDel
  <2> QED BY <1>6, <2>1 DEF IInv, StoreOK
<1>8. rcvdStore' \subseteq rcvdStore
  BY <1>5 DEF StoreDel
<1>9. \A q \in Exact \ {p} : Holds(q)' <=> Holds(q)
  BY <1>2, <1>7, <1>8 DEF Holds, Persist, CleanStart
<1>10. delivered \in [Pubs -> 0..2] /\ phase \in [Pubs -> Phases]
  BY PromiseTypeLemma DEF PromiseType
<1>11. delivered' = [delivered EXCEPT ![p] = IF @ = 0 THEN 1 ELSE 2]
  BY <1>2, <1>3
<1>12. CASE Qos[p] # 2
  <2>1. p \notin Exact
    BY <1>12 DEF Exact
  <2>2. \A q \in Exact : delivered'[q] = delivered[q]
    BY <1>10, <1>11, <2>1 DEF Exact
  <2>3. Acted' = Acted
    BY <1>2, <2>2, SameActed
  <2>4. Stage' = Stage
    BY <1>2, <1>9, <2>1, SameStage
  <2> QED BY <2>3, <2>4 DEF Promise!vars
<1>13. CASE Qos[p] = 2
  <2>1. p \in Exact /\ Persist /\ Qos[p] > 0
    BY <1>4, <1>13, PlainLemma DEF Exact
  <2>2. PICK s \in rcvdStore : s.key = k /\ s.p = p /\ s.readyToPublish
    BY <1>6, <2>1
  <2>3. phase[p] \in {"rel", "done"}
    <3>1. phase[p] # "dropped"
      BY <1>13, <2>2 DEF DroppedOK
    <3>2. Released(rcvdStore, delivered, p)
      BY <2>2 DEF Released
    <3>3. phase[p] \in {"rel", "done", "dropped"}
      BY <1>4, <1>13, <3>2 DEF IInv, ExchangeInv, Exchange, ReleasedOK
    <3> QED BY <3>1, <3>3
  <2>4. Holds(p)
    BY <2>2 DEF Holds
  <2>5. Stage[p] = "owed"
    BY <2>1, <2>3, <2>4 DEF Stage
  <2>6. Stage' \in {Stage, [Stage EXCEPT ![p] = "settled"]}
    <3>1. CASE Holds(p)'
      <4>1. Stage' = Stage
        BY <1>2, <1>9, <2>4, <3>1, SameStage
      <4> QED BY <4>1
    <3>2. CASE ~Holds(p)'
      <4>1. ASSUME NEW q \in Exact PROVE Stage'[q] = IF q = p THEN "settled" ELSE Stage[q]
        <5>1. phase'[q] = phase[q]
          BY <1>2
        <5>2. CASE q = p
          BY <2>3, <3>2, <5>1, <5>2 DEF Stage
        <5>3. CASE q # p
          BY <1>9, <5>1, <5>3 DEF Stage, Exact
        <5> QED BY <5>2, <5>3
      <4>2. Stage' = [Stage EXCEPT ![p] = "settled"]
        BY <4>1 DEF Stage, Exact
      <4> QED BY <4>2
    <3> QED BY <3>1, <3>2
  <2>7. /\ delivered[p] \in 0..2 /\ delivered'[p] = IF delivered[p] = 0 THEN 1 ELSE 2
        /\ \A q \in Exact \ {p} : delivered'[q] = delivered[q]
    BY <1>4, <1>10, <1>11 DEF Exact
  <2>8. StoreFails' = StoreFails
    BY <1>2 DEF StoreFails
  <2>9. CASE delivered[p] = 0
    <3>1. \A q \in Exact : Acted'[q] = IF q = p THEN 1 ELSE Acted[q]
      BY <2>1, <2>7, <2>8, <2>9 DEF Acted, Exact
    <3>2. Acted[p] = 0
      BY <2>1, <2>9 DEF Acted
    <3>3. Acted' = [Acted EXCEPT ![p] = IF @ = 0 THEN 1 ELSE 2]
      BY <2>1, <3>1, <3>2 DEF Acted, Exact
    <3> QED BY <2>1, <2>5, <2>6, <3>2, <3>3 DEF Promise!Next, Promise!Act
  <2>10. CASE delivered[p] # 0
    <3>1. StoreFails
      <4>1. ASSUME ~StoreFails PROVE FALSE
        <5>1. ~options'.storeFails /\ p \in Pubs /\ Qos[p] = 2
          BY <1>2, <1>4, <1>13, <4>1 DEF StoreFails
        <5>2. delivered'[p] <= 1
          BY <5>1 DEF IInv, ExchangeInv, Exchange, OnceOK
        <5> QED BY <2>7, <2>10, <5>2
      <4> QED BY <4>1
    <3>2. Acted[p] = 1 /\ \A q \in Exact : Acted'[q] = Acted[q]
      BY <2>1, <2>7, <2>8, <2>10, <3>1 DEF Acted
    <3>3. Acted' = Acted
      BY <3>2 DEF Acted, Exact
    <3> QED BY <2>1, <2>5, <2>6, <3>2, <3>3 DEF Promise!Next, Promise!Settle, Promise!vars
  <2> QED BY <2>9, <2>10
<1> QED BY <1>12, <1>13

LEMMA NextMaps ==
    ASSUME IInv, IInv', NoWrap, Identified, DroppedOK, [Next]_vars
    PROVE  [Promise!Next]_(Promise!vars)
<1>1. CASE Connect \/ LoadReceived \/ Disconnect \/ Crash
  BY <1>1, HandleMaps
<1>2. CASE Establish \/ Reconnect
  BY <1>2, SessionMaps
<1>3. CASE PublishStored
  BY <1>3, StoredMaps
<1>4. CASE ReceivePubrel
  BY <1>4, PubrelMaps
<1>5. CASE ReceivePubAck
  BY <1>5, ReceiveMaps
<1>6. ASSUME NEW q \in Pubs,
             \/ BrokerPublish(q) \/ BrokerPuback(q) \/ BrokerPubrec(q) \/ BrokerPubcomp(q)
      PROVE  [Promise!Next]_(Promise!vars)
  BY <1>6, BrokerMaps, PubrecMaps
<1>7. CASE \/ SocketError \/ PublishRefused \/ PublishUnpersisted \/ ReceivePub
           \/ ReceivePubDecline \/ BrokerIgnores \/ (\E p \in Pubs : BrokerResend(p))
           \/ Quiescent \/ UNCHANGED vars
  <2>1. UNCHANGED <<phase, delivered, options, rcvdStore>>
    BY <1>7 DEF SocketError, PublishRefused, PublishUnpersisted, Receive, ReceivePub,
                ReceivePubDecline, BrokerIgnores, BrokerResend, BrokerSends, Quiescent,
                vars, brokerVars, appVars
  <2> QED BY <2>1, SameMaps, SameStore
<1> QED BY <1>1, <1>2, <1>3, <1>4, <1>5, <1>6, <1>7 DEF Next

\* The receiving half implements the abstract delivery service too: of the QoS 2
\* publications of the broker, what the library has answered for is owed until the
\* application has received it and settled only then, is received once, and not at all
\* after its session was given up.
THEOREM ReceivingImplementsDelivery ==
    Spec /\ [](NoWrap /\ Identified) => ImplementsDelivery
<1>1. Init => Promise!Init /\ DroppedOK
  BY InitMaps
<1>2. IInv /\ IInv' /\ (NoWrap /\ Identified) /\ DroppedOK /\ [Next]_vars => DroppedOK'
  BY DroppedStep
<1>3. IInv /\ IInv' /\ (NoWrap /\ Identified) /\ DroppedOK /\ [Next]_vars
        => [Promise!Next]_(Promise!vars)
  BY NextMaps
<1> QED BY Invariance, <1>1, <1>2, <1>3, PTL DEF Spec, ImplementsDelivery, Promise!Spec
=============================================================================
