----------------------------- MODULE MCInbound ------------------------------
(* Instances of Inbound for TLC.                                           *)
EXTENDS Inbound

CONSTANTS q0, q1, q1b, q2, q2b

\* The quality of service of each publication of the instances; sizes in bytes.
MCQos == [p \in Pubs |-> CASE p = q0 -> 0
                           [] p \in {q1, q1b} -> 1
                           [] OTHER -> 2]
MCLength == [p \in Pubs |-> 10]

\* Applications: with persistence, with a store that may fail, with clean start,
\* and without persistence.
Durable  == [persist |-> TRUE, cleanStart |-> FALSE, storeFails |-> FALSE]
Failing  == [persist |-> TRUE, cleanStart |-> FALSE, storeFails |-> TRUE]
Clean    == [persist |-> TRUE, cleanStart |-> TRUE, storeFails |-> FALSE]
Volatile == [persist |-> FALSE, cleanStart |-> FALSE, storeFails |-> FALSE]

MCDurable  == {Durable}
MCVolatile == {Volatile}
MCBoth     == {Durable, Volatile}
MCStores   == {Durable, Failing, Clean}
=============================================================================
