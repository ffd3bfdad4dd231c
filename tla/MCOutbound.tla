----------------------------- MODULE MCOutbound -----------------------------
(* Instances of Outbound for TLC.                                          *)
EXTENDS Outbound

CONSTANTS p0, p0b, p1, p1b, p2, p2b, sub

\* What each request of the instances asks for; sizes in bytes.
MCKind == [m \in Msgs |-> CASE m \in {p0, p0b} -> "PUBLISH0"
                            [] m \in {p1, p1b} -> "PUBLISH1"
                            [] m \in {p2, p2b} -> "PUBLISH2"
                            [] OTHER -> "SUBSCRIBE"]
MCLength == [m \in Msgs |-> 10]

\* Applications: with persistence, with a store that may fail, with clean start,
\* and without persistence.
Durable  == [persist |-> TRUE, cleanStart |-> FALSE, storeFails |-> FALSE]
Failing  == [persist |-> TRUE, cleanStart |-> FALSE, storeFails |-> TRUE]
Clean    == [persist |-> TRUE, cleanStart |-> TRUE, storeFails |-> FALSE]
Volatile == [persist |-> FALSE, cleanStart |-> FALSE, storeFails |-> FALSE]

MCDurable  == {Durable}
MCVolatile == {Volatile}
MCFailing  == {Failing}
MCBoth     == {Durable, Volatile}
MCStores   == {Durable, Failing, Clean}
=============================================================================
