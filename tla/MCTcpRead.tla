----------------------------- MODULE MCTcpRead ------------------------------
(* Instances of TcpRead for TLC.                                           *)
EXTENDS TcpRead

\* Lengths on both sides of a boundary of a digit, for Base = 2: none, one byte, and
\* remaining lengths of two and of three digits.
MCLengths == {0, 1, 2, 5}
=============================================================================
