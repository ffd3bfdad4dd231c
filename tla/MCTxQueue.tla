----------------------------- MODULE MCTxQueue ------------------------------
(* Instances of TxQueue for TLC.                                           *)
EXTENDS TxQueue

CONSTANTS m0, m1, m2

\* A client with persistence may connect again; one without disconnects first.
MCOptions ==
    [persist : {TRUE}, async : BOOLEAN, again : {TRUE}]
    \union [persist : {FALSE}, async : BOOLEAN, again : {FALSE}]

\* Without persistence, and without a disconnect before the next connect.
MCAgain == [persist : {FALSE}, async : BOOLEAN, again : {TRUE}]
=============================================================================
