---------------------------- MODULE MCFileStore -----------------------------
(* An instance of FileStore for TLC.                                       *)
EXTENDS FileStore

CONSTANTS k1, k2, publish, pubrel, pub

\* Everything may fail but reading a file, and deleting one in
\* delSentMessage and reset.
MCFaults == {"write", "leftover"}
=============================================================================
