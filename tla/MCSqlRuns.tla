----------------------------- MODULE MCSqlRuns -----------------------------
(***************************************************************************)
(* Instances of SqlRuns for TLC.                                           *)
(***************************************************************************)
EXTENDS SqlRuns

CONSTANTS r1, r2

Write   == [kind |-> "write", size |-> 0]
Read(n) == [kind |-> "read", size |-> n]

EverySize  == {Write} \cup {Read(n) : n \in 0..5}
WriteOrTwo == {Write, Read(2)}
=============================================================================
