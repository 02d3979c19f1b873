---------------------------- MODULE MCChatWrites ----------------------------
(***************************************************************************)
(* Small instances of ChatWrites for TLC.                                  *)
(***************************************************************************)
EXTENDS ChatWrites, TLC

CONSTANTS c1, c2, d1, D1, d2, t1, none, noCall

MCNames == {d1, D1, d2, t1}
MCFold == [n \in MCNames |-> IF n = D1 THEN d1 ELSE n]
Classify(op, db, table) ==
  [parsed |-> TRUE, multi |-> FALSE, op |-> op, db |-> db, table |-> table]
Propose(db, op, sql) == [db |-> db, table |-> t1, op |-> op, sql |-> sql]

Qualified == Propose(D1, "TRUNCATE", Classify("TRUNCATE", d1, t1))
Bare == Propose(d1, "DELETE", Classify("DELETE", none, t1))
WrongOp == Propose(d1, "INSERT", Classify("DELETE", d1, t1))
WrongScope == Propose(d2, "INSERT", Classify("INSERT", d2, t1))

OneInput == {Bare}
AllInputs == {Qualified, Bare, WrongOp, WrongScope}
OneRow == {<<d1, t1>>}
MCRows == {<<d1, t1>>, <<D1, t1>>}
MayDelete == {<<d1, t1, "delete">>}
MCUsed == {d2}
=============================================================================
