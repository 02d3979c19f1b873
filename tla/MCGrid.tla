------------------------------- MODULE MCGrid -------------------------------
(* The data grid: paging through a table, and editing its rows, side by     *)
(* side. Editing does not depend on how the page was asked for, and an edit *)
(* is to the pages one more writer of the table. part says which one a      *)
(* behaviour is about.                                                     *)
EXTENDS RowEdits, Browsing

VARIABLE part

\* Tables of up to three rows with a NULL and a tie, and filters of every
\* kind, some of which are passed over.
a == <<"a">>
b == <<"b">>
ab == <<"a", "b">>

Row(k, v) == [k |-> k, v |-> v]
MCTables == {{Row(a, ab), Row(b, Null), Row(ab, b)}, {Row(a, b), Row(ab, b)}}

On(column, op, value) == [column |-> column, op |-> op, value |-> value]
MCFilterLists ==
  {<<>>,
   <<On("v", "IN", <<ab, <<>>, b>>), On("k", "Has prefix", <<a>>)>>,
   <<On("k", "BETWEEN", <<a, <<>>, ab>>), On("v", "<>", <<b>>), On("k", "Not contains", <<b>>)>>,
   <<On("", "=", <<a>>), On("v", "NOT BETWEEN", <<a>>), On("v", "Contains", <<b>>),
     On("k", "NOT IN", <<b, b>>)>>}
MCLetters == <<"a", "b">>
MCEstimates == {NoRow, <<-1>>, <<2>>}

\* Engines that do in every respect what one of the others does: they get one step.
Alike == {"duckdb", "snowflake", "clickhouse", "bytehouse", "oracle", "agent_mssql"}

MCInit ==
  /\ part \in {"pages", "edits"} /\ Init /\ PagesInit
  /\ part # "pages" => dialect = "mysql" /\ Cardinality(stored) = 2 /\ opts.filters = <<>>
  /\ part # "edits" => engine = MySQL /\ keyed /\ table[2].key = 2 /\ grid.knowsKey
MCNext ==
  \/ /\ part = "pages" /\ PagesNext /\ UNCHANGED <<part, vars>>
     /\ dialect \in Alike => steps' <= 1
  \/ part = "edits" /\ Next /\ UNCHANGED <<part, pageVars>>
MCSpec == MCInit /\ [][MCNext]_<<part, pageVars, vars>>
=============================================================================
