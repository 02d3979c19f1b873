------------------------------ MODULE Browsing ------------------------------
(***************************************************************************)
(* Browsing a table: the data grid, which asks for a page of rows under a   *)
(* filter and an order, the handler, which has each engine write its own    *)
(* WHERE clause with bound parameters and run two statements (the page and  *)
(* the number of rows), and the pager, which works from that number.        *)
(*                                                                         *)
(* A text is a short sequence of letters. The value of a filter is the      *)
(* sequence of texts between its commas. The steps of the user and of other *)
(* clients of the database are bounded together (Steps).                   *)
(***************************************************************************)
EXTENDS Integers, FiniteSets, Sequences, SequencesExt

CONSTANTS
  Engines, Tables, FilterLists, Limits, Estimates,  \* what a behaviour may start from or choose
  Letters,                \* the letters, in the order of the collation
  MaxRows, DefaultRows,   \* MaxRowsPerPage, and the page size when none is given
  Steps

Null == <<"NULL">>      \* SQL's NULL
NoRow == <<>>           \* an aggregate or a catalog without an answer
Text == Seq(Range(Letters))
Columns == {"k", "v"}
Dialects ==
  {"mysql", "pg", "mssql", "oracle", "sqlite", "duckdb", "snowflake", "clickhouse", "bytehouse",
   "agent", "agent_mssql"}

\* The wildcard of LIKE is not a letter.
ASSUME PagesAssumption ==
  /\ Engines \subseteq Dialects /\ "%" \notin Range(Letters)
  /\ MaxRows \in Nat \ {0} /\ DefaultRows \in 1..MaxRows /\ Limits \subseteq Nat
  /\ Steps \in Nat
  /\ \A t \in Tables : IsFiniteSet(t) /\ t \subseteq [Columns -> Text \cup {Null}]
  /\ FilterLists \subseteq Seq([column : Columns \cup {""}, op : STRING, value : Seq(Text)])
  /\ Estimates \subseteq Seq(Int)

VARIABLES
  dialect,
  stored,                 \* the rows, which other clients write
  opts,                   \* page, limit, order and filters chosen in the grid
  loads,                  \* every reload() so far; loadSeq is their number
  loading, error, data,   \* what the grid shows
  steps

pageVars == <<dialect, stored, opts, loads, loading, error, data, steps>>

Least(a, b) == IF a < b THEN a ELSE b

-----------------------------------------------------------------------------
(* SQL, as the database servers understand it.                             *)

Rank(letter) == CHOOSE i \in DOMAIN Letters : Letters[i] = letter
Less(s, t) ==
  \/ Len(s) < Len(t) /\ s = SubSeq(t, 1, Len(s))
  \/ \E i \in 1..Least(Len(s), Len(t)) :
       SubSeq(s, 1, i - 1) = SubSeq(t, 1, i - 1) /\ Rank(s[i]) < Rank(t[i])
Like(s, pattern) ==   \* ends[i] letters of s are matched by the first i of the pattern
  \E ends \in [0..Len(pattern) -> 0..Len(s)] :
    /\ ends[0] = 0 /\ ends[Len(pattern)] = Len(s)
    /\ \A i \in DOMAIN pattern :
         IF pattern[i] = "%" THEN ends[i] >= ends[i - 1]
         ELSE ends[i] = ends[i - 1] + 1 /\ s[ends[i]] = pattern[i]
Between(s, lo, hi) == ~Less(s, lo) /\ ~Less(hi, s)

Compares(op, s, vals) ==
  CASE op = "=" -> s = vals[1]
    [] op = "<>" -> s # vals[1]
    [] op = "<" -> Less(s, vals[1])
    [] op = ">" -> Less(vals[1], s)
    [] op = "<=" -> ~Less(vals[1], s)
    [] op = ">=" -> ~Less(s, vals[1])
    [] op = "LIKE" -> Like(s, vals[1])
    [] op = "NOT LIKE" -> ~Like(s, vals[1])
    [] op = "IN" -> s \in Range(vals)
    [] op = "NOT IN" -> s \notin Range(vals)
    [] op = "BETWEEN" -> Between(s, vals[1], vals[2])
    [] op = "NOT BETWEEN" -> ~Between(s, vals[1], vals[2])
Holds(op, s, vals) ==
  CASE op = "IS NULL" -> s = Null
    [] op = "IS NOT NULL" -> s # Null
    [] OTHER -> s # Null /\ Compares(op, s, vals)

Precedes(s, t) == t # Null /\ (s = Null \/ Less(s, t))   \* engines differ on where NULL goes
Sorts(o, r, s) ==   \* row r comes before row s
  o.sort # "" /\ IF o.desc THEN Precedes(s[o.sort], r[o.sort]) ELSE Precedes(r[o.sort], s[o.sort])
Pages(rows, o, limit, offset) ==   \* ties and unsorted rows come in any order
  {SubSeq(p, offset + 1, Least(offset + limit, Len(p))) :
     p \in {q \in SetToSeqs(rows) : \A i, j \in DOMAIN q : i < j => ~Sorts(o, q[j], q[i])}}

\* A statement's operands in the order of its text: a value, a number that
\* names a parameter, or a question mark, which takes the next one.
Bound(operands, args) ==
  [j \in DOMAIN operands |->
     CASE operands[j][1] = "literal" -> operands[j][2]
       [] operands[j][1] = "$" -> args[operands[j][2]]
       [] OTHER -> args[Cardinality({i \in 1..j : operands[i][1] = "?"})]]
Satisfies(r, conds, vals) ==
  \A i \in DOMAIN conds :
    LET from == Len(FlattenSeq([j \in 1..(i - 1) |-> conds[j].operands]))
    IN Holds(conds[i].op, r[conds[i].column],
             SubSeq(vals, from + 1, from + Len(conds[i].operands)))
AllOperands(conds) == FlattenSeq([i \in DOMAIN conds |-> conds[i].operands])

Counted(where) ==
  LET vals == Bound(AllOperands(where.conds), where.args)
  IN Cardinality({r \in stored : Satisfies(r, where.conds, vals)})
Answers(stmt, o) ==
  LET vals == Bound(AllOperands(stmt.conds) \o [n \in 1..2 |-> stmt.tail[n].operand], stmt.args)
      value(name) == vals[Len(vals) - 2 + CHOOSE n \in 1..2 : stmt.tail[n].name = name]
  IN Pages({r \in stored : Satisfies(r, stmt.conds, vals)}, o, value("limit"), value("offset"))

-----------------------------------------------------------------------------
(* The WHERE clause. Each engine has its own function; they differ in how a *)
(* parameter is written and in what is left of a list's empty parts.        *)

Filled(parts) == FoldLeft(LAMBDA out, p : IF p = <<>> THEN out ELSE Append(out, p), <<>>, parts)
Inner(parts) == IF parts # <<>> /\ Last(parts) = <<>> THEN Front(parts) ELSE parts
Split(parts) == IF dialect = "mysql" THEN Inner(parts) ELSE Filled(parts)

QuestionMark(n, text) == <<"?">>
Numbered(n, text) == <<"$", n>>
Literal(n, text) == <<"literal", text>>
Mark(style, n, text) ==
  CASE style = "?" -> QuestionMark(n, text)
    [] style = "$" -> Numbered(n, text)
    [] style = "literal" -> Literal(n, text)

Nulls == {"IS NULL", "IS NOT NULL"}
Lists == {"IN", "NOT IN"}
Ranges == {"BETWEEN", "NOT BETWEEN"}
Compared ==
  {"=", "<>", "<", ">", "<=", ">=", "LIKE", "Contains", "Not contains", "Has prefix", "Has suffix"}

Written(f, parts) ==   \* anything else is passed over in silence
  /\ f.column # ""
  /\ \/ f.op \in Compared \cup Nulls
     \/ f.op \in Lists /\ parts # <<>>
     \/ f.op \in Ranges /\ Len(parts) = 2
SqlOp(op) ==
  CASE op \in {"Contains", "Has prefix", "Has suffix"} -> "LIKE"
    [] op = "Not contains" -> "NOT LIKE"
    [] OTHER -> op
Operands(f, parts) ==
  LET text == IF f.value = <<>> THEN <<>> ELSE f.value[1]
  IN CASE f.op \in Nulls -> <<>>
       [] f.op \in Lists \cup Ranges -> parts
       [] f.op \in {"Contains", "Not contains"} -> <<(<<"%">> \o text) \o <<"%">>>>
       [] f.op = "Has prefix" -> <<text \o <<"%">>>>
       [] f.op = "Has suffix" -> <<<<"%">> \o text>>
       [] OTHER -> <<text>>

WithFilter(style, c, f) ==
  IF ~Written(f, Split(f.value)) THEN c
  ELSE LET new == Operands(f, Split(f.value))
       IN [conds |-> Append(c.conds,
             [column |-> f.column, op |-> SqlOp(f.op),
              operands |-> [i \in DOMAIN new |-> Mark(style, Len(c.args) + i, new[i])]]),
           args |-> c.args \o new]
Clause(style, filters) ==
  FoldLeft(LAMBDA c, f : WithFilter(style, c, f), [conds |-> <<>>, args |-> <<>>], filters)

MySQLWhere(filters)      == Clause("?", filters)
PGWhere(filters)         == Clause("$", filters)
MSSQLWhere(filters)      == Clause("$", filters)
OracleWhere(filters)     == Clause("$", filters)
SQLiteWhere(filters)     == Clause("?", filters)
DuckDBWhere(filters)     == Clause("?", filters)
SnowflakeWhere(filters)  == Clause("?", filters)
ClickHouseWhere(filters) == Clause("?", filters)
ByteHouseWhere(filters)  == Clause("?", filters)
AgentWhere(filters)      == [Clause("literal", filters) EXCEPT !.args = <<>>]

-----------------------------------------------------------------------------
(* FetchTableRows: the two statements of each engine, their order, and what *)
(* becomes of a number of rows that comes from the catalog.                 *)

PerPage(o) == IF o.limit < 1 THEN DefaultRows ELSE Least(o.limit, MaxRows)
\* Mutant: pages are counted from zero.
MutOffset(o) == (IF o.page < 1 THEN 1 ELSE o.page) * PerPage(o)
Offset(o) == ((IF o.page < 1 THEN 1 ELSE o.page) - 1) * PerPage(o)

LimitOffset(style, where, o) ==
  LET n == Len(where.args)
  IN [conds |-> where.conds,
      tail |-> <<[name |-> "limit", operand |-> Mark(style, n + 1, PerPage(o))],
                 [name |-> "offset", operand |-> Mark(style, n + 2, Offset(o))]>>,
      args |-> where.args \o <<PerPage(o), Offset(o)>>]
OffsetFetch(style, where, o) ==
  LET n == Len(where.args)
  IN [conds |-> where.conds,
      tail |-> <<[name |-> "offset", operand |-> Mark(style, n + 1, Offset(o))],
                 [name |-> "limit", operand |-> Mark(style, n + 2, PerPage(o))]>>,
      args |-> where.args \o <<Offset(o), PerPage(o)>>]

RowsFirst == <<"rows", "total">>
CountFirst == <<"total", "rows">>
OrUnknown(x) == IF x = NoRow THEN -1 ELSE x[1]            \* Scan fails on NULL
OrZero(x) == IF x = NoRow THEN 0 ELSE x[1]                \* ISNULL, anyInt64
PositiveOrUnknown(x) == IF x = NoRow \/ x[1] < 0 THEN -1 ELSE x[1]

\* An engine that counts always has no estimated total.
Counting == <<>>
Fetch(where, statement, order, estimated) ==
  [where |-> where, statement |-> statement, order |-> order, estimated |-> estimated]

MySQLRows(o) ==
  LET w == MySQLWhere(o.filters)
  IN Fetch(w, LimitOffset("?", w, o), RowsFirst, [x \in Estimates |-> OrUnknown(x)])
PGRows(o) ==
  LET w == PGWhere(o.filters)
  IN Fetch(w, LimitOffset("$", w, o), RowsFirst, [x \in Estimates |-> PositiveOrUnknown(x)])
MSSQLRows(o) ==
  LET w == MSSQLWhere(o.filters)
  IN Fetch(w, OffsetFetch("$", w, o), RowsFirst, [x \in Estimates |-> OrZero(x)])
OracleRows(o) ==
  LET w == OracleWhere(o.filters)
  IN Fetch(w, OffsetFetch("$", w, o), CountFirst, Counting)
SQLiteRows(o) ==
  LET w == SQLiteWhere(o.filters)
  IN Fetch(w, LimitOffset("?", w, o), CountFirst, Counting)
DuckDBRows(o) ==
  LET w == DuckDBWhere(o.filters)
  IN Fetch(w, LimitOffset("?", w, o), CountFirst, Counting)
SnowflakeRows(o) ==
  LET w == SnowflakeWhere(o.filters)
  IN Fetch(w, LimitOffset("?", w, o), CountFirst, Counting)
ClickHouseRows(o) ==
  LET w == ClickHouseWhere(o.filters)
  IN Fetch(w, LimitOffset("?", w, o), CountFirst, Counting)
ByteHouseRows(o) ==
  LET w == ByteHouseWhere(o.filters)
  IN Fetch(w, LimitOffset("?", w, o), CountFirst, Counting)
AgentRows(o) ==
  LET w == AgentWhere(o.filters)
  IN Fetch(w, LimitOffset("literal", w, o), RowsFirst, [x \in Estimates |-> OrZero(x)])
AgentMSSQLRows(o) ==
  LET w == AgentWhere(o.filters)
  IN Fetch(w, OffsetFetch("literal", w, o), RowsFirst, [x \in Estimates |-> OrZero(x)])

FetchTableRows(o) ==
  CASE dialect = "mysql" -> MySQLRows(o)
    [] dialect = "pg" -> PGRows(o)
    [] dialect = "mssql" -> MSSQLRows(o)
    [] dialect = "oracle" -> OracleRows(o)
    [] dialect = "sqlite" -> SQLiteRows(o)
    [] dialect = "duckdb" -> DuckDBRows(o)
    [] dialect = "snowflake" -> SnowflakeRows(o)
    [] dialect = "clickhouse" -> ClickHouseRows(o)
    [] dialect = "bytehouse" -> ByteHouseRows(o)
    [] dialect = "agent" -> AgentRows(o)
    [] dialect = "agent_mssql" -> AgentMSSQLRows(o)

-----------------------------------------------------------------------------
(* The request at the server. todo holds the statements left; of is a       *)
(* history field: the table each of the two statements has read.            *)

Read(i, what) ==
  /\ loads[i].stage = "reading" /\ loads[i].todo # <<>> /\ Head(loads[i].todo) = what
  /\ UNCHANGED <<dialect, stored, opts, loading, error, data, steps>>
Answer(load) ==
  [load EXCEPT !.todo = Tail(@), !.stage = IF Tail(load.todo) = <<>> THEN "answered" ELSE @]

ReadRows(i) ==
  /\ Read(i, "rows")
  /\ \E rows \in Answers(FetchTableRows(loads[i].opts).statement, loads[i].opts) :
       loads' = [loads EXCEPT ![i] = [Answer(@) EXCEPT !.rows = rows, !.of.rows = stored]]
Estimated(load) == FetchTableRows(load.opts).estimated # Counting /\ load.opts.filters = <<>>
CountMatches(i) ==
  /\ Read(i, "total")
  /\ ~Estimated(loads[i])
  /\ loads' = [loads EXCEPT ![i] =
       [Answer(@) EXCEPT !.total = Counted(FetchTableRows(loads[i].opts).where),
                         !.of.total = <<stored>>]]
ReadEstimate(i) ==
  /\ Read(i, "total")
  /\ Estimated(loads[i])
  /\ \E x \in Estimates :
       loads' = [loads EXCEPT ![i] =
         [Answer(@) EXCEPT !.total = FetchTableRows(loads[i].opts).estimated[x]]]
\* The number could not be had in three seconds, and the page is answered without it.
NoTotal(i) ==
  /\ Read(i, "total") /\ Tail(loads[i].todo) = <<>>
  /\ loads' = [loads EXCEPT ![i] = [Answer(@) EXCEPT !.total = -1]]
\* The rows, or a number of rows that comes first, could not be had.
RefuseLoad(i) ==
  /\ \E what \in {"rows", "total"} : Read(i, what)
  /\ Head(loads[i].todo) = "total" => Tail(loads[i].todo) # <<>>
  /\ loads' = [loads EXCEPT ![i].stage = "refused"]

-----------------------------------------------------------------------------
(* The grid.                                                                *)

NewLoad(o) ==
  [opts |-> o, todo |-> FetchTableRows(o).order, stage |-> "reading", aborted |-> FALSE,
   rows |-> <<>>, total |-> 0, of |-> [rows |-> {}, total |-> <<>>]]
Over(load) == [stage |-> IF load.stage = "arrived" THEN "shown" ELSE "dropped"]

\* An answer that has arrived can no longer be stopped. What becomes of a load
\* that is both superseded and stopped is ignored: it is over at once.
Abort(load) ==
  IF load.stage \in {"reading", "answered", "refused"}
  THEN [load EXCEPT !.stage = "refused", !.aborted = TRUE] ELSE load
Supersede(load) ==
  IF load.stage \in {"reading", "answered", "refused"} THEN Over(load) ELSE load
ReloadPage(o) ==
  /\ opts' = o
  /\ loads' = Append([loads EXCEPT ![Len(loads)] = Supersede(@)], NewLoad(o))
  /\ loading' = TRUE /\ error' = FALSE
  /\ steps' = steps + 1
  /\ UNCHANGED <<dialect, stored, data>>

\* data.total < 0 means that the number of rows is not known
\* Mutant: a last page that is not full is not counted.
MutTotalPages ==
  IF data = <<>> THEN 1
  ELSE IF data[1].total < 0
       THEN IF Len(data[1].rows) >= data[1].perPage THEN opts.page + 1 ELSE opts.page
       ELSE IF data[1].total < data[1].perPage THEN 1 ELSE data[1].total \div data[1].perPage
TotalPages ==
  IF data = <<>> THEN 1
  ELSE IF data[1].total < 0
       THEN IF Len(data[1].rows) >= data[1].perPage THEN opts.page + 1 ELSE opts.page
       ELSE IF data[1].total = 0 THEN 1
       ELSE (data[1].total + data[1].perPage - 1) \div data[1].perPage

MayStep == steps < Steps
Previous == MayStep /\ opts.page > 1 /\ ReloadPage([opts EXCEPT !.page = @ - 1])
GoTo(n) == MayStep /\ n \in 1..TotalPages /\ n # opts.page /\ ReloadPage([opts EXCEPT !.page = n])
NextPage == MayStep /\ opts.page < TotalPages /\ ReloadPage([opts EXCEPT !.page = @ + 1])
SetLimit(n) == MayStep /\ n # opts.limit /\ ReloadPage([opts EXCEPT !.limit = n, !.page = 1])
\* The order changes, and the page stays what it was.
Sort(column) ==
  /\ MayStep
  /\ ReloadPage([opts EXCEPT !.sort = IF @ = column /\ opts.desc THEN "" ELSE column,
                         !.desc = opts.sort = column /\ ~@])
Filter(filters) ==
  MayStep /\ filters # opts.filters /\ ReloadPage([opts EXCEPT !.filters = filters, !.page = 1])
Refresh == MayStep /\ ReloadPage(opts)
CancelLoad ==
  /\ MayStep /\ loading
  /\ loads' = [loads EXCEPT ![Len(loads)] = Abort(@)]
  /\ steps' = steps + 1
  /\ UNCHANGED <<dialect, stored, opts, loading, error, data>>

Arrive(i) ==
  /\ loads[i].stage = "answered"
  /\ loads' = [loads EXCEPT ![i].stage = "arrived"]
  /\ UNCHANGED <<dialect, stored, opts, loading, error, data, steps>>

\* seq !== loadSeq.current
\* Mutant: an answer is taken whichever request it is for.
MutSuperseded(i) == FALSE
Superseded(i) == i # Len(loads)
Settle(i) ==
  /\ loads[i].stage \in {"arrived", "refused"}
  /\ loads' = [loads EXCEPT ![i] = Over(@)]
  /\ IF Superseded(i) THEN UNCHANGED <<loading, error, data>>
     ELSE /\ loading' = FALSE
          /\ IF loads[i].stage = "arrived"
             THEN /\ data' = <<[rows |-> loads[i].rows, total |-> loads[i].total,
                                perPage |-> PerPage(loads[i].opts), opts |-> loads[i].opts,
                                of |-> loads[i].of]>>
                  /\ UNCHANGED error
             ELSE error' = ~loads[i].aborted /\ UNCHANGED data
  /\ UNCHANGED <<dialect, stored, opts, steps>>

-----------------------------------------------------------------------------
OtherWrites ==
  /\ MayStep /\ steps' = steps + 1
  /\ \E t \in Tables : t # stored /\ stored' = t
  /\ UNCHANGED <<dialect, opts, loads, loading, error, data>>

PagesInit ==
  /\ dialect \in Engines /\ stored \in Tables /\ steps = 0
  /\ opts \in [page : {1}, limit : {DefaultRows}, sort : {""}, desc : {FALSE},
               filters : FilterLists]   \* the filters used last on this table
  /\ loads = <<NewLoad(opts)>>
  /\ loading = TRUE /\ error = FALSE /\ data = <<>>

PagesNext ==
  \/ \E i \in DOMAIN loads :
       \/ ReadRows(i) \/ CountMatches(i) \/ ReadEstimate(i) \/ NoTotal(i) \/ RefuseLoad(i)
       \/ Arrive(i) \/ Settle(i)
  \/ \E n \in Limits : SetLimit(n)
  \/ \E n \in 1..TotalPages : GoTo(n)
  \/ \E filters \in FilterLists : Filter(filters)
  \/ \E column \in Columns : Sort(column)
  \/ Previous \/ NextPage \/ Refresh \/ CancelLoad \/ OtherWrites

PagesSpec == PagesInit /\ [][PagesNext]_pageVars

-----------------------------------------------------------------------------
(* Properties.                                                              *)

CurrentLoad == Last(loads)

\* When the last load of the grid was answered, the grid shows that answer, to
\* the page, order and filter chosen now, whatever was asked before and in
\* whatever order the answers came (reload, loadSeq).
ShownIsAsked ==
  CurrentLoad.stage = "shown" => ~loading /\ ~error /\ data # <<>> /\ data[1].opts = opts

\* What a filter of the grid means, without regard to how it is written in SQL.
Occurs(t, s) == \E i \in 0..(Len(s) - Len(t)) : SubSeq(s, i + 1, i + Len(t)) = t
Fits(f, s) ==
  LET parts == Split(f.value)
      t == IF f.value = <<>> THEN <<>> ELSE f.value[1]
  IN CASE f.op \in Lists -> (\E n \in DOMAIN parts : parts[n] = s) = (f.op = "IN")
       [] f.op \in Ranges -> (~Less(s, parts[1]) /\ ~Less(parts[2], s)) = (f.op = "BETWEEN")
       [] f.op = "Contains" -> Occurs(t, s)
       [] f.op = "Not contains" -> ~Occurs(t, s)
       [] f.op = "Has prefix" -> Len(t) <= Len(s) /\ SubSeq(s, 1, Len(t)) = t
       [] f.op = "Has suffix" -> Len(t) <= Len(s) /\ SubSeq(s, Len(s) - Len(t) + 1, Len(s)) = t
       [] OTHER -> Compares(f.op, s, <<t>>)
Means(f, s) ==
  Written(f, Split(f.value)) =>
    IF f.op \in Nulls THEN s = Null <=> f.op = "IS NULL" ELSE s # Null /\ Fits(f, s)
Matching(rows, o) ==
  {r \in rows : \A n \in DOMAIN o.filters :
     o.filters[n].column # "" => Means(o.filters[n], r[o.filters[n].column])}
Fewest(n, rows) == Least(n, Cardinality(rows))

\* The rows shown are that page of the rows the filter means, in the order that
\* was asked for, whichever engine's WHERE clause, parameters and paging brought
\* them (buildWhereClause, FetchTableRows).
PageIsRight ==
  data # <<>> =>
    LET o == data[1].opts
        rows == data[1].rows
        all == Matching(data[1].of.rows, o)
        first == Fewest((o.page - 1) * PerPage(o), all)
    IN /\ Range(rows) \subseteq all /\ IsInjective(rows)
       /\ Len(rows) = Fewest(o.page * PerPage(o), all) - first
       /\ \A i, j \in DOMAIN rows : i < j => ~Sorts(o, rows[j], rows[i])
       /\ \A n \in DOMAIN rows :   \* as many rows come before the page as pages do
            /\ Cardinality({r \in all \ Range(rows) : Sorts(o, r, rows[n])}) <= first
            /\ Cardinality({r \in all \ Range(rows) : ~Sorts(o, rows[n], r)}) >= first

\* The pager leads to the next page exactly when there are rows on it, if they
\* were counted, and leads there in any case when their number is not known
\* (Total, totalPages).
PagerReaches ==
  CurrentLoad.stage = "shown" =>
    LET d == data[1]
        more == Cardinality(Matching(d.of.rows, opts)) > opts.page * PerPage(opts)
    IN /\ d.of.total = <<d.of.rows>> => ((opts.page < TotalPages) <=> more)
       /\ d.total < 0 /\ more => opts.page < TotalPages

=============================================================================
