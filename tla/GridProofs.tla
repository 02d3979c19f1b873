----------------------------- MODULE GridProofs -----------------------------
(***************************************************************************)
(* Theorems about the data grid, for any table, page, number of staged      *)
(* changes, commits, requests and writes of other clients. RowEdits: only   *)
(* the row that was meant is changed, no confirmed draft is lost, and the   *)
(* record is true. Browsing: what is shown is what is asked for now, is     *)
(* that page of the rows that match, and the pager leads to all of them.    *)
(***************************************************************************)
EXTENDS RowEdits, Browsing, FiniteSetTheorems, FunctionTheorems, SequenceTheorems,
  WellFoundedInduction, TLAPS

IsSequence(s) == s \in Seq({s[n] : n \in DOMAIN s})

\* A change (an edit or a deletion) names a row; a new row does not.
WellFormed(r) ==
  /\ r.op \in {"update", "delete", "insert"}
  /\ r.op = "update" => r.col \in {"key", "val"} /\ r.new \in Nat
  /\ r.op # "insert" => r.by = By

Early == {"policy", "keys", "count", "run"}    \* the statement has not run yet
TableTypes ==
  /\ DOMAIN table \subseteq Ids
  /\ \A i \in DOMAIN table : table[i] \in [key : Nat, val : Nat]
StagedTypes ==
  /\ DOMAIN grid = {"shown", "loading", "alive", "knowsKey"}
  /\ IsFiniteSet(drafts) /\ IsFiniteSet(marks) /\ IsSequence(edits)
  /\ \A n \in DOMAIN edits : edits[n].col \in {"key", "val"} /\ edits[n].new \in Nat
CommitTypes ==
  /\ IsSequence(queue) /\ IsFiniteSet(kept)
  /\ \A n \in DOMAIN queue : WellFormed(queue[n])
  /\ at \in {"idle", "review", "send", "await"}
  /\ at \in {"idle", "review"} => queue = <<>>
  /\ IF at = "await"
     THEN /\ DOMAIN h = {"at", "req", "answer", "entry", "ran", "touched"}
          /\ h.at \in Early \cup {"ran", "answered"} /\ WellFormed(h.req)
     ELSE h = NoRequest
Types == TableTypes /\ StagedTypes /\ CommitTypes

\* What the handler knows of its request at each stage: the way to the row that
\* the primary key decides, the answer, the record and the effect.
Handling ==
  at = "await" =>
    /\ h.at \in Early => h.answer = "none" /\ h.entry = "none" /\ h.ran = FALSE /\ h.touched = {}
    /\ h.at \in {"keys", "count"} => h.req.op # "insert"
    /\ h.at = "count" => ~HasKey /\ h.req.by = "match"
    /\ h.at = "run" /\ h.req.op # "insert" => h.req.by = IF HasKey THEN "key" ELSE "match"
    /\ h.at = "ran" => h.answer \in {"ok", "error"} /\ h.entry = "none" /\ (h.answer = "ok" => h.ran)
    /\ h.at = "answered" => h.answer \in {"ok", "error"} /\ Recorded

\* A confirmed draft is on its way to the server, in the table, or kept.
OnItsWay(d) ==
  \/ d \in kept
  \/ \E n \in DOMAIN queue : queue[n].op = "insert" /\ queue[n].row = d
  \/ at = "await" /\ h.req.op = "insert" /\ h.req.row = d /\ h.answer # "ok"
Drafting ==
  /\ at \in {"idle", "review"} => promised \subseteq drafts
  /\ at \in {"send", "await"} => \A d \in promised : OnItsWay(d)
  /\ at = "await" /\ h.req.op = "insert" /\ h.ran => h.req.row \notin promised

\* New rows come after all changes.
Ordered ==
  /\ \A m, n \in DOMAIN queue : m < n /\ queue[m].op = "insert" => queue[n].op = "insert"
  /\ at = "await" /\ h.req.op = "insert" => \A n \in DOMAIN queue : queue[n].op = "insert"

\* The row that a change finds, if it finds any, is the one that was meant.
Finds(r) ==
  IF r.by = "key" THEN /\ r.op = "update" => r.col # "key"
                       /\ HasKey => \A i \in DOMAIN table : table[i].key = r.row.key => i = r.meant
  ELSE Current(r.meant, r.row)
Unrun == at = "await" /\ h.at \in Early /\ h.req.op # "insert"
Rendered == at = "review" /\ grid.alive => \A m \in marks : m.at \in DOMAIN grid.shown
Meant == calm /\ apart =>
  /\ Apart(queue) /\ \A n \in Changes(queue) : Finds(queue[n])
  /\ Unrun => /\ Finds(h.req)
              /\ h.req.by # "key" => \A n \in Changes(queue) : queue[n].meant # h.req.meant
              /\ h.at = "run" /\ ~HasKey => Guard
  /\ at = "await" => h.touched \subseteq {h.req.meant}

EditsInv == Types /\ Handling /\ Drafting /\ Ordered /\ KeysUnique(table) /\ Rendered /\ Meant

-----------------------------------------------------------------------------
(* Sequences and sets.                                                      *)

\* A sequence is a function on an initial segment of the numbers.
LEMMA SequenceParts ==
  ASSUME NEW s, IsSequence(s)
  PROVE  Len(s) \in Nat /\ DOMAIN s = 1..Len(s) /\ s = [n \in 1..Len(s) |-> s[n]]
BY DEF IsSequence

LEMMA SequenceOf ==
  ASSUME NEW S, NEW s \in Seq(S)
  PROVE  IsSequence(s)
<1>1. s \in [1..Len(s) -> {s[n] : n \in DOMAIN s}] /\ Len(s) \in Nat
  OBVIOUS
<1> QED
  BY <1>1 DEF IsSequence

LEMMA TailParts ==
  ASSUME NEW q, IsSequence(q), q # <<>>
  PROVE  /\ 1 \in DOMAIN q /\ Head(q) = q[1]
         /\ IsSequence(Tail(q))
         /\ \A n \in DOMAIN Tail(q) : n \in Nat /\ n + 1 \in DOMAIN q /\ Tail(q)[n] = q[n + 1]
         /\ \A n \in DOMAIN q : n # 1 => n - 1 \in DOMAIN Tail(q)
<1> PICK S : S = {q[n] : n \in DOMAIN q}
  OBVIOUS
<1>1. q \in Seq(S)
  BY DEF IsSequence
<1>2. Tail(q) \in Seq(S)
  BY <1>1
<1>3. Len(q) \in Nat /\ Len(q) # 0 /\ DOMAIN q = 1..Len(q)
  BY <1>1
<1>4. /\ DOMAIN Tail(q) = 1..(Len(q) - 1)
      /\ \A n \in 1..(Len(q) - 1) : Tail(q)[n] = q[n + 1]
  BY <1>1, <1>3
<1>5. IsSequence(Tail(q))
  BY <1>2, SequenceOf
<1>6. Head(q) = q[1]
  BY <1>1
<1> QED
  BY <1>3, <1>4, <1>5, <1>6

LEMMA ConcatParts ==
  ASSUME NEW p, NEW q, IsSequence(p), IsSequence(q)
  PROVE  /\ IsSequence(p \o q)
         /\ Len(p) \in Nat /\ Len(q) \in Nat /\ Len(p \o q) = Len(p) + Len(q)
         /\ DOMAIN p = 1..Len(p) /\ DOMAIN q = 1..Len(q)
         /\ DOMAIN (p \o q) = 1..(Len(p) + Len(q))
         /\ \A n \in 1..(Len(p) + Len(q)) :
              (p \o q)[n] = IF n <= Len(p) THEN p[n] ELSE q[n - Len(p)]
<1> PICK S : S = {p[n] : n \in DOMAIN p} \cup {q[n] : n \in DOMAIN q}
  OBVIOUS
<1>1. p \in Seq(S)
  <2>1. p \in [1..Len(p) -> S] /\ Len(p) \in Nat
    BY SequenceParts
  <2> QED
    BY <2>1
<1>2. q \in Seq(S)
  <2>1. q \in [1..Len(q) -> S] /\ Len(q) \in Nat
    BY SequenceParts
  <2> QED
    BY <2>1
<1>3. p \o q \in Seq(S)
  BY <1>1, <1>2
<1>4. IsSequence(p \o q)
  BY <1>3, SequenceOf
<1>5. /\ Len(p) \in Nat /\ DOMAIN p = 1..Len(p)
      /\ Len(q) \in Nat /\ DOMAIN q = 1..Len(q)
  BY SequenceParts
<1>6. Len(p \o q) = Len(p) + Len(q) /\ DOMAIN (p \o q) = 1..(Len(p) + Len(q))
  BY <1>1, <1>2
<1>7. \A n \in 1..(Len(p) + Len(q)) : (p \o q)[n] = IF n <= Len(p) THEN p[n] ELSE q[n - Len(p)]
  BY <1>1, <1>2
<1> QED
  BY <1>4, <1>5, <1>6, <1>7

\* An enumeration of a finite set has each of its elements.
LEMMA Enumeration ==
  ASSUME NEW S, IsFiniteSet(S)
  PROVE  /\ Cardinality(S) \in Nat
         /\ \A n \in 1..Cardinality(S) : SetToSeq(S)[n] \in S
         /\ \A x \in S : \E n \in 1..Cardinality(S) : SetToSeq(S)[n] = x
<1> PICK k : k = Cardinality(S)
  OBVIOUS
<1>1. k \in Nat /\ ExistsBijection(1..k, S)
  BY FS_CardinalityType
<1>2. \E f \in [1..k -> S] : IsInjective(f)
  BY <1>1 DEF ExistsBijection, Bijection, Injection, IsInjective
<1>3. SetToSeq(S) \in [1..k -> S] /\ IsInjective(SetToSeq(S))
  BY <1>2 DEF SetToSeq
<1>4. SetToSeq(S) \in Injection(1..k, S)
  BY <1>3 DEF Injection, IsInjective
<1>5. Cardinality(1..k) = k
  BY <1>1, FS_Interval
<1>6. SetToSeq(S) \in Surjection(1..k, S)
  BY <1>4, <1>5, FS_Injection
<1> QED
  BY <1>1, <1>3, <1>6 DEF Surjection

LEMMA EmptyIsSequence == IsSequence(<<>>)
<1>1. <<>> \in Seq({})
  OBVIOUS
<1> QED
  BY <1>1, SequenceOf

-----------------------------------------------------------------------------
(* Which steps touch what.                                                  *)

\* Steps of the user and of the page, outside the commit.
Staging == \/ Reload \/ Turn \/ LoadArrives \/ LoadFails
           \/ StageEdit \/ MarkDelete \/ UnmarkDelete \/ AddDraft
OtherClients == OtherInserts \/ OtherDeletes \/ OtherUpdates

LEMMA StagingFrame ==
  ASSUME Staging
  PROVE  UNCHANGED <<engine, keyed, table, others, commitVars, h, calm, apart, promised>>
BY DEF Staging, Reload, Turn, LoadArrives, LoadFails, StageEdit, MarkDelete, UnmarkDelete, AddDraft, Idle

LEMMA HandleFrame ==
  ASSUME Handle
  PROVE  UNCHANGED <<engine, keyed, others, gridVars, commitVars, calm, apart>>
BY DEF Handle, Allow, Deny, FindByKey, FindByMatch, CannotFind, LookupFails, CountRows, Run,
       RunFails, RecordRun, Step, Refuse, Record, Took, NothingRan, Server

LEMMA OtherFrame ==
  ASSUME OtherClients
  PROVE  /\ UNCHANGED <<engine, keyed, gridVars, commitVars, h, apart, promised>>
         /\ calm' = FALSE /\ KeysUnique(table')
BY DEF OtherClients, OtherInserts, OtherDeletes, OtherUpdates, Other

\* The cases of a step.
LEMMA Cases ==
  ASSUME [Next]_vars
  PROVE  \/ UNCHANGED vars \/ Staging \/ Discard \/ Review \/ Cancel \/ Confirm
         \/ Send \/ Receive \/ Finish \/ Handle \/ OtherClients
BY DEF Next, User, Load, Commit, Staging, OtherClients

\* How rows are found is settled before the first step.
LEMMA Settled ==
  ASSUME Types, [Next]_vars
  PROVE  engine' = engine /\ keyed' = keyed /\ grid'.knowsKey = grid.knowsKey
         /\ DOMAIN grid' = DOMAIN grid
<1> DOMAIN grid = {"shown", "loading", "alive", "knowsKey"}
  BY DEF Types, StagedTypes
<1>1. CASE UNCHANGED <<engine, keyed, grid>>
  BY <1>1
<1>2. CASE Staging
  <2>1. engine' = engine /\ keyed' = keyed
    BY <1>2, StagingFrame
  <2> QED
    BY <1>2, <2>1 DEF Staging, Reload, Turn, LoadArrives, LoadFails, StageEdit, MarkDelete, UnmarkDelete,
           AddDraft, Asked, Idle
<1>3. CASE Discard
  BY <1>3 DEF Discard
<1>4. CASE Review
  BY <1>4 DEF Review
<1>5. CASE Cancel \/ Confirm \/ Send \/ Receive
  BY <1>1, <1>5 DEF Cancel, Confirm, Send, Receive, gridVars
<1>6. CASE Finish
  BY <1>6 DEF Finish, Asked
<1>7. CASE Handle
  BY <1>1, <1>7, HandleFrame DEF gridVars
<1>8. CASE OtherClients
  BY <1>1, <1>8, OtherFrame DEF gridVars
<1>9. CASE UNCHANGED vars
  BY <1>1, <1>9 DEF vars
<1> QED
  BY <1>2, <1>3, <1>4, <1>5, <1>6, <1>7, <1>8, <1>9, Cases

LEMMA SettledWay ==
  ASSUME Types, [Next]_vars
  PROVE  /\ HasKey' = HasKey /\ By' = By
         /\ \A r : WellFormed(r)' = WellFormed(r)
<1>1. HasKey' = HasKey /\ By' = By
  BY Settled DEF HasKey, By
<1> QED
  BY <1>1 DEF WellFormed
-----------------------------------------------------------------------------
(* Types.                                                                   *)

LEMMA TypesInit == Init => Types
<1> SUFFICES ASSUME Init PROVE Types
  OBVIOUS
<1>1. TableTypes
  <2>1. PICK k \in {1, 2} : table = [i \in {1, 2} |-> [key |-> IF i = 1 THEN 1 ELSE k, val |-> 0]]
    BY DEF Init
  <2>2. DOMAIN table = {1, 2} /\ \A i \in {1, 2} : table[i] \in [key : Nat, val : Nat]
    BY <2>1
  <2> QED
    BY <2>2, EditsAssumption DEF TableTypes, Parameters
<1>2. StagedTypes
  BY EmptyIsSequence, FS_EmptySet DEF Init, StagedTypes
<1>3. CommitTypes
  BY EmptyIsSequence, FS_EmptySet DEF Init, CommitTypes
<1> QED
  BY <1>1, <1>2, <1>3 DEF Types

LEMMA TableTypesStep ==
  ASSUME Types, [Next]_vars
  PROVE  TableTypes'
<1> USE DEF TableTypes
<1>0. TableTypes
  BY DEF Types
<1>1. CASE UNCHANGED table
  BY <1>0, <1>1
<1>2. CASE Run
  <2>1. CASE UpdateRow
    <3>1. table' = Changed /\ at = "await" /\ h.req.col \in {"key", "val"} /\ h.req.new \in Nat
      BY <2>1 DEF UpdateRow, Types, CommitTypes, WellFormed, NoRequest
    <3>2. DOMAIN Changed = DOMAIN table
      BY DEF Changed
    <3>3. ASSUME NEW i \in DOMAIN table PROVE Changed[i] \in [key : Nat, val : Nat]
      <4>1. table[i] \in [key : Nat, val : Nat]
        BY <1>0
      <4>2. Changed[i] = table[i] \/ Changed[i] = [table[i] EXCEPT ![h.req.col] = h.req.new]
        BY DEF Changed
      <4> QED
        BY <3>1, <4>1, <4>2
    <3> QED
      BY <1>0, <3>1, <3>2, <3>3
  <2>2. CASE DeleteRow
    BY <1>0, <2>2 DEF DeleteRow
  <2>3. CASE InsertRow
    <3>1. PICK i \in Ids \ DOMAIN table, k \in Keys :
            table' = [j \in DOMAIN table \cup {i} |-> IF j = i THEN [key |-> k, val |-> 0] ELSE table[j]]
      BY <2>3 DEF InsertRow
    <3>2. k \in Nat
      BY EditsAssumption DEF Parameters
    <3> QED
      BY <1>0, <3>1, <3>2
  <2> QED
    BY <1>2, <2>1, <2>2, <2>3 DEF Run
<1>3. CASE Handle /\ ~Run
  <2>1. UNCHANGED table
    BY <1>3 DEF Handle, Allow, Deny, FindByKey, FindByMatch, CannotFind, LookupFails, CountRows,
                RunFails, RecordRun, Step, Refuse, NothingRan
  <2> QED
    BY <1>1, <2>1
<1>4. CASE OtherClients
  <2> Keys \subseteq Nat /\ Vals \subseteq Nat
    BY EditsAssumption DEF Parameters
  <2>1. CASE OtherInserts
    <3>1. PICK i \in Ids \ DOMAIN table, k \in Keys :
            table' = [j \in DOMAIN table \cup {i} |-> IF j = i THEN [key |-> k, val |-> 0] ELSE table[j]]
      BY <2>1 DEF OtherInserts, Other
    <3> QED
      BY <1>0, <3>1
  <2>2. CASE OtherDeletes
    BY <1>0, <2>2 DEF OtherDeletes, Other
  <2>3. CASE OtherUpdates
    <3>1. \E i \in DOMAIN table : \/ \E k \in Keys : table' = [table EXCEPT ![i].key = k]
                                 \/ \E v \in Vals : table' = [table EXCEPT ![i].val = v]
      BY <2>3 DEF OtherUpdates, Other
    <3> QED
      BY <1>0, <3>1
  <2> QED
    BY <1>4, <2>1, <2>2, <2>3 DEF OtherClients
<1>5. CASE Discard \/ Review \/ Cancel \/ Confirm \/ Send \/ Receive \/ Finish
  BY <1>1, <1>5 DEF Discard, Review, Cancel, Confirm, Send, Receive, Finish
<1>6. CASE Staging \/ UNCHANGED vars
  BY <1>1, <1>6, StagingFrame DEF vars
<1> QED
  BY <1>2, <1>3, <1>4, <1>5, <1>6, Cases

\* The edits after a cell was edited.
LEMMA EditsStep ==
  ASSUME Types, StageEdit
  PROVE  /\ IsSequence(edits')
         /\ \A n \in DOMAIN edits' : edits'[n].col \in {"key", "val"} /\ edits'[n].new \in Nat
<1> DEFINE Edit(e) == e.col \in {"key", "val"} /\ e.new \in Nat
<1>0. IsSequence(edits) /\ \A n \in DOMAIN edits : Edit(edits[n])
  BY DEF Types, StagedTypes
<1>1. PICK new :
        /\ Edit(new)
        /\ \/ edits' = Append(edits, new)
           \/ \E e \in DOMAIN edits : edits' = [edits EXCEPT ![e] = new] \/ edits' = RemoveAt(edits, e)
  <2>1. PICK n \in DOMAIN grid.shown, c \in {"key", "val"}, v \in Keys \cup Vals :
          LET shown == grid.shown[n]
              edit == [at |-> n, col |-> c, new |-> v, row |-> shown.row, meant |-> shown.id]
              earlier == {e \in DOMAIN edits : SameCell(edits[e], n, c)}
          IN IF shown.row[c] = v THEN \E e \in earlier : edits' = RemoveAt(edits, e)
             ELSE \/ earlier = {} /\ edits' = Append(edits, edit)
                  \/ \E e \in earlier : edits' = [edits EXCEPT ![e] = edit]
    BY DEF StageEdit
  <2>2. PICK edit : edit = [at |-> n, col |-> c, new |-> v, row |-> grid.shown[n].row,
                            meant |-> grid.shown[n].id]
    OBVIOUS
  <2>3. v \in Nat
    BY EditsAssumption DEF Parameters
  <2>4. Edit(edit)
    BY <2>2, <2>3
  <2>5. \/ edits' = Append(edits, edit)
        \/ \E e \in DOMAIN edits : edits' = [edits EXCEPT ![e] = edit] \/ edits' = RemoveAt(edits, e)
    BY <2>1, <2>2
  <2> QED
    BY <2>4, <2>5
<1>2. PICK S : S = {edits[n] : n \in DOMAIN edits} \cup {new}
  OBVIOUS
<1>3. edits \in Seq(S)
  <2>1. edits \in [1..Len(edits) -> S] /\ Len(edits) \in Nat
    BY <1>0, <1>2, SequenceParts
  <2> QED
    BY <2>1
<1>4. \A e \in S : Edit(e)
  BY <1>0, <1>1, <1>2
<1> HIDE DEF Edit
<1>5. edits' \in Seq(S)
  <2>1. new \in S
    BY <1>2
  <2>2. CASE edits' = Append(edits, new)
    BY <1>3, <2>1, <2>2
  <2>3. ASSUME NEW e \in DOMAIN edits, edits' = [edits EXCEPT ![e] = new] PROVE edits' \in Seq(S)
    BY <1>3, <2>1, <2>3
  <2>4. ASSUME NEW e \in DOMAIN edits, edits' = RemoveAt(edits, e) PROVE edits' \in Seq(S)
    <3>1. Len(edits) \in Nat /\ e \in 1..Len(edits)
      BY <1>3, <2>4
    <3>2. SubSeq(edits, 1, e - 1) \in Seq(S) /\ SubSeq(edits, e + 1, Len(edits)) \in Seq(S)
      BY <1>3, <3>1, SubSeqProperties
    <3> QED
      BY <2>4, <3>2, ConcatProperties DEF RemoveAt
  <2> QED
    BY <1>1, <2>2, <2>3, <2>4
<1>6. \A n \in DOMAIN edits' : edits'[n] \in S
  BY <1>5
<1>7. \A n \in DOMAIN edits' : Edit(edits'[n])
  BY <1>4, <1>6
<1> QED
  BY <1>5, <1>7, SequenceOf DEF Edit

LEMMA StagedTypesStep ==
  ASSUME Types, [Next]_vars
  PROVE  StagedTypes'
<1> USE DEF StagedTypes
<1>0. StagedTypes /\ DOMAIN grid' = DOMAIN grid
  BY Settled DEF Types
<1>1. CASE UNCHANGED <<edits, marks, drafts>>
  BY <1>0, <1>1
<1>2. CASE StageEdit
  BY <1>0, <1>2, EditsStep DEF StageEdit
<1>3. CASE MarkDelete
  <2>1. PICK m : marks' = marks \cup {m}
    BY <1>3 DEF MarkDelete
  <2>2. IsFiniteSet(marks')
    BY <1>0, <2>1, FS_AddElement
  <2> QED
    BY <1>0, <1>3, <2>2 DEF MarkDelete
<1>4. CASE UnmarkDelete
  BY <1>0, <1>4, FS_RemoveElement DEF UnmarkDelete
<1>5. CASE AddDraft
  BY <1>0, <1>5, FS_AddElement DEF AddDraft
<1>6. CASE Turn \/ Discard
  <2>1. edits' = <<>> /\ marks' = {} /\ drafts' \in {drafts, {}}
    BY <1>6 DEF Turn, Discard
  <2>2. IsFiniteSet({})
    BY FS_EmptySet
  <2>3. IsFiniteSet(drafts') /\ IsFiniteSet(marks')
    BY <1>0, <2>1, <2>2
  <2>4. IsSequence(edits') /\ DOMAIN edits' = {}
    BY <2>1, EmptyIsSequence
  <2> QED
    BY <1>0, <2>3, <2>4
<1>7. CASE Finish
  <2>1. edits' = <<>> /\ marks' = {} /\ drafts' = kept
    BY <1>7 DEF Finish, Remaining
  <2>2. IsFiniteSet(kept)
    BY DEF Types, CommitTypes
  <2> QED
    BY <1>0, <2>1, <2>2, FS_EmptySet, EmptyIsSequence
<1>8. CASE Reload \/ LoadArrives \/ LoadFails
  BY <1>1, <1>8 DEF Reload, LoadArrives, LoadFails
<1>9. CASE Review \/ Cancel \/ Confirm \/ Send \/ Receive
  BY <1>1, <1>9 DEF Review, Cancel, Confirm, Send, Receive, gridVars
<1>10. CASE Handle \/ OtherClients
  BY <1>1, <1>10, HandleFrame, OtherFrame DEF gridVars
<1>11. CASE UNCHANGED vars
  BY <1>1, <1>11 DEF vars
<1> QED
  BY <1>2, <1>3, <1>4, <1>5, <1>6, <1>7, <1>8, <1>9, <1>10, <1>11, Cases DEF Staging
\* The requests of a commit: the edits, the deletions, the new rows.
Deletions == [n \in 1..Cardinality(marks) |-> Delete(SetToSeq(marks)[n])]
NewRows == drafts \ {"blank"}
Insertions == [n \in 1..Cardinality(NewRows) |-> Insert(SetToSeq(NewRows)[n])]
Updates == [n \in DOMAIN edits |-> Update(edits[n])]
Requests == Updates \o Deletions \o Insertions

LEMMA SequenceOn ==
  ASSUME NEW k \in Nat, NEW f, f = [n \in 1..k |-> f[n]]
  PROVE  IsSequence(f) /\ Len(f) = k /\ DOMAIN f = 1..k
<1> PICK S : S = {f[n] : n \in 1..k}
  OBVIOUS
<1>1. f \in [1..k -> S]
  OBVIOUS
<1>2. f \in Seq(S)
  BY <1>1
<1> QED
  BY <1>1, <1>2, SequenceOf, LenProperties

LEMMA RequestParts ==
  ASSUME Types
  PROVE  /\ IsSequence(Requests)
         /\ Len(edits) \in Nat /\ Cardinality(marks) \in Nat /\ Cardinality(NewRows) \in Nat
         /\ DOMAIN edits = 1..Len(edits)
         /\ DOMAIN Requests = 1..(Len(edits) + Cardinality(marks) + Cardinality(NewRows))
         /\ \A n \in 1..Len(edits) : Requests[n] = Update(edits[n])
         /\ \A n \in 1..Cardinality(marks) : Requests[Len(edits) + n] = Delete(SetToSeq(marks)[n])
         /\ \A n \in 1..Cardinality(NewRows) :
              Requests[Len(edits) + Cardinality(marks) + n] = Insert(SetToSeq(NewRows)[n])
<1>1. Len(edits) \in Nat /\ DOMAIN edits = 1..Len(edits)
  BY SequenceParts DEF Types, StagedTypes
<1>2. Cardinality(marks) \in Nat
  BY FS_CardinalityType DEF Types, StagedTypes
<1>3. Cardinality(NewRows) \in Nat
  <2>1. IsFiniteSet(NewRows)
    BY FS_Difference DEF Types, StagedTypes, NewRows
  <2> QED
    BY <2>1, FS_CardinalityType
<1>4. IsSequence(Updates) /\ Len(Updates) = Len(edits) /\ \A n \in 1..Len(edits) : Updates[n] = Update(edits[n])
  BY <1>1, SequenceOn DEF Updates
<1>5. /\ IsSequence(Deletions) /\ Len(Deletions) = Cardinality(marks)
      /\ \A n \in 1..Cardinality(marks) : Deletions[n] = Delete(SetToSeq(marks)[n])
  BY <1>2, SequenceOn DEF Deletions
<1>6. /\ IsSequence(Insertions) /\ Len(Insertions) = Cardinality(NewRows)
      /\ \A n \in 1..Cardinality(NewRows) : Insertions[n] = Insert(SetToSeq(NewRows)[n])
  BY <1>3, SequenceOn DEF Insertions
<1> PICK p : p = Updates \o Deletions
  OBVIOUS
<1>7. /\ IsSequence(p) /\ Len(p) = Len(edits) + Cardinality(marks)
      /\ \A n \in 1..(Len(edits) + Cardinality(marks)) :
           p[n] = IF n <= Len(edits) THEN Updates[n] ELSE Deletions[n - Len(edits)]
  <2>1. IsSequence(Updates) /\ IsSequence(Deletions)
    BY <1>4, <1>5
  <2>2. /\ IsSequence(p) /\ Len(p) = Len(Updates) + Len(Deletions)
        /\ \A n \in 1..(Len(Updates) + Len(Deletions)) :
             p[n] = IF n <= Len(Updates) THEN Updates[n] ELSE Deletions[n - Len(Updates)]
    BY <2>1, ConcatParts
  <2>3. Len(Updates) = Len(edits) /\ Len(Deletions) = Cardinality(marks)
    BY <1>4, <1>5
  <2> QED
    BY <2>2, <2>3
<1>8. /\ IsSequence(Requests)
      /\ DOMAIN Requests = 1..(Len(edits) + Cardinality(marks) + Cardinality(NewRows))
      /\ \A n \in 1..(Len(edits) + Cardinality(marks) + Cardinality(NewRows)) :
           Requests[n] = IF n <= Len(edits) + Cardinality(marks) THEN p[n]
                         ELSE Insertions[n - (Len(edits) + Cardinality(marks))]
  <2>1. IsSequence(p) /\ IsSequence(Insertions) /\ Requests = p \o Insertions
    BY <1>6, <1>7 DEF Requests
  <2>2. /\ IsSequence(Requests) /\ DOMAIN Requests = 1..(Len(p) + Len(Insertions))
        /\ \A n \in 1..(Len(p) + Len(Insertions)) :
             Requests[n] = IF n <= Len(p) THEN p[n] ELSE Insertions[n - Len(p)]
    BY <2>1, ConcatParts
  <2>3. Len(p) = Len(edits) + Cardinality(marks) /\ Len(Insertions) = Cardinality(NewRows)
    BY <1>6, <1>7
  <2> QED
    BY <2>2, <2>3
<1>9. ASSUME NEW n \in 1..Len(edits) PROVE Requests[n] = Update(edits[n])
  <2>1. Requests[n] = p[n] /\ p[n] = Updates[n]
    BY <1>1, <1>2, <1>3, <1>7, <1>8
  <2> QED
    BY <1>4, <2>1
<1>10. ASSUME NEW n \in 1..Cardinality(marks)
       PROVE  Requests[Len(edits) + n] = Delete(SetToSeq(marks)[n])
  <2> PICK k : k = Len(edits) + n
    OBVIOUS
  <2>1. k \in 1..(Len(edits) + Cardinality(marks)) /\ ~(k <= Len(edits)) /\ k - Len(edits) = n
    BY <1>1, <1>2
  <2>2. k \in 1..(Len(edits) + Cardinality(marks) + Cardinality(NewRows))
    BY <1>1, <1>2, <1>3, <2>1
  <2>3. k <= Len(edits) + Cardinality(marks)
    BY <1>1, <1>2, <2>1
  <2>4. Requests[k] = p[k]
    BY <1>8, <2>2, <2>3
  <2>5. p[k] = Deletions[n]
    BY <1>7, <2>1
  <2> QED
    BY <1>5, <2>4, <2>5
<1>11. ASSUME NEW n \in 1..Cardinality(NewRows)
       PROVE  Requests[Len(edits) + Cardinality(marks) + n] = Insert(SetToSeq(NewRows)[n])
  <2> PICK k : k = Len(edits) + Cardinality(marks) + n
    OBVIOUS
  <2>1. /\ k \in 1..(Len(edits) + Cardinality(marks) + Cardinality(NewRows))
        /\ ~(k <= Len(edits) + Cardinality(marks)) /\ k - (Len(edits) + Cardinality(marks)) = n
    BY <1>1, <1>2, <1>3
  <2>2. Requests[k] = Insertions[n]
    BY <1>8, <2>1
  <2> QED
    BY <1>6, <2>2
<1> QED
  BY <1>1, <1>2, <1>3, <1>8, <1>9, <1>10, <1>11

Parted(n, a, b, c) ==
  \/ n \in 1..a
  \/ n > a /\ n <= a + b /\ \E i \in 1..b : n = a + i
  \/ n > a + b /\ \E i \in 1..c : n = a + b + i

LEMMA ThreeParts ==
  ASSUME NEW a \in Nat, NEW b \in Nat, NEW c \in Nat, NEW n \in 1..(a + b + c)
  PROVE  Parted(n, a, b, c)
<1>1. CASE n <= a
  BY <1>1 DEF Parted
<1>2. CASE n > a /\ n <= a + b
  <2>1. n - a \in 1..b /\ n = a + (n - a)
    BY <1>2
  <2> QED
    BY <1>2, <2>1 DEF Parted
<1>3. CASE n > a + b
  <2>1. n - (a + b) \in 1..c /\ n = a + b + (n - (a + b))
    BY <1>3
  <2> QED
    BY <1>3, <2>1 DEF Parted
<1> QED
  BY <1>1, <1>2, <1>3

Sizes(a, b, c) == a = Len(edits) /\ b = Cardinality(marks) /\ c = Cardinality(NewRows)

\* Where a request of the commit comes from.
LEMMA Origin ==
  ASSUME Types, NEW n \in DOMAIN Requests
  PROVE  \/ n <= Len(edits) /\ \E e \in DOMAIN edits : Requests[n] = Update(edits[e])
         \/ /\ n > Len(edits) /\ n <= Len(edits) + Cardinality(marks)
            /\ \E m \in marks : Requests[n] = Delete(m)
         \/ n > Len(edits) + Cardinality(marks) /\ \E d \in NewRows : Requests[n] = Insert(d)
<1>1. PICK a \in Nat, b \in Nat, c \in Nat : Sizes(a, b, c)
  BY RequestParts DEF Sizes
<1>7. DOMAIN edits = 1..a
  BY <1>1, RequestParts DEF Sizes
<1>2. n \in 1..(a + b + c)
  BY <1>1, RequestParts DEF Sizes
<1>3. CASE n \in 1..a
  <2>1. Requests[n] = Update(edits[n])
    BY <1>1, <1>3, RequestParts DEF Sizes
  <2> QED
    BY <1>1, <1>3, <1>7, <2>1 DEF Sizes
<1>4. ASSUME n > a, n <= a + b, NEW i \in 1..b, n = a + i
      PROVE  n > Len(edits) /\ n <= Len(edits) + Cardinality(marks)
             /\ \E m \in marks : Requests[n] = Delete(m)
  <2>1. SetToSeq(marks)[i] \in marks
    BY <1>1, Enumeration DEF Types, StagedTypes, Sizes
  <2>2. Requests[n] = Delete(SetToSeq(marks)[i])
    BY <1>1, <1>4, RequestParts DEF Sizes
  <2> QED
    BY <1>1, <1>4, <2>1, <2>2 DEF Sizes
<1>5. ASSUME n > a + b, NEW i \in 1..c, n = a + b + i
      PROVE  n > Len(edits) + Cardinality(marks) /\ \E d \in NewRows : Requests[n] = Insert(d)
  <2>1. IsFiniteSet(NewRows)
    BY FS_Difference DEF Types, StagedTypes, NewRows
  <2>2. SetToSeq(NewRows)[i] \in NewRows
    BY <1>1, <2>1, Enumeration DEF Sizes
  <2>3. Requests[n] = Insert(SetToSeq(NewRows)[i])
    BY <1>1, <1>5, RequestParts DEF Sizes
  <2> QED
    BY <1>1, <1>5, <2>2, <2>3 DEF Sizes
<1>6. Parted(n, a, b, c)
  BY <1>2, ThreeParts
<1> QED
  BY <1>3, <1>4, <1>5, <1>6 DEF Parted

LEMMA ConfirmQueue ==
  ASSUME Confirm
  PROVE  queue' = Requests
BY DEF Confirm, Requests, Updates, Deletions, Insertions, NewRows
\* A handler works on one request, which stays the same.
LEMMA HandleRequest ==
  ASSUME Types, Handle
  PROVE  /\ at = "await" /\ at' = "await" /\ h.at \in Early \cup {"ran"}
         /\ DOMAIN h = {"at", "req", "answer", "entry", "ran", "touched"} /\ DOMAIN h' = DOMAIN h
         /\ h'.req = h.req /\ h'.at \in Early \cup {"ran", "answered"}
<1>1. h.at \in Early \cup {"ran"}
  BY DEF Handle, Allow, Deny, FindByKey, FindByMatch, CannotFind, LookupFails, CountRows, Run,
         UpdateRow, DeleteRow, InsertRow, RunFails, RecordRun, Early
<1>2. at = "await" /\ DOMAIN h = {"at", "req", "answer", "entry", "ran", "touched"}
  BY <1>1 DEF Types, CommitTypes, NoRequest, Early
<1>3. at' = at
  BY HandleFrame DEF commitVars
<1>4. CASE Allow \/ FindByKey \/ FindByMatch \/ (CountRows /\ Step("run"))
  BY <1>1, <1>2, <1>3, <1>4 DEF Allow, FindByKey, FindByMatch, Step, Early
<1>5. CASE CannotFind \/ LookupFails \/ Deny
  BY <1>1, <1>2, <1>3, <1>5 DEF CannotFind, LookupFails, Refuse, Deny
<1>6. CASE CountRows /\ Record(FALSE)
  BY <1>1, <1>2, <1>3, <1>6 DEF Record
<1>7. CASE Run
  BY <1>1, <1>2, <1>3, <1>7 DEF Run, Took
<1>8. CASE RunFails \/ RecordRun
  BY <1>1, <1>2, <1>3, <1>8 DEF RunFails, RecordRun, Record
<1> QED
  BY <1>4, <1>5, <1>6, <1>7, <1>8 DEF Handle, CountRows

LEMMA CommitTypesStep ==
  ASSUME Types, [Next]_vars
  PROVE  CommitTypes'
<1> USE DEF CommitTypes
<1>0. CommitTypes /\ \A r : WellFormed(r)' = WellFormed(r)
  BY SettledWay DEF Types
<1>1. CASE UNCHANGED <<commitVars, h>>
  BY <1>0, <1>1 DEF commitVars
<1>2. CASE Staging \/ Discard \/ OtherClients \/ UNCHANGED vars
  <2>1. UNCHANGED <<commitVars, h>>
    BY <1>2, StagingFrame, OtherFrame DEF Discard, vars, commitVars
  <2> QED
    BY <1>1, <2>1
<1>3. CASE Review \/ Cancel
  BY <1>0, <1>3 DEF Review, Cancel
<1>4. CASE Confirm
  <2>1. at' = "send" /\ kept' = {} /\ h' = h /\ h = NoRequest
    BY <1>0, <1>4 DEF Confirm
  <2>2. queue' = Requests
    BY <1>4, ConfirmQueue
  <2>3. ASSUME NEW n \in DOMAIN Requests PROVE WellFormed(Requests[n])
    <3>1. ASSUME NEW e \in DOMAIN edits, Requests[n] = Update(edits[e]) PROVE WellFormed(Requests[n])
      BY <3>1 DEF WellFormed, Update, Types, StagedTypes
    <3>2. ASSUME NEW m \in marks, Requests[n] = Delete(m) PROVE WellFormed(Requests[n])
      BY <3>2 DEF WellFormed, Delete
    <3>3. ASSUME NEW d \in NewRows, Requests[n] = Insert(d) PROVE WellFormed(Requests[n])
      BY <3>3 DEF WellFormed, Insert
    <3> QED
      BY <3>1, <3>2, <3>3, Origin
  <2> QED
    BY <1>0, <2>1, <2>2, <2>3, RequestParts, FS_EmptySet
<1>5. CASE Send
  <2>1. /\ queue # <<>> /\ queue' = Tail(queue) /\ at' = "await" /\ kept' = kept
        /\ h' = [at |-> "policy", req |-> Head(queue), answer |-> "none", entry |-> "none",
                 ran |-> FALSE, touched |-> {}]
    BY <1>5 DEF Send
  <2>2. WellFormed(Head(queue)) /\ IsSequence(queue') /\ \A n \in DOMAIN queue' : WellFormed(queue'[n])
    BY <1>0, <2>1, TailParts
  <2>3. /\ DOMAIN h' = {"at", "req", "answer", "entry", "ran", "touched"}
        /\ h'.at \in Early /\ h'.req = Head(queue)
    BY <2>1 DEF Early
  <2> QED
    BY <1>0, <2>1, <2>2, <2>3
<1>6. CASE Receive
  <2>1. at' = "send" /\ h' = NoRequest /\ queue' = queue /\ (kept' = kept \/ kept' = kept \cup {h.req.row})
    BY <1>6 DEF Receive, Kept
  <2>2. IsFiniteSet(kept')
    BY <1>0, <2>1, FS_AddElement
  <2> QED
    BY <1>0, <2>1, <2>2
<1>7. CASE Finish
  <2>1. at' = "idle" /\ queue' = <<>> /\ queue = <<>> /\ kept' = {} /\ h' = h /\ at = "send"
    BY <1>7 DEF Finish
  <2> QED
    BY <1>0, <2>1, FS_EmptySet
<1>8. CASE Handle
  <2>1. UNCHANGED <<queue, kept>>
    BY <1>8, HandleFrame DEF commitVars
  <2>2. at = "await" /\ at' = "await" /\ h'.req = h.req /\ h'.at \in Early \cup {"ran", "answered"}
        /\ DOMAIN h' = {"at", "req", "answer", "entry", "ran", "touched"}
    BY <1>8, HandleRequest
  <2> QED
    BY <1>0, <2>1, <2>2
<1> QED
  BY <1>2, <1>3, <1>4, <1>5, <1>6, <1>7, <1>8, Cases

LEMMA TypesStep ==
  ASSUME Types, [Next]_vars
  PROVE  Types'
BY TableTypesStep, StagedTypesStep, CommitTypesStep DEF Types

-----------------------------------------------------------------------------
(* What a handler knows.                                                    *)

LEMMA HandlingStep ==
  ASSUME Types, Handling, [Next]_vars
  PROVE  Handling'
<1>1. CASE UNCHANGED <<at, h>>
  BY <1>1, SettledWay DEF Handling, Recorded
<1>2. CASE Staging \/ Discard \/ OtherClients \/ UNCHANGED vars
  <2>1. UNCHANGED <<at, h>>
    BY <1>2, StagingFrame, OtherFrame DEF Discard, vars, commitVars
  <2> QED
    BY <1>1, <2>1
<1>3. CASE Review \/ Cancel \/ Confirm \/ Receive \/ Finish
  <2>1. at' # "await"
    BY <1>3 DEF Review, Cancel, Confirm, Receive, Finish, Types, CommitTypes
  <2> QED
    BY <2>1 DEF Handling
<1>4. CASE Send
  <2>1. h'.at = "policy" /\ h'.answer = "none" /\ h'.entry = "none" /\ h'.ran = FALSE /\ h'.touched = {}
    BY <1>4 DEF Send
  <2> QED
    BY <2>1 DEF Handling, Early
<1>5. CASE Handle
  <2>0. /\ at = "await" /\ DOMAIN h = {"at", "req", "answer", "entry", "ran", "touched"} /\ h'.req = h.req
        /\ HasKey' = HasKey
    BY <1>5, HandleRequest, SettledWay
  <2>a. h.at \in Early => h.answer = "none" /\ h.entry = "none" /\ h.ran = FALSE /\ h.touched = {}
    BY <2>0 DEF Handling
  <2>1. CASE Allow
    <3>1. /\ h' = [h EXCEPT !.at = IF h.req.op = "insert" THEN "run" ELSE "keys"] /\ h.at = "policy"
      BY <2>1 DEF Allow, Step
    <3> QED
      BY <2>0, <2>a, <3>1 DEF Handling, Early
  <2>2. CASE Deny
    <3>1. h' = [h EXCEPT !.at = "answered", !.entry = "denied", !.answer = "error"] /\ h.at = "policy"
      BY <2>2 DEF Deny
    <3> QED
      BY <2>0, <2>a, <3>1 DEF Handling, Recorded, Early
  <2>3. CASE FindByKey
    <3>1. h' = [h EXCEPT !.at = "run"] /\ h.at = "keys" /\ HasKey /\ h.req.by = "key"
      BY <2>3 DEF FindByKey, Step
    <3> QED
      BY <2>0, <2>a, <3>1 DEF Handling, Early
  <2>4. CASE FindByMatch
    <3>1. h' = [h EXCEPT !.at = "count"] /\ h.at = "keys" /\ ~HasKey /\ h.req.by = "match"
      BY <2>4 DEF FindByMatch, Step
    <3> QED
      BY <2>0, <2>a, <3>1 DEF Handling, Early
  <2>5. CASE CannotFind \/ LookupFails
    <3>1. h' = [h EXCEPT !.at = "answered", !.answer = "error"] /\ h.at = "keys"
      BY <2>5 DEF CannotFind, LookupFails, Refuse
    <3> QED
      BY <2>0, <2>a, <3>1 DEF Handling, Recorded, Early
  <2>6. CASE CountRows
    <3>1. CASE Step("run")
      <4>1. h' = [h EXCEPT !.at = "run"] /\ h.at = "count"
        BY <2>6, <3>1 DEF Step, CountRows
      <4> QED
        BY <2>0, <2>a, <4>1 DEF Handling, Early
    <3>2. CASE Record(FALSE)
      <4>1. h' = [h EXCEPT !.at = "answered", !.entry = "failed", !.answer = "error"] /\ h.at = "count"
        BY <2>6, <3>2 DEF Record, Entry, CountRows
      <4> QED
        BY <2>0, <2>a, <4>1 DEF Handling, Recorded, Early
    <3> QED
      BY <2>6, <3>1, <3>2 DEF CountRows
  <2>7. CASE Run
    <3>1. PICK ok \in BOOLEAN : \E t :
            h' = [h EXCEPT !.at = "ran", !.ran = TRUE, !.answer = IF ok THEN "ok" ELSE "error",
                     !.touched = t]
      BY <2>7 DEF Run, Took
    <3>2. h.at = "run"
      BY <2>7 DEF Run, UpdateRow, DeleteRow, InsertRow
    <3> QED
      BY <2>0, <2>a, <3>1, <3>2 DEF Handling, Early
  <2>8. CASE RunFails
    <3>1. h' = [h EXCEPT !.at = "ran", !.answer = "error"] /\ h.at = "run"
      BY <2>8 DEF RunFails
    <3> QED
      BY <2>0, <2>a, <3>1 DEF Handling, Early
  <2>9. CASE RecordRun
    <3>1. /\ h.at = "ran"
          /\ h' = [h EXCEPT !.at = "answered", !.entry = IF h.answer = "ok" THEN "executed" ELSE "failed",
                       !.answer = IF h.answer = "ok" THEN "ok" ELSE "error"]
      BY <2>9 DEF RecordRun, Record, Entry
    <3>2. h.answer \in {"ok", "error"} /\ (h.answer = "ok" => h.ran)
      BY <2>0, <3>1 DEF Handling
    <3> QED
      BY <2>0, <3>1, <3>2 DEF Handling, Recorded, Early
  <2> QED
    BY <1>5, <2>1, <2>2, <2>3, <2>4, <2>5, <2>6, <2>7, <2>8, <2>9 DEF Handle
<1> QED
  BY <1>2, <1>3, <1>4, <1>5, Cases
-----------------------------------------------------------------------------
(* The order of the requests, and the drafts.                               *)

\* A request is sent: the first of the queue.
LEMMA SendParts ==
  ASSUME Types, Send
  PROVE  /\ at = "send" /\ at' = "await" /\ kept' = kept
         /\ h'.at = "policy" /\ h'.req = queue[1] /\ h'.answer = "none" /\ h'.ran = FALSE /\ h'.touched = {}
         /\ 1 \in DOMAIN queue /\ DOMAIN queue \subseteq Nat
         /\ \A n \in DOMAIN queue' : n \in Nat /\ n + 1 \in DOMAIN queue /\ queue'[n] = queue[n + 1]
         /\ \A n \in DOMAIN queue : n # 1 => n - 1 \in DOMAIN queue' /\ queue'[n - 1] = queue[n]
<1>1. /\ at = "send" /\ at' = "await" /\ kept' = kept /\ queue # <<>> /\ queue' = Tail(queue)
      /\ h' = [at |-> "policy", req |-> Head(queue), answer |-> "none", entry |-> "none",
               ran |-> FALSE, touched |-> {}]
  BY DEF Send
<1>2. /\ 1 \in DOMAIN queue /\ Head(queue) = queue[1]
      /\ \A n \in DOMAIN queue' : n \in Nat /\ n + 1 \in DOMAIN queue /\ queue'[n] = queue[n + 1]
      /\ \A n \in DOMAIN queue : n # 1 => n - 1 \in DOMAIN queue'
  BY <1>1, TailParts DEF Types, CommitTypes
<1>3. DOMAIN queue \subseteq Nat
  BY SequenceParts DEF Types, CommitTypes
<1>4. ASSUME NEW n \in DOMAIN queue, n # 1 PROVE queue'[n - 1] = queue[n]
  <2>1. queue'[n - 1] = queue[(n - 1) + 1] /\ n \in Nat
    BY <1>2, <1>3, <1>4
  <2> QED
    BY <2>1
<1>5. h'.at = "policy" /\ h'.req = queue[1] /\ h'.answer = "none" /\ h'.ran = FALSE /\ h'.touched = {}
  BY <1>1, <1>2
<1> QED
  BY <1>1, <1>2, <1>3, <1>4, <1>5

LEMMA OrderedStep ==
  ASSUME Types, Ordered, [Next]_vars
  PROVE  Ordered'
<1>1. CASE UNCHANGED <<at, queue, h>>
  BY <1>1 DEF Ordered
<1>2. CASE Staging \/ Discard \/ OtherClients \/ UNCHANGED vars
  <2>1. UNCHANGED <<at, queue, h>>
    BY <1>2, StagingFrame, OtherFrame DEF Discard, vars, commitVars
  <2> QED
    BY <1>1, <2>1
<1>3. CASE Review \/ Cancel \/ Receive \/ Finish
  <2>1. at' # "await" /\ queue' = queue
    BY <1>3 DEF Review, Cancel, Receive, Finish, Types, CommitTypes
  <2> QED
    BY <2>1 DEF Ordered
<1>4. CASE Confirm
  <2>1. at' = "send" /\ queue' = Requests
    BY <1>4, ConfirmQueue DEF Confirm
  <2>2. ASSUME NEW m \in DOMAIN Requests, NEW n \in DOMAIN Requests, m < n, Requests[m].op = "insert"
        PROVE  Requests[n].op = "insert"
    <3>1. m \in Nat /\ n \in Nat /\ Len(edits) \in Nat /\ Cardinality(marks) \in Nat
      BY RequestParts
    <3>2. m > Len(edits) + Cardinality(marks)
      BY <2>2, Origin DEF Update, Delete
    <3>3. n > Len(edits) + Cardinality(marks)
      BY <2>2, <3>1, <3>2
    <3>4. \E d \in NewRows : Requests[n] = Insert(d)
      BY <3>1, <3>3, Origin
    <3> QED
      BY <3>4 DEF Insert
  <2> QED
    BY <2>1, <2>2 DEF Ordered
<1>5. CASE Send
  <2>1. ASSUME NEW m \in DOMAIN queue', NEW n \in DOMAIN queue', m < n, queue'[m].op = "insert"
        PROVE  queue'[n].op = "insert"
    <3>1. /\ m + 1 \in DOMAIN queue /\ n + 1 \in DOMAIN queue /\ m \in Nat /\ n \in Nat
          /\ queue'[m] = queue[m + 1] /\ queue'[n] = queue[n + 1]
      BY <1>5, SendParts
    <3>2. m + 1 < n + 1
      BY <2>1, <3>1
    <3> QED
      BY <2>1, <3>1, <3>2 DEF Ordered
  <2>2. ASSUME h'.req.op = "insert", NEW n \in DOMAIN queue' PROVE queue'[n].op = "insert"
    <3>1. /\ n + 1 \in DOMAIN queue /\ n \in Nat /\ queue'[n] = queue[n + 1]
          /\ 1 \in DOMAIN queue /\ h'.req = queue[1]
      BY <1>5, SendParts
    <3>2. n \in DOMAIN queue' /\ n # 0
      <4>1. DOMAIN queue' = 1..Len(queue')
        BY CommitTypesStep, SequenceParts DEF CommitTypes
      <4> QED
        BY <4>1
    <3>3. 1 < n + 1
      BY <3>1, <3>2
    <3> QED
      BY <2>2, <3>1, <3>3 DEF Ordered
  <2> QED
    BY <2>1, <2>2 DEF Ordered
<1>6. CASE Handle
  <2>1. at' = at /\ queue' = queue /\ h'.req = h.req
    BY <1>6, HandleRequest, HandleFrame DEF commitVars
  <2> QED
    BY <2>1 DEF Ordered
<1> QED
  BY <1>2, <1>3, <1>4, <1>5, <1>6, Cases

\* What a handler does to the drafts that were promised.
LEMMA HandleDrafts ==
  ASSUME Types, Handling, Drafting, Handle
  PROVE  /\ promised' \subseteq promised
         /\ h'.req.op = "insert" /\ (h'.answer = "ok" \/ h'.ran) => h'.req.row \notin promised'
<1>0. /\ at = "await" /\ h.at \in Early \cup {"ran"} /\ h'.req = h.req
      /\ DOMAIN h = {"at", "req", "answer", "entry", "ran", "touched"}
      /\ h.at \in Early => h.answer = "none" /\ h.ran = FALSE
      /\ h.at = "ran" => (h.answer = "ok" => h.ran)
      /\ h.req.op = "insert" /\ h.ran => h.req.row \notin promised
  BY HandleRequest DEF Handling, Drafting
<1>1. CASE Run
  <2>1. promised' = IF h.req.op = "insert" THEN promised \ {h.req.row} ELSE promised
    BY <1>1 DEF Run, Took
  <2> QED
    BY <1>0, <2>1
<1>2. CASE RecordRun
  <2>1. /\ h.at = "ran" /\ promised' = promised
        /\ h' = [h EXCEPT !.at = "answered", !.entry = Entry(h.answer = "ok"),
                     !.answer = IF h.answer = "ok" THEN "ok" ELSE "error"]
    BY <1>2 DEF RecordRun, Record, NothingRan
  <2> QED
    BY <1>0, <2>1
<1>3. CASE Handle /\ ~Run /\ ~RecordRun
  <2>1. h.at \in Early /\ promised' = promised
    BY <1>3 DEF Handle, Allow, Deny, FindByKey, FindByMatch, CannotFind, LookupFails, CountRows,
                RunFails, Step, Refuse, NothingRan, Early
  <2>2. h'.ran = FALSE /\ h'.answer \in {"none", "error"}
    <3> h.answer = "none" /\ h.ran = FALSE
      BY <1>0, <2>1
    <3>1. CASE Allow \/ FindByKey \/ FindByMatch \/ (CountRows /\ Step("run"))
      BY <1>0, <3>1 DEF Allow, FindByKey, FindByMatch, Step
    <3>2. CASE Deny \/ CannotFind \/ LookupFails \/ (CountRows /\ Record(FALSE)) \/ RunFails
      BY <1>0, <3>2 DEF Deny, CannotFind, LookupFails, Refuse, Record, RunFails
    <3> QED
      BY <1>3, <3>1, <3>2 DEF Handle, CountRows
  <2> QED
    BY <2>1, <2>2
<1> QED
  BY <1>1, <1>2, <1>3

LEMMA DraftingStep ==
  ASSUME Types, Handling, Drafting, [Next]_vars
  PROVE  Drafting'
<1>1. CASE UNCHANGED <<at, kept, queue, h, promised>> /\ drafts \subseteq drafts'
  BY <1>1 DEF Drafting, OnItsWay
<1>2. CASE (Staging /\ ~AddDraft) \/ OtherClients \/ UNCHANGED vars
  <2>1. UNCHANGED <<at, kept, queue, h, promised>>
    BY <1>2, StagingFrame, OtherFrame DEF vars, commitVars
  <2>2. drafts' = drafts
    BY <1>2, OtherFrame DEF Staging, Reload, Turn, LoadArrives, LoadFails, StageEdit, MarkDelete,
       UnmarkDelete, vars, gridVars
  <2> QED
    BY <1>1, <2>1, <2>2
<1>3. CASE AddDraft
  <2>1. UNCHANGED <<at, kept, queue, h, promised>>
    BY <1>3, StagingFrame DEF Staging, commitVars
  <2> QED
    BY <1>1, <1>3, <2>1 DEF AddDraft
<1>4. CASE Discard
  BY <1>4 DEF Discard, Drafting, commitVars
<1>5. CASE Review \/ Cancel
  <2>1. at \in {"idle", "review"} /\ at' \in {"idle", "review"} /\ UNCHANGED <<drafts, promised>>
    BY <1>5 DEF Review, Cancel, gridVars
  <2> QED
    BY <2>1 DEF Drafting
<1>6. CASE Confirm
  <2>1. at' = "send" /\ queue' = Requests /\ promised' = NewRows
    BY <1>6, ConfirmQueue DEF Confirm, NewRows
  <2>2. ASSUME NEW d \in NewRows
        PROVE  \E n \in DOMAIN Requests : Requests[n].op = "insert" /\ Requests[n].row = d
    <3>1. IsFiniteSet(NewRows)
      BY FS_Difference DEF Types, StagedTypes, NewRows
    <3>2. PICK i \in 1..Cardinality(NewRows) : SetToSeq(NewRows)[i] = d
      BY <3>1, Enumeration
    <3>3. Requests[Len(edits) + Cardinality(marks) + i] = Insert(d)
      BY <3>2, RequestParts
    <3>4. Len(edits) + Cardinality(marks) + i \in DOMAIN Requests
      BY RequestParts
    <3> QED
      BY <3>3, <3>4 DEF Insert
  <2> QED
    BY <2>1, <2>2 DEF Drafting, OnItsWay
<1>7. CASE Send
  <2>1. promised' = promised
    BY <1>7 DEF Send
  <2>2. ASSUME NEW d \in promised PROVE OnItsWay(d)'
    <3>1. OnItsWay(d) /\ at = "send"
      BY <1>7, SendParts DEF Drafting
    <3>2. CASE d \in kept
      BY <1>7, <3>2, SendParts DEF OnItsWay
    <3>3. ASSUME NEW n \in DOMAIN queue, queue[n].op = "insert", queue[n].row = d PROVE OnItsWay(d)'
      <4>1. CASE n = 1
        BY <1>7, <3>3, <4>1, SendParts DEF OnItsWay
      <4>2. CASE n # 1
        BY <1>7, <3>3, <4>2, SendParts DEF OnItsWay
      <4> QED
        BY <4>1, <4>2
    <3> QED
      BY <3>1, <3>2, <3>3 DEF OnItsWay
  <2>3. at' = "await" /\ h'.ran = FALSE
    BY <1>7, SendParts
  <2> QED
    BY <2>1, <2>2, <2>3 DEF Drafting
<1>8. CASE Receive
  <2>1. at = "await" /\ h.at = "answered" /\ at' = "send" /\ kept' = Kept /\ queue' = queue /\ promised' = promised
    BY <1>8 DEF Receive
  <2>2. h.answer \in {"ok", "error"}
    BY <2>1 DEF Handling
  <2>3. ASSUME NEW d \in promised PROVE OnItsWay(d)'
    <3>1. OnItsWay(d)
      BY <2>1 DEF Drafting
    <3> QED
      BY <2>1, <2>2, <3>1 DEF OnItsWay, Kept
  <2> QED
    BY <2>1, <2>3 DEF Drafting
<1>9. CASE Finish
  <2>1. at = "send" /\ queue = <<>> /\ at' = "idle" /\ drafts' = kept /\ promised' = promised
    BY <1>9 DEF Finish, Remaining
  <2>2. \A d \in promised : d \in kept
    BY <2>1 DEF Drafting, OnItsWay
  <2> QED
    BY <2>1, <2>2 DEF Drafting
<1>10. CASE Handle
  <2>1. at = "await" /\ at' = "await" /\ UNCHANGED <<kept, queue>> /\ h'.req = h.req
    BY <1>10, HandleRequest, HandleFrame DEF commitVars
  <2>2. /\ promised' \subseteq promised
        /\ h'.req.op = "insert" /\ (h'.answer = "ok" \/ h'.ran) => h'.req.row \notin promised'
    BY <1>10, HandleDrafts
  <2>3. ASSUME NEW d \in promised' PROVE OnItsWay(d)'
    <3>1. OnItsWay(d)
      BY <2>1, <2>2 DEF Drafting
    <3> QED
      BY <2>1, <2>2, <3>1 DEF OnItsWay
  <2> QED
    BY <2>1, <2>2, <2>3 DEF Drafting
<1> QED
  BY <1>2, <1>3, <1>4, <1>5, <1>6, <1>7, <1>8, <1>9, <1>10, Cases
-----------------------------------------------------------------------------
(* The row that was meant.                                                  *)

LEMMA KeysStep ==
  ASSUME Types, KeysUnique(table), [Next]_vars
  PROVE  KeysUnique(table)'
<1> USE DEF KeysUnique
<1>0. keyed' = keyed
  BY Settled
<1>1. CASE UNCHANGED table
  BY <1>0, <1>1
<1>2. CASE Run
  <2>1. CASE UpdateRow
    BY <1>0, <2>1 DEF UpdateRow
  <2>2. CASE DeleteRow
    BY <1>0, <2>2 DEF DeleteRow
  <2>3. CASE InsertRow
    BY <1>0, <2>3 DEF InsertRow
  <2> QED
    BY <1>2, <2>1, <2>2, <2>3 DEF Run
<1>3. CASE Handle /\ ~Run
  <2>1. UNCHANGED table
    BY <1>3 DEF Handle, Allow, Deny, FindByKey, FindByMatch, CannotFind, LookupFails, CountRows,
                RunFails, RecordRun, Step, Refuse, NothingRan
  <2> QED
    BY <1>1, <2>1
<1>4. CASE OtherClients
  BY <1>0, <1>4, OtherFrame
<1>5. CASE Discard \/ Review \/ Cancel \/ Confirm \/ Send \/ Receive \/ Finish
  BY <1>1, <1>5 DEF Discard, Review, Cancel, Confirm, Send, Receive, Finish
<1>6. CASE Staging \/ UNCHANGED vars
  BY <1>1, <1>6, StagingFrame DEF vars
<1> QED
  BY <1>2, <1>3, <1>4, <1>5, <1>6, Cases

LEMMA RenderedStep ==
  ASSUME Types, Rendered, [Next]_vars
  PROVE  Rendered'
<1>1. CASE UNCHANGED <<at, grid, marks>>
  BY <1>1 DEF Rendered
<1>2. CASE Handle \/ OtherClients \/ UNCHANGED vars
  <2>1. UNCHANGED <<at, grid, marks>>
    BY <1>2, HandleFrame, OtherFrame DEF vars, gridVars, commitVars
  <2> QED
    BY <1>1, <2>1
<1>3. CASE Cancel \/ Confirm \/ Send \/ Receive \/ Finish
  BY <1>3 DEF Cancel, Confirm, Send, Receive, Finish, Rendered
<1>4. CASE Review
  BY <1>4 DEF Review, Rendered
<1>5. CASE Turn \/ StageEdit \/ MarkDelete \/ UnmarkDelete \/ AddDraft \/ Discard
  <2>1. at = "idle" /\ at' = at
    BY <1>5, StagingFrame DEF Staging, Turn, StageEdit, MarkDelete, UnmarkDelete, AddDraft, Discard,
       MayStage, commitVars
  <2> QED
    BY <2>1 DEF Rendered
<1>6. CASE Reload \/ LoadFails
  <2>1. at' = at /\ marks' = marks
    BY <1>6, StagingFrame DEF Staging, Reload, LoadFails, commitVars
  <2>2. grid'.alive = grid.alive /\ grid'.shown = grid.shown
    BY <1>6 DEF Reload, LoadFails, Asked, Types, StagedTypes
  <2> QED
    BY <2>1, <2>2 DEF Rendered
<1>7. CASE LoadArrives
  <2>1. at' = at /\ marks' = marks
    BY <1>7, StagingFrame DEF Staging, LoadArrives, commitVars
  <2>2. grid'.alive = (grid.alive /\ Renders(Page)) /\ grid'.shown = Page
    BY <1>7 DEF LoadArrives, Types, StagedTypes
  <2> QED
    BY <2>1, <2>2 DEF Rendered, Renders
<1> QED
  BY <1>2, <1>3, <1>4, <1>5, <1>6, <1>7, Cases DEF Staging

\* A statement that is about to run finds at most the row that was meant.
LEMMA FindsMeant ==
  ASSUME Types, Handling, Meant, calm, apart, at = "await", h.at = "run", h.req.op # "insert"
  PROVE  /\ Finds(h.req) /\ h.req.by = (IF HasKey THEN "key" ELSE "match")
         /\ Found \subseteq {h.req.meant}
<1>1. Unrun
  BY DEF Unrun, Early
<1>2. Finds(h.req) /\ h.req.by = (IF HasKey THEN "key" ELSE "match")
  BY <1>1 DEF Meant, Handling
<1>3. CASE HasKey
  BY <1>2, <1>3 DEF Finds, Found
<1>4. CASE ~HasKey
  <2>1. h.req.meant \in Found
    BY <1>2, <1>4 DEF Finds, Found, Current
  <2>2. IsFiniteSet(Found)
    <3>1. Found \subseteq Ids /\ IsFiniteSet(Ids)
      BY EditsAssumption DEF Found, Types, TableTypes, Parameters
    <3> QED
      BY <3>1, FS_Subset
  <2>3. Cardinality(Found) = 1
    BY <1>1, <1>4 DEF Meant, Guard
  <2>4. PICK x : Found = {x}
    BY <2>2, <2>3, FS_Singleton
  <2> QED
    BY <1>2, <2>1, <2>4
<1> QED
  BY <1>2, <1>3, <1>4

\* A statement that has run leaves the rows of the changes still to come as they were.
LEMMA RunKeeps ==
  ASSUME EditsInv, calm, apart, Run, HasKey' = HasKey, NEW n \in Changes(queue)
  PROVE  Finds(queue[n])'
<1>0. /\ Types /\ at = "await" /\ h.at = "run" /\ n \in DOMAIN queue
      /\ queue[n].op # "insert" /\ queue' = queue
  BY HandleRequest, HandleFrame DEF EditsInv, Run, UpdateRow, DeleteRow, InsertRow, Changes,
     Handle, commitVars
<1>1. Finds(queue[n]) /\ queue[n].by = By
  BY <1>0 DEF EditsInv, Meant, Types, CommitTypes, WellFormed
<1>2. h.req.op # "insert"
  BY <1>0 DEF EditsInv, Ordered
<1>3. /\ Finds(h.req) /\ h.req.by = (IF HasKey THEN "key" ELSE "match")
      /\ Found \subseteq {h.req.meant} /\ h.req.by = By
      /\ h.req.by # "key" => queue[n].meant # h.req.meant
  BY <1>0, <1>2, FindsMeant DEF EditsInv, Meant, Unrun, Early, Types, CommitTypes, WellFormed
<1>4. ASSUME NEW i \in DOMAIN table, i \notin Found, i \in DOMAIN table' PROVE table'[i] = table[i]
  <2>1. CASE UpdateRow
    BY <1>4, <2>1 DEF UpdateRow, Changed
  <2>2. CASE DeleteRow
    BY <1>4, <2>2 DEF DeleteRow
  <2> QED
    BY <1>2, <2>1, <2>2 DEF Run, InsertRow
<1>5. CASE HasKey
  <2>1. DOMAIN table' \subseteq DOMAIN table
    BY <1>2 DEF Run, UpdateRow, DeleteRow, InsertRow, Changed
  <2>2. ASSUME NEW i \in DOMAIN table' PROVE table'[i].key = table[i].key
    <3>1. CASE UpdateRow
      <4>1. table' = Changed /\ h.req.op = "update" /\ h.req.col = "val" /\ i \in DOMAIN table
        BY <1>0, <1>3, <1>5, <2>1, <3>1 DEF UpdateRow, Finds, Types, CommitTypes, WellFormed
      <4>2. table[i] \in [key : Nat, val : Nat]
        BY <1>0, <4>1 DEF Types, TableTypes
      <4>3. table'[i] = table[i] \/ table'[i] = [table[i] EXCEPT !["val"] = h.req.new]
        BY <4>1 DEF Changed
      <4> QED
        BY <4>2, <4>3
    <3>2. CASE DeleteRow
      BY <2>2, <3>2 DEF DeleteRow
    <3> QED
      BY <1>2, <3>1, <3>2 DEF Run, InsertRow
  <2> QED
    BY <1>0, <1>1, <1>3, <1>5, <2>1, <2>2 DEF Finds
<1>6. CASE ~HasKey
  <2>1. queue[n].meant \in DOMAIN table /\ queue[n].meant \notin Found /\ queue[n].row = Contents(queue[n].meant)
    BY <1>1, <1>3, <1>6 DEF Finds, Current
  <2>2. queue[n].meant \in DOMAIN table'
    BY <1>2, <2>1 DEF Run, UpdateRow, DeleteRow, InsertRow, Changed
  <2>3. table'[queue[n].meant] = table[queue[n].meant]
    BY <1>4, <2>1, <2>2
  <2> QED
    BY <1>0, <1>1, <1>3, <1>6, <2>1, <2>2, <2>3 DEF Finds, Current, Contents
<1> QED
  BY <1>5, <1>6

\* A handler's step that changes no row.
LEMMA QuietHandle ==
  ASSUME Types, Handling, Handle, ~Run
  PROVE  /\ table' = table /\ h'.touched = h.touched
         /\ h'.at \in Early => h.at \in Early
         /\ h'.at = "run" /\ ~HasKey /\ h.req.op # "insert" => Guard
<1>1. table' = table
  BY DEF Handle, Allow, Deny, FindByKey, FindByMatch, CannotFind, LookupFails, CountRows,
         RunFails, RecordRun, Step, Refuse, NothingRan
<1>0. DOMAIN h = {"at", "req", "answer", "entry", "ran", "touched"} /\ at = "await"
  BY HandleRequest
<1>2. CASE Allow \/ FindByKey \/ FindByMatch
  BY <1>0, <1>1, <1>2 DEF Allow, FindByKey, FindByMatch, Step, Early
<1>3. CASE CountRows
  <2>1. CASE Guard /\ Step("run")
    BY <1>0, <1>1, <1>3, <2>1 DEF CountRows, Step, Early
  <2>2. CASE Record(FALSE)
    BY <1>0, <1>1, <2>2 DEF Record, Early
  <2> QED
    BY <1>3, <2>1, <2>2 DEF CountRows
<1>4. CASE Deny \/ CannotFind \/ LookupFails \/ RunFails \/ RecordRun
  BY <1>0, <1>1, <1>4 DEF Deny, CannotFind, LookupFails, Refuse, RunFails, RecordRun, Record, Early
<1> QED
  BY <1>2, <1>3, <1>4 DEF Handle
\* The changes that are confirmed find the rows that were meant.
LEMMA ConfirmMeant ==
  ASSUME EditsInv, Confirm, HasKey' = HasKey, calm', apart'
  PROVE  (Apart(queue) /\ \A n \in Changes(queue) : Finds(queue[n]))'
<1> PICK q : q = Requests
  OBVIOUS
<1>1. queue' = q /\ q = Requests /\ table' = table /\ Calm /\ Apart(q) /\ at = "review" /\ grid.alive
  BY ConfirmQueue DEF Confirm
<1>2. ASSUME NEW n \in Changes(q) PROVE Finds(q[n])'
  <2>1. n \in DOMAIN q /\ q[n].op # "insert"
    BY DEF Changes
  <2>2. Current(q[n].meant, q[n].row)
    <3>1. ASSUME NEW e \in DOMAIN edits, q[n] = Update(edits[e])
          PROVE  Current(q[n].meant, q[n].row)
      BY <1>1, <3>1 DEF Calm, Update
    <3>2. ASSUME NEW m \in marks, q[n] = Delete(m)
          PROVE  Current(q[n].meant, q[n].row)
      <4>1. m.at \in DOMAIN grid.shown
        BY <1>1 DEF EditsInv, Rendered
      <4> QED
        BY <1>1, <3>2, <4>1 DEF Calm, Delete
    <3>3. ~\E d \in NewRows : q[n] = Insert(d)
      BY <2>1 DEF Insert
    <3> QED
      BY <2>1, <3>1, <3>2, <3>3, <1>1, Origin DEF EditsInv
  <2>3. CASE q[n].by = "key"
    <3>1. q[n].col # "key"
      BY <1>1, <2>3 DEF Apart
    <3>2. ASSUME HasKey, NEW i \in DOMAIN table, table[i].key = q[n].row.key
          PROVE  i = q[n].meant
      <4>1. KeysUnique(table) /\ keyed
        BY <3>2 DEF EditsInv, HasKey
      <4>2. q[n].meant \in DOMAIN table /\ q[n].row.key = table[q[n].meant].key
        BY <2>2 DEF Current, Contents
      <4> QED
        BY <3>2, <4>1, <4>2 DEF KeysUnique
    <3> QED
      BY <1>1, <2>3, <3>1, <3>2 DEF Finds
  <2>4. CASE q[n].by # "key"
    <3>1. Current(q[n].meant, q[n].row)'
      BY <1>1, <2>2 DEF Current, Contents
    <3> QED
      BY <2>4, <3>1 DEF Finds
  <2> QED
    BY <2>3, <2>4
<1> QED
  BY <1>1, <1>2 DEF Apart, Changes
LEMMA MeantStep ==
  ASSUME EditsInv, [Next]_vars
  PROVE  Meant'
<1>0. Types /\ Handling /\ Meant /\ HasKey' = HasKey /\ Types'
  BY SettledWay, TypesStep DEF EditsInv
<1>1. CASE UNCHANGED <<table, queue, at, h, calm, apart>>
  BY <1>0, <1>1 DEF Meant, Unrun, Finds, Current, Contents, Guard, Found, Changes, Apart
<1>2. CASE Staging \/ Discard \/ UNCHANGED vars
  <2>1. UNCHANGED <<table, queue, at, h, calm, apart>>
    BY <1>2, StagingFrame DEF Discard, vars, commitVars
  <2> QED
    BY <1>1, <2>1
<1>3. CASE OtherClients \/ Finish
  BY <1>3, OtherFrame DEF Finish, Meant
<1>4. CASE Review \/ Cancel \/ Receive
  <2>1. UNCHANGED <<table, queue, calm, apart>> /\ at' # "await"
    BY <1>0, <1>4 DEF Review, Cancel, Receive, Types, CommitTypes
  <2> QED
    BY <1>0, <2>1 DEF Meant, Unrun, Finds, Current, Contents, Changes, Apart
<1>5. CASE Confirm
  <2>1. at' = "send"
    BY <1>5 DEF Confirm
  <2> QED
    BY <1>0, <1>5, <2>1, ConfirmMeant DEF Meant, Unrun
<1>6. CASE Send
  <2> SUFFICES ASSUME calm', apart' PROVE Meant'
    BY DEF Meant
  <2>1. UNCHANGED <<table, calm, apart>>
    BY <1>6 DEF Send
  <2>2. Apart(queue) /\ \A n \in Changes(queue) : Finds(queue[n])
    BY <1>0, <2>1 DEF Meant
  <2>3. /\ at' = "await" /\ h'.at = "policy" /\ h'.req = queue[1] /\ h'.touched = {}
        /\ 1 \in DOMAIN queue
    BY <1>0, <1>6, SendParts
  <2>4. ASSUME NEW n \in Changes(queue') PROVE /\ n \in Nat \ {0} /\ n + 1 \in Changes(queue)
                                              /\ queue'[n] = queue[n + 1]
    <3>1. n \in DOMAIN queue' /\ queue'[n].op # "insert"
      BY DEF Changes
    <3>2. n \in Nat /\ n + 1 \in DOMAIN queue /\ queue'[n] = queue[n + 1]
      BY <1>0, <1>6, <3>1, SendParts
    <3>3. n # 0
      <4>1. DOMAIN queue' = 1..Len(queue')
        BY <1>0, SequenceParts DEF Types, CommitTypes
      <4> QED
        BY <3>1, <4>1
    <3> QED
      BY <3>1, <3>2, <3>3 DEF Changes
  <2>6. Apart(queue)'
    <3>1. ASSUME NEW n \in Changes(queue')
          PROVE  IF queue'[n].by = "key" THEN queue'[n].col # "key"
                 ELSE \A m \in Changes(queue') : queue'[m].meant = queue'[n].meant => m = n
      <4>1. CASE queue'[n].by = "key"
        BY <2>2, <2>4, <4>1 DEF Apart
      <4>2. ASSUME queue'[n].by # "key", NEW m \in Changes(queue'), queue'[m].meant = queue'[n].meant
            PROVE  m = n
        <5>1. m + 1 = n + 1
          BY <2>2, <2>4, <4>2 DEF Apart
        <5> QED
          BY <2>4, <5>1
      <4> QED
        BY <4>1, <4>2
    <3> QED
      BY <3>1 DEF Apart, Changes
  <2>7. (\A n \in Changes(queue) : Finds(queue[n]))'
    <3> PICK q : q = queue'
      OBVIOUS
    <3>1. ASSUME NEW n \in Changes(q) PROVE Finds(q[n])'
      <4>1. q[n] = queue[n + 1] /\ Finds(queue[n + 1])
        BY <2>2, <2>4
      <4>2. Finds(q[n])
        BY <4>1
      <4> QED
        BY <1>0, <2>1, <4>2 DEF Finds, Current, Contents
    <3> QED
      BY <3>1 DEF Changes
  <2>8. ASSUME h'.req.op # "insert"
        PROVE  /\ Finds(h.req)'
               /\ h'.req.by # "key" => \A n \in Changes(queue') : queue'[n].meant # h'.req.meant
    <3>1. 1 \in Changes(queue)
      BY <2>3, <2>8 DEF Changes
    <3>2. Finds(h.req)'
      BY <1>0, <2>1, <2>2, <2>3, <3>1 DEF Finds, Current, Contents
    <3>3. ASSUME h'.req.by # "key", NEW n \in Changes(queue'), queue'[n].meant = h'.req.meant PROVE FALSE
      <4>1. n + 1 = 1
        BY <2>2, <2>3, <2>4, <3>1, <3>3 DEF Apart
      <4> QED
        BY <2>4, <4>1
    <3> QED
      BY <3>2, <3>3
  <2> QED
    BY <2>3, <2>6, <2>7, <2>8 DEF Meant, Unrun, Changes
<1>7. CASE Handle
  <2> SUFFICES ASSUME calm', apart' PROVE Meant'
    BY DEF Meant
  <2>1. /\ UNCHANGED <<queue, calm, apart>> /\ h'.req = h.req /\ at = "await" /\ at' = "await"
        /\ DOMAIN h = {"at", "req", "answer", "entry", "ran", "touched"}
    BY <1>0, <1>7, HandleFrame, HandleRequest DEF commitVars
  <2>2. /\ Apart(queue) /\ \A n \in Changes(queue) : Finds(queue[n])
        /\ h.touched \subseteq {h.req.meant}
    BY <1>0, <2>1 DEF Meant
  <2>3. Apart(queue)'
    BY <2>1, <2>2 DEF Apart, Changes
  <2>4. CASE Run
    <3>1. h.at = "run" /\ h'.at = "ran" /\ h'.touched = IF h.req.op = "insert" THEN {} ELSE Found
      BY <2>1, <2>4 DEF Run, Took, UpdateRow, DeleteRow, InsertRow
    <3>2. h'.touched \subseteq {h'.req.meant}
      BY <1>0, <2>1, <3>1, FindsMeant
    <3>3. (\A n \in Changes(queue) : Finds(queue[n]))'
      <4>1. \A n \in Changes(queue) : Finds(queue[n])'
        BY <1>0, <2>1, <2>4, RunKeeps
      <4> QED
        BY <2>1, <4>1 DEF Changes
    <3>4. ~Unrun'
      BY <3>1 DEF Unrun, Early
    <3> QED
      BY <2>3, <3>2, <3>3, <3>4 DEF Meant
  <2>5. CASE ~Run
    <3>1. /\ table' = table /\ h'.touched = h.touched /\ (h'.at \in Early => h.at \in Early)
          /\ h'.at = "run" /\ ~HasKey /\ h.req.op # "insert" => Guard
      BY <1>0, <1>7, <2>5, QuietHandle
    <3>2. (\A n \in Changes(queue) : Finds(queue[n]))'
      BY <1>0, <2>1, <2>2, <3>1 DEF Changes, Finds, Current, Contents
    <3>3. Unrun' => Unrun
      BY <2>1, <3>1 DEF Unrun
    <3>4. Unrun => Finds(h.req) /\ (h.req.by # "key" => \A n \in Changes(queue) : queue[n].meant # h.req.meant)
      BY <1>0, <2>1 DEF Meant
    <3>5. Unrun' => Finds(h.req)'
      BY <1>0, <2>1, <3>1, <3>3, <3>4 DEF Finds, Current, Contents
    <3>6. Unrun' => (h.req.by # "key" => \A n \in Changes(queue) : queue[n].meant # h.req.meant)'
      BY <2>1, <3>3, <3>4 DEF Changes
    <3>7. Unrun' => (h.at = "run" /\ ~HasKey => Guard)'
      BY <1>0, <2>1, <3>1 DEF Unrun, Guard, Found, Contents
    <3>8. (at = "await" => h.touched \subseteq {h.req.meant})'
      BY <2>1, <2>2, <3>1
    <3> QED
      BY <2>3, <3>2, <3>5, <3>6, <3>7, <3>8 DEF Meant
  <2> QED
    BY <2>4, <2>5
<1> QED
  BY <1>2, <1>3, <1>4, <1>5, <1>6, <1>7, Cases

-----------------------------------------------------------------------------
(* The theorems.                                                            *)

\* EditsInv holds in every state: what is staged and on its way is well formed, and
\* names the rows it was meant for.
THEOREM EditsInvariance == Spec => []EditsInv
<1>1. Init => EditsInv
  <2> SUFFICES ASSUME Init PROVE EditsInv
    OBVIOUS
  <2>1. at = "idle" /\ queue = <<>> /\ promised = {} /\ calm = FALSE /\ KeysUnique(table)
    BY DEF Init
  <2>2. Handling /\ Drafting /\ Ordered /\ Rendered /\ Meant
    BY <2>1 DEF Handling, Drafting, Ordered, Rendered, Meant
  <2> QED
    BY <2>1, <2>2, TypesInit DEF EditsInv
<1>2. EditsInv /\ [Next]_vars => EditsInv'
  BY TypesStep, HandlingStep, DraftingStep, OrderedStep, KeysStep, RenderedStep, MeantStep DEF EditsInv
<1> QED
  BY <1>1, <1>2, PTL DEF Spec

\* A statement of a commit touches the one row the user meant, as long as the page was
\* the table, no change alters what another is found by, and nobody else writes.
THEOREM MeantSafety == Spec => []OnlyThatRow
<1>1. EditsInv => OnlyThatRow
  BY DEF EditsInv, Types, CommitTypes, Meant, OnlyThatRow, NoRequest
<1> QED
  BY <1>1, EditsInvariance, PTL

\* A confirmed draft is in the table or still a draft when the commit is over.
THEOREM DraftSafety == Spec => []DraftsKept
<1>1. EditsInv => DraftsKept
  BY DEF EditsInv, Drafting, DraftsKept
<1> QED
  BY <1>1, EditsInvariance, PTL

\* What is recorded of a row's statement is what became of it.
THEOREM RecordSafety == Spec => []Recorded
<1>1. EditsInv => Recorded
  BY DEF EditsInv, Types, CommitTypes, Handling, Recorded, NoRequest
<1> QED
  BY <1>1, EditsInvariance, PTL

-----------------------------------------------------------------------------
(***************************************************************************)
(* Browsing: the grid shows what is asked for now.                         *)
(***************************************************************************)
\* A load whose answer is still to be dealt with.
Open == {"reading", "answered", "arrived", "refused"}

\* What may be said of the last load when options o are chosen and the grid shows l, e, d:
\* it asks for o, nothing has gone wrong since it was asked, and it alone is shown.
LastIs(load, o, l, e, d) ==
  /\ "stage" \in DOMAIN load /\ load.stage \in Open \cup {"shown", "dropped"}
  /\ load.stage \in Open => "opts" \in DOMAIN load /\ load.opts = o /\ ~e
  /\ load.stage = "shown" => ~l /\ ~e /\ d # <<>> /\ d[1].opts = o
PagesInv ==
  /\ IsSequence(loads) /\ loads # <<>>
  /\ LastIs(loads[Len(loads)], opts, loading, error, data)

\* An element of a sequence is replaced.
LEMMA Replaced ==
  ASSUME NEW s, IsSequence(s), NEW i, NEW x
  PROVE  LET t == [s EXCEPT ![i] = x]
         IN  /\ IsSequence(t) /\ Len(t) = Len(s)
             /\ \A n \in DOMAIN s : t[n] = IF n = i THEN x ELSE s[n]
<1> DEFINE t == [s EXCEPT ![i] = x]
           S == {s[n] : n \in DOMAIN s} \cup {x}
<1>1. Len(s) \in Nat /\ DOMAIN s = 1..Len(s) /\ s = [n \in 1..Len(s) |-> s[n]]
  BY SequenceParts
<1>2. /\ t = [n \in 1..Len(s) |-> IF n = i THEN x ELSE s[n]]
      /\ t \in [1..Len(s) -> S]
  BY <1>1
<1>3. \A n \in DOMAIN s : t[n] = IF n = i THEN x ELSE s[n]
  BY <1>1
<1> HIDE DEF t, S
<1>4. t \in Seq(S) /\ Len(t) = Len(s)
  BY <1>1, <1>2
<1>5. IsSequence(t)
  BY <1>4, SequenceOf
<1> QED
  BY <1>3, <1>4, <1>5 DEF t

\* An element is added.
LEMMA Added ==
  ASSUME NEW s, IsSequence(s), NEW x
  PROVE  IsSequence(Append(s, x)) /\ Len(Append(s, x)) = Len(s) + 1
         /\ Append(s, x)[Len(s) + 1] = x /\ Append(s, x) # <<>>
<1> DEFINE S == {s[n] : n \in DOMAIN s} \cup {x}
<1>1. s \in [1..Len(s) -> S] /\ Len(s) \in Nat
  BY SequenceParts
<1> HIDE DEF S
<1>2. s \in Seq(S) /\ x \in S
  <2>1. s \in Seq(S)
    BY <1>1
  <2> QED
    BY <2>1 DEF S
<1>3. Append(s, x) \in Seq(S)
  BY <1>2
<1>4. IsSequence(Append(s, x))
  BY <1>3, SequenceOf
<1> QED
  BY <1>2, <1>4

\* One load is changed: it is the last, and still what it should be, or another, and then
\* what is shown stays.
LEMMA LoadChanged ==
  ASSUME PagesInv, NEW i \in DOMAIN loads, NEW x, loads' = [loads EXCEPT ![i] = x], opts' = opts,
         IF i = Len(loads) THEN LastIs(x, opts, loading', error', data')
                           ELSE UNCHANGED <<loading, error, data>>
  PROVE  PagesInv'
<1>1. Len(loads) \in Nat /\ DOMAIN loads = 1..Len(loads) /\ Len(loads) # 0
  BY SequenceParts DEF PagesInv, IsSequence
<1>2. /\ IsSequence(loads') /\ Len(loads') = Len(loads)
      /\ \A n \in DOMAIN loads : loads'[n] = IF n = i THEN x ELSE loads[n]
  BY Replaced DEF PagesInv
<1>3. loads' # <<>>
  BY <1>1, <1>2
<1>4. LastIs(loads'[Len(loads)], opts, loading', error', data')
  BY <1>1, <1>2 DEF PagesInv
<1> QED
  BY <1>2, <1>3, <1>4 DEF PagesInv

\* What becomes of a request keeps it a request for the same options.
Same(x, load) ==
  {"stage", "opts"} \subseteq DOMAIN load =>
    {"stage", "opts"} \subseteq DOMAIN x /\ x.stage \in Open /\ x.opts = load.opts

\* The request goes on: a statement is answered, or one fails.
LEMMA LoadGoesOn ==
  ASSUME PagesInv, NEW i \in DOMAIN loads,
         \/ ReadRows(i) \/ CountMatches(i) \/ ReadEstimate(i) \/ NoTotal(i) \/ RefuseLoad(i)
         \/ Arrive(i)
  PROVE  PagesInv'
<1> PICK old : old = loads[i]
  OBVIOUS
<1>0. UNCHANGED <<opts, loading, error, data>> /\ old.stage \in Open
  BY DEF ReadRows, CountMatches, ReadEstimate, NoTotal, RefuseLoad, Arrive, Read, Open
<1>1. ASSUME NEW x, loads' = [loads EXCEPT ![i] = x], Same(x, old)
      PROVE  PagesInv'
  <2>1. i = Len(loads) => LastIs(x, opts, loading, error, data)
    BY <1>0, <1>1 DEF PagesInv, LastIs, Same, Open
  <2> QED
    BY <1>0, <1>1, <2>1, LoadChanged
<1>2. old.stage = "reading" => Same(Answer(old), old)
  BY DEF Same, Answer, Open
<1>3. \A y, z : Same(y, old) =>
        /\ Same([y EXCEPT !.rows = z], old) /\ Same([y EXCEPT !.total = z], old)
        /\ Same([y EXCEPT !.of = z], old)
  BY DEF Same
<1>4. CASE ReadRows(i)
  <2>1. PICK rows : loads' = [loads EXCEPT ![i] =
                                [Answer(old) EXCEPT !.rows = rows, !.of.rows = stored]]
    BY <1>4 DEF ReadRows
  <2> PICK y, z : /\ y = Answer(old)
                  /\ z = [[y EXCEPT !.rows = rows].of EXCEPT !.rows = stored]
    OBVIOUS
  <2>2. loads' = [loads EXCEPT ![i] = [[y EXCEPT !.rows = rows] EXCEPT !.of = z]]
    BY <2>1
  <2>3. Same([[y EXCEPT !.rows = rows] EXCEPT !.of = z], old)
    BY <1>2, <1>3, <1>4 DEF ReadRows, Read
  <2> QED
    BY <1>1, <2>2, <2>3
<1>5. CASE CountMatches(i)
  <2>1. PICK n : loads' = [loads EXCEPT ![i] =
                             [Answer(old) EXCEPT !.total = n, !.of.total = <<stored>>]]
    BY <1>5 DEF CountMatches
  <2> PICK y, z : /\ y = Answer(old)
                  /\ z = [[y EXCEPT !.total = n].of EXCEPT !.total = <<stored>>]
    OBVIOUS
  <2>2. loads' = [loads EXCEPT ![i] = [[y EXCEPT !.total = n] EXCEPT !.of = z]]
    BY <2>1
  <2>3. Same([[y EXCEPT !.total = n] EXCEPT !.of = z], old)
    BY <1>2, <1>3, <1>5 DEF CountMatches, Read
  <2> QED
    BY <1>1, <2>2, <2>3
<1>6. CASE ReadEstimate(i) \/ NoTotal(i)
  <2>1. PICK n : loads' = [loads EXCEPT ![i] = [Answer(old) EXCEPT !.total = n]]
    BY <1>6 DEF ReadEstimate, NoTotal
  <2>2. Same([Answer(old) EXCEPT !.total = n], old)
    BY <1>2, <1>3, <1>6 DEF ReadEstimate, NoTotal, Read
  <2> QED
    BY <1>1, <2>1, <2>2
<1>7. CASE RefuseLoad(i) \/ Arrive(i)
  <2>1. PICK s \in Open : loads' = [loads EXCEPT ![i] = [old EXCEPT !.stage = s]]
    BY <1>7 DEF RefuseLoad, Arrive, Open
  <2>2. Same([old EXCEPT !.stage = s], old)
    BY DEF Same
  <2> QED
    BY <1>1, <2>1, <2>2
<1> QED
  BY <1>4, <1>5, <1>6, <1>7

\* The request ends: its answer is shown, or nothing is.
LEMMA LoadEnds == ASSUME PagesInv, NEW i \in DOMAIN loads, Settle(i) PROVE PagesInv'
<1>1. /\ loads' = [loads EXCEPT ![i] = Over(loads[i])] /\ opts' = opts
      /\ loads[i].stage \in {"arrived", "refused"}
  BY DEF Settle
<1>2. CASE i # Len(loads)
  <2>1. UNCHANGED <<loading, error, data>>
    BY <1>2 DEF Settle, Superseded
  <2> QED
    BY <1>1, <1>2, <2>1, LoadChanged
<1>3. CASE i = Len(loads)
  <2>1. loads[i].opts = opts /\ ~error
    BY <1>1, <1>3 DEF PagesInv, LastIs, Open
  <2>2. loads[i].stage = "arrived" =>
          loading' = FALSE /\ error' = error /\ data' # <<>> /\ data'[1].opts = opts
    BY <1>3, <2>1 DEF Settle, Superseded
  <2>3. LastIs(Over(loads[i]), opts, loading', error', data')
    BY <1>1, <2>1, <2>2 DEF LastIs, Over, Open
  <2> QED
    BY <1>1, <1>3, <2>3, LoadChanged
<1> QED
  BY <1>2, <1>3

\* A load that is stopped will not be shown.
LEMMA LoadStopped == ASSUME PagesInv, CancelLoad PROVE PagesInv'
<1> PICK old : old = loads[Len(loads)]
  OBVIOUS
<1>1. /\ loads' = [loads EXCEPT ![Len(loads)] = Abort(old)]
      /\ UNCHANGED <<opts, loading, error, data>>
  BY DEF CancelLoad
<1>2. Len(loads) \in DOMAIN loads
  BY SequenceParts DEF PagesInv, IsSequence
<1>3. LastIs(Abort(old), opts, loading, error, data)
  BY DEF PagesInv, LastIs, Abort, Open
<1> QED
  BY <1>1, <1>2, <1>3, LoadChanged

\* A new load asks for what is chosen with it.
LEMMA LoadAsked == ASSUME PagesInv, NEW o, ReloadPage(o) PROVE PagesInv'
<1>1. PICK s : s = [loads EXCEPT ![Len(loads)] = Supersede(@)]
  OBVIOUS
<1>2. IsSequence(s)
  BY <1>1, Replaced DEF PagesInv
<1>3. loads' = Append(s, NewLoad(o)) /\ opts' = o /\ error' = FALSE
  BY <1>1 DEF ReloadPage
<1>4. IsSequence(loads') /\ loads' # <<>> /\ loads'[Len(loads')] = NewLoad(o)
  BY <1>2, <1>3, Added
<1>5. LastIs(NewLoad(o), o, loading', FALSE, data')
  BY DEF LastIs, NewLoad, Open
<1> QED
  BY <1>3, <1>4, <1>5 DEF PagesInv

\* Every step keeps the last load and what is shown together.
LEMMA PagesStep == PagesInv /\ [PagesNext]_pageVars => PagesInv'
<1> SUFFICES ASSUME PagesInv, [PagesNext]_pageVars PROVE PagesInv'
  OBVIOUS
<1>1. CASE \E i \in DOMAIN loads :
             \/ ReadRows(i) \/ CountMatches(i) \/ ReadEstimate(i) \/ NoTotal(i) \/ RefuseLoad(i)
             \/ Arrive(i) \/ Settle(i)
  BY <1>1, LoadGoesOn, LoadEnds
<1>2. CASE \/ \E n \in Limits : SetLimit(n)
           \/ \E n \in 1..TotalPages : GoTo(n)
           \/ \E filters \in FilterLists : Filter(filters)
           \/ \E column \in Columns : Sort(column)
           \/ Previous \/ NextPage \/ Refresh
  <2>1. \E o : ReloadPage(o)
    BY <1>2 DEF SetLimit, GoTo, Filter, Sort, Previous, NextPage, Refresh
  <2> QED
    BY <2>1, LoadAsked
<1>3. CASE CancelLoad
  BY <1>3, LoadStopped
<1>4. CASE OtherWrites \/ UNCHANGED pageVars
  BY <1>4 DEF OtherWrites, pageVars, PagesInv
<1> QED
  BY <1>1, <1>2, <1>3, <1>4 DEF PagesNext

\* A grid opens with its first load.
LEMMA PagesStart == PagesInit => PagesInv
<1> SUFFICES ASSUME PagesInit PROVE PagesInv
  OBVIOUS
<1>1. loads = <<NewLoad(opts)>> /\ error = FALSE
  BY DEF PagesInit
<1>2. IsSequence(loads) /\ loads # <<>> /\ loads[Len(loads)] = NewLoad(opts)
  <2> PICK x : x = NewLoad(opts)
    OBVIOUS
  <2>1. <<x>> \in Seq({x}) /\ <<x>> # <<>> /\ <<x>>[Len(<<x>>)] = x
    OBVIOUS
  <2> QED
    BY <1>1, <2>1, SequenceOf
<1>3. LastIs(NewLoad(opts), opts, loading, FALSE, data)
  BY DEF LastIs, NewLoad, Open
<1> QED
  BY <1>1, <1>2, <1>3 DEF PagesInv

\* When the last load of the grid was answered, the grid shows that answer, to what is chosen
\* now, whatever was asked before and in whatever order the answers came.
THEOREM AskedSafety == PagesSpec => []ShownIsAsked
<1>1. PagesInv => ShownIsAsked
  BY DEF PagesInv, LastIs, ShownIsAsked, CurrentLoad, Last
<1> QED
  BY <1>1, PagesStart, PagesStep, PTL DEF PagesSpec
-----------------------------------------------------------------------------
(***************************************************************************)
(* The pages are right. A clause is a fold over the filters: there is a     *)
(* function of the clauses of the first k filters, and what is true of the  *)
(* clause of k + 1 when it is of that of k is true of all, since the first  *)
(* k for which it is not would be no first. So the statement of each engine *)
(* reads that page of what the filters mean; a load keeps what it read.     *)
(***************************************************************************)

(* Numbers, and functions defined by a fold.                               *)

\* Every set of numbers has a least one.
LEMMA LeastNat ==
  ASSUME NEW T \in SUBSET Nat, T # {}
  PROVE  \E x \in T : \A y \in T : x <= y
<1> DEFINE less == OpToRel(<, Nat)
<1>1. IsWellFoundedOn(less, Nat)
  BY NatLessThanWellFounded
<1>2. \A x, y \in T : y < x => <<y, x>> \in less
  BY Z3 DEF OpToRel
<1> HIDE DEF less
<1>3. PICK x \in T : \A y \in T : ~(<<y, x>> \in less)
  BY <1>1, WFMin, Zenon
<1>4. \A y \in T : ~(y < x)
  BY <1>2, <1>3, Zenon
<1>5. x \in Nat /\ \A y \in T : y \in Nat
  OBVIOUS
<1> QED
  BY <1>4, <1>5

\* Induction up to n, for a set of numbers: the numbers with a property.
LEMMA UpTo ==
  ASSUME NEW n \in Nat, NEW G, 0 \in G, \A k \in 0..n : k < n /\ k \in G => k + 1 \in G
  PROVE  \A k \in 0..n : k \in G
<1> SUFFICES ASSUME NEW b \in 0..n, b \notin G PROVE FALSE
  OBVIOUS
<1> DEFINE T == {k \in 0..n : k \notin G}
<1>1. T \in SUBSET Nat /\ T # {}
  OBVIOUS
<1>2. PICK x \in T : \A y \in T : x <= y
  BY <1>1, LeastNat
<1>3. x \in Nat /\ x # 0 /\ x - 1 \in 0..n /\ x - 1 < n /\ x <= n
  BY <1>2
<1>4. x - 1 \in G
  BY <1>2, <1>3
<1> QED
  BY <1>2, <1>3, <1>4

\* The greatest of some numbers up to n.
LEMMA Greatest ==
  ASSUME NEW n \in Nat, NEW S \in SUBSET (1..n), S # {}
  PROVE  Max(S) \in S /\ \A y \in S : Max(S) >= y
<1> DEFINE T == {k \in 0..n : n - k \in S}
<1>1. PICK z : z \in S
  OBVIOUS
<1>2. n - z \in T /\ T \in SUBSET Nat
  BY <1>1
<1>3. PICK k \in T : \A j \in T : k <= j
  BY <1>2, LeastNat
<1>4. n - k \in S /\ k \in 0..n
  BY <1>3
<1>5. \A y \in S : n - k >= y
  <2> SUFFICES ASSUME NEW y \in S PROVE n - k >= y
    OBVIOUS
  <2>1. y \in 1..n
    OBVIOUS
  <2>2. n - y \in T
    BY <2>1
  <2>3. k <= n - y
    BY <1>3, <2>2
  <2> QED
    BY <1>4, <2>1, <2>3
<1>6. \E x \in S : \A y \in S : x >= y
  BY <1>4, <1>5
<1> QED
  BY <1>6 DEF Max

\* A fold: the table of its values on sets of positions exists.
LEMMA FilledFold ==
  ASSUME NEW s, NEW n \in Nat
  PROVE  \E it : it = [S \in SUBSET (1..n) |->
                         IF S = {} THEN <<>>
                         ELSE LET x == Max(S)
                              IN IF s[x] = <<>> THEN it[S \ {x}]
                                       ELSE Append(it[S \ {x}], s[x])]
<1> DEFINE More(out, p) == IF p = <<>> THEN out ELSE Append(out, p)
           Fold(it, k) == it = [S \in SUBSET (1..k) |->
                                  IF S = {} THEN <<>> ELSE More(it[S \ {Max(S)}], s[Max(S)])]
           G == {k \in 0..n : \E it : Fold(it, k)}
<1> HIDE DEF More
<1>1. 0 \in G
  <2>1. \A S \in SUBSET (1..0) : S = {}
    OBVIOUS
  <2>2. Fold([S \in SUBSET (1..0) |-> <<>>], 0)
    BY <2>1
  <2> QED
    BY <2>2
<1>2. ASSUME NEW k \in 0..n, k < n, k \in G
      PROVE  k + 1 \in G
  <2>1. PICK it : Fold(it, k)
    BY <1>2
  <2> DEFINE up == [S \in SUBSET (1..(k + 1)) |->
                      IF S = {} THEN <<>> ELSE More(it[S \ {Max(S)}], s[Max(S)])]
  <2>2. ASSUME NEW S \in SUBSET (1..(k + 1)), S # {}
        PROVE  S \ {Max(S)} \in SUBSET (1..k)
    <3>1. k \in Nat /\ k + 1 \in Nat
      OBVIOUS
    <3>2. Max(S) \in S /\ \A y \in S : Max(S) >= y
      BY <2>2, <3>1, Greatest
    <3>3. ASSUME NEW y \in S, y # Max(S) PROVE y \in 1..k
      <4>1. y \in 1..(k + 1) /\ Max(S) \in 1..(k + 1) /\ Max(S) >= y
        BY <3>2
      <4> QED
        BY <3>1, <3>3, <4>1
    <3> QED
      BY <3>3
  <2>3. \A S \in SUBSET (1..k) : S \in SUBSET (1..(k + 1)) /\ up[S] = it[S]
    <3> SUFFICES ASSUME NEW S \in SUBSET (1..k)
                 PROVE  S \in SUBSET (1..(k + 1)) /\ up[S] = it[S]
      OBVIOUS
    <3>1. S \in SUBSET (1..(k + 1))
      OBVIOUS
    <3>2. it[S] = IF S = {} THEN <<>> ELSE More(it[S \ {Max(S)}], s[Max(S)])
      BY <2>1
    <3> QED
      BY <3>1, <3>2
  <2>4. Fold(up, k + 1)
    <3>1. \A S \in SUBSET (1..(k + 1)) : S # {} =>
             up[S \ {Max(S)}] = it[S \ {Max(S)}]
      BY <2>2, <2>3
    <3> QED
      BY <3>1
  <2>5. k + 1 \in 0..n
    BY <1>2
  <2> QED
    BY <2>4, <2>5
<1> HIDE DEF Fold
<1>3. n \in G
  <2> HIDE DEF G
  <2> QED
    BY <1>1, <1>2, UpTo
<1> QED
  BY <1>3 DEF Fold, More

\* The greatest number up to k is k, and those below it are the numbers up to k - 1.
LEMMA GreatestUpTo ==
  ASSUME NEW k \in Nat, k # 0
  PROVE  1..k # {} /\ Max(1..k) = k /\ (1..k) \ {k} = 1..(k - 1)
<1>1. k \in 1..k /\ (1..k) \in SUBSET (1..k)
  OBVIOUS
<1>2. Max(1..k) \in 1..k /\ Max(1..k) >= k
  BY <1>1, Greatest
<1> QED
  BY <1>1, <1>2

\* What is left of a list's parts, one part after the other.
LEMMA FilledChain ==
  ASSUME NEW s, NEW n \in Nat, DOMAIN s = 1..n
  PROVE  \E u : /\ u[0] = <<>> /\ Filled(s) = u[n]
                /\ \A k \in 1..n : u[k] = IF s[k] = <<>> THEN u[k - 1] ELSE Append(u[k - 1], s[k])
<1> DEFINE More(out, p) == IF p = <<>> THEN out ELSE Append(out, p)
           Fold(it) == it = [S \in SUBSET (1..n) |->
                               IF S = {} THEN <<>>
                               ELSE LET x == Max(S)
                                    IN IF s[x] = <<>> THEN it[S \ {x}]
                                       ELSE Append(it[S \ {x}], s[x])]
           iter == CHOOSE it : Fold(it)
<1>1. Filled(s) = iter[1..n]
  BY Zenon DEF Filled, FoldLeft, MapThenFoldSet
<1>2. Fold(iter)
  <2>1. \E it : Fold(it)
    BY FilledFold, Zenon
  <2> QED
    BY <2>1, Zenon
<1> HIDE DEF iter
<1>3. \A S \in SUBSET (1..n) :
        iter[S] = IF S = {} THEN <<>> ELSE More(iter[S \ {Max(S)}], s[Max(S)])
  BY <1>2
<1> HIDE DEF Fold, More
<1> DEFINE u == [k \in 0..n |-> iter[1..k]]
<1>4. u[0] = <<>> /\ u[n] = iter[1..n]
  <2>1. 1..0 = {} /\ 0 \in 0..n /\ n \in 0..n
    OBVIOUS
  <2> QED
    BY <1>3, <2>1
<1>5. \A k \in 1..n : u[k] = More(u[k - 1], s[k])
  <2> SUFFICES ASSUME NEW k \in 1..n PROVE u[k] = More(u[k - 1], s[k])
    OBVIOUS
  <2>1. k \in Nat /\ k # 0 /\ k \in 0..n /\ k - 1 \in 0..n /\ (1..k) \in SUBSET (1..n)
    OBVIOUS
  <2>2. 1..k # {} /\ Max(1..k) = k /\ (1..k) \ {k} = 1..(k - 1)
    BY <2>1, GreatestUpTo
  <2>3. iter[1..k] = More(iter[1..(k - 1)], s[k])
    BY <1>3, <2>1, <2>2
  <2> QED
    BY <2>1, <2>3
<1> HIDE DEF u
<1> QED
  BY <1>1, <1>4, <1>5 DEF More

\* The clause, one filter after the other.
LEMMA ClauseChain ==
  ASSUME NEW style, NEW s, NEW n \in Nat, DOMAIN s = 1..n
  PROVE  \E u : /\ u[0] = [conds |-> <<>>, args |-> <<>>] /\ Clause(style, s) = u[n]
                /\ \A k \in 1..n : u[k] = WithFilter(style, u[k - 1], s[k])
<1> DEFINE More(c, f) == WithFilter(style, c, f)
           base == [conds |-> <<>>, args |-> <<>>]
           Fold(it, k) == it = [S \in SUBSET (1..k) |->
                                  IF S = {} THEN base ELSE More(it[S \ {Max(S)}], s[Max(S)])]
           iter == CHOOSE it : Fold(it, n)
<1>1. Clause(style, s) = iter[1..n]
  BY Zenon DEF Clause, FoldLeft, MapThenFoldSet
<1> HIDE DEF More, base
<1>2. \E it : Fold(it, n)
  <2> DEFINE G == {k \in 0..n : \E it : Fold(it, k)}
  <2>1. 0 \in G
    <3>1. \A S \in SUBSET (1..0) : S = {}
      OBVIOUS
    <3>2. Fold([S \in SUBSET (1..0) |-> base], 0)
      BY <3>1
    <3> QED
      BY <3>2
  <2>2. ASSUME NEW k \in 0..n, k < n, k \in G
        PROVE  k + 1 \in G
    <3>1. PICK it : Fold(it, k)
      BY <2>2
    <3> DEFINE up == [S \in SUBSET (1..(k + 1)) |->
                        IF S = {} THEN base ELSE More(it[S \ {Max(S)}], s[Max(S)])]
    <3>2. ASSUME NEW S \in SUBSET (1..(k + 1)), S # {}
          PROVE  S \ {Max(S)} \in SUBSET (1..k)
      <4>1. k \in Nat /\ k + 1 \in Nat
        OBVIOUS
      <4>2. Max(S) \in S /\ \A y \in S : Max(S) >= y
        BY <3>2, <4>1, Greatest
      <4>3. ASSUME NEW y \in S, y # Max(S) PROVE y \in 1..k
        <5>1. y \in 1..(k + 1) /\ Max(S) \in 1..(k + 1) /\ Max(S) >= y
          BY <4>2
        <5> QED
          BY <4>1, <4>3, <5>1
      <4> QED
        BY <4>3
    <3>3. \A S \in SUBSET (1..k) : S \in SUBSET (1..(k + 1)) /\ up[S] = it[S]
      <4> SUFFICES ASSUME NEW S \in SUBSET (1..k)
                   PROVE  S \in SUBSET (1..(k + 1)) /\ up[S] = it[S]
        OBVIOUS
      <4>1. S \in SUBSET (1..(k + 1))
        OBVIOUS
      <4>2. it[S] = IF S = {} THEN base ELSE More(it[S \ {Max(S)}], s[Max(S)])
        BY <3>1
      <4> QED
        BY <4>1, <4>2
    <3>4. Fold(up, k + 1)
      <4>1. \A S \in SUBSET (1..(k + 1)) : S # {} =>
               up[S \ {Max(S)}] = it[S \ {Max(S)}]
        BY <3>2, <3>3
      <4> QED
        BY <4>1
    <3>5. k + 1 \in 0..n
      BY <2>2
    <3> QED
      BY <3>4, <3>5
  <2> HIDE DEF Fold
  <2>3. n \in G
    <3> HIDE DEF G
    <3> QED
      BY <2>1, <2>2, UpTo
  <2> QED
    BY <2>3, Zenon
<1>3. Fold(iter, n)
  BY <1>2, Zenon
<1> HIDE DEF iter
<1>4. \A S \in SUBSET (1..n) :
        iter[S] = IF S = {} THEN base ELSE More(iter[S \ {Max(S)}], s[Max(S)])
  BY <1>3
<1> HIDE DEF Fold
<1> DEFINE u == [k \in 0..n |-> iter[1..k]]
<1>5. u[0] = base /\ u[n] = iter[1..n]
  <2>1. 1..0 = {} /\ 0 \in 0..n /\ n \in 0..n
    OBVIOUS
  <2> QED
    BY <1>4, <2>1
<1>6. \A k \in 1..n : u[k] = More(u[k - 1], s[k])
  <2> SUFFICES ASSUME NEW k \in 1..n PROVE u[k] = More(u[k - 1], s[k])
    OBVIOUS
  <2>1. k \in Nat /\ k # 0 /\ k \in 0..n /\ k - 1 \in 0..n /\ (1..k) \in SUBSET (1..n)
    OBVIOUS
  <2>2. 1..k # {} /\ Max(1..k) = k /\ (1..k) \ {k} = 1..(k - 1)
    BY <2>1, GreatestUpTo
  <2>3. iter[1..k] = More(iter[1..(k - 1)], s[k])
    BY <1>4, <2>1, <2>2
  <2> QED
    BY <2>1, <2>3
<1> HIDE DEF u
<1> QED
  BY <1>1, <1>5, <1>6 DEF More, base

\* The table of what sequences make, one put after the other, exists.
LEMMA FlattenFold ==
  ASSUME NEW s, NEW n \in Nat, n # 0
  PROVE  \E f : f = [i \in 1..n |-> IF i = 1 THEN s[i] ELSE f[i - 1] \o s[i]]
<1> DEFINE Flat(f, k) == f = [i \in 1..k |-> IF i = 1 THEN s[i] ELSE f[i - 1] \o s[i]]
           G == {k \in 0..n : \E f : Flat(f, k)}
<1>1. 0 \in G
  <2> DEFINE f == [i \in 1..0 |-> IF i = 1 THEN s[i] ELSE <<>> \o s[i]]
  <2>1. \A i \in 1..0 : FALSE
    OBVIOUS
  <2>2. Flat(f, 0)
    BY <2>1
  <2>3. 0 \in 0..n
    OBVIOUS
  <2> QED
    BY <2>2, <2>3, Zenon
<1>2. ASSUME NEW k \in 0..n, k < n, k \in G
      PROVE  k + 1 \in G
  <2>1. PICK f : Flat(f, k)
    BY <1>2
  <2> DEFINE up == [i \in 1..(k + 1) |-> IF i = 1 THEN s[i] ELSE f[i - 1] \o s[i]]
  <2>2. \A i \in 1..k : i \in 1..(k + 1) /\ up[i] = f[i]
    <3> SUFFICES ASSUME NEW i \in 1..k PROVE i \in 1..(k + 1) /\ up[i] = f[i]
      OBVIOUS
    <3>1. i \in 1..(k + 1)
      OBVIOUS
    <3>2. f[i] = IF i = 1 THEN s[i] ELSE f[i - 1] \o s[i]
      BY <2>1
    <3>3. up[i] = IF i = 1 THEN s[i] ELSE f[i - 1] \o s[i]
      BY <3>1
    <3> QED
      BY <3>1, <3>2, <3>3, Zenon
  <2>3. \A i \in 1..(k + 1) : i # 1 => i - 1 \in 1..k
    OBVIOUS
  <2>4. Flat(up, k + 1)
    BY <2>2, <2>3
  <2>5. k + 1 \in 0..n
    BY <1>2
  <2> QED
    BY <2>4, <2>5
<1> HIDE DEF Flat
<1>3. n \in G
  <2> HIDE DEF G
  <2> QED
    BY <1>1, <1>2, UpTo
<1> QED
  BY <1>3 DEF Flat

\* Sequences put one after the other, step by step.
LEMMA FlattenChain ==
  ASSUME NEW s, IsSequence(s), s # <<>>
  PROVE  \E u : /\ FlattenSeq(s) = u[Len(s)] /\ u[1] = s[1]
                /\ \A k \in 1..Len(s) : k # 1 => u[k] = u[k - 1] \o s[k]
<1> DEFINE n == Len(s)
           Flat(f) == f = [i \in 1..n |-> IF i = 1 THEN s[i] ELSE f[i - 1] \o s[i]]
           u == CHOOSE f : Flat(f)
<1>1. n \in Nat /\ n # 0
  BY SequenceParts DEF IsSequence
<1>2. FlattenSeq(s) = u[n]
  BY <1>1, Zenon DEF FlattenSeq
<1>3. Flat(u)
  <2> HIDE DEF n
  <2>1. \E f : Flat(f)
    BY <1>1, FlattenFold, Zenon
  <2> QED
    BY <2>1, Zenon
<1> HIDE DEF u
<1>4. \A k \in 1..n : u[k] = IF k = 1 THEN s[k] ELSE u[k - 1] \o s[k]
  BY <1>1, <1>3
<1> HIDE DEF Flat, n
<1>5. u[1] = s[1] /\ \A k \in 1..n : k # 1 => u[k] = u[k - 1] \o s[k]
  <2>1. 1 \in 1..n
    BY <1>1
  <2>2. u[1] = s[1]
    BY <1>4, <2>1, Zenon
  <2>3. \A k \in 1..n : k # 1 => u[k] = u[k - 1] \o s[k]
    BY <1>4, Zenon
  <2> QED
    BY <2>2, <2>3
<1> QED
  BY <1>2, <1>5, Zenon DEF n

\* One more element: the length, and what is where.
LEMMA AddedParts ==
  ASSUME NEW s, IsSequence(s), NEW t
  PROVE  LET w == Append(s, t)
             n == Len(s)
         IN  /\ n \in Nat /\ DOMAIN s = 1..n
             /\ IsSequence(w) /\ Len(w) = n + 1 /\ DOMAIN w = 1..(n + 1) /\ w # <<>>
             /\ w[n + 1] = t /\ \A k \in 1..n : w[k] = s[k]
<1> PICK w : w = Append(s, t)
  OBVIOUS
<1>1. Len(s) \in Nat /\ DOMAIN s = 1..Len(s)
  BY SequenceParts
<1>2. IsSequence(w) /\ Len(w) = Len(s) + 1 /\ w # <<>> /\ w[Len(s) + 1] = t
  BY Added
<1>3. s \in Seq({s[k] : k \in DOMAIN s} \cup {t})
  BY DEF IsSequence
<1>4. \A k \in 1..Len(s) : w[k] = s[k]
  BY <1>1, <1>3
<1>5. DOMAIN w = 1..(Len(s) + 1)
  BY <1>2, SequenceParts
<1> QED
  BY <1>1, <1>2, <1>4, <1>5

\* Sequences in a row, and one more.
LEMMA FlattenMore ==
  ASSUME NEW s, IsSequence(s), NEW t, IsSequence(t)
  PROVE  FlattenSeq(Append(s, t)) = IF s = <<>> THEN t ELSE FlattenSeq(s) \o t
<1> PICK w : w = Append(s, t)
  OBVIOUS
<1> PICK n : n = Len(s)
  OBVIOUS
<1>1. /\ n \in Nat /\ DOMAIN s = 1..n /\ IsSequence(w) /\ Len(w) = n + 1 /\ w # <<>>
      /\ w[n + 1] = t /\ \A k \in 1..n : w[k] = s[k]
  BY AddedParts
<1>2. PICK g : /\ FlattenSeq(w) = g[n + 1] /\ g[1] = w[1]
               /\ \A k \in 1..(n + 1) : k # 1 => g[k] = g[k - 1] \o w[k]
  <2>1. PICK g : /\ FlattenSeq(w) = g[Len(w)] /\ g[1] = w[1]
                 /\ \A k \in 1..Len(w) : k # 1 => g[k] = g[k - 1] \o w[k]
    <3>1. IsSequence(w) /\ w # <<>>
      BY <1>1
    <3> QED
      BY <3>1, FlattenChain, Zenon
  <2>2. FlattenSeq(w) = g[n + 1] /\ \A k \in 1..(n + 1) : k # 1 => g[k] = g[k - 1] \o w[k]
    <3> PICK m : m = n + 1
      OBVIOUS
    <3>1. Len(w) = m
      BY <1>1
    <3>2. FlattenSeq(w) = g[m] /\ \A k \in 1..m : k # 1 => g[k] = g[k - 1] \o w[k]
      BY <2>1, <3>1
    <3> QED
      BY <3>2
  <2> QED
    BY <2>1, <2>2
<1>3. CASE s = <<>>
  <2>1. n = 0
    BY <1>3
  <2> QED
    BY <1>1, <1>2, <1>3, <2>1
<1>4. CASE s # <<>>
  <2>1. n # 0
    BY <1>1, <1>4 DEF IsSequence
  <2>2. PICK u : /\ FlattenSeq(s) = u[n] /\ u[1] = s[1]
                 /\ \A k \in 1..n : k # 1 => u[k] = u[k - 1] \o s[k]
    BY <1>4, FlattenChain
  <2> DEFINE G == {k \in 0..n : k # 0 => g[k] = u[k]}
  <2>3. ASSUME NEW k \in 0..n, k < n, k \in G
        PROVE  k + 1 \in G
    <3>1. k \in Nat /\ k + 1 \in 0..n /\ k + 1 \in 1..n /\ k + 1 \in 1..(n + 1)
      BY <1>1, <2>3
    <3>2. w[k + 1] = s[k + 1]
      BY <1>1, <3>1
    <3>3. CASE k = 0
      BY <1>2, <2>2, <3>1, <3>2, <3>3
    <3>4. CASE k # 0
      <4>1. g[k] = u[k]
        BY <2>3, <3>4
      <4>2. g[k + 1] = g[k] \o w[k + 1] /\ u[k + 1] = u[k] \o s[k + 1]
        <5>1. k + 1 # 1 /\ (k + 1) - 1 = k
          BY <3>1, <3>4
        <5> QED
          BY <1>2, <2>2, <3>1, <5>1
      <4> QED
        BY <3>1, <3>2, <4>1, <4>2
    <3> QED
      BY <3>3, <3>4
  <2>4. 0 \in G
    BY <1>1
  <2>5. n \in G
    <3> HIDE DEF G
    <3>1. \A k \in 0..n : k \in G
      BY <1>1, <2>3, <2>4, UpTo
    <3> QED
      BY <1>1, <3>1
  <2>6. g[n + 1] = g[n] \o t
    <3>1. n + 1 # 1 /\ (n + 1) - 1 = n /\ n + 1 \in 1..(n + 1)
      BY <1>1, <2>1
    <3> QED
      BY <1>1, <1>2, <3>1
  <2> QED
    BY <1>2, <1>4, <2>1, <2>2, <2>5, <2>6
<1> QED
  BY <1>3, <1>4

-----------------------------------------------------------------------------
(* Conditions and their operands.                                          *)

\* The operands of a clause, and of one with another condition.
LEMMA OperandsMore ==
  ASSUME NEW conds, IsSequence(conds), NEW cond, IsSequence(cond.operands)
  PROVE  AllOperands(Append(conds, cond)) =
           IF conds = <<>> THEN cond.operands ELSE AllOperands(conds) \o cond.operands
<1> PICK n : n = Len(conds)
  OBVIOUS
<1> PICK w : w = Append(conds, cond)
  OBVIOUS
<1>1. /\ n \in Nat /\ DOMAIN conds = 1..n /\ IsSequence(w) /\ DOMAIN w = 1..(n + 1)
      /\ w[n + 1] = cond /\ \A k \in 1..n : w[k] = conds[k]
  BY AddedParts
<1> PICK s : s = [i \in 1..n |-> conds[i].operands]
  OBVIOUS
<1>2. IsSequence(s) /\ Len(s) = n
  <2> PICK S : S = {s[i] : i \in 1..n}
    OBVIOUS
  <2>1. s \in Seq(S) /\ Len(s) = n
    BY <1>1
  <2> QED
    BY <2>1, SequenceOf
<1>3. [i \in 1..(n + 1) |-> w[i].operands] = Append(s, cond.operands)
  <2> PICK v : v = [i \in 1..(n + 1) |-> w[i].operands]
    OBVIOUS
  <2> PICK t : t = cond.operands
    OBVIOUS
  <2> DEFINE S == {s[i] : i \in 1..n} \cup {t}
  <2>1. s \in Seq(S) /\ t \in S
    BY <1>1
  <2> HIDE DEF S
  <2>2. Append(s, t) \in Seq(S) /\ Len(Append(s, t)) = n + 1
    BY <1>1, <1>2, <2>1
  <2>3. Append(s, t)[n + 1] = t
    BY <1>1, <1>2, <2>1
  <2>4. \A i \in 1..n : Append(s, t)[i] = s[i]
    BY <1>1, <1>2, <2>1
  <2>5. \A i \in 1..(n + 1) : v[i] = Append(s, t)[i]
    <3> SUFFICES ASSUME NEW i \in 1..(n + 1) PROVE v[i] = Append(s, t)[i]
      OBVIOUS
    <3>1. CASE i = n + 1
      BY <1>1, <2>3, <3>1
    <3>2. CASE i # n + 1
      <4>1. i \in 1..n
        BY <1>1, <3>2
      <4>2. v[i] = conds[i].operands
        BY <1>1, <4>1
      <4> QED
        BY <2>4, <4>1, <4>2
    <3> QED
      BY <3>1, <3>2
  <2>6. v = [i \in 1..(n + 1) |-> v[i]] /\ Append(s, t) = [i \in 1..(n + 1) |-> Append(s, t)[i]]
    BY <1>1, <2>2
  <2> QED
    BY <2>5, <2>6
<1>4. AllOperands(w) = FlattenSeq(Append(s, cond.operands))
  BY <1>1, <1>3 DEF AllOperands
<1>5. AllOperands(conds) = FlattenSeq(s)
  BY <1>1 DEF AllOperands
<1>6. s = <<>> <=> conds = <<>>
  BY <1>1, <1>2 DEF IsSequence
<1> QED
  BY <1>2, <1>4, <1>5, <1>6, FlattenMore

\* A row satisfies one more condition.
LEMMA SatisfiesMore ==
  ASSUME NEW conds, IsSequence(conds), NEW cond, NEW vals, NEW r,
         NEW from, from = Len(AllOperands(conds))
  PROVE  Satisfies(r, Append(conds, cond), vals) <=>
           /\ Satisfies(r, conds, vals)
           /\ Holds(cond.op, r[cond.column], SubSeq(vals, from + 1, from + Len(cond.operands)))
<1> PICK n : n = Len(conds)
  OBVIOUS
<1> PICK w : w = Append(conds, cond)
  OBVIOUS
<1>1. /\ n \in Nat /\ DOMAIN conds = 1..n /\ IsSequence(w) /\ DOMAIN w = 1..(n + 1)
      /\ w[n + 1] = cond /\ \A k \in 1..n : w[k] = conds[k]
  BY AddedParts
<1> DEFINE At(cs, i) == Len(FlattenSeq([j \in 1..(i - 1) |-> cs[j].operands]))
           Holding(cs, i) == Holds(cs[i].op, r[cs[i].column],
                                   SubSeq(vals, At(cs, i) + 1, At(cs, i) + Len(cs[i].operands)))
<1>2. /\ Satisfies(r, conds, vals) <=> \A i \in DOMAIN conds : Holding(conds, i)
      /\ Satisfies(r, w, vals) <=> \A i \in DOMAIN w : Holding(w, i)
  BY Zenon DEF Satisfies
<1>3. \A i \in 1..(n + 1) : At(w, i) = At(conds, i)
  <2> SUFFICES ASSUME NEW i \in 1..(n + 1) PROVE At(w, i) = At(conds, i)
    OBVIOUS
  <2>1. \A j \in 1..(i - 1) : j \in 1..n
    BY <1>1
  <2>2. [j \in 1..(i - 1) |-> w[j].operands] = [j \in 1..(i - 1) |-> conds[j].operands]
    BY <1>1, <2>1
  <2> QED
    BY <2>2
<1>4. At(conds, n + 1) = from
  <2>1. (n + 1) - 1 = n
    BY <1>1
  <2> QED
    BY <1>1, <2>1 DEF AllOperands
<1>5. \A i \in 1..n : i \in 1..(n + 1) /\ (Holding(w, i) <=> Holding(conds, i))
  <2> SUFFICES ASSUME NEW i \in 1..n
               PROVE  i \in 1..(n + 1) /\ (Holding(w, i) <=> Holding(conds, i))
    OBVIOUS
  <2>1. i \in 1..(n + 1) /\ w[i] = conds[i]
    BY <1>1
  <2>2. At(w, i) = At(conds, i)
    BY <1>3, <2>1
  <2> QED
    BY <2>1, <2>2, Zenon
<1>6. Holding(w, n + 1) <=>
        Holds(cond.op, r[cond.column], SubSeq(vals, from + 1, from + Len(cond.operands)))
  <2>1. At(w, n + 1) = from /\ w[n + 1] = cond
    BY <1>1, <1>3, <1>4
  <2> QED
    BY <2>1, Zenon
<1> HIDE DEF Holding, At
<1>7. (\A i \in DOMAIN w : Holding(w, i)) <=> (\A i \in 1..n : Holding(w, i)) /\ Holding(w, n + 1)
  BY <1>1
<1> QED
  BY <1>1, <1>2, <1>5, <1>6, <1>7, Zenon

-----------------------------------------------------------------------------
(* Patterns.                                                               *)

\* A piece of a sequence, compared letter by letter.
LEMMA PieceIs ==
  ASSUME NEW s, NEW t, IsSequence(s), IsSequence(t), NEW i \in Nat, i + Len(t) <= Len(s)
  PROVE  /\ IsSequence(SubSeq(s, i + 1, i + Len(t)))
         /\ SubSeq(s, i + 1, i + Len(t)) = t <=> \A j \in 1..Len(t) : s[i + j] = t[j]
<1> PICK m, n : m = Len(t) /\ n = Len(s)
  OBVIOUS
<1>1. m \in Nat /\ n \in Nat /\ i + m <= n /\ DOMAIN s = 1..n
  BY SequenceParts
<1> PICK S : S = {s[k] : k \in DOMAIN s} \cup {t[k] : k \in DOMAIN t}
  OBVIOUS
<1>2. s \in Seq(S)
  BY SeqMonotonic, Zenon DEF IsSequence
<1>3. t \in Seq(S)
  BY SeqMonotonic, Zenon DEF IsSequence
<1> PICK u : u = SubSeq(s, i + 1, i + m)
  OBVIOUS
<1>4. u \in Seq(S) /\ Len(u) = m /\ \A j \in 1..m : u[j] = s[i + j]
  <2>1. \A k \in (i + 1)..(i + m) : k \in 1..n /\ s[k] \in S
    BY <1>1, <1>2
  <2>2. (i + m) - (i + 1) + 1 = m
    BY <1>1
  <2>3. u = [j \in 1..m |-> s[(i + 1) + j - 1]]
    BY <1>1, <1>2, <2>1, <2>2
  <2>4. \A j \in 1..m : (i + 1) + j - 1 = i + j /\ i + j \in (i + 1)..(i + m)
    BY <1>1
  <2>5. \A j \in 1..m : u[j] = s[i + j] /\ u[j] \in S
    BY <2>1, <2>3, <2>4
  <2>6. u \in [1..m -> S]
    BY <2>3, <2>5
  <2>7. u \in Seq(S) /\ Len(u) = m
    BY <1>1, <2>6
  <2> QED
    BY <2>5, <2>7
<1>5. IsSequence(u)
  BY <1>4, SequenceOf
<1>6. u = t <=> \A j \in 1..m : u[j] = t[j]
  BY <1>3, <1>4, SeqEqual
<1> QED
  BY <1>4, <1>5, <1>6

\* A text without a wildcard.
Plain(t) == \A j \in DOMAIN t : t[j] # "%"

\* The pattern p is the text, with a wildcard before it (a = 1) or not, and one after it
\* (z = 1) or not.
Around(p, t, a, z) ==
  /\ Len(p) = a + Len(t) + z /\ DOMAIN p = 1..(a + Len(t) + z)
  /\ \A j \in 1..Len(t) : p[a + j] = t[j]
  /\ (a = 1 => p[1] = "%") /\ (z = 1 => p[a + Len(t) + 1] = "%")

\* The text t occurs in s, at its beginning (a = 0) or its end (z = 0) if so asked.
Within(s, t, a, z) ==
  \E i \in 0..(Len(s) - Len(t)) :
    /\ a = 0 => i = 0
    /\ z = 0 => i + Len(t) = Len(s)
    /\ \A j \in 1..Len(t) : s[i + j] = t[j]

\* What such a pattern finds.
LEMMA LikeText ==
  ASSUME NEW s, IsSequence(s), NEW t, IsSequence(t), Plain(t),
         NEW a \in 0..1, NEW z \in 0..1, NEW p, Around(p, t, a, z)
  PROVE  Like(s, p) <=> Within(s, t, a, z)
<1> PICK m, n : m = Len(t) /\ n = Len(s)
  OBVIOUS
<1> SUFFICES Like(s, p) <=> \E i \in 0..(n - m) : /\ a = 0 => i = 0
                                                  /\ z = 0 => i + m = n
                                                  /\ \A j \in 1..m : s[i + j] = t[j]
  BY DEF Within
<1>0. /\ Len(p) = a + m + z /\ DOMAIN p = 1..(a + m + z) /\ \A j \in 1..m : p[a + j] = t[j]
      /\ (a = 1 => p[1] = "%") /\ (z = 1 => p[a + m + 1] = "%")
  BY DEF Around
<1> PICK len : len = a + m + z
  OBVIOUS
<1>1. /\ m \in Nat /\ DOMAIN t = 1..m /\ n \in Nat /\ DOMAIN s = 1..n
      /\ len \in Nat /\ a \in Nat /\ z \in Nat /\ len = a + m + z
  <2>1. m \in Nat /\ DOMAIN t = 1..m /\ n \in Nat /\ DOMAIN s = 1..n
    BY SequenceParts
  <2> QED
    BY <2>1
<1>2. ASSUME NEW i \in 0..(n - m), a = 0 => i = 0, z = 0 => i + m = n,
             \A j \in 1..m : s[i + j] = t[j]
      PROVE  Like(s, p)
  <2> DEFINE ends == [k \in 0..len |-> IF k < a THEN 0 ELSE IF k <= a + m THEN i + k - a ELSE n]
  <2>1. ends \in [0..len -> 0..n]
    BY <1>1
  <2>2. ends[0] = 0 /\ ends[len] = n
    BY <1>1, <1>2
  <2>3. ASSUME NEW k \in 1..len
        PROVE  IF p[k] = "%" THEN ends[k] >= ends[k - 1]
               ELSE ends[k] = ends[k - 1] + 1 /\ s[ends[k]] = p[k]
    <3>1. k \in 0..len /\ k - 1 \in 0..len
      BY <1>1
    <3>2. CASE k <= a
      <4>1. a = 1 /\ k = 1
        BY <1>1, <3>2
      <4>2. ends[k] >= ends[k - 1]
        BY <1>1, <3>1, <4>1
      <4> QED
        BY <1>0, <4>1, <4>2
    <3>3. CASE a < k /\ k <= a + m
      <4> PICK j : j = k - a
        OBVIOUS
      <4>1. j \in 1..m /\ k = a + j
        BY <1>1, <3>3
      <4>2. p[k] = t[j] /\ t[j] # "%"
        BY <1>0, <1>1, <4>1 DEF Plain
      <4>3. ends[k] = i + j /\ ends[k - 1] = i + j - 1
        BY <1>1, <3>1, <3>3, <4>1, <1>2
      <4>4. s[i + j] = t[j]
        BY <1>2, <4>1
      <4>5. ends[k] = ends[k - 1] + 1
        BY <1>1, <4>1, <4>3
      <4> QED
        BY <4>2, <4>3, <4>4, <4>5
    <3>4. CASE a + m < k
      <4>1. z = 1 /\ k = a + m + 1
        BY <1>1, <3>4
      <4>2. ends[k] = n /\ ends[k - 1] \in 0..n
        BY <1>1, <2>1, <3>1, <3>4, <4>1
      <4> QED
        BY <1>0, <1>1, <4>1, <4>2
    <3>5. k <= a \/ (a < k /\ k <= a + m) \/ a + m < k
      BY <1>1
    <3> QED
      BY <3>2, <3>3, <3>4, <3>5
  <2> HIDE DEF ends
  <2>4. Len(p) = len /\ DOMAIN p = 1..len
    BY <1>0, <1>1
  <2> QED
    BY <2>1, <2>2, <2>3, <2>4 DEF Like
<1>3. ASSUME Like(s, p)
      PROVE  \E i \in 0..(n - m) : /\ a = 0 => i = 0
                                   /\ z = 0 => i + m = n
                                   /\ \A j \in 1..m : s[i + j] = t[j]
  <2>1. PICK ends \in [0..len -> 0..n] :
          /\ ends[0] = 0 /\ ends[len] = n
          /\ \A k \in 1..len : IF p[k] = "%" THEN ends[k] >= ends[k - 1]
                               ELSE ends[k] = ends[k - 1] + 1 /\ s[ends[k]] = p[k]
    <3>1. Len(p) = len /\ DOMAIN p = 1..len
      BY <1>0, <1>1
    <3>2. PICK ends \in [0..Len(p) -> 0..Len(s)] :
            /\ ends[0] = 0 /\ ends[Len(p)] = Len(s)
            /\ \A k \in DOMAIN p : IF p[k] = "%" THEN ends[k] >= ends[k - 1]
                                   ELSE ends[k] = ends[k - 1] + 1 /\ s[ends[k]] = p[k]
      BY <1>3, Zenon DEF Like
    <3>3. ends \in [0..len -> 0..n] /\ ends[0] = 0 /\ ends[len] = n
      BY <3>1, <3>2, Zenon
    <3> QED
      BY <3>1, <3>2, <3>3, Zenon
  <2> PICK i : i = ends[a]
    OBVIOUS
  <2> DEFINE G == {j \in 0..m : ends[a + j] = i + j /\ \A l \in 1..j : s[i + l] = t[l]}
  <2>2. i \in 0..n
    BY <1>1, <2>1
  <2>3. 0 \in G
    BY <1>1, <2>2
  <2>4. ASSUME NEW j \in 0..m, j < m, j \in G
        PROVE  j + 1 \in G
    <3>1. /\ j \in Nat /\ j + 1 \in 1..m /\ j + 1 \in 0..m /\ a + (j + 1) \in 1..len
          /\ (a + (j + 1)) - 1 = a + j
      BY <1>1, <2>4
    <3>2. p[a + (j + 1)] = t[j + 1] /\ t[j + 1] # "%"
      BY <1>0, <1>1, <3>1 DEF Plain
    <3>3. /\ ends[a + (j + 1)] = ends[a + j] + 1
          /\ s[ends[a + (j + 1)]] = t[j + 1]
      BY <2>1, <3>1, <3>2
    <3>4. ends[a + j] = i + j /\ \A l \in 1..j : s[i + l] = t[l]
      BY <2>4
    <3>5. ends[a + (j + 1)] = i + (j + 1)
      <4>1. ends[a + (j + 1)] = (i + j) + 1
        BY <3>3, <3>4, Zenon
      <4>2. (i + j) + 1 = i + (j + 1)
        BY <2>2, <3>1
      <4> QED
        BY <4>1, <4>2, Zenon
    <3>6. \A l \in 1..(j + 1) : l \in 1..j \/ l = j + 1
      BY <3>1
    <3>7. s[i + (j + 1)] = t[j + 1]
      BY <3>3, <3>5
    <3>8. \A l \in 1..(j + 1) : s[i + l] = t[l]
      BY <3>4, <3>6, <3>7
    <3> QED
      BY <3>1, <3>5, <3>8
  <2>5. ends[a + m] = i + m /\ \A l \in 1..m : s[i + l] = t[l]
    <3>1. m \in G
      <4> HIDE DEF G
      <4>1. \A j \in 0..m : j \in G
        BY <1>1, <2>3, <2>4, UpTo
      <4> QED
        BY <1>1, <4>1
    <3> QED
      BY <3>1
  <2>6. i + m <= n
    <3>1. ends[a + m] \in 0..n
      BY <1>1, <2>1
    <3> QED
      BY <2>5, <3>1
  <2>7. i \in 0..(n - m) /\ (a = 0 => i = 0)
    BY <1>1, <2>1, <2>2, <2>6
  <2>8. z = 0 => i + m = n
    BY <1>1, <2>1, <2>5
  <2> QED
    BY <2>5, <2>7, <2>8
<1> QED
  BY <1>2, <1>3

\* Patterns that the filters make of a text: it occurs, begins or ends the other.
LEMMA Patterns ==
  ASSUME NEW s, IsSequence(s), NEW t, IsSequence(t), Plain(t),
         NEW any, any = <<"%">>
  PROVE  /\ Like(s, (any \o t) \o any) <=> Occurs(t, s)
         /\ Like(s, t \o any) <=> Len(t) <= Len(s) /\ SubSeq(s, 1, Len(t)) = t
         /\ Like(s, any \o t) <=>
              Len(t) <= Len(s) /\ SubSeq(s, Len(s) - Len(t) + 1, Len(s)) = t
<1>1. Len(s) \in Nat /\ Len(t) \in Nat
  BY SequenceParts
<1>2. IsSequence(any) /\ Len(any) = 1 /\ any[1] = "%"
  <2>1. <<"%">> \in Seq({"%"})
    OBVIOUS
  <2> QED
    BY <2>1, SequenceOf
<1>4. PICK pre : pre = t \o any
  OBVIOUS
<1>5. PICK suf : suf = any \o t
  OBVIOUS
<1>6. PICK mid : mid = suf \o any
  OBVIOUS
<1>3. PICK m, n : m = Len(t) /\ n = Len(s)
  OBVIOUS
<1> DEFINE Piece(i) == \A j \in 1..Len(t) : s[i + j] = t[j]
<1>7. Like(s, pre) <=> 0 \in 0..(Len(s) - Len(t)) /\ Piece(0)
  <2>1. /\ Len(pre) = Len(t) + 1 /\ DOMAIN pre = 1..(Len(t) + 1)
        /\ \A j \in 1..(Len(t) + 1) : pre[j] = IF j <= Len(t) THEN t[j] ELSE any[j - Len(t)]
    BY <1>2, <1>4, ConcatParts
  <2>2. PICK a \in 0..1, z \in 0..1 : a = 0 /\ z = 1
    OBVIOUS
  <2>3. Around(pre, t, a, z)
    BY <1>1, <1>2, <2>1, <2>2 DEF Around
  <2>9. a \in 0..1 /\ z \in 0..1
    BY <2>2
  <2>4. Like(s, pre) <=> Within(s, t, a, z)
    BY <2>9, <2>3, LikeText, Zenon
  <2>5. Within(s, t, a, z) <=> \E i \in 0..(Len(s) - Len(t)) :
          (a = 0 => i = 0) /\ (z = 0 => i + Len(t) = Len(s)) /\ Piece(i)
    BY Zenon DEF Within
  <2> HIDE DEF Piece
  <2> QED
    BY <1>1, <2>2, <2>4, <2>5
<1>8. Like(s, suf) <=> \E i \in 0..(Len(s) - Len(t)) : i + Len(t) = Len(s) /\ Piece(i)
  <2>1. /\ Len(suf) = 1 + Len(t) /\ DOMAIN suf = 1..(1 + Len(t))
        /\ \A j \in 1..(1 + Len(t)) : suf[j] = IF j <= 1 THEN any[j] ELSE t[j - 1]
    BY <1>2, <1>5, ConcatParts
  <2>2. PICK a \in 0..1, z \in 0..1 : a = 1 /\ z = 0
    OBVIOUS
  <2>3. Around(suf, t, a, z)
    BY <1>1, <1>2, <2>1, <2>2 DEF Around
  <2>9. a \in 0..1 /\ z \in 0..1
    BY <2>2
  <2>4. Like(s, suf) <=> Within(s, t, a, z)
    BY <2>9, <2>3, LikeText, Zenon
  <2>5. Within(s, t, a, z) <=> \E i \in 0..(Len(s) - Len(t)) :
          (a = 0 => i = 0) /\ (z = 0 => i + Len(t) = Len(s)) /\ Piece(i)
    BY Zenon DEF Within
  <2> HIDE DEF Piece
  <2> QED
    BY <1>1, <2>2, <2>4, <2>5
<1>9. Like(s, mid) <=> \E i \in 0..(Len(s) - Len(t)) : Piece(i)
  <2>1. /\ IsSequence(suf) /\ Len(suf) = 1 + Len(t)
        /\ \A j \in 1..(1 + Len(t)) : suf[j] = IF j <= 1 THEN any[j] ELSE t[j - 1]
    BY <1>2, <1>5, ConcatParts
  <2>2. PICK k : k = 1 + Len(t)
    OBVIOUS
  <2>3. /\ Len(mid) = k + 1 /\ DOMAIN mid = 1..(k + 1)
        /\ \A j \in 1..(k + 1) : mid[j] = IF j <= k THEN suf[j] ELSE any[j - k]
    <3>1. /\ Len(mid) = Len(suf) + Len(any) /\ DOMAIN mid = 1..(Len(suf) + Len(any))
          /\ \A j \in 1..(Len(suf) + Len(any)) :
               mid[j] = IF j <= Len(suf) THEN suf[j] ELSE any[j - Len(suf)]
      BY <1>2, <1>6, <2>1, ConcatParts
    <3>2. Len(suf) = k /\ Len(any) = 1
      BY <1>2, <2>1, <2>2
    <3> QED
      BY <3>1, <3>2
  <2>4. \A j \in 1..Len(t) : mid[1 + j] = t[j]
    <3> SUFFICES ASSUME NEW j \in 1..Len(t) PROVE mid[1 + j] = t[j]
      OBVIOUS
    <3>1. 1 + j \in 1..(k + 1) /\ 1 + j <= k /\ 1 + j \in 1..(1 + Len(t))
          /\ ~(1 + j <= 1) /\ (1 + j) - 1 = j
      BY <1>1, <2>2
    <3>2. mid[1 + j] = suf[1 + j]
      BY <2>3, <3>1
    <3>3. suf[1 + j] = t[j]
      BY <2>1, <3>1
    <3> QED
      BY <3>2, <3>3
  <2>5. mid[1] = "%" /\ mid[k + 1] = "%"
    <3>1. /\ 1 \in 1..(k + 1) /\ 1 <= k /\ 1 \in 1..(1 + Len(t))
          /\ k + 1 \in 1..(k + 1) /\ ~(k + 1 <= k) /\ (k + 1) - k = 1
      BY <1>1, <2>2
    <3>2. mid[1] = suf[1] /\ mid[k + 1] = any[1]
      BY <2>3, <3>1
    <3>3. suf[1] = any[1]
      BY <2>1, <3>1
    <3> QED
      BY <1>2, <3>2, <3>3
  <2>6. PICK a \in 0..1, z \in 0..1 : a = 1 /\ z = 1
    OBVIOUS
  <2>7. Around(mid, t, a, z)
    BY <1>1, <2>2, <2>3, <2>4, <2>5, <2>6 DEF Around
  <2>9. a \in 0..1 /\ z \in 0..1
    BY <2>6
  <2>8. Like(s, mid) <=> Within(s, t, a, z)
    BY <2>9, <2>7, LikeText, Zenon
  <2>10. Within(s, t, a, z) <=> \E i \in 0..(Len(s) - Len(t)) :
          (a = 0 => i = 0) /\ (z = 0 => i + Len(t) = Len(s)) /\ Piece(i)
    BY Zenon DEF Within
  <2> HIDE DEF Piece
  <2> QED
    BY <2>6, <2>8, <2>10
<1>10. \A i \in 0..(n - m) : SubSeq(s, i + 1, i + m) = t <=> Piece(i)
  <2> SUFFICES ASSUME NEW i \in 0..(n - m) PROVE SubSeq(s, i + 1, i + m) = t <=> Piece(i)
    OBVIOUS
  <2>1. i \in Nat /\ i + Len(t) <= Len(s)
    BY <1>1, <1>3
  <2>2. SubSeq(s, i + 1, i + Len(t)) = t <=> Piece(i)
    BY <2>1, PieceIs, Zenon
  <2> QED
    BY <1>3, <2>2, Zenon
<1> HIDE DEF Piece
<1>11. Like(s, mid) <=> Occurs(t, s)
  BY <1>3, <1>9, <1>10 DEF Occurs
<1>12. Like(s, pre) <=> m <= n /\ SubSeq(s, 1, m) = t
  <2>1. 0 \in 0..(n - m) <=> m <= n
    BY <1>1, <1>3
  <2>2. 0 \in 0..(n - m) => (SubSeq(s, 1, m) = t <=> Piece(0))
    <3>1. 0 + 1 = 1 /\ 0 + m = m
      BY <1>1, <1>3
    <3> QED
      BY <1>10, <3>1
  <2> QED
    BY <1>3, <1>7, <2>1, <2>2
<1>13. Like(s, suf) <=> m <= n /\ SubSeq(s, n - m + 1, n) = t
  <2>1. n - m \in 0..(n - m) <=> m <= n
    BY <1>1, <1>3
  <2>2. \A i \in 0..(n - m) : i + m = n <=> i = n - m
    BY <1>1, <1>3
  <2>3. n - m \in 0..(n - m) => (SubSeq(s, n - m + 1, n) = t <=> Piece(n - m))
    <3>1. (n - m) + m = n
      BY <1>1, <1>3
    <3> QED
      BY <1>10, <3>1
  <2>4. Like(s, suf) <=> n - m \in 0..(n - m) /\ Piece(n - m)
    BY <1>3, <1>8, <2>2
  <2> QED
    BY <2>1, <2>3, <2>4
<1> QED
  BY <1>3, <1>4, <1>5, <1>6, <1>11, <1>12, <1>13

-----------------------------------------------------------------------------
(* One filter: what is written means what the filter means.                *)

\* What a filter of the grid is, and what a column of a row may hold.
FilterType == [column : Columns \cup {""}, op : STRING, value : Seq(Text)]
Stored == Text \cup {Null}

\* The parts of a list are texts.
LEMMA SplitParts == ASSUME NEW v \in Seq(Text) PROVE Split(v) \in Seq(Text)
<1>1. Len(v) \in Nat /\ DOMAIN v = 1..Len(v) /\ \A k \in 1..Len(v) : v[k] \in Text
  OBVIOUS
<1>2. Filled(v) \in Seq(Text)
  <2> PICK n : n = Len(v)
    OBVIOUS
  <2>1. PICK u : /\ u[0] = <<>> /\ Filled(v) = u[n]
                 /\ \A k \in 1..n : u[k] = IF v[k] = <<>> THEN u[k - 1] ELSE Append(u[k - 1], v[k])
    BY <1>1, FilledChain
  <2> DEFINE G == {k \in 0..n : u[k] \in Seq(Text)}
  <2>2. 0 \in G
    <3>1. <<>> \in Seq(Text)
      OBVIOUS
    <3>2. u[0] \in Seq(Text)
      BY <2>1, <3>1, Zenon
    <3> QED
      BY <1>1, <3>2
  <2>3. ASSUME NEW k \in 0..n, k < n, k \in G
        PROVE  k + 1 \in G
    <3>1. k + 1 \in 1..n /\ k + 1 \in 0..n /\ (k + 1) - 1 = k
      BY <1>1, <2>3
    <3>2. u[k + 1] = u[k] \/ u[k + 1] = Append(u[k], v[k + 1])
      BY <2>1, <3>1
    <3>3. u[k] \in Seq(Text) /\ v[k + 1] \in Text
      BY <1>1, <2>3, <3>1
    <3>4. u[k + 1] \in Seq(Text)
      <4> PICK q, x : q = u[k] /\ x = v[k + 1]
        OBVIOUS
      <4>1. Append(q, x) \in Seq(Text)
        BY <3>3
      <4> QED
        BY <3>2, <3>3, <4>1
    <3> QED
      BY <3>1, <3>4
  <2>4. n \in G
    <3> HIDE DEF G
    <3>1. \A k \in 0..n : k \in G
      BY <1>1, <2>2, <2>3, UpTo
    <3> QED
      BY <1>1, <3>1
  <2> QED
    BY <2>1, <2>4
<1>3. Inner(v) \in Seq(Text)
  <2>1. CASE v # <<>>
    <3>1. Front(v) \in Seq(Text)
      BY <1>1, <2>1 DEF Front
    <3> QED
      BY <3>1 DEF Inner
  <2>2. CASE v = <<>>
    BY <2>2 DEF Inner
  <2> QED
    BY <2>1, <2>2
<1> QED
  BY <1>2, <1>3 DEF Split

\* What is written in SQL is what the filter means.
LEMMA FilterHolds ==
  ASSUME NEW f \in FilterType, NEW s \in Stored, NEW parts, parts = Split(f.value),
         Written(f, parts)
  PROVE  /\ IsSequence(Operands(f, parts))
         /\ Holds(SqlOp(f.op), s, Operands(f, parts)) <=> Means(f, s)
<1> PICK op : op = f.op
  OBVIOUS
<1> PICK t : t = IF f.value = <<>> THEN <<>> ELSE f.value[1]
  OBVIOUS
<1>1. t \in Text /\ parts \in Seq(Text)
  <2>1. f.value \in Seq(Text)
    BY DEF FilterType
  <2>2. parts \in Seq(Text)
    BY <2>1, SplitParts
  <2>3. <<>> \in Text
    BY DEF Text
  <2>4. f.value # <<>> => f.value[1] \in Text
    BY <2>1
  <2> QED
    BY <2>2, <2>3, <2>4
<1>0. /\ Means(f, s) <=>
           IF op \in Nulls THEN s = Null <=> op = "IS NULL" ELSE s # Null /\ Fits(f, s)
      /\ Holds("IS NULL", s, <<>>) <=> s = Null
      /\ Holds("IS NOT NULL", s, <<>>) <=> s # Null
  BY DEF Means, Holds
<1>9. \A vals, o : o \notin {"IS NULL", "IS NOT NULL"} =>
        (Holds(o, s, vals) <=> s # Null /\ Compares(o, s, vals))
  BY Zenon DEF Holds
<1>2. op \in Compared \cup Nulls \cup Lists \cup Ranges
  BY DEF Written
<1>3. CASE op \in Nulls
  <2>1. Operands(f, parts) = <<>> /\ SqlOp(op) = op
    <3>1. Operands(f, parts) = <<>>
      BY <1>3 DEF Operands, Nulls, Lists, Ranges
    <3>2. SqlOp(op) = op
      BY <1>3 DEF SqlOp, Nulls
    <3> QED
      BY <3>1, <3>2
  <2>2. Means(f, s) <=> ((s = Null) <=> (op = "IS NULL"))
    BY <1>3, <1>0
  <2>3. Holds(op, s, <<>>) <=> ((s = Null) <=> (op = "IS NULL"))
    BY <1>3, <1>0 DEF Nulls
  <2> QED
    BY <2>1, <2>2, <2>3, EmptyIsSequence
<1>4. CASE op \in Lists
  <2>1. Operands(f, parts) = parts /\ SqlOp(op) = op /\ op \notin Nulls /\ IsSequence(parts)
    BY <1>1, <1>4, SequenceOf DEF Operands, SqlOp, Nulls, Lists
  <2> PICK among \in BOOLEAN : among <=> \E n \in DOMAIN parts : parts[n] = s
    OBVIOUS
  <2>2. Means(f, s) <=> s # Null /\ (among <=> op = "IN")
    <3>1. Fits(f, s) <=> (among <=> op = "IN")
      BY <1>4 DEF Fits, Lists, Ranges
    <3> QED
      BY <2>1, <3>1, <1>0
  <2>3. s \in Range(parts) <=> among
    BY DEF Range
  <2>4. Holds(op, s, parts) <=> s # Null /\ (among <=> op = "IN")
    <3>1. Compares(op, s, parts) <=> (among <=> op = "IN")
      BY <1>4, <2>3 DEF Compares, Lists
    <3> QED
      BY <2>1, <3>1, <1>9 DEF Nulls
  <2> QED
    BY <2>1, <2>2, <2>4
<1>5. CASE op \in Ranges
  <2>1. /\ Operands(f, parts) = parts /\ SqlOp(op) = op
        /\ op \notin Nulls \cup Lists /\ IsSequence(parts)
    BY <1>1, <1>5, SequenceOf DEF Operands, SqlOp, Nulls, Lists, Ranges
  <2> PICK lo, hi : lo = parts[1] /\ hi = parts[2]
    OBVIOUS
  <2> PICK among \in BOOLEAN : among <=> ~Less(s, lo) /\ ~Less(hi, s)
    OBVIOUS
  <2>2. Means(f, s) <=> s # Null /\ (among <=> op = "BETWEEN")
    <3>1. Fits(f, s) <=> (among <=> op = "BETWEEN")
      BY <1>5, <2>1 DEF Fits, Ranges
    <3> QED
      BY <2>1, <3>1, <1>0
  <2>3. Holds(op, s, parts) <=> s # Null /\ (among <=> op = "BETWEEN")
    <3>1. Compares(op, s, parts) <=> (among <=> op = "BETWEEN")
      BY <1>5 DEF Compares, Ranges, Between
    <3> QED
      BY <2>1, <3>1, <1>9 DEF Nulls
  <2> QED
    BY <2>1, <2>2, <2>3
<1>6. CASE op \in {"=", "<>", "<", ">", "<=", ">=", "LIKE"}
  <2>1. Operands(f, parts) = <<t>> /\ SqlOp(op) = op /\ op \notin Nulls \cup Lists \cup Ranges
    BY <1>6 DEF Operands, SqlOp, Nulls, Lists, Ranges
  <2>2. IsSequence(<<t>>)
    <3>1. <<t>> \in Seq({t})
      OBVIOUS
    <3> QED
      BY <3>1, SequenceOf
  <2>3. Fits(f, s) <=> Compares(op, s, <<t>>)
    BY <1>6, <2>1 DEF Fits
  <2>4. Means(f, s) <=> Holds(op, s, <<t>>)
    BY <2>1, <2>3, <1>0, <1>9 DEF Nulls
  <2> QED
    BY <2>1, <2>2, <2>4
<1>7. CASE op \in {"Contains", "Not contains", "Has prefix", "Has suffix"}
  <2>1. IsSequence(s) /\ IsSequence(t) /\ Plain(t)
    <3>1. t \in Seq(Range(Letters))
      BY <1>1 DEF Text
    <3>2. IsSequence(t)
      BY <3>1, SequenceOf
    <3>3. s \in Seq(Range(Letters)) \/ s \in Seq({"NULL"})
      <4>1. <<"NULL">> \in Seq({"NULL"})
        OBVIOUS
      <4> QED
        BY <4>1 DEF Stored, Text, Null
    <3>4. IsSequence(s)
      BY <3>3, SequenceOf
    <3>5. \A j \in DOMAIN t : t[j] \in Range(Letters)
      BY <3>1
    <3> QED
      BY <3>2, <3>4, <3>5, PagesAssumption DEF Plain
  <2>3. PICK any : any = <<"%">>
    OBVIOUS
  <2>4. PICK pre : pre = t \o any
    OBVIOUS
  <2>5. PICK suf : suf = any \o t
    OBVIOUS
  <2>6. PICK mid : mid = suf \o any
    OBVIOUS
  <2>10. /\ Like(s, mid) <=> Occurs(t, s)
         /\ Like(s, pre) <=> Len(t) <= Len(s) /\ SubSeq(s, 1, Len(t)) = t
         /\ Like(s, suf) <=> Len(t) <= Len(s) /\ SubSeq(s, Len(s) - Len(t) + 1, Len(s)) = t
    BY <2>1, <2>3, <2>4, <2>5, <2>6, Patterns
  <2>14. \A x : IsSequence(<<x>>) /\ <<x>>[1] = x
    <3> SUFFICES ASSUME NEW x PROVE IsSequence(<<x>>) /\ <<x>>[1] = x
      OBVIOUS
    <3>1. <<x>> \in Seq({x}) /\ <<x>>[1] = x
      OBVIOUS
    <3> QED
      BY <3>1, SequenceOf
  <2>15. op \notin Nulls \cup Lists \cup Ranges
    BY <1>7 DEF Nulls, Lists, Ranges
  <2>16. CASE op = "Contains"
    <3>1. Operands(f, parts) = <<mid>> /\ SqlOp(op) = "LIKE"
      BY <2>3, <2>5, <2>6, <2>15, <2>16 DEF Operands, SqlOp
    <3>2. Holds("LIKE", s, <<mid>>) <=> s # Null /\ Like(s, mid)
      <4>1. Compares("LIKE", s, <<mid>>) <=> Like(s, mid)
        BY DEF Compares
      <4> QED
        BY <4>1, <1>9
    <3>3. Means(f, s) <=> s # Null /\ Occurs(t, s)
      <4>1. Fits(f, s) <=> Occurs(t, s)
        BY <2>15, <2>16 DEF Fits
      <4> QED
        BY <2>15, <4>1, <1>0
    <3> QED
      BY <2>10, <2>14, <3>1, <3>2, <3>3
  <2>17. CASE op = "Not contains"
    <3>1. Operands(f, parts) = <<mid>> /\ SqlOp(op) = "NOT LIKE"
      BY <2>3, <2>5, <2>6, <2>15, <2>17 DEF Operands, SqlOp
    <3>2. Holds("NOT LIKE", s, <<mid>>) <=> s # Null /\ ~Like(s, mid)
      <4>1. Compares("NOT LIKE", s, <<mid>>) <=> ~Like(s, mid)
        BY DEF Compares
      <4> QED
        BY <4>1, <1>9
    <3>3. Means(f, s) <=> s # Null /\ ~Occurs(t, s)
      <4>1. Fits(f, s) <=> ~Occurs(t, s)
        BY <2>15, <2>17 DEF Fits
      <4> QED
        BY <2>15, <4>1, <1>0
    <3> QED
      BY <2>10, <2>14, <3>1, <3>2, <3>3
  <2>18. CASE op = "Has prefix"
    <3>1. Operands(f, parts) = <<pre>> /\ SqlOp(op) = "LIKE"
      BY <2>3, <2>4, <2>15, <2>18 DEF Operands, SqlOp
    <3>2. Holds("LIKE", s, <<pre>>) <=> s # Null /\ Like(s, pre)
      <4>1. Compares("LIKE", s, <<pre>>) <=> Like(s, pre)
        BY DEF Compares
      <4> QED
        BY <4>1, <1>9
    <3>3. Means(f, s) <=> s # Null /\ Len(t) <= Len(s) /\ SubSeq(s, 1, Len(t)) = t
      <4>1. Fits(f, s) <=> Len(t) <= Len(s) /\ SubSeq(s, 1, Len(t)) = t
        BY <2>15, <2>18 DEF Fits
      <4> QED
        BY <2>15, <4>1, <1>0
    <3> QED
      BY <2>10, <2>14, <3>1, <3>2, <3>3
  <2>19. CASE op = "Has suffix"
    <3>1. Operands(f, parts) = <<suf>> /\ SqlOp(op) = "LIKE"
      BY <2>3, <2>5, <2>15, <2>19 DEF Operands, SqlOp
    <3>2. Holds("LIKE", s, <<suf>>) <=> s # Null /\ Like(s, suf)
      <4>1. Compares("LIKE", s, <<suf>>) <=> Like(s, suf)
        BY DEF Compares
      <4> QED
        BY <4>1, <1>9
    <3>3. Means(f, s) <=> s # Null /\ Len(t) <= Len(s) /\ SubSeq(s, Len(s) - Len(t) + 1, Len(s)) = t
      <4>1. Fits(f, s) <=> Len(t) <= Len(s) /\ SubSeq(s, Len(s) - Len(t) + 1, Len(s)) = t
        BY <2>15, <2>19 DEF Fits
      <4> QED
        BY <2>15, <4>1, <1>0
    <3> QED
      BY <2>10, <2>14, <3>1, <3>2, <3>3
  <2> QED
    BY <1>7, <2>16, <2>17, <2>18, <2>19
<1>8. Compared = {"=", "<>", "<", ">", "<=", ">=", "LIKE"}
                 \cup {"Contains", "Not contains", "Has prefix", "Has suffix"}
  BY DEF Compared
<1> QED
  BY <1>2, <1>3, <1>4, <1>5, <1>6, <1>7, <1>8

-----------------------------------------------------------------------------
(* The clause: its parameters are where its conditions need them.          *)

\* Two sequences of the same length with the same elements are one.
LEMMA SameSequence ==
  ASSUME NEW s, NEW t, IsSequence(s), IsSequence(t), Len(s) = Len(t),
         \A j \in 1..Len(s) : s[j] = t[j]
  PROVE  s = t
<1>1. s = [j \in 1..Len(s) |-> s[j]] /\ t = [j \in 1..Len(t) |-> t[j]]
  BY SequenceParts
<1> QED
  BY <1>1

\* The values of a clause, as the statement writes them, and those written after m others.
WrittenAfter(style, m, new) == [i \in DOMAIN new |-> Mark(style, m + i, new[i])]
Marks(style, args) == [j \in 1..Len(args) |-> Mark(style, j, args[j])]

\* Every value of a clause has its mark.
LEMMA MarksParts ==
  ASSUME NEW style, NEW args, IsSequence(args)
  PROVE  /\ IsSequence(Marks(style, args)) /\ Len(Marks(style, args)) = Len(args)
         /\ \A j \in 1..Len(args) : Marks(style, args)[j] = Mark(style, j, args[j])
<1> DEFINE s == Marks(style, args)
           S == {s[j] : j \in 1..Len(args)}
<1>1. Len(args) \in Nat
  BY SequenceParts
<1>2. \A j \in 1..Len(args) : s[j] = Mark(style, j, args[j])
  BY Zenon DEF Marks
<1>3. s \in [1..Len(args) -> S]
  BY DEF Marks
<1> HIDE DEF S, s
<1>4. s \in Seq(S) /\ Len(s) = Len(args)
  BY <1>1, <1>3
<1>5. IsSequence(s)
  BY <1>4, SequenceOf
<1> QED
  BY <1>2, <1>4, <1>5 DEF s

\* The marks of a clause, and those of a filter written after it.
LEMMA MoreMarks ==
  ASSUME NEW style, NEW args, IsSequence(args), NEW new, IsSequence(new),
         NEW ops, ops = WrittenAfter(style, Len(args), new)
  PROVE  /\ IsSequence(ops) /\ Len(ops) = Len(new)
         /\ Marks(style, args \o new) = Marks(style, args) \o ops
<1> PICK m, n : m = Len(args) /\ n = Len(new)
  OBVIOUS
<1> PICK all : all = args \o new
  OBVIOUS
<1>1. m \in Nat /\ n \in Nat /\ DOMAIN new = 1..n
  BY SequenceParts
<1>2. /\ IsSequence(all) /\ Len(all) = m + n
      /\ \A j \in 1..(m + n) : all[j] = IF j <= m THEN args[j] ELSE new[j - m]
  BY ConcatParts
<1>3. IsSequence(ops) /\ Len(ops) = n /\ \A i \in 1..n : ops[i] = Mark(style, m + i, new[i])
  <2> DEFINE S == {ops[i] : i \in 1..n}
  <2>1. \A i \in 1..n : ops[i] = Mark(style, m + i, new[i])
    BY <1>1, Zenon DEF WrittenAfter
  <2>2. ops \in [1..n -> S]
    BY <1>1 DEF WrittenAfter
  <2> HIDE DEF S
  <2>3. ops \in Seq(S) /\ Len(ops) = n
    BY <1>1, <2>2
  <2> QED
    BY <2>1, <2>3, SequenceOf
<1> PICK before, after : before = Marks(style, args) /\ after = Marks(style, all)
  OBVIOUS
<1>4. /\ IsSequence(before) /\ Len(before) = m
      /\ \A j \in 1..m : before[j] = Mark(style, j, args[j])
  BY MarksParts
<1>5. /\ IsSequence(after) /\ Len(after) = m + n
      /\ \A j \in 1..(m + n) : after[j] = Mark(style, j, all[j])
  <2>1. /\ IsSequence(after) /\ Len(after) = Len(all)
        /\ \A j \in 1..Len(all) : after[j] = Mark(style, j, all[j])
    BY <1>2, MarksParts
  <2> QED
    BY <1>2, <2>1, Zenon
<1> PICK both : both = before \o ops
  OBVIOUS
<1>6. /\ IsSequence(both) /\ Len(both) = m + n
      /\ \A j \in 1..(m + n) : both[j] = IF j <= m THEN before[j] ELSE ops[j - m]
  <2>1. /\ IsSequence(both) /\ Len(both) = Len(before) + Len(ops)
        /\ \A j \in 1..(Len(before) + Len(ops)) :
             both[j] = IF j <= Len(before) THEN before[j] ELSE ops[j - Len(before)]
    BY <1>3, <1>4, ConcatParts
  <2> QED
    BY <1>3, <1>4, <2>1, Zenon
<1>7. ASSUME NEW j \in 1..(m + n) PROVE after[j] = both[j]
  <2>1. CASE j <= m
    <3>1. j \in 1..m
      BY <1>1, <2>1
    <3>2. after[j] = Mark(style, j, args[j])
      BY <1>2, <1>5, <2>1, Zenon
    <3>3. both[j] = before[j]
      BY <1>6, <2>1
    <3> QED
      BY <1>4, <3>1, <3>2, <3>3
  <2>2. CASE ~(j <= m)
    <3>1. PICK i : i = j - m
      OBVIOUS
    <3>2. i \in 1..n /\ m + i = j
      BY <1>1, <2>2, <3>1
    <3>3. after[j] = Mark(style, j, new[i])
      BY <1>2, <1>5, <2>2, <3>1, Zenon
    <3>4. both[j] = ops[i]
      BY <1>6, <2>2, <3>1
    <3>5. ops[i] = Mark(style, j, new[i])
      BY <1>3, <3>2
    <3> QED
      BY <3>3, <3>4, <3>5
  <2> QED
    BY <2>1, <2>2
<1>8. after = both
  BY <1>5, <1>6, <1>7, SameSequence
<1> QED
  BY <1>3, <1>8

\* Values that begin with the parameters of a clause.
Fills(vals, args) ==
  IsSequence(vals) /\ Len(args) <= Len(vals) /\ \A j \in 1..Len(args) : vals[j] = args[j]
\* A row is what the first k filters mean.
Agree(r, fs, k) == \A m \in 1..k : fs[m].column # "" => Means(fs[m], r[fs[m].column])
\* A clause is its conditions and its parameters.
IsClause(c) == c = [conds |-> c.conds, args |-> c.args]
\* The clause of the first k filters.
ClauseIs(style, c, fs, k) ==
  /\ IsClause(c)
  /\ IsSequence(c.conds) /\ IsSequence(c.args)
  /\ AllOperands(c.conds) = Marks(style, c.args)
  /\ \A r \in [Columns -> Stored] : \A vals :
       Fills(vals, c.args) => (Satisfies(r, c.conds, vals) <=> Agree(r, fs, k))

\* No condition has no operand.
LEMMA NoOperands == AllOperands(<<>>) = <<>>
<1> PICK s : s = [i \in DOMAIN <<>> |-> <<>>[i].operands]
  OBVIOUS
<1>1. s = <<>>
  OBVIOUS
<1>2. AllOperands(<<>>) = FlattenSeq(s)
  BY DEF AllOperands
<1>3. FlattenSeq(<<>>) = <<>>
  <2>1. Len(<<>>) = 0
    OBVIOUS
  <2> QED
    BY <2>1, Zenon DEF FlattenSeq
<1> QED
  BY <1>1, <1>2, <1>3

\* The clause of no filter leaves every row.
LEMMA NoClause ==
  ASSUME NEW style, NEW fs
  PROVE  ClauseIs(style, [conds |-> <<>>, args |-> <<>>], fs, 0)
<1>2. Marks(style, <<>>) = <<>>
  BY DEF Marks
<1>3. \A r, vals : Satisfies(r, <<>>, vals) /\ Agree(r, fs, 0)
  <2>1. DOMAIN <<>> = {} /\ 1..0 = {}
    OBVIOUS
  <2> QED
    BY <2>1, Zenon DEF Satisfies, Agree
<1> QED
  BY <1>2, <1>3, NoOperands, EmptyIsSequence DEF ClauseIs, IsClause

\* One more filter keeps a clause the clause of its filters.
LEMMA ClauseMore ==
  ASSUME NEW style, NEW fs, NEW k \in Nat, NEW c, ClauseIs(style, c, fs, k),
         NEW f, f = fs[k + 1], f \in FilterType
  PROVE  ClauseIs(style, WithFilter(style, c, f), fs, k + 1)
<1>4. PICK parts : parts = Split(f.value)
  OBVIOUS
<1>5. PICK new : new = Operands(f, parts)
  OBVIOUS
<1>6. PICK conds, args : conds = c.conds /\ args = c.args
  OBVIOUS
<1>0. \A r : Agree(r, fs, k + 1) <=>
              Agree(r, fs, k) /\ (f.column # "" => Means(f, r[f.column]))
  <2>1. \A m : m \in 1..(k + 1) <=> m \in 1..k \/ m = k + 1
    OBVIOUS
  <2> QED
    BY <2>1, Zenon DEF Agree
<1>1. /\ IsClause(c)
      /\ IsSequence(conds) /\ IsSequence(args) /\ AllOperands(conds) = Marks(style, args)
      /\ \A r \in [Columns -> Stored] : \A vals :
           Fills(vals, args) => (Satisfies(r, conds, vals) <=> Agree(r, fs, k))
  BY <1>6, Zenon DEF ClauseIs
<1>2. CASE ~Written(f, parts)
  <2>1. WithFilter(style, c, f) = c
    BY <1>2, <1>4 DEF WithFilter
  <2>2. \A r : Agree(r, fs, k + 1) <=> Agree(r, fs, k)
    <3>1. \A s : Means(f, s)
      BY <1>2, <1>4, Zenon DEF Means
    <3> QED
      BY <1>0, <3>1, Zenon
  <2> QED
    BY <1>1, <1>6, <2>1, <2>2, Zenon DEF ClauseIs
<1>3. CASE Written(f, parts)
  <2>8. PICK ops : ops = [i \in DOMAIN new |-> Mark(style, Len(args) + i, new[i])]
    OBVIOUS
  <2>9. PICK cond : cond = [column |-> f.column, op |-> SqlOp(f.op), operands |-> ops]
    OBVIOUS
  <2>10. PICK conds2, args2 : conds2 = Append(conds, cond) /\ args2 = args \o new
    OBVIOUS
  <2>1. WithFilter(style, c, f) = [conds |-> conds2, args |-> args2]
    BY <1>3, <1>4, <1>5, <1>6, <2>8, <2>9, <2>10 DEF WithFilter
  <2>11. IsClause([conds |-> conds2, args |-> args2])
    BY DEF IsClause
  <2>2. /\ cond.column = f.column /\ cond.op = SqlOp(f.op) /\ cond.operands = ops
        /\ f.column \in Columns /\ f.column # ""
    <3>1. cond.column = f.column /\ cond.op = SqlOp(f.op) /\ cond.operands = ops
      BY <2>9
    <3>2. f.column \in Columns /\ f.column # ""
      BY <1>3 DEF Written, FilterType
    <3> QED
      BY <3>1, <3>2
  <2>3. IsSequence(new)
    <3>1. Null \in Stored
      BY DEF Stored
    <3> QED
      BY <1>3, <1>4, <1>5, <3>1, FilterHolds
  <2>4. IsSequence(ops) /\ Len(ops) = Len(new) /\ Marks(style, args2) = Marks(style, args) \o ops
    <3>1. IsSequence(args) /\ ops = WrittenAfter(style, Len(args), new)
      BY <1>1, <2>8 DEF WrittenAfter
    <3>2. IsSequence(ops) /\ Len(ops) = Len(new)
          /\ Marks(style, args \o new) = Marks(style, args) \o ops
      BY <2>3, <3>1, MoreMarks
    <3> QED
      BY <2>10, <3>2, Zenon
  <2>5. IsSequence(conds2) /\ IsSequence(args2)
    BY <1>1, <2>3, <2>10, Added, ConcatParts
  <2>6. AllOperands(conds2) = Marks(style, args2)
    <3>1. AllOperands(conds2) = IF conds = <<>> THEN ops ELSE Marks(style, args) \o ops
      <4>1. IsSequence(conds) /\ IsSequence(cond.operands)
        BY <1>1, <2>2, <2>4
      <4>2. AllOperands(Append(conds, cond)) =
              IF conds = <<>> THEN cond.operands ELSE AllOperands(conds) \o cond.operands
        BY <4>1, OperandsMore
      <4>3. cond.operands = ops /\ AllOperands(conds) = Marks(style, args)
        BY <1>1, <2>2
      <4> QED
        BY <2>10, <4>2, <4>3, Zenon
    <3>2. CASE conds = <<>>
      <4>1. Marks(style, args) = <<>>
        BY <1>1, <3>2, NoOperands
      <4>2. <<>> \o ops = ops
        <5> PICK S : S = {ops[i] : i \in DOMAIN ops}
          OBVIOUS
        <5>1. ops \in Seq(S)
          BY <2>4 DEF IsSequence
        <5> QED
          BY <5>1
      <4> QED
        BY <2>4, <3>1, <3>2, <4>1, <4>2
    <3> QED
      BY <2>4, <3>1, <3>2
  <2>7. ASSUME NEW r \in [Columns -> Stored], NEW vals, Fills(vals, args2)
        PROVE  Satisfies(r, conds2, vals) <=> Agree(r, fs, k + 1)
    <3>9. PICK a, b : a = Len(args) /\ b = Len(new)
      OBVIOUS
    <3>1. /\ a \in Nat /\ b \in Nat /\ Len(args2) = a + b
          /\ \A j \in 1..(a + b) : args2[j] = IF j <= a THEN args[j] ELSE new[j - a]
      <4>1. LET cat == args \o new
            IN  /\ a \in Nat /\ b \in Nat /\ Len(cat) = a + b
                /\ \A j \in 1..(a + b) : cat[j] = IF j <= a THEN args[j] ELSE new[j - a]
        BY <1>1, <2>3, <3>9, ConcatParts
      <4> QED
        BY <2>10, <4>1, Zenon
    <3>2. /\ IsSequence(vals) /\ a + b <= Len(vals) /\ Len(vals) \in Nat
          /\ \A j \in 1..(a + b) : vals[j] = args2[j]
      <4>1. /\ IsSequence(vals) /\ Len(args2) <= Len(vals)
            /\ \A j \in 1..Len(args2) : vals[j] = args2[j]
        BY <2>7, Zenon DEF Fills
      <4>2. Len(vals) \in Nat
        BY <4>1, SequenceParts
      <4> QED
        BY <3>1, <4>1, <4>2, Zenon
    <3>10. PICK l : l = Len(vals)
      OBVIOUS
    <3>3. Fills(vals, args)
      <4>0. a \in Nat /\ b \in Nat /\ a + b <= l /\ l \in Nat
        BY <3>1, <3>2, <3>10
      <4>1. a <= l /\ \A j \in 1..a : j \in 1..(a + b) /\ j <= a
        BY <4>0
      <4>2. \A j \in 1..a : vals[j] = args[j]
        BY <3>1, <3>2, <4>1, Zenon
      <4> QED
        BY <3>2, <3>9, <3>10, <4>1, <4>2, Zenon DEF Fills
    <3>4. SubSeq(vals, Len(args) + 1, Len(args) + Len(new)) = new
      <4>1. \A j \in 1..b : vals[a + j] = new[j]
        <5> SUFFICES ASSUME NEW j \in 1..b PROVE vals[a + j] = new[j]
          OBVIOUS
        <5>1. a + j \in 1..(a + b) /\ ~(a + j <= a) /\ (a + j) - a = j
          BY <3>1
        <5> QED
          BY <3>1, <3>2, <5>1
      <4>2. \A j \in 1..Len(new) : vals[a + j] = new[j]
        BY <3>9, <4>1, Zenon
      <4>3. a \in Nat /\ a + Len(new) <= Len(vals) /\ IsSequence(vals)
        <5>1. a \in Nat /\ b \in Nat /\ a + b <= l /\ l \in Nat
          BY <3>1, <3>2, <3>10
        <5> QED
          BY <3>2, <3>9, <3>10, <5>1, Zenon
      <4>4. SubSeq(vals, a + 1, a + Len(new)) = new
        BY <2>3, <4>2, <4>3, PieceIs
      <4> QED
        BY <3>9, <4>4, Zenon
    <3>5. Len(AllOperands(conds)) = Len(args)
      BY <1>1, MarksParts
    <3>6. Satisfies(r, conds2, vals) <=>
            /\ Satisfies(r, conds, vals)
            /\ Holds(SqlOp(f.op), r[f.column], new)
      <4>1. Satisfies(r, conds2, vals) <=>
              /\ Satisfies(r, conds, vals)
              /\ Holds(cond.op, r[cond.column],
                       SubSeq(vals, Len(args) + 1, Len(args) + Len(cond.operands)))
        <5>3. PICK from : from = Len(AllOperands(conds))
          OBVIOUS
        <5>1. IsSequence(conds) /\ from = Len(args)
          BY <1>1, <3>5, <5>3
        <5>2. Satisfies(r, Append(conds, cond), vals) <=>
                /\ Satisfies(r, conds, vals)
                /\ Holds(cond.op, r[cond.column],
                         SubSeq(vals, from + 1, from + Len(cond.operands)))
          BY <5>1, <5>3, SatisfiesMore
        <5> QED
          BY <2>10, <5>1, <5>2, Zenon
      <4>2. cond.op = SqlOp(f.op) /\ cond.column = f.column /\ Len(cond.operands) = Len(new)
        BY <2>2, <2>4
      <4> QED
        BY <3>4, <4>1, <4>2, Zenon
    <3>7. r[f.column] \in Stored
      BY <2>2
    <3>8. Holds(SqlOp(f.op), r[f.column], new) <=> Means(f, r[f.column])
      BY <1>3, <1>4, <1>5, <3>7, FilterHolds
    <3> QED
      BY <1>0, <1>1, <2>2, <3>3, <3>6, <3>8
  <2> QED
    BY <1>4, <2>1, <2>5, <2>6, <2>7, <2>11 DEF ClauseIs
<1> QED
  BY <1>2, <1>3

\* The clause of the filters means what they mean.
LEMMA ClauseMeans ==
  ASSUME NEW style, NEW fs, IsSequence(fs), \A k \in DOMAIN fs : fs[k] \in FilterType
  PROVE  ClauseIs(style, Clause(style, fs), fs, Len(fs))
<1> PICK n : n = Len(fs)
  OBVIOUS
<1>1. n \in Nat /\ DOMAIN fs = 1..n /\ \A k \in 1..n : fs[k] \in FilterType
  BY SequenceParts
<1>2. PICK u : /\ u[0] = [conds |-> <<>>, args |-> <<>>] /\ Clause(style, fs) = u[n]
               /\ \A k \in 1..n : u[k] = WithFilter(style, u[k - 1], fs[k])
  <2>1. n \in Nat /\ DOMAIN fs = 1..n
    BY <1>1
  <2> QED
    BY <2>1, ClauseChain
<1> DEFINE G == {k \in 0..n : ClauseIs(style, u[k], fs, k)}
<1>3. 0 \in G
  BY <1>1, <1>2, NoClause
<1>4. ASSUME NEW k \in 0..n, k < n, k \in G
      PROVE  k + 1 \in G
  <2>1. k \in Nat /\ k + 1 \in 1..n /\ k + 1 \in 0..n /\ (k + 1) - 1 = k
    BY <1>1, <1>4
  <2>2. u[k + 1] = WithFilter(style, u[k], fs[k + 1])
    BY <1>2, <2>1
  <2>3. ClauseIs(style, u[k], fs, k)
    BY <1>4
  <2>4. ClauseIs(style, WithFilter(style, u[k], fs[k + 1]), fs, k + 1)
    BY <1>1, <2>1, <2>3, ClauseMore
  <2> QED
    BY <2>1, <2>2, <2>4
<1>5. n \in G
  <2> HIDE DEF G
  <2>1. \A k \in 0..n : k \in G
    BY <1>1, <1>3, <1>4, UpTo
  <2> QED
    BY <1>1, <2>1
<1> QED
  BY <1>2, <1>5

-----------------------------------------------------------------------------
(* The two statements.                                                     *)

\* How an engine writes a parameter.
Styles == {"?", "$", "literal"}

\* The values of a statement reach their places: with a question mark each, with their
\* numbers, or written out.
LEMMA BoundMarks ==
  ASSUME NEW style \in Styles, NEW full, IsSequence(full), NEW args,
         style # "literal" => args = full
  PROVE  Bound(Marks(style, full), args) = full
<1>1. PICK n : n = Len(full)
  OBVIOUS
<1>2. PICK ops : ops = Marks(style, full)
  OBVIOUS
<1>3. n \in Nat /\ full = [j \in 1..n |-> full[j]]
  BY <1>1, SequenceParts
<1>4. DOMAIN ops = 1..n /\ \A j \in 1..n : ops[j] = Mark(style, j, full[j])
  BY <1>1, <1>2, MarksParts, SequenceParts
<1>5. Bound(ops, args) = [j \in 1..n |-> Bound(ops, args)[j]]
  BY <1>4 DEF Bound
<1>6. ASSUME NEW j \in 1..n PROVE Bound(ops, args)[j] = full[j]
  <2>1. PICK value : value = full[j]
    OBVIOUS
  <2>2. Bound(ops, args)[j] =
          CASE ops[j][1] = "literal" -> ops[j][2]
            [] ops[j][1] = "$" -> args[ops[j][2]]
            [] OTHER -> args[Cardinality({i \in 1..j : ops[i][1] = "?"})]
    BY <1>4, Zenon DEF Bound
  <2>3. ops[j] = Mark(style, j, value)
    BY <1>4, <2>1
  <2>4. CASE style = "literal"
    <3>1. ops[j] = <<"literal", value>>
      BY <2>3, <2>4 DEF Mark, Literal
    <3>2. ops[j][1] = "literal" /\ ops[j][2] = value
      BY <3>1
    <3> QED
      BY <2>1, <2>2, <3>2
  <2>5. CASE style = "$"
    <3>1. ops[j] = <<"$", j>>
      BY <2>3, <2>5 DEF Mark, Numbered
    <3>2. ops[j][1] = "$" /\ ops[j][2] = j
      BY <3>1
    <3> QED
      BY <2>2, <2>5, <3>2
  <2>6. CASE style = "?"
    <3>1. \A i \in 1..n : ops[i] = <<"?">> /\ ops[i][1] = "?"
      BY <1>4, <2>6 DEF Mark, QuestionMark
    <3>2. {i \in 1..j : ops[i][1] = "?"} = 1..j
      <4>1. \A i \in 1..j : i \in 1..n
        BY <1>3
      <4> QED
        BY <3>1, <4>1
    <3>3. Cardinality(1..j) = j
      <4>1. j \in Nat /\ 1 <= j
        BY <1>3
      <4>2. Cardinality(1..j) = j - 1 + 1
        BY <4>1, FS_Interval
      <4> QED
        BY <4>1, <4>2
    <3>4. ops[j][1] = "?"
      BY <3>1
    <3>5. Bound(ops, args)[j] = args[Cardinality({i \in 1..j : ops[i][1] = "?"})]
      BY <2>2, <3>4
    <3> QED
      BY <2>6, <3>2, <3>3, <3>5
  <2> QED
    BY <2>4, <2>5, <2>6 DEF Styles
<1>7. Bound(ops, args) = full
  BY <1>3, <1>5, <1>6
<1> QED
  BY <1>2, <1>7

\* Options that a grid may have chosen, as far as the filters go.
Filtered(o) == IsSequence(o.filters) /\ \A k \in DOMAIN o.filters : o.filters[k] \in FilterType
\* What a row of a table is.
Records == [Columns -> Stored]

\* The rows that conditions leave.
Left(rows, conds, vals) == {r \in rows : Satisfies(r, conds, vals)}

\* The rows that a clause leaves, whatever else is bound after its own values.
LEMMA RowsMeant ==
  ASSUME NEW style, NEW o, Filtered(o), NEW rows \in SUBSET Records,
         NEW c, c = Clause(style, o.filters), NEW vals, Fills(vals, c.args)
  PROVE  Left(rows, c.conds, vals) = Matching(rows, o)
<1>1. PICK n : n = Len(o.filters)
  OBVIOUS
<1>2. DOMAIN o.filters = 1..n
  BY <1>1, SequenceParts DEF Filtered
<1>3. ClauseIs(style, c, o.filters, n)
  BY <1>1, ClauseMeans DEF Filtered
<1>4. \A r \in rows : Satisfies(r, c.conds, vals) <=> Agree(r, o.filters, n)
  BY <1>3, Zenon DEF ClauseIs, Records
<1>5. \A r \in rows : Agree(r, o.filters, n) <=>
        \A k \in DOMAIN o.filters :
          o.filters[k].column # "" => Means(o.filters[k], r[o.filters[k].column])
  BY <1>2, Zenon DEF Agree
<1> QED
  BY <1>4, <1>5, Zenon DEF Matching, Left

\* The values of the clause are its own.
LEMMA OwnValues ==
  ASSUME NEW args, IsSequence(args), NEW more, IsSequence(more)
  PROVE  Fills(args, args) /\ Fills(args \o more, args)
<1>1. PICK m, n, all : m = Len(args) /\ n = Len(more) /\ all = args \o more
  OBVIOUS
<1>2. /\ m \in Nat /\ n \in Nat /\ IsSequence(all) /\ Len(all) = m + n
      /\ \A j \in 1..(m + n) : all[j] = IF j <= m THEN args[j] ELSE more[j - m]
  BY <1>1, ConcatParts
<1>3. m <= m /\ m <= m + n /\ \A j \in 1..m : j <= m /\ j \in 1..(m + n)
  BY <1>2
<1>4. \A j \in 1..m : all[j] = args[j]
  BY <1>2, <1>3, Zenon
<1> QED
  BY <1>1, <1>2, <1>3, <1>4, Zenon DEF Fills

\* The statement that counts.
LEMMA CountMeans ==
  ASSUME NEW style \in Styles, NEW o, Filtered(o), stored \in SUBSET Records,
         NEW where, where.conds = Clause(style, o.filters).conds,
         style # "literal" => where.args = Clause(style, o.filters).args
  PROVE  Counted(where) = Cardinality(Matching(stored, o))
<1>1. PICK c : c = Clause(style, o.filters)
  OBVIOUS
<1>2. IsSequence(c.args) /\ AllOperands(c.conds) = Marks(style, c.args)
  BY <1>1, ClauseMeans DEF Filtered, ClauseIs
<1>3. Bound(AllOperands(where.conds), where.args) = c.args
  BY <1>1, <1>2, BoundMarks
<1>4. {r \in stored : Satisfies(r, c.conds, c.args)} = Matching(stored, o)
  <2>1. PICK rows \in SUBSET Records : rows = stored
    OBVIOUS
  <2>2. Fills(c.args, c.args)
    BY <1>2, OwnValues
  <2>3. Left(rows, c.conds, c.args) = Matching(rows, o)
    BY <1>1, <2>1, <2>2, RowsMeant
  <2> QED
    BY <2>1, <2>3, Zenon DEF Left
<1> QED
  BY <1>1, <1>3, <1>4, Zenon DEF Counted

\* A statement after a clause c: the two values of a page are operands m + 1 and m + 2, the
\* limit being operand m + x and the offset m + y.
Placed(stmt, style, o, c, m, two, x, y) ==
  /\ IsSequence(two) /\ Len(two) = 2 /\ two[x] = PerPage(o) /\ two[y] = Offset(o)
  /\ stmt.conds = c.conds
  /\ style # "literal" => m = Len(c.args) /\ stmt.args = c.args \o two
  /\ \A n \in 1..2 : stmt.tail[n].operand = Mark(style, m + n, two[n])
  /\ \A n \in 1..2 : (stmt.tail[n].name = "limit" <=> n = x)
                     /\ (stmt.tail[n].name = "offset" <=> n = y)

\* The statement that reads a page: where the limit and the offset stand in it, they are bound.
LEMMA PageMeans ==
  ASSUME NEW style \in Styles, NEW o, Filtered(o), stored \in SUBSET Records,
         NEW c, c = Clause(style, o.filters), NEW m, NEW two, NEW x \in 1..2, NEW y \in 1..2,
         NEW stmt, Placed(stmt, style, o, c, m, two, x, y)
  PROVE  Answers(stmt, o) = Pages(Matching(stored, o), o, PerPage(o), Offset(o))
<1>0. /\ IsSequence(two) /\ Len(two) = 2 /\ two[x] = PerPage(o) /\ two[y] = Offset(o)
      /\ stmt.conds = c.conds
      /\ style # "literal" => m = Len(c.args) /\ stmt.args = c.args \o two
      /\ \A n \in 1..2 : stmt.tail[n].operand = Mark(style, m + n, two[n])
      /\ \A n \in 1..2 : (stmt.tail[n].name = "limit" <=> n = x)
                         /\ (stmt.tail[n].name = "offset" <=> n = y)
  BY Zenon DEF Placed
<1>1. PICK own, a, full : own = c.args /\ a = Len(own) /\ full = own \o two
  OBVIOUS
<1>2. IsSequence(own) /\ AllOperands(c.conds) = Marks(style, own)
  BY <1>1, ClauseMeans DEF Filtered, ClauseIs
<1>3. /\ IsSequence(full) /\ a \in Nat /\ Len(full) = a + 2
      /\ \A j \in 1..(a + 2) : full[j] = IF j <= a THEN own[j] ELSE two[j - a]
  <2>1. /\ IsSequence(full) /\ Len(own) \in Nat /\ Len(full) = Len(own) + Len(two)
        /\ \A j \in 1..(Len(own) + Len(two)) :
             full[j] = IF j <= Len(own) THEN own[j] ELSE two[j - Len(own)]
    BY <1>0, <1>1, <1>2, ConcatParts
  <2> QED
    BY <1>0, <1>1, <2>1, Zenon
<1>4. PICK tail : tail = [n \in 1..2 |-> stmt.tail[n].operand]
  OBVIOUS
<1>5. tail = WrittenAfter(style, a, two)
  <2>1. DOMAIN two = 1..2
    BY <1>0, SequenceParts
  <2>2. \A n \in 1..2 : stmt.tail[n].operand = Mark(style, a + n, two[n])
    <3>1. CASE style = "literal"
      <4>1. \A j, k, text : Mark(style, j, text) = Mark(style, k, text)
        BY <3>1 DEF Mark, Literal
      <4> SUFFICES ASSUME NEW n \in 1..2
                   PROVE  stmt.tail[n].operand = Mark(style, a + n, two[n])
        OBVIOUS
      <4>2. stmt.tail[n].operand = Mark(style, m + n, two[n])
        BY <1>0
      <4>3. Mark(style, m + n, two[n]) = Mark(style, a + n, two[n])
        BY <4>1, Zenon
      <4> QED
        BY <4>2, <4>3, Zenon
    <3>2. CASE style # "literal"
      BY <1>0, <1>1, <3>2, Zenon
    <3> QED
      BY <3>1, <3>2
  <2> QED
    BY <1>4, <2>1, <2>2 DEF WrittenAfter
<1>6. PICK vals : vals = Bound(AllOperands(stmt.conds) \o tail, stmt.args)
  OBVIOUS
<1>7. vals = full
  <2>1. Marks(style, full) = Marks(style, own) \o tail
    <3>1. tail = WrittenAfter(style, Len(own), two)
      BY <1>1, <1>5
    <3>2. Marks(style, own \o two) = Marks(style, own) \o tail
      BY <1>0, <1>2, <3>1, MoreMarks
    <3> QED
      BY <1>1, <3>2, Zenon
  <2>2. style # "literal" => stmt.args = full
    BY <1>0, <1>1, Zenon
  <2>3. Bound(Marks(style, full), stmt.args) = full
    BY <1>3, <2>2, BoundMarks
  <2> QED
    BY <1>0, <1>2, <1>6, <2>1, <2>3, Zenon
<1>8. {r \in stored : Satisfies(r, stmt.conds, vals)} = Matching(stored, o)
  <2>1. PICK rows \in SUBSET Records : rows = stored
    OBVIOUS
  <2>2. Fills(vals, own)
    BY <1>0, <1>1, <1>2, <1>7, OwnValues
  <2>3. Left(rows, c.conds, vals) = Matching(rows, o)
    <3>1. Fills(vals, c.args)
      BY <1>1, <2>2, Zenon
    <3>2. Filtered(o) /\ c = Clause(style, o.filters)
      OBVIOUS
    <3> QED
      BY <3>1, <3>2, RowsMeant, Zenon
  <2> QED
    BY <1>0, <2>1, <2>3, Zenon DEF Left
<1>9. ASSUME NEW name, NEW z \in 1..2, \A n \in 1..2 : stmt.tail[n].name = name <=> n = z
      PROVE  vals[Len(vals) - 2 + CHOOSE n \in 1..2 : stmt.tail[n].name = name] = two[z]
  <2>1. PICK k : k = CHOOSE n \in 1..2 : stmt.tail[n].name = name
    OBVIOUS
  <2>2. k \in 1..2 /\ stmt.tail[k].name = name
    BY <1>9, <2>1
  <2>3. k = z
    BY <1>9, <2>2
  <2>4. Len(vals) - 2 + z = a + z /\ a + z \in 1..(a + 2) /\ ~(a + z <= a) /\ (a + z) - a = z
    BY <1>3, <1>7
  <2>5. vals[a + z] = two[z]
    BY <1>3, <1>7, <2>4
  <2> QED
    BY <2>1, <2>3, <2>4, <2>5, Zenon
<1>10. /\ vals[Len(vals) - 2 + CHOOSE n \in 1..2 : stmt.tail[n].name = "limit"] = PerPage(o)
       /\ vals[Len(vals) - 2 + CHOOSE n \in 1..2 : stmt.tail[n].name = "offset"] = Offset(o)
  <2>1. /\ \A n \in 1..2 : stmt.tail[n].name = "limit" <=> n = x
        /\ \A n \in 1..2 : stmt.tail[n].name = "offset" <=> n = y
    BY <1>0
  <2>2. vals[Len(vals) - 2 + CHOOSE n \in 1..2 : stmt.tail[n].name = "limit"] = two[x]
    BY <1>9, <2>1
  <2>3. vals[Len(vals) - 2 + CHOOSE n \in 1..2 : stmt.tail[n].name = "offset"] = two[y]
    BY <1>9, <2>1
  <2> QED
    BY <1>0, <2>2, <2>3, Zenon
<1> QED
  BY <1>4, <1>6, <1>8, <1>10, Zenon DEF Answers

\* The two ways to ask for a page.
LEMMA StatementMeans ==
  ASSUME NEW style \in Styles, NEW o, Filtered(o), stored \in SUBSET Records,
         NEW where, where.conds = Clause(style, o.filters).conds,
         style # "literal" => where.args = Clause(style, o.filters).args,
         NEW stmt, stmt = LimitOffset(style, where, o) \/ stmt = OffsetFetch(style, where, o)
  PROVE  Answers(stmt, o) = Pages(Matching(stored, o), o, PerPage(o), Offset(o))
<1>1. PICK c, m : c = Clause(style, o.filters) /\ m = Len(where.args)
  OBVIOUS
<1>2. PICK per, off : per = PerPage(o) /\ off = Offset(o)
  OBVIOUS
<1>3. \A p, q : IsSequence(<<p, q>>) /\ Len(<<p, q>>) = 2 /\ <<p, q>>[1] = p /\ <<p, q>>[2] = q
  <2> SUFFICES ASSUME NEW p, NEW q
               PROVE  /\ IsSequence(<<p, q>>) /\ Len(<<p, q>>) = 2
                      /\ <<p, q>>[1] = p /\ <<p, q>>[2] = q
    OBVIOUS
  <2>1. <<p, q>> \in Seq({p, q}) /\ Len(<<p, q>>) = 2 /\ <<p, q>>[1] = p /\ <<p, q>>[2] = q
    OBVIOUS
  <2> QED
    BY <2>1, SequenceOf
<1>4. CASE stmt = LimitOffset(style, where, o)
  <2>1. PICK two : two = <<per, off>>
    OBVIOUS
  <2>2. /\ stmt.conds = where.conds /\ stmt.args = where.args \o two
        /\ stmt.tail = <<[name |-> "limit", operand |-> Mark(style, m + 1, per)],
                         [name |-> "offset", operand |-> Mark(style, m + 2, off)]>>
    BY <1>1, <1>2, <1>4, <2>1 DEF LimitOffset
  <2>3. /\ stmt.tail[1].operand = Mark(style, m + 1, per) /\ stmt.tail[1].name = "limit"
        /\ stmt.tail[2].operand = Mark(style, m + 2, off) /\ stmt.tail[2].name = "offset"
    BY <2>2
  <2>4. IsSequence(two) /\ Len(two) = 2 /\ two[1] = per /\ two[2] = off
    BY <1>3, <2>1
  <2>5. /\ \A n \in 1..2 : stmt.tail[n].operand = Mark(style, m + n, two[n])
        /\ \A n \in 1..2 : (stmt.tail[n].name = "limit" <=> n = 1)
                           /\ (stmt.tail[n].name = "offset" <=> n = 2)
    BY <2>3, <2>4
  <2>6. stmt.conds = c.conds /\ (style # "literal" => m = Len(c.args) /\ stmt.args = c.args \o two)
    BY <1>1, <2>2
  <2>7. PICK x \in 1..2, y \in 1..2 : x = 1 /\ y = 2
    OBVIOUS
  <2>8. Placed(stmt, style, o, c, m, two, x, y)
    BY <1>2, <2>4, <2>5, <2>6, <2>7, Zenon DEF Placed
  <2> QED
    BY <1>1, <2>8, PageMeans
<1>5. CASE stmt = OffsetFetch(style, where, o)
  <2>1. PICK two : two = <<off, per>>
    OBVIOUS
  <2>2. /\ stmt.conds = where.conds /\ stmt.args = where.args \o two
        /\ stmt.tail = <<[name |-> "offset", operand |-> Mark(style, m + 1, off)],
                         [name |-> "limit", operand |-> Mark(style, m + 2, per)]>>
    BY <1>1, <1>2, <1>5, <2>1 DEF OffsetFetch
  <2>3. /\ stmt.tail[1].operand = Mark(style, m + 1, off) /\ stmt.tail[1].name = "offset"
        /\ stmt.tail[2].operand = Mark(style, m + 2, per) /\ stmt.tail[2].name = "limit"
    BY <2>2
  <2>4. IsSequence(two) /\ Len(two) = 2 /\ two[1] = off /\ two[2] = per
    BY <1>3, <2>1
  <2>5. /\ \A n \in 1..2 : stmt.tail[n].operand = Mark(style, m + n, two[n])
        /\ \A n \in 1..2 : (stmt.tail[n].name = "limit" <=> n = 2)
                           /\ (stmt.tail[n].name = "offset" <=> n = 1)
    BY <2>3, <2>4
  <2>6. stmt.conds = c.conds /\ (style # "literal" => m = Len(c.args) /\ stmt.args = c.args \o two)
    BY <1>1, <2>2
  <2>7. PICK x \in 1..2, y \in 1..2 : x = 2 /\ y = 1
    OBVIOUS
  <2>8. Placed(stmt, style, o, c, m, two, x, y)
    BY <1>2, <2>4, <2>5, <2>6, <2>7, Zenon DEF Placed
  <2> QED
    BY <1>1, <2>8, PageMeans
<1> QED
  BY <1>4, <1>5

\* What every engine does for a page, with its own way to write a parameter.
Fetches(f, style, o) ==
  /\ f.where.conds = Clause(style, o.filters).conds
  /\ style # "literal" => f.where.args = Clause(style, o.filters).args
  /\ f.statement = LimitOffset(style, f.where, o) \/ f.statement = OffsetFetch(style, f.where, o)
  /\ f.order \in {RowsFirst, CountFirst}
  /\ f.estimated = Counting \/ f.estimated \in [Estimates -> Int]

\* Each of the engines does so.
LEMMA EveryEngine ==
  ASSUME dialect \in Dialects, NEW o, Filtered(o)
  PROVE  \E style \in Styles : Fetches(FetchTableRows(o), style, o)
<1>1. PICK f : f = FetchTableRows(o)
  OBVIOUS
<1>2. /\ [x \in Estimates |-> OrUnknown(x)] \in [Estimates -> Int]
      /\ [x \in Estimates |-> OrZero(x)] \in [Estimates -> Int]
      /\ [x \in Estimates |-> PositiveOrUnknown(x)] \in [Estimates -> Int]
  <2>1. \A x \in Estimates : x = NoRow \/ x[1] \in Int
    <3>1. \A x \in Seq(Int) : x = <<>> \/ x[1] \in Int
      OBVIOUS
    <3> QED
      BY <3>1, PagesAssumption DEF NoRow
  <2>2. \A x \in Estimates :
          OrUnknown(x) \in Int /\ OrZero(x) \in Int /\ PositiveOrUnknown(x) \in Int
    BY <2>1 DEF OrUnknown, OrZero, PositiveOrUnknown
  <2> QED
    BY <2>2
<1>3. AgentWhere(o.filters).conds = Clause("literal", o.filters).conds
  <2>1. PICK c : c = Clause("literal", o.filters)
    OBVIOUS
  <2>2. c = [conds |-> c.conds, args |-> c.args]
    BY <2>1, ClauseMeans DEF Filtered, ClauseIs, IsClause
  <2>3. [c EXCEPT !.args = <<>>].conds = c.conds
    BY <2>2
  <2> QED
    BY <2>1, <2>3 DEF AgentWhere
<1>4. ASSUME NEW style \in Styles, NEW w, NEW st, NEW order, NEW est, f = Fetch(w, st, order, est),
             w.conds = Clause(style, o.filters).conds,
             style # "literal" => w.args = Clause(style, o.filters).args,
             st = LimitOffset(style, w, o) \/ st = OffsetFetch(style, w, o),
             order \in {RowsFirst, CountFirst}, est = Counting \/ est \in [Estimates -> Int]
      PROVE  \E s \in Styles : Fetches(f, s, o)
  <2>1. f.where = w /\ f.statement = st /\ f.order = order /\ f.estimated = est
    BY <1>4 DEF Fetch
  <2>2. Fetches(f, style, o)
    BY <1>4, <2>1, Zenon DEF Fetches
  <2> QED
    BY <2>2
<1>5. CASE dialect = "mysql"
  <2>1. PICK w : w = Clause("?", o.filters)
    OBVIOUS
  <2>2. f = Fetch(w, LimitOffset("?", w, o), RowsFirst, [x \in Estimates |-> OrUnknown(x)])
    BY <1>1, <1>5, <2>1 DEF FetchTableRows, MySQLRows, MySQLWhere
  <2> QED
    BY <1>1, <1>2, <1>4, <2>1, <2>2 DEF Styles
<1>6. CASE dialect = "pg"
  <2>1. PICK w : w = Clause("$", o.filters)
    OBVIOUS
  <2>2. f = Fetch(w, LimitOffset("$", w, o), RowsFirst, [x \in Estimates |-> PositiveOrUnknown(x)])
    BY <1>1, <1>6, <2>1 DEF FetchTableRows, PGRows, PGWhere
  <2> QED
    BY <1>1, <1>2, <1>4, <2>1, <2>2 DEF Styles
<1>7. CASE dialect = "mssql"
  <2>1. PICK w : w = Clause("$", o.filters)
    OBVIOUS
  <2>2. f = Fetch(w, OffsetFetch("$", w, o), RowsFirst, [x \in Estimates |-> OrZero(x)])
    BY <1>1, <1>7, <2>1 DEF FetchTableRows, MSSQLRows, MSSQLWhere
  <2> QED
    BY <1>1, <1>2, <1>4, <2>1, <2>2 DEF Styles
<1>8. CASE dialect = "oracle"
  <2>1. PICK w : w = Clause("$", o.filters)
    OBVIOUS
  <2>2. f = Fetch(w, OffsetFetch("$", w, o), CountFirst, Counting)
    BY <1>1, <1>8, <2>1 DEF FetchTableRows, OracleRows, OracleWhere
  <2> QED
    BY <1>1, <1>2, <1>4, <2>1, <2>2 DEF Styles
<1>9. CASE dialect = "sqlite"
  <2>1. PICK w : w = Clause("?", o.filters)
    OBVIOUS
  <2>2. f = Fetch(w, LimitOffset("?", w, o), CountFirst, Counting)
    BY <1>1, <1>9, <2>1 DEF FetchTableRows, SQLiteRows, SQLiteWhere
  <2> QED
    BY <1>1, <1>2, <1>4, <2>1, <2>2 DEF Styles
<1>10. CASE dialect = "duckdb"
  <2>1. PICK w : w = Clause("?", o.filters)
    OBVIOUS
  <2>2. f = Fetch(w, LimitOffset("?", w, o), CountFirst, Counting)
    BY <1>1, <1>10, <2>1 DEF FetchTableRows, DuckDBRows, DuckDBWhere
  <2> QED
    BY <1>1, <1>2, <1>4, <2>1, <2>2 DEF Styles
<1>11. CASE dialect = "snowflake"
  <2>1. PICK w : w = Clause("?", o.filters)
    OBVIOUS
  <2>2. f = Fetch(w, LimitOffset("?", w, o), CountFirst, Counting)
    BY <1>1, <1>11, <2>1 DEF FetchTableRows, SnowflakeRows, SnowflakeWhere
  <2> QED
    BY <1>1, <1>2, <1>4, <2>1, <2>2 DEF Styles
<1>12. CASE dialect = "clickhouse"
  <2>1. PICK w : w = Clause("?", o.filters)
    OBVIOUS
  <2>2. f = Fetch(w, LimitOffset("?", w, o), CountFirst, Counting)
    BY <1>1, <1>12, <2>1 DEF FetchTableRows, ClickHouseRows, ClickHouseWhere
  <2> QED
    BY <1>1, <1>2, <1>4, <2>1, <2>2 DEF Styles
<1>13. CASE dialect = "bytehouse"
  <2>1. PICK w : w = Clause("?", o.filters)
    OBVIOUS
  <2>2. f = Fetch(w, LimitOffset("?", w, o), CountFirst, Counting)
    BY <1>1, <1>13, <2>1 DEF FetchTableRows, ByteHouseRows, ByteHouseWhere
  <2> QED
    BY <1>1, <1>2, <1>4, <2>1, <2>2 DEF Styles
<1>14. CASE dialect = "agent"
  <2>1. PICK w : w = AgentWhere(o.filters)
    OBVIOUS
  <2>2. f = Fetch(w, LimitOffset("literal", w, o), RowsFirst, [x \in Estimates |-> OrZero(x)])
    BY <1>1, <1>14, <2>1 DEF FetchTableRows, AgentRows
  <2> QED
    BY <1>1, <1>2, <1>3, <1>4, <2>1, <2>2 DEF Styles
<1>15. CASE dialect = "agent_mssql"
  <2>1. PICK w : w = AgentWhere(o.filters)
    OBVIOUS
  <2>2. f = Fetch(w, OffsetFetch("literal", w, o), RowsFirst, [x \in Estimates |-> OrZero(x)])
    BY <1>1, <1>15, <2>1 DEF FetchTableRows, AgentMSSQLRows
  <2> QED
    BY <1>1, <1>2, <1>3, <1>4, <2>1, <2>2 DEF Styles
<1> QED
  BY <1>1, <1>5, <1>6, <1>7, <1>8, <1>9, <1>10, <1>11, <1>12, <1>13, <1>14, <1>15 DEF Dialects

-----------------------------------------------------------------------------
(* A page.                                                                 *)

\* All the rows in one order that was asked for.
Ordering(p, all, o, N) ==
  /\ p \in [1..N -> all] /\ \A i, j \in 1..N : i # j => p[i] # p[j]
  /\ \A x \in all : \E k \in 1..N : p[k] = x
  /\ \A i, j \in 1..N : i < j => ~Sorts(o, p[j], p[i])

\* At most lim rows of it, after the first off.
Stretch(rows, all, o, N, lim, off) ==
  \E p : /\ Ordering(p, all, o, N) /\ IsSequence(rows)
        /\ Len(rows) = (IF off + lim < N THEN off + lim ELSE N) - (IF off < N THEN off ELSE N)
        /\ \A n \in 1..Len(rows) : off + n \in 1..N /\ rows[n] = p[off + n]

\* A page of so many rows, after so many, is a stretch of such an order.
LEMMA PageOf ==
  ASSUME NEW all, IsFiniteSet(all), NEW o, NEW N, N = Cardinality(all),
         NEW lim \in Nat, lim # 0, NEW off \in Nat, NEW rows \in Pages(all, o, lim, off)
  PROVE  N \in Nat /\ Stretch(rows, all, o, N, lim, off)
<1>1. PICK p \in SetToSeqs(all) :
        /\ \A i, j \in DOMAIN p : i < j => ~Sorts(o, p[j], p[i])
        /\ rows = SubSeq(p, off + 1, Least(off + lim, Len(p)))
  BY Zenon DEF Pages
<1>2. N \in Nat /\ ExistsBijection(1..N, all)
  BY FS_CardinalityType
<1>3. p \in [1..N -> all] /\ \A i, j \in 1..N : i # j => p[i] # p[j]
  BY DEF SetToSeqs
<1>4. p \in Seq(all) /\ Len(p) = N
  BY <1>2, <1>3
<1>5. p \in Injection(1..N, all)
  BY <1>3 DEF Injection, IsInjective
<1>6. p \in Surjection(1..N, all)
  <2>1. IsFiniteSet(1..N) /\ Cardinality(1..N) = N
    <3>1. 1 \in Int /\ N \in Int /\ ~(1 > N /\ N # 0)
      BY <1>2
    <3> QED
      BY <1>2, <3>1, FS_Interval
  <2> QED
    BY <1>5, <2>1, FS_Injection
<1>7. \A x \in all : \E k \in 1..N : p[k] = x
  BY <1>6 DEF Surjection
<1>8. Ordering(p, all, o, N)
  BY <1>1, <1>3, <1>7 DEF Ordering
<1>9. PICK hi : hi = IF off + lim < N THEN off + lim ELSE N
  OBVIOUS
<1>10. hi \in 0..N /\ Least(off + lim, Len(p)) = hi
  BY <1>2, <1>4, <1>9 DEF Least
<1>11. /\ IsSequence(rows)
       /\ Len(rows) = IF off < hi THEN hi - off ELSE 0
       /\ \A n \in 1..Len(rows) : off + n \in 1..N /\ rows[n] = p[off + n]
  <2>1. CASE off < hi
    <3>1. \A k \in (off + 1)..hi : k \in 1..N
      BY <1>2, <1>10
    <3>2. rows = [k \in 1..(hi - (off + 1) + 1) |-> p[(off + 1) + k - 1]]
      BY <1>1, <1>4, <1>10, <2>1, <3>1
    <3>3. \A k \in 1..(hi - off) : (off + 1) + k - 1 = off + k /\ off + k \in 1..N
      BY <1>2, <1>10
    <3>4. hi - (off + 1) + 1 = hi - off /\ hi - off \in Nat
      BY <1>10, <2>1
    <3>5. \A k \in 1..(hi - off) : rows[k] = p[off + k] /\ rows[k] \in all
      BY <1>3, <3>2, <3>3, <3>4
    <3>6. rows \in [1..(hi - off) -> all]
      BY <3>2, <3>4, <3>5
    <3>7. rows \in Seq(all) /\ Len(rows) = hi - off
      BY <3>4, <3>6
    <3> QED
      BY <2>1, <3>3, <3>5, <3>7, SequenceOf
  <2>2. CASE ~(off < hi)
    <3>1. rows = <<>>
      BY <1>1, <1>4, <1>10, <2>2
    <3> QED
      BY <2>2, <3>1, EmptyIsSequence
  <2> QED
    BY <2>1, <2>2
<1>12. Len(rows) = hi - (IF off < N THEN off ELSE N)
  BY <1>2, <1>9, <1>10, <1>11
<1> QED
  BY <1>2, <1>8, <1>9, <1>11, <1>12 DEF Stretch

\* What the pager promises of a page: rows of the table that match, as many as there are
\* left for it, in order, and behind as many others as there are on the pages before.
PageFits(rows, all, o) ==
  LET first == Fewest((o.page - 1) * PerPage(o), all)
  IN /\ Range(rows) \subseteq all /\ IsInjective(rows)
     /\ Len(rows) = Fewest(o.page * PerPage(o), all) - first
     /\ \A i, j \in DOMAIN rows : i < j => ~Sorts(o, rows[j], rows[i])
     /\ \A n \in DOMAIN rows :
          /\ Cardinality({r \in all \ Range(rows) : Sorts(o, r, rows[n])}) <= first
          /\ Cardinality({r \in all \ Range(rows) : ~Sorts(o, rows[n], r)}) >= first

\* A stretch of such an order is what the pager promises of a page.
LEMMA PageFitsOrder ==
  ASSUME NEW all, IsFiniteSet(all), NEW o, o.page \in Nat \ {0}, PerPage(o) \in Nat \ {0},
         NEW rows \in Pages(all, o, PerPage(o), Offset(o))
  PROVE  IsSequence(rows) /\ PageFits(rows, all, o)
<1>1. PICK N, lim, page : N = Cardinality(all) /\ lim = PerPage(o) /\ page = o.page
  OBVIOUS
<1>2. PICK off : off = (page - 1) * lim
  OBVIOUS
<1>3. /\ page \in Nat /\ lim \in Nat /\ lim # 0 /\ off \in Nat /\ page * lim = off + lim
      /\ off = Offset(o)
  <2>1. page \in Nat /\ page # 0 /\ lim \in Nat /\ lim # 0
    BY <1>1
  <2>2. page - 1 \in Nat
    BY <2>1
  <2>3. PICK q \in Nat : q = page - 1
    BY <2>2
  <2>4. q * lim \in Nat /\ (q + 1) * lim = q * lim + lim
    BY <2>1
  <2>5. page = q + 1
    BY <2>1, <2>3
  <2>6. off = Offset(o)
    BY <1>1, <1>2, <2>1 DEF Offset
  <2> QED
    BY <1>2, <2>1, <2>3, <2>4, <2>5, <2>6
<1>4. PICK p : /\ N \in Nat /\ Ordering(p, all, o, N) /\ IsSequence(rows)
               /\ Len(rows) = (IF off + lim < N THEN off + lim ELSE N)
                              - (IF off < N THEN off ELSE N)
               /\ \A n \in 1..Len(rows) : off + n \in 1..N /\ rows[n] = p[off + n]
  <2>1. /\ N = Cardinality(all) /\ lim \in Nat /\ lim # 0 /\ off \in Nat
        /\ rows \in Pages(all, o, lim, off)
    BY <1>1, <1>3
  <2>2. N \in Nat /\ Stretch(rows, all, o, N, lim, off)
    BY <2>1, PageOf
  <2> QED
    BY <2>2, Zenon DEF Stretch
<1>5. PICK len : len = Len(rows)
  OBVIOUS
<1>6. len \in Nat /\ DOMAIN rows = 1..len
  BY <1>4, <1>5, SequenceParts
<1>7. PICK first : first = Fewest((o.page - 1) * PerPage(o), all)
  OBVIOUS
<1>8. /\ first = IF off < N THEN off ELSE N
      /\ Len(rows) = Fewest(o.page * PerPage(o), all) - first
  <2>1. first = Least(off, N) /\ Fewest(o.page * PerPage(o), all) = Least(off + lim, N)
    BY <1>1, <1>2, <1>3, <1>7 DEF Fewest
  <2> QED
    BY <1>3, <1>4, <2>1 DEF Least
<1>9. /\ p \in [1..N -> all] /\ \A i, j \in 1..N : i # j => p[i] # p[j]
      /\ \A x \in all : \E k \in 1..N : p[k] = x
      /\ \A i, j \in 1..N : i < j => ~Sorts(o, p[j], p[i])
  BY <1>4, Zenon DEF Ordering
<1>10. \A n \in 1..len : n \in Nat /\ off + n \in 1..N /\ rows[n] = p[off + n] /\ rows[n] \in all
  BY <1>4, <1>5, <1>6, <1>9
<1>11. Range(rows) = {p[off + n] : n \in 1..len}
  BY <1>6, <1>10 DEF Range
<1>12. Range(rows) \subseteq all
  BY <1>9, <1>10, <1>11
<1>13. IsInjective(rows)
  <2> SUFFICES ASSUME NEW i \in 1..len, NEW j \in 1..len, rows[i] = rows[j] PROVE i = j
    BY <1>6 DEF IsInjective
  <2>1. off + i \in 1..N /\ off + j \in 1..N /\ p[off + i] = p[off + j]
    BY <1>10
  <2>2. off + i = off + j
    BY <1>9, <2>1
  <2> QED
    BY <1>3, <1>10, <2>2
<1>14. \A i, j \in DOMAIN rows : i < j => ~Sorts(o, rows[j], rows[i])
  <2> SUFFICES ASSUME NEW i \in 1..len, NEW j \in 1..len, i < j
               PROVE  ~Sorts(o, rows[j], rows[i])
    BY <1>6
  <2>1. off + i \in 1..N /\ off + j \in 1..N /\ off + i < off + j
    BY <1>3, <1>10
  <2>2. ~Sorts(o, p[off + j], p[off + i])
    BY <1>9, <2>1
  <2> QED
    BY <1>10, <2>2
<1>15. ASSUME NEW n \in 1..len
       PROVE  /\ Cardinality({r \in all \ Range(rows) : Sorts(o, r, rows[n])}) <= first
              /\ Cardinality({r \in all \ Range(rows) : ~Sorts(o, rows[n], r)}) >= first
  <2>1. off < N /\ first = off /\ off + n \in 1..N /\ n \in Nat /\ n # 0
    BY <1>3, <1>4, <1>8, <1>10
  <2>2. PICK before : before = {p[k] : k \in 1..off}
    OBVIOUS
  <2>3. before \in SUBSET all /\ IsFiniteSet(before) /\ Cardinality(before) = off
    <3>1. \A k \in 1..off : k \in 1..N
      BY <1>3, <1>4, <2>1
    <3>2. PICK g : g = [k \in 1..off |-> p[k]]
      OBVIOUS
    <3>3. g \in Bijection(1..off, before)
      <4>1. g \in [1..off -> before] /\ \A x \in before : \E k \in 1..off : g[k] = x
        BY <2>2, <3>2
      <4>2. \A i, j \in 1..off : g[i] = g[j] => i = j
        BY <1>9, <3>1, <3>2
      <4> QED
        BY <4>1, <4>2 DEF Bijection, Injection, Surjection, IsInjective
    <3>4. IsFiniteSet(1..off) /\ Cardinality(1..off) = off
      <4>1. IsFiniteSet(1..off) /\ Cardinality(1..off) = IF 1 > off THEN 0 ELSE off - 1 + 1
        <5>1. 1 \in Int /\ off \in Int
          BY <1>3
        <5> QED
          BY <5>1, FS_Interval, Zenon
      <4> QED
        BY <1>3, <4>1
    <3>5. ExistsBijection(1..off, before)
      BY <3>3 DEF ExistsBijection
    <3>6. IsFiniteSet(before) /\ Cardinality(before) = off
      BY <3>4, <3>5, FS_Bijection
    <3>7. before \in SUBSET all
      BY <1>9, <2>2, <3>1
    <3> QED
      BY <3>6, <3>7
  <2>4. PICK less : less = {r \in all \ Range(rows) : Sorts(o, r, rows[n])}
    OBVIOUS
  <2>5. PICK notMore : notMore = {r \in all \ Range(rows) : ~Sorts(o, rows[n], r)}
    OBVIOUS
  <2>6. less \in SUBSET before
    <3> SUFFICES ASSUME NEW r \in less PROVE r \in before
      OBVIOUS
    <3>1. r \in all /\ r \notin Range(rows) /\ Sorts(o, r, rows[n])
      BY <2>4
    <3>2. PICK k \in 1..N : p[k] = r
      BY <1>9, <3>1
    <3>3. ~(off + n < k)
      <4>1. Sorts(o, p[k], p[off + n])
        BY <1>10, <3>1, <3>2
      <4> QED
        BY <1>9, <2>1, <4>1
    <3>4. ~(off < k)
      <4> SUFFICES ASSUME off < k PROVE FALSE
        OBVIOUS
      <4>1. k - off \in 1..len /\ off + (k - off) = k
        <5>1. k \in Nat /\ n \in 1..len
          BY <1>4
        <5> QED
          BY <1>3, <1>6, <3>3, <5>1
      <4> QED
        BY <1>11, <3>1, <3>2, <4>1
    <3>5. k \in 1..off
      BY <1>3, <1>4, <3>4
    <3> QED
      BY <2>2, <3>2, <3>5
  <2>7. before \in SUBSET notMore
    <3> SUFFICES ASSUME NEW k \in 1..off PROVE p[k] \in notMore
      BY <2>2
    <3>1. k \in 1..N /\ k < off + n
      BY <1>3, <1>4, <2>1
    <3>2. ~Sorts(o, rows[n], p[k])
      BY <1>9, <1>10, <2>1, <3>1
    <3>3. \A j \in 1..len : off + j # k
      BY <1>3
    <3>4. p[k] \notin Range(rows)
      <4>1. \A j \in 1..len : p[off + j] # p[k]
        BY <1>9, <1>10, <3>1, <3>3
      <4> QED
        BY <1>11, <4>1
    <3> QED
      BY <1>9, <2>5, <3>1, <3>2, <3>4
  <2>8. Cardinality(less) <= off
    <3>1. Cardinality(less) <= Cardinality(before)
      BY <2>3, <2>6, FS_Subset
    <3> QED
      BY <2>3, <3>1
  <2>9. Cardinality(notMore) >= off
    <3>1. IsFiniteSet(notMore)
      BY <2>5, FS_Subset
    <3>2. Cardinality(before) <= Cardinality(notMore)
      BY <2>7, <3>1, FS_Subset
    <3>3. Cardinality(notMore) \in Nat
      BY <3>1, FS_CardinalityType
    <3> QED
      BY <1>3, <2>3, <3>2, <3>3
  <2> QED
    BY <2>1, <2>4, <2>5, <2>8, <2>9
<1>16. PageFits(rows, all, o)
  BY <1>6, <1>7, <1>8, <1>12, <1>13, <1>14, <1>15 DEF PageFits
<1> QED
  BY <1>4, <1>16

-----------------------------------------------------------------------------
(* Loads: what they read, and what is shown of it.                         *)

\* What a user may choose in the grid.
Options ==
  [page : Nat \ {0}, limit : Nat, sort : Columns \cup {""}, desc : BOOLEAN, filters : FilterLists]

\* Its filters are filters, and its page and page size are numbers a statement may have.
LEMMA OptionsParts ==
  ASSUME NEW o \in Options
  PROVE  /\ Filtered(o) /\ o.page \in Nat \ {0} /\ o.limit \in Nat
         /\ PerPage(o) \in Nat \ {0}
<1>1. o.page \in Nat \ {0} /\ o.limit \in Nat /\ o.filters \in FilterLists
  BY DEF Options
<1>2. Filtered(o)
  <2>1. PICK fs : fs = o.filters
    OBVIOUS
  <2>2. fs \in Seq(FilterType)
    BY <1>1, <2>1, PagesAssumption DEF FilterType
  <2>3. IsSequence(fs)
    BY <2>2, SequenceOf
  <2>4. \A k \in DOMAIN fs : fs[k] \in FilterType
    BY <2>2
  <2> QED
    BY <2>1, <2>3, <2>4, Zenon DEF Filtered
<1>3. PerPage(o) \in Nat \ {0}
  <2>1. MaxRows \in Nat \ {0} /\ DefaultRows \in 1..MaxRows
    BY PagesAssumption
  <2>2. PICK n : n = o.limit
    OBVIOUS
  <2>3. PerPage(o) = IF n < 1 THEN DefaultRows ELSE IF n < MaxRows THEN n ELSE MaxRows
    BY <2>2 DEF PerPage, Least
  <2> QED
    BY <1>1, <2>1, <2>2, <2>3
<1> QED
  BY <1>1, <1>2, <1>3

\* The rows that match are some of the table.
LEMMA MatchingParts ==
  ASSUME NEW t \in Tables, NEW o
  PROVE  /\ t \in SUBSET Records /\ Matching(t, o) \in SUBSET t
         /\ IsFiniteSet(Matching(t, o)) /\ Cardinality(Matching(t, o)) \in Nat
<1>1. t \in SUBSET Records /\ IsFiniteSet(t)
  BY PagesAssumption DEF Records, Stored
<1>2. PICK m : m = Matching(t, o)
  OBVIOUS
<1>3. m \in SUBSET t
  BY <1>2 DEF Matching
<1>4. IsFiniteSet(m) /\ Cardinality(m) \in Nat
  BY <1>1, <1>3, FS_Subset, FS_CardinalityType
<1> QED
  BY <1>1, <1>2, <1>3, <1>4

\* What the two statements answer, whichever engine wrote them.
LEMMA FetchAnswers ==
  ASSUME dialect \in Dialects, stored \in Tables, NEW o \in Options,
         NEW f, f = FetchTableRows(o)
  PROVE  /\ f.order \in {RowsFirst, CountFirst}
         /\ f.estimated = Counting \/ f.estimated \in [Estimates -> Int]
         /\ \A rows \in Answers(f.statement, o) : PageFits(rows, Matching(stored, o), o)
         /\ Counted(f.where) = Cardinality(Matching(stored, o))
<1>1. /\ Filtered(o) /\ o.page \in Nat \ {0} /\ PerPage(o) \in Nat \ {0}
  BY OptionsParts
<1>2. PICK style \in Styles : Fetches(f, style, o)
  BY <1>1, EveryEngine
<1>3. /\ f.where.conds = Clause(style, o.filters).conds
      /\ style # "literal" => f.where.args = Clause(style, o.filters).args
      /\ \/ f.statement = LimitOffset(style, f.where, o)
         \/ f.statement = OffsetFetch(style, f.where, o)
      /\ f.order \in {RowsFirst, CountFirst}
      /\ f.estimated = Counting \/ f.estimated \in [Estimates -> Int]
  BY <1>2, Zenon DEF Fetches
<1>4. PICK t \in Tables : t = stored
  OBVIOUS
<1>5. stored \in SUBSET Records /\ IsFiniteSet(Matching(t, o))
  BY <1>4, MatchingParts
<1>6. PICK where, stmt : where = f.where /\ stmt = f.statement
  OBVIOUS
<1>7. Answers(stmt, o) = Pages(Matching(stored, o), o, PerPage(o), Offset(o))
  BY <1>1, <1>3, <1>5, <1>6, StatementMeans
<1>8. Counted(where) = Cardinality(Matching(stored, o))
  BY <1>1, <1>3, <1>5, <1>6, CountMeans
<1>9. PICK all : all = Matching(t, o)
  OBVIOUS
<1>10. ASSUME NEW rows \in Answers(stmt, o) PROVE PageFits(rows, all, o)
  <2>1. rows \in Pages(all, o, PerPage(o), Offset(o)) /\ IsFiniteSet(all)
    BY <1>4, <1>5, <1>7, <1>9
  <2> QED
    BY <1>1, <2>1, PageFitsOrder
<1> QED
  BY <1>3, <1>4, <1>6, <1>8, <1>9, <1>10

\* The statements that are still to be run.
Todos == {RowsFirst, CountFirst, <<"rows">>, <<"total">>, <<>>}
\* A statement is one of them.
Due(todo, what) == \E n \in DOMAIN todo : todo[n] = what

\* The first of them is run, and the other is left.
LEMMA TodoStep ==
  ASSUME NEW todo \in Todos, todo # <<>>
  PROVE  /\ Head(todo) \in {"rows", "total"} /\ Tail(todo) \in Todos
         /\ \A what \in {"rows", "total"} :
              Due(Tail(todo), what) <=> Due(todo, what) /\ what # Head(todo)
<1>1. \A a, b : /\ Head(<<a, b>>) = a /\ Tail(<<a, b>>) = <<b>>
                /\ Head(<<a>>) = a /\ Tail(<<a>>) = <<>>
  OBVIOUS
<1>2. \A a, b, c : /\ Due(<<a, b>>, c) <=> c = a \/ c = b
                   /\ Due(<<a>>, c) <=> c = a
                   /\ ~Due(<<>>, c)
  <2> SUFFICES ASSUME NEW a, NEW b, NEW c
               PROVE  /\ Due(<<a, b>>, c) <=> c = a \/ c = b
                      /\ Due(<<a>>, c) <=> c = a
                      /\ ~Due(<<>>, c)
    OBVIOUS
  <2>1. DOMAIN <<a, b>> = 1..2 /\ <<a, b>>[1] = a /\ <<a, b>>[2] = b
    OBVIOUS
  <2>2. DOMAIN <<a>> = 1..1 /\ <<a>>[1] = a
    OBVIOUS
  <2>3. Due(<<a, b>>, c) <=> c = a \/ c = b
    BY <2>1 DEF Due
  <2>4. Due(<<a>>, c) <=> c = a
    BY <2>2 DEF Due
  <2>5. ~Due(<<>>, c)
    BY DEF Due
  <2> QED
    BY <2>3, <2>4, <2>5
<1>3. PICK r, t : r = "rows" /\ t = "total" /\ r # t
  OBVIOUS
<1>4. todo \in {<<r, t>>, <<t, r>>, <<r>>, <<t>>}
  BY <1>3 DEF Todos, RowsFirst, CountFirst
<1>5. Tail(todo) \in {<<r>>, <<t>>, <<>>} /\ Head(todo) \in {r, t}
  BY <1>1, <1>4
<1>6. Tail(todo) \in Todos
  BY <1>3, <1>5 DEF Todos
<1>7. ASSUME NEW what \in {r, t}
      PROVE  Due(Tail(todo), what) <=> Due(todo, what) /\ what # Head(todo)
  <2>1. CASE todo = <<r, t>>
    <3>1. Tail(todo) = <<t>> /\ Head(todo) = r
      BY <1>1, <2>1
    <3>2. (Due(<<t>>, what) <=> what = t) /\ (Due(<<r, t>>, what) <=> what = r \/ what = t)
      BY <1>2
    <3>3. (Due(Tail(todo), what) <=> what = t) /\ (Due(todo, what) <=> what = r \/ what = t)
      BY <2>1, <3>1, <3>2
    <3> QED
      BY <1>3, <1>7, <3>1, <3>3
  <2>2. CASE todo = <<t, r>>
    <3>1. Tail(todo) = <<r>> /\ Head(todo) = t
      BY <1>1, <2>2
    <3>2. (Due(<<r>>, what) <=> what = r) /\ (Due(<<t, r>>, what) <=> what = t \/ what = r)
      BY <1>2
    <3>3. (Due(Tail(todo), what) <=> what = r) /\ (Due(todo, what) <=> what = t \/ what = r)
      BY <2>2, <3>1, <3>2
    <3> QED
      BY <1>3, <1>7, <3>1, <3>3
  <2>3. CASE todo \in {<<r>>, <<t>>}
    <3>1. Tail(todo) = <<>> /\ todo = <<Head(todo)>>
      BY <1>1, <2>3
    <3>2. PICK only : only = Head(todo)
      OBVIOUS
    <3>3. ~Due(<<>>, what) /\ (Due(<<only>>, what) <=> what = only)
      BY <1>2
    <3> QED
      BY <3>1, <3>2, <3>3
  <2> QED
    BY <1>4, <2>1, <2>2, <2>3
<1> QED
  BY <1>3, <1>5, <1>6, <1>7

\* The rows, and the number of rows, that were read under options o: of[1] and of[2] are the
\* tables they were read from.
RowsRight(rows, o, of) == of.rows \in Tables /\ PageFits(rows, Matching(of.rows, o), o)
\* A number that was counted is the number of rows that matched then.
TotalRight(total, o, of) ==
  /\ total \in Int
  /\ of.total # <<>> =>
       \E t \in Tables : of.total = <<t>> /\ total = Cardinality(Matching(t, o))

\* What a load has, and what is true of it when its statements have been run.
LoadFields == {"opts", "todo", "stage", "aborted", "rows", "total", "of"}
LoadFits(load) ==
  \/ load.stage \in {"shown", "dropped"}
  \/ /\ load.stage \in Open
     /\ DOMAIN load = LoadFields /\ DOMAIN load.of = {"rows", "total"}
     /\ load.opts \in Options /\ load.todo \in Todos
     /\ load.stage \in {"answered", "arrived"} => load.todo = <<>>
     /\ ~Due(load.todo, "rows") => RowsRight(load.rows, load.opts, load.of)
     /\ IF Due(load.todo, "total") THEN load.of.total = <<>>
        ELSE TotalRight(load.total, load.opts, load.of)
\* What is true of the page that is shown.
ShownFits(d) ==
  /\ d.opts \in Options /\ d.perPage = PerPage(d.opts)
  /\ RowsRight(d.rows, d.opts, d.of) /\ TotalRight(d.total, d.opts, d.of)

\* What a page was read for, and from what, decides what is on it.
PagesRight ==
  /\ dialect \in Dialects /\ stored \in Tables /\ opts \in Options
  /\ IsSequence(loads) /\ loads # <<>> /\ \A n \in DOMAIN loads : LoadFits(loads[n])
  /\ data # <<>> => ShownFits(data[1])

\* Which rows match depends on the engine, and that stays what it is.
LEMMA MatchingSame ==
  ASSUME dialect' = dialect, NEW t, NEW o
  PROVE  Matching(t, o)' = Matching(t, o)
BY DEF Matching, Means, Fits, Written, Split

\* So what a load has stays right while the engine is the same.
LEMMA FitsSame ==
  ASSUME dialect' = dialect
  PROVE  /\ \A l : LoadFits(l) => LoadFits(l)'
         /\ \A d : ShownFits(d) => ShownFits(d)'
<1>1. \A rows, o, of : RowsRight(rows, o, of)' <=> RowsRight(rows, o, of)
  BY MatchingSame DEF RowsRight
<1>2. \A total, o, of : TotalRight(total, o, of)' <=> TotalRight(total, o, of)
  BY MatchingSame DEF TotalRight
<1>3. \A l : LoadFits(l) => LoadFits(l)'
  BY <1>1, <1>2, Zenon DEF LoadFits
<1>4. \A d : ShownFits(d) => ShownFits(d)'
  BY <1>1, <1>2, Zenon DEF ShownFits
<1> QED
  BY <1>3, <1>4

\* One load is changed, and the page that is shown stays right.
LEMMA RightChanged ==
  ASSUME PagesRight, NEW i, NEW x, loads' = [loads EXCEPT ![i] = x], LoadFits(x),
         UNCHANGED <<dialect, stored, opts>>, data' # <<>> => ShownFits(data'[1])
  PROVE  PagesRight'
<1>1. /\ IsSequence(loads') /\ DOMAIN loads' = DOMAIN loads
      /\ \A n \in DOMAIN loads' : loads'[n] = x \/ loads'[n] = loads[n]
  BY Replaced, SequenceParts DEF PagesRight
<1>5. loads' # <<>>
  <2>1. 1 \in DOMAIN loads
    <3>1. Len(loads) \in Nat /\ DOMAIN loads = 1..Len(loads) /\ Len(loads) # 0
      BY SequenceParts DEF PagesRight, IsSequence
    <3> QED
      BY <3>1
  <2> QED
    BY <1>1, <2>1
<1>2. \A n \in DOMAIN loads' : LoadFits(loads[n])'
  <2> SUFFICES ASSUME NEW n \in DOMAIN loads' PROVE LoadFits(loads[n])'
    OBVIOUS
  <2>1. PICK l : l = loads'[n]
    OBVIOUS
  <2>2. LoadFits(l)
    BY <1>1, <2>1 DEF PagesRight
  <2>3. LoadFits(l)'
    BY <2>2, FitsSame
  <2>4. loads[n]' = l
    BY <2>1
  <2> QED
    BY <2>3, <2>4, Zenon DEF LoadFits
<1>3. data' # <<>> => ShownFits(data[1])'
  <2> SUFFICES ASSUME data' # <<>> PROVE ShownFits(data[1])'
    OBVIOUS
  <2>1. PICK d : d = data'[1]
    OBVIOUS
  <2>2. ShownFits(d)'
    BY <2>1, FitsSame
  <2> QED
    BY <2>1, <2>2, Zenon DEF ShownFits
<1>4. dialect' \in Dialects /\ stored' \in Tables /\ opts' \in Options
  BY DEF PagesRight
<1> QED
  BY <1>1, <1>2, <1>3, <1>4, <1>5, Zenon DEF PagesRight

\* What the next statement of a load leaves of it as it was.
LEMMA AnswerParts ==
  ASSUME NEW l, LoadFits(l), l.stage = "reading", l.todo # <<>>
  PROVE  LET a == Answer(l)
         IN  /\ DOMAIN l = LoadFields /\ DOMAIN a = LoadFields /\ DOMAIN l.of = {"rows", "total"}
             /\ l.opts \in Options /\ a.opts = l.opts /\ a.rows = l.rows /\ a.total = l.total
             /\ a.of = l.of /\ a.todo = Tail(l.todo) /\ a.todo \in Todos
             /\ a.stage \in Open /\ (a.stage \in {"answered", "arrived"} => a.todo = <<>>)
<1>1. /\ DOMAIN l = LoadFields /\ DOMAIN l.of = {"rows", "total"}
      /\ l.opts \in Options /\ l.todo \in Todos
  BY DEF LoadFits
<1>2. Tail(l.todo) \in Todos
  BY <1>1, TodoStep
<1> QED
  BY <1>1, <1>2 DEF Answer, LoadFields, Open

\* The rows are read: they are the right ones of the table as it is now.
LEMMA RowsRead ==
  ASSUME PagesRight, NEW i \in DOMAIN loads, ReadRows(i)
  PROVE  PagesRight'
<1> PICK old : old = loads[i]
  OBVIOUS
<1> PICK o, t : o = old.opts /\ t = stored
  OBVIOUS
<1>1. LoadFits(old) /\ old.stage = "reading" /\ old.todo # <<>> /\ Head(old.todo) = "rows"
  BY DEF PagesRight, ReadRows, Read
<1> PICK a : a = Answer(old)
  OBVIOUS
<1>2. /\ DOMAIN a = LoadFields /\ DOMAIN a.of = {"rows", "total"}
      /\ a.opts = o /\ o \in Options /\ a.total = old.total /\ a.of = old.of
      /\ a.todo = Tail(old.todo) /\ a.todo \in Todos
      /\ a.stage \in Open /\ (a.stage \in {"answered", "arrived"} => a.todo = <<>>)
  BY <1>1, AnswerParts
<1>3. PICK rows \in Answers(FetchTableRows(o).statement, o) :
        loads' = [loads EXCEPT ![i] = [a EXCEPT !.rows = rows, !.of.rows = t]]
  BY DEF ReadRows
<1>4. PageFits(rows, Matching(t, o), o) /\ t \in Tables
  BY <1>2, <1>3, FetchAnswers DEF PagesRight
<1> PICK x : x = [a EXCEPT !.rows = rows, !.of.rows = t]
  OBVIOUS
<1>5. /\ DOMAIN x = LoadFields /\ DOMAIN x.of = {"rows", "total"}
      /\ x.opts = o /\ x.rows = rows /\ x.of.rows = t
      /\ x.total = old.total /\ x.of.total = old.of.total /\ x.todo = a.todo /\ x.stage = a.stage
  BY <1>2 DEF LoadFields
<1>6. RowsRight(x.rows, x.opts, x.of)
  BY <1>4, <1>5 DEF RowsRight
<1>7. Due(x.todo, "total") <=> Due(old.todo, "total")
  <2>1. old.todo \in Todos
    BY <1>1 DEF LoadFits
  <2> QED
    BY <1>1, <1>2, <1>5, <2>1, TodoStep
<1>8. IF Due(x.todo, "total") THEN x.of.total = <<>> ELSE TotalRight(x.total, x.opts, x.of)
  BY <1>1, <1>5, <1>7 DEF LoadFits, TotalRight
<1>9. LoadFits(x)
  BY <1>2, <1>5, <1>6, <1>8, Zenon DEF LoadFits
<1>10. UNCHANGED <<dialect, stored, opts, data>> /\ (data # <<>> => ShownFits(data[1]))
  BY DEF ReadRows, Read, PagesRight
<1> QED
  BY <1>3, <1>9, <1>10, RightChanged

\* What a load is when its number of rows has been read.
WithTotal(x, old, a) ==
  /\ DOMAIN x = LoadFields /\ DOMAIN x.of = {"rows", "total"}
  /\ x.opts = old.opts /\ x.rows = old.rows /\ x.of.rows = old.of.rows
  /\ x.todo = a.todo /\ x.stage = a.stage /\ TotalRight(x.total, x.opts, x.of)

\* The number of rows is read, in one of three ways.
LEMMA TotalRead ==
  ASSUME PagesRight, NEW i \in DOMAIN loads, CountMatches(i) \/ ReadEstimate(i) \/ NoTotal(i)
  PROVE  PagesRight'
<1> PICK old : old = loads[i]
  OBVIOUS
<1> PICK o, t : o = old.opts /\ t = stored
  OBVIOUS
<1>1. LoadFits(old) /\ old.stage = "reading" /\ old.todo # <<>> /\ Head(old.todo) = "total"
  BY DEF PagesRight, CountMatches, ReadEstimate, NoTotal, Read
<1> PICK a : a = Answer(old)
  OBVIOUS
<1>2. /\ DOMAIN a = LoadFields /\ DOMAIN a.of = {"rows", "total"}
      /\ a.opts = o /\ o \in Options /\ a.rows = old.rows /\ a.of = old.of
      /\ a.todo = Tail(old.todo) /\ a.todo \in Todos
      /\ a.stage \in Open /\ (a.stage \in {"answered", "arrived"} => a.todo = <<>>)
  BY <1>1, AnswerParts
<1>3. /\ old.of.total = <<>> /\ t \in Tables
      /\ ~Due(old.todo, "rows") => RowsRight(old.rows, o, old.of)
  <2>1. Due(old.todo, "total")
    <3>1. old.todo \in Todos
      BY <1>1 DEF LoadFits
    <3>2. Due(Tail(old.todo), "total") <=> Due(old.todo, "total") /\ "total" # Head(old.todo)
      BY <1>1, <3>1, TodoStep
    <3> QED
      BY <1>1, <3>1 DEF Due, Todos, RowsFirst, CountFirst
  <2> QED
    BY <1>1, <2>1 DEF LoadFits, PagesRight
<1>4. /\ Due(a.todo, "rows") <=> Due(old.todo, "rows")
      /\ ~Due(a.todo, "total")
  <2>1. old.todo \in Todos
    BY <1>1 DEF LoadFits
  <2> QED
    BY <1>1, <1>2, <2>1, TodoStep
<1>5. UNCHANGED <<dialect, stored, opts, data>> /\ (data # <<>> => ShownFits(data[1]))
  BY DEF CountMatches, ReadEstimate, NoTotal, Read, PagesRight
<1>6. ASSUME NEW x, loads' = [loads EXCEPT ![i] = x], WithTotal(x, old, a)
      PROVE  PagesRight'
  <2>1. /\ DOMAIN x = LoadFields /\ DOMAIN x.of = {"rows", "total"}
        /\ x.opts = o /\ x.rows = old.rows /\ x.of.rows = old.of.rows
        /\ x.todo = a.todo /\ x.stage = a.stage /\ TotalRight(x.total, x.opts, x.of)
    BY <1>6, Zenon DEF WithTotal
  <2>2. ~Due(x.todo, "rows") => RowsRight(x.rows, x.opts, x.of)
    BY <1>3, <1>4, <2>1 DEF RowsRight
  <2>3. LoadFits(x)
    BY <1>2, <1>4, <2>1, <2>2, Zenon DEF LoadFits
  <2> QED
    BY <1>5, <1>6, <2>3, RightChanged
<1>7. CASE CountMatches(i)
  <2> PICK n : n = Counted(FetchTableRows(o).where)
    OBVIOUS
  <2> PICK x : x = [a EXCEPT !.total = n, !.of.total = <<t>>]
    OBVIOUS
  <2>1. loads' = [loads EXCEPT ![i] = x]
    BY <1>7 DEF CountMatches
  <2>2. n = Cardinality(Matching(t, o)) /\ n \in Int
    <3>1. n = Cardinality(Matching(t, o))
      BY <1>2, FetchAnswers DEF PagesRight
    <3>2. Cardinality(Matching(t, o)) \in Nat
      BY <1>3, MatchingParts
    <3> QED
      BY <3>1, <3>2
  <2> PICK of : of = x.of
    OBVIOUS
  <2>3. /\ DOMAIN x = LoadFields /\ DOMAIN of = {"rows", "total"}
        /\ x.opts = o /\ x.rows = old.rows /\ of.rows = old.of.rows
        /\ x.todo = a.todo /\ x.stage = a.stage /\ x.total = n /\ of.total = <<t>>
    BY <1>2 DEF LoadFields
  <2>4. TotalRight(x.total, o, of)
    BY <1>3, <2>2, <2>3 DEF TotalRight
  <2>5. WithTotal(x, old, a)
    BY <2>3, <2>4, Zenon DEF WithTotal
  <2> QED
    BY <1>6, <2>1, <2>5
<1>8. CASE ReadEstimate(i) \/ NoTotal(i)
  <2>1. PICK n \in Int : loads' = [loads EXCEPT ![i] = [a EXCEPT !.total = n]]
    <3>1. CASE ReadEstimate(i)
      <4> PICK est : est = FetchTableRows(o).estimated
        OBVIOUS
      <4>1. est # Counting /\ \E y \in Estimates : loads' =
               [loads EXCEPT ![i] = [a EXCEPT !.total = est[y]]]
        BY <3>1 DEF ReadEstimate, Estimated
      <4>2. est = Counting \/ est \in [Estimates -> Int]
        BY <1>2, FetchAnswers DEF PagesRight
      <4> QED
        BY <4>1, <4>2
    <3>2. CASE NoTotal(i)
      <4>1. PICK n \in Int : n = -1
        OBVIOUS
      <4>2. loads' = [loads EXCEPT ![i] = [a EXCEPT !.total = n]]
        BY <3>2, <4>1 DEF NoTotal
      <4> QED
        BY <4>2, Zenon
    <3> QED
      BY <1>8, <3>1, <3>2
  <2> PICK x : x = [a EXCEPT !.total = n]
    OBVIOUS
  <2> PICK of : of = x.of
    OBVIOUS
  <2>2. /\ DOMAIN x = LoadFields /\ of = old.of
        /\ x.opts = o /\ x.rows = old.rows
        /\ x.todo = a.todo /\ x.stage = a.stage /\ x.total = n
    BY <1>2 DEF LoadFields
  <2>3. TotalRight(x.total, o, of)
    BY <1>3, <2>2 DEF TotalRight
  <2>4. WithTotal(x, old, a)
    BY <1>2, <2>2, <2>3, Zenon DEF WithTotal
  <2> QED
    BY <1>6, <2>1, <2>4
<1> QED
  BY <1>7, <1>8

\* A load that only changes its stage.
LEMMA StageFits ==
  ASSUME NEW l, LoadFits(l), l.stage \in Open, NEW x, DOMAIN x = LoadFields,
         x.stage = "refused" \/ (x.stage = "arrived" /\ l.stage = "answered"),
         x.opts = l.opts, x.todo = l.todo, x.rows = l.rows, x.total = l.total, x.of = l.of
  PROVE  LoadFits(x)
<1>1. x.stage \in Open /\ l.stage \notin {"shown", "dropped"}
  BY DEF Open
<1>2. /\ DOMAIN l.of = {"rows", "total"}
      /\ l.opts \in Options /\ l.todo \in Todos
      /\ l.stage \in {"answered", "arrived"} => l.todo = <<>>
      /\ ~Due(l.todo, "rows") => RowsRight(l.rows, l.opts, l.of)
      /\ IF Due(l.todo, "total") THEN l.of.total = <<>>
         ELSE TotalRight(l.total, l.opts, l.of)
  BY <1>1, Zenon DEF LoadFits
<1>3. x.stage \in {"answered", "arrived"} => x.todo = <<>>
  BY <1>2
<1> QED
  BY <1>1, <1>2, <1>3, Zenon DEF LoadFits

\* A load that is refused, or whose answer arrives.
LEMMA StageRight ==
  ASSUME PagesRight, NEW i \in DOMAIN loads, RefuseLoad(i) \/ Arrive(i)
  PROVE  PagesRight'
<1>1. PICK old : old = loads[i]
  OBVIOUS
<1>2. PICK s : /\ loads' = [loads EXCEPT ![i] = [old EXCEPT !.stage = s]]
               /\ s = "refused" \/ (s = "arrived" /\ old.stage = "answered")
  BY <1>1 DEF RefuseLoad, Arrive
<1>3. old.stage \in Open /\ LoadFits(old)
  BY <1>1 DEF RefuseLoad, Arrive, Read, Open, PagesRight
<1>4. PICK x : x = [old EXCEPT !.stage = s]
  OBVIOUS
<1>5. DOMAIN old = LoadFields
  BY <1>3 DEF LoadFits, Open
<1>6. /\ DOMAIN x = LoadFields /\ x.stage = s
      /\ x.opts = old.opts /\ x.todo = old.todo /\ x.rows = old.rows /\ x.total = old.total
      /\ x.of = old.of
  BY <1>4, <1>5 DEF LoadFields
<1>7. LoadFits(x)
  BY <1>2, <1>3, <1>6, StageFits
<1>8. UNCHANGED <<dialect, stored, opts, data>> /\ (data # <<>> => ShownFits(data[1]))
  BY DEF RefuseLoad, Arrive, Read, PagesRight
<1> QED
  BY <1>2, <1>4, <1>7, <1>8, RightChanged

\* What is shown is what has arrived.
LEMMA SettleRight ==
  ASSUME PagesRight, NEW i \in DOMAIN loads, Settle(i)
  PROVE  PagesRight'
<1>1. PICK old : old = loads[i]
  OBVIOUS
<1>2. /\ loads' = [loads EXCEPT ![i] = Over(old)] /\ UNCHANGED <<dialect, stored, opts>>
      /\ old.stage \in {"arrived", "refused"} /\ LoadFits(old)
  BY <1>1 DEF Settle, PagesRight
<1>3. LoadFits(Over(old))
  BY DEF LoadFits, Over
<1>4. data' # <<>> => ShownFits(data'[1])
  <2>1. CASE data' = data
    BY <2>1 DEF PagesRight
  <2>2. CASE data' # data
    <3>1. old.stage = "arrived"
      BY <1>1, <2>2 DEF Settle
    <3>2. PICK d : /\ data' = <<d>>
                   /\ d = [rows |-> old.rows, total |-> old.total, perPage |-> PerPage(old.opts),
                           opts |-> old.opts, of |-> old.of]
      BY <1>1, <2>2 DEF Settle
    <3>3. /\ old.opts \in Options /\ old.todo = <<>>
          /\ ~Due(old.todo, "rows") => RowsRight(old.rows, old.opts, old.of)
          /\ ~Due(old.todo, "total") => TotalRight(old.total, old.opts, old.of)
      <4>1. old.stage \notin {"shown", "dropped"} /\ old.stage \in {"answered", "arrived"}
        BY <3>1
      <4> QED
        BY <1>2, <4>1, Zenon DEF LoadFits
    <3>4. ~Due(old.todo, "rows") /\ ~Due(old.todo, "total")
      BY <3>3 DEF Due
    <3>5. ShownFits(d)
      BY <3>2, <3>3, <3>4 DEF ShownFits
    <3>6. data'[1] = d
      BY <3>2
    <3> QED
      BY <3>5, <3>6
  <2> QED
    BY <2>1, <2>2
<1> QED
  BY <1>2, <1>3, <1>4, RightChanged

\* A load that is stopped is refused.
LEMMA CancelRight ==
  ASSUME PagesRight, CancelLoad
  PROVE  PagesRight'
<1>1. PICK i, old : i = Len(loads) /\ old = loads[i]
  OBVIOUS
<1>2. /\ loads' = [loads EXCEPT ![i] = Abort(old)]
      /\ UNCHANGED <<dialect, stored, opts, data>> /\ (data # <<>> => ShownFits(data[1]))
  BY <1>1 DEF CancelLoad, PagesRight
<1>3. LoadFits(old)
  <2>1. Len(loads) \in Nat /\ DOMAIN loads = 1..Len(loads) /\ Len(loads) # 0
    BY SequenceParts DEF PagesRight, IsSequence
  <2>2. i \in DOMAIN loads
    BY <1>1, <2>1
  <2> QED
    BY <1>1, <2>2 DEF PagesRight
<1>4. CASE old.stage \in {"reading", "answered", "refused"}
  <2>1. PICK x : x = [old EXCEPT !.stage = "refused", !.aborted = TRUE]
    OBVIOUS
  <2>2. Abort(old) = x
    BY <1>4, <2>1 DEF Abort
  <2>3. DOMAIN old = LoadFields /\ old.stage \in Open
    BY <1>3, <1>4 DEF LoadFits, Open
  <2>4. /\ DOMAIN x = LoadFields /\ x.stage = "refused"
        /\ x.opts = old.opts /\ x.todo = old.todo /\ x.rows = old.rows /\ x.total = old.total
        /\ x.of = old.of
    BY <2>1, <2>3 DEF LoadFields
  <2>5. LoadFits(x)
    BY <1>3, <2>3, <2>4, StageFits
  <2> QED
    BY <1>2, <2>2, <2>5, RightChanged
<1>5. CASE old.stage \notin {"reading", "answered", "refused"}
  <2>1. Abort(old) = old
    BY <1>5 DEF Abort
  <2> QED
    BY <1>2, <1>3, <2>1, RightChanged
<1> QED
  BY <1>4, <1>5

\* A new load has both its statements before it.
LEMMA NewFits ==
  ASSUME dialect \in Dialects, stored \in Tables, NEW o \in Options
  PROVE  LoadFits(NewLoad(o))
<1>1. PICK todo, x : todo = FetchTableRows(o).order /\ x = NewLoad(o)
  OBVIOUS
<1>2. todo \in {RowsFirst, CountFirst}
  BY <1>1, FetchAnswers
<1>3. todo \in Todos /\ Due(todo, "rows") /\ Due(todo, "total")
  <2>1. ASSUME NEW a, NEW b PROVE Due(<<a, b>>, a) /\ Due(<<a, b>>, b)
    <3>1. DOMAIN <<a, b>> = 1..2 /\ <<a, b>>[1] = a /\ <<a, b>>[2] = b /\ 1 \in 1..2 /\ 2 \in 1..2
      OBVIOUS
    <3> QED
      BY <3>1 DEF Due
  <2> QED
    BY <1>2, <2>1 DEF Todos, RowsFirst, CountFirst
<1>4. /\ DOMAIN x = LoadFields /\ DOMAIN x.of = {"rows", "total"} /\ x.of.total = <<>>
      /\ x.stage = "reading" /\ x.opts = o /\ x.todo = todo
  BY <1>1 DEF NewLoad, LoadFields
<1>5. x.stage \in Open /\ x.stage \notin {"answered", "arrived"}
  BY <1>4 DEF Open
<1>6. LoadFits(x)
  BY <1>3, <1>4, <1>5, Zenon DEF LoadFits
<1> QED
  BY <1>1, <1>6

\* A new load, of what may be chosen, keeps the pages right.
LEMMA ReloadRight ==
  ASSUME PagesRight, NEW o \in Options, ReloadPage(o)
  PROVE  PagesRight'
<1>1. PICK s, x, y : /\ y = Supersede(loads[Len(loads)]) /\ s = [loads EXCEPT ![Len(loads)] = y]
                     /\ x = NewLoad(o)
  OBVIOUS
<1>2. loads' = Append(s, x) /\ opts' = o /\ UNCHANGED <<dialect, stored, data>>
  BY <1>1 DEF ReloadPage
<1>3. IsSequence(loads) /\ Len(loads) \in DOMAIN loads
  <2>1. Len(loads) \in Nat /\ DOMAIN loads = 1..Len(loads) /\ Len(loads) # 0 /\ IsSequence(loads)
    BY SequenceParts DEF PagesRight, IsSequence
  <2> QED
    BY <2>1
<1>4. LoadFits(y)
  <2>1. PICK l : l = loads[Len(loads)]
    OBVIOUS
  <2>2. LoadFits(l)
    BY <1>3, <2>1 DEF PagesRight
  <2>3. LoadFits(Over(l))
    BY DEF LoadFits, Over
  <2> QED
    BY <1>1, <2>1, <2>2, <2>3 DEF Supersede
<1>5. /\ IsSequence(s) /\ DOMAIN s = DOMAIN loads
      /\ \A n \in DOMAIN s : s[n] = y \/ s[n] = loads[n]
  BY <1>1, <1>3, Replaced, SequenceParts
<1>6. \A n \in DOMAIN s : LoadFits(s[n])
  BY <1>4, <1>5 DEF PagesRight
<1>7. LoadFits(x)
  BY <1>1, NewFits DEF PagesRight
<1>8. /\ IsSequence(loads') /\ loads' # <<>>
      /\ \A n \in DOMAIN loads' : (n \in DOMAIN s /\ loads'[n] = s[n]) \/ loads'[n] = x
  <2>1. PICK w, m : w = Append(s, x) /\ m = Len(s)
    OBVIOUS
  <2>2. /\ m \in Nat /\ DOMAIN s = 1..m
        /\ IsSequence(w) /\ DOMAIN w = 1..(m + 1) /\ w # <<>>
        /\ w[m + 1] = x /\ \A k \in 1..m : w[k] = s[k]
    BY <1>5, <2>1, AddedParts
  <2>3. \A n \in 1..(m + 1) : n \in 1..m \/ n = m + 1
    BY <2>2
  <2> QED
    BY <1>2, <2>1, <2>2, <2>3
<1>9. \A n \in DOMAIN loads' : LoadFits(loads[n])'
  <2> SUFFICES ASSUME NEW n \in DOMAIN loads' PROVE LoadFits(loads[n])'
    OBVIOUS
  <2>1. PICK l : l = loads'[n]
    OBVIOUS
  <2>2. LoadFits(l)
    BY <1>6, <1>7, <1>8, <2>1
  <2>3. LoadFits(l)'
    BY <1>2, <2>2, FitsSame
  <2>4. loads[n]' = l
    BY <2>1
  <2> QED
    BY <2>3, <2>4, Zenon DEF LoadFits
<1>10. data' # <<>> => ShownFits(data[1])'
  <2> SUFFICES ASSUME data' # <<>> PROVE ShownFits(data[1])'
    OBVIOUS
  <2>1. PICK d : d = data'[1]
    OBVIOUS
  <2>2. ShownFits(d)
    BY <1>2, <2>1 DEF PagesRight
  <2>3. ShownFits(d)'
    BY <1>2, <2>2, FitsSame
  <2> QED
    BY <2>1, <2>3, Zenon DEF ShownFits
<1>11. dialect' \in Dialects /\ stored' \in Tables /\ opts' \in Options
  BY <1>2 DEF PagesRight
<1> QED
  BY <1>8, <1>9, <1>10, <1>11, Zenon DEF PagesRight

-----------------------------------------------------------------------------
(* The pager.                                                              *)

\* How often b goes into a.
LEMMA Quotient ==
  ASSUME NEW a \in Nat, NEW b \in Nat \ {0}
  PROVE  a \div b \in Nat /\ (a \div b) * b <= a /\ a < (a \div b) * b + b
OBVIOUS

\* Products of numbers are numbers, and grow with their factors.
LEMMA ProductGrows ==
  ASSUME NEW x \in Nat, NEW y \in Nat, NEW b \in Nat, x <= y
  PROVE  x * b \in Nat /\ y * b \in Nat /\ x * b <= y * b /\ (x + 1) * b = x * b + b
<1>1. PICK k \in Nat : y = x + k
  <2>1. y - x \in Nat /\ y = x + (y - x)
    OBVIOUS
  <2> QED
    BY <2>1
<1>2. (x + k) * b = x * b + k * b /\ k * b \in Nat /\ x * b \in Nat /\ (x + 1) * b = x * b + b
  OBVIOUS
<1> QED
  BY <1>1, <1>2

\* So many rows fill more than p pages exactly when there are more pages than p.
LEMMA MorePages ==
  ASSUME NEW m \in Nat, m # 0, NEW per \in Nat \ {0}, NEW p \in Nat
  PROVE  /\ (m + per - 1) \div per \in Nat
         /\ p < (m + per - 1) \div per <=> m > p * per
<1>1. PICK a \in Nat : a = m + per - 1
  <2>1. m + per - 1 \in Nat
    OBVIOUS
  <2> QED
    BY <2>1
<1>2. PICK q : q = a \div per
  OBVIOUS
<1>3. q \in Nat /\ q * per <= a /\ a < q * per + per
  BY <1>2, Quotient
<1>4. ASSUME p < q PROVE m > p * per
  <2>1. p + 1 \in Nat /\ p + 1 <= q
    BY <1>3, <1>4
  <2>2. (p + 1) * per <= q * per /\ (p + 1) * per = p * per + per /\ p * per \in Nat
    BY <1>3, <2>1, ProductGrows
  <2>3. PICK x, y : x = p * per /\ y = q * per
    OBVIOUS
  <2>4. q * per \in Nat
    BY <1>3
  <2> QED
    BY <1>1, <1>3, <2>2, <2>3, <2>4
<1>5. ASSUME ~(p < q) PROVE ~(m > p * per)
  <2>1. q <= p
    BY <1>3, <1>5
  <2>2. q * per <= p * per /\ q * per \in Nat /\ p * per \in Nat
    BY <1>3, <2>1, ProductGrows
  <2> QED
    BY <1>1, <1>3, <2>2
<1> QED
  BY <1>1, <1>2, <1>3, <1>4, <1>5

\* The pager has pages, whatever is shown.
LEMMA PagerCounts == ASSUME PagesRight PROVE TotalPages \in Int
<1>1. PICK page, d, n : page = opts.page /\ d = data[1] /\ n = Len(d.rows)
  OBVIOUS
<1>2. page \in Nat
  BY <1>1, OptionsParts DEF PagesRight
<1>3. CASE data = <<>>
  BY <1>3 DEF TotalPages
<1>4. CASE data # <<>>
  <2>1. PICK total, per : total = d.total /\ per = d.perPage
    OBVIOUS
  <2>2. total \in Int /\ per \in Nat \ {0}
    <3>1. ShownFits(d)
      BY <1>1, <1>4 DEF PagesRight
    <3> QED
      BY <2>1, <3>1, OptionsParts DEF ShownFits, TotalRight
  <2>3. TotalPages = IF total < 0 THEN IF n >= per THEN page + 1 ELSE page
                     ELSE IF total = 0 THEN 1 ELSE (total + per - 1) \div per
    BY <1>1, <1>4, <2>1 DEF TotalPages
  <2>4. total > 0 => (total + per - 1) \div per \in Nat
    BY <2>2, MorePages
  <2> QED
    BY <1>2, <2>2, <2>3, <2>4
<1> QED
  BY <1>3, <1>4

\* What the user chooses is a choice.
LEMMA Chosen ==
  ASSUME NEW old \in Options, NEW page \in Nat \ {0}
  PROVE  /\ [old EXCEPT !.page = page] \in Options
         /\ \A n \in Nat : [old EXCEPT !.limit = n, !.page = 1] \in Options
         /\ \A fs \in FilterLists : [old EXCEPT !.filters = fs, !.page = 1] \in Options
         /\ \A column \in Columns \cup {""}, desc \in BOOLEAN :
              [old EXCEPT !.sort = column, !.desc = desc] \in Options
<1>1. [old EXCEPT !.page = page] \in Options
  BY DEF Options
<1>. PICK one \in Nat \ {0} : one = 1
  OBVIOUS
<1>2. ASSUME NEW n \in Nat PROVE [old EXCEPT !.limit = n, !.page = 1] \in Options
  <2>1. [old EXCEPT !.limit = n, !.page = one] \in Options
    BY DEF Options
  <2> QED
    BY <2>1
<1>3. ASSUME NEW fs \in FilterLists PROVE [old EXCEPT !.filters = fs, !.page = 1] \in Options
  <2>1. [old EXCEPT !.filters = fs, !.page = one] \in Options
    BY DEF Options
  <2> QED
    BY <2>1
<1>4. ASSUME NEW column \in Columns \cup {""}, NEW desc \in BOOLEAN
      PROVE  [old EXCEPT !.sort = column, !.desc = desc] \in Options
  BY DEF Options
<1> QED
  BY <1>1, <1>2, <1>3, <1>4

\* Every choice of the user is one of those.
LEMMA ReloadsRight ==
  ASSUME PagesRight,
         \/ \E n \in Limits : SetLimit(n)
         \/ \E n \in 1..TotalPages : GoTo(n)
         \/ \E filters \in FilterLists : Filter(filters)
         \/ \E column \in Columns : Sort(column)
         \/ Previous \/ NextPage \/ Refresh
  PROVE  PagesRight'
<1>1. PICK old \in Options : old = opts
  BY DEF PagesRight
<1>2. old.page \in Nat \ {0}
  BY OptionsParts
<1>3. CASE \E n \in Limits : SetLimit(n)
  <2>1. PICK n \in Limits : ReloadPage([old EXCEPT !.limit = n, !.page = 1])
    BY <1>1, <1>3 DEF SetLimit
  <2>2. n \in Nat
    BY PagesAssumption
  <2> QED
    BY <1>2, <2>1, <2>2, Chosen, ReloadRight
<1>4. CASE \E n \in 1..TotalPages : GoTo(n)
  <2>1. PICK n \in 1..TotalPages : ReloadPage([old EXCEPT !.page = n])
    BY <1>1, <1>4 DEF GoTo
  <2>2. n \in Nat \ {0}
    BY PagerCounts
  <2> QED
    BY <2>1, <2>2, Chosen, ReloadRight
<1>5. CASE \E filters \in FilterLists : Filter(filters)
  <2>1. PICK fs \in FilterLists : ReloadPage([old EXCEPT !.filters = fs, !.page = 1])
    BY <1>1, <1>5 DEF Filter
  <2> QED
    BY <1>2, <2>1, Chosen, ReloadRight
<1>6. CASE \E column \in Columns : Sort(column)
  <2>1. PICK column \in Columns \cup {""}, desc \in BOOLEAN :
          ReloadPage([old EXCEPT !.sort = column, !.desc = desc])
    <3>1. PICK column \in Columns : Sort(column)
      BY <1>6
    <3>2. PICK c, d : /\ c = IF old.sort = column /\ old.desc THEN "" ELSE column
                      /\ d = (old.sort = column /\ ~old.desc)
      OBVIOUS
    <3>3. ReloadPage([old EXCEPT !.sort = c, !.desc = d])
      BY <1>1, <3>1, <3>2 DEF Sort
    <3>4. c \in Columns \cup {""} /\ d \in BOOLEAN
      BY <3>2
    <3> QED
      BY <3>3, <3>4
  <2> QED
    BY <1>2, <2>1, Chosen, ReloadRight
<1>7. CASE Previous
  <2>1. PICK page : page = old.page - 1
    OBVIOUS
  <2>2. page \in Nat \ {0} /\ ReloadPage([old EXCEPT !.page = page])
    BY <1>1, <1>2, <1>7, <2>1 DEF Previous
  <2> QED
    BY <2>2, Chosen, ReloadRight
<1>8. CASE NextPage
  <2>1. PICK page : page = old.page + 1
    OBVIOUS
  <2>2. page \in Nat \ {0} /\ ReloadPage([old EXCEPT !.page = page])
    BY <1>1, <1>2, <1>8, <2>1 DEF NextPage
  <2> QED
    BY <2>2, Chosen, ReloadRight
<1>9. CASE Refresh
  BY <1>1, <1>9, ReloadRight DEF Refresh
<1> QED
  BY <1>3, <1>4, <1>5, <1>6, <1>7, <1>8, <1>9

\* Another client of the database writes, or nothing changes.
LEMMA OthersRight ==
  ASSUME PagesRight, OtherWrites \/ UNCHANGED pageVars
  PROVE  PagesRight'
<1>1. UNCHANGED <<dialect, opts, loads, data>> /\ stored' \in Tables
  BY DEF OtherWrites, pageVars, PagesRight
<1>2. \A n \in DOMAIN loads' : LoadFits(loads[n])'
  <2> SUFFICES ASSUME NEW n \in DOMAIN loads' PROVE LoadFits(loads[n])'
    OBVIOUS
  <2>1. PICK l : l = loads'[n]
    OBVIOUS
  <2>2. LoadFits(l)
    BY <1>1, <2>1 DEF PagesRight
  <2>3. LoadFits(l)'
    BY <1>1, <2>2, FitsSame
  <2> QED
    BY <2>1, <2>3, Zenon DEF LoadFits
<1>3. data' # <<>> => ShownFits(data[1])'
  <2> SUFFICES ASSUME data' # <<>> PROVE ShownFits(data[1])'
    OBVIOUS
  <2>1. PICK d : d = data'[1]
    OBVIOUS
  <2>2. ShownFits(d)
    BY <1>1, <2>1 DEF PagesRight
  <2>3. ShownFits(d)'
    BY <1>1, <2>2, FitsSame
  <2> QED
    BY <2>1, <2>3, Zenon DEF ShownFits
<1>4. /\ dialect' \in Dialects /\ opts' \in Options /\ IsSequence(loads') /\ loads' # <<>>
  BY <1>1 DEF PagesRight
<1> QED
  BY <1>1, <1>2, <1>3, <1>4, Zenon DEF PagesRight

\* Every step keeps the pages right.
LEMMA RightStep == PagesRight /\ [PagesNext]_pageVars => PagesRight'
<1> SUFFICES ASSUME PagesRight, [PagesNext]_pageVars PROVE PagesRight'
  OBVIOUS
<1>1. CASE \E i \in DOMAIN loads :
             \/ ReadRows(i) \/ CountMatches(i) \/ ReadEstimate(i) \/ NoTotal(i) \/ RefuseLoad(i)
             \/ Arrive(i) \/ Settle(i)
  BY <1>1, RowsRead, TotalRead, StageRight, SettleRight
<1>2. CASE \/ \E n \in Limits : SetLimit(n)
           \/ \E n \in 1..TotalPages : GoTo(n)
           \/ \E filters \in FilterLists : Filter(filters)
           \/ \E column \in Columns : Sort(column)
           \/ Previous \/ NextPage \/ Refresh
  BY <1>2, ReloadsRight
<1>3. CASE CancelLoad
  BY <1>3, CancelRight
<1>4. CASE OtherWrites \/ UNCHANGED pageVars
  BY <1>4, OthersRight
<1> QED
  BY <1>1, <1>2, <1>3, <1>4 DEF PagesNext

\* A grid that opens asks for the first page, and shows nothing.
LEMMA RightStart == PagesInit => PagesRight
<1> SUFFICES ASSUME PagesInit PROVE PagesRight
  OBVIOUS
<1>1. /\ dialect \in Dialects /\ stored \in Tables /\ data = <<>>
      /\ loads = <<NewLoad(opts)>>
  BY PagesAssumption DEF PagesInit
<1>2. opts \in Options
  <2>1. MaxRows \in Nat \ {0} /\ DefaultRows \in 1..MaxRows
    BY PagesAssumption
  <2>2. DefaultRows \in Nat
    BY <2>1
  <2>3. PICK one \in Nat \ {0} : one = 1
    OBVIOUS
  <2>4. PICK o \in [page : {1}, limit : {DefaultRows}, sort : {""}, desc : {FALSE},
                   filters : FilterLists] : o = opts
    BY DEF PagesInit
  <2>5. /\ o = [page |-> o.page, limit |-> o.limit, sort |-> o.sort, desc |-> o.desc,
               filters |-> o.filters]
        /\ o.page = 1 /\ o.limit = DefaultRows /\ o.sort = "" /\ o.desc = FALSE
        /\ o.filters \in FilterLists
    BY <2>4
  <2>6. PICK none \in Columns \cup {""} : none = ""
    OBVIOUS
  <2>7. PICK no \in BOOLEAN : no = FALSE
    OBVIOUS
  <2>8. o = [page |-> one, limit |-> DefaultRows, sort |-> none, desc |-> no, filters |-> o.filters]
    BY <2>5, <2>3, <2>6, <2>7, Zenon
  <2>9. o \in Options
    <3>1. PICK limit \in Nat : limit = DefaultRows
      BY <2>2
    <3>2. PICK filters \in FilterLists : filters = o.filters
      BY <2>5
    <3>3. [page |-> one, limit |-> limit, sort |-> none, desc |-> no, filters |-> filters]
            \in Options
      BY DEF Options
    <3> QED
      BY <2>8, <3>1, <3>2, <3>3, Zenon
  <2> QED
    BY <2>4, <2>9
<1>3. PICK x : x = NewLoad(opts)
  OBVIOUS
<1>4. LoadFits(x)
  <2>1. PICK o : o = opts
    OBVIOUS
  <2> QED
    BY <1>1, <1>2, <1>3, <2>1, NewFits
<1>5. IsSequence(loads) /\ loads # <<>> /\ \A n \in DOMAIN loads : loads[n] = x
  <2>1. <<x>> \in Seq({x}) /\ <<x>> # <<>> /\ \A n \in DOMAIN <<x>> : <<x>>[n] = x
    OBVIOUS
  <2> QED
    BY <1>1, <1>3, <2>1, SequenceOf
<1> QED
  BY <1>1, <1>2, <1>4, <1>5 DEF PagesRight

-----------------------------------------------------------------------------
(* The theorems.                                                           *)

\* A page that was right when it was read stays so.
THEOREM PagesInvariance == PagesSpec => []PagesRight
BY RightStart, RightStep, PTL DEF PagesSpec

\* The rows shown are that page of the rows the filter means, in the order that was asked for,
\* whichever engine's clause, parameters and paging brought them.
THEOREM PageSafety == PagesSpec => []PageIsRight
<1>1. PagesRight => PageIsRight
  <2> SUFFICES ASSUME PagesRight, data # <<>>
               PROVE  PageFits(data[1].rows, Matching(data[1].of.rows, data[1].opts), data[1].opts)
    BY Zenon DEF PageIsRight, PageFits
  <2> QED
    BY DEF PagesRight, ShownFits, RowsRight
<1> QED
  BY <1>1, PagesInvariance, PTL

\* The pager leads to the next page exactly when there are rows on it, if they were counted, and
\* in any case when their number is not known.
THEOREM PagerSafety == PagesSpec => []PagerReaches
<1>1. PagesRight /\ ShownIsAsked => PagerReaches
  <2> SUFFICES ASSUME PagesRight, ShownIsAsked, CurrentLoad.stage = "shown" PROVE PagerReaches
    BY DEF PagerReaches
  <2>1. PICK d, o : d = data[1] /\ o = opts
    OBVIOUS
  <2>2. data # <<>> /\ d.opts = o /\ ShownFits(d) /\ o \in Options
    BY <2>1 DEF ShownIsAsked, PagesRight
  <2>3. PICK m, per, page, n, total, shown :
          /\ m = Cardinality(Matching(d.of.rows, o)) /\ per = PerPage(o) /\ page = o.page
          /\ n = Len(d.rows) /\ total = d.total /\ shown = d.of.rows
    OBVIOUS
  <2>4. /\ page \in Nat \ {0} /\ per \in Nat \ {0} /\ m \in Nat /\ total \in Int /\ shown \in Tables
        /\ d.perPage = per /\ PageFits(d.rows, Matching(shown, o), o)
        /\ d.of.total # <<>> =>
             \E t \in Tables : d.of.total = <<t>> /\ total = Cardinality(Matching(t, o))
    <3>1. /\ shown \in Tables /\ d.perPage = per /\ PageFits(d.rows, Matching(shown, o), o)
          /\ total \in Int
          /\ d.of.total # <<>> =>
               \E t \in Tables : d.of.total = <<t>> /\ total = Cardinality(Matching(t, o))
      BY <2>2, <2>3 DEF ShownFits, RowsRight, TotalRight
    <3> QED
      BY <2>2, <2>3, <3>1, OptionsParts, MatchingParts
  <2>5. TotalPages = IF total < 0 THEN IF n >= per THEN page + 1 ELSE page
                     ELSE IF total = 0 THEN 1 ELSE (total + per - 1) \div per
    BY <2>1, <2>2, <2>3, <2>4 DEF TotalPages
  <2>6. page * per \in Nat /\ page * per >= 1
    <3>1. 1 * per <= page * per /\ page * per \in Nat
      BY <2>4, ProductGrows
    <3> QED
      BY <2>4, <3>1
  <2>7. ASSUME d.of.total = <<shown>>
        PROVE  page < TotalPages <=> m > page * per
    <3>1. total = m
      <4>1. PICK t : d.of.total = <<t>> /\ total = Cardinality(Matching(t, o))
        BY <2>4, <2>7
      <4>2. t = shown
        BY <2>7, <4>1
      <4> QED
        BY <2>3, <4>1, <4>2
    <3>2. CASE m = 0
      BY <2>4, <2>5, <2>6, <3>1, <3>2
    <3>3. CASE m # 0
      <4>1. /\ (m + per - 1) \div per \in Nat
            /\ page < (m + per - 1) \div per <=> m > page * per
        BY <2>4, <3>3, MorePages
      <4>2. TotalPages = (m + per - 1) \div per
        BY <2>4, <2>5, <3>1, <3>3
      <4> QED
        BY <4>1, <4>2
    <3> QED
      BY <3>2, <3>3
  <2>8. ASSUME total < 0, m > page * per
        PROVE  page < TotalPages
    <3>1. n = per
      <4>1. PICK before, upto : before = (page - 1) * per /\ upto = page * per
        OBVIOUS
      <4>2. n = Least(upto, m) - Least(before, m)
        BY <2>3, <2>4, <4>1 DEF PageFits, Fewest
      <4>3. before \in Nat /\ upto = before + per
        <5>1. PICK q \in Nat : q = page - 1
          BY <2>4
        <5>2. q * per \in Nat /\ (q + 1) * per = q * per + per
          BY <2>4, ProductGrows
        <5>3. page = q + 1
          BY <2>4, <5>1
        <5> QED
          BY <4>1, <5>1, <5>2, <5>3
      <4> QED
        BY <2>4, <2>8, <4>1, <4>2, <4>3 DEF Least
    <3> QED
      BY <2>4, <2>5, <2>8, <3>1
  <2> QED
    BY <2>1, <2>3, <2>7, <2>8 DEF PagerReaches
<1> QED
  BY <1>1, AskedSafety, PagesInvariance, PTL
=============================================================================
