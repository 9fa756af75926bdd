------------------------------ MODULE Adapters ------------------------------
(***************************************************************************)
(* The database storages: adapters/sqlite, postgres, mysql and mongo.  On  *)
(* the three SQL ones the collections of schema.ts TABLE_SPECS are typed   *)
(* tables with UNIQUE and FOREIGN KEY constraints, and a document is       *)
(* mapped to a row and back; every other collection, and every one on      *)
(* Mongo and in files, holds documents.  Two callers use a storage at once, the body    *)
(* of one transaction ("tx") and any other call ("other"), while a reader  *)
(* walks a collection page by page.  Documents have ids that are naturals  *)
(* in the order of their cursor, at most one foreign key, which never      *)
(* changes, at most one unique field (mail), an optional boolean column    *)
(* (flag), a nullable one (since) and a field without a column (more).     *)
(***************************************************************************)
EXTENDS Naturals, FiniteSets, Sequences

CONSTANTS
    TableOf,      \* id -> its collection
    ParentOf,     \* id -> the id its foreign key names, or 0
    Scene,        \* the sets of ids that one behaviour uses
    Docs,         \* id -> the documents it may hold
    Filters,      \* <<collection, field, value>>: what a reader asks for; field "any" for no filter
    Limit         \* rows of a page

\* A document as this storage tells it from another: what a column can hold and give back.
Document ==
    [mail : STRING, flag : {"absent", "true", "false"}, since : STRING \ {"absent", "NULL", "0", "1"},
     more : STRING]

ASSUME AdaptersAssumption ==
    /\ Limit \in Nat \ {0}
    /\ \A s \in Scene : s \subseteq Nat \ {0} /\ IsFiniteSet(s) /\ \A i \in s : Docs[i] \subseteq Document

Backend == {"sqlite", "postgres", "mysql", "documents"}
TypedTable == {"users", "sessions", "content_types", "content_entries", "revisions"}
NULL == "NULL"
NoRow == [none |-> "row"]
NoDoc == [none |-> "doc"]
Idle == [at |-> "idle", id |-> 0, doc |-> NoDoc]

VARIABLES
    backend,      \* the storage of this site
    ids,          \* the ids in use
    row,          \* id -> its row, or NoRow
    call,         \* the two callers: what each has sent
    tx,           \* the transaction: its journal of prior values, and history
    walk,         \* the reader: where it is, what it has seen and (history) what it must see
    plain         \* history: id -> the document last put and acknowledged, not deleted since

adapterVars == <<backend, ids, row, call, tx, walk, plain>>

Typed(i) == backend # "documents" /\ TableOf[i] \in TypedTable

(***************************************************************************)
(* typed-mapper.ts.                                                        *)
(***************************************************************************)
\* A boolean, a text or nothing, as a column holds it.
ToStore(v) == CASE v \in {"absent", "null"} -> NULL
                [] v = "true" -> "1"
                [] v = "false" -> "0"
                [] OTHER -> v
FromStore(v) == CASE v = NULL -> "null"
                  [] v = "1" -> "true"
                  [] v = "0" -> "false"
                  [] OTHER -> v

\* Mutant: every field goes to a column, and one that has none is lost.
DocToRowDropped(d) == [mail |-> d.mail, flag |-> ToStore(d.flag), since |-> ToStore(d.since), extra |-> "absent"]
DocToRow(d) ==
    [mail |-> d.mail, flag |-> ToStore(d.flag), since |-> ToStore(d.since), extra |-> d.more]

\* flag is optional: it stays absent.  since is not: it is read back as null.
RowToDoc(r) ==
    [mail |-> r.mail, flag |-> IF r.flag = NULL THEN "absent" ELSE FromStore(r.flag),
     since |-> FromStore(r.since), more |-> r.extra]

Stored(i, d) == IF Typed(i) THEN DocToRow(d) ELSE d
Read(i, r) == IF r = NoRow THEN NoDoc ELSE IF Typed(i) THEN RowToDoc(r) ELSE r

(***************************************************************************)
(* Constraints.                                                            *)
(***************************************************************************)
Restricts(i) == TableOf[i] = "content_entries"      \* the others cascade
Children(i) == {c \in ids : ParentOf[c] = i /\ Typed(c) /\ row[c] # NoRow}
Held(i) == \E c \in Children(i) : Restricts(c)
Gone(i) == {i} \cup Children(i)

\* A reference to nothing, or a value another row has.
Refused(i, d) == Typed(i) /\
    \/ ParentOf[i] # 0 /\ row[ParentOf[i]] = NoRow
    \/ d.mail # "none" /\
       \E j \in ids \ {i} : TableOf[j] = TableOf[i] /\ row[j] # NoRow /\ row[j].mail = d.mail

\* Mutant: INSERT OR REPLACE, which deletes the row first, and with it the rows that refer to it.
UpsertedReplace(i, d) ==
    [j \in ids |-> IF j = i THEN Stored(i, d) ELSE IF j \in Gone(i) THEN NoRow ELSE row[j]]
Upserted(i, d) == [row EXCEPT ![i] = Stored(i, d)]
Deleted(i) == [j \in ids |-> IF j \in Gone(i) THEN NoRow ELSE row[j]]

(***************************************************************************)
(* Statements.  A caller sends a call, a transaction without support from  *)
(* the backend after noting the prior value; it takes effect later.        *)
(***************************************************************************)
Journaled == backend # "sqlite"

\* Mutant: the journal notes the value of every write, not of the first.
CapturedLast(i) ==
    Append(SelectSeq(tx.journal, LAMBDA e : e.id # i), [id |-> i, prior |-> Read(i, row[i])])
Captured(i) == IF \E n \in DOMAIN tx.journal : tx.journal[n].id = i
               THEN tx.journal
               ELSE Append(tx.journal, [id |-> i, prior |-> Read(i, row[i])])

Send(by, i, d) ==
    /\ call[by] = Idle
    /\ call' = [call EXCEPT ![by] = [at |-> "sent", id |-> i, doc |-> d]]
    /\ \/ by = "other" /\ UNCHANGED tx
       \/ by = "tx" /\ tx.at = "open"
          /\ tx' = [tx EXCEPT !.journal = IF Journaled THEN Captured(i) ELSE @]
    /\ UNCHANGED <<backend, ids, row, walk, plain>>

\* The transaction is no longer alone, or a constraint acted in it.
Noted(by, acted) ==
    tx' = [tx EXCEPT !.alone = @ /\ (tx.at = "none" \/ by = "tx"), !.free = @ /\ ~acted]

\* <<i, f, v>> selects a row: the stored value and the value asked for are compared in one form.
Form(column, v) ==
    CASE v = "absent" -> NULL
      [] column \/ backend = "sqlite" -> ToStore(v)
      [] OTHER -> v
\* Mutant: a boolean asked of a column is not converted.
AskedRaw(column, v) == v
Asked(column, v) == Form(column, v)

FieldOf(d, f) == IF f = "flag" THEN d.flag ELSE d.more
Column(i, f) == Typed(i) /\ f = "flag"
Matching(rows, q) ==
    {i \in ids : TableOf[i] = q[1] /\ rows[i] # NoRow /\
        (q[2] = "any" \/ Asked(Column(i, q[2]), q[3]) =
                         Form(Column(i, q[2]), FieldOf(Read(i, rows[i]), q[2])))}

\* What the reader asks for, told by the documents themselves.
Answers(q) == {i \in ids : TableOf[i] = q[1] /\ plain'[i] # NoDoc /\
                           (q[2] = "any" \/ FieldOf(plain'[i], q[2]) = q[3])}
StillDue == walk' = IF walk.at = "walking" THEN [walk EXCEPT !.due = @ \cap Answers(walk.query)] ELSE walk

Stays(by, acted) ==
    /\ UNCHANGED <<row, plain, walk>>
    /\ Noted(by, acted)

\* An upsert: one statement, but on MySQL a SELECT and then an UPDATE or an INSERT.
TwoSteps(c) == backend = "mysql" /\ Typed(c.id)

Takes(by, i, d) ==
    /\ row' = Upserted(i, d)
    /\ plain' = [plain EXCEPT ![i] = d]
    /\ Noted(by, FALSE)
    /\ StillDue

Put(by) == LET c == call[by] IN
    /\ c.at = "sent" /\ c.doc # NoDoc /\ ~TwoSteps(c)
    /\ call' = [call EXCEPT ![by] = Idle]
    /\ IF Refused(c.id, c.doc) THEN Stays(by, TRUE) ELSE Takes(by, c.id, c.doc)
    /\ UNCHANGED <<backend, ids>>

Select(by) == LET c == call[by] IN
    /\ c.at = "sent" /\ c.doc # NoDoc /\ TwoSteps(c)
    /\ call' = [call EXCEPT ![by].at = IF row[c.id] = NoRow THEN "missing" ELSE "found"]
    /\ UNCHANGED <<backend, ids, row, tx, walk, plain>>

\* An UPDATE of a row deleted since is answered ok and changes nothing.
Update(by) == LET c == call[by] IN
    /\ c.at = "found"
    /\ call' = [call EXCEPT ![by] = Idle]
    /\ IF row[c.id] = NoRow \/ Refused(c.id, c.doc) THEN Stays(by, TRUE) ELSE Takes(by, c.id, c.doc)
    /\ UNCHANGED <<backend, ids>>

\* An INSERT of a row put since fails.
Insert(by) == LET c == call[by] IN
    /\ c.at = "missing"
    /\ call' = [call EXCEPT ![by] = Idle]
    /\ IF row[c.id] # NoRow \/ Refused(c.id, c.doc) THEN Stays(by, TRUE) ELSE Takes(by, c.id, c.doc)
    /\ UNCHANGED <<backend, ids>>

Delete(by) == LET c == call[by] IN
    /\ c.at = "sent" /\ c.doc = NoDoc
    /\ call' = [call EXCEPT ![by] = Idle]
    /\ IF Held(c.id)
       THEN Stays(by, TRUE)
       ELSE /\ row' = Deleted(c.id)
            /\ plain' = [j \in ids |-> IF j \in Gone(c.id) THEN NoDoc ELSE plain[j]]
            /\ Noted(by, Children(c.id) # {})
            /\ StillDue
    /\ UNCHANGED <<backend, ids>>

(***************************************************************************)
(* A transaction.                                                          *)
(***************************************************************************)
NoTx == [at |-> "none", journal |-> <<>>, before |-> <<>>, alone |-> TRUE, free |-> TRUE]

BeginTx ==
    /\ tx.at = "none" /\ call["tx"] = Idle
    /\ tx' = [at |-> "open", journal |-> <<>>, before |-> row, alone |-> call["other"] = Idle, free |-> TRUE]
    /\ UNCHANGED <<backend, ids, row, call, walk, plain>>

Commit ==
    /\ tx.at = "open" /\ call["tx"] = Idle
    /\ tx' = NoTx
    /\ UNCHANGED <<backend, ids, row, call, walk, plain>>

Throw ==
    /\ tx.at = "open" /\ call["tx"] = Idle
    /\ tx' = [tx EXCEPT !.at = "undo"]
    /\ UNCHANGED <<backend, ids, row, call, walk, plain>>

\* SQLite's own: it takes back what any caller wrote on this connection since the BEGIN.
Rollback ==
    /\ tx.at = "undo" /\ ~Journaled
    /\ row' = tx.before
    /\ plain' = [i \in ids |-> Read(i, tx.before[i])]
    /\ tx' = NoTx
    /\ StillDue
    /\ UNCHANGED <<backend, ids, call>>

\* The journal's: prior values are put back in its order, and what fails is ignored.
UndoNext ==
    /\ tx.at = "undo" /\ Journaled /\ tx.journal # <<>> /\ call["tx"] = Idle
    /\ call' = [call EXCEPT !["tx"] =
                   [at |-> "sent", id |-> Head(tx.journal).id, doc |-> Head(tx.journal).prior]]
    /\ tx' = [tx EXCEPT !.journal = Tail(@)]
    /\ UNCHANGED <<backend, ids, row, walk, plain>>

Undone ==
    /\ tx.at = "undo" /\ Journaled /\ tx.journal = <<>> /\ call["tx"] = Idle
    /\ tx' = NoTx
    /\ UNCHANGED <<backend, ids, row, call, walk, plain>>

(***************************************************************************)
(* A reader of a whole collection, one page after the other.               *)
(***************************************************************************)
NoWalk == [at |-> "none", query |-> <<>>, after |-> 0, seen |-> {}, due |-> {}]

StartWalk(q) ==
    /\ walk.at # "walking"
    /\ walk' = [at |-> "walking", query |-> q, after |-> 0, seen |-> {},
                due |-> {i \in ids : TableOf[i] = q[1] /\ plain[i] # NoDoc /\
                                     (q[2] = "any" \/ FieldOf(plain[i], q[2]) = q[3])}]
    /\ UNCHANGED <<backend, ids, row, call, tx, plain>>

\* The first n rows of S in the order of the cursor.
FirstRows(S, n) == {i \in S : Cardinality({j \in S : j < i}) < n}
Greatest(S) == CHOOSE i \in S : \A j \in S : j <= i

\* Mutant: the query reads a page and no row more.
FetchedExactly(S) == FirstRows(S, Limit)
Fetched(S) == FirstRows(S, Limit + 1)

ReadPage ==
    /\ walk.at = "walking"
    /\ LET rows == Fetched({i \in Matching(row, walk.query) : i > walk.after})
           hasMore == Cardinality(rows) > Limit
           items == IF hasMore THEN FirstRows(rows, Limit) ELSE rows IN
       walk' = [walk EXCEPT !.seen = @ \cup items,
                            !.at = IF hasMore THEN "walking" ELSE "done",
                            !.after = IF hasMore THEN Greatest(items) ELSE 0]
    /\ UNCHANGED <<backend, ids, row, call, tx, plain>>

AdapterInit ==
    /\ backend \in Backend
    /\ ids \in Scene
    /\ row = [i \in ids |-> NoRow]
    /\ plain = [i \in ids |-> NoDoc]
    /\ call = [by \in {"tx", "other"} |-> Idle]
    /\ tx = NoTx
    /\ walk = NoWalk

AdapterNext ==
    \/ \E by \in {"tx", "other"} :
           \/ \E i \in ids : \E d \in Docs[i] \cup {NoDoc} : Send(by, i, d)
           \/ Put(by) \/ Select(by) \/ Update(by) \/ Insert(by) \/ Delete(by)
    \/ BeginTx \/ Commit \/ Throw \/ Rollback \/ UndoNext \/ Undone
    \/ \E q \in Filters : q[1] \in {TableOf[i] : i \in ids} /\ StartWalk(q)
    \/ ReadPage

AdapterSpec == AdapterInit /\ [][AdapterNext]_adapterVars

(***************************************************************************)
(* Properties.                                                             *)
(***************************************************************************)
\* A document reads as it was put (typed-mapper.ts docToRow, rowToDoc; the put of each adapter), on
\* whichever backend and whatever other documents were put, refused or deleted around it: an update
\* takes no row that refers to it along.
SameAsDocuments == \A i \in ids : Read(i, row[i]) = plain[i]

\* A transaction that throws leaves everything as it was (transaction.ts journaledTransaction,
\* sqlite transaction), if no other caller wrote meanwhile and no constraint acted in it.
TransactionsAreWhole ==
    [][tx.at = "undo" /\ tx'.at = "none" /\ tx.alone /\ tx.free => row' = tx.before]_adapterVars

\* The same, constraints or not: transaction.ts "restores them all if `fn` throws, giving
\* all-or-nothing atomicity for the transaction's OWN writes".
TransactionsRestoreAll ==
    [][tx.at = "undo" /\ tx'.at = "none" /\ tx.alone => row' = tx.before]_adapterVars

\* A walk over the pages of a query ends having seen every document that was there and matched
\* throughout (the query of each adapter), whatever was put and deleted between two pages.
WalkIsComplete == walk.at = "done" => walk.due \subseteq walk.seen
=============================================================================
