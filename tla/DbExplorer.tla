------------------------------- MODULE DbExplorer -------------------------------
(***************************************************************************)
(* The CRUD service of hw6_db_explorer/db_explorer.go over its MySQL       *)
(* database.  Each request runs in a goroutine of its own: it is routed    *)
(* and checked against the schema read at start, becomes one SQL statement,*)
(* which the database executes atomically, and the outcome is turned into  *)
(* an answer.  A request that panics is dropped by net/http without one.   *)
(* The connection to the database may fail at any moment: while the schema *)
(* is read, before a statement is executed, after that, or in the midst of *)
(* the rows of a SELECT.                                                   *)
(*                                                                         *)
(* A value is [kind, v]: kind "string", "int", "fraction", "bool", "null"  *)
(* or "nested", an array or an object.  Primary keys are integers, given   *)
(* by the database for tables that say so; the key is kept apart from the  *)
(* other columns of a record.  A body that is no JSON object is empty.     *)
(* What MySQL and the driver do is modelled in the section so named.  A    *)
(* statement into which a text was printed that ends its own quotes, or    *)
(* that escapes, may fail or do something else to its table: Others.       *)
(***************************************************************************)
EXTENDS Integers, FiniteSets, SequencesExt

CONSTANTS
  Shown,       \* what the database shows of its schema: a sequence of
               \* [table, columns], the name of the key among the columns
  Columns,     \* Columns[t]: the columns of t but its key, [type, null] each
  Key,         \* Key[t]: name of the primary key column of t
  AutoKeys,    \* the tables with an AUTO_INCREMENT key
  Stored,      \* Stored[t]: the records of t at the start, by key
  Requests,    \* the requests clients may send
  Quoting,     \* texts with a quote or a backslash: printed between quotes,
               \* they are read as something else
  Unfit,       \* texts no column takes: too long, or not of its charset
  Others,      \* bound: Others[t], the records, by key, that an UPDATE of t
               \* may leave which is not the one that was asked for
  AtMost,      \* bound: how many of them they do send
  MaxFailures, \* bound: how often the connection to the database fails
  Breaks,      \* bound: where it may while the schema is read: after how many
               \* [tables], or in which [table] after how many [columns]
  Req          \* Req[r]: [method, table, id, word, limit, offset, body]; table ""
               \* for "/", id, limit and offset sets with the number given, if
               \* any; word: the id of a DELETE is there, but is no number

Tables == {Shown[i].table : i \in DOMAIN Shown}

ASSUME DbExplorerAssumption ==
  /\ Shown \in Seq([table : STRING \ {""}, columns : Seq(STRING)])
  /\ DOMAIN Columns = Tables /\ DOMAIN Key = Tables /\ DOMAIN Stored = Tables
  /\ \A i \in DOMAIN Shown : LET t == Shown[i].table
                            IN  ToSet(Shown[i].columns) = {Key[t]} \cup DOMAIN Columns[t]
  /\ \A t \in Tables : Key[t] \notin DOMAIN Columns[t]
  /\ \A t \in Tables : \A c \in DOMAIN Columns[t] :
       Columns[t][c].type \in {"varchar", "text", "int", "bigint unsigned", "double"}
  /\ AutoKeys \subseteq Tables
  /\ "" \notin Quoting \cup Unfit
  /\ Requests \subseteq DOMAIN Req
  /\ AtMost \in Nat
  /\ MaxFailures \in Nat
  /\ \A b \in Breaks : /\ b.tables \in 0..Len(Shown)
                       /\ b.table \in Tables
                       /\ \A i \in DOMAIN Shown :
                            Shown[i].table = b.table => b.columns \in 0..Len(Shown[i].columns)

VARIABLES
  known,     \* TablesMeta: the tables read at start, and their columns
  rows,      \* rows[t]: the records of t by key
  last,      \* last[t]: the highest key the database has given in t
  pc,        \* where each request is
  stmt,      \* the INSERT or UPDATE it executes: a set with it, if any
  found,     \* the keys a SELECT has found, and their records then
  conns,     \* requests that keep a connection of the pool
  answer,    \* what was answered: [status, kind, value]
  after,     \* the requests already answered when it came in
  failed     \* the requests whose connection failed, and "start"

vars == <<known, rows, last, pc, stmt, found, conns, answer, after, failed>>

NoAnswer == [status |-> 0, kind |-> "none", value |-> 0]
Null     == [kind |-> "null", v |-> ""]
Zero     == [kind |-> "int", v |-> "0"]
NoText   == [kind |-> "string", v |-> ""]

Given(option, default) == IF option = {} THEN default ELSE CHOOSE x \in option : TRUE

IsText(type)  == type \in {"varchar", "text"}
IsInt(type)   == type \in {"int", "bigint unsigned"}
IsFloat(type) == type \in {"float", "double"}

(* A record holds a value for each column: a text, a number, or null        *)
Fits(t, record) ==
  /\ DOMAIN record = DOMAIN Columns[t]
  /\ \A c \in DOMAIN Columns[t] :
       \/ record[c] = Null /\ Columns[t][c].null
       \/ record[c].kind \in IF IsText(Columns[t][c].type) THEN {"string"} ELSE {"int", "fraction"}

(* So do the records stored, whose keys the database has given in turn,    *)
(* and those of the other updates                                          *)
ASSUME StoredAssumption ==
  \A t \in Tables :
    /\ \A new \in Others[t] : /\ new = [k \in DOMAIN new |-> new[k]] /\ DOMAIN new \subseteq Nat
                             /\ \A k \in DOMAIN new : Fits(t, new[k])
    /\ Stored[t] = [k \in DOMAIN Stored[t] |-> Stored[t][k]] /\ IsFiniteSet(DOMAIN Stored[t])
    /\ t \in AutoKeys => DOMAIN Stored[t] = 1..Cardinality(DOMAIN Stored[t])
    /\ \A k \in DOMAIN Stored[t] : Fits(t, Stored[t][k])

(* A request names one record at most; its body is an object of values     *)
IsValue(value) ==
  \/ value = Null
  \/ /\ value = [kind |-> value.kind, v |-> value.v]
     /\ value.kind \in {"string", "int", "fraction", "bool", "nested"}

ASSUME RequestsAssumption ==
  \A r \in Requests :
    /\ \A i, j \in Req[r].id : i = j
    /\ Req[r].word => Req[r].method = "DELETE" /\ Req[r].id = {}
    /\ \A c \in DOMAIN Req[r].body : IsValue(Req[r].body[c])

Goto(r, from, to) == pc[r] = from /\ pc' = [pc EXCEPT ![r] = to]

Answer(r, status, kind, value) ==
  answer' = [answer EXCEPT ![r] = [status |-> status, kind |-> kind, value |-> value]]

-----------------------------------------------------------------------------
(* Faulty variants of some definitions below.                              *)

(* a value stored as it was sent                                           *)
Unconverted(type, v) == v

(* DELETE that answers without RowsAffected                                *)
Unchecked(t, id) == id

(* PUT that answers RowsAffected                                           *)
CountInserted(t, k) == 1

(* UPDATE without its WHERE                                                *)
EveryRecord(t, id) == DOMAIN rows[t]

(* null accepted whatever the column                                       *)
AnyNull(column) == TRUE

(* getById that reads one row and leaves the rest, without Close           *)
KeepOpen(r) == conns' = conns

-----------------------------------------------------------------------------
(* initDbApi reads tables and columns until there are no more, or until    *)
(* the connection fails: nobody asks for the error that ended the rows.    *)
Whole == [t \in Tables |-> {Key[t]} \cup DOMAIN Columns[t]]

ReadUntil(b) ==
  [t \in {Shown[j].table : j \in 1..b.tables} |->
     LET shown == Shown[CHOOSE j \in 1..b.tables : Shown[j].table = t].columns
     IN  ToSet(IF t = b.table THEN SubSeq(shown, 1, b.columns) ELSE shown)]

KnownColumns(t) == known[t] \ {Key[t]}
KnownKey(t) == known[t] \cap {Key[t]}

-----------------------------------------------------------------------------
(* Checks of the request's body against the schema                         *)

Body(r) == Req[r].body

AcceptsNull(column) == column.null

(* validateField                                                           *)
ValidField(value, column) ==
  CASE value.kind = "string" -> IsText(column.type)
    [] value.kind \in {"int", "fraction"} ->
         (IsInt(column.type) => value.kind = "int") /\ IsFloat(column.type)
    [] value.kind = "null" -> AcceptsNull(column)
    [] OTHER -> TRUE

BadFields(t, body) ==
  {c \in DOMAIN body \cap KnownColumns(t) : ~ValidField(body[c], Columns[t][c])}

(* The key in an update is an error; in an insertion it is ignored if the  *)
(* database gives it, and otherwise checked like any int column            *)
KeyThrown(t, body) == KnownKey(t) \cap DOMAIN body

KeySent(t, body) == IF t \in AutoKeys THEN {} ELSE KnownKey(t) \cap DOMAIN body

BadKey(t, body) ==
  {c \in KeySent(t, body) : ~ValidField(body[c], [type |-> "int", null |-> FALSE])}

(* Columns an insertion names: those of the body and, with a default of    *)
(* their type, the NOT NULL ones; a type without default has no value      *)
Inserted(t, body) ==
  LET given  == DOMAIN body \cap KnownColumns(t)
      filled == {c \in KnownColumns(t) \ given : ~Columns[t][c].null}
      blank(c) == IF IsText(Columns[t][c].type) THEN NoText ELSE Zero
      typed  == {c \in filled : IsText(Columns[t][c].type) \/ IsInt(Columns[t][c].type)
                                \/ Columns[t][c].type = "float"}
  IN  [values  |-> [c \in given \cup typed |-> IF c \in given THEN body[c] ELSE blank(c)],
       missing |-> filled \ typed,
       key     |-> {body[c] : c \in KeySent(t, body)}]

Updated(t, body) ==
  [values |-> [c \in DOMAIN body \cap KnownColumns(t) |-> body[c]], missing |-> {}, key |-> {}]

-----------------------------------------------------------------------------
(* MySQL and its driver                                                    *)

(* A value as the statement carries it: the driver binds a parameter of a  *)
(* PUT, but a POST prints its values with %s between quotes, a text as it  *)
(* is and a number or a bool as Go says that it is none.                   *)
Sent(op, v) ==
  IF v.kind \in {"string", "null"} THEN v
  ELSE IF op = "update" THEN [kind |-> "string", v |-> IF v.kind = "nested" THEN v.v ELSE "%!s"]
  ELSE IF v.kind = "bool" THEN [kind |-> "int", v |-> IF v.v = "true" THEN "1" ELSE "0"] ELSE v

(* handlePost and handleDelete print what the client sent into the text of *)
(* the statement: MySQL reads it as it was sent unless it ends the quotes, *)
(* escapes in them, or, where there are none, is no number.                *)
Unescaped(r) ==
  /\ Req[r].table \in DOMAIN known
  /\ \/ /\ Req[r].method = "POST"
        /\ \E c \in DOMAIN Body(r) \cap KnownColumns(Req[r].table) :
             Body(r)[c].kind \in {"string", "nested"} /\ Body(r)[c].v \in Quoting
     \/ Req[r].method = "DELETE" /\ Req[r].word

(* The driver binds no array or object, a column takes no text that does   *)
(* not fit, in strict mode a text is no number ...                         *)
Accepted(type, v) ==
  v.kind # "nested" /\ IF IsText(type) THEN v.v \notin Unfit ELSE v.kind # "string"

StoredAs(type, v) ==
  IF IsText(type) /\ v.kind # "null" THEN [kind |-> "string", v |-> v.v] ELSE v

(* ... and a column without a default needs a value, the key among them if *)
(* the database does not give it.                                          *)
Unfilled(t, op, s) ==
  /\ op = "insert"
  /\ \/ \E c \in DOMAIN Columns[t] \ DOMAIN s.values : ~Columns[t][c].null
     \/ t \notin AutoKeys /\ KnownKey(t) = {}

Refused(t, op, s) ==
  \/ s.missing # {}
  \/ Unfilled(t, op, s)
  \/ \E v \in s.key : ~Accepted("int", Sent(op, v))
  \/ \E c \in DOMAIN s.values :
       LET v == Sent(op, s.values[c])
       IN  \/ ~Accepted(Columns[t][c].type, v)
           \/ v.kind = "null" /\ ~Columns[t][c].null

Value(t, op, s, c) == StoredAs(Columns[t][c].type, Sent(op, s.values[c]))

(* The key of a new record: the next one, or what was sent, a bool, or the *)
(* default                                                                 *)
NewKey(t, s) ==
  IF t \in AutoKeys THEN last[t] + 1
  ELSE IF \E v \in s.key : Sent("insert", v).v = "1" THEN 1 ELSE 0

(* database/sql's LastInsertId: the key the database gave                  *)
LastInsertId(t, k) == IF t \in AutoKeys THEN k ELSE 0

(* Records in the order of their keys, from offset on, at most limit       *)
Page(t, limit, offset) ==
  {k \in DOMAIN rows[t] :
     Cardinality({j \in DOMAIN rows[t] : j < k}) \in offset..(offset + limit - 1)}

(* An *int64 does not take every BIGINT UNSIGNED, and Scan wants as many   *)
(* variables as there are columns                                          *)
TooBig == [kind |-> "int", v |-> "18446744073709551615"]

Scannable(t, record) ==
  /\ known[t] = Whole[t]
  /\ \A c \in DOMAIN record : IsInt(Columns[t][c].type) => record[c] # TooBig

(* The connection of a request fails                                       *)
Fault(r) ==
  /\ Cardinality(failed) < MaxFailures
  /\ r \notin failed
  /\ failed' = failed \cup {r}

-----------------------------------------------------------------------------
Init ==
  /\ \/ known = Whole /\ failed = {}
     \/ MaxFailures > 0 /\ known \in {ReadUntil(b) : b \in Breaks} /\ failed = {"start"}
  /\ rows = Stored
  /\ last = [t \in Tables |-> Cardinality(DOMAIN Stored[t])]
  /\ pc = [r \in Requests |-> "idle"]
  /\ stmt = [r \in Requests |-> {}]
  /\ found = [r \in Requests |-> <<>>]
  /\ conns = {}
  /\ answer = [r \in Requests |-> NoAnswer]
  /\ after = [r \in Requests |-> {}]

(* An error that is not a ResponseError: the nil result is marshalled      *)
AnswerNull(r) == Answer(r, 200, "null", 0)

Reply(r) ==
  /\ Goto(r, "reply", "done")
  /\ UNCHANGED <<known, rows, last, stmt, found, conns, answer, after, failed>>

Statement(r, op, s) ==
  /\ Goto(r, "idle", op)
  /\ stmt' = [stmt EXCEPT ![r] = s]
  /\ UNCHANGED answer

(* Answered without the database                                           *)
Refuse(r, status, kind, value) ==
  /\ Goto(r, "idle", "reply")
  /\ Answer(r, status, kind, value)
  /\ UNCHANGED stmt

Arrive(r) ==
  /\ Cardinality({q \in Requests : pc[q] # "idle"}) < AtMost
  /\ after' = [after EXCEPT ![r] = {q \in Requests : pc[q] = "done"}]
  /\ UNCHANGED <<known, rows, last, found, conns, failed>>

RouteUnknown(r) ==
  /\ Req[r].table \notin DOMAIN known \cup {""}
  /\ Refuse(r, 404, "unknownTable", 0)
  /\ Arrive(r)

RouteGet(r) ==
  /\ Req[r].method = "GET"
  /\ Req[r].table \in DOMAIN known \cup {""}
  /\ IF Req[r].table = "" THEN Refuse(r, 200, "tables", DOMAIN known) ELSE Statement(r, "select", {})
  /\ Arrive(r)

(* The fields of the body are checked in the random order of a Go map: any *)
(* bad one may be named.  At "/" there is no field at all.                 *)
RouteWrite(r, method, op, bad, s) ==
  /\ Req[r].method = method
  /\ Req[r].table \in DOMAIN known
  /\ \/ \E c \in bad : Refuse(r, 400, "invalidType", c)
     \/ bad = {} /\ Statement(r, op, {s})
  /\ Arrive(r)

RoutePost(r) ==
  LET t == Req[r].table
  IN  t \in DOMAIN known /\ RouteWrite(r, "POST", "update", KeyThrown(t, Body(r)) \cup BadFields(t, Body(r)),
                                 Updated(t, Body(r)))

RoutePut(r) ==
  LET t == Req[r].table
  IN  t \in DOMAIN known /\ RouteWrite(r, "PUT", "insert", BadKey(t, Body(r)) \cup BadFields(t, Body(r)),
                                 Inserted(t, Body(r)))

RouteDelete(r) ==
  /\ Req[r].method = "DELETE"
  /\ Req[r].table \in DOMAIN known
  /\ Statement(r, "delete", {})
  /\ Arrive(r)

(* Other methods, and at "/" the statement that names no table             *)
RouteOther(r) ==
  /\ \/ Req[r].method \notin {"GET", "POST", "PUT", "DELETE"} /\ Req[r].table \in DOMAIN known \cup {""}
     \/ Req[r].method = "DELETE" /\ Req[r].table = ""
  /\ Refuse(r, 200, "null", 0)
  /\ Arrive(r)

RouteNowhere(r) ==
  /\ Req[r].method \in {"POST", "PUT"}
  /\ Req[r].table = ""
  /\ Goto(r, "idle", "dropped")
  /\ UNCHANGED <<stmt, answer>>
  /\ Arrive(r)

-----------------------------------------------------------------------------
(* handleGetRecords and handleGetById: the query holds a connection until  *)
(* its rows have been read to the end.                                     *)
Limit(r)  == Given(Req[r].limit, 5)
Offset(r) == Given(Req[r].offset, 0)

(* The id needs the name of the key, and a LIMIT takes no negative number. *)
WellFormed(r) ==
  IF Req[r].id = {} THEN Limit(r) >= 0 /\ Offset(r) >= 0 ELSE KnownKey(Req[r].table) # {}

Query(r) ==
  LET t    == Req[r].table
      keys == IF Req[r].id = {} THEN Page(t, Limit(r), Offset(r)) ELSE Req[r].id \cap DOMAIN rows[t]
  IN  /\ Goto(r, "select", "scan")
      /\ WellFormed(r)
      /\ found' = [found EXCEPT ![r] = [k \in keys |-> rows[t][k]]]
      /\ conns' = conns \cup {r}
      /\ UNCHANGED <<known, rows, last, stmt, answer, after, failed>>

QueryFails(r) ==
  /\ Goto(r, "select", "reply")
  /\ \/ ~WellFormed(r) /\ UNCHANGED failed
     \/ Fault(r)
  /\ AnswerNull(r)
  /\ UNCHANGED <<known, rows, last, stmt, found, conns, after>>

CloseRows(r) == conns' = conns \ {r}

ScanFails(r) ==
  /\ \E k \in DOMAIN found[r] : ~Scannable(Req[r].table, found[r][k])
  /\ Goto(r, "scan", "reply")
  /\ AnswerNull(r)
  /\ UNCHANGED <<known, rows, last, stmt, found, conns, after, failed>>

(* rows.Next returns false after the last row, and when the connection     *)
(* fails: nobody asks which, and the rows read so far are the answer.      *)
Scan(r) ==
  \E n \in 0..Cardinality(DOMAIN found[r]) :
    LET keys == {k \in DOMAIN found[r] : Cardinality({j \in DOMAIN found[r] : j < k}) < n}
    IN  /\ \A k \in keys : Scannable(Req[r].table, found[r][k])
        /\ IF keys = DOMAIN found[r] THEN UNCHANGED failed ELSE Fault(r)
        /\ Goto(r, "scan", "reply")
        /\ CloseRows(r)
        /\ IF keys = {} THEN Answer(r, 404, "notFound", 0)
           ELSE Answer(r, 200, IF Req[r].id = {} THEN "records" ELSE "record",
                       [k \in keys |-> found[r][k]])
        /\ UNCHANGED <<known, rows, last, stmt, found, after>>

(* The result of Exec, if it arrives                                       *)
Return(r) ==
  /\ Goto(r, "result", "reply")
  /\ UNCHANGED <<known, rows, last, stmt, found, conns, answer, after, failed>>

(* An error of Exec is printed by PUT and POST, and its nil result used    *)
Drop(r, from) ==
  /\ Goto(r, from, "dropped")
  /\ Answer(r, 0, "none", 0)
  /\ UNCHANGED <<known, rows, last, stmt, found, conns, after>>

(* ... and handed on by DELETE                                             *)
HandOn(r, from) ==
  /\ Goto(r, from, "reply")
  /\ AnswerNull(r)
  /\ UNCHANGED <<known, rows, last, stmt, found, conns, after>>

(* The connection fails before the statement or after it                   *)
ExecFails(r) ==
  /\ Fault(r)
  /\ \/ \E from \in {"insert", "update"} : Drop(r, from)
     \/ Req[r].method # "DELETE" /\ Drop(r, "result")
     \/ HandOn(r, "delete")
     \/ Req[r].method = "DELETE" /\ HandOn(r, "result")

(* handlePut                                                               *)
InsertedId(t, k) == LastInsertId(t, k)

Insert(r, s) ==
  LET t == Req[r].table
      k == NewKey(t, s)
      record == [c \in DOMAIN Columns[t] |->
                   IF c \in DOMAIN s.values THEN Value(t, "insert", s, c) ELSE Null]
  IN  /\ pc[r] = "insert"
      /\ ~Refused(t, "insert", s)
      /\ k \notin DOMAIN rows[t]
      /\ Goto(r, "insert", "result")
      /\ rows' = [rows EXCEPT ![t] = [j \in DOMAIN @ \cup {k} |-> IF j = k THEN record ELSE @[j]]]
      /\ last' = [last EXCEPT ![t] = IF t \in AutoKeys THEN k ELSE @]
      /\ Answer(r, 200, "id", InsertedId(t, k))
      /\ UNCHANGED <<known, stmt, found, conns, after, failed>>

InsertPanics(r, s) ==
  /\ pc[r] = "insert"
  /\ Refused(Req[r].table, "insert", s) \/ NewKey(Req[r].table, s) \in DOMAIN rows[Req[r].table]
  /\ Drop(r, "insert")
  /\ UNCHANGED failed

(* handlePost: WHERE key = id; an empty SET, or no key, is no statement    *)
Where(t, id) == id \cap DOMAIN rows[t]

NoUpdate(t, s) == Refused(t, "update", s) \/ DOMAIN s.values = {} \/ KnownKey(t) = {}

Update(r, s) ==
  LET t       == Req[r].table
      changed(k) == [c \in DOMAIN Columns[t] |->
                       IF c \in DOMAIN s.values THEN Value(t, "update", s, c) ELSE rows[t][k][c]]
      keys    == {k \in Where(t, Req[r].id) : changed(k) # rows[t][k]}
  IN  /\ pc[r] = "update"
      /\ ~NoUpdate(t, s) /\ ~Unescaped(r)
      /\ Goto(r, "update", "result")
      /\ rows' = [rows EXCEPT ![t] = [k \in DOMAIN @ |-> IF k \in keys THEN changed(k) ELSE @[k]]]
      /\ Answer(r, 200, "updated", Cardinality(keys))
      /\ UNCHANGED <<known, last, stmt, found, conns, after, failed>>

UpdatePanics(r, s) ==
  /\ pc[r] = "update"
  /\ NoUpdate(Req[r].table, s) \/ Unescaped(r)
  /\ Drop(r, "update")
  /\ UNCHANGED failed

(* Another UPDATE than was asked for: as many records, perhaps under other *)
(* keys (InnoDB may then count on from the highest).                       *)
UpdateOther(r) ==
  LET t == Req[r].table
  IN  /\ Goto(r, "update", "result")
      /\ Unescaped(r)
      /\ \E old \in SUBSET DOMAIN rows[t], new \in Others[t] :
           LET rest == DOMAIN rows[t] \ old
           IN  /\ Cardinality(DOMAIN new) = Cardinality(old) /\ DOMAIN new \cap rest = {}
               /\ rows' = [rows EXCEPT ![t] = [k \in rest \cup DOMAIN new |->
                                                IF k \in rest THEN @[k] ELSE new[k]]]
               /\ \E k \in {last[t]} \cup DOMAIN new :
                    k >= last[t] /\ last' = [last EXCEPT ![t] = k]
               /\ Answer(r, 200, "updated", Cardinality(old))
      /\ UNCHANGED <<known, stmt, found, conns, after, failed>>

(* handleDelete: neither is a condition without its id                     *)
Deleted(t, id) == id \cap DOMAIN rows[t]

NoDelete(r) == Req[r].id = {} \/ KnownKey(Req[r].table) = {}

Delete(r) ==
  LET t == Req[r].table
      k == Deleted(t, Req[r].id)
  IN  /\ Goto(r, "delete", "result")
      /\ ~NoDelete(r)
      /\ rows' = [rows EXCEPT ![t] = [j \in DOMAIN @ \ k |-> @[j]]]
      /\ Answer(r, 200, "deleted", Cardinality(k))
      /\ UNCHANGED <<known, last, stmt, found, conns, after, failed>>

(* A condition that is not the id's                                        *)
DeleteOther(r) ==
  LET t == Req[r].table
  IN  /\ Goto(r, "delete", "result")
      /\ Unescaped(r)
      /\ \E old \in SUBSET DOMAIN rows[t] :
           /\ rows' = [rows EXCEPT ![t] = [k \in DOMAIN @ \ old |-> @[k]]]
           /\ Answer(r, 200, "deleted", Cardinality(old))
      /\ UNCHANGED <<known, last, stmt, found, conns, after, failed>>

DeleteFails(r) == pc[r] = "delete" /\ NoDelete(r) /\ HandOn(r, "delete") /\ UNCHANGED failed

-----------------------------------------------------------------------------
Route(r) ==
  \/ RouteUnknown(r) \/ RouteGet(r) \/ RoutePost(r) \/ RoutePut(r)
  \/ RouteDelete(r) \/ RouteOther(r) \/ RouteNowhere(r)

Execute(r) ==
  \/ Query(r) \/ QueryFails(r) \/ Scan(r) \/ ScanFails(r)
  \/ Delete(r) \/ DeleteOther(r) \/ DeleteFails(r) \/ UpdateOther(r) \/ ExecFails(r) \/ Return(r)
  \/ \E s \in stmt[r] : Insert(r, s) \/ InsertPanics(r, s) \/ Update(r, s) \/ UpdatePanics(r, s)

(* The server never stops: it waits for the next request.                  *)
AwaitRequest == UNCHANGED vars

Next == (\E r \in Requests : Route(r) \/ Execute(r) \/ Reply(r)) \/ AwaitRequest

(* The goroutine of a request runs; clients need not send any.             *)
Spec == Init /\ [][Next]_vars /\ \A r \in Requests : WF_vars(Execute(r) \/ Reply(r))

-----------------------------------------------------------------------------
(* Properties                                                              *)

Ended(r) == pc[r] \in {"done", "dropped"}

TypeOK ==
  /\ known \in {Whole} \cup {ReadUntil(b) : b \in Breaks}
  /\ failed \subseteq Requests \cup {"start"} /\ Cardinality(failed) <= MaxFailures
  /\ DOMAIN rows = Tables
  /\ \A t \in Tables : \A k \in DOMAIN rows[t] : Fits(t, rows[t][k])
  /\ last \in [Tables -> Nat]
  /\ pc \in [Requests -> {"idle", "select", "scan", "insert", "update", "delete", "result",
                          "reply", "done", "dropped"}]
  /\ conns \subseteq Requests
  /\ \A r \in Requests : answer[r].status \in {0, 200, 400, 404}

(* No request on t so far was printed into something else than it says     *)
Plain(t) == \A q \in Requests : Req[q].table = t /\ pc[q] # "idle" => ~Unescaped(q)

Touches(q, t, k) == Req[q].table = t /\ k \in Req[q].id /\ Req[q].method \in {"POST", "DELETE"}
                    /\ pc[q] # "idle"

(* The record a client was told of, if it did not choose the key itself    *)
Written(p) ==
  CASE answer[p].kind = "id" /\ KeySent(Req[p].table, Body(p)) = {} -> {answer[p].value}
    [] answer[p].kind = "updated" /\ answer[p].value = 1 -> Req[p].id
    [] OTHER -> {}

Kept(p) ==
  \A k \in Written(p) :
    LET t == Req[p].table
        columns == {c \in DOMAIN Body(p) \cap KnownColumns(t) : Body(p)[c].kind \notin {"bool", "nested"}}
        AsSent(records) == k \in DOMAIN records /\ \A c \in columns : records[k][c] = Body(p)[c]
    IN  (\A q \in Requests \ {p} : ~Touches(q, t, k)) =>
          /\ AsSent(rows[t])
          /\ \A g \in {q \in Requests : p \in after[q] /\ pc[q] = "done"} \ failed :
               (Req[g].method = "GET" /\ Req[g].table = t /\ Req[g].id = {k}
                /\ Scannable(t, rows[t][k])) => answer[g].kind = "record" /\ AsSent(answer[g].value)

(* What a client was told it has inserted or changed stays in the database *)
(* as it was sent, whoever else fails, until somebody changes or deletes   *)
(* it (a bool, an array or an object, which no check looks at, is stored   *)
(* as something else, and columns that initDbApi missed are ignored).  Who *)
(* reads it then finds it, unless his own connection fails, or the record  *)
(* cannot be scanned: the schema was not read to its end, or the record    *)
(* had a number too big before.  All this holds as long as nothing printed *)
(* into a statement on that table was read as something else.              *)
WrittenIsFound ==
  \A p \in {q \in Requests : pc[q] = "done"} : Plain(Req[p].table) => Kept(p)

(* Of all who delete a record whose key the database has given, one is told *)
(* so, and nobody finds it later, as long as all requests on that table    *)
(* mean what they say.                                                     *)
DeletedOnce ==
  \A d \in {r \in Requests : Req[r].table \in AutoKeys /\ answer[r].kind = "deleted"
                              /\ answer[r].value = 1 /\ Plain(Req[r].table)} :
    \A q \in {r \in Requests \ {d} : Req[r].table = Req[d].table /\ Req[r].id = Req[d].id} :
      /\ (answer[q].kind = "deleted" => answer[q].value = 0)
      /\ d \in after[q] =>
           /\ answer[q].kind # "record"
           /\ (answer[q].kind = "updated" => answer[q].value = 0)

(* One request changes one record at most; an update changes only what it  *)
(* names, and never the key.  Only a request that was printed into         *)
(* something else than it says may do other things, to its own table.      *)
ChangesAsAsked ==
  [][\A t \in Tables : rows'[t] # rows[t] =>
       \E r \in Requests :
         LET new == DOMAIN rows'[t] \ DOMAIN rows[t]
             old == DOMAIN rows[t] \ DOMAIN rows'[t]
         IN  /\ pc[r] # "result" /\ pc'[r] = "result" /\ Req[r].table = t /\ answer'[r].status = 200
             /\ \/ Unescaped(r)
                \/ /\ CASE Req[r].method = "PUT"    -> old = {} /\ Cardinality(new) = 1
                        [] Req[r].method = "DELETE" -> new = {} /\ old = Req[r].id
                        [] OTHER -> new \cup old = {} /\ Key[t] \notin DOMAIN Body(r)
                   /\ \A k \in DOMAIN rows[t] \cap DOMAIN rows'[t] : rows'[t][k] # rows[t][k] =>
                        /\ k \in Req[r].id
                        /\ \A c \in DOMAIN Columns[t] :
                             rows'[t][k][c] # rows[t][k][c] => c \in DOMAIN Body(r)]_rows

(* A connection is lost only where the driver cannot scan what a SELECT    *)
(* has found: every other request that has ended has given its own back.   *)
OnlyFailedScansLeak ==
  \A r \in conns : Ended(r) => \E k \in DOMAIN found[r] : ~Scannable(Req[r].table, found[r][k])

(* Every request is answered: unknown fields are ignored and failures      *)
(* reported (hw6.md).                                                      *)
EveryRequestAnswered == \A r \in Requests : pc[r] # "idle" ~> pc[r] = "done"

(* ... as is every request on the tables of the tests with values that fit *)
(* them, if its connection does not fail and all requests on that table    *)
(* mean what they say: here the checks let nothing else through.           *)
Reasonable(r) ==
  LET t  == Req[r].table
      op == IF Req[r].method = "POST" THEN "update" ELSE "insert"
  IN  /\ t \in AutoKeys
      /\ r \notin failed /\ known = Whole
      /\ \A c \in DOMAIN Columns[t] : IsText(Columns[t][c].type)
      /\ Req[r].method = "POST" => (DOMAIN Columns[t] \cup {Key[t]}) \cap DOMAIN Body(r) # {}
      /\ \A c \in DOMAIN Columns[t] \cap DOMAIN Body(r) :
           LET v == Sent(op, Body(r)[c]) IN v.kind # "nested" /\ v.v \notin Unfit
      /\ Plain(t)

ReasonableAnswered == \A r \in Requests : Reasonable(r) => pc[r] # "dropped"
================================================================================
