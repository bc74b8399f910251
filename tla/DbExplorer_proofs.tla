--------------------------- MODULE DbExplorer_proofs ---------------------------
(***************************************************************************)
(* Proofs about DbExplorer, for any schema, records and requests: types,   *)
(* what a statement changes, who keeps a connection, that a record is      *)
(* deleted once, that reasonable requests are answered, and that what was  *)
(* written is found.                                                       *)
(***************************************************************************)
EXTENDS DbExplorer, FiniteSetTheorems, SequenceTheorems, TLAPS

Table(r) == Req[r].table

IsFunction(f) == f = [x \in DOMAIN f |-> f[x]]

(* TypeOK, and what else is a function, over which domain.                 *)
Types == /\ TypeOK
         /\ IsFiniteSet(failed)
         /\ \A t \in Tables : IsFunction(rows[t])
         /\ DOMAIN stmt = Requests /\ DOMAIN found = Requests
         /\ DOMAIN answer = Requests /\ DOMAIN after = Requests

(* A request executes the statement its method and body ask for, on a      *)
(* table that is known, if its body passed the checks.                     *)
RouteOf(r) ==
  /\ pc[r] \in {"select", "scan"} => Req[r].method = "GET"
  /\ pc[r] = "insert" => /\ Req[r].method = "PUT" /\ stmt[r] = {Inserted(Table(r), Body(r))}
                         /\ BadFields(Table(r), Body(r)) = {}
  /\ pc[r] = "update" => /\ Req[r].method = "POST" /\ stmt[r] = {Updated(Table(r), Body(r))}
                         /\ BadFields(Table(r), Body(r)) = {}
                         /\ KeyThrown(Table(r), Body(r)) = {}
  /\ pc[r] = "delete" => Req[r].method = "DELETE"
  /\ pc[r] = "result" => Req[r].method \in {"PUT", "POST", "DELETE"}
  /\ pc[r] \in {"select", "scan", "insert", "update", "delete", "result"} =>
       Table(r) \in DOMAIN known

RouteInv == \A r \in Requests : RouteOf(r)

(* The database has given the keys of all records of the tables in         *)
(* AutoKeys, unless a statement was read as something else.                *)
KeyInv == \A t \in AutoKeys : Plain(t) => DOMAIN rows[t] \subseteq 1..last[t]

(* Who keeps a connection is scanning, or has failed to.                   *)
Stuck(r) == \E k \in DOMAIN found[r] : ~Scannable(Table(r), found[r][k])

ConnInv == \A r \in conns : pc[r] = "scan" \/ (pc[r] \in {"reply", "done"} /\ Stuck(r))

(* Answers are given by the statements, and once; who came in after a      *)
(* request came after the end of it.                                       *)
AnswerOf(r) ==
  /\ pc[r] \in {"idle", "select", "scan", "insert", "update", "delete", "dropped"} =>
       answer[r].kind = "none"
  /\ answer[r].kind = "deleted" => Unescaped(r) \/ answer[r].value \in {0, 1}
  /\ answer[r].kind \in {"id", "updated"} => /\ Table(r) \in DOMAIN known
                                            /\ Req[r].method \in {"PUT", "POST"}
  /\ \A p \in after[r] : p \in Requests /\ pc[p] = "done" /\ pc[r] # "idle"
  /\ pc[r] = "scan" /\ Req[r].id # {} => DOMAIN found[r] \subseteq Req[r].id

AnswerInv == \A r \in Requests : AnswerOf(r)

(* A record told to be deleted had a key of the past and is not there.     *)
Deleter(d) ==
  Table(d) \in AutoKeys /\ answer[d].kind = "deleted" /\ answer[d].value = 1 /\ Plain(Table(d))
Same(q, d) == Table(q) = Table(d) /\ Req[q].id = Req[d].id

After(q, d) ==
  /\ answer[q].kind = "deleted" => answer[q].value = 0
  /\ d \in after[q] =>
       /\ pc[q] = "scan" => DOMAIN found[q] = {}
       /\ answer[q].kind # "record"
       /\ answer[q].kind = "updated" => answer[q].value = 0

DeleteInv ==
  \A d \in Requests : Deleter(d) =>
    /\ Req[d].id # {} /\ Req[d].id \subseteq 1..last[Table(d)]
    /\ Req[d].id \cap DOMAIN rows[Table(d)] = {}
    /\ \A q \in Requests \ {d} : Same(q, d) => After(q, d)

(* Only unreasonable requests are dropped.                                 *)
DropInv == \A r \in Requests : pc[r] = "dropped" => ~Reasonable(r)

(* A record written holds what was sent, and who reads it later finds it,  *)
(* or cannot scan it, as long as nobody else asks to change it.            *)
Untouched(p, k) == Plain(Table(p)) /\ \A q \in Requests \ {p} : ~Touches(q, Table(p), k)

Sends(p) ==
  {c \in DOMAIN Body(p) \cap KnownColumns(Table(p)) : Body(p)[c].kind \notin {"bool", "nested"}}
Holds(p, k, records) == k \in DOMAIN records /\ \A c \in Sends(p) : records[k][c] = Body(p)[c]

WriteInv ==
  \A p \in Requests : \A k \in Written(p) :
    Untouched(p, k) => Holds(p, k, rows[Table(p)])

Reads(g, p, k) == Req[g].method = "GET" /\ Table(g) = Table(p) /\ Req[g].id = {k}
Finds(g, k, records) ==
  /\ pc[g] = "scan" => found[g] = [j \in {k} |-> records[j]]
  /\ pc[g] \in {"reply", "done"} =>
       IF Scannable(Table(g), records[k])
       THEN answer[g].kind = "record" /\ answer[g].value = [j \in {k} |-> records[j]]
       ELSE answer[g].kind = "null"

ReadInv ==
  \A p \in Requests : \A k \in Written(p) :
    Untouched(p, k) =>
      \A g \in Requests \ failed : (p \in after[g] /\ Reads(g, p, k)) =>
        Finds(g, k, rows[Table(p)])

IInv == /\ Types /\ RouteInv /\ KeyInv /\ ConnInv /\ AnswerInv
        /\ DeleteInv /\ DropInv /\ WriteInv /\ ReadInv

-----------------------------------------------------------------------------
(* The schema that was read names no other tables and columns than there   *)
(* are.                                                                    *)
LEMMA KnownFacts ==
  ASSUME known \in {Whole} \cup {ReadUntil(b) : b \in Breaks}
  PROVE  /\ DOMAIN known \subseteq Tables /\ "" \notin DOMAIN known
         /\ \A t \in DOMAIN known : known[t] \subseteq {Key[t]} \cup DOMAIN Columns[t]
<1>0. /\ Shown \in Seq([table : STRING \ {""}, columns : Seq(STRING)])
      /\ \A i \in DOMAIN Shown : ToSet(Shown[i].columns) = {Key[Shown[i].table]} \cup DOMAIN Columns[Shown[i].table]
  BY DbExplorerAssumption
<1>1. DOMAIN Shown = 1..Len(Shown) /\ Len(Shown) \in Nat
  BY <1>0, LenProperties
<1>r. \A i \in DOMAIN Shown : Shown[i].table # "" /\ Shown[i].columns \in Seq(STRING)
  <2> SUFFICES ASSUME NEW i \in DOMAIN Shown
               PROVE Shown[i].table # "" /\ Shown[i].columns \in Seq(STRING)
    OBVIOUS
  <2>1. Shown[i] \in [table : STRING \ {""}, columns : Seq(STRING)]
    BY <1>0, <1>1, ElementOfSeq
  <2> QED  BY <2>1
<1>2. "" \notin Tables
  BY <1>r DEF Tables
<1>3. CASE known = Whole
  BY <1>2, <1>3 DEF Whole
<1>4. ASSUME NEW b \in Breaks, known = ReadUntil(b)
      PROVE /\ DOMAIN known \subseteq Tables
            /\ \A t \in DOMAIN known : known[t] \subseteq {Key[t]} \cup DOMAIN Columns[t]
  <2>1. 1..b.tables \subseteq DOMAIN Shown
    <3>1. b.tables \in 0..Len(Shown)
      BY DbExplorerAssumption
    <3> QED  BY <1>1, <3>1
  <2>2. DOMAIN known \subseteq Tables
    BY <1>4, <2>1 DEF ReadUntil, Tables
  <2>3. ASSUME NEW t \in DOMAIN known PROVE known[t] \subseteq {Key[t]} \cup DOMAIN Columns[t]
    <3> DEFINE i == CHOOSE j \in 1..b.tables : Shown[j].table = t
               shown == Shown[i].columns
    <3>1. i \in 1..b.tables /\ Shown[i].table = t
      BY <1>4 DEF ReadUntil
    <3>2. known[t] = ToSet(IF t = b.table THEN SubSeq(shown, 1, b.columns) ELSE shown)
      BY <1>4 DEF ReadUntil
    <3>3. i \in DOMAIN Shown /\ shown \in Seq(STRING) /\ ToSet(shown) = {Key[t]} \cup DOMAIN Columns[t]
      BY <1>0, <1>r, <2>1, <3>1
    <3> HIDE DEF i
    <3>4. t = b.table => ToSet(SubSeq(shown, 1, b.columns)) \subseteq ToSet(shown)
      <4> SUFFICES ASSUME t = b.table
                   PROVE ToSet(SubSeq(shown, 1, b.columns)) \subseteq ToSet(shown)
        OBVIOUS
      <4>1. b.columns \in 0..Len(shown)
        BY <3>1, <3>3, DbExplorerAssumption
      <4>2. Len(shown) \in Nat /\ DOMAIN shown = 1..Len(shown) /\ b.columns \in Nat
            /\ 1..b.columns \subseteq 1..Len(shown)
        BY <3>3, <4>1, LenProperties
      <4>3. \A m \in 1..b.columns : shown[m] \in STRING
        BY <3>3, <4>2, ElementOfSeq
      <4>4. /\ SubSeq(shown, 1, b.columns) \in Seq(STRING)
            /\ Len(SubSeq(shown, 1, b.columns)) = b.columns
            /\ \A m \in 1..b.columns : SubSeq(shown, 1, b.columns)[m] = shown[m]
        <5>1. /\ SubSeq(shown, 1, b.columns) \in Seq(STRING)
              /\ Len(SubSeq(shown, 1, b.columns)) = IF 1 <= b.columns THEN b.columns - 1 + 1 ELSE 0
              /\ \A m \in 1..(b.columns - 1 + 1) : SubSeq(shown, 1, b.columns)[m] = shown[1 + m - 1]
          BY <4>2, <4>3, SubSeqProperties
        <5> QED  BY <4>2, <5>1
      <4>5. DOMAIN SubSeq(shown, 1, b.columns) = 1..b.columns
        BY <4>4, LenProperties
      <4> HIDE DEF shown
      <4> QED  BY <4>2, <4>4, <4>5 DEF ToSet
    <3> QED  BY <3>2, <3>3, <3>4
  <2> QED  BY <2>2, <2>3
<1> QED  BY <1>2, <1>3, <1>4

(* TypeOK and the other domains, by variable.                              *)
OwnTypes == /\ pc \in [Requests -> {"idle", "select", "scan", "insert", "update", "delete",
                                    "result", "reply", "done", "dropped"}]
            /\ DOMAIN stmt = Requests /\ DOMAIN found = Requests
            /\ DOMAIN answer = Requests /\ DOMAIN after = Requests
            /\ conns \subseteq Requests
AnswerTypes == \A r \in Requests : answer[r].status \in {0, 200, 400, 404}
RowTypes == /\ DOMAIN rows = Tables /\ \A t \in Tables : IsFunction(rows[t])
            /\ \A t \in Tables : \A k \in DOMAIN rows[t] : Fits(t, rows[t][k])
            /\ last \in [Tables -> Nat]
FailTypes == /\ failed \subseteq Requests \cup {"start"} /\ Cardinality(failed) <= MaxFailures
             /\ IsFiniteSet(failed)
KnownTypes == known \in {Whole} \cup {ReadUntil(b) : b \in Breaks}

(* The types are the conjunction of these.                                 *)
LEMMA TypeParts ==
  Types <=> OwnTypes /\ AnswerTypes /\ RowTypes /\ FailTypes /\ KnownTypes
  BY DEF Types, TypeOK, OwnTypes, AnswerTypes, RowTypes, FailTypes, KnownTypes

(* The invariant holds at the start.                                       *)
LEMMA InitIInv == Init => IInv
<1> SUFFICES ASSUME Init PROVE IInv
  OBVIOUS
<1>1. \A r \in Requests : /\ pc[r] = "idle" /\ stmt[r] = {} /\ found[r] = <<>>
                          /\ answer[r] = NoAnswer /\ after[r] = {}
  BY DEF Init
<1>2. OwnTypes /\ AnswerTypes /\ KnownTypes
  BY <1>1 DEF Init, OwnTypes, AnswerTypes, KnownTypes, NoAnswer
<1>3. RowTypes
  <2>1. \A t \in Tables : Cardinality(DOMAIN Stored[t]) \in Nat
    BY StoredAssumption, FS_CardinalityType
  <2>2. rows = Stored /\ last = [t \in Tables |-> Cardinality(DOMAIN Stored[t])]
    BY DEF Init
  <2> QED  BY <2>1, <2>2, DbExplorerAssumption, StoredAssumption DEF RowTypes, IsFunction
<1>4. FailTypes
  <2>1. \/ failed = {}
        \/ failed = {"start"} /\ MaxFailures > 0
    BY DEF Init
  <2>2. IsFiniteSet({}) /\ Cardinality({}) = 0
        /\ IsFiniteSet({"start"}) /\ Cardinality({"start"}) = 1 /\ MaxFailures \in Nat
    BY FS_EmptySet, FS_Singleton, DbExplorerAssumption
  <2> QED  BY <2>1, <2>2 DEF FailTypes
<1>5. KeyInv
  BY StoredAssumption, DbExplorerAssumption DEF Init, KeyInv
<1>6. RouteInv /\ AnswerInv /\ DropInv
  BY <1>1 DEF RouteInv, RouteOf, AnswerInv, AnswerOf, DropInv, NoAnswer
<1>7. ConnInv
  BY DEF Init, ConnInv
<1>8. DeleteInv /\ WriteInv /\ ReadInv
  BY <1>1 DEF DeleteInv, Deleter, WriteInv, ReadInv, Written, NoAnswer
<1> QED  BY <1>2, <1>3, <1>4, <1>5, <1>6, <1>7, <1>8, TypeParts DEF IInv

-----------------------------------------------------------------------------
(* The steps, by what they do.                                             *)

(* A step of r leaves the other requests alone.                            *)
Alone(r) ==
  /\ known' = known /\ failed \subseteq failed'
  /\ \A q \in Requests \ {r} :
       /\ pc'[q] = pc[q] /\ stmt'[q] = stmt[q] /\ found'[q] = found[q]
       /\ answer'[q] = answer[q] /\ after'[q] = after[q]
       /\ q \in conns' <=> q \in conns

(* A request comes in, and is answered, or dropped, without a statement ... *)
ComesIn(r) ==
  /\ pc[r] = "idle" /\ UNCHANGED <<rows, last, found, conns, failed>>
  /\ after'[r] = {q \in Requests : pc[q] = "done"}

EndsRouting(r) ==
  /\ ComesIn(r)
  /\ \/ /\ pc'[r] = "reply" /\ answer'[r].status \in {200, 400, 404}
        /\ answer'[r].kind \in {"unknownTable", "tables", "invalidType", "null"}
        /\ Req[r].method = "GET" => Table(r) \notin DOMAIN known
     \/ pc'[r] = "dropped" /\ answer'[r] = answer[r] /\ Table(r) = ""

(* ... or goes on to the statement it asks for.                            *)
Asks(r, op, method) == pc'[r] = op /\ Req[r].method = method

GoesOn(r) ==
  /\ ComesIn(r) /\ Table(r) \in DOMAIN known /\ answer'[r] = answer[r]
  /\ \/ Asks(r, "select", "GET")
     \/ Asks(r, "delete", "DELETE")
     \/ /\ Asks(r, "insert", "PUT") /\ stmt'[r] = {Inserted(Table(r), Body(r))}
        /\ BadFields(Table(r), Body(r)) = {}
     \/ /\ Asks(r, "update", "POST") /\ stmt'[r] = {Updated(Table(r), Body(r))}
        /\ BadFields(Table(r), Body(r)) = {} /\ KeyThrown(Table(r), Body(r)) = {}

(* The result arrives, or the reply is sent.                               *)
Passes(r) ==
  /\ \/ pc[r] = "result" /\ pc'[r] = "reply"
     \/ pc[r] = "reply" /\ pc'[r] = "done"
  /\ answer'[r] = answer[r] /\ after'[r] = after[r]
  /\ UNCHANGED <<rows, last, found, conns, failed>>

(* The statement is refused, or its connection fails before it or after.   *)
Fails(r) ==
  /\ UNCHANGED <<rows, last, found, conns>> /\ after'[r] = after[r]
  /\ pc[r] \in {"insert", "update", "delete", "result"}
  /\ \/ /\ pc'[r] = "dropped" /\ answer'[r].kind = "none"
        /\ \/ r \in failed'
           \/ /\ pc[r] = "insert"
              /\ \E s \in stmt[r] : \/ Refused(Table(r), "insert", s)
                                    \/ NewKey(Table(r), s) \in DOMAIN rows[Table(r)]
           \/ pc[r] = "update" /\ (Unescaped(r) \/ \E s \in stmt[r] : NoUpdate(Table(r), s))
     \/ pc'[r] = "reply" /\ answer'[r].kind = "null" /\ pc[r] # "insert" /\ pc[r] # "update"
  /\ answer'[r].status \in {0, 200}

Selects(r) == Query(r) \/ QueryFails(r) \/ Scan(r) \/ ScanFails(r)
Writes(r)  == \/ Delete(r) \/ DeleteOther(r) \/ UpdateOther(r)
              \/ \E s \in stmt[r] : Insert(r, s) \/ Update(r, s)

(* Routing leads to an answer or to a statement whose body was checked.    *)
LEMMA RouteCases ==
  ASSUME Types, NEW r \in Requests, Route(r)
  PROVE  Alone(r) /\ OwnTypes' /\ (EndsRouting(r) \/ GoesOn(r))
<1>0. OwnTypes /\ DOMAIN known \subseteq Tables /\ "" \notin DOMAIN known
  BY TypeParts, KnownFacts DEF KnownTypes
<1>1. ASSUME NEW status, NEW kind, NEW value, Refuse(r, status, kind, value), Arrive(r)
      PROVE Alone(r) /\ OwnTypes' /\ ComesIn(r) /\ pc'[r] = "reply"
            /\ answer'[r].status = status /\ answer'[r].kind = kind
  <2>1. /\ pc[r] = "idle" /\ pc' = [pc EXCEPT ![r] = "reply"] /\ stmt' = stmt
        /\ answer' = [answer EXCEPT ![r] = [status |-> status, kind |-> kind, value |-> value]]
        /\ after' = [after EXCEPT ![r] = {q \in Requests : pc[q] = "done"}]
        /\ UNCHANGED <<known, rows, last, found, conns, failed>>
    BY <1>1 DEF Refuse, Goto, Answer, Arrive
  <2>2. Alone(r) /\ OwnTypes'
    BY <1>0, <2>1 DEF Alone, OwnTypes
  <2>3. ComesIn(r) /\ pc'[r] = "reply"
    BY <1>0, <2>1 DEF ComesIn, OwnTypes
  <2>4. answer'[r] = [status |-> status, kind |-> kind, value |-> value]
    BY <1>0, <2>1 DEF OwnTypes
  <2> QED  BY <2>2, <2>3, <2>4
<1>2. ASSUME NEW op \in {"select", "insert", "update", "delete"}, NEW s,
             Statement(r, op, s), Arrive(r)
      PROVE Alone(r) /\ OwnTypes' /\ ComesIn(r) /\ pc'[r] = op /\ stmt'[r] = s
            /\ answer'[r] = answer[r]
  <2>1. /\ pc[r] = "idle" /\ pc' = [pc EXCEPT ![r] = op] /\ answer' = answer
        /\ stmt' = [stmt EXCEPT ![r] = s]
        /\ after' = [after EXCEPT ![r] = {q \in Requests : pc[q] = "done"}]
        /\ UNCHANGED <<known, rows, last, found, conns, failed>>
    BY <1>2 DEF Statement, Goto, Arrive
  <2> QED  BY <1>0, <2>1 DEF Alone, OwnTypes, ComesIn
<1>3. CASE RouteUnknown(r)
  <2>1. Refuse(r, 404, "unknownTable", 0) /\ Arrive(r) /\ Table(r) \notin DOMAIN known
    BY <1>3 DEF RouteUnknown, Table
  <2>e. /\ Alone(r) /\ OwnTypes' /\ ComesIn(r) /\ pc'[r] = "reply"
        /\ answer'[r].status = 404 /\ answer'[r].kind = "unknownTable"
    BY <1>1, <2>1
  <2> QED  BY <2>e, <2>1 DEF EndsRouting
<1>4. CASE RouteGet(r)
  <2>1. CASE Table(r) = ""
    <3>1. Refuse(r, 200, "tables", DOMAIN known) /\ Arrive(r) /\ Table(r) \notin DOMAIN known
      BY <1>0, <1>4, <2>1 DEF RouteGet, Table
    <3>e. /\ Alone(r) /\ OwnTypes' /\ ComesIn(r) /\ pc'[r] = "reply"
          /\ answer'[r].status = 200 /\ answer'[r].kind = "tables"
      BY <1>1, <3>1
    <3> QED  BY <3>e, <3>1 DEF EndsRouting
  <2>2. CASE Table(r) # ""
    <3>1. Statement(r, "select", {}) /\ Arrive(r) /\ Table(r) \in DOMAIN known /\ Req[r].method = "GET"
      BY <1>4, <2>2 DEF RouteGet, Table
    <3> QED  BY <1>2, <3>1 DEF GoesOn, Asks
  <2> QED  BY <2>1, <2>2
<1>5. CASE RoutePost(r)
  <2> DEFINE t   == Table(r)
             bad == KeyThrown(t, Body(r)) \cup BadFields(t, Body(r))
             s   == Updated(t, Body(r))
  <2>1. /\ Req[r].method = "POST" /\ t \in DOMAIN known /\ Arrive(r)
        /\ (\E c \in bad : Refuse(r, 400, "invalidType", c)) \/ (bad = {} /\ Statement(r, "update", {s}))
    BY <1>5 DEF RoutePost, RouteWrite, Table
  <2>2. ASSUME NEW c, Refuse(r, 400, "invalidType", c)
        PROVE Alone(r) /\ OwnTypes' /\ EndsRouting(r)
    <3>1. Req[r].method # "GET" /\ Arrive(r)
      BY <2>1
    <3> HIDE DEF t, bad, s
    <3>e. /\ Alone(r) /\ OwnTypes' /\ ComesIn(r) /\ pc'[r] = "reply"
          /\ answer'[r].status = 400 /\ answer'[r].kind = "invalidType"
      BY <1>1, <2>2, <3>1
    <3> QED  BY <3>e, <3>1 DEF EndsRouting
  <2>3. ASSUME bad = {}, Statement(r, "update", {s})
        PROVE Alone(r) /\ OwnTypes' /\ GoesOn(r)
    <3>1. Alone(r) /\ OwnTypes' /\ ComesIn(r) /\ pc'[r] = "update" /\ stmt'[r] = {s}
          /\ answer'[r] = answer[r]
      BY <1>2, <2>1, <2>3
    <3>2. BadFields(t, Body(r)) = {} /\ KeyThrown(t, Body(r)) = {}
      BY <2>3
    <3> QED  BY <2>1, <3>1, <3>2 DEF GoesOn, Asks
  <2> QED  BY <2>1, <2>2, <2>3
<1>6. CASE RoutePut(r)
  <2> DEFINE t   == Table(r)
             bad == BadKey(t, Body(r)) \cup BadFields(t, Body(r))
             s   == Inserted(t, Body(r))
  <2>1. /\ Req[r].method = "PUT" /\ t \in DOMAIN known /\ Arrive(r)
        /\ (\E c \in bad : Refuse(r, 400, "invalidType", c)) \/ (bad = {} /\ Statement(r, "insert", {s}))
    BY <1>6 DEF RoutePut, RouteWrite, Table
  <2>2. ASSUME NEW c, Refuse(r, 400, "invalidType", c)
        PROVE Alone(r) /\ OwnTypes' /\ EndsRouting(r)
    <3>1. Req[r].method # "GET" /\ Arrive(r)
      BY <2>1
    <3> HIDE DEF t, bad, s
    <3>e. /\ Alone(r) /\ OwnTypes' /\ ComesIn(r) /\ pc'[r] = "reply"
          /\ answer'[r].status = 400 /\ answer'[r].kind = "invalidType"
      BY <1>1, <2>2, <3>1
    <3> QED  BY <3>e, <3>1 DEF EndsRouting
  <2>3. ASSUME bad = {}, Statement(r, "insert", {s})
        PROVE Alone(r) /\ OwnTypes' /\ GoesOn(r)
    <3>1. Alone(r) /\ OwnTypes' /\ ComesIn(r) /\ pc'[r] = "insert" /\ stmt'[r] = {s}
          /\ answer'[r] = answer[r]
      BY <1>2, <2>1, <2>3
    <3>2. BadFields(t, Body(r)) = {}
      BY <2>3
    <3> QED  BY <2>1, <3>1, <3>2 DEF GoesOn, Asks
  <2> QED  BY <2>1, <2>2, <2>3
<1>7. CASE RouteDelete(r)
  <2>1. Statement(r, "delete", {}) /\ Arrive(r) /\ Table(r) \in DOMAIN known /\ Req[r].method = "DELETE"
    BY <1>7 DEF RouteDelete, Table
  <2> QED  BY <1>2, <2>1 DEF GoesOn, Asks
<1>8. CASE RouteOther(r)
  <2>1. Refuse(r, 200, "null", 0) /\ Arrive(r) /\ Req[r].method # "GET"
    BY <1>8 DEF RouteOther
  <2>e. /\ Alone(r) /\ OwnTypes' /\ ComesIn(r) /\ pc'[r] = "reply"
        /\ answer'[r].status = 200 /\ answer'[r].kind = "null"
    BY <1>1, <2>1
  <2> QED  BY <2>e, <2>1 DEF EndsRouting
<1>9. CASE RouteNowhere(r)
  <2>1. /\ pc[r] = "idle" /\ pc' = [pc EXCEPT ![r] = "dropped"] /\ UNCHANGED <<stmt, answer>>
        /\ after' = [after EXCEPT ![r] = {q \in Requests : pc[q] = "done"}]
        /\ UNCHANGED <<known, rows, last, found, conns, failed>> /\ Table(r) = ""
    BY <1>9 DEF RouteNowhere, Goto, Arrive, Table
  <2>2. Alone(r) /\ OwnTypes'
    BY <1>0, <2>1 DEF Alone, OwnTypes
  <2>3. EndsRouting(r)
    BY <1>0, <2>1 DEF EndsRouting, ComesIn, OwnTypes
  <2> QED  BY <2>2, <2>3
<1> QED  BY <1>3, <1>4, <1>5, <1>6, <1>7, <1>8, <1>9 DEF Route

(* A statement selects, writes, fails, or its result passes on.            *)
LEMMA ExecuteCases ==
  ASSUME Types, NEW r \in Requests, Execute(r) \/ Reply(r)
  PROVE  /\ Alone(r) /\ OwnTypes' /\ (failed' = failed \/ Fault(r))
         /\ Selects(r) \/ Writes(r) \/ Passes(r) \/ Fails(r)
<1>0. OwnTypes
  BY TypeParts
<1>1. ASSUME NEW from, NEW to \in {"scan", "result", "reply", "done", "dropped"}, Goto(r, from, to)
      PROVE /\ pc[r] = from /\ pc'[r] = to /\ \A q \in Requests \ {r} : pc'[q] = pc[q]
            /\ pc' \in [Requests -> {"idle", "select", "scan", "insert", "update", "delete",
                                     "result", "reply", "done", "dropped"}]
  BY <1>0, <1>1 DEF Goto, OwnTypes
<1>2. ASSUME NEW status, NEW kind, NEW value, Answer(r, status, kind, value)
      PROVE /\ answer'[r] = [status |-> status, kind |-> kind, value |-> value]
            /\ DOMAIN answer' = Requests /\ \A q \in Requests \ {r} : answer'[q] = answer[q]
  BY <1>0, <1>2 DEF Answer, OwnTypes
<1>f. Fault(r) => failed \subseteq failed' /\ r \in failed'
  BY DEF Fault
<1>3. CASE Query(r)
  <2>1. /\ Goto(r, "select", "scan") /\ conns' = conns \cup {r}
        /\ DOMAIN found' = Requests /\ \A q \in Requests \ {r} : found'[q] = found[q]
        /\ UNCHANGED <<known, stmt, answer, after, failed>>
    BY <1>0, <1>3 DEF Query, OwnTypes
  <2> QED  BY <1>0, <1>1, <1>3, <2>1 DEF Alone, OwnTypes, Selects
<1>4. CASE QueryFails(r)
  <2>1. /\ Goto(r, "select", "reply") /\ Answer(r, 200, "null", 0) /\ (failed' = failed \/ Fault(r))
        /\ UNCHANGED <<known, stmt, found, conns, after>>
    BY <1>4 DEF QueryFails, AnswerNull
  <2> QED  BY <1>0, <1>1, <1>2, <1>4, <1>f, <2>1 DEF Alone, OwnTypes, Selects
<1>5. CASE ScanFails(r)
  <2>1. /\ Goto(r, "scan", "reply") /\ Answer(r, 200, "null", 0)
        /\ UNCHANGED <<known, stmt, found, conns, after, failed>>
    BY <1>5 DEF ScanFails, AnswerNull
  <2> QED  BY <1>0, <1>1, <1>2, <1>5, <2>1 DEF Alone, OwnTypes, Selects
<1>6. CASE Scan(r)
  <2>1. /\ Goto(r, "scan", "reply") /\ conns' = conns \ {r} /\ (failed' = failed \/ Fault(r))
        /\ UNCHANGED <<known, stmt, found, after>>
    BY <1>6 DEF Scan, CloseRows
  <2>2. \E status, kind, value : Answer(r, status, kind, value)
    BY <1>6 DEF Scan
  <2> QED  BY <1>0, <1>1, <1>2, <1>6, <1>f, <2>1, <2>2 DEF Alone, OwnTypes, Selects
<1>7. CASE Delete(r) \/ DeleteOther(r) \/ UpdateOther(r)
  <2>1. /\ Goto(r, "delete", "result") \/ Goto(r, "update", "result")
        /\ UNCHANGED <<known, stmt, found, conns, after, failed>>
        /\ \E kind, value : Answer(r, 200, kind, value)
    BY <1>7 DEF Delete, DeleteOther, UpdateOther
  <2> QED  BY <1>0, <1>1, <1>2, <1>7, <2>1 DEF Alone, OwnTypes, Writes
<1>8. ASSUME NEW s \in stmt[r], Insert(r, s) \/ Update(r, s)
      PROVE Alone(r) /\ OwnTypes' /\ failed' = failed /\ Writes(r)
  <2>1. /\ Goto(r, "insert", "result") \/ Goto(r, "update", "result")
        /\ UNCHANGED <<known, stmt, found, conns, after, failed>>
    BY <1>8 DEF Insert, Update
  <2>2. \E kind, value : Answer(r, 200, kind, value)
    BY <1>8 DEF Insert, Update
  <2> QED  BY <1>0, <1>1, <1>2, <1>8, <2>1, <2>2 DEF Alone, OwnTypes, Writes
<1>9. CASE Return(r) \/ Reply(r)
  <2>1. /\ Goto(r, "result", "reply") \/ Goto(r, "reply", "done")
        /\ UNCHANGED <<known, rows, last, stmt, found, conns, answer, after, failed>>
    BY <1>9 DEF Return, Reply
  <2> QED  BY <1>0, <1>1, <2>1 DEF Alone, OwnTypes, Passes
<1>10. ASSUME NEW from, Drop(r, from), failed' = failed \/ Fault(r),
              from \in {"insert", "update", "result"},
              \/ r \in failed'
              \/ /\ from = "insert"
                 /\ \E s \in stmt[r] : \/ Refused(Table(r), "insert", s)
                                       \/ NewKey(Table(r), s) \in DOMAIN rows[Table(r)]
              \/ from = "update" /\ (Unescaped(r) \/ \E s \in stmt[r] : NoUpdate(Table(r), s))
       PROVE Alone(r) /\ OwnTypes' /\ Fails(r)
  <2>1. /\ Goto(r, from, "dropped") /\ Answer(r, 0, "none", 0)
        /\ UNCHANGED <<known, rows, last, stmt, found, conns, after>>
    BY <1>10 DEF Drop
  <2>2. pc[r] = from /\ pc'[r] = "dropped" /\ answer'[r] = [status |-> 0, kind |-> "none", value |-> 0]
    BY <1>1, <1>2, <2>1
  <2>3. Alone(r) /\ OwnTypes'
    BY <1>0, <1>1, <1>2, <1>10, <1>f, <2>1 DEF Alone, OwnTypes
  <2>4. Fails(r)
    BY <1>10, <2>1, <2>2 DEF Fails
  <2> QED  BY <2>3, <2>4
<1>11. ASSUME NEW from, HandOn(r, from), failed' = failed \/ Fault(r), from \in {"delete", "result"}
       PROVE Alone(r) /\ OwnTypes' /\ Fails(r)
  <2>1. /\ Goto(r, from, "reply") /\ Answer(r, 200, "null", 0)
        /\ UNCHANGED <<known, rows, last, stmt, found, conns, after>>
    BY <1>11 DEF HandOn, AnswerNull
  <2>2. pc[r] = from /\ pc'[r] = "reply" /\ answer'[r] = [status |-> 200, kind |-> "null", value |-> 0]
    BY <1>1, <1>2, <2>1
  <2>3. Alone(r) /\ OwnTypes'
    BY <1>0, <1>1, <1>2, <1>11, <1>f, <2>1 DEF Alone, OwnTypes
  <2>4. Fails(r)
    BY <1>11, <2>1, <2>2 DEF Fails
  <2> QED  BY <2>3, <2>4
<1>12. CASE ExecFails(r)
  <2>1. /\ Fault(r) /\ r \in failed'
        /\ \/ \E from \in {"insert", "update"} : Drop(r, from)
           \/ Drop(r, "result") \/ HandOn(r, "delete") \/ HandOn(r, "result")
    BY <1>12, <1>f DEF ExecFails
  <2> QED  BY <1>10, <1>11, <2>1
<1>13. CASE DeleteFails(r)
  <2>1. HandOn(r, "delete") /\ failed' = failed
    BY <1>13 DEF DeleteFails
  <2> QED  BY <1>11, <2>1
<1>14. ASSUME NEW s \in stmt[r], InsertPanics(r, s)
       PROVE Alone(r) /\ OwnTypes' /\ Fails(r) /\ failed' = failed
  <2>1. Drop(r, "insert") /\ failed' = failed
        /\ (Refused(Table(r), "insert", s) \/ NewKey(Table(r), s) \in DOMAIN rows[Table(r)])
    BY <1>14 DEF InsertPanics, Table
  <2> QED  BY <1>10, <2>1
<1>15. ASSUME NEW s \in stmt[r], UpdatePanics(r, s)
       PROVE Alone(r) /\ OwnTypes' /\ Fails(r) /\ failed' = failed
  <2>1. Drop(r, "update") /\ failed' = failed /\ (Unescaped(r) \/ NoUpdate(Table(r), s))
    BY <1>15 DEF UpdatePanics, Table
  <2> QED  BY <1>10, <2>1
<1> QED  BY <1>3, <1>4, <1>5, <1>6, <1>7, <1>8, <1>9, <1>12, <1>13, <1>14, <1>15 DEF Execute

(* Every step is a step of one request, which leaves the others alone.     *)
LEMMA StepCases ==
  ASSUME Types, [Next]_vars
  PROVE  \/ UNCHANGED vars
         \/ \E r \in Requests :
              /\ Alone(r) /\ OwnTypes' /\ (failed' = failed \/ Fault(r))
              /\ \/ EndsRouting(r) \/ GoesOn(r) \/ Passes(r) \/ Fails(r)
                 \/ Selects(r) \/ Writes(r)
  BY RouteCases, ExecuteCases DEF Next, AwaitRequest, EndsRouting, GoesOn, ComesIn

-----------------------------------------------------------------------------
(* What the statements do to the records.                                  *)

(* A value that is not refused is stored as a text in a text column, as a  *)
(* number in another, or as the null the column allows.                    *)
LEMMA StoredFits ==
  ASSUME NEW column, NEW op, NEW value, IsValue(value),
         Accepted(column.type, Sent(op, value)),
         Sent(op, value).kind = "null" => column.null
  PROVE  LET w == StoredAs(column.type, Sent(op, value))
         IN  \/ w = Null /\ column.null
             \/ w.kind \in IF IsText(column.type) THEN {"string"} ELSE {"int", "fraction"}
<1> DEFINE v == Sent(op, value)
<1>1. /\ value.kind \in {"string", "int", "fraction", "bool", "nested", "null"}
      /\ value.kind = "null" => value = Null
  <2>1. Null.kind = "null"
    BY DEF Null
  <2> QED  BY <2>1 DEF IsValue
<1>2. /\ v.kind \in {"string", "int", "fraction", "nested", "null"}
      /\ v.kind = "null" => v = Null
  <2>1. CASE value.kind \in {"string", "null"}
    BY <1>1, <2>1 DEF Sent
  <2>2. CASE value.kind \in {"int", "fraction", "bool", "nested"}
    BY <1>1, <2>2 DEF Sent
  <2> QED  BY <1>1, <2>1, <2>2
<1> HIDE DEF v
<1>3. CASE v.kind = "null"
  <2>1. StoredAs(column.type, v) = Null /\ column.null
    BY <1>2, <1>3 DEF StoredAs, v
  <2> QED  BY <2>1 DEF v
<1>4. CASE v.kind # "null" /\ IsText(column.type)
  <2>1. StoredAs(column.type, v).kind = "string"
    BY <1>4 DEF StoredAs
  <2> QED  BY <1>4, <2>1 DEF v
<1>5. CASE v.kind # "null" /\ ~IsText(column.type)
  <2>1. StoredAs(column.type, v) = v /\ v.kind \in {"int", "fraction"}
    BY <1>2, <1>5 DEF StoredAs, Accepted, v
  <2> QED  BY <1>5, <2>1 DEF v
<1> QED  BY <1>3, <1>4, <1>5

(* A statement carries values of the body, and what an insertion fills in. *)
LEMMA InsertedFacts ==
  ASSUME Types, NEW r \in Requests, Table(r) \in DOMAIN known
  PROVE  LET s == Inserted(Table(r), Body(r))
         IN  /\ DOMAIN s.values \subseteq DOMAIN Columns[Table(r)]
             /\ DOMAIN Body(r) \cap KnownColumns(Table(r)) \subseteq DOMAIN s.values
             /\ \A c \in DOMAIN s.values : IsValue(s.values[c])
             /\ \A c \in DOMAIN Body(r) \cap KnownColumns(Table(r)) : s.values[c] = Body(r)[c]
<1> DEFINE t == Table(r)
           given  == DOMAIN Body(r) \cap KnownColumns(t)
           filled == {c \in KnownColumns(t) \ given : ~Columns[t][c].null}
           blank(c) == IF IsText(Columns[t][c].type) THEN NoText ELSE Zero
           typed  == {c \in filled : IsText(Columns[t][c].type) \/ IsInt(Columns[t][c].type)
                                     \/ Columns[t][c].type = "float"}
           values == [c \in given \cup typed |-> IF c \in given THEN Body(r)[c] ELSE blank(c)]
<1>1. Inserted(t, Body(r)) = [values |-> values, missing |-> filled \ typed,
                              key |-> {Body(r)[c] : c \in KeySent(t, Body(r))}]
  BY DEF Inserted
<1>2. KnownColumns(t) \subseteq DOMAIN Columns[t]
  BY TypeParts, KnownFacts DEF KnownTypes, KnownColumns
<1>3. \A c \in given : IsValue(Body(r)[c])
  BY RequestsAssumption DEF Body
<1>4. \A c : IsValue(blank(c))
  BY DEF IsValue, NoText, Zero
<1>5. given \cup typed \subseteq KnownColumns(t)
  OBVIOUS
<1>6. Inserted(t, Body(r)).values = values
  BY <1>1
<1> HIDE DEF blank, given, typed
<1>7. /\ DOMAIN values = given \cup typed
      /\ \A c \in given \cup typed : values[c] = IF c \in given THEN Body(r)[c] ELSE blank(c)
  OBVIOUS
<1> HIDE DEF values
<1>8. /\ \A c \in DOMAIN values : IsValue(values[c])
      /\ \A c \in given : values[c] = Body(r)[c]
      /\ DOMAIN values \subseteq DOMAIN Columns[t] /\ given \subseteq DOMAIN values
  BY <1>2, <1>3, <1>4, <1>5, <1>7
<1> QED  BY <1>6, <1>8 DEF given

(* An UPDATE carries the values of the body for columns that are known.    *)
LEMMA UpdatedFacts ==
  ASSUME Types, NEW r \in Requests, Table(r) \in DOMAIN known
  PROVE  LET s == Updated(Table(r), Body(r))
         IN  /\ DOMAIN s.values = DOMAIN Body(r) \cap KnownColumns(Table(r))
             /\ DOMAIN s.values \subseteq DOMAIN Columns[Table(r)]
             /\ \A c \in DOMAIN s.values : s.values[c] = Body(r)[c] /\ IsValue(s.values[c])
<1>1. KnownColumns(Table(r)) \subseteq DOMAIN Columns[Table(r)]
  BY TypeParts, KnownFacts DEF KnownTypes, KnownColumns
<1>2. \A c \in DOMAIN Body(r) : IsValue(Body(r)[c])
  BY RequestsAssumption DEF Body
<1> QED  BY <1>1, <1>2 DEF Updated

(* The records of the other tables stay.                                   *)
OtherTables(r) == DOMAIN rows' = Tables /\ \A t \in Tables \ {Table(r)} : rows'[t] = rows[t]

(* A statement writes in the table of the request, and nothing else.       *)
Executed(r, kind) ==
  /\ pc'[r] = "result" /\ Table(r) \in DOMAIN known /\ Table(r) \in Tables
  /\ answer'[r].status = 200 /\ answer'[r].kind = kind /\ after'[r] = after[r]
  /\ UNCHANGED <<found, conns, failed>> /\ OtherTables(r)
  /\ IsFunction(rows'[Table(r)])

Deletes(r) ==
  LET t == Table(r)
  IN  /\ pc[r] = "delete" /\ Req[r].method = "DELETE" /\ Executed(r, "deleted") /\ last' = last
      /\ Req[r].id # {}
      /\ answer'[r].value = Cardinality(Req[r].id \cap DOMAIN rows[t])
      /\ DOMAIN rows'[t] = DOMAIN rows[t] \ Req[r].id
      /\ \A k \in DOMAIN rows'[t] : rows'[t][k] = rows[t][k]

NextKey(r) == NewKey(Table(r), Inserted(Table(r), Body(r)))

Inserts(r) ==
  LET t == Table(r)
      k == NextKey(r)
      s == Inserted(t, Body(r))
  IN  /\ pc[r] = "insert" /\ Req[r].method = "PUT" /\ Executed(r, "id")
      /\ answer'[r].value = LastInsertId(t, k)
      /\ ~Refused(t, "insert", s) /\ BadFields(t, Body(r)) = {}
      /\ last' = [last EXCEPT ![t] = IF t \in AutoKeys THEN k ELSE @]
      /\ k \notin DOMAIN rows[t] /\ DOMAIN rows'[t] = DOMAIN rows[t] \cup {k}
      /\ \A j \in DOMAIN rows[t] : rows'[t][j] = rows[t][j]
      /\ rows'[t][k] = [c \in DOMAIN Columns[t] |->
                          IF c \in DOMAIN s.values THEN Value(t, "insert", s, c) ELSE Null]

Changed(r, record) ==
  LET t == Table(r)
      s == Updated(t, Body(r))
  IN  [c \in DOMAIN Columns[t] |->
         IF c \in DOMAIN s.values THEN Value(t, "update", s, c) ELSE record[c]]

Differs(r) == {k \in Req[r].id \cap DOMAIN rows[Table(r)] :
                 Changed(r, rows[Table(r)][k]) # rows[Table(r)][k]}

Updates(r) ==
  LET t == Table(r)
  IN  /\ pc[r] = "update" /\ Req[r].method = "POST" /\ Executed(r, "updated") /\ last' = last
      /\ answer'[r].value = Cardinality(Differs(r))
      /\ ~Refused(t, "update", Updated(t, Body(r))) /\ KnownKey(t) # {}
      /\ BadFields(t, Body(r)) = {} /\ KeyThrown(t, Body(r)) = {}
      /\ DOMAIN rows'[t] = DOMAIN rows[t]
      /\ \A k \in DOMAIN rows[t] :
           rows'[t][k] = IF k \in Req[r].id THEN Changed(r, rows[t][k]) ELSE rows[t][k]

(* A statement read as something else changes its own table.               *)
Rewrites(r) ==
  /\ Unescaped(r) /\ pc[r] \in {"update", "delete"}
  /\ \/ Executed(r, "updated") /\ Req[r].method = "POST"
     \/ Executed(r, "deleted") /\ Req[r].method = "DELETE"
  /\ \A k \in DOMAIN rows'[Table(r)] : Fits(Table(r), rows'[Table(r)][k])
  /\ last' \in [Tables -> Nat] /\ \A t \in Tables : last[t] <= last'[t]

(* A statement that changes records deletes, inserts or updates as the     *)
(* request asks, or was read as something else.                            *)
LEMMA WriteCases ==
  ASSUME Types, RouteInv, NEW r \in Requests, Writes(r)
  PROVE  Deletes(r) \/ Inserts(r) \/ Updates(r) \/ Rewrites(r)
<1> DEFINE t == Table(r)
<1>0. /\ DOMAIN answer = Requests /\ DOMAIN rows = Tables /\ DOMAIN known \subseteq Tables
      /\ OwnTypes
  BY TypeParts, KnownFacts DEF OwnTypes, RowTypes, KnownTypes
<1>1. ASSUME NEW to, NEW from, Goto(r, from, to) PROVE pc[r] = from /\ pc'[r] = to
  BY <1>0, <1>1 DEF Goto, OwnTypes
<1>2. ASSUME NEW kind, NEW value, Answer(r, 200, kind, value)
      PROVE answer'[r] = [status |-> 200, kind |-> kind, value |-> value]
  BY <1>0, <1>2 DEF Answer
<1>3. CASE Delete(r)
  <2> DEFINE k == Req[r].id \cap DOMAIN rows[t]
  <2>1. /\ Goto(r, "delete", "result") /\ Answer(r, 200, "deleted", Cardinality(k))
        /\ rows' = [rows EXCEPT ![t] = [j \in DOMAIN @ \ k |-> @[j]]]
        /\ UNCHANGED <<known, last, stmt, found, conns, after, failed>> /\ Req[r].id # {}
    BY <1>3 DEF Delete, Deleted, NoDelete, Table
  <2>2. /\ pc[r] = "delete" /\ pc'[r] = "result"
        /\ answer'[r] = [status |-> 200, kind |-> "deleted", value |-> Cardinality(k)]
    BY <1>1, <1>2, <2>1
  <2>3. Req[r].method = "DELETE" /\ t \in DOMAIN known /\ t \in Tables
    BY <1>0, <2>2 DEF RouteInv, RouteOf
  <2>4. OtherTables(r) /\ rows'[t] = [j \in DOMAIN rows[t] \ k |-> rows[t][j]]
    BY <1>0, <2>1, <2>3 DEF OtherTables
  <2>5. DOMAIN rows[t] \ k = DOMAIN rows[t] \ Req[r].id
    OBVIOUS
  <2>f. IsFunction(rows'[t])
    <3> HIDE DEF t, k
    <3> QED  BY <2>4 DEF IsFunction
  <2>6. Executed(r, "deleted")
    BY <2>1, <2>2, <2>3, <2>4, <2>f DEF Executed
  <2>7. /\ DOMAIN rows'[t] = DOMAIN rows[t] \ Req[r].id
        /\ \A j \in DOMAIN rows'[t] : rows'[t][j] = rows[t][j]
    BY <2>4, <2>5
  <2> QED  BY <2>1, <2>2, <2>3, <2>6, <2>7 DEF Deletes
<1>4. ASSUME NEW s \in stmt[r], Insert(r, s) PROVE Inserts(r)
  <2> DEFINE k == NewKey(t, s)
             record == [c \in DOMAIN Columns[t] |->
                          IF c \in DOMAIN s.values THEN Value(t, "insert", s, c) ELSE Null]
  <2>1. /\ Goto(r, "insert", "result") /\ Answer(r, 200, "id", LastInsertId(t, k))
        /\ ~Refused(t, "insert", s) /\ k \notin DOMAIN rows[t]
        /\ rows' = [rows EXCEPT ![t] = [j \in DOMAIN @ \cup {k} |-> IF j = k THEN record ELSE @[j]]]
        /\ last' = [last EXCEPT ![t] = IF t \in AutoKeys THEN k ELSE @]
        /\ UNCHANGED <<known, stmt, found, conns, after, failed>>
    BY <1>4 DEF Insert, InsertedId, Table
  <2>2. /\ pc[r] = "insert" /\ pc'[r] = "result"
        /\ answer'[r] = [status |-> 200, kind |-> "id", value |-> LastInsertId(t, k)]
    BY <1>1, <1>2, <2>1
  <2>3. /\ Req[r].method = "PUT" /\ t \in DOMAIN known /\ t \in Tables
        /\ s = Inserted(t, Body(r)) /\ BadFields(t, Body(r)) = {}
    BY <1>0, <2>2 DEF RouteInv, RouteOf
  <2> HIDE DEF k, record, t
  <2>4. /\ OtherTables(r)
        /\ rows'[t] = [j \in DOMAIN rows[t] \cup {k} |-> IF j = k THEN record ELSE rows[t][j]]
    BY <1>0, <2>1, <2>3 DEF OtherTables, t
  <2>5. /\ DOMAIN rows'[t] = DOMAIN rows[t] \cup {k} /\ rows'[t][k] = record
        /\ \A j \in DOMAIN rows[t] : rows'[t][j] = rows[t][j]
    BY <2>1, <2>4
  <2>f. IsFunction(rows'[t])
    BY <2>4 DEF IsFunction
  <2>6. Executed(r, "id")
    BY <2>1, <2>2, <2>3, <2>4, <2>f DEF Executed, t
  <2>7. k = NextKey(r)
    BY <2>3 DEF k, t, NextKey
  <2> QED  BY <2>1, <2>2, <2>3, <2>5, <2>6, <2>7 DEF Inserts, record, t
<1>5. ASSUME NEW s \in stmt[r], Update(r, s) PROVE Updates(r)
  <2> DEFINE changed(k) == [c \in DOMAIN Columns[t] |->
                             IF c \in DOMAIN s.values THEN Value(t, "update", s, c) ELSE rows[t][k][c]]
             keys == {k \in Req[r].id \cap DOMAIN rows[t] : changed(k) # rows[t][k]}
  <2>1. /\ Goto(r, "update", "result") /\ Answer(r, 200, "updated", Cardinality(keys))
        /\ ~NoUpdate(t, s)
        /\ rows' = [rows EXCEPT ![t] = [k \in DOMAIN @ |-> IF k \in keys THEN changed(k) ELSE @[k]]]
        /\ UNCHANGED <<known, last, stmt, found, conns, after, failed>>
    BY <1>5 DEF Update, Where, Table
  <2>2. /\ pc[r] = "update" /\ pc'[r] = "result"
        /\ answer'[r] = [status |-> 200, kind |-> "updated", value |-> Cardinality(keys)]
    BY <1>1, <1>2, <2>1
  <2>3. /\ Req[r].method = "POST" /\ t \in DOMAIN known /\ t \in Tables
        /\ s = Updated(t, Body(r)) /\ BadFields(t, Body(r)) = {} /\ KeyThrown(t, Body(r)) = {}
    BY <1>0, <2>2 DEF RouteInv, RouteOf
  <2>c. \A k : changed(k) = Changed(r, rows[t][k])
    BY <2>3 DEF Changed
  <2> HIDE DEF changed
  <2>k. keys = Differs(r)
    BY <2>c DEF Differs
  <2>4. /\ OtherTables(r)
        /\ rows'[t] = [k \in DOMAIN rows[t] |-> IF k \in keys THEN changed(k) ELSE rows[t][k]]
    <3> HIDE DEF keys, t
    <3> QED  BY <1>0, <2>1, <2>3 DEF OtherTables, t
  <2>5. \A k \in DOMAIN rows[t] :
          rows'[t][k] = IF k \in Req[r].id THEN Changed(r, rows[t][k]) ELSE rows[t][k]
    <3>1. \A k \in DOMAIN rows[t] : rows'[t][k] = IF k \in keys THEN changed(k) ELSE rows[t][k]
      <4> HIDE DEF keys, t
      <4> QED  BY <2>4
    <3> QED  BY <3>1, <2>c
  <2>6. DOMAIN rows'[t] = DOMAIN rows[t]
    <3> HIDE DEF keys, t
    <3> QED  BY <2>4
  <2>f. IsFunction(rows'[t])
    <3> HIDE DEF keys, t
    <3> QED  BY <2>4 DEF IsFunction
  <2>7. Executed(r, "updated")
    BY <2>1, <2>2, <2>3, <2>4, <2>f DEF Executed
  <2>8. ~Refused(t, "update", Updated(t, Body(r))) /\ KnownKey(t) # {}
    BY <2>1, <2>3 DEF NoUpdate
  <2>9. pc[r] = "update" /\ answer'[r].value = Cardinality(Differs(r)) /\ last' = last
    BY <2>1, <2>2, <2>k
  <2> HIDE DEF keys, t
  <2> QED  BY <2>3, <2>5, <2>6, <2>7, <2>8, <2>9 DEF Updates, t
<1>o. ASSUME OtherTables(r), IsFunction(rows'[t]), t \in Tables,
             UNCHANGED <<found, conns, after, failed>>,
             NEW kind, NEW value, Answer(r, 200, kind, value), pc'[r] = "result", t \in DOMAIN known
      PROVE Executed(r, kind)
  <2>1. answer'[r] = [status |-> 200, kind |-> kind, value |-> value]
    BY <1>2, <1>o
  <2> HIDE DEF t
  <2> QED  BY <1>o, <2>1 DEF Executed, t
<1>6. CASE DeleteOther(r)
  <2>1. /\ Goto(r, "delete", "result") /\ Unescaped(r)
        /\ UNCHANGED <<known, last, stmt, found, conns, after, failed>>
    BY <1>6 DEF DeleteOther
  <2>2. PICK old \in SUBSET DOMAIN rows[t] :
          /\ rows' = [rows EXCEPT ![t] = [k \in DOMAIN @ \ old |-> @[k]]]
          /\ Answer(r, 200, "deleted", Cardinality(old))
    BY <1>6 DEF DeleteOther, Table
  <2>3. pc[r] = "delete" /\ pc'[r] = "result"
    BY <1>1, <2>1
  <2>4. Req[r].method = "DELETE" /\ t \in DOMAIN known /\ t \in Tables
    BY <1>0, <2>3 DEF RouteInv, RouteOf
  <2>5. OtherTables(r) /\ rows'[t] = [k \in DOMAIN rows[t] \ old |-> rows[t][k]]
    BY <1>0, <2>2, <2>4 DEF OtherTables
  <2> HIDE DEF t
  <2>6. IsFunction(rows'[t])
    BY <2>5 DEF IsFunction
  <2>7. \A k \in DOMAIN rows'[t] : Fits(t, rows'[t][k])
    BY <1>0, <2>4, <2>5, TypeParts DEF RowTypes
  <2>8. last' \in [Tables -> Nat] /\ \A u \in Tables : last[u] <= last'[u]
    BY <2>1, TypeParts DEF RowTypes
  <2>9. Executed(r, "deleted")
    BY <1>o, <2>1, <2>2, <2>3, <2>4, <2>5, <2>6
  <2> QED  BY <2>1, <2>3, <2>4, <2>7, <2>8, <2>9 DEF Rewrites, t
<1>7. CASE UpdateOther(r)
  <2>1. /\ Goto(r, "update", "result") /\ Unescaped(r)
        /\ UNCHANGED <<known, stmt, found, conns, after, failed>>
    BY <1>7 DEF UpdateOther
  <2>2. PICK old \in SUBSET DOMAIN rows[t], new \in Others[t] :
          LET rest == DOMAIN rows[t] \ old
          IN  /\ rows' = [rows EXCEPT ![t] = [k \in rest \cup DOMAIN new |->
                                               IF k \in rest THEN @[k] ELSE new[k]]]
              /\ \E k \in {last[t]} \cup DOMAIN new :
                   k >= last[t] /\ last' = [last EXCEPT ![t] = k]
              /\ Answer(r, 200, "updated", Cardinality(old))
    BY <1>7 DEF UpdateOther, Table
  <2> DEFINE rest == DOMAIN rows[t] \ old
  <2>3. pc[r] = "update" /\ pc'[r] = "result"
    BY <1>1, <2>1
  <2>4. Req[r].method = "POST" /\ t \in DOMAIN known /\ t \in Tables
    BY <1>0, <2>3 DEF RouteInv, RouteOf
  <2>5. OtherTables(r) /\ rows'[t] = [k \in rest \cup DOMAIN new |->
                                       IF k \in rest THEN rows[t][k] ELSE new[k]]
    BY <1>0, <2>2, <2>4 DEF OtherTables
  <2> HIDE DEF t, rest
  <2>6. IsFunction(rows'[t])
    BY <2>5 DEF IsFunction
  <2>r. rest \subseteq DOMAIN rows[t]
    BY DEF rest
  <2>n. DOMAIN new \subseteq Nat /\ \A k \in DOMAIN new : Fits(t, new[k])
    BY <2>2, <2>4, StoredAssumption
  <2>7. \A k \in DOMAIN rows'[t] : Fits(t, rows'[t][k])
    BY <1>0, <2>4, <2>5, <2>r, <2>n, TypeParts DEF RowTypes
  <2>8. last' \in [Tables -> Nat] /\ \A u \in Tables : last[u] <= last'[u]
    <3>1. last \in [Tables -> Nat]
      BY TypeParts DEF RowTypes
    <3>2. PICK k \in {last[t]} \cup DOMAIN new : k >= last[t] /\ last' = [last EXCEPT ![t] = k]
      BY <2>2
    <3>3. k \in Nat
      BY <2>4, <2>n, <3>1, <3>2
    <3> QED  BY <2>4, <3>1, <3>2, <3>3
  <2>9. Executed(r, "updated")
    BY <1>o, <2>1, <2>2, <2>3, <2>4, <2>5, <2>6
  <2> QED  BY <2>1, <2>3, <2>4, <2>7, <2>8, <2>9 DEF Rewrites, t
<1> QED  BY <1>3, <1>4, <1>5, <1>6, <1>7 DEF Writes

-----------------------------------------------------------------------------
(* The steps of a SELECT.                                                  *)
Opens(r) ==
  /\ pc[r] = "select" /\ pc'[r] = "scan" /\ WellFormed(r) /\ conns' = conns \cup {r}
  /\ answer'[r] = answer[r] /\ after'[r] = after[r] /\ UNCHANGED <<rows, last, failed>>
  /\ Req[r].id # {} => found'[r] = [k \in Req[r].id \cap DOMAIN rows[Table(r)] |-> rows[Table(r)][k]]

Gives(r, kind) ==
  /\ pc'[r] = "reply" /\ answer'[r].kind = kind /\ answer'[r].status \in {200, 404}
  /\ after'[r] = after[r] /\ UNCHANGED <<rows, last, found>>

Malformed(r) ==
  pc[r] = "select" /\ Gives(r, "null") /\ conns' = conns /\ (~WellFormed(r) \/ r \in failed')

Leaks(r) == pc[r] = "scan" /\ Gives(r, "null") /\ conns' = conns /\ Stuck(r)

Finishes(r) ==
  /\ pc[r] = "scan" /\ conns' = conns \ {r}
  /\ \E keys \in SUBSET DOMAIN found[r] :
       /\ \A k \in keys : Scannable(Table(r), found[r][k])
       /\ keys = DOMAIN found[r] \/ r \in failed'
       /\ IF keys = {} THEN Gives(r, "notFound")
          ELSE /\ Gives(r, IF Req[r].id = {} THEN "records" ELSE "record")
               /\ answer'[r].value = [k \in keys |-> found[r][k]]

(* A SELECT opens its rows, fails, leaks its connection or finishes.       *)
LEMMA SelectCases ==
  ASSUME Types, NEW r \in Requests, Selects(r)
  PROVE  Opens(r) \/ Malformed(r) \/ Leaks(r) \/ Finishes(r)
<1> DEFINE t == Table(r)
<1>0. OwnTypes
  BY TypeParts
<1>1. ASSUME NEW to, NEW from, Goto(r, from, to) PROVE pc[r] = from /\ pc'[r] = to
  BY <1>0, <1>1 DEF Goto, OwnTypes
<1>2. ASSUME NEW status, NEW kind, NEW value, Answer(r, status, kind, value)
      PROVE answer'[r] = [status |-> status, kind |-> kind, value |-> value]
  BY <1>0, <1>2 DEF Answer, OwnTypes
<1>f. Fault(r) => r \in failed'
  BY DEF Fault
<1>g. ASSUME NEW status \in {200, 404}, NEW kind, NEW value, Answer(r, status, kind, value),
             NEW from, Goto(r, from, "reply"), UNCHANGED <<rows, last, found, after>>
      PROVE Gives(r, kind) /\ pc[r] = from /\ answer'[r].value = value
  <2>1. pc[r] = from /\ pc'[r] = "reply"
    BY <1>1, <1>g
  <2>2. answer'[r] = [status |-> status, kind |-> kind, value |-> value]
    BY <1>2, <1>g
  <2>3. answer'[r].status = status /\ answer'[r].kind = kind /\ answer'[r].value = value
    BY <2>2
  <2> QED  BY <1>g, <2>1, <2>3 DEF Gives
<1>3. CASE Query(r)
  <2>1. /\ Goto(r, "select", "scan") /\ WellFormed(r) /\ conns' = conns \cup {r}
        /\ UNCHANGED <<known, rows, last, stmt, answer, after, failed>>
        /\ Req[r].id # {} =>
             found' = [found EXCEPT ![r] = [k \in Req[r].id \cap DOMAIN rows[t] |-> rows[t][k]]]
    BY <1>3 DEF Query, Table
  <2>2. DOMAIN found = Requests
    BY <1>0 DEF OwnTypes
  <2>3. Req[r].id # {} => found'[r] = [k \in Req[r].id \cap DOMAIN rows[t] |-> rows[t][k]]
    BY <2>1, <2>2
  <2> QED  BY <1>1, <2>1, <2>3 DEF Opens
<1>4. CASE QueryFails(r)
  <2>1. /\ Goto(r, "select", "reply") /\ Answer(r, 200, "null", 0) /\ (~WellFormed(r) \/ r \in failed')
        /\ UNCHANGED <<known, rows, last, stmt, found, conns, after>>
    BY <1>4, <1>f DEF QueryFails, AnswerNull
  <2> QED  BY <1>g, <2>1 DEF Malformed
<1>5. CASE ScanFails(r)
  <2>1. /\ Goto(r, "scan", "reply") /\ Answer(r, 200, "null", 0) /\ Stuck(r)
        /\ UNCHANGED <<known, rows, last, stmt, found, conns, after, failed>>
    BY <1>5 DEF ScanFails, AnswerNull, Stuck, Table
  <2> QED  BY <1>g, <2>1 DEF Leaks
<1>6. CASE Scan(r)
  <2>1. PICK n \in 0..Cardinality(DOMAIN found[r]) :
          LET keys == {k \in DOMAIN found[r] : Cardinality({j \in DOMAIN found[r] : j < k}) < n}
          IN  /\ \A k \in keys : Scannable(t, found[r][k])
              /\ IF keys = DOMAIN found[r] THEN UNCHANGED failed ELSE Fault(r)
              /\ Goto(r, "scan", "reply")
              /\ CloseRows(r)
              /\ IF keys = {} THEN Answer(r, 404, "notFound", 0)
                 ELSE Answer(r, 200, IF Req[r].id = {} THEN "records" ELSE "record",
                             [k \in keys |-> found[r][k]])
              /\ UNCHANGED <<known, rows, last, stmt, found, after>>
    BY <1>6 DEF Scan, Table
  <2> DEFINE keys == {k \in DOMAIN found[r] : Cardinality({j \in DOMAIN found[r] : j < k}) < n}
  <2>2. /\ keys \in SUBSET DOMAIN found[r]
        /\ \A k \in keys : Scannable(t, found[r][k])
        /\ keys = DOMAIN found[r] \/ r \in failed'
        /\ Goto(r, "scan", "reply") /\ conns' = conns \ {r}
        /\ keys = {} => Answer(r, 404, "notFound", 0)
        /\ keys # {} => Answer(r, 200, IF Req[r].id = {} THEN "records" ELSE "record",
                               [k \in keys |-> found[r][k]])
        /\ UNCHANGED <<rows, last, found, after>>
    BY <2>1, <1>f DEF CloseRows
  <2> HIDE DEF keys
  <2>3. pc[r] = "scan"
    BY <1>1, <2>2
  <2>u. UNCHANGED <<rows, last, found, after>> /\ Goto(r, "scan", "reply")
    BY <2>2
  <2>4. CASE keys = {}
    <3>1. Answer(r, 404, "notFound", 0)
      BY <2>2, <2>4
    <3>2. Gives(r, "notFound")
      BY <1>g, <2>u, <3>1
    <3> QED  BY <2>2, <2>3, <2>4, <3>2 DEF Finishes
  <2>5. CASE keys # {}
    <3> DEFINE kind == IF Req[r].id = {} THEN "records" ELSE "record"
               value == [k \in keys |-> found[r][k]]
    <3>0. Answer(r, 200, kind, value)
      BY <2>2, <2>5
    <3> HIDE DEF kind, value
    <3>1. Gives(r, kind) /\ answer'[r].value = value
      BY <1>g, <2>u, <3>0
    <3> QED  BY <2>2, <2>3, <2>5, <3>1 DEF Finishes, kind, value
  <2> QED  BY <2>4, <2>5
<1> QED  BY <1>3, <1>4, <1>5, <1>6 DEF Selects

(* A step of r.                                                            *)
Step(r) ==
  /\ Alone(r) /\ OwnTypes' /\ (failed' = failed \/ Fault(r))
  /\ \/ EndsRouting(r) \/ GoesOn(r) \/ Passes(r) \/ Fails(r)
     \/ Opens(r) \/ Malformed(r) \/ Leaks(r) \/ Finishes(r)
     \/ Deletes(r) \/ Inserts(r) \/ Updates(r) \/ Rewrites(r)

(* Every step changes nothing or is a step of one request.                 *)
LEMMA Steps ==
  ASSUME Types, RouteInv, [Next]_vars
  PROVE  UNCHANGED vars \/ \E r \in Requests : Step(r)
<1>1. CASE UNCHANGED vars
  BY <1>1
<1>2. ASSUME NEW r \in Requests,
             Alone(r) /\ OwnTypes' /\ (failed' = failed \/ Fault(r)),
             \/ EndsRouting(r) \/ GoesOn(r) \/ Passes(r) \/ Fails(r)
             \/ Selects(r) \/ Writes(r)
      PROVE Step(r)
  BY <1>2, SelectCases, WriteCases DEF Step
<1> QED  BY <1>1, <1>2, StepCases

(* Where a step is taken from and leads to.                                *)
LEMMA StepMoves ==
  ASSUME NEW r \in Requests, Step(r)
  PROVE  /\ pc[r] \notin {"done", "dropped"} /\ pc'[r] # "idle"
         /\ pc[r] # "idle" => after'[r] = after[r]
         /\ pc[r] = "idle" => after'[r] = {q \in Requests : pc[q] = "done"}
         /\ known' = known
<1>1. known' = known
  BY DEF Step, Alone
<1>2. CASE EndsRouting(r) \/ GoesOn(r)
  BY <1>1, <1>2 DEF EndsRouting, GoesOn, ComesIn, Asks
<1>3. CASE Passes(r)
  BY <1>1, <1>3 DEF Passes
<1>4. CASE Fails(r)
  BY <1>1, <1>4 DEF Fails
<1>5. CASE Opens(r)
  BY <1>1, <1>5 DEF Opens
<1>6. CASE Malformed(r) \/ Leaks(r)
  BY <1>1, <1>6 DEF Malformed, Leaks, Gives
<1>7. CASE Finishes(r)
  <2>1. pc[r] = "scan" /\ pc'[r] = "reply" /\ after'[r] = after[r]
    BY <1>7 DEF Finishes, Gives
  <2> QED  BY <1>1, <2>1
<1>8. CASE Deletes(r) \/ Inserts(r) \/ Updates(r)
  <2>1. pc[r] \in {"delete", "insert", "update"} /\ pc'[r] = "result" /\ after'[r] = after[r]
    BY <1>8 DEF Deletes, Inserts, Updates, Executed
  <2> QED  BY <1>1, <2>1
<1>9. CASE Rewrites(r)
  <2>1. pc[r] \in {"delete", "update"} /\ pc'[r] = "result" /\ after'[r] = after[r]
    BY <1>9 DEF Rewrites, Executed
  <2> QED  BY <1>1, <2>1
<1> QED  BY <1>2, <1>3, <1>4, <1>5, <1>6, <1>7, <1>8, <1>9 DEF Step

(* The schema stays, and what is made of it with a request.                *)
LEMMA SchemaStays ==
  ASSUME known' = known, NEW q \in Requests
  PROVE  /\ BadFields(Table(q), Body(q))' = BadFields(Table(q), Body(q))
         /\ KeyThrown(Table(q), Body(q))' = KeyThrown(Table(q), Body(q))
         /\ Inserted(Table(q), Body(q))' = Inserted(Table(q), Body(q))
         /\ Updated(Table(q), Body(q))' = Updated(Table(q), Body(q))
         /\ KeySent(Table(q), Body(q))' = KeySent(Table(q), Body(q))
         /\ Sends(q)' = Sends(q)
         /\ Unescaped(q)' = Unescaped(q)
         /\ \A t, record : (Scannable(t, record))' = Scannable(t, record)
<1>1. KnownColumns(Table(q))' = KnownColumns(Table(q)) /\ KnownKey(Table(q))' = KnownKey(Table(q))
  BY DEF KnownColumns, KnownKey
<1>2. /\ BadFields(Table(q), Body(q))' = BadFields(Table(q), Body(q))
      /\ Sends(q)' = Sends(q)
  BY <1>1 DEF BadFields, Sends
<1>3. KeyThrown(Table(q), Body(q))' = KeyThrown(Table(q), Body(q))
  BY <1>1 DEF KeyThrown
<1>4. Updated(Table(q), Body(q))' = Updated(Table(q), Body(q))
  BY <1>1 DEF Updated
<1>k. KeySent(Table(q), Body(q))' = KeySent(Table(q), Body(q))
  BY <1>1 DEF KeySent
<1>5. Inserted(Table(q), Body(q))' = Inserted(Table(q), Body(q))
  BY <1>1, <1>k DEF Inserted
<1>6. \A t, record : (Scannable(t, record))' = Scannable(t, record)
  BY DEF Scannable
<1>7. Unescaped(q)' = Unescaped(q)
  BY <1>1 DEF Unescaped, Table
<1> QED  BY <1>2, <1>3, <1>4, <1>k, <1>5, <1>6, <1>7

(* A table whose requests all mean what they say was one before, and the   *)
(* step did not write something else there.                                *)
LEMMA PlainBefore ==
  ASSUME NEW r \in Requests, Step(r), NEW t, Plain(t)'
  PROVE  Plain(t) /\ (Table(r) = t => ~Unescaped(r) /\ ~Rewrites(r))
<1>1. \A q \in Requests : Unescaped(q)' = Unescaped(q)
  BY StepMoves, SchemaStays
<1>2. \A q \in Requests : pc[q] # "idle" => pc'[q] # "idle"
  BY StepMoves DEF Step, Alone
<1>3. Plain(t)
  BY <1>1, <1>2 DEF Plain
<1>4. Table(r) = t => ~Unescaped(r)
  BY <1>1, StepMoves DEF Plain, Table
<1> QED  BY <1>3, <1>4 DEF Rewrites

-----------------------------------------------------------------------------
(* Types, and what a statement executes.                                   *)
LEMMA StepKeepsRoute ==
  ASSUME Types, RouteInv, NEW r \in Requests, Step(r)
  PROVE  RouteInv'
<1> SUFFICES ASSUME NEW q \in Requests PROVE RouteOf(q)'
  BY DEF RouteInv
<1>0. known' = known
  BY DEF Step, Alone
<1>1. CASE q # r
  <2>1. pc'[q] = pc[q] /\ stmt'[q] = stmt[q]
    BY <1>1 DEF Step, Alone
  <2> QED  BY <1>0, <2>1, SchemaStays DEF RouteInv, RouteOf
<1>2. CASE q = r
  <2>1. CASE GoesOn(r)
    BY <1>0, <1>2, <2>1, SchemaStays DEF GoesOn, Asks, RouteOf
  <2>2. CASE EndsRouting(r) \/ Passes(r) \/ Fails(r)
    BY <1>2, <2>2 DEF EndsRouting, Passes, Fails, RouteOf
  <2>3. CASE Opens(r)
    BY <1>0, <1>2, <2>3 DEF Opens, RouteInv, RouteOf
  <2>4. CASE Malformed(r) \/ Leaks(r) \/ Finishes(r)
    <3>1. pc'[r] = "reply"
      BY <2>4 DEF Malformed, Leaks, Finishes, Gives
    <3> QED  BY <1>2, <3>1 DEF RouteOf
  <2>5. CASE Deletes(r) \/ Inserts(r) \/ Updates(r) \/ Rewrites(r)
    <3>1. pc'[r] = "result" /\ Req[r].method \in {"PUT", "POST", "DELETE"} /\ Table(r) \in DOMAIN known
      BY <2>5 DEF Deletes, Inserts, Updates, Rewrites, Executed
    <3> QED  BY <1>0, <1>2, <3>1 DEF RouteOf
  <2> QED  BY <2>1, <2>2, <2>3, <2>4, <2>5 DEF Step
<1> QED  BY <1>1, <1>2

(* The answer of a request that does not end.                              *)
LEMMA StepAnswers ==
  ASSUME NEW r \in Requests, Step(r)
  PROVE  \/ answer'[r] = answer[r]
         \/ answer'[r].status \in {0, 200, 400, 404}
<1>1. CASE EndsRouting(r) \/ GoesOn(r) \/ Passes(r) \/ Fails(r) \/ Opens(r)
  BY <1>1 DEF EndsRouting, GoesOn, Passes, Fails, Opens
<1>2. CASE Malformed(r) \/ Leaks(r) \/ Finishes(r)
  <2>1. CASE Malformed(r) \/ Leaks(r)
    BY <2>1 DEF Malformed, Leaks, Gives
  <2>2. CASE Finishes(r)
    <3>1. \/ Gives(r, "notFound")
          \/ Gives(r, IF Req[r].id = {} THEN "records" ELSE "record")
      BY <2>2 DEF Finishes
    <3> QED  BY <3>1 DEF Gives
  <2> QED  BY <1>2, <2>1, <2>2
<1>3. CASE Deletes(r) \/ Inserts(r) \/ Updates(r) \/ Rewrites(r)
  BY <1>3 DEF Deletes, Inserts, Updates, Rewrites, Executed
<1> QED  BY <1>1, <1>2, <1>3 DEF Step

(* Only writes touch records.                                              *)
LEMMA StepKeepsRows ==
  ASSUME NEW r \in Requests, Step(r)
  PROVE  UNCHANGED <<rows, last>> \/ Deletes(r) \/ Inserts(r) \/ Updates(r) \/ Rewrites(r)
<1>1. CASE EndsRouting(r) \/ GoesOn(r) \/ Passes(r) \/ Fails(r) \/ Opens(r)
  BY <1>1 DEF EndsRouting, GoesOn, ComesIn, Passes, Fails, Opens
<1>2. CASE Malformed(r) \/ Leaks(r) \/ Finishes(r)
  <2>1. CASE Malformed(r) \/ Leaks(r)
    BY <2>1 DEF Malformed, Leaks, Gives
  <2>2. CASE Finishes(r)
    <3>1. \/ Gives(r, "notFound")
          \/ Gives(r, IF Req[r].id = {} THEN "records" ELSE "record")
      BY <2>2 DEF Finishes
    <3> QED  BY <3>1 DEF Gives
  <2> QED  BY <1>2, <2>1, <2>2
<1> QED  BY <1>1, <1>2 DEF Step

(* What is inserted or updated fits the columns.                           *)
LEMMA InsertFits ==
  ASSUME Types, NEW r \in Requests, Inserts(r)
  PROVE  Fits(Table(r), rows'[Table(r)][NextKey(r)])
<1> DEFINE t == Table(r)
           s == Inserted(t, Body(r))
           value(c) == IF c \in DOMAIN s.values THEN Value(t, "insert", s, c) ELSE Null
<1>1. /\ rows'[t][NextKey(r)] = [c \in DOMAIN Columns[t] |-> value(c)]
      /\ ~Refused(t, "insert", s) /\ t \in DOMAIN known
  BY DEF Inserts, Executed
<1>2. \A c \in DOMAIN s.values : IsValue(s.values[c])
  BY <1>1, InsertedFacts
<1>3. ASSUME NEW c \in DOMAIN Columns[t]
      PROVE \/ value(c) = Null /\ Columns[t][c].null
            \/ value(c).kind \in IF IsText(Columns[t][c].type) THEN {"string"} ELSE {"int", "fraction"}
  <2>1. CASE c \in DOMAIN s.values
    <3>1. /\ Accepted(Columns[t][c].type, Sent("insert", s.values[c]))
          /\ Sent("insert", s.values[c]).kind = "null" => Columns[t][c].null
      BY <1>1, <2>1 DEF Refused
    <3>2. value(c) = StoredAs(Columns[t][c].type, Sent("insert", s.values[c]))
      BY <2>1 DEF Value
    <3>3. IsValue(s.values[c])
      BY <1>2, <2>1
    <3> HIDE DEF value, s, t
    <3> QED  BY <3>1, <3>2, <3>3, StoredFits
  <2>2. CASE c \notin DOMAIN s.values
    <3>1. Columns[t][c].null
      BY <1>1, <2>2 DEF Refused, Unfilled
    <3> QED  BY <2>2, <3>1
  <2> QED  BY <2>1, <2>2
<1> HIDE DEF value, s
<1> QED  BY <1>1, <1>3 DEF Fits

(* What an UPDATE makes of a record fits the columns of its table.         *)
LEMMA UpdateFits ==
  ASSUME Types, NEW r \in Requests, Updates(r), NEW k \in DOMAIN rows[Table(r)]
  PROVE  Fits(Table(r), Changed(r, rows[Table(r)][k]))
<1> DEFINE t == Table(r)
           s == Updated(t, Body(r))
           value(c) == IF c \in DOMAIN s.values THEN Value(t, "update", s, c) ELSE rows[t][k][c]
<1>1. Changed(r, rows[t][k]) = [c \in DOMAIN Columns[t] |-> value(c)]
  BY DEF Changed
<1>2. ~Refused(t, "update", s) /\ t \in DOMAIN known /\ t \in Tables
  BY DEF Updates, Executed
<1>3. \A c \in DOMAIN s.values : IsValue(s.values[c])
  BY <1>2, UpdatedFacts
<1>4. Fits(t, rows[t][k])
  BY <1>2, TypeParts DEF RowTypes
<1>5. ASSUME NEW c \in DOMAIN Columns[t]
      PROVE \/ value(c) = Null /\ Columns[t][c].null
            \/ value(c).kind \in IF IsText(Columns[t][c].type) THEN {"string"} ELSE {"int", "fraction"}
  <2>1. CASE c \in DOMAIN s.values
    <3>1. /\ Accepted(Columns[t][c].type, Sent("update", s.values[c]))
          /\ Sent("update", s.values[c]).kind = "null" => Columns[t][c].null
      BY <1>2, <2>1 DEF Refused
    <3>2. value(c) = StoredAs(Columns[t][c].type, Sent("update", s.values[c]))
      BY <2>1 DEF Value
    <3>3. IsValue(s.values[c])
      BY <1>3, <2>1
    <3> HIDE DEF value, s, t
    <3> QED  BY <3>1, <3>2, <3>3, StoredFits
  <2>2. CASE c \notin DOMAIN s.values
    <3>1. value(c) = rows[t][k][c]
      BY <2>2
    <3> HIDE DEF value
    <3> QED  BY <1>4, <3>1 DEF Fits
  <2> QED  BY <2>1, <2>2
<1> HIDE DEF value, s
<1> QED  BY <1>1, <1>5 DEF Fits

(* A step keeps the types: records fit their columns, failures are         *)
(* bounded.                                                                *)
LEMMA StepKeepsTypes ==
  ASSUME Types, KeyInv, NEW r \in Requests, Step(r)
  PROVE  Types'
<1>0. OwnTypes /\ AnswerTypes /\ RowTypes /\ FailTypes /\ KnownTypes
  BY TypeParts
<1>1. OwnTypes' /\ KnownTypes'
  BY <1>0 DEF Step, Alone, KnownTypes
<1>2. AnswerTypes'
  <2>1. \A q \in Requests \ {r} : answer'[q] = answer[q]
    BY DEF Step, Alone
  <2> QED  BY <1>0, <2>1, StepAnswers DEF AnswerTypes
<1>3. FailTypes'
  <2>1. CASE failed' = failed
    BY <1>0, <2>1 DEF FailTypes
  <2>2. CASE Fault(r)
    <3>1. Cardinality(failed) < MaxFailures /\ r \notin failed /\ failed' = failed \cup {r}
      BY <2>2 DEF Fault
    <3>2. IsFiniteSet(failed') /\ Cardinality(failed') = Cardinality(failed) + 1
      BY <1>0, <3>1, FS_AddElement DEF FailTypes
    <3>3. Cardinality(failed) \in Nat /\ MaxFailures \in Nat
      BY <1>0, FS_CardinalityType, DbExplorerAssumption DEF FailTypes
    <3>4. Cardinality(failed') <= MaxFailures
      BY <3>1, <3>2, <3>3
    <3> QED  BY <1>0, <3>1, <3>2, <3>4 DEF FailTypes
  <2> QED  BY <2>1, <2>2 DEF Step
<1>4. RowTypes'
  <2> DEFINE t == Table(r)
  <2>0. /\ DOMAIN rows = Tables /\ last \in [Tables -> Nat]
        /\ \A u \in Tables : IsFunction(rows[u])
        /\ \A u \in Tables : \A k \in DOMAIN rows[u] : Fits(u, rows[u][k])
    BY <1>0 DEF RowTypes
  <2>1. CASE UNCHANGED <<rows, last>>
    BY <2>0, <2>1 DEF RowTypes, IsFunction
  <2>2. ASSUME OtherTables(r), t \in Tables, last' \in [Tables -> Nat], IsFunction(rows'[t]),
               \A k \in DOMAIN rows'[t] : Fits(t, rows'[t][k])
        PROVE RowTypes'
    <3>1. \A u \in Tables \ {t} : rows'[u] = rows[u]
      BY <2>2 DEF OtherTables
    <3>2. \A u \in Tables : \A k \in DOMAIN rows'[u] : Fits(u, rows'[u][k])
      <4> HIDE DEF t
      <4> QED  BY <2>0, <2>2, <3>1
    <3>3. \A u \in Tables : IsFunction(rows'[u])
      <4> HIDE DEF t
      <4> QED  BY <2>0, <2>2, <3>1
    <3> QED  BY <2>2, <3>2, <3>3 DEF RowTypes, OtherTables, IsFunction
  <2>3. CASE Deletes(r)
    <3>1. /\ OtherTables(r) /\ t \in Tables /\ last' = last /\ IsFunction(rows'[t])
          /\ DOMAIN rows'[t] \subseteq DOMAIN rows[t]
          /\ \A k \in DOMAIN rows'[t] : rows'[t][k] = rows[t][k]
      BY <2>3 DEF Deletes, Executed
    <3> QED  BY <2>0, <2>2, <3>1
  <2>4. CASE Inserts(r)
    <3> DEFINE k == NextKey(r)
    <3>1. /\ OtherTables(r) /\ t \in Tables /\ IsFunction(rows'[t])
          /\ DOMAIN rows'[t] = DOMAIN rows[t] \cup {k}
          /\ \A j \in DOMAIN rows[t] : rows'[t][j] = rows[t][j]
          /\ last' = [last EXCEPT ![t] = IF t \in AutoKeys THEN k ELSE @]
      BY <2>4 DEF Inserts, Executed
    <3>2. Fits(t, rows'[t][k])
      BY <2>4, InsertFits
    <3>3. k \in Nat
      BY <2>0, <3>1 DEF NextKey, NewKey
    <3> HIDE DEF t, k
    <3>4. last' \in [Tables -> Nat]
      BY <2>0, <3>1, <3>3
    <3>5. \A j \in DOMAIN rows'[t] : Fits(t, rows'[t][j])
      BY <2>0, <3>1, <3>2
    <3> QED  BY <2>2, <3>1, <3>4, <3>5 DEF t
  <2>5. CASE Updates(r)
    <3>1. /\ OtherTables(r) /\ t \in Tables /\ last' = last /\ IsFunction(rows'[t])
          /\ DOMAIN rows'[t] = DOMAIN rows[t]
          /\ \A k \in DOMAIN rows[t] :
               rows'[t][k] = IF k \in Req[r].id THEN Changed(r, rows[t][k]) ELSE rows[t][k]
      BY <2>5 DEF Updates, Executed
    <3>2. \A k \in DOMAIN rows[t] : Fits(t, Changed(r, rows[t][k]))
      BY <2>5, UpdateFits
    <3>3. \A k \in DOMAIN rows'[t] : Fits(t, rows'[t][k])
      BY <2>0, <3>1, <3>2
    <3> QED  BY <2>0, <2>2, <3>1, <3>3
  <2>6. CASE Rewrites(r)
    <3>1. /\ OtherTables(r) /\ t \in Tables /\ IsFunction(rows'[t]) /\ last' \in [Tables -> Nat]
          /\ \A k \in DOMAIN rows'[t] : Fits(t, rows'[t][k])
      BY <2>6 DEF Rewrites, Executed
    <3> QED  BY <2>2, <3>1
  <2> QED  BY <2>1, <2>3, <2>4, <2>5, <2>6, StepKeepsRows
<1> QED
  BY <1>1, <1>2, <1>3, <1>4
     DEF Types, TypeOK, OwnTypes, AnswerTypes, RowTypes, FailTypes, KnownTypes, IsFunction

(* Keys come from the counter of the table.                                *)
LEMMA StepKeepsKeys ==
  ASSUME Types, KeyInv, NEW r \in Requests, Step(r)
  PROVE  /\ KeyInv'
         /\ \A t \in Tables : last[t] <= last'[t]
<1> DEFINE t == Table(r)
<1>0. /\ last \in [Tables -> Nat] /\ AutoKeys \subseteq Tables
      /\ \A u \in AutoKeys : Plain(u)' => /\ DOMAIN rows[u] \subseteq 1..last[u]
                                          /\ Table(r) = u => ~Rewrites(r)
  BY TypeParts, PlainBefore, DbExplorerAssumption DEF RowTypes, KeyInv
<1>1. CASE UNCHANGED <<rows, last>>
  BY <1>0, <1>1 DEF KeyInv
<1>2. CASE Deletes(r) \/ Updates(r)
  <2>1. last' = last /\ OtherTables(r) /\ DOMAIN rows'[t] \subseteq DOMAIN rows[t]
    BY <1>2 DEF Deletes, Updates, Executed
  <2>2. \A u \in AutoKeys : Plain(u)' => DOMAIN rows'[u] \subseteq 1..last'[u]
    <3> HIDE DEF t
    <3> QED  BY <1>0, <2>1 DEF OtherTables, t
  <2>3. \A u \in Tables : last[u] <= last'[u]
    BY <1>0, <2>1
  <2> QED  BY <2>2, <2>3 DEF KeyInv
<1>3. CASE Inserts(r)
  <2>1. /\ last' = [last EXCEPT ![t] = IF t \in AutoKeys THEN NextKey(r) ELSE @] /\ OtherTables(r)
        /\ t \in Tables /\ DOMAIN rows'[t] = DOMAIN rows[t] \cup {NextKey(r)}
    BY <1>3 DEF Inserts, Executed
  <2>2. t \in AutoKeys => NextKey(r) = last[t] + 1
    BY DEF NextKey, NewKey
  <2> HIDE DEF t
  <2>3. \A u \in Tables \ {t} : rows'[u] = rows[u] /\ last'[u] = last[u]
    BY <1>0, <2>1 DEF OtherTables, t
  <2>4. last'[t] = IF t \in AutoKeys THEN last[t] + 1 ELSE last[t]
    BY <1>0, <2>1, <2>2
  <2>5. \A u \in Tables : last[u] <= last'[u]
    BY <1>0, <2>3, <2>4
  <2>6. \A u \in AutoKeys : Plain(u)' => DOMAIN rows'[u] \subseteq 1..last'[u]
    <3> SUFFICES ASSUME NEW u \in AutoKeys, Plain(u)' PROVE DOMAIN rows'[u] \subseteq 1..last'[u]
      OBVIOUS
    <3>1. CASE u # t
      BY <1>0, <2>3, <3>1
    <3>2. CASE u = t
      <4>1. DOMAIN rows[t] \subseteq 1..last[t] /\ last[t] \in Nat
        BY <1>0, <3>2
      <4>2. DOMAIN rows'[t] = DOMAIN rows[t] \cup {last[t] + 1} /\ last'[t] = last[t] + 1
        BY <2>1, <2>2, <2>4, <3>2
      <4> QED  BY <3>2, <4>1, <4>2
    <3> QED  BY <3>1, <3>2
  <2> QED  BY <2>5, <2>6 DEF KeyInv
<1>4. CASE Rewrites(r)
  <2>1. OtherTables(r) /\ \A u \in Tables : last[u] <= last'[u] /\ last'[u] \in Nat
    BY <1>4 DEF Rewrites, Executed
  <2>2. ASSUME NEW u \in AutoKeys, Plain(u)' PROVE DOMAIN rows'[u] \subseteq 1..last'[u]
    <3>1. DOMAIN rows[u] \subseteq 1..last[u] /\ rows'[u] = rows[u]
      BY <1>0, <1>4, <2>1, <2>2 DEF OtherTables
    <3>2. last[u] \in Nat /\ last'[u] \in Nat /\ last[u] <= last'[u]
      BY <1>0, <2>1
    <3>3. \A k \in 1..last[u] : k \in 1..last'[u]
      BY <3>2
    <3> QED  BY <3>1, <3>3
  <2> QED  BY <2>1, <2>2 DEF KeyInv
<1> QED  BY <1>1, <1>2, <1>3, <1>4, StepKeepsRows

-----------------------------------------------------------------------------
(* Who keeps a connection, and what is answered.                           *)
LEMMA StepKeepsConn ==
  ASSUME Types, ConnInv, NEW r \in Requests, Step(r)
  PROVE  ConnInv'
<1> SUFFICES ASSUME NEW q \in conns'
             PROVE pc'[q] = "scan" \/ (pc'[q] \in {"reply", "done"} /\ Stuck(q)')
  BY DEF ConnInv
<1>0. known' = known /\ q \in Requests /\ OwnTypes
  BY TypeParts DEF Step, Alone, OwnTypes
<1>1. found'[q] = found[q] => Stuck(q)' = Stuck(q)
  BY <1>0 DEF Stuck, Scannable
<1>2. CASE q # r
  <2>1. pc'[q] = pc[q] /\ found'[q] = found[q] /\ q \in conns
    BY <1>0, <1>2 DEF Step, Alone
  <2> QED  BY <1>1, <2>1 DEF ConnInv
<1>3. CASE q = r
  <2>1. CASE EndsRouting(r) \/ GoesOn(r) \/ Passes(r) \/ Fails(r)
    <3>1. q \in conns /\ pc[q] # "scan" /\ found' = found
          /\ (pc[q] \in {"reply", "done"} => pc'[q] \in {"reply", "done"})
      BY <1>3, <2>1 DEF EndsRouting, GoesOn, ComesIn, Passes, Fails
    <3> QED  BY <1>1, <3>1 DEF ConnInv
  <2>2. CASE Opens(r)
    BY <1>3, <2>2 DEF Opens
  <2>3. CASE Malformed(r)
    <3>1. pc[q] = "select" /\ q \in conns
      BY <1>3, <2>3 DEF Malformed
    <3> QED  BY <3>1 DEF ConnInv
  <2>4. CASE Leaks(r)
    <3>1. pc'[q] = "reply" /\ found' = found /\ Stuck(q)
      BY <1>3, <2>4 DEF Leaks, Gives
    <3> QED  BY <1>1, <3>1
  <2>5. CASE Finishes(r)
    BY <1>3, <2>5 DEF Finishes
  <2>6. CASE Deletes(r) \/ Inserts(r) \/ Updates(r) \/ Rewrites(r)
    <3>1. pc[q] \in {"delete", "insert", "update"} /\ q \in conns
      BY <1>3, <2>6 DEF Deletes, Inserts, Updates, Rewrites, Executed
    <3> QED  BY <3>1 DEF ConnInv
  <2> QED  BY <2>1, <2>2, <2>3, <2>4, <2>5, <2>6 DEF Step
<1> QED  BY <1>2, <1>3

(* A SELECT that finishes answers the records, the record, or that there   *)
(* is none; a statement on one id at most concerns one record at most.     *)
LEMMA Finishing ==
  ASSUME NEW r \in Requests, Finishes(r)
  PROVE  /\ pc[r] = "scan" /\ pc'[r] = "reply" /\ after'[r] = after[r]
         /\ UNCHANGED <<rows, last, found>>
         /\ answer'[r].kind \in {"records", "record", "notFound"}
         /\ answer'[r].kind = "record" => DOMAIN found[r] # {}
<1>1. \/ Gives(r, "notFound")
      \/ Gives(r, IF Req[r].id = {} THEN "records" ELSE "record") /\ DOMAIN found[r] # {}
  BY DEF Finishes
<1>2. pc[r] = "scan"
  BY DEF Finishes
<1>3. /\ pc'[r] = "reply" /\ after'[r] = after[r] /\ UNCHANGED <<rows, last, found>>
  BY <1>1 DEF Gives
<1>4. CASE Gives(r, "notFound")
  BY <1>2, <1>3, <1>4 DEF Gives
<1>5. CASE Gives(r, IF Req[r].id = {} THEN "records" ELSE "record") /\ DOMAIN found[r] # {}
  BY <1>2, <1>3, <1>5 DEF Gives
<1> QED  BY <1>1, <1>4, <1>5

(* A request names one id at most: a set of its ids is empty or all of     *)
(* them.                                                                   *)
LEMMA OneAtMost ==
  ASSUME NEW r \in Requests, NEW S, S \subseteq Req[r].id
  PROVE  /\ IsFiniteSet(S) /\ Cardinality(S) \in {0, 1}
         /\ S = {} <=> Cardinality(S) = 0
         /\ S # {} => S = Req[r].id
<1>1. \A i, j \in Req[r].id : i = j
  BY RequestsAssumption
<1>2. CASE S = {}
  BY <1>2, FS_EmptySet
<1>3. CASE S # {}
  <2>1. PICK k : k \in S
    BY <1>3
  <2>2. S = {k} /\ Req[r].id = {k}
    BY <1>1, <2>1
  <2>3. IsFiniteSet({k}) /\ Cardinality({k}) = 1
    BY FS_Singleton
  <2> QED  BY <1>3, <2>2, <2>3
<1> QED  BY <1>2, <1>3

(* A request is answered by its own statement, and who comes in later      *)
(* comes in after the end of those it is told of.                          *)
LEMMA StepKeepsAnswer ==
  ASSUME Types, RouteInv, AnswerInv, NEW r \in Requests, Step(r)
  PROVE  AnswerInv'
<1> SUFFICES ASSUME NEW q \in Requests PROVE AnswerOf(q)'
  BY DEF AnswerInv
<1>0. known' = known /\ AnswerOf(q) /\ RouteOf(r) /\ Unescaped(q)' = Unescaped(q)
  BY StepMoves, SchemaStays DEF AnswerInv, RouteInv
<1>m. /\ pc[r] \notin {"done", "dropped"} /\ pc'[r] # "idle"
      /\ pc[r] # "idle" => after'[r] = after[r]
      /\ pc[r] = "idle" => after'[r] = {p \in Requests : pc[p] = "done"}
      /\ \A p \in Requests \ {r} : pc'[p] = pc[p] /\ after'[p] = after[p]
  BY StepMoves DEF Step, Alone
<1>1. \A p \in after'[q] : p \in Requests /\ pc'[p] = "done" /\ pc'[q] # "idle"
  <2>1. CASE q # r \/ pc[r] # "idle"
    <3>1. after'[q] = after[q]
      BY <1>m, <2>1
    <3>2. \A p \in after[q] : p \in Requests /\ pc[p] = "done" /\ pc[q] # "idle"
      BY <1>0 DEF AnswerOf
    <3> QED  BY <1>m, <3>1, <3>2
  <2>2. CASE q = r /\ pc[r] = "idle"
    BY <1>m, <2>2
  <2> QED  BY <2>1, <2>2
<1>2. CASE q # r
  <2>1. pc'[q] = pc[q] /\ answer'[q] = answer[q] /\ found'[q] = found[q]
    BY <1>2 DEF Step, Alone
  <2> QED  BY <1>0, <1>1, <2>1 DEF AnswerOf
<1>3. CASE q = r
  <2>0. AnswerOf(r)
    BY <1>0, <1>3
  <2>1. CASE EndsRouting(r)
    BY <1>1, <1>3, <2>0, <2>1 DEF EndsRouting, ComesIn, AnswerOf
  <2>2. CASE GoesOn(r)
    BY <1>1, <1>3, <2>0, <2>2 DEF GoesOn, Asks, ComesIn, AnswerOf
  <2>3. CASE Passes(r)
    BY <1>0, <1>1, <1>3, <2>0, <2>3 DEF Passes, AnswerOf
  <2>4. CASE Fails(r)
    BY <1>1, <1>3, <2>0, <2>4 DEF Fails, AnswerOf
  <2>5. CASE Opens(r)
    BY <1>1, <1>3, <2>0, <2>5 DEF Opens, AnswerOf
  <2>6. CASE Malformed(r) \/ Leaks(r)
    BY <1>1, <1>3, <2>6 DEF Malformed, Leaks, Gives, AnswerOf
  <2>7. CASE Finishes(r)
    BY <1>1, <1>3, <2>7, Finishing DEF AnswerOf
  <2>8. CASE Deletes(r)
    <3>1. answer'[r].value \in {0, 1} /\ pc'[r] = "result" /\ answer'[r].kind = "deleted"
      BY <2>8, OneAtMost DEF Deletes, Executed
    <3> QED  BY <1>1, <1>3, <3>1 DEF AnswerOf
  <2>9. CASE Inserts(r) \/ Updates(r)
    <3>1. /\ answer'[r].kind \in {"id", "updated"} /\ pc'[r] = "result" /\ Table(r) \in DOMAIN known
          /\ Req[r].method \in {"PUT", "POST"}
      BY <2>9 DEF Inserts, Updates, Executed
    <3> QED  BY <1>0, <1>1, <1>3, <3>1 DEF AnswerOf
  <2>10. CASE Rewrites(r)
    <3>1. /\ pc'[r] = "result" /\ Table(r) \in DOMAIN known /\ Unescaped(r)
          /\ \/ answer'[r].kind = "updated" /\ Req[r].method = "POST"
             \/ answer'[r].kind = "deleted"
      BY <2>10 DEF Rewrites, Executed
    <3> QED  BY <1>0, <1>1, <1>3, <3>1 DEF AnswerOf
  <2> QED  BY <2>1, <2>2, <2>3, <2>4, <2>5, <2>6, <2>7, <2>8, <2>9, <2>10 DEF Step
<1> QED  BY <1>2, <1>3

-----------------------------------------------------------------------------
(* A record is deleted once.                                               *)
LEMMA StepKeepsDelete ==
  ASSUME Types, RouteInv, KeyInv, AnswerInv, DeleteInv, NEW r \in Requests, Step(r)
  PROVE  DeleteInv'
<1>0. /\ last \in [Tables -> Nat] /\ AutoKeys \subseteq Tables /\ DOMAIN rows = Tables
      /\ known' = known
      /\ \A q \in Requests \ {r} : /\ pc'[q] = pc[q] /\ found'[q] = found[q]
                                   /\ answer'[q] = answer[q] /\ after'[q] = after[q]
  BY TypeParts, DbExplorerAssumption DEF RowTypes, Step, Alone
<1>k. KeyInv' /\ \A t \in Tables : last[t] <= last'[t] /\ last'[t] \in Nat
  <2>1. last' \in [Tables -> Nat]
    BY StepKeepsTypes DEF Types, TypeOK
  <2> QED  BY <2>1, StepKeepsKeys
<1> SUFFICES ASSUME NEW d \in Requests, Deleter(d)'
             PROVE  (/\ Req[d].id # {} /\ Req[d].id \subseteq 1..last[Table(d)]
                     /\ Req[d].id \cap DOMAIN rows[Table(d)] = {}
                     /\ \A q \in Requests \ {d} : Same(q, d) => After(q, d))'
  BY DEF DeleteInv
<1> DEFINE t == Table(d)
           id == Req[d].id
<1>t. /\ t \in AutoKeys /\ t \in Tables /\ Plain(t)
      /\ Table(r) = t => ~Unescaped(r) /\ ~Rewrites(r)
  <2>1. Plain(t)' /\ t \in AutoKeys
    BY DEF Deleter, Table
  <2> QED  BY <1>0, <2>1, PlainBefore
<1>1. CASE Deleter(d)
  <2>0. /\ id # {} /\ id \subseteq 1..last[t] /\ id \cap DOMAIN rows[t] = {}
        /\ \A q \in Requests \ {d} : Same(q, d) => After(q, d)
    BY <1>1 DEF DeleteInv
  <2>1. id \subseteq 1..last'[t]
    <3>1. last[t] \in Nat /\ last'[t] \in Nat /\ last[t] <= last'[t]
      BY <1>0, <1>k, <1>t
    <3>2. \A k \in 1..last[t] : k \in 1..last'[t]
      BY <3>1
    <3> QED  BY <2>0, <3>2
  <2>2. id \cap DOMAIN rows'[t] = {}
    <3>1. CASE rows' = rows \/ t # Table(r)
      <4>1. rows'[t] = rows[t]
        <5>1. rows' = rows \/ OtherTables(r)
          BY StepKeepsRows DEF Deletes, Inserts, Updates, Rewrites, Executed
        <5> QED  BY <1>t, <3>1, <5>1 DEF OtherTables
      <4> QED  BY <2>0, <4>1
    <3>2. CASE t = Table(r) /\ (Deletes(r) \/ Updates(r))
      <4>1. DOMAIN rows'[t] \subseteq DOMAIN rows[t]
        BY <3>2 DEF Deletes, Updates
      <4> QED  BY <2>0, <4>1
    <3>3. CASE t = Table(r) /\ Inserts(r)
      <4>1. DOMAIN rows'[t] = DOMAIN rows[t] \cup {NextKey(r)}
        BY <3>3 DEF Inserts
      <4>2. NextKey(r) = last[t] + 1 /\ last[t] \in Nat
        BY <1>0, <1>t, <3>3 DEF NextKey, NewKey
      <4>3. last[t] + 1 \notin 1..last[t]
        BY <4>2
      <4> QED  BY <2>0, <4>1, <4>2, <4>3
    <3> QED  BY <1>t, <3>1, <3>2, <3>3, StepKeepsRows
  <2>3. ASSUME NEW q \in Requests \ {d}, Same(q, d) PROVE After(q, d)'
    <3>0. After(q, d) /\ AnswerOf(q)
      BY <2>0, <2>3 DEF AnswerInv
    <3>1. CASE q # r
      BY <1>0, <3>0, <3>1 DEF After
    <3>2. CASE q = r
      <4>0. Req[r].id = id /\ Table(r) = t /\ After(r, d) /\ AnswerOf(r)
        BY <2>3, <3>0, <3>2 DEF Same
      <4>1. CASE EndsRouting(r)
        BY <3>2, <4>0, <4>1 DEF EndsRouting, ComesIn, After, AnswerOf
      <4>2. CASE GoesOn(r)
        BY <3>2, <4>0, <4>2 DEF GoesOn, Asks, ComesIn, After, AnswerOf
      <4>3. CASE Passes(r)
        BY <3>2, <4>0, <4>3 DEF Passes, After
      <4>4. CASE Fails(r)
        BY <3>2, <4>4 DEF Fails, After
      <4>5. CASE Opens(r)
        <5>1. /\ answer'[r] = answer[r] /\ after'[r] = after[r]
              /\ found'[r] = [k \in id \cap DOMAIN rows[t] |-> rows[t][k]]
          BY <2>0, <4>0, <4>5 DEF Opens
        <5>2. DOMAIN found'[r] = {}
          BY <2>0, <5>1
        <5> QED  BY <3>2, <4>0, <5>1, <5>2 DEF After
      <4>6. CASE Malformed(r) \/ Leaks(r)
        BY <3>2, <4>6 DEF Malformed, Leaks, Gives, After
      <4>7. CASE Finishes(r)
        BY <3>2, <4>0, <4>7, Finishing DEF After
      <4>8. CASE Deletes(r)
        <5>1. /\ answer'[r].kind = "deleted" /\ pc'[r] = "result"
              /\ answer'[r].value = Cardinality(id \cap DOMAIN rows[t])
          BY <4>0, <4>8 DEF Deletes, Executed
        <5>2. answer'[r].value = 0
          BY <2>0, <5>1, FS_EmptySet
        <5> QED  BY <3>2, <5>1, <5>2 DEF After
      <4>9. CASE Inserts(r)
        <5>1. answer'[r].kind = "id" /\ pc'[r] = "result"
          BY <4>9 DEF Inserts, Executed
        <5> QED  BY <3>2, <5>1 DEF After
      <4>10. CASE Updates(r)
        <5>1. /\ answer'[r].kind = "updated" /\ pc'[r] = "result"
              /\ answer'[r].value = Cardinality(Differs(r))
          BY <4>0, <4>10 DEF Updates, Executed
        <5>2. Differs(r) = {}
          BY <2>0, <4>0 DEF Differs
        <5>3. answer'[r].value = 0
          BY <5>1, <5>2, FS_EmptySet
        <5> QED  BY <3>2, <5>1, <5>3 DEF After
      <4> QED  BY <1>t, <4>0, <4>1, <4>2, <4>3, <4>4, <4>5, <4>6, <4>7, <4>8, <4>9, <4>10 DEF Step
    <3> QED  BY <3>1, <3>2
  <2> QED  BY <2>0, <2>1, <2>2, <2>3 DEF Same, Table
<1>2. CASE ~Deleter(d)
  <2>1. d = r /\ Deletes(r) /\ answer'[r].value = 1
    <3>0. t \in AutoKeys /\ answer'[d].kind = "deleted" /\ answer'[d].value = 1 /\ answer'[d] # answer[d]
      BY <1>2, <1>t DEF Deleter
    <3>1. d = r
      BY <1>0, <3>0
    <3>2. ~(EndsRouting(r) \/ GoesOn(r) \/ Passes(r) \/ Fails(r) \/ Opens(r) \/ Malformed(r) \/ Leaks(r))
      <4>1. AnswerOf(r)
        BY DEF AnswerInv
      <4> QED  BY <3>0, <3>1, <4>1
            DEF EndsRouting, GoesOn, Passes, Fails, Opens, Malformed, Leaks, Gives, ComesIn, AnswerOf
    <3>3. ~(Finishes(r) \/ Inserts(r) \/ Updates(r))
      BY <3>0, <3>1, Finishing DEF Inserts, Updates, Executed
    <3> QED  BY <1>t, <3>0, <3>1, <3>2, <3>3 DEF Step
  <2>2. /\ answer'[d].value = Cardinality(id \cap DOMAIN rows[t]) /\ DOMAIN rows'[t] = DOMAIN rows[t] \ id
        /\ last' = last /\ pc'[d] = "result" /\ id # {}
    BY <2>1 DEF Deletes, Executed
  <2>3. id \cap DOMAIN rows[t] # {} /\ id \subseteq DOMAIN rows[t]
    <3>1. id \cap DOMAIN rows[t] # {}
      <4>1. Cardinality(id \cap DOMAIN rows[t]) = 1 /\ Cardinality({}) = 0
        BY <2>1, <2>2, FS_EmptySet
      <4> QED  BY <4>1
    <3>2. \A S : S \subseteq id /\ S # {} => S = id
      BY OneAtMost
    <3>3. id \cap DOMAIN rows[t] = id
      BY <3>1, <3>2
    <3> QED  BY <3>1, <3>3
  <2>4. id \subseteq 1..last'[t] /\ id \cap DOMAIN rows'[t] = {}
    BY <1>t, <2>2, <2>3 DEF KeyInv
  <2>5. ASSUME NEW q \in Requests \ {d}, Same(q, d) PROVE After(q, d)'
    <3>0. AnswerOf(q) /\ answer'[q] = answer[q] /\ after'[q] = after[q]
      BY <1>0, <2>1 DEF AnswerInv
    <3>1. d \notin after[q]
      BY <2>1, <3>0 DEF AnswerOf, Deletes
    <3>u. answer[q].kind = "deleted" => answer[q].value \in {0, 1}
      <4>1. answer[q].kind = "deleted" => pc[q] # "idle"
        BY <3>0 DEF AnswerOf
      <4>2. pc[q] # "idle" => ~Unescaped(q)
        BY <1>t, <2>5 DEF Same, Plain, Table
      <4> QED  BY <3>0, <4>1, <4>2 DEF AnswerOf
    <3>2. ASSUME answer[q].kind = "deleted", answer[q].value = 1 PROVE FALSE
      <4>1. Table(q) = t /\ Req[q].id = id
        BY <2>5 DEF Same
      <4>2. Deleter(q)
        BY <1>t, <3>2, <4>1 DEF Deleter
      <4> QED  BY <2>3, <4>1, <4>2 DEF DeleteInv
    <3> QED  BY <3>0, <3>1, <3>u, <3>2 DEF After
  <2> QED  BY <2>2, <2>4, <2>5 DEF Same, Table
<1> QED  BY <1>1, <1>2

-----------------------------------------------------------------------------
(* Reasonable requests are answered: what their body asks for is never     *)
(* refused by the database.                                                *)
LEMMA ReasonableFacts ==
  ASSUME NEW r \in Requests, Reasonable(r)
  PROVE  /\ Table(r) \in AutoKeys /\ Table(r) \in Tables /\ known = Whole
         /\ KnownColumns(Table(r)) = DOMAIN Columns[Table(r)]
         /\ KnownKey(Table(r)) = {Key[Table(r)]} /\ Plain(Table(r))
         /\ \A c \in DOMAIN Columns[Table(r)] : IsText(Columns[Table(r)][c].type)
<1>1. /\ Table(r) \in AutoKeys /\ known = Whole /\ Plain(Table(r))
      /\ \A c \in DOMAIN Columns[Table(r)] : IsText(Columns[Table(r)][c].type)
  BY DEF Reasonable, Table
<1>2. Table(r) \in Tables /\ Key[Table(r)] \notin DOMAIN Columns[Table(r)]
  BY <1>1, DbExplorerAssumption
<1>3. known[Table(r)] = {Key[Table(r)]} \cup DOMAIN Columns[Table(r)]
  BY <1>1, <1>2 DEF Whole
<1> QED  BY <1>1, <1>2, <1>3 DEF KnownColumns, KnownKey

(* A value that passed the checks is null only where null is allowed.      *)
LEMMA NullWasChecked ==
  ASSUME NEW t, NEW body, BadFields(t, body) = {}, NEW c \in DOMAIN body \cap KnownColumns(t),
         NEW op, Sent(op, body[c]).kind = "null", IsValue(body[c])
  PROVE  Columns[t][c].null
<1>1. body[c].kind = "null"
  <2>1. body[c].kind \in {"string", "int", "fraction", "bool", "nested", "null"}
    <3>1. Null.kind = "null"
      BY DEF Null
    <3> QED  BY <3>1 DEF IsValue
  <2> QED  BY <2>1 DEF Sent
<1>2. ValidField(body[c], Columns[t][c])
  BY DEF BadFields
<1> QED  BY <1>1, <1>2 DEF ValidField, AcceptsNull

(* The database refuses no INSERT of a reasonable request.                 *)
LEMMA InsertGoesThrough ==
  ASSUME Types, KeyInv, NEW r \in Requests, Reasonable(r), Req[r].method = "PUT",
         BadFields(Table(r), Body(r)) = {}
  PROVE  /\ ~Refused(Table(r), "insert", Inserted(Table(r), Body(r)))
         /\ NextKey(r) \notin DOMAIN rows[Table(r)]
<1> DEFINE t == Table(r)
           body == Body(r)
           given  == DOMAIN body \cap KnownColumns(t)
           filled == {c \in KnownColumns(t) \ given : ~Columns[t][c].null}
           blank(c) == IF IsText(Columns[t][c].type) THEN NoText ELSE Zero
           typed  == {c \in filled : IsText(Columns[t][c].type) \/ IsInt(Columns[t][c].type)
                                     \/ Columns[t][c].type = "float"}
           s == Inserted(t, body)
<1>1. /\ t \in AutoKeys /\ t \in Tables /\ known = Whole
      /\ KnownColumns(t) = DOMAIN Columns[t] /\ KnownKey(t) = {Key[t]} /\ Plain(t)
      /\ \A c \in DOMAIN Columns[t] : IsText(Columns[t][c].type)
  BY ReasonableFacts
<1>2. s = [values  |-> [c \in given \cup typed |-> IF c \in given THEN body[c] ELSE blank(c)],
           missing |-> filled \ typed,
           key |-> {body[c] : c \in KeySent(t, body)}]
  BY DEF Inserted
<1>3. filled = typed
  BY <1>1
<1>4. /\ s.missing = {} /\ DOMAIN s.values = given \cup filled
      /\ \A c \in given : s.values[c] = body[c]
      /\ \A c \in filled \ given : s.values[c] = NoText
  <2>1. s.missing = filled \ typed
    BY <1>2
  <2>2. s.values = [c \in given \cup typed |-> IF c \in given THEN body[c] ELSE blank(c)]
    BY <1>2
  <2>3. \A c \in filled : blank(c) = NoText
    BY <1>1
  <2> HIDE DEF s, given, filled, typed, blank
  <2> QED  BY <1>3, <2>1, <2>2, <2>3
<1>5. ~Unfilled(t, "insert", s)
  <2>1. \A c \in DOMAIN Columns[t] \ DOMAIN s.values : Columns[t][c].null
    BY <1>1, <1>4
  <2> QED  BY <1>1, <2>1 DEF Unfilled
<1>k. s.key = {}
  <2>1. KeySent(t, body) = {}
    BY <1>1 DEF KeySent
  <2> QED  BY <1>2, <2>1
<1>6. ASSUME NEW c \in DOMAIN s.values
      PROVE /\ Accepted(Columns[t][c].type, Sent("insert", s.values[c]))
            /\ Sent("insert", s.values[c]).kind = "null" => Columns[t][c].null
  <2>1. c \in DOMAIN Columns[t]
    BY <1>1, <1>4, <1>6
  <2>3. CASE c \in given
    <3>1. s.values[c] = body[c] /\ IsValue(body[c])
      BY <1>4, <2>3, RequestsAssumption DEF Body
    <3>2. Sent("insert", body[c]).kind # "nested" /\ Sent("insert", body[c]).v \notin Unfit
      BY <2>1, <2>3 DEF Reasonable, Table
    <3> HIDE DEF s
    <3>3. Accepted(Columns[t][c].type, Sent("insert", s.values[c]))
      BY <1>1, <2>1, <3>1, <3>2 DEF Accepted
    <3> QED  BY <2>3, <3>1, <3>3, NullWasChecked
  <2>4. CASE c \in filled \ given
    <3>1. s.values[c] = NoText
      BY <1>4, <2>4
    <3>2. Sent("insert", NoText).kind = "string" /\ Sent("insert", NoText).v = ""
      BY DEF Sent, NoText
    <3>3. "" \notin Unfit
      BY DbExplorerAssumption
    <3> HIDE DEF s
    <3> QED  BY <1>1, <2>1, <3>1, <3>2, <3>3 DEF Accepted
  <2> QED  BY <1>4, <1>6, <2>3, <2>4
<1>7. ~Refused(t, "insert", s)
  <2> HIDE DEF s
  <2> QED  BY <1>4, <1>5, <1>k, <1>6 DEF Refused
<1>8. NextKey(r) \notin DOMAIN rows[t]
  <2>1. NextKey(r) = last[t] + 1 /\ last[t] \in Nat /\ DOMAIN rows[t] \subseteq 1..last[t]
    BY <1>1, TypeParts DEF NextKey, NewKey, KeyInv, RowTypes
  <2>2. last[t] + 1 \notin 1..last[t]
    BY <2>1
  <2> QED  BY <2>1, <2>2
<1> QED  BY <1>7, <1>8

(* The database refuses no UPDATE of a reasonable request.                 *)
LEMMA UpdateGoesThrough ==
  ASSUME Types, NEW r \in Requests, Reasonable(r), Req[r].method = "POST",
         BadFields(Table(r), Body(r)) = {}, KeyThrown(Table(r), Body(r)) = {}
  PROVE  ~NoUpdate(Table(r), Updated(Table(r), Body(r)))
<1> DEFINE t == Table(r)
           body == Body(r)
           s == Updated(t, body)
<1>1. /\ t \in Tables /\ KnownColumns(t) = DOMAIN Columns[t] /\ KnownKey(t) = {Key[t]}
      /\ \A c \in DOMAIN Columns[t] : IsText(Columns[t][c].type)
      /\ t \in DOMAIN known
  BY ReasonableFacts DEF Whole
<1>2. s.missing = {} /\ s.key = {} /\ DOMAIN s.values = DOMAIN body \cap KnownColumns(t)
      /\ \A c \in DOMAIN s.values : s.values[c] = body[c]
  BY DEF Updated
<1>3. DOMAIN s.values # {}
  <2>1. (DOMAIN Columns[t] \cup {Key[t]}) \cap DOMAIN body # {}
    BY DEF Reasonable, Table
  <2>2. Key[t] \notin DOMAIN body
    BY <1>1 DEF KeyThrown
  <2> QED  BY <1>1, <1>2, <2>1, <2>2
<1>4. ASSUME NEW c \in DOMAIN s.values
      PROVE /\ Accepted(Columns[t][c].type, Sent("update", s.values[c]))
            /\ Sent("update", s.values[c]).kind = "null" => Columns[t][c].null
  <2>1. /\ c \in DOMAIN body \cap KnownColumns(t) /\ s.values[c] = body[c]
        /\ IsValue(body[c])
    BY <1>2, <1>4, RequestsAssumption DEF Body
  <2>s. Sent("update", body[c]).kind # "nested" /\ Sent("update", body[c]).v \notin Unfit
    BY <1>1, <2>1 DEF Reasonable, Table
  <2>2. Accepted(Columns[t][c].type, Sent("update", s.values[c]))
    BY <1>1, <2>1, <2>s DEF Accepted
  <2> HIDE DEF s
  <2> QED  BY <2>1, <2>2, NullWasChecked
<1>5. ~Refused(t, "update", s)
  <2>1. ~Unfilled(t, "update", s)
    BY DEF Unfilled
  <2> HIDE DEF s
  <2> QED  BY <1>2, <1>4, <2>1 DEF Refused
<1> QED  BY <1>1, <1>3, <1>5 DEF NoUpdate

(* No step drops a reasonable request.                                     *)
LEMMA StepKeepsDrop ==
  ASSUME Types, RouteInv, KeyInv, DropInv, NEW r \in Requests, Step(r)
  PROVE  DropInv'
<1> SUFFICES ASSUME NEW q \in Requests, pc'[q] = "dropped", Reasonable(q)'
             PROVE FALSE
  BY DEF DropInv
<1>0. failed \subseteq failed' /\ known' = known
  BY DEF Step, Alone
<1>1. Reasonable(q) /\ q \notin failed' /\ (Table(r) = Table(q) => ~Unescaped(r))
  <2>1. Plain(Table(q))'
    BY DEF Reasonable, Table
  <2>2. Plain(Table(q)) /\ (Table(r) = Table(q) => ~Unescaped(r))
    BY <2>1, PlainBefore
  <2> QED  BY <1>0, <2>2 DEF Reasonable, Table, Body
<1>2. CASE q # r
  <2>1. pc[q] = "dropped"
    BY <1>2 DEF Step, Alone
  <2> QED  BY <1>1, <2>1 DEF DropInv
<1>3. CASE q = r
  <2>1. CASE EndsRouting(r)
    <3>1. Table(r) = ""
      BY <1>3, <2>1 DEF EndsRouting
    <3>2. Table(r) \in DOMAIN known /\ "" \notin DOMAIN known
      BY <1>1, <1>3, ReasonableFacts, TypeParts, KnownFacts DEF KnownTypes, Whole
    <3> QED  BY <3>1, <3>2
  <2>2. CASE Fails(r)
    <3>0. RouteOf(r)
      BY DEF RouteInv
    <3>1. \/ /\ pc[r] = "insert"
             /\ \E s \in stmt[r] : \/ Refused(Table(r), "insert", s)
                                   \/ NewKey(Table(r), s) \in DOMAIN rows[Table(r)]
          \/ pc[r] = "update" /\ \E s \in stmt[r] : NoUpdate(Table(r), s)
      BY <1>1, <1>3, <2>2 DEF Fails
    <3>2. CASE pc[r] = "insert"
      <4>1. /\ stmt[r] = {Inserted(Table(r), Body(r))} /\ BadFields(Table(r), Body(r)) = {}
            /\ Req[r].method = "PUT"
        BY <3>0, <3>2 DEF RouteOf
      <4>2. /\ ~Refused(Table(r), "insert", Inserted(Table(r), Body(r)))
            /\ NextKey(r) \notin DOMAIN rows[Table(r)]
        BY <1>1, <1>3, <4>1, InsertGoesThrough
      <4> QED  BY <3>1, <3>2, <4>1, <4>2 DEF NextKey
    <3>3. CASE pc[r] = "update"
      <4>1. /\ stmt[r] = {Updated(Table(r), Body(r))} /\ BadFields(Table(r), Body(r)) = {}
            /\ Req[r].method = "POST" /\ KeyThrown(Table(r), Body(r)) = {}
        BY <3>0, <3>3 DEF RouteOf
      <4> QED  BY <1>1, <1>3, <3>1, <3>3, <4>1, UpdateGoesThrough
    <3> QED  BY <3>1, <3>2, <3>3
  <2>3. CASE GoesOn(r) \/ Passes(r) \/ Opens(r)
    BY <1>3, <2>3 DEF GoesOn, Asks, Passes, Opens
  <2>4. CASE Malformed(r) \/ Leaks(r)
    BY <1>3, <2>4 DEF Malformed, Leaks, Gives
  <2>5. CASE Finishes(r)
    BY <1>3, <2>5, Finishing
  <2>6. CASE Deletes(r) \/ Inserts(r) \/ Updates(r) \/ Rewrites(r)
    BY <1>3, <2>6 DEF Deletes, Inserts, Updates, Rewrites, Executed
  <2> QED  BY <2>1, <2>2, <2>3, <2>4, <2>5, <2>6 DEF Step
<1> QED  BY <1>2, <1>3

-----------------------------------------------------------------------------
(* What was written is found.                                              *)

(* A value that passed the checks and that the database did not refuse is  *)
(* stored as it was sent, unless it was a bool, an array or an object.     *)
LEMMA SentIsStored ==
  ASSUME NEW column, NEW op, NEW value, IsValue(value), value.kind \notin {"bool", "nested"},
         ValidField(value, column), Accepted(column.type, Sent(op, value))
  PROVE  StoredAs(column.type, Sent(op, value)) = value
<1>0. IsFloat(column.type) => ~IsText(column.type)
  BY DEF IsFloat, IsText
<1>1. CASE value = Null
  <2>1. value.kind = "null"
    BY <1>1 DEF Null
  <2> QED  BY <2>1 DEF Sent, StoredAs
<1>2. CASE value.kind = "string" /\ value = [kind |-> value.kind, v |-> value.v]
  <2>1. IsText(column.type)
    BY <1>2 DEF ValidField
  <2>2. Sent(op, value) = value
    BY <1>2 DEF Sent
  <2>3. StoredAs(column.type, value) = [kind |-> "string", v |-> value.v]
    BY <1>2, <2>1 DEF StoredAs
  <2> QED  BY <1>2, <2>2, <2>3
<1>3. CASE value.kind \in {"int", "fraction"}
  <2>1. IsFloat(column.type)
    BY <1>3 DEF ValidField
  <2>2. op # "update"
    <3>1. ASSUME op = "update" PROVE FALSE
      <4>1. Sent(op, value) = [kind |-> "string", v |-> "%!s"]
        BY <1>3, <3>1 DEF Sent
      <4> QED  BY <1>0, <2>1, <4>1 DEF Accepted
    <3> QED  BY <3>1
  <2>3. Sent(op, value) = value
    BY <1>3, <2>2 DEF Sent
  <2> QED  BY <1>0, <2>1, <2>3 DEF StoredAs
<1> QED  BY <1>1, <1>2, <1>3 DEF IsValue

(* A statement that came in stays so: what is untouched has always been.   *)
LEMMA UntouchedBefore ==
  ASSUME NEW r \in Requests, Step(r), NEW p, NEW k, Untouched(p, k)'
  PROVE  Untouched(p, k) /\ (Table(r) = Table(p) => ~Rewrites(r))
<1>0. Plain(Table(p)) /\ (Table(r) = Table(p) => ~Rewrites(r))
  <2>1. Plain(Table(p))'
    BY DEF Untouched, Table
  <2> QED  BY <2>1, PlainBefore
<1> SUFFICES ASSUME NEW q \in Requests \ {p}, Touches(q, Table(p), k)
             PROVE FALSE
  BY <1>0 DEF Untouched
<1>1. pc'[q] # "idle"
  BY StepMoves DEF Touches, Step, Alone
<1>2. Touches(q, Table(p), k)'
  BY <1>1 DEF Touches, Table
<1> QED  BY <1>2 DEF Untouched

(* A record nobody else asks to change stays as it is.                     *)
LEMMA RecordStays ==
  ASSUME Types, NEW r \in Requests, Step(r), NEW p \in Requests, p # r, NEW k,
         Untouched(p, k)', k \in DOMAIN rows[Table(p)], Table(p) \in Tables
  PROVE  k \in DOMAIN rows'[Table(p)] /\ rows'[Table(p)][k] = rows[Table(p)][k]
<1> DEFINE t == Table(p)
<1>1. CASE rows' = rows
  BY <1>1
<1>2. CASE OtherTables(r) /\ t # Table(r)
  BY <1>2 DEF OtherTables
<1>u. Table(r) = t => ~Rewrites(r)
  BY UntouchedBefore
<1>3. CASE t = Table(r) /\ (Deletes(r) \/ Updates(r))
  <2>1. k \notin Req[r].id
    <3>1. pc'[r] # "idle" /\ Req[r].method \in {"POST", "DELETE"}
      BY <1>3, StepMoves DEF Deletes, Updates
    <3>2. ~Touches(r, t, k)'
      BY DEF Untouched, Table
    <3> QED  BY <1>3, <3>1, <3>2 DEF Touches, Table
  <2> QED  BY <1>3, <2>1 DEF Deletes, Updates
<1>4. CASE t = Table(r) /\ Inserts(r)
  BY <1>4 DEF Inserts
<1>5. rows' = rows \/ OtherTables(r)
  BY StepKeepsRows DEF Deletes, Inserts, Updates, Rewrites, Executed
<1> QED  BY <1>1, <1>2, <1>u, <1>3, <1>4, <1>5, StepKeepsRows

(* Who has written something did so before, or just did.                   *)
LEMMA WrittenWhen ==
  ASSUME AnswerInv, NEW r \in Requests, Step(r), NEW p \in Requests, NEW k \in Written(p)'
  PROVE  \/ k \in Written(p) /\ (p = r => UNCHANGED rows)
         \/ /\ p = r /\ Inserts(r) /\ k = LastInsertId(Table(r), NextKey(r))
            /\ KeySent(Table(r), Body(r)) = {}
         \/ p = r /\ Rewrites(r)
         \/ p = r /\ Updates(r) /\ answer'[r].value = 1 /\ k \in Req[r].id
<1>0. AnswerOf(r)
  BY DEF AnswerInv
<1>s. KeySent(Table(p), Body(p))' = KeySent(Table(p), Body(p))
  BY StepMoves, SchemaStays
<1>w. IF answer'[p].kind = "id" /\ KeySent(Table(p), Body(p)) = {} THEN k = answer'[p].value
      ELSE answer'[p].kind = "updated" /\ answer'[p].value = 1 /\ k \in Req[p].id
  BY <1>s DEF Written, Table, Body
<1>1. answer'[p].kind \in {"id", "updated"}
  BY <1>w
<1>2. ASSUME answer'[p] = answer[p] PROVE k \in Written(p)
  BY <1>w, <1>2 DEF Written, Table
<1>3. CASE p # r
  <2>1. answer'[p] = answer[p]
    BY <1>3 DEF Step, Alone
  <2> QED  BY <1>2, <1>3, <2>1
<1>4. CASE p = r
  <2>1. CASE EndsRouting(r)
    BY <1>0, <1>1, <1>4, <2>1 DEF EndsRouting, ComesIn, AnswerOf
  <2>2. CASE GoesOn(r) \/ Passes(r) \/ Opens(r)
    <3>1. answer'[r] = answer[r] /\ rows' = rows
      BY <2>2 DEF GoesOn, ComesIn, Passes, Opens
    <3> QED  BY <1>2, <1>4, <3>1
  <2>3. CASE Fails(r)
    BY <1>1, <1>4, <2>3 DEF Fails
  <2>4. CASE Malformed(r) \/ Leaks(r)
    BY <1>1, <1>4, <2>4 DEF Malformed, Leaks, Gives
  <2>5. CASE Finishes(r)
    BY <1>1, <1>4, <2>5, Finishing
  <2>6. CASE Deletes(r)
    BY <1>1, <1>4, <2>6 DEF Deletes, Executed
  <2>7. CASE Inserts(r)
    <3>1. answer'[r].kind = "id" /\ answer'[r].value = LastInsertId(Table(r), NextKey(r))
      BY <2>7 DEF Inserts, Executed
    <3>2. k = answer'[r].value /\ KeySent(Table(r), Body(r)) = {}
      BY <1>4, <1>w, <3>1
    <3> QED  BY <1>4, <2>7, <3>1, <3>2
  <2>8. CASE Updates(r)
    <3>1. answer'[r].kind = "updated"
      BY <2>8 DEF Updates, Executed
    <3>2. answer'[r].value = 1 /\ k \in Req[r].id
      BY <1>4, <1>w, <3>1
    <3> QED  BY <1>4, <2>8, <3>2
  <2>9. CASE Rewrites(r)
    BY <1>4, <2>9
  <2> QED  BY <2>1, <2>2, <2>3, <2>4, <2>5, <2>6, <2>7, <2>8, <2>9 DEF Step
<1> QED  BY <1>3, <1>4

(* A record just inserted, its key not chosen by the request, holds what was sent.                             *)
LEMMA InsertHolds ==
  ASSUME Types, NEW r \in Requests, Inserts(r), KeySent(Table(r), Body(r)) = {}
  PROVE  Holds(r, LastInsertId(Table(r), NextKey(r)), rows'[Table(r)])
<1> DEFINE t == Table(r)
           k == NextKey(r)
           s == Inserted(t, Body(r))
<1>1. LastInsertId(t, k) = k
  <2>1. s.key = {}
    BY DEF Inserted
  <2> QED  BY <2>1 DEF LastInsertId, NextKey, NewKey
<1>2. /\ k \in DOMAIN rows'[t] /\ t \in DOMAIN known
      /\ rows'[t][k] = [c \in DOMAIN Columns[t] |->
                          IF c \in DOMAIN s.values THEN Value(t, "insert", s, c) ELSE Null]
      /\ ~Refused(t, "insert", s) /\ BadFields(t, Body(r)) = {}
  BY DEF Inserts, Executed
<1>3. /\ DOMAIN s.values \subseteq DOMAIN Columns[t]
      /\ DOMAIN Body(r) \cap KnownColumns(t) \subseteq DOMAIN s.values
      /\ \A c \in DOMAIN s.values : IsValue(s.values[c])
      /\ \A c \in DOMAIN Body(r) \cap KnownColumns(t) : s.values[c] = Body(r)[c]
  BY <1>2, InsertedFacts
<1>4. ASSUME NEW c \in Sends(r) PROVE rows'[t][k][c] = Body(r)[c]
  <2>1. c \in DOMAIN Body(r) \cap KnownColumns(t) /\ Body(r)[c].kind \notin {"bool", "nested"}
    BY <1>4 DEF Sends
  <2>2. /\ c \in DOMAIN s.values /\ c \in DOMAIN Columns[t]
        /\ s.values[c] = Body(r)[c] /\ IsValue(Body(r)[c])
    BY <1>3, <2>1
  <2>3. ValidField(Body(r)[c], Columns[t][c])
    BY <1>2, <2>1 DEF BadFields
  <2>4. Accepted(Columns[t][c].type, Sent("insert", s.values[c]))
    BY <1>2, <2>2 DEF Refused
  <2>5. rows'[t][k][c] = StoredAs(Columns[t][c].type, Sent("insert", s.values[c]))
    BY <1>2, <2>2 DEF Value
  <2> HIDE DEF s, k, t
  <2> QED  BY <2>1, <2>2, <2>3, <2>4, <2>5, SentIsStored
<1> QED  BY <1>1, <1>2, <1>4 DEF Holds

(* A record just changed holds what was sent.                              *)
LEMMA UpdateHolds ==
  ASSUME Types, NEW r \in Requests, Updates(r), answer'[r].value = 1, NEW k \in Req[r].id
  PROVE  Holds(r, k, rows'[Table(r)])
<1> DEFINE t == Table(r)
           s == Updated(t, Body(r))
<1>1. /\ t \in DOMAIN known /\ DOMAIN rows'[t] = DOMAIN rows[t]
      /\ answer'[r].value = Cardinality(Differs(r))
      /\ \A j \in DOMAIN rows[t] :
           rows'[t][j] = IF j \in Req[r].id THEN Changed(r, rows[t][j]) ELSE rows[t][j]
      /\ ~Refused(t, "update", s) /\ BadFields(t, Body(r)) = {}
  BY DEF Updates, Executed
<1>2. k \in DOMAIN rows[t]
  <2>1. Differs(r) # {}
    BY <1>1, FS_EmptySet
  <2>2. PICK j : j \in Differs(r)
    BY <2>1
  <2>3. j \in Req[r].id /\ j \in DOMAIN rows[t]
    BY <2>2 DEF Differs
  <2> QED  BY <2>3, RequestsAssumption
<1>3. rows'[t][k] = [c \in DOMAIN Columns[t] |->
                       IF c \in DOMAIN s.values THEN Value(t, "update", s, c) ELSE rows[t][k][c]]
  BY <1>1, <1>2 DEF Changed
<1>4. /\ DOMAIN s.values = DOMAIN Body(r) \cap KnownColumns(t)
      /\ DOMAIN s.values \subseteq DOMAIN Columns[t]
      /\ \A c \in DOMAIN s.values : s.values[c] = Body(r)[c] /\ IsValue(s.values[c])
  BY <1>1, UpdatedFacts
<1>5. ASSUME NEW c \in Sends(r) PROVE rows'[t][k][c] = Body(r)[c]
  <2>1. c \in DOMAIN Body(r) \cap KnownColumns(t) /\ Body(r)[c].kind \notin {"bool", "nested"}
    BY <1>5 DEF Sends
  <2>2. /\ c \in DOMAIN s.values /\ c \in DOMAIN Columns[t]
        /\ s.values[c] = Body(r)[c] /\ IsValue(Body(r)[c])
    BY <1>4, <2>1
  <2>3. ValidField(Body(r)[c], Columns[t][c])
    BY <1>1, <2>1 DEF BadFields
  <2>4. Accepted(Columns[t][c].type, Sent("update", s.values[c]))
    BY <1>1, <2>2 DEF Refused
  <2>5. rows'[t][k][c] = StoredAs(Columns[t][c].type, Sent("update", s.values[c]))
    BY <1>3, <2>2 DEF Value
  <2> HIDE DEF s, t
  <2> QED  BY <2>1, <2>2, <2>3, <2>4, <2>5, SentIsStored
<1> QED  BY <1>1, <1>2, <1>5 DEF Holds

(* What was written holds as long as nobody else asks to change it.        *)
LEMMA StepKeepsWrite ==
  ASSUME Types, AnswerInv, WriteInv, NEW r \in Requests, Step(r)
  PROVE  WriteInv'
<1> SUFFICES ASSUME NEW p \in Requests, NEW k \in Written(p)', Untouched(p, k)'
             PROVE Holds(p, k, rows[Table(p)])'
  BY DEF WriteInv
<1>1. Sends(p)' = Sends(p)
  BY StepMoves, SchemaStays
<1>2. ASSUME NEW records, Holds(p, k, records), records = rows'[Table(p)]
      PROVE Holds(p, k, rows[Table(p)])'
  BY <1>1, <1>2 DEF Holds, Table, Body
<1>3. CASE k \in Written(p) /\ (p = r => UNCHANGED rows)
  <2>1. Holds(p, k, rows[Table(p)])
    BY <1>3, UntouchedBefore DEF WriteInv
  <2>2. CASE p = r
    BY <1>2, <1>3, <2>1, <2>2
  <2>3. CASE p # r
    <3>1. Table(p) \in Tables
      <4>1. answer[p].kind \in {"id", "updated"}
        BY <1>3 DEF Written
      <4>2. Table(p) \in DOMAIN known
        BY <4>1 DEF AnswerInv, AnswerOf
      <4> QED  BY <4>2, TypeParts, KnownFacts DEF KnownTypes
    <3>2. k \in DOMAIN rows[Table(p)] /\ \A c \in Sends(p) : rows[Table(p)][k][c] = Body(p)[c]
      BY <2>1 DEF Holds
    <3>3. k \in DOMAIN rows'[Table(p)] /\ rows'[Table(p)][k] = rows[Table(p)][k]
      BY <2>3, <3>1, <3>2, RecordStays
    <3>4. Holds(p, k, rows'[Table(p)])
      BY <3>2, <3>3 DEF Holds
    <3> QED  BY <1>2, <3>4
  <2> QED  BY <2>2, <2>3
<1>4. CASE /\ p = r /\ Inserts(r) /\ k = LastInsertId(Table(r), NextKey(r))
           /\ KeySent(Table(r), Body(r)) = {}
  BY <1>2, <1>4, InsertHolds
<1>5. CASE p = r /\ Updates(r) /\ answer'[r].value = 1 /\ k \in Req[r].id
  BY <1>2, <1>5, UpdateHolds
<1>6. ~(p = r /\ Rewrites(r))
  BY UntouchedBefore
<1> QED  BY <1>3, <1>4, <1>5, <1>6, WrittenWhen

(* A reader that came in after the record was written, and keeps its own   *)
(* connection, finds the record as it is.                                  *)
LEMMA StepKeepsRead ==
  ASSUME Types, RouteInv, AnswerInv, WriteInv, ReadInv, NEW r \in Requests, Step(r)
  PROVE  ReadInv'
<1> SUFFICES ASSUME NEW p \in Requests, NEW k \in Written(p)', Untouched(p, k)',
                    NEW g \in Requests \ failed', p \in after'[g], Reads(g, p, k)
             PROVE Finds(g, k, rows[Table(p)])'
  BY DEF ReadInv, Reads, Table
<1> DEFINE t == Table(p)
<1>0. PICK record : record = rows[t][k]
  OBVIOUS
<1>r. /\ Req[g].method = "GET" /\ Table(g) = t /\ Req[g].id = {k}
  BY DEF Reads
<1>a. AnswerOf(g) /\ AnswerOf(p) /\ RouteOf(g)
  BY DEF AnswerInv, RouteInv
<1>f. failed \subseteq failed' /\ known' = known
  BY DEF Step, Alone
<1>1. p # r
  <2>1. pc'[p] = "done"
    BY StepKeepsAnswer DEF AnswerInv, AnswerOf
  <2>2. ASSUME p = r PROVE FALSE
    <3>1. pc[p] # "done"
      BY <2>2, StepMoves
    <3>2. p \notin after[g]
      BY <1>a, <3>1 DEF AnswerOf
    <3>3. g = r
      BY <3>2 DEF Step, Alone
    <3>4. after'[g] = {q \in Requests : pc[q] = "done"}
      BY <3>2, <3>3, StepMoves
    <3> QED  BY <3>1, <3>4
  <2> QED  BY <2>2
<1>2. k \in Written(p) /\ Untouched(p, k) /\ Holds(p, k, rows[t])
  <2>1. k \in Written(p)
    BY <1>1, WrittenWhen
  <2> QED  BY <2>1, UntouchedBefore DEF WriteInv
<1>3. t \in DOMAIN known /\ t \in Tables
  <2>1. answer[p].kind \in {"id", "updated"}
    BY <1>2 DEF Written
  <2>2. t \in DOMAIN known
    BY <1>a, <2>1 DEF AnswerOf
  <2> QED  BY <2>2, TypeParts, KnownFacts DEF KnownTypes
<1>4. k \in DOMAIN rows[t] /\ k \in DOMAIN rows'[t] /\ rows'[t][k] = record
  <2>1. k \in DOMAIN rows[t]
    BY <1>2 DEF Holds
  <2> QED  BY <1>0, <1>1, <1>3, <2>1, RecordStays
<1>b. p \in after[g] => Finds(g, k, rows[t])
  <2>1. g \in Requests \ failed
    BY <1>f
  <2> QED  BY <1>2, <2>1 DEF ReadInv
<1>6. ASSUME pc'[g] = "scan" => found'[g] = [j \in {k} |-> record],
             pc'[g] \in {"reply", "done"} =>
               IF Scannable(t, record)
               THEN answer'[g].kind = "record" /\ answer'[g].value = [j \in {k} |-> record]
               ELSE answer'[g].kind = "null"
      PROVE Finds(g, k, rows[t])'
  <2>1. [j \in {k} |-> rows'[t][j]] = [j \in {k} |-> record]
    BY <1>4
  <2>2. (Scannable(t, rows[t][k]))' <=> Scannable(t, record)
    BY <1>4, <1>f DEF Scannable, Table
  <2>3. pc'[g] = "scan" => found'[g] = [j \in {k} |-> rows'[t][j]]
    BY <1>6, <2>1
  <2>4. pc'[g] \in {"reply", "done"} =>
          IF (Scannable(t, rows[t][k]))'
          THEN answer'[g].kind = "record" /\ answer'[g].value = [j \in {k} |-> rows'[t][j]]
          ELSE answer'[g].kind = "null"
    BY <1>6, <2>1, <2>2
  <2> QED  BY <1>r, <2>3, <2>4 DEF Finds, Table
<1>c. ASSUME p \in after[g]
      PROVE /\ pc[g] = "scan" => found[g] = [j \in {k} |-> record]
            /\ pc[g] \in {"reply", "done"} =>
                 IF Scannable(t, record)
                 THEN answer[g].kind = "record" /\ answer[g].value = [j \in {k} |-> record]
                 ELSE answer[g].kind = "null"
  <2>1. [j \in {k} |-> rows[t][j]] = [j \in {k} |-> record]
    BY <1>0
  <2>2. Finds(g, k, rows[t])
    BY <1>b, <1>c
  <2> QED  BY <1>0, <1>r, <2>1, <2>2 DEF Finds
<1>7. CASE g # r
  <2>1. /\ pc'[g] = pc[g] /\ found'[g] = found[g] /\ answer'[g] = answer[g] /\ p \in after[g]
    BY <1>7 DEF Step, Alone
  <2> QED  BY <1>6, <1>c, <2>1
<1>8. CASE g = r
  <2>i. pc[r] # "idle" => p \in after[g]
    BY <1>8, StepMoves
  <2>1. CASE EndsRouting(r)
    <3>1. pc'[r] = "dropped"
      BY <1>3, <1>8, <1>r, <2>1 DEF EndsRouting
    <3> QED  BY <1>6, <1>8, <3>1
  <2>2. CASE GoesOn(r)
    <3>1. pc'[r] \in {"select", "insert", "update", "delete"}
      BY <2>2 DEF GoesOn, Asks
    <3> QED  BY <1>6, <1>8, <3>1
  <2>3. CASE Passes(r)
    <3>1. pc[g] = "reply" /\ pc'[g] = "done" /\ answer'[g] = answer[g]
      BY <1>8, <1>a, <1>r, <2>3 DEF Passes, RouteOf
    <3> QED  BY <1>6, <1>8, <1>c, <2>i, <3>1
  <2>4. CASE Fails(r)
    <3>1. pc[r] \in {"insert", "update", "delete", "result"}
      BY <2>4 DEF Fails
    <3> QED  BY <1>8, <1>a, <1>r, <3>1 DEF RouteOf
  <2>5. CASE Opens(r)
    <3>1. pc'[g] = "scan" /\ found'[g] = [j \in Req[g].id \cap DOMAIN rows[t] |-> rows[t][j]]
      BY <1>8, <1>r, <2>5 DEF Opens
    <3>2. Req[g].id \cap DOMAIN rows[t] = {k}
      BY <1>4, <1>r
    <3>3. found'[g] = [j \in {k} |-> record]
      BY <1>0, <3>1, <3>2
    <3> QED  BY <1>6, <3>1, <3>3
  <2>6. CASE Malformed(r)
    <3>1. pc'[g] = "reply" /\ answer'[g].kind = "null" /\ ~WellFormed(g)
      BY <1>8, <2>6 DEF Malformed, Gives
    <3>2. KnownKey(t) = {}
      BY <1>r, <3>1 DEF WellFormed, Table
    <3>3. ~Scannable(t, record)
      BY <1>3, <3>2 DEF Scannable, Whole, KnownKey
    <3> QED  BY <1>6, <3>1, <3>3
  <2>7. CASE Leaks(r)
    <3>1. pc[g] = "scan" /\ pc'[g] = "reply" /\ answer'[g].kind = "null" /\ Stuck(g)
      BY <1>8, <2>7 DEF Leaks, Gives
    <3>2. found[g] = [j \in {k} |-> record]
      BY <1>8, <1>c, <2>i, <3>1
    <3>3. ~Scannable(t, record)
      <4> QED  BY <1>r, <3>1, <3>2 DEF Stuck
    <3> QED  BY <1>6, <3>1, <3>3
  <2>8. CASE Finishes(r)
    <3>0. pc[g] = "scan" /\ pc'[g] = "reply"
      BY <1>8, <2>8, Finishing
    <3>1. found[g] = [j \in {k} |-> record]
      BY <1>8, <1>c, <2>i, <3>0
    <3>2. PICK keys \in SUBSET DOMAIN found[g] :
            /\ \A j \in keys : Scannable(Table(g), found[g][j])
            /\ keys = DOMAIN found[g] \/ g \in failed'
            /\ IF keys = {} THEN Gives(g, "notFound")
               ELSE /\ Gives(g, IF Req[g].id = {} THEN "records" ELSE "record")
                    /\ answer'[g].value = [j \in keys |-> found[g][j]]
      BY <1>8, <2>8 DEF Finishes
    <3>3. keys = {k}
      BY <3>1, <3>2
    <3>4. Scannable(t, record)
      <4> QED  BY <1>r, <3>1, <3>2, <3>3
    <3>5. Gives(g, "record") /\ answer'[g].value = [j \in keys |-> found[g][j]]
      BY <1>r, <3>2, <3>3
    <3>6. answer'[g].kind = "record" /\ answer'[g].value = [j \in {k} |-> record]
      BY <3>1, <3>3, <3>5 DEF Gives
    <3> QED  BY <1>6, <3>0, <3>4, <3>6
  <2>9. CASE Deletes(r) \/ Inserts(r) \/ Updates(r) \/ Rewrites(r)
    <3>1. Req[r].method \in {"DELETE", "PUT", "POST"}
      BY <2>9 DEF Deletes, Inserts, Updates, Rewrites
    <3> QED  BY <1>8, <1>r, <3>1
  <2> QED  BY <2>1, <2>2, <2>3, <2>4, <2>5, <2>6, <2>7, <2>8, <2>9 DEF Step
<1> QED  BY <1>7, <1>8

-----------------------------------------------------------------------------
(* The theorems.                                                           *)

(* A step that changes nothing keeps the invariant.                        *)
LEMMA StutterKeepsIInv ==
  ASSUME IInv, UNCHANGED vars
  PROVE  IInv'
<1>1. UNCHANGED <<known, rows, last, pc, stmt, found, conns, answer, after, failed>>
  BY DEF vars
<1>p. /\ \A t : Plain(t)' <=> Plain(t)
      /\ \A r \in Requests : Unescaped(r)' <=> Unescaped(r)
      /\ \A r : KeySent(Table(r), Body(r))' = KeySent(Table(r), Body(r))
  BY <1>1 DEF Plain, Unescaped, KnownColumns, KeySent, KnownKey, Table, Body
<1>2. Types' /\ KeyInv'
  BY <1>1, <1>p DEF IInv, Types, TypeOK, KeyInv, IsFunction
<1>3. RouteInv'
  BY <1>1, SchemaStays DEF IInv, RouteInv, RouteOf
<1>4. ConnInv'
  BY <1>1 DEF IInv, ConnInv, Stuck, Scannable
<1>5. AnswerInv'
  BY <1>1, <1>p DEF IInv, AnswerInv, AnswerOf
<1>6. DeleteInv'
  BY <1>1, <1>p DEF IInv, DeleteInv, Deleter, Same, After
<1>7. DropInv'
  BY <1>1, <1>p DEF IInv, DropInv, Reasonable
<1>8. (\A p, k : Untouched(p, k)' <=> Untouched(p, k)) /\ (\A p : Written(p)' = Written(p))
  BY <1>1, <1>p DEF Untouched, Touches, Written, Table
<1>9. WriteInv'
  <2>1. \A p, k : (Holds(p, k, rows[Table(p)]))' <=> Holds(p, k, rows[Table(p)])
    BY <1>1 DEF Holds, Sends, KnownColumns
  <2> QED  BY <1>8, <2>1 DEF IInv, WriteInv
<1>10. ReadInv'
  <2>1. \A g, p, k : (Finds(g, k, rows[Table(p)]))' <=> Finds(g, k, rows[Table(p)])
    BY <1>1 DEF Finds, Scannable
  <2> QED  BY <1>1, <1>8, <2>1 DEF IInv, ReadInv, Reads
<1> QED  BY <1>2, <1>3, <1>4, <1>5, <1>6, <1>7, <1>9, <1>10 DEF IInv

(* The invariant is inductive.                                             *)
LEMMA NextKeepsIInv == IInv /\ [Next]_vars => IInv'
<1> SUFFICES ASSUME IInv, [Next]_vars PROVE IInv'
  OBVIOUS
<1>0. /\ Types /\ RouteInv /\ KeyInv /\ ConnInv /\ AnswerInv
      /\ DeleteInv /\ DropInv /\ WriteInv /\ ReadInv
  BY DEF IInv
<1>1. CASE UNCHANGED vars
  BY <1>1, StutterKeepsIInv
<1>2. ASSUME NEW r \in Requests, Step(r) PROVE IInv'
  <2>1. Types' /\ RouteInv' /\ KeyInv' /\ ConnInv'
    BY <1>0, <1>2, StepKeepsTypes, StepKeepsRoute, StepKeepsKeys, StepKeepsConn
  <2>2. AnswerInv' /\ DeleteInv' /\ DropInv'
    BY <1>0, <1>2, StepKeepsAnswer, StepKeepsDelete, StepKeepsDrop
  <2>3. WriteInv' /\ ReadInv'
    BY <1>0, <1>2, StepKeepsWrite, StepKeepsRead
  <2> QED  BY <2>1, <2>2, <2>3 DEF IInv
<1> QED  BY <1>0, <1>1, <1>2, Steps

(* The inductive invariant holds in every state, whatever the schema, the  *)
(* records, the requests and the failures of connections.                  *)
THEOREM Invariance == Spec => []IInv
<1>1. Init => IInv
  BY InitIInv
<1>2. IInv /\ [Next]_vars => IInv'
  BY NextKeepsIInv
<1> QED  BY <1>1, <1>2, PTL DEF Spec

(* Every variable has its type: each record of a table holds, for each of  *)
(* its columns, a value of the column's type or a null it allows.          *)
THEOREM TypeCorrect == Spec => []TypeOK
<1>1. IInv => TypeOK
  BY DEF IInv, Types
<1> QED  BY <1>1, Invariance, PTL

(* What handlePut and handlePost have reported as written stays as it was  *)
(* sent until somebody asks to change it, and handleGetById finds it, as   *)
(* long as no text with a quote or a backslash, and no id that is no       *)
(* number, was printed into a statement on the table.                      *)
THEOREM AlwaysWrittenIsFound == Spec => []WrittenIsFound
<1>1. IInv => WrittenIsFound
  <2> SUFFICES ASSUME IInv, NEW p \in {q \in Requests : pc[q] = "done"}, Plain(Table(p)),
                      NEW k \in Written(p), \A q \in Requests \ {p} : ~Touches(q, Table(p), k)
               PROVE  /\ Holds(p, k, rows[Table(p)])
                      /\ \A g \in {q \in Requests : p \in after[q] /\ pc[q] = "done"} \ failed :
                           (Reads(g, p, k) /\ Scannable(Table(p), rows[Table(p)][k])) =>
                             answer[g].kind = "record" /\ Holds(p, k, answer[g].value)
    BY DEF WrittenIsFound, Kept, Holds, Sends, Reads, Table
  <2>1. p \in Requests /\ Untouched(p, k)
    BY DEF Untouched
  <2>2. Holds(p, k, rows[Table(p)])
    BY <2>1 DEF IInv, WriteInv
  <2>3. ASSUME NEW g \in {q \in Requests : p \in after[q] /\ pc[q] = "done"} \ failed, Reads(g, p, k),
               Scannable(Table(p), rows[Table(p)][k])
        PROVE  answer[g].kind = "record" /\ Holds(p, k, answer[g].value)
    <3>1. Finds(g, k, rows[Table(p)]) /\ pc[g] = "done"
      BY <2>1, <2>3 DEF IInv, ReadInv
    <3>2. Table(g) = Table(p)
      BY <2>3 DEF Reads
    <3>3. answer[g].kind = "record" /\ answer[g].value = [j \in {k} |-> rows[Table(p)][j]]
      BY <2>3, <3>1, <3>2 DEF Finds
    <3>4. Holds(p, k, [j \in {k} |-> rows[Table(p)][j]])
      BY <2>2 DEF Holds
    <3> QED  BY <3>3, <3>4
  <2> QED  BY <2>2, <2>3
<1> QED  BY <1>1, Invariance, PTL

(* Of all handleDelete's requests for a record whose key the database has  *)
(* given one is told it deleted it, and nobody finds it later, as long as  *)
(* all statements on the table are read as they were meant.                *)
THEOREM AlwaysDeletedOnce == Spec => []DeletedOnce
<1>1. IInv => DeletedOnce
  BY DEF IInv, DeleteInv, Deleter, Same, After, DeletedOnce, Table
<1> QED  BY <1>1, Invariance, PTL

(* Only a SELECT whose rows the driver could not scan keeps a connection.  *)
THEOREM AlwaysOnlyFailedScansLeak == Spec => []OnlyFailedScansLeak
<1>1. IInv => OnlyFailedScansLeak
  BY DEF IInv, ConnInv, Stuck, OnlyFailedScansLeak, Ended, Table
<1> QED  BY <1>1, Invariance, PTL

(* No request on tables like those of the tests, with values that fit      *)
(* them, panics while its connection holds and the statements on the table *)
(* are read as they were meant: the checks let nothing else through.       *)
THEOREM AlwaysReasonableAnswered == Spec => []ReasonableAnswered
<1>1. IInv => ReasonableAnswered
  BY DEF IInv, DropInv, ReasonableAnswered
<1> QED  BY <1>1, Invariance, PTL

(* One step changes the records of one request, as its method, id and      *)
(* body ask for, and never the key, unless a text or an id printed into    *)
(* its statement was read as something else.                               *)
THEOREM AlwaysChangesAsAsked == Spec => ChangesAsAsked
<1> DEFINE
  Asked(t, r) ==
    LET new == DOMAIN rows'[t] \ DOMAIN rows[t]
        old == DOMAIN rows[t] \ DOMAIN rows'[t]
    IN  /\ pc[r] # "result" /\ pc'[r] = "result" /\ Req[r].table = t /\ answer'[r].status = 200
        /\ \/ Unescaped(r)
           \/ /\ CASE Req[r].method = "PUT"    -> old = {} /\ Cardinality(new) = 1
                   [] Req[r].method = "DELETE" -> new = {} /\ old = Req[r].id
                   [] OTHER -> new \cup old = {} /\ Key[t] \notin DOMAIN Body(r)
              /\ \A k \in DOMAIN rows[t] \cap DOMAIN rows'[t] : rows'[t][k] # rows[t][k] =>
                   /\ k \in Req[r].id
                   /\ \A c \in DOMAIN Columns[t] :
                        rows'[t][k][c] # rows[t][k][c] => c \in DOMAIN Body(r)
  AsAsked == \A t \in Tables : rows'[t] # rows[t] => \E r \in Requests : Asked(t, r)
<1>1. ASSUME IInv, [Next]_vars PROVE AsAsked
  <2> SUFFICES ASSUME NEW t \in Tables, rows'[t] # rows[t]
               PROVE  \E r \in Requests : Asked(t, r)
    OBVIOUS
  <2>0. Types /\ RouteInv /\ DOMAIN rows = Tables
    BY <1>1 DEF IInv, Types, TypeOK
  <2>1. PICK r \in Requests : Step(r)
    <3>1. ~UNCHANGED vars
      BY DEF vars
    <3> QED  BY <1>1, <2>0, <3>1, Steps
  <2>2. Table(r) = t /\ (Deletes(r) \/ Inserts(r) \/ Updates(r) \/ Rewrites(r))
    <3>1. Deletes(r) \/ Inserts(r) \/ Updates(r) \/ Rewrites(r)
      BY <2>1, StepKeepsRows
    <3>2. OtherTables(r)
      BY <3>1 DEF Deletes, Inserts, Updates, Rewrites, Executed
    <3> QED  BY <3>1, <3>2 DEF OtherTables
  <2>3. Req[r].table = t /\ pc'[r] = "result" /\ answer'[r].status = 200 /\ t \in DOMAIN known
    BY <2>2 DEF Deletes, Inserts, Updates, Rewrites, Executed, Table
  <2>4. CASE Deletes(r)
    <3>1. /\ pc[r] = "delete" /\ Req[r].method = "DELETE"
          /\ DOMAIN rows'[t] = DOMAIN rows[t] \ Req[r].id
          /\ \A k \in DOMAIN rows'[t] : rows'[t][k] = rows[t][k]
      BY <2>2, <2>4 DEF Deletes
    <3>2. DOMAIN rows[t] \ DOMAIN rows'[t] = Req[r].id
      <4> DEFINE gone == DOMAIN rows[t] \ DOMAIN rows'[t]
      <4>1. gone \subseteq Req[r].id
        BY <3>1
      <4>2. gone # {}
        <5>1. ASSUME gone = {} PROVE FALSE
          <6>1. DOMAIN rows'[t] = DOMAIN rows[t]
            BY <3>1, <5>1
          <6>2. IsFunction(rows'[t]) /\ IsFunction(rows[t])
            BY <2>0, <2>2, <2>4 DEF Deletes, Executed, Types
          <6>3. \A k \in DOMAIN rows[t] : rows'[t][k] = rows[t][k]
            BY <3>1, <6>1
          <6>4. rows'[t] = rows[t]
            BY <6>1, <6>2, <6>3 DEF IsFunction
          <6> QED  BY <6>4
        <5> QED  BY <5>1
      <4> HIDE DEF gone
      <4>3. gone = Req[r].id
        BY <4>1, <4>2, OneAtMost
      <4> QED  BY <4>3 DEF gone
    <3>3. DOMAIN rows'[t] \ DOMAIN rows[t] = {}
      BY <3>1
    <3> QED  BY <2>3, <3>1, <3>2, <3>3
  <2>5. CASE Inserts(r)
    <3>1. /\ pc[r] = "insert" /\ Req[r].method = "PUT"
          /\ NextKey(r) \notin DOMAIN rows[t] /\ DOMAIN rows'[t] = DOMAIN rows[t] \cup {NextKey(r)}
          /\ \A j \in DOMAIN rows[t] : rows'[t][j] = rows[t][j]
      BY <2>2, <2>5 DEF Inserts
    <3>2. DOMAIN rows'[t] \ DOMAIN rows[t] = {NextKey(r)} /\ DOMAIN rows[t] \ DOMAIN rows'[t] = {}
      BY <3>1
    <3>3. Cardinality(DOMAIN rows'[t] \ DOMAIN rows[t]) = 1
      BY <3>2, FS_Singleton
    <3> QED  BY <2>3, <3>1, <3>2, <3>3
  <2>6. CASE Updates(r)
    <3>1. /\ pc[r] = "update" /\ Req[r].method = "POST"
          /\ DOMAIN rows'[t] = DOMAIN rows[t]
          /\ \A k \in DOMAIN rows[t] :
               rows'[t][k] = IF k \in Req[r].id THEN Changed(r, rows[t][k]) ELSE rows[t][k]
          /\ KnownKey(t) # {} /\ KeyThrown(t, Body(r)) = {}
      BY <2>2, <2>6 DEF Updates
    <3>2. Key[t] \notin DOMAIN Body(r)
      BY <3>1 DEF KnownKey, KeyThrown
    <3>3. ASSUME NEW k \in DOMAIN rows[t], rows'[t][k] # rows[t][k], NEW c \in DOMAIN Columns[t],
                 rows'[t][k][c] # rows[t][k][c]
          PROVE  c \in DOMAIN Body(r)
      <4> DEFINE s == Updated(t, Body(r))
      <4>1. rows'[t][k] = [d \in DOMAIN Columns[t] |->
                             IF d \in DOMAIN s.values THEN Value(t, "update", s, d) ELSE rows[t][k][d]]
        BY <2>2, <3>1, <3>3 DEF Changed
      <4>2. DOMAIN s.values = DOMAIN Body(r) \cap KnownColumns(t)
        BY DEF Updated
      <4> HIDE DEF s
      <4> QED  BY <3>3, <4>1, <4>2
    <3>4. \A k \in DOMAIN rows[t] : rows'[t][k] # rows[t][k] => k \in Req[r].id
      BY <3>1
    <3>5. (DOMAIN rows'[t] \ DOMAIN rows[t]) \cup (DOMAIN rows[t] \ DOMAIN rows'[t]) = {}
      BY <3>1
    <3> QED  BY <2>3, <3>1, <3>2, <3>3, <3>4, <3>5
  <2>7. CASE Rewrites(r)
    <3>1. pc[r] # "result" /\ Unescaped(r)
      BY <2>7 DEF Rewrites
    <3> QED  BY <2>3, <3>1
  <2> QED  BY <2>2, <2>4, <2>5, <2>6, <2>7
<1>2. IInv /\ [Next]_vars => [AsAsked]_rows
  BY <1>1
<1> QED  BY <1>2, Invariance, PTL DEF Spec, ChangesAsAsked
================================================================================
