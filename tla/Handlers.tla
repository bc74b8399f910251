-------------------------------- MODULE Handlers --------------------------------
(***************************************************************************)
(* The code generator of hw5_codegen (handlers_gen/codegen.go) and the     *)
(* handlers it writes (api_handlers.go).  The generator finds the marked   *)
(* methods of a file, reads the fields of their parameter structs with the *)
(* apivalidator rules, and writes for each endpoint a list of statements.  *)
(* A handler executes those on a request until one answers with an error.  *)
(*                                                                         *)
(* A file is [funcs, structs]: its functions and, by name, the fields of   *)
(* its structs.  A function is [name, recv, pointer, marks, params]: recv  *)
(* "" for none, marks the apigen comments of its doc, each a function from *)
(* the attributes it has (url, auth, method), and params a struct's name.  *)
(* A field is [name, type, tag]: name in lower case, type "int" or         *)
(* "string", tag a set with the sequence of its rules, empty for a field   *)
(* without a tag.  A rule is [op, arg].  A form value is [text, len, int]: *)
(* its text, its length, and a set with the integer it denotes, if any.    *)
(***************************************************************************)
EXTENDS Naturals, Integers, Sequences, SequencesExt

(* The empty string                                                        *)
Blank == ""

Empty == [text |-> Blank, len |-> 0, int |-> {}]

(* An endpoint: [name, url, auth, method, fields], method "" if any will do*)
(* A request: [path, auth, method, form], form a function on the names of  *)
(* its parameters                                                          *)
FormValue(req, name) == IF name \in DOMAIN req.form THEN req.form[name] ELSE Empty

-----------------------------------------------------------------------------
(* Faulty variants of some definitions below.                              *)

(* enum checked in its place, before the default is set                    *)
EnumInPlace(rules) == rules

-----------------------------------------------------------------------------
(* First pass: the endpoints of the methods of a type.  One record serves  *)
(* all marks of a method: an attribute that a mark lacks stays.  Functions *)
(* and methods of values are passed over.                                  *)
NoData == [url |-> Blank, auth |-> FALSE, method |-> Blank]

Unmarshal(mark, data) ==
  [a \in DOMAIN data |-> IF a \in DOMAIN mark THEN mark[a] ELSE data[a]]

Fields(file, name) == IF name \in DOMAIN file.structs THEN file.structs[name] ELSE <<>>

EndpointsOf(file, f) ==
  LET metas[k \in DOMAIN f.marks] ==
        Unmarshal(f.marks[k], IF k = 1 THEN NoData ELSE metas[k - 1])
  IN  [k \in DOMAIN f.marks |->
         [name |-> f.name, url |-> metas[k].url, auth |-> metas[k].auth,
          method |-> metas[k].method, fields |-> Fields(file, f.params)]]

(* The endpoints of a type, by the places of their marks: function, mark   *)
Apis(file, api) ==
  LET marked == {n \in DOMAIN file.funcs : file.funcs[n].recv = api /\ file.funcs[n].pointer}
      places == UNION {{n} \X DOMAIN file.funcs[n].marks : n \in marked}
  IN  [at \in places |-> EndpointsOf(file, file.funcs[at[1]])[at[2]]]

-----------------------------------------------------------------------------
(* Second pass over the file: the fields of a struct.  One record pmd      *)
(* serves all fields: a field without a tag leaves its rules as they were. *)
Rules(fields) ==
  LET rules[k \in DOMAIN fields] ==
        IF fields[k].tag # {} THEN CHOOSE t \in fields[k].tag : TRUE
        ELSE IF k = 1 THEN <<>> ELSE rules[k - 1]
  IN  rules

ReadFields(fields) ==
  [k \in DOMAIN fields |->
     [name |-> fields[k].name, type |-> fields[k].type, rules |-> Rules(fields)[k]]]

(* getParamNameFromTags: the last paramname, or the field's name           *)
ParamName(m) ==
  LET given == {k \in DOMAIN m.rules : m.rules[k].op = "paramname"}
  IN  IF given = {} THEN m.name
      ELSE m.rules[CHOOSE k \in given : \A j \in given : j <= k].arg

-----------------------------------------------------------------------------
(* Statements written for a field: [op, type, name, arg]                   *)
Statement(m, op, arg) == [op |-> op, type |-> m.type, name |-> m.name, arg |-> arg]

(* the params field is read as an int, or as it is                         *)
Fill(m) == Statement(m, IF m.type = "int" THEN "atoi" ELSE "read", ParamName(m))

(* the type decides what min compares: the number, or the length           *)
Check(m, r) == Statement(m, r.op, r.arg)

Written(r) == r.op \in {"required", "default", "min", "max"}

(* generateValidations: the checks written so far and those of enum, which *)
(* are deferred to its end, the last one first                             *)
WrittenUpTo(rules) ==
  LET written[k \in 0..Len(rules)] ==
        IF k = 0 THEN <<>>
        ELSE IF Written(rules[k]) THEN Append(written[k - 1], rules[k]) ELSE written[k - 1]
  IN  written

DeferredUpTo(rules) ==
  LET deferred[k \in 0..Len(rules)] ==
        IF k = 0 THEN <<>>
        ELSE IF rules[k].op = "enum" THEN <<rules[k]>> \o deferred[k - 1] ELSE deferred[k - 1]
  IN  deferred

InOrder(rules) == WrittenUpTo(rules)[Len(rules)] \o DeferredUpTo(rules)[Len(rules)]

FieldCode(m) ==
  LET rules == InOrder(m.rules)
  IN  <<Fill(m)>> \o [k \in DOMAIN rules |-> Check(m, rules[k])]

(* A handler in blocks: the checks of authorisation and method, and then   *)
(* one for each field in their order                                       *)
None == [name |-> Blank, type |-> Blank]

Guards(e) ==
  (IF e.auth THEN <<Statement(None, "auth", Blank)>> ELSE <<>>)
  \o (IF e.method # Blank THEN <<Statement(None, "method", e.method)>> ELSE <<>>)

Code(e) ==
  LET params == ReadFields(e.fields)
  IN  <<Guards(e)>> \o [k \in DOMAIN params |-> FieldCode(params[k])]

-----------------------------------------------------------------------------
(* The handler.  Its state: the value of the field being checked, and the  *)
(* answer, which is status 0 while it goes on.                             *)
Refuses(s, v, req) ==
  \/ s.op = "auth" /\ ~req.auth
  \/ s.op = "method" /\ req.method # s.arg
  \/ s.op = "atoi" /\ FormValue(req, s.arg).int = {}
  \/ s.op = "required" /\ v.text = Blank
  \/ s.op = "min" /\ s.type = "int" /\ \E n \in v.int : n < s.arg
  \/ s.op = "min" /\ s.type = "string" /\ v.len < s.arg
  \/ s.op = "max" /\ \E n \in v.int : n > s.arg
  \/ s.op = "enum" /\ v.text \notin s.arg

Status(op) == CASE op = "auth" -> 403 [] op = "method" -> 406 [] OTHER -> 400

Assigned(s, v, req) ==
  IF s.op \in {"atoi", "read"} THEN FormValue(req, s.arg)
  ELSE IF s.op = "default" /\ v.text = Blank THEN s.arg
  ELSE v

(* The field an error names: the message of required is always the same    *)
Named(s) == IF s.op = "required" THEN "login" ELSE s.name

Executed(h, s, req) ==
  IF h.status # 0 THEN h
  ELSE IF Refuses(s, h.value, req) THEN [h EXCEPT !.status = Status(s.op), !.field = Named(s)]
  ELSE [h EXCEPT !.value = Assigned(s, h.value, req)]

Execute(block, start, req) ==
  LET after[k \in 0..Len(block)] ==
        IF k = 0 THEN start ELSE Executed(after[k - 1], block[k], req)
  IN  after

ExecuteBlocks(code, req) ==
  LET after[k \in 0..Len(code)] ==
        IF k = 0 THEN [status |-> 0, field |-> Blank, value |-> Empty]
        ELSE Execute(code[k], after[k - 1], req)[Len(code[k])]
  IN  after

(* Status and field of the error the handler of endpoint e answers req     *)
(* with, or status 0 if it calls the method.                               *)
Wrapper(e, req) ==
  LET h == ExecuteBlocks(Code(e), req)[Len(Code(e))]
  IN  [status |-> h.status, field |-> h.field]

(* the switch over the paths, in which no two cases are the same           *)
Cases(endpoints, req) == {at \in DOMAIN endpoints : endpoints[at].url = req.path}

ServeHTTP(endpoints, req) ==
  IF Cases(endpoints, req) = {} THEN [status |-> 404, field |-> Blank]
  ELSE Wrapper(endpoints[CHOOSE at \in Cases(endpoints, req) : TRUE], req)

(* Does the Go compiler accept the statement?  A text is read as it is;    *)
(* required, default and enum compare with a string, max with a number.    *)
WellTyped(s) ==
  /\ s.op \in {"read", "required", "default", "enum"} => s.type = "string"
  /\ s.op = "max" => s.type = "int"

Compiles(e) ==
  \A j \in DOMAIN Code(e) : \A k \in DOMAIN Code(e)[j] : WellTyped(Code(e)[j][k])

(* Two cases with one path, or two handlers of one name, are refused too.  *)
CompilesAll(endpoints) ==
  /\ \A at \in DOMAIN endpoints : Compiles(endpoints[at])
  /\ \A at, to \in DOMAIN endpoints : at # to =>
       endpoints[at].url # endpoints[to].url /\ endpoints[at].name # endpoints[to].name

Converts(e) ==
  \E j \in DOMAIN Code(e) : \E k \in DOMAIN Code(e)[j] : Code(e)[j][k].op = "atoi"

(* The generated file is one for all types.  It always imports strconv,    *)
(* which only the reading of an int uses: Go refuses an import not used.   *)
Builds(file) ==
  LET types == {f.recv : f \in {g \in ToSet(file.funcs) : g.pointer}}
  IN  /\ \A api \in types : CompilesAll(Apis(file, api))
      /\ \E api \in types : \E at \in DOMAIN Apis(file, api) : Converts(Apis(file, api)[at])

NotBuilt == [status |-> -1, field |-> Blank]

Respond(file, api, req) ==
  IF Builds(file) THEN ServeHTTP(Apis(file, api), req) ELSE NotBuilt

-----------------------------------------------------------------------------
(* The answers told from the file itself, not from generated statements    *)

(* The rules that govern a field: those of the last field with a tag, up   *)
(* to the field itself                                                     *)
Governing(fields, k) ==
  LET tagged == {j \in 1..k : fields[j].tag # {}}
      last   == CHOOSE j \in tagged : \A i \in tagged : i <= j
  IN  IF tagged = {} THEN <<>> ELSE CHOOSE t \in fields[last].tag : TRUE

(* The value the rule at place i sees: the default in the place of an      *)
(* empty one, if the default stands before the rule or the rule is enum    *)
Seen(rules, i, given) ==
  LET set == {d \in DOMAIN rules :
                rules[d].op = "default" /\ (d < i \/ rules[i].op = "enum")}
  IN  IF given.text = Blank /\ set # {} THEN rules[CHOOSE d \in set : TRUE].arg ELSE given

Broken(type, rules, given) ==
  {i \in DOMAIN rules :
     LET r == rules[i]
         v == Seen(rules, i, given)
     IN  \/ r.op = "required" /\ v.text = Blank
         \/ r.op = "min" /\ IF type = "int" THEN \E n \in v.int : n < r.arg ELSE v.len < r.arg
         \/ r.op = "max" /\ \E n \in v.int : n > r.arg
         \/ r.op = "enum" /\ v.text \notin r.arg}

(* The field blamed for the k-th, in a set, which is empty if nothing is   *)
(* wrong with it: "login" if the rule required is the first to be broken   *)
Blamed(fields, k, req) ==
  LET f      == fields[k]
      rules  == Governing(fields, k)
      given  == FormValue(req, ParamName([name |-> f.name, rules |-> rules]))
      broken == Broken(f.type, rules, given)
  IN  IF f.type = "int" /\ given.int = {} THEN {f.name}
      ELSE IF broken = {} THEN {}
      ELSE IF \E i \in broken : /\ rules[i].op = "required"
                                /\ \A j \in broken : j < i => rules[j].op = "enum"
      THEN {"login"}
      ELSE {f.name}

FirstWrong(d, req) ==
  LET wrong == {k \in DOMAIN d.fields : Blamed(d.fields, k, req) # {}}
      first == CHOOSE k \in wrong : \A j \in wrong : k <= j
  IN  IF d.auth /\ ~req.auth THEN [status |-> 403, field |-> Blank]
      ELSE IF d.method # Blank /\ req.method # d.method THEN [status |-> 406, field |-> Blank]
      ELSE IF wrong = {} THEN [status |-> 0, field |-> Blank]
      ELSE [status |-> 400,
            field |-> CHOOSE name \in Blamed(d.fields, first, req) : TRUE]

(* What the mark of a method asks for                                      *)
Data(file, f) ==
  LET mark == Unmarshal(Head(f.marks), NoData)
  IN  [url |-> mark.url, auth |-> mark.auth, method |-> mark.method,
       fields |-> Fields(file, f.params)]

Served(file) == {f \in ToSet(file.funcs) : f.pointer /\ f.marks # <<>>}

(* Files whose handlers build: methods have one mark, those of a type      *)
(* different paths; rules suit the fields they govern, and some is an int  *)
Suit(type, rules) ==
  \A i \in DOMAIN rules :
    /\ rules[i].op \in {"required", "default", "enum"} => type = "string"
    /\ rules[i].op = "max" => type = "int"

Buildable(file) ==
  /\ \A f \in Served(file) :
       /\ Len(f.marks) = 1
       /\ \A k \in DOMAIN Data(file, f).fields :
            Suit(Data(file, f).fields[k].type, Governing(Data(file, f).fields, k))
  /\ \A f, g \in Served(file) :
       f # g /\ f.recv = g.recv => Data(file, f).url # Data(file, g).url
  /\ \E f \in Served(file) : \E k \in DOMAIN Data(file, f).fields :
       Data(file, f).fields[k].type = "int"

Answer(file, api, req) ==
  LET methods == {f \in Served(file) : f.recv = api /\ Data(file, f).url = req.path}
  IN  IF ~Buildable(file) THEN NotBuilt
      ELSE IF methods = {} THEN [status |-> 404, field |-> Blank]
      ELSE FirstWrong(Data(file, CHOOSE f \in methods : TRUE), req)

(* What Go provides, the methods of a type have different names, and what  *)
(* the generator is written for: fields are ints or strings, and a tag has *)
(* each rule at most once.                                                 *)
Once(rules) ==
  /\ rules \in Seq(ToSet(rules))
  /\ \A i, j \in DOMAIN rules : rules[i].op = rules[j].op => i = j

IsFields(fields) ==
  /\ fields \in Seq(ToSet(fields))
  /\ \A k \in DOMAIN fields :
       /\ fields[k].type \in {"int", "string"}
       /\ fields[k].tag # {} => \E rules \in fields[k].tag : fields[k].tag = {rules} /\ Once(rules)

IsMark(mark) == "auth" \in DOMAIN mark => mark.auth \in BOOLEAN

IsApiFile(file) ==
  /\ file.funcs \in Seq(ToSet(file.funcs))
  /\ \A m, n \in DOMAIN file.funcs :
       file.funcs[m].recv = file.funcs[n].recv /\ file.funcs[m].name = file.funcs[n].name
         => m = n
  /\ \A f \in ToSet(file.funcs) :
       /\ f.marks \in Seq(ToSet(f.marks)) /\ \A mark \in ToSet(f.marks) : IsMark(mark)
       /\ IsFields(Fields(file, f.params))

-----------------------------------------------------------------------------
(* What hw5.md says a handler answers: the method comes before the         *)
(* authorisation, a field has the rules of its own tag, a default stands   *)
(* for an empty value wherever it is written, every file can be built.     *)

(* The arguments of the rules of a field with a given name                 *)
Args(f, op) == {r.arg : r \in {q \in UNION {ToSet(t) : t \in f.tag} : q.op = op}}

Param(f) == IF Args(f, "paramname") = {} THEN f.name
            ELSE CHOOSE p \in Args(f, "paramname") : TRUE

ValueOf(f, req) ==
  LET v == FormValue(req, Param(f))
  IN  IF v.text = Blank /\ Args(f, "default") # {}
      THEN CHOOSE d \in Args(f, "default") : TRUE ELSE v

ValidField(f, req) ==
  LET v == ValueOf(f, req)
  IN  /\ Args(f, "required") # {} => v.text # Blank
      /\ f.type = "int" => v.int # {}
      /\ \A allowed \in Args(f, "enum") : v.text \in allowed
      /\ \A min \in Args(f, "min") :
           IF f.type = "int" THEN \A n \in v.int : n >= min ELSE v.len >= min
      /\ \A max \in Args(f, "max") : \A n \in v.int : n <= max

Documented(file, api, req) ==
  LET methods == {f \in ToSet(file.funcs) :
                    f.recv = api /\ f.marks # <<>> /\ Data(file, f).url = req.path}
      d       == Data(file, CHOOSE f \in methods : TRUE)
      wrong   == {k \in DOMAIN d.fields : ~ValidField(d.fields[k], req)}
  IN  IF methods = {} THEN [status |-> 404, field |-> Blank]
      ELSE IF d.method # Blank /\ req.method # d.method THEN [status |-> 406, field |-> Blank]
      ELSE IF d.auth /\ ~req.auth THEN [status |-> 403, field |-> Blank]
      ELSE IF wrong = {} THEN [status |-> 0, field |-> Blank]
      ELSE [status |-> 400,
            field |-> d.fields[CHOOSE k \in wrong : \A j \in wrong : k <= j].name]
================================================================================
