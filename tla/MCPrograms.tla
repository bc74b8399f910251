-------------------------------- MODULE MCPrograms --------------------------------
(***************************************************************************)
(* The sequential programs on every input of small sets: the generated     *)
(* handlers and their generator (hw5), its example, dirTree (hw1), the two *)
(* searches (hw3) and i2s (hw8).  Each behaviour runs one of them once.    *)
(* The caller who pages with FindUsers (hw4) is a process of its own, and  *)
(* has ended in the behaviours of the others.                              *)
(***************************************************************************)
EXTENDS MCHandlers, SearchClient

D == INSTANCE DirTree
I == INSTANCE I2s

-----------------------------------------------------------------------------
(* FastSearch: files of up to three lines, the empty one among them, which *)
(* FastSearch takes and SlowSearch does not                                *)
Line(json, list, browsers, name, email, long) ==
  [json |-> json, list |-> list, browsers |-> browsers,
   name |-> name, email |-> email, long |-> long]

Lines ==
  {Line("object", "good", b, "good", "good", FALSE) :
     b \in {<<>>, <<"A">>, <<"M">>, <<"AM">>, <<"X", "A">>, <<"M", "7", "A">>}}
  \cup {Line("object", "good", b, n, e, FALSE) :
     b \in {<<"A">>, <<"M", "A">>}, n \in {"good", "none", "other"}, e \in {"good", "none", "other"}}
  \cup {Line(j, l, <<>>, "none", "none", FALSE) : j \in {"null", "broken"}, l \in {"none"}}
  \cup {Line("object", l, <<>>, "good", "good", FALSE) : l \in {"none", "other"}}
  \cup {Line("object", "good", <<"M", "A">>, "good", "good", TRUE)}

MCFiles == {file \in [lines : BoundedSeq(Lines, 3), newline : BOOLEAN] : IsFile(file)}

-----------------------------------------------------------------------------
(* dirTree: all trees of up to four entries, any of whose directories, and *)
(* the root too, may be one that cannot be read                            *)
Acyclic(parent) ==
  \A s \in SUBSET DOMAIN parent : s # {} => \E e \in s : parent[e] \notin s

Trees(n) ==
  {t \in [parent : {p \in [1..n -> 0..n] : Acyclic(p)}, dirs : SUBSET (1..n),
          closed : {{}} \cup {{d} : d \in 0..n}] :
     /\ \A e \in 1..n : t.parent[e] \in t.dirs \cup {D!Root}
     /\ t.closed \subseteq t.dirs \cup {D!Root}}

InitTree ==
  \E n \in 0..4, printFiles \in BOOLEAN : \E tree \in Trees(n) :
    task = [program |-> "tree", printFiles |-> printFiles, tree |-> tree]

-----------------------------------------------------------------------------
(* i2s: variables and data as in its tests, with fewer fields              *)
GoInt(n)  == [kind |-> "int", value |-> n]
GoBool(b)  == [kind |-> "bool", value |-> b]
Float(h) == [kind |-> "float64", value |-> h]
Json(b)  == [kind |-> "bool", value |-> b]
Nil      == [kind |-> "nil", value |-> FALSE]
Map(f)   == [kind |-> "map", value |-> f]
Slice(s) == [kind |-> "slice", value |-> s]

Simple(n, b) == [kind |-> "struct", value |-> [ID |-> GoInt(n), Active |-> GoBool(b)]]
SliceOf(zero, s) == [kind |-> "slice", value |-> s, zero |-> zero]
Complex == [kind |-> "struct",
            value |-> [SubSimple |-> Simple(7, TRUE),
                       ManySimple |-> SliceOf(Simple(0, FALSE), <<Simple(7, TRUE)>>)]]

Scalars == {Float(h) : h \in {-3, 5, 84}} \cup {Json(TRUE), [kind |-> "string", value |-> "42"]}

SimpleData ==
  {Map([ID |-> v]) : v \in Scalars}
  \cup {Map([ID |-> v, Active |-> w]) : v, w \in Scalars}
  \cup {Map([ID |-> Float(84), Extra |-> Json(TRUE)]), Map([ID |-> Nil, Active |-> Json(TRUE)])}

Some == {Map([ID |-> Float(84), Active |-> Json(TRUE)]),
         Map([ID |-> Float(84), Active |-> Float(5)]), Json(TRUE)}

ComplexData ==
  {Map([SubSimple |-> v, ManySimple |-> Slice(s)]) : v \in Some, s \in BoundedSeq(Some, 2)}
  \cup {Map([ManySimple |-> v]) : v \in {Map([ID |-> Float(84)]), Nil, Slice(<<Nil>>)}}

InitConvert ==
  \E pair \in (SimpleData \X {Simple(7, TRUE)}) \cup (ComplexData \X {Complex})
              \cup {<<Slice(<<Map([ID |-> Float(84)])>>), Simple(7, TRUE)>>},
     pointer \in BOOLEAN :
    task = [program |-> "i2s", data |-> pair[1], out |-> pair[2], pointer |-> pointer]

-----------------------------------------------------------------------------
(* The example generator: a struct as User of pack/unpack.go among groups  *)
(* of other types, and data cut anywhere                                   *)
Field(name, type, skip) == [name |-> name, type |-> type, skip |-> skip]
Type(name, marked, struct, fields) ==
  [name |-> name, marked |-> marked, struct |-> struct, fields |-> fields]

User == Type("User", TRUE, TRUE, <<Field("ID", "int", FALSE), Field("RealName", "string", TRUE),
                                   Field("Login", "string", FALSE), Field("Flags", "int", FALSE)>>)

GoFiles ==
  {<<User,
     Type("Avatar", m, TRUE, <<Field("ID", "int", FALSE), Field("Url", "string", FALSE)>>),
     Type("Status", n, FALSE, <<>>),
     Type("Price", n, TRUE, <<Field("Amount", "float64", FALSE)>>)>> : m, n \in BOOLEAN}

MCUnpacks ==
  LET Cut(v, cut) == LET all == PackAll(User, v)
                     IN  SubSeq(all, 1, IF cut < Len(all) THEN cut ELSE Len(all))
  IN  {[file |-> file, type |-> User, v |-> v, data |-> Cut(v, cut),
        in |-> [ID |-> 5, RealName |-> <<2>>, Login |-> <<2>>, Flags |-> 5]] :
         file \in GoFiles, cut \in 0..15,
         v \in [ID : {0, 1, 77, 255, 256, -1}, RealName : {<<1>>}, Flags : {16},
                Login : {<<>>, <<3>>, <<1, 0, 2>>}]}

-----------------------------------------------------------------------------
(* A caller of FindUsers who has ended                                     *)
Parked ==
  /\ limit = 1 /\ first = Len(Found) /\ offset = first
  /\ caller = "end" /\ result = Failure("") /\ got = <<>> /\ failures = 0

MCInit ==
  /\ output = {}
  /\ \/ Init /\ task = [program |-> "FindUsers"]
     \/ Parked /\ (InitHandler \/ InitSearch \/ InitTree \/ InitConvert \/ InitUnpack)

RunTree    == Run("tree") /\ output' = {D!Draw(task.tree, task.printFiles)}
RunConvert == Run("i2s") /\ \E o \in I!i2s(task.data, task.out, task.pointer) : output' = {o}
RunFindUsers == task.program = "FindUsers" /\ Next /\ UNCHANGED <<task, output>>

Finished == output # {} /\ UNCHANGED <<task, output, vars>>

MCNext ==
  \/ (RunHandler \/ RunSearch \/ RunTree \/ RunConvert \/ RunUnpack) /\ UNCHANGED vars
  \/ RunFindUsers
  \/ Finished

MCSpec == MCInit /\ [][MCNext]_<<task, output, vars>> /\ WF_vars(RunFindUsers)

-----------------------------------------------------------------------------
(* dirTree draws each entry that it can reach once, in alphabetical order  *)
(* and at its depth, and the branches connect: the prefix of a line shows  *)
(* exactly which of the directories it lies in have further entries.       *)
DrawsTree ==
  Ran("tree") => /\ D!DrawsEntries(task.tree, task.printFiles, Output.lines)
                 /\ D!Connected(Output.lines)

(* i2s fills a variable completely if the data has its type, in whatever   *)
(* order Go walks its maps, and never succeeds otherwise.  When it fails,  *)
(* each part of the variable is as before or as it should be, and it       *)
(* panics for a null and an unknown field only.                            *)
ConvertsOrFails ==
  Ran("i2s") =>
    IF task.pointer
    THEN /\ I!ConvertsAll(task.data, task.out, Output)
         /\ I!PartlyFilled(task.data, task.out, Output.out)
         /\ Output.status = "panic" => I!HasNullOrUnknown(task.data, task.out)
    ELSE Output = [status |-> "mismatch", out |-> task.out]

(* Programs_proofs shows the properties of Programs for all inputs that    *)
(* satisfy these conditions: api.go does, and the inputs above.            *)
ASSUME InputsAreDescribed == RequestsDescribed /\ FilesAreLines /\ DataPacked

MCFound   == <<"a", "b", "c", "d", "e">>
MCLimits  == {-1, 0, 1, 2, 3, 4}
MCOffsets == {-1, 0, 1, 4, 5, 6}
===================================================================================
