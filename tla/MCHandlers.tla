-------------------------------- MODULE MCHandlers --------------------------------
(***************************************************************************)
(* The requests for the generated handlers of hw5: for the types of api.go,*)
(* and of small files with other structs and tags.                         *)
(***************************************************************************)
EXTENDS Programs

CONSTANT Structs  \* which structs the requests are for

A == INSTANCE ApiStructs

-----------------------------------------------------------------------------
(* Handlers: api.go, and files with one endpoint.  Some of the fields are  *)
(* in a struct only to make the generated file one that builds.            *)
One(mark, fields) ==
  [funcs |-> <<A!Func("Method", "T", TRUE, <<mark>>, "Params")>>,
   structs |-> [Params |-> fields]]

Age   == A!Field("age", "int", <<A!Rule("min", 1)>>)
User4 == A!Text("user", 4)
Url   == [url |-> "/x"]

FileOf(s) ==
  CASE s \in {"profile", "create", "other"} -> A!ApiGo
    [] s = "posted" -> One(Url @@ [auth |-> TRUE, method |-> "POST"], <<Age>>)
    [] s = "untagged" -> One(Url, <<Age, A!Field("login", "string", <<A!Rule("required", "")>>),
                                    A!Untagged("name", "string")>>)
    [] s = "minFirst" -> One(Url, <<Age, A!Field("login", "string", <<A!Rule("min", 3),
                                      A!Rule("default", User4), A!Rule("enum", {"user", "ab"})>>)>>)
    [] s = "named" -> One(Url, <<A!Field("username", "string", <<A!Rule("enum", {"ab"}),
                                   A!Rule("required", "")>>), Age>>)
    [] s = "requiredInt" -> One(Url, <<A!Field("age", "int", <<A!Rule("required", "")>>)>>)
    [] s = "strings" -> One(Url, <<A!Field("login", "string", <<A!Rule("required", "")>>)>>)
    [] s = "marks" -> [One(Url, <<Age>>) EXCEPT !.funcs[1].marks = <<Url, [auth |-> TRUE]>>]
    [] s = "samePath" -> [One(Url, <<Age>>) EXCEPT
                            !.funcs = Append(@, [@[1] EXCEPT !.name = "Other"])]

TypeOf(s) == CASE s \in {"profile", "create"} -> "MyApi" [] s = "other" -> "OtherApi" [] OTHER -> "T"

PathsOf(s) == CASE s = "profile" -> {"/user/unknown", "/user/profile"}
                [] s \in {"create", "other"} -> {"/user/unknown", "/user/create"}
                [] OTHER -> {"/x"}

Logins == {A!Empty, A!Text("new_mod9c", 9), A!Text("new_mod10c", 10)}
Names  == {A!Empty, A!Text("ab", 2), A!Text("abc", 3)}
Numbers(s) == {A!Empty, A!Text("ten", 3)} \cup {A!Number(ToString(n), n) : n \in s}

ValuesOf(s) ==
  CASE s = "profile" -> [login |-> {A!Empty, A!Text("rvasily", 7)}]
    [] s = "create" -> [login |-> Logins, full_name |-> {A!Empty, A!Text("Ivan", 4)},
                        status |-> {A!Empty, A!Text("adm", 3), A!Text("admin", 5)},
                        age |-> Numbers({-1, 0, 128, 129})]
    [] s = "other" -> [username |-> Names, account_name |-> {A!Text("Vasily", 6)},
                       class |-> {A!Empty, A!Text("barbarian", 9), A!Text("rouge", 5)},
                       level |-> Numbers({0, 1, 50, 51})]
    [] s \in {"untagged", "minFirst", "strings"} ->
         [login |-> {A!Empty, A!Text("ab", 2), A!Text("abc", 3)},
          name |-> {A!Empty, A!Text("Ivan", 4)}, age |-> Numbers({1})]
    [] s = "named" -> [username |-> Names, age |-> Numbers({0, 1})]
    [] OTHER -> [age |-> Numbers({0, 1})]

(* All choices of one value for each name                                  *)
Forms(values) ==
  {f \in [DOMAIN values -> UNION {values[n] : n \in DOMAIN values}] :
     \A n \in DOMAIN values : f[n] \in values[n]}

MCRequests ==
  UNION {{[file |-> FileOf(s), api |-> TypeOf(s),
           req |-> [path |-> path, auth |-> auth, method |-> method, form |-> form]] :
            path \in PathsOf(s), auth \in BOOLEAN, method \in {"GET", "POST"},
            form \in Forms(ValuesOf(s))} : s \in Structs}
===================================================================================
