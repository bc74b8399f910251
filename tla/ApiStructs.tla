------------------------------- MODULE ApiStructs -------------------------------
(***************************************************************************)
(* The parameter structs of hw5_codegen/api.go with their apivalidator     *)
(* tags, and its functions with their apigen marks.                        *)
(***************************************************************************)
EXTENDS Handlers

Text(t, n) == [text |-> t, len |-> n, int |-> {}]
Number(t, n) == [text |-> t, len |-> 2, int |-> {n}]

Rule(op, arg) == [op |-> op, arg |-> arg]
Field(name, type, rules) == [name |-> name, type |-> type, tag |-> {rules}]
Untagged(name, type)     == [name |-> name, type |-> type, tag |-> {}]

ProfileFields == <<Field("login", "string", <<Rule("required", "")>>)>>

CreateFields == <<
  Field("login", "string", <<Rule("required", ""), Rule("min", 10)>>),
  Field("name", "string", <<Rule("paramname", "full_name")>>),
  Field("status", "string", <<Rule("enum", {"user", "moderator", "admin"}),
                              Rule("default", Text("user", 4))>>),
  Field("age", "int", <<Rule("min", 0), Rule("max", 128)>>)>>

OtherFields == <<
  Field("username", "string", <<Rule("required", ""), Rule("min", 3)>>),
  Field("name", "string", <<Rule("paramname", "account_name")>>),
  Field("class", "string", <<Rule("enum", {"warrior", "sorcerer", "rouge"}),
                             Rule("default", Text("warrior", 7))>>),
  Field("level", "int", <<Rule("min", 1), Rule("max", 50)>>)>>

Func(name, recv, pointer, marks, params) ==
  [name |-> name, recv |-> recv, pointer |-> pointer, marks |-> marks, params |-> params]

ApiGo ==
  [funcs |-> <<
     Func("Error", "ApiError", FALSE, <<>>, ""),
     Func("NewMyApi", "", FALSE, <<>>, ""),
     Func("Profile", "MyApi", TRUE,
          <<[url |-> "/user/profile", auth |-> FALSE]>>, "ProfileParams"),
     Func("Create", "MyApi", TRUE,
          <<[url |-> "/user/create", auth |-> TRUE, method |-> "POST"]>>, "CreateParams"),
     Func("Create", "OtherApi", TRUE,
          <<[url |-> "/user/create", auth |-> TRUE, method |-> "POST"]>>, "OtherCreateParams")>>,
   structs |-> [ProfileParams     |-> ProfileFields,
                CreateParams      |-> CreateFields,
                OtherCreateParams |-> OtherFields]]

Profile == Apis(ApiGo, "MyApi")[<<3, 1>>]
Create  == Apis(ApiGo, "MyApi")[<<4, 1>>]
=================================================================================
