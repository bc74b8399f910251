----------------------------- MODULE MCDbExplorer -----------------------------
(***************************************************************************)
(* The explorer over the table items of the tests, cut to two columns, and *)
(* two tables with the types the tests leave out.  A .cfg picks requests   *)
(* of this catalogue.  TLC evaluates a definition of the module once, but  *)
(* what a constant is replaced by at every use: hence the two names.       *)
(***************************************************************************)
EXTENDS DbExplorer, TLC

text(s)   == [kind |-> "string", v |-> s]
int(n)    == [kind |-> "int", v |-> n]
column(type, null) == [type |-> type, null |-> null]

shown == <<[table |-> "counters", columns |-> <<"counter_id", "total">>],
           [table |-> "items",    columns |-> <<"id", "title", "updated">>],
           [table |-> "prices",   columns |-> <<"price_id", "price", "stock">>]>>

schema ==
  [items    |-> [title |-> column("varchar", FALSE), updated |-> column("varchar", TRUE)],
   prices   |-> [price |-> column("double", FALSE), stock |-> column("int", TRUE)],
   counters |-> [total |-> column("bigint unsigned", FALSE)]]

keys == [items |-> "id", prices |-> "price_id", counters |-> "counter_id"]

records ==
  [items    |-> (1 :> [title |-> text("database/sql"), updated |-> text("rvasily")])
                @@ (2 :> [title |-> text("memcache"), updated |-> Null]),
   prices   |-> (1 :> [price |-> [kind |-> "fraction", v |-> "1.5"], stock |-> int("7")]),
   counters |-> (1 :> [total |-> TooBig])]

request(method, table, id, body) ==
  [method |-> method, table |-> table, id |-> id, word |-> FALSE, limit |-> {}, offset |-> {},
   body |-> body]

(* Another UPDATE may change a record or its key                           *)
others ==
  [items    |-> {1 :> [title |-> text("x"), updated |-> Null],
                 42 :> [title |-> text("x"), updated |-> text("rvasily")]},
   prices   |-> {<<>>},
   counters |-> {<<>>}]

empty == [c \in {} |-> Null]

catalogue ==
  [nowhere  |-> request("PUT", "", {}, "title" :> text("db_crud")),
   other    |-> request("PATCH", "items", {1}, empty),
   second   |-> [request("GET", "items", {}, empty) EXCEPT !.limit = {2}, !.offset = {1}],
   get1     |-> request("GET", "items", {1}, empty),
   get3     |-> request("GET", "items", {3}, empty),
   put      |-> request("PUT", "items", {}, "title" :> text("db_crud") @@ "id" :> int("42")
                       @@ "updated" :> [kind |-> "bool", v |-> "true"] @@ "unknown" :> text("x")),
   post3    |-> request("POST", "items", {3}, "updated" :> text("autotests")),
   postNull |-> request("POST", "items", {1}, "updated" :> Null),
   postTitle |-> request("POST", "items", {1}, "title" :> Null),
   postKey  |-> request("POST", "items", {1}, "id" :> int("42")),
   postNone |-> request("POST", "items", {1}, "unknown" :> text("x")),
   delete1  |-> request("DELETE", "items", {1}, empty),
   delete1b |-> request("DELETE", "items", {1}, empty),
   deleteAll |-> [request("DELETE", "items", {}, empty) EXCEPT !.word = TRUE],
   quoted   |-> request("POST", "items", {1}, "updated" :> text("it's \"x\"")),
   long     |-> request("POST", "items", {1}, "updated" :> text("too long")),
   array    |-> request("PUT", "items", {}, "updated" :> [kind |-> "nested", v |-> "[]"]),
   chosen   |-> request("PUT", "counters", {}, "counter_id" :> [kind |-> "bool", v |-> "false"]),
   count    |-> [request("GET", "counters", {}, empty) EXCEPT !.limit = {1}],
   counters |-> request("PUT", "counters", {}, empty),
   again    |-> request("PUT", "counters", {}, empty),
   double   |-> request("PUT", "prices", {}, empty)]

MCShown   == shown
MCBreaks  == {[tables |-> 1, table |-> "counters", columns |-> 0],
              [tables |-> 3, table |-> "items",    columns |-> 2]}
MCColumns == schema
MCKey     == keys
MCOthers  == others
MCQuoting == {"it's \"x\""}
MCStored  == records
MCReq     == catalogue
==================================================================================
