---------------------------- MODULE MCMicroservice ----------------------------
(* Calls of the tests of the repository and the part of their ACL that     *)
(* concerns them.                                                          *)
EXTENDS Microservice, TLC

CONSTANTS l1, l2, s1, b1, d1

methods == l1 :> Logging @@ l2 :> Logging @@ s1 :> Statistics
           @@ b1 :> "/main.Biz/Check" @@ d1 :> "/main.Biz/Test"

consumers == l1 :> "logger" @@ l2 :> "logger" @@ s1 :> "stat"
             @@ b1 :> "biz_admin" @@ d1 :> "biz_user"

acl == "logger" :> {Logging} @@ "stat" :> {Statistics}
       @@ "biz_user" :> {"/main.Biz/Check", "/main.Biz/Add"}
       @@ "biz_admin" :> {"/main.Biz/*"}

MCRegexp(mask, m) ==
  \/ mask = m
  \/ mask = "/main.Biz/*" /\ m \in {"/main.Biz/Check", "/main.Biz/Add", "/main.Biz/Test"}

methodOf   == [c \in Calls |-> methods[c]]
consumerOf == [c \in Calls |-> consumers[c]]

(* TLC evaluates a definition once, but what a constant is replaced by at  *)
(* every use: hence a second name.                                         *)
MethodOf   == methodOf
ConsumerOf == consumerOf
MCACL      == acl
===============================================================================
