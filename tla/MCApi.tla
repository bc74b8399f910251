---------------------------------- MODULE MCApi ----------------------------------
(* Requests as in TestMyApi: two that create one login, one that creates   *)
(* another, a profile of the first login, one with a name the method       *)
(* refuses and one without authorisation.  Module Handlers says what the   *)
(* generated wrappers make of them.                                        *)
EXTENDS Api, TLC

CONSTANTS c1, c2, c3, p1, bad, unauth

logins == c1 :> "mr.moderator" @@ c2 :> "mr.moderator" @@ c3 :> "new_moderator3"
          @@ p1 :> "mr.moderator" @@ bad :> "bad_username" @@ unauth :> "mr.moderator"

H == INSTANCE ApiStructs

Form(r) == [login |-> H!Text(Login[r], 12), age |-> H!Number("32", 32)]

verdicts == [r \in Requests |-> IF r = unauth THEN 403 ELSE 0]

ASSUME VerdictsOfTheGeneratedCode ==
  \A r \in Requests :
    Verdict[r] = H!Wrapper(IF r \in Creates THEN H!Create ELSE H!Profile,
                           [auth |-> r # unauth, method |-> "POST", form |-> Form(r)]).status

initial == [l \in Logins |-> IF l = "rvasily" THEN 42 ELSE 0]

(* TLC evaluates these once.                                               *)
MCLogin   == logins
MCVerdict == verdicts
MCInitial == initial
================================================================================
