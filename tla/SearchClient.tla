------------------------------ MODULE SearchClient ------------------------------
(***************************************************************************)
(* FindUsers of hw4_test_coverage/client.go, and a caller who reads with   *)
(* it, page after page, the users that a query finds.  A request may fail  *)
(* in every way the code tells apart; the caller then repeats it.          *)
(*                                                                         *)
(* An answer of the server is [status, body, users, error]: body "users"   *)
(* for a list of users, "error" for an object with an error, "broken" for  *)
(* what is neither; status 0, with the reason, if no answer came.          *)
(***************************************************************************)
EXTENDS Integers, Sequences

CONSTANTS MaxLimit,     \* 25: FindUsers asks for no more users
          Users,        \* of the server
          Found,        \* those the query finds, in the order asked for
          Limits,       \* the limits callers ask for
          Offsets,      \* the offsets they begin with
          MaxFailures   \* how often the server fails

ASSUME SearchAssumption ==
  /\ MaxLimit \in Nat \ {0}
  /\ Found \in Seq(Users)
  /\ Limits \subseteq Int
  /\ Offsets \subseteq Int
  /\ MaxFailures \in Nat

VARIABLES limit, first,  \* what the caller began with
          offset,        \* of the page he reads
          caller,        \* "call", "wait", "return", "end" or "refused"
          result,        \* of the last call: [error, users, nextPage]
          got,           \* the users read
          failures
vars == <<limit, first, offset, caller, result, got, failures>>

-----------------------------------------------------------------------------
(* Faulty variants of some definitions below.                              *)

(* no user more than the page asked for                                    *)
NoneExtra(l) == IF l > MaxLimit THEN MaxLimit ELSE l

(* the status not looked at                                                *)
AnyStatus(reply) == reply.body = "users"

-----------------------------------------------------------------------------
(* the limit sent: one more than the page, to see whether there is another *)
Asked(l) == (IF l > MaxLimit THEN MaxLimit ELSE l) + 1

(* is the body unmarshalled into users, and with success?                  *)
Unpacked(reply) ==
  reply.status \notin {0, 400, 401, 500} /\ reply.body = "users"

ErrorOf(reply) ==
  CASE reply.status = 0 -> reply.error
    [] reply.status = 401 -> "Bad AccessToken"
    [] reply.status = 500 -> "SearchServer fatal error"
    [] reply.status = 400 ->
         IF reply.body # "error" THEN "cant unpack error json"
         ELSE IF reply.error = "ErrorBadOrderField" THEN "OrderField invalid"
         ELSE "unknown bad request error"
    [] OTHER -> "cant unpack result json"

Failure(error) == [error |-> error, users |-> <<>>, nextPage |-> FALSE]

(* What FindUsers returns, having asked for n users                        *)
FindUsers(reply, n) ==
  IF ~Unpacked(reply) THEN Failure(ErrorOf(reply))
  ELSE [error    |-> "",
        users    |-> IF Len(reply.users) = n THEN SubSeq(reply.users, 1, n - 1) ELSE reply.users,
        nextPage |-> Len(reply.users) = n]

-----------------------------------------------------------------------------
(* The server: up to n of the users found, from an offset on               *)
Smaller(a, b) == IF a < b THEN a ELSE b

Window(from, n) == SubSeq(Found, from + 1, Smaller(from + n, Len(Found)))

Serve(n) == [status |-> 200, body |-> "users", users |-> Window(offset, n), error |-> ""]

(* Failures: no answer, a status that refuses whatever the body, an error  *)
(* object, or a body that cannot be unpacked                               *)
FailedReplies ==
  {r \in [status : {0, 200, 400, 401, 404, 500}, body : {"users", "error", "broken"},
          users : {<<>>}, error : {"", "timeout", "unknown error", "ErrorBadOrderField"}] :
     /\ r.status = 0 => r.body = "broken"
     /\ r.status = 0 <=> r.error \in {"timeout", "unknown error"}
     /\ r.body = "users" => r.status \in {400, 401, 500}}

-----------------------------------------------------------------------------
Init ==
  /\ limit \in Limits
  /\ first \in Offsets
  /\ offset = first
  /\ caller = "call"
  /\ result = Failure("")
  /\ got = <<>>
  /\ failures = 0

(* FindUsers refuses a negative limit or offset, or sends the request      *)
Call ==
  /\ caller = "call"
  /\ caller' = IF limit < 0 \/ offset < 0 THEN "refused" ELSE "wait"
  /\ UNCHANGED <<limit, first, offset, result, got, failures>>

Return(reply) ==
  /\ caller = "wait"
  /\ result' = FindUsers(reply, Asked(limit))
  /\ caller' = "return"
  /\ UNCHANGED <<limit, first, offset, got>>

Answered == Return(Serve(Asked(limit))) /\ UNCHANGED failures

Fail ==
  /\ failures < MaxFailures
  /\ failures' = failures + 1
  /\ \E reply \in FailedReplies : Return(reply)

(* The caller keeps the page and asks for what follows it, until there is  *)
(* no next page.                                                           *)
TakePage ==
  /\ caller = "return"
  /\ result.error = ""
  /\ got' = got \o result.users
  /\ offset' = offset + Len(result.users)
  /\ caller' = IF result.nextPage THEN "call" ELSE "end"
  /\ UNCHANGED <<limit, first, result, failures>>

Retry ==
  /\ caller = "return"
  /\ result.error # ""
  /\ caller' = "call"
  /\ UNCHANGED <<limit, first, offset, result, got, failures>>

Ended == caller \in {"end", "refused"} /\ UNCHANGED vars

Next == Call \/ Answered \/ Fail \/ TakePage \/ Retry \/ Ended

(* Each call ends: the client of FindUsers gives up after a second.        *)
Spec == Init /\ [][Next]_vars /\ WF_vars(Next)

-----------------------------------------------------------------------------
(* Properties                                                              *)

TypeOK ==
  /\ limit \in Limits /\ first \in Offsets
  /\ offset \in Int
  /\ caller \in {"call", "wait", "return", "end", "refused"}
  /\ DOMAIN result = {"error", "users", "nextPage"}
  /\ failures \in 0..MaxFailures

(* However the limit lies to MaxLimit and to the number of users, and      *)
(* whichever calls fail between, the pages read are the users found, each  *)
(* once and in order, and the last page comes when there are no more.      *)
EveryUserOnce ==
  /\ got = SubSeq(Found, first + 1, offset)
  /\ caller = "end" => offset >= Len(Found)

(* With a limit the caller comes to the end.  With the limit 0, which      *)
(* FindUsers accepts ("limit must be > 0", it says, and tests < 0), every  *)
(* page is empty and has a next one.                                       *)
PagingEnds ==
  /\ limit # 0 \/ first >= Len(Found) => <>(caller \in {"end", "refused"})
  /\ (limit = 0 /\ first \in 0..Len(Found) - 1) => [](caller # "end")
================================================================================
