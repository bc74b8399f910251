------------------------------ MODULE UserRegistry ------------------------------
(***************************************************************************)
(* What the user API of hw5_codegen promises: a registry in which each     *)
(* request takes effect at one instant.  A login is registered once, under *)
(* an identifier no other login has, and can be found from then on.        *)
(***************************************************************************)
EXTENDS Naturals

CONSTANTS Requests, Login,
          Creates,   \* the requests that register their login; others look it up
          Refusal,   \* the status of those with invalid parameters, 0 for others
          Initial    \* the users there at the start

VARIABLES users,     \* identifier of each login, 0 if it has none
          outcome    \* what each request obtained: a status, an identifier

vars == <<users, outcome>>

Pending == [status |-> 0, id |-> 0]

Init == users = Initial /\ outcome = [r \in Requests |-> Pending]

Obtain(r, status, id) ==
  /\ outcome[r] = Pending
  /\ outcome' = [outcome EXCEPT ![r] = [status |-> status, id |-> id]]

(* A request with invalid parameters changes nothing                       *)
Refuse(r) == Refusal[r] # 0 /\ Obtain(r, Refusal[r], 0) /\ UNCHANGED users

Finds(r)     == Refusal[r] = 0 /\ r \notin Creates
Registers(r) == Refusal[r] = 0 /\ r \in Creates

Find(r) == /\ Finds(r)
           /\ IF users[Login[r]] = 0
              THEN Obtain(r, 404, 0) ELSE Obtain(r, 200, users[Login[r]])
           /\ UNCHANGED users

(* The new identifier is any that no login has                             *)
Register(r) ==
  LET id == users'[Login[r]]
  IN  /\ Registers(r) /\ users[Login[r]] = 0
      /\ \A l \in DOMAIN users : users[l] # id
      /\ users' = [users EXCEPT ![Login[r]] = id]
      /\ Obtain(r, 200, id)

Conflict(r) ==
  /\ Registers(r) /\ users[Login[r]] # 0
  /\ Obtain(r, 409, 0)
  /\ UNCHANGED users

Next == \E r \in Requests : Refuse(r) \/ Find(r) \/ Conflict(r) \/ Register(r)

(* ... and every request gets its outcome.                                 *)
Spec == Init /\ [][Next]_vars /\ <>(\A r \in Requests : outcome[r] # Pending)
================================================================================
