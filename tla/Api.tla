----------------------------------- MODULE Api -----------------------------------
(***************************************************************************)
(* MyApi of hw5_codegen/api.go behind its generated handlers: each request *)
(* is handled in a goroutine of its own; Profile looks a login up under    *)
(* the read lock, Create checks it, takes an identifier and inserts the    *)
(* user under the write lock.  The RWMutex is Go's: a writer first shuts   *)
(* out other writers and new readers, then waits for the readers inside.   *)
(* A user is represented by its identifier; 0 stands for a key that is not *)
(* in the map.  What the generated code answers by itself, before the      *)
(* method is called, is computed by module Handlers and enters as Verdict. *)
(***************************************************************************)
EXTENDS Naturals, FiniteSets

CONSTANTS
  Requests,   \* the requests clients send
  Logins,     \* the logins they may name
  Login,      \* Login[r]: the login of request r
  Creates,    \* the requests for /user/create; the others are for /user/profile
  Verdict,    \* Verdict[r]: status the wrapper answers itself, 0 if it calls the method
  BadUser, BadUsername,  \* the logins Profile and Create refuse
  Initial,    \* the users NewMyApi starts with
  FirstID     \* the first value of nextID

ASSUME ApiAssumption ==
  /\ Login \in [Requests -> Logins]
  /\ Creates \subseteq Requests
  /\ Verdict \in [Requests -> {0, 400, 403, 404, 406}]
  /\ FirstID \in Nat \ {0}
  /\ Initial \in [Logins -> 0..(FirstID - 1)]
  /\ \A k, l \in Logins : Initial[k] = Initial[l] /\ Initial[k] # 0 => k = l

VARIABLES
  users,     \* srv.users: identifier of each login
  nextID,    \* srv.nextID
  readers,   \* requests that hold the read lock
  writer,    \* the request, if any, that holds the write lock or waits for it inside
  pc,        \* where each request is
  newID,     \* its local id in Create
  res        \* the status and identifier it will answer

vars == <<users, nextID, readers, writer, pc, newID, res>>

Pending == [status |-> 0, id |-> 0]

(* What refuses a request whatever users there are: the wrapper's checks,  *)
(* then those of the method before it locks; 0 if nothing does             *)
Refusal ==
  [r \in Requests |->
     IF Verdict[r] # 0 THEN Verdict[r]
     ELSE IF Login[r] = IF r \in Creates THEN BadUsername ELSE BadUser THEN 500
     ELSE 0]

Goto(r, from, to) == pc[r] = from /\ pc' = [pc EXCEPT ![r] = to]

-----------------------------------------------------------------------------
(* Faulty variants of some definitions below.                              *)

(* Create that does not wait for the readers inside                        *)
NoExclusion(r) == TRUE

(* Create that does not wait for other creators                            *)
IgnoreWriters(r) == TRUE

(* nextID read and never incremented                                       *)
KeepNextID(r) == nextID' = nextID

(* status and identifier in each other's place                             *)
SwapResult(r, status, id) == res' = [res EXCEPT ![r] = [status |-> id, id |-> status]]

(* no defer: Unlock only where the user was inserted                       *)
UnlockIfCreated(r) == writer' = IF res[r].status = 200 THEN {} ELSE writer

-----------------------------------------------------------------------------
(* the error or the result a method gives the handler                      *)
Result(r, status, id) == res' = [res EXCEPT ![r] = [status |-> status, id |-> id]]

Init ==
  /\ users = Initial
  /\ nextID = FirstID
  /\ readers = {} /\ writer = {}
  /\ pc = [r \in Requests |-> "idle"]
  /\ newID = [r \in Requests |-> 0]
  /\ res = [r \in Requests |-> Pending]

(* The wrapper, and the method up to its lock                              *)
Handle(r) ==
  /\ UNCHANGED <<users, nextID, readers, writer, newID>>
  /\ \/ Refusal[r] # 0 /\ Goto(r, "idle", "reply") /\ Result(r, Refusal[r], 0)
     \/ Refusal[r] = 0 /\ Goto(r, "idle", "lock") /\ UNCHANGED res

(* writeError, or the marshalled result                                    *)
Reply(r) ==
  /\ Goto(r, "reply", "done")
  /\ UNCHANGED <<users, nextID, readers, writer, newID, res>>

-----------------------------------------------------------------------------
(* Profile                                                                 *)

TakeRead(r) == readers' = readers \cup {r}

RLock(r) ==
  /\ r \notin Creates
  /\ writer = {}
  /\ Goto(r, "lock", "read")
  /\ TakeRead(r)
  /\ UNCHANGED <<users, nextID, writer, newID, res>>

LookUp(r) ==
  /\ Goto(r, "read", "runlock")
  /\ IF users[Login[r]] = 0 THEN Result(r, 404, 0) ELSE Result(r, 200, users[Login[r]])
  /\ UNCHANGED <<users, nextID, readers, writer, newID>>

RUnlock(r) ==
  /\ Goto(r, "runlock", "reply")
  /\ readers' = readers \ {r}
  /\ UNCHANGED <<users, nextID, writer, newID, res>>

-----------------------------------------------------------------------------
(* Create                                                                  *)

NoWriter(r) == writer = {}

(* Lock, first part: no other writer from now on, and no new reader        *)
Announce(r) ==
  /\ r \in Creates
  /\ NoWriter(r)
  /\ Goto(r, "lock", "drain")
  /\ writer' = {r}
  /\ UNCHANGED <<users, nextID, readers, newID, res>>

Drained(r) == readers = {}

Lock(r) ==
  /\ Goto(r, "drain", "check")
  /\ Drained(r)
  /\ UNCHANGED <<users, nextID, readers, writer, newID, res>>

CheckLogin(r) ==
  /\ UNCHANGED <<users, nextID, readers, writer, newID>>
  /\ \/ /\ users[Login[r]] # 0
        /\ Goto(r, "check", "unlock")
        /\ Result(r, 409, 0)
     \/ /\ users[Login[r]] = 0
        /\ Goto(r, "check", "take")
        /\ UNCHANGED res

CountID(r) == nextID' = nextID + 1

TakeID(r) ==
  /\ Goto(r, "take", "insert")
  /\ newID' = [newID EXCEPT ![r] = nextID]
  /\ CountID(r)
  /\ UNCHANGED <<users, readers, writer, res>>

Insert(r) ==
  /\ Goto(r, "insert", "unlock")
  /\ users' = [users EXCEPT ![Login[r]] = newID[r]]
  /\ Result(r, 200, newID[r])
  /\ UNCHANGED <<nextID, readers, writer, newID>>

Release(r) == writer' = {}

(* the deferred Unlock                                                     *)
Unlock(r) ==
  /\ Goto(r, "unlock", "reply")
  /\ Release(r)
  /\ UNCHANGED <<users, nextID, readers, newID, res>>

-----------------------------------------------------------------------------
Goroutine(r) ==
  \/ Handle(r) \/ Reply(r)
  \/ RLock(r) \/ LookUp(r) \/ RUnlock(r)
  \/ Announce(r) \/ Lock(r) \/ CheckLogin(r) \/ TakeID(r) \/ Insert(r) \/ Unlock(r)

(* The server never stops: it waits for the next request.                  *)
AwaitRequest == UNCHANGED vars

Next == (\E r \in Requests : Goroutine(r)) \/ AwaitRequest

(* Goroutines that can run do, and the RWMutex passes nobody over for ever *)
(* (readers blocked by a writer enter before the next writer, writers      *)
(* queue), hence strong fairness for its two ways in.                      *)
Fairness ==
  \A r \in Requests : WF_vars(Goroutine(r)) /\ SF_vars(RLock(r) \/ Announce(r))

Spec == Init /\ [][Next]_vars /\ Fairness

-----------------------------------------------------------------------------
(* Properties                                                              *)

TypeOK ==
  /\ users \in [Logins -> Nat]
  /\ nextID \in Nat
  /\ readers \subseteq Requests
  /\ writer \subseteq Requests /\ Cardinality(writer) <= 1
  /\ pc \in [Requests -> {"idle", "lock", "read", "runlock", "drain", "check", "take",
                          "insert", "unlock", "reply", "done"}]
  /\ newID \in [Requests -> Nat]
  /\ res \in [Requests -> [status : {0, 200, 400, 403, 404, 406, 409, 500}, id : Nat]]

(* The Go runtime kills the process when a map is read or written while    *)
(* another goroutine writes it: whoever inserts a user is alone at the map.*)
NoConcurrentMapWrite ==
  \A r, q \in Requests :
    (pc[r] = "insert" /\ pc[q] \in {"read", "check", "insert"}) => r = q

(* No two users share an identifier, and an identifier answered to the     *)
(* creator of a login is for good the one of that login.                   *)
OneIDPerLogin ==
  /\ \A k, l \in Logins : users[k] = users[l] /\ users[k] # 0 => k = l
  /\ \A r \in Creates : res[r].status = 200 => users[Login[r]] = res[r].id
  /\ \A r, q \in Creates : (res[r].status = 200 /\ res[q].status = 200 /\ r # q)
                              => res[r].id # res[q].id

(* Every request is answered: no way out of a method keeps the lock.       *)
EveryRequestAnswered == <>(\A r \in Requests : pc[r] = "done")

(* Each request takes effect at one instant between its arrival and its    *)
(* answer, whatever the others do meanwhile: a profile is not found only   *)
(* if its login is not registered then, a creation conflicts only if it is.*)
Registry == INSTANCE UserRegistry WITH outcome <- res

ImplementsRegistry == Registry!Spec
================================================================================
