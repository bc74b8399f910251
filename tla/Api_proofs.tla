------------------------------- MODULE Api_proofs -------------------------------
(***************************************************************************)
(* Proofs about Api, for any number of requests and logins: the lock       *)
(* keeps the map and the identifiers consistent, and each step is a step   *)
(* of UserRegistry or leaves UserRegistry unchanged.                       *)
(***************************************************************************)
EXTENDS Api, FiniteSetTheorems, TLAPS

Types ==
  /\ users \in [Logins -> Nat]
  /\ nextID \in Nat
  /\ readers \subseteq Requests
  /\ writer \subseteq Requests
  /\ pc \in [Requests -> {"idle", "lock", "read", "runlock", "drain", "check", "take",
                          "insert", "unlock", "reply", "done"}]
  /\ newID \in [Requests -> Nat]
  /\ res \in [Requests -> [status : {0, 200, 400, 403, 404, 406, 409, 500}, id : Nat]]

(* The lock's fields tell who is where: the readers inside, the one writer *)
(* inside or waiting for them, and no reader with a writer inside.         *)
LockInv ==
  /\ \A r \in Requests : r \in readers <=> pc[r] \in {"read", "runlock"}
  /\ \A r \in Requests :
       r \in writer <=> pc[r] \in {"drain", "check", "take", "insert", "unlock"}
  /\ \A r, q \in writer : r = q
  /\ \A r \in Requests :
       pc[r] \in {"check", "take", "insert", "unlock"} => readers = {}

(* A creator past its check still finds its login free, and the identifier *)
(* it took is no one else's.                                               *)
FreshInv ==
  /\ nextID > 0
  /\ \A l \in Logins : users[l] < nextID
  /\ \A r \in Requests : pc[r] \in {"take", "insert"} => users[Login[r]] = 0
  /\ \A r \in Requests : pc[r] = "insert" =>
       /\ 0 < newID[r] /\ newID[r] < nextID
       /\ \A l \in Logins : users[l] # newID[r]

(* Identifiers are unique, and a creator that succeeded owns its login.    *)
OwnerInv ==
  /\ \A k, l \in Logins : users[k] = users[l] /\ users[k] # 0 => k = l
  /\ \A r \in Creates : res[r].status = 200 => users[Login[r]] = res[r].id /\ res[r].id > 0
  /\ \A r, q \in Creates :
       res[r].status = 200 /\ res[q].status = 200 /\ r # q => Login[r] # Login[q]

(* A result is there once the request had its effect, and not before.      *)
ResultInv ==
  /\ \A r \in Requests :
       pc[r] \notin {"runlock", "unlock", "reply", "done"} => res[r] = Pending
  /\ \A r \in Requests :
       /\ pc[r] \in {"drain", "check", "take", "insert", "unlock"} => r \in Creates
       /\ pc[r] \in {"read", "runlock"} => r \notin Creates
       /\ pc[r] \notin {"idle", "reply", "done"} => Refusal[r] = 0

IInv == Types /\ LockInv /\ FreshInv /\ OwnerInv /\ ResultInv

-----------------------------------------------------------------------------
(* The statuses with which a request is refused.                           *)
LEMMA RefusalType == Refusal \in [Requests -> {0, 400, 403, 404, 406, 500}]
  BY ApiAssumption DEF Refusal

(* The inductive invariant holds at the start.                             *)
LEMMA InitIInv == Init => IInv
  BY ApiAssumption DEF Init, IInv, Types, LockInv, FreshInv, OwnerInv, ResultInv, Pending

(* Every action keeps the types.                                           *)
LEMMA StepKeepsTypes == IInv /\ [Next]_vars => Types'
<1> SUFFICES ASSUME IInv, [Next]_vars PROVE Types'
  OBVIOUS
<1> USE ApiAssumption DEF IInv, Types
<1>1. ASSUME NEW r \in Requests, Goroutine(r) PROVE Types'
  <2>1. CASE Handle(r)
    <3>1. CASE Refusal[r] # 0
      <4>1. /\ pc[r] = "idle" /\ pc' = [pc EXCEPT ![r] = "reply"]
            /\ res' = [res EXCEPT ![r] = [status |-> Refusal[r], id |-> 0]]
            /\ UNCHANGED <<users, nextID, readers, writer, newID>>
        BY <2>1, <3>1 DEF Handle, Goto, Result
      <4>2. [status |-> Refusal[r], id |-> 0]
              \in [status : {0, 200, 400, 403, 404, 406, 409, 500}, id : Nat]
        BY RefusalType
      <4> QED  BY <4>1, <4>2
    <3>2. CASE Refusal[r] = 0  BY <2>1, <3>2 DEF Handle, Goto, Result
    <3> QED  BY <3>1, <3>2
  <2>2. CASE Reply(r)  BY <2>2 DEF Reply, Goto
  <2>3. CASE RLock(r)  BY <2>3 DEF RLock, Goto, TakeRead
  <2>4. CASE LookUp(r)
    <3>1. CASE users[Login[r]] = 0  BY <2>4, <3>1 DEF LookUp, Goto, Result
    <3>2. CASE users[Login[r]] # 0  BY <2>4, <3>2 DEF LookUp, Goto, Result
    <3> QED  BY <3>1, <3>2
  <2>5. CASE RUnlock(r)  BY <2>5 DEF RUnlock, Goto
  <2>6. CASE Announce(r)  BY <2>6 DEF Announce, Goto, NoWriter
  <2>7. CASE Lock(r)  BY <2>7 DEF Lock, Goto, Drained
  <2>8. CASE CheckLogin(r)
    <3>1. CASE users[Login[r]] # 0
      <4>1. res' = [res EXCEPT ![r] = [status |-> 409, id |-> 0]]
        BY <2>8, <3>1 DEF CheckLogin, Result
      <4>2. [status |-> 409, id |-> 0] \in [status : {0, 200, 400, 403, 404, 406, 409, 500}, id : Nat]
        OBVIOUS
      <4>3. res' \in [Requests -> [status : {0, 200, 400, 403, 404, 406, 409, 500}, id : Nat]]
        BY <4>1, <4>2
      <4>4. pc' = [pc EXCEPT ![r] = "unlock"]
        BY <2>8, <3>1 DEF CheckLogin, Goto
      <4>5. QED
        BY <2>8, <4>3, <4>4 DEF CheckLogin
    <3>2. CASE users[Login[r]] = 0  BY <2>8, <3>2 DEF CheckLogin, Goto, Result
    <3> QED  BY <3>1, <3>2
  <2>9. CASE TakeID(r)  BY <2>9 DEF TakeID, Goto, CountID
  <2>10. CASE Insert(r)  BY <2>10 DEF Insert, Goto, Result
  <2>11. CASE Unlock(r)  BY <2>11 DEF Unlock, Goto, Release
  <2> QED  BY <1>1, <2>1, <2>2, <2>3, <2>4, <2>5, <2>6,
              <2>7, <2>8, <2>9, <2>10, <2>11 DEF Goroutine
<1>2. CASE UNCHANGED vars  BY <1>2 DEF vars
<1> QED  BY <1>1, <1>2 DEF Next, AwaitRequest

(* Whoever enters, leaves or waits keeps the lock's fields right.          *)
LEMMA StepKeepsLock == IInv /\ [Next]_vars => LockInv'
<1> SUFFICES ASSUME IInv, [Next]_vars PROVE LockInv'
  OBVIOUS
<1> USE ApiAssumption DEF IInv, Types, LockInv, ResultInv
<1>1. ASSUME NEW r \in Requests, Goroutine(r) PROVE LockInv'
  <2>1. CASE Handle(r)
    <3>1. CASE Refusal[r] # 0
      <4>1. /\ pc[r] = "idle" /\ pc' = [pc EXCEPT ![r] = "reply"]
            /\ UNCHANGED <<readers, writer>>
        BY <2>1, <3>1 DEF Handle, Goto
      <4> QED  BY <4>1
    <3>2. CASE Refusal[r] = 0
      <4>1. /\ pc[r] = "idle" /\ pc' = [pc EXCEPT ![r] = "lock"]
            /\ UNCHANGED <<readers, writer>>
        BY <2>1, <3>2 DEF Handle, Goto
      <4> QED  BY <4>1
    <3> QED  BY <3>1, <3>2
  <2>2. CASE Reply(r)  BY <2>2 DEF Reply, Goto
  <2>3. CASE RLock(r)  BY <2>3 DEF RLock, Goto, TakeRead
  <2>4. CASE LookUp(r)  BY <2>4 DEF LookUp, Goto, Result
  <2>5. CASE RUnlock(r)  BY <2>5 DEF RUnlock, Goto
  <2>6. CASE Announce(r)  BY <2>6 DEF Announce, Goto, NoWriter
  <2>7. CASE Lock(r)  BY <2>7 DEF Lock, Goto, Drained
  <2>8. CASE CheckLogin(r)  BY <2>8 DEF CheckLogin, Goto, Result
  <2>9. CASE TakeID(r)  BY <2>9 DEF TakeID, Goto, CountID
  <2>10. CASE Insert(r)  BY <2>10 DEF Insert, Goto, Result
  <2>11. CASE Unlock(r)  BY <2>11 DEF Unlock, Goto, Release
  <2> QED  BY <1>1, <2>1, <2>2, <2>3, <2>4, <2>5, <2>6,
              <2>7, <2>8, <2>9, <2>10, <2>11 DEF Goroutine
<1>2. CASE UNCHANGED vars  BY <1>2 DEF vars
<1> QED  BY <1>1, <1>2 DEF Next, AwaitRequest

(* Only the writer touches nextID and the map.                             *)
LEMMA StepKeepsFresh == IInv /\ [Next]_vars => FreshInv'
<1> SUFFICES ASSUME IInv, [Next]_vars PROVE FreshInv'
  OBVIOUS
<1> USE ApiAssumption DEF IInv, Types, LockInv, FreshInv
<1>1. ASSUME NEW r \in Requests, Goroutine(r) PROVE FreshInv'
  <2>1. CASE Handle(r)  BY <2>1 DEF Handle, Goto, Result
  <2>2. CASE Reply(r)  BY <2>2 DEF Reply, Goto
  <2>3. CASE RLock(r)  BY <2>3 DEF RLock, Goto, TakeRead
  <2>4. CASE LookUp(r)  BY <2>4 DEF LookUp, Goto, Result
  <2>5. CASE RUnlock(r)  BY <2>5 DEF RUnlock, Goto
  <2>6. CASE Announce(r)  BY <2>6 DEF Announce, Goto, NoWriter
  <2>7. CASE Lock(r)  BY <2>7 DEF Lock, Goto, Drained
  <2>8. CASE CheckLogin(r)  BY <2>8 DEF CheckLogin, Goto, Result
  <2>9. CASE TakeID(r)  BY <2>9 DEF TakeID, Goto, CountID
  <2>10. CASE Insert(r)  BY <2>10 DEF Insert, Goto, Result
  <2>11. CASE Unlock(r)  BY <2>11 DEF Unlock, Goto, Release
  <2> QED  BY <1>1, <2>1, <2>2, <2>3, <2>4, <2>5, <2>6,
              <2>7, <2>8, <2>9, <2>10, <2>11 DEF Goroutine
<1>2. CASE UNCHANGED vars  BY <1>2 DEF vars
<1> QED  BY <1>1, <1>2 DEF Next, AwaitRequest

(* An insertion neither moves nor duplicates an identifier.                *)
LEMMA StepKeepsOwner == IInv /\ [Next]_vars => OwnerInv'
<1> SUFFICES ASSUME IInv, [Next]_vars PROVE OwnerInv'
  OBVIOUS
<1> USE ApiAssumption DEF IInv, Types, LockInv, FreshInv, OwnerInv, ResultInv, Pending
<1>1. ASSUME NEW r \in Requests, Goroutine(r) PROVE OwnerInv'
  <2>1. CASE Handle(r)
    <3>1. users' = users
      BY <2>1 DEF Handle
    <3>2. \A q \in Creates : res'[q] = res[q] \/ res'[q].status # 200
      BY <2>1, RefusalType DEF Handle, Result
    <3>3. QED
      BY <3>1, <3>2
  <2>2. CASE Reply(r)  BY <2>2 DEF Reply, Goto
  <2>3. CASE RLock(r)  BY <2>3 DEF RLock, Goto, TakeRead
  <2>4. CASE LookUp(r)
    <3>1. users' = users
      BY <2>4 DEF LookUp
    <3>2. r \notin Creates
      BY <2>4 DEF LookUp, Goto
    <3>3. \A q \in Creates : res'[q] = res[q]
      BY <2>4, <3>2 DEF LookUp, Result
    <3>4. QED
      BY <3>1, <3>3
  <2>5. CASE RUnlock(r)  BY <2>5 DEF RUnlock, Goto
  <2>6. CASE Announce(r)  BY <2>6 DEF Announce, Goto, NoWriter
  <2>7. CASE Lock(r)  BY <2>7 DEF Lock, Goto, Drained
  <2>8. CASE CheckLogin(r)
    <3>1. users' = users
      BY <2>8 DEF CheckLogin
    <3>2. \A q \in Creates : res'[q] = res[q] \/ res'[q].status # 200
      BY <2>8 DEF CheckLogin, Result
    <3>3. QED
      BY <3>1, <3>2
  <2>9. CASE TakeID(r)  BY <2>9 DEF TakeID, Goto, CountID
  <2>10. CASE Insert(r)  BY <2>10 DEF Insert, Goto, Result
  <2>11. CASE Unlock(r)  BY <2>11 DEF Unlock, Goto, Release
  <2> QED  BY <1>1, <2>1, <2>2, <2>3, <2>4, <2>5, <2>6,
              <2>7, <2>8, <2>9, <2>10, <2>11 DEF Goroutine
<1>2. CASE UNCHANGED vars  BY <1>2 DEF vars
<1> QED  BY <1>1, <1>2 DEF Next, AwaitRequest

(* Results are decided once, by creators under the write lock.             *)
LEMMA StepKeepsResult == IInv /\ [Next]_vars => ResultInv'
<1> SUFFICES ASSUME IInv, [Next]_vars PROVE ResultInv'
  OBVIOUS
<1> USE ApiAssumption DEF IInv, Types, ResultInv
<1>1. ASSUME NEW r \in Requests, Goroutine(r) PROVE ResultInv'
  <2>1. CASE Handle(r)
    <3>1. CASE Refusal[r] # 0  BY <2>1, <3>1, RefusalType DEF Handle, Goto, Result
    <3>2. CASE Refusal[r] = 0  BY <2>1, <3>2 DEF Handle, Goto, Result
    <3> QED  BY <3>1, <3>2
  <2>2. CASE Reply(r)  BY <2>2 DEF Reply, Goto
  <2>3. CASE RLock(r)  BY <2>3 DEF RLock, Goto, TakeRead
  <2>4. CASE LookUp(r)  BY <2>4 DEF LookUp, Goto, Result
  <2>5. CASE RUnlock(r)  BY <2>5 DEF RUnlock, Goto
  <2>6. CASE Announce(r)  BY <2>6 DEF Announce, Goto, NoWriter
  <2>7. CASE Lock(r)  BY <2>7 DEF Lock, Goto, Drained
  <2>8. CASE CheckLogin(r)
    <3>1. CASE users[Login[r]] # 0  BY <2>8, <3>1 DEF CheckLogin, Goto, Result
    <3>2. CASE users[Login[r]] = 0  BY <2>8, <3>2 DEF CheckLogin, Goto, Result
    <3> QED  BY <3>1, <3>2
  <2>9. CASE TakeID(r)  BY <2>9 DEF TakeID, Goto, CountID
  <2>10. CASE Insert(r)  BY <2>10 DEF Insert, Goto, Result
  <2>11. CASE Unlock(r)  BY <2>11 DEF Unlock, Goto, Release
  <2> QED  BY <1>1, <2>1, <2>2, <2>3, <2>4, <2>5, <2>6,
              <2>7, <2>8, <2>9, <2>10, <2>11 DEF Goroutine
<1>2. CASE UNCHANGED vars  BY <1>2 DEF vars
<1> QED  BY <1>1, <1>2 DEF Next, AwaitRequest

(* IInv is an inductive invariant of Api.                                  *)
THEOREM Invariance == Spec => []IInv
<1>1. IInv /\ [Next]_vars => IInv'
  BY StepKeepsTypes, StepKeepsLock, StepKeepsFresh, StepKeepsOwner, StepKeepsResult DEF IInv
<1>2. QED
  BY InitIInv, <1>1, PTL DEF Spec

(* The set of writers has one element at most.                             *)
LEMMA OneWriter == IInv => Cardinality(writer) <= 1
<1> SUFFICES ASSUME IInv PROVE Cardinality(writer) <= 1
  OBVIOUS
<1>1. CASE writer = {}
  BY <1>1, FS_EmptySet
<1>2. CASE writer # {}
  <2>1. PICK r : r \in writer
    BY <1>2
  <2>2. writer = {r}
    BY <2>1 DEF IInv, LockInv
  <2>3. Cardinality(writer) = 1
    BY <2>2, FS_Singleton, Zenon
  <2>4. QED
    BY <2>3, SMT, Zenon
<1>3. QED
  BY <1>1, <1>2

(* Type correctness: in particular there is never more than one writer.    *)
THEOREM TypeCorrect == Spec => []TypeOK
<1>1. IInv => TypeOK
  BY OneWriter DEF IInv, Types, TypeOK
<1>2. QED
  BY Invariance, <1>1, PTL

(* The map is never written while another goroutine is at it.              *)
THEOREM NeverConcurrentMapWrite == Spec => []NoConcurrentMapWrite
<1>1. IInv => NoConcurrentMapWrite
  BY DEF IInv, Types, LockInv, NoConcurrentMapWrite
<1>2. QED
  BY Invariance, <1>1, PTL

(* A login has one identifier for good, and no two creators share one.     *)
THEOREM AlwaysOneIDPerLogin == Spec => []OneIDPerLogin
<1>1. IInv => OneIDPerLogin
  BY ApiAssumption DEF IInv, Types, OwnerInv, OneIDPerLogin
<1>2. QED
  BY Invariance, <1>1, PTL

-----------------------------------------------------------------------------
(* Refinement: a request takes effect where its result is decided, at the  *)
(* look-up, the check that fails, the insertion or the refusal.            *)

(* The API starts where the registry starts.                               *)
LEMMA InitRefines == Init => Registry!Init
  BY DEF Init, Registry!Init, Pending, Registry!Pending

(* A request obtains its outcome in the step that decides it.              *)
LEMMA StepRefines == IInv /\ [Next]_vars => [Registry!Next]_(Registry!vars)
<1> SUFFICES ASSUME IInv, [Next]_vars PROVE [Registry!Next]_(Registry!vars)
  OBVIOUS
<1> USE ApiAssumption DEF IInv, Types, ResultInv, Pending, Registry!Pending
<1>1. ASSUME UNCHANGED <<users, res>> PROVE UNCHANGED Registry!vars
  BY <1>1 DEF Registry!vars
<1>2. ASSUME NEW r \in Requests, Goroutine(r) PROVE [Registry!Next]_(Registry!vars)
  <2>1. CASE Handle(r)
    <3>1. Registry!Refuse(r) \/ UNCHANGED <<users, res>>
      BY <2>1 DEF Handle, Goto, Result, Registry!Refuse, Registry!Obtain
    <3>2. QED
      BY <1>1, <3>1 DEF Registry!Next
  <2>2. CASE LookUp(r)
    <3>1. Registry!Find(r)
      BY <2>2 DEF LookUp, Goto, Result, Registry!Find, Registry!Finds, Registry!Obtain
    <3>2. QED
      BY <3>1 DEF Registry!Next
  <2>3. CASE CheckLogin(r)
    <3>1. Registry!Conflict(r) \/ UNCHANGED <<users, res>>
      BY <2>3 DEF CheckLogin, Goto, Result, Registry!Conflict, Registry!Registers,
                  Registry!Obtain
    <3>2. QED
      BY <1>1, <3>1 DEF Registry!Next
  <2>4. CASE Insert(r)
    <3>1. users'[Login[r]] = newID[r]
      BY <2>4 DEF Insert
    <3>2. Registry!Register(r)
      <4>1. res[r] = Pending /\ res' = [res EXCEPT ![r] = [status |-> 200, id |-> newID[r]]]
        BY <2>4 DEF Insert, Goto, Result
      <4>2. Registry!Obtain(r, 200, users'[Login[r]])
        BY <3>1, <4>1 DEF Registry!Obtain
      <4>3. users' = [users EXCEPT ![Login[r]] = users'[Login[r]]]
        BY <2>4, <3>1 DEF Insert
      <4>4. Registry!Registers(r) /\ users[Login[r]] = 0 /\ \A l \in Logins : users[l] # users'[Login[r]]
        BY <2>4, <3>1 DEF Insert, Goto, FreshInv, Registry!Registers
      <4>5. DOMAIN users = Logins
        OBVIOUS
      <4>6. QED
        BY <4>2, <4>3, <4>4, <4>5 DEF Registry!Register
    <3>3. QED
      BY <3>2 DEF Registry!Next
  <2>5. CASE Reply(r) \/ RLock(r) \/ RUnlock(r) \/ Announce(r) \/ Lock(r) \/ TakeID(r)
             \/ Unlock(r)
    BY <1>1, <2>5 DEF Reply, RLock, RUnlock, Announce, Lock, TakeID, Unlock
  <2> QED  BY <1>2, <2>1, <2>2, <2>3, <2>4, <2>5 DEF Goroutine
<1>3. CASE UNCHANGED vars  BY <1>1, <1>3 DEF vars
<1> QED  BY <1>2, <1>3 DEF Next, AwaitRequest

(* The safety part of ImplementsRegistry: requests are linearizable.       *)
THEOREM RefinesRegistry == Spec => Registry!Init /\ [][Registry!Next]_(Registry!vars)
<1>1. QED
  BY InitRefines, StepRefines, Invariance, PTL DEF Spec
================================================================================
