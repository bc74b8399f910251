--------------------------- MODULE SingleHash_proofs ---------------------------
(***************************************************************************)
(* Proofs about SingleHash, for any number of values, any input and any    *)
(* hash functions: its type invariant, its safety invariants, and that     *)
(* each of its steps is a step of HashStage or leaves HashStage unchanged. *)
(***************************************************************************)
EXTENDS SingleHash, FiniteSetTheorems, TLAPS

(* The combiners wg.Wait() waits for                                       *)
Live == {i \in Items : combiner[i] \notin {"none", "done"}}

Types ==
  /\ main \in {"range", "wait", "close", "closed"}
  /\ taken \in 0..N
  /\ mu \in 0..N
  /\ dataSignerOverheat \in {0, 1}
  /\ combiner \in [Items -> {"none", "recvCrc32", "recvMd5Crc32", "send", "wgDone", "done"}]
  /\ relay \in [Items -> {"none", "range", "hash", "send"}]
  /\ crc \in [Items -> {"none", "hash", "send", "done"}]
  /\ md5 \in [Items -> {"none", "lock", "overheatLock", "overheatUnlock",
                         "send", "unlock", "done"}]
  /\ DOMAIN signedMd5 = Items
  /\ DOMAIN signedCrc32 = Items
  /\ DOMAIN signedMd5Crc32 = Items

(* The mutex is held by exactly the goroutine between Lock and Unlock, and *)
(* the overheat flag is up only while the holder is inside DataSignerMd5.  *)
MutexInv ==
  /\ \A i \in Items :
       md5[i] \in {"overheatLock", "overheatUnlock", "send", "unlock"} <=> mu = i
  /\ dataSignerOverheat = 1 <=> (mu \in Items /\ md5[mu] = "overheatUnlock")

(* The goroutines of the items received so far were started, and no other; *)
(* the job is past its loop only with the whole input received.            *)
StartedInv ==
  /\ \A i \in Items : combiner[i] = "none" <=> i > taken
  /\ main # "range" => taken = N

(* The WaitGroup counts the live combiners.                                *)
CountInv == IsFiniteSet(Live) /\ wg = Cardinality(Live)

(* Every value on its way to a combiner was computed from its own item.    *)
PairInv ==
  \A i \in Items :
    /\ relay[i] \in {"hash", "send"} => signedMd5[i] = Md5(Input[i])
    /\ combiner[i] \in {"recvMd5Crc32", "send"} => signedCrc32[i] = Crc32(Input[i])
    /\ combiner[i] = "send" => signedMd5Crc32[i] = Crc32(Md5(Input[i]))

IInv == Types /\ MutexInv /\ StartedInv /\ CountInv /\ NoSendOnClosedOut /\ PairInv

-----------------------------------------------------------------------------
(* The inductive invariant holds at the start.                             *)
LEMMA InitIInv == Init => IInv
<1> SUFFICES ASSUME Init PROVE IInv
  OBVIOUS
<1> USE SingleHashAssumption DEF Init, Items
<1>1. Types /\ MutexInv /\ StartedInv /\ NoSendOnClosedOut /\ PairInv
  BY DEF Types, MutexInv, StartedInv, NoSendOnClosedOut, PairInv
<1>2. Live = {}
  BY DEF Live
<1>3. CountInv
  BY <1>2, FS_EmptySet DEF CountInv
<1>4. QED
  BY <1>1, <1>3 DEF IInv

(* The actions of the job and of the goroutines keep the parts of the      *)
(* invariant that count nothing.                                           *)
LEMMA StepKeepsTypes == IInv /\ [Next]_vars => Types'
<1> SUFFICES ASSUME IInv, [Next]_vars PROVE Types'
  OBVIOUS
<1> USE SingleHashAssumption DEF IInv, Types, Items, Step, shared, locals, pcs
<1>1. ASSUME Job PROVE Types'
  <2>1. ASSUME NEW k \in Items, TakeValue(k) PROVE Types'
    BY <2>1 DEF TakeValue
  <2>2. CASE InputClosed  BY <2>2 DEF InputClosed
  <2>3. CASE Return  BY <2>3 DEF Return
  <2>4. CASE CloseOut  BY <2>4 DEF CloseOut
  <2> QED  BY <1>1, <2>1, <2>2, <2>3, <2>4 DEF Job
<1>2. ASSUME NEW i \in Items, Goroutine(i) PROVE Types'
  <2>1. CASE LockMu(i)  BY <2>1 DEF LockMu
  <2>2. CASE OverheatLock(i)  BY <2>2 DEF OverheatLock
  <2>3. CASE OverheatUnlock(i)  BY <2>3 DEF OverheatUnlock
  <2>4. CASE SendMd5(i)  BY <2>4 DEF SendMd5
  <2>5. CASE UnlockMu(i)  BY <2>5 DEF UnlockMu
  <2>6. CASE HashCrc32(i)  BY <2>6 DEF HashCrc32
  <2>7. CASE SendCrc32(i)  BY <2>7 DEF SendCrc32
  <2>8. CASE SendMd5Crc32(i)  BY <2>8 DEF SendMd5Crc32
  <2>9. CASE SendResult(i)  BY <2>9 DEF SendResult
  <2>10. CASE WgDone(i)  BY <2>10 DEF WgDone
  <2> QED  BY <1>2, <2>1, <2>2, <2>3, <2>4, <2>5, <2>6, <2>7, <2>8, <2>9, <2>10 DEF Goroutine
<1>3. CASE UNCHANGED vars  BY <1>3 DEF vars
<1> QED  BY <1>1, <1>2, <1>3 DEF Next, Terminated

(* Only the holder moves inside the critical section, and only it frees it *)
LEMMA StepKeepsMutex == IInv /\ [Next]_vars => MutexInv'
<1> SUFFICES ASSUME IInv, [Next]_vars PROVE MutexInv'
  OBVIOUS
<1> USE SingleHashAssumption DEF IInv, Types, MutexInv, MuFree, Items, Step, shared, locals, pcs
<1>1. ASSUME Job PROVE MutexInv'
  <2>1. ASSUME NEW k \in Items, TakeValue(k) PROVE MutexInv'
    BY <2>1 DEF TakeValue
  <2>2. CASE InputClosed  BY <2>2 DEF InputClosed
  <2>3. CASE Return  BY <2>3 DEF Return
  <2>4. CASE CloseOut  BY <2>4 DEF CloseOut
  <2> QED  BY <1>1, <2>1, <2>2, <2>3, <2>4 DEF Job
<1>2. ASSUME NEW i \in Items, Goroutine(i) PROVE MutexInv'
  <2>1. CASE LockMu(i)  BY <2>1 DEF LockMu
  <2>2. CASE OverheatLock(i)  BY <2>2 DEF OverheatLock
  <2>3. CASE OverheatUnlock(i)  BY <2>3 DEF OverheatUnlock
  <2>4. CASE SendMd5(i)  BY <2>4 DEF SendMd5
  <2>5. CASE UnlockMu(i)  BY <2>5 DEF UnlockMu
  <2>6. CASE HashCrc32(i)  BY <2>6 DEF HashCrc32
  <2>7. CASE SendCrc32(i)  BY <2>7 DEF SendCrc32
  <2>8. CASE SendMd5Crc32(i)  BY <2>8 DEF SendMd5Crc32
  <2>9. CASE SendResult(i)  BY <2>9 DEF SendResult
  <2>10. CASE WgDone(i)  BY <2>10 DEF WgDone
  <2> QED  BY <1>2, <2>1, <2>2, <2>3, <2>4, <2>5, <2>6, <2>7, <2>8, <2>9, <2>10 DEF Goroutine
<1>3. CASE UNCHANGED vars  BY <1>3 DEF vars
<1> QED  BY <1>1, <1>2, <1>3 DEF Next, Terminated

(* Goroutines are started in the order of the items, before the loop ends  *)
LEMMA StepKeepsStarted == IInv /\ [Next]_vars => StartedInv'
<1> SUFFICES ASSUME IInv, [Next]_vars PROVE StartedInv'
  OBVIOUS
<1> USE SingleHashAssumption DEF IInv, Types, StartedInv, Items, Step, shared, locals, pcs
<1>1. ASSUME Job PROVE StartedInv'
  <2>1. ASSUME NEW k \in Items, TakeValue(k) PROVE StartedInv'
    BY <2>1 DEF TakeValue
  <2>2. CASE InputClosed  BY <2>2 DEF InputClosed
  <2>3. CASE Return  BY <2>3 DEF Return
  <2>4. CASE CloseOut  BY <2>4 DEF CloseOut
  <2> QED  BY <1>1, <2>1, <2>2, <2>3, <2>4 DEF Job
<1>2. ASSUME NEW i \in Items, Goroutine(i) PROVE StartedInv'
  <2>1. CASE LockMu(i)  BY <2>1 DEF LockMu
  <2>2. CASE OverheatLock(i)  BY <2>2 DEF OverheatLock
  <2>3. CASE OverheatUnlock(i)  BY <2>3 DEF OverheatUnlock
  <2>4. CASE SendMd5(i)  BY <2>4 DEF SendMd5
  <2>5. CASE UnlockMu(i)  BY <2>5 DEF UnlockMu
  <2>6. CASE HashCrc32(i)  BY <2>6 DEF HashCrc32
  <2>7. CASE SendCrc32(i)  BY <2>7 DEF SendCrc32
  <2>8. CASE SendMd5Crc32(i)  BY <2>8 DEF SendMd5Crc32
  <2>9. CASE SendResult(i)  BY <2>9 DEF SendResult
  <2>10. CASE WgDone(i)  BY <2>10 DEF WgDone
  <2> QED  BY <1>2, <2>1, <2>2, <2>3, <2>4, <2>5, <2>6, <2>7, <2>8, <2>9, <2>10 DEF Goroutine
<1>3. CASE UNCHANGED vars  BY <1>3 DEF vars
<1> QED  BY <1>1, <1>2, <1>3 DEF Next, Terminated

(* A value handed over is the hash of what its own item captured           *)
LEMMA StepKeepsPairs == IInv /\ [Next]_vars => PairInv'
<1> SUFFICES ASSUME IInv, [Next]_vars PROVE PairInv'
  OBVIOUS
<1> USE SingleHashAssumption DEF IInv, Types, PairInv, ValOf, Items, Step, shared, locals, pcs
<1>1. ASSUME Job PROVE PairInv'
  <2>1. ASSUME NEW k \in Items, TakeValue(k) PROVE PairInv'
    BY <2>1 DEF TakeValue
  <2>2. CASE InputClosed  BY <2>2 DEF InputClosed
  <2>3. CASE Return  BY <2>3 DEF Return
  <2>4. CASE CloseOut  BY <2>4 DEF CloseOut
  <2> QED  BY <1>1, <2>1, <2>2, <2>3, <2>4 DEF Job
<1>2. ASSUME NEW i \in Items, Goroutine(i) PROVE PairInv'
  <2>1. CASE LockMu(i)  BY <2>1 DEF LockMu
  <2>2. CASE OverheatLock(i)  BY <2>2 DEF OverheatLock
  <2>3. CASE OverheatUnlock(i)  BY <2>3 DEF OverheatUnlock
  <2>4. CASE SendMd5(i)  BY <2>4 DEF SendMd5
  <2>5. CASE UnlockMu(i)  BY <2>5 DEF UnlockMu
  <2>6. CASE HashCrc32(i)  BY <2>6 DEF HashCrc32
  <2>7. CASE SendCrc32(i)  BY <2>7 DEF SendCrc32
  <2>8. CASE SendMd5Crc32(i)  BY <2>8 DEF SendMd5Crc32
  <2>9. CASE SendResult(i)  BY <2>9 DEF SendResult
  <2>10. CASE WgDone(i)  BY <2>10 DEF WgDone
  <2> QED  BY <1>2, <2>1, <2>2, <2>3, <2>4, <2>5, <2>6, <2>7, <2>8, <2>9, <2>10 DEF Goroutine
<1>3. CASE UNCHANGED vars  BY <1>3 DEF vars
<1> QED  BY <1>1, <1>2, <1>3 DEF Next, Terminated

(* Only TakeValue and WgDone touch the WaitGroup, and each moves one       *)
(* combiner in or out of the live ones.                                    *)
LEMMA StepKeepsCount == IInv /\ [Next]_vars => CountInv'
<1> SUFFICES ASSUME IInv, [Next]_vars PROVE CountInv'
  OBVIOUS
<1> USE SingleHashAssumption DEF IInv, Types, CountInv, Items, Step, shared, locals, pcs
<1>1. ASSUME Live' = Live, wg' = wg PROVE CountInv'
  BY <1>1
<1>2. ASSUME NEW k \in Items, TakeValue(k) PROVE CountInv'
  <2>1. k \notin Live /\ Live' = Live \cup {k}
    BY <1>2 DEF TakeValue, Live
  <2>2. wg' = wg + 1
    BY <1>2 DEF TakeValue, Count
  <2>3. QED
    BY <2>1, <2>2, FS_AddElement, Zenon
<1>3. ASSUME NEW i \in Items, WgDone(i) PROVE CountInv'
  <2>1. i \in Live /\ Live' = Live \ {i}
    BY <1>3 DEF WgDone, Live
  <2>2. wg' = wg - 1
    BY <1>3 DEF WgDone
  <2>3. QED
    BY <2>1, <2>2, FS_RemoveElement, Zenon
<1>4. CASE InputClosed \/ Return \/ CloseOut
  BY <1>1, <1>4 DEF InputClosed, Return, CloseOut, Live
<1>5. ASSUME NEW i \in Items, Goroutine(i) PROVE CountInv'
  <2>1. CASE LockMu(i)  BY <1>1, <2>1 DEF LockMu, Live
  <2>2. CASE OverheatLock(i)  BY <1>1, <2>2 DEF OverheatLock, Live
  <2>3. CASE OverheatUnlock(i)  BY <1>1, <2>3 DEF OverheatUnlock, Live
  <2>4. CASE SendMd5(i)  BY <1>1, <2>4 DEF SendMd5, Live
  <2>5. CASE UnlockMu(i)  BY <1>1, <2>5 DEF UnlockMu, Live
  <2>6. CASE HashCrc32(i)  BY <1>1, <2>6 DEF HashCrc32, Live
  <2>7. CASE SendCrc32(i)  BY <1>1, <2>7 DEF SendCrc32, Live
  <2>8. CASE SendMd5Crc32(i)  BY <1>1, <2>8 DEF SendMd5Crc32, Live
  <2>9. CASE SendResult(i)  BY <1>1, <2>9 DEF SendResult, Live
  <2>10. CASE WgDone(i)  BY <1>3, <2>10
  <2> QED  BY <1>5, <2>1, <2>2, <2>3, <2>4, <2>5, <2>6, <2>7, <2>8, <2>9, <2>10 DEF Goroutine
<1>6. CASE UNCHANGED vars  BY <1>1, <1>6 DEF vars, Live
<1> QED  BY <1>2, <1>4, <1>5, <1>6 DEF Next, Job, Terminated

(* The job leaves wg.Wait() with no live combiner, and starts none later.  *)
LEMMA StepKeepsNoSend == IInv /\ [Next]_vars => NoSendOnClosedOut'
<1> SUFFICES ASSUME IInv, [Next]_vars PROVE NoSendOnClosedOut'
  OBVIOUS
<1> USE SingleHashAssumption
    DEF IInv, Types, NoSendOnClosedOut, Items, Step, shared, locals, pcs
<1>1. ASSUME NEW k \in Items, TakeValue(k) PROVE NoSendOnClosedOut'
  BY <1>1 DEF TakeValue
<1>2. CASE InputClosed  BY <1>2 DEF InputClosed
<1>3. CASE Return
  <2>1. Live = {}
    BY <1>3, FS_EmptySet DEF Return, CountInv
  <2>2. QED
    BY <1>3, <2>1 DEF Return, Live
<1>4. CASE CloseOut  BY <1>4 DEF CloseOut
<1>5. ASSUME NEW i \in Items, Goroutine(i) PROVE NoSendOnClosedOut'
  <2>1. main' = main
    BY <1>5 DEF Goroutine, LockMu, OverheatLock, OverheatUnlock, SendMd5, UnlockMu,
                HashCrc32, SendCrc32, SendMd5Crc32, SendResult, WgDone
  <2>2. combiner[i] \in {"none", "done"} => combiner' = combiner
    BY <1>5 DEF Goroutine, LockMu, OverheatLock, OverheatUnlock, SendMd5, UnlockMu,
                HashCrc32, SendCrc32, SendMd5Crc32, SendResult, WgDone
  <2>3. QED
    BY <2>1, <2>2
<1>6. CASE UNCHANGED vars  BY <1>6 DEF vars
<1> QED  BY <1>1, <1>2, <1>3, <1>4, <1>5, <1>6 DEF Next, Job, Terminated

(* IInv is an inductive invariant of SingleHash.                           *)
THEOREM Invariance == Spec => []IInv
<1>1. IInv /\ [Next]_vars => IInv'
  BY StepKeepsTypes, StepKeepsMutex, StepKeepsStarted, StepKeepsPairs,
     StepKeepsCount, StepKeepsNoSend DEF IInv
<1>2. QED
  BY InitIInv, <1>1, PTL DEF Spec

(* There are at most N live combiners.                                     *)
LEMMA CountBound == IInv => wg \in 0..N
<1> SUFFICES ASSUME IInv PROVE wg \in 0..N
  OBVIOUS
<1>1. IsFiniteSet(Items) /\ Cardinality(Items) = N
  BY SingleHashAssumption, FS_Interval DEF Items
<1>2. Live \in SUBSET Items
  BY DEF Live
<1>3. Cardinality(Live) <= N
  BY <1>1, <1>2, FS_Subset
<1>4. Cardinality(Live) \in Nat
  BY FS_CardinalityType DEF IInv, CountInv
<1>5. QED
  BY <1>3, <1>4, SingleHashAssumption DEF IInv, CountInv

(* Type correctness: in particular the WaitGroup never becomes negative,   *)
(* which would panic.                                                      *)
THEOREM TypeCorrect == Spec => []TypeOK
<1>1. IInv => TypeOK
  BY CountBound DEF IInv, Types, TypeOK
<1>2. QED
  BY Invariance, <1>1, PTL

(* DataSignerMd5 never overheats, however many values are hashed at once.  *)
THEOREM NeverOverheats == Spec => []NoOverheat
<1>1. IInv => NoOverheat
  BY SingleHashAssumption DEF IInv, Types, MutexInv, NoOverheat, Items
<1>2. QED
  BY Invariance, <1>1, PTL

(* startJob never closes the channel under a goroutine that has still to   *)
(* send on it.                                                             *)
THEOREM NeverSendsOnClosed == Spec => []NoSendOnClosedOut
<1>1. IInv => NoSendOnClosedOut
  BY DEF IInv
<1>2. QED
  BY Invariance, <1>1, PTL

(* No interleaving makes a combiner join the checksums of different items. *)
THEOREM AlwaysPaired == Spec => []PairedChecksums
<1>1. IInv => PairedChecksums
  BY DEF IInv, PairInv, PairedChecksums
<1>2. QED
  BY Invariance, <1>1, PTL

-----------------------------------------------------------------------------
(* Refinement: receiving a value is HashStage's Take, a combiner's send is *)
(* Emit, startJob's close is Close, and nothing else shows outside.        *)

(* The job starts where the stage starts: nothing taken, nothing sent.     *)
LEMMA InitRefines == Init => Stage!Init
<1> SUFFICES ASSUME Init PROVE Stage!Init
  OBVIOUS
<1>1. Sent = {}
  BY DEF Init, Sent
<1>2. QED
  BY <1>1 DEF Init, Stage!Init

(* TakeValue takes, SendResult emits, CloseOut closes; all else stutters.  *)
LEMMA StepRefines == IInv /\ [Next]_vars => [Stage!Next]_(Stage!vars)
<1> SUFFICES ASSUME IInv, [Next]_vars PROVE [Stage!Next]_(Stage!vars)
  OBVIOUS
<1> USE SingleHashAssumption DEF IInv, Types, StartedInv, Items, Step, shared, locals, pcs
<1>1. ASSUME UNCHANGED <<taken, combiner, out>>, UNCHANGED (main = "closed")
      PROVE UNCHANGED Stage!vars
  BY <1>1 DEF Stage!vars, Sent
<1>2. ASSUME NEW k \in Items, TakeValue(k) PROVE Stage!Take
  <2>1. Sent' = Sent
    BY <1>2 DEF TakeValue, Sent
  <2>2. QED
    BY <1>2, <2>1 DEF TakeValue, Stage!Take
<1>3. CASE InputClosed \/ Return
  BY <1>1, <1>3 DEF InputClosed, Return
<1>4. CASE CloseOut
  <2>1. Sent' = Sent
    BY <1>4 DEF CloseOut, Sent
  <2>2. Sent = 1..N
    BY <1>4 DEF CloseOut, Sent, NoSendOnClosedOut
  <2>3. Stage!Close
    BY <1>4, <2>1, <2>2 DEF CloseOut, Stage!Close
  <2>4. QED
    BY <2>3 DEF Stage!Next
<1>5. ASSUME NEW i \in Items, Goroutine(i) PROVE [Stage!Next]_(Stage!vars)
  <2>1. CASE SendResult(i)
    <3>1. i \notin Sent /\ Sent' = Sent \cup {i}
      BY <2>1 DEF SendResult, Sent
    <3>2. out' = Append(out, Hash(Input[i]))
      BY <2>1 DEF SendResult, PairInv, Hash
    <3>3. Stage!Emit(i)
      BY <2>1, <3>1, <3>2 DEF SendResult, Stage!Emit
    <3>4. i \in 1..taken
      BY <2>1 DEF SendResult
    <3>5. QED
      BY <3>3, <3>4 DEF Stage!Next
  <2>2. CASE SendCrc32(i) \/ SendMd5Crc32(i) \/ WgDone(i)
    <3>1. Sent' = Sent
      BY <2>2 DEF SendCrc32, SendMd5Crc32, WgDone, Sent
    <3>2. QED
      BY <2>2, <3>1 DEF SendCrc32, SendMd5Crc32, WgDone, Stage!vars
  <2>3. CASE LockMu(i) \/ OverheatLock(i) \/ OverheatUnlock(i) \/ SendMd5(i)
             \/ UnlockMu(i) \/ HashCrc32(i)
    BY <1>1, <2>3 DEF LockMu, OverheatLock, OverheatUnlock, SendMd5, UnlockMu, HashCrc32
  <2> QED  BY <1>5, <2>1, <2>2, <2>3 DEF Goroutine
<1>6. CASE UNCHANGED vars  BY <1>1, <1>6 DEF vars
<1> QED  BY <1>2, <1>3, <1>4, <1>5, <1>6 DEF Next, Job, Terminated, Stage!Next

(* The safety part of ImplementsStage.                                     *)
THEOREM RefinesStage == Spec => Stage!Init /\ [][Stage!Next]_(Stage!vars)
<1>1. QED
  BY InitRefines, StepRefines, Invariance, PTL DEF Spec

-----------------------------------------------------------------------------
(* What the next job has when the channel is closed.                       *)

(* The i-th hash received downstream is the hash of value b[i].            *)
HashesOf(b) ==
  /\ b \in [1..Len(out) -> Sent]
  /\ \A i, k \in 1..Len(out) : b[i] = b[k] => i = k
  /\ \A x \in Sent : \E i \in 1..Len(out) : b[i] = x
  /\ \A i \in 1..Len(out) : out[i] = Hash(Input[b[i]])

OutInv == (\E S : out \in Seq(S)) /\ \E b : HashesOf(b)

(* All hashes have arrived, each one once.                                 *)
EachHashOnce ==
  main = "closed" =>
    /\ Len(out) = N
    /\ \E b \in [1..N -> 1..N] :
         /\ \A i, k \in 1..N : b[i] = b[k] => i = k
         /\ \A x \in 1..N : \E i \in 1..N : b[i] = x
         /\ \A i \in 1..N : out[i] = Hash(Input[b[i]])

(* A step of HashStage keeps this: Emit adds the hash of a value that was  *)
(* not sent.                                                               *)
LEMMA StepKeepsOut == OutInv /\ [Stage!Next]_(Stage!vars) => OutInv'
<1> SUFFICES ASSUME OutInv, [Stage!Next]_(Stage!vars) PROVE OutInv'
  OBVIOUS
<1>1. CASE UNCHANGED <<Sent, out>>
  <2>1. PICK b : HashesOf(b)
    BY DEF OutInv
  <2>2. HashesOf(b)'
    BY <1>1, <2>1 DEF HashesOf
  <2> QED  BY <1>1, <2>2 DEF OutInv
<1>2. ASSUME NEW k, Stage!Emit(k) PROVE OutInv'
  <2>1. k \notin Sent /\ Sent' = Sent \cup {k} /\ out' = Append(out, Hash(Input[k]))
    BY <1>2 DEF Stage!Emit
  <2>2. PICK b : HashesOf(b)
    BY DEF OutInv
  <2>3. PICK S : out \in Seq(S)
    BY DEF OutInv
  <2>4. PICK n \in Nat : n = Len(out)
    BY <2>3
  <2>5. out \in Seq(S \cup {Hash(Input[k])}) /\ Hash(Input[k]) \in S \cup {Hash(Input[k])}
    BY <2>3
  <2>6. /\ out' \in Seq(S \cup {Hash(Input[k])}) /\ Len(out') = n + 1
        /\ \A i \in 1..n : out'[i] = out[i]
        /\ out'[n + 1] = Hash(Input[k])
    BY <2>1, <2>4, <2>5
  <2>7. PICK e : e = [i \in 1..(n + 1) |-> IF i = n + 1 THEN k ELSE b[i]]
    OBVIOUS
  <2>8. /\ \A i \in 1..n : b[i] \in Sent /\ out[i] = Hash(Input[b[i]])
        /\ \A i, m \in 1..n : b[i] = b[m] => i = m
        /\ \A x \in Sent : \E i \in 1..n : b[i] = x
    BY <2>2, <2>4 DEF HashesOf
  <2>9. \A i \in 1..(n + 1) : \/ i = n + 1 /\ e[i] = k
                              \/ i \in 1..n /\ i # n + 1 /\ e[i] = b[i]
    BY <2>7
  <2>10. e \in [1..(n + 1) -> Sent']
    BY <2>1, <2>7, <2>8
  <2>11. \A i, m \in 1..(n + 1) : e[i] = e[m] => i = m
    BY <2>1, <2>8, <2>9
  <2>12. \A x \in Sent' : \E i \in 1..(n + 1) : e[i] = x
    <3>1. \A i \in 1..n : i \in 1..(n + 1) /\ i # n + 1
      OBVIOUS
    <3>2. n + 1 \in 1..(n + 1)
      OBVIOUS
    <3> QED  BY <2>1, <2>8, <2>9, <3>1, <3>2
  <2>13. \A i \in 1..(n + 1) : out'[i] = Hash(Input[e[i]])
    BY <2>6, <2>8, <2>9
  <2>14. HashesOf(e)'
    BY <2>6, <2>10, <2>11, <2>12, <2>13 DEF HashesOf, Hash
  <2> QED  BY <2>6, <2>14 DEF OutInv
<1>3. CASE ~ UNCHANGED <<Sent, out>>
  BY <1>2, <1>3 DEF Stage!Next, Stage!Take, Stage!Close, Stage!vars
<1> QED  BY <1>1, <1>3

(* Whatever the order in which the combiners finish, the output is closed  *)
(* when the next job has the hash of each value, each one once: what       *)
(* Pipeline takes for granted of a hashing job.                            *)
THEOREM HashesEachOnce == Spec => []EachHashOnce
<1>1. Init => OutInv
  <2> SUFFICES ASSUME Init PROVE OutInv
    OBVIOUS
  <2>1. out = <<>> /\ Sent = {} /\ Len(<<>>) = 0
    BY DEF Init, Sent
  <2>2. \A i : i \notin 1..0
    OBVIOUS
  <2>3. HashesOf(<<>>)
    BY <2>1, <2>2 DEF HashesOf
  <2> QED  BY <2>1, <2>3 DEF OutInv
<1>2. IInv /\ OutInv => EachHashOnce
  <2> SUFFICES ASSUME IInv, OutInv, main = "closed" PROVE EachHashOnce
    BY DEF EachHashOnce
  <2>1. Sent = 1..N
    BY SingleHashAssumption DEF IInv, Types, StartedInv, Items, Sent, NoSendOnClosedOut
  <2>2. PICK b : HashesOf(b)
    BY DEF OutInv
  <2>3. Len(out) \in Nat /\ N \in Nat
    BY SingleHashAssumption DEF OutInv
  <2>4. b \in Bijection(1..Len(out), 1..N)
    BY <2>1, <2>2 DEF HashesOf, Bijection, Injection, Surjection, IsInjective
  <2>5. Len(out) = N
    <3>1. ExistsBijection(1..Len(out), 1..N)
      BY <2>4 DEF ExistsBijection
    <3>2. \A n \in Nat : IsFiniteSet(1..n) /\ Cardinality(1..n) = n
      BY FS_Interval
    <3> QED  BY <2>3, <3>1, <3>2, FS_Bijection
  <2> QED  BY <2>1, <2>2, <2>5 DEF EachHashOnce, HashesOf
<1> QED  BY <1>1, <1>2, StepKeepsOut, InitRefines, StepRefines, Invariance, PTL DEF Spec
================================================================================
