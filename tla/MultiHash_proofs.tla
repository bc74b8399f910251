--------------------------- MODULE MultiHash_proofs ----------------------------
(***************************************************************************)
(* Proofs about MultiHash, for any number of values and of prefixes and    *)
(* any checksum: its type invariant, its safety invariants, and that each  *)
(* of its steps is a step of HashStage or leaves HashStage unchanged.      *)
(***************************************************************************)
EXTENDS MultiHash, FiniteSetTheorems, SequenceTheorems, TLAPS

(* The joiners wg.Wait() waits for                                         *)
Live == {i \in Items : joiner[i] \notin {"none", "done"}}

(* The first n checksums of value v                                        *)
Partial(n, v) == [k \in 1..n |-> Crc32(k - 1, v)]

Types ==
  /\ main \in {"range", "wait", "close", "closed"}
  /\ taken \in 0..N
  /\ joiner \in [Items -> {"none", "start", "join", "send", "wgDone", "done"}]
  /\ idx \in [Items -> 0..P]
  /\ DOMAIN result = Items
  /\ step \in [Items -> [Prefixes -> {"none", "hash", "send", "done"}]]

(* Joiners were started for the items received so far, and for no other;   *)
(* the job is past its loop only with the whole input received.            *)
StartedInv ==
  /\ \A i \in Items : joiner[i] = "none" <=> i > taken
  /\ main # "range" => taken = N

(* The WaitGroup counts the live joiners.                                  *)
CountInv == IsFiniteSet(Live) /\ wg = Cardinality(Live)

(* A joiner has concatenated the checksums of the prefixes below its loop  *)
(* variable, and all of them when it sends.                                *)
ResultInv ==
  \A i \in Items :
    /\ joiner[i] \in {"none", "start"} => result[i] = <<>>
    /\ joiner[i] = "join" => result[i] = Partial(idx[i], Input[i])
    /\ joiner[i] = "send" => result[i] = Partial(P, Input[i])

IInv == Types /\ StartedInv /\ CountInv /\ NoSendOnClosedOut /\ ResultInv

-----------------------------------------------------------------------------
(* Partial(n, v) is a sequence of length n.                                *)
LEMMA PartialIsSeq ==
  ASSUME NEW n \in Nat, NEW v, NEW S, \A k \in 1..n : Crc32(k - 1, v) \in S
  PROVE  Partial(n, v) \in Seq(S) /\ Len(Partial(n, v)) = n
<1>1. Partial(n, v) \in [1..n -> S]
  BY DEF Partial
<1>2. Partial(n, v) \in Seq(S)
  BY <1>1, SeqDef
<1>3. DOMAIN Partial(n, v) = 1..n
  BY DEF Partial
<1>4. Len(Partial(n, v)) = n
  BY <1>2, <1>3, LenProperties
<1>5. QED
  BY <1>2, <1>4

(* One more checksum.                                                      *)
LEMMA PartialAppend ==
  ASSUME NEW n \in Nat, NEW v
  PROVE  Append(Partial(n, v), Crc32(n, v)) = Partial(n + 1, v)
<1> DEFINE S == {Crc32(k - 1, v) : k \in 1..(n + 1)}
           s == Partial(n, v)
           c == Crc32(n, v)
           t == Partial(n + 1, v)
<1>1. c \in S
  <2>1. n + 1 \in 1..(n + 1) /\ (n + 1) - 1 = n
    OBVIOUS
  <2>2. QED
    BY <2>1, Zenon
<1>0. \A k \in 1..(n + 1) : Crc32(k - 1, v) \in S
  OBVIOUS
<1> HIDE DEF S
<1>2. s \in Seq(S) /\ Len(s) = n
  <2>1. \A k \in 1..n : Crc32(k - 1, v) \in S
    BY <1>0
  <2>2. QED
    BY <2>1, PartialIsSeq
<1>3. t \in Seq(S) /\ Len(t) = n + 1
  <2>1. n + 1 \in Nat
    OBVIOUS
  <2>2. QED
    BY <2>1, <1>0, PartialIsSeq
<1>4. \A k \in 1..n : s[k] = Crc32(k - 1, v) /\ t[k] = Crc32(k - 1, v)
  BY DEF Partial
<1>5. t[n + 1] = c
  BY DEF Partial
<1> HIDE DEF s, c, t
<1>6. Append(s, c) \in Seq(S) /\ Len(Append(s, c)) = n + 1
  BY <1>1, <1>2
<1>7. \A k \in 1..(n + 1) : Append(s, c)[k] = t[k]
  BY <1>1, <1>2, <1>4, <1>5
<1>8. Append(s, c) = t
  BY <1>3, <1>6, <1>7, SeqEqual
<1>9. QED
  BY <1>8 DEF s, c, t

(* Before the first checksum.                                              *)
LEMMA PartialNone == ASSUME NEW v PROVE Partial(0, v) = <<>>
  BY DEF Partial

(* The inductive invariant holds at the start.                             *)
LEMMA InitIInv == Init => IInv
<1> SUFFICES ASSUME Init PROVE IInv
  OBVIOUS
<1> USE MultiHashAssumption DEF Init, Items
<1>1. Types /\ StartedInv /\ NoSendOnClosedOut /\ ResultInv
  BY DEF Types, StartedInv, NoSendOnClosedOut, ResultInv
<1>2. Live = {}
  BY DEF Live
<1>3. CountInv
  BY <1>2, FS_EmptySet DEF CountInv
<1>4. QED
  BY <1>1, <1>3 DEF IInv

(* Every action keeps the types.                                           *)
LEMMA StepKeepsTypes == IInv /\ [Next]_vars => Types'
<1> SUFFICES ASSUME IInv, [Next]_vars PROVE Types'
  OBVIOUS
<1> USE MultiHashAssumption DEF IInv, Types, Items, Prefixes, Step
<1>1. ASSUME Job PROVE Types'
  <2>1. ASSUME NEW k \in Items, TakeValue(k) PROVE Types'
    BY <2>1 DEF TakeValue
  <2>2. CASE InputClosed  BY <2>2 DEF InputClosed
  <2>3. CASE Return  BY <2>3 DEF Return, JoinersDone
  <2>4. CASE CloseOut  BY <2>4 DEF CloseOut
  <2> QED  BY <1>1, <2>1, <2>2, <2>3, <2>4 DEF Job
<1>2. ASSUME NEW i \in Items, Goroutine(i) PROVE Types'
  <2>1. CASE StartPrefix(i)  BY <2>1 DEF StartPrefix
  <2>2. CASE StartedAll(i)  BY <2>2 DEF StartedAll
  <2>3. CASE EndJoin(i)  BY <2>3 DEF EndJoin, JoinedAll
  <2>4. CASE SendResult(i)  BY <2>4 DEF SendResult
  <2>5. CASE WgDone(i)  BY <2>5 DEF WgDone
  <2>6. ASSUME NEW p \in Prefixes, HashPrefix(i, p) PROVE Types'
    BY <2>6 DEF HashPrefix
  <2>7. ASSUME NEW p \in Prefixes, JoinPrefix(i, p) PROVE Types'
    BY <2>7 DEF JoinPrefix, Ready
  <2> QED  BY <1>2, <2>1, <2>2, <2>3, <2>4, <2>5, <2>6, <2>7 DEF Goroutine
<1>3. CASE UNCHANGED vars  BY <1>3 DEF vars
<1> QED  BY <1>1, <1>2, <1>3 DEF Next, Terminated

(* Joiners are started in the order of the items, before the loop ends     *)
LEMMA StepKeepsStarted == IInv /\ [Next]_vars => StartedInv'
<1> SUFFICES ASSUME IInv, [Next]_vars PROVE StartedInv'
  OBVIOUS
<1> USE MultiHashAssumption DEF IInv, Types, StartedInv, Items, Step
<1>1. ASSUME Job PROVE StartedInv'
  <2>1. ASSUME NEW k \in Items, TakeValue(k) PROVE StartedInv'
    BY <2>1 DEF TakeValue
  <2>2. CASE InputClosed  BY <2>2 DEF InputClosed
  <2>3. CASE Return  BY <2>3 DEF Return, JoinersDone
  <2>4. CASE CloseOut  BY <2>4 DEF CloseOut
  <2> QED  BY <1>1, <2>1, <2>2, <2>3, <2>4 DEF Job
<1>2. ASSUME NEW i \in Items, Goroutine(i) PROVE StartedInv'
  <2>1. CASE StartPrefix(i)  BY <2>1 DEF StartPrefix
  <2>2. CASE StartedAll(i)  BY <2>2 DEF StartedAll
  <2>3. CASE EndJoin(i)  BY <2>3 DEF EndJoin, JoinedAll
  <2>4. CASE SendResult(i)  BY <2>4 DEF SendResult
  <2>5. CASE WgDone(i)  BY <2>5 DEF WgDone
  <2>6. ASSUME NEW p \in Prefixes, HashPrefix(i, p) PROVE StartedInv'
    BY <2>6 DEF HashPrefix
  <2>7. ASSUME NEW p \in Prefixes, JoinPrefix(i, p) PROVE StartedInv'
    BY <2>7 DEF JoinPrefix, Ready
  <2> QED  BY <1>2, <2>1, <2>2, <2>3, <2>4, <2>5, <2>6, <2>7 DEF Goroutine
<1>3. CASE UNCHANGED vars  BY <1>3 DEF vars
<1> QED  BY <1>1, <1>2, <1>3 DEF Next, Terminated

(* A joiner appends the checksum of its loop variable and no other         *)
LEMMA StepKeepsResult == IInv /\ [Next]_vars => ResultInv'
<1> SUFFICES ASSUME IInv, [Next]_vars PROVE ResultInv'
  OBVIOUS
<1> USE MultiHashAssumption DEF IInv, Types, ResultInv, Items, Prefixes, Step
<1>1. ASSUME Job PROVE ResultInv'
  <2>1. ASSUME NEW k \in Items, TakeValue(k) PROVE ResultInv'
    BY <2>1 DEF TakeValue
  <2>2. CASE InputClosed  BY <2>2 DEF InputClosed
  <2>3. CASE Return  BY <2>3 DEF Return, JoinersDone
  <2>4. CASE CloseOut  BY <2>4 DEF CloseOut
  <2> QED  BY <1>1, <2>1, <2>2, <2>3, <2>4 DEF Job
<1>2. ASSUME NEW i \in Items, Goroutine(i) PROVE ResultInv'
  <2>1. CASE StartPrefix(i)  BY <2>1 DEF StartPrefix
  <2>2. CASE StartedAll(i)
    BY <2>2, PartialNone DEF StartedAll
  <2>3. CASE EndJoin(i)  BY <2>3 DEF EndJoin, JoinedAll
  <2>4. CASE SendResult(i)  BY <2>4 DEF SendResult
  <2>5. CASE WgDone(i)  BY <2>5 DEF WgDone
  <2>6. ASSUME NEW p \in Prefixes, HashPrefix(i, p) PROVE ResultInv'
    BY <2>6 DEF HashPrefix
  <2>7. ASSUME NEW p \in Prefixes, JoinPrefix(i, p) PROVE ResultInv'
    <3>1. result[i] = Partial(idx[i], Input[i]) /\ p = idx[i]
      BY <2>7 DEF JoinPrefix, Ready
    <3>2. result'[i] = Partial(idx'[i], Input[i])
      <4>1. result'[i] = Append(result[i], Crc32(p, Input[i])) /\ idx'[i] = idx[i] + 1
        BY <2>7 DEF JoinPrefix, ValOf
      <4>2. idx[i] \in Nat
        OBVIOUS
      <4>3. Append(Partial(idx[i], Input[i]), Crc32(idx[i], Input[i]))
              = Partial(idx[i] + 1, Input[i])
        BY <4>2, PartialAppend
      <4>4. QED
        BY <3>1, <4>1, <4>3
    <3>3. \A j \in Items \ {i} : result'[j] = result[j] /\ idx'[j] = idx[j]
      BY <2>7 DEF JoinPrefix
    <3>4. joiner' = joiner /\ joiner[i] = "join"
      BY <2>7 DEF JoinPrefix
    <3>5. QED
      BY <3>2, <3>3, <3>4
  <2> QED  BY <1>2, <2>1, <2>2, <2>3, <2>4, <2>5, <2>6, <2>7 DEF Goroutine
<1>3. CASE UNCHANGED vars  BY <1>3 DEF vars
<1> QED  BY <1>1, <1>2, <1>3 DEF Next, Terminated

(* Only TakeValue and WgDone touch the WaitGroup, and each moves one       *)
(* joiner in or out of the live ones.                                    *)
LEMMA StepKeepsCount == IInv /\ [Next]_vars => CountInv'
<1> SUFFICES ASSUME IInv, [Next]_vars PROVE CountInv'
  OBVIOUS
<1> USE MultiHashAssumption DEF IInv, Types, CountInv, Items, Step
<1>1. ASSUME Live' = Live, wg' = wg PROVE CountInv'
  BY <1>1
<1>2. ASSUME NEW k \in Items, TakeValue(k) PROVE CountInv'
  <2>1. k \notin Live /\ Live' = Live \cup {k}
    BY <1>2 DEF TakeValue, Live
  <2>2. wg' = wg + 1
    BY <1>2 DEF TakeValue, Count
  <2>3. QED
    BY <2>1, <2>2, FS_AddElement, Zenon
<1>3. ASSUME NEW i \in Items, WgDone(i) PROVE CountInv'
  <2>1. i \in Live /\ Live' = Live \ {i}
    BY <1>3 DEF WgDone, Live
  <2>2. wg' = wg - 1
    BY <1>3 DEF WgDone
  <2>3. QED
    BY <2>1, <2>2, FS_RemoveElement, Zenon
<1>4. CASE InputClosed \/ Return \/ CloseOut
  BY <1>1, <1>4 DEF InputClosed, Return, JoinersDone, CloseOut, Live
<1>5. ASSUME NEW i \in Items, Goroutine(i) PROVE CountInv'
  <2>1. CASE StartPrefix(i)  BY <1>1, <2>1 DEF StartPrefix, Live
  <2>2. CASE StartedAll(i)  BY <1>1, <2>2 DEF StartedAll, Live
  <2>3. CASE EndJoin(i)  BY <1>1, <2>3 DEF EndJoin, Live
  <2>4. CASE SendResult(i)  BY <1>1, <2>4 DEF SendResult, Live
  <2>5. CASE WgDone(i)  BY <1>3, <2>5
  <2>6. ASSUME NEW p \in Prefixes, HashPrefix(i, p) \/ JoinPrefix(i, p) PROVE CountInv'
    BY <1>1, <2>6 DEF HashPrefix, JoinPrefix, Live
  <2> QED  BY <1>5, <2>1, <2>2, <2>3, <2>4, <2>5, <2>6 DEF Goroutine
<1>6. CASE UNCHANGED vars  BY <1>1, <1>6 DEF vars, Live
<1> QED  BY <1>2, <1>4, <1>5, <1>6 DEF Next, Job, Terminated

(* The job leaves wg.Wait() with no live joiner, and starts none later.  *)
LEMMA StepKeepsNoSend == IInv /\ [Next]_vars => NoSendOnClosedOut'
<1> SUFFICES ASSUME IInv, [Next]_vars PROVE NoSendOnClosedOut'
  OBVIOUS
<1> USE MultiHashAssumption
    DEF IInv, Types, NoSendOnClosedOut, Items, Step
<1>1. ASSUME NEW k \in Items, TakeValue(k) PROVE NoSendOnClosedOut'
  BY <1>1 DEF TakeValue
<1>2. CASE InputClosed  BY <1>2 DEF InputClosed
<1>3. CASE Return
  <2>1. Live = {}
    BY <1>3, FS_EmptySet DEF Return, JoinersDone, CountInv
  <2>2. QED
    BY <1>3, <2>1 DEF Return, JoinersDone, Live
<1>4. CASE CloseOut  BY <1>4 DEF CloseOut
<1>5. ASSUME NEW i \in Items, Goroutine(i) PROVE NoSendOnClosedOut'
  <2>1. main' = main
    BY <1>5 DEF Goroutine, StartPrefix, StartedAll, EndJoin, SendResult, WgDone,
                HashPrefix, JoinPrefix
  <2>2. joiner[i] \in {"none", "done"} => joiner' = joiner
    BY <1>5 DEF Goroutine, StartPrefix, StartedAll, EndJoin, SendResult, WgDone,
                HashPrefix, JoinPrefix
  <2>3. QED
    BY <2>1, <2>2
<1>6. CASE UNCHANGED vars  BY <1>6 DEF vars
<1> QED  BY <1>1, <1>2, <1>3, <1>4, <1>5, <1>6 DEF Next, Job, Terminated

(* IInv is an inductive invariant of MultiHash.                           *)
THEOREM Invariance == Spec => []IInv
<1>1. IInv /\ [Next]_vars => IInv'
  BY StepKeepsTypes, StepKeepsStarted, StepKeepsResult, StepKeepsCount,
     StepKeepsNoSend DEF IInv
<1>2. QED
  BY InitIInv, <1>1, PTL DEF Spec

(* There are at most N live joiners.                                     *)
LEMMA CountBound == IInv => wg \in 0..N
<1> SUFFICES ASSUME IInv PROVE wg \in 0..N
  OBVIOUS
<1>1. IsFiniteSet(Items) /\ Cardinality(Items) = N
  BY MultiHashAssumption, FS_Interval DEF Items
<1>2. Live \in SUBSET Items
  BY DEF Live
<1>3. Cardinality(Live) <= N
  BY <1>1, <1>2, FS_Subset
<1>4. Cardinality(Live) \in Nat
  BY FS_CardinalityType DEF IInv, CountInv
<1>5. QED
  BY <1>3, <1>4, MultiHashAssumption DEF IInv, CountInv

(* Type correctness: in particular the WaitGroup never becomes negative,   *)
(* which would panic.                                                      *)
THEOREM TypeCorrect == Spec => []TypeOK
<1>1. IInv => TypeOK
  BY CountBound DEF IInv, Types, TypeOK
<1>2. QED
  BY Invariance, <1>1, PTL

(* startJob never closes the channel under a joiner that has still to send *)
(* on it.                                                                  *)
THEOREM NeverSendsOnClosed == Spec => []NoSendOnClosedOut
<1>1. IInv => NoSendOnClosedOut
  BY DEF IInv
<1>2. QED
  BY Invariance, <1>1, PTL

(* Whatever the order in which the prefixes are hashed, a result is the    *)
(* concatenation in the order of the prefixes.                             *)
THEOREM AlwaysInPrefixOrder == Spec => []ResultInPrefixOrder
<1>1. IInv => ResultInPrefixOrder
  BY DEF IInv, ResultInv, ResultInPrefixOrder, Partial, Hash
<1>2. QED
  BY Invariance, <1>1, PTL

-----------------------------------------------------------------------------
(* Refinement: receiving a value is HashStage's Take, a joiner's send is   *)
(* Emit, startJob's close is Close, and nothing else shows outside.        *)

(* The job starts where the stage starts: nothing taken, nothing sent.     *)
LEMMA InitRefines == Init => Stage!Init
<1> SUFFICES ASSUME Init PROVE Stage!Init
  OBVIOUS
<1>1. Sent = {}
  BY DEF Init, Sent
<1>2. QED
  BY <1>1 DEF Init, Stage!Init

(* TakeValue takes, SendResult emits, CloseOut closes; all else stutters.  *)
LEMMA StepRefines == IInv /\ [Next]_vars => [Stage!Next]_(Stage!vars)
<1> SUFFICES ASSUME IInv, [Next]_vars PROVE [Stage!Next]_(Stage!vars)
  OBVIOUS
<1> USE MultiHashAssumption DEF IInv, Types, StartedInv, Items, Step
<1>1. ASSUME UNCHANGED <<taken, joiner, out>>, UNCHANGED (main = "closed")
      PROVE UNCHANGED Stage!vars
  BY <1>1 DEF Stage!vars, Sent
<1>2. ASSUME NEW k \in Items, TakeValue(k) PROVE Stage!Take
  <2>1. Sent' = Sent
    BY <1>2 DEF TakeValue, Sent
  <2>2. QED
    BY <1>2, <2>1 DEF TakeValue, Stage!Take
<1>3. CASE InputClosed \/ Return
  BY <1>1, <1>3 DEF InputClosed, Return, JoinersDone
<1>4. CASE CloseOut
  <2>1. Sent' = Sent
    BY <1>4 DEF CloseOut, Sent
  <2>2. Sent = 1..N
    BY <1>4 DEF CloseOut, Sent, NoSendOnClosedOut
  <2>3. Stage!Close
    BY <1>4, <2>1, <2>2 DEF CloseOut, Stage!Close
  <2>4. QED
    BY <2>3 DEF Stage!Next
<1>5. ASSUME NEW i \in Items, Goroutine(i) PROVE [Stage!Next]_(Stage!vars)
  <2>1. CASE SendResult(i)
    <3>1. i \notin Sent /\ Sent' = Sent \cup {i}
      BY <2>1 DEF SendResult, Sent
    <3>2. out' = Append(out, Hash(Input[i]))
      BY <2>1 DEF SendResult, ResultInv, Partial, Hash
    <3>3. Stage!Emit(i)
      BY <2>1, <3>1, <3>2 DEF SendResult, Stage!Emit
    <3>4. i \in 1..taken
      BY <2>1 DEF SendResult
    <3>5. QED
      BY <3>3, <3>4 DEF Stage!Next
  <2>2. CASE StartedAll(i) \/ EndJoin(i) \/ WgDone(i)
    <3>1. Sent' = Sent
      BY <2>2 DEF StartedAll, EndJoin, WgDone, Sent
    <3>2. QED
      BY <2>2, <3>1 DEF StartedAll, EndJoin, WgDone, Stage!vars
  <2>3. CASE StartPrefix(i)
    BY <1>1, <2>3 DEF StartPrefix
  <2>4. ASSUME NEW p \in Prefixes, HashPrefix(i, p) \/ JoinPrefix(i, p)
        PROVE UNCHANGED Stage!vars
    BY <1>1, <2>4 DEF HashPrefix, JoinPrefix
  <2> QED  BY <1>5, <2>1, <2>2, <2>3, <2>4 DEF Goroutine
<1>6. CASE UNCHANGED vars  BY <1>1, <1>6 DEF vars
<1> QED  BY <1>2, <1>3, <1>4, <1>5, <1>6 DEF Next, Job, Terminated, Stage!Next

(* The safety part of ImplementsStage.                                     *)
THEOREM RefinesStage == Spec => Stage!Init /\ [][Stage!Next]_(Stage!vars)
<1>1. QED
  BY InitRefines, StepRefines, Invariance, PTL DEF Spec

-----------------------------------------------------------------------------
(* What the next job has when the channel is closed.                       *)

(* The i-th hash received downstream is the hash of value b[i].            *)
HashesOf(b) ==
  /\ b \in [1..Len(out) -> Sent]
  /\ \A i, k \in 1..Len(out) : b[i] = b[k] => i = k
  /\ \A x \in Sent : \E i \in 1..Len(out) : b[i] = x
  /\ \A i \in 1..Len(out) : out[i] = Hash(Input[b[i]])

OutInv == (\E S : out \in Seq(S)) /\ \E b : HashesOf(b)

(* All hashes have arrived, each one once.                                 *)
EachHashOnce ==
  main = "closed" =>
    /\ Len(out) = N
    /\ \E b \in [1..N -> 1..N] :
         /\ \A i, k \in 1..N : b[i] = b[k] => i = k
         /\ \A x \in 1..N : \E i \in 1..N : b[i] = x
         /\ \A i \in 1..N : out[i] = Hash(Input[b[i]])

(* A step of HashStage keeps this: Emit adds the hash of a value that was  *)
(* not sent.                                                               *)
LEMMA StepKeepsOut == OutInv /\ [Stage!Next]_(Stage!vars) => OutInv'
<1> SUFFICES ASSUME OutInv, [Stage!Next]_(Stage!vars) PROVE OutInv'
  OBVIOUS
<1>1. CASE UNCHANGED <<Sent, out>>
  <2>1. PICK b : HashesOf(b)
    BY DEF OutInv
  <2>2. HashesOf(b)'
    BY <1>1, <2>1 DEF HashesOf
  <2> QED  BY <1>1, <2>2 DEF OutInv
<1>2. ASSUME NEW k, Stage!Emit(k) PROVE OutInv'
  <2>1. k \notin Sent /\ Sent' = Sent \cup {k} /\ out' = Append(out, Hash(Input[k]))
    BY <1>2 DEF Stage!Emit
  <2>2. PICK b : HashesOf(b)
    BY DEF OutInv
  <2>3. PICK S : out \in Seq(S)
    BY DEF OutInv
  <2>4. PICK n \in Nat : n = Len(out)
    BY <2>3
  <2>5. out \in Seq(S \cup {Hash(Input[k])}) /\ Hash(Input[k]) \in S \cup {Hash(Input[k])}
    BY <2>3
  <2>6. /\ out' \in Seq(S \cup {Hash(Input[k])}) /\ Len(out') = n + 1
        /\ \A i \in 1..n : out'[i] = out[i]
        /\ out'[n + 1] = Hash(Input[k])
    BY <2>1, <2>4, <2>5
  <2>7. PICK e : e = [i \in 1..(n + 1) |-> IF i = n + 1 THEN k ELSE b[i]]
    OBVIOUS
  <2>8. /\ \A i \in 1..n : b[i] \in Sent /\ out[i] = Hash(Input[b[i]])
        /\ \A i, m \in 1..n : b[i] = b[m] => i = m
        /\ \A x \in Sent : \E i \in 1..n : b[i] = x
    BY <2>2, <2>4 DEF HashesOf
  <2>9. \A i \in 1..(n + 1) : \/ i = n + 1 /\ e[i] = k
                              \/ i \in 1..n /\ i # n + 1 /\ e[i] = b[i]
    BY <2>7
  <2>10. e \in [1..(n + 1) -> Sent']
    BY <2>1, <2>7, <2>8
  <2>11. \A i, m \in 1..(n + 1) : e[i] = e[m] => i = m
    BY <2>1, <2>8, <2>9
  <2>12. \A x \in Sent' : \E i \in 1..(n + 1) : e[i] = x
    <3>1. \A i \in 1..n : i \in 1..(n + 1) /\ i # n + 1
      OBVIOUS
    <3>2. n + 1 \in 1..(n + 1)
      OBVIOUS
    <3> QED  BY <2>1, <2>8, <2>9, <3>1, <3>2
  <2>13. \A i \in 1..(n + 1) : out'[i] = Hash(Input[e[i]])
    BY <2>6, <2>8, <2>9
  <2>14. HashesOf(e)'
    BY <2>6, <2>10, <2>11, <2>12, <2>13 DEF HashesOf, Hash
  <2> QED  BY <2>6, <2>14 DEF OutInv
<1>3. CASE ~ UNCHANGED <<Sent, out>>
  BY <1>2, <1>3 DEF Stage!Next, Stage!Take, Stage!Close, Stage!vars
<1> QED  BY <1>1, <1>3

(* Whatever the order in which the joiners finish, the output is closed    *)
(* when the next job has the hash of each value, each one once: what       *)
(* Pipeline takes for granted of a hashing job.                            *)
THEOREM HashesEachOnce == Spec => []EachHashOnce
<1>1. Init => OutInv
  <2> SUFFICES ASSUME Init PROVE OutInv
    OBVIOUS
  <2>1. out = <<>> /\ Sent = {} /\ Len(<<>>) = 0
    BY DEF Init, Sent
  <2>2. \A i : i \notin 1..0
    OBVIOUS
  <2>3. HashesOf(<<>>)
    BY <2>1, <2>2 DEF HashesOf
  <2> QED  BY <2>1, <2>3 DEF OutInv
<1>2. IInv /\ OutInv => EachHashOnce
  <2> SUFFICES ASSUME IInv, OutInv, main = "closed" PROVE EachHashOnce
    BY DEF EachHashOnce
  <2>1. Sent = 1..N
    BY MultiHashAssumption DEF IInv, Types, StartedInv, Items, Sent, NoSendOnClosedOut
  <2>2. PICK b : HashesOf(b)
    BY DEF OutInv
  <2>3. Len(out) \in Nat /\ N \in Nat
    BY MultiHashAssumption DEF OutInv
  <2>4. b \in Bijection(1..Len(out), 1..N)
    BY <2>1, <2>2 DEF HashesOf, Bijection, Injection, Surjection, IsInjective
  <2>5. Len(out) = N
    <3>1. ExistsBijection(1..Len(out), 1..N)
      BY <2>4 DEF ExistsBijection
    <3>2. \A n \in Nat : IsFiniteSet(1..n) /\ Cardinality(1..n) = n
      BY FS_Interval
    <3> QED  BY <2>3, <3>1, <3>2, FS_Bijection
  <2> QED  BY <2>1, <2>2, <2>5 DEF EachHashOnce, HashesOf
<1> QED  BY <1>1, <1>2, StepKeepsOut, InitRefines, StepRefines, Invariance, PTL DEF Spec
================================================================================
