---------------------------- MODULE Pipeline_proofs ----------------------------
(***************************************************************************)
(* Proofs about Pipeline, for any pipelines of the kinds of jobs it knows, *)
(* of any length and input: types, and that channels are closed in order   *)
(* without losing a value; and of those with the jobs of the signer, that  *)
(* they give one result, whatever the order in which goroutines run.       *)
(***************************************************************************)
EXTENDS Pipeline, FiniteSetTheorems, SequenceTheorems, TLAPS

IsSequence(s) == \E S : s \in Seq(S)

Places  == {"idle", "loop", "finish", "close", "wgDone", "exited"}
Ending  == {"close", "wgDone", "exited"}
Sources == {"source", "lockstep"}

(* What jobs have received is a sequence, and what of their outputs was    *)
(* received a finite set; job 1 is sent nothing.                           *)
DataInv ==
  /\ \A j \in Job : IsSequence(recvd[j]) /\ IsFiniteSet(sent[j])
  /\ recvd[1] = <<>>

(* Jobs 2, 3, ... are started before job 1.                                *)
StartInv ==
  /\ main = "start" =>
       /\ started < Last
       /\ \A j \in Job : j = 1 \/ j >= started + 2 => job[j] = "idle"
  /\ main = "returned" => wg = 0

(* The counter of the WaitGroup counts the jobs that have not exited.      *)
WgInv == wg = Cardinality({j \in Job : job[j] # "exited"})

(* Which outputs a job has sent, by what it is.                            *)
SentInv ==
  \A j \in Job :
    /\ Jobs[j] \in Sources => sent[j] = 1..Cardinality(sent[j])
    /\ Jobs[j] \in Sources /\ job[j] \notin {"idle", "loop"} =>
         Cardinality(sent[j]) = Len(Input)
    /\ Jobs[j] \in {"hash", "map"} => sent[j] \subseteq 1..Len(recvd[j])

(* A job has received all that the one before it was relieved of.          *)
LinkInv == \A j \in Job \ {1} : Len(recvd[j]) = Cardinality(sent[j - 1])

(* A job returns with nothing left to send, and one that ranges over its   *)
(* input leaves the loop only when that is closed.                         *)
CloseInv ==
  \A j \in Job :
    /\ job[j] \in Ending => Offers(j) = {}
    /\ job[j] \notin {"idle", "loop"} /\ j # 1 /\ Jobs[j] # "readOne" => Closed(j - 1)

IInv == /\ TypeOK /\ DataInv /\ StartInv /\ WgInv /\ SentInv /\ LinkInv /\ CloseInv

-----------------------------------------------------------------------------
(* The lengths and kinds of the pipeline that runs.                        *)
LEMMA PipelineFacts ==
  ASSUME args \in Pipelines
  PROVE  /\ Last \in Nat /\ Last > 0 /\ 1 \in Job
         /\ Len(Input) \in Nat
         /\ \A j \in Job : Jobs[j] \in Kinds
         /\ \A j \in Job : j # 1 => j - 1 \in Job /\ Jobs[j] \notin Sources
<1>1. /\ Jobs \in Seq(Kinds) /\ Last > 0 /\ Input \in Seq(Nat)
      /\ \A j \in 2..Last : Jobs[j] \notin Sources
  BY PipelineAssumption DEF Jobs, Last, Input, Sources
<1>2. Last \in Nat /\ Len(Input) \in Nat
  BY <1>1, LenProperties DEF Last
<1>3. \A j \in Job : Jobs[j] \in Kinds
  BY <1>1, ElementOfSeq DEF Job, Last
<1> QED  BY <1>1, <1>2, <1>3 DEF Job

(* The pipeline does not change while it runs.                             *)
LEMMA ArgsKept == [Next]_vars => args' = args /\ Job' = Job /\ Jobs' = Jobs /\ Last' = Last /\ Input' = Input
<1> SUFFICES ASSUME [Next]_vars PROVE args' = args
  BY DEF Job, Jobs, Last, Input
<1> QED  BY DEF Next, Execute, StartJob, ReturnToCaller, Run, EndLoop, Return, CloseOut, WgDone,
                Send, Terminated, vars

(* A value more makes a sequence longer by one.                            *)
LEMMA AppendOne ==
  ASSUME NEW s, NEW v, IsSequence(s)
  PROVE  IsSequence(Append(s, v)) /\ Len(s) \in Nat /\ Len(Append(s, v)) = Len(s) + 1
<1>1. PICK S : s \in Seq(S)
  BY DEF IsSequence
<1>2. s \in Seq(S \cup {v}) /\ v \in S \cup {v}
  BY <1>1
<1> QED  BY <1>2, AppendProperties, LenProperties DEF IsSequence

(* The inductive invariant holds at the start.                             *)
LEMMA InitIInv == Init => IInv
<1> SUFFICES ASSUME Init PROVE IInv
  OBVIOUS
<1>0. /\ Last \in Nat /\ Last > 0 /\ 1 \in Job
      /\ Len(Input) \in Nat
      /\ \A j \in Job : Jobs[j] \in Kinds
      /\ \A j \in Job : j # 1 => j - 1 \in Job
  BY PipelineFacts DEF Init
<1>1. TypeOK
  BY <1>0 DEF Init, TypeOK, Added
<1>2. \A j \in Job : recvd[j] = <<>> /\ sent[j] = {} /\ job[j] = "idle"
  BY DEF Init
<1>3. IsFiniteSet({}) /\ Cardinality({}) = 0 /\ IsSequence(<<>>) /\ Len(<<>>) = 0
      /\ 1..0 = {}
  BY FS_EmptySet DEF IsSequence
<1>4. DataInv
  BY <1>0, <1>2, <1>3 DEF DataInv
<1>5. StartInv
  BY <1>0 DEF Init, StartInv
<1>6. WgInv
  <2>1. {j \in Job : job[j] # "exited"} = 1..Last
    BY <1>2 DEF Job
  <2>2. Cardinality(1..Last) = Last
    BY <1>0, FS_Interval
  <2> QED  BY <2>1, <2>2 DEF WgInv, Init, Added
<1>7. SentInv
  BY <1>2, <1>3 DEF SentInv
<1>8. LinkInv
  BY <1>0, <1>2, <1>3 DEF LinkInv
<1>9. CloseInv
  BY <1>2 DEF CloseInv, Ending
<1> QED  BY <1>1, <1>4, <1>5, <1>6, <1>7, <1>8, <1>9 DEF IInv

(* What a job is ready to send, by what it is.                             *)
LEMMA OfferKinds ==
  ASSUME NEW j \in Job, Jobs[j] \in Kinds
  PROVE  /\ Jobs[j] \in Sources => \A k \in Offers(j) : k = Cardinality(sent[j]) + 1 /\ k <= Len(Input)
         /\ Jobs[j] \in {"hash", "map"} => Offers(j) = (1..Len(recvd[j])) \ sent[j]
         /\ Jobs[j] = "combine" => Offers(j) = IF job[j] = "finish" THEN {1} \ sent[j] ELSE {}
         /\ Jobs[j] \in {"collect", "readOne"} => Offers(j) = {}
  BY DEF Offers, Sources, Kinds

(* A value goes from a job to the next one, as a new output of the first   *)
(* and at the end of what the second has received.                         *)
LEMMA SendOne ==
  ASSUME IInv, NEW j \in Job, NEW r \in Job, Send(j, r)
  PROVE  /\ r # 1 /\ j = r - 1 /\ j # r
         /\ job[r] = "loop" /\ job[j] \in {"loop", "finish"}
         /\ Jobs[j] \in Sources => job[j] = "loop" /\ Cardinality(sent[j]) < Len(Input)
         /\ \E k : /\ k \notin sent[j]
                   /\ sent' = [sent EXCEPT ![j] = @ \cup {k}]
                   /\ Jobs[j] \in Sources => k = Cardinality(sent[j]) + 1
                   /\ Jobs[j] \in {"hash", "map"} => k \in 1..Len(recvd[j])
         /\ Cardinality(sent'[j]) = Cardinality(sent[j]) + 1 /\ Cardinality(sent[j]) \in Nat
         /\ IsFiniteSet(sent'[j])
         /\ \A i \in Job : i # j => sent'[i] = sent[i]
         /\ IsSequence(recvd'[r]) /\ Len(recvd[r]) \in Nat /\ Len(recvd'[r]) = Len(recvd[r]) + 1
         /\ \A i \in Job : i # r => recvd'[i] = recvd[i]
<1>0. /\ TypeOK /\ DataInv /\ SentInv
      /\ Last \in Nat /\ 1 \in Job /\ Len(Input) \in Nat /\ \A i \in Job : Jobs[i] \in Kinds
  BY PipelineFacts DEF IInv, TypeOK
<1>1. /\ In(r) = j /\ job[j] \in {"loop", "finish"} /\ Receiving(r) /\ job[r] = "loop"
  BY DEF Send, Receiving
<1>2. PICK k \in Offers(j) : /\ recvd' = [recvd EXCEPT ![r] = Append(@, Output(j, k))]
                             /\ sent' = [sent EXCEPT ![j] = @ \cup {k}]
  BY DEF Send
<1>c. Cardinality(sent[j]) \in Nat /\ IsFiniteSet(sent[j])
  BY <1>0, FS_CardinalityType DEF DataInv
<1>3. r # 1
  <2> SUFFICES ASSUME r = 1 PROVE FALSE
    OBVIOUS
  <2>1. j = 1 /\ job[1] = "loop" /\ recvd[1] = <<>> /\ Len(recvd[1]) = 0
    BY <1>0, <1>1 DEF In, DataInv
  <2>2. Jobs[1] \notin Sources
    BY <1>1 DEF Receiving, Sources
  <2>3. Offers(1) = {}
    BY <1>0, <2>1, <2>2, OfferKinds DEF Kinds, Sources
  <2> QED  BY <1>2, <2>1, <2>3
<1>4. j = r - 1 /\ j # r
  BY <1>0, <1>1, <1>3 DEF In, Job
<1>5. /\ Jobs[j] \in Sources => k = Cardinality(sent[j]) + 1 /\ k <= Len(Input)
      /\ Jobs[j] \in {"hash", "map"} => k \in (1..Len(recvd[j])) \ sent[j]
      /\ Jobs[j] = "combine" => k \notin sent[j]
      /\ Jobs[j] \notin {"collect", "readOne"}
  BY <1>0, <1>2, OfferKinds
<1>6. k \notin sent[j]
  <2>1. CASE Jobs[j] \in Sources
    BY <1>0, <1>5, <1>c, <2>1 DEF SentInv
  <2>2. CASE Jobs[j] \notin Sources
    BY <1>0, <1>5, <2>2 DEF Kinds, Sources
  <2> QED  BY <2>1, <2>2
<1>7. Jobs[j] \in Sources => job[j] = "loop" /\ Cardinality(sent[j]) < Len(Input)
  BY <1>0, <1>1, <1>5, <1>c DEF SentInv
<1>8. sent'[j] = sent[j] \cup {k} /\ \A i \in Job : i # j => sent'[i] = sent[i]
  BY <1>0, <1>2 DEF TypeOK
<1>9. Cardinality(sent'[j]) = Cardinality(sent[j]) + 1 /\ IsFiniteSet(sent'[j])
  BY <1>6, <1>8, <1>c, FS_AddElement
<1>10. recvd'[r] = Append(recvd[r], Output(j, k)) /\ \A i \in Job : i # r => recvd'[i] = recvd[i]
  BY <1>0, <1>2 DEF TypeOK
<1>11. IsSequence(recvd'[r]) /\ Len(recvd[r]) \in Nat /\ Len(recvd'[r]) = Len(recvd[r]) + 1
  BY <1>0, <1>10, AppendOne DEF DataInv
<1> QED  BY <1>1, <1>2, <1>3, <1>4, <1>5, <1>6, <1>7, <1>8, <1>9, <1>10, <1>11, <1>c

(* Sending a value keeps the invariant.                                    *)
LEMMA SendKeeps ==
  ASSUME IInv, [Next]_vars, NEW j \in Job, NEW r \in Job, Send(j, r)
  PROVE  IInv'
<1>0. /\ TypeOK /\ DataInv /\ StartInv /\ WgInv /\ SentInv /\ LinkInv /\ CloseInv
      /\ Last \in Nat /\ 1 \in Job /\ Len(Input) \in Nat /\ \A i \in Job : Jobs[i] \in Kinds
      /\ \A i \in Job : i # 1 => i - 1 \in Job
  BY PipelineFacts DEF IInv, TypeOK
<1>a. Job' = Job /\ Jobs' = Jobs /\ Last' = Last /\ Input' = Input
  BY ArgsKept
<1>u. UNCHANGED <<args, main, started, wg, job>>
  BY DEF Send
<1>s. /\ r # 1 /\ j = r - 1 /\ j # r
      /\ job[r] = "loop" /\ job[j] \in {"loop", "finish"}
      /\ Jobs[j] \in Sources => job[j] = "loop" /\ Cardinality(sent[j]) < Len(Input)
      /\ Cardinality(sent'[j]) = Cardinality(sent[j]) + 1 /\ Cardinality(sent[j]) \in Nat
      /\ IsFiniteSet(sent'[j])
      /\ \A i \in Job : i # j => sent'[i] = sent[i]
      /\ IsSequence(recvd'[r]) /\ Len(recvd[r]) \in Nat /\ Len(recvd'[r]) = Len(recvd[r]) + 1
      /\ \A i \in Job : i # r => recvd'[i] = recvd[i]
  BY SendOne
<1>1. TypeOK'
  <2>1. DOMAIN recvd' = Job /\ DOMAIN sent' = Job
    BY <1>0 DEF Send, TypeOK
  <2> QED  BY <1>0, <1>a, <1>u, <2>1 DEF TypeOK
<1>2. DataInv'
  BY <1>0, <1>a, <1>s DEF DataInv
<1>3. StartInv' /\ WgInv'
  BY <1>0, <1>a, <1>u DEF StartInv, WgInv
<1>4. SentInv'
  <2>1. PICK k : /\ k \notin sent[j]
                 /\ sent' = [sent EXCEPT ![j] = @ \cup {k}]
                 /\ Jobs[j] \in Sources => k = Cardinality(sent[j]) + 1
                 /\ Jobs[j] \in {"hash", "map"} => k \in 1..Len(recvd[j])
    BY SendOne
  <2>2. sent'[j] = sent[j] \cup {k}
    BY <1>0, <2>1 DEF TypeOK
  <2>3. Jobs[j] \in Sources => sent'[j] = 1..Cardinality(sent'[j]) /\ job[j] = "loop"
    <3> DEFINE c == Cardinality(sent[j])
    <3>1. \A n \in Nat : (1..n) \cup {n + 1} = 1..(n + 1)
      OBVIOUS
    <3>2. Jobs[j] \in Sources => sent[j] = 1..c /\ k = c + 1
      BY <1>0, <2>1 DEF SentInv
    <3> HIDE DEF c
    <3>3. c \in Nat /\ Cardinality(sent'[j]) = c + 1
      BY <1>s DEF c
    <3>4. Jobs[j] \in Sources => sent'[j] = 1..(c + 1)
      BY <2>2, <3>1, <3>2, <3>3
    <3> QED  BY <1>s, <3>3, <3>4
  <2>4. Jobs[j] \in {"hash", "map"} => sent'[j] \subseteq 1..Len(recvd'[j])
    BY <1>0, <1>s, <2>1, <2>2 DEF SentInv
  <2>5. Jobs[r] \in {"hash", "map"} => sent'[r] \subseteq 1..Len(recvd'[r])
    BY SMTT(20), <1>0, <1>s DEF SentInv
  <2> QED  BY <1>0, <1>a, <1>u, <1>s, <2>3, <2>4, <2>5 DEF SentInv
<1>5. LinkInv'
  <2>1. ASSUME NEW i \in Job \ {1} PROVE Len(recvd'[i]) = Cardinality(sent'[i - 1])
    <3>1. CASE i = r
      BY <1>0, <1>s, <3>1 DEF LinkInv
    <3>2. CASE i # r
      <4>1. i - 1 \in Job /\ i - 1 # j
        BY <1>0, <1>s, <3>2 DEF Job
      <4> QED  BY <1>0, <1>s, <3>2, <4>1 DEF LinkInv
    <3> QED  BY <3>1, <3>2
  <2> QED  BY <1>a, <2>1 DEF LinkInv
<1>6. CloseInv'
  <2>1. ASSUME NEW i \in Job, job[i] \in Ending PROVE Offers(i)' = {}
    <3>1. i # j /\ i # r /\ recvd'[i] = recvd[i] /\ sent'[i] = sent[i] /\ Offers(i) = {}
      BY <1>0, <1>s, <2>1 DEF Ending, CloseInv
    <3>2. CASE Jobs[i] \in Sources
      <4>1. Cardinality(sent'[i]) = Len(Input)
        BY <1>0, <2>1, <3>1, <3>2 DEF SentInv, Ending
      <4>2. ~(Cardinality(sent'[i]) + 1 <= Len(Input))
        BY <1>0, <4>1
      <4> QED  BY <1>a, <3>2, <4>2 DEF Offers, Sources
    <3>3. CASE Jobs[i] \notin Sources
      BY <1>a, <1>u, <3>1, <3>3 DEF Offers, Sources
    <3> QED  BY <3>2, <3>3
  <2>2. \A i \in Job : Closed(i)' <=> Closed(i)
    BY <1>u DEF Closed
  <2>3. \A i \in Job : i # 1 => (Closed(i - 1)' <=> Closed(i - 1))
    BY <1>0, <2>2
  <2> QED  BY <1>0, <1>a, <1>u, <2>1, <2>3 DEF CloseInv
<1> QED  BY <1>1, <1>2, <1>3, <1>4, <1>5, <1>6 DEF IInv

(* A job that moves on, under the conditions of the place it moves to,     *)
(* keeps what the invariant says of the values.                            *)
LEMMA MoveKeeps ==
  ASSUME IInv, [Next]_vars, UNCHANGED <<recvd, sent>>,
         NEW j \in Job, NEW to \in Places, job' = [job EXCEPT ![j] = to],
         Closed(j) => to \in {"wgDone", "exited"},
         to \in Ending => Offers(j) = {},
         to \notin {"idle", "loop"} => /\ Jobs[j] \in Sources => Cardinality(sent[j]) = Len(Input)
                                       /\ j # 1 /\ Jobs[j] # "readOne" => Closed(j - 1)
  PROVE  /\ DataInv' /\ SentInv' /\ LinkInv' /\ CloseInv'
         /\ job' \in [Job' -> Places] /\ DOMAIN recvd' = Job' /\ DOMAIN sent' = Job'
         /\ job'[j] = to /\ \A i \in Job : i # j => job'[i] = job[i]
<1>0. /\ TypeOK /\ DataInv /\ SentInv /\ LinkInv /\ CloseInv
      /\ \A i \in Job : Jobs[i] \in Kinds
      /\ \A i \in Job : i # 1 => i - 1 \in Job
  BY PipelineFacts DEF IInv, TypeOK
<1>a. Job' = Job /\ Jobs' = Jobs /\ Last' = Last /\ Input' = Input
  BY ArgsKept
<1>1. job' \in [Job -> Places] /\ job'[j] = to /\ \A i \in Job : i # j => job'[i] = job[i]
  BY <1>0 DEF TypeOK, Places
<1>2. DOMAIN recvd' = Job /\ DOMAIN sent' = Job
  BY <1>0 DEF TypeOK
<1>3. DataInv' /\ LinkInv'
  BY <1>0, <1>a DEF DataInv, LinkInv
<1>4. SentInv'
  BY <1>0, <1>a, <1>1 DEF SentInv
<1>5. \A i \in Job : Closed(i) => Closed(i)'
  BY <1>1 DEF Closed
<1>6. ASSUME NEW i \in Job, job'[i] \in Ending PROVE Offers(i)' = {}
  <2>1. Offers(i) = {}
    BY <1>0, <1>1, <1>6 DEF CloseInv
  <2>2. job'[i] # "finish"
    BY <1>6 DEF Ending
  <2> QED  BY <1>0, <1>a, <2>1, <2>2 DEF Offers, Kinds
<1>7. ASSUME NEW i \in Job, job'[i] \notin {"idle", "loop"}, i # 1, Jobs[i] # "readOne"
      PROVE Closed(i - 1)'
  BY <1>0, <1>1, <1>5, <1>7 DEF CloseInv
<1>8. CloseInv'
  BY <1>a, <1>6, <1>7 DEF CloseInv
<1> QED  BY <1>a, <1>1, <1>2, <1>3, <1>4, <1>8

(* Every step keeps the invariant.                                         *)
LEMMA StepKeepsIInv == IInv /\ [Next]_vars => IInv'
<1> SUFFICES ASSUME IInv, [Next]_vars PROVE IInv'
  OBVIOUS
<1>0. /\ TypeOK /\ DataInv /\ StartInv /\ WgInv /\ SentInv /\ LinkInv /\ CloseInv
      /\ Last \in Nat /\ Last > 0 /\ 1 \in Job /\ Len(Input) \in Nat
  BY PipelineFacts DEF IInv, TypeOK
<1>a. args' = args /\ Job' = Job /\ Jobs' = Jobs /\ Last' = Last /\ Input' = Input
  BY ArgsKept
<1>n. IsFiniteSet({j \in Job : job[j] # "exited"})
  <2>1. IsFiniteSet(Job)
    BY <1>0, FS_Interval DEF Job
  <2> QED  BY <2>1, FS_Subset
<1>t. ASSUME job' \in [Job' -> Places], DOMAIN recvd' = Job', DOMAIN sent' = Job',
             main' \in {"start", "wait", "returned"}, started' \in 0..Last, wg' \in 0..Last
      PROVE TypeOK'
  BY <1>0, <1>a, <1>t DEF TypeOK, Places
<1>1. CASE StartJob
  <2> DEFINE k == IF started = Last - 1 THEN 1 ELSE started + 2
  <2>1. /\ main = "start" /\ job' = [job EXCEPT ![k] = "loop"]
        /\ started' = started + 1
        /\ main' = IF started' = Last THEN "wait" ELSE "start"
        /\ UNCHANGED <<wg, recvd, sent>>
    BY <1>1 DEF StartJob
  <2>2. started \in 0..Last /\ started < Last
    BY <1>0, <2>1 DEF TypeOK, StartInv
  <2>3. k \in Job /\ job[k] = "idle"
    BY <1>0, <2>1, <2>2 DEF Job, StartInv
  <2> HIDE DEF k
  <2>4. /\ DataInv' /\ SentInv' /\ LinkInv' /\ CloseInv'
        /\ job' \in [Job' -> Places] /\ DOMAIN recvd' = Job' /\ DOMAIN sent' = Job'
        /\ job'[k] = "loop" /\ \A i \in Job : i # k => job'[i] = job[i]
    BY <2>1, <2>3, MoveKeeps DEF Closed, Places, Ending
  <2>5. TypeOK'
    <3>1. main' \in {"start", "wait", "returned"} /\ started' \in 0..Last /\ wg' \in 0..Last
      BY <1>0, <2>1, <2>2 DEF TypeOK
    <3> QED  BY <1>t, <2>4, <3>1
  <2>6. StartInv'
    <3>1. main' = "start" =>
            started' < Last /\ \A i \in Job : i = 1 \/ i >= started' + 2 => i # k /\ job[i] = "idle"
      BY <1>0, <2>1, <2>2 DEF k, StartInv, Job
    <3>2. main' # "returned"
      BY <2>1
    <3> QED  BY <1>a, <2>4, <3>1, <3>2 DEF StartInv
  <2>7. WgInv'
    <3>1. {i \in Job : job'[i] # "exited"} = {i \in Job : job[i] # "exited"}
      BY <2>3, <2>4
    <3> QED  BY <1>0, <1>a, <2>1, <3>1 DEF WgInv
  <2> QED  BY <2>4, <2>5, <2>6, <2>7 DEF IInv
<1>2. CASE ReturnToCaller
  <2>1. main' = "returned" /\ wg = 0 /\ UNCHANGED <<args, started, wg, job, recvd, sent>>
    BY <1>2 DEF ReturnToCaller
  <2>2. TypeOK'
    BY <1>0, <1>a, <2>1 DEF TypeOK
  <2>3. DataInv' /\ StartInv' /\ WgInv' /\ SentInv' /\ LinkInv'
    BY <1>0, <1>a, <2>1 DEF DataInv, StartInv, WgInv, SentInv, LinkInv
  <2>4. CloseInv'
    BY <1>0, <1>a, <2>1 DEF CloseInv, Offers, Closed
  <2> QED  BY <2>2, <2>3, <2>4 DEF IInv
<1>3. ASSUME NEW j \in Job, EndLoop(j) \/ Return(j) \/ CloseOut(j)
      PROVE IInv'
  <2>1. UNCHANGED <<main, started, wg, recvd, sent>>
    BY <1>3 DEF EndLoop, Return, CloseOut
  <2>2. PICK to \in {"finish", "close", "wgDone"} :
          /\ job' = [job EXCEPT ![j] = to]
          /\ job[j] \notin {"idle", "exited"}
          /\ Closed(j) => to \in {"wgDone", "exited"}
          /\ to \in Ending => Offers(j) = {}
          /\ /\ Jobs[j] \in Sources => Cardinality(sent[j]) = Len(Input)
             /\ j # 1 /\ Jobs[j] # "readOne" => Closed(j - 1)
    <3>1. CASE EndLoop(j)
      <4>1. job' = [job EXCEPT ![j] = "finish"] /\ job[j] = "loop" /\ ~Closed(j)
        BY <3>1 DEF EndLoop, Closed
      <4>2. Jobs[j] \in Sources => Cardinality(sent[j]) = Len(Input)
        BY <3>1 DEF EndLoop, Sources
      <4>3. j # 1 /\ Jobs[j] # "readOne" => Closed(j - 1)
        <5>1. j # 1 => Jobs[j] \notin Sources
          BY <1>0, PipelineFacts DEF TypeOK
        <5>2. Jobs[j] \notin Sources /\ Jobs[j] # "readOne" => Closed(In(j))
          BY <3>1 DEF EndLoop, Sources
        <5> QED  BY <5>1, <5>2 DEF In
      <4> QED  BY <4>1, <4>2, <4>3 DEF Ending
    <3>2. CASE Return(j)
      <4>1. job' = [job EXCEPT ![j] = "close"] /\ job[j] = "finish" /\ Offers(j) = {}
        BY <3>2 DEF Return, NothingToSend
      <4> QED  BY <1>0, <4>1 DEF Closed, SentInv, CloseInv
    <3>3. CASE CloseOut(j)
      <4>1. job' = [job EXCEPT ![j] = "wgDone"] /\ job[j] = "close"
        BY <3>3 DEF CloseOut
      <4> QED  BY <1>0, <4>1 DEF Closed, SentInv, CloseInv, Ending
    <3> QED  BY <1>3, <3>1, <3>2, <3>3
  <2>3. /\ DataInv' /\ SentInv' /\ LinkInv' /\ CloseInv'
        /\ job' \in [Job' -> Places] /\ DOMAIN recvd' = Job' /\ DOMAIN sent' = Job'
        /\ job'[j] = to /\ \A i \in Job : i # j => job'[i] = job[i]
    <3>1. to \in Places /\ to \notin {"idle", "loop"}
      BY DEF Places
    <3> QED  BY <2>1, <2>2, <3>1, MoveKeeps
  <2>4. TypeOK'
    BY <1>0, <1>t, <2>1, <2>3 DEF TypeOK
  <2>5. StartInv'
    BY <1>0, <1>a, <2>1, <2>2, <2>3 DEF StartInv
  <2>6. WgInv'
    <3>1. {i \in Job : job'[i] # "exited"} = {i \in Job : job[i] # "exited"}
      BY <2>2, <2>3
    <3> QED  BY <1>0, <1>a, <2>1, <3>1 DEF WgInv
  <2> QED  BY <2>3, <2>4, <2>5, <2>6 DEF IInv
<1>4. ASSUME NEW j \in Job, WgDone(j) PROVE IInv'
  <2>1. /\ job[j] = "wgDone" /\ job' = [job EXCEPT ![j] = "exited"] /\ wg' = wg - 1
        /\ UNCHANGED <<main, started, recvd, sent>>
    BY <1>4 DEF WgDone
  <2>2. /\ Offers(j) = {}
        /\ Jobs[j] \in Sources => Cardinality(sent[j]) = Len(Input)
        /\ j # 1 /\ Jobs[j] # "readOne" => Closed(j - 1)
    BY <1>0, <2>1 DEF SentInv, CloseInv, Ending
  <2>3. /\ DataInv' /\ SentInv' /\ LinkInv' /\ CloseInv'
        /\ job' \in [Job' -> Places] /\ DOMAIN recvd' = Job' /\ DOMAIN sent' = Job'
        /\ job'[j] = "exited" /\ \A i \in Job : i # j => job'[i] = job[i]
    BY <2>1, <2>2, MoveKeeps DEF Places
  <2>4. WgInv' /\ wg > 0
    <3> DEFINE W == {i \in Job : job[i] # "exited"}
    <3>1. {i \in Job : job'[i] # "exited"} = W \ {j} /\ j \in W
      BY <2>1, <2>3
    <3>2. Cardinality(W \ {j}) = Cardinality(W) - 1
      BY <1>n, <3>1, FS_RemoveElement
    <3>3. Cardinality(W) \in Nat /\ Cardinality(W) # 0
      BY <1>n, <3>1, FS_CardinalityType, FS_EmptySet
    <3>4. wg = Cardinality(W) /\ wg' = Cardinality(W) - 1
      BY <1>0, <2>1 DEF WgInv
    <3>5. WgInv'
      BY <1>a, <3>1, <3>2, <3>4 DEF WgInv
    <3> QED  BY <3>3, <3>4, <3>5
  <2>5. TypeOK'
    <3>1. wg' \in 0..Last /\ main' \in {"start", "wait", "returned"} /\ started' \in 0..Last
      BY <1>0, <2>1, <2>4 DEF TypeOK
    <3> QED  BY <1>t, <2>3, <3>1
  <2>6. StartInv'
    <3>1. main # "returned"
      BY <1>0, <2>4 DEF StartInv
    <3>2. main = "start" => \A i \in Job : i = 1 \/ i >= started + 2 => i # j
      BY <1>0, <2>1 DEF StartInv
    <3> QED  BY <1>0, <1>a, <2>1, <2>3, <3>1, <3>2 DEF StartInv
  <2> QED  BY <2>3, <2>4, <2>5, <2>6 DEF IInv
<1>5. CASE UNCHANGED vars
  <2>1. UNCHANGED <<args, main, started, wg, job, recvd, sent>>
    BY <1>5 DEF vars
  <2>2. TypeOK'
    BY <1>0, <1>a, <2>1 DEF TypeOK
  <2>3. DataInv' /\ StartInv' /\ WgInv' /\ SentInv' /\ LinkInv'
    BY <1>0, <1>a, <2>1 DEF DataInv, StartInv, WgInv, SentInv, LinkInv
  <2>4. CloseInv'
    BY <1>0, <1>a, <2>1 DEF CloseInv, Offers, Closed
  <2> QED  BY <2>2, <2>3, <2>4 DEF IInv
<1> QED  BY <1>1, <1>2, <1>3, <1>4, <1>5, SendKeeps DEF Next, Execute, Run, Terminated

(* Wait returns when every job has exited.                                 *)
LEMMA ReturnedMeansExited == IInv /\ main = "returned" => \A j \in Job : job[j] = "exited"
<1> SUFFICES ASSUME IInv, main = "returned" PROVE \A j \in Job : job[j] = "exited"
  OBVIOUS
<1> DEFINE W == {i \in Job : job[i] # "exited"}
<1>1. IsFiniteSet(W)
  <2>1. IsFiniteSet(Job)
    BY PipelineFacts, FS_Interval DEF Job, IInv, TypeOK
  <2> QED  BY <2>1, FS_Subset
<1>2. Cardinality(W) = 0
  BY DEF IInv, StartInv, WgInv
<1>3. W = {}
  BY <1>1, <1>2, FS_EmptySet
<1> QED  BY <1>3

-----------------------------------------------------------------------------
(* The theorems.                                                           *)

(* The invariant holds in every state, for every pipeline and schedule.    *)
THEOREM Invariance == Spec => []IInv
  BY InitIInv, StepKeepsIInv, PTL DEF Spec

(* The variables keep their types: in particular the counter of the        *)
(* WaitGroup never becomes negative, where Done would panic.               *)
THEOREM TypeCorrect == Spec => []TypeOK
<1>1. IInv => TypeOK
  BY DEF IInv
<1> QED  BY <1>1, Invariance, PTL

(* Channels are closed from the first to the last, no job returns with a   *)
(* value left to send, and none misses a value of the job before it.       *)
THEOREM NothingIsLost == Spec => []NothingLostOnClose
<1>1. IInv => NothingLostOnClose
  <2> SUFFICES ASSUME IInv PROVE NothingLostOnClose
    OBVIOUS
  <2>0. /\ TypeOK /\ DataInv /\ StartInv /\ WgInv /\ SentInv /\ LinkInv /\ CloseInv
        /\ Last \in Nat /\ \A i \in Job : Jobs[i] \in Kinds
        /\ \A i \in Job : i # 1 => i - 1 \in Job
    BY PipelineFacts DEF IInv, TypeOK
  <2>1. main = "returned" => \A j \in Job : job[j] = "exited"
    BY ReturnedMeansExited
  <2>2. \A j \in Job : job[j] \in {"close", "wgDone", "exited"} => Offers(j) = {}
    BY <2>0 DEF CloseInv, Ending
  <2>3. ASSUME NEW j \in Job \ {1}, Jobs[j] # "readOne", job[j] \notin {"idle", "loop"}
        PROVE /\ Closed(j - 1)
              /\ Len(recvd[j]) = Cardinality(sent[j - 1])
              /\ Jobs[j - 1] \in {"hash", "map"} => Len(recvd[j]) = Len(recvd[j - 1])
    <3>1. j - 1 \in Job /\ Closed(j - 1) /\ Len(recvd[j]) = Cardinality(sent[j - 1])
      BY <2>0, <2>3 DEF CloseInv, LinkInv
    <3>2. Offers(j - 1) = {}
      BY <2>2, <3>1 DEF Closed
    <3>3. ASSUME Jobs[j - 1] \in {"hash", "map"}
          PROVE Len(recvd[j]) = Len(recvd[j - 1])
      <4>1. sent[j - 1] = 1..Len(recvd[j - 1])
        BY <2>0, <3>1, <3>2, <3>3, OfferKinds DEF SentInv
      <4>2. Len(recvd[j - 1]) \in Nat
        BY <2>0, <3>1, LenProperties DEF DataInv, IsSequence
      <4>3. Cardinality(1..Len(recvd[j - 1])) = Len(recvd[j - 1])
        BY <4>2, FS_Interval
      <4> QED  BY <3>1, <4>1, <4>3
    <3> QED  BY <3>1, <3>3
  <2> QED  BY <2>1, <2>2, <2>3 DEF NothingLostOnClose
<1> QED  BY <1>1, Invariance, PTL

-----------------------------------------------------------------------------
(* Values nobody reads.                                                    *)

(* The outputs job j has to send for what it has received.                 *)
Outputs(j) ==
  CASE Jobs[j] \in Sources -> 1..Len(Input)
    [] Jobs[j] \in {"hash", "map"} -> 1..Len(recvd[j])
    [] Jobs[j] = "combine" -> {1}
    [] OTHER -> {}

(* The last job's channel has no reader, the jobs of the tests that only   *)
(* read send nothing, CombineResults sends once, before it returns, and    *)
(* readOne reads once.                                                     *)
ReadInv ==
  /\ sent[Last] = {}
  /\ \A j \in Job : Jobs[j] \in {"collect", "readOne"} => sent[j] = {}
  /\ \A j \in Job : Jobs[j] = "combine" =>
       sent[j] \subseteq {1} /\ (job[j] \in Ending => sent[j] = {1})
  /\ \A j \in Job : Jobs[j] = "readOne" => Len(recvd[j]) <= 1

(* ExecutePipeline has returned only if each job's outputs were received,  *)
(* all of them.                                                            *)
NothingUnread ==
  main = "returned" =>
    /\ Outputs(Last) = {}
    /\ \A j \in Job \ {1} : /\ Len(recvd[j]) = Cardinality(Outputs(j - 1))
                            /\ Jobs[j] = "readOne" => Len(recvd[j]) <= 1

(* Who reads what is kept by every step.                                   *)
LEMMA StepKeepsRead == IInv /\ ReadInv /\ [Next]_vars => ReadInv'
<1> SUFFICES ASSUME IInv, ReadInv, [Next]_vars PROVE ReadInv'
  OBVIOUS
<1>0. /\ TypeOK /\ Last \in Nat /\ Last > 0 /\ Last \in Job
      /\ \A i \in Job : Jobs[i] \in Kinds
  BY PipelineFacts DEF IInv, TypeOK, Job
<1>a. args' = args /\ Job' = Job /\ Jobs' = Jobs /\ Last' = Last
  BY ArgsKept
<1>1. ASSUME NEW j \in Job, NEW r \in Job, Send(j, r)
      PROVE  ReadInv'
  <2>0. job' = job
    BY <1>1 DEF Send
  <2>1. /\ j = r - 1 /\ j # r /\ Len(recvd[r]) \in Nat /\ Len(recvd'[r]) = Len(recvd[r]) + 1
        /\ \A i \in Job : i # r => recvd'[i] = recvd[i]
        /\ \A i \in Job : i # j => sent'[i] = sent[i]
    BY <1>1, SendOne
  <2>2. sent'[Last] = {}
    <3>1. j # Last
      BY <1>0, <2>1 DEF Job
    <3> QED  BY <1>0, <2>1, <3>1 DEF ReadInv
  <2>3. ASSUME Jobs[j] = "combine"
        PROVE  sent'[j] \subseteq {1} /\ job[j] \notin Ending
    <3>1. PICK k \in Offers(j) : sent' = [sent EXCEPT ![j] = @ \cup {k}]
      BY <1>1 DEF Send
    <3>2. k = 1 /\ job[j] = "finish"
      BY <1>0, <2>3, <3>1, OfferKinds
    <3> QED  BY <1>0, <2>3, <3>1, <3>2 DEF ReadInv, TypeOK, Ending
  <2>s. Jobs[j] \notin {"collect", "readOne"}
    BY <1>0, <1>1, OfferKinds DEF Send
  <2>4. Jobs[r] = "readOne" => Len(recvd'[r]) <= 1
    <3>1. Jobs[r] = "readOne" => recvd[r] = <<>>
      BY <1>1 DEF Send, Receiving
    <3>2. Len(<<>>) = 0
      OBVIOUS
    <3> QED  BY <2>1, <3>1, <3>2
  <2>5. \A i \in Job : Jobs[i] = "combine" =>
          sent'[i] \subseteq {1} /\ (job[i] \in Ending => sent'[i] = {1})
    BY <2>1, <2>3 DEF ReadInv
  <2>6. \A i \in Job : Jobs[i] = "readOne" => Len(recvd'[i]) <= 1
    BY <2>1, <2>4 DEF ReadInv
  <2>7. \A i \in Job : Jobs[i] \in {"collect", "readOne"} => sent'[i] = {}
    BY <2>1, <2>s DEF ReadInv
  <2> QED  BY <1>a, <2>0, <2>2, <2>5, <2>6, <2>7 DEF ReadInv
<1>2. ASSUME NEW j \in Job, Return(j)
      PROVE  ReadInv'
  <2>1. /\ job' = [job EXCEPT ![j] = "close"] /\ job[j] = "finish" /\ Offers(j) = {}
        /\ UNCHANGED <<recvd, sent>>
    BY <1>2 DEF Return, NothingToSend
  <2>2. Jobs[j] = "combine" => sent[j] = {1}
    BY <1>0, <2>1, OfferKinds DEF ReadInv
  <2>3. \A i \in Job : i # j => job'[i] = job[i]
    BY <1>0, <2>1 DEF TypeOK
  <2> QED  BY <1>a, <2>1, <2>2, <2>3 DEF ReadInv
<1>3. ASSUME NEW j \in Job, EndLoop(j) \/ CloseOut(j) \/ WgDone(j)
      PROVE  ReadInv'
  <2>1. /\ UNCHANGED <<recvd, sent>>
        /\ \E to \in Places : job' = [job EXCEPT ![j] = to] /\ (to \in Ending => job[j] \in Ending)
    BY <1>3 DEF EndLoop, CloseOut, WgDone, Places, Ending
  <2>2. \A i \in Job : job'[i] \in Ending => job[i] \in Ending
    BY <1>0, <2>1 DEF TypeOK
  <2> QED  BY <1>a, <2>1, <2>2 DEF ReadInv
<1>4. CASE Execute \/ Terminated \/ UNCHANGED vars
  <2>1. UNCHANGED <<recvd, sent>> /\ \A i \in Job : job'[i] \in Ending => job[i] \in Ending
    BY <1>0, <1>4 DEF Execute, StartJob, ReturnToCaller, Terminated, vars, TypeOK, Ending
  <2> QED  BY <1>a, <2>1 DEF ReadInv
<1> QED  BY <1>1, <1>2, <1>3, <1>4 DEF Next, Run

(* When every job has exited, each has sent all its outputs.               *)
LEMMA AllReadAtReturn == IInv /\ ReadInv => NothingUnread
<1> SUFFICES ASSUME IInv, ReadInv, main = "returned"
             PROVE  /\ Outputs(Last) = {}
                    /\ \A j \in Job \ {1} : Len(recvd[j]) = Cardinality(Outputs(j - 1))
  BY DEF NothingUnread, ReadInv
<1>0. /\ TypeOK /\ DataInv /\ SentInv /\ LinkInv /\ Last \in Job
      /\ \A i \in Job : Jobs[i] \in Kinds
      /\ \A i \in Job : i # 1 => i - 1 \in Job
  BY PipelineFacts DEF IInv, TypeOK, Job
<1>1. \A j \in Job : job[j] = "exited" /\ Offers(j) = {}
  BY ReturnedMeansExited DEF IInv, CloseInv, Ending
<1>2. ASSUME NEW j \in Job
      PROVE  sent[j] = Outputs(j)
  <2>1. CASE Jobs[j] \in Sources
    <3>1. sent[j] = 1..Cardinality(sent[j]) /\ Cardinality(sent[j]) = Len(Input)
      BY <1>0, <1>1, <2>1 DEF SentInv
    <3>2. Outputs(j) = 1..Len(Input)
      BY <2>1 DEF Outputs, Sources
    <3> QED  BY <3>1, <3>2
  <2>2. CASE Jobs[j] \in {"hash", "map"}
    BY <1>0, <1>1, <2>2, OfferKinds DEF SentInv, Outputs, Sources
  <2>3. CASE Jobs[j] = "combine"
    BY <1>1, <2>3 DEF ReadInv, Ending, Outputs, Sources
  <2>4. CASE Jobs[j] \in {"collect", "readOne"}
    BY <2>4 DEF ReadInv, Outputs, Sources
  <2> QED  BY <1>0, <2>1, <2>2, <2>3, <2>4 DEF Kinds, Sources
<1> QED  BY <1>0, <1>2 DEF ReadInv, LinkInv

(* ExecutePipeline does not return while a value is unread, for any        *)
(* pipeline: neither when its last job sends something, nor when readOne   *)
(* is sent a second value.  Run pipeline shows where it hangs instead *)
(* (HangsOnUnreadValue).                                                   *)
THEOREM NeverReturnsUnread == Spec => []NothingUnread
<1>1. Init => ReadInv
  <2> SUFFICES ASSUME Init PROVE ReadInv
    OBVIOUS
  <2>1. Last \in Job
    BY PipelineFacts DEF Init, Job
  <2>2. Len(<<>>) = 0
    OBVIOUS
  <2> QED  BY <2>1, <2>2 DEF Init, ReadInv, Ending
<1> QED  BY <1>1, AllReadAtReturn, StepKeepsRead, Invariance, PTL DEF Spec

-----------------------------------------------------------------------------
(* Sorting and hashing.                                                    *)

(* Each value of s at its place b[i] in t: t is s in another order.        *)
Rearranged(s, t, b) ==
  /\ b \in [1..Len(s) -> 1..Len(t)]
  /\ \A i, k \in 1..Len(s) : b[i] = b[k] => i = k
  /\ \A k \in 1..Len(t) : \E i \in 1..Len(s) : b[i] = k
  /\ \A i \in 1..Len(s) : s[i] = t[b[i]]

(* Sets matched one to one have as many elements.                          *)
LEMMA SameCount ==
  ASSUME NEW S, NEW T, IsFiniteSet(S), NEW b,
         \A x \in S : b[x] \in T,
         \A x, y \in S : b[x] = b[y] => x = y,
         \A y \in T : \E x \in S : b[x] = y
  PROVE  Cardinality(S) = Cardinality(T)
<1> DEFINE f == [x \in S |-> b[x]]
<1>1. f \in Bijection(S, T)
  BY DEF Bijection, Injection, Surjection, IsInjective
<1>2. ExistsBijection(S, T)
  BY <1>1 DEF ExistsBijection
<1> QED  BY <1>2, FS_Bijection

(* The numbers up to n are n.                                              *)
LEMMA CountUpTo ==
  ASSUME NEW n \in Nat
  PROVE  IsFiniteSet(1..n) /\ Cardinality(1..n) = n
  BY FS_Interval

(* What sort.Strings returns does not depend on the order of its argument. *)
LEMMA SortedOfRearranged ==
  ASSUME NEW s, NEW t, Len(s) \in Nat, Len(t) \in Nat, NEW b, Rearranged(s, t, b)
  PROVE  Sorted(s) = Sorted(t)
<1> DEFINE S == 1..Len(s)
           T == 1..Len(t)
           values(u) == {u[i] : i \in 1..Len(u)}
           below(u) == [v \in values(u) |-> Cardinality({i \in 1..Len(u) : u[i] < v})]
           upTo(u) == [v \in values(u) |-> Cardinality({i \in 1..Len(u) : u[i] <= v})]
<1>b. /\ \A i \in S : b[i] \in T /\ s[i] = t[b[i]]
      /\ \A i, k \in S : b[i] = b[k] => i = k
      /\ \A k \in T : \E i \in S : b[i] = k
  BY DEF Rearranged
<1>f. IsFiniteSet(S) /\ Cardinality(S) = Len(s) /\ Cardinality(T) = Len(t)
  BY CountUpTo
<1>1. Len(s) = Len(t)
  <2> HIDE DEF S, T
  <2>1. Cardinality(S) = Cardinality(T)
    BY <1>b, <1>f, SameCount
  <2> QED  BY <1>f, <2>1
<1>2. values(s) = values(t)
  <2> HIDE DEF S, T
  <2>1. \A v : (\E i \in S : v = s[i]) <=> (\E k \in T : v = t[k])
    BY <1>b
  <2>2. {s[i] : i \in S} = {t[k] : k \in T}
    BY <2>1
  <2> QED  BY <2>2 DEF S, T
<1>3. \A v : Cardinality({i \in S : s[i] < v}) = Cardinality({i \in T : t[i] < v})
  <2> TAKE v
  <2> DEFINE X == {i \in S : s[i] < v}
             Y == {i \in T : t[i] < v}
  <2>1. IsFiniteSet(X)
    BY <1>f, FS_Subset
  <2> HIDE DEF S, T
  <2>2. /\ \A i \in X : b[i] \in Y
        /\ \A i, k \in X : b[i] = b[k] => i = k
        /\ \A k \in Y : \E i \in X : b[i] = k
    BY <1>b
  <2> HIDE DEF X, Y
  <2>3. Cardinality(X) = Cardinality(Y)
    BY <2>1, <2>2, SameCount
  <2> QED  BY <2>3 DEF X, Y
<1>4. \A v : Cardinality({i \in S : s[i] <= v}) = Cardinality({i \in T : t[i] <= v})
  <2> TAKE v
  <2> DEFINE X == {i \in S : s[i] <= v}
             Y == {i \in T : t[i] <= v}
  <2>1. IsFiniteSet(X)
    BY <1>f, FS_Subset
  <2> HIDE DEF S, T
  <2>2. /\ \A i \in X : b[i] \in Y
        /\ \A i, k \in X : b[i] = b[k] => i = k
        /\ \A k \in Y : \E i \in X : b[i] = k
    BY <1>b
  <2> HIDE DEF X, Y
  <2>3. Cardinality(X) = Cardinality(Y)
    BY <2>1, <2>2, SameCount
  <2> QED  BY <2>3 DEF X, Y
<1>5. below(s) = below(t)
  BY <1>2, <1>3
<1>6. upTo(s) = upTo(t)
  BY <1>2, <1>4
<1>7. \A u : Sorted(u) = [k \in 1..Len(u) |-> AtPlace(k, values(u), below(u), upTo(u))]
  BY DEF Sorted
<1> HIDE DEF values, below, upTo
<1> QED  BY <1>1, <1>2, <1>5, <1>6, <1>7

(* Induction: a set of natural numbers that is not empty has a least one.  *)
LEMMA Least ==
  ASSUME NEW S \in SUBSET Nat, S # {}
  PROVE  \E n \in S : \A m \in S : n <= m
<1> DEFINE R == OpToRel(<, Nat)
<1>1. IsWellFoundedOn(R, Nat)
  BY NatLessThanWellFounded
<1>2. \A m, n \in Nat : m < n => <<m, n>> \in R
  BY DEF OpToRel
<1> HIDE DEF R
<1>3. PICK n \in S : \A m \in S : ~ (<<m, n>> \in R)
  BY <1>1, WFMin
<1>4. \A m \in S : m \in Nat /\ n \in Nat /\ ~ (m < n)
  BY <1>2, <1>3
<1> QED  BY <1>4

(* What After gives of each job follows from what it gives of the job      *)
(* before.                                                                 *)
LEMMA AfterSteps ==
  ASSUME NEW p, NEW v, Len(p.jobs) \in Nat
  PROVE  After(p, v) = [j \in 1..Len(p.jobs) |->
                          IF j = 1 THEN v
                          ELSE IF p.jobs[j] \in {"hash", "map"} THEN F(j, After(p, v)[j - 1])
                          ELSE After(p, v)[j - 1]]
<1> DEFINE next(j, u) == IF j = 1 THEN v
                         ELSE IF p.jobs[j] \in {"hash", "map"} THEN F(j, u)
                         ELSE u
           good(n) == \E f : f = [j \in 1..n |-> next(j, f[j - 1])]
           Bad == {n \in Nat : ~ good(n)}
<1>1. Bad = {}
  <2> SUFFICES ASSUME Bad # {} PROVE FALSE
    OBVIOUS
  <2>1. PICK n \in Bad : \A m \in Bad : n <= m
    <3>1. Bad \in SUBSET Nat
      OBVIOUS
    <3> HIDE DEF Bad
    <3> QED  BY <3>1, Least
  <2>2. n \in Nat /\ ~ good(n)
    BY <2>1
  <2>3. n # 0
    <3> SUFFICES ASSUME n = 0 PROVE FALSE
      OBVIOUS
    <3> DEFINE f == [j \in 1..0 |-> 0]
    <3> HIDE DEF next
    <3>1. f = [j \in 1..0 |-> next(j, f[j - 1])]
      OBVIOUS
    <3> QED  BY <2>2, <3>1
  <2>4. n - 1 \in Nat /\ ~ (n <= n - 1)
    BY <2>2, <2>3
  <2>5. good(n - 1)
    <3> HIDE DEF good
    <3> QED  BY <2>1, <2>4
  <2> HIDE DEF next
  <2>6. PICK f : f = [j \in 1..(n - 1) |-> next(j, f[j - 1])]
    BY <2>5
  <2> DEFINE g == [j \in 1..n |-> IF j = n THEN next(n, f[n - 1]) ELSE f[j]]
  <2>7. ASSUME NEW j \in 1..n PROVE g[j] = next(j, g[j - 1])
    <3>1. CASE j = 1
      <4>1. next(j, f[j - 1]) = next(j, g[j - 1])
        BY <3>1 DEF next
      <4> QED  BY <2>2, <2>6, <3>1, <4>1
    <3>2. CASE j # 1
      <4>1. j - 1 \in 1..n /\ j - 1 # n
        BY <2>2, <3>2
      <4>2. g[j - 1] = f[j - 1]
        BY <4>1
      <4> QED  BY <2>2, <2>6, <4>2
    <3> QED  BY <3>1, <3>2
  <2>8. g = [j \in 1..n |-> next(j, g[j - 1])]
    BY <2>7
  <2> QED  BY <2>2, <2>8
<1>2. PICK f : f = [j \in 1..Len(p.jobs) |-> next(j, f[j - 1])]
  BY <1>1
<1>3. After(p, v) = CHOOSE a : a = [j \in 1..Len(p.jobs) |-> next(j, a[j - 1])]
  BY DEF After
<1> HIDE DEF next
<1>4. After(p, v) = [j \in 1..Len(p.jobs) |-> next(j, After(p, v)[j - 1])]
  BY <1>2, <1>3
<1> QED  BY <1>4 DEF next

-----------------------------------------------------------------------------
(* The signer.                                                             *)

(* The i-th value job j received is output b[i] of the job before.         *)
Origin(j, b) ==
  /\ b \in [1..Len(recvd[j]) -> sent[j - 1]]
  /\ \A i, k \in 1..Len(recvd[j]) : b[i] = b[k] => i = k
  /\ \A x \in sent[j - 1] : \E i \in 1..Len(recvd[j]) : b[i] = x
  /\ \A i \in 1..Len(recvd[j]) : recvd[j][i] = Output(j - 1, b[i])

(* A job has received the outputs that were sent, in any order, as they    *)
(* are now: CombineResults sends nothing while it still receives.          *)
OrderInv ==
  /\ \A j \in Job : Jobs[j] = "combine" /\ job[j] \in {"idle", "loop"} => sent[j] = {}
  /\ \A j \in Job \ {1} : \E b : Origin(j, b)

(* An output that was sent stays what it is.                               *)
LEMMA OutputKept ==
  ASSUME IInv, ReadInv, OrderInv, [Next]_vars, NEW j \in Job, NEW r \in Job, Send(j, r),
         NEW i \in Job
  PROVE  /\ i # r => \A x : Output(i, x)' = Output(i, x)
         /\ \A x \in sent[i] : Output(i, x)' = Output(i, x)
<1>0. TypeOK /\ DataInv /\ SentInv /\ \A m \in Job : Jobs[m] \in Kinds
  BY PipelineFacts DEF IInv, TypeOK
<1>a. Job' = Job /\ Jobs' = Jobs /\ Input' = Input
  BY ArgsKept
<1>s. /\ r # 1 /\ job[r] = "loop"
      /\ \A m \in Job : m # r => recvd'[m] = recvd[m]
  BY SendOne
<1>1. ASSUME i # r
      PROVE  \A x : Output(i, x)' = Output(i, x)
  BY <1>a, <1>s, <1>1 DEF Output
<1>2. ASSUME i = r, NEW x \in sent[i]
      PROVE  Output(i, x)' = Output(i, x)
  <2>1. Jobs[i] \notin Sources
    BY <1>0, <1>s, <1>2, PipelineFacts DEF TypeOK
  <2>2. Jobs[i] \in {"hash", "map"}
    BY <1>0, <1>s, <1>2, <2>1 DEF Kinds, Sources, OrderInv, ReadInv
  <2>3. x \in 1..Len(recvd[i])
    BY <1>0, <1>2, <2>2 DEF SentInv
  <2>4. recvd'[i][x] = recvd[i][x]
    <3>1. PICK k \in Offers(j) : recvd' = [recvd EXCEPT ![r] = Append(@, Output(j, k))]
      BY DEF Send
    <3>2. recvd'[i] = Append(recvd[i], Output(j, k))
      BY <1>0, <1>2, <3>1 DEF TypeOK
    <3>3. IsSequence(recvd[i])
      BY <1>0 DEF DataInv
    <3>4. PICK S : recvd[i] \in Seq(S)
      BY <3>3 DEF IsSequence
    <3>5. recvd[i] \in Seq(S \cup {Output(j, k)}) /\ Output(j, k) \in S \cup {Output(j, k)}
      BY <3>4
    <3> QED  BY <2>3, <3>2, <3>5, AppendProperties
  <2> QED  BY <1>a, <2>2, <2>4 DEF Output
<1> QED  BY <1>1, <1>2

(* Every step keeps the origin of the values.                              *)
LEMMA StepKeepsOrder == IInv /\ ReadInv /\ OrderInv /\ [Next]_vars => OrderInv'
<1> SUFFICES ASSUME IInv, ReadInv, OrderInv, [Next]_vars PROVE OrderInv'
  OBVIOUS
<1>0. /\ TypeOK /\ \A i \in Job : Jobs[i] \in Kinds
      /\ \A i \in Job : i # 1 => i - 1 \in Job
  BY PipelineFacts DEF IInv, TypeOK
<1>a. args' = args /\ Job' = Job /\ Jobs' = Jobs /\ Input' = Input
  BY ArgsKept
<1>1. ASSUME NEW j \in Job, NEW r \in Job, Send(j, r)
      PROVE  OrderInv'
  <2>s. /\ r # 1 /\ j = r - 1 /\ j # r /\ job[j] \in {"loop", "finish"} /\ job' = job
        /\ \A m \in Job : m # j => sent'[m] = sent[m]
        /\ Len(recvd[r]) \in Nat /\ Len(recvd'[r]) = Len(recvd[r]) + 1
        /\ \A m \in Job : m # r => recvd'[m] = recvd[m]
    <3>1. job' = job
      BY <1>1 DEF Send
    <3> QED  BY <1>1, <3>1, SendOne
  <2>1. ASSUME NEW i \in Job, Jobs[i] = "combine", job[i] \in {"idle", "loop"}
        PROVE  sent'[i] = {}
    <3>1. i # j
      BY <1>0, <1>1, <2>1, OfferKinds DEF Send
    <3> QED  BY <2>s, <2>1, <3>1 DEF OrderInv
  <2>2. ASSUME NEW i \in Job, i # 1, i # r
        PROVE  \E b : Origin(i, b)'
    <3>1. PICK b : Origin(i, b)
      BY <2>2 DEF OrderInv
    <3>2. i - 1 \in Job /\ i - 1 # j
      BY <1>0, <2>s, <2>2 DEF Job
    <3>3. recvd'[i] = recvd[i] /\ sent'[i - 1] = sent[i - 1]
      BY <2>s, <2>2, <3>2
    <3>4. \A x \in sent[i - 1] : Output(i - 1, x)' = Output(i - 1, x)
      BY <1>1, <3>2, OutputKept
    <3>5. \A m \in 1..Len(recvd[i]) : recvd[i][m] = Output(i - 1, b[m])'
      BY <3>1, <3>4 DEF Origin
    <3>6. Origin(i, b)'
      BY <3>1, <3>3, <3>5 DEF Origin
    <3> QED  BY <3>6
  <2>3. \E b : Origin(r, b)'
    <3>1. PICK b : Origin(r, b)
      BY <2>s DEF OrderInv
    <3> DEFINE n == Len(recvd[r])
    <3>2. PICK k \in Offers(j) : /\ recvd' = [recvd EXCEPT ![r] = Append(@, Output(j, k))]
                                 /\ sent' = [sent EXCEPT ![j] = @ \cup {k}]
      BY <1>1 DEF Send
    <3>3. recvd'[r] = Append(recvd[r], Output(j, k)) /\ sent'[j] = sent[j] \cup {k}
      BY <1>0, <3>2 DEF TypeOK
    <3>4. k \notin sent[j]
      <4>1. PICK x : x \notin sent[j] /\ sent' = [sent EXCEPT ![j] = @ \cup {x}]
        BY <1>1, SendOne
      <4>2. sent[j] \cup {k} = sent[j] \cup {x}
        BY <1>0, <3>3, <4>1 DEF TypeOK
      <4> QED  BY <4>1, <4>2
    <3>5. /\ \A i \in 1..n : recvd'[r][i] = recvd[r][i]
          /\ recvd'[r][n + 1] = Output(j, k)
      <4>1. IsSequence(recvd[r])
        BY DEF IInv, DataInv
      <4>2. PICK S : recvd[r] \in Seq(S)
        BY <4>1 DEF IsSequence
      <4>3. recvd[r] \in Seq(S \cup {Output(j, k)}) /\ Output(j, k) \in S \cup {Output(j, k)}
        BY <4>2
      <4> QED  BY <3>3, <4>3, AppendProperties
    <3>d. PICK e : e = [i \in 1..(n + 1) |-> IF i = n + 1 THEN k ELSE b[i]]
      OBVIOUS
    <3>6. \A x : Output(j, x)' = Output(j, x)
      BY <1>1, <2>s, OutputKept
    <3>b. /\ \A i \in 1..n : b[i] \in sent[j] /\ recvd[r][i] = Output(j, b[i])
          /\ \A i, m \in 1..n : b[i] = b[m] => i = m
          /\ \A x \in sent[j] : \E i \in 1..n : b[i] = x
      BY <2>s, <3>1 DEF Origin
    <3>n. n \in Nat /\ Len(recvd'[r]) = n + 1 /\ \A i \in 1..(n + 1) : i = n + 1 \/ i \in 1..n
      BY <2>s
    <3>e. \A i \in 1..(n + 1) : \/ i = n + 1 /\ e[i] = k
                                \/ i \in 1..n /\ i # n + 1 /\ e[i] = b[i]
      BY <3>n, <3>d
    <3> HIDE DEF n
    <3>7. e \in [1..(n + 1) -> sent'[j]]
      BY <3>3, <3>b, <3>n, <3>d
    <3>8. \A i, m \in 1..(n + 1) : e[i] = e[m] => i = m
      BY <3>4, <3>b, <3>e
    <3>9. \A x \in sent'[j] : \E i \in 1..(n + 1) : e[i] = x
      <4>1. \A i \in 1..n : i \in 1..(n + 1) /\ i # n + 1
        BY <3>n
      <4>2. n + 1 \in 1..(n + 1)
        BY <3>n
      <4> QED  BY <3>3, <3>b, <3>e, <4>1, <4>2
    <3>10. \A i \in 1..(n + 1) : recvd'[r][i] = Output(j, e[i])'
      BY <3>5, <3>6, <3>b, <3>e
    <3>11. Origin(r, e)'
      BY <2>s, <3>n, <3>7, <3>8, <3>9, <3>10 DEF Origin, n
    <3> QED  BY <3>11
  <2> QED  BY <1>a, <2>s, <2>1, <2>2, <2>3 DEF OrderInv
<1>2. ASSUME UNCHANGED <<recvd, sent>>, \A i \in Job : job'[i] \in {"idle", "loop"} => job[i] \in {"idle", "loop"}
      PROVE  OrderInv'
  <2>1. \A i \in Job : \A x : Output(i, x)' = Output(i, x)
    BY <1>a, <1>2 DEF Output
  <2>2. ASSUME NEW i \in Job \ {1} PROVE \E b : Origin(i, b)'
    <3>1. PICK b : Origin(i, b)
      BY DEF OrderInv
    <3>2. \A m \in 1..Len(recvd[i]) : recvd[i][m] = Output(i - 1, b[m])'
      BY <1>0, <2>1, <3>1 DEF Origin
    <3>3. Origin(i, b)'
      BY <1>2, <3>1, <3>2 DEF Origin
    <3> QED  BY <3>3
  <2> QED  BY <1>a, <1>2, <2>2 DEF OrderInv
<1>3. ASSUME NEW j \in Job, EndLoop(j) \/ Return(j) \/ CloseOut(j) \/ WgDone(j)
      PROVE  OrderInv'
  <2>1. /\ UNCHANGED <<recvd, sent>>
        /\ \E to \in {"finish", "close", "wgDone", "exited"} : job' = [job EXCEPT ![j] = to]
    BY <1>3 DEF EndLoop, Return, CloseOut, WgDone
  <2>2. \A i \in Job : job'[i] \in {"idle", "loop"} => job[i] \in {"idle", "loop"}
    BY <1>0, <2>1 DEF TypeOK
  <2> QED  BY <1>2, <2>1, <2>2
<1>4. CASE Execute \/ Terminated \/ UNCHANGED vars
  <2>1. UNCHANGED <<recvd, sent>>
    BY <1>4 DEF Execute, StartJob, ReturnToCaller, Terminated, vars
  <2>2. \A i \in Job : job'[i] \in {"idle", "loop"} => job[i] \in {"idle", "loop"}
    <3>1. CASE StartJob
      <4>1. PICK k : k = (IF started = Last - 1 THEN 1 ELSE started + 2) /\ job' = [job EXCEPT ![k] = "loop"]
                     /\ main = "start"
        BY <3>1 DEF StartJob
      <4>2. k \in Job => job[k] = "idle"
        BY <1>0, <4>1 DEF IInv, StartInv, Job, TypeOK
      <4> QED  BY <1>0, <4>1, <4>2 DEF TypeOK
    <3>2. CASE ~StartJob
      BY <1>4, <3>2 DEF Execute, ReturnToCaller, Terminated, vars
    <3> QED  BY <3>1, <3>2
  <2> QED  BY <1>2, <2>1, <2>2
<1> QED  BY <1>1, <1>3, <1>4 DEF Next, Run

(* The values of the input after the jobs up to j.                         *)
Hashed(j) == [k \in 1..Len(Input) |-> After(args, Input[k])[j]]

(* CombineResults, at the end of its input, has every hash of that input:  *)
(* the jobs before it have closed, so none of them keeps a value back.     *)
LEMMA AllHashesRearranged ==
  ASSUME IInv, ReadInv, OrderInv, IsSigner(args), job[Last - 1] \notin {"idle", "loop"}
  PROVE  \E b : Rearranged(recvd[Last - 1], Hashed(Last - 2), b)
<1> DEFINE c == Last - 1
<1>0. /\ TypeOK /\ DataInv /\ SentInv /\ CloseInv
      /\ Last \in Nat /\ Len(Input) \in Nat /\ \A i \in Job : Jobs[i] \in Kinds
  BY PipelineFacts DEF IInv, TypeOK
<1>k. /\ Last > 2 /\ Jobs[1] \in Sources /\ Jobs[c] = "combine"
      /\ \A j \in 2..(c - 1) : Jobs[j] \in {"hash", "map"}
  BY <1>0 DEF Sources, IsSigner, Jobs, Last
<1>c. c \in Job /\ c # 1 /\ c \in Nat /\ c >= 2 /\ \A j \in 1..c : j \in Job
  BY <1>0, <1>k DEF Job
<1> HIDE DEF c
<1>1. \A j \in 1..(c - 1) : Closed(j)
  <2> DEFINE Open == {d \in Nat : d \in 1..(c - 1) /\ ~ Closed(c - d)}
  <2>1. Open = {}
    <3> SUFFICES ASSUME Open # {} PROVE FALSE
      OBVIOUS
    <3>1. PICK d \in Open : \A e \in Open : d <= e
      <4>1. Open \in SUBSET Nat
        OBVIOUS
      <4> HIDE DEF Open
      <4> QED  BY <4>1, Least
    <3> DEFINE j == c - d
    <3>2. j \in 1..(c - 1) /\ j + 1 \in 1..c /\ j + 1 # 1 /\ j \in Nat /\ (j + 1) - 1 = j /\ ~ Closed(j)
      BY <1>c, <3>1
    <3>3. job[j + 1] \notin {"idle", "loop"}
      <4>1. CASE d = 1
        <5>1. j + 1 = c
          BY <1>c, <4>1
        <5> QED  BY <5>1 DEF c
      <4>2. CASE d # 1
        <5>1. d - 1 \in 1..(c - 1) /\ c - (d - 1) = j + 1 /\ ~ (d <= d - 1)
          BY <1>c, <3>1, <4>2
        <5>2. Closed(j + 1)
          BY <3>1, <5>1
        <5> QED  BY <5>2 DEF Closed
      <4> QED  BY <4>1, <4>2
    <3>4. Jobs[j + 1] # "readOne"
      <4>1. CASE j + 1 = c
        BY <1>k, <4>1
      <4>2. CASE j + 1 # c
        <5>1. j + 1 \in 2..(c - 1)
          BY <1>c, <3>2, <4>2
        <5> QED  BY <1>k, <5>1
      <4> QED  BY <4>1, <4>2
    <3>5. j + 1 \in Job
      BY <1>c, <3>2
    <3>6. Closed((j + 1) - 1)
      BY <1>0, <3>2, <3>3, <3>4, <3>5 DEF CloseInv
    <3> QED  BY <3>2, <3>6
  <2>2. ASSUME NEW j \in 1..(c - 1) PROVE Closed(j)
    <3>1. c - j \in Nat /\ c - j \in 1..(c - 1) /\ c - (c - j) = j
      BY <1>c
    <3> QED  BY <2>1, <3>1
  <2> QED  BY <2>2
<1>2. ASSUME NEW j \in 1..(c - 1)
      PROVE  sent[j] = IF j = 1 THEN 1..Len(Input) ELSE 1..Len(recvd[j])
  <2>1. j \in Job /\ job[j] \in Ending /\ Offers(j) = {}
    BY <1>0, <1>1, <1>c DEF Closed, Ending, CloseInv
  <2>2. CASE j = 1
    <3>1. sent[j] = 1..Cardinality(sent[j]) /\ Cardinality(sent[j]) = Len(Input)
      BY <1>0, <1>k, <2>1, <2>2 DEF SentInv, Ending
    <3> QED  BY <2>2, <3>1
  <2>3. CASE j # 1
    <3>1. Jobs[j] \in {"hash", "map"}
      BY <1>c, <1>k, <2>3
    <3> QED  BY <1>0, <2>1, <2>3, <3>1, OfferKinds DEF SentInv
  <2> QED  BY <2>2, <2>3
<1>3. ASSUME NEW j \in 1..(c - 1), NEW v
      PROVE  After(args, v)[j] = IF j = 1 THEN v ELSE F(j, After(args, v)[j - 1])
  <2>1. Len(args.jobs) \in Nat /\ j \in 1..Len(args.jobs) /\ Jobs[j] = args.jobs[j]
    BY <1>0, <1>c DEF Last, Jobs, Job
  <2>2. j # 1 => Jobs[j] \in {"hash", "map"}
    BY <1>c, <1>k
  <2> QED  BY <2>1, <2>2, AfterSteps
<1>4. \A j : Len(Hashed(j)) = Len(Input)
  BY <1>0 DEF Hashed
<1>5. ASSUME NEW j \in 2..c,
             j # 2 => \E b : Rearranged(recvd[j - 1], Hashed(j - 2), b)
      PROVE  \E b : Rearranged(recvd[j], Hashed(j - 1), b)
  <2>1. j \in Job \ {1} /\ j - 1 \in 1..(c - 1) /\ j - 1 \in Job
    BY <1>c
  <2>2. PICK b : Origin(j, b)
    BY <2>1 DEF OrderInv
  <2>3. CASE j = 2
    <3>1. sent[1] = 1..Len(Input)
      BY <1>2, <2>1, <2>3
    <3>2. \A x : Output(1, x) = Input[x]
      BY <1>k DEF Output, Sources
    <3>3. ASSUME NEW x \in 1..Len(Input) PROVE Hashed(1)[x] = Input[x]
      <4>1. After(args, Input[x])[1] = Input[x]
        BY <1>3, <2>1, <2>3
      <4> QED  BY <4>1 DEF Hashed
    <3>4. Rearranged(recvd[2], Hashed(1), b)
      BY <1>4, <2>2, <2>3, <3>1, <3>2, <3>3 DEF Origin, Rearranged
    <3> QED  BY <2>3, <3>4
  <2>4. CASE j # 2
    <3>1. sent[j - 1] = 1..Len(recvd[j - 1])
      BY <1>2, <2>1, <2>4
    <3>2. \A x : Output(j - 1, x) = F(j - 1, recvd[j - 1][x])
      <4>1. Jobs[j - 1] \in {"hash", "map"}
        BY <1>c, <1>k, <2>4
      <4> QED  BY <4>1 DEF Output
    <3>3. PICK a : Rearranged(recvd[j - 1], Hashed(j - 2), a)
      BY <1>5, <2>4
    <3>4. ASSUME NEW x \in 1..Len(Input) PROVE Hashed(j - 1)[x] = F(j - 1, Hashed(j - 2)[x])
      <4>1. j - 1 # 1 /\ (j - 1) - 1 = j - 2
        BY <2>4
      <4>2. After(args, Input[x])[j - 1] = F(j - 1, After(args, Input[x])[j - 2])
        BY <1>3, <2>1, <4>1
      <4> QED  BY <4>2 DEF Hashed
    <3> DEFINE n == Len(recvd[j])
               m == Len(recvd[j - 1])
               ab == [i \in 1..n |-> a[b[i]]]
    <3>5. /\ \A i \in 1..n : b[i] \in 1..m /\ recvd[j][i] = F(j - 1, recvd[j - 1][b[i]])
          /\ \A i, k \in 1..n : b[i] = b[k] => i = k
          /\ \A x \in 1..m : \E i \in 1..n : b[i] = x
      BY <2>2, <3>1, <3>2 DEF Origin
    <3>6. /\ \A i \in 1..m : a[i] \in 1..Len(Input) /\ recvd[j - 1][i] = Hashed(j - 2)[a[i]]
          /\ \A i, k \in 1..m : a[i] = a[k] => i = k
          /\ \A x \in 1..Len(Input) : \E i \in 1..m : a[i] = x
      BY <1>4, <3>3 DEF Rearranged
    <3>7. \A i \in 1..n : ab[i] = a[b[i]]
      OBVIOUS
    <3>8. ab \in [1..n -> 1..Len(Input)]
      BY <3>5, <3>6
    <3> HIDE DEF ab, n, m
    <3>9. \A i, k \in 1..n : ab[i] = ab[k] => i = k
      <4> TAKE i, k \in 1..n
      <4>1. b[i] \in 1..m /\ b[k] \in 1..m /\ ab[i] = a[b[i]] /\ ab[k] = a[b[k]]
        BY <3>5, <3>7
      <4>2. a[b[i]] = a[b[k]] => b[i] = b[k]
        BY <3>6, <4>1
      <4> QED  BY <3>5, <4>1, <4>2
    <3>10. \A x \in 1..Len(Input) : \E i \in 1..n : ab[i] = x
      <4> TAKE x \in 1..Len(Input)
      <4>1. PICK y \in 1..m : a[y] = x
        BY <3>6
      <4>2. PICK i \in 1..n : b[i] = y
        BY <3>5
      <4> QED  BY <3>7, <4>1, <4>2
    <3>11. ASSUME NEW i \in 1..n PROVE recvd[j][i] = Hashed(j - 1)[ab[i]]
      <4>1. b[i] \in 1..m /\ recvd[j][i] = F(j - 1, recvd[j - 1][b[i]]) /\ ab[i] = a[b[i]]
        BY <3>5, <3>7
      <4>2. recvd[j - 1][b[i]] = Hashed(j - 2)[a[b[i]]] /\ a[b[i]] \in 1..Len(Input)
        BY <3>6, <4>1
      <4> QED  BY <3>4, <4>1, <4>2
    <3>12. Rearranged(recvd[j], Hashed(j - 1), ab)
      BY <1>4, <3>8, <3>9, <3>10, <3>11 DEF Rearranged, n
    <3> QED  BY <3>12
  <2> QED  BY <2>3, <2>4
<1> DEFINE Wrong == {j \in Nat : j \in 2..c /\ ~ \E b : Rearranged(recvd[j], Hashed(j - 1), b)}
<1>6. Wrong = {}
  <2> SUFFICES ASSUME Wrong # {} PROVE FALSE
    OBVIOUS
  <2>1. PICK j \in Wrong : \A i \in Wrong : j <= i
    <3>1. Wrong \in SUBSET Nat
      OBVIOUS
    <3> HIDE DEF Wrong
    <3> QED  BY <3>1, Least
  <2>2. j \in 2..c /\ ~ \E b : Rearranged(recvd[j], Hashed(j - 1), b)
    BY <2>1
  <2>3. j # 2 => \E b : Rearranged(recvd[j - 1], Hashed(j - 2), b)
    <3> SUFFICES ASSUME j # 2 PROVE \E b : Rearranged(recvd[j - 1], Hashed(j - 2), b)
      OBVIOUS
    <3>1. j - 1 \in Nat /\ j - 1 \in 2..c /\ ~ (j <= j - 1) /\ (j - 1) - 1 = j - 2
      BY <1>c, <2>2
    <3>2. j - 1 \notin Wrong
      <4> HIDE DEF Wrong
      <4> QED  BY <2>1, <3>1
    <3>3. \E b : Rearranged(recvd[j - 1], Hashed((j - 1) - 1), b)
      BY <3>1, <3>2
    <3> QED  BY <3>1, <3>3
  <2> QED  BY <1>5, <2>2, <2>3
<1>7. \E b : Rearranged(recvd[c], Hashed(c - 1), b)
  BY <1>6, <1>c
<1>8. c - 1 = Last - 2
  BY <1>0 DEF c
<1> QED  BY <1>7, <1>8 DEF c

(* What CombineResults sends is the sorted list of all hashes.             *)
LEMMA CombinesAll ==
  ASSUME IInv, ReadInv, OrderInv, IsSigner(args), job[Last - 1] \notin {"idle", "loop"}
  PROVE  Sorted(recvd[Last - 1]) = Result(args)
<1>0. /\ DataInv /\ Last \in Nat /\ Len(Input) \in Nat /\ args \in Pipelines
  BY PipelineFacts DEF IInv, TypeOK
<1>k. /\ Last > 2 /\ Jobs[Last - 1] = "combine" /\ Jobs[Last] \in {"collect", "readOne"}
      /\ Last = Len(args.jobs) /\ Jobs = args.jobs /\ Input = args.input
      /\ Last - 1 \in Job
  BY <1>0 DEF IsSigner, Jobs, Last, Job, Input
<1>1. PICK b : Rearranged(recvd[Last - 1], Hashed(Last - 2), b)
  BY AllHashesRearranged
<1>2. Len(recvd[Last - 1]) \in Nat
  BY <1>0, <1>k, LenProperties DEF DataInv, IsSequence
<1>3. Len(Hashed(Last - 2)) \in Nat
  <2>1. Len(Hashed(Last - 2)) = Len(Input)
    BY <1>0 DEF Hashed
  <2> QED  BY <1>0, <2>1
<1>4. Sorted(recvd[Last - 1]) = Sorted(Hashed(Last - 2))
  BY <1>1, <1>2, <1>3, SortedOfRearranged
<1>5. ASSUME NEW v
      PROVE  After(args, v)[Len(args.jobs)] = After(args, v)[Last - 2]
  <2>1. /\ Last \in 1..Len(args.jobs) /\ Last - 1 \in 1..Len(args.jobs) /\ Len(args.jobs) \in Nat
        /\ Last # 1 /\ Last - 1 # 1 /\ (Last - 1) - 1 = Last - 2
    BY <1>0, <1>k
  <2>2. args.jobs[Last] \notin {"hash", "map"} /\ args.jobs[Last - 1] \notin {"hash", "map"}
    BY <1>k
  <2>3. After(args, v)[Last] = After(args, v)[Last - 1]
    BY <2>1, <2>2, AfterSteps
  <2>4. After(args, v)[Last - 1] = After(args, v)[(Last - 1) - 1]
    BY <2>1, <2>2, AfterSteps
  <2> QED  BY <1>k, <2>1, <2>3, <2>4
<1>6. Hashed(Last - 2) = [k \in 1..Len(args.input) |-> After(args, args.input[k])[Len(args.jobs)]]
  BY <1>k, <1>5 DEF Hashed
<1> QED  BY <1>4, <1>6 DEF Result

(* A value that the last job of a signer receives is the first, and it is  *)
(* the result.                                                             *)
LEMMA LastReceives ==
  ASSUME IInv, ReadInv, OrderInv, IsSigner(args), NEW j \in Job, Send(j, Last)
  PROVE  recvd[Last] = <<>> /\ recvd'[Last] = <<Result(args)>>
<1>0. /\ TypeOK /\ DataInv /\ LinkInv /\ Last \in Nat /\ \A i \in Job : Jobs[i] \in Kinds
  BY PipelineFacts DEF IInv, TypeOK
<1>k. Last > 2 /\ Jobs[Last - 1] = "combine" /\ Last \in Job /\ Last - 1 \in Job
  BY <1>0 DEF IsSigner, Jobs, Last, Job
<1>1. j = Last - 1
  BY <1>k, SendOne
<1>2. PICK k \in Offers(j) : recvd' = [recvd EXCEPT ![Last] = Append(@, Output(j, k))]
  BY DEF Send
<1>3. job[j] = "finish" /\ sent[j] = {}
  <2>1. k = 1 /\ k \notin sent[j] /\ job[j] = "finish"
    BY <1>0, <1>k, <1>1, <1>2, OfferKinds
  <2> QED  BY <1>k, <1>1, <2>1 DEF ReadInv
<1>4. recvd[Last] = <<>>
  <2>1. Len(recvd[Last]) = Cardinality(sent[j])
    BY <1>k, <1>0, <1>1 DEF LinkInv
  <2>2. Cardinality({}) = 0
    BY FS_EmptySet
  <2>3. Len(recvd[Last]) = 0 /\ IsSequence(recvd[Last])
    BY <1>0, <1>3, <1>k, <2>1, <2>2 DEF DataInv
  <2> QED  BY <2>3, EmptySeq DEF IsSequence
<1>5. Output(j, k) = Result(args)
  <2>1. Output(j, k) = Sorted(recvd[j])
    BY <1>k, <1>1 DEF Output
  <2>2. Sorted(recvd[j]) = Result(args)
    BY <1>1, <1>3, CombinesAll
  <2> QED  BY <2>1, <2>2
<1>6. recvd'[Last] = Append(<<>>, Result(args))
  BY <1>0, <1>2, <1>k, <1>4, <1>5 DEF TypeOK
<1>7. \A v : Append(<<>>, v) = <<v>>
  OBVIOUS
<1> QED  BY <1>4, <1>6, <1>7

(* The last job of a signer receives nothing but the result.               *)
ResultInv == IsSigner(args) => recvd[Last] \in {<<>>, <<Result(args)>>}

SignerInv == IInv /\ ReadInv /\ OrderInv /\ ResultInv

LEMMA InitSignerInv == Init => SignerInv
<1> SUFFICES ASSUME Init PROVE SignerInv
  OBVIOUS
<1>0. Last \in Job /\ \A j \in Job : j # 1 => j - 1 \in Job
  BY PipelineFacts DEF Init, Job
<1>1. IInv
  BY InitIInv
<1>2. ReadInv
  <2>1. Len(<<>>) = 0
    OBVIOUS
  <2> QED  BY <1>0, <2>1 DEF Init, ReadInv, Ending
<1>3. OrderInv
  <2>1. ASSUME NEW j \in Job \ {1} PROVE \E b : Origin(j, b)
    <3>1. recvd[j] = <<>> /\ sent[j - 1] = {} /\ Len(<<>>) = 0
      BY <1>0 DEF Init
    <3> DEFINE b == [i \in 1..0 |-> 0]
    <3>2. \A i : i \notin 1..0
      OBVIOUS
    <3>3. b \in [1..0 -> {}]
      BY <3>2
    <3>4. Origin(j, b)
      BY <3>1, <3>2, <3>3 DEF Origin
    <3> QED  BY <3>4
  <2> QED  BY <2>1 DEF OrderInv, Init
<1>4. ResultInv
  BY <1>0 DEF ResultInv, Init
<1> QED  BY <1>1, <1>2, <1>3, <1>4 DEF SignerInv

(* A step changes what the last job has received only by a Send to it.     *)
LEMMA OnlySendsDeliver ==
  ASSUME IInv, [Next]_vars, recvd'[Last] # recvd[Last]
  PROVE  UNCHANGED main /\ \E j \in Job : Send(j, Last)
<1>0. Last \in Job
  BY PipelineFacts DEF IInv, TypeOK, Job
<1>1. PICK j \in Job, r \in Job : Send(j, r)
  BY DEF Next, Execute, StartJob, ReturnToCaller, Run, EndLoop, Return, CloseOut, WgDone,
         Terminated, vars
<1>2. r = Last
  BY <1>0, <1>1, SendOne
<1> QED  BY <1>1, <1>2 DEF Send

LEMMA StepKeepsSignerInv == SignerInv /\ [Next]_vars => SignerInv'
<1> SUFFICES ASSUME SignerInv, [Next]_vars PROVE SignerInv'
  OBVIOUS
<1>1. IInv' /\ ReadInv' /\ OrderInv'
  BY StepKeepsIInv, StepKeepsRead, StepKeepsOrder DEF SignerInv
<1>2. ResultInv'
  <2>1. args' = args /\ Last' = Last
    BY ArgsKept
  <2>2. CASE recvd'[Last] = recvd[Last]
    BY <2>1, <2>2 DEF SignerInv, ResultInv
  <2>3. CASE recvd'[Last] # recvd[Last]
    <3>1. PICK j \in Job : Send(j, Last)
      BY <2>3, OnlySendsDeliver DEF SignerInv
    <3>2. IsSigner(args) => recvd'[Last] = <<Result(args)>>
      BY <3>1, LastReceives DEF SignerInv
    <3> QED  BY <2>1, <3>2 DEF ResultInv
  <2> QED  BY <2>2, <2>3
<1> QED  BY <1>1, <1>2 DEF SignerInv

(* However the goroutines of TestSigner's jobs are scheduled, the last one *)
(* receives nothing, or one result that depends on the input alone: the    *)
(* sorted list of the hashes of all its values.  The pipeline may be any   *)
(* of Pipelines with such jobs.                                            *)
THEOREM OneResult == Spec => []ResultInv
<1>1. SignerInv => ResultInv
  BY DEF SignerInv
<1> QED  BY <1>1, InitSignerInv, StepKeepsSignerInv, PTL DEF Spec

(* The safety part of ImplementsSigner: with the signer's jobs, the last   *)
(* job receives the result at one instant, and the call returns after it.  *)
THEOREM RefinesSigner ==
  Spec => Abstract!Init /\ [][Abstract!Deliver \/ Abstract!Return]_(Abstract!vars)
<1>1. Init => Abstract!Init
  <2> SUFFICES ASSUME Init PROVE Abstract!Init
    OBVIOUS
  <2>1. Last \in Job
    BY PipelineFacts DEF Init, Job
  <2>2. Len(<<>>) = 0 /\ \A v : Len(<<v>>) = 1
    OBVIOUS
  <2> QED  BY <2>1, <2>2 DEF Init, Abstract!Init
<1>r. (IInv /\ ReadInv)' => NothingUnread'
  BY AllReadAtReturn, PTL
<1>2. SignerInv /\ SignerInv' /\ [Next]_vars => [Abstract!Deliver \/ Abstract!Return]_(Abstract!vars)
  <2> SUFFICES ASSUME SignerInv, SignerInv', [Next]_vars
               PROVE  [Abstract!Deliver \/ Abstract!Return]_(Abstract!vars)
    OBVIOUS
  <2>0. /\ IInv /\ ReadInv /\ OrderInv /\ ResultInv /\ IInv' /\ ReadInv'
    BY DEF SignerInv
  <2>1. args' = args /\ Last' = Last /\ Job' = Job /\ Jobs' = Jobs
    BY ArgsKept
  <2>2. CASE ~IsSigner(args)
    BY <2>1, <2>2 DEF Abstract!vars
  <2>s. CASE IsSigner(args)
    <3>k. /\ args \in Pipelines /\ Results[args] = Result(args)
          /\ Last \in Job /\ Last - 1 \in Job /\ Last # 1 /\ Jobs[Last - 1] = "combine"
      <4>1. args \in Pipelines /\ Last \in Nat
        BY <2>0, PipelineFacts DEF IInv, TypeOK
      <4> QED  BY <2>s, <4>1 DEF IsSigner, Last, Jobs, Job, Results
    <3>p. <<Result(args)>> # <<>>
      OBVIOUS
    <3>1. CASE recvd'[Last] # recvd[Last]
      <4>1. PICK j \in Job : Send(j, Last)
        BY <2>0, <3>1, OnlySendsDeliver
      <4>2. UNCHANGED main
        BY <4>1 DEF Send
      <4>3. recvd[Last] = <<>> /\ recvd'[Last] = <<Result(args)>>
        BY <2>0, <2>s, <3>1, <4>1, LastReceives
      <4> QED  BY <2>1, <2>s, <3>k, <3>p, <4>2, <4>3 DEF Abstract!Deliver
    <3>2. CASE recvd'[Last] = recvd[Last] /\ ReturnToCaller
      <4>1. main = "wait" /\ main' = "returned"
        BY <3>2 DEF ReturnToCaller
      <4>2. Len(recvd'[Last]) = 1
        <5>1. NothingUnread'
          BY <1>r, <2>0
        <5>2. Len(recvd'[Last]) = Cardinality(Outputs(Last - 1)')
          BY <2>1, <3>k, <4>1, <5>1 DEF NothingUnread
        <5>3. Outputs(Last - 1)' = {1}
          BY <2>1, <3>k DEF Outputs, Sources
        <5>4. Cardinality({1}) = 1
          BY FS_Singleton
        <5> QED  BY <5>2, <5>3, <5>4
      <4>3. recvd[Last] = <<Result(args)>>
        <5>1. Len(<<>>) # 1
          OBVIOUS
        <5> QED  BY <2>0, <2>s, <3>2, <4>2, <5>1 DEF ResultInv
      <4> QED  BY <2>1, <2>s, <3>2, <3>k, <3>p, <4>1, <4>3 DEF Abstract!Return
    <3>3. CASE recvd'[Last] = recvd[Last] /\ ~ ReturnToCaller
      <4>1. (main' = "returned") = (main = "returned")
        BY <3>3 DEF Next, Execute, StartJob, Run, EndLoop, Return, CloseOut, WgDone, Send, Terminated, vars
      <4> QED  BY <2>1, <2>s, <3>3, <4>1 DEF Abstract!vars
    <3> QED  BY <3>1, <3>2, <3>3
  <2> QED  BY <2>2, <2>s
<1> QED  BY <1>1, <1>2, InitSignerInv, StepKeepsSignerInv, PTL DEF Spec
===============================================================================
