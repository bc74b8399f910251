------------------------------- MODULE Pipeline -------------------------------
(***************************************************************************)
(* ExecutePipeline and startJob (hw2_signer/signer.go) running a sequence  *)
(* of jobs.  Job j reads the channel written by job j-1 and writes channel *)
(* j; job 1 is given channel 1 as its input too, and nobody reads the      *)
(* channel of the last job.  All channels are unbuffered, so a send and    *)
(* its receive are one step.                                               *)
(*                                                                         *)
(* A job is one of the functions the repository runs in a pipeline:        *)
(*   "source"    sends Input in order (the first job of TestSigner and     *)
(*               TestByIlia)                                               *)
(*   "lockstep"  sends Input too, each value only when the last job has    *)
(*               the one before (what the first job of TestPipeline waits  *)
(*               for)                                                      *)
(*   "hash"      SingleHash or MultiHash, as HashStage describes them      *)
(*   "map"       for val := range in { out <- f(val) } (TestByIlia)        *)
(*   "combine"   CombineResults                                            *)
(*   "collect"   reads its input to the end (TestPipeline, TestByIlia)     *)
(*   "readOne"   reads a single value and returns (TestSigner)             *)
(***************************************************************************)
EXTENDS Naturals, FiniteSets, Sequences, TLC

CONSTANTS Pipelines,   \* the pipelines considered: [jobs, input], where input
                       \* is what the first job sends
          F(_, _)      \* F(j, v): what job j makes of value v

Kinds == {"source", "lockstep", "hash", "map", "combine", "collect", "readOne"}

ASSUME PipelineAssumption ==
  \A p \in Pipelines :
    /\ p.jobs \in Seq(Kinds) /\ Len(p.jobs) > 0 /\ p.input \in Seq(Nat)
    /\ \A j \in 2..Len(p.jobs) : p.jobs[j] \notin {"source", "lockstep"}  \* they do not read

VARIABLES
  args,     \* the arguments of ExecutePipeline: one of the pipelines
  main,     \* ExecutePipeline: "start", "wait" or "returned"
  started,  \* how many jobs it has started
  wg,       \* counter of the WaitGroup
  job,      \* where the goroutine startJob of each job is
  recvd,    \* what each job has received
  sent      \* the outputs (by number) of each job that were received

vars == <<args, main, started, wg, job, recvd, sent>>

Jobs  == args.jobs
Input == args.input
Last  == Len(Jobs)
Job   == 1..Last
In(j) == IF j = 1 THEN 1 ELSE j - 1

-----------------------------------------------------------------------------
(* Faulty variants of some definitions below.                              *)

(* wg.Add(len(jobs) - 1)                                                   *)
OneTooFew == Last - 1

(* a hashing job that does not wait for its goroutines                     *)
NoWait(j) == TRUE

(* a hashing job that keeps its results until its input is closed          *)
AccumulatedOffers(j) ==
  CASE Jobs[j] \in {"source", "lockstep"} ->
         {k \in {Cardinality(sent[j]) + 1} :
            k <= Len(Input) /\ (Jobs[j] = "source" \/ k <= Len(recvd[Last]) + 1)}
    [] Jobs[j] \in {"hash", "map"} ->
         IF job[j] = "finish" THEN (1..Len(recvd[j])) \ sent[j] ELSE {}
    [] Jobs[j] = "combine" -> IF job[j] = "finish" THEN {1} \ sent[j] ELSE {}
    [] OTHER -> {}

(* CombineResults without sort.Strings                                     *)
UnsortedOutput(j, k) ==
  CASE Jobs[j] \in {"source", "lockstep"} -> Input[k]
    [] Jobs[j] = "combine" -> recvd[j]
    [] OTHER -> F(j, recvd[j][k])

(* channels with room for values nobody reads any more                     *)
AlwaysReady(j) == job[j] # "idle"

-----------------------------------------------------------------------------
Added == Last          \* wg.Add(len(jobs))

Init ==
  /\ args \in Pipelines
  /\ main = "start"
  /\ started = 0
  /\ wg = Added
  /\ job = [j \in Job |-> "idle"]
  /\ recvd = [j \in Job |-> <<>>]
  /\ sent = [j \in Job |-> {}]

(* The go statements of ExecutePipeline: jobs 2, 3, ... and then job 1     *)
StartJob ==
  /\ main = "start"
  /\ LET j == IF started = Last - 1 THEN 1 ELSE started + 2
     IN  job' = [job EXCEPT ![j] = "loop"]
  /\ started' = started + 1
  /\ main' = IF started' = Last THEN "wait" ELSE "start"
  /\ UNCHANGED <<args, wg, recvd, sent>>

(* wg.Wait() returns, and so does ExecutePipeline                          *)
ReturnToCaller ==
  /\ main = "wait"
  /\ wg = 0
  /\ main' = "returned"
  /\ UNCHANGED <<args, started, wg, job, recvd, sent>>

-----------------------------------------------------------------------------
(* Channel j is closed once startJob has executed close(out)               *)
Closed(j) == job[j] \in {"wgDone", "exited"}

(* sort.Strings: at place k the value that fewer than k others precede and *)
(* at least k do not exceed                                                *)
AtPlace(k, values, below, upTo) == CHOOSE v \in values : below[v] < k /\ k <= upTo[v]

Sorted(s) ==
  LET values == {s[i] : i \in 1..Len(s)}
      below  == [v \in values |-> Cardinality({i \in 1..Len(s) : s[i] < v})]
      upTo   == [v \in values |-> Cardinality({i \in 1..Len(s) : s[i] <= v})]
  IN  [k \in 1..Len(s) |-> AtPlace(k, values, below, upTo)]

(* The numbers of the outputs job j is ready to send now                   *)
Offers(j) ==
  CASE Jobs[j] \in {"source", "lockstep"} ->
         {k \in {Cardinality(sent[j]) + 1} :
            k <= Len(Input) /\ (Jobs[j] = "source" \/ k <= Len(recvd[Last]) + 1)}
    [] Jobs[j] \in {"hash", "map"} -> (1..Len(recvd[j])) \ sent[j]
    [] Jobs[j] = "combine" -> IF job[j] = "finish" THEN {1} \ sent[j] ELSE {}
    [] OTHER -> {}

(* The k-th output of job j                                                *)
Output(j, k) ==
  CASE Jobs[j] \in {"source", "lockstep"} -> Input[k]
    [] Jobs[j] = "combine" -> Sorted(recvd[j])
    [] OTHER -> F(j, recvd[j][k])

(* Is job j waiting for a value?  A map job first sends the one it has.    *)
Receiving(j) ==
  /\ job[j] = "loop"
  /\ CASE Jobs[j] \in {"hash", "combine", "collect"} -> TRUE
       [] Jobs[j] = "map" -> Offers(j) = {}
       [] Jobs[j] = "readOne" -> recvd[j] = <<>>
       [] OTHER -> FALSE

(* One value goes from job j to the job that reads its channel             *)
Send(j, r) ==
  /\ In(r) = j
  /\ job[j] \in {"loop", "finish"}
  /\ Receiving(r)
  /\ \E k \in Offers(j) :
       /\ recvd' = [recvd EXCEPT ![r] = Append(@, Output(j, k))]
       /\ sent' = [sent EXCEPT ![j] = @ \cup {k}]
  /\ UNCHANGED <<args, main, started, wg, job>>

(* Job j receives no more: its source is exhausted, its input is closed,   *)
(* or it has the only value it wants (a receive from a closed channel      *)
(* returns at once).                                                       *)
EndLoop(j) ==
  /\ job[j] = "loop"
  /\ CASE Jobs[j] \in {"source", "lockstep"} -> Cardinality(sent[j]) = Len(Input)
       [] Jobs[j] = "readOne" -> recvd[j] # <<>> \/ Closed(In(j))
       [] OTHER -> Receiving(j) /\ Closed(In(j))
  /\ job' = [job EXCEPT ![j] = "finish"]
  /\ UNCHANGED <<args, main, started, wg, recvd, sent>>

(* wg.Wait() of a hashing job, the last send of CombineResults: nothing    *)
(* is left to send                                                         *)
NothingToSend(j) == Offers(j) = {}

Return(j) ==
  /\ job[j] = "finish"
  /\ NothingToSend(j)
  /\ job' = [job EXCEPT ![j] = "close"]
  /\ UNCHANGED <<args, main, started, wg, recvd, sent>>

CloseOut(j) ==
  /\ job[j] = "close"
  /\ job' = [job EXCEPT ![j] = "wgDone"]
  /\ UNCHANGED <<args, main, started, wg, recvd, sent>>

(* startJob's deferred wg.Done()                                           *)
WgDone(j) ==
  /\ job[j] = "wgDone"
  /\ job' = [job EXCEPT ![j] = "exited"]
  /\ wg' = wg - 1
  /\ UNCHANGED <<args, main, started, recvd, sent>>

-----------------------------------------------------------------------------
Execute == StartJob \/ ReturnToCaller

Run(j) == EndLoop(j) \/ Return(j) \/ CloseOut(j) \/ WgDone(j) \/ \E r \in Job : Send(j, r)

Terminated == main = "returned" /\ UNCHANGED vars

Next == Execute \/ (\E j \in Job : Run(j)) \/ Terminated

(* The Go scheduler runs every goroutine that can run.                     *)
Goroutines == UNION {1..Len(p.jobs) : p \in Pipelines}

Fairness == WF_vars(Execute) /\ \A j \in Goroutines : WF_vars(j \in Job /\ Run(j))

Spec == Init /\ [][Next]_vars /\ Fairness

-----------------------------------------------------------------------------
(* Properties                                                              *)

TypeOK ==
  /\ args \in Pipelines
  /\ main \in {"start", "wait", "returned"}
  /\ started \in 0..Last
  /\ wg \in 0..Last
  /\ job \in [Job -> {"idle", "loop", "finish", "close", "wgDone", "exited"}]
  /\ DOMAIN recvd = Job
  /\ DOMAIN sent = Job

(* The channels are closed from the first to the last.  A job whose channel *)
(* is closed, or about to be, has no value left to send: no send meets a   *)
(* closed channel.  A job that ranges over its input has left the loop     *)
(* only if every value its predecessor ever had to send is among those it  *)
(* has received.  ExecutePipeline returns when every job has exited.       *)
NothingLostOnClose ==
  /\ main = "returned" => \A j \in Job : job[j] = "exited"
  /\ \A j \in Job : job[j] \in {"close", "wgDone", "exited"} => Offers(j) = {}
  /\ \A j \in Job \ {1} :
       (Jobs[j] # "readOne" /\ job[j] \notin {"idle", "loop"}) =>
         /\ Closed(j - 1)
         /\ Len(recvd[j]) = Cardinality(sent[j - 1])
         /\ Jobs[j - 1] \in {"hash", "map"} => Len(recvd[j]) = Len(recvd[j - 1])

(* A value nobody will read: the last job sends at all, or a job that takes *)
(* a single value is sent several.                                         *)
AllRead ==
  /\ Jobs[Last] \in {"collect", "readOne"}
  /\ \A j \in Job : Jobs[j] = "readOne" => j > 1 /\ Jobs[j - 1] = "combine"

(* If every value is read, ExecutePipeline returns.  With a lockstep source *)
(* this is the free flow of TestPipeline: a value reaches the last job     *)
(* although the first has not finished, however many stages lie between.   *)
ReturnsIfAllRead == AllRead => <>(main = "returned")

(* Otherwise that value blocks its sender for ever, and with it the call   *)
(* of ExecutePipeline.                                                     *)
HangsOnUnreadValue ==
  ~AllRead => <>[](/\ main = "wait"
                   /\ \E j \in Job : job[j] \in {"loop", "finish"} /\ Offers(j) # {})

(* What becomes of value v on its way to the output of each job            *)
After(p, v) ==
  LET after[j \in 1..Len(p.jobs)] ==
        IF j = 1 THEN v
        ELSE IF p.jobs[j] \in {"hash", "map"} THEN F(j, after[j - 1])
        ELSE after[j - 1]
  IN  after

Result(p) == Sorted([k \in 1..Len(p.input) |-> After(p, p.input[k])[Len(p.jobs)]])

(* The jobs of TestSigner: any number of hashing jobs, CombineResults, and *)
(* a job that reads its result.                                            *)
IsSigner(p) ==
  /\ Len(p.jobs) > 2
  /\ p.jobs[1] \in {"source", "lockstep"}
  /\ \A j \in 2..(Len(p.jobs) - 2) : p.jobs[j] \in {"hash", "map"}
  /\ p.jobs[Len(p.jobs) - 1] = "combine"
  /\ p.jobs[Len(p.jobs)] \in {"collect", "readOne"}

Results == [p \in Pipelines |-> Result(p)]

(* Pipelines of such jobs implement the signer.                            *)
Abstract == INSTANCE Signer WITH
              promised  <- IF IsSigner(args) THEN <<Results[args]>> ELSE <<>>,
              delivered <- IF IsSigner(args) THEN recvd[Last] ELSE <<>>,
              returned  <- IsSigner(args) /\ main = "returned"

ImplementsSigner == Abstract!Spec
===============================================================================
