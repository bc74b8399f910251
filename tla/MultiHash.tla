------------------------------- MODULE MultiHash -------------------------------
(***************************************************************************)
(* The MultiHash job of the signer pipeline (hw2_signer/signer.go) run by  *)
(* startJob.  For every value received the job starts a joiner goroutine;  *)
(* the joiner starts one goroutine per prefix, each with an unbuffered     *)
(* channel of its own, then receives from those channels in the order of   *)
(* the prefixes, whichever is ready first, and sends the concatenation.    *)
(* As in SingleHash, item k is the k-th value received, an unbuffered send *)
(* and its receive are one step, and the neighbours are a sender of        *)
(* Input[1], ..., Input[N] and a receiver that takes whatever is offered.  *)
(***************************************************************************)
EXTENDS Naturals, FiniteSets, Sequences

CONSTANTS N,            \* how many values arrive before the input is closed
          Input,        \* Input[k]: the k-th of them
          P,            \* number of prefixes, len(prefixes)
          Crc32(_, _)   \* DataSignerCrc32 of a prefix followed by a value

ASSUME MultiHashAssumption == /\ N \in Nat /\ DOMAIN Input = 1..N
                              /\ P \in Nat \ {0}

VARIABLES
  main,      \* the job's goroutine
  taken,     \* how many values it received
  wg,        \* counter of the WaitGroup
  joiner,    \* where the joiner of each item is
  idx,       \* its loop variable
  result,    \* its local: the checksums concatenated so far
  step,      \* step[i][p]: where the goroutine of item i and prefix p is
  out        \* what the next job has received

vars == <<main, taken, wg, joiner, idx, result, step, out>>

Items    == 1..N
Prefixes == 0..(P - 1)

Step(pc, i, from, to) == pc[i] = from /\ pc' = [pc EXCEPT ![i] = to]

-----------------------------------------------------------------------------
(* Faulty variants of some definitions below.                              *)

(* without "val := val" the goroutines read the loop variable              *)
SharedLoopVariable(i) == Input[taken]

(* results concatenated in the order in which they are ready               *)
AnyReady(i, p) == step[i][p] = "send"

(* no wg.Wait()                                                            *)
NoWait == main = "wait"

(* wg.Add(1) forgotten                                                     *)
StartUncounted(i) == wg' = wg

(* "i < len(prefixes) - 1" in the loop that joins                          *)
JoinAllButLast(i) == idx[i] = P - 1

-----------------------------------------------------------------------------
Init ==
  /\ main = "range"
  /\ taken = 0
  /\ wg = 0
  /\ joiner = [i \in Items |-> "none"]
  /\ idx = [i \in Items |-> 0]
  /\ result = [i \in Items |-> <<>>]
  /\ step = [i \in Items |-> [p \in Prefixes |-> "none"]]
  /\ out = <<>>

(* The value item i's goroutines captured: a variable of the iteration.    *)
ValOf(i) == Input[i]

(* wg.Add(1), done by the job itself before it starts the joiner           *)
Count(i) == wg' = wg + 1

(* One iteration of "for val := range in", for item k                      *)
TakeValue(k) ==
  /\ main = "range"
  /\ k = taken + 1
  /\ taken' = k
  /\ Count(k)
  /\ Step(joiner, k, "none", "start")
  /\ UNCHANGED <<main, idx, result, step, out>>

(* The input is closed: the loop ends and the job waits for its joiners    *)
InputClosed ==
  /\ main = "range"
  /\ taken = N
  /\ main' = "wait"
  /\ UNCHANGED <<taken, wg, joiner, idx, result, step, out>>

JoinersDone == main = "wait" /\ wg = 0

(* wg.Wait() lets the job return to startJob                               *)
Return ==
  /\ JoinersDone
  /\ main' = "close"
  /\ UNCHANGED <<taken, wg, joiner, idx, result, step, out>>

(* close(out) in startJob                                                  *)
CloseOut ==
  /\ main = "close"
  /\ main' = "closed"
  /\ UNCHANGED <<taken, wg, joiner, idx, result, step, out>>

-----------------------------------------------------------------------------
(* First loop of the joiner: a goroutine for the next prefix               *)
StartPrefix(i) ==
  /\ joiner[i] = "start"
  /\ idx[i] < P
  /\ step' = [step EXCEPT ![i][idx[i]] = "hash"]
  /\ idx' = [idx EXCEPT ![i] = @ + 1]
  /\ UNCHANGED <<main, taken, wg, joiner, result, out>>

(* ... which ends when every prefix has its goroutine                      *)
StartedAll(i) ==
  /\ Step(joiner, i, "start", "join")
  /\ idx[i] = P
  /\ idx' = [idx EXCEPT ![i] = 0]
  /\ UNCHANGED <<main, taken, wg, result, step, out>>

(* DataSignerCrc32 in the goroutine of prefix p                            *)
HashPrefix(i, p) ==
  /\ step[i][p] = "hash"
  /\ step' = [step EXCEPT ![i][p] = "send"]
  /\ UNCHANGED <<main, taken, wg, joiner, idx, result, out>>

(* The joiner receives from the channel of its loop variable only          *)
Ready(i, p) == step[i][p] = "send" /\ p = idx[i]

JoinPrefix(i, p) ==
  /\ joiner[i] = "join"
  /\ Ready(i, p)
  /\ step' = [step EXCEPT ![i][p] = "done"]
  /\ result' = [result EXCEPT ![i] = Append(@, Crc32(p, ValOf(i)))]
  /\ idx' = [idx EXCEPT ![i] = @ + 1]
  /\ UNCHANGED <<main, taken, wg, joiner, out>>

JoinedAll(i) == idx[i] = P

EndJoin(i) ==
  /\ Step(joiner, i, "join", "send")
  /\ JoinedAll(i)
  /\ UNCHANGED <<main, taken, wg, idx, result, step, out>>

(* The joiner's "out <- result", received by the next job                  *)
SendResult(i) ==
  /\ Step(joiner, i, "send", "wgDone")
  /\ main # "closed"
  /\ out' = Append(out, result[i])
  /\ UNCHANGED <<main, taken, wg, idx, result, step>>

WgDone(i) ==
  /\ Step(joiner, i, "wgDone", "done")
  /\ wg' = wg - 1
  /\ UNCHANGED <<main, taken, idx, result, step, out>>

-----------------------------------------------------------------------------
Job == (\E k \in Items : TakeValue(k)) \/ InputClosed \/ Return \/ CloseOut

Goroutine(i) ==
  \/ StartPrefix(i) \/ StartedAll(i) \/ EndJoin(i) \/ SendResult(i) \/ WgDone(i)
  \/ \E p \in Prefixes : HashPrefix(i, p) \/ JoinPrefix(i, p)

(* The job has returned and every goroutine it started has ended.          *)
Quiet ==
  /\ main = "closed"
  /\ \A i \in Items : /\ joiner[i] = "done"
                      /\ \A p \in Prefixes : step[i][p] = "done"

Terminated == Quiet /\ UNCHANGED vars

Next == Job \/ (\E i \in Items : Goroutine(i)) \/ Terminated

(* The Go scheduler runs every goroutine that can run.                     *)
Fairness ==
  /\ WF_vars(Job)
  /\ \A i \in Items : WF_vars(Goroutine(i))

Spec == Init /\ [][Next]_vars /\ Fairness

-----------------------------------------------------------------------------
(* Properties                                                              *)

TypeOK ==
  /\ main \in {"range", "wait", "close", "closed"}
  /\ taken \in 0..N
  /\ wg \in 0..N
  /\ joiner \in [Items -> {"none", "start", "join", "send", "wgDone", "done"}]
  /\ idx \in [Items -> 0..P]
  /\ DOMAIN result = Items
  /\ step \in [Items -> [Prefixes -> {"none", "hash", "send", "done"}]]

(* The job returns, and startJob closes out, only after the last joiner    *)
(* was heard: a send on the closed channel would panic.                    *)
NoSendOnClosedOut ==
  main \in {"close", "closed"} => \A i \in Items : joiner[i] \in {"none", "done"}

(* A result is the checksums of the joiner's own value in the order of the *)
(* prefixes, though the goroutines that compute them finish in any order   *)
(* and the goroutines of other values run meanwhile.                       *)
Hash(v) == [k \in 1..P |-> Crc32(k - 1, v)]

ResultInPrefixOrder ==
  \A i \in Items : joiner[i] = "send" => result[i] = Hash(Input[i])

(* No goroutine outlives the job for ever: every checksum that was started *)
(* is received.                                                            *)
EveryGoroutineEnds == <>[]Quiet

(* The job implements the stage the rest of the pipeline relies on.        *)
Sent == {i \in Items : joiner[i] \in {"wgDone", "done"}}

Stage == INSTANCE HashStage WITH
           sent   <- Sent,
           closed <- main = "closed"

ImplementsStage == Stage!Spec
=============================================================================
