------------------------------ MODULE SingleHash ------------------------------
(***************************************************************************)
(* The SingleHash job of the signer pipeline (hw2_signer/signer.go) run by *)
(* startJob, with the hash functions it calls (common.go).                 *)
(*                                                                         *)
(* For every value the job receives it starts four goroutines connected by *)
(* three unbuffered channels of their own:                                 *)
(*                                                                         *)
(*     md5 --signedMd5Ch--> relay --signedMd5Crc32Ch--\                    *)
(*                                                     combiner --> out    *)
(*     crc ---------------------------signedCrc32Ch---/                    *)
(*                                                                         *)
(* The md5 goroutines of all values share one mutex, held until the relay  *)
(* has received the digest; the combiners are counted by a WaitGroup.  The *)
(* k-th value received is called item k and names its goroutines.  An      *)
(* unbuffered send and its receive are one step.  The previous job sends   *)
(* Input[1], ..., Input[N] and closes; the next job may receive from out   *)
(* whenever a combiner offers a result.                                    *)
(***************************************************************************)
EXTENDS Naturals, FiniteSets, Sequences

CONSTANTS N,            \* how many values arrive before the input is closed
          Input,        \* Input[k]: the k-th of them
          Md5(_),       \* digest computed by DataSignerMd5
          Crc32(_),     \* checksum computed by DataSignerCrc32
          None          \* a local variable not assigned yet

ASSUME SingleHashAssumption == N \in Nat /\ DOMAIN Input = 1..N

VARIABLES
  main,                 \* the job's goroutine
  taken,                \* how many values it received
  wg,                   \* counter of the WaitGroup
  mu,                   \* holder of the mutex, 0 when it is free
  dataSignerOverheat,   \* the flag DataSignerMd5 takes by compare-and-swap
  combiner, relay, crc, md5,      \* where the goroutines of each item are
  signedMd5,            \* local of the relay
  signedCrc32, signedMd5Crc32,    \* locals of the combiner
  out                   \* what the next job has received

Items == 1..N

pcs     == <<combiner, relay, crc, md5>>
locals  == <<signedMd5, signedCrc32, signedMd5Crc32>>
shared  == <<main, taken, wg, mu, dataSignerOverheat, out>>
vars    == <<pcs, locals, shared>>

(* Item i's goroutine with program counter pc goes from one line to another *)
Step(pc, i, from, to) == pc[i] = from /\ pc' = [pc EXCEPT ![i] = to]

-----------------------------------------------------------------------------
(* Faulty variants of some definitions below: the same code with a mistake *)
(* one could make in it.                                                   *)

(* without "val := val" a goroutine reads the loop variable                *)
SharedLoopVariable(i) == Input[taken]

(* without mu.Lock() and mu.Unlock()                                       *)
NoMutex(i) == TRUE

(* the checksums joined the wrong way round                                *)
SwapChecksums(i) ==
  /\ Step(combiner, i, "send", "wgDone")
  /\ main # "closed"
  /\ out' = Append(out, <<signedMd5Crc32[i], signedCrc32[i]>>)
  /\ UNCHANGED <<relay, crc, md5, locals, main, taken, wg, mu, dataSignerOverheat>>

(* no wg.Wait()                                                            *)
ReturnWithoutWait == main = "wait" /\ main' = "close"
                     /\ UNCHANGED <<pcs, locals, taken, wg, mu, dataSignerOverheat, out>>

(* no wg.Add(1)                                                            *)
StartUncounted(i) == wg' = wg

(* mu.Unlock() forgotten                                                   *)
KeepMutex(i) == /\ Step(md5, i, "unlock", "done")
                /\ UNCHANGED <<combiner, relay, crc, locals, shared>>

-----------------------------------------------------------------------------
Init ==
  /\ main = "range"
  /\ taken = 0
  /\ wg = 0
  /\ mu = 0
  /\ dataSignerOverheat = 0
  /\ combiner = [i \in Items |-> "none"]
  /\ relay = [i \in Items |-> "none"]
  /\ crc = [i \in Items |-> "none"]
  /\ md5 = [i \in Items |-> "none"]
  /\ signedMd5 = [i \in Items |-> None]
  /\ signedCrc32 = [i \in Items |-> None]
  /\ signedMd5Crc32 = [i \in Items |-> None]
  /\ out = <<>>

(* The value item i's goroutines captured: a variable of the iteration.    *)
ValOf(i) == Input[i]

(* wg.Add(1), done by the job itself before it starts the goroutines       *)
Count(i) == wg' = wg + 1

(* One iteration of "for val := range in", for item k                      *)
TakeValue(k) ==
  /\ main = "range"
  /\ k = taken + 1
  /\ taken' = k
  /\ Count(k)
  /\ Step(combiner, k, "none", "recvCrc32")
  /\ Step(relay, k, "none", "range")
  /\ Step(crc, k, "none", "hash")
  /\ Step(md5, k, "none", "lock")
  /\ UNCHANGED <<locals, main, mu, dataSignerOverheat, out>>

(* The input is closed: the loop ends and the job waits for its combiners  *)
InputClosed ==
  /\ main = "range"
  /\ taken = N
  /\ main' = "wait"
  /\ UNCHANGED <<pcs, locals, taken, wg, mu, dataSignerOverheat, out>>

(* wg.Wait() lets the job return to startJob                               *)
Return ==
  /\ main = "wait"
  /\ wg = 0
  /\ main' = "close"
  /\ UNCHANGED <<pcs, locals, taken, wg, mu, dataSignerOverheat, out>>

(* close(out) in startJob                                                  *)
CloseOut ==
  /\ main = "close"
  /\ main' = "closed"
  /\ UNCHANGED <<pcs, locals, taken, wg, mu, dataSignerOverheat, out>>

-----------------------------------------------------------------------------
(* The md5 goroutine of item i                                             *)

MuFree(i) == mu = 0

LockMu(i) ==
  /\ Step(md5, i, "lock", "overheatLock")
  /\ MuFree(i)
  /\ mu' = i
  /\ UNCHANGED <<combiner, relay, crc, locals, main, taken, wg, dataSignerOverheat, out>>

(* A failed compare-and-swap sleeps a second and tries again: no step      *)
OverheatLock(i) ==
  /\ Step(md5, i, "overheatLock", "overheatUnlock")
  /\ dataSignerOverheat = 0
  /\ dataSignerOverheat' = 1
  /\ UNCHANGED <<combiner, relay, crc, locals, main, taken, wg, mu, out>>

OverheatUnlock(i) ==
  /\ Step(md5, i, "overheatUnlock", "send")
  /\ dataSignerOverheat = 1
  /\ dataSignerOverheat' = 0
  /\ UNCHANGED <<combiner, relay, crc, locals, main, taken, wg, mu, out>>

(* The digest is handed to the relay while the mutex is still held         *)
SendMd5(i) ==
  /\ Step(md5, i, "send", "unlock")
  /\ Step(relay, i, "range", "hash")
  /\ signedMd5' = [signedMd5 EXCEPT ![i] = Md5(ValOf(i))]
  /\ UNCHANGED <<combiner, crc, signedCrc32, signedMd5Crc32, shared>>

UnlockMu(i) ==
  /\ Step(md5, i, "unlock", "done")
  /\ mu' = 0
  /\ UNCHANGED <<combiner, relay, crc, locals, main, taken, wg, dataSignerOverheat, out>>

-----------------------------------------------------------------------------
(* DataSignerCrc32 in the crc goroutine and in the relay of item i         *)
HashCrc32(i) ==
  /\ \/ Step(crc, i, "hash", "send") /\ UNCHANGED relay
     \/ Step(relay, i, "hash", "send") /\ UNCHANGED crc
  /\ UNCHANGED <<combiner, md5, locals, shared>>

(* The crc goroutine hands its result to the combiner and ends             *)
SendCrc32(i) ==
  /\ Step(crc, i, "send", "done")
  /\ Step(combiner, i, "recvCrc32", "recvMd5Crc32")
  /\ signedCrc32' = [signedCrc32 EXCEPT ![i] = Crc32(ValOf(i))]
  /\ UNCHANGED <<relay, md5, signedMd5, signedMd5Crc32, shared>>

(* The relay hands over and goes back to its range over a channel that is  *)
(* never closed: it stays there for good.                                  *)
SendMd5Crc32(i) ==
  /\ Step(combiner, i, "recvMd5Crc32", "send")
  /\ Step(relay, i, "send", "range")
  /\ signedMd5Crc32' = [signedMd5Crc32 EXCEPT ![i] = Crc32(signedMd5[i])]
  /\ UNCHANGED <<crc, md5, signedMd5, signedCrc32, shared>>

(* The combiner's "out <- res", received by the next job: the two          *)
(* checksums joined by "~".                                                *)
SendResult(i) ==
  /\ Step(combiner, i, "send", "wgDone")
  /\ main # "closed"
  /\ out' = Append(out, <<signedCrc32[i], signedMd5Crc32[i]>>)
  /\ UNCHANGED <<relay, crc, md5, locals, main, taken, wg, mu, dataSignerOverheat>>

(* The combiner's deferred wg.Done()                                       *)
WgDone(i) ==
  /\ Step(combiner, i, "wgDone", "done")
  /\ wg' = wg - 1
  /\ UNCHANGED <<relay, crc, md5, locals, main, taken, mu, dataSignerOverheat, out>>

-----------------------------------------------------------------------------
Job == (\E k \in Items : TakeValue(k)) \/ InputClosed \/ Return \/ CloseOut

Goroutine(i) ==
  \/ LockMu(i) \/ OverheatLock(i) \/ OverheatUnlock(i) \/ SendMd5(i) \/ UnlockMu(i)
  \/ HashCrc32(i) \/ SendCrc32(i) \/ SendMd5Crc32(i) \/ SendResult(i) \/ WgDone(i)

(* Nothing is left to run: every goroutine ended, except the relays, which *)
(* are parked for ever.                                                    *)
Quiet ==
  /\ main = "closed"
  /\ \A i \in Items : /\ combiner[i] = "done" /\ crc[i] = "done"
                      /\ md5[i] = "done" /\ relay[i] = "range"

Terminated == Quiet /\ UNCHANGED vars

Next == Job \/ (\E i \in Items : Goroutine(i)) \/ Terminated

(* The Go scheduler runs every goroutine that can run; a mutex is granted  *)
(* to some waiter, and the channels connect one sender to one receiver.    *)
Fairness ==
  /\ WF_vars(Job)
  /\ \A i \in Items : WF_vars(Goroutine(i))

Spec == Init /\ [][Next]_vars /\ Fairness

-----------------------------------------------------------------------------
(* Properties                                                              *)

TypeOK ==
  /\ main \in {"range", "wait", "close", "closed"}
  /\ taken \in 0..N
  /\ wg \in 0..N
  /\ mu \in 0..N
  /\ dataSignerOverheat \in {0, 1}
  /\ combiner \in [Items -> {"none", "recvCrc32", "recvMd5Crc32", "send", "wgDone", "done"}]
  /\ relay \in [Items -> {"none", "range", "hash", "send"}]
  /\ crc \in [Items -> {"none", "hash", "send", "done"}]
  /\ md5 \in [Items -> {"none", "lock", "overheatLock", "overheatUnlock",
                         "send", "unlock", "done"}]
  /\ DOMAIN signedMd5 = Items
  /\ DOMAIN signedCrc32 = Items
  /\ DOMAIN signedMd5Crc32 = Items

(* DataSignerMd5 is never entered by two goroutines at once: the compare-  *)
(* and-swap of OverheatLock and the one of OverheatUnlock succeed at the   *)
(* first attempt, so no call ever sleeps the second an overheat costs.     *)
NoOverheat ==
  \A i \in Items :
    /\ md5[i] = "overheatLock" => dataSignerOverheat = 0
    /\ md5[i] = "overheatUnlock" => dataSignerOverheat = 1

(* The WaitGroup keeps the job from returning while a combiner still has a *)
(* result to send: startJob's close(out) never meets a pending send, which *)
(* would panic.                                                            *)
NoSendOnClosedOut ==
  main \in {"close", "closed"} => \A i \in Items : combiner[i] \in {"none", "done"}

(* The checksums a combiner joins belong to its own value, in the order    *)
(* crc32(data), crc32(md5(data)), whatever the order in which the          *)
(* goroutines of all items finish.                                         *)
PairedChecksums ==
  \A i \in Items :
    combiner[i] = "send" =>
      /\ signedCrc32[i] = Crc32(Input[i])
      /\ signedMd5Crc32[i] = Crc32(Md5(Input[i]))

(* Everything ends except one goroutine per value: the relay, ranging over *)
(* a channel nobody closes, is leaked.  In particular the mutex is left    *)
(* free and no hash is abandoned half way.                                 *)
OnlyRelaysOutliveTheJob == <>[](Quiet /\ mu = 0 /\ dataSignerOverheat = 0)

(* The job implements the stage the rest of the pipeline relies on.        *)
Hash(v) == <<Crc32(v), Crc32(Md5(v))>>

Sent == {i \in Items : combiner[i] \in {"wgDone", "done"}}

Stage == INSTANCE HashStage WITH
           sent   <- Sent,
           closed <- main = "closed"

ImplementsStage == Stage!Spec
=============================================================================
