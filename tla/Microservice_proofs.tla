--------------------------- MODULE Microservice_proofs ---------------------------
(***************************************************************************)
(* Proofs about Microservice, for any calls, any access control list and   *)
(* any environment: types, the exclusion by statsMu, the completeness of   *)
(* the log streams, the conservation of the counts, and the event bus that *)
(* the service implements.                                                 *)
(***************************************************************************)
EXTENDS Microservice, FiniteSetTheorems, SequenceTheorems, TLAPS

(* TypeOK, by the groups of variables that one part of the program writes. *)
LifeTypes ==
  /\ service \in {"new", "running", "failed"}
  /\ port \in {"free", "bound"}
  /\ serve \in {"none", "starting", "serving", "returned"}
  /\ ctxDone \in BOOLEAN
  /\ stopper \in {"none", "waiting", "closeLogs", "closeStats", "stop", "stopped", "exited"}
  /\ closed \subseteq {"events", "logs", "stats"}
  /\ crashed \in BOOLEAN
CallTypes ==
  /\ pc \in [Calls -> {"idle", "authorize", "event", "handler", "register", "sleep", "ended"}]
  /\ answer \in [Calls -> {"none", "ok", "error", "unauthenticated"}]
  /\ gone \in [Calls -> BOOLEAN]
  /\ unread \in [Calls -> 0..Window]
MuxTypes ==
  /\ mux \in {"none", "select", "send", "write", "count", "addStat", "exited"}
  /\ event \in Calls \cup {"none"}
  /\ idx \in 1..(Len(logStreams) + 1)
  /\ logStreams \in Seq(Calls)
  /\ stats \in Seq(Calls)
CountTypes ==
  /\ statsMu \in Calls \cup {"free", "mux"}
  /\ ticker \in [Calls -> {"none", "timer", "lock", "send", "write", "reset"}]
  /\ tally \in [Calls -> [Keys -> Nat]]
  /\ reported \in [Calls -> [Keys -> Nat]]
HistTypes ==
  /\ log \in Seq(Calls)
  /\ since \in [Calls -> Nat]
  /\ delivered \in [Calls -> Seq(Calls)]

Logged(c)  == \E i \in 1..Len(log) : log[i] = c
Sending(s) == \E i \in 1..Len(logStreams) : logStreams[i] = s
Counted(c) == \E i \in 1..Len(stats) : stats[i] = c

(* A call is in the log exactly from the moment it is past the interceptor,*)
(* and only the calls of streaming methods register and sleep.             *)
CallInv ==
  /\ \A c \in Calls : answer[c] # "none" <=> pc[c] = "ended"
  /\ \A c \in Calls : Logged(c) <=> pc[c] \in {"handler", "register", "sleep"}
                                    \/ answer[c] \in {"ok", "error"}
  /\ \A c \in Calls : Kind(c) = "biz" => pc[c] \notin {"register", "sleep"}

(* The multiplexer's slice holds each log stream that has joined, once.    *)
StreamInv ==
  /\ \A i \in 1..Len(logStreams) : logStreams[i] \in Loggers /\ Joined(logStreams[i])
  /\ \A s \in Loggers : Joined(s) => Sending(s)
  /\ \A i, j \in 1..Len(logStreams) : logStreams[i] = logStreams[j] => i = j

(* What a stream was sent is a part of the log, beginning where it joined. *)
WindowInv ==
  \A s \in Loggers :
    /\ ~Joined(s) => delivered[s] = <<>>
    /\ Joined(s) =>
         /\ since[s] + Len(delivered[s]) <= Len(log)
         /\ \A i \in 1..Len(delivered[s]) : delivered[s][i] = log[since[s] + i]

(* While the multiplexer sends the last event of the log, the open streams *)
(* it has passed have all of the log, and the others all but that event.   *)
ProgressInv ==
  /\ mux \in {"send", "write", "count"} => Len(log) > 0 /\ event = log[Len(log)]
  /\ mux = "write" => idx <= Len(logStreams)
  /\ \A i \in 1..Len(logStreams) :
       LET s == logStreams[i]
       IN  ~Done(s) => since[s] + Len(delivered[s])
                         = IF mux \in {"send", "write"} /\ i >= idx
                           THEN Len(log) - 1 ELSE Len(log)

(* statsMu is held by the multiplexer while it counts, by a ticker while   *)
(* it sends and resets, and so by one of them at a time.                   *)
MutexInv ==
  /\ service = "new" => mux = "none"
  /\ statsMu = "mux" <=> mux = "count"
  /\ \A c \in Calls : statsMu = c <=> ticker[c] \in {"send", "write", "reset"}

(* A ticker runs for each Stat, of a Statistics call, and counts nothing   *)
(* that was dispatched before.                                             *)
TickerInv ==
  /\ \A c \in Calls : ticker[c] # "none" <=> Counted(c)
  /\ \A c \in Calls : ticker[c] = "none" => tally[c] = Zero /\ reported[c] = Zero
  /\ \A c \in Calls : ticker[c] # "none" => Kind(c) = "stats" /\ since[c] <= Dispatched
  /\ mux = "addStat" => event \in Calls /\ Kind(event) = "stats"

IInv == /\ TypeOK /\ CallInv /\ StreamInv /\ WindowInv /\ ProgressInv
        /\ MutexInv /\ TickerInv /\ StatsConserved

-----------------------------------------------------------------------------
(* Zero is a function from the keys, and the empty sequence one of calls.  *)
LEMMA ConstantTypes ==
  /\ Window \in Nat \ {0}
  /\ Zero \in [Keys -> Nat]
  /\ <<>> \in Seq(Calls) /\ Len(<<>>) = 0
  /\ "none" \notin Calls /\ "free" \notin Calls /\ "mux" \notin Calls
  BY MicroserviceAssumption DEF Zero

(* TypeOK is its parts.                                                    *)
LEMMA TypeParts ==
  TypeOK <=> LifeTypes /\ CallTypes /\ MuxTypes /\ CountTypes /\ HistTypes
  BY DEF TypeOK, LifeTypes, CallTypes, MuxTypes, CountTypes, HistTypes

(* The inductive invariant holds at the start.                             *)
LEMMA InitIInv == Init => IInv
<1> SUFFICES ASSUME Init PROVE IInv
  OBVIOUS
<1> USE ConstantTypes
<1>1. TypeOK
  <2>1. LifeTypes
    BY DEF Init, LifeTypes
  <2>2. CallTypes
    BY DEF Init, CallTypes
  <2>3. MuxTypes
    BY DEF Init, MuxTypes
  <2>4. CountTypes
    BY DEF Init, CountTypes
  <2>5. HistTypes
    BY DEF Init, HistTypes
  <2> QED  BY <2>1, <2>2, <2>3, <2>4, <2>5, TypeParts
<1>2. CallInv
  BY DEF Init, CallInv, Logged
<1>3. StreamInv
  BY DEF Init, StreamInv, Loggers, Joined, Sending
<1>4. WindowInv
  BY DEF Init, WindowInv, Loggers, Joined
<1>5. ProgressInv
  BY DEF Init, ProgressInv
<1>6. MutexInv
  BY DEF Init, MutexInv
<1>7. TickerInv
  BY DEF Init, TickerInv, Counted
<1>8. StatsConserved
  BY DEF Init, StatsConserved
<1> QED  BY <1>1, <1>2, <1>3, <1>4, <1>5, <1>6, <1>7, <1>8 DEF IInv

(* A message taken never exceeds the window.                               *)
LEMMA TakenTypes ==
  ASSUME unread \in [Calls -> 0..Window], NEW c \in Calls, Released(c)
  PROVE  Taken(c) \in [Calls -> 0..Window]
<1>1. ~Done(c) => unread[c] < Window
  BY DEF Released, Done
<1> QED  BY <1>1, ConstantTypes DEF Taken

(* Every action keeps the types.                                           *)
LEMMA StepKeepsTypes == IInv /\ [Next]_vars => TypeOK'
<1> SUFFICES ASSUME IInv, [Next]_vars PROVE TypeOK'
  OBVIOUS
<1> USE ConstantTypes
<1>0. LifeTypes /\ CallTypes /\ MuxTypes /\ CountTypes /\ HistTypes
  BY TypeParts DEF IInv
<1>a. life' = life => LifeTypes'
  BY <1>0 DEF life, LifeTypes
<1>b. call' = call => CallTypes'
  BY <1>0 DEF call, CallTypes
<1>c. muxv' = muxv => MuxTypes'
  BY <1>0 DEF muxv, MuxTypes
<1>d. counts' = counts => CountTypes'
  BY <1>0 DEF counts, CountTypes
<1>e. hist' = hist => HistTypes'
  BY <1>0 DEF hist, HistTypes
<1>z. LifeTypes' /\ CallTypes' /\ MuxTypes' /\ CountTypes' /\ HistTypes' => TypeOK'
  BY DEF TypeOK, LifeTypes, CallTypes, MuxTypes, CountTypes, HistTypes
<1>1. CASE Server \/ Cancel
  <2>1. CASE Start
    <3>1. LifeTypes'
      BY <1>0, <2>1 DEF Start, LifeTypes
    <3>2. MuxTypes'
      BY <1>0, <2>1 DEF Start, MuxTypes
    <3> QED  BY <2>1, <3>1, <3>2, <1>b, <1>d, <1>e, <1>z DEF Start
  <2>2. CASE Serve
    <3>1. LifeTypes'
      BY <1>0, <2>2 DEF Serve, LifeTypes
    <3> QED  BY <2>2, <3>1, <1>b, <1>c, <1>d, <1>e, <1>z DEF Serve
  <2>3. CASE ServeReturns
    <3>1. LifeTypes'
      BY <1>0, <2>3 DEF ServeReturns, LifeTypes
    <3> QED  BY <2>3, <3>1, <1>b, <1>c, <1>d, <1>e, <1>z DEF ServeReturns
  <2>4. CASE Close
    <3>1. LifeTypes'
      <4>1. stopper' \in {"closeLogs", "closeStats", "stop"}
            /\ closed' \subseteq {"events", "logs", "stats"}
        BY <1>0, <2>4 DEF Close, CloseChannel, LifeTypes
      <4> QED  BY <1>0, <2>4, <4>1 DEF Close, LifeTypes
    <3> QED  BY <2>4, <3>1, <1>b, <1>c, <1>d, <1>e, <1>z DEF Close
  <2>5. CASE Stop
    <3>1. LifeTypes'
      BY <1>0, <2>5 DEF Stop, LifeTypes
    <3>2. CallTypes'
      BY <1>0, <2>5 DEF Stop, CallTypes
    <3> QED  BY <2>5, <3>1, <3>2, <1>c, <1>d, <1>e, <1>z DEF Stop
  <2>6. CASE StopReturns
    <3>1. LifeTypes'
      BY <1>0, <2>6 DEF StopReturns, LifeTypes
    <3> QED  BY <2>6, <3>1, <1>b, <1>c, <1>d, <1>e, <1>z DEF StopReturns
  <2>7. CASE Cancel
    <3>1. LifeTypes'
      BY <1>0, <2>7 DEF Cancel, LifeTypes
    <3> QED  BY <2>7, <3>1, <1>b, <1>c, <1>d, <1>e, <1>z DEF Cancel
  <2> QED  BY <1>1, <2>1, <2>2, <2>3, <2>4, <2>5, <2>6, <2>7 DEF Server
<1>2. CASE Mux
  <2>1. CASE LockAddStat
    <3>0. event \in Calls
      BY <2>1 DEF LockAddStat, TickerInv, IInv
    <3>1. MuxTypes'
      <4>1. stats' \in Seq(Calls)
        BY <1>0, <2>1, <3>0, AppendProperties DEF LockAddStat, MuxTypes
      <4> QED  BY <1>0, <2>1, <4>1 DEF LockAddStat, MuxTypes
    <3>2. CountTypes'
      BY <1>0, <2>1 DEF LockAddStat, Tick, CountTypes
    <3>3. HistTypes'
      BY <1>0, <2>1, <3>0, LenProperties DEF LockAddStat, HistTypes
    <3> QED  BY <2>1, <3>1, <3>2, <3>3, <1>a, <1>b, <1>z DEF LockAddStat
  <2>6. CASE SendToStream
    <3>1. MuxTypes'
      BY <1>0, <2>6, LenProperties DEF SendToStream, MuxTypes
    <3> QED  BY <2>6, <3>1, <1>a, <1>b, <1>d, <1>e, <1>z DEF SendToStream
  <2>2. CASE WriteToStream
    <3> DEFINE s == logStreams[idx]
    <3>0. s \in Calls /\ event \in Calls
      <4>1. event = log[Len(log)] /\ Len(log) > 0 /\ idx <= Len(logStreams)
        BY <2>2 DEF WriteToStream, ProgressInv, IInv
      <4>2. Len(log) \in Nat /\ Len(logStreams) \in Nat /\ idx \in 1..Len(logStreams)
        BY <1>0, <4>1, LenProperties DEF HistTypes, MuxTypes
      <4> QED  BY <1>0, <4>1, <4>2, ElementOfSeq DEF HistTypes, MuxTypes
    <3>1. CallTypes'
      <4>1. unread' \in [Calls -> 0..Window]
        BY <1>0, <2>2, <3>0, TakenTypes DEF WriteToStream, CallTypes
      <4> QED  BY <1>0, <2>2, <4>1 DEF WriteToStream, CallTypes
    <3>2. MuxTypes'
      BY <1>0, <2>2, LenProperties DEF WriteToStream, MuxTypes, ProgressInv, IInv
    <3>3. HistTypes'
      <4>1. delivered' = [delivered EXCEPT ![s] = IF Done(s) THEN @ ELSE Append(@, event)]
        BY <2>2 DEF WriteToStream
      <4>2. Append(delivered[s], event) \in Seq(Calls)
        BY <1>0, <3>0, AppendProperties DEF HistTypes
      <4>3. delivered' \in [Calls -> Seq(Calls)]
        BY <1>0, <3>0, <4>1, <4>2 DEF HistTypes
      <4> QED  BY <1>0, <2>2, <4>3 DEF WriteToStream, HistTypes
    <3> QED  BY <2>2, <3>1, <3>2, <3>3, <1>a, <1>d, <1>z DEF WriteToStream
  <2>3. CASE LockStats
    <3>1. MuxTypes'
      BY <1>0, <2>3 DEF LockStats, MuxTypes
    <3>2. CountTypes'
      BY <1>0, <2>3 DEF LockStats, Lock, CountTypes
    <3> QED  BY <2>3, <3>1, <3>2, <1>a, <1>b, <1>e, <1>z DEF LockStats
  <2>4. CASE Count
    <3>1. MuxTypes'
      BY <1>0, <2>4 DEF Count, MuxTypes
    <3>2. CountTypes'
      <4>1. tally' \in [Calls -> [Keys -> Nat]]
        <5> SUFFICES ASSUME NEW c \in Calls PROVE tally'[c] \in [Keys -> Nat]
          BY <2>4 DEF Count
        <5> QED  BY <1>0, <2>4 DEF Count, CountTypes
      <4> QED  BY <1>0, <2>4, <4>1 DEF Count, CountTypes
    <3> QED  BY <2>4, <3>1, <3>2, <1>a, <1>b, <1>e, <1>z DEF Count
  <2>5. CASE ExitMux
    <3>1. MuxTypes'
      BY <1>0, <2>5 DEF ExitMux, MuxTypes
    <3> QED  BY <2>5, <3>1, <1>a, <1>b, <1>d, <1>e, <1>z DEF ExitMux
  <2> QED  BY <1>2, <2>1, <2>2, <2>3, <2>4, <2>5, <2>6 DEF Mux
<1>3. ASSUME NEW c \in Calls, Handler(c) \/ Return(c) PROVE TypeOK'
  <2>1. CASE Admit(c)
    <3>1. CallTypes'
      BY <1>0, <2>1 DEF Admit, Goto, CallTypes
    <3> QED  BY <2>1, <3>1, <1>a, <1>c, <1>d, <1>e, <1>z DEF Admit
  <2>2. CASE Deny(c)
    <3>1. CallTypes'
      BY <1>0, <2>2 DEF Deny, Goto, CallTypes
    <3> QED  BY <2>2, <3>1, <1>a, <1>c, <1>d, <1>e, <1>z DEF Deny
  <2>3. CASE SendEvent(c)
    <3>1. CallTypes'
      BY <1>0, <2>3 DEF SendEvent, Goto, CallTypes
    <3>2. MuxTypes'
      BY <1>0, <2>3 DEF SendEvent, MuxTypes
    <3>3. HistTypes'
      BY <1>0, <2>3, AppendProperties DEF SendEvent, HistTypes
    <3> QED  BY <2>3, <3>1, <3>2, <3>3, <1>a, <1>d, <1>z DEF SendEvent
  <2>4. CASE Biz(c)
    <3>1. CallTypes'
      BY <1>0, <2>4 DEF Biz, Goto, CallTypes
    <3> QED  BY <2>4, <3>1, <1>a, <1>c, <1>d, <1>e, <1>z DEF Biz
  <2>5. CASE Open(c)
    <3>1. CallTypes'
      BY <1>0, <2>5 DEF Open, Goto, CallTypes
    <3> QED  BY <2>5, <3>1, <1>a, <1>c, <1>d, <1>e, <1>z DEF Open
  <2>6. CASE OpenFails(c)
    <3>1. CallTypes'
      BY <1>0, <2>6 DEF OpenFails, Goto, CallTypes
    <3> QED  BY <2>6, <3>1, <1>a, <1>c, <1>d, <1>e, <1>z DEF OpenFails
  <2>7. CASE AddLogStream(c)
    <3>1. CallTypes'
      BY <1>0, <2>7 DEF AddLogStream, Goto, CallTypes
    <3>2. MuxTypes'
      <4>1. logStreams' \in Seq(Calls) /\ Len(logStreams') = Len(logStreams) + 1
        BY <1>0, <2>7, AppendProperties DEF AddLogStream, Appended, MuxTypes
      <4>2. idx' \in 1..(Len(logStreams') + 1)
        BY <1>0, <2>7, <4>1, LenProperties DEF AddLogStream, MuxTypes
      <4> QED  BY <1>0, <2>7, <4>1, <4>2 DEF AddLogStream, MuxTypes
    <3>3. HistTypes'
      BY <1>0, <2>7, LenProperties DEF AddLogStream, HistTypes
    <3> QED  BY <2>7, <3>1, <3>2, <3>3, <1>a, <1>d, <1>z DEF AddLogStream
  <2>8. CASE AddStat(c)
    <3>1. CallTypes'
      BY <1>0, <2>8 DEF AddStat, Goto, CallTypes
    <3>2. MuxTypes'
      BY <1>0, <2>8 DEF AddStat, MuxTypes
    <3> QED  BY <2>8, <3>1, <3>2, <1>a, <1>d, <1>e, <1>z DEF AddStat
  <2>9. CASE Panic(c)
    <3>1. LifeTypes'
      BY <1>0, <2>9 DEF Panic, LifeTypes
    <3> QED  BY <2>9, <3>1, <1>b, <1>c, <1>d, <1>e, <1>z DEF Panic
  <2>10. CASE Return(c)
    <3>1. CallTypes'
      BY <1>0, <2>10 DEF Return, Goto, CallTypes
    <3> QED  BY <2>10, <3>1, <1>a, <1>c, <1>d, <1>e, <1>z DEF Return
  <2> QED  BY <1>3, <2>1, <2>2, <2>3, <2>4, <2>5, <2>6, <2>7, <2>8, <2>9, <2>10 DEF Handler
<1>4. ASSUME NEW c \in Calls, Ticker(c) PROVE TypeOK'
  <2>1. CASE Fire(c)
    <3>1. CountTypes'
      BY <1>0, <2>1 DEF Fire, Tick, CountTypes
    <3> QED  BY <2>1, <3>1, <1>a, <1>b, <1>c, <1>e, <1>z DEF Fire
  <2>2. CASE LockTicker(c)
    <3>1. CountTypes'
      BY <1>0, <2>2 DEF LockTicker, Tick, Lock, CountTypes
    <3> QED  BY <2>2, <3>1, <1>a, <1>b, <1>c, <1>e, <1>z DEF LockTicker
  <2>5. CASE SendStat(c)
    <3>1. CountTypes'
      BY <1>0, <2>5 DEF SendStat, Tick, CountTypes
    <3> QED  BY <2>5, <3>1, <1>a, <1>b, <1>c, <1>e, <1>z DEF SendStat
  <2>3. CASE WriteStat(c)
    <3>1. CallTypes'
      <4>1. unread' \in [Calls -> 0..Window]
        BY <1>0, <2>3, TakenTypes DEF WriteStat, CallTypes
      <4> QED  BY <1>0, <2>3, <4>1 DEF WriteStat, CallTypes
    <3>2. CountTypes'
      <4>1. ticker' \in [Calls -> {"none", "timer", "lock", "send", "write", "reset"}]
        BY <1>0, <2>3 DEF WriteStat, Tick, CountTypes
      <4>2. [k \in Keys |-> reported[c][k] + tally[c][k]] \in [Keys -> Nat]
        BY <1>0 DEF CountTypes
      <4>3. reported' \in [Calls -> [Keys -> Nat]]
        BY <1>0, <2>3, <4>2 DEF WriteStat, CountTypes
      <4> QED  BY <1>0, <2>3, <4>1, <4>3 DEF WriteStat, CountTypes
    <3> QED  BY <2>3, <3>1, <3>2, <1>a, <1>c, <1>e, <1>z DEF WriteStat
  <2>4. CASE Reset(c)
    <3>1. CountTypes'
      BY <1>0, <2>4 DEF Reset, Tick, CountTypes
    <3> QED  BY <2>4, <3>1, <1>a, <1>b, <1>c, <1>e, <1>z DEF Reset
  <2> QED  BY <1>4, <2>1, <2>2, <2>3, <2>4, <2>5 DEF Ticker
<1>5. ASSUME NEW c \in Calls, Client(c) PROVE TypeOK'
  <2>1. CASE Arrive(c)
    <3>1. CallTypes'
      BY <1>0, <2>1 DEF Arrive, Goto, CallTypes
    <3> QED  BY <2>1, <3>1, <1>a, <1>c, <1>d, <1>e, <1>z DEF Arrive
  <2>2. CASE Read(c)
    <3>1. CallTypes'
      <4>1. unread' \in [Calls -> 0..Window]
        BY <1>0, <2>2 DEF Read, CallTypes
      <4> QED  BY <1>0, <2>2, <4>1 DEF Read, CallTypes
    <3> QED  BY <2>2, <3>1, <1>a, <1>c, <1>d, <1>e, <1>z DEF Read
  <2>3. CASE Leave(c)
    <3>1. CallTypes'
      BY <1>0, <2>3 DEF Leave, CallTypes
    <3> QED  BY <2>3, <3>1, <1>a, <1>c, <1>d, <1>e, <1>z DEF Leave
  <2> QED  BY <1>5, <2>1, <2>2, <2>3 DEF Client
<1>6. CASE UNCHANGED vars
  BY <1>6, <1>a, <1>b, <1>c, <1>d, <1>e, <1>z DEF vars
<1> QED  BY <1>1, <1>2, <1>3, <1>4, <1>5, <1>6 DEF Next, Idle

-----------------------------------------------------------------------------
(* What the actions do to the calls and the log streams.                   *)

(* Only the handlers, and the clients that call, move a call or log it.    *)
LEMMA CallSteps ==
  [Next]_vars =>
    \/ UNCHANGED <<pc, answer, log>>
    \/ \E c \in Calls : \/ Arrive(c) \/ Admit(c) \/ Deny(c) \/ SendEvent(c) \/ Biz(c)
                        \/ Open(c) \/ OpenFails(c) \/ AddLogStream(c) \/ AddStat(c)
                        \/ Return(c)
<1> SUFFICES ASSUME [Next]_vars PROVE
      \/ UNCHANGED <<pc, answer, log>>
      \/ \E c \in Calls : \/ Arrive(c) \/ Admit(c) \/ Deny(c) \/ SendEvent(c) \/ Biz(c)
                          \/ Open(c) \/ OpenFails(c) \/ AddLogStream(c) \/ AddStat(c)
                          \/ Return(c)
  OBVIOUS
<1> USE DEF call, hist
<1>1. CASE Server \/ Cancel
  BY <1>1 DEF Server, Cancel, Start, Serve, ServeReturns, Close, Stop, StopReturns
<1>2. CASE Mux
  BY <1>2 DEF Mux, LockAddStat, SendToStream, WriteToStream, LockStats, Count, ExitMux
<1>3. ASSUME NEW c \in Calls, Ticker(c) \/ Read(c) \/ Leave(c) \/ Panic(c)
      PROVE UNCHANGED <<pc, answer, log>>
  BY <1>3 DEF Ticker, Fire, LockTicker, SendStat, WriteStat, Reset, Read, Leave, Panic
<1>4. CASE UNCHANGED vars
  BY <1>4 DEF vars
<1> QED  BY <1>1, <1>2, <1>3, <1>4 DEF Next, Idle, Handler, Client

(* An event received is logged, and no other call becomes so.              *)
LEMMA LogAppend ==
  ASSUME log \in Seq(Calls), NEW c \in Calls, log' = Append(log, c)
  PROVE  /\ Len(log') = Len(log) + 1
         /\ log'[Len(log')] = c
         /\ \A i \in 1..Len(log) : log'[i] = log[i]
         /\ \A d \in Calls : Logged(d)' <=> Logged(d) \/ d = c
<1>1. /\ Len(log) \in Nat /\ Len(log') = Len(log) + 1
      /\ log'[Len(log')] = c
      /\ \A i \in 1..Len(log) : log'[i] = log[i]
  BY AppendProperties, LenProperties
<1> QED  BY <1>1 DEF Logged

(* The log, the places and the answers of the calls agree after a step.    *)
LEMMA StepKeepsCall == IInv /\ [Next]_vars => CallInv'
<1> SUFFICES ASSUME IInv, [Next]_vars PROVE CallInv'
  OBVIOUS
<1>0. CallTypes /\ HistTypes /\ CallInv
  BY TypeParts DEF IInv
<1>1. CASE UNCHANGED <<pc, answer, log>>
  BY <1>0, <1>1 DEF CallInv, Logged
<1>2. ASSUME NEW c \in Calls, Arrive(c) \/ Admit(c) \/ Open(c)  PROVE CallInv'
  <2>1. log' = log
    BY <1>2 DEF Arrive, Admit, Open, hist
  <2> QED  BY <1>0, <1>2, <2>1 DEF CallInv, CallTypes, Logged, Arrive, Admit, Open, Goto
<1>3. ASSUME NEW c \in Calls, Deny(c) \/ Biz(c) \/ OpenFails(c) \/ Return(c)  PROVE CallInv'
  <2>1. log' = log
    BY <1>3 DEF Deny, Biz, OpenFails, Return, hist
  <2>2. \A d \in Calls : Logged(d)' <=> Logged(d)
    BY <2>1 DEF Logged
  <2> USE <1>0, <2>2 DEF CallInv, CallTypes, Goto
  <2>3. CASE Deny(c)  BY <2>3 DEF Deny
  <2>4. CASE Biz(c)  BY <2>4 DEF Biz
  <2>5. CASE OpenFails(c)  BY <2>5 DEF OpenFails
  <2>6. CASE Return(c)  BY <2>6 DEF Return
  <2> QED  BY <1>3, <2>3, <2>4, <2>5, <2>6
<1>4. ASSUME NEW c \in Calls, SendEvent(c)  PROVE CallInv'
  <2>1. \A d \in Calls : Logged(d)' <=> Logged(d) \/ d = c
    BY <1>0, <1>4, LogAppend DEF SendEvent, HistTypes
  <2> QED  BY <1>0, <1>4, <2>1 DEF CallInv, CallTypes, SendEvent, Goto
<1>5. ASSUME NEW c \in Calls, AddLogStream(c) \/ AddStat(c)  PROVE CallInv'
  <2>1. log' = log
    BY <1>5 DEF AddLogStream, AddStat, hist
  <2> QED  BY SMTT(20), <1>0, <1>5, <2>1 DEF CallInv, CallTypes, Logged, AddLogStream, AddStat, Goto
<1> QED  BY <1>1, <1>2, <1>3, <1>4, <1>5, CallSteps

(* A log stream joins when the multiplexer takes it, once and for all.     *)
LEMMA JoinSteps ==
  IInv /\ [Next]_vars =>
    \/ /\ logStreams' = logStreams
       /\ \A s \in Loggers : Joined(s)' <=> Joined(s)
    \/ \E c \in Loggers : /\ AddLogStream(c) /\ ~Joined(c)
                          /\ \A s \in Loggers : Joined(s)' <=> Joined(s) \/ s = c
<1> DEFINE Same == /\ logStreams' = logStreams
                   /\ \A s \in Loggers : Joined(s)' <=> Joined(s)
<1> SUFFICES ASSUME IInv, [Next]_vars
             PROVE Same \/ \E c \in Loggers :
                      /\ AddLogStream(c) /\ ~Joined(c)
                      /\ \A s \in Loggers : Joined(s)' <=> Joined(s) \/ s = c
  OBVIOUS
<1>0. CallTypes /\ CallInv
  BY TypeParts DEF IInv
<1>1. logStreams' = logStreams \/ \E c \in Calls : AddLogStream(c)
  <2>1. ASSUME NEW c \in Calls, Handler(c) \/ Return(c) \/ Ticker(c) \/ Client(c), ~AddLogStream(c)
        PROVE logStreams' = logStreams
    BY <2>1 DEF Handler, Admit, Deny, SendEvent, Biz, Open, OpenFails, AddStat, Panic, Return,
                Ticker, Fire, LockTicker, SendStat, WriteStat, Reset, Client, Arrive, Read, Leave, muxv
  <2>2. CASE Server \/ Cancel
    BY <2>2 DEF Server, Cancel, Start, Serve, ServeReturns, Close, Stop, StopReturns, muxv
  <2>3. CASE Mux
    BY <2>3 DEF Mux, LockAddStat, SendToStream, WriteToStream, LockStats, Count, ExitMux
  <2>4. CASE UNCHANGED vars
    BY <2>4 DEF vars, muxv
  <2> QED  BY <2>1, <2>2, <2>3, <2>4 DEF Next, Idle
<1>2. ASSUME NEW c \in Calls, AddLogStream(c)
      PROVE /\ c \in Loggers /\ ~Joined(c)
            /\ \A s \in Loggers : Joined(s)' <=> Joined(s) \/ s = c
  BY <1>0, <1>2 DEF CallTypes, CallInv, Loggers, Joined, AddLogStream, Goto
<1>3. CASE \A c \in Calls : ~AddLogStream(c)
  <2>1. ASSUME NEW c \in Calls, \/ Arrive(c) \/ Admit(c) \/ SendEvent(c) \/ Open(c) \/ AddStat(c)
        PROVE \A s \in Loggers : Joined(s)' <=> Joined(s)
    BY <1>0, <2>1 DEF CallTypes, CallInv, Loggers, Joined, Arrive, Admit, SendEvent, Open, AddStat, Goto
  <2>2. ASSUME NEW c \in Calls, \/ Deny(c) \/ Biz(c) \/ OpenFails(c) \/ Return(c)
        PROVE \A s \in Loggers : Joined(s)' <=> Joined(s)
    BY <1>0, <2>2 DEF CallTypes, CallInv, Loggers, Joined, Deny, Biz, OpenFails, Return, Goto
  <2>3. ASSUME UNCHANGED <<pc, answer, log>> PROVE \A s \in Loggers : Joined(s)' <=> Joined(s)
    BY <2>3 DEF Joined
  <2> QED  BY <1>1, <1>3, <2>1, <2>2, <2>3, CallSteps
<1> QED  BY <1>1, <1>2, <1>3

(* The multiplexer's slice keeps to the streams that have joined.          *)
LEMMA StepKeepsStreams == IInv /\ [Next]_vars => StreamInv'
<1> SUFFICES ASSUME IInv, [Next]_vars PROVE StreamInv'
  OBVIOUS
<1>0. MuxTypes /\ StreamInv
  BY TypeParts DEF IInv
<1>1. CASE logStreams' = logStreams /\ \A s \in Loggers : Joined(s)' <=> Joined(s)
  BY <1>0, <1>1 DEF StreamInv, Sending
<1>2. ASSUME NEW c \in Loggers, AddLogStream(c), ~Joined(c),
             \A s \in Loggers : Joined(s)' <=> Joined(s) \/ s = c
      PROVE StreamInv'
  <2>1. /\ Len(logStreams) \in Nat /\ Len(logStreams') = Len(logStreams) + 1
        /\ logStreams'[Len(logStreams) + 1] = c
        /\ \A i \in 1..Len(logStreams) : logStreams'[i] = logStreams[i]
    BY <1>0, <1>2, AppendProperties, LenProperties
       DEF AddLogStream, Appended, MuxTypes, Loggers
  <2>2. \A i \in 1..Len(logStreams') : i \in 1..Len(logStreams) \/ i = Len(logStreams) + 1
    BY <2>1
  <2>3. (\A i \in 1..Len(logStreams) : logStreams[i] \in Loggers /\ Joined(logStreams[i]))'
    BY <1>0, <1>2, <2>1, <2>2 DEF StreamInv, Joined
  <2>4. \A s \in Loggers : Joined(s)' => Sending(s)'
    BY <1>0, <1>2, <2>1 DEF StreamInv, Sending
  <2>5. \A i \in 1..Len(logStreams) : logStreams[i] # c
    BY <1>0, <1>2 DEF StreamInv
  <2>6. \A i, j \in 1..Len(logStreams') : logStreams'[i] = logStreams'[j] => i = j
    BY <1>0, <2>1, <2>2, <2>5 DEF StreamInv
  <2> QED  BY <2>3, <2>4, <2>6 DEF StreamInv
<1> QED  BY <1>1, <1>2, JoinSteps

(* Only the multiplexer, and who hands it an event or a stream, writes the *)
(* history of the log streams.                                             *)
LEMMA HistorySteps ==
  [Next]_vars =>
    \/ UNCHANGED hist
    \/ WriteToStream \/ LockAddStat
    \/ \E c \in Calls : SendEvent(c) \/ AddLogStream(c)
<1> SUFFICES ASSUME [Next]_vars
             PROVE \/ UNCHANGED hist
                   \/ WriteToStream \/ LockAddStat
                   \/ \E c \in Calls : SendEvent(c) \/ AddLogStream(c)
  OBVIOUS
<1>1. ASSUME NEW c \in Calls, Handler(c) \/ Return(c) \/ Ticker(c) \/ Client(c),
             ~SendEvent(c), ~AddLogStream(c)
      PROVE UNCHANGED hist
  BY <1>1 DEF Handler, Admit, Deny, Biz, Open, OpenFails, AddStat, Panic, Return,
              Ticker, Fire, LockTicker, SendStat, WriteStat, Reset, Client, Arrive, Read, Leave
<1>2. CASE Server \/ Cancel
  BY <1>2 DEF Server, Cancel, Start, Serve, ServeReturns, Close, Stop, StopReturns
<1>3. CASE Mux
  BY <1>3 DEF Mux, SendToStream, LockStats, Count, ExitMux
<1>4. CASE UNCHANGED vars
  BY <1>4 DEF vars
<1> QED  BY <1>1, <1>2, <1>3, <1>4 DEF Next, Idle

(* A write on the next stream hands it the event, unless it is done.       *)
LEMMA WriteOne ==
  ASSUME IInv, WriteToStream
  PROVE  /\ idx \in 1..Len(logStreams)
         /\ logStreams[idx] \in Loggers /\ Joined(logStreams[idx])
         /\ event = log[Len(log)] /\ Len(log) > 0
         /\ \/ Done(logStreams[idx]) /\ delivered' = delivered
            \/ /\ ~Done(logStreams[idx])
               /\ since[logStreams[idx]] + Len(delivered[logStreams[idx]]) = Len(log) - 1
               /\ delivered' = [delivered EXCEPT ![logStreams[idx]] = Append(@, event)]
<1>0. MuxTypes /\ HistTypes /\ StreamInv /\ ProgressInv /\ mux = "write" /\ idx <= Len(logStreams)
  BY TypeParts DEF IInv, WriteToStream, ProgressInv
<1>1. idx \in 1..Len(logStreams)
  BY <1>0, LenProperties DEF MuxTypes
<1>2. event = log[Len(log)] /\ Len(log) > 0
  BY <1>0 DEF ProgressInv
<1>3. logStreams[idx] \in Loggers /\ Joined(logStreams[idx])
  BY <1>0, <1>1 DEF StreamInv
<1>4. \/ Done(logStreams[idx]) /\ delivered' = delivered
      \/ /\ ~Done(logStreams[idx])
         /\ delivered' = [delivered EXCEPT ![logStreams[idx]] = Append(@, event)]
  BY <1>0 DEF WriteToStream, HistTypes
<1>5. ~Done(logStreams[idx]) =>
        since[logStreams[idx]] + Len(delivered[logStreams[idx]]) = Len(log) - 1
  BY <1>0, <1>1 DEF ProgressInv, MuxTypes
<1> QED  BY <1>1, <1>2, <1>3, <1>4, <1>5

(* What each stream was sent stays a part of the log.                      *)
LEMMA StepKeepsWindow == IInv /\ [Next]_vars => WindowInv'
<1> SUFFICES ASSUME IInv, [Next]_vars PROVE WindowInv'
  OBVIOUS
<1>0. MuxTypes /\ HistTypes /\ StreamInv /\ WindowInv
  BY TypeParts DEF IInv
<1>l. Len(log) \in Nat /\ \A s \in Calls : since[s] \in Nat /\ Len(delivered[s]) \in Nat
  BY <1>0, LenProperties DEF HistTypes
<1>n. \A s \in Loggers : s \in Calls
  BY DEF Loggers
<1>1. ASSUME \A s \in Loggers : Joined(s)' <=> Joined(s),
             UNCHANGED delivered,
             \A s \in Loggers : since'[s] = since[s],
             Len(log') \in Nat, Len(log) <= Len(log'),
             \A i \in 1..Len(log) : log'[i] = log[i]
      PROVE WindowInv'
  <2> SUFFICES ASSUME NEW s \in Loggers, Joined(s)
               PROVE /\ since[s] + Len(delivered[s]) <= Len(log')
                     /\ \A i \in 1..Len(delivered[s]) : delivered[s][i] = log'[since[s] + i]
    BY <1>0, <1>1 DEF WindowInv
  <2>1. /\ since[s] + Len(delivered[s]) <= Len(log)
        /\ \A i \in 1..Len(delivered[s]) : delivered[s][i] = log[since[s] + i]
    BY <1>0 DEF WindowInv
  <2>2. \A i \in 1..Len(delivered[s]) : since[s] + i \in 1..Len(log)
    BY <1>l, <1>n, <2>1
  <2>3. since[s] + Len(delivered[s]) <= Len(log')
    BY <1>1, <1>l, <1>n, <2>1
  <2>4. ASSUME NEW i \in 1..Len(delivered[s]) PROVE delivered[s][i] = log'[since[s] + i]
    BY <1>1, <2>1, <2>2
  <2> QED  BY <2>3, <2>4
<1>2. CASE UNCHANGED hist /\ \A s \in Loggers : Joined(s)' <=> Joined(s)
  BY <1>1, <1>2, <1>l DEF hist
<1>3. ASSUME NEW c \in Calls, SendEvent(c), \A s \in Loggers : Joined(s)' <=> Joined(s)
      PROVE WindowInv'
  <2>1. Len(log') = Len(log) + 1 /\ \A i \in 1..Len(log) : log'[i] = log[i]
    BY <1>0, <1>3, LogAppend DEF SendEvent, HistTypes
  <2> QED  BY <1>1, <1>3, <1>l, <2>1 DEF SendEvent
<1>4. ASSUME LockAddStat, \A s \in Loggers : Joined(s)' <=> Joined(s)
      PROVE WindowInv'
  <2>1. event \in Calls \ Loggers
    BY <1>4 DEF LockAddStat, IInv, TickerInv, Loggers
  <2>2. \A s \in Loggers : since'[s] = since[s]
    BY <1>0, <1>4, <1>n, <2>1 DEF LockAddStat, HistTypes
  <2> QED  BY <1>1, <1>4, <1>l, <2>2 DEF LockAddStat
<1>5. ASSUME WriteToStream, \A s \in Loggers : Joined(s)' <=> Joined(s)
      PROVE WindowInv'
  <2> DEFINE t == logStreams[idx]
  <2>0. log' = log /\ since' = since
    BY <1>5 DEF WriteToStream
  <2>1. CASE delivered' = delivered
    BY <1>1, <1>5, <1>l, <2>0, <2>1
  <2>2. CASE ~Done(t) /\ delivered' # delivered
    <3>1. /\ t \in Loggers /\ Joined(t) /\ event = log[Len(log)] /\ Len(log) > 0
          /\ since[t] + Len(delivered[t]) = Len(log) - 1
          /\ delivered' = [delivered EXCEPT ![t] = Append(@, event)]
      BY <1>5, <2>2, WriteOne
    <3>2. event \in Calls
      BY <1>0, <1>l, <3>1, ElementOfSeq DEF HistTypes
    <3>3. delivered[t] \in Seq(Calls) /\ delivered'[t] = Append(delivered[t], event)
      BY <1>0, <1>n, <3>1 DEF HistTypes
    <3>4. /\ Len(delivered'[t]) = Len(delivered[t]) + 1
          /\ delivered'[t][Len(delivered[t]) + 1] = event
          /\ \A i \in 1..Len(delivered[t]) : delivered'[t][i] = delivered[t][i]
      BY <3>2, <3>3, AppendProperties
    <3>5. /\ since[t] + Len(delivered'[t]) <= Len(log)
          /\ \A i \in 1..Len(delivered'[t]) : delivered'[t][i] = log[since[t] + i]
      BY SMTT(20), <1>0, <1>l, <1>n, <3>1, <3>4 DEF WindowInv
    <3>6. \A s \in Loggers : s # t => delivered'[s] = delivered[s]
      BY <1>0, <1>n, <3>1 DEF HistTypes
    <3> QED  BY <1>0, <1>5, <2>0, <3>1, <3>5, <3>6 DEF WindowInv
  <2> QED  BY <1>5, <2>1, <2>2, WriteOne
<1>6. ASSUME NEW c \in Loggers, AddLogStream(c), ~Joined(c),
             \A s \in Loggers : Joined(s)' <=> Joined(s) \/ s = c
      PROVE WindowInv'
  <2>1. delivered' = delivered /\ log' = log /\ delivered[c] = <<>>
    BY <1>0, <1>6 DEF AddLogStream, WindowInv
  <2>2. since'[c] = Len(log) /\ \A s \in Loggers : s # c => since'[s] = since[s]
    BY <1>0, <1>6, <1>n DEF AddLogStream, HistTypes
  <2> QED  BY <1>0, <1>6, <1>l, <2>1, <2>2 DEF WindowInv
<1>7. ASSUME NEW c \in Calls, AddLogStream(c), logStreams' = logStreams
      PROVE FALSE
  <2>1. Len(logStreams) \in Nat
    BY <1>0, LenProperties DEF MuxTypes
  <2>2. Len(logStreams') = Len(logStreams) + 1
    BY <1>0, <1>7, AppendProperties DEF AddLogStream, Appended, MuxTypes
  <2> QED  BY <1>7, <2>1, <2>2
<1> QED  BY <1>2, <1>3, <1>4, <1>5, <1>6, <1>7, <1>n, HistorySteps, JoinSteps

(* A client that has left does not come back.                              *)
LEMMA GoneForGood == TypeOK /\ [Next]_vars => \A c \in Calls : gone[c] => gone'[c]
<1> SUFFICES ASSUME TypeOK, [Next]_vars, NEW d \in Calls, gone[d]  PROVE gone'[d]
  OBVIOUS
<1>0. CallTypes
  BY TypeParts
<1>1. ASSUME NEW c \in Calls, Handler(c) \/ Ticker(c) \/ Arrive(c) \/ Read(c)
      PROVE UNCHANGED gone
  BY <1>1 DEF Handler, Admit, Deny, SendEvent, Biz, Open, OpenFails, AddLogStream, AddStat, Panic,
              Ticker, Fire, LockTicker, SendStat, WriteStat, Reset, Arrive, Read, call
<1>2. ASSUME NEW c \in Calls, Return(c) \/ Leave(c)
      PROVE gone'[d]
  BY <1>0, <1>2 DEF Return, Leave, CallTypes
<1>3. CASE Stop
  BY <1>0, <1>3 DEF Stop, CallTypes
<1>4. ASSUME (Server /\ ~Stop) \/ Cancel
      PROVE UNCHANGED gone
  BY <1>4 DEF Server, Cancel, Start, Serve, ServeReturns, Close, StopReturns, call
<1>5. CASE Mux
  BY <1>5 DEF Mux, LockAddStat, SendToStream, WriteToStream, LockStats, Count, ExitMux, call
<1>6. CASE UNCHANGED vars
  BY <1>6 DEF vars, call
<1> QED  BY <1>1, <1>2, <1>3, <1>4, <1>5, <1>6 DEF Next, Idle, Client

(* A stream that is done is not opened again.                              *)
LEMMA DoneForGood == IInv /\ [Next]_vars => \A c \in Calls : Done(c) => Done(c)'
<1> SUFFICES ASSUME IInv, [Next]_vars, NEW d \in Calls, answer[d] = "ok"  PROVE answer'[d] = "ok"
  BY GoneForGood DEF Done, IInv
<1>0. CallTypes /\ CallInv
  BY TypeParts DEF IInv
<1>1. pc[d] = "ended"
  BY <1>0 DEF CallInv
<1>2. ASSUME NEW c \in Calls, \/ Arrive(c) \/ Admit(c) \/ SendEvent(c) \/ Open(c)
                             \/ AddLogStream(c) \/ AddStat(c)
      PROVE  answer' = answer
  BY <1>2 DEF Arrive, Admit, SendEvent, Open, AddLogStream, AddStat, call
<1>3. ASSUME NEW c \in Calls, Deny(c) \/ Biz(c) \/ OpenFails(c) \/ Return(c)
      PROVE  answer'[d] = answer[d]
  BY <1>0, <1>1, <1>3 DEF Deny, Biz, OpenFails, Return, Goto, CallTypes
<1> QED  BY <1>2, <1>3, CallSteps

(* Only these actions write what the multiplexer is doing.                 *)
LEMMA MuxSteps ==
  [Next]_vars =>
    \/ UNCHANGED muxv
    \/ Start \/ Mux
    \/ \E c \in Calls : SendEvent(c) \/ AddLogStream(c) \/ AddStat(c)
<1> SUFFICES ASSUME [Next]_vars
             PROVE \/ UNCHANGED muxv
                   \/ Start \/ Mux
                   \/ \E c \in Calls : SendEvent(c) \/ AddLogStream(c) \/ AddStat(c)
  OBVIOUS
<1>1. ASSUME NEW c \in Calls, Handler(c) \/ Return(c) \/ Ticker(c) \/ Client(c),
             ~SendEvent(c), ~AddLogStream(c), ~AddStat(c)
      PROVE UNCHANGED muxv
  BY <1>1 DEF Handler, Admit, Deny, Biz, Open, OpenFails, Panic, Return,
              Ticker, Fire, LockTicker, SendStat, WriteStat, Reset, Client, Arrive, Read, Leave
<1>2. ASSUME (Server /\ ~Start) \/ Cancel
      PROVE UNCHANGED muxv
  BY <1>2 DEF Server, Cancel, Serve, ServeReturns, Close, Stop, StopReturns
<1>3. CASE UNCHANGED vars
  BY <1>3 DEF vars
<1> QED  BY <1>1, <1>2, <1>3 DEF Next, Idle

(* The multiplexer keeps what it owes to the streams.                      *)
LEMMA StepKeepsProgress == IInv /\ [Next]_vars => ProgressInv'
<1> SUFFICES ASSUME IInv, [Next]_vars PROVE ProgressInv'
  OBVIOUS
<1>0. MuxTypes /\ HistTypes /\ StreamInv /\ WindowInv /\ ProgressInv /\ MutexInv
  BY TypeParts DEF IInv
<1>l. /\ Len(log) \in Nat /\ Len(logStreams) \in Nat /\ idx \in 1..(Len(logStreams) + 1)
      /\ \A s \in Calls : since[s] \in Nat /\ Len(delivered[s]) \in Nat
  BY <1>0, LenProperties DEF HistTypes, MuxTypes
<1>s. /\ \A i \in 1..Len(logStreams) :
            logStreams[i] \in Loggers /\ logStreams[i] \in Calls /\ Joined(logStreams[i])
      /\ \A c \in Calls : Done(c) => Done(c)'
  BY <1>0, DoneForGood DEF StreamInv, Loggers
<1>f. ASSUME logStreams' = logStreams, NEW i \in 1..Len(logStreams), ~Done(logStreams[i])'
      PROVE ~Done(logStreams[i])
  BY <1>s, <1>f DEF Done
(* steps after which the same events are due to the same streams           *)
<1>1. ASSUME UNCHANGED <<log, since, delivered, logStreams>>,
             mux' \in {"send", "write", "count"} =>
               mux \in {"send", "write", "count"} /\ event' = event,
             mux' = "write" => idx' <= Len(logStreams),
             \A i \in 1..Len(logStreams) :
               ~Done(logStreams[i])' =>
                 ((mux' \in {"send", "write"} /\ i >= idx')
                    <=> (mux \in {"send", "write"} /\ i >= idx))
      PROVE ProgressInv'
  <2>1. (mux \in {"send", "write", "count"} => Len(log) > 0 /\ event = log[Len(log)])'
    BY <1>0, <1>1 DEF ProgressInv
  <2>2. ASSUME NEW i \in 1..Len(logStreams), ~Done(logStreams[i])'
        PROVE since[logStreams[i]] + Len(delivered[logStreams[i]])
                = IF mux' \in {"send", "write"} /\ i >= idx' THEN Len(log) - 1 ELSE Len(log)
    BY <1>0, <1>1, <1>s, <2>2 DEF ProgressInv
  <2> QED  BY <1>1, <2>1, <2>2 DEF ProgressInv
<1>2. CASE UNCHANGED muxv /\ UNCHANGED hist
  BY <1>0, <1>1, <1>2 DEF muxv, hist, ProgressInv
<1>3. CASE Start
  BY <1>0, <1>1, <1>3 DEF Start, hist, MutexInv
<1>4. CASE LockStats
  <2>1. \A i \in 1..Len(logStreams) : ~(i >= idx)
    BY <1>4, <1>l DEF LockStats
  <2> QED  BY <1>1, <1>4, <2>1 DEF LockStats, hist
<1>5. CASE Count \/ ExitMux
  BY <1>1, <1>5 DEF Count, ExitMux, hist
<1>6. ASSUME NEW c \in Calls, AddStat(c) PROVE ProgressInv'
  BY <1>1, <1>6 DEF AddStat, hist
<1>7. CASE LockAddStat
  <2>1. event \in Calls \ Loggers
    BY <1>7 DEF LockAddStat, IInv, TickerInv, Loggers
  <2>2. mux = "addStat" /\ mux' = "select" /\ UNCHANGED <<event, idx, logStreams, log, delivered>>
    BY <1>7 DEF LockAddStat
  <2>3. \A i \in 1..Len(logStreams) : since'[logStreams[i]] = since[logStreams[i]]
    BY <1>0, <1>7, <1>s, <2>1 DEF LockAddStat, HistTypes
  <2> QED  BY <1>0, <1>s, <2>2, <2>3 DEF ProgressInv
<1>8. CASE WriteToStream
  <2> DEFINE t == logStreams[idx]
  <2>0. /\ mux = "write" /\ mux' = "send" /\ idx' = idx + 1
        /\ UNCHANGED <<event, log, since, logStreams>>
    BY <1>8 DEF WriteToStream
  <2>1. idx \in 1..Len(logStreams) /\ t \in Loggers
    BY <1>8, WriteOne
  <2>2. \A i \in 1..Len(logStreams) : i # idx =>
          logStreams[i] # t /\ delivered'[logStreams[i]] = delivered[logStreams[i]]
    <3>1. \A i \in 1..Len(logStreams) : i # idx => logStreams[i] # t
      BY <1>0, <2>1 DEF StreamInv
    <3> QED  BY <1>0, <1>8, <1>s, <3>1, WriteOne DEF HistTypes
  <2>3. ~Done(t) => since[t] + Len(delivered'[t]) = Len(log)
    <3> SUFFICES ASSUME ~Done(t) PROVE since[t] + Len(delivered'[t]) = Len(log)
      OBVIOUS
    <3>1. /\ since[t] + Len(delivered[t]) = Len(log) - 1
          /\ delivered' = [delivered EXCEPT ![t] = Append(@, event)]
          /\ event = log[Len(log)] /\ Len(log) > 0
      BY <1>8, WriteOne
    <3>2. event \in Calls
      BY <1>0, <1>l, <3>1, ElementOfSeq DEF HistTypes
    <3>3. t \in Calls /\ Len(delivered'[t]) = Len(delivered[t]) + 1
      BY <1>0, <1>s, <2>1, <3>1, <3>2, AppendProperties DEF HistTypes
    <3> QED  BY SMTT(20), <1>l, <3>1, <3>3
  <2>4. ASSUME NEW i \in 1..Len(logStreams), ~Done(logStreams[i])'
        PROVE since[logStreams[i]] + Len(delivered'[logStreams[i]])
                = IF i >= idx + 1 THEN Len(log) - 1 ELSE Len(log)
    <3>1. CASE i = idx
      BY <1>f, <1>l, <2>0, <2>3, <2>4, <3>1
    <3>2. CASE i # idx
      <4>1. (i >= idx + 1) <=> (i >= idx)
        BY <1>l, <3>2
      <4> QED  BY <1>0, <1>s, <2>0, <2>2, <2>4, <3>2, <4>1 DEF ProgressInv
    <3> QED  BY <3>1, <3>2
  <2> QED  BY <1>0, <2>0, <2>4 DEF ProgressInv
<1>9. ASSUME NEW c \in Calls, SendEvent(c) PROVE ProgressInv'
  <2>1. /\ mux = "select" /\ mux' = "send" /\ event' = c /\ idx' = 1
        /\ UNCHANGED <<since, delivered, logStreams>>
    BY <1>9 DEF SendEvent
  <2>2. Len(log') = Len(log) + 1 /\ log'[Len(log')] = c
    BY <1>0, <1>9, LogAppend DEF SendEvent, HistTypes
  <2>3. ASSUME NEW i \in 1..Len(logStreams), ~Done(logStreams[i])'
        PROVE since[logStreams[i]] + Len(delivered[logStreams[i]]) = Len(log') - 1 /\ i >= 1
    BY <1>0, <1>l, <1>s, <2>1, <2>2, <2>3 DEF ProgressInv
  <2> QED  BY <1>l, <2>1, <2>2, <2>3 DEF ProgressInv
<1>10. ASSUME NEW c \in Loggers, AddLogStream(c), ~Joined(c) PROVE ProgressInv'
  <2>0. /\ c \in Calls /\ mux = "select" /\ mux' = "select"
        /\ UNCHANGED <<log, delivered>>
    BY <1>10 DEF AddLogStream, Loggers
  <2>1. /\ Len(logStreams') = Len(logStreams) + 1
        /\ logStreams'[Len(logStreams) + 1] = c
        /\ \A i \in 1..Len(logStreams) : logStreams'[i] = logStreams[i]
    BY <1>0, <1>10, <2>0, AppendProperties DEF AddLogStream, Appended, MuxTypes
  <2>2. since'[c] = Len(log) /\ \A s \in Calls : s # c => since'[s] = since[s]
    BY <1>0, <1>10, <2>0 DEF AddLogStream, HistTypes
  <2>3. Len(delivered[c]) = 0
    BY <1>0, <1>10 DEF WindowInv
  <2>4. ASSUME NEW i \in 1..Len(logStreams'), ~Done(logStreams[i])'
        PROVE since'[logStreams'[i]] + Len(delivered[logStreams'[i]]) = Len(log)
    <3>1. CASE i \in 1..Len(logStreams)
      BY <1>0, <1>10, <1>s, <2>0, <2>1, <2>2, <2>4, <3>1 DEF ProgressInv
    <3>2. CASE i = Len(logStreams) + 1
      BY <1>l, <2>1, <2>2, <2>3, <3>2
    <3> QED  BY <1>l, <2>1, <3>1, <3>2
  <2> QED  BY <2>0, <2>4 DEF ProgressInv
<1>11. ASSUME NEW c \in Calls, AddLogStream(c) PROVE c \in Loggers /\ ~Joined(c)
  <2>1. CallTypes /\ CallInv
    BY TypeParts DEF IInv
  <2> QED  BY <1>11, <2>1 DEF AddLogStream, CallTypes, CallInv, Loggers, Joined, Goto
<1>12. CASE SendToStream
  <2>1. /\ mux = "send" /\ mux' \in {"send", "write"} /\ idx <= Len(logStreams)
        /\ UNCHANGED <<event, log, since, delivered, logStreams>>
        /\ \/ mux' = "send" /\ idx' = idx + 1 /\ Done(logStreams[idx])
           \/ mux' = "write" /\ idx' = idx
    BY <1>12 DEF SendToStream, SendFails, hist
  <2>2. ASSUME NEW i \in 1..Len(logStreams), ~Done(logStreams[i])'
        PROVE  i >= idx' <=> i >= idx
    <3>1. idx' = idx + 1 => i # idx
      BY <1>s, <2>1, <2>2
    <3> QED  BY <1>l, <2>1, <3>1
  <2> QED  BY <1>1, <2>1, <2>2
<1>13. CASE Mux
  BY <1>4, <1>5, <1>7, <1>8, <1>12, <1>13 DEF Mux
<1> QED  BY <1>2, <1>3, <1>6, <1>7, <1>8, <1>9, <1>10, <1>11, <1>13, MuxSteps, HistorySteps

-----------------------------------------------------------------------------
(* The tickers, and the counts they share with the multiplexer.            *)

(* Only these actions write the counts or take and release their mutex.    *)
LEMMA CountSteps ==
  [Next]_vars =>
    \/ UNCHANGED counts
    \/ LockAddStat \/ LockStats \/ Count
    \/ \E c \in Calls : Ticker(c)
<1> SUFFICES ASSUME [Next]_vars
             PROVE \/ UNCHANGED counts
                   \/ LockAddStat \/ LockStats \/ Count
                   \/ \E c \in Calls : Ticker(c)
  OBVIOUS
<1>1. ASSUME NEW c \in Calls, Handler(c) \/ Return(c) \/ Client(c)
      PROVE UNCHANGED counts
  BY <1>1 DEF Handler, Admit, Deny, SendEvent, Biz, Open, OpenFails, AddLogStream, AddStat, Panic,
              Return, Client, Arrive, Read, Leave
<1>2. CASE Server \/ Cancel
  BY <1>2 DEF Server, Cancel, Start, Serve, ServeReturns, Close, Stop, StopReturns
<1>3. CASE SendToStream \/ WriteToStream \/ ExitMux
  BY <1>3 DEF SendToStream, WriteToStream, ExitMux
<1>4. CASE UNCHANGED vars
  BY <1>4 DEF vars
<1> QED  BY <1>1, <1>2, <1>3, <1>4 DEF Next, Idle, Mux

(* The multiplexer starts once, and a running one only stops or counts.    *)
LEMMA MuxPlace ==
  IInv /\ [Next]_vars =>
    /\ service' = "new" => service = "new" /\ mux' = mux
    /\ mux' # mux => Start \/ Mux \/ \E c \in Calls : SendEvent(c) \/ AddStat(c)
<1> SUFFICES ASSUME IInv, [Next]_vars
             PROVE /\ service' = "new" => service = "new" /\ mux' = mux
                   /\ mux' # mux => Start \/ Mux \/ \E c \in Calls : SendEvent(c) \/ AddStat(c)
  OBVIOUS
<1>0. MutexInv
  BY DEF IInv
<1>1. mux' # mux => Start \/ Mux \/ \E c \in Calls : SendEvent(c) \/ AddStat(c)
  BY MuxSteps DEF muxv, AddLogStream
<1>2. service' = service \/ Start
  <2>1. ASSUME NEW c \in Calls, Handler(c) \/ Return(c) \/ Client(c) \/ Ticker(c)
        PROVE UNCHANGED service
    BY <2>1 DEF Handler, Admit, Deny, SendEvent, Biz, Open, OpenFails, AddLogStream, AddStat, Panic,
                Return, Client, Arrive, Read, Leave, Ticker, Fire, LockTicker, SendStat, WriteStat, Reset, life
  <2>2. ASSUME (Server /\ ~Start) \/ Cancel
        PROVE UNCHANGED service
    BY <2>2 DEF Server, Cancel, Serve, ServeReturns, Close, Stop, StopReturns
  <2>3. CASE Mux
    BY <2>3 DEF Mux, LockAddStat, SendToStream, WriteToStream, LockStats, Count, ExitMux, life
  <2>4. CASE UNCHANGED vars
    BY <2>4 DEF vars, life
  <2> QED  BY <2>1, <2>2, <2>3, <2>4 DEF Next, Idle
<1>3. Mux => mux # "none"
  BY DEF Mux, LockAddStat, SendToStream, WriteToStream, LockStats, Count, ExitMux
<1>4. \A c \in Calls : SendEvent(c) \/ AddStat(c) => mux # "none"
  BY DEF SendEvent, AddStat
<1>5. Start => service' # "new"
  BY DEF Start
<1> QED  BY <1>0, <1>1, <1>2, <1>3, <1>4, <1>5 DEF MutexInv

(* statsMu has one holder, who counts, or sends and resets.                *)
LEMMA StepKeepsMutex == IInv /\ [Next]_vars => MutexInv'
<1> SUFFICES ASSUME IInv, [Next]_vars PROVE MutexInv'
  OBVIOUS
<1> USE ConstantTypes
<1>0. CountTypes /\ MutexInv
  BY TypeParts DEF IInv
<1>1. (service = "new" => mux = "none")'
  BY <1>0, MuxPlace DEF MutexInv
<1>2. CASE UNCHANGED counts
  <2>1. (mux' = "count") <=> (mux = "count")
    <3>1. Start => mux = "none" /\ mux' # "count"
      BY <1>0 DEF Start, MutexInv
    <3>2. Mux /\ ~LockStats /\ ~Count => mux # "count" /\ mux' # "count"
      BY DEF Mux, LockAddStat, SendToStream, WriteToStream, ExitMux
    <3>3. ~LockStats /\ ~Count
      BY <1>0, <1>2 DEF LockStats, Count, Lock, counts, MutexInv
    <3>4. \A c \in Calls : SendEvent(c) \/ AddStat(c) => mux # "count" /\ mux' # "count"
      BY DEF SendEvent, AddStat
    <3> QED  BY <3>1, <3>2, <3>3, <3>4, MuxPlace
  <2> QED  BY <1>0, <1>1, <1>2, <2>1 DEF MutexInv, counts
<1>3. CASE LockAddStat
  <2>1. statsMu' = statsMu /\ mux # "count" /\ mux' # "count"
    BY <1>3 DEF LockAddStat
  <2>2. \A c \in Calls : ticker[c] \in {"send", "write", "reset"} <=> ticker'[c] \in {"send", "write", "reset"}
    BY <1>0, <1>3 DEF LockAddStat, Tick, CountTypes
  <2> QED  BY <1>0, <1>1, <2>1, <2>2 DEF MutexInv
<1>4. CASE LockStats
  BY <1>0, <1>1, <1>4 DEF LockStats, Lock, MutexInv
<1>5. CASE Count
  BY <1>0, <1>1, <1>5 DEF Count, MutexInv
<1>6. ASSUME NEW c \in Calls, Ticker(c) PROVE MutexInv'
  <2>1. mux' = mux
    BY <1>6 DEF Ticker, Fire, LockTicker, SendStat, WriteStat, Reset, muxv
  <2>2. CASE Fire(c)
    BY <1>0, <1>1, <2>1, <2>2 DEF Fire, Tick, MutexInv, CountTypes
  <2>3. CASE LockTicker(c)
    BY <1>0, <1>1, <2>1, <2>3 DEF LockTicker, Lock, Tick, MutexInv, CountTypes
  <2>4. CASE SendStat(c)
    BY <1>0, <1>1, <2>1, <2>4 DEF SendStat, Tick, MutexInv, CountTypes
  <2>5. CASE Reset(c)
    BY <1>0, <1>1, <2>1, <2>5 DEF Reset, Tick, MutexInv, CountTypes
  <2>6. CASE WriteStat(c)
    BY <1>0, <1>1, <2>1, <2>6 DEF WriteStat, Tick, MutexInv, CountTypes
  <2> QED  BY <1>6, <2>2, <2>3, <2>4, <2>5, <2>6 DEF Ticker
<1> QED  BY <1>2, <1>3, <1>4, <1>5, <1>6, CountSteps

(* What is dispatched stays as it is, and grows by an event when the       *)
(* multiplexer has counted it.                                             *)
LEMMA DispatchSteps ==
  IInv /\ [Next]_vars =>
    /\ Dispatched \in Nat /\ Dispatched <= Len(log)
    /\ \A i \in 1..Len(log) : log'[i] = log[i]
    /\ ~Count => Dispatched' = Dispatched
    /\ Count => /\ Dispatched' = Dispatched + 1 /\ Len(log) = Dispatched + 1 /\ log' = log
                /\ event = log[Len(log)]
<1> SUFFICES ASSUME IInv, [Next]_vars
             PROVE /\ Dispatched \in Nat /\ Dispatched <= Len(log)
                   /\ \A i \in 1..Len(log) : log'[i] = log[i]
                   /\ ~Count => Dispatched' = Dispatched
                   /\ Count => /\ Dispatched' = Dispatched + 1 /\ Len(log) = Dispatched + 1
                               /\ log' = log /\ event = log[Len(log)]
  OBVIOUS
<1>0. HistTypes /\ ProgressInv /\ MutexInv /\ Len(log) \in Nat
  BY TypeParts, LenProperties DEF IInv, HistTypes
<1>1. Dispatched \in Nat /\ Dispatched <= Len(log)
  BY <1>0 DEF Dispatched, ProgressInv
<1>2. ASSUME NEW c \in Calls, SendEvent(c)
      PROVE Dispatched' = Dispatched /\ \A i \in 1..Len(log) : log'[i] = log[i]
  <2>1. mux = "select" /\ mux' = "send"
    BY <1>2 DEF SendEvent
  <2>2. Len(log') = Len(log) + 1 /\ \A i \in 1..Len(log) : log'[i] = log[i]
    BY <1>0, <1>2, LogAppend DEF SendEvent, HistTypes
  <2> QED  BY <1>0, <2>1, <2>2 DEF Dispatched
<1>3. CASE \A c \in Calls : ~SendEvent(c)
  <2>1. log' = log
    BY <1>3, HistorySteps DEF hist, WriteToStream, LockAddStat, AddLogStream
  <2>2. CASE Count
    BY <1>0, <1>1, <2>1, <2>2 DEF Count, Dispatched, ProgressInv
  <2>3. ASSUME ~Count PROVE Dispatched' = Dispatched
    <3>1. mux' \in {"send", "write", "count"} <=> mux \in {"send", "write", "count"}
      <4>1. Start => mux = "none" /\ mux' \notin {"send", "write", "count"}
        BY <1>0 DEF Start, MutexInv
      <4>2. Mux => (mux' \in {"send", "write", "count"} <=> mux \in {"send", "write", "count"})
        BY <2>3 DEF Mux, LockAddStat, SendToStream, WriteToStream, LockStats, ExitMux
      <4>3. \A c \in Calls : AddStat(c) => mux = "select" /\ mux' = "addStat"
        BY DEF AddStat
      <4> QED  BY <1>3, <4>1, <4>2, <4>3, MuxPlace
    <3> QED  BY <2>1, <3>1 DEF Dispatched
  <2> QED  BY <1>1, <2>1, <2>2, <2>3
<1>4. ASSUME NEW c \in Calls, SendEvent(c) PROVE ~Count
  BY <1>4 DEF SendEvent, Count
<1> QED  BY <1>1, <1>2, <1>3, <1>4

(* The streams of the Statistics calls begin when they are added.          *)
LEMMA SinceSteps ==
  IInv /\ [Next]_vars =>
    \A c \in Calls : ticker[c] # "none" => since'[c] = since[c]
<1> SUFFICES ASSUME IInv, [Next]_vars, NEW c \in Calls, ticker[c] # "none"
             PROVE since'[c] = since[c]
  OBVIOUS
<1>0. HistTypes /\ TickerInv
  BY TypeParts DEF IInv
<1>1. CASE UNCHANGED hist \/ WriteToStream
  BY <1>1 DEF hist, WriteToStream
<1>2. CASE LockAddStat
  BY <1>0, <1>2 DEF LockAddStat, Tick, HistTypes, TickerInv
<1>3. ASSUME NEW d \in Calls, SendEvent(d) \/ AddLogStream(d)
      PROVE since'[c] = since[c]
  BY <1>0, <1>3 DEF SendEvent, AddLogStream, HistTypes, TickerInv
<1> QED  BY <1>1, <1>2, <1>3, HistorySteps

(* There is a ticker for each Stat, and its counts begin at nothing.       *)
LEMMA StepKeepsTickers == IInv /\ [Next]_vars => TickerInv'
<1> SUFFICES ASSUME IInv, [Next]_vars PROVE TickerInv'
  OBVIOUS
<1> USE ConstantTypes
<1>0. CountTypes /\ MuxTypes /\ HistTypes /\ TickerInv /\ MutexInv
  BY TypeParts DEF IInv
<1>s. \A c \in Calls : since[c] \in Nat
  BY <1>0 DEF HistTypes
<1>d. Dispatched \in Nat /\ Dispatched' \in Nat /\ Dispatched <= Dispatched'
  BY DispatchSteps
<1>a. (mux = "addStat" => event \in Calls /\ Kind(event) = "stats")'
  <2>1. ASSUME NEW c \in Calls, AddStat(c)
        PROVE event' \in Calls /\ Kind(event)' = "stats"
    BY <2>1 DEF AddStat, Kind
  <2>2. UNCHANGED muxv => mux' = mux /\ event' = event
    BY DEF muxv
  <2>3. ASSUME NEW c \in Calls, AddLogStream(c) \/ SendEvent(c)
        PROVE mux' # "addStat"
    BY <2>3 DEF AddLogStream, SendEvent
  <2>4. Start \/ Mux => mux' # "addStat"
    BY <1>0 DEF Start, Mux, LockAddStat, SendToStream, WriteToStream, LockStats, Count, ExitMux, MutexInv
  <2> QED  BY <1>0, <2>1, <2>2, <2>3, <2>4, MuxSteps DEF TickerInv, Kind
<1>k. stats' = stats \/ LockAddStat
  <2>1. UNCHANGED muxv \/ Start => stats' = stats
    BY DEF muxv, Start
  <2>2. Mux /\ ~LockAddStat => stats' = stats
    BY DEF Mux, SendToStream, WriteToStream, LockStats, Count, ExitMux
  <2>3. \A c \in Calls : SendEvent(c) \/ AddLogStream(c) \/ AddStat(c) => stats' = stats
    BY DEF SendEvent, AddLogStream, AddStat
  <2> QED  BY <2>1, <2>2, <2>3, MuxSteps
(* steps after which the same tickers run, and the idle ones have no counts *)
<1>1. ASSUME stats' = stats,
             \A c \in Calls : ticker[c] = "none" <=> ticker'[c] = "none",
             \A c \in Calls : ticker[c] = "none" =>
                                tally'[c] = tally[c] /\ reported'[c] = reported[c]
      PROVE TickerInv'
  <2>1. \A c \in Calls : Counted(c)' <=> Counted(c)
    BY <1>1 DEF Counted
  <2>2. \A c \in Calls : ticker'[c] # "none" => Kind(c) = "stats" /\ since'[c] <= Dispatched'
    BY <1>0, <1>1, <1>s, <1>d, SinceSteps DEF TickerInv
  <2> QED  BY <1>0, <1>1, <1>a, <2>1, <2>2 DEF TickerInv, Kind
<1>2. CASE UNCHANGED counts /\ ~LockAddStat
  BY <1>1, <1>2, <1>k DEF counts
<1>3. CASE LockStats
  BY <1>1, <1>3 DEF LockStats
<1>4. CASE Count
  <2>1. \A c \in Calls : (\E i \in DOMAIN stats : stats[i] = c) <=> Counted(c)
    BY <1>0, LenProperties DEF MuxTypes, Counted
  <2>2. \A c \in Calls : ticker[c] = "none" => tally'[c] = tally[c]
    BY <1>0, <1>4, <2>1 DEF Count, TickerInv
  <2> QED  BY <1>1, <1>4, <2>2 DEF Count
<1>5. ASSUME NEW c \in Calls, Ticker(c) PROVE TickerInv'
  <2>1. UNCHANGED muxv
    BY <1>5 DEF Ticker, Fire, LockTicker, SendStat, WriteStat, Reset
  <2>2. \A d \in Calls : ticker[d] = "none" <=> ticker'[d] = "none"
    BY <1>0, <1>5 DEF Ticker, Fire, LockTicker, SendStat, WriteStat, Reset, Tick, CountTypes
  <2>3. \A d \in Calls : ticker[d] = "none" =>
                           tally'[d] = tally[d] /\ reported'[d] = reported[d]
    BY <1>0, <1>5 DEF Ticker, Fire, LockTicker, SendStat, WriteStat, Reset, Tick, CountTypes
  <2> QED  BY <1>1, <2>1, <2>2, <2>3 DEF muxv
<1>6. CASE LockAddStat
  <2>1. /\ mux = "addStat" /\ mux' = "select" /\ event \in Calls /\ Kind(event) = "stats"
        /\ stats' = Append(stats, event)
        /\ ticker[event] = "none" /\ ticker' = [ticker EXCEPT ![event] = "timer"]
        /\ since' = [since EXCEPT ![event] = Len(log)]
        /\ tally' = tally /\ reported' = reported /\ log' = log
    BY <1>0, <1>6 DEF LockAddStat, Tick, TickerInv
  <2>2. \A c \in Calls : Counted(c)' <=> Counted(c) \/ c = event
    <3>1. /\ Len(stats) \in Nat /\ Len(stats') = Len(stats) + 1
          /\ stats'[Len(stats) + 1] = event
          /\ \A i \in 1..Len(stats) : stats'[i] = stats[i]
      BY <1>0, <2>1, AppendProperties, LenProperties DEF MuxTypes
    <3> QED  BY <3>1 DEF Counted
  <2>3. \A c \in Calls : ticker'[c] # "none" <=> (ticker[c] # "none" \/ c = event)
    BY <1>0, <2>1 DEF CountTypes
  <2>4. since'[event] = Len(log) /\ Dispatched' = Len(log)
    BY <1>0, <2>1 DEF HistTypes, Dispatched
  <2>5. \A c \in Calls : ticker'[c] # "none" => Kind(c) = "stats" /\ since'[c] <= Dispatched'
    BY <1>0, <1>s, <1>d, <2>1, <2>3, <2>4, SinceSteps DEF TickerInv
  <2> QED  BY <1>0, <1>a, <2>1, <2>2, <2>3, <2>5 DEF TickerInv, Kind
<1> QED  BY <1>2, <1>3, <1>4, <1>5, <1>6, CountSteps

(* The events a ticker has to account for under a key.                     *)
Due(c, k) == {i \in (since[c] + 1)..Dispatched : k \in KeysOf(log[i])}

(* They change only when the multiplexer has counted an event.             *)
LEMMA DueSteps ==
  ASSUME IInv, [Next]_vars, NEW c \in Calls, ticker[c] # "none", NEW k \in Keys
  PROVE  /\ ~Count => Due(c, k)' = Due(c, k)
         /\ Count => Cardinality(Due(c, k)')
                       = Cardinality(Due(c, k)) + IF k \in KeysOf(event) THEN 1 ELSE 0
<1>0. /\ HistTypes /\ TickerInv
      /\ since[c] \in Nat /\ since'[c] = since[c] /\ since[c] <= Dispatched
  BY TypeParts, SinceSteps DEF IInv, HistTypes, TickerInv
<1>1. /\ Dispatched \in Nat /\ Dispatched <= Len(log)
      /\ \A i \in 1..Len(log) : log'[i] = log[i]
      /\ Len(log) \in Nat
  BY <1>0, DispatchSteps, LenProperties DEF HistTypes
<1>2. \A i \in (since[c] + 1)..Dispatched : log'[i] = log[i]
  BY <1>0, <1>1
<1>3. ASSUME ~Count PROVE Due(c, k)' = Due(c, k)
  <2>1. Dispatched' = Dispatched
    BY <1>3, DispatchSteps
  <2>2. Due(c, k)' = {i \in (since[c] + 1)..Dispatched : k \in KeysOf(log'[i])}
    BY <1>0, <2>1 DEF Due, KeysOf
  <2> QED  BY <1>2, <2>2 DEF Due
<1>4. ASSUME Count
      PROVE Cardinality(Due(c, k)') = Cardinality(Due(c, k)) + IF k \in KeysOf(event) THEN 1 ELSE 0
  <2>1. Dispatched' = Dispatched + 1 /\ log' = log /\ event = log[Dispatched + 1]
    BY <1>4, DispatchSteps
  <2>2. Due(c, k)' = Due(c, k) \cup (IF k \in KeysOf(event) THEN {Dispatched + 1} ELSE {})
    <3>1. Due(c, k)' = {i \in (since[c] + 1)..(Dispatched + 1) : k \in KeysOf(log[i])}
      BY <1>0, <2>1 DEF Due, KeysOf
    <3>2. (since[c] + 1)..(Dispatched + 1) = ((since[c] + 1)..Dispatched) \cup {Dispatched + 1}
      BY <1>0, <1>1
    <3> QED  BY <2>1, <3>1, <3>2 DEF Due
  <2>3. IsFiniteSet(Due(c, k))
    <3>1. IsFiniteSet((since[c] + 1)..Dispatched)
      <4>1. since[c] + 1 \in Int /\ Dispatched \in Int
        BY <1>0, <1>1
      <4> QED  BY <4>1, FS_Interval
    <3> QED  BY <3>1, FS_Subset DEF Due
  <2>4. Dispatched + 1 \notin Due(c, k)
    BY <1>0, <1>1 DEF Due
  <2>5. CASE k \in KeysOf(event)
    BY <2>2, <2>3, <2>4, <2>5, FS_AddElement
  <2>6. CASE k \notin KeysOf(event)
    <3>1. Cardinality(Due(c, k)) \in Nat
      BY <2>3, FS_CardinalityType
    <3> QED  BY <2>2, <2>6, <3>1
  <2> QED  BY <2>5, <2>6
<1> QED  BY <1>3, <1>4

(* What a client was told of a key, and what is counted for its next report. *)
Told(c, k) == reported[c][k] + (IF ticker[c] = "reset" THEN 0 ELSE tally[c][k])

(* Counting, reporting and resetting lose nothing.                         *)
LEMMA StepKeepsStats == IInv /\ [Next]_vars => StatsConserved'
<1> SUFFICES ASSUME IInv, [Next]_vars,
                    NEW c \in Calls, ticker'[c] # "none", ~Done(c)', NEW k \in Keys
             PROVE Told(c, k)' = Cardinality(Due(c, k)')
  BY DEF StatsConserved, Told, Due
<1> USE ConstantTypes
<1>0. /\ CallTypes /\ CountTypes /\ MuxTypes /\ HistTypes /\ TickerInv /\ MutexInv
      /\ ~Done(c)
  BY TypeParts, DoneForGood DEF IInv
<1>n. \A d \in Calls : tally[d][k] \in Nat /\ reported[d][k] \in Nat
  BY <1>0 DEF CountTypes
<1>1. ASSUME ticker[c] # "none" PROVE Told(c, k) = Cardinality(Due(c, k))
  BY <1>0, <1>1 DEF IInv, StatsConserved, Told, Due
<1>2. ASSUME ticker[c] # "none", ~Count, Told(c, k)' = Told(c, k)
      PROVE Told(c, k)' = Cardinality(Due(c, k)')
  BY <1>1, <1>2, DueSteps
<1>3. CASE UNCHANGED counts /\ ~Count /\ ~LockAddStat
  BY <1>2, <1>3 DEF counts, Told
<1>4. CASE LockStats
  <2>1. ~Count /\ UNCHANGED <<ticker, tally, reported>>
    BY <1>4 DEF LockStats, Count
  <2> QED  BY <1>2, <2>1 DEF Told
<1>5. CASE LockAddStat
  <2>1. /\ ~Count /\ event \in Calls /\ ticker[event] = "none"
        /\ ticker' = [ticker EXCEPT ![event] = "timer"]
        /\ tally' = tally /\ reported' = reported /\ mux' = "select" /\ log' = log
        /\ since' = [since EXCEPT ![event] = Len(log)]
    BY <1>0, <1>5 DEF LockAddStat, Tick, TickerInv, Count
  <2>2. CASE c = event
    <3>1. Told(c, k)' = 0
      <4>1. tally[c] = Zero /\ reported[c] = Zero /\ ticker'[c] = "timer"
        BY <1>0, <2>1, <2>2 DEF TickerInv, CountTypes
      <4>2. Zero[k] = 0
        BY DEF Zero
      <4> QED  BY <2>1, <4>1, <4>2 DEF Told
    <3>2. since'[c] = Len(log) /\ Dispatched' = Len(log) /\ Len(log) \in Nat
      BY <1>0, <2>1, <2>2, LenProperties DEF HistTypes, Dispatched
    <3>3. Due(c, k)' = {}
      BY <3>2 DEF Due
    <3> QED  BY <3>1, <3>3, FS_EmptySet
  <2>3. CASE c # event
    <3>1. ticker'[c] = ticker[c]
      BY <1>0, <2>1, <2>3 DEF CountTypes
    <3> QED  BY <1>2, <2>1, <3>1 DEF Told
  <2> QED  BY <2>2, <2>3
<1>6. CASE Count
  <2>1. ticker' = ticker /\ reported' = reported
    BY <1>6 DEF Count
  <2>2. ticker[c] # "reset" /\ Counted(c)
    BY <1>0, <1>6, <2>1 DEF Count, MutexInv, TickerInv
  <2>3. \E i \in DOMAIN stats : stats[i] = c
    BY <1>0, <2>2, LenProperties DEF Counted, MuxTypes
  <2>4. tally'[c][k] = tally[c][k] + IF k \in KeysOf(event) THEN 1 ELSE 0
    BY <1>6, <2>3 DEF Count
  <2>5. Told(c, k)' = Told(c, k) + IF k \in KeysOf(event) THEN 1 ELSE 0
    BY <1>n, <2>1, <2>2, <2>4 DEF Told
  <2> QED  BY <1>1, <1>6, <2>1, <2>5, DueSteps
<1>7. ASSUME NEW d \in Calls, Ticker(d) PROVE Told(c, k)' = Cardinality(Due(c, k)')
  <2>0. ~Count
    <3>1. mux' = mux
      BY <1>7 DEF Ticker, Fire, LockTicker, SendStat, WriteStat, Reset, muxv
    <3> QED  BY <3>1 DEF Count
  <2>1. CASE Fire(d) \/ LockTicker(d)
    <3>1. tally' = tally /\ reported' = reported
      BY <2>1 DEF Fire, LockTicker
    <3>2. ticker[c] # "none" /\ (ticker[c] = "reset" <=> ticker'[c] = "reset")
      BY <1>0, <2>1 DEF Fire, LockTicker, Tick, CountTypes
    <3> QED  BY <1>2, <2>0, <3>1, <3>2 DEF Told
  <2>2. CASE WriteStat(d)
    <3>1. ticker[d] = "write" /\ ticker' = [ticker EXCEPT ![d] = "reset"] /\ tally' = tally
      BY <2>2 DEF WriteStat, Tick
    <3>2. CASE c = d
      <4>1. reported' = [reported EXCEPT ![c] = [x \in Keys |-> @[x] + tally[c][x]]]
        BY <1>0, <2>2, <3>2 DEF WriteStat
      <4>2. reported'[c][k] = reported[c][k] + tally[c][k]
        BY <1>0, <4>1 DEF CountTypes
      <4>3. ticker'[c] = "reset"
        BY <1>0, <3>1, <3>2 DEF CountTypes
      <4> QED  BY <1>2, <1>n, <2>0, <3>1, <3>2, <4>2, <4>3 DEF Told
    <3>3. CASE c # d
      <4>1. ticker'[c] = ticker[c] /\ reported'[c] = reported[c]
        BY <1>0, <2>2, <3>1, <3>3 DEF WriteStat, CountTypes
      <4> QED  BY <1>2, <2>0, <3>1, <4>1 DEF Told
    <3> QED  BY <3>2, <3>3
  <2>3. CASE Reset(d)
    <3>1. /\ ticker[d] = "reset" /\ ticker' = [ticker EXCEPT ![d] = "timer"]
          /\ tally' = [tally EXCEPT ![d] = Zero] /\ reported' = reported
      BY <2>3 DEF Reset, Tick
    <3>2. CASE c = d
      <4>1. ticker'[c] = "timer" /\ tally'[c][k] = 0
        BY <1>0, <3>1, <3>2 DEF CountTypes, Zero
      <4> QED  BY <1>2, <1>n, <2>0, <3>1, <3>2, <4>1 DEF Told
    <3>3. CASE c # d
      <4>1. ticker'[c] = ticker[c] /\ tally'[c] = tally[c]
        BY <1>0, <3>1, <3>3 DEF CountTypes
      <4> QED  BY <1>2, <2>0, <3>1, <4>1 DEF Told
    <3> QED  BY <3>2, <3>3
  <2>4. CASE SendStat(d)
    <3>1. tally' = tally /\ reported' = reported
      BY <2>4 DEF SendStat
    <3>2. CASE c = d
      <4>1. ticker[c] = "send" /\ ticker'[c] = "write"
        BY <1>0, <2>4, <3>2 DEF SendStat, SendFails, Tick, CountTypes
      <4> QED  BY <1>2, <2>0, <3>1, <4>1 DEF Told
    <3>3. CASE c # d
      <4>1. ticker'[c] = ticker[c]
        BY <1>0, <2>4, <3>3 DEF SendStat, Tick, CountTypes
      <4> QED  BY <1>2, <2>0, <3>1, <4>1 DEF Told
    <3> QED  BY <3>2, <3>3
  <2> QED  BY <1>7, <2>1, <2>2, <2>3, <2>4 DEF Ticker
<1> QED  BY <1>3, <1>4, <1>5, <1>6, <1>7, CountSteps

-----------------------------------------------------------------------------
(* The theorems.                                                           *)

(* The invariant of all the above holds in every state of the service,     *)
(* whatever its calls, its access list and the interleaving.               *)
THEOREM Invariance == Spec => []IInv
<1>1. IInv /\ [Next]_vars => IInv'
  BY StepKeepsTypes, StepKeepsCall, StepKeepsStreams, StepKeepsWindow, StepKeepsProgress,
     StepKeepsMutex, StepKeepsTickers, StepKeepsStats DEF IInv
<1> QED  BY InitIInv, <1>1, PTL DEF Spec

(* Every variable keeps to its type; in particular no stream is ever sent  *)
(* more than Window messages that its client has not read.                 *)
THEOREM TypeCorrect == Spec => []TypeOK
<1>1. IInv => TypeOK
  BY DEF IInv
<1> QED  BY <1>1, Invariance, PTL

(* Every log stream carries the log from where it joined, without a gap,   *)
(* and an open one all that was dispatched.                                *)
THEOREM AlwaysStreamsComplete == Spec => []LogStreamsComplete
<1>1. IInv => LogStreamsComplete
  <2> SUFFICES ASSUME IInv, NEW s \in Calls, Kind(s) = "logs", Joined(s)
               PROVE /\ delivered[s] = SubSeq(log, since[s] + 1, since[s] + Len(delivered[s]))
                     /\ ~Done(s) => since[s] + Len(delivered[s]) >= Dispatched
    BY DEF LogStreamsComplete, Joined
  <2> DEFINE end == since[s] + Len(delivered[s])
  <2>0. /\ HistTypes /\ MuxTypes /\ StreamInv /\ ProgressInv /\ s \in Loggers
        /\ delivered[s] \in Seq(Calls) /\ since[s] \in Nat /\ Len(delivered[s]) \in Nat
        /\ Len(log) \in Nat
    BY TypeParts, LenProperties DEF IInv, HistTypes, Loggers
  <2>1. end <= Len(log) /\ \A i \in 1..Len(delivered[s]) : delivered[s][i] = log[since[s] + i]
    BY <2>0 DEF IInv, WindowInv
  <2>2. delivered[s] = SubSeq(log, since[s] + 1, end)
    <3> DEFINE w == SubSeq(log, since[s] + 1, end)
    <3>1. since[s] + 1 \in Int /\ end \in Int /\ \A i \in (since[s] + 1)..end : log[i] \in Calls
      <4>1. \A i \in (since[s] + 1)..end : i \in 1..Len(log)
        BY <2>0, <2>1
      <4> QED  BY <2>0, <4>1, ElementOfSeq DEF HistTypes
    <3>2. /\ w \in Seq(Calls) /\ Len(w) = Len(delivered[s])
          /\ \A i \in 1..Len(w) : w[i] = log[since[s] + i]
      <4>1. /\ w \in Seq(Calls)
            /\ Len(w) = IF since[s] + 1 <= end THEN end - (since[s] + 1) + 1 ELSE 0
            /\ \A i \in 1 .. (end - (since[s] + 1) + 1) : w[i] = log[(since[s] + 1) + i - 1]
        BY <3>1, SubSeqProperties
      <4>2. Len(w) = Len(delivered[s])
        BY <2>0, <4>1
      <4>3. ASSUME NEW i \in 1..Len(w) PROVE w[i] = log[since[s] + i]
        <5>1. i \in 1 .. (end - (since[s] + 1) + 1) /\ (since[s] + 1) + i - 1 = since[s] + i
          <6>1. Len(delivered[s]) \in Nat /\ since[s] \in Nat /\ end = since[s] + Len(delivered[s])
            BY <2>0
          <6>2. i \in 1..Len(delivered[s])
            BY <4>2
          <6> HIDE DEF end, w
          <6> QED  BY <6>1, <6>2
        <5> QED  BY <4>1, <5>1
      <4> QED  BY <4>1, <4>2, <4>3
    <3>3. \A i \in 1..Len(delivered[s]) : delivered[s][i] = w[i]
      BY <2>1, <3>2
    <3> QED  BY <2>0, <3>2, <3>3, SeqEqual
  <2>3. ~Done(s) => end >= Dispatched
    <3>1. PICK i \in 1..Len(logStreams) : logStreams[i] = s
      BY <2>0 DEF StreamInv, Sending
    <3> QED  BY <2>0, <3>1 DEF ProgressInv, Dispatched
  <2> QED  BY <2>2, <2>3
<1> QED  BY <1>1, Invariance, PTL

(* Reports and counts add up to what was dispatched, always.               *)
THEOREM AlwaysConserved == Spec => []StatsConserved
<1>1. IInv => StatsConserved
  BY DEF IInv
<1> QED  BY <1>1, Invariance, PTL

-----------------------------------------------------------------------------
(* The service implements the event bus.                                   *)

(* The calls the bus knows as published are those in the log.              *)
LEMMA PublishedIsLogged ==
  ASSUME log \in Seq(Calls), NEW c \in Calls
  PROVE  c \in Bus!Published <=> Logged(c)
<1>1. DOMAIN log = 1..Len(log)
  BY LenProperties
<1> QED  BY <1>1 DEF Bus!Published, Bus!ToSet, Logged

(* The service starts as the bus does.                                     *)
LEMMA InitBus == Init => Bus!Init
<1> SUFFICES ASSUME Init PROVE Bus!Init
  OBVIOUS
<1>1. /\ {c \in Calls : answer[c] = "unauthenticated"} = {}
      /\ {c \in Calls : Serving(c)} = {}
      /\ {s \in Loggers : Joined(s)} = {}
      /\ {s \in Loggers : Done(s)} = {}
  BY DEF Init, Serving, Joined, Loggers, Done
<1>2. /\ [s \in Loggers |-> since[s]] = [s \in Loggers |-> 0]
      /\ [s \in Loggers |-> delivered[s]] = [s \in Loggers |-> <<>>]
  BY DEF Init, Loggers
<1> QED  BY <1>1, <1>2 DEF Init, Bus!Init

(* What the bus sees of the calls: it stays as it is in all steps but those *)
(* of the interceptors and the methods.                                    *)
Seen(c)  == <<answer[c] = "unauthenticated", Serving(c), c \in Loggers /\ Joined(c)>>

(* Other steps change nothing the bus sees of the calls.                   *)
LEMMA SeenSteps ==
  IInv /\ [Next]_vars =>
    \/ \A d \in Calls : Seen(d)' = Seen(d)
    \/ \E c \in Calls : Deny(c) \/ Biz(c) \/ Open(c) \/ AddLogStream(c)
<1> SUFFICES ASSUME IInv, [Next]_vars,
                    ~ \E c \in Calls : Deny(c) \/ Biz(c) \/ Open(c) \/ AddLogStream(c)
             PROVE \A d \in Calls : Seen(d)' = Seen(d)
  OBVIOUS
<1>0. CallTypes /\ CallInv
  BY TypeParts DEF IInv
<1>1. CASE UNCHANGED <<pc, answer, log>>
  BY <1>1 DEF Seen, Serving, Joined, Loggers, Kind
<1>2. ASSUME NEW c \in Calls, Arrive(c) \/ Admit(c) \/ SendEvent(c)
      PROVE \A d \in Calls : Seen(d)' = Seen(d)
  BY <1>0, <1>2 DEF Seen, Serving, Joined, Loggers, Kind, CallTypes, Arrive, Admit, SendEvent, Goto
<1>3. ASSUME NEW c \in Calls, AddStat(c)
      PROVE \A d \in Calls : Seen(d)' = Seen(d)
  BY <1>0, <1>3 DEF Seen, Serving, Joined, Loggers, Kind, CallTypes, AddStat, Goto
<1>4. ASSUME NEW c \in Calls, OpenFails(c) \/ Return(c)
      PROVE \A d \in Calls : Seen(d)' = Seen(d)
  BY <1>0, <1>4 DEF Seen, Serving, Joined, Loggers, Kind, CallTypes, CallInv, OpenFails, Return, Goto
<1> QED  BY <1>1, <1>2, <1>3, <1>4, CallSteps

(* Every step of the service is a step of the bus, or none: who is denied  *)
(* is refused, an event received is published, a method called is served,  *)
(* a log stream taken joins, a message sent to it is delivered, and the    *)
(* context of a stream that ends leaves.                                   *)
LEMMA StepBus == IInv /\ [Next]_vars => [Bus!Next]_(Bus!vars)
<1> SUFFICES ASSUME IInv, [Next]_vars PROVE [Bus!Next]_(Bus!vars)
  OBVIOUS
<1> DEFINE refused == {c \in Calls : answer[c] = "unauthenticated"}
           served  == {c \in Calls : Serving(c)}
           joined  == {s \in Loggers : Joined(s)}
           from    == [s \in Loggers |-> since[s]]
           got     == [s \in Loggers |-> delivered[s]]
           left    == {s \in Loggers : Done(s)}
<1>0. /\ CallTypes /\ HistTypes /\ MuxTypes
      /\ CallInv /\ StreamInv /\ WindowInv /\ ProgressInv /\ TickerInv
  BY TypeParts DEF IInv
<1>n. \A s \in Loggers : s \in Calls
  BY DEF Loggers
<1>p. \A c \in Calls : c \in Bus!Published <=> Logged(c)
  BY <1>0, PublishedIsLogged DEF HistTypes
<1>s. ASSUME \A d \in Calls : Seen(d)' = Seen(d)
      PROVE UNCHANGED <<refused, served, joined>>
  <2>1. \A d \in Calls : /\ answer'[d] = "unauthenticated" <=> answer[d] = "unauthenticated"
                         /\ Serving(d)' <=> Serving(d)
                         /\ d \in Loggers => (Joined(d)' <=> Joined(d))
    BY <1>s DEF Seen, Loggers, Kind
  <2>2. refused' = refused
    BY <2>1
  <2>3. served' = served
    BY <2>1
  <2>4. joined' = joined
    BY <1>n, <2>1 DEF Loggers, Kind
  <2> QED  BY <2>2, <2>3, <2>4
<1>h. ASSUME UNCHANGED <<since, delivered>> PROVE UNCHANGED <<from, got>>
  BY <1>h DEF Loggers, Kind
<1>d. ASSUME gone' = gone, \A s \in Loggers : answer'[s] = "ok" <=> answer[s] = "ok"
      PROVE left' = left
  BY <1>d DEF Done, Loggers, Kind
<1>u. ASSUME UNCHANGED <<pc, answer>> PROVE \A d \in Calls : Seen(d)' = Seen(d)
  BY <1>u DEF Seen, Serving, Joined, Loggers, Kind
<1>1. ASSUME UNCHANGED hist, \A d \in Calls : Seen(d)' = Seen(d)
      PROVE Bus!Leave
  <2>1. UNCHANGED <<log, refused, served, joined, from, got>>
    BY <1>1, <1>h, <1>s DEF hist
  <2>2. left' \in SUBSET Loggers /\ left' = left \cup left'
    BY <1>n, DoneForGood DEF Loggers, Kind
  <2> QED  BY <2>1, <2>2 DEF Bus!Leave
<1>2. ASSUME NEW c \in Calls, Deny(c) PROVE Bus!Refuse(c)
  <2>1. UNCHANGED <<log, since, delivered, gone>>
    BY <1>2 DEF Deny, hist
  <2>2. c \notin Bus!Published
    BY <1>0, <1>2, <1>p DEF Deny, Goto, CallInv
  <2>3. refused' = refused \cup {c}
    BY <1>0, <1>2 DEF Deny, CallTypes
  <2>4. served' = served
    BY <1>0, <1>2 DEF Deny, Goto, CallTypes, CallInv, Serving
  <2>5. joined' = joined
    BY <1>0, <1>2, <1>n DEF Deny, Goto, CallTypes, CallInv, Joined, Loggers, Kind
  <2>6. left' = left
    BY <1>0, <1>2, <1>d, <1>n, <2>1 DEF Deny, Goto, CallTypes, CallInv
  <2> QED  BY <1>h, <2>1, <2>2, <2>3, <2>4, <2>5, <2>6 DEF Bus!Refuse
<1>3. ASSUME NEW c \in Calls, Biz(c) \/ Open(c) PROVE Bus!Serve(c)
  <2>1. UNCHANGED <<log, since, delivered, gone>>
    BY <1>3 DEF Biz, Open, call, hist
  <2>2. c \in Bus!Published /\ ~Serving(c)
    BY <1>0, <1>3, <1>p DEF Biz, Open, Goto, CallInv, Serving
  <2>3. refused' = refused
    BY <1>0, <1>3 DEF Biz, Open, Goto, CallTypes, CallInv
  <2>4. served' = served \cup {c}
    BY <1>0, <1>3 DEF Biz, Open, Goto, CallTypes, Serving
  <2>5. joined' = joined
    BY <1>0, <1>3, <1>n DEF Biz, Open, Goto, CallTypes, CallInv, Joined, Loggers, Kind
  <2>6. left' = left
    BY <1>0, <1>3, <1>d, <1>n, <2>1 DEF Biz, Open, Loggers, CallTypes
  <2> QED  BY <1>h, <2>1, <2>2, <2>3, <2>4, <2>5, <2>6 DEF Bus!Serve
<1>4. ASSUME NEW c \in Calls, AddLogStream(c) PROVE c \in Loggers /\ Bus!Join(c)
  <2>1. c \in Loggers /\ UNCHANGED <<log, delivered, gone>>
    BY <1>4 DEF AddLogStream, Loggers
  <2>2. c \in served /\ c \notin joined
    BY <1>0, <1>4, <2>1 DEF AddLogStream, Goto, CallInv, Serving, Joined
  <2>3. refused' = refused
    BY <1>4 DEF AddLogStream
  <2>4. served' = served
    BY <1>0, <1>4 DEF AddLogStream, Goto, CallTypes, Serving
  <2>5. joined' = joined \cup {c}
    BY <1>0, <1>4, <1>n, <2>1 DEF AddLogStream, Goto, CallTypes, Joined, Loggers, Kind
  <2>6. from' = [from EXCEPT ![c] = Len(log)]
    BY <1>0, <1>4, <1>n, <2>1 DEF AddLogStream, HistTypes, Loggers, Kind
  <2>7. got' = got
    BY <2>1 DEF Loggers, Kind
  <2>8. left' = left
    BY <1>4, <1>d, <2>1 DEF AddLogStream
  <2> QED  BY <2>1, <2>2, <2>3, <2>4, <2>5, <2>6, <2>7, <2>8 DEF Bus!Join
<1>5. ASSUME NEW c \in Calls, SendEvent(c) PROVE Bus!Publish(c)
  <2>1. log' = Append(log, c) /\ mux = "select" /\ UNCHANGED <<answer, gone, since, delivered>>
    BY <1>5 DEF SendEvent
  <2>2. c \notin Bus!Published /\ c \notin refused
    BY <1>0, <1>5, <1>p DEF SendEvent, Goto, CallInv
  <2>3. UNCHANGED <<refused, served, joined>>
    <3>1. \A d \in Calls : Seen(d)' = Seen(d)
      BY <1>0, <1>5 DEF SendEvent, Goto, CallTypes, Seen, Serving, Joined, Loggers, Kind
    <3> QED  BY <1>s, <3>1
  <2>4. ASSUME NEW s \in joined, s \notin left
        PROVE ~(from[s] + Len(got[s]) < Len(log))
    <3>1. PICK i \in 1..Len(logStreams) : logStreams[i] = s
      BY <1>0 DEF StreamInv, Sending
    <3>2. since[s] + Len(delivered[s]) = Len(log) /\ Len(log) \in Nat
      BY <1>0, <1>n, <2>1, <2>4, <3>1, LenProperties DEF ProgressInv, HistTypes
    <3> QED  BY <3>2
  <2>5. left' = left
    BY <1>d, <2>1
  <2> QED  BY <1>h, <2>1, <2>2, <2>3, <2>4, <2>5 DEF Bus!Publish, Bus!Behind
<1>6. CASE LockAddStat
  <2>1. UNCHANGED <<pc, answer, gone, log, delivered>>
    BY <1>6 DEF LockAddStat, call
  <2>2. event \in Calls \ Loggers
    BY <1>0, <1>6 DEF LockAddStat, TickerInv, Loggers
  <2>3. UNCHANGED <<from, got>>
    BY <1>0, <1>6, <1>n, <2>1, <2>2 DEF LockAddStat, HistTypes, Loggers, Kind
  <2>4. left' = left
    BY <1>d, <2>1
  <2> QED  BY <1>s, <1>u, <2>1, <2>3, <2>4 DEF Bus!vars
<1>7. CASE WriteToStream
  <2> DEFINE t == logStreams[idx]
  <2>1. UNCHANGED <<pc, answer, gone, log, since>>
    BY <1>7 DEF WriteToStream
  <2>2. UNCHANGED <<refused, served, joined, from, left>>
    BY <1>d, <1>s, <1>u, <2>1 DEF Loggers, Kind
  <2>3. CASE delivered' = delivered
    BY <1>h, <2>1, <2>2, <2>3 DEF Bus!vars
  <2>4. CASE delivered' # delivered
    <3>0. PICK s \in Loggers : s = t
      BY <1>7, WriteOne
    <3>1. /\ Joined(s) /\ ~Done(s) /\ event = log[Len(log)] /\ Len(log) > 0
          /\ since[s] + Len(delivered[s]) = Len(log) - 1
          /\ delivered' = [delivered EXCEPT ![s] = Append(@, event)]
      <4>1. ~Done(t) /\ \A i \in 1..Len(logStreams) : Joined(logStreams[i])
        BY <1>0, <1>7, <2>4, WriteOne DEF StreamInv
      <4> QED  BY <1>7, <2>4, <3>0, <4>1, WriteOne DEF Joined
    <3>2. since[s] + Len(delivered[s]) + 1 = Len(log) /\ since[s] + Len(delivered[s]) < Len(log)
      BY <1>0, <1>n, <3>1, LenProperties DEF HistTypes
    <3>3. got' = [got EXCEPT ![s] = Append(@, log[from[s] + Len(@) + 1])]
      BY <1>0, <1>n, <3>1, <3>2 DEF HistTypes, Loggers, Kind
    <3>4. s \in joined /\ s \notin left /\ from[s] + Len(got[s]) < Len(log)
      BY <3>1, <3>2
    <3>5. Bus!Deliver(s)
      BY <2>1, <2>2, <3>3, <3>4 DEF Bus!Deliver, Bus!Behind
    <3> QED  BY <3>5 DEF Bus!Next
  <2> QED  BY <2>3, <2>4
<1>8. ASSUME UNCHANGED hist, \E c \in Calls : Deny(c) \/ Biz(c) \/ Open(c) \/ AddLogStream(c)
      PROVE Bus!Next
  BY <1>2, <1>3, <1>4, <1>8 DEF Bus!Next
<1> QED  BY <1>1, <1>4, <1>5, <1>6, <1>7, <1>8, HistorySteps, SeenSteps DEF Bus!Next

(* Refinement: the service, whatever its calls do, is the event bus.       *)
THEOREM RefinesBus == Spec => ImplementsBus
<1> QED  BY InitBus, StepBus, Invariance, PTL DEF Spec, ImplementsBus, Bus!Spec

-----------------------------------------------------------------------------
(* Shutdown.                                                               *)

(* Until the context is cancelled no channel is closed; when it may only   *)
(* be cancelled between calls, no call is on its way to a channel          *)
(* afterwards.  A server that has returned has released its port.          *)
ShutdownInv ==
  /\ ~ctxDone => closed = {}
  /\ Shutdown = "never" => ~ctxDone
  /\ Shutdown = "quiet" /\ ctxDone => \A c \in Calls : ~InProgress(c)
  /\ Shutdown # "any" => ~crashed
  /\ service = "new" => serve = "none"
  /\ serve = "returned" => port = "free"

(* What a cancelled service ends in.                                       *)
AtRest == /\ port = "free" /\ serve = "returned"
          /\ stopper = "exited" /\ mux = "exited" /\ ~crashed

(* Each step keeps what is said of shutdown.                               *)
LEMMA StepKeepsShutdown == TypeOK /\ ShutdownInv /\ [Next]_vars => ShutdownInv'
<1> SUFFICES ASSUME TypeOK, ShutdownInv, [Next]_vars PROVE ShutdownInv'
  OBVIOUS
<1> USE MicroserviceAssumption
<1>p. pc \in [Calls -> {"idle", "authorize", "event", "handler", "register", "sleep", "ended"}]
  BY DEF TypeOK
<1>1. CASE Server
  BY <1>1, <1>p DEF Server, Start, Serve, ServeReturns, Close, CloseChannel, Stop, StopReturns,
                    ShutdownInv, InProgress, call
<1>2. CASE Cancel
  BY <1>2, <1>p DEF Cancel, ShutdownInv, InProgress, call
<1>3. CASE Mux
  BY <1>3, <1>p DEF Mux, LockAddStat, SendToStream, WriteToStream, LockStats, Count, ExitMux, ShutdownInv,
                    InProgress, call, life
<1>4. ASSUME NEW c \in Calls, Ticker(c)
      PROVE  ShutdownInv'
  BY <1>4, <1>p DEF Ticker, Fire, LockTicker, SendStat, WriteStat, Reset, ShutdownInv, InProgress, call, life
<1>5. ASSUME NEW c \in Calls, Return(c)
      PROVE  ShutdownInv'
  BY <1>5, <1>p DEF Return, Goto, ShutdownInv, InProgress, life
<1>6. ASSUME NEW c \in Calls, Client(c)
      PROVE  ShutdownInv'
  BY <1>6, <1>p DEF Client, Arrive, Read, Leave, Goto, ShutdownInv, InProgress, life
<1>7. ASSUME NEW c \in Calls, Panic(c)
      PROVE  ShutdownInv'
  <2>1. closed # {} /\ InProgress(c)
    BY <1>7, <1>p DEF Panic, InProgress
  <2> QED  BY <1>7, <2>1 DEF Panic, ShutdownInv, InProgress, call
<1>8. ASSUME NEW c \in Calls, Handler(c), ~Panic(c)
      PROVE  ShutdownInv'
  BY <1>8, <1>p DEF Handler, Admit, Deny, SendEvent, Biz, Open, OpenFails, AddLogStream, AddStat,
                    Goto, ShutdownInv, InProgress, life
<1>9. CASE UNCHANGED vars
  BY <1>9 DEF vars, life, call, ShutdownInv, InProgress
<1> QED  BY <1>1, <1>2, <1>3, <1>4, <1>5, <1>6, <1>7, <1>8, <1>9 DEF Next, Idle

(* While the context is cancelled between calls only, no goroutine sends   *)
(* on a channel that stopOnCancel has closed: run service_panic shows that *)
(* it may otherwise.                                                       *)
THEOREM NeverPanicsBetweenCalls == Spec => [](Shutdown # "any" => ~crashed)
<1>1. Init => ShutdownInv
  BY DEF Init, ShutdownInv
<1>2. IInv => TypeOK
  BY DEF IInv
<1>3. ShutdownInv => (Shutdown # "any" => ~crashed)
  BY DEF ShutdownInv
<1> QED  BY <1>1, <1>2, <1>3, StepKeepsShutdown, Invariance, PTL DEF Spec

(* A service at rest stays so: the port is not bound again, the            *)
(* multiplexer, stopOnCancel and Serve are gone for good and nothing       *)
(* panics later, which is the part of ShutdownCompletes that does not say  *)
(* when.                                                                   *)
THEOREM RestsForGood == Spec => [][Shutdown # "any" /\ AtRest => AtRest']_vars
<1>1. Init => ShutdownInv
  BY DEF Init, ShutdownInv
<1>2. IInv => TypeOK
  BY DEF IInv
<1>3. ShutdownInv /\ ShutdownInv' /\ [Next]_vars => (Shutdown # "any" /\ AtRest => AtRest')
  <2> SUFFICES ASSUME ShutdownInv, ShutdownInv', [Next]_vars, Shutdown # "any", AtRest
               PROVE  AtRest'
    OBVIOUS
  <2>0. /\ port = "free" /\ serve = "returned" /\ stopper = "exited" /\ mux = "exited"
        /\ service # "new" /\ ~crashed'
    BY DEF AtRest, ShutdownInv
  <2>1. CASE Server \/ Cancel
    BY <2>0, <2>1 DEF AtRest, Server, Start, Serve, ServeReturns, Close, Stop, StopReturns, Cancel,
                      muxv
  <2>2. CASE Mux
    BY <2>0, <2>2 DEF Mux, LockAddStat, SendToStream, WriteToStream, LockStats, Count, ExitMux
  <2>3. ASSUME NEW c \in Calls, Ticker(c) \/ Return(c) \/ Client(c)
        PROVE  AtRest'
    BY <2>0, <2>3 DEF AtRest, Ticker, Fire, LockTicker, SendStat, WriteStat, Reset, Return, Client, Arrive,
                      Read, Leave, life, muxv
  <2>4. ASSUME NEW c \in Calls, Handler(c)
        PROVE  AtRest'
    BY <2>0, <2>4 DEF AtRest, Handler, Admit, Deny, SendEvent, Biz, Open, OpenFails, AddLogStream,
                      AddStat, Panic, life, muxv
  <2>5. CASE UNCHANGED vars
    BY <2>0, <2>5 DEF AtRest, vars, life, muxv
  <2> QED  BY <2>1, <2>2, <2>3, <2>4, <2>5 DEF Next, Idle
<1> QED  BY <1>1, <1>2, <1>3, StepKeepsShutdown, Invariance, PTL DEF Spec
================================================================================
