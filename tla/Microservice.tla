----------------------------- MODULE Microservice -----------------------------
(***************************************************************************)
(* The gRPC microservice of hw7_microservice/service.go: calls go through  *)
(* the authorising interceptors, which send an event for each admitted     *)
(* call to the multiplexer goroutine; the multiplexer copies the event to  *)
(* every open log stream and counts it for every statistics stream; a      *)
(* ticker goroutine per statistics stream reports and resets the counts;   *)
(* stopOnCancel closes the channels and stops the gRPC server when the     *)
(* context is cancelled.                                                   *)
(*                                                                         *)
(* A call stands for the goroutine gRPC runs its handler in, and also for  *)
(* its event and, for Logging and Statistics, its stream.  The three       *)
(* channels are unbuffered: a send and its receive are one step.  Time is  *)
(* abstract: a sleep or a timer ends at any moment.  Client and network    *)
(* are modelled by what the server sees of them: calls arrive, streams are *)
(* read or not, clients go away.                                           *)
(***************************************************************************)
EXTENDS Naturals, FiniteSets, Sequences

CONSTANTS
  Calls,         \* the calls clients may make
  Method,        \* Method[c]: full name of the method called
  Consumer,      \* Consumer[c]: "consumer" metadata of the call, or NoConsumer
  NoConsumer,
  ACL,           \* ACL[u]: set of method masks consumer u may call
  Regexp(_, _),  \* Regexp(mask, m): does the regular expression match m?
  Window,        \* messages a stream takes before Send blocks on the client
  MaxCalls,      \* bound: how many of the calls they do make
  Shutdown       \* "never", "quiet" (no call in progress) or "any" time

ASSUME MicroserviceAssumption ==
  /\ Method \in [Calls -> STRING]
  /\ DOMAIN Consumer = Calls
  /\ Calls \cap {"none", "free", "mux"} = {}   \* what no call is named
  /\ Window \in Nat \ {0}
  /\ MaxCalls \in Nat
  /\ Shutdown \in {"never", "quiet", "any"}

VARIABLES
  service,       \* StartMyMicroservice: "new", "running" or "failed"
  port,          \* is the listening port "free" or "bound"?
  serve,         \* server.Serve: "none", "starting", "serving" or "returned"
  ctxDone,       \* was the context cancelled?
  stopper,       \* where stopOnCancel is
  closed,        \* the channels it has closed
  crashed,       \* has a goroutine panicked, taking the process down?
  pc,            \* where each call is
  answer,        \* what it returned to its client
  gone,          \* has its client or its connection gone?
  unread,        \* messages sent on its stream that the client has not read
  mux,           \* where the multiplexer goroutine is
  event,         \* its local e
  idx,           \* its loop variable
  logStreams,    \* its slice of log streams
  stats,         \* its slice of statistics
  statsMu,       \* holder of the mutex: "free", "mux" or a ticker's call
  ticker,        \* where the ticker of each Statistics call is
  tally,         \* the counts of ByMethod and ByConsumer, side by side
  reported,      \* the sum of the reports its client was sent
  log,           \* the events the multiplexer has received, in order
  since,         \* length of log when a stream was registered
  delivered      \* the events sent on each log stream, in order

life   == <<service, port, serve, ctxDone, stopper, closed, crashed>>
call   == <<pc, answer, gone, unread>>
muxv   == <<mux, event, idx, logStreams, stats>>
counts == <<statsMu, ticker, tally, reported>>
hist   == <<log, since, delivered>>
vars   == <<life, call, muxv, counts, hist>>

Logging    == "/main.Admin/Logging"
Statistics == "/main.Admin/Statistics"
Kind(c)    == IF Method[c] = Logging THEN "logs"
              ELSE IF Method[c] = Statistics THEN "stats" ELSE "biz"

Keys    == {Method[c] : c \in Calls} \cup {Consumer[c] : c \in Calls}
KeysOf(e) == {Method[e], Consumer[e]}
Zero    == [k \in Keys |-> 0]

Goto(c, from, to) == pc[c] = from /\ pc' = [pc EXCEPT ![c] = to]
Tick(c, from, to) == ticker[c] = from /\ ticker' = [ticker EXCEPT ![c] = to]

-----------------------------------------------------------------------------
(* Faulty variants of some definitions below.                              *)

(* without as.statsMu.Lock()                                               *)
NoLock(holder) == UNCHANGED statsMu

(* the event sent from a goroutine of its own: the handler does not wait   *)
SendEventAsync(c) == /\ Goto(c, "event", "handler")
                     /\ UNCHANGED <<answer, gone, unread, life, muxv, counts, hist>>

(* a new stream put in the place of the last one                           *)
ReplaceStream(s) == <<s>>

(* no close(...) before server.Stop()                                      *)
KeepChannel(ch) == UNCHANGED closed

(* Send that takes any number of unread messages                           *)
NoQuota(c) == TRUE

(* Send that the end of the connection does not wake                       *)
OnlyQuota(c) == unread[c] < Window

-----------------------------------------------------------------------------
Init ==
  /\ service = "new" /\ port = "free" /\ serve = "none"
  /\ ctxDone = FALSE /\ stopper = "none" /\ closed = {} /\ crashed = FALSE
  /\ pc = [c \in Calls |-> "idle"]
  /\ answer = [c \in Calls |-> "none"]
  /\ gone = [c \in Calls |-> FALSE]
  /\ unread = [c \in Calls |-> 0]
  /\ mux = "none" /\ event = "none" /\ idx = 1
  /\ logStreams = <<>> /\ stats = <<>>
  /\ statsMu = "free"
  /\ ticker = [c \in Calls |-> "none"]
  /\ tally = [c \in Calls |-> Zero]
  /\ reported = [c \in Calls |-> Zero]
  /\ log = <<>>
  /\ since = [c \in Calls |-> 0]
  /\ delivered = [c \in Calls |-> <<>>]

(* StartMyMicroservice: an ACL that cannot be parsed starts nothing        *)
Start ==
  /\ service = "new"
  /\ \/ service' = "failed" /\ UNCHANGED <<port, serve, stopper, mux>>
     \/ /\ service' = "running"
        /\ port' = "bound"
        /\ serve' = "starting"
        /\ stopper' = "waiting"
        /\ mux' = "select"
  /\ UNCHANGED <<ctxDone, closed, crashed, event, idx, logStreams, stats, call, counts, hist>>

-----------------------------------------------------------------------------
(* Calls                                                                   *)

InProgress(c) == pc[c] \notin {"idle", "ended", "sleep"}

(* A client makes a call: gRPC runs its handler, hence the interceptor, in *)
(* a new goroutine.                                                        *)
Arrive(c) ==
  /\ serve = "serving"
  /\ port = "bound"
  /\ ctxDone => Shutdown = "any"
  /\ Cardinality({d \in Calls : pc[d] # "idle"}) < MaxCalls
  /\ Goto(c, "idle", "authorize")
  /\ UNCHANGED <<answer, gone, unread, life, muxv, counts, hist>>

(* A consumer's masks are tried as the whole name, then as expressions     *)
Match(masks, m) == m \in masks \/ \E mask \in masks : Regexp(mask, m)

Authorized(c) ==
  /\ Consumer[c] # NoConsumer
  /\ Consumer[c] \in DOMAIN ACL
  /\ Match(ACL[Consumer[c]], Method[c])

Admit(c) ==
  /\ Authorized(c)
  /\ Goto(c, "authorize", "event")
  /\ UNCHANGED <<answer, gone, unread, life, muxv, counts, hist>>

Deny(c) ==
  /\ ~Authorized(c)
  /\ Goto(c, "authorize", "ended")
  /\ answer' = [answer EXCEPT ![c] = "unauthenticated"]
  /\ UNCHANGED <<gone, unread, life, muxv, counts, hist>>

(* The multiplexer receives the call's event                               *)
SendEvent(c) ==
  /\ "events" \notin closed
  /\ mux = "select"
  /\ Goto(c, "event", "handler")
  /\ mux' = "send"
  /\ event' = c
  /\ idx' = 1
  /\ log' = Append(log, c)
  /\ UNCHANGED <<answer, gone, unread, logStreams, stats, life, counts, since, delivered>>

(* Check, Add and Test return at once                                      *)
Biz(c) ==
  /\ Kind(c) = "biz"
  /\ Goto(c, "handler", "ended")
  /\ answer' = [answer EXCEPT ![c] = "ok"]
  /\ UNCHANGED <<gone, unread, life, muxv, counts, hist>>

(* The stub of a streaming method reads the request, unless the client has *)
(* gone, and calls the method, which sends the stream to the multiplexer   *)
Open(c) ==
  /\ Kind(c) # "biz"
  /\ Goto(c, "handler", "register")
  /\ UNCHANGED <<answer, gone, unread, life, muxv, counts, hist>>

OpenFails(c) ==
  /\ Kind(c) # "biz"
  /\ gone[c]
  /\ Goto(c, "handler", "ended")
  /\ answer' = [answer EXCEPT ![c] = "error"]
  /\ UNCHANGED <<gone, unread, life, muxv, counts, hist>>

(* Logging and Statistics return ten seconds after the stream was taken.   *)
(* gRPC marks the stream done and queues its trailers behind what was sent *)
(* on it; its context lives until they are written, so that a Send blocked *)
(* by a client who does not read stays blocked.                            *)
Return(c) ==
  /\ Goto(c, "sleep", "ended")
  /\ answer' = [answer EXCEPT ![c] = "ok"]
  /\ UNCHANGED <<gone, unread, life, muxv, counts, hist>>

(* the stream is done: nothing sent on it from now on reaches the client   *)
Done(c) == gone[c] \/ answer[c] = "ok"

(* A send on a closed channel panics; nothing in gRPC recovers it          *)
Panic(c) ==
  /\ \/ pc[c] = "event" /\ "events" \in closed
     \/ pc[c] = "register" /\ Kind(c) \in closed
  /\ crashed' = TRUE
  /\ port' = "free"
  /\ UNCHANGED <<service, serve, ctxDone, stopper, closed, call, muxv, counts, hist>>

(* The client of a stream reads a message, or goes away                    *)
Read(c) ==
  /\ unread[c] > 0
  /\ unread' = [unread EXCEPT ![c] = @ - 1]
  /\ UNCHANGED <<pc, answer, gone, life, muxv, counts, hist>>

Leave(c) ==
  /\ Kind(c) # "biz"
  /\ pc[c] # "idle"
  /\ ~gone[c]
  /\ gone' = [gone EXCEPT ![c] = TRUE]
  /\ UNCHANGED <<pc, answer, unread, life, muxv, counts, hist>>

-----------------------------------------------------------------------------
(* The multiplexer                                                         *)

(* stream.Send fails at once, with an error the code ignores, if the       *)
(* stream is done.  Otherwise it waits for the write quota, which comes    *)
(* back when the client reads, or for the end of the stream's context; of  *)
(* a stream done meanwhile, the message is dropped behind the trailers.    *)
SendFails(c) == Done(c)
Released(c)  == gone[c] \/ unread[c] < Window

Taken(c) == [unread EXCEPT ![c] = IF Done(c) THEN @ ELSE @ + 1]

Lock(holder) == statsMu = "free" /\ statsMu' = holder

(* The slice of streams after append                                       *)
Appended(s) == Append(logStreams, s)

AddLogStream(c) ==
  /\ Kind(c) = "logs"
  /\ "logs" \notin closed
  /\ mux = "select"
  /\ Goto(c, "register", "sleep")
  /\ logStreams' = Appended(c)
  /\ since' = [since EXCEPT ![c] = Len(log)]
  /\ UNCHANGED <<answer, gone, unread, mux, event, idx, stats, life, counts, log, delivered>>

(* A new Stat is added under statsMu; then its ticker is started           *)
AddStat(c) ==
  /\ Kind(c) = "stats"
  /\ "stats" \notin closed
  /\ mux = "select"
  /\ Goto(c, "register", "sleep")
  /\ mux' = "addStat"
  /\ event' = c
  /\ UNCHANGED <<answer, gone, unread, idx, logStreams, stats, life, counts, hist>>

LockAddStat ==
  /\ mux = "addStat"
  /\ statsMu = "free"
  /\ stats' = Append(stats, event)
  /\ since' = [since EXCEPT ![event] = Len(log)]
  /\ Tick(event, "none", "timer")
  /\ mux' = "select"
  /\ UNCHANGED <<event, idx, logStreams, life, call, statsMu, tally, reported, log, delivered>>

(* Send of the event on the next log stream: the stream's state is looked  *)
(* at first, then the message is written.                                  *)
SendToStream ==
  /\ mux = "send"
  /\ idx <= Len(logStreams)
  /\ IF SendFails(logStreams[idx])
     THEN idx' = idx + 1 /\ UNCHANGED mux
     ELSE mux' = "write" /\ UNCHANGED idx
  /\ UNCHANGED <<event, logStreams, stats, life, call, counts, hist>>

WriteToStream ==
  /\ mux = "write"
  /\ LET s == logStreams[idx]
     IN  /\ Released(s)
         /\ unread' = Taken(s)
         /\ delivered' = [delivered EXCEPT ![s] = IF Done(s) THEN @ ELSE Append(@, event)]
  /\ mux' = "send"
  /\ idx' = idx + 1
  /\ UNCHANGED <<pc, answer, gone, event, logStreams, stats, life, counts, log, since>>

LockStats ==
  /\ mux = "send"
  /\ idx > Len(logStreams)
  /\ Lock("mux")
  /\ mux' = "count"
  /\ UNCHANGED <<event, idx, logStreams, stats, life, call, ticker, tally, reported, hist>>

(* The event is counted for every Stat, and the mutex released             *)
Count ==
  /\ mux = "count"
  /\ tally' = [c \in Calls |->
                 IF \E i \in DOMAIN stats : stats[i] = c
                 THEN [k \in Keys |-> tally[c][k] + IF k \in KeysOf(event) THEN 1 ELSE 0]
                 ELSE tally[c]]
  /\ statsMu' = "free"
  /\ mux' = "select"
  /\ UNCHANGED <<event, idx, logStreams, stats, life, call, ticker, reported, hist>>

(* A closed channel is always ready to be received from                    *)
ExitMux ==
  /\ mux = "select"
  /\ closed # {}
  /\ mux' = "exited"
  /\ UNCHANGED <<event, idx, logStreams, stats, life, call, counts, hist>>

-----------------------------------------------------------------------------
(* The ticker goroutine of a Statistics call: a loop without an exit       *)

Fire(c) == Tick(c, "timer", "lock")
           /\ UNCHANGED <<life, call, muxv, statsMu, tally, reported, hist>>

LockTicker(c) ==
  /\ Tick(c, "lock", "send")
  /\ Lock(c)
  /\ UNCHANGED <<life, call, muxv, tally, reported, hist>>

SendStat(c) ==
  /\ Tick(c, "send", IF SendFails(c) THEN "reset" ELSE "write")
  /\ UNCHANGED <<life, call, muxv, statsMu, tally, reported, hist>>

WriteStat(c) ==
  /\ Tick(c, "write", "reset")
  /\ Released(c)
  /\ unread' = Taken(c)
  /\ reported' = [reported EXCEPT ![c] =
                   IF Done(c) THEN @ ELSE [k \in Keys |-> @[k] + tally[c][k]]]
  /\ UNCHANGED <<pc, answer, gone, life, muxv, statsMu, tally, hist>>

Reset(c) ==
  /\ Tick(c, "reset", "timer")
  /\ tally' = [tally EXCEPT ![c] = Zero]
  /\ statsMu' = "free"
  /\ UNCHANGED <<life, call, muxv, reported, hist>>

-----------------------------------------------------------------------------
(* Serving and stopping                                                    *)

(* go server.Serve(lis); after Stop it closes the listener and returns     *)
Serve ==
  /\ serve = "starting"
  /\ IF stopper \in {"stopped", "exited"}
     THEN serve' = "returned" /\ port' = "free"
     ELSE serve' = "serving" /\ UNCHANGED port
  /\ UNCHANGED <<service, ctxDone, stopper, closed, crashed, call, muxv, counts, hist>>

(* Accept fails on the closed listener                                     *)
ServeReturns ==
  /\ serve = "serving"
  /\ port = "free"
  /\ serve' = "returned"
  /\ UNCHANGED <<service, port, ctxDone, stopper, closed, crashed, call, muxv, counts, hist>>

Cancel ==
  /\ service = "running"
  /\ ~ctxDone
  /\ \/ Shutdown = "any"
     \/ Shutdown = "quiet" /\ \A c \in Calls : ~InProgress(c)
  /\ ctxDone' = TRUE
  /\ UNCHANGED <<service, port, serve, stopper, closed, crashed, call, muxv, counts, hist>>

CloseChannel(ch) == closed' = closed \cup {ch}

Close ==
  /\ ctxDone
  /\ \/ stopper = "waiting" /\ stopper' = "closeLogs" /\ CloseChannel("events")
     \/ stopper = "closeLogs" /\ stopper' = "closeStats" /\ CloseChannel("logs")
     \/ stopper = "closeStats" /\ stopper' = "stop" /\ CloseChannel("stats")
  /\ UNCHANGED <<service, port, serve, ctxDone, crashed, call, muxv, counts, hist>>

(* server.Stop: a listener already being served is closed, and so are the  *)
(* connections, which ends the context of every stream; handlers still     *)
(* running are not waited for                                              *)
Stop ==
  /\ stopper = "stop"
  /\ stopper' = "stopped"
  /\ port' = IF serve = "serving" THEN "free" ELSE port
  /\ gone' = [c \in Calls |-> gone[c] \/ pc[c] # "idle"]
  /\ UNCHANGED <<service, serve, ctxDone, closed, crashed,
                 pc, answer, unread, muxv, counts, hist>>

(* ... and waits for Serve                                                 *)
StopReturns ==
  /\ stopper = "stopped"
  /\ serve # "serving"
  /\ stopper' = "exited"
  /\ UNCHANGED <<service, port, serve, ctxDone, closed, crashed, call, muxv, counts, hist>>

-----------------------------------------------------------------------------
Handler(c) ==
  \/ Admit(c) \/ Deny(c) \/ SendEvent(c) \/ Biz(c) \/ Open(c) \/ OpenFails(c)
  \/ AddLogStream(c) \/ AddStat(c) \/ Panic(c)

Mux == LockAddStat \/ SendToStream \/ WriteToStream \/ LockStats \/ Count \/ ExitMux

Ticker(c) == Fire(c) \/ LockTicker(c) \/ SendStat(c) \/ WriteStat(c) \/ Reset(c)

Server == Start \/ Serve \/ ServeReturns \/ Close \/ Stop \/ StopReturns

Client(c) == Arrive(c) \/ Read(c) \/ Leave(c)

(* Nothing is under way: the service waits for calls that may never come,  *)
(* or has failed to start, or the process is gone.                         *)
Quiescent ==
  \/ crashed
  \/ service = "failed"
  \/ /\ \A c \in Calls : pc[c] \in {"idle", "ended"}
     /\ mux \in {"select", "exited"}

Idle == Quiescent /\ UNCHANGED vars

Next ==
  \/ /\ ~crashed
     /\ \/ Server \/ Cancel \/ Mux
        \/ \E c \in Calls : Handler(c) \/ Return(c) \/ Ticker(c) \/ Client(c)
  \/ Idle

Running(A) == ~crashed /\ A

(* Every goroutine that can run does: handlers, multiplexer, tickers and   *)
(* the goroutines that serve and stop; sleeps end.  A mutex is not kept    *)
(* for ever from one waiter by the others (Go's starvation mode), and      *)
(* select chooses at random among what is ready, hence strong fairness for *)
(* taking the mutex and for being received from.  Clients owe nothing:     *)
(* they may never read a stream, never leave, never call.                  *)
Fairness ==
  /\ WF_vars(Running(Server))
  /\ WF_vars(Running(Mux))
  /\ SF_vars(Running(LockStats \/ LockAddStat))
  /\ \A c \in Calls :
       /\ WF_vars(Running(Return(c)))
       /\ WF_vars(Running(Ticker(c)))
       /\ SF_vars(Running(LockTicker(c)))
       /\ SF_vars(Running(Handler(c)))

Spec == Init /\ [][Next]_vars /\ Fairness

-----------------------------------------------------------------------------
(* Properties                                                              *)

TypeOK ==
  /\ service \in {"new", "running", "failed"}
  /\ port \in {"free", "bound"}
  /\ serve \in {"none", "starting", "serving", "returned"}
  /\ ctxDone \in BOOLEAN
  /\ stopper \in {"none", "waiting", "closeLogs", "closeStats", "stop", "stopped", "exited"}
  /\ closed \subseteq {"events", "logs", "stats"}
  /\ crashed \in BOOLEAN
  /\ pc \in [Calls -> {"idle", "authorize", "event", "handler", "register", "sleep", "ended"}]
  /\ answer \in [Calls -> {"none", "ok", "error", "unauthenticated"}]
  /\ gone \in [Calls -> BOOLEAN]
  /\ unread \in [Calls -> 0..Window]
  /\ mux \in {"none", "select", "send", "write", "count", "addStat", "exited"}
  /\ event \in Calls \cup {"none"}
  /\ idx \in 1..(Len(logStreams) + 1)
  /\ logStreams \in Seq(Calls)
  /\ stats \in Seq(Calls)
  /\ statsMu \in Calls \cup {"free", "mux"}
  /\ ticker \in [Calls -> {"none", "timer", "lock", "send", "write", "reset"}]
  /\ tally \in [Calls -> [Keys -> Nat]]
  /\ reported \in [Calls -> [Keys -> Nat]]
  /\ log \in Seq(Calls)
  /\ since \in [Calls -> Nat]
  /\ delivered \in [Calls -> Seq(Calls)]

(* The events fully dispatched: all but the one being sent or counted      *)
Dispatched == IF mux \in {"send", "write", "count"} THEN Len(log) - 1 ELSE Len(log)

(* Every log stream still open carries the events that followed its        *)
(* registration, all of them, in the one order in which the multiplexer    *)
(* received them: two clients see the same log.  A stream that has ended   *)
(* carries a beginning of that log, without a gap.                         *)
LogStreamsComplete ==
  \A s \in Calls :
    (Kind(s) = "logs" /\ (pc[s] = "sleep" \/ answer[s] = "ok")) =>
      LET end == since[s] + Len(delivered[s])
      IN  /\ delivered[s] = SubSeq(log, since[s] + 1, end)
          /\ ~Done(s) => end >= Dispatched

(* Nothing is lost between two reports: what a statistics client has been  *)
(* sent plus what is counted now is what was dispatched since its stream   *)
(* was registered, for every method and every consumer, although ticker    *)
(* and multiplexer change the counts at any time.                          *)
StatsConserved ==
  \A c \in Calls : (ticker[c] # "none" /\ ~Done(c)) =>
    \A k \in Keys :
      reported[c][k] + (IF ticker[c] = "reset" THEN 0 ELSE tally[c][k])
        = Cardinality({i \in (since[c] + 1)..Dispatched : k \in KeysOf(log[i])})

Loggers == {c \in Calls : Kind(c) = "logs"}
Serving(c) == pc[c] \in {"register", "sleep"} \/ answer[c] = "ok"
Joined(s)  == pc[s] = "sleep" \/ answer[s] = "ok"

Bus == INSTANCE EventBus WITH
  Subscribers <- Loggers,
  refused <- {c \in Calls : answer[c] = "unauthenticated"},
  served  <- {c \in Calls : Serving(c)},
  joined  <- {s \in Loggers : Joined(s)},
  since   <- [s \in Loggers |-> since[s]],
  got     <- [s \in Loggers |-> delivered[s]],
  left    <- {s \in Loggers : Done(s)}

(* The service is the bus of EventBus: a call the ACL admits is published  *)
(* once, before its method runs, and log streams are handed the log event  *)
(* by event, none of them more than one behind.                            *)
ImplementsBus == Bus!Spec

(* Every call gets its answer if no client leaves the messages of its      *)
(* stream unread for ever: a Send that blocks the multiplexer, or a ticker *)
(* that holds statsMu, and with them everybody, goes on when the client    *)
(* reads or has gone, whether the method has returned or not.              *)
ReadOrGone(c) == []<>(unread[c] < Window \/ gone[c])

CallsEndIfRead ==
  (\A c \in Calls : ReadOrGone(c))
     => []<>(crashed \/ \A c \in Calls : pc[c] \in {"idle", "ended"})

(* No goroutine sends on a channel stopOnCancel has closed.                *)
NeverPanics == ~crashed

(* After cancellation the port is released, the multiplexer ends and       *)
(* stopOnCancel and Serve return, even if the context is cancelled before  *)
(* Serve has started; and no goroutine panics later.                       *)
ShutdownCompletes ==
  ctxDone ~> [](/\ port = "free" /\ serve = "returned"
                /\ stopper = "exited" /\ mux = "exited" /\ ~crashed)

(* After cancellation every goroutine of the service ends.                 *)
EveryGoroutineEnds ==
  ctxDone ~> /\ mux = "exited" /\ stopper = "exited" /\ serve = "returned"
             /\ \A c \in Calls : ticker[c] = "none"
===============================================================================
