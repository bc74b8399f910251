# Specifications of GolangWebservices

The repository holds eight Go programs, `hw1_tree` to `hw8_i2s`, each in a directory of its own with
its tests and a description (`hwN.md`). They share no code. This directory holds TLA+ specifications
of them, TLC configurations that check those specifications on small instances, and proofs that the
TLA+ proof system checks for instances of every size. Source references below are relative to the
root of the repository; `PROJECT.json` maps each definition to the lines it translates.

Contents: [inventory](#inventory), [modules](#modules-and-how-they-correspond-to-the-code),
[runs](#runs), [fairness](#fairness), [findings](#findings),
[proofs](#proofs), [limits](#what-is-not-modelled), [plan](#plan).

## Inventory

### hw2_signer: a pipeline of goroutines

* **Pipeline runner** (`signer.go`: `ExecutePipeline`, `startJob`, `CombineResults`). State: one
  goroutine per job, one unbuffered channel between neighbours, a `WaitGroup`. A job is a function
  of an input and an output channel; `startJob` calls it, closes its output and counts it as done.
  The last job's output has no reader, and the first job is given its own output as input.
  *Hard:* channels must be closed in the order of the stages and never under a sender; the call
  returns only if every job ends, and a value nobody reads blocks a stage and all before it.
  *Correct if* values flow through while later ones are still being produced, none is lost at a
  close, and the call returns after all jobs.
* **SingleHash** (`signer.go`). Four goroutines per value joined by three channels, a mutex shared by
  all values around `DataSignerMd5`, a `WaitGroup` for the combiners. *Hard:* the mutex is held
  across an unbuffered send; results of different values are in flight together; the job must not
  return before the last combiner has sent. *Correct if* the two checksums of one value are paired,
  md5 is never entered twice at once, and the output is closed after the last result.
* **MultiHash** (`signer.go`). Per value a joiner and a goroutine per prefix, each with its channel.
  *Correct if* results are joined in prefix order however the goroutines are scheduled.
* **Hash functions** (`common.go`). `OverheatLock` and `OverheatUnlock` spin on a compare-and-swap
  with a second of sleep; the digests themselves are pure.

### hw7_microservice: a gRPC service with logging and statistics

* **Service** (`service.go`). State: the parsed ACL, three unbuffered channels (events, new log
  streams, new statistics), the multiplexer's slices of log streams and statistics, `statsMu`, a
  ticker goroutine per statistics stream. The interceptors check the ACL and hand the call's event
  to the multiplexer; the multiplexer sends it on every log stream and counts it for every
  statistics stream; each ticker reports and resets its counts; `stopOnCancel` closes the channels
  and stops the server. *Hard:* nearly everything: a client that does not read blocks the
  multiplexer or the holder of `statsMu`; streams end while something is being sent on them; calls
  arrive during shutdown; cancellation may precede `Serve`. *Correct if* log streams agree and have
  no gap, counts are neither lost nor counted twice, every call ends, and cancellation releases the
  port, panics nowhere and leaves no goroutine.
* **gRPC server** (vendored): a goroutine per call, stream contexts, a write quota per stream, `Stop`
  and `Serve`. Modelled as far as `service.go` depends on it.
* **Generated protobuf code** (`service.go` from line 320 on): encoding and client stubs.

### hw6_db_explorer: CRUD over any MySQL database

* **Explorer** (`db_explorer.go`). State: the schema read at start, the database, the pool of
  connections. Each HTTP request is routed, its body checked against the schema and turned into one
  statement, and the outcome into an answer. *Hard:* concurrent requests on the same record; texts and
  identifiers printed into a statement as they are; a connection that fails at start, before or after a statement, or within the rows read; a panic that
  leaves the request without an answer; rows left open, each keeping a connection. *Correct if* an
  answer agrees with what the database did, and the database changes only as some request asked.
* **Earlier version** (`backup/`): superseded and not a program, since no file beside it declares the
  `DSN` it opens.

### hw5_codegen: an API and the generator of its handlers

* **User API** (`api.go`: `MyApi`). State: a map of users, `nextID`, an `RWMutex`; `Profile` reads
  under the read lock, `Create` checks, takes an identifier and inserts under the write lock.
  *Hard:* two creations of one login, a map access during a write, a return that keeps the lock.
  *Correct if* the API is an atomic registry.
* **Generator and generated handlers** (`handlers_gen/codegen.go`, `api_handlers.go`). From structs
  with `apivalidator` tags to the statements of a handler. *Hard:* the order of checks, boundary
  values, tags nobody tried. *Correct if* a handler builds and answers as `hw5.md` says; it does so in
  part only (see the findings), so that what it does is stated beside it.
* **Example generator** (`example/gen/codegen.go`, its output `example/pack/marshaller.go`): writes an
  `Unpack` for marked structs. *Hard:* errors of `binary.Read` that the output ignores. *Correct if*
  `Unpack` recovers what was packed.

### hw1, hw3, hw4, hw8: sequential programs

* **hw4 search client** (`client.go`: `FindUsers`): clamps and increments the limit, sends one request,
  maps failures and statuses to errors, drops the extra user and sets `NextPage`. *Hard:* limits at
  the bound, a page that ends exactly with the users, calls that fail between two pages. *Correct if*
  somebody who pages with it sees every user once.
* **hw3 fast search** (`fast.go`: `FastSearch`, against `SlowSearch` in `common.go`): one pass over a
  file of users instead of two. *Hard:* lines, and files without any, that one of the two tolerates.
  *Correct if* it prints what the slow version prints on every file both can read.
* **hw8 i2s** (`i2s.go`): fills a struct from decoded JSON, recursively, in the random order of a map.
  *Hard:* an error half way leaves a part filled. *Correct if* it fills everything or fails.
* **hw1 tree** (`main.go`: `dirTree`): draws a directory. *Hard:* prefixes depend on which entries of all
  the directories above are last, and on the files left out. *Correct if* every entry is drawn once,
  at its depth, and the branches connect.

The hazards these programs are exposed to are listed, each at its line, in `PROJECT.json`
(`hazards`), with the properties that cover them.

## Modules and how they correspond to the code

| Module | Stands for | Composed with |
|---|---|---|
| `HashStage` | abstract: what a hashing stage promises | refined by `SingleHash`, `MultiHash`; the `"hash"` jobs of `Pipeline` |
| `SingleHash`, `MultiHash` | the two jobs with all their goroutines | `SingleHash_proofs`, `MultiHash_proofs` |
| `Pipeline` | `ExecutePipeline`, `startJob`, the jobs of the tests | refines `Signer`; `Pipeline_proofs` |
| `Signer` | abstract: with the signer's jobs, one result, the same for the same input, then the return | |
| `Microservice` | `service.go` and the gRPC server as it uses it | refines `EventBus`; `Microservice_proofs` |
| `EventBus` | abstract: one log, calls served after they are in it, subscribers handed it in order | `EventBus_proofs` |
| `DbExplorer` | `db_explorer.go` and MySQL as it uses it | `DbExplorer_proofs` |
| `Handlers` | the generator and the handlers it writes | `Programs` |
| `ApiStructs` | the parameter structs and endpoints of `api.go` | extends `Handlers` |
| `Api` | `MyApi` under its `RWMutex` | refines `UserRegistry`; `Api_proofs` |
| `UserRegistry` | abstract: a registry whose requests take effect at one instant, refused for their parameters only | |
| `SearchClient` | `FindUsers`, a server that may fail, and a caller who pages | `Programs_proofs` |
| `FastSearch` | `FastSearch`, its decoder, and `SlowSearch` | `Programs` |
| `Programs` | a run of a generated handler on a request, of a generated `Unpack` on data, or of `FastSearch` on a file | extends `Handlers`, `Binpack`, `FastSearch`; `Programs_proofs` |
| `DirTree` | `dirTree` | |
| `I2s` | `i2s` | |
| `Binpack` | the example generator and the `Unpack` it writes | `Programs` |
| `MCHandlers` | the Go files and requests the handlers are run on | extends `Programs`; `ApiStructs` |
| `MCPrograms` | runs each sequential program once on every input of its sets | extends `MCHandlers`, `SearchClient`; `DirTree`, `I2s` |

Each `MC` module gives one of these its constants for TLC. The head of each concrete module has a
section of *faulty variants*: a definition of the module with a mistake one could make in the code
(a dropped lock, a missing wait, a shared loop variable). They are not used by the specification;
putting one in the place of the definition it varies makes the property of the same run fail, which
`PROJECT.json` (`mutants`) lists.

### Conventions

* A goroutine is a program counter; its values name the line it is about to execute. The goroutines
  started for the k-th value, request or call are indexed by it.
* All channels of the repository are unbuffered: a send and its receive are one step, enabled when
  both sides are there. A receive from a closed channel is always enabled; a send on one panics.
* Sleeps and timers end at any moment, so every relative speed is considered.
* Digests are uninterpreted (`Md5`, `Crc32`): the proofs assume nothing about them.

### hw2

In `SingleHash`, `main` is the job's own goroutine, `mu` the mutex, `dataSignerOverheat` the flag of
`common.go`, `wg` the `WaitGroup`, and `combiner`, `relay`, `crc`, `md5` the four goroutines of each
value; `out` is what the next job has received. `MultiHash` has a `joiner` with its loop variable `idx`
and its `result`, and `step[i][p]` for the goroutine of a prefix. Both instantiate `HashStage` with
`sent` as the set of values whose result was received and `closed` as `startJob` having closed the
channel. `Pipeline` then uses a hashing stage by what `HashStage` promises: it takes values at any
time, offers the result of any value taken and not yet sent, and ends when nothing is left to send.
Its other jobs are those of `main_test.go` and `extra_test.go`. `args` is the pipeline the call is
given; `recvd[j]` and `sent[j]` are what job j received, and which of its outputs were received.

### hw7

A call is one element `c` that stands for its handler's goroutine (`pc[c]`), its event, and the stream
of `Logging` or `Statistics`. `mux`, `event`, `idx`, `logStreams`, `stats` are the multiplexer
goroutine and its locals, `ticker[c]` the goroutine started for a statistics stream, `tally[c]` its counts
by method and by consumer, `stopper` the goroutine `stopOnCancel` with the channels it has `closed`.
`gone[c]` says that the client left or `Stop` closed the connection. That the method has returned is
less: gRPC then refuses what is sent afterwards (`SendFails`, tested before the quota), but only
queues the trailers behind the messages the client has not read (`finishStream`,
`http2_server.go:1090-1106`), and cancels the stream's context when those are written
(`controlbuf.go:617-620`, `:873-876`). So a `Send` that already waits for its quota goes on waiting
until the client reads or is gone (`Released`), however long ago the method returned. A message is
taken while fewer than `Window` are unread. `log`, `since`, `delivered` and `reported` are history variables for the
properties. `EventBus` is what this amounts to for its users: `Bus` in `Microservice` maps the state to
it, a call being served from the moment its method runs, and a log stream joined when the
multiplexer has it. `Shutdown` chooses the environment: the context is never cancelled, cancelled only while
no call is between its arrival and its sleep (`"quiet"`), or at any time.

### hw6

A request `r` goes through `Route...` (choice of the handler, checks of path and body), one statement
(`Query` and `Scan`, `Insert`, `Update`, `Delete`, or the panic of a refused one) and `Reply`. The body
is any JSON object, arrays and objects (kind `"nested"`) among its values; `Unfit` are the texts that
no column takes. `rows`
holds the records by key, `last` the AUTO_INCREMENT counter, `conns` the requests that keep a
connection, `answer` what was answered, `after[r]` the requests already answered when `r` came.
`AutoKeys` are the tables whose key the database gives; in the others a client may insert the key 0
again after a deletion, which `DeletedOnce` therefore leaves out. The
section *MySQL and its driver* is external: strict mode, conversion of parameters, `LastInsertId`,
`RowsAffected` (rows changed, not rows matched), and `*int64` as destination of a scan.

A POST prints the texts of its body between quotes and a DELETE its identifier as it is
(`db_explorer.go:325`, `:345`). `Quoting` are the texts that MySQL then reads as something else, `word` an
identifier that is no number. Such a request is `Unescaped`, and its statement either fails or does
something else to its table: a deletion removes any set of records, an update replaces any set of
records by as many others, under the same or other keys, out of `Others`. What holds for the other
requests is stated for tables where no request was unescaped so far (`Plain`). That the statement
may also reach another table or read from it is left out.

The connection fails at most `MaxFailures` times, wherever the code uses it. At start, `known` is what
the schema reader has read when its rows break off (`Shown` is what MySQL would show; `Breaks` lists
the places): it does not ask the rows for an error, so the explorer serves the part it knows.
Before a statement, the statement is not executed; after it, the database has changed and the answer
is lost. Rows that break off are answered as if they were all.

### hw5

`Handlers` follows the generator in two passes: `Apis` finds the marked methods (one record serves all marks
of a method, `Unmarshal`), `ReadFields` collects the fields of a struct with their rules. `Code` writes
the statements of a handler in blocks, the checks of authorisation and method and then one block for each
field, `WrittenUpTo` and `DeferredUpTo` being what `generateValidations` has written and deferred after each
rule. `Wrapper` executes the blocks on a request, `ServeHTTP` chooses the handler by the path.
There are two references, both independent of the generated code. `Answer` says in terms of a request
and the file what the handlers answer and which files build: what is wrong first, in the order
authorisation, method, fields, by the rules that govern a field. `Documented` is written from `hw5.md`, and
differs from it. A file is built with the import of `strconv`, so that one without an int field
does not compile. `Api` models Go's `RWMutex` in its two
parts, announcing a writer and waiting for the readers inside. What a generated wrapper answers by
itself is its constant `Verdict`; `MCApi` assumes it equal to what `Handlers` computes for the same
request, and TLC evaluates that assumption. `Binpack` is the example. A file is a sequence of types;
`StatementsUpTo` and `MethodsUpTo` are what the generator has written behind a field and behind a type, so that
`Generate` also says what it leaves in the file when it dies half way. `Execution` is the state of a
written `Unpack` after each statement, the variable `in` and the bytes not yet read. `PackUpTo` is the
Perl of `pack/unpack.go` that gives it its data, and `Recovers` says what is to become of them.

### hw1, hw3, hw4, hw8

`DirTree`, `FastSearch`, `I2s` are functions of an input, in which recursion is over the code's own:
`DirTree` keeps the prefix a call is given and drops the error of a nested directory, `FastSearch` reads a file as lines of which it says what
each decoder would make of them (an empty file has none, and `SlowSearch` panics on it, since
`strings.Split` gives it an empty line), `I2s` gives the set of results over all orders of a map. What they
are compared with is written independently: the shape of a drawing, the result of the other search,
the type of the data. `SearchClient` is a state machine: `Call`, an answer or a failure (`Return` is
the code after the request), and the caller, who keeps a page, asks for the next one or repeats.

## Runs

| Run | Configuration | Shows |
|---|---|---|
| `single_hash` | `MCSingleHash`, three values, two of them equal | no overheat, no send on a closed channel, checksums paired, only the relays outlive the job, `HashStage` implemented |
| `multi_hash` | `MCMultiHash`, two values, the six prefixes of the code | prefix order, no goroutine left, `HashStage` implemented |
| `pipeline` | `MCPipeline`, seven pipelines, up to four values, two equal | `Signer` implemented: one sorted result whatever the order of the hashes, return after all jobs; nothing lost at a close; the call returns if every value is read and hangs otherwise |
| `service_calls` | `MCMicroserviceCalls`, any three of five calls | complete and equal logs, conserved counts, `EventBus` implemented: no method is served before its event was taken, no stream is more than one event behind |
| `service_stop` | `MCMicroserviceStop`, a log and a statistics stream, cancellation between calls | every call ends if no stream stays unread for ever, shutdown completes whether or not, and nothing panics after it |
| `service_panic` | `MCMicroservicePanic`, one call, cancellation at any time | **violation**: a send on a closed channel |
| `service_leak` | `MCMicroserviceLeak`, one statistics stream | **violation**: its ticker never ends |
| `api` | `MCApi`, six requests | the map is never accessed during a write, identifiers unique, `UserRegistry` implemented |
| `programs` | `MCPrograms`, every input of small sets | generated handlers build when they can and answer by what is wrong first, `FastSearch` prints what `SlowSearch` prints, `dirTree` draws the tree, `i2s` fills all or fails, `Unpack` recovers what was packed, paging with `FindUsers` gives every user once |
| `handlers_documented` | `MCHandlersDocumented`, an endpoint with authorisation and method | **violation**: a request that lacks both is not answered as `hw5.md` says |
| `db_requests` | `MCDbExplorerRequests`, any three of fifteen requests, a failing connection | what was acknowledged stays and is found, deletions told once, changes as asked, connections given back, reasonable requests answered |
| `db_dropped` | `MCDbExplorerDropped`, two updates and an insertion | **violation**: a request without an answer |

### Why the bounds are enough

* *Values in the signer.* What can go wrong between values needs two of them; the third (or the equal
  one) tells a pairing by value from a pairing by position. The proofs cover every number.
* *Pipelines.* Two to five jobs: every kind of job next to every kind it can follow in the repository,
  and each way a pipeline can hang (a last job that sends, a reader that stops early).
* *Calls of the service.* `MaxCalls = 3` of five possible ones: two log streams and an event, a log and a
  statistics stream with an event, an event admitted beside one denied. Each stream is an event itself,
  so three calls give up to three events. `Window = 1` makes `Send` block at the second unread
  message; a larger window only postpones this. `service_stop` needs liveness over two
  streams, one blocked in each of the two places where the code can block (the multiplexer in
  `Send`, a ticker in `Send` with the mutex).
* *Requests of the explorer.* `AtMost = 3` concurrent requests, enough for one that inserts, one that
  changes or deletes and one that reads. The tables are `items` of the tests and two that have the types
  the tests leave out (double, int, BIGINT UNSIGNED, a key the database does not give). `MaxFailures = 1`
  lets the connection fail once, in each place; failures do not act together, since the explorer keeps no
  state of them but `known`. `Breaks` has a start that loses tables and a key, and one that loses a
  column. The fifteen requests meet on records 1 and 3 of `items`, or differ in what the checks see in
  their bodies; `MCDbExplorer` has some more to choose from. `Others` has a record changed in its values,
  and one that is given another key. The proofs cover every other set.
* *Requests of the API.* Two creations and a profile of one login, one of another, one refused by the
  method and one by the wrapper: all ways through each method, interleaved.
* *Form values.* For each rule a value missing, the last one refused and the first one accepted, on
  both sides of min and max; numbers that are none. The proofs cover every file and request.
* *Pages.* `MaxLimit` is 3 in the place of 25, with five users, limits from -1 to 4 and offsets from -1 to 6:
  below, at and above the maximum, the last page full and not, an offset at and beyond the end. Two
  failures: one on a page and one on its repetition. The proofs cover every other number.
* *Inputs of the sequential programs.* Trees of up to four entries, the first number with two directories,
  one of them last, and a file below each; any one directory unreadable. Files of up to three lines, the empty one among them
  (a browser new, seen, of both kinds; a line that is broken, null, too long); the proofs cover every file. Variables of two levels, with
  values of the right and of every wrong kind. Data cut at each byte, of a byte with four values
  (`Base`), so that numbers need up to four bytes and overflow.

`CHECK_DEADLOCK FALSE` is set in `MCPipeline.cfg`, where `ExecutePipeline` really blocks for ever, and in
`MCHandlersDocumented.cfg`, where a handler runs once. Elsewhere a step such as `Terminated`, `Idle` or `AwaitRequest` says explicitly when the system
may rest, and TLC would report any other stop.

## Fairness

* Weak fairness of every goroutine: the Go scheduler runs, sooner or later, each goroutine that can
  run. It is stated per goroutine, not for the whole system.
* Strong fairness where a goroutine competes for something that is taken and given back: `statsMu` and
  the two ways into the `RWMutex` (both pass nobody over for ever: a mutex enters starvation mode, a
  writer lets the waiting readers pass first), and being received from by the multiplexer's `select`,
  which chooses at random. The mutex of `SingleHash` needs none: each value takes it once.
* Clients and the network owe nothing. They may never call, never read a stream, never leave.
  `CallsEndIfRead` therefore says what it needs of them: that no stream whose window is full stays so
  for ever (`ReadOrGone`). Then the ten seconds of the streaming methods end every call.
* `FindUsers` ends: its client gives up after a second (`client.go:16`), so a call that gets no answer
  is one that failed. `PagingEnds` needs no more, as failures are bounded.

## Findings

Four runs show a behaviour of the code that its documentation or tests exclude.

* `service_panic`. `stopOnCancel` closes the three channels before `server.Stop()` (`service.go:310`). A
  call between its arrival and its handler then sends on a closed channel, in a goroutine nothing
  recovers: the process dies instead of stopping (`service_test.go:68`).
* `service_leak`. The ticker goroutine (`service.go:189`) has no way out, so each statistics stream leaves
  a goroutine for ever (`service_test.go:82` asks that none be left; its test opens no such stream).
* `db_dropped`. An update without a known field becomes `UPDATE ... SET  WHERE`; the error of `Exec` is
  printed and its nil result used (`db_explorer.go:336`), and the request ends without an answer
  (`hw6.md:26`, `:28`).
  The run fails likewise for an insertion with an array, which the checks let through (`:455`) and the
  driver cannot bind, and for an update with a quote in a text, which is printed into the statement as
  it is (`:325`; `hw6.md:27` says to mind this). Each of the three requests alone is enough.
* `handlers_documented`. The generated handler checks authorisation before the method (`codegen.go:182`);
  `hw5.md:31-35` lists them the other way.

Other disagreements are in the models, and a reader can see them by changing a constant, but have no
run of their own:

* In `MCHandlersDocumented.cfg`, `AnswersAsDocumented` fails also with `Structs = {"untagged"}`: a field
  without a tag has the rules and the parameter name of the field before (`codegen.go:119`), where by
  `hw5.md:13` everything comes from its own tag. `{"minFirst"}`: a min written before a default is checked
  before it (`codegen.go:305`), where by `hw5.md:27` the default stands for an empty value. `{"named"}`: the error of
  required names `login` whatever the field (`codegen.go:276`; `OtherCreateParams.Username` shows it, too).
  `{"requiredInt"}`, `{"strings"}`: a required int field (`codegen.go:275`), or a file without an int
  field (`codegen.go:45`: an import that is not used), gives code that does not compile, where
  `hw5.md:15-24` asks for both. `AnswersInOrder` states what the handlers do instead in each of these cases.
* A failure of the database that is handed on is answered with status 200 and null, since it is no
  `ResponseError` (`db_explorer.go:147`; `AnswerNull`), where `hw6.md:26` asks for 500. An update whose text
  does not fail its statement may store another text, or change other columns and records, and is
  answered like the one asked for: without the condition `Plain`, `WrittenIsFound` fails for the
  request `quoted`, and without the disjunct `Unescaped(r)` so does `ChangesAsAsked`.
* A log client that stops reading keeps the multiplexer in `Send` (`service.go:162`), and the stream of
  another log client is never taken; the ten seconds of `Logging` do not help. `hw7.md:19` promises the
  log to both. Without its hypothesis `ReadOrGone`, `CallsEndIfRead` fails.
* An int column accepts no JSON number (`db_explorer.go:447`; `ValidField`), and every
  column takes a bool, an array or an object past the checks (`:455`). Rows that break off are answered
  as whole (`db_explorer.go:371`, `:111`). A failed scan keeps its connection (`db_explorer.go:381`; `ScanFails`): `OnlyFailedScansLeak` says that nothing
  else does. `initDbApi` opens a pool of its own in the place of the one it is given
  (`db_explorer.go:87`).
* `FindUsers` says "limit must be > 0" and accepts 0 (`client.go:71`): every page is then empty and has a next
  one (`PagingEnds`). The server's error `ErrorBadOrderField` is compared with that word instead of the
  constant of that name (`client.go:114`).
* `FastSearch` prints for a file that is empty or ends with a newline, where `SlowSearch` panics. It stops without an error at a line its scanner cannot hold (`fast.go:34`), and prints another
  text for a missing name than `SlowSearch`. `AgreesWithSlow` says that, where both print, outputs differ in the last two cases only.
* `dirTree` drops the error of a nested directory and draws it empty (`main.go:71`; `OSReadDir`). No doc or
  test says what it ought to do, and `DrawsTree` asks only for the entries that can be reached.
* The generated `Unpack` ignores the errors of `binary.Read` and returns nil: cut data gives zeros
  (`marshaller.go`; `Recovers` says which).
* `OnlyRelaysOutliveTheJob`, which holds, says that `SingleHash` leaks a goroutine per value.

## Proofs

The proofs are in eight modules and hold for every value of the constants that satisfies the named
`ASSUME` of the module. TLC evaluates the assumptions in every run. They say:

* `SingleHashAssumption`: N is a natural number and the domain of the input is 1..N;
  `MultiHashAssumption`: also at least one prefix.
* `PipelineAssumption`: a pipeline has a job, and jobs that do not read their input come first only.
* `MicroserviceAssumption`: a positive window, and no call has the name of a mark (`"none"`, `"free"`,
  `"mux"`). The access control list, methods and consumers are arbitrary, the calls may be infinite.
* `EventBus` needs none.
* `ApiAssumption`: the functions have the right domains, `FirstID` is above the identifiers the API
  starts with, and those are distinct. Requests and logins may be infinite or of any kind.
* `SearchAssumption`: the maximal limit is positive, limits and offsets are integers.
* `BinpackAssumption`: a byte has a value. It has 256 in Go, and the proofs need no particular number.
* `Programs` has none. Its theorems name what they suppose of the inputs, `RequestsDescribed`,
  `FilesAreLines` and `DataPacked`, and `MCPrograms` assumes all three of its own inputs
  (`InputsAreDescribed`), so that TLC evaluates them on `api.go` and every input of the run. `DataPacked`
  says what the Go compiler and Perl see to: types of a file and fields of a struct have different
  names, the value of an int is an integer, a string consists of bytes and its length fits into a
  uint32, and the data are a prefix, of any length, of what is packed.
* `SortsLikeASort` in `MCPipeline`: sorting by ranks, as `Pipeline` defines it for the proofs, is the
  library's sort, on all sequences of up to four values.
* `DbExplorerAssumption`, `StoredAssumption`, `RequestsAssumption`: what MySQL shows is the schema;
  the records stored at the start fit their columns, and keys the database gave were given in turn;
  columns have one of five types; a request names at most one record, an identifier that is no number
  is that of a DELETE, and the values of its body are what JSON has.

| Module | Theorem | Establishes |
|---|---|---|
| `SingleHash_proofs` | `TypeCorrect`, `NeverOverheats`, `NeverSendsOnClosed`, `AlwaysPaired` | the invariants of run `single_hash`, for any number of values |
| | `HashesEachOnce` | the next job receives one hash of each value: the hashes are a permutation of the values' |
| | `RefinesStage` | safety of `HashStage` |
| `Pipeline_proofs` | `TypeCorrect`, `NothingIsLost` | the invariants of run `pipeline`, for any pipeline made of these jobs, of any length and input |
| | `NeverReturnsUnread` | the safety in `HangsOnUnreadValue`: the call has returned only if every output of every job was received |
| | `OneResult` | with the jobs of the signer, the last job receives at most one result, the sorted hashes of all values: it depends on the input alone |
| | `RefinesSigner` | safety of `Signer`, whatever the pipelines and their inputs |
| `MultiHash_proofs` | `TypeCorrect`, `NeverSendsOnClosed`, `AlwaysInPrefixOrder` | the invariants of run `multi_hash`, for any number of values and prefixes |
| | `HashesEachOnce` | as for `SingleHash` |
| | `RefinesStage` | safety of `HashStage` |
| `Api_proofs` | `TypeCorrect`, `NeverConcurrentMapWrite`, `AlwaysOneIDPerLogin` | the invariants of run `api`, for any requests |
| | `RefinesRegistry` | safety of `UserRegistry` |
| `Microservice_proofs` | `TypeCorrect`, `AlwaysStreamsComplete`, `AlwaysConserved` | the invariants of run `service_calls`, for any calls, list and window, however the service is stopped |
| | `NeverPanicsBetweenCalls`, `RestsForGood` | the safety in `ShutdownCompletes`: no panic if the context is cancelled only between calls, and then the end state is never left |
| | `RefinesBus` | `ImplementsBus`: the service is an event bus |
| `EventBus_proofs` | `HandsTheLog` | every call logged once and before it is served, subscribers handed the log from where they joined |
| | `NeverTwoBehind` | a subscriber who stays is at most one event behind |
| `DbExplorer_proofs` | `TypeCorrect`, `AlwaysWrittenIsFound`, `AlwaysDeletedOnce`, `AlwaysOnlyFailedScansLeak`, `AlwaysReasonableAnswered` | the invariants of run `db_requests`, for any schema, records, requests and number of failures, whatever unescaped statements do to their tables |
| | `AlwaysChangesAsAsked` | its action property |
| `Programs_proofs` | `TypeCorrect`, `AlwaysEveryUserOnce` | `EveryUserOnce`, for any limit, offset, users and failures |
| | `FastSearchAgrees`, `AlwaysFastPrintsAsSlow` | `FastPrintsAsSlow`, for files of any lines and length, the empty one included |
| | `HandlersAnswer`, `AlwaysAnswersInOrder` | `AnswersInOrder`, for any request and any Go file with fields of int and string and each rule once in a tag, in any order: any number of methods, marks, fields and rules, whether the file builds or not |
| | `UnpackWritten`, `AlwaysUnpackRecovers` | `UnpackRecovers`, for any Go file, struct, values, number of values of a byte, and data cut anywhere |

None of the invariants is inductive by itself. What is added (`IInv` of each module):

* *SingleHash.* `IInv` adds `MutexInv` (the mutex is held by exactly the goroutine between `Lock` and
  `Unlock`, and the overheat flag is up only inside its `DataSignerMd5`), `StartedInv` (goroutines exist
  for the values taken, and the loop is left only with all of them), `CountInv` (the `WaitGroup` equals
  the number of combiners that have not ended) and `PairInv` (what is on its way to a combiner was
  computed from its value). `NoOverheat` follows from `MutexInv`; `NoSendOnClosedOut` from
  `StartedInv` and `CountInv`, since a counter of zero then means that no combiner lives.
* *MultiHash.* The same `StartedInv` and `CountInv`, and `ResultInv`: a joiner at loop variable i has
  concatenated the checksums of the prefixes below i (`Partial`, with a lemma for one more).
* *Pipeline.* `WgInv` counts the jobs that have not exited, `SentInv` says which outputs a job can
  have sent by its kind, `LinkInv` that the next job has received as many, and `CloseInv` that a job
  on its way to `close` has nothing left to send and, if it ranges over its input, that its
  predecessor has closed. `NothingLostOnClose` is `CloseInv` seen through `LinkInv`; `StartInv` is needed
  because job 1 is started last and its successors wait for it. `ReadInv` (the last job's outputs are
  received by nobody, `CombineResults` has sent when it returns) gives `NeverReturnsUnread`. For the signer,
  `OrderInv` says that what a job received is a rearrangement of what its stage makes of the input, from
  job to job; a sort of it is then one sequence (`SortedOfRearranged`), which is `ResultInv`.
* *The two hash stages.* `OutInv` adds that what the next job has received are the hashes of the values sent, in
  some order. It holds of every step of `HashStage`, so that both prove it through their refinement;
  when the channel is closed all values are sent, hence `HashesEachOnce`.
* *Microservice.* `CallInv` places a call by what the log and its answer say, `StreamInv` makes the
  multiplexer's slice the set of joined streams without repetition, `WindowInv` makes what a stream
  was sent a part of the log from where it joined. `ProgressInv` is the heart: while the last event is being sent,
  the streams before `idx` have all of the log, the others all but that event. With `mux` back in
  `select`, it gives `LogStreamsComplete`. `MutexInv` (who holds `statsMu`, by the places of multiplexer and
  tickers) and `TickerInv` (a ticker for each statistics stream, which counts nothing dispatched before)
  make `StatsConserved` inductive: without the mutex a count would fall between report and reset.
  `ShutdownInv` says that channels are closed after the cancellation only, and that then no call is on
  its way to one, if the cancellation came between calls.
* *EventBus.* A call is published only if it was neither published nor refused, and served
  only when published, hence `Once` and `LoggedFirst`; `Publish` waits
  for every subscriber who is behind, hence `OneBehind`. By `RefinesBus` both hold of the service as well.
* *DbExplorer.* `RouteInv` remembers what the body of a request was checked for when its statement runs, and
  `KeyInv` that the database has given the keys of all records. `DeleteInv` needs it: a key once
  deleted lies at or below the counter and is never given again, so no later statement finds it. `WriteInv`
  (a written record holds what was sent while nobody else may touch it) and `ReadInv` (a reader who
  came after the answer finds that record, from the scan to the reply) need `AnswerInv`, which orders
  answers and arrivals. `ConnInv` says who keeps a connection, `DropInv` that a dropped request was
  unreasonable: it rests on the types, that every record fits its columns (`Fits`), because
  what a check lets through must then suit strict mode. `PlainBefore` says that a table on which
  no request is unescaped after a step was so before it: the two invariants about written and deleted
  records are claims about such tables, and the steps of unescaped requests leave them nothing to show.
* *Api.* `LockInv` ties the fields of the `RWMutex` to the program counters (who is a reader inside,
  who is the only writer), `FreshInv` says that a creator past its check still finds its login free
  and that the identifier it took is above all others, `OwnerInv` that identifiers are unique and
  two successful creations have different logins, `ResultInv` when a result is there.
* *SearchClient.* `SentInv` (a request is only sent with a limit and an offset that are not negative),
  `OffsetInv` (the caller is where he began or among the users found), `PageInv` (a successful call
  returned the window of the page's length at the caller's offset, and `nextPage` says whether
  anything lies behind it). The lemmas `WindowProperties` and `WindowProlongs` say how long a window
  is and that one behind what was read prolongs it.
* *FastSearch, the handlers, Unpack.* These are functions of an input, and the proof is an induction over its length
  in the only form the provers take: the least place where a claim about a prefix fails is not the first, and
  the place before it gives a contradiction (`Least`, `UpTo`). Recursive functions get their
  values from `Recursion`. For the searches the claim (`Alike`) is that both have found the same users and seen
  the same browsers, if neither has stopped. For the handlers there are three such inductions: over the rules of a
  field (`WrittenKeeps`, `DeferredKeeps`: the checks written are those of the rules that govern it, in
  their order, but enum behind the others), over the statements of a block (`FieldAnswers`: the block goes on with
  the value after its default if the field breaks no rule, and answers 400 with the name it blames otherwise), and over the
  blocks (`WrapperAnswers`: the first field with a broken rule decides). `HandlersAnswer` supposes `IsApiFile` only: names
  of methods are different, fields are ints or strings, and a tag has each rule at most once. Which
  files build is part of its claim, and so are untagged fields, rules in any order, and requests wrong
  in several ways. For `Unpack` there is one over the types of a file (`GeneratedIs`: the
  methods written are those of the marked structs, up to the first that cannot be finished) and one over the
  fields (`UnpackRight`: behind the statements of the first k fields, those fields have their values and
  what is left to read is what was packed behind them, or nothing if the cut came before). That a number
  comes back from its bytes modulo `Modulus` is `Uint32OfBytes`.

The refinement theorems show that initial states map to initial states and each step to a step of the
abstract next-state relation or to one that leaves its variables alone. The abstract liveness is not
part of them.

*Only model-checked:*

* All liveness properties (`CallsEndIfRead`, `PagingEnds` and the like), since neither fairness nor ENABLED is
  within reach of the provers, and with them the liveness half of the refinements of `HashStage`, `UserRegistry`
  and `Signer`.
* `ReturnsIfAllRead`, `OnlyRelaysOutliveTheJob`, `EveryGoroutineEnds` of `MultiHash` and `HangsOnUnreadValue` are liveness too;
  what is safety in them is proved (`NeverReturnsUnread`, `NeverSendsOnClosed`, `RestsForGood`).
* `DrawsTree` and `ConvertsOrFails`: `DirTree` and `I2s` recur over trees and over nested data with
  RECURSIVE operators, from which no theorem may be reached.
* `SortsLikeASort`, whose other side is an operator with an operator parameter.

## What is not modelled

* hw7: a failure of `net.Listen` or of the gRPC library, hosts and timestamps of the events, encoding.
  Unary calls whose client leaves: they return at once.
* hw6: identifiers that are not numbers in GET and POST, where they are bound as parameters and MySQL
  converts them; a POST without one; what an unescaped statement does to tables other than its own;
  columns of type FLOAT, which round; schema changes while the program runs (excluded by `hw6.md`). The two pools of `initDbApi` are one. The
  `backup` directory, which is no part of the program and does not compile.
* hw5: the parser of Go (the generators are given what it gives), the text of code and answers.
* hw4: encoding of the request and of JSON. hw3: the encoder in `common.go`, which nothing calls. hw1: the
  sizes of files in the drawing.
* hw2: durations; the properties hold for every relative speed.
* Vendored and generated code, profiles and coverage reports.

## Plan

The order puts first what is concurrent and long-lived, where tests reach least.

1. *Done.* The signer: `HashStage`, `SingleHash`, `MultiHash`, `Pipeline`, `Signer`, with proofs of the
   two jobs.
2. *Done.* The microservice with its three environments.
3. *Done.* The user API with proofs; the generator; the explorer.
4. *Done.* The sequential programs, compared with definitions written from their documentation; paging
   with `FindUsers`, with proofs. A failing connection in the explorer. The event bus.
5. *Done.* Proofs of `EventBus`, of `Microservice` with its refinement, of `Pipeline` for any pipeline and of
   `DbExplorer` for any schema.
6. *Done.* Proofs that a hash stage gives each hash once, that the signer has one result, of `FastSearch`, of
   the generated handlers and of the generated `Unpack` for every input.
7. *Open.* Of `DbExplorer`, which answers a failing connection can give. `DirTree` and `I2s` without
   RECURSIVE operators, as `Binpack` is, and proofs of `DrawsTree` and `ConvertsOrFails`.
