# tinytap in TLA+

tinytap watches the HTTP traffic of a Linux machine. BPF programs copy the first bytes of what processes
read and write, on system calls and inside libssl, into ring buffers; a Go program takes the events out,
reassembles HTTP messages, pairs requests with responses and shows the pairs as a terminal interface, as
text or as JSON. These modules specify the parts of it in which the order of steps matters. TLC checks them
on small instances, and TLAPS proves every safety property that a passing run checks, of the pairer, the stream
parser, the capture loop, the TLS capture and its watcher, the session, the BPF programs, the loader and the
terminal interface, for every value of the constants. Liveness is left to TLC.

## 1. The system

### Components

Paths are relative to the root of the repository's sources (`src/`).

| Component | Code | State | Operations | What makes it correct |
|---|---|---|---|---|
| System call probes | `bpf/tinytap.bpf.c`, `bpf/tinytap_kprobe.bpf.c` | `incoming_pending_map`, `sendfile_sample_map` (by thread), ring buffer, drop counters | one handler for each entry and exit of a system call, `fentry/tcp_sendmsg_locked` | a sample is of its own call and a prefix of its data; no entry survives its call; what is lost to a limit is counted |
| TLS probes | `bpf/tinytap_uprobe.bpf.c`, `tinytap_sslsetfd.bpf.c` | `ssl_fd_map`, ring buffer | `SSL_set_fd`, `SSL_read`, `SSL_write`, `SSL_free` | an event finds the descriptor of its own connection |
| TLS capture | `cmd/tinytap/tlscapture.go` | the event in hand, a sweeper | read, `Lookup`, push, `Delete` on free, sweep | one key for each connection; a free tears that key down and no other |
| TLS watcher | `cmd/tinytap/tlswatch.go` | `seen`, `probes`, `payloadProbes`, `closed`, `closedDrops`, the semaphore, `attachSkipped` | `OnEvent`, `maybeAttach`, the reaper, `dropCounts`, `Close` | every probe has one owner; slots and drop counts balance; nothing stays attached |
| Stream parser | `internal/protocols/http/parser.go` | two streams for each connection, the queue of request methods | `Feed`, `FeedSSL`, `Close`, `CloseSSL` | messages are framed as they were sent, however events cut them and however short the samples are; what is lost is told |
| Pairer | `internal/protocols/http/pairer.go` | `pending`, `heldResponses` | `Push`, `Close`, `CloseSSL`, `Sweep` | each request is reported once; first with first; never across connections |
| Capture loop | `cmd/tinytap/capture.go` | the mutex, `done` | the reader's loop, the sweeper, the join | no report after the sink was closed; the capture ends |
| Session | `cmd/tinytap/run.go`, `diag.go`, `internal/drops/drops.go` | who runs, where `log` writes, the diagnostic buffer, the last counts | `runTUI`, `runStdout`, `pollDrops`, `closeOnInterrupt`, `reportDrops`, the deferred calls | the process ends; the summary is complete; no line of the log is lost |
| Probe loader | `internal/loader/load.go`, `load_kprobe.go`, `load_uprobe.go`, `handle.go` | objects, links, readers; the cache of executables | `Load`, `AttachSSLSetFd`, `AttachSSLReadWrite`, `Close` of each | whatever fails, nothing stays in the kernel; programs attached one by one do not mix up calls |
| Terminal UI model | `internal/output/tui/model.go` | rows, selection, filter, follow, panels, body budget | one update for each message or key | the selected row is visible and stays selected; the filter is current; memory is bounded |
| Discovery of libssl, decoding, output, configuration, doctor | see `PROJECT.json` | none that lives across calls | – | input and output, not modelled |

### How they interact

```
 threads ──syscalls──> BPF maps ──> ring ──> capture loop ──> parser ──> pairer ──> sink (TUI, stdout, JSON)
                                              │  sweeper ───────────────> pairer        ▲
                                              └─ OnEvent ──> TLS watcher (goroutine per pid) ──> loader
 libssl ──uprobes──> ssl_fd_map, ring ──────────────> captureTLS ──> parser, pairer ────┘
 main: runTUI / runStdout, pollDrops, signal handler, log ──> diagnostic buffer ──> TUI
```

* The capture loop and its sweeper share the pairer under a mutex. Each TLS capture has its own parser and
  pairer, and a sweeper of its own.
* The watcher is called by the event readers, starts goroutines, and is closed by the deferred `closeSink`.
* The terminal program receives messages by `prog.Send`, which *blocks* until the program runs and returns
  at once after it ended; the capture goroutine, `pollDrops` and `log.Print` (holding the logger's lock) all
  call it.

### What is hard about it

* **Order.** The two directions of a connection are captured at different points of a call, so a response
  may be seen before its request; events cut messages anywhere; samples are shorter than the data.
* **Reuse.** Descriptors, SSL addresses, thread ids and process ids are used again, and the tables keyed by
  them are cleaned by events that are handled later.
* **Mishaps.** What the probes show is not always what went over the wire: samples cut a header, ring buffers
  and maps overflow, writes are made again, reads return after a close, programs are attached while calls are
  under way.
* **Concurrency.** Attach goroutines, reaper, `Close`, late events and exiting processes in the watcher;
  main, capture goroutine, `pollDrops`, signal handler and log writers in the session.
* **Limits.** Map and ring buffer capacities, `maxHeldResponses`, `maxBufBytes`, `maxBodyBytes`, the
  semaphore, the diagnostic buffer.
* **Timeouts.** A request is given up after a timeout while its response may still be on its way.

`PROJECT.json` lists these hazards at their lines, with the properties that cover each one, or the reason
why none does yet.

## 2. The modules

| Module | Models | EXTENDS / INSTANCE |
|---|---|---|
| `Exchanges` | the contract of the pairer: open, answered, closed, given up | – |
| `Pairer` | `pairer.go` | `Exchanges` as `Contract` |
| `PairerProofs` | theorems on `Pairer` | `Pairer` |
| `StreamParser`, `MCStreamParser` | `feed` and `advance` of one stream | – |
| `StreamParserProofs` | theorems on `StreamParser` | `StreamParser` |
| `Capture`, `MCCapture` | `capture.go`, the method queue and `Parser.Close` | `Pairer` as `P` |
| `CaptureProofs` | theorems on `Capture` | `Capture`, `PairerProofs` as `PP` |
| `SSLCapture`, `MCSSLCapture` | `tlscapture.go` and the TLS probes | `Pairer` as `P` |
| `SSLCaptureProofs` | theorems on `SSLCapture` | `SSLCapture`, `PairerProofs` as `PP` |
| `SSLWatcher` | `tlswatch.go`, `openExecutable` of `load_uprobe.go` | – |
| `SSLWatcherProofs` | theorems on `SSLWatcher` | `SSLWatcher` |
| `Session` | `run.go`, `diag.go` | – |
| `SessionProofs` | theorems on `Session` | `Session` |
| `SyscallCapture`, `MCSyscallCapture` | the handlers of the BPF programs | – |
| `IovSample`, `MCIovSample` | the sample loop over iovecs | – |
| `Loader` | `internal/loader`: loading, unwinding, closing | – |
| `ProbeProofs` | theorems on the three modules of the probes | `SyscallCapture`, `Loader`, `IovSample` |
| `TuiModel`, `MCTuiModel` | `internal/output/tui/model.go` | – |
| `TuiProofs` | theorems on `TuiModel` | `TuiModel` |

Operators whose name ends in a fault, after an underscore (`HandleFree_SSLSideOnly` is one), precede the definition
they differ from, are commented "Fault:", and occur in no specification: each is a plausible mistake in that piece
of code, and a run with it in place of the definition shows that the property listed beside it in `PROJECT.json`
would notice.

### Pairer and Exchanges

`pending` (a map from key to queue) and `heldResponses` (a slice) are kept in order of arrival, so both are
sets of message numbers here, and "head of the queue" is "smallest number of that key". A call of `Push` is one
of four actions: the request that finds a held response, the request that is queued, the response that finds
the head of its queue, the response that is held (where `holdResponse` may evict the oldest held response of
*any* key). `Close` and `CloseSSL` are `CloseKey`; `Sweep` reports what is `overdue`. Whether
`now - arrivedAt >= timeout` is the only thing the code does with a clock, and it becomes true in the order of
arrival: `Expire` makes the oldest request that is not overdue so. `log`, `life`, `paired`, `closed`,
`timedOut` and `lossy` are history; no guard of the code's steps reads them, except that a close of a key
that saw no message is left out (it changes nothing).

`Exchanges` says the same to a reader who knows no queues: a request is open until one event reports it;
answers on a connection go up in both components; nothing is reported after a connection closed. `Pairer`
implements it (`ImplementsContract`), checked and proved.

### StreamParser

One direction of one connection. A message is a sequence of *units* (a start line, a header field, a chunk
size, a byte of a body, a CR, an LF). An event delivers a number of units, of which the sample has a prefix, and
`feed` is one action for each event: drain what is due of a body or chunk, append the rest to the buffer, and
`advance` until it stops; where the sample is short the byte count stands in for what it lacks. `advance` is a
loop over the states in the code; here it is a function from the number of iterations to the stream and the messages
so far, and two iterations more than the buffer has units are enough: that the loop has ended by then is proved. The
run cuts the messages in all possible ways into events. `split` remembers the one cut at which the code gives a stream
up without counting it (section 5).

### Capture

The reader's loop with both streams of a connection, the queue of methods that decides whether a response
has a body, the pairer, the sweeper, the join, and the close of the sink. The mutex is held over a whole
event or a whole sweep, so each is one action. The process may answer early, pipeline, send interim
responses, and close the descriptor in the middle of an exchange and get it again. `sent` says for each direction
which exchange it is in and how many events of its message have come: head, body, and interim response where there
is one (`EventsOf`).

A *mishap* is a step at which the probes show something else than the wire: `FeedCutHead` (a sample that lacks a
part of a header), `FeedAgain` (an outgoing call that is made again after EAGAIN or a short write, but is
captured at its entry both times), `FeedUnderstated` (more than `MAX_IOV` iovecs), `FeedLate` (an incoming call
that returns after its descriptor was closed and used again). What the parser makes of a stream that lost its
place is left open, so the properties that survive a mishap do so for every such outcome.

### SSLCapture

Connections that use SSL addresses and descriptors one after the other, the uprobes with their maps and the
ring buffer, the reader goroutine in two steps, `Take` (read, then `Lookup`) and the handling, and the sweeper
that `captureTLSWithOptions` starts beside it: `Expire` is the time that makes a request overdue, `Sweep` the tick
that reports what is. A sweep may come between `Take` and the handling, for the mutex is held over the latter only;
the join of the sweeper at the end is as in `Capture`, and modelled there. `RingCap` and
`MapCap` are the sizes of ring and maps; what finds them full is dropped and counted. A read is two actions,
entry and return, with the entry of its thread in `ssl_read_pending_map` in between. The process may close a
descriptor before it calls `SSL_free`, call `SSL_write` again, and reuse addresses and descriptors as soon as
the *process* is done with them, which may be before the capture is; `raced` remembers who was involved in
that.

### SSLWatcher

One action is what one actor does between two points at which another can run: a critical section of `w.mu` or
one call into the kernel. A probe is named by the goroutine that opened it, so that a leak is a probe nobody
owns. Processes exit at any time, and one pid is used again. All processes of the model map the same library,
so that `exCache` has one entry; the kernel resolves the path in it at each attach (external behaviour: an
attach to a path that is gone fails).

### Session

Every statement of `runTUI`, `runStdout` and the deferred calls that another goroutine can notice is an action
of `main`; `pollDrops` is four (select, read the maps, compare with the watcher's counts, send), for it reads
the two sources one after the other. `SendReturns` is what `prog.Send` waits for.

### SyscallCapture and IovSample

A thread is in at most one system call. Calls treated alike are one kind; splice(2) has no program of its own
but passes `fentry/tcp_sendmsg_locked` as sendfile does. `Own` are the threads of tinytap,
which the code tells apart in `submit_event` and `stash_incoming` but not in
`handle_tcp_sendmsg_locked`. `EnterUnseen` is an entry that leaves no trace: the message header could not be read
without a page fault, or a map that is not full refused the entry. The call goes on, and may move data;
`unseen` remembers it.

`IovSample` is the loop over iovecs, one iteration a step, for all counts, lengths and failing reads. `Word` stands
for 2^32: lengths of iovecs are narrowed to it, and `total` wraps at it. `Room[n]` is the room in the first n iovecs,
and thus where the data of the next one begins.

### Loader

One probe set is loaded: `"tinytap"` (`Load`, `tryAttachKprobe`, `Tinytap.Close`), `"sslFd"` or `"sslPayload"`
(the two attach functions of `load_uprobe.go` and their `Close`). `open` is what the kernel keeps, `links` and
the two flags are what the Go struct knows: an object in the first and not in the second is a leak after
`Close`. Each step may fail. Meanwhile threads enter and leave calls; an entry program that is attached before
its exit program leaves entries behind, which is what `pending` tracks.

### TuiModel

The variable `m` is the Go struct. `Update` is a function from struct to struct, and so is each operator here; an
action is one case of the switch followed by the three clamps. A row keeps what `Update` looks at: how many
letters of the filter term it matches, the bytes of its body and the lines that body decodes to. Rows have one
textual body and no headers, so that their detail content is seven lines and the body's. The loops over the rows
are recursive functions on the number of rows looked at: `Matching` is the slice that `rebuildFilter` builds,
`BodySums` what `evictBodiesOverBudget` adds up.

## 3. What TLC checks

All runs are complete explorations; numbers are distinct states.

| Run | Instance | States | What it shows |
|---|---|---|---|
| `Pairer` | 3 keys, 4 messages, one held response | 24 k | the limit on held responses is kept; no request is lost; n-th request with n-th response of a connection, as long as the connection lost no message; the contract; every request is settled |
| `StreamParser` | 2 messages of every framing, 3 short ones with lossy samples, all cuts | 192 k | exact framing, the timestamp of the first byte, marks of truncation, the count of losses |
| `Capture` | 2 exchanges on each of 2 connections of a descriptor, one mishap | 857 k | heads taken for heads, right exchange, a mishap spoils one connection only, nothing after the close, the capture ends |
| `SSLCapture` | 3 connections with 2 exchanges in all, 2 addresses, 2 descriptors, ring of 2, maps of 1, 2 mishaps | 4487 k | right exchange, one key, a close abandons requests of freed connections only and none the sweeper reported, a free tears down, what is lost is counted |
| `SSLWatcher` | 2 pids, 2 goroutines, 1 slot, one pid reused | 584 k | slots, owners, no double capture, drop counts, no probe left |
| `Session` | TUI or stdout, 2 lines, 2 drops of each kind | 182 k | no deadlock, the process ends, the summary covers what the header said, every line is printed |
| `SyscallCapture` | 2 threads and one of tinytap, maps of 1, ring of 1, 4 calls | 2173 k | no stale entry, own samples, no uncounted loss to a limit |
| `IovSample` | up to 5 iovecs of up to 7 bytes, lengths that wrap at 6, budgets 2, 1, 1, 0 | 3923 k | the sample is a prefix, and as long as the budgets allow |
| `TuiModel` | 3 rows at most, 2 letters, heights 2 and 10 | 92 k | no index out of range, selection visible and steady, filter current, body budget, every line of a panel can be read |
| `Loader` | 2 threads, 3 probe sets, every failure | 26 k | nothing left open, users closed before what they use, no call with another's arguments |

Two runs expect a violation: `CaptureContinue` and `SSLWatcherStale` (section 5).

### Why these bounds

* `Pairer`: eviction across keys needs two keys and one held response (`MaxHeld` = 1 stands for 256); an
  interaction of two exchanges needs four messages. The safety part is proved without bounds.
* `StreamParser`: what one message can leave to the next shows with two. `MaxBufBytes` = 4 is the size
  of the longest header block, so that "just fits" occurs; `MaxBodyBytes` = 3 is exceeded by one. The
  scenarios are listed in `MCStreamParser`: complete samples for every framing; samples that lack units of a
  body or the CRLF of a chunk; samples cut anywhere, for messages framed by Content-Length.
* `Capture`: two exchanges for pipelining, two connections for the reuse of a descriptor, one mishap
  (`MaxMishaps`) anywhere. `MaxHeld` is never reached in an undisturbed connection; eviction is `Pairer`'s matter.
* `SSLCapture`: with three connections on two addresses, one address is used again while another is in use; with
  the map of one entry and the ring of two events both overflow. Two exchanges (`MaxRequests`) may be of one
  connection or of two. `MaxMishaps` = 2 bounds losses, repeated writes, early closes and timeouts together, so that
  each is seen alone and with each other one: a timeout beside a lost `SSL_free`, two requests that
  time out. Connections are symmetric.
* `SSLWatcher`: two goroutines suffice for every conflict over one slot, one registration, or with `Close`; one
  pid is used again once. `MaxDrops` = 1 tells counted from not counted and from counted twice.
* `Session`: a buffer of one line overflows with two. Two drops of each kind make a count read before and
  after differ in both sources.
* `SyscallCapture`: every capacity is 1 and is exceeded; four calls let a thread leave something to its next
  call while another fills the map, and a call that is not seen precede or follow one that is. Threads of applications
  are symmetric.
* `TuiModel`: three rows, of which the oldest is evicted by the fourth; a term of two letters is narrowed and
  widened; at height 2 table and panel have no line, at height 10 the panel has three and the table two. The
  bodies together exceed `BodyBudget`.
* `Loader`: of the sixteen tracepoints those of two calls that share a map are kept, in their order; two threads
  are one that leaves an entry and one that must not care.
* `IovSample`: one iovec more than `MAX_IOV` (4 for the code's 8), budgets with the code's ratio, and a zero. With
  `Word` = 6 a length may be over every budget and yet fit, and lengths of six and seven wrap to an empty iovec and to
  one that is within its budget.

Deadlock is checked in `Session`, where it is the question, and in `TuiModel`, where a key is always possible. The
other models stop at their bounds (`CHECK_DEADLOCK FALSE`).

### Conditions in properties

Some properties hold under a condition, which is part of the formula:

* `PairedByPosition` for connections that lost no message by eviction or timeout.
* `RightExchange` of `Capture`: that a pair stays within its connection holds always; that it is of one exchange,
  on connections without mishap or timeout and with no interim responses (section 5 says why).
* `FramedByItsRequest`: on connections without mishap.
* `ExactFraming`, `LossIsCounted`: as long as no event ends between the CR and the LF of a chunk whose sample did not
  reach the CR (`split`; section 5).
* `OneKey`, `OnlyFreedAbandoned`, `FreeTearsDown` of `SSLCapture`: for connections that did not reuse, before the
  capture was done with it, what another one had (`raced`). `OnlyFreedAbandoned` is about requests abandoned because
  their peer closed: the sweeper gives up requests of live connections, with a reason of its own.
* `RightExchange` of `SSLCapture`: unless a drop counter is up, so that the user is told, or the key holds, since
  it was last torn down, a request that timed out or a message of a connection that raced or repeated a write. That
  message need not be one of the pair: a single message too many or too few shifts every later pair of that life of
  the key, and no other life.
* `NoSilentLoss` of `SyscallCapture`: for calls whose entry left a trace (not `unseen`).
* `SampleIsPrefix`: as long as the lengths of the iovecs looked at fit in 32 bits (`Wrapped`).
* `EveryProbeOwned`, `NoDuplicateCapture` and `EventuallyNoProbes` of `SSLWatcher`: for the probes of pids that
  were not used again, whether or not another pid was (`Regular`).
* `SampleIsOwn`, `EntriesOfCallsUnderWay`: but for what a splice leaves.
* `OwnArguments`: for calls entered when loading is done.
* `EveryLineCanBeRead`: for panels of three lines or more.

The runs reach the states on both sides of these conditions.

### Fairness

* `Pairer`: weak fairness of `Expire` (time passes) and `Sweep` (a ticker of ten seconds). No fairness of
  pushes: a peer may be silent for ever.
* `Capture`: weak fairness of the read that fails on a closed reader, of the sweeper's return, of the join
  and the close. `Sweep` needs none.
* `SSLWatcher`: goroutines run (`findWithRetry` is a finite loop); the reaper closes what it took;
  strong fairness for `ReaperStops`, as the reaper's `select` with both a tick and `stopReaper` ready
  picks at random; the user ends the capture.
* `Session`: every goroutine that can go on does; strong fairness where `select` picks at random
  (`PollStops`) or a lock is handed around (`RestoreOutput`). None for rows, ticks, signals or the user: if
  the user never leaves, the session goes on, and `ProcessEnds` does not ask for more.

## 4. What TLAPS proves

Every theorem holds under the assumption on the constants that the module of its component states, and that TLC
evaluates in each run of it:

| Assumption | Says |
|---|---|
| `ConstantsAssumption` of `Pairer` | keys are made of sets of numbers, the limits are positive or natural numbers |
| `CaptureAssumption` | plans are sequences of exchanges, there is a connection at least, the key of the capture is one of the pairer's |
| `SSLCaptureAssumption`, `NoneAssumption` | addresses are not 0, as `adapt.go` takes 0 for "no SSL*", capacities are positive, `None` is no value |
| `ConstantsAssumption` of `SSLWatcher` | at least one slot, `None` is no process and no goroutine; finitely many goroutines, as many as there may be |
| `ConstantsAssumption` of `StreamParser` | the messages of the scenarios are well formed (a Content-Length is one number, a chunk is not empty, a message without a header that frames has no body or is of a kind that has none); the buffer has room for a header block of one field; samples may lack anything only where nothing is chunked |
| `SessionAssumption` | the diagnostic buffer has room for a line; the bounds are natural numbers |
| `SyscallAssumption` | positive capacities, a finite set of threads |
| `IovAssumption` | a budget for each iovec, within the size of a sample |
| `ConstantsAssumption` of `TuiModel` | positive limits for rows and diagnostic lines; a row without a body has no lines to show of one |

`Loader` needs none. None of them bounds anything by a number.

### PairerProofs

| Theorem | States |
|---|---|
| `TypeCorrect` | `Spec => []TypeOK` |
| `HeldBoundHolds` | the slice of held responses never outgrows its limit |
| `NeverBothWaitingHolds` | a request never waits beside a held response of its key |
| `SameConnectionHolds` | a pair never joins two lives of a key |
| `InOrderHolds` | the pairs of a connection go up in both components |
| `NoRequestLostHolds` | every request that was pushed still waits or was reported |
| `ReportedOnceHolds` | a request is reported at most once, a response used at most once |
| `PairedByPositionHolds` | on a connection that lost nothing, the n-th request is paired with the n-th response |
| `ContractHolds` | `Pairer` implements `Exchanges` |

`PairedByPosition` is far from inductive: it speaks of pairs only, but whether the next pair is right depends
on how much is waiting. The argument goes up in layers, each a conjunct of the next invariant:

1. `TypeInv`: types, and counters bounded by the length of the log (a key was closed at most as often as it
   saw messages, hence `life` stays within its bound).
2. Waiting: what waits under a key is of the key's current life, requests in `pending` are requests, and a
   request and a held response never wait under one key. The last part needs that the four alternatives of `Push`
   exclude each other.
3. `SameConnection`: a new pair has one member from the queue of the key, hence of its current life, and one that
   arrives now.
4. Order: everything paired on a connection is older than everything that waits on it. This gives
   `InOrder` for the next pair, and `ReportedOnce`.
5. Limit and sortedness: positions in one direction of a connection go up with message numbers and are bounded by
   `reqs` and `ress`.
6. Alignment: on a connection that lost nothing, the pairs and the queue together are *all* positions so far
   without gaps. The next pair therefore has the next position on both sides.

The refinement needs 2 and 4: a step of `Push` is `Answer` only if the request is the first of all open ones and
later than all answered ones. Steps of `Expire`, and evictions, are stutters of the contract.

### ProbeProofs

One module for the three of the probes. It extends all of them, which is why the names of their initial states, steps
and specifications differ: `Init`, `LoaderInit`, `SampleInit`, and so on.

| Theorem on `SyscallCapture` | States |
|---|---|
| `EntriesHold` | no map holds an entry of a call that is over, samples of splices excepted, for any number of threads, calls and any sizes of the maps |
| `SampleIsOwnHolds` | a sendfile event carries a sample of its own call, of a splice, or none |
| `NoSilentLossHolds` | calls that moved data and have no event are not more than the drops that were counted, but for the calls whose entry left no trace |

`SampleIsOwn` speaks of events that are out; the next one is right because of `EntriesOfCallsUnderWay`: both
the pending call and the sample of the thread that returns are those of the call it is in, or the sample is that
of a splice. `SplicesKnown` (splices have numbers of calls so far) is what lets the next call be no splice.

`NoSilentLoss` is not inductive, because a call that finds the map full is counted when it enters but owes its
event only when it returns with data. The invariant `LossInv` bounds the calls that are missing *or under way
and not stashed*, the unseen ones apart; each step adds at most one call to that set, and counts it if it does.

| Theorem on `Loader` | States |
|---|---|
| `NothingIsLeftOpen` | in `failed` and `closed` the kernel keeps no handle |
| `UsersAreClosedFirst` | programs and maps outlive the links and the reader, at every step; a loaded set is complete |
| `ArgumentsAreOwn` | no call entered after loading, and no call of `SSL_read` or `SSL_read_ex`, is reported with the arguments of an earlier one |

The first two follow from `HandlesInv`, which says for each phase what the struct knows of what is open: while
loading, every open handle is in `links` or has its closer set, except the kprobe objects between the two steps of
`tryAttachKprobe`; while closing, every open handle is in what is still to close, the reader first and the objects
last. `CloseOrderFacts` takes the list of `Close` from one to the other.

`ArgumentsAreOwn` needs two reasons, one for each half. A call entered when all was loaded has an entry program,
so its own arguments lie in the map (`OwnEntry`), whatever was left there. For the calls of libssl, as long as
there is a reader, an entry is there only if the entry program is, and then it was replaced when the call began
(`FreshEntries`); `Close` takes the reader away before the entry programs. The single map of the system calls has no
such invariant: before all is loaded, an exit program may take what another call left.

| Theorem on `IovSample` | States |
|---|---|
| `SampleIsPrefixHolds` | the sample of a scattered buffer is the start of its data, without a gap, and complete unless it is marked as truncated, for lengths of iovecs that fit in 32 bits |

`SampleInv` adds what the loop needs to go on: `remaining` is what the call moved less what lies in the iovecs so far,
and the sample ends where the data of the next iovec begins, unless `truncated` is set. An iovec appended anywhere
else would leave a gap, and that is what happens behind an iovec whose length wraps. `RoomFacts` unfolds the recursive
function; `GoOn` is the one fact about sequences.

### StreamParserProofs

| Theorem | States |
|---|---|
| `InvHolds` | the inductive invariant `Inv` |
| `ExactFramingHolds` | after each event exactly those messages are emitted whose last unit was delivered, unless samples lack more than body units or an event split a CRLF that its sample lacks |
| `TimestampOfFirstByteHolds` | with complete samples, a message carries the timestamp of the event its first byte came with |
| `CutIsToldHolds` | a body is marked as truncated exactly when it is not complete; what there is of it is its own, in order |
| `LossIsCountedHolds` | where a message is missing at the end of the wire, a loss was counted, unless an event split a CRLF that its sample lacks |

They hold for every number and kind of well-formed messages, every way to cut them into events, every sample that the
scenario allows, and closes of the descriptor between messages. None of the four says enough to be kept by a step: the
next message is framed right only if the stream knows at every unit where it is. `At(t, o, c, m, i, x)` says that:
`c` units of the wire are consumed; the buffer is a `Window`, the part of the wire from `c` on that the sample of the
event holds; the state of the stream is that of unit `c` in message `m`, at its chunk `i` (`InLine`, `InHeaders`,
`InBody`, `InSize`, `InData`, `InCrlf`, `InTrailer`); what is kept of the body is a part of what came before `c`, and
`bodyTruncated` says whether it is all (`Kept`); the messages `o` that were emitted are right and are those before `m`
(`Good`); and the timestamp is that of the first unit of `m` (`Stamp`). Between two events the stream `Rests`: it is
at such a place with nothing left to do, or it was abandoned after a loss that was counted, or it waits in the middle
of a CRLF that was split (`Stuck`) or was abandoned for that. While no loss was counted and no CRLF split (`Full`),
every message before `m` was emitted.

The proof goes from the inside out.

* `Layout`: what the wire holds at each place of a message. The encoding is made of recursive functions (`Sum1`,
  `Joined`); what is needed of them is shown once, by the fact about sets that stands in for induction (`Induct`).
* What the buffer answers. A `Window` has a start line, a header block, a chunk size or a trailer exactly if the wire
  has it there and the window is long enough (`Index`, `HeaderEnd`).
* `IterateStep`: one iteration of `advance` takes the stream from a place to a later one, or to rest, or to a
  gap that `feed` notices; one lemma for each of the states.
* `AdvanceSettled`: each iteration that goes on makes the buffer shorter, a CRLF that was taken on trust counting as
  one unit (`Size`), so the loop has ended when it is cut off. `SettleDone`: a gap is noticed and counted, and a buffer
  over its limit is one that had a gap, for a header block in progress fits.
* `FeedDone`: draining what is due of a body or chunk, before the rest of the event is parsed.
* `EventInv`, `CloseInv`: the steps. The four properties then follow from `Rests`.

That samples lack only body units, or the CRLF behind a chunk, is used where such a unit is taken on trust
(`chunkCRLF`): the count of units says that it was sent, and it can have been nothing else.

### CaptureProofs

| Theorem | States |
|---|---|
| `TypeCorrect` | streams, method queue and pairer keep their types, whatever the mishaps |
| `DrivesPairer` | every behaviour of the capture is one of `Pairer` |
| `FramedByItsRequestHolds` | on a connection without mishap each response is framed by the method of its own request |
| `RightExchangeHolds` | its pairs are of one exchange |
| `NothingAfterCloseHolds` | nothing is reported to a sink that was closed |

`DrivesPairer` is what makes the results on `Pairer` usable here: the instance `P` inside `Capture` makes steps of
`Pairer` only, so `SameConnection`, `PairedByPosition` and the invariants behind them hold of it. What is left to
show is about the parser.

* `Framed` is the inductive invariant of framing: on a connection without a mishap a stream owes a body exactly
  after the head of a message that has one, and the queue of methods is the list of the requests that were begun and
  not answered. It is what is needed because the framing of the *next* response depends on the whole queue: that
  `misframed` is as it should be says nothing about that. `Advance` and `Begun` describe the cursor `sent`.
* `RightExchange` goes from positions to exchanges in four invariants. `Lives`: lives of the key in the pairer are
  connections of the process, in order. `Positions`: on a connection without mishap, and where no response is interim,
  a message counted n-th by the pairer is of the n-th exchange. `NoneHeld` and `LossKnown`: no response is evicted
  there, as a response is held only while the body of its request is under way, and has been taken when the next one
  arrives; so a life that lost a message lost it to the sweeper. With `PairedByPosition` of the pairer, both members
  of a pair are of the same exchange.
* `Control` says where reader, sweeper and main are when the sink is closed.

### SSLCaptureProofs

| Theorem | States |
|---|---|
| `TypeCorrect` | the type invariant |
| `DrivesPairer` | every behaviour of the TLS capture, reader and sweeper, is one of `Pairer` |
| `NoSilentLossHolds` | a message is on the ring, in hand or handled, unless a drop counter is up |
| `OneKeyHolds` | the events of a connection that did not race carry one key |
| `FreeTearsDownHolds` | after a connection's free was handled, nothing of it waits |
| `OnlyFreedAbandonedHolds` | a request that a close abandoned is of a connection that is gone, and was not reported by the sweeper |
| `RightExchangeHolds` | a pair is of one exchange, in every life of a key without race, repetition, timeout or drop |

The state that matters is spread over three places: the process (who uses an address or a descriptor), the ring with
the event in hand, and the pairer. Let `Queue` be the event in hand and those on the ring.

* `Orderly`: nothing of a connection comes after its free. `Kept`: what was written or read is in `Queue` or logged,
  until something is dropped.
* `Owned`: a connection that did not race is the sole user of its address, and of its descriptor while that is open,
  and what `ssl_fd_map` says is right. The late `Lookup` finds what an early one would have found: `OneKey`.
* `Past`: what was torn down is of a life of its key that has ended: `FreeTearsDown`.
* `Handover`: where two connections live on one descriptor, the free of the one is in `Queue` before anything of the
  other; a third one comes later still. So a free never tears down a connection that is in use:
  `OnlyFreedAbandoned`.
* `Counting`, `CurrentLife`, `OneConnection`, `InStep`, `LossKnown`: in a clean life of a key all messages are of one
  connection, and the n-th request and response logged are those of exchange n; then `PairedByPosition` of `Pairer`
  gives `RightExchange`. `LossKnown` is where the sweeper comes in: no
  response is held in a clean life, hence none evicted, and a life that lost a request to the sweeper is not clean. An
  argument about the two connections of a pair alone does not go through, and the property
  speaks of the whole life of the key for that reason.

### SSLWatcherProofs

| Theorem | States |
|---|---|
| `EveryProbeOwnedHolds` | an attached probe has exactly one owner that will close it |
| `NoDuplicateCaptureHolds` | no process has two rw probes |
| `SlotsBalancedHolds` | the slots taken are those of the goroutines between receive and release, within the cap |
| `SeenIsHandledHolds` | a process in `seen` is being attached, is attached or was given up |
| `DropsCountedOnceHolds` | `dropCounts` never exceeds what the kernel counted, and does not go down as long as no pid was used again |

The first two rest on `WatchInv`. `Owned` alone is not inductive: when a goroutine stores its probe, another one might
have registered one for that process, which would lose its owner. `OneAttacher` excludes that: a second goroutine for
a pid starts only when the pid has left `seen`, and it leaves `seen` only when the first goroutine was skipped or when
the process is dead, in which case no attach succeeds. `Opened`, `Registered` and `Down` say which probes the program
counters, the maps and the lists of the two closers can hold. `SlotsInv` defines the semaphore's content by the program
counters; its size needs that a receive finds room.

`DropsCountedOnce` compares sums over sets of probes. `DropsInv` bounds `closedDrops` by what was dropped of the probes
that are out of their goroutine's hands and not registered (`Gone`): a probe gets there in the step that harvests it,
and its counter does not go down afterwards. As `Gone` and the registered probes are disjoint, nothing is counted
twice; and a step that takes probes out of the maps adds their drops (`Harvested`, `CountKept`). The sum of the model
is a fold of the community modules. What one member more or the union of disjoint sets makes of it is proved from the
existence and the uniqueness of the recurrence behind the fold, for finite sets of any size (`SumExists`, `SumTakes`,
`SumOfUnion`).

### SessionProofs

| Theorem | States |
|---|---|
| `QuietAtReportHolds` | capture and `pollDrops` have ended when main reports |
| `SummaryCoversHeaderHolds` | the summary is not below any count the header showed |
| `EveryLinePrintedHolds` | a logged line is printed once, or was evicted by the cap |

`Control` ties the positions of the goroutines to that of main. `CountsInv` adds that every count sent is at most the
drops there are *now*, and, once main has read the session's counts, at most what it read and the watcher's counts:
both only grow, and the session's maps are read after nobody sends any more. `LinesInv` puts every line in exactly one
place, the buffer, stderr or the evicted ones; that main flushes after it restored the output is what empties the
first of these.

### TuiProofs

| Theorem | States |
|---|---|
| `TypeCorrect` | fields keep their types; indices and offsets never fall below zero |
| `SelectionOnScreenHolds` | the selected row exists and is on screen |
| `FilterIsCurrentHolds` | the rows shown are those that match, in order |
| `BodiesWithinBudgetHolds` | the running total is the sum of the bodies and within the budget, the oldest go first |
| `EveryLineCanBeReadHolds` | a panel of three lines or more can be scrolled to each line |
| `ReadingUndisturbedHolds` | a new row does not move a user who reads, though it may evict another one |

Every `Update` ends in the three clamps, so the argument has two halves. `Clamp`: whatever selection, top and offset
were, the clamps put them in range, given that the filter is current. And one lemma for each message and key: the
change before the clamps leaves the filter current and the bodies in order (`Ready`); the focus of the panel
goes together with not following. `ReadingUndisturbed` is proved from what a row that arrives does to the filter
(`MatchingOfAppend`, `MatchingOfTail`): the indices before the new one stay, or all move down by one and the first
goes if it was on display; the selection is moved by as much.

`Matching` and `BodySums` are recursive functions, and the prover has no induction on a formula. Two things replace it:
a function that satisfies the recurrence exists for every length and is unique (`FoundExist`, `FoundUnique`,
`SumsUnique`), which is proved from the well-foundedness of the natural numbers by a fact about *sets* (`Induct`); and
what an append or an eviction makes of the function is shown by giving the result and checking its recurrence.

### What is only model-checked

* Liveness and everything under fairness: `EveryRequestSettled`, `CaptureEnds`, `EventuallyNoProbes`,
  `ProcessEnds`. The prover does not treat it.
* Every module has a type invariant, `TypeOK`. No run lists it, for it says little beside the properties
  that are listed. It is proved of `Pairer`, `Capture`, `SSLCapture` and `TuiModel`; the invariants of
  the other proofs contain as much of it as they need.

## 5. Where code and words disagree

Each of the two runs in this section checks what the repository says and finds a behaviour of the
code against it.

1. **An interim response** (`CaptureContinue`; `parser.go:418`). README.md:86 says tinytap "pairs each
   request with its response". A `100 Continue` is paired with the request; the final response is held for the
   next request.
2. **A cached path** (`SSLWatcherStale`; `load_uprobe.go:41`). load_uprobe.go:24-27 says executables are cached
   by device and inode "to handle container-namespaced paths of the form `/proc/<pid>/root/usr/lib/...` where the
   pid changes per process". The `Executable` in the cache keeps the path of the process that came first, below
   `/proc/<pid>/root`, and that path is resolved again at each attach. When that process has exited, no later
   process with the same library can be attached.

Seen while modelling, and not the subject of a run:

* **A late response** (`pairer.go:225`). A response that arrives after the sweeper gave its request up is taken
  for the response to the next request, and every later exchange of the connection is off by one. This is why
  `RightExchange` of `Capture` excepts connections with a timeout. The same holds of a TLS capture, which has a
  sweeper and a pairer of its own (`tlscapture.go:34`): `RightExchange` of `SSLCapture` excepts the life of the key in
  which a request timed out.
* **A reused SSL address** (`tlscapture.go:63`). `internals.md:218` (under `site/content/docs/`) says "SSL_free
  tears down whichever side the connection was actually keyed on". If the address is used again, with
  `SSL_set_fd`, before the `SSL_free` event is handled, the new connection's side is torn down and the
  old one's stays. This is `raced` in `SSLCapture`.
* **A chunk beyond the sample** (`parser.go:553`; accepted as a risk in `parser_test.go:1620`). If the event that
  ends the missing data also carries the next chunk's framing, the framing is lost with the sample, and the
  message is never emitted. `Samples` of `StreamParser` excludes this.
* **A CRLF in two events** (`parser.go:554`). If the sample of an event ends before the CRLF of a chunk and the event
  itself ends between the CR and the LF, the parser waits with an empty buffer, finds the LF at the head of the next
  event, does not recognise it, and abandons the stream; neither `HeaderLossCount` nor a mark on a message tells.
  (An LF that comes alone is taken for the CRLF by the byte count, and all is well.) The run of
  `StreamParser` reaches this, and `ExactFraming` and `LossIsCounted` except it.
* **What the probes cannot see** (`tinytap.bpf.c:92`, `393`, `404`). The header of a message is read without faulting
  pages in; if that fails, a `recvmsg` or `sendmsg` has no event, although the call itself may succeed. An update of
  `incoming_pending_map` that fails other than with `-E2BIG` (288, 307) has the same effect. No counter shows either,
  and `NoSilentLoss` of `SyscallCapture` excepts both (`unseen`).
* **A very long iovec** (`tinytap.bpf.c:129`). The length of an iovec is narrowed to 32 bits, so that one of 4 GiB or
  more counts as its remainder. If that is within the budget, the next iovec's bytes follow in the sample with
  a gap before them, not marked as truncated. `SampleIsPrefix` excepts it (`Wrapped`).
* **A sendfile in several pieces** (`tinytap_kprobe.bpf.c:104`). A sendfile larger than a pipe calls
  `tcp_sendmsg_locked` several times, and `BPF_ANY` lets the last piece be the sample; the docs
  (`server-compatibility.md:38`, `docs/server-compat.md:39`) say "samples a prefix". A splice leaves a sample that
  stays until the thread's next sendfile, and may end up in its event.
* **Reading in the terminal UI** (`model.go`). `usage.md:29` says j and k stop following; j on the last row starts
  it again (line 234). A filter that changes keeps the index of the selection, not its row, and leaves `follow`
  on with the selection away from the bottom until the next row (`usage.md:24-25`). In a panel of one or two lines
  the arrows cover every line but the first and the last. The diagnostic buffer is said to be flushed "so nothing
  is lost"; it keeps its last lines only (`diag.go:29-34`).
* **A readbytes pointer that cannot be read** (`tinytap_uprobe.bpf.c:201`) loses an event that no counter
  shows.
* `internal/drops/drops.go:11-13` says `TLSAttachSkips` counts processes whose TLS traffic was not captured; the
  code counts attempts: a process that is skipped is tried again at its next event, may then be captured, and may
  be counted again (`tlswatch.go:213-222`).
* The comment on `pollDrops` (`run.go:179`) speaks of drop totals; the comparison includes the skips.
* A pid that is used again while its first process is attached has its registration replaced
  (`tlswatch.go:239-256`); the first probe is then closed by nobody, although `Close` (line 367) "closes all
  probes". This is why properties of `SSLWatcher` carry their condition.

## 6. What is not modelled

* Contents: header names and values that do not frame, bodies, latencies, formatting, colours. No
  property is about them.
* Malformed start lines that begin like valid ones, and the look for a start line inside other bytes.
* The lookup of the binary, ELF symbols and `/proc` (pure input; their outcomes are choices in
  `SSLWatcher!Find`), decoding of event records, output, configuration, `doctor`: no state across calls.
* The page address computation of `tinytap_kprobe.bpf.c` and the copy of one buffer into a sample: one read of
  memory that works or does not.
* `bpf/vmlinux.h` and `bpf/pt_regs_x86_64.h`: generated declarations of kernel types, more than two hundred thousand
  lines without a statement in them. They are the reason why any share of C lines that is modelled looks small.
* Termination of `captureTLS` goroutines: it depends on their probe's reader alone.

## 7. Plan

The order was: the pairer and its contract with proofs; the parser of one stream; their composition in the
capture loop; TLS; the watcher; the session; the BPF programs; then the terminal UI, the loader, the mishaps
of `Capture`, and finite ring and maps in `SSLCapture`. What is left, in order of importance:

1. Trailers and chunk framing that the sample lacks, in `StreamParser` (`parser.go:580`), once it is settled what
   the code should do there.
2. The `captureTLS` goroutine as a process of `SSLWatcher`, with the sink behind it.

## 8. Running it

In this directory: `tlc -config Pairer.cfg Pairer` (and likewise for each run of `PROJECT.json`, whose
"module" and "cfg" name the two arguments) and `tlapm PairerProofs.tla`, and likewise for `StreamParserProofs`,
`CaptureProofs`, `SSLCaptureProofs`, `SSLWatcherProofs`, `SessionProofs`, `ProbeProofs` and `TuiProofs`.
Most of them take some minutes; `StreamParserProofs` takes about ten.
