------------------------------- MODULE Session -------------------------------
(***************************************************************************)
(* cmd/tinytap/run.go and diag.go: one session from the loaded probes to    *)
(* the end of the process.  Four goroutines and the Bubble Tea program meet *)
(* here: main (run, runTUI or runStdout), the capture loop, pollDrops, the  *)
(* signal handler, and whatever goroutine of the TLS watcher logs.          *)
(*                                                                          *)
(* The capture loop itself is module Capture and the watcher's counters are *)
(* module SSLWatcher; here they are a goroutine that reads until the reader *)
(* is closed and counters that only grow.  A drop of either slot, Ringbuf   *)
(* or MapFull, counts the same.                                             *)
(***************************************************************************)
EXTENDS Naturals, Sequences, FiniteSets

CONSTANTS
    diagBufferCap,      \* lines the diagnostic buffer keeps
    MaxDrops,           \* bounds: drops of the session, drops of the watcher,
    MaxSkips,           \* throttled attaches,
    MaxLines            \* lines logged

ASSUME SessionAssumption ==
    /\ diagBufferCap \in Nat \ {0}
    /\ MaxDrops \in Nat /\ MaxSkips \in Nat /\ MaxLines \in Nat

VARIABLES
    useTUI,             \* what decideOutput chose: the TUI or stdout
    main,               \* the next statement of the main goroutine
    ui,                 \* the Bubble Tea program: "new", "running", "ended"
    capture,            \* the capture loop: "off", "reading", "sending" (a row),
                        \* "over" (returned), "done" (closed done), "gone"
    reader, session,    \* "open", "closed"
    signalled,          \* a signal arrived (stdout)
    lost, lostTLS,      \* drops the session's and the watcher's maps count
    skips,              \* TLSAttachSkips
    poll,               \* pollDrops: "off", "select", "read", "compare", "send", "gone"
    pollDone,           \* its done channel is closed
    read,               \* what sess.dropCounts returned to a goroutine
    last,               \* pollDrops: the counts of the last send
    sent,               \* history: the totals it sent
    summary,            \* what reportDrops printed, or <<>>
    output,             \* where log writes: "stderr", "diag"
    logging,            \* a goroutine is in log.Print and holds its lock
    lines,              \* the diagnostic buffer
    logged,             \* history: number of lines logged
    evicted,            \* history: lines the buffer dropped
    stderr              \* lines printed, in order

goroutines == <<main, ui, capture, poll, pollDone, signalled>>
kernel == <<reader, session, lost, lostTLS, skips>>
drops == <<read, last, sent, summary>>
logs == <<output, logging, lines, logged, evicted, stderr>>
vars == <<useTUI, goroutines, kernel, drops, logs>>

Counts == [total : 0..(2 * MaxDrops), skips : 0..MaxSkips]

Init ==
    /\ useTUI \in BOOLEAN
    /\ main = "start" /\ ui = "new" /\ capture = "off"
    /\ reader = "open" /\ session = "open" /\ signalled = FALSE
    /\ lost = 0 /\ lostTLS = 0 /\ skips = 0
    /\ poll = "off" /\ pollDone = FALSE
    /\ read = 0 /\ last = [total |-> 0, skips |-> 0]
    /\ sent = <<>> /\ summary = <<>>
    /\ output = "stderr" /\ logging = FALSE /\ lines = <<>>
    /\ logged = 0 /\ evicted = {} /\ stderr = <<>>

Goto(from, to) == main = from /\ main' = to

(* prog.Send blocks until the program runs; it does nothing when it ended.  *)
SendReturns == ui # "new"

-----------------------------------------------------------------------------
(* The kernel, the user and the TLS watcher.                                *)

Drop ==
    /\ session = "open"
    /\ \/ lost < MaxDrops /\ lost' = lost + 1 /\ UNCHANGED <<lostTLS, skips>>
       \/ lostTLS < MaxDrops /\ lostTLS' = lostTLS + 1 /\ UNCHANGED <<lost, skips>>
       \/ capture # "off" /\ skips < MaxSkips
          /\ skips' = skips + 1 /\ UNCHANGED <<lost, lostTLS>>
    /\ UNCHANGED <<goroutines, reader, session, drops, logs>>

(* The user leaves, or Run fails. *)
UIEnds ==
    /\ ui = "running" /\ ui' = "ended"
    /\ UNCHANGED <<main, capture, poll, pollDone, signalled, kernel, drops, logs>>

Interrupt ==
    /\ ~useTUI /\ main # "start" /\ ~signalled /\ signalled' = TRUE
    /\ UNCHANGED <<main, ui, capture, poll, pollDone, kernel, drops, logs>>

(* log.Print of a watcher goroutine, through diagBuffer.Write to SendDiag.  *)
(* The routine lines that isRoutineTLSAttach filters out are not counted.   *)
Write ==
    /\ ~logging /\ logged < MaxLines /\ capture # "off" /\ main # "end"
    /\ logged' = logged + 1
    /\ IF output = "stderr"
       THEN stderr' = Append(stderr, logged + 1) /\ UNCHANGED <<logging, lines, evicted>>
       ELSE /\ logging' = TRUE
            /\ IF Len(lines) < diagBufferCap
               THEN lines' = Append(lines, logged + 1) /\ UNCHANGED evicted
               ELSE /\ lines' = Append(Tail(lines), logged + 1)
                    /\ evicted' = evicted \cup {Head(lines)}
            /\ UNCHANGED stderr
    /\ UNCHANGED <<goroutines, kernel, drops, output>>

WriteReturns ==
    /\ logging /\ SendReturns /\ logging' = FALSE
    /\ UNCHANGED <<goroutines, kernel, drops, output, lines, logged, evicted, stderr>>

-----------------------------------------------------------------------------
(* The capture goroutine.                                                   *)

(* An event makes a row, which the TUI is sent.  (stdout takes it at once.) *)
CaptureRow ==
    /\ useTUI /\ reader = "open"
    /\ capture = "reading" /\ capture' = "sending"
    /\ UNCHANGED <<main, ui, poll, pollDone, signalled, kernel, drops, logs>>

RowSent ==
    /\ capture = "sending" /\ SendReturns /\ capture' = "reading"
    /\ UNCHANGED <<main, ui, poll, pollDone, signalled, kernel, drops, logs>>

(* Read returns an error: the reader was closed, or it failed. *)
CaptureReturns ==
    /\ capture = "reading" /\ capture' = "over"
    /\ UNCHANGED <<main, ui, poll, pollDone, signalled, kernel, drops, logs>>

CaptureDone ==
    /\ useTUI /\ capture = "over" /\ capture' = "done"
    /\ UNCHANGED <<main, ui, poll, pollDone, signalled, kernel, drops, logs>>

Quit ==
    /\ capture = "done" /\ SendReturns
    /\ capture' = "gone" /\ ui' = "ended"
    /\ UNCHANGED <<main, poll, pollDone, signalled, kernel, drops, logs>>

(* closeOnInterrupt *)
CloseOnInterrupt ==
    /\ signalled /\ reader = "open" /\ reader' = "closed"
    /\ UNCHANGED <<goroutines, session, lost, lostTLS, skips, drops, logs>>

-----------------------------------------------------------------------------
(* pollDrops                                                                *)

Tick ==
    /\ poll = "select" /\ poll' = "read"
    /\ UNCHANGED <<main, ui, capture, pollDone, signalled, kernel, drops, logs>>

PollStops ==
    /\ poll = "select" /\ pollDone /\ poll' = "gone"
    /\ UNCHANGED <<main, ui, capture, pollDone, signalled, kernel, drops, logs>>

(* A closed map cannot be read: it counts as zero. *)
dropCounts == IF session = "open" THEN lost ELSE 0

PollRead ==
    /\ poll = "read" /\ poll' = "compare"
    /\ read' = dropCounts
    /\ UNCHANGED <<main, ui, capture, pollDone, signalled, kernel, last, sent, summary, logs>>

(* cur != last compares all the counts, the skips too. *)
PollCompare ==
    /\ poll = "compare"
    /\ LET cur == [total |-> read + lostTLS, skips |-> skips] IN
          /\ last' = cur
          /\ poll' = IF cur # last THEN "send" ELSE "select"
    /\ UNCHANGED <<main, ui, capture, pollDone, signalled, kernel, read, sent, summary, logs>>

PollSend ==
    /\ poll = "send" /\ SendReturns /\ poll' = "select"
    /\ sent' = Append(sent, last.total)
    /\ UNCHANGED <<main, ui, capture, pollDone, signalled, kernel, read, last, summary, logs>>

-----------------------------------------------------------------------------
(* The main goroutine: runTUI, runCapturePipeline, the deferred calls.      *)

MainOnly == UNCHANGED <<ui, capture, poll, pollDone, signalled>>

SetOutputDiag ==
    /\ useTUI /\ Goto("start", "pollDrops") /\ ~logging /\ output' = "diag"
    /\ MainOnly
    /\ UNCHANGED <<kernel, drops, logging, lines, logged, evicted, stderr>>

StartPoll ==
    /\ Goto("pollDrops", "pipeline") /\ poll' = "select"
    /\ UNCHANGED <<ui, capture, pollDone, signalled, kernel, drops, logs>>

StartCapture ==
    /\ Goto("pipeline", "Run") /\ capture' = "reading"
    /\ UNCHANGED <<ui, poll, pollDone, signalled, kernel, drops, logs>>

Run ==
    /\ Goto("Run", "wait") /\ ui = "new" /\ ui' = "running"
    /\ UNCHANGED <<capture, poll, pollDone, signalled, kernel, drops, logs>>

(* Fault: the capture goroutine is awaited before its reader is closed. *)
RunReturns_JoinsFirst ==
    /\ ui = "ended" /\ Goto("wait", "join") /\ capture \in {"done", "gone"}
    /\ reader' = "closed"
    /\ MainOnly
    /\ UNCHANGED <<session, lost, lostTLS, skips, drops, logs>>

RunReturns ==
    /\ ui = "ended" /\ Goto("wait", "join")
    /\ reader' = "closed"
    /\ MainOnly
    /\ UNCHANGED <<session, lost, lostTLS, skips, drops, logs>>

Join ==
    /\ capture \in {"done", "gone"} /\ Goto("join", "stopDrops")
    /\ MainOnly /\ UNCHANGED <<kernel, drops, logs>>

StopDrops ==
    /\ Goto("stopDrops", "waitDrops") /\ pollDone' = TRUE
    /\ UNCHANGED <<ui, capture, poll, signalled, kernel, drops, logs>>

(* Fault: stopDrops does not wait for the goroutine. *)
DropsStopped_NoWait ==
    /\ Goto("waitDrops", "restore")
    /\ MainOnly /\ UNCHANGED <<kernel, drops, logs>>

DropsStopped ==
    /\ poll = "gone" /\ Goto("waitDrops", "restore")
    /\ MainOnly /\ UNCHANGED <<kernel, drops, logs>>

(* Fault: log keeps writing to the buffer, which nobody flushes again. *)
RestoreOutput_Not ==
    /\ Goto("restore", "flush") /\ ~logging
    /\ MainOnly /\ UNCHANGED <<kernel, drops, logs>>

(* SetOutput waits for a log.Print under way. *)
RestoreOutput ==
    /\ Goto("restore", "flush") /\ ~logging /\ output' = "stderr"
    /\ MainOnly
    /\ UNCHANGED <<kernel, drops, logging, lines, logged, evicted, stderr>>

Flush ==
    /\ Goto("flush", "report") /\ stderr' = stderr \o lines
    /\ MainOnly
    /\ UNCHANGED <<kernel, drops, output, logging, lines, logged, evicted>>

(* runStdout: capture runs on the main goroutine. *)
RunStdout ==
    /\ ~useTUI /\ Goto("start", "capture") /\ capture' = "reading"
    /\ UNCHANGED <<ui, poll, pollDone, signalled, kernel, drops, logs>>

CaptureReturned ==
    /\ capture = "over" /\ Goto("capture", "report")
    /\ MainOnly /\ UNCHANGED <<kernel, drops, logs>>

(* reportDrops: first the session's counts, then the watcher's. *)
ReportRead ==
    /\ Goto("report", "print") /\ read' = dropCounts
    /\ MainOnly /\ UNCHANGED <<kernel, last, sent, summary, logs>>

(* Fault: the watcher's drops are left out. *)
ReportDrops_SessionOnly ==
    /\ Goto("print", "closeSink") /\ summary' = <<read, skips>>
    /\ MainOnly /\ UNCHANGED <<kernel, read, last, sent, logs>>

ReportDrops ==
    /\ Goto("print", "closeSink") /\ summary' = <<read + lostTLS, skips>>
    /\ MainOnly /\ UNCHANGED <<kernel, read, last, sent, logs>>

CloseSink ==
    /\ Goto("closeSink", "Close")
    /\ MainOnly /\ UNCHANGED <<kernel, drops, logs>>

(* Tinytap.Close: the reader, the tracepoints, the maps. *)
CloseSession ==
    /\ Goto("Close", "end") /\ session' = "closed" /\ reader' = "closed"
    /\ MainOnly /\ UNCHANGED <<lost, lostTLS, skips, drops, logs>>

Main ==
    \/ SetOutputDiag \/ StartPoll \/ StartCapture \/ Run \/ RunReturns \/ Join
    \/ StopDrops \/ DropsStopped \/ RestoreOutput \/ Flush
    \/ RunStdout \/ CaptureReturned
    \/ ReportRead \/ ReportDrops \/ CloseSink \/ CloseSession

(* The process is over: its goroutines go with it. *)
Ended == main = "end" /\ UNCHANGED vars

Running(A) == main # "end" /\ A /\ UNCHANGED useTUI

Next ==
    \/ Running(Main)
    \/ Running(\/ CaptureRow \/ RowSent \/ CaptureReturns \/ CaptureDone \/ Quit
               \/ CloseOnInterrupt
               \/ Tick \/ PollStops \/ PollRead \/ PollCompare \/ PollSend
               \/ Drop \/ UIEnds \/ Interrupt \/ Write \/ WriteReturns)
    \/ Ended

(* Every goroutine that can go on does.  A select with a tick and done both *)
(* ready takes one of them at random, hence SF; log's lock and the program's*)
(* channel are granted to who waits long enough (SF).  No fairness on rows, *)
(* ticks, the user, signals, or a reader that fails by itself.              *)
Fairness ==
    /\ WF_vars(Running(Main))
    /\ SF_vars(Running(RestoreOutput))
    /\ SF_vars(Running(PollStops))
    /\ WF_vars(Running(PollRead \/ PollCompare \/ PollSend))
    /\ WF_vars(Running(RowSent \/ CaptureDone \/ Quit))
    /\ WF_vars(Running(reader = "closed" /\ CaptureReturns))
    /\ WF_vars(Running(CloseOnInterrupt))
    /\ WF_vars(Running(WriteReturns))

Spec == Init /\ [][Next]_vars

FairSpec == Spec /\ Fairness

-----------------------------------------------------------------------------

(* The type invariant.                                                      *)
TypeOK ==
    /\ main \in {"start", "pollDrops", "pipeline", "Run", "wait", "join", "stopDrops",
                 "waitDrops", "restore", "flush", "capture", "report", "print",
                 "closeSink", "Close", "end"}
    /\ ui \in {"new", "running", "ended"}
    /\ capture \in {"off", "reading", "sending", "over", "done", "gone"}
    /\ poll \in {"off", "select", "read", "compare", "send", "gone"}
    /\ reader \in {"open", "closed"} /\ session \in {"open", "closed"}
    /\ lost \in 0..MaxDrops /\ lostTLS \in 0..MaxDrops /\ read \in 0..lost
    /\ last \in Counts /\ sent \in Seq(0..(2 * MaxDrops))
    /\ summary \in {<<>>} \cup (0..(2 * MaxDrops)) \X (0..MaxSkips)
    /\ output \in {"stderr", "diag"} /\ logging \in BOOLEAN
    /\ Len(lines) <= diagBufferCap
    /\ logged \in 0..MaxLines /\ evicted \subseteq 1..logged
    /\ stderr \in Seq(1..logged)

AtReport == {"report", "print", "closeSink", "Close", "end"}

(* When the drops are reported nothing reads or sends any more: the capture *)
(* goroutine and pollDrops are gone, so that no message reaches a terminal  *)
(* that was given back.                                                     *)
QuietAtReport ==
    main \in AtReport => /\ capture \notin {"reading", "sending"}
                         /\ poll \in {"off", "gone"}

(* The summary never says less than the header did: the maps are read       *)
(* before they are closed, after the last poll.                             *)
SummaryCoversHeader ==
    summary # <<>> => \A i \in DOMAIN sent : sent[i] <= summary[1]

(* Of the lines logged none is lost and none printed twice, but for those   *)
(* the buffer had no room for: log leaves the buffer before it is flushed.  *)
EveryLinePrinted ==
    main \in AtReport =>
        \A n \in 1..logged :
            Cardinality({i \in DOMAIN stderr : stderr[i] = n}) = IF n \in evicted THEN 0 ELSE 1

(* Once the user has left, a signal has come or the reader has failed, the  *)
(* process ends: none of the goroutines waits for another for ever.         *)
Leaving == ui = "ended" \/ signalled \/ capture = "over"

ProcessEnds == Leaving ~> main = "end"
=============================================================================
