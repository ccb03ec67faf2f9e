------------------------------ MODULE Capture -------------------------------
(***************************************************************************)
(* cmd/tinytap/capture.go with the two streams of a connection (the parser) *)
(* and the pairer behind it: the reader goroutine feeds events, the sweeper *)
(* goroutine abandons what is overdue, both under one mutex, and the end of *)
(* the capture joins them before the sink is closed.                        *)
(*                                                                          *)
(* The process under capture works off a plan, a sequence of exchanges, on  *)
(* one descriptor that it closes and opens again.  A head and a body are    *)
(* one event each (StreamParser shows that nothing else matters).  Response *)
(* heads declare a Content-Length of one event; those to HEAD and those of  *)
(* status 204 or 304 are not followed by a body.                            *)
(*                                                                          *)
(* What the probes show may differ from what went over the wire (a mishap): *)
(* the sample of a head may be too short, an outgoing call may be made      *)
(* again after a short write or EAGAIN, an incoming call may return after   *)
(* its descriptor was closed, and more than MAX_IOV iovecs are not counted. *)
(* A stream that lost its place that way is "off": bytes that are no start  *)
(* of a message are in buf, or bodyRemaining is wrong.  What such a stream  *)
(* makes of an event is left open.                                          *)
(***************************************************************************)
EXTENDS Naturals, Sequences, SequencesExt, FiniteSets

CONSTANTS
    Plans,              \* the sequences of exchanges of a connection
    MaxConns,           \* bound: connections on the descriptor
    Timeouts,           \* whether requests may reach pendingTimeout
    MaxMishaps,         \* bound: mishaps of a behaviour
    Pid, Fd, Ssl, MaxHeld, MaxMsgs

Exchange == [method : STRING, interim : BOOLEAN, status : 200..599]

ASSUME CaptureAssumption ==
    /\ Plans \subseteq Seq(Exchange)
    /\ MaxConns \in Nat \ {0} /\ Timeouts \in BOOLEAN /\ MaxMishaps \in Nat
    /\ Pid = {1} /\ Fd = {3} /\ Ssl = {0}
    /\ MaxHeld \in Nat \ {0} /\ MaxMsgs \in Nat

VARIABLES
    plan,               \* the exchanges of every connection
    conn,               \* the number of the connection
    sent,               \* by direction: the exchange of it that is under way,
                        \*   and how many events of that the reader has got
    streams,            \* p.streams, by direction
    pendingMethods,     \* p.pendingMethods of the connection
    exchange,           \* history: <<conn, exchange>> of each message in log
    HeaderLossCount,    \* p.HeaderLossCount
    misframed,          \* history: connections on which a body was taken for
                        \*   a head or vice versa
    mishaps,            \* history: connections of the mishaps, in order
    rdClosed,           \* the ring buffer reader was closed
    main,               \* the goroutine that runs captureWithOptions
    sweeper,            \* the goroutine that it starts
    log, pending, heldResponses, overdue, life, reqs, ress,
    paired, closed, timedOut, lossy     \* of the pairer

P == INSTANCE Pairer

world == <<plan, conn, sent>>
parser == <<streams, pendingMethods, HeaderLossCount, misframed>>
goroutines == <<rdClosed, main, sweeper>>
pairer == <<log, pending, heldResponses, overdue, life, reqs, ress,
            paired, closed, timedOut, lossy>>
vars == <<world, parser, mishaps, exchange, goroutines, pairer>>

Dir == {"requests", "responses"}
Origin == [pid |-> 1, fd |-> 3, ssl |-> 0, sslFallback |-> FALSE]

-----------------------------------------------------------------------------
(* The process under capture.                                               *)

HeadOf(i, status) == [unit |-> "head", ex |-> i, status |-> status]
BodyOf(i) == [unit |-> "body", ex |-> i, status |-> 0]

HasBody(x) == x.method # "HEAD" /\ x.status \notin {204, 304}

EventsOf(i, dir) ==
    LET x == plan[i] IN
    IF dir = "requests"
    THEN <<HeadOf(i, 0)>> \o (IF x.method = "POST" THEN <<BodyOf(i)>> ELSE <<>>)
    ELSE (IF x.interim THEN <<HeadOf(i, 100)>> ELSE <<>>)
         \o <<HeadOf(i, x.status)>> \o (IF HasBody(x) THEN <<BodyOf(i)>> ELSE <<>>)

Start == [ex |-> 1, events |-> 0]

Upcoming(dir) == EventsOf(sent[dir].ex, dir)[sent[dir].events + 1]

Latest(dir) ==
    IF sent[dir].events > 0 THEN EventsOf(sent[dir].ex, dir)[sent[dir].events]
    ELSE Last(EventsOf(sent[dir].ex - 1, dir))

After(at, dir) ==
    IF at.events + 1 < Len(EventsOf(at.ex, dir)) THEN [at EXCEPT !.events = @ + 1]
    ELSE [ex |-> at.ex + 1, events |-> 0]

Started(i) ==
    \/ i < sent["requests"].ex
    \/ i = sent["requests"].ex /\ sent["requests"].events > 0

(* The next event of a direction.  A response does not start before its     *)
(* request did; requests may be pipelined.                                  *)
Arrives(dir) ==
    /\ main = "reading"
    /\ sent[dir].ex <= Len(plan)
    /\ dir = "responses" => Started(sent[dir].ex)
    /\ sent' = [sent EXCEPT ![dir] = After(@, dir)]
    /\ UNCHANGED <<plan, conn>>

-----------------------------------------------------------------------------
(* The parser.                                                              *)

NewStream == [remaining |-> 0, ex |-> 0, off |-> FALSE]

(* popMethod for a final response; for 1xx the method is only looked at. *)
MethodQueueAfter(status) == IF status >= 200 THEN Tail(pendingMethods) ELSE pendingMethods

NextMethod == IF pendingMethods = <<>> THEN "" ELSE pendingMethods[1]

hasNoBody(status, method) ==
    method = "HEAD" \/ status \in 100..199 \/ status \in {204, 304}

DeclaredLength(dir, event) ==
    IF dir = "requests" THEN IF plan[event.ex].method = "POST" THEN 1 ELSE 0
    ELSE IF hasNoBody(event.status, NextMethod) THEN 0 ELSE 1

(* Headers of a message are complete: its method is queued or taken.  The   *)
(* method of a request that is found behind other bytes is not its own.     *)
FeedHead(dir, event) ==
    /\ pendingMethods' =
          IF dir = "requests"
          THEN Append(pendingMethods,
                      IF streams[dir].off THEN "other" ELSE plan[event.ex].method)
          ELSE IF pendingMethods = <<>> THEN <<>>
          ELSE MethodQueueAfter(event.status)
    /\ streams' = [streams EXCEPT ![dir] =
                      [remaining |-> DeclaredLength(dir, event), ex |-> event.ex, off |-> FALSE]]
    /\ UNCHANGED misframed

(* Whatever comes where a body is due is drained as the body. *)
Drain(dir, event) ==
    /\ \E remaining \in {0} \cup (IF streams[dir].off THEN {1} ELSE {}) :
          streams' = [streams EXCEPT ![dir].remaining = remaining]
    /\ misframed' = IF event.unit = "body" THEN misframed ELSE misframed \cup {conn}
    /\ UNCHANGED pendingMethods

(* Bytes that are no start of a message stay in buf. *)
Keep(dir) ==
    /\ streams' = [streams EXCEPT ![dir].off = TRUE]
    /\ misframed' = misframed \cup {conn}
    /\ UNCHANGED pendingMethods

(* The message is emitted when nothing of its body is due any more, and     *)
(* pushed.                                                                  *)
EmitIfComplete(dir) ==
    IF streams'[dir].remaining = 0
    THEN /\ P!Push(Origin)
         /\ log'[Len(log')].isRequest = (dir = "requests")
         /\ exchange' = Append(exchange, <<conn, streams'[dir].ex>>)
    ELSE UNCHANGED <<exchange, pairer>>

(* parser.Feed and pairer.Push of an event whose sample is long enough. *)
Take(dir, event) ==
    /\ \/ streams[dir].remaining > 0 /\ Drain(dir, event) /\ EmitIfComplete(dir)
       \/ /\ streams[dir].remaining = 0 /\ event.unit = "head"
          /\ FeedHead(dir, event) /\ EmitIfComplete(dir)
       \/ /\ streams[dir].remaining = 0 /\ (event.unit = "head" => streams[dir].off)
          /\ Keep(dir) /\ UNCHANGED <<exchange, pairer>>
    /\ UNCHANGED HeaderLossCount

(* One event: parser.Feed and pairer.Push under the mutex. *)
Feed(dir) ==
    /\ Arrives(dir)
    /\ Take(dir, Upcoming(dir))
    /\ UNCHANGED <<mishaps, goroutines>>

Mishap ==
    /\ Len(mishaps) < MaxMishaps
    /\ mishaps' = Append(mishaps, conn)
    /\ UNCHANGED goroutines

(* A head that the sample lacks a part of: the gap is counted, buf and the  *)
(* state are reset.                                                         *)
FeedCutHead(dir) ==
    /\ Arrives(dir) /\ Mishap
    /\ Upcoming(dir).unit = "head" /\ streams[dir].remaining = 0
    /\ HeaderLossCount' = HeaderLossCount + 1
    /\ streams' = [streams EXCEPT ![dir] = NewStream]
    /\ UNCHANGED <<pendingMethods, misframed, exchange, pairer>>

(* An outgoing call is seen when it enters: after EAGAIN it is seen again,  *)
(* after a short write the rest of it is.                                   *)
FeedAgain(dir) ==
    /\ main = "reading" /\ sent[dir] # Start /\ Mishap
    /\ \E unit \in {Latest(dir).unit, "rest"} : Take(dir, [Latest(dir) EXCEPT !.unit = unit])
    /\ UNCHANGED world

(* A writev of more than MAX_IOV iovecs shows fewer bytes than it sends.    *)
FeedUnderstated(dir) ==
    /\ Arrives(dir) /\ Mishap
    /\ Upcoming(dir).unit = "body" /\ streams[dir].remaining > 0
    /\ streams' = [streams EXCEPT ![dir].off = TRUE]
    /\ UNCHANGED <<pendingMethods, HeaderLossCount, misframed, exchange, pairer>>

(* An incoming call carries the descriptor of its entry: one that returns   *)
(* after the close shows an event of the last connection in this one.       *)
FeedLate(dir) ==
    /\ main = "reading" /\ conn > 1 /\ Mishap
    /\ \E i \in DOMAIN plan : \E n \in DOMAIN EventsOf(i, dir) : Take(dir, EventsOf(i, dir)[n])
    /\ UNCHANGED world

(* Fault: Parser.Close keeps the methods of the connection. *)
ParserClose_KeepsMethods ==
    /\ streams' = [dir \in Dir |-> NewStream]
    /\ UNCHANGED pendingMethods

ParserClose ==
    /\ streams' = [dir \in Dir |-> NewStream]
    /\ pendingMethods' = <<>>

(* The event of close(2): the process may close at any time. *)
FeedClose ==
    /\ main = "reading" /\ conn < MaxConns /\ sent["requests"] # Start
    /\ conn' = conn + 1
    /\ sent' = [dir \in Dir |-> Start]
    /\ ParserClose
    /\ IF exchange = <<>> \/ Last(exchange)[1] < conn THEN UNCHANGED pairer ELSE P!Close(1, 3)
    /\ UNCHANGED <<plan, HeaderLossCount, misframed, mishaps, exchange, goroutines>>

-----------------------------------------------------------------------------
(* The goroutines.                                                          *)

(* Requests grow old while the sweeper's ticker runs. *)
Expire ==
    /\ Timeouts
    /\ P!Expire
    /\ UNCHANGED <<world, parser, mishaps, exchange, goroutines>>

(* A tick.  The ticker may win the select even when done is closed. *)
Sweep ==
    /\ sweeper = "running"
    /\ P!Sweep
    /\ UNCHANGED <<world, parser, mishaps, exchange, goroutines>>

(* closeOnInterrupt, or the end of the terminal interface. *)
CloseReader ==
    /\ ~rdClosed
    /\ rdClosed' = TRUE
    /\ UNCHANGED <<world, parser, mishaps, exchange, main, sweeper, pairer>>

(* Read fails, the loop ends, done is closed. *)
ReadFails ==
    /\ main = "reading" /\ rdClosed
    /\ main' = "joining"
    /\ UNCHANGED <<world, parser, mishaps, exchange, rdClosed, sweeper, pairer>>

(* Fault: capture waits for the sweeper before it closes done. *)
SweeperReturns_DoneTooLate ==
    /\ sweeper = "running" /\ main \in {"returned", "sinkClosed"}
    /\ sweeper' = "gone"
    /\ UNCHANGED <<world, parser, mishaps, exchange, rdClosed, main, pairer>>

SweeperReturns ==
    /\ sweeper = "running" /\ main # "reading"
    /\ sweeper' = "gone"
    /\ UNCHANGED <<world, parser, mishaps, exchange, rdClosed, main, pairer>>

(* Fault: capture returns without sweepDone.Wait(). *)
Return_NoJoin ==
    /\ main = "joining"
    /\ main' = "returned"
    /\ UNCHANGED <<world, parser, mishaps, exchange, rdClosed, sweeper, pairer>>

Return ==
    /\ main = "joining" /\ sweeper = "gone"
    /\ main' = "returned"
    /\ UNCHANGED <<world, parser, mishaps, exchange, rdClosed, sweeper, pairer>>

(* The deferred closeSink. *)
CloseSink ==
    /\ main = "returned"
    /\ main' = "sinkClosed"
    /\ UNCHANGED <<world, parser, mishaps, exchange, rdClosed, sweeper, pairer>>

-----------------------------------------------------------------------------

Init ==
    /\ plan \in Plans /\ conn = 1 /\ sent = [dir \in Dir |-> Start]
    /\ streams = [dir \in Dir |-> NewStream]
    /\ pendingMethods = <<>> /\ HeaderLossCount = 0
    /\ misframed = {} /\ mishaps = <<>> /\ exchange = <<>>
    /\ rdClosed = FALSE /\ main = "reading" /\ sweeper = "running"
    /\ P!Init

Next ==
    \/ \E dir \in Dir :
          \/ Feed(dir)
          \/ FeedCutHead(dir) \/ FeedAgain(dir) \/ FeedUnderstated(dir) \/ FeedLate(dir)
    \/ FeedClose
    \/ Expire \/ Sweep
    \/ CloseReader \/ ReadFails \/ SweeperReturns \/ Return \/ CloseSink

Spec == Init /\ [][Next]_vars

(* A closed reader fails the read that waits on it, and both selects are    *)
(* served.  Sweep needs no fairness for the capture to end.                 *)
Fairness == WF_vars(ReadFails) /\ WF_vars(SweeperReturns) /\ WF_vars(Return) /\ WF_vars(CloseSink)

FairSpec == Spec /\ Fairness

-----------------------------------------------------------------------------

(* The type invariant.                                                      *)
TypeOK ==
    /\ conn \in 1..MaxConns
    /\ \A dir \in Dir : /\ sent[dir].ex \in 1..Len(plan) + 1
                         /\ sent[dir].events > 0 =>
                               sent[dir].events < Len(EventsOf(sent[dir].ex, dir))
                         /\ streams[dir].remaining \in {0, 1}
    /\ Len(pendingMethods) <= Len(plan) + Len(mishaps)
    /\ HeaderLossCount <= Len(mishaps)
    /\ Len(exchange) = Len(log)
    /\ main \in {"reading", "joining", "returned", "sinkClosed"}
    /\ sweeper \in {"running", "gone"}

(* The parser takes the heads for heads and the bodies for bodies: whether  *)
(* a response has a body depends on the request it answers, which the queue *)
(* of methods must have at its front, with pipelining, interim responses,   *)
(* early responses and a close in the middle of an exchange.  What a mishap *)
(* spoils it spoils for its connection only: the next connection of the     *)
(* descriptor starts with empty buffers and an empty queue.                 *)
FramedByItsRequest == misframed \subseteq ToSet(mishaps)

(* README.md: tinytap "pairs each request with its response".               *)
PairsEachRequestWithItsResponse == \A p \in paired : exchange[p[1]] = exchange[p[2]]

Undisturbed(c) == c \notin ToSet(mishaps) /\ \A req \in timedOut : exchange[req][1] # c

(* A request and a response that are reported together are of the same      *)
(* connection, and of the same exchange if no response is informational, no *)
(* request of the connection was given up and no mishap fell into it:       *)
(* pipelining, early responses, a close in the middle of an exchange and    *)
(* whatever happened on the descriptor before do not mix them up.           *)
RightExchange ==
    \A p \in paired :
        LET req == exchange[p[1]]
            res == exchange[p[2]]
        IN  /\ req[1] = res[1]
            /\ Undisturbed(req[1]) /\ (\A i \in DOMAIN plan : ~plan[i].interim) => req = res

(* Nothing is reported to a sink that was closed: closeSink runs after the  *)
(* reader and the sweeper are done.                                         *)
NothingAfterClose ==
    [][main = "sinkClosed" => UNCHANGED <<paired, closed, timedOut>>]_vars

(* Closing the reader ends the capture: no goroutine waits for ever.        *)
CaptureEnds == rdClosed ~> (main = "sinkClosed" /\ sweeper = "gone")
=============================================================================
