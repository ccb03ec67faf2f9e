---------------------------- MODULE StreamParser ----------------------------
(***************************************************************************)
(* internal/protocols/http/parser.go: one stream, that is one direction of  *)
(* one connection, put together from syscall events.                        *)
(*                                                                          *)
(* What the peer sends is a conversation, a sequence of messages encoded as *)
(* units: a start line, a header field, a chunk size and a byte of a body   *)
(* are one unit each, and so are CR and LF.  Events cut the wire anywhere,  *)
(* and the sample of an event may hold only a prefix of its units, while    *)
(* its byte count stays true.  The clock is the position on the wire.       *)
(***************************************************************************)
EXTENDS Naturals, FiniteSets, Sequences, SequencesExt

CONSTANTS
    Scenarios,          \* what is parsed: [conv, loss], where loss says what a
                        \* sample may lack: "none", "body" or "any"
    MaxBufBytes,        \* maxBufBytes, in units
    MaxBodyBytes        \* maxBodyBytes, in units

(* line is "nobody" for the status of a response that has no body whatever  *)
(* its header says; coding is "bare" (no header at all), "length" (chunks   *)
(* has one element, the Content-Length) or "chunked".                       *)
Message == [line : {"request", "status", "nobody"}, coding : {"bare", "length", "chunked"},
            chunks : Seq(Nat), trailer : BOOLEAN]

WellFormed(msg) ==
    /\ msg.coding = "bare" => msg.chunks = <<>> \/ msg.line = "nobody"
    /\ msg.coding = "length" => Len(msg.chunks) = 1
    /\ msg.coding = "chunked" => \A i \in 1..Len(msg.chunks) : msg.chunks[i] > 0

(* A sample may lack units of any kind only where no message is chunked: a  *)
(* trailer that is lacking abandons the stream without being counted.       *)
ASSUME ConstantsAssumption ==
    /\ MaxBufBytes \in Nat /\ MaxBodyBytes \in Nat
    /\ MaxBufBytes >= 4    \* the largest header block, one header, fits
    /\ \A x \in Scenarios :
          /\ x.loss \in {"none", "body", "any"}
          /\ x.conv \in Seq(Message)
          /\ \A m \in 1..Len(x.conv) : WellFormed(x.conv[m])
          /\ x.loss = "any" => \A m \in 1..Len(x.conv) : x.conv[m].coding # "chunked"

VARIABLES
    conv, loss,         \* the scenario
    wire, ends,         \* the units of conv, where each message ends
    pos,                \* units of the wire that were delivered
    s,                  \* the stream
    out,                \* the messages emitted, in order
    headerLoss,         \* p.HeaderLossCount
    began,              \* history: when the first unit of each message came
    split               \* history: an event ended within the CRLF of a chunk,
                        \* and its sample lacked the CR

sent == <<conv, loss, wire, ends>>
vars == <<sent, pos, s, out, headerLoss, began, split>>

-----------------------------------------------------------------------------
(* The wire.                                                                *)

Unit(k, v) == [k |-> k, v |-> v]
CRLF == <<Unit("cr", 0), Unit("lf", 0)>>

Sum1(ns, n) ==
    LET sum[k \in 0..n] == IF k = 0 THEN 0 ELSE sum[k - 1] + ns[k] IN sum[n]

(* The first n members of a sequence of sequences, one after the other. *)
Joined(ss, n) ==
    LET joined[k \in 0..n] == IF k = 0 THEN <<>> ELSE joined[k - 1] \o ss[k] IN joined[n]

Data(m, from, n) == [i \in 1..n |-> Unit("data", 100 * m + from + i)]

BodyOf(m, msg) ==
    IF msg.line = "nobody" THEN <<>> ELSE Data(m, 0, Sum1(msg.chunks, Len(msg.chunks)))

Chunk(m, msg, i) ==
    <<Unit("size", msg.chunks[i])>> \o CRLF
        \o Data(m, Sum1(msg.chunks, i - 1), msg.chunks[i]) \o CRLF

Chunks(m, msg) == [i \in 1..Len(msg.chunks) |-> Chunk(m, msg, i)]

Encode(m, msg) ==
    <<Unit(msg.line, m)>> \o CRLF \o
    CASE msg.coding = "bare" -> CRLF
      [] msg.coding = "length" ->
            <<Unit("length", msg.chunks[1])>> \o CRLF \o CRLF \o BodyOf(m, msg)
      [] msg.coding = "chunked" /\ msg.line = "nobody" ->
            <<Unit("te", 0)>> \o CRLF \o CRLF
      [] OTHER ->
            <<Unit("te", 0)>> \o CRLF \o CRLF
            \o Joined(Chunks(m, msg), Len(msg.chunks))
            \o <<Unit("size", 0)>> \o CRLF
            \o (IF msg.trailer THEN <<Unit("field", 0)>> \o CRLF ELSE <<>>) \o CRLF

EncodeFirst(c, n) == Joined([m \in 1..Len(c) |-> Encode(m, c[m])], n)

-----------------------------------------------------------------------------
(* The stream.                                                              *)

NoMessage == [id |-> 0, ts |-> 0]

NewStream ==
    [buf |-> <<>>, state |-> "startLine", abandoned |-> FALSE, line |-> Unit("none", 0),
     chunkRemaining |-> 0, bodyRemaining |-> 0, bodyBuf |-> <<>>, bodyTruncated |-> FALSE,
     pendingMsg |-> NoMessage,
     wireBytes |-> 0,       \* wireBytesSinceMessageStart
     consumed |-> 0,        \* wireBytesConsumed
     startTs |-> 0]         \* messageStartTs

Smaller(a, b) == IF a < b THEN a ELSE b
Monus(a, b) == IF a > b THEN a - b ELSE 0
Drop(q, n) == SubSeq(q, n + 1, Len(q))
Take(q, n) == SubSeq(q, 1, Smaller(n, Len(q)))

(* bytes.Index: where pat begins in q, 0 if it does not occur. *)
Index(q, pat) ==
    LET at == {i \in 1..Len(q) : IsPrefix(pat, Drop(q, i - 1))}
    IN  IF at = {} THEN 0 ELSE CHOOSE i \in at : \A j \in at : i <= j

appendBody(t, p) ==
    LET room == MaxBodyBytes - Len(t.bodyBuf) IN
    [t EXCEPT !.bodyBuf = @ \o Take(p, room), !.bodyTruncated = @ \/ Len(p) > room]

(* Of the next n units of a body the sample holds p. *)
TakeSample(t, p, n) ==
    [appendBody(t, p) EXCEPT !.bodyTruncated = @ \/ Len(p) < n]

takeBody(t, msg) ==
    [id |-> msg.id, ts |-> msg.ts, body |-> t.bodyBuf, cut |-> t.bodyTruncated]

(* Fault: the truncation of one message sticks to the next. *)
BodyTaken_KeepsTruncated(t) ==
    [t EXCEPT !.bodyBuf = <<>>, !.pendingMsg = NoMessage]

BodyTaken(t) == [t EXCEPT !.bodyBuf = <<>>, !.bodyTruncated = FALSE, !.pendingMsg = NoMessage]

abandon(t) == [t EXCEPT !.abandoned = TRUE, !.buf = <<>>]

Unconsumed(t) == Monus(t.wireBytes, t.consumed)

(* The three ways an iteration of advance ends: the loop returns, goes on,  *)
(* or goes on with a message emitted.                                       *)
Return(t) == [s |-> t, out |-> <<>>, more |-> FALSE]
Continue(t) == [s |-> t, out |-> <<>>, more |-> TRUE]
Emit(t, msg) == [s |-> BodyTaken(t), out |-> <<takeBody(t, msg)>>, more |-> TRUE]

-----------------------------------------------------------------------------
(* advance: one operator for each state.                                    *)

(* A line that is cut, or joined with something else, is no start line: it  *)
(* is skipped, and the rest of the buffer waits for the next event.         *)
StartLine(t) ==
    LET idx == Index(t.buf, CRLF)
        rest == [t EXCEPT !.buf = Drop(@, idx + 1), !.consumed = @ + idx + 1]
    IN  IF idx = 0 THEN Return(t)
        ELSE IF idx = 2 /\ t.buf[1].k \in {"request", "status", "nobody"}
        THEN Continue([rest EXCEPT !.line = t.buf[1], !.state = "headers"])
        ELSE Return(rest)

HeaderEnd(q) == IF IsPrefix(CRLF, q) THEN 2
                ELSE IF Index(q, CRLF \o CRLF) = 0 THEN 0 ELSE Index(q, CRLF \o CRLF) + 3

HasNoBody(line) == line.k = "nobody"
Chunked(block, line) == ~HasNoBody(line) /\ \E i \in DOMAIN block : block[i].k = "te"
ContentLength(block, line) ==
    IF HasNoBody(line) \/ ~\E i \in DOMAIN block : block[i].k = "length" THEN 0
    ELSE block[CHOOSE i \in DOMAIN block : block[i].k = "length"].v

(* The body of this message is all there: what follows is the next message. *)
BodyComplete(t, msg, length, ts) ==
    LET inBuf == Take(t.buf, length)
        rest == Drop(t.buf, Len(inBuf))
        done == TakeSample(t, inBuf, length)
    IN  Emit([done EXCEPT !.buf = rest, !.bodyRemaining = 0, !.state = "startLine",
                          !.wireBytes = Unconsumed(t) - length, !.consumed = 0,
                          !.startTs = IF rest = <<>> THEN 0 ELSE ts], msg)

(* Fault: the body units that came with the headers are not debited. *)
BodyIncomplete_NoDebit(t, msg, length) ==
    LET inBuf == Take(t.buf, length) IN
    Return([TakeSample(t, inBuf, Unconsumed(t)) EXCEPT
                !.bodyRemaining = length, !.buf = <<>>, !.state = "body",
                !.pendingMsg = msg, !.wireBytes = 0, !.consumed = 0])

BodyIncomplete(t, msg, length) ==
    LET inBuf == Take(t.buf, length) IN
    Return([TakeSample(t, inBuf, Unconsumed(t)) EXCEPT
                !.bodyRemaining = length - Unconsumed(t), !.buf = <<>>, !.state = "body",
                !.pendingMsg = msg, !.wireBytes = 0, !.consumed = 0])

Headers(t, ts) ==
    LET end == HeaderEnd(t.buf)
        block == Take(t.buf, end)
        rest == [t EXCEPT !.buf = Drop(@, end), !.consumed = @ + end]
        msg == [id |-> t.line.v, ts |-> t.startTs]
        length == ContentLength(block, t.line)
    IN  IF end = 0 THEN Return(t)
        ELSE IF Chunked(block, t.line)
        THEN Continue([rest EXCEPT !.pendingMsg = msg, !.state = "chunkSize"])
        ELSE IF Unconsumed(rest) >= length THEN BodyComplete(rest, msg, length, ts)
        ELSE BodyIncomplete(rest, msg, length)

(* The chunk is all there, or the rest of it comes with later events. *)
ChunkComplete(t, size) ==
    LET inBuf == Take(t.buf, size) IN
    Continue([TakeSample(t, inBuf, size) EXCEPT
                 !.buf = Drop(@, Len(inBuf)), !.consumed = @ + size, !.state = "chunkCRLF"])

ChunkIncomplete(t, size) ==
    LET inBuf == Take(t.buf, size) IN
    Return([TakeSample(t, inBuf, Unconsumed(t)) EXCEPT
               !.buf = <<>>, !.consumed = @ + Unconsumed(t),
               !.chunkRemaining = size - Unconsumed(t), !.state = "chunkData"])

ChunkSize(t) ==
    LET idx == Index(t.buf, CRLF)
        rest == [t EXCEPT !.buf = Drop(@, idx + 1), !.consumed = @ + idx + 1]
        size == t.buf[1].v
    IN  IF idx = 0 THEN Return(t)
        ELSE IF ~(idx = 2 /\ t.buf[1].k = "size") THEN Return(abandon(t))
        ELSE IF size = 0 THEN Continue([rest EXCEPT !.state = "trailer"])
        ELSE IF Unconsumed(rest) >= size THEN ChunkComplete(rest, size)
        ELSE ChunkIncomplete(rest, size)

(* A CRLF that the sample lacks but the byte count covers is taken on trust. *)
ChunkCRLF(t) ==
    IF Len(t.buf) < 2
    THEN IF Unconsumed(t) >= 2
         THEN Continue([t EXCEPT !.buf = <<>>, !.consumed = @ + 2, !.state = "chunkSize"])
         ELSE Return(t)
    ELSE IF ~IsPrefix(CRLF, t.buf) THEN Return(abandon(t))
    ELSE Continue([t EXCEPT !.buf = Drop(@, 2), !.consumed = @ + 2, !.state = "chunkSize"])

(* Fault: the units after the message are not carried over to the next. *)
Trailer_NoCarry(t, ts) ==
    LET end == HeaderEnd(t.buf)
        rest == Drop(t.buf, end)
    IN  IF end = 0
        THEN Return(IF Unconsumed(t) > Len(t.buf) THEN abandon(t) ELSE t)
        ELSE Emit([t EXCEPT !.buf = rest, !.chunkRemaining = 0, !.state = "startLine",
                            !.wireBytes = 0, !.consumed = 0,
                            !.startTs = 0], t.pendingMsg)

Trailer(t, ts) ==
    LET end == HeaderEnd(t.buf)
        rest == Drop(t.buf, end)
    IN  IF end = 0
        THEN Return(IF Unconsumed(t) > Len(t.buf) THEN abandon(t) ELSE t)
        ELSE Emit([t EXCEPT !.buf = rest, !.chunkRemaining = 0, !.state = "startLine",
                            !.wireBytes = Monus(Unconsumed(t), end), !.consumed = 0,
                            !.startTs = IF rest = <<>> THEN 0 ELSE ts], t.pendingMsg)

Iterate(t, ts) ==
    CASE t.state = "startLine" -> StartLine(t)
      [] t.state = "headers" -> Headers(t, ts)
      [] t.state = "chunkSize" -> ChunkSize(t)
      [] t.state = "chunkCRLF" -> ChunkCRLF(t)
      [] t.state = "trailer" -> Trailer(t, ts)
      [] OTHER -> Return(t)

(* The messages of some iterations, and of those that follow. *)
Prepend(first, rest) == [rest EXCEPT !.out = first \o @]

(* The loop of advance.  An iteration that goes on has consumed something   *)
(* of the buffer, unless it took a CRLF on trust: then the next one finds   *)
(* the buffer empty and returns.                                            *)
advance(t, ts) ==
    LET rounds == Len(t.buf) + 2
        run[k \in 0..rounds] ==
            IF k = 0 THEN Continue(t)
            ELSE LET last == run[k - 1] IN
                 IF last.more THEN Prepend(last.out, Iterate(last.s, ts)) ELSE last
    IN  run[rounds]

-----------------------------------------------------------------------------
(* feed: an event of n units of which the sample holds p.                   *)

(* Chunk data that is still due is drained first. *)
DrainChunk(t, p, n) ==
    LET debit == Smaller(n, t.chunkRemaining) IN
    [TakeSample(t, Take(p, debit), debit) EXCEPT
        !.chunkRemaining = @ - debit, !.consumed = @ + debit, !.wireBytes = @ + debit,
        !.state = IF debit = t.chunkRemaining THEN "chunkCRLF" ELSE "chunkData"]

DrainBody(t, p, n) ==
    LET debit == Smaller(n, t.bodyRemaining) IN
    [TakeSample(t, Take(p, debit), debit) EXCEPT !.bodyRemaining = @ - debit]

MessageDone(t) ==
    [BodyTaken(t) EXCEPT !.state = "startLine", !.wireBytes = 0, !.consumed = 0, !.startTs = 0]

(* Fault: a gap in the buffer is not noticed. *)
Gap_Never(t) == FALSE

(* The byte count says that units are missing from a start line or header. *)
Gap(t) == t.state \in {"startLine", "headers"} /\ Unconsumed(t) > Len(t.buf)

Resync(t) == [t EXCEPT !.buf = <<>>, !.state = "startLine",
                       !.wireBytes = 0, !.consumed = 0, !.startTs = 0]

(* What feed does when advance has returned. *)
Settle(step) ==
    LET Bounded(t) == IF Len(t.buf) > MaxBufBytes THEN abandon(t) ELSE t IN
    [s |-> Bounded(IF Gap(step.s) THEN Resync(step.s) ELSE step.s),
     out |-> step.out,
     loss |-> IF Gap(step.s) THEN 1 ELSE 0]

Nothing(t) == [s |-> t, out |-> <<>>, loss |-> 0]

(* The part of feed after the draining. *)
Parse(t, p, n, ts) ==
    IF n = 0 THEN Nothing(t)
    ELSE Settle(advance([t EXCEPT !.startTs = IF @ = 0 THEN ts ELSE @,
                                  !.buf = @ \o p, !.wireBytes = @ + n], ts))

(* What is left of the event when the data that was due is drained. *)
FeedChunk(t, drained, p, n, ts) ==
    LET debit == Smaller(n, t.chunkRemaining) IN
    IF drained.state = "chunkData" THEN Nothing(drained)
    ELSE Parse(drained, Drop(p, debit), n - debit, ts)

FeedBody(t, drained, p, n, ts) ==
    LET debit == Smaller(n, t.bodyRemaining) IN
    IF drained.bodyRemaining > 0 THEN Nothing(drained)
    ELSE Prepend(<<takeBody(drained, drained.pendingMsg)>>,
                 Parse(MessageDone(drained), Drop(p, debit), n - debit, ts))

feed(t, p, n, ts) ==
    IF t.abandoned THEN Nothing(t)
    ELSE CASE t.state = "chunkData" -> FeedChunk(t, DrainChunk(t, p, n), p, n, ts)
           [] t.state = "body" -> FeedBody(t, DrainBody(t, p, n), p, n, ts)
           [] OTHER -> Parse(t, p, n, ts)

-----------------------------------------------------------------------------

Init ==
    /\ \E x \in Scenarios : conv = x.conv /\ loss = x.loss
    /\ wire = EncodeFirst(conv, Len(conv))
    /\ ends = [m \in 1..Len(conv) |-> Len(EncodeFirst(conv, m))]
    /\ pos = 0 /\ s = NewStream /\ out = <<>> /\ headerLoss = 0
    /\ began = [m \in 1..Len(conv) |-> 0] /\ split = FALSE

(* A body unit, or the CRLF after a chunk: nothing the framing needs. *)
Opaque(i) ==
    \/ wire[i].k = "data"
    \/ wire[i].k = "cr" /\ wire[i - 1].k = "data"
    \/ wire[i].k = "lf" /\ wire[i - 2].k = "data"

(* How many of the next n units a sample may hold.  Where only bodies are   *)
(* cut, an event that lacks units carries none of the framing behind them,  *)
(* the CRLF of a chunk excepted.                                            *)
Samples(n) ==
    {p \in 0..n : \/ p = n
                  \/ loss = "any"
                  \/ loss = "body" /\ \A i \in (pos + p + 1)..(pos + n) : Opaque(i)}

(* The event ends with the CR after a chunk, and its sample before that CR: *)
(* the parser waits, and then takes the LF of the next event for the CR.    *)
SplitsCRLF(n, p) == p < n /\ Opaque(pos + n) /\ wire[pos + n].k = "cr"

Event(n, p) ==
    LET result == feed(s, SubSeq(wire, pos + 1, pos + p), n, pos + 1) IN
    /\ pos' = pos + n
    /\ s' = result.s
    /\ out' = out \o result.out
    /\ headerLoss' = headerLoss + result.loss
    /\ began' = [m \in 1..Len(conv) |->
                    IF began[m] = 0 /\ (m = 1 \/ pos + n > ends[m - 1]) THEN pos + 1 ELSE began[m]]
    /\ split' = (split \/ SplitsCRLF(n, p))
    /\ UNCHANGED sent

(* Parser.Close, when the descriptor is closed between two messages: the    *)
(* next connection on it begins with a new stream.                          *)
Close ==
    /\ pos \in {ends[m] : m \in 1..Len(conv) - 1}
    /\ s # NewStream
    /\ s' = NewStream
    /\ UNCHANGED <<sent, pos, out, headerLoss, began, split>>

Next ==
    \/ \E n \in 1..(Len(wire) - pos) : \E p \in Samples(n) : Event(n, p)
    \/ Close

Spec == Init /\ [][Next]_vars

-----------------------------------------------------------------------------

(* The type invariant, and what holds of the counters between two events.   *)
TypeOK ==
    /\ s.state \in {"startLine", "headers", "body", "chunkSize", "chunkData", "chunkCRLF",
                    "trailer"}
    /\ s.consumed \in Nat /\ s.wireBytes \in Nat /\ s.startTs \in 0..pos
    /\ s.state = "body" <=> s.bodyRemaining > 0
    /\ s.state = "chunkData" <=> s.chunkRemaining > 0
    /\ s.state \in {"body", "chunkSize", "chunkData", "chunkCRLF", "trailer"} /\ ~s.abandoned
          => s.pendingMsg # NoMessage
    /\ s.state = "startLine" => s.bodyBuf = <<>> /\ ~s.bodyTruncated
    /\ Len(s.bodyBuf) <= MaxBodyBytes /\ Len(s.buf) <= MaxBufBytes
    /\ headerLoss \in Nat

Delivered == {m \in 1..Len(conv) : ends[m] <= pos}

(* However the events cut the wire, a message is emitted with the event     *)
(* that carries its last unit, neither earlier nor later, and nothing else  *)
(* is: Content-Length, chunks, trailers, pipelining and bodyless responses, *)
(* the samples complete or lacking units of bodies.  The exception is an    *)
(* event that ended between the CR and the LF of a chunk and whose sample   *)
(* did not reach the CR: the parser waits there with nothing in its buffer, *)
(* and may abandon the stream for the LF that follows (parser.go:563-566).  *)
ExactFraming ==
    loss \in {"none", "body"} /\ ~split =>
        [i \in DOMAIN out |-> out[i].id] = [i \in 1..Cardinality(Delivered) |-> i]

(* A message carries the timestamp of the event its first byte came with.   *)
TimestampOfFirstByte ==
    loss = "none" => \A i \in DOMAIN out : out[i].ts = began[out[i].id]

(* A body that was not captured to the last byte is marked as truncated,    *)
(* and only such a body is; what is captured is in the order of the wire    *)
(* and belongs to this message.                                             *)
CutIsTold ==
    \A i \in DOMAIN out :
        LET body == BodyOf(out[i].id, conv[out[i].id]) IN
        /\ out[i].cut <=> out[i].body # body
        /\ \A j \in DOMAIN out[i].body : out[i].body[j] \in ToSet(body)
        /\ \A j, k \in DOMAIN out[i].body : j < k => out[i].body[j].v < out[i].body[k].v

(* Where a message is missing when the wire is at its end, the loss of a    *)
(* header was counted, unless an event ended within the CRLF of a chunk     *)
(* that its sample lacked: that stream may be abandoned without a count.    *)
LossIsCounted ==
    pos = Len(wire) /\ Len(out) < Len(conv) /\ ~split => headerLoss > 0
=============================================================================
