------------------------------- MODULE Pairer -------------------------------
(***************************************************************************)
(* internal/protocols/http/pairer.go: the component that turns a stream of *)
(* HTTP messages into request/response events.                              *)
(*                                                                          *)
(* The Go state is pending (a map from connection key to a queue of         *)
(* requests) and heldResponses (one slice for all keys).  Both are kept in  *)
(* order of arrival, so here they are sets of message numbers, the position *)
(* of the message in log: a queue's head is its smallest number, the first  *)
(* held response of a key is the smallest one of that key.  A clock reading *)
(* serves only to decide now - arrivedAt >= timeout, which becomes true in  *)
(* the order of arrival: that is the set overdue.                           *)
(*                                                                          *)
(* log, life, reqs, ress, paired, closed, timedOut and lossy record what    *)
(* happened; no step of the code depends on them.                           *)
(***************************************************************************)
EXTENDS Naturals, Sequences, FiniteSets

CONSTANTS
    Pid, Fd, Ssl,       \* process ids, descriptors, SSL* values (0 is NULL)
    MaxHeld,            \* maxHeldResponses
    MaxMsgs             \* bound on the messages of a behaviour

ASSUME ConstantsAssumption ==
    /\ Pid \subseteq Nat /\ Fd \subseteq Nat /\ Ssl \subseteq Nat
    /\ MaxHeld \in Nat \ {0}
    /\ MaxMsgs \in Nat

(* The part of a Message that says where it was seen. *)
Origin == [pid : Pid, fd : Fd, ssl : Ssl, sslFallback : BOOLEAN]

(* TLS traffic whose descriptor is unknown is keyed by SSL*, all other      *)
(* traffic by descriptor, whatever its SSL* is.                             *)
keyFor(pid, fd, ssl, sslFallback) ==
    IF sslFallback THEN [pid |-> pid, fd |-> 0, ssl |-> ssl, sslFallback |-> TRUE]
                   ELSE [pid |-> pid, fd |-> fd, ssl |-> 0, sslFallback |-> FALSE]

pairKey == [pid : Pid, fd : Fd, ssl : {0}, sslFallback : {FALSE}]
           \cup [pid : Pid, fd : {0}, ssl : Ssl, sslFallback : {TRUE}]

(* A connection is one life of a key: from a close of the key to the next. *)
Connection == [key : pairKey, life : 0..MaxMsgs]

(* pos counts the messages of one direction of a connection.                *)
Message == [isRequest : BOOLEAN, conn : Connection, pos : 1..MaxMsgs]

VARIABLES
    log,                \* every message pushed, in order
    pending,            \* requests that wait for a response
    heldResponses,      \* responses that wait for a request
    overdue,            \* pending requests that have waited for the timeout
    life,               \* how often a key in use was closed
    reqs, ress,         \* requests and responses of the current life of a key
    paired,             \* reported <<request, response>>
    closed,             \* requests reported as abandoned: peer closed
    timedOut,           \* requests reported as abandoned: timed out
    lossy               \* connections that lost a message before it was matched

vars == <<log, pending, heldResponses, overdue, life, reqs, ress,
          paired, closed, timedOut, lossy>>

ConnOf(key) == [key |-> key, life |-> life[key]]

Last == Len(log)
Conn(n) == log[n].conn
Of(key, S) == {n \in S : Conn(n).key = key}
(* Fault: the newest entry of a queue is taken for its head. *)
IsOldest_Newest(n, S) == n \in S /\ \A m \in S : m <= n

IsOldest(n, S) == n \in S /\ \A m \in S : n <= m

-----------------------------------------------------------------------------

Init ==
    /\ log = <<>>
    /\ pending = {} /\ heldResponses = {} /\ overdue = {}
    /\ life = [k \in pairKey |-> 0]
    /\ reqs = [k \in pairKey |-> 0]
    /\ ress = [k \in pairKey |-> 0]
    /\ paired = {} /\ closed = {} /\ timedOut = {} /\ lossy = {}

KeyOf(o) == keyFor(o.pid, o.fd, o.ssl, o.sslFallback)

RecordRequest(key) ==
    /\ Last < MaxMsgs
    /\ reqs' = [reqs EXCEPT ![key] = @ + 1]
    /\ log' = Append(log, [isRequest |-> TRUE, conn |-> ConnOf(key), pos |-> reqs[key] + 1])
    /\ UNCHANGED <<ress, life, closed, timedOut>>

RecordResponse(key) ==
    /\ Last < MaxMsgs
    /\ ress' = [ress EXCEPT ![key] = @ + 1]
    /\ log' = Append(log, [isRequest |-> FALSE, conn |-> ConnOf(key), pos |-> ress[key] + 1])
    /\ UNCHANGED <<reqs, life, closed, timedOut>>

(* Push of a request that a held response was waiting for. *)
PushRequestMatched(key) ==
    /\ RecordRequest(key)
    /\ \E res \in heldResponses :
          /\ IsOldest(res, Of(key, heldResponses))
          /\ heldResponses' = heldResponses \ {res}
          /\ paired' = paired \cup {<<Last + 1, res>>}
    /\ UNCHANGED <<pending, overdue, lossy>>

(* Fault: a request is queued without a look at the held responses. *)
PushRequestPending_NoMatch(key) ==
    /\ RecordRequest(key)
    /\ pending' = pending \cup {Last + 1}
    /\ UNCHANGED <<heldResponses, overdue, paired, lossy>>

(* Push of a request with no response to it yet. *)
PushRequestPending(key) ==
    /\ RecordRequest(key)
    /\ Of(key, heldResponses) = {}
    /\ pending' = pending \cup {Last + 1}
    /\ UNCHANGED <<heldResponses, overdue, paired, lossy>>

(* Push of a response: the head of the key's queue is its request. *)
PushResponseMatched(key) ==
    /\ RecordResponse(key)
    /\ \E req \in pending :
          /\ IsOldest(req, Of(key, pending))
          /\ pending' = pending \ {req}
          /\ overdue' = overdue \ {req}
          /\ paired' = paired \cup {<<req, Last + 1>>}
    /\ UNCHANGED <<heldResponses, lossy>>

(* Fault: the limit holds for each key, not for the slice. *)
holdResponse_LimitPerKey(n) ==
    LET held == Of(log'[n].conn.key, heldResponses) IN
    IF Cardinality(held) >= MaxHeld
    THEN \E old \in held :
            /\ IsOldest(old, held)
            /\ heldResponses' = (heldResponses \cup {n}) \ {old}
            /\ lossy' = lossy \cup {Conn(old)}
    ELSE /\ heldResponses' = heldResponses \cup {n}
         /\ UNCHANGED lossy

(* holdResponse: past the limit the oldest one of any key is dropped. *)
holdResponse(n) ==
    IF Cardinality(heldResponses \cup {n}) > MaxHeld
    THEN \E old \in heldResponses :
            /\ IsOldest(old, heldResponses)
            /\ heldResponses' = (heldResponses \cup {n}) \ {old}
            /\ lossy' = lossy \cup {Conn(old)}
    ELSE /\ heldResponses' = heldResponses \cup {n}
         /\ UNCHANGED lossy

PushResponseHeld(key) ==
    /\ RecordResponse(key)
    /\ Of(key, pending) = {}
    /\ holdResponse(Last + 1)
    /\ UNCHANGED <<pending, overdue, paired>>

(* Push begins by dropping what has neither a descriptor nor an SSL*. *)
Push(o) ==
    /\ ~(o.sslFallback /\ o.ssl = 0)
    /\ \/ PushRequestMatched(KeyOf(o))
       \/ PushRequestPending(KeyOf(o))
       \/ PushResponseMatched(KeyOf(o))
       \/ PushResponseHeld(KeyOf(o))

(* Fault: a close deletes the queue and reports nothing. *)
CloseKey_Silent(key) ==
    /\ heldResponses' = heldResponses \ Of(key, heldResponses)
    /\ pending' = pending \ Of(key, pending)
    /\ overdue' = overdue \ Of(key, pending)
    /\ reqs[key] + ress[key] > 0
    /\ life' = [life EXCEPT ![key] = @ + 1]
    /\ reqs' = [reqs EXCEPT ![key] = 0]
    /\ ress' = [ress EXCEPT ![key] = 0]
    /\ UNCHANGED <<log, paired, closed, timedOut, lossy>>

(* Close and CloseSSL: held responses are discarded, requests abandoned.   *)
(* The life of a key that saw no message is not ended: nothing changes.     *)
CloseKey(key) ==
    /\ heldResponses' = heldResponses \ Of(key, heldResponses)
    /\ pending' = pending \ Of(key, pending)
    /\ overdue' = overdue \ Of(key, pending)
    /\ closed' = closed \cup Of(key, pending)
    /\ reqs[key] + ress[key] > 0
    /\ life' = [life EXCEPT ![key] = @ + 1]
    /\ reqs' = [reqs EXCEPT ![key] = 0]
    /\ ress' = [ress EXCEPT ![key] = 0]
    /\ UNCHANGED <<log, paired, timedOut, lossy>>

Close(pid, fd) == CloseKey(keyFor(pid, fd, 0, FALSE))

CloseSSL(pid, ssl) == CloseKey(keyFor(pid, 0, ssl, TRUE))

(* Time passes: requests reach the timeout in the order of arrival. *)
Expire ==
    /\ \E req \in pending \ overdue :
          /\ IsOldest(req, pending \ overdue)
          /\ overdue' = overdue \cup {req}
    /\ UNCHANGED <<log, pending, heldResponses, life, reqs, ress,
                   paired, closed, timedOut, lossy>>

(* Fault: the early return looks at the held responses, not at the queues. *)
Sweep_WrongEarlyReturn ==
    /\ heldResponses # {}
    /\ overdue # {}
    /\ timedOut' = timedOut \cup overdue
    /\ pending' = pending \ overdue
    /\ overdue' = {}
    /\ lossy' = lossy \cup {Conn(n) : n \in overdue}
    /\ UNCHANGED <<log, heldResponses, life, reqs, ress, paired, closed>>

(* Sweep abandons every overdue request, and looks at no held response. *)
Sweep ==
    /\ overdue # {}
    /\ timedOut' = timedOut \cup overdue
    /\ pending' = pending \ overdue
    /\ overdue' = {}
    /\ lossy' = lossy \cup {Conn(n) : n \in overdue}
    /\ UNCHANGED <<log, heldResponses, life, reqs, ress, paired, closed>>

Next ==
    \/ \E o \in Origin : Push(o)
    \/ \E pid \in Pid : \E fd \in Fd : Close(pid, fd)
    \/ \E pid \in Pid : \E ssl \in Ssl : CloseSSL(pid, ssl)
    \/ Expire
    \/ Sweep

(* The clock advances and captureWithOptions sweeps every ten seconds. *)
Fairness == WF_vars(Expire) /\ WF_vars(Sweep)

Spec == Init /\ [][Next]_vars

FairSpec == Spec /\ Fairness

-----------------------------------------------------------------------------

(* The type invariant. *)
TypeOK ==
    /\ log \in Seq(Message)
    /\ pending \subseteq 1..Last
    /\ heldResponses \subseteq 1..Last
    /\ overdue \subseteq pending
    /\ life \in [pairKey -> 0..MaxMsgs]
    /\ reqs \in [pairKey -> 0..MaxMsgs]
    /\ ress \in [pairKey -> 0..MaxMsgs]
    /\ paired \subseteq (1..Last) \X (1..Last)
    /\ closed \subseteq 1..Last
    /\ timedOut \subseteq 1..Last
    /\ lossy \subseteq Connection

(* The slice of held responses never outgrows maxHeldResponses: no sweep    *)
(* looks at it (pairer.go:216-238), so responses whose requests never came, *)
(* on however many connections, are bounded by holdResponse alone, which    *)
(* drops the oldest one of any key (pairer.go:124-130).                     *)
HeldBound == Cardinality(heldResponses) <= MaxHeld

(* A request is reported at most once and is never reported while it still *)
(* waits; a response is used at most once and never while it is held.       *)
ReportedOnce ==
    /\ \A p \in paired :
          /\ p[1] \notin pending \cup closed \cup timedOut
          /\ p[2] \notin heldResponses
    /\ closed \cap timedOut = {}
    /\ pending \cap (closed \cup timedOut) = {}
    /\ \A p, q \in paired : p # q => p[1] # q[1] /\ p[2] # q[2]

(* No request is lost by the pairer: each one pushed still waits or was     *)
(* reported.                                                                *)
NoRequestLost ==
    \A n \in 1..Last : log[n].isRequest =>
        n \in pending \cup closed \cup timedOut \/ \E s \in 1..Last : <<n, s>> \in paired

(* One side of a key waits, never both: Push tries to match before it       *)
(* queues, so a request never sits beside a held response for its key.      *)
NeverBothWaiting ==
    \A r \in pending, s \in heldResponses : Conn(r).key # Conn(s).key

(* An event never joins two connections: a close of a key leaves nothing    *)
(* behind that a later use of the same descriptor or SSL* could pair with,  *)
(* and descriptor keys never meet SSL* keys.                                *)
SameConnection ==
    \A p \in paired :
        /\ Conn(p[1]) = Conn(p[2])
        /\ log[p[1]].isRequest /\ ~log[p[2]].isRequest

(* Pairings of one connection do not cross: of two requests that were       *)
(* answered, the earlier one has the earlier response.  Sweeps and          *)
(* evictions do not disturb this.                                           *)
InOrder ==
    \A p, q \in paired :
        Conn(p[1]) = Conn(q[1]) => (p[1] < q[1] <=> p[2] < q[2])

(* On a connection that lost nothing, neither a request to the sweeper nor  *)
(* a response to the limit, the n-th request is paired with the n-th        *)
(* response, however requests and responses interleave.                     *)
PairedByPosition ==
    \A p \in paired : Conn(p[1]) \notin lossy => log[p[1]].pos = log[p[2]].pos

(* A request does not wait for ever: a response, a close or the sweeper     *)
(* takes it.                                                                *)
EveryRequestSettled ==
    \A n \in 1..MaxMsgs : (n \in pending) ~> (n \notin pending)

(* The pairer implements the contract of Exchanges.                         *)
Contract == INSTANCE Exchanges WITH
    open <- pending,
    answered <- paired,
    givenUp <- timedOut,
    dead <- {c \in Connection : c.life < life[c.key]}

ImplementsContract == Contract!Spec
=============================================================================
