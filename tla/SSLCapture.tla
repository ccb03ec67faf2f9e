----------------------------- MODULE SSLCapture -----------------------------
(***************************************************************************)
(* TLS capture of one process: the uprobes of bpf/tinytap_uprobe.bpf.c, the *)
(* ring buffer between kernel and user space, and the reader goroutine of   *)
(* cmd/tinytap/tlscapture.go, which asks ssl_fd_map for the descriptor of   *)
(* an event when it handles the event, not when the event happened.  Beside *)
(* it a sweeper goroutine abandons what has waited for the timeout; it      *)
(* shares the pairer with the reader, under one mutex.  (How the sweeper is *)
(* joined when the capture ends is as in Capture.)                          *)
(*                                                                          *)
(* The process runs TLS connections over a few SSL objects and descriptors, *)
(* which it uses again for later ones, as soon as they are free.  A         *)
(* connection is served by a thread of its own; an SSL_write carries a      *)
(* request and an SSL_read a response.  SSL_write and SSL_read also stand   *)
(* for their _ex forms, which differ in how they tell the length; a         *)
(* connection reads with one of the two forms.                              *)
(*                                                                          *)
(* The ring buffer and the maps are finite: what finds them full is lost    *)
(* and counted.                                                             *)
(***************************************************************************)
EXTENDS Naturals, Sequences, FiniteSets

CONSTANTS
    TLSConn,            \* the connections of a behaviour (bound)
    SSLPtr,             \* the addresses of SSL objects
    MaxExchanges,       \* bound: exchanges on one connection
    MaxRequests,        \* bound: exchanges of all connections
    RingCap,            \* events that ssl_events holds
    MapCap,             \* max_entries of ssl_fd_map and ssl_read_pending_map
    MaxMishaps,         \* bound: events that find no room, repeated writes,
                        \* descriptors closed early and requests timed out
    None,
    Pid, Fd, Ssl, MaxHeld, MaxMsgs

ASSUME SSLCaptureAssumption ==
    /\ SSLPtr \subseteq Nat \ {0} /\ SSLPtr \subseteq Ssl
    /\ Pid = {1} /\ Fd \subseteq Nat /\ Ssl \subseteq Nat /\ 0 \in Fd /\ 0 \in Ssl
    /\ MaxHeld \in Nat \ {0} /\ MaxMsgs \in Nat
    /\ MaxExchanges \in Nat \ {0} /\ MaxRequests \in Nat
    /\ MaxMishaps \in Nat
    /\ RingCap \in Nat \ {0} /\ MapCap \in Nat \ {0}
    /\ None \notin Nat

VARIABLES
    phase,              \* of a connection: "new", "open", "freed"
    ssl, fd,            \* its SSL object, its descriptor
    fdOpen,             \* the connections whose descriptor is open
    reading,            \* the connections whose thread is in SSL_read
    requests, responses,\* how many it has sent and received
    ssl_fd_map,         \* kernel: SSL* to descriptor, or None
    ssl_read_pending_map,   \* kernel: the threads with an entry
    ssl_events,         \* kernel: the ring buffer
    drop_counters,      \* kernel: the kinds of drops counted
    mishaps,            \* bound
    hand,               \* the event the reader goroutine works on
    exchange,           \* history: <<connection, exchange>> of each message in log
    keys,               \* history: the keys the events of a connection had
    torn,               \* history: the connections whose SSL_free was handled
    repeated,           \* history: the connections that called SSL_write again
    raced,              \* history: the connections that got an address, or a
                        \* descriptor, that was not free in the capture's eyes,
                        \* and the connections they got it from
    log, pending, heldResponses, overdue, life, reqs, ress,
    paired, closed, timedOut, lossy     \* of the pairer

P == INSTANCE Pairer

pairer == <<log, pending, heldResponses, overdue, life, reqs, ress,
            paired, closed, timedOut, lossy>>
process == <<phase, ssl, fd, fdOpen, reading, requests, responses, repeated, raced>>
kernel == <<ssl_fd_map, ssl_read_pending_map, ssl_events, drop_counters, mishaps>>
seenByReader == <<exchange, keys, torn>>
vars == <<process, kernel, hand, seenByReader, pairer>>

SSLEvent == [op : {"write", "read", "free"}, conn : TLSConn, no : 0..MaxExchanges]

(* An event that was looked up. *)
Work == [e : SSLEvent, fd : Fd \cup {None}]

ASSUME NoneAssumption == None \notin Work

Init ==
    /\ phase = [c \in TLSConn |-> "new"]
    /\ ssl = [c \in TLSConn |-> None] /\ fd = [c \in TLSConn |-> None]
    /\ fdOpen = {} /\ reading = {}
    /\ requests = [c \in TLSConn |-> 0] /\ responses = [c \in TLSConn |-> 0]
    /\ ssl_fd_map = [p \in SSLPtr |-> None]
    /\ ssl_read_pending_map = {} /\ ssl_events = <<>> /\ drop_counters = {}
    /\ mishaps = 0
    /\ hand = None
    /\ exchange = <<>> /\ keys = [c \in TLSConn |-> {}] /\ torn = {}
    /\ repeated = {} /\ raced = {}
    /\ P!Init

-----------------------------------------------------------------------------
(* The process and the probes in it.                                        *)

Open == {c \in TLSConn : phase[c] = "open"}

Mishap == mishaps < MaxMishaps /\ mishaps' = mishaps + 1

count_drop(kind) == Mishap /\ drop_counters' = drop_counters \cup {kind}
Counted == <<drop_counters, mishaps>>

(* The connections whose address a new one takes before their SSL_free was  *)
(* handled, or whose descriptor before they called SSL_free.  In the first  *)
(* case the SSL_free that is to come will be given the new descriptor: then *)
(* those with that descriptor whose SSL_free was not handled, too.          *)
Disturbed(p, f) ==
    LET Before == {d \in TLSConn \ torn : phase[d] # "new"}
        Owners == {d \in Before : ssl[d] = p}
    IN  Owners \cup {d \in Before : fd[d] = f /\ (phase[d] = "open" \/ Owners # {})}

handle_ssl_set_fd(p, f) ==
    IF ssl_fd_map[p] = None
       /\ Cardinality({q \in SSLPtr : ssl_fd_map[q] # None}) >= MapCap
    THEN count_drop("map") /\ UNCHANGED ssl_fd_map
    ELSE ssl_fd_map' = [ssl_fd_map EXCEPT ![p] = f] /\ UNCHANGED Counted

FreeFd == Fd \ ({0} \cup {fd[d] : d \in fdOpen})

(* SSL_new and, unless the process uses a BIO of its own, SSL_set_fd.  The  *)
(* system gives out the least free descriptor; an address is any free one   *)
(* (which of those never used is no matter: it is the least).               *)
Connect(c, p, f, setsFd) ==
    /\ phase[c] = "new" /\ FreeFd # {}
    /\ \A d \in Open : ssl[d] # p
    /\ \A q \in SSLPtr : q < p => \E d \in TLSConn : ssl[d] = q
    /\ f = CHOOSE g \in FreeFd : \A h \in FreeFd : g <= h
    /\ phase' = [phase EXCEPT ![c] = "open"]
    /\ ssl' = [ssl EXCEPT ![c] = p]
    /\ fd' = [fd EXCEPT ![c] = f]
    /\ fdOpen' = fdOpen \cup {c}
    /\ raced' = IF Disturbed(p, f) = {} THEN raced
                ELSE raced \cup Disturbed(p, f) \cup {c}
    /\ IF setsFd THEN handle_ssl_set_fd(p, f) ELSE UNCHANGED <<ssl_fd_map, Counted>>
    /\ UNCHANGED <<reading, requests, responses, repeated, ssl_read_pending_map,
                   ssl_events, hand, seenByReader, pairer>>

Pending == <<ssl_read_pending_map, drop_counters>>

(* Fault: an event that finds the ring full is not counted. *)
submit_ssl_event_Uncounted(op, c, no) ==
    /\ ssl_events' = IF Len(ssl_events) = RingCap THEN ssl_events
                     ELSE Append(ssl_events, [op |-> op, conn |-> c, no |-> no])
    /\ UNCHANGED Counted

submit_ssl_event(op, c, no) ==
    IF Len(ssl_events) = RingCap
    THEN count_drop("ringbuf") /\ UNCHANGED ssl_events
    ELSE /\ ssl_events' = Append(ssl_events, [op |-> op, conn |-> c, no |-> no])
         /\ UNCHANGED Counted

Written == {x \in TLSConn \X (1..MaxExchanges) : x[2] <= requests[x[1]]}

SSL_write(c) ==
    /\ phase[c] = "open" /\ requests[c] < MaxExchanges
    /\ Cardinality(Written) < MaxRequests
    /\ requests' = [requests EXCEPT ![c] = @ + 1]
    /\ submit_ssl_event("write", c, requests[c] + 1)
    /\ UNCHANGED <<phase, ssl, fd, fdOpen, reading, responses, repeated, raced, ssl_fd_map,
                   ssl_read_pending_map, hand, seenByReader, pairer>>

(* A write that could not be finished is called again with the same bytes;  *)
(* the probe is at the entry and sees both calls.                           *)
RepeatSSL_write(c) ==
    /\ phase[c] = "open" /\ Len(ssl_events) < RingCap /\ Mishap
    /\ requests[c] > responses[c]
    /\ repeated' = repeated \cup {c}
    /\ ssl_events' = Append(ssl_events, [op |-> "write", conn |-> c, no |-> requests[c]])
    /\ UNCHANGED <<phase, ssl, fd, fdOpen, reading, requests, responses, raced, ssl_fd_map,
                   ssl_read_pending_map, drop_counters, hand, seenByReader, pairer>>

(* handle_ssl_read stashes the arguments, unless the map is full.           *)
EnterSSL_read(c) ==
    /\ phase[c] = "open" /\ c \notin reading /\ responses[c] < requests[c]
    /\ reading' = reading \cup {c}
    /\ IF Cardinality(ssl_read_pending_map) >= MapCap
       THEN count_drop("map") /\ UNCHANGED ssl_read_pending_map
       ELSE /\ ssl_read_pending_map' = ssl_read_pending_map \cup {c}
            /\ UNCHANGED Counted
    /\ UNCHANGED <<phase, ssl, fd, fdOpen, requests, responses, repeated, raced, ssl_fd_map,
                   ssl_events, hand, seenByReader, pairer>>

(* handle_ssl_read_ret: ok if the read returned data.                       *)
ReturnFromSSL_read(c, ok) ==
    /\ c \in reading /\ reading' = reading \ {c}
    /\ ok => responses[c] < requests[c]
    /\ responses' = IF ok THEN [responses EXCEPT ![c] = @ + 1] ELSE responses
    /\ ssl_read_pending_map' = ssl_read_pending_map \ {c}
    /\ IF ok /\ c \in ssl_read_pending_map
       THEN submit_ssl_event("read", c, responses[c] + 1)
       ELSE UNCHANGED <<ssl_events, Counted>>
    /\ UNCHANGED <<phase, ssl, fd, fdOpen, requests, repeated, raced, ssl_fd_map,
                   hand, seenByReader, pairer>>

(* SSL_free, and close if the descriptor is still open.                     *)
SSL_free(c) ==
    /\ phase[c] = "open" /\ c \notin reading
    /\ phase' = [phase EXCEPT ![c] = "freed"]
    /\ fdOpen' = fdOpen \ {c}
    /\ submit_ssl_event("free", c, 0)
    /\ UNCHANGED <<ssl, fd, reading, requests, responses, repeated, raced,
                   ssl_fd_map, ssl_read_pending_map, hand, seenByReader, pairer>>

(* A process may close the descriptor before it calls SSL_free.             *)
CloseDescriptor(c) ==
    /\ c \in fdOpen /\ c \notin reading /\ Mishap
    /\ fdOpen' = fdOpen \ {c}
    /\ UNCHANGED <<phase, ssl, fd, reading, requests, responses, repeated, raced,
                   ssl_fd_map, Pending, ssl_events, hand, seenByReader, pairer>>

-----------------------------------------------------------------------------
(* The reader goroutine.                                                    *)

(* Fault: the look-up takes the entry out of the map. *)
Take_DeletesEntry ==
    /\ hand = None /\ ssl_events # <<>>
    /\ LET e == Head(ssl_events) IN
          /\ hand' = [e |-> e, fd |-> ssl_fd_map[ssl[e.conn]]]
          /\ ssl_fd_map' = [ssl_fd_map EXCEPT ![ssl[e.conn]] = None]
    /\ ssl_events' = Tail(ssl_events)
    /\ UNCHANGED <<process, Pending, mishaps, seenByReader, pairer>>

(* Read and Lookup: an event leaves the ring and is given a descriptor.     *)
Take ==
    /\ hand = None /\ ssl_events # <<>>
    /\ LET e == Head(ssl_events) IN hand' = [e |-> e, fd |-> ssl_fd_map[ssl[e.conn]]]
    /\ ssl_events' = Tail(ssl_events)
    /\ UNCHANGED <<process, ssl_fd_map, Pending, mishaps, seenByReader, pairer>>

(* Fault: without a descriptor the key is that of descriptor 0. *)
Key_NoFallback ==
    [pid |-> 1, fd |-> IF hand.fd = None THEN 0 ELSE hand.fd, ssl |-> 0, sslFallback |-> FALSE]

Key ==
    IF hand.fd = None THEN [pid |-> 1, fd |-> 0, ssl |-> ssl[hand.e.conn], sslFallback |-> TRUE]
    ELSE [pid |-> 1, fd |-> hand.fd, ssl |-> 0, sslFallback |-> FALSE]

(* A message is parsed and pushed. *)
HandleMessage ==
    /\ hand # None /\ hand.e.op # "free"
    /\ P!Push(Key)
    /\ log'[Len(log')].isRequest = (hand.e.op = "write")
    /\ exchange' = Append(exchange, <<hand.e.conn, hand.e.no>>)
    /\ keys' = [keys EXCEPT ![hand.e.conn] = @ \cup {Key}]
    /\ hand' = None
    /\ UNCHANGED <<process, kernel, torn>>

InUse(key) == P!Of(key, 1..Len(log)) # {} /\ reqs[key] + ress[key] > 0

(* Fault: the SSL object's side is torn down, whatever the key was. *)
HandleFree_SSLSideOnly ==
    /\ hand # None /\ hand.e.op = "free"
    /\ ssl_fd_map' = [ssl_fd_map EXCEPT ![ssl[hand.e.conn]] = None]
    /\ LET key == [pid |-> 1, fd |-> 0, ssl |-> ssl[hand.e.conn], sslFallback |-> TRUE] IN
          IF InUse(key) THEN P!CloseKey(key) ELSE UNCHANGED pairer
    /\ torn' = torn \cup {hand.e.conn}
    /\ hand' = None
    /\ UNCHANGED <<process, Pending, mishaps, ssl_events, exchange, keys>>

(* SSL_free: Delete, then parser and pairer close the side Lookup chose.    *)
HandleFree ==
    /\ hand # None /\ hand.e.op = "free"
    /\ ssl_fd_map' = [ssl_fd_map EXCEPT ![ssl[hand.e.conn]] = None]
    /\ IF InUse(Key) THEN P!CloseKey(Key) ELSE UNCHANGED pairer
    /\ torn' = torn \cup {hand.e.conn}
    /\ hand' = None
    /\ UNCHANGED <<process, Pending, mishaps, ssl_events, exchange, keys>>

-----------------------------------------------------------------------------
(* The sweeper goroutine.                                                   *)

(* Time passes: a request has waited for pendingTimeout.                    *)
Expire ==
    /\ Mishap
    /\ P!Expire
    /\ UNCHANGED <<process, ssl_fd_map, Pending, ssl_events, hand, seenByReader>>

(* The ticker fires: what is overdue is reported, on any connection.        *)
Sweep ==
    /\ P!Sweep
    /\ UNCHANGED <<process, kernel, hand, seenByReader>>

-----------------------------------------------------------------------------

Next ==
    \/ \E c \in TLSConn :
          \/ \E p \in SSLPtr, f \in Fd, setsFd \in BOOLEAN :
                Connect(c, p, f, setsFd)
          \/ SSL_write(c) \/ RepeatSSL_write(c)
          \/ EnterSSL_read(c) \/ \E ok \in BOOLEAN : ReturnFromSSL_read(c, ok)
          \/ SSL_free(c) \/ CloseDescriptor(c)
    \/ Take \/ HandleMessage \/ HandleFree
    \/ Expire \/ Sweep

Spec == Init /\ [][Next]_vars

-----------------------------------------------------------------------------

(* The type invariant.                                                      *)
TypeOK ==
    /\ phase \in [TLSConn -> {"new", "open", "freed"}]
    /\ fdOpen \subseteq TLSConn /\ reading \subseteq Open
    /\ ssl_read_pending_map \subseteq reading
    /\ ssl_fd_map \in [SSLPtr -> Fd \cup {None}]
    /\ ssl_events \in Seq(SSLEvent) /\ Len(ssl_events) <= RingCap
    /\ drop_counters \subseteq {"ringbuf", "map"} /\ mishaps \in 0..MaxMishaps
    /\ hand \in Work \cup {None}
    /\ \A c \in TLSConn : keys[c] \subseteq P!pairKey
    /\ torn \subseteq {c \in TLSConn : phase[c] = "freed"}

ConnOf(n) == exchange[n][1]

(* A pair joins a request and a response of one exchange of one connection, *)
(* though addresses and descriptors serve one connection after the other    *)
(* and the descriptor is looked up late.  Where it does not, the drop       *)
(* counters say that events are missing, or the key saw, since it was last  *)
(* torn down, a request that timed out, or messages of a connection that    *)
(* repeated a write or that got, or lost, an address or a descriptor not    *)
(* yet given up.                                                            *)
RightExchange ==
    \A p \in paired :
        \/ exchange[p[1]] = exchange[p[2]]
        \/ \E m \in 1..Len(log) : /\ P!Conn(m) = P!Conn(p[1])
                                  /\ m \in timedOut \/ ConnOf(m) \in raced \cup repeated
        \/ drop_counters # {}

(* All events of a connection are kept under one key: with two, a request   *)
(* and its response would wait for each other for ever.  That holds, too,   *)
(* when the ring and the maps are full.                                     *)
OneKey == \A c \in TLSConn \ raced : Cardinality(keys[c]) <= 1

(* A request is reported as abandoned because its peer closed only when its *)
(* own connection is gone, unless an SSL_free was dropped: its entry in     *)
(* ssl_fd_map then leads a later connection without SSL_set_fd to the key   *)
(* of another.  The sweeper gives up requests of live connections, with a   *)
(* reason of its own (tlscapture.go:41-44); no request is reported by both. *)
OnlyFreedAbandoned ==
    \A n \in closed :
        /\ n \notin timedOut
        /\ \/ phase[ConnOf(n)] = "freed" \/ ConnOf(n) \in raced
           \/ "ringbuf" \in drop_counters

(* After its SSL_free nothing of a connection waits, also when events of it *)
(* were lost, unless its address was given out before that was handled.     *)
FreeTearsDown ==
    \A n \in pending \cup heldResponses : ConnOf(n) \notin torn \ raced

(* When everything was read, every request and every response has arrived,  *)
(* or a drop counter says that some did not.                                *)
NoSilentLoss ==
    (ssl_events = <<>> /\ hand = None /\ drop_counters = {}) =>
        \A c \in TLSConn, n \in 1..MaxExchanges :
            /\ n <= requests[c] => \E m \in 1..Len(log) :
                                     log[m].isRequest /\ exchange[m] = <<c, n>>
            /\ n <= responses[c] => \E m \in 1..Len(log) :
                                     ~log[m].isRequest /\ exchange[m] = <<c, n>>
=============================================================================
