-------------------------- MODULE SSLCaptureProofs --------------------------
(***************************************************************************)
(* Proofs about SSLCapture for every number of connections, every set of    *)
(* addresses and descriptors, every size of the ring buffer and of the maps *)
(* and every number of mishaps.                                             *)
(*                                                                          *)
(* The pairer inside makes steps of Pairer only, so what PairerProofs shows *)
(* of Pairer holds here (PP); the rest is about the order of the events     *)
(* between the process and the reader.                                      *)
(***************************************************************************)
EXTENDS SSLCapture, FiniteSetTheorems, TLAPS

PP == INSTANCE PairerProofs

Constants == SSLCaptureAssumption

(* What is known of an element that is appended, and of the others.         *)
LEMMA AppendFacts ==
    ASSUME NEW S, NEW s \in Seq(S), NEW e \in S
    PROVE  /\ Append(s, e) \in Seq(S)
           /\ Len(Append(s, e)) = Len(s) + 1
           /\ Len(s) \in Nat
           /\ \A n \in 1..Len(s) : Append(s, e)[n] = s[n]
           /\ Append(s, e)[Len(s) + 1] = e
OBVIOUS

LEMMA TailFacts ==
    ASSUME NEW S, NEW s \in Seq(S), s # <<>>
    PROVE  /\ Head(s) \in S /\ Head(s) = s[1]
           /\ Tail(s) \in Seq(S)
           /\ Len(s) \in Nat \ {0}
           /\ Len(Tail(s)) = Len(s) - 1
           /\ \A n \in 1..(Len(s) - 1) : Tail(s)[n] = s[n + 1]
OBVIOUS

-----------------------------------------------------------------------------
(* Type correctness.                                                        *)

Phases == {"new", "open", "freed"}

ProcessTypes ==
    /\ phase \in [TLSConn -> Phases]
    /\ ssl \in [TLSConn -> SSLPtr \cup {None}]
    /\ fd \in [TLSConn -> Fd \cup {None}]
    /\ \A c \in TLSConn : phase[c] # "new" => ssl[c] \in SSLPtr /\ fd[c] \in Fd
    /\ fdOpen \subseteq TLSConn
    /\ reading \subseteq Open
    /\ requests \in [TLSConn -> 0..MaxExchanges]
    /\ responses \in [TLSConn -> 0..MaxExchanges]
    /\ repeated \subseteq TLSConn /\ raced \subseteq TLSConn

KernelTypes ==
    /\ ssl_fd_map \in [SSLPtr -> Fd \cup {None}]
    /\ ssl_read_pending_map \subseteq reading
    /\ ssl_events \in Seq(SSLEvent) /\ Len(ssl_events) <= RingCap
    /\ drop_counters \subseteq {"ringbuf", "map"} /\ mishaps \in 0..MaxMishaps

ReaderTypes ==
    /\ hand \in Work \cup {None}
    /\ exchange \in Seq(TLSConn \X (0..MaxExchanges))
    /\ keys \in [TLSConn -> SUBSET P!pairKey]
    /\ torn \subseteq {c \in TLSConn : phase[c] = "freed"}

(* An event that is on its way is one of a connection that has begun, and   *)
(* has ended if it is its SSL_free.                                         *)
Started(e) == phase[e.conn] # "new" /\ (e.op = "free" => phase[e.conn] = "freed")

Begun ==
    /\ \A i \in 1..Len(ssl_events) : Started(ssl_events[i])
    /\ hand # None => Started(hand.e)

Types == ProcessTypes /\ KernelTypes /\ ReaderTypes /\ Begun

LEMMA EventTypes ==
    ASSUME NEW e \in SSLEvent
    PROVE  e.op \in {"write", "read", "free"} /\ e.conn \in TLSConn /\ e.no \in 0..MaxExchanges
  BY DEF SSLEvent

LEMMA WorkTypes ==
    ASSUME hand \in Work \cup {None}, hand # None
    PROVE  /\ hand.e \in SSLEvent /\ hand.fd \in Fd \cup {None}
           /\ hand.e.conn \in TLSConn
  BY DEF Work, SSLEvent

(* The key of an event is one that the pairer knows.                        *)
LEMMA KeyTypes ==
    ASSUME Types, hand # None
    PROVE  /\ Key \in P!Origin /\ Key \in P!pairKey
           /\ ~(Key.sslFallback /\ Key.ssl = 0)
           /\ P!KeyOf(Key) = Key
           /\ hand.fd = None => /\ Key = P!keyFor(1, 0, ssl[hand.e.conn], TRUE)
                                /\ ssl[hand.e.conn] \in Ssl
           /\ hand.fd # None => /\ Key = P!keyFor(1, hand.fd, 0, FALSE)
                                /\ hand.fd \in Fd
  <1>1. /\ hand.fd \in Fd \cup {None} /\ hand.e.conn \in TLSConn
        /\ phase[hand.e.conn] # "new"
    BY WorkTypes DEF Types, ReaderTypes, Begun, Started
  <1>2. ssl[hand.e.conn] \in SSLPtr
    BY <1>1 DEF Types, ProcessTypes
  <1>3. /\ 1 \in Pid /\ 0 \in Fd /\ 0 \notin SSLPtr /\ ssl[hand.e.conn] \in Ssl
    BY <1>2, Constants DEF Constants
  <1>4. CASE hand.fd = None
    BY <1>2, <1>3, <1>4 DEF Key, P!Origin, P!pairKey, P!KeyOf, P!keyFor
  <1>5. CASE hand.fd # None
    <2>1. hand.fd \in Fd
      BY <1>1, <1>5
    <2>2. Key = [pid |-> 1, fd |-> hand.fd, ssl |-> 0, sslFallback |-> FALSE]
      BY <1>5 DEF Key
    <2>3. Key \in P!pairKey
      BY <1>3, <2>1, <2>2 DEF P!pairKey
    <2> QED
      BY <1>3, <1>5, <2>1, <2>2, <2>3, Constants DEF Constants, P!Origin, P!KeyOf, P!keyFor
  <1> QED
    BY <1>4, <1>5

(* A drop that is counted stays counted.                                    *)
LEMMA CountFacts ==
    ASSUME Types, NEW kind \in {"ringbuf", "map"}, count_drop(kind)
    PROVE  /\ drop_counters' \subseteq {"ringbuf", "map"} /\ mishaps' \in 0..MaxMishaps
           /\ drop_counters \subseteq drop_counters' /\ kind \in drop_counters'
  BY Constants DEF Constants, Types, KernelTypes, count_drop, Mishap

(* An event that is submitted is the last one of the ring, or is counted.   *)
LEMMA SubmitFacts ==
    ASSUME Types, NEW op, NEW c \in TLSConn, NEW no, phase'[c] # "new",
           [op |-> op, conn |-> c, no |-> no] \in SSLEvent,
           submit_ssl_event(op, c, no)
    PROVE  /\ ssl_events' \in Seq(SSLEvent) /\ Len(ssl_events') <= RingCap
           /\ drop_counters' \subseteq {"ringbuf", "map"} /\ mishaps' \in 0..MaxMishaps
           /\ drop_counters \subseteq drop_counters'
           /\ \/ ssl_events' = ssl_events /\ "ringbuf" \in drop_counters'
              \/ ssl_events' = Append(ssl_events, [op |-> op, conn |-> c, no |-> no])
  <1> DEFINE e == [op |-> op, conn |-> c, no |-> no]
  <1>0. ssl_events \in Seq(SSLEvent) /\ Len(ssl_events) <= RingCap /\ RingCap \in Nat
    BY Constants DEF Constants, Types, KernelTypes
  <1>1. CASE Len(ssl_events) = RingCap
    BY <1>0, <1>1, CountFacts DEF submit_ssl_event
  <1>2. CASE Len(ssl_events) # RingCap
    <2>1. ssl_events' = Append(ssl_events, e) /\ UNCHANGED Counted
      BY <1>2 DEF submit_ssl_event
    <2>2. Append(ssl_events, e) \in Seq(SSLEvent) /\ Len(Append(ssl_events, e)) = Len(ssl_events) + 1
      BY <1>0, AppendFacts
    <2>3. Len(ssl_events') <= RingCap
      BY <1>0, <1>2, <2>1, <2>2
    <2> QED
      BY <2>1, <2>2, <2>3 DEF Counted, Types, KernelTypes
  <1> QED
    BY <1>1, <1>2

(* No connection goes back.                                                 *)
Onwards == \A c \in TLSConn : /\ phase[c] # "new" => phase'[c] # "new"
                              /\ phase[c] = "freed" => phase'[c] = "freed"

(* What has started stays so while the queue is left alone, or loses what   *)
(* is in hand, or gets an event of a connection that has begun.             *)
LEMMA BegunAfterSubmit ==
    ASSUME Types, Onwards, hand' = hand \/ hand' = None,
           \/ ssl_events' = ssl_events
           \/ \E e \in SSLEvent : Started(e)' /\ ssl_events' = Append(ssl_events, e)
    PROVE  Begun'
  <1>0. ssl_events \in Seq(SSLEvent) /\ Len(ssl_events) \in Nat
    BY DEF Types, KernelTypes
  <1>e. ASSUME NEW e \in SSLEvent, Started(e) PROVE Started(e)'
    BY <1>e, EventTypes DEF Started, Onwards
  <1>1. ASSUME NEW i \in 1..Len(ssl_events), ssl_events'[i] = ssl_events[i]
        PROVE  Started(ssl_events[i])'
    <2>1. ssl_events[i] \in SSLEvent /\ Started(ssl_events[i])
      BY <1>0 DEF Types, Begun
    <2> QED
      BY <1>1, <1>e, <2>1 DEF Started
  <1>2. ASSUME hand' # None PROVE Started(hand.e)'
    <2>1. hand.e \in SSLEvent /\ Started(hand.e) /\ hand' = hand
      BY <1>2, WorkTypes DEF Types, ReaderTypes, Begun
    <2> QED
      BY <1>e, <2>1 DEF Started
  <1>3. CASE ssl_events' = ssl_events
    BY <1>1, <1>2, <1>3 DEF Begun
  <1>4. ASSUME NEW e \in SSLEvent, Started(e)', ssl_events' = Append(ssl_events, e)
        PROVE  Begun'
    <2>1. /\ Len(ssl_events') = Len(ssl_events) + 1 /\ ssl_events'[Len(ssl_events) + 1] = e
          /\ \A i \in 1..Len(ssl_events) : ssl_events'[i] = ssl_events[i]
      BY <1>0, <1>4, AppendFacts
    <2>2. \A i \in 1..Len(ssl_events') : i \in 1..Len(ssl_events) \/ i = Len(ssl_events) + 1
      BY <1>0, <2>1
    <2>3. \A i \in 1..Len(ssl_events') : Started(ssl_events[i])'
      BY <1>1, <1>4, <2>1, <2>2 DEF Started
    <2> QED
      BY <1>2, <2>3 DEF Begun
  <1> QED
    BY <1>3, <1>4

LEMMA TypesStep == Types /\ [Next]_vars => Types'
  <1> SUFFICES ASSUME Types, [Next]_vars PROVE Types'
    OBVIOUS
  <1> USE Constants DEF Constants
  <1>t. /\ ProcessTypes /\ KernelTypes /\ ReaderTypes /\ Begun
        /\ ssl_events \in Seq(SSLEvent) /\ Len(ssl_events) \in Nat
    BY DEF Types, KernelTypes
  <1>1. ASSUME NEW c \in TLSConn, NEW p \in SSLPtr, NEW f \in Fd, NEW setsFd \in BOOLEAN,
               Connect(c, p, f, setsFd)
        PROVE  Types'
    <2>1. /\ phase[c] = "new" /\ phase' = [phase EXCEPT ![c] = "open"]
          /\ ssl' = [ssl EXCEPT ![c] = p] /\ fd' = [fd EXCEPT ![c] = f]
          /\ fdOpen' = fdOpen \cup {c}
          /\ raced' \subseteq raced \cup Disturbed(p, f) \cup {c}
          /\ UNCHANGED <<reading, requests, responses, repeated, ssl_read_pending_map,
                         ssl_events, hand, exchange, keys, torn>>
      BY <1>1 DEF Connect, seenByReader
    <2>2. Disturbed(p, f) \subseteq TLSConn
      BY DEF Disturbed
    <2>3. /\ ssl_fd_map' \in [SSLPtr -> Fd \cup {None}]
          /\ drop_counters' \subseteq {"ringbuf", "map"} /\ mishaps' \in 0..MaxMishaps
      <3>1. CASE handle_ssl_set_fd(p, f)
        BY <1>t, <3>1, CountFacts DEF handle_ssl_set_fd, Counted, KernelTypes
      <3>2. CASE UNCHANGED <<ssl_fd_map, Counted>>
        BY <1>t, <3>2 DEF Counted, KernelTypes
      <3> QED
        BY <1>1, <3>1, <3>2 DEF Connect
    <2>4. ProcessTypes'
      BY <1>t, <2>1, <2>2 DEF ProcessTypes, Phases, Open
    <2>5. KernelTypes'
      BY <1>t, <2>1, <2>3 DEF KernelTypes
    <2>6. ReaderTypes'
      BY <1>t, <2>1 DEF ReaderTypes, ProcessTypes
    <2>7. Begun'
      <3>1. Onwards
        BY <1>t, <2>1 DEF ProcessTypes, Onwards
      <3> QED
        BY <2>1, <3>1, BegunAfterSubmit
    <2> QED
      BY <2>4, <2>5, <2>6, <2>7 DEF Types
  <1>2. ASSUME NEW c \in TLSConn, SSL_write(c) PROVE Types'
    <2>1. /\ phase[c] = "open" /\ requests[c] < MaxExchanges
          /\ requests' = [requests EXCEPT ![c] = @ + 1]
          /\ submit_ssl_event("write", c, requests[c] + 1)
          /\ UNCHANGED <<phase, ssl, fd, fdOpen, reading, responses, repeated, raced, ssl_fd_map,
                         ssl_read_pending_map, hand, exchange, keys, torn>>
      BY <1>2 DEF SSL_write, seenByReader
    <2>2. [op |-> "write", conn |-> c, no |-> requests[c] + 1] \in SSLEvent
      BY <1>t, <2>1 DEF SSLEvent, ProcessTypes
    <2>3. phase'[c] # "new"
      BY <2>1
    <2>4. KernelTypes'
      BY <1>t, <2>1, <2>2, <2>3, SubmitFacts DEF KernelTypes
    <2>5. Begun'
      <3>1. PICK e \in SSLEvent : e = [op |-> "write", conn |-> c, no |-> requests[c] + 1]
        BY <2>2
      <3>2. Onwards /\ Started(e)'
        BY <2>1, <3>1 DEF Onwards, Started
      <3>3. ssl_events' = ssl_events \/ ssl_events' = Append(ssl_events, e)
        BY <2>1, <2>2, <2>3, <3>1, SubmitFacts
      <3> QED
        BY <2>1, <3>2, <3>3, BegunAfterSubmit
    <2> QED
      BY <1>t, <2>1, <2>4, <2>5 DEF Types, ProcessTypes, ReaderTypes, Open
  <1>3. ASSUME NEW c \in TLSConn, RepeatSSL_write(c) PROVE Types'
    <2>0. PICK e \in SSLEvent : e = [op |-> "write", conn |-> c, no |-> requests[c]]
      BY <1>t DEF SSLEvent, ProcessTypes
    <2>1. /\ phase[c] = "open" /\ Len(ssl_events) < RingCap /\ Mishap
          /\ repeated' = repeated \cup {c} /\ ssl_events' = Append(ssl_events, e)
          /\ UNCHANGED <<phase, ssl, fd, fdOpen, reading, requests, responses, raced, ssl_fd_map,
                         ssl_read_pending_map, drop_counters, hand, exchange, keys, torn>>
      BY <1>3, <2>0 DEF RepeatSSL_write, seenByReader
    <2>2. Started(e)' /\ Onwards
      BY <2>0, <2>1 DEF Started, Onwards
    <2>3. ssl_events' \in Seq(SSLEvent) /\ Len(ssl_events') = Len(ssl_events) + 1
      BY <1>t, <2>1, AppendFacts
    <2>4. KernelTypes'
      BY <1>t, <2>1, <2>3 DEF KernelTypes, Mishap
    <2>5. Begun'
      BY <2>1, <2>2, BegunAfterSubmit
    <2> QED
      BY <1>t, <2>1, <2>4, <2>5 DEF Types, ProcessTypes, ReaderTypes, Open
  <1>4. ASSUME NEW c \in TLSConn, EnterSSL_read(c) PROVE Types'
    <2>1. /\ phase[c] = "open" /\ reading' = reading \cup {c}
          /\ UNCHANGED <<phase, ssl, fd, fdOpen, requests, responses, repeated, raced, ssl_fd_map,
                         ssl_events, hand, exchange, keys, torn>>
      BY <1>4 DEF EnterSSL_read, seenByReader
    <2>2. /\ ssl_read_pending_map' \subseteq reading'
          /\ drop_counters' \subseteq {"ringbuf", "map"} /\ mishaps' \in 0..MaxMishaps
      BY <1>4, <1>t, <2>1, CountFacts DEF EnterSSL_read, Counted, KernelTypes
    <2>3. Begun'
      BY <2>1, BegunAfterSubmit DEF Onwards
    <2> QED
      BY <1>t, <2>1, <2>2, <2>3 DEF Types, ProcessTypes, KernelTypes, ReaderTypes, Open
  <1>5. ASSUME NEW c \in TLSConn, NEW ok \in BOOLEAN, ReturnFromSSL_read(c, ok) PROVE Types'
    <2>1. /\ c \in reading /\ reading' = reading \ {c}
          /\ ok => responses[c] < requests[c]
          /\ responses' = IF ok THEN [responses EXCEPT ![c] = @ + 1] ELSE responses
          /\ ssl_read_pending_map' = ssl_read_pending_map \ {c}
          /\ UNCHANGED <<phase, ssl, fd, fdOpen, requests, repeated, raced, ssl_fd_map,
                         hand, exchange, keys, torn>>
      BY <1>5 DEF ReturnFromSSL_read, seenByReader
    <2>2. phase[c] = "open" /\ requests[c] \in 0..MaxExchanges /\ responses[c] \in 0..MaxExchanges
      BY <1>t, <2>1 DEF ProcessTypes, Open
    <2>3. ProcessTypes' /\ ReaderTypes'
      BY <1>t, <2>1, <2>2 DEF ProcessTypes, ReaderTypes, Open
    <2>4. CASE ok /\ submit_ssl_event("read", c, responses[c] + 1)
      <3>1. [op |-> "read", conn |-> c, no |-> responses[c] + 1] \in SSLEvent
        BY <2>1, <2>2, <2>4 DEF SSLEvent
      <3>2. KernelTypes'
        BY <1>t, <2>1, <2>2, <2>4, <3>1, SubmitFacts DEF KernelTypes
      <3>3. PICK e \in SSLEvent : e = [op |-> "read", conn |-> c, no |-> responses[c] + 1]
        BY <3>1
      <3>4. Onwards /\ Started(e)'
        BY <2>1, <2>2, <3>3 DEF Onwards, Started
      <3>5. Begun'
        <4>1. ssl_events' = ssl_events \/ ssl_events' = Append(ssl_events, e)
          BY <2>1, <2>2, <2>4, <3>1, <3>3, SubmitFacts
        <4> QED
          BY <2>1, <3>4, <4>1, BegunAfterSubmit
      <3> QED
        BY <2>3, <3>2, <3>5 DEF Types
    <2>5. CASE UNCHANGED <<ssl_events, Counted>>
      <3>1. Begun'
        BY <2>1, <2>5, BegunAfterSubmit DEF Onwards
      <3> QED
        BY <1>t, <2>1, <2>3, <2>5, <3>1 DEF Types, KernelTypes, Counted
    <2> QED
      BY <1>5, <2>4, <2>5 DEF ReturnFromSSL_read
  <1>6. ASSUME NEW c \in TLSConn, SSL_free(c) PROVE Types'
    <2>1. /\ phase[c] = "open" /\ c \notin reading
          /\ phase' = [phase EXCEPT ![c] = "freed"] /\ fdOpen' = fdOpen \ {c}
          /\ submit_ssl_event("free", c, 0)
          /\ UNCHANGED <<ssl, fd, reading, requests, responses, repeated, raced,
                         ssl_fd_map, ssl_read_pending_map, hand, exchange, keys, torn>>
      BY <1>6 DEF SSL_free, seenByReader
    <2>2. [op |-> "free", conn |-> c, no |-> 0] \in SSLEvent
      BY DEF SSLEvent
    <2>3. phase'[c] # "new" /\ \A d \in TLSConn : phase[d] # "new" => phase'[d] # "new"
      BY <1>t, <2>1 DEF ProcessTypes
    <2>4. KernelTypes'
      BY <1>t, <2>1, <2>2, <2>3, SubmitFacts DEF KernelTypes
    <2>5. Begun'
      <3>1. Onwards /\ Started([op |-> "free", conn |-> c, no |-> 0])'
        BY <1>t, <2>1 DEF Onwards, Started, ProcessTypes
      <3> QED
        BY <2>1, <2>2, <2>3, <3>1, SubmitFacts, BegunAfterSubmit
    <2>6. ProcessTypes'
      BY <1>t, <2>1 DEF ProcessTypes, Phases, Open
    <2>7. ReaderTypes'
      BY <1>t, <2>1 DEF ReaderTypes, ProcessTypes
    <2> QED
      BY <2>4, <2>5, <2>6, <2>7 DEF Types
  <1>7. ASSUME NEW c \in TLSConn, CloseDescriptor(c) PROVE Types'
    <2>1. /\ fdOpen' = fdOpen \ {c} /\ Mishap
          /\ UNCHANGED <<phase, ssl, fd, reading, requests, responses, repeated, raced,
                         ssl_fd_map, ssl_read_pending_map, drop_counters, ssl_events, hand,
                         exchange, keys, torn>>
      BY <1>7 DEF CloseDescriptor, Pending, seenByReader
    <2>2. Begun'
      BY <2>1, BegunAfterSubmit DEF Onwards
    <2> QED
      BY <1>t, <2>1, <2>2 DEF Mishap, Types, ProcessTypes, KernelTypes, ReaderTypes, Open
  <1>8. CASE Take
    <2>1. /\ hand = None /\ ssl_events # <<>> /\ ssl_events' = Tail(ssl_events)
          /\ hand' = [e |-> Head(ssl_events), fd |-> ssl_fd_map[ssl[Head(ssl_events).conn]]]
          /\ UNCHANGED <<process, ssl_fd_map, ssl_read_pending_map, drop_counters, mishaps,
                         exchange, keys, torn>>
      BY <1>8 DEF Take, Pending, seenByReader
    <2>2. /\ Head(ssl_events) \in SSLEvent /\ Head(ssl_events) = ssl_events[1]
          /\ ssl_events' \in Seq(SSLEvent) /\ Len(ssl_events') = Len(ssl_events) - 1
          /\ Len(ssl_events) # 0
          /\ \A n \in 1..(Len(ssl_events) - 1) : ssl_events'[n] = ssl_events[n + 1]
      BY <1>t, <2>1, TailFacts
    <2>3. /\ Head(ssl_events).conn \in TLSConn /\ Started(Head(ssl_events))
          /\ phase[Head(ssl_events).conn] # "new"
      BY <1>t, <2>2, EventTypes DEF Begun, Started
    <2>4. ssl_fd_map[ssl[Head(ssl_events).conn]] \in Fd \cup {None}
      BY <1>t, <2>3 DEF ProcessTypes, KernelTypes
    <2>5. hand' \in Work /\ hand'.e = Head(ssl_events)
      BY <2>1, <2>2, <2>4 DEF Work
    <2>6. Begun'
      <3>1. \A n \in 1..Len(ssl_events') : n + 1 \in 1..Len(ssl_events) /\ ssl_events'[n] = ssl_events[n + 1]
        BY <1>t, <2>2
      <3> QED
        BY <1>t, <2>1, <2>3, <2>5, <3>1 DEF Begun, Started, process
    <2>7. KernelTypes'
      BY <1>t, <2>1, <2>2 DEF KernelTypes, process
    <2> QED
      BY <1>t, <2>1, <2>5, <2>6, <2>7 DEF Types, process, ProcessTypes, ReaderTypes, Open
  <1>9. CASE HandleMessage
    <2>1. /\ hand # None /\ hand' = None
          /\ exchange' = Append(exchange, <<hand.e.conn, hand.e.no>>)
          /\ keys' = [keys EXCEPT ![hand.e.conn] = @ \cup {Key}]
          /\ UNCHANGED <<process, kernel, torn>>
      BY <1>9 DEF HandleMessage
    <2>2. hand.e \in SSLEvent /\ hand.e.conn \in TLSConn /\ Key \in P!pairKey
      BY <1>t, <2>1, KeyTypes, WorkTypes DEF ReaderTypes
    <2>3. <<hand.e.conn, hand.e.no>> \in TLSConn \X (0..MaxExchanges)
      BY <2>2, EventTypes
    <2>4. exchange' \in Seq(TLSConn \X (0..MaxExchanges))
      BY <1>t, <2>1, <2>3, AppendFacts DEF ReaderTypes
    <2>5. keys' \in [TLSConn -> SUBSET P!pairKey]
      BY <1>t, <2>1, <2>2 DEF ReaderTypes
    <2>6. Begun'
      BY <2>1, BegunAfterSubmit DEF Onwards, process, kernel
    <2> QED
      BY <1>t, <2>1, <2>4, <2>5, <2>6
         DEF Types, process, kernel, ProcessTypes, KernelTypes, ReaderTypes, Open
  <1>10. CASE HandleFree
    <2>1. /\ hand # None /\ hand' = None
          /\ ssl_fd_map' = [ssl_fd_map EXCEPT ![ssl[hand.e.conn]] = None]
          /\ UNCHANGED <<process, ssl_read_pending_map, drop_counters, mishaps, ssl_events,
                         exchange, keys>>
          /\ torn' = torn \cup {hand.e.conn} /\ hand.e.op = "free"
      BY <1>10 DEF HandleFree, Pending
    <2>2. hand.e.conn \in TLSConn /\ phase[hand.e.conn] = "freed"
      BY <1>t, <2>1, WorkTypes DEF ReaderTypes, Begun, Started
    <2>3. Begun'
      BY <2>1, BegunAfterSubmit DEF Onwards, process
    <2>4. ssl_fd_map' \in [SSLPtr -> Fd \cup {None}]
      BY <1>t, <2>1 DEF KernelTypes
    <2>5. torn' \subseteq {c \in TLSConn : phase'[c] = "freed"}
      BY <1>t, <2>1, <2>2 DEF ReaderTypes, process
    <2> QED
      BY <1>t, <2>1, <2>3, <2>4, <2>5
         DEF Types, process, ProcessTypes, KernelTypes, ReaderTypes, Open
  <1>11. CASE Expire \/ Sweep
    <2>1. UNCHANGED <<process, ssl_fd_map, Pending, ssl_events, hand, seenByReader>>
      BY <1>11 DEF Expire, Sweep, kernel, Pending
    <2>2. mishaps' \in 0..MaxMishaps
      BY <1>11, <1>t DEF Expire, Sweep, kernel, Mishap, KernelTypes
    <2>3. Begun'
      BY <2>1, BegunAfterSubmit DEF Onwards, process
    <2> QED
      BY <1>t, <2>1, <2>2, <2>3 DEF Types, process, Pending, seenByReader, ProcessTypes,
         KernelTypes, ReaderTypes, Open
  <1>12. CASE UNCHANGED vars
    BY <1>12, <1>t DEF vars, process, kernel, seenByReader, Types, ProcessTypes, KernelTypes,
       ReaderTypes, Begun, Started, Open
  <1> QED
    BY <1>1, <1>2, <1>3, <1>4, <1>5, <1>6, <1>7, <1>8, <1>9, <1>10, <1>11, <1>12 DEF Next

LEMMA TypesInvariant == Spec => []Types
  <1>1. Init => Types
    <2>1. Init => KernelTypes
      BY Constants DEF Constants, Init, KernelTypes
    <2>2. Init => ProcessTypes
      BY Constants DEF Constants, Init, ProcessTypes, Phases
    <2>3. Init => ReaderTypes /\ Begun
      BY DEF Init, ReaderTypes, Begun
    <2> QED
      BY <2>1, <2>2, <2>3 DEF Types
  <1> QED
    BY <1>1, TypesStep, PTL DEF Spec

(* Every reachable state is well typed: reads and entries belong to open    *)
(* connections, and only freed ones were torn down.                         *)
THEOREM TypeCorrect == Spec => []TypeOK
  <1>1. Types => TypeOK
    BY DEF Types, ProcessTypes, KernelTypes, ReaderTypes, TypeOK, Phases, Open
  <1> QED
    BY <1>1, TypesInvariant, PTL

-----------------------------------------------------------------------------
(* The pairer inside.                                                       *)

(* P and PP name the same specification.                                    *)
LEMMA SamePairer ==
    /\ P!Init <=> PP!Init
    /\ [P!Next]_(P!vars) <=> [PP!Next]_(PP!vars)
    /\ \A o : P!Push(o) <=> PP!Push(o)
    /\ \A k : P!CloseKey(k) <=> PP!CloseKey(k)
    /\ P!pairKey = PP!pairKey
    /\ \A k : P!ConnOf(k) = PP!ConnOf(k)
    /\ \A n : P!Conn(n) = PP!Conn(n)
    /\ \A k, S : P!Of(k, S) = PP!Of(k, S)
  <1>1. P!pairKey = PP!pairKey /\ P!Origin = PP!Origin
    BY DEF P!pairKey, PP!pairKey, P!Origin, PP!Origin
  <1>2. P!Init <=> PP!Init
    BY <1>1 DEF P!Init, PP!Init
  <1>3. \A n : P!Conn(n) = PP!Conn(n)
    BY DEF P!Conn, PP!Conn
  <1>4. \A k : P!ConnOf(k) = PP!ConnOf(k)
    BY DEF P!ConnOf, PP!ConnOf
  <1>5. \A k, S : P!Of(k, S) = PP!Of(k, S)
    BY DEF P!Of, PP!Of, P!Conn, PP!Conn
  <1>6. \A k : P!CloseKey(k) <=> PP!CloseKey(k)
    BY DEF P!CloseKey, PP!CloseKey, P!Of, PP!Of, P!Conn, PP!Conn
  <1>7. \A k : /\ P!RecordRequest(k) <=> PP!RecordRequest(k)
               /\ P!RecordResponse(k) <=> PP!RecordResponse(k)
    BY DEF P!RecordRequest, PP!RecordRequest, P!RecordResponse, PP!RecordResponse,
       P!Last, PP!Last, P!ConnOf, PP!ConnOf
  <1>8. /\ P!Last = PP!Last
        /\ \A n, S : P!IsOldest(n, S) <=> PP!IsOldest(n, S)
    BY DEF P!Last, PP!Last, P!IsOldest, PP!IsOldest
  <1>9. \A n : P!holdResponse(n) <=> PP!holdResponse(n)
    <2>1. \A S : P!Cardinality(S) = PP!Cardinality(S)
      BY DEF P!Cardinality, PP!Cardinality
    <2> QED
      BY <1>3, <1>8, <2>1 DEF P!holdResponse, PP!holdResponse
  <1>10. \A pid, f, s, b : P!keyFor(pid, f, s, b) = PP!keyFor(pid, f, s, b)
    BY DEF P!keyFor, PP!keyFor
  <1>11. \A o : P!KeyOf(o) = PP!KeyOf(o)
    BY <1>10 DEF P!KeyOf, PP!KeyOf
  <1>12. \A k : /\ P!PushRequestMatched(k) <=> PP!PushRequestMatched(k)
                /\ P!PushRequestPending(k) <=> PP!PushRequestPending(k)
                /\ P!PushResponseMatched(k) <=> PP!PushResponseMatched(k)
                /\ P!PushResponseHeld(k) <=> PP!PushResponseHeld(k)
    BY <1>5, <1>7, <1>8, <1>9
       DEF P!PushRequestMatched, PP!PushRequestMatched, P!PushRequestPending, PP!PushRequestPending,
       P!PushResponseMatched, PP!PushResponseMatched, P!PushResponseHeld, PP!PushResponseHeld
  <1>13. \A o : P!Push(o) <=> PP!Push(o)
    BY <1>11, <1>12 DEF P!Push, PP!Push
  <1>14. P!Next <=> PP!Next
    <2>1. /\ \A pid, f : P!Close(pid, f) <=> PP!Close(pid, f)
          /\ \A pid, a : P!CloseSSL(pid, a) <=> PP!CloseSSL(pid, a)
      BY <1>6, <1>10 DEF P!Close, PP!Close, P!CloseSSL, PP!CloseSSL
    <2>2. P!Expire <=> PP!Expire
      BY DEF P!Expire, PP!Expire, P!IsOldest, PP!IsOldest
    <2>3. P!Sweep <=> PP!Sweep
      BY DEF P!Sweep, PP!Sweep, P!Conn, PP!Conn
    <2> QED
      BY <1>1, <1>13, <2>1, <2>2, <2>3 DEF P!Next, PP!Next
  <1>15. [P!Next]_(P!vars) <=> [PP!Next]_(PP!vars)
    BY <1>14 DEF P!vars, PP!vars
  <1> QED
    BY <1>1, <1>2, <1>3, <1>4, <1>5, <1>6, <1>13, <1>15

(* Only the handler of an event and the sweeper touch the pairer.           *)
LEMMA PairerMoves ==
    [Next]_vars => HandleMessage \/ HandleFree \/ P!Expire \/ P!Sweep \/ UNCHANGED pairer
  <1>1. ASSUME NEW c \in TLSConn, NEW p \in SSLPtr, NEW f \in Fd, NEW setsFd \in BOOLEAN,
               Connect(c, p, f, setsFd)
        PROVE  UNCHANGED pairer
    BY <1>1 DEF Connect
  <1>2. ASSUME NEW c \in TLSConn,
               SSL_write(c) \/ RepeatSSL_write(c) \/ SSL_free(c) \/ CloseDescriptor(c)
        PROVE  UNCHANGED pairer
    BY <1>2 DEF SSL_write, RepeatSSL_write, SSL_free, CloseDescriptor
  <1>3. ASSUME NEW c \in TLSConn, NEW ok \in BOOLEAN, EnterSSL_read(c) \/ ReturnFromSSL_read(c, ok)
        PROVE  UNCHANGED pairer
    BY <1>3 DEF EnterSSL_read, ReturnFromSSL_read
  <1>4. Take \/ UNCHANGED vars => UNCHANGED pairer
    BY DEF Take, vars
  <1>5. (Expire => P!Expire) /\ (Sweep => P!Sweep)
    BY DEF Expire, Sweep
  <1> QED
    BY <1>1, <1>2, <1>3, <1>4, <1>5 DEF Next

LEMMA PairerStep == Types /\ [Next]_vars => [P!Next]_(P!vars)
  <1> SUFFICES ASSUME Types, [Next]_vars PROVE [P!Next]_(P!vars)
    OBVIOUS
  <1>1. ASSUME UNCHANGED pairer PROVE [P!Next]_(P!vars)
    BY <1>1 DEF pairer, P!vars
  <1>2. CASE HandleMessage
    <2>1. P!Push(Key) /\ Key \in P!Origin
      BY <1>2, KeyTypes DEF HandleMessage
    <2> QED
      BY <2>1 DEF P!Next
  <1>3. CASE HandleFree
    <2>1. P!CloseKey(Key) \/ UNCHANGED pairer
      BY <1>3 DEF HandleFree
    <2>2. hand # None /\ 1 \in Pid /\ 0 \in Fd
      BY <1>3, Constants DEF Constants, HandleFree
    <2>3. CASE P!CloseKey(Key) /\ hand.fd = None
      <3>1. P!CloseSSL(1, ssl[hand.e.conn]) /\ ssl[hand.e.conn] \in Ssl
        BY <2>2, <2>3, KeyTypes DEF P!CloseSSL
      <3> QED
        BY <2>2, <3>1 DEF P!Next
    <2>4. CASE P!CloseKey(Key) /\ hand.fd # None
      <3>1. P!Close(1, hand.fd) /\ hand.fd \in Fd
        BY <2>2, <2>4, KeyTypes DEF P!Close
      <3> QED
        BY <2>2, <3>1 DEF P!Next
    <2> QED
      BY <1>1, <2>1, <2>3, <2>4
  <1>4. CASE P!Expire \/ P!Sweep
    BY <1>4 DEF P!Next
  <1> QED
    BY <1>1, <1>2, <1>3, <1>4, PairerMoves

(* The reader and the sweeper drive the pairer by steps of Pairer only,     *)
(* with keys that Pairer knows: whatever is proved of Pairer holds of the   *)
(* pairer inside.                                                           *)
THEOREM DrivesPairer == Spec => P!Spec
  <1>1. Init => P!Init
    BY DEF Init
  <1> QED
    BY <1>1, TypesInvariant, PairerStep, PTL DEF Spec, P!Spec

(* What PairerProofs knows of the state of the pairer.                      *)
PairerInv ==
    /\ PP!TypeInv /\ PP!Waiting /\ PP!Sorted /\ PP!AllAligned /\ PP!Numbered
    /\ PP!SameConnection /\ PP!PairedByPosition /\ PP!ReportedOnce

LEMMA PairerInvariant == Spec => []PairerInv
  <1>1. PP!ConstantsAssumption
    BY Constants DEF Constants, PP!ConstantsAssumption
  <1>2. P!Spec => PP!Spec
    BY SamePairer, PTL DEF P!Spec, PP!Spec
  <1>3. PP!Spec => /\ []PP!TypeInv /\ []PP!Waiting /\ [](PP!Sorted /\ PP!AllAligned)
                   /\ []PP!Numbered /\ []PP!SameConnection /\ []PP!PairedByPosition
                   /\ []PP!ReportedOnce
    BY <1>1, PP!TypeInvariant, PP!WaitingInvariant, PP!AlignedInvariant, PP!NumberedInvariant,
       PP!SameConnectionHolds, PP!PairedByPositionHolds, PP!ReportedOnceHolds
  <1> QED
    BY <1>2, <1>3, DrivesPairer, PTL DEF PairerInv

-----------------------------------------------------------------------------
(* The queue of events: what the goroutine works on, then the ring buffer.  *)
(* A step of the process adds at its end, the reader handles its first.     *)

Queue == IF hand = None THEN ssl_events ELSE <<hand.e>> \o ssl_events

SameQueue ==
    /\ Len(Queue') = Len(Queue)
    /\ \A i \in 1..Len(Queue) : Queue'[i] = Queue[i]

Grown(e) ==
    /\ Len(Queue') = Len(Queue) + 1
    /\ \A i \in 1..Len(Queue) : Queue'[i] = Queue[i]
    /\ Queue'[Len(Queue) + 1] = e

Shrunk ==
    /\ Len(Queue) > 0 /\ Queue[1] = hand.e
    /\ Len(Queue') = Len(Queue) - 1
    /\ \A i \in 1..(Len(Queue) - 1) : Queue'[i] = Queue[i + 1]

QueueShape ==
    /\ Len(Queue) \in Nat
    /\ \A i \in 1..Len(Queue) : Queue[i] \in SSLEvent /\ Started(Queue[i])
    /\ hand # None => /\ Len(Queue) = Len(ssl_events) + 1 /\ Queue[1] = hand.e
                      /\ \A i \in 1..Len(ssl_events) : Queue[i + 1] = ssl_events[i]
    /\ hand = None => Queue = ssl_events

LEMMA QueueFacts == Types => QueueShape
  <1> SUFFICES ASSUME Types PROVE QueueShape
    OBVIOUS
  <1>1. ssl_events \in Seq(SSLEvent) /\ Len(ssl_events) \in Nat
    BY DEF Types, KernelTypes
  <1>2. CASE hand = None
    BY <1>1, <1>2 DEF QueueShape, Queue, Types, Begun
  <1>3. CASE hand # None
    <2>1. hand.e \in SSLEvent /\ Started(hand.e)
      BY <1>3, WorkTypes DEF Types, ReaderTypes, Begun
    <2>2. Queue = <<hand.e>> \o ssl_events
      BY <1>3 DEF Queue
    <2>3. /\ Len(Queue) = Len(ssl_events) + 1 /\ Queue[1] = hand.e
          /\ \A i \in 1..Len(ssl_events) : Queue[i + 1] = ssl_events[i]
      BY <1>1, <2>1, <2>2
    <2>4. ASSUME NEW i \in 1..Len(Queue) PROVE Queue[i] \in SSLEvent /\ Started(Queue[i])
      <3>1. CASE i = 1
        BY <2>1, <2>3, <3>1
      <3>2. CASE i # 1
        <4>1. i - 1 \in 1..Len(ssl_events) /\ (i - 1) + 1 = i
          BY <1>1, <2>3, <3>2
        <4>2. Queue[i] = ssl_events[i - 1]
          BY <2>3, <4>1
        <4> QED
          BY <1>1, <4>1, <4>2 DEF Types, Begun
      <3> QED
        BY <3>1, <3>2
    <2> QED
      BY <1>1, <1>3, <2>3, <2>4 DEF QueueShape
  <1> QED
    BY <1>2, <1>3

LEMMA QueueFactsNext == Types' => QueueShape'
  BY QueueFacts, PTL

LEMMA QueueStays ==
    ASSUME Types, Types', hand' = hand, ssl_events' = ssl_events
    PROVE  SameQueue
  BY DEF SameQueue, Queue

LEMMA QueueGrows ==
    ASSUME Types, Types', hand' = hand, NEW e \in SSLEvent, ssl_events' = Append(ssl_events, e)
    PROVE  Grown(e)
  <1>1. /\ Len(ssl_events) \in Nat /\ Len(ssl_events') = Len(ssl_events) + 1
        /\ \A i \in 1..Len(ssl_events) : ssl_events'[i] = ssl_events[i]
        /\ ssl_events'[Len(ssl_events) + 1] = e
    BY AppendFacts DEF Types, KernelTypes
  <1>2. CASE hand = None
    BY <1>1, <1>2 DEF Grown, Queue
  <1>3. CASE hand # None
    <2>1. /\ Len(Queue) = Len(ssl_events) + 1 /\ Queue[1] = hand.e
          /\ \A i \in 1..Len(ssl_events) : Queue[i + 1] = ssl_events[i]
      BY <1>3, QueueFacts DEF QueueShape
    <2>2. /\ Len(Queue') = Len(ssl_events') + 1 /\ Queue'[1] = hand.e
          /\ \A i \in 1..Len(ssl_events') : Queue'[i + 1] = ssl_events'[i]
    <3>1. hand' # None
      BY <1>3
    <3> QED
      BY <3>1, QueueFactsNext DEF QueueShape
    <2>3. ASSUME NEW i \in 1..Len(Queue) PROVE Queue'[i] = Queue[i]
      <3>1. CASE i = 1
        BY <2>1, <2>2, <3>1
      <3>2. CASE i # 1
        <4>1. i - 1 \in 1..Len(ssl_events) /\ i - 1 \in 1..Len(ssl_events') /\ (i - 1) + 1 = i
          BY <1>1, <2>1, <3>2
        <4> QED
          BY <1>1, <2>1, <2>2, <4>1
      <3> QED
        BY <3>1, <3>2
    <2>4. Queue'[Len(Queue) + 1] = e
      <3>1. Len(ssl_events) + 1 \in 1..Len(ssl_events')
        BY <1>1
      <3> QED
        BY <1>1, <2>1, <2>2, <3>1
    <2> QED
      BY <1>1, <2>1, <2>2, <2>3, <2>4 DEF Grown
  <1> QED
    BY <1>2, <1>3

LEMMA QueueShrinks ==
    ASSUME Types, Types', hand # None, hand' = None, ssl_events' = ssl_events
    PROVE  Shrunk
  <1>1. /\ Len(Queue) = Len(ssl_events) + 1 /\ Queue[1] = hand.e
        /\ \A i \in 1..Len(ssl_events) : Queue[i + 1] = ssl_events[i]
        /\ Len(ssl_events) \in Nat
    BY QueueFacts DEF QueueShape, Types, KernelTypes
  <1>2. Queue' = ssl_events
    BY DEF Queue
  <1> QED
    BY <1>1, <1>2 DEF Shrunk

LEMMA QueueTaken ==
    ASSUME Types, Types', Take
    PROVE  /\ SameQueue /\ Len(Queue) > 0 /\ hand = None /\ hand' # None
           /\ hand' = [e |-> Queue[1], fd |-> ssl_fd_map[ssl[Queue[1].conn]]]
  <1>1. /\ hand = None /\ ssl_events # <<>> /\ ssl_events' = Tail(ssl_events)
        /\ hand' = [e |-> Head(ssl_events), fd |-> ssl_fd_map[ssl[Head(ssl_events).conn]]]
    BY DEF Take
  <1>2. /\ Head(ssl_events) \in SSLEvent /\ Head(ssl_events) = ssl_events[1]
        /\ Len(ssl_events) \in Nat \ {0} /\ Len(ssl_events') = Len(ssl_events) - 1
        /\ \A n \in 1..(Len(ssl_events) - 1) : ssl_events'[n] = ssl_events[n + 1]
    BY <1>1, TailFacts DEF Types, KernelTypes
  <1>3. Queue = ssl_events
    BY <1>1 DEF Queue
  <1>4. hand' # None /\ hand'.e = Head(ssl_events)
    <2>1. hand' \in Work \cup {None}
      BY DEF Types, ReaderTypes
    <2>2. phase[Head(ssl_events).conn] # "new" /\ Head(ssl_events).conn \in TLSConn
      BY <1>2, EventTypes DEF Types, Begun, Started
    <2>3. ssl_fd_map[ssl[Head(ssl_events).conn]] \in Fd \cup {None}
      BY <2>2 DEF Types, ProcessTypes, KernelTypes
    <2>4. hand' \in Work
      BY <1>1, <1>2, <2>3 DEF Work
    <2> QED
      BY <1>1, <2>4, NoneAssumption
  <1>5. /\ Len(Queue') = Len(ssl_events') + 1 /\ Queue'[1] = hand'.e
        /\ \A i \in 1..Len(ssl_events') : Queue'[i + 1] = ssl_events'[i]
    BY <1>4, QueueFactsNext DEF QueueShape
  <1>6. ASSUME NEW i \in 1..Len(Queue) PROVE Queue'[i] = Queue[i]
    <2>1. CASE i = 1
      BY <1>2, <1>3, <1>4, <1>5, <2>1
    <2>2. CASE i # 1
      <3>1. i - 1 \in 1..Len(ssl_events') /\ i - 1 \in 1..(Len(ssl_events) - 1) /\ (i - 1) + 1 = i
        BY <1>2, <1>3, <2>2
      <3> QED
        BY <1>2, <1>3, <1>5, <3>1
    <2> QED
      BY <2>1, <2>2
  <1> QED
    BY <1>1, <1>2, <1>3, <1>4, <1>5, <1>6 DEF SameQueue

-----------------------------------------------------------------------------
(* What a step does to the queue and to what the invariants speak of.       *)

DropsGrow == drop_counters \subseteq drop_counters'

Joins(c, p, f) ==
    /\ phase[c] = "new" /\ phase' = [phase EXCEPT ![c] = "open"]
    /\ ssl' = [ssl EXCEPT ![c] = p] /\ fd' = [fd EXCEPT ![c] = f]
    /\ raced' = IF Disturbed(p, f) = {} THEN raced ELSE raced \cup Disturbed(p, f) \cup {c}
    /\ ssl_fd_map' = ssl_fd_map \/ ssl_fd_map' = [ssl_fd_map EXCEPT ![p] = f]
    /\ SameQueue /\ DropsGrow
    /\ UNCHANGED <<requests, responses, repeated, hand, exchange, keys, torn, pairer>>

Emits(c, e) ==
    /\ e.conn = c /\ phase[c] = "open"
    /\ Grown(e) \/ (SameQueue /\ "ringbuf" \in drop_counters')
    /\ DropsGrow
    /\ CASE e.op = "write" ->
                /\ UNCHANGED <<phase, responses>>
                /\ \/ /\ requests' = [requests EXCEPT ![c] = @ + 1]
                      /\ e.no = requests[c] + 1 /\ repeated' = repeated
                   \/ /\ e.no = requests[c] /\ requests[c] > responses[c]
                      /\ repeated' = repeated \cup {c} /\ requests' = requests
         [] e.op = "read" ->
                /\ UNCHANGED <<phase, requests, repeated>>
                /\ responses[c] < requests[c] /\ e.no = responses[c] + 1
                /\ responses' = [responses EXCEPT ![c] = @ + 1]
         [] e.op = "free" ->
                /\ phase' = [phase EXCEPT ![c] = "freed"]
                /\ UNCHANGED <<requests, responses, repeated>>
    /\ UNCHANGED <<ssl, fd, raced, ssl_fd_map, hand, exchange, keys, torn, pairer>>

(* A read that has no entry in the map returns without an event.            *)
Unseen(c) ==
    /\ c \in reading \ ssl_read_pending_map /\ responses[c] < requests[c]
    /\ responses' = [responses EXCEPT ![c] = @ + 1]

(* No event comes or goes; the sweeper may give up what is overdue.         *)
Idle ==
    /\ SameQueue /\ DropsGrow
    /\ responses' = responses \/ \E c \in TLSConn : Unseen(c)
    /\ \/ hand' = hand
       \/ /\ hand = None /\ Len(Queue) > 0
          /\ hand' = [e |-> Queue[1], fd |-> ssl_fd_map[ssl[Queue[1].conn]]]
    /\ UNCHANGED <<phase, ssl, fd, requests, repeated, raced, ssl_fd_map, exchange, keys,
                   torn, log, heldResponses, life, reqs, ress, paired, closed>>
    /\ P!Sweep \/ UNCHANGED <<timedOut, lossy>>

Handles ==
    /\ Shrunk /\ hand # None /\ hand' = None
    /\ UNCHANGED <<process, drop_counters>>
    /\ HandleMessage \/ HandleFree

LEMMA StepKinds ==
    ASSUME Types, Types', [Next]_vars
    PROVE  \/ \E c \in TLSConn, p \in SSLPtr, f \in Fd : Joins(c, p, f)
           \/ \E c \in TLSConn, e \in SSLEvent : Emits(c, e)
           \/ Idle
           \/ Handles
  <1> USE DEF DropsGrow
  <1>t. ProcessTypes /\ KernelTypes /\ ReaderTypes
    BY DEF Types
  <1>1. ASSUME NEW c \in TLSConn, NEW p \in SSLPtr, NEW f \in Fd, NEW setsFd \in BOOLEAN,
               Connect(c, p, f, setsFd)
        PROVE  Joins(c, p, f)
    <2>1. UNCHANGED <<hand, ssl_events>>
      BY <1>1 DEF Connect
    <2>2. SameQueue
      BY <2>1, QueueStays
    <2>3. /\ ssl_fd_map' = ssl_fd_map \/ ssl_fd_map' = [ssl_fd_map EXCEPT ![p] = f]
          /\ drop_counters \subseteq drop_counters'
      BY <1>1 DEF Connect, handle_ssl_set_fd, count_drop, Counted
    <2> QED
      BY <1>1, <2>2, <2>3 DEF Connect, Joins, seenByReader
  <1>2. ASSUME NEW c \in TLSConn, SSL_write(c) PROVE \E e \in SSLEvent : Emits(c, e)
    <2>1. PICK e \in SSLEvent : e = [op |-> "write", conn |-> c, no |-> requests[c] + 1]
      <3>1. requests[c] + 1 \in 0..MaxExchanges
        BY <1>2, <1>t, Constants DEF Constants, SSL_write, ProcessTypes
      <3>2. [op |-> "write", conn |-> c, no |-> requests[c] + 1] \in SSLEvent
        BY <3>1 DEF SSLEvent
      <3> QED
        BY <3>2
    <2>2. UNCHANGED <<hand, phase>> /\ phase[c] = "open"
      BY <1>2 DEF SSL_write
    <2>3. /\ drop_counters \subseteq drop_counters'
          /\ \/ ssl_events' = ssl_events /\ "ringbuf" \in drop_counters'
             \/ ssl_events' = Append(ssl_events, e)
      BY <1>2, <2>1, <2>2, SubmitFacts DEF SSL_write
    <2>4. Grown(e) \/ (SameQueue /\ "ringbuf" \in drop_counters')
      BY <2>2, <2>3, QueueStays, QueueGrows
    <2>5. Emits(c, e)
      BY <1>2, <2>1, <2>3, <2>4 DEF SSL_write, Emits, seenByReader
    <2> QED
      BY <2>5
  <1>3. ASSUME NEW c \in TLSConn, RepeatSSL_write(c) PROVE \E e \in SSLEvent : Emits(c, e)
    <2>1. PICK e \in SSLEvent : e = [op |-> "write", conn |-> c, no |-> requests[c]]
      BY <1>3, <1>t DEF ProcessTypes, SSLEvent
    <2>2. UNCHANGED hand /\ ssl_events' = Append(ssl_events, e)
      BY <1>3, <2>1 DEF RepeatSSL_write
    <2>3. Grown(e)
      BY <2>2, QueueGrows
    <2>4. Emits(c, e)
      BY <1>3, <2>1, <2>3 DEF RepeatSSL_write, Emits, seenByReader
    <2> QED
      BY <2>4
  <1>4. ASSUME NEW c \in TLSConn, EnterSSL_read(c) PROVE Idle
    <2>1. /\ UNCHANGED <<hand, ssl_events>>
          /\ drop_counters \subseteq drop_counters'
      BY <1>4 DEF EnterSSL_read, count_drop, Counted
    <2>2. SameQueue
      BY <2>1, QueueStays
    <2> QED
      BY <1>4, <2>1, <2>2 DEF EnterSSL_read, Idle, seenByReader, pairer
  <1>5. ASSUME NEW c \in TLSConn, NEW ok \in BOOLEAN, ReturnFromSSL_read(c, ok)
        PROVE  Idle \/ \E e \in SSLEvent : Emits(c, e)
    <2>1. /\ c \in reading /\ (ok => responses[c] < requests[c])
          /\ responses' = IF ok THEN [responses EXCEPT ![c] = @ + 1] ELSE responses
          /\ UNCHANGED <<phase, ssl, fd, requests, repeated, raced, ssl_fd_map, hand,
                         exchange, keys, torn, pairer>>
          /\ IF ok /\ c \in ssl_read_pending_map
             THEN submit_ssl_event("read", c, responses[c] + 1)
             ELSE UNCHANGED <<ssl_events, Counted>>
      BY <1>5 DEF ReturnFromSSL_read, seenByReader
    <2>2. phase[c] = "open" /\ requests[c] \in 0..MaxExchanges /\ responses[c] \in 0..MaxExchanges
      BY <1>t, <2>1 DEF ProcessTypes, Open
    <2>3. CASE ok /\ c \in ssl_read_pending_map
      <3>1. PICK e \in SSLEvent : e = [op |-> "read", conn |-> c, no |-> responses[c] + 1]
        <4>1. [op |-> "read", conn |-> c, no |-> responses[c] + 1] \in SSLEvent
          BY <2>1, <2>2, <2>3, Constants DEF Constants, SSLEvent
        <4> QED
          BY <4>1
      <3>2. /\ drop_counters \subseteq drop_counters'
            /\ \/ ssl_events' = ssl_events /\ "ringbuf" \in drop_counters'
               \/ ssl_events' = Append(ssl_events, e)
        BY <2>1, <2>2, <2>3, <3>1, SubmitFacts
      <3>3. Grown(e) \/ (SameQueue /\ "ringbuf" \in drop_counters')
        BY <2>1, <3>2, QueueStays, QueueGrows
      <3>4. Emits(c, e)
        BY <2>1, <2>2, <2>3, <3>1, <3>2, <3>3 DEF Emits
      <3> QED
        BY <3>4
    <2>4. CASE ~(ok /\ c \in ssl_read_pending_map)
      <3>1. SameQueue /\ drop_counters \subseteq drop_counters'
        BY <2>1, <2>4, QueueStays DEF Counted
      <3>2. responses' = responses \/ Unseen(c)
        BY <2>1, <2>4 DEF Unseen
      <3> QED
        BY <2>1, <3>1, <3>2 DEF Idle, pairer
    <2> QED
      BY <2>3, <2>4
  <1>6. ASSUME NEW c \in TLSConn, SSL_free(c) PROVE \E e \in SSLEvent : Emits(c, e)
    <2>1. PICK e \in SSLEvent : e = [op |-> "free", conn |-> c, no |-> 0]
      <3>1. [op |-> "free", conn |-> c, no |-> 0] \in SSLEvent
        BY Constants DEF Constants, SSLEvent
      <3> QED
        BY <3>1
    <2>2. UNCHANGED hand /\ phase' = [phase EXCEPT ![c] = "freed"]
      BY <1>6 DEF SSL_free
    <2>3. /\ drop_counters \subseteq drop_counters'
          /\ \/ ssl_events' = ssl_events /\ "ringbuf" \in drop_counters'
             \/ ssl_events' = Append(ssl_events, e)
      <3>1. phase'[c] # "new"
        BY <1>t, <2>2 DEF ProcessTypes
      <3> QED
        BY <1>6, <2>1, <3>1, SubmitFacts DEF SSL_free
    <2>4. Grown(e) \/ (SameQueue /\ "ringbuf" \in drop_counters')
      BY <2>2, <2>3, QueueStays, QueueGrows
    <2>5. Emits(c, e)
      BY <1>6, <2>1, <2>3, <2>4 DEF SSL_free, Emits, seenByReader
    <2> QED
      BY <2>5
  <1>7. ASSUME NEW c \in TLSConn, CloseDescriptor(c) PROVE Idle
    <2>1. UNCHANGED <<hand, ssl_events>>
      BY <1>7 DEF CloseDescriptor
    <2> QED
      BY <1>7, <2>1, QueueStays DEF CloseDescriptor, Idle, Pending, seenByReader, pairer
  <1>8. CASE Take
    BY <1>8, QueueTaken DEF Take, Idle, process, Pending, seenByReader, pairer
  <1>9. CASE HandleMessage \/ HandleFree
    <2>1. hand # None /\ hand' = None /\ UNCHANGED <<process, drop_counters, ssl_events>>
      BY <1>9 DEF HandleMessage, HandleFree, kernel, Pending
    <2> QED
      BY <1>9, <2>1, QueueShrinks DEF Handles
  <1>10. CASE UNCHANGED vars
    <2>1. UNCHANGED <<hand, ssl_events>>
      BY <1>10 DEF vars, kernel
    <2> QED
      BY <1>10, <2>1, QueueStays DEF vars, kernel, process, seenByReader, Idle, pairer
  <1>11. CASE Expire \/ Sweep
    <2>1. /\ UNCHANGED <<process, ssl_fd_map, Pending, ssl_events, hand, seenByReader>>
          /\ P!Expire \/ P!Sweep
      BY <1>11 DEF Expire, Sweep, kernel, Pending
    <2>2. /\ UNCHANGED <<log, heldResponses, life, reqs, ress, paired, closed>>
          /\ P!Sweep \/ UNCHANGED <<timedOut, lossy>>
      BY <2>1 DEF P!Expire, P!Sweep
    <2> QED
      BY <2>1, <2>2, QueueStays DEF process, Pending, seenByReader, Idle
  <1> QED
    BY <1>1, <1>2, <1>3, <1>4, <1>5, <1>6, <1>7, <1>8, <1>9, <1>10, <1>11 DEF Next

-----------------------------------------------------------------------------
(* What the handler of an event does to the pairer and to the history.      *)

(* Each message is one of a connection, under a key that connection has.    *)
Recorded ==
    /\ Len(exchange) = Len(log)
    /\ \A n \in 1..Len(log) : /\ ConnOf(n) \in TLSConn
                              /\ P!Conn(n).key \in keys[ConnOf(n)]

LEMMA LogTypes ==
    ASSUME PairerInv
    PROVE  /\ Len(log) \in Nat
           /\ \A n \in 1..Len(log) : /\ log[n].isRequest \in BOOLEAN
                                     /\ P!Conn(n) = log[n].conn /\ P!Conn(n).key \in P!pairKey
                                     /\ P!Conn(n).life \in Nat
           /\ \A k \in P!pairKey : life[k] \in Nat
  <1>1. log \in Seq(PP!Message) /\ life \in [PP!pairKey -> 0..MaxMsgs]
    BY DEF PairerInv, PP!TypeInv, PP!TypeOK
  <1>2. ASSUME NEW n \in 1..Len(log)
        PROVE  /\ log[n].isRequest \in BOOLEAN /\ log[n].conn.key \in PP!pairKey
               /\ log[n].conn.life \in Nat
    <2>1. log[n] \in PP!Message
      BY <1>1
    <2>2. log[n].isRequest \in BOOLEAN /\ log[n].conn \in PP!Connection
      BY <2>1 DEF PP!Message
    <2> QED
      BY <2>2, Constants DEF Constants, PP!Connection
  <1> QED
    BY <1>1, <1>2, SamePairer, Constants DEF Constants, P!Conn

LEMMA ArrivalEffect ==
    ASSUME Types, PairerInv, PairerInv', Recorded, HandleMessage
    PROVE  /\ Len(log') = Len(log) + 1
           /\ \A n \in 1..Len(log) : /\ log'[n] = log[n] /\ P!Conn(n)' = P!Conn(n)
                                     /\ exchange'[n] = exchange[n] /\ ConnOf(n)' = ConnOf(n)
           /\ \A n : n = Len(log) + 1 =>
                 /\ P!Conn(n)' = P!ConnOf(Key) /\ log'[n].isRequest = (hand.e.op = "write")
                 /\ exchange'[n] = <<hand.e.conn, hand.e.no>> /\ ConnOf(n)' = hand.e.conn
           /\ Len(exchange') = Len(log')
           /\ UNCHANGED <<life, closed>>
           /\ lossy' \subseteq lossy \cup {P!Conn(n) : n \in heldResponses}
  <1>1. P!Push(Key) /\ PP!Push(Key) /\ P!KeyOf(Key) = Key /\ Key \in PP!pairKey /\ hand # None
    BY KeyTypes, SamePairer DEF HandleMessage
  <1>2. PP!KeyOf(Key) = Key
    BY <1>1, SamePairer DEF P!KeyOf, PP!KeyOf, P!keyFor, PP!keyFor
  <1>3. PP!RecordRequest(Key) \/ PP!RecordResponse(Key)
    BY <1>1, <1>2 DEF PP!Push, PP!PushRequestMatched, PP!PushRequestPending,
       PP!PushResponseMatched, PP!PushResponseHeld
  <1>4. PP!ConstantsAssumption /\ PP!TypeInv
    BY Constants DEF Constants, PP!ConstantsAssumption, PairerInv
  <1>5. /\ Len(log) \in Nat /\ Len(log') = Len(log) + 1
        /\ \A n \in 1..Len(log) : log'[n] = log[n] /\ P!Conn(n)' = P!Conn(n)
        /\ \A n : n = Len(log) + 1 => P!Conn(n)' = P!ConnOf(Key)
    BY <1>1, <1>3, <1>4, PP!ArrivalFacts, SamePairer
       DEF PP!Last, PP!Conn, P!Conn, PP!ConnOf, P!ConnOf
  <1>6. log'[Len(log')].isRequest = (hand.e.op = "write")
    BY DEF HandleMessage
  <1>7. hand.e.conn \in TLSConn /\ hand.e.no \in 0..MaxExchanges
    BY <1>1, WorkTypes, EventTypes DEF Types, ReaderTypes
  <1>8. /\ Len(exchange') = Len(exchange) + 1
        /\ \A n \in 1..Len(exchange) : exchange'[n] = exchange[n]
        /\ exchange'[Len(exchange) + 1] = <<hand.e.conn, hand.e.no>>
    BY <1>7, AppendFacts DEF HandleMessage, Types, ReaderTypes
  <1>9. UNCHANGED <<life, closed>>
    BY <1>3 DEF PP!RecordRequest, PP!RecordResponse
  <1>10. lossy' \subseteq lossy \cup {P!Conn(n) : n \in heldResponses}
    BY <1>1 DEF P!Push, P!PushRequestMatched, P!PushRequestPending, P!PushResponseMatched,
       P!PushResponseHeld, P!holdResponse
  <1> QED
    BY <1>5, <1>6, <1>8, <1>9, <1>10 DEF Recorded, ConnOf

(* A life of a key that no message was part of is not ended, and nothing    *)
(* waits under it.                                                          *)
LEMMA FreeEffect ==
    ASSUME Types, PairerInv, HandleFree
    PROVE  /\ UNCHANGED <<log, exchange, keys, lossy>>
           /\ torn' = torn \cup {hand.e.conn} /\ hand.e.op = "free"
           /\ ssl_fd_map' = [ssl_fd_map EXCEPT ![ssl[hand.e.conn]] = None]
           /\ \/ /\ life' = [life EXCEPT ![Key] = @ + 1]
                 /\ closed' = closed \cup P!Of(Key, pending)
              \/ /\ UNCHANGED pairer
                 /\ \A n \in 1..Len(log) : P!Conn(n).key = Key => P!Conn(n).life < life[Key]
  <1>1. hand # None /\ Key \in P!pairKey
    BY KeyTypes DEF HandleFree
  <1>2. CASE P!CloseKey(Key)
    BY <1>2 DEF HandleFree, P!CloseKey
  <1>3. CASE ~InUse(Key) /\ UNCHANGED pairer
    <2>1. ASSUME NEW n \in 1..Len(log), P!Conn(n).key = Key
          PROVE  P!Conn(n).life < life[Key]
      <3>1. n \in P!Of(Key, 1..Len(log))
        BY <2>1 DEF P!Of
      <3>2. ~(reqs[Key] + ress[Key] > 0)
        BY <1>3, <3>1 DEF InUse
      <3>3. reqs[Key] \in Nat /\ ress[Key] \in Nat
        BY <1>1, SamePairer, Constants DEF Constants, PairerInv, PP!TypeInv, PP!TypeOK
      <3>4. reqs[Key] = 0 /\ ress[Key] = 0
        BY <3>2, <3>3
      <3>5. /\ P!Conn(n).life <= life[Key] /\ PP!Pos(n) \in Nat \ {0}
            /\ PP!Current(n) => PP!Pos(n) <= PP!NumberOf(n)
        BY <2>1, SamePairer DEF PairerInv, PP!Numbered, PP!Last
      <3>6. PP!NumberOf(n) = 0
        BY <2>1, <3>4, SamePairer DEF PP!NumberOf, PP!Counter
      <3>7. ~PP!Current(n)
        BY <3>5, <3>6
      <3>8. P!Conn(n).life # life[Key]
        <4>1. log[n] \in PP!Message
          BY DEF PairerInv, PP!TypeInv, PP!TypeOK
        <4>2. P!Conn(n) = [key |-> P!Conn(n).key, life |-> P!Conn(n).life]
          BY <4>1 DEF P!Conn, PP!Message, PP!Connection
        <4> QED
          BY <2>1, <3>7, <4>2, SamePairer DEF PP!Current, PP!ConnOf
      <3> QED
        BY <1>1, <2>1, <3>5, <3>8, LogTypes
    <2> QED
      BY <1>3, <2>1 DEF HandleFree, pairer
  <1> QED
    BY <1>2, <1>3 DEF HandleFree

LEMMA RecordedStep ==
    Types /\ Types' /\ PairerInv /\ PairerInv' /\ Recorded /\ [Next]_vars => Recorded'
  <1> SUFFICES ASSUME Types, Types', PairerInv, PairerInv', Recorded, [Next]_vars
               PROVE  Recorded'
    OBVIOUS
  <1>1. ASSUME UNCHANGED <<log, exchange, keys>> PROVE Recorded'
    BY <1>1 DEF Recorded, ConnOf, P!Conn
  <1>2. CASE \E c \in TLSConn, p \in SSLPtr, f \in Fd : Joins(c, p, f)
    BY <1>1, <1>2 DEF Joins, pairer
  <1>3. CASE \E c \in TLSConn, e \in SSLEvent : Emits(c, e)
    BY <1>1, <1>3 DEF Emits, pairer
  <1>4. CASE Idle
    BY <1>1, <1>4 DEF Idle, pairer
  <1>5. CASE HandleFree
    BY <1>1, <1>5, FreeEffect
  <1>6. CASE HandleMessage
    <2>1. hand # None /\ hand.e.conn \in TLSConn
      BY <1>6, WorkTypes DEF HandleMessage, Types, ReaderTypes
    <2>2. /\ keys \in [TLSConn -> SUBSET P!pairKey]
          /\ keys' = [keys EXCEPT ![hand.e.conn] = @ \cup {Key}]
      BY <1>6 DEF HandleMessage, Types, ReaderTypes
    <2>3. /\ keys'[hand.e.conn] = keys[hand.e.conn] \cup {Key}
          /\ \A c \in TLSConn : keys[c] \subseteq keys'[c]
      BY <2>1, <2>2
    <2>4. Len(log) \in Nat
      BY LogTypes
    <2>5. ASSUME NEW n \in 1..Len(log')
          PROVE  ConnOf(n)' \in TLSConn /\ P!Conn(n)'.key \in keys'[ConnOf(n)']
      <3>1. CASE n \in 1..Len(log)
        <4>1. /\ P!Conn(n)' = P!Conn(n) /\ ConnOf(n)' = ConnOf(n)
              /\ ConnOf(n) \in TLSConn /\ P!Conn(n).key \in keys[ConnOf(n)]
          BY <1>6, <3>1, ArrivalEffect DEF Recorded
        <4> QED
          BY <2>3, <4>1
      <3>2. CASE n = Len(log) + 1
        <4>1. P!Conn(n)' = P!ConnOf(Key) /\ ConnOf(n)' = hand.e.conn
          BY <1>6, <3>2, ArrivalEffect
        <4>2. P!ConnOf(Key).key = Key
          BY DEF P!ConnOf
        <4> QED
          BY <2>1, <2>3, <4>1, <4>2
      <3>3. Len(log') = Len(log) + 1
        BY <1>6, ArrivalEffect
      <3> QED
        BY <2>4, <3>1, <3>2, <3>3
    <2>6. Len(exchange') = Len(log')
      BY <1>6, ArrivalEffect
    <2> QED
      BY <2>5, <2>6 DEF Recorded
  <1> QED
    BY <1>2, <1>3, <1>4, <1>5, <1>6, StepKinds DEF Handles

LEMMA RecordedInvariant == Spec => []Recorded
  <1>1. Init => Recorded
    BY DEF Init, P!Init, Recorded
  <1> QED
    BY <1>1, TypesInvariant, PairerInvariant, RecordedStep, PTL DEF Spec

-----------------------------------------------------------------------------
(* No loss without a count.  As long as nothing was counted, an event is in *)
(* the queue or was handled, and a thread that reads has its entry.         *)

Stashed == drop_counters = {} => reading \subseteq ssl_read_pending_map

LEMMA StashedStep == Types /\ Stashed /\ [Next]_vars => Stashed'
  <1> SUFFICES ASSUME Types, Stashed, [Next]_vars, drop_counters' = {}
               PROVE  reading' \subseteq ssl_read_pending_map'
    BY DEF Stashed
  <1>1. ASSUME drop_counters = {}, UNCHANGED <<reading, ssl_read_pending_map>>
        PROVE  reading' \subseteq ssl_read_pending_map'
    BY <1>1 DEF Stashed
  <1>2. ASSUME NEW op, NEW c, NEW no, submit_ssl_event(op, c, no) PROVE drop_counters = {}
    BY <1>2 DEF submit_ssl_event, count_drop, Counted
  <1>3. ASSUME NEW p, NEW f, handle_ssl_set_fd(p, f) PROVE drop_counters = {}
    BY <1>3 DEF handle_ssl_set_fd, count_drop, Counted
  <1>4. CASE \E c \in TLSConn, p \in SSLPtr, f \in Fd, setsFd \in BOOLEAN : Connect(c, p, f, setsFd)
    BY <1>1, <1>3, <1>4 DEF Connect, Counted
  <1>5. CASE \E c \in TLSConn : SSL_write(c) \/ RepeatSSL_write(c) \/ SSL_free(c) \/ CloseDescriptor(c)
    BY <1>1, <1>2, <1>5 DEF SSL_write, RepeatSSL_write, SSL_free, CloseDescriptor, Pending
  <1>6. ASSUME NEW c \in TLSConn, EnterSSL_read(c) PROVE reading' \subseteq ssl_read_pending_map'
    BY <1>6 DEF EnterSSL_read, Stashed, count_drop, Counted
  <1>7. ASSUME NEW c \in TLSConn, NEW ok \in BOOLEAN, ReturnFromSSL_read(c, ok)
        PROVE  reading' \subseteq ssl_read_pending_map'
    <2>1. drop_counters = {}
      BY <1>2, <1>7 DEF ReturnFromSSL_read, Counted
    <2> QED
      BY <1>7, <2>1 DEF ReturnFromSSL_read, Stashed
  <1>8. CASE Take \/ HandleMessage \/ HandleFree \/ UNCHANGED vars
    BY <1>1, <1>8 DEF Take, HandleMessage, HandleFree, vars, process, kernel, Pending
  <1>9. CASE Expire \/ Sweep
    BY <1>1, <1>9 DEF Expire, Sweep, process, kernel, Pending
  <1> QED
    BY <1>4, <1>5, <1>6, <1>7, <1>8, <1>9 DEF Next

IsEvent(e, op, c, n) == e.op = op /\ e.conn = c /\ e.no = n

InQueue(op, c, n) == \E i \in 1..Len(Queue) : IsEvent(Queue[i], op, c, n)

Logged(op, c, n) ==
    \E m \in 1..Len(log) : log[m].isRequest = (op = "write") /\ exchange[m] = <<c, n>>

Kept ==
    drop_counters = {} =>
        \A c \in TLSConn, n \in 1..MaxExchanges :
            /\ n <= requests[c] => InQueue("write", c, n) \/ Logged("write", c, n)
            /\ n <= responses[c] => InQueue("read", c, n) \/ Logged("read", c, n)

(* What was logged stays in the log, and what leaves the queue gets there.  *)
LEMMA Moves ==
    ASSUME Types, Types', PairerInv, PairerInv', Recorded, [Next]_vars,
           NEW op \in {"write", "read"}, NEW c \in TLSConn, NEW n \in 1..MaxExchanges,
           InQueue(op, c, n) \/ Logged(op, c, n)
    PROVE  InQueue(op, c, n)' \/ Logged(op, c, n)'
  <1>0. Len(Queue) \in Nat /\ Len(log) \in Nat
    BY QueueFacts, LogTypes DEF QueueShape
  <1>1. ASSUME SameQueue \/ \E e \in SSLEvent : Grown(e), UNCHANGED <<log, exchange>>
        PROVE  InQueue(op, c, n)' \/ Logged(op, c, n)'
    BY <1>0, <1>1 DEF SameQueue, Grown, InQueue, Logged
  <1>2. CASE \E d \in TLSConn, p \in SSLPtr, f \in Fd : Joins(d, p, f)
    BY <1>1, <1>2 DEF Joins, pairer
  <1>3. CASE \E d \in TLSConn, e \in SSLEvent : Emits(d, e)
    BY <1>1, <1>3 DEF Emits, pairer
  <1>4. CASE Idle
    BY <1>1, <1>4 DEF Idle, pairer
  <1>5. CASE Handles
    <2>1. ASSUME NEW i \in 1..Len(Queue), IsEvent(Queue[i], op, c, n), i # 1
          PROVE  InQueue(op, c, n)'
      <3>1. i - 1 \in 1..(Len(Queue) - 1) /\ (i - 1) + 1 = i
        BY <1>0, <2>1
      <3>2. i - 1 \in 1..Len(Queue') /\ Queue'[i - 1] = Queue[i]
        BY <1>5, <3>1 DEF Handles, Shrunk
      <3> QED
        BY <2>1, <3>2 DEF InQueue, IsEvent
    <2>2. CASE HandleFree
      <3>1. hand.e.op = "free" /\ UNCHANGED <<log, exchange>>
        BY <2>2, FreeEffect
      <3>2. ~IsEvent(Queue[1], op, c, n)
        BY <1>5, <3>1 DEF Handles, Shrunk, IsEvent
      <3>3. Logged(op, c, n) => Logged(op, c, n)'
        BY <3>1 DEF Logged
      <3> QED
        BY <2>1, <3>2, <3>3 DEF InQueue
    <2>3. CASE HandleMessage
      <3>1. Logged(op, c, n) => Logged(op, c, n)'
        BY <1>0, <2>3, ArrivalEffect DEF Logged
      <3>2. ASSUME IsEvent(Queue[1], op, c, n) PROVE Logged(op, c, n)'
        <4>1. hand.e.op = op /\ hand.e.conn = c /\ hand.e.no = n
          BY <1>5, <3>2 DEF Handles, Shrunk, IsEvent
        <4>2. Len(log) + 1 \in 1..Len(log')
          BY <1>0, <2>3, ArrivalEffect
        <4> QED
          BY <2>3, <4>1, <4>2, ArrivalEffect DEF Logged
      <3> QED
        BY <2>1, <3>1, <3>2 DEF InQueue
    <2> QED
      BY <1>5, <2>2, <2>3 DEF Handles
  <1> QED
    BY <1>2, <1>3, <1>4, <1>5, StepKinds

LEMMA KeptStep ==
    Types /\ Types' /\ PairerInv /\ PairerInv' /\ Recorded /\ Stashed /\ Kept /\ [Next]_vars
        => Kept'
  <1> SUFFICES ASSUME Types, Types', PairerInv, PairerInv', Recorded, Stashed, Kept, [Next]_vars,
                      drop_counters' = {}, NEW c \in TLSConn, NEW n \in 1..MaxExchanges
               PROVE  /\ n <= requests'[c] => InQueue("write", c, n)' \/ Logged("write", c, n)'
                      /\ n <= responses'[c] => InQueue("read", c, n)' \/ Logged("read", c, n)'
    BY DEF Kept
  <1>0. /\ requests[c] \in Nat /\ responses[c] \in Nat
        /\ requests \in [TLSConn -> 0..MaxExchanges] /\ responses \in [TLSConn -> 0..MaxExchanges]
        /\ Len(Queue) \in Nat
    BY Constants, QueueFacts DEF Constants, Types, ProcessTypes, QueueShape
  <1>1. drop_counters = {}
    BY StepKinds DEF Joins, Emits, Idle, Handles, DropsGrow
  <1>2. /\ n <= requests[c] => InQueue("write", c, n)' \/ Logged("write", c, n)'
        /\ n <= responses[c] => InQueue("read", c, n)' \/ Logged("read", c, n)'
    BY <1>1, Moves DEF Kept
  <1>3. CASE \E d \in TLSConn, p \in SSLPtr, f \in Fd : Joins(d, p, f)
    BY <1>2, <1>3 DEF Joins
  <1>4. ASSUME NEW d \in TLSConn, NEW e \in SSLEvent, Emits(d, e)
        PROVE  /\ n <= requests'[c] => InQueue("write", c, n)' \/ Logged("write", c, n)'
               /\ n <= responses'[c] => InQueue("read", c, n)' \/ Logged("read", c, n)'
    <2>1. Grown(e) /\ e.conn = d
      BY <1>4 DEF Emits
    <2>2. Len(Queue) + 1 \in 1..Len(Queue') /\ Queue'[Len(Queue) + 1] = e
      BY <1>0, <2>1 DEF Grown
    <2>3. ASSUME NEW op, e.op = op, e.conn = c, e.no = n PROVE InQueue(op, c, n)'
      BY <2>2, <2>3 DEF InQueue, IsEvent
    <2>4. e.op \in {"write", "read", "free"}
      BY EventTypes
    <2>5. CASE e.op = "write"
      <3>1. /\ responses' = responses
            /\ \/ requests' = [requests EXCEPT ![d] = @ + 1] /\ e.no = requests[d] + 1
               \/ requests' = requests
        BY <1>4, <2>5 DEF Emits
      <3>2. n <= requests'[c] => n <= requests[c] \/ (d = c /\ e.no = n)
        BY <1>0, <3>1
      <3> QED
        BY <1>2, <2>1, <2>3, <2>5, <3>1, <3>2
    <2>6. CASE e.op = "read"
      <3>1. /\ requests' = requests /\ e.no = responses[d] + 1
            /\ responses' = [responses EXCEPT ![d] = @ + 1]
        BY <1>4, <2>6 DEF Emits
      <3>2. n <= responses'[c] => n <= responses[c] \/ (d = c /\ e.no = n)
        BY <1>0, <3>1
      <3> QED
        BY <1>2, <2>1, <2>3, <2>6, <3>1, <3>2
    <2>7. CASE e.op = "free"
      <3>1. UNCHANGED <<requests, responses>>
        BY <1>4, <2>7 DEF Emits
      <3> QED
        BY <1>2, <3>1
    <2> QED
      BY <2>4, <2>5, <2>6, <2>7
  <1>5. CASE Idle
    <2>1. requests' = requests /\ responses' = responses
      BY <1>1, <1>5 DEF Idle, Unseen, Stashed
    <2> QED
      BY <1>2, <2>1
  <1>6. CASE Handles
    BY <1>2, <1>6 DEF Handles, process
  <1> QED
    BY <1>3, <1>4, <1>5, <1>6, StepKinds

(* Once everything was read, each request and each response has arrived, or *)
(* a drop counter tells: whatever the sizes of the ring and the maps are,   *)
(* and however reads fail or lose their entry.                              *)
THEOREM NoSilentLossHolds == Spec => []NoSilentLoss
  <1>1. Init => Stashed /\ Kept
    <2>1. Init => \A c \in TLSConn, n \in 1..MaxExchanges : ~(n <= requests[c]) /\ ~(n <= responses[c])
      BY DEF Init
    <2> QED
      BY <2>1 DEF Init, Stashed, Kept
  <1>2. Spec => [](Stashed /\ Kept)
    BY <1>1, TypesInvariant, PairerInvariant, RecordedInvariant, StashedStep, KeptStep, PTL DEF Spec
  <1>3. Types /\ PairerInv /\ Kept => NoSilentLoss
    <2> SUFFICES ASSUME Types, PairerInv, Kept, ssl_events = <<>>, hand = None, drop_counters = {},
                        NEW c \in TLSConn, NEW n \in 1..MaxExchanges
                 PROVE  /\ n <= requests[c] => \E m \in 1..Len(log) :
                                                 log[m].isRequest /\ exchange[m] = <<c, n>>
                        /\ n <= responses[c] => \E m \in 1..Len(log) :
                                                 ~log[m].isRequest /\ exchange[m] = <<c, n>>
      BY DEF NoSilentLoss
    <2>1. \A op : ~InQueue(op, c, n)
      BY DEF InQueue, Queue
    <2>2. /\ n <= requests[c] => Logged("write", c, n)
          /\ n <= responses[c] => Logged("read", c, n)
      BY <2>1 DEF Kept
    <2> QED
      BY <2>2, LogTypes DEF Logged
  <1> QED
    BY <1>2, <1>3, TypesInvariant, PairerInvariant, PTL

-----------------------------------------------------------------------------
(* The order of the queue: after the SSL_free of a connection nothing of it *)
(* comes, so that none is handled after its SSL_free.                       *)

Live == {c \in TLSConn : phase[c] # "new"} \ torn

LEMMA LiveSteps ==
    ASSUME Types, Types'
    PROVE  /\ \A c \in TLSConn, p \in SSLPtr, f \in Fd : Joins(c, p, f) =>
                 /\ Live' = Live \cup {c} /\ c \notin Live
                 /\ phase'[c] = "open" /\ ssl'[c] = p /\ fd'[c] = f
                 /\ \A d \in TLSConn : d # c =>
                       phase'[d] = phase[d] /\ ssl'[d] = ssl[d] /\ fd'[d] = fd[d]
           /\ \A c \in TLSConn, e \in SSLEvent : Emits(c, e) => Live' = Live /\ c \in Live
           /\ Idle => Live' = Live
           /\ HandleMessage => Live' = Live
           /\ HandleFree => Live' = Live \ {hand.e.conn}
  <1>t. /\ phase \in [TLSConn -> Phases] /\ torn \subseteq {c \in TLSConn : phase[c] = "freed"}
        /\ ssl \in [TLSConn -> SSLPtr \cup {None}] /\ fd \in [TLSConn -> Fd \cup {None}]
    BY DEF Types, ProcessTypes, ReaderTypes
  <1>1. ASSUME NEW c \in TLSConn, NEW p \in SSLPtr, NEW f \in Fd, Joins(c, p, f)
        PROVE  /\ Live' = Live \cup {c} /\ c \notin Live
               /\ phase'[c] = "open" /\ ssl'[c] = p /\ fd'[c] = f
               /\ \A d \in TLSConn : d # c =>
                     phase'[d] = phase[d] /\ ssl'[d] = ssl[d] /\ fd'[d] = fd[d]
    <2>1. /\ phase[c] = "new" /\ phase' = [phase EXCEPT ![c] = "open"]
          /\ ssl' = [ssl EXCEPT ![c] = p] /\ fd' = [fd EXCEPT ![c] = f] /\ torn' = torn
      BY <1>1 DEF Joins
    <2> QED
      BY <1>t, <2>1 DEF Live
  <1>2. ASSUME NEW c \in TLSConn, NEW e \in SSLEvent, Emits(c, e) PROVE Live' = Live /\ c \in Live
    <2>1. /\ phase[c] = "open" /\ torn' = torn
          /\ phase' = phase \/ phase' = [phase EXCEPT ![c] = "freed"]
      BY <1>2, EventTypes DEF Emits
    <2> QED
      BY <1>t, <2>1 DEF Live
  <1>3. Idle => Live' = Live
    BY DEF Idle, Live
  <1>4. HandleMessage => Live' = Live
    BY DEF HandleMessage, process, Live
  <1>5. HandleFree => Live' = Live \ {hand.e.conn}
    BY DEF HandleFree, process, Live
  <1> QED
    BY <1>1, <1>2, <1>3, <1>4, <1>5

Orderly ==
    /\ \A i \in 1..Len(Queue) : Queue[i].conn \in Live
    /\ \A i, j \in 1..Len(Queue) : i < j /\ Queue[i].op = "free" => Queue[j].conn # Queue[i].conn
    /\ \A c \in TLSConn : phase[c] = "new" => keys[c] = {}

(* What is in hand is the first of the queue.                               *)
LEMMA InHand ==
    ASSUME Types, Orderly, hand # None
    PROVE  /\ hand.e \in SSLEvent /\ hand.e.conn \in TLSConn /\ hand.e.conn \in Live
           /\ Len(Queue) \in Nat \ {0} /\ Queue[1] = hand.e /\ 1 \in 1..Len(Queue)
           /\ hand.e.op = "free" => phase[hand.e.conn] = "freed"
           /\ ssl[hand.e.conn] \in SSLPtr /\ hand.fd \in Fd \cup {None}
  <1>1. Len(Queue) = Len(ssl_events) + 1 /\ Queue[1] = hand.e /\ Len(ssl_events) \in Nat
    BY QueueFacts DEF QueueShape, Types, KernelTypes
  <1>2. hand.e.conn \in Live
    BY <1>1 DEF Orderly
  <1>3. /\ hand.e \in SSLEvent /\ hand.fd \in Fd \cup {None}
        /\ hand.e.op = "free" => phase[hand.e.conn] = "freed"
    BY WorkTypes DEF Types, ReaderTypes, Begun, Started
  <1> QED
    BY <1>1, <1>2, <1>3, WorkTypes DEF Live, Types, ProcessTypes, ReaderTypes

LEMMA OrderlyStep ==
    Types /\ Types' /\ Orderly /\ [Next]_vars => Orderly'
  <1> SUFFICES ASSUME Types, Types', Orderly, [Next]_vars PROVE Orderly'
    OBVIOUS
  <1>0. /\ Len(Queue) \in Nat
        /\ \A i \in 1..Len(Queue) : /\ Queue[i] \in SSLEvent /\ Queue[i].conn \in TLSConn
                                    /\ Started(Queue[i])
    BY QueueFacts, EventTypes DEF QueueShape
  <1>1. ASSUME SameQueue, Live \subseteq Live', keys' = keys,
               \A c \in TLSConn : phase'[c] = "new" => phase[c] = "new"
        PROVE  Orderly'
    BY <1>1 DEF Orderly, SameQueue
  <1>2. ASSUME NEW c \in TLSConn, NEW p \in SSLPtr, NEW f \in Fd, Joins(c, p, f) PROVE Orderly'
    <2>1. \A d \in TLSConn : phase'[d] = "new" => phase[d] = "new"
      BY <1>2, LiveSteps
    <2> QED
      BY <1>1, <1>2, <2>1, LiveSteps DEF Joins
  <1>3. ASSUME NEW c \in TLSConn, NEW e \in SSLEvent, Emits(c, e) PROVE Orderly'
    <2>1. /\ Live' = Live /\ c \in Live /\ e.conn = c /\ keys' = keys /\ phase[c] = "open"
          /\ phase' = phase \/ phase' = [phase EXCEPT ![c] = "freed"]
          /\ Grown(e) \/ SameQueue
      BY <1>3, LiveSteps, EventTypes DEF Emits
    <2>2. \A d \in TLSConn : phase'[d] = "new" => phase[d] = "new"
      BY <2>1 DEF Types, ProcessTypes
    <2>3. CASE SameQueue
      BY <1>1, <2>1, <2>2, <2>3
    <2>4. CASE Grown(e)
      <3>1. \A i \in 1..Len(Queue) : Queue[i].op = "free" => Queue[i].conn # c
        BY <1>0, <2>1 DEF Started
      <3>2. ASSUME NEW i \in 1..Len(Queue')
            PROVE  (i \in 1..Len(Queue) /\ Queue'[i] = Queue[i])
                   \/ (i = Len(Queue) + 1 /\ Queue'[i] = e)
        BY <1>0, <2>4 DEF Grown
      <3>3. \A i \in 1..Len(Queue') : Queue'[i].conn \in Live'
        BY <2>1, <3>2 DEF Orderly
      <3>4. ASSUME NEW i \in 1..Len(Queue'), NEW j \in 1..Len(Queue'), i < j, Queue'[i].op = "free"
            PROVE  Queue'[j].conn # Queue'[i].conn
        <4>1. i \in 1..Len(Queue) /\ Queue'[i] = Queue[i]
          BY <1>0, <2>4, <3>4 DEF Grown
        <4>2. CASE j \in 1..Len(Queue) /\ Queue'[j] = Queue[j]
          BY <3>4, <4>1, <4>2 DEF Orderly
        <4>3. CASE Queue'[j] = e
          BY <2>1, <3>1, <3>4, <4>1, <4>3
        <4> QED
          BY <3>2, <4>2, <4>3
      <3> QED
        BY <2>1, <2>2, <3>3, <3>4 DEF Orderly
    <2> QED
      BY <2>1, <2>3, <2>4
  <1>4. CASE Idle
    BY <1>1, <1>4, LiveSteps DEF Idle
  <1>5. CASE Handles
    <2>1. /\ Len(Queue') = Len(Queue) - 1 /\ Queue[1] = hand.e /\ hand # None
          /\ \A i \in 1..(Len(Queue) - 1) : Queue'[i] = Queue[i + 1]
          /\ phase' = phase /\ Len(Queue) > 0
      BY <1>5 DEF Handles, Shrunk, process
    <2>2. \A i \in 1..Len(Queue') : i + 1 \in 1..Len(Queue) /\ Queue'[i] = Queue[i + 1] /\ 1 < i + 1
      BY <1>0, <2>1
    <2>3. \A i, j \in 1..Len(Queue') :
             i < j /\ Queue'[i].op = "free" => Queue'[j].conn # Queue'[i].conn
      <3>1. ASSUME NEW i \in 1..Len(Queue'), NEW j \in 1..Len(Queue'), i < j, Queue'[i].op = "free"
            PROVE  Queue'[j].conn # Queue'[i].conn
        <4>1. i + 1 < j + 1
          BY <1>0, <2>1, <3>1
        <4> QED
          BY <2>2, <3>1, <4>1 DEF Orderly
      <3> QED
        BY <3>1
    <2>4. \A i \in 1..Len(Queue') : Queue'[i].conn \in Live
      BY <2>2 DEF Orderly
    <2>5. CASE HandleMessage
      <3>1. Live' = Live /\ keys' = [keys EXCEPT ![hand.e.conn] = @ \cup {Key}]
        BY <2>5, LiveSteps DEF HandleMessage
      <3>2. hand.e.conn \in TLSConn /\ phase[hand.e.conn] # "new"
        BY <2>1, InHand DEF Live
      <3>3. \A c \in TLSConn : phase[c] = "new" => keys'[c] = keys[c]
        BY <3>1, <3>2 DEF Types, ReaderTypes
      <3> QED
        BY <2>1, <2>3, <2>4, <3>1, <3>3 DEF Orderly
    <2>6. CASE HandleFree
      <3>1. Live' = Live \ {hand.e.conn} /\ keys' = keys /\ hand.e.op = "free"
        BY <2>6, LiveSteps DEF HandleFree
      <3>2. \A i \in 1..Len(Queue') : Queue'[i].conn # hand.e.conn
        BY <1>0, <2>1, <2>2, <3>1 DEF Orderly
      <3> QED
        BY <2>1, <2>3, <2>4, <3>1, <3>2 DEF Orderly
    <2> QED
      BY <1>5, <2>5, <2>6 DEF Handles
  <1> QED
    BY <1>2, <1>3, <1>4, <1>5, StepKinds

LEMMA OrderlyInvariant == Spec => []Orderly
  <1>1. Init => Orderly
    BY DEF Init, Orderly, Queue
  <1> QED
    BY <1>1, TypesInvariant, OrderlyStep, PTL DEF Spec

-----------------------------------------------------------------------------
(* Whose an address, a descriptor and a key are.  An address of two live    *)
(* connections makes both raced; so the entry in ssl_fd_map of a connection *)
(* that is not raced is not touched between its SSL_set_fd and the end of   *)
(* its SSL_free, and all its events get the same key.                       *)

KeyAt(c, f) ==
    IF f = None THEN [pid |-> 1, fd |-> 0, ssl |-> ssl[c], sslFallback |-> TRUE]
    ELSE [pid |-> 1, fd |-> f, ssl |-> 0, sslFallback |-> FALSE]

Entry(c) == ssl_fd_map[ssl[c]]

Sole == \A c, d \in Live : c # d /\ ssl[c] = ssl[d] => c \in raced

Keyed(c) ==
    /\ c \in Live => keys[c] \subseteq {KeyAt(c, Entry(c))}
    /\ hand # None /\ hand.e.conn = c => hand.fd = Entry(c)
    /\ c \in torn => \E k : keys[c] \subseteq {k}

EntriesOwned ==
    /\ \A p \in SSLPtr : ssl_fd_map[p] # None =>
          \E x \in Live : ssl[x] = p /\ fd[x] = ssl_fd_map[p]
    /\ hand # None /\ hand.fd # None =>
          \E x \in Live : ssl[x] = ssl[hand.e.conn] /\ fd[x] = hand.fd

Owned == Sole /\ EntriesOwned /\ \A c \in TLSConn \ raced : Keyed(c)

LEMMA RacedFacts ==
    ASSUME Types, NEW c \in TLSConn, NEW p \in SSLPtr, NEW f \in Fd, Joins(c, p, f)
    PROVE  /\ raced \subseteq raced'
           /\ \A d \in Live : ssl[d] = p => d \in raced' /\ c \in raced'
           /\ \A d \in Live : fd[d] = f /\ phase[d] = "open" => d \in raced' /\ c \in raced'
           /\ \A d, e \in Live : ssl[e] = p /\ fd[d] = f => d \in raced'
  <1>1. raced' = IF Disturbed(p, f) = {} THEN raced ELSE raced \cup Disturbed(p, f) \cup {c}
    BY DEF Joins
  <1>2. \A d \in Live : ssl[d] = p => d \in Disturbed(p, f)
    BY DEF Disturbed, Live
  <1>3. \A d \in Live : fd[d] = f /\ phase[d] = "open" => d \in Disturbed(p, f)
    BY DEF Disturbed, Live
  <1>4. \A d, e \in Live : ssl[e] = p /\ fd[d] = f => d \in Disturbed(p, f)
    BY DEF Disturbed, Live
  <1> QED
    BY <1>1, <1>2, <1>3, <1>4

LEMMA OwnedStep ==
    Types /\ Types' /\ Orderly /\ Owned /\ [Next]_vars => Owned'
  <1> SUFFICES ASSUME Types, Types', Orderly, Owned, [Next]_vars PROVE Owned'
    OBVIOUS
  <1>t. /\ ssl_fd_map \in [SSLPtr -> Fd \cup {None}] /\ keys \in [TLSConn -> SUBSET P!pairKey]
        /\ ssl \in [TLSConn -> SSLPtr \cup {None}]
        /\ torn \subseteq TLSConn /\ Live \subseteq TLSConn
        /\ \A c \in Live : ssl[c] \in SSLPtr /\ fd[c] \in Fd
        /\ None \notin Fd
    BY Constants DEF Constants, Types, ProcessTypes, KernelTypes, ReaderTypes, Live
  <1>h. hand # None => hand.e.conn \in Live
    BY InHand
  <1>1. ASSUME NEW c \in TLSConn, NEW p \in SSLPtr, NEW f \in Fd, Joins(c, p, f) PROVE Owned'
    <2>1. /\ Live' = Live \cup {c} /\ c \notin Live /\ ssl'[c] = p /\ fd'[c] = f
          /\ \A d \in TLSConn : d # c => ssl'[d] = ssl[d] /\ fd'[d] = fd[d]
          /\ UNCHANGED <<hand, keys, torn>>
          /\ ssl_fd_map' = ssl_fd_map \/ ssl_fd_map' = [ssl_fd_map EXCEPT ![p] = f]
      <3>1. /\ UNCHANGED <<hand, keys, torn>>
            /\ ssl_fd_map' = ssl_fd_map \/ ssl_fd_map' = [ssl_fd_map EXCEPT ![p] = f]
        BY <1>1 DEF Joins
      <3>2. /\ Live' = Live \cup {c} /\ c \notin Live /\ ssl'[c] = p /\ fd'[c] = f
            /\ \A d \in TLSConn : d # c => ssl'[d] = ssl[d] /\ fd'[d] = fd[d]
        BY <1>1, LiveSteps
      <3> QED
        BY <3>1, <3>2
    <2>2. /\ raced \subseteq raced'
          /\ \A d \in Live : ssl[d] = p => d \in raced' /\ c \in raced'
      BY <1>1, RacedFacts
    <2>3. Sole'
      BY <1>t, <2>1, <2>2 DEF Sole, Owned
    <2>4. EntriesOwned'
      <3>1. ASSUME NEW q \in SSLPtr, ssl_fd_map'[q] # None
            PROVE  \E x \in Live' : ssl'[x] = q /\ fd'[x] = ssl_fd_map'[q]
        <4>1. CASE ssl_fd_map'[q] = ssl_fd_map[q]
          BY <1>t, <2>1, <3>1, <4>1 DEF Owned, EntriesOwned
        <4>2. CASE q = p /\ ssl_fd_map'[q] = f
          BY <2>1, <4>2
        <4> QED
          BY <1>t, <2>1, <4>1, <4>2
      <3>2. ASSUME hand # None, hand.fd # None
            PROVE  \E x \in Live' : ssl'[x] = ssl'[hand.e.conn] /\ fd'[x] = hand.fd
        BY <1>t, <1>h, <2>1, <3>2 DEF Owned, EntriesOwned
      <3> QED
        BY <2>1, <3>1, <3>2 DEF EntriesOwned
    <2>5. ASSUME NEW d \in TLSConn \ raced' PROVE Keyed(d)'
      <3>1. CASE d = c
        <4>1. keys[c] = {} /\ phase[c] = "new"
          BY <1>1 DEF Orderly, Joins
        <4>2. c \notin torn /\ ~(hand # None /\ hand.e.conn = c)
          BY <1>h, <2>1, <4>1 DEF Types, ReaderTypes
        <4> QED
          BY <2>1, <3>1, <4>1, <4>2 DEF Keyed
      <3>2. CASE d # c /\ d \in Live
        <4>1. ssl[d] # p /\ ssl'[d] = ssl[d]
          BY <2>1, <2>2, <3>2
        <4>2. Entry(d)' = Entry(d)
          BY <1>t, <2>1, <3>2, <4>1 DEF Entry
        <4> QED
          BY <2>1, <2>2, <3>2, <4>1, <4>2 DEF Owned, Keyed, KeyAt
      <3>3. CASE d # c /\ d \notin Live
        BY <1>h, <2>1, <2>2, <3>3 DEF Owned, Keyed
      <3> QED
        BY <3>1, <3>2, <3>3
    <2> QED
      BY <2>3, <2>4, <2>5 DEF Owned
  <1>2. ASSUME Live' = Live, UNCHANGED <<ssl, fd, raced, ssl_fd_map, keys, torn>>,
               \/ hand' = hand \/ hand' = None
               \/ /\ Len(Queue) > 0
                  /\ hand' = [e |-> Queue[1], fd |-> ssl_fd_map[ssl[Queue[1].conn]]]
        PROVE  Owned'
    <2>1. \A c : Entry(c)' = Entry(c) /\ \A f : KeyAt(c, f)' = KeyAt(c, f)
      BY <1>2 DEF Entry, KeyAt
    <2>2. Sole'
      BY <1>2 DEF Owned, Sole
    <2>3. CASE hand' = hand \/ hand' = None
      BY <1>2, <2>1, <2>2, <2>3 DEF Owned, EntriesOwned, Keyed
    <2>4. CASE Len(Queue) > 0 /\ hand' = [e |-> Queue[1], fd |-> ssl_fd_map[ssl[Queue[1].conn]]]
      <3>1. hand'.e = Queue[1] /\ hand'.fd = Entry(Queue[1].conn)
        BY <2>4 DEF Entry
      <3>2. Queue[1].conn \in Live
        BY <2>4, QueueFacts DEF QueueShape, Orderly
      <3>3. ssl[Queue[1].conn] \in SSLPtr
        BY <1>t, <3>2
      <3>4. EntriesOwned'
        BY <1>2, <3>1, <3>3 DEF Owned, EntriesOwned, Entry
      <3>5. \A c \in TLSConn \ raced : Keyed(c)'
        BY <1>2, <2>1, <3>1 DEF Owned, Keyed
      <3> QED
        BY <1>2, <2>2, <3>4, <3>5 DEF Owned
    <2> QED
      BY <1>2, <2>3, <2>4
  <1>3. CASE \E c \in TLSConn, e \in SSLEvent : Emits(c, e)
    BY <1>2, <1>3, LiveSteps DEF Emits
  <1>4. CASE Idle
    BY <1>2, <1>4, LiveSteps DEF Idle
  <1>5. CASE Handles /\ HandleMessage
    <2>1. /\ hand # None /\ hand' = None /\ Live' = Live
          /\ UNCHANGED <<ssl, fd, raced, ssl_fd_map, torn>>
          /\ keys' = [keys EXCEPT ![hand.e.conn] = @ \cup {Key}]
      BY <1>5, LiveSteps DEF HandleMessage, process, kernel
    <2>2. \A c : Entry(c)' = Entry(c) /\ \A f : KeyAt(c, f)' = KeyAt(c, f)
      BY <2>1 DEF Entry, KeyAt
    <2>3. Sole' /\ EntriesOwned'
      BY <2>1 DEF Owned, Sole, EntriesOwned
    <2>4. ASSUME NEW c \in TLSConn \ raced PROVE Keyed(c)'
      <3>1. CASE c = hand.e.conn
        <4>1. Key = KeyAt(c, Entry(c)) /\ c \in Live
          BY <1>h, <2>1, <3>1 DEF Owned, Keyed, Key, KeyAt
        <4>2. keys'[c] = keys[c] \cup {Key}
          BY <1>t, <2>1, <3>1
        <4> QED
          BY <2>1, <2>2, <4>1, <4>2 DEF Owned, Keyed, Live
      <3>2. CASE c # hand.e.conn
        <4>1. keys'[c] = keys[c]
          BY <1>t, <2>1, <3>2
        <4> QED
          BY <2>1, <2>2, <4>1 DEF Owned, Keyed
      <3> QED
        BY <3>1, <3>2
    <2> QED
      BY <2>1, <2>3, <2>4 DEF Owned
  <1>6. CASE Handles /\ HandleFree
    <2>1. /\ hand # None /\ hand' = None /\ Live' = Live \ {hand.e.conn}
          /\ UNCHANGED <<ssl, fd, raced, keys>>
          /\ ssl_fd_map' = [ssl_fd_map EXCEPT ![ssl[hand.e.conn]] = None]
          /\ torn' = torn \cup {hand.e.conn}
      BY <1>6, LiveSteps DEF HandleFree, process
    <2>2. hand.e.conn \in Live /\ ssl[hand.e.conn] \in SSLPtr
      BY <1>h, <1>t, <2>1
    <2>3. Sole'
      BY <2>1 DEF Owned, Sole
    <2>4. EntriesOwned'
      BY <1>t, <2>1, <2>2 DEF Owned, EntriesOwned
    <2>5. ASSUME NEW c \in TLSConn \ raced PROVE Keyed(c)'
      <3>1. CASE c = hand.e.conn
        BY <2>1, <2>2, <3>1 DEF Owned, Keyed
      <3>2. CASE c # hand.e.conn
        <4>1. c \in Live => Entry(c)' = Entry(c)
          <5>1. c \in Live => ssl[c] # ssl[hand.e.conn] /\ ssl[c] \in SSLPtr
            BY <1>t, <2>2, <3>2 DEF Owned, Sole
          <5> QED
            BY <1>t, <2>1, <2>2, <5>1 DEF Entry
        <4>2. \A f : KeyAt(c, f)' = KeyAt(c, f)
          BY <2>1 DEF KeyAt
        <4> QED
          BY <2>1, <3>2, <4>1, <4>2 DEF Owned, Keyed
      <3> QED
        BY <3>1, <3>2
    <2> QED
      BY <2>1, <2>3, <2>4, <2>5 DEF Owned
  <1> QED
    BY <1>1, <1>3, <1>4, <1>5, <1>6, StepKinds DEF Handles

LEMMA OwnedInvariant == Spec => []Owned
  <1>1. Init => Owned
    <2>1. Init => Live = {} /\ hand = None /\ torn = {}
      BY DEF Init, Live
    <2>2. Init => EntriesOwned
      BY <2>1 DEF Init, EntriesOwned
    <2> QED
      BY <2>1, <2>2 DEF Owned, Sole, Keyed
  <1> QED
    BY <1>1, TypesInvariant, OrderlyInvariant, OwnedStep, PTL DEF Spec

(* A connection keeps to one key, also when its address and its descriptor  *)
(* had other owners before it or get others after it.                       *)
THEOREM OneKeyHolds == Spec => []OneKey
  <1>1. Types /\ Orderly /\ Owned => OneKey
    <2> SUFFICES ASSUME Types, Orderly, Owned, NEW c \in TLSConn \ raced
                 PROVE  Cardinality(keys[c]) <= 1
      BY DEF OneKey
    <2>1. PICK k : keys[c] \subseteq {k}
      <3>1. CASE c \in Live \/ c \in torn
        BY <3>1 DEF Owned, Keyed
      <3>2. CASE c \notin Live /\ c \notin torn
        BY <3>2 DEF Live, Orderly
      <3> QED
        BY <3>1, <3>2
    <2>2. CASE keys[c] = {}
      <3>1. Cardinality(keys[c]) = 0
        BY <2>2, FS_EmptySet, Zenon
      <3> QED
        BY <3>1
    <2>3. CASE keys[c] = {k}
      <3>1. Cardinality(keys[c]) = 1
        BY <2>3, FS_Singleton, Zenon
      <3> QED
        BY <3>1
    <2> QED
      BY <2>1, <2>2, <2>3
  <1> QED
    BY <1>1, TypesInvariant, OrderlyInvariant, OwnedInvariant, PTL

-----------------------------------------------------------------------------
(* What a connection left behind.                                           *)

(* When the SSL_free of a connection was handled, its messages are of a     *)
(* life of their key that has ended.                                        *)
Past ==
    \A n \in 1..Len(log) :
        ConnOf(n) \in torn \ raced => P!Conn(n).life < life[P!Conn(n).key]

(* The lives of the keys only go up.                                        *)
LEMMA LivesGrow ==
    ASSUME Types, PairerInv, PairerInv', Recorded, [Next]_vars
    PROVE  \A k \in P!pairKey : life[k] \in Nat /\ life'[k] \in Nat /\ life[k] <= life'[k]
  <1>1. \A k \in P!pairKey : life[k] \in Nat
    BY LogTypes
  <1>2. CASE HandleMessage
    BY <1>1, <1>2, ArrivalEffect
  <1>3. CASE HandleFree
    <2>1. life' = life \/ life' = [life EXCEPT ![Key] = @ + 1]
      BY <1>3, FreeEffect DEF pairer
    <2>2. life \in [P!pairKey -> 0..MaxMsgs]
      BY SamePairer DEF PairerInv, PP!TypeInv, PP!TypeOK
    <2> QED
      BY <1>1, <2>1, <2>2
  <1>4. CASE P!Expire \/ P!Sweep \/ UNCHANGED pairer
    BY <1>1, <1>4 DEF pairer, P!Expire, P!Sweep
  <1> QED
    BY <1>2, <1>3, <1>4, PairerMoves

LEMMA PastStep ==
    Types /\ Types' /\ PairerInv /\ PairerInv' /\ Recorded /\ Orderly /\ Owned /\ Past
        /\ [Next]_vars => Past'
  <1> SUFFICES ASSUME Types, Types', PairerInv, PairerInv', Recorded, Orderly, Owned, Past,
                      [Next]_vars
               PROVE  Past'
    OBVIOUS
  <1>0. /\ Len(log) \in Nat
        /\ \A n \in 1..Len(log) : /\ P!Conn(n).key \in P!pairKey /\ P!Conn(n).life \in Nat
                                  /\ P!Conn(n).life <= life[P!Conn(n).key]
        /\ \A k \in P!pairKey : life[k] \in Nat /\ life'[k] \in Nat /\ life[k] <= life'[k]
    BY LogTypes, LivesGrow, SamePairer DEF PairerInv, PP!Numbered, PP!Last
  <1>1. ASSUME UNCHANGED <<log, exchange, torn, life>>, raced \subseteq raced'
        PROVE  Past'
    BY <1>1 DEF Past, ConnOf, P!Conn
  <1>2. ASSUME NEW c \in TLSConn, NEW p \in SSLPtr, NEW f \in Fd, Joins(c, p, f) PROVE Past'
    BY <1>1, <1>2, RacedFacts DEF Joins, pairer
  <1>3. CASE \E c \in TLSConn, e \in SSLEvent : Emits(c, e)
    BY <1>1, <1>3 DEF Emits, pairer
  <1>4. CASE Idle
    BY <1>1, <1>4 DEF Idle, pairer
  <1>5. CASE Handles /\ HandleMessage
    <2>1. UNCHANGED <<torn, raced, life>> /\ hand # None
      BY <1>5, ArrivalEffect DEF HandleMessage, process
    <2>2. hand.e.conn \notin torn
      BY <2>1, InHand DEF Live
    <2>3. \A n \in 1..Len(log') : n \in 1..Len(log) \/ n = Len(log) + 1
      BY <1>0, <1>5, ArrivalEffect
    <2>4. ASSUME NEW n \in 1..Len(log'), ConnOf(n)' \in torn \ raced
          PROVE  P!Conn(n)'.life < life'[P!Conn(n)'.key]
      <3>1. n \in 1..Len(log)
        BY <1>5, <2>2, <2>3, <2>4, ArrivalEffect
      <3>2. P!Conn(n)' = P!Conn(n) /\ ConnOf(n)' = ConnOf(n)
        BY <1>5, <3>1, ArrivalEffect
      <3> QED
        BY <2>1, <2>4, <3>1, <3>2 DEF Past
    <2> QED
      BY <2>1, <2>4 DEF Past
  <1>6. CASE Handles /\ HandleFree
    <2>1. /\ UNCHANGED <<log, exchange, raced>> /\ torn' = torn \cup {hand.e.conn} /\ hand # None
      BY <1>6, FreeEffect DEF HandleFree, process
    <2>2. ASSUME NEW n \in 1..Len(log) PROVE P!Conn(n)' = P!Conn(n) /\ ConnOf(n)' = ConnOf(n)
      BY <2>1 DEF ConnOf, P!Conn
    <2>3. Key \in P!pairKey
      BY <2>1, KeyTypes
    <2>4. ASSUME NEW n \in 1..Len(log), ConnOf(n) \in torn' \ raced
          PROVE  P!Conn(n).life < life'[P!Conn(n).key]
      <3>1. CASE ConnOf(n) \in torn
        <4>1. P!Conn(n).life < life[P!Conn(n).key]
          BY <2>4, <3>1 DEF Past
        <4> QED
          BY <1>0, <4>1
      <3>2. CASE ConnOf(n) = hand.e.conn
        <4>1. /\ hand.e.conn \in Live \ raced /\ hand.e.conn \in TLSConn
          BY <2>1, <2>4, <3>2, InHand
        <4>2. P!Conn(n).key = Key
          <5>1. P!Conn(n).key \in keys[hand.e.conn]
            BY <3>2 DEF Recorded
          <5>2. /\ keys[hand.e.conn] \subseteq {KeyAt(hand.e.conn, Entry(hand.e.conn))}
                /\ hand.fd = Entry(hand.e.conn)
            BY <2>1, <4>1 DEF Owned, Keyed
          <5> QED
            BY <5>1, <5>2 DEF Key, KeyAt
        <4>3. CASE life' = [life EXCEPT ![Key] = @ + 1]
          <5>1. life \in [P!pairKey -> 0..MaxMsgs]
            BY SamePairer DEF PairerInv, PP!TypeInv, PP!TypeOK
          <5>2. life'[Key] = life[Key] + 1
            BY <2>3, <4>3, <5>1
          <5> QED
            BY <1>0, <2>3, <4>2, <5>2
        <4>4. CASE UNCHANGED pairer /\ P!Conn(n).life < life[Key]
          BY <4>2, <4>4 DEF pairer
        <4> QED
          BY <1>6, <4>2, <4>3, <4>4, FreeEffect
      <3> QED
        BY <2>1, <2>4, <3>1, <3>2
    <2> QED
      BY <2>1, <2>2, <2>4 DEF Past
  <1> QED
    BY <1>2, <1>3, <1>4, <1>5, <1>6, StepKinds DEF Handles

LEMMA PastInvariant == Spec => []Past
  <1>1. Init => Past
    BY DEF Init, P!Init, Past
  <1> QED
    BY <1>1, TypesInvariant, PairerInvariant, RecordedInvariant, OrderlyInvariant, OwnedInvariant,
       PastStep, PTL DEF Spec

(* What waits is of the life its key has now.                               *)
LEMMA WaitingIsCurrent ==
    ASSUME PairerInv, NEW n \in pending \cup heldResponses
    PROVE  n \in 1..Len(log) /\ P!Conn(n).life = life[P!Conn(n).key]
  <1>1. n \in 1..Len(log) /\ PP!Current(n)
    BY DEF PairerInv, PP!Waiting, PP!TypeInv, PP!TypeOK, PP!Last
  <1> QED
    BY <1>1, SamePairer DEF PP!Current, PP!ConnOf

(* Nothing of a connection waits for a partner once its SSL_free was        *)
(* handled, whatever was lost before and whichever side its key was on.     *)
THEOREM FreeTearsDownHolds == Spec => []FreeTearsDown
  <1>1. PairerInv /\ Past => FreeTearsDown
    <2> SUFFICES ASSUME PairerInv, Past, NEW n \in pending \cup heldResponses,
                        ConnOf(n) \in torn \ raced
                 PROVE  FALSE
      BY DEF FreeTearsDown
    <2>1. /\ n \in 1..Len(log) /\ P!Conn(n).life = life[P!Conn(n).key]
          /\ P!Conn(n).life \in Nat
      BY WaitingIsCurrent, LogTypes
    <2>2. P!Conn(n).life < life[P!Conn(n).key]
      BY <2>1 DEF Past
    <2> QED
      BY <2>1, <2>2
  <1> QED
    BY <1>1, PairerInvariant, PastInvariant, PTL

-----------------------------------------------------------------------------
(* One descriptor, one connection after the other.  As long as no SSL_free  *)
(* found the ring full, the SSL_free of the earlier one is in the queue     *)
(* before every event of the later one.                                     *)

FreeIn(c) == \E i \in 1..Len(Queue) : Queue[i].op = "free" /\ Queue[i].conn = c

FreeAhead(c, d) ==
    /\ phase[c] = "freed" /\ keys[d] = {}
    /\ \E i \in 1..Len(Queue) :
          /\ Queue[i].op = "free" /\ Queue[i].conn = c
          /\ \A j \in 1..Len(Queue) : Queue[j].conn = d => i < j

FreesComing == \A c \in Live : phase[c] = "freed" => FreeIn(c)

OneAfterTheOther ==
    \A c, d \in Live : c # d /\ fd[c] = fd[d] /\ c \notin raced => FreeAhead(c, d) \/ FreeAhead(d, c)

(* An address that the later one shares with a third connection: that one   *)
(* came later still.                                                        *)
ThirdIsLater ==
    \A c, d, e \in Live :
        /\ c \notin raced /\ c # d /\ d # e /\ c # e /\ fd[c] = fd[d] /\ ssl[d] = ssl[e]
        /\ FreeAhead(c, d)
        => FreeAhead(c, e)

Handover == "ringbuf" \notin drop_counters => FreesComing /\ OneAfterTheOther /\ ThirdIsLater

NotBothAhead == \A c, d : ~(FreeAhead(c, d) /\ FreeAhead(d, c))

LEMMA AheadAsymmetric == Types => NotBothAhead
  <1> SUFFICES ASSUME Types, NEW c, NEW d, FreeAhead(c, d), FreeAhead(d, c) PROVE FALSE
    BY DEF NotBothAhead
  <1>1. PICK i \in 1..Len(Queue) :
           Queue[i].conn = c /\ \A j \in 1..Len(Queue) : Queue[j].conn = d => i < j
    BY DEF FreeAhead
  <1>2. PICK j \in 1..Len(Queue) :
           Queue[j].conn = d /\ \A k \in 1..Len(Queue) : Queue[k].conn = c => j < k
    BY DEF FreeAhead
  <1>3. i < j /\ j < i /\ Len(Queue) \in Nat
    BY <1>1, <1>2, QueueFacts DEF QueueShape
  <1> QED
    BY <1>3

LEMMA AheadAsymmetricNext == Types' => NotBothAhead'
  BY AheadAsymmetric, PTL

(* Where an event of the queue is after a step, unless the step handles it. *)
LEMMA StaysInQueue ==
    ASSUME Types, Types', [Next]_vars
    PROVE  \/ \E e \in SSLEvent : Grown(e) /\ Emits(e.conn, e) /\ ~Handles
           \/ SameQueue /\ ~Handles
           \/ Handles /\ Shrunk
  <1>1. Handles => hand # None /\ hand' = None /\ Shrunk
    BY DEF Handles
  <1>2. \A c \in TLSConn, p \in SSLPtr, f \in Fd : Joins(c, p, f) => SameQueue /\ hand' = hand
    BY DEF Joins
  <1>3. \A c \in TLSConn, e \in SSLEvent : Emits(c, e) => hand' = hand /\ e.conn = c /\ (SameQueue \/ Grown(e))
    BY DEF Emits
  <1>4. Idle => SameQueue
    BY DEF Idle
  <1>5. Len(Queue) \in Nat
    BY QueueFacts DEF QueueShape
  <1>6. SameQueue => ~Shrunk
    BY <1>5 DEF SameQueue, Shrunk
  <1> QED
    BY <1>1, <1>2, <1>3, <1>4, <1>6, StepKinds

LEMMA FreeStays ==
    ASSUME Types, Types', Orderly, [Next]_vars, NEW c \in Live, c \in Live', FreeIn(c)
    PROVE  FreeIn(c)'
  <1>1. PICK i \in 1..Len(Queue) : Queue[i].op = "free" /\ Queue[i].conn = c
    BY DEF FreeIn
  <1>2. Len(Queue) \in Nat
    BY QueueFacts DEF QueueShape
  <1>3. CASE SameQueue \/ \E e \in SSLEvent : Grown(e)
    BY <1>1, <1>2, <1>3 DEF FreeIn, SameQueue, Grown
  <1>4. CASE Handles /\ Shrunk
    <2>1. i # 1
      <3>1. CASE HandleMessage
        BY <1>1, <1>4, <3>1 DEF HandleMessage, Shrunk
      <3>2. CASE HandleFree
        BY <1>1, <1>4, <3>2, LiveSteps DEF Shrunk
      <3> QED
        BY <1>4, <3>1, <3>2 DEF Handles
    <2>2. i - 1 \in 1..(Len(Queue) - 1) /\ (i - 1) + 1 = i
      BY <1>2, <2>1
    <2>3. i - 1 \in 1..Len(Queue') /\ Queue'[i - 1] = Queue[i]
      BY <1>4, <2>2 DEF Shrunk
    <2> QED
      BY <1>1, <2>3 DEF FreeIn
  <1> QED
    BY <1>3, <1>4, StaysInQueue

LEMMA AheadStays ==
    ASSUME Types, Types', Orderly, [Next]_vars, NEW c \in Live, NEW d \in Live, c \in Live',
           FreeAhead(c, d)
    PROVE  FreeAhead(c, d)'
  <1>1. PICK i \in 1..Len(Queue) :
           /\ Queue[i].op = "free" /\ Queue[i].conn = c
           /\ \A j \in 1..Len(Queue) : Queue[j].conn = d => i < j
    BY DEF FreeAhead
  <1>2. Len(Queue) \in Nat /\ c \in TLSConn /\ d \in TLSConn /\ phase[c] = "freed" /\ keys[d] = {}
    BY QueueFacts DEF QueueShape, FreeAhead, Live
  <1>3. CASE (\E e \in SSLEvent : Grown(e) /\ Emits(e.conn, e)) \/ (SameQueue /\ ~Handles)
    <2>1. keys'[d] = {} /\ phase'[c] = "freed"
      <3>1. CASE \E x \in TLSConn, p \in SSLPtr, f \in Fd : Joins(x, p, f)
        BY <1>2, <3>1, LiveSteps DEF Joins
      <3>2. CASE \E x \in TLSConn, e \in SSLEvent : Emits(x, e)
        BY <1>2, <3>2, EventTypes DEF Emits, Types, ProcessTypes
      <3>3. CASE Idle
        BY <1>2, <3>3 DEF Idle
      <3> QED
        BY <1>3, <3>1, <3>2, <3>3, StepKinds, EventTypes
    <2>2. i \in 1..Len(Queue') /\ Queue'[i] = Queue[i]
      BY <1>2, <1>3 DEF SameQueue, Grown
    <2>3. ASSUME NEW j \in 1..Len(Queue'), Queue'[j].conn = d PROVE i < j
      <3>1. CASE j \in 1..Len(Queue) /\ Queue'[j] = Queue[j]
        BY <1>1, <2>3, <3>1
      <3>2. CASE j = Len(Queue) + 1
        BY <1>2, <3>2
      <3> QED
        BY <1>2, <1>3, <3>1, <3>2 DEF SameQueue, Grown
    <2> QED
      BY <1>1, <2>1, <2>2, <2>3 DEF FreeAhead
  <1>4. CASE Handles /\ Shrunk
    <2>1. Queue[1] = hand.e /\ 1 \in 1..Len(Queue) /\ phase' = phase
      BY <1>2, <1>4 DEF Handles, Shrunk, process
    <2>2. i # 1 /\ keys'[d] = {}
      <3>1. CASE HandleMessage
        <4>1. i # 1
          BY <1>1, <2>1, <3>1 DEF HandleMessage
        <4>2. hand.e.conn # d
          BY <1>1, <1>2, <2>1
        <4> QED
          BY <1>2, <3>1, <4>1, <4>2 DEF HandleMessage, Types, ReaderTypes
      <3>2. CASE HandleFree
        BY <1>1, <1>2, <2>1, <3>2, LiveSteps DEF HandleFree
      <3> QED
        BY <1>4, <3>1, <3>2 DEF Handles
    <2>3. i - 1 \in 1..(Len(Queue) - 1) /\ (i - 1) + 1 = i
      BY <1>2, <2>2
    <2>4. i - 1 \in 1..Len(Queue') /\ Queue'[i - 1] = Queue[i]
      BY <1>4, <2>3 DEF Shrunk
    <2>5. ASSUME NEW j \in 1..Len(Queue'), Queue'[j].conn = d PROVE i - 1 < j
      <3>1. j + 1 \in 1..Len(Queue) /\ j \in 1..(Len(Queue) - 1)
        BY <1>2, <1>4 DEF Shrunk
      <3>2. Queue'[j] = Queue[j + 1]
        BY <1>4, <3>1 DEF Shrunk
      <3>3. i < j + 1
        BY <1>1, <2>5, <3>1, <3>2
      <3> QED
        BY <3>1, <3>3
    <2> QED
      BY <1>1, <1>2, <2>1, <2>2, <2>4, <2>5 DEF FreeAhead
  <1> QED
    BY <1>3, <1>4, StaysInQueue

(* What is known once, of drops and of races, is not forgotten.             *)
LEMMA RacedGrows ==
    ASSUME Types, Types', [Next]_vars
    PROVE  raced \subseteq raced' /\ repeated \subseteq repeated' /\ DropsGrow /\ Onwards
  <1>1. ASSUME NEW c \in TLSConn, NEW p \in SSLPtr, NEW f \in Fd, Joins(c, p, f)
        PROVE  raced \subseteq raced' /\ repeated' = repeated /\ DropsGrow /\ Onwards
    BY <1>1, RacedFacts DEF Joins, Onwards, Types, ProcessTypes
  <1>2. ASSUME NEW c \in TLSConn, NEW e \in SSLEvent, Emits(c, e)
        PROVE  raced \subseteq raced' /\ repeated \subseteq repeated' /\ DropsGrow /\ Onwards
    BY <1>2, EventTypes DEF Emits, Onwards, Types, ProcessTypes
  <1>3. CASE Idle
    BY <1>3 DEF Idle, Onwards
  <1>4. CASE Handles
    BY <1>4 DEF Handles, process, DropsGrow, Onwards
  <1> QED
    BY <1>1, <1>2, <1>3, <1>4, StepKinds

LEMMA HandoverStep ==
    Types /\ Types' /\ Orderly /\ Owned /\ Handover /\ [Next]_vars => Handover'
  <1> SUFFICES ASSUME Types, Types', Orderly, Owned, Handover, [Next]_vars,
                      "ringbuf" \notin drop_counters'
               PROVE  FreesComing' /\ OneAfterTheOther' /\ ThirdIsLater'
    BY DEF Handover
  <1>0. FreesComing /\ OneAfterTheOther /\ ThirdIsLater /\ raced \subseteq raced'
    BY RacedGrows DEF Handover, DropsGrow
  <1>q. Len(Queue) \in Nat
    BY QueueFacts DEF QueueShape
  <1>1. ASSUME NEW c \in TLSConn, NEW p \in SSLPtr, NEW f \in Fd, Joins(c, p, f)
        PROVE  FreesComing' /\ OneAfterTheOther' /\ ThirdIsLater'
    <2>1. /\ Live' = Live \cup {c} /\ c \notin Live /\ phase'[c] = "open"
          /\ ssl'[c] = p /\ fd'[c] = f /\ SameQueue /\ keys' = keys
          /\ \A d \in Live : phase'[d] = phase[d] /\ ssl'[d] = ssl[d] /\ fd'[d] = fd[d]
      BY <1>1, LiveSteps DEF Joins, Live
    <2>2. keys[c] = {} /\ \A i \in 1..Len(Queue') : Queue'[i].conn # c
      <3>1. phase[c] = "new"
        BY <1>1 DEF Joins
      <3>2. Len(Queue') = Len(Queue) /\ \A i \in 1..Len(Queue) : Queue'[i] = Queue[i] /\ Queue[i].conn \in Live
        BY <2>1 DEF SameQueue, Orderly
      <3> QED
        BY <2>1, <3>1, <3>2 DEF Orderly
    <2>3. ASSUME NEW d \in Live, phase[d] = "freed" PROVE FreeAhead(d, c)'
      <3>1. FreeIn(d)
        BY <1>0, <2>3 DEF FreesComing
      <3>2. FreeIn(d)'
        BY <2>1, <3>1, FreeStays
      <3>3. phase'[d] = "freed" /\ keys'[c] = {}
        BY <2>1, <2>2, <2>3
      <3> QED
        BY <2>2, <3>2, <3>3 DEF FreeIn, FreeAhead
    <2>4. FreesComing'
      BY <1>0, <2>1, FreeStays DEF FreesComing
    <2>5. ASSUME NEW d \in Live, fd[d] = f, c \notin raced' \/ d \notin raced'
          PROVE  FreeAhead(d, c)'
      <3>1. phase[d] \in {"open", "freed"}
        BY DEF Live, Types, ProcessTypes, Phases
      <3>2. phase[d] # "open"
        BY <1>1, <2>5, RacedFacts
      <3> QED
        BY <2>3, <3>1, <3>2
    <2>6. OneAfterTheOther'
      <3>1. ASSUME NEW d \in Live', NEW e \in Live', d # e, fd'[d] = fd'[e], d \notin raced'
            PROVE  FreeAhead(d, e)' \/ FreeAhead(e, d)'
        <4>1. CASE d = c
          BY <2>1, <2>5, <3>1, <4>1
        <4>2. CASE e = c
          BY <2>1, <2>5, <3>1, <4>2
        <4>3. CASE d \in Live /\ e \in Live
          <5>1. FreeAhead(d, e) \/ FreeAhead(e, d)
            BY <1>0, <2>1, <3>1, <4>3 DEF OneAfterTheOther
          <5> QED
            BY <2>1, <4>3, <5>1, AheadStays
        <4> QED
          BY <2>1, <4>1, <4>2, <4>3
      <3> QED
        BY <3>1 DEF OneAfterTheOther
    <2>7. ThirdIsLater'
      <3>1. ASSUME NEW d \in Live', NEW e \in Live', NEW x \in Live',
                   d \notin raced', d # e, e # x, d # x, fd'[d] = fd'[e], ssl'[e] = ssl'[x],
                   FreeAhead(d, e)'
            PROVE  FreeAhead(d, x)'
        <4>1. d # c /\ d \in Live /\ phase[d] = "freed"
          BY <2>1, <3>1 DEF FreeAhead
        <4>2. e # c
          <5>1. CASE e = c
            <6>1. x \in Live /\ ssl[x] = p /\ fd[d] = f
              BY <2>1, <3>1, <4>1, <5>1
            <6> QED
              BY <1>1, <3>1, <4>1, <6>1, RacedFacts
          <5> QED
            BY <5>1
        <4>3. CASE x = c
          BY <2>3, <4>1, <4>3
        <4>4. CASE x # c
          <5>1. e \in Live /\ x \in Live /\ fd[d] = fd[e] /\ ssl[e] = ssl[x] /\ d \notin raced
            BY <1>0, <2>1, <3>1, <4>1, <4>2, <4>4
          <5>2. FreeAhead(d, e) \/ FreeAhead(e, d)
            BY <1>0, <3>1, <4>1, <5>1 DEF OneAfterTheOther
          <5>3. ~FreeAhead(e, d)
            BY <2>1, <3>1, <4>1, <5>1, AheadStays, AheadAsymmetricNext DEF NotBothAhead
          <5>4. FreeAhead(d, x)
            BY <1>0, <3>1, <4>1, <5>1, <5>2, <5>3 DEF ThirdIsLater
          <5> QED
            BY <2>1, <4>1, <5>1, <5>4, AheadStays
        <4> QED
          BY <4>3, <4>4
      <3> QED
        BY <3>1 DEF ThirdIsLater
    <2> QED
      BY <2>4, <2>6, <2>7
  <1>2. ASSUME Live' \subseteq Live, UNCHANGED <<ssl, fd, raced>>, FreesComing'
        PROVE  OneAfterTheOther' /\ ThirdIsLater'
    <2>1. OneAfterTheOther'
      BY <1>0, <1>2, AheadStays DEF OneAfterTheOther
    <2>2. ASSUME NEW d \in Live', NEW e \in Live', NEW x \in Live',
                 d \notin raced, d # e, e # x, d # x, fd[d] = fd[e], ssl[e] = ssl[x],
                 FreeAhead(d, e)'
          PROVE  FreeAhead(d, x)'
      <3>1. d \in Live /\ e \in Live /\ x \in Live
        BY <1>2
      <3>2. FreeAhead(d, e) \/ FreeAhead(e, d)
        BY <1>0, <2>2, <3>1 DEF OneAfterTheOther
      <3>3. ~FreeAhead(e, d)
        BY <2>2, <3>1, AheadStays, AheadAsymmetricNext DEF NotBothAhead
      <3>4. FreeAhead(d, x)
        BY <1>0, <2>2, <3>1, <3>2, <3>3 DEF ThirdIsLater
      <3> QED
        BY <3>1, <3>4, AheadStays
    <2> QED
      BY <1>2, <2>1, <2>2 DEF ThirdIsLater
  <1>3. ASSUME NEW c \in TLSConn, NEW e \in SSLEvent, Emits(c, e)
        PROVE  FreesComing' /\ OneAfterTheOther' /\ ThirdIsLater'
    <2>1. /\ Live' = Live /\ e.conn = c /\ phase[c] = "open" /\ Grown(e)
          /\ UNCHANGED <<ssl, fd, raced>>
          /\ \/ phase' = phase
             \/ e.op = "free" /\ phase' = [phase EXCEPT ![c] = "freed"]
      BY <1>3, LiveSteps, EventTypes DEF Emits
    <2>2. ASSUME NEW d \in Live, phase'[d] = "freed" PROVE FreeIn(d)'
      <3>1. CASE phase[d] = "freed"
        BY <1>0, <2>1, <3>1, FreeStays DEF FreesComing
      <3>2. CASE phase[d] # "freed"
        <4>1. d = c /\ e.op = "free"
          BY <2>1, <2>2, <3>2 DEF Live, Types, ProcessTypes
        <4>2. Len(Queue) + 1 \in 1..Len(Queue') /\ Queue'[Len(Queue) + 1] = e
          BY <1>q, <2>1 DEF Grown
        <4> QED
          BY <2>1, <4>1, <4>2 DEF FreeIn
      <3> QED
        BY <3>1, <3>2
    <2>3. FreesComing'
      BY <2>1, <2>2 DEF FreesComing
    <2> QED
      BY <1>2, <2>1, <2>3
  <1>4. ASSUME Live' \subseteq Live, UNCHANGED <<phase, ssl, fd, raced>>
        PROVE  FreesComing' /\ OneAfterTheOther' /\ ThirdIsLater'
    <2>1. FreesComing'
      BY <1>0, <1>4, FreeStays DEF FreesComing
    <2> QED
      BY <1>2, <1>4, <2>1
  <1>5. CASE Idle
    BY <1>4, <1>5, LiveSteps DEF Idle
  <1>6. CASE Handles
    BY <1>4, <1>6, LiveSteps DEF Handles, process
  <1> QED
    BY <1>1, <1>3, <1>5, <1>6, StepKinds

LEMMA HandoverInvariant == Spec => []Handover
  <1>1. Init => Handover
    BY DEF Init, Live, Handover, FreesComing, OneAfterTheOther, ThirdIsLater
  <1> QED
    BY <1>1, TypesInvariant, OrderlyInvariant, OwnedInvariant, HandoverStep, PTL DEF Spec

(* The key of the event in hand belongs to no other connection that has had *)
(* an event under it and is not raced.                                      *)
LEMMA SoleUser ==
    ASSUME Types, Orderly, Owned, Handover, "ringbuf" \notin drop_counters, hand # None,
           NEW c \in Live \ raced, c # hand.e.conn, Key \in keys[c]
    PROVE  FALSE
  <1> DEFINE e == hand.e.conn
  <1>1. /\ e \in Live /\ Len(Queue) \in Nat \ {0} /\ Queue[1].conn = e /\ 1 \in 1..Len(Queue)
        /\ ssl[e] \in SSLPtr /\ ssl[c] \in SSLPtr /\ hand.fd \in Fd \cup {None}
        /\ ssl_fd_map[ssl[c]] \in Fd \cup {None} /\ None \notin Fd /\ 0 \notin SSLPtr
    BY InHand, Constants DEF Constants, Live, Types, ProcessTypes, KernelTypes
  <1>2. c \in TLSConn
    BY DEF Live
  <1>3. KeyAt(e, hand.fd) = KeyAt(c, Entry(c))
    <2>1. keys[c] \subseteq {KeyAt(c, Entry(c))}
      BY <1>2 DEF Owned, Keyed
    <2> QED
      BY <2>1 DEF Key, KeyAt
  <1>4. ssl[e] # ssl[c]
    BY <1>1 DEF Owned, Sole
  <1>5. hand.fd # None /\ Entry(c) = hand.fd
    BY <1>1, <1>3, <1>4 DEF KeyAt, Entry
  <1>6. fd[c] = hand.fd
    <2>1. PICK x \in Live : ssl[x] = ssl[c] /\ fd[x] = ssl_fd_map[ssl[c]]
      BY <1>1, <1>5 DEF Owned, EntriesOwned, Entry
    <2>2. x = c
      BY <2>1 DEF Owned, Sole
    <2> QED
      BY <1>5, <2>1, <2>2 DEF Entry
  <1>7. PICK y \in Live : ssl[y] = ssl[e] /\ fd[y] = hand.fd
    BY <1>5 DEF Owned, EntriesOwned
  <1>8. y # c
    BY <1>4, <1>7
  <1>9. FreeAhead(c, y) \/ FreeAhead(y, c)
    BY <1>6, <1>7, <1>8 DEF Handover, OneAfterTheOther
  <1>10. FreeAhead(c, y)
    BY <1>9 DEF FreeAhead
  <1>11. FreeAhead(c, e)
    BY <1>1, <1>6, <1>7, <1>8, <1>10 DEF Handover, ThirdIsLater
  <1> QED
    BY <1>1, <1>11 DEF FreeAhead

LEMMA OnlyFreedAbandonedStep ==
    Types /\ Types' /\ PairerInv /\ PairerInv' /\ Recorded /\ Orderly /\ Owned /\ Handover
        /\ Past /\ OnlyFreedAbandoned /\ [Next]_vars
        => OnlyFreedAbandoned'
  <1> SUFFICES ASSUME Types, Types', PairerInv, PairerInv', Recorded, Orderly, Owned, Handover,
                      Past, OnlyFreedAbandoned, [Next]_vars, "ringbuf" \notin drop_counters',
                      NEW n \in closed'
               PROVE  phase'[ConnOf(n)'] = "freed" \/ ConnOf(n)' \in raced'
    BY DEF OnlyFreedAbandoned, PairerInv, PP!ReportedOnce
  <1>0. /\ "ringbuf" \notin drop_counters /\ raced \subseteq raced' /\ Onwards
        /\ closed \subseteq 1..Len(log)
    BY RacedGrows DEF DropsGrow, PairerInv, PP!TypeInv, PP!TypeOK, PP!Last
  <1>1. ASSUME n \in closed, ConnOf(n)' = ConnOf(n)
        PROVE  phase'[ConnOf(n)'] = "freed" \/ ConnOf(n)' \in raced'
    BY <1>0, <1>1 DEF OnlyFreedAbandoned, Onwards, Recorded
  <1>2. CASE UNCHANGED <<exchange, closed>>
    BY <1>1, <1>2 DEF ConnOf
  <1>3. CASE HandleMessage
    BY <1>0, <1>1, <1>3, ArrivalEffect
  <1>4. CASE Handles /\ HandleFree
    <2>1. /\ ConnOf(n)' = ConnOf(n) /\ hand # None /\ hand.e.op = "free"
          /\ closed' = closed \/ closed' = closed \cup P!Of(Key, pending)
          /\ phase' = phase
      BY <1>4, FreeEffect DEF ConnOf, HandleFree, pairer, process
    <2>2. ASSUME n \in P!Of(Key, pending), ConnOf(n) \notin raced PROVE phase[ConnOf(n)] = "freed"
      <3>1. /\ n \in 1..Len(log) /\ n \in pending /\ P!Conn(n).key = Key
            /\ P!Conn(n).life = life[Key] /\ life[Key] \in Nat
        BY <2>2, WaitingIsCurrent, LogTypes DEF P!Of
      <3>2. Key \in keys[ConnOf(n)] /\ ConnOf(n) \in TLSConn
        BY <3>1 DEF Recorded
      <3>3. ConnOf(n) \notin torn
        BY <2>2, <3>1 DEF Past
      <3>4. ConnOf(n) \in Live
        BY <3>2, <3>3 DEF Live, Orderly
      <3>5. ConnOf(n) = hand.e.conn
        BY <1>0, <2>1, <2>2, <3>2, <3>4, SoleUser
      <3> QED
        BY <2>1, <3>5, InHand
    <2> QED
      BY <1>0, <1>1, <2>1, <2>2
  <1>5. HandleMessage \/ (Handles /\ HandleFree) \/ UNCHANGED <<exchange, closed>>
    BY StepKinds DEF Joins, Emits, Idle, Handles, pairer
  <1> QED
    BY <1>2, <1>3, <1>4, <1>5

(* A request is reported as abandoned because its peer closed only when its *)
(* own connection has called SSL_free: the SSL_free of another never        *)
(* reaches its key, however late the two events are looked up.  What the    *)
(* sweeper gave up is not reported again by the close.                      *)
THEOREM OnlyFreedAbandonedHolds == Spec => []OnlyFreedAbandoned
  <1>1. Init => OnlyFreedAbandoned
    BY DEF Init, P!Init, OnlyFreedAbandoned
  <1> QED
    BY <1>1, TypesInvariant, PairerInvariant, RecordedInvariant, OrderlyInvariant, OwnedInvariant,
       HandoverInvariant, PastInvariant, OnlyFreedAbandonedStep, PTL DEF Spec

-----------------------------------------------------------------------------
(* The numbers of the exchanges.  A connection that repeats no SSL_write    *)
(* submits its events in the order of their exchanges, a response after its *)
(* request, and the reader handles them in that order.                      *)

Sent(op, c) == IF op = "write" THEN requests[c] ELSE responses[c]

SentAfter(op, c) == IF op = "write" THEN requests'[c] ELSE responses'[c]

OpOf(m) == IF log[m].isRequest THEN "write" ELSE "read"

Ordered(a, b) == b.op = "write" \/ a.op = b.op => a.no < b.no

Counting ==
    /\ \A c \in TLSConn : responses[c] <= requests[c]
    /\ \A i \in 1..Len(Queue) :
          Queue[i].op # "free" => Queue[i].no \in 1..Sent(Queue[i].op, Queue[i].conn)
    /\ \A i, j \in 1..Len(Queue) :
          /\ i < j /\ Queue[i].op # "free" /\ Queue[j].op # "free"
          /\ Queue[i].conn = Queue[j].conn /\ Queue[i].conn \notin repeated
          => Ordered(Queue[i], Queue[j])
    /\ \A m \in 1..Len(log) : exchange[m][2] \in 1..Sent(OpOf(m), ConnOf(m))
    /\ \A m \in 1..Len(log), j \in 1..Len(Queue) :
          /\ Queue[j].op = OpOf(m) /\ Queue[j].conn = ConnOf(m) /\ ConnOf(m) \notin repeated
          => exchange[m][2] < Queue[j].no

LEMMA SentGrows ==
    ASSUME Types, Types', Counting, [Next]_vars
    PROVE  /\ \A op : \A c \in TLSConn : Sent(op, c) \in Nat /\ SentAfter(op, c) \in Nat
                                     /\ Sent(op, c) <= SentAfter(op, c)
           /\ \A c \in TLSConn : responses'[c] <= requests'[c]
  <1>t. /\ requests \in [TLSConn -> 0..MaxExchanges] /\ responses \in [TLSConn -> 0..MaxExchanges]
        /\ requests' \in [TLSConn -> 0..MaxExchanges] /\ responses' \in [TLSConn -> 0..MaxExchanges]
        /\ MaxExchanges \in Nat /\ \A c \in TLSConn : responses[c] <= requests[c]
    BY Constants DEF Constants, Types, ProcessTypes, Counting
  <1>1. ASSUME \/ UNCHANGED <<requests, responses>>
               \/ \E c \in TLSConn : /\ requests' = [requests EXCEPT ![c] = @ + 1]
                                     /\ responses' = responses
               \/ \E c \in TLSConn : /\ responses' = [responses EXCEPT ![c] = @ + 1]
                                     /\ requests' = requests /\ responses[c] < requests[c]
        PROVE  \A c \in TLSConn : /\ requests[c] <= requests'[c] /\ responses[c] <= responses'[c]
                                  /\ responses'[c] <= requests'[c]
    BY <1>t, <1>1
  <1>2. CASE \E c \in TLSConn, e \in SSLEvent : Emits(c, e)
    <2>1. PICK c \in TLSConn, e \in SSLEvent : Emits(c, e)
      BY <1>2
    <2>2. \/ UNCHANGED <<requests, responses>>
          \/ requests' = [requests EXCEPT ![c] = @ + 1] /\ responses' = responses
          \/ /\ responses' = [responses EXCEPT ![c] = @ + 1]
             /\ requests' = requests /\ responses[c] < requests[c]
      BY <2>1, EventTypes DEF Emits
    <2>3. \A d \in TLSConn : /\ requests[d] <= requests'[d] /\ responses[d] <= responses'[d]
                              /\ responses'[d] <= requests'[d]
      BY <1>1, <2>2
    <2> QED
      BY <1>t, <2>3 DEF Sent, SentAfter
  <1>3. CASE Idle
    BY <1>t, <1>1, <1>3 DEF Idle, Unseen, Sent, SentAfter
  <1>4. CASE UNCHANGED <<requests, responses>>
    BY <1>t, <1>1, <1>4 DEF Sent, SentAfter
  <1> QED
    BY <1>2, <1>3, <1>4, StepKinds DEF Joins, Handles, process

(* The log only grows.                                                      *)
LEMMA LogStays ==
    ASSUME Types, Types', PairerInv, PairerInv', Recorded, [Next]_vars
    PROVE  /\ Len(log) \in Nat /\ Len(log') \in Nat /\ Len(log) <= Len(log')
           /\ \A n \in 1..Len(log) :
                 /\ log'[n] = log[n] /\ P!Conn(n)' = P!Conn(n) /\ OpOf(n)' = OpOf(n)
                 /\ exchange'[n] = exchange[n] /\ ConnOf(n)' = ConnOf(n)
           /\ HandleMessage \/ UNCHANGED <<log, exchange>>
  <1>0. Len(log) \in Nat
    BY LogTypes
  <1>1. CASE UNCHANGED <<log, exchange>>
    BY <1>0, <1>1 DEF ConnOf, P!Conn, OpOf
  <1>2. CASE HandleMessage
    BY <1>0, <1>2, ArrivalEffect DEF OpOf
  <1>3. HandleMessage \/ UNCHANGED <<log, exchange>>
    BY StepKinds, FreeEffect DEF Joins, Emits, Idle, Handles, pairer
  <1> QED
    BY <1>1, <1>2, <1>3

LEMMA CountingStep ==
    Types /\ Types' /\ PairerInv /\ PairerInv' /\ Recorded /\ Recorded' /\ Counting
        /\ [Next]_vars => Counting'
  <1> SUFFICES ASSUME Types, Types', PairerInv, PairerInv', Recorded, Recorded', Counting,
                      [Next]_vars
               PROVE  Counting'
    OBVIOUS
  <1>q. /\ Len(Queue) \in Nat /\ Len(log) \in Nat
        /\ \A i \in 1..Len(Queue) : /\ Queue[i] \in SSLEvent /\ Queue[i].no \in Nat
                                    /\ Queue[i].conn \in TLSConn
        /\ \A m \in 1..Len(log) : ConnOf(m) \in TLSConn
    BY QueueFacts, EventTypes, LogTypes, Constants DEF QueueShape, Constants, Recorded
  <1>s. /\ \A op : \A c \in TLSConn : Sent(op, c) \in Nat /\ SentAfter(op, c) \in Nat
                                  /\ Sent(op, c) <= SentAfter(op, c)
        /\ \A c \in TLSConn : responses'[c] <= requests'[c]
    BY SentGrows
  <1>l. /\ Len(log) <= Len(log') /\ Len(log') \in Nat
        /\ \A n \in 1..Len(log) : /\ OpOf(n)' = OpOf(n) /\ exchange'[n] = exchange[n]
                                  /\ ConnOf(n)' = ConnOf(n)
    BY LogStays
  <1>r. repeated \subseteq repeated'
    BY RacedGrows
  <1>m. ASSUME NEW m \in 1..Len(log)
        PROVE  exchange'[m][2] \in 1..SentAfter(OpOf(m)', ConnOf(m)')
    BY <1>q, <1>s, <1>l DEF Counting
  <1>1. ASSUME SameQueue, UNCHANGED <<log, exchange>> PROVE Counting'
    <2>1. /\ Len(Queue') = Len(Queue) /\ \A i \in 1..Len(Queue) : Queue'[i] = Queue[i]
          /\ Len(log') = Len(log)
      BY <1>1 DEF SameQueue
    <2>2. \A i \in 1..Len(Queue') : Queue'[i].op # "free" =>
             Queue'[i].no \in 1..SentAfter(Queue'[i].op, Queue'[i].conn)
      BY <1>q, <1>s, <2>1 DEF Counting
    <2> QED
      BY <1>q, <1>s, <1>l, <1>r, <1>m, <2>1, <2>2 DEF Counting, Ordered, Sent, SentAfter
  <1>2. CASE \E c \in TLSConn, p \in SSLPtr, f \in Fd : Joins(c, p, f)
    BY <1>1, <1>2 DEF Joins, Recorded, pairer
  <1>3. CASE Idle
    BY <1>1, <1>3 DEF Idle, Recorded, pairer
  <1>4. ASSUME NEW c \in TLSConn, NEW e \in SSLEvent, Emits(c, e) PROVE Counting'
    <2>1. /\ e.conn = c /\ UNCHANGED <<log, exchange>> /\ (Grown(e) \/ SameQueue)
          /\ e.op \in {"write", "read", "free"} /\ e.no \in Nat
      BY <1>4, EventTypes, Constants DEF Constants, Emits, Recorded, pairer
    <2>2. e.op # "free" => e.no \in 1..SentAfter(e.op, c)
      <3>1. /\ requests[c] \in Nat /\ responses[c] \in Nat /\ requests'[c] \in Nat
            /\ requests \in [TLSConn -> 0..MaxExchanges] /\ responses \in [TLSConn -> 0..MaxExchanges]
        BY Constants DEF Constants, Types, ProcessTypes
      <3>2. CASE e.op = "write"
        BY <1>4, <3>1, <3>2 DEF Emits, Sent, SentAfter
      <3>3. CASE e.op = "read"
        BY <1>4, <3>1, <3>3 DEF Emits, Sent, SentAfter
      <3> QED
        BY <2>1, <3>2, <3>3
    <2>3. /\ e.op # "free" /\ c \notin repeated' => e.no = Sent(e.op, c) + 1
          /\ e.op = "write" /\ c \notin repeated' => e.no = requests[c] + 1
      BY <1>4, <2>1 DEF Emits, Sent
    <2>4. CASE SameQueue
      BY <1>1, <2>1, <2>4
    <2>5. CASE Grown(e)
      <3>1. /\ \A i \in 1..Len(Queue) : Queue'[i] = Queue[i]
            /\ \A i \in 1..Len(Queue') : i \in 1..Len(Queue) \/ (i = Len(Queue) + 1 /\ Queue'[i] = e)
            /\ Len(log') = Len(log)
        BY <1>q, <2>1, <2>5 DEF Grown
      <3>2. ASSUME NEW i \in 1..Len(Queue'), Queue'[i].op # "free"
            PROVE  Queue'[i].no \in 1..SentAfter(Queue'[i].op, Queue'[i].conn)
        <4>1. CASE i \in 1..Len(Queue)
          BY <1>q, <1>s, <3>1, <3>2, <4>1 DEF Counting
        <4>2. CASE Queue'[i] = e
          BY <2>1, <2>2, <3>2, <4>2
        <4> QED
          BY <3>1, <4>1, <4>2
      <3>3. ASSUME NEW i \in 1..Len(Queue'), NEW j \in 1..Len(Queue'), i < j,
                   Queue'[i].op # "free", Queue'[j].op # "free",
                   Queue'[i].conn = Queue'[j].conn, Queue'[i].conn \notin repeated'
            PROVE  Ordered(Queue'[i], Queue'[j])
        <4>1. i \in 1..Len(Queue) /\ Queue'[i] = Queue[i]
          BY <1>q, <2>5, <3>1, <3>3 DEF Grown
        <4>2. CASE j \in 1..Len(Queue)
          BY <1>r, <3>1, <3>3, <4>1, <4>2 DEF Counting
        <4>3. CASE Queue'[j] = e
          <5>1. Queue[i].no <= Sent(Queue[i].op, c) /\ Queue[i].op \in {"write", "read"}
            BY <1>q, <2>1, <3>3, <4>1, <4>3, EventTypes DEF Counting
          <5>2. responses[c] <= requests[c] /\ responses[c] \in Nat /\ requests[c] \in Nat
            BY Constants DEF Constants, Counting, Types, ProcessTypes
          <5>3. Queue[i].no <= requests[c] /\ Queue[i].no \in Nat
            BY <1>q, <4>1, <5>1, <5>2 DEF Sent
          <5>4. CASE e.op = "write"
            BY <2>1, <2>3, <3>3, <4>1, <4>3, <5>2, <5>3, <5>4 DEF Ordered
          <5>5. CASE e.op # "write" /\ Queue[i].op = e.op
            <6>1. e.no = Sent(e.op, c) + 1 /\ Sent(e.op, c) \in Nat
              BY <1>s, <2>1, <2>3, <3>3, <4>1, <4>3
            <6> QED
              BY <4>1, <4>3, <5>1, <5>3, <5>5, <6>1 DEF Ordered
          <5> QED
            BY <4>1, <4>3, <5>4, <5>5 DEF Ordered
        <4> QED
          BY <3>1, <4>2, <4>3
      <3>4. ASSUME NEW m \in 1..Len(log), NEW j \in 1..Len(Queue'),
                   Queue'[j].op = OpOf(m), Queue'[j].conn = ConnOf(m), ConnOf(m) \notin repeated'
            PROVE  exchange[m][2] < Queue'[j].no
        <4>1. CASE j \in 1..Len(Queue)
          BY <1>r, <3>1, <3>4, <4>1 DEF Counting
        <4>2. CASE Queue'[j] = e
          <5>1. e.no = Sent(e.op, c) + 1
            BY <2>1, <2>3, <3>4, <4>2 DEF OpOf
          <5>2. exchange[m][2] \in 1..Sent(e.op, c) /\ Sent(e.op, c) \in Nat
            BY <1>s, <2>1, <3>4, <4>2 DEF Counting
          <5> QED
            BY <4>2, <5>1, <5>2
        <4> QED
          BY <3>1, <4>1, <4>2
      <3> QED
        BY <1>s, <1>l, <1>m, <2>1, <3>1, <3>2, <3>3, <3>4 DEF Counting, Ordered, Sent, SentAfter
    <2> QED
      BY <2>1, <2>4, <2>5
  <1>5. CASE Handles
    <2>1. /\ Queue[1] = hand.e /\ hand # None /\ Len(Queue') = Len(Queue) - 1 /\ Len(Queue) > 0
          /\ UNCHANGED <<requests, responses, repeated>>
      BY <1>5 DEF Handles, Shrunk, process
    <2>2. \A i \in 1..Len(Queue') : /\ i + 1 \in 1..Len(Queue) /\ Queue'[i] = Queue[i + 1]
                                    /\ 1 < i + 1
      BY <1>5, <1>q, <2>1 DEF Handles, Shrunk
    <2>3. ASSUME NEW i \in 1..Len(Queue'), Queue'[i].op # "free"
          PROVE  Queue'[i].no \in 1..SentAfter(Queue'[i].op, Queue'[i].conn)
      BY <1>q, <1>s, <2>2, <2>3 DEF Counting
    <2>4. ASSUME NEW i \in 1..Len(Queue'), NEW j \in 1..Len(Queue'), i < j,
                 Queue'[i].op # "free", Queue'[j].op # "free",
                 Queue'[i].conn = Queue'[j].conn, Queue'[i].conn \notin repeated'
          PROVE  Ordered(Queue'[i], Queue'[j])
      <3>1. i + 1 < j + 1
        BY <1>q, <2>1, <2>4
      <3> QED
        BY <2>1, <2>2, <2>4, <3>1 DEF Counting
    <2>5. ASSUME NEW m \in 1..Len(log), NEW j \in 1..Len(Queue'),
                 Queue'[j].op = OpOf(m), Queue'[j].conn = ConnOf(m), ConnOf(m) \notin repeated'
          PROVE  exchange[m][2] < Queue'[j].no
      BY <2>1, <2>2, <2>5 DEF Counting
    <2>6. CASE UNCHANGED <<log, exchange>>
      BY <1>s, <1>l, <1>m, <2>3, <2>4, <2>5, <2>6 DEF Counting, Ordered, Sent, SentAfter
    <2>7. CASE HandleMessage
      <3>1. /\ Len(log') = Len(log) + 1 /\ hand.e.op \in {"write", "read"}
            /\ \A m : m = Len(log) + 1 =>
                  /\ exchange'[m][2] = hand.e.no
                  /\ ConnOf(m)' = hand.e.conn /\ OpOf(m)' = hand.e.op
        <4>1. hand.e.op \in {"write", "read"}
          BY <2>1, <2>7, <1>q, EventTypes DEF HandleMessage
        <4>2. \A m : m = Len(log) + 1 =>
                 /\ log'[m].isRequest = (hand.e.op = "write") /\ ConnOf(m)' = hand.e.conn
                 /\ exchange'[m] = <<hand.e.conn, hand.e.no>> /\ Len(log') = Len(log) + 1
          BY <2>7, ArrivalEffect
        <4>3. \A m : m = Len(log) + 1 => OpOf(m)' = hand.e.op
          BY <4>1, <4>2 DEF OpOf
        <4> QED
          BY <4>1, <4>2, <4>3
      <3> DEFINE N == Len(log) + 1
      <3>2. \A m \in 1..Len(log') : m \in 1..Len(log) \/ m = N
        BY <1>q, <3>1
      <3>3. ASSUME NEW m \in 1..Len(log')
            PROVE  exchange'[m][2] \in 1..SentAfter(OpOf(m)', ConnOf(m)')
        <4>1. CASE m = N
          <5>1. hand.e.no \in 1..Sent(hand.e.op, hand.e.conn) /\ hand.e.conn \in TLSConn
            BY <1>q, <2>1, <3>1 DEF Counting
          <5>2. hand.e.no \in 1..SentAfter(hand.e.op, hand.e.conn)
            BY <2>1, <5>1 DEF Sent, SentAfter
          <5>3. exchange'[m][2] = hand.e.no /\ OpOf(m)' = hand.e.op /\ ConnOf(m)' = hand.e.conn
            BY <3>1, <4>1
          <5> QED
            BY <5>2, <5>3
        <4> QED
          BY <1>m, <3>2, <4>1
      <3>4. ASSUME NEW m \in 1..Len(log'), NEW j \in 1..Len(Queue'),
                   Queue'[j].op = OpOf(m)', Queue'[j].conn = ConnOf(m)', ConnOf(m)' \notin repeated'
            PROVE  exchange'[m][2] < Queue'[j].no
        <4>1. CASE m \in 1..Len(log)
          BY <1>l, <2>5, <3>4, <4>1
        <4>2. CASE m = N
          <5>1. Queue'[j].op = hand.e.op /\ Queue'[j].conn = hand.e.conn /\ hand.e.conn \notin repeated'
            BY <3>1, <3>4, <4>2
          <5>2. exchange'[m][2] = hand.e.no
            BY <3>1, <4>2
          <5>3. 1 \in 1..Len(Queue) /\ j + 1 \in 1..Len(Queue) /\ 1 < j + 1
            BY <1>q, <2>1, <2>2
          <5>4. Ordered(Queue[1], Queue[j + 1])
            BY <2>1, <2>2, <3>1, <5>1, <5>3 DEF Counting
          <5> QED
            BY <2>1, <2>2, <5>1, <5>2, <5>4 DEF Ordered
        <4> QED
          BY <3>2, <4>1, <4>2
      <3> QED
        BY <1>s, <2>3, <2>4, <3>3, <3>4 DEF Counting, Ordered, Sent, SentAfter
    <2> QED
      BY <1>5, <2>6, <2>7, FreeEffect DEF Handles
  <1> QED
    BY <1>2, <1>3, <1>4, <1>5, StepKinds

LEMMA CountingInvariant == Spec => []Counting
  <1>1. Init => Counting
    BY DEF Init, P!Init, Counting, Queue
  <1> QED
    BY <1>1, TypesInvariant, PairerInvariant, RecordedInvariant, CountingStep, PTL DEF Spec

-----------------------------------------------------------------------------
(* What a life of a key holds, while nothing was dropped.  A life is clean  *)
(* when no message in it is of a connection that raced or repeated a write, *)
(* and no request in it timed out: then all messages are of one connection, *)
(* numbered like its exchanges, and none was lost.                          *)

Clean(k) ==
    \A m \in 1..Len(log) :
        P!Conn(m) = k => m \notin timedOut /\ ConnOf(m) \notin raced \cup repeated

(* The messages of a connection are of the life its key has now, until its  *)
(* SSL_free was handled.                                                    *)
CurrentLife ==
    "ringbuf" \notin drop_counters => \A n \in 1..Len(log) :
        ConnOf(n) \in Live \ raced => P!Conn(n).life = life[P!Conn(n).key]

OneConnection ==
    "ringbuf" \notin drop_counters => \A m, n \in 1..Len(log) :
        P!Conn(m) = P!Conn(n) /\ Clean(P!Conn(n)) => ConnOf(m) = ConnOf(n)

InStep ==
    drop_counters = {} => \A m \in 1..Len(log) :
        Clean(P!Conn(m)) => exchange[m][2] = log[m].pos

LossKnown ==
    drop_counters = {} => /\ \A n \in heldResponses : ~Clean(P!Conn(n))
                          /\ \A k \in lossy : ~Clean(k)

CleanLives == CurrentLife /\ OneConnection /\ InStep /\ LossKnown

(* What was given up stays so.                                              *)
LEMMA TimedOutGrows ==
    ASSUME Types, Types', [Next]_vars
    PROVE  timedOut \subseteq timedOut'
  <1>1. P!Push(Key) => timedOut' = timedOut
    BY DEF P!Push, P!PushRequestMatched, P!PushRequestPending, P!PushResponseMatched,
       P!PushResponseHeld, P!RecordRequest, P!RecordResponse
  <1>2. HandleMessage \/ HandleFree => timedOut' = timedOut
    BY <1>1 DEF HandleMessage, HandleFree, P!CloseKey, pairer
  <1> QED
    BY <1>2, PairerMoves DEF P!Expire, P!Sweep, pairer

(* A life that is clean was so before.                                      *)
LEMMA CleanBefore ==
    ASSUME Types, Types', PairerInv, PairerInv', Recorded, [Next]_vars, NEW k, Clean(k)'
    PROVE  Clean(k)
  <1>1. /\ raced \subseteq raced' /\ repeated \subseteq repeated'
        /\ Len(log) \in Nat /\ Len(log') \in Nat /\ Len(log) <= Len(log')
        /\ \A n \in 1..Len(log) : P!Conn(n)' = P!Conn(n) /\ ConnOf(n)' = ConnOf(n)
    BY RacedGrows, LogStays
  <1> SUFFICES ASSUME NEW m \in 1..Len(log), P!Conn(m) = k
               PROVE  m \notin timedOut /\ ConnOf(m) \notin raced \cup repeated
    BY DEF Clean
  <1>2. m \in 1..Len(log') /\ P!Conn(m)' = k /\ ConnOf(m)' = ConnOf(m)
    BY <1>1
  <1> QED
    BY <1>1, <1>2, TimedOutGrows DEF Clean

LEMMA CurrentLifeStep ==
    Types /\ Types' /\ PairerInv /\ PairerInv' /\ Recorded /\ Orderly /\ Owned /\ Handover
        /\ CurrentLife /\ [Next]_vars => CurrentLife'
  <1> SUFFICES ASSUME Types, Types', PairerInv, PairerInv', Recorded, Orderly, Owned, Handover,
                      CurrentLife, [Next]_vars, "ringbuf" \notin drop_counters',
                      NEW n \in 1..Len(log'), ConnOf(n)' \in Live' \ raced'
               PROVE  P!Conn(n)'.life = life'[P!Conn(n)'.key]
    BY DEF CurrentLife
  <1>0. /\ "ringbuf" \notin drop_counters /\ raced \subseteq raced'
        /\ Len(log) \in Nat /\ Len(log') \in Nat
        /\ \A m \in 1..Len(log) : P!Conn(m)' = P!Conn(m) /\ ConnOf(m)' = ConnOf(m)
    BY RacedGrows, LogStays DEF DropsGrow
  <1>1. ASSUME n \in 1..Len(log), ConnOf(n) \in Live, life' = life
        PROVE  P!Conn(n)'.life = life'[P!Conn(n)'.key]
    BY <1>0, <1>1 DEF CurrentLife
  <1>2. ASSUME NEW c \in TLSConn, NEW p \in SSLPtr, NEW f \in Fd, Joins(c, p, f)
        PROVE  P!Conn(n)'.life = life'[P!Conn(n)'.key]
    <2>1. /\ Live' = Live \cup {c} /\ phase[c] = "new" /\ UNCHANGED <<log, life>>
      BY <1>2, LiveSteps DEF Joins, pairer
    <2>2. n \in 1..Len(log) /\ ConnOf(n) # c
      BY <1>0, <2>1 DEF Orderly, Recorded
    <2> QED
      BY <1>0, <1>1, <2>1, <2>2
  <1>3. ASSUME NEW c \in TLSConn, NEW e \in SSLEvent, Emits(c, e)
        PROVE  P!Conn(n)'.life = life'[P!Conn(n)'.key]
    <2>1. Live' = Live /\ UNCHANGED <<log, life>>
      BY <1>3, LiveSteps DEF Emits, pairer
    <2> QED
      BY <1>0, <1>1, <2>1
  <1>4. CASE Idle
    <2>1. Live' = Live /\ UNCHANGED <<log, life>>
      BY <1>4, LiveSteps DEF Idle, pairer
    <2> QED
      BY <1>0, <1>1, <2>1
  <1>5. CASE HandleMessage
    <2>1. Live' = Live /\ life' = life /\ Len(log') = Len(log) + 1
      BY <1>5, LiveSteps, ArrivalEffect
    <2>2. CASE n \in 1..Len(log)
      BY <1>0, <1>1, <2>1, <2>2
    <2>3. CASE n = Len(log) + 1
      <3>1. P!Conn(n)' = P!ConnOf(Key)
        BY <1>5, <2>3, ArrivalEffect
      <3> QED
        BY <2>1, <3>1 DEF P!ConnOf
    <2> QED
      BY <1>0, <2>1, <2>2, <2>3
  <1>6. CASE Handles /\ HandleFree
    <2>1. /\ Live' = Live \ {hand.e.conn} /\ UNCHANGED log /\ hand # None /\ raced' = raced
          /\ life' = life \/ life' = [life EXCEPT ![Key] = @ + 1]
      BY <1>6, LiveSteps, FreeEffect DEF HandleFree, process, pairer
    <2>2. /\ n \in 1..Len(log) /\ ConnOf(n) \in Live \ raced /\ ConnOf(n) # hand.e.conn
          /\ P!Conn(n).key \in keys[ConnOf(n)]
      BY <1>0, <2>1 DEF Recorded
    <2>3. P!Conn(n).key # Key
      BY <1>0, <2>1, <2>2, SoleUser
    <2>4. life'[P!Conn(n).key] = life[P!Conn(n).key]
      <3>1. P!Conn(n).key \in P!pairKey /\ life \in [P!pairKey -> 0..MaxMsgs]
        BY <2>2, LogTypes, SamePairer DEF PairerInv, PP!TypeInv, PP!TypeOK
      <3> QED
        BY <2>1, <2>3, <3>1
    <2> QED
      BY <1>0, <2>2, <2>4 DEF CurrentLife
  <1> QED
    BY <1>2, <1>3, <1>4, <1>5, <1>6, StepKinds DEF Handles

(* A message that arrives in a clean life finds messages of its connection  *)
(* only in it.                                                              *)
LEMMA ArrivalIsAlone ==
    ASSUME Types, Types', PairerInv, PairerInv', Recorded, Orderly, Owned, Handover, Past,
           [Next]_vars, HandleMessage, "ringbuf" \notin drop_counters,
           NEW k, k = P!ConnOf(Key), Clean(k)'
    PROVE  /\ hand.e.conn \in Live \ (raced \cup repeated) /\ Clean(k)
           /\ \A m \in 1..Len(log) : P!Conn(m) = k => ConnOf(m) = hand.e.conn
  <1>0. /\ hand # None /\ hand.e.conn \in Live /\ UNCHANGED <<raced, repeated>>
        /\ Len(log) \in Nat /\ k = [key |-> Key, life |-> life[Key]]
    BY InHand, LogTypes DEF HandleMessage, process, P!ConnOf
  <1>1. hand.e.conn \notin raced \cup repeated
    <2>1. PICK N \in 1..Len(log') : N = Len(log) + 1
      BY <1>0, ArrivalEffect
    <2>2. P!Conn(N)' = k /\ ConnOf(N)' = hand.e.conn
      BY <2>1, ArrivalEffect
    <2> QED
      BY <1>0, <2>2 DEF Clean
  <1>2. Clean(k)
    BY CleanBefore
  <1>3. ASSUME NEW m \in 1..Len(log), P!Conn(m) = k PROVE ConnOf(m) = hand.e.conn
    <2>1. /\ P!Conn(m).key = Key /\ P!Conn(m).life = life[P!Conn(m).key]
          /\ P!Conn(m).life \in Nat
      BY <1>0, <1>3, LogTypes
    <2>2. ConnOf(m) \notin raced \cup repeated
      BY <1>2, <1>3 DEF Clean
    <2>3. ConnOf(m) \in TLSConn /\ Key \in keys[ConnOf(m)]
      BY <1>3, <2>1 DEF Recorded
    <2>4. ConnOf(m) \notin torn
      BY <2>1, <2>2 DEF Past
    <2>5. ConnOf(m) \in Live \ raced
      BY <2>2, <2>3, <2>4 DEF Live, Orderly
    <2> QED
      BY <1>0, <2>3, <2>5, SoleUser
  <1> QED
    BY <1>0, <1>1, <1>2, <1>3

(* A message of the connection in hand that was logged is of that life.     *)
LEMMA LoggedIsCurrent ==
    ASSUME Types, PairerInv, Recorded, Owned, CurrentLife, "ringbuf" \notin drop_counters,
           hand # None, NEW m \in 1..Len(log), ConnOf(m) = hand.e.conn,
           hand.e.conn \in Live \ raced
    PROVE  /\ P!Conn(m) = P!ConnOf(Key)
           /\ log[m].pos \in Nat \ {0} /\ log[m].pos <= PP!Counter(Key, log[m].isRequest)
  <1>1. P!Conn(m).key = Key
    <2>1. P!Conn(m).key \in keys[hand.e.conn] /\ hand.e.conn \in TLSConn
      BY DEF Recorded, Live
    <2>2. /\ keys[hand.e.conn] \subseteq {KeyAt(hand.e.conn, Entry(hand.e.conn))}
          /\ hand.fd = Entry(hand.e.conn)
      BY <2>1 DEF Owned, Keyed
    <2> QED
      BY <2>1, <2>2 DEF Key, KeyAt
  <1>2. P!Conn(m).life = life[Key]
    BY <1>1 DEF CurrentLife
  <1>3. P!Conn(m) = [key |-> P!Conn(m).key, life |-> P!Conn(m).life]
    <2>1. log[m] \in PP!Message
      BY DEF PairerInv, PP!TypeInv, PP!TypeOK
    <2> QED
      BY <2>1 DEF P!Conn, PP!Message, PP!Connection
  <1>4. P!Conn(m) = P!ConnOf(Key)
    BY <1>1, <1>2, <1>3 DEF P!ConnOf
  <1>5. PP!Current(m) /\ PP!NumberOf(m) = PP!Counter(Key, log[m].isRequest)
    BY <1>1, <1>4, SamePairer DEF PP!Current, PP!NumberOf
  <1> QED
    BY <1>4, <1>5 DEF PairerInv, PP!Numbered, PP!Last, PP!Pos

(* It is the exchange that is due: every earlier one of its direction was   *)
(* logged before it, and the request of a response.                         *)
LEMMA ArrivalInStep ==
    ASSUME Types, Types', PairerInv, PairerInv', Recorded, Orderly, Owned, Handover, Past, Kept,
           Counting, CurrentLife, InStep, [Next]_vars, HandleMessage, drop_counters = {},
           NEW k, k = P!ConnOf(Key), Clean(k)'
    PROVE  /\ hand.e.no = PP!Counter(Key, hand.e.op = "write") + 1
           /\ hand.e.op = "read" => hand.e.no <= reqs[Key]
  <1> DEFINE c == hand.e.conn
             n == hand.e.no
             isRequest == hand.e.op = "write"
             Count == PP!Counter(Key, isRequest)
  <1>0. /\ hand # None /\ c \in Live \ (raced \cup repeated) /\ c \in TLSConn /\ Clean(k)
        /\ hand.e.op \in {"write", "read"}
        /\ Len(Queue) \in Nat \ {0} /\ Queue[1] = hand.e /\ 1 \in 1..Len(Queue)
        /\ \A m \in 1..Len(log) : P!Conn(m) = k => ConnOf(m) = c
    BY ArrivalIsAlone, InHand, EventTypes DEF HandleMessage
  <1>1. /\ n \in 1..Sent(hand.e.op, c) /\ Sent("write", c) = requests[c]
        /\ Sent("read", c) = responses[c] /\ responses[c] <= requests[c]
        /\ requests[c] \in 0..MaxExchanges /\ responses[c] \in 0..MaxExchanges
        /\ MaxExchanges \in Nat
    BY <1>0, Constants DEF Constants, Counting, Sent, Types, ProcessTypes
  <1>2. /\ Count \in Nat /\ Key \in PP!pairKey /\ reqs[Key] \in Nat
        /\ reqs[Key] = PP!Counter(Key, TRUE)
    BY <1>0, KeyTypes, SamePairer, Constants
       DEF Constants, PairerInv, PP!TypeInv, PP!TypeOK, PP!Counter
  <1>3. ASSUME NEW op \in {"write", "read"}, NEW i \in 1..MaxExchanges, Logged(op, c, i)
        PROVE  i <= PP!Counter(Key, op = "write")
    <2>1. PICK m \in 1..Len(log) : log[m].isRequest = (op = "write") /\ exchange[m] = <<c, i>>
      BY <1>3 DEF Logged
    <2>2. ConnOf(m) = c /\ exchange[m][2] = i
      BY <2>1 DEF ConnOf
    <2>3. /\ P!Conn(m) = P!ConnOf(Key)
          /\ log[m].pos <= PP!Counter(Key, log[m].isRequest)
      BY <1>0, <2>2, LoggedIsCurrent
    <2>4. log[m].pos = i
      BY <1>0, <2>2, <2>3 DEF InStep
    <2> QED
      BY <2>1, <2>3, <2>4
  <1>4. n - 1 <= Count
    <2>1. CASE n = 1
      BY <1>2, <2>1
    <2>2. CASE n # 1
      <3>1. n - 1 \in 1..MaxExchanges /\ n - 1 <= Sent(hand.e.op, c)
        BY <1>0, <1>1, <2>2
      <3>2. InQueue(hand.e.op, c, n - 1) \/ Logged(hand.e.op, c, n - 1)
        BY <1>0, <1>1, <3>1 DEF Kept
      <3>3. ~InQueue(hand.e.op, c, n - 1)
        <4> SUFFICES ASSUME NEW j \in 1..Len(Queue), IsEvent(Queue[j], hand.e.op, c, n - 1)
                     PROVE  FALSE
          BY DEF InQueue
        <4>1. j # 1 /\ 1 < j
          BY <1>0, <1>1 DEF IsEvent
        <4>2. Ordered(Queue[1], Queue[j])
          BY <1>0, <4>1 DEF Counting, IsEvent
        <4> QED
          BY <1>0, <1>1, <4>2 DEF Ordered, IsEvent
      <3> QED
        BY <1>0, <1>3, <3>1, <3>2, <3>3
    <2> QED
      BY <2>1, <2>2
  <1>5. Count <= n - 1
    <2>1. CASE Count = 0
      BY <1>1, <2>1
    <2>2. CASE Count # 0
      <3>1. PICK m \in 1..Len(log) : /\ PP!Conn(m) = PP!ConnOf(Key)
                                     /\ log[m].isRequest = isRequest /\ PP!Pos(m) = Count
        <4>1. PP!Counter(Key, isRequest) > 0 /\ isRequest \in BOOLEAN
          BY <1>2, <2>2
        <4>2. \A d \in BOOLEAN : PP!Counter(Key, d) > 0 =>
                 \E m \in 1..Len(log) : /\ PP!Conn(m) = PP!ConnOf(Key)
                                        /\ log[m].isRequest = d /\ PP!Pos(m) = PP!Counter(Key, d)
          BY <1>2 DEF PairerInv, PP!Numbered, PP!Last
        <4> QED
          BY <4>1, <4>2, Zenon
      <3>2. P!Conn(m) = k /\ ConnOf(m) = c
        BY <1>0, <3>1, SamePairer
      <3>3. exchange[m][2] = Count
        BY <1>0, <3>1, <3>2 DEF InStep, PP!Pos
      <3>4. OpOf(m) = hand.e.op
        BY <1>0, <3>1 DEF OpOf
      <3>5. exchange[m][2] < Queue[1].no
        BY <1>0, <3>2, <3>4 DEF Counting
      <3> QED
        BY <1>0, <1>1, <1>2, <3>3, <3>5
    <2> QED
      BY <2>1, <2>2
  <1>6. ASSUME hand.e.op = "read" PROVE n <= reqs[Key]
    <2>1. n \in 1..MaxExchanges /\ n <= requests[c]
      BY <1>1, <1>6
    <2>2. InQueue("write", c, n) \/ Logged("write", c, n)
      BY <1>0, <2>1 DEF Kept
    <2>3. ~InQueue("write", c, n)
      <3> SUFFICES ASSUME NEW j \in 1..Len(Queue), IsEvent(Queue[j], "write", c, n)
                   PROVE  FALSE
        BY DEF InQueue
      <3>1. j # 1 /\ 1 < j
        BY <1>0, <1>6 DEF IsEvent
      <3>2. Ordered(Queue[1], Queue[j])
        BY <1>0, <1>6, <3>1 DEF Counting, IsEvent
      <3> QED
        BY <1>0, <1>1, <3>2 DEF Ordered, IsEvent
    <2>4. n <= PP!Counter(Key, TRUE)
      BY <1>3, <2>1, <2>2, <2>3
    <2> QED
      BY <1>2, <2>4
  <1> QED
    <2>1. n \in Nat
      BY <1>1 DEF Sent
    <2>2. n = Count + 1
      BY <1>2, <1>4, <1>5, <2>1
    <2> QED
      BY <1>6, <2>2

LEMMA OneConnectionStep ==
    Types /\ Types' /\ PairerInv /\ PairerInv' /\ Recorded /\ Orderly /\ Owned /\ Handover
        /\ Past /\ OneConnection /\ [Next]_vars => OneConnection'
  <1> SUFFICES ASSUME Types, Types', PairerInv, PairerInv', Recorded, Orderly, Owned, Handover,
                      Past, OneConnection, [Next]_vars, "ringbuf" \notin drop_counters',
                      NEW m \in 1..Len(log'), NEW n \in 1..Len(log'), NEW k,
                      P!Conn(m)' = k, P!Conn(n)' = k, Clean(k)'
               PROVE  ConnOf(m)' = ConnOf(n)'
    BY DEF OneConnection, Clean
  <1>0. /\ "ringbuf" \notin drop_counters /\ Len(log) \in Nat /\ Len(log') \in Nat
        /\ \A i \in 1..Len(log) : P!Conn(i)' = P!Conn(i) /\ ConnOf(i)' = ConnOf(i)
        /\ HandleMessage \/ UNCHANGED log
    BY RacedGrows, LogStays DEF DropsGrow
  <1>1. CASE m \in 1..Len(log) /\ n \in 1..Len(log)
    <2>1. Clean(k)
      BY CleanBefore
    <2> QED
      BY <1>0, <1>1, <2>1 DEF OneConnection
  <1>2. CASE HandleMessage /\ ~(m \in 1..Len(log) /\ n \in 1..Len(log))
    <2>1. \A i \in 1..Len(log') : i \in 1..Len(log) \/ i = Len(log) + 1
      BY <1>0, <1>2, ArrivalEffect
    <2>2. \A i : i = Len(log) + 1 => P!Conn(i)' = P!ConnOf(Key) /\ ConnOf(i)' = hand.e.conn
      BY <1>2, ArrivalEffect
    <2>3. k = P!ConnOf(Key)
      BY <1>2, <2>1, <2>2
    <2>4. \A i \in 1..Len(log) : P!Conn(i) = k => ConnOf(i) = hand.e.conn
      BY <1>0, <1>2, <2>3, ArrivalIsAlone
    <2>5. \A i \in 1..Len(log') : P!Conn(i)' = k => ConnOf(i)' = hand.e.conn
      BY <1>0, <2>1, <2>2, <2>4
    <2> QED
      BY <2>5
  <1> QED
    BY <1>0, <1>1, <1>2

LEMMA InStepStep ==
    Types /\ Types' /\ PairerInv /\ PairerInv' /\ Recorded /\ Orderly /\ Owned /\ Handover
        /\ Past /\ Kept /\ Counting /\ CurrentLife /\ InStep /\ [Next]_vars => InStep'
  <1> SUFFICES ASSUME Types, Types', PairerInv, PairerInv', Recorded, Orderly, Owned, Handover,
                      Past, Kept, Counting, CurrentLife, InStep, [Next]_vars, drop_counters' = {},
                      NEW m \in 1..Len(log'), NEW k, P!Conn(m)' = k, Clean(k)'
               PROVE  exchange'[m][2] = log'[m].pos
    BY DEF InStep, Clean
  <1>0. /\ drop_counters = {} /\ Len(log) \in Nat /\ Len(log') \in Nat
        /\ \A i \in 1..Len(log) : /\ P!Conn(i)' = P!Conn(i) /\ exchange'[i] = exchange[i]
                                  /\ log'[i] = log[i]
        /\ HandleMessage \/ UNCHANGED log
    BY RacedGrows, LogStays DEF DropsGrow
  <1>1. CASE m \in 1..Len(log)
    <2>1. Clean(k)
      BY CleanBefore
    <2> QED
      BY <1>0, <1>1, <2>1 DEF InStep
  <1>2. CASE HandleMessage /\ m \notin 1..Len(log)
    <2>1. m = Len(log) + 1
      BY <1>0, <1>2, ArrivalEffect
    <2>2. /\ k = P!ConnOf(Key) /\ exchange'[m][2] = hand.e.no
          /\ log'[m].isRequest = (hand.e.op = "write")
      BY <1>2, <2>1, ArrivalEffect
    <2>3. hand.e.no = PP!Counter(Key, hand.e.op = "write") + 1
      BY <1>0, <1>2, <2>2, ArrivalInStep
    <2>4. log'[m].pos = PP!Counter(Key, hand.e.op = "write") + 1
      <3>1. PP!Push(Key) /\ Key \in PP!pairKey /\ PP!KeyOf(Key) = Key
        BY <1>2, KeyTypes, SamePairer
           DEF HandleMessage, P!KeyOf, PP!KeyOf, P!keyFor, PP!keyFor
      <3>2. PP!ConstantsAssumption /\ PP!TypeInv
        BY Constants DEF Constants, PP!ConstantsAssumption, PairerInv
      <3>3. CASE PP!RecordRequest(Key)
        <4>1. /\ log'[m].isRequest = TRUE /\ PP!Pos(m)' = PP!Counter(Key, TRUE) + 1
          <5>1. IF TRUE THEN PP!RecordRequest(Key) ELSE PP!RecordResponse(Key)
            BY <3>3
          <5> QED
            BY <2>1, <3>1, <3>2, <5>1, PP!NumberFacts DEF PP!Last
        <4>2. (hand.e.op = "write") = TRUE
          BY <2>2, <4>1
        <4> QED
          BY <4>1, <4>2 DEF PP!Pos, PP!Counter
      <3>4. CASE PP!RecordResponse(Key)
        <4>1. /\ log'[m].isRequest = FALSE /\ PP!Pos(m)' = PP!Counter(Key, FALSE) + 1
          <5>1. IF FALSE THEN PP!RecordRequest(Key) ELSE PP!RecordResponse(Key)
            BY <3>4
          <5> QED
            BY <2>1, <3>1, <3>2, <5>1, PP!NumberFacts DEF PP!Last
        <4>2. (hand.e.op = "write") = FALSE
          BY <2>2, <4>1
        <4> QED
          BY <4>1, <4>2 DEF PP!Pos, PP!Counter
      <3> QED
        BY <3>1, <3>3, <3>4 DEF PP!Push, PP!PushRequestMatched, PP!PushRequestPending,
           PP!PushResponseMatched, PP!PushResponseHeld
    <2> QED
      BY <2>2, <2>3, <2>4
  <1> QED
    BY <1>0, <1>1, <1>2

(* A response is held only in a life that is not clean: in a clean one its  *)
(* request was logged before it, and as nothing was lost the request still  *)
(* waits.                                                                   *)
LEMMA LossKnownStep ==
    Types /\ Types' /\ PairerInv /\ PairerInv' /\ Recorded /\ Orderly /\ Owned /\ Handover
        /\ Past /\ Kept /\ Counting /\ CurrentLife /\ InStep /\ LossKnown /\ [Next]_vars
        => LossKnown'
  <1> SUFFICES ASSUME Types, Types', PairerInv, PairerInv', Recorded, Orderly, Owned, Handover,
                      Past, Kept, Counting, CurrentLife, InStep, LossKnown, [Next]_vars,
                      drop_counters' = {}, NEW k, Clean(k)'
               PROVE  k \notin lossy' /\ \A n \in heldResponses' : P!Conn(n)' # k
    BY DEF LossKnown, Clean
  <1>0. /\ drop_counters = {} /\ Len(log) \in Nat /\ Len(log') \in Nat /\ Clean(k)
        /\ \A i \in 1..Len(log) : P!Conn(i)' = P!Conn(i)
        /\ heldResponses \subseteq 1..Len(log)
    BY RacedGrows, LogStays, CleanBefore
       DEF DropsGrow, PairerInv, PP!TypeInv, PP!TypeOK, PP!Last
  <1>1. k \notin lossy /\ \A n \in heldResponses : P!Conn(n) # k /\ P!Conn(n)' # k
    BY <1>0 DEF LossKnown
  <1>2. CASE HandleMessage
    <2>1. /\ P!Push(Key) /\ P!KeyOf(Key) = Key /\ Key \in P!pairKey /\ hand # None
          /\ hand.e.op \in {"write", "read"}
      <3>1. hand # None /\ hand.e.op # "free" /\ hand.e \in SSLEvent
        BY <1>2, InHand DEF HandleMessage
      <3> QED
        BY <1>2, <3>1, KeyTypes, EventTypes DEF HandleMessage
    <2>2. k \notin lossy'
      BY <1>1, <1>2, ArrivalEffect
    <2>3. ASSUME NEW n \in heldResponses', n \notin heldResponses, P!Conn(n)' = k PROVE FALSE
      <3>1. P!PushResponseHeld(Key) /\ n = Len(log) + 1
        BY <2>1, <2>3 DEF P!Push, P!PushRequestMatched, P!PushRequestPending,
           P!PushResponseMatched, P!PushResponseHeld, P!holdResponse, P!Last
      <3>2. /\ P!Of(Key, pending) = {}
            /\ log' = Append(log, [isRequest |-> FALSE, conn |-> P!ConnOf(Key), pos |-> ress[Key] + 1])
        BY <3>1 DEF P!PushResponseHeld, P!RecordResponse
      <3>3. k = P!ConnOf(Key) /\ log'[n].isRequest = (hand.e.op = "write")
        BY <1>2, <2>3, <3>1, ArrivalEffect
      <3>4. log'[n].isRequest = FALSE
        <4>1. log \in Seq(PP!Message)
          BY DEF PairerInv, PP!TypeInv, PP!TypeOK
        <4> QED
          BY <3>1, <3>2, <4>1
      <3>5. hand.e.op = "read"
        BY <2>1, <3>3, <3>4
      <3>6. hand.e.no = PP!Counter(Key, FALSE) + 1 /\ hand.e.no <= reqs[Key]
        <4>1. (hand.e.op = "write") = FALSE
          BY <3>5
        <4>2. /\ hand.e.no = PP!Counter(Key, hand.e.op = "write") + 1
              /\ hand.e.op = "read" => hand.e.no <= reqs[Key]
          BY <1>0, <1>2, <3>3, ArrivalInStep
        <4> QED
          BY <3>5, <4>1, <4>2
      <3>7. PP!Aligned(Key)
        BY <1>1, <2>1, <3>3, SamePairer DEF PairerInv, PP!AllAligned
      <3>8. ress[Key] \in Nat /\ reqs[Key] \in Nat
        BY <2>1, SamePairer, Constants DEF Constants, PairerInv, PP!TypeInv, PP!TypeOK
      <3>9. hand.e.no \in Nat /\ ress[Key] < hand.e.no /\ hand.e.no <= reqs[Key]
        BY <3>6, <3>8 DEF PP!Counter
      <3>10. \E r \in pending : PP!Conn(r).key = Key
        BY <3>7, <3>9 DEF PP!Aligned
      <3> QED
        BY <3>2, <3>10, SamePairer DEF P!Of
    <2> QED
      BY <1>1, <2>2, <2>3
  <1>3. CASE HandleFree
    <2>1. heldResponses' \subseteq heldResponses /\ lossy' = lossy
      BY <1>3 DEF HandleFree, P!CloseKey, pairer
    <2> QED
      BY <1>1, <2>1
  <1>4. CASE UNCHANGED pairer
    BY <1>1, <1>4 DEF pairer
  <1>5. CASE P!Expire
    BY <1>1, <1>5 DEF P!Expire
  <1>6. CASE P!Sweep
    <2>1. /\ heldResponses' = heldResponses /\ timedOut' = timedOut \cup overdue
          /\ lossy' = lossy \cup {P!Conn(n) : n \in overdue}
      BY <1>6 DEF P!Sweep
    <2>2. overdue \subseteq 1..Len(log)
      BY DEF PairerInv, PP!TypeInv, PP!TypeOK, PP!Last
    <2>3. ASSUME NEW n \in overdue PROVE P!Conn(n) # k
      <3>1. n \in 1..Len(log') /\ P!Conn(n)' = P!Conn(n) /\ n \in timedOut'
        BY <1>0, <2>1, <2>2, LogStays
      <3> QED
        BY <3>1 DEF Clean
    <2> QED
      BY <1>1, <2>1, <2>3
  <1> QED
    BY <1>2, <1>3, <1>4, <1>5, <1>6, PairerMoves

LEMMA CleanLivesInvariant == Spec => []CleanLives
  <1>1. Init => CleanLives /\ Stashed /\ Kept
    <2>1. Init => \A c \in TLSConn, n \in 1..MaxExchanges : ~(n <= requests[c]) /\ ~(n <= responses[c])
      BY DEF Init
    <2>2. Init => Len(log) = 0 /\ heldResponses = {} /\ lossy = {}
      BY DEF Init, P!Init
    <2>3. Init => CleanLives
      BY <2>2 DEF CleanLives, CurrentLife, OneConnection, InStep, LossKnown
    <2> QED
      BY <2>1, <2>3 DEF Init, Stashed, Kept
  <1>2. Spec => [](Stashed /\ Kept)
    BY <1>1, TypesInvariant, PairerInvariant, RecordedInvariant, StashedStep, KeptStep, PTL DEF Spec
  <1>3. CleanLives <=> CurrentLife /\ OneConnection /\ InStep /\ LossKnown
    BY DEF CleanLives
  <1> QED
    BY <1>1, <1>2, <1>3, TypesInvariant, PairerInvariant, RecordedInvariant, OrderlyInvariant,
       OwnedInvariant, HandoverInvariant, PastInvariant, CountingInvariant, CurrentLifeStep,
       OneConnectionStep, InStepStep, LossKnownStep, PTL DEF Spec

(* A pair joins a request and a response of one exchange of one connection, *)
(* though the descriptor of an event is looked up when it is handled, and   *)
(* addresses and descriptors go from one connection to the next; the        *)
(* sweeper spoils no more than the life of the key it gave a request up in. *)
THEOREM RightExchangeHolds == Spec => []RightExchange
  <1>1. Types /\ PairerInv /\ Recorded /\ CleanLives => RightExchange
    <2> SUFFICES ASSUME Types, PairerInv, Recorded, CleanLives, NEW p \in paired,
                        drop_counters = {},
                        \A m \in 1..Len(log) : P!Conn(m) = P!Conn(p[1]) =>
                            m \notin timedOut /\ ConnOf(m) \notin raced \cup repeated
                 PROVE  exchange[p[1]] = exchange[p[2]]
      BY DEF RightExchange
    <2>1. p[1] \in 1..Len(log) /\ p[2] \in 1..Len(log)
      <3>1. paired \subseteq (1..Len(log)) \X (1..Len(log))
        BY DEF PairerInv, PP!TypeInv, PP!TypeOK, PP!Last
      <3> QED
        BY <3>1
    <2>2. P!Conn(p[1]) = P!Conn(p[2])
      BY SamePairer DEF PairerInv, PP!SameConnection
    <2>3. Clean(P!Conn(p[1]))
      BY DEF Clean
    <2>4. ConnOf(p[1]) = ConnOf(p[2])
      BY <2>1, <2>2, <2>3 DEF CleanLives, OneConnection
    <2>5. P!Conn(p[1]) \notin lossy
      BY <2>3 DEF CleanLives, LossKnown
    <2>6. log[p[1]].pos = log[p[2]].pos
      BY <2>5, SamePairer DEF PairerInv, PP!PairedByPosition
    <2>7. exchange[p[1]][2] = exchange[p[2]][2]
      BY <2>1, <2>2, <2>3, <2>6 DEF CleanLives, InStep
    <2>8. /\ exchange[p[1]] \in TLSConn \X (0..MaxExchanges)
          /\ exchange[p[2]] \in TLSConn \X (0..MaxExchanges)
      BY <2>1 DEF Recorded, Types, ReaderTypes
    <2> QED
      BY <2>4, <2>7, <2>8 DEF ConnOf
  <1> QED
    BY <1>1, TypesInvariant, PairerInvariant, RecordedInvariant, CleanLivesInvariant, PTL
=============================================================================
