------------------------------ MODULE Exchanges ------------------------------
(***************************************************************************)
(* What the HTTP pairer promises to whoever reads its events, said without  *)
(* queues, keys or clocks.  A message belongs to a connection and is known  *)
(* by the number of its arrival.  A request is open until exactly one       *)
(* event reports it: answered by a response of its own connection, closed   *)
(* with the connection, or given up after a timeout.  On one connection     *)
(* requests are answered in the order in which they came, by responses in   *)
(* the order in which those came, and nothing is reported for a connection  *)
(* after it was closed.  Pairer.tla implements this contract.               *)
(***************************************************************************)
EXTENDS Naturals, Sequences

CONSTANT Message        \* records with at least the fields isRequest and conn

VARIABLES
    log,                \* every message, in the order of arrival
    open,               \* requests no event has reported
    answered,           \* pairs <<request, response>>
    closed,             \* requests abandoned because the connection closed
    givenUp,            \* requests abandoned by the timeout
    dead                \* connections that were closed

vars == <<log, open, answered, closed, givenUp, dead>>

Conn(n) == log[n].conn

OpenOn(c) == {r \in open : Conn(r) = c}

Init ==
    /\ log = <<>>
    /\ open = {} /\ answered = {} /\ closed = {} /\ givenUp = {} /\ dead = {}

(* The next message m arrives, on a connection that is still alive. *)
Arrives(m) ==
    /\ m.conn \notin dead
    /\ log' = Append(log, m)

(* A message that completes no exchange: a request opens one. *)
Wait(m) ==
    /\ Arrives(m)
    /\ open' = IF m.isRequest THEN open \cup {Len(log) + 1} ELSE open
    /\ UNCHANGED <<answered, closed, givenUp, dead>>

(* Response s, later than every response used on its connection, answers    *)
(* request r, the first of that connection that is still open; one of the   *)
(* two is the message m that arrives.                                       *)
Answer(m, r, s) ==
    /\ IF m.isRequest THEN r = Len(log) + 1 /\ OpenOn(m.conn) = {} /\ s \in 1..Len(log)
                      ELSE s = Len(log) + 1 /\ r \in OpenOn(m.conn)
    /\ log'[r].isRequest /\ ~log'[s].isRequest
    /\ log'[r].conn = m.conn /\ log'[s].conn = m.conn
    /\ \A q \in OpenOn(m.conn) : r <= q
    /\ \A p \in answered : Conn(p[1]) = m.conn => p[1] < r /\ p[2] < s
    /\ answered' = answered \cup {<<r, s>>}
    /\ open' = open \ {r}
    /\ UNCHANGED <<closed, givenUp, dead>>

(* A connection closes: all that is open on it is reported, and it is dead. *)
Close(c) ==
    /\ c \notin dead
    /\ dead' = dead \cup {c}
    /\ closed' = closed \cup OpenOn(c)
    /\ open' = open \ OpenOn(c)
    /\ UNCHANGED <<log, answered, givenUp>>

(* Some open requests are given up. *)
GiveUp(R) ==
    /\ R # {}
    /\ givenUp' = givenUp \cup R
    /\ open' = open \ R
    /\ UNCHANGED <<log, answered, closed, dead>>

Next ==
    \/ \E m \in Message : Wait(m)
    \/ \E m \in Message : Arrives(m) /\ \E r, s \in 1..(Len(log) + 1) : Answer(m, r, s)
    \/ \E c \in {m.conn : m \in Message} : Close(c)
    \/ \E R \in SUBSET open : GiveUp(R)

Spec == Init /\ [][Next]_vars
=============================================================================
