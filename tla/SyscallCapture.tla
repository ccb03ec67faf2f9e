--------------------------- MODULE SyscallCapture ---------------------------
(***************************************************************************)
(* bpf/tinytap.bpf.c and the fentry program of bpf/tinytap_kprobe.bpf.c: how *)
(* the system calls of many threads become events in the ring buffer.  An   *)
(* outgoing call is submitted when it enters; an incoming call and sendfile *)
(* are stashed by thread id and submitted when they return with data.       *)
(*                                                                          *)
(* The calls that are treated alike are one kind: "in" is read, recvfrom,   *)
(* recvmsg and readv, "out" is write, sendto, sendmsg, writev, accept4 and  *)
(* close, and "splice" has no program of its own.  A call is known by its   *)
(* number; the bytes of an event are left out, but for whose sample a       *)
(* sendfile event carries.                                                  *)
(***************************************************************************)
EXTENDS Naturals, Sequences, FiniteSets

CONSTANTS
    Tid,                \* threads
    Own,                \* those of tinytap itself (own_pid)
    MapSize,            \* max_entries of both hash maps
    RingSize,           \* events the ring buffer has room for
    MaxCalls            \* bound: system calls of a behaviour

ASSUME SyscallAssumption ==
    /\ IsFiniteSet(Tid) /\ Own \subseteq Tid
    /\ MapSize \in Nat \ {0} /\ RingSize \in Nat \ {0} /\ MaxCalls \in Nat

VARIABLES
    calls,              \* number of calls so far
    call,               \* the call a thread is in, or Idle
    incoming_pending_map, sendfile_sample_map,  \* functions on a set of threads
    events,             \* the ring buffer
    drop_counters,      \* ringbuf, mapFull
    owed,               \* history: calls of others that moved data
    spliced,            \* history: the calls that were splices
    unseen,             \* history: the calls whose entry left no trace at all
    submitted           \* history: events ever submitted

vars == <<calls, call, incoming_pending_map, sendfile_sample_map, events,
          drop_counters, owed, spliced, unseen, submitted>>

Kind == {"in", "out", "sendfile", "splice"}
Idle == [kind |-> "none", no |-> 0]
Call == [kind : Kind, no : 1..MaxCalls]
Event == [kind : Kind, no : 1..MaxCalls, sample : 0..MaxCalls]

Init ==
    /\ calls = 0
    /\ call = [t \in Tid |-> Idle]
    /\ incoming_pending_map = <<>> /\ sendfile_sample_map = <<>>
    /\ events = <<>>
    /\ drop_counters = [ringbuf |-> 0, mapFull |-> 0]
    /\ owed = {} /\ spliced = {} /\ unseen = {} /\ submitted = {}

-----------------------------------------------------------------------------
(* The helpers of the programs.                                             *)

(* Fault: a full ring buffer is not counted. *)
submit_Uncounted(t, e) ==
    IF t \notin Own /\ Len(events) < RingSize
    THEN /\ events' = Append(events, e) /\ submitted' = submitted \cup {e}
         /\ UNCHANGED drop_counters
    ELSE UNCHANGED <<events, submitted, drop_counters>>

(* submit_event, submit_event_iov and submit_sendfile_event. *)
submit(t, e) ==
    IF t \in Own THEN UNCHANGED <<events, submitted, drop_counters>>
    ELSE IF Len(events) < RingSize
    THEN /\ events' = Append(events, e) /\ submitted' = submitted \cup {e}
         /\ UNCHANGED drop_counters
    ELSE /\ drop_counters' = [drop_counters EXCEPT !.ringbuf = @ + 1]
         /\ UNCHANGED <<events, submitted>>

Put(map, t, value) == [u \in DOMAIN map \cup {t} |-> IF u = t THEN value ELSE map[u]]

Delete(map, t) == [u \in DOMAIN map \ {t} |-> map[u]]

HasRoom(map, t) == t \in DOMAIN map \/ Cardinality(DOMAIN map) < MapSize

CountMapFull == drop_counters' = [drop_counters EXCEPT !.mapFull = @ + 1]

(* stash_incoming and stash_incoming_iov. *)
stash_incoming(t, c) ==
    IF t \in Own THEN UNCHANGED <<incoming_pending_map, drop_counters>>
    ELSE IF HasRoom(incoming_pending_map, t)
    THEN /\ incoming_pending_map' = Put(incoming_pending_map, t, c)
         /\ UNCHANGED drop_counters
    ELSE CountMapFull /\ UNCHANGED incoming_pending_map

Sample(t) == IF t \in DOMAIN sendfile_sample_map THEN sendfile_sample_map[t] ELSE 0

(* Fault: a call that returned nothing keeps its entry. *)
submit_from_pending_KeepsOnError(t, moved) ==
    IF t \in DOMAIN incoming_pending_map /\ moved
    THEN LET p == incoming_pending_map[t] IN
         /\ submit(t, [kind |-> p.kind, no |-> p.no,
                       sample |-> IF p.kind = "sendfile" THEN Sample(t) ELSE 0])
         /\ incoming_pending_map' = Delete(incoming_pending_map, t)
    ELSE UNCHANGED <<incoming_pending_map, events, submitted, drop_counters>>

(* The entry goes whether the call moved data or not. *)
submit_from_pending(t, moved) ==
    IF t \notin DOMAIN incoming_pending_map
    THEN UNCHANGED <<incoming_pending_map, events, submitted, drop_counters>>
    ELSE LET p == incoming_pending_map[t] IN
         /\ IF moved
            THEN submit(t, [kind |-> p.kind, no |-> p.no,
                            sample |-> IF p.kind = "sendfile" THEN Sample(t) ELSE 0])
            ELSE UNCHANGED <<events, submitted, drop_counters>>
         /\ incoming_pending_map' = Delete(incoming_pending_map, t)

-----------------------------------------------------------------------------
(* The handlers.                                                            *)

NextCall(t, kind) ==
    /\ call[t] = Idle /\ calls < MaxCalls
    /\ calls' = calls + 1
    /\ call' = [call EXCEPT ![t] = [kind |-> kind, no |-> calls + 1]]

Owe(t, c) == owed' = IF t \in Own THEN owed ELSE owed \cup {c.no}

(* sys_enter of write, sendto, sendmsg, writev, accept4, close. *)
EnterOut(t) ==
    /\ NextCall(t, "out")
    /\ submit(t, [kind |-> "out", no |-> calls + 1, sample |-> 0])
    /\ Owe(t, call'[t])
    /\ UNCHANGED <<incoming_pending_map, sendfile_sample_map, spliced, unseen>>

(* sys_enter of read, recvfrom, recvmsg, readv and sendfile64. *)
EnterIn(t, kind) ==
    /\ NextCall(t, kind)
    /\ stash_incoming(t, call'[t])
    /\ UNCHANGED <<sendfile_sample_map, events, owed, spliced, unseen, submitted>>

(* read_msghdr_iov fails for a recvmsg, which is not stashed, or a sendmsg,  *)
(* which is not submitted; or the update of the map of pending calls fails  *)
(* though it is not full.  Nothing is counted.  The probe's read does not   *)
(* fault pages in, so the call itself may go on and move data.              *)
EnterUnseen(t, kind) ==
    /\ NextCall(t, kind)
    /\ unseen' = unseen \cup {calls + 1}
    /\ IF kind = "out" THEN Owe(t, call'[t]) ELSE UNCHANGED owed
    /\ UNCHANGED <<incoming_pending_map, sendfile_sample_map, events, drop_counters,
                   spliced, submitted>>

(* splice(2) has no tracepoint program here, but sends its pages the way    *)
(* sendfile does.                                                           *)
EnterSplice(t) ==
    /\ NextCall(t, "splice")
    /\ spliced' = spliced \cup {calls + 1}
    /\ UNCHANGED <<incoming_pending_map, sendfile_sample_map, events, drop_counters,
                   owed, unseen, submitted>>

(* fentry/tcp_sendmsg_locked, once or more within a sendfile or a splice to *)
(* a TCP socket.  It does not ask whose thread it is, nor in which call.    *)
(* If the page cannot be read, or the update fails though the map is not    *)
(* full, it changes nothing: that is no step.                               *)
handle_tcp_sendmsg_locked(t) ==
    /\ call[t].kind \in {"sendfile", "splice"}
    /\ IF HasRoom(sendfile_sample_map, t)
       THEN /\ sendfile_sample_map' = Put(sendfile_sample_map, t, call[t].no)
            /\ UNCHANGED drop_counters
       ELSE CountMapFull /\ UNCHANGED sendfile_sample_map
    /\ drop_counters.mapFull < MaxCalls
    /\ UNCHANGED <<calls, call, incoming_pending_map, events, owed, spliced, unseen,
                   submitted>>

(* The end of a call without a program at its exit; after a splice the      *)
(* sample stays.                                                            *)
ExitOut(t) ==
    /\ call[t].kind \in {"out", "splice"} /\ call' = [call EXCEPT ![t] = Idle]
    /\ UNCHANGED <<calls, incoming_pending_map, sendfile_sample_map, events,
                   drop_counters, owed, spliced, unseen, submitted>>

(* sys_exit of read, recvfrom, recvmsg, readv.                              *)
ExitIn(t, moved) ==
    /\ call[t].kind = "in" /\ call' = [call EXCEPT ![t] = Idle]
    /\ submit_from_pending(t, moved)
    /\ IF moved THEN Owe(t, call[t]) ELSE UNCHANGED owed
    /\ UNCHANGED <<calls, sendfile_sample_map, spliced, unseen>>

(* Fault: only a call that moved data deletes its sample. *)
ExitSendfile_KeepsSample(t, moved) ==
    /\ call[t].kind = "sendfile" /\ call' = [call EXCEPT ![t] = Idle]
    /\ submit_from_pending(t, moved)
    /\ sendfile_sample_map' =
          IF moved THEN Delete(sendfile_sample_map, t) ELSE sendfile_sample_map
    /\ IF moved THEN Owe(t, call[t]) ELSE UNCHANGED owed
    /\ UNCHANGED <<calls, spliced, unseen>>

(* sys_exit of sendfile64: the sample is deleted even if nothing was sent   *)
(* or nothing was pending.                                                  *)
ExitSendfile(t, moved) ==
    /\ call[t].kind = "sendfile" /\ call' = [call EXCEPT ![t] = Idle]
    /\ submit_from_pending(t, moved)
    /\ sendfile_sample_map' = Delete(sendfile_sample_map, t)
    /\ IF moved THEN Owe(t, call[t]) ELSE UNCHANGED owed
    /\ UNCHANGED <<calls, spliced, unseen>>

(* User space reads the ring buffer. *)
Consume ==
    /\ events # <<>> /\ events' = Tail(events)
    /\ UNCHANGED <<calls, call, incoming_pending_map, sendfile_sample_map,
                   drop_counters, owed, spliced, unseen, submitted>>

Next ==
    \/ \E t \in Tid :
          \/ EnterOut(t) \/ ExitOut(t)
          \/ EnterIn(t, "in") \/ EnterIn(t, "sendfile")
          \/ \E kind \in {"in", "out", "sendfile"} : EnterUnseen(t, kind)
          \/ EnterSplice(t)
          \/ handle_tcp_sendmsg_locked(t)
          \/ \E moved \in BOOLEAN : ExitIn(t, moved) \/ ExitSendfile(t, moved)
    \/ Consume

Spec == Init /\ [][Next]_vars

-----------------------------------------------------------------------------

(* The type invariant.                                                      *)
TypeOK ==
    /\ calls \in 0..MaxCalls
    /\ call \in [Tid -> Call \cup {Idle}]
    /\ DOMAIN incoming_pending_map \subseteq Tid \ Own
    /\ Cardinality(DOMAIN incoming_pending_map) <= MapSize
    /\ DOMAIN sendfile_sample_map \subseteq Tid
    /\ Cardinality(DOMAIN sendfile_sample_map) <= MapSize
    /\ events \in Seq(Event) /\ Len(events) <= RingSize
    /\ drop_counters \in [ringbuf : Nat, mapFull : Nat]
    /\ submitted \subseteq Event

(* The maps hold entries of threads that are in that very call and of no    *)
(* other: errors, full maps and short lives leave nothing behind, so that   *)
(* the pending map is full only when that many threads are in a call at a   *)
(* time.  What a splice leaves in the map of samples is the one exception:  *)
(* it stays until the thread's next sendfile is over.                       *)
EntriesOfCallsUnderWay ==
    /\ \A t \in DOMAIN incoming_pending_map : incoming_pending_map[t] = call[t]
    /\ \A t \in DOMAIN sendfile_sample_map :
          \/ call[t] = [kind |-> "sendfile", no |-> sendfile_sample_map[t]]
          \/ sendfile_sample_map[t] \in spliced

(* A sendfile event carries a sample of its own call or none, though a      *)
(* sample is left by one program and taken by another one later; only a     *)
(* splice can put bytes of another call into an event.                      *)
SampleIsOwn == \A e \in submitted : e.sample \in {0, e.no} \cup spliced

(* What is lost to a full map or a full ring buffer is counted: the calls   *)
(* that moved data and have no event are not more than the drops the        *)
(* counters show, whatever was full and when.  The calls whose entry left   *)
(* no trace are not among them: their message header could not be read, or  *)
(* a map with room refused them, and that the programs count nowhere.       *)
NoSilentLoss ==
    Cardinality({n \in owed \ unseen : \A e \in submitted : e.no # n})
        <= drop_counters.ringbuf + drop_counters.mapFull
=============================================================================
