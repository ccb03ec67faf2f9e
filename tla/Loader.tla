------------------------------- MODULE Loader -------------------------------
(***************************************************************************)
(* internal/loader: the probe sets that tinytap loads into the kernel, one  *)
(* program after the other, while the threads of the system go on with      *)
(* their calls.  "tinytap" is Load with tryAttachKprobe and Tinytap.Close,  *)
(* "sslFd" is AttachSSLSetFd, "sslPayload" is AttachSSLReadWrite, each with *)
(* the Close of its type.                                                   *)
(*                                                                          *)
(* Every step may fail.  A handle is what the kernel keeps until it is      *)
(* closed: a set of programs and maps, a ring buffer reader, or a link, the *)
(* attachment of a program to the entry or to the exit of a call.  Of the   *)
(* sixteen tracepoints those of two calls are kept, which share a map; the  *)
(* order of the list is kept.                                               *)
(***************************************************************************)
EXTENDS Naturals, Sequences, FiniteSets, SequencesExt

CONSTANTS
    Thread,             \* threads
    None

VARIABLES
    set,                \* the probe set that is loaded
    exSymbols,          \* libssl has SSL_write_ex and SSL_read_ex
    pc,                 \* of the goroutine that loads
    attached,           \* how many hooks it has dealt with
    open,               \* the handles the kernel keeps
    links,              \* tt.tracepoints, p.links
    kprobeObjsCloser, readerCloser,     \* not nil
    toClose,            \* what Close has still to close
    callOf,             \* the call a thread is in, or None
    pending,            \* the entry of a thread in a map of pending calls:
                        \* none, that of its own call, or of an earlier one
    foreign             \* history: for each event made from the arguments of an
                        \* earlier call, was its call entered when all was loaded

handles == <<open, links, kprobeObjsCloser, readerCloser, toClose>>
threads == <<callOf, pending, foreign>>
loaderVars == <<set, exSymbols, pc, attached, handles, threads>>

Objs == [of |-> "objs", at |-> "handle"]
KprobeObjs == [of |-> "kprobeObjs", at |-> "handle"]
Reader == [of |-> "reader", at |-> "handle"]
Fentry == [of |-> "tcp_sendmsg_locked", at |-> "enter"]
Enter(f) == [of |-> f, at |-> "enter"]
Return(f) == [of |-> f, at |-> "exit"]

(* Tracepoints of load.go, hooks of load_uprobe.go.                         *)
Hooks ==
    CASE set = "tinytap" ->
            <<Enter("read"), Enter("recvfrom"), Return("read"), Return("recvfrom")>>
      [] set = "sslFd" -> <<Enter("SSL_set_fd")>>
      [] set = "sslPayload" ->
            <<Enter("SSL_write"), Enter("SSL_read"), Return("SSL_read"),
              Enter("SSL_write_ex"), Enter("SSL_read_ex"), Return("SSL_read_ex"),
              Enter("SSL_free")>>

Required(h) == h.of \notin {"SSL_write_ex", "SSL_read_ex"}
HasSymbol(h) == Required(h) \/ exSymbols

(* The calls that are stashed at entry and submitted at exit, and the maps: *)
(* incoming_pending_map is one for all system calls, SSL_read and           *)
(* SSL_read_ex have a map each.                                             *)
Stashed == {h.of : h \in {g \in Range(Hooks) : g.at = "exit" /\ HasSymbol(g)}}
MapOf(f) == IF set = "tinytap" THEN "incoming" ELSE f
Map == {"incoming", "SSL_read", "SSL_read_ex"}

AfterHooks ==
    CASE set = "tinytap"    -> "kprobeObjects"
      [] set = "sslFd"      -> "loaded"
      [] set = "sslPayload" -> "reader"

LoaderInit ==
    /\ set \in {"tinytap", "sslFd", "sslPayload"} /\ exSymbols \in BOOLEAN
    /\ pc = "objects" /\ attached = 0
    /\ open = {} /\ links = <<>> /\ toClose = <<>>
    /\ kprobeObjsCloser = FALSE /\ readerCloser = FALSE
    /\ callOf = [t \in Thread |-> None]
    /\ pending = [t \in Thread |-> [x \in Map |-> "none"]]
    /\ foreign = {}

-----------------------------------------------------------------------------
(* Close.                                                                   *)

(* Fault: the programs and maps are closed first. *)
CloseOrder_ObjsFirst ==
    <<Objs>> \o (IF readerCloser THEN <<Reader>> ELSE <<>>)
    \o links \o (IF kprobeObjsCloser THEN <<KprobeObjs>> ELSE <<>>)

(* The reader, the links in the order of their attachment, the kprobe       *)
(* objects, the objects.                                                    *)
CloseOrder ==
    (IF readerCloser THEN <<Reader>> ELSE <<>>) \o links
    \o (IF kprobeObjsCloser THEN <<KprobeObjs>> ELSE <<>>) \o <<Objs>>

StartClose(label) ==
    /\ toClose' = CloseOrder /\ pc' = label
    /\ UNCHANGED <<set, exSymbols, attached, open, links, kprobeObjsCloser,
                   readerCloser, threads>>

Close == pc = "loaded" /\ StartClose("closing")

(* An error of one Close is kept for later and stops none of the others.    *)
CloseNext ==
    /\ pc \in {"closing", "unwinding"} /\ toClose # <<>>
    /\ open' = open \ {toClose[1]} /\ toClose' = Tail(toClose)
    /\ UNCHANGED <<set, exSymbols, pc, attached, links, kprobeObjsCloser,
                   readerCloser, threads>>

CloseReturns ==
    /\ toClose = <<>>
    /\ \/ pc = "closing" /\ pc' = "closed"
       \/ pc = "unwinding" /\ pc' = "failed"
    /\ UNCHANGED <<set, exSymbols, attached, handles, threads>>

-----------------------------------------------------------------------------
(* Load, AttachSSLSetFd, AttachSSLReadWrite.                                *)

(* The checks before, the specification and LoadAndAssign.                  *)
LoadObjects ==
    /\ pc = "objects"
    /\ \/ pc' = "attach" /\ open' = {Objs}
       \/ pc' = "failed" /\ UNCHANGED open
    /\ UNCHANGED <<set, exSymbols, attached, links, kprobeObjsCloser, readerCloser,
                   toClose, threads>>

Hook == Hooks[attached + 1]

NextHook ==
    /\ attached' = attached + 1
    /\ pc' = IF attached + 1 = Len(Hooks) THEN AfterHooks ELSE "attach"
    /\ UNCHANGED <<set, exSymbols, kprobeObjsCloser, readerCloser, toClose, threads>>

(* For a tracepoint with a second name that is tried, too.                  *)
AttachHook ==
    /\ pc = "attach" /\ HasSymbol(Hook)
    /\ open' = open \cup {Hook} /\ links' = Append(links, Hook)
    /\ NextHook

(* Fault: whatever cannot be attached is left out. *)
SkipHook_Any == pc = "attach" /\ NextHook /\ UNCHANGED <<open, links>>

(* Only a symbol that this libssl does not have may be missing.             *)
SkipHook ==
    /\ pc = "attach" /\ ~HasSymbol(Hook)
    /\ NextHook /\ UNCHANGED <<open, links>>

AttachFails == pc = "attach" /\ StartClose("unwinding")

(* tryAttachKprobe: without it there are no samples of sendfile, that is    *)
(* all.                                                                     *)
LoadKprobe ==
    /\ pc = "kprobeObjects"
    /\ \/ pc' = "kprobe" /\ open' = open \cup {KprobeObjs}
       \/ pc' = "reader" /\ UNCHANGED open
    /\ UNCHANGED <<set, exSymbols, attached, links, kprobeObjsCloser, readerCloser,
                   toClose, threads>>

(* Fault: the objects are kept when the program cannot be attached. *)
AttachKprobe_KeepsObjs ==
    /\ pc = "kprobe" /\ pc' = "reader"
    /\ \/ /\ open' = open \cup {Fentry} /\ links' = Append(links, Fentry)
          /\ kprobeObjsCloser' = TRUE
       \/ UNCHANGED <<open, links, kprobeObjsCloser>>
    /\ UNCHANGED <<set, exSymbols, attached, readerCloser, toClose, threads>>

AttachKprobe ==
    /\ pc = "kprobe" /\ pc' = "reader"
    /\ \/ /\ open' = open \cup {Fentry} /\ links' = Append(links, Fentry)
          /\ kprobeObjsCloser' = TRUE
       \/ /\ open' = open \ {KprobeObjs}
          /\ UNCHANGED <<links, kprobeObjsCloser>>
    /\ UNCHANGED <<set, exSymbols, attached, readerCloser, toClose, threads>>

OpenReader ==
    /\ pc = "reader" /\ pc' = "loaded"
    /\ open' = open \cup {Reader} /\ readerCloser' = TRUE
    /\ UNCHANGED <<set, exSymbols, attached, links, kprobeObjsCloser, toClose, threads>>

OpenReaderFails == pc = "reader" /\ StartClose("unwinding")

-----------------------------------------------------------------------------
(* A thread in its calls; the programs run if they are attached.            *)

EnterCall(t, f) ==
    /\ callOf[t] = None
    /\ callOf' = [callOf EXCEPT ![t] = [of |-> f, loaded |-> pc = "loaded"]]
    /\ pending' = IF Enter(f) \in open
                  THEN [pending EXCEPT ![t][MapOf(f)] = "own"] ELSE pending
    /\ UNCHANGED <<set, exSymbols, pc, attached, handles, foreign>>

(* Close closes the reader first: then nobody reads what programs submit.   *)
HasReader == Reader \in open \/ pc \in {"attach", "kprobeObjects", "kprobe", "reader"}

(* An exit program submits an event if the call moved data, and deletes the *)
(* entry; if there is no exit program yet the entry stays behind.           *)
ReturnFromCall(t, moved) ==
    /\ callOf[t] # None
    /\ LET f == callOf[t].of
           entry == pending[t][MapOf(f)]
           runs == Return(f) \in open
       IN /\ pending' = [pending EXCEPT ![t][MapOf(f)] =
                            IF runs \/ entry = "none" THEN "none" ELSE "stale"]
          /\ foreign' = IF runs /\ moved /\ entry = "stale" /\ HasReader
                        THEN foreign \cup {callOf[t].loaded} ELSE foreign
    /\ callOf' = [callOf EXCEPT ![t] = None]
    /\ UNCHANGED <<set, exSymbols, pc, attached, handles>>

-----------------------------------------------------------------------------

LoaderStep ==
    \/ LoadObjects \/ AttachHook \/ SkipHook \/ AttachFails
    \/ LoadKprobe \/ AttachKprobe \/ OpenReader \/ OpenReaderFails
    \/ CloseNext \/ CloseReturns

LoaderNext ==
    \/ LoaderStep \/ Close
    \/ \E t \in Thread :
          \/ \E f \in Stashed : EnterCall(t, f)
          \/ \E moved \in BOOLEAN : ReturnFromCall(t, moved)

LoaderSpec == LoaderInit /\ [][LoaderNext]_loaderVars

-----------------------------------------------------------------------------

(* The type invariant.                                                      *)
LoaderTypeOK ==
    /\ pc \in {"objects", "attach", "kprobeObjects", "kprobe", "reader", "loaded",
               "closing", "unwinding", "closed", "failed"}
    /\ attached \in 0..Len(Hooks)
    /\ open \subseteq Range(Hooks) \cup {Objs, KprobeObjs, Reader, Fentry}
    /\ Range(links) \subseteq Range(Hooks) \cup {Fentry}
    /\ Range(toClose) \subseteq Range(Hooks) \cup {Objs, KprobeObjs, Reader, Fentry}
    /\ callOf \in [Thread -> [of : Stashed, loaded : BOOLEAN] \cup {None}]
    /\ pending \in [Thread -> [Map -> {"none", "own", "stale"}]]
    /\ foreign \subseteq BOOLEAN

(* Whichever step failed, and after every Close, the kernel keeps nothing:  *)
(* no program stays attached to the system calls of the machine.            *)
NothingLeftOpen == pc \in {"failed", "closed"} => open = {}

(* Programs and maps outlive the links and the reader that use them, on the *)
(* way up, on the way down and while unwinding.                             *)
UsersCloseFirst ==
    /\ open # {} => Objs \in open
    /\ Fentry \in open => KprobeObjs \in open
    /\ pc = "loaded" => /\ \A h \in Range(Hooks) : HasSymbol(h) => h \in open
                        /\ (Reader \in open) = (set # "sslFd")

(* The programs of entry and exit are attached one after the other, with    *)
(* threads in the middle of their calls.  A call entered when all was       *)
(* loaded is never reported with the arguments of an earlier call; for      *)
(* SSL_read and SSL_read_ex, with a map each, no call ever is.              *)
OwnArguments ==
    /\ TRUE \notin foreign
    /\ set = "sslPayload" => foreign = {}
=============================================================================
