----------------------------- MODULE SSLWatcher -----------------------------
(***************************************************************************)
(* cmd/tinytap/tlswatch.go: attaches TLS probes to every process that shows *)
(* up in the capture, one goroutine per process, and takes them down again. *)
(*                                                                          *)
(* The actors are the event readers (OnEvent), the attach goroutines, the   *)
(* reaper goroutine, the goroutine that closes the watcher and the system,  *)
(* in which processes exit and process ids are used again.  An action is    *)
(* what one actor does between two points at which another can run: a       *)
(* critical section of w.mu, or one call into the kernel.                   *)
(*                                                                          *)
(* A probe is named by the goroutine that opens it: fd is the SSL_set_fd    *)
(* probe, rw the SSL_read/SSL_write/SSL_free probe.                         *)
(***************************************************************************)
EXTENDS Naturals, FiniteSets, FiniteSetsExt

CONSTANTS
    Pid,
    Goroutine,          \* bound: the attach goroutines of a behaviour
    MaxConcurrentAttach,
    MaxDrops,           \* bound: drops counted by one probe
    None

ASSUME ConstantsAssumption ==
    /\ MaxConcurrentAttach \in Nat \ {0}
    /\ MaxDrops \in Nat
    /\ IsFiniteSet(Goroutine)
    /\ None \notin Pid /\ None \notin Goroutine

VARIABLES
    alive,              \* the processes that run
    open, dropped,      \* probes attached in the kernel, drops in their maps
    exCache,            \* loader: the process through whose /proc/<pid>/root the
                        \* cached Executable names libssl, or None
    pc, pid,            \* of an attach goroutine
    attachSem,          \* the goroutines that hold a slot
    attachSkipped,      \* w.attachSkipped
    seen,               \* w.seen
    probes,             \* w.probes: the goroutine whose fd probe is registered
    payloadProbes,      \* w.payloadProbes, likewise for the rw probe
    closed,             \* w.closed
    closedDrops,        \* w.closedDrops
    gaveUp, recycled,   \* history: pids given up for good, pids used again
    reaper, toClose,    \* the reaper goroutine and the probes it will close
    closer, taken       \* the goroutine in Close and the probes it will close

kernel == <<open, dropped, exCache>>
sem == <<attachSem, attachSkipped>>
regs == <<probes, payloadProbes>>
watch == <<seen, closed, closedDrops, regs>>
downs == <<reaper, toClose, closer, taken>>
system == <<alive, recycled>>
vars == <<system, kernel, pc, pid, sem, watch, gaveUp, downs>>

Probe == Goroutine \X {"fd", "rw"}
fd(g) == <<g, "fd">>
rw(g) == <<g, "rw">>

Labels == {"idle", "find", "sem", "skipped", "attach", "store", "closeFd",
           "attachPayload", "storePayload", "closeRw", "done"}

Init ==
    /\ alive = Pid
    /\ open = {} /\ dropped = [x \in Probe |-> 0] /\ exCache = None
    /\ pc = [g \in Goroutine |-> "idle"] /\ pid = [g \in Goroutine |-> None]
    /\ attachSem = {} /\ attachSkipped = 0
    /\ seen = {} /\ closed = FALSE /\ closedDrops = 0
    /\ probes = [p \in Pid |-> None] /\ payloadProbes = [p \in Pid |-> None]
    /\ gaveUp = {} /\ recycled = {}
    /\ reaper = "idle" /\ toClose = {}
    /\ closer = "running" /\ taken = {}

Goto(g, label) == pc' = [pc EXCEPT ![g] = label]

(* Fault: a way out that keeps its slot. *)
Return_KeepsSlot(g) ==
    /\ Goto(g, "done")
    /\ UNCHANGED sem

(* The deferred receive frees the slot on every way out. *)
Return(g) ==
    /\ Goto(g, "done")
    /\ attachSem' = attachSem \ {g}
    /\ UNCHANGED attachSkipped

GiveUp(g) == gaveUp' = gaveUp \cup {pid[g]}

DropsOf(S) == MapThenSumSet(LAMBDA x : dropped[x], S)

(* harvestLocked on each probe of S. *)
harvestLocked(S) == closedDrops' = closedDrops + DropsOf(S)

(* The probes registered for the pids of P, and the maps without them. *)
ProbesOf(P) ==
    {fd(probes[p]) : p \in {q \in P : probes[q] # None}}
    \cup {rw(payloadProbes[p]) : p \in {q \in P : payloadProbes[q] # None}}
Without(m, P) == [p \in Pid |-> IF p \in P THEN None ELSE m[p]]

-----------------------------------------------------------------------------
(* The system.                                                              *)

Exit(p) ==
    /\ p \in alive
    /\ alive' = alive \ {p}
    /\ UNCHANGED <<recycled, kernel, pc, pid, sem, watch, gaveUp, downs>>

(* Bound: one pid is used again, once. *)
Recycle(p) ==
    /\ p \notin alive /\ recycled = {}
    /\ alive' = alive \cup {p} /\ recycled' = {p}
    /\ UNCHANGED <<kernel, pc, pid, sem, watch, gaveUp, downs>>

(* The kernel side of an attached probe counts an event it could not store. *)
Drop(x) ==
    /\ x \in open /\ dropped[x] < MaxDrops
    /\ dropped' = [dropped EXCEPT ![x] = @ + 1]
    /\ UNCHANGED <<system, open, exCache, pc, pid, sem, watch, gaveUp, downs>>

-----------------------------------------------------------------------------
(* OnEvent and maybeAttach.  Events come from the main loop, also late ones *)
(* of a process that is gone, and from the TLS capture of an open rw probe. *)

HasEvents(p) ==
    \/ closer = "running"
    \/ \E g \in Goroutine : pid[g] = p /\ pc[g] = "done" /\ rw(g) \in open

(* Fault: every event starts a goroutine. *)
OnEvent_IgnoresSeen(p) ==
    /\ HasEvents(p)
    /\ \E g \in Goroutine :
          /\ pc[g] = "idle"
          /\ Goto(g, "find")
          /\ pid' = [pid EXCEPT ![g] = p]
    /\ seen' = seen \cup {p}
    /\ UNCHANGED <<system, kernel, sem, closed, closedDrops, regs, gaveUp, downs>>

OnEvent(p) ==
    /\ HasEvents(p)
    /\ p \notin seen
    /\ \E g \in Goroutine :
          /\ pc[g] = "idle"
          /\ Goto(g, "find")
          /\ pid' = [pid EXCEPT ![g] = p]
    /\ seen' = seen \cup {p}
    /\ UNCHANGED <<system, kernel, sem, closed, closedDrops, regs, gaveUp, downs>>

(* findWithRetry and the isAlive check after it: libssl is found, sooner or *)
(* later, in a process that runs; or it is not there, lacks the symbols or  *)
(* cannot be read; or the process is gone.                                  *)
Find(g) ==
    /\ pc[g] = "find"
    /\ \/ pid[g] \in alive /\ Goto(g, "sem") /\ UNCHANGED gaveUp
       \/ Goto(g, "done") /\ GiveUp(g)
    /\ UNCHANGED <<system, kernel, pid, sem, watch, downs>>

(* The semaphore is tried, never waited for. *)
Acquire(g) ==
    /\ pc[g] = "sem"
    /\ IF Cardinality(attachSem) < MaxConcurrentAttach
       THEN attachSem' = attachSem \cup {g} /\ Goto(g, "attach") /\ UNCHANGED attachSkipped
       ELSE attachSkipped' = attachSkipped + 1 /\ Goto(g, "skipped") /\ UNCHANGED attachSem
    /\ UNCHANGED <<system, kernel, pid, watch, gaveUp, downs>>

(* Fault: a skipped process is never tried again. *)
Skip_KeepsSeen(g) ==
    /\ pc[g] = "skipped"
    /\ Goto(g, "done")
    /\ UNCHANGED <<system, kernel, pid, sem, watch, gaveUp, downs>>

(* A skipped process is forgotten, so that its next event tries again. *)
Skip(g) ==
    /\ pc[g] = "skipped"
    /\ seen' = seen \ {pid[g]}
    /\ Goto(g, "done")
    /\ UNCHANGED <<system, kernel, pid, sem, closed, closedDrops, regs, gaveUp, downs>>

(* openExecutable for a process whose library can be read: the cache is by   *)
(* device and inode, and all processes here map the same file.              *)
openExecutable(p) == exCache' = IF exCache = None THEN p ELSE exCache

(* A probe is attached to a process that runs, or cannot be: the process is *)
(* gone or the programs are not loaded.  The kernel resolves the path of    *)
(* the Executable when it attaches, so that process must run, too.          *)
AttachTo(g, x, next) ==
    /\ \/ /\ pid[g] \in alive
          /\ openExecutable(pid[g])
          /\ exCache' \in alive
          /\ open' = open \cup {x}
          /\ Goto(g, next)
          /\ UNCHANGED <<sem, gaveUp>>
       \/ /\ \/ UNCHANGED exCache
             \/ pid[g] \in alive /\ openExecutable(pid[g])
          /\ Return(g) /\ GiveUp(g) /\ UNCHANGED open
    /\ UNCHANGED <<system, dropped, pid, watch, downs>>

Attach(g) == pc[g] = "attach" /\ AttachTo(g, fd(g), "store")
AttachPayload(g) == pc[g] = "attachPayload" /\ AttachTo(g, rw(g), "storePayload")

(* Fault: the probe is registered without a look at closed. *)
Store_IgnoresClosed(g) ==
    /\ pc[g] = "store"
    /\ probes' = [probes EXCEPT ![pid[g]] = g]
    /\ Goto(g, "attachPayload")
    /\ UNCHANGED <<system, kernel, pid, sem, seen, closed, closedDrops, payloadProbes,
                   gaveUp, downs>>

(* It is registered, unless Close came in between. *)
Store(g) ==
    /\ pc[g] = "store"
    /\ IF closed
       THEN harvestLocked({fd(g)}) /\ Goto(g, "closeFd") /\ UNCHANGED probes
       ELSE /\ probes' = [probes EXCEPT ![pid[g]] = g]
            /\ Goto(g, "attachPayload")
            /\ UNCHANGED closedDrops
    /\ UNCHANGED <<system, kernel, pid, sem, seen, closed, payloadProbes, gaveUp, downs>>

(* With both probes registered the goroutine starts captureTLS and returns. *)
StorePayload(g) ==
    /\ pc[g] = "storePayload"
    /\ IF closed
       THEN harvestLocked({rw(g)}) /\ Goto(g, "closeRw") /\ UNCHANGED <<payloadProbes, sem>>
       ELSE /\ payloadProbes' = [payloadProbes EXCEPT ![pid[g]] = g]
            /\ Return(g)
            /\ UNCHANGED closedDrops
    /\ UNCHANGED <<system, kernel, pid, seen, closed, probes, gaveUp, downs>>

(* A goroutine that came too late closes its own probe. *)
CloseOwn(g) ==
    /\ \/ pc[g] = "closeFd" /\ open' = open \ {fd(g)}
       \/ pc[g] = "closeRw" /\ open' = open \ {rw(g)}
    /\ Return(g)
    /\ UNCHANGED <<system, dropped, exCache, pid, watch, gaveUp, downs>>

-----------------------------------------------------------------------------
(* The reaper.  A process with an rw probe is reaped with both its probes,  *)
(* one with only an fd probe with that.  The probes are taken out of the    *)
(* maps and harvested under the lock, and closed outside it.                *)

Reapable == {p \in Pid \ alive : probes[p] # None \/ payloadProbes[p] # None}

(* Fault: a reaped rw probe stays in its map. *)
reapDeadProbes_KeepsPayload ==
    /\ reaper = "idle" /\ ~closed /\ Reapable # {}
    /\ harvestLocked(ProbesOf(Reapable))
    /\ toClose' = ProbesOf(Reapable)
    /\ reaper' = "closing"
    /\ probes' = Without(probes, Reapable)
    /\ seen' = seen \ Reapable
    /\ UNCHANGED <<system, kernel, pc, pid, sem, closed, payloadProbes, gaveUp, closer, taken>>

reapDeadProbes ==
    /\ reaper = "idle" /\ ~closed /\ Reapable # {}
    /\ harvestLocked(ProbesOf(Reapable))
    /\ toClose' = ProbesOf(Reapable)
    /\ reaper' = "closing"
    /\ probes' = Without(probes, Reapable)
    /\ payloadProbes' = Without(payloadProbes, Reapable)
    /\ seen' = seen \ Reapable
    /\ UNCHANGED <<system, kernel, pc, pid, sem, closed, gaveUp, closer, taken>>

ReaperCloses ==
    /\ reaper = "closing"
    /\ \E x \in toClose :
          /\ open' = open \ {x}
          /\ toClose' = toClose \ {x}
          /\ reaper' = IF toClose = {x} THEN "idle" ELSE "closing"
    /\ UNCHANGED <<system, dropped, exCache, pc, pid, sem, watch, gaveUp, closer, taken>>

(* stopReaper is only looked at between two rounds. *)
ReaperStops ==
    /\ reaper = "idle" /\ closer = "stopping"
    /\ reaper' = "stopped"
    /\ UNCHANGED <<system, kernel, pc, pid, sem, watch, gaveUp, toClose, closer, taken>>

-----------------------------------------------------------------------------
(* Close.  It runs once: closeOnce.                                         *)

(* The capture loop has ended and the deferred closeSink runs. *)
BeginClose ==
    /\ closer = "running"
    /\ closer' = "stopping"
    /\ UNCHANGED <<system, kernel, pc, pid, sem, watch, gaveUp, reaper, toClose, taken>>

(* Fault: the fd probes are forgotten. *)
TakeAll_OnlyPayload ==
    /\ closer = "stopping" /\ reaper = "stopped"
    /\ closed' = TRUE
    /\ taken' = {x \in ProbesOf(Pid) : x[2] = "rw"}
    /\ harvestLocked(ProbesOf(Pid))
    /\ probes' = Without(probes, Pid)
    /\ payloadProbes' = Without(payloadProbes, Pid)
    /\ closer' = "closing"
    /\ UNCHANGED <<system, kernel, pc, pid, sem, seen, gaveUp, reaper, toClose>>

(* With the reaper gone the maps are taken and harvested under the lock. *)
TakeAll ==
    /\ closer = "stopping" /\ reaper = "stopped"
    /\ closed' = TRUE
    /\ taken' = ProbesOf(Pid)
    /\ harvestLocked(ProbesOf(Pid))
    /\ probes' = Without(probes, Pid)
    /\ payloadProbes' = Without(payloadProbes, Pid)
    /\ closer' = "closing"
    /\ UNCHANGED <<system, kernel, pc, pid, sem, seen, gaveUp, reaper, toClose>>

(* The fd probes are closed before the rw probes; the sink is closed last. *)
CloserCloses ==
    /\ closer = "closing"
    /\ \E x \in taken :
          /\ x[2] = "rw" => \A y \in taken : y[2] = "rw"
          /\ open' = open \ {x}
          /\ taken' = taken \ {x}
    /\ UNCHANGED <<system, dropped, exCache, pc, pid, sem, watch, gaveUp, reaper, toClose,
                   closer>>

CloseReturns ==
    /\ closer = "closing" /\ taken = {}
    /\ closer' = "closed"
    /\ UNCHANGED <<system, kernel, pc, pid, sem, watch, gaveUp, reaper, toClose, taken>>

-----------------------------------------------------------------------------

GoroutineStep(g) ==
    \/ Find(g) \/ Acquire(g) \/ Skip(g)
    \/ Attach(g) \/ Store(g) \/ AttachPayload(g) \/ StorePayload(g) \/ CloseOwn(g)

CloserStep == TakeAll \/ CloserCloses \/ CloseReturns

Next ==
    \/ \E p \in Pid : Exit(p) \/ Recycle(p) \/ OnEvent(p)
    \/ \E x \in Probe : Drop(x)
    \/ \E g \in Goroutine : GoroutineStep(g)
    \/ reapDeadProbes \/ ReaperCloses \/ ReaperStops
    \/ BeginClose \/ CloserStep

Spec == Init /\ [][Next]_vars

(* Goroutines are scheduled, the retry loop of findWithRetry is finite, the *)
(* reaper's select takes stopReaper in the end, and the user ends the       *)
(* capture.                                                                 *)
Fairness ==
    /\ \A g \in Goroutine : WF_vars(GoroutineStep(g))
    /\ WF_vars(ReaperCloses) /\ SF_vars(ReaperStops)
    /\ WF_vars(BeginClose) /\ WF_vars(CloserStep)

FairSpec == Spec /\ Fairness

-----------------------------------------------------------------------------

(* The type invariant.                                                      *)
TypeOK ==
    /\ alive \subseteq Pid /\ seen \subseteq Pid /\ gaveUp \subseteq Pid
    /\ probes \in [Pid -> Goroutine \cup {None}]
    /\ payloadProbes \in [Pid -> Goroutine \cup {None}]
    /\ closed = (closer \in {"closing", "closed"})
    /\ closedDrops \in Nat /\ attachSkipped \in Nat
    /\ attachSem \subseteq Goroutine
    /\ pc \in [Goroutine -> Labels]
    /\ pid \in [Goroutine -> Pid \cup {None}]
    /\ exCache \in Pid \cup {None}
    /\ open \subseteq Probe /\ toClose \subseteq Probe /\ taken \subseteq Probe
    /\ dropped \in [Probe -> 0..MaxDrops]
    /\ reaper \in {"idle", "closing", "stopped"}
    /\ closer \in {"running", "stopping", "closing", "closed"}

(* The goroutines between the receive of a slot and its release are the     *)
(* ones that hold one, and they are never more than the cap: a slot that    *)
(* some way out kept would in the end stop every attach.                    *)
SlotsBalanced ==
    /\ attachSem = {g \in Goroutine : pc[g] \in {"attach", "store", "closeFd",
                        "attachPayload", "storePayload", "closeRw"}}
    /\ Cardinality(attachSem) <= MaxConcurrentAttach

(* The probes a goroutine has opened and not yet handed over.               *)
HeldByGoroutine ==
    {fd(g) : g \in {h \in Goroutine : pc[h] \in {"store", "closeFd"}}}
    \cup {rw(g) : g \in {h \in Goroutine : pc[h] \in {"storePayload", "closeRw"}}}

(* The probes of processes whose pid no later process has got.              *)
Regular(S) == {x \in S : pid[x[1]] \notin recycled}

(* Every attached probe has exactly one owner that will close it (its       *)
(* goroutine, the maps, the reaper or Close): no probe leaks and none is    *)
(* closed twice.  Where a pid is used again the second process may replace  *)
(* the registration of the first: that touches no probe of another pid.     *)
EveryProbeOwned ==
    LET owners == <<HeldByGoroutine, ProbesOf(Pid), toClose, taken>> IN
    /\ Regular(open) = UNION {Regular(owners[i]) : i \in 1..4}
    /\ \A i, j \in 1..4 : i # j => owners[i] \cap owners[j] = {}

(* At most one rw probe reads the TLS traffic of a process: with two, every *)
(* exchange of the process would be reported twice.                         *)
NoDuplicateCapture ==
    \A x, y \in Regular(open) :
        x # y /\ x[2] = "rw" /\ y[2] = "rw" => pid[x[1]] # pid[y[1]]

(* While the watcher runs, a process in seen is being attached, is attached *)
(* or was given up: one that was merely skipped may be tried again.         *)
SeenIsHandled ==
    closed \/ \A p \in seen :
        \/ \E g \in Goroutine : pid[g] = p /\ pc[g] # "done"
        \/ ProbesOf({p}) # {}
        \/ p \in gaveUp

(* What dropCounts returns for the probes.                                  *)
dropCounts == closedDrops + DropsOf(ProbesOf(Pid))

(* dropCounts never counts a drop twice, and the count a user sees never    *)
(* goes down, also not while the reaper or Close moves a probe from the     *)
(* live ones to the harvested ones: a probe leaves the maps in the critical *)
(* section that harvests it.  (A registration that replaces that of an      *)
(* earlier process with the same pid loses its count.)                      *)
DropsCountedOnce ==
    [][ /\ dropCounts' <= DropsOf(Probe)'
        /\ recycled = {} => dropCounts' >= dropCounts ]_vars

(* tlswatch.go:367: Close "stops the reaper and closes all probes".  Once   *)
(* the capture has ended no probe stays in the kernel: late attaches and a  *)
(* reaper in the middle of its round included, unless its pid was used      *)
(* again.                                                                   *)
EventuallyNoProbes == <>[](Regular(open) = {})

(* load_uprobe.go:24: the cache is keyed by file "to handle                 *)
(* container-namespaced paths of the form /proc/<pid>/root/usr/lib/...      *)
(* where the pid changes per process": whoever is about to attach to a      *)
(* process that runs has a path to its library.                             *)
AttachPathExists ==
    \A g \in Goroutine :
        pc[g] \in {"attach", "attachPayload"} /\ pid[g] \in alive
            => exCache = None \/ exCache \in alive
=============================================================================
