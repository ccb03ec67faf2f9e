-------------------------- MODULE SSLWatcherProofs --------------------------
(***************************************************************************)
(* Proofs about SSLWatcher for every set of processes and of attach         *)
(* goroutines and every cap: slots are balanced, every probe has one owner  *)
(* that will close it, no process is captured twice, and a process in seen  *)
(* is not forgotten.                                                        *)
(***************************************************************************)
EXTENDS SSLWatcher, FiniteSetTheorems, WellFoundedInduction, TLAPS

-----------------------------------------------------------------------------
(* The inductive invariant.                                                 *)

BeforeOpen == {"idle", "find", "sem", "skipped", "attach"}
HoldsFd == {"store", "closeFd"}
HoldsRw == {"storePayload", "closeRw"}
AfterStore == {"attachPayload", "storePayload", "closeRw", "done"}

(* A goroutine that has found libssl in a process that ran.                 *)
Past == {"sem", "skipped", "attach", "store", "closeFd", "attachPayload",
         "storePayload", "closeRw"}

Types ==
    /\ alive \subseteq Pid /\ seen \subseteq Pid
    /\ probes \in [Pid -> Goroutine \cup {None}]
    /\ payloadProbes \in [Pid -> Goroutine \cup {None}]
    /\ pc \in [Goroutine -> Labels]
    /\ pid \in [Goroutine -> Pid \cup {None}]
    /\ \A g \in Goroutine : pc[g] # "idle" => pid[g] \in Pid
    /\ open \subseteq Probe /\ toClose \subseteq Probe /\ taken \subseteq Probe
    /\ reaper \in {"idle", "closing", "stopped"}
    /\ closer \in {"running", "stopping", "closing", "closed"}
    /\ closed \in BOOLEAN

(* What the phase of the reaper and of Close says of the registrations.     *)
Phases ==
    /\ closed <=> closer \in {"closing", "closed"}
    /\ ~closed => taken = {}
    /\ reaper # "closing" => toClose = {}
    /\ closed => \A p \in Pid : probes[p] = None /\ payloadProbes[p] = None
    /\ \A g \in Goroutine : pc[g] \in {"closeFd", "closeRw"} => closed

(* What is registered is open and of the goroutine that attached it to that *)
(* process, and nobody is closing it.                                       *)
Registered ==
    /\ \A p \in Pid : probes[p] # None =>
          /\ pid[probes[p]] = p /\ pc[probes[p]] \in AfterStore
          /\ fd(probes[p]) \in open /\ fd(probes[p]) \notin toClose \cup taken
    /\ \A p \in Pid : payloadProbes[p] # None =>
          /\ pid[payloadProbes[p]] = p /\ pc[payloadProbes[p]] = "done"
          /\ rw(payloadProbes[p]) \in open /\ rw(payloadProbes[p]) \notin toClose \cup taken

(* What is being closed is open and was handed over.                        *)
Down ==
    /\ toClose \cap taken = {}
    /\ \A g \in Goroutine :
          /\ fd(g) \in toClose \cup taken => fd(g) \in open /\ pc[g] \in AfterStore
          /\ rw(g) \in toClose \cup taken => rw(g) \in open /\ pc[g] = "done"

(* What a goroutine holds is open; it opens its two probes one after the    *)
(* other.                                                                   *)
Opened ==
    \A g \in Goroutine :
        /\ pc[g] \in HoldsFd => fd(g) \in open
        /\ pc[g] \in HoldsRw => rw(g) \in open
        /\ fd(g) \in open => pc[g] \in HoldsFd \cup AfterStore
        /\ rw(g) \in open => pc[g] \in HoldsRw \cup {"done"}

(* An open probe of a process whose pid was not used again has an owner.    *)
Owned ==
    \A g \in Goroutine : pid[g] \notin recycled =>
        /\ fd(g) \in open => \/ pc[g] \in HoldsFd \/ probes[pid[g]] = g
                             \/ fd(g) \in toClose \cup taken
        /\ rw(g) \in open => \/ pc[g] \in HoldsRw \/ payloadProbes[pid[g]] = g
                             \/ rw(g) \in toClose \cup taken

(* A goroutine that may come to register a probe, or has one attached.      *)
Claims(g) == pc[g] \in Past \/ fd(g) \in open \/ rw(g) \in open

(* At most one goroutine ever attaches to a process: another one could only *)
(* start when the pid had left seen, and that is when the first was skipped *)
(* or the process is dead.                                                  *)
OneAttacher ==
    /\ \A g, h \in Goroutine :
          pid[g] = pid[h] /\ pid[g] \notin recycled /\ Claims(g) /\ Claims(h) => g = h
    /\ \A g, h \in Goroutine :
          /\ pid[g] = pid[h] /\ pid[g] \in alive \ recycled
          /\ pc[g] = "find" \/ Claims(g)
          /\ pc[h] = "find" \/ Claims(h)
          => g = h
    /\ \A g \in Goroutine :
          pid[g] \in alive \ recycled /\ (pc[g] = "find" \/ Claims(g)) => pid[g] \in seen

WatchInv ==
    Types /\ Phases /\ Registered /\ Down /\ Opened /\ Owned /\ OneAttacher

-----------------------------------------------------------------------------
(* WatchInv is inductive.                                                   *)

(* Every goroutine has two probes of its own.                               *)
LEMMA ProbeNames ==
    /\ \A g, h : (fd(g) = fd(h) => g = h) /\ (rw(g) = rw(h) => g = h) /\ fd(g) # rw(h)
    /\ \A g \in Goroutine : fd(g) \in Probe /\ rw(g) \in Probe
    /\ \A x \in Probe : \E g \in Goroutine : x = fd(g) \/ x = rw(g)
  BY DEF fd, rw, Probe

LEMMA WatchInit == Init => WatchInv
  <1> SUFFICES ASSUME Init PROVE WatchInv
    OBVIOUS
  <1>1. \A g \in Goroutine : pc[g] = "idle" /\ ~Claims(g)
    BY DEF Init, Claims, Past
  <1> QED
    BY <1>1 DEF Init, WatchInv, Types, Phases, Registered, Down, Opened, Owned, OneAttacher,
                Labels, HoldsFd, HoldsRw

(* Processes exit.                                                          *)
LEMMA ExitStep == ASSUME WatchInv, NEW p \in Pid, Exit(p) PROVE WatchInv'
  BY DEF Exit, WatchInv, Types, Phases, Registered, Down, Opened, Owned, OneAttacher, Claims,
         kernel, sem, watch, downs, regs

(* A pid is used again.                                                     *)
LEMMA RecycleStep == ASSUME WatchInv, NEW p \in Pid, Recycle(p) PROVE WatchInv'
  <1>1. /\ recycled = {} /\ recycled' = {p} /\ alive' = alive \cup {p}
        /\ UNCHANGED <<kernel, pc, pid, sem, watch, downs>>
    BY DEF Recycle
  <1>2. Types' /\ Phases' /\ Registered' /\ Down' /\ Opened'
    BY <1>1 DEF WatchInv, Types, Phases, Registered, Down, Opened, kernel, watch, regs, downs
  <1>3. Owned'
    BY <1>1 DEF WatchInv, Owned, kernel, watch, regs, downs
  <1>4. OneAttacher'
    BY <1>1 DEF WatchInv, OneAttacher, Claims, kernel, watch, regs, downs
  <1> QED
    BY <1>2, <1>3, <1>4 DEF WatchInv

(* Steps that move neither processes, goroutines nor probes.                *)
LEMMA IdleStep ==
    ASSUME WatchInv, UNCHANGED <<system, open, pc, pid, seen, probes, payloadProbes, closed, downs>>
    PROVE  WatchInv'
  BY DEF WatchInv, Types, Phases, Registered, Down, Opened, Owned, OneAttacher, Claims, system,
         downs

(* An event of a process that is not in seen starts a goroutine.            *)
LEMMA OnEventStep == ASSUME WatchInv, NEW p \in Pid, OnEvent(p) PROVE WatchInv'
  <1>1. PICK g \in Goroutine : /\ pc[g] = "idle" /\ Goto(g, "find")
                               /\ pid' = [pid EXCEPT ![g] = p]
    BY DEF OnEvent
  <1>2. /\ p \notin seen /\ seen' = seen \cup {p}
        /\ UNCHANGED <<alive, recycled, open, probes, payloadProbes, closed, reaper, toClose,
                       closer, taken>>
    BY DEF OnEvent, kernel, regs, downs, system
  <1>3. /\ pc'[g] = "find" /\ pid'[g] = p
        /\ \A h \in Goroutine : h # g => pc'[h] = pc[h] /\ pid'[h] = pid[h]
    BY <1>1 DEF Goto, WatchInv, Types
  <1>4. fd(g) \notin open /\ rw(g) \notin open /\ ~Claims(g)
    BY <1>1 DEF WatchInv, Opened, Claims, HoldsFd, HoldsRw, AfterStore, Past
  <1>5. Types'
    BY <1>1, <1>2, <1>3 DEF WatchInv, Types, Goto, Labels
  <1>6. \A q \in Pid : probes[q] # g /\ payloadProbes[q] # g
    BY <1>1, ConstantsAssumption DEF WatchInv, Registered, AfterStore
  <1>7. Phases'
    BY <1>2, <1>3 DEF WatchInv, Phases
  <1>8. Registered'
    BY <1>2, <1>3, <1>6 DEF WatchInv, Types, Registered
  <1>9. Down' /\ Opened' /\ Owned'
    BY <1>2, <1>3, <1>4 DEF WatchInv, Down, Opened, Owned, HoldsFd, HoldsRw
  <1>10. OneAttacher'
    <2>1. \A h \in Goroutine : h # g => (Claims(h)' <=> Claims(h))
      BY <1>2, <1>3 DEF Claims
    <2>2. ~Claims(g)'
      BY <1>2, <1>3, <1>4 DEF Claims, Past
    <2> QED
      BY <1>2, <1>3, <2>1, <2>2 DEF WatchInv, OneAttacher
  <1> QED
    BY <1>5, <1>7, <1>8, <1>9, <1>10 DEF WatchInv

(* A goroutine goes on, or ends, without a probe opened, registered or      *)
(* closed: from finding libssl to the slot, away from a process it skipped, *)
(* and out when a probe cannot be attached.                                 *)
LEMMA GoOnStep ==
    ASSUME WatchInv, NEW g \in Goroutine, NEW to,
           \/ pc[g] = "find" /\ pid[g] \in alive /\ to = "sem" /\ seen' = seen
           \/ pc[g] = "sem" /\ to \in {"attach", "skipped"} /\ seen' = seen
           \/ pc[g] = "skipped" /\ to = "done" /\ seen' = seen \ {pid[g]}
           \/ pc[g] \in {"find", "attach", "attachPayload"} /\ to = "done" /\ seen' = seen,
           Goto(g, to),
           UNCHANGED <<alive, recycled, open, pid, probes, payloadProbes, closed, reaper, toClose,
                       closer, taken>>
    PROVE  WatchInv'
  <1>1. /\ pc'[g] = to
        /\ \A h \in Goroutine : h # g => pc'[h] = pc[h]
    BY DEF Goto, WatchInv, Types
  <1>2. Types'
    BY DEF WatchInv, Types, Goto, Labels
  <1>3. Phases' /\ Registered' /\ Down' /\ Opened' /\ Owned'
    <2>1. /\ pc[g] \in BeforeOpen \cup {"attachPayload"} /\ to \in BeforeOpen \cup {"done"}
          /\ pc[g] = "attachPayload" => to = "done"
      BY DEF BeforeOpen
    <2>2. pc[g] \in BeforeOpen => fd(g) \notin open /\ rw(g) \notin open
      BY DEF WatchInv, Opened, BeforeOpen, HoldsFd, HoldsRw, AfterStore
    <2>3. pc[g] = "attachPayload" => rw(g) \notin open
      BY DEF WatchInv, Opened, HoldsRw
    <2>4. Phases'
      BY <1>1, <2>1 DEF WatchInv, Phases, BeforeOpen
    <2>5. Registered'
      BY <1>1, <2>1, <2>2, <2>3 DEF WatchInv, Types, Registered, AfterStore
    <2>6. Down'
      BY <1>1, <2>1, <2>2, <2>3 DEF WatchInv, Down, AfterStore
    <2>7. Opened'
      BY <1>1, <2>1, <2>2, <2>3 DEF WatchInv, Opened, AfterStore, BeforeOpen, HoldsFd, HoldsRw
    <2>8. Owned'
      BY <1>1, <2>1 DEF WatchInv, Owned, BeforeOpen, HoldsFd, HoldsRw
    <2> QED
      BY <2>4, <2>5, <2>6, <2>7, <2>8
  <1>4. OneAttacher'
    <2>1. \A h \in Goroutine : h # g => (Claims(h)' <=> Claims(h))
      BY <1>1 DEF Claims
    <2>2. CASE pc[g] = "skipped" /\ to = "done" /\ seen' = seen \ {pid[g]}
      <3>1. Claims(g) /\ ~Claims(g)'
        BY <1>1, <2>2 DEF Claims, Past, WatchInv, Opened, HoldsFd, HoldsRw, AfterStore
      <3> QED
        BY <1>1, <2>1, <2>2, <3>1 DEF WatchInv, OneAttacher
    <2>3. CASE pc[g] = "find" /\ pid[g] \in alive /\ to = "sem" /\ seen' = seen
      BY <1>1, <2>1, <2>3 DEF WatchInv, OneAttacher
    <2>4. CASE seen' = seen /\ pc[g] \in {"sem", "attach", "attachPayload"}
      <3>1. Claims(g) /\ to # "find"
        BY <2>4 DEF Claims, Past
      <3> QED
        BY <1>1, <2>1, <2>4, <3>1 DEF WatchInv, OneAttacher
    <2>5. CASE pc[g] = "find" /\ to = "done" /\ seen' = seen
      <3>1. ~Claims(g)'
        BY <1>1, <2>5 DEF Claims, Past, WatchInv, Opened, HoldsFd, HoldsRw, AfterStore
      <3> QED
        BY <1>1, <2>1, <2>5, <3>1 DEF WatchInv, OneAttacher
    <2> QED
      BY <2>2, <2>3, <2>4, <2>5
  <1> QED
    BY <1>2, <1>3, <1>4 DEF WatchInv

LEMMA FindStep == ASSUME WatchInv, NEW g \in Goroutine, Find(g) PROVE WatchInv'
  BY GoOnStep DEF Find, system, kernel, watch, regs, downs

LEMMA AcquireStep == ASSUME WatchInv, NEW g \in Goroutine, Acquire(g) PROVE WatchInv'
  BY GoOnStep DEF Acquire, system, kernel, watch, regs, downs

LEMMA SkipStep == ASSUME WatchInv, NEW g \in Goroutine, Skip(g) PROVE WatchInv'
  BY GoOnStep DEF Skip, system, kernel, regs, downs

(* A probe is attached, or the goroutine gives up.                          *)
LEMMA AttachStep ==
    ASSUME WatchInv, NEW g \in Goroutine, Attach(g) \/ AttachPayload(g)
    PROVE  WatchInv'
  <1>1. /\ pc[g] \in {"attach", "attachPayload"}
        /\ UNCHANGED <<alive, recycled, pid, seen, probes, payloadProbes, closed, reaper,
                       toClose, closer, taken>>
    BY DEF Attach, AttachPayload, AttachTo, system, watch, regs, downs
  <1>2. CASE Goto(g, "done") /\ UNCHANGED open
    BY <1>1, <1>2, GoOnStep
  <1>3. CASE pc[g] = "attach" /\ Goto(g, "store") /\ open' = open \cup {fd(g)}
    <2>1. /\ pc'[g] = "store"
          /\ \A h \in Goroutine : h # g => pc'[h] = pc[h]
      BY <1>3 DEF Goto, WatchInv, Types
    <2>2. Types'
      BY <1>1, <1>3, ProbeNames DEF WatchInv, Types, Goto, Labels
    <2>3. /\ fd(g) \notin open /\ rw(g) \notin open' /\ fd(g) \in open'
          /\ \A h \in Goroutine : /\ h # g => (fd(h) \in open' <=> fd(h) \in open)
                                  /\ rw(h) \in open' <=> rw(h) \in open
      BY <1>3, ProbeNames DEF WatchInv, Opened, HoldsFd, HoldsRw, AfterStore
    <2>4. Phases'
      BY <1>1, <2>1 DEF WatchInv, Phases
    <2>5. Registered'
      BY <1>1, <1>3, <2>1, <2>3 DEF WatchInv, Types, Registered, AfterStore
    <2>6. Down'
      BY <1>1, <1>3, <2>1, <2>3 DEF WatchInv, Down, AfterStore
    <2>7. Opened'
      BY <2>1, <2>3 DEF WatchInv, Opened, HoldsFd, HoldsRw
    <2>8. Owned'
      BY <1>1, <1>3, <2>1, <2>3 DEF WatchInv, Owned, HoldsFd, HoldsRw
    <2>9. OneAttacher'
      <3>1. \A h \in Goroutine : h # g => (Claims(h)' <=> Claims(h))
        BY <2>1, <2>3 DEF Claims
      <3>2. Claims(g)
        BY <1>3 DEF Claims, Past
      <3> QED
        BY <1>1, <2>1, <3>1, <3>2 DEF WatchInv, OneAttacher
    <2> QED
      BY <2>2, <2>4, <2>5, <2>6, <2>7, <2>8, <2>9 DEF WatchInv
  <1>4. CASE pc[g] = "attachPayload" /\ Goto(g, "storePayload") /\ open' = open \cup {rw(g)}
    <2>1. /\ pc'[g] = "storePayload"
          /\ \A h \in Goroutine : h # g => pc'[h] = pc[h]
      BY <1>4 DEF Goto, WatchInv, Types
    <2>2. Types'
      BY <1>1, <1>4, ProbeNames DEF WatchInv, Types, Goto, Labels
    <2>3. /\ rw(g) \notin open /\ rw(g) \in open'
          /\ \A h \in Goroutine : /\ h # g => (rw(h) \in open' <=> rw(h) \in open)
                                  /\ fd(h) \in open' <=> fd(h) \in open
      BY <1>4, ProbeNames DEF WatchInv, Opened, HoldsRw
    <2>4. Phases'
      BY <1>1, <2>1 DEF WatchInv, Phases
    <2>5. Registered'
      BY <1>1, <1>4, <2>1, <2>3 DEF WatchInv, Types, Registered, AfterStore
    <2>6. Down'
      BY <1>1, <1>4, <2>1, <2>3 DEF WatchInv, Down, AfterStore
    <2>7. Opened'
      BY <1>4, <2>1, <2>3 DEF WatchInv, Opened, HoldsFd, HoldsRw, AfterStore
    <2>8. Owned'
      BY <1>1, <1>4, <2>1, <2>3 DEF WatchInv, Owned, HoldsFd, HoldsRw
    <2>9. OneAttacher'
      <3>1. \A h \in Goroutine : h # g => (Claims(h)' <=> Claims(h))
        BY <2>1, <2>3 DEF Claims
      <3>2. Claims(g)
        BY <1>4 DEF Claims, Past
      <3> QED
        BY <1>1, <2>1, <3>1, <3>2 DEF WatchInv, OneAttacher
    <2> QED
      BY <2>2, <2>4, <2>5, <2>6, <2>7, <2>8, <2>9 DEF WatchInv
  <1> QED
    BY <1>2, <1>3, <1>4 DEF Attach, AttachPayload, AttachTo, Return

(* An open probe is of a goroutine that has a process.                      *)
LEMMA OpenOfProcess ==
    ASSUME WatchInv
    PROVE  \A g \in Goroutine : fd(g) \in open \/ rw(g) \in open => pid[g] \in Pid
  <1>1. \A g \in Goroutine : fd(g) \in open \/ rw(g) \in open => pc[g] # "idle"
    BY DEF WatchInv, Opened, HoldsFd, HoldsRw, AfterStore
  <1> QED
    BY <1>1 DEF WatchInv, Types

(* The fd probe is registered, or the goroutine came too late.              *)
LEMMA StoreStep == ASSUME WatchInv, NEW g \in Goroutine, Store(g) PROVE WatchInv'
  <1>1. /\ pc[g] = "store" /\ pid[g] \in Pid
        /\ UNCHANGED <<alive, recycled, open, pid, seen, payloadProbes, closed, reaper, toClose,
                       closer, taken>>
    BY DEF Store, system, kernel, downs, WatchInv, Types
  <1>2. /\ fd(g) \in open /\ fd(g) \notin toClose \cup taken /\ rw(g) \notin open
        /\ Claims(g) /\ \A p \in Pid : probes[p] # g /\ payloadProbes[p] # g
    BY <1>1, ConstantsAssumption
       DEF WatchInv, Opened, Down, Registered, HoldsFd, HoldsRw, AfterStore, Claims, Past
  <1>3. CASE closed /\ Goto(g, "closeFd") /\ UNCHANGED probes
    <2>1. /\ pc'[g] = "closeFd"
          /\ \A h \in Goroutine : h # g => pc'[h] = pc[h]
      BY <1>3 DEF Goto, WatchInv, Types
    <2>2. Types'
      BY <1>1, <1>3 DEF WatchInv, Types, Goto, Labels
    <2>3. Phases' /\ Registered' /\ Down'
      BY <1>1, <1>2, <1>3, <2>1 DEF WatchInv, Types, Phases, Registered, Down
    <2>4. Opened' /\ Owned'
      BY <1>1, <1>3, <2>1 DEF WatchInv, Opened, Owned, HoldsFd, HoldsRw, AfterStore
    <2>5. OneAttacher'
      <3>1. \A h \in Goroutine : h # g => (Claims(h)' <=> Claims(h))
        BY <1>1, <2>1 DEF Claims
      <3> QED
        BY <1>1, <1>2, <2>1, <3>1 DEF WatchInv, OneAttacher
    <2> QED
      BY <2>2, <2>3, <2>4, <2>5 DEF WatchInv
  <1>4. CASE ~closed /\ Goto(g, "attachPayload") /\ probes' = [probes EXCEPT ![pid[g]] = g]
    <2>1. /\ pc'[g] = "attachPayload"
          /\ \A h \in Goroutine : h # g => pc'[h] = pc[h]
          /\ probes'[pid[g]] = g
          /\ \A p \in Pid : p # pid[g] => probes'[p] = probes[p]
      BY <1>1, <1>4 DEF Goto, WatchInv, Types
    <2>2. Types'
      BY <1>1, <1>4 DEF WatchInv, Types, Goto, Labels
    <2>3. Phases'
      BY <1>1, <1>4, <2>1 DEF WatchInv, Phases
    <2>4. Registered'
      BY <1>1, <1>2, <2>1 DEF WatchInv, Types, Registered, AfterStore
    <2>5. Down'
      BY <1>1, <1>2, <2>1 DEF WatchInv, Down, AfterStore
    <2>6. Opened'
      BY <1>1, <1>2, <2>1 DEF WatchInv, Opened, HoldsFd, HoldsRw, AfterStore
    <2>7. Owned'
      <3>1. \A h \in Goroutine : h # g /\ pid[h] = pid[g] /\ pid[h] \notin recycled =>
               fd(h) \notin open
        BY <1>2 DEF WatchInv, OneAttacher, Claims
      <3>2. \A h \in Goroutine : fd(h) \in open \/ rw(h) \in open => pid[h] \in Pid
        BY OpenOfProcess
      <3> SUFFICES ASSUME NEW h \in Goroutine, pid[h] \notin recycled
                   PROVE  /\ fd(h) \in open => \/ pc'[h] \in HoldsFd \/ probes'[pid[h]] = h
                                               \/ fd(h) \in toClose \cup taken
                          /\ rw(h) \in open => \/ pc'[h] \in HoldsRw
                                               \/ payloadProbes[pid[h]] = h
                                               \/ rw(h) \in toClose \cup taken
        BY <1>1 DEF Owned
      <3>3. CASE h = g
        BY <1>2, <2>1, <3>3
      <3>4. CASE h # g
        <4>1. pc'[h] = pc[h]
          BY <2>1, <3>4
        <4>2. fd(h) \in open => probes'[pid[h]] = probes[pid[h]]
          BY <2>1, <3>1, <3>2, <3>4
        <4> QED
          BY <4>1, <4>2 DEF WatchInv, Owned
      <3> QED
        BY <3>3, <3>4
    <2>8. OneAttacher'
      <3>1. \A h \in Goroutine : h # g => (Claims(h)' <=> Claims(h))
        BY <1>1, <2>1 DEF Claims
      <3> QED
        BY <1>1, <1>2, <2>1, <3>1 DEF WatchInv, OneAttacher
    <2> QED
      BY <2>2, <2>3, <2>4, <2>5, <2>6, <2>7, <2>8 DEF WatchInv
  <1> QED
    BY <1>3, <1>4 DEF Store

(* The rw probe is registered, or the goroutine came too late.              *)
LEMMA StorePayloadStep == ASSUME WatchInv, NEW g \in Goroutine, StorePayload(g) PROVE WatchInv'
  <1>1. /\ pc[g] = "storePayload" /\ pid[g] \in Pid
        /\ UNCHANGED <<alive, recycled, open, pid, seen, probes, closed, reaper, toClose,
                       closer, taken>>
    BY DEF StorePayload, system, kernel, downs, WatchInv, Types
  <1>2. /\ rw(g) \in open /\ rw(g) \notin toClose \cup taken
        /\ Claims(g) /\ \A p \in Pid : payloadProbes[p] # g
    BY <1>1, ConstantsAssumption
       DEF WatchInv, Opened, Down, Registered, HoldsRw, Claims, Past
  <1>3. CASE closed /\ Goto(g, "closeRw") /\ UNCHANGED payloadProbes
    <2>1. /\ pc'[g] = "closeRw"
          /\ \A h \in Goroutine : h # g => pc'[h] = pc[h]
      BY <1>3 DEF Goto, WatchInv, Types
    <2>2. Types'
      BY <1>1, <1>3 DEF WatchInv, Types, Goto, Labels
    <2>3. Phases' /\ Registered' /\ Down'
      BY <1>1, <1>2, <1>3, <2>1 DEF WatchInv, Types, Phases, Registered, Down, AfterStore
    <2>4. Opened' /\ Owned'
      BY <1>1, <1>3, <2>1 DEF WatchInv, Opened, Owned, HoldsFd, HoldsRw, AfterStore
    <2>5. OneAttacher'
      <3>1. \A h \in Goroutine : h # g => (Claims(h)' <=> Claims(h))
        BY <1>1, <2>1 DEF Claims
      <3> QED
        BY <1>1, <1>2, <2>1, <3>1 DEF WatchInv, OneAttacher
    <2> QED
      BY <2>2, <2>3, <2>4, <2>5 DEF WatchInv
  <1>4. CASE /\ ~closed /\ Goto(g, "done")
             /\ payloadProbes' = [payloadProbes EXCEPT ![pid[g]] = g]
    <2>1. /\ pc'[g] = "done"
          /\ \A h \in Goroutine : h # g => pc'[h] = pc[h]
          /\ payloadProbes'[pid[g]] = g
          /\ \A p \in Pid : p # pid[g] => payloadProbes'[p] = payloadProbes[p]
      BY <1>1, <1>4 DEF Goto, WatchInv, Types
    <2>2. Types'
      BY <1>1, <1>4 DEF WatchInv, Types, Goto, Labels
    <2>3. Phases'
      BY <1>1, <1>4, <2>1 DEF WatchInv, Phases
    <2>4. Registered'
      BY <1>1, <1>2, <2>1 DEF WatchInv, Types, Registered, AfterStore
    <2>5. Down'
      BY <1>1, <1>2, <2>1 DEF WatchInv, Down, AfterStore
    <2>6. Opened'
      BY <1>1, <1>2, <2>1 DEF WatchInv, Opened, HoldsFd, HoldsRw, AfterStore
    <2>7. Owned'
      <3>1. \A h \in Goroutine : h # g /\ pid[h] = pid[g] /\ pid[h] \notin recycled =>
               rw(h) \notin open
        BY <1>2 DEF WatchInv, OneAttacher, Claims
      <3>2. \A h \in Goroutine : fd(h) \in open \/ rw(h) \in open => pid[h] \in Pid
        BY OpenOfProcess
      <3> SUFFICES ASSUME NEW h \in Goroutine, pid[h] \notin recycled
                   PROVE  /\ fd(h) \in open => \/ pc'[h] \in HoldsFd \/ probes[pid[h]] = h
                                               \/ fd(h) \in toClose \cup taken
                          /\ rw(h) \in open => \/ pc'[h] \in HoldsRw
                                               \/ payloadProbes'[pid[h]] = h
                                               \/ rw(h) \in toClose \cup taken
        BY <1>1 DEF Owned
      <3>3. CASE h = g
        <4>1. pc[h] \notin HoldsFd
          BY <1>1, <3>3 DEF HoldsFd
        <4> QED
          BY <2>1, <3>3, <4>1 DEF WatchInv, Owned
      <3>4. CASE h # g
        <4>1. pc'[h] = pc[h]
          BY <2>1, <3>4
        <4>2. rw(h) \in open => payloadProbes'[pid[h]] = payloadProbes[pid[h]]
          BY <2>1, <3>1, <3>2, <3>4
        <4> QED
          BY <4>1, <4>2 DEF WatchInv, Owned
      <3> QED
        BY <3>3, <3>4
    <2>8. OneAttacher'
      <3>1. \A h \in Goroutine : h # g => (Claims(h)' <=> Claims(h))
        BY <1>1, <2>1 DEF Claims
      <3>2. pc'[g] # "find"
        BY <2>1
      <3> QED
        BY <1>1, <1>2, <2>1, <3>1, <3>2 DEF WatchInv, OneAttacher
    <2> QED
      BY <2>2, <2>3, <2>4, <2>5, <2>6, <2>7, <2>8 DEF WatchInv
  <1> QED
    BY <1>3, <1>4 DEF StorePayload, Return

(* A probe that one of its owners closes: open loses it, and so does that   *)
(* owner.                                                                   *)
LEMMA CloseOwnStep == ASSUME WatchInv, NEW g \in Goroutine, CloseOwn(g) PROVE WatchInv'
  <1>1. /\ Goto(g, "done")
        /\ UNCHANGED <<alive, recycled, pid, seen, probes, payloadProbes, closed, reaper,
                       toClose, closer, taken>>
    BY DEF CloseOwn, Return, system, watch, regs, downs
  <1>2. /\ pc'[g] = "done"
        /\ \A h \in Goroutine : h # g => pc'[h] = pc[h]
    BY <1>1 DEF Goto, WatchInv, Types
  <1>3. PICK x \in {fd(g), rw(g)} :
           /\ open' = open \ {x}
           /\ \/ pc[g] = "closeFd" /\ x = fd(g) /\ rw(g) \notin open
              \/ pc[g] = "closeRw" /\ x = rw(g)
    BY DEF CloseOwn, WatchInv, Opened, HoldsRw
  <1>4. /\ \A h \in Goroutine : /\ fd(h) # x => (fd(h) \in open' <=> fd(h) \in open)
                                /\ rw(h) # x => (rw(h) \in open' <=> rw(h) \in open)
        /\ x \notin open'
        /\ \A h \in Goroutine : h # g => fd(h) # x /\ rw(h) # x
        /\ fd(g) # rw(g)
    BY <1>3, ProbeNames
  <1>5. /\ x \notin toClose \cup taken
        /\ \A p \in Pid : /\ probes[p] # None => fd(probes[p]) # x
                          /\ payloadProbes[p] # None => rw(payloadProbes[p]) # x
    <2>1. x \notin toClose \cup taken
      BY <1>3 DEF WatchInv, Down, AfterStore
    <2> QED
      BY <1>3, <2>1, ProbeNames DEF WatchInv, Registered, AfterStore
  <1>6. Types'
    BY <1>1, <1>3 DEF WatchInv, Types, Goto, Labels
  <1>7. Phases'
    BY <1>1, <1>2 DEF WatchInv, Phases
  <1>8. Registered'
    BY <1>1, <1>2, <1>3, <1>5 DEF WatchInv, Types, Registered, AfterStore
  <1>9. Down'
    BY <1>1, <1>2, <1>3, <1>5 DEF WatchInv, Down, AfterStore
  <1>10. Opened'
    BY <1>1, <1>2, <1>3, <1>4 DEF WatchInv, Opened, HoldsFd, HoldsRw, AfterStore
  <1>11. Owned'
    BY <1>1, <1>2, <1>3, <1>4 DEF WatchInv, Owned, HoldsFd, HoldsRw
  <1>12. OneAttacher'
    <2>1. \A h \in Goroutine : Claims(h)' => Claims(h)
      BY <1>2, <1>3 DEF Claims, Past
    <2>2. \A h \in Goroutine : pc'[h] = "find" => pc[h] = "find"
      BY <1>2
    <2> QED
      BY <1>1, <2>1, <2>2 DEF WatchInv, OneAttacher
  <1> QED
    BY <1>6, <1>7, <1>8, <1>9, <1>10, <1>11, <1>12 DEF WatchInv

(* The reaper or Close closes one of the probes it has taken.               *)
LEMMA CloseTakenStep ==
    ASSUME WatchInv, NEW x \in toClose \cup taken,
           open' = open \ {x}, toClose' = toClose \ {x}, taken' = taken \ {x},
           reaper' \in {"idle", "closing", "stopped"}, reaper' # "closing" => toClose' = {},
           UNCHANGED <<alive, recycled, pc, pid, seen, probes, payloadProbes, closed, closer>>
    PROVE  WatchInv'
  <1>1. Types' /\ Phases' /\ Down'
    BY DEF WatchInv, Types, Phases, Down
  <1>2. Registered'
    <2>1. \A p \in Pid : /\ probes[p] # None => fd(probes[p]) # x
                         /\ payloadProbes[p] # None => rw(payloadProbes[p]) # x
      BY DEF WatchInv, Registered
    <2> QED
      BY <2>1 DEF WatchInv, Registered
  <1>3. Opened'
    <2>1. \A g \in Goroutine : /\ pc[g] \in HoldsFd => fd(g) # x
                               /\ pc[g] \in HoldsRw => rw(g) # x
      BY DEF WatchInv, Down, HoldsFd, HoldsRw, AfterStore
    <2> QED
      <3>1. \A y : (y \in open' => y \in open) /\ (y \in open /\ y # x => y \in open')
        OBVIOUS
      <3>2. \A g \in Goroutine : /\ pc[g] \in HoldsFd => fd(g) \in open'
                                 /\ pc[g] \in HoldsRw => rw(g) \in open'
        BY <2>1, <3>1 DEF WatchInv, Opened
      <3>3. \A g \in Goroutine : /\ fd(g) \in open' => pc[g] \in HoldsFd \cup AfterStore
                                 /\ rw(g) \in open' => pc[g] \in HoldsRw \cup {"done"}
        BY <3>1 DEF WatchInv, Opened
      <3>4. pc' = pc
        OBVIOUS
      <3> QED
        BY <3>2, <3>3, <3>4 DEF Opened, HoldsFd, HoldsRw, AfterStore
  <1>4. Owned'
    BY DEF WatchInv, Owned
  <1>5. OneAttacher'
    BY DEF WatchInv, OneAttacher, Claims
  <1> QED
    BY <1>1, <1>2, <1>3, <1>4, <1>5 DEF WatchInv

(* The probes registered for a set of processes.                            *)
LEMMA ProbesOfFacts ==
    ASSUME Types, NEW P \in SUBSET Pid
    PROVE  /\ ProbesOf(P) \subseteq Probe
           /\ \A g \in Goroutine : /\ fd(g) \in ProbesOf(P) <=> \E p \in P : probes[p] = g
                                   /\ rw(g) \in ProbesOf(P) <=>
                                         \E p \in P : payloadProbes[p] = g
  <1>1. \A p \in Pid : /\ probes[p] # None => probes[p] \in Goroutine
                       /\ payloadProbes[p] # None => payloadProbes[p] \in Goroutine
    BY DEF Types
  <1>2. ProbesOf(P) \subseteq Probe
    <2>1. \A p \in P : /\ probes[p] # None => fd(probes[p]) \in Probe
                       /\ payloadProbes[p] # None => rw(payloadProbes[p]) \in Probe
      BY <1>1 DEF fd, rw, Probe
    <2> QED
      BY <2>1 DEF ProbesOf
  <1>3. \A g \in Goroutine : fd(g) \in ProbesOf(P) <=> \E p \in P : probes[p] = g
    BY <1>1, ProbeNames, ConstantsAssumption DEF ProbesOf
  <1>4. \A g \in Goroutine : rw(g) \in ProbesOf(P) <=> \E p \in P : payloadProbes[p] = g
    BY <1>1, ProbeNames, ConstantsAssumption DEF ProbesOf
  <1> QED
    BY <1>2, <1>3, <1>4

(* A set of registrations is taken over: by the reaper, which holds nothing *)
(* and takes those of dead processes, or by Close, which takes all.         *)
LEMMA HandOverStep ==
    ASSUME WatchInv, NEW P \in SUBSET Pid, ~closed,
           probes' = Without(probes, P), payloadProbes' = Without(payloadProbes, P),
           toClose' \cap taken' = {}, toClose' \cup taken' = toClose \cup taken \cup ProbesOf(P),
           reaper' \in {"idle", "closing", "stopped"}, reaper' # "closing" => toClose' = {},
           \/ closed' = closed /\ closer' = closer /\ taken' = {} /\ seen' = seen \ P
              /\ P \cap alive = {}
           \/ closed' = TRUE /\ closer' = "closing" /\ P = Pid /\ seen' = seen,
           UNCHANGED <<alive, recycled, open, pc, pid>>
    PROVE  WatchInv'
  <1>1. /\ ProbesOf(P) \subseteq Probe
        /\ \A g \in Goroutine : /\ fd(g) \in ProbesOf(P) <=> \E p \in P : probes[p] = g
                                /\ rw(g) \in ProbesOf(P) <=> \E p \in P : payloadProbes[p] = g
    BY ProbesOfFacts DEF WatchInv
  <1>2. \A p \in Pid : /\ probes'[p] = IF p \in P THEN None ELSE probes[p]
                       /\ payloadProbes'[p] = IF p \in P THEN None ELSE payloadProbes[p]
    BY DEF Without
  <1>3. Types'
    BY <1>1 DEF WatchInv, Types, Without
  <1>4. Phases'
    BY <1>2 DEF WatchInv, Phases
  <1>5. Registered'
    <2>1. \A p \in Pid \ P : /\ probes[p] # None => fd(probes[p]) \notin ProbesOf(P)
                             /\ payloadProbes[p] # None => rw(payloadProbes[p]) \notin ProbesOf(P)
      <3>1. \A p \in Pid : /\ probes[p] # None => probes[p] \in Goroutine /\ pid[probes[p]] = p
                           /\ payloadProbes[p] # None => /\ payloadProbes[p] \in Goroutine
                                                         /\ pid[payloadProbes[p]] = p
        BY DEF WatchInv, Types, Registered
      <3>2. ASSUME NEW p \in Pid \ P, probes[p] # None
            PROVE  fd(probes[p]) \notin ProbesOf(P)
        <4>1. probes[p] \in Goroutine /\ ~\E q \in P : probes[q] = probes[p]
          BY <3>1, <3>2
        <4> QED
          BY <1>1, <4>1
      <3>3. ASSUME NEW p \in Pid \ P, payloadProbes[p] # None
            PROVE  rw(payloadProbes[p]) \notin ProbesOf(P)
        <4>1. /\ payloadProbes[p] \in Goroutine
              /\ ~\E q \in P : payloadProbes[q] = payloadProbes[p]
          BY <3>1, <3>3
        <4> QED
          BY <1>1, <4>1
      <3> QED
        BY <3>2, <3>3
    <2>2. \A x : x \in toClose' \cup taken' <=> x \in toClose \cup taken \cup ProbesOf(P)
      OBVIOUS
    <2>3. ASSUME NEW p \in Pid, probes'[p] # None
          PROVE  /\ pid[probes'[p]] = p /\ pc[probes'[p]] \in AfterStore
                 /\ fd(probes'[p]) \in open /\ fd(probes'[p]) \notin toClose' \cup taken'
      <3>1. p \notin P /\ probes'[p] = probes[p]
        BY <1>2, <2>3
      <3>2. /\ pid[probes[p]] = p /\ pc[probes[p]] \in AfterStore
            /\ fd(probes[p]) \in open /\ fd(probes[p]) \notin toClose \cup taken
        BY <2>3, <3>1 DEF WatchInv, Registered
      <3>3. fd(probes[p]) \notin ProbesOf(P)
        BY <2>1, <2>3, <3>1
      <3>4. fd(probes[p]) \notin toClose' \cup taken'
        BY <2>2, <3>2, <3>3
      <3> QED
        BY <3>1, <3>2, <3>4
    <2>4. ASSUME NEW p \in Pid, payloadProbes'[p] # None
          PROVE  /\ pid[payloadProbes'[p]] = p /\ pc[payloadProbes'[p]] = "done"
                 /\ rw(payloadProbes'[p]) \in open
                 /\ rw(payloadProbes'[p]) \notin toClose' \cup taken'
      <3>1. p \notin P /\ payloadProbes'[p] = payloadProbes[p]
        BY <1>2, <2>4
      <3>2. /\ pid[payloadProbes[p]] = p /\ pc[payloadProbes[p]] = "done"
            /\ rw(payloadProbes[p]) \in open /\ rw(payloadProbes[p]) \notin toClose \cup taken
        BY <2>4, <3>1 DEF WatchInv, Registered
      <3>3. rw(payloadProbes[p]) \notin ProbesOf(P)
        BY <2>1, <2>4, <3>1
      <3>4. rw(payloadProbes[p]) \notin toClose' \cup taken'
        BY <2>2, <3>2, <3>3
      <3> QED
        BY <3>1, <3>2, <3>4
    <2> QED
      BY <2>3, <2>4 DEF Registered
  <1>6. Down'
    BY <1>1, ConstantsAssumption DEF WatchInv, Down, Registered
  <1>7. Opened'
    BY DEF WatchInv, Opened
  <1>8. Owned'
    <2>1. \A g \in Goroutine : /\ probes[pid[g]] = g /\ pid[g] \in P => fd(g) \in ProbesOf(P)
                               /\ payloadProbes[pid[g]] = g /\ pid[g] \in P =>
                                    rw(g) \in ProbesOf(P)
      BY <1>1
    <2>2. \A g \in Goroutine : fd(g) \in open \/ rw(g) \in open => pid[g] \in Pid
      BY DEF WatchInv, Opened, Types, HoldsFd, HoldsRw, AfterStore
    <2>3. \A g \in Goroutine : pid[g] \in Pid \ P => /\ probes'[pid[g]] = probes[pid[g]]
                                                     /\ payloadProbes'[pid[g]] = payloadProbes[pid[g]]
      BY <1>2
    <2>4. \A x : x \in toClose' \cup taken' <=> x \in toClose \cup taken \cup ProbesOf(P)
      OBVIOUS
    <2> SUFFICES ASSUME NEW g \in Goroutine, pid[g] \notin recycled
                 PROVE  /\ fd(g) \in open => \/ pc[g] \in HoldsFd \/ probes'[pid[g]] = g
                                             \/ fd(g) \in toClose' \cup taken'
                        /\ rw(g) \in open => \/ pc[g] \in HoldsRw \/ payloadProbes'[pid[g]] = g
                                             \/ rw(g) \in toClose' \cup taken'
      BY DEF Owned
    <2>5. /\ fd(g) \in open => \/ pc[g] \in HoldsFd \/ probes[pid[g]] = g
                               \/ fd(g) \in toClose \cup taken
          /\ rw(g) \in open => \/ pc[g] \in HoldsRw \/ payloadProbes[pid[g]] = g
                               \/ rw(g) \in toClose \cup taken
      BY DEF WatchInv, Owned
    <2>6. CASE pid[g] \in P
      BY <2>1, <2>4, <2>5, <2>6
    <2>7. CASE pid[g] \in Pid \ P
      BY <2>3, <2>4, <2>5, <2>7
    <2> QED
      BY <2>2, <2>6, <2>7
  <1>9. OneAttacher'
    BY DEF WatchInv, OneAttacher, Claims
  <1> QED
    BY <1>3, <1>4, <1>5, <1>6, <1>7, <1>8, <1>9 DEF WatchInv

LEMMA ReapStep == ASSUME WatchInv, reapDeadProbes PROVE WatchInv'
  <1>1. /\ reaper = "idle" /\ ~closed
        /\ toClose' = ProbesOf(Reapable) /\ reaper' = "closing"
        /\ probes' = Without(probes, Reapable) /\ payloadProbes' = Without(payloadProbes, Reapable)
        /\ seen' = seen \ Reapable
        /\ UNCHANGED <<alive, recycled, open, pc, pid, closed, closer, taken>>
    BY DEF reapDeadProbes, system, kernel
  <1>2. Reapable \subseteq Pid /\ Reapable \cap alive = {}
    BY DEF Reapable
  <1>3. toClose = {} /\ taken = {}
    BY <1>1 DEF WatchInv, Phases
  <1> QED
    BY <1>1, <1>2, <1>3, HandOverStep

LEMMA TakeAllStep == ASSUME WatchInv, TakeAll PROVE WatchInv'
  <1>1. /\ closer = "stopping" /\ reaper = "stopped"
        /\ closed' = TRUE /\ taken' = ProbesOf(Pid) /\ closer' = "closing"
        /\ probes' = Without(probes, Pid) /\ payloadProbes' = Without(payloadProbes, Pid)
        /\ UNCHANGED <<alive, recycled, open, pc, pid, seen, reaper, toClose>>
    BY DEF TakeAll, system, kernel
  <1>2. ~closed /\ toClose = {} /\ taken = {}
    BY <1>1 DEF WatchInv, Phases
  <1> QED
    BY <1>1, <1>2, HandOverStep

LEMMA ReaperClosesStep == ASSUME WatchInv, ReaperCloses PROVE WatchInv'
  <1>1. PICK x \in toClose : /\ open' = open \ {x} /\ toClose' = toClose \ {x}
                             /\ reaper' = IF toClose = {x} THEN "idle" ELSE "closing"
    BY DEF ReaperCloses
  <1>2. UNCHANGED <<alive, recycled, pc, pid, seen, probes, payloadProbes, closed, closer, taken>>
    BY DEF ReaperCloses, system, watch, regs
  <1>3. taken' = taken \ {x}
    BY <1>2 DEF WatchInv, Down
  <1> QED
    BY <1>1, <1>2, <1>3, CloseTakenStep

LEMMA CloserClosesStep == ASSUME WatchInv, CloserCloses PROVE WatchInv'
  <1>1. PICK x \in taken : open' = open \ {x} /\ taken' = taken \ {x}
    BY DEF CloserCloses
  <1>2. UNCHANGED <<alive, recycled, pc, pid, seen, probes, payloadProbes, closed, reaper, toClose,
                    closer>>
    BY DEF CloserCloses, system, watch, regs
  <1>3. toClose' = toClose \ {x}
    BY <1>2 DEF WatchInv, Down
  <1>4. reaper \in {"idle", "closing", "stopped"} /\ (reaper # "closing" => toClose = {})
    BY DEF WatchInv, Types, Phases
  <1> QED
    BY <1>1, <1>2, <1>3, <1>4, CloseTakenStep

(* The reaper stops, Close begins and Close returns: only a phase moves.    *)
LEMMA PhaseStep == ASSUME WatchInv, ReaperStops \/ BeginClose \/ CloseReturns PROVE WatchInv'
  <1>1. UNCHANGED <<alive, recycled, open, pc, pid, seen, probes, payloadProbes, closed, toClose,
                    taken>>
    BY DEF ReaperStops, BeginClose, CloseReturns, system, kernel, watch, regs
  <1>2. \/ reaper = "idle" /\ reaper' = "stopped" /\ closer' = closer
        \/ closer = "running" /\ closer' = "stopping" /\ reaper' = reaper
        \/ closer = "closing" /\ closer' = "closed" /\ reaper' = reaper
    BY DEF ReaperStops, BeginClose, CloseReturns
  <1>3. Types' /\ Phases'
    BY <1>1, <1>2 DEF WatchInv, Types, Phases
  <1>4. Registered' /\ Down' /\ Opened' /\ Owned'
    BY <1>1 DEF WatchInv, Registered, Down, Opened, Owned
  <1>5. OneAttacher'
    BY <1>1 DEF WatchInv, OneAttacher, Claims
  <1> QED
    BY <1>3, <1>4, <1>5 DEF WatchInv

LEMMA WatchNext == ASSUME WatchInv, [Next]_vars PROVE WatchInv'
  <1>1. CASE \E p \in Pid : Exit(p) \/ Recycle(p) \/ OnEvent(p)
    BY <1>1, ExitStep, RecycleStep, OnEventStep
  <1>2. CASE \E x \in Probe : Drop(x)
    BY <1>2, IdleStep DEF Drop, watch, regs
  <1>3. ASSUME NEW g \in Goroutine, GoroutineStep(g) PROVE WatchInv'
    BY <1>3, FindStep, AcquireStep, SkipStep, AttachStep, StoreStep, StorePayloadStep, CloseOwnStep
       DEF GoroutineStep
  <1>4. CASE reapDeadProbes \/ ReaperCloses \/ ReaperStops
    BY <1>4, ReapStep, ReaperClosesStep, PhaseStep
  <1>5. CASE BeginClose \/ CloserStep
    BY <1>5, TakeAllStep, CloserClosesStep, PhaseStep DEF CloserStep
  <1>6. CASE UNCHANGED vars
    BY <1>6, IdleStep DEF vars, kernel, watch, regs
  <1> QED
    BY <1>1, <1>2, <1>3, <1>4, <1>5, <1>6 DEF Next

THEOREM WatchInvariant == Spec => []WatchInv
  <1> QED
    BY WatchInit, WatchNext, PTL DEF Spec

-----------------------------------------------------------------------------
(* One owner for every probe.                                               *)

(* The four owners share no probe, and own the open probes of a process     *)
(* whose pid was not used again.                                            *)
LEMMA OwnersPart ==
    ASSUME WatchInv
    PROVE  /\ HeldByGoroutine \cap ProbesOf(Pid) = {} /\ HeldByGoroutine \cap toClose = {}
           /\ HeldByGoroutine \cap taken = {} /\ ProbesOf(Pid) \cap toClose = {}
           /\ ProbesOf(Pid) \cap taken = {} /\ toClose \cap taken = {}
  <1>1. /\ ProbesOf(Pid) \subseteq Probe /\ toClose \subseteq Probe /\ taken \subseteq Probe
        /\ \A g \in Goroutine : /\ fd(g) \in ProbesOf(Pid) <=> \E p \in Pid : probes[p] = g
                                /\ rw(g) \in ProbesOf(Pid) <=> \E p \in Pid : payloadProbes[p] = g
    BY ProbesOfFacts DEF WatchInv, Types
  <1>2. \A g \in Goroutine : /\ fd(g) \in HeldByGoroutine <=> pc[g] \in HoldsFd
                             /\ rw(g) \in HeldByGoroutine <=> pc[g] \in HoldsRw
    BY ProbeNames DEF HeldByGoroutine, HoldsFd, HoldsRw
  <1>3. \A g \in Goroutine :
           /\ fd(g) \in ProbesOf(Pid) => pc[g] \in AfterStore /\ fd(g) \notin toClose \cup taken
           /\ rw(g) \in ProbesOf(Pid) => pc[g] = "done" /\ rw(g) \notin toClose \cup taken
    BY <1>1, ConstantsAssumption DEF WatchInv, Registered
  <1>4. \A g \in Goroutine : /\ fd(g) \in toClose \cup taken => pc[g] \in AfterStore
                             /\ rw(g) \in toClose \cup taken => pc[g] = "done"
    BY DEF WatchInv, Down
  <1>5. HoldsFd \cap AfterStore = {} /\ "done" \notin HoldsRw
    BY DEF HoldsFd, HoldsRw, AfterStore
  <1>6. ASSUME NEW x \in Probe
        PROVE  /\ x \in ProbesOf(Pid) => x \notin HeldByGoroutine /\ x \notin toClose \cup taken
               /\ x \in toClose \cup taken => x \notin HeldByGoroutine
    <2>1. PICK g \in Goroutine : x = fd(g) \/ x = rw(g)
      BY <1>6, ProbeNames
    <2> QED
      BY <2>1, <1>2, <1>3, <1>4, <1>5
  <1>7. toClose \cap taken = {}
    BY DEF WatchInv, Down
  <1> QED
    BY <1>1, <1>6, <1>7

LEMMA OwnersCover ==
    ASSUME WatchInv
    PROVE  \A x : x \in Regular(open) <=>
              \/ x \in Regular(HeldByGoroutine) \/ x \in Regular(ProbesOf(Pid))
              \/ x \in Regular(toClose) \/ x \in Regular(taken)
  <1>1. /\ ProbesOf(Pid) \subseteq Probe /\ toClose \subseteq Probe /\ taken \subseteq Probe
        /\ open \subseteq Probe /\ HeldByGoroutine \subseteq Probe
    BY ProbesOfFacts, ProbeNames DEF WatchInv, Types, HeldByGoroutine
  <1>2. \A g \in Goroutine : /\ fd(g) \in ProbesOf(Pid) <=> \E p \in Pid : probes[p] = g
                             /\ rw(g) \in ProbesOf(Pid) <=> \E p \in Pid : payloadProbes[p] = g
    BY ProbesOfFacts DEF WatchInv
  <1>3. \A g \in Goroutine : /\ fd(g) \in HeldByGoroutine <=> pc[g] \in HoldsFd
                             /\ rw(g) \in HeldByGoroutine <=> pc[g] \in HoldsRw
    BY ProbeNames DEF HeldByGoroutine, HoldsFd, HoldsRw
  <1>4. \A g \in Goroutine : fd(g)[1] = g /\ rw(g)[1] = g
    BY DEF fd, rw
  <1>5. ASSUME NEW g \in Goroutine
        PROVE  /\ fd(g) \in HeldByGoroutine \cup ProbesOf(Pid) \cup toClose \cup taken =>
                     fd(g) \in open
               /\ rw(g) \in HeldByGoroutine \cup ProbesOf(Pid) \cup toClose \cup taken =>
                     rw(g) \in open
    <2>1. /\ fd(g) \in HeldByGoroutine => fd(g) \in open
          /\ rw(g) \in HeldByGoroutine => rw(g) \in open
      BY <1>3 DEF WatchInv, Opened
    <2>2. /\ fd(g) \in ProbesOf(Pid) => fd(g) \in open
          /\ rw(g) \in ProbesOf(Pid) => rw(g) \in open
      BY <1>2, ConstantsAssumption DEF WatchInv, Registered
    <2> QED
      BY <2>1, <2>2 DEF WatchInv, Down
  <1>6. ASSUME NEW g \in Goroutine, pid[g] \notin recycled
        PROVE  /\ fd(g) \in open => \/ fd(g) \in HeldByGoroutine \/ fd(g) \in ProbesOf(Pid)
                                    \/ fd(g) \in toClose \/ fd(g) \in taken
               /\ rw(g) \in open => \/ rw(g) \in HeldByGoroutine \/ rw(g) \in ProbesOf(Pid)
                                    \/ rw(g) \in toClose \/ rw(g) \in taken
    <2>1. fd(g) \in open \/ rw(g) \in open => pid[g] \in Pid
      BY OpenOfProcess
    <2>2. /\ fd(g) \in open => \/ pc[g] \in HoldsFd \/ probes[pid[g]] = g
                               \/ fd(g) \in toClose \cup taken
          /\ rw(g) \in open => \/ pc[g] \in HoldsRw \/ payloadProbes[pid[g]] = g
                               \/ rw(g) \in toClose \cup taken
      BY <1>6 DEF WatchInv, Owned
    <2> QED
      BY <1>2, <1>3, <2>1, <2>2
  <1>7. ASSUME NEW x \in Probe
        PROVE  x \in Regular(open) <=>
                  \/ x \in Regular(HeldByGoroutine) \/ x \in Regular(ProbesOf(Pid))
                  \/ x \in Regular(toClose) \/ x \in Regular(taken)
    <2>1. PICK g \in Goroutine : x = fd(g) \/ x = rw(g)
      BY <1>7, ProbeNames
    <2>2. x[1] = g
      BY <1>4, <2>1
    <2>3. CASE pid[g] \in recycled
      BY <2>2, <2>3 DEF Regular
    <2>4. CASE pid[g] \notin recycled
      <3>1. x \in open <=> \/ x \in HeldByGoroutine \/ x \in ProbesOf(Pid)
                           \/ x \in toClose \/ x \in taken
        BY <1>5, <1>6, <2>1, <2>4
      <3> QED
        BY <2>2, <2>4, <3>1 DEF Regular
    <2> QED
      BY <2>3, <2>4
  <1> QED
    BY <1>1, <1>7 DEF Regular

(* Every attached probe of a process whose pid was not used again has an    *)
(* owner that will close it, and no probe has two: Close, the reaper and a  *)
(* late attach leave none behind and close none twice (tlswatch.go).        *)
THEOREM EveryProbeOwnedHolds == Spec => []EveryProbeOwned
  <1>1. ASSUME WatchInv PROVE EveryProbeOwned
    <2> DEFINE owners == <<HeldByGoroutine, ProbesOf(Pid), toClose, taken>>
    <2>1. /\ owners[1] = HeldByGoroutine /\ owners[2] = ProbesOf(Pid)
          /\ owners[3] = toClose /\ owners[4] = taken
      OBVIOUS
    <2>2. \A i \in 1..4 : i = 1 \/ i = 2 \/ i = 3 \/ i = 4
      OBVIOUS
    <2> HIDE DEF owners
    <2>3. \A i, j \in 1..4 : i # j => owners[i] \cap owners[j] = {}
      BY <1>1, <2>1, <2>2, OwnersPart
    <2>4. Regular(open) = UNION {Regular(owners[i]) : i \in 1..4}
      <3>1. \A x : x \in UNION {Regular(owners[i]) : i \in 1..4} <=>
                      \E i \in 1..4 : x \in Regular(owners[i])
        OBVIOUS
      <3>2. \A x : (\E i \in 1..4 : x \in Regular(owners[i])) <=>
                      \/ x \in Regular(owners[1]) \/ x \in Regular(owners[2])
                      \/ x \in Regular(owners[3]) \/ x \in Regular(owners[4])
        BY <2>2
      <3>3. \A x : x \in Regular(open) <=>
                      \/ x \in Regular(owners[1]) \/ x \in Regular(owners[2])
                      \/ x \in Regular(owners[3]) \/ x \in Regular(owners[4])
        BY <1>1, <2>1, OwnersCover
      <3> HIDE DEF Regular
      <3>4. \A x : x \in Regular(open) <=> x \in UNION {Regular(owners[i]) : i \in 1..4}
        BY <3>1, <3>2, <3>3
      <3> QED
        BY <3>4
    <2> QED
      BY <2>3, <2>4 DEF EveryProbeOwned, owners
  <1> QED
    BY <1>1, WatchInvariant, PTL

(* At most one open rw probe reads the TLS traffic of a process whose pid   *)
(* was not used again: no exchange is reported twice.                       *)
THEOREM NoDuplicateCaptureHolds == Spec => []NoDuplicateCapture
  <1>1. ASSUME WatchInv PROVE NoDuplicateCapture
    <2> SUFFICES ASSUME NEW x \in Regular(open), NEW y \in Regular(open),
                        x # y, x[2] = "rw", y[2] = "rw", pid[x[1]] = pid[y[1]]
                 PROVE  FALSE
      BY DEF NoDuplicateCapture
    <2>1. x \in open /\ y \in open /\ pid[x[1]] \notin recycled
      BY DEF Regular
    <2>2. PICK g \in Goroutine : x = rw(g)
      BY <1>1, <2>1 DEF WatchInv, Types, Probe, rw
    <2>3. PICK h \in Goroutine : y = rw(h)
      BY <1>1, <2>1 DEF WatchInv, Types, Probe, rw
    <2>4. x[1] = g /\ y[1] = h
      BY <2>2, <2>3 DEF rw
    <2>5. Claims(g) /\ Claims(h) /\ g # h
      BY <2>1, <2>2, <2>3 DEF Claims
    <2> QED
      BY <1>1, <2>1, <2>4, <2>5 DEF WatchInv, OneAttacher
  <1> QED
    BY <1>1, WatchInvariant, PTL

-----------------------------------------------------------------------------
(* Slots.                                                                   *)

Holding == {"attach", "store", "closeFd", "attachPayload", "storePayload", "closeRw"}

SlotsInv ==
    /\ pc \in [Goroutine -> Labels]
    /\ attachSem = {g \in Goroutine : pc[g] \in Holding}
    /\ IsFiniteSet(attachSem) /\ Cardinality(attachSem) <= MaxConcurrentAttach

LEMMA SlotKept ==
    ASSUME SlotsInv, NEW g \in Goroutine, NEW to \in Labels, Goto(g, to),
           to \in Holding <=> pc[g] \in Holding, UNCHANGED attachSem
    PROVE  SlotsInv'
  <1>1. /\ pc' \in [Goroutine -> Labels] /\ pc'[g] = to
        /\ \A h \in Goroutine : h # g => pc'[h] = pc[h]
    BY DEF SlotsInv, Goto
  <1>2. \A h \in Goroutine : pc'[h] \in Holding <=> pc[h] \in Holding
    BY <1>1
  <1> QED
    BY <1>1, <1>2 DEF SlotsInv

LEMMA SlotFreed ==
    ASSUME SlotsInv, NEW g \in Goroutine, Return(g)
    PROVE  SlotsInv'
  <1>1. /\ pc' \in [Goroutine -> Labels] /\ pc'[g] = "done"
        /\ \A h \in Goroutine : h # g => pc'[h] = pc[h]
    BY DEF SlotsInv, Goto, Return, Labels
  <1>2. attachSem' = attachSem \ {g} /\ IsFiniteSet(attachSem)
    BY DEF Return, SlotsInv
  <1>3. /\ IsFiniteSet(attachSem') /\ Cardinality(attachSem') \in Nat
        /\ Cardinality(attachSem) \in Nat /\ Cardinality(attachSem') <= Cardinality(attachSem)
    BY <1>2, FS_RemoveElement, FS_CardinalityType
  <1>4. attachSem' = {h \in Goroutine : pc'[h] \in Holding}
    BY <1>1, <1>2 DEF SlotsInv, Holding
  <1> QED
    BY <1>1, <1>3, <1>4, ConstantsAssumption DEF SlotsInv

LEMMA SlotTaken ==
    ASSUME SlotsInv, NEW g \in Goroutine, pc[g] = "sem", Goto(g, "attach"),
           Cardinality(attachSem) < MaxConcurrentAttach, attachSem' = attachSem \cup {g}
    PROVE  SlotsInv'
  <1>1. /\ pc' \in [Goroutine -> Labels] /\ pc'[g] = "attach"
        /\ \A h \in Goroutine : h # g => pc'[h] = pc[h]
    BY DEF SlotsInv, Goto, Labels
  <1>2. IsFiniteSet(attachSem) /\ g \notin attachSem
    BY DEF SlotsInv, Holding
  <1>3. /\ IsFiniteSet(attachSem') /\ Cardinality(attachSem) \in Nat
        /\ Cardinality(attachSem') = Cardinality(attachSem) + 1
    BY <1>2, FS_AddElement, FS_CardinalityType
  <1>4. attachSem' = {h \in Goroutine : pc'[h] \in Holding}
    BY <1>1 DEF SlotsInv, Holding
  <1> QED
    BY <1>1, <1>3, <1>4, ConstantsAssumption DEF SlotsInv

LEMMA SlotsGoroutine ==
    ASSUME SlotsInv, NEW g \in Goroutine, GoroutineStep(g)
    PROVE  SlotsInv'
  <1>1. CASE Find(g)
    BY <1>1, SlotKept DEF Find, sem, Holding, Labels
  <1>2. CASE Acquire(g)
    <2>1. CASE attachSem' = attachSem /\ Goto(g, "skipped")
      BY <1>2, <2>1, SlotKept DEF Acquire, Holding, Labels
    <2> QED
      BY <1>2, <2>1, SlotTaken DEF Acquire
  <1>3. CASE Skip(g)
    BY <1>3, SlotKept DEF Skip, sem, Holding, Labels
  <1>4. CASE Attach(g)
    <2>1. CASE UNCHANGED sem /\ Goto(g, "store")
      BY <1>4, <2>1, SlotKept DEF Attach, sem, Holding, Labels
    <2> QED
      BY <1>4, <2>1, SlotFreed DEF Attach, AttachTo
  <1>5. CASE AttachPayload(g)
    <2>1. CASE UNCHANGED sem /\ Goto(g, "storePayload")
      BY <1>5, <2>1, SlotKept DEF AttachPayload, sem, Holding, Labels
    <2> QED
      BY <1>5, <2>1, SlotFreed DEF AttachPayload, AttachTo
  <1>6. CASE Store(g)
    BY <1>6, SlotKept DEF Store, sem, Holding, Labels
  <1>7. CASE StorePayload(g)
    <2>1. CASE UNCHANGED sem /\ Goto(g, "closeRw")
      BY <1>7, <2>1, SlotKept DEF StorePayload, sem, Holding, Labels
    <2> QED
      BY <1>7, <2>1, SlotFreed DEF StorePayload
  <1>8. CASE CloseOwn(g)
    BY <1>8, SlotFreed DEF CloseOwn
  <1> QED
    BY <1>1, <1>2, <1>3, <1>4, <1>5, <1>6, <1>7, <1>8 DEF GoroutineStep

(* The goroutines between the receive of a slot and its release hold one,   *)
(* and never more than the cap: no way out of attachTLS keeps its slot.     *)
THEOREM SlotsBalancedHolds == Spec => []SlotsBalanced
  <1>1. Init => SlotsInv
    <2> SUFFICES ASSUME Init PROVE SlotsInv
      OBVIOUS
    <2>1. pc \in [Goroutine -> Labels] /\ attachSem = {g \in Goroutine : pc[g] \in Holding}
      BY DEF Init, Labels, Holding
    <2>2. IsFiniteSet(attachSem) /\ Cardinality(attachSem) = 0
      BY FS_EmptySet DEF Init
    <2> QED
      BY <2>1, <2>2, ConstantsAssumption DEF SlotsInv
  <1>2. SlotsInv /\ [Next]_vars => SlotsInv'
    <2> SUFFICES ASSUME SlotsInv, [Next]_vars PROVE SlotsInv'
      OBVIOUS
    <2>1. CASE UNCHANGED <<pc, attachSem>>
      BY <2>1 DEF SlotsInv
    <2>2. ASSUME NEW p \in Pid, OnEvent(p) PROVE SlotsInv'
      <3>1. PICK g \in Goroutine : pc[g] = "idle" /\ Goto(g, "find")
        BY <2>2 DEF OnEvent
      <3> QED
        BY <2>2, <3>1, SlotKept DEF OnEvent, sem, Holding, Labels
    <2>3. ASSUME NEW p \in Pid, Exit(p) \/ Recycle(p) PROVE SlotsInv'
      BY <2>1, <2>3 DEF Exit, Recycle, sem
    <2>4. ASSUME NEW x \in Probe, Drop(x) PROVE SlotsInv'
      BY <2>1, <2>4 DEF Drop, sem
    <2>5. CASE reapDeadProbes \/ ReaperCloses \/ ReaperStops
      BY <2>1, <2>5 DEF reapDeadProbes, ReaperCloses, ReaperStops, sem
    <2>6. CASE BeginClose \/ CloserStep
      BY <2>1, <2>6 DEF BeginClose, CloserStep, TakeAll, CloserCloses, CloseReturns, sem
    <2>7. CASE UNCHANGED vars
      BY <2>1, <2>7 DEF vars, sem
    <2> QED
      BY <2>2, <2>3, <2>4, <2>5, <2>6, <2>7, SlotsGoroutine DEF Next
  <1>3. SlotsInv => SlotsBalanced
    BY DEF SlotsInv, SlotsBalanced, Holding
  <1> QED
    BY <1>1, <1>2, <1>3, PTL DEF Spec

-----------------------------------------------------------------------------
(* Processes in seen.                                                       *)

(* SeenIsHandled with the registrations spelled out.                        *)
Handled(p) ==
    \/ \E g \in Goroutine : pid[g] = p /\ pc[g] # "done"
    \/ probes[p] # None \/ payloadProbes[p] # None
    \/ p \in gaveUp

SeenInv ==
    /\ \A g \in Goroutine : pc[g] = "idle" => pid[g] = None
    /\ closed \/ \A p \in seen : Handled(p)

(* A goroutine goes on: the others are where they were.                     *)
LEMMA HandledByOthers ==
    ASSUME Types, NEW g \in Goroutine, NEW to, Goto(g, to), UNCHANGED pid,
           NEW p \in Pid, Handled(p),
           probes[p] # None => probes'[p] # None,
           payloadProbes[p] # None => payloadProbes'[p] # None,
           gaveUp \subseteq gaveUp',
           pid[g] = p => to # "done" \/ probes'[p] # None \/ payloadProbes'[p] # None \/ p \in gaveUp'
    PROVE  Handled(p)'
  <1>1. pc'[g] = to /\ \A h \in Goroutine : h # g => pc'[h] = pc[h]
    BY DEF Goto, Types
  <1>2. CASE \E h \in Goroutine : pid[h] = p /\ pc[h] # "done"
    BY <1>1, <1>2 DEF Handled
  <1>3. CASE probes[p] # None \/ payloadProbes[p] # None \/ p \in gaveUp
    BY <1>3 DEF Handled
  <1> QED
    BY <1>2, <1>3 DEF Handled

LEMMA SeenGoroutine ==
    ASSUME WatchInv, SeenInv, NEW g \in Goroutine, GoroutineStep(g)
    PROVE  SeenInv'
  <1>1. PICK to \in Labels \ {"idle"} : Goto(g, to)
    BY DEF GoroutineStep, Find, Acquire, Skip, Attach, AttachPayload, AttachTo, Return, Store,
           StorePayload, CloseOwn, Labels
  <1>2. /\ UNCHANGED <<pid, closed>> /\ seen' \subseteq seen
        /\ gaveUp \subseteq gaveUp'
    BY DEF GoroutineStep, Find, Acquire, Skip, Attach, AttachPayload, AttachTo, GiveUp, Store,
           StorePayload, CloseOwn, watch
  <1>3. \A h \in Goroutine : pc'[h] = "idle" => pid'[h] = None
    BY <1>1, <1>2 DEF Goto, WatchInv, Types, SeenInv
  <1>4. ASSUME ~closed, NEW p \in seen'
        PROVE  Handled(p)'
    <2>1. Types /\ p \in Pid /\ p \in seen /\ Handled(p)
      BY <1>2, <1>4 DEF WatchInv, Types, SeenInv
    <2>2. pc[g] \notin {"closeFd", "closeRw"}
      BY <1>4 DEF WatchInv, Phases
    <2>3. g # None /\ pc[g] \in Labels
      BY ConstantsAssumption DEF WatchInv, Types
    <2>4. pc[g] # "idle" => pid[g] \in Pid
      BY DEF WatchInv, Types
    <2>5. CASE Find(g)
      <3>1. UNCHANGED <<probes, payloadProbes>> /\ (to = "done" => gaveUp' = gaveUp \cup {pid[g]})
        BY <1>1, <2>5 DEF Find, GiveUp, Goto, watch, regs, WatchInv, Types
      <3> QED
        BY <1>1, <1>2, <2>1, <3>1, HandledByOthers
    <2>6. CASE Acquire(g)
      <3>1. UNCHANGED <<probes, payloadProbes>> /\ to # "done"
        BY <1>1, <2>6 DEF Acquire, Goto, watch, regs, WatchInv, Types
      <3> QED
        BY <1>1, <1>2, <2>1, <3>1, HandledByOthers
    <2>7. CASE Skip(g)
      <3>1. UNCHANGED <<probes, payloadProbes>> /\ pid[g] # p
        BY <1>4, <2>7 DEF Skip, regs
      <3> QED
        BY <1>1, <1>2, <2>1, <3>1, HandledByOthers
    <2>8. CASE Attach(g) \/ AttachPayload(g)
      <3>1. UNCHANGED <<probes, payloadProbes>> /\ (to = "done" => gaveUp' = gaveUp \cup {pid[g]})
        BY <1>1, <2>8 DEF Attach, AttachPayload, AttachTo, GiveUp, Goto, watch, regs, WatchInv, Types
      <3> QED
        BY <1>1, <1>2, <2>1, <3>1, HandledByOthers
    <2>9. CASE Store(g)
      <3>1. /\ UNCHANGED payloadProbes /\ probes' = [probes EXCEPT ![pid[g]] = g]
            /\ pid[g] \in Pid
        BY <1>4, <2>4, <2>9 DEF Store
      <3>2. probes'[p] = IF p = pid[g] THEN g ELSE probes[p]
        BY <2>1, <3>1 DEF Types
      <3> QED
        BY <1>1, <1>2, <2>1, <2>3, <3>1, <3>2, HandledByOthers
    <2>10. CASE StorePayload(g)
      <3>1. /\ UNCHANGED probes /\ payloadProbes' = [payloadProbes EXCEPT ![pid[g]] = g]
            /\ pid[g] \in Pid
        BY <1>4, <2>4, <2>10 DEF StorePayload
      <3>2. payloadProbes'[p] = IF p = pid[g] THEN g ELSE payloadProbes[p]
        BY <2>1, <3>1 DEF Types
      <3> QED
        BY <1>1, <1>2, <2>1, <2>3, <3>1, <3>2, HandledByOthers
    <2>11. CASE CloseOwn(g)
      BY <2>2, <2>11 DEF CloseOwn
    <2> QED
      BY <2>5, <2>6, <2>7, <2>8, <2>9, <2>10, <2>11 DEF GoroutineStep
  <1> QED
    BY <1>2, <1>3, <1>4 DEF SeenInv

LEMMA SeenOnEvent ==
    ASSUME WatchInv, SeenInv, NEW p \in Pid, OnEvent(p)
    PROVE  SeenInv'
  <1>1. PICK g \in Goroutine : /\ pc[g] = "idle" /\ Goto(g, "find")
                               /\ pid' = [pid EXCEPT ![g] = p]
    BY DEF OnEvent
  <1>2. /\ seen' = seen \cup {p}
        /\ UNCHANGED <<probes, payloadProbes, closed, gaveUp>>
    BY DEF OnEvent, regs
  <1>3. /\ pc'[g] = "find" /\ pid'[g] = p
        /\ \A h \in Goroutine : h # g => pc'[h] = pc[h] /\ pid'[h] = pid[h]
    BY <1>1 DEF Goto, WatchInv, Types
  <1>4. \A h \in Goroutine : pc'[h] = "idle" => pid'[h] = None
    BY <1>3 DEF SeenInv
  <1>5. Handled(p)'
    BY <1>3 DEF Handled
  <1>6. ASSUME NEW q \in seen, Handled(q) PROVE Handled(q)'
    <2>1. q # None /\ pid[g] = None
      BY <1>1, <1>6, ConstantsAssumption DEF WatchInv, Types, SeenInv
    <2> QED
      BY <1>2, <1>3, <1>6, <2>1 DEF Handled
  <1> QED
    BY <1>2, <1>4, <1>5, <1>6 DEF SeenInv

(* While the watcher runs, a process in seen is being attached, has a probe *)
(* registered or was given up: a process that was skipped for want of a     *)
(* slot, or that was reaped, is not locked out.                             *)
THEOREM SeenIsHandledHolds == Spec => []SeenIsHandled
  <1>1. Init => SeenInv
    BY DEF Init, SeenInv
  <1>2. WatchInv /\ SeenInv /\ [Next]_vars => SeenInv'
    <2> SUFFICES ASSUME WatchInv, SeenInv, [Next]_vars PROVE SeenInv'
      OBVIOUS
    <2>1. CASE UNCHANGED <<pc, pid, seen, closed, gaveUp, probes, payloadProbes>>
      BY <2>1 DEF SeenInv, Handled
    <2>2. ASSUME NEW p \in Pid, Exit(p) \/ Recycle(p) PROVE SeenInv'
      BY <2>1, <2>2 DEF Exit, Recycle, watch, regs
    <2>3. ASSUME NEW x \in Probe, Drop(x) PROVE SeenInv'
      BY <2>1, <2>3 DEF Drop, watch, regs
    <2>4. CASE ReaperCloses \/ ReaperStops \/ BeginClose \/ CloserCloses \/ CloseReturns
      BY <2>1, <2>4 DEF ReaperCloses, ReaperStops, BeginClose, CloserCloses, CloseReturns, watch, regs
    <2>5. CASE UNCHANGED vars
      BY <2>1, <2>5 DEF vars, watch, regs
    <2>6. CASE reapDeadProbes
      <3>1. /\ probes' = Without(probes, Reapable)
            /\ payloadProbes' = Without(payloadProbes, Reapable)
            /\ seen' = seen \ Reapable /\ UNCHANGED <<pc, pid, closed, gaveUp>>
        BY <2>6 DEF reapDeadProbes
      <3>2. \A p \in Pid \ Reapable : /\ probes'[p] = probes[p]
                                      /\ payloadProbes'[p] = payloadProbes[p]
        BY <3>1 DEF Without
      <3>3. seen \subseteq Pid
        BY DEF WatchInv, Types
      <3> QED
        BY <3>1, <3>2, <3>3 DEF SeenInv, Handled
    <2>7. CASE TakeAll
      BY <2>7 DEF TakeAll, SeenInv
    <2> QED
      BY <2>2, <2>3, <2>4, <2>5, <2>6, <2>7, SeenGoroutine, SeenOnEvent DEF Next, CloserStep
  <1>3. WatchInv /\ SeenInv => SeenIsHandled
    <2> SUFFICES ASSUME WatchInv, SeenInv, ~closed, NEW p \in seen, p \notin gaveUp,
                        ~\E g \in Goroutine : pid[g] = p /\ pc[g] # "done"
                 PROVE  ProbesOf({p}) # {}
      BY DEF SeenIsHandled
    <2>1. probes[p] # None \/ payloadProbes[p] # None
      BY DEF SeenInv, Handled
    <2>2. (probes[p] # None => fd(probes[p]) \in ProbesOf({p}))
          /\ (payloadProbes[p] # None => rw(payloadProbes[p]) \in ProbesOf({p}))
      BY DEF ProbesOf
    <2> QED
      BY <2>1, <2>2
  <1> QED
    BY <1>1, <1>2, <1>3, WatchInvariant, PTL DEF Spec

-----------------------------------------------------------------------------
(* Sums over finite sets.                                                   *)

(* Induction, as a fact about sets of numbers.                              *)
LEMMA Induct == ASSUME NEW T \in SUBSET Nat, 0 \in T, \A n \in T : n + 1 \in T PROVE T = Nat
  <1> SUFFICES ASSUME Nat \ T # {} PROVE FALSE
    OBVIOUS
  <1>1. PICK x \in Nat \ T : \A y \in Nat \ T : ~(<<y, x>> \in OpToRel(<, Nat))
    BY NatLessThanWellFounded, WFMin
  <1>2. x \in Nat /\ x # 0
    OBVIOUS
  <1> DEFINE y == x - 1
  <1>3. y \in Nat /\ y < x /\ y + 1 = x
    BY <1>2
  <1> HIDE DEF y
  <1>4. y \in T
    BY <1>1, <1>3, Zenon DEF OpToRel
  <1> QED
    BY <1>1, <1>3, <1>4

Small(S, n) == {T \in SUBSET S : Cardinality(T) <= n}
Picked(T) == CHOOSE x \in T : TRUE

(* g is the sum of f over the subsets of S that have n members at most.     *)
AddsUp(g, f, S, n) ==
    /\ g = [T \in Small(S, n) |-> g[T]]
    /\ \A T \in Small(S, n) : g[T] = IF T = {} THEN 0 ELSE f[Picked(T)] + g[T \ {Picked(T)}]

LEMMA PickedFacts ==
    ASSUME NEW S, IsFiniteSet(S), NEW T \in SUBSET S, NEW x \in T
    PROVE  /\ Picked(T) \in T /\ IsFiniteSet(T) /\ T \ {x} \in SUBSET S
           /\ Cardinality(T) \in Nat /\ Cardinality(T) # 0 /\ Cardinality(T \ {x}) = Cardinality(T) - 1
  <1>1. IsFiniteSet(T)
    BY FS_Subset
  <1>2. Picked(T) \in T
    BY DEF Picked
  <1> QED
    BY <1>1, <1>2, FS_RemoveElement, FS_CardinalityType, FS_EmptySet

LEMMA SmallLess ==
    ASSUME NEW S, IsFiniteSet(S), NEW n \in Nat, NEW T \in Small(S, n + 1), NEW x \in T
    PROVE  T \ {x} \in Small(S, n)
  BY PickedFacts DEF Small

LEMMA SmallZero ==
    ASSUME NEW S, IsFiniteSet(S), NEW T \in Small(S, 0) PROVE T = {}
  <1>1. IsFiniteSet(T) /\ Cardinality(T) \in Nat /\ Cardinality(T) <= 0
    BY FS_Subset, FS_CardinalityType DEF Small
  <1>2. Cardinality(T) = 0
    BY <1>1
  <1> QED
    BY <1>1, <1>2, FS_EmptySet

LEMMA SmallAll ==
    ASSUME NEW S, IsFiniteSet(S)
    PROVE  Cardinality(S) \in Nat /\ Small(S, Cardinality(S)) = SUBSET S
  BY FS_CardinalityType, FS_Subset DEF Small

LEMMA SmallGrows ==
    ASSUME NEW S, IsFiniteSet(S), NEW n \in Nat, NEW T \in Small(S, n)
    PROVE  T \in Small(S, n + 1)
  BY FS_CardinalityType, FS_Subset DEF Small

LEMMA SumExists ==
    ASSUME NEW f, NEW S, IsFiniteSet(S)
    PROVE  \E g : AddsUp(g, f, S, Cardinality(S))
  <1> DEFINE K == {n \in Nat : \E g : AddsUp(g, f, S, n)}
  <1>1. 0 \in K
    <2> DEFINE g == [T \in Small(S, 0) |-> 0]
    <2>1. AddsUp(g, f, S, 0)
      BY SmallZero DEF AddsUp
    <2> QED
      BY <2>1
  <1>2. ASSUME NEW n \in K PROVE n + 1 \in K
    <2>1. PICK g : AddsUp(g, f, S, n)
      OBVIOUS
    <2> DEFINE h == [T \in Small(S, n + 1) |->
                        IF T = {} THEN 0 ELSE f[Picked(T)] + g[T \ {Picked(T)}]]
    <2>2. ASSUME NEW T \in Small(S, n) PROVE h[T] = g[T]
      BY <2>1, SmallGrows DEF AddsUp
    <2>3. ASSUME NEW T \in Small(S, n + 1)
          PROVE  h[T] = IF T = {} THEN 0 ELSE f[Picked(T)] + h[T \ {Picked(T)}]
      <3>1. CASE T = {}
        BY <3>1
      <3>2. CASE T # {}
        <4>1. Picked(T) \in T
          BY <3>2 DEF Picked
        <4>2. T \ {Picked(T)} \in Small(S, n)
          BY <4>1, SmallLess
        <4>3. h[T \ {Picked(T)}] = g[T \ {Picked(T)}]
          BY <2>2, <4>2
        <4> QED
          BY <3>2, <4>3
      <3> QED
        BY <3>1, <3>2
    <2>4. h = [T \in Small(S, n + 1) |-> h[T]]
      OBVIOUS
    <2> HIDE DEF h
    <2>5. AddsUp(h, f, S, n + 1)
      BY <2>3, <2>4 DEF AddsUp
    <2> QED
      BY <2>5
  <1>3. K = Nat
    <2> HIDE DEF K
    <2>1. K \subseteq Nat
      BY DEF K
    <2> QED
      BY <1>1, <1>2, <2>1, Induct
  <1> QED
    BY <1>3, SmallAll

SumOver(f, S) == MapThenSumSet(LAMBDA x : f[x], S)
Sums(f, S) ==
    CHOOSE g : g = [T \in SUBSET S |-> IF T = {} THEN 0
                                       ELSE LET x == CHOOSE x \in T : TRUE IN f[x] + g[T \ {x}]]

LEMMA SumsFacts ==
    ASSUME NEW f, NEW S, IsFiniteSet(S)
    PROVE  /\ AddsUp(Sums(f, S), f, S, Cardinality(S))
           /\ SumOver(f, S) = Sums(f, S)[S]
  <1>1. \A g : AddsUp(g, f, S, Cardinality(S)) <=>
          g = [T \in SUBSET S |-> IF T = {} THEN 0
                                  ELSE LET x == CHOOSE x \in T : TRUE IN f[x] + g[T \ {x}]]
    <2> TAKE g
    <2> DEFINE h == [T \in SUBSET S |-> IF T = {} THEN 0
                                        ELSE LET x == CHOOSE x \in T : TRUE IN f[x] + g[T \ {x}]]
    <2>1. Small(S, Cardinality(S)) = SUBSET S
      BY SmallAll
    <2>2. ASSUME NEW T \in SUBSET S
          PROVE  h[T] = IF T = {} THEN 0 ELSE f[Picked(T)] + g[T \ {Picked(T)}]
      BY DEF Picked
    <2>3. h = [T \in SUBSET S |-> h[T]]
      OBVIOUS
    <2> HIDE DEF h
    <2>4. AddsUp(g, f, S, Cardinality(S)) <=> g = h
      BY <2>1, <2>2, <2>3, Zenon DEF AddsUp
    <2> QED
      BY <2>4 DEF h
  <1>2. AddsUp(Sums(f, S), f, S, Cardinality(S))
    <2>1. PICK g : AddsUp(g, f, S, Cardinality(S))
      BY SumExists
    <2>2. g = [T \in SUBSET S |-> IF T = {} THEN 0
                                  ELSE LET x == CHOOSE x \in T : TRUE IN f[x] + g[T \ {x}]]
      BY <1>1, <2>1, Zenon
    <2>3. Sums(f, S) = [T \in SUBSET S |-> IF T = {} THEN 0
                          ELSE LET x == CHOOSE x \in T : TRUE IN f[x] + Sums(f, S)[T \ {x}]]
      BY <2>2, Zenon DEF Sums
    <2> QED
      BY <1>1, <2>3, Zenon
  <1>3. SumOver(f, S) = Sums(f, S)[S]
    BY DEF SumOver, MapThenSumSet, MapThenFoldSet, Sums
  <1> QED
    BY <1>2, <1>3

-----------------------------------------------------------------------------
(* The sums over the subsets of S.                                          *)

Numbers(f, S) == \A x \in S : f[x] \in Nat

LEMMA SumsStep ==
    ASSUME NEW f, NEW S, IsFiniteSet(S), NEW T \in SUBSET S
    PROVE  Sums(f, S)[T] = IF T = {} THEN 0 ELSE f[Picked(T)] + Sums(f, S)[T \ {Picked(T)}]
  <1>1. AddsUp(Sums(f, S), f, S, Cardinality(S))
    BY SumsFacts
  <1>2. T \in Small(S, Cardinality(S))
    BY SmallAll
  <1> QED
    BY <1>1, <1>2, Zenon DEF AddsUp

(* What holds of the empty set, and of a set when it holds of all smaller   *)
(* ones, holds of all subsets of S.                                         *)
LEMMA SubsetInduct ==
    ASSUME NEW S, IsFiniteSet(S), NEW Good \in SUBSET SUBSET S,
           \A T \in SUBSET S : (\A x \in T : T \ {x} \in Good) => T \in Good
    PROVE  Good = SUBSET S
  <1> DEFINE K == {n \in Nat : Small(S, n) \subseteq Good}
  <1>1. 0 \in K
    <2>1. ASSUME NEW T \in Small(S, 0) PROVE T \in Good
      <3>1. T = {} /\ T \in SUBSET S
        BY SmallZero DEF Small
      <3> QED
        BY <3>1
    <2> QED
      BY <2>1
  <1>2. ASSUME NEW n \in K PROVE n + 1 \in K
    <2>1. ASSUME NEW T \in Small(S, n + 1) PROVE T \in Good
      <3>1. T \in SUBSET S
        BY DEF Small
      <3>2. ASSUME NEW x \in T PROVE T \ {x} \in Good
        BY SmallLess
      <3> QED
        BY <3>1, <3>2
    <2> QED
      BY <2>1
  <1>3. K = Nat
    <2> HIDE DEF K
    <2>1. K \subseteq Nat
      BY DEF K
    <2> QED
      BY <1>1, <1>2, <2>1, Induct
  <1> QED
    BY <1>3, SmallAll

LEMMA SumsNat ==
    ASSUME NEW f, NEW S, IsFiniteSet(S), Numbers(f, S)
    PROVE  \A T \in SUBSET S : Sums(f, S)[T] \in Nat
  <1> DEFINE G == Sums(f, S)
             Good == {T \in SUBSET S : G[T] \in Nat}
  <1>1. ASSUME NEW T \in SUBSET S, \A x \in T : T \ {x} \in Good PROVE T \in Good
    <2>1. CASE T = {}
      BY <2>1, SumsStep
    <2>2. CASE T # {}
      <3> DEFINE y == Picked(T)
      <3>1. y \in T
        BY <2>2 DEF Picked
      <3>2. G[T] = f[y] + G[T \ {y}]
        BY <2>2, SumsStep
      <3>3. G[T \ {y}] \in Nat /\ f[y] \in Nat
        <4>1. T \ {y} \in Good
          BY <1>1, <3>1
        <4> QED
          BY <3>1, <4>1 DEF Numbers
      <3> HIDE DEF y, G
      <3> QED
        BY <3>2, <3>3
    <2> QED
      BY <2>1, <2>2
  <1>2. Good = SUBSET S
    <2> HIDE DEF Good
    <2>1. Good \in SUBSET SUBSET S
      BY DEF Good
    <2> QED
      BY <1>1, <2>1, SubsetInduct
  <1> QED
    BY <1>2

(* The order in which the members are taken does not matter.                *)
LEMMA SumsAny ==
    ASSUME NEW f, NEW S, IsFiniteSet(S), Numbers(f, S)
    PROVE  \A T \in SUBSET S : \A x \in T : Sums(f, S)[T] = f[x] + Sums(f, S)[T \ {x}]
  <1> DEFINE G == Sums(f, S)
             Good == {T \in SUBSET S : \A x \in T : G[T] = f[x] + G[T \ {x}]}
  <1>1. ASSUME NEW T \in SUBSET S, \A x \in T : T \ {x} \in Good PROVE T \in Good
    <2> SUFFICES ASSUME NEW x \in T PROVE G[T] = f[x] + G[T \ {x}]
      OBVIOUS
    <2> DEFINE y == Picked(T)
    <2>1. y \in T
      BY DEF Picked
    <2>2. G[T] = f[y] + G[T \ {y}]
      BY SumsStep
    <2> HIDE DEF y
    <2>3. CASE x # y
      <3>1. x \in T \ {y} /\ y \in T \ {x} /\ T \ {y} \in Good /\ T \ {x} \in Good
        BY <1>1, <2>1, <2>3
      <3>2. G[T \ {y}] = f[x] + G[(T \ {y}) \ {x}]
        BY <3>1, Zenon
      <3>3. G[T \ {x}] = f[y] + G[(T \ {x}) \ {y}]
        BY <3>1, Zenon
      <3>4. (T \ {x}) \ {y} = (T \ {y}) \ {x} /\ (T \ {y}) \ {x} \in SUBSET S
        OBVIOUS
      <3>5. G[(T \ {y}) \ {x}] \in Nat
        BY <3>4, SumsNat
      <3>6. f[x] \in Nat /\ f[y] \in Nat
        BY <2>1 DEF Numbers
      <3> HIDE DEF G
      <3>7. G[T] = f[y] + (f[x] + G[(T \ {y}) \ {x}]) /\ G[T \ {x}] = f[y] + G[(T \ {y}) \ {x}]
        BY <2>2, <3>2, <3>3, <3>4
      <3> QED
        BY <3>5, <3>6, <3>7
    <2> QED
      BY <2>2, <2>3
  <1>2. Good = SUBSET S
    <2> HIDE DEF Good
    <2>1. Good \in SUBSET SUBSET S
      BY DEF Good
    <2> QED
      BY <1>1, <2>1, SubsetInduct
  <1> QED
    BY <1>2

(* Sums over the subsets of a set are sums over any set that holds them.    *)
LEMMA SumsOfPart ==
    ASSUME NEW f, NEW S, IsFiniteSet(S), NEW R \in SUBSET S
    PROVE  SumOver(f, R) = Sums(f, S)[R]
  <1>1. IsFiniteSet(R)
    BY FS_Subset
  <1> DEFINE G == Sums(f, S)
             H == Sums(f, R)
             Good == {T \in SUBSET R : H[T] = G[T]}
  <1>5. \A T \in SUBSET R :
           Sums(f, R)[T] = IF T = {} THEN 0 ELSE f[Picked(T)] + Sums(f, R)[T \ {Picked(T)}]
    <2> HIDE DEF Good, G, H
    <2> TAKE T \in SUBSET R
    <2> QED
      BY <1>1, SumsStep
  <1>2. ASSUME NEW T \in SUBSET R, \A x \in T : T \ {x} \in Good PROVE T \in Good
    <2>1. CASE T = {}
      BY <1>1, <2>1, SumsStep
    <2>2. CASE T # {}
      <3>1. Picked(T) \in T
        BY <2>2 DEF Picked
      <3>2. G[T] = f[Picked(T)] + G[T \ {Picked(T)}]
        BY <2>2, SumsStep
      <3>3. H[T] = f[Picked(T)] + H[T \ {Picked(T)}]
        BY <2>2, <1>5, Zenon
      <3> QED
        BY <1>2, <3>1, <3>2, <3>3
    <2> QED
      BY <2>1, <2>2
  <1>3. Good = SUBSET R
    <2> HIDE DEF Good
    <2>1. Good \in SUBSET SUBSET R
      BY DEF Good
    <2> QED
      BY <1>1, <1>2, <2>1, SubsetInduct
  <1>4. H[R] = G[R]
    BY <1>3
  <1> QED
    BY <1>1, <1>4, SumsFacts

-----------------------------------------------------------------------------

LEMMA SumOfNone == ASSUME NEW f PROVE SumOver(f, {}) = 0
  BY FS_EmptySet, SumsFacts, SumsStep

LEMMA SumNat ==
    ASSUME NEW f, NEW S, IsFiniteSet(S), Numbers(f, S) PROVE SumOver(f, S) \in Nat
  BY SumsNat, SumsFacts

LEMMA SumTakes ==
    ASSUME NEW f, NEW S, IsFiniteSet(S), Numbers(f, S), NEW x \in S
    PROVE  SumOver(f, S) = f[x] + SumOver(f, S \ {x})
  BY SumsAny, SumsOfPart

(* A sum over two sets that share nothing.                                  *)
LEMMA SumOfUnion ==
    ASSUME NEW f, NEW A, NEW B, IsFiniteSet(A), IsFiniteSet(B), A \cap B = {},
           Numbers(f, A \cup B)
    PROVE  SumOver(f, A \cup B) = SumOver(f, A) + SumOver(f, B)
  <1> DEFINE Good == {T \in SUBSET A : SumOver(f, T \cup B) = SumOver(f, T) + SumOver(f, B)}
  <1>1. ASSUME NEW T \in SUBSET A, \A x \in T : T \ {x} \in Good PROVE T \in Good
    <2>1. IsFiniteSet(T) /\ IsFiniteSet(T \cup B)
      BY FS_Subset, FS_Union
    <2>2. SumOver(f, B) \in Nat
      BY SumNat DEF Numbers
    <2>3. CASE T = {}
      BY <2>2, <2>3, SumOfNone
    <2>4. CASE T # {}
      <3>1. PICK x \in T : TRUE
        BY <2>4
      <3>2. (T \cup B) \ {x} = (T \ {x}) \cup B
        OBVIOUS
      <3>3. SumOver(f, T \cup B) = f[x] + SumOver(f, (T \ {x}) \cup B)
        BY <2>1, <3>2, SumTakes DEF Numbers
      <3>4. SumOver(f, T) = f[x] + SumOver(f, T \ {x})
        BY <2>1, SumTakes DEF Numbers
      <3>5. SumOver(f, (T \ {x}) \cup B) = SumOver(f, T \ {x}) + SumOver(f, B)
        BY <1>1
      <3>6. SumOver(f, T \ {x}) \in Nat /\ f[x] \in Nat
        BY <2>1, FS_Subset, SumNat DEF Numbers
      <3> QED
        BY <2>2, <3>3, <3>4, <3>5, <3>6
    <2> QED
      BY <2>3, <2>4
  <1>2. Good = SUBSET A
    <2> HIDE DEF Good
    <2>1. Good \in SUBSET SUBSET A
      BY DEF Good
    <2> QED
      BY <1>1, <2>1, SubsetInduct
  <1> QED
    BY <1>2

LEMMA SumOfMore ==
    ASSUME NEW f, NEW B, IsFiniteSet(B), NEW A \in SUBSET B, Numbers(f, B)
    PROVE  SumOver(f, A) <= SumOver(f, B)
  <1>1. IsFiniteSet(A) /\ IsFiniteSet(B \ A) /\ B = A \cup (B \ A)
    BY FS_Subset
  <1>2. SumOver(f, B) = SumOver(f, A) + SumOver(f, B \ A)
    BY <1>1, SumOfUnion
  <1>3. SumOver(f, A) \in Nat /\ SumOver(f, B \ A) \in Nat
    BY <1>1, SumNat DEF Numbers
  <1> QED
    BY <1>2, <1>3

(* Larger terms give a larger sum.                                          *)
LEMMA SumGrows ==
    ASSUME NEW f, NEW h, NEW S, IsFiniteSet(S), Numbers(f, S), Numbers(h, S),
           \A x \in S : f[x] <= h[x]
    PROVE  SumOver(f, S) <= SumOver(h, S)
  <1> DEFINE Good == {T \in SUBSET S : SumOver(f, T) <= SumOver(h, T)}
  <1>1. ASSUME NEW T \in SUBSET S, \A x \in T : T \ {x} \in Good PROVE T \in Good
    <2>1. CASE T = {}
      BY <2>1, SumOfNone
    <2>2. CASE T # {}
      <3>1. PICK x \in T : TRUE
        BY <2>2
      <3>2. IsFiniteSet(T) /\ IsFiniteSet(T \ {x})
        BY FS_Subset
      <3>3. SumOver(f, T) = f[x] + SumOver(f, T \ {x}) /\ SumOver(h, T) = h[x] + SumOver(h, T \ {x})
        BY <3>2, SumTakes DEF Numbers
      <3>4. SumOver(f, T \ {x}) <= SumOver(h, T \ {x})
        BY <1>1
      <3>5. SumOver(f, T \ {x}) \in Nat /\ SumOver(h, T \ {x}) \in Nat
        BY <3>2, SumNat DEF Numbers
      <3> QED
        BY <3>3, <3>4, <3>5 DEF Numbers
    <2> QED
      BY <2>1, <2>2
  <1>2. Good = SUBSET S
    <2> HIDE DEF Good
    <2>1. Good \in SUBSET SUBSET S
      BY DEF Good
    <2> QED
      BY <1>1, <2>1, SubsetInduct
  <1> QED
    BY <1>2

-----------------------------------------------------------------------------
(* Drops are counted once.                                                  *)

(* The probes that are no longer in the hands of their goroutine, and those *)
(* of them that are not registered either: what was harvested is among      *)
(* those.                                                                   *)
Left ==
    {fd(g) : g \in {h \in Goroutine : pc[h] = "closeFd" \/ pc[h] \in AfterStore}}
    \cup {rw(g) : g \in {h \in Goroutine : pc[h] \in {"closeRw", "done"}}}
Gone == Left \ ProbesOf(Pid)

DropsInv ==
    /\ dropped \in [Probe -> Nat]
    /\ closedDrops \in Nat
    /\ closedDrops <= DropsOf(Gone)

LEMMA ProbesFinite == IsFiniteSet(Probe)
  <1>1. IsFiniteSet({"fd"}) /\ IsFiniteSet({"rw"})
    BY FS_Singleton
  <1>2. {"fd", "rw"} = {"fd"} \cup {"rw"}
    OBVIOUS
  <1>3. IsFiniteSet({"fd", "rw"})
    BY <1>1, <1>2, FS_Union
  <1> QED
    BY <1>3, FS_Product, ConstantsAssumption DEF Probe

LEMMA DropsAre ==
    /\ DropsOf(Probe) = SumOver(dropped, Probe)
    /\ DropsOf(ProbesOf(Pid)) = SumOver(dropped, ProbesOf(Pid))
    /\ DropsOf(Gone) = SumOver(dropped, Gone)
    /\ \A S : DropsOf(S) = SumOver(dropped, S)
  BY DEF DropsOf, SumOver, MapThenSumSet, MapThenFoldSet

LEMMA DropsArePrimed ==
    /\ DropsOf(Probe)' = SumOver(dropped', Probe)
    /\ DropsOf(ProbesOf(Pid))' = SumOver(dropped', ProbesOf(Pid)')
    /\ DropsOf(Gone)' = SumOver(dropped', Gone')
  BY DEF DropsOf, SumOver, MapThenSumSet, MapThenFoldSet, Probe

LEMMA LeftFacts ==
    ASSUME Types
    PROVE  /\ Left \subseteq Probe /\ Gone \subseteq Probe /\ ProbesOf(Pid) \subseteq Probe
           /\ \A g \in Goroutine : /\ fd(g) \in Left <=> pc[g] = "closeFd" \/ pc[g] \in AfterStore
                                   /\ rw(g) \in Left <=> pc[g] \in {"closeRw", "done"}
  BY ProbeNames, ProbesOfFacts DEF Left, Gone

(* A step that harvests the probes of H, or nothing, keeps DropsInv.        *)
LEMMA Harvested ==
    ASSUME WatchInv, WatchInv', DropsInv, NEW H \in SUBSET Probe,
           closedDrops' = closedDrops + DropsOf(H), dropped' = dropped,
           H \cap Gone = {}, H \subseteq Left', H \cap ProbesOf(Pid)' = {},
           Left \subseteq Left', Left \cap ProbesOf(Pid)' \subseteq ProbesOf(Pid)
    PROVE  DropsInv' /\ SumOver(dropped, H) \in Nat
  <1>1. Gone \cup H \subseteq Gone'
    BY DEF Gone
  <1>2. Gone \subseteq Probe /\ Gone' \subseteq Probe
    BY LeftFacts DEF WatchInv, Gone, Left, Types, fd, rw, Probe
  <1>3. IsFiniteSet(Gone) /\ IsFiniteSet(H) /\ IsFiniteSet(Gone')
    BY <1>2, ProbesFinite, FS_Subset
  <1>4. SumOver(dropped, Gone \cup H) = SumOver(dropped, Gone) + SumOver(dropped, H)
    BY <1>2, <1>3, SumOfUnion DEF DropsInv, Numbers
  <1>5. SumOver(dropped, Gone \cup H) <= SumOver(dropped, Gone')
    BY <1>1, <1>2, <1>3, SumOfMore DEF DropsInv, Numbers
  <1>6. /\ SumOver(dropped, Gone) \in Nat /\ SumOver(dropped, H) \in Nat
        /\ SumOver(dropped, Gone') \in Nat
    BY <1>2, <1>3, SumNat DEF DropsInv, Numbers
  <1>7. DropsOf(Gone)' = SumOver(dropped, Gone')
    BY DropsArePrimed
  <1> QED
    BY <1>4, <1>5, <1>6, <1>7, DropsAre DEF DropsInv

(* Nor does the count go down when every registered probe is kept or        *)
(* harvested.                                                               *)
LEMMA CountKept ==
    ASSUME WatchInv, WatchInv', DropsInv, NEW H \in SUBSET Probe,
           closedDrops' = closedDrops + DropsOf(H), dropped' = dropped,
           ProbesOf(Pid) \subseteq ProbesOf(Pid)' \cup H
    PROVE  dropCounts' >= dropCounts
  <1> DEFINE A == ProbesOf(Pid)
             B == ProbesOf(Pid)'
  <1>1. A \subseteq Probe /\ B \subseteq Probe
    BY LeftFacts DEF WatchInv, Types, ProbesOf, fd, rw, Probe
  <1>2. IsFiniteSet(H) /\ IsFiniteSet(A) /\ IsFiniteSet(B) /\ IsFiniteSet(B \ H)
    BY <1>1, ProbesFinite, FS_Subset
  <1>3. dropCounts = closedDrops + SumOver(dropped, A)
    BY DropsAre DEF dropCounts
  <1>4. dropCounts' = closedDrops + SumOver(dropped, H) + SumOver(dropped, B)
    BY DropsArePrimed, DropsAre DEF dropCounts
  <1>5. A \subseteq H \cup (B \ H) /\ IsFiniteSet(H \cup (B \ H))
    BY <1>2, FS_Union
  <1> HIDE DEF A, B
  <1>6. SumOver(dropped, A) <= SumOver(dropped, H \cup (B \ H))
    BY <1>1, <1>5, SumOfMore DEF DropsInv, Numbers
  <1>7. SumOver(dropped, H \cup (B \ H)) = SumOver(dropped, H) + SumOver(dropped, B \ H)
    BY <1>1, <1>2, SumOfUnion DEF DropsInv, Numbers
  <1>8. SumOver(dropped, B \ H) <= SumOver(dropped, B)
    BY <1>1, <1>2, SumOfMore DEF DropsInv, Numbers
  <1>9. /\ SumOver(dropped, A) \in Nat /\ SumOver(dropped, H) \in Nat
        /\ SumOver(dropped, B) \in Nat /\ SumOver(dropped, B \ H) \in Nat
        /\ closedDrops \in Nat
    BY <1>1, <1>2, SumNat DEF DropsInv, Numbers
  <1> QED
    BY <1>3, <1>4, <1>6, <1>7, <1>8, <1>9

DropsStep == DropsInv' /\ (recycled = {} => dropCounts' >= dropCounts)

(* A step that harvests nothing and unregisters nothing.                    *)
LEMMA DropsNoHarvest ==
    ASSUME WatchInv, WatchInv', DropsInv, UNCHANGED <<dropped, closedDrops>>,
           Left \subseteq Left', Left \cap ProbesOf(Pid)' \subseteq ProbesOf(Pid),
           recycled = {} => ProbesOf(Pid) \subseteq ProbesOf(Pid)'
    PROVE  DropsStep
  <1>1. DropsOf({}) = 0
    BY DropsAre, SumOfNone
  <1>2. closedDrops' = closedDrops + DropsOf({})
    BY <1>1 DEF DropsInv
  <1>3. DropsInv'
    BY <1>2, Harvested
  <1>4. ASSUME recycled = {} PROVE dropCounts' >= dropCounts
    BY <1>2, <1>4, CountKept
  <1> QED
    BY <1>3, <1>4 DEF DropsStep

(* An attached probe counts a drop.                                         *)
LEMMA DropsDrop == ASSUME WatchInv, WatchInv', DropsInv, NEW x \in Probe, Drop(x) PROVE DropsStep
  <1>1. /\ dropped' \in [Probe -> Nat] /\ \A y \in Probe : dropped[y] <= dropped'[y]
    BY DEF Drop, DropsInv
  <1>2. /\ closedDrops' = closedDrops /\ closedDrops \in Nat
        /\ ProbesOf(Pid)' = ProbesOf(Pid) /\ Gone' = Gone
    BY DEF Drop, DropsInv, watch, regs, ProbesOf, Gone, Left
  <1>3. /\ Gone \subseteq Probe /\ IsFiniteSet(Gone)
        /\ ProbesOf(Pid) \subseteq Probe /\ IsFiniteSet(ProbesOf(Pid))
    BY LeftFacts, ProbesFinite, FS_Subset DEF WatchInv
  <1>4. ASSUME NEW S \in SUBSET Probe, IsFiniteSet(S)
        PROVE  /\ SumOver(dropped, S) <= SumOver(dropped', S)
               /\ SumOver(dropped, S) \in Nat /\ SumOver(dropped', S) \in Nat
    BY <1>1, <1>4, SumGrows, SumNat DEF Numbers, DropsInv
  <1>5. /\ DropsOf(Gone) = SumOver(dropped, Gone) /\ DropsOf(Gone)' = SumOver(dropped', Gone)
        /\ dropCounts = closedDrops + SumOver(dropped, ProbesOf(Pid))
        /\ dropCounts' = closedDrops + SumOver(dropped', ProbesOf(Pid))
    BY <1>2, DropsAre, DropsArePrimed DEF dropCounts
  <1>6. DropsInv'
    BY <1>1, <1>2, <1>3, <1>4, <1>5 DEF DropsInv
  <1>7. dropCounts' >= dropCounts
    BY <1>2, <1>3, <1>4, <1>5
  <1> QED
    BY <1>6, <1>7 DEF DropsStep

(* A probe is registered: nothing is registered for its pid, unless the pid *)
(* was used again, and it was not left before.                              *)
LEMMA DropsStore ==
    ASSUME WatchInv, WatchInv', DropsInv, NEW g \in Goroutine, Store(g) PROVE DropsStep
  <1>1. /\ pc[g] = "store" /\ pid[g] \in Pid /\ dropped' = dropped
        /\ payloadProbes' = payloadProbes /\ pc \in [Goroutine -> Labels]
    BY DEF Store, kernel, WatchInv, Types
  <1>2. fd(g) \notin Left /\ fd(g) \notin ProbesOf(Pid) /\ fd(g) \in Probe
    <2>1. fd(g) \in Probe
      BY ProbeNames
    <2>2. fd(g) \notin Left
      BY <1>1, LeftFacts DEF WatchInv, AfterStore
    <2>3. fd(g) \in ProbesOf(Pid) <=> \E p \in Pid : probes[p] = g
      BY ProbesOfFacts DEF WatchInv
    <2>4. \A p \in Pid : probes[p] # g
      BY <1>1, ConstantsAssumption DEF WatchInv, Registered, AfterStore
    <2> QED
      BY <2>1, <2>2, <2>3, <2>4
  <1>3. CASE closed
    <2>1. /\ closedDrops' = closedDrops + DropsOf({fd(g)}) /\ pc' = [pc EXCEPT ![g] = "closeFd"]
          /\ ProbesOf(Pid)' = ProbesOf(Pid)
      BY <1>1, <1>3 DEF Store, harvestLocked, Goto, ProbesOf
    <2>2. Left \subseteq Left' /\ fd(g) \in Left'
      BY <1>1, <2>1 DEF Left, AfterStore
    <2>3. {fd(g)} \cap Gone = {}
      BY <1>2 DEF Gone
    <2>4. DropsInv'
      BY <1>1, <1>2, <2>1, <2>2, <2>3, Harvested
    <2>5. dropCounts' >= dropCounts
      BY <1>1, <1>2, <2>1, CountKept
    <2> QED
      BY <2>4, <2>5 DEF DropsStep
  <1>4. CASE ~closed
    <2>1. /\ closedDrops' = closedDrops /\ pc' = [pc EXCEPT ![g] = "attachPayload"]
          /\ probes' = [probes EXCEPT ![pid[g]] = g]
      BY <1>4 DEF Store, Goto
    <2>2. Left \subseteq Left'
      BY <1>1, <2>1 DEF Left, AfterStore
    <2>3. ProbesOf(Pid)' \subseteq ProbesOf(Pid) \cup {fd(g)}
      BY <1>1, <2>1 DEF ProbesOf, WatchInv, Types
    <2>4. ASSUME recycled = {} PROVE probes[pid[g]] = None
      <3>1. Claims(g)
        BY <1>1 DEF Claims, Past
      <3>2. ASSUME probes[pid[g]] # None PROVE FALSE
        <4> DEFINE h == probes[pid[g]]
        <4>1. h \in Goroutine /\ pid[h] = pid[g] /\ pc[h] \in AfterStore /\ fd(h) \in open
          BY <1>1, <3>2 DEF WatchInv, Types, Registered
        <4>2. g = h
          BY <2>4, <3>1, <4>1 DEF WatchInv, OneAttacher, Claims
        <4> QED
          BY <1>1, <4>1, <4>2 DEF AfterStore
      <3> QED
        BY <3>2
    <2>5. ASSUME recycled = {} PROVE ProbesOf(Pid) \subseteq ProbesOf(Pid)'
      <3>1. \A p \in Pid : probes[p] # None => probes'[p] = probes[p]
        BY <1>1, <2>1, <2>4, <2>5 DEF WatchInv, Types
      <3> QED
        BY <1>1, <3>1 DEF ProbesOf
    <2> QED
      BY <1>1, <1>2, <2>1, <2>2, <2>3, <2>5, DropsNoHarvest
  <1> QED
    BY <1>3, <1>4

LEMMA DropsStorePayload ==
    ASSUME WatchInv, WatchInv', DropsInv, NEW g \in Goroutine, StorePayload(g) PROVE DropsStep
  <1>1. /\ pc[g] = "storePayload" /\ pid[g] \in Pid /\ dropped' = dropped
        /\ probes' = probes /\ pc \in [Goroutine -> Labels]
    BY DEF StorePayload, kernel, WatchInv, Types
  <1>2. rw(g) \notin Left /\ rw(g) \notin ProbesOf(Pid) /\ rw(g) \in Probe
    <2>1. rw(g) \in Probe
      BY ProbeNames
    <2>2. rw(g) \notin Left
      BY <1>1, LeftFacts DEF WatchInv
    <2>3. rw(g) \in ProbesOf(Pid) <=> \E p \in Pid : payloadProbes[p] = g
      BY ProbesOfFacts DEF WatchInv
    <2>4. \A p \in Pid : payloadProbes[p] # g
      BY <1>1, ConstantsAssumption DEF WatchInv, Registered
    <2> QED
      BY <2>1, <2>2, <2>3, <2>4
  <1>3. CASE closed
    <2>1. /\ closedDrops' = closedDrops + DropsOf({rw(g)}) /\ pc' = [pc EXCEPT ![g] = "closeRw"]
          /\ ProbesOf(Pid)' = ProbesOf(Pid)
      BY <1>1, <1>3 DEF StorePayload, harvestLocked, Goto, ProbesOf
    <2>2. Left \subseteq Left' /\ rw(g) \in Left'
      BY <1>1, <2>1 DEF Left, AfterStore
    <2>3. {rw(g)} \cap Gone = {}
      BY <1>2 DEF Gone
    <2>4. DropsInv'
      BY <1>1, <1>2, <2>1, <2>2, <2>3, Harvested
    <2>5. dropCounts' >= dropCounts
      BY <1>1, <1>2, <2>1, CountKept
    <2> QED
      BY <2>4, <2>5 DEF DropsStep
  <1>4. CASE ~closed
    <2>1. /\ closedDrops' = closedDrops /\ pc' = [pc EXCEPT ![g] = "done"]
          /\ payloadProbes' = [payloadProbes EXCEPT ![pid[g]] = g]
      BY <1>4 DEF StorePayload, Return, Goto
    <2>2. Left \subseteq Left'
      BY <1>1, <2>1 DEF Left, AfterStore
    <2>3. ProbesOf(Pid)' \subseteq ProbesOf(Pid) \cup {rw(g)}
      BY <1>1, <2>1 DEF ProbesOf, WatchInv, Types
    <2>4. ASSUME recycled = {} PROVE payloadProbes[pid[g]] = None
      <3>1. Claims(g)
        BY <1>1 DEF Claims, Past
      <3>2. ASSUME payloadProbes[pid[g]] # None PROVE FALSE
        <4> DEFINE h == payloadProbes[pid[g]]
        <4>1. h \in Goroutine /\ pid[h] = pid[g] /\ pc[h] = "done" /\ rw(h) \in open
          BY <1>1, <3>2 DEF WatchInv, Types, Registered
        <4>2. g = h
          BY <2>4, <3>1, <4>1 DEF WatchInv, OneAttacher, Claims
        <4> QED
          BY <1>1, <4>1, <4>2
      <3> QED
        BY <3>2
    <2>5. ASSUME recycled = {} PROVE ProbesOf(Pid) \subseteq ProbesOf(Pid)'
      <3>1. \A p \in Pid : payloadProbes[p] # None => payloadProbes'[p] = payloadProbes[p]
        BY <1>1, <2>1, <2>4, <2>5 DEF WatchInv, Types
      <3> QED
        BY <1>1, <3>1 DEF ProbesOf
    <2> QED
      BY <1>1, <1>2, <2>1, <2>2, <2>3, <2>5, DropsNoHarvest
  <1> QED
    BY <1>3, <1>4

(* Registrations leave the maps in the critical section that harvests them. *)
LEMMA DropsHandOver ==
    ASSUME WatchInv, WatchInv', DropsInv, NEW P \in SUBSET Pid,
           closedDrops' = closedDrops + DropsOf(ProbesOf(P)), UNCHANGED <<dropped, pc>>,
           probes' = Without(probes, P), payloadProbes' = Without(payloadProbes, P)
    PROVE  DropsStep
  <1> DEFINE H == ProbesOf(P)
  <1>1. H \subseteq Probe /\ ProbesOf(Pid) \subseteq Probe
    BY ProbesOfFacts DEF WatchInv
  <1>2. Left' = Left
    BY DEF Left
  <1>3. ProbesOf(Pid)' = {fd(probes[p]) : p \in {q \in Pid \ P : probes[q] # None}}
                         \cup {rw(payloadProbes[p]) : p \in {q \in Pid \ P : payloadProbes[q] # None}}
    <2>1. \A p \in Pid : /\ probes'[p] = IF p \in P THEN None ELSE probes[p]
                         /\ payloadProbes'[p] = IF p \in P THEN None ELSE payloadProbes[p]
      BY DEF Without
    <2> QED
      BY <2>1 DEF ProbesOf
  <1>4. ProbesOf(Pid)' \subseteq ProbesOf(Pid) /\ ProbesOf(Pid) \subseteq ProbesOf(Pid)' \cup H
    BY <1>3 DEF ProbesOf
  <1>5. \A p, q \in Pid : /\ probes[p] # None /\ probes[p] = probes[q] => p = q
                          /\ payloadProbes[p] # None /\ payloadProbes[p] = payloadProbes[q] => p = q
    BY DEF WatchInv, Registered
  <1>6. H \cap ProbesOf(Pid)' = {}
    <2>1. ASSUME NEW p \in P, NEW q \in Pid \ P
          PROVE  /\ probes[p] # None => fd(probes[p]) # fd(probes[q])
                 /\ payloadProbes[p] # None => rw(payloadProbes[p]) # rw(payloadProbes[q])
                 /\ fd(probes[p]) # rw(payloadProbes[q]) /\ rw(payloadProbes[p]) # fd(probes[q])
      BY <1>5, ProbeNames
    <2>2. ASSUME NEW x \in H, x \in ProbesOf(Pid)' PROVE FALSE
      <3>1. \E q \in Pid \ P : x = fd(probes[q]) \/ x = rw(payloadProbes[q])
        BY <1>3, <2>2
      <3>2. \E p \in P : \/ probes[p] # None /\ x = fd(probes[p])
                         \/ payloadProbes[p] # None /\ x = rw(payloadProbes[p])
        BY DEF ProbesOf
      <3> QED
        BY <2>1, <3>1, <3>2
    <2> QED
      BY <2>2
  <1>7. H \subseteq ProbesOf(Pid) /\ H \subseteq Left
    <2>1. \A p \in Pid : /\ probes[p] # None => fd(probes[p]) \in Left
                         /\ payloadProbes[p] # None => rw(payloadProbes[p]) \in Left
      BY DEF WatchInv, Types, Registered, Left
    <2> QED
      BY <2>1 DEF ProbesOf
  <1>8. DropsInv'
    BY <1>1, <1>2, <1>4, <1>6, <1>7, Harvested DEF Gone
  <1>9. dropCounts' >= dropCounts
    BY <1>1, <1>4, CountKept
  <1> QED
    BY <1>8, <1>9 DEF DropsStep

(* A goroutine goes on, or none does, and registrations and counts stay.    *)
LEMMA DropsElse ==
    ASSUME WatchInv, WatchInv', DropsInv, UNCHANGED <<dropped, closedDrops, probes, payloadProbes>>,
           \A g \in Goroutine :
              /\ pc[g] = "closeFd" \/ pc[g] \in AfterStore => pc'[g] = pc[g] \/ pc'[g] \in AfterStore
              /\ pc[g] \in {"closeRw", "done"} => pc'[g] \in {"closeRw", "done"}
    PROVE  DropsStep
  <1>1. ProbesOf(Pid)' = ProbesOf(Pid)
    BY DEF ProbesOf
  <1>2. Left \subseteq Left'
    BY DEF Left
  <1> QED
    BY <1>1, <1>2, DropsNoHarvest

(* A goroutine that neither registers nor harvests.                         *)
LEMMA DropsGoroutine ==
    ASSUME WatchInv, WatchInv', DropsInv, NEW g \in Goroutine,
           \/ Find(g) \/ Acquire(g) \/ Skip(g) \/ Attach(g) \/ AttachPayload(g) \/ CloseOwn(g)
    PROVE  DropsStep
  <1>1. UNCHANGED <<dropped, closedDrops, probes, payloadProbes>>
    BY DEF Find, Acquire, Skip, Attach, AttachPayload, AttachTo, CloseOwn, kernel, watch, regs
  <1>2. \E l \in Labels :
           /\ pc' = [pc EXCEPT ![g] = l]
           /\ \/ pc[g] \in BeforeOpen
              \/ pc[g] = "attachPayload" /\ l \in {"storePayload", "done"}
              \/ pc[g] \in {"closeFd", "closeRw"} /\ l = "done"
    BY DEF Find, Acquire, Skip, Attach, AttachPayload, AttachTo, CloseOwn, Goto, Return, Labels,
           BeforeOpen
  <1>3. pc \in [Goroutine -> Labels]
    BY DEF WatchInv, Types
  <1> QED
    BY <1>1, <1>2, <1>3, DropsElse DEF BeforeOpen, AfterStore

LEMMA DropsNext == ASSUME WatchInv, WatchInv', DropsInv, [Next]_vars PROVE DropsStep
  <1>1. ASSUME UNCHANGED <<dropped, closedDrops, probes, payloadProbes, pc>> PROVE DropsStep
    BY <1>1, DropsElse
  <1>2. ASSUME NEW p \in Pid, Exit(p) \/ Recycle(p) PROVE DropsStep
    BY <1>1, <1>2 DEF Exit, Recycle, kernel, watch, regs
  <1>3. ASSUME NEW p \in Pid, OnEvent(p) PROVE DropsStep
    <2>1. PICK g \in Goroutine : pc[g] = "idle" /\ pc' = [pc EXCEPT ![g] = "find"]
      BY <1>3 DEF OnEvent, Goto
    <2>2. UNCHANGED <<dropped, closedDrops, probes, payloadProbes>> /\ pc \in [Goroutine -> Labels]
      BY <1>3 DEF OnEvent, kernel, regs, WatchInv, Types
    <2> QED
      BY <2>1, <2>2, DropsElse DEF AfterStore
  <1>4. ASSUME NEW g \in Goroutine, GoroutineStep(g) PROVE DropsStep
    BY <1>4, DropsGoroutine, DropsStore, DropsStorePayload DEF GoroutineStep
  <1>5. CASE reapDeadProbes
    BY <1>5, DropsHandOver DEF reapDeadProbes, harvestLocked, kernel, Reapable
  <1>6. CASE TakeAll
    BY <1>6, DropsHandOver DEF TakeAll, harvestLocked, kernel
  <1>7. CASE ReaperCloses \/ ReaperStops \/ BeginClose \/ CloserCloses \/ CloseReturns
    BY <1>1, <1>7 DEF ReaperCloses, ReaperStops, BeginClose, CloserCloses, CloseReturns, kernel,
                      watch, regs
  <1>8. CASE UNCHANGED vars
    BY <1>1, <1>8 DEF vars, kernel, watch, regs
  <1> QED
    BY <1>2, <1>3, <1>4, <1>5, <1>6, <1>7, <1>8, DropsDrop DEF Next, CloserStep

(* dropCounts never exceeds what the kernel counted, and it never goes down *)
(* while no pid was used again: a probe leaves the maps in the critical     *)
(* section that harvests it, and a probe that comes after Close is          *)
(* harvested by its goroutine.                                              *)
THEOREM DropsCountedOnceHolds == Spec => DropsCountedOnce
  <1> DEFINE Counted == dropCounts <= DropsOf(Probe)
  <1>1. ASSUME Init PROVE DropsInv
    <2>1. dropped \in [Probe -> Nat] /\ closedDrops = 0
      BY <1>1 DEF Init
    <2>2. Types
      BY <1>1, WatchInit DEF WatchInv
    <2>3. DropsOf(Gone) \in Nat
      BY <2>1, <2>2, LeftFacts, ProbesFinite, FS_Subset, SumNat, DropsAre DEF Numbers
    <2> QED
      BY <2>1, <2>3 DEF DropsInv
  <1>2. ASSUME WatchInv, DropsInv PROVE Counted
    <2>1. /\ Gone \subseteq Probe /\ IsFiniteSet(Gone)
          /\ ProbesOf(Pid) \subseteq Probe /\ IsFiniteSet(ProbesOf(Pid))
      BY <1>2, LeftFacts, ProbesFinite, FS_Subset DEF WatchInv
    <2>2. SumOver(dropped, Gone \cup ProbesOf(Pid))
             = SumOver(dropped, Gone) + SumOver(dropped, ProbesOf(Pid))
      BY <1>2, <2>1, SumOfUnion DEF Numbers, Gone, DropsInv
    <2>3. SumOver(dropped, Gone \cup ProbesOf(Pid)) <= SumOver(dropped, Probe)
      BY <1>2, <2>1, ProbesFinite, SumOfMore DEF Numbers, DropsInv
    <2>4. /\ SumOver(dropped, Gone) \in Nat /\ SumOver(dropped, ProbesOf(Pid)) \in Nat
          /\ SumOver(dropped, Probe) \in Nat
      BY <1>2, <2>1, ProbesFinite, SumNat DEF Numbers, DropsInv
    <2> QED
      BY <1>2, <2>2, <2>3, <2>4, DropsAre DEF DropsInv, dropCounts
  <1>3. ASSUME WatchInv, DropsInv, [Next]_vars, WatchInv' PROVE DropsInv'
    BY <1>3, DropsNext DEF DropsStep
  <1>4. ASSUME WatchInv, DropsInv, [Next]_vars, WatchInv', Counted'
        PROVE  [/\ dropCounts' <= DropsOf(Probe)'
                /\ recycled = {} => dropCounts' >= dropCounts]_vars
    BY <1>4, DropsNext DEF DropsStep
  <1> HIDE DEF Counted
  <1>5. Spec => []DropsInv
    BY <1>1, <1>3, WatchInvariant, PTL DEF Spec
  <1>6. Spec => []Counted
    BY <1>2, <1>5, WatchInvariant, PTL
  <1> QED
    BY <1>4, <1>5, <1>6, WatchInvariant, PTL DEF Spec, DropsCountedOnce
====
