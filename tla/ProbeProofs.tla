---------------------------- MODULE ProbeProofs ----------------------------
(***************************************************************************)
(* Proofs about the probes in the kernel, for every set of threads: Loader,  *)
(* which attaches and removes them, and SyscallCapture, what they do in the  *)
(* system calls, for every size of the maps and of the ring buffer and every *)
(* number of calls; and IovSample, for every list of iovecs and all budgets. *)
(***************************************************************************)
EXTENDS SyscallCapture, Loader, IovSample,
        FiniteSetTheorems, SequenceTheorems, WellFoundedInduction, TLAPS

-----------------------------------------------------------------------------
(* Loader: whichever step fails, the kernel keeps nothing, users are closed  *)
(* before what they use, and calls are not reported with the arguments of    *)
(* others.                                                                   *)

Sets == {"tinytap", "sslFd", "sslPayload"}
Name == {"read", "recvfrom", "SSL_set_fd", "SSL_write", "SSL_read", "SSL_write_ex",
         "SSL_read_ex", "SSL_free", "objs", "kprobeObjs", "reader", "tcp_sendmsg_locked"}
Handle == [of : Name, at : {"enter", "exit", "handle"}]

-----------------------------------------------------------------------------
(* The three lists.                                                         *)

(* An entry or an exit program is none of the other handles.                *)
LEMMA HookIsNoOther ==
    ASSUME NEW f \in {"read", "recvfrom", "SSL_set_fd", "SSL_write", "SSL_read",
                      "SSL_write_ex", "SSL_read_ex", "SSL_free"}
    PROVE  /\ Enter(f) \in Handle \ {Objs, KprobeObjs, Reader, Fentry}
           /\ Return(f) \in Handle \ {Objs, KprobeObjs, Reader, Fentry}
  <1>1. Enter(f) \in Handle /\ Return(f) \in Handle
    BY DEF Handle, Name, Enter, Return
  <1>2. f # "tcp_sendmsg_locked"
    OBVIOUS
  <1> QED
    BY <1>1, <1>2 DEF Enter, Return, Objs, KprobeObjs, Reader, Fentry

(* Hooks are links, none of the other handles.                              *)
LEMMA HooksFacts ==
    ASSUME set \in Sets
    PROVE  /\ Hooks \in Seq(Handle) /\ Len(Hooks) \in Nat \ {0}
           /\ \A i \in 1..Len(Hooks) :
                 Hooks[i] \notin {Objs, KprobeObjs, Reader, Fentry}
  <1> DEFINE Links == Handle \ {Objs, KprobeObjs, Reader, Fentry}
  <1> SUFFICES Hooks \in Seq(Links) /\ Len(Hooks) \in Nat \ {0}
    OBVIOUS
  <1>1. CASE set = "tinytap"
    <2>1. Hooks = <<Enter("read"), Enter("recvfrom"), Return("read"), Return("recvfrom")>>
      BY <1>1 DEF Hooks
    <2>2. {Enter("read"), Enter("recvfrom"), Return("read"), Return("recvfrom")}
             \subseteq Links
      BY HookIsNoOther
    <2> HIDE DEF Links
    <2> QED
      BY <2>1, <2>2
  <1>2. CASE set = "sslFd"
    <2>1. Hooks = <<Enter("SSL_set_fd")>>
      BY <1>2 DEF Hooks
    <2>2. {Enter("SSL_set_fd")} \subseteq Links
      BY HookIsNoOther
    <2> HIDE DEF Links
    <2> QED
      BY <2>1, <2>2
  <1>3. CASE set = "sslPayload"
    <2>1. Hooks = <<Enter("SSL_write"), Enter("SSL_read"), Return("SSL_read"),
                    Enter("SSL_write_ex"), Enter("SSL_read_ex"), Return("SSL_read_ex"),
                    Enter("SSL_free")>>
      BY <1>3 DEF Hooks
    <2>2. {Enter("SSL_write"), Enter("SSL_read"), Return("SSL_read"),
           Enter("SSL_write_ex"), Enter("SSL_read_ex"), Return("SSL_read_ex"),
           Enter("SSL_free")} \subseteq Links
      BY HookIsNoOther
    <2> HIDE DEF Links
    <2> QED
      BY <2>1, <2>2
  <1> QED
    BY <1>1, <1>2, <1>3 DEF Sets

(* A call that is stashed has an entry program in the list, and a map.      *)
LEMMA StashedFacts ==
    ASSUME set \in Sets, NEW f \in Stashed
    PROVE  /\ MapOf(f) \in Map
           /\ set = "sslPayload" => MapOf(f) = f
           /\ \E i \in 1..Len(Hooks) : Hooks[i] = Enter(f) /\ HasSymbol(Hooks[i])
  <1>1. CASE set = "tinytap"
    <2>1. Hooks = <<Enter("read"), Enter("recvfrom"), Return("read"), Return("recvfrom")>>
      BY <1>1 DEF Hooks
    <2>2. f \in {"read", "recvfrom"}
      BY <2>1 DEF Stashed, Range, Enter, Return
    <2>3. \A i \in 1..Len(Hooks) : HasSymbol(Hooks[i])
      BY <2>1 DEF HasSymbol, Required, Enter, Return
    <2>4. \E i \in 1..Len(Hooks) : Hooks[i] = Enter(f)
      <3>1. Len(Hooks) = 4 /\ Hooks[1] = Enter("read") /\ Hooks[2] = Enter("recvfrom")
        BY <2>1
      <3> QED
        BY <3>1, <2>2
    <2> QED
      BY <1>1, <2>3, <2>4 DEF MapOf, Map
  <1>2. CASE set = "sslFd"
    <2>1. Hooks = <<Enter("SSL_set_fd")>>
      BY <1>2 DEF Hooks
    <2>2. Stashed = {}
      BY <2>1 DEF Stashed, Range, Enter
    <2> QED
      BY <2>2
  <1>3. CASE set = "sslPayload"
    <2>1. Hooks = <<Enter("SSL_write"), Enter("SSL_read"), Return("SSL_read"),
                    Enter("SSL_write_ex"), Enter("SSL_read_ex"), Return("SSL_read_ex"),
                    Enter("SSL_free")>>
      BY <1>3 DEF Hooks
    <2>2. f = "SSL_read" \/ (f = "SSL_read_ex" /\ exSymbols)
      <3>1. PICK i \in DOMAIN Hooks :
               /\ Hooks[i].at = "exit" /\ HasSymbol(Hooks[i])
               /\ f = Hooks[i].of
        BY DEF Stashed, Range
      <3>2. i = 3 \/ i = 6
        BY <2>1, <3>1 DEF Enter
      <3>3. Hooks[3] = Return("SSL_read") /\ Hooks[6] = Return("SSL_read_ex")
        BY <2>1
      <3>4. i = 3 => f = "SSL_read"
        BY <3>1, <3>3 DEF Return
      <3>5. i = 6 => f = "SSL_read_ex" /\ exSymbols
        BY <3>1, <3>3 DEF HasSymbol, Required, Return
      <3> QED
        BY <3>2, <3>4, <3>5
    <2>3. Len(Hooks) = 7 /\ Hooks[2] = Enter("SSL_read") /\ Hooks[5] = Enter("SSL_read_ex")
      BY <2>1
    <2>4. HasSymbol(Enter("SSL_read")) /\ (exSymbols => HasSymbol(Enter("SSL_read_ex")))
      BY DEF HasSymbol, Required, Enter
    <2>5. \E i \in 1..Len(Hooks) : Hooks[i] = Enter(f) /\ HasSymbol(Hooks[i])
      BY <2>2, <2>3, <2>4
    <2> QED
      BY <1>3, <2>2, <2>5 DEF MapOf, Map
  <1> QED
    BY <1>1, <1>2, <1>3 DEF Sets

-----------------------------------------------------------------------------
(* What the kernel keeps, in every phase.                                   *)

Loading == {"attach", "kprobeObjects", "kprobe", "reader", "loaded"}
Closing == {"closing", "unwinding"}

Types ==
    /\ set \in Sets
    /\ pc \in {"objects", "closed", "failed"} \cup Loading \cup Closing
    /\ kprobeObjsCloser \in BOOLEAN /\ readerCloser \in BOOLEAN
    /\ links \in Seq(Handle) /\ attached \in Nat

(* While it loads, the struct knows all that is open, but for the objects   *)
(* of a program that is about to be attached.                               *)
LoadingKnown ==
    pc \in Loading =>
        /\ \A h \in open :
              \/ h \in {Objs, KprobeObjs, Reader}
              \/ \E i \in 1..Len(links) : h = links[i]
        /\ Objs \in open
        /\ KprobeObjs \in open <=> (pc = "kprobe" \/ kprobeObjsCloser)
        /\ Reader \in open <=> readerCloser
        /\ Fentry \in open => kprobeObjsCloser
        /\ \A i \in 1..Len(links) : links[i] \notin {Objs, KprobeObjs, Reader}

(* How far it has come.                                                     *)
LoadingDone ==
    pc \in Loading =>
        /\ pc = "attach" => attached < Len(Hooks)
        /\ pc # "attach" => attached = Len(Hooks)
        /\ pc \in {"kprobeObjects", "kprobe"} => set = "tinytap"
        /\ pc \in {"attach", "kprobeObjects", "kprobe"} => ~kprobeObjsCloser
        /\ readerCloser <=> (pc = "loaded" /\ set # "sslFd")
        /\ pc = "reader" => set # "sslFd"
        /\ \A i \in 1..attached : HasSymbol(Hooks[i]) => Hooks[i] \in open

(* What is still to close holds all that is open, in an order that closes   *)
(* the reader first, the objects last and those of the fentry program after *)
(* its link.                                                                *)
ClosingKnown ==
    pc \in Closing =>
        /\ toClose \in Seq(Handle)
        /\ \A h \in open : \E i \in 1..Len(toClose) : h = toClose[i]
        /\ toClose # <<>> => toClose[Len(toClose)] = Objs /\ Objs \in open
        /\ \A i \in 1..Len(toClose) : toClose[i] = Objs => i = Len(toClose)
        /\ \A i \in 1..Len(toClose) : toClose[i] = KprobeObjs => i >= Len(toClose) - 1
        /\ Fentry \in open => KprobeObjs \in open
        /\ Reader \in open => toClose # <<>> /\ toClose[1] = Reader

NothingOpen == pc \in {"objects", "failed", "closed"} => open = {}
NothingYet ==
    pc = "objects" =>
        links = <<>> /\ attached = 0 /\ ~kprobeObjsCloser /\ ~readerCloser

HandlesInv ==
    Types /\ LoadingKnown /\ LoadingDone /\ ClosingKnown /\ NothingOpen /\ NothingYet

(* The elements of two lists, one after the other, by their places.         *)
LEMMA Concat ==
    ASSUME NEW S, NEW s \in Seq(S), NEW t \in Seq(S)
    PROVE  /\ s \o t \in Seq(S) /\ Len(s \o t) = Len(s) + Len(t)
           /\ \A i \in 1..Len(s) : (s \o t)[i] = s[i]
           /\ \A i \in 1..Len(t) : (s \o t)[Len(s) + i] = t[i]
           /\ \A i \in 1..Len(s \o t) :
                 \/ i \in 1..Len(s) /\ (s \o t)[i] = s[i]
                 \/ i \in Len(s) + 1 .. Len(s) + Len(t) /\ (s \o t)[i] = t[i - Len(s)]
  <1>1. /\ s \o t \in Seq(S) /\ Len(s \o t) = Len(s) + Len(t)
        /\ \A i \in 1..Len(s \o t) : (s \o t)[i] = IF i <= Len(s) THEN s[i] ELSE t[i - Len(s)]
    BY ConcatProperties
  <1>2. Len(s) \in Nat /\ Len(t) \in Nat
    OBVIOUS
  <1>3. \A i \in 1..Len(t) : (s \o t)[Len(s) + i] = t[i]
    <2> TAKE i \in 1..Len(t)
    <2>1. Len(s) + i \in 1..Len(s \o t) /\ ~(Len(s) + i <= Len(s)) /\ Len(s) + i - Len(s) = i
      BY <1>1, <1>2
    <2> QED
      BY <1>1, <2>1
  <1> QED
    BY <1>1, <1>2, <1>3

(* The list that Close works off.                                           *)
LEMMA CloseOrderFacts ==
    ASSUME links \in Seq(Handle), kprobeObjsCloser \in BOOLEAN, readerCloser \in BOOLEAN,
           \A i \in 1..Len(links) : links[i] \notin {Objs, KprobeObjs, Reader}
    PROVE  /\ CloseOrder \in Seq(Handle) /\ CloseOrder # <<>>
           /\ CloseOrder[Len(CloseOrder)] = Objs
           /\ \A i \in 1..Len(CloseOrder) : CloseOrder[i] = Objs => i = Len(CloseOrder)
           /\ \A i \in 1..Len(CloseOrder) :
                 CloseOrder[i] = KprobeObjs => i >= Len(CloseOrder) - 1
           /\ \A j \in 1..Len(links) : \E i \in 1..Len(CloseOrder) : CloseOrder[i] = links[j]
           /\ kprobeObjsCloser => \E i \in 1..Len(CloseOrder) : CloseOrder[i] = KprobeObjs
           /\ readerCloser => CloseOrder[1] = Reader
  <1> DEFINE r == IF readerCloser THEN <<Reader>> ELSE <<>>
             k == IF kprobeObjsCloser THEN <<KprobeObjs>> ELSE <<>>
             a == r \o links
             b == a \o k
             c == b \o <<Objs>>
  <1>1. {Objs, KprobeObjs, Reader} \subseteq Handle
    BY DEF Handle, Name, Objs, KprobeObjs, Reader
  <1>2. Objs # KprobeObjs /\ Objs # Reader /\ KprobeObjs # Reader
    BY DEF Objs, KprobeObjs, Reader
  <1>3. /\ r \in Seq(Handle) /\ Len(r) \in {0, 1}
        /\ Len(r) = (IF readerCloser THEN 1 ELSE 0)
        /\ readerCloser => r[1] = Reader
    BY <1>1
  <1>4. /\ k \in Seq(Handle) /\ Len(k) \in {0, 1}
        /\ Len(k) = (IF kprobeObjsCloser THEN 1 ELSE 0)
        /\ kprobeObjsCloser => k[1] = KprobeObjs
    BY <1>1
  <1>5. <<Objs>> \in Seq(Handle) /\ Len(<<Objs>>) = 1 /\ <<Objs>>[1] = Objs
    BY <1>1
  <1> HIDE DEF r, k
  <1>6. /\ a \in Seq(Handle) /\ Len(a) = Len(r) + Len(links)
        /\ \A i \in 1..Len(r) : a[i] = r[i]
        /\ \A i \in 1..Len(links) : a[Len(r) + i] = links[i]
        /\ \A i \in 1..Len(a) :
              \/ i \in 1..Len(r) /\ a[i] = r[i]
              \/ i \in Len(r) + 1 .. Len(r) + Len(links) /\ a[i] = links[i - Len(r)]
    <2>1. r \in Seq(Handle) /\ links \in Seq(Handle)
      BY <1>3
    <2> QED
      BY <2>1, Concat
  <1> HIDE DEF a
  <1>7. /\ b \in Seq(Handle) /\ Len(b) = Len(a) + Len(k)
        /\ \A i \in 1..Len(a) : b[i] = a[i]
        /\ \A i \in 1..Len(k) : b[Len(a) + i] = k[i]
        /\ \A i \in 1..Len(b) :
              \/ i \in 1..Len(a) /\ b[i] = a[i]
              \/ i \in Len(a) + 1 .. Len(a) + Len(k) /\ b[i] = k[i - Len(a)]
    <2>1. a \in Seq(Handle) /\ k \in Seq(Handle)
      BY <1>4, <1>6
    <2> QED
      BY <2>1, Concat
  <1> HIDE DEF b
  <1>8. /\ c \in Seq(Handle) /\ Len(c) = Len(b) + 1 /\ c[Len(b) + 1] = Objs
        /\ \A i \in 1..Len(b) : c[i] = b[i]
    <2>1. b \in Seq(Handle) /\ Len(b) \in Nat
      BY <1>7
    <2> DEFINE o == <<Objs>>
    <2>2. Len(o) = 1 /\ o[1] = Objs
      BY <1>5
    <2>3. o \in Seq(Handle)
      BY <1>5
    <2> HIDE DEF o
    <2>4. /\ b \o o \in Seq(Handle) /\ Len(b \o o) = Len(b) + Len(o)
          /\ \A i \in 1..Len(b) : (b \o o)[i] = b[i]
          /\ \A i \in 1..Len(o) : (b \o o)[Len(b) + i] = o[i]
      BY <2>1, <2>3, Concat
    <2>5. c = b \o o
      BY DEF c, o
    <2>6. 1 \in 1..Len(o)
      BY <2>2
    <2> QED
      BY <2>1, <2>2, <2>4, <2>5, <2>6
  <1> HIDE DEF c
  <1>9. CloseOrder = c
    BY DEF CloseOrder, c, b, a, r, k
  <1>10. /\ Len(r) \in {0, 1} /\ Len(k) \in {0, 1} /\ Len(links) \in Nat
         /\ Len(a) \in Nat /\ Len(b) \in Nat
    <2>1. r \in Seq(Handle) /\ k \in Seq(Handle) /\ a \in Seq(Handle) /\ b \in Seq(Handle)
      BY <1>3, <1>4, <1>6, <1>7
    <2> QED
      BY <1>3, <1>4, <2>1
  <1>11. \A i \in 1..Len(r) : c[i] = r[i] /\ r[i] = Reader
    BY <1>3, <1>6, <1>7, <1>8, <1>10
  <1>12. \A i \in 1..Len(links) : Len(r) + i \in 1..Len(c) /\ c[Len(r) + i] = links[i]
    <2> TAKE i \in 1..Len(links)
    <2>1. /\ Len(c) = Len(b) + 1 /\ Len(b) = Len(a) + Len(k)
          /\ Len(a) = Len(r) + Len(links)
      BY <1>6, <1>7, <1>8
    <2>2. Len(r) + i \in 1..Len(a) /\ Len(r) + i \in 1..Len(b) /\ Len(r) + i \in 1..Len(c)
      BY <1>10, <2>1
    <2> QED
      BY <1>6, <1>7, <1>8, <2>2
  <1>13. \A i \in 1..Len(k) : Len(a) + i \in 1..Len(c) /\ c[Len(a) + i] = KprobeObjs
    <2> TAKE i \in 1..Len(k)
    <2>1. Len(c) = Len(b) + 1 /\ Len(b) = Len(a) + Len(k)
      BY <1>7, <1>8
    <2>2. Len(k) = 1 /\ i = 1
      <3> DEFINE n == Len(k)
      <3>1. n \in {0, 1}
        BY <1>10
      <3>2. i \in 1..n
        OBVIOUS
      <3>3. n = 1 /\ i = 1
        <4> HIDE DEF n
        <4> QED
          BY <3>1, <3>2
      <3> QED
        BY <3>3
    <2>3. Len(a) + 1 \in 1..Len(b) /\ Len(a) + 1 \in 1..Len(c)
      BY <1>10, <2>1, <2>2
    <2>4. k[i] = KprobeObjs
      BY <1>4, <2>2
    <2> QED
      BY <1>7, <1>8, <2>2, <2>3, <2>4
  <1>14. \A i \in 1..Len(c) :
            \/ i = Len(c)
            \/ i = Len(c) - 1 /\ c[i] = KprobeObjs
            \/ c[i] = Reader
            \/ \E j \in 1..Len(links) : c[i] = links[j]
    <2> TAKE i \in 1..Len(c)
    <2>1. CASE i \in 1..Len(r)
      BY <1>11, <2>1
    <2>2. CASE i \in Len(r) + 1 .. Len(r) + Len(links)
      <3>1. i - Len(r) \in 1..Len(links) /\ Len(r) + (i - Len(r)) = i
        BY <1>10, <2>2
      <3> QED
        BY <1>12, <3>1
    <2>3. CASE i \in Len(a) + 1 .. Len(a) + Len(k)
      <3>1. Len(c) = Len(b) + 1 /\ Len(b) = Len(a) + Len(k)
        BY <1>7, <1>8
      <3>2. Len(k) = 1 /\ i = Len(a) + 1
        <4>1. Len(k) = 0 \/ Len(k) = 1
          BY <1>10
        <4>2. Len(a) \in Int
          BY <1>10
        <4>3. CASE Len(k) = 0
          <5>1. i \in Len(a) + 1 .. Len(a)
            BY <2>3, <4>2, <4>3
          <5> QED
            BY <4>2, <5>1
        <4>4. CASE Len(k) = 1
          <5>1. i \in Len(a) + 1 .. Len(a) + 1
            BY <2>3, <4>4
          <5> QED
            BY <4>2, <4>4, <5>1
        <4> QED
          BY <4>1, <4>3, <4>4
      <3>3. 1 \in 1..Len(k) /\ i = Len(c) - 1
        BY <1>10, <3>1, <3>2
      <3> QED
        BY <1>13, <3>2, <3>3
    <2>4. CASE i = Len(c)
      BY <2>4
    <2>5. /\ Len(c) = Len(b) + 1 /\ Len(b) = Len(a) + Len(k)
          /\ Len(a) = Len(r) + Len(links)
      BY <1>6, <1>7, <1>8
    <2> QED
      BY <1>10, <2>1, <2>2, <2>3, <2>4, <2>5
  <1>15. Len(c) \in Nat /\ c # <<>> /\ c[Len(c)] = Objs /\ Len(c) - 1 \in Int
    BY <1>8, <1>10
  <1>16. \A i \in 1..Len(c) : /\ c[i] = Objs => i = Len(c)
                              /\ c[i] = KprobeObjs => i >= Len(c) - 1
    BY <1>2, <1>14, <1>15
  <1>17. kprobeObjsCloser => \E i \in 1..Len(c) : c[i] = KprobeObjs
    <2>1. kprobeObjsCloser => 1 \in 1..Len(k)
      BY <1>4
    <2> QED
      BY <1>13, <2>1
  <1>18. readerCloser => c[1] = Reader
    <2>1. readerCloser => 1 \in 1..Len(r)
      BY <1>3
    <2> QED
      BY <1>11, <2>1
  <1> QED
    BY <1>8, <1>9, <1>12, <1>15, <1>16, <1>17, <1>18

-----------------------------------------------------------------------------
(* HandlesInv is inductive.                                                 *)

(* The lists and the symbols stay what they are.                            *)
LEMMA SameHooks ==
    ASSUME UNCHANGED <<set, exSymbols>>
    PROVE  Hooks' = Hooks
  BY DEF Hooks, Enter, Return

LEMMA OtherHandles ==
    /\ {Objs, KprobeObjs, Reader, Fentry} \subseteq Handle
    /\ Objs # KprobeObjs /\ Objs # Reader /\ Objs # Fentry
    /\ KprobeObjs # Reader /\ KprobeObjs # Fentry /\ Reader # Fentry
  BY DEF Handle, Name, Objs, KprobeObjs, Reader, Fentry

(* Init.                                                                    *)
LEMMA HandlesInit == LoaderInit => HandlesInv
  <1> SUFFICES ASSUME LoaderInit PROVE HandlesInv
    OBVIOUS
  <1>1. Types
    <2>1. links \in Seq(Handle)
      BY DEF LoaderInit
    <2> QED
      BY <2>1 DEF LoaderInit, Types, Sets
  <1>2. LoadingKnown /\ LoadingDone /\ ClosingKnown /\ NothingOpen /\ NothingYet
    BY DEF LoaderInit, LoadingKnown, LoadingDone, ClosingKnown, NothingOpen, NothingYet,
           Loading, Closing
  <1> QED
    BY <1>1, <1>2 DEF HandlesInv

(* Close begins, or an error makes it begin.                                *)
LEMMA StartCloseStep ==
    ASSUME HandlesInv, pc \in {"attach", "reader", "loaded"}, NEW label \in Closing,
           StartClose(label)
    PROVE  HandlesInv'
  <1> USE DEF HandlesInv
  <1>1. /\ pc' = label /\ toClose' = CloseOrder /\ open' = open /\ links' = links
        /\ UNCHANGED <<set, attached, kprobeObjsCloser, readerCloser>>
    BY DEF StartClose
  <1>2. pc \in Loading /\ pc # "kprobe"
    BY DEF Loading
  <1>3. /\ CloseOrder \in Seq(Handle) /\ CloseOrder # <<>>
        /\ CloseOrder[Len(CloseOrder)] = Objs
        /\ \A i \in 1..Len(CloseOrder) : CloseOrder[i] = Objs => i = Len(CloseOrder)
        /\ \A i \in 1..Len(CloseOrder) :
              CloseOrder[i] = KprobeObjs => i >= Len(CloseOrder) - 1
        /\ \A j \in 1..Len(links) : \E i \in 1..Len(CloseOrder) : CloseOrder[i] = links[j]
        /\ kprobeObjsCloser => \E i \in 1..Len(CloseOrder) : CloseOrder[i] = KprobeObjs
        /\ readerCloser => CloseOrder[1] = Reader
    BY <1>2, CloseOrderFacts DEF Types, LoadingKnown
  <1>4. Types'
    BY <1>1 DEF Types
  <1>5. \A h \in open : \E i \in 1..Len(CloseOrder) : h = CloseOrder[i]
    <2>1. Len(CloseOrder) \in Nat /\ Len(CloseOrder) # 0
      BY <1>3
    <2>2. 1 \in 1..Len(CloseOrder) /\ Len(CloseOrder) \in 1..Len(CloseOrder)
      BY <2>1
    <2> TAKE h \in open
    <2>3. CASE h = Objs
      BY <1>3, <2>2, <2>3
    <2>4. CASE h = Reader
      BY <1>2, <1>3, <2>2, <2>4 DEF LoadingKnown
    <2>5. CASE h = KprobeObjs
      BY <1>2, <1>3, <2>5 DEF LoadingKnown
    <2>6. CASE \E j \in 1..Len(links) : h = links[j]
      BY <1>3, <2>6
    <2> QED
      BY <1>2, <2>3, <2>4, <2>5, <2>6 DEF LoadingKnown
  <1>6. /\ Objs \in open /\ (Fentry \in open => KprobeObjs \in open)
        /\ Reader \in open => readerCloser
    BY <1>2 DEF LoadingKnown
  <1>7. ClosingKnown'
    BY <1>1, <1>3, <1>5, <1>6 DEF ClosingKnown
  <1>8. LoadingKnown' /\ LoadingDone' /\ NothingOpen' /\ NothingYet'
    BY <1>1 DEF LoadingKnown, LoadingDone, NothingOpen, NothingYet, Loading, Closing
  <1> QED
    BY <1>4, <1>7, <1>8

(* One handle is closed.                                                    *)
LEMMA CloseNextStep ==
    ASSUME HandlesInv, CloseNext
    PROVE  HandlesInv'
  <1> USE DEF HandlesInv
  <1> DEFINE n == Len(toClose)
             rest == Tail(toClose)
  <1>1. /\ pc \in Closing /\ pc' = pc /\ toClose # <<>>
        /\ open' = open \ {toClose[1]} /\ toClose' = rest
        /\ UNCHANGED <<set, attached, links, kprobeObjsCloser, readerCloser>>
    BY DEF CloseNext, Closing
  <1>2. toClose \in Seq(Handle) /\ n \in Nat \ {0}
    BY <1>1 DEF ClosingKnown
  <1>3. rest \in Seq(Handle) /\ Len(rest) = n - 1 /\ \A i \in 1..n - 1 : rest[i] = toClose[i + 1]
    BY <1>1, <1>2
  <1> HIDE DEF n, rest
  <1>4. \A h \in open' : \E i \in 1..n - 1 : h = rest[i]
    <2> TAKE h \in open'
    <2>1. PICK i \in 1..n : h = toClose[i]
      BY <1>1 DEF ClosingKnown, n
    <2>2. i # 1 /\ i - 1 \in 1..n - 1 /\ (i - 1) + 1 = i
      BY <1>1, <1>2, <2>1
    <2> QED
      BY <1>3, <2>1, <2>2
  <1>5. n - 1 # 0 => rest[n - 1] = Objs /\ Objs \in open'
    <2> SUFFICES ASSUME n - 1 # 0 PROVE rest[n - 1] = Objs /\ Objs \in open'
      OBVIOUS
    <2>1. n - 1 \in 1..n - 1 /\ (n - 1) + 1 = n /\ 1 \in 1..n /\ 1 # n
      BY <1>2
    <2>2. toClose[n] = Objs /\ Objs \in open /\ toClose[1] # Objs
      BY <1>1, <2>1 DEF ClosingKnown, n
    <2> QED
      BY <1>1, <1>3, <2>1, <2>2
  <1>6. \A i \in 1..n - 1 : /\ rest[i] = Objs => i = n - 1
                            /\ rest[i] = KprobeObjs => i >= (n - 1) - 1
    <2> TAKE i \in 1..n - 1
    <2>1. i + 1 \in 1..n /\ rest[i] = toClose[i + 1]
      BY <1>2, <1>3
    <2>2. /\ toClose[i + 1] = Objs => i + 1 = n
          /\ toClose[i + 1] = KprobeObjs => i + 1 >= n - 1
      BY <1>1, <2>1 DEF ClosingKnown, n
    <2> QED
      BY <1>2, <2>1, <2>2
  <1>7. Fentry \in open' => KprobeObjs \in open'
    <2> SUFFICES ASSUME Fentry \in open', KprobeObjs \notin open' PROVE FALSE
      OBVIOUS
    <2>1. toClose[1] = KprobeObjs
      BY <1>1 DEF ClosingKnown, n
    <2>2. 1 >= n - 1
      BY <1>1, <1>2, <2>1 DEF ClosingKnown, n
    <2>3. PICK i \in 1..n - 1 : Fentry = rest[i]
      BY <1>4
    <2>4. i = n - 1 /\ n - 1 # 0
      BY <1>2, <2>2
    <2> QED
      BY <1>5, <2>3, <2>4, OtherHandles
  <1>8. toClose' = <<>> => n - 1 = 0
    BY <1>1, <1>3
  <1>9. ClosingKnown'
    <2>1. Len(toClose') = n - 1 /\ toClose' \in Seq(Handle)
      BY <1>1, <1>3
    <2>2. toClose' # <<>> => n - 1 # 0
      BY <2>1
    <2>3. Reader \notin open'
      BY <1>1 DEF ClosingKnown
    <2> QED
      BY <1>1, <1>4, <1>5, <1>6, <1>7, <2>1, <2>2, <2>3 DEF ClosingKnown, n
  <1>10. Types' /\ LoadingKnown' /\ LoadingDone' /\ NothingOpen' /\ NothingYet'
    BY <1>1 DEF Types, LoadingKnown, LoadingDone, NothingOpen, NothingYet, Loading, Closing
  <1> QED
    BY <1>9, <1>10

(* Close, or the constructor that failed, returns.                          *)
LEMMA CloseReturnsStep ==
    ASSUME HandlesInv, CloseReturns
    PROVE  HandlesInv'
  <1> USE DEF HandlesInv
  <1>1. /\ pc \in Closing /\ pc' \in {"closed", "failed"} /\ toClose = <<>>
        /\ UNCHANGED <<set, open, toClose, attached, links, kprobeObjsCloser, readerCloser>>
    BY DEF CloseReturns, Closing, handles
  <1>2. open = {}
    <2>1. Len(toClose) = 0
      BY <1>1
    <2> QED
      BY <1>1, <2>1 DEF ClosingKnown
  <1> QED
    BY <1>1, <1>2 DEF Types, LoadingKnown, LoadingDone, ClosingKnown, NothingOpen,
                      NothingYet, Loading, Closing

(* The objects are loaded, or not.                                          *)
LEMMA LoadObjectsStep ==
    ASSUME HandlesInv, LoadObjects
    PROVE  HandlesInv'
  <1> USE DEF HandlesInv
  <1>1. /\ pc = "objects" /\ links = <<>> /\ attached = 0 /\ ~kprobeObjsCloser
        /\ ~readerCloser /\ open = {}
        /\ UNCHANGED <<set, exSymbols, attached, links, kprobeObjsCloser, readerCloser, toClose>>
    BY DEF LoadObjects, NothingYet, NothingOpen
  <1>2. Len(links) = 0
    BY <1>1
  <1>3. Hooks' = Hooks /\ 0 < Len(Hooks)
    BY <1>1, SameHooks, HooksFacts DEF Types
  <1>4. \/ pc' = "attach" /\ open' = {Objs}
        \/ pc' = "failed" /\ open' = open
    BY DEF LoadObjects
  <1>5. Types'
    BY <1>1, <1>4 DEF Types, Loading
  <1>6. LoadingKnown'
    BY <1>1, <1>2, <1>4, OtherHandles DEF LoadingKnown, Loading
  <1>7. LoadingDone'
    BY <1>1, <1>3, <1>4 DEF LoadingDone, Loading
  <1>8. ClosingKnown' /\ NothingOpen' /\ NothingYet'
    BY <1>1, <1>4 DEF ClosingKnown, NothingOpen, NothingYet, Closing
  <1> QED
    BY <1>5, <1>6, <1>7, <1>8

(* The next hook is attached, or skipped because this libssl lacks it.      *)
LEMMA HookStep ==
    ASSUME HandlesInv, AttachHook \/ SkipHook
    PROVE  HandlesInv'
  <1> USE DEF HandlesInv
  <1> DEFINE n == attached + 1
  <1>1. /\ pc = "attach" /\ attached \in Nat /\ attached < Len(Hooks) /\ ~kprobeObjsCloser
        /\ ~readerCloser /\ set \in Sets
    BY DEF AttachHook, SkipHook, Types, LoadingDone, Loading
  <1>2. /\ attached' = n /\ pc' = (IF n = Len(Hooks) THEN AfterHooks ELSE "attach")
        /\ UNCHANGED <<set, exSymbols, kprobeObjsCloser, readerCloser, toClose>>
    BY DEF AttachHook, SkipHook, NextHook
  <1>3. \/ HasSymbol(Hook) /\ open' = open \cup {Hook} /\ links' = Append(links, Hook)
        \/ ~HasSymbol(Hook) /\ open' = open /\ links' = links
    BY DEF AttachHook, SkipHook
  <1>4. /\ Hooks' = Hooks /\ Hooks \in Seq(Handle) /\ Len(Hooks) \in Nat
        /\ n \in 1..Len(Hooks)
        /\ Hook = Hooks[n] /\ Hook \in Handle \ {Objs, KprobeObjs, Reader, Fentry}
    <2>1. Hooks' = Hooks
      BY <1>2, SameHooks
    <2>2. /\ Hooks \in Seq(Handle) /\ Len(Hooks) \in Nat
          /\ \A i \in 1..Len(Hooks) : Hooks[i] \notin {Objs, KprobeObjs, Reader, Fentry}
      BY <1>1, HooksFacts
    <2>3. n \in 1..Len(Hooks)
      BY <1>1, <2>2
    <2>4. Hooks[n] \in Handle
      BY <2>2, <2>3
    <2> QED
      BY <2>1, <2>2, <2>3, <2>4 DEF Hook
  <1>5. /\ pc' \in {"attach", "kprobeObjects", "reader", "loaded"}
        /\ pc' = "attach" <=> n # Len(Hooks)
        /\ pc' = "kprobeObjects" => set = "tinytap"
        /\ pc' = "reader" => set # "sslFd"
        /\ pc' = "loaded" => set = "sslFd"
    BY <1>1, <1>2 DEF AfterHooks, Sets
  <1> HIDE DEF n
  <1>6. /\ links' \in Seq(Handle)
        /\ \A i \in 1..Len(links') : \/ i \in 1..Len(links) /\ links'[i] = links[i]
                                     \/ links'[i] = Hook
        /\ \A i \in 1..Len(links) : i \in 1..Len(links') /\ links'[i] = links[i]
        /\ HasSymbol(Hook) => \E i \in 1..Len(links') : links'[i] = Hook
    <2>1. links \in Seq(Handle) /\ Len(links) \in Nat
      BY DEF Types
    <2>2. CASE links' = links /\ ~HasSymbol(Hook)
      BY <2>1, <2>2
    <2>3. CASE links' = Append(links, Hook)
      <3>1. /\ links' \in Seq(Handle) /\ Len(links') = Len(links) + 1
            /\ links'[Len(links) + 1] = Hook
            /\ \A i \in 1..Len(links) : links'[i] = links[i]
        BY <1>4, <2>1, <2>3
      <3>2. Len(links) + 1 \in 1..Len(links')
        BY <2>1, <3>1
      <3>3. \A i \in 1..Len(links') : i \in 1..Len(links) \/ i = Len(links) + 1
        BY <2>1, <3>1
      <3> QED
        BY <2>1, <3>1, <3>2, <3>3
    <2> QED
      BY <1>3, <2>2, <2>3
  <1>7. Types'
    BY <1>1, <1>2, <1>4, <1>5, <1>6 DEF Types, Loading
  <1>8. LoadingKnown'
    <2>1. /\ \A h \in open : \/ h \in {Objs, KprobeObjs, Reader}
                             \/ \E i \in 1..Len(links) : h = links[i]
          /\ Objs \in open /\ KprobeObjs \notin open /\ Reader \notin open /\ Fentry \notin open
          /\ \A i \in 1..Len(links) : links[i] \notin {Objs, KprobeObjs, Reader}
      BY <1>1 DEF LoadingKnown, Loading
    <2>2. /\ Objs \in open' /\ KprobeObjs \notin open' /\ Reader \notin open'
          /\ Fentry \notin open'
      BY <1>3, <1>4, <2>1
    <2>3. \A h \in open' : \/ h \in {Objs, KprobeObjs, Reader}
                           \/ \E i \in 1..Len(links') : h = links'[i]
      <3> TAKE h \in open'
      <3>1. CASE h \in open
        BY <1>6, <2>1, <3>1
      <3>2. CASE h \notin open
        BY <1>3, <1>6, <3>2
      <3> QED
        BY <3>1, <3>2
    <2>4. \A i \in 1..Len(links') : links'[i] \notin {Objs, KprobeObjs, Reader}
      BY <1>4, <1>6, <2>1
    <2> QED
      BY <1>1, <1>2, <1>5, <2>2, <2>3, <2>4 DEF LoadingKnown
  <1>9. LoadingDone'
    <2>1. \A i \in 1..n : HasSymbol(Hooks[i])' => Hooks[i] \in open'
      <3> TAKE i \in 1..n
      <3>1. HasSymbol(Hooks[i])' <=> HasSymbol(Hooks[i])
        BY <1>2, <1>4 DEF HasSymbol, Required
      <3>2. CASE i = n
        BY <1>3, <1>4, <3>1, <3>2
      <3>3. CASE i \in 1..attached
        BY <1>1, <1>3, <3>1, <3>3 DEF LoadingDone, Loading
      <3> QED
        BY <1>1, <3>2, <3>3 DEF n
    <2>2. pc' = "attach" => n < Len(Hooks)
      BY <1>4, <1>5
    <2> QED
      BY <1>1, <1>2, <1>4, <1>5, <2>1, <2>2 DEF LoadingDone
  <1>10. ClosingKnown' /\ NothingOpen' /\ NothingYet'
    BY <1>5 DEF ClosingKnown, NothingOpen, NothingYet, Closing
  <1> QED
    BY <1>7, <1>8, <1>9, <1>10

(* The kprobe objects and the fentry program of sendfile.                   *)
LEMMA KprobeStep ==
    ASSUME HandlesInv, LoadKprobe \/ AttachKprobe
    PROVE  HandlesInv'
  <1> USE DEF HandlesInv
  <1>1. /\ pc \in {"kprobeObjects", "kprobe"} /\ set = "tinytap" /\ ~kprobeObjsCloser
        /\ ~readerCloser /\ attached = Len(Hooks) /\ pc' \in {"kprobe", "reader"}
        /\ UNCHANGED <<set, exSymbols, attached, readerCloser, toClose>>
    BY DEF LoadKprobe, AttachKprobe, LoadingDone, Loading
  <1>2. \/ /\ open' = open \cup {KprobeObjs} /\ UNCHANGED <<links, kprobeObjsCloser>>
           /\ pc' = "kprobe"
        \/ /\ pc = "kprobeObjects" /\ pc' = "reader"
           /\ UNCHANGED <<open, links, kprobeObjsCloser>>
        \/ /\ pc = "kprobe" /\ pc' = "reader" /\ open' = open \cup {Fentry}
           /\ links' = Append(links, Fentry) /\ kprobeObjsCloser' = TRUE
        \/ /\ open' = open \ {KprobeObjs} /\ UNCHANGED <<links, kprobeObjsCloser>>
           /\ pc' = "reader"
    BY DEF LoadKprobe, AttachKprobe
  <1>3. /\ Hooks' = Hooks /\ Len(Hooks) \in Nat
        /\ \A i \in 1..Len(Hooks) : Hooks[i] # KprobeObjs
    BY <1>1, SameHooks, HooksFacts DEF Sets
  <1>4. /\ \A h \in open : \/ h \in {Objs, KprobeObjs, Reader}
                           \/ \E i \in 1..Len(links) : h = links[i]
        /\ Objs \in open /\ Reader \notin open /\ Fentry \notin open
        /\ KprobeObjs \in open <=> pc = "kprobe"
        /\ \A i \in 1..Len(links) : links[i] \notin {Objs, KprobeObjs, Reader}
    BY <1>1 DEF LoadingKnown, Loading
  <1>5. /\ links' \in Seq(Handle)
        /\ \A i \in 1..Len(links') : \/ i \in 1..Len(links) /\ links'[i] = links[i]
                                     \/ links'[i] = Fentry
        /\ \A i \in 1..Len(links) : i \in 1..Len(links') /\ links'[i] = links[i]
        /\ links' = links \/ \E i \in 1..Len(links') : links'[i] = Fentry
    <2>1. links \in Seq(Handle) /\ Len(links) \in Nat
      BY DEF Types
    <2>2. CASE links' = links
      BY <2>1, <2>2
    <2>3. CASE links' = Append(links, Fentry)
      <3>1. /\ links' \in Seq(Handle) /\ Len(links') = Len(links) + 1
            /\ links'[Len(links) + 1] = Fentry
            /\ \A i \in 1..Len(links) : links'[i] = links[i]
        BY <2>1, <2>3, OtherHandles
      <3>2. Len(links) + 1 \in 1..Len(links')
        BY <2>1, <3>1
      <3>3. \A i \in 1..Len(links') : i \in 1..Len(links) \/ i = Len(links) + 1
        BY <2>1, <3>1
      <3> QED
        BY <2>1, <3>1, <3>2, <3>3
    <2> QED
      BY <1>2, <2>2, <2>3
  <1>6. Types'
    BY <1>1, <1>2, <1>5 DEF Types, Loading
  <1>7. LoadingKnown'
    <2>1. \A i \in 1..Len(links') : links'[i] \notin {Objs, KprobeObjs, Reader}
      BY <1>4, <1>5, OtherHandles
    <2>2. \A h \in open' : \/ h \in {Objs, KprobeObjs, Reader}
                           \/ \E i \in 1..Len(links') : h = links'[i]
      <3> TAKE h \in open'
      <3>1. CASE h \in open
        BY <1>4, <1>5, <3>1
      <3>2. CASE h = KprobeObjs
        BY <3>2
      <3>3. CASE h = Fentry /\ h \notin open
        <4>1. links' = Append(links, Fentry) /\ links \in Seq(Handle)
          BY <1>2, <3>3, OtherHandles DEF Types
        <4>2. links' # links
          BY <4>1
        <4> QED
          BY <1>5, <3>3, <4>2
      <3> QED
        BY <1>2, <3>1, <3>2, <3>3
    <2>3. /\ Objs \in open' /\ Reader \notin open'
          /\ KprobeObjs \in open' <=> (pc' = "kprobe" \/ kprobeObjsCloser')
          /\ Fentry \in open' => kprobeObjsCloser'
      BY <1>1, <1>2, <1>4, OtherHandles
    <2> QED
      BY <1>1, <2>1, <2>2, <2>3 DEF LoadingKnown
  <1>8. LoadingDone'
    <2>1. \A i \in 1..attached : HasSymbol(Hooks[i])' => Hooks[i] \in open'
      <3> TAKE i \in 1..attached
      <3>1. HasSymbol(Hooks[i])' <=> HasSymbol(Hooks[i])
        BY <1>1, <1>3 DEF HasSymbol, Required
      <3>2. HasSymbol(Hooks[i]) => Hooks[i] \in open
        BY <1>1 DEF LoadingDone, Loading
      <3> QED
        BY <1>1, <1>2, <1>3, <3>1, <3>2
    <2>2. pc' = "kprobe" => ~kprobeObjsCloser'
      BY <1>1, <1>2
    <2> QED
      BY <1>1, <1>3, <2>1, <2>2 DEF LoadingDone
  <1>9. ClosingKnown' /\ NothingOpen' /\ NothingYet'
    BY <1>1 DEF ClosingKnown, NothingOpen, NothingYet, Closing
  <1> QED
    BY <1>6, <1>7, <1>8, <1>9

(* The ring buffer reader.                                                  *)
LEMMA OpenReaderStep ==
    ASSUME HandlesInv, OpenReader
    PROVE  HandlesInv'
  <1> USE DEF HandlesInv
  <1>1. /\ pc = "reader" /\ pc' = "loaded" /\ open' = open \cup {Reader} /\ readerCloser' = TRUE
        /\ UNCHANGED <<set, exSymbols, attached, links, kprobeObjsCloser, toClose>>
    BY DEF OpenReader
  <1>2. Hooks' = Hooks
    BY <1>1, SameHooks
  <1>3. Types'
    BY <1>1 DEF Types, Loading
  <1>4. LoadingKnown'
    BY <1>1, OtherHandles DEF LoadingKnown, Loading
  <1>5. LoadingDone'
    <2>1. \A i \in 1..attached : HasSymbol(Hooks[i])' => Hooks[i] \in open'
      <3> TAKE i \in 1..attached
      <3>1. HasSymbol(Hooks[i])' <=> HasSymbol(Hooks[i])
        BY <1>1, <1>2 DEF HasSymbol, Required
      <3> QED
        BY <1>1, <3>1 DEF LoadingDone, Loading
    <2>2. attached = Len(Hooks) /\ set # "sslFd"
      BY <1>1 DEF LoadingDone, Loading
    <2> QED
      BY <1>1, <1>2, <2>1, <2>2 DEF LoadingDone
  <1>6. ClosingKnown' /\ NothingOpen' /\ NothingYet'
    BY <1>1 DEF ClosingKnown, NothingOpen, NothingYet, Closing
  <1> QED
    BY <1>3, <1>4, <1>5, <1>6

(* Calls of threads, and stuttering, leave the handles alone.               *)
LEMMA OtherStep ==
    ASSUME HandlesInv, UNCHANGED <<set, exSymbols, pc, attached, handles>>
    PROVE  HandlesInv'
  <1>1. Hooks' = Hooks
    BY SameHooks
  <1> QED
    BY <1>1 DEF HandlesInv, Types, LoadingKnown, LoadingDone, ClosingKnown, NothingOpen,
                NothingYet, handles, HasSymbol, Required

LEMMA HandlesNext == HandlesInv /\ [LoaderNext]_loaderVars => HandlesInv'
  <1> SUFFICES ASSUME HandlesInv, [LoaderNext]_loaderVars PROVE HandlesInv'
    OBVIOUS
  <1>1. CASE LoadObjects
    BY <1>1, LoadObjectsStep
  <1>2. CASE AttachHook \/ SkipHook
    BY <1>2, HookStep
  <1>3. CASE AttachFails \/ OpenReaderFails
    BY <1>3, StartCloseStep DEF AttachFails, OpenReaderFails, Closing
  <1>4. CASE Close
    BY <1>4, StartCloseStep DEF Close, Closing
  <1>5. CASE LoadKprobe \/ AttachKprobe
    BY <1>5, KprobeStep
  <1>6. CASE OpenReader
    BY <1>6, OpenReaderStep
  <1>7. CASE CloseNext
    BY <1>7, CloseNextStep
  <1>8. CASE CloseReturns
    BY <1>8, CloseReturnsStep
  <1>9. CASE \E t \in Thread : \/ \E f \in Stashed : EnterCall(t, f)
                            \/ \E moved \in BOOLEAN : ReturnFromCall(t, moved)
    <2>1. UNCHANGED <<set, exSymbols, pc, attached, handles>>
      BY <1>9 DEF EnterCall, ReturnFromCall
    <2> QED
      BY <2>1, OtherStep
  <1>10. CASE UNCHANGED loaderVars
    BY <1>10, OtherStep DEF loaderVars
  <1> QED
    BY <1>1, <1>2, <1>3, <1>4, <1>5, <1>6, <1>7, <1>8, <1>9, <1>10 DEF LoaderNext, LoaderStep

(* HandlesInv holds in every reachable state.                               *)
THEOREM HandlesKnown == LoaderSpec => []HandlesInv
  <1> QED
    BY HandlesInit, HandlesNext, PTL DEF LoaderSpec

(* Whichever step of a constructor failed, and after every Close, nothing   *)
(* of tinytap is left in the kernel.                                        *)
THEOREM NothingIsLeftOpen == LoaderSpec => []NothingLeftOpen
  <1>1. HandlesInv => NothingLeftOpen
    BY DEF HandlesInv, NothingOpen, NothingLeftOpen
  <1> QED
    BY <1>1, HandlesKnown, PTL

(* At every step of loading, unwinding and closing, programs and maps       *)
(* outlive the links and the reader that use them; when all is loaded, no   *)
(* hook that this libssl has is missing.                                    *)
THEOREM UsersAreClosedFirst == LoaderSpec => []UsersCloseFirst
  <1>1. HandlesInv => UsersCloseFirst
    <2> SUFFICES ASSUME HandlesInv PROVE UsersCloseFirst
      OBVIOUS
    <2> USE DEF HandlesInv
    <2>1. open # {} => Objs \in open
      <3>1. CASE pc \in Loading
        BY <3>1 DEF LoadingKnown
      <3>2. CASE pc \in Closing
        <4>1. toClose = <<>> => Len(toClose) = 0
          OBVIOUS
        <4> QED
          BY <3>2, <4>1 DEF ClosingKnown
      <3>3. CASE pc \in {"objects", "closed", "failed"}
        BY <3>3 DEF NothingOpen
      <3> QED
        BY <3>1, <3>2, <3>3 DEF Types
    <2>2. Fentry \in open => KprobeObjs \in open
      BY DEF Types, LoadingKnown, ClosingKnown, NothingOpen
    <2>3. pc = "loaded" => \A h \in Range(Hooks) : HasSymbol(h) => h \in open
      <3> SUFFICES ASSUME pc = "loaded", NEW h \in Range(Hooks), HasSymbol(h)
                   PROVE  h \in open
        OBVIOUS
      <3>1. Hooks \in Seq(Handle)
        BY HooksFacts DEF Types
      <3>2. PICK i \in 1..Len(Hooks) : h = Hooks[i]
        BY <3>1 DEF Range
      <3> QED
        BY <3>2 DEF LoadingDone, Loading
    <2>4. pc = "loaded" => (Reader \in open) = (set # "sslFd")
      <3>1. pc = "loaded" => (Reader \in open <=> set # "sslFd")
        BY DEF LoadingKnown, LoadingDone, Loading
      <3> QED
        BY <3>1
    <2> QED
      BY <2>1, <2>2, <2>3, <2>4 DEF UsersCloseFirst
  <1> QED
    BY <1>1, HandlesKnown, PTL

-----------------------------------------------------------------------------
(* Whose arguments are reported.                                            *)

CallTypes ==
    /\ callOf \in [Thread -> [of : Stashed, loaded : BOOLEAN] \cup {None}]
    /\ pending \in [Thread -> [Map -> {"none", "own", "stale"}]]

(* A call entered when all was loaded has stashed its own arguments.        *)
OwnEntry ==
    \A t \in Thread :
        callOf[t] # None /\ callOf[t].loaded => pending[t][MapOf(callOf[t].of)] = "own"

NothingPending == pc = "objects" => \A t \in Thread, x \in Map : pending[t][x] = "none"

(* With a map for each call and entry programs attached before exit         *)
(* programs: an entry is there only if the entry program is, and that       *)
(* program has replaced what an earlier call left.                          *)
FreshEntries ==
    set = "sslPayload" /\ HasReader =>
        \A t \in Thread :
            /\ \A f \in Stashed : Enter(f) \notin open => pending[t][f] = "none"
            /\ callOf[t] # None => pending[t][callOf[t].of] # "stale"

ArgsInv == CallTypes /\ OwnEntry /\ NothingPending /\ FreshEntries /\ OwnArguments

LEMMA SameStashed ==
    ASSUME UNCHANGED <<set, exSymbols>>
    PROVE  Stashed' = Stashed
  <1>1. Hooks' = Hooks
    BY SameHooks
  <1> QED
    BY <1>1 DEF Stashed, HasSymbol, Required

LEMMA ArgsInit == LoaderInit => ArgsInv
  <1> SUFFICES ASSUME LoaderInit PROVE ArgsInv
    OBVIOUS
  <1>1. \A t \in Thread, x \in Map : pending[t][x] = "none"
    BY DEF LoaderInit
  <1>2. ~HasReader /\ \A t \in Thread : callOf[t] = None
    BY DEF LoaderInit, HasReader
  <1>3. CallTypes
    BY DEF LoaderInit, CallTypes
  <1>4. OwnArguments
    BY DEF LoaderInit, OwnArguments
  <1> QED
    BY <1>1, <1>2, <1>3, <1>4 DEF ArgsInv, OwnEntry, NothingPending, FreshEntries

(* A thread enters a call.                                                  *)
LEMMA EnterCallStep ==
    ASSUME HandlesInv, ArgsInv, NEW t \in Thread, NEW f \in Stashed, EnterCall(t, f)
    PROVE  ArgsInv'
  <1> USE DEF ArgsInv
  <1>1. /\ callOf[t] = None
        /\ callOf' = [callOf EXCEPT ![t] = [of |-> f, loaded |-> pc = "loaded"]]
        /\ UNCHANGED <<set, exSymbols, pc, open, foreign>>
        /\ Stashed' = Stashed
    BY SameStashed DEF EnterCall, handles
  <1>2. pending' = IF Enter(f) \in open
                   THEN [pending EXCEPT ![t][MapOf(f)] = "own"] ELSE pending
    BY DEF EnterCall
  <1>3. /\ MapOf(f) \in Map /\ (set = "sslPayload" => MapOf(f) = f)
        /\ pc = "loaded" => Enter(f) \in open
    <2>1. PICK i \in 1..Len(Hooks) : Hooks[i] = Enter(f) /\ HasSymbol(Hooks[i])
      BY StashedFacts DEF HandlesInv, Types
    <2>2. pc = "loaded" => Hooks[i] \in open
      BY <2>1 DEF HandlesInv, LoadingDone, Loading
    <2> QED
      BY <2>1, <2>2, StashedFacts DEF HandlesInv, Types
  <1>4. pending' \in [Thread -> [Map -> {"none", "own", "stale"}]]
    BY <1>2, <1>3 DEF CallTypes
  <1>5. \A u \in Thread : u # t => callOf'[u] = callOf[u] /\ pending'[u] = pending[u]
    BY <1>1, <1>2 DEF CallTypes
  <1>6. callOf'[t] = [of |-> f, loaded |-> pc = "loaded"]
    BY <1>1 DEF CallTypes
  <1>7. /\ Enter(f) \in open => pending'[t][MapOf(f)] = "own"
        /\ Enter(f) \notin open => pending' = pending
        /\ \A x \in Map : x # MapOf(f) => pending'[t][x] = pending[t][x]
    BY <1>2, <1>3 DEF CallTypes
  <1>8. CallTypes'
    <2>1. [of |-> f, loaded |-> pc = "loaded"] \in [of : Stashed, loaded : BOOLEAN]
      OBVIOUS
    <2> QED
      BY <1>1, <1>4, <2>1 DEF CallTypes
  <1>9. OwnEntry'
    <2> SUFFICES ASSUME NEW u \in Thread, callOf'[u] # None, callOf'[u].loaded
                 PROVE  pending'[u][MapOf(callOf'[u].of)] = "own"
      BY <1>1 DEF OwnEntry, MapOf
    <2>1. CASE u = t
      <3> DEFINE b == pc = "loaded"
      <3>1. callOf'[u] = [of |-> f, loaded |-> b]
        BY <1>6, <2>1
      <3> HIDE DEF b
      <3>2. callOf'[u].loaded = b /\ callOf'[u].of = f
        BY <3>1
      <3>3. b
        BY <3>2
      <3> QED
        BY <1>3, <1>7, <2>1, <3>2, <3>3 DEF b
    <2>2. CASE u # t
      BY <1>5, <2>2 DEF OwnEntry
    <2> QED
      BY <2>1, <2>2
  <1>10. NothingPending'
    <2> SUFFICES ASSUME pc = "objects", NEW u \in Thread, NEW x \in Map
                 PROVE  pending'[u][x] = "none"
      BY <1>1 DEF NothingPending
    <2>1. open = {}
      BY DEF HandlesInv, NothingOpen
    <2> QED
      BY <1>7, <2>1 DEF NothingPending
  <1>11. FreshEntries'
    <2>1. HasReader' <=> HasReader
      BY <1>1 DEF HasReader
    <2> SUFFICES ASSUME set = "sslPayload", HasReader, NEW u \in Thread
                 PROVE  /\ \A g \in Stashed : Enter(g) \notin open => pending'[u][g] = "none"
                        /\ callOf'[u] # None => pending'[u][callOf'[u].of] # "stale"
      BY <1>1, <2>1 DEF FreshEntries, Enter
    <2>2. CASE u # t
      BY <1>5, <2>2 DEF FreshEntries
    <2>3. CASE u = t
      <3>1. \A g \in Stashed : Enter(g) \notin open => pending'[t][g] = "none"
        <4> SUFFICES ASSUME NEW g \in Stashed, Enter(g) \notin open
                     PROVE  pending'[t][g] = "none"
          OBVIOUS
        <4>1. g \in Map
          BY StashedFacts DEF HandlesInv, Types
        <4>2. pending[t][g] = "none"
          BY DEF FreshEntries
        <4>3. Enter(f) \in open => g # f
          OBVIOUS
        <4> QED
          BY <1>3, <1>7, <4>1, <4>2, <4>3
      <3>2. callOf'[t].of = f
        BY <1>6
      <3>3. pending'[t][f] # "stale"
        <4>1. CASE Enter(f) \in open
          BY <1>3, <1>7, <4>1
        <4>2. CASE Enter(f) \notin open
          BY <3>1, <4>2
        <4> QED
          BY <4>1, <4>2
      <3> QED
        BY <2>3, <3>1, <3>2, <3>3
    <2> QED
      BY <2>2, <2>3
  <1>12. OwnArguments'
    BY <1>1 DEF OwnArguments
  <1> QED
    BY <1>8, <1>9, <1>10, <1>11, <1>12

(* A thread returns from its call.                                          *)
LEMMA ReturnStep ==
    ASSUME HandlesInv, ArgsInv, NEW t \in Thread, NEW moved \in BOOLEAN,
           ReturnFromCall(t, moved)
    PROVE  ArgsInv'
  <1> USE DEF ArgsInv
  <1> DEFINE f == callOf[t].of
             entry == pending[t][MapOf(f)]
             runs == Return(f) \in open
  <1>1. /\ callOf[t] # None /\ callOf' = [callOf EXCEPT ![t] = None]
        /\ UNCHANGED <<set, exSymbols, pc, open>>
        /\ Stashed' = Stashed
    BY SameStashed DEF ReturnFromCall, handles
  <1>2. /\ pending' = [pending EXCEPT ![t][MapOf(f)] =
                          IF runs \/ entry = "none" THEN "none" ELSE "stale"]
        /\ foreign' = IF runs /\ moved /\ entry = "stale" /\ HasReader
                      THEN foreign \cup {callOf[t].loaded} ELSE foreign
    BY DEF ReturnFromCall
  <1>3. f \in Stashed /\ callOf[t].loaded \in BOOLEAN
    BY <1>1 DEF CallTypes
  <1>4. MapOf(f) \in Map /\ (set = "sslPayload" => MapOf(f) = f)
    BY <1>3, StashedFacts DEF HandlesInv, Types
  <1>5. /\ entry = "stale" => callOf[t].loaded = FALSE
        /\ set = "sslPayload" /\ HasReader => entry # "stale"
    BY <1>1, <1>3, <1>4 DEF OwnEntry, FreshEntries
  <1> HIDE DEF f
  <1>6. CallTypes'
    <2>1. pending' \in [Thread -> [Map -> {"none", "own", "stale"}]]
      BY <1>2, <1>4 DEF CallTypes
    <2> QED
      BY <1>1, <2>1 DEF CallTypes
  <1>7. /\ \A u \in Thread : u # t => callOf'[u] = callOf[u] /\ pending'[u] = pending[u]
        /\ callOf'[t] = None
        /\ \A x \in Map :
              \/ pending'[t][x] = pending[t][x]
              \/ x = MapOf(f) /\ (entry = "none" => pending'[t][x] = "none")
    BY <1>1, <1>2, <1>4 DEF CallTypes
  <1>8. OwnEntry'
    <2> SUFFICES ASSUME NEW u \in Thread, callOf'[u] # None, callOf'[u].loaded
                 PROVE  pending'[u][MapOf(callOf'[u].of)] = "own"
      BY <1>1 DEF OwnEntry, MapOf
    <2>1. u # t
      BY <1>7
    <2> QED
      BY <1>7, <2>1 DEF OwnEntry
  <1>9. NothingPending'
    <2> SUFFICES ASSUME pc = "objects", NEW u \in Thread, NEW x \in Map
                 PROVE  pending'[u][x] = "none"
      BY <1>1 DEF NothingPending
    <2> QED
      BY <1>4, <1>7 DEF NothingPending
  <1>10. FreshEntries'
    <2>1. HasReader' <=> HasReader
      BY <1>1 DEF HasReader
    <2> SUFFICES ASSUME set = "sslPayload", HasReader, NEW u \in Thread
                 PROVE  /\ \A g \in Stashed : Enter(g) \notin open => pending'[u][g] = "none"
                        /\ callOf'[u] # None => pending'[u][callOf'[u].of] # "stale"
      BY <1>1, <2>1 DEF FreshEntries, Enter
    <2>2. CASE u # t
      BY <1>7, <2>2 DEF FreshEntries
    <2>3. CASE u = t
      <3> SUFFICES ASSUME NEW g \in Stashed, Enter(g) \notin open
                   PROVE  pending'[t][g] = "none"
        BY <1>7, <2>3
      <3>1. g \in Map
        BY StashedFacts DEF HandlesInv, Types
      <3>2. pending[t][g] = "none"
        BY DEF FreshEntries
      <3> QED
        BY <1>7, <3>1, <3>2
    <2> QED
      BY <2>2, <2>3
  <1>11. OwnArguments'
    BY <1>1, <1>2, <1>5 DEF OwnArguments
  <1> QED
    BY <1>6, <1>8, <1>9, <1>10, <1>11

(* Every other step leaves the threads alone, and an entry program is not   *)
(* closed while there is a reader.                                          *)
LEMMA LoaderArgsStep ==
    ASSUME HandlesInv, ArgsInv, UNCHANGED <<set, exSymbols, threads>>,
           HasReader' => HasReader \/ pc = "objects",
           pc' = "objects" => pc = "objects",
           set = "sslPayload" /\ HasReader /\ HasReader' => open \subseteq open'
    PROVE  ArgsInv'
  <1> USE DEF ArgsInv
  <1>1. Stashed' = Stashed /\ UNCHANGED <<callOf, pending, foreign>>
    BY SameStashed DEF threads
  <1>2. CallTypes' /\ OwnEntry' /\ NothingPending' /\ OwnArguments'
    BY <1>1 DEF CallTypes, OwnEntry, NothingPending, OwnArguments, MapOf
  <1>3. FreshEntries'
    <2> SUFFICES ASSUME set = "sslPayload", HasReader', NEW t \in Thread
                 PROVE  /\ \A f \in Stashed : Enter(f) \notin open' => pending[t][f] = "none"
                        /\ callOf[t] # None => pending[t][callOf[t].of] # "stale"
      BY <1>1 DEF FreshEntries, Enter
    <2>1. CASE HasReader
      BY <2>1 DEF FreshEntries
    <2>2. CASE pc = "objects"
      <3>1. \A f \in Stashed : f \in Map
        BY StashedFacts DEF HandlesInv, Types
      <3>2. callOf[t] # None => callOf[t].of \in Stashed
        BY DEF CallTypes
      <3> QED
        BY <2>2, <3>1, <3>2 DEF NothingPending
    <2> QED
      BY <2>1, <2>2
  <1> QED
    BY <1>2, <1>3

LEMMA ArgsNext == HandlesInv /\ ArgsInv /\ [LoaderNext]_loaderVars => ArgsInv'
  <1> SUFFICES ASSUME HandlesInv, ArgsInv, [LoaderNext]_loaderVars PROVE ArgsInv'
    OBVIOUS
  <1>1. CASE LoadObjects
    <2>1. UNCHANGED <<set, exSymbols, threads>> /\ pc = "objects" /\ ~HasReader
      BY <1>1 DEF LoadObjects, HasReader, HandlesInv, NothingOpen
    <2> QED
      BY <2>1, LoaderArgsStep
  <1>2. CASE AttachHook \/ SkipHook
    <2>1. /\ UNCHANGED <<set, exSymbols, threads>> /\ HasReader /\ pc' # "objects"
          /\ open \subseteq open'
      <3>1. set \in Sets
        BY DEF HandlesInv, Types
      <3> QED
        BY <1>2, <3>1 DEF AttachHook, SkipHook, NextHook, AfterHooks, HasReader, Sets
    <2> QED
      BY <2>1, LoaderArgsStep
  <1>3. CASE AttachFails \/ OpenReaderFails \/ Close
    <2>1. /\ UNCHANGED <<set, exSymbols, open, threads>> /\ pc' # "objects"
          /\ HasReader' => HasReader
      BY <1>3 DEF AttachFails, OpenReaderFails, Close, StartClose, HasReader
    <2> QED
      BY <2>1, LoaderArgsStep
  <1>4. CASE LoadKprobe \/ AttachKprobe
    <2>1. /\ UNCHANGED <<set, exSymbols, threads>> /\ HasReader /\ pc' # "objects"
          /\ set = "tinytap"
      BY <1>4 DEF LoadKprobe, AttachKprobe, HasReader, HandlesInv, LoadingDone, Loading
    <2> QED
      BY <2>1, LoaderArgsStep
  <1>5. CASE OpenReader
    <2>1. /\ UNCHANGED <<set, exSymbols, threads>> /\ HasReader /\ pc' # "objects"
          /\ open \subseteq open'
      BY <1>5 DEF OpenReader, HasReader
    <2> QED
      BY <2>1, LoaderArgsStep
  <1>6. CASE CloseNext
    <2>1. /\ UNCHANGED <<set, exSymbols, pc, threads>> /\ pc \in Closing
          /\ open' = open \ {toClose[1]}
      BY <1>6 DEF CloseNext, Closing
    <2>2. Reader \notin open'
      BY <2>1 DEF HandlesInv, ClosingKnown
    <2>3. ~HasReader'
      BY <2>1, <2>2 DEF HasReader, Closing
    <2> QED
      BY <2>1, <2>3, LoaderArgsStep
  <1>7. CASE CloseReturns
    <2>1. /\ UNCHANGED <<set, exSymbols, open, threads>> /\ pc' \in {"closed", "failed"}
      BY <1>7 DEF CloseReturns, handles
    <2>2. HasReader' => HasReader
      BY <2>1 DEF HasReader
    <2> QED
      BY <2>1, <2>2, LoaderArgsStep
  <1>8. CASE \E t \in Thread : \/ \E f \in Stashed : EnterCall(t, f)
                            \/ \E moved \in BOOLEAN : ReturnFromCall(t, moved)
    BY <1>8, EnterCallStep, ReturnStep
  <1>9. CASE UNCHANGED loaderVars
    <2>1. UNCHANGED <<set, exSymbols, pc, open, threads>>
      BY <1>9 DEF loaderVars, handles
    <2>2. HasReader' <=> HasReader
      BY <2>1 DEF HasReader
    <2> QED
      BY <2>1, <2>2, LoaderArgsStep
  <1> QED
    BY <1>1, <1>2, <1>3, <1>4, <1>5, <1>6, <1>7, <1>8, <1>9 DEF LoaderNext, LoaderStep

(* A call entered when all was loaded is never reported with the arguments  *)
(* of an earlier one, and no call of SSL_read or SSL_read_ex ever is, for   *)
(* any number of threads and whichever step of loading or closing they meet.*)
THEOREM ArgumentsAreOwn == LoaderSpec => []OwnArguments
  <1>1. LoaderInit => HandlesInv /\ ArgsInv
    BY HandlesInit, ArgsInit
  <1>2. HandlesInv /\ ArgsInv /\ [LoaderNext]_loaderVars => (HandlesInv /\ ArgsInv)'
    BY HandlesNext, ArgsNext
  <1>3. HandlesInv /\ ArgsInv => OwnArguments
    BY DEF ArgsInv
  <1> QED
    BY <1>1, <1>2, <1>3, PTL DEF LoaderSpec

-----------------------------------------------------------------------------
(* IovSample: the sample of a scattered buffer.                             *)

(* Induction, as a fact about sets of numbers.                              *)
LEMMA Induct ==
    ASSUME NEW n \in Nat, NEW T, 0 \in T, \A k \in 0..n : k \in T /\ k < n => k + 1 \in T
    PROVE  \A k \in 0..n : k \in T
  <1> SUFFICES ASSUME {k \in Nat : k <= n /\ k \notin T} # {} PROVE FALSE
    OBVIOUS
  <1> DEFINE Out == {k \in Nat : k <= n /\ k \notin T}
  <1>1. PICK x \in Out : \A y \in Out : ~(<<y, x>> \in OpToRel(<, Nat))
    <2>1. Out # {} /\ Out \subseteq Nat
      OBVIOUS
    <2> HIDE DEF Out
    <2> QED
      BY <2>1, NatLessThanWellFounded, WFMin
  <1>2. x \in Nat /\ x # 0 /\ x <= n /\ x \notin T
    OBVIOUS
  <1> DEFINE y == x - 1
  <1>3. y \in Nat /\ y < x /\ y + 1 = x /\ y < n
    BY <1>2
  <1>4. y \in T
    <2>1. y \in Out \/ y \in T
      BY <1>2, <1>3
    <2> HIDE DEF y, Out
    <2> QED
      BY <1>1, <1>2, <1>3, <2>1, Zenon DEF OpToRel
  <1> HIDE DEF y
  <1> QED
    BY <1>2, <1>3, <1>4

(* A function on 0..n that begins with 0 and adds the lengths one by one.   *)
Adds(f, n) == f \in [0..n -> Nat] /\ f[0] = 0 /\ \A k \in 1..n : f[k] = f[k - 1] + iov[k]

(* The room in the first iovecs is what its recursive definition says.      *)
LEMMA RoomFacts ==
    ASSUME iov \in Seq(Nat)
    PROVE  /\ Room \in [0..Len(iov) -> Nat] /\ Room[0] = 0
           /\ \A k \in 1..Len(iov) : Room[k] = Room[k - 1] + iov[k]
  <1> DEFINE N == Len(iov)
             T == {n \in Nat : \E f : Adds(f, n)}
  <1>1. N \in Nat /\ \A k \in 1..N : iov[k] \in Nat
    OBVIOUS
  <1>2. 0 \in T
    <2>1. Adds([k \in 0..0 |-> 0], 0)
      BY DEF Adds
    <2> QED
      BY <2>1
  <1>3. ASSUME NEW n \in 0..N, n \in T, n < N PROVE n + 1 \in T
    <2>1. PICK f : Adds(f, n)
      BY <1>3
    <2> DEFINE g == [k \in 0..n + 1 |-> IF k = n + 1 THEN f[n] + iov[n + 1] ELSE f[k]]
    <2>2. n \in Nat /\ n + 1 \in 1..N /\ iov[n + 1] \in Nat
      BY <1>1, <1>3
    <2>3. f \in [0..n -> Nat] /\ f[0] = 0 /\ \A k \in 1..n : f[k] = f[k - 1] + iov[k]
      BY <2>1 DEF Adds
    <2>4. g \in [0..n + 1 -> Nat] /\ g[0] = 0
      BY <2>2, <2>3
    <2>5. ASSUME NEW k \in 1..n + 1 PROVE g[k] = g[k - 1] + iov[k]
      <3>1. CASE k = n + 1
        BY <2>2, <3>1
      <3>2. CASE k # n + 1
        <4>1. k \in 1..n /\ k \in 0..n + 1 /\ k - 1 \in 0..n + 1 /\ k - 1 # n + 1
          BY <2>2, <2>5, <3>2
        <4>2. g[k] = f[k] /\ g[k - 1] = f[k - 1]
          BY <3>2, <4>1
        <4> QED
          BY <2>3, <4>1, <4>2
      <3> QED
        BY <3>1, <3>2
    <2>6. Adds(g, n + 1)
      <3> HIDE DEF g
      <3> QED
        BY <2>4, <2>5 DEF Adds
    <2> QED
      BY <2>2, <2>6
  <1>4. N \in T
    <2> HIDE DEF T, N
    <2>1. \A k \in 0..N : k \in T
      BY <1>1, <1>2, <1>3, Induct
    <2> QED
      BY <1>1, <2>1
  <1>5. PICK f : Adds(f, N)
    BY <1>4
  <1> DEFINE Rest(g) == [n \in 0..N |-> IF n = 0 THEN 0 ELSE g[n - 1] + iov[n]]
  <1>6. f = Rest(f)
    <2>1. f \in [0..N -> Nat] /\ f[0] = 0 /\ \A k \in 1..N : f[k] = f[k - 1] + iov[k]
      BY <1>5 DEF Adds
    <2>2. \A k \in 0..N : k = 0 \/ k \in 1..N
      BY <1>1
    <2>3. \A k \in 0..N : f[k] = Rest(f)[k]
      <3> HIDE DEF N
      <3> QED
        BY <2>1, <2>2
    <2> HIDE DEF N
    <2> QED
      BY <2>1, <2>3
  <1>7. Room = Rest(Room)
    <2>1. Room = CHOOSE g : g = Rest(g)
      BY DEF Room
    <2> HIDE DEF Rest
    <2> QED
      BY <1>6, <2>1
  <1> DEFINE R == Room
  <1>8. R = Rest(R)
    BY <1>7
  <1> HIDE DEF R
  <1>9. /\ R[0] = 0 /\ \A k \in 1..N : R[k] = R[k - 1] + iov[k]
        /\ DOMAIN R = 0..N
    <2> HIDE DEF N
    <2>1. DOMAIN R = 0..N /\ \A k \in 0..N : R[k] = IF k = 0 THEN 0 ELSE R[k - 1] + iov[k]
      BY <1>8
    <2>2. 0 \in 0..N /\ \A k \in 1..N : k \in 0..N /\ k # 0
      BY <1>1
    <2> QED
      BY <2>1, <2>2
  <1>10. \A k \in 0..N : R[k] \in Nat
    <2> DEFINE U == {k \in 0..N : R[k] \in Nat}
    <2> HIDE DEF N
    <2>1. 0 \in U
      BY <1>1, <1>9
    <2>2. ASSUME NEW k \in 0..N, k \in U, k < N PROVE k + 1 \in U
      <3>1. k + 1 \in 1..N /\ (k + 1) - 1 = k /\ k + 1 \in 0..N
        BY <1>1, <2>2
      <3>2. R[k + 1] = R[k] + iov[k + 1] /\ iov[k + 1] \in Nat
        BY <1>1, <1>9, <3>1
      <3> QED
        BY <2>2, <3>1, <3>2
    <2> HIDE DEF U
    <2>3. \A k \in 0..N : k \in U
      BY <1>1, <2>1, <2>2, Induct
    <2> QED
      BY <2>3 DEF U
  <1>11. R \in [0..N -> Nat]
    <2>1. R = [k \in 0..N |-> R[k]]
      BY <1>8
    <2> HIDE DEF N
    <2> QED
      BY <1>10, <2>1
  <1> QED
    BY <1>9, <1>11 DEF R

(* A sequence of the positions 1, 2, 3, ...                                 *)
FromStart(s) == s \in Seq(Nat) /\ \A k \in 1..Len(s) : s[k] = k

(* Positions that go on where a sequence ends make it longer.               *)
LEMMA GoOn ==
    ASSUME NEW s, FromStart(s), NEW m \in Nat, NEW more \in Seq(Nat), Len(more) = m,
           \A k \in 1..m : more[k] = Len(s) + k
    PROVE  FromStart(s \o more) /\ Len(s \o more) = Len(s) + m
  <1> DEFINE all == s \o more
             len == Len(s)
  <1>1. s \in Seq(Nat) /\ len \in Nat /\ \A k \in 1..len : s[k] = k
    BY DEF FromStart
  <1>2. /\ all \in Seq(Nat) /\ Len(all) = len + m
        /\ \A k \in 1..len : all[k] = s[k]
        /\ \A k \in 1..m : all[len + k] = more[k]
    BY <1>1, Concat
  <1>3. \A k \in 1..m : more[k] = len + k
    OBVIOUS
  <1> HIDE DEF all, len
  <1>4. ASSUME NEW k \in 1..len + m PROVE all[k] = k
    <2>1. CASE k \in 1..len
      BY <1>1, <1>2, <2>1
    <2>2. CASE k \notin 1..len
      <3>1. k - len \in 1..m /\ len + (k - len) = k
        BY <1>1, <2>2
      <3> QED
        BY <1>2, <1>3, <3>1
    <2> QED
      BY <2>1, <2>2
  <1>5. FromStart(all)
    BY <1>2, <1>4 DEF FromStart
  <1> QED
    BY <1>2, <1>5 DEF all, len

(* What the sample is when the first iovecs are dealt with, and none of     *)
(* them was taken for one of another length.                                *)
SampleTypes ==
    /\ iov \in Seq(Nat) /\ actual_len \in Nat
    /\ iteration \in 0..Len(iov) /\ iteration <= MAX_IOV

Gapless ==
    /\ truncated \in BOOLEAN /\ FromStart(payload)
    /\ remaining = actual_len - Least(actual_len, Room[iteration])
    /\ Len(payload) <= Least(actual_len, Room[iteration])
    /\ truncated \/ Len(payload) = Least(actual_len, Room[iteration])

SampleInv == SampleTypes /\ (~Wrapped => Gapless)

(* No iovec is dealt with: the sample is empty and all is left to copy.     *)
LEMMA SampleInvInit == SampleInit => SampleInv
  <1> SUFFICES ASSUME SampleInit PROVE SampleInv
    OBVIOUS
  <1>1. PICK n \in 0..MaxCount : iov \in [1..n -> 0..MaxLen]
    BY DEF SampleInit
  <1>2. iov \in Seq(Nat)
    <2>1. n \in Nat /\ 0..MaxLen \subseteq Nat
      BY <1>1
    <2>2. iov \in [1..n -> Nat]
      BY <1>1, <2>1
    <2> QED
      BY <2>1, <2>2
  <1>3. /\ actual_len \in 0..Room[Len(iov)] \/ actual_len = Word - 1
        /\ Room[Len(iov)] \in Nat
    BY <1>2, RoomFacts DEF SampleInit, IOV_ACTUAL_LEN_UNBOUNDED
  <1>4. actual_len \in Nat
    BY <1>3, IovAssumption
  <1>5. Room[0] = 0
    BY <1>2, RoomFacts
  <1>6. iteration = 0 /\ remaining = actual_len /\ truncated = FALSE /\ payload = <<>>
    BY DEF SampleInit
  <1>7. Least(actual_len, Room[iteration]) = 0
    BY <1>4, <1>5, <1>6 DEF Least
  <1>8. FromStart(payload) /\ Len(payload) = 0
    BY <1>6 DEF FromStart
  <1>9. remaining = actual_len - 0 /\ iteration \in 0..Len(iov) /\ iteration <= MAX_IOV
    BY <1>2, <1>4, <1>6, IovAssumption
  <1>10. truncated \in BOOLEAN
    BY <1>6
  <1> QED
    BY <1>2, <1>4, <1>7, <1>8, <1>9, <1>10 DEF SampleInv, SampleTypes, Gapless

(* Copy extends the sample by the bytes that follow it, or leaves it; it     *)
(* stays complete only if it was and takes all of the iovec.                 *)
LEMMA CopyFacts ==
    ASSUME NEW n \in 1..MAX_IOV, NEW avail \in Nat,
           FromStart(payload), Start(n) \in Nat, truncated \in BOOLEAN,
           truncated \/ Len(payload) = Start(n) \/ avail = 0,
           Copy(n, avail)
    PROVE  /\ FromStart(payload') /\ truncated' \in BOOLEAN
           /\ \/ payload' = payload /\ truncated'
              \/ payload' = payload /\ avail = 0 /\ (truncated => truncated')
              \/ /\ ~truncated
                 /\ Len(payload') <= Len(payload) + avail
                 /\ truncated' \/ Len(payload') = Len(payload) + avail
  <1> DEFINE budget == iov_sample_budget[n]
             to_read == Least(avail, budget)
             more == Bytes(n, to_read)
  <1>1. budget \in Nat
    BY IovAssumption
  <1>2. to_read \in Nat /\ to_read <= avail
    BY <1>1 DEF Least
  <1>3. \/ ~truncated /\ payload' = payload \o more /\ truncated' = (to_read < avail)
        \/ truncated' = TRUE /\ payload' = payload
        \/ truncated' = (truncated \/ avail > 0) /\ payload' = payload
    BY DEF Copy
  <1> HIDE DEF budget, to_read
  <1>4. CASE ~truncated /\ payload' = payload \o more /\ truncated' = (to_read < avail)
    <2>1. /\ more \in Seq(Nat) /\ Len(more) = to_read
          /\ \A k \in 1..to_read : more[k] = Start(n) + k
      BY <1>2 DEF Bytes
    <2>2. \A k \in 1..to_read : more[k] = Len(payload) + k
      <3>1. CASE avail = 0
        <4>1. 1..to_read = {}
          BY <1>2, <3>1
        <4> QED
          BY <4>1
      <3>2. CASE Len(payload) = Start(n)
        BY <2>1, <3>2
      <3> QED
        BY <1>4, <3>1, <3>2
    <2> HIDE DEF more
    <2>3. FromStart(payload') /\ Len(payload') = Len(payload) + to_read
      BY <1>2, <1>4, <2>1, <2>2, GoOn
    <2>4. truncated' <=> to_read < avail
      BY <1>4
    <2>5. Len(payload) \in Nat
      BY DEF FromStart
    <2>6. /\ Len(payload') <= Len(payload) + avail
          /\ to_read < avail \/ Len(payload') = Len(payload) + avail
      BY <1>2, <2>3, <2>5
    <2>7. truncated' \in BOOLEAN
      BY <1>4
    <2> QED
      BY <1>4, <2>3, <2>4, <2>6, <2>7
  <1>5. CASE truncated' = TRUE /\ payload' = payload
    BY <1>5
  <1>6. CASE truncated' = (truncated \/ avail > 0) /\ payload' = payload
    <2>1. truncated' \in BOOLEAN /\ (truncated' <=> truncated \/ avail > 0)
      BY <1>6
    <2>2. truncated' \/ (avail = 0 /\ (truncated => truncated'))
      BY <2>1
    <2> QED
      BY <1>6, <2>1, <2>2
  <1> QED
    BY <1>3, <1>4, <1>5, <1>6

(* One iovec more.                                                          *)
LEMMA IterateKeeps ==
    ASSUME SampleTypes, Gapless, Iterate, ~Wrapped' PROVE SampleTypes' /\ Gapless'
  <1> DEFINE n == iteration + 1
             avail == Least(iov[n], remaining)
             room == Room[iteration]
             old == Least(actual_len, room)
             new == Least(actual_len, Room[n])
  <1>0. /\ iteration < MAX_IOV /\ iteration < Len(iov)
        /\ Copy(n, Least(iov[n] % Word, remaining))
        /\ remaining' = remaining - Least(iov[n] % Word, remaining) /\ iteration' = n
        /\ iov' = iov /\ actual_len' = actual_len
    BY DEF Iterate
  <1>a. iov[n] % Word = iov[n]
    <2>1. iteration \in Nat /\ n \in 1..Len(iov) /\ iov[n] \in Nat
      BY <1>0 DEF SampleTypes
    <2>2. ~(iov[n] >= Word)
      BY <1>0, <2>1 DEF Wrapped
    <2> DEFINE len == iov[n]
    <2>3. len \in Nat /\ len < Word /\ Word \in Nat \ {0}
      BY <2>1, <2>2, IovAssumption
    <2> HIDE DEF len
    <2>4. len % Word = len
      BY <2>3
    <2> QED
      BY <2>4 DEF len
  <1>1. /\ iteration < MAX_IOV /\ iteration < Len(iov) /\ Copy(n, avail)
        /\ remaining' = remaining - avail /\ iteration' = n
        /\ iov' = iov /\ actual_len' = actual_len
    BY <1>0, <1>a
  <1>2. /\ iov \in Seq(Nat) /\ actual_len \in Nat /\ iteration \in 0..Len(iov)
        /\ truncated \in BOOLEAN /\ FromStart(payload)
        /\ remaining = actual_len - old
        /\ Len(payload) <= old /\ (truncated \/ Len(payload) = old)
    BY DEF SampleTypes, Gapless
  <1>3. /\ n \in 1..Len(iov) /\ n \in 1..MAX_IOV /\ n - 1 = iteration
        /\ n \in 0..Len(iov)
    BY <1>1, <1>2, IovAssumption
  <1>4. iov[n] \in Nat
    BY <1>2, <1>3
  <1>5. room \in Nat /\ Room[n] = room + iov[n] /\ Start(n) = room
    BY <1>2, <1>3, RoomFacts DEF Start
  <1> HIDE DEF n
  <1>6. /\ avail \in Nat /\ new = old + avail /\ new \in Nat /\ old \in Nat
        /\ old = room \/ avail = 0
    <2>1. /\ actual_len \in Nat /\ iov[n] \in Nat /\ room \in Nat
          /\ Room[n] = room + iov[n] /\ remaining = actual_len - old
      BY <1>2, <1>4, <1>5
    <2> HIDE DEF room
    <2>2. /\ old = IF actual_len < room THEN actual_len ELSE room
          /\ new = IF actual_len < room + iov[n] THEN actual_len ELSE room + iov[n]
          /\ avail = IF iov[n] < remaining THEN iov[n] ELSE remaining
      BY <2>1 DEF Least
    <2> DEFINE len == iov[n]
    <2> HIDE DEF avail, old, new, len
    <2>3. CASE actual_len < room
      BY <2>1, <2>2, <2>3 DEF len
    <2>4. CASE ~(actual_len < room)
      BY <2>1, <2>2, <2>4 DEF len
    <2> QED
      BY <2>3, <2>4
  <1> HIDE DEF avail, room, old, new
  <1>7. /\ FromStart(payload') /\ truncated' \in BOOLEAN
        /\ \/ payload' = payload /\ truncated'
           \/ payload' = payload /\ avail = 0 /\ (truncated => truncated')
           \/ /\ ~truncated
              /\ Len(payload') <= Len(payload) + avail
              /\ truncated' \/ Len(payload') = Len(payload) + avail
    BY <1>1, <1>2, <1>3, <1>5, <1>6, CopyFacts
  <1>8. Len(payload') <= new /\ (truncated' \/ Len(payload') = new)
    <2>1. Len(payload) \in Nat /\ Len(payload') \in Nat
      BY <1>2, <1>7 DEF FromStart
    <2> QED
      BY <1>2, <1>6, <1>7, <2>1
  <1>9. remaining' = actual_len - new
    BY <1>1, <1>2, <1>6
  <1>10. new = Least(actual_len', (Room[iteration])')
    <2>1. Room' = Room
      BY <1>1 DEF Room
    <2> QED
      BY <1>1, <2>1 DEF new, Least
  <1>11. iov' \in Seq(Nat) /\ iteration' \in 0..Len(iov') /\ iteration' <= MAX_IOV
    BY <1>1, <1>2, <1>3
  <1>12. Least(actual_len, Room[iteration])' = Least(actual_len', (Room[iteration])')
    BY DEF Least
  <1> QED
    BY <1>1, <1>2, <1>7, <1>8, <1>9, <1>10, <1>11, <1>12 DEF SampleTypes, Gapless

(* The sample is the start of the data of the call, without a gap, and      *)
(* complete unless it is marked as truncated: for every list of iovecs none *)
(* of which, among those looked at, is as long as a __u32 wraps at, any     *)
(* number of them that the loop looks at, all budgets, and whichever read   *)
(* of user memory fails (fill_iov_payload).                                 *)
THEOREM SampleIsPrefixHolds == SampleSpec => []SampleIsPrefix
  <1>1. SampleInit => SampleInv
    BY SampleInvInit
  <1>2. SampleInv /\ [SampleNext]_sampleVars => SampleInv'
    <2> SUFFICES ASSUME SampleInv, [SampleNext]_sampleVars PROVE SampleInv'
      OBVIOUS
    <2>1. CASE Iterate
      <3>1. SampleTypes'
        BY <2>1, IovAssumption DEF Iterate, SampleInv, SampleTypes
      <3>2. ASSUME ~Wrapped' PROVE Gapless'
        <4>1. 1..iteration \subseteq 1..iteration' /\ iov' = iov
          BY <2>1 DEF Iterate, SampleInv, SampleTypes
        <4>2. ~Wrapped
          BY <3>2, <4>1 DEF Wrapped
        <4> QED
          BY <2>1, <3>2, <4>2, IterateKeeps DEF SampleInv
      <3> QED
        BY <3>1, <3>2 DEF SampleInv
    <2>2. CASE Break \/ UNCHANGED sampleVars
      <3>1. /\ iov' = iov /\ actual_len' = actual_len /\ iteration' = iteration
            /\ truncated' = truncated /\ payload' = payload /\ remaining' = remaining
        BY <2>2 DEF Break, sampleVars
      <3>2. Room' = Room
        BY <3>1 DEF Room
      <3> QED
        BY <3>1, <3>2 DEF SampleInv, SampleTypes, Gapless, Wrapped, Least
    <2> QED
      BY <2>1, <2>2 DEF SampleNext
  <1>3. SampleInv => SampleIsPrefix
    <2> SUFFICES ASSUME SampleTypes, Gapless PROVE SampleIsPrefix
      BY DEF SampleInv, SampleIsPrefix
    <2>1. payload = [k \in 1..Len(payload) |-> k]
      <3>1. payload \in Seq(Nat) /\ \A k \in 1..Len(payload) : payload[k] = k
        BY DEF Gapless, FromStart
      <3>2. payload = [k \in 1..Len(payload) |-> payload[k]]
        BY <3>1
      <3> QED
        BY <3>1, <3>2
    <2>2. Start(iteration + 1) = Room[iteration] /\ Room[iteration] \in Nat
      <3>1. (iteration + 1) - 1 = iteration /\ iteration \in 0..Len(iov) /\ iov \in Seq(Nat)
        BY DEF SampleTypes
      <3> QED
        BY <3>1, RoomFacts DEF Start
    <2>3. Len(payload) <= Least(actual_len, Start(iteration + 1))
      BY <2>2 DEF Gapless
    <2>4. ~truncated => Len(payload) = Least(actual_len, Start(iteration + 1))
      BY <2>2 DEF Gapless
    <2> QED
      BY <2>1, <2>3, <2>4 DEF SampleIsPrefix
  <1> QED
    BY <1>1, <1>2, <1>3, PTL DEF SampleSpec

-----------------------------------------------------------------------------
(* SyscallCapture: stashing, submitting and counting.                        *)

USE SyscallAssumption

CallOrIdle == [kind : Kind \cup {"none"}, no : Nat]

(* The part of TypeOK the proofs need: every thread has a call or none, and *)
(* the keys of both maps are threads.                                       *)
Shapes ==
    /\ calls \in Nat
    /\ call \in [Tid -> CallOrIdle]
    /\ DOMAIN incoming_pending_map \subseteq Tid
    /\ DOMAIN sendfile_sample_map \subseteq Tid

(* A thread without a call has no entry: Idle is of no kind of a call.      *)
PendingKinds ==
    \A t \in DOMAIN incoming_pending_map :
        incoming_pending_map[t].kind \in {"in", "sendfile"}

(* A splice under way is one of the splices.                                *)
SplicesKnown == \A t \in Tid : call[t].kind = "splice" => call[t].no \in spliced

Entries == Shapes /\ PendingKinds /\ SplicesKnown /\ EntriesOfCallsUnderWay

(* What submit adds is the event it is given, and nothing else.             *)
LEMMA SubmitFacts ==
    ASSUME NEW t, NEW e, submit(t, e)
    PROVE  submitted' \subseteq submitted \cup {e}
BY DEF submit

(* The entry of the thread goes, the others stay as they are.               *)
LEMMA SubmitFromPendingFacts ==
    ASSUME NEW t, NEW moved, submit_from_pending(t, moved)
    PROVE  /\ DOMAIN incoming_pending_map' = DOMAIN incoming_pending_map \ {t}
           /\ \A u \in DOMAIN incoming_pending_map' :
                 incoming_pending_map'[u] = incoming_pending_map[u]
  <1>1. CASE t \notin DOMAIN incoming_pending_map
    BY <1>1 DEF submit_from_pending
  <1>2. CASE t \in DOMAIN incoming_pending_map
    <2>1. incoming_pending_map' = Delete(incoming_pending_map, t)
      BY <1>2 DEF submit_from_pending
    <2> QED
      BY <2>1 DEF Delete
  <1> QED
    BY <1>1, <1>2

(* stash_incoming puts the call of the thread into the map, or nothing.     *)
LEMMA StashFacts ==
    ASSUME NEW t, NEW c, stash_incoming(t, c)
    PROVE  /\ DOMAIN incoming_pending_map' \subseteq DOMAIN incoming_pending_map \cup {t}
           /\ \A u \in DOMAIN incoming_pending_map' :
                 \/ u \in DOMAIN incoming_pending_map
                    /\ incoming_pending_map'[u] = incoming_pending_map[u]
                 \/ u = t /\ incoming_pending_map'[u] = c
  <1>1. \/ incoming_pending_map' = incoming_pending_map
        \/ incoming_pending_map' = Put(incoming_pending_map, t, c)
    BY DEF stash_incoming
  <1>2. CASE incoming_pending_map' = incoming_pending_map
    BY <1>2
  <1>3. CASE incoming_pending_map' = Put(incoming_pending_map, t, c)
    BY <1>3 DEF Put
  <1> QED
    BY <1>1, <1>2, <1>3

-----------------------------------------------------------------------------
(* EntriesOfCallsUnderWay is an invariant.  A step of a thread changes only *)
(* what the thread has in call and in the maps.                             *)

(* Whatever a thread does, the entries are right if its own ones are.       *)
LEMMA ThreadStep ==
    ASSUME Entries, NEW t \in Tid, NEW c \in CallOrIdle,
           calls' \in Nat,
           call' = [call EXCEPT ![t] = c],
           DOMAIN incoming_pending_map' \subseteq DOMAIN incoming_pending_map \cup {t},
           DOMAIN sendfile_sample_map' \subseteq DOMAIN sendfile_sample_map \cup {t},
           \A u \in DOMAIN incoming_pending_map' \ {t} :
               incoming_pending_map'[u] = incoming_pending_map[u],
           \A u \in DOMAIN sendfile_sample_map' \ {t} :
               sendfile_sample_map'[u] = sendfile_sample_map[u],
           t \in DOMAIN incoming_pending_map' =>
               incoming_pending_map'[t] = c /\ c.kind \in {"in", "sendfile"},
           spliced \subseteq spliced', c.kind = "splice" => c.no \in spliced',
           t \in DOMAIN sendfile_sample_map' =>
               \/ c = [kind |-> "sendfile", no |-> sendfile_sample_map'[t]]
               \/ sendfile_sample_map'[t] \in spliced'
    PROVE  Entries'
  <1>1. Shapes /\ PendingKinds /\ SplicesKnown /\ EntriesOfCallsUnderWay
    BY DEF Entries
  <1>2. call'[t] = c /\ \A u \in Tid \ {t} : call'[u] = call[u]
    BY <1>1 DEF Shapes
  <1>3. Shapes'
    BY <1>1 DEF Shapes
  <1>4. PendingKinds'
    <2> SUFFICES ASSUME NEW u \in DOMAIN incoming_pending_map'
                 PROVE  incoming_pending_map'[u].kind \in {"in", "sendfile"}
      BY DEF PendingKinds
    <2>1. CASE u = t
      BY <2>1
    <2>2. CASE u # t
      BY <1>1, <2>2 DEF PendingKinds
    <2> QED
      BY <2>1, <2>2
  <1>5. ASSUME NEW u \in DOMAIN incoming_pending_map'
        PROVE  incoming_pending_map'[u] = call'[u]
    <2>1. CASE u = t
      BY <1>2, <2>1
    <2>2. CASE u # t
      <3>1. u \in DOMAIN incoming_pending_map /\ u \in Tid
        BY <1>1, <2>2 DEF Shapes
      <3> QED
        BY <1>1, <1>2, <2>2, <3>1 DEF EntriesOfCallsUnderWay
    <2> QED
      BY <2>1, <2>2
  <1>6. ASSUME NEW u \in DOMAIN sendfile_sample_map'
        PROVE  \/ call'[u] = [kind |-> "sendfile", no |-> sendfile_sample_map'[u]]
               \/ sendfile_sample_map'[u] \in spliced'
    <2>1. CASE u = t
      BY <1>2, <2>1
    <2>2. CASE u # t
      <3>1. u \in DOMAIN sendfile_sample_map /\ u \in Tid
        BY <1>1, <2>2 DEF Shapes
      <3>2. \/ call[u] = [kind |-> "sendfile", no |-> sendfile_sample_map[u]]
            \/ sendfile_sample_map[u] \in spliced
        BY <1>1, <3>1 DEF EntriesOfCallsUnderWay
      <3> QED
        BY <1>2, <2>2, <3>1, <3>2
    <2> QED
      BY <2>1, <2>2
  <1>7. SplicesKnown'
    BY <1>1, <1>2 DEF SplicesKnown
  <1> QED
    BY <1>3, <1>4, <1>5, <1>6, <1>7 DEF Entries, EntriesOfCallsUnderWay

(* What the kind of a call says about the entries of its thread.            *)
LEMMA OwnEntries ==
    ASSUME Entries, NEW t \in Tid
    PROVE  /\ t \in DOMAIN incoming_pending_map =>
                 call[t].kind \in {"in", "sendfile"} /\ incoming_pending_map[t] = call[t]
           /\ t \in DOMAIN sendfile_sample_map =>
                 \/ call[t].kind = "sendfile" /\ sendfile_sample_map[t] = call[t].no
                 \/ sendfile_sample_map[t] \in spliced
           /\ call[t] = Idle => t \notin DOMAIN incoming_pending_map
  <1>1. Shapes /\ PendingKinds /\ SplicesKnown /\ EntriesOfCallsUnderWay
    BY DEF Entries
  <1>2. ASSUME t \in DOMAIN incoming_pending_map
        PROVE  call[t].kind \in {"in", "sendfile"} /\ incoming_pending_map[t] = call[t]
    BY <1>1, <1>2 DEF PendingKinds, EntriesOfCallsUnderWay
  <1>3. ASSUME t \in DOMAIN sendfile_sample_map
        PROVE  \/ call[t].kind = "sendfile" /\ sendfile_sample_map[t] = call[t].no
               \/ sendfile_sample_map[t] \in spliced
    <2>1. \/ call[t] = [kind |-> "sendfile", no |-> sendfile_sample_map[t]]
          \/ sendfile_sample_map[t] \in spliced
      BY <1>1, <1>3 DEF EntriesOfCallsUnderWay
    <2> QED
      BY <2>1
  <1>4. Idle.kind = "none"
    BY DEF Idle
  <1> QED
    BY <1>2, <1>3, <1>4

LEMMA EntriesInit == Init => Entries
  <1> SUFFICES ASSUME Init PROVE Entries
    OBVIOUS
  <1>1. incoming_pending_map = <<>> /\ sendfile_sample_map = <<>>
    BY DEF Init
  <1>2. DOMAIN incoming_pending_map = {} /\ DOMAIN sendfile_sample_map = {}
    BY <1>1
  <1>3. Shapes
    BY <1>2 DEF Init, Shapes, Idle, CallOrIdle
  <1>4. SplicesKnown
    BY DEF Init, SplicesKnown, Idle
  <1> QED
    BY <1>2, <1>3, <1>4 DEF Entries, PendingKinds, EntriesOfCallsUnderWay

LEMMA EntriesStep == Entries /\ [Next]_vars => Entries'
  <1> SUFFICES ASSUME Entries, [Next]_vars PROVE Entries'
    OBVIOUS
  <1>calls. calls \in Nat /\ call \in [Tid -> CallOrIdle]
    BY DEF Entries, Shapes
  <1>new. ASSUME NEW kind \in Kind PROVE [kind |-> kind, no |-> calls + 1] \in CallOrIdle
    BY <1>calls DEF CallOrIdle
  <1>idle. Idle \in CallOrIdle
    BY DEF Idle, CallOrIdle
  <1>1. ASSUME NEW t \in Tid, EnterOut(t) PROVE Entries'
    <2>1. /\ call[t] = Idle
          /\ call' = [call EXCEPT ![t] = [kind |-> "out", no |-> calls + 1]]
          /\ calls' \in Nat
          /\ UNCHANGED <<incoming_pending_map, sendfile_sample_map, spliced>>
      BY <1>1, <1>calls DEF EnterOut, NextCall
    <2>2. /\ t \notin DOMAIN incoming_pending_map
          /\ t \in DOMAIN sendfile_sample_map => sendfile_sample_map[t] \in spliced
      BY <2>1, OwnEntries DEF Idle
    <2>3. [kind |-> "out", no |-> calls + 1] \in CallOrIdle
      BY <1>new DEF Kind
    <2> QED
      BY <2>1, <2>2, <2>3, ThreadStep
  <1>2. ASSUME NEW t \in Tid, ExitOut(t) PROVE Entries'
    <2>1. /\ call[t].kind \in {"out", "splice"}
          /\ call' = [call EXCEPT ![t] = Idle]
          /\ calls' \in Nat
          /\ UNCHANGED <<incoming_pending_map, sendfile_sample_map, spliced>>
      BY <1>2, <1>calls DEF ExitOut
    <2>2. /\ t \notin DOMAIN incoming_pending_map
          /\ t \in DOMAIN sendfile_sample_map => sendfile_sample_map[t] \in spliced
      BY <2>1, OwnEntries
    <2>3. Idle.kind = "none"
      BY DEF Idle
    <2> QED
      BY <1>idle, <2>1, <2>2, <2>3, ThreadStep
  <1>3. ASSUME NEW t \in Tid, NEW kind \in {"in", "sendfile"}, EnterIn(t, kind) PROVE Entries'
    <2> DEFINE c == [kind |-> kind, no |-> calls + 1]
    <2>1. /\ call[t] = Idle /\ call' = [call EXCEPT ![t] = c]
          /\ calls' \in Nat /\ UNCHANGED <<sendfile_sample_map, spliced>>
      BY <1>3, <1>calls DEF EnterIn, NextCall
    <2>2. call'[t] = c /\ c.kind \in {"in", "sendfile"} /\ c \in CallOrIdle
      BY <1>calls, <1>new, <2>1 DEF Kind
    <2>3. /\ t \notin DOMAIN incoming_pending_map
          /\ t \in DOMAIN sendfile_sample_map => sendfile_sample_map[t] \in spliced
      BY <2>1, OwnEntries DEF Idle
    <2>4. stash_incoming(t, c)
      BY <1>3, <2>2 DEF EnterIn
    <2> HIDE DEF c
    <2>5. /\ DOMAIN incoming_pending_map' \subseteq DOMAIN incoming_pending_map \cup {t}
          /\ \A u \in DOMAIN incoming_pending_map' :
                \/ u \in DOMAIN incoming_pending_map
                   /\ incoming_pending_map'[u] = incoming_pending_map[u]
                \/ u = t /\ incoming_pending_map'[u] = c
      BY <2>4, StashFacts
    <2> QED
      BY <2>1, <2>2, <2>3, <2>5, ThreadStep
  <1>untraced. ASSUME NEW t \in Tid, NEW kind \in Kind, NextCall(t, kind),
                      spliced' = spliced \cup IF kind = "splice" THEN {calls + 1} ELSE {},
                      UNCHANGED <<incoming_pending_map, sendfile_sample_map>>
               PROVE  Entries'
    <2>1. /\ call[t] = Idle
          /\ call' = [call EXCEPT ![t] = [kind |-> kind, no |-> calls + 1]]
          /\ calls' \in Nat
      BY <1>untraced, <1>calls DEF NextCall
    <2>2. /\ t \notin DOMAIN incoming_pending_map
          /\ t \in DOMAIN sendfile_sample_map => sendfile_sample_map[t] \in spliced
      BY <2>1, OwnEntries DEF Idle
    <2>3. [kind |-> kind, no |-> calls + 1] \in CallOrIdle
      BY <1>new DEF Kind
    <2> QED
      BY <1>untraced, <2>1, <2>2, <2>3, ThreadStep
  <1>4. ASSUME NEW t \in Tid, EnterSplice(t) PROVE Entries'
    BY <1>4, <1>untraced DEF EnterSplice, Kind
  <1>11. ASSUME NEW t \in Tid, NEW kind \in {"in", "out", "sendfile"}, EnterUnseen(t, kind)
         PROVE  Entries'
    <2>1. spliced' = spliced \cup IF kind = "splice" THEN {calls + 1} ELSE {}
      BY <1>11 DEF EnterUnseen
    <2> QED
      BY <1>11, <1>untraced, <2>1 DEF EnterUnseen, Kind
  <1>5. ASSUME NEW t \in Tid, handle_tcp_sendmsg_locked(t) PROVE Entries'
    <2>1. /\ call[t].kind \in {"sendfile", "splice"}
          /\ UNCHANGED <<call, incoming_pending_map, spliced>>
      BY <1>5 DEF handle_tcp_sendmsg_locked
    <2>2. call' = [call EXCEPT ![t] = call[t]]
      BY <1>calls, <2>1
    <2>3. \/ sendfile_sample_map' = sendfile_sample_map
          \/ sendfile_sample_map' = Put(sendfile_sample_map, t, call[t].no)
      BY <1>5 DEF handle_tcp_sendmsg_locked
    <2>4. \A u \in DOMAIN incoming_pending_map' :
             u = t => incoming_pending_map'[t] = call[t] /\ call[t].kind \in {"in", "sendfile"}
      BY <2>1, OwnEntries
    <2>0. calls' \in Nat
      BY <1>5, <1>calls DEF handle_tcp_sendmsg_locked
    <2>5. CASE sendfile_sample_map' = sendfile_sample_map
      <3>1. Shapes' /\ PendingKinds' /\ SplicesKnown' /\ EntriesOfCallsUnderWay'
        BY <2>0, <2>1, <2>5 DEF Entries, Shapes, PendingKinds, SplicesKnown,
                                EntriesOfCallsUnderWay
      <3> QED
        BY <3>1 DEF Entries
    <2>6. CASE sendfile_sample_map' = Put(sendfile_sample_map, t, call[t].no)
      <3>1. /\ DOMAIN sendfile_sample_map' = DOMAIN sendfile_sample_map \cup {t}
            /\ sendfile_sample_map'[t] = call[t].no
            /\ \A u \in DOMAIN sendfile_sample_map' \ {t} :
                  sendfile_sample_map'[u] = sendfile_sample_map[u]
        BY <2>6 DEF Put
      <3>2. call[t] \in CallOrIdle
        BY <1>calls
      <3>3. \/ call[t] = [kind |-> "sendfile", no |-> call[t].no]
            \/ call[t].no \in spliced
        BY <2>1, <3>2 DEF CallOrIdle, Entries, SplicesKnown
      <3> QED
        BY <2>1, <2>0, <2>2, <2>4, <3>1, <3>2, <3>3, ThreadStep
    <2> QED
      BY <2>3, <2>5, <2>6
  <1>6. ASSUME NEW t \in Tid, NEW moved, call[t].kind # "none",
               call' = [call EXCEPT ![t] = Idle], calls' \in Nat,
               submit_from_pending(t, moved), UNCHANGED spliced,
               DOMAIN sendfile_sample_map' \subseteq DOMAIN sendfile_sample_map,
               t \in DOMAIN sendfile_sample_map' => sendfile_sample_map[t] \in spliced,
               \A u \in DOMAIN sendfile_sample_map' :
                   sendfile_sample_map'[u] = sendfile_sample_map[u]
        PROVE  Entries'
    <2>1. /\ DOMAIN incoming_pending_map' = DOMAIN incoming_pending_map \ {t}
          /\ \A u \in DOMAIN incoming_pending_map' :
                incoming_pending_map'[u] = incoming_pending_map[u]
      BY <1>6, SubmitFromPendingFacts
    <2>2. Idle.kind = "none"
      BY DEF Idle
    <2> QED
      BY <1>6, <1>idle, <2>1, <2>2, ThreadStep
  <1>7. ASSUME NEW t \in Tid, NEW moved \in BOOLEAN, ExitIn(t, moved) PROVE Entries'
    <2>1. /\ call[t].kind = "in"
          /\ call' = [call EXCEPT ![t] = Idle] /\ calls' \in Nat
          /\ submit_from_pending(t, moved)
          /\ UNCHANGED <<sendfile_sample_map, spliced>>
      BY <1>7, <1>calls DEF ExitIn
    <2>2. t \in DOMAIN sendfile_sample_map => sendfile_sample_map[t] \in spliced
      BY <2>1, OwnEntries
    <2> QED
      BY <1>6, <2>1, <2>2
  <1>8. ASSUME NEW t \in Tid, NEW moved \in BOOLEAN, ExitSendfile(t, moved) PROVE Entries'
    <2>1. /\ call[t].kind = "sendfile"
          /\ call' = [call EXCEPT ![t] = Idle] /\ calls' \in Nat
          /\ submit_from_pending(t, moved) /\ UNCHANGED spliced
          /\ sendfile_sample_map' = Delete(sendfile_sample_map, t)
      BY <1>8, <1>calls DEF ExitSendfile
    <2>2. /\ DOMAIN sendfile_sample_map' = DOMAIN sendfile_sample_map \ {t}
          /\ \A u \in DOMAIN sendfile_sample_map' :
                sendfile_sample_map'[u] = sendfile_sample_map[u]
      BY <2>1 DEF Delete
    <2> QED
      BY <1>6, <2>1, <2>2
  <1>9. CASE UNCHANGED <<calls, call, incoming_pending_map, sendfile_sample_map, spliced>>
    BY <1>9 DEF Entries, Shapes, PendingKinds, SplicesKnown, EntriesOfCallsUnderWay
  <1>10. CASE Next
    BY <1>1, <1>2, <1>3, <1>4, <1>5, <1>7, <1>8, <1>9, <1>10, <1>11 DEF Next, Consume
  <1> QED
    BY <1>9, <1>10 DEF vars

(* The maps hold entries of calls under way only, in every state of every   *)
(* behaviour.                                                               *)
THEOREM EntriesHold == Spec => []EntriesOfCallsUnderWay
  <1>1. Entries => EntriesOfCallsUnderWay
    BY DEF Entries
  <1> QED
    BY <1>1, EntriesInit, EntriesStep, PTL DEF Spec

-----------------------------------------------------------------------------
(* SampleIsOwn: an event that is submitted on return is of the call that    *)
(* returns, and so is the sample its thread left.                           *)

LEMMA SampleStep == Entries /\ SampleIsOwn /\ [Next]_vars => SampleIsOwn'
  <1> SUFFICES ASSUME Entries, SampleIsOwn, [Next]_vars PROVE SampleIsOwn'
    OBVIOUS
  <1>0. spliced \subseteq spliced'
    BY DEF Next, vars, EnterOut, ExitOut, EnterIn, EnterUnseen, EnterSplice,
           handle_tcp_sendmsg_locked, ExitIn, ExitSendfile, Consume
  <1>1. ASSUME NEW t, NEW e, submit(t, e), e.sample \in {0, e.no} \cup spliced
        PROVE  SampleIsOwn'
    BY <1>0, <1>1, SubmitFacts DEF SampleIsOwn
  <1>2. CASE UNCHANGED submitted
    BY <1>0, <1>2 DEF SampleIsOwn
  <1>3. ASSUME NEW t \in Tid, EnterOut(t) PROVE SampleIsOwn'
    <2>1. submit(t, [kind |-> "out", no |-> calls + 1, sample |-> 0])
      BY <1>3 DEF EnterOut
    <2> QED
      BY <1>1, <2>1
  <1>4. ASSUME NEW t \in Tid, NEW moved, submit_from_pending(t, moved) PROVE SampleIsOwn'
    <2> DEFINE e == [kind |-> incoming_pending_map[t].kind,
                     no |-> incoming_pending_map[t].no,
                     sample |-> IF incoming_pending_map[t].kind = "sendfile"
                                THEN Sample(t) ELSE 0]
    <2>1. CASE UNCHANGED submitted
      BY <1>2, <2>1
    <2>2. CASE t \in DOMAIN incoming_pending_map /\ submit(t, e)
      <3>1. incoming_pending_map[t] = call[t]
        BY <2>2, OwnEntries
      <3>2. Sample(t) \in {0, call[t].no} \cup spliced
        BY OwnEntries DEF Sample
      <3>3. e.sample \in {0, e.no} \cup spliced
        BY <3>1, <3>2
      <3> HIDE DEF e
      <3> QED
        BY <1>1, <2>2, <3>3
    <2> QED
      BY <1>4, <2>1, <2>2 DEF submit_from_pending
  <1>5. CASE Next
    BY <1>2, <1>3, <1>4, <1>5
       DEF Next, ExitOut, EnterIn, EnterUnseen, EnterSplice, handle_tcp_sendmsg_locked,
           ExitIn, ExitSendfile, Consume
  <1> QED
    BY <1>2, <1>5 DEF vars

(* A sendfile event carries a sample of its own call or none, or one that a *)
(* splice left.                                                             *)
THEOREM SampleIsOwnHolds == Spec => []SampleIsOwn
  <1>1. Init => SampleIsOwn
    BY DEF Init, SampleIsOwn
  <1> QED
    BY <1>1, EntriesInit, EntriesStep, SampleStep, PTL DEF Spec

-----------------------------------------------------------------------------
(* NoSilentLoss.  A call that found its map full is lost from that moment,  *)
(* though it owes its event only when it returns: the calls that are lost   *)
(* or will be are bounded by the counters.                                  *)

Missing == {n \in owed \ unseen : \A e \in submitted : e.no # n}

Unstashed ==
    {t \in Tid \ Own : /\ call[t].kind \in {"in", "sendfile"}
                       /\ t \notin DOMAIN incoming_pending_map
                       /\ call[t].no \notin unseen}

Lost == Missing \cup {call[t].no : t \in Unstashed}

Counted == drop_counters.ringbuf + drop_counters.mapFull

LossInv ==
    /\ drop_counters \in [ringbuf : Nat, mapFull : Nat]
    /\ IsFiniteSet(Lost)
    /\ Cardinality(Lost) <= Counted

(* A step of thread t that makes call n owe an event, or be lost at entry.  *)
LEMMA LostGrows ==
    ASSUME call \in [Tid -> CallOrIdle], NEW t \in Tid, NEW c, NEW n,
           call' = [call EXCEPT ![t] = c],
           \A u \in Tid \ {t} :
               u \in DOMAIN incoming_pending_map => u \in DOMAIN incoming_pending_map',
           submitted \subseteq submitted', unseen \subseteq unseen',
           owed' \subseteq owed \cup {n},
           t \in Unstashed' => c.no = n
    PROVE  /\ Lost' \subseteq Lost \cup {n}
           /\ t \notin Unstashed'
              /\ (n \in owed' \ owed => n \in unseen' \/ \E e \in submitted' : e.no = n)
                 => Lost' \subseteq Lost
  <1>1. call'[t] = c /\ \A u \in Tid \ {t} : call'[u] = call[u]
    OBVIOUS
  <1>2. Missing' \subseteq Missing \cup {n}
    BY DEF Missing
  <1>3. (n \in owed' \ owed => n \in unseen' \/ \E e \in submitted' : e.no = n)
            => Missing' \subseteq Missing
    BY DEF Missing
  <1>4. ASSUME NEW u \in Unstashed', u # t
        PROVE  u \in Unstashed /\ call'[u].no = call[u].no
    BY <1>1, <1>4 DEF Unstashed
  <1>5. ASSUME NEW x \in Lost' PROVE x \in Lost \cup {n}
    <2>1. CASE x \in Missing'
      BY <1>2, <2>1 DEF Lost
    <2>2. CASE \E u \in Unstashed' : x = call'[u].no
      <3>1. PICK u \in Unstashed' : x = call'[u].no
        BY <2>2
      <3>2. CASE u = t
        BY <1>1, <3>1, <3>2
      <3>3. CASE u # t
        BY <1>4, <3>1, <3>3 DEF Lost
      <3> QED
        BY <3>2, <3>3
    <2> QED
      BY <2>1, <2>2 DEF Lost
  <1>6. ASSUME t \notin Unstashed',
               n \in owed' \ owed => n \in unseen' \/ \E e \in submitted' : e.no = n,
               NEW x \in Lost'
        PROVE  x \in Lost
    <2>1. CASE x \in Missing'
      BY <1>3, <1>6, <2>1 DEF Lost
    <2>2. CASE \E u \in Unstashed' : x = call'[u].no
      BY <1>4, <1>6, <2>2 DEF Lost
    <2> QED
      BY <2>1, <2>2 DEF Lost
  <1> QED
    BY <1>5, <1>6

(* The bound survives a step that loses nothing, and one that loses a call  *)
(* and counts it.                                                           *)
LEMMA BoundKept ==
    ASSUME LossInv, NEW n,
           drop_counters' \in [ringbuf : Nat, mapFull : Nat],
           \/ Lost' \subseteq Lost /\ Counted' >= Counted
           \/ Lost' \subseteq Lost \cup {n} /\ Counted' >= Counted + 1
    PROVE  LossInv'
  <1>1. IsFiniteSet(Lost) /\ Cardinality(Lost) \in Nat /\ Cardinality(Lost) <= Counted
    BY FS_CardinalityType DEF LossInv
  <1>2. Counted \in Nat /\ Counted' \in Nat
    BY DEF LossInv, Counted
  <1>3. CASE Lost' \subseteq Lost /\ Counted' >= Counted
    <2>1. IsFiniteSet(Lost') /\ Cardinality(Lost') <= Cardinality(Lost)
      BY <1>1, <1>3, FS_Subset
    <2>2. Cardinality(Lost') \in Nat
      BY <2>1, FS_CardinalityType
    <2> QED
      BY <1>1, <1>2, <1>3, <2>1, <2>2 DEF LossInv
  <1>4. CASE Lost' \subseteq Lost \cup {n} /\ Counted' >= Counted + 1
    <2>1. IsFiniteSet(Lost \cup {n}) /\ Cardinality(Lost \cup {n}) <= Cardinality(Lost) + 1
      BY <1>1, FS_AddElement
    <2>2. IsFiniteSet(Lost') /\ Cardinality(Lost') <= Cardinality(Lost \cup {n})
      BY <1>4, <2>1, FS_Subset
    <2>3. Cardinality(Lost') \in Nat /\ Cardinality(Lost \cup {n}) \in Nat
      BY <2>1, <2>2, FS_CardinalityType
    <2> QED
      BY <1>1, <1>2, <1>4, <2>1, <2>2, <2>3 DEF LossInv
  <1> QED
    BY <1>3, <1>4

(* A submitted event of an application is in the ring or is counted.        *)
LEMMA SubmitCounts ==
    ASSUME NEW t, NEW e, submit(t, e), drop_counters \in [ringbuf : Nat, mapFull : Nat]
    PROVE  /\ drop_counters' \in [ringbuf : Nat, mapFull : Nat]
           /\ submitted \subseteq submitted'
           /\ Counted' >= Counted
           /\ t \notin Own => e \in submitted' \/ Counted' >= Counted + 1
  <1>1. CASE UNCHANGED <<events, submitted, drop_counters>> /\ t \in Own
    BY <1>1 DEF Counted
  <1>2. CASE submitted' = submitted \cup {e} /\ UNCHANGED drop_counters
    BY <1>2 DEF Counted
  <1>3. CASE drop_counters' = [drop_counters EXCEPT !.ringbuf = @ + 1] /\ UNCHANGED submitted
    BY <1>3 DEF Counted
  <1> QED
    BY <1>1, <1>2, <1>3 DEF submit

(* A return of thread t with or without data, of a call that is stashed or  *)
(* was lost at its entry.                                                   *)
LEMMA ReturnKeepsBound ==
    ASSUME Entries, LossInv, NEW t \in Tid, NEW moved,
           call' = [call EXCEPT ![t] = Idle],
           submit_from_pending(t, moved),
           moved => call[t].kind \in {"in", "sendfile"},
           UNCHANGED unseen,
           IF moved THEN Owe(t, call[t]) ELSE UNCHANGED owed
    PROVE  LossInv'
  <1> DEFINE n == call[t].no
             p == incoming_pending_map[t]
             e == [kind |-> p.kind, no |-> p.no,
                   sample |-> IF p.kind = "sendfile" THEN Sample(t) ELSE 0]
  <1>1. call \in [Tid -> CallOrIdle] /\ drop_counters \in [ringbuf : Nat, mapFull : Nat]
    BY DEF Entries, Shapes, LossInv
  <1>2. t \notin Unstashed'
    <2>1. call'[t].kind = "none"
      BY <1>1 DEF Idle
    <2> QED
      BY <2>1 DEF Unstashed
  <1>3. \A u \in Tid \ {t} :
           u \in DOMAIN incoming_pending_map => u \in DOMAIN incoming_pending_map'
    BY SubmitFromPendingFacts
  <1>4. owed' \subseteq owed \cup {n} /\ (n \in owed' \ owed => moved /\ t \notin Own)
    BY DEF Owe
  <1>5. ASSUME submitted \subseteq submitted'
        PROVE  /\ Lost' \subseteq Lost \cup {n}
               /\ (n \in owed' \ owed => n \in unseen \/ \E ev \in submitted' : ev.no = n)
                     => Lost' \subseteq Lost
    <2> HIDE DEF n
    <2> QED
      BY <1>1, <1>2, <1>3, <1>4, <1>5, LostGrows
  <1>6. CASE t \in DOMAIN incoming_pending_map /\ moved
    <2>1. submit(t, e)
      BY <1>6 DEF submit_from_pending
    <2>2. e.no = n
      BY <1>6, OwnEntries
    <2> HIDE DEF e, n
    <2>3. /\ drop_counters' \in [ringbuf : Nat, mapFull : Nat]
          /\ submitted \subseteq submitted'
          /\ Counted' >= Counted
          /\ t \notin Own => e \in submitted' \/ Counted' >= Counted + 1
      BY <1>1, <2>1, SubmitCounts
    <2>4. \/ Lost' \subseteq Lost /\ Counted' >= Counted
          \/ Lost' \subseteq Lost \cup {n} /\ Counted' >= Counted + 1
      BY <1>4, <1>5, <2>2, <2>3
    <2> QED
      BY <2>3, <2>4, BoundKept
  <1>7. CASE t \notin DOMAIN incoming_pending_map \/ ~moved
    <2>1. UNCHANGED <<submitted, drop_counters>>
      BY <1>7 DEF submit_from_pending
    <2>2. Counted \in Nat /\ Counted' = Counted
      BY <1>1, <2>1 DEF Counted
    <2>3. n \in owed' \ owed => n \in Lost \/ n \in unseen
      <3> SUFFICES ASSUME n \in owed' \ owed, n \notin unseen PROVE n \in Lost
        OBVIOUS
      <3>1. t \notin Own /\ t \notin DOMAIN incoming_pending_map
            /\ call[t].kind \in {"in", "sendfile"}
        BY <1>4, <1>7
      <3> QED
        BY <3>1 DEF Lost, Unstashed
    <2>4. Lost' \subseteq Lost
      BY <1>5, <2>1, <2>3
    <2> HIDE DEF n
    <2> QED
      BY <1>1, <2>1, <2>2, <2>4, BoundKept
  <1> QED
    BY <1>6, <1>7

LEMMA LossStep == Entries /\ LossInv /\ [Next]_vars => LossInv'
  <1> SUFFICES ASSUME Entries, LossInv, [Next]_vars PROVE LossInv'
    OBVIOUS
  <1>0. /\ call \in [Tid -> CallOrIdle]
        /\ drop_counters \in [ringbuf : Nat, mapFull : Nat] /\ Counted \in Nat
    BY DEF Entries, Shapes, LossInv, Counted
  <1>1. ASSUME NEW t \in Tid, EnterOut(t) PROVE LossInv'
    <2> DEFINE n == calls + 1
               c == [kind |-> "out", no |-> n]
               e == [kind |-> "out", no |-> n, sample |-> 0]
    <2>1. /\ call' = [call EXCEPT ![t] = c]
          /\ submit(t, e) /\ UNCHANGED <<incoming_pending_map, unseen>>
      BY <1>1 DEF EnterOut, NextCall
    <2>2. call'[t] = c
      BY <1>0, <2>1
    <2>3. owed' \subseteq owed \cup {n} /\ (n \in owed' \ owed => t \notin Own)
      BY <1>1, <2>2 DEF EnterOut, Owe
    <2>4. t \notin Unstashed'
      BY <2>2 DEF Unstashed
    <2>5. e.no = n
      OBVIOUS
    <2> HIDE DEF n, c, e
    <2>6. /\ drop_counters' \in [ringbuf : Nat, mapFull : Nat]
          /\ submitted \subseteq submitted'
          /\ Counted' >= Counted
          /\ t \notin Own => e \in submitted' \/ Counted' >= Counted + 1
      BY <1>0, <2>1, SubmitCounts
    <2>7. /\ Lost' \subseteq Lost \cup {n}
          /\ (n \in owed' \ owed => \E ev \in submitted' : ev.no = n) => Lost' \subseteq Lost
      BY <1>0, <2>1, <2>3, <2>4, <2>6, LostGrows
    <2>8. \/ Lost' \subseteq Lost /\ Counted' >= Counted
          \/ Lost' \subseteq Lost \cup {n} /\ Counted' >= Counted + 1
      BY <2>3, <2>5, <2>6, <2>7
    <2> QED
      BY <2>6, <2>8, BoundKept
  <1>2. ASSUME NEW t \in Tid, NEW kind \in {"in", "sendfile"}, EnterIn(t, kind) PROVE LossInv'
    <2> DEFINE n == calls + 1
               c == [kind |-> kind, no |-> n]
    <2>1. /\ call' = [call EXCEPT ![t] = c]
          /\ UNCHANGED <<owed, unseen, submitted>>
      BY <1>2 DEF EnterIn, NextCall
    <2>2. call'[t] = c /\ c.no = n
      BY <1>0, <2>1
    <2>3. stash_incoming(t, c)
      BY <1>2, <2>2 DEF EnterIn
    <2> HIDE DEF n, c
    <2>4. \A u \in Tid \ {t} :
             u \in DOMAIN incoming_pending_map => u \in DOMAIN incoming_pending_map'
      BY <2>3 DEF stash_incoming, Put
    <2>5. Lost' \subseteq Lost \cup {n} /\ (t \notin Unstashed' => Lost' \subseteq Lost)
      BY <1>0, <2>1, <2>2, <2>4, LostGrows
    <2>6. \/ t \notin Unstashed' /\ UNCHANGED drop_counters
          \/ CountMapFull
      <3>1. CASE t \in Own
        BY <2>3, <3>1 DEF stash_incoming, Unstashed
      <3>2. CASE t \notin Own /\ HasRoom(incoming_pending_map, t)
        <4>1. incoming_pending_map' = Put(incoming_pending_map, t, c) /\ UNCHANGED drop_counters
          BY <2>3, <3>2 DEF stash_incoming
        <4>2. t \in DOMAIN incoming_pending_map'
          BY <4>1 DEF Put
        <4> QED
          BY <4>1, <4>2 DEF Unstashed
      <3>3. CASE t \notin Own /\ ~HasRoom(incoming_pending_map, t)
        BY <2>3, <3>3 DEF stash_incoming
      <3> QED
        BY <3>1, <3>2, <3>3
    <2>7. CASE t \notin Unstashed' /\ UNCHANGED drop_counters
      <3>1. Counted' >= Counted
        BY <1>0, <2>7 DEF Counted
      <3> QED
        BY <1>0, <2>5, <2>7, <3>1, BoundKept
    <2>8. CASE CountMapFull
      <3>1. drop_counters' \in [ringbuf : Nat, mapFull : Nat] /\ Counted' >= Counted + 1
        BY <1>0, <2>8 DEF CountMapFull, Counted
      <3> QED
        BY <2>5, <3>1, BoundKept
    <2> QED
      BY <2>6, <2>7, <2>8
  <1>3. ASSUME NEW t \in Tid, NEW c, c.kind \notin {"in", "sendfile"},
               call' = [call EXCEPT ![t] = c],
               UNCHANGED <<incoming_pending_map, drop_counters, owed, unseen, submitted>>
        PROVE  LossInv'
    <2>1. t \notin Unstashed'
      BY <1>0, <1>3 DEF Unstashed
    <2>2. Lost' \subseteq Lost
      BY <1>0, <1>3, <2>1, LostGrows
    <2>3. Counted' >= Counted
      BY <1>0, <1>3 DEF Counted
    <2> QED
      BY <1>0, <1>3, <2>2, <2>3, BoundKept
  <1>4. ASSUME NEW t \in Tid, EnterSplice(t) PROVE LossInv'
    <2> DEFINE c == [kind |-> "splice", no |-> calls + 1]
    <2>2. c.kind \notin {"in", "sendfile"}
      OBVIOUS
    <2>3. call' = [call EXCEPT ![t] = c]
      BY <1>4 DEF EnterSplice, NextCall
    <2> HIDE DEF c
    <2> QED
      BY <1>3, <1>4, <2>2, <2>3 DEF EnterSplice
  <1>11. ASSUME NEW t \in Tid, NEW kind \in {"in", "out", "sendfile"}, EnterUnseen(t, kind)
         PROVE  LossInv'
    <2> DEFINE n == calls + 1
               c == [kind |-> kind, no |-> n]
    <2>1. /\ call' = [call EXCEPT ![t] = c] /\ unseen' = unseen \cup {n}
          /\ UNCHANGED <<incoming_pending_map, drop_counters, submitted>>
      BY <1>11 DEF EnterUnseen, NextCall
    <2>2. call'[t] = c /\ c.no = n
      BY <1>0, <2>1
    <2>3. owed' \subseteq owed \cup {n} /\ n \in unseen'
      BY <1>11, <2>1, <2>2 DEF EnterUnseen, Owe
    <2>4. t \notin Unstashed'
      BY <2>2, <2>3 DEF Unstashed
    <2> HIDE DEF n, c
    <2>5. Lost' \subseteq Lost
      BY <1>0, <2>1, <2>3, <2>4, LostGrows
    <2>6. Counted' >= Counted
      BY <1>0, <2>1 DEF Counted
    <2> QED
      BY <1>0, <2>1, <2>5, <2>6, BoundKept
  <1>5. ASSUME NEW t \in Tid, ExitOut(t) PROVE LossInv'
    <2>1. Idle.kind \notin {"in", "sendfile"}
      BY DEF Idle
    <2> QED
      BY <1>3, <1>5, <2>1 DEF ExitOut
  <1>6. ASSUME NEW t \in Tid, handle_tcp_sendmsg_locked(t) PROVE LossInv'
    <2>1. UNCHANGED <<call, incoming_pending_map, owed, unseen, submitted>>
      BY <1>6 DEF handle_tcp_sendmsg_locked
    <2>2. Lost' = Lost
      BY <2>1 DEF Lost, Missing, Unstashed
    <2>3. UNCHANGED drop_counters \/ CountMapFull
      BY <1>6 DEF handle_tcp_sendmsg_locked
    <2>4. drop_counters' \in [ringbuf : Nat, mapFull : Nat] /\ Counted' >= Counted
      BY <1>0, <2>3 DEF CountMapFull, Counted
    <2> QED
      BY <2>2, <2>4, BoundKept
  <1>7. ASSUME NEW t \in Tid, NEW moved \in BOOLEAN, ExitIn(t, moved) PROVE LossInv'
    BY <1>7, ReturnKeepsBound DEF ExitIn
  <1>8. ASSUME NEW t \in Tid, NEW moved \in BOOLEAN, ExitSendfile(t, moved) PROVE LossInv'
    BY <1>8, ReturnKeepsBound DEF ExitSendfile
  <1>9. CASE UNCHANGED <<call, incoming_pending_map, drop_counters, owed, unseen, submitted>>
    BY <1>9 DEF LossInv, Lost, Missing, Unstashed, Counted
  <1>10. CASE Next
    BY <1>1, <1>2, <1>4, <1>5, <1>6, <1>7, <1>8, <1>9, <1>10, <1>11 DEF Next, Consume
  <1> QED
    BY <1>9, <1>10 DEF vars

LEMMA LossInit == Init => LossInv
  <1> SUFFICES ASSUME Init PROVE LossInv
    OBVIOUS
  <1>1. Missing = {}
    BY DEF Init, Missing
  <1>2. Unstashed = {}
    BY DEF Init, Unstashed, Idle
  <1>3. Lost = {}
    BY <1>1, <1>2 DEF Lost
  <1>4. drop_counters = [ringbuf |-> 0, mapFull |-> 0]
    BY DEF Init
  <1> QED
    BY <1>3, <1>4, FS_EmptySet DEF LossInv, Counted

(* What is lost to a full map or ring buffer is counted: the calls that     *)
(* moved data and have no event, but those whose entry left no trace at     *)
(* all, are not more than the drops the counters show.                      *)
THEOREM NoSilentLossHolds == Spec => []NoSilentLoss
  <1>1. ASSUME LossInv PROVE NoSilentLoss
    <2>1. Missing \subseteq Lost
      BY DEF Lost
    <2>2. IsFiniteSet(Lost) /\ IsFiniteSet(Missing) /\ Cardinality(Missing) <= Cardinality(Lost)
      BY <1>1, <2>1, FS_Subset DEF LossInv
    <2>3. Cardinality(Missing) \in Nat /\ Cardinality(Lost) \in Nat
      BY <2>2, FS_CardinalityType
    <2>4. Cardinality(Lost) <= Counted /\ Counted \in Nat
      BY <1>1 DEF LossInv, Counted
    <2>5. Cardinality(Missing) <= Counted
      BY <2>2, <2>3, <2>4
    <2> QED
      BY <2>5 DEF NoSilentLoss, Missing, Counted
  <1> QED
    BY <1>1, LossInit, LossStep, EntriesInit, EntriesStep, PTL DEF Spec
=============================================================================
