---------------------------- MODULE SessionProofs ----------------------------
(***************************************************************************)
(* Proofs about Session for every number of drops, skips and lines and      *)
(* every capacity of the diagnostic buffer: nothing runs any more when the  *)
(* drops are reported, the report covers what the header showed, and every  *)
(* line logged is printed once.                                             *)
(***************************************************************************)
EXTENDS Session, FiniteSetTheorems, SequenceTheorems, TLAPS

-----------------------------------------------------------------------------
(* Who runs while main is where.                                            *)

AfterJoin == {"stopDrops", "waitDrops", "restore", "flush"} \cup AtReport
AfterPoll == {"restore", "flush"} \cup AtReport
InTUI == {"pollDrops", "pipeline", "Run", "wait", "join", "stopDrops", "waitDrops", "restore",
          "flush"}

Control ==
    /\ useTUI \in BOOLEAN
    /\ main \in InTUI => useTUI
    /\ main = "capture" => ~useTUI
    /\ ~useTUI => poll = "off" /\ capture \in {"off", "reading", "over"}
    /\ main \in {"start", "pollDrops"} => poll = "off"
    /\ main \in {"start", "pollDrops", "pipeline"} => capture = "off"
    /\ useTUI /\ main \in AfterJoin => capture \in {"done", "gone"}
    /\ useTUI /\ main \in AfterPoll => poll = "gone"
    /\ ~useTUI /\ main \in AtReport => capture = "over"

LEMMA ControlInit == Init => Control
  BY DEF Init, Control, InTUI, AfterJoin, AfterPoll, AtReport

LEMMA ControlKept ==
    ASSUME Control, UNCHANGED <<useTUI, main, capture, poll>>
    PROVE  Control'
  BY DEF Control

LEMMA ControlOfMain == ASSUME Control, Running(Main) PROVE Control'
  <1> USE DEF Control, InTUI, AfterJoin, AfterPoll, AtReport, Goto, MainOnly, Running
  <1>1. CASE SetOutputDiag
    BY <1>1 DEF SetOutputDiag
  <1>2. CASE StartPoll
    BY <1>2 DEF StartPoll
  <1>3. CASE StartCapture
    BY <1>3 DEF StartCapture
  <1>4. CASE Run
    BY <1>4 DEF Run
  <1>5. CASE RunReturns
    BY <1>5 DEF RunReturns
  <1>6. CASE Join
    BY <1>6 DEF Join
  <1>7. CASE StopDrops
    BY <1>7 DEF StopDrops
  <1>8. CASE DropsStopped
    BY <1>8 DEF DropsStopped
  <1>9. CASE RestoreOutput
    BY <1>9 DEF RestoreOutput
  <1>10. CASE Flush
    BY <1>10 DEF Flush
  <1>11. CASE RunStdout
    BY <1>11 DEF RunStdout
  <1>12. CASE CaptureReturned
    BY <1>12 DEF CaptureReturned
  <1>13. CASE ReportRead \/ ReportDrops \/ CloseSink \/ CloseSession
    BY <1>13 DEF ReportRead, ReportDrops, CloseSink, CloseSession
  <1> QED
    BY <1>1, <1>2, <1>3, <1>4, <1>5, <1>6, <1>7, <1>8, <1>9, <1>10, <1>11, <1>12, <1>13 DEF Main

LEMMA ControlNext == ASSUME Control, [Next]_vars PROVE Control'
  <1>1. CASE Running(Main)
    BY <1>1, ControlOfMain
  <1>2. CASE Running(CaptureRow \/ RowSent \/ CaptureReturns \/ CaptureDone \/ Quit)
    BY <1>2 DEF Running, CaptureRow, RowSent, CaptureReturns, CaptureDone, Quit, Control,
                InTUI, AfterJoin, AfterPoll, AtReport
  <1>3. CASE Running(Tick \/ PollStops \/ PollRead \/ PollCompare \/ PollSend)
    <2>1. /\ UNCHANGED <<useTUI, main, capture>> /\ poll \notin {"off", "gone"}
      BY <1>3 DEF Running, Tick, PollStops, PollRead, PollCompare, PollSend
    <2> QED
      BY <2>1 DEF Control, InTUI, AfterJoin, AfterPoll, AtReport
  <1>4. CASE Running(CloseOnInterrupt \/ Drop \/ UIEnds \/ Interrupt \/ Write \/ WriteReturns)
    BY <1>4, ControlKept DEF Running, CloseOnInterrupt, Drop, UIEnds, Interrupt, Write,
                             WriteReturns, goroutines
  <1>5. CASE UNCHANGED vars
    BY <1>5, ControlKept DEF vars, goroutines
  <1> QED
    BY <1>1, <1>2, <1>3, <1>4, <1>5 DEF Next, Running, Ended

(* When main reports the drops, the capture goroutine and pollDrops have    *)
(* ended: neither reads a map or sends to a terminal that was given back    *)
(* (run.go).                                                                *)
THEOREM QuietAtReportHolds == Spec => []QuietAtReport
  <1>1. Control => QuietAtReport
    BY DEF Control, QuietAtReport, AfterJoin, AfterPoll
  <1> QED
    BY <1>1, ControlInit, ControlNext, PTL DEF Spec

-----------------------------------------------------------------------------
(* Drops.                                                                   *)

Counted ==
    /\ lost \in Nat /\ lostTLS \in Nat /\ skips \in Nat
    /\ read \in Nat /\ read <= lost
    /\ last \in [total : Nat, skips : Nat] /\ last.total <= lost + lostTLS
    /\ sent \in Seq(Nat)
    /\ \A i \in DOMAIN sent : sent[i] <= lost + lostTLS

(* The session's maps are open until main is done, what was read for the    *)
(* report covers what was sent, and nothing is reported before.             *)
Reported ==
    /\ session = "open" \/ main = "end"
    /\ main = "print" => \A i \in DOMAIN sent : sent[i] <= read + lostTLS
    /\ main \notin {"closeSink", "Close", "end"} => summary = <<>>
    /\ summary # <<>> => \A i \in DOMAIN sent : sent[i] <= summary[1]

CountsInv == Counted /\ Reported

LEMMA CountsInit == Init => CountsInv
  BY DEF Init, CountsInv, Counted, Reported

(* Steps of main and of others that read and count nothing.                 *)
LEMMA CountsKept ==
    ASSUME CountsInv, UNCHANGED <<session, lost, lostTLS, skips, read, last, sent, summary>>,
           \/ main' = main
           \/ main \notin {"closeSink", "Close", "end"} /\ main' # "print" /\ main # "print"
           \/ main = "closeSink" /\ main' = "Close"
    PROVE  CountsInv'
  BY DEF CountsInv, Counted, Reported

LEMMA CountsOfMain == ASSUME Control, CountsInv, Running(Main) PROVE CountsInv'
  <1>1. CASE \/ SetOutputDiag \/ StartPoll \/ StartCapture \/ Run \/ RunReturns \/ Join
             \/ StopDrops \/ DropsStopped
    BY <1>1, CountsKept DEF SetOutputDiag, StartPoll, StartCapture, Run, RunReturns, Join,
                            StopDrops, DropsStopped, Goto, kernel, drops
  <1>2. CASE RestoreOutput \/ Flush \/ RunStdout \/ CaptureReturned \/ CloseSink
    BY <1>2, CountsKept DEF RestoreOutput, Flush, RunStdout, CaptureReturned, CloseSink, Goto,
                            kernel, drops
  <1>3. CASE ReportRead
    <2>1. /\ main = "report" /\ main' = "print" /\ read' = lost
          /\ UNCHANGED <<session, lost, lostTLS, skips, last, sent, summary>>
      BY <1>3 DEF ReportRead, Goto, dropCounts, kernel, CountsInv, Reported
    <2> QED
      BY <2>1 DEF CountsInv, Counted, Reported
  <1>4. CASE ReportDrops
    <2>1. /\ main = "print" /\ main' = "closeSink" /\ summary' = <<read + lostTLS, skips>>
          /\ UNCHANGED <<session, lost, lostTLS, skips, read, last, sent>>
      BY <1>4 DEF ReportDrops, Goto, kernel
    <2> QED
      BY <2>1 DEF CountsInv, Counted, Reported
  <1>5. CASE CloseSession
    BY <1>5 DEF CloseSession, Goto, drops, CountsInv, Counted, Reported
  <1> QED
    BY <1>1, <1>2, <1>3, <1>4, <1>5 DEF Main, Running

LEMMA SumGrows ==
    ASSUME NEW a \in Nat, NEW b \in Nat, NEW c \in Nat, NEW d \in Nat, a <= c, b <= d,
           NEW n \in Nat, n <= a + b
    PROVE  n <= c + d
  OBVIOUS

LEMMA TermGrows ==
    ASSUME NEW a \in Nat, NEW b \in Nat, NEW c \in Nat, b <= c
    PROVE  \A n \in Nat : n <= a + b => n <= a + c
  OBVIOUS

LEMMA CountsNext == ASSUME Control, CountsInv, [Next]_vars PROVE CountsInv'
  <1>1. CASE Running(Main)
    BY <1>1, CountsOfMain
  <1>2. CASE CaptureRow \/ RowSent \/ CaptureReturns \/ CaptureDone \/ Quit \/ CloseOnInterrupt
    BY <1>2, CountsKept DEF CaptureRow, RowSent, CaptureReturns, CaptureDone, Quit,
                            CloseOnInterrupt, goroutines, kernel, drops
  <1>3. CASE Tick \/ PollStops \/ UIEnds \/ Interrupt \/ Write \/ WriteReturns
    BY <1>3, CountsKept DEF Tick, PollStops, UIEnds, Interrupt, Write, WriteReturns,
                            goroutines, kernel, drops
  <1>4. ASSUME main # "end", PollRead PROVE CountsInv'
    <2>1. /\ read' \in {lost, 0} /\ main # "print"
          /\ UNCHANGED <<main, session, lost, lostTLS, skips, last, sent, summary>>
      BY <1>4 DEF PollRead, dropCounts, kernel, Control, AfterPoll, AtReport
    <2> QED
      BY <2>1 DEF CountsInv, Counted, Reported
  <1>5. CASE PollCompare
    <2>1. /\ last' = [total |-> read + lostTLS, skips |-> skips]
          /\ UNCHANGED <<main, session, lost, lostTLS, skips, read, sent, summary>>
      BY <1>5 DEF PollCompare, kernel
    <2> QED
      BY <2>1 DEF CountsInv, Counted, Reported
  <1>6. ASSUME main # "end", PollSend PROVE CountsInv'
    <2>1. /\ sent' = Append(sent, last.total) /\ main \notin AtReport
          /\ UNCHANGED <<main, session, lost, lostTLS, skips, read, last, summary>>
      BY <1>6 DEF PollSend, kernel, Control, AfterPoll
    <2>2. /\ sent' \in Seq(Nat)
          /\ \A i \in DOMAIN sent' : sent'[i] <= lost + lostTLS
      BY <2>1 DEF CountsInv, Counted
    <2> QED
      BY <2>1, <2>2 DEF CountsInv, Counted, Reported, AtReport
  <1>7. CASE Drop
    <2>1. /\ \/ lost' = lost + 1 /\ UNCHANGED <<lostTLS, skips>>
             \/ lostTLS' = lostTLS + 1 /\ UNCHANGED <<lost, skips>>
             \/ skips' = skips + 1 /\ UNCHANGED <<lost, lostTLS>>
          /\ UNCHANGED <<main, session, read, last, sent, summary>>
      BY <1>7 DEF Drop, goroutines, drops
    <2>2. /\ lost \in Nat /\ lostTLS \in Nat /\ skips \in Nat
          /\ lost' \in Nat /\ lostTLS' \in Nat /\ skips' \in Nat
          /\ lost <= lost' /\ lostTLS <= lostTLS'
      BY <2>1 DEF CountsInv, Counted
    <2>3. /\ sent \in Seq(Nat) /\ \A i \in DOMAIN sent : sent[i] \in Nat
          /\ \A i \in DOMAIN sent : sent[i] <= lost + lostTLS
      BY DEF CountsInv, Counted
    <2>4. \A n \in Nat : n <= lost + lostTLS => n <= lost' + lostTLS'
      BY <2>2, SumGrows
    <2>5. Counted'
      <3>1. read' \in Nat /\ read' <= lost'
        BY <2>1, <2>2 DEF CountsInv, Counted
      <3>2. last' \in [total : Nat, skips : Nat] /\ last'.total <= lost' + lostTLS'
        BY <2>1, <2>4 DEF CountsInv, Counted
      <3>3. \A i \in DOMAIN sent' : sent'[i] <= lost' + lostTLS'
        BY <2>1, <2>3, <2>4
      <3> QED
        BY <2>1, <2>2, <2>3, <3>1, <3>2, <3>3 DEF Counted
    <2>6. Reported'
      <3>1. main' = "print" => \A i \in DOMAIN sent' : sent'[i] <= read' + lostTLS'
        <4>1. read \in Nat /\ lostTLS \in Nat /\ lostTLS' \in Nat /\ lostTLS <= lostTLS'
          BY <2>2 DEF CountsInv, Counted
        <4>2. \A n \in Nat : n <= read + lostTLS => n <= read + lostTLS'
          BY <4>1, TermGrows
        <4> QED
          BY <2>1, <2>3, <4>2 DEF CountsInv, Reported
      <3> QED
        BY <2>1, <3>1 DEF CountsInv, Reported
    <2> QED
      BY <2>5, <2>6 DEF CountsInv
  <1>8. CASE UNCHANGED vars
    BY <1>8, CountsKept DEF vars, goroutines, kernel, drops
  <1> QED
    BY <1>1, <1>2, <1>3, <1>4, <1>5, <1>6, <1>7, <1>8 DEF Next, Running, Ended

(* The summary on leaving never shows fewer drops than the header of the    *)
(* TUI did: the maps are read before they are closed and after the last     *)
(* poll (run.go, reportDrops).                                              *)
THEOREM SummaryCoversHeaderHolds == Spec => []SummaryCoversHeader
  <1>1. CountsInv => SummaryCoversHeader
    BY DEF CountsInv, Reported, SummaryCoversHeader
  <1> QED
    BY <1>1, ControlInit, ControlNext, CountsInit, CountsNext, PTL DEF Spec

-----------------------------------------------------------------------------
(* Lines logged.                                                            *)

In(s, n) == \E i \in DOMAIN s : s[i] = n
Once(s) == \A i, j \in DOMAIN s : s[i] = s[j] => i = j

LEMMA AppendOnce ==
    ASSUME NEW s \in Seq(Nat), NEW x \in Nat
    PROVE  /\ Append(s, x) \in Seq(Nat) /\ Len(Append(s, x)) = Len(s) + 1
           /\ \A n : In(Append(s, x), n) <=> In(s, n) \/ n = x
           /\ Once(s) /\ ~In(s, x) => Once(Append(s, x))
  <1> DEFINE t == Append(s, x)
  <1>1. /\ t \in Seq(Nat) /\ Len(t) = Len(s) + 1
        /\ DOMAIN s = 1..Len(s) /\ DOMAIN t = 1..(Len(s) + 1) /\ Len(s) \in Nat
        /\ \A i \in 1..Len(s) : t[i] = s[i]
        /\ t[Len(s) + 1] = x
    BY AppendProperties, LenProperties
  <1> HIDE DEF t
  <1>2. \A i \in DOMAIN t : i \in DOMAIN s \/ i = Len(s) + 1
    BY <1>1
  <1>3. \A n : In(t, n) <=> In(s, n) \/ n = x
    BY <1>1, <1>2 DEF In
  <1>4. ASSUME Once(s), ~In(s, x) PROVE Once(t)
    BY <1>1, <1>2, <1>4 DEF In, Once
  <1> QED
    BY <1>1, <1>3, <1>4 DEF t

LEMMA TailOnce ==
    ASSUME NEW s \in Seq(Nat), s # <<>>
    PROVE  /\ Tail(s) \in Seq(Nat) /\ Len(Tail(s)) = Len(s) - 1 /\ In(s, Head(s))
           /\ \A n : In(Tail(s), n) => In(s, n)
           /\ \A n : In(s, n) => In(Tail(s), n) \/ n = Head(s)
           /\ Once(s) => Once(Tail(s)) /\ ~In(Tail(s), Head(s))
  <1> DEFINE t == Tail(s)
  <1>1. /\ t \in Seq(Nat) /\ Len(t) = Len(s) - 1 /\ Len(s) \in Nat \ {0}
        /\ DOMAIN s = 1..Len(s) /\ DOMAIN t = 1..(Len(s) - 1)
        /\ Head(s) = s[1]
        /\ \A i \in 1..(Len(s) - 1) : t[i] = s[i + 1]
    <2>1. t \in Seq(Nat) /\ Len(t) = Len(s) - 1 /\ Head(s) = s[1]
      BY HeadTailProperties
    <2>2. \A i \in 1..Len(t) : t[i] = s[i + 1]
      BY HeadTailProperties
    <2>3. Len(s) \in Nat /\ DOMAIN s = 1..Len(s)
      BY LenProperties
    <2>4. DOMAIN t = 1..Len(t)
      BY <2>1, LenProperties
    <2>5. Len(s) # 0
      BY EmptySeq
    <2> QED
      BY <2>1, <2>2, <2>3, <2>4, <2>5
  <1> HIDE DEF t
  <1>2. /\ \A i \in DOMAIN t : i + 1 \in DOMAIN s /\ t[i] = s[i + 1] /\ i \in Nat /\ i # 0
        /\ 1 \in DOMAIN s
        /\ \A i \in DOMAIN s : i = 1 \/ (i - 1 \in DOMAIN t /\ t[i - 1] = s[i])
    <2>1. ASSUME NEW i \in DOMAIN t
          PROVE  i + 1 \in DOMAIN s /\ t[i] = s[i + 1] /\ i \in Nat /\ i # 0
      BY <1>1
    <2>2. 1 \in DOMAIN s
      BY <1>1
    <2>3. ASSUME NEW i \in DOMAIN s, i # 1 PROVE i - 1 \in DOMAIN t /\ t[i - 1] = s[i]
      <3>1. i - 1 \in 1..(Len(s) - 1) /\ (i - 1) + 1 = i
        BY <1>1, <2>3
      <3> QED
        BY <1>1, <3>1
    <2> QED
      BY <2>1, <2>2, <2>3
  <1>3. In(s, Head(s)) /\ \A n : In(t, n) => In(s, n)
    BY <1>1, <1>2 DEF In
  <1>4. \A n : In(s, n) => In(t, n) \/ n = Head(s)
    BY <1>1, <1>2 DEF In
  <1>5. ASSUME Once(s) PROVE Once(t) /\ ~In(t, Head(s))
    <2>1. ASSUME NEW i \in DOMAIN t, NEW j \in DOMAIN t, t[i] = t[j] PROVE i = j
      <3>1. i + 1 = j + 1
        BY <1>2, <1>5, <2>1 DEF Once
      <3> QED
        BY <1>2, <3>1
    <2>2. ASSUME NEW i \in DOMAIN t, t[i] = Head(s) PROVE FALSE
      <3>1. i + 1 = 1
        <4>1. i + 1 \in DOMAIN s /\ 1 \in DOMAIN s /\ s[i + 1] = s[1]
          BY <1>1, <1>2, <2>2
        <4> QED
          BY <1>5, <4>1 DEF Once
      <3> QED
        BY <1>2, <3>1
    <2> QED
      BY <2>1, <2>2 DEF Once, In
  <1> QED
    BY <1>1, <1>3, <1>4, <1>5 DEF t

LEMMA ConcatOnce ==
    ASSUME NEW s \in Seq(Nat), NEW t \in Seq(Nat)
    PROVE  /\ s \o t \in Seq(Nat)
           /\ \A n : In(s \o t, n) <=> In(s, n) \/ In(t, n)
           /\ Once(s) /\ Once(t) /\ (\A n : ~(In(s, n) /\ In(t, n))) => Once(s \o t)
  <1> DEFINE u == s \o t
  <1>1. /\ u \in Seq(Nat) /\ Len(s) \in Nat /\ Len(t) \in Nat
        /\ DOMAIN s = 1..Len(s) /\ DOMAIN t = 1..Len(t) /\ DOMAIN u = 1..(Len(s) + Len(t))
        /\ \A i \in 1..(Len(s) + Len(t)) :
              u[i] = IF i <= Len(s) THEN s[i] ELSE t[i - Len(s)]
    <2>1. /\ u \in Seq(Nat) /\ Len(u) = Len(s) + Len(t)
          /\ \A i \in 1..(Len(s) + Len(t)) :
                u[i] = IF i <= Len(s) THEN s[i] ELSE t[i - Len(s)]
      BY ConcatProperties
    <2>2. /\ Len(s) \in Nat /\ DOMAIN s = 1..Len(s)
          /\ Len(t) \in Nat /\ DOMAIN t = 1..Len(t)
      BY LenProperties
    <2>3. DOMAIN u = 1..Len(u)
      BY <2>1, LenProperties
    <2> QED
      BY <2>1, <2>2, <2>3
  <1> HIDE DEF u
  <1>2. /\ \A i \in DOMAIN u : \/ i \in DOMAIN s /\ u[i] = s[i]
                               \/ /\ i - Len(s) \in DOMAIN t /\ u[i] = t[i - Len(s)]
                                  /\ i \notin DOMAIN s
        /\ \A i \in DOMAIN s : i \in DOMAIN u /\ u[i] = s[i]
        /\ \A i \in DOMAIN t : i + Len(s) \in DOMAIN u /\ u[i + Len(s)] = t[i]
    <2>1. ASSUME NEW i \in DOMAIN u, i \in DOMAIN s PROVE u[i] = s[i]
      BY <1>1, <2>1
    <2>2. ASSUME NEW i \in DOMAIN u, i \notin DOMAIN s
          PROVE  i - Len(s) \in DOMAIN t /\ u[i] = t[i - Len(s)]
      BY <1>1, <2>2
    <2>3. ASSUME NEW i \in DOMAIN s PROVE i \in DOMAIN u /\ u[i] = s[i]
      BY <1>1
    <2>4. ASSUME NEW i \in DOMAIN t PROVE i + Len(s) \in DOMAIN u /\ u[i + Len(s)] = t[i]
      <3>1. /\ i + Len(s) \in 1..(Len(s) + Len(t)) /\ ~(i + Len(s) <= Len(s))
            /\ (i + Len(s)) - Len(s) = i
        BY <1>1
      <3> QED
        BY <1>1, <3>1
    <2> QED
      BY <2>1, <2>2, <2>3, <2>4
  <1>3. \A n : In(u, n) <=> In(s, n) \/ In(t, n)
    BY <1>2 DEF In
  <1>4. ASSUME Once(s), Once(t), \A n : ~(In(s, n) /\ In(t, n)) PROVE Once(u)
    <2> SUFFICES ASSUME NEW i \in DOMAIN u, NEW j \in DOMAIN u, u[i] = u[j] PROVE i = j
      BY DEF Once
    <2>1. CASE i \in DOMAIN s /\ j \in DOMAIN s
      BY <1>2, <1>4, <2>1 DEF Once
    <2>2. CASE i \notin DOMAIN s /\ j \notin DOMAIN s
      <3>1. i - Len(s) = j - Len(s)
        BY <1>2, <1>4, <2>2 DEF Once
      <3> QED
        BY <1>1, <3>1
    <2>3. CASE (i \in DOMAIN s /\ j \notin DOMAIN s) \/ (i \notin DOMAIN s /\ j \in DOMAIN s)
      <3>1. In(s, u[i]) /\ In(t, u[i])
        BY <1>2, <2>3 DEF In
      <3> QED
        BY <1>4, <3>1
    <2> QED
      BY <2>1, <2>2, <2>3
  <1> QED
    BY <1>1, <1>3, <1>4 DEF u

(* Every line logged is in one place: evicted, printed, or, until main      *)
(* flushes, in the buffer.                                                  *)
Placed ==
    /\ \A n : In(stderr, n) \/ In(lines, n) \/ n \in evicted => n \in 1..logged
    /\ \A n : n \in evicted => ~In(stderr, n) /\ ~In(lines, n)
    /\ main \notin AtReport => \A n : ~(In(stderr, n) /\ In(lines, n))
    /\ \A n \in 1..logged : \/ n \in evicted \/ In(stderr, n)
                            \/ main \notin AtReport /\ In(lines, n)

LinesInv ==
    /\ logged \in Nat /\ lines \in Seq(Nat) /\ stderr \in Seq(Nat)
    /\ Len(lines) <= diagBufferCap
    /\ Once(stderr) /\ Once(lines)
    /\ Placed
    /\ output \in {"stderr", "diag"}
    /\ ~useTUI => lines = <<>> /\ output = "stderr"
    /\ main \in {"flush"} \cup AtReport => output = "stderr"

LEMMA LinesInit == Init => LinesInv
  <1> SUFFICES ASSUME Init PROVE LinesInv
    OBVIOUS
  <1>1. /\ lines = <<>> /\ stderr = <<>> /\ logged = 0 /\ evicted = {} /\ main = "start"
        /\ output = "stderr"
    BY DEF Init
  <1>2. /\ <<>> \in Seq(Nat) /\ Len(<<>>) = 0 /\ Once(<<>>) /\ \A n : ~In(<<>>, n)
    BY EmptySeq DEF Once, In
  <1> QED
    BY <1>1, <1>2, SessionAssumption DEF LinesInv, Placed, AtReport

(* Nothing is logged or printed, and main does not begin to flush or report.*)
LEMMA LinesKept ==
    ASSUME LinesInv, UNCHANGED <<useTUI, output, lines, logged, evicted, stderr>>,
           \/ main' = main
           \/ main \in AtReport /\ main' \in AtReport
           \/ main \notin AtReport /\ main' \notin {"flush"} \cup AtReport
    PROVE  LinesInv'
  <1>1. Placed'
    <2>1. main' \in AtReport <=> main \in AtReport
      OBVIOUS
    <2> QED
      BY <2>1 DEF LinesInv, Placed
  <1> QED
    BY <1>1 DEF LinesInv

LEMMA LinesWrite == ASSUME Control, LinesInv, main # "end", Write, useTUI' = useTUI PROVE LinesInv'
  <1>1. /\ logged' = logged + 1 /\ UNCHANGED <<main, output, useTUI>>
        /\ logged \in Nat /\ lines \in Seq(Nat) /\ stderr \in Seq(Nat)
        /\ Once(stderr) /\ Once(lines)
    BY DEF Write, goroutines, LinesInv
  <1> DEFINE x == logged + 1
  <1>2. x \in Nat /\ x \notin 1..logged /\ \A n : n \in 1..logged' <=> n \in 1..logged \/ n = x
    BY <1>1
  <1>3. ~In(stderr, x) /\ ~In(lines, x) /\ x \notin evicted
    BY <1>2 DEF LinesInv, Placed
  <1> HIDE DEF x
  <1>4. CASE output = "stderr" /\ stderr' = Append(stderr, x) /\ UNCHANGED <<lines, evicted>>
    <2>1. /\ stderr' \in Seq(Nat) /\ Once(stderr')
          /\ \A n : In(stderr', n) <=> In(stderr, n) \/ n = x
      BY <1>1, <1>2, <1>3, <1>4, AppendOnce
    <2>2. Placed'
      BY <1>1, <1>2, <1>3, <1>4, <2>1 DEF LinesInv, Placed
    <2> QED
      BY <1>1, <1>4, <2>1, <2>2 DEF LinesInv
  <1>5. CASE output # "stderr" /\ UNCHANGED stderr
    <2>1. main \notin AtReport /\ useTUI
      BY <1>5 DEF LinesInv, Control
    <2>2. CASE Len(lines) < diagBufferCap /\ lines' = Append(lines, x) /\ UNCHANGED evicted
      <3>1. /\ lines' \in Seq(Nat) /\ Once(lines') /\ Len(lines') = Len(lines) + 1
            /\ \A n : In(lines', n) <=> In(lines, n) \/ n = x
        BY <1>1, <1>2, <1>3, <2>2, AppendOnce
      <3>2. Len(lines') <= diagBufferCap
        BY <1>1, <2>2, <3>1, SessionAssumption, LenProperties
      <3>3. Placed'
        BY <1>1, <1>2, <1>3, <1>5, <2>1, <2>2, <3>1 DEF LinesInv, Placed
      <3> QED
        BY <1>1, <1>5, <2>1, <3>1, <3>2, <3>3 DEF LinesInv
    <2>3. CASE /\ ~(Len(lines) < diagBufferCap)
               /\ lines' = Append(Tail(lines), x) /\ evicted' = evicted \cup {Head(lines)}
      <3>1. Len(lines) \in Nat /\ Len(lines) = diagBufferCap /\ lines # <<>>
        BY <1>1, <2>3, SessionAssumption, LenProperties, EmptySeq DEF LinesInv
      <3> DEFINE t == Tail(lines)
                 h == Head(lines)
      <3>2. /\ t \in Seq(Nat) /\ Len(t) = Len(lines) - 1 /\ In(lines, h)
            /\ \A n : In(t, n) => In(lines, n)
            /\ \A n : In(lines, n) => In(t, n) \/ n = h
            /\ Once(t) /\ ~In(t, h)
        BY <1>1, <3>1, TailOnce
      <3>3. lines' = Append(t, x) /\ evicted' = evicted \cup {h}
        BY <2>3
      <3> HIDE DEF t, h
      <3>4. ~In(t, x)
        BY <1>3, <3>2
      <3>5. /\ lines' \in Seq(Nat) /\ Once(lines') /\ Len(lines') = Len(t) + 1
            /\ \A n : In(lines', n) <=> In(t, n) \/ n = x
        BY <1>2, <3>2, <3>3, <3>4, AppendOnce
      <3>6. Len(lines') <= diagBufferCap
        BY <3>1, <3>2, <3>5
      <3>7. Placed'
        <4>1. h # x /\ h \in 1..logged /\ ~In(stderr, h)
          BY <1>3, <2>1, <3>2 DEF LinesInv, Placed
        <4>2. \A n : In(stderr, n) \/ In(lines', n) \/ n \in evicted' => n \in 1..logged'
          BY <1>2, <3>2, <3>3, <3>5, <4>1 DEF LinesInv, Placed
        <4>3. \A n : n \in evicted' => ~In(stderr, n) /\ ~In(lines', n)
          BY <1>2, <1>3, <3>2, <3>3, <3>5, <4>1 DEF LinesInv, Placed
        <4>4. \A n : ~(In(stderr, n) /\ In(lines', n))
          BY <1>3, <2>1, <3>2, <3>5 DEF LinesInv, Placed
        <4>5. \A n \in 1..logged' : n \in evicted' \/ In(stderr, n) \/ In(lines', n)
          BY <1>2, <2>1, <3>2, <3>3, <3>5 DEF LinesInv, Placed
        <4> QED
          BY <1>1, <1>5, <2>1, <4>2, <4>3, <4>4, <4>5 DEF Placed
      <3> QED
        BY <1>1, <1>5, <2>1, <3>5, <3>6, <3>7 DEF LinesInv
    <2> QED
      BY <1>5, <2>2, <2>3 DEF Write, x
  <1>6. output = "stderr" \/ output # "stderr"
    OBVIOUS
  <1> QED
    BY <1>4, <1>5, <1>6 DEF Write, x

(* The buffer is printed after what was logged since log left it.           *)
LEMMA LinesFlush == ASSUME LinesInv, Flush, useTUI' = useTUI PROVE LinesInv'
  <1>1. /\ main = "flush" /\ main' = "report" /\ stderr' = stderr \o lines
        /\ UNCHANGED <<useTUI, output, lines, logged, evicted>>
    BY DEF Flush, Goto
  <1>2. /\ "flush" \notin AtReport /\ "report" \in AtReport
        /\ \A n : ~(In(stderr, n) /\ In(lines, n))
    BY <1>1 DEF LinesInv, Placed, AtReport
  <1>3. /\ stderr' \in Seq(Nat) /\ Once(stderr')
        /\ \A n : In(stderr', n) <=> In(stderr, n) \/ In(lines, n)
    BY <1>1, <1>2, ConcatOnce DEF LinesInv
  <1>4. Placed'
    BY <1>1, <1>2, <1>3 DEF LinesInv, Placed
  <1> QED
    BY <1>1, <1>3, <1>4 DEF LinesInv

LEMMA LinesOfMain == ASSUME Control, LinesInv, Running(Main) PROVE LinesInv'
  <1> USE DEF Running, Goto, AtReport
  <1>1. CASE StartPoll \/ StartCapture \/ Run \/ RunReturns \/ Join \/ StopDrops \/ DropsStopped
    BY <1>1, LinesKept DEF StartPoll, StartCapture, Run, RunReturns, Join, StopDrops,
                           DropsStopped, logs
  <1>2. CASE RunStdout \/ ReportRead \/ ReportDrops \/ CloseSink \/ CloseSession
    BY <1>2, LinesKept DEF RunStdout, ReportRead, ReportDrops, CloseSink, CloseSession, logs
  <1>3. CASE SetOutputDiag \/ RestoreOutput
    <2>1. /\ main \notin AtReport /\ main' \notin AtReport /\ useTUI
          /\ output' \in {"stderr", "diag"} /\ (main' = "flush" => output' = "stderr")
          /\ UNCHANGED <<useTUI, lines, logged, evicted, stderr>>
      BY <1>3 DEF SetOutputDiag, RestoreOutput, Control, InTUI
    <2>2. Placed'
      BY <2>1 DEF LinesInv, Placed
    <2> QED
      BY <2>1, <2>2 DEF LinesInv
  <1>4. CASE Flush
    BY <1>4, LinesFlush
  <1>5. CASE CaptureReturned
    <2>1. /\ main = "capture" /\ main' = "report" /\ ~useTUI
          /\ UNCHANGED <<useTUI, output, lines, logged, evicted, stderr>>
      BY <1>5 DEF CaptureReturned, Control, logs
    <2>2. lines = <<>> /\ output = "stderr" /\ \A n : ~In(lines, n)
      BY <2>1 DEF LinesInv, In
    <2>3. Placed'
      BY <2>1, <2>2 DEF LinesInv, Placed
    <2> QED
      BY <2>1, <2>2, <2>3 DEF LinesInv
  <1> QED
    BY <1>1, <1>2, <1>3, <1>4, <1>5 DEF Main

LEMMA LinesNext == ASSUME Control, LinesInv, [Next]_vars PROVE LinesInv'
  <1>1. CASE Running(Main)
    BY <1>1, LinesOfMain
  <1>2. CASE Running(Write)
    BY <1>2, LinesWrite DEF Running
  <1>3. CASE Running(CaptureRow \/ RowSent \/ CaptureReturns \/ CaptureDone \/ Quit)
    BY <1>3, LinesKept DEF Running, CaptureRow, RowSent, CaptureReturns, CaptureDone, Quit, logs
  <1>4. CASE Running(CloseOnInterrupt \/ Drop \/ UIEnds \/ Interrupt \/ WriteReturns)
    BY <1>4, LinesKept DEF Running, CloseOnInterrupt, Drop, UIEnds, Interrupt, WriteReturns,
                           goroutines, logs
  <1>5. CASE Running(Tick \/ PollStops \/ PollRead \/ PollCompare \/ PollSend)
    BY <1>5, LinesKept DEF Running, Tick, PollStops, PollRead, PollCompare, PollSend, logs
  <1>6. CASE UNCHANGED vars
    BY <1>6, LinesKept DEF vars, goroutines, logs
  <1> QED
    BY <1>1, <1>2, <1>3, <1>4, <1>5, <1>6 DEF Next, Running, Ended

(* Once the drops are reported, every line logged has been printed once, or *)
(* was evicted from the full diagnostic buffer and is not printed: SetOutput*)
(* and flush leave no gap between them (diag.go, runTUI).                   *)
THEOREM EveryLinePrintedHolds == Spec => []EveryLinePrinted
  <1>1. ASSUME LinesInv PROVE EveryLinePrinted
    <2> SUFFICES ASSUME main \in AtReport, NEW n \in 1..logged
                 PROVE  Cardinality({i \in DOMAIN stderr : stderr[i] = n}) =
                           IF n \in evicted THEN 0 ELSE 1
      BY DEF EveryLinePrinted
    <2>1. CASE n \in evicted
      <3>1. {i \in DOMAIN stderr : stderr[i] = n} = {}
        BY <1>1, <2>1 DEF LinesInv, Placed, In
      <3> QED
        BY <2>1, <3>1, FS_EmptySet
    <2>2. CASE n \notin evicted
      <3>1. In(stderr, n)
        BY <1>1, <2>2 DEF LinesInv, Placed
      <3>2. PICK i \in DOMAIN stderr : stderr[i] = n
        BY <3>1 DEF In
      <3>3. {j \in DOMAIN stderr : stderr[j] = n} = {i}
        BY <1>1, <3>2 DEF LinesInv, Once
      <3> QED
        BY <2>2, <3>3, FS_Singleton
    <2> QED
      BY <2>1, <2>2
  <1> QED
    BY <1>1, ControlInit, ControlNext, LinesInit, LinesNext, PTL DEF Spec
=============================================================================
