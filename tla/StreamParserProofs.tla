------------------------- MODULE StreamParserProofs -------------------------
(***************************************************************************)
(* StreamParser: for every conversation, every way to cut it into events     *)
(* and every sample the scenario allows, a message is emitted with its last  *)
(* unit, under the timestamp of its first, with a body that says when it was *)
(* cut, and a message is missing only where a loss was counted or the CRLF   *)
(* of a chunk was split by an event whose sample lacks it.                   *)
(*                                                                           *)
(* The invariant says where on the wire the stream is.  At(t, o, c, m, i, x) *)
(* is: c units of the wire are consumed, the buffer holds what the sample of *)
(* the event has from there on, the stream is at chunk i of message m, keeps *)
(* a part of the body up to c and knows whether it keeps all, and o are the  *)
(* messages before m.  The proof goes from the inside out: what the wire     *)
(* holds (Layout), what a buffer that is a window of the wire answers        *)
(* (Index, HeaderEnd), one iteration of advance in every state               *)
(* (IterateStep), the loop (AdvanceSettled), what feed does after it         *)
(* (SettleDone) and before it (FeedDone), and the steps (EventInv).          *)
(***************************************************************************)
EXTENDS StreamParser, SequenceTheorems, FiniteSetTheorems, WellFoundedInduction, TLAPS

-----------------------------------------------------------------------------
(* Recursive functions.                                                     *)

(* Induction, as a fact about sets of numbers.                              *)
LEMMA Induct == ASSUME NEW T \in SUBSET Nat, 0 \in T, \A n \in T : n + 1 \in T PROVE T = Nat
  <1> SUFFICES ASSUME Nat \ T # {} PROVE FALSE
    OBVIOUS
  <1>1. PICK x \in Nat \ T : \A y \in Nat \ T : ~(<<y, x>> \in OpToRel(<, Nat))
    BY NatLessThanWellFounded, WFMin
  <1>2. x \in Nat /\ x # 0
    OBVIOUS
  <1> DEFINE y == x - 1
  <1>3. y \in Nat /\ y < x /\ y + 1 = x
    BY <1>2
  <1> HIDE DEF y
  <1>4. y \in T
    BY <1>1, <1>3, Zenon DEF OpToRel
  <1> QED
    BY <1>1, <1>3, <1>4

(* Induction up to a bound.                                                 *)
LEMMA InductTo ==
    ASSUME NEW n \in Nat, NEW T, 0 \in T, \A k \in 0..n : k \in T /\ k < n => k + 1 \in T
    PROVE  \A k \in 0..n : k \in T
  <1> DEFINE U == {k \in Nat : k <= n => k \in T}
  <1>1. 0 \in U
    OBVIOUS
  <1>2. ASSUME NEW k \in U PROVE k + 1 \in U
    OBVIOUS
  <1> HIDE DEF U
  <1>3. U = Nat
    BY <1>1, <1>2, Induct DEF U
  <1> QED
    BY <1>3 DEF U

IsSum(g, ns, n) == g = [k \in 0..n |-> IF k = 0 THEN 0 ELSE g[k - 1] + ns[k]]
IsJoined(g, ss, n) == g = [k \in 0..n |-> IF k = 0 THEN <<>> ELSE g[k - 1] \o ss[k]]

LEMMA SumExists == ASSUME NEW ns, NEW n \in Nat PROVE \E g : IsSum(g, ns, n)
  <1> DEFINE K == {k \in Nat : \E g : IsSum(g, ns, k)}
  <1>1. 0 \in K
    <2>1. IsSum([k \in 0..0 |-> 0], ns, 0)
      BY DEF IsSum
    <2> QED
      BY <2>1
  <1>2. ASSUME NEW k \in K PROVE k + 1 \in K
    <2>1. PICK g : IsSum(g, ns, k)
      OBVIOUS
    <2> DEFINE h == [j \in 0..k + 1 |-> IF j = k + 1 THEN g[k] + ns[k + 1] ELSE g[j]]
    <2>2. ASSUME NEW j \in 0..k + 1 PROVE h[j] = IF j = 0 THEN 0 ELSE h[j - 1] + ns[j]
      <3>1. CASE j = k + 1
        BY <3>1
      <3>2. CASE j # k + 1
        <4>1. j \in 0..k
          BY <3>2
        <4>2. g[j] = IF j = 0 THEN 0 ELSE g[j - 1] + ns[j]
          BY <2>1, <4>1 DEF IsSum
        <4> QED
          BY <4>1, <4>2
      <3> QED
        BY <3>1, <3>2
    <2>3. IsSum(h, ns, k + 1)
      BY <2>2 DEF IsSum
    <2> QED
      BY <2>3
  <1>3. K = Nat
    <2> HIDE DEF K
    <2>1. K \subseteq Nat
      BY DEF K
    <2> QED
      BY <1>1, <1>2, <2>1, Induct
  <1> QED
    BY <1>3

LEMMA JoinedExists == ASSUME NEW ss, NEW n \in Nat PROVE \E g : IsJoined(g, ss, n)
  <1> DEFINE K == {k \in Nat : \E g : IsJoined(g, ss, k)}
  <1>1. 0 \in K
    <2>1. IsJoined([k \in 0..0 |-> <<>>], ss, 0)
      BY DEF IsJoined
    <2> QED
      BY <2>1
  <1>2. ASSUME NEW k \in K PROVE k + 1 \in K
    <2>1. PICK g : IsJoined(g, ss, k)
      OBVIOUS
    <2> DEFINE h == [j \in 0..k + 1 |-> IF j = k + 1 THEN g[k] \o ss[k + 1] ELSE g[j]]
    <2>2. ASSUME NEW j \in 0..k + 1 PROVE h[j] = IF j = 0 THEN <<>> ELSE h[j - 1] \o ss[j]
      <3>1. CASE j = k + 1
        <4>1. j # 0 /\ j - 1 = k /\ k \in 0..k + 1 /\ k # k + 1
          BY <3>1
        <4>2. h[k] = g[k] /\ h[j] = g[k] \o ss[k + 1]
          BY <3>1, <4>1
        <4> HIDE DEF h
        <4> QED
          BY <3>1, <4>1, <4>2
      <3>2. CASE j # k + 1
        <4>1. j \in 0..k
          BY <3>2
        <4>2. g[j] = IF j = 0 THEN <<>> ELSE g[j - 1] \o ss[j]
          BY <2>1, <4>1 DEF IsJoined
        <4> QED
          BY <4>1, <4>2
      <3> QED
        BY <3>1, <3>2
    <2>3. IsJoined(h, ss, k + 1)
      BY <2>2 DEF IsJoined
    <2> QED
      BY <2>3
  <1>3. K = Nat
    <2> HIDE DEF K
    <2>1. K \subseteq Nat
      BY DEF K
    <2> QED
      BY <1>1, <1>2, <2>1, Induct
  <1> QED
    BY <1>3

LEMMA SumDef ==
    ASSUME NEW ns, NEW n \in Nat PROVE \E g : IsSum(g, ns, n) /\ Sum1(ns, n) = g[n]
  <1> DEFINE sum[k \in 0..n] == IF k = 0 THEN 0 ELSE sum[k - 1] + ns[k]
  <1>1. Sum1(ns, n) = sum[n]
    BY Zenon DEF Sum1
  <1>2. IsSum(sum, ns, n)
    BY SumExists, Zenon DEF IsSum
  <1> HIDE DEF sum
  <1> QED
    BY <1>1, <1>2

LEMMA JoinedDef ==
    ASSUME NEW ss, NEW n \in Nat PROVE \E g : IsJoined(g, ss, n) /\ Joined(ss, n) = g[n]
  <1> DEFINE joined[k \in 0..n] == IF k = 0 THEN <<>> ELSE joined[k - 1] \o ss[k]
  <1>1. Joined(ss, n) = joined[n]
    BY Zenon DEF Joined
  <1>2. IsJoined(joined, ss, n)
    BY JoinedExists, Zenon DEF IsJoined
  <1> HIDE DEF joined
  <1> QED
    BY <1>1, <1>2

(* The functions of two bounds agree as far as they go.                     *)
LEMMA SumStep ==
    ASSUME NEW ns, NEW n \in Nat
    PROVE  /\ Sum1(ns, 0) = 0
           /\ Sum1(ns, n + 1) = Sum1(ns, n) + ns[n + 1]
  <1>1. PICK g : IsSum(g, ns, n) /\ Sum1(ns, n) = g[n]
    BY SumDef
  <1>2. PICK h : IsSum(h, ns, n + 1) /\ Sum1(ns, n + 1) = h[n + 1]
    BY SumDef
  <1>3. PICK f : IsSum(f, ns, 0) /\ Sum1(ns, 0) = f[0]
    BY SumDef
  <1>4. \A k \in 0..n : k \in {j \in 0..n : g[j] = h[j]}
    <2> DEFINE T == {j \in 0..n : g[j] = h[j]}
    <2>1. 0 \in T
      BY <1>1, <1>2 DEF IsSum
    <2>2. ASSUME NEW k \in 0..n, k \in T, k < n PROVE k + 1 \in T
      <3>1. k + 1 \in 0..n /\ k + 1 \in 0..n + 1 /\ k + 1 # 0 /\ (k + 1) - 1 = k
        BY <2>2
      <3>2. g[k + 1] = g[k] + ns[k + 1] /\ h[k + 1] = h[k] + ns[k + 1]
        BY <1>1, <1>2, <3>1 DEF IsSum
      <3> QED
        BY <2>2, <3>1, <3>2
    <2> HIDE DEF T
    <2> QED
      BY <2>1, <2>2, InductTo DEF T
  <1>5. g[n] = h[n]
    BY <1>4
  <1>6. h[n + 1] = h[n] + ns[n + 1]
    <2>1. n + 1 \in 0..n + 1 /\ n + 1 # 0 /\ (n + 1) - 1 = n
      OBVIOUS
    <2> QED
      BY <1>2, <2>1 DEF IsSum
  <1>7. f[0] = 0
    BY <1>3 DEF IsSum
  <1> QED
    BY <1>1, <1>2, <1>3, <1>5, <1>6, <1>7

LEMMA JoinedStep ==
    ASSUME NEW ss, NEW n \in Nat
    PROVE  /\ Joined(ss, 0) = <<>>
           /\ Joined(ss, n + 1) = Joined(ss, n) \o ss[n + 1]
  <1>1. PICK g : IsJoined(g, ss, n) /\ Joined(ss, n) = g[n]
    BY JoinedDef
  <1>2. PICK h : IsJoined(h, ss, n + 1) /\ Joined(ss, n + 1) = h[n + 1]
    BY JoinedDef
  <1>3. PICK f : IsJoined(f, ss, 0) /\ Joined(ss, 0) = f[0]
    BY JoinedDef
  <1>4. \A k \in 0..n : k \in {j \in 0..n : g[j] = h[j]}
    <2> DEFINE T == {j \in 0..n : g[j] = h[j]}
    <2>1. 0 \in T
      BY <1>1, <1>2 DEF IsJoined
    <2>2. ASSUME NEW k \in 0..n, k \in T, k < n PROVE k + 1 \in T
      <3>1. k + 1 \in 0..n /\ k + 1 \in 0..n + 1 /\ k + 1 # 0 /\ (k + 1) - 1 = k
        BY <2>2
      <3>2. g[k + 1] = g[k] \o ss[k + 1] /\ h[k + 1] = h[k] \o ss[k + 1]
        BY <1>1, <1>2, <3>1 DEF IsJoined
      <3> QED
        BY <2>2, <3>1, <3>2
    <2> HIDE DEF T
    <2> QED
      BY <2>1, <2>2, InductTo DEF T
  <1>5. g[n] = h[n]
    BY <1>4
  <1>6. h[n + 1] = h[n] \o ss[n + 1]
    <2>1. n + 1 \in 0..n + 1 /\ n + 1 # 0 /\ (n + 1) - 1 = n
      OBVIOUS
    <2> QED
      BY <1>2, <2>1 DEF IsJoined
  <1>7. f[0] = <<>>
    BY <1>3 DEF IsJoined
  <1> QED
    BY <1>1, <1>2, <1>3, <1>5, <1>6, <1>7

LEMMA SumNat ==
    ASSUME NEW ns \in Seq(Nat) PROVE \A n \in 0..Len(ns) : Sum1(ns, n) \in Nat
  <1> DEFINE T == {n \in 0..Len(ns) : Sum1(ns, n) \in Nat}
  <1>1. 0 \in T
    BY SumStep
  <1>0. Len(ns) \in Nat
    OBVIOUS
  <1>2. ASSUME NEW n \in 0..Len(ns), n \in T, n < Len(ns) PROVE n + 1 \in T
    <2>1. Sum1(ns, n + 1) = Sum1(ns, n) + ns[n + 1]
      BY SumStep
    <2>2. n + 1 \in 1..Len(ns) /\ n + 1 \in 0..Len(ns)
      BY <1>0, <1>2
    <2>3. ns[n + 1] \in Nat
      BY <2>2
    <2> QED
      BY <1>2, <2>1, <2>2, <2>3
  <1> HIDE DEF T
  <1>3. \A n \in 0..Len(ns) : n \in T
    BY <1>0, <1>1, <1>2, InductTo
  <1> QED
    BY <1>3 DEF T

(* Where the members of a joined sequence are.                              *)
Members(ss, n, U) == \A k \in 1..n : ss[k] \in Seq(U)

LEMMA JoinedSeq ==
    ASSUME NEW U, NEW n \in Nat, NEW ss, Members(ss, n, U)
    PROVE  \A k \in 0..n : Joined(ss, k) \in Seq(U)
  <1> DEFINE T == {k \in 0..n : Joined(ss, k) \in Seq(U)}
  <1>1. 0 \in T
    <2>1. Joined(ss, 0) = <<>>
      BY JoinedStep
    <2>2. <<>> \in Seq(U) /\ 0 \in 0..n
      OBVIOUS
    <2>3. Joined(ss, 0) \in Seq(U)
      BY <2>1, <2>2, Zenon
    <2> QED
      BY <2>2, <2>3, Zenon
  <1>2. ASSUME NEW k \in 0..n, k \in T, k < n PROVE k + 1 \in T
    <2>1. Joined(ss, k + 1) = Joined(ss, k) \o ss[k + 1] /\ ss[k + 1] \in Seq(U) /\ k + 1 \in 0..n
      BY <1>2, JoinedStep DEF Members
    <2> QED
      BY <1>2, <2>1, ConcatProperties
  <1> HIDE DEF T
  <1>3. \A k \in 0..n : k \in T
    BY <1>1, <1>2, InductTo
  <1> QED
    BY <1>3 DEF T

Adds(ss, k) ==
    /\ Len(Joined(ss, k)) = Len(Joined(ss, k - 1)) + Len(ss[k])
    /\ \A j \in 1..Len(ss[k]) : Joined(ss, k)[Len(Joined(ss, k - 1)) + j] = ss[k][j]
    /\ \A j \in 1..Len(Joined(ss, k - 1)) : Joined(ss, k)[j] = Joined(ss, k - 1)[j]

LEMMA JoinedAt ==
    ASSUME NEW U, NEW n \in Nat, NEW ss, Members(ss, n, U), NEW k \in 1..n
    PROVE  Adds(ss, k)
  <1>1. k - 1 \in Nat /\ (k - 1) + 1 = k /\ k - 1 \in 0..n
    OBVIOUS
  <1>2. Joined(ss, k) = Joined(ss, k - 1) \o ss[k]
    BY <1>1, JoinedStep
  <1>3. Joined(ss, k - 1) \in Seq(U) /\ ss[k] \in Seq(U)
    BY <1>1, JoinedSeq DEF Members
  <1> QED
    BY <1>2, <1>3, ConcatProperties DEF Adds

(* What was joined first stays where it is.                                 *)
Keeps(ss, m, n) ==
    \A k \in m..n : /\ Len(Joined(ss, m)) <= Len(Joined(ss, k))
                    /\ \A j \in 1..Len(Joined(ss, m)) : Joined(ss, k)[j] = Joined(ss, m)[j]

LEMMA JoinedKeeps ==
    ASSUME NEW U, NEW n \in Nat, NEW ss, Members(ss, n, U), NEW m \in 0..n
    PROVE  Keeps(ss, m, n)
  <1> DEFINE Held(k) == /\ Len(Joined(ss, m)) <= Len(Joined(ss, k))
                         /\ \A j \in 1..Len(Joined(ss, m)) : Joined(ss, k)[j] = Joined(ss, m)[j]
             T == {d \in 0..n - m : Held(m + d)}
  <1>0. \A k \in 0..n : Joined(ss, k) \in Seq(U) /\ Len(Joined(ss, k)) \in Nat
    BY JoinedSeq
  <1>1. 0 \in T
    BY <1>0
  <1>5. \A k \in 1..n : Adds(ss, k)
    BY JoinedAt
  <1>6. \A k \in 1..n : Len(ss[k]) \in Nat
    BY DEF Members
  <1>2. ASSUME NEW d \in 0..n - m, d \in T, d < n - m PROVE d + 1 \in T
    <2> DEFINE k == m + d + 1
    <2>1. k \in 1..n /\ k - 1 = m + d /\ k = m + (d + 1) /\ k - 1 \in 0..n
      BY <1>2
    <2>2. Held(k - 1)
      BY <1>2, <2>1
    <2> HIDE DEF k
    <2>4. /\ Len(Joined(ss, k)) = Len(Joined(ss, k - 1)) + Len(ss[k]) /\ Len(ss[k]) \in Nat
          /\ \A j \in 1..Len(Joined(ss, k - 1)) : Joined(ss, k)[j] = Joined(ss, k - 1)[j]
      BY <1>5, <1>6, <2>1 DEF Adds
    <2>5. Len(Joined(ss, m)) \in Nat /\ Len(Joined(ss, k - 1)) \in Nat
      BY <1>0, <2>1
    <2>3. Held(k)
      <3>1. Len(Joined(ss, m)) <= Len(Joined(ss, k - 1))
        BY <2>2
      <3>2. Len(Joined(ss, m)) <= Len(Joined(ss, k))
        <4>1. /\ Len(Joined(ss, k)) = Len(Joined(ss, k - 1)) + Len(ss[k]) /\ Len(ss[k]) \in Nat
              /\ Len(Joined(ss, m)) \in Nat /\ Len(Joined(ss, k - 1)) \in Nat
          BY <2>4, <2>5
        <4> DEFINE a == Len(Joined(ss, m))
                   b == Len(Joined(ss, k - 1))
                   c == Len(ss[k])
        <4> HIDE DEF a, b, c
        <4>2. a \in Nat /\ b \in Nat /\ c \in Nat /\ a <= b => a <= b + c
          OBVIOUS
        <4> QED
          BY <3>1, <4>1, <4>2, Zenon DEF a, b, c
      <3>3. ASSUME NEW j \in 1..Len(Joined(ss, m)) PROVE Joined(ss, k)[j] = Joined(ss, m)[j]
        <4>1. j \in 1..Len(Joined(ss, k - 1))
          BY <2>5, <3>1
        <4>2. Joined(ss, k - 1)[j] = Joined(ss, m)[j]
          BY <2>2
        <4> QED
          BY <2>4, <4>1, <4>2
      <3> QED
        BY <3>2, <3>3
    <2> QED
      BY <1>2, <2>1, <2>3
  <1> HIDE DEF T
  <1>3. \A d \in 0..n - m : d \in T
    <2>1. n - m \in Nat
      OBVIOUS
    <2> QED
      BY <1>1, <1>2, <2>1, InductTo
  <1>4. ASSUME NEW k \in m..n PROVE Held(k)
    <2>1. k - m \in 0..n - m /\ m + (k - m) = k
      OBVIOUS
    <2> QED
      BY <1>3, <2>1, Zenon DEF T
  <1> QED
    BY <1>4 DEF Keeps

-----------------------------------------------------------------------------
(* The units of a message.                                                  *)

Kinds == {"none", "request", "status", "nobody", "cr", "lf", "length", "te", "size", "field",
          "data"}
AnyUnit == [k : Kinds, v : Nat]
CR == Unit("cr", 0)
LF == Unit("lf", 0)

(* r is s followed by t.                                                    *)
Follows(r, s1, t1) ==
    /\ r \in Seq(AnyUnit)
    /\ Len(r) = Len(s1) + Len(t1)
    /\ \A i \in 1..Len(s1) : r[i] = s1[i]
    /\ \A i \in 1..Len(t1) : r[Len(s1) + i] = t1[i]

LEMMA ConcatFollows ==
    ASSUME NEW s1 \in Seq(AnyUnit), NEW t1 \in Seq(AnyUnit) PROVE Follows(s1 \o t1, s1, t1)
  BY ConcatProperties DEF Follows

LEMMA UnitFacts ==
    /\ \A k \in Kinds, v \in Nat : Unit(k, v) \in AnyUnit /\ Unit(k, v).k = k /\ Unit(k, v).v = v
    /\ CR \in AnyUnit /\ LF \in AnyUnit /\ CR # LF /\ CR.k = "cr" /\ LF.k = "lf"
  BY DEF Unit, AnyUnit, Kinds, CR, LF

LEMMA CRLFFacts ==
    CRLF \in Seq(AnyUnit) /\ Len(CRLF) = 2 /\ CRLF[1] = CR /\ CRLF[2] = LF
  BY UnitFacts DEF CRLF, CR, LF

(* A line, and a block of one line.                                         *)
IsLine(q, u) == q \in Seq(AnyUnit) /\ Len(q) = 3 /\ q[1] = u /\ q[2] = CR /\ q[3] = LF
IsBlock(q, u) ==
    /\ q \in Seq(AnyUnit) /\ Len(q) = 5
    /\ q[1] = u /\ q[2] = CR /\ q[3] = LF /\ q[4] = CR /\ q[5] = LF

LEMMA LineFacts ==
    ASSUME NEW u \in AnyUnit
    PROVE  IsLine(<<u>> \o CRLF, u) /\ IsBlock(<<u>> \o CRLF \o CRLF, u)
  <1>1. <<u>> \in Seq(AnyUnit) /\ Len(<<u>>) = 1 /\ <<u>>[1] = u
    OBVIOUS
  <1>2. Follows(<<u>> \o CRLF, <<u>>, CRLF)
    BY <1>1, CRLFFacts, ConcatFollows
  <1>3. IsLine(<<u>> \o CRLF, u)
    <2>1. /\ Len(<<u>> \o CRLF) = 3 /\ (<<u>> \o CRLF)[1] = <<u>>[1]
          /\ (<<u>> \o CRLF)[1 + 1] = CRLF[1] /\ (<<u>> \o CRLF)[1 + 2] = CRLF[2]
          /\ <<u>> \o CRLF \in Seq(AnyUnit)
      BY <1>1, <1>2, CRLFFacts DEF Follows
    <2> QED
      BY <1>1, <2>1, CRLFFacts DEF IsLine
  <1>4. Follows(<<u>> \o CRLF \o CRLF, <<u>> \o CRLF, CRLF)
    BY <1>3, CRLFFacts, ConcatFollows DEF IsLine
  <1> DEFINE q == <<u>> \o CRLF
             r == <<u>> \o CRLF \o CRLF
  <1> HIDE DEF q, r
  <1>5. Follows(r, q, CRLF) /\ IsLine(q, u)
    BY <1>3, <1>4 DEF q, r
  <1>6. r[1] = q[1] /\ r[2] = q[2] /\ r[3] = q[3] /\ r[3 + 1] = CRLF[1] /\ r[3 + 2] = CRLF[2]
        /\ Len(r) = 5 /\ r \in Seq(AnyUnit)
    BY <1>5, CRLFFacts DEF Follows, IsLine
  <1>7. IsBlock(r, u)
    BY <1>5, <1>6, CRLFFacts DEF IsBlock, IsLine
  <1> QED
    BY <1>3, <1>7 DEF r

IsData(q, m, from, n) ==
    /\ q \in Seq(AnyUnit) /\ Len(q) = n
    /\ \A j \in 1..n : q[j] = Unit("data", 100 * m + from + j)

LEMMA DataFacts ==
    ASSUME NEW m \in Nat, NEW from \in Nat, NEW n \in Nat
    PROVE  IsData(Data(m, from, n), m, from, n)
  <1>1. \A j \in 1..n : Unit("data", 100 * m + from + j) \in AnyUnit
    BY UnitFacts DEF Kinds
  <1> QED
    BY <1>1 DEF Data, IsData

(* A chunk: a size line, the data and CRLF.                                 *)
IsChunk(q, m, size, from) ==
    /\ q \in Seq(AnyUnit) /\ Len(q) = size + 5
    /\ q[1] = Unit("size", size) /\ q[2] = CR /\ q[3] = LF
    /\ \A j \in 1..size : q[3 + j] = Unit("data", 100 * m + from + j)
    /\ q[size + 4] = CR /\ q[size + 5] = LF

LEMMA ChunkFacts ==
    ASSUME NEW m \in Nat, NEW msg \in Message, NEW i \in 1..Len(msg.chunks)
    PROVE  IsChunk(Chunk(m, msg, i), m, msg.chunks[i], Sum1(msg.chunks, i - 1))
  <1> DEFINE size == msg.chunks[i]
             from == Sum1(msg.chunks, i - 1)
             a == <<Unit("size", size)>> \o CRLF
             d == Data(m, from, size)
             b == a \o d
             c == b \o CRLF
  <1>1. msg.chunks \in Seq(Nat) /\ size \in Nat
    BY DEF Message
  <1>2. from \in Nat
    BY <1>1, SumNat
  <1> HIDE DEF size, from
  <1>3. IsLine(a, Unit("size", size))
    BY <1>1, UnitFacts, LineFacts DEF Kinds
  <1>4. d \in Seq(AnyUnit) /\ Len(d) = size /\ \A j \in 1..size : d[j] = Unit("data", 100 * m + from + j)
    <2>1. IsData(d, m, from, size)
      BY <1>1, <1>2, DataFacts
    <2> QED
      BY <2>1, Zenon DEF IsData
  <1> HIDE DEF a, d
  <1>5. Follows(b, a, d)
    BY <1>3, <1>4, ConcatFollows DEF IsLine
  <1> HIDE DEF b
  <1>6. Follows(c, b, CRLF)
    BY <1>5, CRLFFacts, ConcatFollows DEF Follows
  <1> HIDE DEF c
  <1>7. Len(b) = 3 + size /\ Len(c) = size + 5 /\ c \in Seq(AnyUnit)
    BY <1>1, <1>3, <1>4, <1>5, <1>6, CRLFFacts DEF Follows, IsLine
  <1>8. c[1] = a[1] /\ c[2] = a[2] /\ c[3] = a[3]
    BY <1>1, <1>3, <1>5, <1>6, <1>7 DEF Follows, IsLine
  <1>9. \A j \in 1..size : c[3 + j] = d[j]
    <2> TAKE j \in 1..size
    <2>1. b[3 + j] = d[j]
      BY <1>3, <1>4, <1>5 DEF Follows, IsLine
    <2>2. 3 + j \in 1..Len(b)
      BY <1>1, <1>7
    <2> QED
      BY <1>6, <2>1, <2>2 DEF Follows
  <1>10. c[size + 4] = CR /\ c[size + 5] = LF
    <2>1. c[Len(b) + 1] = CRLF[1] /\ c[Len(b) + 2] = CRLF[2]
      BY <1>6, CRLFFacts DEF Follows
    <2>2. Len(b) + 1 = size + 4 /\ Len(b) + 2 = size + 5
      BY <1>1, <1>7
    <2> QED
      BY <2>1, <2>2, CRLFFacts
  <1>11. IsChunk(c, m, size, from)
    BY <1>3, <1>4, <1>7, <1>8, <1>9, <1>10 DEF IsChunk, IsLine
  <1>12. c = Chunk(m, msg, i)
    BY DEF Chunk, a, b, c, d, size, from
  <1> QED
    BY <1>11, <1>12 DEF size, from

(* A message on the wire.                                                   *)
BLen(msg) == IF msg.coding = "length" /\ msg.line # "nobody" THEN msg.chunks[1] ELSE 0
Framed(msg) == msg.coding = "chunked" /\ msg.line # "nobody"
ChunksLen(m, msg, i) == Len(Joined(Chunks(m, msg), i))
HeaderUnit(msg) ==
    IF msg.coding = "length" THEN Unit("length", msg.chunks[1]) ELSE Unit("te", 0)

(* The end of a chunked message.                                            *)
EndAt(q, n, trailer) ==
    /\ Len(q) = n + IF trailer THEN 8 ELSE 5
    /\ q[n + 1] = Unit("size", 0) /\ q[n + 2] = CR /\ q[n + 3] = LF
    /\ trailer => /\ q[n + 4] = Unit("field", 0) /\ q[n + 5] = CR /\ q[n + 6] = LF
                  /\ q[n + 7] = CR /\ q[n + 8] = LF
    /\ ~trailer => q[n + 4] = CR /\ q[n + 5] = LF

IsMessage(q, m, msg) ==
    /\ q \in Seq(AnyUnit)
    /\ q[1] = Unit(msg.line, m) /\ q[2] = CR /\ q[3] = LF
    /\ msg.coding = "bare" => Len(q) = 5 /\ q[4] = CR /\ q[5] = LF
    /\ msg.coding # "bare" => /\ q[4] = HeaderUnit(msg) /\ q[5] = CR /\ q[6] = LF
                              /\ q[7] = CR /\ q[8] = LF
                              /\ ~Framed(msg) => Len(q) = 8 + BLen(msg)
    /\ \A j \in 1..BLen(msg) : q[8 + j] = Unit("data", 100 * m + j)
    /\ Framed(msg) => LET L == Len(msg.chunks) IN
          /\ ChunksLen(m, msg, L) \in Nat
          /\ \A j \in 1..ChunksLen(m, msg, L) : q[8 + j] = Joined(Chunks(m, msg), L)[j]
          /\ EndAt(q, 8 + ChunksLen(m, msg, L), msg.trailer)

LEMMA MessageTypes ==
    ASSUME NEW msg \in Message, WellFormed(msg)
    PROVE  /\ msg.line \in {"request", "status", "nobody"}
           /\ msg.coding \in {"bare", "length", "chunked"}
           /\ msg.chunks \in Seq(Nat) /\ Len(msg.chunks) \in Nat /\ msg.trailer \in BOOLEAN
           /\ msg.coding = "length" => Len(msg.chunks) = 1 /\ msg.chunks[1] \in Nat
           /\ BLen(msg) \in Nat
           /\ \A i \in 1..Len(msg.chunks) : msg.chunks[i] \in Nat
  BY DEF Message, WellFormed, BLen

LEMMA ChunksMembers ==
    ASSUME NEW m \in Nat, NEW msg \in Message
    PROVE  Members(Chunks(m, msg), Len(msg.chunks), AnyUnit)
  BY ChunkFacts DEF Members, Chunks, IsChunk

LEMMA BodyFacts ==
    ASSUME NEW m \in Nat, NEW msg \in Message, WellFormed(msg), msg.coding = "length"
    PROVE  IsData(BodyOf(m, msg), m, 0, BLen(msg))
  <1>1. CASE msg.line = "nobody"
    BY <1>1 DEF BodyOf, BLen, IsData
  <1>2. CASE msg.line # "nobody"
    <2>1. Len(msg.chunks) = 1 /\ msg.chunks[1] \in Nat
      BY MessageTypes
    <2>2. Sum1(msg.chunks, 0) = 0 /\ Sum1(msg.chunks, 0 + 1) = Sum1(msg.chunks, 0) + msg.chunks[0 + 1]
      BY SumStep
    <2>3. Sum1(msg.chunks, Len(msg.chunks)) = msg.chunks[1]
      BY <2>1, <2>2
    <2> QED
      BY <1>2, <2>1, <2>3, DataFacts DEF BodyOf, BLen
  <1> QED
    BY <1>1, <1>2

LEMMA EndFacts ==
    ASSUME NEW r \in Seq(AnyUnit), NEW trailer \in BOOLEAN
    PROVE  LET q == r \o <<Unit("size", 0)>> \o CRLF
                      \o (IF trailer THEN <<Unit("field", 0)>> \o CRLF ELSE <<>>) \o CRLF
           IN  /\ q \in Seq(AnyUnit) /\ \A j \in 1..Len(r) : q[j] = r[j]
               /\ EndAt(q, Len(r), trailer)
  <1> DEFINE u == Unit("size", 0)
             x == IF trailer THEN <<Unit("field", 0)>> \o CRLF ELSE <<>>
             r1 == r \o <<u>>
             r2 == r1 \o CRLF
             r3 == r2 \o x
             r4 == r3 \o CRLF
             n == Len(r)
  <1>1. u \in AnyUnit /\ Unit("field", 0) \in AnyUnit
    BY UnitFacts DEF Kinds
  <1>2. /\ <<u>> \in Seq(AnyUnit) /\ Len(<<u>>) = 1 /\ <<u>>[1] = u
        /\ x \in Seq(AnyUnit)
        /\ trailer => IsLine(x, Unit("field", 0))
        /\ ~trailer => Len(x) = 0
    <2>1. CASE trailer
      <3>1. IsLine(<<Unit("field", 0)>> \o CRLF, Unit("field", 0))
        BY <1>1, LineFacts
      <3>2. x = <<Unit("field", 0)>> \o CRLF
        BY <2>1
      <3> HIDE DEF x, u
      <3>3. IsLine(x, Unit("field", 0))
        BY <3>1, <3>2
      <3> QED
        BY <1>1, <2>1, <3>3 DEF IsLine
    <2>2. CASE ~trailer
      BY <1>1, <2>2
    <2> QED
      BY <2>1, <2>2
  <1>3. n \in Nat
    OBVIOUS
  <1> HIDE DEF x, u
  <1>4. Follows(r1, r, <<u>>)
    BY <1>1, <1>2, ConcatFollows
  <1> HIDE DEF r1
  <1>5. Follows(r2, r1, CRLF)
    BY <1>4, CRLFFacts, ConcatFollows DEF Follows
  <1> HIDE DEF r2
  <1>6. Follows(r3, r2, x)
    BY <1>2, <1>5, ConcatFollows DEF Follows
  <1> HIDE DEF r3
  <1>7. Follows(r4, r3, CRLF)
    BY <1>6, CRLFFacts, ConcatFollows DEF Follows
  <1> HIDE DEF r4, n
  <1>8. /\ Len(r1) = n + 1 /\ Len(r2) = n + 3 /\ Len(r3) = n + 3 + Len(x)
        /\ Len(r4) = n + 5 + Len(x) /\ Len(x) \in Nat
    BY <1>2, <1>3, <1>4, <1>5, <1>6, <1>7, CRLFFacts DEF Follows, n
  <1>9. \A j \in 1..n : r1[j] = r[j] /\ r2[j] = r[j] /\ r3[j] = r[j] /\ r4[j] = r[j]
    <2> TAKE j \in 1..n
    <2>1. j \in 1..Len(r1) /\ j \in 1..Len(r2) /\ j \in 1..Len(r3) /\ j \in 1..Len(r)
      BY <1>3, <1>8 DEF n
    <2> QED
      BY <2>1, <1>4, <1>5, <1>6, <1>7 DEF Follows
  <1>10. r1[n + 1] = u /\ r2[n + 1] = u /\ r3[n + 1] = u /\ r4[n + 1] = u
    <2>1. n + 1 \in 1..Len(r1) /\ n + 1 \in 1..Len(r2) /\ n + 1 \in 1..Len(r3) /\ 1 \in 1..Len(<<u>>)
      BY <1>2, <1>3, <1>8
    <2> QED
      BY <1>2, <2>1, <1>4, <1>5, <1>6, <1>7 DEF Follows, n
  <1>11. ASSUME NEW i \in 1..2 PROVE r4[n + 1 + i] = CRLF[i]
    <2>1. i \in 1..Len(CRLF) /\ n + 1 + i \in 1..Len(r2) /\ n + 1 + i \in 1..Len(r3)
      BY <1>3, <1>8, CRLFFacts
    <2>2. r2[Len(r1) + i] = CRLF[i]
      BY <1>5, <2>1 DEF Follows
    <2> QED
      BY <1>8, <2>1, <2>2, <1>6, <1>7 DEF Follows
  <1>12. ASSUME NEW i \in 1..Len(x) PROVE r4[n + 3 + i] = x[i]
    <2>1. n + 3 + i \in 1..Len(r3)
      BY <1>3, <1>8
    <2>2. r3[Len(r2) + i] = x[i]
      BY <1>6 DEF Follows
    <2> QED
      BY <1>8, <2>1, <2>2, <1>7 DEF Follows
  <1>13. ASSUME NEW i \in 1..2 PROVE r4[n + 3 + Len(x) + i] = CRLF[i]
    <2>1. i \in 1..Len(CRLF)
      BY CRLFFacts
    <2> QED
      BY <1>7, <1>8, <2>1 DEF Follows
  <1>14. r4[n + 1 + 1] = CR /\ r4[n + 1 + 2] = LF
    BY <1>11, CRLFFacts
  <1>15. r4[n + 3 + Len(x) + 1] = CR /\ r4[n + 3 + Len(x) + 2] = LF
    BY <1>13, CRLFFacts
  <1>16. EndAt(r4, n, trailer)
    <2>1. CASE trailer
      <3>1. Len(x) = 3 /\ x[1] = Unit("field", 0) /\ x[2] = CR /\ x[3] = LF
        BY <1>2, <2>1 DEF IsLine
      <3>2. r4[n + 3 + 1] = Unit("field", 0) /\ r4[n + 3 + 2] = CR /\ r4[n + 3 + 3] = LF
        BY <1>12, <3>1
      <3> QED
        BY <1>3, <1>8, <1>10, <1>14, <1>15, <2>1, <3>1, <3>2 DEF EndAt, u
    <2>2. CASE ~trailer
      BY <1>2, <1>3, <1>8, <1>10, <1>14, <1>15, <2>2 DEF EndAt, u
    <2> QED
      BY <2>1, <2>2
  <1> QED
    BY <1>7, <1>9, <1>16 DEF r4, r3, r2, r1, x, u, n, Follows

(* What is encoded of a message has the shape IsMessage says.               *)
LEMMA EncodeFacts ==
    ASSUME NEW m \in Nat, NEW msg \in Message, WellFormed(msg)
    PROVE  IsMessage(Encode(m, msg), m, msg)
  <1> DEFINE line == <<Unit(msg.line, m)>> \o CRLF
             te == <<Unit("te", 0)>> \o CRLF \o CRLF
             L == Len(msg.chunks)
             J == Joined(Chunks(m, msg), L)
  <1>1. Unit(msg.line, m) \in AnyUnit /\ HeaderUnit(msg) \in AnyUnit
    BY UnitFacts, MessageTypes DEF Kinds, HeaderUnit
  <1>2. IsLine(line, Unit(msg.line, m)) /\ IsBlock(te, Unit("te", 0))
    BY <1>1, UnitFacts, LineFacts DEF Kinds
  <1>3. ASSUME NEW rest \in Seq(AnyUnit), NEW q, q = line \o rest
        PROVE  /\ q \in Seq(AnyUnit) /\ Len(q) = 3 + Len(rest)
               /\ q[1] = Unit(msg.line, m) /\ q[2] = CR /\ q[3] = LF
               /\ \A j \in 1..Len(rest) : q[3 + j] = rest[j]
    <2> HIDE DEF line
    <2>1. Follows(q, line, rest)
      BY <1>2, <1>3, ConcatFollows DEF IsLine
    <2> QED
      BY <1>2, <2>1 DEF Follows, IsLine
  <1>4. CASE msg.coding = "bare"
    <2>1. Encode(m, msg) = line \o CRLF
      BY <1>4 DEF Encode
    <2> DEFINE q == Encode(m, msg)
    <2> HIDE DEF line, q
    <2>3. /\ q \in Seq(AnyUnit) /\ Len(q) = 3 + Len(CRLF)
          /\ q[1] = Unit(msg.line, m) /\ q[2] = CR /\ q[3] = LF
          /\ \A j \in 1..Len(CRLF) : q[3 + j] = CRLF[j]
      BY <1>3, <2>1, CRLFFacts DEF q
    <2>2. /\ q \in Seq(AnyUnit) /\ Len(q) = 5
          /\ q[1] = Unit(msg.line, m) /\ q[2] = CR /\ q[3] = LF
          /\ q[3 + 1] = CR /\ q[3 + 2] = LF
      BY <2>3, CRLFFacts
    <2> QED
      BY <1>4, <2>2 DEF IsMessage, q, BLen, Framed
  <1>5. CASE msg.coding = "length"
    <2> DEFINE block == <<Unit("length", msg.chunks[1])>> \o CRLF \o CRLF
               body == BodyOf(m, msg)
               rest == block \o body
    <2>1. Encode(m, msg) = line \o rest
      BY <1>5 DEF Encode
    <2>2. IsBlock(block, HeaderUnit(msg))
      BY <1>1, <1>5, LineFacts DEF HeaderUnit
    <2>3. IsData(body, m, 0, BLen(msg))
      BY <1>5, BodyFacts
    <2> HIDE DEF block, body
    <2>4. Follows(rest, block, body)
      BY <2>2, <2>3, ConcatFollows DEF IsBlock, IsData
    <2> DEFINE q == Encode(m, msg)
    <2> HIDE DEF line, q, rest
    <2>5. BLen(msg) \in Nat
      BY MessageTypes
    <2>6. /\ rest \in Seq(AnyUnit) /\ Len(rest) = 5 + BLen(msg)
          /\ rest[1] = HeaderUnit(msg) /\ rest[2] = CR /\ rest[3] = LF /\ rest[4] = CR /\ rest[5] = LF
          /\ \A j \in 1..BLen(msg) : rest[5 + j] = Unit("data", 100 * m + 0 + j)
      BY <2>2, <2>3, <2>4, <2>5 DEF Follows, IsBlock, IsData
    <2>7. /\ q \in Seq(AnyUnit) /\ Len(q) = 3 + Len(rest)
          /\ q[1] = Unit(msg.line, m) /\ q[2] = CR /\ q[3] = LF
          /\ \A j \in 1..Len(rest) : q[3 + j] = rest[j]
      BY <1>3, <2>1, <2>6 DEF q
    <2>8. /\ q[3 + 1] = rest[1] /\ q[3 + 2] = rest[2] /\ q[3 + 3] = rest[3] /\ q[3 + 4] = rest[4]
          /\ q[3 + 5] = rest[5] /\ Len(q) = 8 + BLen(msg)
      BY <2>5, <2>6, <2>7
    <2>9. \A j \in 1..BLen(msg) : q[8 + j] = Unit("data", 100 * m + j)
      <3> TAKE j \in 1..BLen(msg)
      <3>1. 5 + j \in 1..Len(rest) /\ 3 + (5 + j) = 8 + j /\ 100 * m + 0 + j = 100 * m + j
        BY <2>5, <2>6
      <3> QED
        BY <2>6, <2>7, <3>1
    <2> QED
      BY <1>5, <2>6, <2>7, <2>8, <2>9 DEF IsMessage, q, Framed
  <1>6. CASE msg.coding = "chunked" /\ msg.line = "nobody"
    <2>1. Encode(m, msg) = line \o te
      BY <1>6 DEF Encode
    <2> DEFINE q == Encode(m, msg)
    <2> HIDE DEF line, q, te
    <2>3. te \in Seq(AnyUnit) /\ Len(te) = 5
      BY <1>2 DEF IsBlock
    <2>4. /\ q \in Seq(AnyUnit) /\ Len(q) = 3 + Len(te)
          /\ q[1] = Unit(msg.line, m) /\ q[2] = CR /\ q[3] = LF
          /\ \A j \in 1..Len(te) : q[3 + j] = te[j]
      BY <1>3, <2>1, <2>3 DEF q
    <2>2. /\ q \in Seq(AnyUnit) /\ Len(q) = 8
          /\ q[1] = Unit(msg.line, m) /\ q[2] = CR /\ q[3] = LF
          /\ q[3 + 1] = te[1] /\ q[3 + 2] = te[2] /\ q[3 + 3] = te[3] /\ q[3 + 4] = te[4]
          /\ q[3 + 5] = te[5]
      BY <2>3, <2>4
    <2> QED
      BY <1>2, <1>6, <2>2 DEF IsMessage, IsBlock, q, BLen, Framed, HeaderUnit
  <1>7. CASE msg.coding = "chunked" /\ msg.line # "nobody"
    <2> DEFINE r == te \o J
               rest == r \o <<Unit("size", 0)>> \o CRLF
                         \o (IF msg.trailer THEN <<Unit("field", 0)>> \o CRLF ELSE <<>>) \o CRLF
    <2>1. Encode(m, msg) = line \o rest
      BY <1>7 DEF Encode
    <2>2. J \in Seq(AnyUnit) /\ Len(J) \in Nat /\ msg.trailer \in BOOLEAN
      <3>1. L \in 0..L /\ L \in Nat
        BY MessageTypes
      <3>2. J \in Seq(AnyUnit)
        BY <3>1, ChunksMembers, JoinedSeq
      <3> QED
        BY <3>2, MessageTypes
    <2> HIDE DEF J, L
    <2>3. Follows(r, te, J)
      BY <1>2, <2>2, ConcatFollows DEF IsBlock
    <2>4. r \in Seq(AnyUnit)
      BY <2>3 DEF Follows
    <2> HIDE DEF r
    <2>5. rest \in Seq(AnyUnit) /\ (\A j \in 1..Len(r) : rest[j] = r[j]) /\ EndAt(rest, Len(r), msg.trailer)
      BY <2>2, <2>4, EndFacts, Zenon
    <2> DEFINE q == Encode(m, msg)
    <2> HIDE DEF line, q, rest, te
    <2>6. Len(r) = 5 + Len(J)
      BY <1>2, <2>3 DEF Follows, IsBlock
    <2>7. /\ q \in Seq(AnyUnit) /\ Len(q) = 3 + Len(rest)
          /\ q[1] = Unit(msg.line, m) /\ q[2] = CR /\ q[3] = LF
          /\ \A j \in 1..Len(rest) : q[3 + j] = rest[j]
      BY <1>3, <2>1, <2>5 DEF q
    <2>8. Len(rest) = Len(r) + IF msg.trailer THEN 8 ELSE 5
      BY <2>5 DEF EndAt
    <2>9. \A j \in 1..Len(r) : q[3 + j] = r[j]
      BY <2>2, <2>5, <2>6, <2>7, <2>8
    <2>10. /\ q[3 + 1] = te[1] /\ q[3 + 2] = te[2] /\ q[3 + 3] = te[3] /\ q[3 + 4] = te[4]
           /\ q[3 + 5] = te[5]
      BY <1>2, <2>2, <2>3, <2>6, <2>9 DEF Follows, IsBlock
    <2>11. \A j \in 1..Len(J) : q[8 + j] = J[j]
      <3> TAKE j \in 1..Len(J)
      <3>1. 5 + j \in 1..Len(r) /\ 3 + (5 + j) = 8 + j
        BY <2>2, <2>6
      <3>2. r[5 + j] = J[j]
        BY <1>2, <2>3 DEF Follows, IsBlock
      <3> QED
        BY <2>9, <3>1, <3>2
    <2>12. EndAt(q, 8 + Len(J), msg.trailer)
      <3>1. ASSUME NEW i \in 1..8, i <= 5 \/ msg.trailer PROVE q[8 + Len(J) + i] = rest[Len(r) + i]
        <4>1. Len(r) + i \in 1..Len(rest) /\ 3 + (Len(r) + i) = 8 + Len(J) + i
          BY <2>2, <2>6, <2>8, <3>1
        <4> QED
          BY <2>7, <4>1
      <3>2. Len(q) = 8 + Len(J) + IF msg.trailer THEN 8 ELSE 5
        BY <2>2, <2>6, <2>7, <2>8
      <3> DEFINE n == 8 + Len(J)
                 k == Len(r)
      <3>3. /\ q[n + 1] = rest[k + 1] /\ q[n + 2] = rest[k + 2] /\ q[n + 3] = rest[k + 3]
            /\ q[n + 4] = rest[k + 4] /\ q[n + 5] = rest[k + 5]
            /\ msg.trailer => q[n + 6] = rest[k + 6] /\ q[n + 7] = rest[k + 7] /\ q[n + 8] = rest[k + 8]
        BY <3>1
      <3> HIDE DEF n, k
      <3>4. EndAt(rest, k, msg.trailer) /\ Len(q) = n + IF msg.trailer THEN 8 ELSE 5
        BY <2>5, <3>2 DEF n, k
      <3>5. EndAt(q, n, msg.trailer)
        BY <3>3, <3>4 DEF EndAt
      <3> QED
        BY <3>5 DEF n
    <2>13. /\ te[1] = Unit("te", 0) /\ te[2] = CR /\ te[3] = LF /\ te[4] = CR /\ te[5] = LF
           /\ HeaderUnit(msg) = Unit("te", 0) /\ BLen(msg) = 0 /\ msg.coding # "bare" /\ Framed(msg)
      BY <1>2, <1>7 DEF IsBlock, HeaderUnit, BLen, Framed
    <2>14. Len(J) = ChunksLen(m, msg, Len(msg.chunks)) /\ J = Joined(Chunks(m, msg), Len(msg.chunks))
      BY DEF ChunksLen, J, L
    <2>15. IsMessage(q, m, msg)
      BY <1>7, <2>2, <2>7, <2>10, <2>11, <2>12, <2>13, <2>14 DEF IsMessage
    <2> QED
      BY <2>15 DEF q
  <1> QED
    BY <1>4, <1>5, <1>6, <1>7, MessageTypes

-----------------------------------------------------------------------------
(* The conversation on the wire.                                            *)

N == Len(conv)

Sent ==
    /\ conv \in Seq(Message)
    /\ \A m \in 1..N : /\ WellFormed(conv[m])
                       /\ loss = "any" => conv[m].coding # "chunked"
    /\ loss \in {"none", "body", "any"}
    /\ wire = EncodeFirst(conv, N)
    /\ ends = [m \in 1..N |-> Len(EncodeFirst(conv, m))]
    /\ MaxBufBytes \in Nat /\ MaxBodyBytes \in Nat /\ MaxBufBytes >= 4

(* Where a message begins.                                                  *)
Base(m) == IF m = 1 THEN 0 ELSE ends[m - 1]

EncodedAt(m) ==
    LET q == Encode(m, conv[m]) IN
    /\ Base(m) \in Nat /\ Len(q) \in Nat /\ ends[m] = Base(m) + Len(q)
    /\ ends[m] <= Len(wire)
    /\ \A j \in 1..Len(q) : wire[Base(m) + j] = q[j]

(* What the sender does, taken apart: every message is on the wire from its *)
(* base to its end.                                                         *)
LEMMA SentFacts ==
    ASSUME Sent
    PROVE  /\ N \in Nat /\ \A m \in 1..N : conv[m] \in Message /\ WellFormed(conv[m])
           /\ wire \in Seq(AnyUnit) /\ Len(wire) \in Nat /\ Len(wire) = Base(N + 1)
           /\ \A m \in 1..N : EncodedAt(m)
  <1> DEFINE E == [m \in 1..N |-> Encode(m, conv[m])]
  <1>1. N \in Nat /\ \A m \in 1..N : conv[m] \in Message /\ WellFormed(conv[m])
    BY DEF Sent, N
  <1>2. \A m \in 1..N : IsMessage(Encode(m, conv[m]), m, conv[m])
    BY <1>1, EncodeFacts
  <1>3. Members(E, N, AnyUnit)
    BY <1>2 DEF Members, IsMessage
  <1>4. \A m : EncodeFirst(conv, m) = Joined(E, m)
    BY DEF EncodeFirst, N
  <1>e. \A m \in 1..N : E[m] = Encode(m, conv[m])
    OBVIOUS
  <1> HIDE DEF E
  <1>5. wire = Joined(E, N) /\ \A m \in 1..N : ends[m] = Len(Joined(E, m))
    BY <1>1, <1>4 DEF Sent
  <1>6. /\ \A k \in 0..N : Joined(E, k) \in Seq(AnyUnit)
        /\ \A k \in 1..N : Adds(E, k)
        /\ \A m \in 0..N : Keeps(E, m, N)
    <2>1. \A k \in 0..N : Joined(E, k) \in Seq(AnyUnit)
      BY <1>1, <1>3, JoinedSeq
    <2>2. \A k \in 1..N : Adds(E, k)
      BY <1>1, <1>3, JoinedAt
    <2>3. ASSUME NEW m \in 0..N PROVE Keeps(E, m, N)
      BY <1>1, <1>3, JoinedKeeps
    <2> QED
      BY <2>1, <2>2, <2>3
  <1>7. Joined(E, 0) = <<>>
    BY JoinedStep
  <1>8. \A m \in 1..N + 1 : Base(m) = Len(Joined(E, m - 1))
    <2> TAKE m \in 1..N + 1
    <2>1. CASE m = 1
      BY <1>7, <2>1 DEF Base
    <2>2. CASE m # 1
      <3>1. m - 1 \in 1..N
        BY <1>1, <2>2
      <3> QED
        BY <1>5, <2>2, <3>1 DEF Base
    <2> QED
      BY <2>1, <2>2
  <1>9. wire \in Seq(AnyUnit) /\ Len(wire) \in Nat /\ Len(wire) = Base(N + 1)
    <2>1. N \in 0..N /\ N + 1 \in 1..N + 1 /\ (N + 1) - 1 = N
      BY <1>1
    <2> QED
      BY <1>5, <1>6, <1>8, <2>1
  <1>10. ASSUME NEW m \in 1..N PROVE EncodedAt(m)
    <2> DEFINE q == Encode(m, conv[m])
    <2>1. m \in 0..N /\ m - 1 \in 0..N /\ N \in m..N /\ m \in 1..N + 1
      BY <1>1
    <2>2. Base(m) = Len(Joined(E, m - 1)) /\ Base(m) \in Nat
      BY <1>6, <1>8, <2>1
    <2>3. q \in Seq(AnyUnit) /\ Len(q) \in Nat /\ E[m] = q
      BY <1>2, <1>e DEF IsMessage
    <2> HIDE DEF q
    <2>4. /\ Len(Joined(E, m)) = Base(m) + Len(q)
          /\ \A j \in 1..Len(q) : Joined(E, m)[Base(m) + j] = q[j]
      BY <1>6, <2>2, <2>3 DEF Adds
    <2>5. /\ Len(Joined(E, m)) <= Len(wire)
          /\ \A j \in 1..Len(Joined(E, m)) : wire[j] = Joined(E, m)[j]
      BY <1>5, <1>6, <2>1 DEF Keeps
    <2>6. \A j \in 1..Len(q) : wire[Base(m) + j] = q[j]
      <3> TAKE j \in 1..Len(q)
      <3>1. Base(m) + j \in 1..Len(Joined(E, m))
        BY <2>2, <2>3, <2>4
      <3> QED
        BY <2>4, <2>5, <3>1
    <2>7. ends[m] = Base(m) + Len(q) /\ ends[m] <= Len(wire)
      BY <1>5, <2>4, <2>5
    <2> QED
      BY <2>2, <2>3, <2>6, <2>7 DEF EncodedAt, q
  <1> QED
    BY <1>1, <1>9, <1>10

HLen(msg) == IF msg.coding = "bare" THEN 2 ELSE 5
TLen(msg) == IF msg.trailer THEN 5 ELSE 2

(* Where a body begins, and a chunk; after the last chunk the size 0.       *)
BodyAt(m) == Base(m) + 3 + HLen(conv[m])
CS(m, i) == Base(m) + 8 + ChunksLen(m, conv[m], i - 1)
Upto(m, i) == Sum1(conv[m].chunks, i)

LineAt(p, u) == wire[p + 1] = u /\ wire[p + 2] = CR /\ wire[p + 3] = LF

(* A header block, or a trailer, of len units.                              *)
BlockAt(p, len, u) ==
    \/ len = 2 /\ wire[p + 1] = CR /\ wire[p + 2] = LF
    \/ len = 5 /\ LineAt(p, u) /\ wire[p + 4] = CR /\ wire[p + 5] = LF

ChunkAt(m, i) ==
    LET n == conv[m].chunks[i] IN
    /\ n \in Nat \ {0} /\ CS(m, i) \in Nat /\ CS(m, i + 1) = CS(m, i) + 5 + n
    /\ CS(m, i + 1) + 5 <= ends[m]
    /\ LineAt(CS(m, i), Unit("size", n))
    /\ \A j \in 1..n : wire[CS(m, i) + 3 + j] = Unit("data", 100 * m + Upto(m, i - 1) + j)
    /\ wire[CS(m, i) + 3 + n + 1] = CR /\ wire[CS(m, i) + 3 + n + 2] = LF
    /\ Upto(m, i - 1) \in Nat /\ Upto(m, i) = Upto(m, i - 1) + n

LastAt(m) ==
    LET last == CS(m, Len(conv[m].chunks) + 1) IN
    /\ last \in Nat
    /\ LineAt(last, Unit("size", 0))
    /\ BlockAt(last + 3, TLen(conv[m]), Unit("field", 0))
    /\ ends[m] = last + 3 + TLen(conv[m])

Layout(m) ==
    /\ Base(m) \in Nat /\ ends[m] \in Nat /\ BodyAt(m) <= ends[m] /\ ends[m] <= Len(wire)
    /\ LineAt(Base(m), Unit(conv[m].line, m))
    /\ BlockAt(Base(m) + 3, HLen(conv[m]), HeaderUnit(conv[m]))
    /\ BLen(conv[m]) \in Nat
    /\ ~Framed(conv[m]) => ends[m] = BodyAt(m) + BLen(conv[m])
    /\ \A j \in 1..BLen(conv[m]) : wire[BodyAt(m) + j] = Unit("data", 100 * m + j)
    /\ Framed(conv[m]) => /\ BodyAt(m) = CS(m, 1) /\ CS(m, 1) \in Nat /\ Upto(m, 0) = 0
                          /\ Len(conv[m].chunks) \in Nat
                          /\ \A i \in 1..Len(conv[m].chunks) : ChunkAt(m, i)
                          /\ LastAt(m)

LEMMA ChunkPlaces ==
    ASSUME Sent, NEW m \in 1..N, Framed(conv[m])
    PROVE  /\ BodyAt(m) = CS(m, 1) /\ CS(m, 1) \in Nat /\ Upto(m, 0) = 0
           /\ Len(conv[m].chunks) \in Nat
           /\ \A i \in 1..Len(conv[m].chunks) : ChunkAt(m, i)
           /\ LastAt(m)
  <1> DEFINE msg == conv[m]
             q == Encode(m, msg)
             C == Chunks(m, msg)
             L == Len(msg.chunks)
             B == Base(m)
  <1>1. msg \in Message /\ WellFormed(msg) /\ m \in Nat /\ msg.coding = "chunked"
        /\ msg.line # "nobody" /\ msg.trailer \in BOOLEAN /\ L \in Nat /\ msg.chunks \in Seq(Nat)
    BY SentFacts, MessageTypes DEF Framed
  <1>2. EncodedAt(m) /\ IsMessage(q, m, msg)
    BY <1>1, SentFacts, EncodeFacts
  <1>3. /\ B \in Nat /\ Len(q) \in Nat /\ ends[m] = B + Len(q)
        /\ \A j \in 1..Len(q) : wire[B + j] = q[j]
    BY <1>2 DEF EncodedAt
  <1>4. /\ ChunksLen(m, msg, L) \in Nat
        /\ \A j \in 1..ChunksLen(m, msg, L) : q[8 + j] = Joined(C, L)[j]
        /\ EndAt(q, 8 + ChunksLen(m, msg, L), msg.trailer)
    BY <1>2 DEF IsMessage
  <1>5. /\ \A i \in 1..L : Adds(C, i)
        /\ \A i \in 1..L : Keeps(C, i, L)
        /\ \A i \in 0..L : Joined(C, i) \in Seq(AnyUnit)
    <2>1. Members(C, L, AnyUnit)
      BY <1>1, ChunksMembers
    <2> HIDE DEF C, L
    <2>2. \A i \in 1..L : Adds(C, i)
      BY <1>1, <2>1, JoinedAt
    <2>3. ASSUME NEW i \in 1..L PROVE Keeps(C, i, L)
      <3>1. i \in 0..L
        BY <1>1
      <3> QED
        BY <1>1, <2>1, <3>1, JoinedKeeps
    <2>4. \A i \in 0..L : Joined(C, i) \in Seq(AnyUnit)
      BY <1>1, <2>1, JoinedSeq
    <2> QED
      BY <2>2, <2>3, <2>4
  <1>6. Joined(C, 0) = <<>> /\ Upto(m, 0) = 0
    BY JoinedStep, SumStep DEF Upto
  <1>7. CS(m, 1) = B + 8 /\ BodyAt(m) = B + 8
    <2>1. ChunksLen(m, msg, 1 - 1) = 0
      BY <1>6 DEF ChunksLen
    <2> QED
      BY <1>1, <1>3, <2>1 DEF CS, BodyAt, HLen
  <1>8. \A i \in 0..L : ChunksLen(m, msg, i) \in Nat
    <2> TAKE i \in 0..L
    <2>1. Joined(C, i) \in Seq(AnyUnit)
      BY <1>5
    <2> QED
      BY <2>1 DEF ChunksLen
  <1> HIDE DEF q, L, B
  <1>9. ASSUME NEW i \in 1..L PROVE ChunkAt(m, i)
    <2> DEFINE n == msg.chunks[i]
               a == ChunksLen(m, msg, i - 1)
               c == Chunk(m, msg, i)
               from == Upto(m, i - 1)
    <2>1. i - 1 \in 0..L /\ i \in 0..L /\ L \in i..L /\ i - 1 \in Nat /\ (i - 1) + 1 = i
      BY <1>1
    <2>2. n \in Nat \ {0} /\ a \in Nat
      BY SMTT(30), <1>1, <1>8, <2>1 DEF WellFormed, L
    <2>3. from \in Nat /\ Upto(m, i) = from + n
      <3>1. from \in Nat
        BY <1>1, <2>1, SumNat DEF Upto, L
      <3>2. Upto(m, (i - 1) + 1) = from + msg.chunks[(i - 1) + 1]
        BY <2>1, SumStep DEF Upto
      <3> QED
        BY <2>1, <3>1, <3>2
    <2>4. IsChunk(c, m, n, from) /\ C[i] = c
      BY <1>1, ChunkFacts DEF Upto, Chunks, L
    <2> HIDE DEF n, c, from, C, a
    <2>5. /\ ChunksLen(m, msg, i) = a + (n + 5)
          /\ \A j \in 1..n + 5 : Joined(C, i)[a + j] = c[j]
      BY <1>5, <2>4 DEF Adds, IsChunk, ChunksLen, C, a
    <2>6. /\ ChunksLen(m, msg, i) <= ChunksLen(m, msg, L)
          /\ \A j \in 1..ChunksLen(m, msg, i) : Joined(C, L)[j] = Joined(C, i)[j]
      BY <1>5, <2>1 DEF Keeps, ChunksLen, C
    <2>7. Len(q) >= 8 + ChunksLen(m, msg, L) + 5
      BY <1>1, <1>4, <1>8 DEF EndAt
    <2>8. ASSUME NEW j \in 1..n + 5 PROVE wire[B + 8 + a + j] = c[j]
      <3>1. a + j \in 1..ChunksLen(m, msg, i) /\ a + j \in 1..ChunksLen(m, msg, L)
        BY <1>4, <2>2, <2>5, <2>6
      <3>2. q[8 + (a + j)] = c[j]
        BY <1>4, <2>5, <2>6, <3>1
      <3>3. 8 + (a + j) \in 1..Len(q) /\ B + (8 + (a + j)) = B + 8 + a + j
        BY <1>3, <1>4, <2>2, <2>7, <3>1
      <3> QED
        BY <1>3, <3>2, <3>3
    <2>9. CS(m, i) = B + 8 + a /\ CS(m, i + 1) = B + 8 + a + n + 5 /\ CS(m, i) \in Nat
      <3>1. (i + 1) - 1 = i
        OBVIOUS
      <3> QED
        BY <1>3, <2>2, <2>5, <3>1 DEF CS, B, a
    <2>10. CS(m, i + 1) + 5 <= ends[m]
      BY SMTT(30), <1>3, <1>4, <2>2, <2>5, <2>6, <2>7, <2>9
    <2> DEFINE p == B + 8 + a
    <2>11. p \in Nat
      BY <1>3, <2>2
    <2> HIDE DEF p
    <2>12. \A j \in 1..n + 5 : wire[p + j] = c[j]
      BY <2>8 DEF p
    <2>13. LineAt(p, Unit("size", n)) /\ wire[p + 3 + n + 1] = CR /\ wire[p + 3 + n + 2] = LF
      <3>1. 1 \in 1..n + 5 /\ 2 \in 1..n + 5 /\ 3 \in 1..n + 5 /\ n + 4 \in 1..n + 5 /\ n + 5 \in 1..n + 5
            /\ p + (n + 4) = p + 3 + n + 1 /\ p + (n + 5) = p + 3 + n + 2
        BY <2>2, <2>11
      <3> QED
        BY <2>4, <2>12, <3>1 DEF IsChunk, LineAt
    <2>14. \A j \in 1..n : wire[p + 3 + j] = Unit("data", 100 * m + from + j)
      <3> TAKE j \in 1..n
      <3>1. 3 + j \in 1..n + 5 /\ p + (3 + j) = p + 3 + j
        BY <2>2, <2>11
      <3> QED
        BY <2>4, <2>12, <3>1 DEF IsChunk
    <2>15. CS(m, i) = p /\ CS(m, i + 1) = p + 5 + n
      BY <2>2, <2>9, <2>11 DEF p
    <2> QED
      BY <2>2, <2>3, <2>10, <2>11, <2>13, <2>14, <2>15 DEF ChunkAt, n, from
  <1>10. LastAt(m)
    <2> DEFINE a == ChunksLen(m, msg, L)
               p == B + 8 + a
    <2>1. CS(m, L + 1) = p /\ p \in Nat
      <3>1. (L + 1) - 1 = L
        BY <1>1
      <3> QED
        BY <1>3, <1>4, <3>1 DEF CS, B
    <2>2. EndAt(q, 8 + a, msg.trailer) /\ a \in Nat /\ msg.trailer \in BOOLEAN
      BY <1>1, <1>4
    <2> HIDE DEF a
    <2>3. ASSUME NEW j \in 1..8, j <= 5 \/ msg.trailer PROVE wire[p + j] = q[8 + a + j]
      <3>0. Len(q) = 8 + a + IF msg.trailer THEN 8 ELSE 5
        BY <2>2 DEF EndAt
      <3>1. 8 + a + j \in 1..Len(q) /\ B + (8 + a + j) = p + j
        <4>1. j \in Nat /\ 1 <= j /\ j <= IF msg.trailer THEN 8 ELSE 5
          BY <2>3
        <4>2. 8 + a + j \in Nat /\ 1 <= 8 + a + j
          BY <2>2, <4>1
        <4>3. 8 + a + j <= Len(q)
          BY <2>2, <3>0, <4>1
        <4>4. B + (8 + a + j) = p + j
          BY <1>3, <2>2, <4>1
        <4> QED
          BY <1>3, <4>2, <4>3, <4>4
      <3> QED
        BY <1>3, <3>1
    <2>4. ends[m] = p + 3 + TLen(msg)
      BY <1>3, <2>2 DEF EndAt, TLen
    <2> HIDE DEF p
    <2>5. LineAt(p, Unit("size", 0))
      BY <2>2, <2>3 DEF EndAt, LineAt
    <2>6. BlockAt(p + 3, TLen(msg), Unit("field", 0))
      <3>1. p + 3 + 1 = p + 4 /\ p + 3 + 2 = p + 5 /\ p + 3 + 3 = p + 6 /\ p + 3 + 4 = p + 7 /\ p + 3 + 5 = p + 8
        BY <2>1
      <3>2. CASE msg.trailer
        BY <2>2, <2>3, <3>1, <3>2 DEF EndAt, BlockAt, TLen, LineAt
      <3>3. CASE ~msg.trailer
        BY <2>2, <2>3, <3>1, <3>3 DEF EndAt, BlockAt, TLen
      <3> QED
        BY <3>2, <3>3
    <2> QED
      BY <2>1, <2>4, <2>5, <2>6 DEF LastAt, L
  <1> QED
    BY <1>1, <1>3, <1>6, <1>7, <1>9, <1>10 DEF L

(* Where the parts of a message are on the wire.                            *)
LEMMA LayoutFacts == ASSUME Sent, NEW m \in 1..N PROVE Layout(m)
  <1> DEFINE msg == conv[m]
             q == Encode(m, msg)
             B == Base(m)
  <1>1. msg \in Message /\ WellFormed(msg) /\ m \in Nat /\ BLen(msg) \in Nat
    BY SentFacts, MessageTypes
  <1>2. EncodedAt(m) /\ IsMessage(q, m, msg)
    BY <1>1, SentFacts, EncodeFacts
  <1>3. /\ B \in Nat /\ Len(q) \in Nat /\ ends[m] = B + Len(q) /\ ends[m] <= Len(wire)
        /\ \A j \in 1..Len(q) : wire[B + j] = q[j]
    BY <1>2 DEF EncodedAt
  <1> HIDE DEF q, B
  <1>4. Framed(msg) => ends[m] >= B + 13 /\ BodyAt(m) = B + 8
    <2>1. SUFFICES ASSUME Framed(msg) PROVE ends[m] >= B + 13 /\ BodyAt(m) = B + 8
      OBVIOUS
    <2>2. LET n == 8 + ChunksLen(m, msg, Len(msg.chunks)) IN
          n \in Nat /\ n >= 8 /\ Len(q) = n + IF msg.trailer THEN 8 ELSE 5
      <3>1. ChunksLen(m, msg, Len(msg.chunks)) \in Nat
        BY <1>2, <2>1 DEF IsMessage
      <3>2. EndAt(q, 8 + ChunksLen(m, msg, Len(msg.chunks)), msg.trailer)
        BY <1>2, <2>1 DEF IsMessage
      <3> QED
        BY <3>1, <3>2 DEF EndAt
    <2>3. ends[m] >= B + 13
      BY <1>3, <2>2
    <2>4. BodyAt(m) = B + 8
      BY <1>3, <2>1 DEF BodyAt, HLen, Framed, B
    <2> QED
      BY <2>3, <2>4
  <1>5. CASE msg.coding = "bare"
    <2>1. /\ q[1] = Unit(msg.line, m) /\ q[2] = CR /\ q[3] = LF
          /\ Len(q) = 5 /\ q[4] = CR /\ q[5] = LF
      BY <1>2, <1>5 DEF IsMessage
    <2>2. /\ wire[B + 1] = q[1] /\ wire[B + 2] = q[2] /\ wire[B + 3] = q[3]
          /\ wire[B + 4] = q[4] /\ wire[B + 5] = q[5] /\ ends[m] = B + 5
      BY <1>3, <2>1
    <2>3. B + 3 + 1 = B + 4 /\ B + 3 + 2 = B + 5 /\ BodyAt(m) = B + 5 /\ HLen(msg) = 2
          /\ BLen(msg) = 0 /\ ~Framed(msg)
      BY <1>3, <1>5 DEF BodyAt, HLen, B, BLen, Framed
    <2>4. BlockAt(B + 3, 2, HeaderUnit(msg)) /\ LineAt(B, Unit(msg.line, m))
      BY <2>1, <2>2, <2>3 DEF BlockAt, LineAt
    <2> QED
      BY SMTT(30), <1>3, <2>2, <2>3, <2>4 DEF Layout, B
  <1>6. CASE msg.coding # "bare"
    <2>1. /\ q[1] = Unit(msg.line, m) /\ q[2] = CR /\ q[3] = LF
          /\ q[4] = HeaderUnit(msg) /\ q[5] = CR /\ q[6] = LF /\ q[7] = CR /\ q[8] = LF
          /\ ~Framed(msg) => Len(q) = 8 + BLen(msg)
          /\ \A j \in 1..BLen(msg) : q[8 + j] = Unit("data", 100 * m + j)
      BY <1>2, <1>6 DEF IsMessage
    <2>2. Len(q) >= 8 + BLen(msg)
      <3>1. CASE Framed(msg)
        <4>1. BLen(msg) = 0
          BY <3>1 DEF BLen, Framed
        <4> QED
          BY <1>3, <1>4, <3>1, <4>1
      <3> QED
        BY <1>1, <2>1, <3>1
    <2>3. \A j \in 1..8 + BLen(msg) : wire[B + j] = q[j]
      BY <1>1, <1>3, <2>2
    <2>4. /\ wire[B + 1] = q[1] /\ wire[B + 2] = q[2] /\ wire[B + 3] = q[3]
          /\ wire[B + 4] = q[4] /\ wire[B + 5] = q[5] /\ wire[B + 6] = q[6]
          /\ wire[B + 7] = q[7] /\ wire[B + 8] = q[8]
      BY <1>1, <2>3
    <2>5. /\ B + 3 + 1 = B + 4 /\ B + 3 + 2 = B + 5 /\ B + 3 + 3 = B + 6 /\ B + 3 + 4 = B + 7
          /\ B + 3 + 5 = B + 8 /\ BodyAt(m) = B + 8 /\ HLen(msg) = 5
      BY <1>3, <1>6 DEF BodyAt, HLen, B
    <2>6. BlockAt(B + 3, 5, HeaderUnit(msg)) /\ LineAt(B, Unit(msg.line, m))
      BY <2>1, <2>4, <2>5 DEF BlockAt, LineAt
    <2>7. \A j \in 1..BLen(msg) : wire[BodyAt(m) + j] = Unit("data", 100 * m + j)
      <3> TAKE j \in 1..BLen(msg)
      <3>1. 8 + j \in 1..8 + BLen(msg) /\ B + (8 + j) = (B + 8) + j
        BY <1>1, <1>3
      <3> QED
        BY <2>1, <2>3, <2>5, <3>1
    <2>8. BodyAt(m) <= ends[m] /\ (~Framed(msg) => ends[m] = BodyAt(m) + BLen(msg))
          /\ ends[m] \in Nat
      <3>1. /\ B \in Nat /\ Len(q) \in Nat /\ ends[m] = B + Len(q) /\ BLen(msg) \in Nat
            /\ Len(q) >= 8 + BLen(msg) /\ BodyAt(m) = B + 8
        BY <1>1, <1>3, <2>2, <2>5
      <3>2. ~Framed(msg) => Len(q) = 8 + BLen(msg)
        BY <2>1
      <3> QED
        BY <3>1, <3>2
    <2>9. Framed(msg) => /\ BodyAt(m) = CS(m, 1) /\ CS(m, 1) \in Nat /\ Upto(m, 0) = 0
                         /\ Len(msg.chunks) \in Nat
                         /\ \A i \in 1..Len(msg.chunks) : ChunkAt(m, i)
                         /\ LastAt(m)
      BY ChunkPlaces
    <2> QED
      BY <1>1, <1>3, <2>5, <2>6, <2>7, <2>8, <2>9 DEF Layout, B
  <1> QED
    BY <1>5, <1>6

LEMMA LeastExists ==
    ASSUME NEW S \in SUBSET Nat, S # {} PROVE \E x \in S : \A y \in S : x <= y
  <1>1. PICK x \in S : \A y \in S : ~(<<y, x>> \in OpToRel(<, Nat))
    BY NatLessThanWellFounded, WFMin
  <1>2. ASSUME NEW y \in S PROVE x <= y
    <2>1. ~(y < x)
      BY <1>1, Zenon DEF OpToRel
    <2> QED
      BY <2>1
  <1> QED
    BY <1>2

(* The messages lie one after the other.                                    *)
LEMMA BaseStep ==
    ASSUME Sent, NEW m \in 1..N
    PROVE  /\ Base(m + 1) = ends[m] /\ Base(m) \in Nat /\ Base(m + 1) \in Nat
           /\ Base(m) + 5 <= Base(m + 1) /\ Base(m + 1) <= Len(wire)
  <1>1. m \in Nat /\ m >= 1
    BY SentFacts
  <1>2. Base(m + 1) = ends[m]
    BY <1>1 DEF Base
  <1>3. Layout(m)
    BY LayoutFacts
  <1>4. Base(m) \in Nat /\ ends[m] \in Nat /\ BodyAt(m) <= ends[m] /\ ends[m] <= Len(wire)
    BY <1>3 DEF Layout
  <1>5. BodyAt(m) >= Base(m) + 5
    BY <1>4 DEF BodyAt, HLen
  <1> QED
    BY <1>2, <1>4, <1>5, SentFacts DEF BodyAt, HLen

Ordered == \A a, b \in 1..N + 1 : /\ Base(a) \in Nat /\ Base(a) <= Len(wire)
                                  /\ a <= b => Base(a) <= Base(b)
                                  /\ a < b => Base(a) + 5 <= Base(b)

LEMMA BasesOrdered == ASSUME Sent PROVE Ordered
  <1>0. N \in Nat /\ Len(wire) \in Nat /\ Base(1) = 0
    BY SentFacts DEF Base
  <1>1. \A a \in 1..N + 1 : Base(a) \in Nat /\ Base(a) <= Len(wire)
    <2> TAKE a \in 1..N + 1
    <2>1. CASE a = 1
      BY <1>0, <2>1
    <2>2. CASE a # 1
      <3>1. a - 1 \in 1..N /\ (a - 1) + 1 = a
        BY <1>0, <2>2
      <3>2. Base((a - 1) + 1) \in Nat /\ Base((a - 1) + 1) <= Len(wire)
        BY <3>1, BaseStep
      <3> QED
        BY <3>1, <3>2
    <2> QED
      BY <2>1, <2>2
  <1>2. ASSUME NEW a \in 1..N + 1 PROVE \A b \in a..N + 1 : Base(a) <= Base(b) /\ (a < b => Base(a) + 5 <= Base(b))
    <2> DEFINE Up(b) == Base(a) <= Base(b) /\ (a < b => Base(a) + 5 <= Base(b))
               T == {d \in 0..N + 1 - a : Up(a + d)}
    <2>1. 0 \in T
      BY <1>0, <1>1
    <2>2. ASSUME NEW d \in 0..N + 1 - a, d \in T, d < N + 1 - a PROVE d + 1 \in T
      <3>1. a + d \in 1..N /\ a + d \in 1..N + 1 /\ (a + d) + 1 = a + (d + 1) /\ d + 1 \in 0..N + 1 - a
        BY <1>0, <2>2
      <3>2. Base(a + d) + 5 <= Base((a + d) + 1) /\ Base(a + d) \in Nat /\ Base((a + d) + 1) \in Nat
        BY <3>1, BaseStep
      <3>3. Base(a) <= Base(a + d) /\ Base(a) \in Nat
        BY <1>1, <2>2
      <3>4. Up(a + (d + 1))
        BY <3>1, <3>2, <3>3
      <3> QED
        BY <3>1, <3>4
    <2> HIDE DEF T
    <2>3. N + 1 - a \in Nat
      BY <1>0
    <2>4. \A d \in 0..N + 1 - a : d \in T
      BY <2>1, <2>2, <2>3, InductTo
    <2>5. ASSUME NEW b \in a..N + 1 PROVE Up(b)
      <3>1. b - a \in 0..N + 1 - a /\ a + (b - a) = b
        BY <1>0
      <3> QED
        BY <2>4, <3>1, Zenon DEF T
    <2> QED
      BY <2>5
  <1>3. ASSUME NEW a \in 1..N + 1, NEW b \in 1..N + 1, a <= b
        PROVE Base(a) <= Base(b) /\ (a < b => Base(a) + 5 <= Base(b))
    <2>1. b \in a..N + 1
      BY <1>0, <1>3
    <2> QED
      BY <1>2, <2>1
  <1> QED
    BY <1>0, <1>1, <1>3 DEF Ordered

(* Every unit belongs to a message.                                         *)
LEMMA Located ==
    ASSUME Sent, NEW j \in 1..Len(wire)
    PROVE  \E m \in 1..N : Base(m) < j /\ j <= ends[m]
  <1> DEFINE S == {m \in 1..N : j <= ends[m]}
  <1>0. N \in Nat /\ Len(wire) \in Nat /\ Len(wire) = Base(N + 1)
    BY SentFacts
  <1>1. N \in S
    <2>1. N # 0
      BY <1>0 DEF Base
    <2>2. N \in 1..N
      BY <1>0, <2>1
    <2>3. Base(N + 1) = ends[N]
      BY <2>2, BaseStep
    <2> QED
      BY <1>0, <2>2, <2>3
  <1>2. S \in SUBSET Nat
    BY <1>0
  <1>3. PICK m \in S : \A y \in S : m <= y
    BY <1>1, <1>2, LeastExists
  <1>4. Base(m) < j
    <2>1. CASE m = 1
      BY <2>1 DEF Base
    <2>2. CASE m # 1
      <3>1. m - 1 \in 1..N /\ ~(m <= m - 1)
        BY <1>0, <2>2
      <3>2. ~(j <= ends[m - 1])
        BY <1>3, <3>1
      <3>3. ends[m - 1] \in Nat
        BY <3>1, LayoutFacts DEF Layout
      <3> QED
        BY <1>0, <2>2, <3>2, <3>3 DEF Base
    <2> QED
      BY <2>1, <2>2
  <1> QED
    BY <1>4

LineKinds == {"request", "status", "nobody"}

(* A line begins a message, and nothing else looks like it.                 *)
LEMMA LinesBegin ==
    ASSUME Sent, loss = "any", NEW j \in 1..Len(wire), wire[j].k \in LineKinds
    PROVE  \E m \in 1..N : j = Base(m) + 1
  <1>1. PICK m \in 1..N : Base(m) < j /\ j <= ends[m]
    BY Located
  <1> DEFINE B == Base(m)
             n == BLen(conv[m])
  <1>2. ~Framed(conv[m])
    BY <1>1 DEF Sent, Framed
  <1>3. /\ B \in Nat /\ ends[m] = BodyAt(m) + n /\ n \in Nat
        /\ LineAt(B, Unit(conv[m].line, m))
        /\ BlockAt(B + 3, HLen(conv[m]), HeaderUnit(conv[m]))
        /\ \A i \in 1..n : wire[BodyAt(m) + i] = Unit("data", 100 * m + i)
    BY <1>2, LayoutFacts DEF Layout
  <1>4. CR.k = "cr" /\ LF.k = "lf" /\ HeaderUnit(conv[m]).k \in {"length", "te"}
        /\ \A v : Unit("data", v).k = "data"
    BY DEF Unit, CR, LF, HeaderUnit
  <1> HIDE DEF B, n
  <1>5. j # B + 2 /\ j # B + 3
    BY <1>3, <1>4 DEF LineAt, LineKinds
  <1>6. BodyAt(m) = B + 3 + HLen(conv[m])
    BY DEF BodyAt, B
  <1>7. ~(j > B + 3 /\ j <= BodyAt(m))
    <2>1. CASE HLen(conv[m]) = 2
      <3>1. wire[B + 3 + 1] = CR /\ wire[B + 3 + 2] = LF
        BY <1>3, <2>1 DEF BlockAt
      <3>2. j # B + 3 + 1 /\ j # B + 3 + 2
        BY <1>4, <3>1 DEF LineKinds
      <3> QED
        BY <1>3, <1>6, <2>1, <3>2
    <2>2. CASE HLen(conv[m]) = 5
      <3>1. /\ wire[B + 3 + 1] = HeaderUnit(conv[m]) /\ wire[B + 3 + 2] = CR /\ wire[B + 3 + 3] = LF
            /\ wire[B + 3 + 4] = CR /\ wire[B + 3 + 5] = LF
        BY <1>3, <2>2 DEF BlockAt, LineAt
      <3>2. j # B + 3 + 1 /\ j # B + 3 + 2 /\ j # B + 3 + 3 /\ j # B + 3 + 4 /\ j # B + 3 + 5
        BY <1>4, <3>1 DEF LineKinds
      <3> QED
        BY <1>3, <1>6, <2>2, <3>2
    <2> QED
      BY <2>1, <2>2 DEF HLen
  <1>8. ~(j > BodyAt(m))
    <2>1. SUFFICES ASSUME j > BodyAt(m) PROVE FALSE
      OBVIOUS
    <2>2. BodyAt(m) \in Nat
      BY <1>3, <1>6 DEF HLen
    <2>3. j - BodyAt(m) \in 1..n /\ BodyAt(m) + (j - BodyAt(m)) = j
      BY <1>1, <1>3, <2>1, <2>2
    <2>4. wire[j].k = "data"
      BY <1>3, <1>4, <2>3
    <2> QED
      BY <2>4 DEF LineKinds
  <1>9. BodyAt(m) \in Nat /\ BodyAt(m) >= B + 5
    BY <1>3, <1>6 DEF HLen
  <1>10. B \in Nat /\ j \in Nat /\ B < j
    BY <1>1, <1>3 DEF B
  <1>11. j = B + 1
    BY <1>5, <1>7, <1>8, <1>9, <1>10
  <1> QED
    BY <1>11 DEF B

-----------------------------------------------------------------------------
(* Buffers.                                                                 *)

LEMMA MonusFacts ==
    ASSUME NEW a \in Nat, NEW b \in Nat
    PROVE  /\ Monus(a, b) \in Nat
           /\ a >= b => Monus(a, b) = a - b
           /\ a <= b => Monus(a, b) = 0
           /\ Smaller(a, b) \in Nat /\ Smaller(a, b) <= a /\ Smaller(a, b) <= b
           /\ a <= b => Smaller(a, b) = a
           /\ a >= b => Smaller(a, b) = b
  BY DEF Monus, Smaller

(* t is what is left of q without its first n units.                        *)
IsDrop(t, q, n) ==
    /\ t \in Seq(AnyUnit) /\ Len(t) = Len(q) - n
    /\ \A j \in 1..Len(t) : t[j] = q[n + j]

IsTake(t, q, n) ==
    /\ t \in Seq(AnyUnit) /\ Len(t) = Smaller(n, Len(q))
    /\ \A j \in 1..Len(t) : t[j] = q[j]

LEMMA DropFacts ==
    ASSUME NEW q \in Seq(AnyUnit), NEW n \in 0..Len(q) PROVE IsDrop(Drop(q, n), q, n)
  <1>1. n + 1 \in 1..Len(q) + 1 /\ Len(q) \in Nat /\ n \in Nat
    OBVIOUS
  <1>2. Drop(q, n) \in Seq(AnyUnit) /\ Len(Drop(q, n)) = Len(q) - n
    BY <1>1, SubSeqProperties DEF Drop
  <1>3. \A j \in 1..Len(q) - n : Drop(q, n)[j] = q[n + j]
    BY <1>1, SubSeqProperties DEF Drop
  <1> QED
    BY <1>2, <1>3 DEF IsDrop

LEMMA TakeFacts ==
    ASSUME NEW q \in Seq(AnyUnit), NEW n \in Nat PROVE IsTake(Take(q, n), q, n)
  <1> DEFINE k == Smaller(n, Len(q))
  <1>1. k \in 0..Len(q)
    <2>1. Len(q) \in Nat
      OBVIOUS
    <2>2. k \in Nat /\ k <= Len(q)
      BY <2>1, MonusFacts
    <2> QED
      BY <2>1, <2>2
  <1> HIDE DEF k
  <1>2. Take(q, n) \in Seq(AnyUnit) /\ Len(Take(q, n)) = k
    BY <1>1, SubSeqProperties DEF Take, k
  <1>3. \A j \in 1..k : Take(q, n)[j] = q[j]
    BY <1>1, SubSeqProperties DEF Take, k
  <1> QED
    BY <1>2, <1>3 DEF IsTake, k

LEMMA PrefixFacts ==
    ASSUME NEW pat \in Seq(AnyUnit), NEW q \in Seq(AnyUnit)
    PROVE  IsPrefix(pat, q) <=> Len(pat) <= Len(q) /\ \A j \in 1..Len(pat) : q[j] = pat[j]
  <1>1. CASE Len(pat) <= Len(q)
    <2> DEFINE a == SubSeq(pat, 1, Len(pat))
               b == SubSeq(q, 1, Len(pat))
    <2>1. a \in Seq(AnyUnit) /\ Len(a) = Len(pat) /\ \A j \in 1..Len(pat) : a[j] = pat[j]
      BY SubSeqProperties
    <2>2. b \in Seq(AnyUnit) /\ Len(b) = Len(pat) /\ \A j \in 1..Len(pat) : b[j] = q[j]
      BY <1>1, SubSeqProperties
    <2>3. IsPrefix(pat, q) <=> a = b
      BY <1>1 DEF IsPrefix
    <2> HIDE DEF a, b
    <2>4. (\A j \in 1..Len(pat) : q[j] = pat[j]) => a = b
      BY <2>1, <2>2, SeqEqual
    <2> QED
      BY <1>1, <2>1, <2>2, <2>3, <2>4
  <1>2. CASE ~(Len(pat) <= Len(q))
    BY <1>2 DEF IsPrefix
  <1> QED
    BY <1>1, <1>2

(* Where a CR LF, or two, are found.                                        *)
CrlfAt(q, i) == i + 1 <= Len(q) /\ q[i] = CR /\ q[i + 1] = LF
CrlfCrlfAt(q, i) == i + 3 <= Len(q) /\ CrlfAt(q, i) /\ CrlfAt(q, i + 2)

LEMMA CRLF2Facts ==
    /\ CRLF \o CRLF \in Seq(AnyUnit) /\ Len(CRLF \o CRLF) = 4
    /\ (CRLF \o CRLF)[1] = CR /\ (CRLF \o CRLF)[2] = LF
    /\ (CRLF \o CRLF)[3] = CR /\ (CRLF \o CRLF)[4] = LF
  <1>1. Follows(CRLF \o CRLF, CRLF, CRLF)
    BY CRLFFacts, ConcatFollows
  <1>2. (CRLF \o CRLF)[2 + 1] = CRLF[1] /\ (CRLF \o CRLF)[2 + 2] = CRLF[2]
    BY <1>1, CRLFFacts DEF Follows
  <1> QED
    BY <1>1, <1>2, CRLFFacts DEF Follows

LEMMA PatternFacts ==
    ASSUME NEW q \in Seq(AnyUnit), NEW i \in 1..Len(q)
    PROVE  /\ IsPrefix(CRLF, Drop(q, i - 1)) <=> CrlfAt(q, i)
           /\ IsPrefix(CRLF \o CRLF, Drop(q, i - 1)) <=> CrlfCrlfAt(q, i)
  <1> DEFINE t == Drop(q, i - 1)
             n == i - 1
  <1>1. n \in 0..Len(q) /\ Len(q) \in Nat /\ i = n + 1 /\ n \in Nat
    OBVIOUS
  <1>2. IsDrop(t, q, n)
    BY <1>1, DropFacts
  <1> HIDE DEF n, t
  <1>3. t \in Seq(AnyUnit) /\ Len(t) = Len(q) - n /\ \A j \in 1..Len(q) - n : t[j] = q[n + j]
    BY <1>2 DEF IsDrop
  <1>4. IsPrefix(CRLF, t) <=> CrlfAt(q, i)
    <2>1. IsPrefix(CRLF, t) <=> 2 <= Len(t) /\ t[1] = CR /\ t[2] = LF
      <3>1. IsPrefix(CRLF, t) <=> Len(CRLF) <= Len(t) /\ \A j \in 1..Len(CRLF) : t[j] = CRLF[j]
        BY <1>3, CRLFFacts, PrefixFacts
      <3> QED
        BY <3>1, CRLFFacts
    <2>2. 2 <= Len(t) => t[1] = q[i] /\ t[2] = q[i + 1]
      BY <1>1, <1>3
    <2> QED
      BY <1>1, <1>3, <2>1, <2>2 DEF CrlfAt
  <1>5. IsPrefix(CRLF \o CRLF, t) <=> CrlfCrlfAt(q, i)
    <2>1. IsPrefix(CRLF \o CRLF, t) <=> 4 <= Len(t) /\ t[1] = CR /\ t[2] = LF /\ t[3] = CR /\ t[4] = LF
      <3> DEFINE p == CRLF \o CRLF
      <3>2. p \in Seq(AnyUnit) /\ Len(p) = 4 /\ p[1] = CR /\ p[2] = LF /\ p[3] = CR /\ p[4] = LF
        BY CRLF2Facts
      <3> HIDE DEF p
      <3>1. IsPrefix(p, t) <=> Len(p) <= Len(t) /\ \A j \in 1..Len(p) : t[j] = p[j]
        BY <1>3, <3>2, PrefixFacts
      <3>3. IsPrefix(p, t) <=> 4 <= Len(t) /\ t[1] = CR /\ t[2] = LF /\ t[3] = CR /\ t[4] = LF
        BY <3>1, <3>2
      <3> QED
        BY <3>3 DEF p
    <2>2. 4 <= Len(t) => t[1] = q[i] /\ t[2] = q[i + 1] /\ t[3] = q[i + 2] /\ t[4] = q[i + 3]
      <3>1. SUFFICES ASSUME 4 <= Len(t) PROVE t[1] = q[i] /\ t[2] = q[i + 1] /\ t[3] = q[i + 2] /\ t[4] = q[i + 3]
        OBVIOUS
      <3>2. t[1] = q[n + 1] /\ t[2] = q[n + 2] /\ t[3] = q[n + 3] /\ t[4] = q[n + 4]
        BY <1>3, <3>1
      <3>3. n + 1 = i /\ n + 2 = i + 1 /\ n + 3 = i + 2 /\ n + 4 = i + 3
        BY <1>1
      <3> QED
        BY <3>2, <3>3
    <2>3. (i + 2) + 1 = i + 3 /\ (4 <= Len(t) <=> i + 3 <= Len(q)) /\ (i + 3 <= Len(q) => i + 1 <= Len(q))
      BY <1>1, <1>3
    <2> QED
      BY <2>1, <2>2, <2>3 DEF CrlfAt, CrlfCrlfAt
  <1> QED
    BY <1>4, <1>5 DEF t

(* Index finds the first CR LF, or the first two, and 0 where there are     *)
(* none.                                                                    *)
LEMMA IndexFacts ==
    ASSUME NEW q \in Seq(AnyUnit)
    PROVE  /\ Index(q, CRLF) \in Nat
           /\ Index(q, CRLF) # 0 => CrlfAt(q, Index(q, CRLF))
           /\ \A i \in 1..Len(q) : CrlfAt(q, i) => Index(q, CRLF) # 0 /\ Index(q, CRLF) <= i
           /\ Index(q, CRLF \o CRLF) \in Nat
           /\ Index(q, CRLF \o CRLF) # 0 => CrlfCrlfAt(q, Index(q, CRLF \o CRLF))
           /\ \A i \in 1..Len(q) :
                 CrlfCrlfAt(q, i) => Index(q, CRLF \o CRLF) # 0 /\ Index(q, CRLF \o CRLF) <= i
  <1>1. ASSUME NEW pat
        PROVE  LET at == {i \in 1..Len(q) : IsPrefix(pat, Drop(q, i - 1))} IN
               /\ Index(q, pat) \in Nat
               /\ Index(q, pat) # 0 => Index(q, pat) \in at
               /\ \A i \in at : Index(q, pat) # 0 /\ Index(q, pat) <= i
    <2> DEFINE at == {i \in 1..Len(q) : IsPrefix(pat, Drop(q, i - 1))}
    <2>1. at \in SUBSET Nat /\ 0 \notin at
      OBVIOUS
    <2>2. Index(q, pat) = IF at = {} THEN 0 ELSE CHOOSE i \in at : \A j \in at : i <= j
      BY DEF Index
    <2> HIDE DEF at
    <2>3. CASE at = {}
      BY <2>2, <2>3 DEF at
    <2>4. CASE at # {}
      <3>1. \E x \in at : \A y \in at : x <= y
        BY <2>1, <2>4, LeastExists
      <3>2. Index(q, pat) \in at /\ \A j \in at : Index(q, pat) <= j
        BY <2>2, <2>4, <3>1
      <3> QED
        BY <2>1, <3>2 DEF at
    <2> QED
      BY <2>3, <2>4
  <1>2. ASSUME NEW i \in 1..Len(q)
        PROVE  /\ IsPrefix(CRLF, Drop(q, i - 1)) <=> CrlfAt(q, i)
               /\ IsPrefix(CRLF \o CRLF, Drop(q, i - 1)) <=> CrlfCrlfAt(q, i)
    BY PatternFacts
  <1>3. /\ Index(q, CRLF) \in Nat
        /\ Index(q, CRLF) # 0 => CrlfAt(q, Index(q, CRLF))
        /\ \A i \in 1..Len(q) : CrlfAt(q, i) => Index(q, CRLF) # 0 /\ Index(q, CRLF) <= i
    BY <1>1, <1>2
  <1>4. /\ Index(q, CRLF \o CRLF) \in Nat
        /\ Index(q, CRLF \o CRLF) # 0 => CrlfCrlfAt(q, Index(q, CRLF \o CRLF))
        /\ \A i \in 1..Len(q) :
              CrlfCrlfAt(q, i) => Index(q, CRLF \o CRLF) # 0 /\ Index(q, CRLF \o CRLF) <= i
    BY <1>1, <1>2
  <1> QED
    BY <1>3, <1>4

(* The buffer holds what lies between two places of the wire.               *)
Window(b, c, q) ==
    /\ b \in Seq(AnyUnit) /\ Len(b) = Monus(q, c)
    /\ \A j \in 1..Len(b) : b[j] = wire[c + j]

LEMMA WindowLen ==
    ASSUME NEW c \in Nat, NEW q \in Nat, NEW b, Window(b, c, q)
    PROVE  /\ Len(b) \in Nat /\ b \in Seq(AnyUnit)
           /\ q >= c => Len(b) = q - c
           /\ q <= c => Len(b) = 0 /\ b = <<>>
           /\ \A j \in Nat : 1 <= j /\ c + j <= q => j \in 1..Len(b) /\ b[j] = wire[c + j]
  <1>1. b \in Seq(AnyUnit) /\ Len(b) = Monus(q, c) /\ Len(b) \in Nat
    BY DEF Window
  <1>2. (q >= c => Len(b) = q - c) /\ (q <= c => Len(b) = 0)
    BY <1>1, MonusFacts
  <1>3. Len(b) = 0 => b = <<>>
    BY <1>1
  <1>4. ASSUME NEW j \in Nat, 1 <= j, c + j <= q PROVE j \in 1..Len(b) /\ b[j] = wire[c + j]
    <2>1. j \in 1..Len(b)
      BY <1>1, <1>2, <1>4
    <2> QED
      BY <2>1 DEF Window
  <1> QED
    BY <1>1, <1>2, <1>3, <1>4

LEMMA WindowEmpty ==
    ASSUME NEW c \in Nat, NEW q \in Nat, q <= c PROVE Window(<<>>, c, q)
  <1>1. Monus(q, c) = 0
    BY MonusFacts
  <1> QED
    BY <1>1 DEF Window

LEMMA WindowDrop ==
    ASSUME NEW c \in Nat, NEW q \in Nat, NEW b, Window(b, c, q), NEW n \in Nat
    PROVE  /\ n <= Len(b) => Window(Drop(b, n), c + n, q)
           /\ Window(Drop(b, Len(Take(b, n))), c + n, q)
  <1>1. b \in Seq(AnyUnit) /\ Len(b) = Monus(q, c) /\ Len(b) \in Nat
    BY DEF Window
  <1>2. ASSUME NEW k \in 0..Len(b), k = n \/ (k = Len(b) /\ k < n) PROVE Window(Drop(b, k), c + n, q)
    <2> DEFINE d == Drop(b, k)
    <2>1. IsDrop(d, b, k)
      BY <1>1, DropFacts
    <2> HIDE DEF d
    <2>2. Len(d) = Monus(q, c + n)
      <3>1. Len(d) = Len(b) - k
        BY <2>1 DEF IsDrop
      <3>2. CASE q >= c + n
        <4>0. c + n \in Nat /\ q >= c
          BY <3>2
        <4>3. Len(b) = q - c
          BY <1>1, <4>0, MonusFacts
        <4>4. Monus(q, c + n) = q - (c + n)
          BY <3>2, <4>0, MonusFacts
        <4>1. Len(b) = q - c /\ Monus(q, c + n) = q - (c + n)
          BY <4>3, <4>4
        <4>2. k = n
          BY <1>1, <1>2, <3>2, <4>1
        <4> QED
          BY <3>1, <4>1, <4>2
      <3>3. CASE ~(q >= c + n)
        <4>1. Monus(q, c + n) = 0
          BY <3>3, MonusFacts
        <4>2. Len(b) <= k
          <5>1. CASE q >= c
            <6>1. Len(b) = q - c
              BY <1>1, <5>1, MonusFacts
            <6> QED
              BY <1>1, <1>2, <3>3, <5>1, <6>1
          <5>2. CASE ~(q >= c)
            BY <1>1, <1>2, <5>2, MonusFacts
          <5> QED
            BY <5>1, <5>2
        <4> QED
          BY <1>1, <3>1, <4>1, <4>2
      <3> QED
        BY <3>2, <3>3
    <2>3. ASSUME NEW j \in 1..Len(d) PROVE d[j] = wire[c + n + j]
      <3>1. k = n /\ k + j \in 1..Len(b) /\ c + (k + j) = c + n + j
        <4>1. Len(d) = Len(b) - k
          BY <2>1 DEF IsDrop
        <4> QED
          BY <1>1, <1>2, <2>3, <4>1
      <3>2. d[j] = b[k + j]
        BY <2>1 DEF IsDrop
      <3> QED
        BY <3>1, <3>2 DEF Window
    <2> QED
      BY <2>1, <2>2, <2>3 DEF Window, IsDrop, d
  <1>3. Len(Take(b, n)) \in 0..Len(b) /\ (Len(Take(b, n)) = n \/ (Len(Take(b, n)) = Len(b) /\ Len(b) < n))
    <2> DEFINE k == Len(Take(b, n))
               l == Len(b)
    <2>1. k = Smaller(n, l)
      BY <1>1, TakeFacts DEF IsTake
    <2>2. l \in Nat
      BY <1>1
    <2> HIDE DEF k, l
    <2>3. k \in 0..l /\ (k = n \/ (k = l /\ l < n))
      BY <2>1, <2>2 DEF Smaller
    <2> QED
      BY <2>3 DEF k, l
  <1> QED
    BY <1>1, <1>2, <1>3

(* What comes later is appended.                                            *)
LEMMA WindowAppend ==
    ASSUME NEW c \in Nat, NEW q0 \in Nat, NEW q \in Nat, NEW b, NEW p,
           Window(b, c, q0), Window(p, q0, q), c <= q0, c = q0 \/ q0 <= q
    PROVE  Window(b \o p, c, q)
  <1> DEFINE r == b \o p
  <1>1. b \in Seq(AnyUnit) /\ Len(b) = q0 - c /\ p \in Seq(AnyUnit) /\ Len(p) \in Nat
    BY WindowLen
  <1>2. Follows(r, b, p)
    BY <1>1, ConcatFollows
  <1> HIDE DEF r
  <1>3. Len(r) = Monus(q, c)
    <2>1. Len(r) = q0 - c + Len(p)
      BY <1>1, <1>2 DEF Follows
    <2>2. CASE q0 <= q
      BY <1>1, <2>1, <2>2, MonusFacts, WindowLen
    <2>3. CASE c = q0 /\ q < q0
      BY <1>1, <2>1, <2>3, MonusFacts, WindowLen
    <2> QED
      BY <2>2, <2>3
  <1>4. ASSUME NEW j \in 1..Len(r) PROVE r[j] = wire[c + j]
    <2>1. CASE j <= Len(b)
      BY <1>1, <1>2, <2>1 DEF Follows, Window
    <2>2. CASE j > Len(b)
      <3>1. j - Len(b) \in 1..Len(p) /\ Len(b) + (j - Len(b)) = j /\ q0 + (j - Len(b)) = c + j
        BY <1>1, <1>2, <2>2 DEF Follows
      <3> QED
        BY SMTT(30), <1>2, <3>1 DEF Follows, Window
    <2> QED
      BY <1>1, <2>1, <2>2
  <1> QED
    BY <1>2, <1>3, <1>4 DEF Window, Follows, r

(* A line in the buffer, whole or not.                                      *)
LEMMA LineIndex ==
    ASSUME Sent, NEW c \in Nat, NEW q \in Nat, NEW b, Window(b, c, q), NEW u, LineAt(c, u), u # CR
    PROVE  /\ q >= c + 3 => Index(b, CRLF) = 2 /\ b[1] = u /\ Len(b) = q - c
           /\ q < c + 3 => Index(b, CRLF) = 0
  <1> DEFINE x == Index(b, CRLF)
  <1>1. b \in Seq(AnyUnit) /\ Len(b) \in Nat /\ CR # LF
    BY WindowLen, UnitFacts
  <1>2. x \in Nat /\ (x # 0 => CrlfAt(b, x)) /\ \A i \in 1..Len(b) : CrlfAt(b, i) => x # 0 /\ x <= i
    BY <1>1, IndexFacts
  <1> HIDE DEF x
  <1>3. x # 1
    <2>1. SUFFICES ASSUME x = 1 PROVE FALSE
      OBVIOUS
    <2>2. b[1] = CR /\ 2 <= Len(b)
      BY <1>2, <2>1 DEF CrlfAt
    <2>3. 1 \in 1..Len(b)
      BY <1>1, <2>2
    <2> QED
      BY <2>2, <2>3 DEF LineAt, Window
  <1>4. CASE q >= c + 3
    <2>0. q >= c
      BY <1>4
    <2>1. Len(b) = q - c
      BY <2>0, WindowLen
    <2>2. Len(b) >= 3
      BY <1>4, <2>1
    <2>3. 1 \in 1..Len(b) /\ 2 \in 1..Len(b) /\ 3 \in 1..Len(b)
      BY <1>1, <2>2
    <2>4. b[1] = u /\ b[2] = CR /\ b[3] = LF
      BY <2>3 DEF Window, LineAt
    <2>5. CrlfAt(b, 2)
      BY <2>2, <2>4 DEF CrlfAt
    <2>6. x # 0 /\ x <= 2
      BY <1>2, <2>3, <2>5
    <2>7. x = 2
      BY <1>2, <1>3, <2>6
    <2> QED
      BY <1>4, <2>1, <2>4, <2>7 DEF x
  <1>5. CASE q < c + 3
    <2>1. Len(b) <= 2
      <3>1. CASE q >= c
        BY <1>5, <3>1, WindowLen
      <3>2. CASE q < c
        BY <3>2, WindowLen
      <3> QED
        BY <3>1, <3>2
    <2>2. x = 0
      BY <1>1, <1>2, <1>3, <2>1 DEF CrlfAt
    <2> QED
      BY <1>5, <2>2 DEF x
  <1> QED
    BY <1>4, <1>5

(* A block in the buffer, whole or not.                                     *)
LEMMA BlockEnd ==
    ASSUME Sent, NEW c \in Nat, NEW q \in Nat, NEW b, Window(b, c, q),
           NEW len, NEW u, BlockAt(c, len, u), u # CR
    PROVE  /\ q >= c + len => HeaderEnd(b) = len /\ Len(b) = q - c
           /\ q < c + len => HeaderEnd(b) = 0
  <1> DEFINE x == Index(b, CRLF \o CRLF)
  <1>1. b \in Seq(AnyUnit) /\ Len(b) \in Nat /\ CR # LF
    BY WindowLen, UnitFacts
  <1>2. x \in Nat /\ (x # 0 => CrlfCrlfAt(b, x))
        /\ \A i \in 1..Len(b) : CrlfCrlfAt(b, i) => x # 0 /\ x <= i
    BY <1>1, IndexFacts
  <1>3. IsPrefix(CRLF, b) <=> 2 <= Len(b) /\ b[1] = CR /\ b[2] = LF
    <2>1. IsPrefix(CRLF, b) <=> Len(CRLF) <= Len(b) /\ \A j \in 1..Len(CRLF) : b[j] = CRLF[j]
      BY <1>1, CRLFFacts, PrefixFacts
    <2> QED
      BY <2>1, CRLFFacts
  <1>4. HeaderEnd(b) = IF IsPrefix(CRLF, b) THEN 2 ELSE IF x = 0 THEN 0 ELSE x + 3
    BY DEF HeaderEnd
  <1> HIDE DEF x
  <1>5. \A n \in Nat \ {0} : (q >= c + n => Len(b) >= n /\ Len(b) = q - c) /\ (q < c + n => Len(b) < n)
    <2> TAKE n \in Nat \ {0}
    <2>1. CASE q >= c
      <3>1. Len(b) = q - c
        BY <2>1, WindowLen
      <3> QED
        BY <2>1, <3>1
    <2>2. CASE q < c
      <3>1. Len(b) = 0
        BY <2>2, WindowLen
      <3> QED
        BY <2>2, <3>1
    <2> QED
      BY <2>1, <2>2
  <1>6. \A j \in 1..Len(b) : b[j] = wire[c + j]
    BY DEF Window
  <1>7. CASE len = 2 /\ wire[c + 1] = CR /\ wire[c + 2] = LF
    <2>1. ASSUME q >= c + len PROVE HeaderEnd(b) = len /\ Len(b) = q - c
      <3>1. Len(b) >= 2 /\ Len(b) = q - c
        BY <1>5, <1>7, <2>1
      <3>2. 1 \in 1..Len(b) /\ 2 \in 1..Len(b)
        BY <1>1, <3>1
      <3>3. b[1] = CR /\ b[2] = LF
        BY <1>6, <1>7, <3>2
      <3> QED
        BY <1>3, <1>4, <1>7, <3>1, <3>3
    <2>2. ASSUME q < c + len PROVE HeaderEnd(b) = 0
      <3>1. Len(b) < 2
        BY <1>5, <1>7, <2>2
      <3>2. x = 0
        BY <1>1, <1>2, <3>1 DEF CrlfCrlfAt
      <3> QED
        BY <1>1, <1>3, <1>4, <3>1, <3>2
    <2> QED
      BY <2>1, <2>2
  <1>8. CASE len = 5 /\ LineAt(c, u) /\ wire[c + 4] = CR /\ wire[c + 5] = LF
    <2>0. 1 <= Len(b) => b[1] = u
      BY <1>1, <1>6, <1>8 DEF LineAt
    <2>1. ASSUME q >= c + len PROVE HeaderEnd(b) = len /\ Len(b) = q - c
      <3>1. Len(b) >= 5 /\ Len(b) = q - c
        BY <1>5, <1>8, <2>1
      <3>2. 2 \in 1..Len(b) /\ 3 \in 1..Len(b) /\ 4 \in 1..Len(b) /\ 5 \in 1..Len(b)
        BY <1>1, <3>1
      <3>3. b[2] = CR /\ b[3] = LF /\ b[4] = CR /\ b[5] = LF
        BY <1>6, <1>8, <3>2 DEF LineAt
      <3>4. CrlfCrlfAt(b, 2)
        BY <3>1, <3>3 DEF CrlfAt, CrlfCrlfAt
      <3>5. x # 0 /\ x <= 2
        BY <1>2, <3>2, <3>4
      <3>6. x # 1
        BY <1>2, <2>0, <3>1 DEF CrlfAt, CrlfCrlfAt
      <3>7. x = 2 /\ ~IsPrefix(CRLF, b)
        BY <1>2, <1>3, <2>0, <3>1, <3>5, <3>6
      <3> QED
        BY <1>4, <1>8, <3>1, <3>7
    <2>2. ASSUME q < c + len PROVE HeaderEnd(b) = 0
      <3>1. Len(b) < 5
        BY <1>5, <1>8, <2>2
      <3>2. x = 0
        BY <1>1, <1>2, <2>0, <3>1 DEF CrlfAt, CrlfCrlfAt
      <3>3. ~IsPrefix(CRLF, b)
        BY <1>1, <1>3, <2>0
      <3> QED
        BY <1>4, <3>2, <3>3
    <2> QED
      BY <2>1, <2>2
  <1> QED
    BY <1>7, <1>8 DEF BlockAt

(* What a header block that is in the buffer says.                          *)
LEMMA HeaderSays ==
    ASSUME Sent, NEW m \in 1..N, NEW q \in Nat, NEW b, Window(b, Base(m) + 3, q), q >= BodyAt(m)
    PROVE  LET block == Take(b, HLen(conv[m]))
               line == Unit(conv[m].line, m)
           IN  /\ Chunked(block, line) <=> Framed(conv[m])
               /\ ~Framed(conv[m]) => ContentLength(block, line) = BLen(conv[m])
  <1> DEFINE msg == conv[m]
             c == Base(m) + 3
             h == HLen(msg)
             block == Take(b, h)
             line == Unit(msg.line, m)
  <1>1. msg \in Message /\ WellFormed(msg) /\ m \in Nat
    BY SentFacts
  <1>2. /\ Base(m) \in Nat /\ BlockAt(c, h, HeaderUnit(msg)) /\ BodyAt(m) = c + h
    BY LayoutFacts DEF Layout, BodyAt
  <1>3. c \in Nat /\ h \in Nat /\ h = IF msg.coding = "bare" THEN 2 ELSE 5
    BY <1>2 DEF HLen
  <1>4. line.k = msg.line
    BY DEF Unit
  <1> HIDE DEF c, h, line
  <1>5. b \in Seq(AnyUnit) /\ Len(b) = q - c /\ Len(b) >= h /\ \A j \in 1..Len(b) : b[j] = wire[c + j]
    <2>1. q >= c + h
      BY <1>2
    <2>2. q >= c
      BY <1>3, <2>1
    <2>3. Len(b) = q - c
      BY <1>3, <2>2, WindowLen DEF c
    <2> QED
      BY <1>3, <2>1, <2>3 DEF Window, c
  <1>6. Len(block) = h /\ block \in Seq(AnyUnit) /\ \A j \in 1..h : block[j] = b[j]
    <2>1. IsTake(block, b, h)
      BY <1>3, <1>5, TakeFacts
    <2> HIDE DEF block
    <2>2. Smaller(h, Len(b)) = h
      <3>1. Len(b) \in Nat /\ h \in Nat /\ h <= Len(b)
        BY <1>3, <1>5
      <3> QED
        BY <3>1, MonusFacts
    <2> QED
      BY <2>1, <2>2 DEF IsTake
  <1> HIDE DEF block
  <1>7. DOMAIN block = 1..h /\ \A j \in 1..h : block[j] = wire[c + j]
    <2>1. DOMAIN block = 1..h
      BY <1>6
    <2>2. ASSUME NEW j \in 1..h PROVE block[j] = wire[c + j]
      <3>1. Len(b) \in Nat /\ h <= Len(b)
        BY <1>5
      <3>2. j \in 1..Len(b)
        BY <1>3, <3>1
      <3> QED
        BY <1>5, <1>6, <3>2
    <2> QED
      BY <2>1, <2>2
  <1>8. CR.k = "cr" /\ LF.k = "lf" /\ HeaderUnit(msg).k = (IF msg.coding = "length" THEN "length" ELSE "te")
        /\ (msg.coding = "length" => HeaderUnit(msg).v = msg.chunks[1])
    BY DEF Unit, CR, LF, HeaderUnit
  <1>9. CASE h = 2
    <2>1. wire[c + 1] = CR /\ wire[c + 2] = LF
      BY <1>2, <1>9 DEF BlockAt
    <2>2. \A j \in DOMAIN block : block[j].k # "te" /\ block[j].k # "length"
      BY <1>7, <1>8, <1>9, <2>1
    <2>3. msg.coding = "bare"
      BY <1>3, <1>9
    <2>4. ~Framed(msg) /\ BLen(msg) = 0
      BY <2>3 DEF Framed, BLen
    <2>5. ~Chunked(block, line) /\ ContentLength(block, line) = 0
      BY <2>2 DEF Chunked, ContentLength
    <2> QED
      BY <2>4, <2>5 DEF block, line, h
  <1>10. CASE h = 5
    <2>1. /\ wire[c + 1] = HeaderUnit(msg) /\ wire[c + 2] = CR /\ wire[c + 3] = LF
          /\ wire[c + 4] = CR /\ wire[c + 5] = LF
      BY <1>2, <1>10 DEF BlockAt, LineAt
    <2>2. block[1] = HeaderUnit(msg) /\ 1 \in DOMAIN block
      BY <1>7, <1>10, <2>1
    <2>3. \A j \in DOMAIN block : j # 1 => block[j].k # "te" /\ block[j].k # "length"
      BY <1>7, <1>8, <1>10, <2>1
    <2>4. msg.coding \in {"length", "chunked"}
      BY <1>1, <1>3, <1>10, MessageTypes
    <2>5. Chunked(block, line) <=> Framed(msg)
      BY <1>4, <1>8, <2>2, <2>3, <2>4 DEF Chunked, HasNoBody, Framed
    <2>6. ASSUME ~Framed(msg) PROVE ContentLength(block, line) = BLen(msg)
      <3>1. CASE msg.line = "nobody"
        BY <1>4, <3>1 DEF ContentLength, HasNoBody, BLen
      <3>2. CASE msg.line # "nobody"
        <4>1. msg.coding = "length"
          BY <2>4, <2>6, <3>2 DEF Framed
        <4>2. \A j \in DOMAIN block : block[j].k = "length" <=> j = 1
          BY <1>8, <2>2, <2>3, <4>1
        <4>3. (CHOOSE j \in DOMAIN block : block[j].k = "length") = 1
          BY <2>2, <4>2
        <4>4. ContentLength(block, line) = block[1].v
          BY <1>4, <2>2, <3>2, <4>2, <4>3 DEF ContentLength, HasNoBody
        <4> QED
          BY <1>8, <2>2, <3>2, <4>1, <4>4 DEF BLen
      <3> QED
        BY <3>1, <3>2
    <2> QED
      BY <2>5, <2>6 DEF block, line, h
  <1> QED
    BY <1>3, <1>9, <1>10

-----------------------------------------------------------------------------
(* The stream and the body it keeps.                                        *)

States == {"startLine", "headers", "body", "chunkSize", "chunkData", "chunkCRLF", "trailer"}

Stream == [buf : Seq(AnyUnit), state : States, abandoned : BOOLEAN, line : AnyUnit,
           chunkRemaining : Nat, bodyRemaining : Nat, bodyBuf : Seq(AnyUnit),
           bodyTruncated : BOOLEAN, pendingMsg : [id : Nat, ts : Nat],
           wireBytes : Nat, consumed : Nat, startTs : Nat]

(* Of the first d units of the body of m the stream keeps a part, in order, *)
(* and knows whether it keeps all.                                          *)
Kept(t, m, d) ==
    /\ Len(t.bodyBuf) <= MaxBodyBytes
    /\ t.bodyTruncated => Len(t.bodyBuf) < d
    /\ ~t.bodyTruncated => /\ Len(t.bodyBuf) = d
                           /\ \A j \in 1..d : t.bodyBuf[j] = Unit("data", 100 * m + j)
    /\ \A j \in 1..Len(t.bodyBuf) :
          \E v \in 1..d : t.bodyBuf[j] = Unit("data", 100 * m + v)
    /\ \A j, k \in 1..Len(t.bodyBuf) : j < k => t.bodyBuf[j].v < t.bodyBuf[k].v

(* p is a part of the body of m, from d on.                                 *)
IsPart(p, m, d) ==
    p \in Seq(AnyUnit) /\ \A j \in 1..Len(p) : p[j] = Unit("data", 100 * m + d + j)

SameButBody(r, t) ==
    /\ r.buf = t.buf /\ r.state = t.state /\ r.abandoned = t.abandoned /\ r.line = t.line
    /\ r.chunkRemaining = t.chunkRemaining /\ r.bodyRemaining = t.bodyRemaining
    /\ r.pendingMsg = t.pendingMsg /\ r.wireBytes = t.wireBytes /\ r.consumed = t.consumed
    /\ r.startTs = t.startTs

(* What is kept of a body, and what is known of it, when n more units come. *)
LEMMA KeptMore ==
    ASSUME NEW t, NEW r, NEW p, NEW m \in Nat, NEW d \in Nat, NEW n \in Nat, MaxBodyBytes \in Nat,
           t.bodyBuf \in Seq(AnyUnit), t.bodyTruncated \in BOOLEAN, Kept(t, m, d),
           IsPart(p, m, d), Len(p) <= n,
           r.bodyBuf = t.bodyBuf \o Take(p, MaxBodyBytes - Len(t.bodyBuf)),
           r.bodyTruncated = (t.bodyTruncated \/ Len(p) > MaxBodyBytes - Len(t.bodyBuf) \/ Len(p) < n)
    PROVE  Kept(r, m, d + n)
  <1> DEFINE b == t.bodyBuf
             room == MaxBodyBytes - Len(b)
             x == Take(p, room)
             a == r.bodyBuf
             l == Len(b)
             z == Len(x)
  <1>1. l \in Nat /\ l <= MaxBodyBytes /\ room \in Nat /\ room = MaxBodyBytes - l /\ b \in Seq(AnyUnit)
        /\ p \in Seq(AnyUnit) /\ Len(p) \in Nat /\ Len(p) <= n
    BY DEF Kept, IsPart
  <1>2. IsTake(x, p, room)
    BY <1>1, TakeFacts
  <1>3. Follows(a, b, x)
    <2>1. x \in Seq(AnyUnit)
      BY <1>2 DEF IsTake
    <2> HIDE DEF x
    <2> QED
      BY <1>1, <2>1, ConcatFollows DEF x
  <1>4. /\ t.bodyTruncated => l < d
        /\ ~t.bodyTruncated => l = d /\ \A j \in 1..d : b[j] = Unit("data", 100 * m + j)
        /\ \A j \in 1..l : \E v \in 1..d : b[j] = Unit("data", 100 * m + v)
        /\ \A j, k \in 1..l : j < k => b[j].v < b[k].v
    BY DEF Kept
  <1>5. r.bodyTruncated = (t.bodyTruncated \/ Len(p) > room \/ Len(p) < n)
    OBVIOUS
  <1> HIDE DEF a, b, x, room, l
  <1>6. z = Smaller(room, Len(p)) /\ x \in Seq(AnyUnit) /\ \A j \in 1..z : x[j] = p[j]
    BY <1>2 DEF IsTake
  <1>7. z \in Nat /\ z <= room /\ z <= Len(p) /\ (Len(p) <= room => z = Len(p)) /\ (Len(p) > room => z = room)
    <2>1. room \in Nat /\ Len(p) \in Nat /\ z = Smaller(room, Len(p))
      BY <1>1, <1>6
    <2> HIDE DEF z
    <2> QED
      BY <2>1 DEF Smaller
  <1>8. Len(a) = l + z /\ (\A j \in 1..l : a[j] = b[j]) /\ \A j \in 1..z : a[l + j] = x[j]
    BY <1>3 DEF Follows, l
  <1> HIDE DEF z
  <1>9. \A j \in 1..z : a[l + j] = Unit("data", 100 * m + d + j)
    <2> TAKE j \in 1..z
    <2>1. j \in 1..Len(p)
      BY <1>1, <1>7
    <2> QED
      BY <1>6, <1>8, <2>1 DEF IsPart
  <1>10. \A j \in 1..l + z : j \in 1..l \/ \E i \in 1..z : j = l + i
    <2> TAKE j \in 1..l + z
    <2>1. CASE j <= l
      BY <1>1, <1>7, <2>1
    <2>2. CASE j > l
      <3>1. j - l \in 1..z /\ j = l + (j - l)
        BY <1>1, <1>7, <2>2
      <3> QED
        BY <3>1
    <2> QED
      BY <1>1, <2>1, <2>2
  <1>11. Len(a) <= MaxBodyBytes /\ l <= d
    BY <1>1, <1>4, <1>7, <1>8
  <1>12. r.bodyTruncated => Len(a) < d + n
    <2>1. ASSUME r.bodyTruncated PROVE l + z < d + n
      <3>1. CASE t.bodyTruncated
        <4>1. l < d
          BY <1>4, <3>1
        <4> QED
          BY <1>1, <1>7, <4>1
      <3>2. CASE Len(p) > room
        BY <1>1, <1>7, <1>11, <3>2
      <3>3. CASE Len(p) < n
        BY <1>1, <1>7, <1>11, <3>3
      <3> QED
        BY <1>5, <2>1, <3>1, <3>2, <3>3
    <2> QED
      BY <1>8, <2>1
  <1>13. ASSUME ~r.bodyTruncated
         PROVE  Len(a) = d + n /\ \A j \in 1..d + n : a[j] = Unit("data", 100 * m + j)
    <2>1. ~t.bodyTruncated /\ Len(p) <= room /\ Len(p) = n
      <3>1. ~(t.bodyTruncated \/ Len(p) > room \/ Len(p) < n)
        BY <1>5, <1>13, Zenon
      <3> QED
        BY <1>1, <3>1
    <2>2. l = d /\ z = n /\ \A j \in 1..d : b[j] = Unit("data", 100 * m + j)
      BY <1>4, <1>7, <2>1
    <2>3. ASSUME NEW j \in 1..d + n PROVE a[j] = Unit("data", 100 * m + j)
      <3>1. CASE j \in 1..l
        BY <1>8, <2>2, <3>1
      <3>2. CASE \E i \in 1..z : j = l + i
        <4>1. PICK i \in 1..z : j = l + i
          BY <3>2
        <4>2. a[j] = Unit("data", 100 * m + d + i)
          BY <1>9, <4>1
        <4>3. 100 * m + d + i = 100 * m + j
          BY <2>2, <4>1
        <4> QED
          BY <4>2, <4>3
      <3> QED
        BY <1>10, <2>2, <3>1, <3>2
    <2> QED
      BY <1>8, <2>2, <2>3
  <1>14. ASSUME NEW j \in 1..l + z PROVE \E v \in 1..d + n : a[j] = Unit("data", 100 * m + v)
    <2>1. CASE j \in 1..l
      <3>1. PICK v \in 1..d : b[j] = Unit("data", 100 * m + v)
        BY <1>4, <2>1
      <3>2. v \in 1..d + n /\ a[j] = b[j]
        BY <1>8, <2>1
      <3> QED
        BY <3>1, <3>2
    <2>2. CASE \E i \in 1..z : j = l + i
      <3>1. PICK i \in 1..z : j = l + i
        BY <2>2
      <3>2. d + i \in 1..d + n /\ 100 * m + d + i = 100 * m + (d + i)
        BY <1>1, <1>7
      <3>3. a[j] = Unit("data", 100 * m + (d + i))
        BY <1>9, <3>1, <3>2
      <3> QED
        BY <3>2, <3>3
    <2> QED
      BY <1>10, <2>1, <2>2
  <1>15. \A v : Unit("data", v).v = v
    BY DEF Unit
  <1>16. ASSUME NEW j \in 1..l + z, NEW k \in 1..l + z, j < k PROVE a[j].v < a[k].v
    <2>1. CASE k \in 1..l
      <3>1. j \in 1..l
        BY <1>1, <1>7, <1>16, <2>1
      <3> QED
        BY <1>4, <1>8, <1>16, <2>1, <3>1
    <2>2. CASE \E i \in 1..z : k = l + i
      <3>1. PICK i \in 1..z : k = l + i
        BY <2>2
      <3>2. a[k].v = 100 * m + d + i
        BY <1>9, <1>15, <3>1
      <3>3. CASE j \in 1..l
        <4>1. PICK v \in 1..d : b[j] = Unit("data", 100 * m + v)
          BY <1>4, <3>3
        <4>2. a[j].v = 100 * m + v
          BY <1>8, <1>15, <3>3, <4>1
        <4> QED
          BY <3>2, <4>2
      <3>4. CASE \E h \in 1..z : j = l + h
        <4>1. PICK h \in 1..z : j = l + h
          BY <3>4
        <4>2. a[j].v = 100 * m + d + h /\ h < i
          BY <1>1, <1>9, <1>15, <1>16, <3>1, <4>1
        <4> QED
          BY <3>2, <4>2
      <3> QED
        BY <1>10, <3>3, <3>4
    <2> QED
      BY <1>10, <2>1, <2>2
  <1>17. Len(a) = l + z
    BY <1>8
  <1> QED
    BY <1>11, <1>12, <1>13, <1>14, <1>16, <1>17 DEF Kept, a

(* TakeSample changes nothing but the body.                                 *)
LEMMA TakeSampleFacts ==
    ASSUME NEW t \in Stream, NEW p \in Seq(AnyUnit), NEW n \in Nat, MaxBodyBytes \in Nat,
           Len(t.bodyBuf) <= MaxBodyBytes
    PROVE  /\ TakeSample(t, p, n) \in Stream
           /\ SameButBody(TakeSample(t, p, n), t)
           /\ TakeSample(t, p, n).bodyBuf = t.bodyBuf \o Take(p, MaxBodyBytes - Len(t.bodyBuf))
           /\ TakeSample(t, p, n).bodyTruncated
                 = (t.bodyTruncated \/ Len(p) > MaxBodyBytes - Len(t.bodyBuf) \/ Len(p) < n)
  <1> DEFINE room == MaxBodyBytes - Len(t.bodyBuf)
             x == t.bodyBuf \o Take(p, room)
             y == t.bodyTruncated \/ Len(p) > room
             z == t.bodyTruncated \/ Len(p) > room \/ Len(p) < n
             r == TakeSample(t, p, n)
  <1>1. t.bodyBuf \in Seq(AnyUnit) /\ room \in Nat
    BY DEF Stream
  <1>2. Take(p, room) \in Seq(AnyUnit)
    BY <1>1, TakeFacts DEF IsTake
  <1>3. x \in Seq(AnyUnit)
    BY <1>1, <1>2, ConcatProperties
  <1>4. appendBody(t, p) = [t EXCEPT !.bodyBuf = x, !.bodyTruncated = y]
    BY DEF appendBody
  <1>5. r = [[t EXCEPT !.bodyBuf = x, !.bodyTruncated = y] EXCEPT !.bodyTruncated = @ \/ Len(p) < n]
    BY <1>4 DEF TakeSample
  <1> HIDE DEF x, y, r
  <1>6. r = [t EXCEPT !.bodyBuf = x, !.bodyTruncated = y \/ Len(p) < n]
    BY <1>5 DEF Stream
  <1>7. (y \/ Len(p) < n) \in BOOLEAN
    OBVIOUS
  <1>8. r \in Stream /\ SameButBody(r, t) /\ r.bodyBuf = x /\ r.bodyTruncated = (y \/ Len(p) < n)
    BY <1>3, <1>6, <1>7 DEF Stream, SameButBody
  <1> QED
    BY <1>8 DEF x, y, r

(* What is told of a message that is emitted.                               *)
Emitted == [id : Nat, ts : Nat, body : Seq(AnyUnit), cut : BOOLEAN]

Told(o) ==
    LET body == BodyOf(o.id, conv[o.id]) IN
    /\ o.id \in 1..N
    /\ o.cut <=> o.body # body
    /\ \A j \in DOMAIN o.body : o.body[j] \in ToSet(body)
    /\ \A j, k \in DOMAIN o.body : j < k => o.body[j].v < o.body[k].v

Total(m) == IF Framed(conv[m]) THEN Upto(m, Len(conv[m].chunks)) ELSE BLen(conv[m])

LEMMA TotalFacts ==
    ASSUME Sent, NEW m \in 1..N PROVE Total(m) \in Nat /\ IsData(BodyOf(m, conv[m]), m, 0, Total(m))
  <1> DEFINE msg == conv[m]
             L == Len(msg.chunks)
  <1>1. msg \in Message /\ WellFormed(msg) /\ m \in Nat
    BY SentFacts
  <1>2. msg.chunks \in Seq(Nat) /\ L \in Nat /\ BLen(msg) \in Nat
        /\ msg.coding \in {"bare", "length", "chunked"}
    BY <1>1, MessageTypes
  <1>3. Sum1(msg.chunks, L) \in Nat
    BY <1>2, SumNat
  <1>4. IsData(Data(m, 0, Sum1(msg.chunks, L)), m, 0, Sum1(msg.chunks, L)) /\ IsData(<<>>, m, 0, 0)
    <2>1. IsData(Data(m, 0, Sum1(msg.chunks, L)), m, 0, Sum1(msg.chunks, L))
      BY <1>1, <1>3, DataFacts
    <2>2. IsData(<<>>, m, 0, 0)
      BY DEF IsData
    <2> QED
      BY <2>1, <2>2
  <1>5. CASE msg.line = "nobody"
    BY <1>4, <1>5 DEF Total, Framed, BLen, BodyOf
  <1>6. CASE msg.line # "nobody" /\ msg.coding = "chunked"
    BY <1>3, <1>4, <1>6 DEF Total, Framed, BodyOf, Upto
  <1>7. CASE msg.line # "nobody" /\ msg.coding = "length"
    BY <1>1, <1>2, <1>7, BodyFacts DEF Total, Framed
  <1>8. CASE msg.line # "nobody" /\ msg.coding = "bare"
    <2>1. L = 0
      BY <1>1, <1>8 DEF WellFormed
    <2>2. Sum1(msg.chunks, L) = 0
      BY <2>1, SumStep
    <2> QED
      BY <1>4, <1>8, <2>2 DEF Total, Framed, BLen, BodyOf
  <1> QED
    BY <1>2, <1>5, <1>6, <1>7, <1>8

(* A message that is emitted with its body complete tells the truth.        *)
LEMMA ToldFacts ==
    ASSUME Sent, NEW t \in Stream, NEW m \in 1..N, Kept(t, m, Total(m)), NEW msg,
           msg.id = m, msg.ts \in Nat
    PROVE  /\ Told(takeBody(t, msg)) /\ takeBody(t, msg) \in Emitted
           /\ takeBody(t, msg).id = m /\ takeBody(t, msg).ts = msg.ts
  <1> DEFINE o == takeBody(t, msg)
             d == Total(m)
             body == BodyOf(m, conv[m])
             b == t.bodyBuf
  <1>1. d \in Nat /\ IsData(body, m, 0, d) /\ m \in Nat
    BY TotalFacts, SentFacts
  <1>2. /\ t.bodyTruncated => Len(b) < d
        /\ ~t.bodyTruncated => /\ Len(b) = d
                               /\ \A j \in 1..d : b[j] = Unit("data", 100 * m + j)
        /\ \A j \in 1..Len(b) : \E v \in 1..d : b[j] = Unit("data", 100 * m + v)
        /\ \A j, k \in 1..Len(b) : j < k => b[j].v < b[k].v
    BY DEF Kept
  <1>3. b \in Seq(AnyUnit) /\ t.bodyTruncated \in BOOLEAN
    BY DEF Stream
  <1>4. o.id = m /\ o.ts = msg.ts /\ o.body = b /\ o.cut = t.bodyTruncated
    BY DEF takeBody
  <1>5. o \in Emitted
    BY <1>1, <1>3 DEF takeBody, Emitted
  <1> HIDE DEF d, body, b, o
  <1>6. /\ body \in Seq(AnyUnit) /\ Len(body) = d
        /\ \A j \in 1..d : body[j] = Unit("data", 100 * m + j)
    BY <1>1 DEF IsData
  <1>7. t.bodyTruncated <=> b # body
    <2>1. ASSUME ~t.bodyTruncated PROVE b = body
      <3>1. Len(b) = Len(body) /\ \A j \in 1..Len(b) : b[j] = body[j]
        BY <1>2, <1>6, <2>1
      <3> QED
        BY <1>3, <1>6, <3>1, SeqEqual
    <2>2. ASSUME t.bodyTruncated PROVE b # body
      <3>1. Len(b) < d /\ Len(b) \in Nat
        BY <1>2, <1>3, <2>2
      <3> QED
        BY <1>1, <1>6, <3>1
    <2> QED
      BY <2>1, <2>2
  <1>8. ASSUME NEW j \in 1..Len(b) PROVE b[j] \in ToSet(body)
    <2>1. PICK v \in 1..d : b[j] = Unit("data", 100 * m + v)
      BY <1>2
    <2>2. v \in DOMAIN body /\ body[v] = b[j]
      BY <1>6, <2>1
    <2> QED
      BY <2>2 DEF ToSet
  <1>9. DOMAIN b = 1..Len(b)
    BY <1>3
  <1>10. Told(o)
    BY <1>2, <1>4, <1>7, <1>8, <1>9 DEF Told, body
  <1> QED
    BY <1>4, <1>5, <1>10 DEF o

-----------------------------------------------------------------------------
(* Where the stream is on the wire.  While an event is handled, x says      *)
(* where the event begins (p) and ends (e), where its sample ends (q),      *)
(* whether no start line or header was lost so far (al) and no CRLF was     *)
(* split either, so that no message is missing (full), and when the first   *)
(* unit of each message came (b).                                           *)

Context == [p : Nat, q : Nat, e : Nat, al : BOOLEAN, full : BOOLEAN, b : [1..N -> Nat]]

(* The sample lacks only what the scenario lets it lack.                    *)
Lacks(q, e) ==
    q < e /\ loss # "any" => \A j \in q + 1..e : Opaque(j)

Ctx(x) ==
    /\ x \in Context
    /\ x.q <= x.e /\ x.e <= Len(wire)
    /\ \A m \in 1..N : Base(m) < x.e => x.b[m] # 0 /\ (x.p <= Base(m) => x.b[m] = x.p + 1)
    /\ loss # "any" => x.al
    /\ x.full => x.al
    /\ Lacks(x.q, x.e)
    /\ loss # "any" /\ x.q < x.e /\ wire[x.e].k = "cr" => ~x.full

(* c units of the wire are consumed.  m is the message the stream is at, i  *)
(* the chunk.                                                               *)
InLine(t, c, m, x) ==
    /\ t.bodyBuf = <<>> /\ ~t.bodyTruncated
    /\ x.al => m \in 1..N + 1 /\ c = Base(m)

InHeaders(t, c, m) ==
    /\ t.bodyBuf = <<>> /\ ~t.bodyTruncated
    /\ m \in 1..N /\ c = Base(m) + 3 /\ t.line = Unit(conv[m].line, m)

InBody(t, c, m, x) ==
    /\ m \in 1..N /\ ~Framed(conv[m]) /\ t.pendingMsg.id = m
    /\ c = x.e /\ t.buf = <<>> /\ BodyAt(m) <= c
    /\ t.bodyRemaining # 0 /\ c + t.bodyRemaining = ends[m]
    /\ Kept(t, m, c - BodyAt(m))

InChunks(t, m) == m \in 1..N /\ Framed(conv[m]) /\ t.pendingMsg.id = m

InSize(t, c, m, i) ==
    /\ InChunks(t, m) /\ i \in 1..Len(conv[m].chunks) + 1
    /\ c = CS(m, i) /\ Kept(t, m, Upto(m, i - 1))

InData(t, c, m, i, x) ==
    /\ InChunks(t, m) /\ i \in 1..Len(conv[m].chunks)
    /\ c = x.e /\ t.buf = <<>> /\ CS(m, i) + 3 <= c
    /\ t.chunkRemaining # 0 /\ c + t.chunkRemaining = CS(m, i) + 3 + conv[m].chunks[i]
    /\ Kept(t, m, Upto(m, i - 1) + (c - (CS(m, i) + 3)))

InCrlf(t, c, m, i) ==
    /\ InChunks(t, m) /\ i \in 1..Len(conv[m].chunks)
    /\ c = CS(m, i) + 3 + conv[m].chunks[i] /\ Kept(t, m, Upto(m, i))

InTrailer(t, c, m) ==
    /\ InChunks(t, m) /\ c = CS(m, Len(conv[m].chunks) + 1) + 3 /\ Kept(t, m, Total(m))

InState(t, c, m, i, x) ==
    /\ t.state = "startLine" => InLine(t, c, m, x)
    /\ t.state = "headers" => InHeaders(t, c, m)
    /\ t.state = "body" => InBody(t, c, m, x)
    /\ t.state = "chunkSize" => InSize(t, c, m, i)
    /\ t.state = "chunkData" => InData(t, c, m, i, x)
    /\ t.state = "chunkCRLF" => InCrlf(t, c, m, i)
    /\ t.state = "trailer" => InTrailer(t, c, m)

(* The timestamp the message will carry.                                    *)
Stamp(t, c, m, x) ==
    /\ t.state = "startLine" => /\ c = x.e => t.startTs = 0
                                /\ c < x.q => t.startTs = x.b[m]
    /\ t.state = "headers" => t.startTs = x.b[m]
    /\ t.state \notin {"startLine", "headers"} => t.pendingMsg.ts = x.b[m]

(* The messages emitted so far.                                             *)
Good(o, m, x) ==
    /\ o \in Seq(Emitted)
    /\ \A k \in 1..Len(o) : Told(o[k])
    /\ x.full => Len(o) = m - 1 /\ \A k \in 1..Len(o) : o[k].id = k /\ o[k].ts = x.b[k]

(* The first message that was not complete before the event.                *)
Later(m, x) == x.al /\ m \in 1..N => x.p < ends[m]

At(t, o, c, m, i, x) ==
    /\ t \in Stream /\ ~t.abandoned
    /\ c \in 0..x.e /\ t.wireBytes = t.consumed + (x.e - c)
    /\ Window(t.buf, c, x.q)
    /\ InState(t, c, m, i, x)
    /\ x.al => Stamp(t, c, m, x)
    /\ Good(o, m, x)
    /\ Later(m, x)

(* The event ends within the CRLF of a chunk, which its sample lacks.       *)
Stuck(t, c, x) ==
    /\ t.state = "chunkCRLF" /\ t.buf = <<>>
    /\ c + 1 = x.e /\ ~x.full

(* Nothing more can be done with what there is.                             *)
Still(t, c, m, x) ==
    /\ x.al => Len(t.buf) <= 4
    /\ x.al /\ m \in 1..N => c < ends[m] /\ x.q < ends[m]
    /\ t.state \notin {"startLine", "headers"} \/ loss # "any"
          => Window(t.buf, c, x.e) \/ Stuck(t, c, x)

Size(t) == Len(t.buf) + IF t.state = "chunkCRLF" THEN 1 ELSE 0

Outcome(r, t, o, x) ==
    \E c, m, i \in Nat : /\ At(r.s, o \o r.out, c, m, i, x)
                         /\ r.more => Size(r.s) < Size(t)
                         /\ ~r.more => Still(r.s, c, m, x)

LEMMA UnconsumedFacts ==
    ASSUME NEW t, NEW n \in Nat, t.consumed \in Nat, t.wireBytes = t.consumed + n
    PROVE  Unconsumed(t) = n
  BY DEF Unconsumed, Monus

(* What is not opaque is in the sample.                                     *)
LEMMA Visible ==
    ASSUME NEW x, Ctx(x), loss # "any", NEW j \in Nat, j <= x.e, ~Opaque(j)
    PROVE  j <= x.q
  BY DEF Ctx, Context, Lacks

(* The last unit of an event is in the sample, or opaque.                   *)
LEMMA VisibleLast ==
    ASSUME NEW x, Ctx(x), loss # "any", x.e >= 1, ~Opaque(x.e)
    PROVE  x.q = x.e
  <1>1. x.q \in Nat /\ x.e \in Nat /\ x.q <= x.e
    BY DEF Ctx, Context
  <1>2. SUFFICES ASSUME x.q < x.e PROVE FALSE
    BY <1>1
  <1>3. \A j \in x.q + 1..x.e : Opaque(j)
    BY <1>2 DEF Ctx, Lacks
  <1>4. x.e \in x.q + 1..x.e
    BY <1>1, <1>2
  <1> QED
    BY <1>3, <1>4

(* Lines and blocks are not opaque.                                         *)
LEMMA LineVisible ==
    ASSUME NEW c \in Nat, NEW u, LineAt(c, u), u.k \notin {"data", "cr", "lf"}
    PROVE  ~Opaque(c + 1) /\ ~Opaque(c + 2) /\ ~Opaque(c + 3)
  <1>1. wire[c + 1] = u /\ wire[c + 2].k = "cr" /\ wire[c + 3].k = "lf"
    BY UnitFacts DEF LineAt
  <1>2. (c + 2) - 1 = c + 1 /\ (c + 3) - 2 = c + 1
    OBVIOUS
  <1> QED
    BY <1>1, <1>2 DEF Opaque

(* A block after a line.                                                    *)
LEMMA BlockVisible ==
    ASSUME NEW c \in Nat, NEW len, NEW u, BlockAt(c, len, u), u.k \notin {"data", "cr", "lf"},
           wire[c].k # "data", wire[c - 1].k # "data"
    PROVE  \A j \in 1..len : ~Opaque(c + j)
  <1>1. CR.k = "cr" /\ LF.k = "lf"
    BY UnitFacts
  <1>2. /\ (c + 1) - 1 = c /\ (c + 2) - 2 = c /\ (c + 3) - 2 = c + 1 /\ (c + 2) - 1 = c + 1
        /\ (c + 4) - 1 = c + 3 /\ (c + 5) - 2 = c + 3 /\ (c + 1) - 2 = c - 1
    OBVIOUS
  <1>3. CASE len = 2 /\ wire[c + 1] = CR /\ wire[c + 2] = LF
    <2>1. ~Opaque(c + 1) /\ ~Opaque(c + 2)
      BY <1>1, <1>2, <1>3 DEF Opaque
    <2> QED
      BY <1>3, <2>1
  <1>4. CASE len = 5 /\ LineAt(c, u) /\ wire[c + 4] = CR /\ wire[c + 5] = LF
    <2>1. ~Opaque(c + 1) /\ ~Opaque(c + 2) /\ ~Opaque(c + 3)
      BY <1>4, LineVisible
    <2>2. ~Opaque(c + 4) /\ ~Opaque(c + 5)
      BY <1>1, <1>2, <1>4 DEF Opaque, LineAt
    <2> QED
      BY <1>4, <2>1, <2>2
  <1> QED
    BY <1>3, <1>4 DEF BlockAt

-----------------------------------------------------------------------------
(* The iterations of advance.                                               *)

(* An iteration ends where the stream is placed again.                      *)
LEMMA OutcomeOf ==
    ASSUME NEW t, NEW t2, NEW o, NEW x, NEW c \in Nat, NEW m \in Nat, NEW i \in Nat,
           At(t2, o, c, m, i, x)
    PROVE  /\ Still(t2, c, m, x) => Outcome(Return(t2), t, o, x)
           /\ Size(t2) < Size(t) => Outcome(Continue(t2), t, o, x)
  <1>1. o \o <<>> = o
    <2>1. o \in Seq(Emitted)
      BY DEF At, Good
    <2> QED
      BY <2>1
  <1>2. Return(t2).s = t2 /\ Return(t2).out = <<>> /\ ~Return(t2).more
    BY DEF Return
  <1>3. Continue(t2).s = t2 /\ Continue(t2).out = <<>> /\ Continue(t2).more
    BY DEF Continue
  <1>4. ASSUME Still(t2, c, m, x) PROVE Outcome(Return(t2), t, o, x)
    BY <1>1, <1>2, <1>4 DEF Outcome
  <1>5. ASSUME Size(t2) < Size(t) PROVE Outcome(Continue(t2), t, o, x)
    BY <1>1, <1>3, <1>5 DEF Outcome
  <1> QED
    BY <1>4, <1>5

(* The context and the place, in numbers.                                   *)
LEMMA PlaceFacts ==
    ASSUME Sent, NEW t, NEW o, NEW x, NEW c, NEW m, NEW i, Ctx(x), At(t, o, c, m, i, x)
    PROVE  /\ c \in Nat /\ x.q \in Nat /\ x.e \in Nat /\ x.p \in Nat /\ x.al \in BOOLEAN
           /\ c <= x.e /\ x.q <= x.e /\ x.e <= Len(wire) /\ Len(wire) \in Nat
           /\ N \in Nat
           /\ t \in Stream /\ t.consumed \in Nat /\ Unconsumed(t) = x.e - c
           /\ t.buf \in Seq(AnyUnit) /\ Len(t.buf) \in Nat
  <1>1. c \in 0..x.e /\ x.e \in Nat /\ t.consumed \in Nat /\ t.wireBytes = t.consumed + (x.e - c)
    BY DEF At, Ctx, Context, Stream
  <1>2. x.e - c \in Nat
    BY <1>1
  <1>3. Unconsumed(t) = x.e - c
    BY <1>1, <1>2, UnconsumedFacts
  <1> QED
    BY <1>1, <1>3, SentFacts DEF At, Ctx, Context, Stream

(* A sample that is complete, or an event that ends here.                   *)
LEMMA WindowToEnd ==
    ASSUME NEW c \in Nat, NEW q \in Nat, NEW e \in Nat, NEW b, Window(b, c, q),
           q = e \/ (q <= e /\ c = e)
    PROVE  Window(b, c, e)
  <1>1. CASE q = e
    BY <1>1
  <1>2. CASE q <= e /\ c = e
    <2>1. b = <<>>
      BY <1>2, WindowLen
    <2> QED
      BY <1>2, <2>1, WindowEmpty
  <1> QED
    BY <1>1, <1>2

(* A line that is not all there when the sample lacks bodies only.          *)
LEMMA LineAwaited ==
    ASSUME NEW x, Ctx(x), loss # "any", NEW c \in Nat, c <= x.e, x.q < c + 3, NEW u, LineAt(c, u),
           u.k \notin {"data", "cr", "lf"}, NEW b, Window(b, c, x.q)
    PROVE  Window(b, c, x.e) /\ x.e < c + 3
  <1>1. x.q \in Nat /\ x.e \in Nat /\ x.q <= x.e
    BY DEF Ctx, Context
  <1>2. ~Opaque(c + 1) /\ ~Opaque(c + 2) /\ ~Opaque(c + 3)
    BY LineVisible
  <1>3. x.e < c + 3
    <2>1. SUFFICES ASSUME c + 3 <= x.e PROVE FALSE
      BY <1>1
    <2>2. c + 3 <= x.q
      BY <1>2, <2>1, Visible
    <2> QED
      BY <1>1, <2>2
  <1>4. x.q = x.e \/ (x.q <= x.e /\ c = x.e)
    <2>1. CASE x.e = c
      BY <1>1, <2>1
    <2>2. CASE x.e = c + 1 \/ x.e = c + 2
      BY <1>1, <1>2, <2>2, VisibleLast
    <2> QED
      BY <1>1, <1>3, <2>1, <2>2
  <1>5. Window(b, c, x.e)
    BY <1>1, <1>4, WindowToEnd
  <1> QED
    BY <1>3, <1>5

(* Where messages and their framing units are, in the shape needed here.    *)
LEMMA MessageLine ==
    ASSUME Sent, NEW m \in 1..N
    PROVE  LET u == Unit(conv[m].line, m) IN
           /\ LineAt(Base(m), u) /\ u \in AnyUnit /\ u # CR /\ u.k = conv[m].line /\ u.v = m
           /\ conv[m].line \in LineKinds /\ u.k \notin {"data", "cr", "lf"}
           /\ Base(m) \in Nat /\ Base(m) + 5 <= ends[m] /\ ends[m] \in Nat /\ m \in Nat
           /\ ends[m] = Base(m + 1) /\ m + 1 \in 1..N + 1 /\ m + 1 \in Nat
  <1>1. conv[m].line \in LineKinds /\ m \in Nat
    BY SentFacts, MessageTypes DEF LineKinds
  <1>2. LineAt(Base(m), Unit(conv[m].line, m))
    BY LayoutFacts DEF Layout
  <1>3. Base(m) \in Nat /\ Base(m) + 5 <= ends[m] /\ ends[m] \in Nat /\ ends[m] = Base(m + 1)
    BY BaseStep
  <1>4. m + 1 \in 1..N + 1 /\ m + 1 \in Nat
    BY SentFacts
  <1>5. Unit(conv[m].line, m) \in AnyUnit /\ Unit(conv[m].line, m).k = conv[m].line
        /\ Unit(conv[m].line, m).v = m
    BY <1>1, UnitFacts DEF LineKinds, Kinds
  <1>6. CR.k = "cr"
    BY UnitFacts
  <1> QED
    BY <1>1, <1>2, <1>3, <1>4, <1>5, <1>6 DEF LineKinds

(* The stream aligned, at the beginning of a message.                       *)
LEMMA StartLineAligned ==
    ASSUME Sent, NEW t, NEW o, NEW x, NEW c \in Nat, NEW m \in Nat, NEW i \in Nat,
           Ctx(x), At(t, o, c, m, i, x), t.state = "startLine", x.al
    PROVE  /\ x.q >= c + 3 => /\ m \in 1..N /\ Index(t.buf, CRLF) = 2
                              /\ t.buf[1] = Unit(conv[m].line, m)
           /\ x.q < c + 3 => Index(t.buf, CRLF) = 0 /\ Still(t, c, m, x)
  <1>1. /\ c \in Nat /\ x.q \in Nat /\ x.e \in Nat /\ c <= x.e /\ x.q <= x.e /\ x.e <= Len(wire)
        /\ N \in Nat /\ Len(t.buf) \in Nat /\ t.buf \in Seq(AnyUnit) /\ Len(wire) \in Nat
    BY PlaceFacts
  <1>2. m \in 1..N + 1 /\ c = Base(m) /\ Window(t.buf, c, x.q)
    BY DEF At, InState, InLine
  <1>3. CASE m = N + 1
    <2>1. c = Len(wire)
      BY <1>2, <1>3, SentFacts
    <2>2. x.q <= c /\ c = x.e
      BY <1>1, <2>1
    <2>3. t.buf = <<>> /\ Len(t.buf) = 0
      BY <1>1, <1>2, <2>2, WindowLen
    <2>4. Window(t.buf, c, x.e)
      BY <1>1, <1>2, <2>2, WindowToEnd
    <2>5. m \notin 1..N
      BY <1>1, <1>3
    <2>6. Still(t, c, m, x)
      BY <2>3, <2>4, <2>5 DEF Still
    <2>7. Index(t.buf, CRLF) = 0
      <3>1. Index(t.buf, CRLF) \in Nat /\ (Index(t.buf, CRLF) # 0 => CrlfAt(t.buf, Index(t.buf, CRLF)))
        BY <1>1, IndexFacts
      <3> QED
        BY <2>3, <3>1 DEF CrlfAt
    <2> QED
      BY <1>1, <2>2, <2>6, <2>7
  <1>4. CASE m \in 1..N
    <2> DEFINE u == Unit(conv[m].line, m)
    <2>1. /\ LineAt(c, u) /\ u # CR /\ u.k \notin {"data", "cr", "lf"}
          /\ c + 5 <= ends[m] /\ ends[m] \in Nat
      BY <1>2, <1>4, MessageLine
    <2> HIDE DEF u
    <2>2. /\ x.q >= c + 3 => Index(t.buf, CRLF) = 2 /\ t.buf[1] = u
          /\ x.q < c + 3 => Index(t.buf, CRLF) = 0
      BY SMTT(30), <1>1, <1>2, <2>1, LineIndex
    <2>3. ASSUME x.q < c + 3 PROVE Still(t, c, m, x)
      <3>1. Len(t.buf) <= 2
        <4>1. CASE x.q >= c
          <5>1. Len(t.buf) = x.q - c
            BY <1>1, <1>2, <4>1, WindowLen
          <5> QED
            BY <1>1, <2>3, <4>1, <5>1
        <4>2. CASE x.q < c
          <5>1. Len(t.buf) = 0
            BY <1>1, <1>2, <4>2, WindowLen
          <5> QED
            BY <5>1
        <4> QED
          BY <1>1, <4>1, <4>2
      <3>2. c < ends[m] /\ x.q < ends[m]
        BY <1>1, <2>1, <2>3
      <3>3. ASSUME loss # "any" PROVE Window(t.buf, c, x.e)
        BY <1>1, <1>2, <2>1, <2>3, <3>3, LineAwaited
      <3>4. Len(t.buf) <= 4
        BY <1>1, <3>1
      <3> QED
        BY <3>2, <3>3, <3>4 DEF Still
    <2> QED
      BY <1>4, <2>2, <2>3 DEF u
  <1>5. m = N + 1 \/ m \in 1..N
    BY <1>1, <1>2
  <1> QED
    BY <1>3, <1>4, <1>5

(* In the state startLine.                                                  *)
LEMMA StartLineStep ==
    ASSUME Sent, NEW t, NEW o, NEW x, NEW c \in Nat, NEW m \in Nat, NEW i \in Nat,
           Ctx(x), At(t, o, c, m, i, x), t.state = "startLine"
    PROVE  Outcome(StartLine(t), t, o, x)
  <1> DEFINE idx == Index(t.buf, CRLF)
             rest == [t EXCEPT !.buf = Drop(@, idx + 1), !.consumed = @ + idx + 1]
             begun == [rest EXCEPT !.line = t.buf[1], !.state = "headers"]
             c2 == c + (idx + 1)
  <1>1. /\ c \in Nat /\ x.q \in Nat /\ x.e \in Nat /\ c <= x.e /\ x.q <= x.e /\ x.e <= Len(wire)
        /\ N \in Nat /\ Len(t.buf) \in Nat /\ t.buf \in Seq(AnyUnit) /\ Len(wire) \in Nat /\ t \in Stream
        /\ x.al \in BOOLEAN
    BY PlaceFacts
  <1>2. /\ Window(t.buf, c, x.q) /\ ~t.abandoned /\ t.wireBytes = t.consumed + (x.e - c)
        /\ t.bodyBuf = <<>> /\ ~t.bodyTruncated
        /\ x.al => Stamp(t, c, m, x)
        /\ Good(o, m, x) /\ Later(m, x)
    BY DEF At, InState, InLine
  <1>3. idx \in Nat /\ (idx # 0 => CrlfAt(t.buf, idx))
    BY <1>1, IndexFacts
  <1>4. x.al => /\ x.q >= c + 3 => /\ m \in 1..N /\ idx = 2 /\ t.buf[1] = Unit(conv[m].line, m)
                /\ x.q < c + 3 => idx = 0 /\ Still(t, c, m, x)
    BY StartLineAligned
  <1>5. ~x.al => loss = "any"
    BY DEF Ctx
  <1>6. StartLine(t) = IF idx = 0 THEN Return(t)
                       ELSE IF idx = 2 /\ t.buf[1].k \in {"request", "status", "nobody"}
                       THEN Continue(begun) ELSE Return(rest)
    BY DEF StartLine
  <1> HIDE DEF idx
  <1>7. CASE idx = 0
    <2>1. Still(t, c, m, x)
      <3>1. CASE x.al
        BY <1>1, <1>4, <1>7, <3>1
      <3>2. CASE ~x.al
        BY <1>5, <1>7, <3>2, <1>2 DEF Still
      <3> QED
        BY <1>1, <3>1, <3>2
    <2> QED
      BY <1>6, <1>7, <2>1, OutcomeOf
  <1>8. CASE idx # 0
    <2>1. idx + 1 <= Len(t.buf) /\ idx + 1 \in Nat /\ idx >= 1
      BY <1>3, <1>8 DEF CrlfAt
    <2>2. x.q >= c2 /\ Len(t.buf) = x.q - c
      <3>1. x.q > c
        <4>1. SUFFICES ASSUME x.q <= c PROVE FALSE
          BY <1>1
        <4>2. Len(t.buf) = 0
          BY <1>1, <1>2, <4>1, WindowLen
        <4> QED
          BY <1>3, <2>1, <4>2
      <3>2. x.q >= c
        BY <1>1, <3>1
      <3>3. Len(t.buf) = x.q - c
        BY <1>1, <1>2, <3>2, WindowLen
      <3> QED
        BY <1>1, <1>3, <2>1, <3>3
    <2>3. Window(Drop(t.buf, idx + 1), c2, x.q)
      BY <1>1, <1>2, <2>1, WindowDrop
    <2>4. Drop(t.buf, idx + 1) \in Seq(AnyUnit) /\ Len(Drop(t.buf, idx + 1)) = Len(t.buf) - (idx + 1)
      <3>1. IsDrop(Drop(t.buf, idx + 1), t.buf, idx + 1)
        BY <1>1, <2>1, DropFacts
      <3> QED
        BY <3>1 DEF IsDrop
    <2>5. /\ rest \in Stream /\ rest.buf = Drop(t.buf, idx + 1) /\ rest.consumed = t.consumed + idx + 1
          /\ rest.state = t.state /\ rest.abandoned = t.abandoned /\ rest.bodyBuf = t.bodyBuf
          /\ rest.bodyTruncated = t.bodyTruncated /\ rest.wireBytes = t.wireBytes
          /\ rest.startTs = t.startTs
      <3> DEFINE d == Drop(t.buf, idx + 1)
                 k == t.consumed + idx + 1
      <3>1. d \in Seq(AnyUnit) /\ k \in Nat
        BY SMTT(30), <1>1, <1>3, <2>4 DEF Stream
      <3>2. rest = [t EXCEPT !.buf = d, !.consumed = k]
        BY <1>1 DEF Stream
      <3> HIDE DEF d, k, rest
      <3>3. /\ rest \in Stream /\ rest.buf = d /\ rest.consumed = k
            /\ rest.state = t.state /\ rest.abandoned = t.abandoned /\ rest.bodyBuf = t.bodyBuf
            /\ rest.bodyTruncated = t.bodyTruncated /\ rest.wireBytes = t.wireBytes
            /\ rest.startTs = t.startTs
        BY <1>1, <3>1, <3>2 DEF Stream
      <3> QED
        BY <3>3 DEF d, k
    <2>6. c2 \in 0..x.e /\ c2 \in Nat /\ rest.wireBytes = rest.consumed + (x.e - c2)
      <3>1. t.consumed \in Nat
        BY <1>1 DEF Stream
      <3>2. t.wireBytes = t.consumed + (x.e - c) /\ rest.wireBytes = t.wireBytes
            /\ rest.consumed = t.consumed + idx + 1
        BY <1>2, <2>5
      <3> HIDE DEF rest
      <3>3. rest.wireBytes = rest.consumed + (x.e - c2)
        BY <1>1, <1>3, <3>1, <3>2
      <3> QED
        BY <1>1, <1>3, <2>2, <3>3
    <2> HIDE DEF rest
    <2>7. CASE idx = 2 /\ t.buf[1].k \in LineKinds
      <3>1. c2 = c + 3 /\ 1 \in 1..Len(t.buf)
        BY <1>1, <2>1, <2>7
      <3>2. t.buf[1] = wire[c + 1] /\ t.buf[1] \in AnyUnit
        BY <1>1, <1>2, <3>1 DEF Window
      <3>3. PICK m2 \in 1..N : /\ c = Base(m2) /\ t.buf[1] = Unit(conv[m2].line, m2)
                               /\ x.al => m2 = m
        <4>1. CASE x.al
          <5>1. m \in 1..N /\ t.buf[1] = Unit(conv[m].line, m)
            BY <1>1, <1>4, <2>2, <3>1, <4>1
          <5>2. c = Base(m)
            BY <2>7, <4>1, t.state = "startLine" DEF At, InState, InLine
          <5> QED
            BY <5>1, <5>2
        <4>2. CASE ~x.al
          <5>1. c + 1 \in 1..Len(wire) /\ wire[c + 1].k \in LineKinds
            BY <1>1, <2>2, <2>7, <3>1, <3>2
          <5>2. PICK m2 \in 1..N : c + 1 = Base(m2) + 1
            BY <1>5, <4>2, <5>1, LinesBegin
          <5>3. c = Base(m2) /\ wire[Base(m2) + 1] = Unit(conv[m2].line, m2)
            BY SMTT(30), <1>1, <5>2, MessageLine DEF LineAt
          <5> QED
            BY <3>2, <4>2, <5>2, <5>3
        <4> QED
          BY <1>1, <4>1, <4>2
      <3>4. m2 \in Nat
        BY <1>1
      <3>5. /\ begun \in Stream /\ begun.buf = rest.buf /\ begun.consumed = rest.consumed
            /\ begun.state = "headers" /\ begun.abandoned = rest.abandoned /\ begun.bodyBuf = rest.bodyBuf
            /\ begun.bodyTruncated = rest.bodyTruncated /\ begun.wireBytes = rest.wireBytes
            /\ begun.startTs = rest.startTs /\ begun.line = t.buf[1]
        BY <2>5, <3>2 DEF Stream, States
      <3> HIDE DEF begun
      <3>6. InState(begun, c2, m2, i, x)
        BY <1>2, <2>5, <3>1, <3>3, <3>5 DEF InState, InHeaders
      <3>7. x.al => Stamp(begun, c2, m2, x)
        <4>1. ASSUME x.al PROVE t.startTs = x.b[m]
          <5>1. c < x.q
            BY <1>1, <2>2, <3>1
          <5> QED
            BY <1>2, <4>1, <5>1, t.state = "startLine" DEF Stamp
        <4> QED
          BY <2>5, <3>3, <3>5, <4>1 DEF Stamp
      <3>8. Good(o, m2, x) /\ Later(m2, x)
        BY <1>2, <3>3 DEF Good, Later, Ctx
      <3>9. At(begun, o, c2, m2, i, x)
        BY <1>2, <2>3, <2>5, <2>6, <3>5, <3>6, <3>7, <3>8 DEF At
      <3>10. Size(begun) < Size(t)
        <4>1. Size(begun) = Len(t.buf) - 3 /\ Size(t) = Len(t.buf)
          BY <1>1, <2>4, <2>5, <2>7, <3>5, t.state = "startLine" DEF Size
        <4> QED
          BY <1>1, <4>1
      <3>11. Outcome(Continue(begun), t, o, x)
        BY <2>6, <3>4, <3>9, <3>10, OutcomeOf
      <3> QED
        BY <1>6, <1>8, <2>7, <3>11 DEF LineKinds
    <2>8. CASE ~(idx = 2 /\ t.buf[1].k \in LineKinds)
      <3>1. ~x.al
        <4>1. SUFFICES ASSUME x.al PROVE FALSE
          OBVIOUS
        <4>2. m \in 1..N /\ idx = 2 /\ t.buf[1] = Unit(conv[m].line, m)
          BY <1>1, <1>4, <1>8, <4>1
        <4>3. t.buf[1].k \in LineKinds
          BY <4>2, MessageLine
        <4> QED
          BY <2>8, <4>2, <4>3
      <3>2. InState(rest, c2, m, i, x)
        BY <1>2, <2>5, <3>1, t.state = "startLine" DEF InState, InLine
      <3>3. At(rest, o, c2, m, i, x)
        BY <1>2, <2>3, <2>5, <2>6, <3>1, <3>2 DEF At
      <3>4. Still(rest, c2, m, x)
        BY <1>5, <2>5, <3>1, t.state = "startLine" DEF Still
      <3>5. Outcome(Return(rest), t, o, x)
        BY <2>6, <3>3, <3>4, OutcomeOf
      <3> QED
        BY <1>6, <1>8, <2>8, <3>5 DEF LineKinds
    <2> QED
      BY <2>7, <2>8
  <1> QED
    BY <1>7, <1>8

(* r is t but for the buffer and what is consumed.                          *)
Same(r, t) ==
    /\ r \in Stream
    /\ r.state = t.state /\ r.abandoned = t.abandoned /\ r.line = t.line
    /\ r.chunkRemaining = t.chunkRemaining /\ r.bodyRemaining = t.bodyRemaining
    /\ r.bodyBuf = t.bodyBuf /\ r.bodyTruncated = t.bodyTruncated
    /\ r.pendingMsg = t.pendingMsg /\ r.wireBytes = t.wireBytes /\ r.startTs = t.startTs

(* n units of the buffer are consumed.                                      *)
Eats(r, t, n, c, q, e) ==
    /\ Same(r, t) /\ Window(r.buf, c + n, q) /\ c + n \in 0..e /\ c + n <= q
    /\ r.consumed = t.consumed + n /\ r.wireBytes = r.consumed + (e - (c + n))
    /\ Unconsumed(r) = e - (c + n)
    /\ Len(r.buf) = Len(t.buf) - n /\ Len(t.buf) = q - c

LEMMA ConsumeFacts ==
    ASSUME NEW t \in Stream, NEW n \in Nat, n <= Len(t.buf), NEW k \in Nat, k = t.consumed + n,
           NEW c \in Nat, NEW q \in Nat, NEW e \in Nat, q <= e, c <= e, Window(t.buf, c, q), n > 0,
           t.wireBytes = t.consumed + (e - c),
           NEW r, r = [t EXCEPT !.buf = Drop(@, n), !.consumed = k]
    PROVE  Eats(r, t, n, c, q, e)
  <1> DEFINE d == Drop(t.buf, n)
  <1>1. t.buf \in Seq(AnyUnit) /\ Len(t.buf) \in Nat /\ t.consumed \in Nat
    BY DEF Stream
  <1>2. IsDrop(d, t.buf, n)
    BY <1>1, DropFacts
  <1>3. d \in Seq(AnyUnit) /\ Len(d) = Len(t.buf) - n
    BY <1>2 DEF IsDrop
  <1>4. Window(d, c + n, q)
    BY <1>1, WindowDrop
  <1>0. r = [t EXCEPT !.buf = d, !.consumed = k]
    BY DEF Stream
  <1> HIDE DEF d
  <1>5. Same(r, t) /\ r.buf = d /\ r.consumed = k
    BY <1>0, <1>3 DEF Stream, Same
  <1>6. Len(t.buf) = q - c /\ c + n <= q
    <2>1. q > c
      <3>1. SUFFICES ASSUME q <= c PROVE FALSE
        OBVIOUS
      <3>2. Len(t.buf) = 0
        BY <3>1, WindowLen
      <3> QED
        BY <3>2
    <2>2. q >= c
      BY <2>1
    <2>3. Len(t.buf) = q - c
      BY <2>2, WindowLen
    <2> QED
      BY <2>3
  <1>7. r.wireBytes = r.consumed + (e - (c + n)) /\ e - (c + n) \in Nat /\ r.consumed \in Nat
    <2>1. r.wireBytes = t.wireBytes
      BY <1>5 DEF Same
    <2> QED
      BY SMTT(30), <1>1, <1>5, <1>6, <2>1
  <1>8. Unconsumed(r) = e - (c + n)
    BY <1>7, UnconsumedFacts
  <1> QED
    BY SMTT(30), <1>3, <1>4, <1>5, <1>6, <1>7, <1>8 DEF d, Eats

LEMMA BlockAwaited ==
    ASSUME NEW x, Ctx(x), loss # "any", NEW c \in Nat, c <= x.e, NEW len \in Nat \ {0}, x.q < c + len,
           \A j \in 1..len : ~Opaque(c + j), NEW b, Window(b, c, x.q)
    PROVE  Window(b, c, x.e) /\ x.e < c + len
  <1>1. x.q \in Nat /\ x.e \in Nat /\ x.q <= x.e
    BY DEF Ctx, Context
  <1>2. x.e < c + len
    <2>1. SUFFICES ASSUME c + len <= x.e PROVE FALSE
      BY <1>1
    <2>2. len \in 1..len /\ c + len \in Nat
      OBVIOUS
    <2>3. c + len <= x.q
      BY <2>1, <2>2, Visible
    <2> QED
      BY <1>1, <2>3
  <1>3. x.q = x.e \/ (x.q <= x.e /\ c = x.e)
    <2>1. CASE x.e = c
      BY <1>1, <2>1
    <2>2. CASE x.e # c
      <3>1. x.e - c \in 1..len /\ c + (x.e - c) = x.e /\ x.e >= 1
        BY <1>1, <1>2, <2>2
      <3>2. ~Opaque(x.e)
        BY <3>1
      <3> QED
        BY <1>1, <3>1, <3>2, VisibleLast
    <2> QED
      BY <2>1, <2>2
  <1>4. Window(b, c, x.e)
    BY <1>1, <1>3, WindowToEnd
  <1> QED
    BY <1>2, <1>4

(* The body of m on the wire, n units of it from d on.                      *)
DataFrom(c, m, d, n) == \A j \in 1..n : wire[c + j] = Unit("data", 100 * m + d + j)

(* What the buffer holds of a body.                                         *)
LEMMA PartInWindow ==
    ASSUME NEW c \in Nat, NEW q \in Nat, NEW b, Window(b, c, q), NEW n \in Nat, NEW m \in Nat,
           NEW d \in Nat, DataFrom(c, m, d, n)
    PROVE  /\ IsPart(Take(b, n), m, d) /\ Len(Take(b, n)) <= n /\ Len(Take(b, n)) \in Nat
           /\ Len(Take(b, n)) <= Monus(q, c)
           /\ q >= c + n => Len(Take(b, n)) = n
  <1>1. b \in Seq(AnyUnit) /\ Len(b) = Monus(q, c) /\ Len(b) \in Nat
    BY DEF Window
  <1> DEFINE p == Take(b, n)
  <1>2. IsTake(p, b, n)
    BY <1>1, TakeFacts
  <1> HIDE DEF p
  <1>3. p \in Seq(AnyUnit) /\ Len(p) = Smaller(n, Len(b)) /\ \A j \in 1..Len(p) : p[j] = b[j]
    BY <1>2 DEF IsTake
  <1>4. Len(p) \in Nat /\ Len(p) <= n /\ Len(p) <= Len(b) /\ (n <= Len(b) => Len(p) = n)
    <2> DEFINE z == Len(p)
               l == Len(b)
    <2>1. z = Smaller(n, l) /\ l \in Nat
      BY <1>1, <1>3
    <2> HIDE DEF z, l
    <2>2. z \in Nat /\ z <= n /\ z <= l /\ (n <= l => z = n)
      BY <2>1 DEF Smaller
    <2> QED
      BY <2>2 DEF z, l
  <1>5. ASSUME NEW j \in 1..Len(p) PROVE p[j] = Unit("data", 100 * m + d + j)
    <2>1. j \in 1..n /\ j \in 1..Len(b)
      BY <1>1, <1>4
    <2> QED
      BY <1>3, <2>1 DEF Window, DataFrom
  <1>6. q >= c + n => n <= Len(b)
    <2>1. SUFFICES ASSUME q >= c + n PROVE n <= Len(b)
      OBVIOUS
    <2>2. q >= c
      BY <2>1
    <2>3. Monus(q, c) = q - c
      BY <2>2, MonusFacts
    <2> QED
      BY <1>1, <2>1, <2>3
  <1>7. IsPart(p, m, d)
    BY <1>3, <1>5 DEF IsPart
  <1> QED
    BY <1>1, <1>4, <1>6, <1>7 DEF p

LEMMA KeptNothing ==
    ASSUME NEW t, t.bodyBuf = <<>>, ~t.bodyTruncated, NEW m \in Nat, MaxBodyBytes \in Nat
    PROVE  Kept(t, m, 0)
  BY DEF Kept

(* One more message is emitted.                                             *)
LEMMA GoodMore ==
    ASSUME NEW o, NEW m \in Nat, NEW x, Good(o, m, x), NEW e \in Emitted, Told(e),
           x.full => e.id = m /\ e.ts = x.b[m]
    PROVE  Good(o \o <<e>>, m + 1, x)
  <1> DEFINE r == o \o <<e>>
             l == Len(o)
  <1>1. o \in Seq(Emitted) /\ l \in Nat /\ <<e>> \in Seq(Emitted) /\ Len(<<e>>) = 1 /\ <<e>>[1] = e
    BY DEF Good
  <1>2. r \in Seq(Emitted) /\ Len(r) = l + 1 /\ (\A k \in 1..l : r[k] = o[k]) /\ r[l + 1] = e
    BY <1>1, ConcatProperties
  <1> HIDE DEF r, l
  <1>3. \A k \in 1..l + 1 : k \in 1..l \/ k = l + 1
    BY <1>1
  <1>4. \A k \in 1..l : Told(o[k])
    BY DEF Good, l
  <1>5. \A k \in 1..l + 1 : Told(r[k])
    BY <1>2, <1>3, <1>4
  <1>6. x.full => l = m - 1 /\ \A k \in 1..l : o[k].id = k /\ o[k].ts = x.b[k]
    BY DEF Good, l
  <1>7. x.full => l + 1 = (m + 1) - 1 /\ \A k \in 1..l + 1 : r[k].id = k /\ r[k].ts = x.b[k]
    BY <1>1, <1>2, <1>3, <1>6
  <1> QED
    BY <1>2, <1>5, <1>7 DEF Good, r

(* The header block of a message.                                           *)
LEMMA HeaderPlace ==
    ASSUME Sent, NEW m \in 1..N
    PROVE  LET c == Base(m) + 3
               h == HLen(conv[m])
               u == HeaderUnit(conv[m])
           IN  /\ BlockAt(c, h, u) /\ u # CR /\ h \in {2, 5} /\ BodyAt(m) = c + h /\ c \in Nat
               /\ BodyAt(m) \in Nat /\ BodyAt(m) <= ends[m] /\ ends[m] \in Nat /\ ends[m] <= Len(wire)
               /\ \A j \in 1..h : ~Opaque(c + j)
               /\ BLen(conv[m]) \in Nat
               /\ ~Framed(conv[m]) => ends[m] = BodyAt(m) + BLen(conv[m])
               /\ DataFrom(BodyAt(m), m, 0, BLen(conv[m]))
  <1> DEFINE c == Base(m) + 3
             h == HLen(conv[m])
             u == HeaderUnit(conv[m])
  <1>1. /\ BlockAt(c, h, u) /\ Base(m) \in Nat /\ LineAt(Base(m), Unit(conv[m].line, m))
        /\ BodyAt(m) <= ends[m] /\ ends[m] \in Nat /\ ends[m] <= Len(wire)
        /\ BLen(conv[m]) \in Nat
        /\ ~Framed(conv[m]) => ends[m] = BodyAt(m) + BLen(conv[m])
    BY LayoutFacts DEF Layout
  <1>2. \A j \in 1..BLen(conv[m]) : wire[BodyAt(m) + j] = Unit("data", 100 * m + j)
    BY LayoutFacts DEF Layout
  <1>3. m \in Nat
    BY SentFacts
  <1>4. h \in {2, 5} /\ BodyAt(m) = c + h /\ c \in Nat
    BY <1>1 DEF HLen, BodyAt
  <1>5. u.k \in {"length", "te"} /\ CR.k = "cr" /\ LF.k = "lf"
    BY DEF HeaderUnit, Unit, CR, LF
  <1>6. wire[c] = LF /\ wire[c - 1] = CR
    <2>1. c - 1 = Base(m) + 2
      BY <1>1
    <2> QED
      BY <1>1, <2>1 DEF LineAt
  <1> HIDE DEF c, h, u
  <1>7. \A j \in 1..h : ~Opaque(c + j)
    <2>1. u.k \notin {"data", "cr", "lf"} /\ wire[c].k # "data" /\ wire[c - 1].k # "data"
      BY <1>5, <1>6
    <2>2. BlockAt(c, h, u)
      BY <1>1
    <2> QED
      BY <1>4, <2>1, <2>2, BlockVisible
  <1>8. DataFrom(BodyAt(m), m, 0, BLen(conv[m]))
    BY <1>2, <1>3 DEF DataFrom
  <1>9. u # CR
    BY <1>5
  <1> QED
    BY <1>1, <1>4, <1>7, <1>8, <1>9 DEF c, h, u

(* In the state headers: the block is not all there, or it is consumed.     *)
LEMMA HeadersWait ==
    ASSUME Sent, NEW t, NEW o, NEW x, NEW c \in Nat, NEW m \in Nat, NEW i \in Nat,
           Ctx(x), At(t, o, c, m, i, x), t.state = "headers", x.q < BodyAt(m)
    PROVE  Outcome(Headers(t, x.p + 1), t, o, x)
  <1> DEFINE h == HLen(conv[m])
             u == HeaderUnit(conv[m])
  <1>1. /\ x.q \in Nat /\ x.e \in Nat /\ c <= x.e /\ x.q <= x.e /\ Len(t.buf) \in Nat
    BY PlaceFacts
  <1>2. m \in 1..N /\ c = Base(m) + 3 /\ Window(t.buf, c, x.q)
    BY DEF At, InState, InHeaders
  <1>3. /\ BlockAt(c, h, u) /\ u # CR /\ h \in {2, 5} /\ BodyAt(m) = c + h
        /\ BodyAt(m) <= ends[m] /\ ends[m] \in Nat /\ \A j \in 1..h : ~Opaque(c + j)
    BY <1>2, HeaderPlace
  <1> HIDE DEF h, u
  <1>4. HeaderEnd(t.buf) = 0
    BY <1>1, <1>2, <1>3, BlockEnd
  <1>5. Headers(t, x.p + 1) = Return(t)
    BY <1>4 DEF Headers
  <1>6. Len(t.buf) <= 4
    <2>1. CASE x.q >= c
      <3>1. Len(t.buf) = x.q - c
        BY <1>1, <1>2, <2>1, WindowLen
      <3> QED
        BY <1>1, <1>3, <2>1, <3>1
    <2>2. CASE x.q < c
      <3>1. Len(t.buf) = 0
        BY <1>1, <1>2, <2>2, WindowLen
      <3> QED
        BY <3>1
    <2> QED
      BY <1>1, <2>1, <2>2
  <1>7. ASSUME loss # "any" PROVE Window(t.buf, c, x.e)
    <2>1. h \in Nat \ {0} /\ x.q < c + h
      BY <1>3
    <2> QED
      BY <1>1, <1>2, <1>3, <1>7, <2>1, BlockAwaited
  <1>8. c < ends[m] /\ x.q < ends[m]
    BY <1>1, <1>3
  <1>9. Still(t, c, m, x)
    BY <1>6, <1>7, <1>8, t.state = "headers" DEF Still
  <1> QED
    BY <1>5, <1>9, OutcomeOf

HeadersRest(t) ==
    [t EXCEPT !.buf = Drop(@, HeaderEnd(t.buf)), !.consumed = @ + HeaderEnd(t.buf)]

Whole(t, m) ==
    /\ HeaderEnd(t.buf) = HLen(conv[m])
    /\ Chunked(Take(t.buf, HeaderEnd(t.buf)), t.line) <=> Framed(conv[m])
    /\ ~Framed(conv[m]) => ContentLength(Take(t.buf, HeaderEnd(t.buf)), t.line) = BLen(conv[m])
    /\ t.line.v = m

LEMMA HeadersWhole ==
    ASSUME Sent, NEW t, NEW o, NEW x, NEW c \in Nat, NEW m \in Nat, NEW i \in Nat,
           Ctx(x), At(t, o, c, m, i, x), t.state = "headers", x.q >= BodyAt(m)
    PROVE  LET r == HeadersRest(t) IN
           /\ Whole(t, m) /\ m \in 1..N /\ BodyAt(m) \in 0..x.e
           /\ Same(r, t) /\ Window(r.buf, BodyAt(m), x.q) /\ Unconsumed(r) = x.e - BodyAt(m)
           /\ r.wireBytes = r.consumed + (x.e - BodyAt(m)) /\ Len(r.buf) < Len(t.buf)
           /\ Kept(r, m, 0)
  <1> DEFINE h == HLen(conv[m])
             u == HeaderUnit(conv[m])
             r == HeadersRest(t)
  <1>1. /\ x.q \in Nat /\ x.e \in Nat /\ c <= x.e /\ x.q <= x.e /\ Len(t.buf) \in Nat /\ t \in Stream
    BY PlaceFacts
  <1>2. /\ m \in 1..N /\ c = Base(m) + 3 /\ Window(t.buf, c, x.q) /\ t.line = Unit(conv[m].line, m)
        /\ t.bodyBuf = <<>> /\ ~t.bodyTruncated /\ t.wireBytes = t.consumed + (x.e - c)
    BY DEF At, InState, InHeaders
  <1>3. /\ BlockAt(c, h, u) /\ u # CR /\ h \in {2, 5} /\ BodyAt(m) = c + h /\ BodyAt(m) \in Nat
    BY <1>2, HeaderPlace
  <1>4. HeaderEnd(t.buf) = h /\ Len(t.buf) = x.q - c
    <2> HIDE DEF h, u
    <2>1. x.q >= c + h
      BY <1>3
    <2> QED
      <3>1. x.q \in Nat /\ Window(t.buf, c, x.q) /\ BlockAt(c, h, u) /\ u # CR
        BY <1>1, <1>2, <1>3
      <3>2. /\ x.q >= c + h => HeaderEnd(t.buf) = h /\ Len(t.buf) = x.q - c
            /\ x.q < c + h => HeaderEnd(t.buf) = 0
        BY <3>1, BlockEnd
      <3> QED
        BY <2>1, <3>2
  <1>5. Whole(t, m)
    <2>1. /\ Chunked(Take(t.buf, h), t.line) <=> Framed(conv[m])
          /\ ~Framed(conv[m]) => ContentLength(Take(t.buf, h), t.line) = BLen(conv[m])
      BY <1>1, <1>2, HeaderSays
    <2>2. t.line.v = m
      BY <1>2 DEF Unit
    <2> QED
      BY <1>4, <2>1, <2>2 DEF Whole
  <1>6. /\ Same(r, t) /\ Window(r.buf, c + h, x.q) /\ c + h \in 0..x.e
        /\ r.wireBytes = r.consumed + (x.e - (c + h)) /\ Unconsumed(r) = x.e - (c + h)
        /\ Len(r.buf) = Len(t.buf) - h
    <2>1. r = [t EXCEPT !.buf = Drop(@, h), !.consumed = t.consumed + h]
      BY <1>1, <1>4 DEF HeadersRest, Stream
    <2>0. t.consumed \in Nat
      BY <1>1 DEF Stream
    <2> HIDE DEF h, r
    <2>2. h \in Nat /\ h > 0 /\ h <= Len(t.buf) /\ t.consumed + h \in Nat
      BY SMTT(30), <1>1, <1>3, <1>4, <2>0
    <2>3. Eats(r, t, h, c, x.q, x.e)
      BY <1>1, <1>2, <2>1, <2>2, ConsumeFacts
    <2> QED
      BY <2>3 DEF Eats
  <1>7. Len(r.buf) < Len(t.buf)
    BY <1>1, <1>3, <1>6
  <1>8. Kept(r, m, 0)
    <2>1. r.bodyBuf = <<>> /\ ~r.bodyTruncated
      BY <1>2, <1>6 DEF Same
    <2>2. MaxBodyBytes \in Nat /\ m \in Nat
      BY <1>2 DEF Sent
    <2> HIDE DEF r
    <2> QED
      BY <2>1, <2>2, KeptNothing
  <1> HIDE DEF h, r
  <1> QED
    BY <1>2, <1>3, <1>5, <1>6, <1>7, <1>8 DEF r

HeadersMsg(t) == [id |-> t.line.v, ts |-> t.startTs]

LEMMA HeadersIs ==
    ASSUME Sent, NEW t, NEW m \in 1..N, Whole(t, m), NEW ts
    PROVE  LET rest == HeadersRest(t)
               msg == HeadersMsg(t)
           IN  /\ Framed(conv[m]) =>
                     Headers(t, ts) = Continue([rest EXCEPT !.pendingMsg = msg, !.state = "chunkSize"])
               /\ ~Framed(conv[m]) =>
                     Headers(t, ts) = IF Unconsumed(rest) >= BLen(conv[m])
                                      THEN BodyComplete(rest, msg, BLen(conv[m]), ts)
                                      ELSE BodyIncomplete(rest, msg, BLen(conv[m]))
  <1>1. HLen(conv[m]) \in {2, 5}
    BY DEF HLen
  <1>2. HeaderEnd(t.buf) # 0
    BY <1>1 DEF Whole
  <1>3. /\ Chunked(Take(t.buf, HeaderEnd(t.buf)), t.line) <=> Framed(conv[m])
        /\ ~Framed(conv[m]) => ContentLength(Take(t.buf, HeaderEnd(t.buf)), t.line) = BLen(conv[m])
    BY DEF Whole
  <1>4. CASE Framed(conv[m])
    BY <1>2, <1>3, <1>4 DEF Headers, HeadersRest, HeadersMsg
  <1>5. CASE ~Framed(conv[m])
    BY <1>2, <1>3, <1>5 DEF Headers, HeadersRest, HeadersMsg
  <1> QED
    BY <1>4, <1>5

LEMMA HeadersMsgFacts ==
    ASSUME Sent, NEW t, NEW o, NEW x, NEW c \in Nat, NEW m \in Nat, NEW i \in Nat,
           Ctx(x), At(t, o, c, m, i, x), t.state = "headers", t.line.v = m
    PROVE  /\ HeadersMsg(t) \in [id : Nat, ts : Nat] /\ HeadersMsg(t).id = m
           /\ HeadersMsg(t).ts \in Nat
           /\ x.al => HeadersMsg(t).ts = x.b[m]
  <1>1. t.startTs \in Nat
    BY DEF At, Stream
  <1>2. x.al => t.startTs = x.b[m]
    BY t.state = "headers" DEF At, Stamp
  <1> QED
    BY <1>1, <1>2 DEF HeadersMsg

LEMMA HeadersChunked ==
    ASSUME Sent, NEW t, NEW o, NEW x, NEW c \in Nat, NEW m \in Nat, NEW i \in Nat,
           Ctx(x), At(t, o, c, m, i, x), t.state = "headers", x.q >= BodyAt(m), Framed(conv[m])
    PROVE  Outcome(Headers(t, x.p + 1), t, o, x)
  <1> DEFINE rest == HeadersRest(t)
             msg == HeadersMsg(t)
             r == [rest EXCEPT !.pendingMsg = msg, !.state = "chunkSize"]
             c2 == BodyAt(m)
  <1>1. /\ Whole(t, m) /\ m \in 1..N /\ c2 \in 0..x.e
        /\ Same(rest, t) /\ Window(rest.buf, c2, x.q)
        /\ rest.wireBytes = rest.consumed + (x.e - c2) /\ Len(rest.buf) < Len(t.buf)
        /\ Kept(rest, m, 0)
    BY HeadersWhole
  <1>2. msg \in [id : Nat, ts : Nat] /\ msg.id = m /\ msg.ts \in Nat /\ (x.al => msg.ts = x.b[m])
    BY <1>1, HeadersMsgFacts DEF Whole
  <1>3. Headers(t, x.p + 1) = Continue(r)
    BY <1>1, HeadersIs
  <1>4. ~t.abandoned /\ Good(o, m, x) /\ Later(m, x)
    BY DEF At
  <1> HIDE DEF rest, msg
  <1>5. /\ r \in Stream /\ r.buf = rest.buf /\ r.consumed = rest.consumed /\ r.state = "chunkSize"
        /\ r.abandoned = rest.abandoned /\ r.bodyBuf = rest.bodyBuf
        /\ r.bodyTruncated = rest.bodyTruncated /\ r.wireBytes = rest.wireBytes
        /\ r.pendingMsg = msg
    BY <1>1, <1>2 DEF Same, Stream, States
  <1> HIDE DEF r
  <1>6. Len(conv[m].chunks) \in Nat /\ c2 = CS(m, 1) /\ Upto(m, 0) = 0
    BY <1>1, LayoutFacts DEF Layout
  <1>7. InSize(r, c2, m, 1)
    <2>1. Kept(r, m, Upto(m, 1 - 1))
      BY <1>1, <1>5, <1>6 DEF Kept
    <2>2. 1 \in 1..Len(conv[m].chunks) + 1
      BY <1>6
    <2> QED
      BY <1>1, <1>2, <1>5, <1>6, <2>1, <2>2 DEF InSize, InChunks
  <1>8. At(r, o, c2, m, 1, x)
    BY <1>1, <1>2, <1>4, <1>5, <1>7 DEF At, InState, Stamp, Same
  <1>9. Size(r) < Size(t)
    BY <1>1, <1>5, t.state = "headers" DEF Size
  <1>10. c2 \in Nat
    BY <1>1, HeaderPlace
  <1> HIDE DEF c2
  <1>11. Outcome(Continue(r), t, o, x)
    BY <1>8, <1>9, <1>10, OutcomeOf
  <1> QED
    BY <1>3, <1>11

LEMMA HeadersIncomplete ==
    ASSUME Sent, NEW t, NEW o, NEW x, NEW c \in Nat, NEW m \in Nat, NEW i \in Nat,
           Ctx(x), At(t, o, c, m, i, x), t.state = "headers", x.q >= BodyAt(m), ~Framed(conv[m]),
           x.e - BodyAt(m) < BLen(conv[m])
    PROVE  Outcome(Headers(t, x.p + 1), t, o, x)
  <1> DEFINE rest == HeadersRest(t)
             msg == HeadersMsg(t)
             n == BLen(conv[m])
             a == BodyAt(m)
             d == x.e - a
             p == Take(rest.buf, n)
             w == TakeSample(rest, p, d)
             r == [w EXCEPT !.bodyRemaining = n - d, !.buf = <<>>, !.state = "body",
                            !.pendingMsg = msg, !.wireBytes = 0, !.consumed = 0]
  <1>1. /\ Whole(t, m) /\ m \in 1..N /\ a \in 0..x.e
        /\ Same(rest, t) /\ Window(rest.buf, a, x.q) /\ Unconsumed(rest) = d
        /\ Kept(rest, m, 0)
    BY HeadersWhole
  <1>2. msg \in [id : Nat, ts : Nat] /\ msg.id = m /\ msg.ts \in Nat /\ (x.al => msg.ts = x.b[m])
    BY <1>1, HeadersMsgFacts DEF Whole
  <1>3. /\ n \in Nat /\ ends[m] = a + n /\ a \in Nat /\ ends[m] \in Nat
        /\ DataFrom(a, m, 0, n)
    BY <1>1, HeaderPlace
  <1>4. /\ x.q \in Nat /\ x.e \in Nat /\ x.q <= x.e
    BY PlaceFacts
  <1>5. d \in Nat /\ d < n /\ n - d \in Nat /\ n - d # 0 /\ x.e + (n - d) = ends[m]
    BY <1>1, <1>3, <1>4
  <1>6. Headers(t, x.p + 1) = Return(r)
    <2>1. Headers(t, x.p + 1) = BodyIncomplete(rest, msg, n)
      <3> HIDE DEF d, n, rest, msg
      <3>1. ~(Unconsumed(rest) >= n)
        BY <1>1, <1>3, <1>5
      <3> QED
        BY <1>1, <3>1, HeadersIs DEF n, rest, msg
    <2> HIDE DEF rest, msg
    <2> QED
      BY <1>1, <2>1 DEF BodyIncomplete
  <1>7. ~t.abandoned /\ Good(o, m, x) /\ Later(m, x)
    BY DEF At
  <1>8. MaxBodyBytes \in Nat /\ rest \in Stream /\ Len(rest.bodyBuf) <= MaxBodyBytes
    BY <1>1 DEF Sent, Same, Kept
  <1> HIDE DEF rest, msg, n, a
  <1>9. IsPart(p, m, 0) /\ Len(p) \in Nat /\ Len(p) <= d
    <2>1. IsPart(p, m, 0) /\ Len(p) \in Nat /\ Len(p) <= Monus(x.q, a)
      BY <1>1, <1>3, <1>4, PartInWindow
    <2>2. Monus(x.q, a) <= d
      BY <1>1, <1>3, <1>4 DEF Monus
    <2>3. Monus(x.q, a) \in Nat
      BY <1>3, <1>4, MonusFacts
    <2> QED
      BY <1>5, <2>1, <2>2, <2>3
  <1> HIDE DEF p, d
  <1>10. /\ w \in Stream /\ SameButBody(w, rest)
         /\ w.bodyBuf = rest.bodyBuf \o Take(p, MaxBodyBytes - Len(rest.bodyBuf))
         /\ w.bodyTruncated = (rest.bodyTruncated \/ Len(p) > MaxBodyBytes - Len(rest.bodyBuf) \/ Len(p) < d)
    BY <1>5, <1>8, <1>9, TakeSampleFacts DEF IsPart
  <1> HIDE DEF w
  <1>11. Kept(w, m, 0 + d)
    <2>1. rest.bodyBuf \in Seq(AnyUnit) /\ rest.bodyTruncated \in BOOLEAN /\ m \in Nat
      BY <1>8 DEF Stream
    <2> QED
      BY <1>1, <1>5, <1>8, <1>9, <1>10, <2>1, KeptMore
  <1>12. /\ r \in Stream /\ r.bodyRemaining = n - d /\ r.buf = <<>> /\ r.state = "body"
         /\ r.pendingMsg = msg /\ r.wireBytes = 0 /\ r.consumed = 0
         /\ r.bodyBuf = w.bodyBuf /\ r.bodyTruncated = w.bodyTruncated /\ r.abandoned = w.abandoned
    <2> DEFINE k == n - d
    <2>1. k \in Nat
      BY <1>5
    <2>2. r = [w EXCEPT !.bodyRemaining = k, !.buf = <<>>, !.state = "body",
                        !.pendingMsg = msg, !.wireBytes = 0, !.consumed = 0]
      OBVIOUS
    <2> HIDE DEF k, r
    <2>3. /\ r \in Stream /\ r.bodyRemaining = k /\ r.buf = <<>> /\ r.state = "body"
          /\ r.pendingMsg = msg /\ r.wireBytes = 0 /\ r.consumed = 0
          /\ r.bodyBuf = w.bodyBuf /\ r.bodyTruncated = w.bodyTruncated /\ r.abandoned = w.abandoned
      <3>1. w \in Stream /\ msg \in [id : Nat, ts : Nat] /\ <<>> \in Seq(AnyUnit)
        BY <1>2, <1>10
      <3> QED
        BY <2>1, <2>2, <3>1 DEF Stream, States
    <2> QED
      BY <2>3 DEF k
  <1> HIDE DEF r
  <1>13. InBody(r, x.e, m, x)
    <2>1. Kept(r, m, x.e - BodyAt(m))
      <3>1. 0 + d = x.e - BodyAt(m)
        BY <1>5 DEF d, a
      <3> QED
        BY <1>11, <1>12, <3>1 DEF Kept
    <2>2. BodyAt(m) <= x.e
      BY <1>1, <1>4 DEF a
    <2> QED
      BY <1>1, <1>2, <1>5, <1>12, <2>1, <2>2 DEF InBody
  <1>14. Window(<<>>, x.e, x.q) /\ Window(<<>>, x.e, x.e)
    BY <1>4, WindowEmpty
  <1>15. At(r, o, x.e, m, i, x)
    <2>1. r.wireBytes = r.consumed + (x.e - x.e) /\ x.e \in 0..x.e
      BY <1>4, <1>12
    <2>2. ~r.abandoned
      BY <1>1, <1>7, <1>10, <1>12 DEF Same, SameButBody
    <2> QED
      BY <1>2, <1>7, <1>12, <1>13, <1>14, <2>1, <2>2 DEF At, InState, Stamp
  <1>16. Still(r, x.e, m, x)
    <2>1. x.e < ends[m] /\ x.q < ends[m]
      BY <1>3, <1>4, <1>5
    <2> QED
      BY <1>12, <1>14, <2>1 DEF Still
  <1>17. Outcome(Return(r), t, o, x)
    BY <1>4, <1>15, <1>16, OutcomeOf
  <1> QED
    BY <1>6, <1>17

(* A message is complete, and the next one begins.                          *)
LEMMA NextMessage ==
    ASSUME Sent, NEW x, Ctx(x), NEW m \in 1..N, NEW o, Good(o, m, x), Later(m, x),
           NEW msg \in Emitted, Told(msg), msg.id = m, x.al => msg.ts = x.b[m],
           NEW r \in Stream, r.state = "startLine", r.bodyBuf = <<>>, ~r.bodyTruncated, ~r.abandoned,
           r.consumed = 0, r.wireBytes = x.e - ends[m], ends[m] \in 0..x.e,
           Window(r.buf, ends[m], x.q), r.startTs = IF r.buf = <<>> THEN 0 ELSE x.p + 1
    PROVE  At(r, o \o <<msg>>, ends[m], m + 1, 0, x)
  <1>1. /\ m \in Nat /\ Base(m) \in Nat /\ Base(m) + 5 <= ends[m] /\ ends[m] \in Nat
        /\ ends[m] = Base(m + 1) /\ m + 1 \in 1..N + 1
    BY MessageLine
  <1>2. /\ x.q \in Nat /\ x.e \in Nat /\ x.q <= x.e /\ x.e <= Len(wire) /\ x.p \in Nat
        /\ Len(wire) \in Nat /\ N \in Nat /\ Len(wire) = Base(N + 1)
    BY SentFacts DEF Ctx, Context
  <1>3. Good(o \o <<msg>>, m + 1, x)
    BY <1>1, GoodMore DEF Ctx
  <1>4. InState(r, ends[m], m + 1, 0, x)
    BY <1>1 DEF InState, InLine
  <1>5. x.al => Stamp(r, ends[m], m + 1, x)
    <2>1. SUFFICES ASSUME x.al PROVE Stamp(r, ends[m], m + 1, x)
      OBVIOUS
    <2>2. ASSUME ends[m] = x.e PROVE r.startTs = 0
      <3>1. r.buf = <<>>
        BY <1>1, <1>2, <2>2, WindowLen
      <3> QED
        BY <3>1
    <2>3. ASSUME ends[m] < x.q PROVE r.startTs = x.b[m + 1]
      <3>1. r.buf # <<>>
        <4>1. Len(r.buf) = x.q - ends[m]
          <5>1. x.q >= ends[m]
            BY <1>1, <1>2, <2>3
          <5> QED
            BY <1>1, <1>2, <5>1, WindowLen
        <4>2. Len(r.buf) # 0
          BY <1>1, <1>2, <2>3, <4>1
        <4> QED
          BY <4>2
      <3>2. m + 1 \in 1..N
        <4>1. m + 1 # N + 1
          BY <1>1, <1>2, <2>3
        <4> QED
          BY <1>1, <1>2, <4>1
      <3>3. Base(m + 1) < x.e /\ x.p <= Base(m + 1)
        BY <1>1, <1>2, <2>1, <2>3 DEF Later
      <3>4. x.b[m + 1] = x.p + 1
        BY <3>2, <3>3 DEF Ctx
      <3> QED
        BY <3>1, <3>4
    <2> QED
      BY <2>2, <2>3 DEF Stamp
  <1>6. Later(m + 1, x)
    <2>1. SUFFICES ASSUME x.al, m + 1 \in 1..N PROVE x.p < ends[m + 1]
      BY DEF Later
    <2>2. Base(m + 1) + 5 <= ends[m + 1] /\ ends[m + 1] \in Nat
      BY <2>1, MessageLine
    <2>3. x.p < ends[m]
      BY <2>1 DEF Later
    <2> QED
      BY <1>1, <1>2, <2>2, <2>3
  <1>7. r.wireBytes = r.consumed + (x.e - ends[m])
    BY <1>1, <1>2
  <1> QED
    BY <1>3, <1>4, <1>5, <1>6, <1>7 DEF At

LEMMA EmitOutcome ==
    ASSUME NEW t, NEW w, NEW msg, NEW o, NEW x, NEW c \in Nat, NEW m \in Nat,
           At(BodyTaken(w), o \o <<takeBody(w, msg)>>, c, m, 0, x), Size(BodyTaken(w)) < Size(t)
    PROVE  Outcome(Emit(w, msg), t, o, x)
  <1>1. Emit(w, msg).s = BodyTaken(w) /\ Emit(w, msg).out = <<takeBody(w, msg)>> /\ Emit(w, msg).more
    BY DEF Emit
  <1> QED
    BY <1>1 DEF Outcome

LEMMA BodyTakenFacts ==
    ASSUME NEW w \in Stream
    PROVE  LET r == BodyTaken(w) IN
           /\ r \in Stream /\ r.state = w.state /\ r.bodyBuf = <<>> /\ ~r.bodyTruncated
           /\ r.abandoned = w.abandoned /\ r.consumed = w.consumed /\ r.wireBytes = w.wireBytes
           /\ r.buf = w.buf /\ r.startTs = w.startTs
  <1>1. NoMessage \in [id : Nat, ts : Nat] /\ <<>> \in Seq(AnyUnit)
    BY DEF NoMessage
  <1> QED
    BY <1>1 DEF BodyTaken, Stream

LEMMA HeadersComplete ==
    ASSUME Sent, NEW t, NEW o, NEW x, NEW c \in Nat, NEW m \in Nat, NEW i \in Nat,
           Ctx(x), At(t, o, c, m, i, x), t.state = "headers", x.q >= BodyAt(m), ~Framed(conv[m]),
           x.e - BodyAt(m) >= BLen(conv[m])
    PROVE  Outcome(Headers(t, x.p + 1), t, o, x)
  <1> DEFINE rest == HeadersRest(t)
             msg == HeadersMsg(t)
             n == BLen(conv[m])
             a == BodyAt(m)
             p == Take(rest.buf, n)
             w == TakeSample(rest, p, n)
             b == Drop(rest.buf, Len(p))
             v == [w EXCEPT !.buf = b, !.bodyRemaining = 0, !.state = "startLine",
                            !.wireBytes = Unconsumed(rest) - n, !.consumed = 0,
                            !.startTs = IF b = <<>> THEN 0 ELSE x.p + 1]
             r == BodyTaken(v)
  <1>1. /\ Whole(t, m) /\ m \in 1..N /\ a \in 0..x.e
        /\ Same(rest, t) /\ Window(rest.buf, a, x.q) /\ Unconsumed(rest) = x.e - a
        /\ Kept(rest, m, 0) /\ Len(rest.buf) < Len(t.buf)
    BY HeadersWhole
  <1>2. msg \in [id : Nat, ts : Nat] /\ msg.id = m /\ msg.ts \in Nat /\ (x.al => msg.ts = x.b[m])
    BY <1>1, HeadersMsgFacts DEF Whole
  <1>3. /\ n \in Nat /\ ends[m] = a + n /\ a \in Nat /\ ends[m] \in Nat
        /\ DataFrom(a, m, 0, n)
    BY <1>1, HeaderPlace
  <1>4. /\ x.q \in Nat /\ x.e \in Nat /\ x.q <= x.e /\ x.p \in Nat
    BY PlaceFacts
  <1>6. Headers(t, x.p + 1) = Emit(v, msg)
    <2>1. Headers(t, x.p + 1) = BodyComplete(rest, msg, n, x.p + 1)
      <3> HIDE DEF n, rest, msg, a
      <3>1. Unconsumed(rest) >= n
        BY <1>1, <1>3, <1>4, x.e - a >= n DEF n, a
      <3> QED
        BY <1>1, <3>1, HeadersIs DEF n, rest, msg
    <2> HIDE DEF rest, msg
    <2> QED
      BY <2>1 DEF BodyComplete
  <1>7. ~t.abandoned /\ Good(o, m, x) /\ Later(m, x)
    BY DEF At
  <1>8. MaxBodyBytes \in Nat /\ rest \in Stream /\ Len(rest.bodyBuf) <= MaxBodyBytes
    BY <1>1 DEF Sent, Same, Kept
  <1>9. n <= x.e - a /\ Total(m) = n
    BY DEF Total
  <1> HIDE DEF rest, msg, n, a
  <1>10. IsPart(p, m, 0) /\ Len(p) \in Nat /\ Len(p) <= n
    BY <1>1, <1>3, <1>4, PartInWindow
  <1>11. Window(b, ends[m], x.q)
    <2>1. Window(b, a + n, x.q)
      BY <1>1, <1>3, <1>4, WindowDrop
    <2> QED
      BY <1>3, <2>1
  <1>12. b \in Seq(AnyUnit) /\ Len(b) <= Len(rest.buf) /\ Len(b) \in Nat
    <2>1. rest.buf \in Seq(AnyUnit) /\ Len(rest.buf) \in Nat
      BY <1>8 DEF Stream
    <2>2. IsTake(p, rest.buf, n)
      BY <1>3, <2>1, TakeFacts
    <2>3. Len(p) <= Len(rest.buf)
      <3>1. Len(p) = Smaller(n, Len(rest.buf))
        BY <2>2 DEF IsTake
      <3>2. Smaller(n, Len(rest.buf)) <= Len(rest.buf)
        BY <1>3, <2>1 DEF Smaller
      <3> QED
        BY <3>1, <3>2
    <2>4. IsDrop(b, rest.buf, Len(p))
      BY <1>10, <2>1, <2>3, DropFacts
    <2>5. Len(b) = Len(rest.buf) - Len(p) /\ b \in Seq(AnyUnit)
      <3> HIDE DEF b, p
      <3> QED
        BY <2>4 DEF IsDrop
    <2> HIDE DEF b, p
    <2> QED
      BY <1>10, <2>1, <2>3, <2>5
  <1> HIDE DEF p, b
  <1>13. /\ w \in Stream /\ SameButBody(w, rest)
         /\ w.bodyBuf = rest.bodyBuf \o Take(p, MaxBodyBytes - Len(rest.bodyBuf))
         /\ w.bodyTruncated = (rest.bodyTruncated \/ Len(p) > MaxBodyBytes - Len(rest.bodyBuf) \/ Len(p) < n)
    BY <1>3, <1>8, <1>10, TakeSampleFacts DEF IsPart
  <1> HIDE DEF w
  <1>14. Kept(w, m, 0 + n)
    <2>1. rest.bodyBuf \in Seq(AnyUnit) /\ rest.bodyTruncated \in BOOLEAN /\ m \in Nat
      BY <1>8 DEF Stream
    <2> QED
      BY <1>1, <1>3, <1>8, <1>10, <1>13, <2>1, KeptMore
  <1>15. /\ v \in Stream /\ v.buf = b /\ v.state = "startLine" /\ v.wireBytes = x.e - ends[m]
         /\ v.consumed = 0 /\ v.startTs = (IF b = <<>> THEN 0 ELSE x.p + 1)
         /\ v.bodyBuf = w.bodyBuf /\ v.bodyTruncated = w.bodyTruncated /\ v.abandoned = w.abandoned
    <2> DEFINE k == Unconsumed(rest) - n
               ts == IF b = <<>> THEN 0 ELSE x.p + 1
    <2>1. k \in Nat /\ k = x.e - ends[m] /\ ts \in Nat
      BY SMTT(30), <1>1, <1>3, <1>4, <1>9
    <2>2. v = [w EXCEPT !.buf = b, !.bodyRemaining = 0, !.state = "startLine",
                        !.wireBytes = k, !.consumed = 0, !.startTs = ts]
      OBVIOUS
    <2> HIDE DEF k, ts, v
    <2>3. /\ v \in Stream /\ v.buf = b /\ v.state = "startLine" /\ v.wireBytes = k
          /\ v.consumed = 0 /\ v.startTs = ts
          /\ v.bodyBuf = w.bodyBuf /\ v.bodyTruncated = w.bodyTruncated /\ v.abandoned = w.abandoned
      <3>1. w \in Stream /\ b \in Seq(AnyUnit)
        BY <1>12, <1>13
      <3> QED
        BY <2>1, <2>2, <3>1 DEF Stream, States
    <2> QED
      BY <2>1, <2>3 DEF ts
  <1> HIDE DEF v
  <1>16. Kept(v, m, Total(m))
    <2>1. 0 + n = Total(m)
      BY <1>3, <1>9
    <2> QED
      BY <1>14, <1>15, <2>1 DEF Kept
  <1>17. /\ Told(takeBody(v, msg)) /\ takeBody(v, msg) \in Emitted
         /\ takeBody(v, msg).id = m /\ takeBody(v, msg).ts = msg.ts
    BY <1>1, <1>2, <1>15, <1>16, ToldFacts
  <1>18. /\ r \in Stream /\ r.state = v.state /\ r.bodyBuf = <<>> /\ ~r.bodyTruncated
         /\ r.abandoned = v.abandoned /\ r.consumed = v.consumed /\ r.wireBytes = v.wireBytes
         /\ r.buf = v.buf /\ r.startTs = v.startTs
    BY <1>15, BodyTakenFacts
  <1> HIDE DEF r
  <1>19. At(r, o \o <<takeBody(v, msg)>>, ends[m], m + 1, 0, x)
    <2>1. ends[m] \in 0..x.e
      BY <1>3, <1>4, <1>9
    <2>2. ~r.abandoned
      BY <1>1, <1>7, <1>13, <1>15, <1>18 DEF Same, SameButBody
    <2>3. x.al => takeBody(v, msg).ts = x.b[m]
      BY <1>2, <1>17
    <2>4. Window(r.buf, ends[m], x.q) /\ r.startTs = IF r.buf = <<>> THEN 0 ELSE x.p + 1
      BY <1>11, <1>15, <1>18
    <2>5. r.wireBytes = x.e - ends[m] /\ r.consumed = 0 /\ r.state = "startLine"
      BY <1>15, <1>18
    <2> QED
      BY <1>1, <1>7, <1>17, <1>18, <2>1, <2>2, <2>3, <2>4, <2>5, NextMessage
  <1>20. Size(r) < Size(t)
    <2>1. Len(t.buf) \in Nat /\ Len(rest.buf) \in Nat
      BY <1>8, PlaceFacts DEF Stream
    <2>2. Size(r) = Len(b) /\ Size(t) = Len(t.buf)
      BY <1>12, <1>15, <1>18, <2>1, t.state = "headers" DEF Size
    <2> QED
      BY <1>1, <1>12, <2>1, <2>2
  <1>21. m + 1 \in Nat
    BY <1>1, MessageLine
  <1>22. Outcome(Emit(v, msg), t, o, x)
    BY <1>3, <1>19, <1>20, <1>21, EmitOutcome DEF r
  <1> QED
    BY <1>6, <1>22

(* In the state headers.                                                    *)
LEMMA HeadersStep ==
    ASSUME Sent, NEW t, NEW o, NEW x, NEW c \in Nat, NEW m \in Nat, NEW i \in Nat,
           Ctx(x), At(t, o, c, m, i, x), t.state = "headers"
    PROVE  Outcome(Headers(t, x.p + 1), t, o, x)
  <1>1. x.q \in Nat /\ x.e \in Nat /\ m \in 1..N
    BY PlaceFacts, t.state = "headers" DEF At, InState, InHeaders
  <1>2. BodyAt(m) \in Nat /\ BLen(conv[m]) \in Nat
    BY <1>1, HeaderPlace
  <1>3. CASE x.q < BodyAt(m)
    BY <1>3, HeadersWait
  <1>4. CASE x.q >= BodyAt(m) /\ Framed(conv[m])
    BY <1>4, HeadersChunked
  <1>5. CASE x.q >= BodyAt(m) /\ ~Framed(conv[m]) /\ x.e - BodyAt(m) < BLen(conv[m])
    BY <1>5, HeadersIncomplete
  <1>6. CASE x.q >= BodyAt(m) /\ ~Framed(conv[m]) /\ x.e - BodyAt(m) >= BLen(conv[m])
    BY <1>6, HeadersComplete
  <1> QED
    BY <1>1, <1>2, <1>3, <1>4, <1>5, <1>6

(* A chunk of a message, and the end of the chunks.                         *)
ChunkPlaced(m, i) ==
    LET n == conv[m].chunks[i]
        c == CS(m, i)
    IN  /\ c \in Nat /\ n \in Nat /\ n # 0 /\ LineAt(c, Unit("size", n))
        /\ CS(m, i + 1) = c + 5 + n /\ c + 10 + n <= ends[m]
        /\ DataFrom(c + 3, m, Upto(m, i - 1), n)
        /\ Upto(m, i - 1) \in Nat /\ Upto(m, i) = Upto(m, i - 1) + n
        /\ wire[c + 3 + n + 1] = CR /\ wire[c + 3 + n + 2] = LF
        /\ i \in Nat /\ i + 1 \in 1..Len(conv[m].chunks) + 1

LastPlaced(m) ==
    LET c == CS(m, Len(conv[m].chunks) + 1)
        h == TLen(conv[m])
    IN  /\ c \in Nat /\ LineAt(c, Unit("size", 0))
        /\ BlockAt(c + 3, h, Unit("field", 0)) /\ h \in {2, 5} /\ ends[m] = c + 3 + h
        /\ \A j \in 1..h : ~Opaque(c + 3 + j)

LEMMA FramedPlace ==
    ASSUME Sent, NEW x, Ctx(x), NEW m \in 1..N, Framed(conv[m])
    PROVE  /\ loss # "any" /\ x.al /\ Len(conv[m].chunks) \in Nat
           /\ ends[m] \in Nat /\ ends[m] <= Len(wire) /\ Len(wire) \in Nat
           /\ \A i \in 1..Len(conv[m].chunks) : ChunkPlaced(m, i)
           /\ LastPlaced(m) /\ Total(m) = Upto(m, Len(conv[m].chunks))
  <1> DEFINE L == Len(conv[m].chunks)
  <1>1. Layout(m) /\ Len(wire) \in Nat
    BY LayoutFacts, SentFacts
  <1>2. /\ L \in Nat /\ ends[m] \in Nat /\ ends[m] <= Len(wire)
        /\ \A i \in 1..L : ChunkAt(m, i)
        /\ LastAt(m)
    BY <1>1 DEF Layout
  <1>3. loss # "any" /\ x.al
    BY DEF Sent, Ctx, Framed
  <1>4. ASSUME NEW i \in 1..L PROVE ChunkPlaced(m, i)
    <2> DEFINE n == conv[m].chunks[i]
               c == CS(m, i)
    <2>1. ChunkAt(m, i)
      BY <1>2
    <2>2. /\ n \in Nat \ {0} /\ c \in Nat /\ CS(m, i + 1) = c + 5 + n
          /\ CS(m, i + 1) + 5 <= ends[m] /\ LineAt(c, Unit("size", n))
          /\ \A j \in 1..n : wire[c + 3 + j] = Unit("data", 100 * m + Upto(m, i - 1) + j)
          /\ wire[c + 3 + n + 1] = CR /\ wire[c + 3 + n + 2] = LF
          /\ Upto(m, i - 1) \in Nat /\ Upto(m, i) = Upto(m, i - 1) + n
      BY <2>1 DEF ChunkAt
    <2>3. i \in Nat /\ i + 1 \in 1..L + 1
      BY <1>2
    <2>4. DataFrom(c + 3, m, Upto(m, i - 1), n)
      BY <2>2 DEF DataFrom
    <2>5. c + 10 + n <= ends[m]
      <3> HIDE DEF c, n
      <3> QED
        BY <1>2, <2>2
    <2> HIDE DEF c, n
    <2> QED
      BY <2>2, <2>3, <2>4, <2>5 DEF ChunkPlaced, c, n
  <1>5. LastPlaced(m)
    <2> DEFINE c == CS(m, L + 1)
               h == TLen(conv[m])
    <2>1. /\ c \in Nat /\ LineAt(c, Unit("size", 0))
          /\ BlockAt(c + 3, h, Unit("field", 0)) /\ ends[m] = c + 3 + h
      BY <1>2 DEF LastAt
    <2>2. h \in {2, 5}
      BY DEF TLen
    <2> HIDE DEF c, h
    <2>3. wire[c + 3].k # "data" /\ wire[c + 2].k # "data"
      BY <2>1, UnitFacts DEF LineAt
    <2>4. c + 3 \in Nat /\ c + 3 - 1 = c + 2
      BY <2>1
    <2>5. Unit("field", 0).k = "field"
      BY DEF Unit
    <2>6. \A j \in 1..h : ~Opaque(c + 3 + j)
      BY <2>1, <2>3, <2>4, <2>5, BlockVisible
    <2> QED
      BY <2>1, <2>2, <2>6 DEF LastPlaced, c, h
  <1>6. Total(m) = Upto(m, L)
    BY DEF Total
  <1> QED
    BY <1>1, <1>2, <1>3, <1>4, <1>5, <1>6

(* The line with the size of a chunk, or with 0.                            *)
SizeAt(m, i) == IF i = Len(conv[m].chunks) + 1 THEN 0 ELSE conv[m].chunks[i]

LEMMA SizePlace ==
    ASSUME Sent, NEW x, Ctx(x), NEW m \in 1..N, Framed(conv[m]),
           NEW i \in 1..Len(conv[m].chunks) + 1
    PROVE  LET c == CS(m, i)
               u == Unit("size", SizeAt(m, i))
           IN  /\ c \in Nat /\ LineAt(c, u) /\ u # CR /\ u.k = "size" /\ u.v = SizeAt(m, i)
               /\ c + 5 <= ends[m]
               /\ SizeAt(m, i) = 0 <=> i = Len(conv[m].chunks) + 1
  <1> DEFINE L == Len(conv[m].chunks)
             c == CS(m, i)
             n == SizeAt(m, i)
             u == Unit("size", n)
  <1>1. /\ L \in Nat /\ ends[m] \in Nat
        /\ \A j \in 1..L : ChunkPlaced(m, j)
        /\ LastPlaced(m)
    BY FramedPlace
  <1>2. u.k = "size" /\ u.v = n /\ u # CR
    BY DEF Unit, CR
  <1>3. CASE i = L + 1
    <2>1. n = 0
      BY <1>3 DEF SizeAt
    <2>2. /\ CS(m, L + 1) \in Nat /\ LineAt(CS(m, L + 1), Unit("size", 0))
          /\ TLen(conv[m]) \in {2, 5} /\ ends[m] = CS(m, L + 1) + 3 + TLen(conv[m])
      BY <1>1 DEF LastPlaced
    <2>3. CS(m, L + 1) + 5 <= ends[m]
      BY <2>2
    <2> QED
      BY <1>2, <1>3, <2>1, <2>2, <2>3
  <1>4. CASE i # L + 1
    <2>1. i \in 1..L
      BY <1>1, <1>4
    <2>2. n = conv[m].chunks[i]
      BY <1>4 DEF SizeAt
    <2>3. ChunkPlaced(m, i)
      BY <1>1, <2>1
    <2>4. c \in Nat /\ n \in Nat /\ n # 0 /\ LineAt(c, u) /\ c + 10 + n <= ends[m]
      BY <2>2, <2>3 DEF ChunkPlaced
    <2> HIDE DEF c, n, u
    <2>5. c + 5 <= ends[m]
      BY <1>1, <2>4
    <2> QED
      BY <1>2, <1>4, <2>4, <2>5 DEF c, n, u
  <1> QED
    BY <1>3, <1>4

(* In the state chunkSize: the line is not all there, or it is consumed.    *)
LEMMA SizeWait ==
    ASSUME Sent, NEW t, NEW o, NEW x, NEW c \in Nat, NEW m \in Nat, NEW i \in Nat,
           Ctx(x), At(t, o, c, m, i, x), t.state = "chunkSize", x.q < c + 3
    PROVE  Outcome(ChunkSize(t), t, o, x)
  <1> DEFINE u == Unit("size", SizeAt(m, i))
  <1>1. /\ x.q \in Nat /\ x.e \in Nat /\ c <= x.e /\ x.q <= x.e /\ Len(t.buf) \in Nat
    BY PlaceFacts
  <1>2. /\ m \in 1..N /\ Framed(conv[m]) /\ i \in 1..Len(conv[m].chunks) + 1 /\ c = CS(m, i)
        /\ Window(t.buf, c, x.q)
    BY DEF At, InState, InSize, InChunks
  <1>3. loss # "any" /\ x.al /\ ends[m] \in Nat
    BY <1>2, FramedPlace
  <1>4. LineAt(c, u) /\ u # CR /\ u.k = "size" /\ c + 5 <= ends[m]
    BY <1>2, SizePlace
  <1> HIDE DEF u
  <1>5. Index(t.buf, CRLF) = 0
    BY <1>1, <1>2, <1>4, LineIndex
  <1>6. ChunkSize(t) = Return(t)
    BY <1>5 DEF ChunkSize
  <1>7. Len(t.buf) <= 4
    <2>1. CASE x.q >= c
      <3>1. Len(t.buf) = x.q - c
        BY <1>1, <1>2, <2>1, WindowLen
      <3> QED
        BY <1>1, <2>1, <3>1
    <2>2. CASE x.q < c
      <3>1. Len(t.buf) = 0
        BY <1>1, <1>2, <2>2, WindowLen
      <3> QED
        BY <3>1
    <2> QED
      BY <1>1, <2>1, <2>2
  <1>8. Window(t.buf, c, x.e)
    BY <1>1, <1>2, <1>3, <1>4, LineAwaited
  <1>9. c < ends[m] /\ x.q < ends[m]
    BY <1>1, <1>3, <1>4
  <1>10. Still(t, c, m, x)
    BY <1>7, <1>8, <1>9 DEF Still
  <1> QED
    BY <1>6, <1>10, OutcomeOf

ChunkSizeRest(t) ==
    [t EXCEPT !.buf = Drop(@, Index(t.buf, CRLF) + 1), !.consumed = @ + Index(t.buf, CRLF) + 1]

ChunkSizeGoes(t, m, i) ==
    LET rest == ChunkSizeRest(t)
        n == SizeAt(m, i)
    IN  /\ n = 0 => ChunkSize(t) = Continue([rest EXCEPT !.state = "trailer"])
        /\ n # 0 => ChunkSize(t) = IF Unconsumed(rest) >= n THEN ChunkComplete(rest, n)
                                   ELSE ChunkIncomplete(rest, n)

LEMMA SizeWhole ==
    ASSUME Sent, NEW t, NEW o, NEW x, NEW c \in Nat, NEW m \in Nat, NEW i \in Nat,
           Ctx(x), At(t, o, c, m, i, x), t.state = "chunkSize", x.q >= c + 3
    PROVE  LET r == ChunkSizeRest(t) IN
           /\ Eats(r, t, 3, c, x.q, x.e) /\ ChunkSizeGoes(t, m, i)
           /\ m \in 1..N /\ Framed(conv[m]) /\ i \in 1..Len(conv[m].chunks) + 1 /\ c = CS(m, i)
           /\ t.pendingMsg.id = m /\ Kept(r, m, Upto(m, i - 1)) /\ t.pendingMsg.ts = x.b[m]
  <1> DEFINE u == Unit("size", SizeAt(m, i))
             r == ChunkSizeRest(t)
  <1>1. /\ x.q \in Nat /\ x.e \in Nat /\ c <= x.e /\ x.q <= x.e /\ Len(t.buf) \in Nat
        /\ t \in Stream /\ t.consumed \in Nat
    BY PlaceFacts
  <1>2. /\ m \in 1..N /\ Framed(conv[m]) /\ i \in 1..Len(conv[m].chunks) + 1 /\ c = CS(m, i)
        /\ Window(t.buf, c, x.q) /\ t.pendingMsg.id = m /\ Kept(t, m, Upto(m, i - 1))
        /\ t.wireBytes = t.consumed + (x.e - c) /\ (x.al => t.pendingMsg.ts = x.b[m])
    BY t.state = "chunkSize" DEF At, InState, InSize, InChunks, Stamp
  <1>3. loss # "any" /\ x.al /\ ends[m] \in Nat
    BY <1>2, FramedPlace
  <1>4. LineAt(c, u) /\ u # CR /\ u.k = "size" /\ u.v = SizeAt(m, i)
    BY <1>2, SizePlace
  <1> HIDE DEF u
  <1>5. Index(t.buf, CRLF) = 2 /\ t.buf[1] = u /\ Len(t.buf) = x.q - c
    <2>1. x.q \in Nat /\ Window(t.buf, c, x.q) /\ LineAt(c, u) /\ u # CR
      BY <1>1, <1>2, <1>4
    <2>2. x.q >= c + 3 => Index(t.buf, CRLF) = 2 /\ t.buf[1] = u /\ Len(t.buf) = x.q - c
      BY <2>1, LineIndex
    <2> QED
      BY <2>2
  <1>6. r = [t EXCEPT !.buf = Drop(@, 3), !.consumed = t.consumed + 3]
    <2>1. Index(t.buf, CRLF) + 1 = 3 /\ t.consumed + Index(t.buf, CRLF) + 1 = t.consumed + 3
      BY <1>1, <1>5
    <2> QED
      BY <2>1 DEF ChunkSizeRest
  <1>7. ChunkSizeGoes(t, m, i)
    BY <1>4, <1>5, <1>6 DEF ChunkSize, ChunkSizeGoes, ChunkSizeRest
  <1> HIDE DEF r
  <1>8. Eats(r, t, 3, c, x.q, x.e)
    <2> DEFINE h == 3
               k == t.consumed + h
    <2>1. h \in Nat /\ h > 0 /\ k \in Nat /\ k = t.consumed + h /\ h <= Len(t.buf)
      BY <1>1, <1>5
    <2>2. r = [t EXCEPT !.buf = Drop(@, h), !.consumed = k]
      BY <1>6
    <2>3. /\ x.q \in Nat /\ x.e \in Nat /\ x.q <= x.e /\ c <= x.e /\ t \in Stream
          /\ Window(t.buf, c, x.q) /\ t.wireBytes = t.consumed + (x.e - c)
      BY <1>1, <1>2
    <2> HIDE DEF h, k
    <2>4. Eats(r, t, h, c, x.q, x.e)
      BY <2>1, <2>2, <2>3, ConsumeFacts
    <2> QED
      BY <2>4 DEF h
  <1>9. Kept(r, m, Upto(m, i - 1))
    BY <1>2, <1>8 DEF Eats, Same, Kept
  <1> QED
    BY <1>2, <1>3, <1>7, <1>8, <1>9 DEF r

(* After the last chunk comes the trailer.                                  *)
LEMMA SizeLast ==
    ASSUME Sent, NEW t, NEW o, NEW x, NEW c \in Nat, NEW m \in Nat, NEW i \in Nat,
           Ctx(x), At(t, o, c, m, i, x), t.state = "chunkSize", x.q >= c + 3,
           i = Len(conv[m].chunks) + 1
    PROVE  Outcome(ChunkSize(t), t, o, x)
  <1> DEFINE rest == ChunkSizeRest(t)
             r == [rest EXCEPT !.state = "trailer"]
  <1>1. /\ Eats(rest, t, 3, c, x.q, x.e) /\ ChunkSizeGoes(t, m, i)
        /\ m \in 1..N /\ Framed(conv[m]) /\ i \in 1..Len(conv[m].chunks) + 1 /\ c = CS(m, i)
        /\ t.pendingMsg.id = m /\ Kept(rest, m, Upto(m, i - 1)) /\ t.pendingMsg.ts = x.b[m]
    BY SizeWhole
  <1>2. Total(m) = Upto(m, Len(conv[m].chunks)) /\ Len(conv[m].chunks) \in Nat
    BY <1>1, FramedPlace
  <1>3. SizeAt(m, i) = 0
    BY <1>1, SizePlace
  <1>4. ChunkSize(t) = Continue(r)
    BY <1>1, <1>3 DEF ChunkSizeGoes
  <1>5. ~t.abandoned /\ Good(o, m, x) /\ Later(m, x)
    BY DEF At
  <1> HIDE DEF rest
  <1>6. /\ r \in Stream /\ r.buf = rest.buf /\ r.consumed = rest.consumed /\ r.state = "trailer"
        /\ r.abandoned = rest.abandoned /\ r.bodyBuf = rest.bodyBuf
        /\ r.bodyTruncated = rest.bodyTruncated /\ r.wireBytes = rest.wireBytes
        /\ r.pendingMsg = rest.pendingMsg
    BY <1>1 DEF Eats, Same, Stream, States
  <1> HIDE DEF r
  <1>7. InTrailer(r, c + 3, m)
    <2>1. Upto(m, i - 1) = Total(m)
      BY <1>2
    <2>2. Kept(r, m, Total(m))
      BY <1>1, <1>6, <2>1 DEF Kept
    <2> QED
      BY <1>1, <1>6, <2>2 DEF InTrailer, InChunks, Eats, Same
  <1>8. c + 3 \in 0..x.e /\ r.wireBytes = r.consumed + (x.e - (c + 3)) /\ Window(r.buf, c + 3, x.q)
    BY <1>1, <1>6 DEF Eats
  <1>9. At(r, o, c + 3, m, i, x)
    BY <1>1, <1>5, <1>6, <1>7, <1>8 DEF At, InState, Stamp, Eats, Same
  <1>10. Size(r) < Size(t)
    <2>1. Len(r.buf) = Len(t.buf) - 3 /\ Len(t.buf) \in Nat
      BY <1>1, <1>6, PlaceFacts DEF Eats
    <2>2. Size(r) = Len(r.buf) /\ Size(t) = Len(t.buf)
      BY <1>6, <2>1, t.state = "chunkSize" DEF Size
    <2> QED
      BY <2>1, <2>2
  <1>11. c + 3 \in Nat
    OBVIOUS
  <1>12. Outcome(Continue(r), t, o, x)
    BY <1>9, <1>10, <1>11, OutcomeOf
  <1> QED
    BY <1>4, <1>12

(* The next n units of a body, of which the event brings dd and b begins    *)
(* with those that were captured.                                           *)
TakesPart(t, b, n, dd, m, d) ==
    LET p == Take(b, n)
        w == TakeSample(t, p, dd)
    IN  /\ w \in Stream /\ SameButBody(w, t) /\ Kept(w, m, d + dd)
        /\ Len(p) \in Nat /\ Len(p) <= n /\ Len(p) <= Len(b) /\ b \in Seq(AnyUnit)

LEMMA BodyPart ==
    ASSUME MaxBodyBytes \in Nat, NEW t \in Stream, NEW m \in Nat, NEW d \in Nat, Kept(t, m, d),
           NEW c \in Nat, NEW q \in Nat, NEW e \in Nat, c <= e, q <= e,
           NEW n \in Nat, DataFrom(c, m, d, n), NEW b, Window(b, c, q),
           NEW dd \in Nat, dd <= n, dd = n \/ dd = e - c
    PROVE  TakesPart(t, b, n, dd, m, d)
  <1> DEFINE p == Take(b, n)
             w == TakeSample(t, p, dd)
  <1>1. /\ IsPart(p, m, d) /\ Len(p) <= n /\ Len(p) \in Nat /\ Len(p) <= Monus(q, c)
    BY PartInWindow
  <1>2. Len(p) <= Len(b) /\ b \in Seq(AnyUnit)
    BY <1>1 DEF Window
  <1> HIDE DEF p
  <1>3. Len(p) <= dd
    <2>1. Monus(q, c) <= e - c
      BY DEF Monus
    <2>2. Monus(q, c) \in Nat
      BY MonusFacts
    <2> QED
      BY <1>1, <2>1, <2>2
  <1>4. Len(t.bodyBuf) <= MaxBodyBytes /\ p \in Seq(AnyUnit)
    BY <1>1 DEF Kept, IsPart
  <1>5. /\ w \in Stream /\ SameButBody(w, t)
        /\ w.bodyBuf = t.bodyBuf \o Take(p, MaxBodyBytes - Len(t.bodyBuf))
        /\ w.bodyTruncated = (t.bodyTruncated \/ Len(p) > MaxBodyBytes - Len(t.bodyBuf) \/ Len(p) < dd)
    BY <1>4, TakeSampleFacts
  <1> HIDE DEF w
  <1>6. t.bodyBuf \in Seq(AnyUnit) /\ t.bodyTruncated \in BOOLEAN
    BY DEF Stream
  <1>7. Kept(w, m, d + dd)
    BY <1>1, <1>3, <1>5, <1>6, KeptMore
  <1> QED
    BY <1>1, <1>2, <1>5, <1>7 DEF TakesPart, p, w

(* The chunk is all there.                                                  *)
LEMMA SizeComplete ==
    ASSUME Sent, NEW t, NEW o, NEW x, NEW c \in Nat, NEW m \in Nat, NEW i \in Nat,
           Ctx(x), At(t, o, c, m, i, x), t.state = "chunkSize", x.q >= c + 3,
           i \in 1..Len(conv[m].chunks), x.e - (c + 3) >= conv[m].chunks[i]
    PROVE  Outcome(ChunkSize(t), t, o, x)
  <1> DEFINE rest == ChunkSizeRest(t)
             n == conv[m].chunks[i]
             a == c + 3
             d == Upto(m, i - 1)
             p == Take(rest.buf, n)
             w == TakeSample(rest, p, n)
             b == Drop(rest.buf, Len(p))
             k == rest.consumed + n
             r == [w EXCEPT !.buf = b, !.consumed = k, !.state = "chunkCRLF"]
  <1>1. /\ Eats(rest, t, 3, c, x.q, x.e) /\ ChunkSizeGoes(t, m, i)
        /\ m \in 1..N /\ Framed(conv[m]) /\ i \in 1..Len(conv[m].chunks) + 1 /\ c = CS(m, i)
        /\ t.pendingMsg.id = m /\ Kept(rest, m, d) /\ t.pendingMsg.ts = x.b[m]
    BY SizeWhole
  <1>2. ChunkPlaced(m, i)
    BY <1>1, FramedPlace
  <1>3. /\ n \in Nat /\ n # 0 /\ a \in Nat /\ d \in Nat /\ DataFrom(a, m, d, n)
        /\ Upto(m, i) = d + n
    <2>1. /\ n \in Nat /\ n # 0 /\ d \in Nat /\ DataFrom(CS(m, i) + 3, m, d, n)
          /\ Upto(m, i) = d + n
      BY <1>2 DEF ChunkPlaced
    <2>2. a = CS(m, i) + 3 /\ a \in Nat
      BY <1>1
    <2> HIDE DEF a, n, d
    <2> QED
      BY <2>1, <2>2
  <1>4. x.q \in Nat /\ x.e \in Nat /\ x.q <= x.e
    BY PlaceFacts
  <1>5. /\ rest \in Stream /\ Window(rest.buf, a, x.q) /\ a \in 0..x.e /\ Unconsumed(rest) = x.e - a
        /\ rest.wireBytes = rest.consumed + (x.e - a) /\ Len(rest.buf) = Len(t.buf) - 3
        /\ rest.abandoned = t.abandoned /\ rest.pendingMsg = t.pendingMsg
    BY <1>1 DEF Eats, Same
  <1>6. ~t.abandoned /\ Good(o, m, x) /\ Later(m, x)
    BY DEF At
  <1>7. ChunkSize(t) = ChunkComplete(rest, n)
    <2>1. SizeAt(m, i) = n
      BY SMTT(30), <1>2, Len(conv[m].chunks) \in Nat DEF SizeAt, ChunkPlaced
    <2>2. Unconsumed(rest) >= n
      BY <1>5
    <2> HIDE DEF rest, n
    <2> QED
      BY <1>1, <1>3, <2>1, <2>2 DEF ChunkSizeGoes, rest
  <1> HIDE DEF rest, n, d
  <1>8. /\ w \in Stream /\ SameButBody(w, rest) /\ Kept(w, m, d + n)
        /\ Len(p) \in Nat /\ Len(p) <= n /\ Len(p) <= Len(rest.buf) /\ rest.buf \in Seq(AnyUnit)
    <2>1. /\ MaxBodyBytes \in Nat /\ Kept(rest, m, d) /\ a <= x.e /\ n <= n
          /\ (n = n \/ n = x.e - a)
      BY <1>1, <1>3, <1>5 DEF Sent
    <2>2. rest \in Stream /\ Window(rest.buf, a, x.q) /\ a \in Nat /\ DataFrom(a, m, d, n)
      BY <1>3, <1>5
    <2>3. TakesPart(rest, rest.buf, n, n, m, d)
      <3> HIDE DEF a
      <3> QED
        BY <1>3, <1>4, <2>1, <2>2, BodyPart
    <2> QED
      BY <2>3 DEF TakesPart
  <1>9. ChunkSize(t) = Continue(r)
    <2>1. w.buf = rest.buf /\ w.consumed = rest.consumed
      BY <1>8 DEF SameButBody
    <2>2. ChunkSize(t) = Continue([w EXCEPT !.buf = Drop(@, Len(p)), !.consumed = @ + n,
                                            !.state = "chunkCRLF"])
      BY <1>7 DEF ChunkComplete
    <2> HIDE DEF w, p
    <2> QED
      BY <2>1, <2>2
  <1>10. Window(b, a + n, x.q)
    BY <1>3, <1>4, <1>5, WindowDrop
  <1>11. b \in Seq(AnyUnit) /\ Len(b) <= Len(rest.buf) /\ Len(b) \in Nat /\ Len(rest.buf) \in Nat
    <2>1. Len(rest.buf) \in Nat
      BY <1>8
    <2>2. IsDrop(b, rest.buf, Len(p))
      BY <1>8, <2>1, DropFacts
    <2>3. Len(b) = Len(rest.buf) - Len(p) /\ b \in Seq(AnyUnit)
      <3> HIDE DEF b, p
      <3> QED
        BY <2>2 DEF IsDrop
    <2> HIDE DEF b, p
    <2> QED
      BY <1>8, <2>1, <2>3
  <1>12. /\ k \in Nat /\ a + n \in 0..x.e /\ rest.wireBytes = k + (x.e - (a + n)) /\ a + n \in Nat
    <2>1. rest.consumed \in Nat /\ n <= x.e - a
      BY <1>5 DEF Stream, n
    <2>2. /\ x.e \in Nat /\ a \in Nat /\ a <= x.e /\ n \in Nat
          /\ rest.wireBytes = rest.consumed + (x.e - a) /\ k = rest.consumed + n
      BY <1>3, <1>4, <1>5
    <2> HIDE DEF a, k
    <2>6. k \in Nat
      <3>1. rest.consumed \in Nat /\ n \in Nat /\ k = rest.consumed + n
        BY <2>1, <2>2
      <3> QED
        BY <3>1
    <2>3. k \in Nat /\ a + n \in Nat
      BY <2>2, <2>6
    <2>4. a + n <= x.e
      BY <2>1, <2>2
    <2>5. rest.wireBytes = k + (x.e - (a + n))
      BY <2>1, <2>2
    <2> QED
      BY <2>2, <2>3, <2>4, <2>5
  <1> HIDE DEF p, w, b, k
  <1>13. /\ r \in Stream /\ r.buf = b /\ r.consumed = k /\ r.state = "chunkCRLF"
         /\ r.bodyBuf = w.bodyBuf /\ r.bodyTruncated = w.bodyTruncated /\ r.abandoned = w.abandoned
         /\ r.wireBytes = w.wireBytes /\ r.pendingMsg = w.pendingMsg
    BY <1>8, <1>11, <1>12 DEF Stream, States
  <1> HIDE DEF r
  <1>14. InCrlf(r, a + n, m, i)
    <2>1. Kept(r, m, Upto(m, i))
      BY <1>3, <1>8, <1>13 DEF Kept
    <2>2. a + n = CS(m, i) + 3 + conv[m].chunks[i]
      BY <1>1 DEF n
    <2>3. r.pendingMsg.id = m
      BY <1>1, <1>5, <1>8, <1>13 DEF SameButBody
    <2> HIDE DEF a
    <2> QED
      BY <1>1, <2>1, <2>2, <2>3 DEF InCrlf, InChunks
  <1>15. At(r, o, a + n, m, i, x)
    <2>1. ~r.abandoned /\ r.pendingMsg.ts = x.b[m] /\ r.wireBytes = r.consumed + (x.e - (a + n))
      BY <1>1, <1>5, <1>6, <1>8, <1>12, <1>13 DEF SameButBody
    <2>2. Window(r.buf, a + n, x.q)
      BY <1>10, <1>13
    <2> HIDE DEF a
    <2> QED
      BY <1>6, <1>12, <1>13, <1>14, <2>1, <2>2 DEF At, InState, Stamp
  <1>16. Size(r) < Size(t)
    <2>1. Len(t.buf) \in Nat
      BY PlaceFacts
    <2>2. Size(r) = Len(b) + 1 /\ Size(t) = Len(t.buf)
      BY <1>11, <1>13, <2>1, t.state = "chunkSize" DEF Size
    <2> QED
      BY <1>5, <1>11, <2>1, <2>2
  <1> HIDE DEF a
  <1>17. Outcome(Continue(r), t, o, x)
    BY <1>12, <1>15, <1>16, OutcomeOf
  <1> QED
    BY <1>9, <1>17

(* The rest of the chunk comes with later events.                           *)
LEMMA SizeIncomplete ==
    ASSUME Sent, NEW t, NEW o, NEW x, NEW c \in Nat, NEW m \in Nat, NEW i \in Nat,
           Ctx(x), At(t, o, c, m, i, x), t.state = "chunkSize", x.q >= c + 3,
           i \in 1..Len(conv[m].chunks), x.e - (c + 3) < conv[m].chunks[i]
    PROVE  Outcome(ChunkSize(t), t, o, x)
  <1> DEFINE rest == ChunkSizeRest(t)
             n == conv[m].chunks[i]
             a == c + 3
             d == Upto(m, i - 1)
             dd == x.e - a
             p == Take(rest.buf, n)
             w == TakeSample(rest, p, dd)
             k == rest.consumed + dd
             r == [w EXCEPT !.buf = <<>>, !.consumed = k, !.chunkRemaining = n - dd,
                            !.state = "chunkData"]
  <1>1. /\ Eats(rest, t, 3, c, x.q, x.e) /\ ChunkSizeGoes(t, m, i)
        /\ m \in 1..N /\ Framed(conv[m]) /\ i \in 1..Len(conv[m].chunks) + 1 /\ c = CS(m, i)
        /\ t.pendingMsg.id = m /\ Kept(rest, m, d) /\ t.pendingMsg.ts = x.b[m]
    BY SizeWhole
  <1>2. ChunkPlaced(m, i) /\ ends[m] \in Nat
    BY <1>1, FramedPlace
  <1>3. /\ n \in Nat /\ n # 0 /\ a \in Nat /\ d \in Nat /\ DataFrom(a, m, d, n)
        /\ a + n + 7 <= ends[m]
    <2>1. /\ n \in Nat /\ n # 0 /\ d \in Nat /\ DataFrom(CS(m, i) + 3, m, d, n)
          /\ CS(m, i) + 10 + n <= ends[m]
      BY <1>2 DEF ChunkPlaced
    <2>2. a = CS(m, i) + 3 /\ a \in Nat
      BY <1>1
    <2>3. a + n + 7 <= ends[m]
      <3> HIDE DEF n
      <3> QED
        BY <1>1, <1>2, <2>1
    <2> HIDE DEF a, n, d
    <2> QED
      BY <2>1, <2>2, <2>3
  <1>4. x.q \in Nat /\ x.e \in Nat /\ x.q <= x.e
    BY PlaceFacts
  <1>5. /\ rest \in Stream /\ Window(rest.buf, a, x.q) /\ a \in 0..x.e /\ Unconsumed(rest) = x.e - a
        /\ rest.wireBytes = rest.consumed + (x.e - a)
        /\ rest.abandoned = t.abandoned /\ rest.pendingMsg = t.pendingMsg
    BY <1>1 DEF Eats, Same
  <1>6. ~t.abandoned /\ Good(o, m, x) /\ Later(m, x)
    BY DEF At
  <1>7. dd \in Nat /\ dd < n /\ n - dd \in Nat /\ n - dd # 0 /\ x.e + (n - dd) = a + n
    <2>1. dd < n
      OBVIOUS
    <2>2. a \in Nat /\ a <= x.e /\ n \in Nat /\ x.e \in Nat
      BY <1>3, <1>4, <1>5
    <2> HIDE DEF n, a
    <2> QED
      BY SMTT(30), <2>1, <2>2
  <1>8. ChunkSize(t) = ChunkIncomplete(rest, n)
    <2>1. SizeAt(m, i) = n
      BY SMTT(30), <1>2, Len(conv[m].chunks) \in Nat DEF SizeAt, ChunkPlaced
    <2>2. Unconsumed(rest) = dd
      BY <1>5
    <2> HIDE DEF rest, n, dd
    <2>3. ~(Unconsumed(rest) >= n)
      BY <1>3, <1>7, <2>2
    <2> QED
      BY <1>1, <1>3, <2>1, <2>3 DEF ChunkSizeGoes, rest
  <1> HIDE DEF rest, n, d
  <1>9. /\ w \in Stream /\ SameButBody(w, rest) /\ Kept(w, m, d + dd)
    <2>1. /\ MaxBodyBytes \in Nat /\ Kept(rest, m, d) /\ a <= x.e /\ dd <= n
          /\ (dd = n \/ dd = x.e - a)
      BY SMTT(30), <1>1, <1>3, <1>5, <1>7 DEF Sent
    <2>2. rest \in Stream /\ Window(rest.buf, a, x.q) /\ a \in Nat /\ DataFrom(a, m, d, n)
      BY <1>3, <1>5
    <2>3. TakesPart(rest, rest.buf, n, dd, m, d)
      <3> HIDE DEF a, dd
      <3> QED
        BY <1>3, <1>4, <1>7, <2>1, <2>2, BodyPart
    <2> HIDE DEF dd
    <2> QED
      BY <2>3 DEF TakesPart
  <1>10. ChunkSize(t) = Return(r)
    <2>1. w.consumed = rest.consumed /\ Unconsumed(rest) = dd
      BY <1>5, <1>9 DEF SameButBody
    <2>2. ChunkSize(t) = Return([w EXCEPT !.buf = <<>>, !.consumed = @ + dd,
                                          !.chunkRemaining = n - dd, !.state = "chunkData"])
      <3> HIDE DEF dd
      <3> QED
        BY <1>8, <2>1 DEF ChunkIncomplete
    <2> HIDE DEF w, p, dd
    <2> QED
      BY <2>1, <2>2
  <1>11. k \in Nat /\ rest.wireBytes = k
    <2>1. rest.consumed \in Nat
      BY <1>5 DEF Stream
    <2> QED
      BY <1>5, <1>7, <2>1
  <1> HIDE DEF p, w, k
  <1>12. /\ r \in Stream /\ r.buf = <<>> /\ r.consumed = k /\ r.state = "chunkData"
         /\ r.bodyBuf = w.bodyBuf /\ r.bodyTruncated = w.bodyTruncated /\ r.abandoned = w.abandoned
         /\ r.wireBytes = w.wireBytes /\ r.pendingMsg = w.pendingMsg /\ r.chunkRemaining = n - dd
    <2> DEFINE left == n - dd
    <2>1. left \in Nat /\ k \in Nat /\ w \in Stream
      BY <1>7, <1>9, <1>11
    <2>2. r = [w EXCEPT !.buf = <<>>, !.consumed = k, !.chunkRemaining = left, !.state = "chunkData"]
      OBVIOUS
    <2> HIDE DEF left, r
    <2>3. /\ r \in Stream /\ r.buf = <<>> /\ r.consumed = k /\ r.state = "chunkData"
          /\ r.bodyBuf = w.bodyBuf /\ r.bodyTruncated = w.bodyTruncated /\ r.abandoned = w.abandoned
          /\ r.wireBytes = w.wireBytes /\ r.pendingMsg = w.pendingMsg /\ r.chunkRemaining = left
      <3>1. <<>> \in Seq(AnyUnit)
        OBVIOUS
      <3> QED
        BY <2>1, <2>2, <3>1 DEF Stream, States
    <2> QED
      BY <2>3 DEF left
  <1> HIDE DEF r
  <1>13. InData(r, x.e, m, i, x)
    <2>1. Kept(r, m, Upto(m, i - 1) + (x.e - (CS(m, i) + 3)))
      <3>1. d + dd = Upto(m, i - 1) + (x.e - (CS(m, i) + 3))
        BY <1>1 DEF d
      <3> QED
        BY <1>9, <1>12, <3>1 DEF Kept
    <2>2. CS(m, i) + 3 <= x.e
      BY <1>1, <1>4, <1>5
    <2>3. x.e + r.chunkRemaining = CS(m, i) + 3 + conv[m].chunks[i] /\ r.chunkRemaining # 0
      <3>1. a + n = CS(m, i) + 3 + conv[m].chunks[i]
        BY <1>1 DEF n
      <3> HIDE DEF a, dd
      <3> QED
        BY <1>7, <1>12, <3>1
    <2>4. r.pendingMsg.id = m
      BY <1>1, <1>5, <1>9, <1>12 DEF SameButBody
    <2> QED
      BY <1>1, <1>12, <2>1, <2>2, <2>3, <2>4 DEF InData, InChunks
  <1>14. Window(<<>>, x.e, x.q) /\ Window(<<>>, x.e, x.e)
    BY <1>4, WindowEmpty
  <1>15. At(r, o, x.e, m, i, x)
    <2>1. r.wireBytes = r.consumed + (x.e - x.e) /\ x.e \in 0..x.e
      BY <1>4, <1>9, <1>11, <1>12 DEF SameButBody
    <2>2. ~r.abandoned /\ r.pendingMsg.ts = x.b[m]
      BY <1>1, <1>5, <1>6, <1>9, <1>12 DEF SameButBody
    <2> QED
      BY <1>6, <1>12, <1>13, <1>14, <2>1, <2>2 DEF At, InState, Stamp
  <1>16. Still(r, x.e, m, x)
    <2>1. x.e < ends[m] /\ x.q < ends[m]
      <3> HIDE DEF a, dd
      <3> QED
        BY SMTT(30), <1>2, <1>3, <1>4, <1>7
    <2>2. Window(r.buf, x.e, x.e) /\ Len(r.buf) <= 4
      BY <1>12, <1>14
    <2> QED
      BY <2>1, <2>2 DEF Still
  <1>17. Outcome(Return(r), t, o, x)
    BY <1>4, <1>15, <1>16, OutcomeOf
  <1> QED
    BY <1>10, <1>17

(* In the state chunkSize.                                                  *)
LEMMA SizeStep ==
    ASSUME Sent, NEW t, NEW o, NEW x, NEW c \in Nat, NEW m \in Nat, NEW i \in Nat,
           Ctx(x), At(t, o, c, m, i, x), t.state = "chunkSize"
    PROVE  Outcome(ChunkSize(t), t, o, x)
  <1>1. /\ x.q \in Nat /\ x.e \in Nat /\ m \in 1..N /\ Framed(conv[m])
        /\ i \in 1..Len(conv[m].chunks) + 1
    BY PlaceFacts, t.state = "chunkSize" DEF At, InState, InSize, InChunks
  <1>2. Len(conv[m].chunks) \in Nat /\ \A j \in 1..Len(conv[m].chunks) : ChunkPlaced(m, j)
    BY <1>1, FramedPlace
  <1>3. CASE x.q < c + 3
    BY <1>3, SizeWait
  <1>4. CASE x.q >= c + 3 /\ i = Len(conv[m].chunks) + 1
    BY <1>4, SizeLast
  <1>5. CASE x.q >= c + 3 /\ i \in 1..Len(conv[m].chunks)
    <2> DEFINE n == conv[m].chunks[i]
    <2>1. n \in Nat
      BY <1>2, <1>5 DEF ChunkPlaced
    <2> HIDE DEF n
    <2>2. x.e - (c + 3) >= n \/ x.e - (c + 3) < n
      BY <1>1, <2>1
    <2> QED
      BY <1>5, <2>2, SizeComplete, SizeIncomplete DEF n
  <1>6. i = Len(conv[m].chunks) + 1 \/ i \in 1..Len(conv[m].chunks)
    BY <1>1, <1>2
  <1> QED
    BY <1>1, <1>3, <1>4, <1>5, <1>6

(* The CRLF after a chunk.                                                  *)
LEMMA CrlfPassed ==
    ASSUME Sent, NEW t, NEW o, NEW x, NEW c \in Nat, NEW m \in Nat, NEW i \in Nat,
           Ctx(x), InCrlf(t, c, m, i), Good(o, m, x), Later(m, x), x.al => t.pendingMsg.ts = x.b[m],
           NEW r \in Stream, r.state = "chunkSize", r.pendingMsg = t.pendingMsg,
           r.bodyBuf = t.bodyBuf, r.bodyTruncated = t.bodyTruncated, ~r.abandoned,
           Window(r.buf, c + 2, x.q), c + 2 \in 0..x.e, r.wireBytes = r.consumed + (x.e - (c + 2))
    PROVE  At(r, o, c + 2, m, i + 1, x)
  <1>1. /\ m \in 1..N /\ Framed(conv[m]) /\ i \in 1..Len(conv[m].chunks)
        /\ c = CS(m, i) + 3 + conv[m].chunks[i] /\ Kept(t, m, Upto(m, i)) /\ t.pendingMsg.id = m
        /\ Good(o, m, x) /\ Later(m, x) /\ (x.al => t.pendingMsg.ts = x.b[m])
    BY DEF InCrlf, InChunks
  <1>2. ChunkPlaced(m, i)
    BY <1>1, FramedPlace
  <1>3. CS(m, i + 1) = c + 2 /\ i + 1 \in 1..Len(conv[m].chunks) + 1 /\ i + 1 - 1 = i
    <2> DEFINE n == conv[m].chunks[i]
    <2>1. /\ n \in Nat /\ CS(m, i) \in Nat /\ CS(m, i + 1) = CS(m, i) + 5 + n
          /\ c = CS(m, i) + 3 + n /\ i + 1 \in 1..Len(conv[m].chunks) + 1
      BY <1>1, <1>2 DEF ChunkPlaced
    <2> HIDE DEF n
    <2> QED
      BY <2>1
  <1>4. InSize(r, c + 2, m, i + 1)
    <2>1. Kept(r, m, Upto(m, i + 1 - 1))
      BY <1>1, <1>3 DEF Kept
    <2> QED
      BY <1>1, <1>3, <2>1 DEF InSize, InChunks
  <1> QED
    BY <1>1, <1>4 DEF At, InState, Stamp

LEMMA CrlfTaken ==
    ASSUME Sent, NEW t, NEW o, NEW x, NEW c \in Nat, NEW m \in Nat, NEW i \in Nat,
           Ctx(x), At(t, o, c, m, i, x), t.state = "chunkCRLF",
           NEW r \in Stream, r.state = "chunkSize", r.pendingMsg = t.pendingMsg,
           r.bodyBuf = t.bodyBuf, r.bodyTruncated = t.bodyTruncated, ~r.abandoned,
           Window(r.buf, c + 2, x.q), c + 2 \in 0..x.e, r.wireBytes = r.consumed + (x.e - (c + 2))
    PROVE  At(r, o, c + 2, m, i + 1, x)
  <1>1. /\ InCrlf(t, c, m, i) /\ Good(o, m, x) /\ Later(m, x)
        /\ (x.al => t.pendingMsg.ts = x.b[m])
    BY t.state = "chunkCRLF" DEF At, InState, Stamp
  <1> QED
    BY <1>1, CrlfPassed

CrlfPlaced(t, c, m, x) ==
    /\ m \in 1..N /\ Framed(conv[m]) /\ Window(t.buf, c, x.q) /\ x.al /\ loss # "any"
    /\ wire[c + 1] = CR /\ wire[c + 2] = LF /\ c + 7 <= ends[m] /\ ends[m] \in Nat
    /\ ~t.abandoned /\ t.wireBytes = t.consumed + (x.e - c)

LEMMA CrlfPlace ==
    ASSUME Sent, NEW t, NEW o, NEW x, NEW c \in Nat, NEW m \in Nat, NEW i \in Nat,
           Ctx(x), At(t, o, c, m, i, x), t.state = "chunkCRLF"
    PROVE  CrlfPlaced(t, c, m, x)
  <1> DEFINE n == conv[m].chunks[i]
             a == CS(m, i)
  <1>1. /\ m \in 1..N /\ Framed(conv[m]) /\ i \in 1..Len(conv[m].chunks) /\ c = a + 3 + n
        /\ Window(t.buf, c, x.q) /\ ~t.abandoned /\ t.wireBytes = t.consumed + (x.e - c)
    BY t.state = "chunkCRLF" DEF At, InState, InCrlf, InChunks
  <1>2. ChunkPlaced(m, i) /\ x.al /\ loss # "any" /\ ends[m] \in Nat
    BY <1>1, FramedPlace
  <1>3. /\ a \in Nat /\ n \in Nat /\ a + 10 + n <= ends[m]
        /\ wire[a + 3 + n + 1] = CR /\ wire[a + 3 + n + 2] = LF
    BY <1>2 DEF ChunkPlaced
  <1> HIDE DEF n, a
  <1>4. c + 7 <= ends[m]
    BY <1>1, <1>2, <1>3
  <1>5. wire[c + 1] = CR /\ wire[c + 2] = LF
    BY <1>1, <1>3
  <1> QED
    BY <1>1, <1>2, <1>4, <1>5 DEF CrlfPlaced

(* The CRLF is not all there.                                               *)
LEMMA CrlfWait ==
    ASSUME Sent, NEW t, NEW o, NEW x, NEW c \in Nat, NEW m \in Nat, NEW i \in Nat,
           Ctx(x), At(t, o, c, m, i, x), t.state = "chunkCRLF", x.e < c + 2
    PROVE  Outcome(ChunkCRLF(t), t, o, x)
  <1>1. /\ x.q \in Nat /\ x.e \in Nat /\ c <= x.e /\ x.q <= x.e /\ Len(t.buf) \in Nat
        /\ Unconsumed(t) = x.e - c
    BY PlaceFacts
  <1>2. /\ Window(t.buf, c, x.q) /\ x.al /\ loss # "any" /\ wire[c + 1] = CR
        /\ c + 7 <= ends[m] /\ ends[m] \in Nat
    BY CrlfPlace DEF CrlfPlaced
  <1>3. Len(t.buf) < 2
    <2>1. CASE x.q >= c
      <3>1. Len(t.buf) = x.q - c
        BY <1>1, <1>2, <2>1, WindowLen
      <3> QED
        BY <1>1, <2>1, <3>1
    <2>2. CASE x.q < c
      <3>1. Len(t.buf) = 0
        BY <1>1, <1>2, <2>2, WindowLen
      <3> QED
        BY <3>1
    <2> QED
      BY <1>1, <2>1, <2>2
  <1>4. ChunkCRLF(t) = Return(t)
    <2>1. ~(Unconsumed(t) >= 2)
      BY <1>1
    <2> QED
      BY <1>3, <2>1 DEF ChunkCRLF
  <1>5. Window(t.buf, c, x.e) \/ Stuck(t, c, x)
    <2>1. CASE x.e = c \/ x.q = x.e
      BY <1>1, <1>2, <2>1, WindowToEnd
    <2>2. CASE x.e = c + 1 /\ x.q < x.e
      <3>1. wire[x.e].k = "cr"
        BY <1>2, <2>2, UnitFacts
      <3>2. ~x.full
        BY <1>2, <2>2, <3>1 DEF Ctx
      <3>3. x.q <= c
        BY <1>1, <2>2
      <3>4. t.buf = <<>>
        BY <1>1, <1>2, <3>3, WindowLen
      <3> QED
        BY <2>2, <3>2, <3>4, t.state = "chunkCRLF" DEF Stuck
    <2> QED
      BY <1>1, <2>1, <2>2
  <1>6. Still(t, c, m, x)
    <2>1. c < ends[m] /\ x.q < ends[m] /\ Len(t.buf) <= 4
      BY <1>1, <1>2, <1>3
    <2> QED
      BY <1>5, <2>1 DEF Still
  <1> QED
    BY <1>4, <1>6, OutcomeOf

(* It is taken on trust.                                                    *)
LEMMA CrlfTrusted ==
    ASSUME Sent, NEW t, NEW o, NEW x, NEW c \in Nat, NEW m \in Nat, NEW i \in Nat,
           Ctx(x), At(t, o, c, m, i, x), t.state = "chunkCRLF", x.e >= c + 2, Len(t.buf) < 2
    PROVE  Outcome(ChunkCRLF(t), t, o, x)
  <1> DEFINE k == t.consumed + 2
             r == [t EXCEPT !.buf = <<>>, !.consumed = k, !.state = "chunkSize"]
  <1>1. /\ x.q \in Nat /\ x.e \in Nat /\ c <= x.e /\ x.q <= x.e /\ Len(t.buf) \in Nat
        /\ Unconsumed(t) = x.e - c /\ t \in Stream /\ t.consumed \in Nat
    BY PlaceFacts
  <1>2. Window(t.buf, c, x.q) /\ ~t.abandoned /\ t.wireBytes = t.consumed + (x.e - c)
    BY CrlfPlace DEF CrlfPlaced
  <1>3. ChunkCRLF(t) = Continue(r)
    <2>1. Unconsumed(t) >= 2
      BY <1>1
    <2> QED
      BY <2>1 DEF ChunkCRLF
  <1>4. x.q <= c + 2
    <2>1. CASE x.q >= c
      <3>1. Len(t.buf) = x.q - c
        BY <1>1, <1>2, <2>1, WindowLen
      <3> QED
        BY <1>1, <2>1, <3>1
    <2> QED
      BY <1>1, <2>1
  <1>5. Window(<<>>, c + 2, x.q)
    BY <1>1, <1>4, WindowEmpty
  <1>6. k \in Nat /\ t.wireBytes = k + (x.e - (c + 2)) /\ c + 2 \in 0..x.e
    <2>1. t.consumed \in Nat /\ x.e \in Nat /\ t.wireBytes = t.consumed + (x.e - c) /\ c + 2 <= x.e
      BY <1>1, <1>2
    <2>2. t.wireBytes = t.consumed + 2 + (x.e - (c + 2))
      BY SMTT(30), <2>1
    <2>3. k \in Nat /\ c + 2 \in 0..x.e
      BY <2>1
    <2> QED
      BY <2>2, <2>3
  <1> HIDE DEF k
  <1>7. /\ r \in Stream /\ r.buf = <<>> /\ r.consumed = k /\ r.state = "chunkSize"
        /\ r.bodyBuf = t.bodyBuf /\ r.bodyTruncated = t.bodyTruncated /\ r.abandoned = t.abandoned
        /\ r.wireBytes = t.wireBytes /\ r.pendingMsg = t.pendingMsg
    <2>1. <<>> \in Seq(AnyUnit)
      OBVIOUS
    <2> QED
      BY <1>1, <1>6, <2>1 DEF Stream, States
  <1> HIDE DEF r
  <1>8. At(r, o, c + 2, m, i + 1, x)
    BY <1>2, <1>5, <1>6, <1>7, CrlfTaken
  <1>9. Size(r) < Size(t)
    <2>1. Size(r) = 0 /\ Size(t) = Len(t.buf) + 1
      BY <1>7, t.state = "chunkCRLF" DEF Size
    <2> QED
      BY <1>1, <2>1
  <1>10. Outcome(Continue(r), t, o, x)
    <2>1. c + 2 \in Nat /\ i + 1 \in Nat
      OBVIOUS
    <2> QED
      BY <1>8, <1>9, <2>1, OutcomeOf
  <1> QED
    BY <1>3, <1>10

(* It is in the buffer.                                                     *)
LEMMA CrlfThere ==
    ASSUME Sent, NEW t, NEW o, NEW x, NEW c \in Nat, NEW m \in Nat, NEW i \in Nat,
           Ctx(x), At(t, o, c, m, i, x), t.state = "chunkCRLF", Len(t.buf) >= 2
    PROVE  Outcome(ChunkCRLF(t), t, o, x)
  <1> DEFINE h == 2
             k == t.consumed + h
             v == [t EXCEPT !.buf = Drop(@, h), !.consumed = k]
             r == [v EXCEPT !.state = "chunkSize"]
  <1>1. /\ x.q \in Nat /\ x.e \in Nat /\ c <= x.e /\ x.q <= x.e /\ Len(t.buf) \in Nat
        /\ Unconsumed(t) = x.e - c /\ t \in Stream /\ t.consumed \in Nat /\ t.buf \in Seq(AnyUnit)
    BY PlaceFacts
  <1>2. /\ Window(t.buf, c, x.q) /\ wire[c + 1] = CR /\ wire[c + 2] = LF
        /\ ~t.abandoned /\ t.wireBytes = t.consumed + (x.e - c)
    BY CrlfPlace DEF CrlfPlaced
  <1>3. IsPrefix(CRLF, t.buf)
    <2>1. t.buf[1] = CR /\ t.buf[2] = LF
      <3>1. 1 \in 1..Len(t.buf) /\ 2 \in 1..Len(t.buf)
        BY <1>1
      <3> QED
        BY <1>2, <3>1 DEF Window
    <2>2. \A j \in 1..2 : t.buf[j] = CRLF[j]
      BY <2>1, CRLFFacts
    <2> QED
      BY <1>1, <2>2, CRLFFacts, PrefixFacts
  <1>4. ChunkCRLF(t) = Continue([t EXCEPT !.buf = Drop(@, 2), !.consumed = @ + 2, !.state = "chunkSize"])
    BY <1>1, <1>3 DEF ChunkCRLF
  <1>5. ChunkCRLF(t) = Continue(r)
    BY <1>1, <1>4 DEF Stream
  <1>6. h \in Nat /\ h > 0 /\ k \in Nat /\ k = t.consumed + h /\ h <= Len(t.buf)
    BY <1>1
  <1> HIDE DEF h, k, v
  <1>7. Eats(v, t, h, c, x.q, x.e)
    BY <1>1, <1>2, <1>6, ConsumeFacts DEF v
  <1>8. /\ r \in Stream /\ r.buf = v.buf /\ r.consumed = v.consumed /\ r.state = "chunkSize"
        /\ r.bodyBuf = v.bodyBuf /\ r.bodyTruncated = v.bodyTruncated /\ r.abandoned = v.abandoned
        /\ r.wireBytes = v.wireBytes /\ r.pendingMsg = v.pendingMsg
    BY <1>7 DEF Eats, Same, Stream, States
  <1> HIDE DEF r
  <1>9. At(r, o, c + 2, m, i + 1, x)
    <2>1. /\ Window(r.buf, c + 2, x.q) /\ c + 2 \in 0..x.e /\ ~r.abandoned
          /\ r.wireBytes = r.consumed + (x.e - (c + 2)) /\ r.pendingMsg = t.pendingMsg
          /\ r.bodyBuf = t.bodyBuf /\ r.bodyTruncated = t.bodyTruncated
      BY <1>2, <1>7, <1>8 DEF Eats, Same, h
    <2> QED
      BY <1>8, <2>1, CrlfTaken
  <1>10. Size(r) < Size(t)
    <2>1. Len(r.buf) = Len(t.buf) - 2
      BY <1>7, <1>8 DEF Eats, h
    <2>2. Size(r) = Len(r.buf) + 0 /\ Size(t) = Len(t.buf) + 1
      BY <1>8, t.state = "chunkCRLF" DEF Size
    <2> QED
      BY <1>1, <2>1, <2>2
  <1>11. Outcome(Continue(r), t, o, x)
    <2>1. c + 2 \in Nat /\ i + 1 \in Nat
      OBVIOUS
    <2> QED
      BY <1>9, <1>10, <2>1, OutcomeOf
  <1> QED
    BY <1>5, <1>11

(* In the state chunkCRLF.                                                  *)
LEMMA CrlfStep ==
    ASSUME Sent, NEW t, NEW o, NEW x, NEW c \in Nat, NEW m \in Nat, NEW i \in Nat,
           Ctx(x), At(t, o, c, m, i, x), t.state = "chunkCRLF"
    PROVE  Outcome(ChunkCRLF(t), t, o, x)
  <1>1. x.e \in Nat /\ Len(t.buf) \in Nat
    BY PlaceFacts
  <1>2. CASE x.e < c + 2
    BY <1>2, CrlfWait
  <1>3. CASE x.e >= c + 2 /\ Len(t.buf) < 2
    BY <1>3, CrlfTrusted
  <1>4. CASE Len(t.buf) >= 2
    BY <1>4, CrlfThere
  <1> QED
    BY <1>1, <1>2, <1>3, <1>4

(* The trailer.  Where it is not all there the sample lacks nothing, and    *)
(* the stream is not abandoned.                                             *)
LEMMA TrailerPlace ==
    ASSUME Sent, NEW t, NEW o, NEW x, NEW c \in Nat, NEW m \in Nat, NEW i \in Nat,
           Ctx(x), At(t, o, c, m, i, x), t.state = "trailer"
    PROVE  LET h == TLen(conv[m]) IN
           /\ m \in 1..N /\ Window(t.buf, c, x.q) /\ x.al /\ loss # "any"
           /\ h \in {2, 5} /\ BlockAt(c, h, Unit("field", 0)) /\ ends[m] = c + h /\ ends[m] \in Nat
           /\ \A j \in 1..h : ~Opaque(c + j)
           /\ t.pendingMsg.id = m /\ t.pendingMsg.ts = x.b[m] /\ Kept(t, m, Total(m))
           /\ t.wireBytes = t.consumed + (x.e - c) /\ ~t.abandoned /\ Good(o, m, x) /\ Later(m, x)
  <1>1. /\ m \in 1..N /\ Framed(conv[m]) /\ c = CS(m, Len(conv[m].chunks) + 1) + 3
        /\ Window(t.buf, c, x.q) /\ t.pendingMsg.id = m /\ Kept(t, m, Total(m))
        /\ (x.al => t.pendingMsg.ts = x.b[m]) /\ t.wireBytes = t.consumed + (x.e - c)
        /\ ~t.abandoned /\ Good(o, m, x) /\ Later(m, x)
    BY t.state = "trailer" DEF At, InState, InTrailer, InChunks, Stamp
  <1>2. LastPlaced(m) /\ x.al /\ loss # "any" /\ ends[m] \in Nat
    BY <1>1, FramedPlace
  <1>3. LET h == TLen(conv[m]) IN
        /\ h \in {2, 5} /\ BlockAt(c, h, Unit("field", 0)) /\ ends[m] = c + h
        /\ \A j \in 1..h : ~Opaque(c + j)
    BY <1>1, <1>2 DEF LastPlaced
  <1> QED
    BY <1>1, <1>2, <1>3

LEMMA TrailerWait ==
    ASSUME Sent, NEW t, NEW o, NEW x, NEW c \in Nat, NEW m \in Nat, NEW i \in Nat,
           Ctx(x), At(t, o, c, m, i, x), t.state = "trailer", x.q < ends[m]
    PROVE  Outcome(Trailer(t, x.p + 1), t, o, x)
  <1> DEFINE h == TLen(conv[m])
             u == Unit("field", 0)
  <1>1. /\ x.q \in Nat /\ x.e \in Nat /\ c <= x.e /\ x.q <= x.e /\ Len(t.buf) \in Nat
        /\ Unconsumed(t) = x.e - c
    BY PlaceFacts
  <1>2. /\ Window(t.buf, c, x.q) /\ loss # "any" /\ ends[m] \in Nat
        /\ h \in {2, 5} /\ BlockAt(c, h, u) /\ ends[m] = c + h /\ \A j \in 1..h : ~Opaque(c + j)
    BY TrailerPlace
  <1>3. u # CR
    BY DEF Unit, CR
  <1> HIDE DEF h, u
  <1>4. h \in Nat \ {0} /\ x.q < c + h
    BY <1>2
  <1>5. HeaderEnd(t.buf) = 0
    BY <1>1, <1>2, <1>3, <1>4, BlockEnd
  <1>6. Window(t.buf, c, x.e) /\ x.e < c + h
    BY <1>1, <1>2, <1>4, BlockAwaited
  <1>7. Len(t.buf) = x.e - c
    BY <1>1, <1>6, WindowLen
  <1>8. Trailer(t, x.p + 1) = Return(t)
    <2>1. ~(Unconsumed(t) > Len(t.buf))
      BY <1>1, <1>7
    <2> QED
      BY <1>5, <2>1 DEF Trailer
  <1>9. Still(t, c, m, x)
    <2>1. c < ends[m] /\ x.q < ends[m] /\ Len(t.buf) <= 4
      BY <1>1, <1>2, <1>4, <1>6, <1>7
    <2> QED
      BY <1>6, <2>1 DEF Still
  <1> QED
    BY <1>8, <1>9, OutcomeOf

LEMMA TrailerThere ==
    ASSUME Sent, NEW t, NEW o, NEW x, NEW c \in Nat, NEW m \in Nat, NEW i \in Nat,
           Ctx(x), At(t, o, c, m, i, x), t.state = "trailer", x.q >= ends[m]
    PROVE  Outcome(Trailer(t, x.p + 1), t, o, x)
  <1> DEFINE h == TLen(conv[m])
             u == Unit("field", 0)
             msg == t.pendingMsg
             b == Drop(t.buf, h)
             k == Monus(Unconsumed(t), h)
             ts == IF b = <<>> THEN 0 ELSE x.p + 1
             v == [t EXCEPT !.buf = b, !.chunkRemaining = 0, !.state = "startLine",
                            !.wireBytes = k, !.consumed = 0, !.startTs = ts]
             r == BodyTaken(v)
  <1>1. /\ x.q \in Nat /\ x.e \in Nat /\ c <= x.e /\ x.q <= x.e /\ Len(t.buf) \in Nat
        /\ Unconsumed(t) = x.e - c /\ t \in Stream /\ t.buf \in Seq(AnyUnit) /\ x.p \in Nat
    BY PlaceFacts
  <1>2. /\ Window(t.buf, c, x.q) /\ loss # "any" /\ ends[m] \in Nat /\ m \in 1..N
        /\ h \in {2, 5} /\ BlockAt(c, h, u) /\ ends[m] = c + h
        /\ msg.id = m /\ msg.ts = x.b[m] /\ Kept(t, m, Total(m))
        /\ ~t.abandoned /\ Good(o, m, x) /\ Later(m, x)
    BY TrailerPlace
  <1>3. u # CR
    BY DEF Unit, CR
  <1> HIDE DEF h, u
  <1>4. h \in Nat /\ h > 0 /\ x.q >= c + h
    BY <1>2
  <1>5. HeaderEnd(t.buf) = h /\ Len(t.buf) = x.q - c
    BY <1>1, <1>2, <1>3, <1>4, BlockEnd
  <1>6. Trailer(t, x.p + 1) = Emit(v, msg)
    <2>1. HeaderEnd(t.buf) # 0
      BY <1>4, <1>5
    <2> QED
      BY <1>5, <2>1 DEF Trailer
  <1>7. h <= Len(t.buf) /\ h \in 0..Len(t.buf)
    BY <1>1, <1>4, <1>5
  <1>8. Window(b, ends[m], x.q)
    BY <1>1, <1>2, <1>4, <1>7, WindowDrop
  <1>9. b \in Seq(AnyUnit) /\ Len(b) = Len(t.buf) - h /\ Len(b) \in Nat
    <2>1. IsDrop(b, t.buf, h)
      BY <1>1, <1>7, DropFacts
    <2> HIDE DEF b
    <2> QED
      BY <1>1, <1>7, <2>1 DEF IsDrop
  <1>10. k \in Nat /\ k = x.e - ends[m] /\ ends[m] \in 0..x.e /\ ts \in Nat
    <2>1. x.e - c \in Nat /\ x.e - c >= h
      BY <1>1, <1>4
    <2>2. Monus(x.e - c, h) = x.e - c - h
      BY <1>4, <2>1, MonusFacts
    <2>3. k = x.e - ends[m] /\ k \in Nat
      BY <1>1, <1>2, <1>4, <2>1, <2>2
    <2> HIDE DEF k, b
    <2> QED
      BY SMTT(30), <1>1, <1>2, <1>4, <2>3
  <1> HIDE DEF b, k
  <1>11. /\ v \in Stream /\ v.buf = b /\ v.state = "startLine" /\ v.wireBytes = k
         /\ v.consumed = 0 /\ v.startTs = ts
         /\ v.bodyBuf = t.bodyBuf /\ v.bodyTruncated = t.bodyTruncated /\ v.abandoned = t.abandoned
    <2> HIDE DEF ts
    <2> QED
      BY <1>1, <1>9, <1>10 DEF Stream, States
  <1> HIDE DEF v
  <1>12. Kept(v, m, Total(m))
    BY <1>2, <1>11 DEF Kept
  <1>13. /\ Told(takeBody(v, msg)) /\ takeBody(v, msg) \in Emitted
         /\ takeBody(v, msg).id = m /\ takeBody(v, msg).ts = msg.ts
    <2>1. msg.ts \in Nat
      BY <1>1 DEF Stream
    <2> QED
      BY <1>2, <1>11, <1>12, <2>1, ToldFacts
  <1>14. /\ r \in Stream /\ r.state = v.state /\ r.bodyBuf = <<>> /\ ~r.bodyTruncated
         /\ r.abandoned = v.abandoned /\ r.consumed = v.consumed /\ r.wireBytes = v.wireBytes
         /\ r.buf = v.buf /\ r.startTs = v.startTs
    BY <1>11, BodyTakenFacts
  <1> HIDE DEF r, msg
  <1>15. At(r, o \o <<takeBody(v, msg)>>, ends[m], m + 1, 0, x)
    <2>1. ~r.abandoned /\ r.consumed = 0 /\ r.wireBytes = x.e - ends[m] /\ r.state = "startLine"
      BY <1>2, <1>10, <1>11, <1>14
    <2>2. x.al => takeBody(v, msg).ts = x.b[m]
      BY <1>2, <1>13
    <2>3. Window(r.buf, ends[m], x.q) /\ r.startTs = IF r.buf = <<>> THEN 0 ELSE x.p + 1
      BY <1>8, <1>11, <1>14
    <2> QED
      BY <1>2, <1>10, <1>13, <1>14, <2>1, <2>2, <2>3, NextMessage
  <1>16. Size(r) < Size(t)
    <2>1. Size(r) = Len(b) /\ Size(t) = Len(t.buf)
      BY <1>1, <1>9, <1>11, <1>14, t.state = "trailer" DEF Size
    <2> QED
      BY <1>1, <1>4, <1>9, <2>1
  <1>17. m + 1 \in Nat
    OBVIOUS
  <1>18. Outcome(Emit(v, msg), t, o, x)
    BY <1>2, <1>15, <1>16, <1>17, EmitOutcome DEF r
  <1> QED
    BY <1>6, <1>18 DEF msg

(* One iteration, in every state.                                           *)
LEMMA WaitStep ==
    ASSUME Sent, NEW t, NEW o, NEW x, NEW c \in Nat, NEW m \in Nat, NEW i \in Nat,
           Ctx(x), At(t, o, c, m, i, x), t.state \in {"body", "chunkData"}
    PROVE  Outcome(Return(t), t, o, x)
  <1>1. /\ x.q \in Nat /\ x.e \in Nat /\ x.q <= x.e
    BY PlaceFacts
  <1>2. m \in 1..N /\ c = x.e /\ t.buf = <<>> /\ c < ends[m]
    <2>1. CASE t.state = "body"
      <3>1. /\ m \in 1..N /\ c = x.e /\ t.buf = <<>>
            /\ t.bodyRemaining # 0 /\ c + t.bodyRemaining = ends[m] /\ t.bodyRemaining \in Nat
        BY <2>1 DEF At, InState, InBody, Stream
      <3> QED
        BY <3>1
    <2>2. CASE t.state = "chunkData"
      <3> DEFINE n == conv[m].chunks[i]
                 a == CS(m, i)
      <3>1. /\ m \in 1..N /\ Framed(conv[m]) /\ i \in 1..Len(conv[m].chunks)
            /\ c = x.e /\ t.buf = <<>> /\ t.chunkRemaining \in Nat
            /\ t.chunkRemaining # 0 /\ c + t.chunkRemaining = a + 3 + n
        BY <2>2 DEF At, InState, InData, InChunks, Stream
      <3>2. ChunkPlaced(m, i) /\ ends[m] \in Nat
        BY <3>1, FramedPlace
      <3>3. a \in Nat /\ n \in Nat /\ a + 10 + n <= ends[m]
        BY <3>2 DEF ChunkPlaced
      <3> HIDE DEF n, a
      <3> QED
        BY <3>1, <3>2, <3>3
    <2> QED
      BY <2>1, <2>2
  <1>3. Window(t.buf, c, x.e)
    BY <1>1, <1>2, WindowEmpty
  <1>4. Still(t, c, m, x)
    <2>1. x.q < ends[m] /\ Len(t.buf) <= 4
      <3>1. ends[m] \in Nat
        BY <1>2, MessageLine
      <3> QED
        BY <1>1, <1>2, <3>1
    <2> QED
      BY <1>2, <1>3, <2>1 DEF Still
  <1> QED
    BY <1>4, OutcomeOf

LEMMA IterateStep ==
    ASSUME Sent, NEW t, NEW o, NEW x, NEW c \in Nat, NEW m \in Nat, NEW i \in Nat,
           Ctx(x), At(t, o, c, m, i, x)
    PROVE  Outcome(Iterate(t, x.p + 1), t, o, x)
  <1>1. t.state \in States
    BY DEF At, Stream
  <1>2. CASE t.state = "startLine"
    BY <1>2, StartLineStep DEF Iterate
  <1>3. CASE t.state = "headers"
    BY <1>3, HeadersStep DEF Iterate
  <1>4. CASE t.state = "chunkSize"
    BY <1>4, SizeStep DEF Iterate
  <1>5. CASE t.state = "chunkCRLF"
    BY <1>5, CrlfStep DEF Iterate
  <1>6. CASE t.state = "trailer"
    <2>1. x.q \in Nat /\ ends[m] \in Nat
      BY <1>6, PlaceFacts, TrailerPlace
    <2>2. Outcome(Trailer(t, x.p + 1), t, o, x)
      <3>1. CASE x.q < ends[m]
        BY <1>6, <3>1, TrailerWait
      <3>2. CASE x.q >= ends[m]
        BY <1>6, <3>2, TrailerThere
      <3> QED
        BY <2>1, <3>1, <3>2
    <2> QED
      BY <1>6, <2>2 DEF Iterate
  <1>7. CASE t.state \in {"body", "chunkData"}
    <2>1. Outcome(Return(t), t, o, x)
      BY <1>7, WaitStep
    <2> QED
      BY <1>7, <2>1 DEF Iterate
  <1> QED
    BY <1>1, <1>2, <1>3, <1>4, <1>5, <1>6, <1>7 DEF States

-----------------------------------------------------------------------------
(* The loop of advance.                                                     *)

(* Every iteration emits one message or none.                               *)
IsStep(r) ==
    \E w, e : \/ \E b \in BOOLEAN : r = [s |-> w, out |-> <<>>, more |-> b]
              \/ r = [s |-> w, out |-> <<e>>, more |-> TRUE]

LEMMA IterateOut ==
    ASSUME NEW t, NEW ts, t.state \in States
    PROVE  IsStep(Iterate(t, ts))
  <1>1. \A w : IsStep(Return(w)) /\ IsStep(Continue(w))
    BY DEF Return, Continue, IsStep
  <1>2. \A w, msg : IsStep(Emit(w, msg))
    BY DEF Emit, IsStep
  <1>3. CASE t.state = "startLine"
    <2>1. Iterate(t, ts) = StartLine(t)
      BY <1>3 DEF Iterate
    <2> QED
      BY <1>1, <2>1 DEF StartLine
  <1>4. CASE t.state = "headers"
    <2>1. Iterate(t, ts) = Headers(t, ts)
      BY <1>4 DEF Iterate
    <2>2. \A w, msg, n : IsStep(BodyComplete(w, msg, n, ts)) /\ IsStep(BodyIncomplete(w, msg, n))
      BY <1>1, <1>2 DEF BodyComplete, BodyIncomplete
    <2>3. IsStep(Headers(t, ts))
      BY <1>1, <2>2 DEF Headers
    <2> QED
      BY <2>1, <2>3 
  <1>5. CASE t.state = "chunkSize"
    <2>1. Iterate(t, ts) = ChunkSize(t)
      BY <1>5 DEF Iterate
    <2>2. \A w, n : IsStep(ChunkComplete(w, n)) /\ IsStep(ChunkIncomplete(w, n))
      BY <1>1, <1>2 DEF ChunkComplete, ChunkIncomplete
    <2>3. IsStep(ChunkSize(t))
      BY <1>1, <2>2 DEF ChunkSize
    <2> QED
      BY <2>1, <2>3 
  <1>6. CASE t.state = "chunkCRLF"
    <2>1. Iterate(t, ts) = ChunkCRLF(t)
      BY <1>6 DEF Iterate
    <2>2. IsStep(ChunkCRLF(t))
      BY <1>1 DEF ChunkCRLF
    <2> QED
      BY <2>1, <2>2 
  <1>7. CASE t.state = "trailer"
    <2>1. Iterate(t, ts) = Trailer(t, ts)
      BY <1>7 DEF Iterate
    <2>2. IsStep(Trailer(t, ts))
      BY <1>1, <1>2 DEF Trailer
    <2> QED
      BY <2>1, <2>2 
  <1>8. CASE t.state \in {"body", "chunkData"}
    <2>1. Iterate(t, ts) = Return(t)
      BY <1>8 DEF Iterate
    <2> QED
      BY <1>1, <2>1 
  <1> QED
    BY <1>3, <1>4, <1>5, <1>6, <1>7, <1>8 DEF States

NextRun(last, ts) == IF last.more THEN Prepend(last.out, Iterate(last.s, ts)) ELSE last
IsRun(g, t, ts, n) == g = [k \in 0..n |-> IF k = 0 THEN Continue(t) ELSE NextRun(g[k - 1], ts)]

LEMMA RunExists == ASSUME NEW t, NEW ts, NEW n \in Nat PROVE \E g : IsRun(g, t, ts, n)
  <1> DEFINE K == {k \in Nat : \E g : IsRun(g, t, ts, k)}
  <1>1. 0 \in K
    <2>1. IsRun([k \in 0..0 |-> Continue(t)], t, ts, 0)
      BY DEF IsRun
    <2> QED
      BY <2>1
  <1>2. ASSUME NEW k \in K PROVE k + 1 \in K
    <2>1. PICK g : IsRun(g, t, ts, k)
      OBVIOUS
    <2> DEFINE h == [j \in 0..k + 1 |-> IF j = k + 1 THEN NextRun(g[k], ts) ELSE g[j]]
    <2>2. ASSUME NEW j \in 0..k + 1 PROVE h[j] = IF j = 0 THEN Continue(t) ELSE NextRun(h[j - 1], ts)
      <3>1. CASE j = k + 1
        <4>1. j # 0 /\ j - 1 = k /\ k \in 0..k + 1 /\ k # k + 1
          BY <3>1
        <4>2. h[k] = g[k] /\ h[j] = NextRun(g[k], ts)
          BY <3>1, <4>1
        <4> HIDE DEF h
        <4> QED
          BY <3>1, <4>1, <4>2
      <3>2. CASE j # k + 1
        <4>1. j \in 0..k
          BY <3>2
        <4>2. g[j] = IF j = 0 THEN Continue(t) ELSE NextRun(g[j - 1], ts)
          BY <2>1, <4>1 DEF IsRun
        <4> QED
          BY <4>1, <4>2
      <3> QED
        BY <3>1, <3>2
    <2>3. IsRun(h, t, ts, k + 1)
      BY <2>2 DEF IsRun
    <2> QED
      BY <2>3
  <1>3. K = Nat
    <2> HIDE DEF K
    <2>1. K \subseteq Nat
      BY DEF K
    <2> QED
      BY <1>1, <1>2, <2>1, Induct
  <1> QED
    BY <1>3

LEMMA AdvanceDef ==
    ASSUME NEW t, NEW ts, Len(t.buf) \in Nat
    PROVE  \E g : IsRun(g, t, ts, Len(t.buf) + 2) /\ advance(t, ts) = g[Len(t.buf) + 2]
  <1> DEFINE rounds == Len(t.buf) + 2
             run[k \in 0..rounds] ==
                 IF k = 0 THEN Continue(t)
                 ELSE LET last == run[k - 1] IN
                      IF last.more THEN Prepend(last.out, Iterate(last.s, ts)) ELSE last
  <1>1. advance(t, ts) = run[rounds]
    BY Zenon DEF advance
  <1>2. rounds \in Nat
    OBVIOUS
  <1>3. IsRun(run, t, ts, rounds)
    <2> HIDE DEF rounds
    <2>1. \E g : IsRun(g, t, ts, rounds)
      BY <1>2, RunExists
    <2> QED
      BY <2>1, Zenon DEF IsRun, NextRun
  <1> HIDE DEF run
  <1> QED
    BY <1>1, <1>3

(* The streams between two iterations: what is left shrinks.                *)
Running(r, t, o, x, k) ==
    /\ r.out \in Seq(Emitted) /\ r.more \in BOOLEAN
    /\ \E c, m, i \in Nat : /\ At(r.s, o \o r.out, c, m, i, x)
                            /\ r.more => Size(r.s) + k <= Len(t.buf) + 1
                            /\ ~r.more => Still(r.s, c, m, x)

LEMMA SizeNat == ASSUME NEW t, t.buf \in Seq(AnyUnit) PROVE Size(t) \in Nat /\ Size(t) <= Len(t.buf) + 1
  <1>1. Len(t.buf) \in Nat
    OBVIOUS
  <1>2. Size(t) = Len(t.buf) + 1 \/ Size(t) = Len(t.buf) + 0
    BY DEF Size
  <1> QED
    BY <1>1, <1>2

LEMMA RunningFirst ==
    ASSUME Sent, NEW t, NEW o, NEW x, NEW c \in Nat, NEW m \in Nat, NEW i \in Nat,
           Ctx(x), At(t, o, c, m, i, x)
    PROVE  Running(Continue(t), t, o, x, 0)
  <1>1. Continue(t).out = <<>> /\ Continue(t).more = TRUE /\ Continue(t).s = t
    BY DEF Continue
  <1>2. o \in Seq(Emitted) /\ o \o <<>> = o /\ <<>> \in Seq(Emitted)
    BY ConcatEmptySeq DEF At, Good
  <1>3. Size(t) \in Nat /\ Size(t) <= Len(t.buf) + 1
    BY PlaceFacts, SizeNat
  <1>4. Size(t) + 0 <= Len(t.buf) + 1
    BY <1>3
  <1> HIDE DEF Continue
  <1> QED
    BY <1>1, <1>2, <1>4 DEF Running

LEMMA OneMore ==
    ASSUME NEW o \in Seq(Emitted), NEW a \in Seq(Emitted), NEW e, (o \o a) \o <<e>> \in Seq(Emitted)
    PROVE  a \o <<e>> \in Seq(Emitted) /\ (o \o a) \o <<e>> = o \o (a \o <<e>>)
  <1> DEFINE z == (o \o a) \o <<e>>
  <1>1. o \o a \in Seq(Emitted) /\ Len(o \o a) \in Nat
    OBVIOUS
  <1>2. Len(z) = Len(o \o a) + 1 /\ z[Len(o \o a) + 1] = e
    <2> HIDE DEF z
    <2>1. \A w \in Seq(Emitted) : Len(w \o <<e>>) = Len(w) + 1 /\ (w \o <<e>>)[Len(w) + 1] = e
      OBVIOUS
    <2> QED
      BY <1>1, <2>1 DEF z
  <1>3. e \in Emitted
    <2> DEFINE n == Len(o \o a) + 1
    <2>1. n \in 1..Len(z) /\ z \in Seq(Emitted) /\ z[n] = e
      BY <1>1, <1>2
    <2> HIDE DEF n, z
    <2> QED
      BY <2>1
  <1>4. <<e>> \in Seq(Emitted)
    BY <1>3
  <1>5. (o \o a) \o <<e>> = o \o (a \o <<e>>)
    BY <1>4, ConcatAssociative
  <1> QED
    BY <1>4, <1>5, ConcatProperties

LEMMA RunningNext ==
    ASSUME Sent, NEW t, NEW o, NEW x, Ctx(x), NEW k \in Nat, NEW r, Running(r, t, o, x, k),
           Len(t.buf) \in Nat, o \in Seq(Emitted)
    PROVE  Running(NextRun(r, x.p + 1), t, o, x, k + 1)
  <1>1. PICK c \in Nat, m \in Nat, i \in Nat :
           /\ At(r.s, o \o r.out, c, m, i, x)
           /\ r.more => Size(r.s) + k <= Len(t.buf) + 1
           /\ ~r.more => Still(r.s, c, m, x)
    BY DEF Running
  <1>2. r.out \in Seq(Emitted) /\ r.more \in BOOLEAN
    BY DEF Running
  <1>3. CASE ~r.more
    <2>1. NextRun(r, x.p + 1) = r
      BY <1>3 DEF NextRun
    <2> QED
      BY <1>1, <1>2, <1>3, <2>1 DEF Running
  <1>4. CASE r.more
    <2> DEFINE it == Iterate(r.s, x.p + 1)
    <2>1. NextRun(r, x.p + 1) = [it EXCEPT !.out = r.out \o @]
      BY <1>4 DEF NextRun, Prepend
    <2>2. Outcome(it, r.s, o \o r.out, x)
      BY <1>1, IterateStep
    <2>3. r.s.state \in States
      BY <1>1 DEF At, Stream
    <2>4. IsStep(it)
      BY <2>3, IterateOut
    <2> HIDE DEF it
    <2>5. PICK w, e : \/ \E b \in BOOLEAN : it = [s |-> w, out |-> <<>>, more |-> b]
                      \/ it = [s |-> w, out |-> <<e>>, more |-> TRUE]
      BY <2>4 DEF IsStep
    <2>6. PICK c2 \in Nat, m2 \in Nat, i2 \in Nat :
             /\ At(it.s, (o \o r.out) \o it.out, c2, m2, i2, x)
             /\ it.more => Size(it.s) < Size(r.s)
             /\ ~it.more => Still(it.s, c2, m2, x)
      BY <2>2 DEF Outcome
    <2> DEFINE v == NextRun(r, x.p + 1)
    <2>7. v.s = it.s /\ v.more = it.more /\ v.out = r.out \o it.out /\ it.more \in BOOLEAN
      <3>1. v = [it EXCEPT !.out = r.out \o it.out]
        BY <2>1
      <3> HIDE DEF v
      <3>2. ASSUME NEW b \in BOOLEAN, it = [s |-> w, out |-> <<>>, more |-> b]
            PROVE  v.s = it.s /\ v.more = it.more /\ v.out = r.out \o it.out /\ it.more \in BOOLEAN
        BY <3>1, <3>2
      <3>3. CASE it = [s |-> w, out |-> <<e>>, more |-> TRUE]
        BY <3>1, <3>3
      <3> QED
        BY <2>5, <3>2, <3>3
    <2>8. r.out \o it.out \in Seq(Emitted) /\ (o \o r.out) \o it.out = o \o (r.out \o it.out)
      <3>1. CASE it.out = <<>>
        <4>1. o \o r.out \in Seq(Emitted)
          BY <1>2, ConcatProperties
        <4>2. (o \o r.out) \o <<>> = o \o r.out /\ r.out \o <<>> = r.out
          BY <1>2, <4>1, ConcatEmptySeq
        <4> QED
          BY <1>2, <3>1, <4>2
      <3>2. CASE it.out = <<e>>
        <4>1. (o \o r.out) \o it.out \in Seq(Emitted)
          BY <2>6 DEF At, Good
        <4>2. (o \o r.out) \o <<e>> \in Seq(Emitted)
          BY <3>2, <4>1
        <4>3. r.out \o <<e>> \in Seq(Emitted) /\ (o \o r.out) \o <<e>> = o \o (r.out \o <<e>>)
          BY <1>2, <4>2, OneMore
        <4> QED
          BY <3>2, <4>3
      <3>3. it.out = <<>> \/ it.out = <<e>>
        BY <2>5
      <3> QED
        BY <3>1, <3>2, <3>3
    <2>9. it.more => Size(it.s) + (k + 1) <= Len(t.buf) + 1
      <3>1. Size(r.s) \in Nat /\ Size(it.s) \in Nat
        <4>1. r.s.buf \in Seq(AnyUnit) /\ it.s.buf \in Seq(AnyUnit)
          BY <1>1, <2>6 DEF At, Stream
        <4> QED
          BY <4>1, SizeNat
      <3> QED
        BY SMTT(30), <1>1, <1>4, <2>6, <3>1
    <2> HIDE DEF v
    <2>10. At(v.s, o \o v.out, c2, m2, i2, x)
      BY <2>6, <2>7, <2>8
    <2>11. Running(v, t, o, x, k + 1)
      BY <2>6, <2>7, <2>8, <2>9, <2>10 DEF Running
    <2> QED
      BY <2>11 DEF v
  <1> QED
    BY <1>2, <1>3, <1>4

(* When advance has returned nothing more can be done.                      *)
Settled(r, o, x) ==
    /\ r.out \in Seq(Emitted)
    /\ \E c, m, i \in Nat : At(r.s, o \o r.out, c, m, i, x) /\ Still(r.s, c, m, x)

(* The rounds suffice.                                                      *)
LEMMA RunEnds ==
    ASSUME NEW t, NEW o, NEW x, NEW r, Len(t.buf) \in Nat, Running(r, t, o, x, Len(t.buf) + 2)
    PROVE  Settled(r, o, x)
  <1>1. PICK c \in Nat, m \in Nat, i \in Nat :
           /\ At(r.s, o \o r.out, c, m, i, x)
           /\ r.more => Size(r.s) + (Len(t.buf) + 2) <= Len(t.buf) + 1
           /\ ~r.more => Still(r.s, c, m, x)
    BY DEF Running
  <1>2. ~r.more
    <2>1. r.s.buf \in Seq(AnyUnit)
      BY <1>1 DEF At, Stream
    <2>2. Size(r.s) \in Nat
      BY <2>1, SizeNat
    <2> QED
      BY <1>1, <2>2
  <1>3. r.out \in Seq(Emitted)
    BY DEF Running
  <1> QED
    BY <1>1, <1>2, <1>3 DEF Settled

(* The loop returns, and when it does nothing more can be done with the     *)
(* buffer.                                                                  *)
LEMMA AdvanceSettled ==
    ASSUME Sent, NEW t, NEW o, NEW x, NEW c \in Nat, NEW m \in Nat, NEW i \in Nat,
           Ctx(x), At(t, o, c, m, i, x)
    PROVE  Settled(advance(t, x.p + 1), o, x)
  <1> DEFINE n == Len(t.buf) + 2
             ts == x.p + 1
  <1>1. Len(t.buf) \in Nat /\ n \in Nat /\ o \in Seq(Emitted)
    <2>1. Len(t.buf) \in Nat
      BY PlaceFacts
    <2> QED
      BY <2>1 DEF At, Good
  <1>2. PICK g : IsRun(g, t, ts, n) /\ advance(t, ts) = g[n]
    BY <1>1, AdvanceDef
  <1> DEFINE T == {k \in 0..n : Running(g[k], t, o, x, k)}
  <1>3. 0 \in T
    <2>1. g[0] = Continue(t) /\ 0 \in 0..n
      BY <1>1, <1>2 DEF IsRun
    <2>2. Running(g[0], t, o, x, 0)
      BY <2>1, RunningFirst
    <2> QED
      BY <2>1, <2>2
  <1>4. ASSUME NEW k \in 0..n, k \in T, k < n PROVE k + 1 \in T
    <2>1. k + 1 \in 0..n /\ k + 1 # 0 /\ (k + 1) - 1 = k /\ k \in Nat
      BY <1>1, <1>4
    <2>2. g[k + 1] = NextRun(g[k], ts)
      <3> HIDE DEF n, ts
      <3>1. g[k + 1] = NextRun(g[(k + 1) - 1], ts)
        BY <1>2, <2>1 DEF IsRun
      <3> QED
        BY <2>1, <3>1
    <2>3. Running(g[k], t, o, x, k)
      BY <1>4
    <2>4. Running(NextRun(g[k], ts), t, o, x, k + 1)
      BY <1>1, <2>1, <2>3, RunningNext
    <2> QED
      BY <2>1, <2>2, <2>4
  <1>5. Running(g[n], t, o, x, n)
    <2> HIDE DEF T
    <2>1. \A k \in 0..n : k \in T
      BY <1>1, <1>3, <1>4, InductTo
    <2>2. n \in 0..n
      BY <1>1
    <2> QED
      BY <2>1, <2>2 DEF T
  <1>6. Settled(g[n], o, x)
    BY <1>1, <1>5, RunEnds
  <1> QED
    BY <1>2, <1>6

-----------------------------------------------------------------------------
(* Between two events, and in one when what was due is drained: all that    *)
(* came is in the buffer or consumed, and no message is complete; or the    *)
(* stream is abandoned; or it waits for the CRLF of a chunk, of which one   *)
(* unit came that it does not have.                                         *)

Resting(e, al, full, b) == [p |-> e, q |-> e, e |-> e, al |-> al, full |-> full, b |-> b]

Half(t, o, c, m, i, x) ==
    /\ t \in Stream /\ ~t.abandoned /\ t.state = "chunkCRLF" /\ InCrlf(t, c, m, i)
    /\ t.wireBytes = t.consumed + (x.e - c)
    /\ x.al => t.pendingMsg.ts = x.b[m]
    /\ Good(o, m, x) /\ ~x.full

Waits(t, o, x) == t.buf = <<>> /\ \E c, m, i \in Nat : c + 1 = x.e /\ Half(t, o, c, m, i, x)

Rests(t, o, al, full, e, b) ==
    \/ t \in Stream /\ t.abandoned /\ ~full /\ Good(o, 0, Resting(e, al, full, b))
    \/ \E c, m, i \in Nat : At(t, o, c, m, i, Resting(e, al, full, b))
    \/ Waits(t, o, Resting(e, al, full, b))

(* What feed returns.                                                       *)
Done(r, o, x) ==
    /\ r = [s |-> r.s, out |-> r.out, loss |-> r.loss]
    /\ r.out \in Seq(Emitted) /\ r.loss \in {0, 1}
    /\ loss # "any" => r.loss = 0
    /\ Rests(r.s, o \o r.out, x.al /\ r.loss = 0, x.full /\ r.loss = 0, x.e, x.b)

LEMMA RestingFields ==
    ASSUME NEW e, NEW al, NEW full, NEW b
    PROVE  LET y == Resting(e, al, full, b) IN y.p = e /\ y.q = e /\ y.e = e /\ y.al = al /\ y.full = full /\ y.b = b
  BY DEF Resting

(* The buffer reaches to the end of the event when nothing is missing.      *)
LEMMA StillToEnd ==
    ASSUME Sent, NEW t, NEW o, NEW x, NEW c \in Nat, NEW m \in Nat, NEW i \in Nat,
           Ctx(x), At(t, o, c, m, i, x), Still(t, c, m, x), ~Gap(t), ~Stuck(t, c, x)
    PROVE  Window(t.buf, c, x.e) /\ (x.al /\ m \in 1..N => x.e < ends[m])
  <1>1. /\ x.q \in Nat /\ x.e \in Nat /\ c <= x.e /\ x.q <= x.e /\ Len(t.buf) \in Nat
        /\ Unconsumed(t) = x.e - c
    BY PlaceFacts
  <1>2. Window(t.buf, c, x.q)
    BY DEF At
  <1>3. Len(t.buf) >= x.e - c
    <2>1. CASE Window(t.buf, c, x.e)
      <3>1. Len(t.buf) = x.e - c
        BY <1>1, <2>1, WindowLen
      <3> QED
        BY <1>1, <3>1
    <2>2. CASE ~Window(t.buf, c, x.e)
      <3>1. t.state \in {"startLine", "headers"}
        BY <2>2 DEF Still
      <3>2. ~(Unconsumed(t) > Len(t.buf))
        BY <3>1 DEF Gap
      <3> QED
        BY <1>1, <3>2
    <2> QED
      BY <2>1, <2>2
  <1>4. x.q = x.e \/ (x.q <= x.e /\ c = x.e)
    <2>1. CASE x.q >= c
      <3>1. Len(t.buf) = x.q - c
        BY <1>1, <1>2, <2>1, WindowLen
      <3> QED
        BY <1>1, <1>3, <2>1, <3>1
    <2>2. CASE x.q < c
      <3>1. x.q \in Nat /\ x.q <= c
        BY <1>1, <2>2
      <3>2. Len(t.buf) = 0
        BY <1>2, <3>1, WindowLen
      <3> QED
        BY <1>1, <1>3, <3>2
    <2> QED
      BY <1>1, <2>1, <2>2
  <1>5. Window(t.buf, c, x.e)
    BY <1>1, <1>2, <1>4, WindowToEnd
  <1>6. x.al /\ m \in 1..N => x.e < ends[m]
    BY <1>4 DEF Still
  <1> QED
    BY <1>5, <1>6

(* Nothing is missing, and the stream rests where it is.                    *)
LEMMA RestHere ==
    ASSUME Sent, NEW t, NEW o, NEW x, NEW c \in Nat, NEW m \in Nat, NEW i \in Nat,
           Ctx(x), At(t, o, c, m, i, x), Window(t.buf, c, x.e), x.al /\ m \in 1..N => x.e < ends[m]
    PROVE  At(t, o, c, m, i, Resting(x.e, x.al, x.full, x.b))
  <1> DEFINE y == Resting(x.e, x.al, x.full, x.b)
  <1>1. y.p = x.e /\ y.q = x.e /\ y.e = x.e /\ y.al = x.al /\ y.full = x.full /\ y.b = x.b
    BY RestingFields
  <1>2. /\ t \in Stream /\ ~t.abandoned /\ c \in 0..x.e /\ t.wireBytes = t.consumed + (x.e - c)
        /\ InState(t, c, m, i, x) /\ (x.al => Stamp(t, c, m, x)) /\ Good(o, m, x)
    BY DEF At
  <1> HIDE DEF y
  <1>3. InState(t, c, m, i, y)
    BY <1>1, <1>2 DEF InState, InLine, InBody, InData
  <1>4. Good(o, m, y) /\ Later(m, y)
    BY <1>1, <1>2 DEF Good, Later
  <1>5. y.al => Stamp(t, c, m, y)
    <2>1. SUFFICES ASSUME x.al PROVE Stamp(t, c, m, y)
      BY <1>1
    <2>2. Stamp(t, c, m, x)
      BY <1>2, <2>1
    <2>3. ASSUME t.state = "startLine", c < x.e PROVE t.startTs = x.b[m]
      <3>1. x.q \in Nat /\ x.e \in Nat /\ c <= x.e /\ Window(t.buf, c, x.q)
        BY PlaceFacts DEF At
      <3>2. Len(t.buf) = x.e - c
        BY <3>1, WindowLen
      <3>3. c < x.q
        <4>1. CASE x.q <= c
          <5>1. Len(t.buf) = 0
            BY <3>1, <4>1, WindowLen
          <5> QED
            BY <2>3, <3>1, <3>2, <5>1
        <4> QED
          BY <3>1, <4>1
      <3> QED
        BY <2>2, <2>3, <3>3 DEF Stamp
    <2> QED
      BY <1>1, <2>2, <2>3 DEF Stamp
  <1> QED
    BY <1>1, <1>2, <1>3, <1>4, <1>5 DEF At, y

LEMMA AbandonFacts ==
    ASSUME NEW t \in Stream PROVE abandon(t) \in Stream /\ abandon(t).abandoned
  <1>1. <<>> \in Seq(AnyUnit)
    OBVIOUS
  <1> QED
    BY <1>1 DEF abandon, Stream

(* Units of a start line or a header are missing: the stream begins again   *)
(* with the next event.                                                     *)
LEMMA ResyncRests ==
    ASSUME Sent, NEW t, NEW o, NEW x, NEW c \in Nat, NEW m \in Nat, NEW i \in Nat,
           Ctx(x), At(t, o, c, m, i, x), Gap(t)
    PROVE  /\ At(Resync(t), o, x.e, m, i, Resting(x.e, FALSE, FALSE, x.b))
           /\ Resync(t).buf = <<>>
  <1> DEFINE y == Resting(x.e, FALSE, FALSE, x.b)
             r == Resync(t)
  <1>1. y.p = x.e /\ y.q = x.e /\ y.e = x.e /\ ~y.al /\ ~y.full /\ y.b = x.b
    BY DEF Resting
  <1>2. t \in Stream /\ ~t.abandoned /\ Good(o, m, x)
    BY DEF At
  <1>3. x.e \in Nat
    BY PlaceFacts
  <1>4. t.bodyBuf = <<>> /\ ~t.bodyTruncated
    BY DEF Gap, At, InState, InLine, InHeaders
  <1>5. /\ r \in Stream /\ r.buf = <<>> /\ r.state = "startLine" /\ r.wireBytes = 0 /\ r.consumed = 0
        /\ r.bodyBuf = t.bodyBuf /\ r.bodyTruncated = t.bodyTruncated /\ r.abandoned = t.abandoned
    <2>1. <<>> \in Seq(AnyUnit)
      OBVIOUS
    <2> QED
      BY <1>2, <2>1 DEF Resync, Stream, States
  <1> HIDE DEF y, r
  <1>6. Window(<<>>, x.e, x.e)
    BY <1>3, WindowEmpty
  <1>7. InState(r, x.e, m, i, y)
    BY <1>1, <1>4, <1>5 DEF InState, InLine
  <1>8. Good(o, m, y) /\ Later(m, y)
    BY <1>1, <1>2 DEF Good, Later
  <1>9. r.wireBytes = r.consumed + (x.e - x.e) /\ x.e \in 0..x.e
    BY <1>3, <1>5
  <1>10. At(r, o, x.e, m, i, y)
    BY <1>1, <1>2, <1>5, <1>6, <1>7, <1>8, <1>9 DEF At
  <1> QED
    BY <1>5, <1>10 DEF y, r

(* A gap is noticed, and counted, just where the alignment is lost; the     *)
(* bound of the buffer is never met where it is not.                        *)
LEMMA SettleDone ==
    ASSUME Sent, NEW step, NEW o, NEW x, Ctx(x), Settled(step, o, x)
    PROVE  Done(Settle(step), o, x)
  <1> DEFINE o2 == o \o step.out
             t == step.s
             r == Settle(step)
  <1>1. PICK c \in Nat, m \in Nat, i \in Nat : At(t, o2, c, m, i, x) /\ Still(t, c, m, x)
    BY DEF Settled
  <1>2. step.out \in Seq(Emitted)
    BY DEF Settled
  <1>3. /\ x.q \in Nat /\ x.e \in Nat /\ c <= x.e /\ x.q <= x.e /\ Len(t.buf) \in Nat
        /\ Unconsumed(t) = x.e - c /\ x.al \in BOOLEAN /\ x.full \in BOOLEAN
        /\ MaxBufBytes \in Nat /\ MaxBufBytes >= 4
    BY <1>1, PlaceFacts DEF Sent, Ctx, Context
  <1>4. r = [s |-> r.s, out |-> step.out, loss |-> r.loss]
    BY DEF Settle
  <1>5. CASE Gap(t)
    <2>1. loss = "any"
      <3>1. SUFFICES ASSUME loss # "any" PROVE FALSE
        OBVIOUS
      <3>2. Window(t.buf, c, x.e)
        <4>1. ~Stuck(t, c, x)
          BY <1>5 DEF Gap, Stuck
        <4> QED
          BY <1>1, <3>1, <4>1 DEF Still
      <3>3. Len(t.buf) = x.e - c
        BY <1>3, <3>2, WindowLen
      <3> QED
        BY <1>3, <1>5, <3>3 DEF Gap
    <2>2. /\ At(Resync(t), o2, x.e, m, i, Resting(x.e, FALSE, FALSE, x.b))
          /\ Resync(t).buf = <<>>
      BY <1>1, <1>5, ResyncRests
    <2>3. ~(Len(Resync(t).buf) > MaxBufBytes)
      BY <1>3, <2>2
    <2>4. r.s = Resync(t) /\ r.loss = 1
      BY <1>5, <2>3 DEF Settle
    <2>5. Rests(Resync(t), o2, FALSE, FALSE, x.e, x.b)
      BY <1>3, <2>2 DEF Rests
    <2> HIDE DEF r, t
    <2>6. (x.al /\ r.loss = 0) = FALSE /\ (x.full /\ r.loss = 0) = FALSE
      BY <2>4
    <2>7. Rests(r.s, o \o r.out, x.al /\ r.loss = 0, x.full /\ r.loss = 0, x.e, x.b)
      <3>1. r.out = step.out
        BY <1>4
      <3>2. Rests(r.s, o2, FALSE, FALSE, x.e, x.b)
        BY <2>4, <2>5
      <3> QED
        BY <2>6, <3>1, <3>2, Zenon
    <2> QED
      BY <1>2, <1>4, <2>1, <2>4, <2>7 DEF Done, r
  <1>6. CASE ~Gap(t) /\ ~Stuck(t, c, x)
    <2>1. r.loss = 0 /\ r.s = IF Len(t.buf) > MaxBufBytes THEN abandon(t) ELSE t
      BY <1>6 DEF Settle
    <2>2. Window(t.buf, c, x.e) /\ (x.al /\ m \in 1..N => x.e < ends[m])
      BY <1>1, <1>6, StillToEnd
    <2>3. At(t, o2, c, m, i, Resting(x.e, x.al, x.full, x.b))
      BY <1>1, <2>2, RestHere
    <2>4. Rests(r.s, o2, x.al, x.full, x.e, x.b)
      <3>1. CASE Len(t.buf) > MaxBufBytes
        <4>1. ~x.full
          BY <1>1, <1>3, <3>1 DEF Still, Ctx
        <4>2. abandon(t) \in Stream /\ abandon(t).abandoned
          BY <1>1, AbandonFacts DEF At
        <4>3. Good(o2, 0, Resting(x.e, x.al, x.full, x.b))
          <5>1. Good(o2, m, x) /\ Resting(x.e, x.al, x.full, x.b).full = x.full
            BY <1>1, RestingFields DEF At
          <5> QED
            BY <4>1, <5>1 DEF Good
        <4> QED
          BY <2>1, <3>1, <4>1, <4>2, <4>3 DEF Rests
      <3>2. CASE ~(Len(t.buf) > MaxBufBytes)
        BY <2>1, <2>3, <3>2 DEF Rests
      <3> QED
        BY <3>1, <3>2
    <2> HIDE DEF r, t
    <2>5. (x.al /\ r.loss = 0) = x.al /\ (x.full /\ r.loss = 0) = x.full
      BY <1>3, <2>1
    <2>6. Rests(r.s, o \o r.out, x.al /\ r.loss = 0, x.full /\ r.loss = 0, x.e, x.b)
      BY <1>4, <2>4, <2>5
    <2> QED
      BY <1>2, <1>4, <2>1, <2>6 DEF Done, r
  <1>7. CASE Stuck(t, c, x)
    <2>1. t.state = "chunkCRLF" /\ t.buf = <<>> /\ c + 1 = x.e /\ ~x.full
      BY <1>7 DEF Stuck
    <2>2. ~Gap(t) /\ ~(Len(t.buf) > MaxBufBytes)
      BY <1>3, <2>1 DEF Gap
    <2>3. r.loss = 0 /\ r.s = t
      BY <2>2 DEF Settle
    <2>4. Waits(t, o2, Resting(x.e, x.al, x.full, x.b))
      <3> DEFINE y == Resting(x.e, x.al, x.full, x.b)
      <3>1. y.e = x.e /\ y.al = x.al /\ y.full = x.full /\ y.b = x.b
        BY RestingFields
      <3>2. /\ t \in Stream /\ ~t.abandoned /\ InCrlf(t, c, m, i) /\ t.wireBytes = t.consumed + (x.e - c)
            /\ (x.al => t.pendingMsg.ts = x.b[m]) /\ Good(o2, m, x)
        BY <1>1, <2>1 DEF At, InState, Stamp
      <3> HIDE DEF y, t, o2
      <3>3. Half(t, o2, c, m, i, y)
        BY <2>1, <3>1, <3>2 DEF Half, Good
      <3>4. c + 1 = y.e
        BY <2>1, <3>1
      <3>5. Waits(t, o2, y)
        BY <2>1, <3>3, <3>4 DEF Waits
      <3> QED
        BY <3>5 DEF y
    <2>5. Rests(t, o2, x.al, x.full, x.e, x.b)
      BY <2>4 DEF Rests
    <2> HIDE DEF r, t
    <2>6. (x.al /\ r.loss = 0) = x.al /\ (x.full /\ r.loss = 0) = x.full
      BY <1>3, <2>3
    <2>7. Rests(r.s, o \o r.out, x.al /\ r.loss = 0, x.full /\ r.loss = 0, x.e, x.b)
      BY <1>4, <2>3, <2>5, <2>6
    <2> QED
      BY <1>2, <1>4, <2>3, <2>7 DEF Done, r
  <1> QED
    BY <1>5, <1>6, <1>7

(* A stream that is aligned is past the beginning of its message.           *)
LEMMA ChunkPast ==
    ASSUME Sent, NEW m \in 1..N, Framed(conv[m]), NEW i \in 1..Len(conv[m].chunks) + 1
    PROVE  CS(m, i) \in Nat /\ Base(m) + 8 <= CS(m, i)
  <1>1. conv[m] \in Message /\ N \in Nat /\ m \in Nat
    BY SentFacts
  <1>2. Members(Chunks(m, conv[m]), Len(conv[m].chunks), AnyUnit)
    BY <1>1, ChunksMembers
  <1>3. Len(conv[m].chunks) \in Nat /\ Base(m) \in Nat
    BY LayoutFacts DEF Layout
  <1>4. i - 1 \in 0..Len(conv[m].chunks)
    BY <1>3
  <1>5. Joined(Chunks(m, conv[m]), i - 1) \in Seq(AnyUnit)
    BY <1>2, <1>3, <1>4, JoinedSeq
  <1>6. ChunksLen(m, conv[m], i - 1) \in Nat
    BY <1>5 DEF ChunksLen
  <1> QED
    BY <1>3, <1>6 DEF CS

LEMMA AtPast ==
    ASSUME Sent, NEW t, NEW o, NEW x, NEW c \in Nat, NEW m \in Nat, NEW i \in Nat,
           At(t, o, c, m, i, x), x.al
    PROVE  /\ m \in 1..N + 1 /\ Base(m) \in Nat /\ Base(m) <= c
           /\ t.state = "startLine" => c = Base(m)
           /\ t.state # "startLine" => m \in 1..N /\ Base(m) < c
  <1>1. N \in Nat /\ Ordered
    BY SentFacts, BasesOrdered
  <1>2. t.state \in States /\ InState(t, c, m, i, x)
    BY DEF At, Stream
  <1>3. CASE t.state = "startLine"
    <2>1. m \in 1..N + 1 /\ c = Base(m)
      BY <1>2, <1>3 DEF InState, InLine
    <2> QED
      BY <1>1, <1>3, <2>1 DEF Ordered
  <1>4. CASE t.state # "startLine"
    <2>1. m \in 1..N
      BY <1>2, <1>4 DEF InState, InHeaders, InBody, InSize, InData, InCrlf, InTrailer, InChunks, States
    <2>2. m \in 1..N + 1 /\ Base(m) \in Nat
      BY <1>1, <2>1 DEF Ordered
    <2>3. Base(m) < c
      <3>1. CASE t.state = "headers"
        <4>1. c = Base(m) + 3
          BY <1>2, <3>1 DEF InState, InHeaders
        <4> QED
          BY <2>2, <4>1
      <3>2. CASE t.state = "body"
        <4>1. BodyAt(m) <= c
          BY <1>2, <3>2 DEF InState, InBody
        <4>2. BodyAt(m) = Base(m) + 3 + HLen(conv[m]) /\ HLen(conv[m]) \in {2, 5}
          BY DEF BodyAt, HLen
        <4> QED
          BY <2>2, <4>1, <4>2
      <3>3. CASE t.state = "chunkSize"
        <4>1. Framed(conv[m]) /\ i \in 1..Len(conv[m].chunks) + 1 /\ c = CS(m, i)
          BY <1>2, <3>3 DEF InState, InSize, InChunks
        <4> QED
          BY <2>1, <2>2, <4>1, ChunkPast
      <3>4. CASE t.state = "chunkData"
        <4>1. Framed(conv[m]) /\ i \in 1..Len(conv[m].chunks) /\ CS(m, i) + 3 <= c
          BY <1>2, <3>4 DEF InState, InData, InChunks
        <4>2. i \in 1..Len(conv[m].chunks) + 1
          BY <2>1, <4>1, LayoutFacts DEF Layout
        <4>3. CS(m, i) \in Nat /\ Base(m) + 8 <= CS(m, i)
          BY <2>1, <4>1, <4>2, ChunkPast
        <4> QED
          BY <2>2, <4>1, <4>3
      <3>5. CASE t.state = "chunkCRLF"
        <4> DEFINE n == conv[m].chunks[i]
        <4>1. Framed(conv[m]) /\ i \in 1..Len(conv[m].chunks) /\ c = CS(m, i) + 3 + n
          BY <1>2, <3>5 DEF InState, InCrlf, InChunks
        <4>2. i \in 1..Len(conv[m].chunks) + 1 /\ ChunkAt(m, i)
          BY <2>1, <4>1, LayoutFacts DEF Layout
        <4>3. CS(m, i) \in Nat /\ Base(m) + 8 <= CS(m, i)
          BY <2>1, <4>1, <4>2, ChunkPast
        <4>4. n \in Nat
          BY <4>2 DEF ChunkAt
        <4> HIDE DEF n
        <4> QED
          BY <2>2, <4>1, <4>3, <4>4
      <3>6. CASE t.state = "trailer"
        <4> DEFINE k == Len(conv[m].chunks) + 1
        <4>1. Framed(conv[m]) /\ c = CS(m, k) + 3
          BY <1>2, <3>6 DEF InState, InTrailer, InChunks
        <4>2. k \in 1..k
          BY <2>1, <4>1, LayoutFacts DEF Layout
        <4>3. CS(m, k) \in Nat /\ Base(m) + 8 <= CS(m, k)
          BY <2>1, <4>1, <4>2, ChunkPast
        <4> HIDE DEF k
        <4> QED
          BY <2>2, <4>1, <4>3
      <3> QED
        BY <1>2, <1>4, <3>1, <3>2, <3>3, <3>4, <3>5, <3>6 DEF States
    <2> QED
      BY <1>4, <2>1, <2>2, <2>3
  <1> QED
    BY <1>3, <1>4

(* A stream that rests does not know of messages that have not begun, and   *)
(* less may be claimed of what it emitted.                                  *)
LEMMA Rebased ==
    ASSUME Sent, NEW t, NEW o, NEW c \in Nat, NEW m \in Nat, NEW i \in Nat, NEW e \in Nat,
           e <= Len(wire), NEW al \in BOOLEAN, NEW full \in BOOLEAN, NEW b,
           At(t, o, c, m, i, Resting(e, al, full, b)),
           NEW full2 \in BOOLEAN, full2 => full /\ al, NEW b2,
           \A k \in 1..N : Base(k) < e => b2[k] = b[k]
    PROVE  At(t, o, c, m, i, Resting(e, al, full2, b2))
  <1> DEFINE x == Resting(e, al, full, b)
             y == Resting(e, al, full2, b2)
  <1>1. /\ x.p = e /\ x.q = e /\ x.e = e /\ x.al = al /\ x.full = full /\ x.b = b
        /\ y.p = e /\ y.q = e /\ y.e = e /\ y.al = al /\ y.full = full2 /\ y.b = b2
    BY RestingFields
  <1>0. At(t, o, c, m, i, x)
    OBVIOUS
  <1> HIDE DEF x, y
  <1>2. /\ t \in Stream /\ ~t.abandoned /\ c \in 0..e /\ t.wireBytes = t.consumed + (e - c)
        /\ Window(t.buf, c, e) /\ InState(t, c, m, i, x) /\ (al => Stamp(t, c, m, x)) /\ Good(o, m, x)
        /\ Later(m, x)
    BY <1>0, <1>1 DEF At
  <1>3. InState(t, c, m, i, y) /\ Later(m, y)
    BY <1>1, <1>2 DEF InState, InLine, InBody, InData, Later
  <1>4. CASE ~al
    BY <1>1, <1>2, <1>3, <1>4 DEF At, Good, y
  <1>5. CASE al
    <2>1. /\ m \in 1..N + 1 /\ Base(m) \in Nat /\ Base(m) <= c
          /\ t.state = "startLine" => c = Base(m)
          /\ t.state # "startLine" => m \in 1..N /\ Base(m) < c
      BY <1>0, <1>1, <1>5, AtPast
    <2>2. N \in Nat /\ Ordered
      BY SentFacts, BasesOrdered
    <2>3. ASSUME full2, NEW k \in 1..Len(o) PROVE b2[k] = b[k]
      <3>1. Len(o) = m - 1
        BY <1>1, <1>2, <2>3 DEF Good
      <3>2. k \in 1..N /\ k \in 1..N + 1 /\ k < m
        BY <2>1, <2>2, <3>1
      <3>3. Base(k) \in Nat /\ Base(k) + 5 <= Base(m)
        BY <2>1, <2>2, <3>2 DEF Ordered
      <3>4. Base(k) < e
        BY <1>2, <2>1, <3>3
      <3> QED
        BY <3>2, <3>4
    <2>4. Good(o, m, y)
      BY <1>1, <1>2, <1>5, <2>3 DEF Good
    <2>5. t.state # "startLine" => b2[m] = b[m]
      BY <1>2, <2>1
    <2>6. t.state = "startLine" /\ c < e => b2[m] = b[m]
      <3>1. SUFFICES ASSUME t.state = "startLine", c < e PROVE b2[m] = b[m]
        OBVIOUS
      <3>2. c = Base(m) /\ m # N + 1
        <4>1. Len(wire) = Base(N + 1) /\ Len(wire) \in Nat
          BY SentFacts
        <4> QED
          BY <2>1, <3>1, <4>1
      <3>3. m \in 1..N
        BY <2>1, <2>2, <3>2
      <3> QED
        BY <3>1, <3>2, <3>3
    <2>7. Stamp(t, c, m, y)
      BY <1>1, <1>2, <1>5, <2>5, <2>6 DEF Stamp
    <2> QED
      BY <1>1, <1>2, <1>3, <2>4, <2>7 DEF At, y
  <1> QED
    BY <1>4, <1>5

-----------------------------------------------------------------------------
(* An event.                                                                *)

LEMMA RestsRebased ==
    ASSUME Sent, NEW t, NEW o, NEW e \in Nat, e <= Len(wire), NEW al \in BOOLEAN,
           NEW full \in BOOLEAN, NEW b, Rests(t, o, al, full, e, b),
           NEW full2 \in BOOLEAN, full2 => full /\ al, NEW b2,
           \A k \in 1..N : Base(k) < e => b2[k] = b[k]
    PROVE  Rests(t, o, al, full2, e, b2)
  <1> DEFINE x == Resting(e, al, full, b)
             y == Resting(e, al, full2, b2)
  <1>1. /\ x.e = e /\ x.al = al /\ x.full = full /\ x.b = b
        /\ y.e = e /\ y.al = al /\ y.full = full2 /\ y.b = b2
    BY RestingFields
  <1>2. CASE t \in Stream /\ t.abandoned /\ ~full /\ Good(o, 0, x)
    <2> HIDE DEF x, y
    <2>1. Good(o, 0, y)
      BY <1>1, <1>2 DEF Good
    <2> QED
      BY <1>2, <2>1 DEF Rests, y
  <1>3. ASSUME NEW c \in Nat, NEW m \in Nat, NEW i \in Nat, At(t, o, c, m, i, x)
        PROVE  Rests(t, o, al, full2, e, b2)
    <2>1. At(t, o, c, m, i, y)
      BY <1>3, Rebased
    <2> QED
      BY <2>1 DEF Rests
  <1>4. CASE Waits(t, o, x)
    <2> HIDE DEF x, y
    <2>1. PICK c \in Nat, m \in Nat, i \in Nat : c + 1 = x.e /\ Half(t, o, c, m, i, x)
      BY <1>4 DEF Waits
    <2> DEFINE n == conv[m].chunks[i]
               a == CS(m, i)
    <2>2. m \in 1..N /\ Framed(conv[m]) /\ i \in 1..Len(conv[m].chunks) /\ c = a + 3 + n
      BY <2>1 DEF Half, InCrlf, InChunks
    <2>3. i \in 1..Len(conv[m].chunks) + 1 /\ ChunkAt(m, i)
      BY <2>2, LayoutFacts DEF Layout
    <2>4. a \in Nat /\ Base(m) + 8 <= a /\ n \in Nat
      BY <2>2, <2>3, ChunkPast DEF ChunkAt
    <2>5. Base(m) \in Nat
      BY <2>2, MessageLine
    <2> HIDE DEF n, a
    <2>6. Base(m) < e
      BY <1>1, <2>1, <2>2, <2>4, <2>5
    <2>7. b2[m] = b[m]
      BY <2>2, <2>6
    <2>8. Half(t, o, c, m, i, y) /\ c + 1 = y.e
      BY <1>1, <2>1, <2>7 DEF Half, Good
    <2>9. Waits(t, o, y)
      BY <1>4, <2>8 DEF Waits
    <2> QED
      BY <2>9 DEF Rests, y
  <1> QED
    BY <1>2, <1>3, <1>4 DEF Rests

LEMMA NothingDone ==
    ASSUME Sent, NEW t, NEW o, NEW x, Ctx(x), o \in Seq(Emitted), Rests(t, o, x.al, x.full, x.e, x.b)
    PROVE  Done(Nothing(t), o, x)
  <1> DEFINE r == Nothing(t)
  <1>1. /\ r = [s |-> r.s, out |-> r.out, loss |-> r.loss] /\ r.s = t /\ r.out = <<>> /\ r.loss = 0
    BY DEF Nothing
  <1> HIDE DEF r
  <1>2. x.al \in BOOLEAN /\ x.full \in BOOLEAN
    BY DEF Ctx, Context
  <1>3. o \o <<>> = o /\ <<>> \in Seq(Emitted)
    BY ConcatEmptySeq
  <1>4. (x.al /\ r.loss = 0) = x.al /\ (x.full /\ r.loss = 0) = x.full
    BY <1>1, <1>2
  <1>5. Rests(r.s, o \o r.out, x.al /\ r.loss = 0, x.full /\ r.loss = 0, x.e, x.b)
    BY <1>1, <1>3, <1>4
  <1>6. r.out \in Seq(Emitted) /\ r.loss \in {0, 1} /\ (loss # "any" => r.loss = 0)
    BY <1>1, <1>3
  <1> HIDE DEF Rests
  <1> QED
    BY <1>1, <1>5, <1>6 DEF Done, r

(* What the event brings, or the rest of it, is put behind what the stream  *)
(* keeps in its buffer.                                                     *)
LEMMA Appended ==
    ASSUME Sent, NEW t, NEW o, NEW x, NEW c \in Nat, NEW m \in Nat, NEW i \in Nat, Ctx(x),
           NEW p1 \in Nat, x.p <= p1, p1 < x.e,
           At(t, o, c, m, i, Resting(p1, x.al, x.full, x.b)), t.state \notin {"body", "chunkData"},
           NEW d, Window(d, p1, x.q), c = p1 \/ p1 <= x.q, NEW n \in Nat, n = x.e - p1,
           NEW r, r = [t EXCEPT !.startTs = IF @ = 0 THEN x.p + 1 ELSE @,
                                !.buf = @ \o d, !.wireBytes = @ + n]
    PROVE  At(r, o, c, m, i, x)
  <1> DEFINE y == Resting(p1, x.al, x.full, x.b)
             ts == IF t.startTs = 0 THEN x.p + 1 ELSE t.startTs
             b == t.buf \o d
             k == t.wireBytes + n
  <1>1. y.p = p1 /\ y.q = p1 /\ y.e = p1 /\ y.al = x.al /\ y.full = x.full /\ y.b = x.b
    BY RestingFields
  <1>2. At(t, o, c, m, i, y)
    OBVIOUS
  <1> HIDE DEF y
  <1>3. /\ x.q \in Nat /\ x.e \in Nat /\ x.p \in Nat /\ x.q <= x.e /\ x.e <= Len(wire)
        /\ Len(wire) \in Nat /\ N \in Nat
    BY SentFacts DEF Ctx, Context
  <1>4. /\ t \in Stream /\ ~t.abandoned /\ c \in 0..p1 /\ t.wireBytes = t.consumed + (p1 - c)
        /\ Window(t.buf, c, p1) /\ InState(t, c, m, i, y) /\ (x.al => Stamp(t, c, m, y))
        /\ Good(o, m, y) /\ Later(m, y)
    BY <1>1, <1>2 DEF At
  <1>5. r = [t EXCEPT !.startTs = ts, !.buf = b, !.wireBytes = k]
    BY DEF ts, b, k
  <1>6. Window(b, c, x.q)
    <2>1. c <= p1
      BY <1>4
    <2> QED
      BY <1>3, <1>4, <2>1, WindowAppend
  <1>7. k \in Nat /\ k = t.consumed + (x.e - c) /\ c \in 0..x.e
    <2>1. t.consumed \in Nat /\ x.e \in Nat /\ c <= p1 /\ t.wireBytes = t.consumed + (p1 - c)
      BY <1>3, <1>4 DEF Stream
    <2>2. c \in 0..x.e /\ x.e - c \in Nat
      BY <2>1
    <2>3. k = t.consumed + (x.e - c)
      BY <2>1
    <2> HIDE DEF k
    <2> QED
      BY <2>1, <2>2, <2>3
  <1>8. ts \in Nat
    <2>1. t.startTs \in Nat
      BY <1>4 DEF Stream
    <2> QED
      BY <1>3, <2>1
  <1>9. b \in Seq(AnyUnit)
    BY <1>6 DEF Window
  <1> HIDE DEF ts, b, k
  <1>10. /\ r \in Stream /\ r.buf = b /\ r.wireBytes = k /\ r.startTs = ts /\ r.state = t.state
         /\ r.abandoned = t.abandoned /\ r.consumed = t.consumed /\ r.line = t.line
         /\ r.bodyBuf = t.bodyBuf /\ r.bodyTruncated = t.bodyTruncated /\ r.pendingMsg = t.pendingMsg
    <2>1. t \in Stream /\ k \in Nat
      BY <1>4, <1>7
    <2>2. r \in Stream
      BY <1>5, <1>8, <1>9, <2>1 DEF Stream
    <2> QED
      BY <1>5, <2>1, <2>2 DEF Stream
  <1>11. InState(r, c, m, i, x)
    <2>1. \A d2 : Kept(t, m, d2) => Kept(r, m, d2)
      BY <1>10 DEF Kept
    <2>2. t.state = "startLine" => InLine(r, c, m, x)
      BY <1>1, <1>4, <1>10 DEF InState, InLine
    <2>3. t.state = "headers" => InHeaders(r, c, m)
      BY <1>4, <1>10 DEF InState, InHeaders
    <2>4. t.state = "chunkSize" => InSize(r, c, m, i)
      BY <1>4, <1>10, <2>1 DEF InState, InSize, InChunks
    <2>5. t.state = "chunkCRLF" => InCrlf(r, c, m, i)
      BY <1>4, <1>10, <2>1 DEF InState, InCrlf, InChunks
    <2>6. t.state = "trailer" => InTrailer(r, c, m)
      BY <1>4, <1>10, <2>1 DEF InState, InTrailer, InChunks
    <2> QED
      BY <1>10, <2>2, <2>3, <2>4, <2>5, <2>6 DEF InState
  <1>12. Good(o, m, x) /\ Later(m, x)
    <2>1. m \in 1..N => ends[m] \in Nat
      BY MessageLine
    <2> QED
      BY <1>1, <1>3, <1>4, <2>1 DEF Good, Later
  <1>13. ASSUME x.al PROVE Stamp(r, c, m, x)
    <2>1. /\ m \in 1..N + 1 /\ Base(m) \in Nat /\ Base(m) <= c
          /\ t.state = "startLine" => c = Base(m)
          /\ t.state # "startLine" => m \in 1..N /\ Base(m) < c
      BY <1>1, <1>2, <1>13, AtPast
    <2>2. Stamp(t, c, m, y)
      BY <1>4, <1>13
    <2>3. m \in 1..N
      <3>1. SUFFICES ASSUME m = N + 1 PROVE FALSE
        BY <1>3, <2>1
      <3>2. Base(m) = Len(wire)
        BY <3>1, SentFacts
      <3> QED
        BY <1>3, <1>4, <2>1, <3>2
    <2>4. x.b[m] # 0 /\ (x.p <= Base(m) => x.b[m] = x.p + 1)
      <3>1. Base(m) < x.e
        BY <1>3, <1>4, <2>1
      <3> QED
        BY <2>3, <3>1 DEF Ctx
    <2>5. ASSUME t.state = "startLine" PROVE ts = x.b[m]
      <3>1. CASE c = p1
        BY <1>1, <1>3, <2>1, <2>2, <2>4, <2>5, <3>1 DEF Stamp, ts
      <3>2. CASE c < p1
        BY <1>1, <2>2, <2>4, <2>5, <3>2 DEF Stamp, ts
      <3> QED
        BY <1>4, <3>1, <3>2
    <2>6. ASSUME t.state = "headers" PROVE ts = x.b[m]
      BY <1>1, <2>2, <2>4, <2>6 DEF Stamp, ts
    <2>7. c # x.e
      BY <1>3, <1>4
    <2> QED
      BY <1>1, <1>10, <2>2, <2>5, <2>6, <2>7 DEF Stamp
  <1>14. r.wireBytes = r.consumed + (x.e - c)
    BY <1>7, <1>10
  <1> QED
    BY <1>4, <1>6, <1>7, <1>10, <1>11, <1>12, <1>13, <1>14 DEF At

(* The part of feed after the draining.                                     *)
LEMMA ParseDone ==
    ASSUME Sent, NEW t, NEW o, NEW x, NEW c \in Nat, NEW m \in Nat, NEW i \in Nat, Ctx(x),
           NEW p1 \in Nat, x.p <= p1, p1 <= x.e,
           At(t, o, c, m, i, Resting(p1, x.al, x.full, x.b)), t.state \notin {"body", "chunkData"},
           NEW d, Window(d, p1, x.q), c = p1 \/ p1 <= x.q, NEW n \in Nat, n = x.e - p1
    PROVE  Done(Parse(t, d, n, x.p + 1), o, x)
  <1>1. x.e \in Nat
    BY DEF Ctx, Context
  <1>2. CASE n = 0
    <2>1. p1 = x.e
      BY <1>1, <1>2
    <2>2. Rests(t, o, x.al, x.full, x.e, x.b)
      BY <2>1 DEF Rests
    <2>3. o \in Seq(Emitted)
      BY DEF At, Good
    <2>4. Done(Nothing(t), o, x)
      BY <2>2, <2>3, NothingDone
    <2> QED
      BY <1>2, <2>4 DEF Parse
  <1>3. CASE n # 0
    <2> DEFINE r == [t EXCEPT !.startTs = IF @ = 0 THEN x.p + 1 ELSE @,
                              !.buf = @ \o d, !.wireBytes = @ + n]
    <2>1. Parse(t, d, n, x.p + 1) = Settle(advance(r, x.p + 1))
      BY <1>3 DEF Parse
    <2>2. p1 < x.e
      BY <1>1, <1>3
    <2>3. At(r, o, c, m, i, x)
      BY <2>2, Appended
    <2> HIDE DEF r
    <2>4. Settled(advance(r, x.p + 1), o, x)
      BY <2>3, AdvanceSettled
    <2> QED
      BY <2>1, <2>4, SettleDone
  <1> QED
    BY <1>2, <1>3

(* The stream waited for the CRLF of a chunk of which one unit had come.    *)
HalfNow(t, o, c, m, i, x) ==
    /\ Half(t, o, c, m, i, x)
    /\ c + 1 = x.p /\ x.p < x.e
    /\ Window(t.buf, x.p, x.q)

HalfStays(w, t, o, c, m, i, x) ==
    \/ w = Return(abandon(t))
    \/ \E r : w = Continue(r) /\ At(r, o, c + 2, m, i + 1, x) /\ Size(r) = 0

(* It takes the CRLF on trust, or abandons itself for the LF.               *)
LEMMA HalfStep ==
    ASSUME Sent, NEW t, NEW o, NEW x, NEW c \in Nat, NEW m \in Nat, NEW i \in Nat,
           Ctx(x), HalfNow(t, o, c, m, i, x)
    PROVE  HalfStays(ChunkCRLF(t), t, o, c, m, i, x)
  <1>1. /\ t \in Stream /\ ~t.abandoned /\ t.state = "chunkCRLF" /\ InCrlf(t, c, m, i)
        /\ t.wireBytes = t.consumed + (x.e - c) /\ (x.al => t.pendingMsg.ts = x.b[m])
        /\ Good(o, m, x) /\ c + 1 = x.p /\ x.p < x.e /\ Window(t.buf, x.p, x.q)
    BY DEF HalfNow, Half
  <1>2. /\ x.p \in Nat /\ x.q \in Nat /\ x.e \in Nat /\ t.consumed \in Nat
        /\ t.buf \in Seq(AnyUnit) /\ Len(t.buf) \in Nat
    BY <1>1 DEF Ctx, Context, Stream
  <1>3. c + 2 = x.p + 1 /\ c + 2 \in 0..x.e /\ x.e - c \in Nat /\ x.e - c >= 2
    BY <1>1, <1>2
  <1>4. Unconsumed(t) = x.e - c
    BY <1>1, <1>2, <1>3, UnconsumedFacts
  <1>5. wire[c + 2] = LF /\ Later(m, x)
    <2> DEFINE n == conv[m].chunks[i]
               a == CS(m, i)
    <2>1. m \in 1..N /\ Framed(conv[m]) /\ i \in 1..Len(conv[m].chunks) /\ c = a + 3 + n
      BY <1>1 DEF InCrlf, InChunks
    <2>2. ChunkPlaced(m, i) /\ ends[m] \in Nat
      BY <2>1, FramedPlace
    <2>3. a \in Nat /\ n \in Nat /\ a + 10 + n <= ends[m] /\ wire[a + 3 + n + 2] = LF
      BY <2>2 DEF ChunkPlaced
    <2> HIDE DEF n, a
    <2>4. x.p < ends[m]
      BY <1>1, <1>2, <2>1, <2>2, <2>3
    <2> QED
      BY <2>1, <2>3, <2>4 DEF Later
  <1>6. CASE Len(t.buf) < 2
    <2> DEFINE k == t.consumed + 2
               r == [t EXCEPT !.buf = <<>>, !.consumed = k, !.state = "chunkSize"]
    <2>1. ChunkCRLF(t) = Continue(r)
      BY <1>3, <1>4, <1>6 DEF ChunkCRLF
    <2>2. x.q <= c + 2
      <3>1. CASE x.q >= x.p
        <4>1. Len(t.buf) = x.q - x.p
          BY <1>1, <1>2, <3>1, WindowLen
        <4> QED
          BY <1>2, <1>3, <1>6, <4>1
      <3> QED
        BY <1>2, <1>3, <3>1
    <2>3. Window(<<>>, c + 2, x.q)
      BY <1>2, <2>2, WindowEmpty
    <2>4. k \in Nat /\ t.wireBytes = k + (x.e - (c + 2))
      BY SMTT(30), <1>1, <1>2, <1>3
    <2> HIDE DEF k
    <2>5. /\ r \in Stream /\ r.buf = <<>> /\ r.consumed = k /\ r.state = "chunkSize"
          /\ r.bodyBuf = t.bodyBuf /\ r.bodyTruncated = t.bodyTruncated /\ r.abandoned = t.abandoned
          /\ r.wireBytes = t.wireBytes /\ r.pendingMsg = t.pendingMsg
      <3>1. <<>> \in Seq(AnyUnit)
        OBVIOUS
      <3> QED
        BY <1>1, <2>4, <3>1 DEF Stream, States
    <2> HIDE DEF r
    <2>6. At(r, o, c + 2, m, i + 1, x)
      BY <1>1, <1>3, <1>5, <2>3, <2>4, <2>5, CrlfPassed
    <2>7. Size(r) = 0
      BY <2>5 DEF Size
    <2> QED
      BY <2>1, <2>6, <2>7 DEF HalfStays
  <1>7. CASE Len(t.buf) >= 2
    <2>1. t.buf[1] = LF
      <3>1. 1 \in 1..Len(t.buf) /\ x.p + 1 = c + 2
        BY <1>3, <1>7
      <3>2. t.buf[1] = wire[x.p + 1]
        BY <1>1, <3>1 DEF Window
      <3> QED
        BY <1>5, <3>1, <3>2
    <2>2. ~IsPrefix(CRLF, t.buf)
      <3>1. CRLF[1] = CR /\ CR # LF /\ 1 \in 1..2
        BY CRLFFacts, UnitFacts
      <3> QED
        BY <1>2, <1>7, <2>1, <3>1, CRLFFacts, PrefixFacts
    <2>3. ChunkCRLF(t) = Return(abandon(t))
      BY <1>2, <1>7, <2>2 DEF ChunkCRLF
    <2> QED
      BY <2>3 DEF HalfStays
  <1> QED
    BY <1>2, <1>6, <1>7

(* The loop goes on from there.                                             *)
LEMMA HalfAdvance ==
    ASSUME Sent, NEW t, NEW o, NEW x, NEW c \in Nat, NEW m \in Nat, NEW i \in Nat,
           Ctx(x), HalfNow(t, o, c, m, i, x)
    PROVE  \/ advance(t, x.p + 1) = Return(abandon(t))
           \/ Settled(advance(t, x.p + 1), o, x)
  <1> DEFINE n == Len(t.buf) + 2
             ts == x.p + 1
  <1>1. Len(t.buf) \in Nat /\ n \in Nat /\ o \in Seq(Emitted) /\ t.state = "chunkCRLF"
    <2>1. t.buf \in Seq(AnyUnit)
      BY DEF HalfNow, Half, Stream
    <2> QED
      BY <2>1 DEF HalfNow, Half, Good
  <1>2. PICK g : IsRun(g, t, ts, n) /\ advance(t, ts) = g[n]
    BY <1>1, AdvanceDef
  <1> HIDE DEF n, ts
  <1>3. \A k \in 0..n : k < n => k + 1 \in 0..n /\ g[k + 1] = NextRun(g[k], ts)
    <2>1. SUFFICES ASSUME NEW k \in 0..n, k < n PROVE k + 1 \in 0..n /\ g[k + 1] = NextRun(g[k], ts)
      OBVIOUS
    <2>2. k + 1 \in 0..n /\ k + 1 # 0 /\ (k + 1) - 1 = k
      BY <1>1, <2>1
    <2>3. g[k + 1] = NextRun(g[(k + 1) - 1], ts)
      BY <1>2, <2>2 DEF IsRun
    <2> QED
      BY <2>2, <2>3
  <1>4. 0 \in 0..n /\ 0 < n /\ n # 0 /\ n \in 0..n /\ 0 + 1 = 1 /\ 1 \in 0..n
    BY <1>1 DEF n
  <1>5. g[1] = ChunkCRLF(t)
    <2>1. g[0] = Continue(t)
      BY <1>2, <1>4 DEF IsRun
    <2>2. g[1] = NextRun(g[0], ts)
      BY <1>3, <1>4
    <2>3. NextRun(Continue(t), ts) = Prepend(<<>>, ChunkCRLF(t))
      BY <1>1 DEF NextRun, Continue, Iterate
    <2>4. HalfStays(ChunkCRLF(t), t, o, c, m, i, x)
      BY HalfStep
    <2>5. \E w, b : ChunkCRLF(t) = [s |-> w, out |-> <<>>, more |-> b]
      BY <2>4 DEF HalfStays, Return, Continue
    <2>6. \A w, b : Prepend(<<>>, [s |-> w, out |-> <<>>, more |-> b]) = [s |-> w, out |-> <<>>, more |-> b]
      <3>1. <<>> \o <<>> = <<>>
        OBVIOUS
      <3> QED
        BY <3>1 DEF Prepend
    <2> QED
      BY <2>1, <2>2, <2>3, <2>5, <2>6
  <1>6. CASE g[1] = Return(abandon(t))
    <2> DEFINE T == {k \in 0..n : k = 0 \/ g[k] = Return(abandon(t))}
    <2>1. 0 \in T
      BY <1>4
    <2>2. ASSUME NEW k \in 0..n, k \in T, k < n PROVE k + 1 \in T
      <3>1. k + 1 \in 0..n /\ g[k + 1] = NextRun(g[k], ts)
        BY <1>3, <2>2
      <3>2. CASE k = 0
        BY <1>4, <1>6, <3>1, <3>2
      <3>3. CASE k # 0
        <4>1. g[k] = Return(abandon(t))
          BY <2>2, <3>3
        <4>2. NextRun(Return(abandon(t)), ts) = Return(abandon(t))
          BY DEF NextRun, Return
        <4> QED
          BY <3>1, <4>1, <4>2
      <3> QED
        BY <3>2, <3>3
    <2> HIDE DEF T
    <2>3. \A k \in 0..n : k \in T
      BY <1>1, <2>1, <2>2, InductTo
    <2>4. g[n] = Return(abandon(t))
      BY <1>4, <2>3 DEF T
    <2> QED
      BY <1>2, <2>4 DEF ts
  <1>7. CASE \E r : g[1] = Continue(r) /\ At(r, o, c + 2, m, i + 1, x) /\ Size(r) = 0
    <2>0. PICK r : g[1] = Continue(r) /\ At(r, o, c + 2, m, i + 1, x) /\ Size(r) = 0
      BY <1>7
    <2> DEFINE T == {k \in 0..n : k = 0 \/ Running(g[k], t, o, x, k)}
    <2>1. 0 \in T
      BY <1>4
    <2>2. Running(g[1], t, o, x, 1)
      <3>1. g[1].s = r /\ g[1].out = <<>> /\ g[1].more = TRUE
        BY <2>0 DEF Continue
      <3>2. o \o <<>> = o /\ <<>> \in Seq(Emitted)
        BY <1>1, ConcatEmptySeq
      <3>3. c + 2 \in Nat /\ i + 1 \in Nat /\ Size(r) + 1 <= Len(t.buf) + 1
        BY <1>1, <2>0
      <3> QED
        BY <2>0, <3>1, <3>2, <3>3 DEF Running
    <2>3. ASSUME NEW k \in 0..n, k \in T, k < n PROVE k + 1 \in T
      <3>1. k + 1 \in 0..n /\ g[k + 1] = NextRun(g[k], ts) /\ k \in Nat
        BY <1>1, <1>3, <2>3
      <3>2. CASE k = 0
        BY <1>4, <2>2, <3>1, <3>2
      <3>3. CASE k # 0
        <4>1. Running(g[k], t, o, x, k)
          BY <2>3, <3>3
        <4>2. Running(NextRun(g[k], ts), t, o, x, k + 1)
          BY <1>1, <3>1, <4>1, RunningNext DEF ts
        <4> QED
          BY <3>1, <4>2
      <3> QED
        BY <3>2, <3>3
    <2> HIDE DEF T
    <2>4. \A k \in 0..n : k \in T
      BY <1>1, <2>1, <2>3, InductTo
    <2>5. Running(g[n], t, o, x, n)
      BY <1>4, <2>4 DEF T
    <2>6. Settled(g[n], o, x)
      BY <1>1, <2>5, RunEnds DEF n
    <2> QED
      BY <1>2, <2>6 DEF ts
  <1> QED
    BY <1>5, <1>6, <1>7, HalfStep DEF HalfStays

(* Where the stream abandons itself, messages may be missing.               *)
LEMMA HalfDone ==
    ASSUME Sent, NEW t, NEW o, NEW x, Ctx(x), Waits(t, o, Resting(x.p, x.al, x.full, x.b)),
           x.p <= x.e, NEW d, Window(d, x.p, x.q), NEW n \in Nat, n = x.e - x.p
    PROVE  Done(Parse(t, d, n, x.p + 1), o, x)
  <1> DEFINE y == Resting(x.p, x.al, x.full, x.b)
  <1>1. y.e = x.p /\ y.al = x.al /\ y.full = x.full /\ y.b = x.b
    BY RestingFields
  <1>2. x.p \in Nat /\ x.e \in Nat /\ x.al \in BOOLEAN /\ x.full \in BOOLEAN
    BY DEF Ctx, Context
  <1>3. Waits(t, o, y)
    OBVIOUS
  <1> HIDE DEF y
  <1>4. t.buf = <<>>
    BY <1>3 DEF Waits
  <1>5. PICK c \in Nat, m \in Nat, i \in Nat : c + 1 = y.e /\ Half(t, o, c, m, i, y)
    BY <1>3 DEF Waits
  <1>6. /\ t \in Stream /\ ~t.abandoned /\ t.state = "chunkCRLF" /\ InCrlf(t, c, m, i)
        /\ t.wireBytes = t.consumed + 1 /\ (x.al => t.pendingMsg.ts = x.b[m])
        /\ Good(o, m, x) /\ ~x.full /\ t.consumed \in Nat /\ o \in Seq(Emitted)
    <2>1. (c + 1) - c = 1
      OBVIOUS
    <2> QED
      BY <1>1, <1>5, <2>1 DEF Half, Good, Stream
  <1>7. CASE n = 0
    <2>1. x.p = x.e
      BY <1>2, <1>7
    <2>2. Rests(t, o, x.al, x.full, x.e, x.b)
      BY <1>3, <2>1 DEF Rests, y
    <2>3. Done(Nothing(t), o, x)
      BY <1>6, <2>2, NothingDone
    <2> QED
      BY <1>7, <2>3 DEF Parse
  <1>8. CASE n # 0
    <2> DEFINE k == t.wireBytes + n
               ts == IF t.startTs = 0 THEN x.p + 1 ELSE t.startTs
               r == [t EXCEPT !.startTs = ts, !.buf = d, !.wireBytes = k]
    <2>1. Parse(t, d, n, x.p + 1) = Settle(advance(r, x.p + 1))
      <3>1. <<>> \o d = d
        BY ConcatEmptySeq DEF Window
      <3>2. [t EXCEPT !.startTs = IF @ = 0 THEN x.p + 1 ELSE @, !.buf = @ \o d, !.wireBytes = @ + n] = r
        BY <1>4, <1>6, <3>1 DEF Stream
      <3> QED
        BY <1>8, <3>2 DEF Parse
    <2>2. k \in Nat /\ k = t.consumed + (x.e - c) /\ ts \in Nat /\ d \in Seq(AnyUnit) /\ x.p < x.e
      <3>1. ts \in Nat
        BY <1>2, <1>6 DEF Stream
      <3>2. c + 1 = x.p /\ n = x.e - x.p /\ n > 0 /\ t.wireBytes = t.consumed + 1 /\ t.consumed \in Nat
        BY <1>1, <1>5, <1>6, <1>8
      <3>3. n = x.e - (c + 1) /\ x.p < x.e
        BY <1>2, <3>2
      <3>4. k = t.consumed + 1 + n
        BY <3>2
      <3> HIDE DEF k
      <3>5. k \in Nat /\ k = t.consumed + (x.e - c)
        BY <1>2, <3>2, <3>3, <3>4
      <3> QED
        BY <3>1, <3>3, <3>5 DEF Window
    <2> HIDE DEF k, ts
    <2>3. /\ r \in Stream /\ r.buf = d /\ r.wireBytes = k /\ r.state = "chunkCRLF"
          /\ r.abandoned = t.abandoned /\ r.consumed = t.consumed /\ r.bodyBuf = t.bodyBuf
          /\ r.bodyTruncated = t.bodyTruncated /\ r.pendingMsg = t.pendingMsg
      BY <1>6, <2>2 DEF Stream
    <2> HIDE DEF r
    <2>4. InCrlf(r, c, m, i)
      BY <1>6, <2>3 DEF InCrlf, InChunks, Kept
    <2>5. Half(r, o, c, m, i, x)
      BY <1>6, <2>2, <2>3, <2>4 DEF Half
    <2>6. HalfNow(r, o, c, m, i, x)
      BY <1>1, <1>5, <2>2, <2>3, <2>5 DEF HalfNow
    <2>7. CASE Settled(advance(r, x.p + 1), o, x)
      BY <2>1, <2>7, SettleDone
    <2>8. CASE advance(r, x.p + 1) = Return(abandon(r))
      <3> DEFINE w == abandon(r)
                 v == Settle(Return(w))
      <3>1. w \in Stream /\ w.abandoned /\ w.state = "chunkCRLF" /\ w.buf = <<>>
        BY <2>3, AbandonFacts DEF abandon, Stream
      <3>2. ~Gap(w)
        BY <3>1 DEF Gap
      <3>3. ~(Len(w.buf) > MaxBufBytes)
        BY <3>1 DEF Sent
      <3> HIDE DEF w
      <3>4. Return(w).s = w /\ Return(w).out = <<>>
        BY DEF Return
      <3>5. v = [s |-> w, out |-> <<>>, loss |-> 0]
        BY <3>2, <3>3, <3>4 DEF Settle
      <3> HIDE DEF v
      <3>6. o \o <<>> = o /\ <<>> \in Seq(Emitted)
        BY <1>6, ConcatEmptySeq
      <3>7. Good(o, 0, Resting(x.e, x.al, x.full, x.b))
        <4>1. Resting(x.e, x.al, x.full, x.b).full = x.full
          BY RestingFields
        <4> QED
          BY <1>6, <4>1 DEF Good
      <3>8. Rests(w, o, x.al, x.full, x.e, x.b)
        BY <1>6, <3>1, <3>7 DEF Rests
      <3>9. (x.al /\ v.loss = 0) = x.al /\ (x.full /\ v.loss = 0) = x.full
        BY <1>2, <3>5
      <3>10. Done(v, o, x)
        <4>1. v.s = w /\ v.out = <<>> /\ v.loss = 0 /\ v = [s |-> v.s, out |-> v.out, loss |-> v.loss]
          BY <3>5
        <4>2. Rests(v.s, o \o v.out, x.al /\ v.loss = 0, x.full /\ v.loss = 0, x.e, x.b)
          BY <3>6, <3>8, <3>9, <4>1
        <4> HIDE DEF Rests
        <4> QED
          BY <3>6, <4>1, <4>2 DEF Done
      <3> QED
        BY <2>1, <2>8, <3>10 DEF v, w
    <2> QED
      BY <2>6, <2>7, <2>8, HalfAdvance
  <1> QED
    BY <1>7, <1>8

LEMMA RestingCtx ==
    ASSUME Sent, NEW x, Ctx(x), NEW e \in Nat, e <= x.e
    PROVE  Ctx(Resting(e, x.al, x.full, x.b))
  <1> DEFINE y == Resting(e, x.al, x.full, x.b)
  <1>1. y.p = e /\ y.q = e /\ y.e = e /\ y.al = x.al /\ y.full = x.full /\ y.b = x.b
    BY RestingFields
  <1>2. /\ x.e \in Nat /\ x.e <= Len(wire) /\ Len(wire) \in Nat /\ x.al \in BOOLEAN
        /\ x.full \in BOOLEAN /\ x.b \in [1..N -> Nat] /\ N \in Nat
    BY SentFacts DEF Ctx, Context
  <1>3. y \in Context
    BY <1>2 DEF Context, Resting
  <1> HIDE DEF y
  <1>4. y.q <= y.e /\ y.e <= Len(wire)
    BY <1>1, <1>2
  <1>5. ASSUME NEW m \in 1..N, Base(m) < y.e
        PROVE  y.b[m] # 0 /\ (y.p <= Base(m) => y.b[m] = y.p + 1)
    <2>1. Base(m) \in Nat
      BY MessageLine
    <2> QED
      BY <1>1, <1>2, <1>5, <2>1 DEF Ctx
  <1>6. (loss # "any" => y.al) /\ (y.full => y.al)
    BY <1>1 DEF Ctx
  <1>7. Lacks(y.q, y.e) /\ ~(y.q < y.e)
    BY <1>1 DEF Lacks
  <1> QED
    BY <1>3, <1>4, <1>5, <1>6, <1>7 DEF Ctx, y

LEMMA WindowPast ==
    ASSUME NEW c \in Nat, NEW q \in Nat, NEW b, Window(b, c, q), NEW n \in Nat
    PROVE  Window(Drop(b, n), c + n, q)
  <1>1. Len(b) \in Nat /\ b \in Seq(AnyUnit)
    BY WindowLen
  <1>2. CASE n <= Len(b)
    BY <1>2, WindowDrop
  <1>3. CASE n > Len(b)
    <2>1. Drop(b, n) = <<>>
      BY <1>1, <1>3 DEF Drop
    <2>2. q <= c + n
      <3>1. Len(b) = Monus(q, c)
        BY DEF Window
      <3> QED
        BY <1>1, <1>3, <3>1 DEF Monus
    <2> QED
      BY <2>1, <2>2, WindowEmpty
  <1> QED
    BY <1>1, <1>2, <1>3

(* The data that was due of a chunk.                                        *)
Due(t, c, m, i, debit) ==
    /\ DataFrom(c, m, Upto(m, i - 1) + (c - (CS(m, i) + 3)), debit)
    /\ CS(m, i) \in Nat /\ CS(m, i) + 3 <= c /\ Upto(m, i - 1) \in Nat
    /\ c + debit < ends[m]
    /\ debit = t.chunkRemaining =>
          /\ c + debit = CS(m, i) + 3 + conv[m].chunks[i]
          /\ Upto(m, i - 1) + (c - (CS(m, i) + 3)) + debit = Upto(m, i)

LEMMA ChunkDue ==
    ASSUME Sent, NEW t, NEW o, NEW c \in Nat, NEW m \in Nat, NEW i \in Nat, NEW x, x.e = c, Ctx(x),
           At(t, o, c, m, i, x), t.state = "chunkData", NEW debit \in Nat, debit <= t.chunkRemaining
    PROVE  Due(t, c, m, i, debit)
  <1> DEFINE n == conv[m].chunks[i]
             a == CS(m, i) + 3
             u == Upto(m, i - 1)
             rem == t.chunkRemaining
  <1>1. /\ m \in 1..N /\ Framed(conv[m]) /\ i \in 1..Len(conv[m].chunks)
        /\ a <= c /\ c + rem = a + n /\ rem \in Nat
    BY DEF At, InState, InData, InChunks, Stream
  <1>2. ChunkPlaced(m, i) /\ ends[m] \in Nat
    BY <1>1, FramedPlace
  <1>3. /\ CS(m, i) \in Nat /\ n \in Nat /\ u \in Nat /\ CS(m, i) + 10 + n <= ends[m]
        /\ DataFrom(a, m, u, n) /\ Upto(m, i) = u + n
    BY <1>2 DEF ChunkPlaced
  <1>4. a \in Nat /\ a + 7 + n <= ends[m]
    <2> HIDE DEF n
    <2> QED
      BY <1>2, <1>3
  <1> HIDE DEF n, a, u, rem
  <1>5. DataFrom(c, m, u + (c - a), debit)
    <2>1. SUFFICES ASSUME NEW j \in 1..debit PROVE wire[c + j] = Unit("data", 100 * m + (u + (c - a)) + j)
      BY DEF DataFrom
    <2>2. (c - a) + j \in 1..n /\ a + ((c - a) + j) = c + j
      BY SMTT(30), <1>1, <1>3, <1>4 DEF rem
    <2>3. wire[a + ((c - a) + j)] = Unit("data", 100 * m + u + ((c - a) + j))
      BY <1>3, <2>2 DEF DataFrom
    <2>4. 100 * m + u + ((c - a) + j) = 100 * m + (u + (c - a)) + j
      BY <1>3, <1>4
    <2> QED
      BY <2>2, <2>3, <2>4
  <1>6. c + debit < ends[m]
    <2>1. debit <= rem
      BY DEF rem
    <2> QED
      BY <1>1, <1>2, <1>3, <1>4, <2>1
  <1>7. debit = rem => c + debit = a + n /\ u + (c - a) + debit = Upto(m, i)
    BY <1>1, <1>3, <1>4
  <1> QED
    BY <1>1, <1>3, <1>5, <1>6, <1>7 DEF Due, n, a, u, rem

ChunkDrain(r, t, o, m, i, c, debit, x) ==
    /\ At(r, o, c + debit, m, i, Resting(c + debit, x.al, x.full, x.b))
    /\ r.state = IF debit = t.chunkRemaining THEN "chunkCRLF" ELSE "chunkData"

(* The stream when the data that was due of a chunk is drained.             *)
LEMMA ChunkDrained ==
    ASSUME Sent, NEW t, NEW o, NEW m \in Nat, NEW i \in Nat, NEW x, Ctx(x), NEW c \in Nat, c = x.p,
           At(t, o, c, m, i, Resting(c, x.al, x.full, x.b)), t.state = "chunkData",
           NEW b, Window(b, c, x.q), NEW debit \in Nat, debit <= t.chunkRemaining, c + debit <= x.e,
           NEW w, w = TakeSample(t, Take(b, debit), debit),
           NEW r, r = [w EXCEPT !.chunkRemaining = @ - debit, !.consumed = @ + debit,
                                !.wireBytes = @ + debit,
                                !.state = IF debit = t.chunkRemaining THEN "chunkCRLF" ELSE "chunkData"]
    PROVE  ChunkDrain(r, t, o, m, i, c, debit, x)
  <1> DEFINE y == Resting(c, x.al, x.full, x.b)
             e == c + debit
             z == Resting(e, x.al, x.full, x.b)
             a == CS(m, i) + 3
             d == Upto(m, i - 1) + (c - a)
             left == t.chunkRemaining - debit
             st == IF debit = t.chunkRemaining THEN "chunkCRLF" ELSE "chunkData"
             k == t.consumed + debit
             l == t.wireBytes + debit
  <1>1. /\ y.p = c /\ y.q = c /\ y.e = c /\ y.al = x.al /\ y.full = x.full /\ y.b = x.b
        /\ z.p = e /\ z.q = e /\ z.e = e /\ z.al = x.al /\ z.full = x.full /\ z.b = x.b
    BY RestingFields
  <1>2. At(t, o, c, m, i, y)
    OBVIOUS
  <1>3. /\ x.q \in Nat /\ x.e \in Nat /\ x.q <= x.e /\ x.e <= Len(wire) /\ Len(wire) \in Nat /\ N \in Nat
    BY SentFacts DEF Ctx, Context
  <1> HIDE DEF y, z
  <1>4. /\ t \in Stream /\ ~t.abandoned /\ t.wireBytes = t.consumed + (c - c)
        /\ InData(t, c, m, i, y) /\ (x.al => t.pendingMsg.ts = x.b[m])
        /\ Good(o, m, y)
    BY <1>1, <1>2 DEF At, InState, Stamp
  <1>5. /\ m \in 1..N /\ Framed(conv[m]) /\ t.pendingMsg.id = m /\ i \in 1..Len(conv[m].chunks)
        /\ t.buf = <<>> /\ a <= c /\ t.chunkRemaining # 0
        /\ c + t.chunkRemaining = a + conv[m].chunks[i] /\ Kept(t, m, d)
    BY <1>4 DEF InData, InChunks
  <1>6. Ctx(y)
    BY <1>3, RestingCtx DEF y
  <1>7. /\ DataFrom(c, m, d, debit) /\ a \in Nat /\ d \in Nat /\ e < ends[m]
        /\ debit = t.chunkRemaining => e = a + conv[m].chunks[i] /\ d + debit = Upto(m, i)
    <2>1. Due(t, c, m, i, debit)
      BY <1>1, <1>2, <1>6, ChunkDue
    <2>2. /\ DataFrom(c, m, d, debit) /\ CS(m, i) \in Nat /\ a <= c /\ Upto(m, i - 1) \in Nat
          /\ e < ends[m]
          /\ debit = t.chunkRemaining => e = a + conv[m].chunks[i] /\ d + debit = Upto(m, i)
      BY <2>1 DEF Due
    <2> QED
      BY <2>2
  <1> HIDE DEF a, d
  <1>8. w \in Stream /\ SameButBody(w, t) /\ Kept(w, m, d + debit)
    <2>1. MaxBodyBytes \in Nat /\ debit <= debit /\ (debit = debit \/ debit = x.e - c) /\ c <= x.e
      BY <1>3 DEF Sent
    <2>2. TakesPart(t, b, debit, debit, m, d)
      BY <1>3, <1>4, <1>5, <1>7, <2>1, BodyPart
    <2> QED
      BY <2>2 DEF TakesPart
  <1>9. r = [w EXCEPT !.chunkRemaining = left, !.consumed = k, !.wireBytes = l, !.state = st]
    BY <1>8 DEF SameButBody
  <1>10. left \in Nat /\ k \in Nat /\ l \in Nat /\ l = k /\ st \in States
    <2>1. t.chunkRemaining \in Nat /\ t.consumed \in Nat /\ t.wireBytes = t.consumed
      BY <1>4 DEF Stream
    <2> QED
      BY <2>1 DEF States
  <1>11. /\ debit = t.chunkRemaining => st = "chunkCRLF"
         /\ debit # t.chunkRemaining => st = "chunkData" /\ left # 0 /\ e + left = a + conv[m].chunks[i]
    <2>1. t.chunkRemaining \in Nat
      BY <1>4 DEF Stream
    <2> QED
      BY <1>5, <2>1
  <1> HIDE DEF left, k, l, st
  <1>12. /\ r \in Stream /\ r.chunkRemaining = left /\ r.consumed = k /\ r.wireBytes = l /\ r.state = st
         /\ r.bodyBuf = w.bodyBuf /\ r.bodyTruncated = w.bodyTruncated /\ r.pendingMsg = w.pendingMsg
         /\ r.buf = w.buf /\ r.abandoned = w.abandoned
    <2>1. w \in Stream /\ left \in Nat /\ k \in Nat /\ l \in Nat /\ st \in States
      BY <1>8, <1>10
    <2>2. r \in Stream
      BY ZenonT(60), <1>9, <2>1 DEF Stream
    <2> QED
      BY <1>9, <2>1, <2>2 DEF Stream
  <1>13. Kept(r, m, d + debit)
    BY <1>8, <1>12 DEF Kept
  <1>14. /\ r.buf = <<>> /\ r.pendingMsg = t.pendingMsg /\ ~r.abandoned
    BY <1>4, <1>5, <1>8, <1>12 DEF SameButBody
  <1>15. InState(r, e, m, i, z)
    <2>1. CASE debit = t.chunkRemaining
      <3>1. InCrlf(r, e, m, i)
        BY <1>5, <1>7, <1>13, <1>14, <2>1 DEF InCrlf, InChunks, a
      <3> QED
        BY <1>11, <1>12, <2>1, <3>1 DEF InState
    <2>2. CASE debit # t.chunkRemaining
      <3>1. d + debit = Upto(m, i - 1) + (e - a) /\ a <= e
        <4>1. Upto(m, i - 1) \in Nat
          BY <1>1, <1>2, <1>6, ChunkDue DEF Due
        <4>2. a \in Nat /\ a <= c
          BY <1>5, <1>7
        <4> QED
          BY <4>1, <4>2 DEF d
      <3>2. InData(r, e, m, i, z)
        BY <1>1, <1>5, <1>11, <1>12, <1>13, <1>14, <2>2, <3>1 DEF InData, InChunks, a
      <3> QED
        BY <1>11, <1>12, <2>2, <3>2 DEF InState
    <2> QED
      BY <2>1, <2>2
  <1>16. Window(<<>>, e, e) /\ e \in 0..e /\ r.wireBytes = r.consumed + (e - e)
    <2>1. e \in Nat
      OBVIOUS
    <2> HIDE DEF e
    <2>2. Window(<<>>, e, e)
      BY <2>1, WindowEmpty
    <2>3. r.wireBytes = r.consumed + (e - e)
      BY <1>10, <1>12, <2>1
    <2> QED
      BY <2>1, <2>2, <2>3
  <1>17. Good(o, m, z) /\ Later(m, z)
    BY <1>1, <1>4, <1>7 DEF Good, Later
  <1>18. z.al => Stamp(r, e, m, z)
    BY <1>1, <1>4, <1>11, <1>12, <1>14 DEF Stamp
  <1>19. At(r, o, e, m, i, z)
    BY <1>1, <1>12, <1>14, <1>15, <1>16, <1>17, <1>18 DEF At
  <1> QED
    BY <1>12, <1>19 DEF st, z, ChunkDrain

(* The data that was due of a body.                                         *)
BodyDrain(r, t, o, m, c, debit, x) ==
    /\ r \in Stream /\ r.buf = <<>> /\ m \in 1..N /\ ends[m] \in Nat /\ r.pendingMsg = t.pendingMsg
    /\ t.pendingMsg.id = m /\ (x.al => t.pendingMsg.ts = x.b[m]) /\ t.pendingMsg.ts \in Nat
    /\ r.bodyRemaining = t.bodyRemaining - debit /\ t.bodyRemaining \in Nat /\ ~r.abandoned
    /\ Good(o, m, Resting(c, x.al, x.full, x.b)) /\ c + t.bodyRemaining = ends[m]
    /\ debit # t.bodyRemaining => At(r, o, c + debit, m, 0, Resting(c + debit, x.al, x.full, x.b))
    /\ debit = t.bodyRemaining => Kept(r, m, Total(m))

LEMMA BodyDrained ==
    ASSUME Sent, NEW t, NEW o, NEW m \in Nat, NEW i \in Nat, NEW x, Ctx(x), NEW c \in Nat, c = x.p,
           At(t, o, c, m, i, Resting(c, x.al, x.full, x.b)), t.state = "body",
           NEW b, Window(b, c, x.q), NEW debit \in Nat, debit <= t.bodyRemaining, c + debit <= x.e,
           NEW w, w = TakeSample(t, Take(b, debit), debit),
           NEW r, r = [w EXCEPT !.bodyRemaining = @ - debit]
    PROVE  BodyDrain(r, t, o, m, c, debit, x)
  <1> DEFINE y == Resting(c, x.al, x.full, x.b)
             e == c + debit
             z == Resting(e, x.al, x.full, x.b)
             a == BodyAt(m)
             n == BLen(conv[m])
             d == c - a
             left == t.bodyRemaining - debit
  <1>1. /\ y.p = c /\ y.q = c /\ y.e = c /\ y.al = x.al /\ y.full = x.full /\ y.b = x.b
        /\ z.p = e /\ z.q = e /\ z.e = e /\ z.al = x.al /\ z.full = x.full /\ z.b = x.b
    BY RestingFields
  <1>2. At(t, o, c, m, i, y)
    OBVIOUS
  <1>3. /\ x.q \in Nat /\ x.e \in Nat /\ x.q <= x.e /\ x.e <= Len(wire) /\ Len(wire) \in Nat /\ N \in Nat
    BY SentFacts DEF Ctx, Context
  <1>4. /\ t \in Stream /\ ~t.abandoned /\ t.wireBytes = t.consumed + (c - c)
        /\ InBody(t, c, m, y) /\ (y.al => t.pendingMsg.ts = y.b[m])
        /\ Good(o, m, y)
    <2> HIDE DEF y
    <2> QED
      BY <1>1, <1>2, t.state = "body" DEF At, InState, Stamp
  <1> HIDE DEF z
  <1>5. /\ m \in 1..N /\ ~Framed(conv[m]) /\ t.pendingMsg.id = m
        /\ t.buf = <<>> /\ a <= c /\ t.bodyRemaining # 0
        /\ c + t.bodyRemaining = ends[m] /\ Kept(t, m, d)
    BY <1>4 DEF InBody
  <1>6. /\ n \in Nat /\ a \in Nat /\ ends[m] = a + n /\ ends[m] \in Nat /\ DataFrom(a, m, 0, n)
        /\ Total(m) = n
    BY <1>5, HeaderPlace DEF Total
  <1>7. t.bodyRemaining \in Nat /\ t.consumed \in Nat /\ t.wireBytes = t.consumed
        /\ left \in Nat /\ t.pendingMsg.ts \in Nat
    BY SMTT(30), <1>4 DEF Stream
  <1>8. d \in Nat /\ a + d = c /\ d + debit <= n
    <2>1. /\ a \in Nat /\ n \in Nat /\ a <= c /\ t.bodyRemaining \in Nat
          /\ c + t.bodyRemaining = a + n /\ debit <= t.bodyRemaining
      BY <1>5, <1>6, <1>7
    <2> HIDE DEF a, n
    <2> QED
      BY <2>1
  <1> HIDE DEF n, a
  <1>9. DataFrom(c, m, d, debit)
    <2>1. SUFFICES ASSUME NEW j \in 1..debit PROVE wire[c + j] = Unit("data", 100 * m + d + j)
      BY DEF DataFrom
    <2> HIDE DEF d
    <2>2. d + j \in 1..n /\ a + (d + j) = c + j
      BY <1>6, <1>8
    <2>3. wire[a + (d + j)] = Unit("data", 100 * m + 0 + (d + j))
      BY <1>6, <2>2 DEF DataFrom
    <2>4. 100 * m + 0 + (d + j) = 100 * m + d + j
      BY <1>8
    <2> QED
      BY <2>2, <2>3, <2>4
  <1> HIDE DEF d, y
  <1>10. w \in Stream /\ SameButBody(w, t) /\ Kept(w, m, d + debit)
    <2>1. MaxBodyBytes \in Nat /\ debit <= debit /\ (debit = debit \/ debit = x.e - c) /\ c <= x.e
      BY <1>3 DEF Sent
    <2>2. TakesPart(t, b, debit, debit, m, d)
      BY <1>3, <1>4, <1>5, <1>8, <1>9, <2>1, BodyPart
    <2> QED
      BY <2>2 DEF TakesPart
  <1>11. r = [w EXCEPT !.bodyRemaining = left]
    BY <1>10 DEF SameButBody
  <1>12. left # 0 <=> debit # t.bodyRemaining
    BY <1>7
  <1>13. e + left = ends[m]
    BY <1>5, <1>7
  <1> HIDE DEF left
  <1>14. /\ r \in Stream /\ r.bodyRemaining = left /\ r.consumed = w.consumed /\ r.wireBytes = w.wireBytes
         /\ r.state = w.state
         /\ r.bodyBuf = w.bodyBuf /\ r.bodyTruncated = w.bodyTruncated /\ r.pendingMsg = w.pendingMsg
         /\ r.buf = w.buf /\ r.abandoned = w.abandoned
    BY <1>7, <1>10, <1>11 DEF Stream
  <1>15. Kept(r, m, d + debit)
    BY <1>10, <1>14 DEF Kept
  <1>16. /\ r.buf = <<>> /\ r.pendingMsg = t.pendingMsg /\ ~r.abandoned /\ r.state = "body"
         /\ r.wireBytes = r.consumed /\ r.consumed \in Nat
    BY <1>4, <1>5, <1>7, <1>10, <1>14, t.state = "body" DEF SameButBody
  <1>17. ASSUME debit # t.bodyRemaining PROVE At(r, o, e, m, 0, z)
    <2>0. debit < t.bodyRemaining
      BY <1>7, <1>17
    <2>1. d + debit = e - a /\ a <= e /\ e < ends[m] /\ e \in Nat
      <3>1. /\ a \in Nat /\ d \in Nat /\ a + d = c /\ c + t.bodyRemaining = ends[m]
            /\ t.bodyRemaining \in Nat
        BY <1>5, <1>6, <1>7, <1>8
      <3> QED
        BY <2>0, <3>1
    <2> HIDE DEF e
    <2>2. InBody(r, e, m, z)
      BY <1>1, <1>5, <1>12, <1>13, <1>14, <1>15, <1>16, <1>17, <2>1 DEF InBody, a
    <2>3. InState(r, e, m, 0, z)
      BY <1>16, <2>2 DEF InState
    <2>4. Window(<<>>, e, e) /\ e \in 0..e
      BY <2>1, WindowEmpty
    <2>5. r.wireBytes = r.consumed + (e - e)
      BY <1>16, <2>1
    <2>6. Good(o, m, z) /\ Later(m, z)
      BY <1>1, <1>4, <2>1 DEF Good, Later
    <2>7. z.al => Stamp(r, e, m, z)
      BY <1>1, <1>4, <1>16 DEF Stamp
    <2> QED
      BY <1>1, <1>14, <1>16, <2>3, <2>4, <2>5, <2>6, <2>7 DEF At
  <1>18. ASSUME debit = t.bodyRemaining PROVE Kept(r, m, Total(m))
    <2>1. d + debit = Total(m)
      BY <1>5, <1>6, <1>8, <1>18
    <2> QED
      BY <1>15, <2>1
  <1> QED
    BY <1>1, <1>4, <1>5, <1>6, <1>7, <1>14, <1>16, <1>17, <1>18 DEF BodyDrain, left, z, y

(* The body is all there.                                                   *)
Finish(r, o, msg, m, c, debit, x) ==
    /\ At(MessageDone(r), o \o <<msg>>, c + debit, m + 1, 0, Resting(c + debit, x.al, x.full, x.b))
    /\ MessageDone(r).state = "startLine" /\ msg \in Emitted

LEMMA BodyFinished ==
    ASSUME Sent, NEW t, NEW o, NEW m \in Nat, NEW x, Ctx(x), NEW c \in Nat, NEW debit \in Nat,
           NEW r, BodyDrain(r, t, o, m, c, debit, x), debit = t.bodyRemaining,
           NEW msg, msg = takeBody(r, r.pendingMsg)
    PROVE  Finish(r, o, msg, m, c, debit, x)
  <1> DEFINE e == c + debit
             y == Resting(c, x.al, x.full, x.b)
             z == Resting(e, x.al, x.full, x.b)
             v == MessageDone(r)
  <1>1. /\ y.al = x.al /\ y.full = x.full /\ y.b = x.b
        /\ z.p = e /\ z.q = e /\ z.e = e /\ z.al = x.al /\ z.full = x.full /\ z.b = x.b
    BY RestingFields
  <1>2. /\ r \in Stream /\ m \in 1..N /\ r.pendingMsg.id = m /\ (x.al => r.pendingMsg.ts = x.b[m])
        /\ r.pendingMsg.ts \in Nat /\ ~r.abandoned /\ Good(o, m, y) /\ e = ends[m] /\ e \in Nat
        /\ Kept(r, m, Total(m)) /\ r.buf = <<>>
    BY DEF BodyDrain
  <1>3. Told(msg) /\ msg \in Emitted /\ msg.id = m /\ msg.ts = r.pendingMsg.ts
    BY <1>2, ToldFacts
  <1> HIDE DEF y, z, e
  <1>4. Good(o \o <<msg>>, m + 1, y)
    BY <1>1, <1>2, <1>3, GoodMore DEF Ctx
  <1>5. Good(o \o <<msg>>, m + 1, z)
    BY <1>1, <1>4 DEF Good
  <1>6. /\ v \in Stream /\ v.state = "startLine" /\ v.bodyBuf = <<>> /\ ~v.bodyTruncated
        /\ v.wireBytes = 0 /\ v.consumed = 0 /\ v.startTs = 0 /\ v.abandoned = r.abandoned
        /\ v.buf = r.buf
    <2>1. BodyTaken(r) \in Stream /\ BodyTaken(r).bodyBuf = <<>> /\ ~BodyTaken(r).bodyTruncated
          /\ BodyTaken(r).abandoned = r.abandoned /\ BodyTaken(r).buf = r.buf
      BY <1>2, BodyTakenFacts
    <2> QED
      BY <2>1 DEF MessageDone, Stream, States
  <1>7. m + 1 \in 1..N + 1 /\ e = Base(m + 1)
    BY <1>2, MessageLine
  <1>8. InState(v, e, m + 1, 0, z)
    BY <1>6, <1>7 DEF InState, InLine
  <1>9. Later(m + 1, z)
    <2>1. SUFFICES ASSUME m + 1 \in 1..N PROVE e < ends[m + 1]
      BY <1>1 DEF Later
    <2>2. Base(m + 1) \in Nat /\ Base(m + 1) + 5 <= ends[m + 1] /\ ends[m + 1] \in Nat
      BY <2>1, MessageLine
    <2> QED
      BY <1>7, <2>2
  <1>10. Stamp(v, e, m + 1, z)
    BY <1>1, <1>2, <1>6 DEF Stamp
  <1>11. Window(v.buf, e, e) /\ e \in 0..e /\ v.wireBytes = v.consumed + (e - e)
    BY <1>2, <1>6, WindowEmpty
  <1>12. At(v, o \o <<msg>>, e, m + 1, 0, z)
    BY <1>1, <1>2, <1>5, <1>6, <1>8, <1>9, <1>10, <1>11 DEF At
  <1> QED
    BY <1>3, <1>6, <1>12 DEF e, z, Finish

LEMMA PrependDone ==
    ASSUME NEW r, NEW o \in Seq(Emitted), NEW msg \in Emitted, NEW x, Done(r, o \o <<msg>>, x)
    PROVE  Done(Prepend(<<msg>>, r), o, x)
  <1> DEFINE v == Prepend(<<msg>>, r)
  <1>1. /\ r = [s |-> r.s, out |-> r.out, loss |-> r.loss]
        /\ r.out \in Seq(Emitted) /\ r.loss \in {0, 1} /\ (loss # "any" => r.loss = 0)
        /\ Rests(r.s, (o \o <<msg>>) \o r.out, x.al /\ r.loss = 0, x.full /\ r.loss = 0, x.e, x.b)
    BY DEF Done
  <1>2. <<msg>> \in Seq(Emitted)
    OBVIOUS
  <1>3. <<msg>> \o r.out \in Seq(Emitted) /\ (o \o <<msg>>) \o r.out = o \o (<<msg>> \o r.out)
    BY <1>1, <1>2, ConcatProperties, ConcatAssociative
  <1>4. v = [s |-> r.s, out |-> <<msg>> \o r.out, loss |-> r.loss]
    <2> DEFINE q == <<msg>> \o r.out
    <2>1. v = [r EXCEPT !.out = q]
      BY DEF Prepend
    <2> HIDE DEF q, v
    <2>2. v = [s |-> r.s, out |-> q, loss |-> r.loss]
      BY <1>1, <2>1
    <2> QED
      BY <2>2 DEF q
  <1> HIDE DEF v
  <1>5. v.s = r.s /\ v.out = <<msg>> \o r.out /\ v.loss = r.loss
    BY <1>4
  <1>6. Rests(v.s, o \o v.out, x.al /\ v.loss = 0, x.full /\ v.loss = 0, x.e, x.b)
    BY <1>1, <1>3, <1>5
  <1>7. v = [s |-> v.s, out |-> v.out, loss |-> v.loss]
    BY <1>4, <1>5
  <1> QED
    BY <1>1, <1>3, <1>5, <1>6, <1>7 DEF Done, v

Splits(c, n, e, d) ==
    /\ c + d \in Nat /\ c <= c + d /\ c + d <= e /\ (d = n => c + d = e)
    /\ n - d \in Nat /\ n - d = e - (c + d)

LEMMA Split ==
    ASSUME NEW c \in Nat, NEW n \in Nat, NEW e, c + n = e, NEW d \in Nat, d <= n
    PROVE  Splits(c, n, e, d)
  BY DEF Splits

(* feed in the state chunkData.                                             *)
LEMMA FeedChunkDone ==
    ASSUME Sent, NEW t, NEW o, NEW m \in Nat, NEW i \in Nat, NEW x, Ctx(x), NEW c \in Nat, c = x.p,
           At(t, o, c, m, i, Resting(c, x.al, x.full, x.b)), t.state = "chunkData", c <= x.q,
           NEW b, Window(b, c, x.q), NEW n \in Nat, n = x.e - c
    PROVE  Done(FeedChunk(t, DrainChunk(t, b, n), b, n, c + 1), o, x)
  <1> DEFINE rem == t.chunkRemaining
             debit == Smaller(n, rem)
             w == TakeSample(t, Take(b, debit), debit)
             r == DrainChunk(t, b, n)
             e == c + debit
  <1>1. rem \in Nat /\ o \in Seq(Emitted) /\ x.e \in Nat /\ x.q \in Nat
    BY DEF At, Stream, Good, Ctx, Context
  <1>2. /\ debit \in Nat /\ debit <= rem /\ debit <= n /\ (debit = n \/ debit = rem)
    BY <1>1, MonusFacts DEF Smaller
  <1>3. r = [w EXCEPT !.chunkRemaining = @ - debit, !.consumed = @ + debit, !.wireBytes = @ + debit,
                      !.state = IF debit = rem THEN "chunkCRLF" ELSE "chunkData"]
    BY DEF DrainChunk
  <1>4. w = TakeSample(t, Take(b, debit), debit)
    OBVIOUS
  <1> HIDE DEF debit, w, r
  <1>8. c + n = x.e
    BY <1>1
  <1>9. e \in Nat /\ c <= e /\ e <= x.e /\ (debit = n => e = x.e) /\ n - debit \in Nat /\ n - debit = x.e - e
    <2>1. Splits(c, n, x.e, debit)
      BY <1>2, <1>8, Split
    <2> QED
      BY <2>1 DEF Splits
  <1>10. ChunkDrain(r, t, o, m, i, c, debit, x)
    <2>1. debit <= t.chunkRemaining /\ c + debit <= x.e
      BY <1>2, <1>9
    <2>2. r = [w EXCEPT !.chunkRemaining = @ - debit, !.consumed = @ + debit, !.wireBytes = @ + debit,
                        !.state = IF debit = t.chunkRemaining THEN "chunkCRLF" ELSE "chunkData"]
      BY <1>3
    <2> QED
      BY <1>2, <1>4, <2>1, <2>2, ChunkDrained
  <1>5. /\ At(r, o, e, m, i, Resting(e, x.al, x.full, x.b))
        /\ r.state = IF debit = rem THEN "chunkCRLF" ELSE "chunkData"
    BY <1>10 DEF ChunkDrain
  <1>6. CASE debit = rem
    <2>1. FeedChunk(t, r, b, n, c + 1) = Parse(r, Drop(b, debit), n - debit, c + 1)
      BY <1>5, <1>6 DEF FeedChunk, debit
    <2>2. Window(Drop(b, debit), e, x.q)
      BY <1>1, <1>2, WindowPast
    <2>3. n - debit \in Nat /\ n - debit = x.e - e /\ e \in Nat /\ x.p <= e /\ e <= x.e
      BY <1>9
    <2>4. r.state \notin {"body", "chunkData"}
      BY <1>5, <1>6
    <2> DEFINE k == n - debit
               g == Drop(b, debit)
    <2> HIDE DEF e, k, g
    <2>5. k \in Nat /\ k = x.e - e /\ Window(g, e, x.q) /\ e \in Nat /\ x.p <= e /\ e <= x.e
      BY <2>2, <2>3 DEF k, g
    <2>6. e = e \/ e <= x.q
      OBVIOUS
    <2>7. Done(Parse(r, g, k, x.p + 1), o, x)
      BY <1>5, <2>4, <2>5, <2>6, ParseDone
    <2> QED
      BY <2>1, <2>7 DEF r, k, g
  <1>7. CASE debit # rem
    <2>1. FeedChunk(t, r, b, n, c + 1) = Nothing(r)
      BY <1>5, <1>7 DEF FeedChunk
    <2>2. e = x.e /\ e \in Nat
      BY <1>2, <1>7, <1>9
    <2>3. Rests(r, o, x.al, x.full, x.e, x.b)
      BY <1>5, <2>2 DEF Rests
    <2>4. Done(Nothing(r), o, x)
      BY <1>1, <2>3, NothingDone
    <2> QED
      BY <2>1, <2>4 DEF r
  <1> QED
    BY <1>6, <1>7

(* feed in the state body.                                                  *)
LEMMA FeedBodyDone ==
    ASSUME Sent, NEW t, NEW o, NEW m \in Nat, NEW i \in Nat, NEW x, Ctx(x), NEW c \in Nat, c = x.p,
           At(t, o, c, m, i, Resting(c, x.al, x.full, x.b)), t.state = "body", c <= x.q,
           NEW b, Window(b, c, x.q), NEW n \in Nat, n = x.e - c
    PROVE  Done(FeedBody(t, DrainBody(t, b, n), b, n, c + 1), o, x)
  <1> DEFINE rem == t.bodyRemaining
             debit == Smaller(n, rem)
             w == TakeSample(t, Take(b, debit), debit)
             r == DrainBody(t, b, n)
             msg == takeBody(r, r.pendingMsg)
             e == c + debit
  <1>1. rem \in Nat /\ o \in Seq(Emitted) /\ x.e \in Nat /\ x.q \in Nat
    BY DEF At, Stream, Good, Ctx, Context
  <1>2. /\ debit \in Nat /\ debit <= rem /\ debit <= n /\ (debit = n \/ debit = rem)
    BY <1>1, MonusFacts DEF Smaller
  <1>3. r = [w EXCEPT !.bodyRemaining = @ - debit]
    BY DEF DrainBody
  <1>4. w = TakeSample(t, Take(b, debit), debit)
    OBVIOUS
  <1> HIDE DEF debit, w, r
  <1>9. c + n = x.e
    BY <1>1
  <1>10. e \in Nat /\ c <= e /\ e <= x.e /\ (debit = n => e = x.e) /\ n - debit \in Nat /\ n - debit = x.e - e
    <2>1. Splits(c, n, x.e, debit)
      BY <1>2, <1>9, Split
    <2> QED
      BY <2>1 DEF Splits
  <1>5. BodyDrain(r, t, o, m, c, debit, x)
    <2>1. debit <= t.bodyRemaining /\ c + debit <= x.e
      BY <1>2, <1>10
    <2> QED
      BY <1>2, <1>3, <1>4, <2>1, BodyDrained
  <1>6. r.bodyRemaining = rem - debit
    BY <1>5 DEF BodyDrain
  <1>7. CASE debit = rem
    <2>1. FeedBody(t, r, b, n, c + 1)
             = Prepend(<<msg>>, Parse(MessageDone(r), Drop(b, debit), n - debit, c + 1))
      <3>1. ~(r.bodyRemaining > 0)
        BY <1>1, <1>6, <1>7
      <3> QED
        BY <3>1 DEF FeedBody, debit
    <2>2. Window(Drop(b, debit), e, x.q)
      BY <1>1, <1>2, WindowPast
    <2>3. n - debit \in Nat /\ n - debit = x.e - e /\ e \in Nat /\ x.p <= e /\ e <= x.e
      BY <1>10
    <2> DEFINE k == n - debit
               g == Drop(b, debit)
               v == MessageDone(r)
    <2>10. msg = takeBody(r, r.pendingMsg)
      OBVIOUS
    <2> HIDE DEF msg
    <2>11. Finish(r, o, msg, m, c, debit, x)
      <3>1. debit = t.bodyRemaining
        BY <1>7
      <3> QED
        BY <1>2, <1>5, <2>10, <3>1, BodyFinished
    <2>4. /\ At(v, o \o <<msg>>, e, m + 1, 0, Resting(e, x.al, x.full, x.b))
          /\ v.state = "startLine" /\ msg \in Emitted
      BY <2>11 DEF Finish
    <2> HIDE DEF e, k, g, v
    <2>5. k \in Nat /\ k = x.e - e /\ Window(g, e, x.q) /\ e \in Nat /\ x.p <= e /\ e <= x.e
      BY <2>2, <2>3 DEF k, g
    <2>6. e = e \/ e <= x.q
      OBVIOUS
    <2>7. v.state \notin {"body", "chunkData"} /\ m + 1 \in Nat
      BY <2>4
    <2>8. Done(Parse(v, g, k, x.p + 1), o \o <<msg>>, x)
      BY <2>4, <2>5, <2>6, <2>7, ParseDone
    <2>9. Done(Prepend(<<msg>>, Parse(v, g, k, x.p + 1)), o, x)
      BY <1>1, <2>4, <2>8, PrependDone
    <2> QED
      BY <2>1, <2>9 DEF r, k, g, v
  <1>8. CASE debit # rem
    <2>1. FeedBody(t, r, b, n, c + 1) = Nothing(r)
      <3>1. r.bodyRemaining > 0
        BY <1>1, <1>2, <1>6, <1>8
      <3> QED
        BY <3>1 DEF FeedBody
    <2>2. e = x.e /\ e \in Nat
      BY <1>2, <1>8, <1>10
    <2>3. At(r, o, e, m, 0, Resting(e, x.al, x.full, x.b))
      BY <1>5, <1>8 DEF BodyDrain
    <2>4. Rests(r, o, x.al, x.full, x.e, x.b)
      BY <2>2, <2>3 DEF Rests
    <2>5. Done(Nothing(r), o, x)
      BY <1>1, <2>4, NothingDone
    <2> QED
      BY <2>1, <2>5 DEF r
  <1> QED
    BY <1>7, <1>8

(* feed: a stream that rests before an event rests after it.                *)
LEMMA FeedDone ==
    ASSUME Sent, NEW t, NEW o \in Seq(Emitted), NEW x, Ctx(x), x.p <= x.q, NEW b, Window(b, x.p, x.q),
           Rests(t, o, x.al, x.full, x.p, x.b)
    PROVE  Done(feed(t, b, x.e - x.p, x.p + 1), o, x)
  <1> DEFINE n == x.e - x.p
  <1>1. x.p \in Nat /\ x.q \in Nat /\ x.e \in Nat /\ x.q <= x.e /\ n \in Nat
    BY DEF Ctx, Context
  <1>2. CASE t.abandoned
    <2>1. feed(t, b, n, x.p + 1) = Nothing(t)
      BY <1>2 DEF feed
    <2>2. t \in Stream /\ ~x.full /\ Good(o, 0, Resting(x.p, x.al, x.full, x.b))
      BY <1>2 DEF Rests, At, Waits, Half
    <2>3. Good(o, 0, Resting(x.e, x.al, x.full, x.b))
      <3>1. Resting(x.e, x.al, x.full, x.b).full = x.full /\ Resting(x.p, x.al, x.full, x.b).full = x.full
        BY RestingFields
      <3> QED
        BY <2>2, <3>1 DEF Good
    <2>4. Rests(t, o, x.al, x.full, x.e, x.b)
      BY <1>2, <2>2, <2>3 DEF Rests
    <2>5. Done(Nothing(t), o, x)
      BY <2>4, NothingDone
    <2> QED
      BY <2>1, <2>5
  <1>4. CASE Waits(t, o, Resting(x.p, x.al, x.full, x.b))
    <2>1. t.state = "chunkCRLF" /\ ~t.abandoned
      BY <1>4 DEF Waits, Half
    <2>2. feed(t, b, n, x.p + 1) = Parse(t, b, n, x.p + 1)
      BY <2>1 DEF feed
    <2>3. x.p <= x.e
      BY <1>1
    <2> HIDE DEF n
    <2>4. Done(Parse(t, b, n, x.p + 1), o, x)
      BY <1>1, <1>4, <2>3, HalfDone DEF n
    <2> QED
      BY <2>2, <2>4 DEF n
  <1>3. CASE ~t.abandoned /\ ~Waits(t, o, Resting(x.p, x.al, x.full, x.b))
    <2>1. PICK c \in Nat, m \in Nat, i \in Nat : At(t, o, c, m, i, Resting(x.p, x.al, x.full, x.b))
      BY <1>3 DEF Rests
    <2>2. Resting(x.p, x.al, x.full, x.b).e = x.p
      BY RestingFields
    <2> HIDE DEF n
    <2>3. CASE t.state = "chunkData"
      <3>1. c = x.p
        BY <2>1, <2>2, <2>3 DEF At, InState, InData
      <3>2. feed(t, b, n, x.p + 1) = FeedChunk(t, DrainChunk(t, b, n), b, n, x.p + 1)
        BY <1>3, <2>3 DEF feed
      <3>3. Done(FeedChunk(t, DrainChunk(t, b, n), b, n, c + 1), o, x)
        BY <1>1, <2>1, <2>3, <3>1, FeedChunkDone DEF n
      <3> QED
        BY <3>1, <3>2, <3>3 DEF n
    <2>4. CASE t.state = "body"
      <3>1. c = x.p
        BY <2>1, <2>2, <2>4 DEF At, InState, InBody
      <3>2. feed(t, b, n, x.p + 1) = FeedBody(t, DrainBody(t, b, n), b, n, x.p + 1)
        BY <1>3, <2>4 DEF feed
      <3>3. Done(FeedBody(t, DrainBody(t, b, n), b, n, c + 1), o, x)
        BY <1>1, <2>1, <2>4, <3>1, FeedBodyDone DEF n
      <3> QED
        BY <3>1, <3>2, <3>3 DEF n
    <2>5. CASE t.state \notin {"body", "chunkData"}
      <3>1. feed(t, b, n, x.p + 1) = Parse(t, b, n, x.p + 1)
        BY <1>3, <2>5 DEF feed
      <3>2. Done(Parse(t, b, n, x.p + 1), o, x)
        <4>1. x.p <= x.p /\ x.p <= x.e /\ n = x.e - x.p /\ (c = x.p \/ x.p <= x.q)
          BY <1>1 DEF n
        <4> QED
          BY <1>1, <2>1, <2>5, <4>1, ParseDone
      <3> QED
        BY <3>1, <3>2 DEF n
    <2> QED
      BY <2>3, <2>4, <2>5
  <1> QED
    BY <1>2, <1>3, <1>4

-----------------------------------------------------------------------------
(* What is sent does not change.                                            *)

LEMMA SameSent ==
    ASSUME UNCHANGED sent
    PROVE  /\ conv' = conv /\ wire' = wire /\ ends' = ends /\ loss' = loss /\ N' = N
           /\ Sent' <=> Sent
  <1>1. conv' = conv /\ wire' = wire /\ ends' = ends /\ loss' = loss
    BY DEF sent
  <1>2. N' = N
    BY <1>1 DEF N
  <1> QED
    BY <1>1, <1>2 DEF Sent

LEMMA SamePlaces ==
    ASSUME UNCHANGED sent, NEW m, NEW i
    PROVE  /\ Base(m)' = Base(m) /\ BodyAt(m)' = BodyAt(m) /\ CS(m, i)' = CS(m, i)
           /\ Upto(m, i)' = Upto(m, i) /\ Total(m)' = Total(m)
  <1>1. conv' = conv /\ ends' = ends
    BY SameSent
  <1>2. Base(m)' = Base(m)
    BY <1>1 DEF Base
  <1>3. BodyAt(m)' = BodyAt(m) /\ CS(m, i)' = CS(m, i) /\ Upto(m, i)' = Upto(m, i)
    BY <1>1, <1>2 DEF BodyAt, CS, Upto
  <1>4. Total(m)' = Total(m)
    BY <1>1 DEF Total, Upto
  <1> QED
    BY <1>2, <1>3, <1>4

LEMMA SameTold == ASSUME UNCHANGED sent, NEW o PROVE Told(o)' <=> Told(o)
  <1>1. conv' = conv /\ N' = N
    BY SameSent
  <1> QED
    BY <1>1 DEF Told

LEMMA SameGood == ASSUME UNCHANGED sent, NEW o, NEW m, NEW x PROVE Good(o, m, x)' <=> Good(o, m, x)
  BY SameTold DEF Good

LEMMA SameWindow ==
    ASSUME UNCHANGED sent, NEW b, NEW c, NEW q PROVE Window(b, c, q)' <=> Window(b, c, q)
  <1>1. wire' = wire
    BY SameSent
  <1> QED
    BY <1>1 DEF Window

LEMMA SameState ==
    ASSUME UNCHANGED sent, NEW t, NEW c, NEW m, NEW i, NEW x
    PROVE  InState(t, c, m, i, x)' <=> InState(t, c, m, i, x)
  <1>1. conv' = conv /\ ends' = ends /\ N' = N
    BY SameSent
  <1>2. InLine(t, c, m, x)' <=> InLine(t, c, m, x)
    BY <1>1, SamePlaces DEF InLine
  <1>3. InHeaders(t, c, m)' <=> InHeaders(t, c, m)
    BY <1>1, SamePlaces DEF InHeaders
  <1>4. InBody(t, c, m, x)' <=> InBody(t, c, m, x)
    BY <1>1, SamePlaces DEF InBody
  <1>5. InChunks(t, m)' <=> InChunks(t, m)
    BY <1>1 DEF InChunks
  <1>6. InSize(t, c, m, i)' <=> InSize(t, c, m, i)
    BY <1>1, <1>5, SamePlaces DEF InSize
  <1>7. InData(t, c, m, i, x)' <=> InData(t, c, m, i, x)
    BY <1>1, <1>5, SamePlaces DEF InData
  <1>8. InCrlf(t, c, m, i)' <=> InCrlf(t, c, m, i)
    BY <1>1, <1>5, SamePlaces DEF InCrlf
  <1>9. InTrailer(t, c, m)' <=> InTrailer(t, c, m)
    BY <1>1, <1>5, SamePlaces DEF InTrailer
  <1> QED
    BY <1>2, <1>3, <1>4, <1>6, <1>7, <1>8, <1>9 DEF InState

LEMMA SameAt ==
    ASSUME UNCHANGED sent, NEW t, NEW o, NEW c, NEW m, NEW i, NEW x
    PROVE  At(t, o, c, m, i, x)' <=> At(t, o, c, m, i, x)
  <1>1. ends' = ends /\ N' = N
    BY SameSent
  <1>2. Later(m, x)' <=> Later(m, x)
    BY <1>1 DEF Later
  <1>3. Stamp(t, c, m, x)' <=> Stamp(t, c, m, x)
    BY DEF Stamp
  <1> QED
    BY <1>2, <1>3, SameWindow, SameState, SameGood DEF At

LEMMA SameRests ==
    ASSUME UNCHANGED sent, NEW t, NEW o, NEW al, NEW full, NEW e, NEW b
    PROVE  Rests(t, o, al, full, e, b)' <=> Rests(t, o, al, full, e, b)
  <1>1. ASSUME NEW c, NEW m, NEW i PROVE InCrlf(t, c, m, i)' <=> InCrlf(t, c, m, i)
    <2>1. conv' = conv /\ N' = N
      BY SameSent
    <2>2. InChunks(t, m)' <=> InChunks(t, m)
      BY <2>1 DEF InChunks
    <2> QED
      BY <2>1, <2>2, SamePlaces DEF InCrlf
  <1>2. \A c, m, i, x : Half(t, o, c, m, i, x)' <=> Half(t, o, c, m, i, x)
    BY <1>1, SameGood DEF Half
  <1>3. \A x : Waits(t, o, x)' <=> Waits(t, o, x)
    BY <1>2 DEF Waits
  <1> QED
    BY <1>3, SameAt, SameGood DEF Rests

-----------------------------------------------------------------------------
(* The invariant.                                                           *)

Begun == began \in [1..N -> Nat] /\ \A m \in 1..N : began[m] # 0 <=> Base(m) < pos

NoLoss == headerLoss = 0

(* No message is missing from what was emitted.                             *)
Full == NoLoss /\ ~split

Inv ==
    /\ Sent /\ Begun
    /\ pos \in 0..Len(wire)
    /\ headerLoss \in Nat /\ (loss # "any" => headerLoss = 0)
    /\ out \in Seq(Emitted) /\ split \in BOOLEAN /\ (loss = "none" => ~split)
    /\ Rests(s, out, NoLoss, Full, pos, began)

LEMMA ScenarioSent ==
    ASSUME Init PROVE Sent
  <1>1. PICK x \in Scenarios : conv = x.conv /\ loss = x.loss
    BY DEF Init
  <1>2. /\ conv \in Seq(Message) /\ loss \in {"none", "body", "any"}
        /\ \A m \in 1..N : /\ WellFormed(conv[m])
                           /\ loss = "any" => conv[m].coding # "chunked"
    BY <1>1, ConstantsAssumption DEF N
  <1>3. wire = EncodeFirst(conv, N) /\ ends = [m \in 1..N |-> Len(EncodeFirst(conv, m))]
    BY DEF Init, N
  <1>4. MaxBufBytes \in Nat /\ MaxBodyBytes \in Nat /\ MaxBufBytes >= 4
    BY ConstantsAssumption
  <1> QED
    BY <1>2, <1>3, <1>4 DEF Sent

NewFacts(t) ==
    /\ t \in Stream /\ t.state = "startLine" /\ ~t.abandoned /\ t.buf = <<>> /\ t.bodyBuf = <<>>
    /\ ~t.bodyTruncated /\ t.wireBytes = 0 /\ t.consumed = 0 /\ t.startTs = 0

(* A stream that has seen nothing.                                          *)
LEMMA NewStreamFacts == NewFacts(NewStream)
  <1>1. Unit("none", 0) \in AnyUnit
    BY UnitFacts DEF Kinds
  <1>2. <<>> \in Seq(AnyUnit)
    OBVIOUS
  <1>3. NoMessage \in [id : Nat, ts : Nat]
    BY DEF NoMessage
  <1> QED
    BY <1>1, <1>2, <1>3 DEF NewFacts, NewStream, Stream, States

(* A new stream rests where a message begins.                               *)
LEMMA NewRests ==
    ASSUME Sent, NEW o, NEW e \in Nat, NEW al \in BOOLEAN, NEW full, NEW b, NEW m \in Nat,
           Good(o, m, Resting(e, al, full, b)), al => m \in 1..N + 1 /\ e = Base(m)
    PROVE  Rests(NewStream, o, al, full, e, b)
  <1> DEFINE x == Resting(e, al, full, b)
             t == NewStream
  <1>1. x.p = e /\ x.q = e /\ x.e = e /\ x.al = al /\ x.full = full /\ x.b = b
    BY RestingFields
  <1>2. NewFacts(t)
    BY NewStreamFacts
  <1>3. Good(o, m, x)
    OBVIOUS
  <1> HIDE DEF x, t
  <1>4. /\ t \in Stream /\ t.state = "startLine" /\ ~t.abandoned /\ t.buf = <<>> /\ t.bodyBuf = <<>>
        /\ ~t.bodyTruncated /\ t.wireBytes = 0 /\ t.consumed = 0 /\ t.startTs = 0
    BY <1>2 DEF NewFacts
  <1>5. InState(t, e, m, 0, x)
    BY <1>1, <1>4 DEF InState, InLine
  <1>6. Later(m, x)
    <2>1. SUFFICES ASSUME al, m \in 1..N PROVE e < ends[m]
      BY <1>1 DEF Later
    <2>2. Base(m) \in Nat /\ Base(m) + 5 <= ends[m] /\ ends[m] \in Nat
      BY <2>1, MessageLine
    <2> QED
      BY <2>1, <2>2
  <1>7. Stamp(t, e, m, x)
    BY <1>1, <1>4 DEF Stamp
  <1>8. Window(<<>>, e, e) /\ e \in 0..e /\ t.wireBytes = t.consumed + (e - e)
    BY <1>4, WindowEmpty
  <1>9. At(t, o, e, m, 0, x)
    BY <1>1, <1>3, <1>4, <1>5, <1>6, <1>7, <1>8 DEF At
  <1> QED
    BY <1>9 DEF Rests, x, t

LEMMA InitInv ==
    ASSUME Init PROVE Inv
  <1>1. Sent
    BY ScenarioSent
  <1>2. /\ pos = 0 /\ s = NewStream /\ out = <<>> /\ headerLoss = 0 /\ began = [m \in 1..N |-> 0]
        /\ split = FALSE
    BY DEF Init, N
  <1>3. N \in Nat /\ Ordered /\ Len(wire) \in Nat
    BY <1>1, SentFacts, BasesOrdered
  <1>4. Base(1) = 0
    BY DEF Base
  <1>5. Begun
    <2>1. ASSUME NEW m \in 1..N PROVE began[m] # 0 <=> Base(m) < pos
      <3>1. Base(m) \in Nat
        BY <1>3 DEF Ordered
      <3> QED
        BY <1>2, <3>1
    <2> QED
      BY <1>2, <2>1 DEF Begun
  <1>6. out \in Seq(Emitted) /\ Len(out) = 0
    BY <1>2
  <1>7. NoLoss \in BOOLEAN /\ NoLoss
    BY <1>2 DEF NoLoss
  <1>8. Good(out, 1, Resting(pos, NoLoss, Full, began))
    BY <1>6 DEF Good
  <1>9. 1 \in 1..N + 1 /\ pos = Base(1) /\ pos \in Nat
    BY <1>2, <1>3, <1>4
  <1>10. Rests(NewStream, out, NoLoss, Full, pos, began)
    BY <1>1, <1>7, <1>8, <1>9, NewRests
  <1>11. pos \in 0..Len(wire) /\ headerLoss \in Nat
    BY <1>2, <1>3
  <1> QED
    BY <1>1, <1>2, <1>5, <1>6, <1>10, <1>11 DEF Inv

(* The context of an event.                                                 *)
FullAt(n, p) == Full /\ ~SplitsCRLF(n, p)

EventAt(n, p, b) ==
    [p |-> pos, q |-> pos + p, e |-> pos + n, al |-> NoLoss, full |-> FullAt(n, p), b |-> b]

BeganWith(b, n) ==
    b = [m \in 1..N |-> IF began[m] = 0 /\ (m = 1 \/ pos + n > ends[m - 1]) THEN pos + 1
                        ELSE began[m]]

(* The history is of what was delivered.                                    *)
LEMMA BeganFacts ==
    ASSUME Inv, NEW n \in 1..Len(wire) - pos, NEW b, BeganWith(b, n)
    PROVE  /\ b \in [1..N -> Nat]
           /\ \A m \in 1..N : /\ b[m] # 0 <=> Base(m) < pos + n
                              /\ Base(m) < pos => b[m] = began[m]
                              /\ pos <= Base(m) /\ Base(m) < pos + n => b[m] = pos + 1
  <1>1. Sent /\ began \in [1..N -> Nat] /\ (\A m \in 1..N : began[m] # 0 <=> Base(m) < pos)
    BY DEF Inv, Begun
  <1>2. pos \in Nat /\ Len(wire) \in Nat /\ n \in Nat /\ n >= 1 /\ pos + n \in Nat
    BY <1>1, SentFacts DEF Inv
  <1>3. ASSUME NEW m \in 1..N
        PROVE  /\ Base(m) \in Nat
               /\ (m = 1 \/ pos + n > ends[m - 1]) <=> Base(m) < pos + n
    <2>1. Base(m) \in Nat
      BY <1>1, MessageLine
    <2>2. CASE m = 1
      BY <1>2, <2>1, <2>2 DEF Base
    <2>3. CASE m # 1
      <3>1. Base(m) = ends[m - 1]
        BY <2>3 DEF Base
      <3> QED
        BY <1>2, <2>1, <2>3, <3>1
    <2> QED
      BY <2>1, <2>2, <2>3
  <1>4. \A m \in 1..N : b[m] = IF began[m] = 0 /\ Base(m) < pos + n THEN pos + 1 ELSE began[m]
    BY <1>3 DEF BeganWith
  <1>5. b \in [1..N -> Nat]
    BY <1>1, <1>2 DEF BeganWith
  <1>6. ASSUME NEW m \in 1..N
        PROVE  /\ b[m] # 0 <=> Base(m) < pos + n
               /\ Base(m) < pos => b[m] = began[m]
               /\ pos <= Base(m) /\ Base(m) < pos + n => b[m] = pos + 1
    <2>1. /\ b[m] = IF began[m] = 0 /\ Base(m) < pos + n THEN pos + 1 ELSE began[m]
          /\ Base(m) \in Nat /\ (began[m] # 0 <=> Base(m) < pos) /\ began[m] \in Nat
      BY <1>1, <1>3, <1>4
    <2> QED
      BY <1>2, <2>1
  <1> QED
    BY <1>5, <1>6

(* What the samples of a scenario may lack.                                 *)
LEMMA EventCtx ==
    ASSUME Inv, NEW n \in 1..Len(wire) - pos, NEW p \in Samples(n), NEW b, BeganWith(b, n)
    PROVE  Ctx(EventAt(n, p, b))
  <1> DEFINE x == EventAt(n, p, b)
  <1>1. x.p = pos /\ x.q = pos + p /\ x.e = pos + n /\ x.al = NoLoss /\ x.full = FullAt(n, p) /\ x.b = b
    BY DEF EventAt
  <1>2. pos \in Nat /\ Len(wire) \in Nat /\ n \in Nat /\ p \in 0..n /\ pos + n <= Len(wire)
    BY SentFacts DEF Inv, Samples
  <1>3. NoLoss \in BOOLEAN /\ (loss # "any" => NoLoss)
    BY DEF Inv, NoLoss
  <1>4. b \in [1..N -> Nat]
    BY BeganFacts
  <1>9. FullAt(n, p) \in BOOLEAN /\ (FullAt(n, p) => NoLoss)
    BY DEF FullAt, Full
  <1>5. x \in Context
    BY <1>2, <1>3, <1>4, <1>9 DEF Context, EventAt
  <1>6. Lacks(pos + p, pos + n)
    <2>1. SUFFICES ASSUME pos + p < pos + n, loss # "any"
                   PROVE  \A j \in pos + p + 1..pos + n : Opaque(j)
      BY DEF Lacks
    <2>2. p # n
      BY <1>2, <2>1
    <2> QED
      BY <2>1, <2>2 DEF Samples
  <1>10. loss # "any" /\ pos + p < pos + n /\ wire[pos + n].k = "cr" => ~FullAt(n, p)
    <2>1. SUFFICES ASSUME loss # "any", pos + p < pos + n, wire[pos + n].k = "cr"
                   PROVE  SplitsCRLF(n, p)
      BY DEF FullAt
    <2>2. pos + n \in pos + p + 1..pos + n /\ p < n
      BY <1>2, <2>1
    <2>3. Opaque(pos + n)
      BY <1>6, <2>1, <2>2 DEF Lacks
    <2> QED
      BY <2>1, <2>2, <2>3 DEF SplitsCRLF
  <1> HIDE DEF x
  <1>7. ASSUME NEW m \in 1..N, Base(m) < x.e
        PROVE  x.b[m] # 0 /\ (x.p <= Base(m) => x.b[m] = x.p + 1)
    BY <1>1, <1>7, BeganFacts
  <1>8. x.q <= x.e /\ x.e <= Len(wire)
    BY <1>1, <1>2
  <1> QED
    BY <1>1, <1>3, <1>5, <1>6, <1>7, <1>8, <1>9, <1>10 DEF Ctx, x

LEMMA EventDone ==
    ASSUME Inv, NEW n \in 1..Len(wire) - pos, NEW p \in Samples(n), NEW b, BeganWith(b, n)
    PROVE  Done(feed(s, SubSeq(wire, pos + 1, pos + p), n, pos + 1), out, EventAt(n, p, b))
  <1> DEFINE x == EventAt(n, p, b)
             d == SubSeq(wire, pos + 1, pos + p)
  <1>1. x.p = pos /\ x.q = pos + p /\ x.e = pos + n /\ x.al = NoLoss /\ x.full = FullAt(n, p) /\ x.b = b
    BY DEF EventAt
  <1>2. /\ Sent /\ wire \in Seq(AnyUnit) /\ pos \in Nat /\ Len(wire) \in Nat /\ n \in Nat /\ p \in 0..n
        /\ pos + n <= Len(wire)
    BY SentFacts DEF Inv, Samples
  <1>3. Ctx(x)
    BY EventCtx
  <1>4. Window(d, pos, pos + p)
    <2>1. pos + p \in Nat /\ pos + p <= Len(wire) /\ pos + 1 \in Nat
      BY <1>2
    <2>2. /\ d \in Seq(AnyUnit) /\ Len(d) = p
          /\ \A j \in 1..p : d[j] = wire[pos + j]
      <3>1. CASE p = 0
        BY <1>2, <3>1
      <3>2. CASE p # 0
        <4>1. pos + 1 \in 1..Len(wire) /\ pos + p \in 1..Len(wire) /\ p \in Nat
          BY <1>2, <2>1, <3>2
        <4> QED
          BY <1>2, <4>1
      <3> QED
        BY <3>1, <3>2
    <2>3. Monus(pos + p, pos) = p
      BY <1>2 DEF Monus
    <2> HIDE DEF d
    <2> QED
      BY <1>2, <2>2, <2>3 DEF Window
  <1>5. Rests(s, out, NoLoss, FullAt(n, p), pos, b)
    <2>1. Rests(s, out, NoLoss, Full, pos, began)
      BY DEF Inv
    <2>2. \A k \in 1..N : Base(k) < pos => b[k] = began[k]
      BY BeganFacts
    <2>3. /\ NoLoss \in BOOLEAN /\ Full \in BOOLEAN /\ FullAt(n, p) \in BOOLEAN
          /\ (FullAt(n, p) => Full /\ NoLoss) /\ pos <= Len(wire)
      BY <1>2 DEF NoLoss, Full, FullAt
    <2> QED
      BY <1>2, <2>1, <2>2, <2>3, RestsRebased
  <1>6. out \in Seq(Emitted)
    BY DEF Inv
  <1> HIDE DEF x, d
  <1>7. Done(feed(s, d, x.e - x.p, x.p + 1), out, x)
    <2>1. x.p <= x.q /\ Window(d, x.p, x.q) /\ Rests(s, out, x.al, x.full, x.p, x.b)
      BY <1>1, <1>2, <1>4, <1>5
    <2> QED
      BY <1>2, <1>3, <1>6, <2>1, FeedDone
  <1>8. x.e - x.p = n
    BY <1>1, <1>2
  <1> QED
    BY <1>1, <1>7, <1>8 DEF x, d

(* An event keeps the invariant.                                            *)
LEMMA EventInv ==
    ASSUME Inv, NEW n \in 1..Len(wire) - pos, NEW p \in Samples(n), Event(n, p)
    PROVE  Inv'
  <1> DEFINE r == feed(s, SubSeq(wire, pos + 1, pos + p), n, pos + 1)
             x == EventAt(n, p, began')
  <1>1. /\ pos' = pos + n /\ s' = r.s /\ out' = out \o r.out /\ headerLoss' = headerLoss + r.loss
        /\ split' = (split \/ SplitsCRLF(n, p)) /\ UNCHANGED sent
    BY DEF Event
  <1>2. BeganWith(began', n)
    BY DEF Event, BeganWith, N
  <1>3. Done(r, out, x)
    BY <1>2, EventDone
  <1>4. x.e = pos + n /\ x.al = NoLoss /\ x.full = FullAt(n, p) /\ x.b = began'
    BY DEF EventAt
  <1>5. /\ Sent /\ pos \in 0..Len(wire) /\ Len(wire) \in Nat
        /\ headerLoss \in Nat /\ (loss # "any" => headerLoss = 0) /\ out \in Seq(Emitted)
        /\ split \in BOOLEAN
    BY SentFacts DEF Inv
  <1>6. /\ began' \in [1..N -> Nat]
        /\ \A m \in 1..N : began'[m] # 0 <=> Base(m) < pos + n
    BY <1>2, BeganFacts
  <1> HIDE DEF r, x
  <1>7. /\ r.out \in Seq(Emitted) /\ r.loss \in {0, 1} /\ (loss # "any" => r.loss = 0)
        /\ Rests(r.s, out \o r.out, x.al /\ r.loss = 0, x.full /\ r.loss = 0, x.e, x.b)
    BY <1>3 DEF Done
  <1>8. /\ conv' = conv /\ wire' = wire /\ ends' = ends /\ loss' = loss /\ N' = N /\ Sent'
    BY <1>1, <1>5, SameSent
  <1>9. Begun'
    <2>1. \A m \in 1..N : Base(m)' = Base(m)
      BY <1>1, SamePlaces
    <2> QED
      BY <1>1, <1>6, <1>8, <2>1 DEF Begun
  <1>10. pos' \in 0..Len(wire)'
    BY <1>1, <1>5, <1>8
  <1>11. headerLoss' \in Nat /\ (loss' # "any" => headerLoss' = 0)
    BY <1>1, <1>5, <1>7, <1>8
  <1>12. out' \in Seq(Emitted) /\ split' \in BOOLEAN /\ (loss' = "none" => ~split')
    <2>1. loss = "none" => ~SplitsCRLF(n, p)
      <3>1. loss = "none" => p = n
        BY DEF Samples
      <3> QED
        BY <1>5, <3>1 DEF SplitsCRLF
    <2>2. loss = "none" => ~split
      BY DEF Inv
    <2>3. split' \in BOOLEAN
      BY <1>1, <1>5 DEF SplitsCRLF
    <2> QED
      BY <1>1, <1>5, <1>7, <1>8, <2>1, <2>2, <2>3, ConcatProperties
  <1>13. Rests(s, out, NoLoss, Full, pos, began)'
    <2>1. NoLoss' = (NoLoss /\ r.loss = 0)
      BY <1>1, <1>5, <1>7 DEF NoLoss
    <2>3. Full' = (FullAt(n, p) /\ r.loss = 0)
      <3>1. Full' <=> (FullAt(n, p) /\ r.loss = 0)
        BY <1>1, <2>1 DEF Full, FullAt
      <3> QED
        BY <3>1 DEF Full, FullAt
    <2>2. Rests(s', out', NoLoss', Full', pos', began')
      BY <1>1, <1>4, <1>7, <2>1, <2>3
    <2> QED
      BY <1>1, <2>2, SameRests
  <1> QED
    BY <1>8, <1>9, <1>10, <1>11, <1>12, <1>13 DEF Inv

(* Where a message ends the stream rests before the next.                   *)
LEMMA EndRests ==
    ASSUME Inv, NEW k \in 1..N - 1, pos = ends[k]
    PROVE  \E m \in Nat : /\ Good(out, m, Resting(pos, NoLoss, Full, began))
                          /\ NoLoss => m \in 1..N + 1 /\ pos = Base(m)
  <1> DEFINE x == Resting(pos, NoLoss, Full, began)
  <1>1. x.p = pos /\ x.q = pos /\ x.e = pos /\ x.al = NoLoss /\ x.full = Full /\ x.b = began
    BY RestingFields
  <1>2. /\ Sent /\ N \in Nat /\ Ordered /\ Rests(s, out, NoLoss, Full, pos, began)
    BY SentFacts, BasesOrdered DEF Inv
  <1>3. CASE ~Full
    <2>1. \E m : Good(out, m, x)
      BY <1>2 DEF Rests, At, Waits, Half
    <2>2. Good(out, k + 1, x)
      BY <1>1, <1>3, <2>1 DEF Good
    <2>3. k + 1 \in 1..N + 1 /\ k + 1 \in Nat /\ pos = Base(k + 1)
      <3>1. k \in 1..N /\ k + 1 \in 1..N + 1
        BY <1>2
      <3> QED
        BY <1>2, <3>1, MessageLine
    <2> QED
      BY <2>2, <2>3
  <1>4. ASSUME NEW c \in Nat, NEW m \in Nat, NEW i \in Nat, At(s, out, c, m, i, x)
        PROVE  Good(out, m, x) /\ (NoLoss => m \in 1..N + 1 /\ pos = Base(m))
    <2>1. Good(out, m, x)
      BY <1>4 DEF At
    <2>2. SUFFICES ASSUME NoLoss PROVE m \in 1..N + 1 /\ pos = Base(m)
      BY <2>1
    <2> HIDE DEF x
    <2>3. m \in 1..N + 1 /\ Base(m) \in Nat /\ Base(m) <= c
      BY <1>1, <1>2, <1>4, <2>2, AtPast
    <2>4. c <= pos /\ (m \in 1..N => pos < ends[m])
      BY <1>1, <1>4, <2>2 DEF At, Later
    <2>5. k \in 1..N /\ k + 1 \in 1..N + 1 /\ pos = Base(k + 1) /\ pos \in Nat
      <3>1. k \in 1..N /\ k + 1 \in 1..N + 1
        BY <1>2
      <3> QED
        BY <1>2, <3>1, MessageLine
    <2>6. ~(m <= k)
      <3>1. SUFFICES ASSUME m <= k PROVE FALSE
        OBVIOUS
      <3>2. m \in 1..N /\ m + 1 \in 1..N + 1 /\ m + 1 <= k + 1
        BY <1>2, <2>3, <2>5, <3>1
      <3>3. ends[m] = Base(m + 1)
        BY <1>2, <3>2, MessageLine
      <3>4. Base(m + 1) \in Nat /\ Base(m + 1) <= Base(k + 1)
        BY <1>2, <2>5, <3>2 DEF Ordered
      <3> QED
        BY <2>4, <2>5, <3>2, <3>3, <3>4
    <2>7. ~(k + 1 < m)
      <3>1. SUFFICES ASSUME k + 1 < m PROVE FALSE
        OBVIOUS
      <3>2. Base(k + 1) + 5 <= Base(m)
        BY <1>2, <2>3, <2>5, <3>1 DEF Ordered
      <3> QED
        BY <2>3, <2>4, <2>5, <3>2
    <2>8. m = k + 1
      BY <2>3, <2>5, <2>6, <2>7
    <2> QED
      BY <2>3, <2>5, <2>8
  <1> HIDE DEF x
  <1>5. ~Full \/ \E c, m, i \in Nat : At(s, out, c, m, i, x)
    BY <1>1, <1>2 DEF Rests, Waits, Half, x
  <1> QED
    BY <1>3, <1>4, <1>5 DEF x

(* A new stream between two messages keeps the invariant.                   *)
LEMMA CloseInv ==
    ASSUME Inv, Close
    PROVE  Inv'
  <1>1. /\ s' = NewStream /\ UNCHANGED <<sent, pos, out, headerLoss, began, split>>
    BY DEF Close
  <1>2. /\ UNCHANGED sent /\ pos' = pos /\ out' = out /\ headerLoss' = headerLoss /\ began' = began
        /\ split' = split
    BY <1>1
  <1>3. PICK k \in 1..N - 1 : pos = ends[k]
    BY DEF Close, N
  <1>4. PICK m \in Nat : /\ Good(out, m, Resting(pos, NoLoss, Full, began))
                         /\ NoLoss => m \in 1..N + 1 /\ pos = Base(m)
    BY <1>3, EndRests
  <1>5. /\ Sent /\ pos \in 0..Len(wire) /\ pos \in Nat /\ Begun
        /\ headerLoss \in Nat /\ (loss # "any" => headerLoss = 0) /\ out \in Seq(Emitted)
        /\ split \in BOOLEAN /\ (loss = "none" => ~split)
    BY SentFacts DEF Inv
  <1>6. NoLoss \in BOOLEAN
    BY DEF NoLoss
  <1>7. Rests(NewStream, out, NoLoss, Full, pos, began)
    BY <1>4, <1>5, <1>6, NewRests
  <1>8. /\ conv' = conv /\ wire' = wire /\ ends' = ends /\ loss' = loss /\ N' = N /\ Sent'
    BY <1>2, <1>5, SameSent
  <1>9. Begun'
    <2>1. \A j \in 1..N : Base(j)' = Base(j)
      BY <1>2, SamePlaces
    <2> QED
      BY <1>2, <1>5, <1>8, <2>1 DEF Begun
  <1>10. Rests(s, out, NoLoss, Full, pos, began)'
    <2>1. NoLoss' = NoLoss /\ Full' = Full
      BY <1>2 DEF NoLoss, Full
    <2>2. Rests(s', out', NoLoss', Full', pos', began')
      BY <1>1, <1>2, <1>7, <2>1
    <2> QED
      BY <1>2, <2>2, SameRests
  <1> QED
    BY <1>2, <1>5, <1>8, <1>9, <1>10 DEF Inv

LEMMA StutterInv ==
    ASSUME Inv, UNCHANGED vars
    PROVE  Inv'
  <1>1. /\ UNCHANGED sent /\ s' = s /\ pos' = pos /\ out' = out /\ headerLoss' = headerLoss
        /\ began' = began /\ split' = split
    BY DEF vars
  <1>2. /\ conv' = conv /\ wire' = wire /\ loss' = loss /\ N' = N /\ Sent'
    BY <1>1, SameSent DEF Inv
  <1>3. Begun'
    <2>1. \A j \in 1..N : Base(j)' = Base(j)
      BY <1>1, SamePlaces
    <2> QED
      BY <1>1, <1>2, <2>1 DEF Begun, Inv
  <1>4. Rests(s, out, NoLoss, Full, pos, began)'
    <2>1. NoLoss' = NoLoss /\ Full' = Full
      BY <1>1 DEF NoLoss, Full
    <2>2. Rests(s', out', NoLoss', Full', pos', began')
      BY <1>1, <2>1 DEF Inv
    <2> QED
      BY <1>1, <2>2, SameRests
  <1> QED
    BY <1>1, <1>2, <1>3, <1>4 DEF Inv

(* The stream is always where the wire says it is, and what it emitted is   *)
(* told truthfully: the invariant behind every theorem below.               *)
THEOREM InvHolds == Spec => []Inv
  <1>1. Init => Inv
    BY InitInv
  <1>2. Inv /\ [Next]_vars => Inv'
    <2> SUFFICES ASSUME Inv, [Next]_vars PROVE Inv'
      OBVIOUS
    <2>1. ASSUME NEW n \in 1..(Len(wire) - pos), NEW p \in Samples(n), Event(n, p) PROVE Inv'
      BY <2>1, EventInv
    <2>2. CASE Close
      BY <2>2, CloseInv
    <2>3. CASE UNCHANGED vars
      BY <2>3, StutterInv
    <2> QED
      BY <2>1, <2>2, <2>3 DEF Next
  <1> QED
    BY <1>1, <1>2, PTL DEF Spec

-----------------------------------------------------------------------------
(* What the invariant says of the messages.                                 *)

(* While no header is lost and no CRLF split, what was emitted is what was   *)
(* delivered.                                                                *)
Emits(m) ==
    /\ m \in 1..N + 1 /\ Len(out) = m - 1
    /\ \A k \in 1..m - 1 : /\ out[k].id = k /\ out[k].ts = began[k]
                           /\ ends[k] \in Nat /\ ends[k] <= pos
    /\ \A k \in m..N : ends[k] \in Nat /\ pos < ends[k]

LEMMA EmitsFacts ==
    ASSUME Inv PROVE Full => \E m \in Nat : Emits(m)
  <1> DEFINE x == Resting(pos, NoLoss, Full, began)
  <1>1. x.p = pos /\ x.q = pos /\ x.e = pos /\ x.al = NoLoss /\ x.full = Full /\ x.b = began
    BY RestingFields
  <1>2. /\ Sent /\ N \in Nat /\ Ordered /\ Rests(s, out, NoLoss, Full, pos, began)
        /\ pos \in Nat /\ Len(wire) \in Nat
    BY SentFacts, BasesOrdered DEF Inv
  <1>8. Full => \E c, m, i \in Nat : At(s, out, c, m, i, x)
    BY <1>1, <1>2 DEF Rests, Waits, Half
  <1> HIDE DEF x
  <1>9. SUFFICES ASSUME x.al, x.full PROVE \E m \in Nat : Emits(m)
    BY <1>1 DEF Full
  <1>3. PICK c \in Nat, m \in Nat, i \in Nat : At(s, out, c, m, i, x)
    BY <1>1, <1>8, <1>9
  <1>4. m \in 1..N + 1 /\ Base(m) \in Nat /\ Base(m) <= c /\ c <= pos
    <2>1. m \in 1..N + 1 /\ Base(m) \in Nat /\ Base(m) <= c
      BY <1>2, <1>3, <1>9, AtPast
    <2>2. c \in 0..pos
      BY <1>1, <1>3 DEF At
    <2> QED
      BY <1>2, <2>1, <2>2
  <1>5. Len(out) = m - 1 /\ \A k \in 1..Len(out) : out[k].id = k /\ out[k].ts = began[k]
    BY <1>1, <1>3, <1>9 DEF At, Good
  <1>6. ASSUME NEW k \in 1..m - 1 PROVE ends[k] \in Nat /\ ends[k] <= pos
    <2>1. k \in 1..N /\ k + 1 \in 1..N + 1 /\ k + 1 <= m
      BY <1>2, <1>4
    <2>2. ends[k] = Base(k + 1) /\ ends[k] \in Nat
      BY <1>2, <2>1, MessageLine
    <2>3. Base(k + 1) <= Base(m)
      BY <1>2, <1>4, <2>1 DEF Ordered
    <2> QED
      BY <1>2, <1>4, <2>2, <2>3
  <1>7. ASSUME NEW k \in m..N PROVE ends[k] \in Nat /\ pos < ends[k]
    <2>1. /\ k \in 1..N /\ m \in 1..N /\ k + 1 \in 1..N + 1 /\ m + 1 \in 1..N + 1 /\ m + 1 <= k + 1
      BY <1>2, <1>4
    <2>2. pos < ends[m]
      BY <1>1, <1>3, <1>9, <2>1 DEF At, Later
    <2>3. ends[k] = Base(k + 1) /\ ends[k] \in Nat /\ ends[m] = Base(m + 1) /\ ends[m] \in Nat
      BY <1>2, <2>1, MessageLine
    <2>4. Base(m + 1) <= Base(k + 1)
      BY <1>2, <2>1 DEF Ordered
    <2> QED
      BY <1>2, <2>2, <2>3, <2>4
  <1> QED
    BY <1>4, <1>5, <1>6, <1>7 DEF Emits

(* Every message that was emitted is told truthfully.                       *)
LEMMA GoodOut ==
    ASSUME Inv PROVE \A k \in 1..Len(out) : Told(out[k])
  <1>1. Rests(s, out, NoLoss, Full, pos, began)
    BY DEF Inv
  <1> QED
    BY <1>1 DEF Rests, At, Waits, Half, Good

(* However the events cut the wire, as long as the samples lack nothing but  *)
(* units of bodies and of the CRLF after a chunk, a message is emitted with  *)
(* the event that carries its last unit, and nothing else is: for every      *)
(* conversation and every way to cut it, until an event ends within such a   *)
(* CRLF that its sample lacks.                                               *)
THEOREM ExactFramingHolds == Spec => []ExactFraming
  <1>1. Inv => ExactFraming
    <2> SUFFICES ASSUME Inv, loss \in {"none", "body"}, ~split
                 PROVE  [i \in DOMAIN out |-> out[i].id] = [i \in 1..Cardinality(Delivered) |-> i]
      BY DEF ExactFraming
    <2>1. Full
      BY DEF Inv, NoLoss, Full
    <2>2. PICK m \in Nat : Emits(m)
      BY <2>1, EmitsFacts
    <2>3. N \in Nat /\ pos \in Nat /\ out \in Seq(Emitted)
      BY SentFacts DEF Inv
    <2>4. Delivered = 1..m - 1
      <3>1. ASSUME NEW k \in 1..N PROVE ends[k] <= pos <=> k \in 1..m - 1
        <4>1. k \in 1..m - 1 \/ k \in m..N
          BY <2>2, <2>3 DEF Emits
        <4> QED
          BY <2>2, <2>3, <4>1 DEF Emits
      <3>2. 1..m - 1 \subseteq 1..N
        BY <2>2, <2>3 DEF Emits
      <3> QED
        BY <3>1, <3>2 DEF Delivered, N
    <2>5. Cardinality(Delivered) = m - 1
      <3>1. 1 \in Int /\ m - 1 \in Int /\ m >= 1
        BY <2>2, <2>3 DEF Emits
      <3>2. Cardinality(1..m - 1) = IF 1 > m - 1 THEN 0 ELSE (m - 1) - 1 + 1
        BY <3>1, FS_Interval
      <3> QED
        BY <2>4, <3>1, <3>2
    <2>6. DOMAIN out = 1..m - 1
      BY <2>2, <2>3 DEF Emits
    <2>7. \A k \in 1..m - 1 : out[k].id = k
      BY <2>2 DEF Emits
    <2> QED
      BY <2>5, <2>6, <2>7
  <1> QED
    BY <1>1, InvHolds, PTL

(* Where the samples lack nothing, a message carries the timestamp of the    *)
(* event that brought its first unit.                                        *)
THEOREM TimestampOfFirstByteHolds == Spec => []TimestampOfFirstByte
  <1>1. Inv => TimestampOfFirstByte
    <2> SUFFICES ASSUME Inv, loss = "none", NEW i \in DOMAIN out
                 PROVE  out[i].ts = began[out[i].id]
      BY DEF TimestampOfFirstByte
    <2>1. Full /\ out \in Seq(Emitted)
      BY DEF Inv, NoLoss, Full
    <2>2. PICK m \in Nat : Emits(m)
      BY <2>1, EmitsFacts
    <2>3. i \in 1..m - 1
      BY <2>1, <2>2 DEF Emits
    <2> QED
      BY <2>2, <2>3 DEF Emits
  <1> QED
    BY <1>1, InvHolds, PTL

(* A body is marked as truncated just where a part of it is missing, and     *)
(* what is there is in order and of that message: whatever the samples lack. *)
THEOREM CutIsToldHolds == Spec => []CutIsTold
  <1>1. Inv => CutIsTold
    <2> SUFFICES ASSUME Inv, NEW i \in DOMAIN out
                 PROVE  LET body == BodyOf(out[i].id, conv[out[i].id]) IN
                        /\ out[i].cut <=> out[i].body # body
                        /\ \A j \in DOMAIN out[i].body : out[i].body[j] \in ToSet(body)
                        /\ \A j, k \in DOMAIN out[i].body :
                              j < k => out[i].body[j].v < out[i].body[k].v
      BY DEF CutIsTold
    <2>1. i \in 1..Len(out)
      BY DEF Inv
    <2>2. Told(out[i])
      BY <2>1, GoodOut
    <2> QED
      BY <2>2 DEF Told
  <1> QED
    BY <1>1, InvHolds, PTL

(* Where a message is missing at the end, the loss of a header was counted,  *)
(* unless an event ended within the CRLF of a chunk that its sample lacked.  *)
THEOREM LossIsCountedHolds == Spec => []LossIsCounted
  <1>1. Inv => LossIsCounted
    <2> SUFFICES ASSUME Inv, pos = Len(wire), Len(out) < Len(conv), ~split, ~(headerLoss > 0)
                 PROVE  FALSE
      BY DEF LossIsCounted
    <2>1. Full
      BY DEF Inv, NoLoss, Full
    <2>2. PICK m \in Nat : Emits(m)
      BY <2>1, EmitsFacts
    <2>3. Sent /\ N \in Nat /\ Len(wire) \in Nat
      BY SentFacts DEF Inv
    <2>4. m \in 1..N
      BY <2>2, <2>3 DEF Emits, N
    <2>5. pos < ends[m] /\ ends[m] \in Nat
      BY <2>2, <2>3, <2>4 DEF Emits
    <2>6. ends[m] <= Len(wire)
      BY <2>3, <2>4, BaseStep
    <2> QED
      BY <2>3, <2>5, <2>6
  <1> QED
    BY <1>1, InvHolds, PTL
=============================================================================
