------------------------------ MODULE TuiProofs ------------------------------
(***************************************************************************)
(* Proofs about the terminal UI (module TuiModel), for every number of rows *)
(* and diagnostic lines, every budget, height and term.                     *)
(*                                                                          *)
(* A step is a change of some fields followed by the three clamps.  So the  *)
(* argument has two halves: what the clamps make of any model whose filter  *)
(* is current (Clamp), and that each change leaves the filter current and   *)
(* the bodies in order.  The filter and the sums of the bodies are          *)
(* recursive functions over the rows; both are determined by their          *)
(* recurrence (SumsUnique, FoundUnique), so what a new row or an evicted    *)
(* one does to them needs no induction of its own.                          *)
(***************************************************************************)
EXTENDS TuiModel, WellFoundedInduction, TLAPS

-----------------------------------------------------------------------------
(* Numbers.                                                                 *)

(* A set of naturals that is not empty has a least element.                 *)
LEMMA Least == ASSUME NEW T \in SUBSET Nat, T # {} PROVE \E x \in T : \A y \in T : x <= y
<1>1. IsWellFoundedOn(OpToRel(<, Nat), Nat)
  BY NatLessThanWellFounded
<1>2. PICK x \in T : \A y \in T : ~(<<y, x>> \in OpToRel(<, Nat))
  BY <1>1, WFMin
<1>3. ASSUME NEW y \in T PROVE ~(y < x)
  <2>1. <<y, x>> \notin OpToRel(<, Nat)
    BY <1>2
  <2>2. y \in Nat /\ x \in Nat
    OBVIOUS
  <2> QED BY <2>1, <2>2, Zenon DEF OpToRel
<1> QED BY <1>3

(* Induction, as a fact about sets.                                         *)
LEMMA Induct == ASSUME NEW T \in SUBSET Nat, 0 \in T, \A n \in T : n + 1 \in T PROVE T = Nat
<1> SUFFICES ASSUME Nat \ T # {} PROVE FALSE
  OBVIOUS
<1>1. PICK x \in Nat \ T : \A y \in Nat \ T : x <= y
  BY Least
<1>2. x # 0 /\ x - 1 \in Nat
  BY <1>1
<1>3. x - 1 \in T
  BY <1>1, <1>2
<1> QED BY <1>1, <1>2, <1>3

LEMMA MinOfTwo ==
  ASSUME NEW a \in Int, NEW b \in Int
  PROVE  Min({a, b}) = IF a <= b THEN a ELSE b
  BY DEF Min

LEMMA MaxOfTwo ==
  ASSUME NEW a \in Int, NEW b \in Int
  PROVE  Max({a, b}) = IF a >= b THEN a ELSE b
  BY DEF Max

-----------------------------------------------------------------------------
(* The sums of the bodies.                                                  *)

RowType == [match : 0..MaxTerm, body : Nat, lines : Nat]

IsSums(g, rows) ==
    g = [n \in 0..Len(rows) |-> IF n = 0 THEN 0 ELSE g[n - 1] + rows[n].body]

LEMMA SumsExist == ASSUME NEW rows \in Seq(RowType) PROVE \E g : IsSums(g, rows)
<1> DEFINE Upto(g, k) == g = [n \in 0..k |-> IF n = 0 THEN 0 ELSE g[n - 1] + rows[n].body]
           T == {k \in Nat : k <= Len(rows) => \E g : Upto(g, k)}
<1>1. 0 \in T
  <2>1. Upto([n \in 0..0 |-> 0], 0)
    OBVIOUS
  <2> QED BY <2>1
<1>2. ASSUME NEW k \in T PROVE k + 1 \in T
  <2> SUFFICES ASSUME k + 1 <= Len(rows) PROVE \E g : Upto(g, k + 1)
    OBVIOUS
  <2>0. k \in Nat /\ k <= Len(rows)
    OBVIOUS
  <2>1. PICK g : Upto(g, k)
    <3>1. k <= Len(rows) => \E g : Upto(g, k)
      BY Zenon
    <3> QED BY <3>1, <2>0
  <2> DEFINE h == [n \in 0..k + 1 |-> IF n = k + 1 THEN g[k] + rows[k + 1].body ELSE g[n]]
  <2>2. ASSUME NEW n \in 0..k + 1
        PROVE  h[n] = IF n = 0 THEN 0 ELSE h[n - 1] + rows[n].body
    <3>1. CASE n = k + 1
      BY <3>1
    <3>2. CASE n # k + 1
      <4>1. n \in 0..k
        BY <3>2
      <4>2. g[n] = IF n = 0 THEN 0 ELSE g[n - 1] + rows[n].body
        BY <2>1, <4>1
      <4> QED BY <4>1, <4>2
    <3> QED BY <3>1, <3>2
  <2>3. Upto(h, k + 1)
    BY <2>2
  <2> QED BY <2>3
<1>3. T = Nat
  <2> HIDE DEF T
  <2> QED BY <1>1, <1>2, Induct DEF T
<1>4. Len(rows) \in T
  BY <1>3
<1> QED BY <1>4 DEF IsSums

LEMMA SumsDef == ASSUME NEW rows \in Seq(RowType) PROVE IsSums(BodySums(rows), rows)
<1> DEFINE sum[n \in 0..Len(rows)] == IF n = 0 THEN 0 ELSE sum[n - 1] + rows[n].body
<1>1. BodySums(rows) = sum
  BY Zenon DEF BodySums
<1>2. IsSums(sum, rows)
  BY SumsExist, Zenon DEF IsSums
<1> QED BY <1>1, <1>2

LEMMA SumsType ==
  ASSUME NEW rows \in Seq(RowType), NEW g, IsSums(g, rows)
  PROVE  /\ g \in [0..Len(rows) -> Nat] /\ g[0] = 0
         /\ \A n \in 1..Len(rows) : g[n] = g[n - 1] + rows[n].body
<1> DEFINE T == {k \in Nat : k <= Len(rows) => g[k] \in Nat}
<1>0. /\ g[0] = 0 /\ \A n \in 1..Len(rows) : g[n] = g[n - 1] + rows[n].body
  BY DEF IsSums
<1>1. 0 \in T
  BY <1>0
<1>2. ASSUME NEW k \in T PROVE k + 1 \in T
  <2> SUFFICES ASSUME k + 1 <= Len(rows) PROVE g[k + 1] \in Nat
    OBVIOUS
  <2>1. k + 1 \in 1..Len(rows) /\ (k + 1) - 1 = k /\ g[k] \in Nat
    OBVIOUS
  <2>2. rows[k + 1].body \in Nat
    <3>1. rows[k + 1] \in RowType
      BY <2>1
    <3> QED BY <3>1 DEF RowType
  <2>3. g[k + 1] = g[k] + rows[k + 1].body
    BY <2>1, <1>0
  <2> QED BY <2>1, <2>2, <2>3
<1>3. T = Nat
  <2> HIDE DEF T
  <2> QED BY <1>1, <1>2, Induct DEF T
<1>4. \A k \in 0..Len(rows) : g[k] \in Nat
  BY <1>3
<1> QED BY <1>0, <1>4 DEF IsSums

LEMMA SumsUnique ==
  ASSUME NEW rows \in Seq(RowType), NEW g, IsSums(g, rows), NEW h, IsSums(h, rows)
  PROVE  g = h
<1> DEFINE T == {k \in Nat : k <= Len(rows) => g[k] = h[k]}
<1>1. 0 \in T
  BY SumsType
<1>2. ASSUME NEW k \in T PROVE k + 1 \in T
  <2> SUFFICES ASSUME k + 1 <= Len(rows) PROVE g[k + 1] = h[k + 1]
    OBVIOUS
  <2>1. k + 1 \in 1..Len(rows) /\ (k + 1) - 1 = k /\ g[k] = h[k]
    OBVIOUS
  <2> QED BY <2>1, SumsType
<1>3. T = Nat
  <2> HIDE DEF T
  <2> QED BY <1>1, <1>2, Induct DEF T
<1>4. \A k \in 0..Len(rows) : g[k] = h[k]
  BY <1>3
<1> QED BY <1>4, SumsType

(* What the functions of the loop say of the sums.                          *)
LEMMA SumsFacts ==
  ASSUME NEW rows \in Seq(RowType)
  PROVE  /\ BodySums(rows) \in [0..Len(rows) -> Nat] /\ BodySums(rows)[0] = 0
         /\ \A n \in 1..Len(rows) : BodySums(rows)[n] = BodySums(rows)[n - 1] + rows[n].body
  BY SumsDef, SumsType

LEMMA SumNat ==
  ASSUME NEW rows \in Seq(RowType), NEW n \in 0..Len(rows)
  PROVE  BodySums(rows)[n] \in Nat
  BY SumsFacts

LEMMA BodyNat ==
  ASSUME NEW rows \in Seq(RowType), NEW n \in 1..Len(rows)
  PROVE  rows[n].body \in Nat
<1>1. rows[n] \in RowType
  OBVIOUS
<1> QED BY <1>1 DEF RowType

(* Any function with the recurrence of the sums is the sums.                *)
LEMMA SumsAre ==
  ASSUME NEW rows \in Seq(RowType), NEW g \in [0..Len(rows) -> Int], g[0] = 0,
         \A n \in 1..Len(rows) : g[n] = g[n - 1] + rows[n].body
  PROVE  BodySums(rows) = g
<1>1. ASSUME NEW n \in 0..Len(rows)
      PROVE  g[n] = IF n = 0 THEN 0 ELSE g[n - 1] + rows[n].body
  OBVIOUS
<1>2. IsSums(g, rows)
  BY <1>1 DEF IsSums
<1> QED BY <1>2, SumsDef, SumsUnique

LEMMA SumsOfAppend ==
  ASSUME NEW rows \in Seq(RowType), NEW r \in RowType
  PROVE  BodySums(Append(rows, r))[Len(rows) + 1] = BodySums(rows)[Len(rows)] + r.body
<1> DEFINE more == Append(rows, r)
           g == [n \in 0..Len(more) |-> IF n = Len(more) THEN BodySums(rows)[Len(rows)] + r.body
                                        ELSE BodySums(rows)[n]]
<1>1. more \in Seq(RowType) /\ Len(more) = Len(rows) + 1
  OBVIOUS
<1>2. r.body \in Nat
  BY DEF RowType
<1>3. g \in [0..Len(more) -> Int] /\ g[0] = 0
  BY <1>1, <1>2, SumsFacts
<1>4. ASSUME NEW n \in 1..Len(more) PROVE g[n] = g[n - 1] + more[n].body
  <2>1. CASE n = Len(more)
    BY <1>1, <2>1
  <2>2. CASE n # Len(more)
    <3>1. n \in 1..Len(rows) /\ more[n] = rows[n]
      BY <1>1, <2>2
    <3> QED BY <1>1, <2>2, <3>1, SumsFacts
  <2> QED BY <2>1, <2>2
<1>5. BodySums(more) = g
  <2> HIDE DEF g
  <2> QED BY <1>1, <1>3, <1>4, SumsAre
<1> QED BY <1>1, <1>5

LEMMA SumsOfTail ==
  ASSUME NEW rows \in Seq(RowType), rows # <<>>
  PROVE  BodySums(Tail(rows))[Len(rows) - 1] = BodySums(rows)[Len(rows)] - rows[1].body
<1> DEFINE less == Tail(rows)
           g == [n \in 0..Len(less) |-> BodySums(rows)[n + 1] - rows[1].body]
<1>1. less \in Seq(RowType) /\ Len(less) = Len(rows) - 1 /\ Len(rows) \in Nat \ {0}
  OBVIOUS
<1>2. rows[1].body \in Nat
  BY <1>1, BodyNat
<1>3. g \in [0..Len(less) -> Int] /\ g[0] = 0
  <2>1. BodySums(rows)[1] = 0 + rows[1].body
    BY <1>1, SumsFacts
  <2>2. \A n \in 0..Len(less) : BodySums(rows)[n + 1] \in Nat
    BY <1>1, SumNat
  <2> QED BY <1>1, <1>2, <2>1, <2>2
<1>4. ASSUME NEW n \in 1..Len(less) PROVE g[n] = g[n - 1] + less[n].body
  <2>1. n + 1 \in 1..Len(rows) /\ less[n] = rows[n + 1] /\ n - 1 \in 0..Len(less)
    BY <1>1
  <2>2. BodySums(rows)[n + 1] = BodySums(rows)[n] + rows[n + 1].body
    BY <1>1, <2>1, SumsFacts
  <2>3. BodySums(rows)[n] \in Nat /\ rows[n + 1].body \in Nat
    BY <1>1, <2>1, SumNat, BodyNat
  <2> QED BY <1>1, <1>2, <2>1, <2>2, <2>3
<1>5. BodySums(less) = g
  <2> HIDE DEF g
  <2> QED BY <1>1, <1>3, <1>4, SumsAre
<1> QED BY <1>1, <1>5

(* The rows after the bodies of the first k were dropped.                   *)
Dropped(rows, k) ==
    [i \in 1..Len(rows) |-> IF i <= k THEN [rows[i] EXCEPT !.body = 0] ELSE rows[i]]

LEMMA DroppedType ==
  ASSUME NEW rows \in Seq(RowType), NEW k \in Nat
  PROVE  /\ Dropped(rows, k) \in Seq(RowType) /\ Len(Dropped(rows, k)) = Len(rows)
         /\ \A i \in 1..Len(rows) :
               /\ Dropped(rows, k)[i].match = rows[i].match
               /\ Dropped(rows, k)[i].lines = rows[i].lines
               /\ Dropped(rows, k)[i].body = IF i <= k THEN 0 ELSE rows[i].body
<1>1. ASSUME NEW i \in 1..Len(rows) PROVE rows[i] \in RowType
  OBVIOUS
<1>2. ASSUME NEW i \in 1..Len(rows)
      PROVE  /\ Dropped(rows, k)[i] \in RowType
             /\ Dropped(rows, k)[i].match = rows[i].match
             /\ Dropped(rows, k)[i].lines = rows[i].lines
             /\ Dropped(rows, k)[i].body = IF i <= k THEN 0 ELSE rows[i].body
  BY <1>1 DEF Dropped, RowType
<1>3. DOMAIN Dropped(rows, k) = 1..Len(rows) /\ Len(rows) \in Nat
  BY DEF Dropped
<1>4. Dropped(rows, k) \in [1..Len(rows) -> RowType]
  BY <1>2 DEF Dropped
<1> QED BY <1>2, <1>3, <1>4

LEMMA SumsOfDropped ==
  ASSUME NEW rows \in Seq(RowType), NEW k \in 0..Len(rows)
  PROVE  BodySums(Dropped(rows, k))[Len(rows)] = BodySums(rows)[Len(rows)] - BodySums(rows)[k]
<1> DEFINE less == Dropped(rows, k)
           g == [n \in 0..Len(less) |-> IF n <= k THEN 0 ELSE BodySums(rows)[n] - BodySums(rows)[k]]
<1>1. less \in Seq(RowType) /\ Len(less) = Len(rows)
  BY DroppedType
<1>2. g \in [0..Len(less) -> Int] /\ g[0] = 0
  <2>1. \A n \in 0..Len(less) : BodySums(rows)[n] \in Nat
    BY <1>1, SumNat
  <2>2. BodySums(rows)[k] \in Nat /\ 0 <= k
    BY SumNat
  <2> QED BY <1>1, <2>1, <2>2
<1>3. ASSUME NEW n \in 1..Len(less) PROVE g[n] = g[n - 1] + less[n].body
  <2>1. less[n].body = IF n <= k THEN 0 ELSE rows[n].body
    BY <1>1, DroppedType
  <2>2. BodySums(rows)[n] = BodySums(rows)[n - 1] + rows[n].body
    BY <1>1, SumsFacts
  <2>3. /\ BodySums(rows)[n - 1] \in Nat /\ BodySums(rows)[k] \in Nat
        /\ BodySums(rows)[n] \in Nat /\ rows[n].body \in Nat
    <3>1. n - 1 \in 0..Len(rows) /\ n \in 0..Len(rows) /\ n \in 1..Len(rows)
      BY <1>1
    <3> QED BY <3>1, SumNat, BodyNat
  <2>4. n - 1 \in 0..Len(less) /\ n \in 0..Len(less)
    BY <1>1
  <2>5. CASE n <= k
    <3>1. g[n] = 0 /\ g[n - 1] = 0
      BY <2>4, <2>5
    <3> QED BY <3>1, <2>1, <2>5
  <2>6. CASE n = k + 1
    <3>1. g[n] = BodySums(rows)[n] - BodySums(rows)[k] /\ g[n - 1] = 0 /\ n - 1 = k
      BY <2>4, <2>6
    <3> QED BY <3>1, <2>1, <2>2, <2>3, <2>6
  <2>7. CASE n > k + 1
    <3>1. /\ g[n] = BodySums(rows)[n] - BodySums(rows)[k]
          /\ g[n - 1] = BodySums(rows)[n - 1] - BodySums(rows)[k]
      BY <2>4, <2>7
    <3>2. less[n].body = rows[n].body
      BY <2>1, <2>7
    <3>3. \A a, b, c \in Nat : (a + b) - c = (a - c) + b
      OBVIOUS
    <3>4. g[n] = (BodySums(rows)[n - 1] + rows[n].body) - BodySums(rows)[k]
      BY <3>1, <2>2, Zenon
    <3>5. (BodySums(rows)[n - 1] + rows[n].body) - BodySums(rows)[k]
            = (BodySums(rows)[n - 1] - BodySums(rows)[k]) + rows[n].body
      BY <3>3, <2>3, ZenonT(30)
    <3> QED BY <3>1, <3>2, <3>4, <3>5, Zenon
  <2> QED BY <2>5, <2>6, <2>7
<1>4. BodySums(less) = g
  <2> HIDE DEF g
  <2> QED BY <1>1, <1>2, <1>3, SumsAre
<1> QED BY <1>1, <1>4, SumsFacts

-----------------------------------------------------------------------------
(* The filter.                                                              *)

FoundNext(before, rows, term, n) ==
    IF rowMatchesFilter(rows[n], term) THEN Append(before, n - 1) ELSE before

IsFound(g, rows, term) ==
    g = [n \in 0..Len(rows) |-> IF n = 0 THEN <<>> ELSE FoundNext(g[n - 1], rows, term, n)]

LEMMA FoundExist == ASSUME NEW rows \in Seq(RowType), NEW term PROVE \E g : IsFound(g, rows, term)
<1> DEFINE Upto(g, k) ==
             g = [n \in 0..k |-> IF n = 0 THEN <<>> ELSE FoundNext(g[n - 1], rows, term, n)]
           T == {k \in Nat : k <= Len(rows) => \E g : Upto(g, k)}
<1>1. 0 \in T
  <2>1. Upto([n \in 0..0 |-> <<>>], 0)
    OBVIOUS
  <2> QED BY <2>1
<1>2. ASSUME NEW k \in T PROVE k + 1 \in T
  <2> SUFFICES ASSUME k + 1 <= Len(rows) PROVE \E g : Upto(g, k + 1)
    OBVIOUS
  <2>0. k \in Nat /\ k <= Len(rows)
    OBVIOUS
  <2>1. PICK g : Upto(g, k)
    <3>1. k <= Len(rows) => \E g : Upto(g, k)
      BY Zenon
    <3> QED BY <3>1, <2>0
  <2> DEFINE h == [n \in 0..k + 1 |-> IF n = k + 1 THEN FoundNext(g[k], rows, term, k + 1)
                                      ELSE g[n]]
  <2>2. ASSUME NEW n \in 0..k + 1
        PROVE  h[n] = IF n = 0 THEN <<>> ELSE FoundNext(h[n - 1], rows, term, n)
    <3>1. CASE n = k + 1
      BY <3>1
    <3>2. CASE n # k + 1
      <4>1. n \in 0..k
        BY <3>2
      <4>2. g[n] = IF n = 0 THEN <<>> ELSE FoundNext(g[n - 1], rows, term, n)
        BY <2>1, <4>1
      <4> QED BY <4>1, <4>2
    <3> QED BY <3>1, <3>2
  <2>3. Upto(h, k + 1)
    BY <2>2
  <2> QED BY <2>3
<1>3. T = Nat
  <2> HIDE DEF T
  <2> QED BY <1>1, <1>2, Induct DEF T
<1>4. Len(rows) \in T
  BY <1>3
<1> QED BY <1>4 DEF IsFound

LEMMA FoundDef ==
  ASSUME NEW rows \in Seq(RowType), NEW term
  PROVE  IsFound(Matching(rows, term), rows, term)
<1> DEFINE result[n \in 0..Len(rows)] ==
             IF n = 0 THEN <<>>
             ELSE IF rowMatchesFilter(rows[n], term) THEN Append(result[n - 1], n - 1)
             ELSE result[n - 1]
<1>1. Matching(rows, term) = result
  BY Zenon DEF Matching
<1>2. IsFound(result, rows, term)
  BY FoundExist, Zenon DEF IsFound, FoundNext
<1> QED BY <1>1, <1>2

(* The recurrence of the loop.                                              *)
LEMMA FoundFacts ==
  ASSUME NEW rows \in Seq(RowType), NEW term
  PROVE  /\ DOMAIN Matching(rows, term) = 0..Len(rows) /\ Matching(rows, term)[0] = <<>>
         /\ \A n \in 1..Len(rows) :
               Matching(rows, term)[n] = FoundNext(Matching(rows, term)[n - 1], rows, term, n)
<1> DEFINE g == Matching(rows, term)
<1>1. g = [n \in 0..Len(rows) |-> IF n = 0 THEN <<>> ELSE FoundNext(g[n - 1], rows, term, n)]
  BY FoundDef, Zenon DEF IsFound
<1> HIDE DEF g
<1>2. /\ DOMAIN g = 0..Len(rows) /\ g[0] = <<>>
      /\ \A n \in 1..Len(rows) : g[n] = FoundNext(g[n - 1], rows, term, n)
  BY <1>1
<1> QED BY <1>2 DEF g

Follows(g, rows, term, N) ==
    g[0] = <<>> /\ \A n \in 1..N : g[n] = FoundNext(g[n - 1], rows, term, n)

(* Two functions with this recurrence agree as far as it goes.              *)
LEMMA FoundUnique ==
  ASSUME NEW rows, NEW term, NEW N \in Nat, NEW g, NEW h,
         Follows(g, rows, term, N), Follows(h, rows, term, N)
  PROVE  \A n \in 0..N : g[n] = h[n]
<1> DEFINE T == {k \in Nat : k <= N => g[k] = h[k]}
<1>1. 0 \in T
  BY DEF Follows
<1>2. ASSUME NEW k \in T PROVE k + 1 \in T
  <2> SUFFICES ASSUME k + 1 <= N PROVE g[k + 1] = h[k + 1]
    OBVIOUS
  <2>1. k + 1 \in 1..N /\ (k + 1) - 1 = k /\ g[k] = h[k]
    OBVIOUS
  <2> QED BY <2>1 DEF Follows
<1>3. T = Nat
  <2> HIDE DEF T
  <2> QED BY <1>1, <1>2, Induct DEF T
<1> QED BY <1>3

(* The indices found among the first n rows: those of the rows that match,  *)
(* in order.                                                                *)
Lists(q, rows, term, n) ==
    /\ q \in Seq(Nat)
    /\ \A i, j \in 1..Len(q) : i < j => q[i] < q[j]
    /\ \A i \in 1..Len(q) : q[i] < n /\ rowMatchesFilter(rows[q[i] + 1], term)
    /\ \A x \in 0..n - 1 : rowMatchesFilter(rows[x + 1], term) => \E i \in 1..Len(q) : q[i] = x

LEMMA ListsNext ==
  ASSUME NEW rows \in Seq(RowType), NEW term, NEW n \in 1..Len(rows), NEW q,
         Lists(q, rows, term, n - 1)
  PROVE  Lists(FoundNext(q, rows, term, n), rows, term, n)
<1>1. CASE ~rowMatchesFilter(rows[n], term)
  <2>1. FoundNext(q, rows, term, n) = q
    BY <1>1 DEF FoundNext
  <2>2. \A x \in 0..n - 1 : rowMatchesFilter(rows[x + 1], term) => x \in 0..(n - 1) - 1
    BY <1>1
  <2>3. /\ q \in Seq(Nat) /\ \A i, j \in 1..Len(q) : i < j => q[i] < q[j]
        /\ \A i \in 1..Len(q) : q[i] < n - 1 /\ rowMatchesFilter(rows[q[i] + 1], term)
        /\ \A x \in 0..(n - 1) - 1 : rowMatchesFilter(rows[x + 1], term) =>
              \E i \in 1..Len(q) : q[i] = x
    BY DEF Lists
  <2>4. ASSUME NEW i \in 1..Len(q) PROVE q[i] < n
    <3>1. q[i] \in Nat /\ q[i] < n - 1
      BY <2>3
    <3> QED BY <3>1
  <2>5. \A x \in 0..n - 1 : rowMatchesFilter(rows[x + 1], term) => \E i \in 1..Len(q) : q[i] = x
    BY <2>2, <2>3, Zenon
  <2> QED BY <2>1, <2>3, <2>4, <2>5, Zenon DEF Lists
<1>2. CASE rowMatchesFilter(rows[n], term)
  <2> DEFINE p == Append(q, n - 1)
  <2>1. FoundNext(q, rows, term, n) = p
    BY <1>2 DEF FoundNext
  <2>2. q \in Seq(Nat) /\ n - 1 \in Nat
    BY DEF Lists
  <2>3. /\ p \in Seq(Nat) /\ Len(p) = Len(q) + 1 /\ Len(q) \in Nat /\ p[Len(q) + 1] = n - 1
        /\ \A i \in 1..Len(q) : p[i] = q[i]
    BY <2>2
  <2>8. Len(p) = Len(q) + 1 /\ Len(q) \in Nat
    BY <2>3
  <2> HIDE DEF p
  <2>4. ASSUME NEW i \in 1..Len(p), NEW j \in 1..Len(p), i < j PROVE p[i] < p[j]
    <3>1. i \in 1..Len(q) /\ (j \in 1..Len(q) \/ j = Len(q) + 1)
      BY <2>8, <2>4
    <3>2. q[i] < n - 1 /\ \A k \in 1..Len(q) : i < k => q[i] < q[k]
      BY <3>1 DEF Lists
    <3>3. p[i] = q[i]
      BY <2>3, <3>1
    <3>4. CASE j \in 1..Len(q)
      <4>1. p[j] = q[j] /\ q[i] < q[j]
        BY <2>3, <2>4, <3>2, <3>4
      <4> QED BY <3>3, <4>1
    <3>5. CASE j = Len(q) + 1
      BY <2>3, <3>2, <3>3, <3>5
    <3> QED BY <3>1, <3>4, <3>5
  <2>5. ASSUME NEW i \in 1..Len(p) PROVE p[i] < n /\ rowMatchesFilter(rows[p[i] + 1], term)
    <3>1. CASE i = Len(q) + 1
      <4>1. p[i] = n - 1 /\ p[i] + 1 = n
        BY <2>3, <3>1
      <4> QED BY <4>1, <1>2
    <3>2. CASE i # Len(q) + 1
      <4>1. i \in 1..Len(q)
        BY <2>3, <3>2
      <4>2. q[i] < n - 1 /\ q[i] \in Nat /\ rowMatchesFilter(rows[q[i] + 1], term)
        BY <4>1, <2>2 DEF Lists
      <4>3. p[i] = q[i] /\ q[i] < n
        BY <2>3, <4>1, <4>2
      <4> QED BY <4>2, <4>3
    <3> QED BY <3>1, <3>2
  <2>6. ASSUME NEW x \in 0..n - 1, rowMatchesFilter(rows[x + 1], term)
        PROVE  \E i \in 1..Len(p) : p[i] = x
    <3>1. CASE x = n - 1
      BY <3>1, <2>3
    <3>2. CASE x # n - 1
      <4>1. x \in 0..(n - 1) - 1
        BY <3>2
      <4>2. PICK i \in 1..Len(q) : q[i] = x
        BY <4>1, <2>6 DEF Lists
      <4> QED BY <2>3, <4>2
    <3> QED BY <3>1, <3>2
  <2>7. Lists(p, rows, term, n)
    BY <2>3, <2>4, <2>5, <2>6 DEF Lists
  <2> QED BY <2>1, <2>7
<1> QED BY <1>1, <1>2

LEMMA MatchingLists ==
  ASSUME NEW rows \in Seq(RowType), NEW term
  PROVE  \A n \in 0..Len(rows) : Lists(Matching(rows, term)[n], rows, term, n)
<1> DEFINE T == {k \in Nat : k <= Len(rows) => Lists(Matching(rows, term)[k], rows, term, k)}
<1>1. 0 \in T
  <2>1. Lists(<<>>, rows, term, 0)
    BY DEF Lists
  <2> QED BY <2>1, FoundFacts
<1>2. ASSUME NEW k \in T PROVE k + 1 \in T
  <2> SUFFICES ASSUME k + 1 <= Len(rows)
               PROVE  Lists(Matching(rows, term)[k + 1], rows, term, k + 1)
    OBVIOUS
  <2>1. k + 1 \in 1..Len(rows) /\ (k + 1) - 1 = k /\ Lists(Matching(rows, term)[k], rows, term, k)
    OBVIOUS
  <2>2. Matching(rows, term)[k + 1] = FoundNext(Matching(rows, term)[k], rows, term, k + 1)
    BY <2>1, FoundFacts
  <2> QED BY <2>1, <2>2, ListsNext
<1>3. T = Nat
  <2> HIDE DEF T
  <2> QED BY <1>1, <1>2, Induct DEF T
<1> QED BY <1>3

(* A row at the end changes nothing for the rows before it.                 *)
LEMMA MatchingOfAppend ==
  ASSUME NEW rows \in Seq(RowType), NEW r \in RowType, NEW term
  PROVE  Matching(Append(rows, r), term)[Len(rows) + 1] =
            FoundNext(Matching(rows, term)[Len(rows)], Append(rows, r), term, Len(rows) + 1)
<1> DEFINE more == Append(rows, r)
<1>1. more \in Seq(RowType) /\ Len(more) = Len(rows) + 1 /\ Len(rows) \in Nat
  OBVIOUS
<1>2. \A n \in 1..Len(rows) : more[n] = rows[n]
  OBVIOUS
<1>3. \A n \in 1..Len(more) :
         Matching(more, term)[n] = FoundNext(Matching(more, term)[n - 1], more, term, n)
  BY <1>1, FoundFacts
<1> HIDE DEF more
<1>4. \A n \in 1..Len(rows) :
         Matching(more, term)[n] = FoundNext(Matching(more, term)[n - 1], rows, term, n)
  BY <1>1, <1>2, <1>3 DEF FoundNext
<1>5. Matching(more, term)[0] = <<>> /\ Matching(rows, term)[0] = <<>>
  BY <1>1, FoundFacts
<1>6. \A n \in 1..Len(rows) :
         Matching(rows, term)[n] = FoundNext(Matching(rows, term)[n - 1], rows, term, n)
  BY FoundFacts
<1>7. Matching(more, term)[Len(rows)] = Matching(rows, term)[Len(rows)]
  <2>1. /\ Follows(Matching(more, term), rows, term, Len(rows))
        /\ Follows(Matching(rows, term), rows, term, Len(rows))
    BY <1>4, <1>5, <1>6, Zenon DEF Follows
  <2>2. Len(rows) \in Nat /\ Len(rows) \in 0..Len(rows)
    BY <1>1
  <2> QED BY <2>1, <2>2, FoundUnique
<1>8. Matching(more, term)[Len(rows) + 1]
         = FoundNext(Matching(more, term)[Len(rows)], more, term, Len(rows) + 1)
  BY <1>1, <1>3
<1> QED BY <1>7, <1>8 DEF more

(* Dropping bodies does not change what matches.                            *)
LEMMA MatchingOfDropped ==
  ASSUME NEW rows \in Seq(RowType), NEW k \in Nat, NEW term
  PROVE  Matching(Dropped(rows, k), term)[Len(rows)] = Matching(rows, term)[Len(rows)]
<1> DEFINE less == Dropped(rows, k)
<1>1. less \in Seq(RowType) /\ Len(less) = Len(rows) /\ Len(rows) \in Nat
  BY DroppedType
<1>2. \A n \in 1..Len(rows) : less[n].match = rows[n].match
  BY DroppedType
<1>3. \A n \in 1..Len(rows) :
         Matching(less, term)[n] = FoundNext(Matching(less, term)[n - 1], less, term, n)
  BY <1>1, FoundFacts
<1> HIDE DEF less
<1>4. \A n \in 1..Len(rows) :
         Matching(less, term)[n] = FoundNext(Matching(less, term)[n - 1], rows, term, n)
  BY <1>1, <1>2, <1>3 DEF FoundNext, rowMatchesFilter
<1>5. Matching(less, term)[0] = <<>> /\ Matching(rows, term)[0] = <<>>
  BY <1>1, FoundFacts
<1>6. \A n \in 1..Len(rows) :
         Matching(rows, term)[n] = FoundNext(Matching(rows, term)[n - 1], rows, term, n)
  BY FoundFacts
<1>7. Matching(less, term)[Len(rows)] = Matching(rows, term)[Len(rows)]
  <2>1. /\ Follows(Matching(less, term), rows, term, Len(rows))
        /\ Follows(Matching(rows, term), rows, term, Len(rows))
    BY <1>4, <1>5, <1>6, Zenon DEF Follows
  <2>2. Len(rows) \in Nat /\ Len(rows) \in 0..Len(rows)
    BY <1>1
  <2> QED BY <2>1, <2>2, FoundUnique
<1> QED BY <1>7 DEF less

(* The list without the first row: shifted by one, its head gone if the     *)
(* first row was in it.                                                     *)
Shifted(q, first) ==
    IF first THEN [i \in 1..Len(q) - 1 |-> q[i + 1] - 1] ELSE [i \in 1..Len(q) |-> q[i] - 1]

LEMMA ShiftedAppend ==
  ASSUME NEW q \in Seq(Int), NEW x \in Int, NEW first \in BOOLEAN, first => Len(q) > 0
  PROVE  /\ Shifted(q, first) \in Seq(Int)
         /\ Shifted(Append(q, x), first) = Append(Shifted(q, first), x - 1)
<1> DEFINE p == Append(q, x)
<1>1. /\ Len(q) \in Nat /\ p \in Seq(Int) /\ Len(p) = Len(q) + 1 /\ p[Len(q) + 1] = x
      /\ \A i \in 1..Len(q) : p[i] = q[i] /\ q[i] \in Int
  OBVIOUS
<1> HIDE DEF p
<1>2. CASE first
  <2> DEFINE s == Shifted(q, first)
  <2>1. s = [i \in 1..Len(q) - 1 |-> q[i + 1] - 1]
    BY <1>2 DEF Shifted
  <2>2. s \in Seq(Int) /\ Len(s) = Len(q) - 1 /\ \A i \in 1..Len(q) - 1 : s[i] = q[i + 1] - 1
    <3>1. Len(q) - 1 \in Nat /\ \A i \in 1..Len(q) - 1 : q[i + 1] - 1 \in Int
      BY <1>1, <1>2
    <3> QED BY <2>1, <3>1
  <2>3. Shifted(p, first) = [i \in 1..Len(q) |-> p[i + 1] - 1]
    BY <1>1, <1>2 DEF Shifted
  <2> HIDE DEF s
  <2>4. ASSUME NEW i \in 1..Len(q) PROVE Append(s, x - 1)[i] = p[i + 1] - 1
    <3>1. Append(s, x - 1)[i] = IF i = Len(q) THEN x - 1 ELSE s[i]
      <4>1. s \in Seq(Int) /\ Len(s) + 1 = Len(q) /\ i \in 1..Len(s) + 1
        BY <1>1, <2>2
      <4> QED BY <4>1
    <3>2. CASE i = Len(q)
      BY <1>1, <3>1, <3>2
    <3>3. CASE i # Len(q)
      <4>1. i \in 1..Len(q) - 1 /\ i + 1 \in 1..Len(q)
        BY <1>1, <3>3
      <4> QED BY <1>1, <2>2, <3>1, <3>3, <4>1
    <3> QED BY <3>2, <3>3
  <2>5. /\ Append(s, x - 1) = [i \in DOMAIN Append(s, x - 1) |-> Append(s, x - 1)[i]]
        /\ DOMAIN Append(s, x - 1) = 1..Len(q)
    BY <1>1, <1>2, <2>2
  <2>6. Append(s, x - 1) = Shifted(p, first)
    BY <2>3, <2>4, <2>5
  <2> QED BY <2>2, <2>6 DEF s, p
<1>3. CASE ~first
  <2> DEFINE s == Shifted(q, first)
  <2>1. s = [i \in 1..Len(q) |-> q[i] - 1]
    BY <1>3 DEF Shifted
  <2>2. s \in Seq(Int) /\ Len(s) = Len(q) /\ \A i \in 1..Len(q) : s[i] = q[i] - 1
    BY <1>1, <2>1
  <2>3. Shifted(p, first) = [i \in 1..Len(p) |-> p[i] - 1]
    BY <1>3 DEF Shifted
  <2> HIDE DEF s
  <2>4. \A i \in 1..Len(p) : Append(s, x - 1)[i] = p[i] - 1
    BY <1>1, <2>2
  <2>5. DOMAIN Append(s, x - 1) = 1..Len(p)
    BY <1>1, <2>2
  <2>6. Append(s, x - 1) = Shifted(p, first)
    BY <2>2, <2>3, <2>4, <2>5
  <2> QED BY <2>2, <2>6 DEF s, p
<1> QED BY <1>2, <1>3

LEMMA MatchingOfTail ==
  ASSUME NEW rows \in Seq(RowType), rows # <<>>, NEW term
  PROVE  LET first == rowMatchesFilter(rows[1], term)
             q == Matching(rows, term)[Len(rows)]
         IN /\ first => Len(q) > 0 /\ q[1] = 0
            /\ Matching(Tail(rows), term)[Len(rows) - 1] = Shifted(q, first)
<1> DEFINE first == rowMatchesFilter(rows[1], term)
           less == Tail(rows)
           g == Matching(rows, term)
           h == [n \in 0..Len(less) |-> Shifted(g[n + 1], first)]
<1>1. /\ less \in Seq(RowType) /\ Len(less) = Len(rows) - 1 /\ Len(rows) \in Nat \ {0}
      /\ \A n \in 1..Len(less) : less[n] = rows[n + 1]
  OBVIOUS
<1>2. /\ g[0] = <<>>
      /\ \A n \in 1..Len(rows) : g[n] = FoundNext(g[n - 1], rows, term, n)
  BY FoundFacts
<1>3. \A n \in 0..Len(rows) : Lists(g[n], rows, term, n)
  BY MatchingLists
<1>4. first \in BOOLEAN
  BY DEF rowMatchesFilter
<1> HIDE DEF less, g
<1>5. ASSUME NEW n \in 1..Len(rows)
      PROVE  g[n] \in Seq(Int) /\ (first => Len(g[n]) > 0 /\ g[n][1] = 0)
  <2>1. Lists(g[n], rows, term, n)
    BY <1>3
  <2>2. g[n] \in Seq(Nat)
    BY <2>1 DEF Lists
  <2>3. g[n] \in Seq(Int)
    BY <2>2
  <2>4. ASSUME first PROVE Len(g[n]) > 0 /\ g[n][1] = 0
    <3>1. 0 \in 0..n - 1 /\ rowMatchesFilter(rows[0 + 1], term)
      BY <2>4
    <3>2. PICK i \in 1..Len(g[n]) : g[n][i] = 0
      BY <2>1, <3>1 DEF Lists
    <3>3. 1 \in 1..Len(g[n]) /\ g[n][1] \in Nat
      BY <2>2, <3>2
    <3>4. 1 < i => g[n][1] < g[n][i]
      BY <2>1, <3>3 DEF Lists
    <3> QED BY <2>2, <3>2, <3>3, <3>4
  <2> QED BY <2>3, <2>4
<1>6. h[0] = <<>>
  <2>1. g[1] = FoundNext(<<>>, rows, term, 1)
    BY <1>1, <1>2
  <2>2. g[1] = IF first THEN <<0>> ELSE <<>>
    BY <2>1 DEF FoundNext
  <2>3. h[0] = Shifted(g[1], first)
    BY <1>1
  <2> QED BY <2>2, <2>3 DEF Shifted
<1>7. ASSUME NEW n \in 1..Len(less) PROVE h[n] = FoundNext(h[n - 1], less, term, n)
  <2>1. h[n] = Shifted(g[n + 1], first) /\ h[n - 1] = Shifted(g[n], first)
    BY <1>1
  <2>2. n \in 1..Len(rows) /\ n + 1 \in 1..Len(rows) /\ (n + 1) - 1 = n
    BY <1>1
  <2>3. g[n + 1] = FoundNext(g[n], rows, term, n + 1)
    BY <1>2, <2>2
  <2>4. g[n] \in Seq(Int) /\ (first => Len(g[n]) > 0)
    BY <1>5, <2>2
  <2>5. Shifted(Append(g[n], n), first) = Append(Shifted(g[n], first), n - 1)
    BY <1>4, <2>4, ShiftedAppend
  <2>6. rowMatchesFilter(less[n], term) = rowMatchesFilter(rows[n + 1], term)
    BY <1>1
  <2> HIDE DEF h, first
  <2> QED BY <2>1, <2>2, <2>3, <2>5, <2>6 DEF FoundNext
<1>8. Matching(less, term)[0] = <<>>
  BY <1>1, FoundFacts
<1>9. \A n \in 1..Len(less) :
         Matching(less, term)[n] = FoundNext(Matching(less, term)[n - 1], less, term, n)
  BY <1>1, FoundFacts
<1>10. Matching(less, term)[Len(less)] = h[Len(less)]
  <2> HIDE DEF h
  <2>1. /\ Follows(Matching(less, term), less, term, Len(less))
        /\ Follows(h, less, term, Len(less))
    BY <1>6, <1>7, <1>8, <1>9, Zenon DEF Follows
  <2>2. Len(less) \in Nat /\ Len(less) \in 0..Len(less)
    BY <1>1
  <2> QED BY <2>1, <2>2, FoundUnique
<1>11. h[Len(less)] = Shifted(g[Len(rows)], first)
  BY <1>1
<1> QED BY <1>1, <1>5, <1>10, <1>11 DEF less, g

-----------------------------------------------------------------------------
(* What is on display.                                                      *)

(* A model before the clamps: its offsets may be out of range.              *)
Raw == [rows : Seq(RowType), height : Heights,
        selected : Nat, top : Nat, follow : BOOLEAN,
        detailOpen : BOOLEAN, panelFocus : BOOLEAN, detailOffset : Int, hexMode : BOOLEAN,
        bodyBytes : Nat, filterMode : BOOLEAN, term : 0..MaxTerm,
        filtered : {Nil} \cup Seq(Nat),
        diagLines : 0..MaxDiagLines, diagOpen : BOOLEAN, diagOffset : Int]

(* The cached indices are those that rebuildFilter would find.              *)
Current(s) ==
    s.filtered = IF s.term = 0 THEN Nil ELSE Matching(s.rows, s.term)[Len(s.rows)]

LEMMA FilterFacts ==
  ASSUME NEW s \in Raw, Current(s)
  PROVE  /\ s.rows \in Seq(RowType) /\ Len(s.rows) \in Nat
         /\ s.term = 0 => s.filtered = Nil
         /\ s.term # 0 => /\ s.filtered # Nil
                          /\ Lists(s.filtered, s.rows, s.term, Len(s.rows))
<1>1. s.rows \in Seq(RowType) /\ Len(s.rows) \in Nat
  BY DEF Raw
<1>2. ASSUME s.term # 0
      PROVE  s.filtered # Nil /\ Lists(s.filtered, s.rows, s.term, Len(s.rows))
  <2>1. s.filtered = Matching(s.rows, s.term)[Len(s.rows)]
    BY <1>2 DEF Current
  <2>2. Lists(s.filtered, s.rows, s.term, Len(s.rows))
    BY <1>1, <2>1, MatchingLists
  <2>3. s.filtered \in Seq(Nat)
    BY <2>2 DEF Lists
  <2> QED BY <2>2, <2>3, ConstantsAssumption
<1>3. s.term = 0 => s.filtered = Nil
  BY DEF Current
<1> QED BY <1>1, <1>2, <1>3

LEMMA DisplayFacts ==
  ASSUME NEW s \in Raw, Current(s)
  PROVE  /\ displayCount(s) \in Nat
         /\ \A i \in 0..displayCount(s) - 1 :
               RowIndex(s, i) \in 0..Len(s.rows) - 1 /\ displayRow(s, i) \in RowType
         /\ s.rows = <<>> => displayCount(s) = 0
<1>1. ASSUME NEW i \in 0..Len(s.rows) - 1 PROVE s.rows[i + 1] \in RowType
  BY FilterFacts
<1>2. CASE s.filtered = Nil
  <2>1. displayCount(s) = Len(s.rows)
    BY <1>2 DEF displayCount
  <2>2. \A i \in 0..displayCount(s) - 1 : RowIndex(s, i) = i
    BY <1>2 DEF RowIndex
  <2> QED BY <1>1, <2>1, <2>2, FilterFacts DEF displayRow
<1>3. CASE s.filtered # Nil
  <2>1. displayCount(s) = Len(s.filtered)
    BY <1>3 DEF displayCount
  <2>2. Lists(s.filtered, s.rows, s.term, Len(s.rows))
    BY <1>3, FilterFacts
  <2>3. s.filtered \in Seq(Nat) /\ \A i \in 1..Len(s.filtered) : s.filtered[i] < Len(s.rows)
    BY <2>2 DEF Lists
  <2>4. ASSUME NEW i \in 0..displayCount(s) - 1
        PROVE  RowIndex(s, i) \in 0..Len(s.rows) - 1
    <3>1. RowIndex(s, i) = s.filtered[i + 1] /\ i + 1 \in 1..Len(s.filtered)
      BY <1>3, <2>1 DEF RowIndex
    <3>2. s.filtered[i + 1] \in Nat /\ s.filtered[i + 1] < Len(s.rows)
      BY <2>3, <3>1
    <3> QED BY <3>1, <3>2, FilterFacts
  <2>5. ASSUME s.rows = <<>> PROVE displayCount(s) = 0
    <3>1. displayCount(s) \in Nat /\ Len(s.rows) = 0
      BY <2>1, <2>3, <2>5
    <3> QED BY <2>4, <3>1
  <2>6. displayCount(s) \in Nat
    BY <2>1, <2>3
  <2> QED BY <1>1, <2>4, <2>5, <2>6 DEF displayRow
<1> QED BY <1>2, <1>3

(* The selection is an index of the rows on display.                        *)
Selects(s) == displayCount(s) > 0 => s.selected < displayCount(s)

LEMMA LinesFacts ==
  ASSUME NEW s \in Raw, Current(s), Selects(s)
  PROVE  /\ detailLineCount(s) \in Nat
         /\ bodyLines(s) \in Nat /\ visibleRows(s) \in Nat
         /\ s.rows # <<>> => bodyLines(s) <= detailLineCount(s)
         /\ s.rows = <<>> => bodyLines(s) <= 1
         /\ maxDetailOffset(s) \in Nat
<1>1. ASSUME NEW r \in RowType, NEW hex \in BOOLEAN PROVE detailContent(r, hex) \in Nat
  <2>1. r.body \in Nat /\ r.lines \in Nat
    BY DEF RowType
  <2> QED BY <2>1 DEF detailContent
<1>2. detailLineCount(s) \in Nat
  <2>1. CASE displayCount(s) = 0
    BY <2>1 DEF detailLineCount
  <2>2. CASE displayCount(s) # 0
    <3>1. s.selected \in 0..displayCount(s) - 1 /\ s.hexMode \in BOOLEAN
      BY <2>2, DisplayFacts DEF Selects, Raw
    <3>2. displayRow(s, s.selected) \in RowType
      BY <3>1, DisplayFacts
    <3> QED BY <2>2, <3>1, <3>2, <1>1 DEF detailLineCount
  <2> QED BY <2>1, <2>2
<1>3. s.height \in Nat
  BY ConstantsAssumption DEF Raw
<1> DEFINE avail == s.height - 5
           want == IF s.rows = <<>> THEN 1 ELSE detailLineCount(s)
<1>4. bodyLines(s) = IF s.detailOpen /\ avail > 0 THEN Min({want, (avail * 3) \div 5}) ELSE 0
  BY DEF bodyLines, chromeLines
<1>5. bodyLines(s) \in Nat /\ bodyLines(s) <= want
  <2>1. want \in Nat
    BY <1>2
  <2>2. CASE s.detailOpen /\ avail > 0
    <3>1. (avail * 3) \div 5 \in Nat
      BY <1>3, <2>2
    <3> HIDE DEF avail, want
    <3> QED BY <1>4, <2>1, <2>2, <3>1, MinOfTwo
  <2>3. CASE ~(s.detailOpen /\ avail > 0)
    BY <1>4, <2>1, <2>3
  <2> QED BY <2>2, <2>3
<1>6. visibleRows(s) \in Nat
  <2>1. s.height - chromeLines - bodyLines(s) \in Int
    BY <1>3, <1>5 DEF chromeLines
  <2> QED BY <2>1, MaxOfTwo DEF visibleRows
<1>7. maxDetailOffset(s) \in Nat
  BY <1>2, <1>5 DEF maxDetailOffset
<1> QED BY <1>2, <1>5, <1>6, <1>7

(* What is on display depends on six fields.                                *)
SameView(s, t) ==
    /\ s.rows = t.rows /\ s.height = t.height /\ s.filtered = t.filtered
    /\ s.selected = t.selected /\ s.detailOpen = t.detailOpen /\ s.hexMode = t.hexMode

LEMMA ViewFacts ==
  ASSUME NEW s, NEW t, SameView(s, t)
  PROVE  /\ displayCount(s) = displayCount(t) /\ detailLineCount(s) = detailLineCount(t)
         /\ bodyLines(s) = bodyLines(t) /\ visibleRows(s) = visibleRows(t)
         /\ maxDetailOffset(s) = maxDetailOffset(t)
<1>1. displayCount(s) = displayCount(t)
  BY DEF SameView, displayCount
<1>2. displayRow(s, s.selected) = displayRow(t, t.selected)
  BY DEF SameView, displayRow, RowIndex
<1>3. detailLineCount(s) = detailLineCount(t)
  BY <1>1, <1>2 DEF SameView, detailLineCount
<1>4. bodyLines(s) = bodyLines(t)
  BY <1>3 DEF SameView, bodyLines
<1> QED BY <1>1, <1>3, <1>4 DEF SameView, visibleRows, maxDetailOffset

-----------------------------------------------------------------------------
(* The clamps.                                                              *)

Clamped(s) == clampDiagOffset(clampDetailOffset(clampScroll(s)))

(* SelectionOnScreen, of any model.                                         *)
OnScreen(s) ==
    /\ s.selected < Max({1, displayCount(s)})
    /\ (displayCount(s) > 0 /\ visibleRows(s) > 0) =>
          /\ s.top <= s.selected /\ s.selected < s.top + visibleRows(s)
          /\ s.top = 0 \/ s.top + visibleRows(s) <= displayCount(s)

(* What the clamps leave alone.                                             *)
SameRest(s, t) ==
    /\ s.rows = t.rows /\ s.height = t.height /\ s.follow = t.follow
    /\ s.detailOpen = t.detailOpen /\ s.panelFocus = t.panelFocus /\ s.hexMode = t.hexMode
    /\ s.bodyBytes = t.bodyBytes /\ s.filterMode = t.filterMode /\ s.term = t.term
    /\ s.filtered = t.filtered /\ s.diagLines = t.diagLines /\ s.diagOpen = t.diagOpen

(* Each clamp changes one field.                                            *)
LEMMA SetSelected ==
  ASSUME NEW s \in Raw, NEW x \in Nat
  PROVE  LET t == [s EXCEPT !.selected = x]
         IN /\ t \in Raw /\ SameRest(s, t) /\ t.selected = x
            /\ t.top = s.top /\ t.detailOffset = s.detailOffset /\ t.diagOffset = s.diagOffset
<1>1. [s EXCEPT !.selected = x] \in Raw
  BY DEF Raw
<1>2. SameRest(s, [s EXCEPT !.selected = x])
  BY DEF Raw, SameRest
<1>3. [s EXCEPT !.selected = x].selected = x
  BY DEF Raw
<1> QED BY <1>1, <1>2, <1>3 DEF Raw

LEMMA SetTop ==
  ASSUME NEW s \in Raw, NEW x \in Nat
  PROVE  LET t == [s EXCEPT !.top = x]
         IN /\ t \in Raw /\ SameRest(s, t) /\ t.top = x
            /\ t.selected = s.selected /\ t.detailOffset = s.detailOffset /\ t.diagOffset = s.diagOffset
<1>1. [s EXCEPT !.top = x] \in Raw
  BY DEF Raw
<1>2. SameRest(s, [s EXCEPT !.top = x])
  BY DEF Raw, SameRest
<1>3. [s EXCEPT !.top = x].top = x
  BY DEF Raw
<1> QED BY <1>1, <1>2, <1>3 DEF Raw

LEMMA SetDetailOffset ==
  ASSUME NEW s \in Raw, NEW x \in Int
  PROVE  LET t == [s EXCEPT !.detailOffset = x]
         IN /\ t \in Raw /\ SameRest(s, t) /\ t.detailOffset = x
            /\ t.selected = s.selected /\ t.top = s.top /\ t.diagOffset = s.diagOffset
<1>1. [s EXCEPT !.detailOffset = x] \in Raw
  BY DEF Raw
<1>2. SameRest(s, [s EXCEPT !.detailOffset = x])
  BY DEF Raw, SameRest
<1>3. [s EXCEPT !.detailOffset = x].detailOffset = x
  BY DEF Raw
<1> QED BY <1>1, <1>2, <1>3 DEF Raw

LEMMA SetDiagOffset ==
  ASSUME NEW s \in Raw, NEW x \in Int
  PROVE  LET t == [s EXCEPT !.diagOffset = x]
         IN /\ t \in Raw /\ SameRest(s, t) /\ t.diagOffset = x
            /\ t.selected = s.selected /\ t.top = s.top /\ t.detailOffset = s.detailOffset
<1>1. [s EXCEPT !.diagOffset = x] \in Raw
  BY DEF Raw
<1>2. SameRest(s, [s EXCEPT !.diagOffset = x])
  BY DEF Raw, SameRest
<1>3. [s EXCEPT !.diagOffset = x].diagOffset = x
  BY DEF Raw
<1> QED BY <1>1, <1>2, <1>3 DEF Raw

LEMMA SelectionClampedFacts ==
  ASSUME NEW s \in Raw, Current(s)
  PROVE  LET t == SelectionClamped(s)
         IN /\ t \in Raw /\ Current(t) /\ Selects(t) /\ SameRest(s, t)
            /\ t.top = s.top /\ t.detailOffset = s.detailOffset /\ t.diagOffset = s.diagOffset
            /\ displayCount(t) = displayCount(s)
            /\ displayCount(s) = 0 => t.selected = 0
            /\ s.selected < displayCount(s) => t.selected = s.selected
<1> DEFINE n == displayCount(s)
           x == IF n = 0 THEN 0 ELSE Min({s.selected, n - 1})
           t == [s EXCEPT !.selected = x]
<1>1. n \in Nat /\ s.selected \in Nat
  BY DisplayFacts DEF Raw
<1>2. /\ x \in Nat
      /\ n > 0 => x < n
      /\ n = 0 => x = 0
      /\ s.selected < n => x = s.selected
  <2>1. Min({s.selected, n - 1}) = IF s.selected <= n - 1 THEN s.selected ELSE n - 1
    BY <1>1, MinOfTwo
  <2> HIDE DEF n
  <2> QED BY <1>1, <2>1
<1>3. SelectionClamped(s) = t
  BY DEF SelectionClamped
<1> HIDE DEF x, n
<1>4. /\ t \in Raw /\ SameRest(s, t) /\ t.selected = x
      /\ t.top = s.top /\ t.detailOffset = s.detailOffset /\ t.diagOffset = s.diagOffset
  <2>1. x \in Nat
    BY <1>2
  <2> QED BY <2>1, SetSelected
<1> HIDE DEF t
<1>5. displayCount(t) = n /\ Current(t)
  <2>1. t.rows = s.rows /\ t.filtered = s.filtered /\ t.term = s.term
    BY <1>4 DEF SameRest
  <2> QED BY <2>1 DEF displayCount, Current, n
<1> QED BY <1>2, <1>3, <1>4, <1>5 DEF Selects, n

LEMMA TopForFacts ==
  ASSUME NEW r, r.selected \in Nat, r.top \in Nat, displayCount(r) \in Nat,
         NEW visible \in Nat \ {0}
  PROVE  /\ TopFor(r, visible) \in Nat
         /\ r.selected < displayCount(r) =>
               TopFor(r, visible) <= r.selected /\ r.selected < TopFor(r, visible) + visible
         /\ TopFor(r, visible) = 0 \/ TopFor(r, visible) + visible <= displayCount(r)
<1> DEFINE sel == r.selected
           top == r.top
           n == displayCount(r)
           scrolled == Max({Min({top, sel}), sel - visible + 1})
           room == Max({0, n - visible})
           new == Min({scrolled, room})
<1>0. TopFor(r, visible) = new
  BY DEF TopFor
<1>01. sel \in Nat /\ top \in Nat /\ n \in Nat
  OBVIOUS
<1> HIDE DEF sel, top, n
<1>1. Min({top, sel}) = IF top <= sel THEN top ELSE sel
  BY <1>01, MinOfTwo
<1>2. scrolled = IF Min({top, sel}) >= sel - visible + 1 THEN Min({top, sel}) ELSE sel - visible + 1
  <2>1. Min({top, sel}) \in Int /\ sel - visible + 1 \in Int
    BY <1>01, <1>1
  <2> QED BY <2>1, MaxOfTwo
<1> HIDE DEF scrolled
<1>3. scrolled \in Nat /\ scrolled <= sel /\ sel < scrolled + visible
  BY <1>01, <1>1, <1>2
<1>4. room = IF 0 >= n - visible THEN 0 ELSE n - visible
  BY <1>01, MaxOfTwo
<1> HIDE DEF room
<1>5. new = IF scrolled <= room THEN scrolled ELSE room
  <2>1. room \in Int
    BY <1>01, <1>4
  <2> QED BY <1>3, <2>1, MinOfTwo
<1> HIDE DEF new
<1>6. /\ new \in Nat
      /\ sel < n => new <= sel /\ sel < new + visible
      /\ new = 0 \/ new + visible <= n
  BY <1>01, <1>3, <1>4, <1>5
<1> QED BY <1>0, <1>6 DEF sel, n

LEMMA ClampScrollFacts ==
  ASSUME NEW s \in Raw, Current(s)
  PROVE  LET t == clampScroll(s)
         IN /\ t \in Raw /\ Current(t) /\ Selects(t) /\ SameRest(s, t) /\ OnScreen(t)
            /\ t.detailOffset = s.detailOffset /\ t.diagOffset = s.diagOffset
            /\ displayCount(t) = displayCount(s)
            /\ s.selected < displayCount(s) => t.selected = s.selected
<1> DEFINE r == SelectionClamped(s)
           y == TopFor(r, visibleRows(r))
           t == [r EXCEPT !.top = y]
<1>1. clampScroll(s) = t
  BY DEF clampScroll
<1>2. /\ r \in Raw /\ Current(r) /\ Selects(r) /\ SameRest(s, r)
      /\ r.detailOffset = s.detailOffset /\ r.diagOffset = s.diagOffset
      /\ displayCount(r) = displayCount(s)
      /\ displayCount(s) = 0 => r.selected = 0
      /\ s.selected < displayCount(s) => r.selected = s.selected
  BY SelectionClampedFacts
<1> HIDE DEF r
<1>3. displayCount(r) \in Nat /\ visibleRows(r) \in Nat /\ r.selected \in Nat /\ r.top \in Nat
  BY <1>2, DisplayFacts, LinesFacts DEF Raw
<1>4. /\ y \in Nat
      /\ (displayCount(r) > 0 /\ visibleRows(r) > 0) =>
            /\ y <= r.selected /\ r.selected < y + visibleRows(r)
            /\ y = 0 \/ y + visibleRows(r) <= displayCount(r)
  <2>1. CASE visibleRows(r) = 0
    BY <2>1 DEF TopFor
  <2>2. CASE visibleRows(r) # 0
    <3>1. visibleRows(r) \in Nat \ {0}
      BY <1>3, <2>2
    <3>4. /\ y \in Nat
          /\ r.selected < displayCount(r) => y <= r.selected /\ r.selected < y + visibleRows(r)
          /\ y = 0 \/ y + visibleRows(r) <= displayCount(r)
      BY <1>3, <3>1, TopForFacts
    <3> HIDE DEF y
    <3> QED BY <1>2, <3>4 DEF Selects
  <2> QED BY <2>1, <2>2
<1> HIDE DEF y
<1>5. /\ t \in Raw /\ SameRest(r, t) /\ SameView(r, t) /\ t.selected = r.selected /\ t.top = y
      /\ t.detailOffset = r.detailOffset /\ t.diagOffset = r.diagOffset
  <2>1. /\ t \in Raw /\ SameRest(r, t) /\ t.selected = r.selected /\ t.top = y
        /\ t.detailOffset = r.detailOffset /\ t.diagOffset = r.diagOffset
    BY <1>2, <1>4, SetTop
  <2> QED BY <2>1 DEF SameRest, SameView
<1> HIDE DEF t
<1>6. displayCount(t) = displayCount(r) /\ visibleRows(t) = visibleRows(r)
  BY <1>5, ViewFacts
<1>7. Current(t) /\ Selects(t) /\ SameRest(s, t)
  BY <1>2, <1>5, <1>6 DEF Current, Selects, SameRest
<1>8. t.selected < Max({1, displayCount(t)})
  <2>1. Max({1, displayCount(t)}) = IF 1 >= displayCount(t) THEN 1 ELSE displayCount(t)
    BY <1>3, <1>6, MaxOfTwo
  <2> QED BY <1>2, <1>3, <1>5, <1>6, <2>1 DEF Selects
<1>9. OnScreen(t)
  BY <1>4, <1>5, <1>6, <1>8 DEF OnScreen
<1> QED BY <1>1, <1>2, <1>5, <1>6, <1>7, <1>9

LEMMA WithinFacts ==
  ASSUME NEW offset \in Int, NEW max \in Nat
  PROVE  /\ Within(offset, max) \in 0..max
         /\ offset \in 0..max => Within(offset, max) = offset
<1>1. Min({offset, max}) = IF offset <= max THEN offset ELSE max
  BY MinOfTwo
<1>2. Within(offset, max) = IF 0 >= Min({offset, max}) THEN 0 ELSE Min({offset, max})
  BY <1>1, MaxOfTwo DEF Within
<1> QED BY <1>1, <1>2

(* What an Update that ends in s makes of it.                               *)
LEMMA Clamp ==
  ASSUME NEW s \in Raw, Current(s)
  PROVE  LET t == Clamped(s)
         IN /\ t \in Raw /\ Current(t) /\ Selects(t) /\ SameRest(s, t) /\ OnScreen(t)
            /\ t.detailOffset \in 0..maxDetailOffset(t) /\ t.diagOffset \in Nat
            /\ displayCount(t) = displayCount(s)
            /\ s.selected < displayCount(s) => t.selected = s.selected
            /\ s.detailOffset \in 0..maxDetailOffset(t) => t.detailOffset = s.detailOffset
<1> DEFINE r == clampScroll(s)
           x == Within(r.detailOffset, maxDetailOffset(r))
           q == [r EXCEPT !.detailOffset = x]
           y == Within(q.diagOffset, maxDiagOffset(q))
           t == [q EXCEPT !.diagOffset = y]
<1>1. Clamped(s) = t
  BY DEF Clamped, clampDetailOffset, clampDiagOffset
<1>2. /\ r \in Raw /\ Current(r) /\ Selects(r) /\ SameRest(s, r) /\ OnScreen(r)
      /\ r.detailOffset = s.detailOffset
      /\ displayCount(r) = displayCount(s)
      /\ s.selected < displayCount(s) => r.selected = s.selected
  BY ClampScrollFacts
<1> HIDE DEF r
<1>3. /\ x \in 0..maxDetailOffset(r) /\ maxDetailOffset(r) \in Nat
      /\ r.detailOffset \in 0..maxDetailOffset(r) => x = r.detailOffset
  <2>1. maxDetailOffset(r) \in Nat /\ r.detailOffset \in Int
    BY <1>2, LinesFacts DEF Raw
  <2> QED BY <2>1, WithinFacts
<1> HIDE DEF x
<1>4. q \in Raw /\ SameRest(r, q) /\ q.selected = r.selected /\ q.top = r.top /\ q.detailOffset = x
  <2>1. x \in Int
    BY <1>3
  <2> QED BY <1>2, <2>1, SetDetailOffset
<1> HIDE DEF q
<1>5. y \in Nat
  <2>1. q.diagOffset \in Int /\ q.diagLines \in Int /\ q.height \in Int
    <3>1. q \in Raw
      BY <1>4
    <3>2. q.diagOffset \in Int /\ q.diagLines \in 0..MaxDiagLines /\ q.height \in Heights
      BY <3>1 DEF Raw
    <3>3. MaxDiagLines \in Nat /\ Heights \subseteq Nat
      BY ConstantsAssumption
    <3>4. q.height \in Int
      <4>1. q.height \in Nat
        BY <3>2, <3>3, Zenon
      <4> QED BY <4>1
    <3>5. q.diagLines \in Int
      BY <3>2, <3>3
    <3> QED BY <3>2, <3>4, <3>5
  <2> DEFINE lines == Max({0, q.height - 2})
  <2>2. lines \in Int
    BY <2>1, MaxOfTwo
  <2>6. maxDiagOffset(q) = Max({0, q.diagLines - lines})
    BY DEF maxDiagOffset, diagChromeLines
  <2> HIDE DEF lines
  <2>3. q.diagLines - lines \in Int
    BY <2>1, <2>2
  <2>4. maxDiagOffset(q) \in Nat
    BY <2>3, <2>6, MaxOfTwo
  <2>5. y \in 0..maxDiagOffset(q)
    BY <2>1, <2>4, WithinFacts
  <2> QED BY <2>4, <2>5
<1> HIDE DEF y
<1>6. /\ t \in Raw /\ SameRest(q, t) /\ t.selected = q.selected /\ t.top = q.top
      /\ t.detailOffset = q.detailOffset /\ t.diagOffset = y
  BY <1>4, <1>5, SetDiagOffset
<1> HIDE DEF t
<1>7. SameRest(r, t) /\ SameView(r, t)
  BY <1>4, <1>6 DEF SameRest, SameView
<1>8. /\ displayCount(t) = displayCount(r) /\ visibleRows(t) = visibleRows(r)
      /\ maxDetailOffset(t) = maxDetailOffset(r)
  BY <1>7, ViewFacts
<1>9. Current(t) /\ Selects(t) /\ SameRest(s, t) /\ OnScreen(t)
  BY <1>2, <1>4, <1>6, <1>7, <1>8 DEF Current, Selects, SameRest, OnScreen
<1> QED BY <1>1, <1>2, <1>3, <1>4, <1>5, <1>6, <1>8, <1>9

-----------------------------------------------------------------------------
(* Two of the properties hold of any model that is clamped.                 *)

(* A line is shown at the offset that brings it to the top of the panel, or *)
(* as far down as the panel goes.                                           *)
LEMMA LineShown ==
  ASSUME NEW s, NEW n \in Nat, NEW c \in Nat, NEW l \in 0..c - 1,
         n >= 3, n <= c, bodyLines(s) = n, detailLineCount(s) = c
  PROVE  \E offset \in 0..maxDetailOffset(s) : l \in LinesShown(s, offset)
<1>1. maxDetailOffset(s) = IF c <= n THEN 0 ELSE c - (n - 1)
  BY DEF maxDetailOffset
<1>2. ASSUME NEW offset \in Nat, NEW i \in 0..n - 3, l = offset + i
      PROVE  l \in LinesShown(s, offset)
  <2> DEFINE below == IF offset > 0 THEN n - 1 ELSE n
             avail == IF offset + below < c THEN below - 1 ELSE below
  <2>1. LinesShown(s, offset) = {offset + j : j \in 0..avail - 1} \cap 0..c - 1
    BY DEF LinesShown
  <2>2. i \in 0..avail - 1
    OBVIOUS
  <2> HIDE DEF avail
  <2> QED BY <1>2, <2>1, <2>2
<1>3. CASE c = n
  <2>1. LinesShown(s, 0) = {0 + j : j \in 0..n - 1} \cap 0..c - 1
    BY <1>3 DEF LinesShown
  <2>2. l \in LinesShown(s, 0)
    BY <1>3, <2>1
  <2> QED BY <1>1, <1>3, <2>2
<1>4. CASE c > n /\ l <= c - (n - 1)
  <2>1. l \in Nat /\ l \in 0..c - (n - 1) /\ 0 \in 0..n - 3 /\ l = l + 0
    BY <1>4
  <2>2. l \in LinesShown(s, l)
    BY <2>1, <1>2
  <2> QED BY <1>1, <1>4, <2>1, <2>2
<1>5. CASE c > n /\ l > c - (n - 1)
  <2> DEFINE last == c - (n - 1)
  <2>1. last \in Nat /\ last > 0 /\ ~(last + (n - 1) < c)
    BY <1>5
  <2>2. LinesShown(s, last) = {last + j : j \in 0..(n - 1) - 1} \cap 0..c - 1
    BY <2>1 DEF LinesShown
  <2>3. l - last \in 0..(n - 1) - 1 /\ l = last + (l - last)
    BY <1>5
  <2> HIDE DEF last
  <2>4. l \in LinesShown(s, last)
    BY <2>2, <2>3
  <2> QED BY <1>1, <1>5, <2>1, <2>4 DEF last
<1> QED BY <1>3, <1>4, <1>5

LEMMA LinesCanBeRead ==
  ASSUME m \in Raw, Current(m), Selects(m)
  PROVE  EveryLineCanBeRead
<1> SUFFICES ASSUME bodyLines(m) >= 3
             PROVE  UNION {LinesShown(m, offset) : offset \in 0..maxDetailOffset(m)}
                       = 0..detailLineCount(m) - 1
  BY DEF EveryLineCanBeRead
<1>1. /\ bodyLines(m) \in Nat /\ detailLineCount(m) \in Nat
      /\ bodyLines(m) <= detailLineCount(m)
  BY LinesFacts
<1>2. \A l \in 0..detailLineCount(m) - 1 :
         \E offset \in 0..maxDetailOffset(m) : l \in LinesShown(m, offset)
  BY <1>1, LineShown
<1>3. \A offset \in 0..maxDetailOffset(m) : LinesShown(m, offset) \subseteq 0..detailLineCount(m) - 1
  BY DEF LinesShown
<1> QED BY <1>2, <1>3, Zenon

LEMMA FilterShown ==
  ASSUME m \in Raw, Current(m)
  PROVE  FilterIsCurrent
<1> DEFINE shown == [i \in 1..displayCount(m) |-> RowIndex(m, i - 1)]
<1>1. m.rows \in Seq(RowType) /\ Len(m.rows) \in Nat
  BY FilterFacts
<1>2. ToSet(shown) = {RowIndex(m, i - 1) : i \in 1..displayCount(m)}
  BY DEF ToSet
<1>3. CASE m.filtered = Nil
  <2>1. m.term = 0
    BY <1>3, FilterFacts
  <2>2. displayCount(m) = Len(m.rows)
    BY <1>3 DEF displayCount
  <2>3. \A i \in 1..Len(m.rows) : RowIndex(m, i - 1) = i - 1
    BY <1>3 DEF RowIndex
  <2>4. ToSet(shown) = {i - 1 : i \in 1..Len(m.rows)}
    BY <1>2, <2>2, <2>3
  <2>5. \A x \in 0..Len(m.rows) - 1 : x + 1 \in 1..Len(m.rows) /\ x = (x + 1) - 1
    BY <1>1
  <2>6. ToSet(shown) = 0..Len(m.rows) - 1
    <3>1. \A x \in 0..Len(m.rows) - 1 : x \in ToSet(shown)
      BY <2>4, <2>5
    <3>2. \A x \in ToSet(shown) : x \in 0..Len(m.rows) - 1
      BY <1>1, <2>4
    <3> HIDE DEF shown
    <3> QED BY <3>1, <3>2, Zenon
  <2>7. \A i \in 0..Len(m.rows) - 1 : rowMatchesFilter(m.rows[i + 1], m.term)
    <3> SUFFICES ASSUME NEW i \in 0..Len(m.rows) - 1
                 PROVE  rowMatchesFilter(m.rows[i + 1], m.term)
      OBVIOUS
    <3>1. m.rows[i + 1] \in RowType
      BY <1>1
    <3> QED BY <2>1, <3>1 DEF rowMatchesFilter, RowType
  <2>8. \A i, j \in DOMAIN shown : i < j => shown[i] < shown[j]
    BY <1>1, <2>2, <2>3
  <2> QED BY <2>6, <2>7, <2>8 DEF FilterIsCurrent
<1>4. CASE m.filtered # Nil
  <2>1. Lists(m.filtered, m.rows, m.term, Len(m.rows))
    BY <1>4, FilterFacts
  <2>2. displayCount(m) = Len(m.filtered)
    BY <1>4 DEF displayCount
  <2>3. \A i \in 1..Len(m.filtered) : RowIndex(m, i - 1) = m.filtered[i]
    BY <1>4 DEF RowIndex
  <2>4. ToSet(shown) = {m.filtered[i] : i \in 1..Len(m.filtered)}
    BY <1>2, <2>2, <2>3
  <2>5. ASSUME NEW i \in 1..Len(m.filtered)
        PROVE  m.filtered[i] \in 0..Len(m.rows) - 1 /\ rowMatchesFilter(m.rows[m.filtered[i] + 1], m.term)
    <3>1. m.filtered \in Seq(Nat)
      BY <2>1 DEF Lists
    <3>2. m.filtered[i] < Len(m.rows) /\ rowMatchesFilter(m.rows[m.filtered[i] + 1], m.term)
      BY <2>1 DEF Lists
    <3> QED BY <1>1, <3>1, <3>2
  <2>6. ASSUME NEW x \in 0..Len(m.rows) - 1, rowMatchesFilter(m.rows[x + 1], m.term)
        PROVE  \E i \in 1..Len(m.filtered) : m.filtered[i] = x
    BY <2>1, <2>6 DEF Lists
  <2>7. ToSet(shown) = {i \in 0..Len(m.rows) - 1 : rowMatchesFilter(m.rows[i + 1], m.term)}
    BY <2>4, <2>5, <2>6
  <2>8. \A i, j \in DOMAIN shown : i < j => shown[i] < shown[j]
    BY <2>1, <2>2, <2>3 DEF Lists
  <2> QED BY <2>7, <2>8 DEF FilterIsCurrent
<1> QED BY <1>3, <1>4

-----------------------------------------------------------------------------
(* The inductive invariant.                                                 *)

(* BodiesWithinBudget, of any model.                                        *)
BodiesKept(s) ==
    /\ s.bodyBytes = BodySums(s.rows)[Len(s.rows)] /\ s.bodyBytes <= BodyBudget
    /\ \A i, j \in DOMAIN s.rows :
          i < j /\ s.rows[j].body = 0 /\ s.rows[j].lines > 0 => s.rows[i].body = 0

(* A model that an Update may hand to the clamps.                           *)
Ready(s) ==
    /\ s \in Raw /\ Current(s)
    /\ Len(s.rows) <= MaxRows /\ BodiesKept(s)
    /\ s.panelFocus => ~s.follow

(* A model that Update may return: the panel that has the focus does not    *)
(* follow new rows.                                                         *)
Good(s) ==
    /\ Ready(s) /\ Selects(s) /\ OnScreen(s)
    /\ s.detailOffset \in 0..maxDetailOffset(s) /\ s.diagOffset \in Nat

Inv == Good(m)

LEMMA ClampReady == ASSUME NEW s, Ready(s) PROVE Good(Clamped(s))
<1>1. s \in Raw /\ Current(s)
  BY DEF Ready
<1> DEFINE t == Clamped(s)
<1>2. /\ t \in Raw /\ Current(t) /\ Selects(t) /\ SameRest(s, t) /\ OnScreen(t)
      /\ t.detailOffset \in 0..maxDetailOffset(t) /\ t.diagOffset \in Nat
  BY <1>1, Clamp
<1> HIDE DEF t
<1>3. Ready(t)
  BY <1>2 DEF Ready, SameRest, BodiesKept
<1> QED BY <1>2, <1>3 DEF Good, t

LEMMA InitInv == Init => Inv
<1> SUFFICES ASSUME NEW height \in Heights, m = newModel(height)
             PROVE  Good(m)
  BY DEF Init, Inv
<1>1. /\ MaxRows \in Nat /\ MaxDiagLines \in Nat /\ BodyBudget \in Nat /\ MaxTerm \in Nat
      /\ Heights \subseteq Nat
  BY ConstantsAssumption
<1>2. m \in Raw
  BY <1>1 DEF newModel, Raw
<1>3. /\ m.rows = <<>> /\ m.bodyBytes = 0 /\ m.term = 0 /\ m.filtered = Nil /\ ~m.panelFocus
      /\ m.selected = 0 /\ m.detailOffset = 0 /\ m.diagOffset = 0
  BY DEF newModel
<1>4. Current(m) /\ Len(m.rows) = 0
  BY <1>3 DEF Current
<1>5. BodySums(<<>>)[0] = 0
  BY SumsFacts, <1>2, <1>3 DEF Raw
<1>6. BodiesKept(m)
  BY <1>1, <1>3, <1>4, <1>5 DEF BodiesKept
<1>7. Ready(m)
  BY <1>1, <1>2, <1>3, <1>4, <1>6 DEF Ready
<1>8. displayCount(m) = 0
  BY <1>3 DEF displayCount
<1>9. Selects(m) /\ OnScreen(m)
  <2>1. Max({1, 0}) = 1
    BY MaxOfTwo
  <2> QED BY <1>3, <1>8, <2>1 DEF Selects, OnScreen
<1>10. 0 \in 0..maxDetailOffset(m)
  <2>1. maxDetailOffset(m) \in Nat
    BY <1>2, <1>4, <1>9, LinesFacts
  <2> QED BY <2>1
<1> QED BY <1>3, <1>7, <1>9, <1>10 DEF Good

-----------------------------------------------------------------------------
(* The changes that leave the rows alone.                                   *)

LEMMA ReadyKept ==
  ASSUME Good(m), NEW s \in Raw, s.rows = m.rows, s.bodyBytes = m.bodyBytes,
         s.term = m.term, s.filtered = m.filtered, s.panelFocus => ~s.follow
  PROVE  Ready(s)
  BY DEF Good, Ready, Current, BodiesKept

LEMMA ReadyTerm ==
  ASSUME Good(m), NEW s \in Raw, s.rows = m.rows, s.bodyBytes = m.bodyBytes,
         s.panelFocus => ~s.follow, NEW n \in 0..MaxTerm
  PROVE  Ready(WithTerm(s, n))
<1> DEFINE q == IF n = 0 THEN Nil ELSE Matching(s.rows, n)[Len(s.rows)]
           r == [s EXCEPT !.term = n]
           t == [r EXCEPT !.filtered = q]
<1>1. s.rows \in Seq(RowType) /\ Len(s.rows) \in Nat
  BY DEF Raw
<1>2. q \in {Nil} \cup Seq(Nat)
  <2>1. Lists(Matching(s.rows, n)[Len(s.rows)], s.rows, n, Len(s.rows))
    BY <1>1, MatchingLists
  <2> QED BY <2>1 DEF Lists
<1>3. r \in Raw /\ r.rows = s.rows /\ r.term = n /\ r.bodyBytes = s.bodyBytes
  BY DEF Raw
<1>4. r.panelFocus = s.panelFocus /\ r.follow = s.follow
  BY DEF Raw
<1>5. WithTerm(s, n) = rebuildFilter(r)
  BY Zenon DEF WithTerm
<1> HIDE DEF r
<1>9. rebuildFilter(r) = t
  BY <1>3 DEF rebuildFilter
<1> HIDE DEF q
<1>6. /\ t \in Raw /\ t.rows = r.rows /\ t.term = r.term /\ t.bodyBytes = r.bodyBytes
      /\ t.filtered = q
  BY <1>2, <1>3 DEF Raw
<1>7. t.panelFocus = r.panelFocus /\ t.follow = r.follow
  BY <1>3 DEF Raw
<1> HIDE DEF t
<1>8. Current(t)
  BY <1>3, <1>6 DEF Current, q
<1> QED BY <1>3, <1>4, <1>5, <1>6, <1>7, <1>8, <1>9 DEF Good, Ready, BodiesKept

(* The largest offset of the diagnostics panel.                             *)
LEMMA DiagFacts == ASSUME NEW s \in Raw PROVE maxDiagOffset(s) \in Nat
<1> DEFINE lines == Max({0, s.height - diagChromeLines})
<1>1. s.height \in Heights /\ s.diagLines \in 0..MaxDiagLines
  BY DEF Raw
<1>2. s.height \in Nat /\ MaxDiagLines \in Nat
  BY <1>1, ConstantsAssumption, Zenon
<1>3. lines \in Int
  BY <1>2, MaxOfTwo DEF diagChromeLines
<1>4. maxDiagOffset(s) = Max({0, s.diagLines - lines})
  BY DEF maxDiagOffset
<1> HIDE DEF lines
<1>5. s.diagLines - lines \in Int
  BY <1>1, <1>2, <1>3
<1> QED BY <1>4, <1>5, MaxOfTwo

-----------------------------------------------------------------------------
(* The actions that leave the rows alone.                                   *)

LEMMA Becoming == ASSUME NEW s, Ready(s), Becomes(s) PROVE Inv'
<1>1. m' = Clamped(s)
  BY DEF Becomes, Clamped
<1>2. Good(Clamped(s))
  BY ClampReady
<1> QED BY <1>1, <1>2 DEF Inv

(* The fields that Ready looks at, besides the type.                        *)
Kept(s) ==
    /\ s.rows = m.rows /\ s.bodyBytes = m.bodyBytes
    /\ s.term = m.term /\ s.filtered = m.filtered

LEMMA BecomingKept ==
  ASSUME Inv, NEW s \in Raw, Kept(s), s.panelFocus => ~s.follow, Becomes(s)
  PROVE  Inv'
<1>1. Ready(s)
  BY ReadyKept DEF Inv, Kept
<1> QED BY <1>1, Becoming

LEMMA InvRaw ==
  ASSUME Inv
  PROVE  /\ m \in Raw /\ Current(m) /\ Selects(m) /\ (m.panelFocus => ~m.follow)
         /\ displayCount(m) \in Nat /\ maxDetailOffset(m) \in Nat /\ maxDiagOffset(m) \in Nat
<1>1. m \in Raw /\ Current(m) /\ Selects(m) /\ (m.panelFocus => ~m.follow)
  BY DEF Inv, Good, Ready
<1> QED BY <1>1, DisplayFacts, LinesFacts, DiagFacts

LEMMA RearmFacts ==
  ASSUME NEW s \in Raw
  PROVE  LET t == rearmFollowAtBottom(s)
         IN t \in Raw /\ t.panelFocus = s.panelFocus /\ (Kept(s) => Kept(t))
<1> DEFINE b == s.follow \/ AtBottom(s)
           t == [s EXCEPT !.follow = b]
<1>1. rearmFollowAtBottom(s) = t
  BY Zenon DEF rearmFollowAtBottom
<1>2. b \in BOOLEAN
  BY Zenon DEF Raw
<1> HIDE DEF b
<1>3. t \in Raw /\ t.panelFocus = s.panelFocus
  BY <1>2 DEF Raw
<1>4. Kept(s) => Kept(t)
  BY DEF Raw, Kept
<1> QED BY <1>1, <1>3, <1>4

LEMMA FilterApplyKeeps == ASSUME Inv, FilterApply PROVE Inv'
<1> DEFINE s == [m EXCEPT !.filterMode = FALSE]
<1>1. m \in Raw /\ (m.panelFocus => ~m.follow)
  BY InvRaw
<1>2. Becomes(s)
  BY DEF FilterApply
<1>3. s \in Raw
  BY <1>1, InvRaw DEF Raw
<1>4. Kept(s) /\ (s.panelFocus => ~s.follow)
  BY <1>1 DEF Raw, Kept
<1> HIDE DEF s
<1> QED BY <1>2, <1>3, <1>4, BecomingKept

LEMMA DiagCloseKeeps == ASSUME Inv, DiagClose PROVE Inv'
<1> DEFINE s == [m EXCEPT !.diagOpen = FALSE, !.diagOffset = 0]
<1>1. m \in Raw /\ (m.panelFocus => ~m.follow)
  BY InvRaw
<1>2. Becomes(s)
  BY DEF DiagClose
<1>3. s \in Raw
  <2>1. \A y \in Int : [m EXCEPT !.diagOpen = FALSE, !.diagOffset = y] \in Raw
    BY <1>1 DEF Raw
  <2>2. 0 \in Int
    OBVIOUS
  <2> QED BY <2>1, <2>2, Zenon
<1>4. Kept(s) /\ (s.panelFocus => ~s.follow)
  BY <1>1 DEF Raw, Kept
<1> HIDE DEF s
<1> QED BY <1>2, <1>3, <1>4, BecomingKept

LEMMA DiagUpKeeps == ASSUME Inv, DiagUp PROVE Inv'
<1> DEFINE s == [m EXCEPT !.diagOffset = @ - 1]
<1>1. m \in Raw /\ (m.panelFocus => ~m.follow)
  BY InvRaw
<1>2. Becomes(s)
  BY DEF DiagUp
<1>3. s \in Raw
  <2>1. m.diagOffset - 1 \in Int
    BY <1>1 DEF Raw
  <2>2. \A y \in Int : [m EXCEPT !.diagOffset = y] \in Raw
    BY <1>1 DEF Raw
  <2> QED BY <2>1, <2>2, Zenon
<1>4. Kept(s) /\ (s.panelFocus => ~s.follow)
  BY <1>1 DEF Raw, Kept
<1> HIDE DEF s
<1> QED BY <1>2, <1>3, <1>4, BecomingKept

LEMMA DiagDownKeeps == ASSUME Inv, DiagDown PROVE Inv'
<1> DEFINE s == [m EXCEPT !.diagOffset = @ + 1]
<1>1. m \in Raw /\ (m.panelFocus => ~m.follow)
  BY InvRaw
<1>2. Becomes(s)
  BY DEF DiagDown
<1>3. s \in Raw
  <2>1. m.diagOffset + 1 \in Int
    BY <1>1 DEF Raw
  <2>2. \A y \in Int : [m EXCEPT !.diagOffset = y] \in Raw
    BY <1>1 DEF Raw
  <2> QED BY <2>1, <2>2, Zenon
<1>4. Kept(s) /\ (s.panelFocus => ~s.follow)
  BY <1>1 DEF Raw, Kept
<1> HIDE DEF s
<1> QED BY <1>2, <1>3, <1>4, BecomingKept

LEMMA DiagTopKeeps == ASSUME Inv, DiagTop PROVE Inv'
<1> DEFINE s == [m EXCEPT !.diagOffset = 0]
<1>1. m \in Raw /\ (m.panelFocus => ~m.follow)
  BY InvRaw
<1>2. Becomes(s)
  BY DEF DiagTop
<1>3. s \in Raw
  <2>1. 0 \in Int
    OBVIOUS
  <2>2. \A y \in Int : [m EXCEPT !.diagOffset = y] \in Raw
    BY <1>1 DEF Raw
  <2> QED BY <2>1, <2>2, Zenon
<1>4. Kept(s) /\ (s.panelFocus => ~s.follow)
  BY <1>1 DEF Raw, Kept
<1> HIDE DEF s
<1> QED BY <1>2, <1>3, <1>4, BecomingKept

LEMMA DiagBottomKeeps == ASSUME Inv, DiagBottom PROVE Inv'
<1> DEFINE s == [m EXCEPT !.diagOffset = maxDiagOffset(m)]
<1>1. m \in Raw /\ (m.panelFocus => ~m.follow)
  BY InvRaw
<1>2. Becomes(s)
  BY DEF DiagBottom
<1>3. s \in Raw
  <2>1. maxDiagOffset(m) \in Int
    BY InvRaw
  <2>2. \A y \in Int : [m EXCEPT !.diagOffset = y] \in Raw
    BY <1>1 DEF Raw
  <2> QED BY <2>1, <2>2, Zenon
<1>4. Kept(s) /\ (s.panelFocus => ~s.follow)
  BY <1>1 DEF Raw, Kept
<1> HIDE DEF s
<1> QED BY <1>2, <1>3, <1>4, BecomingKept

LEMMA PanelUpKeeps == ASSUME Inv, PanelUp PROVE Inv'
<1> DEFINE s == [m EXCEPT !.detailOffset = @ - 1]
<1>1. m \in Raw /\ (m.panelFocus => ~m.follow)
  BY InvRaw
<1>2. Becomes(s)
  BY DEF PanelUp
<1>3. s \in Raw
  <2>1. m.detailOffset - 1 \in Int
    BY <1>1 DEF Raw
  <2>2. \A y \in Int : [m EXCEPT !.detailOffset = y] \in Raw
    BY <1>1 DEF Raw
  <2> QED BY <2>1, <2>2, Zenon
<1>4. Kept(s) /\ (s.panelFocus => ~s.follow)
  BY <1>1 DEF Raw, Kept
<1> HIDE DEF s
<1> QED BY <1>2, <1>3, <1>4, BecomingKept

LEMMA PanelDownKeeps == ASSUME Inv, PanelDown PROVE Inv'
<1> DEFINE s == [m EXCEPT !.detailOffset = @ + 1]
<1>1. m \in Raw /\ (m.panelFocus => ~m.follow)
  BY InvRaw
<1>2. Becomes(s)
  BY DEF PanelDown
<1>3. s \in Raw
  <2>1. m.detailOffset + 1 \in Int
    BY <1>1 DEF Raw
  <2>2. \A y \in Int : [m EXCEPT !.detailOffset = y] \in Raw
    BY <1>1 DEF Raw
  <2> QED BY <2>1, <2>2, Zenon
<1>4. Kept(s) /\ (s.panelFocus => ~s.follow)
  BY <1>1 DEF Raw, Kept
<1> HIDE DEF s
<1> QED BY <1>2, <1>3, <1>4, BecomingKept

LEMMA PanelTopKeeps == ASSUME Inv, PanelTop PROVE Inv'
<1> DEFINE s == [m EXCEPT !.detailOffset = 0]
<1>1. m \in Raw /\ (m.panelFocus => ~m.follow)
  BY InvRaw
<1>2. Becomes(s)
  BY DEF PanelTop
<1>3. s \in Raw
  <2>1. 0 \in Int
    OBVIOUS
  <2>2. \A y \in Int : [m EXCEPT !.detailOffset = y] \in Raw
    BY <1>1 DEF Raw
  <2> QED BY <2>1, <2>2, Zenon
<1>4. Kept(s) /\ (s.panelFocus => ~s.follow)
  BY <1>1 DEF Raw, Kept
<1> HIDE DEF s
<1> QED BY <1>2, <1>3, <1>4, BecomingKept

LEMMA PanelBottomKeeps == ASSUME Inv, PanelBottom PROVE Inv'
<1> DEFINE s == [m EXCEPT !.detailOffset = maxDetailOffset(m)]
<1>1. m \in Raw /\ (m.panelFocus => ~m.follow)
  BY InvRaw
<1>2. Becomes(s)
  BY DEF PanelBottom
<1>3. s \in Raw
  <2>1. maxDetailOffset(m) \in Int
    BY InvRaw
  <2>2. \A y \in Int : [m EXCEPT !.detailOffset = y] \in Raw
    BY <1>1 DEF Raw
  <2> QED BY <2>1, <2>2, Zenon
<1>4. Kept(s) /\ (s.panelFocus => ~s.follow)
  BY <1>1 DEF Raw, Kept
<1> HIDE DEF s
<1> QED BY <1>2, <1>3, <1>4, BecomingKept

LEMMA EscFromDetailKeeps == ASSUME Inv, EscFromDetail PROVE Inv'
<1> DEFINE s == [m EXCEPT !.detailOpen = FALSE, !.detailOffset = 0]
<1>1. m \in Raw /\ (m.panelFocus => ~m.follow)
  BY InvRaw
<1>2. Becomes(s)
  BY DEF EscFromDetail
<1>3. s \in Raw
  <2>1. \A y \in Int : [m EXCEPT !.detailOpen = FALSE, !.detailOffset = y] \in Raw
    BY <1>1 DEF Raw
  <2>2. 0 \in Int
    OBVIOUS
  <2> QED BY <2>1, <2>2, Zenon
<1>4. Kept(s) /\ (s.panelFocus => ~s.follow)
  BY <1>1 DEF Raw, Kept
<1> HIDE DEF s
<1> QED BY <1>2, <1>3, <1>4, BecomingKept

LEMMA TopKeeps == ASSUME Inv, Top PROVE Inv'
<1> DEFINE s == [m EXCEPT !.selected = 0, !.follow = FALSE, !.detailOffset = 0]
<1>1. m \in Raw /\ (m.panelFocus => ~m.follow)
  BY InvRaw
<1>2. Becomes(s)
  BY DEF Top
<1>3. s \in Raw
  <2>1. \A x \in Nat, y \in Int : [m EXCEPT !.selected = x, !.follow = FALSE, !.detailOffset = y] \in Raw
    BY <1>1 DEF Raw
  <2>2. 0 \in Nat /\ 0 \in Int
    OBVIOUS
  <2> QED BY <2>1, <2>2, Zenon
<1>4. Kept(s) /\ (s.panelFocus => ~s.follow)
  BY <1>1 DEF Raw, Kept
<1> HIDE DEF s
<1> QED BY <1>2, <1>3, <1>4, BecomingKept

LEMMA HexModeKeeps == ASSUME Inv, HexMode PROVE Inv'
<1> DEFINE s == [m EXCEPT !.hexMode = ~@]
<1>1. m \in Raw /\ (m.panelFocus => ~m.follow)
  BY InvRaw
<1>2. Becomes(s)
  BY DEF HexMode
<1>3. s \in Raw
  BY <1>1, InvRaw DEF Raw
<1>4. Kept(s) /\ (s.panelFocus => ~s.follow)
  BY <1>1 DEF Raw, Kept
<1> HIDE DEF s
<1> QED BY <1>2, <1>3, <1>4, BecomingKept

LEMMA StartFilterKeeps == ASSUME Inv, StartFilter PROVE Inv'
<1> DEFINE s == [m EXCEPT !.filterMode = TRUE]
<1>1. m \in Raw /\ (m.panelFocus => ~m.follow)
  BY InvRaw
<1>2. Becomes(s)
  BY DEF StartFilter
<1>3. s \in Raw
  BY <1>1, InvRaw DEF Raw
<1>4. Kept(s) /\ (s.panelFocus => ~s.follow)
  BY <1>1 DEF Raw, Kept
<1> HIDE DEF s
<1> QED BY <1>2, <1>3, <1>4, BecomingKept

LEMMA FilterClearKeeps == ASSUME Inv, FilterClear PROVE Inv'
<1> DEFINE s == [m EXCEPT !.filterMode = FALSE]
<1>1. m \in Raw /\ (m.panelFocus => ~m.follow)
  BY InvRaw
<1>2. Becomes(WithTerm(s, 0))
  BY DEF FilterClear
<1>3. s \in Raw
  BY <1>1 DEF Raw
<1>4. Kept(s) /\ (s.panelFocus => ~s.follow)
  BY <1>1 DEF Raw, Kept
<1>5. 0 \in 0..MaxTerm
  BY ConstantsAssumption
<1> HIDE DEF s
<1>6. Ready(WithTerm(s, 0))
  BY <1>3, <1>4, <1>5, ReadyTerm DEF Inv, Kept
<1> QED BY <1>2, <1>6, Becoming

LEMMA WithTermKeeps ==
  ASSUME Inv, NEW n \in 0..MaxTerm, Becomes(WithTerm(m, n))
  PROVE  Inv'
<1>1. Ready(WithTerm(m, n))
  BY InvRaw, ReadyTerm DEF Inv
<1> QED BY <1>1, Becoming

LEMMA FilterKeeps ==
  ASSUME Inv, FilterBackspace \/ FilterType \/ EscFromFilter
  PROVE  Inv'
<1>1. m.term \in 0..MaxTerm /\ MaxTerm \in Nat
  BY InvRaw, ConstantsAssumption DEF Raw
<1>2. CASE FilterBackspace
  <2>1. m.term - 1 \in 0..MaxTerm
    BY <1>1, <1>2 DEF FilterBackspace
  <2> QED BY <1>2, <2>1, WithTermKeeps DEF FilterBackspace
<1>3. CASE FilterType
  <2>1. m.term + 1 \in 0..MaxTerm
    BY <1>1, <1>3 DEF FilterType
  <2> QED BY <1>3, <2>1, WithTermKeeps DEF FilterType
<1>4. CASE EscFromFilter
  <2>1. 0 \in 0..MaxTerm
    BY <1>1
  <2> QED BY <1>4, <2>1, WithTermKeeps DEF EscFromFilter
<1> QED BY <1>2, <1>3, <1>4

(* The detail panel is closed: by Enter, and when the diagnostics open.     *)
LEMMA DetailClosedFacts ==
  ASSUME NEW s \in Raw
  PROVE  LET t == DetailClosed(s)
         IN t \in Raw /\ ~t.panelFocus /\ (Kept(s) => Kept(t)) /\ t.diagLines = s.diagLines
<1> DEFINE t == DetailClosed(s)
<1>1. t \in Raw
  <2>1. \A y \in Int :
           [s EXCEPT !.detailOpen = FALSE, !.panelFocus = FALSE, !.detailOffset = y] \in Raw
    BY DEF Raw
  <2>2. 0 \in Int
    OBVIOUS
  <2> QED BY <2>1, <2>2, Zenon DEF DetailClosed
<1>2. ~t.panelFocus /\ t.diagLines = s.diagLines
  BY DEF DetailClosed, Raw
<1>3. Kept(s) => Kept(t)
  BY DEF DetailClosed, Raw, Kept
<1> QED BY <1>1, <1>2, <1>3

LEMMA OpenDiagKeeps == ASSUME Inv, OpenDiag PROVE Inv'
<1>0. PICK s : /\ s = IF m.detailOpen THEN DetailClosed(m) ELSE m
               /\ Becomes([s EXCEPT !.diagOpen = TRUE, !.diagOffset = maxDiagOffset(s)])
  BY DEF OpenDiag
<1> DEFINE t == [s EXCEPT !.diagOpen = TRUE, !.diagOffset = maxDiagOffset(s)]
<1>1. m \in Raw /\ (m.panelFocus => ~m.follow)
  BY InvRaw
<1>2. Becomes(t)
  BY <1>0
<1>3. s \in Raw /\ Kept(s) /\ (s.panelFocus => ~s.follow)
  <2>1. Kept(m)
    BY DEF Kept
  <2> QED BY <1>0, <1>1, <2>1, DetailClosedFacts
<1>4. t \in Raw
  <2>1. \A y \in Int : [s EXCEPT !.diagOpen = TRUE, !.diagOffset = y] \in Raw
    BY <1>3 DEF Raw
  <2>2. maxDiagOffset(s) \in Int
    BY <1>3, DiagFacts
  <2> QED BY <2>1, <2>2, Zenon
<1>5. Kept(t) /\ (t.panelFocus => ~t.follow)
  BY <1>3 DEF Raw, Kept
<1> HIDE DEF t
<1> QED BY <1>2, <1>4, <1>5, BecomingKept

LEMMA EnterKeeps == ASSUME Inv, Enter PROVE Inv'
<1>1. m \in Raw /\ (m.panelFocus => ~m.follow) /\ Kept(m)
  BY InvRaw DEF Kept
<1>2. CASE m.detailOpen
  <2>1. Becomes(DetailClosed(m))
    BY <1>2 DEF Enter
  <2> QED BY <1>1, <2>1, DetailClosedFacts, BecomingKept
<1>3. CASE ~m.detailOpen
  <2> DEFINE s == [m EXCEPT !.detailOpen = TRUE]
  <2>1. Becomes(s)
    BY <1>3 DEF Enter
  <2>2. s \in Raw
    BY <1>1 DEF Raw
  <2>3. Kept(s) /\ (s.panelFocus => ~s.follow)
    BY <1>1 DEF Raw, Kept
  <2> HIDE DEF s
  <2> QED BY <2>1, <2>2, <2>3, BecomingKept
<1> QED BY <1>2, <1>3

(* The focus goes back to the table, by Tab or Esc.                         *)
LEMMA Unfocus ==
  ASSUME Inv, Becomes(rearmFollowAtBottom([m EXCEPT !.panelFocus = FALSE]))
  PROVE  Inv'
<1> DEFINE s == [m EXCEPT !.panelFocus = FALSE]
<1>1. m \in Raw
  BY InvRaw
<1>2. s \in Raw
  BY <1>1 DEF Raw
<1>3. Kept(s) /\ ~s.panelFocus
  BY <1>1 DEF Raw, Kept
<1> HIDE DEF s
<1>4. LET t == rearmFollowAtBottom(s) IN t \in Raw /\ ~t.panelFocus /\ Kept(t)
  BY <1>2, <1>3, RearmFacts
<1> QED BY <1>4, BecomingKept DEF s

LEMMA TabKeeps == ASSUME Inv, Tab PROVE Inv'
<1>1. m \in Raw
  BY InvRaw
<1>2. CASE m.panelFocus
  BY <1>2, Unfocus DEF Tab
<1>3. CASE ~m.panelFocus
  <2> DEFINE s == [m EXCEPT !.panelFocus = TRUE, !.follow = FALSE]
  <2>1. Becomes(s)
    BY <1>3 DEF Tab
  <2>2. s \in Raw
    BY <1>1 DEF Raw
  <2>3. Kept(s) /\ ~s.follow
    BY <1>1 DEF Raw, Kept
  <2> HIDE DEF s
  <2> QED BY <2>1, <2>2, <2>3, BecomingKept
<1> QED BY <1>2, <1>3

LEMMA EscFromPanelKeeps == ASSUME Inv, EscFromPanel PROVE Inv'
  BY Unfocus DEF EscFromPanel

LEMMA UpKeeps == ASSUME Inv, Up PROVE Inv'
<1> DEFINE x == Max({0, m.selected - 1})
           s == [m EXCEPT !.selected = x, !.follow = FALSE, !.detailOffset = 0]
<1>1. m \in Raw /\ x \in Nat
  <2>1. m \in Raw
    BY InvRaw
  <2>2. m.selected - 1 \in Int
    BY <2>1 DEF Raw
  <2> QED BY <2>1, <2>2, MaxOfTwo
<1>2. Becomes(s)
  BY Zenon DEF Up
<1> HIDE DEF x
<1>3. s \in Raw
  <2>1. \A y \in Int : [m EXCEPT !.selected = x, !.follow = FALSE, !.detailOffset = y] \in Raw
    BY <1>1 DEF Raw
  <2>2. 0 \in Int
    OBVIOUS
  <2> QED BY <2>1, <2>2, Zenon
<1>4. Kept(s) /\ ~s.follow
  BY <1>1 DEF Raw, Kept
<1> HIDE DEF s
<1> QED BY <1>2, <1>3, <1>4, BecomingKept

LEMMA DownKeeps == ASSUME Inv, Down PROVE Inv'
<1> DEFINE x == IF m.selected < displayCount(m) - 1 THEN m.selected + 1 ELSE m.selected
           r == [m EXCEPT !.selected = x]
           b == r.follow \/ r.selected = displayCount(r) - 1
           s == [r EXCEPT !.follow = b, !.detailOffset = 0]
<1>1. m \in Raw /\ ~m.panelFocus
  BY InvRaw DEF Down, OnRows
<1>2. x \in Nat
  BY <1>1 DEF Raw
<1>3. Becomes(s)
  <2>1. \E q : /\ q = [m EXCEPT !.selected = IF @ < displayCount(m) - 1 THEN @ + 1 ELSE @]
               /\ Becomes([q EXCEPT !.follow = @ \/ q.selected = displayCount(q) - 1,
                                    !.detailOffset = 0])
    BY Zenon DEF Down
  <2> QED BY <2>1, Zenon
<1> HIDE DEF x
<1>4. r \in Raw /\ Kept(r) /\ ~r.panelFocus
  <2>1. r \in Raw
    BY <1>1, <1>2 DEF Raw
  <2> QED BY <1>1, <2>1 DEF Raw, Kept
<1> HIDE DEF r
<1>5. b \in BOOLEAN
  BY <1>4, Zenon DEF Raw
<1> HIDE DEF b
<1>6. s \in Raw
  <2>1. \A y \in Int : [r EXCEPT !.follow = b, !.detailOffset = y] \in Raw
    BY <1>4, <1>5 DEF Raw
  <2>2. 0 \in Int
    OBVIOUS
  <2> QED BY <2>1, <2>2, Zenon
<1>7. Kept(s) /\ ~s.panelFocus
  BY <1>4 DEF Raw, Kept
<1> HIDE DEF s
<1> QED BY <1>3, <1>6, <1>7, BecomingKept

LEMMA BottomKeeps == ASSUME Inv, Bottom PROVE Inv'
<1> DEFINE x == IF displayCount(m) > 0 THEN displayCount(m) - 1 ELSE m.selected
           s == [m EXCEPT !.selected = x, !.follow = TRUE, !.detailOffset = 0]
<1>1. m \in Raw /\ ~m.panelFocus
  BY InvRaw DEF Bottom, OnRows
<1>2. x \in Nat
  <2>1. displayCount(m) \in Nat /\ m.selected \in Nat
    BY <1>1, InvRaw DEF Raw
  <2> QED BY <2>1
<1>3. Becomes(s)
  BY Zenon DEF Bottom
<1> HIDE DEF x
<1>4. s \in Raw
  <2>1. \A y \in Int : [m EXCEPT !.selected = x, !.follow = TRUE, !.detailOffset = y] \in Raw
    BY <1>1, <1>2 DEF Raw
  <2>2. 0 \in Int
    OBVIOUS
  <2> QED BY <2>1, <2>2, Zenon
<1>5. Kept(s) /\ ~s.panelFocus
  BY <1>1 DEF Raw, Kept
<1> HIDE DEF s
<1> QED BY <1>3, <1>4, <1>5, BecomingKept

LEMMA ResizeKeeps == ASSUME Inv, NEW height \in Heights, Resize(height) PROVE Inv'
<1> DEFINE s == [m EXCEPT !.height = height]
<1>1. m \in Raw /\ (m.panelFocus => ~m.follow)
  BY InvRaw
<1>2. Becomes(s)
  BY DEF Resize
<1>3. s \in Raw
  BY <1>1 DEF Raw
<1>4. Kept(s) /\ (s.panelFocus => ~s.follow)
  BY <1>1 DEF Raw, Kept
<1> HIDE DEF s
<1> QED BY <1>2, <1>3, <1>4, BecomingKept

LEMMA DiagMsgKeeps == ASSUME Inv, DiagMsg PROVE Inv'
<1> DEFINE x == Min({m.diagLines + 1, MaxDiagLines})
           s == [m EXCEPT !.diagLines = x]
<1>1. m \in Raw /\ (m.panelFocus => ~m.follow)
  BY InvRaw
<1>2. x \in 0..MaxDiagLines
  <2>1. m.diagLines \in Nat /\ MaxDiagLines \in Nat
    BY <1>1, ConstantsAssumption DEF Raw
  <2> QED BY <2>1, MinOfTwo
<1>3. Becomes(IF s.diagOpen THEN [s EXCEPT !.diagOffset = maxDiagOffset(s)] ELSE s)
  BY Zenon DEF DiagMsg
<1> HIDE DEF x
<1>4. s \in Raw
  BY <1>1, <1>2 DEF Raw
<1>5. Kept(s) /\ (s.panelFocus => ~s.follow)
  BY <1>1 DEF Raw, Kept
<1> HIDE DEF s
<1>6. CASE ~s.diagOpen
  BY <1>3, <1>4, <1>5, <1>6, BecomingKept
<1>7. CASE s.diagOpen
  <2> DEFINE t == [s EXCEPT !.diagOffset = maxDiagOffset(s)]
  <2>1. maxDiagOffset(s) \in Int
    BY <1>4, DiagFacts
  <2>2. t \in Raw
    BY <1>4, <2>1 DEF Raw
  <2>3. Kept(t) /\ (t.panelFocus => ~t.follow)
    BY <1>4, <1>5 DEF Raw, Kept
  <2>4. Becomes(t)
    BY <1>3, <1>7
  <2> HIDE DEF t
  <2> QED BY <2>2, <2>3, <2>4, BecomingKept
<1> QED BY <1>6, <1>7

-----------------------------------------------------------------------------
(* A row that arrives.                                                      *)

(* The bodies that go: as many of the oldest as it takes.                   *)
LEMMA EvictFacts ==
  ASSUME NEW s \in Raw, s.bodyBytes = BodySums(s.rows)[Len(s.rows)],
         \A i, j \in DOMAIN s.rows :
            i < j /\ s.rows[j].body = 0 /\ s.rows[j].lines > 0 => s.rows[i].body = 0
  PROVE  LET t == evictBodiesOverBudget(s)
         IN /\ t \in Raw /\ BodiesKept(t)
            /\ \E k \in 0..Len(s.rows) : t.rows = Dropped(s.rows, k)
            /\ SameRest(t, [s EXCEPT !.rows = t.rows, !.bodyBytes = t.bodyBytes])
            /\ t.selected = s.selected /\ t.top = s.top
            /\ t.detailOffset = s.detailOffset /\ t.diagOffset = s.diagOffset
<1> DEFINE n == Len(s.rows)
           After(j) == s.bodyBytes - BodySums(s.rows)[j]
           K == {j \in 0..n : After(j) <= BodyBudget} \cup {n}
           k == Min(K)
           rows == [i \in 1..n |-> IF i <= k THEN [s.rows[i] EXCEPT !.body = 0] ELSE s.rows[i]]
           x == After(k)
           t == [s EXCEPT !.rows = rows, !.bodyBytes = x]
<1>1. evictBodiesOverBudget(s) = t
  BY Zenon DEF evictBodiesOverBudget
<1>2. s.rows \in Seq(RowType) /\ n \in Nat /\ BodyBudget \in Nat
  BY ConstantsAssumption DEF Raw
<1>3. After(n) = 0
  <2>1. BodySums(s.rows)[n] \in Nat
    BY <1>2, SumNat
  <2> QED BY <2>1
<1>4. k \in K /\ \A j \in K : k <= j
  <2>1. K \in SUBSET Nat /\ K # {}
    BY <1>2
  <2> HIDE DEF K
  <2>2. \E j \in K : \A i \in K : j <= i
    BY <2>1, Least
  <2> QED BY <2>2 DEF Min
<1>5. k \in 0..n /\ x <= BodyBudget
  <2> HIDE DEF k
  <2>1. CASE k = n
    BY <1>2, <1>3, <2>1
  <2>2. CASE k # n
    BY <1>4, <2>2
  <2> QED BY <2>1, <2>2
<1> HIDE DEF k, K
<1>6. rows = Dropped(s.rows, k)
  BY DEF Dropped
<1> HIDE DEF rows
<1>7. rows \in Seq(RowType) /\ Len(rows) = n
  BY <1>2, <1>5, <1>6, DroppedType
<1>8. BodySums(rows)[Len(rows)] = x
  BY <1>2, <1>5, <1>6, <1>7, SumsOfDropped
<1>9. x \in Nat
  BY <1>7, <1>8, SumNat
<1> HIDE DEF x
<1>10. t \in Raw
  BY <1>7, <1>9 DEF Raw
<1>11. t.rows = rows /\ t.bodyBytes = x
  BY DEF Raw
<1>12. \A i, j \in DOMAIN rows :
          i < j /\ rows[j].body = 0 /\ rows[j].lines > 0 => rows[i].body = 0
  <2> SUFFICES ASSUME NEW i \in 1..n, NEW j \in 1..n,
                      i < j, rows[j].body = 0, rows[j].lines > 0
               PROVE  rows[i].body = 0
    BY <1>2, <1>7
  <2>1. /\ rows[i].body = IF i <= k THEN 0 ELSE s.rows[i].body
        /\ rows[j].body = IF j <= k THEN 0 ELSE s.rows[j].body
        /\ rows[j].lines = s.rows[j].lines
    BY <1>2, <1>5, <1>6, DroppedType
  <2>2. CASE i <= k
    BY <2>1, <2>2
  <2>3. CASE ~(i <= k)
    <3>1. ~(j <= k)
      BY <1>5, <2>3
    <3>2. s.rows[i].body = 0
      BY <1>2, <2>1, <3>1
    <3> QED BY <2>1, <3>2
  <2> QED BY <2>2, <2>3
<1>13. BodiesKept(t)
  BY <1>5, <1>8, <1>11, <1>12 DEF BodiesKept, x
<1>14. /\ SameRest(t, [s EXCEPT !.rows = t.rows, !.bodyBytes = t.bodyBytes])
       /\ t.selected = s.selected /\ t.top = s.top
       /\ t.detailOffset = s.detailOffset /\ t.diagOffset = s.diagOffset
  BY <1>11 DEF SameRest, Raw
<1> QED BY <1>1, <1>5, <1>6, <1>10, <1>11, <1>13, <1>14

InOrder(rows) ==
    \A i, j \in DOMAIN rows : i < j /\ rows[j].body = 0 /\ rows[j].lines > 0 => rows[i].body = 0

LEMMA InOrderAppend ==
  ASSUME NEW rows \in Seq(RowType), InOrder(rows), NEW r \in Row
  PROVE  InOrder(Append(rows, r)) /\ Append(rows, r) \in Seq(RowType)
<1>1. r \in RowType /\ (r.body = 0 => r.lines = 0)
  BY ConstantsAssumption DEF RowType
<1> DEFINE more == Append(rows, r)
<1>2. /\ more \in Seq(RowType) /\ Len(more) = Len(rows) + 1 /\ Len(rows) \in Nat
      /\ \A i \in 1..Len(rows) : more[i] = rows[i]
      /\ more[Len(rows) + 1] = r
  BY <1>1
<1> HIDE DEF more
<1>3. ASSUME NEW i \in 1..Len(more), NEW j \in 1..Len(more),
             i < j, more[j].body = 0, more[j].lines > 0
      PROVE  more[i].body = 0
  <2>1. j # Len(rows) + 1
    <3> SUFFICES ASSUME j = Len(rows) + 1 PROVE FALSE
      OBVIOUS
    <3>1. r.body = 0 /\ r.lines > 0
      BY <1>2, <1>3
    <3> QED BY <1>1, <3>1
  <2>2. i \in 1..Len(rows) /\ j \in 1..Len(rows)
    BY <1>2, <1>3, <2>1
  <2>3. more[i] = rows[i] /\ more[j] = rows[j]
    BY <1>2, <2>2
  <2>4. i \in DOMAIN rows /\ j \in DOMAIN rows
    BY <2>2
  <2> QED BY <1>3, <2>3, <2>4 DEF InOrder
<1>4. DOMAIN more = 1..Len(more)
  BY <1>2
<1>5. InOrder(more)
  BY <1>3, <1>4 DEF InOrder
<1> QED BY <1>2, <1>5 DEF more

LEMMA InOrderTail ==
  ASSUME NEW rows \in Seq(RowType), InOrder(rows), rows # <<>>
  PROVE  InOrder(Tail(rows)) /\ Tail(rows) \in Seq(RowType)
<1> DEFINE less == Tail(rows)
<1>1. /\ less \in Seq(RowType) /\ Len(less) = Len(rows) - 1 /\ Len(rows) \in Nat
      /\ \A i \in 1..Len(less) : less[i] = rows[i + 1]
  OBVIOUS
<1> HIDE DEF less
<1>2. ASSUME NEW i \in DOMAIN less, NEW j \in DOMAIN less,
             i < j, less[j].body = 0, less[j].lines > 0
      PROVE  less[i].body = 0
  <2>1. i \in 1..Len(less) /\ j \in 1..Len(less)
    BY <1>1
  <2>2. i + 1 \in DOMAIN rows /\ j + 1 \in DOMAIN rows /\ i + 1 < j + 1
    BY <1>1, <1>2, <2>1
  <2>3. less[i] = rows[i + 1] /\ less[j] = rows[j + 1]
    BY <1>1, <2>1
  <2> QED BY <1>2, <2>2, <2>3 DEF InOrder
<1> QED BY <1>1, <1>2 DEF InOrder, less

(* The rows when r has been added, and the one it took the place of.        *)
NewRows(s, r) == IF Full(s) THEN Append(Tail(s.rows), r) ELSE Append(s.rows, r)

NewSelected(s) ==
    IF Full(s) /\ ~s.follow /\ s.selected > 0 /\ DroppedVisible(s) THEN s.selected - 1
    ELSE s.selected

LEMMA NewRowsFacts ==
  ASSUME NEW s, Good(s), NEW r \in Row
  PROVE  /\ NewRows(s, r) \in Seq(RowType) /\ InOrder(NewRows(s, r))
         /\ Len(NewRows(s, r)) \in 1..MaxRows
         /\ Full(s) => s.rows # <<>> /\ s.rows[1].body \in Nat
         /\ BodySums(NewRows(s, r))[Len(NewRows(s, r))] =
               (IF Full(s) THEN s.bodyBytes - s.rows[1].body ELSE s.bodyBytes) + r.body
         /\ Full(s) => s.bodyBytes - s.rows[1].body \in Nat
<1>1. /\ s.rows \in Seq(RowType) /\ InOrder(s.rows) /\ Len(s.rows) \in 0..MaxRows
      /\ s.bodyBytes = BodySums(s.rows)[Len(s.rows)]
  <2>1. Ready(s) /\ s \in Raw
    BY DEF Good, Ready
  <2>2. s.rows \in Seq(RowType)
    BY <2>1 DEF Raw
  <2> QED BY <2>1, <2>2 DEF Ready, BodiesKept, InOrder
<1>2. r \in RowType /\ MaxRows \in Nat \ {0}
  BY ConstantsAssumption DEF RowType
<1>3. CASE Full(s)
  <2>1. Len(s.rows) = MaxRows /\ s.rows # <<>>
    BY <1>2, <1>3 DEF Full
  <2> DEFINE less == Tail(s.rows)
  <2>2. InOrder(less) /\ less \in Seq(RowType) /\ Len(less) = Len(s.rows) - 1
    BY <1>1, <2>1, InOrderTail
  <2>3. BodySums(less)[Len(less)] = s.bodyBytes - s.rows[1].body
    BY <1>1, <2>1, <2>2, SumsOfTail
  <2>4. BodySums(less)[Len(less)] \in Nat
    <3> HIDE DEF less
    <3>1. Len(less) \in 0..Len(less)
      BY <2>2
    <3> QED BY <2>2, <3>1, SumNat
  <2>5. s.rows[1].body \in Nat
    BY <1>1, <2>1, BodyNat
  <2> HIDE DEF less
  <2>6. NewRows(s, r) = Append(less, r)
    BY <1>3 DEF NewRows, less
  <2>7. Len(Append(less, r)) = Len(less) + 1
    BY <2>2
  <2>8. BodySums(Append(less, r))[Len(less) + 1] = BodySums(less)[Len(less)] + r.body
    BY <1>2, <2>2, SumsOfAppend
  <2>9. InOrder(Append(less, r)) /\ Append(less, r) \in Seq(RowType)
    BY <2>2, InOrderAppend
  <2>10. Len(NewRows(s, r)) \in 1..MaxRows
    BY <1>1, <1>2, <2>1, <2>2, <2>6, <2>7
  <2> QED BY <1>3, <2>1, <2>3, <2>4, <2>5, <2>6, <2>7, <2>8, <2>9, <2>10
<1>4. CASE ~Full(s)
  <2>1. NewRows(s, r) = Append(s.rows, r)
    BY <1>4 DEF NewRows
  <2>2. Len(Append(s.rows, r)) = Len(s.rows) + 1 /\ Len(s.rows) # MaxRows
    BY <1>1, <1>4 DEF Full
  <2>3. BodySums(Append(s.rows, r))[Len(s.rows) + 1] = BodySums(s.rows)[Len(s.rows)] + r.body
    BY <1>1, <1>2, SumsOfAppend
  <2>4. InOrder(Append(s.rows, r)) /\ Append(s.rows, r) \in Seq(RowType)
    BY <1>1, InOrderAppend
  <2>5. Len(NewRows(s, r)) \in 1..MaxRows
    BY <1>1, <1>2, <2>1, <2>2
  <2> QED BY <1>1, <1>4, <2>1, <2>2, <2>3, <2>4, <2>5
<1> QED BY <1>3, <1>4

(* The row is added.                                                        *)
LEMMA WithRowFacts ==
  ASSUME NEW s, Good(s), NEW r \in Row
  PROVE  LET t == WithRow(s, r)
         IN /\ t \in Raw /\ t.rows = NewRows(s, r) /\ t.selected = NewSelected(s)
            /\ t.bodyBytes + r.body = BodySums(t.rows)[Len(t.rows)]
            /\ SameRest(t, [s EXCEPT !.rows = t.rows, !.bodyBytes = t.bodyBytes])
            /\ t.top = s.top /\ t.detailOffset = s.detailOffset /\ t.diagOffset = s.diagOffset
<1> DEFINE t == WithRow(s, r)
           rows == NewRows(s, r)
<1>1. s \in Raw
  BY DEF Good, Ready
<1>2. /\ rows \in Seq(RowType)
      /\ Full(s) => s.bodyBytes - s.rows[1].body \in Nat
      /\ BodySums(rows)[Len(rows)] =
            (IF Full(s) THEN s.bodyBytes - s.rows[1].body ELSE s.bodyBytes) + r.body
  BY NewRowsFacts
<1> HIDE DEF rows
<1>3. CASE ~Full(s)
  <2> DEFINE q == [s EXCEPT !.rows = rows]
  <2>1. t = q
    BY <1>3, Zenon DEF WithRow, NewRows, rows
  <2>2. q \in Raw
    BY <1>1, <1>2 DEF Raw
  <2>3. /\ q.rows = rows /\ q.selected = s.selected /\ q.bodyBytes = s.bodyBytes
        /\ q.top = s.top /\ q.detailOffset = s.detailOffset /\ q.diagOffset = s.diagOffset
    BY <1>1 DEF Raw
  <2>4. SameRest(q, [s EXCEPT !.rows = q.rows, !.bodyBytes = q.bodyBytes])
    BY <1>1, <2>3 DEF SameRest, Raw
  <2>5. NewSelected(s) = s.selected
    BY <1>3 DEF NewSelected
  <2> HIDE DEF q
  <2> QED BY <1>2, <1>3, <2>1, <2>2, <2>3, <2>4, <2>5 DEF rows
<1>4. CASE Full(s)
  <2> DEFINE bytes == s.bodyBytes - s.rows[1].body
             sel == NewSelected(s)
             q == [s EXCEPT !.rows = rows, !.bodyBytes = bytes, !.selected = sel]
  <2>1. t = q
    <3>1. sel = IF ~s.follow /\ s.selected > 0 /\ DroppedVisible(s) THEN s.selected - 1 ELSE s.selected
      BY <1>4 DEF NewSelected
    <3> HIDE DEF sel
    <3> QED BY <1>4, <3>1 DEF WithRow, NewRows, rows
  <2>2. sel \in Nat
    BY <1>1 DEF NewSelected, Raw
  <2> HIDE DEF sel
  <2>3. bytes \in Nat
    BY <1>2, <1>4
  <2> HIDE DEF bytes
  <2>4. q \in Raw
    BY <1>1, <1>2, <2>2, <2>3 DEF Raw
  <2>5. /\ q.rows = rows /\ q.selected = sel /\ q.bodyBytes = bytes
        /\ q.top = s.top /\ q.detailOffset = s.detailOffset /\ q.diagOffset = s.diagOffset
    BY <1>1 DEF Raw
  <2>6. SameRest(q, [s EXCEPT !.rows = q.rows, !.bodyBytes = q.bodyBytes])
    BY <1>1, <2>5 DEF SameRest, Raw
  <2> HIDE DEF q
  <2> QED BY <1>2, <1>4, <2>1, <2>4, <2>5, <2>6 DEF rows, bytes, sel
<1> QED BY <1>3, <1>4

(* Everything that a new row changes before the selection follows it.       *)
LEMMA AddedFacts ==
  ASSUME NEW s, Good(s), NEW r \in Row
  PROVE  LET a == rebuildFilter(WithRow(s, r))
             t == evictBodiesOverBudget([a EXCEPT !.bodyBytes = @ + r.body])
         IN /\ Ready(t) /\ t.selected = NewSelected(s)
            /\ \E k \in 0..Len(NewRows(s, r)) : t.rows = Dropped(NewRows(s, r), k)
            /\ t.follow = s.follow /\ t.term = s.term /\ t.height = s.height
            /\ t.detailOpen = s.detailOpen /\ t.hexMode = s.hexMode
            /\ t.panelFocus = s.panelFocus /\ t.detailOffset = s.detailOffset
<1> DEFINE w == WithRow(s, r)
           found == IF w.term = 0 THEN Nil ELSE Matching(w.rows, w.term)[Len(w.rows)]
           a == [w EXCEPT !.filtered = found]
           bytes == a.bodyBytes + r.body
           b == [a EXCEPT !.bodyBytes = bytes]
           t == evictBodiesOverBudget(b)
<1>0. s \in Raw /\ (s.panelFocus => ~s.follow)
  BY DEF Good, Ready
<1>1. /\ w \in Raw /\ w.rows = NewRows(s, r) /\ w.selected = NewSelected(s)
      /\ w.bodyBytes + r.body = BodySums(w.rows)[Len(w.rows)]
      /\ SameRest(w, [s EXCEPT !.rows = w.rows, !.bodyBytes = w.bodyBytes])
      /\ w.detailOffset = s.detailOffset
  BY WithRowFacts
<1>2. /\ NewRows(s, r) \in Seq(RowType) /\ InOrder(NewRows(s, r))
      /\ Len(NewRows(s, r)) \in 1..MaxRows
  BY NewRowsFacts
<1>3. rebuildFilter(WithRow(s, r)) = a
  BY Zenon DEF rebuildFilter
<1>4. /\ w.follow = s.follow /\ w.term = s.term /\ w.height = s.height
      /\ w.detailOpen = s.detailOpen /\ w.hexMode = s.hexMode /\ w.panelFocus = s.panelFocus
  BY <1>0, <1>1 DEF SameRest, Raw
<1> HIDE DEF w
<1>5. found \in {Nil} \cup Seq(Nat)
  <2>1. w.rows \in Seq(RowType) /\ Len(w.rows) \in 0..Len(w.rows)
    BY <1>1, <1>2
  <2>2. Lists(Matching(w.rows, w.term)[Len(w.rows)], w.rows, w.term, Len(w.rows))
    BY <2>1, MatchingLists
  <2> QED BY <2>2 DEF Lists
<1> HIDE DEF found
<1>6. a \in Raw
  BY <1>1, <1>5 DEF Raw
<1>7. /\ a.rows = w.rows /\ a.selected = w.selected /\ a.bodyBytes = w.bodyBytes
      /\ a.detailOffset = w.detailOffset /\ a.filtered = found
      /\ a.follow = w.follow /\ a.term = w.term /\ a.height = w.height
      /\ a.detailOpen = w.detailOpen /\ a.hexMode = w.hexMode /\ a.panelFocus = w.panelFocus
  BY <1>1 DEF Raw
<1> HIDE DEF a
<1>8. bytes \in Nat /\ bytes = BodySums(w.rows)[Len(w.rows)]
  <2>1. r.body \in Nat
    BY ConstantsAssumption
  <2>2. a.bodyBytes \in Nat
    BY <1>6 DEF Raw
  <2> QED BY <1>1, <1>7, <2>1, <2>2
<1> HIDE DEF bytes
<1>9. b \in Raw
  BY <1>6, <1>8 DEF Raw
<1>10. /\ b.rows = a.rows /\ b.selected = a.selected /\ b.bodyBytes = bytes
       /\ b.detailOffset = a.detailOffset /\ b.filtered = a.filtered
       /\ b.follow = a.follow /\ b.term = a.term /\ b.height = a.height
       /\ b.detailOpen = a.detailOpen /\ b.hexMode = a.hexMode /\ b.panelFocus = a.panelFocus
  BY <1>6 DEF Raw
<1> HIDE DEF b
<1>11. /\ t \in Raw /\ BodiesKept(t)
       /\ \E k \in 0..Len(b.rows) : t.rows = Dropped(b.rows, k)
       /\ SameRest(t, [b EXCEPT !.rows = t.rows, !.bodyBytes = t.bodyBytes])
       /\ t.selected = b.selected /\ t.detailOffset = b.detailOffset
  <2>1. b.bodyBytes = BodySums(b.rows)[Len(b.rows)] /\ InOrder(b.rows)
    BY <1>1, <1>2, <1>7, <1>8, <1>10
  <2> QED BY <1>9, <2>1, EvictFacts DEF InOrder
<1>12. PICK k \in 0..Len(b.rows) : t.rows = Dropped(b.rows, k)
  BY <1>11
<1> HIDE DEF t
<1>13. /\ t.follow = b.follow /\ t.term = b.term /\ t.height = b.height
       /\ t.detailOpen = b.detailOpen /\ t.hexMode = b.hexMode /\ t.panelFocus = b.panelFocus
       /\ t.filtered = b.filtered
  BY <1>9, <1>11 DEF SameRest, Raw
<1>14. b.rows = NewRows(s, r)
  BY <1>1, <1>7, <1>10
<1>15. Len(t.rows) = Len(b.rows) /\ Len(t.rows) <= MaxRows
  <2>1. k \in Nat
    BY <1>12
  <2>2. Len(Dropped(b.rows, k)) = Len(b.rows)
    BY <1>2, <1>14, <2>1, DroppedType
  <2>3. MaxRows \in Nat
    BY ConstantsAssumption
  <2> QED BY <1>2, <1>12, <1>14, <2>2, <2>3
<1>16. Current(t)
  <2>1. k \in Nat
    BY <1>12
  <2>2. Matching(t.rows, t.term)[Len(t.rows)] = Matching(b.rows, t.term)[Len(b.rows)]
    BY <1>2, <1>12, <1>14, <1>15, <2>1, MatchingOfDropped
  <2> QED BY <1>1, <1>7, <1>10, <1>13, <2>2 DEF Current, found
<1>17. Ready(t)
  BY <1>0, <1>4, <1>7, <1>10, <1>11, <1>13, <1>15, <1>16 DEF Ready
<1>18. t = evictBodiesOverBudget([rebuildFilter(WithRow(s, r)) EXCEPT !.bodyBytes = @ + r.body])
  BY <1>3 DEF t, b, bytes
<1> QED BY <1>1, <1>4, <1>7, <1>10, <1>11, <1>12, <1>13, <1>14, <1>17, <1>18

LEMMA RowMsgKeeps == ASSUME Inv, NEW r \in Row, RowMsg(r) PROVE Inv'
<1> DEFINE a == rebuildFilter(WithRow(m, r))
           t == evictBodiesOverBudget([a EXCEPT !.bodyBytes = @ + r.body])
<1>1. Ready(t)
  BY AddedFacts DEF Inv
<1>2. Becomes(Followed(t))
  BY Zenon DEF RowMsg
<1> HIDE DEF t
<1>3. t \in Raw /\ Current(t)
  BY <1>1 DEF Ready
<1>4. CASE ~t.follow
  BY <1>1, <1>2, <1>4, Becoming DEF Followed
<1>5. CASE t.follow
  <2> DEFINE x == IF displayCount(t) > 0 THEN displayCount(t) - 1 ELSE t.selected
             s == [t EXCEPT !.selected = x, !.detailOffset = 0]
  <2>1. Followed(t) = s
    BY <1>5 DEF Followed
  <2>2. x \in Nat
    BY <1>3, DisplayFacts DEF Raw
  <2> HIDE DEF x
  <2>3. s \in Raw
    <3>1. \A y \in Int : [t EXCEPT !.selected = x, !.detailOffset = y] \in Raw
      BY <1>3, <2>2 DEF Raw
    <3>2. 0 \in Int
      OBVIOUS
    <3> QED BY <3>1, <3>2, Zenon
  <2>4. SameRest(t, s)
    BY <1>3 DEF SameRest, Raw
  <2> HIDE DEF s
  <2>5. Ready(s)
    BY <1>1, <2>3, <2>4 DEF Ready, SameRest, Current, BodiesKept
  <2> QED BY <1>2, <2>1, <2>5, Becoming
<1> QED BY <1>4, <1>5

LEMMA NextInv == Inv /\ [Next]_m => Inv'
<1> SUFFICES ASSUME Inv, [Next]_m PROVE Inv'
  OBVIOUS
<1>1. CASE UNCHANGED m
  BY <1>1 DEF Inv
<1>2. CASE \E height \in Heights : Resize(height)
  BY <1>2, ResizeKeeps
<1>3. CASE \E r \in Row : RowMsg(r)
  BY <1>3, RowMsgKeeps
<1>4. CASE FilterClear \/ FilterApply \/ FilterBackspace \/ FilterType \/ EscFromFilter
  BY <1>4, FilterClearKeeps, FilterApplyKeeps, FilterKeeps
<1>5. CASE DiagClose \/ DiagUp \/ DiagDown \/ DiagTop \/ DiagBottom \/ OpenDiag \/ DiagMsg
  BY <1>5, DiagCloseKeeps, DiagUpKeeps, DiagDownKeeps, DiagTopKeeps, DiagBottomKeeps,
     OpenDiagKeeps, DiagMsgKeeps
<1>6. CASE Tab \/ Enter \/ EscFromPanel \/ EscFromDetail
  BY <1>6, TabKeeps, EnterKeeps, EscFromPanelKeeps, EscFromDetailKeeps
<1>7. CASE PanelUp \/ PanelDown \/ PanelTop \/ PanelBottom
  BY <1>7, PanelUpKeeps, PanelDownKeeps, PanelTopKeeps, PanelBottomKeeps
<1>8. CASE Up \/ Down \/ Top \/ Bottom \/ HexMode \/ StartFilter
  BY <1>8, UpKeeps, DownKeeps, TopKeeps, BottomKeeps, HexModeKeeps, StartFilterKeeps
<1> QED BY <1>1, <1>2, <1>3, <1>4, <1>5, <1>6, <1>7, <1>8 DEF Next

THEOREM Invariance == Spec => []Inv
  BY InitInv, NextInv, PTL DEF Spec

(* Every field of the model keeps its type: no index and no offset ever     *)
(* falls below zero, whatever the clamps are given.                         *)
THEOREM TypeCorrect == Spec => []TypeOK
<1>1. Inv => TypeOK
  <2> SUFFICES ASSUME Inv PROVE m \in Model
    BY DEF TypeOK
  <2>1. m \in Raw /\ m.detailOffset \in 0..maxDetailOffset(m) /\ m.diagOffset \in Nat
    BY DEF Inv, Good, Ready
  <2>2. m.detailOffset \in Nat
    BY <2>1
  <2> QED BY <2>1, <2>2 DEF Raw, Model, RowType
<1> QED BY <1>1, Invariance, PTL

(* After every Update the selected row exists and is on screen, with no     *)
(* blank line while rows are hidden, for every number of rows and height.   *)
THEOREM SelectionOnScreenHolds == Spec => []SelectionOnScreen
<1>1. Inv => SelectionOnScreen
  BY DEF Inv, Good, OnScreen, SelectionOnScreen
<1> QED BY <1>1, Invariance, PTL

(* The rows on display are those that match the term, in order, after every *)
(* eviction and every change of the term.                                   *)
THEOREM FilterIsCurrentHolds == Spec => []FilterIsCurrent
<1>1. Inv => FilterIsCurrent
  BY FilterShown DEF Inv, Good, Ready
<1> QED BY <1>1, Invariance, PTL

(* The running total of evictBodiesOverBudget is the sum of the bodies and  *)
(* within the budget, and the oldest bodies go first.                       *)
THEOREM BodiesWithinBudgetHolds == Spec => []BodiesWithinBudget
<1>1. Inv => BodiesWithinBudget
  BY DEF Inv, Good, Ready, BodiesKept, BodiesWithinBudget
<1> QED BY <1>1, Invariance, PTL

(* In a panel of three lines or more maxDetailOffset lets every line of the *)
(* content be scrolled to.                                                  *)
THEOREM EveryLineCanBeReadHolds == Spec => []EveryLineCanBeRead
<1>1. Inv => EveryLineCanBeRead
  BY LinesCanBeRead DEF Inv, Good, Ready
<1> QED BY <1>1, Invariance, PTL

-----------------------------------------------------------------------------
(* The selection of who does not follow.                                    *)

LEMMA ShiftedFacts ==
  ASSUME NEW q \in Seq(Int), NEW first \in BOOLEAN, first => Len(q) > 0
  PROVE  LET d == IF first THEN 1 ELSE 0
         IN /\ Shifted(q, first) \in Seq(Int) /\ Len(Shifted(q, first)) = Len(q) - d
            /\ \A i \in 1..Len(q) - d : Shifted(q, first)[i] = q[i + d] - 1
<1>1. Len(q) \in Nat /\ \A i \in 1..Len(q) : q[i] - 1 \in Int
  OBVIOUS
<1>2. CASE first
  <2> DEFINE s == [i \in 1..Len(q) - 1 |-> q[i + 1] - 1]
  <2>1. Len(q) - 1 \in Nat /\ \A i \in 1..Len(q) - 1 : q[i + 1] - 1 \in Int
    BY <1>1, <1>2
  <2>2. s \in Seq(Int) /\ Len(s) = Len(q) - 1 /\ \A i \in 1..Len(q) - 1 : s[i] = q[i + 1] - 1
    BY <2>1
  <2> QED BY <1>2, <2>2 DEF Shifted
<1>3. CASE ~first
  <2> DEFINE s == [i \in 1..Len(q) |-> q[i] - 1]
  <2>1. s \in Seq(Int) /\ Len(s) = Len(q) /\ \A i \in 1..Len(q) : s[i] = q[i] - 1
    BY <1>1
  <2>2. Shifted(q, first) = s
    BY <1>3 DEF Shifted
  <2> HIDE DEF s
  <2> QED BY <1>3, <2>1, <2>2
<1> QED BY <1>2, <1>3

(* One more row is looked at: what was found stays where it is.             *)
Prolongs(p, q) == p \in Seq(Int) /\ Len(p) >= Len(q) /\ \A i \in 1..Len(q) : p[i] = q[i]

LEMMA FoundNextFacts ==
  ASSUME NEW q \in Seq(Int), NEW rows, NEW term, NEW n \in Int
  PROVE  Prolongs(FoundNext(q, rows, term, n), q)
<1> DEFINE p == FoundNext(q, rows, term, n)
<1>1. LET a == Append(q, n - 1)
      IN a \in Seq(Int) /\ Len(a) >= Len(q) /\ \A i \in 1..Len(q) : a[i] = q[i]
  OBVIOUS
<1>2. Len(q) >= Len(q)
  OBVIOUS
<1>3. p = Append(q, n - 1) \/ p = q
  BY DEF FoundNext
<1> HIDE DEF p
<1>4. Prolongs(p, q)
  BY <1>1, <1>2, <1>3 DEF Prolongs
<1> QED BY <1>4 DEF p

(* The row that was selected is still there, one place up if the oldest row *)
(* made room.                                                               *)
LEMMA SelectionKept ==
  ASSUME NEW s, Good(s), ~s.follow, displayCount(s) > 0, NEW r \in Row,
         NEW t, Len(t.rows) = Len(NewRows(s, r)),
         t.filtered = IF s.term = 0 THEN Nil
                      ELSE Matching(NewRows(s, r), s.term)[Len(NewRows(s, r))],
         RowIndex(s, s.selected) - (IF Full(s) THEN 1 ELSE 0) >= 0
  PROVE  /\ NewSelected(s) < displayCount(t)
         /\ RowIndex(t, NewSelected(s)) =
               RowIndex(s, s.selected) - (IF Full(s) THEN 1 ELSE 0)
<1>1. s \in Raw /\ Current(s) /\ s.selected < displayCount(s)
  BY DEF Good, Ready, Selects
<1>2. /\ s.rows \in Seq(RowType) /\ Len(s.rows) \in Nat /\ s.selected \in Nat
      /\ r \in RowType
  BY <1>1, ConstantsAssumption DEF Raw, RowType
<1>3. Full(s) => s.rows # <<>>
  BY NewRowsFacts
<1>4. CASE s.term = 0
  <2>1. s.filtered = Nil /\ t.filtered = Nil
    BY <1>1, <1>4 DEF Current
  <2>2. RowIndex(s, s.selected) = s.selected /\ RowIndex(t, NewSelected(s)) = NewSelected(s)
    BY <2>1 DEF RowIndex
  <2>3. displayCount(s) = Len(s.rows) /\ displayCount(t) = Len(NewRows(s, r))
    BY <2>1 DEF displayCount
  <2>4. CASE Full(s)
    <3>1. DroppedVisible(s)
      BY <1>4 DEF DroppedVisible
    <3>2. NewSelected(s) = s.selected - 1
      BY <1>2, <2>2, <2>4, <3>1 DEF NewSelected
    <3>3. Len(NewRows(s, r)) = Len(s.rows)
      BY <1>2, <1>3, <2>4 DEF NewRows
    <3> QED BY <1>1, <1>2, <2>2, <2>3, <2>4, <3>2, <3>3
  <2>5. CASE ~Full(s)
    <3>1. NewSelected(s) = s.selected
      BY <2>5 DEF NewSelected
    <3>2. Len(NewRows(s, r)) = Len(s.rows) + 1
      BY <1>2, <2>5 DEF NewRows
    <3> QED BY <1>1, <1>2, <2>2, <2>3, <2>5, <3>1, <3>2
  <2> QED BY <2>4, <2>5
<1>5. CASE s.term # 0
  <2> DEFINE F == Matching(s.rows, s.term)[Len(s.rows)]
             N == NewRows(s, r)
             H == Matching(N, s.term)[Len(N)]
             sel == s.selected
             new == NewSelected(s)
  <2>1. s.filtered = F /\ s.filtered # Nil /\ F \in Seq(Nat)
    <3>1. s.filtered = F
      BY <1>1, <1>5 DEF Current
    <3> QED BY <1>1, <1>5, <3>1, FilterFacts DEF Lists
  <2>2. t.filtered = H /\ H # Nil
    <3>1. N \in Seq(RowType) /\ Len(N) \in 0..Len(N)
      BY NewRowsFacts
    <3>2. Lists(H, N, s.term, Len(N))
      BY <3>1, MatchingLists
    <3>3. H \in Seq(Nat)
      BY <3>2 DEF Lists
    <3> QED BY <1>5, <3>3, ConstantsAssumption
  <2>3. RowIndex(s, sel) = F[sel + 1] /\ RowIndex(t, new) = H[new + 1]
    BY <2>1, <2>2 DEF RowIndex
  <2>4. displayCount(s) = Len(F) /\ displayCount(t) = Len(H)
    BY <2>1, <2>2 DEF displayCount
  <2>5. sel \in Nat /\ sel + 1 \in 1..Len(F) /\ F \in Seq(Int) /\ F[sel + 1] \in Nat
    <3>1. sel \in Nat /\ sel < Len(F)
      BY <1>1, <1>2, <2>4
    <3> HIDE DEF F, sel
    <3>2. Len(F) \in Nat /\ F \in Seq(Int)
      BY <2>1
    <3>3. sel + 1 \in 1..Len(F)
      BY <3>1, <3>2
    <3> QED BY <2>1, <3>1, <3>2, <3>3
  <2>6. CASE ~Full(s)
    <3>1. N = Append(s.rows, r) /\ Len(N) = Len(s.rows) + 1 /\ new = sel
      BY <1>2, <2>6 DEF NewRows, NewSelected
    <3>2. H = FoundNext(F, N, s.term, Len(s.rows) + 1)
      BY <1>2, <3>1, MatchingOfAppend
    <3> HIDE DEF F, N, H, sel, new
    <3>3. H \in Seq(Int) /\ Len(H) >= Len(F) /\ \A i \in 1..Len(F) : H[i] = F[i]
      <4>1. Len(s.rows) + 1 \in Int
        BY <1>2
      <4>2. Prolongs(FoundNext(F, N, s.term, Len(s.rows) + 1), F)
        BY <2>5, <4>1, FoundNextFacts, Zenon
      <4>3. Prolongs(H, F)
        BY <3>2, <4>2, Zenon
      <4> QED BY <4>3, Zenon DEF Prolongs
    <3> QED BY <2>3, <2>4, <2>5, <2>6, <3>1, <3>3 DEF sel, new
  <2>7. CASE Full(s)
    <3> DEFINE less == Tail(s.rows)
               first == rowMatchesFilter(s.rows[1], s.term)
               G == Matching(less, s.term)[Len(less)]
               d == IF first THEN 1 ELSE 0
    <3>1. /\ less \in Seq(RowType) /\ Len(less) = Len(s.rows) - 1
          /\ N = Append(less, r) /\ Len(N) = Len(less) + 1 /\ Len(less) \in Nat
      BY <1>2, <1>3, <2>7 DEF NewRows
    <3>2. H = FoundNext(G, N, s.term, Len(less) + 1)
      BY <1>2, <3>1, MatchingOfAppend
    <3>3. first \in BOOLEAN /\ (first => Len(F) > 0 /\ F[1] = 0) /\ G = Shifted(F, first)
      <4>1. first \in BOOLEAN
        BY DEF rowMatchesFilter
      <4> QED BY <1>2, <1>3, <2>7, <3>1, <4>1, MatchingOfTail
    <3>4. first => sel # 0
      <4> SUFFICES ASSUME first, sel = 0 PROVE FALSE
        OBVIOUS
      <4>1. F[sel + 1] = 0
        BY <3>3
      <4> QED BY <2>3, <2>7, <4>1
    <3>5. new = sel - d
      <4>1. DroppedVisible(s) <=> first
        BY <1>5, Zenon DEF DroppedVisible
      <4> QED BY <2>5, <2>7, <3>4, <4>1 DEF NewSelected
    <3> HIDE DEF F, N, H, sel, new, G, first, less
    <3>6. /\ G \in Seq(Int) /\ Len(G) = Len(F) - d
          /\ \A i \in 1..Len(F) - d : G[i] = F[i + d] - 1
      BY <2>5, <3>3, ShiftedFacts
    <3>7. H \in Seq(Int) /\ Len(H) >= Len(G) /\ \A i \in 1..Len(G) : H[i] = G[i]
      <4>1. Len(less) + 1 \in Int
        <5>1. Len(less) \in Nat
          BY <3>1
        <5> QED BY <5>1
      <4>2. Prolongs(FoundNext(G, N, s.term, Len(less) + 1), G)
        BY <3>6, <4>1, FoundNextFacts, Zenon
      <4>3. Prolongs(H, G)
        BY <3>2, <4>2, Zenon
      <4> QED BY <4>3, Zenon DEF Prolongs
    <3>8. new + 1 \in 1..Len(F) - d /\ new + 1 + d = sel + 1 /\ Len(F) \in Nat
      BY <2>5, <3>4, <3>5
    <3>9. H[new + 1] = F[sel + 1] - 1
      BY <3>6, <3>7, <3>8
    <3>10. new < Len(H)
      <4>1. Len(H) \in Nat /\ Len(G) \in Nat
        BY <3>6, <3>7
      <4>3. new + 1 \in 1..Len(G)
        BY <3>6, <3>8
      <4>2. new \in Int
        BY <2>5, <3>5
      <4>4. Len(H) >= Len(G)
        BY <3>7
      <4> QED BY <4>1, <4>2, <4>3, <4>4
    <3> QED BY <2>3, <2>4, <2>7, <3>9, <3>10 DEF sel, new
  <2> QED BY <2>6, <2>7
<1> QED BY <1>4, <1>5

(* The place in the panel can only change when the row on display does.     *)
LEMMA SameOffset ==
  ASSUME NEW s, NEW t, displayCount(s) > 0, displayCount(t) > 0, s.rows # <<>>, t.rows # <<>>,
         displayRow(s, s.selected) = displayRow(t, t.selected),
         s.height = t.height, s.detailOpen = t.detailOpen, s.hexMode = t.hexMode
  PROVE  maxDetailOffset(s) = maxDetailOffset(t)
<1>1. detailLineCount(s) = detailLineCount(t)
  BY DEF detailLineCount
<1>2. bodyLines(s) = bodyLines(t)
  BY <1>1 DEF bodyLines
<1> QED BY <1>1, <1>2 DEF maxDetailOffset

LEMMA Undisturbed ==
  ASSUME Inv, NEW r \in Row, RowMsg(r), displayCount(m) > 0, ~m.follow \/ m.panelFocus,
         RowIndex(m, m.selected) - (IF Full(m) THEN 1 ELSE 0) >= 0
  PROVE  /\ RowIndex(m', m'.selected) = RowIndex(m, m.selected) - (IF Full(m) THEN 1 ELSE 0)
         /\ \/ m'.detailOffset = m.detailOffset
            \/ displayRow(m', m'.selected) # displayRow(m, m.selected)
<1> DEFINE a == rebuildFilter(WithRow(m, r))
           t == evictBodiesOverBudget([a EXCEPT !.bodyBytes = @ + r.body])
           index == RowIndex(m, m.selected) - (IF Full(m) THEN 1 ELSE 0)
<1>1. m \in Raw /\ Current(m) /\ ~m.follow /\ m.detailOffset \in 0..maxDetailOffset(m) /\ Good(m)
  BY DEF Inv, Good, Ready
<1>2. /\ Ready(t) /\ t.selected = NewSelected(m)
      /\ \E k \in 0..Len(NewRows(m, r)) : t.rows = Dropped(NewRows(m, r), k)
      /\ t.follow = m.follow /\ t.term = m.term /\ t.height = m.height
      /\ t.detailOpen = m.detailOpen /\ t.hexMode = m.hexMode
      /\ t.detailOffset = m.detailOffset
  BY <1>1, AddedFacts
<1>3. Becomes(Followed(t))
  BY Zenon DEF RowMsg
<1> HIDE DEF t
<1>4. t \in Raw /\ Current(t)
  BY <1>2 DEF Ready
<1>5. m' = Clamped(t)
  BY <1>1, <1>2, <1>3 DEF Followed, Becomes, Clamped
<1>6. PICK k \in 0..Len(NewRows(m, r)) : t.rows = Dropped(NewRows(m, r), k)
  BY <1>2
<1>7. NewRows(m, r) \in Seq(RowType) /\ Len(NewRows(m, r)) \in 1..MaxRows
  BY <1>1, NewRowsFacts
<1>8. /\ Len(t.rows) = Len(NewRows(m, r))
      /\ t.filtered = IF m.term = 0 THEN Nil
                      ELSE Matching(NewRows(m, r), m.term)[Len(NewRows(m, r))]
  <2>1. k \in Nat
    BY <1>6
  <2>2. Len(t.rows) = Len(NewRows(m, r))
    BY <1>6, <1>7, <2>1, DroppedType
  <2>3. Matching(t.rows, m.term)[Len(NewRows(m, r))]
           = Matching(NewRows(m, r), m.term)[Len(NewRows(m, r))]
    BY <1>6, <1>7, <2>1, MatchingOfDropped
  <2> QED BY <1>2, <1>4, <2>2, <2>3 DEF Current
<1>9. t.selected < displayCount(t) /\ RowIndex(t, t.selected) = index
  BY <1>1, <1>2, <1>8, SelectionKept
<1> DEFINE u == Clamped(t)
<1>10. /\ u \in Raw /\ Current(u) /\ SameRest(t, u) /\ u.selected = t.selected
       /\ displayCount(u) = displayCount(t)
       /\ t.detailOffset \in 0..maxDetailOffset(u) => u.detailOffset = t.detailOffset
  BY <1>4, <1>9, Clamp
<1> HIDE DEF u
<1>11. RowIndex(u, u.selected) = index
  BY <1>9, <1>10 DEF RowIndex, SameRest
<1>12. displayRow(u, u.selected) = displayRow(m, m.selected) => u.detailOffset = m.detailOffset
  <2> SUFFICES ASSUME displayRow(u, u.selected) = displayRow(m, m.selected)
               PROVE  u.detailOffset = m.detailOffset
    OBVIOUS
  <2>1. u.height = m.height /\ u.detailOpen = m.detailOpen /\ u.hexMode = m.hexMode
    BY <1>2, <1>10 DEF SameRest
  <2>2. displayCount(u) > 0
    <3>1. t.selected \in Nat
      BY <1>4 DEF Raw
    <3>2. displayCount(t) \in Nat
      BY <1>4, DisplayFacts
    <3> QED BY <1>9, <1>10, <3>1, <3>2
  <2>3. m.rows # <<>> /\ u.rows # <<>>
    BY <1>1, <1>10, <2>2, DisplayFacts
  <2>4. maxDetailOffset(u) = maxDetailOffset(m)
    BY <2>1, <2>2, <2>3, SameOffset
  <2> QED BY <1>1, <1>2, <1>10, <2>4
<1> QED BY <1>5, <1>11, <1>12 DEF u

(* A row that arrives while the user is away from the bottom moves neither  *)
(* the selection nor the place in the panel, unless what is read had to go. *)
THEOREM ReadingUndisturbedHolds == Spec => ReadingUndisturbed
<1>1. ASSUME Inv, \E r \in Row : RowMsg(r), displayCount(m) > 0, ~m.follow \/ m.panelFocus
      PROVE  LET index == RowIndex(m, m.selected) - (IF Full(m) THEN 1 ELSE 0)
             IN index < 0 \/ ( /\ RowIndex(m', m'.selected) = index
                               /\ \/ m'.detailOffset = m.detailOffset
                                  \/ displayRow(m', m'.selected) # displayRow(m, m.selected) )
  <2>1. PICK r \in Row : RowMsg(r)
    BY <1>1
  <2>2. RowIndex(m, m.selected) - (IF Full(m) THEN 1 ELSE 0) \in Int
    <3>1. m.selected \in 0..displayCount(m) - 1 /\ displayCount(m) \in Nat
      BY <1>1, InvRaw DEF Selects, Raw
    <3>2. RowIndex(m, m.selected) \in Int
      BY <1>1, <3>1, InvRaw, DisplayFacts
    <3> QED BY <3>2
  <2> QED BY <1>1, <2>1, <2>2, Undisturbed
<1> QED BY <1>1, Invariance, PTL DEF ReadingUndisturbed

=============================================================================
