---------------------------- MODULE CaptureProofs ----------------------------
(***************************************************************************)
(* Proofs about Capture for every plan of exchanges, any number of          *)
(* connections and of mishaps, and every limit of the pairer: the parser    *)
(* frames each response by its request, a pair is of one exchange, and      *)
(* nothing is reported once the sink is closed.                             *)
(*                                                                          *)
(* The pairer inside makes steps of Pairer only, so what PairerProofs shows *)
(* of Pairer holds here (PP).                                               *)
(***************************************************************************)
EXTENDS Capture, FiniteSetTheorems, SequenceTheorems, TLAPS

PP == INSTANCE PairerProofs

Constants == CaptureAssumption

(* What is known of an element that is appended, and of the others.         *)
LEMMA AppendFacts ==
    ASSUME NEW S, NEW s \in Seq(S), NEW e \in S
    PROVE  /\ Append(s, e) \in Seq(S)
           /\ Len(Append(s, e)) = Len(s) + 1
           /\ Len(s) \in Nat
           /\ \A n \in 1..Len(s) : Append(s, e)[n] = s[n]
           /\ Append(s, e)[Len(s) + 1] = e
OBVIOUS

-----------------------------------------------------------------------------
(* The events of an exchange, and how far a direction has come in them.     *)

Heads(i, dir) == IF dir = "responses" /\ plan[i].interim THEN 2 ELSE 1

BodyFollows(i, dir) ==
    IF dir = "requests" THEN plan[i].method = "POST" ELSE HasBody(plan[i])

Units == [unit : {"head", "body", "rest"}, ex : Nat, status : Nat]

(* Between the last head of a message and its body.                         *)
Due(dir) ==
    /\ sent[dir].ex <= Len(plan)
    /\ sent[dir].events = Heads(sent[dir].ex, dir)
    /\ BodyFollows(sent[dir].ex, dir)

(* The exchanges whose last head has come, and those that are complete.     *)
Complete(dir) == sent[dir].ex - 1
Begun(dir) == IF Due(dir) THEN sent[dir].ex ELSE Complete(dir)

PlanType == plan \in Seq(Exchange)

LEMMA Joined ==
    ASSUME NEW a, NEW b, NEW c
    PROVE  /\ <<a>> \o <<>> = <<a>> /\ <<a>> \o <<b>> = <<a, b>>
           /\ <<>> \o <<b>> = <<b>>
           /\ (<<a>> \o <<b>>) \o <<c>> = <<a, b, c>>
           /\ (<<a>> \o <<b>>) \o <<>> = <<a, b>>
           /\ (<<>> \o <<b>>) \o <<c>> = <<b, c>>
           /\ (<<>> \o <<b>>) \o <<>> = <<b>>
  <1> DEFINE S == {a, b, c}
  <1>1. /\ <<a>> \in Seq(S) /\ <<b>> \in Seq(S) /\ <<c>> \in Seq(S) /\ <<a, b>> \in Seq(S)
        /\ <<b, c>> \in Seq(S) /\ <<a, b, c>> \in Seq(S) /\ <<>> \in Seq(S)
    OBVIOUS
  <1>2. ASSUME NEW s \in Seq(S) PROVE s \o <<>> = s /\ <<>> \o s = s
    BY ConcatEmptySeq
  <1>3. ASSUME NEW x \in S, NEW y \in S PROVE <<x>> \o <<y>> = <<x, y>>
    <2> DEFINE u == <<x>> \o <<y>>
               v == <<x, y>>
    <2>1. u \in Seq(S) /\ Len(u) = 2 /\ u[1] = x /\ u[2] = y
      BY ConcatProperties
    <2>2. v \in Seq(S) /\ Len(v) = 2 /\ v[1] = x /\ v[2] = y
      OBVIOUS
    <2> HIDE DEF u, v
    <2>3. \A i \in 1..2 : u[i] = v[i]
      <3>1. \A i \in 1..2 : i = 1 \/ i = 2
        OBVIOUS
      <3> QED
        BY <2>1, <2>2, <3>1
    <2>4. u = v
      BY <2>1, <2>2, <2>3, SeqEqual
    <2> QED
      BY <2>4 DEF u, v
  <1>4. <<a, b>> \o <<c>> = <<a, b, c>>
    <2> DEFINE u == <<a, b>> \o <<c>>
               v == <<a, b, c>>
    <2>1. u \in Seq(S) /\ Len(u) = 3 /\ u[1] = a /\ u[2] = b /\ u[3] = c
      BY <1>1, ConcatProperties
    <2>2. v \in Seq(S) /\ Len(v) = 3 /\ v[1] = a /\ v[2] = b /\ v[3] = c
      OBVIOUS
    <2> HIDE DEF u, v
    <2>3. \A i \in 1..3 : u[i] = v[i]
      <3>1. \A i \in 1..3 : i = 1 \/ i = 2 \/ i = 3
        OBVIOUS
      <3> QED
        BY <2>1, <2>2, <3>1
    <2>4. u = v
      BY <2>1, <2>2, <2>3, SeqEqual
    <2> QED
      BY <2>4 DEF u, v
  <1> QED
    BY <1>1, <1>2, <1>3, <1>4

(* What a sequence of events of exchange i looks like.                      *)
Shape(s, i, heads, body, status) ==
    /\ s \in Seq(Units) /\ Len(s) = heads + (IF body THEN 1 ELSE 0)
    /\ \A n \in 1..heads :
          /\ s[n].unit = "head" /\ s[n].ex = i
          /\ s[n].status = IF n < heads THEN 100 ELSE status
    /\ body => s[heads + 1].unit = "body" /\ s[heads + 1].ex = i

LEMMA ShapeFacts ==
    ASSUME NEW i \in Nat, NEW st \in Nat
    PROVE  /\ Shape(<<HeadOf(i, st)>>, i, 1, FALSE, st)
           /\ Shape(<<HeadOf(i, st), BodyOf(i)>>, i, 1, TRUE, st)
           /\ Shape(<<HeadOf(i, 100), HeadOf(i, st)>>, i, 2, FALSE, st)
           /\ Shape(<<HeadOf(i, 100), HeadOf(i, st), BodyOf(i)>>, i, 2, TRUE, st)
  <1>1. HeadOf(i, st) \in Units /\ HeadOf(i, 100) \in Units /\ BodyOf(i) \in Units
    BY DEF HeadOf, BodyOf, Units
  <1>2. /\ HeadOf(i, st).unit = "head" /\ HeadOf(i, st).ex = i /\ HeadOf(i, st).status = st
        /\ HeadOf(i, 100).unit = "head" /\ HeadOf(i, 100).ex = i /\ HeadOf(i, 100).status = 100
        /\ BodyOf(i).unit = "body" /\ BodyOf(i).ex = i
    BY DEF HeadOf, BodyOf
  <1>3. Shape(<<HeadOf(i, st)>>, i, 1, FALSE, st)
    BY <1>1, <1>2 DEF Shape
  <1>4. Shape(<<HeadOf(i, st), BodyOf(i)>>, i, 1, TRUE, st)
    BY <1>1, <1>2 DEF Shape
  <1>5. Shape(<<HeadOf(i, 100), HeadOf(i, st)>>, i, 2, FALSE, st)
    BY <1>1, <1>2 DEF Shape
  <1>6. Shape(<<HeadOf(i, 100), HeadOf(i, st), BodyOf(i)>>, i, 2, TRUE, st)
    BY <1>1, <1>2 DEF Shape
  <1> QED
    BY <1>3, <1>4, <1>5, <1>6

Informational == 100..199
Final == 200..599

(* The plan holds final responses only.                                     *)
LEMMA FinalFacts ==
    ASSUME NEW x \in Exchange
    PROVE  /\ x.status \in Nat /\ x.status >= 200 /\ x.status # 100
           /\ ~(x.status \in Informational)
  <1>1. \A st \in Informational : st < 200 /\ st \in Nat
    BY DEF Informational
  <1>2. \A st \in Final : st \in Nat /\ st >= 200 /\ st # 100
    BY DEF Final
  <1>3. \A st \in Nat : ~(st < 200 /\ st >= 200)
    OBVIOUS
  <1>4. x.status \in Final
    BY DEF Exchange, Final
  <1> QED
    BY <1>1, <1>2, <1>3, <1>4, Zenon

LEMMA EventsFacts ==
    ASSUME PlanType, NEW i \in 1..Len(plan), NEW dir \in Dir
    PROVE  /\ plan[i] \in Exchange /\ i \in Nat
           /\ Heads(i, dir) \in {1, 2} /\ BodyFollows(i, dir) \in BOOLEAN
           /\ Shape(EventsOf(i, dir), i, Heads(i, dir), BodyFollows(i, dir),
                    IF dir = "requests" THEN 0 ELSE plan[i].status)
  <1>1. plan[i] \in Exchange /\ i \in Nat /\ plan[i].status \in Nat
    <2>1. plan[i] \in Exchange /\ i \in Nat
      BY DEF PlanType
    <2> QED
      BY <2>1, FinalFacts
  <1>2. CASE dir = "requests"
    <2>1. CASE plan[i].method = "POST"
      <3>1. EventsOf(i, dir) = <<HeadOf(i, 0), BodyOf(i)>>
        BY <1>2, <2>1, Joined DEF EventsOf
      <3>2. Heads(i, dir) = 1 /\ BodyFollows(i, dir) = TRUE
        BY <1>2, <2>1 DEF Heads, BodyFollows
      <3> QED
        BY <1>1, <1>2, <3>1, <3>2, ShapeFacts
    <2>2. CASE plan[i].method # "POST"
      <3>1. EventsOf(i, dir) = <<HeadOf(i, 0)>>
        BY <1>2, <2>2, Joined DEF EventsOf
      <3>2. Heads(i, dir) = 1 /\ BodyFollows(i, dir) = FALSE
        BY <1>2, <2>2 DEF Heads, BodyFollows
      <3> QED
        BY <1>1, <1>2, <3>1, <3>2, ShapeFacts
    <2> QED
      BY <2>1, <2>2
  <1>3. CASE dir = "responses"
    <2>1. CASE plan[i].interim /\ HasBody(plan[i])
      <3>1. EventsOf(i, dir) = <<HeadOf(i, 100), HeadOf(i, plan[i].status), BodyOf(i)>>
        BY <1>3, <2>1, Joined DEF EventsOf
      <3>2. Heads(i, dir) = 2 /\ BodyFollows(i, dir) = TRUE
        BY <1>3, <2>1 DEF Heads, BodyFollows
      <3> QED
        BY <1>1, <1>3, <3>1, <3>2, ShapeFacts
    <2>2. CASE plan[i].interim /\ ~HasBody(plan[i])
      <3>1. EventsOf(i, dir) = <<HeadOf(i, 100), HeadOf(i, plan[i].status)>>
        BY <1>3, <2>2, Joined DEF EventsOf
      <3>2. Heads(i, dir) = 2 /\ BodyFollows(i, dir) = FALSE
        BY <1>3, <2>2 DEF Heads, BodyFollows
      <3> QED
        BY <1>1, <1>3, <3>1, <3>2, ShapeFacts
    <2>3. CASE ~plan[i].interim /\ HasBody(plan[i])
      <3>1. EventsOf(i, dir) = <<HeadOf(i, plan[i].status), BodyOf(i)>>
        BY <1>3, <2>3, Joined DEF EventsOf
      <3>2. Heads(i, dir) = 1 /\ BodyFollows(i, dir) = TRUE
        BY <1>3, <2>3 DEF Heads, BodyFollows
      <3> QED
        BY <1>1, <1>3, <3>1, <3>2, ShapeFacts
    <2>4. CASE ~plan[i].interim /\ ~HasBody(plan[i])
      <3>1. EventsOf(i, dir) = <<HeadOf(i, plan[i].status)>>
        BY <1>3, <2>4, Joined DEF EventsOf
      <3>2. Heads(i, dir) = 1 /\ BodyFollows(i, dir) = FALSE
        BY <1>3, <2>4 DEF Heads, BodyFollows
      <3> QED
        BY <1>1, <1>3, <3>1, <3>2, ShapeFacts
    <2> QED
      BY <2>1, <2>2, <2>3, <2>4
  <1> QED
    BY <1>2, <1>3 DEF Dir

(* How far the connection has come.                                         *)
Cursor ==
    /\ PlanType
    /\ sent \in [Dir -> [ex : Nat, events : Nat]]
    /\ \A dir \in Dir :
          /\ sent[dir].ex \in 1..Len(plan) + 1
          /\ sent[dir].events > 0 =>
                /\ sent[dir].ex <= Len(plan)
                /\ sent[dir].events < Len(EventsOf(sent[dir].ex, dir))

(* The three kinds of events: an interim response, the last head of a       *)
(* message, and its body.                                                   *)
InterimHead(dir) ==
    /\ dir = "responses" /\ plan[sent[dir].ex].interim
    /\ Upcoming(dir).unit = "head" /\ Upcoming(dir).status = 100
    /\ ~Due(dir) /\ ~Due(dir)' /\ sent'[dir].ex = sent[dir].ex

LastHead(dir) ==
    /\ Upcoming(dir).unit = "head"
    /\ Upcoming(dir).status = IF dir = "requests" THEN 0 ELSE plan[sent[dir].ex].status
    /\ ~Due(dir)
    /\ IF BodyFollows(sent[dir].ex, dir) THEN Due(dir)' /\ sent'[dir].ex = sent[dir].ex
                                         ELSE ~Due(dir)' /\ sent'[dir].ex = sent[dir].ex + 1

BodyEvent(dir) ==
    /\ Upcoming(dir).unit = "body"
    /\ Due(dir) /\ ~Due(dir)' /\ sent'[dir].ex = sent[dir].ex + 1

LEMMA Advance ==
    ASSUME Cursor, NEW dir \in Dir, Arrives(dir)
    PROVE  /\ Cursor'
           /\ sent[dir].ex \in 1..Len(plan) /\ plan[sent[dir].ex] \in Exchange
           /\ Upcoming(dir) \in Units /\ Upcoming(dir).ex = sent[dir].ex
           /\ InterimHead(dir) \/ LastHead(dir) \/ BodyEvent(dir)
           /\ sent'[dir].events > 0 => sent'[dir].ex = sent[dir].ex
           /\ \A d \in Dir \ {dir} :
                 /\ sent'[d] = sent[d] /\ (Due(d)' <=> Due(d))
                 /\ Begun(d)' = Begun(d) /\ Complete(d)' = Complete(d)
  <1> DEFINE i == sent[dir].ex
             k == sent[dir].events
             h == Heads(i, dir)
             b == BodyFollows(i, dir)
             es == EventsOf(i, dir)
             st == IF dir = "requests" THEN 0 ELSE plan[i].status
  <1>1. /\ i \in 1..Len(plan) /\ k \in Nat /\ i \in Nat /\ Len(plan) \in Nat
        /\ sent' = [sent EXCEPT ![dir] = After(sent[dir], dir)] /\ plan' = plan
        /\ k > 0 => k < Len(es)
    BY DEF Cursor, Arrives, PlanType
  <1>2. /\ plan[i] \in Exchange /\ h \in {1, 2} /\ b \in BOOLEAN /\ Shape(es, i, h, b, st)
    BY <1>1, EventsFacts DEF Cursor
  <1>3. /\ Len(es) = h + (IF b THEN 1 ELSE 0) /\ es \in Seq(Units) /\ k < Len(es)
        /\ k + 1 \in 1..Len(es)
    BY <1>1, <1>2 DEF Shape
  <1>4. Upcoming(dir) = es[k + 1] /\ es[k + 1] \in Units
    BY <1>3 DEF Upcoming
  <1>5. sent'[dir] = After(sent[dir], dir)
    BY <1>1 DEF Cursor
  <1>6. /\ k + 1 < Len(es) => sent'[dir] = [ex |-> i, events |-> k + 1]
        /\ ~(k + 1 < Len(es)) => sent'[dir] = [ex |-> i + 1, events |-> 0]
    <2>1. sent[dir] \in [ex : Nat, events : Nat]
      BY DEF Cursor
    <2>2. [sent[dir] EXCEPT !.events = k + 1] = [ex |-> i, events |-> k + 1]
      BY <2>1
    <2> QED
      BY <1>5, <2>2 DEF After
  <1>7. \A d \in Dir \ {dir} : sent'[d] = sent[d]
    BY <1>1 DEF Cursor
  <1>8. \A d \in Dir \ {dir} :
           (Due(d)' <=> Due(d)) /\ Begun(d)' = Begun(d) /\ Complete(d)' = Complete(d)
    BY <1>1, <1>7 DEF Due, Heads, BodyFollows, Begun, Complete
  <1>9. Cursor'
    <2>1. sent' \in [Dir -> [ex : Nat, events : Nat]]
      BY <1>1, <1>6 DEF Cursor
    <2>2. ASSUME NEW d \in Dir
          PROVE  /\ sent'[d].ex \in 1..Len(plan) + 1
                 /\ sent'[d].events > 0 =>
                       /\ sent'[d].ex <= Len(plan)
                       /\ sent'[d].events < Len(EventsOf(sent'[d].ex, d))
      <3>1. CASE d = dir
        BY <1>1, <1>6, <3>1
      <3>2. CASE d # dir
        BY <1>7, <3>2 DEF Cursor
      <3> QED
        BY <3>1, <3>2
    <2>3. \A j, d : EventsOf(j, d)' = EventsOf(j, d)
      BY <1>1 DEF EventsOf
    <2>4. PlanType'
      BY <1>1 DEF Cursor, PlanType
    <2> QED
      BY <1>1, <2>1, <2>2, <2>3, <2>4 DEF Cursor
  <1>10. /\ Due(dir) <=> k = h /\ b
         /\ Due(dir)' <=> sent'[dir].ex <= Len(plan) /\ sent'[dir].events = Heads(sent'[dir].ex, dir)
                          /\ BodyFollows(sent'[dir].ex, dir)
    BY <1>1 DEF Due, Heads, BodyFollows
  <1>11. ~(k + 1 < Len(es)) => ~Due(dir)'
    <2>1. \A j : Heads(j, dir) # 0
      BY DEF Heads
    <2> QED
      BY <1>6, <1>10, <2>1
  <1>12. InterimHead(dir) \/ LastHead(dir) \/ BodyEvent(dir)
    <2>1. CASE k + 1 < h
      <3>1. dir = "responses" /\ plan[i].interim
        BY <1>1, <1>2, <2>1 DEF Heads
      <3>2. es[k + 1].unit = "head" /\ es[k + 1].status = 100
        BY <1>1, <1>2, <2>1 DEF Shape
      <3>3. ~Due(dir) /\ ~Due(dir)' /\ sent'[dir].ex = i
        BY <1>1, <1>2, <1>3, <1>6, <1>10, <2>1
      <3> QED
        BY <1>4, <3>1, <3>2, <3>3 DEF InterimHead
    <2>2. CASE k + 1 = h
      <3>1. es[k + 1].unit = "head" /\ es[k + 1].status = st
        <4>1. h \in 1..h /\ ~(h < h)
          BY <1>2
        <4>2. es[h].unit = "head" /\ es[h].status = st
          BY <1>2, <4>1 DEF Shape
        <4> QED
          BY <2>2, <4>2
      <3>2. ~Due(dir)
        BY <1>1, <1>2, <1>10, <2>2
      <3>3. CASE b
        <4>1. k + 1 < Len(es) /\ k + 1 \in Nat
          BY <1>1, <1>2, <1>3, <2>2, <3>3
        <4>2. sent'[dir].ex = i /\ sent'[dir].events = h
          BY <1>6, <2>2, <4>1
        <4>3. Due(dir)'
          BY <1>1, <1>10, <3>3, <4>2
        <4> QED
          BY <1>4, <2>2, <3>1, <3>2, <3>3, <4>2, <4>3 DEF LastHead
      <3>4. CASE ~b
        BY <1>1, <1>2, <1>3, <1>4, <1>6, <1>11, <2>2, <3>1, <3>2, <3>4 DEF LastHead
      <3> QED
        BY <3>3, <3>4
    <2>3. CASE k + 1 > h
      <3>1. b /\ k = h
        BY <1>1, <1>2, <1>3, <2>3
      <3>2. es[k + 1].unit = "body"
        BY <1>2, <3>1 DEF Shape
      <3> QED
        BY <1>2, <1>3, <1>4, <1>6, <1>10, <1>11, <3>1, <3>2 DEF BodyEvent
    <2> QED
      BY <1>1, <1>2, <2>1, <2>2, <2>3
  <1>13. Upcoming(dir).ex = i
    <2>1. CASE k + 1 \in 1..h
      BY <1>2, <1>4, <2>1 DEF Shape
    <2>2. CASE k + 1 \notin 1..h
      <3>1. b /\ k = h
        BY <1>1, <1>2, <1>3, <2>2
      <3> QED
        BY <1>2, <1>4, <3>1 DEF Shape
    <2> QED
      BY <2>1, <2>2
  <1> QED
    BY <1>1, <1>2, <1>4, <1>6, <1>7, <1>8, <1>9, <1>12, <1>13

-----------------------------------------------------------------------------
(* What a step may do, and types.                                           *)

(* The methods that the queue may hold.                                     *)
Methods == {plan[i].method : i \in DOMAIN plan} \cup {"other"}

StreamTypes == streams \in [Dir -> [remaining : {0, 1}, ex : Nat, off : BOOLEAN]]

(* No response starts before its request did.                               *)
Behind ==
    /\ Begun("responses") <= Begun("requests")
    /\ sent["responses"].events > 0 => sent["responses"].ex <= Begun("requests")

Types ==
    /\ Cursor /\ StreamTypes /\ Behind
    /\ conn \in 1..MaxConns
    /\ pendingMethods \in Seq(Methods)
    /\ mishaps \in Seq(Nat) /\ ToSet(mishaps) \subseteq 1..conn
    /\ exchange \in Seq(Nat \X Nat)
    /\ Len(pendingMethods) <= Begun("requests") + Len(mishaps)
    /\ HeaderLossCount \in Nat /\ HeaderLossCount <= Len(mishaps)

Control ==
    /\ main \in {"reading", "joining", "returned", "sinkClosed"}
    /\ sweeper \in {"running", "gone"}
    /\ main \in {"returned", "sinkClosed"} => sweeper = "gone"

(* The event is one of the plan.                                            *)
Planned(event) == event \in Units /\ event.ex \in 1..Len(plan)

(* What FeedAgain and FeedLate do, FeedCutHead and FeedUnderstated, and the *)
(* steps that no event is behind.                                           *)
Strange(dir, event) ==
    /\ Take(dir, event) /\ Planned(event)
    /\ mishaps' = Append(mishaps, conn)
    /\ UNCHANGED <<world, goroutines>>

Skips(dir) ==
    /\ Arrives(dir)
    /\ mishaps' = Append(mishaps, conn)
    /\ StreamTypes => StreamTypes'
    /\ HeaderLossCount' \in {HeaderLossCount, HeaderLossCount + 1}
    /\ UNCHANGED <<pendingMethods, misframed, exchange, goroutines, pairer>>

Quiet ==
    /\ UNCHANGED <<world, parser, mishaps, exchange>>
    /\ P!Expire \/ P!Sweep \/ UNCHANGED pairer

LEMMA ShapePlanned ==
    ASSUME PlanType, NEW i \in 1..Len(plan), NEW dir \in Dir
    PROVE  /\ EventsOf(i, dir) \in Seq(Units) /\ Len(EventsOf(i, dir)) \in Nat \ {0}
           /\ \A n \in 1..Len(EventsOf(i, dir)) : Planned(EventsOf(i, dir)[n])
  <1> DEFINE es == EventsOf(i, dir)
             h == Heads(i, dir)
             b == BodyFollows(i, dir)
  <1>1. \E st \in Nat : Shape(es, i, h, b, st)
    <2>1. Shape(es, i, h, b, IF dir = "requests" THEN 0 ELSE plan[i].status)
      BY EventsFacts
    <2>2. plan[i].status \in Nat
      BY EventsFacts, FinalFacts
    <2> QED
      BY <2>1, <2>2
  <1>2. h \in {1, 2} /\ b \in BOOLEAN
    BY EventsFacts
  <1>3. es \in Seq(Units) /\ Len(es) = h + (IF b THEN 1 ELSE 0)
    BY <1>1 DEF Shape
  <1>4. ASSUME NEW n \in 1..Len(es) PROVE Planned(es[n])
    <2>1. es[n] \in Units
      BY <1>3
    <2>2. CASE n \in 1..h
      BY <1>1, <2>1, <2>2 DEF Shape, Planned
    <2>3. CASE n \notin 1..h
      <3>1. b /\ n = h + 1
        BY <1>2, <1>3, <2>3
      <3> QED
        BY <1>1, <2>1, <3>1 DEF Shape, Planned
    <2> QED
      BY <2>2, <2>3
  <1> QED
    BY <1>2, <1>3, <1>4

LEMMA Relabelled ==
    ASSUME NEW event, Planned(event), NEW unit \in {event.unit, "rest"}
    PROVE  Planned([event EXCEPT !.unit = unit])
  <1>1. event \in Units /\ event.ex \in 1..Len(plan)
    BY DEF Planned
  <1>2. unit \in {"head", "body", "rest"}
    BY <1>1 DEF Units
  <1>3. [event EXCEPT !.unit = unit] \in Units /\ [event EXCEPT !.unit = unit].ex = event.ex
    BY <1>1, <1>2 DEF Units
  <1> QED
    BY <1>1, <1>3 DEF Planned

LEMMA LatestPlanned ==
    ASSUME Cursor, NEW dir \in Dir, sent[dir] # Start
    PROVE  Planned(Latest(dir))
  <1> DEFINE i == sent[dir].ex
             k == sent[dir].events
  <1>1. sent[dir] = [ex |-> i, events |-> k] /\ i \in Nat /\ k \in Nat /\ i \in 1..Len(plan) + 1
    BY DEF Cursor
  <1>2. CASE k > 0
    <2>1. i \in 1..Len(plan) /\ k < Len(EventsOf(i, dir))
      BY <1>1, <1>2 DEF Cursor
    <2>2. Len(EventsOf(i, dir)) \in Nat /\ k \in 1..Len(EventsOf(i, dir))
      BY <1>1, <1>2, <2>1, ShapePlanned DEF Cursor
    <2> QED
      BY <1>2, <2>1, <2>2, ShapePlanned DEF Latest, Cursor
  <1>3. CASE ~(k > 0)
    <2>1. k = 0 /\ i # 1
      BY <1>1, <1>3 DEF Start
    <2>2. i - 1 \in 1..Len(plan) /\ Len(plan) \in Nat
      BY <1>1, <2>1 DEF Cursor, PlanType
    <2>3. Planned(EventsOf(i - 1, dir)[Len(EventsOf(i - 1, dir))])
      BY <2>2, ShapePlanned DEF Cursor
    <2> QED
      BY <1>3, <2>3 DEF Latest, Last
  <1> QED
    BY <1>2, <1>3

LEMMA StepKinds ==
    ASSUME Cursor, [Next]_vars
    PROVE  \/ \E dir \in Dir : Feed(dir)
           \/ \E dir \in Dir, event \in Units : Strange(dir, event)
           \/ \E dir \in Dir : Skips(dir)
           \/ FeedClose
           \/ Quiet
  <1>1. ASSUME NEW dir \in Dir, FeedCutHead(dir) PROVE Skips(dir)
    <2>1. StreamTypes => StreamTypes'
      BY <1>1 DEF FeedCutHead, StreamTypes, NewStream
    <2> QED
      BY <1>1, <2>1 DEF FeedCutHead, Skips, Mishap
  <1>2. ASSUME NEW dir \in Dir, FeedUnderstated(dir) PROVE Skips(dir)
    <2>1. StreamTypes => StreamTypes'
      BY <1>2 DEF FeedUnderstated, StreamTypes
    <2> QED
      BY <1>2, <2>1 DEF FeedUnderstated, Skips, Mishap
  <1>3. ASSUME NEW dir \in Dir, FeedAgain(dir) PROVE \E event \in Units : Strange(dir, event)
    <2>1. PICK unit \in {Latest(dir).unit, "rest"} : Take(dir, [Latest(dir) EXCEPT !.unit = unit])
      BY <1>3 DEF FeedAgain
    <2>2. Planned([Latest(dir) EXCEPT !.unit = unit])
      BY <1>3, LatestPlanned, Relabelled DEF FeedAgain
    <2>3. Strange(dir, [Latest(dir) EXCEPT !.unit = unit])
      BY <1>3, <2>1, <2>2 DEF FeedAgain, Strange, Mishap
    <2> QED
      BY <2>2, <2>3 DEF Planned
  <1>4. ASSUME NEW dir \in Dir, FeedLate(dir) PROVE \E event \in Units : Strange(dir, event)
    <2>1. PICK i \in DOMAIN plan : \E n \in DOMAIN EventsOf(i, dir) : Take(dir, EventsOf(i, dir)[n])
      BY <1>4 DEF FeedLate
    <2>2. PICK n \in DOMAIN EventsOf(i, dir) : Take(dir, EventsOf(i, dir)[n])
      BY <2>1
    <2>3. i \in 1..Len(plan) /\ PlanType
      BY DEF Cursor, PlanType
    <2>4. n \in 1..Len(EventsOf(i, dir))
      BY <2>3, ShapePlanned
    <2>5. Planned(EventsOf(i, dir)[n])
      BY <2>3, <2>4, ShapePlanned
    <2>6. Strange(dir, EventsOf(i, dir)[n])
      BY <1>4, <2>2, <2>5 DEF FeedLate, Strange, Mishap
    <2> QED
      BY <2>5, <2>6 DEF Planned
  <1>5. ASSUME \/ Expire \/ Sweep \/ CloseReader \/ ReadFails \/ SweeperReturns \/ Return \/ CloseSink
               \/ UNCHANGED vars
        PROVE  Quiet
    BY <1>5 DEF Expire, Sweep, CloseReader, ReadFails, SweeperReturns, Return, CloseSink, Quiet, vars
  <1> QED
    BY <1>1, <1>2, <1>3, <1>4, <1>5 DEF Next

(* What an event that reaches the parser changes: the stream it is of, and  *)
(* whatever it completes is pushed.                                         *)
LEMMA TakeFacts ==
    ASSUME Types, NEW dir \in Dir, NEW event, Planned(event), Take(dir, event)
    PROVE  /\ StreamTypes' /\ HeaderLossCount' = HeaderLossCount
           /\ pendingMethods' \in Seq(Methods)
           /\ Len(pendingMethods') <= Len(pendingMethods) +
                 (IF dir = "requests" /\ event.unit = "head" THEN 1 ELSE 0)
           /\ misframed \subseteq misframed' /\ misframed' \subseteq misframed \cup {conn}
           /\ EmitIfComplete(dir) \/ UNCHANGED <<exchange, pairer>>
  <1>0. /\ streams[dir] \in [remaining : {0, 1}, ex : Nat, off : BOOLEAN]
        /\ pendingMethods \in Seq(Methods) /\ Len(pendingMethods) \in Nat
        /\ event \in Units /\ event.ex \in Nat
    BY DEF Types, StreamTypes, Planned, Units
  <1>1. CASE streams[dir].remaining > 0 /\ Drain(dir, event) /\ EmitIfComplete(dir)
    <2>1. PICK r \in {0, 1} : streams' = [streams EXCEPT ![dir].remaining = r]
      BY <1>1 DEF Drain
    <2>2. StreamTypes'
      BY <2>1 DEF Types, StreamTypes
    <2> QED
      BY <1>0, <1>1, <2>2 DEF Drain, Take
  <1>2. CASE streams[dir].remaining = 0 /\ event.unit = "head" /\ FeedHead(dir, event)
             /\ EmitIfComplete(dir)
    <2>1. DeclaredLength(dir, event) \in {0, 1}
      BY DEF DeclaredLength
    <2>2. StreamTypes'
      BY <1>0, <1>2, <2>1 DEF FeedHead, Types, StreamTypes
    <2>3. CASE dir = "requests"
      <3>1. plan[event.ex].method \in Methods /\ "other" \in Methods
        BY DEF Planned, Methods, Types, Cursor, PlanType
      <3>2. PICK m \in Methods : pendingMethods' = Append(pendingMethods, m)
        <4>1. pendingMethods' = Append(pendingMethods,
                                       IF streams[dir].off THEN "other" ELSE plan[event.ex].method)
          BY <1>2, <2>3 DEF FeedHead
        <4>2. (IF streams[dir].off THEN "other" ELSE plan[event.ex].method) \in Methods
          BY <3>1, Zenon
        <4> QED
          BY <3>1, <4>1, <4>2
      <3> QED
        BY <1>0, <1>2, <2>2, <2>3, <3>2 DEF FeedHead, Take
    <2>4. CASE dir # "requests"
      <3>1. \/ pendingMethods' = pendingMethods
            \/ pendingMethods # <<>> /\ pendingMethods' = Tail(pendingMethods)
        <4>1. pendingMethods' = IF pendingMethods = <<>> THEN <<>>
                                ELSE IF event.status >= 200 THEN Tail(pendingMethods)
                                ELSE pendingMethods
          BY <1>2, <2>4 DEF FeedHead, MethodQueueAfter
        <4> QED
          BY <4>1
      <3>2. pendingMethods' \in Seq(Methods) /\ Len(pendingMethods') <= Len(pendingMethods)
        <4>1. CASE pendingMethods' = pendingMethods
          BY <1>0, <4>1
        <4>2. CASE pendingMethods # <<>> /\ pendingMethods' = Tail(pendingMethods)
          BY <1>0, <4>2
        <4> QED
          BY <3>1, <4>1, <4>2
      <3> QED
        BY <1>0, <1>2, <2>2, <2>4, <3>2 DEF FeedHead, Take
    <2> QED
      BY <2>3, <2>4
  <1>3. CASE streams[dir].remaining = 0 /\ Keep(dir) /\ UNCHANGED <<exchange, pairer>>
    <2>1. streams' = [streams EXCEPT ![dir].off = TRUE]
      BY <1>3 DEF Keep
    <2>2. StreamTypes'
      BY <2>1 DEF Types, StreamTypes
    <2> QED
      BY <1>0, <1>3, <2>2 DEF Keep, Take
  <1> QED
    BY <1>1, <1>2, <1>3 DEF Take

LEMMA BegunTypes ==
    ASSUME Cursor, NEW dir \in Dir
    PROVE  /\ Complete(dir) \in Nat /\ Begun(dir) \in Nat /\ Len(plan) \in Nat
           /\ Complete(dir) <= Begun(dir) /\ Begun(dir) <= Complete(dir) + 1
           /\ Begun(dir) <= Len(plan)
           /\ Due(dir) => Begun(dir) = sent[dir].ex
           /\ ~Due(dir) => Begun(dir) = sent[dir].ex - 1
  <1>1. sent[dir].ex \in 1..Len(plan) + 1 /\ Len(plan) \in Nat
    BY DEF Cursor, PlanType
  <1>2. CASE Due(dir)
    BY <1>1, <1>2 DEF Begun, Complete, Due
  <1>3. CASE ~Due(dir)
    BY <1>1, <1>3 DEF Begun, Complete
  <1> QED
    BY <1>2, <1>3

(* A message is begun by its last head and by nothing else.                 *)
LEMMA BegunMoves ==
    ASSUME Cursor, NEW dir \in Dir, Arrives(dir)
    PROVE  /\ Begun(dir)' = IF LastHead(dir) THEN Begun(dir) + 1 ELSE Begun(dir)
           /\ LastHead(dir) => Begun(dir) = sent[dir].ex - 1
           /\ (dir = "requests" /\ Upcoming(dir).unit = "head") => LastHead(dir)
  <1>1. /\ sent[dir].ex \in 1..Len(plan) /\ Len(plan) \in Nat
        /\ InterimHead(dir) \/ LastHead(dir) \/ BodyEvent(dir)
        /\ Cursor' /\ plan' = plan
    <2>1. Len(plan) \in Nat /\ plan' = plan
      BY DEF Arrives, Cursor, PlanType
    <2> QED
      BY <2>1, Advance
  <1>2. /\ Due(dir)' => Begun(dir)' = sent'[dir].ex
        /\ ~Due(dir)' => Begun(dir)' = sent'[dir].ex - 1
    BY DEF Begun, Complete
  <1>3. /\ Due(dir) => Begun(dir) = sent[dir].ex
        /\ ~Due(dir) => Begun(dir) = sent[dir].ex - 1
    BY DEF Begun, Complete
  <1>4. CASE InterimHead(dir)
    <2>1. ~LastHead(dir)
      <3>1. dir = "responses" /\ Upcoming(dir).status = 100
        BY <1>4 DEF InterimHead
      <3>2. plan[sent[dir].ex].status # 100
        <4>1. plan[sent[dir].ex] \in Exchange
          BY Advance
        <4> QED
          BY <4>1, FinalFacts
      <3> QED
        BY <3>1, <3>2 DEF LastHead
    <2> QED
      BY <1>2, <1>3, <1>4, <2>1 DEF InterimHead
  <1>5. CASE LastHead(dir)
    BY <1>1, <1>2, <1>3, <1>5 DEF LastHead
  <1>6. CASE BodyEvent(dir)
    <2>1. ~LastHead(dir)
      BY <1>6 DEF BodyEvent, LastHead
    <2> QED
      BY <1>1, <1>2, <1>3, <1>6, <2>1 DEF BodyEvent
  <1> QED
    BY <1>1, <1>4, <1>5, <1>6

(* The request of a response that is under way was begun.                   *)
LEMMA Awaited ==
    ASSUME Cursor, Arrives("responses")
    PROVE  sent["responses"].ex <= Begun("requests")
  <1> DEFINE i == sent["responses"].ex
             r == sent["requests"]
  <1>0. "requests" \in Dir /\ "responses" \in Dir
    BY DEF Dir
  <1>1. /\ Started(i) /\ i <= Len(plan) /\ i \in Nat /\ r \in [ex : Nat, events : Nat]
        /\ Complete("requests") <= Begun("requests")
        /\ Begun("requests") \in Nat /\ Len(plan) \in Nat
    BY <1>0, BegunTypes DEF Arrives, Cursor
  <1>2. CASE i < r.ex
    BY <1>1, <1>2 DEF Complete
  <1>3. CASE i = r.ex /\ r.events > 0
    <2>1. r.ex \in 1..Len(plan) /\ r.events < Len(EventsOf(r.ex, "requests"))
      BY <1>0, <1>1, <1>3 DEF Cursor
    <2>2. /\ Len(EventsOf(r.ex, "requests")) = 1 + (IF BodyFollows(r.ex, "requests") THEN 1 ELSE 0)
          /\ Heads(r.ex, "requests") = 1 /\ BodyFollows(r.ex, "requests") \in BOOLEAN
      BY <1>0, <2>1, EventsFacts DEF Cursor, Shape, Heads
    <2>3. r.events = 1 /\ BodyFollows(r.ex, "requests")
      BY <1>1, <1>3, <2>1, <2>2
    <2>4. Due("requests")
      BY <2>1, <2>2, <2>3 DEF Due
    <2> QED
      BY <1>0, <1>3, <2>4, BegunTypes
  <1> QED
    BY <1>1, <1>2, <1>3 DEF Started

(* Arithmetic of the bound on the queue of methods.                         *)
LEMMA BoundGrows ==
    ASSUME NEW a \in Nat, NEW b \in Nat, NEW c \in Nat, NEW d \in {0, 1}, NEW e \in {0, 1},
           NEW a1 \in Nat, NEW b1 \in Nat, NEW c1 \in Nat,
           a <= b + c, a1 <= a + d, b1 = b + d \/ c1 = c + d, b1 >= b, c1 >= c
    PROVE  a1 <= b1 + c1
OBVIOUS

LEMMA BehindStep ==
    ASSUME Types, NEW dir \in Dir, Arrives(dir) PROVE Behind'
  <1>0. /\ Cursor /\ Behind /\ Cursor' /\ "requests" \in Dir /\ "responses" \in Dir
        /\ Begun("requests") \in Nat /\ Begun("responses") \in Nat
        /\ sent["responses"].ex \in Nat /\ sent["responses"].events \in Nat
    BY Advance, BegunTypes DEF Types, Dir, Cursor
  <1>1. CASE dir = "requests"
    <2>1. /\ sent'["responses"] = sent["responses"]
          /\ Begun("responses")' = Begun("responses")
      BY <1>0, <1>1, Advance
    <2>2. Begun("requests")' = Begun("requests") \/ Begun("requests")' = Begun("requests") + 1
      BY <1>0, <1>1, BegunMoves
    <2> QED
      BY <1>0, <2>1, <2>2 DEF Behind
  <1>2. CASE dir = "responses"
    <2>1. Begun("requests")' = Begun("requests") /\ sent["responses"].ex <= Begun("requests")
      BY <1>0, <1>2, Advance, Awaited
    <2>2. sent'["responses"].events > 0 => sent'["responses"].ex = sent["responses"].ex
      BY <1>0, <1>2, Advance
    <2>3. Begun("responses")' <= Begun("requests")
      <3>1. CASE LastHead(dir)
        BY <1>0, <1>2, <2>1, <3>1, BegunMoves
      <3>2. CASE ~LastHead(dir)
        BY <1>0, <1>2, <3>2, BegunMoves DEF Behind
      <3> QED
        BY <3>1, <3>2
    <2> QED
      BY <2>1, <2>2, <2>3 DEF Behind
  <1> QED
    BY <1>1, <1>2 DEF Dir

LEMMA ToSetAppend ==
    ASSUME NEW S, NEW s \in Seq(S), NEW e \in S
    PROVE  ToSet(Append(s, e)) = ToSet(s) \cup {e}
  <1>1. /\ DOMAIN s = 1..Len(s) /\ Len(s) \in Nat
        /\ DOMAIN Append(s, e) = 1..Len(s) + 1
        /\ \A n \in 1..Len(s) : Append(s, e)[n] = s[n]
        /\ Append(s, e)[Len(s) + 1] = e
    OBVIOUS
  <1>2. ASSUME NEW x \in ToSet(Append(s, e)) PROVE x \in ToSet(s) \cup {e}
    <2>1. PICK n \in 1..Len(s) + 1 : Append(s, e)[n] = x
      BY <1>1 DEF ToSet
    <2>2. n \in 1..Len(s) \/ n = Len(s) + 1
      BY <1>1
    <2> QED
      BY <1>1, <2>1, <2>2 DEF ToSet
  <1>3. ASSUME NEW x \in ToSet(s) \cup {e} PROVE x \in ToSet(Append(s, e))
    <2>1. CASE x = e
      <3>1. Len(s) + 1 \in 1..Len(s) + 1
        BY <1>1
      <3> QED
        BY <1>1, <2>1, <3>1 DEF ToSet
    <2>2. CASE x \in ToSet(s)
      <3>1. PICK n \in 1..Len(s) : s[n] = x
        BY <1>1, <2>2 DEF ToSet
      <3>2. n \in 1..Len(s) + 1
        BY <1>1
      <3> QED
        BY <1>1, <3>1, <3>2 DEF ToSet
    <2> QED
      BY <1>3, <2>1, <2>2
  <1> QED
    BY <1>2, <1>3

(* A mishap counts against the connection it falls into.                    *)
LEMMA MishapFacts ==
    ASSUME Types, mishaps' = Append(mishaps, conn)
    PROVE  /\ mishaps' \in Seq(Nat) /\ Len(mishaps') = Len(mishaps) + 1 /\ Len(mishaps) \in Nat
           /\ ToSet(mishaps') = ToSet(mishaps) \cup {conn}
           /\ ToSet(mishaps') \subseteq 1..conn
  <1>1. mishaps \in Seq(Nat) /\ conn \in Nat /\ conn \in 1..conn
    BY Constants DEF Constants, CaptureAssumption, Types
  <1>2. /\ mishaps' \in Seq(Nat) /\ Len(mishaps') = Len(mishaps) + 1 /\ Len(mishaps) \in Nat
    BY <1>1, AppendFacts
  <1>3. ToSet(mishaps') = ToSet(mishaps) \cup {conn}
    BY <1>1, ToSetAppend
  <1>4. ToSet(mishaps) \subseteq 1..conn
    BY DEF Types
  <1> QED
    BY <1>1, <1>2, <1>3, <1>4

(* What a completed message adds to the history.                            *)
LEMMA ExchangeTypes ==
    ASSUME Types, NEW dir \in Dir, StreamTypes',
           EmitIfComplete(dir) \/ UNCHANGED <<exchange, pairer>>
    PROVE  exchange' \in Seq(Nat \X Nat)
  <1>1. conn \in Nat /\ streams'[dir].ex \in Nat /\ exchange \in Seq(Nat \X Nat)
    BY Constants DEF Constants, CaptureAssumption, Types, StreamTypes
  <1>2. exchange' = Append(exchange, <<conn, streams'[dir].ex>>) \/ exchange' = exchange
    BY DEF EmitIfComplete
  <1>3. <<conn, streams'[dir].ex>> \in Nat \X Nat
    BY <1>1
  <1>4. \A e \in Nat \X Nat : Append(exchange, e) \in Seq(Nat \X Nat)
    <2>1. ASSUME NEW S, NEW s \in Seq(S), NEW e \in S PROVE Append(s, e) \in Seq(S)
      OBVIOUS
    <2> QED
      BY <1>1, <2>1
  <1> QED
    BY <1>1, <1>2, <1>3, <1>4

LEMMA TypesStep == Types /\ [Next]_vars => Types'
  <1> SUFFICES ASSUME Types, [Next]_vars PROVE Types'
    OBVIOUS
  <1>0. /\ Cursor /\ StreamTypes /\ Behind /\ conn \in 1..MaxConns /\ MaxConns \in Nat
        /\ pendingMethods \in Seq(Methods) /\ Len(pendingMethods) \in Nat
        /\ mishaps \in Seq(Nat) /\ Len(mishaps) \in Nat
        /\ Begun("requests") \in Nat /\ "requests" \in Dir /\ "responses" \in Dir
        /\ HeaderLossCount \in Nat
    <2>1. "requests" \in Dir /\ "responses" \in Dir /\ Cursor
      BY DEF Dir, Types
    <2> QED
      BY <2>1, BegunTypes, Constants DEF Constants, CaptureAssumption, Types
  <1>1. ASSUME UNCHANGED world PROVE /\ Cursor' /\ Behind' /\ Methods' = Methods
                                     /\ Begun("requests")' = Begun("requests")
    <2>1. \A i, d : EventsOf(i, d)' = EventsOf(i, d)
      BY <1>1 DEF world, EventsOf
    <2>2. Cursor'
      BY <1>0, <1>1, <2>1 DEF world, Cursor, PlanType
    <2>3. \A d : Begun(d)' = Begun(d)
      BY <1>1 DEF world, Begun, Complete, Due, Heads, BodyFollows
    <2> QED
      BY <1>0, <1>1, <2>2, <2>3 DEF world, Behind, Methods
  <1>2. ASSUME NEW dir \in Dir, Arrives(dir)
        PROVE  /\ Cursor' /\ Behind' /\ Methods' = Methods /\ conn' = conn
               /\ Planned(Upcoming(dir))
               /\ Begun("requests")' \in Nat /\ Begun("requests") <= Begun("requests")'
               /\ (dir = "requests" /\ Upcoming(dir).unit = "head") =>
                     Begun("requests")' = Begun("requests") + 1
    <2>1. Cursor' /\ Behind' /\ Planned(Upcoming(dir))
      BY <1>0, <1>2, Advance, BehindStep DEF Planned
    <2>2. Methods' = Methods /\ conn' = conn
      BY <1>2 DEF Arrives, Methods
    <2>3. CASE dir = "requests"
      BY <1>0, <1>2, <2>1, <2>2, <2>3, BegunMoves
    <2>4. CASE dir # "requests"
      <3>1. Begun("requests")' = Begun("requests")
        BY <1>0, <1>2, <2>4, Advance
      <3> QED
        BY <1>0, <2>1, <2>2, <2>4, <3>1
    <2> QED
      BY <2>3, <2>4
  <1>3. ASSUME NEW dir \in Dir, Feed(dir) PROVE Types'
    <2>1. Arrives(dir) /\ Take(dir, Upcoming(dir)) /\ UNCHANGED mishaps
      BY <1>3 DEF Feed
    <2>2. /\ StreamTypes' /\ HeaderLossCount' = HeaderLossCount
          /\ pendingMethods' \in Seq(Methods)
          /\ Len(pendingMethods') <= Len(pendingMethods) +
                (IF dir = "requests" /\ Upcoming(dir).unit = "head" THEN 1 ELSE 0)
          /\ EmitIfComplete(dir) \/ UNCHANGED <<exchange, pairer>>
      BY <1>2, <2>1, TakeFacts
    <2>3. Len(pendingMethods') <= Begun("requests")' + Len(mishaps)
      <3>1. Len(pendingMethods') \in Nat /\ Len(pendingMethods) <= Begun("requests") + Len(mishaps)
        BY <2>2 DEF Types
      <3>2. CASE dir = "requests" /\ Upcoming(dir).unit = "head"
        BY <1>0, <1>2, <2>1, <2>2, <3>1, <3>2, BoundGrows
      <3>3. CASE ~(dir = "requests" /\ Upcoming(dir).unit = "head")
        BY <1>0, <1>2, <2>1, <2>2, <3>1, <3>3, BoundGrows
      <3> QED
        BY <3>2, <3>3
    <2>4. exchange' \in Seq(Nat \X Nat)
      BY <2>2, ExchangeTypes
    <2> QED
      BY <1>2, <2>1, <2>2, <2>3, <2>4 DEF Types
  <1>4. ASSUME NEW dir \in Dir, NEW event, Strange(dir, event) PROVE Types'
    <2>1. /\ Take(dir, event) /\ Planned(event) /\ UNCHANGED world
          /\ mishaps' = Append(mishaps, conn) /\ conn' = conn
      BY <1>4 DEF Strange, world
    <2>2. /\ StreamTypes' /\ HeaderLossCount' = HeaderLossCount
          /\ pendingMethods' \in Seq(Methods)
          /\ Len(pendingMethods') <= Len(pendingMethods) + 1
          /\ EmitIfComplete(dir) \/ UNCHANGED <<exchange, pairer>>
      <3>1. /\ StreamTypes' /\ HeaderLossCount' = HeaderLossCount
            /\ pendingMethods' \in Seq(Methods)
            /\ Len(pendingMethods') <= Len(pendingMethods) +
                  (IF dir = "requests" /\ event.unit = "head" THEN 1 ELSE 0)
            /\ EmitIfComplete(dir) \/ UNCHANGED <<exchange, pairer>>
        BY <2>1, TakeFacts
      <3>2. Len(pendingMethods') \in Nat
        BY <3>1
      <3> QED
        BY <1>0, <3>1, <3>2
    <2>3. /\ Len(mishaps') = Len(mishaps) + 1 /\ ToSet(mishaps') \subseteq 1..conn
          /\ mishaps' \in Seq(Nat)
      BY <2>1, MishapFacts
    <2>4. Len(pendingMethods') <= Begun("requests") + Len(mishaps')
      <3>1. Len(pendingMethods') \in Nat /\ Len(pendingMethods) <= Begun("requests") + Len(mishaps)
        BY <2>2 DEF Types
      <3> QED
        BY <1>0, <2>2, <2>3, <3>1
    <2>5. exchange' \in Seq(Nat \X Nat)
      BY <2>2, ExchangeTypes
    <2>6. HeaderLossCount' \in Nat /\ HeaderLossCount' <= Len(mishaps')
      BY <1>0, <2>2, <2>3 DEF Types
    <2> QED
      BY <1>0, <1>1, <2>1, <2>2, <2>3, <2>4, <2>5, <2>6 DEF Types
  <1>5. ASSUME NEW dir \in Dir, Skips(dir) PROVE Types'
    <2>1. /\ Arrives(dir) /\ mishaps' = Append(mishaps, conn) /\ StreamTypes'
          /\ HeaderLossCount' \in {HeaderLossCount, HeaderLossCount + 1}
          /\ UNCHANGED <<pendingMethods, exchange>>
      BY <1>0, <1>5 DEF Skips
    <2>2. /\ Len(mishaps') = Len(mishaps) + 1 /\ ToSet(mishaps') \subseteq 1..conn
          /\ mishaps' \in Seq(Nat)
      BY <2>1, MishapFacts
    <2>3. Len(pendingMethods) <= Begun("requests")' + Len(mishaps')
      <3>1. /\ Len(pendingMethods) <= Begun("requests") + Len(mishaps)
            /\ Begun("requests")' \in Nat /\ Begun("requests") <= Begun("requests")'
        BY <1>2, <2>1 DEF Types
      <3> QED
        BY <1>0, <2>2, <3>1, BoundGrows
    <2>4. HeaderLossCount' \in Nat /\ HeaderLossCount' <= Len(mishaps')
      <3>1. HeaderLossCount <= Len(mishaps)
        BY DEF Types
      <3> QED
        BY <1>0, <2>1, <2>2, <3>1
    <2> QED
      BY <1>0, <1>2, <2>1, <2>2, <2>3, <2>4 DEF Types
  <1>6. CASE FeedClose
    <2>1. /\ conn' = conn + 1 /\ conn < MaxConns /\ sent' = [dir \in Dir |-> Start]
          /\ streams' = [dir \in Dir |-> NewStream] /\ pendingMethods' = <<>>
          /\ UNCHANGED <<plan, HeaderLossCount, mishaps, exchange>>
      BY <1>6 DEF FeedClose, ParserClose
    <2>2. \A d \in Dir : sent'[d].ex = 1 /\ sent'[d].events = 0 /\ ~Due(d)' /\ Begun(d)' = 0
      <3> SUFFICES ASSUME NEW d \in Dir
                   PROVE  sent'[d].ex = 1 /\ sent'[d].events = 0 /\ ~Due(d)' /\ Begun(d)' = 0
        OBVIOUS
      <3>1. sent'[d].ex = 1 /\ sent'[d].events = 0
        BY <2>1 DEF Start
      <3>2. ~Due(d)'
        <4>1. Heads(1, d)' # 0
          BY DEF Heads
        <4> QED
          BY <3>1, <4>1 DEF Due, Heads
      <3> QED
        BY <3>1, <3>2 DEF Begun, Complete
    <2>3. Cursor'
      BY <1>0, <2>1, <2>2 DEF Cursor, PlanType, Start
    <2>4. StreamTypes' /\ Behind'
      BY <1>0, <2>1, <2>2 DEF StreamTypes, NewStream, Behind
    <2>5. /\ conn' \in 1..MaxConns /\ pendingMethods' \in Seq(Methods') /\ Len(pendingMethods') = 0
          /\ \A c \in 1..conn : c \in 1..conn'
      BY <1>0, <2>1
    <2> QED
      BY <1>0, <2>1, <2>2, <2>3, <2>4, <2>5 DEF Types
  <1>7. CASE Quiet
    BY <1>0, <1>1, <1>7 DEF Quiet, parser, Types, world, StreamTypes
  <1> QED
    BY <1>0, <1>3, <1>4, <1>5, <1>6, <1>7, StepKinds

LEMMA TypesInvariant == Spec => []Types
  <1>1. Init => Types
    <2> SUFFICES ASSUME Init PROVE Types
      OBVIOUS
    <2>1. /\ plan \in Seq(Exchange) /\ conn = 1 /\ sent = [dir \in Dir |-> Start]
          /\ streams = [dir \in Dir |-> NewStream] /\ pendingMethods = <<>>
          /\ HeaderLossCount = 0 /\ mishaps = <<>> /\ exchange = <<>> /\ MaxConns \in Nat \ {0}
      BY Constants DEF Constants, CaptureAssumption, Init
    <2>2. \A d \in Dir : sent[d].ex = 1 /\ sent[d].events = 0 /\ ~Due(d) /\ Begun(d) = 0
      BY <2>1 DEF Start, Due, Heads, Begun, Complete
    <2>3. Cursor /\ StreamTypes
      BY <2>1, <2>2 DEF Cursor, PlanType, Start, StreamTypes, NewStream
    <2>4. ToSet(mishaps) = {}
      BY <2>1 DEF ToSet
    <2> QED
      BY <2>1, <2>2, <2>3, <2>4 DEF Types, Behind, Dir
  <1> QED
    BY <1>1, TypesStep, PTL DEF Spec

-----------------------------------------------------------------------------
(* The end of the capture.                                                  *)

LEMMA ControlStep == Control /\ [Next]_vars => Control'
  <1> SUFFICES ASSUME Control, [Next]_vars PROVE Control'
    OBVIOUS
  <1>1. ASSUME NEW dir \in Dir,
               Feed(dir) \/ FeedCutHead(dir) \/ FeedAgain(dir) \/ FeedUnderstated(dir) \/ FeedLate(dir)
        PROVE  Control'
    BY <1>1 DEF Feed, FeedCutHead, FeedAgain, FeedUnderstated, FeedLate, Mishap, goroutines, Control
  <1>2. CASE FeedClose \/ Expire \/ Sweep \/ UNCHANGED vars
    BY <1>2 DEF FeedClose, Expire, Sweep, goroutines, vars, Control
  <1>3. CASE CloseReader \/ ReadFails \/ SweeperReturns \/ Return \/ CloseSink
    BY <1>3 DEF CloseReader, ReadFails, SweeperReturns, Return, CloseSink, Control
  <1> QED
    BY <1>1, <1>2, <1>3 DEF Next

LEMMA ControlInvariant == Spec => []Control
  <1>1. Init => Control
    BY DEF Init, Control
  <1> QED
    BY <1>1, ControlStep, PTL DEF Spec

(* Nothing is reported once the sink is closed: the reader has left its     *)
(* loop, and it waited for the sweeper before it returned.                  *)
THEOREM NothingAfterCloseHolds == Spec => NothingAfterClose
  <1>1. Control /\ [Next]_vars =>
           [main = "sinkClosed" => UNCHANGED <<paired, closed, timedOut>>]_vars
    <2> SUFFICES ASSUME Control, Next, main = "sinkClosed"
                 PROVE  UNCHANGED <<paired, closed, timedOut>>
      OBVIOUS
    <2>1. sweeper = "gone"
      BY DEF Control
    <2>2. ASSUME NEW dir \in Dir
          PROVE  ~(\/ Feed(dir) \/ FeedCutHead(dir) \/ FeedAgain(dir) \/ FeedUnderstated(dir)
                   \/ FeedLate(dir))
      BY DEF Feed, FeedCutHead, FeedAgain, FeedUnderstated, FeedLate, Arrives
    <2>3. ~FeedClose /\ ~Sweep
      BY <2>1 DEF FeedClose, Sweep
    <2>4. CASE Expire
      BY <2>4 DEF Expire, P!Expire
    <2>5. CASE CloseReader \/ ReadFails \/ SweeperReturns \/ Return \/ CloseSink
      BY <2>5 DEF CloseReader, ReadFails, SweeperReturns, Return, CloseSink, pairer
    <2> QED
      BY <2>2, <2>3, <2>4, <2>5 DEF Next
  <1> QED
    BY <1>1, ControlInvariant, PTL DEF Spec, NothingAfterClose

-----------------------------------------------------------------------------
(* Framing.  On a connection without a mishap the parser is where the plan  *)
(* is: a body is due exactly after the last head of a message that has one, *)
(* and the queue holds the methods of the requests that were begun and not  *)
(* answered, in order.                                                      *)

Clean == conn \notin ToSet(mishaps)

Framed ==
    Clean =>
        /\ \A dir \in Dir :
              /\ ~streams[dir].off
              /\ streams[dir].remaining = IF Due(dir) THEN 1 ELSE 0
              /\ Due(dir) => streams[dir].ex = sent[dir].ex
        /\ Begun("responses") + Len(pendingMethods) = Begun("requests")
        /\ \A j \in 1..Len(pendingMethods) :
              pendingMethods[j] = plan[Begun("responses") + j].method

(* The message that an event completes is pushed, and recorded as one of    *)
(* exchange i.                                                              *)
Emits(dir, i) ==
    /\ P!Push(Origin)
    /\ log'[Len(log')].isRequest = (dir = "requests")
    /\ exchange' = Append(exchange, <<conn, i>>)

(* The same for one direction.                                              *)
InPlace(dir) ==
    /\ ~streams[dir].off
    /\ streams[dir].remaining = IF Due(dir) THEN 1 ELSE 0
    /\ Due(dir) => streams[dir].ex = sent[dir].ex

LEMMA TailIndex ==
    ASSUME NEW S, NEW s \in Seq(S), s # <<>>
    PROVE  /\ Tail(s) \in Seq(S) /\ Len(Tail(s)) \in Nat /\ Len(Tail(s)) = Len(s) - 1
           /\ \A j \in 1..Len(Tail(s)) : Tail(s)[j] = s[j + 1] /\ j + 1 \in 1..Len(s)
  <1>1. Tail(s) \in Seq(S) /\ Len(Tail(s)) = Len(s) - 1 /\ Len(s) \in Nat \ {0}
    OBVIOUS
  <1>2. \A j \in 1..Len(Tail(s)) : Tail(s)[j] = s[j + 1]
    BY <1>1
  <1> QED
    BY <1>1, <1>2

(* One event of a connection without a mishap.                              *)
LEMMA CleanFeed ==
    ASSUME Types, Framed, Clean, NEW dir \in Dir, Arrives(dir), Take(dir, Upcoming(dir))
    PROVE  /\ InPlace(dir)' /\ \A d \in Dir \ {dir} : streams'[d] = streams[d]
           /\ misframed' = misframed
           /\ IF Due(dir)' THEN UNCHANGED <<exchange, pairer>> ELSE Emits(dir, sent[dir].ex)
           /\ pendingMethods' =
                 IF LastHead(dir) THEN IF dir = "requests"
                                       THEN Append(pendingMethods, plan[sent[dir].ex].method)
                                       ELSE Tail(pendingMethods)
                                  ELSE pendingMethods
           /\ (LastHead(dir) /\ dir = "responses") => pendingMethods # <<>>
  <1> DEFINE event == Upcoming(dir)
             i == sent[dir].ex
  <1>0. /\ Cursor /\ Cursor' /\ i \in 1..Len(plan) /\ plan[i] \in Exchange
        /\ event \in Units /\ event.ex = i /\ Len(plan) \in Nat /\ plan' = plan
        /\ InterimHead(dir) \/ LastHead(dir) \/ BodyEvent(dir)
    <2>1. Cursor /\ Len(plan) \in Nat /\ plan' = plan
      BY DEF Types, Cursor, PlanType, Arrives
    <2> QED
      BY <2>1, Advance
  <1>1. /\ streams \in [Dir -> [remaining : {0, 1}, ex : Nat, off : BOOLEAN]]
        /\ streams[dir].off = FALSE
        /\ streams[dir].remaining = IF Due(dir) THEN 1 ELSE 0
        /\ Due(dir) => streams[dir].ex = i
    BY DEF Types, StreamTypes, Framed
  <1>2. /\ EmitIfComplete(dir) => IF streams'[dir].remaining = 0 THEN Emits(dir, streams'[dir].ex)
                                  ELSE UNCHANGED <<exchange, pairer>>
    BY DEF EmitIfComplete, Emits
  <1>3. CASE BodyEvent(dir)
    <2>1. Drain(dir, event) /\ EmitIfComplete(dir) /\ event.unit = "body" /\ ~Due(dir)'
      <3>1. streams[dir].remaining = 1 /\ event.unit = "body" /\ ~Due(dir)'
        BY <1>1, <1>3 DEF BodyEvent
      <3> QED
        BY <3>1 DEF Take
    <2>2. streams' = [streams EXCEPT ![dir].remaining = 0]
      BY <1>1, <2>1 DEF Drain
    <2>3. /\ streams'[dir].remaining = 0 /\ streams'[dir].off = FALSE /\ streams'[dir].ex = i
          /\ \A d \in Dir \ {dir} : streams'[d] = streams[d]
      BY <1>1, <1>3, <2>2 DEF BodyEvent
    <2>4. misframed' = misframed /\ pendingMethods' = pendingMethods
      BY <2>1 DEF Drain
    <2>5. ~LastHead(dir)
      BY <2>1 DEF LastHead
    <2>6. InPlace(dir)'
      BY <2>1, <2>3 DEF InPlace
    <2> QED
      BY <1>2, <2>1, <2>3, <2>4, <2>5, <2>6
  <1>4. ASSUME ~Due(dir), event.unit = "head"
        PROVE  /\ FeedHead(dir, event) /\ EmitIfComplete(dir)
               /\ streams'[dir] = [remaining |-> DeclaredLength(dir, event), ex |-> i, off |-> FALSE]
               /\ \A d \in Dir \ {dir} : streams'[d] = streams[d]
               /\ misframed' = misframed
    <2>1. streams[dir].remaining = 0
      BY <1>1, <1>4
    <2>2. FeedHead(dir, event) /\ EmitIfComplete(dir)
      BY <1>1, <1>4, <2>1 DEF Take
    <2> QED
      BY <1>0, <1>1, <2>2 DEF FeedHead
  <1>5. CASE InterimHead(dir)
    <2>1. /\ ~Due(dir) /\ ~Due(dir)' /\ event.unit = "head" /\ event.status = 100
          /\ dir = "responses" /\ dir # "requests"
      BY <1>5 DEF InterimHead
    <2>2. DeclaredLength(dir, event) = 0
      BY <2>1 DEF DeclaredLength, hasNoBody
    <2>3. pendingMethods' = pendingMethods
      <3>1. FeedHead(dir, event)
        BY <1>4, <2>1
      <3> QED
        BY <2>1, <3>1 DEF FeedHead, MethodQueueAfter
    <2>4. ~LastHead(dir)
      <3>1. plan[i].status # 100
        BY <1>0, FinalFacts
      <3> QED
        BY <2>1, <3>1 DEF LastHead
    <2>5. InPlace(dir)'
      BY <1>4, <2>1, <2>2 DEF InPlace
    <2>6. Emits(dir, i)
      BY <1>2, <1>4, <2>1, <2>2
    <2> QED
      BY <1>4, <2>1, <2>3, <2>4, <2>5, <2>6
  <1>6. CASE LastHead(dir)
    <2>1. /\ ~Due(dir) /\ event.unit = "head"
          /\ event.status = IF dir = "requests" THEN 0 ELSE plan[i].status
          /\ BodyFollows(i, dir) => Due(dir)' /\ sent'[dir].ex = i
          /\ ~BodyFollows(i, dir) => ~Due(dir)'
      BY <1>6 DEF LastHead
    <2>2. FeedHead(dir, event) /\ EmitIfComplete(dir)
      BY <1>4, <2>1
    <2>3. CASE dir = "requests"
      <3>1. DeclaredLength(dir, event) = IF BodyFollows(i, dir) THEN 1 ELSE 0
        BY <1>0, <2>3 DEF DeclaredLength, BodyFollows
      <3>2. pendingMethods' = Append(pendingMethods, plan[i].method)
        BY <1>0, <1>1, <2>2, <2>3 DEF FeedHead
      <3>3. InPlace(dir)'
        BY <1>4, <2>1, <3>1 DEF InPlace
      <3>4. IF Due(dir)' THEN UNCHANGED <<exchange, pairer>> ELSE Emits(dir, i)
        BY <1>2, <1>4, <2>1, <3>1
      <3> QED
        BY <1>4, <1>6, <2>1, <2>3, <3>2, <3>3, <3>4
    <2>4. CASE dir = "responses"
      <3>1. dir # "requests" /\ event.status = plan[i].status
        BY <2>1, <2>4
      <3>2. i <= Begun("requests") /\ Begun("responses") = i - 1
        BY <1>0, <1>6, <2>4, Awaited, BegunMoves
      <3>3. /\ Begun("responses") + Len(pendingMethods) = Begun("requests")
            /\ Len(pendingMethods) \in Nat /\ Begun("requests") \in Nat /\ i \in Nat
            /\ pendingMethods \in Seq(Methods)
            /\ \A j \in 1..Len(pendingMethods) :
                  pendingMethods[j] = plan[Begun("responses") + j].method
        <4>1. Begun("requests") \in Nat /\ i \in Nat
          BY <1>0, BegunTypes DEF Dir
        <4>2. pendingMethods \in Seq(Methods) /\ Len(pendingMethods) \in Nat
          BY DEF Types
        <4> QED
          BY <4>1, <4>2 DEF Framed
      <3>4. /\ Len(pendingMethods) > 0 /\ pendingMethods # <<>>
            /\ pendingMethods[1] = plan[i].method
        <4>1. Len(pendingMethods) > 0 /\ 1 \in 1..Len(pendingMethods) /\ Begun("responses") + 1 = i
          BY <3>2, <3>3
        <4> QED
          BY <3>3, <4>1
      <3>5. NextMethod = plan[i].method
        BY <3>4 DEF NextMethod
      <3>6. DeclaredLength(dir, event) = IF BodyFollows(i, dir) THEN 1 ELSE 0
        <4>1. ~(plan[i].status \in Informational)
          BY <1>0, FinalFacts
        <4>2. ~(event.status \in 100..199)
          BY <3>1, <4>1 DEF Informational
        <4>3. hasNoBody(event.status, NextMethod) <=>
                 plan[i].method = "HEAD" \/ plan[i].status \in {204, 304}
          BY <3>1, <3>5, <4>2 DEF hasNoBody
        <4> QED
          BY <3>1, <4>3 DEF DeclaredLength, BodyFollows, HasBody
      <3>7. pendingMethods' = Tail(pendingMethods)
        <4>1. event.status >= 200
          BY <1>0, <3>1, FinalFacts
        <4> QED
          BY <2>2, <3>1, <3>4, <4>1 DEF FeedHead, MethodQueueAfter
      <3>8. InPlace(dir)'
        BY <1>4, <2>1, <3>6 DEF InPlace
      <3>9. IF Due(dir)' THEN UNCHANGED <<exchange, pairer>> ELSE Emits(dir, i)
        BY <1>2, <1>4, <2>1, <3>6
      <3> QED
        BY <1>4, <1>6, <2>1, <3>1, <3>4, <3>7, <3>8, <3>9
    <2> QED
      BY <2>3, <2>4 DEF Dir
  <1> QED
    BY <1>0, <1>3, <1>5, <1>6

QueueInPlace ==
    /\ Begun("responses") + Len(pendingMethods) = Begun("requests")
    /\ \A j \in 1..Len(pendingMethods) :
          pendingMethods[j] = plan[Begun("responses") + j].method

LEMMA QueueStep ==
    ASSUME Types, Framed, Clean, NEW dir \in Dir, Arrives(dir), Take(dir, Upcoming(dir))
    PROVE  QueueInPlace'
  <1> DEFINE i == sent[dir].ex
             req == Begun("requests")
             res == Begun("responses")
  <1>0. /\ Cursor /\ "requests" \in Dir /\ "responses" \in Dir /\ plan' = plan
        /\ req \in Nat /\ res \in Nat /\ i \in Nat
        /\ pendingMethods \in Seq(Methods) /\ Len(pendingMethods) \in Nat
        /\ res + Len(pendingMethods) = req
        /\ \A j \in 1..Len(pendingMethods) : pendingMethods[j] = plan[res + j].method
    <2>1. Cursor /\ "requests" \in Dir /\ "responses" \in Dir /\ plan' = plan
      BY DEF Types, Dir, Arrives
    <2>2. req \in Nat /\ res \in Nat /\ i \in Nat
      BY <2>1, BegunTypes DEF Cursor
    <2> QED
      BY <2>1, <2>2 DEF Types, Framed
  <1>1. CASE ~LastHead(dir)
    <2>1. pendingMethods' = pendingMethods
      BY <1>1, CleanFeed
    <2>2. Begun("requests")' = req /\ Begun("responses")' = res
      BY <1>0, <1>1, Advance, BegunMoves DEF Dir
    <2> QED
      BY <1>0, <2>1, <2>2 DEF QueueInPlace
  <1>2. CASE LastHead(dir) /\ dir = "requests"
    <2>1. pendingMethods' = Append(pendingMethods, plan[i].method)
      BY <1>2, CleanFeed
    <2>2. Begun("requests")' = req + 1 /\ Begun("responses")' = res /\ i = req + 1
      BY <1>0, <1>2, Advance, BegunMoves
    <2>3. plan[i].method \in Methods
      <3>1. i \in 1..Len(plan)
        BY <1>0, <1>2, Advance
      <3> QED
        BY <1>0, <3>1 DEF Methods, Cursor, PlanType
    <2> DEFINE N == Len(pendingMethods) + 1
    <2>4. /\ Len(pendingMethods') = N /\ pendingMethods'[N] = plan[i].method
          /\ \A j \in 1..Len(pendingMethods) : pendingMethods'[j] = pendingMethods[j]
      BY <1>0, <2>1, <2>3, AppendFacts
    <2>5. ASSUME NEW j \in 1..N PROVE pendingMethods'[j] = plan[res + j].method
      <3>1. CASE j = N
        <4>1. res + j = i
          BY <1>0, <2>2, <3>1
        <4> QED
          BY <2>4, <3>1, <4>1
      <3>2. CASE j # N
        <4>1. j \in 1..Len(pendingMethods)
          BY <1>0, <3>2
        <4> QED
          BY <1>0, <2>4, <4>1
      <3> QED
        BY <3>1, <3>2
    <2>6. res + N = req + 1
      BY <1>0
    <2> QED
      BY <1>0, <2>2, <2>4, <2>5, <2>6 DEF QueueInPlace
  <1>3. CASE LastHead(dir) /\ dir = "responses"
    <2>1. pendingMethods' = Tail(pendingMethods) /\ pendingMethods # <<>>
      BY <1>3, CleanFeed DEF Dir
    <2>2. Begun("requests")' = req /\ Begun("responses")' = res + 1
      BY <1>0, <1>3, Advance, BegunMoves
    <2> DEFINE N == Len(pendingMethods) - 1
    <2>3. /\ Len(pendingMethods') = N /\ N \in Nat
          /\ \A j \in 1..N : pendingMethods'[j] = pendingMethods[j + 1]
                             /\ j + 1 \in 1..Len(pendingMethods)
      BY <1>0, <2>1, TailIndex
    <2>4. ASSUME NEW j \in 1..N PROVE pendingMethods'[j] = plan[(res + 1) + j].method
      <3>1. pendingMethods'[j] = plan[res + (j + 1)].method
        BY <1>0, <2>3
      <3>2. res + (j + 1) = (res + 1) + j
        BY <1>0, <2>3
      <3> QED
        BY <3>1, <3>2
    <2>5. (res + 1) + N = req
      BY <1>0, <2>3
    <2> QED
      BY <1>0, <2>2, <2>3, <2>4, <2>5 DEF QueueInPlace
  <1> QED
    BY <1>1, <1>2, <1>3 DEF Dir

(* A new connection starts with nothing due and nothing queued.             *)
LEMMA FreshConnection ==
    ASSUME Types, FeedClose
    PROVE  /\ \A d \in Dir : /\ sent'[d].ex = 1 /\ ~Due(d)' /\ Begun(d)' = 0 /\ Complete(d)' = 0
                             /\ streams'[d] = NewStream
           /\ pendingMethods' = <<>> /\ conn' = conn + 1 /\ conn \in Nat
           /\ ToSet(mishaps') = ToSet(mishaps) /\ ToSet(mishaps) \subseteq 1..conn
           /\ Clean' /\ plan' = plan /\ exchange' = exchange
  <1>1. /\ conn' = conn + 1 /\ sent' = [dir \in Dir |-> Start]
        /\ streams' = [dir \in Dir |-> NewStream] /\ pendingMethods' = <<>>
        /\ UNCHANGED <<plan, mishaps, exchange>>
    BY DEF FeedClose, ParserClose
  <1>2. ASSUME NEW d \in Dir
        PROVE  /\ sent'[d].ex = 1 /\ ~Due(d)' /\ Begun(d)' = 0 /\ Complete(d)' = 0
               /\ streams'[d] = NewStream
    <2>1. sent'[d].ex = 1 /\ sent'[d].events = 0 /\ streams'[d] = NewStream
      BY <1>1 DEF Start
    <2>2. ~Due(d)'
      <3>1. Heads(1, d)' # 0
        BY DEF Heads
      <3> QED
        BY <2>1, <3>1 DEF Due, Heads
    <2> QED
      BY <2>1, <2>2 DEF Begun, Complete
  <1>3. conn \in Nat /\ ToSet(mishaps) \subseteq 1..conn
    BY Constants DEF Constants, CaptureAssumption, Types
  <1>4. ToSet(mishaps') = ToSet(mishaps)
    BY <1>1
  <1>5. conn + 1 \notin 1..conn
    BY <1>3
  <1> QED
    BY <1>1, <1>2, <1>3, <1>4, <1>5 DEF Clean

LEMMA FramedStep == Types /\ Framed /\ [Next]_vars => Framed'
  <1> SUFFICES ASSUME Types, Framed, [Next]_vars, Clean'
               PROVE  QueueInPlace' /\ \A d \in Dir : InPlace(d)'
    BY DEF Framed, QueueInPlace, InPlace
  <1>1. ASSUME NEW dir \in Dir, Feed(dir) PROVE QueueInPlace' /\ \A d \in Dir : InPlace(d)'
    <2>1. Arrives(dir) /\ Take(dir, Upcoming(dir)) /\ UNCHANGED <<conn, mishaps>>
      BY <1>1 DEF Feed, Arrives
    <2>2. Clean
      BY <2>1 DEF Clean
    <2>3. QueueInPlace' /\ InPlace(dir)'
      BY <2>1, <2>2, QueueStep, CleanFeed
    <2>4. ASSUME NEW d \in Dir, d # dir PROVE InPlace(d)'
      <3>1. streams'[d] = streams[d] /\ sent'[d] = sent[d] /\ (Due(d)' <=> Due(d))
        BY <2>1, <2>2, <2>4, CleanFeed, Advance DEF Types
      <3>2. InPlace(d)
        BY <2>2 DEF Framed, InPlace
      <3> QED
        BY <3>1, <3>2 DEF InPlace
    <2> QED
      BY <2>3, <2>4
  <1>2. ASSUME mishaps' = Append(mishaps, conn), conn' = conn PROVE FALSE
    BY <1>2, MishapFacts DEF Clean
  <1>3. CASE FeedClose
    <2>1. \A d \in Dir : InPlace(d)'
      BY <1>3, FreshConnection DEF InPlace, NewStream
    <2>2. QueueInPlace'
      BY <1>3, FreshConnection DEF QueueInPlace, Dir
    <2> QED
      BY <2>1, <2>2
  <1>4. CASE Quiet
    <2>1. UNCHANGED <<plan, conn, sent, streams, pendingMethods, mishaps>>
      BY <1>4 DEF Quiet, world, parser
    <2>2. \A d : (Due(d)' <=> Due(d)) /\ Begun(d)' = Begun(d)
      BY <2>1 DEF Due, Begun, Complete, Heads, BodyFollows
    <2>3. Clean
      BY <2>1 DEF Clean
    <2> QED
      BY <2>1, <2>2, <2>3 DEF Framed, QueueInPlace, InPlace
  <1>5. Cursor
    BY DEF Types
  <1> QED
    BY <1>1, <1>2, <1>3, <1>4, <1>5, StepKinds DEF Strange, Skips, Arrives, world

LEMMA FramedInvariant == Spec => []Framed
  <1>1. Init => Framed
    <2> SUFFICES ASSUME Init PROVE Framed
      OBVIOUS
    <2>1. /\ sent = [dir \in Dir |-> Start] /\ streams = [dir \in Dir |-> NewStream]
          /\ pendingMethods = <<>>
      BY DEF Init
    <2>2. \A d \in Dir : ~Due(d) /\ Begun(d) = 0 /\ streams[d] = NewStream
      BY <2>1 DEF Start, Due, Heads, Begun, Complete
    <2> QED
      BY <2>1, <2>2 DEF Framed, NewStream, Dir
  <1> QED
    BY <1>1, TypesInvariant, FramedStep, PTL DEF Spec

(* The parser takes heads for heads and bodies for bodies, whatever the     *)
(* interleaving of the two directions, on every connection without a        *)
(* mishap, and a mishap spoils its own connection only.                     *)
THEOREM FramedByItsRequestHolds == Spec => []FramedByItsRequest
  <1>1. Init => FramedByItsRequest
    BY DEF Init, FramedByItsRequest
  <1>2. Types /\ Framed /\ FramedByItsRequest /\ [Next]_vars => FramedByItsRequest'
    <2> SUFFICES ASSUME Types, Framed, FramedByItsRequest, [Next]_vars PROVE FramedByItsRequest'
      OBVIOUS
    <2>1. ASSUME NEW dir \in Dir, Feed(dir) PROVE FramedByItsRequest'
      <3>1. Arrives(dir) /\ Take(dir, Upcoming(dir)) /\ UNCHANGED <<conn, mishaps>>
        BY <2>1 DEF Feed, Arrives
      <3>2. CASE Clean
        BY <3>1, <3>2, CleanFeed DEF FramedByItsRequest
      <3>3. CASE ~Clean
        <4>1. Planned(Upcoming(dir))
          BY <3>1, Advance DEF Types, Planned
        <4> QED
          BY <3>1, <3>3, <4>1, TakeFacts DEF FramedByItsRequest, Clean
      <3> QED
        BY <3>2, <3>3
    <2>2. ASSUME NEW dir \in Dir, NEW event, Strange(dir, event) PROVE FramedByItsRequest'
      BY <2>2, TakeFacts, MishapFacts DEF Strange, FramedByItsRequest
    <2>3. ASSUME NEW dir \in Dir, Skips(dir) PROVE FramedByItsRequest'
      BY <2>3, MishapFacts DEF Skips, FramedByItsRequest
    <2>4. CASE FeedClose
      BY <2>4 DEF FeedClose, FramedByItsRequest
    <2>5. CASE Quiet
      BY <2>5 DEF Quiet, parser, FramedByItsRequest
    <2>6. Cursor
      BY DEF Types
    <2> QED
      BY <2>1, <2>2, <2>3, <2>4, <2>5, <2>6, StepKinds
  <1> QED
    BY <1>1, <1>2, TypesInvariant, FramedInvariant, PTL DEF Spec

-----------------------------------------------------------------------------
(* The pairer inside.                                                       *)

(* P and PP name the same specification.                                    *)
LEMMA SamePairer ==
    /\ P!Init <=> PP!Init
    /\ [P!Next]_(P!vars) <=> [PP!Next]_(PP!vars)
    /\ \A o : P!Push(o) <=> PP!Push(o)
    /\ \A k : P!CloseKey(k) <=> PP!CloseKey(k)
    /\ P!pairKey = PP!pairKey
    /\ \A k : P!ConnOf(k) = PP!ConnOf(k)
    /\ \A n : P!Conn(n) = PP!Conn(n)
    /\ \A k, S : P!Of(k, S) = PP!Of(k, S)
  <1>1. P!pairKey = PP!pairKey /\ P!Origin = PP!Origin
    BY DEF P!pairKey, PP!pairKey, P!Origin, PP!Origin
  <1>2. P!Init <=> PP!Init
    BY <1>1 DEF P!Init, PP!Init
  <1>3. \A n : P!Conn(n) = PP!Conn(n)
    BY DEF P!Conn, PP!Conn
  <1>4. \A k : P!ConnOf(k) = PP!ConnOf(k)
    BY DEF P!ConnOf, PP!ConnOf
  <1>5. \A k, S : P!Of(k, S) = PP!Of(k, S)
    BY DEF P!Of, PP!Of, P!Conn, PP!Conn
  <1>6. \A k : P!CloseKey(k) <=> PP!CloseKey(k)
    BY DEF P!CloseKey, PP!CloseKey, P!Of, PP!Of, P!Conn, PP!Conn
  <1>7. \A k : /\ P!RecordRequest(k) <=> PP!RecordRequest(k)
               /\ P!RecordResponse(k) <=> PP!RecordResponse(k)
    BY DEF P!RecordRequest, PP!RecordRequest, P!RecordResponse, PP!RecordResponse,
       P!Last, PP!Last, P!ConnOf, PP!ConnOf
  <1>8. /\ P!Last = PP!Last
        /\ \A n, S : P!IsOldest(n, S) <=> PP!IsOldest(n, S)
    BY DEF P!Last, PP!Last, P!IsOldest, PP!IsOldest
  <1>9. \A n : P!holdResponse(n) <=> PP!holdResponse(n)
    <2>1. \A S : P!Cardinality(S) = PP!Cardinality(S)
      BY DEF P!Cardinality, PP!Cardinality
    <2> QED
      BY <1>3, <1>8, <2>1 DEF P!holdResponse, PP!holdResponse
  <1>10. \A pid, f, s, b : P!keyFor(pid, f, s, b) = PP!keyFor(pid, f, s, b)
    BY DEF P!keyFor, PP!keyFor
  <1>11. \A o : P!KeyOf(o) = PP!KeyOf(o)
    BY <1>10 DEF P!KeyOf, PP!KeyOf
  <1>12. \A k : /\ P!PushRequestMatched(k) <=> PP!PushRequestMatched(k)
                /\ P!PushRequestPending(k) <=> PP!PushRequestPending(k)
                /\ P!PushResponseMatched(k) <=> PP!PushResponseMatched(k)
                /\ P!PushResponseHeld(k) <=> PP!PushResponseHeld(k)
    BY <1>5, <1>7, <1>8, <1>9
       DEF P!PushRequestMatched, PP!PushRequestMatched, P!PushRequestPending, PP!PushRequestPending,
       P!PushResponseMatched, PP!PushResponseMatched, P!PushResponseHeld, PP!PushResponseHeld
  <1>13. \A o : P!Push(o) <=> PP!Push(o)
    BY <1>11, <1>12 DEF P!Push, PP!Push
  <1>14. P!Next <=> PP!Next
    <2>1. /\ \A pid, f : P!Close(pid, f) <=> PP!Close(pid, f)
          /\ \A pid, a : P!CloseSSL(pid, a) <=> PP!CloseSSL(pid, a)
      BY <1>6, <1>10 DEF P!Close, PP!Close, P!CloseSSL, PP!CloseSSL
    <2>2. P!Expire <=> PP!Expire
      BY DEF P!Expire, PP!Expire, P!IsOldest, PP!IsOldest
    <2>3. P!Sweep <=> PP!Sweep
      BY DEF P!Sweep, PP!Sweep, P!Conn, PP!Conn
    <2> QED
      BY <1>1, <1>13, <2>1, <2>2, <2>3 DEF P!Next, PP!Next
  <1>15. [P!Next]_(P!vars) <=> [PP!Next]_(PP!vars)
    BY <1>14 DEF P!vars, PP!vars
  <1> QED
    BY <1>1, <1>2, <1>3, <1>4, <1>5, <1>6, <1>13, <1>15

(* All messages of a behaviour have one origin, which is its own key.       *)
LEMMA OriginFacts ==
    /\ Origin \in P!Origin /\ Origin \in P!pairKey /\ P!KeyOf(Origin) = Origin
    /\ PP!KeyOf(Origin) = Origin /\ Origin \in PP!pairKey
    /\ P!keyFor(1, 3, 0, FALSE) = Origin
    /\ 1 \in Pid /\ 3 \in Fd /\ PP!ConstantsAssumption
  <1>1. Pid = {1} /\ Fd = {3} /\ Ssl = {0} /\ PP!ConstantsAssumption
    BY Constants DEF Constants, CaptureAssumption, PP!ConstantsAssumption
  <1>2. Origin \in P!Origin /\ Origin \in P!pairKey
    BY <1>1 DEF Origin, P!Origin, P!pairKey
  <1>3. P!KeyOf(Origin) = Origin /\ PP!KeyOf(Origin) = Origin /\ P!keyFor(1, 3, 0, FALSE) = Origin
    BY DEF Origin, P!KeyOf, P!keyFor, PP!KeyOf, PP!keyFor
  <1> QED
    BY <1>1, <1>2, <1>3, SamePairer

LEMMA PairerStep == Types /\ [Next]_vars => [P!Next]_(P!vars)
  <1> SUFFICES ASSUME Types, [Next]_vars PROVE [P!Next]_(P!vars)
    OBVIOUS
  <1>1. ASSUME UNCHANGED pairer PROVE [P!Next]_(P!vars)
    BY <1>1 DEF pairer, P!vars
  <1>2. ASSUME P!Push(Origin) PROVE [P!Next]_(P!vars)
    BY <1>2, OriginFacts DEF P!Next
  <1>3. ASSUME NEW dir \in Dir, NEW event, Planned(event), Take(dir, event) PROVE [P!Next]_(P!vars)
    BY <1>1, <1>2, <1>3, TakeFacts DEF EmitIfComplete
  <1>4. ASSUME NEW dir \in Dir, Feed(dir) PROVE [P!Next]_(P!vars)
    <2>1. Planned(Upcoming(dir))
      BY <1>4, Advance DEF Types, Planned, Feed
    <2> QED
      BY <1>3, <1>4, <2>1 DEF Feed
  <1>5. CASE FeedClose
    <2>1. UNCHANGED pairer \/ P!Close(1, 3)
      BY <1>5 DEF FeedClose
    <2> QED
      BY <1>1, <2>1, OriginFacts DEF P!Next
  <1>6. CASE Quiet
    <2>1. P!Expire \/ P!Sweep \/ UNCHANGED pairer
      BY <1>6 DEF Quiet
    <2> QED
      BY <1>1, <2>1 DEF P!Next
  <1>7. Cursor
    BY DEF Types
  <1> QED
    BY <1>1, <1>3, <1>4, <1>5, <1>6, <1>7, StepKinds DEF Strange, Skips

(* The capture drives the pairer by steps of Pairer only: whatever is       *)
(* proved of Pairer holds of the pairer behind the parser.                  *)
THEOREM DrivesPairer == Spec => P!Spec
  <1>1. Init => P!Init
    BY DEF Init
  <1> QED
    BY <1>1, TypesInvariant, PairerStep, PTL DEF Spec, P!Spec

(* What PairerProofs knows of the state of the pairer.                      *)
PairerInv ==
    /\ PP!TypeInv /\ PP!Waiting /\ PP!Sorted /\ PP!AllAligned /\ PP!Numbered
    /\ PP!SameConnection /\ PP!PairedByPosition

LEMMA PairerInvariant == Spec => []PairerInv
  <1>1. PP!ConstantsAssumption
    BY OriginFacts
  <1>2. P!Spec => PP!Spec
    BY SamePairer, PTL DEF P!Spec, PP!Spec
  <1>3. PP!Spec => /\ []PP!TypeInv /\ []PP!Waiting /\ [](PP!Sorted /\ PP!AllAligned)
                   /\ []PP!Numbered /\ []PP!SameConnection /\ []PP!PairedByPosition
    BY <1>1, PP!TypeInvariant, PP!WaitingInvariant, PP!AlignedInvariant, PP!NumberedInvariant,
       PP!SameConnectionHolds, PP!PairedByPositionHolds
  <1> QED
    BY <1>2, <1>3, DrivesPairer, PTL DEF PairerInv

-----------------------------------------------------------------------------
(* The history.  A life of the key is a connection of the process, and the  *)
(* life that the key has now is the connection that is under way.           *)

ConnAt(n) == exchange[n][1]
Current == P!ConnOf(Origin)

Lives ==
    /\ Len(exchange) = Len(log)
    /\ \A n \in 1..Len(log) : ConnAt(n) \in 1..conn /\ P!Conn(n).key = Origin
    /\ \A m, n \in 1..Len(log) : m <= n => ConnAt(m) <= ConnAt(n)
    /\ \A m, n \in 1..Len(log) : P!Conn(m) = P!Conn(n) <=> ConnAt(m) = ConnAt(n)
    /\ \A n \in 1..Len(log) : P!Conn(n) = Current <=> ConnAt(n) = conn

(* Counters of the key: requests and responses of the connection.           *)
Counter(dir) == IF dir = "requests" THEN reqs[Origin] ELSE ress[Origin]

LEMMA PairerTypes ==
    ASSUME PairerInv
    PROVE  /\ Len(log) \in Nat /\ \A dir \in Dir : Counter(dir) \in Nat
           /\ reqs[Origin] \in Nat /\ ress[Origin] \in Nat /\ life[Origin] \in Nat
           /\ Current = [key |-> Origin, life |-> life[Origin]]
           /\ pending \subseteq 1..Len(log) /\ heldResponses \subseteq 1..Len(log)
           /\ timedOut \subseteq 1..Len(log) /\ overdue \subseteq pending
           /\ paired \subseteq (1..Len(log)) \X (1..Len(log))
           /\ \A n \in 1..Len(log) :
                 /\ P!Conn(n) = [key |-> P!Conn(n).key, life |-> P!Conn(n).life]
                 /\ P!Conn(n).life \in Nat
                 /\ P!Conn(n).key = Origin => P!Conn(n).life <= life[Origin]
                 /\ log[n].pos \in Nat \ {0}
  <1>1. /\ log \in Seq(PP!Message) /\ reqs \in [PP!pairKey -> 0..MaxMsgs]
        /\ ress \in [PP!pairKey -> 0..MaxMsgs] /\ life \in [PP!pairKey -> 0..MaxMsgs]
        /\ pending \subseteq 1..Len(log) /\ heldResponses \subseteq 1..Len(log)
        /\ timedOut \subseteq 1..Len(log) /\ overdue \subseteq pending
        /\ paired \subseteq (1..Len(log)) \X (1..Len(log))
    BY DEF PairerInv, PP!TypeInv, PP!TypeOK, PP!Last
  <1>2. MaxMsgs \in Nat /\ \A x \in 0..MaxMsgs : x \in Nat
    BY Constants DEF Constants, CaptureAssumption
  <1>3. reqs[Origin] \in Nat /\ ress[Origin] \in Nat /\ life[Origin] \in Nat
    BY <1>1, <1>2, OriginFacts
  <1>4. ASSUME NEW n \in 1..Len(log)
        PROVE  /\ P!Conn(n) = [key |-> P!Conn(n).key, life |-> P!Conn(n).life]
               /\ P!Conn(n).life \in Nat
               /\ P!Conn(n).key = Origin => P!Conn(n).life <= life[Origin]
               /\ log[n].pos \in Nat \ {0}
    <2>1. log[n] \in PP!Message
      BY <1>1
    <2>2. P!Conn(n) \in PP!Connection
      BY <2>1 DEF PP!Message, P!Conn
    <2>3. PP!Conn(n).life <= life[PP!Conn(n).key] /\ PP!Pos(n) \in Nat \ {0}
      BY DEF PairerInv, PP!Numbered, PP!Last
    <2>4. P!Conn(n) = PP!Conn(n)
      BY SamePairer
    <2> QED
      BY <1>2, <2>2, <2>3, <2>4 DEF PP!Connection, PP!Pos
  <1> QED
    BY <1>1, <1>3, <1>4 DEF Counter, Current, P!ConnOf

(* A message that is pushed.                                                *)
LEMMA EmitFacts ==
    ASSUME Types, PairerInv, PairerInv', Len(exchange) = Len(log),
           NEW dir \in Dir, NEW i \in Nat, Emits(dir, i)
    PROVE  /\ Len(log') = Len(log) + 1 /\ Len(exchange') = Len(log')
           /\ \A n \in 1..Len(log) : /\ log'[n] = log[n] /\ P!Conn(n)' = P!Conn(n)
                                     /\ exchange'[n] = exchange[n] /\ ConnAt(n)' = ConnAt(n)
           /\ \A n : n = Len(log) + 1 =>
                 /\ P!Conn(n)' = Current /\ exchange'[n] = <<conn, i>> /\ ConnAt(n)' = conn
                 /\ log'[n].pos = Counter(dir) + 1 /\ log'[n].isRequest = (dir = "requests")
           /\ \A d \in Dir : Counter(d)' = IF d = dir THEN Counter(d) + 1 ELSE Counter(d)
           /\ Current' = Current /\ UNCHANGED <<life, timedOut>>
           /\ IF dir = "requests"
              THEN lossy' = lossy /\ (P!PushRequestMatched(Origin) \/ P!PushRequestPending(Origin))
              ELSE P!PushResponseMatched(Origin) \/ P!PushResponseHeld(Origin)
  <1> DEFINE d == dir = "requests"
  <1>1. /\ PP!ConstantsAssumption /\ PP!TypeInv /\ Origin \in PP!pairKey /\ d \in BOOLEAN
        /\ Len(log) \in Nat
    BY OriginFacts, PairerTypes DEF PairerInv
  <1>n. PICK N \in Nat : N = Len(log) + 1
    BY <1>1
  <1>2. \/ P!PushRequestMatched(Origin) \/ P!PushRequestPending(Origin)
        \/ P!PushResponseMatched(Origin) \/ P!PushResponseHeld(Origin)
    BY OriginFacts DEF Emits, P!Push
  <1>3. \/ (P!PushRequestMatched(Origin) \/ P!PushRequestPending(Origin)) /\ PP!RecordRequest(Origin)
        \/ (P!PushResponseMatched(Origin) \/ P!PushResponseHeld(Origin)) /\ PP!RecordResponse(Origin)
    <2>1. /\ P!RecordRequest(Origin) <=> PP!RecordRequest(Origin)
          /\ P!RecordResponse(Origin) <=> PP!RecordResponse(Origin)
      BY DEF P!RecordRequest, PP!RecordRequest, P!RecordResponse, PP!RecordResponse,
         P!Last, PP!Last, P!ConnOf, PP!ConnOf
    <2> QED
      BY <1>2, <2>1 DEF P!PushRequestMatched, P!PushRequestPending, P!PushResponseMatched,
         P!PushResponseHeld
  <1>4. Len(log') = N /\ log'[N].isRequest = d
    <2>1. Len(log') = N
      BY <1>n, <1>1, <1>3, PP!ArrivalFacts DEF PP!Last
    <2> QED
      BY <2>1 DEF Emits
  <1>5. /\ \A n : n = N => log'[n].isRequest = (IF PP!RecordRequest(Origin) THEN TRUE ELSE FALSE)
    BY <1>n, <1>1, <1>3, PP!ArrivalFacts DEF PP!Last
  <1>6. IF d THEN PP!RecordRequest(Origin) ELSE PP!RecordResponse(Origin)
    <2>1. log'[N].isRequest = (IF PP!RecordRequest(Origin) THEN TRUE ELSE FALSE)
      BY <1>5
    <2>2. CASE PP!RecordRequest(Origin)
      BY <1>4, <2>1, <2>2
    <2>3. CASE ~PP!RecordRequest(Origin)
      BY <1>3, <1>4, <2>1, <2>3
    <2> QED
      BY <2>2, <2>3
  <1>7. /\ UNCHANGED <<life, closed>>
        /\ \A n \in 1..Len(log) : log'[n] = log[n] /\ PP!Conn(n)' = PP!Conn(n)
        /\ \A n : n = N => PP!Conn(n)' = PP!ConnOf(Origin) /\ PP!Pos(n)' = PP!Counter(Origin, d) + 1
        /\ \A b \in BOOLEAN :
              PP!Counter(Origin, b)' = IF b = d THEN PP!Counter(Origin, d) + 1 ELSE PP!Counter(Origin, b)
        /\ PP!ConnOf(Origin)' = PP!ConnOf(Origin)
    BY <1>n, <1>1, <1>6, PP!NumberFacts DEF PP!Last
  <1>8. /\ Len(exchange') = Len(exchange) + 1
        /\ \A n \in 1..Len(exchange) : exchange'[n] = exchange[n]
        /\ exchange'[Len(exchange) + 1] = <<conn, i>>
    <2>1. exchange \in Seq(Nat \X Nat) /\ conn \in Nat
      BY Constants DEF Constants, CaptureAssumption, Types
    <2>2. PICK e \in Nat \X Nat : e = <<conn, i>>
      BY <2>1
    <2>3. exchange' = Append(exchange, e)
      BY <2>2 DEF Emits
    <2> QED
      BY <2>1, <2>2, <2>3, AppendFacts
  <1>9. ASSUME NEW n \in 1..Len(log)
        PROVE  /\ log'[n] = log[n] /\ P!Conn(n)' = P!Conn(n)
               /\ exchange'[n] = exchange[n] /\ ConnAt(n)' = ConnAt(n)
    BY <1>7, <1>8 DEF P!Conn, ConnAt
  <1>10. /\ P!Conn(N)' = Current /\ exchange'[N] = <<conn, i>> /\ ConnAt(N)' = conn
         /\ log'[N].pos = PP!Counter(Origin, d) + 1 /\ log'[N].isRequest = (dir = "requests")
    <2>1. PP!Conn(N)' = PP!ConnOf(Origin) /\ PP!Pos(N)' = PP!Counter(Origin, d) + 1
      BY <1>7
    <2>2. P!Conn(N)' = Current
      BY <2>1 DEF P!Conn, PP!Conn, Current, P!ConnOf, PP!ConnOf
    <2>3. log'[N].pos = PP!Counter(Origin, d) + 1
      BY <2>1 DEF PP!Pos
    <2>4. exchange'[N] = <<conn, i>> /\ ConnAt(N)' = conn
      BY <1>n, <1>8 DEF ConnAt
    <2> QED
      BY <1>4, <2>2, <2>3, <2>4
  <1>11. /\ \A e \in Dir : PP!Counter(Origin, e = "requests") = Counter(e)
         /\ \A e \in Dir : PP!Counter(Origin, e = "requests")' = Counter(e)'
    BY DEF PP!Counter, Counter
  <1>12. \A e \in Dir : Counter(e)' = IF e = dir THEN Counter(e) + 1 ELSE Counter(e)
    <2> SUFFICES ASSUME NEW e \in Dir
                 PROVE  Counter(e)' = IF e = dir THEN Counter(e) + 1 ELSE Counter(e)
      OBVIOUS
    <2>1. (e = "requests") \in BOOLEAN /\ (e = "requests") = d <=> e = dir
      BY DEF Dir
    <2> QED
      BY <1>7, <1>11, <2>1
  <1>13. timedOut' = timedOut /\ (d => lossy' = lossy)
    <2>1. timedOut' = timedOut
      BY <1>3 DEF PP!RecordRequest, PP!RecordResponse
    <2>2. ASSUME d PROVE lossy' = lossy
      <3>1. ~PP!RecordResponse(Origin)
        BY <1>1, <1>6, <2>2, PP!RecordsDiffer
      <3> QED
        BY <1>3, <3>1 DEF P!PushRequestMatched, P!PushRequestPending
    <2> QED
      BY <2>1, <2>2
  <1>14. IF d THEN P!PushRequestMatched(Origin) \/ P!PushRequestPending(Origin)
         ELSE P!PushResponseMatched(Origin) \/ P!PushResponseHeld(Origin)
    BY <1>1, <1>3, <1>6, PP!RecordsDiffer
  <1>15. Current' = Current
    BY <1>7 DEF Current, P!ConnOf
  <1>16. \A n : n = N => /\ P!Conn(n)' = Current /\ exchange'[n] = <<conn, i>> /\ ConnAt(n)' = conn
                         /\ log'[n].pos = Counter(dir) + 1 /\ log'[n].isRequest = (dir = "requests")
    BY <1>10, <1>11
  <1>17. Len(log') = N /\ Len(exchange') = Len(log') /\ life' = life
    BY <1>n, <1>4, <1>7, <1>8
  <1> QED
    BY <1>n, <1>9, <1>12, <1>13, <1>14, <1>15, <1>16, <1>17

(* What a step does to the history.                                         *)
LEMMA HistoryKinds ==
    ASSUME Types, [Next]_vars
    PROVE  /\ plan' = plan
           /\ ToSet(mishaps) \subseteq ToSet(mishaps')
           /\ \/ \E dir \in Dir, i \in Nat : Emits(dir, i) /\ conn' = conn
              \/ /\ conn' = conn /\ exchange' = exchange
                 /\ UNCHANGED pairer \/ P!Expire \/ P!Sweep
              \/ FeedClose
  <1>1. ASSUME NEW dir \in Dir, NEW event, Planned(event), Take(dir, event)
        PROVE  (\E i \in Nat : Emits(dir, i)) \/ UNCHANGED <<exchange, pairer>>
    <2>1. EmitIfComplete(dir) \/ UNCHANGED <<exchange, pairer>>
      BY <1>1, TakeFacts
    <2>2. streams'[dir].ex \in Nat
      BY <1>1, TakeFacts DEF StreamTypes
    <2> QED
      BY <2>1, <2>2 DEF EmitIfComplete, Emits
  <1>2. ASSUME NEW dir \in Dir, Feed(dir)
        PROVE  /\ UNCHANGED <<plan, conn, mishaps>>
               /\ (\E i \in Nat : Emits(dir, i)) \/ UNCHANGED <<exchange, pairer>>
    <2>1. Planned(Upcoming(dir))
      BY <1>2, Advance DEF Types, Planned, Feed
    <2> QED
      BY <1>1, <1>2, <2>1 DEF Feed, Arrives
  <1>3. ASSUME NEW dir \in Dir, NEW event, Strange(dir, event)
        PROVE  /\ UNCHANGED <<plan, conn>> /\ ToSet(mishaps) \subseteq ToSet(mishaps')
               /\ (\E i \in Nat : Emits(dir, i)) \/ UNCHANGED <<exchange, pairer>>
    BY <1>1, <1>3, MishapFacts DEF Strange, world
  <1>4. ASSUME NEW dir \in Dir, Skips(dir)
        PROVE  /\ UNCHANGED <<plan, conn, exchange, pairer>>
               /\ ToSet(mishaps) \subseteq ToSet(mishaps')
    BY <1>4, MishapFacts DEF Skips, Arrives
  <1>5. ASSUME FeedClose PROVE UNCHANGED <<plan, mishaps>>
    BY <1>5 DEF FeedClose
  <1>6. ASSUME Quiet
        PROVE  /\ UNCHANGED <<plan, conn, mishaps, exchange>>
               /\ UNCHANGED pairer \/ P!Expire \/ P!Sweep
    BY <1>6 DEF Quiet, world
  <1>7. Cursor
    BY DEF Types
  <1>8. CASE \E dir \in Dir : Feed(dir)
    BY <1>2, <1>8
  <1>9. CASE \E dir \in Dir, event \in Units : Strange(dir, event)
    BY <1>3, <1>9
  <1>10. CASE \E dir \in Dir : Skips(dir)
    BY <1>4, <1>10
  <1> QED
    BY <1>5, <1>6, <1>7, <1>8, <1>9, <1>10, StepKinds

(* A close that the pairer is told of ends a life; one after a connection   *)
(* without a message ends none, and none is needed.                         *)
LEMMA CloseEffect ==
    ASSUME Types, PairerInv, PairerInv', Lives, FeedClose
    PROVE  /\ UNCHANGED <<log, exchange, lossy, timedOut>> /\ conn' = conn + 1
           /\ \A n \in 1..Len(log) : P!Conn(n)' = P!Conn(n) /\ P!Conn(n) # Current'
           /\ \A d \in Dir : Counter(d)' = 0
  <1>1. conn' = conn + 1 /\ exchange' = exchange
    BY DEF FeedClose
  <1>2. CASE P!Close(1, 3)
    <2>1. P!CloseKey(Origin) /\ Origin \in P!pairKey
      BY <1>2, OriginFacts DEF P!Close
    <2>2. /\ UNCHANGED <<log, lossy, timedOut>>
          /\ life' = [life EXCEPT ![Origin] = @ + 1]
          /\ reqs' = [reqs EXCEPT ![Origin] = 0] /\ ress' = [ress EXCEPT ![Origin] = 0]
      BY <2>1 DEF P!CloseKey
    <2>3. /\ reqs \in [P!pairKey -> 0..MaxMsgs] /\ ress \in [P!pairKey -> 0..MaxMsgs]
          /\ life \in [P!pairKey -> 0..MaxMsgs]
      BY SamePairer DEF PairerInv, PP!TypeInv, PP!TypeOK
    <2>4. life'[Origin] = life[Origin] + 1 /\ reqs'[Origin] = 0 /\ ress'[Origin] = 0
      BY <2>1, <2>2, <2>3
    <2>5. \A d \in Dir : Counter(d)' = 0
      BY <2>4 DEF Counter
    <2>6. ASSUME NEW n \in 1..Len(log) PROVE P!Conn(n)' = P!Conn(n) /\ P!Conn(n) # Current'
      <3>1. P!Conn(n)' = P!Conn(n)
        BY <2>2 DEF P!Conn
      <3>2. Current'.life = life[Origin] + 1
        BY <2>4 DEF Current, P!ConnOf
      <3>3. P!Conn(n).life <= life[Origin] /\ P!Conn(n).life \in Nat /\ life[Origin] \in Nat
        BY PairerTypes DEF Lives
      <3> QED
        BY <3>1, <3>2, <3>3
    <2> QED
      BY <1>1, <2>2, <2>5, <2>6
  <1>3. CASE (exchange = <<>> \/ Last(exchange)[1] < conn) /\ UNCHANGED pairer
    <2>1. UNCHANGED <<log, lossy, timedOut, life, reqs, ress>>
      BY <1>3 DEF pairer
    <2>2. Len(log) \in Nat /\ conn \in Nat /\ Len(exchange) = Len(log)
      BY PairerTypes, Constants DEF Constants, CaptureAssumption, Types, Lives
    <2>3. ASSUME NEW n \in 1..Len(log) PROVE P!Conn(n) # Current
      <3>1. exchange # <<>> /\ Len(log) \in 1..Len(log) /\ n <= Len(log)
        BY <2>2
      <3>2. ConnAt(Len(log)) < conn
        BY <1>3, <2>2, <3>1 DEF Last, ConnAt
      <3>3. ConnAt(n) <= ConnAt(Len(log)) /\ ConnAt(n) \in 1..conn /\ ConnAt(Len(log)) \in 1..conn
        BY <3>1 DEF Lives
      <3>4. ConnAt(n) # conn
        BY <2>2, <3>2, <3>3
      <3> QED
        BY <3>4 DEF Lives
    <2>4. ASSUME NEW d \in Dir PROVE Counter(d) = 0
      <3> SUFFICES ASSUME Counter(d) # 0 PROVE FALSE
        OBVIOUS
      <3>1. /\ Counter(d) > 0 /\ PP!Counter(Origin, d = "requests") = Counter(d)
            /\ (d = "requests") \in BOOLEAN
        BY PairerTypes DEF PP!Counter, Counter
      <3>2. \A b \in BOOLEAN : PP!Counter(Origin, b) > 0 =>
               \E n \in 1..Len(log) : PP!Conn(n) = PP!ConnOf(Origin)
        BY OriginFacts DEF PairerInv, PP!Numbered, PP!Last
      <3>3. PICK n \in 1..Len(log) : PP!Conn(n) = PP!ConnOf(Origin)
        BY <3>1, <3>2
      <3>4. P!Conn(n) = Current
        BY <3>3, SamePairer DEF Current
      <3> QED
        BY <2>3, <3>4
    <2>5. Current' = Current /\ \A n : P!Conn(n)' = P!Conn(n)
      BY <2>1 DEF Current, P!ConnOf, P!Conn
    <2>6. \A d \in Dir : Counter(d)' = Counter(d)
      BY <2>1 DEF Counter
    <2> QED
      BY <1>1, <2>1, <2>3, <2>4, <2>5, <2>6
  <1> QED
    BY <1>2, <1>3 DEF FeedClose

LEMMA LivesStep ==
    Types /\ PairerInv /\ PairerInv' /\ Lives /\ [Next]_vars => Lives'
  <1> SUFFICES ASSUME Types, PairerInv, PairerInv', Lives, [Next]_vars PROVE Lives'
    OBVIOUS
  <1>0. Len(log) \in Nat /\ conn \in Nat /\ conn \in 1..conn
    BY PairerTypes, Constants DEF Constants, CaptureAssumption, Types
  <1>1. CASE UNCHANGED <<log, exchange, life, conn>>
    <2>1. Current' = Current /\ \A n : P!Conn(n)' = P!Conn(n) /\ ConnAt(n)' = ConnAt(n)
      BY <1>1 DEF Current, P!ConnOf, P!Conn, ConnAt
    <2> QED
      BY <1>1, <2>1 DEF Lives
  <1>2. ASSUME NEW dir \in Dir, NEW i \in Nat, Emits(dir, i), conn' = conn PROVE Lives'
    <2>n. PICK N \in Nat : N = Len(log) + 1
      BY <1>0
    <2>1. /\ Len(exchange) = Len(log) /\ Len(log') = N /\ Len(exchange') = N
          /\ \A n \in 1..Len(log) : P!Conn(n)' = P!Conn(n) /\ ConnAt(n)' = ConnAt(n)
          /\ P!Conn(N)' = Current /\ ConnAt(N)' = conn /\ Current' = Current
      <3>1. Len(exchange) = Len(log)
        BY DEF Lives
      <3> QED
        BY <1>2, <2>n, <3>1, EmitFacts
    <2>2. \A n \in 1..N : n \in 1..Len(log) \/ n = N
      BY <1>0, <2>n
    <2>3. Current.key = Origin
      BY DEF Current, P!ConnOf
    <2>4. ASSUME NEW n \in 1..N
          PROVE  /\ ConnAt(n)' \in 1..conn /\ P!Conn(n)'.key = Origin
                 /\ P!Conn(n)' = Current <=> ConnAt(n)' = conn
      BY <1>0, <2>1, <2>2, <2>3 DEF Lives
    <2>5. ASSUME NEW m \in 1..N, NEW n \in 1..N
          PROVE  /\ P!Conn(m)' = P!Conn(n)' <=> ConnAt(m)' = ConnAt(n)'
                 /\ m <= n => ConnAt(m)' <= ConnAt(n)'
      <3>1. CASE m \in 1..Len(log) /\ n \in 1..Len(log)
        BY <2>1, <3>1 DEF Lives
      <3>2. CASE m = N /\ n = N
        BY <1>0, <2>1, <3>2
      <3>3. CASE m = N /\ n \in 1..Len(log)
        <4>1. ~(m <= n)
          BY <1>0, <2>n, <3>3
        <4>2. P!Conn(n)' = Current <=> ConnAt(n)' = conn
          BY <2>4
        <4> QED
          BY <2>1, <3>3, <4>1, <4>2
      <3>4. CASE m \in 1..Len(log) /\ n = N
        <4>1. ConnAt(m)' <= conn /\ (P!Conn(m)' = Current <=> ConnAt(m)' = conn)
          BY <1>0, <2>4
        <4> QED
          BY <2>1, <3>4, <4>1
      <3> QED
        BY <2>2, <3>1, <3>2, <3>3, <3>4
    <2> QED
      BY <1>2, <2>1, <2>4, <2>5 DEF Lives
  <1>3. CASE FeedClose
    <2>1. /\ UNCHANGED <<log, exchange>> /\ conn' = conn + 1
          /\ \A n \in 1..Len(log) : P!Conn(n)' = P!Conn(n) /\ P!Conn(n) # Current'
      BY <1>3, CloseEffect
    <2>2. \A n : ConnAt(n)' = ConnAt(n)
      BY <2>1 DEF ConnAt
    <2>3. \A c \in 1..conn : c \in 1..conn + 1 /\ c # conn + 1
      BY <1>0
    <2> QED
      BY <2>1, <2>2, <2>3 DEF Lives
  <1>4. ASSUME conn' = conn, exchange' = exchange, UNCHANGED pairer \/ P!Expire \/ P!Sweep
        PROVE  UNCHANGED <<log, exchange, life, conn>>
    BY <1>4 DEF pairer, P!Expire, P!Sweep
  <1> QED
    BY <1>1, <1>2, <1>3, <1>4, HistoryKinds

LEMMA LivesInvariant == Spec => []Lives
  <1>1. Init => Lives
    BY DEF Init, P!Init, Lives
  <1> QED
    BY <1>1, TypesInvariant, PairerInvariant, LivesStep, PTL DEF Spec

(* Every reachable state is well typed: a direction is inside the plan, and *)
(* the queue of methods holds at most the requests that were begun and one  *)
(* method for each mishap.                                                  *)
THEOREM TypeCorrect == Spec => []TypeOK
  <1>1. Types /\ Control /\ Len(exchange) = Len(log) => TypeOK
    <2> SUFFICES ASSUME Types, Control, Len(exchange) = Len(log) PROVE TypeOK
      OBVIOUS
    <2>1. \A dir \in Dir : /\ sent[dir].ex \in 1..Len(plan) + 1
                           /\ sent[dir].events > 0 =>
                                 sent[dir].events < Len(EventsOf(sent[dir].ex, dir))
                           /\ streams[dir].remaining \in {0, 1}
      BY DEF Types, Cursor, StreamTypes
    <2>2. Len(pendingMethods) <= Len(plan) + Len(mishaps)
      <3>1. /\ Begun("requests") <= Len(plan) /\ Begun("requests") \in Nat /\ Len(plan) \in Nat
            /\ Len(pendingMethods) \in Nat /\ Len(mishaps) \in Nat
            /\ Len(pendingMethods) <= Begun("requests") + Len(mishaps)
        BY BegunTypes DEF Types, Dir
      <3> QED
        BY <3>1
    <2> QED
      BY <2>1, <2>2 DEF Types, Control, TypeOK
  <1> QED
    BY <1>1, TypesInvariant, ControlInvariant, LivesInvariant, PTL DEF Lives

-----------------------------------------------------------------------------
(* Positions.  Where no response is informational, each direction of a      *)
(* connection without a mishap has one message for each exchange that it    *)
(* completed, and the position of a message is its exchange.                *)

NoInterim == \A i \in DOMAIN plan : ~plan[i].interim

InStep == Clean => \A dir \in Dir : Counter(dir) = Complete(dir)

Numbered ==
    \A n \in 1..Len(log) : ConnAt(n) \notin ToSet(mishaps) => exchange[n][2] = log[n].pos

Positions == NoInterim => InStep /\ Numbered

(* An event of a connection without a mishap completes the exchange that    *)
(* its direction is in, or none.                                            *)
LEMMA CleanMoves ==
    ASSUME Types, Framed, Clean, NoInterim, NEW dir \in Dir, Feed(dir)
    PROVE  /\ UNCHANGED <<conn, mishaps, plan>>
           /\ \/ UNCHANGED <<exchange, pairer>> /\ Complete(dir)' = Complete(dir)
              \/ Emits(dir, Complete(dir) + 1) /\ Complete(dir)' = Complete(dir) + 1
           /\ \A d \in Dir \ {dir} : Complete(d)' = Complete(d)
           /\ Complete(dir) \in Nat /\ Complete(dir) + 1 = sent[dir].ex
  <1>1. /\ Arrives(dir) /\ Take(dir, Upcoming(dir)) /\ UNCHANGED <<conn, mishaps, plan>>
        /\ Cursor /\ plan \in Seq(Exchange)
    BY DEF Feed, Arrives, Types, Cursor, PlanType
  <1>2. /\ sent[dir].ex \in 1..Len(plan) /\ Len(plan) \in Nat
        /\ InterimHead(dir) \/ LastHead(dir) \/ BodyEvent(dir)
        /\ \A d \in Dir \ {dir} : Complete(d)' = Complete(d)
    BY <1>1, Advance
  <1>3. ~InterimHead(dir)
    BY <1>1, <1>2 DEF InterimHead, NoInterim
  <1>4. IF Due(dir)' THEN UNCHANGED <<exchange, pairer>> ELSE Emits(dir, sent[dir].ex)
    BY <1>1, CleanFeed
  <1>5. Complete(dir) \in Nat /\ Complete(dir) + 1 = sent[dir].ex
    BY <1>2 DEF Complete
  <1>6. sent'[dir].ex = IF Due(dir)' THEN sent[dir].ex ELSE sent[dir].ex + 1
    BY <1>2, <1>3 DEF LastHead, BodyEvent
  <1>7. Complete(dir)' = IF Due(dir)' THEN Complete(dir) ELSE Complete(dir) + 1
    BY <1>2, <1>6 DEF Complete
  <1> QED
    BY <1>1, <1>2, <1>4, <1>5, <1>7

(* Numbers stay while the log does.                                         *)
LEMMA NumberedStays ==
    ASSUME Numbered, UNCHANGED <<log, exchange>>, ToSet(mishaps) \subseteq ToSet(mishaps')
    PROVE  Numbered'
BY DEF Numbered, ConnAt

LEMMA NumberedGrows ==
    ASSUME Types, PairerInv, PairerInv', Lives, Numbered, ToSet(mishaps) \subseteq ToSet(mishaps'),
           NEW dir \in Dir, NEW i \in Nat, Emits(dir, i),
           conn \in ToSet(mishaps') \/ i = Counter(dir) + 1
    PROVE  Numbered'
  <1>0. Len(log) \in Nat /\ Len(exchange) = Len(log) /\ conn \in Nat
    BY PairerTypes, Constants DEF Constants, CaptureAssumption, Types, Lives
  <1>n. PICK N \in Nat : N = Len(log) + 1
    BY <1>0
  <1>1. /\ Len(log') = N
        /\ \A n \in 1..Len(log) : /\ log'[n] = log[n] /\ exchange'[n] = exchange[n]
                                  /\ ConnAt(n)' = ConnAt(n)
        /\ exchange'[N] = <<conn, i>> /\ ConnAt(N)' = conn /\ log'[N].pos = Counter(dir) + 1
    BY <1>0, <1>n, EmitFacts
  <1> SUFFICES ASSUME NEW n \in 1..N, ConnAt(n)' \notin ToSet(mishaps')
               PROVE  exchange'[n][2] = log'[n].pos
    BY <1>1 DEF Numbered
  <1>2. CASE n \in 1..Len(log)
    BY <1>1, <1>2 DEF Numbered
  <1>3. CASE n = N
    BY <1>1, <1>3
  <1> QED
    BY <1>0, <1>n, <1>2, <1>3

LEMMA PositionsStep ==
    Types /\ Framed /\ PairerInv /\ PairerInv' /\ Lives /\ Positions /\ [Next]_vars => Positions'
  <1> SUFFICES ASSUME Types, Framed, PairerInv, PairerInv', Lives, Positions, [Next]_vars,
                      NoInterim'
               PROVE  InStep' /\ Numbered'
    BY DEF Positions
  <1>0. NoInterim /\ InStep /\ Numbered /\ Cursor /\ \A d \in Dir : Counter(d) \in Nat
    BY HistoryKinds, PairerTypes DEF NoInterim, Positions, Types
  <1>1. ASSUME NEW dir \in Dir, Feed(dir), Clean PROVE InStep' /\ Numbered'
    <2>1. /\ UNCHANGED <<conn, mishaps>>
          /\ \/ UNCHANGED <<exchange, pairer>> /\ Complete(dir)' = Complete(dir)
             \/ Emits(dir, Complete(dir) + 1) /\ Complete(dir)' = Complete(dir) + 1
          /\ \A d \in Dir \ {dir} : Complete(d)' = Complete(d)
          /\ Complete(dir) \in Nat /\ Complete(dir) + 1 \in Nat
      BY <1>0, <1>1, CleanMoves
    <2>2. \A d \in Dir : Counter(d) = Complete(d)
      BY <1>0, <1>1 DEF InStep
    <2>3. CASE UNCHANGED <<exchange, pairer>> /\ Complete(dir)' = Complete(dir)
      <3>1. \A d \in Dir : Counter(d)' = Counter(d)
        BY <2>3 DEF Counter, pairer
      <3>2. \A d \in Dir : Complete(d)' = Complete(d)
        BY <2>1, <2>3
      <3>3. Numbered'
        BY <1>0, <2>1, <2>3, NumberedStays DEF pairer
      <3> QED
        BY <2>2, <3>1, <3>2, <3>3 DEF InStep
    <2>4. CASE Emits(dir, Complete(dir) + 1) /\ Complete(dir)' = Complete(dir) + 1
      <3>1. \A d \in Dir : Counter(d)' = IF d = dir THEN Counter(d) + 1 ELSE Counter(d)
        BY <2>1, <2>4, EmitFacts DEF Lives
      <3>2. Numbered'
        BY <1>0, <2>1, <2>2, <2>4, NumberedGrows
      <3>3. \A d \in Dir : Counter(d)' = Complete(d)'
        BY <2>1, <2>2, <2>4, <3>1
      <3> QED
        BY <3>2, <3>3 DEF InStep
    <2> QED
      BY <2>1, <2>3, <2>4
  <1>2. ASSUME conn' = conn, conn \in ToSet(mishaps'), ToSet(mishaps) \subseteq ToSet(mishaps'),
               ~FeedClose
        PROVE  InStep' /\ Numbered'
    <2>1. InStep'
      BY <1>2 DEF InStep, Clean
    <2>2. ASSUME NEW dir \in Dir, NEW i \in Nat, Emits(dir, i) PROVE Numbered'
      BY <1>0, <1>2, <2>2, NumberedGrows
    <2>3. ASSUME exchange' = exchange, UNCHANGED pairer \/ P!Expire \/ P!Sweep PROVE Numbered'
      BY <1>0, <1>2, <2>3, NumberedStays DEF pairer, P!Expire, P!Sweep
    <2> QED
      BY <1>2, <2>1, <2>2, <2>3, HistoryKinds
  <1>3. ASSUME NEW dir \in Dir, Feed(dir), ~Clean PROVE InStep' /\ Numbered'
    <2>1. conn' = conn /\ mishaps' = mishaps
      BY <1>3 DEF Feed, Arrives
    <2>2. ~FeedClose
      <3>1. conn \in Nat
        BY Constants DEF Constants, CaptureAssumption, Types
      <3> QED
        BY <2>1, <3>1 DEF FeedClose
    <2> QED
      BY <1>2, <1>3, <2>1, <2>2 DEF Clean
  <1>4. ASSUME mishaps' = Append(mishaps, conn), conn' = conn PROVE InStep' /\ Numbered'
    <2>1. ~FeedClose
      <3>1. conn \in Nat
        BY Constants DEF Constants, CaptureAssumption, Types
      <3> QED
        BY <1>4, <3>1 DEF FeedClose
    <2> QED
      BY <1>2, <1>4, <2>1, MishapFacts
  <1>5. CASE FeedClose
    <2>1. /\ UNCHANGED <<log, exchange>> /\ \A d \in Dir : Counter(d)' = 0
      BY <1>5, CloseEffect
    <2>2. /\ ToSet(mishaps') = ToSet(mishaps) /\ \A d \in Dir : Complete(d)' = 0
      BY <1>5, FreshConnection
    <2>3. Numbered'
      BY <1>0, <2>1, <2>2, NumberedStays
    <2> QED
      BY <2>1, <2>2, <2>3 DEF InStep
  <1>6. CASE Quiet
    <2>1. UNCHANGED <<plan, conn, sent, mishaps, exchange, log, reqs, ress>>
      BY <1>6 DEF Quiet, world, pairer, P!Expire, P!Sweep
    <2>2. Numbered'
      BY <1>0, <2>1, NumberedStays
    <2>3. \A d \in Dir : Counter(d)' = Counter(d) /\ Complete(d)' = Complete(d)
      BY <2>1 DEF Counter, Complete
    <2>4. Clean' = Clean
      BY <2>1 DEF Clean
    <2> QED
      BY <1>0, <2>2, <2>3, <2>4 DEF InStep
  <1> QED
    BY <1>0, <1>1, <1>3, <1>4, <1>5, <1>6, StepKinds DEF Strange, Skips, Arrives, world

-----------------------------------------------------------------------------
(* Losses.  A life that lost a message before it was matched lost it to the *)
(* sweeper, or is of a connection with a mishap: where there is none, a     *)
(* response is held only while the body of its request is under way, so the *)
(* next one does not find it.                                               *)

LossKnown ==
    NoInterim => \A c \in lossy : \E n \in 1..Len(log) :
        P!Conn(n) = c /\ (n \in timedOut \/ ConnAt(n) \in ToSet(mishaps))

(* What was known of a loss stays known.                                    *)
LEMMA LossStays ==
    ASSUME LossKnown, NoInterim, Len(log) \in Nat, Len(log') \in Nat, Len(log) <= Len(log'),
           \A n \in 1..Len(log) : P!Conn(n)' = P!Conn(n) /\ ConnAt(n)' = ConnAt(n),
           timedOut \subseteq timedOut', ToSet(mishaps) \subseteq ToSet(mishaps'),
           NEW c \in lossy
    PROVE  \E n \in 1..Len(log') : P!Conn(n)' = c /\ (n \in timedOut' \/ ConnAt(n)' \in ToSet(mishaps'))
  <1>1. PICK n \in 1..Len(log) : P!Conn(n) = c /\ (n \in timedOut \/ ConnAt(n) \in ToSet(mishaps))
    BY DEF LossKnown
  <1>2. n \in 1..Len(log')
    OBVIOUS
  <1> QED
    BY <1>1, <1>2

(* A response that comes in step finds no held one.                         *)
LEMMA NoneHeld ==
    ASSUME Types, Framed, PairerInv, Lives, Positions, NoInterim, Clean, Current \notin lossy,
           Arrives("responses")
    PROVE  heldResponses = {}
  <1> SUFFICES ASSUME NEW old \in heldResponses PROVE FALSE
    OBVIOUS
  <1>1. /\ "requests" \in Dir /\ "responses" \in Dir /\ Cursor
        /\ old \in 1..Len(log) /\ log[old].pos \in Nat
    BY PairerTypes DEF Dir, Types
  <1>2. PP!Conn(old).key = Origin
    BY <1>1, SamePairer DEF Lives
  <1>3. PP!Aligned(Origin)
    BY OriginFacts, SamePairer DEF PairerInv, PP!AllAligned, Current
  <1>4. reqs[Origin] < log[old].pos /\ log[old].pos <= ress[Origin]
    BY <1>2, <1>3 DEF PairerInv, PP!Aligned, PP!Sorted, PP!Pos
  <1>5. reqs[Origin] = Complete("requests") /\ ress[Origin] = Complete("responses")
    BY <1>1 DEF Positions, InStep, Counter
  <1>6. /\ sent["responses"].ex <= Begun("requests")
        /\ Begun("requests") <= Complete("requests") + 1
        /\ Complete("requests") \in Nat /\ Begun("requests") \in Nat
        /\ Complete("responses") \in Nat /\ Complete("responses") + 1 = sent["responses"].ex
    <2>1. sent["responses"].ex <= Begun("requests")
      BY <1>1, Awaited
    <2>2. /\ Begun("requests") <= Complete("requests") + 1
          /\ Complete("requests") \in Nat /\ Begun("requests") \in Nat
      BY <1>1, BegunTypes
    <2>3. Complete("responses") \in Nat /\ Complete("responses") + 1 = sent["responses"].ex
      <3>1. Complete("responses") \in Nat /\ sent["responses"].ex \in Nat
        BY <1>1, BegunTypes DEF Cursor
      <3> QED
        BY <3>1 DEF Complete
    <2> QED
      BY <2>1, <2>2, <2>3
  <1> QED
    BY <1>1, <1>4, <1>5, <1>6

LEMMA LossOfPush ==
    ASSUME Types, PairerInv, PairerInv', Lives, LossKnown, NoInterim,
           NEW dir \in Dir, NEW i \in Nat, Emits(dir, i),
           ToSet(mishaps) \subseteq ToSet(mishaps'),
           conn \in ToSet(mishaps') \/ Current \in lossy \/ (dir = "responses" => heldResponses = {}),
           NEW c \in lossy'
    PROVE  \E n \in 1..Len(log') : P!Conn(n)' = c /\ (n \in timedOut' \/ ConnAt(n)' \in ToSet(mishaps'))
  <1>0. /\ Len(log) \in Nat /\ Len(exchange) = Len(log)
        /\ heldResponses \subseteq 1..Len(log)
    BY PairerTypes DEF Lives
  <1>1. /\ Len(log') = Len(log) + 1 /\ timedOut' = timedOut
        /\ \A n \in 1..Len(log) : P!Conn(n)' = P!Conn(n) /\ ConnAt(n)' = ConnAt(n)
        /\ IF dir = "requests" THEN lossy' = lossy
           ELSE P!PushResponseMatched(Origin) \/ P!PushResponseHeld(Origin)
    BY <1>0, EmitFacts
  <1>2. CASE c \in lossy
    BY <1>0, <1>1, <1>2, LossStays
  <1>3. CASE c \notin lossy
    <2>1. P!PushResponseHeld(Origin) /\ dir = "responses"
      BY <1>1, <1>3 DEF P!PushResponseMatched, Dir
    <2>2. PICK old \in heldResponses : lossy' = lossy \cup {P!Conn(old)}
      BY <1>3, <2>1 DEF P!PushResponseHeld, P!holdResponse
    <2>3. c = P!Conn(old)
      BY <1>3, <2>2
    <2>4. P!Conn(old) = Current /\ old \in 1..Len(log)
      <3>1. old \in 1..Len(log) /\ PP!Current(old)
        BY <1>0 DEF PairerInv, PP!Waiting
      <3>2. P!Conn(old).key = Origin
        BY <3>1 DEF Lives
      <3> QED
        BY <3>1, <3>2, SamePairer DEF PP!Current, Current
    <2>5. ConnAt(old) = conn /\ conn \in ToSet(mishaps')
      BY <1>3, <2>1, <2>2, <2>3, <2>4 DEF Lives
    <2>6. old \in 1..Len(log')
      BY <1>0, <1>1, <2>4
    <2> QED
      BY <1>1, <2>3, <2>4, <2>5, <2>6
  <1> QED
    BY <1>2, <1>3

LEMMA LossKnownStep ==
    Types /\ Framed /\ PairerInv /\ PairerInv' /\ Lives /\ Positions /\ LossKnown /\ [Next]_vars
        => LossKnown'
  <1> DEFINE Known(c) == \E n \in 1..Len(log') :
                            P!Conn(n)' = c /\ (n \in timedOut' \/ ConnAt(n)' \in ToSet(mishaps'))
  <1> SUFFICES ASSUME Types, Framed, PairerInv, PairerInv', Lives, Positions, LossKnown, [Next]_vars,
                      NoInterim', NEW c \in lossy'
               PROVE  Known(c)
    BY DEF LossKnown
  <1>0. /\ NoInterim /\ Cursor /\ Len(log) \in Nat /\ conn \in Nat
        /\ ToSet(mishaps) \subseteq ToSet(mishaps') /\ overdue \subseteq 1..Len(log)
    <2>1. NoInterim /\ ToSet(mishaps) \subseteq ToSet(mishaps')
      BY HistoryKinds DEF NoInterim
    <2>2. Cursor /\ conn \in Nat
      BY Constants DEF Constants, CaptureAssumption, Types
    <2>3. Len(log) \in Nat /\ overdue \subseteq 1..Len(log)
      BY PairerTypes
    <2> QED
      BY <2>1, <2>2, <2>3
  <1>1. ASSUME log' = log, exchange' = exchange, lossy' = lossy, timedOut' = timedOut PROVE Known(c)
    <2>1. \A n : P!Conn(n)' = P!Conn(n) /\ ConnAt(n)' = ConnAt(n)
      BY <1>1 DEF P!Conn, ConnAt
    <2> QED
      BY <1>0, <1>1, <2>1, LossStays
  <1>2. ASSUME exchange' = exchange, P!Sweep PROVE Known(c)
    <2>1. /\ log' = log /\ timedOut' = timedOut \cup overdue
          /\ lossy' = lossy \cup {P!Conn(n) : n \in overdue}
      BY <1>2 DEF P!Sweep
    <2>2. \A n : P!Conn(n)' = P!Conn(n) /\ ConnAt(n)' = ConnAt(n)
      BY <1>2, <2>1 DEF P!Conn, ConnAt
    <2>3. CASE c \in lossy
      BY <1>0, <2>1, <2>2, <2>3, LossStays
    <2>4. CASE c \notin lossy
      <3>1. PICK n \in overdue : c = P!Conn(n)
        BY <2>1, <2>4
      <3> QED
        BY <1>0, <2>1, <2>2, <3>1
    <2> QED
      BY <2>3, <2>4
  <1>3. CASE FeedClose
    <2>1. /\ UNCHANGED <<log, exchange, lossy, timedOut>>
          /\ \A n \in 1..Len(log) : P!Conn(n)' = P!Conn(n)
      BY <1>3, CloseEffect
    <2> QED
      BY <1>1, <2>1
  <1>4. ASSUME NEW dir \in Dir, Feed(dir), Clean PROVE Known(c)
    <2>1. \/ UNCHANGED <<exchange, pairer>>
          \/ Emits(dir, Complete(dir) + 1)
      BY <1>0, <1>4, CleanMoves
    <2>2. Complete(dir) + 1 \in Nat
      BY <1>0, <1>4, CleanMoves
    <2>3. Current \in lossy \/ (dir = "responses" => heldResponses = {})
      BY <1>0, <1>4, NoneHeld DEF Feed
    <2>4. CASE Emits(dir, Complete(dir) + 1)
      BY <1>0, <2>2, <2>3, <2>4, LossOfPush
    <2> QED
      BY <1>1, <2>1, <2>4 DEF pairer
  <1>5. ASSUME conn' = conn, conn \in ToSet(mishaps') PROVE Known(c)
    <2>1. ~FeedClose
      BY <1>0, <1>5 DEF FeedClose
    <2>2. ASSUME NEW dir \in Dir, NEW i \in Nat, Emits(dir, i) PROVE Known(c)
      BY <1>0, <1>5, <2>2, LossOfPush
    <2>3. ASSUME exchange' = exchange, UNCHANGED pairer \/ P!Expire PROVE Known(c)
      BY <1>1, <2>3 DEF pairer, P!Expire
    <2> QED
      BY <1>2, <2>1, <2>2, <2>3, HistoryKinds
  <1>6. ASSUME NEW dir \in Dir, Feed(dir), ~Clean PROVE Known(c)
    <2>1. conn' = conn /\ mishaps' = mishaps
      BY <1>6 DEF Feed, Arrives
    <2> QED
      BY <1>5, <1>6, <2>1 DEF Clean
  <1>7. ASSUME mishaps' = Append(mishaps, conn), conn' = conn PROVE Known(c)
    BY <1>5, <1>7, MishapFacts
  <1>8. CASE Quiet
    <2>1. exchange' = exchange /\ (UNCHANGED pairer \/ P!Expire \/ P!Sweep)
      BY <1>8 DEF Quiet
    <2> QED
      BY <1>1, <1>2, <2>1 DEF pairer, P!Expire
  <1> QED
    BY <1>0, <1>3, <1>4, <1>6, <1>7, <1>8, StepKinds DEF Strange, Skips, Arrives, world

LEMMA PositionsInvariant == Spec => [](Positions /\ LossKnown)
  <1>1. Init => Positions /\ LossKnown
    <2> SUFFICES ASSUME Init PROVE Positions /\ LossKnown
      OBVIOUS
    <2>1. Len(log) = 0 /\ lossy = {} /\ \A d \in Dir : Counter(d) = 0
      BY OriginFacts DEF Init, P!Init, Counter
    <2>2. \A d \in Dir : Complete(d) = 0
      BY DEF Init, Start, Complete
    <2> QED
      BY <2>1, <2>2 DEF Positions, InStep, Numbered, LossKnown
  <1> QED
    BY <1>1, TypesInvariant, FramedInvariant, PairerInvariant, LivesInvariant, PositionsStep,
       LossKnownStep, PTL DEF Spec

(* A pair is of one connection, and of one exchange where no response is    *)
(* informational, no request of the connection was given up and no mishap   *)
(* fell into it.                                                            *)
THEOREM RightExchangeHolds == Spec => []RightExchange
  <1>1. Types /\ PairerInv /\ Lives /\ Positions /\ LossKnown => RightExchange
    <2> SUFFICES ASSUME Types, PairerInv, Lives, Positions, LossKnown, NEW p \in paired
                 PROVE  /\ ConnAt(p[1]) = ConnAt(p[2])
                        /\ Undisturbed(ConnAt(p[1])) /\ NoInterim =>
                              exchange[p[1]] = exchange[p[2]]
      BY DEF RightExchange, ConnAt, NoInterim
    <2>1. p[1] \in 1..Len(log) /\ p[2] \in 1..Len(log)
      BY PairerTypes
    <2>2. P!Conn(p[1]) = P!Conn(p[2])
      BY SamePairer DEF PairerInv, PP!SameConnection
    <2>3. ConnAt(p[1]) = ConnAt(p[2])
      BY <2>1, <2>2 DEF Lives
    <2>4. ASSUME Undisturbed(ConnAt(p[1])), NoInterim PROVE exchange[p[1]] = exchange[p[2]]
      <3>1. P!Conn(p[1]) \notin lossy
        <4> SUFFICES ASSUME P!Conn(p[1]) \in lossy PROVE FALSE
          OBVIOUS
        <4>1. PICK n \in 1..Len(log) :
                 /\ P!Conn(n) = P!Conn(p[1])
                 /\ n \in timedOut \/ ConnAt(n) \in ToSet(mishaps)
          BY <2>4 DEF LossKnown
        <4>2. ConnAt(n) = ConnAt(p[1])
          BY <2>1, <4>1 DEF Lives
        <4> QED
          BY <2>4, <4>1, <4>2 DEF Undisturbed, ConnAt
      <3>2. log[p[1]].pos = log[p[2]].pos
        BY <3>1, SamePairer DEF PairerInv, PP!PairedByPosition
      <3>3. exchange[p[1]][2] = exchange[p[2]][2]
        BY <2>1, <2>3, <2>4, <3>2 DEF Positions, Numbered, Undisturbed
      <3>4. exchange[p[1]] \in Nat \X Nat /\ exchange[p[2]] \in Nat \X Nat
        <4>1. exchange \in Seq(Nat \X Nat) /\ Len(exchange) = Len(log)
          BY DEF Types, Lives
        <4>2. \A n \in 1..Len(exchange) : exchange[n] \in Nat \X Nat
          BY <4>1
        <4> QED
          BY <2>1, <4>1, <4>2
      <3> QED
        BY <2>3, <3>3, <3>4 DEF ConnAt
    <2> QED
      BY <2>3, <2>4
  <1> QED
    BY <1>1, TypesInvariant, PairerInvariant, LivesInvariant, PositionsInvariant, PTL
=============================================================================
