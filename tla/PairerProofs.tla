---------------------------- MODULE PairerProofs ----------------------------
(***************************************************************************)
(* Proofs about Pairer for every set of processes, descriptors and SSL*     *)
(* values, every limit on held responses and every number of messages.      *)
(***************************************************************************)
EXTENDS Pairer, FiniteSetTheorems, TLAPS

USE ConstantsAssumption

(* Every operation acts on a key of pairKey. *)
LEMMA KeysArePairKeys ==
    /\ \A o \in Origin : KeyOf(o) \in pairKey
    /\ \A pid \in Pid, fd \in Fd : keyFor(pid, fd, 0, FALSE) \in pairKey
    /\ \A pid \in Pid, ssl \in Ssl : keyFor(pid, 0, ssl, TRUE) \in pairKey
  <1>1. \A pid \in Pid, fd \in Fd : keyFor(pid, fd, 0, FALSE) \in pairKey
    BY DEF pairKey, keyFor
  <1>2. \A pid \in Pid, ssl \in Ssl : keyFor(pid, 0, ssl, TRUE) \in pairKey
    BY DEF pairKey, keyFor
  <1>3. ASSUME NEW o \in Origin PROVE KeyOf(o) \in pairKey
    <2>1. o.pid \in Pid /\ o.fd \in Fd /\ o.ssl \in Ssl /\ o.sslFallback \in BOOLEAN
      BY DEF Origin
    <2>2. CASE o.sslFallback = TRUE
      <3>1. KeyOf(o) = keyFor(o.pid, 0, o.ssl, TRUE)
        BY <2>2 DEF KeyOf, keyFor
      <3> QED
        BY <1>2, <2>1, <3>1
    <2>3. CASE o.sslFallback = FALSE
      <3>1. KeyOf(o) = keyFor(o.pid, o.fd, 0, FALSE)
        BY <2>3 DEF KeyOf, keyFor
      <3> QED
        BY <1>1, <2>1, <3>1
    <2> QED
      BY <2>1, <2>2, <2>3
  <1> QED
    BY <1>1, <1>2, <1>3

(* What an arrival does to the log and to the counters. *)
LEMMA AppendFacts ==
    ASSUME NEW S, NEW s \in Seq(S), NEW e \in S
    PROVE  /\ Append(s, e) \in Seq(S)
           /\ Len(Append(s, e)) = Len(s) + 1
           /\ Len(s) \in Nat
           /\ \A n \in 1..Len(s) : Append(s, e)[n] = s[n]
           /\ Append(s, e)[Len(s) + 1] = e
OBVIOUS

-----------------------------------------------------------------------------
(* Type correctness.  The bounds of the ghost counters need an invariant:   *)
(* a life of a key that was ended had at least one message.                 *)

Counted ==
    \A k \in pairKey :
        /\ reqs[k] <= Last /\ ress[k] <= Last
        /\ life[k] + (IF reqs[k] + ress[k] > 0 THEN 1 ELSE 0) <= Last

TypeInv == TypeOK /\ Counted /\ Last <= MaxMsgs

LEMMA RecordRequestFacts ==
    ASSUME TypeInv, NEW k \in pairKey, RecordRequest(k)
    PROVE  /\ Last' = Last + 1
           /\ Last \in Nat
           /\ log' \in Seq(Message)
           /\ Last' <= MaxMsgs
           /\ \A n \in 1..Last : log'[n] = log[n]
           /\ log'[Last + 1] = [isRequest |-> TRUE, conn |-> ConnOf(k), pos |-> reqs[k] + 1]
           /\ ConnOf(k) \in Connection
           /\ Counted'
           /\ reqs' \in [pairKey -> 0..MaxMsgs]
  <1> DEFINE m == [isRequest |-> TRUE, conn |-> ConnOf(k), pos |-> reqs[k] + 1]
  <1>1. reqs[k] \in Nat /\ ress[k] \in Nat /\ life[k] \in Nat /\ Last \in Nat
    BY DEF TypeInv, TypeOK, Last
  <1>2. reqs[k] + 1 <= MaxMsgs /\ life[k] <= MaxMsgs
    BY <1>1 DEF TypeInv, Counted, RecordRequest
  <1>3. ConnOf(k) \in Connection
    BY <1>1, <1>2 DEF ConnOf, Connection
  <1>4. m \in Message
    BY <1>1, <1>2, <1>3 DEF Message
  <1>5. log' = Append(log, m) /\ log \in Seq(Message)
    BY DEF RecordRequest, TypeInv, TypeOK
  <1> HIDE DEF m
  <1>6. /\ Last' = Last + 1 /\ log' \in Seq(Message)
        /\ \A n \in 1..Last : log'[n] = log[n]
        /\ log'[Last + 1] = m
    BY <1>4, <1>5, AppendFacts DEF Last
  <1>7. reqs' \in [pairKey -> 0..MaxMsgs]
    BY <1>1, <1>2 DEF TypeInv, TypeOK, RecordRequest
  <1>8. ASSUME NEW j \in pairKey
        PROVE  /\ reqs'[j] <= Last' /\ ress'[j] <= Last'
               /\ life'[j] + (IF reqs'[j] + ress'[j] > 0 THEN 1 ELSE 0) <= Last'
    <2>1. reqs[j] \in Nat /\ ress[j] \in Nat /\ life[j] \in Nat
      BY DEF TypeInv, TypeOK
    <2>2. life'[j] = life[j] /\ ress'[j] = ress[j] /\ reqs'[j] = (IF j = k THEN reqs[j] + 1 ELSE reqs[j])
      BY DEF TypeInv, TypeOK, RecordRequest
    <2>3. /\ reqs[j] <= Last /\ ress[j] <= Last
          /\ life[j] + (IF reqs[j] + ress[j] > 0 THEN 1 ELSE 0) <= Last
      BY DEF TypeInv, Counted
    <2> QED
      BY <1>1, <1>6, <2>1, <2>2, <2>3
  <1>9. Counted'
    BY <1>8 DEF Counted
  <1>10. Last' <= MaxMsgs
    BY <1>1, <1>6 DEF RecordRequest
  <1> QED
    BY <1>1, <1>3, <1>6, <1>7, <1>9, <1>10 DEF m

LEMMA RecordResponseFacts ==
    ASSUME TypeInv, NEW k \in pairKey, RecordResponse(k)
    PROVE  /\ Last' = Last + 1
           /\ Last \in Nat
           /\ log' \in Seq(Message)
           /\ Last' <= MaxMsgs
           /\ \A n \in 1..Last : log'[n] = log[n]
           /\ log'[Last + 1] = [isRequest |-> FALSE, conn |-> ConnOf(k), pos |-> ress[k] + 1]
           /\ ConnOf(k) \in Connection
           /\ Counted'
           /\ ress' \in [pairKey -> 0..MaxMsgs]
  <1> DEFINE m == [isRequest |-> FALSE, conn |-> ConnOf(k), pos |-> ress[k] + 1]
  <1>1. reqs[k] \in Nat /\ ress[k] \in Nat /\ life[k] \in Nat /\ Last \in Nat
    BY DEF TypeInv, TypeOK, Last
  <1>2. ress[k] + 1 <= MaxMsgs /\ life[k] <= MaxMsgs
    BY <1>1 DEF TypeInv, Counted, RecordResponse
  <1>3. ConnOf(k) \in Connection
    BY <1>1, <1>2 DEF ConnOf, Connection
  <1>4. m \in Message
    BY <1>1, <1>2, <1>3 DEF Message
  <1>5. log' = Append(log, m) /\ log \in Seq(Message)
    BY DEF RecordResponse, TypeInv, TypeOK
  <1> HIDE DEF m
  <1>6. /\ Last' = Last + 1 /\ log' \in Seq(Message)
        /\ \A n \in 1..Last : log'[n] = log[n]
        /\ log'[Last + 1] = m
    BY <1>4, <1>5, AppendFacts DEF Last
  <1>7. ress' \in [pairKey -> 0..MaxMsgs]
    BY <1>1, <1>2 DEF TypeInv, TypeOK, RecordResponse
  <1>8. ASSUME NEW j \in pairKey
        PROVE  /\ reqs'[j] <= Last' /\ ress'[j] <= Last'
               /\ life'[j] + (IF reqs'[j] + ress'[j] > 0 THEN 1 ELSE 0) <= Last'
    <2>1. reqs[j] \in Nat /\ ress[j] \in Nat /\ life[j] \in Nat
      BY DEF TypeInv, TypeOK
    <2>2. life'[j] = life[j] /\ reqs'[j] = reqs[j] /\ ress'[j] = (IF j = k THEN ress[j] + 1 ELSE ress[j])
      BY DEF TypeInv, TypeOK, RecordResponse
    <2>3. /\ reqs[j] <= Last /\ ress[j] <= Last
          /\ life[j] + (IF reqs[j] + ress[j] > 0 THEN 1 ELSE 0) <= Last
      BY DEF TypeInv, Counted
    <2> QED
      BY <1>1, <1>6, <2>1, <2>2, <2>3
  <1>9. Counted'
    BY <1>8 DEF Counted
  <1>10. Last' <= MaxMsgs
    BY <1>1, <1>6 DEF RecordResponse
  <1> QED
    BY <1>1, <1>3, <1>6, <1>7, <1>9, <1>10 DEF m

LEMMA RecordTypes ==
    ASSUME TypeInv, NEW k \in pairKey
    PROVE  /\ RecordRequest(k) =>
                 [isRequest |-> TRUE, conn |-> ConnOf(k), pos |-> reqs[k] + 1] \in Message
           /\ RecordResponse(k) =>
                 [isRequest |-> FALSE, conn |-> ConnOf(k), pos |-> ress[k] + 1] \in Message
  <1>1. reqs[k] \in Nat /\ ress[k] \in Nat /\ Last \in Nat
    BY DEF TypeInv, TypeOK, Last
  <1>2. reqs[k] <= Last /\ ress[k] <= Last
    BY DEF TypeInv, Counted
  <1>3. ASSUME RecordRequest(k)
        PROVE  [isRequest |-> TRUE, conn |-> ConnOf(k), pos |-> reqs[k] + 1] \in Message
    <2>1. ConnOf(k) \in Connection
      BY <1>3, RecordRequestFacts
    <2>2. reqs[k] + 1 \in 1..MaxMsgs
      BY <1>1, <1>2, <1>3 DEF RecordRequest
    <2> QED
      BY <2>1, <2>2 DEF Message
  <1>4. ASSUME RecordResponse(k)
        PROVE  [isRequest |-> FALSE, conn |-> ConnOf(k), pos |-> ress[k] + 1] \in Message
    <2>1. ConnOf(k) \in Connection
      BY <1>4, RecordResponseFacts
    <2>2. ress[k] + 1 \in 1..MaxMsgs
      BY <1>1, <1>2, <1>4 DEF RecordResponse
    <2> QED
      BY <2>1, <2>2 DEF Message
  <1> QED
    BY <1>3, <1>4

LEMMA TypeStep == TypeInv /\ [Next]_vars => TypeInv'
  <1> SUFFICES ASSUME TypeInv, [Next]_vars PROVE TypeInv'
    OBVIOUS
  <1>0. /\ Last \in Nat /\ Last <= MaxMsgs
        /\ log \in Seq(Message)
        /\ pending \subseteq 1..Last
        /\ heldResponses \subseteq 1..Last
        /\ overdue \subseteq pending
        /\ life \in [pairKey -> 0..MaxMsgs]
        /\ reqs \in [pairKey -> 0..MaxMsgs]
        /\ ress \in [pairKey -> 0..MaxMsgs]
        /\ paired \subseteq (1..Last) \X (1..Last)
        /\ closed \subseteq 1..Last
        /\ timedOut \subseteq 1..Last
        /\ lossy \subseteq Connection
    BY DEF TypeInv, TypeOK, Last
  <1>c. \A n \in 1..Last : Conn(n) \in Connection
    <2> SUFFICES ASSUME NEW n \in 1..Last PROVE Conn(n) \in Connection
      OBVIOUS
    <2>1. log[n] \in Message
      BY <1>0 DEF Last
    <2> QED
      BY <2>1 DEF Conn, Message
  <1>1. ASSUME NEW k \in pairKey, PushRequestMatched(k) PROVE TypeInv'
    <2>1. RecordRequest(k)
      BY <1>1 DEF PushRequestMatched
    <2>2. /\ Last' = Last + 1 /\ log' \in Seq(Message) /\ Last' <= MaxMsgs
          /\ Counted' /\ reqs' \in [pairKey -> 0..MaxMsgs]
      BY <2>1, RecordRequestFacts
    <2>3. UNCHANGED <<life, ress, closed, timedOut>>
      BY <2>1 DEF RecordRequest
    <2>4. PICK res \in heldResponses :
              /\ heldResponses' = heldResponses \ {res}
              /\ paired' = paired \cup {<<Last + 1, res>>}
      BY <1>1 DEF PushRequestMatched
    <2>5. UNCHANGED <<pending, overdue, lossy>>
      BY <1>1 DEF PushRequestMatched
    <2>6. paired' \subseteq (1..Last') \X (1..Last')
      BY <1>0, <2>2, <2>4
    <2>9. TypeOK'
      BY <1>0, <2>2, <2>3, <2>4, <2>5, <2>6 DEF TypeOK
    <2> QED
      BY <2>2, <2>9 DEF TypeInv
  <1>2. ASSUME NEW k \in pairKey, PushRequestPending(k) PROVE TypeInv'
    <2>1. RecordRequest(k)
      BY <1>2 DEF PushRequestPending
    <2>2. /\ Last' = Last + 1 /\ log' \in Seq(Message) /\ Last' <= MaxMsgs
          /\ Counted' /\ reqs' \in [pairKey -> 0..MaxMsgs]
      BY <2>1, RecordRequestFacts
    <2>3. UNCHANGED <<life, ress, closed, timedOut>>
      BY <2>1 DEF RecordRequest
    <2>4. /\ pending' = pending \cup {Last + 1}
          /\ UNCHANGED <<heldResponses, overdue, paired, lossy>>
      BY <1>2 DEF PushRequestPending
    <2>6. paired' \subseteq (1..Last') \X (1..Last')
      BY <1>0, <2>2, <2>4
    <2>9. TypeOK'
      BY <1>0, <2>2, <2>3, <2>4, <2>6 DEF TypeOK
    <2> QED
      BY <2>2, <2>9 DEF TypeInv
  <1>3. ASSUME NEW k \in pairKey, PushResponseMatched(k) PROVE TypeInv'
    <2>1. RecordResponse(k)
      BY <1>3 DEF PushResponseMatched
    <2>2. /\ Last' = Last + 1 /\ log' \in Seq(Message) /\ Last' <= MaxMsgs
          /\ Counted' /\ ress' \in [pairKey -> 0..MaxMsgs]
      BY <2>1, RecordResponseFacts
    <2>3. UNCHANGED <<life, reqs, closed, timedOut>>
      BY <2>1 DEF RecordResponse
    <2>4. PICK req \in pending :
              /\ pending' = pending \ {req}
              /\ overdue' = overdue \ {req}
              /\ paired' = paired \cup {<<req, Last + 1>>}
      BY <1>3 DEF PushResponseMatched
    <2>5. UNCHANGED <<heldResponses, lossy>>
      BY <1>3 DEF PushResponseMatched
    <2>6. paired' \subseteq (1..Last') \X (1..Last')
      BY <1>0, <2>2, <2>4
    <2>9. TypeOK'
      BY <1>0, <2>2, <2>3, <2>4, <2>5, <2>6 DEF TypeOK
    <2> QED
      BY <2>2, <2>9 DEF TypeInv
  <1>4. ASSUME NEW k \in pairKey, PushResponseHeld(k) PROVE TypeInv'
    <2>1. RecordResponse(k)
      BY <1>4 DEF PushResponseHeld
    <2>2. /\ Last' = Last + 1 /\ log' \in Seq(Message) /\ Last' <= MaxMsgs
          /\ Counted' /\ ress' \in [pairKey -> 0..MaxMsgs]
      BY <2>1, RecordResponseFacts
    <2>3. UNCHANGED <<life, reqs, closed, timedOut>>
      BY <2>1 DEF RecordResponse
    <2>4. UNCHANGED <<pending, overdue, paired>>
      BY <1>4 DEF PushResponseHeld
    <2>5. heldResponses' \subseteq heldResponses \cup {Last + 1}
      BY <1>4 DEF PushResponseHeld, holdResponse
    <2>6. lossy' = lossy \/ \E old \in heldResponses : lossy' = lossy \cup {Conn(old)}
      BY <1>4 DEF PushResponseHeld, holdResponse
    <2>7. lossy' \subseteq Connection
      BY <1>0, <1>c, <2>6
    <2>8. paired' \subseteq (1..Last') \X (1..Last')
      BY <1>0, <2>2, <2>4
    <2>9. TypeOK'
      BY <1>0, <2>2, <2>3, <2>4, <2>5, <2>7, <2>8 DEF TypeOK
    <2> QED
      BY <2>2, <2>9 DEF TypeInv
  <1>5. ASSUME NEW k \in pairKey, CloseKey(k) PROVE TypeInv'
    <2>1. reqs[k] \in Nat /\ ress[k] \in Nat /\ life[k] \in Nat
      BY <1>0
    <2>2. /\ reqs[k] + ress[k] > 0
          /\ life' = [life EXCEPT ![k] = @ + 1]
          /\ reqs' = [reqs EXCEPT ![k] = 0]
          /\ ress' = [ress EXCEPT ![k] = 0]
          /\ UNCHANGED <<log, paired, timedOut, lossy>>
      BY <1>5 DEF CloseKey
    <2>3. Last' = Last
      BY <2>2 DEF Last
    <2>4. life[k] + 1 <= Last
      BY <2>1, <2>2 DEF TypeInv, Counted
    <2>5. ASSUME NEW j \in pairKey
          PROVE  /\ reqs'[j] <= Last /\ ress'[j] <= Last
                 /\ life'[j] + (IF reqs'[j] + ress'[j] > 0 THEN 1 ELSE 0) <= Last
      <3>1. CASE j = k
        BY <1>0, <2>1, <2>2, <2>4, <3>1
      <3>2. CASE j # k
        <4>1. reqs'[j] = reqs[j] /\ ress'[j] = ress[j] /\ life'[j] = life[j]
          BY <1>0, <2>2, <3>2
        <4> QED
          BY <4>1 DEF TypeInv, Counted
      <3> QED
        BY <3>1, <3>2
    <2>6. Counted'
      BY <2>3, <2>5 DEF Counted
    <2>7. /\ life' \in [pairKey -> 0..MaxMsgs]
          /\ reqs' \in [pairKey -> 0..MaxMsgs]
          /\ ress' \in [pairKey -> 0..MaxMsgs]
      BY <1>0, <2>1, <2>2, <2>4
    <2>8. /\ pending' \subseteq pending
          /\ overdue' \subseteq pending'
          /\ heldResponses' \subseteq heldResponses
          /\ closed' \subseteq closed \cup pending
      BY <1>0, <1>5 DEF CloseKey, Of
    <2>9. TypeOK'
      BY <1>0, <2>2, <2>3, <2>7, <2>8 DEF TypeOK
    <2> QED
      BY <1>0, <2>3, <2>6, <2>9 DEF TypeInv
  <1>6. CASE Expire
    <2>2. overdue' \subseteq pending
      BY <1>0, <1>6 DEF Expire
    <2>3. UNCHANGED <<log, pending, heldResponses, life, reqs, ress, paired, closed, timedOut, lossy>>
      BY <1>6 DEF Expire
    <2>4. Last' = Last
      BY <2>3 DEF Last
    <2>5. Counted'
      BY <2>3, <2>4 DEF TypeInv, Counted
    <2>6. TypeOK'
      BY <1>0, <2>2, <2>3, <2>4 DEF TypeOK
    <2> QED
      BY <1>0, <2>4, <2>5, <2>6 DEF TypeInv
  <1>7. CASE Sweep
    <2>1. lossy' \subseteq Connection
      <3>1. \A n \in overdue : Conn(n) \in Connection
        BY <1>0, <1>c
      <3> QED
        BY <1>0, <1>7, <3>1 DEF Sweep
    <2>2. /\ pending' \subseteq pending /\ overdue' = {} /\ timedOut' \subseteq timedOut \cup pending
      BY <1>0, <1>7 DEF Sweep
    <2>3. UNCHANGED <<log, heldResponses, life, reqs, ress, paired, closed>>
      BY <1>7 DEF Sweep
    <2>4. Last' = Last
      BY <2>3 DEF Last
    <2>5. Counted'
      BY <2>3, <2>4 DEF TypeInv, Counted
    <2>6. TypeOK'
      BY <1>0, <2>1, <2>2, <2>3, <2>4 DEF TypeOK
    <2> QED
      BY <1>0, <2>4, <2>5, <2>6 DEF TypeInv
  <1>8. CASE UNCHANGED vars
    BY <1>8 DEF TypeInv, TypeOK, Counted, vars, Last
  <1> QED
    BY <1>1, <1>2, <1>3, <1>4, <1>5, <1>6, <1>7, <1>8, KeysArePairKeys
       DEF Next, Push, Close, CloseSSL

LEMMA TypeInvariant == Spec => []TypeInv
  <1>1. Init => TypeInv
    BY DEF Init, TypeInv, TypeOK, Counted, Last
  <1> QED
    BY <1>1, TypeStep, PTL DEF Spec

(* Every reachable state is well typed.                                     *)
THEOREM TypeCorrect == Spec => []TypeOK
  BY TypeInvariant, PTL DEF TypeInv

-----------------------------------------------------------------------------
(* What waits belongs to the connection its key stands for now, requests in *)
(* pending and responses in heldResponses, and never both for one key.      *)

Current(n) == Conn(n) = ConnOf(Conn(n).key)

Waiting ==
    /\ \A n \in pending : log[n].isRequest = TRUE /\ Current(n)
    /\ \A n \in heldResponses : log[n].isRequest = FALSE /\ Current(n)
    /\ NeverBothWaiting

(* An arrival leaves the log behind it alone and no connection changes.     *)
LEMMA ArrivalFacts ==
    ASSUME TypeInv, NEW k \in pairKey, RecordRequest(k) \/ RecordResponse(k)
    PROVE  /\ Last \in Nat /\ Last' = Last + 1
           /\ \A n \in 1..Last : log'[n] = log[n] /\ Conn(n)' = Conn(n)
           /\ \A n : n = Last + 1 => Conn(n)' = ConnOf(k)
           /\ \A n : n = Last + 1 =>
                 log'[n].isRequest = (IF RecordRequest(k) THEN TRUE ELSE FALSE)
           /\ \A j \in pairKey : ConnOf(j)' = ConnOf(j)
           /\ ConnOf(k).key = k
  <1>1. CASE RecordRequest(k)
    <2>1. UNCHANGED life
      BY <1>1 DEF RecordRequest
    <2>2. /\ Last \in Nat /\ Last' = Last + 1
          /\ \A n \in 1..Last : log'[n] = log[n]
          /\ log'[Last + 1] = [isRequest |-> TRUE, conn |-> ConnOf(k), pos |-> reqs[k] + 1]
      BY <1>1, RecordRequestFacts
    <2>6. log'[Last + 1].conn = ConnOf(k) /\ log'[Last + 1].isRequest = TRUE
      BY <2>2
    <2>3. \A n \in 1..Last : Conn(n)' = Conn(n)
      BY <2>2 DEF Conn
    <2>4. \A n : n = Last + 1 => Conn(n)' = ConnOf(k)
      BY <2>6 DEF Conn
    <2>5. (\A j \in pairKey : ConnOf(j)' = ConnOf(j)) /\ ConnOf(k).key = k
      BY <2>1 DEF ConnOf
    <2> QED
      BY <1>1, <2>2, <2>3, <2>4, <2>5, <2>6
  <1>2. CASE RecordResponse(k) /\ ~RecordRequest(k)
    <2>1. UNCHANGED life
      BY <1>2 DEF RecordResponse
    <2>2. /\ Last \in Nat /\ Last' = Last + 1
          /\ \A n \in 1..Last : log'[n] = log[n]
          /\ log'[Last + 1] = [isRequest |-> FALSE, conn |-> ConnOf(k), pos |-> ress[k] + 1]
      BY <1>2, RecordResponseFacts
    <2>6. log'[Last + 1].conn = ConnOf(k) /\ log'[Last + 1].isRequest = FALSE
      BY <2>2
    <2>3. \A n \in 1..Last : Conn(n)' = Conn(n)
      BY <2>2 DEF Conn
    <2>4. \A n : n = Last + 1 => Conn(n)' = ConnOf(k)
      BY <2>6 DEF Conn
    <2>5. (\A j \in pairKey : ConnOf(j)' = ConnOf(j)) /\ ConnOf(k).key = k
      BY <2>1 DEF ConnOf
    <2> QED
      BY <1>2, <2>2, <2>3, <2>4, <2>5, <2>6
  <1> QED
    BY <1>1, <1>2

LEMMA RecordsDiffer ==
    ASSUME TypeInv, NEW k \in pairKey, RecordResponse(k) PROVE ~RecordRequest(k)
  <1> SUFFICES ASSUME RecordRequest(k) PROVE FALSE
    OBVIOUS
  <1>1. reqs[k] \in Nat /\ reqs \in [pairKey -> 0..MaxMsgs]
    BY DEF TypeInv, TypeOK
  <1>2. reqs'[k] = reqs[k] + 1
    BY <1>1 DEF RecordRequest
  <1>3. reqs'[k] = reqs[k]
    BY DEF RecordResponse
  <1> QED
    BY <1>1, <1>2, <1>3

LEMMA WaitingTypes ==
    ASSUME TypeInv
    PROVE  /\ pending \subseteq 1..Last /\ heldResponses \subseteq 1..Last
           /\ overdue \subseteq pending /\ Last \in Nat
           /\ paired \subseteq (1..Last) \X (1..Last)
           /\ \A n \in 1..Last : Conn(n).key \in pairKey
  <1>1. log \in Seq(Message) /\ Last \in Nat
    BY DEF TypeInv, TypeOK, Last
  <1>2. ASSUME NEW n \in 1..Last PROVE Conn(n).key \in pairKey
    <2>1. log[n] \in Message
      BY <1>1 DEF Last
    <2> QED
      BY <2>1 DEF Message, Connection, Conn
  <1> QED
    BY <1>1, <1>2 DEF TypeInv, TypeOK

LEMMA WaitingStep == TypeInv /\ Waiting /\ [Next]_vars => Waiting'
  <1> SUFFICES ASSUME TypeInv, Waiting, [Next]_vars PROVE Waiting'
    OBVIOUS
  <1>0. /\ pending \subseteq 1..Last /\ heldResponses \subseteq 1..Last
        /\ overdue \subseteq pending /\ Last \in Nat
        /\ \A n \in 1..Last : Conn(n).key \in pairKey
    BY WaitingTypes
  <1>w. /\ \A n \in pending : log[n].isRequest = TRUE /\ Current(n)
        /\ \A n \in heldResponses : log[n].isRequest = FALSE /\ Current(n)
        /\ \A r \in pending, s \in heldResponses : Conn(r).key # Conn(s).key
    BY DEF Waiting, NeverBothWaiting
  <1>a. ASSUME NEW k \in pairKey, RecordRequest(k) \/ RecordResponse(k), NEW n \in 1..Last,
               Current(n)
        PROVE  Current(n)'
    BY <1>0, <1>a, ArrivalFacts DEF Current
  <1>1. ASSUME NEW k \in pairKey, PushRequestMatched(k) PROVE Waiting'
    <2>1. RecordRequest(k) /\ pending' = pending /\ heldResponses' \subseteq heldResponses
      BY <1>1 DEF PushRequestMatched
    <2>2. \A n \in 1..Last : log'[n] = log[n] /\ Conn(n)' = Conn(n)
      BY <2>1, ArrivalFacts
    <2> QED
      BY <1>0, <1>w, <1>a, <2>1, <2>2 DEF Waiting, NeverBothWaiting
  <1>2. ASSUME NEW k \in pairKey, PushRequestPending(k) PROVE Waiting'
    <2>1. /\ RecordRequest(k) /\ pending' = pending \cup {Last + 1}
          /\ heldResponses' = heldResponses
          /\ \A n \in heldResponses : Conn(n).key # k
      BY <1>2 DEF PushRequestPending, Of
    <2>2. \A n \in 1..Last : log'[n] = log[n] /\ Conn(n)' = Conn(n)
      BY <2>1, ArrivalFacts
    <2>3. ASSUME NEW n, n = Last + 1
          PROVE  log'[n].isRequest = TRUE /\ Current(n)' /\ Conn(n)'.key = k
      BY <2>1, <2>3, ArrivalFacts DEF Current
    <2>4. \A n \in pending' : log'[n].isRequest = TRUE /\ Current(n)'
      BY <1>0, <1>w, <1>a, <2>1, <2>2, <2>3
    <2>5. \A n \in heldResponses' : log'[n].isRequest = FALSE /\ Current(n)'
      BY <1>0, <1>w, <1>a, <2>1, <2>2, <2>3
    <2>6. ASSUME NEW r \in pending', NEW s \in heldResponses' PROVE Conn(r)'.key # Conn(s)'.key
      <3>1. s \in 1..Last /\ Conn(s)' = Conn(s)
        BY <1>0, <2>1, <2>2
      <3>2. CASE r = Last + 1
        <4>1. Conn(r)'.key = k
          BY <2>3, <3>2
        <4> QED
          BY <2>1, <3>1, <4>1
      <3>3. CASE r # Last + 1
        <4>1. Conn(r)' = Conn(r)
          BY <1>0, <2>1, <2>2, <3>3
        <4> QED
          BY <1>w, <2>1, <3>1, <3>3, <4>1
      <3> QED
        BY <3>2, <3>3
    <2> QED
      BY <2>4, <2>5, <2>6 DEF Waiting, NeverBothWaiting
  <1>3. ASSUME NEW k \in pairKey, PushResponseMatched(k) PROVE Waiting'
    <2>1. RecordResponse(k) /\ pending' \subseteq pending /\ heldResponses' = heldResponses
      BY <1>3 DEF PushResponseMatched
    <2>2. \A n \in 1..Last : log'[n] = log[n] /\ Conn(n)' = Conn(n)
      BY <2>1, ArrivalFacts
    <2> QED
      BY <1>0, <1>w, <1>a, <2>1, <2>2 DEF Waiting, NeverBothWaiting
  <1>4. ASSUME NEW k \in pairKey, PushResponseHeld(k) PROVE Waiting'
    <2>1. /\ RecordResponse(k) /\ pending' = pending
          /\ heldResponses' \subseteq heldResponses \cup {Last + 1}
          /\ \A n \in pending : Conn(n).key # k
      BY <1>4 DEF PushResponseHeld, holdResponse, Of
    <2>2. \A n \in 1..Last : log'[n] = log[n] /\ Conn(n)' = Conn(n)
      BY <2>1, ArrivalFacts
    <2>3. ASSUME NEW n, n = Last + 1
          PROVE  log'[n].isRequest = FALSE /\ Current(n)' /\ Conn(n)'.key = k
      BY <2>1, <2>3, ArrivalFacts, RecordsDiffer DEF Current
    <2>4. \A n \in pending' : log'[n].isRequest = TRUE /\ Current(n)'
      BY <1>0, <1>w, <1>a, <2>1, <2>2, <2>3
    <2>5. \A n \in heldResponses' : log'[n].isRequest = FALSE /\ Current(n)'
      BY <1>0, <1>w, <1>a, <2>1, <2>2, <2>3
    <2>6. ASSUME NEW r \in pending', NEW s \in heldResponses' PROVE Conn(r)'.key # Conn(s)'.key
      <3>1. r \in 1..Last /\ Conn(r)' = Conn(r)
        BY <1>0, <2>1, <2>2
      <3>2. CASE s = Last + 1
        <4>1. Conn(s)'.key = k
          BY <2>3, <3>2
        <4> QED
          BY <2>1, <3>1, <4>1
      <3>3. CASE s # Last + 1
        <4>1. Conn(s)' = Conn(s)
          BY <1>0, <2>1, <2>2, <3>3
        <4> QED
          BY <1>w, <2>1, <3>1, <3>3, <4>1
      <3> QED
        BY <3>2, <3>3
    <2> QED
      BY <2>4, <2>5, <2>6 DEF Waiting, NeverBothWaiting
  <1>5. ASSUME NEW k \in pairKey, CloseKey(k) PROVE Waiting'
    <2>1. /\ log' = log /\ life' = [life EXCEPT ![k] = @ + 1]
          /\ \A n \in pending' : n \in pending /\ Conn(n).key # k
          /\ \A n \in heldResponses' : n \in heldResponses /\ Conn(n).key # k
      BY <1>5 DEF CloseKey, Of
    <2>2. \A j \in pairKey : j # k => ConnOf(j)' = ConnOf(j)
      BY <2>1 DEF ConnOf, TypeInv, TypeOK
    <2>3. ASSUME NEW n \in 1..Last, Current(n), Conn(n).key # k PROVE Current(n)'
      BY <1>0, <2>1, <2>2, <2>3 DEF Current, Conn
    <2>4. \A n : Conn(n)' = Conn(n)
      BY <2>1 DEF Conn
    <2> QED
      BY <1>0, <1>w, <2>1, <2>3, <2>4 DEF Waiting, NeverBothWaiting
  <1>6. CASE Expire
    BY <1>6, <1>w DEF Expire, Waiting, NeverBothWaiting, Current, Conn, ConnOf
  <1>7. CASE Sweep
    <2>1. pending' \subseteq pending /\ UNCHANGED <<log, heldResponses, life>>
      BY <1>7 DEF Sweep
    <2> QED
      BY <1>w, <2>1 DEF Waiting, NeverBothWaiting, Current, Conn, ConnOf
  <1>8. CASE UNCHANGED vars
    BY <1>8, <1>w DEF vars, Waiting, NeverBothWaiting, Current, Conn, ConnOf
  <1> QED
    BY <1>1, <1>2, <1>3, <1>4, <1>5, <1>6, <1>7, <1>8, KeysArePairKeys
       DEF Next, Push, Close, CloseSSL

LEMMA WaitingInvariant == Spec => []Waiting
  <1>1. Init => Waiting
    BY DEF Init, Waiting, NeverBothWaiting
  <1> QED
    BY <1>1, TypeInvariant, WaitingStep, PTL DEF Spec

(* A key never has a waiting request and a held response at once.           *)
THEOREM NeverBothWaitingHolds == Spec => []NeverBothWaiting
  BY WaitingInvariant, PTL DEF Waiting

-----------------------------------------------------------------------------
(* Pairs join one connection.                                               *)

(* No step rewrites the log.                                                *)
LEMMA LogGrows ==
    ASSUME TypeInv, [Next]_vars
    PROVE  /\ Last \in Nat /\ Last' \in Nat /\ Last <= Last'
           /\ \A n \in 1..Last : log'[n] = log[n] /\ Conn(n)' = Conn(n)
  <1>1. Last \in Nat
    BY WaitingTypes
  <1>2. ASSUME UNCHANGED log
        PROVE  Last' = Last /\ \A n \in 1..Last : log'[n] = log[n] /\ Conn(n)' = Conn(n)
    BY <1>2 DEF Last, Conn
  <1>3. CASE UNCHANGED log
    BY <1>1, <1>2, <1>3
  <1>4. ASSUME NEW k \in pairKey, RecordRequest(k) \/ RecordResponse(k)
        PROVE  /\ Last' = Last + 1
               /\ \A n \in 1..Last : log'[n] = log[n] /\ Conn(n)' = Conn(n)
    BY <1>4, ArrivalFacts
  <1>5. \/ UNCHANGED log
        \/ \E k \in pairKey : RecordRequest(k) \/ RecordResponse(k)
    BY KeysArePairKeys DEF Next, Push, Close, CloseSSL, PushRequestMatched, PushRequestPending,
       PushResponseMatched, PushResponseHeld, CloseKey, Expire, Sweep, vars
  <1> QED
    BY <1>1, <1>3, <1>4, <1>5

(* Where a new pair comes from: the message that arrives and the oldest     *)
(* message of the other side of its key.                                    *)
LEMMA NewPair ==
    ASSUME TypeInv, Waiting, [Next]_vars
    PROVE  \/ paired' = paired
           \/ \E k \in pairKey, q \in (1..Last') \X (1..Last') :
                 /\ paired' = paired \cup {q}
                 /\ Conn(q[1])' = ConnOf(k) /\ Conn(q[2])' = ConnOf(k)
                 /\ log'[q[1]].isRequest = TRUE /\ log'[q[2]].isRequest = FALSE
                 /\ \/ /\ PushRequestMatched(k)
                       /\ q[1] = Last + 1 /\ IsOldest(q[2], Of(k, heldResponses))
                       /\ heldResponses' = heldResponses \ {q[2]}
                    \/ /\ PushResponseMatched(k)
                       /\ q[2] = Last + 1 /\ IsOldest(q[1], Of(k, pending))
                       /\ pending' = pending \ {q[1]}
  <1>0. /\ pending \subseteq 1..Last /\ heldResponses \subseteq 1..Last /\ Last \in Nat
    BY WaitingTypes
  <1>1. ASSUME NEW k \in pairKey, PushRequestMatched(k)
        PROVE  \E q \in (1..Last') \X (1..Last') :
                 /\ paired' = paired \cup {q}
                 /\ Conn(q[1])' = ConnOf(k) /\ Conn(q[2])' = ConnOf(k)
                 /\ log'[q[1]].isRequest = TRUE /\ log'[q[2]].isRequest = FALSE
                 /\ q[1] = Last + 1 /\ IsOldest(q[2], Of(k, heldResponses))
                 /\ heldResponses' = heldResponses \ {q[2]}
    <2>1. PICK res \in heldResponses :
              /\ IsOldest(res, Of(k, heldResponses))
              /\ heldResponses' = heldResponses \ {res}
              /\ paired' = paired \cup {<<Last + 1, res>>}
      BY <1>1 DEF PushRequestMatched
    <2>2. RecordRequest(k)
      BY <1>1 DEF PushRequestMatched
    <2>n. PICK n \in Nat : n = Last + 1
      BY <1>0
    <2> DEFINE q == <<n, res>>
    <2>3. q[1] = n /\ q[2] = res /\ res \in 1..Last
      BY <1>0
    <2>a. Last' = Last + 1
      BY <2>2, ArrivalFacts
    <2>4. q \in (1..Last') \X (1..Last')
      BY <1>0, <2>3, <2>n, <2>a
    <2>5. Conn(res) = ConnOf(k) /\ log[res].isRequest = FALSE
      BY <2>1 DEF Waiting, Current, IsOldest, Of
    <2>6. Conn(q[2])' = ConnOf(k) /\ log'[q[2]].isRequest = FALSE
      BY <2>2, <2>3, <2>5, ArrivalFacts
    <2>7. Conn(q[1])' = ConnOf(k) /\ log'[q[1]].isRequest = TRUE
      BY <2>2, <2>3, <2>n, ArrivalFacts
    <2> HIDE DEF q
    <2>8. paired' = paired \cup {q}
      BY <2>1, <2>n DEF q
    <2> QED
      BY <2>1, <2>3, <2>4, <2>6, <2>7, <2>8, <2>n
  <1>2. ASSUME NEW k \in pairKey, PushResponseMatched(k)
        PROVE  \E q \in (1..Last') \X (1..Last') :
                 /\ paired' = paired \cup {q}
                 /\ Conn(q[1])' = ConnOf(k) /\ Conn(q[2])' = ConnOf(k)
                 /\ log'[q[1]].isRequest = TRUE /\ log'[q[2]].isRequest = FALSE
                 /\ q[2] = Last + 1 /\ IsOldest(q[1], Of(k, pending))
                 /\ pending' = pending \ {q[1]}
    <2>1. PICK req \in pending :
              /\ IsOldest(req, Of(k, pending))
              /\ pending' = pending \ {req}
              /\ paired' = paired \cup {<<req, Last + 1>>}
      BY <1>2 DEF PushResponseMatched
    <2>2. RecordResponse(k)
      BY <1>2 DEF PushResponseMatched
    <2>n. PICK n \in Nat : n = Last + 1
      BY <1>0
    <2> DEFINE q == <<req, n>>
    <2>3. q[2] = n /\ q[1] = req /\ req \in 1..Last
      BY <1>0
    <2>a. Last' = Last + 1
      BY <2>2, ArrivalFacts
    <2>4. q \in (1..Last') \X (1..Last')
      BY <1>0, <2>3, <2>n, <2>a
    <2>5. Conn(req) = ConnOf(k) /\ log[req].isRequest = TRUE
      BY <2>1 DEF Waiting, Current, IsOldest, Of
    <2>6. Conn(q[1])' = ConnOf(k) /\ log'[q[1]].isRequest = TRUE
      BY <2>2, <2>3, <2>5, ArrivalFacts
    <2>7. Conn(q[2])' = ConnOf(k) /\ log'[q[2]].isRequest = FALSE
      BY <2>2, <2>3, <2>n, ArrivalFacts, RecordsDiffer
    <2> HIDE DEF q
    <2>8. paired' = paired \cup {q}
      BY <2>1, <2>n DEF q
    <2> QED
      BY <2>1, <2>3, <2>4, <2>6, <2>7, <2>8, <2>n
  <1>3. \/ paired' = paired
        \/ \E k \in pairKey : PushRequestMatched(k) \/ PushResponseMatched(k)
    BY KeysArePairKeys DEF Next, Push, Close, CloseSSL, PushRequestPending,
       PushResponseHeld, CloseKey, Expire, Sweep, vars
  <1>4. ASSUME NEW k \in pairKey, PushRequestMatched(k) \/ PushResponseMatched(k)
        PROVE  \E q \in (1..Last') \X (1..Last') :
                 /\ paired' = paired \cup {q}
                 /\ Conn(q[1])' = ConnOf(k) /\ Conn(q[2])' = ConnOf(k)
                 /\ log'[q[1]].isRequest = TRUE /\ log'[q[2]].isRequest = FALSE
                 /\ \/ /\ PushRequestMatched(k)
                       /\ q[1] = Last + 1 /\ IsOldest(q[2], Of(k, heldResponses))
                       /\ heldResponses' = heldResponses \ {q[2]}
                    \/ /\ PushResponseMatched(k)
                       /\ q[2] = Last + 1 /\ IsOldest(q[1], Of(k, pending))
                       /\ pending' = pending \ {q[1]}
    <2>1. CASE PushRequestMatched(k)
      BY <2>1, <1>1, Zenon
    <2>2. CASE PushResponseMatched(k)
      BY <2>2, <1>2, Zenon
    <2> QED
      BY <1>4, <2>1, <2>2
  <1> QED
    BY <1>3, <1>4, Zenon

LEMMA SameConnectionStep ==
    TypeInv /\ Waiting /\ SameConnection /\ [Next]_vars => SameConnection'
  <1> SUFFICES ASSUME TypeInv, Waiting, SameConnection, [Next]_vars, NEW p \in paired'
               PROVE  /\ Conn(p[1])' = Conn(p[2])'
                      /\ log'[p[1]].isRequest /\ ~log'[p[2]].isRequest
    BY DEF SameConnection
  <1>1. CASE p \in paired
    <2>1. p[1] \in 1..Last /\ p[2] \in 1..Last
      BY <1>1, WaitingTypes
    <2> QED
      BY <1>1, <2>1, LogGrows DEF SameConnection
  <1>2. CASE p \notin paired
    BY <1>2, NewPair
  <1> QED
    BY <1>1, <1>2

(* No event joins two connections, nor two messages of one direction.       *)
THEOREM SameConnectionHolds == Spec => []SameConnection
  <1>1. Init => SameConnection
    BY DEF Init, SameConnection
  <1> QED
    BY <1>1, TypeInvariant, WaitingInvariant, SameConnectionStep, PTL DEF Spec

-----------------------------------------------------------------------------
(* Pairings of a connection do not cross: what was paired came before all   *)
(* that still waits on its connection.                                      *)

PairedFirst ==
    /\ \A p \in paired, r \in pending : Conn(p[1]) = Conn(r) => p[1] < r
    /\ \A p \in paired, s \in heldResponses : Conn(p[2]) = Conn(s) => p[2] < s

Order == PairedFirst /\ InOrder

(* The messages that wait after a step waited before, or have just come.    *)
LEMMA StillWaiting ==
    ASSUME TypeInv, [Next]_vars
    PROVE  pending' \cup heldResponses' \subseteq pending \cup heldResponses \cup {Last + 1}
           /\ pending' \subseteq pending \cup {Last + 1}
           /\ heldResponses' \subseteq heldResponses \cup {Last + 1}
  <1>1. /\ pending' \subseteq pending \cup {Last + 1}
        /\ heldResponses' \subseteq heldResponses \cup {Last + 1}
    BY KeysArePairKeys DEF Next, Push, Close, CloseSSL, PushRequestMatched, PushRequestPending,
       PushResponseMatched, PushResponseHeld, holdResponse, CloseKey, Expire, Sweep, vars
  <1> QED
    BY <1>1

LEMMA OrderStep ==
    TypeInv /\ Waiting /\ SameConnection /\ Order /\ [Next]_vars => Order'
  <1> SUFFICES ASSUME TypeInv, Waiting, SameConnection, Order, [Next]_vars PROVE Order'
    OBVIOUS
  <1>0. /\ pending \subseteq 1..Last /\ heldResponses \subseteq 1..Last /\ Last \in Nat
        /\ paired \subseteq (1..Last) \X (1..Last)
        /\ \A n \in 1..Last : Conn(n)' = Conn(n)
        /\ pending' \subseteq pending \cup {Last + 1}
        /\ heldResponses' \subseteq heldResponses \cup {Last + 1}
    BY WaitingTypes, LogGrows, StillWaiting
  <1>1. \A p \in paired : /\ p[1] \in 1..Last /\ p[2] \in 1..Last
                          /\ Conn(p[1])' = Conn(p[1]) /\ Conn(p[2])' = Conn(p[2])
                          /\ Conn(p[1]) = Conn(p[2])
    BY <1>0 DEF SameConnection
  <1>2. ASSUME NEW p \in paired, NEW r \in pending', Conn(p[1])' = Conn(r)' PROVE p[1] < r
    <2>1. CASE r \in pending
      <3>1. Conn(r)' = Conn(r)
        BY <1>0, <2>1
      <3> QED
        BY <1>1, <1>2, <2>1, <3>1 DEF Order, PairedFirst
    <2>2. CASE r = Last + 1
      BY <1>0, <1>1, <2>2
    <2> QED
      BY <1>0, <2>1, <2>2
  <1>3. ASSUME NEW p \in paired, NEW s \in heldResponses', Conn(p[2])' = Conn(s)' PROVE p[2] < s
    <2>1. CASE s \in heldResponses
      <3>1. Conn(s)' = Conn(s)
        BY <1>0, <2>1
      <3> QED
        BY <1>1, <1>3, <2>1, <3>1 DEF Order, PairedFirst
    <2>2. CASE s = Last + 1
      BY <1>0, <1>1, <2>2
    <2> QED
      BY <1>0, <2>1, <2>2
  <1>4. ASSUME NEW p \in paired, NEW q \in paired, Conn(p[1])' = Conn(q[1])'
        PROVE  p[1] < q[1] <=> p[2] < q[2]
    BY <1>1, <1>4 DEF Order, InOrder
  <1>5. CASE paired' = paired
    BY <1>2, <1>3, <1>4, <1>5 DEF Order, PairedFirst, InOrder
  <1>6. ASSUME NEW k \in pairKey, NEW q \in (1..Last') \X (1..Last'),
               paired' = paired \cup {q},
               Conn(q[1])' = ConnOf(k), Conn(q[2])' = ConnOf(k),
               PushRequestMatched(k),
               q[1] = Last + 1, IsOldest(q[2], Of(k, heldResponses)),
               heldResponses' = heldResponses \ {q[2]}
        PROVE  Order'
    <2>1. /\ pending' = pending /\ ConnOf(k).key = k
          /\ q[2] \in heldResponses /\ Conn(q[2]).key = k /\ q[2] \in 1..Last
          /\ \A s \in heldResponses : Conn(s).key = k => q[2] <= s
      BY <1>0, <1>6 DEF PushRequestMatched, IsOldest, Of, ConnOf
    <2>2. ASSUME NEW r \in pending' PROVE Conn(r)' # Conn(q[1])'
      BY <1>0, <1>6, <2>1 DEF Waiting, NeverBothWaiting
    <2>3. ASSUME NEW s \in heldResponses', Conn(q[2])' = Conn(s)' PROVE q[2] < s
      <3>1. s \in heldResponses /\ s # q[2] /\ s \in 1..Last
        BY <1>0, <1>6
      <3>2. Conn(s).key = k
        BY <1>0, <1>6, <2>1, <2>3, <3>1
      <3> QED
        BY <2>1, <3>1, <3>2
    <2>4. ASSUME NEW p \in paired, Conn(p[1])' = Conn(q[1])'
          PROVE  p[1] < q[1] /\ p[2] < q[2]
      <3>1. Conn(p[2]) = Conn(q[2])
        BY <1>0, <1>1, <1>6, <2>1, <2>4
      <3> QED
        BY <1>0, <1>1, <1>6, <2>1, <3>1 DEF Order, PairedFirst
    <2>5. PairedFirst'
      BY <1>2, <1>3, <1>6, <2>2, <2>3 DEF PairedFirst
    <2>6. ASSUME NEW p1 \in paired', NEW p2 \in paired', Conn(p1[1])' = Conn(p2[1])'
          PROVE  p1[1] < p2[1] <=> p1[2] < p2[2]
      <3>1. CASE p1 \in paired /\ p2 \in paired
        BY <1>4, <2>6, <3>1
      <3>2. CASE p1 \in paired /\ p2 = q
        BY <2>4, <2>6, <3>2
      <3>3. CASE p1 = q /\ p2 \in paired
        <4>1. p2[1] < q[1] /\ p2[2] < q[2]
          BY <2>4, <2>6, <3>3
        <4> QED
          BY <1>0, <1>1, <1>6, <2>1, <3>3, <4>1
      <3>4. CASE p1 = q /\ p2 = q
        BY <1>0, <1>6, <2>1, <3>4
      <3> QED
        BY <1>6, <3>1, <3>2, <3>3, <3>4
    <2> QED
      BY <2>5, <2>6 DEF Order, InOrder
  <1>7. ASSUME NEW k \in pairKey, NEW q \in (1..Last') \X (1..Last'),
               paired' = paired \cup {q},
               Conn(q[1])' = ConnOf(k), Conn(q[2])' = ConnOf(k),
               PushResponseMatched(k),
               q[2] = Last + 1, IsOldest(q[1], Of(k, pending)),
               pending' = pending \ {q[1]}
        PROVE  Order'
    <2>1. /\ heldResponses' = heldResponses /\ ConnOf(k).key = k
          /\ q[1] \in pending /\ Conn(q[1]).key = k /\ q[1] \in 1..Last
          /\ \A r \in pending : Conn(r).key = k => q[1] <= r
      BY <1>0, <1>7 DEF PushResponseMatched, IsOldest, Of, ConnOf
    <2>2. ASSUME NEW s \in heldResponses' PROVE Conn(s)' # Conn(q[2])'
      BY <1>0, <1>7, <2>1 DEF Waiting, NeverBothWaiting
    <2>3. ASSUME NEW r \in pending', Conn(q[1])' = Conn(r)' PROVE q[1] < r
      <3>1. r \in pending /\ r # q[1] /\ r \in 1..Last
        BY <1>0, <1>7
      <3>2. Conn(r).key = k
        BY <1>0, <1>7, <2>1, <2>3, <3>1
      <3> QED
        BY <2>1, <3>1, <3>2
    <2>4. ASSUME NEW p \in paired, Conn(p[1])' = Conn(q[1])'
          PROVE  p[1] < q[1] /\ p[2] < q[2]
      <3>1. Conn(p[1]) = Conn(q[1])
        BY <1>0, <1>1, <1>7, <2>1, <2>4
      <3> QED
        BY <1>0, <1>1, <1>7, <2>1, <3>1 DEF Order, PairedFirst
    <2>5. PairedFirst'
      BY <1>2, <1>3, <1>7, <2>2, <2>3 DEF PairedFirst
    <2>6. ASSUME NEW p1 \in paired', NEW p2 \in paired', Conn(p1[1])' = Conn(p2[1])'
          PROVE  p1[1] < p2[1] <=> p1[2] < p2[2]
      <3>1. CASE p1 \in paired /\ p2 \in paired
        BY <1>4, <2>6, <3>1
      <3>2. CASE p1 \in paired /\ p2 = q
        BY <2>4, <2>6, <3>2
      <3>3. CASE p1 = q /\ p2 \in paired
        <4>1. p2[1] < q[1] /\ p2[2] < q[2]
          BY <2>4, <2>6, <3>3
        <4> QED
          BY <1>0, <1>1, <1>7, <2>1, <3>3, <4>1
      <3>4. CASE p1 = q /\ p2 = q
        BY <1>0, <1>7, <2>1, <3>4
      <3> QED
        BY <1>7, <3>1, <3>2, <3>3, <3>4
    <2> QED
      BY <2>5, <2>6 DEF Order, InOrder
  <1> QED
    <2>1. CASE paired' = paired
      BY <1>5, <2>1
    <2>2. CASE paired' # paired
      BY <1>6, <1>7, <2>2, NewPair
    <2> QED
      BY <2>1, <2>2

(* On one connection the earlier request has the earlier response.          *)
THEOREM InOrderHolds == Spec => []InOrder
  <1>1. Init => Order
    BY DEF Init, Order, PairedFirst, InOrder
  <1>2. Spec => []Order
    BY <1>1, TypeInvariant, WaitingInvariant, SameConnectionHolds, OrderStep, PTL DEF Spec
  <1> QED
    BY <1>2, PTL DEF Order

-----------------------------------------------------------------------------
(* Nothing is reported twice.                                               *)

LEMMA ReportedOnceStep ==
    TypeInv /\ Waiting /\ ReportedOnce /\ [Next]_vars => ReportedOnce'
  <1> SUFFICES ASSUME TypeInv, Waiting, ReportedOnce, [Next]_vars PROVE ReportedOnce'
    OBVIOUS
  <1>0. /\ pending \subseteq 1..Last /\ heldResponses \subseteq 1..Last /\ Last \in Nat
        /\ overdue \subseteq pending
        /\ paired \subseteq (1..Last) \X (1..Last)
        /\ closed \subseteq 1..Last /\ timedOut \subseteq 1..Last
        /\ pending' \subseteq pending \cup {Last + 1}
        /\ heldResponses' \subseteq heldResponses \cup {Last + 1}
    BY WaitingTypes, StillWaiting DEF TypeInv, TypeOK
  <1>1. \A p \in paired : /\ p[1] \in 1..Last /\ p[2] \in 1..Last
                          /\ p[1] \notin pending \cup closed \cup timedOut
                          /\ p[2] \notin heldResponses
    BY <1>0 DEF ReportedOnce
  <1>2. /\ closed' \cap timedOut' = {}
        /\ pending' \cap (closed' \cup timedOut') = {}
        /\ closed' \cup timedOut' \subseteq closed \cup timedOut \cup pending
    <2>1. ASSUME UNCHANGED <<closed, timedOut>>
          PROVE  /\ closed' \cap timedOut' = {}
                 /\ pending' \cap (closed' \cup timedOut') = {}
                 /\ closed' \cup timedOut' \subseteq closed \cup timedOut \cup pending
      <3>1. Last + 1 \notin closed \cup timedOut
        BY <1>0
      <3> QED
        BY <1>0, <2>1, <3>1 DEF ReportedOnce
    <2>2. ASSUME NEW k \in pairKey, CloseKey(k)
          PROVE  /\ closed' \cap timedOut' = {}
                 /\ pending' \cap (closed' \cup timedOut') = {}
                 /\ closed' \cup timedOut' \subseteq closed \cup timedOut \cup pending
      BY <2>2 DEF CloseKey, Of, ReportedOnce
    <2>3. ASSUME Sweep
          PROVE  /\ closed' \cap timedOut' = {}
                 /\ pending' \cap (closed' \cup timedOut') = {}
                 /\ closed' \cup timedOut' \subseteq closed \cup timedOut \cup pending
      BY <1>0, <2>3 DEF Sweep, ReportedOnce
    <2>4. \/ UNCHANGED <<closed, timedOut>> \/ Sweep
          \/ \E k \in pairKey : CloseKey(k)
      BY KeysArePairKeys DEF Next, Push, Close, CloseSSL, PushRequestMatched, PushRequestPending,
         PushResponseMatched, PushResponseHeld, RecordRequest, RecordResponse, Expire, vars
    <2> QED
      BY <2>1, <2>2, <2>3, <2>4
  <1>3. ASSUME NEW p \in paired
        PROVE  p[1] \notin pending' \cup closed' \cup timedOut' /\ p[2] \notin heldResponses'
    <2>1. p[1] # Last + 1 /\ p[2] # Last + 1
      BY <1>0, <1>1
    <2> QED
      BY <1>0, <1>1, <1>2, <2>1
  <1>4. CASE paired' = paired
    BY <1>2, <1>3, <1>4 DEF ReportedOnce
  <1>5. ASSUME NEW k \in pairKey, NEW q \in (1..Last') \X (1..Last'),
               paired' = paired \cup {q},
               \/ /\ PushRequestMatched(k)
                  /\ q[1] = Last + 1 /\ IsOldest(q[2], Of(k, heldResponses))
                  /\ heldResponses' = heldResponses \ {q[2]}
               \/ /\ PushResponseMatched(k)
                  /\ q[2] = Last + 1 /\ IsOldest(q[1], Of(k, pending))
                  /\ pending' = pending \ {q[1]}
        PROVE  ReportedOnce'
    <2>1. UNCHANGED <<closed, timedOut>>
      BY <1>5 DEF PushRequestMatched, PushResponseMatched, RecordRequest, RecordResponse
    <2>2. \/ q[1] = Last + 1 /\ q[2] \in heldResponses /\ pending' = pending
             /\ heldResponses' = heldResponses \ {q[2]}
          \/ q[2] = Last + 1 /\ q[1] \in pending /\ heldResponses' = heldResponses
             /\ pending' = pending \ {q[1]}
      BY <1>5 DEF PushRequestMatched, PushResponseMatched, IsOldest, Of
    <2>3. Last + 1 \notin pending \cup heldResponses \cup closed \cup timedOut
      BY <1>0
    <2>4. q[1] \notin pending' \cup closed' \cup timedOut' /\ q[2] \notin heldResponses'
      BY <2>1, <2>2, <2>3 DEF ReportedOnce
    <2>5. ASSUME NEW p \in paired PROVE p[1] # q[1] /\ p[2] # q[2]
      BY <1>0, <1>1, <2>2
    <2> QED
      BY <1>2, <1>3, <1>5, <2>4, <2>5 DEF ReportedOnce
  <1> QED
    BY <1>4, <1>5, NewPair

(* No request is reported twice and no response is used twice.              *)
THEOREM ReportedOnceHolds == Spec => []ReportedOnce
  <1>1. Init => ReportedOnce
    BY DEF Init, ReportedOnce
  <1> QED
    BY <1>1, TypeInvariant, WaitingInvariant, ReportedOnceStep, PTL DEF Spec

-----------------------------------------------------------------------------
(* No request is lost: the step that takes a request out of its queue       *)
(* reports it.                                                              *)

LEMMA NoRequestLostStep == TypeInv /\ NoRequestLost /\ [Next]_vars => NoRequestLost'
  <1> SUFFICES ASSUME TypeInv, NoRequestLost, [Next]_vars PROVE NoRequestLost'
    OBVIOUS
  <1>0. /\ Last \in Nat /\ pending \subseteq 1..Last /\ heldResponses \subseteq 1..Last
        /\ overdue \subseteq pending
    BY WaitingTypes
  <1>n. \A n \in 1..Last : log[n].isRequest =>
           n \in pending \cup closed \cup timedOut \/ \E s \in 1..Last : <<n, s>> \in paired
    BY DEF NoRequestLost
  (* A message arrives and no request leaves the queue without a report. *)
  <1>a. ASSUME NEW k \in pairKey, RecordRequest(k) \/ RecordResponse(k),
               paired \subseteq paired', UNCHANGED <<closed, timedOut>>,
               \A n \in pending : n \in pending' \/ <<n, Last + 1>> \in paired',
               RecordRequest(k) =>
                   Last + 1 \in pending' \/ \E s \in 1..Last : <<Last + 1, s>> \in paired'
        PROVE  NoRequestLost'
    <2>1. /\ Last' = Last + 1
          /\ \A n \in 1..Last : log'[n] = log[n]
          /\ \A n : n = Last + 1 =>
                log'[n].isRequest = (IF RecordRequest(k) THEN TRUE ELSE FALSE)
      BY <1>a, ArrivalFacts
    <2> SUFFICES ASSUME NEW n \in 1..(Last + 1), log'[n].isRequest
                 PROVE  n \in pending' \cup closed' \cup timedOut'
                        \/ \E s \in 1..(Last + 1) : <<n, s>> \in paired'
      BY <2>1 DEF NoRequestLost
    <2>2. CASE n = Last + 1
      <3>1. RecordRequest(k)
        BY <2>1, <2>2
      <3>2. Last + 1 \in pending' \/ \E s \in 1..Last : <<Last + 1, s>> \in paired'
        BY <1>a, <3>1
      <3> QED
        BY <1>0, <2>2, <3>2
    <2>3. CASE n \in pending
      BY <1>0, <1>a, <2>3
    <2>4. CASE n \in 1..Last /\ n \notin pending
      <3>1. n \in closed \cup timedOut \/ \E s \in 1..Last : <<n, s>> \in paired
        BY <1>n, <2>1, <2>4
      <3> QED
        BY <1>0, <1>a, <3>1
    <2> QED
      BY <1>0, <2>2, <2>3, <2>4
  (* No message arrives. *)
  <1>b. ASSUME UNCHANGED <<log, paired>>,
               pending \cup closed \cup timedOut \subseteq pending' \cup closed' \cup timedOut'
        PROVE  NoRequestLost'
    BY <1>b, <1>n DEF NoRequestLost, Last
  <1>1. ASSUME NEW k \in pairKey, PushRequestMatched(k) PROVE NoRequestLost'
    <2>1. PICK res \in heldResponses : paired' = paired \cup {<<Last + 1, res>>}
      BY <1>1 DEF PushRequestMatched
    <2>2. RecordRequest(k) /\ UNCHANGED <<pending, closed, timedOut>>
      BY <1>1 DEF PushRequestMatched, RecordRequest
    <2> QED
      BY <1>0, <1>a, <2>1, <2>2
  <1>2. ASSUME NEW k \in pairKey, PushRequestPending(k) PROVE NoRequestLost'
    <2>1. /\ RecordRequest(k) /\ UNCHANGED <<paired, closed, timedOut>>
          /\ pending' = pending \cup {Last + 1}
      BY <1>2 DEF PushRequestPending, RecordRequest
    <2> QED
      BY <1>a, <2>1
  <1>3. ASSUME NEW k \in pairKey, PushResponseMatched(k) PROVE NoRequestLost'
    <2>1. PICK req \in pending :
             pending' = pending \ {req} /\ paired' = paired \cup {<<req, Last + 1>>}
      BY <1>3 DEF PushResponseMatched
    <2>2. RecordResponse(k) /\ ~RecordRequest(k) /\ UNCHANGED <<closed, timedOut>>
      BY <1>3, RecordsDiffer DEF PushResponseMatched, RecordResponse
    <2> QED
      BY <1>a, <2>1, <2>2
  <1>4. ASSUME NEW k \in pairKey, PushResponseHeld(k) PROVE NoRequestLost'
    <2>1. RecordResponse(k) /\ ~RecordRequest(k)
          /\ UNCHANGED <<pending, paired, closed, timedOut>>
      BY <1>4, RecordsDiffer DEF PushResponseHeld, RecordResponse
    <2> QED
      BY <1>a, <2>1
  <1>5. ASSUME NEW k \in pairKey, CloseKey(k) PROVE NoRequestLost'
    BY <1>5, <1>b DEF CloseKey
  <1>6. CASE Expire
    BY <1>6, <1>b DEF Expire
  <1>7. CASE Sweep
    BY <1>7, <1>b DEF Sweep
  <1>8. CASE UNCHANGED vars
    BY <1>8, <1>b DEF vars
  <1> QED
    BY <1>1, <1>2, <1>3, <1>4, <1>5, <1>6, <1>7, <1>8, KeysArePairKeys
       DEF Next, Push, Close, CloseSSL

(* Every request that was pushed still waits or was reported.               *)
THEOREM NoRequestLostHolds == Spec => []NoRequestLost
  <1>1. Init => NoRequestLost
    BY DEF Init, NoRequestLost, Last
  <1> QED
    BY <1>1, TypeInvariant, NoRequestLostStep, PTL DEF Spec

-----------------------------------------------------------------------------
(* The limit on held responses.                                             *)

Limit == IsFiniteSet(heldResponses) /\ HeldBound

LEMMA LimitStep == TypeInv /\ Limit /\ [Next]_vars => Limit'
  <1> SUFFICES ASSUME TypeInv, Limit, [Next]_vars PROVE Limit'
    OBVIOUS
  <1>1. /\ IsFiniteSet(heldResponses) /\ Cardinality(heldResponses) <= MaxHeld
        /\ Cardinality(heldResponses) \in Nat
    BY FS_CardinalityType DEF Limit, HeldBound
  <1>2. CASE heldResponses' \subseteq heldResponses
    <2>1. /\ IsFiniteSet(heldResponses') /\ Cardinality(heldResponses') \in Nat
          /\ Cardinality(heldResponses') <= Cardinality(heldResponses)
      BY <1>1, <1>2, FS_Subset, FS_CardinalityType
    <2> QED
      BY <1>1, <2>1 DEF Limit, HeldBound
  <1>3. ASSUME holdResponse(Last + 1) PROVE Limit'
    <2>1. Last + 1 \notin heldResponses
      BY WaitingTypes
    <2> DEFINE all == heldResponses \cup {Last + 1}
    <2>2. IsFiniteSet(all) /\ Cardinality(all) = Cardinality(heldResponses) + 1
      BY <1>1, <2>1, FS_AddElement
    <2>3. CASE Cardinality(all) > MaxHeld
      <3>1. PICK old \in heldResponses : heldResponses' = all \ {old}
        BY <1>3, <2>3 DEF holdResponse
      <3>2. IsFiniteSet(all \ {old}) /\ Cardinality(all \ {old}) = Cardinality(all) - 1
        BY <2>2, <3>1, FS_RemoveElement
      <3> QED
        BY <1>1, <2>2, <3>1, <3>2 DEF Limit, HeldBound
    <2>4. CASE ~(Cardinality(all) > MaxHeld)
      <3>1. heldResponses' = all
        BY <1>3, <2>4 DEF holdResponse
      <3> QED
        BY <1>1, <2>2, <2>4, <3>1 DEF Limit, HeldBound
    <2> QED
      BY <2>3, <2>4
  <1>4. heldResponses' \subseteq heldResponses \/ holdResponse(Last + 1)
    BY DEF Next, Push, Close, CloseSSL, PushRequestMatched, PushRequestPending,
       PushResponseMatched, PushResponseHeld, CloseKey, Expire, Sweep, vars
  <1> QED
    BY <1>2, <1>3, <1>4

(* The pairer never holds more than maxHeldResponses responses.             *)
THEOREM HeldBoundHolds == Spec => []HeldBound
  <1>1. Init => Limit
    BY FS_EmptySet DEF Init, Limit, HeldBound
  <1>2. Spec => []Limit
    BY <1>1, TypeInvariant, LimitStep, PTL DEF Spec
  <1> QED
    BY <1>2, PTL DEF Limit

-----------------------------------------------------------------------------
(* Pairing by position.  On a connection that lost nothing the waiting      *)
(* requests are exactly those past the last response, and the held          *)
(* responses exactly those past the last request; as the first of them is   *)
(* the one to be matched, positions agree.                                  *)

Pos(n) == log[n].pos

Sorted ==
    /\ \A m, n \in pending : Conn(m).key = Conn(n).key /\ m < n => Pos(m) < Pos(n)
    /\ \A m, n \in heldResponses : Conn(m).key = Conn(n).key /\ m < n => Pos(m) < Pos(n)
    /\ \A n \in pending : Pos(n) \in Nat /\ Pos(n) <= reqs[Conn(n).key]
    /\ \A n \in heldResponses : Pos(n) \in Nat /\ Pos(n) <= ress[Conn(n).key]

Aligned(k) ==
    /\ \A n \in pending : Conn(n).key = k => ress[k] < Pos(n)
    /\ \A n \in heldResponses : Conn(n).key = k => reqs[k] < Pos(n)
    /\ \A i \in Nat : ress[k] < i /\ i <= reqs[k] =>
          \E n \in pending : Conn(n).key = k /\ Pos(n) = i
    /\ \A i \in Nat : reqs[k] < i /\ i <= ress[k] =>
          \E n \in heldResponses : Conn(n).key = k /\ Pos(n) = i

AllAligned == \A k \in pairKey : ConnOf(k) \notin lossy => Aligned(k)

(* What an arrival does to the counters, and the position it takes.         *)
LEMMA CounterFacts ==
    ASSUME TypeInv, NEW k \in pairKey, RecordRequest(k) \/ RecordResponse(k)
    PROVE  /\ \A j \in pairKey : /\ reqs[j] \in Nat /\ ress[j] \in Nat
                                 /\ j # k => reqs'[j] = reqs[j] /\ ress'[j] = ress[j]
           /\ RecordRequest(k) =>
                 /\ reqs'[k] = reqs[k] + 1 /\ ress'[k] = ress[k]
                 /\ \A n : n = Last + 1 => Pos(n)' = reqs[k] + 1
           /\ RecordResponse(k) =>
                 /\ ress'[k] = ress[k] + 1 /\ reqs'[k] = reqs[k]
                 /\ \A n : n = Last + 1 => Pos(n)' = ress[k] + 1
           /\ \A n \in 1..Last : Pos(n)' = Pos(n)
  <1>1. reqs \in [pairKey -> 0..MaxMsgs] /\ ress \in [pairKey -> 0..MaxMsgs]
    BY DEF TypeInv, TypeOK
  <1>2. ASSUME RecordRequest(k)
        PROVE  /\ reqs' = [reqs EXCEPT ![k] = @ + 1] /\ ress' = ress
               /\ log'[Last + 1].pos = reqs[k] + 1
    <2>1. log'[Last + 1] = [isRequest |-> TRUE, conn |-> ConnOf(k), pos |-> reqs[k] + 1]
      BY <1>2, RecordRequestFacts
    <2>2. reqs' = [reqs EXCEPT ![k] = @ + 1] /\ ress' = ress
      BY <1>2 DEF RecordRequest
    <2>3. log'[Last + 1].pos = reqs[k] + 1
      BY <2>1
    <2> QED
      BY <2>2, <2>3
  <1>3. ASSUME RecordResponse(k)
        PROVE  /\ ress' = [ress EXCEPT ![k] = @ + 1] /\ reqs' = reqs
               /\ log'[Last + 1].pos = ress[k] + 1
    <2>1. log'[Last + 1] = [isRequest |-> FALSE, conn |-> ConnOf(k), pos |-> ress[k] + 1]
      BY <1>3, RecordResponseFacts
    <2>2. ress' = [ress EXCEPT ![k] = @ + 1] /\ reqs' = reqs
      BY <1>3 DEF RecordResponse
    <2>3. log'[Last + 1].pos = ress[k] + 1
      BY <2>1
    <2> QED
      BY <2>2, <2>3
  <1>4. \A n \in 1..Last : Pos(n)' = Pos(n)
    BY ArrivalFacts DEF Pos
  <1>5. \A j \in pairKey : /\ reqs[j] \in Nat /\ ress[j] \in Nat
                           /\ j # k => reqs'[j] = reqs[j] /\ ress'[j] = ress[j]
    BY <1>1, <1>2, <1>3
  <1>6. RecordRequest(k) =>
          /\ reqs'[k] = reqs[k] + 1 /\ ress'[k] = ress[k]
          /\ \A n : n = Last + 1 => Pos(n)' = reqs[k] + 1
    BY <1>1, <1>2 DEF Pos
  <1>7. RecordResponse(k) =>
          /\ ress'[k] = ress[k] + 1 /\ reqs'[k] = reqs[k]
          /\ \A n : n = Last + 1 => Pos(n)' = ress[k] + 1
    BY <1>1, <1>3 DEF Pos
  <1> QED
    BY <1>4, <1>5, <1>6, <1>7

LEMMA SortedStep == TypeInv /\ Waiting /\ Sorted /\ [Next]_vars => Sorted'
  <1> SUFFICES ASSUME TypeInv, Waiting, Sorted, [Next]_vars PROVE Sorted'
    OBVIOUS
  <1>0. /\ pending \subseteq 1..Last /\ heldResponses \subseteq 1..Last /\ Last \in Nat
        /\ \A n \in 1..Last : Conn(n).key \in pairKey
    BY WaitingTypes
  <1>1. ASSUME NEW k \in pairKey, RecordRequest(k) \/ RecordResponse(k),
               \/ pending' \subseteq pending
               \/ (pending' = pending \cup {Last + 1} /\ RecordRequest(k)),
               \/ heldResponses' \subseteq heldResponses
               \/ (heldResponses' \subseteq heldResponses \cup {Last + 1} /\ RecordResponse(k))
        PROVE  Sorted'
    <2>1. \A n \in 1..Last : Pos(n)' = Pos(n) /\ Conn(n)' = Conn(n)
      BY <1>1, CounterFacts, ArrivalFacts
    <2>2. \A j \in pairKey : /\ reqs[j] \in Nat /\ ress[j] \in Nat
                             /\ reqs[j] <= reqs'[j] /\ ress[j] <= ress'[j]
                             /\ reqs'[j] \in Nat /\ ress'[j] \in Nat
      BY <1>1, CounterFacts
    <2>a. ASSUME NEW n \in pending' \cup heldResponses' PROVE n \in 1..(Last + 1)
      <3>1. n \in pending \cup heldResponses \/ n = Last + 1
        BY <1>1
      <3>2. CASE n \in pending \cup heldResponses
        <4>1. n \in 1..Last
          BY <1>0, <3>2
        <4> QED
          BY <1>0, <4>1
      <3>3. CASE n = Last + 1
        BY <1>0, <3>3
      <3> QED
        BY <3>1, <3>2, <3>3
    <2>b. \A n : n = Last + 1 => Conn(n)'.key = k
      BY <1>1, ArrivalFacts
    <2>3. ASSUME NEW n \in pending' PROVE Pos(n)' \in Nat /\ Pos(n)' <= reqs'[Conn(n)'.key]
      <3>1. CASE n \in pending
        BY <1>0, <2>1, <2>2, <3>1 DEF Sorted
      <3>2. CASE n = Last + 1 /\ RecordRequest(k)
        <4>1. Pos(n)' = reqs[k] + 1 /\ reqs'[k] = reqs[k] + 1
          BY <1>1, <3>2, CounterFacts
        <4> QED
          BY <2>2, <2>b, <3>2, <4>1
      <3> QED
        BY <1>1, <3>1, <3>2
    <2>4. ASSUME NEW n \in heldResponses' PROVE Pos(n)' \in Nat /\ Pos(n)' <= ress'[Conn(n)'.key]
      <3>1. CASE n \in heldResponses
        BY <1>0, <2>1, <2>2, <3>1 DEF Sorted
      <3>2. CASE n = Last + 1 /\ RecordResponse(k)
        <4>1. Pos(n)' = ress[k] + 1 /\ ress'[k] = ress[k] + 1
          BY <1>1, <3>2, CounterFacts
        <4> QED
          BY <2>2, <2>b, <3>2, <4>1
      <3> QED
        BY <1>1, <3>1, <3>2
    <2>5. ASSUME NEW m \in pending', NEW n \in pending', Conn(m)'.key = Conn(n)'.key, m < n
          PROVE  Pos(m)' < Pos(n)'
      <3>1. m \in pending
        BY <1>0, <1>1, <2>5, <2>a
      <3>2. CASE n \in pending
        BY <1>0, <2>1, <2>5, <3>1, <3>2 DEF Sorted
      <3>3. CASE n = Last + 1 /\ RecordRequest(k)
        <4>1. Conn(n)'.key = k /\ Pos(n)' = reqs[k] + 1
          BY <1>1, <2>b, <3>3, CounterFacts
        <4>2. Conn(m).key = k /\ Pos(m)' = Pos(m)
          BY <1>0, <2>1, <2>5, <3>1, <4>1
        <4> QED
          BY <2>2, <3>1, <4>1, <4>2 DEF Sorted
      <3> QED
        BY <1>1, <3>2, <3>3
    <2>6. ASSUME NEW m \in heldResponses', NEW n \in heldResponses',
                 Conn(m)'.key = Conn(n)'.key, m < n
          PROVE  Pos(m)' < Pos(n)'
      <3>1. m \in heldResponses
        BY <1>0, <1>1, <2>6, <2>a
      <3>2. CASE n \in heldResponses
        BY <1>0, <2>1, <2>6, <3>1, <3>2 DEF Sorted
      <3>3. CASE n = Last + 1 /\ RecordResponse(k)
        <4>1. Conn(n)'.key = k /\ Pos(n)' = ress[k] + 1
          BY <1>1, <2>b, <3>3, CounterFacts
        <4>2. Conn(m).key = k /\ Pos(m)' = Pos(m)
          BY <1>0, <2>1, <2>6, <3>1, <4>1
        <4> QED
          BY <2>2, <3>1, <4>1, <4>2 DEF Sorted
      <3> QED
        BY <1>1, <3>2, <3>3
    <2> QED
      BY <2>3, <2>4, <2>5, <2>6 DEF Sorted
  <1>2. ASSUME NEW k \in pairKey, CloseKey(k) PROVE Sorted'
    <2>1. /\ log' = log /\ pending' \subseteq pending /\ heldResponses' \subseteq heldResponses
          /\ \A n \in pending' \cup heldResponses' : Conn(n).key # k
          /\ reqs' = [reqs EXCEPT ![k] = 0] /\ ress' = [ress EXCEPT ![k] = 0]
      BY <1>2 DEF CloseKey, Of
    <2>2. \A j \in pairKey : j # k => reqs'[j] = reqs[j] /\ ress'[j] = ress[j]
      BY <2>1 DEF TypeInv, TypeOK
    <2>3. \A n : Pos(n)' = Pos(n) /\ Conn(n)' = Conn(n)
      BY <2>1 DEF Pos, Conn
    <2> QED
      BY <1>0, <2>1, <2>2, <2>3 DEF Sorted
  <1>3. ASSUME UNCHANGED <<log, reqs, ress, heldResponses>>, pending' \subseteq pending
        PROVE  Sorted'
    <2>1. \A n : Pos(n)' = Pos(n) /\ Conn(n)' = Conn(n)
      BY <1>3 DEF Pos, Conn
    <2> QED
      BY <1>3, <2>1 DEF Sorted
  <1>4. CASE Expire \/ Sweep \/ UNCHANGED vars
    BY <1>3, <1>4 DEF Expire, Sweep, vars
  <1>5. ASSUME NEW k \in pairKey,
               \/ PushRequestMatched(k) \/ PushRequestPending(k)
               \/ PushResponseMatched(k) \/ PushResponseHeld(k)
        PROVE  Sorted'
    <2>1. CASE PushRequestMatched(k)
      BY <1>1, <2>1 DEF PushRequestMatched
    <2>2. CASE PushRequestPending(k)
      BY <1>1, <2>2 DEF PushRequestPending
    <2>3. CASE PushResponseMatched(k)
      <3>1. RecordResponse(k) /\ pending' \subseteq pending /\ heldResponses' \subseteq heldResponses
        BY <2>3 DEF PushResponseMatched
      <3> QED
        BY <1>1, <3>1
    <2>4. CASE PushResponseHeld(k)
      <3>1. RecordResponse(k) /\ pending' \subseteq pending
        BY <2>4 DEF PushResponseHeld
      <3>2. heldResponses' \subseteq heldResponses \cup {Last + 1}
        BY <2>4 DEF PushResponseHeld, holdResponse
      <3> QED
        BY <1>1, <3>1, <3>2
    <2> QED
      BY <1>5, <2>1, <2>2, <2>3, <2>4
  <1> QED
    BY <1>2, <1>4, <1>5, KeysArePairKeys DEF Next, Push, Close, CloseSSL

(* A key whose counters and waiting messages do not change stays aligned.   *)
LEMMA Untouched ==
    ASSUME NEW j \in pairKey, Aligned(j),
           reqs'[j] = reqs[j], ress'[j] = ress[j],
           \A n : n \in pending' /\ Conn(n)'.key = j <=> n \in pending /\ Conn(n).key = j,
           \A n : n \in heldResponses' /\ Conn(n)'.key = j
                   <=> n \in heldResponses /\ Conn(n).key = j,
           \A n \in pending \cup heldResponses : Pos(n)' = Pos(n)
    PROVE  Aligned(j)'
  <1>1. ASSUME NEW n \in pending', Conn(n)'.key = j PROVE ress'[j] < Pos(n)'
    BY <1>1 DEF Aligned
  <1>2. ASSUME NEW n \in heldResponses', Conn(n)'.key = j PROVE reqs'[j] < Pos(n)'
    BY <1>2 DEF Aligned
  <1>3. ASSUME NEW i \in Nat, ress'[j] < i, i <= reqs'[j]
        PROVE  \E n \in pending' : Conn(n)'.key = j /\ Pos(n)' = i
    <2>1. PICK n \in pending : Conn(n).key = j /\ Pos(n) = i
      BY <1>3 DEF Aligned
    <2> QED
      BY <2>1
  <1>4. ASSUME NEW i \in Nat, reqs'[j] < i, i <= ress'[j]
        PROVE  \E n \in heldResponses' : Conn(n)'.key = j /\ Pos(n)' = i
    <2>1. PICK n \in heldResponses : Conn(n).key = j /\ Pos(n) = i
      BY <1>4 DEF Aligned
    <2> QED
      BY <2>1
  <1> QED
    BY <1>1, <1>2, <1>3, <1>4 DEF Aligned

(* The first message that waits on an aligned key has the position that the *)
(* next message of the other direction takes.                               *)
LEMMA FirstPosition ==
    ASSUME TypeInv, Sorted, NEW k \in pairKey, Aligned(k)
    PROVE  /\ \A n : IsOldest(n, Of(k, pending)) =>
                 Pos(n) = ress[k] + 1 /\ Pos(n) <= reqs[k]
           /\ \A n : IsOldest(n, Of(k, heldResponses)) =>
                 Pos(n) = reqs[k] + 1 /\ Pos(n) <= ress[k]
  <1>0. reqs[k] \in Nat /\ ress[k] \in Nat
    BY DEF TypeInv, TypeOK
  <1>1. ASSUME NEW n, IsOldest(n, Of(k, pending))
        PROVE  Pos(n) = ress[k] + 1 /\ Pos(n) <= reqs[k]
    <2>1. /\ n \in pending /\ Conn(n).key = k
          /\ \A m \in pending : Conn(m).key = k => n <= m
      BY <1>1 DEF IsOldest, Of
    <2>2. Pos(n) \in Nat /\ Pos(n) <= reqs[k] /\ ress[k] < Pos(n)
      BY <2>1 DEF Sorted, Aligned
    <2>3. PICK m \in pending : Conn(m).key = k /\ Pos(m) = ress[k] + 1
      BY <1>0, <2>2 DEF Aligned
    <2>4. n <= m /\ n \in Nat /\ m \in Nat
      BY <2>1, <2>3, WaitingTypes
    <2>5. n < m => Pos(n) < Pos(m)
      BY <2>1, <2>3 DEF Sorted
    <2> QED
      BY <1>0, <2>2, <2>3, <2>4, <2>5
  <1>2. ASSUME NEW n, IsOldest(n, Of(k, heldResponses))
        PROVE  Pos(n) = reqs[k] + 1 /\ Pos(n) <= ress[k]
    <2>1. /\ n \in heldResponses /\ Conn(n).key = k
          /\ \A m \in heldResponses : Conn(m).key = k => n <= m
      BY <1>2 DEF IsOldest, Of
    <2>2. Pos(n) \in Nat /\ Pos(n) <= ress[k] /\ reqs[k] < Pos(n)
      BY <2>1 DEF Sorted, Aligned
    <2>3. PICK m \in heldResponses : Conn(m).key = k /\ Pos(m) = reqs[k] + 1
      BY <1>0, <2>2 DEF Aligned
    <2>4. n <= m /\ n \in Nat /\ m \in Nat
      BY <2>1, <2>3, WaitingTypes
    <2>5. n < m => Pos(n) < Pos(m)
      BY <2>1, <2>3 DEF Sorted
    <2> QED
      BY <1>0, <2>2, <2>3, <2>4, <2>5
  <1> QED
    BY <1>1, <1>2

LEMMA AlignedStep ==
    TypeInv /\ Waiting /\ Sorted /\ AllAligned /\ [Next]_vars => AllAligned'
  <1> SUFFICES ASSUME TypeInv, Waiting, Sorted, AllAligned, [Next]_vars,
                      NEW j \in pairKey, ConnOf(j)' \notin lossy'
               PROVE  Aligned(j)'
    BY DEF AllAligned
  <1>0. /\ pending \subseteq 1..Last /\ heldResponses \subseteq 1..Last /\ Last \in Nat
        /\ overdue \subseteq pending
        /\ \A n \in 1..Last : Conn(n).key \in pairKey
    BY WaitingTypes
  <1>c. reqs[j] \in Nat /\ ress[j] \in Nat
    BY DEF TypeInv, TypeOK
  <1>l. lossy \subseteq lossy'
    BY DEF Next, Push, Close, CloseSSL, PushRequestMatched, PushRequestPending,
       PushResponseMatched, PushResponseHeld, holdResponse, CloseKey, Expire, Sweep, vars
  <1>1. ASSUME NEW k \in pairKey, RecordRequest(k) \/ RecordResponse(k)
        PROVE  /\ Aligned(j)
               /\ \A n \in 1..Last : Pos(n)' = Pos(n) /\ Conn(n)' = Conn(n)
               /\ \A n : n = Last + 1 => Conn(n)'.key = k
    <2>1. ConnOf(j) \notin lossy
      BY <1>1, <1>l, ArrivalFacts
    <2>2. Aligned(j)
      BY <2>1 DEF AllAligned
    <2>3. \A n \in 1..Last : Pos(n)' = Pos(n)
      BY <1>1, CounterFacts
    <2>4. /\ \A n \in 1..Last : Conn(n)' = Conn(n)
          /\ \A n : n = Last + 1 => Conn(n)'.key = k
      BY <1>1, ArrivalFacts
    <2> QED
      BY <2>1, <2>2, <2>3, <2>4
  <1>2. ASSUME NEW k \in pairKey, PushRequestMatched(k) PROVE Aligned(j)'
    <2>1. RecordRequest(k) /\ pending' = pending
      BY <1>2 DEF PushRequestMatched
    <2>2. PICK res : /\ IsOldest(res, Of(k, heldResponses))
                     /\ heldResponses' = heldResponses \ {res}
      BY <1>2 DEF PushRequestMatched
    <2>3. /\ res \in heldResponses /\ Conn(res).key = k
          /\ \A m \in heldResponses : Conn(m).key = k => res <= m
      BY <2>2 DEF IsOldest, Of
    <2>4. /\ Aligned(j)
          /\ \A n \in 1..Last : Pos(n)' = Pos(n) /\ Conn(n)' = Conn(n)
      BY <1>1, <2>1
    <2>5. CASE j # k
      <3>1. reqs'[j] = reqs[j] /\ ress'[j] = ress[j]
        BY <2>1, <2>5, CounterFacts
      <3> QED
        BY <1>0, <2>1, <2>2, <2>3, <2>4, <2>5, <3>1, Untouched
    <2>6. CASE j = k
      <3>1. reqs'[j] = reqs[j] + 1 /\ ress'[j] = ress[j]
        BY <2>1, <2>6, CounterFacts
      <3>2. Pos(res) = reqs[j] + 1 /\ Pos(res) <= ress[j]
        BY <2>2, <2>4, <2>6, FirstPosition
      <3>3. \A n \in pending : Conn(n)'.key # j
        BY <1>0, <2>3, <2>4, <2>6 DEF Waiting, NeverBothWaiting
      <3>4. ASSUME NEW n \in heldResponses', Conn(n)'.key = j PROVE reqs'[j] < Pos(n)'
        <4>1. n \in heldResponses /\ n # res /\ n \in 1..Last /\ res \in 1..Last
          BY <1>0, <2>2, <2>3
        <4>2. Conn(n).key = k /\ Pos(n)' = Pos(n)
          BY <2>4, <2>6, <3>4, <4>1
        <4>3. res < n
          BY <1>0, <2>3, <4>1, <4>2
        <4>4. Pos(res) < Pos(n)
          BY <2>3, <4>1, <4>2, <4>3 DEF Sorted
        <4> QED
          BY <3>1, <3>2, <4>2, <4>4
      <3>5. ASSUME NEW i \in Nat, reqs'[j] < i, i <= ress'[j]
            PROVE  \E n \in heldResponses' : Conn(n)'.key = j /\ Pos(n)' = i
        <4>1. PICK n \in heldResponses : Conn(n).key = j /\ Pos(n) = i
          BY <1>c, <2>4, <3>1, <3>5 DEF Aligned
        <4> QED
          BY <1>0, <1>c, <2>2, <2>4, <3>1, <3>2, <3>5, <4>1
      <3>6. ASSUME NEW i \in Nat, ress'[j] < i, i <= reqs'[j] PROVE FALSE
        BY <1>c, <3>1, <3>2, <3>6
      <3> QED
        BY <2>1, <3>3, <3>4, <3>5, <3>6 DEF Aligned
    <2> QED
      BY <2>5, <2>6
  <1>3. ASSUME NEW k \in pairKey, PushRequestPending(k) PROVE Aligned(j)'
    <2>1. /\ RecordRequest(k) /\ pending' = pending \cup {Last + 1}
          /\ heldResponses' = heldResponses
          /\ \A n \in heldResponses : Conn(n).key # k
      BY <1>3 DEF PushRequestPending, Of
    <2>4. /\ Aligned(j)
          /\ \A n \in 1..Last : Pos(n)' = Pos(n) /\ Conn(n)' = Conn(n)
          /\ \A n : n = Last + 1 => Conn(n)'.key = k
      BY <1>1, <2>1
    <2>5. CASE j # k
      <3>1. reqs'[j] = reqs[j] /\ ress'[j] = ress[j]
        BY <2>1, <2>5, CounterFacts
      <3>2. \A n : n \in pending' /\ Conn(n)'.key = j <=> n \in pending /\ Conn(n).key = j
        BY <1>0, <2>1, <2>4, <2>5
      <3> QED
        BY <1>0, <2>1, <2>4, <3>1, <3>2, Untouched
    <2>6. CASE j = k
      <3>1. /\ reqs'[j] = reqs[j] + 1 /\ ress'[j] = ress[j]
            /\ \A n : n = Last + 1 => Pos(n)' = reqs[j] + 1
        BY <2>1, <2>6, CounterFacts
      <3>2. ress[j] <= reqs[j]
        <4>1. SUFFICES ASSUME reqs[j] < ress[j] PROVE FALSE
          BY <1>c
        <4>2. PICK n \in heldResponses : Conn(n).key = j
          BY <1>c, <2>4, <4>1 DEF Aligned
        <4> QED
          BY <2>1, <2>6, <4>2
      <3>3. \A n \in heldResponses : Conn(n)'.key # j
        BY <1>0, <2>1, <2>4, <2>6
      <3>4. ASSUME NEW n \in pending', Conn(n)'.key = j PROVE ress'[j] < Pos(n)'
        <4>1. CASE n \in pending
          BY <1>0, <2>4, <3>1, <3>4, <4>1 DEF Aligned
        <4>2. CASE n = Last + 1
          BY <1>c, <3>1, <3>2, <4>2
        <4> QED
          BY <2>1, <4>1, <4>2
      <3>5. ASSUME NEW i \in Nat, ress'[j] < i, i <= reqs'[j]
            PROVE  \E n \in pending' : Conn(n)'.key = j /\ Pos(n)' = i
        <4>1. CASE i <= reqs[j]
          <5>1. PICK n \in pending : Conn(n).key = j /\ Pos(n) = i
            BY <2>4, <3>1, <3>5, <4>1 DEF Aligned
          <5> QED
            BY <1>0, <2>1, <2>4, <5>1
        <4>2. CASE i = reqs[j] + 1
          <5>1. PICK n \in Nat : n = Last + 1
            BY <1>0
          <5> QED
            BY <2>1, <2>4, <2>6, <3>1, <4>2, <5>1
        <4> QED
          BY <1>c, <3>1, <3>5, <4>1, <4>2
      <3>6. ASSUME NEW i \in Nat, reqs'[j] < i, i <= ress'[j] PROVE FALSE
        BY <1>c, <3>1, <3>2, <3>6
      <3> QED
        BY <2>1, <3>3, <3>4, <3>5, <3>6 DEF Aligned
    <2> QED
      BY <2>5, <2>6
  <1>4. ASSUME NEW k \in pairKey, PushResponseMatched(k) PROVE Aligned(j)'
    <2>1. RecordResponse(k) /\ heldResponses' = heldResponses
      BY <1>4 DEF PushResponseMatched
    <2>2. PICK req : /\ IsOldest(req, Of(k, pending))
                     /\ pending' = pending \ {req}
      BY <1>4 DEF PushResponseMatched
    <2>3. /\ req \in pending /\ Conn(req).key = k
          /\ \A m \in pending : Conn(m).key = k => req <= m
      BY <2>2 DEF IsOldest, Of
    <2>4. /\ Aligned(j)
          /\ \A n \in 1..Last : Pos(n)' = Pos(n) /\ Conn(n)' = Conn(n)
      BY <1>1, <2>1
    <2>5. CASE j # k
      <3>1. ress'[j] = ress[j] /\ reqs'[j] = reqs[j]
        BY <2>1, <2>5, CounterFacts
      <3> QED
        BY <1>0, <2>1, <2>2, <2>3, <2>4, <2>5, <3>1, Untouched
    <2>6. CASE j = k
      <3>1. ress'[j] = ress[j] + 1 /\ reqs'[j] = reqs[j]
        BY <2>1, <2>6, CounterFacts
      <3>2. Pos(req) = ress[j] + 1 /\ Pos(req) <= reqs[j]
        BY <2>2, <2>4, <2>6, FirstPosition
      <3>3. \A n \in heldResponses : Conn(n)'.key # j
        BY <1>0, <2>3, <2>4, <2>6 DEF Waiting, NeverBothWaiting
      <3>4. ASSUME NEW n \in pending', Conn(n)'.key = j PROVE ress'[j] < Pos(n)'
        <4>1. n \in pending /\ n # req /\ n \in 1..Last /\ req \in 1..Last
          BY <1>0, <2>2, <2>3
        <4>2. Conn(n).key = k /\ Pos(n)' = Pos(n)
          BY <2>4, <2>6, <3>4, <4>1
        <4>3. req < n
          BY <1>0, <2>3, <4>1, <4>2
        <4>4. Pos(req) < Pos(n)
          BY <2>3, <4>1, <4>2, <4>3 DEF Sorted
        <4> QED
          BY <3>1, <3>2, <4>2, <4>4
      <3>5. ASSUME NEW i \in Nat, ress'[j] < i, i <= reqs'[j]
            PROVE  \E n \in pending' : Conn(n)'.key = j /\ Pos(n)' = i
        <4>1. PICK n \in pending : Conn(n).key = j /\ Pos(n) = i
          BY <1>c, <2>4, <3>1, <3>5 DEF Aligned
        <4> QED
          BY <1>0, <1>c, <2>2, <2>4, <3>1, <3>2, <3>5, <4>1
      <3>6. ASSUME NEW i \in Nat, reqs'[j] < i, i <= ress'[j] PROVE FALSE
        BY <1>c, <3>1, <3>2, <3>6
      <3> QED
        BY <2>1, <3>3, <3>4, <3>5, <3>6 DEF Aligned
    <2> QED
      BY <2>5, <2>6
  <1>5. ASSUME NEW k \in pairKey, PushResponseHeld(k) PROVE Aligned(j)'
    <2>0. /\ RecordResponse(k) /\ pending' = pending
          /\ holdResponse(Last + 1)
          /\ \A n \in pending : Conn(n).key # k
      BY <1>5 DEF PushResponseHeld, Of
    <2>1. ASSUME NEW old \in heldResponses,
                 heldResponses' = (heldResponses \cup {Last + 1}) \ {old},
                 lossy' = lossy \cup {Conn(old)}
          PROVE  Conn(old).key # j /\ old # Last + 1 /\ old \in 1..Last
      <3>1. old \in 1..Last
        BY <1>0
      <3>2. ConnOf(j)' = ConnOf(j)
        BY <2>0, ArrivalFacts
      <3>3. Conn(old) = ConnOf(Conn(old).key)
        BY DEF Waiting, Current
      <3> QED
        BY <1>0, <2>1, <3>1, <3>2, <3>3
    <2>2. /\ heldResponses' \subseteq heldResponses \cup {Last + 1}
          /\ Last + 1 \in heldResponses'
          /\ \A n \in heldResponses : Conn(n).key = j => n \in heldResponses'
      BY <1>0, <2>0, <2>1 DEF holdResponse
    <2>4. /\ Aligned(j)
          /\ \A n \in 1..Last : Pos(n)' = Pos(n) /\ Conn(n)' = Conn(n)
          /\ \A n : n = Last + 1 => Conn(n)'.key = k
      BY <1>1, <2>0, <2>2
    <2>5. CASE j # k
      <3>1. ress'[j] = ress[j] /\ reqs'[j] = reqs[j]
        BY <2>0, <2>2, <2>5, CounterFacts
      <3>2. \A n : n \in heldResponses' /\ Conn(n)'.key = j <=> n \in heldResponses /\ Conn(n).key = j
        BY <1>0, <2>0, <2>2, <2>4, <2>5
      <3> QED
        BY <1>0, <2>0, <2>2, <2>4, <3>1, <3>2, Untouched
    <2>6. CASE j = k
      <3>1. /\ ress'[j] = ress[j] + 1 /\ reqs'[j] = reqs[j]
            /\ \A n : n = Last + 1 => Pos(n)' = ress[j] + 1
        BY <2>0, <2>2, <2>6, CounterFacts
      <3>2. reqs[j] <= ress[j]
        <4>1. SUFFICES ASSUME ress[j] < reqs[j] PROVE FALSE
          BY <1>c
        <4>2. PICK n \in pending : Conn(n).key = j
          BY <1>c, <2>4, <4>1 DEF Aligned
        <4> QED
          BY <2>0, <2>2, <2>6, <4>2
      <3>3. \A n \in pending : Conn(n)'.key # j
        BY <1>0, <2>0, <2>2, <2>4, <2>6
      <3>4. ASSUME NEW n \in heldResponses', Conn(n)'.key = j PROVE reqs'[j] < Pos(n)'
        <4>1. CASE n \in heldResponses
          BY <1>0, <2>4, <3>1, <3>4, <4>1 DEF Aligned
        <4>2. CASE n = Last + 1
          BY <1>c, <3>1, <3>2, <4>2
        <4> QED
          BY <2>0, <2>2, <4>1, <4>2
      <3>5. ASSUME NEW i \in Nat, reqs'[j] < i, i <= ress'[j]
            PROVE  \E n \in heldResponses' : Conn(n)'.key = j /\ Pos(n)' = i
        <4>1. CASE i <= ress[j]
          <5>1. PICK n \in heldResponses : Conn(n).key = j /\ Pos(n) = i
            BY <2>4, <3>1, <3>5, <4>1 DEF Aligned
          <5> QED
            BY <1>0, <2>0, <2>2, <2>4, <5>1
        <4>2. CASE i = ress[j] + 1
          <5>1. PICK n \in Nat : n = Last + 1
            BY <1>0
          <5> QED
            BY <2>0, <2>2, <2>4, <2>6, <3>1, <4>2, <5>1
        <4> QED
          BY <1>c, <3>1, <3>5, <4>1, <4>2
      <3>6. ASSUME NEW i \in Nat, ress'[j] < i, i <= reqs'[j] PROVE FALSE
        BY <1>c, <3>1, <3>2, <3>6
      <3> QED
        BY <2>0, <2>2, <3>3, <3>4, <3>5, <3>6 DEF Aligned
    <2> QED
      BY <2>5, <2>6
  <1>6. ASSUME NEW k \in pairKey, CloseKey(k) PROVE Aligned(j)'
    <2>1. /\ log' = log
          /\ \A n : n \in pending' <=> n \in pending /\ Conn(n).key # k
          /\ \A n : n \in heldResponses' <=> n \in heldResponses /\ Conn(n).key # k
          /\ reqs' = [reqs EXCEPT ![k] = 0] /\ ress' = [ress EXCEPT ![k] = 0]
          /\ life' = [life EXCEPT ![k] = @ + 1]
      BY <1>6 DEF CloseKey, Of
    <2>2. \A n : Pos(n)' = Pos(n) /\ Conn(n)' = Conn(n)
      BY <2>1 DEF Pos, Conn
    <2>3. CASE j # k
      <3>1. reqs'[j] = reqs[j] /\ ress'[j] = ress[j] /\ ConnOf(j)' = ConnOf(j)
        BY <2>1, <2>3 DEF TypeInv, TypeOK, ConnOf
      <3>2. Aligned(j)
        BY <1>l, <3>1 DEF AllAligned
      <3> QED
        BY <2>1, <2>2, <2>3, <3>1, <3>2, Untouched
    <2>4. CASE j = k
      <3>1. reqs'[j] = 0 /\ ress'[j] = 0
        BY <2>1, <2>4 DEF TypeInv, TypeOK
      <3> QED
        BY <2>1, <2>2, <2>4, <3>1 DEF Aligned
    <2> QED
      BY <2>3, <2>4
  <1>7. CASE Sweep
    <2>1. /\ pending' = pending \ overdue /\ lossy' = lossy \cup {Conn(n) : n \in overdue}
          /\ UNCHANGED <<log, heldResponses, life, reqs, ress>>
      BY <1>7 DEF Sweep
    <2>2. \A n : Pos(n)' = Pos(n) /\ Conn(n)' = Conn(n)
      BY <2>1 DEF Pos, Conn
    <2>3. ConnOf(j)' = ConnOf(j)
      BY <2>1 DEF ConnOf
    <2>4. \A n \in overdue : Conn(n).key # j
      BY <1>0, <2>1, <2>3 DEF Waiting, Current
    <2>5. Aligned(j)
      BY <1>l, <2>3 DEF AllAligned
    <2> QED
      BY <2>1, <2>2, <2>4, <2>5, Untouched
  <1>8. CASE Expire \/ UNCHANGED vars
    <2>1. UNCHANGED <<log, pending, heldResponses, life, reqs, ress>>
      BY <1>8 DEF Expire, vars
    <2>2. \A n : Pos(n)' = Pos(n) /\ Conn(n)' = Conn(n)
      BY <2>1 DEF Pos, Conn
    <2>3. ConnOf(j)' = ConnOf(j)
      BY <2>1 DEF ConnOf
    <2>4. Aligned(j)
      BY <1>l, <2>3 DEF AllAligned
    <2> QED
      BY <2>1, <2>2, <2>4, Untouched
  <1> QED
    BY <1>2, <1>3, <1>4, <1>5, <1>6, <1>7, <1>8, KeysArePairKeys
       DEF Next, Push, Close, CloseSSL

LEMMA PairedByPositionStep ==
    TypeInv /\ Waiting /\ Sorted /\ AllAligned /\ PairedByPosition /\ [Next]_vars
        => PairedByPosition'
  <1> SUFFICES ASSUME TypeInv, Waiting, Sorted, AllAligned, PairedByPosition, [Next]_vars,
                      NEW p \in paired', Conn(p[1])' \notin lossy'
               PROVE  Pos(p[1])' = Pos(p[2])'
    BY DEF PairedByPosition, Pos
  <1>l. lossy \subseteq lossy'
    BY DEF Next, Push, Close, CloseSSL, PushRequestMatched, PushRequestPending,
       PushResponseMatched, PushResponseHeld, holdResponse, CloseKey, Expire, Sweep, vars
  <1>1. CASE p \in paired
    <2>1. p[1] \in 1..Last /\ p[2] \in 1..Last
      BY <1>1, WaitingTypes
    <2>2. Conn(p[1]) \notin lossy
      BY <1>l, <2>1, LogGrows
    <2> QED
      BY <1>1, <2>1, <2>2, LogGrows DEF PairedByPosition, Pos
  <1>2. CASE p \notin paired
    <2>1. PICK k \in pairKey :
             /\ Conn(p[1])' = ConnOf(k)
             /\ \/ /\ PushRequestMatched(k)
                   /\ p[1] = Last + 1 /\ IsOldest(p[2], Of(k, heldResponses))
                \/ /\ PushResponseMatched(k)
                   /\ p[2] = Last + 1 /\ IsOldest(p[1], Of(k, pending))
      BY <1>2, NewPair
    <2>2. Aligned(k)
      BY <1>l, <2>1 DEF AllAligned
    <2>3. CASE /\ PushRequestMatched(k)
               /\ p[1] = Last + 1 /\ IsOldest(p[2], Of(k, heldResponses))
      <3>1. RecordRequest(k) /\ p[2] \in 1..Last
        BY <2>3, WaitingTypes DEF PushRequestMatched, IsOldest, Of
      <3>2. Pos(p[2]) = reqs[k] + 1
        BY <2>2, <2>3, FirstPosition
      <3> QED
        BY <2>3, <3>1, <3>2, CounterFacts
    <2>4. CASE /\ PushResponseMatched(k)
               /\ p[2] = Last + 1 /\ IsOldest(p[1], Of(k, pending))
      <3>1. RecordResponse(k) /\ p[1] \in 1..Last
        BY <2>4, WaitingTypes DEF PushResponseMatched, IsOldest, Of
      <3>2. Pos(p[1]) = ress[k] + 1
        BY <2>2, <2>4, FirstPosition
      <3> QED
        BY <2>4, <3>1, <3>2, CounterFacts
    <2> QED
      BY <2>1, <2>3, <2>4
  <1> QED
    BY <1>1, <1>2

LEMMA AlignedInvariant == Spec => [](Sorted /\ AllAligned)
  <1>1. Init => Sorted /\ AllAligned
    BY DEF Init, Sorted, AllAligned, Aligned
  <1> QED
    BY <1>1, TypeInvariant, WaitingInvariant, SortedStep, AlignedStep, PTL DEF Spec

(* The n-th request is paired with the n-th response wherever nothing was   *)
(* lost, whatever the interleaving of the two directions.                   *)
THEOREM PairedByPositionHolds == Spec => []PairedByPosition
  <1>1. Init => PairedByPosition
    BY DEF Init, PairedByPosition
  <1> QED
    BY <1>1, TypeInvariant, WaitingInvariant, AlignedInvariant, PairedByPositionStep, PTL DEF Spec

-----------------------------------------------------------------------------
(* The messages of a connection are numbered in each direction: the counter *)
(* of its key is the number of the last one.                                *)

Counter(k, isRequest) == IF isRequest THEN reqs[k] ELSE ress[k]

NumberOf(n) == Counter(Conn(n).key, log[n].isRequest)

Numbered ==
    /\ \A n \in 1..Last : Conn(n).life <= life[Conn(n).key]
    /\ \A n \in 1..Last : Pos(n) \in Nat \ {0}
    /\ \A n \in 1..Last : Current(n) => Pos(n) <= NumberOf(n)
    /\ \A k \in pairKey, d \in BOOLEAN : Counter(k, d) > 0 =>
          \E n \in 1..Last : Conn(n) = ConnOf(k) /\ log[n].isRequest = d /\ Pos(n) = Counter(k, d)
    /\ \A n \in closed : Conn(n).life < life[Conn(n).key]

(* The numbers while a message arrives.                                     *)
LEMMA NumberFacts ==
    ASSUME TypeInv, NEW k \in pairKey, NEW d \in BOOLEAN,
           IF d THEN RecordRequest(k) ELSE RecordResponse(k)
    PROVE  /\ UNCHANGED <<life, closed>> /\ Last' = Last + 1 /\ Last \in Nat
           /\ \A n \in 1..Last : log'[n] = log[n] /\ Conn(n)' = Conn(n) /\ Pos(n)' = Pos(n)
           /\ \A n : n = Last + 1 => /\ Conn(n)' = ConnOf(k) /\ log'[n].isRequest = d
                                     /\ Pos(n)' = Counter(k, d) + 1
           /\ \A j \in pairKey, b \in BOOLEAN :
                 /\ Counter(j, b) \in Nat
                 /\ Counter(j, b)' = IF j = k /\ b = d THEN Counter(k, d) + 1 ELSE Counter(j, b)
           /\ \A j \in pairKey : ConnOf(j)' = ConnOf(j)
           /\ ConnOf(k) = [key |-> k, life |-> life[k]]
  <1>1. RecordRequest(k) \/ RecordResponse(k)
    OBVIOUS
  <1>2. UNCHANGED <<life, closed>>
    BY DEF RecordRequest, RecordResponse
  <1>3. CASE d = TRUE
    <2>1. RecordRequest(k)
      BY <1>3
    <2>2. \A n : n = Last + 1 => log'[n].isRequest = TRUE
      BY <2>1, ArrivalFacts
    <2> QED
      BY <1>2, <1>3, <2>1, <2>2, ArrivalFacts, CounterFacts DEF Counter, ConnOf
  <1>4. CASE d = FALSE
    <2>1. RecordResponse(k) /\ ~RecordRequest(k)
      BY <1>4, RecordsDiffer
    <2>2. \A n : n = Last + 1 => log'[n].isRequest = FALSE
      BY <2>1, ArrivalFacts
    <2> QED
      BY <1>2, <1>4, <2>1, <2>2, ArrivalFacts, CounterFacts DEF Counter, ConnOf
  <1> QED
    BY <1>3, <1>4

LEMMA NumberedStep == TypeInv /\ Waiting /\ Numbered /\ [Next]_vars => Numbered'
  <1> SUFFICES ASSUME TypeInv, Waiting, Numbered, [Next]_vars PROVE Numbered'
    OBVIOUS
  <1>0. /\ pending \subseteq 1..Last /\ Last \in Nat
        /\ \A n \in 1..Last : Conn(n).key \in pairKey /\ Conn(n).life \in Nat
        /\ \A n \in 1..Last : log[n].isRequest \in BOOLEAN
        /\ \A k \in pairKey : life[k] \in Nat
        /\ closed \subseteq 1..Last
    <2>1. log \in Seq(Message)
      BY DEF TypeInv, TypeOK
    <2>2. \A n \in 1..Last : log[n] \in Message
      BY <2>1 DEF Last
    <2>3. \A n \in 1..Last : /\ Conn(n) \in Connection
                             /\ log[n].isRequest \in BOOLEAN
      BY <2>2 DEF Message, Conn
    <2>4. \A n \in 1..Last : Conn(n).key \in pairKey /\ Conn(n).life \in Nat
      BY <2>3 DEF Connection
    <2>5. life \in [pairKey -> 0..MaxMsgs] /\ closed \subseteq 1..Last
      BY DEF TypeInv, TypeOK
    <2> QED
      BY <2>3, <2>4, <2>5, WaitingTypes
  <1>1. ASSUME NEW k \in pairKey, NEW d \in BOOLEAN,
               IF d THEN RecordRequest(k) ELSE RecordResponse(k)
        PROVE  Numbered'
    <2>1. /\ UNCHANGED <<life, closed>> /\ Last' = Last + 1
          /\ \A n \in 1..Last : log'[n] = log[n] /\ Conn(n)' = Conn(n) /\ Pos(n)' = Pos(n)
          /\ \A n : n = Last + 1 => /\ Conn(n)' = ConnOf(k) /\ log'[n].isRequest = d
                                    /\ Pos(n)' = Counter(k, d) + 1
          /\ \A j \in pairKey, b \in BOOLEAN :
                /\ Counter(j, b) \in Nat
                /\ Counter(j, b)' = IF j = k /\ b = d THEN Counter(k, d) + 1 ELSE Counter(j, b)
          /\ \A j \in pairKey : ConnOf(j)' = ConnOf(j)
          /\ ConnOf(k).key = k /\ ConnOf(k).life = life[k]
      BY <1>1, NumberFacts
    <2>2. \A n \in 1..Last' : n \in 1..Last \/ n = Last + 1
      BY <1>0, <2>1
    <2>3. ASSUME NEW n \in 1..Last'
          PROVE  /\ Conn(n)'.life <= life'[Conn(n)'.key]
                 /\ Pos(n)' \in Nat \ {0}
                 /\ Current(n)' => Pos(n)' <= NumberOf(n)'
      <3>1. CASE n \in 1..Last
        <4>1. /\ Conn(n).life <= life[Conn(n).key] /\ Pos(n) \in Nat \ {0}
              /\ Current(n) => Pos(n) <= NumberOf(n)
          BY <3>1 DEF Numbered
        <4>2. NumberOf(n)' = Counter(Conn(n).key, log[n].isRequest)'
          BY <2>1, <3>1 DEF NumberOf, Counter
        <4>3. NumberOf(n) <= NumberOf(n)' /\ NumberOf(n) \in Nat /\ NumberOf(n)' \in Nat
          BY <1>0, <2>1, <3>1, <4>2 DEF NumberOf
        <4>4. Current(n)' => Current(n)
          BY <1>0, <2>1, <3>1 DEF Current
        <4> QED
          BY <2>1, <3>1, <4>1, <4>3, <4>4
      <3>2. CASE n = Last + 1
        <4>1. NumberOf(n)' = Counter(k, d)'
          BY <2>1, <3>2 DEF NumberOf, Counter
        <4> QED
          BY <1>0, <2>1, <3>2, <4>1
      <3> QED
        BY <2>2, <3>1, <3>2
    <2>4. ASSUME NEW j \in pairKey, NEW b \in BOOLEAN, Counter(j, b)' > 0
          PROVE  \E n \in 1..Last' : /\ Conn(n)' = ConnOf(j)' /\ log'[n].isRequest = b
                                     /\ Pos(n)' = Counter(j, b)'
      <3>1. CASE j = k /\ b = d
        BY <1>0, <2>1, <3>1
      <3>2. CASE ~(j = k /\ b = d)
        <4>1. Counter(j, b)' = Counter(j, b)
          BY <2>1, <3>2
        <4>2. PICK n \in 1..Last : /\ Conn(n) = ConnOf(j) /\ log[n].isRequest = b
                                   /\ Pos(n) = Counter(j, b)
          BY <2>4, <4>1 DEF Numbered
        <4>3. n \in 1..Last'
          BY <1>0, <2>1
        <4> QED
          BY <2>1, <4>1, <4>2, <4>3
      <3> QED
        BY <3>1, <3>2
    <2>5. \A n \in closed' : Conn(n)'.life < life'[Conn(n)'.key]
      BY <1>0, <2>1 DEF Numbered
    <2> QED
      BY <2>3, <2>4, <2>5 DEF Numbered
  <1>2. ASSUME NEW k \in pairKey, CloseKey(k) PROVE Numbered'
    <2>1. /\ closed' = closed \cup Of(k, pending) /\ UNCHANGED log
          /\ life' = [life EXCEPT ![k] = @ + 1]
          /\ reqs' = [reqs EXCEPT ![k] = 0] /\ ress' = [ress EXCEPT ![k] = 0]
      BY <1>2 DEF CloseKey
    <2>2. /\ Last' = Last
          /\ \A n : Conn(n)' = Conn(n) /\ Pos(n)' = Pos(n)
      BY <2>1 DEF Last, Conn, Pos
    <2>3. \A j \in pairKey : life[j] <= life'[j] /\ life'[j] \in Nat
                             /\ life'[j] = (IF j = k THEN life[k] + 1 ELSE life[j])
      BY <1>0, <2>1 DEF TypeInv, TypeOK
    <2>4. \A j \in pairKey, b \in BOOLEAN :
             Counter(j, b)' = IF j = k THEN 0 ELSE Counter(j, b)
      BY <2>1 DEF Counter, TypeInv, TypeOK
    <2>5. ASSUME NEW n \in 1..Last
          PROVE  /\ Conn(n).life <= life'[Conn(n).key]
                 /\ Pos(n) \in Nat \ {0}
                 /\ Current(n)' => Pos(n) <= NumberOf(n)'
      <3>1. /\ Conn(n).life <= life[Conn(n).key] /\ Pos(n) \in Nat \ {0}
            /\ Current(n) => Pos(n) <= NumberOf(n)
        BY DEF Numbered
      <3>2. Conn(n).life <= life'[Conn(n).key]
        BY <1>0, <2>3, <3>1
      <3>3. Current(n)' => Conn(n).life = life'[Conn(n).key]
        <4>1. Current(n)' => Conn(n) = [key |-> Conn(n).key, life |-> life'[Conn(n).key]]
          BY <2>2 DEF Current, ConnOf
        <4> QED
          BY <4>1
      <3>4. ASSUME Current(n)' PROVE Conn(n).key # k /\ Current(n)
        <4>1. Conn(n).key # k
          BY <1>0, <2>3, <3>1, <3>3, <3>4
        <4>2. life'[Conn(n).key] = life[Conn(n).key]
          BY <1>0, <2>3, <4>1
        <4> QED
          BY <2>2, <3>4, <4>1, <4>2 DEF Current, ConnOf
      <3>5. \A j \in pairKey : j # k => reqs'[j] = reqs[j] /\ ress'[j] = ress[j]
        BY <2>1 DEF TypeInv, TypeOK
      <3>6. Current(n)' => NumberOf(n)' = NumberOf(n)
        BY <1>0, <2>1, <2>2, <3>4, <3>5 DEF NumberOf, Counter
      <3> QED
        BY <3>1, <3>2, <3>4, <3>6
    <2>6. ASSUME NEW j \in pairKey, NEW b \in BOOLEAN, Counter(j, b)' > 0
          PROVE  \E n \in 1..Last : /\ Conn(n) = ConnOf(j)' /\ log[n].isRequest = b
                                    /\ Pos(n) = Counter(j, b)'
      <3>1. j # k /\ Counter(j, b)' = Counter(j, b)
        BY <2>4, <2>6
      <3>2. ConnOf(j)' = ConnOf(j)
        BY <2>3, <3>1 DEF ConnOf
      <3> QED
        BY <2>6, <3>1, <3>2 DEF Numbered
    <2>7. \A n \in closed' : Conn(n).life < life'[Conn(n).key]
      <3>1. ASSUME NEW n \in closed PROVE Conn(n).life < life'[Conn(n).key]
        BY <1>0, <2>3 DEF Numbered
      <3>2. ASSUME NEW n \in Of(k, pending) PROVE Conn(n).life < life'[Conn(n).key]
        <4>1. n \in 1..Last /\ Conn(n).key = k
          BY <1>0 DEF Of
        <4> QED
          BY <1>0, <2>3, <4>1 DEF Numbered
      <3> QED
        BY <2>1, <3>1, <3>2
    <2> QED
      BY <2>1, <2>2, <2>5, <2>6, <2>7 DEF Numbered
  <1>3. ASSUME UNCHANGED <<log, life, reqs, ress, closed>> PROVE Numbered'
    <2>1. /\ Last' = Last
          /\ \A n : Conn(n)' = Conn(n) /\ Pos(n)' = Pos(n)
      BY <1>3 DEF Last, Conn, Pos
    <2>2. /\ \A n : Current(n)' = Current(n) /\ NumberOf(n)' = NumberOf(n)
          /\ \A j : ConnOf(j)' = ConnOf(j)
          /\ \A j, b : Counter(j, b)' = Counter(j, b)
      BY <1>3, <2>1 DEF Current, ConnOf, NumberOf, Counter
    <2> QED
      BY <1>3, <2>1, <2>2 DEF Numbered
  <1>4. CASE \E o \in Origin : Push(o)
    <2>1. PICK o \in Origin : Push(o)
      BY <1>4
    <2>2. PICK k \in pairKey : RecordRequest(k) \/ RecordResponse(k)
      BY <2>1, KeysArePairKeys DEF Push, PushRequestMatched, PushRequestPending,
         PushResponseMatched, PushResponseHeld
    <2> QED
      BY <2>2, <1>1
  <1>5. CASE Expire \/ Sweep \/ UNCHANGED vars
    BY <1>3, <1>5 DEF Expire, Sweep, vars
  <1> QED
    BY <1>2, <1>4, <1>5, KeysArePairKeys DEF Next, Close, CloseSSL

LEMMA NumberedInvariant == Spec => []Numbered
  <1>1. Init => Numbered
    <2>1. Init => Last = 0 /\ \A k \in pairKey, d \in BOOLEAN : Counter(k, d) = 0
      BY DEF Init, Last, Counter
    <2> QED
      BY <2>1 DEF Init, Numbered
  <1> QED
    BY <1>1, TypeInvariant, WaitingInvariant, NumberedStep, PTL DEF Spec

-----------------------------------------------------------------------------
(* The pairer implements the contract of Exchanges: each step maps to a     *)
(* step of the contract or to a stutter.                                    *)

Dead == {c \in Connection : c.life < life[c.key]}

LEMMA DeadFacts ==
    ASSUME TypeInv, NEW k \in pairKey
    PROVE  /\ ConnOf(k) \notin Dead
           /\ UNCHANGED life => Dead' = Dead
           /\ CloseKey(k) => Dead' = Dead \cup {ConnOf(k)}
  <1>1. ConnOf(k) \notin Dead /\ (UNCHANGED life => Dead' = Dead)
    BY DEF TypeInv, TypeOK, Dead, ConnOf
  <1>2. ASSUME CloseKey(k) PROVE Dead' = Dead \cup {ConnOf(k)}
    <2>1. life' = [life EXCEPT ![k] = @ + 1] /\ life \in [pairKey -> 0..MaxMsgs]
      BY <1>2 DEF CloseKey, TypeInv, TypeOK
    <2>2. ConnOf(k) \in Connection
      BY <2>1 DEF ConnOf, Connection
    <2>3. ASSUME NEW c \in Connection
          PROVE  c.life < life'[c.key] <=> (c.life < life[c.key] \/ c = ConnOf(k))
      <3>1. c.key \in pairKey /\ c.life \in Nat /\ c = [key |-> c.key, life |-> c.life]
        BY DEF Connection
      <3>2. CASE c.key # k
        BY <2>1, <3>1, <3>2 DEF ConnOf
      <3>3. CASE c.key = k
        <4>1. c = ConnOf(k) <=> c.life = life[k]
          BY <3>1, <3>3 DEF ConnOf
        <4> QED
          BY <2>1, <3>1, <3>3, <4>1
      <3> QED
        BY <3>2, <3>3
    <2> QED
      BY <2>2, <2>3 DEF Dead
  <1> QED
    BY <1>1, <1>2

LEMMA ContractStep ==
    TypeInv /\ Waiting /\ SameConnection /\ Order /\ [Next]_vars
        => [Contract!Next]_(Contract!vars)
  <1> SUFFICES ASSUME TypeInv, Waiting, SameConnection, Order, [Next]_vars
               PROVE  [Contract!Next]_(Contract!vars)
    OBVIOUS
  <1>0. /\ pending \subseteq 1..Last /\ heldResponses \subseteq 1..Last /\ Last \in Nat
        /\ overdue \subseteq pending
        /\ paired \subseteq (1..Last) \X (1..Last)
    BY WaitingTypes
  <1>1. ASSUME NEW k \in pairKey, PushRequestPending(k) PROVE Contract!Next
    <2> DEFINE m == [isRequest |-> TRUE, conn |-> ConnOf(k), pos |-> reqs[k] + 1]
    <2>1. RecordRequest(k) /\ pending' = pending \cup {Last + 1} /\ paired' = paired
      BY <1>1 DEF PushRequestPending
    <2>2. /\ log' = Append(log, m) /\ UNCHANGED <<life, closed, timedOut>>
          /\ m.isRequest = TRUE /\ m.conn = ConnOf(k)
      BY <2>1 DEF RecordRequest
    <2>3. m \in Message
      BY <2>1, RecordTypes
    <2> HIDE DEF m
    <2>4. Contract!Wait(m)
      BY <2>1, <2>2, DeadFacts DEF Contract!Wait, Contract!Arrives, Dead, Last
    <2> QED
      BY <2>3, <2>4 DEF Contract!Next
  <1>2. ASSUME NEW k \in pairKey, PushResponseHeld(k) PROVE Contract!Next
    <2> DEFINE m == [isRequest |-> FALSE, conn |-> ConnOf(k), pos |-> ress[k] + 1]
    <2>1. RecordResponse(k) /\ pending' = pending /\ paired' = paired
      BY <1>2 DEF PushResponseHeld
    <2>2. /\ log' = Append(log, m) /\ UNCHANGED <<life, closed, timedOut>>
          /\ m.isRequest = FALSE /\ m.conn = ConnOf(k)
      BY <2>1 DEF RecordResponse
    <2>3. m \in Message
      BY <2>1, RecordTypes
    <2> HIDE DEF m
    <2>4. Contract!Wait(m)
      BY <2>1, <2>2, DeadFacts DEF Contract!Wait, Contract!Arrives, Dead, Last
    <2> QED
      BY <2>3, <2>4 DEF Contract!Next
  <1>3. ASSUME NEW k \in pairKey, PushRequestMatched(k) PROVE Contract!Next
    <2> DEFINE m == [isRequest |-> TRUE, conn |-> ConnOf(k), pos |-> reqs[k] + 1]
    <2>1. RecordRequest(k) /\ pending' = pending
      BY <1>3 DEF PushRequestMatched
    <2>2. /\ log' = Append(log, m) /\ UNCHANGED <<life, closed, timedOut>>
          /\ m.isRequest = TRUE /\ m.conn = ConnOf(k)
      BY <2>1 DEF RecordRequest
    <2>3. m \in Message
      BY <2>1, RecordTypes
    <2> HIDE DEF m
    <2>4. PICK s \in heldResponses : /\ IsOldest(s, Of(k, heldResponses))
                                     /\ paired' = paired \cup {<<Last + 1, s>>}
      BY <1>3 DEF PushRequestMatched
    <2>5. s \in 1..Last /\ Conn(s).key = k /\ Conn(s) = ConnOf(k) /\ log[s].isRequest = FALSE
      BY <1>0, <2>4 DEF Waiting, Current, IsOldest, Of
    <2>6. Contract!OpenOn(ConnOf(k)) = {}
      <3>1. \A r \in pending : Conn(r) # ConnOf(k)
        BY <2>4, <2>5 DEF Waiting, NeverBothWaiting
      <3> QED
        BY <3>1 DEF Contract!OpenOn, Contract!Conn, Conn
    <2>7. \A p \in paired : Conn(p[1]) = ConnOf(k) => p[1] < Last + 1 /\ p[2] < s
      BY <1>0, <2>4, <2>5 DEF Order, PairedFirst, SameConnection
    <2>8. /\ log'[Last + 1] = m /\ log'[s] = log[s]
      BY <2>1, <2>5, RecordRequestFacts DEF m
    <2>9. Contract!Answer(m, Last + 1, s)
      <3>1. Last + 1 = Len(log) + 1 /\ s \in 1..Len(log)
        BY <2>5 DEF Last
      <3>2. /\ log'[Last + 1].isRequest /\ ~log'[s].isRequest
            /\ log'[Last + 1].conn = m.conn /\ log'[s].conn = m.conn
        BY <2>2, <2>5, <2>8 DEF Conn
      <3>3. \A p \in paired : Contract!Conn(p[1]) = m.conn => p[1] < Last + 1 /\ p[2] < s
        BY <2>2, <2>7 DEF Contract!Conn, Conn
      <3>4. pending' = pending \ {Last + 1}
        BY <1>0, <2>1
      <3>5. Dead' = Dead
        BY <2>2, DeadFacts
      <3> QED
        BY <2>2, <2>4, <2>6, <3>1, <3>2, <3>3, <3>4, <3>5 DEF Contract!Answer, Dead
    <2>10. Contract!Arrives(m)
      BY <2>2, DeadFacts DEF Contract!Arrives, Dead
    <2>11. Last + 1 \in 1..(Len(log) + 1) /\ s \in 1..(Len(log) + 1)
      BY <1>0, <2>5 DEF Last
    <2> QED
      BY <2>3, <2>9, <2>10, <2>11 DEF Contract!Next
  <1>4. ASSUME NEW k \in pairKey, PushResponseMatched(k) PROVE Contract!Next
    <2> DEFINE m == [isRequest |-> FALSE, conn |-> ConnOf(k), pos |-> ress[k] + 1]
    <2>1. RecordResponse(k)
      BY <1>4 DEF PushResponseMatched
    <2>2. /\ log' = Append(log, m) /\ UNCHANGED <<life, closed, timedOut>>
          /\ m.isRequest = FALSE /\ m.conn = ConnOf(k)
      BY <2>1 DEF RecordResponse
    <2>3. m \in Message
      BY <2>1, RecordTypes
    <2> HIDE DEF m
    <2>4. PICK r \in pending : /\ IsOldest(r, Of(k, pending))
                               /\ pending' = pending \ {r}
                               /\ paired' = paired \cup {<<r, Last + 1>>}
      BY <1>4 DEF PushResponseMatched
    <2>5. r \in 1..Last /\ Conn(r).key = k /\ Conn(r) = ConnOf(k) /\ log[r].isRequest = TRUE
      BY <1>0, <2>4 DEF Waiting, Current, IsOldest, Of
    <2>6. /\ r \in Contract!OpenOn(ConnOf(k))
          /\ \A q \in Contract!OpenOn(ConnOf(k)) : r <= q
      <3>1. ConnOf(k).key = k
        BY DEF ConnOf
      <3> QED
        BY <2>4, <2>5, <3>1 DEF Contract!OpenOn, Contract!Conn, Conn, IsOldest, Of
    <2>7. \A p \in paired : Conn(p[1]) = ConnOf(k) => p[1] < r /\ p[2] < Last + 1
      BY <1>0, <2>4, <2>5 DEF Order, PairedFirst
    <2>8. log'[Last + 1] = m /\ log'[r] = log[r]
      BY <2>1, <2>5, RecordResponseFacts DEF m
    <2>9. Contract!Answer(m, r, Last + 1)
      <3>1. Last + 1 = Len(log) + 1
        BY DEF Last
      <3>2. /\ log'[r].isRequest /\ ~log'[Last + 1].isRequest
            /\ log'[r].conn = m.conn /\ log'[Last + 1].conn = m.conn
        BY <2>2, <2>5, <2>8 DEF Conn
      <3>3. \A p \in paired : Contract!Conn(p[1]) = m.conn => p[1] < r /\ p[2] < Last + 1
        BY <2>2, <2>7 DEF Contract!Conn, Conn
      <3>5. Dead' = Dead
        BY <2>2, DeadFacts
      <3> QED
        BY <2>2, <2>4, <2>6, <3>1, <3>2, <3>3, <3>5 DEF Contract!Answer, Dead
    <2>10. Contract!Arrives(m)
      BY <2>2, DeadFacts DEF Contract!Arrives, Dead
    <2>11. Last + 1 \in 1..(Len(log) + 1) /\ r \in 1..(Len(log) + 1)
      BY <1>0, <2>5 DEF Last
    <2> QED
      BY <2>3, <2>9, <2>10, <2>11 DEF Contract!Next
  <1>5. ASSUME NEW k \in pairKey, CloseKey(k) PROVE Contract!Next
    <2>1. /\ UNCHANGED <<log, paired, timedOut>> /\ reqs[k] + ress[k] > 0
          /\ pending' = pending \ Of(k, pending) /\ closed' = closed \cup Of(k, pending)
      BY <1>5 DEF CloseKey
    <2>2. Of(k, pending) = Contract!OpenOn(ConnOf(k))
      <3>1. ASSUME NEW n \in pending PROVE Conn(n).key = k <=> Conn(n) = ConnOf(k)
        BY DEF Waiting, Current, ConnOf
      <3> QED
        BY <3>1 DEF Of, Contract!OpenOn, Contract!Conn, Conn
    <2>3. ConnOf(k) \in {m.conn : m \in Message}
      <3>1. ConnOf(k) \in Connection
        BY DEF ConnOf, Connection, TypeInv, TypeOK
      <3>2. 1 \in 1..MaxMsgs
        BY <2>1 DEF TypeInv, TypeOK
      <3> DEFINE m == [isRequest |-> TRUE, conn |-> ConnOf(k), pos |-> 1]
      <3>3. m \in Message /\ m.conn = ConnOf(k)
        BY <3>1, <3>2 DEF Message
      <3> QED
        BY <3>3
    <2>c. PICK c \in {m.conn : m \in Message} : c = ConnOf(k)
      BY <2>3
    <2>4. Contract!Close(c)
      BY <1>5, <2>1, <2>2, <2>c, DeadFacts DEF Contract!Close, Dead
    <2> QED
      BY <2>4 DEF Contract!Next
  <1>6. CASE Sweep
    <2>1. /\ UNCHANGED <<log, paired, closed, life>> /\ overdue # {}
          /\ pending' = pending \ overdue /\ timedOut' = timedOut \cup overdue
      BY <1>6 DEF Sweep
    <2>2. Dead' = Dead
      BY <2>1 DEF Dead
    <2>3. Contract!GiveUp(overdue)
      BY <2>1, <2>2 DEF Contract!GiveUp, Dead
    <2> QED
      BY <1>0, <2>3 DEF Contract!Next
  <1>7. CASE Expire \/ UNCHANGED vars
    <2>1. UNCHANGED <<log, pending, paired, closed, timedOut, life>>
      BY <1>7 DEF Expire, vars
    <2> QED
      BY <2>1 DEF Contract!vars
  <1> QED
    BY <1>1, <1>2, <1>3, <1>4, <1>5, <1>6, <1>7, KeysArePairKeys
       DEF Next, Push, Close, CloseSSL

(* Whoever reads the pairer's events may rely on the contract.              *)
THEOREM ContractHolds == Spec => ImplementsContract
  <1>1. Init => Contract!Init
    BY DEF Init, Contract!Init, Connection
  <1>2. Spec => []Order
    <2>1. Init => Order
      BY DEF Init, Order, PairedFirst, InOrder
    <2> QED
      BY <2>1, TypeInvariant, WaitingInvariant, SameConnectionHolds, OrderStep, PTL DEF Spec
  <1> QED
    BY <1>1, <1>2, TypeInvariant, WaitingInvariant, SameConnectionHolds, ContractStep, PTL
       DEF Spec, ImplementsContract, Contract!Spec
=============================================================================
