------------------------------ MODULE IovSample ------------------------------
(***************************************************************************)
(* fill_iov_payload of bpf/tinytap.bpf.c: the loop that copies the start of *)
(* a scattered buffer into an event.  One iteration is one step; a byte is  *)
(* its position in the data that the iovecs make together, and the reads of *)
(* user memory may fail.  The code counts in 32 bits, an iovec in 64.       *)
(***************************************************************************)
EXTENDS Naturals, Sequences

CONSTANTS
    MAX_IOV, MAX_PAYLOAD,
    Word,               \* 2^32: what a __u32 wraps at
    iov_sample_budget,  \* the budget of the first, second, ... iovec
    MaxCount, MaxLen    \* bounds: iovecs of a call, bytes of an iovec

ASSUME IovAssumption ==
    /\ MAX_IOV \in Nat \ {0} /\ MAX_PAYLOAD \in Nat /\ Word \in Nat \ {0}
    /\ iov_sample_budget \in [1..MAX_IOV -> 0..MAX_PAYLOAD]
    /\ MaxCount \in Nat /\ MaxLen \in Nat

VARIABLES
    iov,                \* the lengths of the iovecs
    actual_len,         \* what the call moved, or no bound
    iteration,          \* iterations done
    total, remaining, truncated,
    payload,            \* the positions of the bytes copied
    done

sampleVars == <<iov, actual_len, iteration, total, remaining, truncated, payload, done>>

(* The room in the first n iovecs. *)
Room[n \in 0..Len(iov)] == IF n = 0 THEN 0 ELSE Room[n - 1] + iov[n]

(* Where the data of an iovec begins. *)
Start(n) == Room[n - 1]

Least(a, b) == IF a < b THEN a ELSE b

IOV_ACTUAL_LEN_UNBOUNDED == Word - 1

(* An incoming call moves any part of the room it was given; an outgoing    *)
(* one is sampled before it moves anything.                                 *)
SampleInit ==
    /\ iov \in UNION {[1..n -> 0..MaxLen] : n \in 0..MaxCount}
    /\ \/ actual_len \in 0..Room[Len(iov)] /\ actual_len < Word
       \/ actual_len = IOV_ACTUAL_LEN_UNBOUNDED
    /\ iteration = 0 /\ total = 0 /\ remaining = actual_len
    /\ truncated = FALSE /\ payload = <<>> /\ done = FALSE

Bytes(n, len) == [k \in 1..len |-> Start(n) + k]

(* Fault: an iovec cut short does not end the sample. *)
Copy_NoTruncate(n, avail) ==
    LET budget == iov_sample_budget[n]
        to_read == Least(avail, budget)
    IN  IF budget > 0 /\ Len(payload) <= MAX_PAYLOAD - budget
        THEN payload' = payload \o Bytes(n, to_read) /\ UNCHANGED truncated
        ELSE UNCHANGED <<payload, truncated>>

(* The share of iovec n in the sample.  After the first byte left out the   *)
(* sample takes no more.                                                    *)
Copy(n, avail) ==
    LET budget == iov_sample_budget[n]
        to_read == Least(avail, budget)
    IN  IF ~truncated /\ budget > 0 /\ Len(payload) <= MAX_PAYLOAD - budget
        THEN \/ /\ payload' = payload \o Bytes(n, to_read)
                /\ truncated' = (to_read < avail)
             \/ to_read > 0 /\ truncated' = TRUE /\ UNCHANGED payload  \* the read failed
        ELSE /\ truncated' = (truncated \/ avail > 0)
             /\ UNCHANGED payload

Iterate ==
    /\ ~done /\ iteration < MAX_IOV /\ iteration < Len(iov)
    /\ LET n == iteration + 1
           len == iov[n] % Word         \* (__u32)iov.iov_len
           avail == Least(len, remaining)
       IN  /\ Copy(n, avail)
           /\ remaining' = remaining - avail
           /\ total' = (total + len) % Word
           /\ iteration' = n
    /\ UNCHANGED <<iov, actual_len, done>>

(* The loop is over, or an iovec could not be read. *)
Break ==
    /\ ~done /\ done' = TRUE
    /\ UNCHANGED <<iov, actual_len, iteration, total, remaining, truncated, payload>>

SampleNext == Iterate \/ Break

SampleSpec == SampleInit /\ [][SampleNext]_sampleVars

-----------------------------------------------------------------------------

(* The type invariant.                                                      *)
SampleTypeOK ==
    /\ iteration \in 0..MAX_IOV /\ iteration <= Len(iov)
    /\ total \in 0..Word - 1
    /\ remaining \in 0..actual_len
    /\ truncated \in BOOLEAN /\ done \in BOOLEAN
    /\ Len(payload) <= MAX_PAYLOAD

(* An iovec of 4 GiB or more is among those looked at: the code takes it    *)
(* for one of its length modulo 2^32.                                       *)
Wrapped == \E n \in 1..iteration : iov[n] >= Word

(* The sample is the start of the data the call moved, without a gap: the   *)
(* parser takes it for that.  It ends early only for a reason: a budget, a  *)
(* failed read, or the limit on iovecs.  This is not so of a call with an   *)
(* iovec of 4 GiB or more: if its length modulo 2^32 is within the budget,  *)
(* what follows in the sample is the next iovec, and nothing marks the gap. *)
SampleIsPrefix ==
    ~Wrapped =>
        /\ payload = [k \in 1..Len(payload) |-> k]
        /\ Len(payload) <= Least(actual_len, Start(iteration + 1))
        /\ ~truncated => Len(payload) = Least(actual_len, Start(iteration + 1))
=============================================================================
