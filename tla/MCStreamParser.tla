--------------------------- MODULE MCStreamParser ---------------------------
(* StreamParser for TLC: the conversations it is run on.                    *)
EXTENDS StreamParser

Bare == [line |-> "request", coding |-> "bare", chunks |-> <<>>, trailer |-> FALSE]
WithLength(n) == [line |-> "status", coding |-> "length", chunks |-> <<n>>, trailer |-> FALSE]
NoBody(coding) == [line |-> "nobody", coding |-> coding, chunks |-> <<2>>, trailer |-> FALSE]
WithChunks(ns, trailer) ==
    [line |-> "status", coding |-> "chunked", chunks |-> ns, trailer |-> trailer]

Pairs(S) == {<<a, b>> : a, b \in S}

(* Every framing before and after every other. *)
AllFramings == Pairs({Bare, WithLength(0), WithLength(4), NoBody("length"), NoBody("chunked"),
                      WithChunks(<<>>, TRUE), WithChunks(<<1, 3>>, FALSE)})

(* For lossy samples: the message whose body is cut, and one after it. *)
BodyFramings ==
    {<<a, b>> : a \in {WithLength(4), WithChunks(<<4>>, FALSE), WithChunks(<<2, 3>>, TRUE)},
                b \in {Bare, WithLength(2), WithChunks(<<1>>, FALSE)}}

LengthFramings == {<<Bare, Bare, Bare>>, <<Bare, WithLength(1)>>, <<WithLength(2), Bare>>}

Lacking(what, convs) == {[conv |-> c, loss |-> what] : c \in convs}

Sound == Lacking("none", AllFramings) \cup Lacking("body", BodyFramings)
         \cup Lacking("any", LengthFramings)
=============================================================================
