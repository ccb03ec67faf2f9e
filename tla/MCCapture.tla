----------------------------- MODULE MCCapture ------------------------------
(* Capture for TLC: the plans it is run on.                                 *)
EXTENDS Capture

X(method, interim, status) == [method |-> method, interim |-> interim, status |-> status]

(* A response with a body next to one without, for each reason to have none *)
(* (HEAD and status 204), and a response to POST that may come early.       *)
PlainPlans == {<<X("POST", FALSE, 204), X("HEAD", FALSE, 200)>>,
               <<X("HEAD", FALSE, 200), X("GET", FALSE, 200)>>}

InterimPlans == {<<X("POST", TRUE, 200), X("HEAD", FALSE, 200)>>}

AllPlans == PlainPlans \cup InterimPlans
=============================================================================
