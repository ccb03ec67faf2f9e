---------------------------- MODULE MCSSLCapture ----------------------------
(* SSLCapture with interchangeable connections.                             *)
EXTENDS SSLCapture, TLC

Symmetry == Permutations(TLSConn)
=============================================================================
