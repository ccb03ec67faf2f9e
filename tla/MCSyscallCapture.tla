-------------------------- MODULE MCSyscallCapture --------------------------
(* SyscallCapture for TLC: the threads of applications are alike.           *)
EXTENDS SyscallCapture, TLC

Symmetry == Permutations(Tid \ Own)
=============================================================================
