------------------------------ MODULE MCMGMutex -----------------------------
EXTENDS MGMutex

(***************************************************************************)
(* The modes the library asks of the mutex of a virtual node.              *)
(***************************************************************************)
NodeModes == {"IS", "IX", "X"}
=============================================================================
