-------------------------- MODULE MCSocketFdRegistry --------------------------
(* Two threads and three descriptors over an array that starts at one flag *)
(* and doubles twice, so that both the growth and its failure are reached.  *)
EXTENDS SocketFdRegistry
=============================================================================
