---------------------------- MODULE MCPthreadOnce ----------------------------
(* Four callers and an initializer of two writes: one winner, losers that   *)
(* arrive before, during and after the run, and a half-built state.         *)
EXTENDS PthreadOnce
=============================================================================
