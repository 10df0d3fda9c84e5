---------------------------- MODULE MCPthreadRwlock ----------------------------
(* Two threads that lock, try, wait and unlock, and a tick counter that wraps *)
(* at six.                                                                    *)
EXTENDS PthreadRwlock
=============================================================================
