--------------------------- MODULE MCPthreadThread ---------------------------
(* Two threads created, two outside threads that join or detach them; each  *)
(* created thread may also detach itself while pthread_create still runs.   *)
EXTENDS PthreadThread
=============================================================================
