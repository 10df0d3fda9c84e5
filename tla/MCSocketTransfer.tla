--------------------------- MODULE MCSocketTransfer ---------------------------
(* Three descriptors over two numbers: a file and a socket can alias while a *)
(* third descriptor is opened and closed.                                    *)
EXTENDS SocketTransfer
=============================================================================
