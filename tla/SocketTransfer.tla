--------------------------- MODULE SocketTransfer ---------------------------
(***************************************************************************)
(* Where the bytes of a transfer go.  A descriptor holds a number that is  *)
(* a Win32 handle for a file and a SOCKET for a socket; the two namespaces *)
(* are independent, so a file and a socket can hold the same number.  The  *)
(* socket calls ask the registry first (sock_from_fd); readv and writev    *)
(* offer the number to Winsock and fall back to the C runtime.             *)
(*                                                                         *)
(* The registry's answer is the truth here: SocketFdRegistry shows when.   *)
(***************************************************************************)
CONSTANTS
  Fds,
  Numbers,                \* values a handle or a SOCKET can have
  VectoredOn,             \* the kinds readv and writev are called on
  None

VARIABLES
  kind,                   \* what a descriptor is: "closed", "file", "socket"
  number,                 \* the handle or SOCKET behind it
  moved                   \* the last transfer: its descriptor and the object
                          \* whose bytes moved, or None

vars == <<kind, number, moved>>

Moves == [fd : Fds, kind : {"file", "socket"}, number : Numbers]

TypeOK == /\ kind \in [Fds -> {"closed", "file", "socket"}]
          /\ number \in [Fds -> Numbers \union {None}]
          /\ moved \in Moves \union {None}

Init == /\ kind = [f \in Fds |-> "closed"]
        /\ number = [f \in Fds |-> None]
        /\ moved = None
-----------------------------------------------------------------------------
\* Winsock knows n as a socket, whoever asks.
LiveSocket(n) == \E f \in Fds : kind[f] = "socket" /\ number[f] = n

\* sock_from_fd: the SOCKET of a registered descriptor, or INVALID_SOCKET.
SockFromFd(f) == IF kind[f] = "socket" THEN number[f] ELSE None

\* Numbers are unique within a namespace, and reused after a close.
Open(f, k, n) ==
  /\ kind[f] = "closed"
  /\ \A g \in Fds : kind[g] = k => number[g] # n
  /\ kind' = [kind EXCEPT ![f] = k]
  /\ number' = [number EXCEPT ![f] = n]
  /\ moved' = None

Close(f) ==
  /\ kind[f] # "closed"
  /\ kind' = [kind EXCEPT ![f] = "closed"]
  /\ number' = [number EXCEPT ![f] = None]
  /\ moved' = None

\* Bytes of object <<k, n>> moved on behalf of a call on f.
Move(f, k, n) == moved' = [fd |-> f, kind |-> k, number |-> n]

\* mdvm_send, mdvm_recv, mdvm_sendto, mdvm_recvfrom: EBADF unless registered.
SocketCall(f) ==
  /\ SockFromFd(f) # None
  /\ Move(f, "socket", SockFromFd(f))
  /\ UNCHANGED <<kind, number>>

\* _read, _write: the runtime's own object behind the descriptor.
CrtCall(f) ==
  /\ kind[f] # "closed"
  /\ Move(f, kind[f], number[f])
  /\ UNCHANGED <<kind, number>>

\* One buffer of readv or writev: recv or send on the bare number, and the
\* runtime's call when Winsock refuses it.
VectoredCall(f) ==
  /\ kind[f] \in VectoredOn
  /\ \/ LiveSocket(number[f]) /\ Move(f, "socket", number[f])
     \/ Move(f, kind[f], number[f])
  /\ UNCHANGED <<kind, number>>

Next == \E f \in Fds : \/ \E k \in {"file", "socket"}, n \in Numbers : Open(f, k, n)
                       \/ Close(f) \/ SocketCall(f) \/ CrtCall(f) \/ VectoredCall(f)

Spec == Init /\ [][Next]_vars
-----------------------------------------------------------------------------
\* The bytes of a call move to or from the object behind its own descriptor:
\* a regular file whose handle equals a live SOCKET never reaches that socket.
OwnObjectOnly ==
  moved # None => kind[moved.fd] = moved.kind /\ number[moved.fd] = moved.number
=============================================================================
