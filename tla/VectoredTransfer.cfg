SPECIFICATION Spec
CONSTANTS
  Fds = {f1, f2, f3}
  Numbers = {n1, n2}
  VectoredOn = {"file", "socket"}
  None = None
INVARIANT OwnObjectOnly
