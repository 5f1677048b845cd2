SPECIFICATION Spec
CONSTANTS
  u1 = u1
  u2 = u2
  a1 = a1
  a2 = a2
  Ufrag <- MCUfrag
  SocketAddr <- MCSocketAddr
  MaxConns = 2
  None = None
SYMMETRY Symmetry
INVARIANT MuxInv
PROPERTY RemovalIsComplete
\* The bound on connections may be used up.
CHECK_DEADLOCK FALSE
