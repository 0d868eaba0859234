CONSTANTS
  Fds = {0, 1}
  Conns = {c1, c2}
SPECIFICATION FairSpec
INVARIANTS NoLeak
PROPERTIES GoneClosed
