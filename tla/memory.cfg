SPECIFICATION Spec
CONSTANTS
  SlLog2 = 2
  IntBits = 16
  HeadRange = 256
  FlIndexMax = 12
  CacheLine = 32
  Threads = {t1, t2}
  Kinds = {"linear", "pool", "atomic", "tlsf", "raw", "buffer"}
  AreaBegins = {64, 80}
  ControlSize = 44
  Sizes = {3, 40}
  Alignments = {8, 32}
  Offsets = {0, 8}
  SlabSize = 130
  PoolSize = 192
  MaxNodes = 3
  NodeUser = 48
  MaxLive = 3
  MaxDrift = 1
SYMMETRY Symmetry
CHECK_DEADLOCK FALSE
INVARIANT LiveSound
INVARIANT TlsfSound
INVARIANT AccountsExact
INVARIANT InBounds
