SPECIFICATION Spec
CONSTANTS
  Keys = {k1}
  Values = {0, 1}
  Names = {n1, n2}
  NoName = NoName
  Moves <- Toggle
  MergeIds = {1}
  Macros = TRUE
  Limits = {1, 2}
  CarefulRelabel = TRUE
  MaxCount = 2
SYMMETRY SwapNames
INVARIANT HistorySound
INVARIANT CleanReachable
INVARIANT ViewFresh
