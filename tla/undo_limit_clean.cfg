SPECIFICATION Spec
CONSTANTS
  Keys = {k1}
  Values = {0, 1, 2}
  Names = {n1}
  NoName = NoName
  Moves <- Cycle
  MergeIds = {}
  Macros = FALSE
  Limits = {2}
  CarefulRelabel = TRUE
  MaxCount = 2
INVARIANTS CleanMeansSaved
