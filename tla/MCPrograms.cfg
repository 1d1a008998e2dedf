SPECIFICATION Spec
CONSTANTS
  Faults = 1
  Values = {0, 1, 2}
  Olds = {1}
  SeekMax = 8
  FieldMax = 4
  ModeMax = 4
  Patience = 5
INVARIANTS SetIsStored ToldIsTrue
PROPERTIES OnlyAskedIsStored EveryProgramEnds
