SPECIFICATION Spec
CONSTANTS
  Patterns <- PatternsMC
  Topics <- TopicsMC
  Targets = {q1, q2}
  NoTarget = NoTarget
  MaxBindings = 2
  MaxPublishes = 2
  MaxSinkChanges = 1
INVARIANT EachBindingOnce
INVARIANT ReportIsFinal
SYMMETRY TargetSymmetry
CHECK_DEADLOCK FALSE
