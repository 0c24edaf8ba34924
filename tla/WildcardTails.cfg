SPECIFICATION Spec
CONSTANTS
  TypedNames <- NamesWithTails
  MaxChanges = 0
INVARIANT PatternsDeleteMatches
CHECK_DEADLOCK FALSE
