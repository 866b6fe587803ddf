SPECIFICATION Spec
CONSTANTS
  Segments <- MCSegments
  MaxLen = 4
INVARIANT VerdictIsRight
CHECK_DEADLOCK FALSE
