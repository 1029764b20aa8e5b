\* Two constructions, with every combination of passed and missing columns.
CONSTANTS
  g1 = g1  g2 = g2  d1 = d1
  Now = Now
  None = None
  Ids <- MCIds
  Dates <- MCDates
  MaxRows = 2
SPECIFICATION Spec
\* The model stops after MaxRows constructions.
CHECK_DEADLOCK FALSE
INVARIANTS
  StatusIsAStatus
