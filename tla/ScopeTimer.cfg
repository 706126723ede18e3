CONSTANTS
  lookup = lookup
  insert = insert
  NoLabel = NoLabel
  Label <- MCLabel
  MaxSlots = 3
  MaxTime = 3
SPECIFICATION Spec
INVARIANT LogsLatestStart
