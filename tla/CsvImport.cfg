SPECIFICATION ImportSpec
CONSTANTS
  Account = {1, 2, 3, 4}
  MaxMembers = 2
  Formula = {2}
  MaxGroups = 3
  MaxEdits = 2
  MaxBreaks = 1
INVARIANTS
  ImportSound
  SavedIsMirrored
CHECK_DEADLOCK FALSE
