SPECIFICATION DemoSpec
CONSTANTS
  Row = {1, 2, 3, 4}
  Text = {"ticket"}
  Room = 2
  Tab = {t1, t2}
  Nothing = Nothing
  MaxSaves = 3
SYMMETRY TabsAlike
INVARIANTS
  
  DemoTasksListed
  AccountsOnce
PROPERTIES
  OnlyStaleLoses
CHECK_DEADLOCK FALSE
