SPECIFICATION Spec
CONSTANTS
  MaxChanges = 3
  MaxEvents = 1
PROPERTIES TombstonesAreTheUsers
CHECK_DEADLOCK FALSE
