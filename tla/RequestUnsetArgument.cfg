\* Is every argument of a stored procedure a value the code assigned?
SPECIFICATION Spec
CONSTANTS
  Byte = 4
  Sent <- MCSent
  DbNumbers <- MCDbNumbers
  Missing = Missing
  Unset = Unset
CHECK_DEADLOCK FALSE
INVARIANT EveryArgumentAssigned
