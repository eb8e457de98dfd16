\* The same files and database; the numbers of connections ValidateParams accepts.
SPECIFICATION StartupSpec
CONSTANTS
  Words <- MCWords
  ToUpper <- MCToUpper
  Numeral <- MCNumeral
  Lines <- MCLines
  Logins <- MCLogins
  maxConnCount = 2
  UShort = 65536
  UInt = 1048576
  ULong = 16777216
  MaxFirst = 4
CHECK_DEADLOCK FALSE
INVARIANT AcceptedCountInRange
