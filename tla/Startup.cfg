\* Files of up to three lines, one or two sessions, a database that comes and goes.
SPECIFICATION StartupSpec
CONSTANTS
  Words <- MCWords
  ToUpper <- MCToUpper
  Numeral <- MCNumeral
  Lines <- MCLines
  Logins <- MCLogins
  maxConnCount = 2
  UShort = 65536
  UInt = 1048576
  ULong = 16777216
  MaxFirst = 4
CHECK_DEADLOCK FALSE
INVARIANTS
  StartupTypeOK
  SettingsAreLastLines
  FileIsJudged
  RecoversInTwo
PROPERTY ImplementsSession
