\* Requests of every class with right and wrong attributes.
SPECIFICATION Spec
CONSTANTS
  Byte = 4
  Sent <- MCSent
  DbNumbers <- MCDbNumbers
  Missing = Missing
  Unset = Unset
CHECK_DEADLOCK FALSE
INVARIANT ParamsTypeOK
INVARIANT ArgumentsAreSent
INVARIANT TesterRequestsAccepted
INVARIANT AnswerMeansResult
INVARIANT CdrAgreesWithAnswer
