CONSTANTS
  Names = {s1, s2, s3}
  Waits = {w1}
  Answers = {n1, n2}
  Values = {1, 2}
  Invalid = Invalid
  MaxPolls = 1
SPECIFICATION RenderingSpec
INVARIANTS
  AcceptedIsOrderable
  CycleIsReal
  AnswerIsSeen
  UnreadableIsWritten
PROPERTIES
  CommandsEnd
CHECK_DEADLOCK FALSE
