CONSTANTS
  Supervisors = {p1}
  Nobody = Nobody
  MaxServing = 1
  MaxEvents = 1
  MaxInterrupts = 0
SPECIFICATION ServeSpec
PROPERTIES
  DeadIsReplaced
CHECK_DEADLOCK FALSE
