SPECIFICATION Spec
CONSTANTS
  Natives = {n1}
  Lives = {s1}
  Root = n1
  Applies = TRUE
  Pastes <- MCLines
  Confirms = TRUE
  Events <- MCEvents
  MaxLines = 3
  MaxEvents = 3
  MaxPipe = 1
CHECK_DEADLOCK FALSE
INVARIANTS EditsAreApproved AnswersMeetLastPlan
PROPERTY SessionsEnd
