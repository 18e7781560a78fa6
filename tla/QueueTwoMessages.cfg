\* Two messages through one tick at a time, with crashes and every operator action.
SPECIFICATION Spec
CONSTANTS
  m1 = m1
  m2 = m2
  w1 = w1
  w2 = w2
  None = None
  Msg <- TwoMessages
  Worker <- OneWorker
  MaxAttempts = 2
  MaxTime = 3
  HoldChoices <- ShortHold
  ExpiryChoices <- Window
  EnabledChoices <- OnAndOff
  RequestChoices <- AskNothing
  Faults = FALSE
SYMMETRY MessagesInterchangeable
INVARIANTS
  RedactedIffExpired
PROPERTIES
  DisabledQueueHolds
  KeepsPromise
