\* Two overlapping ticks: is EXPIRED terminal?
SPECIFICATION Spec
CONSTANTS
  m1 = m1
  m2 = m2
  w1 = w1
  w2 = w2
  None = None
  Msg <- OneMessage
  Worker <- TwoWorkers
  MaxAttempts = 2
  MaxTime = 3
  HoldChoices <- HoldOfTwo
  ExpiryChoices <- LongWindow
  EnabledChoices <- OnAndOff
  RequestChoices <- AskForLess
  Faults = FALSE
PROPERTIES
  TerminalIsFinal
