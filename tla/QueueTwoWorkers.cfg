\* Two overlapping ticks under weak fairness, with database calls that fail (applied or
\* not), crashes and every operator action.
SPECIFICATION FairSpec
CONSTANTS
  m1 = m1
  m2 = m2
  w1 = w1
  w2 = w2
  None = None
  Msg <- OneMessage
  Worker <- TwoWorkers
  MaxAttempts = 2
  MaxTime = 3
  HoldChoices <- HoldOfTwo
  ExpiryChoices <- LongWindow
  EnabledChoices <- StaysOn
  RequestChoices <- AskEither
  Faults = TRUE
INVARIANTS
  TypeOK
  ClaimsExclusive
PROPERTIES
  SettledIsFinal
  HoldIsAFloor
  EveryMessageSettles
