SPECIFICATION Spec
CONSTANTS
  now = now
  keyed = keyed
  met = met
  None = None
  Bit = {now, keyed, met}
  When <- WhenOf
  Setup <- SetupOf
  Timeout <- TimeoutOf
  OnTimeout <- OnTimeoutOf
  MinScored <- MinScoredOf
  Modes = {TRUE, FALSE}
  Accidents = {}
  MaxScored = 2
  MaxTime = 3
  MaxRounds = 3
  FadePolls = 2
PROPERTY EveryRoundIsTold
PROPERTY TimerStartsAsDeclared
CHECK_DEADLOCK FALSE
