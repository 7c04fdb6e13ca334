CONSTANTS
  Session = {s1, s2}
  Timeout = 2
  PollInterval = 1
  Latency = 1
  LastStart = 1
  AbsentErrors <- MCAbsent
  FaultErrors <- MCFaults
SPECIFICATION ClientSpec
INVARIANTS
  GuardIsSound
  OutcomeIsTruth
  ExitZeroMeansSettled
  TimeoutIsHonest
  WaitIsBounded
PROPERTIES
  EverySessionEnds
CHECK_DEADLOCK FALSE
