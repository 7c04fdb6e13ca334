SPECIFICATION QuerySpec
CONSTANTS
  q1 = q1
  q2 = q2
  c1 = c1
  padded = padded
  blank = blank
  Nothing = Nothing
  Cycle <- MCCycle
  ExpectedReference = "invoice"
  PaymentIndex <- MCIndex
  Request <- MCRequest
  Authorization <- MCAuthorization
  Unpriced <- MCUnpriced
  MaxHits = 1
  Intent <- MCIntent
  Query <- MCQuery
  MaxAsked = 1
  Names <- MCNames
  Trimmed <- MCTrimmed
CHECK_DEADLOCK FALSE
INVARIANTS
  AnswerIsItsVerdict
PROPERTIES
  ImplementsPaidAnswer
  QueriesEnd
