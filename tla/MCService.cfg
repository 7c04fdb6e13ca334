SPECIFICATION ServiceSpec
CONSTANTS
  r1 = r1
  r2 = r2
  r3 = r3
  a1 = a1
  c1 = c1
  Nothing = Nothing
  Cycle <- MCCycles
  ExpectedReference = "invoice"
  PaymentIndex <- MCIndex
  Request <- MCRequests
  Authorization <- MCAuthorizations
  Unpriced <- MCUnpriced
  MaxHits = 1
  Intent <- MCIntents
CHECK_DEADLOCK FALSE
INVARIANTS
  ChargedForVerdict
  NoFalseYes
  FailuresAreItsOwn
PROPERTIES
  ImplementsSale
  EveryRequestAnswered
