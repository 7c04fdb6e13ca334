SPECIFICATION Spec
CONSTANTS
  v1 = v1
  h1 = h1
  servicer = servicer
  plain = plain
  None = None
  Forged = Forged
  Asset <- MCAsset
  Cycle <- MCCycle
  Verifier <- MCVerifier
  Account <- MCAccount
  Holder <- MCHolder
  Detail <- MCDetail
  Brief <- MCBrief
  BriefBytes <- MCBriefBytes
  Registration <- MCRegistration
  Evidence <- MCEvidence
  Attached <- MCAttached
  MaxFunds = 2
  MaxWeight = 1
INVARIANT
  ReceiptIsForItsCycle
CHECK_DEADLOCK FALSE
