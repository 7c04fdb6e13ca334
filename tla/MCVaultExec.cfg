SPECIFICATION ExecSpec
CONSTANTS
  v1 = v1
  v2 = v2
  v3 = v3
  h1 = h1
  h2 = h2
  servicer = servicer
  plain = plain
  None = None
  Forged = Forged
  Asset <- MCAsset
  Cycle <- MCCycle
  Verifier <- MCVerifier
  Account <- MCAccount
  Holder <- MCHolder
  Detail <- MCDetail
  Brief <- MCBrief
  BriefBytes <- MCBriefBytes
  Registration <- MCRegistration
  Evidence <- MCEvidence
  Attached <- MCAttached
  MaxFunds = 4
  MaxWeight = 4
PROPERTIES
  ImplementsVault
  ReasonsAgree
CHECK_DEADLOCK FALSE
