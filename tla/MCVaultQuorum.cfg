SPECIFICATION Spec
CONSTANTS
  v1 = v1
  v2 = v2
  v3 = v3
  h1 = h1
  h2 = h2
  servicer = servicer
  stranger = stranger
  plain = plain
  brief = brief
  another = another
  longBrief = longBrief
  None = None
  Forged = Forged
  Asset <- MCAsset
  Cycle <- MCCycle
  Verifier <- MCVerifier
  Account <- MCAccount
  Holder <- MCHolder
  Detail <- MCDetail
  Brief <- MCBrief
  BriefBytes <- MCBriefBytes
  Registration <- MCRegistration
  Evidence <- MCEvidence
  Attached <- MCAttached
  MaxFunds = 4
  MaxWeight = 3
INVARIANTS
  TypeOK
  SettledByQuorum
  RecordsAgree
PROPERTY
  ImplementsSettlement
  RecordsAreFinal
CHECK_DEADLOCK FALSE
