CONSTANTS
  Masking = FALSE
  BriefProvider = "anthropic"
  v1 = v1
  v2 = v2
  v3 = v3
  h1 = h1
  agent = agent
  plain = plain
  brief = brief
  r1 = r1
  r2 = r2
  None = None
  Forged = Forged
  NotAKey = NotAKey
  OddText <- MCOddText
  KeyOf <- MCKeyOf
  Run = {r1, r2}
  AssetId <- A
  Endpoints <- OneEndpoint
  QuorumRequired = 1
  Honest <- MCHonest
  Agent = agent
  Asset <- MCAsset
  Cycle <- TwoCycles
  Verifier <- MCVerifier
  Account <- MCAccount
  Holder <- MCHolder
  Detail <- MCDetail
  Brief = {}
  BriefBytes <- MCBriefBytes
  Registration <- OneOfOne
  Evidence <- MCEvidence
  Attached <- MCAttached
  MaxFunds = 2
  MaxWeight = 1
INIT AgentInit
NEXT AgentNext
INVARIANTS
  EvidenceIsAccepted
  OneRunSettles
PROPERTY
  NoPaymentOnceSettled
SYMMETRY Runs
CHECK_DEADLOCK FALSE
