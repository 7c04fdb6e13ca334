CONSTANTS
  Masking = TRUE
  BriefProvider = "template"
  v1 = v1
  v2 = v2
  v3 = v3
  h1 = h1
  agent = agent
  plain = plain
  brief = brief
  r1 = r1
  r2 = r2
  None = None
  Forged = Forged
  NotAKey = NotAKey
  OddText <- MCOddText
  KeyOf <- MCKeyOf
  Run = {r1}
  AssetId <- A
  Endpoints <- ThreeEndpoints
  QuorumRequired = 2
  Honest <- MCHonest
  Agent = agent
  Asset <- MCAsset
  Cycle <- OneCycle
  Verifier <- MCVerifier
  Account <- MCAccount
  Holder <- MCHolder
  Detail <- MCDetail
  Brief <- OneBrief
  BriefBytes <- MCBriefBytes
  Registration <- TwoOfThree
  Evidence <- MCEvidence
  Attached <- MCAttached
  MaxFunds = 1
  MaxWeight = 1
SPECIFICATION AgentSpec
INVARIANT
  FraudNeverPays
PROPERTIES
  RunsFinish
  SubmittedSettles
CHECK_DEADLOCK FALSE
