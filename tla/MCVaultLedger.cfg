SPECIFICATION DashboardSpec
CONSTANTS
  v1 = v1
  v2 = v2
  v3 = v3
  h1 = h1
  h2 = h2
  servicer = servicer
  plain = plain
  None = None
  Forged = Forged
  Asset <- MCAsset
  Cycle <- MCCycle
  Verifier <- MCVerifier
  Account <- MCAccount
  Holder <- MCHolder
  Detail <- MCDetail
  Brief <- MCBrief
  BriefBytes <- MCBriefBytes
  Registration <- MCRegistration
  Evidence <- MCEvidence
  Attached <- MCAttached
  MaxFunds = 6
  MaxWeight = 4
  Shown <- A1
  MaxHalts = 1
INVARIANTS
  FundsConserved
  ReputationMatchesReceipts
  SnapshotIsTrackRecord
  RegistryIndexed
  DustBounded
  RegistryMirrorsChain
  ReceiptMirrorsChain
CHECK_DEADLOCK FALSE
