SPECIFICATION MCSpec
CONSTANTS
  v1 = v1
  v2 = v2
  v3 = v3
  plain = plain
  upper1 = upper1
  prefix2 = prefix2
  tail2 = tail2
  signatureTail = signatureTail
  signatureNibble = signatureNibble
  NotAKey = NotAKey
  OddText <- MCOddText
  KeyOf <- MCKeyOf
  Forged = Forged
  Asset <- MCAsset
  Cycle <- MCCycle
  Verifier <- MCVerifier
  Detail <- MCDetail
  SignedVerdict <- MCSignedVerdict
  MaxVerdicts = 4
  Rules <- MCRules
  Field <- MCField
  MaxSigned = 2
INVARIANTS
  PrecheckAgrees
  YesCountsUnlessContradicted
  VerifiedIsEncodable
  OneVerdictPerMessage
CHECK_DEADLOCK FALSE
