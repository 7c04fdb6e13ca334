SPECIFICATION MCSpec
CONSTANTS
  v1 = v1
  v2 = v2
  v3 = v3
  plain = plain
  upper1 = upper1
  prefix2 = prefix2
  tail2 = tail2
  signatureTail = signatureTail
  signatureNibble = signatureNibble
  NotAKey = NotAKey
  OddText <- MCOddText
  KeyOf <- MCKeyOf
  Forged = Forged
  Asset <- MCAsset
  Cycle <- MCCycle
  Verifier <- MCVerifier
  Detail <- MCDetail
  SignedVerdict <- MCSignedVerdict
  MaxVerdicts = 2
  Rules <- MCRules
  Field <- MCField
  MaxSigned = 0
INVARIANT
  FirstYesCounts
CHECK_DEADLOCK FALSE
