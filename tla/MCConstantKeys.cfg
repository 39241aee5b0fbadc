SPECIFICATION Spec
CONSTANTS
  Tokens <- MCTokens
  Texts <- MCTexts
  Absent = Absent
  Null = Null
  PolicyIds <- MCTexts
  anything = anything
  mile = mile
  Patterns = {anything, mile}
  Covers <- MCCovers
  Width = 2
  Fill = "y"
  Caps <- MCCaps
  NoTemplate = NoTemplate
  Tenant <- acme
  Bodies <- ReleaseBodies
  Stream <- Released
INVARIANT
  NoConstantKeys
