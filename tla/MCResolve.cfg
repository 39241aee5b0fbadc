SPECIFICATION FairSpec
CONSTANTS
  w1 = w1
  w2 = w2
  o1 = o1
  o2 = o2
  i1 = i1
  i2 = i2
  s1 = s1
  s2 = s2
  Watchers = {w1}
  Operators = {o1, o2}
  LastCompletion = 2
  Items = {i1, i2}
  Slots = {s1, s2}
  ItemOf <- TwoItems
  OccurredAt <- InOrder
  Declares <- ThenSomething
  Attachments <- MCAttachments
  NamedAtStart = {}
  ReadableAtStart = {}
  MaxAborts = 2
INVARIANTS
  OnlyTheWinnersAttachment
PROPERTIES
  AttachedIsApplied
