SPECIFICATION Spec
CONSTANTS
  w1 = w1
  w2 = w2
  o1 = o1
  o2 = o2
  i1 = i1
  i2 = i2
  s1 = s1
  s2 = s2
  Watchers = {w1, w2}
  Operators = {o1}
  LastCompletion = 3
  Items = {i1, i2}
  Slots = {s1, s2}
  ItemOf <- OneItem
  OccurredAt <- OutOfOrder
  Declares <- MCDeclares
  Attachments <- MCAttachments
  NamedAtStart = {i1}
  ReadableAtStart = {3}
  MaxAborts = 1
INVARIANTS
  TypeOK
  AckedCompletionsAreObserved
  ClosedOverRecordedFacts
PROPERTIES
  ClosedRowsAreSettled
