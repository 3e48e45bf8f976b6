SPECIFICATION Spec
CONSTANTS
  Kind <- AllKinds
  Limits <- LimitsFor
  Viewers <- ViewersFor
  Stamps = {1, 2, 3}
  MaxDocs <- DocsFor
  MaxWrites = 2
INVARIANT ReportsAddUp
INVARIANT PagingMissesNothing
