\* Tables of four rows, in memory, to which others make four changes, with a fifth row to come.
CONSTANTS
  None = None
  r1 = r1
  r2 = r2
  r3 = r3
  r4 = r4
  r5 = r5
  o1 = o1
  StoreKind = "memory"
  Selects <- SelectedInTable
  Pks = {r1, r2, r3, r4, r5}
  Limits = {1, 2}
  Contents <- JobsAndTasks
  Tables <- FourRows
  Lists <- JobAndTaskLists
  MaxChanges = 4
SPECIFICATION Spec
INVARIANT ListingTypeOK
INVARIANT NoneSkipped
INVARIANT ShownAgainAtTheEdge
INVARIANT PagesAreBounded
INVARIANT ConditionsAgree
CHECK_DEADLOCK FALSE
