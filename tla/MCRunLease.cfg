SPECIFICATION Spec
CONSTANTS
  t1 = t1
  t2 = t2
  t3 = t3
  r1 = r1
  r2 = r2
  Tasks <- MCTasks
  Owners <- MCOwners
  OwnerOf <- MCOwnerOf
  NoOwner = NoOwner
  LeaseTTL = 2
  MaxNow = 4
  MaxVersion = 4
INVARIANTS
  TokenHeldByOneTask
  CopiesFollowRow
  VersionIdentifiesLease
PROPERTIES
  RowHistory
  ImplementsFence
CHECK_DEADLOCK FALSE
