SPECIFICATION Spec

CONSTANTS
  Products = {"p"}
  Orders = {"o1", "o2", "o3"}
  Users = {"u"}
  Stock <- MCStock
  ProductOf <- MCProductOf
  QuantityOf <- MCQuantityOf
  Requests = {create1, create2, create3, confirm1, confirm2, register, update1, update2}
  KindOf <- MCKindOf
  SubjectOf <- MCSubjectOf
  InstantOf <- MCInstantOf
  PoolSize = 2
  EarlyCleanup = FALSE
  create1 = create1
  create2 = create2
  create3 = create3
  confirm1 = confirm1
  confirm2 = confirm2
  register = register
  update1 = update1
  update2 = update2

SYMMETRY Symmetry
CHECK_DEADLOCK FALSE

INVARIANTS
  ReservedIsPending
  NeverOversold
  EventPerChange
  OnlyThePoolBlocks
