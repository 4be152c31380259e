CONSTANTS
  t1 = t1
  t2 = t2
  u1 = u1
  u2 = u2
  None = None
  Tokens = {t1, t2}
  Owner <- OwnerTable
  Reporter = u1
  Pages = {"dashboard", "api", "incident"}
  MaxActions = 2
  MaxChanges = 1
SPECIFICATION Spec
INVARIANTS
  TypeOK
  LogoutIsFinal
  OwnChangesShow
  LoadingIsFetching
PROPERTIES
  ShownCatchesUp
CHECK_DEADLOCK FALSE
