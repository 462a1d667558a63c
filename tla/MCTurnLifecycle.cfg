SPECIFICATION Spec
CONSTANTS
  Turn = {t1, t2, t3, t4, t5}
  NoTurn = NoTurn
  PersistedClocks <- FreshLog
  MaxLeases = 2
  MaxRestarts = 2
  AbruptCrash = TRUE
SYMMETRY TurnSymmetry
INVARIANTS
  TypeOK
  ClockAccountsForReservations
  TurnIdsNeverReused
  NoTurnUnderLease
PROPERTIES
  TurnsStartInOrder
  ReplayAssignsSameId
CHECK_DEADLOCK FALSE
