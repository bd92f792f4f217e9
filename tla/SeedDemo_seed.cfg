SPECIFICATION SeedSpec
CONSTANTS
  Runs = {c1, c2}
  Signups = {"admin", "org2"}
  LiveSales = 1
  Api = Api
SYMMETRY Symmetry
INVARIANTS
  SeedTypeOK
  SeededOnce
  CounterNeverAhead
  UnpaidIsNewest
PROPERTY ChecksInFirst
CHECK_DEADLOCK FALSE
