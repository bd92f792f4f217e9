SPECIFICATION ReportSpec
CONSTANTS
  Workers = {w1, w2}
  Regs = {r1, f1}
  FreeRegs = {f1}
  paidTier = paidTier
  freeTier = freeTier
  Tiers <- MCTiers
  TierOf <- MCTierOf
  FreeTiers = {freeTier}
  NoReg = NoReg
SYMMETRY Symmetry
INVARIANTS
  TypeOK
  OneRowEach
  AttendanceBacked
  ReportBounded
PROPERTIES
  ClosedWindowGainsNothing
  CancelledAdmitsNothing
  KeepsAdmission
CHECK_DEADLOCK FALSE
