SPECIFICATION AdminSpec
CONSTANTS
  Workers = {w1, w2}
  Regs = {f1, f2}
  FreeRegs = {f1, f2}
  Editors = {e1, e2}
  NewTiers = {}
  Totals = {1, 2}
  Prices = {0}
  Same = Same
  NoEdit = NoEdit
  paidTier = paidTier
  freeTier = freeTier
  PaidSeats = 1
  FreeSeats = 1
  Tiers <- MCTiers
  TierOf <- MCTierOf
  Price <- MCPrice
  Total <- MCTotal
  NoReg = NoReg
  FreeRef = FreeRef
  NoPayment = NoPayment
SYMMETRY Symmetry
PROPERTY SoldNeverLowered
CHECK_DEADLOCK FALSE
