SPECIFICATION AdminSpec
CONSTANTS
  Workers = {w1}
  Regs = {r1, r2}
  FreeRegs = {}
  Editors = {e1}
  NewTiers = {paidTier}
  Totals = {2}
  Prices = {0, 1, 2}
  Same = Same
  NoEdit = NoEdit
  paidTier = paidTier
  freeTier = freeTier
  PaidSeats = 1
  FreeSeats = 1
  Tiers <- MCTiers
  TierOf <- MCTierOf
  Price <- MCPrice
  Total <- MCTotal
  NoReg = NoReg
  FreeRef = FreeRef
  NoPayment = NoPayment
SYMMETRY Symmetry
INVARIANT RecordedAsQuoted
CHECK_DEADLOCK FALSE
