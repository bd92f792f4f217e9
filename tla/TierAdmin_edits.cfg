SPECIFICATION AdminSpec
CONSTANTS
  Workers = {w1, w2}
  Regs = {r1}
  FreeRegs = {}
  Editors = {e1, e2}
  NewTiers = {paidTier}
  Totals = {1, 2}
  Prices = {0, 1}
  Same = Same
  NoEdit = NoEdit
  paidTier = paidTier
  freeTier = freeTier
  PaidSeats = 1
  FreeSeats = 1
  Tiers <- MCTiers
  TierOf <- MCTierOf
  Price <- MCPrice
  Total <- MCTotal
  NoReg = NoReg
  FreeRef = FreeRef
  NoPayment = NoPayment
SYMMETRY Symmetry
INVARIANTS
  AdminTypeOK
  SoldAtMostPayments
  NoOrphans
CHECK_DEADLOCK FALSE
