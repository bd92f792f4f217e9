SPECIFICATION Spec
CONSTANTS
  Workers = {w1, w2}
  Regs = {r1}
  FreeRegs = {}
  paidTier = paidTier
  freeTier = freeTier
  PaidSeats = 1
  FreeSeats = 1
  Tiers <- MCTiers
  TierOf <- MCTierOf
  Price <- MCPrice
  Total <- MCTotal
  NoReg = NoReg
  FreeRef = FreeRef
  NoPayment = NoPayment
PROPERTY ConfirmOnlyPending
CHECK_DEADLOCK FALSE
