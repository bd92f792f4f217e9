SPECIFICATION FairSpec
CONSTANTS
  Workers = {w1, w2, w3}
  Regs = {r1}
  FreeRegs = {}
  paidTier = paidTier
  freeTier = freeTier
  PaidSeats = 2
  FreeSeats = 1
  Tiers <- MCTiers
  TierOf <- MCTierOf
  Price <- MCPrice
  Total <- MCTotal
  NoReg = NoReg
  FreeRef = FreeRef
  NoPayment = NoPayment
PROPERTIES
  RequestsFinish
  EventsAcked
CHECK_DEADLOCK FALSE
