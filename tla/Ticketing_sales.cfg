SPECIFICATION Spec
CONSTANTS
  Workers = {w1, w2}
  Regs = {r1, r2, r3}
  FreeRegs = {}
  paidTier = paidTier
  freeTier = freeTier
  PaidSeats = 2
  FreeSeats = 1
  Tiers <- MCTiers
  TierOf <- MCTierOf
  Price <- MCPrice
  Total <- MCTotal
  NoReg = NoReg
  FreeRef = FreeRef
  NoPayment = NoPayment
SYMMETRY Symmetry
INVARIANTS
  TypeOK
  SoldCountsPayments
  TicketsBacked
PROPERTIES
  OnlyWebhookOversells
  IssuedCancelIsFinal
  CancelledGainsNothing
  KeepsLedger
CHECK_DEADLOCK FALSE
