----------------------------- MODULE MCTierAdmin -----------------------------
(***************************************************************************)
(* Instances of TierAdmin for TLC: the registrations in FreeRegs are of a  *)
(* free tier with FreeSeats seats, the others of a paid one with PaidSeats.*)
(***************************************************************************)
EXTENDS TierAdmin, TLC

CONSTANTS FreeRegs, paidTier, freeTier, PaidSeats, FreeSeats

MCTierOf == [r \in Regs |-> IF r \in FreeRegs THEN freeTier ELSE paidTier]
MCTiers  == {MCTierOf[r] : r \in Regs}
MCPrice  == [t \in MCTiers |-> IF t = freeTier THEN 0 ELSE 1]
MCTotal  == [t \in MCTiers |-> IF t = freeTier THEN FreeSeats ELSE PaidSeats]

Symmetry == Permutations(Workers) \union Permutations(Editors)
              \union Permutations(FreeRegs) \union Permutations(Regs \ FreeRegs)
=============================================================================
