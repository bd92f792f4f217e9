---------------------------- MODULE MCAttendance ----------------------------
(***************************************************************************)
(* Instances of Attendance for TLC: paid and free registrations of one     *)
(* tier each.                                                              *)
(***************************************************************************)
EXTENDS Attendance, TLC

CONSTANTS FreeRegs, paidTier, freeTier

MCTierOf == [r \in Regs |-> IF r \in FreeRegs THEN freeTier ELSE paidTier]
MCTiers  == {MCTierOf[r] : r \in Regs}

Symmetry == Permutations(Workers) \union Permutations(FreeRegs)
              \union Permutations(Regs \ FreeRegs)
=============================================================================
