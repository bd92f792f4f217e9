--------------------------- MODULE MCEventLifecycle ---------------------------
(***************************************************************************)
(* Instances of EventLifecycle for TLC: all events are organizer's.        *)
(***************************************************************************)
EXTENDS EventLifecycle, TLC

CONSTANT organizer

MCOwnerOf == [e \in Events |-> organizer]

Symmetry == Permutations(Workers) \union Permutations(Tokens)
=============================================================================
