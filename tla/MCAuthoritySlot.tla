-------------------------- MODULE MCAuthoritySlot --------------------------
(***************************************************************************)
(* Instances of AuthoritySlot: three assignments are a predecessor, its    *)
(* successor and a third that succeeds the successor or takes the slot.    *)
(***************************************************************************)
EXTENDS AuthoritySlot, TLC

CONSTANTS a1, a2, a3, s1, s2

MCThree == {a1, a2, a3}
MCTwo == {a1, a2}
MCTwoSlots == {s1, s2}
MCOneSlot == {s1}

MCSymmetry == Permutations(Ids)
=============================================================================
