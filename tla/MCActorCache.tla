---------------------------- MODULE MCActorCache ----------------------------
(***************************************************************************)
(* An instance of ActorCache for TLC: two parts, one that starts late and  *)
(* one that ends early, each of which may be replaced.                     *)
(***************************************************************************)
EXTENDS ActorCache, TLC

CONSTANTS r1, r2, assignment, breakGlass

MCRequests == {r1, r2}
MCParts == {assignment, breakGlass}

\* The assignment is scheduled for time 1, the activation ends then; what
\* replaces them has effect at once and for good.
MCFrom ==
  [p \in Parts |-> [g \in Gens |-> IF p = assignment /\ g = 0 THEN 1 ELSE 0]]
MCUntil ==
  [p \in Parts |-> [g \in Gens |-> IF p = breakGlass /\ g = 0 THEN 1 ELSE Never]]

MCSymmetry == Permutations(Requests)
=============================================================================
