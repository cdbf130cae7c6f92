------------------------------- MODULE MCKpi -------------------------------
(* The instance of KpiActuals for TLC. *)
EXTENDS KpiActuals

CONSTANTS m1, m2

LOCAL T == INSTANCE TLC

\* Actuals are explored for one member on the first day of the period.
MCSlots == {<<m1, 1>>}

\* Bound: a transaction is overtaken on at most three documents.
MCStep == \A c \in Clients : Cardinality(missed'[c]) <= 3

MCSymmetry == T!Permutations(Actors)
=============================================================================
