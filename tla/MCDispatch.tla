----------------------------- MODULE MCDispatch -----------------------------
(***************************************************************************)
(* The outbox with the dispatcher of this release: one event of a type of  *)
(* each owner, named by its type.                                          *)
(***************************************************************************)
EXTENDS Outbox, Dispatcher

CONSTANTS w1

MCWorkers == {w1}
MCOwnId == [w \in Workers |-> w]
MCTypes == {"role.created", "user.created"} \cup (DomainEventTypes \ AckOnly)
MCSameTime == [e \in Events |-> 0]
MCResults == [e \in Events |-> DispatchResults(e)]

\* The dispatcher calls itself exhaustive over DomainEvent: while no fault
\* happens, no event a mutation may emit is given up.
Exhaustive ==
  \A e \in Events : e \in DomainEventTypes => rec[e].status # "FAILED_FINAL"
=============================================================================
