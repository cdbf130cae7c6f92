---------------------------- MODULE EventDelivery ---------------------------
(***************************************************************************)
(* What the outbox promises of each event: once its mutation committed it, *)
(* it is handed to the dispatcher at least once before it counts as        *)
(* dispatched, or it is given up; both are final.                          *)
(***************************************************************************)
CONSTANT Events

VARIABLES
  stage,     \* where each event is
  accepted   \* whether the dispatcher has ever accepted it

dvars == <<stage, accepted>>

Stages == {"unborn", "open", "dispatched", "failed"}

DInit ==
  /\ stage = [e \in Events |-> "unborn"]
  /\ accepted = [e \in Events |-> FALSE]

\* A transaction commits the events of S.
Commit(S) ==
  /\ \A e \in S : stage[e] = "unborn"
  /\ stage' = [e \in Events |-> IF e \in S THEN "open" ELSE stage[e]]
  /\ UNCHANGED accepted

\* Several workers may hold the event, the last of them after it was settled.
Accept(e) ==
  /\ stage[e] # "unborn"
  /\ accepted' = [accepted EXCEPT ![e] = TRUE]
  /\ UNCHANGED stage

Dispatched(e) ==
  /\ stage[e] = "open" /\ accepted[e]
  /\ stage' = [stage EXCEPT ![e] = "dispatched"]
  /\ UNCHANGED accepted

GiveUp(e) ==
  /\ stage[e] = "open"
  /\ stage' = [stage EXCEPT ![e] = "failed"]
  /\ UNCHANGED accepted

DNext ==
  \/ \E S \in SUBSET Events : Commit(S)
  \/ \E e \in Events : Accept(e) \/ Dispatched(e) \/ GiveUp(e)

DSpec == DInit /\ [][DNext]_dvars
=============================================================================
