------------------------------ MODULE MCOutbox ------------------------------
(***************************************************************************)
(* Instances of Outbox for TLC: two processes over one or two events.      *)
(***************************************************************************)
EXTENDS Outbox

CONSTANTS e1, e2, w1, w2

MCOneEvent == {e1}
MCTwoEvents == {e1, e2}
MCWorkers == {w1, w2}

\* One host: a process id per worker.
MCOwnId == [w \in Workers |-> w]

\* Two hosts whose pollers run under the same process id.
MCSharedId == [w \in Workers |-> w1]

\* Both events commit within the same millisecond, or e1 first.
MCSameTime == [e \in Events |-> 0]
MCInOrder == [e \in Events |-> IF e = e1 THEN 0 ELSE 1]

\* e1 may be accepted or fail transiently, any other event may be rejected.
MCOutcomes ==
  [e \in Events |-> IF e = e1 THEN {"ack", "retryable"} ELSE {"ack", "nonRetryable"}]
=============================================================================
