----------------------------- MODULE Dispatcher -----------------------------
(***************************************************************************)
(* DomainEventDispatcher: what the poller gets for an event of each type.  *)
(* The dispatcher of this release has no side effect; it accepts the types *)
(* its switch lists and rejects every other one for good.                  *)
(***************************************************************************)

RoleTypes ==
  {"role.activated", "role.created", "role.deactivated", "role.updated",
   "role.archived", "role.permissions.updated", "role.assignment-rules.updated",
   "role.assigned-to-user", "role.revoked-from-user"}

UserTypes ==
  {"user.created", "user.updated", "user.activated", "user.disabled",
   "user.archived", "user.auth-linked"}

DeadlineTypes == {"role.assignment.deadline-suspended", "break-glass.deadline-expired"}

\* The union type DomainEvent, whose members mutations may emit.
DomainEventTypes ==
  RoleTypes \cup UserTypes \cup DeadlineTypes \cup {"break-glass.manually-ended"}

\* The cases of the switch.
AckOnly == RoleTypes \cup UserTypes \cup DeadlineTypes

DispatchResults(type) == IF type \in AckOnly THEN {"ack"} ELSE {"nonRetryable"}
=============================================================================
