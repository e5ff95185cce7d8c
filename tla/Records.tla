------------------------------- MODULE Records -------------------------------
(***************************************************************************)
(* What the platform keeps and tells of its sessions: the events that      *)
(* Naryo delivers (module EventInbox) next to the requests and the billing *)
(* pass (module AuditTrail), over one store and one activity feed.         *)
(***************************************************************************)
EXTENDS AuditTrail, EventInbox

vars == <<sessions, feed, moves, auditVars, inboxVars>>

\* Types of all the parts, and the capacities of their lists.
TypeOK == AuditTypeOK /\ InboxTypeOK

Init == PlatformInit /\ AuditInit /\ InboxInit

Next ==
    \/ InboxNext /\ UNCHANGED auditVars
    \/ AuditNext /\ UNCHANGED inboxVars

Spec == Init /\ [][Next]_vars

-----------------------------------------------------------------------------
(* Refinement *)

Life == INSTANCE SessionLifecycle WITH
    state <- [s \in Sessions |-> IF s \in sessions THEN state[s] ELSE "absent"]

\* Whatever is told or received beside it, a session goes through the same
\* lifecycle here as where it is billed and where it is delivered to: a stop
\* that waited for Naryo finds a session that may have changed, and a charge
\* is made of a running session alone.
ImplementsLifecycle == Life!Spec
=============================================================================
