-------------------------- MODULE SessionLifecycle ---------------------------
(***************************************************************************)
(* The life of a session as all parts of the platform take it to be        *)
(* (internal/pipeline/model.go, service.go): its state, its payment        *)
(* stream, and the units it is charged.  Modules Billing, Egress and       *)
(* Records each have a part of what happens to a session, and each         *)
(* implements this.                                                        *)
(***************************************************************************)
EXTENDS Integers

CONSTANT Sessions

VARIABLES
    state,      \* State, or "absent" before the session is created
    stream,     \* PaymentStreamActive
    charged,    \* ChargedUnits
    unreported  \* SummaryPendingUnits

vars == <<state, stream, charged, unreported>>

\* No session exists, or none has started.
Init ==
    /\ state \in {[s \in Sessions |-> "absent"], [s \in Sessions |-> "created"]}
    /\ stream = [s \in Sessions |-> FALSE]
    /\ charged = [s \in Sessions |-> 0]
    /\ unreported = [s \in Sessions |-> 0]

Becomes(s, st, active) ==
    /\ state' = [state EXCEPT ![s] = st]
    /\ stream' = [stream EXCEPT ![s] = active]
    /\ UNCHANGED <<charged, unreported>>

Create(s) == state[s] = "absent" /\ Becomes(s, "created", FALSE)

\* A start, or a resume.
Run(s) == state[s] \in {"created", "paused"} /\ Becomes(s, "running", TRUE)

\* The payment stream stalls or flows again.
SetStream(s) ==
    state[s] = "running" /\ \E active \in BOOLEAN : Becomes(s, "running", active)

\* By request, or for lack of funds.
Pause(s) == state[s] = "running" /\ Becomes(s, "paused", FALSE)

Stop(s) == state[s] \in {"created", "running", "paused"} /\ Becomes(s, "stopped", FALSE)

\* A charge, of which a summary tells now or later.
Charge(s) ==
    LET units == charged'[s] - charged[s] IN
    /\ state[s] = "running" /\ stream[s]
    /\ units > 0
    /\ charged' = [charged EXCEPT ![s] = @ + units]
    /\ unreported' \in {[unreported EXCEPT ![s] = @ + units], [unreported EXCEPT ![s] = 0]}
    /\ UNCHANGED <<state, stream>>

Next == \E s \in Sessions :
    Create(s) \/ Run(s) \/ SetStream(s) \/ Pause(s) \/ Stop(s) \/ Charge(s)

Spec == Init /\ [][Next]_vars
=============================================================================
