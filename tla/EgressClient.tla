---------------------------- MODULE EgressClient -----------------------------
(***************************************************************************)
(* What the Naryo client (internal/naryo/http_client.go) does to the       *)
(* broadcasters of a session, as its callers see it: each call, whatever   *)
(* it does inside, changes them in one step when it returns.  Module       *)
(* Egress uses the client in this way, and module NaryoClient, which has   *)
(* the exchanges with Naryo behind each call, implements it.               *)
(***************************************************************************)
CONSTANTS
    Sessions,
    Broadcasters,   \* identifiers for the broadcasters of a session
    NoBroadcaster

VARIABLES
    known,   \* the client has an entry for the session
    handle,  \* the broadcaster in that entry
    naryo,   \* the broadcasters that Naryo has for the session
    taken    \* those that a stop has taken over and has yet to delete

vars == <<known, handle, naryo, taken>>

Init ==
    /\ known = [s \in Sessions |-> FALSE]
    /\ handle = [s \in Sessions |-> NoBroadcaster]
    /\ naryo = [s \in Sessions |-> {}]
    /\ taken = [s \in Sessions |-> {}]

Fresh(s) == Broadcasters \ (naryo[s] \union taken[s] \union {handle[s]})

\* A call begins that may provision: the session gets an entry.
Open(s) ==
    /\ known' = [known EXCEPT ![s] = TRUE]
    /\ UNCHANGED <<handle, naryo, taken>>

\* A call ends that made a broadcaster (and another, which failed halfway).
\* The client looks for it, and may find an older one.
Provision(s) ==
    /\ known[s]
    /\ \E made \in (SUBSET Fresh(s)) \ {{}} :
         naryo' = [naryo EXCEPT ![s] = @ \union made]
    /\ \E found \in naryo'[s] : handle' = [handle EXCEPT ![s] = found]
    /\ UNCHANGED <<known, taken>>

\* A call fails that had given up the broadcaster of the entry.
GiveUp(s) ==
    /\ known[s]
    /\ \E made \in SUBSET Fresh(s) :
         naryo' = [naryo EXCEPT ![s] = @ \union made]
    /\ handle' = [handle EXCEPT ![s] = NoBroadcaster]
    /\ UNCHANGED <<known, taken>>

\* A pause deletes the broadcaster of the entry, or does not learn that it did.
Detach(s) ==
    /\ naryo' = [naryo EXCEPT ![s] = @ \ {handle[s]}]
    /\ handle' \in {handle, [handle EXCEPT ![s] = NoBroadcaster]}
    /\ UNCHANGED <<known, taken>>

\* A stop takes the entry over.
Take(s) ==
    /\ known[s]
    /\ known' = [known EXCEPT ![s] = FALSE]
    /\ handle' = [handle EXCEPT ![s] = NoBroadcaster]
    /\ taken' = [taken EXCEPT ![s] = @ \union ({handle[s]} \ {NoBroadcaster})]
    /\ UNCHANGED naryo

\* A stop deletes what it took over, or fails to and leaves it at that.  An
\* older broadcaster, found again, may have been taken over by two stops.
Release(s) ==
    \E b \in taken[s] :
        /\ taken' \in {taken, [taken EXCEPT ![s] = @ \ {b}]}
        /\ naryo' \in {naryo, [naryo EXCEPT ![s] = @ \ {b}]}
        /\ UNCHANGED <<known, handle>>

Next == \E s \in Sessions :
    Open(s) \/ Provision(s) \/ GiveUp(s) \/ Detach(s) \/ Take(s) \/ Release(s)

Spec == Init /\ [][Next]_vars
=============================================================================
