----------------------------- MODULE EventInbox ------------------------------
(***************************************************************************)
(* The events that Naryo delivers to the platform's webhook, kept for each *)
(* session (internal/pipeline/naryo_events.go; IngestNaryoEvent in         *)
(* internal/pipeline/service.go; internal/http/naryo_ingest.go).           *)
(*                                                                         *)
(* Naryo delivers an event again when it gets no answer, and deliveries    *)
(* run concurrently.  An event is stored under the store's mutex, and told *)
(* to the activity feed after that.                                        *)
(*                                                                         *)
(* An event is its eventId, which for one that has none is a hash of the   *)
(* body.  Deliveries without the webhook's secret, that cannot be parsed,  *)
(* or to a session that the store does not have, change nothing.           *)
(***************************************************************************)
EXTENDS Platform, FiniteSets

CONSTANTS
    Events,      \* identifiers of events
    Deliveries,  \* webhook calls in flight at a time
    Nothing,
    Limit        \* events kept for a session (maxNaryoEventsPerSession)

ASSUME EventInboxAssumption ==
    /\ IsFiniteSet(Deliveries)
    /\ Limit \in Nat \ {0}
    /\ MaxEntries \in Nat \ {0}
    /\ MaxMoves \in Nat
    /\ Nothing \notin Sessions \X Events

VARIABLES
    seen,        \* naryoDedup, whose keys are never removed
    inbox,       \* naryoEvents: the latest events of each session, the oldest first
    telling,     \* what each webhook call has stored and not yet told the feed
    accepted,    \* history: the events of each session in the order they were stored
    told         \* history: how often the feed was told of each event

inboxVars == <<seen, inbox, telling, accepted, told>>

InboxTypeOK ==
    /\ seen \subseteq Sessions \X Events
    /\ inbox \in [Sessions -> Seq(Events)]
    /\ telling \in [Deliveries -> (Sessions \X Events) \union {Nothing}]
    /\ accepted \in [Sessions -> Seq(Events)]
    /\ told \in [Sessions \X Events -> Nat]

InboxInit ==
    /\ seen = {}
    /\ inbox = [s \in Sessions |-> <<>>]
    /\ telling = [d \in Deliveries |-> Nothing]
    /\ accepted = [s \in Sessions |-> <<>>]
    /\ told = [se \in Sessions \X Events |-> 0]

\* A mutated test: an event is known while it is in the list.
DuplicateInList(s, e) == \E i \in DOMAIN inbox[s] : inbox[s][i] = e

Duplicate(s, e) == <<s, e>> \in seen

\* A mutated cut: the oldest event stays and the new one goes.
KeptOldest(list) == SubSeq(list, 1, IF Len(list) < Limit THEN Len(list) ELSE Limit)

Kept(list) == Recent(list, Limit)

\* A mutated ingest: a redelivered event is told again.
ReportsAlways(s, e) == TRUE

Reports(s, e) == ~Duplicate(s, e)

\* AppendNaryoEvent, under the store's mutex.
Append_(s, e) ==
    IF Duplicate(s, e)
      THEN UNCHANGED <<seen, inbox, accepted, moves>>
      ELSE /\ Moves
           /\ seen' = seen \union {<<s, e>>}
           /\ inbox' = [inbox EXCEPT ![s] = Kept(Append(@, e))]
           /\ accepted' = [accepted EXCEPT ![s] = Append(@, e)]

\* IngestNaryoEvent: the event is stored, unless it was before.
Ingest(d, s, e) ==
    /\ telling[d] = Nothing
    /\ s \in sessions
    /\ Append_(s, e)
    /\ telling' = IF Reports(s, e) THEN [telling EXCEPT ![d] = <<s, e>>] ELSE telling
    /\ UNCHANGED <<sessions, feed, told>>

\* It then goes to the feed.
Tell(d) ==
    /\ telling[d] # Nothing
    /\ Record("naryo_event", telling[d][1])
    /\ told' = [told EXCEPT ![telling[d]] = @ + 1]
    /\ telling' = [telling EXCEPT ![d] = Nothing]
    /\ UNCHANGED <<sessions, seen, inbox, accepted, moves>>

InboxNext == \E d \in Deliveries :
    \/ \E s \in Sessions, e \in Events : Ingest(d, s, e)
    \/ Tell(d)

\* NaryoEvents: the latest events, 10 of them if the request gives no number.
NaryoEvents(s, limit) ==
    LET n == IF limit <= 0 THEN 10 ELSE limit
    IN Recent(inbox[s], IF n > Limit THEN Limit ELSE n)

-----------------------------------------------------------------------------
(* Properties *)

OccursOnce(list) == \A i, j \in DOMAIN list : list[i] = list[j] => i = j

\* Whatever is delivered, again or at the same time, a session's events are
\* listed once, in the order in which they first came, the latest of them:
\* one that was cut off does not come back when it is delivered again.
InboxIsLatest ==
    \A s \in Sessions :
        /\ OccursOnce(accepted[s])
        /\ \A n \in 1 .. Limit + 1 :
             NaryoEvents(s, n) = Recent(accepted[s], IF n > Limit THEN Limit ELSE n)

\* The feed is told of every stored event once, by the call that stored it,
\* however calls interleave, and of no other.
EachToldOnce ==
    \A s \in Sessions, e \in Events :
        told[<<s, e>>] + Cardinality({d \in Deliveries : telling[d] = <<s, e>>}) =
            IF \E i \in DOMAIN accepted[s] : accepted[s][i] = e THEN 1 ELSE 0
=============================================================================
