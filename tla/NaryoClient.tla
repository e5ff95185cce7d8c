----------------------------- MODULE NaryoClient -----------------------------
(***************************************************************************)
(* The client of Naryo's Configuration API (internal/naryo/http_client.go, *)
(* http_client_filter.go): what it provisions for each session, exchange   *)
(* by exchange.  A session is delivered to by a broadcaster, which refers  *)
(* to a filter of the session and to a configuration, the ingest endpoint. *)
(*                                                                         *)
(* EnsurePipeline and PauseEgress hold the client's mutex while they talk  *)
(* to Naryo.  The deletions of StopPipeline run without it.                *)
(*                                                                         *)
(* An exchange is a request with the polling of its operation and the      *)
(* listings before and after it.  It succeeds, or the call sees an error:  *)
(* the request may have taken effect all the same.                         *)
(*                                                                         *)
(* Left out: a client configured to skip the egress (skipEgressProvision), *)
(* which exchanges nothing.                                                *)
(***************************************************************************)
EXTENDS FilterPlan

CONSTANTS
    Sessions,
    Requested,       \* lists of subscriptions that calls carry
    BroadcasterIds,
    FilterIds,
    ConfigIds,
    Leftover,        \* configurations of the ingest endpoint that Naryo had before
    None,
    MaxStops,        \* bound: stops whose deletions are under way
    MaxFailures      \* bound: exchanges that fail

ASSUME NaryoClientAssumption ==
    /\ Leftover \subseteq ConfigIds
    /\ None \notin Sessions
    /\ None \notin BroadcasterIds \union FilterIds \union ConfigIds
    /\ AllEvents \notin FilterIds
    /\ Requested \subseteq Seq(Subscription)
    /\ {MaxStops, MaxFailures} \subseteq Nat

VARIABLES
    entry,         \* sess: httpSessState of each session, None without one
    call,          \* the call that holds the mutex
    removing,      \* entries that stops took over, as far as not deleted yet
    configs,       \* at Naryo: broadcaster configurations of the ingest endpoint
    filters,       \* at Naryo: filters
    broadcasters,  \* at Naryo: broadcasters
    fixed,         \* fixedBroadcasterConfigID
    failures,      \* exchanges that failed so far
    mislaid        \* history: sessions that may have lost track of a filter

naryoVars == <<configs, filters, broadcasters>>
vars == <<entry, call, removing, naryoVars, fixed, failures, mislaid>>

Filter == [id: FilterIds, of: Sessions, plan: Scoped]

Broadcaster == [
    id: BroadcasterIds,
    of: Sessions,                           \* its destination is the session's path
    config: ConfigIds,
    target: FilterIds \union {AllEvents}]

Entry == [
    broadcaster: Broadcaster \union {None},
    filter: Filter \union {None},
    config: ConfigIds \union {None},
    shared: BOOLEAN,                        \* sharedBroadcasterConfig
    plan: Plans \union {None}]              \* filterPlanKey

Call == [
    at: {"idle", "config", "filter", "broadcaster", "clearErr"},
    on: Sessions \union {None},
    plan: Plans,
    before: BroadcasterIds \union {None},   \* broadcaster of the entry when it began
    made: SUBSET BroadcasterIds]            \* broadcasters it has made

ASSUME NoneAssumption == None \notin Filter \union Broadcaster \union Entry

Removal == [
    of: Sessions,
    broadcaster: Broadcaster \union {None},
    filter: Filter \union {None},
    config: ConfigIds \union {None}]

\* Types, and that what an entry has of its own is its session's.
TypeOK ==
    /\ entry \in [Sessions -> Entry \union {None}]
    /\ call \in Call
    /\ removing \subseteq Removal
    /\ configs \subseteq ConfigIds
    /\ filters \subseteq Filter
    /\ broadcasters \subseteq Broadcaster
    /\ fixed \in Leftover \union {None}
    /\ failures \in 0 .. MaxFailures
    /\ mislaid \subseteq Sessions
    /\ \A s \in Sessions : entry[s] # None =>
         /\ entry[s].broadcaster # None => entry[s].broadcaster.of = s
         /\ entry[s].filter # None => entry[s].filter.of = s

Idle == [at |-> "idle", on |-> None, plan |-> AllEvents, before |-> None, made |-> {}]

Init ==
    /\ entry = [s \in Sessions |-> None]
    /\ call = Idle
    /\ removing = {}
    /\ configs = Leftover
    /\ filters = {}
    /\ broadcasters = {}
    /\ fixed \in Leftover \union {None}
    /\ failures = 0
    /\ mislaid = {}

-----------------------------------------------------------------------------
(* Identifiers, failures and the steps of a call *)

Held == {entry[s] : s \in Sessions} \ {None}
IdsOf(things) == {x.id : x \in things \ {None}}

NewBroadcasterId == BroadcasterIds \ ({call.before} \union IdsOf(broadcasters
    \union {e.broadcaster : e \in Held} \union {r.broadcaster : r \in removing}))
NewFilterId == FilterIds \ IdsOf(filters
    \union {e.filter : e \in Held} \union {r.filter : r \in removing})
NewConfig == ConfigIds \ (configs
    \union {e.config : e \in Held} \union {r.config : r \in removing})

Fails ==
    /\ failures < MaxFailures
    /\ failures' = failures + 1

NoFailure == UNCHANGED failures

Mislay(s) == mislaid' = mislaid \union {s}

\* The call goes on, its entry now e.
Onward(at, e) ==
    /\ entry' = [entry EXCEPT ![call.on] = e]
    /\ call' = [call EXCEPT !.at = at]

\* The call returns, its entry now e.
Return(e) ==
    /\ entry' = [entry EXCEPT ![call.on] = e]
    /\ call' = Idle

-----------------------------------------------------------------------------
(* EnsurePipeline *)

NewEntry == [broadcaster |-> None, filter |-> None, config |-> None,
             shared |-> FALSE, plan |-> None]

InPlace(s, p) ==
    /\ entry[s] # None
    /\ entry[s].broadcaster \in broadcasters
    /\ entry[s].plan = p

\* A mutated replacement: the old filter is forgotten and not deleted.
DropFilterUndeleted(s, f) == UNCHANGED <<filters, mislaid>> /\ NoFailure

\* The old filter goes when the plan is another; its deletion may fail
\* unnoticed.
DropFilter(s, f) ==
    \/ filters' = filters \ {f} /\ NoFailure /\ UNCHANGED mislaid
    \/ f # None /\ UNCHANGED filters /\ Fails /\ Mislay(s)

\* A list without a plan is refused, and nothing changes.  Else the call locks
\* the mutex.  A broadcaster that is in place and the plan's is all it needs.
\* Otherwise, or when the listing fails, it forgets the broadcaster and, if
\* that is another plan's, deletes the filter.
EnsureBegins(s, subs) ==
    LET p == Plan(subs)
        e == IF entry[s] = None THEN NewEntry ELSE entry[s]
        other == e.plan # p
    IN
    /\ p # NoPlan
    /\ call.at = "idle"
    /\ call' = [at |-> "config", on |-> s, plan |-> p,
                before |-> IF e.broadcaster = None THEN None ELSE e.broadcaster.id,
                made |-> {}]
    /\ entry' = [entry EXCEPT ![s] = [e EXCEPT
         !.broadcaster = None, !.plan = p, !.filter = IF other THEN None ELSE @]]
    /\ \/ ~InPlace(s, p) /\ DropFilter(s, IF other THEN e.filter ELSE None)
       \/ InPlace(s, p) /\ Fails /\ UNCHANGED <<filters, mislaid>>
    /\ UNCHANGED <<removing, configs, broadcasters, fixed>>

\* createConfig: none is needed, or the fixed one is taken, or one is made.
ConfigReady ==
    LET e == entry[call.on] IN
    /\ call.at = "config"
    /\ \/ e.config # None /\ Onward("filter", e) /\ UNCHANGED configs
       \/ /\ e.config = None /\ fixed # None
          /\ Onward("filter", [e EXCEPT !.config = fixed, !.shared = TRUE])
          /\ UNCHANGED configs
       \/ /\ e.config = None /\ fixed = None
          /\ \E c \in NewConfig :
               /\ configs' = configs \union {c}
               /\ Onward("filter", [e EXCEPT !.config = c])
    /\ UNCHANGED <<removing, filters, broadcasters, fixed, failures, mislaid>>

\* A mutated attachment: the flag that the configuration is shared is not set.
ConfigAttachedAsOwn ==
    LET e == entry[call.on] IN
    /\ call.at = "config" /\ e.config = None /\ fixed = None
    /\ Fails
    /\ \E c \in configs : Onward("filter", [e EXCEPT !.config = c])
    /\ UNCHANGED <<removing, naryoVars, fixed, mislaid>>

\* Making one fails with Naryo's NullPointerException: the call takes the
\* first configuration in the listing with the same endpoint.
ConfigAttached ==
    LET e == entry[call.on] IN
    /\ call.at = "config" /\ e.config = None /\ fixed = None
    /\ Fails
    /\ \E c \in configs : Onward("filter", [e EXCEPT !.config = c, !.shared = TRUE])
    /\ UNCHANGED <<removing, naryoVars, fixed, mislaid>>

ConfigFails ==
    LET e == entry[call.on] IN
    /\ call.at = "config" /\ e.config = None
    /\ Fails
    /\ Return(e)
    /\ \/ UNCHANGED configs
       \/ fixed = None /\ \E c \in NewConfig : configs' = configs \union {c}
    /\ UNCHANGED <<removing, filters, broadcasters, fixed, mislaid>>

\* The plan has no filter, or its filter is there.
FilterReady ==
    LET e == entry[call.on] IN
    /\ call.at = "filter"
    /\ call.plan = AllEvents \/ e.filter \in filters
    /\ Onward("broadcaster", e)
    /\ UNCHANGED <<removing, naryoVars, fixed, failures, mislaid>>

\* A stop has yet to delete a filter that has the name of the session's.
FilterRemoved(s) == \E r \in removing : r.of = s /\ r.filter # None

SameName(s, p) == {f \in filters' : f.of = s /\ FilterKind(f.plan) = FilterKind(p)}

\* There is no filter, or it is not listed: one is posted, and looked up by
\* its name.  An older filter of the session may have the same name.
FilterMade ==
    LET s == call.on
        e == entry[s] IN
    /\ call.at = "filter" /\ call.plan # AllEvents
    /\ \/ e.filter \notin filters /\ NoFailure
       \/ e.filter \in filters /\ Fails
    /\ mislaid' = IF e.filter \in filters \/ FilterRemoved(s)
                    THEN mislaid \union {s} ELSE mislaid
    /\ \E n \in NewFilterId :
         filters' = filters \union {[id |-> n, of |-> s, plan |-> call.plan]}
    /\ \E found \in SameName(s, call.plan) :
         Onward("broadcaster", [e EXCEPT !.filter = found])
    /\ UNCHANGED <<removing, configs, broadcasters, fixed>>

\* The filter is posted without success, as far as the call can tell.  It may
\* have been posted because the listing that shows the old one failed.
PostedInVain ==
    \/ /\ UNCHANGED filters
       /\ IF entry[call.on].filter \in filters THEN Mislay(call.on) ELSE UNCHANGED mislaid
    \/ /\ \E n \in NewFilterId :
            filters' = filters \union {[id |-> n, of |-> call.on, plan |-> call.plan]}
       /\ Mislay(call.on)

FilterFails ==
    LET e == entry[call.on] IN
    /\ call.at = "filter" /\ call.plan # AllEvents
    /\ Fails
    /\ PostedInVain
    /\ Return([e EXCEPT !.filter = None])
    /\ UNCHANGED <<removing, configs, broadcasters, fixed>>

\* It fails in a revision hook of Naryo: the call falls back to all events.
FilterFallsBack ==
    LET e == entry[call.on] IN
    /\ call.at = "filter" /\ call.plan # AllEvents
    /\ AllowAll
    /\ Fails
    /\ PostedInVain
    /\ Onward("broadcaster", [e EXCEPT !.filter = None, !.plan = AllEvents])
    /\ UNCHANGED <<removing, configs, broadcasters, fixed>>

Target(e) == IF e.plan = AllEvents THEN AllEvents ELSE e.filter.id

MadeOne(e, n) == [id |-> n, of |-> call.on, config |-> e.config, target |-> Target(e)]

\* A mutated lookup: the destination is not compared.
FoundByTarget(e) ==
    {b \in broadcasters' : b.target = Target(e) /\ b.config = e.config}

\* A mutated lookup: the target is not compared.
FoundByPath(e) == {b \in broadcasters' : b.of = call.on /\ b.config = e.config}

\* findBroadcaster: by destination and target, with one of the entry's
\* configuration preferred.
Found(e) ==
    {b \in broadcasters' : b.of = call.on /\ b.target = Target(e) /\ b.config = e.config}

\* createBroadcaster, and with it the call, succeeds.
BroadcasterMade ==
    LET e == entry[call.on] IN
    /\ call.at = "broadcaster"
    /\ \E n \in NewBroadcasterId : broadcasters' = broadcasters \union {MadeOne(e, n)}
    /\ \E b \in Found(e) : Return([e EXCEPT !.broadcaster = b])
    /\ UNCHANGED <<removing, configs, filters, fixed, failures, mislaid>>

MaybeMade(e) ==
    \/ UNCHANGED broadcasters
    \/ \E n \in NewBroadcasterId : broadcasters' = broadcasters \union {MadeOne(e, n)}

\* Naryo may also refuse one whose configuration or filter is gone.
Dangling(e) ==
    \/ e.config \notin configs
    \/ e.plan # AllEvents /\ e.filter \notin filters

BroadcasterFails ==
    LET e == entry[call.on] IN
    /\ call.at = "broadcaster"
    /\ \/ Fails /\ MaybeMade(e)
       \/ Dangling(e) /\ NoFailure /\ UNCHANGED broadcasters
    /\ Return(e)
    /\ UNCHANGED <<removing, configs, filters, fixed, mislaid>>

\* It fails in a revision hook: the call deletes the filter again, or fails to,
\* and posts a broadcaster for all events.
BroadcasterFallsBack ==
    LET e == entry[call.on] IN
    /\ call.at = "broadcaster" /\ e.plan # AllEvents
    /\ AllowAll
    /\ Fails
    /\ \E n \in NewBroadcasterId \union {None} :
         /\ broadcasters' = IF n = None THEN broadcasters ELSE broadcasters \union {MadeOne(e, n)}
         /\ entry' = [entry EXCEPT ![call.on] = [e EXCEPT !.filter = None, !.plan = AllEvents]]
         /\ call' = [call EXCEPT !.made = @ \union ({n} \ {None})]
    /\ \/ filters' = filters \ {e.filter} /\ UNCHANGED mislaid
       \/ UNCHANGED filters /\ Mislay(call.on)
    /\ UNCHANGED <<removing, configs, fixed>>

-----------------------------------------------------------------------------
(* PauseEgress *)

HasBroadcaster(s) == entry[s] # None /\ entry[s].broadcaster # None

PauseDetaches(s) ==
    /\ call.at = "idle"
    /\ HasBroadcaster(s)
    /\ broadcasters' = broadcasters \ {entry[s].broadcaster}
    /\ entry' = [entry EXCEPT ![s] = [@ EXCEPT !.broadcaster = None]]
    /\ UNCHANGED <<call, removing, configs, filters, fixed, failures, mislaid>>

\* The entry is kept as it was, whether the broadcaster is still there or not.
\* (When the deletion of one that is gone is refused, nothing changes at all.)
PauseFails(s) ==
    /\ call.at = "idle"
    /\ HasBroadcaster(s)
    /\ Fails
    /\ broadcasters' \in {broadcasters, broadcasters \ {entry[s].broadcaster}}
    /\ UNCHANGED <<entry, call, removing, configs, filters, fixed, mislaid>>

-----------------------------------------------------------------------------
(* StopPipeline *)

\* A mutated stop: the broadcaster is left where it is.
RemovalOfScope(s) ==
    [of |-> s, broadcaster |-> None, filter |-> entry[s].filter,
     config |-> IF entry[s].shared THEN None ELSE entry[s].config]

\* What the stop of a session deletes: a shared configuration stays.
RemovalOf(s) ==
    [of |-> s, broadcaster |-> entry[s].broadcaster, filter |-> entry[s].filter,
     config |-> IF entry[s].shared THEN None ELSE entry[s].config]

\* Under the mutex, the entry is taken out of the map.
StopTakes(s) ==
    /\ call.at = "idle"
    /\ entry[s] # None
    /\ Cardinality(removing) < MaxStops
    /\ removing' = removing \union {RemovalOf(s)}
    /\ entry' = [entry EXCEPT ![s] = None]
    /\ UNCHANGED <<call, naryoVars, fixed, failures, mislaid>>

Removed(r, r2) == removing' = (removing \ {r}) \union {r2}

\* The deletions follow without the mutex, each at most tried once.
StopDeletesBroadcaster(r) ==
    /\ r.broadcaster # None
    /\ \/ broadcasters' = broadcasters \ {r.broadcaster} /\ NoFailure
       \/ UNCHANGED broadcasters /\ Fails
    /\ Removed(r, [r EXCEPT !.broadcaster = None])
    /\ UNCHANGED <<entry, call, configs, filters, fixed, mislaid>>

StopDeletesFilter(r) ==
    /\ r.broadcaster = None /\ r.filter # None
    /\ \/ filters' = filters \ {r.filter} /\ NoFailure /\ UNCHANGED mislaid
       \/ UNCHANGED filters /\ Fails /\ Mislay(r.of)
    /\ Removed(r, [r EXCEPT !.filter = None])
    /\ UNCHANGED <<entry, call, configs, broadcasters, fixed>>

StopDeletesConfig(r) ==
    /\ r.broadcaster = None /\ r.filter = None /\ r.config # None
    /\ \/ configs' = configs \ {r.config} /\ NoFailure
       \/ UNCHANGED configs /\ Fails
    /\ Removed(r, [r EXCEPT !.config = None])
    /\ UNCHANGED <<entry, call, filters, broadcasters, fixed, mislaid>>

\* The stop locks the mutex to count its success, and calls clearErr, which
\* locks it again: the client takes no other call.
StopCounts(r) ==
    /\ r.broadcaster = None /\ r.filter = None /\ r.config = None
    /\ call.at = "idle"
    /\ call' = [call EXCEPT !.at = "clearErr"]
    /\ removing' = removing \ {r}
    /\ UNCHANGED <<entry, naryoVars, fixed, failures, mislaid>>

-----------------------------------------------------------------------------
EnsureStep ==
    \/ ConfigReady
    \/ ConfigAttached
    \/ ConfigFails
    \/ FilterReady
    \/ FilterMade
    \/ FilterFails
    \/ FilterFallsBack
    \/ BroadcasterMade
    \/ BroadcasterFails
    \/ BroadcasterFallsBack

StopStep(r) ==
    \/ StopDeletesBroadcaster(r)
    \/ StopDeletesFilter(r)
    \/ StopDeletesConfig(r)
    \/ StopCounts(r)

Next ==
    \/ \E s \in Sessions, subs \in Requested : EnsureBegins(s, subs)
    \/ EnsureStep
    \/ \E s \in Sessions : PauseDetaches(s) \/ PauseFails(s) \/ StopTakes(s)
    \/ \E r \in removing : StopStep(r)

Spec == Init /\ [][Next]_vars

-----------------------------------------------------------------------------
(* Refinement *)

Ensuring(s) == call.at \notin {"idle", "clearErr"} /\ call.on = s

BroadcasterId(b) == IF b = None THEN None ELSE b.id

\* What the callers see of a session: the effect of a call shows when the call
\* returns.
HandleOf(s) ==
    IF Ensuring(s) THEN call.before
    ELSE IF entry[s] = None THEN None
    ELSE BroadcasterId(entry[s].broadcaster)

AtNaryo(s) == IdsOf({b \in broadcasters : b.of = s}) \ call.made

TakenOver(s) == IdsOf({r.broadcaster : r \in {x \in removing : x.of = s}})

known == [s \in Sessions |-> entry[s] # None]
handle == [s \in Sessions |-> HandleOf(s)]
naryo == [s \in Sessions |-> AtNaryo(s)]
taken == [s \in Sessions |-> TakenOver(s)]

Contract == INSTANCE EgressClient WITH
    Broadcasters <- BroadcasterIds,
    NoBroadcaster <- None

\* Behind the exchanges for configuration, filter and broadcaster, their
\* errors and fallbacks, and beside the deletions of stops, every call does to
\* the broadcasters of its session what module Egress takes it to do, and
\* nothing to those of another.
ImplementsContract == Contract!Spec

(* Properties *)

\* The filter of a broadcaster that is targeted at one.
Scope(b) == {f \in filters : f.id = b.target}

\* A session is delivered what its plan asks for, however often the plan
\* changed: the broadcaster that the client has for it passes all events if the
\* entry's plan is that (a fallback included) and only then, else the events of
\* a filter of the plan.  Filters are found by a name that those of other
\* topics share, so a session in `mislaid`, where the client may have lost track
\* of a filter, may be delivered another topic, or nothing.  Even then it is
\* never delivered by a filter of another session or of the other kind.
ScopeKept ==
    \A s \in Sessions :
        LET e == entry[s]
            b == e.broadcaster
        IN e # None /\ ~Ensuring(s) /\ b \in broadcasters =>
            /\ e.plan = AllEvents <=> b.target = AllEvents
            /\ \A f \in Scope(b) : f.of = s /\ FilterKind(f.plan) = FilterKind(e.plan)
            /\ s \notin mislaid /\ e.plan # AllEvents => \E f \in Scope(b) : f.plan = e.plan

\* Events of target reach a session through broadcaster b.
Passes(b, target) == b.target = AllEvents \/ \E f \in Scope(b) : f.plan = target

\* The dashboard's report, computed from the session's list alone, against
\* what the session's broadcaster passes, for the subscriptions of a kind that
\* Naryo has filters for.  A subscription that it does not name as left out is
\* served; one that it names is not served.  Two cases are exempt: after a
\* fallback to all events, the second part, because the report still names what
\* the filter would have left out; and both after a reconfigure to another
\* plan, until the next resume, because the report is of the plan to come.
ReportIsTrue ==
    \A s \in Sessions :
        LET e == entry[s]
            b == e.broadcaster
        IN e # None /\ ~Ensuring(s) /\ s \notin mislaid /\ b \in broadcasters =>
            \A subs \in Requested : \A i \in DOMAIN subs : subs[i].kind # "other" =>
                /\ i \notin Unserved(subs) /\ e.plan \in {Plan(subs), AllEvents} =>
                     Passes(b, subs[i].target)
                /\ i \in Unserved(subs) /\ e.plan = Plan(subs) =>
                     ~Passes(b, subs[i].target)

\* The plans of a list that names a topic, and of the list with others after it.
Appended ==
    {<<Plan(a), Plan(a \o b)>> :
        a \in {x \in Requested : Naming("hedera_hcs_topic", x) # {}}, b \in Requested}

\* A reconfigure that only appends subscriptions leaves a session that is
\* served a topic alone: the next resume finds its broadcaster in place.
AppendKeepsTopic ==
    \A s \in Sessions, p \in Appended : InPlace(s, p[1]) => InPlace(s, p[2])

\* The client knows of every filter that Naryo has for a session, so that a
\* stop deletes it: unless its deletion failed, or its posting did halfway, or
\* the listing that shows it failed and another was posted, or one was posted
\* while a stop had yet to delete another of its name.
FiltersTracked ==
    \A s \in Sessions : s \notin mislaid =>
        {f \in filters : f.of = s} \subseteq
            {e.filter : e \in {entry[s]} \ {None}} \union
            {r.filter : r \in {x \in removing : x.of = s}}

\* A configuration that a session made for itself, or that was there before,
\* stays as long as the session has an entry, whatever other sessions do.
OwnConfigurationKept ==
    \A s \in Sessions :
        LET e == entry[s] IN
        e # None /\ e.config # None /\ (~e.shared \/ e.config \in Leftover) =>
            e.config \in configs

\* A configuration is not deleted from under a session that shares it.  The
\* session that made it does not know that it is shared.
SharedConfigurationKept ==
    \A s \in Sessions :
        LET e == entry[s] IN
        e # None /\ e.broadcaster \in broadcasters /\ e.shared => e.config \in configs
=============================================================================
