------------------------------- MODULE Egress -------------------------------
(***************************************************************************)
(* Lifecycle requests, the billing pass and the Naryo client as concurrent *)
(* calls (internal/pipeline/service.go over internal/naryo/http_client.go).*)
(*                                                                         *)
(* A session is delivered to (its egress is on) while Naryo has an HTTP    *)
(* broadcaster for it.  A request changes the session in the store and the *)
(* broadcaster at Naryo in separate steps; the mutexes of the store and of *)
(* the client are all that orders the steps of different calls.  Start     *)
(* calls Naryo inside the store's Update, the other requests outside it.   *)
(*                                                                         *)
(* Left out: the filter and the configuration behind a broadcaster, and    *)
(* the accounting of module Billing, of which only the pauses for lack of  *)
(* funds remain, at the billing pass's choice.  The client provisions: it  *)
(* is not configured to skip the egress (skipEgressProvision).             *)
(***************************************************************************)
EXTENDS Integers

CONSTANTS
    Sessions,
    Requests,       \* HTTP requests in flight at a time, one goroutine each
    Ticker,         \* the goroutine of RunBillingLoop
    Operations,     \* the operations that clients request
    Broadcasters,   \* identifiers for the broadcasters of a session
    NoBroadcaster,
    Nobody,         \* holder of a free mutex
    MaxFailures     \* bound: calls of the client that meet a failure of Naryo

ASSUME EgressAssumption ==
    /\ Ticker \notin Requests
    /\ Nobody \notin Requests \union {Ticker}
    /\ NoBroadcaster \notin Broadcasters
    /\ Operations \subseteq {"start", "resume", "pause", "stop", "reconfigure"}
    /\ MaxFailures \in Nat

Callers == Requests \union {Ticker}

Created == "created"
Running == "running"
Paused  == "paused"
Stopped == "stopped"

VARIABLES
    state,     \* State of each session in the store
    replan,    \* its config calls for another filter plan than its broadcaster's
    known,     \* the client has an entry (httpSessState) for the session
    handle,    \* broadcasterID in that entry
    naryo,     \* the broadcasters that Naryo has for the session
    storeMu,   \* holder of MemoryStore.mu across steps
    clientMu,  \* holder of HTTPClient.mu across steps
    call,      \* what each goroutine is doing
    todo,      \* sessions the billing pass has yet to visit
    pauseIDs,  \* sessions paused by the pass, whose PauseEgress is still to come
    failures,  \* calls of the client that met a failure of Naryo so far
    disturbed, \* history: sessions where calls overlapped, failed or were misplaced
    replaced   \* history: sessions that may have lost track of a broadcaster

clientVars == <<known, handle, naryo>>
historyVars == <<disturbed, replaced>>
vars == <<state, replan, clientVars, storeMu, clientMu, call, todo, pauseIDs,
          failures, historyVars>>

Steps == {"idle", "lookup", "ensure", "ensuring", "commit", "count", "egress",
          "pausing", "update", "take", "teardown", "clearErr", "pass"}

Call == [
    op: {"start", "resume", "pause", "stop", "tick"},
    on: Sessions,
    at: Steps,
    taken: Broadcasters \union {NoBroadcaster},  \* broadcaster a stop took over
    alone: BOOLEAN]                              \* no other call on the session so far

InUpdate(c) == call[c].op = "start" /\ call[c].at \in {"ensure", "ensuring", "commit"}
InClient(c) == call[c].at \in {"ensuring", "pausing", "clearErr"}

\* Types, and that a mutex is held by the call that is in its critical
\* section and by no other: every return unlocks what its call has locked.
TypeOK ==
    /\ state \in [Sessions -> {Created, Running, Paused, Stopped}]
    /\ replan \in [Sessions -> BOOLEAN]
    /\ known \in [Sessions -> BOOLEAN]
    /\ handle \in [Sessions -> Broadcasters \union {NoBroadcaster}]
    /\ naryo \in [Sessions -> SUBSET Broadcasters]
    /\ call \in [Callers -> Call]
    /\ storeMu \in Requests \union {Nobody}
    /\ \A c \in Callers : storeMu = c <=> InUpdate(c)
    /\ clientMu \in Callers \union {Nobody}
    /\ \A c \in Callers : clientMu = c <=> InClient(c)
    /\ todo \subseteq Sessions
    /\ pauseIDs \subseteq Sessions
    /\ failures \in 0 .. MaxFailures
    /\ disturbed \subseteq Sessions
    /\ replaced \subseteq Sessions

Idle(s) == [op |-> "tick", on |-> s, at |-> "idle", taken |-> NoBroadcaster, alone |-> TRUE]

Init ==
    /\ state = [s \in Sessions |-> Created]
    /\ replan = [s \in Sessions |-> FALSE]
    /\ known = [s \in Sessions |-> FALSE]
    /\ handle = [s \in Sessions |-> NoBroadcaster]
    /\ naryo = [s \in Sessions |-> {}]
    /\ storeMu = Nobody
    /\ clientMu = Nobody
    /\ \E s \in Sessions : call = [c \in Callers |-> Idle(s)]
    /\ todo = {}
    /\ pauseIDs = {}
    /\ failures = 0
    /\ disturbed = {}
    /\ replaced = {}

-----------------------------------------------------------------------------
(* Calls *)

CallsOn(s) == {c \in Callers : call[c].on = s /\ call[c].at \notin {"idle", "pass"}}

\* No call is under way for the session, nor a PauseEgress of the pass.
Quiet(s) == CallsOn(s) = {} /\ s \notin pauseIDs

Goto(c, at) == call' = [call EXCEPT ![c].at = at]

Free(mu) == mu = Nobody

Answer(c) == Goto(c, "idle")

\* A call that had the session for itself leaves store and Naryo in step.
AnswerOK(c) ==
    /\ Answer(c)
    /\ disturbed' = IF call[c].alone THEN disturbed \ {call[c].on} ELSE disturbed
    /\ UNCHANGED replaced

First(op) == IF op = "pause" THEN "egress" ELSE "lookup"

\* A request arrives.
Receive(r, op, s) ==
    /\ call[r].at = "idle"
    /\ op \in Operations \ {"reconfigure"}
    /\ call' = [c \in Callers |->
         IF c = r THEN [op |-> op, on |-> s, at |-> First(op),
                        taken |-> NoBroadcaster, alone |-> Quiet(s)]
         ELSE IF c \in CallsOn(s) THEN [call[c] EXCEPT !.alone = FALSE]
         ELSE call[c]]
    /\ disturbed' = IF Quiet(s) THEN disturbed ELSE disturbed \union {s}
    /\ UNCHANGED <<state, replan, clientVars, storeMu, clientMu, todo, pauseIDs,
                   failures, replaced>>

\* Reconfigure merges a patch into the session's config, and calls nobody.  It
\* may also bring the plan of the broadcaster back.
Reconfigure(s) ==
    /\ "reconfigure" \in Operations
    /\ Free(storeMu)
    /\ \E other \in BOOLEAN : replan' = [replan EXCEPT ![s] = other]
    /\ UNCHANGED <<state, clientVars, storeMu, clientMu, call, todo, pauseIDs,
                   failures, historyVars>>

\* A mutated store.Get: a session is returned with the mutex still locked.
LookupLeavesLocked(r) ==
    /\ call[r].at = "lookup"
    /\ Free(storeMu)
    /\ storeMu' = r
    /\ Goto(r, CASE call[r].op = "start"  -> "update"
                 [] call[r].op = "resume" -> "ensure"
                 [] call[r].op = "stop"   -> "take")
    /\ UNCHANGED <<state, replan, clientVars, clientMu, todo, pauseIDs, failures, historyVars>>

\* store.Get, and for a start or resume the balance check.
Lookup(r) ==
    /\ call[r].at = "lookup"
    /\ Free(storeMu)
    /\ Goto(r, CASE call[r].op = "start"  -> "update"
                 [] call[r].op = "resume" -> "ensure"
                 [] call[r].op = "stop"   -> "take")
    /\ UNCHANGED <<state, replan, clientVars, storeMu, clientMu, todo, pauseIDs,
                   failures, historyVars>>

\* Start enters Update and finds a state it cannot start from.
StartRejected(r) ==
    /\ call[r].op = "start" /\ call[r].at = "update"
    /\ Free(storeMu)
    /\ state[call[r].on] \notin {Created, Paused}
    /\ Answer(r)
    /\ UNCHANGED <<state, replan, clientVars, storeMu, clientMu, todo, pauseIDs,
                   failures, historyVars>>

\* Start enters Update, and keeps the store's mutex while it calls Naryo.
StartLocks(r) ==
    /\ call[r].op = "start" /\ call[r].at = "update"
    /\ Free(storeMu)
    /\ state[call[r].on] \in {Created, Paused}
    /\ storeMu' = r
    /\ Goto(r, "ensure")
    /\ UNCHANGED <<state, replan, clientVars, clientMu, todo, pauseIDs, failures,
                   historyVars>>

StartCommits(r) ==
    /\ call[r].at = "commit"
    /\ state' = [state EXCEPT ![call[r].on] = Running]
    /\ storeMu' = Nobody
    /\ AnswerOK(r)
    /\ UNCHANGED <<replan, clientVars, clientMu, todo, pauseIDs, failures>>

-----------------------------------------------------------------------------
(* EnsurePipeline *)

\* A mutated return from Update: an error leaves the mutex locked.
ReleaseStoreNot(c) == UNCHANGED storeMu

\* When Start's Update returns an error, it unlocks the store.
ReleaseStore(c) == storeMu' = IF storeMu = c THEN Nobody ELSE storeMu

\* The config has no filter plan, and all events are not allowed: the client
\* refuses it before it locks its mutex.  The plan of a broadcaster is one.
EnsureRefused(c) ==
    /\ call[c].at = "ensure"
    /\ handle[call[c].on] = NoBroadcaster \/ replan[call[c].on]
    /\ ReleaseStore(c)
    /\ Answer(c)
    /\ UNCHANGED <<state, replan, clientVars, clientMu, todo, pauseIDs, failures,
                   historyVars>>

EnsureLocks(c) ==
    /\ call[c].at = "ensure"
    /\ Free(clientMu)
    /\ clientMu' = c
    /\ known' = [known EXCEPT ![call[c].on] = TRUE]
    /\ Goto(c, "ensuring")
    /\ UNCHANGED <<state, replan, handle, naryo, storeMu, todo, pauseIDs, failures,
                   historyVars>>

AfterEnsure(c) == IF call[c].op = "start" THEN "commit" ELSE "count"

\* The broadcaster that the client knows of is at Naryo.
Delivering(s) == handle[s] \in naryo[s]

\* A mutated EnsurePipeline: it does not ask Naryo whether the broadcaster it
\* remembers is still there.
InPlaceUnchecked(s) == handle[s] # NoBroadcaster /\ ~replan[s]

InPlace(s) == Delivering(s) /\ ~replan[s]

\* The broadcaster exists and is the plan's.
EnsureReuses(c) ==
    /\ call[c].at = "ensuring"
    /\ InPlace(call[c].on)
    /\ clientMu' = Nobody
    /\ Goto(c, AfterEnsure(c))
    /\ UNCHANGED <<state, replan, clientVars, storeMu, todo, pauseIDs, failures,
                   historyVars>>

\* Broadcasters of the session that stops took over and have yet to delete.
Taken(s) == {call[c].taken : c \in {x \in Callers : call[x].on = s}}

Fresh(s) == Broadcasters \ (naryo[s] \union Taken(s) \union {handle[s]})

\* A broadcaster is posted, and looked up by its target and destination: an
\* older one with the same target may be found in its place.
NewBroadcaster(s) ==
    \E b \in Fresh(s) :
        /\ naryo' = [naryo EXCEPT ![s] = @ \union {b}]
        /\ \E found \in {b} \union naryo[s] : handle' = [handle EXCEPT ![s] = found]

\* There is none, it is gone from Naryo, or it is another plan's: the client
\* forgets it, without deleting it, and makes another.
EnsureCreates(c) ==
    LET s == call[c].on IN
    /\ call[c].at = "ensuring"
    /\ ~InPlace(s)
    /\ NewBroadcaster(s)
    /\ replan' = [replan EXCEPT ![s] = FALSE]
    /\ replaced' = IF Delivering(s) \/ Taken(s) # {NoBroadcaster}
                     THEN replaced \union {s} ELSE replaced
    /\ clientMu' = Nobody
    /\ Goto(c, AfterEnsure(c))
    /\ UNCHANGED <<state, known, storeMu, todo, pauseIDs, failures, disturbed>>

NaryoFails(s) ==
    /\ failures < MaxFailures
    /\ failures' = failures + 1
    /\ disturbed' = disturbed \union {s}
    /\ replaced' = replaced \union {s}

\* The listing that tells whether the broadcaster exists fails: it is taken
\* for gone.
EnsureMissesOne(c) ==
    LET s == call[c].on IN
    /\ call[c].at = "ensuring"
    /\ InPlace(s)
    /\ NaryoFails(s)
    /\ NewBroadcaster(s)
    /\ clientMu' = Nobody
    /\ Goto(c, AfterEnsure(c))
    /\ UNCHANGED <<state, replan, known, storeMu, todo, pauseIDs>>

\* Naryo fails to apply the filter, or the broadcaster for it: the call makes
\* one for all events, unless configured otherwise.  It is recorded as another
\* plan's, so that the next call replaces it.  What it replaces may be in
\* place, if the listing failed before.
EnsureFallsBack(c) ==
    LET s == call[c].on IN
    /\ call[c].at = "ensuring"
    /\ NaryoFails(s)
    /\ \E a, b \in Fresh(s) :
         /\ naryo' = [naryo EXCEPT ![s] = @ \union {a, b}]
         /\ \E found \in {a, b} \union naryo[s] : handle' = [handle EXCEPT ![s] = found]
    /\ replan' = [replan EXCEPT ![s] = TRUE]
    /\ clientMu' = Nobody
    /\ Goto(c, AfterEnsure(c))
    /\ UNCHANGED <<state, known, storeMu, todo, pauseIDs>>

\* A call fails, its old broadcaster forgotten: it has made none, or the one
\* that it posted is not known, or neither that nor the one it fell back to.
EnsureFails(c) ==
    LET s == call[c].on IN
    /\ call[c].at = "ensuring"
    /\ NaryoFails(s)
    /\ \/ UNCHANGED naryo
       \/ \E a, b \in Fresh(s) : naryo' = [naryo EXCEPT ![s] = @ \union {a, b}]
    /\ handle' = [handle EXCEPT ![s] = NoBroadcaster]
    /\ replan' = [replan EXCEPT ![s] = FALSE]
    /\ clientMu' = Nobody
    /\ ReleaseStore(c)
    /\ Answer(c)
    /\ UNCHANGED <<state, known, todo, pauseIDs>>

\* ResumeEgress counts its success under the client's mutex.
ResumeCounts(r) ==
    /\ call[r].at = "count" /\ call[r].op = "resume"
    /\ Free(clientMu)
    /\ Goto(r, "update")
    /\ UNCHANGED <<state, replan, clientVars, storeMu, clientMu, todo, pauseIDs,
                   failures, historyVars>>

ResumeCommits(r) ==
    /\ call[r].op = "resume" /\ call[r].at = "update"
    /\ Free(storeMu)
    /\ state[call[r].on] = Paused
    /\ state' = [state EXCEPT ![call[r].on] = Running]
    /\ AnswerOK(r)
    /\ UNCHANGED <<replan, clientVars, storeMu, clientMu, todo, pauseIDs, failures>>

\* The session is not paused, but its egress is on by now.
ResumeRejected(r) ==
    LET s == call[r].on IN
    /\ call[r].op = "resume" /\ call[r].at = "update"
    /\ Free(storeMu)
    /\ state[s] # Paused
    /\ Answer(r)
    /\ disturbed' = IF state[s] = Running THEN disturbed ELSE disturbed \union {s}
    /\ UNCHANGED <<state, replan, clientVars, storeMu, clientMu, todo, pauseIDs,
                   failures, replaced>>

-----------------------------------------------------------------------------
(* PauseEgress, for a request or for the billing pass *)

PauseLocks(c) ==
    /\ call[c].at = "egress"
    /\ Free(clientMu)
    /\ clientMu' = c
    /\ Goto(c, "pausing")
    /\ UNCHANGED <<state, replan, clientVars, storeMu, todo, pauseIDs, failures,
                   historyVars>>

\* A request goes on to its Update, the billing pass to its next session.
AfterPause(c) == IF call[c].op = "tick" THEN "pass" ELSE "update"

DonePausing(c) ==
    pauseIDs' = IF call[c].op = "tick" THEN pauseIDs \ {call[c].on} ELSE pauseIDs

\* A mutated PauseEgress: the broadcaster is forgotten and not deleted.
DetachedForgotten(s) == naryo[s]

Detached(s) == naryo[s] \ {handle[s]}

\* The session's broadcaster, if it has one, is deleted.  That of one which is
\* gone already succeeds or is refused, as Naryo likes.
PauseDetaches(c) ==
    LET s == call[c].on IN
    /\ call[c].at = "pausing"
    /\ naryo' = [naryo EXCEPT ![s] = Detached(s)]
    /\ handle' = [handle EXCEPT ![s] = NoBroadcaster]
    /\ clientMu' = Nobody
    /\ DonePausing(c)
    /\ Goto(c, AfterPause(c))
    /\ UNCHANGED <<state, replan, known, storeMu, todo, failures, historyVars>>

\* The deletion fails, or succeeds and its outcome is not seen, or is refused:
\* a request returns the error, the billing pass goes on.
PauseFails(c) ==
    LET s == call[c].on IN
    /\ call[c].at = "pausing"
    /\ handle[s] # NoBroadcaster
    /\ \/ NaryoFails(s) /\ naryo' \in {naryo, [naryo EXCEPT ![s] = Detached(s)]}
       \/ ~Delivering(s) /\ UNCHANGED <<naryo, failures, historyVars>>
    /\ clientMu' = Nobody
    /\ DonePausing(c)
    /\ Goto(c, IF call[c].op = "tick" THEN "pass" ELSE "idle")
    /\ UNCHANGED <<state, replan, known, handle, storeMu, todo>>

PauseCommits(r) ==
    /\ call[r].op = "pause" /\ call[r].at = "update"
    /\ Free(storeMu)
    /\ state[call[r].on] = Running
    /\ state' = [state EXCEPT ![call[r].on] = Paused]
    /\ AnswerOK(r)
    /\ UNCHANGED <<replan, clientVars, storeMu, clientMu, todo, pauseIDs, failures>>

PauseRejected(r) ==
    /\ call[r].op = "pause" /\ call[r].at = "update"
    /\ Free(storeMu)
    /\ state[call[r].on] # Running
    /\ Answer(r)
    /\ UNCHANGED <<state, replan, clientVars, storeMu, clientMu, todo, pauseIDs,
                   failures, historyVars>>

-----------------------------------------------------------------------------
(* StopPipeline *)

\* A mutated stop: the entry stays in the client's map.
EntryKept(s) == UNCHANGED <<known, handle>>

EntryDropped(s) ==
    /\ known' = [known EXCEPT ![s] = FALSE]
    /\ handle' = [handle EXCEPT ![s] = NoBroadcaster]

\* The client drops its entry for the session, if it has one.
StopTakes(r) ==
    LET s == call[r].on IN
    /\ call[r].at = "take"
    /\ Free(clientMu)
    /\ call' = [call EXCEPT ![r].at = IF known[s] THEN "teardown" ELSE "update",
                            ![r].taken = handle[s]]
    /\ EntryDropped(s)
    /\ UNCHANGED <<state, replan, naryo, storeMu, clientMu, todo, pauseIDs, failures,
                   historyVars>>

\* The deletions run without the mutex, and their errors are ignored.
StopDeletes(r) ==
    LET s == call[r].on IN
    /\ call[r].at = "teardown"
    /\ \/ naryo' = [naryo EXCEPT ![s] = @ \ {call[r].taken}] /\ UNCHANGED <<failures, historyVars>>
       \/ NaryoFails(s) /\ UNCHANGED naryo
    /\ call' = [call EXCEPT ![r].at = "count", ![r].taken = NoBroadcaster]
    /\ UNCHANGED <<state, replan, known, handle, storeMu, clientMu, todo, pauseIDs>>

\* Having locked the mutex to count its success, StopPipeline calls clearErr,
\* which locks it again: this call takes no further step.
StopCounts(r) ==
    /\ call[r].at = "count" /\ call[r].op = "stop"
    /\ Free(clientMu)
    /\ clientMu' = r
    /\ Goto(r, "clearErr")
    /\ UNCHANGED <<state, replan, clientVars, storeMu, todo, pauseIDs, failures,
                   historyVars>>

\* A mutated Stop: the state is set without the store's mutex.
StopCommitsUnlocked(r) ==
    /\ call[r].op = "stop" /\ call[r].at = "update"
    /\ state' = [state EXCEPT ![call[r].on] = Stopped]
    /\ AnswerOK(r)
    /\ UNCHANGED <<replan, clientVars, storeMu, clientMu, todo, pauseIDs, failures>>

\* The Update of Stop, which only the stop of a session without an entry in
\* the client reaches.
StopCommits(r) ==
    /\ call[r].op = "stop" /\ call[r].at = "update"
    /\ Free(storeMu)
    /\ state' = [state EXCEPT ![call[r].on] = Stopped]
    /\ AnswerOK(r)
    /\ UNCHANGED <<replan, clientVars, storeMu, clientMu, todo, pauseIDs, failures>>

-----------------------------------------------------------------------------
(* The billing pass *)

TickBegins ==
    /\ call[Ticker].at = "idle"
    /\ Free(storeMu)
    /\ todo' = Sessions
    /\ Goto(Ticker, "pass")
    /\ UNCHANGED <<state, replan, clientVars, storeMu, clientMu, pauseIDs, failures,
                   historyVars>>

TickVisits(s) ==
    /\ s \in todo
    /\ Free(storeMu)
    /\ todo' = todo \ {s}
    /\ UNCHANGED <<state, replan, clientVars, storeMu, clientMu, call, pauseIDs, failures,
                   historyVars>>

\* The charge of a running session is refused for the second time.
TickPauses(s) ==
    /\ s \in todo
    /\ Free(storeMu)
    /\ state[s] = Running
    /\ todo' = todo \ {s}
    /\ state' = [state EXCEPT ![s] = Paused]
    /\ pauseIDs' = pauseIDs \union {s}
    /\ call' = [c \in Callers |->
         IF c \in CallsOn(s) THEN [call[c] EXCEPT !.alone = FALSE] ELSE call[c]]
    /\ disturbed' = IF Quiet(s) THEN disturbed ELSE disturbed \union {s}
    /\ UNCHANGED <<replan, clientVars, storeMu, clientMu, failures, replaced>>

\* A mutated pass: it ends without the calls to PauseEgress.
ToDetachNone == {}

ToDetach == pauseIDs

\* Every session visited, the pass calls PauseEgress for those it paused.
TickDetaches(s) ==
    /\ call[Ticker].at = "pass"
    /\ todo = {}
    /\ s \in ToDetach
    /\ call' = [call EXCEPT ![Ticker].at = "egress", ![Ticker].on = s]
    /\ UNCHANGED <<state, replan, clientVars, storeMu, clientMu, todo, pauseIDs, failures,
                   historyVars>>

TickEnds ==
    /\ call[Ticker].at = "pass"
    /\ todo = {} /\ ToDetach = {}
    /\ Goto(Ticker, "idle")
    /\ UNCHANGED <<state, replan, clientVars, storeMu, clientMu, todo, pauseIDs, failures,
                   historyVars>>

-----------------------------------------------------------------------------
\* A step of the client on behalf of a call.
ClientStep(c) ==
    \/ EnsureRefused(c)
    \/ EnsureLocks(c)
    \/ EnsureReuses(c)
    \/ EnsureCreates(c)
    \/ EnsureMissesOne(c)
    \/ EnsureFallsBack(c)
    \/ EnsureFails(c)
    \/ PauseLocks(c)
    \/ PauseDetaches(c)
    \/ PauseFails(c)

RequestStep(r) ==
    \/ ClientStep(r)
    \/ Lookup(r)
    \/ StartRejected(r)
    \/ StartLocks(r)
    \/ StartCommits(r)
    \/ ResumeCounts(r)
    \/ ResumeCommits(r)
    \/ ResumeRejected(r)
    \/ PauseCommits(r)
    \/ PauseRejected(r)
    \/ StopTakes(r)
    \/ StopDeletes(r)
    \/ StopCounts(r)
    \/ StopCommits(r)

TickStep ==
    \/ ClientStep(Ticker)
    \/ \E s \in Sessions : TickVisits(s) \/ TickPauses(s) \/ TickDetaches(s)
    \/ TickEnds

Next ==
    \/ \E r \in Requests, op \in Operations, s \in Sessions : Receive(r, op, s)
    \/ \E s \in Sessions : Reconfigure(s)
    \/ \E r \in Requests : RequestStep(r)
    \/ TickBegins
    \/ TickStep

Spec == Init /\ [][Next]_vars

\* Go's mutexes starve nobody, and every operation that Naryo accepts is
\* finished or fails in the end (waitOperation polls it without a deadline).
Fairness ==
    /\ \A r \in Requests : SF_vars(RequestStep(r))
    /\ SF_vars(TickStep)

FairSpec == Spec /\ Fairness
-----------------------------------------------------------------------------
(* Refinement *)

\* The client as this module uses it.
Contract == INSTANCE EgressClient WITH
    taken <- [s \in Sessions |-> Taken(s) \ {NoBroadcaster}]

\* However requests and billing pass interleave, the client as it is here
\* stays within the contract that the client of module NaryoClient, exchange
\* by exchange, implements too: it does nothing to broadcasters that the
\* contract does not allow.  The contract may allow what is not in here.
ImplementsContract == Contract!Spec

\* Of the payment stream, which is left out here, a running session has its.
Life == INSTANCE SessionLifecycle WITH
    stream <- [s \in Sessions |-> state[s] = Running],
    charged <- [s \in Sessions |-> 0],
    unreported <- [s \in Sessions |-> 0]

\* Concurrent requests and the billing pass leave each session on its
\* lifecycle: in particular a start finds, when it is done with Naryo, the
\* state that it found before, since it has the store's mutex all the while.
ImplementsLifecycle == Life!Spec

-----------------------------------------------------------------------------
(* Properties *)

\* The store and Naryo agree, once no call is under way for the session.  A
\* request or an automatic pause that runs alone, with Naryo's calls answered,
\* sets right the broadcaster that the client knows of, whatever calls,
\* overlapping or failed, came before it: that is at Naryo if the session is
\* running, and only then.  Of all broadcasters that Naryo has for it, a
\* session that is not running has none and a running one has just that one,
\* except a session in `replaced`, which may have lost track of another.
AgreeUnlessDisturbed ==
    \A s \in Sessions : Quiet(s) /\ s \notin disturbed =>
        /\ state[s] = Running <=> Delivering(s)
        /\ s \notin replaced =>
             naryo[s] = IF state[s] = Running THEN {handle[s]} ELSE {}

Tracked(s) == {handle[s]} \union Taken(s)

\* The client keeps track of every broadcaster that Naryo has for a session,
\* however calls interleave, so that a pause or a stop deletes it: unless a
\* call to Naryo failed, the filter plan was changed under a broadcaster, or
\* one was made while a stop was about to delete another.
BroadcastersTracked ==
    \A s \in Sessions : s \notin replaced => naryo[s] \subseteq Tracked(s)

\* What makes it inductive: the billing pass makes no request, each request
\* takes its own steps, only a stop that has yet to delete holds on to a
\* broadcaster, and the client has an id only in an entry, which it has made
\* before it provisions.
CallsConsistent ==
    /\ call[Ticker].op = "tick"
    /\ \A c \in Callers : call[c].at = "lookup" => call[c].op \in {"start", "resume", "stop"}
    /\ \A c \in Callers : call[c].at = "commit" => call[c].op = "start"
    /\ \A c \in Callers : call[c].taken # NoBroadcaster => call[c].at = "teardown"
    /\ \A c \in Callers : call[c].at = "ensuring" => known[call[c].on]
    /\ \A s \in Sessions : ~known[s] => handle[s] = NoBroadcaster

Tracking ==
    /\ TypeOK
    /\ CallsConsistent
    /\ BroadcastersTracked

\* service.go: a running session, resumed, has its egress back.  The billing
\* pass calls PauseEgress after its updates, and meets the resumed session.
RunningIsDelivered ==
    \A s \in Sessions : Quiet(s) /\ state[s] = Running => Delivering(s)

\* The pipeline's state decides who receives what.  Resume provisions the
\* egress before it looks at the state, and does so for any session.
DeliveredIsRunning ==
    \A s \in Sessions : Quiet(s) /\ Delivering(s) => state[s] = Running

\* A pause turns the egress off.  A broadcaster that was replaced because the
\* filter plan changed is not deleted, and neither pause nor stop knows it.
PausedIsSilent ==
    \A s \in Sessions :
        Quiet(s) /\ s \notin disturbed /\ state[s] = Paused => naryo[s] = {}

\* Every request is answered: no two calls wait for each other's mutexes.
RequestsAnswered ==
    \A r \in Requests : call[r].at # "idle" ~> call[r].at = "idle"

\* An automatic pause reaches Naryo: every PauseEgress that the billing pass
\* owes is made, even when it has to wait for a start that holds the mutexes.
PausesReachNaryo == \A s \in Sessions : s \in pauseIDs ~> s \notin pauseIDs
=============================================================================
