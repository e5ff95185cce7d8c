-------------------------- MODULE NaryoClientProofs --------------------------
(***************************************************************************)
(* Proofs about the Naryo client (module NaryoClient), for any number of   *)
(* sessions, identifiers, lists of subscriptions, stops and failures.      *)
(***************************************************************************)
EXTENDS NaryoClient, FoldLemmas

USE NaryoClientAssumption, NoneAssumption

(***************************************************************************)
(* Types, and the call that holds the mutex                                *)
(***************************************************************************)

\* e is an entry, and what it has of its own is session s's.
EntryOf(s, e) ==
    /\ e \in Entry
    /\ e.broadcaster # None => e.broadcaster.of = s
    /\ e.filter # None => e.filter.of = s

Provisioning == call.at \in {"config", "filter", "broadcaster"}

\* What the call that holds the mutex has got so far is in its session's entry.
CallConsistent ==
    /\ ~Provisioning => call.on = None /\ call.made = {}
    /\ Provisioning =>
         /\ call.on \in Sessions
         /\ entry[call.on] # None
         /\ entry[call.on].broadcaster = None
    /\ call.at \in {"config", "filter"} =>
         entry[call.on].plan = call.plan /\ call.made = {}
    /\ call.at \in {"filter", "broadcaster"} => entry[call.on].config # None
    /\ call.at = "broadcaster" /\ entry[call.on].plan # AllEvents =>
         entry[call.on].filter # None

Shape == TypeOK /\ CallConsistent

LEMMA EntryType ==
    ASSUME TypeOK, NEW s \in Sessions, entry[s] # None
    PROVE  EntryOf(s, entry[s])
  BY DEF TypeOK, EntryOf

\* The entry of one session is replaced by another of its own.
LEMMA EntryReplaced ==
    ASSUME TypeOK, NEW s \in Sessions, NEW e, EntryOf(s, e),
           entry' = [entry EXCEPT ![s] = e]
    PROVE  /\ entry' \in [Sessions -> Entry \union {None}]
           /\ \A t \in Sessions : entry'[t] # None => EntryOf(t, entry'[t])
  BY DEF TypeOK, EntryOf

LEMMA NewIds ==
    /\ NewBroadcasterId \subseteq BroadcasterIds
    /\ NewFilterId \subseteq FilterIds
    /\ NewConfig \subseteq ConfigIds
  BY DEF NewBroadcasterId, NewFilterId, NewConfig

LEMMA FailureCount ==
    ASSUME TypeOK, Fails \/ NoFailure
    PROVE  failures' \in 0 .. MaxFailures
  BY DEF TypeOK, Fails, NoFailure

\* The entries that name a target of a kind have a first one.
LEMMA FirstNamed ==
    ASSUME NEW kind, NEW subs \in Seq(Subscription), Naming(kind, subs) # {}
    PROVE  /\ Min(Naming(kind, subs)) \in Naming(kind, subs)
           /\ \A i \in Naming(kind, subs) : Min(Naming(kind, subs)) <= i
<1> DEFINE N == Naming(kind, subs)
<1>1. N \in SUBSET Nat /\ N # {}
  BY DEF Naming
<1>2. \E x \in N : \A y \in N : x <= y
  <2> HIDE DEF N
  <2> QED BY <1>1, LeastExists
<1> QED
  BY <1>2 DEF Min

\* A list has a plan, or is refused.
LEMMA PlanType ==
    ASSUME NEW subs \in Requested, Plan(subs) # NoPlan
    PROVE  Plan(subs) \in Plans
<1> DEFINE first(kind) == subs[Min(Naming(kind, subs))]
<1>1. subs \in Seq(Subscription)
  OBVIOUS
<1>2. ASSUME NEW kind, Naming(kind, subs) # {}
      PROVE  first(kind) \in Subscription /\ first(kind).kind = kind /\ first(kind).target # Unset
  <2> DEFINE m == Min(Naming(kind, subs))
  <2>1. m \in Naming(kind, subs)
    BY <1>1, <1>2, FirstNamed
  <2> HIDE DEF m
  <2>2. m \in DOMAIN subs /\ subs[m].kind = kind /\ subs[m].target # Unset
    BY <2>1 DEF Naming
  <2>3. subs[m] \in Subscription
    BY <1>1, <2>2
  <2> QED
    BY <2>2, <2>3 DEF m
<1>3. Naming("hedera_hcs_topic", subs) # {} => first("hedera_hcs_topic").target \in Topics
  BY <1>2 DEF Subscription
<1>4. Naming("erc20_transfer", subs) # {} => first("erc20_transfer").target \in Contracts
  BY <1>2 DEF Subscription
<1>5. DefaultTopic # Unset => DefaultTopic \in Topics
  BY FilterPlanAssumption
<1> QED
  BY <1>3, <1>4, <1>5 DEF Plan, Plans, Scoped

LEMMA ShapeInit == Init => Shape
  BY DEF Init, Shape, TypeOK, CallConsistent, Provisioning, Idle, Call, Plans

LEMMA ShapeBegins ==
    ASSUME Shape, NEW s \in Sessions, NEW subs \in Requested, EnsureBegins(s, subs)
    PROVE  Shape'
<1> DEFINE p == Plan(subs)
           e == IF entry[s] = None THEN NewEntry ELSE entry[s]
           f == [e EXCEPT !.broadcaster = None, !.plan = p,
                          !.filter = IF e.plan # p THEN None ELSE @]
<1>1. p \in Plans
  BY PlanType DEF EnsureBegins
<1>2. EntryOf(s, e)
  BY EntryType DEF Shape, EntryOf, NewEntry, Entry
<1>3. EntryOf(s, f) /\ f.broadcaster = None /\ f.plan = p
  BY <1>1, <1>2 DEF EntryOf, Entry
<1>4. entry' = [entry EXCEPT ![s] = f]
  BY DEF EnsureBegins
<1>5. call' = [at |-> "config", on |-> s, plan |-> p,
               before |-> IF e.broadcaster = None THEN None ELSE e.broadcaster.id, made |-> {}]
  BY DEF EnsureBegins
<1>6. call' \in Call
  BY <1>1, <1>2, <1>5 DEF EntryOf, Entry, Broadcaster, Call
<1>7. filters' \subseteq filters /\ mislaid' \subseteq Sessions
  BY DEF EnsureBegins, DropFilter, Mislay, Shape, TypeOK
<1>8. failures' \in 0 .. MaxFailures
  BY FailureCount DEF EnsureBegins, DropFilter, Shape, Fails, NoFailure
<1>9. TypeOK'
  BY <1>3, <1>4, <1>6, <1>7, <1>8, EntryReplaced DEF Shape, TypeOK, EntryOf, EnsureBegins
<1>10. CallConsistent'
  BY <1>3, <1>4, <1>5 DEF CallConsistent, Provisioning, Shape, TypeOK, EntryOf, Entry
<1> QED
  BY <1>9, <1>10 DEF Shape

\* What a step leaves at Naryo has its type.
NaryoTyped ==
    /\ configs' \subseteq ConfigIds
    /\ filters' \subseteq Filter
    /\ broadcasters' \subseteq Broadcaster
    /\ failures' \in 0 .. MaxFailures
    /\ mislaid' \subseteq Sessions

\* A call may go on to step at with entry e.
Ready(at, e) ==
    /\ e.broadcaster = None
    /\ e.config # None
    /\ \/ at = "filter" /\ e.plan = call.plan /\ call.made = {}
       \/ at = "broadcaster" /\ (e.plan # AllEvents => e.filter # None)

LEMMA ShapeOnward ==
    ASSUME Shape, Provisioning, NEW at, NEW e, EntryOf(call.on, e), Ready(at, e),
           Onward(at, e), NaryoTyped, UNCHANGED <<removing, fixed>>
    PROVE  Shape'
<1>1. call.on \in Sessions /\ call \in Call
  BY DEF Shape, CallConsistent, TypeOK
<1>2. entry' = [entry EXCEPT ![call.on] = e] /\ call' = [call EXCEPT !.at = at]
  BY DEF Onward
<1>3. entry'[call.on] = e /\ e # None
  BY <1>1, <1>2 DEF Shape, TypeOK, EntryOf
<1>4. call' \in Call /\ call'.at = at /\ call'.on = call.on /\ call'.plan = call.plan
        /\ call'.made = call.made
  BY <1>1, <1>2 DEF Call, Ready
<1>5. TypeOK'
  BY <1>1, <1>2, <1>4, EntryReplaced DEF Shape, TypeOK, EntryOf, NaryoTyped
<1>6. CallConsistent'
  BY <1>1, <1>3, <1>4 DEF CallConsistent, Provisioning, Ready
<1> QED
  BY <1>5, <1>6 DEF Shape

LEMMA ShapeReturn ==
    ASSUME Shape, Provisioning, NEW e, EntryOf(call.on, e),
           Return(e), NaryoTyped, UNCHANGED <<removing, fixed>>
    PROVE  Shape'
<1>1. call.on \in Sessions
  BY DEF Shape, CallConsistent
<1>2. entry' = [entry EXCEPT ![call.on] = e] /\ call' = Idle
  BY DEF Return
<1>3. call' \in Call
  BY <1>2 DEF Idle, Call, Plans
<1>4. TypeOK'
  BY <1>1, <1>2, <1>3, EntryReplaced DEF Shape, TypeOK, EntryOf, NaryoTyped
<1>5. CallConsistent'
  BY <1>2 DEF CallConsistent, Provisioning, Idle
<1> QED
  BY <1>4, <1>5 DEF Shape

LEMMA ShapeEnsure == ASSUME Shape, EnsureStep PROVE Shape'
<1> DEFINE s == call.on
           e == entry[s]
<1>1. Provisioning /\ s \in Sessions /\ e # None /\ e.broadcaster = None
  BY DEF Shape, CallConsistent, Provisioning, EnsureStep, ConfigReady, ConfigAttached, ConfigFails,
         FilterReady, FilterMade, FilterFails, FilterFallsBack,
         BroadcasterMade, BroadcasterFails, BroadcasterFallsBack
<1>2. EntryOf(s, e)
  BY <1>1, EntryType DEF Shape
<1>3. /\ call.at = "config" => e.plan = call.plan /\ call.made = {}
      /\ call.at = "filter" => e.plan = call.plan /\ call.made = {} /\ e.config # None
      /\ call.at = "broadcaster" => e.config # None /\ (e.plan # AllEvents => e.filter # None)
  BY DEF Shape, CallConsistent
<1>4. ASSUME NEW c \in ConfigIds, NEW b \in BOOLEAN
      PROVE  EntryOf(s, [e EXCEPT !.config = c, !.shared = b])
               /\ EntryOf(s, [e EXCEPT !.config = c])
  BY <1>2 DEF EntryOf, Entry
<1>5. CASE ConfigReady
  <2>1. NaryoTyped
    BY <1>5, NewIds DEF ConfigReady, NaryoTyped, Shape, TypeOK
  <2>2. CASE e.config # None /\ Onward("filter", e)
    BY <1>1, <1>2, <1>3, <1>5, <2>1, <2>2, ShapeOnward DEF Ready, ConfigReady
  <2>3. CASE e.config = None /\ fixed # None
               /\ Onward("filter", [e EXCEPT !.config = fixed, !.shared = TRUE])
    <3>1. fixed \in ConfigIds
      BY <2>3 DEF Shape, TypeOK
    <3>2. Ready("filter", [e EXCEPT !.config = fixed, !.shared = TRUE])
      BY <1>1, <1>2, <1>3, <1>5, <2>3 DEF Ready, EntryOf, Entry, ConfigReady
    <3> QED
      BY <1>1, <1>4, <1>5, <2>1, <2>3, <3>1, <3>2, ShapeOnward DEF ConfigReady
  <2>4. CASE \E c \in NewConfig : Onward("filter", [e EXCEPT !.config = c])
    <3>1. PICK c \in NewConfig : Onward("filter", [e EXCEPT !.config = c])
      BY <2>4
    <3>2. Ready("filter", [e EXCEPT !.config = c])
      BY <1>1, <1>2, <1>3, <1>5, NewIds DEF Ready, EntryOf, Entry, ConfigReady
    <3> QED
      BY <1>1, <1>4, <1>5, <2>1, <3>1, <3>2, NewIds, ShapeOnward DEF ConfigReady
  <2> QED
    BY <1>5, <2>2, <2>3, <2>4 DEF ConfigReady
<1>6. CASE ConfigAttached
  <2>1. NaryoTyped
    BY <1>6, FailureCount DEF ConfigAttached, NaryoTyped, naryoVars, Shape, TypeOK
  <2>2. PICK c \in configs : Onward("filter", [e EXCEPT !.config = c, !.shared = TRUE])
    BY <1>6 DEF ConfigAttached
  <2>3. c \in ConfigIds
    BY <2>2 DEF Shape, TypeOK
  <2>4. Ready("filter", [e EXCEPT !.config = c, !.shared = TRUE])
    BY <1>1, <1>2, <1>3, <1>6, <2>3 DEF Ready, EntryOf, Entry, ConfigAttached
  <2> QED
    BY <1>1, <1>4, <1>6, <2>1, <2>2, <2>3, <2>4, ShapeOnward DEF ConfigAttached
<1>7. CASE ConfigFails
  <2>1. NaryoTyped
    BY <1>7, FailureCount, NewIds DEF ConfigFails, NaryoTyped, Shape, TypeOK
  <2> QED
    BY <1>1, <1>2, <1>7, <2>1, ShapeReturn DEF ConfigFails
<1>8. CASE FilterReady
  <2>1. NaryoTyped
    BY <1>8 DEF FilterReady, NaryoTyped, naryoVars, Shape, TypeOK
  <2>2. Ready("broadcaster", e)
    BY <1>1, <1>3, <1>8 DEF FilterReady, Ready, Shape, TypeOK
  <2> QED
    BY <1>1, <1>2, <1>8, <2>1, <2>2, ShapeOnward DEF FilterReady
<1>9. CASE FilterMade
  <2>1. \A n \in NewFilterId : [id |-> n, of |-> s, plan |-> call.plan] \in Filter
    BY <1>1, <1>9, NewIds DEF FilterMade, Filter, Shape, TypeOK, Call, Plans
  <2>2. filters' \subseteq Filter
    BY <1>9, <2>1 DEF FilterMade, Shape, TypeOK
  <2>3. NaryoTyped
    BY <1>1, <1>9, <2>2, FailureCount DEF FilterMade, NaryoTyped, Shape, TypeOK
  <2>4. PICK found \in SameName(s, call.plan) :
               Onward("broadcaster", [e EXCEPT !.filter = found])
    BY <1>9 DEF FilterMade
  <2>5. found \in Filter /\ found.of = s /\ found # None
    BY <2>2, <2>4 DEF SameName
  <2>6. EntryOf(s, [e EXCEPT !.filter = found])
    BY <1>2, <2>5 DEF EntryOf, Entry
  <2>7. Ready("broadcaster", [e EXCEPT !.filter = found])
    BY <1>1, <1>2, <1>3, <1>9, <2>5 DEF FilterMade, Ready, EntryOf, Entry
  <2> QED
    BY <1>1, <1>9, <2>3, <2>4, <2>6, <2>7, ShapeOnward DEF FilterMade
<1>10. ASSUME FilterFails \/ FilterFallsBack
       PROVE  NaryoTyped
  <2>1. \A n \in NewFilterId : [id |-> n, of |-> s, plan |-> call.plan] \in Filter
    BY <1>1, <1>10, NewIds DEF FilterFails, FilterFallsBack, Filter, Shape, TypeOK, Call, Plans
  <2>2. PostedInVain
    BY <1>10 DEF FilterFails, FilterFallsBack
  <2>3. filters' \subseteq Filter /\ mislaid' \subseteq Sessions
    BY <1>1, <2>1, <2>2 DEF PostedInVain, Mislay, Shape, TypeOK
  <2> QED
    BY <1>10, <2>3, FailureCount DEF FilterFails, FilterFallsBack, NaryoTyped, Shape, TypeOK
<1>11. CASE FilterFails
  <2>1. EntryOf(s, [e EXCEPT !.filter = None])
    BY <1>2 DEF EntryOf, Entry
  <2> QED
    BY <1>1, <1>10, <1>11, <2>1, ShapeReturn DEF FilterFails
<1>12. CASE FilterFallsBack
  <2>1. EntryOf(s, [e EXCEPT !.filter = None, !.plan = AllEvents])
    BY <1>2 DEF EntryOf, Entry, Plans
  <2>2. Ready("broadcaster", [e EXCEPT !.filter = None, !.plan = AllEvents])
    BY <1>1, <1>2, <1>3, <1>12 DEF FilterFallsBack, Ready, EntryOf, Entry
  <2> QED
    BY <1>1, <1>10, <1>12, <2>1, <2>2, ShapeOnward DEF FilterFallsBack
<1>13. ASSUME call.at = "broadcaster", NEW n \in NewBroadcasterId
       PROVE  MadeOne(e, n) \in Broadcaster
  BY <1>2, <1>3, <1>13, <1>1, NewIds DEF MadeOne, Target, Broadcaster, EntryOf, Entry, Filter
<1>14. CASE BroadcasterMade
  <2>1. broadcasters' \subseteq Broadcaster
    BY <1>13, <1>14 DEF BroadcasterMade, Shape, TypeOK
  <2>2. NaryoTyped
    BY <1>14, <2>1 DEF BroadcasterMade, NaryoTyped, Shape, TypeOK
  <2>3. PICK b \in Found(e) : Return([e EXCEPT !.broadcaster = b])
    BY <1>14 DEF BroadcasterMade
  <2>4. b \in Broadcaster /\ b.of = s
    BY <2>1, <2>3 DEF Found
  <2>5. EntryOf(s, [e EXCEPT !.broadcaster = b])
    BY <1>2, <2>4 DEF EntryOf, Entry
  <2> QED
    BY <1>1, <1>14, <2>2, <2>3, <2>5, ShapeReturn DEF BroadcasterMade
<1>15. CASE BroadcasterFails
  <2>1. broadcasters' \subseteq Broadcaster
    BY <1>13, <1>15 DEF BroadcasterFails, MaybeMade, Shape, TypeOK
  <2>2. NaryoTyped
    BY <1>15, <2>1, FailureCount DEF BroadcasterFails, NaryoTyped, Shape, TypeOK
  <2> QED
    BY <1>1, <1>2, <1>15, <2>2, ShapeReturn DEF BroadcasterFails
<1>16. CASE BroadcasterFallsBack
  <2> DEFINE f == [e EXCEPT !.filter = None, !.plan = AllEvents]
  <2>1. PICK n \in NewBroadcasterId \union {None} :
          /\ broadcasters' = IF n = None THEN broadcasters
                                         ELSE broadcasters \union {MadeOne(e, n)}
          /\ entry' = [entry EXCEPT ![s] = f]
          /\ call' = [call EXCEPT !.made = @ \union ({n} \ {None})]
    BY <1>16 DEF BroadcasterFallsBack
  <2>2. broadcasters' \subseteq Broadcaster
    BY <1>13, <1>16, <2>1 DEF BroadcasterFallsBack, Shape, TypeOK
  <2>3. filters' \subseteq Filter /\ mislaid' \subseteq Sessions
    BY <1>1, <1>16 DEF BroadcasterFallsBack, Mislay, Shape, TypeOK
  <2>4. /\ EntryOf(s, f)
        /\ f.broadcaster = None /\ f.config # None /\ f.plan = AllEvents
    BY <1>1, <1>2, <1>3, <1>16 DEF BroadcasterFallsBack, EntryOf, Entry, Plans
  <2>5. call' \in Call /\ call'.at = "broadcaster" /\ call'.on = s
    BY <1>16, <2>1, NewIds DEF BroadcasterFallsBack, Shape, TypeOK, Call
  <2>6. TypeOK'
    BY <1>1, <1>16, <2>1, <2>2, <2>3, <2>4, <2>5, EntryReplaced, FailureCount
    DEF Shape, TypeOK, EntryOf, BroadcasterFallsBack
  <2>7. entry'[s] = f
    BY <1>1, <2>1 DEF Shape, TypeOK
  <2>8. CallConsistent'
    BY <1>1, <2>4, <2>5, <2>7 DEF CallConsistent, Provisioning, EntryOf
  <2> QED
    BY <2>6, <2>8 DEF Shape
<1> QED
  BY <1>5, <1>6, <1>7, <1>8, <1>9, <1>11, <1>12, <1>14, <1>15, <1>16 DEF EnsureStep

LEMMA ShapeOutside ==
    ASSUME Shape, NEW s \in Sessions, PauseDetaches(s) \/ PauseFails(s) \/ StopTakes(s)
    PROVE  Shape'
<1>1. entry[s] # None /\ EntryOf(s, entry[s]) /\ ~Provisioning
  BY EntryType DEF PauseDetaches, PauseFails, StopTakes, HasBroadcaster, Shape, Provisioning
<1>2. CASE PauseDetaches(s)
  <2> DEFINE e == [entry[s] EXCEPT !.broadcaster = None]
  <2>1. EntryOf(s, e)
    BY <1>1 DEF EntryOf, Entry
  <2>2. entry' = [entry EXCEPT ![s] = e]
    BY <1>2 DEF PauseDetaches
  <2>3. TypeOK'
    BY <1>2, <2>1, <2>2, EntryReplaced DEF PauseDetaches, Shape, TypeOK, EntryOf
  <2>4. CallConsistent'
    BY <1>1, <1>2 DEF PauseDetaches, CallConsistent, Provisioning, Shape
  <2> QED
    BY <2>3, <2>4 DEF Shape
<1>3. CASE PauseFails(s)
  <2>1. TypeOK'
    BY <1>3, FailureCount DEF PauseFails, Shape, TypeOK
  <2>2. CallConsistent'
    BY <1>1, <1>3 DEF PauseFails, CallConsistent, Provisioning, Shape
  <2> QED
    BY <2>1, <2>2 DEF Shape
<1>4. CASE StopTakes(s)
  <2>1. RemovalOf(s) \in Removal
    BY <1>1 DEF RemovalOf, Removal, EntryOf, Entry
  <2>2. entry' \in [Sessions -> Entry \union {None}]
          /\ \A t \in Sessions : entry'[t] # None => entry'[t] = entry[t]
    BY <1>4 DEF StopTakes, Shape, TypeOK
  <2>3. TypeOK'
    BY <1>4, <2>1, <2>2 DEF StopTakes, naryoVars, Shape, TypeOK
  <2>4. CallConsistent'
    BY <1>1, <1>4 DEF StopTakes, CallConsistent, Provisioning, Shape
  <2> QED
    BY <2>3, <2>4 DEF Shape
<1> QED
  BY <1>2, <1>3, <1>4

LEMMA ShapeStop == ASSUME Shape, NEW r \in removing, StopStep(r) PROVE Shape'
<1>1. r \in Removal
  BY DEF Shape, TypeOK
<1>2. \A r2 \in Removal : Removed(r, r2) => removing' \subseteq Removal
  BY DEF Removed, Shape, TypeOK
<1>3. ASSUME UNCHANGED <<entry, call>>
      PROVE  CallConsistent'
  BY <1>3 DEF CallConsistent, Provisioning, Shape
<1>4. CASE StopDeletesBroadcaster(r)
  <2>1. [r EXCEPT !.broadcaster = None] \in Removal
    BY <1>1 DEF Removal
  <2>2. TypeOK'
    BY <1>2, <1>4, <2>1, FailureCount DEF StopDeletesBroadcaster, Shape, TypeOK
  <2> QED
    BY <1>3, <1>4, <2>2 DEF StopDeletesBroadcaster, Shape
<1>5. CASE StopDeletesFilter(r)
  <2>1. [r EXCEPT !.filter = None] \in Removal
    BY <1>1 DEF Removal
  <2>2. TypeOK'
    BY <1>1, <1>2, <1>5, <2>1, FailureCount DEF StopDeletesFilter, Mislay, Removal, Shape, TypeOK
  <2> QED
    BY <1>3, <1>5, <2>2 DEF StopDeletesFilter, Shape
<1>6. CASE StopDeletesConfig(r)
  <2>1. [r EXCEPT !.config = None] \in Removal
    BY <1>1 DEF Removal
  <2>2. TypeOK'
    BY <1>2, <1>6, <2>1, FailureCount DEF StopDeletesConfig, Shape, TypeOK
  <2> QED
    BY <1>3, <1>6, <2>2 DEF StopDeletesConfig, Shape
<1>7. CASE StopCounts(r)
  <2>1. call' \in Call /\ call'.at = "clearErr" /\ call'.on = call.on /\ call'.made = call.made
    BY <1>7 DEF StopCounts, Shape, TypeOK, Call
  <2>2. TypeOK'
    BY <1>7, <2>1 DEF StopCounts, naryoVars, Shape, TypeOK
  <2>3. CallConsistent'
    BY <1>7, <2>1 DEF StopCounts, CallConsistent, Provisioning, Shape
  <2> QED
    BY <2>2, <2>3 DEF Shape
<1> QED
  BY <1>4, <1>5, <1>6, <1>7 DEF StopStep

LEMMA ShapeStep == Shape /\ [Next]_vars => Shape'
<1> SUFFICES ASSUME Shape, [Next]_vars
             PROVE  Shape'
  OBVIOUS
<1>1. CASE Next
  BY <1>1, ShapeBegins, ShapeEnsure, ShapeOutside, ShapeStop DEF Next
<1>2. CASE UNCHANGED vars
  BY <1>2 DEF vars, naryoVars, Shape, TypeOK, CallConsistent, Provisioning
<1> QED
  BY <1>1, <1>2

\* Types are kept, and a call never loses what it works with: the entry of its
\* session is there, with a configuration and a filter where they are needed.
THEOREM ShapeInvariant == Spec => []Shape
  BY ShapeInit, ShapeStep, PTL DEF Spec

\* What an entry has of its own is its session's: no lookup by name, path or
\* target gives a session what belongs to another.
THEOREM TypeCorrect == Spec => []TypeOK
<1>1. Shape => TypeOK
  BY DEF Shape
<1> QED
  BY <1>1, ShapeInvariant, PTL

(***************************************************************************)
(* Configurations                                                          *)
(***************************************************************************)

Owns(s) == entry[s] # None /\ entry[s].config # None /\ ~entry[s].shared

\* A configuration that a session made for itself is its own: it is at Naryo,
\* no other session has made it, and no stop is about to delete it.
Ownership ==
    /\ Leftover \subseteq configs
    /\ \A s \in Sessions : Owns(s) => entry[s].config \in configs \ Leftover
    /\ \A s, t \in Sessions :
         Owns(s) /\ Owns(t) /\ s # t => entry[s].config # entry[t].config
    /\ \A r \in removing : r.config # None =>
         /\ r.config \notin Leftover
         /\ \A s \in Sessions : Owns(s) => entry[s].config # r.config

\* No session comes to own a configuration, none goes, and stops have no more
\* to delete.
NoneOwned ==
    /\ configs \subseteq configs'
    /\ \A s \in Sessions : Owns(s)' => Owns(s) /\ entry'[s].config = entry[s].config
    /\ \A r \in removing' : r.config # None =>
         \E q \in removing : q.config = r.config

LEMMA OwnershipKept == ASSUME Ownership, NoneOwned PROVE Ownership'
  BY DEF Ownership, NoneOwned

LEMMA OwnershipInit == Init => Ownership
  BY DEF Init, Ownership, Owns

LEMMA NoneOwnedByEntry ==
    ASSUME Shape, NEW s \in Sessions, NEW e, entry' = [entry EXCEPT ![s] = e],
           e # None /\ e.config # None /\ ~e.shared => Owns(s) /\ e.config = entry[s].config,
           configs \subseteq configs', removing' = removing
    PROVE  NoneOwned
  BY DEF NoneOwned, Owns, Shape, TypeOK

LEMMA OwnershipEnsure ==
    ASSUME Shape, Ownership, EnsureStep
    PROVE  Ownership'
<1> DEFINE s == call.on
           e == entry[s]
<1>1. s \in Sessions /\ e # None /\ EntryOf(s, e)
  BY EntryType DEF Shape, CallConsistent, Provisioning, EnsureStep, ConfigReady, ConfigAttached,
         ConfigFails, FilterReady, FilterMade, FilterFails, FilterFallsBack,
         BroadcasterMade, BroadcasterFails, BroadcasterFallsBack
<1>2. ASSUME NEW f, f = e \/ f.shared \/ (f.config = e.config /\ f.shared = e.shared),
             entry' = [entry EXCEPT ![s] = f],
             configs \subseteq configs', removing' = removing
      PROVE  Ownership'
  BY <1>1, <1>2, NoneOwnedByEntry, OwnershipKept DEF Owns
<1>3. CASE ConfigReady
  <2>1. CASE e.config # None /\ Onward("filter", e) /\ UNCHANGED configs
    BY <1>2, <1>3, <2>1 DEF ConfigReady, Onward
  <2>2. CASE /\ Onward("filter", [e EXCEPT !.config = fixed, !.shared = TRUE])
             /\ UNCHANGED configs
    BY <1>1, <1>2, <1>3, <2>2 DEF ConfigReady, Onward, EntryOf, Entry
  <2>3. CASE /\ e.config = None /\ fixed = None
             /\ \E c \in NewConfig :
                  /\ configs' = configs \union {c}
                  /\ Onward("filter", [e EXCEPT !.config = c])
    <3>1. PICK c \in NewConfig :
                  /\ configs' = configs \union {c}
                  /\ entry' = [entry EXCEPT ![s] = [e EXCEPT !.config = c]]
      BY <2>3 DEF Onward
    <3>2. /\ c \notin configs
          /\ \A t \in Sessions : entry[t] # None => entry[t].config # c
          /\ \A r \in removing : r.config # c
      BY DEF NewConfig, Held
    <3>3. \A t \in Sessions : t # s => entry'[t] = entry[t]
      BY <1>1, <3>1 DEF Shape, TypeOK
    <3>4. entry'[s].config = c
      BY <1>1, <3>1 DEF Shape, TypeOK, EntryOf, Entry
    <3>5. \A t \in Sessions : t # s => (Owns(t)' <=> Owns(t))
      BY <3>3 DEF Owns
    <3>6. removing' = removing
      BY <1>3 DEF ConfigReady
    <3> QED
      BY <3>1, <3>2, <3>3, <3>4, <3>5, <3>6 DEF Ownership, Owns
  <2> QED
    BY <1>3, <2>1, <2>2, <2>3 DEF ConfigReady
<1>4. CASE ConfigAttached
  <2>1. PICK c \in configs : entry' = [entry EXCEPT ![s] = [e EXCEPT !.config = c, !.shared = TRUE]]
    BY <1>4 DEF ConfigAttached, Onward
  <2>2. [e EXCEPT !.config = c, !.shared = TRUE].shared
    BY <1>1 DEF EntryOf, Entry
  <2> QED
    BY <1>2, <1>4, <2>1, <2>2 DEF ConfigAttached, naryoVars
<1>5. CASE ConfigFails
  BY <1>2, <1>5 DEF ConfigFails, Return
<1>6. CASE FilterReady
  BY <1>2, <1>6 DEF FilterReady, Onward, naryoVars
<1>7. CASE FilterMade
  <2>1. PICK f \in SameName(s, call.plan) : entry' = [entry EXCEPT ![s] = [e EXCEPT !.filter = f]]
    BY <1>7 DEF FilterMade, Onward
  <2> QED
    BY <1>1, <1>2, <1>7, <2>1 DEF FilterMade, EntryOf, Entry
<1>8. CASE FilterFails
  BY <1>1, <1>2, <1>8 DEF FilterFails, Return, EntryOf, Entry
<1>9. CASE FilterFallsBack
  BY <1>1, <1>2, <1>9 DEF FilterFallsBack, Onward, EntryOf, Entry
<1>10. CASE BroadcasterMade
  <2>1. PICK b \in Found(e) : entry' = [entry EXCEPT ![s] = [e EXCEPT !.broadcaster = b]]
    BY <1>10 DEF BroadcasterMade, Return
  <2> QED
    BY <1>1, <1>2, <1>10, <2>1 DEF BroadcasterMade, EntryOf, Entry
<1>11. CASE BroadcasterFails
  BY <1>2, <1>11 DEF BroadcasterFails, Return
<1>12. CASE BroadcasterFallsBack
  <2>1. entry' = [entry EXCEPT ![s] = [e EXCEPT !.filter = None, !.plan = AllEvents]]
    BY <1>12 DEF BroadcasterFallsBack
  <2> QED
    BY <1>1, <1>2, <1>12, <2>1 DEF BroadcasterFallsBack, EntryOf, Entry
<1> QED
  BY <1>3, <1>4, <1>5, <1>6, <1>7, <1>8, <1>9, <1>10, <1>11, <1>12 DEF EnsureStep

LEMMA OwnershipOutside ==
    ASSUME Shape, Ownership, NEW s \in Sessions,
           \/ \E subs \in Requested : EnsureBegins(s, subs)
           \/ PauseDetaches(s)
           \/ PauseFails(s)
           \/ StopTakes(s)
    PROVE  Ownership'
<1>1. CASE \E subs \in Requested : EnsureBegins(s, subs)
  <2>1. PICK subs \in Requested : EnsureBegins(s, subs)
    BY <1>1
  <2> DEFINE e == IF entry[s] = None THEN NewEntry ELSE entry[s]
             f == [e EXCEPT !.broadcaster = None, !.plan = Plan(subs),
                            !.filter = IF e.plan # Plan(subs) THEN None ELSE @]
  <2>2. entry' = [entry EXCEPT ![s] = f] /\ configs' = configs /\ removing' = removing
    BY <2>1 DEF EnsureBegins
  <2>3. EntryOf(s, e)
    BY EntryType DEF Shape, EntryOf, NewEntry, Entry
  <2>4. f.config = e.config /\ f.shared = e.shared
    BY <2>3 DEF EntryOf, Entry
  <2>5. f # None /\ f.config # None /\ ~f.shared => Owns(s) /\ f.config = entry[s].config
    BY <2>4 DEF Owns, NewEntry
  <2> QED
    BY <2>2, <2>5, NoneOwnedByEntry, OwnershipKept
<1>2. CASE PauseDetaches(s)
  <2> DEFINE f == [entry[s] EXCEPT !.broadcaster = None]
  <2>1. entry[s] # None /\ EntryOf(s, entry[s])
    BY <1>2, EntryType DEF PauseDetaches, HasBroadcaster, Shape
  <2>2. f.config = entry[s].config /\ f.shared = entry[s].shared
    BY <2>1 DEF EntryOf, Entry
  <2>3. entry' = [entry EXCEPT ![s] = f] /\ configs' = configs /\ removing' = removing
    BY <1>2 DEF PauseDetaches
  <2>4. f # None /\ f.config # None /\ ~f.shared => Owns(s) /\ f.config = entry[s].config
    BY <2>1, <2>2 DEF Owns
  <2> QED
    BY <2>3, <2>4, NoneOwnedByEntry, OwnershipKept
<1>3. CASE PauseFails(s)
  BY <1>3 DEF PauseFails, Ownership, Owns
<1>4. CASE StopTakes(s)
  <2>1. /\ entry' = [entry EXCEPT ![s] = None]
        /\ removing' = removing \union {RemovalOf(s)}
        /\ configs' = configs
        /\ entry[s] # None
    BY <1>4 DEF StopTakes, naryoVars
  <2>2. ~Owns(s)' /\ \A t \in Sessions : t # s => entry'[t] = entry[t]
    BY <2>1 DEF Owns, Shape, TypeOK
  <2>3. RemovalOf(s).config # None => Owns(s) /\ RemovalOf(s).config = entry[s].config
    BY <2>1 DEF RemovalOf, Owns
  <2>4. \A t \in Sessions : Owns(t)' => t # s /\ Owns(t) /\ entry'[t].config = entry[t].config
    BY <2>2 DEF Owns
  <2> QED
    BY <2>1, <2>3, <2>4 DEF Ownership
<1> QED
  BY <1>1, <1>2, <1>3, <1>4

LEMMA OwnershipStop ==
    ASSUME Shape, Ownership, NEW r \in removing, StopStep(r)
    PROVE  Ownership'
<1>1. r \in Removal
  BY DEF Shape, TypeOK
<1>2. \A s \in Sessions : entry'[s] = entry[s] /\ (Owns(s)' <=> Owns(s))
  BY DEF StopStep, StopDeletesBroadcaster, StopDeletesFilter, StopDeletesConfig, StopCounts, Owns
<1>3. CASE StopDeletesBroadcaster(r)
  <2>1. removing' = (removing \ {r}) \union {[r EXCEPT !.broadcaster = None]} /\ configs' = configs
    BY <1>3 DEF StopDeletesBroadcaster, Removed
  <2>2. [r EXCEPT !.broadcaster = None].config = r.config
    BY <1>1 DEF Removal
  <2> QED
    BY <1>2, <2>1, <2>2 DEF Ownership
<1>4. CASE StopDeletesFilter(r)
  <2>1. removing' = (removing \ {r}) \union {[r EXCEPT !.filter = None]} /\ configs' = configs
    BY <1>4 DEF StopDeletesFilter, Removed
  <2>2. [r EXCEPT !.filter = None].config = r.config
    BY <1>1 DEF Removal
  <2> QED
    BY <1>2, <2>1, <2>2 DEF Ownership
<1>5. CASE StopDeletesConfig(r)
  <2>1. /\ removing' = (removing \ {r}) \union {[r EXCEPT !.config = None]}
        /\ configs' \in {configs, configs \ {r.config}}
        /\ r.config # None
    BY <1>5 DEF StopDeletesConfig, Removed
  <2>2. [r EXCEPT !.config = None].config = None
    BY <1>1 DEF Removal
  <2> QED
    BY <1>2, <2>1, <2>2 DEF Ownership
<1>6. CASE StopCounts(r)
  BY <1>2, <1>6 DEF StopCounts, naryoVars, Ownership
<1> QED
  BY <1>3, <1>4, <1>5, <1>6 DEF StopStep

\* Whatever other sessions make, take or stop, a configuration that a session
\* made for itself, or that was there before, is at Naryo as long as the
\* session has an entry.
THEOREM OwnConfigurationKeptCorrect == Spec => []OwnConfigurationKept
<1>1. Shape /\ Ownership /\ [Next]_vars => Ownership'
  <2> SUFFICES ASSUME Shape, Ownership, [Next]_vars
               PROVE  Ownership'
    OBVIOUS
  <2>1. CASE Next
    BY <2>1, OwnershipEnsure, OwnershipOutside, OwnershipStop DEF Next
  <2>2. CASE UNCHANGED vars
    BY <2>2 DEF vars, naryoVars, Ownership, Owns
  <2> QED
    BY <2>1, <2>2
<1>2. Ownership => OwnConfigurationKept
  BY DEF Ownership, OwnConfigurationKept, Owns
<1> QED
  BY <1>1, <1>2, OwnershipInit, ShapeInvariant, PTL DEF Spec

(***************************************************************************)
(* Filters                                                                 *)
(***************************************************************************)

FiltersOf(s) == {f \in filters : f.of = s}

\* Filter, or None, of session s.
Kept(s) == IF entry[s] = None THEN {} ELSE {entry[s].filter}

\* Filters, or None, of the stops of session s.
Going(s) == {r.filter : r \in {x \in removing : x.of = s}}

\* Naryo's filters for session s are its entry's or a stop's.  Its entry's is
\* there, is the plan's, and is not a stop's too.  Its broadcaster refers to it.
InScope(s) ==
    /\ FiltersOf(s) \subseteq Kept(s) \union Going(s)
    /\ entry[s] # None =>
         /\ entry[s].filter # None =>
              /\ entry[s].filter \in filters
              /\ entry[s].filter \notin Going(s)
              /\ entry[s].filter.plan = entry[s].plan
         /\ entry[s].broadcaster # None =>
              IF entry[s].plan = AllEvents
                THEN entry[s].broadcaster.target = AllEvents
                ELSE /\ entry[s].filter # None
                     /\ entry[s].broadcaster.target = entry[s].filter.id

Scoping ==
    /\ \A r \in removing : r.filter # None => r.filter.of = r.of
    /\ \A s \in Sessions : s \notin mislaid => InScope(s)

LEMMA ScopingInit == Init => Scoping
  BY DEF Init, Scoping, InScope, FiltersOf, Kept

\* Nothing of session s changes that InScope looks at.
LEMMA ScopeSame ==
    ASSUME Shape, NEW s \in Sessions, InScope(s), entry'[s] = entry[s],
           FiltersOf(s)' = FiltersOf(s), Going(s)' = Going(s)
    PROVE  InScope(s)'
<1>1. entry[s] # None /\ entry[s].filter # None =>
        (entry[s].filter \in filters <=> entry[s].filter \in FiltersOf(s))
  BY DEF Shape, TypeOK, FiltersOf
<1>2. entry[s] # None /\ entry[s].filter # None =>
        (entry[s].filter \in filters' <=> entry[s].filter \in FiltersOf(s)')
  BY DEF Shape, TypeOK, FiltersOf
<1> QED
  BY <1>1, <1>2 DEF InScope, Kept

\* A step that changes the entry and the filters of session s alone.
LEMMA ScopeOfOne ==
    ASSUME Shape, Scoping, NEW s \in Sessions,
           \A t \in Sessions \ {s} : entry'[t] = entry[t] /\ FiltersOf(t)' = FiltersOf(t),
           removing' = removing, mislaid \subseteq mislaid',
           s \notin mislaid' => InScope(s)'
    PROVE  Scoping'
<1>1. \A t \in Sessions : Going(t)' = Going(t)
  BY DEF Going
<1>2. \A t \in Sessions \ {s} : t \notin mislaid' => InScope(t)'
  BY <1>1, ScopeSame DEF Scoping
<1> QED
  BY <1>2 DEF Scoping

\* The entry goes from e to f, with another filter or none.
LEMMA ScopeOfEntry ==
    ASSUME Shape, Scoping, NEW s \in Sessions, NEW f, entry' = [entry EXCEPT ![s] = f],
           \A g \in filters' : g \in filters \/ g.of = s,
           \A g \in filters : g \in filters' \/ g.of = s,
           removing' = removing, mislaid \subseteq mislaid',
           s \notin mislaid' => InScope(s)'
    PROVE  Scoping'
<1>1. \A t \in Sessions \ {s} : entry'[t] = entry[t]
  BY DEF Shape, TypeOK
<1>2. \A t \in Sessions \ {s} : FiltersOf(t)' = FiltersOf(t)
  BY DEF FiltersOf
<1> QED
  BY <1>1, <1>2, ScopeOfOne

\* Of the entry, only what has to do with the configuration changes, or the
\* broadcaster goes.
LEMMA ScopeKeptByEntry ==
    ASSUME Shape, Scoping, NEW s \in Sessions, entry[s] # None, NEW f, EntryOf(s, f),
           entry' = [entry EXCEPT ![s] = f],
           f.filter = entry[s].filter, f.plan = entry[s].plan,
           f.broadcaster \in {None, entry[s].broadcaster},
           filters' = filters, removing' = removing, mislaid \subseteq mislaid'
    PROVE  Scoping'
<1>1. entry'[s] = f /\ f # None
  BY DEF Shape, TypeOK, EntryOf
<1>2. s \notin mislaid => InScope(s)
  BY DEF Scoping
<1>3. Going(s)' = Going(s) /\ FiltersOf(s)' = FiltersOf(s)
  BY DEF Going, FiltersOf
<1>4. InScope(s) => InScope(s)'
  BY <1>1, <1>3 DEF InScope, Kept
<1> QED
  BY <1>2, <1>4, ScopeOfEntry

LEMMA ScopingBegins ==
    ASSUME Shape, Scoping, NEW s \in Sessions, NEW subs \in Requested, EnsureBegins(s, subs)
    PROVE  Scoping'
<1> DEFINE p == Plan(subs)
           e == IF entry[s] = None THEN NewEntry ELSE entry[s]
           f == [e EXCEPT !.broadcaster = None, !.plan = p,
                          !.filter = IF e.plan # p THEN None ELSE @]
           old == IF e.plan # p THEN e.filter ELSE None
<1>1. EntryOf(s, e)
  BY EntryType DEF Shape, EntryOf, NewEntry, Entry
<1>2. /\ f.broadcaster = None /\ f.plan = p /\ f # None
      /\ f.filter = IF e.plan # p THEN None ELSE e.filter
  <2>1. f.broadcaster = None /\ f.plan = p /\ f.filter = IF e.plan # p THEN None ELSE e.filter
    BY <1>1 DEF EntryOf, Entry
  <2>2. p \in Plans
    BY PlanType DEF EnsureBegins
  <2>3. f \in Entry
    BY <1>1, <2>2 DEF EntryOf, Entry
  <2> QED
    BY <2>1, <2>3, NoneAssumption
<1>3. /\ entry' = [entry EXCEPT ![s] = f]
      /\ removing' = removing
      /\ \/ filters' = filters /\ mislaid' = mislaid /\ (old = None \/ InPlace(s, p))
         \/ filters' = filters \ {old} /\ mislaid' = mislaid
         \/ filters' = filters /\ mislaid' = mislaid \union {s}
  BY DEF EnsureBegins, DropFilter, Mislay
<1>4. InPlace(s, p) => old = None
  BY DEF InPlace
<1>5. \A g \in filters : g \in filters' \/ g.of = s
  BY <1>1, <1>3 DEF EntryOf, Shape, TypeOK
<1>6. ASSUME s \notin mislaid'
      PROVE  InScope(s)'
  <2>1. InScope(s)
    BY <1>3, <1>6 DEF Scoping
  <2>2. entry'[s] = f
    BY <1>3 DEF Shape, TypeOK
  <2>3. Going(s)' = Going(s)
    BY <1>3 DEF Going
  <2>4. filters' = filters \ {old}
    BY <1>3, <1>4, <1>6 DEF Shape, TypeOK
  <2>5. FiltersOf(s) \subseteq {e.filter} \union Going(s)
    BY <2>1 DEF InScope, Kept, NewEntry
  <2>6. FiltersOf(s)' \subseteq {f.filter} \union Going(s)
    BY <1>2, <2>4, <2>5 DEF FiltersOf
  <2>7. f.filter # None => /\ entry[s] # None /\ f.filter = entry[s].filter
                           /\ f.plan = entry[s].plan /\ old = None
    BY <1>2 DEF NewEntry
  <2>8. f.filter # None => f.filter \in filters' /\ f.filter \notin Going(s) /\ f.filter.plan = f.plan
    BY <2>1, <2>4, <2>7 DEF InScope
  <2> QED
    BY <1>2, <2>2, <2>3, <2>6, <2>8 DEF InScope, Kept
<1> QED
  BY <1>3, <1>5, <1>6, ScopeOfEntry

\* The entry gives up its filter, which is not at Naryo any more.
LEMMA ScopeWithoutFilter ==
    ASSUME Shape, Scoping, NEW s \in Sessions, entry[s] # None, NEW f, EntryOf(s, f),
           entry' = [entry EXCEPT ![s] = f], f.filter = None, f.broadcaster = None,
           removing' = removing, mislaid \subseteq mislaid',
           \A g \in filters' : g \in filters \/ g.of = s,
           \A g \in filters : g \in filters' \/ g.of = s,
           s \notin mislaid' => filters' \subseteq filters \ {entry[s].filter}
    PROVE  Scoping'
<1>1. entry'[s] = f /\ f # None
  BY DEF Shape, TypeOK, EntryOf
<1>2. ASSUME s \notin mislaid'
      PROVE  InScope(s)'
  <2>1. InScope(s)
    BY <1>2 DEF Scoping
  <2>2. FiltersOf(s)' \subseteq Going(s)
    BY <1>2, <2>1 DEF InScope, FiltersOf, Kept
  <2>3. Going(s)' = Going(s)
    BY DEF Going
  <2> QED
    BY <1>1, <2>2, <2>3 DEF InScope
<1> QED
  BY <1>2, ScopeOfEntry

LEMMA ScopingFilterMade == ASSUME Shape, Scoping, FilterMade PROVE Scoping'
<1>0. PICK s \in Sessions : s = call.on
  BY DEF FilterMade, Shape, CallConsistent, Provisioning
<1> DEFINE e == entry[s]
           made(n) == [id |-> n, of |-> s, plan |-> call.plan]
<1>1. /\ s \in Sessions /\ e # None /\ EntryOf(s, e) /\ e.broadcaster = None
      /\ e.plan = call.plan /\ call.plan \in Scoped
  BY <1>0, EntryType DEF FilterMade, Shape, CallConsistent, Provisioning, TypeOK, Call, Plans
<1>2. PICK n \in NewFilterId : filters' = filters \union {made(n)}
  BY <1>0 DEF FilterMade
<1>3. PICK found \in SameName(s, call.plan) : entry' = [entry EXCEPT ![s] = [e EXCEPT !.filter = found]]
  BY <1>0 DEF FilterMade, Onward
<1> DEFINE f == [e EXCEPT !.filter = found]
<1>4. made(n) \in Filter
  BY <1>1, NewIds DEF Filter
<1>5. found \in filters' /\ found \in Filter /\ found.of = s /\ found # None
  BY <1>2, <1>3, <1>4 DEF SameName, Shape, TypeOK
<1>6. /\ f.filter = found /\ f.plan = e.plan /\ f.broadcaster = None /\ f # None
      /\ entry'[s] = f
  BY <1>1, <1>3, <1>5 DEF EntryOf, Entry, Filter, Shape, TypeOK
<1>7. removing' = removing /\ mislaid \subseteq mislaid'
  BY DEF FilterMade
<1>8. ASSUME s \notin mislaid'
      PROVE  InScope(s)'
  <2>1. InScope(s) /\ e.filter \notin filters /\ ~FilterRemoved(s)
    BY <1>0, <1>7, <1>8 DEF Scoping, FilterMade, Mislay
  <2>2. \A g \in Going(s) : g = None
    BY <2>1 DEF FilterRemoved, Going
  <2>3. FiltersOf(s) = {}
    <3>1. \A g \in FiltersOf(s) : g \in filters /\ g # None
      BY DEF FiltersOf, Shape, TypeOK
    <3>2. FiltersOf(s) \subseteq {e.filter} \union Going(s)
      BY <1>1, <2>1 DEF InScope, Kept
    <3> QED
      BY <2>1, <2>2, <3>1, <3>2
  <2>4. FiltersOf(s)' = {made(n)}
    BY <1>2, <2>3 DEF FiltersOf
  <2>5. found = made(n)
    BY <1>5, <2>4 DEF FiltersOf
  <2>6. Going(s)' = Going(s) /\ found \notin Going(s)
    BY <1>5, <1>7, <2>2 DEF Going
  <2> QED
    BY <1>1, <1>5, <1>6, <2>4, <2>5, <2>6 DEF InScope, Kept
<1>9. /\ \A g \in filters' : g \in filters \/ g.of = s
      /\ \A g \in filters : g \in filters' \/ g.of = s
  BY <1>2
<1>10. entry' = [entry EXCEPT ![s] = f]
  BY <1>3
<1> HIDE DEF f
<1> QED
  BY <1>7, <1>8, <1>9, <1>10, ScopeOfEntry

LEMMA ScopingEnsure == ASSUME Shape, Scoping, EnsureStep PROVE Scoping'
<1>0. PICK s \in Sessions : s = call.on
  BY DEF Shape, CallConsistent, Provisioning, EnsureStep, ConfigReady, ConfigAttached,
         ConfigFails, FilterReady, FilterMade, FilterFails, FilterFallsBack,
         BroadcasterMade, BroadcasterFails, BroadcasterFallsBack
<1> DEFINE e == entry[s]
<1>1. e # None /\ EntryOf(s, e) /\ e.broadcaster = None
  BY <1>0, EntryType DEF Shape, CallConsistent, Provisioning, EnsureStep, ConfigReady, ConfigAttached,
         ConfigFails, FilterReady, FilterMade, FilterFails, FilterFallsBack,
         BroadcasterMade, BroadcasterFails, BroadcasterFallsBack
<1>2. ASSUME NEW c \in ConfigIds, NEW f,
             \/ f = e
             \/ f = [e EXCEPT !.config = c]
             \/ f = [e EXCEPT !.config = c, !.shared = TRUE],
             entry' = [entry EXCEPT ![s] = f],
             filters' = filters, removing' = removing, mislaid' = mislaid
      PROVE  Scoping'
  <2>1. EntryOf(s, f) /\ f.filter = e.filter /\ f.plan = e.plan /\ f.broadcaster = None
    BY <1>1, <1>2 DEF EntryOf, Entry
  <2> QED
    BY <1>1, <1>2, <2>1, ScopeKeptByEntry
<1>3. ASSUME entry' = [entry EXCEPT ![s] = e],
             filters' = filters, removing' = removing, mislaid' = mislaid
      PROVE  Scoping'
  BY <1>1, <1>3, ScopeKeptByEntry
<1>4. CASE ConfigReady
  <2>1. filters' = filters /\ removing' = removing /\ mislaid' = mislaid
    BY <1>0, <1>4 DEF ConfigReady
  <2>2. CASE Onward("filter", e)
    BY <1>0, <1>3, <2>1, <2>2 DEF Onward
  <2>3. CASE fixed # None /\ Onward("filter", [e EXCEPT !.config = fixed, !.shared = TRUE])
    <3>1. fixed \in ConfigIds
      BY <2>3 DEF Shape, TypeOK
    <3> QED
      BY <1>0, <1>2, <2>1, <2>3, <3>1 DEF Onward
  <2>4. CASE \E c \in NewConfig : Onward("filter", [e EXCEPT !.config = c])
    BY <1>0, <1>2, <2>1, <2>4, NewIds DEF Onward
  <2> QED
    BY <1>0, <1>4, <2>2, <2>3, <2>4 DEF ConfigReady
<1>5. CASE ConfigAttached
  <2>1. PICK c \in configs : entry' = [entry EXCEPT ![s] = [e EXCEPT !.config = c, !.shared = TRUE]]
    BY <1>0, <1>5 DEF ConfigAttached, Onward
  <2>2. c \in ConfigIds
    BY <2>1 DEF Shape, TypeOK
  <2> QED
    BY <1>2, <1>5, <2>1, <2>2 DEF ConfigAttached, naryoVars
<1>6. CASE ConfigFails
  BY <1>0, <1>3, <1>6 DEF ConfigFails, Return
<1>7. CASE FilterReady
  BY <1>0, <1>3, <1>7 DEF FilterReady, Onward, naryoVars
<1>8. ASSUME PostedInVain
      PROVE  /\ \A g \in filters' : g \in filters \/ g.of = s
             /\ \A g \in filters : g \in filters'
             /\ mislaid \subseteq mislaid'
             /\ s \notin mislaid' => filters' \subseteq filters \ {e.filter}
  BY <1>0, <1>1, <1>8 DEF PostedInVain, Mislay
<1>9. CASE FilterFails
  <2> DEFINE f == [e EXCEPT !.filter = None]
  <2>1. EntryOf(s, f) /\ f.filter = None /\ f.broadcaster = None
    BY <1>1 DEF EntryOf, Entry
  <2>2. entry' = [entry EXCEPT ![s] = f] /\ removing' = removing /\ PostedInVain
    BY <1>0, <1>9 DEF FilterFails, Return
  <2> QED
    BY <1>1, <1>8, <2>1, <2>2, ScopeWithoutFilter
<1>10. CASE FilterFallsBack
  <2> DEFINE f == [e EXCEPT !.filter = None, !.plan = AllEvents]
  <2>1. EntryOf(s, f) /\ f.filter = None /\ f.broadcaster = None
    BY <1>1 DEF EntryOf, Entry, Plans
  <2>2. entry' = [entry EXCEPT ![s] = f] /\ removing' = removing /\ PostedInVain
    BY <1>0, <1>10 DEF FilterFallsBack, Onward
  <2> QED
    BY <1>1, <1>8, <2>1, <2>2, ScopeWithoutFilter
<1>11. CASE BroadcasterMade
  <2>1. PICK b \in Found(e) : entry' = [entry EXCEPT ![s] = [e EXCEPT !.broadcaster = b]]
    BY <1>0, <1>11 DEF BroadcasterMade, Return
  <2> DEFINE f == [e EXCEPT !.broadcaster = b]
  <2>2. filters' = filters /\ removing' = removing /\ mislaid' = mislaid
    BY <1>0, <1>11 DEF BroadcasterMade
  <2>3. /\ entry'[s] = f
        /\ f.filter = e.filter /\ f.plan = e.plan /\ f.broadcaster = b
    BY <1>1, <2>1 DEF Shape, TypeOK, EntryOf, Entry
  <2>4. f # None
    <3>1. b \in Broadcaster
      <4>1. \A n \in NewBroadcasterId : MadeOne(e, n) \in Broadcaster
        BY <1>0, <1>1, <1>11, NewIds
        DEF MadeOne, Target, Broadcaster, EntryOf, Entry, Filter, Shape, CallConsistent,
            BroadcasterMade
      <4> QED
        BY <1>0, <1>11, <2>1, <4>1 DEF BroadcasterMade, Found, Shape, TypeOK
    <3> QED
      BY <1>1, <3>1 DEF EntryOf, Entry
  <2>5. b.target = Target(e)
    BY <1>0, <2>1 DEF Found
  <2>6. e.plan # AllEvents => e.filter # None
    BY <1>0, <1>11 DEF BroadcasterMade, Shape, CallConsistent
  <2>7. Going(s)' = Going(s) /\ FiltersOf(s)' = FiltersOf(s)
    BY <2>2 DEF Going, FiltersOf
  <2>8. InScope(s) => InScope(s)'
    BY <1>1, <2>2, <2>3, <2>4, <2>5, <2>6, <2>7 DEF InScope, Kept, Target
  <2> QED
    BY <1>1, <2>1, <2>2, <2>8, ScopeOfEntry DEF Scoping
<1>12. CASE BroadcasterFails
  BY <1>0, <1>3, <1>12 DEF BroadcasterFails, Return
<1>13. CASE BroadcasterFallsBack
  <2> DEFINE f == [e EXCEPT !.filter = None, !.plan = AllEvents]
  <2>1. EntryOf(s, f) /\ f.filter = None /\ f.broadcaster = None
    BY <1>1 DEF EntryOf, Entry, Plans
  <2>2. /\ entry' = [entry EXCEPT ![s] = f] /\ removing' = removing
        /\ \/ filters' = filters \ {e.filter} /\ mislaid' = mislaid
           \/ filters' = filters /\ mislaid' = mislaid \union {s}
    BY <1>0, <1>13 DEF BroadcasterFallsBack, Mislay
  <2>3. \A g \in filters : g \in filters' \/ g.of = s
    BY <1>1, <2>2 DEF EntryOf, Shape, TypeOK
  <2> QED
    BY <1>1, <2>1, <2>2, <2>3, ScopeWithoutFilter
<1> QED
  BY <1>4, <1>5, <1>6, <1>7, ScopingFilterMade, <1>9, <1>10, <1>11, <1>12, <1>13 DEF EnsureStep

LEMMA ScopingOutside ==
    ASSUME Shape, Scoping, NEW s \in Sessions, PauseDetaches(s) \/ PauseFails(s) \/ StopTakes(s)
    PROVE  Scoping'
<1>1. entry[s] # None /\ EntryOf(s, entry[s])
  BY EntryType DEF PauseDetaches, PauseFails, StopTakes, HasBroadcaster, Shape
<1>2. CASE PauseDetaches(s)
  <2> DEFINE f == [entry[s] EXCEPT !.broadcaster = None]
  <2>1. /\ EntryOf(s, f) /\ f.filter = entry[s].filter
        /\ f.plan = entry[s].plan /\ f.broadcaster = None
    BY <1>1 DEF EntryOf, Entry
  <2>2. /\ entry' = [entry EXCEPT ![s] = f]
        /\ filters' = filters /\ removing' = removing /\ mislaid' = mislaid
    BY <1>2 DEF PauseDetaches
  <2> QED
    BY <1>1, <2>1, <2>2, ScopeKeptByEntry
<1>3. CASE PauseFails(s)
  <2>1. entry' = entry /\ filters' = filters /\ removing' = removing /\ mislaid' = mislaid
    BY <1>3 DEF PauseFails
  <2> QED
    BY <2>1 DEF Scoping, InScope, FiltersOf, Kept, Going
<1>4. CASE StopTakes(s)
  <2> DEFINE r == RemovalOf(s)
  <2>1. /\ entry' = [entry EXCEPT ![s] = None] /\ removing' = removing \union {r}
        /\ filters' = filters /\ mislaid' = mislaid
    BY <1>4 DEF StopTakes, naryoVars
  <2>2. r.of = s /\ r.filter = entry[s].filter
    BY DEF RemovalOf
  <2>3. \A t \in Sessions \ {s} : t \notin mislaid' => InScope(t)'
    <3>1. \A t \in Sessions \ {s} : /\ entry'[t] = entry[t]
                                    /\ FiltersOf(t)' = FiltersOf(t)
      BY <2>1 DEF Shape, TypeOK, FiltersOf
    <3>2. \A t \in Sessions \ {s} : Going(t)' = Going(t)
      BY <2>1, <2>2 DEF Going
    <3> QED
      BY <2>1, <3>1, <3>2, ScopeSame DEF Scoping
  <2>4. s \notin mislaid' => InScope(s)'
    <3>1. entry'[s] = None
      BY <2>1 DEF Shape, TypeOK
    <3>2. Going(s)' = Going(s) \union {entry[s].filter}
      BY <2>1, <2>2 DEF Going
    <3> QED
      BY <1>1, <2>1, <3>1, <3>2 DEF Scoping, InScope, FiltersOf, Kept
  <2>5. \A q \in removing' : q.filter # None => q.filter.of = q.of
    BY <1>1, <2>1, <2>2 DEF Scoping, EntryOf
  <2> QED
    BY <2>3, <2>4, <2>5 DEF Scoping
<1> QED
  BY <1>2, <1>3, <1>4

\* A stop has made progress with removal r: q is what is left of it.
LEMMA ScopingProgress ==
    ASSUME Shape, Scoping, NEW r \in removing, NEW q, q.of = r.of,
           \/ q.filter = r.filter /\ filters' = filters
           \/ /\ q.filter = None /\ r.filter # None
              /\ \/ filters' = filters \ {r.filter}
                 \/ filters' = filters /\ r.of \in mislaid',
           Removed(r, q), entry' = entry, mislaid \subseteq mislaid'
    PROVE  Scoping'
<1>1. r.filter # None => r.filter.of = r.of
  BY DEF Scoping
<1>2. \A t \in Sessions \ {r.of} : Going(t)' = Going(t) /\ FiltersOf(t)' = FiltersOf(t)
  BY <1>1 DEF Removed, Going, FiltersOf
<1>3. \A t \in Sessions \ {r.of} : t \notin mislaid' => InScope(t)'
  BY <1>2, ScopeSame DEF Scoping
<1>4. /\ Going(r.of) \ {r.filter} \subseteq Going(r.of)'
      /\ Going(r.of)' \subseteq Going(r.of) \union {None}
      /\ q.filter = r.filter => r.filter \in Going(r.of)'
  BY DEF Removed, Going
<1>5. ASSUME r.of \notin mislaid', r.of \in Sessions
      PROVE  InScope(r.of)'
  <2>1. InScope(r.of) /\ r.filter \in Going(r.of)
    BY <1>5 DEF Scoping, Going
  <2>2. CASE q.filter = r.filter /\ filters' = filters
    <3>1. Going(r.of) \subseteq Going(r.of)'
      BY <1>4, <2>2
    <3>2. entry[r.of] # None /\ entry[r.of].filter # None => entry[r.of].filter \notin Going(r.of)'
      BY <1>4, <2>1 DEF InScope
    <3> QED
      BY <2>1, <2>2, <3>1, <3>2 DEF InScope, FiltersOf, Kept
  <2>3. CASE filters' = filters \ {r.filter} /\ r.filter # None
    <3>1. FiltersOf(r.of)' = FiltersOf(r.of) \ {r.filter}
      BY <2>3 DEF FiltersOf
    <3>2. FiltersOf(r.of)' \subseteq Kept(r.of) \union Going(r.of)'
      BY <1>4, <2>1, <3>1 DEF InScope
    <3>3. entry[r.of] # None /\ entry[r.of].filter # None =>
            entry[r.of].filter \notin Going(r.of)' /\ entry[r.of].filter \in filters'
      BY <1>4, <2>1, <2>3 DEF InScope
    <3> QED
      BY <2>1, <3>2, <3>3 DEF InScope, Kept
  <2> QED
    BY <1>5, <2>2, <2>3
<1>6. \A t \in removing' : t.filter # None => t.filter.of = t.of
  BY <1>1 DEF Removed, Scoping
<1> QED
  BY <1>3, <1>5, <1>6 DEF Scoping

LEMMA ScopingStop ==
    ASSUME Shape, Scoping, NEW r \in removing, StopStep(r)
    PROVE  Scoping'
<1>1. r \in Removal
  BY DEF Shape, TypeOK
<1>2. CASE StopDeletesBroadcaster(r)
  <2> DEFINE q == [r EXCEPT !.broadcaster = None]
  <2>1. q.of = r.of /\ q.filter = r.filter
    BY <1>1 DEF Removal
  <2>2. Removed(r, q) /\ entry' = entry /\ filters' = filters /\ mislaid' = mislaid
    BY <1>2 DEF StopDeletesBroadcaster
  <2> HIDE DEF q
  <2> QED
    BY <2>1, <2>2, ScopingProgress
<1>3. CASE StopDeletesFilter(r)
  <2> DEFINE q == [r EXCEPT !.filter = None]
  <2>1. q.of = r.of /\ q.filter = None
    BY <1>1 DEF Removal
  <2>2. /\ Removed(r, q) /\ entry' = entry /\ r.filter # None
        /\ \/ filters' = filters \ {r.filter} /\ mislaid' = mislaid
           \/ filters' = filters /\ mislaid' = mislaid \union {r.of}
    BY <1>3 DEF StopDeletesFilter, Mislay
  <2> HIDE DEF q
  <2> QED
    BY <2>1, <2>2, ScopingProgress
<1>4. CASE StopDeletesConfig(r)
  <2> DEFINE q == [r EXCEPT !.config = None]
  <2>1. q.of = r.of /\ q.filter = r.filter
    BY <1>1 DEF Removal
  <2>2. Removed(r, q) /\ entry' = entry /\ filters' = filters /\ mislaid' = mislaid
    BY <1>4 DEF StopDeletesConfig
  <2> HIDE DEF q
  <2> QED
    BY <2>1, <2>2, ScopingProgress
<1>5. CASE StopCounts(r)
  <2>1. /\ removing' = removing \ {r} /\ r.filter = None
        /\ entry' = entry /\ filters' = filters /\ mislaid' = mislaid
    BY <1>5 DEF StopCounts, naryoVars
  <2>2. \A t \in Sessions : /\ Going(t) \ {None} \subseteq Going(t)'
                            /\ Going(t)' \subseteq Going(t)
                            /\ FiltersOf(t)' = FiltersOf(t)
    BY <2>1 DEF Going, FiltersOf
  <2>3. \A t \in Sessions : None \notin FiltersOf(t)
    BY DEF FiltersOf, Shape, TypeOK
  <2>4. \A t \in Sessions : InScope(t) => InScope(t)'
    BY <2>1, <2>2, <2>3 DEF InScope, Kept
  <2> QED
    BY <2>1, <2>4 DEF Scoping
<1> QED
  BY <1>2, <1>3, <1>4, <1>5 DEF StopStep

LEMMA ScopingInvariant == Spec => []Scoping
<1>1. Shape /\ Scoping /\ [Next]_vars => Scoping'
  <2> SUFFICES ASSUME Shape, Scoping, [Next]_vars
               PROVE  Scoping'
    OBVIOUS
  <2>1. CASE Next
    BY <2>1, ScopingBegins, ScopingEnsure, ScopingOutside, ScopingStop DEF Next
  <2>2. CASE UNCHANGED vars
    BY <2>2 DEF vars, naryoVars, Scoping, InScope, FiltersOf, Kept, Going
  <2> QED
    BY <2>1, <2>2
<1> QED
  BY <1>1, ScopingInit, ShapeInvariant, PTL DEF Spec

\* Through lookups by name, fallbacks and failed exchanges, the client knows of
\* every filter of a session, and a stop of it deletes that filter, unless one
\* of the ways to lose track that the code has was taken.
THEOREM FiltersTrackedCorrect == Spec => []FiltersTracked
<1>1. Scoping => FiltersTracked
  BY DEF Scoping, InScope, FiltersOf, Kept, Going, FiltersTracked
<1> QED
  BY <1>1, ScopingInvariant, PTL

(***************************************************************************)
(* The choice of a plan                                                    *)
(***************************************************************************)

\* An entry that names a target of a kind is first also among more entries.
LEMMA FirstNamedOfLonger ==
    ASSUME NEW kind, NEW a \in Seq(Subscription), NEW b \in Seq(Subscription),
           Naming(kind, a) # {}
    PROVE  /\ Naming(kind, a \o b) # {}
           /\ (a \o b)[Min(Naming(kind, a \o b))] = a[Min(Naming(kind, a))]
<1> DEFINE m == Min(Naming(kind, a))
           n == Min(Naming(kind, a \o b))
<1>1. a \o b \in Seq(Subscription) /\ Len(a) \in Nat /\ Len(b) \in Nat
  OBVIOUS
<1>2. /\ DOMAIN a = 1 .. Len(a) /\ DOMAIN (a \o b) = 1 .. Len(a) + Len(b)
      /\ \A i \in 1 .. Len(a) : (a \o b)[i] = a[i]
  OBVIOUS
<1>3. m \in Naming(kind, a) /\ \A i \in Naming(kind, a) : m <= i
  BY FirstNamed
<1>4. m \in Naming(kind, a \o b)
  <2> HIDE DEF m
  <2> QED BY <1>1, <1>2, <1>3 DEF Naming
<1>5. n \in Naming(kind, a \o b) /\ \A i \in Naming(kind, a \o b) : n <= i
  BY <1>1, <1>4, FirstNamed
<1> HIDE DEF m, n
<1>6. m \in 1 .. Len(a) /\ n \in Nat /\ n <= m /\ n >= 1
  BY <1>1, <1>2, <1>3, <1>4, <1>5 DEF Naming
<1>7. n \in Naming(kind, a)
  BY <1>1, <1>2, <1>5, <1>6 DEF Naming
<1>8. n = m
  BY <1>3, <1>6, <1>7
<1> QED
  BY <1>2, <1>4, <1>6, <1>8 DEF m, n

LEMMA PlanOfLonger ==
    ASSUME NEW a \in Seq(Subscription), NEW b \in Seq(Subscription),
           Naming("hedera_hcs_topic", a) # {}
    PROVE  Plan(a \o b) = Plan(a)
<1>1. /\ Naming("hedera_hcs_topic", a \o b) # {}
      /\ (a \o b)[Min(Naming("hedera_hcs_topic", a \o b))] = a[Min(Naming("hedera_hcs_topic", a))]
  BY FirstNamedOfLonger
<1> QED
  BY <1>1 DEF Plan

\* Whatever the lists and the state of Naryo: entries after one that names a
\* topic do not change the plan (resolvePipelineFilterPlan), so that the next
\* resume finds the session's broadcaster in place.
THEOREM AppendKeepsTopicCorrect == Spec => []AppendKeepsTopic
<1>1. AppendKeepsTopic
  <2> SUFFICES ASSUME NEW s \in Sessions, NEW a \in Requested, NEW b \in Requested,
                      Naming("hedera_hcs_topic", a) # {}, InPlace(s, Plan(a))
               PROVE  InPlace(s, Plan(a \o b))
    BY DEF AppendKeepsTopic, Appended
  <2>1. a \in Seq(Subscription) /\ b \in Seq(Subscription)
    OBVIOUS
  <2> QED
    BY <2>1, PlanOfLonger
<1> QED
  BY <1>1, PTL

(***************************************************************************)
(* What is delivered                                                       *)
(***************************************************************************)

\* Naryo tells filters apart by their identifiers.
FiltersApart == \A f \in filters, g \in filters : f.id = g.id => f = g

\* A step posts one filter under a new identifier, or none.
LEMMA FiltersStep ==
    ASSUME [Next]_vars
    PROVE  \/ filters' \subseteq filters
           \/ \E n \in NewFilterId : \E f : f.id = n /\ filters' = filters \union {f}
<1> DEFINE Posts(s, p) == \E n \in NewFilterId :
                            filters' = filters \union {[id |-> n, of |-> s, plan |-> p]}
<1>1. ASSUME NEW s, NEW p, Posts(s, p)
      PROVE  \E n \in NewFilterId : \E f : f.id = n /\ filters' = filters \union {f}
  <2> PICK n \in NewFilterId : filters' = filters \union {[id |-> n, of |-> s, plan |-> p]}
    BY <1>1
  <2> QED
    OBVIOUS
<1>2. CASE \E s \in Sessions, subs \in Requested : EnsureBegins(s, subs)
  BY <1>2 DEF EnsureBegins, DropFilter
<1>3. CASE EnsureStep
  <2>1. CASE FilterMade \/ FilterFails \/ FilterFallsBack
    <3>1. filters' = filters \/ Posts(call.on, call.plan)
      BY <2>1 DEF FilterMade, FilterFails, FilterFallsBack, PostedInVain
    <3> QED
      BY <1>1, <3>1
  <2>2. CASE ConfigReady \/ ConfigAttached \/ ConfigFails \/ FilterReady
    BY <2>2 DEF ConfigReady, ConfigAttached, ConfigFails, FilterReady, naryoVars
  <2>3. CASE BroadcasterMade \/ BroadcasterFails \/ BroadcasterFallsBack
    BY <2>3 DEF BroadcasterMade, BroadcasterFails, BroadcasterFallsBack
  <2> QED
    BY <1>3, <2>1, <2>2, <2>3 DEF EnsureStep
<1>4. CASE \E s \in Sessions : PauseDetaches(s) \/ PauseFails(s) \/ StopTakes(s)
  BY <1>4 DEF PauseDetaches, PauseFails, StopTakes, naryoVars
<1>5. CASE \E r \in removing : StopStep(r)
  BY <1>5 DEF StopStep, StopDeletesBroadcaster, StopDeletesFilter, StopDeletesConfig,
     StopCounts, naryoVars
<1>6. CASE UNCHANGED vars
  BY <1>6 DEF vars, naryoVars
<1> QED
  BY <1>2, <1>3, <1>4, <1>5, <1>6 DEF Next

LEMMA FiltersApartInvariant == Spec => []FiltersApart
<1>1. Init => FiltersApart
  BY DEF Init, FiltersApart
<1>2. Shape /\ FiltersApart /\ [Next]_vars => FiltersApart'
  <2> SUFFICES ASSUME Shape, FiltersApart, [Next]_vars
               PROVE  FiltersApart'
    OBVIOUS
  <2>1. CASE filters' \subseteq filters
    BY <2>1 DEF FiltersApart
  <2>2. ASSUME NEW n \in NewFilterId, NEW f, f.id = n, filters' = filters \union {f}
        PROVE  FiltersApart'
    <3>1. \A g \in filters : g # None
      BY DEF Shape, TypeOK
    <3>2. \A g \in filters : g.id # n
      BY <3>1 DEF NewFilterId, IdsOf
    <3> QED
      BY <2>2, <3>2 DEF FiltersApart
  <2> QED
    BY <2>1, <2>2, FiltersStep
<1> QED
  BY <1>1, <1>2, ShapeInvariant, PTL DEF Spec

\* The filter of an entry is of the plan's kind, and its broadcaster refers to
\* that filter, or to all events if that is the plan.
Matched(e) ==
    /\ e.filter # None =>
         e.plan # AllEvents /\ FilterKind(e.filter.plan) = FilterKind(e.plan)
    /\ e.broadcaster # None =>
         e.broadcaster.target = Target(e) /\ (e.plan # AllEvents => e.filter # None)

EntriesMatched == \A s \in Sessions : entry[s] # None => Matched(entry[s])

\* An identifier is not used again for another filter while an entry has it.
HeldApart ==
    \A s \in Sessions : entry[s] # None /\ entry[s].filter # None =>
        \A f \in filters : f.id = entry[s].filter.id => f = entry[s].filter

\* Entry e of session s may follow in a step: it has the filter that was there
\* before, or one that is at Naryo.
Follows(s, e) ==
    /\ Matched(e)
    /\ \/ e.filter = None
       \/ e.filter \in filters'
       \/ entry[s] # None /\ e.filter = entry[s].filter

LEMMA OneFollows ==
    ASSUME Shape, EntriesMatched, NEW s \in Sessions, NEW e,
           entry' = [entry EXCEPT ![s] = e], e # None => Follows(s, e)
    PROVE  \A t \in Sessions : entry'[t] # None => Follows(t, entry'[t])
  BY DEF Shape, TypeOK, EntriesMatched, Follows

LEMMA EnsureFollows ==
    ASSUME Shape, EntriesMatched, EnsureStep
    PROVE  \A t \in Sessions : entry'[t] # None => Follows(t, entry'[t])
<1>0. PICK s \in Sessions : s = call.on
  BY DEF Shape, CallConsistent, Provisioning, EnsureStep, ConfigReady, ConfigAttached,
         ConfigFails, FilterReady, FilterMade, FilterFails, FilterFallsBack,
         BroadcasterMade, BroadcasterFails, BroadcasterFallsBack
<1> DEFINE e == entry[s]
<1>1. e # None /\ EntryOf(s, e) /\ Matched(e) /\ e.broadcaster = None
  BY <1>0, EntryType DEF EntriesMatched, Shape, CallConsistent, Provisioning, EnsureStep,
         ConfigReady, ConfigAttached, ConfigFails, FilterReady, FilterMade, FilterFails,
         FilterFallsBack, BroadcasterMade, BroadcasterFails, BroadcasterFallsBack
<1>2. ASSUME NEW f, entry' = [entry EXCEPT ![s] = f], f # None => Follows(s, f)
      PROVE  \A t \in Sessions : entry'[t] # None => Follows(t, entry'[t])
  BY <1>2, OneFollows
<1>3. Follows(s, e)
  BY <1>1 DEF Follows
<1>4. \A c, b : /\ Follows(s, [e EXCEPT !.config = c])
                /\ Follows(s, [e EXCEPT !.config = c, !.shared = b])
  BY <1>1 DEF Follows, Matched, Target, EntryOf, Entry
<1>5. \A p : /\ Follows(s, [e EXCEPT !.filter = None])
             /\ Follows(s, [e EXCEPT !.filter = None, !.plan = p])
  BY <1>1 DEF Follows, Matched, EntryOf, Entry
<1>6. CASE ConfigReady
  BY <1>0, <1>2, <1>3, <1>4, <1>6 DEF ConfigReady, Onward
<1>7. CASE ConfigAttached
  BY <1>0, <1>2, <1>4, <1>7 DEF ConfigAttached, Onward
<1>8. CASE ConfigFails \/ FilterReady \/ BroadcasterFails
  BY <1>0, <1>2, <1>3, <1>8 DEF ConfigFails, FilterReady, BroadcasterFails, Onward, Return
<1>9. CASE FilterMade
  <2>1. PICK f \in SameName(s, call.plan) : entry' = [entry EXCEPT ![s] = [e EXCEPT !.filter = f]]
    BY <1>0, <1>9 DEF FilterMade, Onward
  <2>2. f \in filters' /\ FilterKind(f.plan) = FilterKind(call.plan)
    BY <2>1 DEF SameName
  <2>3. e.plan = call.plan /\ call.plan # AllEvents
    BY <1>0, <1>9 DEF FilterMade, Shape, CallConsistent
  <2>4. Follows(s, [e EXCEPT !.filter = f])
    BY <1>1, <2>2, <2>3 DEF Follows, Matched, EntryOf, Entry
  <2> QED
    BY <1>2, <2>1, <2>4
<1>10. CASE FilterFails \/ FilterFallsBack \/ BroadcasterFallsBack
  BY <1>0, <1>2, <1>5, <1>10 DEF FilterFails, FilterFallsBack, BroadcasterFallsBack, Onward, Return
<1>11. CASE BroadcasterMade
  <2>1. PICK b \in Found(e) : entry' = [entry EXCEPT ![s] = [e EXCEPT !.broadcaster = b]]
    BY <1>0, <1>11 DEF BroadcasterMade, Return
  <2>2. b.target = Target(e) /\ (e.plan # AllEvents => e.filter # None)
    BY <1>0, <1>11, <2>1 DEF Found, BroadcasterMade, Shape, CallConsistent
  <2>3. Follows(s, [e EXCEPT !.broadcaster = b])
    BY <1>1, <2>2 DEF Follows, Matched, Target, EntryOf, Entry
  <2> QED
    BY <1>2, <2>1, <2>3
<1> QED
  BY <1>6, <1>7, <1>8, <1>9, <1>10, <1>11 DEF EnsureStep

LEMMA EntriesFollow ==
    ASSUME Shape, EntriesMatched, [Next]_vars
    PROVE  \A t \in Sessions : entry'[t] # None => Follows(t, entry'[t])
<1>1. CASE \E s \in Sessions, subs \in Requested : EnsureBegins(s, subs)
  <2> PICK s \in Sessions, subs \in Requested : EnsureBegins(s, subs)
    BY <1>1
  <2> DEFINE e == IF entry[s] = None THEN NewEntry ELSE entry[s]
             f == [e EXCEPT !.broadcaster = None, !.plan = Plan(subs),
                            !.filter = IF e.plan # Plan(subs) THEN None ELSE @]
  <2>1. entry' = [entry EXCEPT ![s] = f]
    BY DEF EnsureBegins
  <2>2. EntryOf(s, e) /\ Matched(e)
    BY EntryType DEF Shape, EntriesMatched, EntryOf, Matched, NewEntry, Entry
  <2>3. /\ f.broadcaster = None
        /\ f.filter # None => f.filter = e.filter /\ f.plan = e.plan
        /\ e.filter # None => entry[s] # None /\ e = entry[s]
    BY <2>2 DEF EntryOf, Entry, NewEntry
  <2>4. Follows(s, f)
    BY <2>2, <2>3 DEF Follows, Matched
  <2> QED
    BY <2>1, <2>4, OneFollows
<1>2. CASE \E s \in Sessions : PauseDetaches(s)
  <2> PICK s \in Sessions : PauseDetaches(s)
    BY <1>2
  <2> DEFINE f == [entry[s] EXCEPT !.broadcaster = None]
  <2>1. entry' = [entry EXCEPT ![s] = f] /\ entry[s] # None /\ EntryOf(s, entry[s])
    BY EntryType DEF PauseDetaches, HasBroadcaster, Shape
  <2>2. Follows(s, f)
    BY <2>1 DEF EntriesMatched, Follows, Matched, EntryOf, Entry
  <2> QED
    BY <2>1, <2>2, OneFollows
<1>3. CASE \E s \in Sessions : StopTakes(s)
  BY <1>3, OneFollows DEF StopTakes
<1>4. CASE \/ \E s \in Sessions : PauseFails(s)
           \/ \E r \in removing : StopStep(r)
           \/ UNCHANGED vars
  <2>1. entry' = entry
    BY <1>4 DEF PauseFails, StopStep, StopDeletesBroadcaster, StopDeletesFilter,
       StopDeletesConfig, StopCounts, vars
  <2> QED
    BY <2>1 DEF EntriesMatched, Follows
<1> QED
  BY <1>1, <1>2, <1>3, <1>4, EnsureFollows DEF Next

LEMMA HeldApartStep ==
    ASSUME Shape, EntriesMatched, HeldApart, FiltersApart', [Next]_vars
    PROVE  HeldApart'
<1> SUFFICES ASSUME NEW s \in Sessions, entry'[s] # None, entry'[s].filter # None,
                    NEW f \in filters', f.id = entry'[s].filter.id
             PROVE  f = entry'[s].filter
  BY DEF HeldApart
<1>1. Follows(s, entry'[s])
  BY EntriesFollow
<1>2. CASE entry'[s].filter \in filters'
  BY <1>2 DEF FiltersApart
<1>3. CASE entry[s] # None /\ entry'[s].filter = entry[s].filter
  <2>1. CASE f \in filters
    BY <1>3, <2>1 DEF HeldApart
  <2>2. CASE f \notin filters
    <3>1. f.id \in NewFilterId
      BY <2>2, FiltersStep
    <3>2. entry[s].filter \in {e.filter : e \in Held} \ {None}
      BY <1>3 DEF Held
    <3> QED
      BY <1>3, <3>1, <3>2 DEF NewFilterId, IdsOf
  <2> QED
    BY <2>1, <2>2
<1> QED
  BY <1>1, <1>2, <1>3 DEF Follows

LEMMA HeldInvariant == Spec => [](EntriesMatched /\ HeldApart)
<1>1. Init => EntriesMatched /\ HeldApart
  BY DEF Init, EntriesMatched, HeldApart
<1>2. Shape /\ EntriesMatched /\ [Next]_vars => EntriesMatched'
  BY EntriesFollow DEF EntriesMatched, Follows, Matched, Target, FilterKind
<1>3. Shape /\ EntriesMatched /\ HeldApart /\ FiltersApart' /\ [Next]_vars => HeldApart'
  BY HeldApartStep
<1> QED
  BY <1>1, <1>2, <1>3, ShapeInvariant, FiltersApartInvariant, PTL DEF Spec

\* Whatever falls back, fails or is found in its place, the broadcaster that
\* the client has for a session passes all events only if that is its plan, and
\* otherwise nothing but events of a filter of the session, of the plan's kind.
\* The filter is there and the plan's, however often the plan changed, unless
\* the client may have lost track of a filter of the session (`mislaid`).
THEOREM ScopeKeptCorrect == Spec => []ScopeKept
<1>1. Shape /\ Scoping /\ EntriesMatched /\ HeldApart => ScopeKept
  <2> SUFFICES ASSUME Shape, Scoping, EntriesMatched, HeldApart, NEW s \in Sessions,
                      entry[s] # None, entry[s].broadcaster \in broadcasters
               PROVE  LET e == entry[s]
                          b == e.broadcaster
                      IN /\ e.plan = AllEvents <=> b.target = AllEvents
                         /\ \A f \in Scope(b) : f.of = s /\ FilterKind(f.plan) = FilterKind(e.plan)
                         /\ s \notin mislaid /\ e.plan # AllEvents =>
                              \E f \in Scope(b) : f.plan = e.plan
    BY DEF ScopeKept
  <2> DEFINE e == entry[s]
             b == e.broadcaster
  <2>1. b # None /\ EntryOf(s, e) /\ Matched(e)
    BY EntryType DEF Shape, TypeOK, Broadcaster, EntriesMatched
  <2>2. b.target = Target(e) /\ (e.plan # AllEvents => e.filter # None)
    BY <2>1 DEF Matched
  <2>3. e.filter # None => e.filter.id \in FilterIds /\ e.filter.id # AllEvents /\ e.filter.of = s
    BY <2>1 DEF EntryOf, Entry, Filter
  <2>4. e.plan = AllEvents <=> b.target = AllEvents
    BY <2>2, <2>3 DEF Target
  <2>5. ASSUME NEW f \in Scope(b)
        PROVE  f.of = s /\ FilterKind(f.plan) = FilterKind(e.plan)
    <3>1. f \in filters /\ f.id = b.target /\ b.target # AllEvents
      BY <2>5 DEF Scope, Shape, TypeOK, Filter
    <3>2. e.filter # None /\ f = e.filter
      BY <2>2, <2>4, <3>1 DEF Target, HeldApart
    <3> QED
      BY <2>1, <2>3, <3>2 DEF Matched
  <2>6. ASSUME s \notin mislaid, e.plan # AllEvents
        PROVE  \E f \in Scope(b) : f.plan = e.plan
    BY <2>2, <2>6 DEF Scoping, InScope, Scope, Target
  <2> QED
    BY <2>4, <2>5, <2>6
<1> QED
  BY <1>1, ShapeInvariant, ScopingInvariant, HeldInvariant, PTL

(***************************************************************************)
(* What the dashboard reports                                              *)
(***************************************************************************)

\* Through a broadcaster in scope come the events of the plan, and of no other
\* target.
LEMMA PassesPlan ==
    ASSUME Shape, Scoping, FiltersApart, NEW s \in Sessions, entry[s] # None,
           s \notin mislaid, entry[s].broadcaster \in broadcasters, NEW target \in Scoped \union {Unset}
    PROVE  Passes(entry[s].broadcaster, target) <=> (entry[s].plan = AllEvents \/ target = entry[s].plan)
<1> DEFINE e == entry[s]
           b == entry[s].broadcaster
<1>1. b # None
  BY DEF Shape, TypeOK, Broadcaster
<1>2. InScope(s) /\ EntryOf(s, e)
  BY EntryType DEF Scoping, Shape
<1>3. CASE e.plan = AllEvents
  BY <1>1, <1>2, <1>3 DEF InScope, Passes
<1>4. CASE e.plan # AllEvents
  <2>1. PICK f \in filters : f.id = b.target /\ f.plan = e.plan
    BY <1>1, <1>2, <1>4 DEF InScope, EntryOf
  <2>2. b.target \in FilterIds
    BY <2>1 DEF Shape, TypeOK, Filter
  <2>3. \A g \in filters : g.id = b.target => g = f
    BY <2>1 DEF FiltersApart
  <2>4. b.target # AllEvents
    BY <2>2
  <2> QED
    BY <1>4, <2>1, <2>3, <2>4 DEF Passes, Scope
<1> QED
  BY <1>3, <1>4

\* What the dashboard does not name as left out is served, for every list with
\* the session's plan and after a fallback to all events; what it names is not
\* served, unless the session fell back.  The report is computed from the list
\* alone (DescribePipelineFilterPlanForSession), so nothing is claimed of a list
\* with another plan, as after a reconfigure until the next resume.
THEOREM ReportIsTrueCorrect == Spec => []ReportIsTrue
<1>1. Shape /\ Scoping /\ FiltersApart => ReportIsTrue
  <2> SUFFICES ASSUME Shape, Scoping, FiltersApart, NEW s \in Sessions,
                      entry[s] # None, s \notin mislaid, entry[s].broadcaster \in broadcasters,
                      NEW subs \in Requested, NEW i \in DOMAIN subs, subs[i].kind # "other"
               PROVE  /\ i \notin Unserved(subs) /\ entry[s].plan \in {Plan(subs), AllEvents} =>
                           Passes(entry[s].broadcaster, subs[i].target)
                      /\ i \in Unserved(subs) /\ entry[s].plan = Plan(subs) =>
                           ~Passes(entry[s].broadcaster, subs[i].target)
    BY DEF ReportIsTrue
  <2> DEFINE plan == entry[s].plan
             target == subs[i].target
  <2>1. subs[i] \in Subscription
    OBVIOUS
  <2>2. /\ \/ subs[i].kind = "hedera_hcs_topic" /\ target \in Topics \union {Unset}
           \/ subs[i].kind = "erc20_transfer" /\ target \in Contracts \union {Unset}
        /\ target \in Scoped \union {Unset}
    BY <2>1 DEF Subscription, Scoped
  <2>3. Passes(entry[s].broadcaster, target) <=> (plan = AllEvents \/ target = plan)
    BY <2>2, PassesPlan
  <2>4. plan \in Plans
    <3>1. entry[s].broadcaster # None /\ EntryOf(s, entry[s]) /\ InScope(s)
      BY EntryType DEF Shape, TypeOK, Broadcaster, Scoping
    <3> QED
      BY <3>1 DEF EntryOf, Entry, InScope, Filter, Plans
  <2>5. plan = Plan(subs) => (i \in Unserved(subs) <=> ~(plan = AllEvents \/ target = plan))
    <3>1. /\ Topics \intersect Contracts = {}
          /\ {Unset, AllEvents} \intersect (Topics \union Contracts) = {}
      BY FilterPlanAssumption
    <3>2. ASSUME plan = Plan(subs)
          PROVE  i \in Unserved(subs) <=>
            \/ plan \in Topics /\ subs[i].kind = "erc20_transfer"
            \/ plan \in Topics /\ subs[i].kind = "hedera_hcs_topic" /\ target # plan
            \/ plan \in Contracts /\ subs[i].kind = "hedera_hcs_topic"
            \/ plan \in Contracts /\ subs[i].kind = "erc20_transfer" /\ target # plan
      BY <3>2 DEF Unserved
    <3> HIDE DEF plan, target
    <3>3. plan \in Topics \union Contracts \union {AllEvents}
      BY <2>4 DEF Plans, Scoped
    <3> QED
      BY <2>2, <3>1, <3>2, <3>3
  <2> QED
    BY <2>3, <2>5
<1> QED
  BY <1>1, ShapeInvariant, ScopingInvariant, FiltersApartInvariant, PTL
=============================================================================
