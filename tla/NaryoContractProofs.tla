------------------------ MODULE NaryoContractProofs -------------------------
(***************************************************************************)
(* Proof that the Naryo client (module NaryoClient) implements its         *)
(* contract, module EgressClient, whatever the sessions, identifiers,      *)
(* lists of subscriptions, stops and failures.                             *)
(***************************************************************************)
EXTENDS NaryoClientProofs

USE NaryoClientAssumption, NoneAssumption

(***************************************************************************)
(* What the steps of a call do to broadcasters                             *)
(***************************************************************************)

\* n is the broadcaster that the call has made for session s, None without one.
Posted(s, n) ==
    \/ n = None /\ broadcasters' = broadcasters
    \/ /\ n \in NewBroadcasterId
       /\ \E m \in Broadcaster :
            m.id = n /\ m.of = s /\ broadcasters' = broadcasters \union {m}

\* Session s has an entry, with broadcaster b.
EntryWith(s, b) ==
    \E f \in Entry : f.broadcaster = b /\ entry' = [entry EXCEPT ![s] = f]

GoesOn(s) ==
    /\ EntryWith(s, None)
    /\ call'.at \in {"config", "filter", "broadcaster"}
    /\ call'.on = s /\ call'.before = call.before
    /\ \E n : Posted(s, n) /\ call'.made = call.made \union ({n} \ {None})

GivesUp(s) ==
    /\ EntryWith(s, None)
    /\ call' = Idle
    /\ \E n : Posted(s, n)

Succeeds(s) ==
    /\ \E b \in broadcasters' : b.of = s /\ EntryWith(s, b)
    /\ call' = Idle
    /\ \E n \in NewBroadcasterId : Posted(s, n)

LEMMA EnsureForms ==
    ASSUME Shape, EnsureStep
    PROVE  \E s \in Sessions :
             /\ Provisioning /\ s = call.on
             /\ entry[s] # None /\ entry[s].broadcaster = None
             /\ removing' = removing
             /\ GoesOn(s) \/ GivesUp(s) \/ Succeeds(s)
<1>1. Provisioning
  BY DEF Provisioning, EnsureStep, ConfigReady, ConfigAttached, ConfigFails,
         FilterReady, FilterMade, FilterFails, FilterFallsBack,
         BroadcasterMade, BroadcasterFails, BroadcasterFallsBack
<1>2. PICK s \in Sessions : s = call.on
  BY <1>1 DEF Shape, CallConsistent
<1> DEFINE e == entry[s]
<1>3. e # None /\ e.broadcaster = None /\ e \in Entry /\ EntryOf(s, e)
  BY <1>1, <1>2, EntryType DEF Shape, CallConsistent, EntryOf
<1>4. removing' = removing
  BY DEF EnsureStep, ConfigReady, ConfigAttached, ConfigFails,
         FilterReady, FilterMade, FilterFails, FilterFallsBack,
         BroadcasterMade, BroadcasterFails, BroadcasterFallsBack
<1>5. call \in Call
  BY DEF Shape, TypeOK
<1>6. ASSUME NEW at \in {"config", "filter", "broadcaster"}, NEW f,
             f \in Entry, f.broadcaster = None, Onward(at, f), broadcasters' = broadcasters
      PROVE  GoesOn(s)
  <2>1. entry' = [entry EXCEPT ![s] = f] /\ call' = [call EXCEPT !.at = at]
    BY <1>2, <1>6 DEF Onward
  <2>2. call'.at = at /\ call'.on = s /\ call'.before = call.before /\ call'.made = call.made
    BY <1>2, <1>5, <2>1 DEF Call
  <2>3. Posted(s, None)
    BY <1>6 DEF Posted
  <2>4. call'.made = call.made \union ({None} \ {None})
    BY <2>2
  <2> QED
    BY <1>6, <2>1, <2>2, <2>3, <2>4 DEF GoesOn, EntryWith
<1>7. ASSUME NEW f, f \in Entry, f.broadcaster = None, Return(f), \E n : Posted(s, n)
      PROVE  GivesUp(s)
  BY <1>2, <1>7 DEF Return, GivesUp, EntryWith
<1>8. ASSUME NEW n \in NewBroadcasterId, call.at = "broadcaster"
      PROVE  MadeOne(e, n) \in Broadcaster /\ MadeOne(e, n).id = n /\ MadeOne(e, n).of = s
  BY <1>2, <1>3, <1>8, NewIds
  DEF MadeOne, Target, Broadcaster, EntryOf, Entry, Filter, Shape, CallConsistent
<1>9. CASE ConfigReady
  <2>1. broadcasters' = broadcasters
    BY <1>9 DEF ConfigReady
  <2>2. ASSUME Onward("filter", e)
        PROVE  GoesOn(s)
    BY <1>3, <1>6, <2>1, <2>2
  <2>3. ASSUME fixed # None, Onward("filter", [e EXCEPT !.config = fixed, !.shared = TRUE])
        PROVE  GoesOn(s)
    <3>1. fixed \in ConfigIds
      BY <2>3 DEF Shape, TypeOK
    <3> DEFINE f == [e EXCEPT !.config = fixed, !.shared = TRUE]
    <3>2. f \in Entry /\ f.broadcaster = None
      BY <1>3, <3>1 DEF Entry
    <3> QED
      BY <1>6, <2>1, <2>3, <3>2
  <2>4. ASSUME NEW c \in NewConfig, Onward("filter", [e EXCEPT !.config = c])
        PROVE  GoesOn(s)
    <3> DEFINE f == [e EXCEPT !.config = c]
    <3>1. f \in Entry /\ f.broadcaster = None
      BY <1>3, NewIds DEF Entry
    <3> QED
      BY <1>6, <2>1, <2>4, <3>1
  <2>5. GoesOn(s)
    BY <1>2, <1>9, <2>2, <2>3, <2>4 DEF ConfigReady
  <2> QED
    BY <1>1, <1>2, <1>3, <1>4, <2>5
<1>10. CASE ConfigAttached
  <2>1. PICK c \in configs : Onward("filter", [e EXCEPT !.config = c, !.shared = TRUE])
    BY <1>2, <1>10 DEF ConfigAttached
  <2> DEFINE f == [e EXCEPT !.config = c, !.shared = TRUE]
  <2>2. f \in Entry /\ f.broadcaster = None
    BY <1>3 DEF Entry, Shape, TypeOK
  <2>3. broadcasters' = broadcasters
    BY <1>10 DEF ConfigAttached, naryoVars
  <2>4. GoesOn(s)
    BY <1>6, <2>1, <2>2, <2>3
  <2> QED
    BY <1>1, <1>2, <1>3, <1>4, <2>4
<1>11. CASE ConfigFails
  <2>1. Return(e) /\ Posted(s, None)
    BY <1>2, <1>11 DEF ConfigFails, Posted
  <2> QED
    BY <1>1, <1>2, <1>3, <1>4, <1>7, <2>1
<1>12. CASE FilterReady
  <2>1. Onward("broadcaster", e) /\ broadcasters' = broadcasters
    BY <1>2, <1>12 DEF FilterReady, naryoVars
  <2> QED
    BY <1>1, <1>2, <1>3, <1>4, <1>6, <2>1
<1>13. CASE FilterMade
  <2>1. \A n \in NewFilterId : [id |-> n, of |-> s, plan |-> call.plan] \in Filter
    BY <1>2, <1>5, <1>13, NewIds DEF FilterMade, Filter, Call, Plans
  <2>2. PICK found \in SameName(s, call.plan) :
               Onward("broadcaster", [e EXCEPT !.filter = found])
    BY <1>2, <1>13 DEF FilterMade
  <2>3. found \in Filter
    BY <1>2, <1>13, <2>1, <2>2 DEF FilterMade, SameName, Shape, TypeOK
  <2> DEFINE f == [e EXCEPT !.filter = found]
  <2>4. f \in Entry /\ f.broadcaster = None
    BY <1>3, <2>3 DEF Entry
  <2>5. broadcasters' = broadcasters
    BY <1>13 DEF FilterMade
  <2>6. GoesOn(s)
    BY <1>6, <2>2, <2>4, <2>5
  <2> QED
    BY <1>1, <1>2, <1>3, <1>4, <2>6
<1>14. CASE FilterFails
  <2> DEFINE f == [e EXCEPT !.filter = None]
  <2>1. f \in Entry /\ f.broadcaster = None
    BY <1>3 DEF Entry
  <2>2. Return(f) /\ Posted(s, None)
    BY <1>2, <1>14 DEF FilterFails, Posted
  <2>3. GivesUp(s)
    BY <1>7, <2>1, <2>2
  <2> QED
    BY <1>1, <1>2, <1>3, <1>4, <2>3
<1>15. CASE FilterFallsBack
  <2> DEFINE f == [e EXCEPT !.filter = None, !.plan = AllEvents]
  <2>1. f \in Entry /\ f.broadcaster = None
    BY <1>3 DEF Entry, Plans
  <2>2. Onward("broadcaster", f) /\ broadcasters' = broadcasters
    BY <1>2, <1>15 DEF FilterFallsBack
  <2>3. GoesOn(s)
    BY <1>6, <2>1, <2>2
  <2> QED
    BY <1>1, <1>2, <1>3, <1>4, <2>3
<1>16. CASE BroadcasterMade
  <2>1. PICK n \in NewBroadcasterId : broadcasters' = broadcasters \union {MadeOne(e, n)}
    BY <1>2, <1>16 DEF BroadcasterMade
  <2>2. Posted(s, n) /\ broadcasters' \subseteq Broadcaster
    BY <1>8, <1>16, <2>1 DEF BroadcasterMade, Posted, Shape, TypeOK
  <2>3. PICK b \in Found(e) : Return([e EXCEPT !.broadcaster = b])
    BY <1>2, <1>16 DEF BroadcasterMade
  <2> DEFINE f == [e EXCEPT !.broadcaster = b]
  <2>4. b \in broadcasters' /\ b.of = s /\ b \in Broadcaster
    BY <1>2, <2>2, <2>3 DEF Found
  <2>5. f \in Entry /\ f.broadcaster = b
    BY <1>3, <2>4 DEF Entry
  <2>6. entry' = [entry EXCEPT ![s] = f] /\ call' = Idle
    BY <1>2, <2>3 DEF Return
  <2>7. Succeeds(s)
    BY <2>2, <2>4, <2>5, <2>6 DEF Succeeds, EntryWith
  <2> QED
    BY <1>1, <1>2, <1>3, <1>4, <2>7
<1>17. CASE BroadcasterFails
  <2>1. \E n : Posted(s, n)
    BY <1>2, <1>8, <1>17 DEF BroadcasterFails, MaybeMade, Posted
  <2>2. Return(e)
    BY <1>2, <1>17 DEF BroadcasterFails
  <2> QED
    BY <1>1, <1>2, <1>3, <1>4, <1>7, <2>1, <2>2
<1>18. CASE BroadcasterFallsBack
  <2> DEFINE f == [e EXCEPT !.filter = None, !.plan = AllEvents]
  <2>1. PICK n \in NewBroadcasterId \union {None} :
          /\ broadcasters' = IF n = None THEN broadcasters
                                         ELSE broadcasters \union {MadeOne(e, n)}
          /\ entry' = [entry EXCEPT ![s] = f]
          /\ call' = [call EXCEPT !.made = @ \union ({n} \ {None})]
    BY <1>2, <1>18 DEF BroadcasterFallsBack
  <2>2. f \in Entry /\ f.broadcaster = None
    BY <1>3 DEF Entry, Plans
  <2>3. Posted(s, n)
    BY <1>8, <1>18, <2>1 DEF BroadcasterFallsBack, Posted
  <2>4. /\ call'.at = call.at /\ call'.on = s /\ call'.before = call.before
        /\ call'.made = call.made \union ({n} \ {None})
    BY <1>2, <1>5, <2>1 DEF Call
  <2>5. GoesOn(s)
    BY <1>1, <2>1, <2>2, <2>3, <2>4 DEF GoesOn, EntryWith, Provisioning
  <2> QED
    BY <1>1, <1>2, <1>3, <1>4, <2>5
<1> QED
  BY <1>9, <1>10, <1>11, <1>12, <1>13, <1>14, <1>15, <1>16, <1>17, <1>18 DEF EnsureStep

(***************************************************************************)
(* An identifier is one broadcaster's                                      *)
(***************************************************************************)

\* The broadcasters that Naryo has, and that entries and stops refer to.
Tracked == {b \in Broadcaster :
    \/ b \in broadcasters
    \/ \E s \in Sessions : entry[s] # None /\ entry[s].broadcaster = b
    \/ \E r \in removing : r.broadcaster = b}

\* No two broadcasters have an identifier, and a stop has one of its session.
\* Those that the call has made are at Naryo, and unknown to all others.
Identity ==
    /\ \A b, c \in Tracked : b.id = c.id => b = c
    /\ \A r \in removing : r.broadcaster # None => r.broadcaster.of = r.of
    /\ \A n \in call.made :
         /\ n # call.before
         /\ \E b \in broadcasters : b.id = n /\ b.of = call.on
         /\ \A r \in removing : r.broadcaster # None => r.broadcaster.id # n

LEMMA NewIdentifier ==
    ASSUME Shape, NEW n \in NewBroadcasterId
    PROVE  n \in BroadcasterIds /\ n # None /\ n # call.before /\ \A b \in Tracked : b.id # n
  BY DEF NewBroadcasterId, IdsOf, Held, Tracked

LEMMA IdentityInit == Init => Identity
  BY DEF Init, Identity, Tracked, Idle

LEMMA OneMore ==
    ASSUME Shape, Identity, NEW s, NEW n, Posted(s, n),
           Tracked' \subseteq Tracked \union (broadcasters' \ broadcasters)
    PROVE  \A b, c \in Tracked' : b.id = c.id => b = c
<1>1. CASE n = None /\ broadcasters' = broadcasters
  BY <1>1 DEF Identity
<1>2. CASE n \in NewBroadcasterId
  <2>1. PICK m \in Broadcaster : m.id = n /\ broadcasters' = broadcasters \union {m}
    BY <1>2 DEF Posted, NewBroadcasterId
  <2>2. \A b \in Tracked : b.id # m.id
    BY <1>2, <2>1, NewIdentifier
  <2> QED
    BY <2>1, <2>2 DEF Identity
<1> QED
  BY <1>1, <1>2 DEF Posted

LEMMA TrackedByEntry ==
    ASSUME Shape, NEW s \in Sessions, NEW b \in broadcasters' \union {None},
           EntryWith(s, b), broadcasters' \subseteq Broadcaster, removing' = removing
    PROVE  Tracked' \subseteq Tracked \union (broadcasters' \ broadcasters)
<1>1. PICK f \in Entry : f.broadcaster = b /\ entry' = [entry EXCEPT ![s] = f]
  BY DEF EntryWith
<1>2. entry'[s].broadcaster = b /\ \A t \in Sessions \ {s} : entry'[t] = entry[t]
  BY <1>1 DEF Shape, TypeOK
<1>3. \A c \in Tracked' : c \in Broadcaster
  BY DEF Tracked
<1>4. \A c \in Tracked' :
        \/ c \in broadcasters'
        \/ \E t \in Sessions : entry'[t] # None /\ entry'[t].broadcaster = c
        \/ \E r \in removing : r.broadcaster = c
  BY DEF Tracked
<1>5. \A c \in Tracked' :
        \/ c \in broadcasters'
        \/ \E t \in Sessions : entry[t] # None /\ entry[t].broadcaster = c
        \/ \E r \in removing : r.broadcaster = c
  BY <1>2, <1>3, <1>4
<1> QED
  BY <1>3, <1>5 DEF Tracked

LEMMA IdentityEnsure == ASSUME Shape, Identity, EnsureStep PROVE Identity'
<1>1. PICK s \in Sessions :
        /\ Provisioning /\ s = call.on
        /\ removing' = removing
        /\ GoesOn(s) \/ GivesUp(s) \/ Succeeds(s)
  BY EnsureForms
<1>2. PICK n : Posted(s, n)
  BY <1>1 DEF GoesOn, GivesUp, Succeeds
<1>3. broadcasters \subseteq broadcasters' /\ broadcasters' \subseteq Broadcaster
  BY <1>2 DEF Posted, Shape, TypeOK
<1>4. \E b \in broadcasters' \union {None} : EntryWith(s, b)
  BY <1>1 DEF GoesOn, GivesUp, Succeeds
<1>5. Tracked' \subseteq Tracked \union (broadcasters' \ broadcasters)
  BY <1>1, <1>3, <1>4, TrackedByEntry
<1>6. \A b, c \in Tracked' : b.id = c.id => b = c
  BY <1>2, <1>5, OneMore
<1>7. CASE GivesUp(s) \/ Succeeds(s)
  <2>1. call'.made = {}
    BY <1>7 DEF GivesUp, Succeeds, Idle
  <2> QED
    BY <1>1, <1>6, <2>1 DEF Identity
<1>8. CASE GoesOn(s)
  <2>1. PICK k : Posted(s, k) /\ call'.made = call.made \union ({k} \ {None})
    BY <1>8 DEF GoesOn
  <2>2. call'.on = call.on /\ call'.before = call.before
    BY <1>1, <1>8 DEF GoesOn
  <2>3. \A m \in call.made :
          /\ m # call'.before
          /\ \E b \in broadcasters' : b.id = m /\ b.of = call'.on
          /\ \A r \in removing' : r.broadcaster # None => r.broadcaster.id # m
    BY <1>1, <1>3, <2>2 DEF Identity
  <2>4. ASSUME k # None
        PROVE  /\ k # call'.before
               /\ \E b \in broadcasters' : b.id = k /\ b.of = call'.on
               /\ \A r \in removing' : r.broadcaster # None => r.broadcaster.id # k
    <3>1. k \in NewBroadcasterId /\ \E b \in broadcasters' : b.id = k /\ b.of = s
      BY <2>1, <2>4 DEF Posted
    <3>2. \A r \in removing : r.broadcaster # None => r.broadcaster \in Tracked
      BY DEF Shape, TypeOK, Removal, Tracked
    <3> QED
      BY <1>1, <2>2, <3>1, <3>2, NewIdentifier
  <2> QED
    BY <1>1, <1>6, <2>1, <2>3, <2>4 DEF Identity
<1> QED
  BY <1>1, <1>7, <1>8

\* The call, if any, has made nothing.
LEMMA NothingNew ==
    ASSUME Identity, Tracked' \subseteq Tracked, call'.made = {},
           \A r \in removing' : r.broadcaster # None => r.broadcaster.of = r.of
    PROVE  Identity'
  BY DEF Identity

LEMMA IdentityOutside ==
    ASSUME Shape, Identity, NEW s \in Sessions,
           \/ \E subs \in Requested : EnsureBegins(s, subs)
           \/ PauseDetaches(s)
           \/ PauseFails(s)
           \/ StopTakes(s)
    PROVE  Identity'
<1>1. call.at = "idle" /\ call.made = {}
  BY DEF EnsureBegins, PauseDetaches, PauseFails, StopTakes, Shape, CallConsistent, Provisioning
<1>2. \A r \in removing : r.broadcaster # None => r.broadcaster.of = r.of
  BY DEF Identity
<1>3. ASSUME EntryWith(s, None), broadcasters' \subseteq broadcasters, removing' = removing
      PROVE  Tracked' \subseteq Tracked
  <2>1. broadcasters' \subseteq Broadcaster
    BY <1>3 DEF Shape, TypeOK
  <2> QED
    BY <1>3, <2>1, TrackedByEntry
<1>4. CASE \E subs \in Requested : EnsureBegins(s, subs)
  <2>1. PICK subs \in Requested : EnsureBegins(s, subs)
    BY <1>4
  <2> DEFINE e == IF entry[s] = None THEN NewEntry ELSE entry[s]
             f == [e EXCEPT !.broadcaster = None, !.plan = Plan(subs),
                            !.filter = IF e.plan # Plan(subs) THEN None ELSE @]
  <2>2. e \in Entry
    BY DEF Shape, TypeOK, NewEntry, Entry
  <2>3. f \in Entry /\ f.broadcaster = None
    BY <2>1, <2>2, PlanType DEF Entry, EnsureBegins
  <2>4. entry' = [entry EXCEPT ![s] = f] /\ removing' = removing
          /\ broadcasters' = broadcasters /\ call'.made = {}
    BY <2>1 DEF EnsureBegins
  <2>5. EntryWith(s, None)
    BY <2>3, <2>4 DEF EntryWith
  <2> QED
    BY <1>2, <1>3, <2>4, <2>5, NothingNew
<1>5. CASE PauseDetaches(s)
  <2> DEFINE f == [entry[s] EXCEPT !.broadcaster = None]
  <2>1. entry[s] \in Entry
    BY <1>5 DEF PauseDetaches, HasBroadcaster, Shape, TypeOK
  <2>2. f \in Entry /\ f.broadcaster = None
    BY <2>1 DEF Entry
  <2>3. /\ entry' = [entry EXCEPT ![s] = f] /\ removing' = removing
        /\ broadcasters' \subseteq broadcasters /\ call' = call
    BY <1>5 DEF PauseDetaches
  <2>4. EntryWith(s, None)
    BY <2>2, <2>3 DEF EntryWith
  <2> QED
    BY <1>1, <1>2, <1>3, <2>3, <2>4, NothingNew
<1>6. CASE PauseFails(s)
  <2>1. entry' = entry /\ removing' = removing /\ call' = call /\ broadcasters' \subseteq broadcasters
    BY <1>6 DEF PauseFails
  <2>2. Tracked' \subseteq Tracked
    BY <2>1 DEF Tracked
  <2> QED
    BY <1>1, <1>2, <2>1, <2>2, NothingNew
<1>7. CASE StopTakes(s)
  <2>1. /\ entry' = [entry EXCEPT ![s] = None] /\ removing' = removing \union {RemovalOf(s)}
        /\ broadcasters' = broadcasters /\ call' = call /\ entry[s] # None
    BY <1>7 DEF StopTakes, naryoVars
  <2>2. RemovalOf(s).of = s /\ RemovalOf(s).broadcaster = entry[s].broadcaster
    BY DEF RemovalOf
  <2>3. \A t \in Sessions : entry'[t] # None => entry'[t] = entry[t]
    BY <2>1 DEF Shape, TypeOK
  <2>4. Tracked' \subseteq Tracked
    BY <2>1, <2>2, <2>3 DEF Tracked
  <2>5. \A r \in removing' : r.broadcaster # None => r.broadcaster.of = r.of
    BY <1>2, <2>1, <2>2 DEF Shape, TypeOK
  <2> QED
    BY <1>1, <2>1, <2>4, <2>5, NothingNew
<1> QED
  BY <1>4, <1>5, <1>6, <1>7

\* What a stop does to its removal r: it becomes q, or goes.
LEMMA StopForms ==
    ASSUME Shape, NEW r \in removing, StopStep(r)
    PROVE  /\ entry' = entry /\ call'.made = call.made
           /\ call'.on = call.on /\ call'.before = call.before
           /\ \/ call' = call
              \/ call.at = "idle" /\ call'.at = "clearErr"
           /\ \/ removing' = removing \ {r} /\ r.broadcaster = None
              \/ \E q \in Removal :
                   /\ Removed(r, q) /\ q.of = r.of
                   /\ q.broadcaster = None \/ q.broadcaster = r.broadcaster
                   /\ r.broadcaster # None => q.broadcaster = None
           /\ \/ broadcasters' = broadcasters
              \/ r.broadcaster # None /\ broadcasters' = broadcasters \ {r.broadcaster}
<1>1. r \in Removal /\ call \in Call
  BY DEF Shape, TypeOK
<1>2. CASE StopDeletesBroadcaster(r)
  <2> DEFINE q == [r EXCEPT !.broadcaster = None]
  <2>1. q \in Removal /\ q.of = r.of /\ q.broadcaster = None
    BY <1>1 DEF Removal
  <2>2. Removed(r, q)
    BY <1>2 DEF StopDeletesBroadcaster
  <2> HIDE DEF q
  <2> QED
    BY <1>2, <2>1, <2>2 DEF StopDeletesBroadcaster
<1>3. CASE StopDeletesFilter(r)
  <2> DEFINE q == [r EXCEPT !.filter = None]
  <2>1. q \in Removal /\ q.of = r.of /\ q.broadcaster = r.broadcaster
    BY <1>1 DEF Removal
  <2>2. Removed(r, q)
    BY <1>3 DEF StopDeletesFilter
  <2> HIDE DEF q
  <2> QED
    BY <1>3, <2>1, <2>2 DEF StopDeletesFilter
<1>4. CASE StopDeletesConfig(r)
  <2> DEFINE q == [r EXCEPT !.config = None]
  <2>1. q \in Removal /\ q.of = r.of /\ q.broadcaster = r.broadcaster
    BY <1>1 DEF Removal
  <2>2. Removed(r, q)
    BY <1>4 DEF StopDeletesConfig
  <2> HIDE DEF q
  <2> QED
    BY <1>4, <2>1, <2>2 DEF StopDeletesConfig
<1>5. CASE StopCounts(r)
  <2>1. call'.at = "clearErr" /\ call'.on = call.on
          /\ call'.made = call.made /\ call'.before = call.before
    BY <1>1, <1>5 DEF StopCounts, Call
  <2> QED
    BY <1>5, <2>1 DEF StopCounts, naryoVars
<1> QED
  BY <1>2, <1>3, <1>4, <1>5 DEF StopStep

LEMMA IdentityStop ==
    ASSUME Shape, Identity, NEW r \in removing, StopStep(r)
    PROVE  Identity'
<1>1. entry' = entry /\ call'.made = call.made /\ call'.on = call.on /\ call'.before = call.before
  BY StopForms
<1>2. \A q \in removing' : q.broadcaster # None =>
        \E x \in removing : x.of = q.of /\ x.broadcaster = q.broadcaster
  BY StopForms DEF Removed
<1>3. \/ broadcasters' = broadcasters
      \/ r.broadcaster # None /\ broadcasters' = broadcasters \ {r.broadcaster}
  BY StopForms
<1>4. Tracked' \subseteq Tracked
  <2>1. \A b \in Tracked' : b # None
    BY DEF Tracked
  <2> QED
    BY <1>1, <1>2, <1>3, <2>1 DEF Tracked
<1>5. \A q \in removing' : q.broadcaster # None => q.broadcaster.of = q.of
  BY <1>2 DEF Identity
<1>6. ASSUME NEW n \in call.made
      PROVE  /\ n # call'.before
             /\ \E b \in broadcasters' : b.id = n /\ b.of = call'.on
             /\ \A q \in removing' : q.broadcaster # None => q.broadcaster.id # n
  <2>1. PICK b \in broadcasters : b.id = n /\ b.of = call.on
    BY DEF Identity
  <2>2. r.broadcaster # None => r.broadcaster # b
    BY <2>1 DEF Identity
  <2> QED
    BY <1>1, <1>2, <1>3, <2>1, <2>2 DEF Identity
<1> QED
  BY <1>1, <1>4, <1>5, <1>6 DEF Identity

LEMMA IdentityInvariant == Spec => []Identity
<1>1. Shape /\ Identity /\ [Next]_vars => Identity'
  <2> SUFFICES ASSUME Shape, Identity, [Next]_vars
               PROVE  Identity'
    OBVIOUS
  <2>1. CASE Next
    BY <2>1, IdentityEnsure, IdentityOutside, IdentityStop DEF Next
  <2>2. CASE UNCHANGED vars
    BY <2>2 DEF vars, naryoVars, Identity, Tracked
  <2> QED
    BY <2>1, <2>2
<1> QED
  BY <1>1, IdentityInit, ShapeInvariant, PTL DEF Spec

(***************************************************************************)
(* The contract's state, and the steps on it                               *)
(***************************************************************************)

LEMMA AtNaryoIs ==
    ASSUME Shape, Shape'
    PROVE  /\ \A t, n : n \in AtNaryo(t) <=>
                n \notin call.made /\ \E b \in broadcasters : b.of = t /\ b.id = n
           /\ \A t, n : n \in AtNaryo(t)' <=>
                n \notin call'.made /\ \E b \in broadcasters' : b.of = t /\ b.id = n
  BY DEF AtNaryo, IdsOf, Shape, TypeOK

LEMMA TakenIs ==
    /\ \A t, n : n \in TakenOver(t) <=>
         \E r \in removing : r.of = t /\ r.broadcaster # None /\ r.broadcaster.id = n
    /\ \A t, n : n \in TakenOver(t)' <=>
         \E r \in removing' : r.of = t /\ r.broadcaster # None /\ r.broadcaster.id = n
  BY DEF TakenOver, IdsOf

\* How a step on session s shows in the functions of the contract.
LEMMA NaryoAt ==
    ASSUME NEW s \in Sessions, NEW x, AtNaryo(s)' = x,
           \A t \in Sessions \ {s} : AtNaryo(t)' = AtNaryo(t)
    PROVE  naryo' = [naryo EXCEPT ![s] = x]
  BY DEF naryo

LEMMA HandleAt ==
    ASSUME NEW s \in Sessions, NEW x, HandleOf(s)' = x,
           \A t \in Sessions \ {s} : HandleOf(t)' = HandleOf(t)
    PROVE  handle' = [handle EXCEPT ![s] = x]
  BY DEF handle

LEMMA TakenAt ==
    ASSUME NEW s \in Sessions, NEW x, TakenOver(s)' = x,
           \A t \in Sessions \ {s} : TakenOver(t)' = TakenOver(t)
    PROVE  taken' = [taken EXCEPT ![s] = x]
  BY DEF taken

LEMMA SameNaryo ==
    ASSUME \A t \in Sessions : AtNaryo(t)' = AtNaryo(t)
    PROVE  naryo' = naryo
  BY DEF naryo

LEMMA SameHandle ==
    ASSUME \A t \in Sessions : HandleOf(t)' = HandleOf(t)
    PROVE  handle' = handle
  BY DEF handle

LEMMA SameTaken ==
    ASSUME removing' = removing
    PROVE  taken' = taken
  BY DEF taken, TakenOver

LEMMA KnownAt ==
    ASSUME Shape, NEW s \in Sessions, NEW b, EntryWith(s, b)
    PROVE  /\ known' = [known EXCEPT ![s] = TRUE]
           /\ entry[s] # None => known' = known
           /\ entry'[s] # None /\ entry'[s].broadcaster = b
           /\ \A t \in Sessions \ {s} : entry'[t] = entry[t]
<1>1. PICK f \in Entry : f.broadcaster = b /\ entry' = [entry EXCEPT ![s] = f]
  BY DEF EntryWith
<1>2. /\ entry'[s] = f /\ f # None
      /\ \A t \in Sessions \ {s} : entry'[t] = entry[t]
  BY <1>1 DEF Shape, TypeOK
<1>3. \A t \in Sessions : (entry'[t] # None) = (IF t = s THEN TRUE ELSE entry[t] # None)
  BY <1>2
<1>4. known' = [known EXCEPT ![s] = TRUE]
  BY <1>3 DEF known
<1>5. entry[s] # None => known' = known
  BY <1>3 DEF known
<1> QED
  BY <1>1, <1>2, <1>4, <1>5

LEMMA ContractInit == Init => Contract!Init
<1> SUFFICES ASSUME Init
             PROVE  Contract!Init
  OBVIOUS
<1>1. \A s \in Sessions : /\ (entry[s] # None) = FALSE
                          /\ HandleOf(s) = None
                          /\ AtNaryo(s) = {} /\ TakenOver(s) = {}
  BY DEF Init, HandleOf, Ensuring, Idle, AtNaryo, TakenOver, IdsOf
<1> QED
  BY <1>1 DEF Contract!Init, known, handle, naryo, taken

\* Others' handles are as they were, when the call is on session s throughout.
LEMMA OthersHandles ==
    ASSUME NEW s \in Sessions,
           \A t \in Sessions \ {s} : entry'[t] = entry[t] /\ ~Ensuring(t) /\ ~Ensuring(t)'
    PROVE  \A t \in Sessions \ {s} : HandleOf(t)' = HandleOf(t)
  BY DEF HandleOf, BroadcasterId

LEMMA BeginsSeen ==
    ASSUME Shape, Shape', NEW s \in Sessions, NEW subs \in Requested, EnsureBegins(s, subs)
    PROVE  Contract!Open(s)
<1> DEFINE e == IF entry[s] = None THEN NewEntry ELSE entry[s]
           f == [e EXCEPT !.broadcaster = None, !.plan = Plan(subs),
                          !.filter = IF e.plan # Plan(subs) THEN None ELSE @]
<1>1. e \in Entry
  BY DEF Shape, TypeOK, NewEntry, Entry
<1>2. f \in Entry /\ f.broadcaster = None
  BY <1>1, PlanType DEF Entry, EnsureBegins
<1>3. /\ entry' = [entry EXCEPT ![s] = f] /\ removing' = removing /\ broadcasters' = broadcasters
      /\ call.at = "idle" /\ call'.at = "config" /\ call'.on = s /\ call'.made = {}
      /\ call'.before = IF e.broadcaster = None THEN None ELSE e.broadcaster.id
  BY DEF EnsureBegins
<1>4. EntryWith(s, None)
  BY <1>2, <1>3 DEF EntryWith
<1>5. known' = [known EXCEPT ![s] = TRUE] /\ \A t \in Sessions \ {s} : entry'[t] = entry[t]
  BY <1>4, KnownAt
<1>6. call.made = {}
  BY <1>3 DEF Shape, CallConsistent, Provisioning
<1>7. naryo' = naryo
  BY <1>3, <1>6, SameNaryo DEF AtNaryo
<1>8. HandleOf(s)' = HandleOf(s)
  BY <1>3 DEF HandleOf, Ensuring, BroadcasterId, NewEntry
<1>9. \A t \in Sessions \ {s} : HandleOf(t)' = HandleOf(t)
  BY <1>3, <1>5, OthersHandles DEF Ensuring
<1>10. handle' = handle /\ taken' = taken
  BY <1>3, <1>8, <1>9, SameHandle, SameTaken
<1> QED
  BY <1>5, <1>7, <1>10 DEF Contract!Open

\* What the call has made so far shows at Naryo only when it returns.
LEMMA NaryoBehindCall ==
    ASSUME Shape, Shape', Identity, NEW s \in Sessions, s = call.on, NEW k, Posted(s, k)
    PROVE  /\ call'.made = call.made \union ({k} \ {None}) =>
                \A t \in Sessions : AtNaryo(t)' = AtNaryo(t)
           /\ call'.made = {} =>
                /\ AtNaryo(s)' = AtNaryo(s) \union (call.made \union ({k} \ {None}))
                /\ \A t \in Sessions \ {s} : AtNaryo(t)' = AtNaryo(t)
<1>1. \A n \in call.made : \E b \in broadcasters : b.id = n /\ b.of = s
  BY DEF Identity
<1>2. \A b, c \in broadcasters : b.id = c.id => b = c
  BY DEF Identity, Tracked, Shape, TypeOK
<1>3. \A n \in call.made : \A b \in broadcasters : b.id = n => b.of = s
  BY <1>1, <1>2
<1>4. CASE k = None /\ broadcasters' = broadcasters
  <2>1. call'.made = call.made => \A t \in Sessions : \A n : n \in AtNaryo(t)' <=> n \in AtNaryo(t)
    BY <1>4, AtNaryoIs
  <2>2. call'.made = {} =>
          \A n : n \in AtNaryo(s)' <=> n \in AtNaryo(s) \/ n \in call.made
    BY <1>1, <1>4, AtNaryoIs
  <2>3. call'.made = {} =>
          \A t \in Sessions \ {s} : \A n : n \in AtNaryo(t)' <=> n \in AtNaryo(t)
    BY <1>3, <1>4, AtNaryoIs
  <2>4. call.made \union ({k} \ {None}) = call.made
    BY <1>4
  <2>5. call'.made = call.made => \A t \in Sessions : AtNaryo(t)' = AtNaryo(t)
    BY <2>1
  <2>6. call'.made = {} => AtNaryo(s)' = AtNaryo(s) \union call.made
    BY <2>2
  <2>7. call'.made = {} => \A t \in Sessions \ {s} : AtNaryo(t)' = AtNaryo(t)
    BY <2>3
  <2> QED
    BY <2>4, <2>5, <2>6, <2>7
<1>5. CASE k \in NewBroadcasterId
  <2>1. PICK m \in Broadcaster : m.id = k /\ m.of = s /\ broadcasters' = broadcasters \union {m}
    BY <1>5 DEF Posted, NewBroadcasterId
  <2>2. k # None /\ \A b \in broadcasters : b.id # k
    BY <1>5, NewIdentifier DEF Tracked, Shape, TypeOK
  <2>3. \A t, n : (\E b \in broadcasters' : b.of = t /\ b.id = n)
              <=> (\E b \in broadcasters : b.of = t /\ b.id = n) \/ (t = s /\ n = k)
    BY <2>1
  <2>4. call.made \union ({k} \ {None}) = call.made \union {k}
    BY <2>2
  <2>5. k \notin call.made
    BY <1>1, <2>2
  <2>6. call'.made = call.made \union {k} =>
          \A t \in Sessions : \A n : n \in AtNaryo(t)' <=> n \in AtNaryo(t)
    BY <2>2, <2>3, AtNaryoIs
  <2>7. call'.made = {} =>
          \A n : n \in AtNaryo(s)' <=> n \in AtNaryo(s) \/ n \in call.made \/ n = k
    <3>1. \A n : (\E b \in broadcasters : b.of = s /\ b.id = n)
                <=> n \in AtNaryo(s) \/ n \in call.made
      BY <1>1, AtNaryoIs
    <3>2. call'.made = {} =>
            \A n : n \in AtNaryo(s)' <=> \E b \in broadcasters' : b.of = s /\ b.id = n
      BY AtNaryoIs
    <3> QED
      BY <2>3, <3>1, <3>2
  <2>8. call'.made = {} =>
          \A t \in Sessions \ {s} : \A n : n \in AtNaryo(t)' <=> n \in AtNaryo(t)
    BY <1>3, <2>3, AtNaryoIs
  <2>9. call'.made = call.made \union {k} => \A t \in Sessions : AtNaryo(t)' = AtNaryo(t)
    BY <2>6
  <2>10. call'.made = {} => AtNaryo(s)' = AtNaryo(s) \union (call.made \union {k})
    BY <2>7
  <2>11. call'.made = {} => \A t \in Sessions \ {s} : AtNaryo(t)' = AtNaryo(t)
    BY <2>8
  <2> QED
    BY <2>4, <2>9, <2>10, <2>11
<1> QED
  BY <1>4, <1>5 DEF Posted

\* The contract has not seen what the call has made.
LEMMA MadeFresh ==
    ASSUME Shape, Shape', Identity, NEW s \in Sessions, Provisioning, s = call.on,
           NEW k, Posted(s, k)
    PROVE  call.made \union ({k} \ {None}) \subseteq Contract!Fresh(s)
<1>1. naryo[s] = AtNaryo(s) /\ taken[s] = TakenOver(s) /\ handle[s] = HandleOf(s)
  BY DEF naryo, taken, handle
<1>2. HandleOf(s) = call.before
  BY DEF HandleOf, Ensuring, Provisioning
<1>3. call.made \subseteq BroadcasterIds
  BY DEF Shape, TypeOK, Call
<1>4. ASSUME NEW n \in call.made
      PROVE  n \notin AtNaryo(s) /\ n \notin TakenOver(s) /\ n # call.before
  BY AtNaryoIs, TakenIs DEF Identity
<1>5. ASSUME k \in NewBroadcasterId
      PROVE  k \notin AtNaryo(s) /\ k \notin TakenOver(s) /\ k # call.before /\ k \in BroadcasterIds
  <2>1. \A b \in broadcasters : b.id # k
    BY <1>5, NewIdentifier DEF Tracked, Shape, TypeOK
  <2>2. \A r \in removing : r.broadcaster # None => r.broadcaster.id # k
    BY <1>5, NewIdentifier DEF Tracked, Shape, TypeOK, Removal
  <2> QED
    BY <1>5, <2>1, <2>2, AtNaryoIs, TakenIs, NewIdentifier
<1> QED
  BY <1>1, <1>2, <1>3, <1>4, <1>5 DEF Contract!Fresh, Posted

LEMMA EnsureSeen ==
    ASSUME Shape, Shape', Identity, EnsureStep
    PROVE  Contract!Next \/ UNCHANGED Contract!vars
<1>1. PICK s \in Sessions :
        /\ Provisioning /\ s = call.on
        /\ entry[s] # None /\ entry[s].broadcaster = None
        /\ removing' = removing
        /\ GoesOn(s) \/ GivesUp(s) \/ Succeeds(s)
  BY EnsureForms
<1>2. taken' = taken /\ known[s]
  BY <1>1, SameTaken DEF known
<1>3. \A t \in Sessions \ {s} : ~Ensuring(t)
  BY <1>1 DEF Ensuring
<1>4. CASE GoesOn(s)
  <2>1. EntryWith(s, None) /\ call'.on = s /\ call'.before = call.before
          /\ call'.at \in {"config", "filter", "broadcaster"}
    BY <1>4 DEF GoesOn
  <2>2. known' = known /\ \A t \in Sessions \ {s} : entry'[t] = entry[t]
    BY <1>1, <2>1, KnownAt
  <2>3. \A t \in Sessions \ {s} : HandleOf(t)' = HandleOf(t)
    BY <1>3, <2>1, <2>2, OthersHandles DEF Ensuring
  <2>4. HandleOf(s)' = HandleOf(s)
    BY <1>1, <2>1 DEF HandleOf, Ensuring, Provisioning
  <2>5. handle' = handle
    BY <2>3, <2>4, SameHandle
  <2>6. PICK k : Posted(s, k) /\ call'.made = call.made \union ({k} \ {None})
    BY <1>4 DEF GoesOn
  <2>7. naryo' = naryo
    BY <1>1, <2>6, NaryoBehindCall, SameNaryo
  <2> QED
    BY <1>2, <2>2, <2>5, <2>7 DEF Contract!vars
<1>5. ASSUME NEW b, EntryWith(s, b), call' = Idle
      PROVE  /\ known' = known
             /\ handle' = [handle EXCEPT ![s] = IF b = None THEN None ELSE b.id]
  <2>1. /\ known' = known /\ entry'[s] # None /\ entry'[s].broadcaster = b
        /\ \A t \in Sessions \ {s} : entry'[t] = entry[t]
    BY <1>1, <1>5, KnownAt
  <2>2. \A t \in Sessions : ~Ensuring(t)'
    BY <1>5 DEF Ensuring, Idle
  <2>3. \A t \in Sessions \ {s} : HandleOf(t)' = HandleOf(t)
    BY <1>3, <2>1, <2>2, OthersHandles
  <2>4. HandleOf(s)' = IF b = None THEN None ELSE b.id
    BY <2>1, <2>2 DEF HandleOf, BroadcasterId
  <2> QED
    BY <2>1, <2>3, <2>4, HandleAt
<1>6. ASSUME NEW k, Posted(s, k), call' = Idle
      PROVE  \E made \in SUBSET Contract!Fresh(s) :
               /\ naryo' = [naryo EXCEPT ![s] = naryo[s] \union made]
               /\ made = call.made \union ({k} \ {None})
  <2> DEFINE made == call.made \union ({k} \ {None})
  <2>1. made \in SUBSET Contract!Fresh(s)
    BY <1>1, <1>6, MadeFresh
  <2>2. call'.made = {}
    BY <1>6 DEF Idle
  <2>3. AtNaryo(s)' = AtNaryo(s) \union made /\ \A t \in Sessions \ {s} : AtNaryo(t)' = AtNaryo(t)
    BY <1>1, <1>6, <2>2, NaryoBehindCall
  <2>4. naryo[s] = AtNaryo(s)
    BY DEF naryo
  <2>5. AtNaryo(s)' = naryo[s] \union made
    BY <2>3, <2>4
  <2> HIDE DEF made
  <2>6. naryo' = [naryo EXCEPT ![s] = naryo[s] \union made]
    BY <2>3, <2>5, NaryoAt
  <2> QED
    BY <2>1, <2>6 DEF made
<1>7. CASE GivesUp(s)
  <2>1. PICK k : Posted(s, k)
    BY <1>7 DEF GivesUp
  <2>2. /\ known' = known /\ handle' = [handle EXCEPT ![s] = None]
    BY <1>5, <1>7 DEF GivesUp
  <2>3. \E made \in SUBSET Contract!Fresh(s) : naryo' = [naryo EXCEPT ![s] = naryo[s] \union made]
    BY <1>6, <1>7, <2>1 DEF GivesUp
  <2>4. Contract!GiveUp(s)
    BY <1>2, <2>2, <2>3 DEF Contract!GiveUp
  <2> QED
    BY <2>4 DEF Contract!Next
<1>8. CASE Succeeds(s)
  <2>1. PICK k \in NewBroadcasterId : Posted(s, k)
    BY <1>8 DEF Succeeds
  <2>2. PICK b \in broadcasters' : b.of = s /\ EntryWith(s, b)
    BY <1>8 DEF Succeeds
  <2>3. call' = Idle
    BY <1>8 DEF Succeeds
  <2>4. b # None
    BY <2>2 DEF Shape, TypeOK
  <2>5. known' = known /\ handle' = [handle EXCEPT ![s] = b.id]
    BY <1>5, <2>2, <2>3, <2>4
  <2>6. PICK made \in SUBSET Contract!Fresh(s) :
          naryo' = [naryo EXCEPT ![s] = naryo[s] \union made] /\ k \in made
    BY <1>1, <1>6, <2>1, <2>3, NewIdentifier
  <2>7. b.id \in naryo'[s]
    <3>1. call'.made = {}
      BY <2>3 DEF Idle
    <3>2. b.id \in AtNaryo(s)'
      BY <2>2, <3>1, AtNaryoIs
    <3> QED
      BY <3>2 DEF naryo
  <2>8. Contract!Provision(s)
    BY <1>2, <2>5, <2>6, <2>7 DEF Contract!Provision
  <2> QED
    BY <2>8 DEF Contract!Next
<1> QED
  BY <1>1, <1>4, <1>7, <1>8

\* Outside a call that provisions, a session's handle is its entry's broadcaster.
LEMMA HandleOutside ==
    ASSUME Shape, call.at = "idle", NEW s \in Sessions, entry[s] # None
    PROVE  /\ call.made = {}
           /\ handle[s] = BroadcasterId(entry[s].broadcaster)
           /\ HandleOf(s) = BroadcasterId(entry[s].broadcaster)
           /\ \A t \in Sessions : ~Ensuring(t)
  BY DEF Shape, CallConsistent, Provisioning, handle, HandleOf, Ensuring

\* Naryo's broadcaster b is session s's, or nobody's: it is deleted.
LEMMA NaryoWithout ==
    ASSUME Shape, Shape', Identity, NEW s \in Sessions, NEW b \in Tracked, b.of = s,
           broadcasters' = broadcasters \ {b}, call'.made = call.made
    PROVE  naryo' = [naryo EXCEPT ![s] = naryo[s] \ {b.id}]
<1>1. \A c \in broadcasters : c.id = b.id => c = b
  BY DEF Identity, Tracked, Shape, TypeOK
<1>2. \A n : n \in AtNaryo(s)' <=> n \in AtNaryo(s) /\ n # b.id
  BY <1>1, AtNaryoIs
<1>3. \A t \in Sessions \ {s} : \A n : n \in AtNaryo(t)' <=> n \in AtNaryo(t)
  BY AtNaryoIs
<1>4. AtNaryo(s)' = AtNaryo(s) \ {b.id}
  BY <1>2
<1>5. \A t \in Sessions \ {s} : AtNaryo(t)' = AtNaryo(t)
  BY <1>3
<1>6. naryo[s] = AtNaryo(s)
  BY DEF naryo
<1>7. AtNaryo(s)' = naryo[s] \ {b.id}
  BY <1>4, <1>6
<1> QED
  BY <1>5, <1>7, NaryoAt

LEMMA PauseSeen ==
    ASSUME Shape, Shape', Identity, NEW s \in Sessions, PauseDetaches(s) \/ PauseFails(s)
    PROVE  Contract!Next \/ UNCHANGED Contract!vars
<1>1. call.at = "idle" /\ entry[s] # None /\ entry[s].broadcaster # None
        /\ call' = call /\ removing' = removing
  BY DEF PauseDetaches, PauseFails, HasBroadcaster
<1> PICK b \in Broadcaster : b = entry[s].broadcaster
  BY <1>1 DEF Shape, TypeOK, Entry
<1>2. b \in Tracked /\ b.of = s
  BY <1>1 DEF Tracked, Shape, TypeOK
<1>3. call.made = {} /\ handle[s] = b.id /\ \A t \in Sessions : ~Ensuring(t) /\ ~Ensuring(t)'
  BY <1>1, HandleOutside DEF BroadcasterId, Ensuring
<1>4. broadcasters' = broadcasters \ {b} => naryo' = [naryo EXCEPT ![s] = naryo[s] \ {handle[s]}]
  BY <1>1, <1>2, <1>3, NaryoWithout
<1>5. taken' = taken
  BY <1>1, SameTaken
<1>6. CASE PauseDetaches(s)
  <2> DEFINE f == [entry[s] EXCEPT !.broadcaster = None]
  <2>1. f \in Entry /\ f.broadcaster = None
    BY <1>1 DEF Entry, Shape, TypeOK
  <2>2. entry' = [entry EXCEPT ![s] = f] /\ broadcasters' = broadcasters \ {b}
    BY <1>6 DEF PauseDetaches
  <2>3. EntryWith(s, None)
    BY <2>1, <2>2 DEF EntryWith
  <2>4. /\ known' = known /\ entry'[s] # None /\ entry'[s].broadcaster = None
        /\ \A t \in Sessions \ {s} : entry'[t] = entry[t]
    BY <1>1, <2>3, KnownAt
  <2>5. \A t \in Sessions \ {s} : HandleOf(t)' = HandleOf(t)
    BY <1>3, <2>4, OthersHandles
  <2>6. HandleOf(s)' = None
    BY <1>3, <2>4 DEF HandleOf, BroadcasterId
  <2>7. handle' = [handle EXCEPT ![s] = None]
    BY <2>5, <2>6, HandleAt
  <2>8. Contract!Detach(s)
    BY <1>4, <1>5, <2>2, <2>4, <2>7 DEF Contract!Detach
  <2> QED
    BY <2>8 DEF Contract!Next
<1>7. CASE PauseFails(s)
  <2>1. entry' = entry /\ broadcasters' \in {broadcasters, broadcasters \ {b}}
    BY <1>7 DEF PauseFails
  <2>2. known' = known
    BY <2>1 DEF known
  <2>3. handle' = handle
    BY <1>3, <2>1, SameHandle DEF HandleOf, BroadcasterId
  <2>4. CASE broadcasters' = broadcasters
    <3>1. naryo' = naryo
      BY <1>1, <2>4, SameNaryo DEF AtNaryo
    <3> QED
      BY <1>5, <2>2, <2>3, <3>1 DEF Contract!vars
  <2>5. CASE broadcasters' = broadcasters \ {b}
    <3>1. Contract!Detach(s)
      BY <1>4, <1>5, <2>2, <2>3, <2>5 DEF Contract!Detach
    <3> QED
      BY <3>1 DEF Contract!Next
  <2> QED
    BY <2>1, <2>4, <2>5
<1> QED
  BY <1>6, <1>7

LEMMA TakesSeen ==
    ASSUME Shape, Shape', Identity, NEW s \in Sessions, StopTakes(s)
    PROVE  Contract!Take(s)
<1>1. /\ call.at = "idle" /\ call' = call /\ broadcasters' = broadcasters
      /\ entry[s] # None /\ entry' = [entry EXCEPT ![s] = None]
      /\ removing' = removing \union {RemovalOf(s)}
  BY DEF StopTakes, naryoVars
<1>2. entry'[s] = None /\ \A t \in Sessions \ {s} : entry'[t] = entry[t]
  BY <1>1 DEF Shape, TypeOK
<1>3. known[s] /\ known' = [known EXCEPT ![s] = FALSE]
  <2>1. \A t \in Sessions : (entry'[t] # None) = (IF t = s THEN FALSE ELSE entry[t] # None)
    BY <1>2
  <2> QED
    BY <1>1, <2>1 DEF known
<1>4. /\ handle[s] = BroadcasterId(entry[s].broadcaster)
      /\ \A t \in Sessions : ~Ensuring(t) /\ ~Ensuring(t)'
  BY <1>1, HandleOutside DEF Ensuring
<1>5. handle' = [handle EXCEPT ![s] = None]
  <2>1. \A t \in Sessions \ {s} : HandleOf(t)' = HandleOf(t)
    BY <1>2, <1>4, OthersHandles
  <2>2. HandleOf(s)' = None
    BY <1>2, <1>4 DEF HandleOf
  <2> QED
    BY <2>1, <2>2, HandleAt
<1>6. taken' = [taken EXCEPT ![s] = taken[s] \union ({handle[s]} \ {None})]
  <2>1. RemovalOf(s).of = s /\ RemovalOf(s).broadcaster = entry[s].broadcaster
    BY DEF RemovalOf
  <2>2. entry[s].broadcaster # None => entry[s].broadcaster.id # None
    BY <1>1 DEF Shape, TypeOK, Entry, Broadcaster
  <2>3. \A n : n \in {handle[s]} \ {None}
          <=> entry[s].broadcaster # None /\ n = entry[s].broadcaster.id
    BY <1>4, <2>2 DEF BroadcasterId
  <2>4. \A n : n \in TakenOver(s)' <=> n \in TakenOver(s) \/ n \in {handle[s]} \ {None}
    <3>1. \A n : n \in TakenOver(s)' <=>
            \/ \E r \in removing : r.of = s /\ r.broadcaster # None /\ r.broadcaster.id = n
            \/ entry[s].broadcaster # None /\ n = entry[s].broadcaster.id
      BY <1>1, <2>1, TakenIs
    <3>2. \A n : n \in TakenOver(s)' <=>
            n \in TakenOver(s) \/ (entry[s].broadcaster # None /\ n = entry[s].broadcaster.id)
      BY <3>1, TakenIs
    <3> QED
      BY <2>3, <3>2
  <2>5. \A t \in Sessions \ {s} : \A n : n \in TakenOver(t)' <=> n \in TakenOver(t)
    BY <1>1, <2>1, TakenIs
  <2>6. TakenOver(s)' = TakenOver(s) \union ({handle[s]} \ {None})
    BY <2>4
  <2>7. \A t \in Sessions \ {s} : TakenOver(t)' = TakenOver(t)
    BY <2>5
  <2>8. TakenOver(s)' = taken[s] \union ({handle[s]} \ {None})
    BY <2>6 DEF taken
  <2> QED
    BY <2>7, <2>8, TakenAt
<1>7. naryo' = naryo
  BY <1>1, SameNaryo DEF AtNaryo
<1> QED
  BY <1>3, <1>5, <1>6, <1>7 DEF Contract!Take

LEMMA StopSeen ==
    ASSUME Shape, Shape', Identity, NEW r \in removing, StopStep(r)
    PROVE  Contract!Next \/ UNCHANGED Contract!vars
<1>1. /\ entry' = entry /\ call'.made = call.made /\ call'.on = call.on
      /\ call'.before = call.before
      /\ call' = call \/ (call.at = "idle" /\ call'.at = "clearErr")
  BY StopForms
<1> PICK s \in Sessions : s = r.of
  BY DEF Shape, TypeOK, Removal
<1>2. known' = known
  BY <1>1 DEF known
<1>3. handle' = handle
  <2>1. \A t \in Sessions : Ensuring(t)' <=> Ensuring(t)
    BY <1>1 DEF Ensuring
  <2> QED
    BY <1>1, <2>1, SameHandle DEF HandleOf, BroadcasterId
<1>4. \A t \in Sessions \ {s} : TakenOver(t)' = TakenOver(t)
  <2>1. \A t \in Sessions \ {s} : \A n : n \in TakenOver(t)' <=> n \in TakenOver(t)
    BY StopForms, TakenIs DEF Removed
  <2> QED
    BY <2>1
<1>5. CASE r.broadcaster = None
  <2>1. \A n : n \in TakenOver(s)' <=> n \in TakenOver(s)
    BY <1>5, StopForms, TakenIs DEF Removed
  <2>2. taken' = taken
    <3>1. TakenOver(s)' = TakenOver(s)
      BY <2>1
    <3>2. \A t \in Sessions : TakenOver(t)' = TakenOver(t)
      BY <1>4, <3>1
    <3> QED
      BY <3>2 DEF taken
  <2>3. broadcasters' = broadcasters
    BY <1>5, StopForms
  <2>4. naryo' = naryo
    BY <1>1, <2>3, SameNaryo DEF AtNaryo
  <2> QED
    BY <1>2, <1>3, <2>2, <2>4 DEF Contract!vars
<1>6. CASE r.broadcaster # None
  <2> PICK b \in Broadcaster : b = r.broadcaster
    BY <1>6 DEF Shape, TypeOK, Removal
  <2>1. b \in Tracked /\ b.of = s
    BY <1>6 DEF Tracked, Identity
  <2>2. taken[s] = TakenOver(s) /\ b.id \in taken[s]
    <3>1. b.id \in TakenOver(s)
      BY <1>6, TakenIs
    <3> QED
      BY <3>1 DEF taken
  <2>3. taken' = taken \/ taken' = [taken EXCEPT ![s] = taken[s] \ {b.id}]
    <3>1. \E q \in Removal : Removed(r, q) /\ q.broadcaster = None
      BY <1>6, StopForms
    <3>2. \A n : n \in TakenOver(s)' <=>
            \E x \in removing \ {r} : x.of = s /\ x.broadcaster # None /\ x.broadcaster.id = n
      BY <3>1, TakenIs DEF Removed
    <3>3. \A n : n \in TakenOver(s) <=> n \in TakenOver(s)' \/ n = b.id
      BY <1>6, <3>2, TakenIs
    <3>4. CASE b.id \in TakenOver(s)'
      <4>1. \A n : n \in TakenOver(s)' <=> n \in TakenOver(s)
        BY <3>3, <3>4
      <4>2. TakenOver(s)' = TakenOver(s)
        BY <4>1
      <4>3. \A t \in Sessions : TakenOver(t)' = TakenOver(t)
        BY <1>4, <4>2
      <4> QED
        BY <4>3 DEF taken
    <3>5. CASE b.id \notin TakenOver(s)'
      <4>1. \A n : n \in TakenOver(s)' <=> n \in TakenOver(s) /\ n # b.id
        BY <3>3, <3>5
      <4>2. TakenOver(s)' = taken[s] \ {b.id}
        BY <2>2, <4>1
      <4> QED
        BY <1>4, <4>2, TakenAt
    <3> QED
      BY <3>4, <3>5
  <2>4. naryo' = naryo \/ naryo' = [naryo EXCEPT ![s] = naryo[s] \ {b.id}]
    <3>1. CASE broadcasters' = broadcasters
      BY <1>1, <3>1, SameNaryo DEF AtNaryo
    <3>2. CASE broadcasters' = broadcasters \ {b}
      BY <1>1, <2>1, <3>2, NaryoWithout
    <3> QED
      BY <3>1, <3>2, StopForms
  <2>5. Contract!Release(s)
    BY <1>2, <1>3, <2>2, <2>3, <2>4 DEF Contract!Release
  <2> QED
    BY <2>5 DEF Contract!Next
<1> QED
  BY <1>5, <1>6

\* Whatever a call exchanges with Naryo, and whatever falls back or fails
\* beside the deletions of stops, its callers see one of the steps of the
\* contract when it returns, on the session of the call alone.
THEOREM ContractImplemented == Spec => ImplementsContract
<1>1. Shape /\ Shape' /\ Identity /\ [Next]_vars => [Contract!Next]_Contract!vars
  <2> SUFFICES ASSUME Shape, Shape', Identity, [Next]_vars
               PROVE  Contract!Next \/ UNCHANGED Contract!vars
    OBVIOUS
  <2>1. CASE \E s \in Sessions, subs \in Requested : EnsureBegins(s, subs)
    BY <2>1, BeginsSeen DEF Contract!Next
  <2>2. CASE EnsureStep
    BY <2>2, EnsureSeen
  <2>3. CASE \E s \in Sessions : PauseDetaches(s) \/ PauseFails(s)
    BY <2>3, PauseSeen
  <2>4. CASE \E s \in Sessions : StopTakes(s)
    BY <2>4, TakesSeen DEF Contract!Next
  <2>5. CASE \E r \in removing : StopStep(r)
    BY <2>5, StopSeen
  <2>6. CASE UNCHANGED vars
    BY <2>6 DEF vars, naryoVars, Contract!vars, known, handle, naryo, taken,
                HandleOf, Ensuring, BroadcasterId, AtNaryo, TakenOver, IdsOf
  <2> QED
    BY <2>1, <2>2, <2>3, <2>4, <2>5, <2>6 DEF Next
<1> QED
  BY <1>1, ContractInit, ShapeInvariant, IdentityInvariant, PTL
  DEF Spec, ImplementsContract, Contract!Spec
=============================================================================
