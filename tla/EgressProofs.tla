---------------------------- MODULE EgressProofs ----------------------------
(***************************************************************************)
(* Proofs about module Egress, for every set of sessions, of requests in   *)
(* flight and of broadcasters, and any number of failures: types, what a   *)
(* step may do, and that the module implements its contract with the Naryo *)
(* client, module EgressClient.                                            *)
(***************************************************************************)
EXTENDS Egress, TLAPS

-----------------------------------------------------------------------------
(* Calls *)

\* A call that moves on from one step to the next changes nothing else of
\* itself, and nothing of the others.
Moved(c, at) ==
    \A d \in Callers :
        /\ call'[d].op = call[d].op
        /\ call'[d].on = call[d].on
        /\ call'[d].taken = call[d].taken
        /\ call'[d].at = IF d = c THEN at ELSE call[d].at

LEMMA Moves ==
    ASSUME call \in [Callers -> Call], NEW c \in Callers, NEW at \in Steps, Goto(c, at)
    PROVE  call' \in [Callers -> Call] /\ Moved(c, at)
<1> DEFINE m == [call[c] EXCEPT !.at = at]
<1>1. \A d \in Callers : call[d] \in Call
  OBVIOUS
<1>2. /\ m \in Call
      /\ m.op = call[c].op /\ m.on = call[c].on /\ m.taken = call[c].taken /\ m.at = at
  BY <1>1 DEF Call
<1>3. call' = [call EXCEPT ![c] = m]
  BY DEF Goto
<1> HIDE DEF m
<1>4. call' \in [Callers -> Call]
  BY <1>2, <1>3
<1>5. Moved(c, at)
  BY <1>2, <1>3 DEF Moved
<1> QED
  BY <1>4, <1>5

\* What the members of Call are made of.
LEMMA CallFields ==
    ASSUME call \in [Callers -> Call], NEW c \in Callers
    PROVE  /\ call[c].op \in {"start", "resume", "pause", "stop", "tick"}
           /\ call[c].on \in Sessions
           /\ call[c].at \in Steps
           /\ call[c].taken \in Broadcasters \union {NoBroadcaster}
  BY DEF Call

\* At most one call holds the client's mutex, and none when it is free.
LEMMA FreeClient ==
    ASSUME TypeOK, clientMu = Nobody, NEW c \in Callers
    PROVE  ~InClient(c)
  BY EgressAssumption DEF TypeOK, Callers

-----------------------------------------------------------------------------
(* Initial states *)

LEMMA TrackingInit == Init => Tracking
<1> SUFFICES ASSUME Init
             PROVE  Tracking
  OBVIOUS
<1>1. PICK t \in Sessions : call = [c \in Callers |-> Idle(t)]
  BY DEF Init
<1>2. Idle(t) \in Call
  BY DEF Idle, Call, Steps
<1>3. \A c \in Callers : /\ call[c].op = "tick" /\ call[c].at = "idle"
                         /\ call[c].taken = NoBroadcaster
  BY <1>1 DEF Idle
<1>4. call \in [Callers -> Call]
  BY <1>1, <1>2
<1>5. \A c \in Callers : ~InUpdate(c) /\ ~InClient(c) /\ c # Nobody
  BY <1>3, EgressAssumption DEF InUpdate, InClient, Callers
<1>6. TypeOK
  BY <1>4, <1>5, EgressAssumption DEF Init, TypeOK
<1>7. CallsConsistent
  BY <1>3 DEF Init, CallsConsistent, Callers
<1>8. BroadcastersTracked
  BY DEF Init, BroadcastersTracked
<1> QED
  BY <1>6, <1>7, <1>8 DEF Tracking

-----------------------------------------------------------------------------
(* What a move does to the mutexes and to what is tracked *)

Mutexes ==
    \A d \in Callers : /\ storeMu = d <=> InUpdate(d)
                       /\ clientMu = d <=> InClient(d)

UpdateSteps == {"ensure", "ensuring", "commit"}
ClientSteps == {"ensuring", "pausing", "clearErr"}

\* A call moves on and keeps a mutex, or takes a free one, or releases its own.
Keeps(mu, c, inside, insideNext) ==
    \/ mu' = mu /\ (inside <=> insideNext)
    \/ mu = Nobody /\ mu' = c /\ insideNext
    \/ inside /\ mu' = Nobody /\ ~insideNext

LEMMA MoveMutexes ==
    ASSUME Mutexes, NEW c \in Callers, NEW at, Moved(c, at),
           Keeps(storeMu, c, InUpdate(c), call[c].op = "start" /\ at \in UpdateSteps),
           Keeps(clientMu, c, InClient(c), at \in ClientSteps)
    PROVE  Mutexes'
<1> SUFFICES ASSUME NEW d \in Callers
             PROVE  /\ storeMu' = d <=> InUpdate(d)'
                    /\ clientMu' = d <=> InClient(d)'
  BY DEF Mutexes
<1>1. c # Nobody /\ d # Nobody
  BY EgressAssumption DEF Callers
<1>2. /\ storeMu = d <=> InUpdate(d)
      /\ storeMu = c <=> InUpdate(c)
      /\ clientMu = d <=> InClient(d)
      /\ clientMu = c <=> InClient(c)
  BY DEF Mutexes
<1>3. CASE d = c
  <2>1. InUpdate(d)' <=> call[c].op = "start" /\ at \in UpdateSteps
    BY <1>3 DEF Moved, InUpdate, UpdateSteps
  <2>2. InClient(d)' <=> at \in ClientSteps
    BY <1>3 DEF Moved, InClient, ClientSteps
  <2>3. storeMu' = d <=> InUpdate(d)'
    BY <1>1, <1>2, <1>3, <2>1 DEF Keeps
  <2>4. clientMu' = d <=> InClient(d)'
    BY <1>1, <1>2, <1>3, <2>2 DEF Keeps
  <2> QED
    BY <2>3, <2>4
<1>4. CASE d # c
  <2>1. InUpdate(d)' <=> InUpdate(d)
    BY <1>4 DEF Moved, InUpdate
  <2>2. InClient(d)' <=> InClient(d)
    BY <1>4 DEF Moved, InClient
  <2>3. storeMu' = d <=> InUpdate(d)'
    BY <1>1, <1>2, <1>4, <2>1 DEF Keeps
  <2>4. clientMu' = d <=> InClient(d)'
    BY <1>1, <1>2, <1>4, <2>2 DEF Keeps
  <2> QED
    BY <2>3, <2>4
<1> QED
  BY <1>3, <1>4

\* A step that changes neither who works on a session nor what a stop has
\* taken over, and adds no broadcaster, loses none.
LEMMA TrackedKept ==
    ASSUME BroadcastersTracked, UNCHANGED handle, replaced \subseteq replaced',
           \A s \in Sessions : naryo'[s] \subseteq naryo[s],
           \A d \in Callers : call'[d].on = call[d].on /\ call'[d].taken = call[d].taken
    PROVE  BroadcastersTracked'
<1>1. \A s \in Sessions : Taken(s)' = Taken(s)
  BY DEF Taken
<1> QED
  BY <1>1 DEF BroadcastersTracked, Tracked

\* A call moves on, outside of the client.
LEMMA QuietMove ==
    ASSUME Tracking, NEW c \in Callers, NEW at \in Steps \ {"lookup", "ensuring"},
           Moved(c, at), call[c].at # "teardown", at = "commit" => call[c].op = "start",
           UNCHANGED clientVars, replaced \subseteq replaced'
    PROVE  CallsConsistent' /\ BroadcastersTracked'
<1>1. CallsConsistent'
  BY DEF Tracking, CallsConsistent, Moved, clientVars, Callers
<1>2. BroadcastersTracked'
  BY TrackedKept DEF Tracking, Moved, clientVars
<1> QED
  BY <1>1, <1>2

\* Types of what the moves of a call do not share.
RestTyped ==
    /\ state \in [Sessions -> {Created, Running, Paused, Stopped}]
    /\ replan \in [Sessions -> BOOLEAN]
    /\ storeMu \in Requests \union {Nobody}
    /\ todo \subseteq Sessions
    /\ pauseIDs \subseteq Sessions
    /\ failures \in 0 .. MaxFailures
    /\ disturbed \subseteq Sessions
    /\ replaced \subseteq Sessions

ClientTyped ==
    /\ known \in [Sessions -> BOOLEAN]
    /\ handle \in [Sessions -> Broadcasters \union {NoBroadcaster}]
    /\ naryo \in [Sessions -> SUBSET Broadcasters]

LEMMA TypeParts ==
    TypeOK <=> /\ RestTyped /\ ClientTyped /\ Mutexes
               /\ call \in [Callers -> Call]
               /\ clientMu \in Callers \union {Nobody}
  BY DEF TypeOK, RestTyped, ClientTyped, Mutexes

LEMMA QuietStep ==
    ASSUME Tracking, NEW c \in Callers, NEW at \in Steps \ {"lookup", "ensuring"},
           Goto(c, at), call[c].at # "teardown", at = "commit" => call[c].op = "start",
           UNCHANGED clientVars, replaced \subseteq replaced', RestTyped',
           Keeps(storeMu, c, InUpdate(c), call[c].op = "start" /\ at \in UpdateSteps),
           Keeps(clientMu, c, InClient(c), at \in ClientSteps)
    PROVE  Tracking'
<1>1. TypeOK
  BY DEF Tracking
<1>2. call' \in [Callers -> Call] /\ Moved(c, at)
  BY <1>1, Moves DEF TypeOK
<1>3. Mutexes'
  BY <1>1, <1>2, MoveMutexes, TypeParts
<1>4. clientMu' \in Callers \union {Nobody}
  BY <1>1 DEF TypeOK, Keeps
<1>5. ClientTyped'
  BY <1>1 DEF TypeOK, ClientTyped, clientVars
<1>6. TypeOK'
  BY <1>2, <1>3, <1>4, <1>5 DEF TypeOK, RestTyped, ClientTyped, Mutexes
<1>7. CallsConsistent' /\ BroadcastersTracked'
  BY <1>2, QuietMove
<1> QED
  BY <1>6, <1>7 DEF Tracking

-----------------------------------------------------------------------------
(* Steps of a request outside the client *)

LEMMA RequestQuiet ==
    ASSUME Tracking, NEW r \in Requests,
           \/ Lookup(r) \/ StartRejected(r) \/ StartLocks(r) \/ StartCommits(r)
           \/ ResumeCounts(r) \/ ResumeCommits(r) \/ ResumeRejected(r)
           \/ PauseCommits(r) \/ PauseRejected(r)
           \/ StopCounts(r) \/ StopCommits(r)
    PROVE  Tracking'
<1> USE DEF Keeps, UpdateSteps, ClientSteps, Steps, Free, historyVars
<1>1. /\ r \in Callers /\ call[r].on \in Sessions
      /\ call[r].op \in {"start", "resume", "pause", "stop", "tick"}
      /\ RestTyped
  BY CallFields DEF Callers, Tracking, TypeOK, RestTyped
<1>2. /\ storeMu = r <=> InUpdate(r)
      /\ clientMu = r <=> InClient(r)
      /\ r # Nobody
  BY <1>1, EgressAssumption DEF Tracking, TypeOK
<1>3. CASE Lookup(r)
  <2>1. call[r].op \in {"start", "resume", "stop"}
    BY <1>1, <1>3 DEF Lookup, Tracking, CallsConsistent
  <2>2. PICK at \in {"update", "ensure", "take"} :
          Goto(r, at) /\ (at = "ensure" => call[r].op = "resume")
    BY <1>3, <2>1 DEF Lookup
  <2>3. ~InUpdate(r) /\ ~InClient(r)
    BY <1>3 DEF Lookup, InUpdate, InClient
  <2>4. /\ call[r].at = "lookup"
        /\ UNCHANGED <<state, replan, clientVars, storeMu, clientMu, todo, pauseIDs,
                       failures, disturbed, replaced>>
    BY <1>3 DEF Lookup
  <2> QED
    BY <1>1, <2>2, <2>3, <2>4, QuietStep DEF RestTyped
<1>4. CASE StartRejected(r)
  BY <1>1, <1>4, QuietStep DEF StartRejected, Answer, InUpdate, InClient, RestTyped
<1>5. CASE StartLocks(r)
  BY <1>1, <1>5, QuietStep DEF StartLocks, InUpdate, InClient, RestTyped
<1>6. CASE StartCommits(r)
  <2>1. call[r].op = "start"
    BY <1>1, <1>6 DEF StartCommits, Tracking, CallsConsistent
  <2> QED
    BY <1>1, <1>2, <1>6, <2>1, QuietStep
       DEF StartCommits, AnswerOK, Answer, InUpdate, InClient, RestTyped
<1>7. CASE ResumeCounts(r)
  BY <1>1, <1>7, QuietStep DEF ResumeCounts, InUpdate, InClient, RestTyped
<1>8. CASE ResumeCommits(r)
  BY <1>1, <1>8, QuietStep
     DEF ResumeCommits, AnswerOK, Answer, InUpdate, InClient, RestTyped
<1>9. CASE ResumeRejected(r)
  BY <1>1, <1>9, QuietStep DEF ResumeRejected, Answer, InUpdate, InClient, RestTyped
<1>10. CASE PauseCommits(r)
  BY <1>1, <1>10, QuietStep
     DEF PauseCommits, AnswerOK, Answer, InUpdate, InClient, RestTyped
<1>11. CASE PauseRejected(r)
  BY <1>1, <1>11, QuietStep DEF PauseRejected, Answer, InUpdate, InClient, RestTyped
<1>12. CASE StopCounts(r)
  BY <1>1, <1>12, QuietStep DEF StopCounts, InUpdate, InClient, RestTyped
<1>13. CASE StopCommits(r)
  BY <1>1, <1>13, QuietStep
     DEF StopCommits, AnswerOK, Answer, InUpdate, InClient, RestTyped
<1> QED
  BY <1>3, <1>4, <1>5, <1>6, <1>7, <1>8, <1>9, <1>10, <1>11, <1>12, <1>13

-----------------------------------------------------------------------------
(* Steps of the client *)

\* A call leaves the client's critical section.
LEMMA ClientLeft ==
    ASSUME Tracking, NEW c \in Callers,
           NEW at \in Steps \ ({"lookup"} \union ClientSteps),
           call[c].at \in {"ensuring", "pausing"}, at = "commit" => call[c].op = "start",
           Goto(c, at), clientMu' = Nobody, UNCHANGED known, RestTyped', ClientTyped',
           Keeps(storeMu, c, InUpdate(c), call[c].op = "start" /\ at \in UpdateSteps),
           \A s \in Sessions : ~known[s] => handle'[s] = NoBroadcaster,
           BroadcastersTracked'
    PROVE  Tracking'
<1>1. TypeOK
  BY DEF Tracking
<1>2. call' \in [Callers -> Call] /\ Moved(c, at)
  BY <1>1, Moves DEF TypeOK
<1>3. InClient(c) /\ at \notin ClientSteps
  BY DEF InClient
<1>4. Mutexes'
  BY <1>1, <1>2, <1>3, MoveMutexes, TypeParts DEF Keeps
<1>5. TypeOK'
  BY <1>2, <1>4 DEF TypeOK, RestTyped, ClientTyped, Mutexes
<1>6. CallsConsistent'
  BY <1>2 DEF Tracking, CallsConsistent, Moved, Callers, ClientSteps
<1> QED
  BY <1>5, <1>6 DEF Tracking

\* A change of one session's broadcasters leaves the others tracked.
LEMMA OneSession ==
    ASSUME Tracking, NEW s \in Sessions, NEW c \in Callers, NEW at, Moved(c, at),
           \A x \in Sessions \ {s} : handle'[x] = handle[x] /\ naryo'[x] = naryo[x],
           replaced \subseteq replaced',
           s \in replaced' \/ naryo'[s] \subseteq {handle'[s]} \union Taken(s)
    PROVE  BroadcastersTracked'
<1>1. \A x \in Sessions : Taken(x)' = Taken(x)
  BY DEF Taken, Moved
<1> QED
  BY <1>1 DEF Tracking, BroadcastersTracked, Tracked

\* The broadcaster that EnsurePipeline makes is the only one, unless another
\* was in place or was about to be deleted.
LEMMA NewIsTracked ==
    ASSUME Tracking, NEW s \in Sessions, s \notin replaced, NewBroadcaster(s),
           ~Delivering(s), Taken(s) = {NoBroadcaster}
    PROVE  naryo'[s] \subseteq {handle'[s]} \union Taken(s)
<1>1. handle \in [Sessions -> Broadcasters \union {NoBroadcaster}]
  BY DEF Tracking, TypeOK
<1>2. naryo \in [Sessions -> SUBSET Broadcasters]
  BY DEF Tracking, TypeOK
<1>3. naryo[s] \subseteq {handle[s], NoBroadcaster}
  BY DEF Tracking, BroadcastersTracked, Tracked
<1>4. naryo[s] = {}
  BY <1>2, <1>3, EgressAssumption DEF Delivering
<1>5. PICK b \in Broadcasters :
        /\ naryo' = [naryo EXCEPT ![s] = naryo[s] \union {b}]
        /\ \E found \in {b} \union naryo[s] : handle' = [handle EXCEPT ![s] = found]
  BY DEF NewBroadcaster, Fresh
<1>6. naryo'[s] = {b} /\ handle'[s] = b
  BY <1>1, <1>2, <1>4, <1>5
<1> QED
  BY <1>6

\* A new broadcaster is of the right type and changes no other session.
LEMMA NewTyped ==
    ASSUME Tracking, NEW s \in Sessions, NewBroadcaster(s), UNCHANGED known
    PROVE  /\ ClientTyped'
           /\ \A x \in Sessions \ {s} : handle'[x] = handle[x] /\ naryo'[x] = naryo[x]
<1>1. /\ handle \in [Sessions -> Broadcasters \union {NoBroadcaster}]
      /\ naryo \in [Sessions -> SUBSET Broadcasters]
      /\ known \in [Sessions -> BOOLEAN]
  BY DEF Tracking, TypeOK
<1>2. PICK b \in Broadcasters :
        /\ naryo' = [naryo EXCEPT ![s] = naryo[s] \union {b}]
        /\ \E found \in {b} \union naryo[s] : handle' = [handle EXCEPT ![s] = found]
  BY DEF NewBroadcaster, Fresh
<1> PICK found \in {b} \union naryo[s] : handle' = [handle EXCEPT ![s] = found]
  BY <1>2
<1>3. found \in Broadcasters
  BY <1>1, <1>2
<1>4. handle' \in [Sessions -> Broadcasters \union {NoBroadcaster}]
  BY <1>1, <1>2, <1>3
<1>5. naryo' \in [Sessions -> SUBSET Broadcasters]
  BY <1>1, <1>2
<1> QED
  BY <1>1, <1>2, <1>4, <1>5 DEF ClientTyped

\* A start whose config is refused gives the store's mutex back.
LEMMA EnsureRefusedTracks ==
    ASSUME Tracking, NEW c \in Callers, EnsureRefused(c)
    PROVE  Tracking'
<1>1. TypeOK /\ RestTyped
  BY DEF Tracking, TypeOK, RestTyped
<1>2. /\ call[c].at = "ensure" /\ Goto(c, "idle") /\ ReleaseStore(c)
      /\ UNCHANGED <<state, replan, clientVars, clientMu, todo, pauseIDs, failures,
                     disturbed, replaced>>
  BY DEF EnsureRefused, Answer, historyVars
<1>3. /\ ~InClient(c) /\ c # Nobody
      /\ storeMu = c <=> InUpdate(c)
  BY <1>1, <1>2, EgressAssumption DEF InClient, TypeOK, Callers
<1>4. /\ "idle" \in Steps \ {"lookup", "ensuring"}
      /\ "idle" \notin UpdateSteps /\ "idle" \notin ClientSteps
  BY DEF Steps, UpdateSteps, ClientSteps
<1>5. Keeps(storeMu, c, InUpdate(c), call[c].op = "start" /\ "idle" \in UpdateSteps)
  BY <1>2, <1>3, <1>4 DEF Keeps, ReleaseStore
<1>6. Keeps(clientMu, c, InClient(c), "idle" \in ClientSteps)
  BY <1>2, <1>3, <1>4 DEF Keeps
<1>7. RestTyped'
  BY <1>1, <1>2 DEF RestTyped, ReleaseStore
<1> QED
  BY <1>2, <1>4, <1>5, <1>6, <1>7, QuietStep

LEMMA EnsureLocksTracks ==
    ASSUME Tracking, NEW c \in Callers, EnsureLocks(c)
    PROVE  Tracking'
<1>1. TypeOK /\ call[c].on \in Sessions /\ call[c].at = "ensure" /\ clientMu = Nobody
  BY CallFields DEF Tracking, TypeOK, EnsureLocks, Free
<1>2. call' \in [Callers -> Call] /\ Moved(c, "ensuring")
  BY <1>1, Moves DEF TypeOK, EnsureLocks, Steps
<1>3. /\ InUpdate(c) <=> call[c].op = "start" /\ "ensuring" \in UpdateSteps
      /\ "ensuring" \in ClientSteps
  BY <1>1 DEF InUpdate, UpdateSteps, ClientSteps
<1>4. Mutexes'
  BY <1>1, <1>2, <1>3, MoveMutexes, TypeParts DEF Keeps, EnsureLocks
<1>5. known \in [Sessions -> BOOLEAN] /\ known' = [known EXCEPT ![call[c].on] = TRUE]
  BY <1>1 DEF TypeOK, EnsureLocks
<1>6. /\ known' \in [Sessions -> BOOLEAN]
      /\ known'[call[c].on]
      /\ \A s \in Sessions : known[s] => known'[s]
  BY <1>1, <1>5
<1>7. TypeOK'
  BY <1>1, <1>2, <1>4, <1>6 DEF TypeOK, Mutexes, EnsureLocks, historyVars
<1>8. CallsConsistent'
  <2>1. /\ CallsConsistent /\ UNCHANGED handle
        /\ \A d \in Callers : call[d].on \in Sessions
    BY <1>1, CallFields DEF Tracking, EnsureLocks, TypeOK
  <2> QED
    BY <1>1, <1>2, <1>6, <2>1 DEF CallsConsistent, Moved, Callers
<1>9. BroadcastersTracked'
  BY <1>2, TrackedKept DEF Tracking, Moved, EnsureLocks, historyVars
<1> QED
  BY <1>7, <1>8, <1>9 DEF Tracking

\* What every return from EnsurePipeline has in common.
LEMMA Ensuring ==
    ASSUME Tracking, NEW c \in Callers, call[c].at = "ensuring"
    PROVE  /\ TypeOK /\ RestTyped /\ call[c].on \in Sessions
           /\ known[call[c].on]
           /\ \A s \in Sessions : ~known[s] => s # call[c].on /\ handle[s] = NoBroadcaster
           /\ InUpdate(c) <=> call[c].op = "start"
           /\ InUpdate(c) <=> storeMu = c
           /\ c # Nobody
           /\ AfterEnsure(c) \in Steps \ ({"lookup"} \union ClientSteps)
           /\ AfterEnsure(c) = "commit" => call[c].op = "start"
           /\ call[c].op = "start" /\ AfterEnsure(c) \in UpdateSteps <=> call[c].op = "start"
<1>1. TypeOK /\ CallsConsistent
  BY DEF Tracking
<1>2. RestTyped /\ call[c].on \in Sessions
  BY <1>1, CallFields DEF TypeOK, RestTyped
<1>3. known[call[c].on] /\ \A s \in Sessions : ~known[s] => handle[s] = NoBroadcaster
  BY <1>1 DEF CallsConsistent
<1>4. (InUpdate(c) <=> call[c].op = "start") /\ (InUpdate(c) <=> storeMu = c)
  BY <1>1 DEF TypeOK, InUpdate
<1>5. c # Nobody
  BY EgressAssumption DEF Callers
<1>6. AfterEnsure(c) = IF call[c].op = "start" THEN "commit" ELSE "count"
  BY DEF AfterEnsure
<1> QED
  BY <1>1, <1>2, <1>3, <1>4, <1>5, <1>6 DEF Steps, ClientSteps, UpdateSteps

LEMMA EnsureTracks ==
    ASSUME Tracking, NEW c \in Callers,
           EnsureReuses(c) \/ EnsureCreates(c) \/ EnsureMissesOne(c)
    PROVE  Tracking'
<1> DEFINE s  == call[c].on
           at == AfterEnsure(c)
<1>1. /\ call[c].at = "ensuring" /\ Goto(c, at) /\ clientMu' = Nobody
      /\ UNCHANGED <<state, known, storeMu, todo, pauseIDs>>
  BY DEF EnsureReuses, EnsureCreates, EnsureMissesOne, clientVars
<1>2. /\ TypeOK /\ RestTyped /\ s \in Sessions /\ known[s]
      /\ \A x \in Sessions : ~known[x] => x # s /\ handle[x] = NoBroadcaster
      /\ InUpdate(c) <=> call[c].op = "start"
      /\ at \in Steps \ ({"lookup"} \union ClientSteps)
      /\ at = "commit" => call[c].op = "start"
      /\ call[c].op = "start" /\ at \in UpdateSteps <=> call[c].op = "start"
  BY <1>1, Ensuring
<1> HIDE DEF at
<1>3. Keeps(storeMu, c, InUpdate(c), call[c].op = "start" /\ at \in UpdateSteps)
  BY <1>1, <1>2 DEF Keeps
<1>4. at \in Steps /\ Moved(c, at)
  BY <1>1, <1>2, Moves DEF TypeOK
<1>5. CASE EnsureReuses(c)
  <2>1. UNCHANGED <<handle, naryo, replan, failures, disturbed, replaced>>
    BY <1>5 DEF EnsureReuses, clientVars, historyVars
  <2>2. BroadcastersTracked'
    BY <1>4, <2>1, TrackedKept DEF Tracking, Moved
  <2>3. RestTyped' /\ ClientTyped'
    BY <1>1, <1>2, <2>1 DEF TypeOK, RestTyped, ClientTyped
  <2> QED
    BY <1>1, <1>2, <1>3, <2>1, <2>2, <2>3, ClientLeft
<1>6. CASE EnsureCreates(c)
  <2>1. /\ NewBroadcaster(s)
        /\ replan' = [replan EXCEPT ![s] = FALSE]
        /\ replaced' = IF Delivering(s) \/ Taken(s) # {NoBroadcaster}
                          THEN replaced \union {s} ELSE replaced
        /\ UNCHANGED <<failures, disturbed>>
    BY <1>6 DEF EnsureCreates
  <2>2. /\ ClientTyped'
        /\ \A x \in Sessions \ {s} : handle'[x] = handle[x] /\ naryo'[x] = naryo[x]
    BY <1>1, <1>2, <2>1, NewTyped
  <2>3. RestTyped'
    BY <1>1, <1>2, <2>1 DEF RestTyped
  <2>4. s \in replaced' \/ naryo'[s] \subseteq {handle'[s]} \union Taken(s)
    BY <1>2, <2>1, NewIsTracked
  <2>5. BroadcastersTracked'
    BY <1>2, <1>4, <2>1, <2>2, <2>4, OneSession
  <2>6. \A x \in Sessions : ~known[x] => handle'[x] = NoBroadcaster
    BY <1>2, <2>2
  <2> QED
    BY <1>1, <1>2, <1>3, <2>2, <2>3, <2>5, <2>6, ClientLeft
<1>7. CASE EnsureMissesOne(c)
  <2>1. NewBroadcaster(s) /\ NaryoFails(s) /\ UNCHANGED replan
    BY <1>7 DEF EnsureMissesOne
  <2>2. /\ ClientTyped'
        /\ \A x \in Sessions \ {s} : handle'[x] = handle[x] /\ naryo'[x] = naryo[x]
    BY <1>1, <1>2, <2>1, NewTyped
  <2>3. RestTyped'
    BY <1>1, <1>2, <2>1, EgressAssumption DEF RestTyped, NaryoFails
  <2>4. s \in replaced' /\ replaced \subseteq replaced'
    BY <2>1 DEF NaryoFails
  <2>5. BroadcastersTracked'
    BY <1>2, <1>4, <2>2, <2>4, OneSession
  <2>6. \A x \in Sessions : ~known[x] => handle'[x] = NoBroadcaster
    BY <1>2, <2>2
  <2> QED
    BY <1>1, <1>2, <1>3, <2>2, <2>3, <2>5, <2>6, ClientLeft
<1> QED
  BY <1>5, <1>6, <1>7

\* The fallback to all events makes one broadcaster or two.
LEMMA EnsureFallsBackTracks ==
    ASSUME Tracking, NEW c \in Callers, EnsureFallsBack(c)
    PROVE  Tracking'
<1> DEFINE s  == call[c].on
           at == AfterEnsure(c)
<1>1. /\ call[c].at = "ensuring" /\ Goto(c, at) /\ clientMu' = Nobody
      /\ NaryoFails(s)
      /\ replan' = [replan EXCEPT ![s] = TRUE]
      /\ UNCHANGED <<state, known, storeMu, todo, pauseIDs>>
  BY DEF EnsureFallsBack
<1>2. /\ TypeOK /\ RestTyped /\ s \in Sessions /\ known[s]
      /\ \A x \in Sessions : ~known[x] => x # s /\ handle[x] = NoBroadcaster
      /\ InUpdate(c) <=> call[c].op = "start"
      /\ at \in Steps \ ({"lookup"} \union ClientSteps)
      /\ at = "commit" => call[c].op = "start"
      /\ call[c].op = "start" /\ at \in UpdateSteps <=> call[c].op = "start"
  BY <1>1, Ensuring
<1>3. PICK a \in Fresh(s), b \in Fresh(s) :
        /\ naryo' = [naryo EXCEPT ![s] = naryo[s] \union {a, b}]
        /\ \E found \in {a, b} \union naryo[s] : handle' = [handle EXCEPT ![s] = found]
  BY DEF EnsureFallsBack
<1> PICK found \in {a, b} \union naryo[s] : handle' = [handle EXCEPT ![s] = found]
  BY <1>3
<1>4. a \in Broadcasters /\ b \in Broadcasters
  BY DEF Fresh
<1> HIDE DEF at, s
<1>5. Keeps(storeMu, c, InUpdate(c), call[c].op = "start" /\ at \in UpdateSteps)
  BY <1>1, <1>2 DEF Keeps
<1>6. at \in Steps /\ Moved(c, at)
  BY <1>1, <1>2, Moves DEF TypeOK
<1>7. /\ handle \in [Sessions -> Broadcasters \union {NoBroadcaster}]
      /\ naryo \in [Sessions -> SUBSET Broadcasters]
      /\ known \in [Sessions -> BOOLEAN]
  BY <1>2 DEF TypeOK
<1>8. /\ found \in Broadcasters
      /\ naryo[s] \union {a, b} \in SUBSET Broadcasters
  BY <1>2, <1>4, <1>7
<1>9. handle' \in [Sessions -> Broadcasters \union {NoBroadcaster}]
  BY <1>7, <1>8
<1>10. naryo' \in [Sessions -> SUBSET Broadcasters]
  BY <1>3, <1>7, <1>8
<1>11. \A x \in Sessions \ {s} : handle'[x] = handle[x] /\ naryo'[x] = naryo[x]
  BY <1>3, <1>7
<1>12. ClientTyped'
  BY <1>1, <1>7, <1>9, <1>10 DEF ClientTyped
<1>13. RestTyped'
  BY <1>1, <1>2, EgressAssumption DEF RestTyped, NaryoFails
<1>14. s \in replaced' /\ replaced \subseteq replaced'
  BY <1>1 DEF NaryoFails
<1>15. BroadcastersTracked'
  BY <1>2, <1>6, <1>11, <1>14, OneSession
<1>16. \A x \in Sessions : ~known[x] => handle'[x] = NoBroadcaster
  BY <1>2, <1>11
<1> QED
  BY <1>1, <1>2, <1>5, <1>12, <1>13, <1>15, <1>16, ClientLeft

LEMMA EnsureFailsTracks ==
    ASSUME Tracking, NEW c \in Callers, EnsureFails(c)
    PROVE  Tracking'
<1> DEFINE s == call[c].on
<1>1. /\ call[c].at = "ensuring" /\ Goto(c, "idle") /\ clientMu' = Nobody
      /\ NaryoFails(s) /\ ReleaseStore(c)
      /\ UNCHANGED <<state, known, todo, pauseIDs>>
  BY DEF EnsureFails, Answer
<1>2. /\ TypeOK /\ RestTyped /\ s \in Sessions
      /\ \A x \in Sessions : ~known[x] => x # s /\ handle[x] = NoBroadcaster
      /\ InUpdate(c) <=> storeMu = c
      /\ c # Nobody
  BY <1>1, Ensuring
<1>3. "idle" \in Steps \ ({"lookup"} \union ClientSteps) /\ "idle" \notin UpdateSteps
  BY DEF Steps, ClientSteps, UpdateSteps
<1>4. Keeps(storeMu, c, InUpdate(c), call[c].op = "start" /\ "idle" \in UpdateSteps)
  BY <1>1, <1>2, <1>3 DEF Keeps, ReleaseStore
<1>5. Moved(c, "idle")
  BY <1>1, <1>2, <1>3, Moves DEF TypeOK
<1>6. /\ handle \in [Sessions -> Broadcasters \union {NoBroadcaster}]
      /\ naryo \in [Sessions -> SUBSET Broadcasters]
      /\ known \in [Sessions -> BOOLEAN]
      /\ replan \in [Sessions -> BOOLEAN]
  BY <1>2 DEF TypeOK
<1>7. /\ handle' = [handle EXCEPT ![s] = NoBroadcaster]
      /\ naryo' = naryo
           \/ \E a, b \in Broadcasters : naryo' = [naryo EXCEPT ![s] = naryo[s] \union {a, b}]
      /\ replan' = [replan EXCEPT ![s] = FALSE]
  BY DEF EnsureFails, Fresh
<1>8. /\ handle' \in [Sessions -> Broadcasters \union {NoBroadcaster}]
      /\ naryo' \in [Sessions -> SUBSET Broadcasters]
      /\ replan' \in [Sessions -> BOOLEAN]
      /\ \A x \in Sessions \ {s} : handle'[x] = handle[x] /\ naryo'[x] = naryo[x]
  <2> HIDE DEF s
  <2>1. /\ handle' \in [Sessions -> Broadcasters \union {NoBroadcaster}]
        /\ \A x \in Sessions \ {s} : handle'[x] = handle[x]
    BY <1>2, <1>6, <1>7
  <2>2. /\ naryo' \in [Sessions -> SUBSET Broadcasters]
        /\ \A x \in Sessions \ {s} : naryo'[x] = naryo[x]
    <3>1. CASE naryo' = naryo
      BY <1>6, <3>1
    <3>2. CASE \E a, b \in Broadcasters : naryo' = [naryo EXCEPT ![s] = naryo[s] \union {a, b}]
      <4>1. PICK a \in Broadcasters, b \in Broadcasters :
              naryo' = [naryo EXCEPT ![s] = naryo[s] \union {a, b}]
        BY <3>2
      <4>2. naryo[s] \union {a, b} \in SUBSET Broadcasters
        BY <1>2, <1>6
      <4> QED
        BY <1>6, <4>1, <4>2
    <3> QED
      BY <1>7, <3>1, <3>2
  <2>3. replan' \in [Sessions -> BOOLEAN]
    BY <1>6, <1>7
  <2> QED
    BY <2>1, <2>2, <2>3
<1>9. ClientTyped'
  BY <1>1, <1>6, <1>8 DEF ClientTyped
<1>10. RestTyped'
  BY <1>1, <1>2, <1>8, EgressAssumption DEF RestTyped, NaryoFails, ReleaseStore
<1>11. s \in replaced' /\ replaced \subseteq replaced'
  BY <1>1 DEF NaryoFails
<1>12. BroadcastersTracked'
  BY <1>2, <1>5, <1>8, <1>11, OneSession
<1>13. \A x \in Sessions : ~known[x] => handle'[x] = NoBroadcaster
  BY <1>2, <1>8
<1> QED
  BY <1>1, <1>3, <1>4, <1>9, <1>10, <1>12, <1>13, ClientLeft

LEMMA PauseLocksTracks ==
    ASSUME Tracking, NEW c \in Callers, PauseLocks(c)
    PROVE  Tracking'
<1>1. RestTyped
  BY DEF Tracking, TypeOK, RestTyped
<1>2. /\ call[c].at = "egress" /\ Goto(c, "pausing")
      /\ clientMu = Nobody /\ clientMu' = c
      /\ UNCHANGED <<state, replan, clientVars, storeMu, todo, pauseIDs, failures,
                     disturbed, replaced>>
  BY DEF PauseLocks, Free, historyVars
<1>3. ~InUpdate(c) /\ ~InClient(c)
  BY <1>2 DEF InUpdate, InClient
<1> QED
  BY <1>1, <1>2, <1>3, QuietStep DEF RestTyped, Keeps, Steps, UpdateSteps, ClientSteps

\* PauseEgress deletes the broadcaster that the client knows of, or fails.
LEMMA PauseTracks ==
    ASSUME Tracking, NEW c \in Callers, PauseDetaches(c) \/ PauseFails(c)
    PROVE  Tracking'
<1> DEFINE s == call[c].on
<1>1. PICK at \in {"pass", "update", "idle"} : Goto(c, at)
  BY DEF PauseDetaches, PauseFails, AfterPause
<1>2. /\ call[c].at = "pausing" /\ clientMu' = Nobody /\ DonePausing(c)
      /\ UNCHANGED <<state, replan, known, storeMu, todo>>
  BY DEF PauseDetaches, PauseFails
<1>3. TypeOK /\ CallsConsistent /\ RestTyped /\ s \in Sessions
  BY CallFields DEF Tracking, TypeOK, RestTyped
<1>4. /\ at \in Steps \ ({"lookup"} \union ClientSteps)
      /\ at # "commit" /\ at \notin UpdateSteps /\ ~InUpdate(c)
  BY <1>2 DEF Steps, ClientSteps, UpdateSteps, InUpdate
<1>5. Keeps(storeMu, c, InUpdate(c), call[c].op = "start" /\ at \in UpdateSteps)
  BY <1>2, <1>4 DEF Keeps
<1>6. Moved(c, at)
  BY <1>1, <1>3, <1>4, Moves DEF TypeOK
<1>7. /\ handle \in [Sessions -> Broadcasters \union {NoBroadcaster}]
      /\ naryo \in [Sessions -> SUBSET Broadcasters]
      /\ known \in [Sessions -> BOOLEAN]
      /\ \A x \in Sessions : ~known[x] => handle[x] = NoBroadcaster
  BY <1>3 DEF TypeOK, CallsConsistent
<1>8. pauseIDs' \subseteq Sessions
  BY <1>2, <1>3 DEF DonePausing, RestTyped
<1>9. CASE PauseDetaches(c)
  <2>1. /\ naryo' = [naryo EXCEPT ![s] = naryo[s] \ {handle[s]}]
        /\ handle' = [handle EXCEPT ![s] = NoBroadcaster]
        /\ UNCHANGED <<failures, disturbed, replaced>>
    BY <1>9 DEF PauseDetaches, Detached, historyVars
  <2> HIDE DEF s
  <2>2. /\ naryo'[s] = naryo[s] \ {handle[s]}
        /\ handle'[s] = NoBroadcaster
        /\ \A x \in Sessions \ {s} : handle'[x] = handle[x] /\ naryo'[x] = naryo[x]
    BY <1>3, <1>7, <2>1
  <2>3. ClientTyped'
    BY <1>2, <1>3, <1>7, <2>1 DEF ClientTyped
  <2>4. RestTyped'
    BY <1>2, <1>3, <1>8, <2>1 DEF RestTyped
  <2>5. s \in replaced \/ naryo[s] \subseteq {handle[s]} \union Taken(s)
    BY <1>3 DEF Tracking, BroadcastersTracked, Tracked
  <2>6. s \in replaced' \/ naryo'[s] \subseteq {handle'[s]} \union Taken(s)
    BY <2>1, <2>2, <2>5
  <2>7. BroadcastersTracked'
    BY <1>3, <1>6, <2>1, <2>2, <2>6, OneSession
  <2>8. \A x \in Sessions : ~known[x] => handle'[x] = NoBroadcaster
    BY <1>7, <2>2
  <2> QED
    BY <1>1, <1>2, <1>4, <1>5, <2>3, <2>4, <2>7, <2>8, ClientLeft
<1>10. CASE PauseFails(c)
  <2>1. /\ naryo' = naryo \/ naryo' = [naryo EXCEPT ![s] = naryo[s] \ {handle[s]}]
        /\ \/ NaryoFails(s)
           \/ UNCHANGED <<naryo, failures, disturbed, replaced>>
        /\ UNCHANGED handle
    BY <1>10 DEF PauseFails, Detached, historyVars
  <2>2. replaced \subseteq replaced' /\ (s \in replaced' \/ naryo' = naryo)
    BY <2>1 DEF NaryoFails
  <2>3. RestTyped'
    BY <1>2, <1>3, <1>8, <2>1, EgressAssumption DEF RestTyped, NaryoFails
  <2>4. s \in replaced \/ naryo[s] \subseteq {handle[s]} \union Taken(s)
    BY <1>3 DEF Tracking, BroadcastersTracked, Tracked
  <2> HIDE DEF s
  <2>5. /\ naryo' \in [Sessions -> SUBSET Broadcasters]
        /\ \A x \in Sessions \ {s} : handle'[x] = handle[x] /\ naryo'[x] = naryo[x]
    BY <1>3, <1>7, <2>1
  <2>6. ClientTyped'
    BY <1>2, <1>7, <2>1, <2>5 DEF ClientTyped
  <2>7. s \in replaced' \/ naryo'[s] \subseteq {handle'[s]} \union Taken(s)
    BY <2>1, <2>2, <2>4
  <2>8. BroadcastersTracked'
    BY <1>3, <1>6, <2>2, <2>5, <2>7, OneSession
  <2> QED
    BY <1>1, <1>2, <1>4, <1>5, <1>7, <2>1, <2>3, <2>6, <2>8, ClientLeft
<1> QED
  BY <1>9, <1>10

LEMMA ClientTracks ==
    ASSUME Tracking, NEW c \in Callers, ClientStep(c)
    PROVE  Tracking'
  BY EnsureRefusedTracks, EnsureLocksTracks, EnsureTracks, EnsureFallsBackTracks,
     EnsureFailsTracks, PauseLocksTracks, PauseTracks
     DEF ClientStep

-----------------------------------------------------------------------------
(* Stops *)

\* A broadcaster is tracked by the client or by a stop.
LEMMA TrackedNext ==
    ASSUME \A x \in Sessions : \A b \in naryo'[x] :
             \/ x \in replaced'
             \/ b = handle'[x]
             \/ \E d \in Callers : call'[d].on = x /\ call'[d].taken = b
    PROVE  BroadcastersTracked'
<1> SUFFICES ASSUME NEW x \in Sessions, x \notin replaced', NEW b \in naryo'[x],
                    b # handle'[x]
             PROVE  b \in Taken(x)'
  BY DEF BroadcastersTracked, Tracked
<1>1. PICK d \in Callers : call'[d].on = x /\ call'[d].taken = b
  OBVIOUS
<1> QED
  BY <1>1 DEF Taken

LEMMA TrackedNow ==
    ASSUME BroadcastersTracked, NEW x \in Sessions, x \notin replaced, NEW b \in naryo[x]
    PROVE  b = handle[x] \/ \E d \in Callers : call[d].on = x /\ call[d].taken = b
  BY DEF BroadcastersTracked, Tracked, Taken

\* A stop takes the broadcaster over, or has deleted it.
TakesOver(r, at, taken) == call' = [call EXCEPT ![r].at = at, ![r].taken = taken]

\* The entry of one call changes, outside of the mutexes.
LEMMA StopMoves ==
    ASSUME TypeOK, NEW r \in Requests, call[r].at \in {"take", "teardown"},
           NEW at \in {"teardown", "update", "count"},
           NEW taken \in Broadcasters \union {NoBroadcaster},
           TakesOver(r, at, taken), UNCHANGED <<storeMu, clientMu>>
    PROVE  /\ call' \in [Callers -> Call]
           /\ Mutexes'
           /\ \A d \in Callers :
                /\ call'[d].op = call[d].op /\ call'[d].on = call[d].on
                /\ call'[d].at = IF d = r THEN at ELSE call[d].at
                /\ call'[d].taken = IF d = r THEN taken ELSE call[d].taken
<1> DEFINE m == [call[r] EXCEPT !.at = at, !.taken = taken]
<1>1. r \in Callers /\ call \in [Callers -> Call]
  BY DEF TypeOK, Callers
<1>2. /\ m \in Call
      /\ m.op = call[r].op /\ m.on = call[r].on /\ m.at = at /\ m.taken = taken
  <2>1. call[r] \in Call
    BY <1>1
  <2> QED
    BY <2>1 DEF Call, Steps
<1>3. call' = [call EXCEPT ![r] = m]
  BY <1>1 DEF TakesOver
<1> HIDE DEF m
<1>4. call' \in [Callers -> Call]
  BY <1>1, <1>2, <1>3
<1>5. \A d \in Callers :
        /\ call'[d].op = call[d].op /\ call'[d].on = call[d].on
        /\ call'[d].at = IF d = r THEN at ELSE call[d].at
        /\ call'[d].taken = IF d = r THEN taken ELSE call[d].taken
  BY <1>1, <1>2, <1>3
<1>6. \A d \in Callers : (InUpdate(d)' <=> InUpdate(d)) /\ (InClient(d)' <=> InClient(d))
  BY <1>5 DEF InUpdate, InClient
<1> QED
  BY <1>4, <1>5, <1>6 DEF TypeOK, Mutexes

LEMMA StopTakesTracks ==
    ASSUME Tracking, NEW r \in Requests, StopTakes(r)
    PROVE  Tracking'
<1> DEFINE s  == call[r].on
           at == IF known[s] THEN "teardown" ELSE "update"
<1>1. /\ call[r].at = "take"
      /\ TakesOver(r, at, handle[s])
      /\ known' = [known EXCEPT ![s] = FALSE]
      /\ handle' = [handle EXCEPT ![s] = NoBroadcaster]
      /\ clientMu = Nobody
      /\ UNCHANGED <<state, replan, naryo, storeMu, clientMu, todo, pauseIDs, failures,
                     disturbed, replaced>>
  BY DEF StopTakes, EntryDropped, TakesOver, Free, historyVars
<1>2. TypeOK /\ CallsConsistent /\ BroadcastersTracked
  BY DEF Tracking
<1>3. r \in Callers /\ s \in Sessions
  BY <1>2, CallFields DEF TypeOK, Callers
<1>4. /\ handle \in [Sessions -> Broadcasters \union {NoBroadcaster}]
      /\ known \in [Sessions -> BOOLEAN]
      /\ naryo \in [Sessions -> SUBSET Broadcasters]
  BY <1>2 DEF TypeOK
<1>5. /\ call' \in [Callers -> Call]
      /\ Mutexes'
      /\ \A d \in Callers :
           /\ call'[d].op = call[d].op /\ call'[d].on = call[d].on
           /\ call'[d].at = IF d = r THEN at ELSE call[d].at
           /\ call'[d].taken = IF d = r THEN handle[s] ELSE call[d].taken
  BY <1>1, <1>2, <1>3, <1>4, StopMoves
<1> HIDE DEF s
<1>6. \A x \in Sessions : /\ known'[x] = (x # s /\ known[x])
                          /\ handle'[x] = IF x = s THEN NoBroadcaster ELSE handle[x]
  BY <1>1, <1>3, <1>4
<1>7. TypeOK'
  <2>1. known' \in [Sessions -> BOOLEAN]
    BY <1>1, <1>4
  <2>2. handle' \in [Sessions -> Broadcasters \union {NoBroadcaster}]
    BY <1>1, <1>4
  <2> QED
    BY <1>1, <1>2, <1>5, <2>1, <2>2 DEF TypeOK, Mutexes
<1>8. CallsConsistent'
  <2>1. \A d \in Callers : call[d].at # "ensuring" /\ call[d].on \in Sessions
    BY <1>1, <1>2, FreeClient, CallFields DEF InClient, TypeOK
  <2>2. call[r].taken = NoBroadcaster /\ (~known[s] => handle[s] = NoBroadcaster)
    BY <1>1, <1>2, <1>3 DEF CallsConsistent
  <2>3. r # Ticker /\ Ticker \in Callers
    BY EgressAssumption DEF Callers
  <2>4. call'[Ticker].op = "tick"
    BY <1>2, <1>5, <2>3 DEF CallsConsistent
  <2>5. ASSUME NEW d \in Callers
        PROVE  /\ call'[d].at = "lookup" => call'[d].op \in {"start", "resume", "stop"}
               /\ call'[d].at = "commit" => call'[d].op = "start"
               /\ call'[d].taken # NoBroadcaster => call'[d].at = "teardown"
               /\ call'[d].at # "ensuring"
    BY <1>2, <1>5, <2>1, <2>2 DEF CallsConsistent
  <2>6. \A x \in Sessions : ~known'[x] => handle'[x] = NoBroadcaster
    BY <1>2, <1>6 DEF CallsConsistent
  <2> QED
    BY <2>4, <2>5, <2>6 DEF CallsConsistent
<1>9. BroadcastersTracked'
  <2> SUFFICES ASSUME NEW x \in Sessions, x \notin replaced, NEW b \in naryo[x],
                      b # handle'[x]
               PROVE  \E d \in Callers : call'[d].on = x /\ call'[d].taken = b
    BY <1>1, TrackedNext
  <2>1. b \in Broadcasters /\ b # NoBroadcaster
    BY <1>4, EgressAssumption
  <2>2. b = handle[x] \/ \E d \in Callers : call[d].on = x /\ call[d].taken = b
    BY <1>2, TrackedNow
  <2>3. CASE b = handle[x]
    <3>1. x = s
      BY <1>6, <2>3
    <3>2. call'[r].on = x /\ call'[r].taken = b
      BY <1>3, <1>5, <2>3, <3>1 DEF s
    <3> QED
      BY <1>3, <3>2
  <2>4. CASE \E d \in Callers : call[d].on = x /\ call[d].taken = b
    <3>1. PICK d \in Callers : call[d].on = x /\ call[d].taken = b
      BY <2>4
    <3>2. d # r
      BY <1>1, <1>2, <2>1, <3>1 DEF CallsConsistent
    <3> QED
      BY <1>5, <3>1, <3>2
  <2> QED
    BY <2>2, <2>3, <2>4
<1> QED
  BY <1>7, <1>8, <1>9 DEF Tracking

LEMMA StopDeletesTracks ==
    ASSUME Tracking, NEW r \in Requests, StopDeletes(r)
    PROVE  Tracking'
<1> DEFINE s == call[r].on
<1>1. /\ call[r].at = "teardown"
      /\ TakesOver(r, "count", NoBroadcaster)
      /\ UNCHANGED <<state, replan, known, handle, storeMu, clientMu, todo, pauseIDs>>
      /\ \/ /\ naryo' = [naryo EXCEPT ![s] = naryo[s] \ {call[r].taken}]
            /\ UNCHANGED <<failures, disturbed, replaced>>
         \/ NaryoFails(s) /\ UNCHANGED naryo
  BY DEF StopDeletes, TakesOver, historyVars
<1>2. TypeOK /\ CallsConsistent /\ BroadcastersTracked
  BY DEF Tracking
<1>3. r \in Callers /\ s \in Sessions
  BY <1>2, CallFields DEF TypeOK, Callers
<1>4. naryo \in [Sessions -> SUBSET Broadcasters]
  BY <1>2 DEF TypeOK
<1>5. /\ call' \in [Callers -> Call]
      /\ Mutexes'
      /\ \A d \in Callers :
           /\ call'[d].op = call[d].op /\ call'[d].on = call[d].on
           /\ call'[d].at = IF d = r THEN "count" ELSE call[d].at
           /\ call'[d].taken = IF d = r THEN NoBroadcaster ELSE call[d].taken
  BY <1>1, <1>2, <1>3, StopMoves
<1> HIDE DEF s
<1>6. /\ naryo' \in [Sessions -> SUBSET Broadcasters]
      /\ \A x \in Sessions : naryo'[x] \subseteq naryo[x]
  BY <1>1, <1>4
<1>7. /\ failures' \in 0 .. MaxFailures
      /\ disturbed' \subseteq Sessions
      /\ replaced' \subseteq Sessions /\ replaced \subseteq replaced'
  BY <1>1, <1>2, <1>3, EgressAssumption DEF TypeOK, NaryoFails
<1>8. TypeOK'
  BY <1>1, <1>2, <1>5, <1>6, <1>7 DEF TypeOK, Mutexes
<1>9. CallsConsistent'
  <2>1. r # Ticker /\ Ticker \in Callers
    BY EgressAssumption DEF Callers
  <2> QED
    BY <1>1, <1>2, <1>5, <2>1 DEF CallsConsistent
<1>10. BroadcastersTracked'
  <2> SUFFICES ASSUME NEW x \in Sessions, x \notin replaced', NEW b \in naryo'[x],
                      b # handle[x]
               PROVE  \E d \in Callers : call'[d].on = x /\ call'[d].taken = b
    BY <1>1, TrackedNext
  <2>1. PICK d \in Callers : call[d].on = x /\ call[d].taken = b
    BY <1>2, <1>6, <1>7, TrackedNow
  <2>2. d # r
    <3> SUFFICES ASSUME d = r
                 PROVE  FALSE
      OBVIOUS
    <3>1. x = s /\ call[r].taken = b
      BY <2>1 DEF s
    <3>2. naryo' = [naryo EXCEPT ![s] = naryo[s] \ {b}]
      BY <1>1, <3>1 DEF NaryoFails
    <3> QED
      BY <1>3, <1>4, <3>1, <3>2
  <2> QED
    BY <1>5, <2>1, <2>2
<1> QED
  BY <1>8, <1>9, <1>10 DEF Tracking

-----------------------------------------------------------------------------
(* Arrivals, and the billing pass *)

\* A step outside of mutexes and client: calls that hold on to a broadcaster
\* stay as they are, and no call moves within the client or an Update.
LEMMA OutsideStep ==
    ASSUME Tracking, UNCHANGED <<clientVars, storeMu, clientMu>>,
           RestTyped', replaced \subseteq replaced', call' \in [Callers -> Call],
           call'[Ticker].op = "tick",
           \A d \in Callers :
             \/ /\ call'[d].op = call[d].op /\ call'[d].on = call[d].on
                /\ call'[d].at = call[d].at /\ call'[d].taken = call[d].taken
             \/ /\ call[d].at \in {"idle", "pass"}
                /\ call'[d].taken = NoBroadcaster
                /\ call'[d].at \in {"lookup", "egress"}
                /\ call'[d].at = "lookup" => call'[d].op \in {"start", "resume", "stop"}
    PROVE  Tracking'
<1>1. TypeOK /\ CallsConsistent /\ BroadcastersTracked
  BY DEF Tracking
<1>2. \A d \in Callers : (InUpdate(d)' <=> InUpdate(d)) /\ (InClient(d)' <=> InClient(d))
  BY DEF InUpdate, InClient
<1>3. TypeOK'
  BY <1>1, <1>2 DEF TypeOK, RestTyped, clientVars
<1>4. CallsConsistent'
  <2>1. /\ call'[Ticker].op = "tick"
        /\ \A s \in Sessions : ~known'[s] => handle'[s] = NoBroadcaster
    BY <1>1 DEF CallsConsistent, clientVars
  <2>2. ASSUME NEW d \in Callers
        PROVE  /\ call'[d].at = "lookup" => call'[d].op \in {"start", "resume", "stop"}
               /\ call'[d].at = "commit" => call'[d].op = "start"
               /\ call'[d].taken # NoBroadcaster => call'[d].at = "teardown"
               /\ call'[d].at = "ensuring" => known'[call'[d].on]
    BY <1>1 DEF CallsConsistent, clientVars
  <2> QED
    BY <2>1, <2>2 DEF CallsConsistent
<1>5. BroadcastersTracked'
  <2> SUFFICES ASSUME NEW x \in Sessions, x \notin replaced', NEW b \in naryo[x],
                      b # handle[x]
               PROVE  \E d \in Callers : call'[d].on = x /\ call'[d].taken = b
    BY TrackedNext DEF clientVars
  <2>1. PICK d \in Callers : call[d].on = x /\ call[d].taken = b
    BY <1>1, TrackedNow
  <2>2. b \in Broadcasters
    BY <1>1 DEF TypeOK
  <2>3. call[d].at = "teardown"
    BY <1>1, <2>1, <2>2, EgressAssumption DEF CallsConsistent
  <2> QED
    BY <2>1, <2>3
<1> QED
  BY <1>3, <1>4, <1>5 DEF Tracking

LEMMA ReceiveTracks ==
    ASSUME Tracking, NEW r \in Requests, NEW op \in Operations, NEW s \in Sessions,
           Receive(r, op, s)
    PROVE  Tracking'
<1> DEFINE new == [op |-> op, on |-> s, at |-> First(op),
                   taken |-> NoBroadcaster, alone |-> Quiet(s)]
           crowded(d) == [call[d] EXCEPT !.alone = FALSE]
<1>1. TypeOK /\ CallsConsistent /\ RestTyped
  BY DEF Tracking, TypeOK, RestTyped
<1>2. op \in {"start", "resume", "pause", "stop"}
  BY EgressAssumption DEF Receive
<1>3. /\ new \in Call /\ new.taken = NoBroadcaster /\ new.op = op
      /\ new.at \in {"lookup", "egress"}
      /\ new.at = "lookup" => op # "pause"
  <2>1. First(op) \in {"lookup", "egress"} /\ (First(op) = "lookup" => op # "pause")
    BY DEF First
  <2>2. Quiet(s) \in BOOLEAN
    BY DEF Quiet
  <2> QED
    BY <1>2, <2>1, <2>2 DEF Call, Steps
<1>4. ASSUME NEW d \in Callers
      PROVE  /\ crowded(d) \in Call
             /\ crowded(d).op = call[d].op /\ crowded(d).on = call[d].on
             /\ crowded(d).at = call[d].at /\ crowded(d).taken = call[d].taken
  <2>1. call[d] \in Call
    BY <1>1 DEF TypeOK
  <2> QED
    BY <2>1 DEF Call
<1>5. call' = [d \in Callers |-> IF d = r THEN new
                                ELSE IF d \in CallsOn(s) THEN crowded(d) ELSE call[d]]
  BY DEF Receive
<1> HIDE DEF new, crowded
<1>6. call' \in [Callers -> Call]
  BY <1>1, <1>3, <1>4, <1>5 DEF TypeOK
<1>7. RestTyped' /\ replaced \subseteq replaced'
      /\ UNCHANGED <<clientVars, storeMu, clientMu>>
  BY <1>1 DEF Receive, RestTyped, historyVars
<1>8. call'[Ticker].op = "tick"
  <2>1. Ticker \in Callers /\ Ticker # r
    BY EgressAssumption DEF Callers
  <2> QED
    BY <1>1, <1>4, <1>5, <2>1 DEF CallsConsistent
<1>9. call[r].at = "idle"
  BY DEF Receive
<1> QED
  BY <1>2, <1>3, <1>4, <1>5, <1>6, <1>7, <1>8, <1>9, OutsideStep

LEMMA TickPausesTracks ==
    ASSUME Tracking, NEW s \in Sessions, TickPauses(s)
    PROVE  Tracking'
<1> DEFINE crowded(d) == [call[d] EXCEPT !.alone = FALSE]
<1>1. TypeOK /\ CallsConsistent /\ RestTyped
  BY DEF Tracking, TypeOK, RestTyped
<1>2. ASSUME NEW d \in Callers
      PROVE  /\ crowded(d) \in Call
             /\ crowded(d).op = call[d].op /\ crowded(d).on = call[d].on
             /\ crowded(d).at = call[d].at /\ crowded(d).taken = call[d].taken
  <2>1. call[d] \in Call
    BY <1>1 DEF TypeOK
  <2> QED
    BY <2>1 DEF Call
<1>3. call' = [d \in Callers |-> IF d \in CallsOn(s) THEN crowded(d) ELSE call[d]]
  BY DEF TickPauses
<1> HIDE DEF crowded
<1>4. call' \in [Callers -> Call]
  BY <1>1, <1>2, <1>3 DEF TypeOK
<1>5. /\ RestTyped' /\ replaced \subseteq replaced'
      /\ UNCHANGED <<clientVars, storeMu, clientMu>>
  BY <1>1 DEF TickPauses, RestTyped
<1>6. call'[Ticker].op = "tick"
  BY <1>1, <1>2, <1>3 DEF CallsConsistent, Callers
<1> QED
  BY <1>2, <1>3, <1>4, <1>5, <1>6, OutsideStep

LEMMA TickDetachesTracks ==
    ASSUME Tracking, NEW s \in Sessions, TickDetaches(s)
    PROVE  Tracking'
<1> DEFINE m == [call[Ticker] EXCEPT !.at = "egress", !.on = s]
<1>1. TypeOK /\ CallsConsistent /\ RestTyped
  BY DEF Tracking, TypeOK, RestTyped
<1>2. Ticker \in Callers /\ call[Ticker] \in Call /\ call[Ticker].at = "pass"
  BY <1>1 DEF TypeOK, Callers, TickDetaches
<1>3. call[Ticker].taken = NoBroadcaster /\ call[Ticker].op = "tick"
  BY <1>1, <1>2 DEF CallsConsistent
<1>4. m \in Call /\ m.op = "tick" /\ m.at = "egress" /\ m.taken = NoBroadcaster
  BY <1>2, <1>3 DEF Call, Steps
<1>5. call' = [call EXCEPT ![Ticker] = m]
  BY DEF TickDetaches
<1> HIDE DEF m
<1>6. call' \in [Callers -> Call]
  BY <1>1, <1>4, <1>5 DEF TypeOK
<1>7. /\ RestTyped' /\ replaced \subseteq replaced'
      /\ UNCHANGED <<clientVars, storeMu, clientMu>>
  BY <1>1 DEF TickDetaches, RestTyped, historyVars
<1>8. \A d \in Callers : call'[d] = IF d = Ticker THEN m ELSE call[d]
  BY <1>1, <1>5 DEF TypeOK
<1> QED
  BY <1>2, <1>4, <1>6, <1>7, <1>8, OutsideStep

\* Reconfigure, and what else of the pass touches no call of another.
LEMMA RestTracks ==
    ASSUME Tracking,
           \/ \E s \in Sessions : Reconfigure(s) \/ TickVisits(s)
           \/ TickBegins \/ TickEnds \/ UNCHANGED vars
    PROVE  Tracking'
<1>1. TypeOK /\ CallsConsistent /\ RestTyped
  BY DEF Tracking, TypeOK, RestTyped
<1>2. CASE \/ \E s \in Sessions : Reconfigure(s) \/ TickVisits(s)
           \/ UNCHANGED vars
  <2>1. UNCHANGED <<call, clientVars, storeMu, clientMu, replaced>>
    BY <1>2 DEF Reconfigure, TickVisits, vars, historyVars
  <2>2. RestTyped'
    BY <1>1, <1>2 DEF Reconfigure, TickVisits, vars, historyVars, RestTyped
  <2>3. call \in [Callers -> Call] /\ call[Ticker].op = "tick"
    BY <1>1 DEF TypeOK, CallsConsistent
  <2> QED
    BY <2>1, <2>2, <2>3, OutsideStep
<1>3. CASE TickBegins \/ TickEnds
  <2>1. PICK at \in {"pass", "idle"} : Goto(Ticker, at)
    BY <1>3 DEF TickBegins, TickEnds
  <2>2. call[Ticker].at \in {"pass", "idle"} /\ Ticker \in Callers
    BY <1>3 DEF TickBegins, TickEnds, Callers
  <2>3. UNCHANGED <<clientVars, storeMu, clientMu, replaced>>
    BY <1>3 DEF TickBegins, TickEnds, historyVars
  <2>4. RestTyped'
    BY <1>1, <1>3 DEF TickBegins, TickEnds, historyVars, RestTyped
  <2>5. ~InUpdate(Ticker) /\ ~InClient(Ticker)
    BY <2>2 DEF InUpdate, InClient
  <2> QED
    BY <2>1, <2>2, <2>3, <2>4, <2>5, QuietStep
       DEF Keeps, Steps, UpdateSteps, ClientSteps
<1> QED
  BY <1>2, <1>3

-----------------------------------------------------------------------------
LEMMA TrackingStep == Tracking /\ [Next]_vars => Tracking'
<1> SUFFICES ASSUME Tracking, [Next]_vars
             PROVE  Tracking'
  OBVIOUS
<1>1. CASE \E r \in Requests, op \in Operations, s \in Sessions : Receive(r, op, s)
  BY <1>1, ReceiveTracks
<1>2. CASE \E r \in Requests : RequestStep(r)
  <2> PICK r \in Requests : RequestStep(r)
    BY <1>2
  <2>1. r \in Callers
    BY DEF Callers
  <2> QED
    BY <2>1, ClientTracks, RequestQuiet, StopTakesTracks, StopDeletesTracks DEF RequestStep
<1>3. CASE TickStep
  <2>1. Ticker \in Callers
    BY DEF Callers
  <2> QED
    BY <1>3, <2>1, ClientTracks, TickPausesTracks, TickDetachesTracks, RestTracks
       DEF TickStep
<1>4. CASE \/ \E s \in Sessions : Reconfigure(s)
           \/ TickBegins \/ UNCHANGED vars
  BY <1>4, RestTracks
<1> QED
  BY <1>1, <1>2, <1>3, <1>4 DEF Next

\* The inductive invariant of the two statements below.
THEOREM TrackingInvariant == Spec => []Tracking
  BY TrackingInit, TrackingStep, PTL DEF Spec

\* Every return unlocks what its call has locked, for any number of requests
\* and wherever Naryo fails: the mutexes of store and client are held by the
\* calls in their critical sections and by no other.
THEOREM MutexesReleased == Spec => []TypeOK
<1>1. Tracking => TypeOK
  BY DEF Tracking
<1> QED
  BY <1>1, TrackingInvariant, PTL

\* No interleaving of requests and billing pass makes the client lose track
\* of a broadcaster, but for the causes that replaced records.
THEOREM BroadcastersTrackedCorrect == Spec => []BroadcastersTracked
<1>1. Tracking => BroadcastersTracked
  BY DEF Tracking
<1> QED
  BY <1>1, TrackingInvariant, PTL

-----------------------------------------------------------------------------
(* The Naryo client is used within its contract, module EgressClient *)

\* The calls hold on to the broadcasters that they held on to.
HoldsOn ==
    \A d \in Callers :
        \/ call'[d].on = call[d].on /\ call'[d].taken = call[d].taken
        \/ call'[d].taken = NoBroadcaster /\ call[d].taken = NoBroadcaster

LEMMA SameTaken ==
    ASSUME HoldsOn
    PROVE  \A s \in Sessions : Taken(s)' \ {NoBroadcaster} = Taken(s) \ {NoBroadcaster}
  BY DEF HoldsOn, Taken

LEMMA SameContract ==
    ASSUME HoldsOn, UNCHANGED clientVars
    PROVE  UNCHANGED Contract!vars
  BY SameTaken DEF Contract!vars, clientVars

LEMMA GotoHoldsOn ==
    ASSUME Tracking, NEW c \in Callers, NEW at \in Steps, Goto(c, at)
    PROVE  HoldsOn
<1>1. Moved(c, at)
  BY Moves DEF Tracking, TypeOK
<1> QED
  BY <1>1 DEF Moved, HoldsOn

-----------------------------------------------------------------------------
(* Initial states *)

LEMMA ContractInit == Init => Contract!Init
<1> SUFFICES ASSUME Init
             PROVE  Contract!Init
  OBVIOUS
<1>1. PICK t \in Sessions : call = [c \in Callers |-> Idle(t)]
  BY DEF Init
<1>2. \A c \in Callers : call[c].taken = NoBroadcaster
  BY <1>1 DEF Idle
<1>3. \A s \in Sessions : Taken(s) \ {NoBroadcaster} = {}
  BY <1>2 DEF Taken
<1> QED
  BY <1>3 DEF Init, Contract!Init

-----------------------------------------------------------------------------
(* Steps that the contract does not see *)

LEMMA MovesUnseen ==
    ASSUME Tracking, NEW c \in Callers,
           \/ EnsureRefused(c) \/ EnsureReuses(c) \/ PauseLocks(c)
           \/ Lookup(c) \/ StartRejected(c) \/ StartLocks(c) \/ StartCommits(c)
           \/ ResumeCounts(c) \/ ResumeCommits(c) \/ ResumeRejected(c)
           \/ PauseCommits(c) \/ PauseRejected(c)
           \/ StopCounts(c) \/ StopCommits(c)
    PROVE  UNCHANGED Contract!vars
<1>1. UNCHANGED clientVars
  BY DEF EnsureRefused, EnsureReuses, PauseLocks, Lookup, StartRejected, StartLocks,
         StartCommits, ResumeCounts, ResumeCommits, ResumeRejected, PauseCommits, PauseRejected,
         StopCounts, StopCommits, clientVars
<1>2. \E at \in Steps : Goto(c, at)
  <2>1. CASE Lookup(c)
    <3>1. call[c].op \in {"start", "resume", "stop"}
      BY <2>1 DEF Lookup, Tracking, CallsConsistent
    <3> QED
      BY <2>1, <3>1 DEF Lookup, Steps
  <2>2. CASE EnsureReuses(c)
    <3>1. AfterEnsure(c) \in Steps
      BY DEF AfterEnsure, Steps
    <3> QED
      BY <2>2, <3>1 DEF EnsureReuses
  <2>3. CASE PauseLocks(c) \/ StartLocks(c) \/ ResumeCounts(c) \/ StopCounts(c)
    BY <2>3 DEF PauseLocks, StartLocks, ResumeCounts, StopCounts, Steps
  <2>4. CASE \/ EnsureRefused(c) \/ StartRejected(c) \/ StartCommits(c)
             \/ ResumeCommits(c) \/ ResumeRejected(c)
    BY <2>4 DEF EnsureRefused, StartRejected, StartCommits, ResumeCommits, ResumeRejected,
                Answer, AnswerOK, Steps
  <2>5. CASE PauseCommits(c) \/ PauseRejected(c) \/ StopCommits(c)
    BY <2>5 DEF PauseCommits, PauseRejected, StopCommits, Answer, AnswerOK, Steps
  <2> QED
    BY <2>1, <2>2, <2>3, <2>4, <2>5
<1> QED
  BY <1>1, <1>2, GotoHoldsOn, SameContract

LEMMA ReceiveUnseen ==
    ASSUME Tracking, NEW r \in Requests, NEW op, NEW s, Receive(r, op, s)
    PROVE  UNCHANGED Contract!vars
<1>1. UNCHANGED clientVars /\ call[r].at = "idle"
  BY DEF Receive
<1>2. call \in [Callers -> Call] /\ CallsConsistent
  BY DEF Tracking, TypeOK
<1>3. ASSUME NEW d \in Callers, d # r
      PROVE  call'[d].on = call[d].on /\ call'[d].taken = call[d].taken
  <2>1. call[d] \in Call
    BY <1>2
  <2>2. call'[d] = call[d] \/ call'[d] = [call[d] EXCEPT !.alone = FALSE]
    BY <1>3 DEF Receive
  <2> QED
    BY <2>1, <2>2 DEF Call
<1>4. r \in Callers
  BY DEF Callers
<1>5. call[r].taken = NoBroadcaster
  BY <1>1, <1>2, <1>4 DEF CallsConsistent
<1>6. call'[r].taken = NoBroadcaster
  BY <1>4 DEF Receive
<1>7. HoldsOn
  BY <1>3, <1>5, <1>6 DEF HoldsOn
<1> QED
  BY <1>1, <1>7, SameContract

LEMMA PassUnseen ==
    ASSUME Tracking,
           \/ \E s \in Sessions :
                Reconfigure(s) \/ TickVisits(s) \/ TickPauses(s) \/ TickDetaches(s)
           \/ TickBegins \/ TickEnds \/ UNCHANGED vars
    PROVE  UNCHANGED Contract!vars
<1>1. call \in [Callers -> Call] /\ CallsConsistent /\ Ticker \in Callers
  BY DEF Tracking, TypeOK, Callers
<1>2. UNCHANGED clientVars
  BY DEF Reconfigure, TickVisits, TickPauses, TickDetaches, TickBegins, TickEnds, vars,
         clientVars
<1>3. CASE \/ \E s \in Sessions : Reconfigure(s) \/ TickVisits(s)
           \/ UNCHANGED vars
  <2>1. HoldsOn
    BY <1>3 DEF Reconfigure, TickVisits, vars, HoldsOn
  <2> QED
    BY <1>2, <2>1, SameContract
<1>4. CASE TickBegins \/ TickEnds
  <2>1. \E at \in Steps : Goto(Ticker, at)
    BY <1>4 DEF TickBegins, TickEnds, Steps
  <2> QED
    BY <1>1, <1>2, <2>1, GotoHoldsOn, SameContract
<1>5. CASE \E s \in Sessions : TickPauses(s)
  <2>1. ASSUME NEW d \in Callers
        PROVE  call'[d].on = call[d].on /\ call'[d].taken = call[d].taken
    <3>1. call[d] \in Call
      BY <1>1
    <3>2. call'[d] = call[d] \/ call'[d] = [call[d] EXCEPT !.alone = FALSE]
      BY <1>5 DEF TickPauses
    <3> QED
      BY <3>1, <3>2 DEF Call
  <2>2. HoldsOn
    BY <2>1 DEF HoldsOn
  <2> QED
    BY <1>2, <2>2, SameContract
<1>6. CASE \E s \in Sessions : TickDetaches(s)
  <2> PICK s \in Sessions : TickDetaches(s)
    BY <1>6
  <2> DEFINE m == [call[Ticker] EXCEPT !.at = "egress", !.on = s]
  <2>1. call[Ticker] \in Call /\ call[Ticker].at = "pass"
    BY <1>1 DEF TickDetaches
  <2>2. call[Ticker].taken = NoBroadcaster
    BY <1>1, <2>1 DEF CallsConsistent
  <2>3. m.taken = NoBroadcaster
    BY <2>1, <2>2 DEF Call
  <2>4. call' = [call EXCEPT ![Ticker] = m]
    BY DEF TickDetaches
  <2> HIDE DEF m
  <2>5. \A d \in Callers : call'[d] = IF d = Ticker THEN m ELSE call[d]
    BY <1>1, <2>4
  <2>6. HoldsOn
    BY <2>2, <2>3, <2>5 DEF HoldsOn
  <2> QED
    BY <1>2, <2>6, SameContract
<1> QED
  BY <1>3, <1>4, <1>5, <1>6

-----------------------------------------------------------------------------
(* Steps that the contract takes *)

\* The contract's state, and what a step on session s of the client does to it.
Stopping == [s \in Sessions |-> Taken(s) \ {NoBroadcaster}]

LEMMA SameStopping ==
    ASSUME HoldsOn
    PROVE  Stopping' = Stopping
  BY SameTaken DEF Stopping

LEMMA OpenSeen ==
    ASSUME Tracking, NEW c \in Callers, EnsureLocks(c)
    PROVE  Contract!Next
<1>1. call[c].on \in Sessions
  BY CallFields DEF Tracking, TypeOK
<1>2. HoldsOn
  BY GotoHoldsOn DEF EnsureLocks, Steps
<1>3. Contract!Open(call[c].on)
  BY <1>2, SameStopping DEF EnsureLocks, Contract!Open, Stopping
<1> QED
  BY <1>1, <1>3 DEF Contract!Next

LEMMA ProvisionSeen ==
    ASSUME Tracking, NEW c \in Callers,
           EnsureCreates(c) \/ EnsureMissesOne(c) \/ EnsureFallsBack(c)
    PROVE  Contract!Next
<1> DEFINE s == call[c].on
<1>1. /\ call[c].at = "ensuring" /\ Goto(c, AfterEnsure(c)) /\ UNCHANGED known
      /\ NewBroadcaster(s) \/ EnsureFallsBack(c)
  BY DEF EnsureCreates, EnsureMissesOne, EnsureFallsBack
<1>2. s \in Sessions /\ known[s] /\ TypeOK
  BY <1>1, Ensuring
<1>3. AfterEnsure(c) \in Steps
  BY DEF AfterEnsure, Steps
<1>4. HoldsOn
  BY <1>1, <1>3, GotoHoldsOn
<1>5. \E made \in (SUBSET Fresh(s)) \ {{}} :
        /\ naryo' = [naryo EXCEPT ![s] = naryo[s] \union made]
        /\ \E found \in made \union naryo[s] : handle' = [handle EXCEPT ![s] = found]
  <2>1. CASE NewBroadcaster(s)
    <3>1. PICK b \in Fresh(s) :
            /\ naryo' = [naryo EXCEPT ![s] = naryo[s] \union {b}]
            /\ \E found \in {b} \union naryo[s] : handle' = [handle EXCEPT ![s] = found]
      BY <2>1 DEF NewBroadcaster
    <3>2. {b} \in (SUBSET Fresh(s)) \ {{}}
      OBVIOUS
    <3> QED
      BY <3>1, <3>2
  <2>2. CASE EnsureFallsBack(c)
    <3>1. PICK a \in Fresh(s), b \in Fresh(s) :
            /\ naryo' = [naryo EXCEPT ![s] = naryo[s] \union {a, b}]
            /\ \E found \in {a, b} \union naryo[s] : handle' = [handle EXCEPT ![s] = found]
      BY <2>2 DEF EnsureFallsBack
    <3>2. {a, b} \in (SUBSET Fresh(s)) \ {{}}
      OBVIOUS
    <3> QED
      BY <3>1, <3>2
  <2> QED
    BY <1>1, <2>1, <2>2
<1>6. Fresh(s) \subseteq Contract!Fresh(s)
  BY <1>2 DEF Fresh, Contract!Fresh
<1>7. naryo \in [Sessions -> SUBSET Broadcasters]
  BY <1>2 DEF TypeOK
<1> HIDE DEF s
<1>8. PICK made \in (SUBSET Fresh(s)) \ {{}} :
        /\ naryo' = [naryo EXCEPT ![s] = naryo[s] \union made]
        /\ \E found \in made \union naryo[s] : handle' = [handle EXCEPT ![s] = found]
  BY <1>5
<1>9. made \in (SUBSET Contract!Fresh(s)) \ {{}}
  BY <1>6, <1>8
<1>10. naryo'[s] = naryo[s] \union made
  BY <1>2, <1>7, <1>8
<1>11. \E found \in naryo'[s] : handle' = [handle EXCEPT ![s] = found]
  BY <1>8, <1>10
<1>12. Stopping' = Stopping
  BY <1>4, SameStopping
<1>13. Contract!Provision(s)
  BY <1>1, <1>2, <1>8, <1>9, <1>11, <1>12 DEF Contract!Provision, Stopping
<1> QED
  BY <1>2, <1>13 DEF Contract!Next

LEMMA GiveUpSeen ==
    ASSUME Tracking, NEW c \in Callers, EnsureFails(c)
    PROVE  Contract!Next
<1> DEFINE s == call[c].on
<1>1. /\ call[c].at = "ensuring" /\ Goto(c, "idle") /\ UNCHANGED known
  BY DEF EnsureFails, Answer
<1>2. s \in Sessions /\ known[s] /\ TypeOK
  BY <1>1, Ensuring
<1>3. HoldsOn
  BY <1>1, GotoHoldsOn DEF Steps
<1>4. /\ handle' = [handle EXCEPT ![s] = NoBroadcaster]
      /\ \/ UNCHANGED naryo
         \/ \E a, b \in Fresh(s) : naryo' = [naryo EXCEPT ![s] = naryo[s] \union {a, b}]
  BY DEF EnsureFails
<1>5. naryo \in [Sessions -> SUBSET Broadcasters]
  BY <1>2 DEF TypeOK
<1> HIDE DEF s
<1>6. \E made \in SUBSET Fresh(s) : naryo' = [naryo EXCEPT ![s] = naryo[s] \union made]
  <2>1. CASE UNCHANGED naryo
    <3>1. naryo[s] \union {} = naryo[s] /\ {} \in SUBSET Fresh(s)
      OBVIOUS
    <3>2. naryo' = [naryo EXCEPT ![s] = naryo[s]]
      BY <1>2, <1>5, <2>1
    <3> QED
      BY <3>1, <3>2
  <2>2. CASE \E a, b \in Fresh(s) : naryo' = [naryo EXCEPT ![s] = naryo[s] \union {a, b}]
    <3>1. PICK a \in Fresh(s), b \in Fresh(s) :
            naryo' = [naryo EXCEPT ![s] = naryo[s] \union {a, b}]
      BY <2>2
    <3>2. {a, b} \in SUBSET Fresh(s)
      OBVIOUS
    <3> QED
      BY <3>1, <3>2
  <2> QED
    BY <1>4, <2>1, <2>2
<1>7. Fresh(s) \subseteq Contract!Fresh(s)
  BY <1>2 DEF Fresh, Contract!Fresh
<1>8. PICK made \in SUBSET Fresh(s) : naryo' = [naryo EXCEPT ![s] = naryo[s] \union made]
  BY <1>6
<1>9. made \in SUBSET Contract!Fresh(s)
  BY <1>7, <1>8
<1>10. Stopping' = Stopping
  BY <1>3, SameStopping
<1>11. Contract!GiveUp(s)
  BY <1>1, <1>2, <1>4, <1>8, <1>9, <1>10 DEF Contract!GiveUp, Stopping
<1> QED
  BY <1>2, <1>11 DEF Contract!Next

LEMMA DetachSeen ==
    ASSUME Tracking, NEW c \in Callers, PauseDetaches(c) \/ PauseFails(c)
    PROVE  Contract!Next \/ UNCHANGED Contract!vars
<1> DEFINE s == call[c].on
<1>1. s \in Sessions
  BY CallFields DEF Tracking, TypeOK
<1>2. HoldsOn
  <2>1. \E at \in Steps : Goto(c, at)
    <3>1. CASE PauseDetaches(c)
      BY <3>1 DEF PauseDetaches, AfterPause, Steps
    <3>2. CASE PauseFails(c)
      <4>1. (IF call[c].op = "tick" THEN "pass" ELSE "idle") \in Steps
        BY DEF Steps
      <4> QED
        BY <3>2, <4>1 DEF PauseFails
    <3> QED
      BY <3>1, <3>2
  <2> QED
    BY <2>1, GotoHoldsOn
<1>3. Stopping' = Stopping
  BY <1>2, SameStopping
<1>4. /\ UNCHANGED known
      /\ naryo' = naryo \/ naryo' = [naryo EXCEPT ![s] = naryo[s] \ {handle[s]}]
      /\ handle' = handle \/ handle' = [handle EXCEPT ![s] = NoBroadcaster]
      /\ naryo' = naryo => handle' = handle
           \/ naryo' = [naryo EXCEPT ![s] = naryo[s] \ {handle[s]}]
  BY DEF PauseDetaches, PauseFails, Detached
<1>5. CASE naryo' = [naryo EXCEPT ![s] = naryo[s] \ {handle[s]}]
  <2>1. Contract!Detach(s)
    BY <1>3, <1>4, <1>5 DEF Contract!Detach, Stopping
  <2> QED
    BY <1>1, <2>1 DEF Contract!Next
<1>6. CASE naryo' = naryo /\ handle' = handle
  BY <1>2, <1>4, <1>6, SameContract DEF clientVars
<1> QED
  BY <1>4, <1>5, <1>6

LEMMA TakeSeen ==
    ASSUME Tracking, NEW r \in Requests, StopTakes(r)
    PROVE  Contract!Next \/ UNCHANGED Contract!vars
<1>2. TypeOK /\ CallsConsistent
  BY DEF Tracking
<1>3. r \in Callers /\ call[r].on \in Sessions
  BY <1>2, CallFields DEF TypeOK, Callers
<1> PICK s \in Sessions : s = call[r].on
  BY <1>3
<1> DEFINE at == IF known[s] THEN "teardown" ELSE "update"
<1>1. /\ call[r].at = "take"
      /\ TakesOver(r, at, handle[s])
      /\ known' = [known EXCEPT ![s] = FALSE]
      /\ handle' = [handle EXCEPT ![s] = NoBroadcaster]
      /\ UNCHANGED naryo
  BY DEF StopTakes, EntryDropped, TakesOver
<1>4. /\ handle \in [Sessions -> Broadcasters \union {NoBroadcaster}]
      /\ known \in [Sessions -> BOOLEAN]
      /\ call \in [Callers -> Call]
  BY <1>2 DEF TypeOK
<1>5. \A d \in Callers :
        /\ call'[d].on = call[d].on
        /\ call'[d].taken = IF d = r THEN handle[s] ELSE call[d].taken
  <2>1. call[r] \in Call
    BY <1>3, <1>4
  <2> DEFINE m == [call[r] EXCEPT !.at = at, !.taken = handle[s]]
  <2>2. m.on = s /\ m.taken = handle[s]
    BY <2>1 DEF Call
  <2>3. call' = [call EXCEPT ![r] = m]
    BY <1>1 DEF TakesOver
  <2> HIDE DEF m
  <2>4. \A d \in Callers : call'[d] = IF d = r THEN m ELSE call[d]
    BY <1>4, <2>3
  <2> QED
    BY <2>2, <2>4
<1>6. call[r].taken = NoBroadcaster
  BY <1>1, <1>2, <1>3 DEF CallsConsistent
<1> HIDE DEF at
<1>7. CASE known[s]
  <2>1. ASSUME NEW x \in Sessions
        PROVE  Stopping'[x] = IF x = s
                 THEN Stopping[s] \union ({handle[s]} \ {NoBroadcaster}) ELSE Stopping[x]
    <3>1. CASE x = s
      <4>1. Taken(s)' \ {NoBroadcaster}
              = (Taken(s) \ {NoBroadcaster}) \union ({handle[s]} \ {NoBroadcaster})
        BY <1>3, <1>5, <1>6 DEF Taken
      <4> QED
        BY <1>3, <3>1, <4>1 DEF Stopping
    <3>2. CASE x # s
      <4>1. Taken(x)' = Taken(x)
        BY <1>5, <3>2 DEF Taken
      <4> QED
        BY <3>2, <4>1 DEF Stopping
    <3> QED
      BY <3>1, <3>2
  <2>2. Stopping' = [Stopping EXCEPT ![s] = Stopping[s] \union ({handle[s]} \ {NoBroadcaster})]
    BY <2>1 DEF Stopping
  <2>3. Contract!Take(s)
    BY <1>1, <1>7, <2>2 DEF Contract!Take, Stopping
  <2> QED
    BY <1>3, <2>3 DEF Contract!Next
<1>8. CASE ~known[s]
  <2>1. handle[s] = NoBroadcaster
    BY <1>2, <1>3, <1>8 DEF CallsConsistent
  <2>2. known' = known /\ handle' = handle
    BY <1>1, <1>3, <1>4, <1>8, <2>1
  <2>3. HoldsOn
    BY <1>5, <1>6, <2>1 DEF HoldsOn
  <2> QED
    BY <1>1, <2>2, <2>3, SameContract DEF clientVars
<1> QED
  BY <1>7, <1>8

LEMMA ReleaseSeen ==
    ASSUME Tracking, NEW r \in Requests, StopDeletes(r)
    PROVE  Contract!Next \/ UNCHANGED Contract!vars
<1>2. TypeOK
  BY DEF Tracking
<1>3. r \in Callers /\ call[r].on \in Sessions
  BY <1>2, CallFields DEF TypeOK, Callers
<1> PICK s \in Sessions : s = call[r].on
  BY <1>3
<1> PICK b : b = call[r].taken
  OBVIOUS
<1>1. /\ TakesOver(r, "count", NoBroadcaster)
      /\ UNCHANGED <<known, handle>>
      /\ naryo' = [naryo EXCEPT ![s] = naryo[s] \ {b}] \/ UNCHANGED naryo
  BY DEF StopDeletes, TakesOver
<1>4. call \in [Callers -> Call] /\ naryo \in [Sessions -> SUBSET Broadcasters]
  BY <1>2 DEF TypeOK
<1>5. \A d \in Callers :
        /\ call'[d].on = call[d].on
        /\ call'[d].taken = IF d = r THEN NoBroadcaster ELSE call[d].taken
  <2>1. call[r] \in Call
    BY <1>3, <1>4
  <2> DEFINE m == [call[r] EXCEPT !.at = "count", !.taken = NoBroadcaster]
  <2>2. m.on = s /\ m.taken = NoBroadcaster
    BY <2>1 DEF Call
  <2>3. call' = [call EXCEPT ![r] = m]
    BY <1>1 DEF TakesOver
  <2> HIDE DEF m
  <2>4. \A d \in Callers : call'[d] = IF d = r THEN m ELSE call[d]
    BY <1>4, <2>3
  <2> QED
    BY <2>2, <2>4
<1>6. CASE b = NoBroadcaster
  <2>1. HoldsOn
    BY <1>5, <1>6 DEF HoldsOn
  <2>2. UNCHANGED naryo
    <3>1. naryo[s] \ {b} = naryo[s]
      BY <1>3, <1>4, <1>6, EgressAssumption
    <3> QED
      BY <1>1, <1>3, <1>4, <3>1
  <2> QED
    BY <1>1, <2>1, <2>2, SameContract DEF clientVars
<1>7. CASE b # NoBroadcaster
  <2>1. b \in Stopping[s]
    BY <1>3, <1>7 DEF Stopping, Taken
  <2>2. ASSUME NEW x \in Sessions, x # s
        PROVE  Stopping'[x] = Stopping[x]
    <3>1. Taken(x)' = Taken(x)
      BY <1>5, <2>2 DEF Taken
    <3> QED
      BY <3>1 DEF Stopping
  <2>3. Stopping'[s] = Stopping[s] \/ Stopping'[s] = Stopping[s] \ {b}
    <3>1. /\ Taken(s)' \ {NoBroadcaster} \subseteq Taken(s) \ {NoBroadcaster}
          /\ Taken(s) \ {NoBroadcaster, b} \subseteq Taken(s)' \ {NoBroadcaster}
      BY <1>3, <1>5 DEF Taken
    <3>2. Stopping'[s] \subseteq Stopping[s] /\ Stopping[s] \ {b} \subseteq Stopping'[s]
      BY <1>3, <3>1 DEF Stopping
    <3> QED
      BY <3>2
  <2>4. Stopping' = Stopping \/ Stopping' = [Stopping EXCEPT ![s] = Stopping[s] \ {b}]
    BY <1>3, <2>2, <2>3 DEF Stopping
  <2>5. Contract!Release(s)
    BY <1>1, <2>1, <2>4 DEF Contract!Release, Stopping
  <2> QED
    BY <1>3, <2>5 DEF Contract!Next
<1> QED
  BY <1>6, <1>7

-----------------------------------------------------------------------------
LEMMA ContractStep == Tracking /\ [Next]_vars => [Contract!Next]_(Contract!vars)
<1> SUFFICES ASSUME Tracking, [Next]_vars
             PROVE  Contract!Next \/ UNCHANGED Contract!vars
  OBVIOUS
<1>1. ASSUME NEW c \in Callers, ClientStep(c)
      PROVE  Contract!Next \/ UNCHANGED Contract!vars
  BY <1>1, OpenSeen, ProvisionSeen, GiveUpSeen, DetachSeen, MovesUnseen DEF ClientStep
<1>2. CASE \E r \in Requests, op \in Operations, s \in Sessions : Receive(r, op, s)
  BY <1>2, ReceiveUnseen
<1>3. CASE \E r \in Requests : RequestStep(r)
  <2> PICK r \in Requests : RequestStep(r)
    BY <1>3
  <2>1. r \in Callers
    BY DEF Callers
  <2> QED
    BY <1>1, <2>1, MovesUnseen, TakeSeen, ReleaseSeen DEF RequestStep
<1>4. CASE TickStep
  <2>1. Ticker \in Callers
    BY DEF Callers
  <2> QED
    BY <1>1, <1>4, <2>1, PassUnseen DEF TickStep
<1>5. CASE \/ \E s \in Sessions : Reconfigure(s)
           \/ TickBegins \/ UNCHANGED vars
  BY <1>5, PassUnseen
<1> QED
  BY <1>2, <1>3, <1>4, <1>5 DEF Next

\* However requests and billing pass interleave, and whatever Naryo's calls
\* return, the broadcasters of a session change here only in ways that the
\* client's contract allows: a call changes those of its own session, and
\* none is deleted but by a pause or a stop of its session.
THEOREM EgressWithinContract == Spec => ImplementsContract
<1>1. Spec => []Tracking
  BY TrackingInvariant
<1>2. Spec => Contract!Spec
  BY <1>1, ContractInit, ContractStep, PTL DEF Spec, Contract!Spec
<1> QED
  BY <1>2 DEF ImplementsContract

-----------------------------------------------------------------------------
(* The lifecycle of module SessionLifecycle is kept *)

\* What makes it inductive: a start that is at Naryo holds the store's mutex,
\* so the session stays in a state that it may start from.
FoundHolds ==
    \A r \in Requests : InUpdate(r) => state[call[r].on] \in {Created, Paused}

\* A call under way stays on its session.
StaysOn == \A r \in Requests : call[r].at = "idle" \/ call'[r].on = call[r].on

LEMMA GotoStays ==
    ASSUME call \in [Callers -> Call], NEW c \in Callers, NEW at, Goto(c, at)
    PROVE  \A d \in Callers : call'[d].on = call[d].on
<1> DEFINE m == [call[c] EXCEPT !.at = at]
<1>1. m.on = call[c].on
  <2>1. call[c] \in Call
    OBVIOUS
  <2> QED
    BY <2>1 DEF Call
<1>2. call' = [call EXCEPT ![c] = m]
  BY DEF Goto
<1> HIDE DEF m
<1> QED
  BY <1>1, <1>2

LEMMA RequestStays ==
    ASSUME TypeOK, NEW c \in Callers, ClientStep(c) \/ RequestStep(c)
    PROVE  StaysOn
<1>1. call \in [Callers -> Call] /\ call[c] \in Call
  BY DEF TypeOK
<1>2. Requests \subseteq Callers
  BY DEF Callers
<1>3. CASE \E at : Goto(c, at)
  BY <1>1, <1>2, <1>3, GotoStays DEF StaysOn
<1>4. CASE StopTakes(c) \/ StopDeletes(c)
  <2> PICK at, taken : call' = [call EXCEPT ![c].at = at, ![c].taken = taken]
    BY <1>4 DEF StopTakes, StopDeletes
  <2> DEFINE m == [call[c] EXCEPT !.at = at, !.taken = taken]
  <2>1. m.on = call[c].on
    BY <1>1 DEF Call
  <2>2. call' = [call EXCEPT ![c] = m]
    OBVIOUS
  <2> HIDE DEF m
  <2> QED
    BY <1>1, <1>2, <2>1, <2>2 DEF StaysOn
<1>5. CASE \/ EnsureRefused(c) \/ EnsureLocks(c) \/ EnsureReuses(c) \/ EnsureCreates(c)
           \/ EnsureMissesOne(c) \/ EnsureFallsBack(c) \/ EnsureFails(c)
  BY <1>3, <1>5 DEF EnsureRefused, EnsureLocks, EnsureReuses, EnsureCreates, EnsureMissesOne,
     EnsureFallsBack, EnsureFails, Answer
<1>6. CASE PauseLocks(c) \/ PauseDetaches(c) \/ PauseFails(c)
  BY <1>3, <1>6 DEF PauseLocks, PauseDetaches, PauseFails
<1>7. CASE \/ Lookup(c) \/ StartRejected(c) \/ StartLocks(c) \/ StartCommits(c)
           \/ ResumeCounts(c) \/ ResumeCommits(c) \/ ResumeRejected(c)
           \/ PauseCommits(c) \/ PauseRejected(c) \/ StopCounts(c) \/ StopCommits(c)
  BY <1>3, <1>7 DEF Lookup, StartRejected, StartLocks, StartCommits, ResumeCounts,
     ResumeCommits, ResumeRejected, PauseCommits, PauseRejected, StopCounts, StopCommits,
     Answer, AnswerOK
<1> QED
  BY <1>4, <1>5, <1>6, <1>7 DEF ClientStep, RequestStep

LEMMA StaysOnStep ==
    ASSUME TypeOK, [Next]_vars
    PROVE  StaysOn
<1>1. /\ call \in [Callers -> Call]
      /\ \A r \in Requests : r \in Callers /\ r # Ticker
      /\ Ticker \in Callers
  BY EgressAssumption DEF TypeOK, Callers
<1>2. CASE \E r \in Requests, op \in Operations, s \in Sessions : Receive(r, op, s)
  <2> PICK r \in Requests, op \in Operations, s \in Sessions : Receive(r, op, s)
    BY <1>2
  <2>1. ASSUME NEW d \in Requests, d # r
        PROVE  call'[d].on = call[d].on
    <3>1. call[d] \in Call
      BY <1>1
    <3>2. call'[d] = call[d] \/ call'[d] = [call[d] EXCEPT !.alone = FALSE]
      BY <1>1, <2>1 DEF Receive
    <3> QED
      BY <3>1, <3>2 DEF Call
  <2> QED
    BY <2>1 DEF StaysOn, Receive
<1>3. CASE \E r \in Requests : RequestStep(r)
  BY <1>1, <1>3, RequestStays
<1>4. CASE ClientStep(Ticker)
  BY <1>1, <1>4, RequestStays
<1>5. CASE \E s \in Sessions : TickPauses(s)
  <2>1. ASSUME NEW d \in Requests
        PROVE  call'[d].on = call[d].on
    <3>1. call[d] \in Call
      BY <1>1
    <3>2. call'[d] = call[d] \/ call'[d] = [call[d] EXCEPT !.alone = FALSE]
      BY <1>1, <1>5 DEF TickPauses
    <3> QED
      BY <3>1, <3>2 DEF Call
  <2> QED
    BY <2>1 DEF StaysOn
<1>6. CASE (\E s \in Sessions : TickDetaches(s)) \/ TickBegins \/ TickEnds
  BY <1>1, <1>6 DEF StaysOn, TickDetaches, TickBegins, TickEnds, Goto
<1>7. CASE (\E s \in Sessions : Reconfigure(s) \/ TickVisits(s)) \/ UNCHANGED vars
  BY <1>7 DEF StaysOn, Reconfigure, TickVisits, vars
<1> QED
  BY <1>2, <1>3, <1>4, <1>5, <1>6, <1>7 DEF Next, TickStep

\* The sessions change their state when no call holds the store's mutex, or
\* when a start gives it back.
LEMMA StateSteps ==
    ASSUME Tracking, [Next]_vars
    PROVE  \/ UNCHANGED <<state, storeMu>>
           \/ UNCHANGED state /\ storeMu' = Nobody
           \/ \E r \in Requests : StartLocks(r)
           \/ \E r \in Requests : \/ StartCommits(r) \/ ResumeCommits(r)
                                  \/ PauseCommits(r) \/ StopCommits(r)
           \/ \E s \in Sessions : TickPauses(s)
<1>1. ASSUME NEW c \in Callers, ClientStep(c)
      PROVE  UNCHANGED state /\ (UNCHANGED storeMu \/ storeMu' = Nobody)
  BY <1>1 DEF ClientStep, EnsureRefused, EnsureLocks, EnsureReuses, EnsureCreates,
     EnsureMissesOne, EnsureFallsBack, EnsureFails, ReleaseStore, PauseLocks, PauseDetaches, PauseFails
<1>2. CASE \E r \in Requests : RequestStep(r)
  <2> PICK r \in Requests : RequestStep(r)
    BY <1>2
  <2>1. r \in Callers
    BY DEF Callers
  <2>2. CASE \/ Lookup(r) \/ StartRejected(r) \/ ResumeCounts(r) \/ ResumeRejected(r)
             \/ PauseRejected(r) \/ StopTakes(r) \/ StopDeletes(r) \/ StopCounts(r)
    BY <2>2 DEF Lookup, StartRejected, ResumeCounts, ResumeRejected, PauseRejected,
       StopTakes, StopDeletes, StopCounts
  <2> QED
    BY <1>1, <2>1, <2>2 DEF RequestStep
<1>3. CASE TickStep \/ TickBegins
  <2>1. Ticker \in Callers
    BY DEF Callers
  <2> QED
    BY <1>1, <1>3, <2>1 DEF TickStep, TickVisits, TickDetaches, TickEnds, TickBegins
<1>4. CASE \/ \E r \in Requests, op \in Operations, s \in Sessions : Receive(r, op, s)
           \/ \E s \in Sessions : Reconfigure(s)
           \/ UNCHANGED vars
  BY <1>4 DEF Receive, Reconfigure, vars
<1> QED
  BY <1>2, <1>3, <1>4 DEF Next

LEMMA FoundHoldsStep == Tracking /\ FoundHolds /\ [Next]_vars => FoundHolds'
<1> SUFFICES ASSUME Tracking, FoundHolds, [Next]_vars
             PROVE  FoundHolds'
  OBVIOUS
<1>1. TypeOK /\ TypeOK'
  BY TrackingStep DEF Tracking
<1>2. \A r \in Requests : /\ r \in Callers /\ r # Nobody
                          /\ storeMu = r <=> InUpdate(r)
                          /\ storeMu' = r <=> InUpdate(r)'
  BY <1>1, EgressAssumption DEF TypeOK, Callers
<1>3. StaysOn
  BY <1>1, StaysOnStep
<1>4. \A r \in Requests : InUpdate(r) => call'[r].on = call[r].on
  BY <1>3 DEF StaysOn, InUpdate
<1>5. CASE UNCHANGED <<state, storeMu>>
  BY <1>2, <1>4, <1>5 DEF FoundHolds
<1>6. CASE storeMu' = Nobody
  BY <1>2, <1>6 DEF FoundHolds
<1>7. CASE \E r \in Requests : StartLocks(r)
  <2> PICK r \in Requests : StartLocks(r)
    BY <1>7
  <2>1. storeMu' = r /\ state' = state /\ state[call[r].on] \in {Created, Paused}
    BY DEF StartLocks
  <2>2. call'[r].on = call[r].on
    BY <1>3 DEF StaysOn, StartLocks
  <2>3. \A x \in Requests : InUpdate(x)' => x = r
    BY <1>2, <2>1
  <2> QED
    BY <2>1, <2>2, <2>3 DEF FoundHolds
<1>8. CASE \/ \E r \in Requests : \/ StartCommits(r) \/ ResumeCommits(r)
                                  \/ PauseCommits(r) \/ StopCommits(r)
           \/ \E s \in Sessions : TickPauses(s)
  <2>1. storeMu' = Nobody
    BY <1>8 DEF StartCommits, ResumeCommits, PauseCommits, StopCommits, TickPauses, Free
  <2> QED
    BY <1>6, <2>1
<1> QED
  BY <1>5, <1>6, <1>7, <1>8, StateSteps

\* What the lifecycle sees of a session that gets another state.
StreamSeen == [s \in Sessions |-> state[s] = Running]

LEMMA StateSeen ==
    ASSUME TypeOK, NEW s \in Sessions, NEW st, state' = [state EXCEPT ![s] = st]
    PROVE  /\ st = Running => Life!Becomes(s, "running", TRUE)
           /\ st # Running => Life!Becomes(s, st, FALSE)
<1>1. \A x \in Sessions : state'[x] = IF x = s THEN st ELSE state[x]
  BY DEF TypeOK
<1>2. CASE st = Running
  <2>1. StreamSeen' = [StreamSeen EXCEPT ![s] = TRUE]
    BY <1>1, <1>2 DEF StreamSeen
  <2> QED
    BY <1>2, <2>1 DEF Life!Becomes, StreamSeen, Running
<1>3. CASE st # Running
  <2>1. StreamSeen' = [StreamSeen EXCEPT ![s] = FALSE]
    BY <1>1, <1>3 DEF StreamSeen
  <2> QED
    BY <1>3, <2>1 DEF Life!Becomes, StreamSeen
<1> QED
  BY <1>2, <1>3

LEMMA LifeStep == Tracking /\ FoundHolds /\ [Next]_vars => [Life!Next]_(Life!vars)
<1> SUFFICES ASSUME Tracking, FoundHolds, [Next]_vars
             PROVE  Life!Next \/ UNCHANGED Life!vars
  OBVIOUS
<1> USE DEF Created, Running, Paused, Stopped
<1>1. TypeOK /\ call \in [Callers -> Call] /\ Requests \subseteq Callers
  BY DEF Tracking, TypeOK, Callers
<1>2. \A r \in Requests : call[r].on \in Sessions
  BY <1>1, CallFields
<1>3. CASE UNCHANGED state
  BY <1>3 DEF Life!vars
<1>4. ASSUME NEW r \in Requests, StartCommits(r) \/ ResumeCommits(r)
      PROVE  Life!Next
  <2>1. state' = [state EXCEPT ![call[r].on] = Running]
    BY <1>4 DEF StartCommits, ResumeCommits
  <2>2. state[call[r].on] \in {"created", "paused"}
    <3>1. CASE StartCommits(r)
      <4>1. InUpdate(r)
        BY <1>1, <3>1 DEF StartCommits, InUpdate, Tracking, CallsConsistent
      <4> QED
        BY <4>1 DEF FoundHolds
    <3>2. CASE ResumeCommits(r)
      BY <3>2 DEF ResumeCommits
    <3> QED
      BY <1>4, <3>1, <3>2
  <2>3. Life!Becomes(call[r].on, "running", TRUE)
    BY <1>1, <1>2, <2>1, StateSeen
  <2> QED
    BY <1>2, <2>2, <2>3 DEF Life!Next, Life!Run
<1>5. ASSUME NEW s \in Sessions, state[s] = Running, state' = [state EXCEPT ![s] = Paused]
      PROVE  Life!Next
  <2>1. Life!Becomes(s, "paused", FALSE)
    BY <1>1, <1>5, StateSeen
  <2> QED
    BY <1>5, <2>1 DEF Life!Next, Life!Pause
<1>6. ASSUME NEW r \in Requests, StopCommits(r)
      PROVE  Life!Next \/ UNCHANGED state
  <2> DEFINE s == call[r].on
  <2>1. state' = [state EXCEPT ![s] = Stopped] /\ s \in Sessions
    BY <1>2, <1>6 DEF StopCommits
  <2> HIDE DEF s
  <2>2. CASE state[s] = Stopped
    BY <1>1, <2>1, <2>2 DEF TypeOK
  <2>3. CASE state[s] # Stopped
    <3>1. state[s] \in {"created", "running", "paused"}
      BY <1>1, <2>1, <2>3 DEF TypeOK
    <3>2. Life!Becomes(s, "stopped", FALSE)
      BY <1>1, <2>1, StateSeen
    <3> QED
      BY <2>1, <3>1, <3>2 DEF Life!Next, Life!Stop
  <2> QED
    BY <2>2, <2>3
<1>7. ASSUME NEW r \in Requests, PauseCommits(r)
      PROVE  Life!Next
  BY <1>2, <1>5, <1>7 DEF PauseCommits
<1>8. ASSUME NEW s \in Sessions, TickPauses(s)
      PROVE  Life!Next
  BY <1>5, <1>8 DEF TickPauses
<1>9. CASE \E r \in Requests : StartLocks(r)
  BY <1>3, <1>9 DEF StartLocks
<1> QED
  BY <1>3, <1>4, <1>6, <1>7, <1>8, <1>9, StateSteps

\* Requests in flight at the same time and the billing pass leave each session
\* on its lifecycle: the store's mutex, which a start keeps while it waits for
\* Naryo, makes each Update a step of it.
THEOREM EgressWithinLifecycle == Spec => ImplementsLifecycle
<1>1. Init => FoundHolds
  BY DEF Init, Idle, InUpdate, FoundHolds, Callers
<1>2. Spec => []FoundHolds
  BY <1>1, FoundHoldsStep, TrackingInvariant, PTL DEF Spec
<1>3. Init => Life!Init
  BY DEF Init, Life!Init, Created, Running
<1>4. Spec => Life!Spec
  BY <1>2, <1>3, LifeStep, TrackingInvariant, PTL DEF Spec, Life!Spec
<1> QED
  BY <1>4 DEF ImplementsLifecycle
=============================================================================
