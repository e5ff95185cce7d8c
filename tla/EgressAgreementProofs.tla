------------------------ MODULE EgressAgreementProofs -------------------------
(***************************************************************************)
(* Proof of the property AgreeUnlessDisturbed of module Egress, whatever   *)
(* the sessions, the requests in flight, the broadcasters and the failures.*)
(* The invariant is about the broadcaster that the client knows of; that   *)
(* Naryo has no other follows from the invariant Tracking of EgressProofs. *)
(***************************************************************************)
EXTENDS EgressProofs

USE EgressAssumption

Ops == {"start", "resume", "pause", "stop", "tick"}

\* A call is under way; the pass between its calls to the client is not one.
Working(c) == call[c].at \notin {"idle", "pass"}

\* A call takes the steps of its operation.
OnPath(c) ==
    \/ call[c].at = "idle"
    \/ call[c].op = "start" /\ call[c].at \in {"lookup", "update", "ensure", "ensuring", "commit"}
    \/ call[c].op = "resume" /\ call[c].at \in {"lookup", "ensure", "ensuring", "count", "update"}
    \/ call[c].op = "pause" /\ call[c].at \in {"egress", "pausing", "update"}
    \/ /\ call[c].op = "stop"
       /\ call[c].at \in {"lookup", "take", "teardown", "count", "clearErr", "update"}
    \/ call[c].op = "tick" /\ c = Ticker /\ call[c].at \in {"pass", "egress", "pausing"}

Settled(s) == state[s] = Running <=> Delivering(s)

\* What a call with operation op has done for session s when it is at step at.
Untouched(op, at) ==
    \/ at \in {"lookup", "ensure", "ensuring", "take", "egress", "pausing"}
    \/ op = "start" /\ at = "update"
Provisioned(op, at) ==
    \/ op = "start" /\ at = "commit"
    \/ op = "resume" /\ at \in {"count", "update"}
Withdrawn(op, at) == op \in {"pause", "stop"} /\ at = "update"

InStep(s, op, at) ==
    /\ Untouched(op, at) /\ s \notin disturbed => Settled(s)
    /\ Provisioned(op, at) => Delivering(s)
    /\ Withdrawn(op, at) => ~Delivering(s)

\* The request has the session for itself.
Single(r) ==
    /\ call[r].on \notin pauseIDs
    /\ \A d \in Callers \ {r} : Working(d) => call[d].on # call[r].on

RequestAgrees(r) ==
    Working(r) =>
        IF call[r].alone THEN Single(r) /\ InStep(call[r].on, call[r].op, call[r].at)
                         ELSE call[r].on \in disturbed

\* The pass owes a pause, and nothing else has come in between.
PauseAgrees(s) ==
    s \in pauseIDs /\ s \notin disturbed =>
        /\ state[s] # Running
        /\ \A r \in Requests : Working(r) => call[r].on # s

QuietSettled == \A s \in Sessions : Quiet(s) /\ s \notin disturbed => Settled(s)

Agreement ==
    /\ \A c \in Callers : OnPath(c)
    /\ Working(Ticker) => call[Ticker].on \in pauseIDs
    /\ \A r \in Requests : RequestAgrees(r)
    /\ \A s \in Sessions : PauseAgrees(s)
    /\ QuietSettled

LEMMA AgreementInit == Init => Agreement
<1> SUFFICES ASSUME Init
             PROVE  Agreement
  OBVIOUS
<1>1. \A c \in Callers : call[c].at = "idle"
  BY DEF Init, Idle
<1>2. Ticker \in Callers /\ Requests \subseteq Callers
  BY DEF Callers
<1>3. QuietSettled
  BY DEF Init, QuietSettled, Settled, Delivering, Running, Created
<1> QED
  BY <1>1, <1>2, <1>3 DEF Init, Agreement, OnPath, Working, RequestAgrees, PauseAgrees

-----------------------------------------------------------------------------
(* What a step may do to the calls and to the sessions of others *)

\* Call c goes to step at; nothing else of the calls changes that matters here.
Steady(c, at) ==
    \A d \in Callers :
        /\ call'[d].op = call[d].op
        /\ call'[d].on = call[d].on
        /\ call'[d].alone = call[d].alone
        /\ call'[d].at = IF d = c THEN at ELSE call[d].at

OthersSame(s) ==
    \A t \in Sessions \ {s} :
        /\ state'[t] = state[t]
        /\ Delivering(t)' <=> Delivering(t)
        /\ t \in disturbed' <=> t \in disturbed
        /\ t \in pauseIDs' <=> t \in pauseIDs

LEMMA GoesSteadily ==
    ASSUME call \in [Callers -> Call], NEW c \in Callers, NEW at, Goto(c, at)
    PROVE  Steady(c, at)
<1> DEFINE m == [call[c] EXCEPT !.at = at]
<1>1. call[c] \in Call
  OBVIOUS
<1>2. m.op = call[c].op /\ m.on = call[c].on /\ m.alone = call[c].alone /\ m.at = at
  BY <1>1 DEF Call
<1>3. call' = [call EXCEPT ![c] = m]
  BY DEF Goto
<1> HIDE DEF m
<1> QED
  BY <1>2, <1>3 DEF Steady

\* Whether a session is quiet, in terms of who works on it.
LEMMA QuietIs ==
    /\ \A s : Quiet(s) <=>
         s \notin pauseIDs /\ \A c \in Callers : Working(c) => call[c].on # s
    /\ \A s : Quiet(s)' <=>
         s \notin pauseIDs' /\ \A c \in Callers : Working(c)' => call'[c].on # s
  BY DEF Quiet, CallsOn, Working

\* The step of a request, from one step of its operation to the next.
LEMMA RequestMoves ==
    ASSUME Agreement, call \in [Callers -> Call], NEW r \in Requests, Working(r),
           NEW s \in Sessions, s = call[r].on, NEW op, op = call[r].op,
           NEW at, at # "pass", Steady(r, at), OnPath(r)', OthersSame(s), pauseIDs' = pauseIDs,
           ~call[r].alone /\ s \in disturbed => s \in disturbed',
           call[r].alone /\ at # "idle" => InStep(s, op, at)',
           call[r].alone /\ at = "idle" /\ s \notin disturbed' => Settled(s)'
    PROVE  Agreement'
<1>1. r \in Callers /\ r # Ticker /\ Ticker \in Callers /\ Requests \subseteq Callers
  BY DEF Callers
<1>2. \A d \in Callers \ {r} :
        /\ call'[d].on = call[d].on /\ call'[d].op = call[d].op /\ call'[d].at = call[d].at
        /\ call'[d].alone = call[d].alone
        /\ Working(d)' <=> Working(d)
  BY DEF Steady, Working
<1>3. /\ call'[r].on = s /\ call'[r].op = op /\ call'[r].at = at
      /\ call'[r].alone = call[r].alone
      /\ Working(r)' <=> at # "idle"
  BY <1>1 DEF Steady, Working
<1>4. \A c \in Callers : OnPath(c)'
  BY <1>2 DEF Agreement, OnPath
<1>5. Working(Ticker)' => call'[Ticker].on \in pauseIDs'
  BY <1>1, <1>2 DEF Agreement
<1>6. call[r].alone => Single(r)
  BY DEF Agreement, RequestAgrees
<1>7. ~call[r].alone => s \in disturbed /\ s \in disturbed'
  BY DEF Agreement, RequestAgrees
<1>8. ASSUME NEW q \in Requests \ {r}, Working(q)
      PROVE  IF call[q].alone THEN Single(q)' /\ InStep(call[q].on, call[q].op, call[q].at)'
                              ELSE call[q].on \in disturbed'
  <2>1. q \in Callers /\ call[q].on \in Sessions
    BY <1>1, CallFields
  <2>2. CASE call[q].alone
    <3>1. Single(q) /\ InStep(call[q].on, call[q].op, call[q].at)
      BY <1>8, <2>2 DEF Agreement, RequestAgrees
    <3>2. call[q].on # s
      BY <1>1, <3>1 DEF Single
    <3>3. Single(q)'
      BY <1>1, <1>2, <1>3, <2>1, <3>1, <3>2 DEF Single
    <3>4. InStep(call[q].on, call[q].op, call[q].at)'
      BY <1>2, <2>1, <3>1, <3>2 DEF InStep, OthersSame, Settled, Untouched, Provisioned, Withdrawn
    <3> QED
      BY <2>2, <3>3, <3>4
  <2>3. CASE ~call[q].alone
    <3>1. call[q].on \in disturbed
      BY <1>8, <2>3 DEF Agreement, RequestAgrees
    <3>2. call[q].on = s => ~call[r].alone
      BY <1>1, <1>6, <1>8, <2>1 DEF Single
    <3> QED
      BY <1>2, <1>7, <2>1, <2>3, <3>1, <3>2 DEF OthersSame
  <2> QED
    BY <2>2, <2>3
<1>9. \A q \in Requests : RequestAgrees(q)'
  <2>1. RequestAgrees(r)'
    <3>1. at # "idle" /\ call[r].alone => Single(r)'
      BY <1>2, <1>3, <1>6 DEF Single
    <3> QED
      BY <1>3, <1>7, <3>1 DEF RequestAgrees, InStep
  <2>2. \A q \in Requests \ {r} : RequestAgrees(q)'
    BY <1>1, <1>2, <1>8 DEF RequestAgrees
  <2> QED
    BY <2>1, <2>2
<1>10. \A t \in Sessions : PauseAgrees(t)'
  <2>1. PauseAgrees(s)'
    BY <1>6, <1>7 DEF PauseAgrees, Single
  <2>2. \A t \in Sessions \ {s} : PauseAgrees(t)'
    BY <1>1, <1>2, <1>3 DEF Agreement, PauseAgrees, OthersSame
  <2> QED
    BY <2>1, <2>2
<1>11. QuietSettled'
  <2>1. Quiet(s)' /\ s \notin disturbed' => Settled(s)'
    BY <1>1, <1>3, <1>7, QuietIs
  <2>2. \A t \in Sessions \ {s} : Quiet(t)' /\ t \notin disturbed' => Settled(t)'
    <3>1. \A t \in Sessions \ {s} : Quiet(t)' => Quiet(t)
      BY <1>2, QuietIs
    <3> QED
      BY <3>1 DEF Agreement, QuietSettled, OthersSame, Settled
  <2> QED
    BY <2>1, <2>2 DEF QuietSettled
<1> QED
  BY <1>4, <1>5, <1>9, <1>10, <1>11 DEF Agreement

\* The step of the billing pass on behalf of a session that it has paused.
LEMMA TickerMoves ==
    ASSUME Agreement, call \in [Callers -> Call], Working(Ticker),
           NEW s \in Sessions, s = call[Ticker].on,
           NEW at \in {"pausing", "pass"}, Steady(Ticker, at), call[Ticker].op = "tick",
           OthersSame(s), state' = state, disturbed \subseteq disturbed',
           at = "pausing" => pauseIDs' = pauseIDs,
           at = "pass" => s \notin pauseIDs' /\ (s \notin disturbed' => ~Delivering(s)')
    PROVE  Agreement'
<1>1. Ticker \in Callers /\ Ticker \notin Requests /\ Requests \subseteq Callers
  BY DEF Callers
<1>2. \A d \in Callers \ {Ticker} :
        /\ call'[d].on = call[d].on /\ call'[d].op = call[d].op /\ call'[d].at = call[d].at
        /\ call'[d].alone = call[d].alone
        /\ Working(d)' <=> Working(d)
  BY DEF Steady, Working
<1>3. /\ call'[Ticker].on = s /\ call'[Ticker].op = "tick" /\ call'[Ticker].at = at
      /\ Working(Ticker)' <=> at = "pausing"
  BY <1>1 DEF Steady, Working
<1>4. s \in pauseIDs
  BY DEF Agreement
<1>5. \A c \in Callers : OnPath(c)'
  BY <1>2, <1>3 DEF Agreement, OnPath
<1>6. Working(Ticker)' => call'[Ticker].on \in pauseIDs'
  BY <1>3, <1>4
<1>7. ASSUME NEW q \in Requests
      PROVE  RequestAgrees(q)'
  <2>1. q \in Callers /\ q # Ticker /\ call[q].on \in Sessions
    BY <1>1, CallFields
  <2>2. CASE Working(q) /\ call[q].alone
    <3>1. Single(q) /\ InStep(call[q].on, call[q].op, call[q].at)
      BY <1>7, <2>2 DEF Agreement, RequestAgrees
    <3>2. call[q].on # s
      BY <1>4, <3>1 DEF Single
    <3>3. Single(q)'
      BY <1>1, <1>2, <1>3, <2>1, <3>1, <3>2 DEF Single, OthersSame
    <3>4. InStep(call[q].on, call[q].op, call[q].at)'
      BY <1>2, <2>1, <3>1, <3>2 DEF InStep, OthersSame, Settled, Untouched, Provisioned, Withdrawn
    <3> QED
      BY <1>2, <2>1, <2>2, <3>3, <3>4 DEF RequestAgrees
  <2>3. CASE ~Working(q) \/ ~call[q].alone
    BY <1>2, <1>7, <2>1, <2>3 DEF Agreement, RequestAgrees
  <2> QED
    BY <2>2, <2>3
<1>8. \A t \in Sessions : PauseAgrees(t)'
  <2>1. PauseAgrees(s)'
    BY <1>1, <1>2, <1>4 DEF Agreement, PauseAgrees
  <2>2. \A t \in Sessions \ {s} : PauseAgrees(t)'
    BY <1>1, <1>2 DEF Agreement, PauseAgrees, OthersSame
  <2> QED
    BY <2>1, <2>2
<1>9. QuietSettled'
  <2>1. ASSUME Quiet(s)', s \notin disturbed'
        PROVE  Settled(s)'
    <3>1. at = "pass"
      BY <1>1, <1>3, <2>1, QuietIs
    <3>2. state'[s] # Running
      BY <1>4, <2>1 DEF Agreement, PauseAgrees
    <3> QED
      BY <2>1, <3>1, <3>2 DEF Settled
  <2>2. \A t \in Sessions \ {s} : Quiet(t)' /\ t \notin disturbed' => Settled(t)'
    <3>1. \A t \in Sessions \ {s} : Quiet(t)' => Quiet(t)
      BY <1>2, QuietIs DEF OthersSame
    <3> QED
      BY <3>1 DEF Agreement, QuietSettled, OthersSame, Settled
  <2> QED
    BY <2>1, <2>2 DEF QuietSettled
<1> QED
  BY <1>5, <1>6, <1>7, <1>8, <1>9 DEF Agreement

\* Nobody's work and nothing of a session changes.
LEMMA RestAgrees ==
    ASSUME Agreement, NEW at \in {"idle", "pass"},
           call' = call \/ (Steady(Ticker, at) /\ ~Working(Ticker) /\ call[Ticker].op = "tick"),
           UNCHANGED <<state, handle, naryo, pauseIDs, disturbed>>
    PROVE  Agreement'
<1>1. Ticker \in Callers /\ Ticker \notin Requests /\ Requests \subseteq Callers
  BY DEF Callers
<1>2. \A d \in Callers \ {Ticker} :
        /\ call'[d].on = call[d].on /\ call'[d].op = call[d].op /\ call'[d].at = call[d].at
        /\ call'[d].alone = call[d].alone
        /\ Working(d)' <=> Working(d)
  BY DEF Steady, Working
<1>3. /\ Working(Ticker)' <=> Working(Ticker)
      /\ call'[Ticker].on = call[Ticker].on
  BY <1>1 DEF Steady, Working
<1>4. \A c \in Callers : OnPath(c)'
  BY <1>1, <1>2 DEF Agreement, OnPath, Steady
<1>5. \A t : Delivering(t)' <=> Delivering(t)
  BY DEF Delivering
<1>6. \A q \in Requests : RequestAgrees(q)'
  BY <1>1, <1>2, <1>3, <1>5 DEF Agreement, RequestAgrees, Single, InStep, Settled,
                                Untouched, Provisioned, Withdrawn
<1>7. \A t \in Sessions : PauseAgrees(t)'
  BY <1>1, <1>2 DEF Agreement, PauseAgrees
<1>8. \A t \in Sessions : Quiet(t)' <=> Quiet(t)
  BY <1>1, <1>2, <1>3, QuietIs
<1>9. QuietSettled'
  BY <1>5, <1>8 DEF Agreement, QuietSettled, Settled
<1>10. Working(Ticker)' => call'[Ticker].on \in pauseIDs'
  BY <1>3 DEF Agreement
<1> QED
  BY <1>4, <1>6, <1>7, <1>9, <1>10 DEF Agreement

-----------------------------------------------------------------------------
(* The steps of requests *)

LEMMA AtRequest ==
    ASSUME Tracking, NEW r \in Requests
    PROVE  /\ r \in Callers /\ r # Ticker
           /\ call \in [Callers -> Call]
           /\ call[r].on \in Sessions /\ call[r].op \in Ops /\ call[r].at \in Steps
           /\ state \in [Sessions -> {Created, Running, Paused, Stopped}]
           /\ handle \in [Sessions -> Broadcasters \union {NoBroadcaster}]
           /\ naryo \in [Sessions -> SUBSET Broadcasters]
  BY CallFields DEF Tracking, TypeOK, Callers, Ops

\* What the invariant says of a request that has its session for itself.
LEMMA AloneInStep ==
    ASSUME Agreement, NEW r \in Requests, Working(r), call[r].alone
    PROVE  InStep(call[r].on, call[r].op, call[r].at)
  BY DEF Agreement, RequestAgrees

\* Steps that change neither the store nor what Naryo has.
LEMMA MovesOnAgree ==
    ASSUME Tracking, Agreement, NEW r \in Requests,
           \/ Lookup(r) \/ StartRejected(r) \/ StartLocks(r) \/ ResumeCounts(r)
           \/ PauseRejected(r) \/ StopCounts(r)
           \/ EnsureRefused(r) \/ EnsureLocks(r) \/ EnsureReuses(r) \/ PauseLocks(r)
    PROVE  Agreement'
<1>1. PICK s \in Sessions, op \in Ops, a \in Steps :
        s = call[r].on /\ op = call[r].op /\ a = call[r].at
  BY AtRequest
<1>2. /\ a \notin {"idle", "pass"} /\ Working(r)
      /\ UNCHANGED <<state, pauseIDs, disturbed>>
      /\ handle' = handle /\ naryo' = naryo
  BY <1>1 DEF Lookup, StartRejected, StartLocks, ResumeCounts, PauseRejected, StopCounts,
              EnsureRefused, EnsureLocks, EnsureReuses, PauseLocks, clientVars, historyVars,
              Working
<1>3. OnPath(r) /\ r # Ticker
  BY AtRequest DEF Agreement
<1>4. call[r].alone => InStep(s, op, a)
  BY <1>1, <1>2, AloneInStep
<1>5. PICK at :
        /\ Goto(r, at)
        /\ \/ a = "lookup" /\ op = "start" /\ at = "update"
           \/ a = "lookup" /\ op = "resume" /\ at = "ensure"
           \/ a = "lookup" /\ op = "stop" /\ at = "take"
           \/ a = "update" /\ op = "start" /\ at \in {"idle", "ensure"}
           \/ a = "count" /\ op = "resume" /\ at = "update"
           \/ a = "update" /\ op = "pause" /\ state[s] # Running /\ at = "idle"
           \/ a = "count" /\ op = "stop" /\ at = "clearErr"
           \/ a = "ensure" /\ op \in {"start", "resume"} /\ at \in {"ensuring", "idle"}
           \/ a = "ensuring" /\ op = "start" /\ Delivering(s) /\ at = "commit"
           \/ a = "ensuring" /\ op = "resume" /\ Delivering(s) /\ at = "count"
           \/ a = "egress" /\ op = "pause" /\ at = "pausing"
  <2>1. CASE Lookup(r)
    <3>1. op \in {"start", "resume", "stop"}
      BY <1>1, <1>3, <2>1 DEF Lookup, OnPath
    <3> QED
      BY <1>1, <2>1, <3>1 DEF Lookup
  <2>2. CASE StartRejected(r) \/ StartLocks(r) \/ ResumeCounts(r) \/ PauseRejected(r) \/ StopCounts(r)
    BY <1>1, <2>2 DEF StartRejected, StartLocks, ResumeCounts, PauseRejected, StopCounts, Answer
  <2>3. CASE EnsureRefused(r) \/ EnsureLocks(r) \/ PauseLocks(r)
    BY <1>1, <1>3, <2>3 DEF EnsureRefused, EnsureLocks, PauseLocks, Answer, OnPath
  <2>4. CASE EnsureReuses(r)
    BY <1>1, <1>3, <2>4 DEF EnsureReuses, AfterEnsure, InPlace, OnPath
  <2> QED
    BY <2>1, <2>2, <2>3, <2>4
<1>6. Steady(r, at) /\ at # "pass"
  BY <1>5, AtRequest, GoesSteadily
<1>7. OnPath(r)'
  BY <1>1, <1>5, <1>6, AtRequest DEF Steady, OnPath
<1>8. OthersSame(s) /\ (Delivering(s)' <=> Delivering(s))
  BY <1>2 DEF OthersSame, Delivering
<1>9. call[r].alone /\ at # "idle" => InStep(s, op, at)'
  BY <1>2, <1>4, <1>5, <1>8 DEF InStep, Untouched, Provisioned, Withdrawn, Settled
<1>10. call[r].alone /\ at = "idle" /\ s \notin disturbed' => Settled(s)'
  BY <1>2, <1>4, <1>5, <1>8 DEF InStep, Untouched, Withdrawn, Settled
<1> QED
  BY <1>1, <1>2, <1>6, <1>7, <1>8, <1>9, <1>10, AtRequest, RequestMoves

\* Updates that end a request.
LEMMA CommitsAgree ==
    ASSUME Tracking, Agreement, NEW r \in Requests,
           \/ StartCommits(r) \/ ResumeCommits(r) \/ ResumeRejected(r)
           \/ PauseCommits(r) \/ StopCommits(r)
    PROVE  Agreement'
<1>1. PICK s \in Sessions, op \in Ops, a \in Steps :
        s = call[r].on /\ op = call[r].op /\ a = call[r].at
  BY AtRequest
<1>2. /\ Working(r) /\ Goto(r, "idle") /\ pauseIDs' = pauseIDs
      /\ handle' = handle /\ naryo' = naryo
  BY DEF StartCommits, ResumeCommits, ResumeRejected, PauseCommits, StopCommits,
         clientVars, Working, AnswerOK, Answer
<1>3. OnPath(r) /\ r # Ticker
  BY AtRequest DEF Agreement
<1>4. call[r].alone => InStep(s, op, a)
  BY <1>1, <1>2, AloneInStep
<1>5. Steady(r, "idle") /\ OnPath(r)'
  BY <1>2, AtRequest, GoesSteadily DEF Steady, OnPath
<1>6. \/ state' = [state EXCEPT ![s] = Running] /\ Provisioned(op, a)
      \/ state' = [state EXCEPT ![s] = Paused] /\ Withdrawn(op, a)
      \/ state' = [state EXCEPT ![s] = Stopped] /\ Withdrawn(op, a)
      \/ /\ state' = state /\ Provisioned(op, a)
         /\ s \notin disturbed' => state[s] = Running
  BY <1>1, <1>3 DEF StartCommits, ResumeCommits, ResumeRejected, PauseCommits, StopCommits,
                    Provisioned, Withdrawn, OnPath
<1>7. \/ disturbed' = IF call[r].alone THEN disturbed \ {s} ELSE disturbed
      \/ disturbed' = disturbed
      \/ disturbed' = disturbed \union {s}
  BY <1>1 DEF StartCommits, ResumeCommits, ResumeRejected, PauseCommits, StopCommits, AnswerOK,
              historyVars
<1>8. OthersSame(s) /\ (Delivering(s)' <=> Delivering(s))
  BY <1>2, <1>6, <1>7, AtRequest DEF OthersSame, Delivering
<1>9. call[r].alone /\ s \notin disturbed' => Settled(s)'
  BY <1>4, <1>6, <1>8, AtRequest
     DEF InStep, Settled, Running, Paused, Stopped
<1> QED
  BY <1>1, <1>2, <1>5, <1>7, <1>8, <1>9, AtRequest, RequestMoves

\* A broadcaster has been made: the session is delivered to.
LEMMA NewDelivers ==
    ASSUME Tracking, NEW s \in Sessions,
           \/ NewBroadcaster(s)
           \/ \E a, b \in Fresh(s) :
                /\ naryo' = [naryo EXCEPT ![s] = @ \union {a, b}]
                /\ \E found \in {a, b} \union naryo[s] : handle' = [handle EXCEPT ![s] = found]
    PROVE  /\ Delivering(s)'
           /\ \A t \in Sessions \ {s} : Delivering(t)' <=> Delivering(t)
<1>1. PICK new, found :
        /\ naryo' = [naryo EXCEPT ![s] = naryo[s] \union new]
        /\ handle' = [handle EXCEPT ![s] = found]
        /\ found \in new \union naryo[s]
  <2>1. CASE NewBroadcaster(s)
    BY <2>1 DEF NewBroadcaster
  <2>2. CASE \E a, b \in Fresh(s) :
               /\ naryo' = [naryo EXCEPT ![s] = @ \union {a, b}]
               /\ \E found \in {a, b} \union naryo[s] : handle' = [handle EXCEPT ![s] = found]
    BY <2>2
  <2> QED
    BY <2>1, <2>2
<1>2. naryo \in [Sessions -> SUBSET Broadcasters]
      /\ handle \in [Sessions -> Broadcasters \union {NoBroadcaster}]
  BY DEF Tracking, TypeOK
<1>3. naryo'[s] = naryo[s] \union new /\ handle'[s] = found
  BY <1>1, <1>2
<1>4. \A t \in Sessions \ {s} : naryo'[t] = naryo[t] /\ handle'[t] = handle[t]
  BY <1>1, <1>2
<1> QED
  BY <1>1, <1>3, <1>4 DEF Delivering

LEMMA EnsuresAgree ==
    ASSUME Tracking, Agreement, NEW r \in Requests,
           EnsureCreates(r) \/ EnsureMissesOne(r) \/ EnsureFallsBack(r)
    PROVE  Agreement'
<1>1. PICK s \in Sessions, op \in Ops : s = call[r].on /\ op = call[r].op
  BY AtRequest
<1>2. /\ Working(r) /\ call[r].at = "ensuring" /\ Goto(r, AfterEnsure(r))
      /\ state' = state /\ pauseIDs' = pauseIDs
  BY DEF EnsureCreates, EnsureMissesOne, EnsureFallsBack, Working
<1>3. OnPath(r) /\ r # Ticker
  BY AtRequest DEF Agreement
<1>4. PICK at : /\ at = AfterEnsure(r)
                /\ \/ op = "start" /\ at = "commit"
                   \/ op = "resume" /\ at = "count"
  BY <1>1, <1>2, <1>3 DEF AfterEnsure, OnPath
<1>5. Steady(r, at) /\ OnPath(r)'
  BY <1>1, <1>2, <1>4, AtRequest, GoesSteadily DEF Steady, OnPath
<1>6. Delivering(s)' /\ \A t \in Sessions \ {s} : Delivering(t)' <=> Delivering(t)
  BY <1>1, NewDelivers DEF EnsureCreates, EnsureMissesOne, EnsureFallsBack
<1>7. disturbed' = disturbed \/ disturbed' = disturbed \union {s}
  BY <1>1 DEF EnsureCreates, EnsureMissesOne, EnsureFallsBack, NaryoFails
<1>8. OthersSame(s)
  BY <1>2, <1>6, <1>7 DEF OthersSame
<1>9. InStep(s, op, at)'
  BY <1>4, <1>6 DEF InStep, Untouched, Withdrawn
<1> QED
  BY <1>1, <1>2, <1>4, <1>5, <1>7, <1>8, <1>9, AtRequest, RequestMoves

\* A pause fails that only finds its broadcaster gone, or one whose session is
\* disturbed by it.
LEMMA PauseFailsAgrees ==
    ASSUME Tracking, Agreement, NEW r \in Requests, PauseFails(r)
    PROVE  Agreement'
<1>1. PICK s \in Sessions, op \in Ops : s = call[r].on /\ op = call[r].op
  BY AtRequest
<1>2. OnPath(r) /\ r # Ticker
  BY AtRequest DEF Agreement
<1>3. /\ Working(r) /\ call[r].at = "pausing" /\ op = "pause" /\ state' = state
      /\ handle' = handle
  BY <1>1, <1>2 DEF PauseFails, Working, OnPath
<1>4. Goto(r, "idle") /\ pauseIDs' = pauseIDs
  BY <1>1, <1>3 DEF PauseFails, DonePausing
<1>5. Steady(r, "idle") /\ OnPath(r)'
  BY <1>4, AtRequest, GoesSteadily DEF Steady, OnPath
<1>6. \/ s \in disturbed' /\ disturbed' = disturbed \union {s}
      \/ disturbed' = disturbed /\ naryo' = naryo
  BY <1>1 DEF PauseFails, NaryoFails, historyVars
<1>7. \A t \in Sessions \ {s} : naryo'[t] = naryo[t]
  BY <1>1, AtRequest DEF PauseFails
<1>8. OthersSame(s)
  BY <1>3, <1>4, <1>6, <1>7 DEF OthersSame, Delivering
<1>9. call[r].alone /\ s \notin disturbed' => Settled(s)'
  <2>1. call[r].alone => InStep(s, op, "pausing")
    BY <1>1, <1>3, AloneInStep
  <2> QED
    BY <1>3, <1>6, <2>1 DEF InStep, Untouched, Settled, Delivering
<1> QED
  BY <1>1, <1>3, <1>4, <1>5, <1>6, <1>8, <1>9, AtRequest, RequestMoves

\* A call to Naryo fails, and the request with it.
LEMMA FailuresAgree ==
    ASSUME Tracking, Agreement, NEW r \in Requests, EnsureFails(r)
    PROVE  Agreement'
<1>1. PICK s \in Sessions, op \in Ops : s = call[r].on /\ op = call[r].op
  BY AtRequest
<1>2. OnPath(r) /\ r # Ticker
  BY AtRequest DEF Agreement
<1>3. Working(r) /\ state' = state /\ s \in disturbed'
  BY <1>1 DEF EnsureFails, NaryoFails, Working
<1>4. Goto(r, "idle") /\ pauseIDs' = pauseIDs
  BY DEF EnsureFails, Answer
<1>5. Steady(r, "idle") /\ OnPath(r)'
  BY <1>4, AtRequest, GoesSteadily DEF Steady, OnPath
<1>6. \A t \in Sessions \ {s} : handle'[t] = handle[t] /\ naryo'[t] = naryo[t]
  BY <1>1, AtRequest DEF EnsureFails
<1>7. OthersSame(s)
  BY <1>1, <1>3, <1>4, <1>6 DEF OthersSame, Delivering, EnsureFails, NaryoFails
<1> QED
  BY <1>1, <1>3, <1>4, <1>5, <1>7, AtRequest, RequestMoves

\* A broadcaster is deleted, or there was none.
LEMMA DetachedIsSilent ==
    ASSUME Tracking, NEW s \in Sessions, naryo' = [naryo EXCEPT ![s] = Detached(s)],
           handle' = [handle EXCEPT ![s] = NoBroadcaster]
    PROVE  /\ ~Delivering(s)'
           /\ \A t \in Sessions \ {s} : Delivering(t)' <=> Delivering(t)
<1>1. naryo \in [Sessions -> SUBSET Broadcasters]
      /\ handle \in [Sessions -> Broadcasters \union {NoBroadcaster}]
  BY DEF Tracking, TypeOK
<1>2. NoBroadcaster \notin Detached(s)
  BY <1>1, EgressAssumption DEF Detached
<1> QED
  BY <1>1, <1>2 DEF Delivering

LEMMA DetachAgrees ==
    ASSUME Tracking, Agreement, NEW r \in Requests, PauseDetaches(r)
    PROVE  Agreement'
<1>1. PICK s \in Sessions, op \in Ops : s = call[r].on /\ op = call[r].op
  BY AtRequest
<1>2. OnPath(r) /\ r # Ticker
  BY AtRequest DEF Agreement
<1>3. /\ Working(r) /\ op = "pause"
      /\ state' = state /\ disturbed' = disturbed
      /\ naryo' = [naryo EXCEPT ![s] = Detached(s)]
      /\ handle' = [handle EXCEPT ![s] = NoBroadcaster]
  BY <1>1, <1>2 DEF PauseDetaches, Working, OnPath, historyVars
<1>4. Goto(r, "update") /\ pauseIDs' = pauseIDs
  BY <1>1, <1>3 DEF PauseDetaches, AfterPause, DonePausing
<1>5. Steady(r, "update") /\ OnPath(r)'
  BY <1>1, <1>3, <1>4, AtRequest, GoesSteadily DEF Steady, OnPath
<1>6. ~Delivering(s)' /\ \A t \in Sessions \ {s} : Delivering(t)' <=> Delivering(t)
  BY <1>3, DetachedIsSilent
<1>7. OthersSame(s)
  BY <1>3, <1>4, <1>6 DEF OthersSame
<1>8. InStep(s, op, "update")'
  BY <1>3, <1>6 DEF InStep, Untouched, Provisioned
<1> QED
  BY <1>1, <1>3, <1>4, <1>5, <1>7, <1>8, AtRequest, RequestMoves

-----------------------------------------------------------------------------
(* Stops *)

LEMMA TakesAgree ==
    ASSUME Tracking, Agreement, NEW r \in Requests, StopTakes(r)
    PROVE  Agreement'
<1>1. PICK s \in Sessions, op \in Ops : s = call[r].on /\ op = call[r].op
  BY AtRequest
<1>2. /\ Working(r) /\ op = "stop" /\ call[r].at = "take"
      /\ UNCHANGED <<state, naryo, pauseIDs, disturbed>>
      /\ handle' = [handle EXCEPT ![s] = NoBroadcaster]
  BY <1>1, AtRequest
     DEF StopTakes, Working, EntryDropped, historyVars, Agreement, OnPath
<1>3. PICK at \in {"teardown", "update"} : at = IF known[s] THEN "teardown" ELSE "update"
  OBVIOUS
<1>4. Steady(r, at)
  <2> DEFINE m == [call[r] EXCEPT !.at = at, !.taken = handle[s]]
  <2>1. call[r] \in Call
    BY AtRequest
  <2>2. m.op = call[r].op /\ m.on = call[r].on /\ m.alone = call[r].alone /\ m.at = at
    BY <2>1 DEF Call
  <2>3. call' = [call EXCEPT ![r] = m]
    BY <1>1, <1>3, AtRequest DEF StopTakes
  <2> HIDE DEF m
  <2> QED
    BY <2>2, <2>3, AtRequest DEF Steady
<1>5. OnPath(r)'
  BY <1>1, <1>2, <1>4, AtRequest DEF Steady, OnPath
<1>6. ~Delivering(s)' /\ OthersSame(s)
  BY <1>2, AtRequest, EgressAssumption DEF OthersSame, Delivering
<1>7. InStep(s, op, at)'
  BY <1>2, <1>6 DEF InStep, Untouched, Provisioned, Withdrawn
<1> QED
  BY <1>1, <1>2, <1>4, <1>5, <1>6, <1>7, AtRequest, RequestMoves

LEMMA DeletesAgree ==
    ASSUME Tracking, Agreement, NEW r \in Requests, StopDeletes(r)
    PROVE  Agreement'
<1>1. PICK s \in Sessions, op \in Ops : s = call[r].on /\ op = call[r].op
  BY AtRequest
<1>2. /\ Working(r) /\ op = "stop"
      /\ UNCHANGED <<state, pauseIDs>> /\ handle' = handle
      /\ disturbed' = disturbed \/ disturbed' = disturbed \union {s}
  BY <1>1, AtRequest
     DEF StopDeletes, Working, NaryoFails, historyVars, Agreement, OnPath
<1>3. \A t \in Sessions \ {s} : naryo'[t] = naryo[t]
  BY <1>1, AtRequest DEF StopDeletes
<1>4. Steady(r, "count")
  <2> DEFINE m == [call[r] EXCEPT !.at = "count", !.taken = NoBroadcaster]
  <2>1. call[r] \in Call
    BY AtRequest
  <2>2. m.op = call[r].op /\ m.on = call[r].on /\ m.alone = call[r].alone /\ m.at = "count"
    BY <2>1 DEF Call
  <2>3. call' = [call EXCEPT ![r] = m]
    BY DEF StopDeletes
  <2> HIDE DEF m
  <2> QED
    BY <2>2, <2>3, AtRequest DEF Steady
<1>5. OnPath(r)'
  BY <1>1, <1>2, <1>4, AtRequest DEF Steady, OnPath
<1>6. OthersSame(s)
  BY <1>2, <1>3 DEF OthersSame, Delivering
<1>7. InStep(s, op, "count")'
  BY <1>2 DEF InStep, Untouched, Provisioned, Withdrawn
<1> QED
  BY <1>1, <1>2, <1>4, <1>5, <1>6, <1>7, AtRequest, RequestMoves

-----------------------------------------------------------------------------
(* Arrivals and the billing pass *)

LEMMA ReceiveAgrees ==
    ASSUME Tracking, Agreement, NEW r \in Requests, NEW op \in Operations,
           NEW s \in Sessions, Receive(r, op, s)
    PROVE  Agreement'
<1>1. /\ r \in Callers /\ r # Ticker /\ Ticker \in Callers /\ Requests \subseteq Callers
      /\ call \in [Callers -> Call]
  BY DEF Tracking, TypeOK, Callers
<1>2. /\ ~Working(r)
      /\ UNCHANGED <<state, handle, naryo, pauseIDs>>
      /\ disturbed' = IF Quiet(s) THEN disturbed ELSE disturbed \union {s}
  BY DEF Receive, Working, clientVars
<1>3. /\ call'[r].op = op /\ call'[r].on = s /\ call'[r].at = First(op)
      /\ call'[r].alone <=> Quiet(s)
  BY <1>1 DEF Receive
<1>4. op \in {"start", "resume", "pause", "stop"} /\ Working(r)'
  BY <1>3, EgressAssumption DEF Receive, First, Working
<1>5. ASSUME NEW d \in Callers \ {r}
      PROVE  /\ call'[d].op = call[d].op /\ call'[d].on = call[d].on /\ call'[d].at = call[d].at
             /\ Working(d)' <=> Working(d)
             /\ call'[d].alone <=> call[d].alone /\ ~(Working(d) /\ call[d].on = s)
  <2>1. call[d] \in Call /\ [call[d] EXCEPT !.alone = FALSE] \in Call
    BY <1>1 DEF Call
  <2>2. call'[d] = IF d \in CallsOn(s) THEN [call[d] EXCEPT !.alone = FALSE] ELSE call[d]
    BY <1>1 DEF Receive
  <2>3. d \in CallsOn(s) <=> Working(d) /\ call[d].on = s
    BY DEF CallsOn, Working
  <2> QED
    BY <2>1, <2>2, <2>3 DEF Call, Working
<1>6. \A c \in Callers : OnPath(c)'
  BY <1>3, <1>4, <1>5 DEF Agreement, OnPath, First
<1>7. Working(Ticker)' => call'[Ticker].on \in pauseIDs'
  BY <1>1, <1>2, <1>5 DEF Agreement
<1>8. Quiet(s) /\ s \notin disturbed => Settled(s)
  BY DEF Agreement, QuietSettled, Settled
<1>9. \A t : (Delivering(t)' <=> Delivering(t)) /\ (Settled(t)' <=> Settled(t))
  BY <1>2 DEF Delivering, Settled
<1>10. RequestAgrees(r)'
  <2>1. CASE Quiet(s)
    <3>1. Single(r)'
      BY <1>1, <1>2, <1>3, <1>5, <2>1, QuietIs DEF Single
    <3>2. InStep(s, op, First(op))'
      BY <1>2, <1>4, <1>8, <1>9, <2>1 DEF InStep, First, Provisioned, Withdrawn
    <3> QED
      BY <1>3, <2>1, <3>1, <3>2 DEF RequestAgrees, InStep
  <2>2. CASE ~Quiet(s)
    BY <1>2, <1>3, <2>2 DEF RequestAgrees
  <2> QED
    BY <2>1, <2>2
<1>11. ASSUME NEW q \in Requests \ {r}
       PROVE  RequestAgrees(q)'
  <2>1. q \in Callers \ {r} /\ call[q].on \in Sessions
    BY <1>1, CallFields
  <2>2. CASE Working(q) /\ call[q].on = s
    <3>1. ~Quiet(s)
      BY <2>1, <2>2, QuietIs
    <3> QED
      BY <1>2, <1>5, <2>1, <2>2, <3>1 DEF RequestAgrees
  <2>3. CASE Working(q) /\ call[q].on # s /\ call[q].alone
    <3>1. Single(q) /\ InStep(call[q].on, call[q].op, call[q].at)
      BY <2>3 DEF Agreement, RequestAgrees
    <3>2. Single(q)'
      BY <1>1, <1>2, <1>3, <1>5, <2>1, <2>3, <3>1 DEF Single
    <3>3. InStep(call[q].on, call[q].op, call[q].at)'
      BY <1>2, <1>5, <1>9, <2>1, <2>3, <3>1 DEF InStep, Untouched, Provisioned, Withdrawn
    <3> QED
      BY <1>5, <2>1, <2>3, <3>2, <3>3 DEF RequestAgrees
  <2>4. CASE Working(q) /\ call[q].on # s /\ ~call[q].alone
    BY <1>2, <1>5, <2>1, <2>4 DEF Agreement, RequestAgrees
  <2>5. CASE ~Working(q)
    BY <1>5, <2>1, <2>5 DEF RequestAgrees
  <2> QED
    BY <2>2, <2>3, <2>4, <2>5
<1>12. \A t \in Sessions : PauseAgrees(t)'
  <2>1. PauseAgrees(s)'
    BY <1>2, QuietIs DEF PauseAgrees
  <2>2. \A t \in Sessions \ {s} : PauseAgrees(t)'
    BY <1>1, <1>2, <1>3, <1>5 DEF Agreement, PauseAgrees
  <2> QED
    BY <2>1, <2>2
<1>13. QuietSettled'
  <2>1. ~Quiet(s)'
    BY <1>1, <1>3, <1>4, QuietIs
  <2>2. \A t \in Sessions \ {s} : Quiet(t)' => Quiet(t)
    BY <1>2, <1>5, QuietIs
  <2> QED
    BY <1>2, <1>9, <2>1, <2>2 DEF Agreement, QuietSettled, Settled
<1> QED
  BY <1>6, <1>7, <1>10, <1>11, <1>12, <1>13 DEF Agreement

LEMMA TickPausesAgrees ==
    ASSUME Tracking, Agreement, NEW s \in Sessions, TickPauses(s)
    PROVE  Agreement'
<1>1. /\ Ticker \in Callers /\ Ticker \notin Requests /\ Requests \subseteq Callers
      /\ call \in [Callers -> Call]
      /\ state \in [Sessions -> {Created, Running, Paused, Stopped}]
  BY DEF Tracking, TypeOK, Callers
<1>2. /\ UNCHANGED <<handle, naryo>>
      /\ state' = [state EXCEPT ![s] = Paused]
      /\ pauseIDs' = pauseIDs \union {s}
      /\ disturbed' = IF Quiet(s) THEN disturbed ELSE disturbed \union {s}
  BY DEF TickPauses, clientVars
<1>3. ASSUME NEW d \in Callers
      PROVE  /\ call'[d].op = call[d].op /\ call'[d].on = call[d].on /\ call'[d].at = call[d].at
             /\ Working(d)' <=> Working(d)
             /\ call'[d].alone <=> call[d].alone /\ ~(Working(d) /\ call[d].on = s)
  <2>1. call[d] \in Call
    BY <1>1
  <2>2. call'[d] = IF d \in CallsOn(s) THEN [call[d] EXCEPT !.alone = FALSE] ELSE call[d]
    BY <1>1 DEF TickPauses
  <2>3. d \in CallsOn(s) <=> Working(d) /\ call[d].on = s
    BY DEF CallsOn, Working
  <2> QED
    BY <2>1, <2>2, <2>3 DEF Call, Working
<1>4. \A c \in Callers : OnPath(c)'
  BY <1>3 DEF Agreement, OnPath
<1>5. Working(Ticker)' => call'[Ticker].on \in pauseIDs'
  BY <1>1, <1>2, <1>3 DEF Agreement
<1>6. \A t \in Sessions \ {s} : state'[t] = state[t] /\ (Settled(t)' <=> Settled(t))
  BY <1>1, <1>2 DEF Delivering, Settled
<1>7. \A t : Delivering(t)' <=> Delivering(t)
  BY <1>2 DEF Delivering
<1>8. ASSUME NEW q \in Requests
      PROVE  RequestAgrees(q)'
  <2>1. q \in Callers /\ call[q].on \in Sessions
    BY <1>1, CallFields
  <2>2. CASE Working(q) /\ call[q].on = s
    <3>1. ~Quiet(s)
      BY <2>1, <2>2, QuietIs
    <3> QED
      BY <1>2, <1>3, <2>1, <2>2, <3>1 DEF RequestAgrees
  <2>3. CASE Working(q) /\ call[q].on # s /\ call[q].alone
    <3>1. Single(q) /\ InStep(call[q].on, call[q].op, call[q].at)
      BY <2>3 DEF Agreement, RequestAgrees
    <3>2. Single(q)'
      BY <1>1, <1>2, <1>3, <2>1, <2>3, <3>1 DEF Single
    <3>3. InStep(call[q].on, call[q].op, call[q].at)'
      BY <1>2, <1>3, <1>6, <1>7, <2>1, <2>3, <3>1
         DEF InStep, Untouched, Provisioned, Withdrawn
    <3> QED
      BY <1>3, <2>1, <2>3, <3>2, <3>3 DEF RequestAgrees
  <2>4. CASE Working(q) /\ call[q].on # s /\ ~call[q].alone
    BY <1>2, <1>3, <2>1, <2>4 DEF Agreement, RequestAgrees
  <2>5. CASE ~Working(q)
    BY <1>3, <2>1, <2>5 DEF RequestAgrees
  <2> QED
    BY <2>2, <2>3, <2>4, <2>5
<1>9. \A t \in Sessions : PauseAgrees(t)'
  <2>1. PauseAgrees(s)'
    <3>1. state'[s] # Running
      BY <1>1, <1>2 DEF Running, Paused
    <3> QED
      BY <1>1, <1>2, <1>3, <3>1, QuietIs DEF PauseAgrees
  <2>2. \A t \in Sessions \ {s} : PauseAgrees(t)'
    BY <1>1, <1>2, <1>3, <1>6 DEF Agreement, PauseAgrees
  <2> QED
    BY <2>1, <2>2
<1>10. QuietSettled'
  <2>1. ~Quiet(s)'
    BY <1>2, QuietIs
  <2>2. \A t \in Sessions \ {s} : Quiet(t)' => Quiet(t)
    BY <1>2, <1>3, QuietIs
  <2> QED
    BY <1>2, <1>6, <1>7, <2>1, <2>2 DEF Agreement, QuietSettled
<1> QED
  BY <1>4, <1>5, <1>8, <1>9, <1>10 DEF Agreement

LEMMA TickDetachesAgrees ==
    ASSUME Tracking, Agreement, NEW s \in Sessions, TickDetaches(s)
    PROVE  Agreement'
<1>1. /\ Ticker \in Callers /\ Ticker \notin Requests /\ Requests \subseteq Callers
      /\ call \in [Callers -> Call] /\ call[Ticker].op = "tick"
  BY DEF Tracking, TypeOK, CallsConsistent, Callers
<1>2. /\ UNCHANGED <<state, handle, naryo, pauseIDs, disturbed>>
      /\ s \in pauseIDs
      /\ ~Working(Ticker)
  BY DEF TickDetaches, ToDetach, clientVars, historyVars, Working
<1>3. call'[Ticker].op = "tick" /\ call'[Ticker].on = s /\ call'[Ticker].at = "egress"
  <2> DEFINE m == [call[Ticker] EXCEPT !.at = "egress", !.on = s]
  <2>1. call[Ticker] \in Call
    BY <1>1
  <2>2. m.op = call[Ticker].op /\ m.on = s /\ m.at = "egress"
    BY <2>1 DEF Call
  <2>3. call' = [call EXCEPT ![Ticker] = m]
    BY DEF TickDetaches
  <2> HIDE DEF m
  <2> QED
    BY <1>1, <2>2, <2>3
<1>4. \A d \in Callers \ {Ticker} : call'[d] = call[d] /\ (Working(d)' <=> Working(d))
  BY <1>1 DEF TickDetaches, Working
<1>5. \A c \in Callers : OnPath(c)'
  BY <1>3, <1>4 DEF Agreement, OnPath
<1>6. Working(Ticker)' => call'[Ticker].on \in pauseIDs'
  BY <1>2, <1>3
<1>7. \A t : (Delivering(t)' <=> Delivering(t)) /\ (Settled(t)' <=> Settled(t))
  BY <1>2 DEF Delivering, Settled
<1>8. ASSUME NEW q \in Requests
      PROVE  RequestAgrees(q)'
  <2>1. q \in Callers /\ q # Ticker
    BY <1>1
  <2>2. Single(q) => Single(q)'
    BY <1>1, <1>2, <1>3, <1>4, <2>1 DEF Single
  <2>3. InStep(call[q].on, call[q].op, call[q].at)
          => InStep(call[q].on, call[q].op, call[q].at)'
    BY <1>2, <1>4, <1>7, <2>1 DEF InStep, Untouched, Provisioned, Withdrawn
  <2>4. RequestAgrees(q)
    BY DEF Agreement
  <2> QED
    BY <1>2, <1>4, <2>1, <2>2, <2>3, <2>4 DEF RequestAgrees
<1>9. \A t \in Sessions : PauseAgrees(t)'
  BY <1>1, <1>2, <1>4 DEF Agreement, PauseAgrees
<1>10. QuietSettled'
  <2>1. \A t \in Sessions : Quiet(t)' => Quiet(t)
    BY <1>2, <1>4, QuietIs
  <2> QED
    BY <1>2, <1>7, <2>1 DEF Agreement, QuietSettled, Settled
<1> QED
  BY <1>5, <1>6, <1>8, <1>9, <1>10 DEF Agreement

\* The billing pass at the client.
LEMMA PassAtClientAgrees ==
    ASSUME Tracking, Agreement, ClientStep(Ticker)
    PROVE  Agreement'
<1>1. /\ Ticker \in Callers /\ call \in [Callers -> Call] /\ call[Ticker].op = "tick"
      /\ call[Ticker].on \in Sessions /\ OnPath(Ticker)
  BY CallFields DEF Tracking, TypeOK, CallsConsistent, Callers, Agreement
<1>2. PICK s \in Sessions : s = call[Ticker].on
  BY <1>1
<1>3. PauseLocks(Ticker) \/ PauseDetaches(Ticker) \/ PauseFails(Ticker)
  BY <1>1 DEF ClientStep, EnsureRefused, EnsureLocks, EnsureReuses, EnsureCreates,
              EnsureMissesOne, EnsureFallsBack, EnsureFails, OnPath
<1>4. Working(Ticker)
  BY <1>3 DEF PauseLocks, PauseDetaches, PauseFails, Working
<1>5. CASE PauseLocks(Ticker)
  <2>1. UNCHANGED <<state, handle, naryo, pauseIDs, disturbed>> /\ Steady(Ticker, "pausing")
    BY <1>1, <1>5, GoesSteadily DEF PauseLocks, clientVars, historyVars
  <2>2. OthersSame(s)
    BY <2>1 DEF OthersSame, Delivering
  <2> QED
    BY <1>1, <1>2, <1>4, <2>1, <2>2, TickerMoves
<1>6. CASE PauseDetaches(Ticker)
  <2>1. /\ state' = state /\ disturbed' = disturbed
        /\ pauseIDs' = pauseIDs \ {s}
        /\ naryo' = [naryo EXCEPT ![s] = Detached(s)]
        /\ handle' = [handle EXCEPT ![s] = NoBroadcaster]
        /\ Steady(Ticker, "pass")
    BY <1>1, <1>2, <1>6, GoesSteadily DEF PauseDetaches, AfterPause, DonePausing, historyVars
  <2>2. ~Delivering(s)' /\ OthersSame(s)
    BY <2>1, DetachedIsSilent DEF OthersSame
  <2> QED
    BY <1>1, <1>2, <1>4, <2>1, <2>2, TickerMoves
<1>7. CASE PauseFails(Ticker)
  <2>1. /\ state' = state
        /\ \/ disturbed' = disturbed \union {s}
           \/ disturbed' = disturbed /\ naryo' = naryo /\ ~Delivering(s)
        /\ pauseIDs' = pauseIDs \ {s}
        /\ naryo' \in {naryo, [naryo EXCEPT ![s] = Detached(s)]}
        /\ handle' = handle
        /\ Steady(Ticker, "pass")
    BY <1>1, <1>2, <1>7, GoesSteadily DEF PauseFails, DonePausing, NaryoFails, historyVars
  <2>2. \A t \in Sessions \ {s} : naryo'[t] = naryo[t]
    BY <2>1 DEF Tracking, TypeOK
  <2>3. OthersSame(s)
    BY <2>1, <2>2 DEF OthersSame, Delivering
  <2>4. s \notin disturbed' => ~Delivering(s)'
    BY <2>1 DEF Delivering
  <2> QED
    BY <1>1, <1>2, <1>4, <2>1, <2>3, <2>4, TickerMoves
<1> QED
  BY <1>3, <1>5, <1>6, <1>7

\* Steps that no session is concerned in.
LEMMA AsideAgrees ==
    ASSUME Tracking, Agreement,
           \/ \E s \in Sessions : Reconfigure(s) \/ TickVisits(s)
           \/ TickBegins \/ TickEnds \/ UNCHANGED vars
    PROVE  Agreement'
<1>1. /\ Ticker \in Callers /\ call \in [Callers -> Call] /\ call[Ticker].op = "tick"
  BY DEF Tracking, TypeOK, CallsConsistent, Callers
<1>2. UNCHANGED <<state, handle, naryo, pauseIDs, disturbed>>
  BY DEF Reconfigure, TickVisits, TickBegins, TickEnds, vars, clientVars, historyVars
<1>3. CASE call' = call
  BY <1>2, <1>3, RestAgrees
<1>4. CASE TickBegins \/ TickEnds
  <2>1. PICK at \in {"idle", "pass"} : Goto(Ticker, at) /\ ~Working(Ticker)
    BY <1>4 DEF TickBegins, TickEnds, Working
  <2>2. Steady(Ticker, at)
    BY <1>1, <2>1, GoesSteadily
  <2> QED
    BY <1>1, <1>2, <2>1, <2>2, RestAgrees
<1> QED
  BY <1>3, <1>4 DEF Reconfigure, TickVisits, vars

-----------------------------------------------------------------------------
LEMMA AgreementStep == Tracking /\ Agreement /\ [Next]_vars => Agreement'
<1> SUFFICES ASSUME Tracking, Agreement, [Next]_vars
             PROVE  Agreement'
  OBVIOUS
<1>1. CASE \E r \in Requests, op \in Operations, s \in Sessions : Receive(r, op, s)
  BY <1>1, ReceiveAgrees
<1>2. CASE \E r \in Requests : RequestStep(r)
  BY <1>2, MovesOnAgree, CommitsAgree, EnsuresAgree, FailuresAgree,
     PauseFailsAgrees, DetachAgrees, TakesAgree, DeletesAgree
     DEF RequestStep, ClientStep
<1>3. CASE TickStep
  BY <1>3, PassAtClientAgrees, TickPausesAgrees, TickDetachesAgrees, AsideAgrees DEF TickStep
<1>4. CASE (\E s \in Sessions : Reconfigure(s)) \/ TickBegins \/ UNCHANGED vars
  BY <1>4, AsideAgrees
<1> QED
  BY <1>1, <1>2, <1>3, <1>4 DEF Next

-----------------------------------------------------------------------------
\* With no call under way and none lost track of, Naryo has at most the
\* broadcaster that the client knows of.
LEMMA QuietTracked ==
    ASSUME Tracking, NEW s \in Sessions, Quiet(s), s \notin replaced
    PROVE  naryo[s] = IF Delivering(s) THEN {handle[s]} ELSE {}
<1>1. Taken(s) \subseteq {NoBroadcaster}
  <2>1. \A c \in Callers : call[c].on = s => call[c].at # "teardown"
    BY DEF Quiet, CallsOn
  <2>2. \A c \in Callers : call[c].on = s => call[c].taken = NoBroadcaster
    BY <2>1 DEF Tracking, CallsConsistent
  <2> QED
    BY <2>2 DEF Taken
<1>2. naryo[s] \subseteq {handle[s], NoBroadcaster}
  BY <1>1 DEF Tracking, BroadcastersTracked, Tracked
<1>3. NoBroadcaster \notin naryo[s]
  BY DEF Tracking, TypeOK
<1> QED
  BY <1>2, <1>3 DEF Delivering

\* A request or an automatic pause that had its session for itself, with
\* Naryo's calls answered, sets right the broadcaster that the client knows
\* of, whatever overlapped or failed before: Start inside its Update, Resume,
\* Pause and Stop around theirs, and the pass after its own.  Naryo has no
\* other for the session, unless the client has lost track of one before, as
\* only those in `replaced` may have.
THEOREM AgreeUnlessDisturbedCorrect == Spec => []AgreeUnlessDisturbed
<1>1. Tracking /\ Agreement => AgreeUnlessDisturbed
  <2> SUFFICES ASSUME Tracking, Agreement, NEW s \in Sessions, Quiet(s), s \notin disturbed
               PROVE  /\ state[s] = Running <=> Delivering(s)
                      /\ s \notin replaced =>
                           naryo[s] = IF state[s] = Running THEN {handle[s]} ELSE {}
    BY DEF AgreeUnlessDisturbed
  <2>1. state[s] = Running <=> Delivering(s)
    BY DEF Agreement, QuietSettled, Settled
  <2> QED
    BY <2>1, QuietTracked
<1>2. Spec => []Tracking
  BY TrackingInvariant
<1>3. Spec => []Agreement
  BY <1>2, AgreementInit, AgreementStep, PTL DEF Spec
<1> QED
  BY <1>1, <1>2, <1>3, PTL
=============================================================================
