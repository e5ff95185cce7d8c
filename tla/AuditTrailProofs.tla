-------------------------- MODULE AuditTrailProofs ---------------------------
(***************************************************************************)
(* Proofs about what the platform tells of its sessions (module AuditTrail *)
(* within Records): types and capacities, that the audit log and the feed  *)
(* tell a session's state, and that no charged unit is summarised twice or *)
(* lost unnoticed; whatever the sessions, the requests in flight, the      *)
(* capacities and the failures.                                            *)
(***************************************************************************)
EXTENDS RecordsProofs, FoldLemmas

-----------------------------------------------------------------------------
(* What a reader of the topic makes of its events *)

Logs == [Sessions -> Said]

LEMMA ToldType ==
    /\ \A k \in DOMAIN StateTold : StateTold[k] \in States
    /\ \A k \in DOMAIN StreamTold : StreamTold[k] \in BOOLEAN
<1>1. \A k \in DOMAIN StateTold : StateTold[k] \in States
  <2>1. DOMAIN StateTold = {"pipeline_created", "pipeline_started", "pipeline_paused",
                            "pipeline_resumed", "pipeline_stopped"}
    BY DEF StateTold
  <2>2. /\ StateTold["pipeline_created"] = "created" /\ StateTold["pipeline_started"] = "running"
        /\ StateTold["pipeline_paused"] = "paused" /\ StateTold["pipeline_resumed"] = "running"
        /\ StateTold["pipeline_stopped"] = "stopped"
    BY DEF StateTold
  <2> QED BY <2>1, <2>2 DEF States
<1>2. \A k \in DOMAIN StreamTold : StreamTold[k] \in BOOLEAN
  <2>1. DOMAIN StreamTold = {"pipeline_created", "pipeline_started", "pipeline_paused",
                             "pipeline_resumed", "payment_stream_started",
                             "payment_stream_stalled", "payment_stream_terminated"}
    BY DEF StreamTold
  <2>2. /\ StreamTold["pipeline_created"] = FALSE /\ StreamTold["pipeline_started"] = TRUE
        /\ StreamTold["pipeline_paused"] = FALSE /\ StreamTold["pipeline_resumed"] = TRUE
        /\ StreamTold["payment_stream_started"] = TRUE
        /\ StreamTold["payment_stream_stalled"] = FALSE
        /\ StreamTold["payment_stream_terminated"] = FALSE
    BY DEF StreamTold
  <2> QED BY <2>1, <2>2
<1> QED BY <1>1, <1>2

LEMMA HeardType ==
    ASSUME NEW log \in Logs, NEW e \in Event
    PROVE  Heard(log, e) \in Logs
<1>1. CASE e.on = NoSession
  BY <1>1 DEF Heard
<1>2. CASE e.on # NoSession
  <2> DEFINE s == e.on
             new == [state |-> Told(StateTold, e, log[s].state),
                     stream |-> Told(StreamTold, e, log[s].stream),
                     units |-> log[s].units + e.units]
  <2>1. s \in Sessions /\ e.units \in Nat /\ log[s] \in Said
    BY <1>2 DEF Event, Logs
  <2>2. Told(StateTold, e, log[s].state) \in States \union {"none"}
    BY <2>1, ToldType DEF Told, Said
  <2>3. Told(StreamTold, e, log[s].stream) \in BOOLEAN
    BY <2>1, ToldType DEF Told, Said
  <2>4. new \in Said
    BY <2>1, <2>2, <2>3 DEF Said
  <2>5. Heard(log, e) = [log EXCEPT ![s] = new]
    BY <1>2 DEF Heard
  <2> HIDE DEF new
  <2> QED BY <2>4, <2>5 DEF Logs
<1> QED BY <1>1, <1>2

\* An event says something of its own session.
LEMMA HeardValues ==
    ASSUME NEW log \in Logs, NEW e \in Event, NEW s \in Sessions
    PROVE  /\ e.on # s => Heard(log, e)[s] = log[s]
           /\ e.on = s => /\ Heard(log, e)[s].state = Told(StateTold, e, log[s].state)
                          /\ Heard(log, e)[s].stream = Told(StreamTold, e, log[s].stream)
                          /\ Heard(log, e)[s].units = log[s].units + e.units
<1>1. NoSession \notin Sessions
  BY AuditTrailAssumption DEF AuditTrailAssumption
<1> QED BY <1>1 DEF Heard, Logs

\* What all events of a list make of a log.
Logged(log, list) == FoldLeft(Heard, log, list)

Hearing(list) == [i \in 1 .. Len(list) |-> [log \in Logs |-> Heard(log, list[i])]]

LEMMA HearingType ==
    ASSUME NEW list \in Seq(Event)
    PROVE  \A i \in 1 .. Len(list) : \A v \in Logs : Hearing(list)[i][v] \in Logs
  BY HeardType DEF Hearing

Hears(iter, log, list) ==
    iter = [T \in SUBSET DOMAIN list |->
              IF T = {} THEN log ELSE Heard(iter[T \ {Max(T)}], list[Max(T)])]

LEMMA LoggedHears ==
    ASSUME NEW log \in Logs, NEW list \in Seq(Event)
    PROVE  \E iter : Hears(iter, log, list) /\ Logged(log, list) = iter[1 .. Len(list)]
<1> DEFINE n == Len(list)
           step == Hearing(list)
<1>1. n \in Nat /\ DOMAIN list = 1 .. n
  BY LenProperties
<1>2. PICK iter \in [SUBSET (1 .. n) -> Logs] :
        Folding(iter, 1 .. n, log, [T \in SUBSET (1 .. n) |-> Max(T)], step)
  <2> HIDE DEF n, step
  <2>1. \A i \in 1 .. n : \A v \in Logs : step[i][v] \in Logs
    BY HearingType DEF n, step
  <2> QED BY <1>1, <2>1, FoldOfIndices
<1>3. Hears(iter, log, list)
  <2>1. ASSUME NEW T \in SUBSET (1 .. n), T # {}
        PROVE  step[Max(T)][iter[T \ {Max(T)}]] = Heard(iter[T \ {Max(T)}], list[Max(T)])
    <3>1. Max(T) \in 1 .. n
      BY <1>1, <2>1, MaxInSet
    <3>2. iter[T \ {Max(T)}] \in Logs
      OBVIOUS
    <3> QED BY <3>1, <3>2 DEF Hearing
  <2> HIDE DEF n, step
  <2> QED BY <1>1, <1>2, <2>1 DEF Hears, Folding
<1>4. Logged(log, list) = (CHOOSE f : Hears(f, log, list))[DOMAIN list]
  BY DEF Logged, FoldLeft, MapThenFoldSet, Hears
<1> QED BY <1>1, <1>3, <1>4

\* Event by event.
HeardBy(R, log, list) == Run(R, Len(list), Logs, log, Hearing(list))

LEMMA LoggedRun ==
    ASSUME NEW log \in Logs, NEW list \in Seq(Event)
    PROVE  \E R : HeardBy(R, log, list) /\ Logged(log, list) = R[Len(list)]
<1> DEFINE n == Len(list)
           step == Hearing(list)
<1>1. n \in Nat /\ DOMAIN list = 1 .. n
  BY LenProperties
<1>2. PICK iter : Hears(iter, log, list) /\ Logged(log, list) = iter[1 .. n]
  BY LoggedHears
<1>3. iter[{}] = log
  BY <1>2 DEF Hears
<1>4. \A T \in SUBSET (1 .. n) : T # {} /\ iter[T \ {Max(T)}] \in Logs =>
        iter[T] = step[Max(T)][iter[T \ {Max(T)}]]
  <2> SUFFICES ASSUME NEW T \in SUBSET (1 .. n), T # {}, iter[T \ {Max(T)}] \in Logs
               PROVE  iter[T] = step[Max(T)][iter[T \ {Max(T)}]]
    OBVIOUS
  <2>1. Max(T) \in 1 .. n
    BY <1>1, MaxInSet
  <2>2. iter[T] = Heard(iter[T \ {Max(T)}], list[Max(T)])
    BY <1>1, <1>2 DEF Hears
  <2> QED BY <2>1, <2>2 DEF Hearing
<1>5. \A i \in 1 .. n : \A v \in Logs : step[i][v] \in Logs
  BY HearingType
<1>6. Run([i \in 0 .. n |-> iter[1 .. i]], n, Logs, log, step)
  <2>0. n \in Nat /\ log \in Logs
    BY <1>1
  <2> HIDE DEF n, step, Logs
  <2>1. iter[{}] = log
    BY <1>3
  <2>2. \A T \in SUBSET (1 .. n) : T # {} /\ iter[T \ {Max(T)}] \in Logs =>
          iter[T] = step[Max(T)][iter[T \ {Max(T)}]]
    BY <1>4
  <2>3. \A i \in 1 .. n : \A v \in Logs : step[i][v] \in Logs
    BY <1>5
  <2> QED BY ONLY <2>0, <2>1, <2>2, <2>3, FoldRun
<1>7. [i \in 0 .. n |-> iter[1 .. i]][n] = iter[1 .. n]
  BY <1>1
<1> QED BY <1>2, <1>6, <1>7 DEF HeardBy

LEMMA HeardByUnique ==
    ASSUME NEW log, NEW list \in Seq(Event), NEW R, HeardBy(R, log, list),
           NEW Q, HeardBy(Q, log, list)
    PROVE  R[Len(list)] = Q[Len(list)]
<1>1. Len(list) \in Nat
  BY LenProperties
<1>2. \A i \in 0 .. Len(list) : R[i] = Q[i]
  BY <1>1, RunUnique DEF HeardBy
<1> QED BY <1>1, <1>2

LEMMA HeardBySteps ==
    ASSUME NEW log, NEW list \in Seq(Event), NEW R
    PROVE  HeardBy(R, log, list) <=>
             /\ R \in [0 .. Len(list) -> Logs]
             /\ R[0] = log
             /\ \A i \in 1 .. Len(list) : R[i] = Heard(R[i - 1], list[i])
<1>0. Len(list) \in Nat
  BY LenProperties
<1>1. ASSUME R \in [0 .. Len(list) -> Logs], NEW i \in 1 .. Len(list)
      PROVE  Hearing(list)[i][R[i - 1]] = Heard(R[i - 1], list[i])
  <2>1. i - 1 \in 0 .. Len(list)
    BY <1>0
  <2>2. R[i - 1] \in Logs
    BY <1>1, <2>1
  <2> QED BY <2>2 DEF Hearing
<1> QED BY <1>1 DEF HeardBy, Run

LEMMA LoggedType ==
    ASSUME NEW log \in Logs, NEW list \in Seq(Event)
    PROVE  Logged(log, list) \in Logs
<1>1. PICK R : HeardBy(R, log, list) /\ Logged(log, list) = R[Len(list)]
  BY LoggedRun
<1>2. Len(list) \in 0 .. Len(list)
  BY LenProperties
<1> QED BY <1>1, <1>2, HeardBySteps

LEMMA LoggedEmpty ==
    ASSUME NEW log \in Logs
    PROVE  Logged(log, <<>>) = log
<1>1. <<>> \in Seq(Event) /\ Len(<<>>) = 0
  OBVIOUS
<1>2. PICK R : HeardBy(R, log, <<>>) /\ Logged(log, <<>>) = R[0]
  BY <1>1, LoggedRun
<1> QED BY <1>1, <1>2, HeardBySteps

\* One event more at the end ...
LEMMA LoggedAppend ==
    ASSUME NEW log \in Logs, NEW list \in Seq(Event), NEW e \in Event
    PROVE  Logged(log, Append(list, e)) = Heard(Logged(log, list), e)
<1> DEFINE n == Len(list)
           long == Append(list, e)
<1>1. /\ long \in Seq(Event) /\ Len(long) = n + 1 /\ n \in Nat
      /\ \A i \in 1 .. n : long[i] = list[i]
      /\ long[n + 1] = e
  BY AppendProperties, LenProperties
<1>2. PICK R : HeardBy(R, log, list) /\ Logged(log, list) = R[n]
  BY LoggedRun
<1>3. PICK Q : HeardBy(Q, log, long) /\ Logged(log, long) = Q[n + 1]
  <2> HIDE DEF long
  <2> QED BY <1>1, LoggedRun
<1> HIDE DEF n, long
<1>4. /\ Q \in [0 .. n + 1 -> Logs] /\ Q[0] = log
      /\ \A i \in 1 .. n + 1 : Q[i] = Heard(Q[i - 1], long[i])
  <2>0. long \in Seq(Event) /\ HeardBy(Q, log, long)
    BY <1>1, <1>3
  <2>1. /\ Q \in [0 .. Len(long) -> Logs] /\ Q[0] = log
        /\ \A i \in 1 .. Len(long) : Q[i] = Heard(Q[i - 1], long[i])
    BY ONLY <2>0, HeardBySteps
  <2> QED BY <1>1, <2>1
<1> DEFINE P == [i \in 0 .. n |-> Q[i]]
<1>5. HeardBy(P, log, list)
  <2>1. P \in [0 .. n -> Logs] /\ P[0] = log
    BY <1>1, <1>4
  <2>2. ASSUME NEW i \in 1 .. n
        PROVE  P[i] = Heard(P[i - 1], list[i])
    <3>1. i \in 1 .. n + 1 /\ i \in 0 .. n /\ i - 1 \in 0 .. n
      BY <1>1
    <3>2. P[i] = Q[i] /\ P[i - 1] = Q[i - 1] /\ long[i] = list[i]
      BY <1>1, <3>1
    <3> HIDE DEF P
    <3> QED BY <1>4, <3>1, <3>2
  <2> HIDE DEF P
  <2> QED BY <2>1, <2>2, HeardBySteps DEF n
<1>6. R[n] = P[n]
  <2> HIDE DEF P
  <2> QED BY <1>2, <1>5, HeardByUnique DEF n
<1>7. Q[n + 1] = Heard(Q[n], e)
  <2>1. n + 1 \in 1 .. n + 1 /\ (n + 1) - 1 = n
    BY <1>1
  <2> QED BY <1>1, <1>4, <2>1
<1>8. P[n] = Q[n]
  BY <1>1
<1> QED BY <1>2, <1>3, <1>6, <1>7, <1>8 DEF long

\* ... or at the beginning.
LEMMA LoggedFirst ==
    ASSUME NEW log \in Logs, NEW e \in Event, NEW list \in Seq(Event)
    PROVE  Logged(log, <<e>> \o list) = Logged(Heard(log, e), list)
<1> DEFINE n == Len(list)
           long == <<e>> \o list
<1>1. /\ long \in Seq(Event) /\ Len(long) = n + 1 /\ n \in Nat
      /\ long[1] = e
      /\ \A i \in 1 .. n : long[i + 1] = list[i]
  OBVIOUS
<1>2. Heard(log, e) \in Logs
  BY HeardType
<1>3. PICK R : HeardBy(R, Heard(log, e), list) /\ Logged(Heard(log, e), list) = R[n]
  BY <1>2, LoggedRun
<1>4. PICK Q : HeardBy(Q, log, long) /\ Logged(log, long) = Q[n + 1]
  <2> HIDE DEF long
  <2> QED BY <1>1, LoggedRun
<1> HIDE DEF n, long
<1>5. /\ Q \in [0 .. n + 1 -> Logs] /\ Q[0] = log
      /\ \A i \in 1 .. n + 1 : Q[i] = Heard(Q[i - 1], long[i])
  <2>0. long \in Seq(Event) /\ HeardBy(Q, log, long)
    BY <1>1, <1>4
  <2>1. /\ Q \in [0 .. Len(long) -> Logs] /\ Q[0] = log
        /\ \A i \in 1 .. Len(long) : Q[i] = Heard(Q[i - 1], long[i])
    BY ONLY <2>0, HeardBySteps
  <2> QED BY <1>1, <2>1
<1> DEFINE P == [i \in 0 .. n |-> Q[i + 1]]
<1>6. HeardBy(P, Heard(log, e), list)
  <2>1. P \in [0 .. n -> Logs]
    BY <1>1, <1>5
  <2>2. P[0] = Heard(log, e)
    <3>1. 1 \in 1 .. n + 1 /\ 0 \in 0 .. n
      BY <1>1
    <3> QED BY <1>1, <1>5, <3>1
  <2>3. ASSUME NEW i \in 1 .. n
        PROVE  P[i] = Heard(P[i - 1], list[i])
    <3>1. i + 1 \in 1 .. n + 1 /\ i \in 0 .. n /\ i - 1 \in 0 .. n /\ (i - 1) + 1 = i
      BY <1>1
    <3>2. P[i] = Q[i + 1] /\ P[i - 1] = Q[i] /\ long[i + 1] = list[i]
      BY <1>1, <3>1
    <3>3. Q[i + 1] = Heard(Q[(i + 1) - 1], long[i + 1]) /\ (i + 1) - 1 = i
      BY <1>5, <3>1
    <3> HIDE DEF P
    <3> QED BY <3>2, <3>3
  <2> HIDE DEF P
  <2> QED BY <2>1, <2>2, <2>3, HeardBySteps DEF n
<1>7. R[n] = P[n]
  <2> HIDE DEF P
  <2> QED BY <1>3, <1>6, HeardByUnique DEF n
<1>8. P[n] = Q[n + 1]
  BY <1>1
<1> QED BY <1>3, <1>4, <1>7, <1>8 DEF long

\* What two logs say of a session stays alike when they hear the same, and
\* their units stay as far apart.
LEMMA LoggedAlike ==
    ASSUME NEW log \in Logs, NEW other \in Logs, NEW list \in Seq(Event), NEW s \in Sessions,
           NEW k \in Nat, other[s].units = log[s].units + k
    PROVE  /\ Logged(other, list)[s].units = Logged(log, list)[s].units + k
           /\ other[s].state = log[s].state => Logged(other, list)[s].state = Logged(log, list)[s].state
           /\ other[s].stream = log[s].stream =>
                Logged(other, list)[s].stream = Logged(log, list)[s].stream
<1> DEFINE n == Len(list)
<1>0. n \in Nat
  BY LenProperties
<1>1. PICK R : HeardBy(R, log, list) /\ Logged(log, list) = R[n]
  BY LoggedRun
<1>2. PICK Q : HeardBy(Q, other, list) /\ Logged(other, list) = Q[n]
  BY LoggedRun
<1> HIDE DEF n
<1>3. /\ R \in [0 .. n -> Logs] /\ R[0] = log
      /\ \A i \in 1 .. n : R[i] = Heard(R[i - 1], list[i])
  BY <1>1, HeardBySteps DEF n
<1>4. /\ Q \in [0 .. n -> Logs] /\ Q[0] = other
      /\ \A i \in 1 .. n : Q[i] = Heard(Q[i - 1], list[i])
  BY <1>2, HeardBySteps DEF n
<1> DEFINE Alike(i) == /\ Q[i][s].units = R[i][s].units + k
                       /\ other[s].state = log[s].state => Q[i][s].state = R[i][s].state
                       /\ other[s].stream = log[s].stream => Q[i][s].stream = R[i][s].stream
           I == {i \in Nat : i <= n => Alike(i)}
<1>5. 0 \in I
  <2>1. Alike(0)
    BY <1>3, <1>4
  <2> QED BY <2>1
<1>6. ASSUME NEW i \in Nat, i \in I
      PROVE  i + 1 \in I
  <2> SUFFICES ASSUME i + 1 <= n
               PROVE  Alike(i + 1)
    OBVIOUS
  <2>1. i + 1 \in 1 .. n /\ (i + 1) - 1 = i /\ i \in 0 .. n /\ Alike(i)
    BY <1>0, <1>6
  <2> DEFINE e == list[i + 1]
  <2>2. e \in Event
    BY <2>1, ElementOfSeq DEF n
  <2>3. R[i + 1] = Heard(R[i], e) /\ Q[i + 1] = Heard(Q[i], e)
    BY <1>3, <1>4, <2>1
  <2>4. R[i] \in Logs /\ Q[i] \in Logs /\ R[i][s].units \in Nat /\ e.units \in Nat
    <3>1. R[i] \in Logs /\ Q[i] \in Logs
      BY <1>3, <1>4, <2>1
    <3>2. R[i][s] \in Said
      BY <3>1 DEF Logs
    <3> HIDE DEF e
    <3> QED BY <2>2, <3>1, <3>2 DEF Said, Event
  <2> HIDE DEF e
  <2>5. CASE e.on # s
    <3>1. R[i + 1][s] = R[i][s] /\ Q[i + 1][s] = Q[i][s]
      BY <2>2, <2>3, <2>4, <2>5, HeardValues
    <3> QED BY <2>1, <3>1
  <2>6. CASE e.on = s
    <3>1. /\ R[i + 1][s].state = Told(StateTold, e, R[i][s].state)
          /\ R[i + 1][s].stream = Told(StreamTold, e, R[i][s].stream)
          /\ R[i + 1][s].units = R[i][s].units + e.units
      BY <2>2, <2>3, <2>4, <2>6, HeardValues
    <3>2. /\ Q[i + 1][s].state = Told(StateTold, e, Q[i][s].state)
          /\ Q[i + 1][s].stream = Told(StreamTold, e, Q[i][s].stream)
          /\ Q[i + 1][s].units = Q[i][s].units + e.units
      BY <2>2, <2>3, <2>4, <2>6, HeardValues
    <3>3. Q[i + 1][s].units = R[i + 1][s].units + k
      BY <2>1, <2>4, <3>1, <3>2
    <3> QED BY <2>1, <3>1, <3>2, <3>3
  <2> QED BY <2>5, <2>6
<1>7. Nat \subseteq I
  <2> HIDE DEF I
  <2> QED BY <1>5, <1>6, SetInduction
<1>8. Alike(n)
  BY <1>0, <1>7
<1> QED BY <1>1, <1>2, <1>8

-----------------------------------------------------------------------------
(* Lists *)

LEMMA RangeOfLists ==
    ASSUME NEW a, NEW b
    PROVE  /\ Range(<<>>) = {}
           /\ Range(<<a>>) = {a}
           /\ Range(<<a, b>>) = {a, b}
<1>1. DOMAIN <<>> = 1 .. 0 /\ DOMAIN <<a>> = 1 .. 1 /\ DOMAIN <<a, b>> = 1 .. 2
  OBVIOUS
<1>2. 1 .. 0 = {} /\ 1 .. 1 = {1} /\ 1 .. 2 = {1, 2}
  OBVIOUS
<1> QED BY <1>1, <1>2 DEF Range

LEMMA RangeOfTail ==
    ASSUME NEW S, NEW list \in Seq(S), list # <<>>
    PROVE  /\ Head(list) \in Range(list)
           /\ Range(Tail(list)) \subseteq Range(list)
           /\ Range(list) \subseteq Range(Tail(list)) \union {Head(list)}
<1>1. /\ Len(list) \in Nat /\ Len(list) > 0 /\ DOMAIN list = 1 .. Len(list)
      /\ Head(list) = list[1]
  BY LenProperties, EmptySeq
<1>2. /\ Tail(list) \in Seq(S) /\ Len(Tail(list)) = Len(list) - 1
      /\ \A i \in 1 .. Len(Tail(list)) : Tail(list)[i] = list[i + 1]
  BY HeadTailProperties
<1>3. DOMAIN Tail(list) = 1 .. Len(list) - 1
  BY <1>2, LenProperties
<1>4. Head(list) \in Range(list)
  BY <1>1 DEF Range
<1>5. Range(Tail(list)) \subseteq Range(list)
  <2> SUFFICES ASSUME NEW i \in 1 .. Len(list) - 1
               PROVE  Tail(list)[i] \in Range(list)
    BY <1>3 DEF Range
  <2>1. Tail(list)[i] = list[i + 1] /\ i + 1 \in DOMAIN list
    BY <1>1, <1>2
  <2> QED BY <2>1 DEF Range
<1>6. Range(list) \subseteq Range(Tail(list)) \union {Head(list)}
  <2> SUFFICES ASSUME NEW i \in 1 .. Len(list), i # 1
               PROVE  list[i] \in Range(Tail(list))
    BY <1>1 DEF Range
  <2>1. i - 1 \in 1 .. Len(list) - 1 /\ (i - 1) + 1 = i
    BY <1>1
  <2>2. Tail(list)[i - 1] = list[i]
    BY <1>2, <2>1
  <2> QED BY <1>3, <2>1, <2>2 DEF Range
<1> QED BY <1>4, <1>5, <1>6

LEMMA RangeOfAppend ==
    ASSUME NEW S, NEW list \in Seq(S), NEW e \in S
    PROVE  Range(Append(list, e)) = Range(list) \union {e}
<1> DEFINE long == Append(list, e)
<1>1. Len(list) \in Nat /\ DOMAIN list = 1 .. Len(list)
  BY LenProperties
<1>2. /\ long \in Seq(S) /\ Len(long) = Len(list) + 1
      /\ \A i \in 1 .. Len(list) : long[i] = list[i]
      /\ long[Len(list) + 1] = e
  BY AppendProperties
<1> HIDE DEF long
<1>3. DOMAIN long = 1 .. Len(list) + 1
  BY <1>2, LenProperties
<1>4. Range(long) = {list[i] : i \in 1 .. Len(list)} \union {e}
  BY <1>1, <1>2, <1>3 DEF Range
<1> QED BY <1>1, <1>4 DEF Range, long

\* A list of at most one element.
LEMMA ShortList ==
    ASSUME NEW S, NEW list \in Seq(S), Len(list) <= 1, list # <<>>
    PROVE  Head(list) \in S /\ list = <<Head(list)>> /\ Tail(list) = <<>>
<1>1. Len(list) = 1
  <2>1. Len(list) \in Nat \ {0}
    BY EmptySeq
  <2> QED BY <2>1
<1>2. Head(list) \in S /\ Head(list) = list[1] /\ Len(Tail(list)) = 0 /\ Tail(list) \in Seq(S)
  BY <1>1, HeadTailProperties
<1>3. list = <<Head(list)>>
  <2> DEFINE one == <<Head(list)>>
  <2>1. one \in Seq(S) /\ Len(one) = 1 /\ one[1] = Head(list)
    BY <1>2
  <2> HIDE DEF one
  <2>2. \A i \in 1 .. Len(list) : list[i] = one[i]
    BY <1>1, <1>2, <2>1
  <2>3. list = one
    BY <1>1, <2>1, <2>2, SeqEqual
  <2> QED BY <2>3 DEF one
<1>4. Tail(list) = <<>>
  BY <1>2, EmptySeq
<1> QED BY <1>2, <1>3, <1>4

LEMMA HeadAndTail ==
    ASSUME NEW S, NEW list \in Seq(S), list # <<>>
    PROVE  list = <<Head(list)>> \o Tail(list)
<1>1. /\ Head(list) \in S /\ Head(list) = list[1]
      /\ Tail(list) \in Seq(S) /\ Len(Tail(list)) = Len(list) - 1
      /\ \A i \in 1 .. Len(Tail(list)) : Tail(list)[i] = list[i + 1]
  BY HeadTailProperties
<1>2. Len(list) \in Nat /\ Len(list) > 0
  BY EmptySeq
<1> DEFINE one == <<Head(list)>>
<1>3. one \in Seq(S) /\ Len(one) = 1 /\ one[1] = Head(list)
  BY <1>1
<1> HIDE DEF one
<1> DEFINE both == one \o Tail(list)
<1>4. /\ both \in Seq(S) /\ Len(both) = 1 + Len(Tail(list))
      /\ \A i \in 1 .. 1 + Len(Tail(list)) : both[i] = IF i <= 1 THEN one[i] ELSE Tail(list)[i - 1]
  <2>1. /\ both \in Seq(S) /\ Len(both) = Len(one) + Len(Tail(list))
        /\ \A i \in 1 .. Len(one) + Len(Tail(list)) :
             both[i] = IF i <= Len(one) THEN one[i] ELSE Tail(list)[i - Len(one)]
    <3>1. one \in Seq(S) /\ Tail(list) \in Seq(S)
      BY <1>1, <1>3
    <3> QED BY ONLY <3>1, ConcatProperties
  <2> HIDE DEF both
  <2> QED BY <1>3, <2>1
<1> HIDE DEF both
<1>5. ASSUME NEW i \in 1 .. Len(list)
      PROVE  list[i] = both[i]
  <2>1. CASE i = 1
    BY <1>1, <1>2, <1>3, <1>4, <2>1
  <2>2. CASE i # 1
    <3>1. i - 1 \in 1 .. Len(Tail(list)) /\ (i - 1) + 1 = i /\ ~(i <= 1)
          /\ i \in 1 .. 1 + Len(Tail(list))
      BY <1>1, <1>2, <2>2
    <3> QED BY <1>1, <1>4, <3>1
  <2> QED BY <2>1, <2>2
<1>6. Len(both) = Len(list)
  BY <1>1, <1>2, <1>4
<1>7. list = both
  BY <1>4, <1>5, <1>6, SeqEqual
<1> QED BY <1>7 DEF both, one

-----------------------------------------------------------------------------
(* The log, as the events on their way reach the topic *)

LogsTyped == topic \in Logs /\ queue \in Seq(Event) /\ inHand \in Seq(Event) /\ Len(inHand) <= 1

LEMMA LogIsLogged == Log = Logged(topic, inHand \o queue)
  BY DEF Log, Logged

LEMMA LogType ==
    ASSUME LogsTyped
    PROVE  Log \in Logs
<1>1. inHand \o queue \in Seq(Event)
  BY ConcatProperties DEF LogsTyped
<1> QED BY <1>1, LogIsLogged, LoggedType DEF LogsTyped

LEMMA LogUnchanged ==
    ASSUME UNCHANGED <<topic, queue, inHand>>
    PROVE  Log' = Log
  BY DEF Log

LEMMA LogAppends ==
    ASSUME LogsTyped, NEW e \in Event, queue' = Append(queue, e), UNCHANGED <<topic, inHand>>
    PROVE  Log' = Heard(Log, e)
<1> DEFINE list == inHand \o queue
<1>1. list \in Seq(Event)
  BY ConcatProperties DEF LogsTyped
<1>2. inHand \o Append(queue, e) = Append(list, e)
  <2>1. <<e>> \in Seq(Event) /\ inHand \in Seq(Event) /\ queue \in Seq(Event)
    BY DEF LogsTyped
  <2>2. Append(queue, e) = queue \o <<e>>
    BY <2>1, AppendIsConcat
  <2>3. (inHand \o queue) \o <<e>> = inHand \o (queue \o <<e>>)
    BY ONLY <2>1, ConcatAssociative
  <2>4. Append(list, e) = list \o <<e>>
    <3> HIDE DEF list
    <3> QED BY <1>1, AppendIsConcat
  <2> QED BY <2>2, <2>3, <2>4
<1>3. Log = Logged(topic, list)
  BY LogIsLogged
<1>4. Log' = Logged(topic, inHand \o Append(queue, e))
  BY DEF Log, Logged
<1>5. Logged(topic, Append(list, e)) = Heard(Logged(topic, list), e)
  <2> HIDE DEF list
  <2> QED BY <1>1, LoggedAppend DEF LogsTyped
<1> QED BY <1>2, <1>3, <1>4, <1>5

LEMMA LogTakes ==
    ASSUME LogsTyped, SubmitTakes
    PROVE  Log' = Log
<1>1. inHand = <<>> /\ queue # <<>> /\ queue \in Seq(Event)
      /\ inHand' = <<Head(queue)>> /\ queue' = Tail(queue) /\ topic' = topic
  BY DEF LogsTyped, SubmitTakes
<1>2. inHand' \o queue' = queue
  BY <1>1, HeadAndTail
<1>3. inHand \o queue = queue
  BY <1>1, ConcatEmptySeq
<1>4. Log' = FoldLeft(Heard, topic', inHand' \o queue')
  BY DEF Log
<1> QED BY <1>1, <1>2, <1>3, <1>4 DEF Log

\* The event in hand is the first that a reader of the topic is to hear.
LEMMA LogInHand ==
    ASSUME LogsTyped, inHand # <<>>
    PROVE  /\ Head(inHand) \in Event
           /\ Log = Logged(Heard(topic, Head(inHand)), queue)
<1>1. inHand \in Seq(Event) /\ Len(inHand) <= 1
  BY DEF LogsTyped
<1>2. Head(inHand) \in Event /\ inHand = <<Head(inHand)>>
  BY <1>1, ShortList
<1>3. Logged(topic, <<Head(inHand)>> \o queue) = Logged(Heard(topic, Head(inHand)), queue)
  BY <1>2, LoggedFirst DEF LogsTyped
<1> QED BY <1>2, <1>3, LogIsLogged

LEMMA LogLands ==
    ASSUME LogsTyped, SubmitLands
    PROVE  Log' = Log /\ topic' \in Logs
<1>1. inHand # <<>> /\ topic' = Heard(topic, Head(inHand)) /\ inHand' = <<>> /\ queue' = queue
  BY DEF SubmitLands
<1>2. Head(inHand) \in Event /\ Log = Logged(Heard(topic, Head(inHand)), queue)
  BY <1>1, LogInHand
<1>3. inHand' \o queue' = queue
  BY <1>1, ConcatEmptySeq DEF LogsTyped
<1>4. Log' = FoldLeft(Heard, topic', inHand' \o queue')
  BY DEF Log
<1>5. Heard(topic, Head(inHand)) \in Logs
  BY <1>2, HeardType DEF LogsTyped
<1> QED BY <1>1, <1>2, <1>3, <1>4, <1>5 DEF Logged

\* An event that is lost: what it said goes unsaid, of its session only.
LEMMA LogFails ==
    ASSUME LogsTyped, SubmitFails, NEW s \in Sessions
    PROVE  /\ Head(inHand) \in Event
           /\ Head(inHand).on # s => Log'[s] = Log[s]
           /\ Head(inHand).on = s => Log[s].units = Log'[s].units + Head(inHand).units
<1> DEFINE e == Head(inHand)
<1>1. inHand # <<>> /\ inHand' = <<>> /\ queue' = queue /\ topic' = topic
  BY DEF SubmitFails
<1>2. e \in Event /\ Log = Logged(Heard(topic, e), queue)
  BY <1>1, LogInHand
<1>3. inHand' \o queue' = queue
  BY <1>1, ConcatEmptySeq DEF LogsTyped
<1>4. Log' = Logged(topic, queue)
  <2>1. Log' = FoldLeft(Heard, topic', inHand' \o queue')
    BY DEF Log
  <2> QED BY <1>1, <1>3, <2>1 DEF Logged
<1> HIDE DEF e
<1>5. /\ topic \in Logs /\ queue \in Seq(Event) /\ topic[s].units \in Nat /\ e.units \in Nat
      /\ Heard(topic, e) \in Logs
  BY <1>2, HeardType DEF LogsTyped, Logs, Said, Event
<1>6. Log \in Logs /\ Logged(topic, queue) \in Logs
  BY <1>2, <1>5, LoggedType
<1>7. CASE e.on = s
  <2>1. Heard(topic, e)[s].units = topic[s].units + e.units
    BY <1>2, <1>5, <1>7, HeardValues
  <2>2. Logged(Heard(topic, e), queue)[s].units = Logged(topic, queue)[s].units + e.units
    BY <1>5, <2>1, LoggedAlike
  <2> QED BY <1>2, <1>4, <1>7, <2>2 DEF e
<1>8. CASE e.on # s
  <2>1. Heard(topic, e)[s] = topic[s]
    BY <1>2, <1>5, <1>8, HeardValues
  <2>2. Heard(topic, e)[s].units = topic[s].units + 0
    BY <1>5, <2>1
  <2>3. /\ Log[s].units = Log'[s].units + 0
        /\ Log[s].state = Log'[s].state /\ Log[s].stream = Log'[s].stream
    <3> DEFINE other == Heard(topic, e)
    <3>1. 0 \in Nat /\ other[s].units = topic[s].units + 0 /\ other \in Logs /\ other[s] = topic[s]
      BY <1>5, <2>1, <2>2
    <3> HIDE DEF other
    <3>2. /\ Logged(other, queue)[s].units = Logged(topic, queue)[s].units + 0
          /\ other[s].state = topic[s].state =>
               Logged(other, queue)[s].state = Logged(topic, queue)[s].state
          /\ other[s].stream = topic[s].stream =>
               Logged(other, queue)[s].stream = Logged(topic, queue)[s].stream
      BY <1>5, <3>1, LoggedAlike
    <3> QED BY <1>2, <1>4, <3>1, <3>2 DEF other
  <2>4. Log[s] \in Said /\ Log'[s] \in Said
    BY <1>4, <1>6 DEF Logs
  <2>5. Log[s] = Log'[s]
    BY <2>3, <2>4 DEF Said
  <2> QED BY <1>2, <1>8, <2>5 DEF e
<1> QED BY <1>7, <1>8 DEF e

-----------------------------------------------------------------------------
(* Types, and where everything is that is yet to be told *)

Items(w) == Range(script[w])

\* Requests tell of no units, and the billing pass tells the audit log only.
ItemOK(w, x) ==
    /\ x.on \in sessions \union {NoSession}
    /\ x.to = "feed" => x.kind \in Kinds
    /\ w # Ticker => x.units = 0
    /\ w = Ticker => x.to = "audit"

Lines ==
    /\ script \in [Writers -> Seq(Item)]
    /\ \A w \in Writers : \A x \in Items(w) : ItemOK(w, x)
    /\ Len(script[Ticker]) <= 1

Stops == \A r \in Requests :
    stopping[r] # NoStop => script[r] = <<>> /\ stopping[r].on \in sessions

Sent == \A e \in Range(queue) \union Range(inHand) : e.on \in sessions \union {NoSession}

Fresh == \A s \in Sessions \ sessions : state[s] = "created" /\ ~stream[s]

AuditInv == AuditTypeOK /\ Lines /\ Stops /\ Sent /\ Fresh

LEMMA TellsLines ==
    ASSUME AuditInv, NEW w \in Writers, NEW items \in Seq(Item), Tells(w, items),
           sessions \subseteq sessions',
           \A x \in Range(items) : ItemOK(w, x)',
           w = Ticker => Len(items) <= 1
    PROVE  Lines'
<1>1. script' = [script EXCEPT ![w] = items] /\ script \in [Writers -> Seq(Item)]
  BY DEF Tells, AuditInv, Lines
<1>2. script' \in [Writers -> Seq(Item)]
  BY <1>1
<1>3. ASSUME NEW v \in Writers, NEW x \in Range(script'[v])
      PROVE  ItemOK(v, x)'
  <2>1. CASE v = w
    <3>1. script'[v] = items
      BY <1>1, <2>1
    <3>2. x \in Range(items)
      BY <1>3, <3>1
    <3> QED BY <2>1, <3>2
  <2>2. CASE v # w
    <3>1. script'[v] = script[v]
      BY <1>1, <2>2
    <3>2. ItemOK(v, x)
      BY <1>3, <3>1 DEF AuditInv, Lines, Items
    <3> QED BY <3>2 DEF ItemOK
  <2> QED BY <2>1, <2>2
<1>4. Len(script'[Ticker]) <= 1
  BY <1>1 DEF AuditInv, Lines, Writers
<1> QED BY <1>2, <1>3, <1>4 DEF Lines, Items

LEMMA LinesKept ==
    ASSUME AuditInv, UNCHANGED script, sessions \subseteq sessions'
    PROVE  Lines'
BY DEF AuditInv, Lines, Items, ItemOK

LEMMA ItemsTyped ==
    ASSUME NEW s \in Sessions \union {NoSession}, NEW kind \in AuditKinds, NEW n \in Nat
    PROVE  Feed(kind, s) \in Item /\ Audit(kind, s, n) \in Item
  BY DEF Feed, Audit, Item

LEMMA KindsApart ==
    /\ {"pipeline_created", "pipeline_started", "pipeline_paused", "pipeline_resumed",
        "pipeline_stopped", "pipeline_reconfigured", "payment_stream_started",
        "payment_stream_stalled", "agent_top_up"} = Kinds \intersect AuditKinds
    /\ {"payment_stream_terminated", "billing_summary",
        "start_rejected_insufficient_prepaid"} \subseteq AuditKinds
  BY DEF Kinds, AuditKinds

\* A request tells the feed and then the audit log.
LEMMA TellsOfChange ==
    ASSUME AuditInv, NEW r \in Requests, NEW s \in Sessions, s \in sessions',
           sessions \subseteq sessions', NEW kind \in Kinds \intersect AuditKinds,
           Tells(r, <<Feed(kind, s), Audit(kind, s, 0)>>)
    PROVE  Lines'
<1> DEFINE items == <<Feed(kind, s), Audit(kind, s, 0)>>
<1>1. items \in Seq(Item)
  BY ItemsTyped
<1>2. Range(items) = {Feed(kind, s), Audit(kind, s, 0)}
  BY RangeOfLists
<1>3. r # Ticker /\ r \in Writers
  BY AuditTrailAssumption DEF AuditTrailAssumption, Writers
<1>4. ItemOK(r, Feed(kind, s))' /\ ItemOK(r, Audit(kind, s, 0))'
  BY <1>3 DEF ItemOK, Feed, Audit
<1> HIDE DEF items
<1> QED BY <1>1, <1>2, <1>3, <1>4, TellsLines DEF items

LEMMA MovesType == AuditInv /\ (Moves \/ UNCHANGED moves) => moves' \in 0 .. MaxMoves
<1>1. MaxMoves \in Nat
  BY EventInboxAssumption DEF EventInboxAssumption
<1> QED BY <1>1 DEF Moves, AuditInv, AuditTypeOK, PlatformTypeOK

LEMMA CreateType ==
    ASSUME AuditInv, NEW r \in Requests, NEW s \in Sessions, Create(r, s)
    PROVE  AuditInv'
<1> USE DEF Create
<1>1. Lines'
  BY KindsApart, TellsOfChange
<1>2. moves' \in 0 .. MaxMoves
  BY MovesType
<1>3. AuditTypeOK'
  BY <1>1, <1>2 DEF AuditInv, AuditTypeOK, PlatformTypeOK, Lines, logVars, passVars, historyVars
<1>4. Stops'
  BY DEF AuditInv, Stops, Tells, IdleRequest, Lines, Writers
<1>5. Sent'
  BY DEF AuditInv, Sent, logVars
<1>6. Fresh'
  BY DEF AuditInv, Fresh
<1> QED BY <1>1, <1>3, <1>4, <1>5, <1>6 DEF AuditInv

LEMMA TransitionType ==
    ASSUME AuditInv, NEW r \in Requests, NEW s \in Sessions, NEW from, NEW st \in States,
           NEW active \in BOOLEAN, NEW kind \in Kinds \intersect AuditKinds,
           Transition(r, s, from, st, active, kind)
    PROVE  AuditInv'
<1> USE DEF Transition
<1>1. Lines'
  BY TellsOfChange
<1>2. moves' \in 0 .. MaxMoves
  BY MovesType
<1>3. blurred' \subseteq sessions /\ unfed' \subseteq sessions
  BY DEF Clears, AuditInv, AuditTypeOK
<1>4. state' \in [Sessions -> States] /\ stream' \in [Sessions -> BOOLEAN]
  BY DEF Becomes, AuditInv, AuditTypeOK
<1>5. AuditTypeOK'
  BY <1>1, <1>2, <1>3, <1>4 DEF AuditInv, AuditTypeOK, PlatformTypeOK, Lines, logVars, passVars
<1>6. Stops'
  BY DEF AuditInv, Stops, Tells, IdleRequest, Lines, Writers
<1>7. Sent'
  BY DEF AuditInv, Sent, logVars
<1>8. Fresh'
  BY DEF AuditInv, AuditTypeOK, Fresh, Becomes
<1> QED BY <1>1, <1>5, <1>6, <1>7, <1>8 DEF AuditInv

\* A request that tells of something that leaves the session as it is.
LEMMA RemarkType ==
    ASSUME AuditInv, NEW r \in Requests,
           (\E s \in Sessions : Reject(r, s) \/ Reconfigure(r, s)) \/ TopUp(r)
    PROVE  AuditInv'
<1>0. IdleRequest(r) /\ Moves
      /\ UNCHANGED <<sessionVars, feed, stopping, passVars, logVars, historyVars, failures>>
  BY DEF Reject, Reconfigure, TopUp
<1>1. Lines'
  <2>1. r # Ticker /\ r \in Writers
    BY AuditTrailAssumption DEF AuditTrailAssumption, Writers
  <2>2. ASSUME NEW s \in Sessions, Reject(r, s)
        PROVE  Lines'
    <3> DEFINE kind == "start_rejected_insufficient_prepaid"
               items == <<Audit(kind, s, 0)>>
    <3>1. items \in Seq(Item)
      BY KindsApart, ItemsTyped
    <3>2. Range(items) = {Audit(kind, s, 0)}
      BY RangeOfLists
    <3>3. ItemOK(r, Audit(kind, s, 0))'
      BY <1>0, <2>1, <2>2 DEF ItemOK, Audit, Reject, sessionVars
    <3>4. Tells(r, items)
      BY <2>2 DEF Reject
    <3> HIDE DEF items
    <3> QED BY <1>0, <2>1, <3>1, <3>2, <3>3, <3>4, TellsLines DEF sessionVars
  <2>3. ASSUME NEW s \in Sessions, Reconfigure(r, s)
        PROVE  Lines'
    BY <1>0, <2>3, KindsApart, TellsOfChange DEF Reconfigure, sessionVars
  <2>4. CASE TopUp(r)
    <3> DEFINE kind == "agent_top_up"
               items == <<Audit(kind, NoSession, 0), Feed(kind, NoSession)>>
    <3>0. kind \in Kinds /\ kind \in AuditKinds
      BY KindsApart
    <3>1. items \in Seq(Item)
      <4>1. Audit(kind, NoSession, 0) \in Item /\ Feed(kind, NoSession) \in Item
        BY <3>0, ItemsTyped
      <4> QED BY <4>1
    <3>2. Range(items) = {Audit(kind, NoSession, 0), Feed(kind, NoSession)}
      BY RangeOfLists
    <3> HIDE DEF kind
    <3>3. ItemOK(r, Audit(kind, NoSession, 0))' /\ ItemOK(r, Feed(kind, NoSession))'
      BY <2>1, <3>0 DEF ItemOK, Audit, Feed
    <3>4. Tells(r, items)
      BY <2>4 DEF TopUp, kind
    <3> HIDE DEF items
    <3> QED BY <1>0, <2>1, <3>1, <3>2, <3>3, <3>4, TellsLines DEF sessionVars
  <2> QED BY <2>2, <2>3, <2>4
<1>2. moves' \in 0 .. MaxMoves
  BY <1>0, MovesType
<1>3. AuditTypeOK'
  BY <1>0, <1>1, <1>2 DEF AuditInv, AuditTypeOK, PlatformTypeOK, Lines, sessionVars, logVars,
                          passVars, historyVars
<1>4. Stops'
  <2>1. Tells(r, script'[r])
    BY DEF Reject, Reconfigure, TopUp, Tells, AuditInv, Lines, Writers
  <2> QED BY <1>0, <2>1 DEF AuditInv, Stops, Tells, IdleRequest, Lines, Writers, sessionVars
<1>5. Sent' /\ Fresh'
  BY <1>0 DEF AuditInv, Sent, Fresh, logVars, sessionVars
<1> QED BY <1>1, <1>3, <1>4, <1>5 DEF AuditInv

LEMMA StopReadsType ==
    ASSUME AuditInv, NEW r \in Requests, NEW s \in Sessions, StopReads(r, s)
    PROVE  AuditInv'
<1> USE DEF StopReads
<1>1. Lines'
  BY LinesKept DEF sessionVars
<1>2. moves' \in 0 .. MaxMoves
  BY MovesType
<1>3. stopping' \in [Requests -> [on: Sessions, streamWasActive: BOOLEAN] \union {NoStop}]
  BY DEF AuditInv, AuditTypeOK
<1>4. blurred' \subseteq sessions
  BY DEF Blurs, AuditInv, AuditTypeOK
<1>5. AuditTypeOK'
  BY <1>1, <1>2, <1>3, <1>4 DEF AuditInv, AuditTypeOK, PlatformTypeOK, Lines, sessionVars,
                                logVars, passVars
<1>6. Stops'
  BY DEF AuditInv, AuditTypeOK, Stops, IdleRequest, sessionVars
<1>7. Sent' /\ Fresh'
  BY DEF AuditInv, Sent, Fresh, logVars, sessionVars
<1> QED BY <1>1, <1>5, <1>6, <1>7 DEF AuditInv

LEMMA OneAndTwo ==
    ASSUME NEW S, NEW a \in S, NEW b \in S, NEW c \in S
    PROVE  /\ <<a>> \o <<b, c>> \in Seq(S) /\ <<>> \o <<b, c>> \in Seq(S)
           /\ Range(<<a>> \o <<b, c>>) = {a, b, c}
           /\ Range(<<>> \o <<b, c>>) = {b, c}
<1>1. <<a>> \in Seq(S) /\ <<b, c>> \in Seq(S) /\ <<a, b, c>> \in Seq(S)
  OBVIOUS
<1>2. <<>> \o <<b, c>> = <<b, c>>
  BY <1>1, ConcatEmptySeq
<1>3. <<a>> \o <<b, c>> = <<a, b, c>>
  <2> DEFINE one == <<a>>
             two == <<b, c>>
             three == <<a, b, c>>
  <2>1. /\ Len(one) = 1 /\ one[1] = a
        /\ Len(two) = 2 /\ two[1] = b /\ two[2] = c
        /\ Len(three) = 3 /\ three[1] = a /\ three[2] = b /\ three[3] = c
    OBVIOUS
  <2>2. one \in Seq(S) /\ two \in Seq(S) /\ three \in Seq(S)
    BY <1>1
  <2> HIDE DEF one, two, three
  <2>3. /\ one \o two \in Seq(S)
        /\ Len(one \o two) = Len(one) + Len(two)
        /\ \A i \in 1 .. Len(one) + Len(two) :
             (one \o two)[i] = IF i <= Len(one) THEN one[i] ELSE two[i - Len(one)]
    BY <2>2, ConcatProperties
  <2>4. Len(one \o two) = 3 /\ (one \o two)[1] = a /\ (one \o two)[2] = b /\ (one \o two)[3] = c
    BY <2>1, <2>3
  <2>5. \A i \in 1 .. 3 : (one \o two)[i] = three[i]
    <3>1. 1 .. 3 = {1, 2, 3}
      OBVIOUS
    <3> QED BY <2>1, <2>4, <3>1
  <2>6. one \o two = three
    BY <2>1, <2>2, <2>3, <2>4, <2>5, SeqEqual
  <2> QED BY <2>6 DEF one, two, three
<1>4. Range(<<b, c>>) = {b, c} /\ Range(<<a, b, c>>) = {a, b, c}
  <2>1. Range(<<b, c>>) = {b, c}
    BY RangeOfLists, Zenon
  <2>2. Range(<<a, b, c>>) = {a, b, c}
    <3>1. DOMAIN <<a, b, c>> = 1 .. 3 /\ 1 .. 3 = {1, 2, 3}
      OBVIOUS
    <3> QED BY <3>1 DEF Range
  <2> QED BY <2>1, <2>2
<1> QED BY <1>1, <1>2, <1>3, <1>4

\* What a stop tells.
LEMMA StopTells ==
    ASSUME NEW s \in Sessions, NEW active \in BOOLEAN
    PROVE  /\ StopSays(s, active) \in Seq(Item)
           /\ Range(StopSays(s, active)) =
                {Feed("pipeline_stopped", s), Audit("pipeline_stopped", s, 0)} \union
                (IF active THEN {Audit("payment_stream_terminated", s, 0)} ELSE {})
<1> DEFINE a == Audit("payment_stream_terminated", s, 0)
           b == Feed("pipeline_stopped", s)
           c == Audit("pipeline_stopped", s, 0)
<1>1. a \in Item /\ b \in Item /\ c \in Item
  BY KindsApart, ItemsTyped
<1>2. StopSays(s, active) = IF active THEN <<a>> \o <<b, c>> ELSE <<>> \o <<b, c>>
  BY DEF StopSays
<1> HIDE DEF a, b, c
<1>3. /\ <<a>> \o <<b, c>> \in Seq(Item) /\ <<>> \o <<b, c>> \in Seq(Item)
      /\ Range(<<a>> \o <<b, c>>) = {a, b, c}
      /\ Range(<<>> \o <<b, c>>) = {b, c}
  BY ONLY <1>1, OneAndTwo
<1>4. StopSays(s, active) \in Seq(Item)
  BY <1>2, <1>3
<1>5. Range(StopSays(s, active)) = {b, c} \union (IF active THEN {a} ELSE {})
  BY <1>2, <1>3
<1> QED BY <1>4, <1>5 DEF a, b, c

LEMMA StopCommitsType ==
    ASSUME AuditInv, NEW r \in Requests, StopCommits(r)
    PROVE  AuditInv'
<1> DEFINE s == stopping[r].on
           items == StopSays(s, stopping[r].streamWasActive)
<1> USE DEF StopCommits
<1>1. stopping[r] \in [on: Sessions, streamWasActive: BOOLEAN] /\ s \in sessions /\ s \in Sessions
  BY DEF AuditInv, AuditTypeOK, PlatformTypeOK, Stops
<1>2. items \in Seq(Item) /\ \A x \in Range(items) : ItemOK(r, x)'
  <2>1. r # Ticker /\ "pipeline_stopped" \in Kinds
    BY KindsApart, AuditTrailAssumption DEF AuditTrailAssumption
  <2> QED BY <1>1, <2>1, StopTells DEF ItemOK, Feed, Audit
<1>3. Becomes(s, "stopped", FALSE) /\ Tells(r, items)
  OBVIOUS
<1> HIDE DEF s, items
<1>4. Lines'
  <2>1. r # Ticker /\ r \in Writers
    BY AuditTrailAssumption DEF AuditTrailAssumption, Writers
  <2> QED BY <1>2, <1>3, <2>1, TellsLines
<1>5. state' \in [Sessions -> States] /\ stream' \in [Sessions -> BOOLEAN]
  BY <1>3 DEF Becomes, AuditInv, AuditTypeOK, States
<1>6. stopping' \in [Requests -> [on: Sessions, streamWasActive: BOOLEAN] \union {NoStop}]
  BY DEF AuditInv, AuditTypeOK
<1>7. AuditTypeOK'
  BY <1>4, <1>5, <1>6 DEF AuditInv, AuditTypeOK, PlatformTypeOK, Lines, logVars, passVars, historyVars
<1>8. Stops'
  BY <1>3 DEF AuditInv, AuditTypeOK, Stops, Tells, Lines, Writers
<1>9. Sent' /\ Fresh'
  BY <1>1, <1>3 DEF AuditInv, AuditTypeOK, Sent, Fresh, Becomes, logVars
<1> QED BY <1>4, <1>7, <1>8, <1>9 DEF AuditInv

LEMMA StopFailsType ==
    ASSUME AuditInv, NEW r \in Requests, StopFails(r)
    PROVE  AuditInv'
<1> USE DEF StopFails
<1>1. Lines'
  BY LinesKept DEF sessionVars
<1>2. stopping' \in [Requests -> [on: Sessions, streamWasActive: BOOLEAN] \union {NoStop}]
  BY DEF AuditInv, AuditTypeOK
<1>3. AuditTypeOK'
  BY <1>1, <1>2 DEF AuditInv, AuditTypeOK, PlatformTypeOK, Lines, sessionVars, logVars, passVars,
                    historyVars
<1>4. Stops' /\ Sent' /\ Fresh'
  BY DEF AuditInv, AuditTypeOK, Stops, Sent, Fresh, logVars, sessionVars
<1> QED BY <1>1, <1>3, <1>4 DEF AuditInv

LEMMA SetStreamType ==
    ASSUME AuditInv, NEW r \in Requests, NEW s \in Sessions, NEW active \in BOOLEAN,
           SetStream(r, s, active)
    PROVE  AuditInv'
<1> DEFINE kind == IF active THEN "payment_stream_started" ELSE "payment_stream_stalled"
<1> USE DEF SetStream
<1>1. kind \in Kinds \intersect AuditKinds /\ Tells(r, <<Feed(kind, s), Audit(kind, s, 0)>>)
  BY KindsApart
<1> HIDE DEF kind
<1>2. Lines'
  BY <1>1, TellsOfChange
<1>3. moves' \in 0 .. MaxMoves
  BY MovesType
<1>4. state' \in [Sessions -> States] /\ stream' \in [Sessions -> BOOLEAN]
  BY DEF Becomes, AuditInv, AuditTypeOK, States
<1>5. blurred' \subseteq sessions
  BY DEF Blurs, AuditInv, AuditTypeOK
<1>6. AuditTypeOK'
  BY <1>2, <1>3, <1>4, <1>5 DEF AuditInv, AuditTypeOK, PlatformTypeOK, Lines, logVars, passVars
<1>7. Stops'
  BY <1>1 DEF AuditInv, Stops, Tells, IdleRequest, Lines, Writers
<1>8. Sent' /\ Fresh'
  BY DEF AuditInv, AuditTypeOK, Sent, Fresh, Becomes, logVars
<1> QED BY <1>2, <1>6, <1>7, <1>8 DEF AuditInv

\* The billing pass tells the audit log.
LEMMA TickerTells ==
    ASSUME AuditInv, NEW s \in sessions, UNCHANGED sessions, NEW kind \in AuditKinds, NEW n \in Nat,
           Tells(Ticker, <<Audit(kind, s, n)>>)
    PROVE  Lines'
<1> DEFINE items == <<Audit(kind, s, n)>>
<1>1. s \in Sessions
  BY DEF AuditInv, AuditTypeOK, PlatformTypeOK
<1>2. items \in Seq(Item) /\ Len(items) <= 1
  BY <1>1, ItemsTyped
<1>3. Range(items) = {Audit(kind, s, n)}
  BY RangeOfLists
<1>4. ItemOK(Ticker, Audit(kind, s, n))'
  BY DEF ItemOK, Audit
<1> HIDE DEF items
<1> QED BY <1>2, <1>3, <1>4, TellsLines DEF items, Writers

LEMMA RecordType ==
    ASSUME feed \in Seq(Entry), NEW kind \in Kinds, NEW s \in Sessions \union {NoSession},
           Record(kind, s)
    PROVE  feed' \in Seq(Entry) /\ Len(feed') <= MaxEntries
<1> DEFINE long == Append(feed, [kind |-> kind, on |-> s])
<1>1. MaxEntries \in Nat
  BY EventInboxAssumption DEF EventInboxAssumption
<1>2. [kind |-> kind, on |-> s] \in Entry
  BY DEF Entry
<1>3. long \in Seq(Entry) /\ Len(long) \in Nat
  BY <1>2, AppendProperties, LenProperties
<1>4. feed' = Recent(long, MaxEntries)
  BY DEF Record
<1> HIDE DEF long
<1> QED BY <1>1, <1>3, <1>4, RecentProperties

LEMMA PassTakesType ==
    ASSUME AuditInv, PassBegins \/ \E s \in Sessions : PassSkips(s)
    PROVE  AuditInv'
<1>1. /\ UNCHANGED <<sessionVars, feed, stopping, script, pauseIDs, logVars, historyVars, moves,
                     failures>>
      /\ todo' \subseteq sessions
  BY DEF PassBegins, PassSkips, Visits, AuditInv, AuditTypeOK
<1>2. Lines'
  BY <1>1, LinesKept DEF sessionVars
<1>3. AuditTypeOK'
  BY <1>1, <1>2 DEF AuditInv, AuditTypeOK, PlatformTypeOK, Lines, sessionVars, logVars, historyVars
<1>4. Stops' /\ Sent' /\ Fresh'
  BY <1>1 DEF AuditInv, AuditTypeOK, Stops, Sent, Fresh, logVars, sessionVars
<1> QED BY <1>2, <1>3, <1>4 DEF AuditInv

LEMMA PassChargesType ==
    ASSUME AuditInv, NEW s \in Sessions, PassCharges(s)
    PROVE  AuditInv'
<1> USE DEF PassCharges
<1>1. s \in sessions /\ unreported[s] \in Nat /\ charged[s] \in Nat /\ todo' \subseteq sessions
  BY DEF Visits, AuditInv, AuditTypeOK
<1>2. Lines'
  <2>1. CASE UNCHANGED script
    BY <2>1, LinesKept
  <2>2. CASE Tells(Ticker, <<Audit("billing_summary", s, SummaryUnits(s))>>)
    <3>1. SummaryUnits(s) \in Nat /\ "billing_summary" \in AuditKinds
      BY <1>1, KindsApart DEF SummaryUnits
    <3> QED BY <1>1, <2>2, <3>1, TickerTells
  <2> QED BY <2>1, <2>2
<1>3. moves' \in 0 .. MaxMoves
  BY MovesType
<1>4. charged' \in [Sessions -> Nat] /\ unreported' \in [Sessions -> Nat]
  BY <1>1 DEF AuditInv, AuditTypeOK
<1>5. AuditTypeOK'
  BY <1>1, <1>2, <1>3, <1>4 DEF AuditInv, AuditTypeOK, PlatformTypeOK, Lines, logVars, historyVars
<1>6. Stops'
  <2>1. \E items : script' = script \/ script' = [script EXCEPT ![Ticker] = items]
    BY DEF Tells
  <2>2. \A r \in Requests : script'[r] = script[r]
    BY <2>1, AuditTrailAssumption DEF AuditTrailAssumption, Writers, AuditInv, Lines
  <2> QED BY <2>2 DEF AuditInv, Stops
<1>7. Sent' /\ Fresh'
  BY DEF AuditInv, Sent, Fresh, logVars
<1> QED BY <1>2, <1>5, <1>6, <1>7 DEF AuditInv

LEMMA PassPausesType ==
    ASSUME AuditInv, NEW s \in Sessions, PassPauses(s)
    PROVE  AuditInv'
<1> USE DEF PassPauses
<1>1. s \in sessions /\ todo' \subseteq sessions /\ pauseIDs' \subseteq sessions
      /\ blurred' \subseteq sessions
  BY DEF Visits, Blurs, AuditInv, AuditTypeOK
<1>2. Lines'
  BY <1>1, KindsApart, TickerTells
<1>3. moves' \in 0 .. MaxMoves
  BY MovesType
<1>4. state' \in [Sessions -> States] /\ stream' \in [Sessions -> BOOLEAN]
  BY DEF Becomes, AuditInv, AuditTypeOK, States
<1>5. AuditTypeOK'
  BY <1>1, <1>2, <1>3, <1>4 DEF AuditInv, AuditTypeOK, PlatformTypeOK, Lines, logVars
<1>6. Stops'
  <2>1. \A r \in Requests : script'[r] = script[r]
    BY AuditTrailAssumption DEF AuditTrailAssumption, Tells, AuditInv, Lines
  <2> QED BY <2>1 DEF AuditInv, Stops
<1>7. Sent' /\ Fresh'
  BY <1>1 DEF AuditInv, AuditTypeOK, Sent, Fresh, Becomes, logVars
<1> QED BY <1>2, <1>5, <1>6, <1>7 DEF AuditInv

LEMMA PassPausedEgressType ==
    ASSUME AuditInv, NEW s \in Sessions, PassPausedEgress(s) \/ PassPauseEgressFails(s)
    PROVE  AuditInv'
<1>1. /\ UNCHANGED <<sessionVars, stopping, script, todo, logVars, blurred, moves>>
      /\ pauseIDs' \subseteq sessions /\ unfed' \subseteq sessions
      /\ failures' \in 0 .. MaxFailures
  <2>1. MaxFailures \in Nat
    BY AuditTrailAssumption DEF AuditTrailAssumption
  <2> QED BY <2>1 DEF PassPausedEgress, PassPauseEgressFails, AuditInv, AuditTypeOK, historyVars
<1>2. Lines'
  BY <1>1, LinesKept DEF sessionVars
<1>3. feed' \in Seq(Entry) /\ Len(feed') <= MaxEntries
  <2>1. CASE PassPausedEgress(s)
    <3>1. "pipeline_paused" \in Kinds /\ s \in Sessions \union {NoSession}
      BY DEF Kinds
    <3>2. Record("pipeline_paused", s) /\ feed \in Seq(Entry)
      BY <2>1 DEF PassPausedEgress, PauseFed, AuditInv, AuditTypeOK, PlatformTypeOK
    <3> QED BY <3>1, <3>2, RecordType
  <2>2. CASE PassPauseEgressFails(s)
    BY <2>2 DEF PassPauseEgressFails, AuditInv, AuditTypeOK, PlatformTypeOK
  <2> QED BY <2>1, <2>2
<1>4. AuditTypeOK'
  BY <1>1, <1>2, <1>3 DEF AuditInv, AuditTypeOK, PlatformTypeOK, Lines, sessionVars, logVars
<1>5. Stops' /\ Sent' /\ Fresh'
  BY <1>1 DEF AuditInv, AuditTypeOK, Stops, Sent, Fresh, logVars, sessionVars
<1> QED BY <1>2, <1>4, <1>5 DEF AuditInv

LEMMA LosesType ==
    ASSUME AuditInv, NEW e \in Event, e.on \in sessions \union {NoSession}, Loses(e)
    PROVE  gaps' \subseteq sessions /\ lostUnits' \in [Sessions -> Nat]
<1>1. gaps' \subseteq sessions
  BY DEF Loses, AuditInv, AuditTypeOK
<1>2. lostUnits' \in [Sessions -> Nat]
  BY DEF Loses, AuditInv, AuditTypeOK, PlatformTypeOK, Event
<1> QED BY <1>1, <1>2

\* The next thing that a goroutine has to tell.
LEMMA NextItem ==
    ASSUME AuditInv, NEW w \in Writers, script[w] # <<>>
    PROVE  LET item == Head(script[w]) IN
           /\ item \in Items(w) /\ item \in Item /\ ItemOK(w, item)
           /\ item.on \in sessions \union {NoSession} /\ item.on \in Sessions \union {NoSession}
           /\ EventOf(item) \in Event
           /\ Tail(script[w]) \in Seq(Item)
           /\ Range(Tail(script[w])) \subseteq Items(w)
           /\ Items(w) \subseteq Range(Tail(script[w])) \union {item}
<1> DEFINE item == Head(script[w])
<1>1. script[w] \in Seq(Item)
  BY DEF AuditInv, Lines
<1>2. /\ item \in Items(w) /\ Range(Tail(script[w])) \subseteq Items(w)
      /\ Items(w) \subseteq Range(Tail(script[w])) \union {item}
  BY <1>1, RangeOfTail DEF Items
<1>3. item \in Item /\ Tail(script[w]) \in Seq(Item)
  BY <1>1, HeadTailProperties
<1>4. ItemOK(w, item)
  BY <1>2 DEF AuditInv, Lines
<1>5. EventOf(item) \in Event
  BY <1>3 DEF EventOf, Item, Event
<1>6. item.on \in sessions \union {NoSession} /\ item.on \in Sessions \union {NoSession}
  BY <1>3, <1>4 DEF ItemOK, Item
<1> QED BY <1>2, <1>3, <1>4, <1>5, <1>6

LEMMA TellsNextType ==
    ASSUME AuditInv, NEW w \in Writers, TellsNext(w)
    PROVE  AuditInv'
<1> DEFINE item == Head(script[w])
<1>1. /\ script[w] # <<>> /\ script' = [script EXCEPT ![w] = Tail(@)]
      /\ UNCHANGED <<sessionVars, stopping, passVars, inHand, topic, historyVars, moves, failures>>
      /\ item.to = "feed" => Record(item.kind, item.on) /\ UNCHANGED <<queue, lostUnits, gaps>>
      /\ item.to # "feed" => Enqueue(EventOf(item)) /\ UNCHANGED feed
  BY DEF TellsNext
<1>2. /\ ItemOK(w, item) /\ item.on \in Sessions \union {NoSession}
      /\ EventOf(item) \in Event /\ EventOf(item).on = item.on
      /\ Tail(script[w]) \in Seq(Item) /\ Range(Tail(script[w])) \subseteq Items(w)
  BY <1>1, NextItem DEF EventOf
<1>3. script \in [Writers -> Seq(Item)] /\ sessions' = sessions
  BY <1>1 DEF AuditInv, Lines, sessionVars
<1>4. Tells(w, Tail(script[w]))
  BY <1>1 DEF Tells
<1> HIDE DEF item
<1>5. Lines'
  <2>1. \A x \in Range(Tail(script[w])) : ItemOK(w, x)'
    BY <1>2, <1>3 DEF AuditInv, Lines, ItemOK
  <2>2. w = Ticker => Len(Tail(script[w])) <= 1
    <3>1. Len(Tail(script[w])) = Len(script[w]) - 1 /\ Len(script[w]) \in Nat
      BY <1>1, <1>3, HeadTailProperties, LenProperties
    <3> QED BY <3>1 DEF AuditInv, Lines
  <2> QED BY <1>2, <1>3, <1>4, <2>1, <2>2, TellsLines
<1>6. feed' \in Seq(Entry) /\ Len(feed') <= MaxEntries
  BY <1>1, <1>2, RecordType DEF AuditInv, AuditTypeOK, PlatformTypeOK, ItemOK
<1>7. /\ queue' \in Seq(Event) /\ Len(queue') <= QueueSize
      /\ gaps' \subseteq sessions /\ lostUnits' \in [Sessions -> Nat]
      /\ \A e \in Range(queue') : e.on \in sessions \union {NoSession}
  <2>1. queue \in Seq(Event) /\ QueueSize \in Nat /\ Len(queue) \in Nat
    BY AuditTrailAssumption, LenProperties DEF AuditTrailAssumption, AuditInv, AuditTypeOK
  <2>2. CASE item.to = "feed"
    BY <1>1, <2>2 DEF AuditInv, AuditTypeOK, Sent
  <2>3. CASE item.to # "feed" /\ Len(queue) < QueueSize
    <3> DEFINE e == EventOf(item)
    <3>1. queue' = Append(queue, e) /\ UNCHANGED <<lostUnits, gaps>>
      BY <1>1, <2>3 DEF Enqueue
    <3>2. e \in Event /\ e.on \in sessions \union {NoSession}
      BY <1>2 DEF ItemOK
    <3> HIDE DEF e
    <3>3. Range(queue') = Range(queue) \union {e}
      BY <2>1, <3>1, <3>2, RangeOfAppend
    <3>4. queue' \in Seq(Event) /\ Len(queue') = Len(queue) + 1
      BY <2>1, <3>1, <3>2, AppendProperties
    <3> QED BY <2>1, <2>3, <3>1, <3>2, <3>3, <3>4 DEF AuditInv, AuditTypeOK, Sent
  <2>4. CASE item.to # "feed" /\ ~(Len(queue) < QueueSize)
    <3>1. Loses(EventOf(item)) /\ UNCHANGED queue
      BY <1>1, <2>4 DEF Enqueue
    <3>2. EventOf(item).on \in sessions \union {NoSession}
      BY <1>2 DEF ItemOK
    <3> QED BY <1>2, <3>1, <3>2, LosesType DEF AuditInv, AuditTypeOK, Sent
  <2> QED BY <2>2, <2>3, <2>4
<1>8. AuditTypeOK'
  BY <1>1, <1>5, <1>6, <1>7 DEF AuditInv, AuditTypeOK, PlatformTypeOK, Lines, sessionVars, passVars,
                                historyVars
<1>9. Stops' /\ Fresh'
  <2>1. \A r \in Requests : script[r] = <<>> => script'[r] = <<>>
    BY <1>1, <1>3 DEF Writers
  <2> QED BY <1>1, <2>1 DEF AuditInv, Stops, Fresh, sessionVars
<1>10. Sent'
  BY <1>1, <1>3, <1>7 DEF AuditInv, Sent
<1> QED BY <1>5, <1>8, <1>9, <1>10 DEF AuditInv

LEMMA LogsAreTyped == AuditInv => LogsTyped
  BY DEF AuditInv, AuditTypeOK, LogsTyped, Logs

LEMMA InHandSent ==
    ASSUME AuditInv, inHand # <<>>
    PROVE  Head(inHand) \in Event /\ Head(inHand).on \in sessions \union {NoSession}
<1>1. inHand \in Seq(Event)
  BY DEF AuditInv, AuditTypeOK
<1>2. Head(inHand) \in Range(inHand)
  BY <1>1, RangeOfTail
<1> QED BY <1>1, <1>2, HeadTailProperties DEF AuditInv, Sent

LEMMA SubmitsType ==
    ASSUME AuditInv, SubmitTakes \/ SubmitLands \/ SubmitFails
    PROVE  AuditInv'
<1>1. UNCHANGED <<sessionVars, feed, stopping, script, passVars, historyVars, moves>>
  BY DEF SubmitTakes, SubmitLands, SubmitFails
<1>2. Lines'
  BY <1>1, LinesKept DEF sessionVars
<1>3. /\ queue' \in Seq(Event) /\ Len(queue') <= QueueSize
      /\ inHand' \in Seq(Event) /\ Len(inHand') <= 1
      /\ Range(queue') \union Range(inHand') \subseteq Range(queue) \union Range(inHand)
  <2>1. /\ queue \in Seq(Event) /\ QueueSize \in Nat /\ Len(queue) \in Nat /\ Len(queue) <= QueueSize
        /\ Range(<<>>) = {}
    BY AuditTrailAssumption, LenProperties, RangeOfLists
       DEF AuditTrailAssumption, AuditInv, AuditTypeOK
  <2>2. CASE SubmitTakes
    <3>1. queue # <<>> /\ queue' = Tail(queue) /\ inHand' = <<Head(queue)>>
      BY <2>2 DEF SubmitTakes
    <3>2. /\ Head(queue) \in Event /\ Tail(queue) \in Seq(Event)
          /\ Len(Tail(queue)) = Len(queue) - 1
      BY <2>1, <3>1, HeadTailProperties
    <3>3. Head(queue) \in Range(queue) /\ Range(Tail(queue)) \subseteq Range(queue)
      BY <2>1, <3>1, RangeOfTail
    <3>4. Range(<<Head(queue)>>) = {Head(queue)}
      BY RangeOfLists
    <3>5. <<Head(queue)>> \in Seq(Event) /\ Len(<<Head(queue)>>) = 1
      BY <3>2
    <3> QED BY <2>1, <3>1, <3>2, <3>3, <3>4, <3>5
  <2>3. CASE SubmitLands \/ SubmitFails
    <3>1. queue' = queue /\ inHand' = <<>>
      BY <2>3 DEF SubmitLands, SubmitFails
    <3> QED BY <2>1, <3>1
  <2> QED BY <2>2, <2>3
<1>4. /\ topic' \in [Sessions -> Said] /\ gaps' \subseteq sessions
      /\ lostUnits' \in [Sessions -> Nat] /\ failures' \in 0 .. MaxFailures
  <2>1. CASE SubmitTakes
    BY <2>1 DEF SubmitTakes, AuditInv, AuditTypeOK
  <2>2. CASE SubmitLands
    BY <2>2, LogsAreTyped, LogLands DEF SubmitLands, Logs, AuditInv, AuditTypeOK
  <2>3. CASE SubmitFails
    <3>1. MaxFailures \in Nat
      BY AuditTrailAssumption DEF AuditTrailAssumption
    <3>2. failures' \in 0 .. MaxFailures /\ topic' = topic /\ Loses(Head(inHand)) /\ inHand # <<>>
      BY <2>3, <3>1 DEF SubmitFails, AuditInv, AuditTypeOK
    <3> QED BY <3>2, InHandSent, LosesType DEF AuditInv, AuditTypeOK
  <2> QED BY <2>1, <2>2, <2>3
<1>5. AuditTypeOK'
  BY <1>1, <1>2, <1>3, <1>4 DEF AuditInv, AuditTypeOK, PlatformTypeOK, Lines, sessionVars, passVars,
                                historyVars
<1>6. Stops' /\ Sent' /\ Fresh'
  BY <1>1, <1>3 DEF AuditInv, Stops, Sent, Fresh, sessionVars
<1> QED BY <1>2, <1>5, <1>6 DEF AuditInv

LEMMA AuditNextType ==
    ASSUME AuditInv, AuditNext
    PROVE  AuditInv'
<1>1. CASE \E r \in Requests : StopCommits(r) \/ StopFails(r)
  BY <1>1, StopCommitsType, StopFailsType
<1>2. CASE \E r \in Requests : TopUp(r)
  BY <1>2, RemarkType
<1>3. CASE \E r \in Requests, s \in Sessions : Create(r, s) \/ Reject(r, s) \/ StopReads(r, s)
                                               \/ Reconfigure(r, s)
  BY <1>3, CreateType, RemarkType, StopReadsType
<1>4. CASE \E r \in Requests, s \in Sessions : Start(r, s) \/ Pause(r, s) \/ Resume(r, s)
  <2>1. /\ {"pipeline_started", "pipeline_paused", "pipeline_resumed"} \subseteq
             Kinds \intersect AuditKinds
        /\ {"running", "paused"} \subseteq States
    BY KindsApart DEF States
  <2> QED BY <1>4, <2>1, TransitionType DEF Start, Pause, Resume
<1>5. CASE \E r \in Requests, s \in Sessions, active \in BOOLEAN : SetStream(r, s, active)
  BY <1>5, SetStreamType
<1>6. CASE PassBegins \/ \E s \in Sessions : PassSkips(s)
  BY <1>6, PassTakesType
<1>7. CASE \E s \in Sessions : PassCharges(s) \/ PassPauses(s) \/ PassPausedEgress(s)
                               \/ PassPauseEgressFails(s)
  BY <1>7, PassChargesType, PassPausesType, PassPausedEgressType
<1>8. CASE \E w \in Writers : TellsNext(w)
  BY <1>8, TellsNextType
<1>9. CASE SubmitTakes \/ SubmitLands \/ SubmitFails
  BY <1>9, SubmitsType
<1> QED BY <1>1, <1>2, <1>3, <1>4, <1>5, <1>6, <1>7, <1>8, <1>9 DEF AuditNext

\* The webhook calls reach the feed and the bound, and nothing else here.
LEMMA InboxNextFrame ==
    ASSUME AuditInv, InboxInv, InboxNext, UNCHANGED auditVars
    PROVE  /\ UNCHANGED <<sessions, auditVars>>
           /\ moves' \in 0 .. MaxMoves
           /\ feed' = feed \/ \E s \in Sessions : Record("naryo_event", s)
<1>1. PICK d \in Deliveries : (\E s \in Sessions, e \in Events : Ingest(d, s, e)) \/ Tell(d)
  BY DEF InboxNext
<1>2. CASE \E s \in Sessions, e \in Events : Ingest(d, s, e)
  <2>1. UNCHANGED <<sessions, feed>> /\ (Moves \/ UNCHANGED moves)
    BY <1>2 DEF Ingest, Append_
  <2> QED BY <2>1, MovesType
<1>3. CASE Tell(d)
  <2>1. telling[d] \in Sessions \X Events
    BY <1>3 DEF Tell, InboxInv, InboxTypeOK
  <2>2. telling[d][1] \in Sessions
    BY <2>1
  <2>3. Record("naryo_event", telling[d][1]) /\ UNCHANGED <<sessions, moves>>
    BY <1>3 DEF Tell
  <2> QED BY <2>2, <2>3, MovesType
<1> QED BY <1>1, <1>2, <1>3

LEMMA InboxNextType ==
    ASSUME AuditInv, InboxInv, InboxNext, UNCHANGED auditVars
    PROVE  AuditInv'
<1>1. /\ UNCHANGED <<sessions, auditVars>>
      /\ moves' \in 0 .. MaxMoves
      /\ feed' = feed \/ \E s \in Sessions : Record("naryo_event", s)
  BY InboxNextFrame
<1>2. Lines'
  BY <1>1, LinesKept DEF auditVars
<1>3. feed' \in Seq(Entry) /\ Len(feed') <= MaxEntries
  <2>1. "naryo_event" \in Kinds /\ feed \in Seq(Entry) /\ Len(feed) <= MaxEntries
    BY DEF Kinds, AuditInv, AuditTypeOK, PlatformTypeOK
  <2> QED BY <1>1, <2>1, RecordType
<1>4. AuditTypeOK'
  BY <1>1, <1>2, <1>3 DEF AuditInv, AuditTypeOK, PlatformTypeOK, Lines, auditVars, passVars, logVars,
                          historyVars
<1>5. Stops' /\ Sent' /\ Fresh'
  BY <1>1 DEF AuditInv, Stops, Sent, Fresh, auditVars, logVars
<1> QED BY <1>2, <1>4, <1>5 DEF AuditInv

LEMMA AuditInvInit == Init => AuditInv
<1> SUFFICES ASSUME Init
             PROVE  AuditInv
  OBVIOUS
<1> USE DEF Init, AuditInit, PlatformInit
<1>1. MaxMoves \in Nat /\ MaxEntries \in Nat /\ QueueSize \in Nat /\ MaxFailures \in Nat
  BY AuditTrailAssumption, EventInboxAssumption DEF AuditTrailAssumption, EventInboxAssumption
<1>2. <<>> \in Seq(Entry) /\ <<>> \in Seq(Event) /\ <<>> \in Seq(Item) /\ Len(<<>>) = 0
  BY EmptySeq
<1>3. Range(<<>>) = {}
  BY RangeOfLists
<1>4. topic \in [Sessions -> Said]
  BY DEF Said
<1>5. AuditTypeOK
  BY <1>1, <1>2, <1>4 DEF AuditTypeOK, PlatformTypeOK, States
<1>6. Lines
  BY <1>2, <1>3 DEF Lines, Items, Writers
<1>7. Stops /\ Sent /\ Fresh
  BY <1>3 DEF Stops, Sent, Fresh
<1> QED BY <1>5, <1>6, <1>7 DEF AuditInv

LEMMA AuditInvStutter == AuditInv /\ UNCHANGED vars => AuditInv'
BY DEF AuditInv, AuditTypeOK, PlatformTypeOK, Lines, Items, ItemOK, Stops, Sent, Fresh, vars, auditVars,
       passVars, logVars, historyVars

LEMMA AuditInvariant == Spec => []AuditInv
<1>1. AuditInv /\ InboxInv /\ [Next]_vars => AuditInv'
  <2> SUFFICES ASSUME AuditInv, InboxInv, [Next]_vars
               PROVE  AuditInv'
    OBVIOUS
  <2>1. CASE InboxNext /\ UNCHANGED auditVars
    BY <2>1, InboxNextType
  <2>2. CASE AuditNext
    BY <2>2, AuditNextType
  <2>3. CASE UNCHANGED vars
    BY <2>3, AuditInvStutter
  <2> QED BY <2>1, <2>2, <2>3 DEF Next
<1> QED BY <1>1, AuditInvInit, InboxInvariant, PTL DEF Spec

\* The parts of the state keep their types, the queue of audit events never
\* outgrows its capacity nor the feed its own, and a session that a request
\* or the pass has something to do with is one that the store has.
THEOREM RecordsTypeCorrect == Spec => []TypeOK
<1>1. AuditInv /\ InboxInv => TypeOK
  BY DEF AuditInv, InboxInv, TypeOK
<1> QED BY <1>1, AuditInvariant, InboxInvariant, PTL

-----------------------------------------------------------------------------
(* Units *)

\* What a summary of the billing pass reports of session s.
UnitsOf(x, s) == IF x.on = s THEN x.units ELSE 0

Totals(iter, s, list) ==
    iter = [T \in SUBSET DOMAIN list |->
              IF T = {} THEN 0 ELSE iter[T \ {Max(T)}] + UnitsOf(list[Max(T)], s)]

LEMMA TotalsExist ==
    ASSUME NEW list \in Seq(Item), NEW s
    PROVE  \E iter : Totals(iter, s, list)
<1> DEFINE n == Len(list)
           step == [i \in 1 .. n |-> [v \in Nat |-> v + UnitsOf(list[i], s)]]
<1>1. n \in Nat /\ DOMAIN list = 1 .. n /\ 0 \in Nat
  BY LenProperties
<1>2. \A i \in 1 .. n : UnitsOf(list[i], s) \in Nat
  <2>1. \A i \in 1 .. n : list[i] \in Item
    BY ElementOfSeq
  <2> QED BY <2>1 DEF UnitsOf, Item
<1>3. \A i \in 1 .. n : \A v \in Nat : step[i][v] \in Nat /\ step[i][v] = v + UnitsOf(list[i], s)
  BY <1>2
<1>4. PICK iter \in [SUBSET (1 .. n) -> Nat] :
        Folding(iter, 1 .. n, 0, [T \in SUBSET (1 .. n) |-> Max(T)], step)
  <2>1. \A i \in 1 .. n : \A v \in Nat : step[i][v] \in Nat
    BY <1>3
  <2> HIDE DEF n, step
  <2> QED BY <1>1, <2>1, FoldOfIndices
<1> HIDE DEF n, step
<1>5. ASSUME NEW T \in SUBSET (1 .. n), T # {}
      PROVE  step[Max(T)][iter[T \ {Max(T)}]] = iter[T \ {Max(T)}] + UnitsOf(list[Max(T)], s)
  <2>1. Max(T) \in 1 .. n
    BY <1>1, <1>5, MaxInSet
  <2>2. iter[T \ {Max(T)}] \in Nat
    OBVIOUS
  <2> QED BY <1>3, <2>1, <2>2
<1>6. Totals(iter, s, list)
  BY <1>1, <1>4, <1>5 DEF Totals, Folding
<1> QED BY <1>6

Summed(list, s) ==
    FoldLeft(LAMBDA n, e : n + (IF e.on = s THEN e.units ELSE 0), 0, list)

LEMMA ReportedTotal ==
    ASSUME NEW list, NEW s
    PROVE  Summed(list, s) = (CHOOSE f : Totals(f, s, list))[DOMAIN list]
  BY DEF Summed, FoldLeft, MapThenFoldSet, Totals, UnitsOf

LEMMA ReportedShort ==
    ASSUME NEW s, NEW x \in Item
    PROVE  Summed(<<>>, s) = 0 /\ Summed(<<x>>, s) = UnitsOf(x, s)
<1>1. ASSUME NEW list \in Seq(Item)
      PROVE  \E f : Totals(f, s, list) /\ Summed(list, s) = f[DOMAIN list]
  BY <1>1, TotalsExist, ReportedTotal
<1>2. Summed(<<>>, s) = 0
  <2>1. <<>> \in Seq(Item) /\ DOMAIN <<>> = {}
    OBVIOUS
  <2>2. PICK f : Totals(f, s, <<>>) /\ Summed(<<>>, s) = f[DOMAIN <<>>]
    BY <1>1, <2>1
  <2> QED BY <2>1, <2>2 DEF Totals
<1>3. Summed(<<x>>, s) = UnitsOf(x, s)
  <2> DEFINE list == <<x>>
  <2>1. list \in Seq(Item) /\ DOMAIN list = {1} /\ list[1] = x
    <3>1. 1 .. 1 = {1}
      OBVIOUS
    <3> QED BY <3>1
  <2> HIDE DEF list
  <2>2. PICK f : Totals(f, s, list) /\ Summed(list, s) = f[DOMAIN list]
    BY <1>1, <2>1
  <2>3. Max({1}) = 1
    <3>1. {1} \in SUBSET (1 .. 1) /\ {1} # {} /\ 1 \in Nat
      OBVIOUS
    <3>2. Max({1}) \in {1}
      BY ONLY <3>1, MaxInSet
    <3> QED BY <3>2
  <2>4. UnitsOf(x, s) \in Nat
    BY DEF UnitsOf, Item
  <2>5. f[{}] = 0 /\ f[{1}] = f[{1} \ {1}] + UnitsOf(list[1], s)
    BY <2>1, <2>2, <2>3 DEF Totals
  <2>6. {1} \ {1} = {}
    OBVIOUS
  <2> QED BY <2>1, <2>2, <2>4, <2>5, <2>6 DEF list
<1> QED BY <1>2, <1>3

\* The billing pass has at most one summary on its way.
LEMMA ReportedCases ==
    ASSUME AuditInv, NEW s
    PROVE  /\ script[Ticker] = <<>> => BeingReported(s) = 0
           /\ script[Ticker] # <<>> => /\ Head(script[Ticker]) \in Item
                                       /\ Tail(script[Ticker]) = <<>>
                                       /\ BeingReported(s) = UnitsOf(Head(script[Ticker]), s)
<1>1. script[Ticker] \in Seq(Item) /\ Len(script[Ticker]) <= 1
  BY DEF AuditInv, Lines, Writers
<1>2. ASSUME script[Ticker] # <<>>
      PROVE  /\ Head(script[Ticker]) \in Item /\ Tail(script[Ticker]) = <<>>
             /\ script[Ticker] = <<Head(script[Ticker])>>
  BY <1>1, <1>2, ShortList
<1>3. BeingReported(s) = Summed(script[Ticker], s)
  BY DEF BeingReported, Summed
<1>4. script[Ticker] # <<>> => BeingReported(s) = UnitsOf(Head(script[Ticker]), s)
  BY <1>2, <1>3, ReportedShort
<1>5. script[Ticker] = <<>> => BeingReported(s) = 0
  <2>1. Audit("billing_summary", NoSession, 0) \in Item
    BY KindsApart, ItemsTyped
  <2> QED BY <1>3, <2>1, ReportedShort
<1> QED BY <1>2, <1>4, <1>5

LEMMA ReportedNext ==
    ASSUME NEW s, NEW list, script'[Ticker] = list
    PROVE  BeingReported(s)' = Summed(list, s)
<1>1. BeingReported(s)' = Summed(script'[Ticker], s)
  BY DEF BeingReported, Summed, FoldLeft, MapThenFoldSet
<1> QED BY <1>1

Units(s) == charged[s] = unreported[s] + BeingReported(s) + Log[s].units + lostUnits[s]

UnitsNatural == \A s \in Sessions :
    /\ charged[s] \in Nat /\ unreported[s] \in Nat /\ lostUnits[s] \in Nat
    /\ BeingReported(s) \in Nat /\ Log[s].units \in Nat

LEMMA UnitsType == AuditInv => UnitsNatural
<1> SUFFICES ASSUME AuditInv, NEW s \in Sessions
             PROVE  /\ charged[s] \in Nat /\ unreported[s] \in Nat /\ lostUnits[s] \in Nat
                    /\ BeingReported(s) \in Nat /\ Log[s].units \in Nat
  BY DEF UnitsNatural
<1>1. Log \in Logs
  BY LogsAreTyped, LogType
<1>2. BeingReported(s) \in Nat
  BY ReportedCases DEF UnitsOf, Item
<1> QED BY <1>1, <1>2 DEF AuditInv, AuditTypeOK, Logs, Said

LEMMA UnitsTypeNext == AuditInv' => UnitsNatural'
<1>1. (AuditInv => UnitsNatural)'
  BY UnitsType, PTL
<1> QED BY <1>1

\* Steps that charge nothing, summarise nothing and lose nothing.
LEMMA UnitsKept ==
    ASSUME NEW s \in Sessions, Units(s), UNCHANGED <<charged, unreported, lostUnits>>,
           script'[Ticker] = script[Ticker], Log' = Log
    PROVE  Units(s)'
<1>1. BeingReported(s)' = Summed(script[Ticker], s)
  BY ReportedNext
<1>2. BeingReported(s) = Summed(script[Ticker], s)
  BY DEF BeingReported, Summed
<1> QED BY <1>1, <1>2 DEF Units

LEMMA TellsFrame ==
    ASSUME AuditInv, NEW w \in Writers, NEW items, Tells(w, items)
    PROVE  script'[w] = items /\ \A v \in Writers : v # w => script'[v] = script[v]
  BY DEF AuditInv, Lines, Tells

LEMMA UnitsInit ==
    ASSUME Init, NEW s \in Sessions
    PROVE  Units(s)
<1> USE DEF Init, AuditInit
<1>1. BeingReported(s) = 0
  BY AuditInvInit, ReportedCases DEF Writers
<1>2. Log = topic
  <2>1. topic \in Logs
    BY DEF Logs, Said
  <2>2. <<>> \o <<>> = <<>>
    OBVIOUS
  <2> QED BY <2>1, <2>2, LogIsLogged, LoggedEmpty
<1> QED BY <1>1, <1>2 DEF Units

LEMMA PassChargesUnits ==
    ASSUME AuditInv, AuditInv', NEW c \in Sessions, PassCharges(c), NEW s \in Sessions, Units(s)
    PROVE  Units(s)'
<1> USE DEF PassCharges, Visits
<1>1. Log' = Log /\ lostUnits' = lostUnits /\ BeingReported(s) = 0
  BY LogUnchanged, ReportedCases DEF logVars
<1>2. charged'[s] = charged[s] + (IF s = c THEN 1 ELSE 0)
  BY DEF AuditInv, AuditTypeOK
<1>3. CASE unreported' = [unreported EXCEPT ![c] = @ + 1] /\ UNCHANGED script
  <2>1. BeingReported(s)' = 0
    <3>1. script'[Ticker] = <<>>
      BY <1>3
    <3>2. Audit("billing_summary", NoSession, 0) \in Item
      BY KindsApart, ItemsTyped
    <3> QED BY <3>1, <3>2, ReportedNext, ReportedShort
  <2>2. unreported'[s] = unreported[s] + (IF s = c THEN 1 ELSE 0)
    BY <1>3 DEF AuditInv, AuditTypeOK
  <2>3. charged[s] \in Nat /\ unreported[s] \in Nat /\ lostUnits[s] \in Nat /\ Log[s].units \in Nat
    BY UnitsType DEF UnitsNatural
  <2> QED BY <1>1, <1>2, <2>1, <2>2, <2>3 DEF Units
<1>4. CASE /\ unreported' = [unreported EXCEPT ![c] = 0]
           /\ Tells(Ticker, <<Audit("billing_summary", c, SummaryUnits(c))>>)
  <2> DEFINE x == Audit("billing_summary", c, SummaryUnits(c))
  <2>1. x \in Item
    <3>1. SummaryUnits(c) \in Nat /\ "billing_summary" \in AuditKinds
      BY UnitsType, KindsApart DEF UnitsNatural, SummaryUnits
    <3> QED BY <3>1, ItemsTyped
  <2>2. script'[Ticker] = <<x>>
    BY <1>4, TellsFrame DEF Writers
  <2>3. x.on = c /\ x.units = unreported[c] + 1
    BY DEF Audit, SummaryUnits
  <2> HIDE DEF x
  <2>4. BeingReported(s)' = UnitsOf(x, s)
    BY <2>1, <2>2, ReportedNext, ReportedShort
  <2>5. unreported'[s] = IF s = c THEN 0 ELSE unreported[s]
    BY <1>4 DEF AuditInv, AuditTypeOK
  <2> QED BY <1>1, <1>2, <2>2, <2>3, <2>4, <2>5, UnitsType DEF UnitsNatural, Units, UnitsOf
<1> QED BY <1>3, <1>4

LEMMA PassPausesUnits ==
    ASSUME AuditInv, NEW c \in Sessions, PassPauses(c), NEW s \in Sessions, Units(s)
    PROVE  Units(s)'
<1> USE DEF PassPauses, Visits
<1> DEFINE x == Audit("pipeline_paused", c, 0)
<1>1. Log' = Log /\ UNCHANGED <<charged, unreported, lostUnits>> /\ BeingReported(s) = 0
  BY LogUnchanged, ReportedCases DEF logVars
<1>2. x \in Item /\ x.units = 0
  BY KindsApart, ItemsTyped DEF Audit
<1>3. script'[Ticker] = <<x>>
  BY TellsFrame DEF Writers
<1> HIDE DEF x
<1>4. BeingReported(s)' = UnitsOf(x, s)
  BY <1>2, <1>3, ReportedNext, ReportedShort
<1> QED BY <1>1, <1>2, <1>4 DEF Units, UnitsOf

\* An event that is told says its units in the log, or they are lost.
LEMMA EnqueueUnits ==
    ASSUME AuditInv, NEW e \in Event, Enqueue(e), UNCHANGED <<topic, inHand>>, NEW s \in Sessions
    PROVE  Log'[s].units + lostUnits'[s] = Log[s].units + lostUnits[s] + UnitsOf(e, s)
<1>1. LogsTyped /\ Log \in Logs
  BY LogsAreTyped, LogType
<1>2. Log[s].units \in Nat /\ lostUnits[s] \in Nat /\ e.units \in Nat
  BY UnitsType DEF UnitsNatural, Event
<1>3. CASE Len(queue) < QueueSize
  <2>1. queue' = Append(queue, e) /\ lostUnits' = lostUnits
    BY <1>3 DEF Enqueue
  <2>2. Log' = Heard(Log, e)
    BY <1>1, <2>1, LogAppends
  <2>3. Log'[s].units = Log[s].units + UnitsOf(e, s)
    BY <1>1, <1>2, <2>2, HeardValues DEF UnitsOf
  <2> QED BY <1>2, <2>1, <2>3 DEF UnitsOf
<1>4. CASE ~(Len(queue) < QueueSize)
  <2>1. Loses(e) /\ queue' = queue
    BY <1>4 DEF Enqueue
  <2>2. Log' = Log
    BY <2>1, LogUnchanged
  <2>3. NoSession # s
    BY AuditTrailAssumption DEF AuditTrailAssumption
  <2>4. lostUnits'[s] = lostUnits[s] + UnitsOf(e, s)
    BY <1>2, <2>1, <2>3 DEF Loses, UnitsOf, AuditInv, AuditTypeOK
  <2> QED BY <1>2, <2>2, <2>4 DEF UnitsOf
<1> QED BY <1>3, <1>4

LEMMA TellsNextUnits ==
    ASSUME AuditInv, NEW w \in Writers, TellsNext(w), NEW s \in Sessions, Units(s)
    PROVE  Units(s)'
<1> DEFINE item == Head(script[w])
<1>1. /\ script[w] # <<>> /\ script' = [script EXCEPT ![w] = Tail(@)]
      /\ UNCHANGED <<charged, unreported, inHand, topic>>
      /\ item.to = "feed" => UNCHANGED <<queue, lostUnits, gaps>>
      /\ item.to # "feed" => Enqueue(EventOf(item))
  BY DEF TellsNext, sessionVars
<1>2. /\ item \in Item /\ ItemOK(w, item) /\ EventOf(item) \in Event
      /\ EventOf(item).on = item.on /\ EventOf(item).units = item.units
  BY <1>1, NextItem DEF EventOf
<1>3. script'[w] = Tail(script[w]) /\ \A v \in Writers : v # w => script'[v] = script[v]
  BY <1>1 DEF AuditInv, Lines
<1> HIDE DEF item
<1>4. BeingReported(s) = BeingReported(s)' + (IF w = Ticker THEN UnitsOf(item, s) ELSE 0)
  <2>1. BeingReported(s) \in Nat
    BY UnitsType DEF UnitsNatural
  <2>2. CASE w = Ticker
    <3>1. Tail(script[Ticker]) = <<>> /\ BeingReported(s) = UnitsOf(item, s)
      BY <1>1, <2>2, ReportedCases DEF item
    <3>2. BeingReported(s)' = 0
      BY <1>2, <1>3, <2>2, <3>1, ReportedNext, ReportedShort
    <3> QED BY <2>1, <2>2, <3>1, <3>2
  <2>3. CASE w # Ticker
    <3>1. BeingReported(s)' = Summed(script[Ticker], s)
      BY <1>3, <2>3, ReportedNext DEF Writers
    <3>2. BeingReported(s) = Summed(script[Ticker], s)
      BY DEF BeingReported, Summed
    <3> QED BY <2>1, <2>3, <3>1, <3>2
  <2> QED BY <2>2, <2>3
<1>5. /\ w # Ticker => UnitsOf(item, s) = 0
      /\ w = Ticker => item.to # "feed"
      /\ UnitsOf(item, s) \in Nat
  BY <1>2 DEF ItemOK, UnitsOf, Item
<1>6. Log'[s].units + lostUnits'[s] =
        Log[s].units + lostUnits[s] + (IF item.to = "feed" THEN 0 ELSE UnitsOf(item, s))
  <2>1. CASE item.to = "feed"
    <3>1. Log' = Log /\ lostUnits' = lostUnits
      BY <1>1, <2>1, LogUnchanged
    <3>2. Log[s].units \in Nat /\ lostUnits[s] \in Nat
      BY UnitsType DEF UnitsNatural
    <3> QED BY <2>1, <3>1, <3>2
  <2>2. CASE item.to # "feed"
    <3>1. UnitsOf(EventOf(item), s) = UnitsOf(item, s)
      BY <1>2 DEF UnitsOf
    <3> QED BY <1>1, <1>2, <2>2, <3>1, EnqueueUnits
  <2> QED BY <2>1, <2>2
<1>7. AuditInv'
  BY TellsNextType
<1>8. /\ charged[s] \in Nat /\ unreported[s] \in Nat /\ lostUnits[s] \in Nat
      /\ BeingReported(s) \in Nat /\ Log[s].units \in Nat
  BY UnitsType DEF UnitsNatural
<1>9. lostUnits'[s] \in Nat /\ BeingReported(s)' \in Nat /\ Log'[s].units \in Nat
  BY <1>7, UnitsTypeNext DEF UnitsNatural
<1>10. BeingReported(s)' + (Log'[s].units + lostUnits'[s]) =
         BeingReported(s) + (Log[s].units + lostUnits[s])
  <2>1. CASE w = Ticker
    BY <1>4, <1>5, <1>6, <1>8, <1>9, <2>1
  <2>2. CASE w # Ticker
    <3>1. BeingReported(s) = BeingReported(s)'
      BY <1>4, <1>9, <2>2
    <3>2. Log'[s].units + lostUnits'[s] = Log[s].units + lostUnits[s]
      BY <1>5, <1>6, <1>8, <2>2
    <3> QED BY <3>1, <3>2
  <2> QED BY <2>1, <2>2
<1>11. charged'[s] = charged[s] /\ unreported'[s] = unreported[s]
  BY <1>1
<1>12. charged[s] = unreported[s] + BeingReported(s) + Log[s].units + lostUnits[s]
  BY DEF Units
<1> QED BY <1>8, <1>9, <1>10, <1>11, <1>12 DEF Units

LEMMA SubmitsUnits ==
    ASSUME AuditInv, SubmitTakes \/ SubmitLands \/ SubmitFails, NEW s \in Sessions, Units(s)
    PROVE  Units(s)'
<1>1. UNCHANGED <<charged, unreported, script>>
  BY DEF SubmitTakes, SubmitLands, SubmitFails, sessionVars
<1>2. CASE SubmitTakes \/ SubmitLands
  <2>1. Log' = Log /\ lostUnits' = lostUnits
    BY <1>2, LogsAreTyped, LogTakes, LogLands DEF SubmitTakes, SubmitLands
  <2> QED BY <1>1, <2>1, UnitsKept
<1>3. CASE SubmitFails
  <2> DEFINE e == Head(inHand)
  <2>0. /\ e \in Event
        /\ e.on # s => Log'[s] = Log[s]
        /\ e.on = s => Log[s].units = Log'[s].units + e.units
    BY <1>3, LogsAreTyped, LogFails
  <2>1. e \in Event /\ Loses(e)
    BY <1>3, <2>0 DEF SubmitFails
  <2> HIDE DEF e
  <2>2. NoSession # s
    BY AuditTrailAssumption DEF AuditTrailAssumption
  <2>3. e.units \in Nat /\ e.on \in Sessions \union {NoSession}
    BY <2>1 DEF Event
  <2>4. lostUnits[s] \in Nat /\ BeingReported(s) \in Nat /\ unreported[s] \in Nat
    BY UnitsType DEF UnitsNatural
  <2>5. lostUnits'[s] = lostUnits[s] + UnitsOf(e, s)
    <3>1. lostUnits \in [Sessions -> Nat]
      BY DEF AuditInv, AuditTypeOK
    <3> QED BY <2>1, <2>2, <2>3, <2>4, <3>1 DEF Loses, UnitsOf
  <2>6. BeingReported(s)' = BeingReported(s)
    <3>1. BeingReported(s)' = Summed(script[Ticker], s)
      BY <1>1, ReportedNext
    <3> QED BY <3>1 DEF BeingReported, Summed
  <2>7. Log'[s].units \in Nat
    <3>1. AuditInv'
      BY <1>3, SubmitsType
    <3> QED BY <3>1, UnitsTypeNext DEF UnitsNatural
  <2>8. Log[s].units = Log'[s].units + UnitsOf(e, s)
    <3>1. CASE e.on = s
      BY <2>0, <3>1 DEF UnitsOf
    <3>2. CASE e.on # s
      BY <2>0, <2>7, <3>2 DEF UnitsOf
    <3> QED BY <3>1, <3>2
  <2>9. UnitsOf(e, s) \in Nat
    BY <2>3 DEF UnitsOf
  <2> QED BY <1>1, <2>4, <2>5, <2>6, <2>7, <2>8, <2>9 DEF Units
<1> QED BY <1>2, <1>3

\* What a request or the pass does else leaves the units alone.
LEMMA RestUnits ==
    ASSUME AuditInv, AuditNext, NEW s \in Sessions, Units(s)
    PROVE  Units(s)'
<1>1. CASE \E r \in Requests :
             \/ StopCommits(r) \/ StopFails(r) \/ TopUp(r)
             \/ \E c \in Sessions : \/ Create(r, c) \/ Start(r, c) \/ Pause(r, c) \/ Resume(r, c)
                                    \/ Reject(r, c) \/ StopReads(r, c) \/ Reconfigure(r, c)
                                    \/ \E active \in BOOLEAN : SetStream(r, c, active)
  <2>1. PICK r \in Requests :
             \/ StopCommits(r) \/ StopFails(r) \/ TopUp(r)
             \/ \E c \in Sessions : \/ Create(r, c) \/ Start(r, c) \/ Pause(r, c) \/ Resume(r, c)
                                    \/ Reject(r, c) \/ StopReads(r, c) \/ Reconfigure(r, c)
                                    \/ \E active \in BOOLEAN : SetStream(r, c, active)
    BY <1>1
  <2>2. UNCHANGED <<charged, unreported, logVars>>
        /\ (UNCHANGED script \/ \E items : Tells(r, items))
    BY <2>1 DEF StopCommits, StopFails, TopUp, Create, Start, Pause, Resume, Transition, Reject,
                StopReads, Reconfigure, SetStream, sessionVars
  <2>3. script'[Ticker] = script[Ticker]
    <3>1. r # Ticker /\ r \in Writers /\ Ticker \in Writers
      BY AuditTrailAssumption DEF AuditTrailAssumption, Writers
    <3> QED BY <2>2, <3>1, TellsFrame
  <2>4. Log' = Log
    BY <2>2, LogUnchanged DEF logVars
  <2> QED BY <2>2, <2>3, <2>4, UnitsKept DEF logVars
<1>2. CASE PassBegins \/ \E c \in Sessions : PassSkips(c) \/ PassPausedEgress(c)
                                             \/ PassPauseEgressFails(c)
  <2>1. UNCHANGED <<charged, unreported, script, logVars>>
    BY <1>2 DEF PassBegins, PassSkips, PassPausedEgress, PassPauseEgressFails, sessionVars
  <2>2. Log' = Log
    BY <2>1, LogUnchanged DEF logVars
  <2> QED BY <2>1, <2>2, UnitsKept DEF logVars
<1>3. CASE \E c \in Sessions : PassCharges(c) \/ PassPauses(c)
  BY <1>3, AuditNextType, PassChargesUnits, PassPausesUnits
<1>4. CASE \E w \in Writers : TellsNext(w)
  BY <1>4, TellsNextUnits
<1>5. CASE SubmitTakes \/ SubmitLands \/ SubmitFails
  BY <1>5, SubmitsUnits
<1> QED BY <1>1, <1>2, <1>3, <1>4, <1>5 DEF AuditNext

\* Every unit charged to a session is yet to be summarised, or in one summary:
\* about to be told, in the log, or in an event that the full queue or a failed
\* submit lost.  No summary reports a unit that another does.
THEOREM AuditConservesUnitsCorrect == Spec => []AuditConservesUnits
<1> DEFINE Inv == \A s \in Sessions : Units(s)
<1>1. Init => Inv
  BY UnitsInit
<1>2. AuditInv /\ Inv /\ [Next]_vars => Inv'
  <2> SUFFICES ASSUME AuditInv, Inv, [Next]_vars, NEW s \in Sessions
               PROVE  Units(s)'
    OBVIOUS
  <2>1. CASE AuditNext
    BY <2>1, RestUnits
  <2>2. CASE UNCHANGED auditVars
    <3>1. UNCHANGED <<charged, unreported, lostUnits, script>> /\ Log' = Log
      BY <2>2, LogUnchanged DEF auditVars, logVars
    <3> QED BY <3>1, UnitsKept
  <2> QED BY <2>1, <2>2 DEF Next, vars
<1>3. Inv => AuditConservesUnits
  BY DEF Units, AuditConservesUnits
<1> HIDE DEF Inv
<1> QED BY <1>1, <1>2, <1>3, AuditInvariant, PTL DEF Spec

-----------------------------------------------------------------------------
(* What is yet to be told *)

LEMMA KindTable ==
    /\ DOMAIN StateTold = {"pipeline_created", "pipeline_started", "pipeline_paused",
                           "pipeline_resumed", "pipeline_stopped"}
    /\ StateTold["pipeline_created"] = "created" /\ StateTold["pipeline_started"] = "running"
    /\ StateTold["pipeline_paused"] = "paused" /\ StateTold["pipeline_resumed"] = "running"
    /\ StateTold["pipeline_stopped"] = "stopped"
    /\ DOMAIN StreamTold = {"pipeline_created", "pipeline_started", "pipeline_paused",
                            "pipeline_resumed", "payment_stream_started",
                            "payment_stream_stalled", "payment_stream_terminated"}
    /\ StreamTold["pipeline_created"] = FALSE /\ StreamTold["pipeline_started"] = TRUE
    /\ StreamTold["pipeline_paused"] = FALSE /\ StreamTold["pipeline_resumed"] = TRUE
    /\ StreamTold["payment_stream_started"] = TRUE
    /\ StreamTold["payment_stream_stalled"] = FALSE
    /\ StreamTold["payment_stream_terminated"] = FALSE
    /\ DOMAIN StreamFed = DOMAIN StreamTold \union {"pipeline_stopped"}
    /\ StreamFed["pipeline_stopped"] = FALSE
    /\ \A k \in DOMAIN StreamTold : StreamFed[k] = StreamTold[k]
<1>1. /\ DOMAIN StateTold = {"pipeline_created", "pipeline_started", "pipeline_paused",
                             "pipeline_resumed", "pipeline_stopped"}
      /\ StateTold["pipeline_created"] = "created" /\ StateTold["pipeline_started"] = "running"
      /\ StateTold["pipeline_paused"] = "paused" /\ StateTold["pipeline_resumed"] = "running"
      /\ StateTold["pipeline_stopped"] = "stopped"
  BY DEF StateTold
<1>2. /\ DOMAIN StreamTold = {"pipeline_created", "pipeline_started", "pipeline_paused",
                              "pipeline_resumed", "payment_stream_started",
                              "payment_stream_stalled", "payment_stream_terminated"}
      /\ StreamTold["pipeline_created"] = FALSE /\ StreamTold["pipeline_started"] = TRUE
      /\ StreamTold["pipeline_paused"] = FALSE /\ StreamTold["pipeline_resumed"] = TRUE
      /\ StreamTold["payment_stream_started"] = TRUE
      /\ StreamTold["payment_stream_stalled"] = FALSE
      /\ StreamTold["payment_stream_terminated"] = FALSE
  BY DEF StreamTold
<1>3. "pipeline_stopped" \notin DOMAIN StreamTold
  BY <1>2
<1>4. /\ DOMAIN StreamFed = DOMAIN StreamTold \union {"pipeline_stopped"}
      /\ StreamFed["pipeline_stopped"] = FALSE
      /\ \A k \in DOMAIN StreamTold : StreamFed[k] = StreamTold[k]
  BY <1>3 DEF StreamFed
<1> QED BY <1>1, <1>2, <1>4

TellsState(x) == x.kind \in DOMAIN StateTold
TellsStream(x) == x.kind \in DOMAIN StreamFed

Pending(s) == {x \in UNION {Items(w) : w \in Writers} : x.on = s}

\* What is yet to be told of the state or the stream of session s.
Tellings(s) == {x \in Pending(s) : TellsState(x) \/ TellsStream(x)}

StopsOn(s) == {r \in Requests : stopping[r] # NoStop /\ stopping[r].on = s}

LEMMA IdleSession ==
    ASSUME AuditInv, NEW s \in Sessions, ~Busy(s)
    PROVE  Pending(s) = {} /\ Tellings(s) = {} /\ StopsOn(s) = {} /\ s \notin pauseIDs
<1>1. StopsOn(s) = {} /\ s \notin pauseIDs
  BY DEF Busy, StopsOn
<1>2. ASSUME NEW x \in Pending(s)
      PROVE  FALSE
  <2>1. PICK w \in Writers : x \in Range(script[w]) /\ x.on = s
    BY DEF Pending, Items
  <2>2. PICK i \in DOMAIN script[w] : x = script[w][i]
    BY <2>1 DEF Range
  <2> QED BY <2>1, <2>2 DEF Busy
<1> QED BY <1>1, <1>2 DEF Tellings

\* Nothing is pending of a session that the store does not have.
LEMMA UnknownSession ==
    ASSUME AuditInv, NEW s \in Sessions \ sessions
    PROVE  Pending(s) = {} /\ Tellings(s) = {} /\ StopsOn(s) = {} /\ s \notin pauseIDs
           /\ state[s] = "created" /\ stream[s] = FALSE
<1>1. NoSession # s
  BY AuditTrailAssumption DEF AuditTrailAssumption
<1>2. Pending(s) = {}
  BY <1>1 DEF Pending, AuditInv, Lines, ItemOK
<1>3. StopsOn(s) = {} /\ s \notin pauseIDs
  BY DEF StopsOn, AuditInv, Stops, AuditTypeOK
<1> QED BY <1>2, <1>3 DEF Tellings, AuditInv, Fresh, AuditTypeOK

\* A goroutine that had nothing to tell.
LEMMA PendingAdds ==
    ASSUME AuditInv, NEW w \in Writers, script[w] = <<>>, NEW items, Tells(w, items), NEW s
    PROVE  Pending(s)' = Pending(s) \union {x \in Range(items) : x.on = s}
<1>1. script'[w] = items /\ \A v \in Writers : v # w => script'[v] = script[v]
  BY TellsFrame
<1>2. Range(script[w]) = {}
  BY RangeOfLists
<1> QED BY <1>1, <1>2 DEF Pending, Items

LEMMA PendingKept ==
    ASSUME UNCHANGED script, NEW s
    PROVE  Pending(s)' = Pending(s) /\ Tellings(s)' = Tellings(s)
  BY DEF Tellings, Pending, Items, TellsState, TellsStream

LEMMA TellingsNext ==
    ASSUME NEW s
    PROVE  Tellings(s)' = {x \in Pending(s)' : TellsState(x) \/ TellsStream(x)}
  BY DEF Tellings, TellsState, TellsStream

\* ... and one that tells the next thing.
LEMMA PendingShrinks ==
    ASSUME AuditInv, NEW w \in Writers, TellsNext(w), NEW s
    PROVE  /\ Pending(s)' \subseteq Pending(s)
           /\ Pending(s) \subseteq Pending(s)' \union {Head(script[w])}
           /\ Head(script[w]).on = s => Head(script[w]) \in Pending(s)
<1>1. script[w] # <<>> /\ script' = [script EXCEPT ![w] = Tail(@)]
  BY DEF TellsNext
<1>2. script'[w] = Tail(script[w]) /\ \A v \in Writers : v # w => script'[v] = script[v]
  BY <1>1 DEF AuditInv, Lines
<1>3. /\ Head(script[w]) \in Range(script[w])
      /\ Range(Tail(script[w])) \subseteq Range(script[w])
      /\ Range(script[w]) \subseteq Range(Tail(script[w])) \union {Head(script[w])}
  BY <1>1, NextItem DEF Items
<1> QED BY <1>2, <1>3 DEF Pending, Items

-----------------------------------------------------------------------------
(* What a list of entries tells last *)

FedLast(list, s, says, v) ==
    \A i \in DOMAIN list :
        /\ list[i].on = s /\ list[i].kind \in DOMAIN says
        /\ \A j \in DOMAIN list : list[j].on = s /\ list[j].kind \in DOMAIN says => j <= i
        => says[list[i].kind] = v

\* The list when an entry more has been recorded.
LEMMA RecordedFed ==
    ASSUME NEW list \in Seq(Entry), NEW e \in Entry, NEW n \in Nat \ {0},
           NEW cut, cut = Recent(Append(list, e), n),
           NEW s, NEW says
    PROVE  /\ e.on = s /\ e.kind \in DOMAIN says => FedLast(cut, s, says, says[e.kind])
           /\ ~(e.on = s /\ e.kind \in DOMAIN says) =>
                \A v : FedLast(list, s, says, v) => FedLast(cut, s, says, v)
<1> DEFINE long == Append(list, e)
           m == Len(cut)
           k == Len(list) + 1 - m
<1>1. /\ long \in Seq(Entry) /\ Len(long) = Len(list) + 1
      /\ \A i \in 1 .. Len(list) : long[i] = list[i]
      /\ long[Len(list) + 1] = e
      /\ Len(list) \in Nat /\ DOMAIN list = 1 .. Len(list)
  BY AppendProperties, LenProperties
<1>2. cut = Recent(long, n)
  OBVIOUS
<1> HIDE DEF long
<1>3. /\ cut \in Seq(Entry)
      /\ Len(cut) = IF n >= Len(long) THEN Len(long) ELSE n
      /\ \A i \in 1 .. Len(cut) : cut[i] = long[Len(long) - Len(cut) + i]
  <2>1. n \in Nat
    OBVIOUS
  <2>2. long \in Seq(Entry)
    BY <1>1
  <2>3. /\ Recent(long, n) \in Seq(Entry)
        /\ Len(Recent(long, n)) = IF n >= Len(long) THEN Len(long) ELSE n
        /\ \A i \in 1 .. Len(Recent(long, n)) :
             Recent(long, n)[i] = long[Len(long) - Len(Recent(long, n)) + i]
    BY ONLY <2>1, <2>2, RecentProperties
  <2> QED BY ONLY <1>2, <2>3
<1>4. /\ m \in Nat /\ m >= 1 /\ k \in Nat /\ m + k = Len(list) + 1 /\ DOMAIN cut = 1 .. m
  <2>1. n \in Nat /\ n >= 1 /\ DOMAIN cut = 1 .. Len(cut)
    BY <1>3, LenProperties
  <2> QED BY <1>1, <1>3, <2>1
<1>5. \A i \in 1 .. m : cut[i] = long[k + i]
  <2>1. ASSUME NEW i \in 1 .. m
        PROVE  Len(long) - Len(cut) + i = k + i
    BY <1>1, <1>4
  <2> QED BY <1>3, <2>1
<1> HIDE DEF m, k
<1>6. cut[m] = e /\ \A i \in 1 .. m - 1 : k + i \in 1 .. Len(list) /\ cut[i] = list[k + i]
  <2>1. cut[m] = long[k + m] /\ k + m = Len(list) + 1
    BY <1>1, <1>4, <1>5
  <2>2. ASSUME NEW i \in 1 .. m - 1
        PROVE  k + i \in 1 .. Len(list) /\ cut[i] = list[k + i]
    <3>1. i \in 1 .. m /\ k + i \in 1 .. Len(list)
      BY <1>1, <1>4
    <3> QED BY <1>1, <1>5, <3>1
  <2> QED BY <1>1, <2>1, <2>2
<1> DEFINE Tel(x) == x.on = s /\ x.kind \in DOMAIN says
<1>7. ASSUME Tel(e), NEW i \in 1 .. m, \A j \in 1 .. m : Tel(cut[j]) => j <= i
      PROVE  says[cut[i].kind] = says[e.kind]
  <2>1. m \in 1 .. m
    BY <1>4
  <2>2. m <= i
    BY <1>6, <1>7, <2>1
  <2>3. i = m
    BY <1>4, <2>2
  <2> QED BY <1>6, <2>3
<1>8. ASSUME ~Tel(e), NEW v, FedLast(list, s, says, v),
             NEW i \in 1 .. m, Tel(cut[i]), \A j \in 1 .. m : Tel(cut[j]) => j <= i
      PROVE  says[cut[i].kind] = v
  <2>1. i # m
    BY <1>6, <1>8
  <2>2. i \in 1 .. m - 1
    BY <1>4, <2>1
  <2>3. k + i \in 1 .. Len(list) /\ cut[i] = list[k + i]
    BY <1>6, <2>2
  <2>4. ASSUME NEW j \in 1 .. Len(list), Tel(list[j])
        PROVE  j <= k + i
    <3>1. CASE j <= k
      BY <1>4, <3>1
    <3>2. CASE ~(j <= k)
      <4>1. j - k \in 1 .. m - 1 /\ j - k \in 1 .. m /\ k + (j - k) = j
        BY <1>1, <1>4, <3>2
      <4>2. cut[j - k] = list[j]
        BY <1>6, <4>1
      <4>3. j - k <= i
        BY <1>8, <2>4, <4>1, <4>2
      <4> QED BY <1>4, <4>3
    <3> QED BY <3>1, <3>2
  <2>5. k + i \in DOMAIN list /\ Tel(list[k + i])
        /\ \A j \in DOMAIN list : Tel(list[j]) => j <= k + i
    BY <1>1, <1>8, <2>3, <2>4
  <2> QED BY <1>8, <2>3, <2>5 DEF FedLast
<1> QED BY <1>4, <1>7, <1>8 DEF FedLast

-----------------------------------------------------------------------------
(* The inductive invariant of what the audit log and the feed tell *)

\* What is yet to be told of a session is what the session has come to.
ToldTrue(s) == \A x \in Tellings(s) :
    /\ TellsState(x) => StateTold[x.kind] = state[s]
    /\ TellsStream(x) => StreamFed[x.kind] = stream[s]

\* A stop on its way is alone with its session, and knows its stream.
StopsAlone(s) == \A r \in StopsOn(s) :
    /\ Tellings(s) = {}
    /\ stopping[r].streamWasActive = stream[s]
    /\ s \notin pauseIDs
    /\ \A q \in StopsOn(s) : q = r

PausedAlone(s) == s \in pauseIDs => state[s] = "paused" /\ stream[s] = FALSE

\* The log tells what nothing else is about to tell it.
LogTrue(s) ==
    /\ (\A x \in Tellings(s) : x.to = "audit" => ~TellsState(x)) => Log[s].state = state[s]
    /\ (\A x \in Tellings(s) : x.to = "audit" => x.kind \notin DOMAIN StreamTold) =>
         Log[s].stream = stream[s]

\* And so does the feed, the pauses of the pass apart, which it hears of last.
FeedTrue(s) == s \notin pauseIDs =>
    /\ (\A x \in Tellings(s) : x.to = "feed" => ~TellsState(x)) =>
         FedLast(feed, s, StateTold, state[s])
    /\ (\A x \in Tellings(s) : x.to = "feed" => ~TellsStream(x)) =>
         FedLast(feed, s, StreamFed, stream[s])

TellingOf(s) ==
    /\ s \notin blurred => ToldTrue(s) /\ StopsAlone(s) /\ PausedAlone(s)
    /\ s \notin blurred \union gaps => LogTrue(s)
    /\ s \notin blurred \union unfed => FeedTrue(s)

TellingInv == \A s \in sessions : TellingOf(s)

\* A step that changes nothing of session s, nor what is told of it.
Undisturbed(s) ==
    /\ state'[s] = state[s] /\ stream'[s] = stream[s]
    /\ \A r \in StopsOn(s)' : r \in StopsOn(s) /\ stopping'[r] = stopping[r]
    /\ s \in pauseIDs' <=> s \in pauseIDs
    /\ s \in blurred => s \in blurred'
    /\ s \in gaps => s \in gaps'
    /\ s \in unfed => s \in unfed'

LEMMA TellingKept ==
    ASSUME NEW s \in Sessions, TellingOf(s), Undisturbed(s),
           Tellings(s)' = Tellings(s),
           Log'[s].state = Log[s].state, Log'[s].stream = Log[s].stream,
           \A says \in {StateTold, StreamFed} :
               \A v : FedLast(feed, s, says, v) => FedLast(feed', s, says, v)
    PROVE  TellingOf(s)'
<1> USE DEF Undisturbed, TellsState, TellsStream
<1>1. s \notin blurred' => ToldTrue(s)' /\ StopsAlone(s)' /\ PausedAlone(s)'
  <2> SUFFICES ASSUME s \notin blurred'
               PROVE  ToldTrue(s)' /\ StopsAlone(s)' /\ PausedAlone(s)'
    OBVIOUS
  <2>1. ToldTrue(s) /\ StopsAlone(s) /\ PausedAlone(s)
    BY DEF TellingOf
  <2>2. ToldTrue(s)'
    BY <2>1 DEF ToldTrue
  <2>3. StopsAlone(s)'
    BY <2>1 DEF StopsAlone
  <2>4. PausedAlone(s)'
    BY <2>1 DEF PausedAlone
  <2> QED BY <2>2, <2>3, <2>4
<1>2. s \notin blurred' \union gaps' => LogTrue(s)'
  BY DEF TellingOf, LogTrue
<1>3. s \notin blurred' \union unfed' => FeedTrue(s)'
  <2> SUFFICES ASSUME s \notin blurred', s \notin unfed', s \notin pauseIDs'
               PROVE  FeedTrue(s)'
    BY DEF FeedTrue
  <2>1. FeedTrue(s) /\ s \notin pauseIDs
    BY DEF TellingOf
  <2>2. (\A x \in Tellings(s)' : x.to = "feed" => ~TellsState(x)) =>
          FedLast(feed', s, StateTold, state'[s])
    BY <2>1 DEF FeedTrue
  <2>3. (\A x \in Tellings(s)' : x.to = "feed" => ~TellsStream(x)) =>
          FedLast(feed', s, StreamFed, stream'[s])
    BY <2>1 DEF FeedTrue
  <2>4. FeedTrue(s)' <=>
          (s \notin pauseIDs' =>
             /\ (\A x \in Tellings(s)' : x.to = "feed" => ~TellsState(x)) =>
                  FedLast(feed', s, StateTold, state'[s])
             /\ (\A x \in Tellings(s)' : x.to = "feed" => ~TellsStream(x)) =>
                  FedLast(feed', s, StreamFed, stream'[s]))
    BY DEF FeedTrue
  <2> QED BY <2>2, <2>3, <2>4
<1> QED BY <1>1, <1>2, <1>3 DEF TellingOf

LEMMA TellingBlurred ==
    ASSUME NEW s, s \in blurred'
    PROVE  TellingOf(s)'
  BY DEF TellingOf

\* Steps that reach neither the feed nor the log.
LEMMA TellingElsewhere ==
    ASSUME NEW s \in Sessions, TellingOf(s), Undisturbed(s), Tellings(s)' = Tellings(s),
           UNCHANGED <<feed, logVars>>
    PROVE  TellingOf(s)'
<1>1. Log' = Log
  BY LogUnchanged DEF logVars
<1> QED BY <1>1, TellingKept

\* A change is told with a feed entry and an audit event.
LEMMA ChangeTold ==
    ASSUME AuditInv, NEW r \in Requests, script[r] = <<>>, NEW s \in Sessions, NEW kind,
           Tells(r, <<Feed(kind, s), Audit(kind, s, 0)>>), NEW t
    PROVE  /\ t # s => Tellings(t)' = Tellings(t)
           /\ t = s => Tellings(t)' = Tellings(t) \union
                         (IF kind \in DOMAIN StateTold \union DOMAIN StreamFed
                            THEN {Feed(kind, s), Audit(kind, s, 0)} ELSE {})
<1> DEFINE items == <<Feed(kind, s), Audit(kind, s, 0)>>
<1>1. Range(items) = {Feed(kind, s), Audit(kind, s, 0)}
  BY RangeOfLists
<1>2. /\ Feed(kind, s).on = s /\ Feed(kind, s).kind = kind
      /\ Audit(kind, s, 0).on = s /\ Audit(kind, s, 0).kind = kind
  BY DEF Feed, Audit
<1>3. Pending(t)' = Pending(t) \union {x \in Range(items) : x.on = t}
  BY PendingAdds DEF Writers
<1> HIDE DEF items
<1>4. Tellings(t)' = {x \in Pending(t)' : TellsState(x) \/ TellsStream(x)}
  BY TellingsNext
<1> QED BY <1>1, <1>2, <1>3, <1>4 DEF Tellings, TellsState, TellsStream

LEMMA FreshlyTold ==
    ASSUME NEW s \in Sessions, NEW kind \in DOMAIN StateTold \intersect DOMAIN StreamTold,
           StateTold[kind] = state'[s], StreamTold[kind] = stream'[s],
           Tellings(s)' = {Feed(kind, s), Audit(kind, s, 0)},
           StopsOn(s)' = {}, s \notin pauseIDs'
    PROVE  TellingOf(s)'
<1>1. /\ Feed(kind, s).kind = kind /\ Feed(kind, s).to = "feed"
      /\ Audit(kind, s, 0).kind = kind /\ Audit(kind, s, 0).to = "audit"
  BY DEF Feed, Audit
<1>2. kind \in DOMAIN StreamFed /\ StreamFed[kind] = StreamTold[kind]
  BY KindTable
<1>3. ToldTrue(s)' /\ StopsAlone(s)' /\ PausedAlone(s)'
  BY <1>1, <1>2 DEF ToldTrue, StopsAlone, PausedAlone, TellsState, TellsStream
<1>4. LogTrue(s)'
  BY <1>1 DEF LogTrue, TellsState
<1>5. FeedTrue(s)'
  BY <1>1, <1>2 DEF FeedTrue, TellsState, TellsStream
<1> QED BY <1>3, <1>4, <1>5 DEF TellingOf

LEMMA CreateTells ==
    ASSUME AuditInv, NEW r \in Requests, NEW s \in Sessions, Create(r, s), TellingInv
    PROVE  TellingInv'
<1> DEFINE kind == "pipeline_created"
<1>1. /\ s \notin sessions /\ sessions' = sessions \union {s} /\ script[r] = <<>>
      /\ Tells(r, <<Feed(kind, s), Audit(kind, s, 0)>>)
      /\ UNCHANGED <<feed, state, stream, stopping, pauseIDs, logVars, blurred, unfed>>
  BY DEF Create, IdleRequest, passVars, historyVars
<1>2. /\ Tellings(s) = {} /\ StopsOn(s) = {} /\ s \notin pauseIDs
      /\ state[s] = "created" /\ stream[s] = FALSE
  BY <1>1, UnknownSession
<1>3. kind \in DOMAIN StateTold /\ kind \in DOMAIN StreamTold
      /\ StateTold[kind] = "created" /\ StreamTold[kind] = FALSE
  BY KindTable
<1> HIDE DEF kind
<1>4. TellingOf(s)'
  <2>1. Tellings(s)' = {Feed(kind, s), Audit(kind, s, 0)}
    BY <1>1, <1>2, <1>3, ChangeTold
  <2>2. StopsOn(s)' = {}
    BY <1>1, <1>2 DEF StopsOn
  <2> QED BY <1>1, <1>2, <1>3, <2>1, <2>2, FreshlyTold
<1>5. ASSUME NEW t \in sessions
      PROVE  TellingOf(t)'
  <2>1. t \in Sessions /\ t # s /\ TellingOf(t)
    BY <1>1 DEF TellingInv, AuditInv, AuditTypeOK, PlatformTypeOK
  <2>2. Tellings(t)' = Tellings(t)
    BY <1>1, <2>1, ChangeTold
  <2>3. Undisturbed(t)
    BY <1>1 DEF Undisturbed, StopsOn, logVars
  <2> QED BY <1>1, <2>1, <2>2, <2>3, TellingElsewhere
<1> QED BY <1>1, <1>4, <1>5 DEF TellingInv

LEMMA TransitionTells ==
    ASSUME AuditInv, NEW r \in Requests, NEW s \in Sessions, NEW from, NEW st, NEW active,
           NEW kind \in DOMAIN StateTold \intersect DOMAIN StreamTold,
           StateTold[kind] = st, StreamTold[kind] = active,
           Transition(r, s, from, st, active, kind), TellingInv
    PROVE  TellingInv'
<1>1. /\ s \in sessions /\ sessions' = sessions /\ script[r] = <<>>
      /\ state' = [state EXCEPT ![s] = st] /\ stream' = [stream EXCEPT ![s] = active]
      /\ Tells(r, <<Feed(kind, s), Audit(kind, s, 0)>>)
      /\ Clears(s)
      /\ UNCHANGED <<feed, stopping, pauseIDs, logVars>>
  BY DEF Transition, IdleRequest, Becomes, passVars
<1>2. state \in [Sessions -> States] /\ stream \in [Sessions -> BOOLEAN]
  BY DEF AuditInv, AuditTypeOK
<1>3. TellingOf(s)'
  <2>1. CASE Busy(s)
    BY <1>1, <2>1, TellingBlurred DEF Clears
  <2>2. CASE ~Busy(s)
    <3>1. Tellings(s) = {} /\ StopsOn(s) = {} /\ s \notin pauseIDs
      BY <2>2, IdleSession
    <3>2. Tellings(s)' = {Feed(kind, s), Audit(kind, s, 0)}
      BY <1>1, <3>1, ChangeTold
    <3>3. StopsOn(s)' = {}
      BY <1>1, <3>1 DEF StopsOn
    <3> QED BY <1>1, <1>2, <3>1, <3>2, <3>3, FreshlyTold
  <2> QED BY <2>1, <2>2
<1>4. ASSUME NEW t \in sessions, t # s
      PROVE  TellingOf(t)'
  <2>1. t \in Sessions /\ TellingOf(t)
    BY DEF TellingInv, AuditInv, AuditTypeOK, PlatformTypeOK
  <2>2. Tellings(t)' = Tellings(t)
    BY <1>1, <1>4, ChangeTold
  <2>3. Undisturbed(t)
    BY <1>1, <1>2, <1>4, <2>1 DEF Undisturbed, StopsOn, Clears, logVars
  <2> QED BY <1>1, <2>1, <2>2, <2>3, TellingElsewhere
<1> QED BY <1>1, <1>3, <1>4 DEF TellingInv

LEMMA NothingTold ==
    ASSUME AuditInv, NEW w \in Writers, script[w] = <<>>, NEW items, Tells(w, items),
           \A x \in Range(items) : ~TellsState(x) /\ ~TellsStream(x), NEW t
    PROVE  Tellings(t)' = Tellings(t)
<1>1. Pending(t)' = Pending(t) \union {x \in Range(items) : x.on = t}
  BY PendingAdds
<1>2. Tellings(t)' = {x \in Pending(t)' : TellsState(x) \/ TellsStream(x)}
  BY TellingsNext
<1> QED BY <1>1, <1>2 DEF Tellings

LEMMA OthersTold ==
    ASSUME AuditInv, NEW w \in Writers, script[w] = <<>>, NEW items, Tells(w, items),
           NEW s, \A x \in Range(items) : x.on = s, NEW t, t # s
    PROVE  Tellings(t)' = Tellings(t)
<1>1. Pending(t)' = Pending(t) \union {x \in Range(items) : x.on = t}
  BY PendingAdds
<1>2. Tellings(t)' = {x \in Pending(t)' : TellsState(x) \/ TellsStream(x)}
  BY TellingsNext
<1> QED BY <1>1, <1>2 DEF Tellings

LEMMA RemarkTells ==
    ASSUME AuditInv, NEW r \in Requests,
           (\E s \in Sessions : Reject(r, s) \/ Reconfigure(r, s)) \/ TopUp(r), TellingInv
    PROVE  TellingInv'
<1>1. /\ UNCHANGED <<sessionVars, feed, stopping, passVars, logVars, historyVars>>
      /\ script[r] = <<>> /\ r \in Writers
  BY DEF Reject, Reconfigure, TopUp, IdleRequest, Writers
<1>2. ASSUME NEW t
      PROVE  Tellings(t)' = Tellings(t)
  <2>1. ASSUME NEW s \in Sessions, Reject(r, s)
        PROVE  Tellings(t)' = Tellings(t)
    <3> DEFINE x == Audit("start_rejected_insufficient_prepaid", s, 0)
    <3>1. Range(<<x>>) = {x}
      BY RangeOfLists
    <3>2. ~TellsState(x) /\ ~TellsStream(x)
      BY KindTable DEF TellsState, TellsStream, Audit
    <3>3. Tells(r, <<x>>)
      BY <2>1 DEF Reject
    <3> HIDE DEF x
    <3> QED BY <1>1, <3>1, <3>2, <3>3, NothingTold
  <2>2. ASSUME NEW s \in Sessions, Reconfigure(r, s)
        PROVE  Tellings(t)' = Tellings(t)
    <3> DEFINE kind == "pipeline_reconfigured"
    <3>1. kind \notin DOMAIN StateTold /\ kind \notin DOMAIN StreamFed
      BY KindTable
    <3>2. Tells(r, <<Feed(kind, s), Audit(kind, s, 0)>>)
      BY <2>2 DEF Reconfigure
    <3> HIDE DEF kind
    <3> QED BY <1>1, <3>1, <3>2, ChangeTold
  <2>3. CASE TopUp(r)
    <3> DEFINE x == Audit("agent_top_up", NoSession, 0)
               y == Feed("agent_top_up", NoSession)
    <3>1. Range(<<x, y>>) = {x, y}
      BY RangeOfLists
    <3>2. ~TellsState(x) /\ ~TellsStream(x) /\ ~TellsState(y) /\ ~TellsStream(y)
      BY KindTable DEF TellsState, TellsStream, Audit, Feed
    <3>3. Tells(r, <<x, y>>)
      BY <2>3 DEF TopUp
    <3> HIDE DEF x, y
    <3> QED BY <1>1, <3>1, <3>2, <3>3, NothingTold
  <2> QED BY <2>1, <2>2, <2>3
<1>3. ASSUME NEW t \in sessions
      PROVE  TellingOf(t)'
  <2>1. t \in Sessions /\ TellingOf(t)
    BY DEF TellingInv, AuditInv, AuditTypeOK, PlatformTypeOK
  <2>2. Undisturbed(t)
    BY <1>1 DEF Undisturbed, StopsOn, sessionVars, passVars, logVars, historyVars
  <2> QED BY <1>1, <1>2, <2>1, <2>2, TellingElsewhere
<1> QED BY <1>1, <1>3 DEF TellingInv, sessionVars

LEMMA StopReadsTells ==
    ASSUME AuditInv, NEW r \in Requests, NEW s \in Sessions, StopReads(r, s), TellingInv
    PROVE  TellingInv'
<1> DEFINE read == [on |-> s, streamWasActive |-> stream[s]]
<1>1. /\ s \in sessions /\ stopping[r] = NoStop
      /\ stopping' = [stopping EXCEPT ![r] = read]
      /\ Blurs(s)
      /\ UNCHANGED <<sessions, state, stream, feed, script, pauseIDs, logVars, unfed>>
  BY DEF StopReads, IdleRequest, sessionVars, passVars
<1>2. /\ stopping'[r] = read /\ read.on = s /\ read.streamWasActive = stream[s]
      /\ \A q \in Requests : q # r => stopping'[q] = stopping[q]
  BY <1>1 DEF AuditInv, AuditTypeOK
<1> HIDE DEF read
<1>3. \A t : Tellings(t)' = Tellings(t)
  BY <1>1, PendingKept
<1>4. TellingOf(s)'
  <2>1. CASE Busy(s)
    BY <1>1, <2>1, TellingBlurred DEF Blurs
  <2>2. CASE ~Busy(s)
    <3>1. Tellings(s) = {} /\ StopsOn(s) = {} /\ s \notin pauseIDs
      BY <2>2, IdleSession
    <3>2. \A q \in StopsOn(s)' : q = r
      BY <1>2, <3>1 DEF StopsOn
    <3>3. TellingOf(s) /\ blurred' = blurred /\ Log' = Log
      BY <1>1, <2>2, LogUnchanged DEF TellingInv, Blurs, logVars
    <3>4. StopsAlone(s)' /\ ToldTrue(s)' /\ PausedAlone(s)'
      BY <1>1, <1>2, <1>3, <3>1, <3>2 DEF StopsAlone, ToldTrue, PausedAlone
    <3>5. LogTrue(s) => LogTrue(s)'
      BY <1>1, <1>3, <3>3 DEF LogTrue, TellsState
    <3>6. FeedTrue(s) => FeedTrue(s)'
      BY <1>1, <1>3 DEF FeedTrue, FedLast, TellsState, TellsStream
    <3> QED BY <1>1, <3>3, <3>4, <3>5, <3>6 DEF TellingOf, logVars
  <2> QED BY <2>1, <2>2
<1>5. ASSUME NEW t \in sessions, t # s
      PROVE  TellingOf(t)'
  <2>1. t \in Sessions /\ TellingOf(t)
    BY DEF TellingInv, AuditInv, AuditTypeOK, PlatformTypeOK
  <2>2. Undisturbed(t)
    BY <1>1, <1>2, <1>5 DEF Undisturbed, StopsOn, Blurs, logVars
  <2> QED BY <1>1, <1>3, <2>1, <2>2, TellingElsewhere
<1> QED BY <1>1, <1>4, <1>5 DEF TellingInv

LEMMA StopFailsTells ==
    ASSUME AuditInv, NEW r \in Requests, StopFails(r), TellingInv
    PROVE  TellingInv'
<1>1. /\ stopping' = [stopping EXCEPT ![r] = NoStop]
      /\ UNCHANGED <<sessions, state, stream, feed, script, pauseIDs, logVars, blurred, unfed>>
  BY DEF StopFails, sessionVars, passVars, historyVars
<1>2. \A q \in Requests : stopping'[q] = IF q = r THEN NoStop ELSE stopping[q]
  BY <1>1 DEF AuditInv, AuditTypeOK
<1>3. ASSUME NEW t \in sessions
      PROVE  TellingOf(t)'
  <2>1. t \in Sessions /\ TellingOf(t)
    BY DEF TellingInv, AuditInv, AuditTypeOK, PlatformTypeOK
  <2>2. Undisturbed(t)
    BY <1>1, <1>2 DEF Undisturbed, StopsOn, logVars
  <2>3. Tellings(t)' = Tellings(t)
    BY <1>1, PendingKept
  <2> QED BY <1>1, <2>1, <2>2, <2>3, TellingElsewhere
<1> QED BY <1>1, <1>3 DEF TellingInv

LEMMA StopCommitsTells ==
    ASSUME AuditInv, NEW r \in Requests, StopCommits(r), TellingInv
    PROVE  TellingInv'
<1>0. PICK s \in Sessions, active \in BOOLEAN :
        stopping[r].on = s /\ stopping[r].streamWasActive = active
  BY DEF StopCommits, AuditInv, AuditTypeOK
<1> DEFINE b == Feed("pipeline_stopped", s)
           c == Audit("pipeline_stopped", s, 0)
           a == Audit("payment_stream_terminated", s, 0)
<1>1. /\ stopping[r] # NoStop
      /\ state' = [state EXCEPT ![s] = "stopped"] /\ stream' = [stream EXCEPT ![s] = FALSE]
      /\ Tells(r, StopSays(s, active))
      /\ stopping' = [stopping EXCEPT ![r] = NoStop]
      /\ UNCHANGED <<sessions, feed, pauseIDs, logVars, blurred, unfed>>
  BY <1>0 DEF StopCommits, Becomes, passVars, historyVars
<1>2. /\ script[r] = <<>> /\ r \in Writers /\ s \in sessions /\ r \in StopsOn(s)
  BY <1>0, <1>1 DEF Writers, StopsOn, AuditInv, Stops
<1>3. /\ state \in [Sessions -> States] /\ stream \in [Sessions -> BOOLEAN]
      /\ \A q \in Requests : stopping'[q] = IF q = r THEN NoStop ELSE stopping[q]
  BY <1>1 DEF AuditInv, AuditTypeOK
<1>4. Range(StopSays(s, active)) = {b, c} \union (IF active THEN {a} ELSE {})
  BY <1>2, StopTells
<1>5. /\ b.on = s /\ b.kind = "pipeline_stopped" /\ b.to = "feed"
      /\ c.on = s /\ c.kind = "pipeline_stopped" /\ c.to = "audit"
      /\ a.on = s /\ a.kind = "payment_stream_terminated" /\ a.to = "audit"
  BY DEF Feed, Audit
<1>6. /\ \A x \in Range(StopSays(s, active)) : x.on = s
      /\ {x \in Range(StopSays(s, active)) : x.on = s} = Range(StopSays(s, active))
  BY <1>4, <1>5
<1> HIDE DEF a, b, c
<1>8. ASSUME s \notin blurred, s \in sessions
      PROVE  TellingOf(s)'
  <2>1. TellingOf(s)
    BY <1>8 DEF TellingInv
  <2>2. /\ Tellings(s) = {} /\ active = stream[s] /\ s \notin pauseIDs
        /\ \A q \in StopsOn(s) : q = r
    BY <1>0, <1>2, <1>8, <2>1 DEF TellingOf, StopsAlone
  <2>3. StopsOn(s)' = {}
    BY <1>3, <2>2 DEF StopsOn
  <2>4. Pending(s)' = Pending(s) \union Range(StopSays(s, active))
    BY <1>1, <1>2, <1>6, PendingAdds
  <2>5. Tellings(s)' = {b, c} \union (IF active THEN {a} ELSE {})
    <3>1. Tellings(s)' = {x \in Pending(s)' : TellsState(x) \/ TellsStream(x)}
      BY TellingsNext
    <3>2. /\ "pipeline_stopped" \in DOMAIN StateTold
          /\ "payment_stream_terminated" \in DOMAIN StreamFed
      BY KindTable
    <3>3. TellsState(b) /\ TellsState(c) /\ TellsStream(a)
      BY <1>5, <3>2 DEF TellsState, TellsStream
    <3> QED BY <1>4, <2>2, <2>4, <3>1, <3>3 DEF Tellings
  <2>6. /\ "pipeline_stopped" \in DOMAIN StateTold \intersect DOMAIN StreamFed
        /\ StateTold["pipeline_stopped"] = "stopped" /\ StreamFed["pipeline_stopped"] = FALSE
        /\ "payment_stream_terminated" \notin DOMAIN StateTold
        /\ "payment_stream_terminated" \in DOMAIN StreamTold
        /\ StreamFed["payment_stream_terminated"] = FALSE
    BY KindTable
  <2>7. state'[s] = "stopped" /\ stream'[s] = FALSE
    BY <1>1, <1>2, <1>3
  <2>8. ToldTrue(s)'
    BY <1>5, <2>5, <2>6, <2>7 DEF ToldTrue, TellsState, TellsStream
  <2>9. StopsAlone(s)' /\ PausedAlone(s)'
    BY <1>1, <2>2, <2>3 DEF StopsAlone, PausedAlone
  <2>10. FeedTrue(s)'
    BY <1>5, <2>5, <2>6 DEF FeedTrue, TellsState, TellsStream
  <2>11. s \notin gaps' => LogTrue(s)'
    <3> SUFFICES ASSUME s \notin gaps'
                 PROVE  LogTrue(s)'
      OBVIOUS
    <3>1. Log' = Log /\ LogTrue(s)
      BY <1>1, <1>8, <2>1, LogUnchanged DEF TellingOf, logVars
    <3>2. Log[s].stream = stream[s]
      BY <2>2, <3>1 DEF LogTrue
    <3>3. ~(\A x \in Tellings(s)' : x.to = "audit" => ~TellsState(x))
      BY <1>5, <2>5, <2>6 DEF TellsState
    <3>4. active => ~(\A x \in Tellings(s)' : x.to = "audit" => x.kind \notin DOMAIN StreamTold)
      BY <1>5, <2>5, <2>6
    <3> QED BY <2>2, <2>7, <3>1, <3>2, <3>3, <3>4 DEF LogTrue, TellsState
  <2> QED BY <2>8, <2>9, <2>10, <2>11 DEF TellingOf
<1>9. TellingOf(s)'
  <2>1. CASE s \in blurred
    BY <1>1, <2>1, TellingBlurred
  <2> QED BY <1>2, <1>8, <2>1
<1>10. ASSUME NEW t \in sessions, t # s
      PROVE  TellingOf(t)'
  <2>1. t \in Sessions /\ TellingOf(t)
    BY DEF TellingInv, AuditInv, AuditTypeOK, PlatformTypeOK
  <2>2. Tellings(t)' = Tellings(t)
    BY <1>1, <1>2, <1>6, <1>10, OthersTold
  <2>3. Undisturbed(t)
    BY <1>1, <1>3, <1>10, <2>1 DEF Undisturbed, StopsOn, logVars
  <2> QED BY <1>1, <2>1, <2>2, <2>3, TellingElsewhere
<1> QED BY <1>1, <1>9, <1>10 DEF TellingInv

LEMMA SetStreamTells ==
    ASSUME AuditInv, NEW r \in Requests, NEW s \in Sessions, NEW active \in BOOLEAN,
           SetStream(r, s, active), TellingInv
    PROVE  TellingInv'
<1> DEFINE kind == IF active THEN "payment_stream_started" ELSE "payment_stream_stalled"
           b == Feed(kind, s)
           c == Audit(kind, s, 0)
<1>1. /\ s \in sessions /\ sessions' = sessions /\ script[r] = <<>> /\ state[s] = "running"
      /\ state' = [state EXCEPT ![s] = "running"] /\ stream' = [stream EXCEPT ![s] = active]
      /\ Tells(r, <<Feed(kind, s), Audit(kind, s, 0)>>)
      /\ Blurs(s)
      /\ UNCHANGED <<feed, stopping, pauseIDs, logVars, unfed>>
  BY DEF SetStream, IdleRequest, Becomes, passVars
<1>2. state \in [Sessions -> States] /\ stream \in [Sessions -> BOOLEAN]
  BY DEF AuditInv, AuditTypeOK
<1>3. /\ kind \in DOMAIN StreamTold /\ kind \in DOMAIN StreamFed /\ kind \notin DOMAIN StateTold
      /\ StreamFed[kind] = active
  BY KindTable
<1>4. /\ b.on = s /\ b.kind = kind /\ b.to = "feed"
      /\ c.on = s /\ c.kind = kind /\ c.to = "audit"
  BY DEF Feed, Audit
<1>5. b = Feed(kind, s) /\ c = Audit(kind, s, 0)
  OBVIOUS
<1> HIDE DEF kind, b, c
<1>6. state' = state /\ stream'[s] = active /\ \A t \in Sessions : t # s => stream'[t] = stream[t]
  BY <1>1, <1>2
<1>7. TellingOf(s)'
  <2>1. CASE Busy(s)
    BY <1>1, <2>1, TellingBlurred DEF Blurs
  <2>2. CASE ~Busy(s)
    <3>1. Tellings(s) = {} /\ StopsOn(s) = {} /\ s \notin pauseIDs
      BY <2>2, IdleSession
    <3>2. Tellings(s)' = {b, c}
      BY <1>1, <1>3, <1>5, <3>1, ChangeTold
    <3>3. StopsOn(s)' = {}
      BY <1>1, <3>1 DEF StopsOn
    <3>4. TellingOf(s) /\ blurred' = blurred /\ Log' = Log
      BY <1>1, <2>2, LogUnchanged DEF TellingInv, Blurs, logVars
    <3>5. ToldTrue(s)' /\ StopsAlone(s)' /\ PausedAlone(s)'
      BY <1>1, <1>3, <1>4, <1>6, <3>1, <3>2, <3>3
         DEF ToldTrue, StopsAlone, PausedAlone, TellsState, TellsStream
    <3>6. LogTrue(s) => LogTrue(s)'
      BY <1>3, <1>4, <1>6, <3>1, <3>2, <3>4 DEF LogTrue
    <3>7. FeedTrue(s) => FeedTrue(s)'
      BY <1>1, <1>3, <1>4, <1>6, <3>1, <3>2 DEF FeedTrue, FedLast, TellsStream
    <3> QED BY <1>1, <3>4, <3>5, <3>6, <3>7 DEF TellingOf, logVars
  <2> QED BY <2>1, <2>2
<1>8. ASSUME NEW t \in sessions, t # s
      PROVE  TellingOf(t)'
  <2>1. t \in Sessions /\ TellingOf(t)
    BY DEF TellingInv, AuditInv, AuditTypeOK, PlatformTypeOK
  <2>2. Tellings(t)' = Tellings(t)
    BY <1>1, <1>8, ChangeTold
  <2>3. Undisturbed(t)
    BY <1>1, <1>6, <1>8, <2>1 DEF Undisturbed, StopsOn, Blurs, logVars
  <2> QED BY <1>1, <2>1, <2>2, <2>3, TellingElsewhere
<1> QED BY <1>1, <1>7, <1>8 DEF TellingInv

\* A new entry of the feed, and what the feed tells of session t with it.
LEMMA FeedRecords ==
    ASSUME AuditInv, NEW kind \in Kinds, NEW s \in Sessions \union {NoSession}, Record(kind, s),
           NEW t, NEW says
    PROVE  /\ s = t /\ kind \in DOMAIN says => FedLast(feed', t, says, says[kind])
           /\ ~(s = t /\ kind \in DOMAIN says) =>
                \A v : FedLast(feed, t, says, v) => FedLast(feed', t, says, v)
<1> DEFINE e == [kind |-> kind, on |-> s]
<1>1. e \in Entry /\ e.kind = kind /\ e.on = s
  BY DEF Entry
<1>2. feed \in Seq(Entry) /\ MaxEntries \in Nat \ {0}
  BY EventInboxAssumption DEF EventInboxAssumption, AuditInv, AuditTypeOK, PlatformTypeOK
<1>3. feed' = Recent(Append(feed, e), MaxEntries)
  BY DEF Record
<1> HIDE DEF e
<1> QED BY <1>1, <1>2, <1>3, RecordedFed

LEMMA PassVisitsTells ==
    ASSUME AuditInv, PassBegins \/ \E s \in Sessions : PassSkips(s) \/ PassCharges(s), TellingInv
    PROVE  TellingInv'
<1>1. /\ UNCHANGED <<sessions, state, stream, feed, stopping, pauseIDs, logVars, blurred, unfed>>
  BY DEF PassBegins, PassSkips, PassCharges, sessionVars, historyVars
<1>2. ASSUME NEW t
      PROVE  Tellings(t)' = Tellings(t)
  <2>1. CASE UNCHANGED script
    BY <2>1, PendingKept
  <2>2. ASSUME NEW s \in Sessions, PassCharges(s), ~UNCHANGED script
        PROVE  Tellings(t)' = Tellings(t)
    <3> DEFINE x == Audit("billing_summary", s, SummaryUnits(s))
    <3>1. Range(<<x>>) = {x}
      BY RangeOfLists
    <3>2. ~TellsState(x) /\ ~TellsStream(x)
      BY KindTable DEF TellsState, TellsStream, Audit
    <3>3. Tells(Ticker, <<x>>) /\ script[Ticker] = <<>> /\ Ticker \in Writers
      BY <2>2 DEF PassCharges, Visits, Writers
    <3> HIDE DEF x
    <3> QED BY <3>1, <3>2, <3>3, NothingTold
  <2> QED BY <2>1, <2>2 DEF PassBegins, PassSkips
<1>3. ASSUME NEW t \in sessions
      PROVE  TellingOf(t)'
  <2>1. t \in Sessions /\ TellingOf(t)
    BY DEF TellingInv, AuditInv, AuditTypeOK, PlatformTypeOK
  <2>2. Undisturbed(t)
    BY <1>1 DEF Undisturbed, StopsOn, logVars
  <2> QED BY <1>1, <1>2, <2>1, <2>2, TellingElsewhere
<1> QED BY <1>1, <1>3 DEF TellingInv

LEMMA PassPausesTells ==
    ASSUME AuditInv, NEW s \in Sessions, PassPauses(s), TellingInv
    PROVE  TellingInv'
<1> DEFINE kind == "pipeline_paused"
           c == Audit(kind, s, 0)
<1>1. /\ s \in sessions /\ sessions' = sessions /\ script[Ticker] = <<>> /\ Ticker \in Writers
      /\ state' = [state EXCEPT ![s] = "paused"] /\ stream' = [stream EXCEPT ![s] = FALSE]
      /\ Tells(Ticker, <<c>>) /\ Blurs(s)
      /\ pauseIDs' = pauseIDs \union {s}
      /\ UNCHANGED <<feed, stopping, logVars, unfed>>
  BY DEF PassPauses, Visits, Becomes, Writers, AuditInv, AuditTypeOK
<1>2. state \in [Sessions -> States] /\ stream \in [Sessions -> BOOLEAN]
  BY DEF AuditInv, AuditTypeOK
<1>3. /\ kind \in DOMAIN StateTold /\ kind \in DOMAIN StreamTold /\ kind \in DOMAIN StreamFed
      /\ StateTold[kind] = "paused" /\ StreamFed[kind] = FALSE
  BY KindTable
<1>4. c.on = s /\ c.kind = kind /\ c.to = "audit" /\ Range(<<c>>) = {c}
  BY RangeOfLists DEF Audit
<1> HIDE DEF c, kind
<1>5. /\ state'[s] = "paused" /\ stream'[s] = FALSE
      /\ \A t \in Sessions : t # s => state'[t] = state[t] /\ stream'[t] = stream[t]
  BY <1>1, <1>2
<1>6. TellingOf(s)'
  <2>1. CASE Busy(s)
    BY <1>1, <2>1, TellingBlurred DEF Blurs
  <2>2. CASE ~Busy(s)
    <3>1. Tellings(s) = {} /\ Pending(s) = {} /\ StopsOn(s) = {}
      BY <2>2, IdleSession
    <3>2. Pending(s)' = Pending(s) \union {x \in Range(<<c>>) : x.on = s}
      BY <1>1, PendingAdds
    <3>3. Tellings(s)' = {c}
      BY <1>3, <1>4, <3>1, <3>2, TellingsNext DEF TellsState
    <3>4. StopsOn(s)' = {}
      BY <1>1, <3>1 DEF StopsOn
    <3>5. ToldTrue(s)' /\ StopsAlone(s)' /\ PausedAlone(s)'
      BY <1>3, <1>4, <1>5, <3>3, <3>4 DEF ToldTrue, StopsAlone, PausedAlone, TellsState, TellsStream
    <3>6. LogTrue(s)' /\ FeedTrue(s)'
      BY <1>1, <1>3, <1>4, <3>3 DEF LogTrue, FeedTrue, TellsState
    <3> QED BY <3>5, <3>6 DEF TellingOf
  <2> QED BY <2>1, <2>2
<1>7. ASSUME NEW t \in sessions, t # s
      PROVE  TellingOf(t)'
  <2>1. t \in Sessions /\ TellingOf(t)
    BY DEF TellingInv, AuditInv, AuditTypeOK, PlatformTypeOK
  <2>2. Tellings(t)' = Tellings(t)
    BY <1>1, <1>4, <1>7, OthersTold
  <2>3. Undisturbed(t)
    BY <1>1, <1>5, <1>7, <2>1 DEF Undisturbed, StopsOn, Blurs, logVars
  <2> QED BY <1>1, <2>1, <2>2, <2>3, TellingElsewhere
<1> QED BY <1>1, <1>6, <1>7 DEF TellingInv

LEMMA PassPausedEgressTells ==
    ASSUME AuditInv, NEW s \in Sessions, PassPausedEgress(s), TellingInv
    PROVE  TellingInv'
<1> DEFINE kind == "pipeline_paused"
<1>1. /\ s \in pauseIDs /\ pauseIDs' = pauseIDs \ {s}
      /\ Record(kind, s)
      /\ UNCHANGED <<sessions, state, stream, stopping, script, logVars, blurred, unfed>>
  BY DEF PassPausedEgress, PauseFed, sessionVars, historyVars
<1>2. /\ kind \in Kinds /\ kind \in DOMAIN StateTold /\ kind \in DOMAIN StreamFed
      /\ StateTold[kind] = "paused" /\ StreamFed[kind] = FALSE
  BY KindTable DEF Kinds
<1> HIDE DEF kind
<1>3. Log' = Log /\ \A t : Tellings(t)' = Tellings(t)
  BY <1>1, LogUnchanged, PendingKept DEF logVars
<1>4. ASSUME s \in sessions
      PROVE  TellingOf(s)'
  <2>1. TellingOf(s)
    BY <1>4 DEF TellingInv
  <2>2. FedLast(feed', s, StateTold, "paused") /\ FedLast(feed', s, StreamFed, FALSE)
    <3>1. \A says : kind \in DOMAIN says => FedLast(feed', s, says, says[kind])
      BY <1>1, <1>2, FeedRecords
    <3> QED BY <1>2, <3>1
  <2>3. ASSUME s \notin blurred
        PROVE  ToldTrue(s)' /\ StopsAlone(s)' /\ PausedAlone(s)' /\ FeedTrue(s)'
    <3>1. ToldTrue(s) /\ StopsAlone(s) /\ state[s] = "paused" /\ stream[s] = FALSE
      BY <1>1, <2>1, <2>3 DEF TellingOf, PausedAlone
    <3>2. ToldTrue(s)'
      BY <1>1, <1>3, <3>1 DEF ToldTrue, TellsState, TellsStream
    <3>3. StopsOn(s) = {} /\ StopsOn(s)' = {}
      BY <1>1, <3>1 DEF StopsAlone, StopsOn
    <3>4. StopsAlone(s)' /\ PausedAlone(s)'
      BY <1>1, <3>1, <3>3 DEF StopsAlone, PausedAlone
    <3>5. FeedTrue(s)'
      BY <1>1, <2>2, <3>1 DEF FeedTrue
    <3> QED BY <3>2, <3>4, <3>5
  <2>4. LogTrue(s) => LogTrue(s)'
    BY <1>1, <1>3 DEF LogTrue, TellsState
  <2> QED BY <1>1, <2>1, <2>3, <2>4 DEF TellingOf, logVars
<1>5. ASSUME NEW t \in sessions, t # s
      PROVE  TellingOf(t)'
  <2>1. t \in Sessions /\ TellingOf(t)
    BY DEF TellingInv, AuditInv, AuditTypeOK, PlatformTypeOK
  <2>2. \A says, v : FedLast(feed, t, says, v) => FedLast(feed', t, says, v)
    BY <1>1, <1>2, <1>5, FeedRecords
  <2>3. Undisturbed(t)
    BY <1>1, <1>5 DEF Undisturbed, StopsOn, logVars
  <2> QED BY <1>3, <2>1, <2>2, <2>3, TellingKept
<1> QED BY <1>1, <1>4, <1>5 DEF TellingInv

LEMMA PassPauseEgressFailsTells ==
    ASSUME AuditInv, NEW s \in Sessions, PassPauseEgressFails(s), TellingInv
    PROVE  TellingInv'
<1>1. /\ s \in pauseIDs /\ pauseIDs' = pauseIDs \ {s} /\ unfed' = unfed \union {s}
      /\ UNCHANGED <<sessions, state, stream, stopping, script, feed, logVars, blurred>>
  BY DEF PassPauseEgressFails, sessionVars
<1>2. Log' = Log /\ \A t : Tellings(t)' = Tellings(t)
  BY <1>1, LogUnchanged, PendingKept DEF logVars
<1>3. ASSUME s \in sessions
      PROVE  TellingOf(s)'
  <2>1. TellingOf(s)
    BY <1>3 DEF TellingInv
  <2>2. ToldTrue(s) => ToldTrue(s)'
    BY <1>1, <1>2 DEF ToldTrue, TellsState, TellsStream
  <2>3. StopsAlone(s) /\ PausedAlone(s) => StopsAlone(s)' /\ PausedAlone(s)'
    BY <1>1, <1>2 DEF StopsAlone, PausedAlone, StopsOn
  <2>4. LogTrue(s) => LogTrue(s)'
    BY <1>1, <1>2 DEF LogTrue, TellsState
  <2> QED BY <1>1, <2>1, <2>2, <2>3, <2>4 DEF TellingOf, logVars
<1>4. ASSUME NEW t \in sessions, t # s
      PROVE  TellingOf(t)'
  <2>1. t \in Sessions /\ TellingOf(t)
    BY DEF TellingInv, AuditInv, AuditTypeOK, PlatformTypeOK
  <2>2. Undisturbed(t)
    BY <1>1, <1>4 DEF Undisturbed, StopsOn, logVars
  <2> QED BY <1>1, <1>2, <2>1, <2>2, TellingElsewhere
<1> QED BY <1>1, <1>3, <1>4 DEF TellingInv

\* An event that is enqueued says what it says of its session, unless it is lost.
LEMMA EnqueueTells ==
    ASSUME AuditInv, NEW e \in Event, e.on \in sessions \union {NoSession}, Enqueue(e),
           UNCHANGED <<topic, inHand>>, NEW t \in Sessions
    PROVE  /\ t \in gaps => t \in gaps'
           /\ e.on # t => Log'[t] = Log[t] /\ (t \in gaps' => t \in gaps)
           /\ e.on = t /\ t \notin gaps' =>
                /\ Log'[t].state = Told(StateTold, e, Log[t].state)
                /\ Log'[t].stream = Told(StreamTold, e, Log[t].stream)
<1>1. LogsTyped /\ Log \in Logs
  BY LogsAreTyped, LogType
<1>2. CASE Len(queue) < QueueSize
  <2>1. queue' = Append(queue, e) /\ gaps' = gaps
    BY <1>2 DEF Enqueue
  <2>2. Log' = Heard(Log, e)
    BY <1>1, <2>1, LogAppends
  <2> QED BY <1>1, <2>1, <2>2, HeardValues
<1>3. CASE ~(Len(queue) < QueueSize)
  <2>1. Loses(e) /\ queue' = queue
    BY <1>3 DEF Enqueue
  <2>2. Log' = Log
    BY <2>1, LogUnchanged
  <2>3. NoSession # t
    BY AuditTrailAssumption DEF AuditTrailAssumption
  <2>4. gaps' = gaps \union ({e.on} \ {NoSession})
    BY <2>1 DEF Loses
  <2> QED BY <2>2, <2>3, <2>4
<1> QED BY <1>2, <1>3

LEMMA TellsNextTells ==
    ASSUME AuditInv, NEW w \in Writers, TellsNext(w), TellingInv
    PROVE  TellingInv'
<1>1. PICK item : item = Head(script[w])
  OBVIOUS
<1>2. /\ script[w] # <<>>
      /\ UNCHANGED <<sessions, state, stream, stopping, pauseIDs, inHand, topic, blurred, unfed>>
      /\ item.to = "feed" => Record(item.kind, item.on) /\ UNCHANGED <<queue, gaps>>
      /\ item.to # "feed" => Enqueue(EventOf(item)) /\ UNCHANGED feed
  BY <1>1 DEF TellsNext, sessionVars, passVars, historyVars
<1>3. /\ item \in Item /\ ItemOK(w, item)
      /\ item.on \in sessions \union {NoSession} /\ item.on \in Sessions \union {NoSession}
      /\ EventOf(item) \in Event
  BY <1>1, <1>2, NextItem
<1>4. EventOf(item).on = item.on /\ EventOf(item).kind = item.kind
  BY DEF EventOf
<1>5. \A t : /\ Pending(t)' \subseteq Pending(t)
             /\ Pending(t) \subseteq Pending(t)' \union {item}
             /\ item.on = t => item \in Pending(t)
  BY <1>1, PendingShrinks
<1>6. item.to \in {"feed", "audit"} /\ (item.to = "feed" => item.kind \in Kinds)
  BY <1>3 DEF Item, ItemOK
<1>7. \A t : Tellings(t)' = {x \in Pending(t)' : TellsState(x) \/ TellsStream(x)}
  BY TellingsNext
<1>8. \A t \in Sessions : /\ t \in gaps => t \in gaps'
                          /\ item.to = "feed" => Log' = Log /\ gaps' = gaps
  <2>1. item.to = "feed" => Log' = Log /\ gaps' = gaps
    BY <1>2, LogUnchanged
  <2> QED BY <1>2, <1>3, <1>4, <2>1, EnqueueTells
<1>9. ASSUME NEW t \in sessions, item.on = t
      PROVE  TellingOf(t)'
  <2>1. t \in Sessions /\ TellingOf(t)
    BY DEF TellingInv, AuditInv, AuditTypeOK, PlatformTypeOK
  <2>2. /\ Tellings(t)' \subseteq Tellings(t)
        /\ Tellings(t) \subseteq Tellings(t)' \union {item}
        /\ TellsState(item) \/ TellsStream(item) => item \in Tellings(t)
    BY <1>5, <1>7, <1>9 DEF Tellings
  <2>3. SUFFICES ASSUME t \notin blurred
                 PROVE  TellingOf(t)'
    BY <1>2, TellingBlurred
  <2>4. ToldTrue(t) /\ StopsAlone(t) /\ PausedAlone(t)
    BY <2>1, <2>3 DEF TellingOf
  <2>5. ToldTrue(t)'
    BY <1>2, <2>2, <2>4 DEF ToldTrue, TellsState, TellsStream
  <2>6. StopsAlone(t)' /\ PausedAlone(t)'
    BY <1>2, <2>2, <2>4 DEF StopsAlone, PausedAlone, StopsOn
  <2>7. /\ TellsState(item) => StateTold[item.kind] = state[t]
        /\ TellsStream(item) => StreamFed[item.kind] = stream[t]
    BY <2>2, <2>4 DEF ToldTrue
  <2>8. ASSUME t \notin gaps'
        PROVE  LogTrue(t)'
    <3>1. LogTrue(t)
      BY <1>8, <2>1, <2>3, <2>8 DEF TellingOf
    <3>2. CASE item.to = "feed"
      <4>1. /\ (\A x \in Tellings(t)' : x.to = "audit" => ~TellsState(x)) =>
                 (\A x \in Tellings(t) : x.to = "audit" => ~TellsState(x))
            /\ (\A x \in Tellings(t)' : x.to = "audit" => x.kind \notin DOMAIN StreamTold) =>
                 (\A x \in Tellings(t) : x.to = "audit" => x.kind \notin DOMAIN StreamTold)
        BY <2>2, <3>2
      <4>2. Log' = Log
        BY <1>8, <2>1, <3>2
      <4> QED BY <1>2, <3>1, <4>1, <4>2 DEF LogTrue, TellsState
    <3>3. CASE item.to = "audit"
      <4>1. /\ Log'[t].state = Told(StateTold, EventOf(item), Log[t].state)
            /\ Log'[t].stream = Told(StreamTold, EventOf(item), Log[t].stream)
        BY <1>2, <1>3, <1>4, <1>9, <2>1, <2>8, <3>3, EnqueueTells
      <4>2. ASSUME \A x \in Tellings(t)' : x.to = "audit" => ~TellsState(x)
            PROVE  Log'[t].state = state[t]
        <5>1. CASE TellsState(item)
          BY <1>4, <2>7, <4>1, <5>1 DEF Told, TellsState
        <5>2. CASE ~TellsState(item)
          <6>1. \A x \in Tellings(t) : x.to = "audit" => ~TellsState(x)
            BY <2>2, <4>2, <5>2
          <6> QED BY <1>4, <3>1, <4>1, <5>2, <6>1 DEF Told, TellsState, LogTrue
        <5> QED BY <5>1, <5>2
      <4>3. ASSUME \A x \in Tellings(t)' : x.to = "audit" => x.kind \notin DOMAIN StreamTold
            PROVE  Log'[t].stream = stream[t]
        <5>1. CASE item.kind \in DOMAIN StreamTold
          <6>1. TellsStream(item) /\ StreamFed[item.kind] = StreamTold[item.kind]
            BY <5>1, KindTable DEF TellsStream
          <6> QED BY <1>4, <2>7, <4>1, <5>1, <6>1 DEF Told
        <5>2. CASE item.kind \notin DOMAIN StreamTold
          <6>1. \A x \in Tellings(t) : x.to = "audit" => x.kind \notin DOMAIN StreamTold
            BY <2>2, <4>3, <5>2
          <6> QED BY <1>4, <3>1, <4>1, <5>2, <6>1 DEF Told, LogTrue
        <5> QED BY <5>1, <5>2
      <4> QED BY <1>2, <4>2, <4>3 DEF LogTrue, TellsState
    <3> QED BY <1>6, <3>2, <3>3
  <2>9. ASSUME t \notin unfed, t \notin pauseIDs
        PROVE  FeedTrue(t)'
    <3>1. FeedTrue(t)
      BY <2>1, <2>3, <2>9 DEF TellingOf
    <3>2. CASE item.to = "audit"
      <4>1. /\ (\A x \in Tellings(t)' : x.to = "feed" => ~TellsState(x)) =>
                 (\A x \in Tellings(t) : x.to = "feed" => ~TellsState(x))
            /\ (\A x \in Tellings(t)' : x.to = "feed" => ~TellsStream(x)) =>
                 (\A x \in Tellings(t) : x.to = "feed" => ~TellsStream(x))
        BY <2>2, <3>2
      <4>2. feed' = feed
        BY <1>2, <3>2
      <4> QED BY <1>2, <3>1, <4>1, <4>2 DEF FeedTrue, FedLast, TellsState, TellsStream
    <3>3. CASE item.to = "feed"
      <4>1. Record(item.kind, item.on) /\ item.kind \in Kinds
        BY <1>2, <1>6, <3>3
      <4>2. \A says : /\ item.kind \in DOMAIN says => FedLast(feed', t, says, says[item.kind])
                      /\ item.kind \notin DOMAIN says =>
                           \A v : FedLast(feed, t, says, v) => FedLast(feed', t, says, v)
        BY <1>3, <1>9, <4>1, FeedRecords
      <4>3. ASSUME \A x \in Tellings(t)' : x.to = "feed" => ~TellsState(x)
            PROVE  FedLast(feed', t, StateTold, state[t])
        <5>1. CASE TellsState(item)
          BY <2>7, <4>2, <5>1 DEF TellsState
        <5>2. CASE ~TellsState(item)
          <6>1. \A x \in Tellings(t) : x.to = "feed" => ~TellsState(x)
            BY <2>2, <4>3, <5>2
          <6> QED BY <2>9, <3>1, <4>2, <5>2, <6>1 DEF TellsState, FeedTrue
        <5> QED BY <5>1, <5>2
      <4>4. ASSUME \A x \in Tellings(t)' : x.to = "feed" => ~TellsStream(x)
            PROVE  FedLast(feed', t, StreamFed, stream[t])
        <5>1. CASE TellsStream(item)
          BY <2>7, <4>2, <5>1 DEF TellsStream
        <5>2. CASE ~TellsStream(item)
          <6>1. \A x \in Tellings(t) : x.to = "feed" => ~TellsStream(x)
            BY <2>2, <4>4, <5>2
          <6> QED BY <2>9, <3>1, <4>2, <5>2, <6>1 DEF TellsStream, FeedTrue
        <5> QED BY <5>1, <5>2
      <4> QED BY <1>2, <4>3, <4>4 DEF FeedTrue, TellsState, TellsStream
    <3> QED BY <1>6, <3>2, <3>3
  <2> QED BY <1>2, <2>5, <2>6, <2>8, <2>9 DEF TellingOf, FeedTrue
<1>10. ASSUME NEW t \in sessions, item.on # t
       PROVE  TellingOf(t)'
  <2>1. t \in Sessions /\ TellingOf(t)
    BY DEF TellingInv, AuditInv, AuditTypeOK, PlatformTypeOK
  <2>2. Tellings(t)' = Tellings(t)
    <3>1. item \notin Pending(t)
      BY <1>10 DEF Pending
    <3>2. Pending(t)' = Pending(t)
      BY <1>5, <3>1
    <3> QED BY <1>7, <3>2 DEF Tellings
  <2>3. Log'[t] = Log[t]
    BY <1>2, <1>3, <1>4, <1>6, <1>8, <1>10, <2>1, EnqueueTells
  <2>4. \A says, v : FedLast(feed, t, says, v) => FedLast(feed', t, says, v)
    <3>1. CASE item.to = "audit"
      BY <1>2, <3>1
    <3>2. CASE item.to = "feed"
      BY <1>2, <1>3, <1>6, <1>10, <3>2, FeedRecords
    <3> QED BY <1>6, <3>1, <3>2
  <2>5. Undisturbed(t)
    BY <1>2, <1>8, <2>1 DEF Undisturbed, StopsOn
  <2> QED BY <2>1, <2>2, <2>3, <2>4, <2>5, TellingKept
<1> QED BY <1>2, <1>9, <1>10 DEF TellingInv

LEMMA SubmitsTells ==
    ASSUME AuditInv, SubmitTakes \/ SubmitLands \/ SubmitFails, TellingInv
    PROVE  TellingInv'
<1>1. UNCHANGED <<sessions, state, stream, stopping, script, pauseIDs, feed, blurred, unfed>>
  BY DEF SubmitTakes, SubmitLands, SubmitFails, sessionVars, passVars, historyVars
<1>2. LogsTyped
  BY LogsAreTyped
<1>3. \A t : Tellings(t)' = Tellings(t)
  BY <1>1, PendingKept
<1>4. ASSUME NEW t \in sessions
      PROVE  TellingOf(t)'
  <2>1. t \in Sessions /\ TellingOf(t) /\ t # NoSession
    BY AuditTrailAssumption
       DEF AuditTrailAssumption, TellingInv, AuditInv, AuditTypeOK, PlatformTypeOK
  <2>2. t \in gaps => t \in gaps'
    BY DEF SubmitTakes, SubmitLands, SubmitFails, Loses
  <2>3. Undisturbed(t)
    BY <1>1, <2>2 DEF Undisturbed, StopsOn
  <2>4. CASE Log'[t] = Log[t]
    BY <1>1, <1>3, <2>1, <2>3, <2>4, TellingKept
  <2>5. CASE Log'[t] # Log[t]
    <3>1. SubmitFails
      BY <1>2, <2>5, LogTakes, LogLands
    <3>2. Head(inHand).on = t
      BY <1>2, <2>1, <2>5, <3>1, LogFails
    <3>3. t \in gaps'
      BY <2>1, <3>1, <3>2 DEF SubmitFails, Loses
    <3>4. ToldTrue(t) => ToldTrue(t)'
      BY <1>1, <1>3 DEF ToldTrue, TellsState, TellsStream
    <3>5. StopsAlone(t) /\ PausedAlone(t) => StopsAlone(t)' /\ PausedAlone(t)'
      BY <1>1, <1>3 DEF StopsAlone, PausedAlone, StopsOn
    <3>6. FeedTrue(t) => FeedTrue(t)'
      BY <1>1, <1>3 DEF FeedTrue, FedLast, TellsState, TellsStream
    <3> QED BY <1>1, <2>1, <3>3, <3>4, <3>5, <3>6 DEF TellingOf
  <2> QED BY <2>4, <2>5
<1> QED BY <1>1, <1>4 DEF TellingInv

LEMMA InboxNextTells ==
    ASSUME AuditInv, InboxInv, InboxNext, UNCHANGED auditVars, TellingInv
    PROVE  TellingInv'
<1>1. /\ UNCHANGED <<sessions, state, stream, stopping, script, pauseIDs, logVars, blurred, unfed>>
      /\ feed' = feed \/ \E s \in Sessions : Record("naryo_event", s)
  BY InboxNextFrame DEF auditVars, passVars, historyVars
<1>2. Log' = Log /\ \A t : Tellings(t)' = Tellings(t)
  BY <1>1, LogUnchanged, PendingKept DEF logVars
<1>3. ASSUME NEW t \in sessions
      PROVE  TellingOf(t)'
  <2>1. t \in Sessions /\ TellingOf(t)
    BY DEF TellingInv, AuditInv, AuditTypeOK, PlatformTypeOK
  <2>2. Undisturbed(t)
    BY <1>1 DEF Undisturbed, StopsOn, logVars
  <2>3. \A says \in {StateTold, StreamFed} :
          \A v : FedLast(feed, t, says, v) => FedLast(feed', t, says, v)
    <3>1. "naryo_event" \in Kinds /\ "naryo_event" \notin DOMAIN StateTold \union DOMAIN StreamFed
      BY KindTable DEF Kinds
    <3> QED BY <1>1, <3>1, FeedRecords
  <2> QED BY <1>2, <2>1, <2>2, <2>3, TellingKept
<1> QED BY <1>1, <1>3 DEF TellingInv

LEMMA AuditNextTells ==
    ASSUME AuditInv, AuditNext, TellingInv
    PROVE  TellingInv'
<1>1. CASE \E r \in Requests : StopCommits(r) \/ StopFails(r)
  BY <1>1, StopCommitsTells, StopFailsTells
<1>2. CASE \/ \E r \in Requests : TopUp(r)
           \/ \E r \in Requests, s \in Sessions : Reject(r, s) \/ Reconfigure(r, s)
  BY <1>2, RemarkTells
<1>3. CASE \E r \in Requests, s \in Sessions : Create(r, s) \/ StopReads(r, s)
  BY <1>3, CreateTells, StopReadsTells
<1>4. CASE \E r \in Requests, s \in Sessions : Start(r, s) \/ Pause(r, s) \/ Resume(r, s)
  <2>1. /\ {"pipeline_started", "pipeline_paused", "pipeline_resumed"} \subseteq
             DOMAIN StateTold \intersect DOMAIN StreamTold
        /\ StateTold["pipeline_started"] = "running" /\ StreamTold["pipeline_started"] = TRUE
        /\ StateTold["pipeline_paused"] = "paused" /\ StreamTold["pipeline_paused"] = FALSE
        /\ StateTold["pipeline_resumed"] = "running" /\ StreamTold["pipeline_resumed"] = TRUE
    BY KindTable
  <2> QED BY <1>4, <2>1, TransitionTells DEF Start, Pause, Resume
<1>5. CASE \E r \in Requests, s \in Sessions, active \in BOOLEAN : SetStream(r, s, active)
  BY <1>5, SetStreamTells
<1>6. CASE PassBegins \/ \E s \in Sessions : PassSkips(s) \/ PassCharges(s)
  BY <1>6, PassVisitsTells
<1>7. CASE \E s \in Sessions : PassPauses(s) \/ PassPausedEgress(s) \/ PassPauseEgressFails(s)
  BY <1>7, PassPausesTells, PassPausedEgressTells, PassPauseEgressFailsTells
<1>8. CASE \E w \in Writers : TellsNext(w)
  BY <1>8, TellsNextTells
<1>9. CASE SubmitTakes \/ SubmitLands \/ SubmitFails
  BY <1>9, SubmitsTells
<1> QED BY <1>1, <1>2, <1>3, <1>4, <1>5, <1>6, <1>7, <1>8, <1>9 DEF AuditNext

\* What each session's entries and events, told, on their way and still to be
\* told, come to: the inductive invariant of the next two theorems.
THEOREM TellingInvariant == Spec => []TellingInv
<1>1. Init => TellingInv
  BY DEF Init, PlatformInit, TellingInv
<1>2. AuditInv /\ InboxInv /\ TellingInv /\ [Next]_vars => TellingInv'
  <2> SUFFICES ASSUME AuditInv, InboxInv, TellingInv, [Next]_vars
               PROVE  TellingInv'
    OBVIOUS
  <2>1. CASE InboxNext /\ UNCHANGED auditVars
    BY <2>1, InboxNextTells
  <2>2. CASE AuditNext
    BY <2>2, AuditNextTells
  <2>3. CASE UNCHANGED vars
    <3>1. /\ UNCHANGED <<sessions, state, stream, stopping, script, pauseIDs, logVars, feed,
                         blurred, unfed>>
      BY <2>3 DEF vars, auditVars, passVars, historyVars
    <3>2. ASSUME NEW t \in sessions
          PROVE  TellingOf(t)'
      <4>1. t \in Sessions /\ TellingOf(t)
        BY DEF TellingInv, AuditInv, AuditTypeOK, PlatformTypeOK
      <4>2. Undisturbed(t)
        BY <3>1 DEF Undisturbed, StopsOn, logVars
      <4>3. Tellings(t)' = Tellings(t)
        BY <3>1, PendingKept
      <4> QED BY <3>1, <4>1, <4>2, <4>3, TellingElsewhere
    <3> QED BY <3>1, <3>2 DEF TellingInv
  <2> QED BY <2>1, <2>2, <2>3 DEF Next
<1> QED BY <1>1, <1>2, AuditInvariant, InboxInvariant, PTL DEF Spec

\* Whatever the interleaving of requests, the billing pass, the webhook calls
\* and the submit loop, the audit log ends with the state and the stream that
\* a session has, unless calls on it overlapped or an event of it was lost.
THEOREM AuditTellsStateCorrect == Spec => []AuditTellsState
<1>1. AuditInv /\ TellingInv => AuditTellsState
  <2> SUFFICES ASSUME AuditInv, TellingInv, NEW s \in sessions, ~Busy(s), s \notin blurred \union gaps
               PROVE  Log[s].state = state[s] /\ Log[s].stream = stream[s]
    BY DEF AuditTellsState
  <2>1. s \in Sessions
    BY DEF AuditInv, AuditTypeOK, PlatformTypeOK
  <2>2. Tellings(s) = {}
    BY <2>1, IdleSession
  <2>3. LogTrue(s)
    BY DEF TellingInv, TellingOf
  <2> QED BY <2>2, <2>3 DEF LogTrue
<1> QED BY <1>1, AuditInvariant, TellingInvariant, PTL

-----------------------------------------------------------------------------
(* What an agent is shown of its session *)

\* The rows with an entry more, of a list that has the newest first.
Shows(rows, e, s, n) == IF e.on = s /\ Len(rows) < n THEN Append(rows, e) ELSE rows

Shown(list, s, n) ==
    FoldLeft(LAMBDA rows, e : IF e.on = s /\ Len(rows) < n THEN Append(rows, e) ELSE rows,
             <<>>, list)

Showing(list, s, n) ==
    [i \in 1 .. Len(list) |-> [rows \in Seq(Entry) |-> Shows(rows, list[i], s, n)]]

ShowingBy(iter, list, s, n) ==
    iter = [T \in SUBSET DOMAIN list |->
              IF T = {} THEN <<>> ELSE Shows(iter[T \ {Max(T)}], list[Max(T)], s, n)]

LEMMA ShowingType ==
    ASSUME NEW list \in Seq(Entry), NEW s, NEW n
    PROVE  \A i \in 1 .. Len(list) : \A rows \in Seq(Entry) :
             /\ Showing(list, s, n)[i][rows] \in Seq(Entry)
             /\ Showing(list, s, n)[i][rows] = Shows(rows, list[i], s, n)
<1> SUFFICES ASSUME NEW i \in 1 .. Len(list), NEW rows \in Seq(Entry)
             PROVE  Shows(rows, list[i], s, n) \in Seq(Entry)
  BY DEF Showing
<1>1. list[i] \in Entry
  BY ElementOfSeq
<1>2. Append(rows, list[i]) \in Seq(Entry)
  BY <1>1, AppendProperties
<1> QED BY <1>2 DEF Shows

LEMMA ShownIterates ==
    ASSUME NEW list \in Seq(Entry), NEW s, NEW n
    PROVE  \E iter : /\ ShowingBy(iter, list, s, n)
                     /\ Shown(list, s, n) = iter[1 .. Len(list)]
<1> DEFINE m == Len(list)
           step == Showing(list, s, n)
<1>1. m \in Nat /\ DOMAIN list = 1 .. m /\ <<>> \in Seq(Entry)
  BY LenProperties, EmptySeq
<1>2. \A i \in 1 .. m : \A v \in Seq(Entry) :
        step[i][v] \in Seq(Entry) /\ step[i][v] = Shows(v, list[i], s, n)
  BY ShowingType
<1> HIDE DEF m, step
<1>3. PICK iter \in [SUBSET (1 .. m) -> Seq(Entry)] :
        Folding(iter, 1 .. m, <<>>, [T \in SUBSET (1 .. m) |-> Max(T)], step)
  <2>1. \A i \in 1 .. m : \A v \in Seq(Entry) : step[i][v] \in Seq(Entry)
    BY <1>2
  <2> QED BY <1>1, <2>1, FoldOfIndices
<1>4. ASSUME NEW T \in SUBSET (1 .. m), T # {}
      PROVE  step[Max(T)][iter[T \ {Max(T)}]] =
               Shows(iter[T \ {Max(T)}], list[Max(T)], s, n)
  <2>1. Max(T) \in 1 .. m
    BY <1>1, <1>4, MaxInSet
  <2>2. iter[T \ {Max(T)}] \in Seq(Entry)
    OBVIOUS
  <2> QED BY <1>2, <2>1, <2>2
<1>5. ShowingBy(iter, list, s, n)
  BY <1>1, <1>3, <1>4 DEF ShowingBy, Folding
<1>6. Shown(list, s, n) = (CHOOSE f : ShowingBy(f, list, s, n))[DOMAIN list]
  BY DEF Shown, FoldLeft, MapThenFoldSet, ShowingBy, Shows
<1> QED BY <1>1, <1>5, <1>6 DEF m

\* Entry by entry.
ShownBy(R, list, s, n) ==
    /\ R \in [0 .. Len(list) -> Seq(Entry)]
    /\ R[0] = <<>>
    /\ \A i \in 1 .. Len(list) : R[i] = Shows(R[i - 1], list[i], s, n)
    /\ Shown(list, s, n) = R[Len(list)]

LEMMA ShownRun ==
    ASSUME NEW list \in Seq(Entry), NEW s, NEW n
    PROVE  \E R : ShownBy(R, list, s, n)
<1> DEFINE m == Len(list)
           step == Showing(list, s, n)
<1>1. m \in Nat /\ DOMAIN list = 1 .. m /\ <<>> \in Seq(Entry)
  BY LenProperties, EmptySeq
<1>2. \A i \in 1 .. m : \A v \in Seq(Entry) :
        step[i][v] \in Seq(Entry) /\ step[i][v] = Shows(v, list[i], s, n)
  BY ShowingType
<1>3. PICK iter : ShowingBy(iter, list, s, n) /\ Shown(list, s, n) = iter[1 .. m]
  BY ShownIterates
<1> HIDE DEF m, step
<1>4. iter[{}] = <<>>
  BY <1>3 DEF ShowingBy
<1>5. \A T \in SUBSET (1 .. m) : T # {} /\ iter[T \ {Max(T)}] \in Seq(Entry) =>
        iter[T] = step[Max(T)][iter[T \ {Max(T)}]]
  <2> SUFFICES ASSUME NEW T \in SUBSET (1 .. m), T # {}, iter[T \ {Max(T)}] \in Seq(Entry)
               PROVE  iter[T] = step[Max(T)][iter[T \ {Max(T)}]]
    OBVIOUS
  <2>1. Max(T) \in 1 .. m
    BY <1>1, MaxInSet
  <2>2. iter[T] = Shows(iter[T \ {Max(T)}], list[Max(T)], s, n)
    BY <1>1, <1>3 DEF ShowingBy
  <2> QED BY <1>2, <2>1, <2>2
<1>6. \A i \in 1 .. m : \A v \in Seq(Entry) : step[i][v] \in Seq(Entry)
  BY <1>2
<1> DEFINE R == [i \in 0 .. m |-> iter[1 .. i]]
<1>7. Run(R, m, Seq(Entry), <<>>, step)
  BY ONLY <1>1, <1>4, <1>5, <1>6, FoldRun
<1>8. R[m] = iter[1 .. m]
  BY <1>1
<1> HIDE DEF R
<1>9. R \in [0 .. m -> Seq(Entry)] /\ R[0] = <<>>
  BY <1>7 DEF Run
<1>10. ASSUME NEW i \in 1 .. m
       PROVE  R[i] = Shows(R[i - 1], list[i], s, n)
  <2>1. i - 1 \in 0 .. m
    BY <1>1
  <2>2. R[i - 1] \in Seq(Entry)
    BY <1>9, <2>1
  <2>3. R[i] = step[i][R[i - 1]]
    BY <1>7 DEF Run
  <2> QED BY <1>2, <2>2, <2>3
<1> QED BY <1>3, <1>8, <1>9, <1>10 DEF m, ShownBy

\* The newest row of a session that tells a value is its newest entry that does.
LEMMA ShownTells ==
    ASSUME NEW list \in Seq(Entry), NEW n \in Nat, Len(list) <= n, NEW s, NEW says, NEW v,
           FedLast(list, s, says, v)
    PROVE  LastTells(Shown(Reverse(list), s, n), says, v)
<1> DEFINE m == Len(list)
           rev == Reverse(list)
           Tel(e) == e.kind \in DOMAIN says
<1>1. /\ m \in Nat /\ DOMAIN list = 1 .. m /\ m <= n
      /\ rev \in Seq(Entry) /\ Len(rev) = m
      /\ \A i \in 1 .. m : rev[i] = list[m - i + 1]
  <2>1. m \in Nat /\ DOMAIN list = 1 .. m
    BY LenProperties
  <2>2. \A i \in 1 .. m : m - i + 1 \in 1 .. m
    BY <2>1
  <2>3. \A i \in 1 .. m : list[m - i + 1] \in Entry
    BY <2>2, ElementOfSeq
  <2>4. rev = [i \in 1 .. m |-> list[m - i + 1]]
    BY DEF Reverse
  <2>5. rev \in [1 .. m -> Entry]
    BY <2>3, <2>4
  <2>6. rev \in Seq(Entry) /\ Len(rev) = m
    <3> HIDE DEF rev, m
    <3> QED BY <2>1, <2>5, SeqDef, LenProperties
  <2> QED BY <2>1, <2>4, <2>6
<1> HIDE DEF m, rev
<1>2. PICK R : /\ R \in [0 .. m -> Seq(Entry)]
               /\ R[0] = <<>>
               /\ \A i \in 1 .. m : R[i] = Shows(R[i - 1], rev[i], s, n)
               /\ Shown(rev, s, n) = R[m]
  <2>1. rev \in Seq(Entry)
    BY <1>1
  <2>2. \E R : ShownBy(R, rev, s, n)
    BY ONLY <2>1, ShownRun
  <2> QED BY <1>1, <2>2 DEF ShownBy
<1> DEFINE First(rows, i) == /\ i \in 1 .. Len(rows) /\ Tel(rows[i])
                             /\ \A j \in 1 .. Len(rows) : Tel(rows[j]) => i <= j
           Agrees(rows) == \A i : First(rows, i) => says[rows[i].kind] = v
           Has(rows) == \E j \in 1 .. Len(rows) : Tel(rows[j])
           Holds(k) == /\ Len(R[k]) <= k
                       /\ Agrees(R[k])
                       /\ \A i \in 1 .. k : rev[i].on = s /\ Tel(rev[i]) => Has(R[k])
           I == {k \in Nat : k <= m => Holds(k)}
<1>3. 0 \in I
  <2>1. Len(R[0]) = 0
    BY <1>2
  <2>2. 1 .. 0 = {}
    OBVIOUS
  <2> QED BY <2>1, <2>2
<1>4. ASSUME NEW k \in Nat, k \in I
      PROVE  k + 1 \in I
  <2> SUFFICES ASSUME k + 1 <= m
               PROVE  Holds(k + 1)
    OBVIOUS
  <2> DEFINE rows == R[k]
             e == rev[k + 1]
  <2>1. Holds(k) /\ rows \in Seq(Entry) /\ Len(rows) \in Nat /\ k + 1 \in 1 .. m /\ (k + 1) - 1 = k
    <3>1. k \in 0 .. m /\ k + 1 \in 1 .. m /\ (k + 1) - 1 = k /\ k <= m
      BY <1>1
    <3>2. rows \in Seq(Entry)
      BY <1>2, <3>1
    <3>3. Holds(k)
      BY <1>4, <3>1
    <3> HIDE DEF Holds, rows
    <3> QED BY <3>1, <3>2, <3>3, LenProperties
  <2>2. e \in Entry /\ R[k + 1] = Shows(rows, e, s, n)
    BY <1>1, <1>2, <2>1, ElementOfSeq
  <2>3. Len(rows) < n
    BY <1>1, <2>1
  <2>4. CASE e.on # s
    <3>1. R[k + 1] = rows
      BY <2>2, <2>4 DEF Shows
    <3>2. \A i \in 1 .. k + 1 : i # k + 1 => i \in 1 .. k
      OBVIOUS
    <3> HIDE DEF Agrees, Has
    <3>3. \A i \in 1 .. k + 1 : rev[i].on = s /\ Tel(rev[i]) => Has(R[k + 1])
      BY <2>1, <2>4, <3>1, <3>2
    <3>4. Len(rows) <= k + 1
      BY <2>1
    <3> QED BY <2>1, <3>1, <3>3, <3>4
  <2>5. CASE e.on = s
    <3> DEFINE more == Append(rows, e)
               l == Len(rows)
    <3>1. R[k + 1] = more
      BY <2>2, <2>3, <2>5 DEF Shows
    <3>2. /\ Len(more) = l + 1 /\ l \in Nat /\ more[l + 1] = e
          /\ \A i \in 1 .. l : more[i] = rows[i]
      <4> HIDE DEF rows, e
      <4> QED BY <2>1, <2>2, AppendProperties
    <3>3. l <= k /\ Agrees(rows) /\ \A i \in 1 .. k : rev[i].on = s /\ Tel(rev[i]) => Has(rows)
      BY <2>1
    <3> HIDE DEF more, l, rows, e
    <3>4. Has(rows) => Has(more)
      <4> SUFFICES ASSUME NEW j \in 1 .. Len(rows), Tel(rows[j])
                   PROVE  Has(more)
        OBVIOUS
      <4>1. j \in 1 .. Len(more) /\ more[j] = rows[j]
        BY <3>2 DEF l
      <4> QED BY <4>1
    <3>5. ASSUME NEW i \in 1 .. k + 1, rev[i].on = s, Tel(rev[i])
          PROVE  Has(more)
      <4>1. CASE i = k + 1
        <5>1. l + 1 \in 1 .. Len(more) /\ Tel(more[l + 1])
          BY <3>2, <3>5, <4>1 DEF e
        <5> QED BY <5>1
      <4>2. CASE i # k + 1
        <5>1. i \in 1 .. k
          BY <4>2
        <5> HIDE DEF Has
        <5> QED BY <3>3, <3>4, <3>5, <5>1
      <4> QED BY <4>1, <4>2
    <3>6. ASSUME NEW i, First(more, i)
          PROVE  says[more[i].kind] = v
      <4>1. CASE i \in 1 .. l
        <5>1. First(rows, i)
          <6>1. Tel(rows[i])
            BY <3>2, <3>6, <4>1
          <6>2. ASSUME NEW j \in 1 .. Len(rows), Tel(rows[j])
                PROVE  i <= j
            <7>1. j \in 1 .. Len(more) /\ more[j] = rows[j]
              BY <3>2 DEF l
            <7> QED BY <3>6, <6>2, <7>1
          <6> QED BY <4>1, <6>1, <6>2 DEF l
        <5>2. says[rows[i].kind] = v
          <6> HIDE DEF First
          <6> QED BY <3>3, <5>1
        <5> QED BY <3>2, <4>1, <5>2
      <4>2. CASE i \notin 1 .. l
        <5>1. i = l + 1
          BY <3>2, <3>6, <4>2
        <5>2. ~Has(rows)
          <6> SUFFICES ASSUME NEW j \in 1 .. Len(rows), Tel(rows[j])
                       PROVE  FALSE
            OBVIOUS
          <6>1. j \in 1 .. Len(more) /\ more[j] = rows[j]
            BY <3>2 DEF l
          <6>2. i <= j
            BY <3>6, <6>1
          <6> QED BY <3>2, <5>1, <6>2 DEF l
        <5>3. Tel(e)
          BY <3>2, <3>6, <5>1
        <5>4. e = list[m - k] /\ m - k \in 1 .. m
          <6>1. m - (k + 1) + 1 = m - k /\ m - k \in 1 .. m
            BY <1>1, <2>1
          <6> QED BY <1>1, <2>1, <6>1 DEF e
        <5>5. ASSUME NEW j \in 1 .. m, list[j].on = s, Tel(list[j])
              PROVE  j <= m - k
          <6> SUFFICES ASSUME ~(j <= m - k)
                       PROVE  FALSE
            OBVIOUS
          <6>1. m - j + 1 \in 1 .. k /\ m - j + 1 \in 1 .. m /\ m - (m - j + 1) + 1 = j
            BY <1>1, <2>1
          <6>2. rev[m - j + 1] = list[j]
            BY <1>1, <6>1
          <6> HIDE DEF Has
          <6> QED BY <3>3, <5>2, <5>5, <6>1, <6>2
        <5>6. says[list[m - k].kind] = v
          BY <1>1, <2>5, <5>3, <5>4, <5>5 DEF FedLast
        <5> QED BY <3>2, <5>1, <5>4, <5>6
      <4> QED BY <4>1, <4>2
    <3>7. Len(more) <= k + 1
      BY <3>2, <3>3
    <3> QED BY <3>1, <3>5, <3>6, <3>7
  <2> QED BY <2>4, <2>5
<1>5. Agrees(R[m])
  <2>1. Nat \subseteq I
    <3> HIDE DEF I
    <3> QED BY <1>3, <1>4, SetInduction
  <2> HIDE DEF Agrees, Has
  <2>2. m \in Nat /\ m <= m
    BY <1>1
  <2>3. m \in I
    <3> HIDE DEF I
    <3> QED BY <2>1, <2>2
  <2> QED BY <2>2, <2>3
<1>6. LastTells(R[m], says, v)
  <2> DEFINE rows == R[m]
             told_ == {i \in DOMAIN rows : rows[i].kind \in DOMAIN says}
  <2>1. rows \in Seq(Entry) /\ DOMAIN rows = 1 .. Len(rows) /\ Len(rows) \in Nat
    BY <1>1, <1>2, LenProperties
  <2> HIDE DEF rows
  <2>2. ASSUME told_ # {}
        PROVE  First(rows, Min(told_))
    <3>1. told_ \in SUBSET Nat
      BY <2>1
    <3>2. Min(told_) \in told_ /\ \A j \in told_ : Min(told_) <= j
      <4> HIDE DEF told_
      <4>1. \E x \in told_ : \A y \in told_ : x <= y
        BY <2>2, <3>1, LeastExists
      <4> QED BY <4>1 DEF Min
    <3> QED BY <2>1, <3>2
  <2>3. told_ # {} => says[rows[Min(told_)].kind] = v
    <3> HIDE DEF First, told_
    <3> QED BY <1>5, <2>2 DEF rows
  <2> QED BY <2>3 DEF rows, LastTells
<1> QED BY <1>2, <1>6 DEF rev

\* What an agent is shown of its session tells, as far as it goes back, the
\* state and the stream that the session has, whatever the interleaving and
\* however many entries of others have pushed its own out: unless calls on it
\* overlapped, or the pass could not take its egress away.
THEOREM FeedTellsStateCorrect == Spec => []FeedTellsState
<1>1. AuditInv /\ TellingInv => FeedTellsState
  <2> SUFFICES ASSUME AuditInv, TellingInv, NEW s \in sessions, ~Busy(s),
                      s \notin blurred \union unfed
               PROVE  /\ LastTells(ActivityForSession(s, MaxEntries), StateTold, state[s])
                      /\ LastTells(ActivityForSession(s, MaxEntries), StreamFed, stream[s])
    BY DEF FeedTellsState
  <2>1. s \in Sessions /\ feed \in Seq(Entry) /\ Len(feed) <= MaxEntries /\ Len(feed) \in Nat
    BY LenProperties DEF AuditInv, AuditTypeOK, PlatformTypeOK
  <2>2. MaxEntries \in Nat /\ ~(MaxEntries <= 0)
    BY EventInboxAssumption DEF EventInboxAssumption
  <2>3. Tellings(s) = {} /\ s \notin pauseIDs
    BY <2>1, IdleSession
  <2>4. FeedTrue(s)
    BY DEF TellingInv, TellingOf
  <2>5. FedLast(feed, s, StateTold, state[s]) /\ FedLast(feed, s, StreamFed, stream[s])
    BY <2>3, <2>4 DEF FeedTrue
  <2>6. Snapshot(0) = Reverse(feed)
    BY <2>1 DEF Snapshot, Recent
  <2>7. ActivityForSession(s, MaxEntries) = Shown(Reverse(feed), s, MaxEntries)
    <3> DEFINE n == IF MaxEntries <= 0 THEN 50 ELSE MaxEntries
    <3>1. ActivityForSession(s, MaxEntries) = Shown(Snapshot(0), s, n)
      BY DEF ActivityForSession, Shown
    <3>2. n = MaxEntries
      BY <2>2
    <3> HIDE DEF n
    <3> QED BY <2>6, <3>1, <3>2
  <2> QED BY <2>1, <2>2, <2>5, <2>7, ShownTells
<1> QED BY <1>1, AuditInvariant, TellingInvariant, PTL

-----------------------------------------------------------------------------
(* The lifecycle of module SessionLifecycle is kept *)

\* Session s of the store gets another state, or its stream does.
Turns(s, st, active) ==
    /\ s \in sessions
    /\ Becomes(s, st, active)
    /\ UNCHANGED <<sessions, charged, unreported>>

Turned(s) ==
    \/ state[s] \in {"created", "paused"} /\ Turns(s, "running", TRUE)
    \/ state[s] = "running" /\ Turns(s, "paused", FALSE)
    \/ Turns(s, "stopped", FALSE)
    \/ \E active \in BOOLEAN : state[s] = "running" /\ Turns(s, "running", active)

\* What a step may do to the sessions.
LEMMA SessionSteps ==
    ASSUME AuditInv, InboxInv, [Next]_vars
    PROVE  \/ UNCHANGED sessionVars
           \/ \E r \in Requests, s \in Sessions : Create(r, s)
           \/ \E s \in Sessions : PassCharges(s)
           \/ \E s \in sessions : Turned(s)
<1>1. CASE InboxNext /\ UNCHANGED auditVars
  BY <1>1, InboxNextFrame DEF auditVars, sessionVars
<1>2. CASE UNCHANGED vars
  BY <1>2 DEF vars, auditVars, sessionVars
<1>3. CASE \E r \in Requests : StopCommits(r) \/ StopFails(r) \/ TopUp(r)
  <2> PICK r \in Requests : StopCommits(r) \/ StopFails(r) \/ TopUp(r)
    BY <1>3
  <2>1. CASE StopCommits(r)
    <3>1. stopping[r].on \in sessions
      BY <2>1 DEF StopCommits, AuditInv, Stops
    <3>2. Turned(stopping[r].on)
      BY <2>1, <3>1 DEF StopCommits, Turned, Turns
    <3> QED BY <3>1, <3>2
  <2>2. CASE StopFails(r) \/ TopUp(r)
    BY <2>2 DEF StopFails, TopUp
  <2> QED BY <2>1, <2>2
<1>4. CASE \E r \in Requests, s \in Sessions :
             \/ Start(r, s) \/ Pause(r, s) \/ Resume(r, s)
             \/ \E active \in BOOLEAN : SetStream(r, s, active)
  BY <1>4 DEF Start, Pause, Resume, Transition, SetStream, Turned, Turns
<1>5. CASE \E r \in Requests, s \in Sessions :
             Reject(r, s) \/ StopReads(r, s) \/ Reconfigure(r, s)
  BY <1>5 DEF Reject, StopReads, Reconfigure
<1>6. CASE \E s \in Sessions : PassPauses(s)
  <2> PICK s \in Sessions : PassPauses(s)
    BY <1>6
  <2>1. s \in sessions
    BY DEF PassPauses, Visits, AuditInv, AuditTypeOK
  <2>2. Turned(s)
    BY <2>1 DEF PassPauses, Billed, Turned, Turns
  <2> QED BY <2>1, <2>2
<1>7. CASE \E s \in Sessions : PassSkips(s) \/ PassPausedEgress(s) \/ PassPauseEgressFails(s)
  BY <1>7 DEF PassSkips, PassPausedEgress, PassPauseEgressFails
<1>8. CASE \/ PassBegins
           \/ \E w \in Writers : TellsNext(w)
           \/ SubmitTakes \/ SubmitLands \/ SubmitFails
  BY <1>8 DEF PassBegins, TellsNext, SubmitTakes, SubmitLands, SubmitFails
<1> QED BY <1>1, <1>2, <1>3, <1>4, <1>5, <1>6, <1>7, <1>8 DEF Next, AuditNext

\* Only a running session has an active stream: the stop of one that is
\* stopped changes nothing.
StreamsRun == \A s \in Sessions : stream[s] => state[s] = "running"

LEMMA TurnedValues ==
    ASSUME AuditInv, NEW s, NEW st, NEW active, Turns(s, st, active)
    PROVE  \A x \in Sessions : /\ state'[x] = IF x = s THEN st ELSE state[x]
                               /\ stream'[x] = IF x = s THEN active ELSE stream[x]
BY DEF Turns, Becomes, AuditInv, AuditTypeOK

LEMMA StreamsRunStep ==
    AuditInv /\ InboxInv /\ StreamsRun /\ [Next]_vars => StreamsRun'
<1> SUFFICES ASSUME AuditInv, InboxInv, StreamsRun, [Next]_vars
             PROVE  StreamsRun'
  OBVIOUS
<1>1. CASE UNCHANGED <<state, stream>>
  BY <1>1 DEF StreamsRun
<1>2. CASE \E s \in sessions : Turned(s)
  <2> PICK s \in sessions : Turned(s)
    BY <1>2
  <2>1. PICK st \in States, active \in BOOLEAN :
          Turns(s, st, active) /\ (active => st = "running")
    BY DEF Turned, States
  <2> QED BY <2>1, TurnedValues DEF StreamsRun
<1>3. CASE \/ \E r \in Requests, s \in Sessions : Create(r, s)
           \/ \E s \in Sessions : PassCharges(s)
  BY <1>1, <1>3 DEF Create, PassCharges
<1> QED BY <1>1, <1>2, <1>3, SessionSteps DEF sessionVars

\* The state of a session as the lifecycle has it.
StateSeen == [s \in Sessions |-> IF s \in sessions THEN state[s] ELSE "absent"]

LEMMA TurnSeen ==
    ASSUME AuditInv, NEW s \in Sessions, NEW st, NEW active, Turns(s, st, active)
    PROVE  Life!Becomes(s, st, active)
<1>1. \A x \in Sessions : StateSeen'[x] = IF x = s THEN st ELSE StateSeen[x]
  BY TurnedValues DEF StateSeen, Turns
<1>2. StateSeen' = [StateSeen EXCEPT ![s] = st]
  BY <1>1 DEF StateSeen
<1> QED BY <1>2 DEF Turns, Becomes, Life!Becomes, StateSeen

LEMMA LifeStep == AuditInv /\ InboxInv /\ StreamsRun /\ [Next]_vars => [Life!Next]_(Life!vars)
<1> SUFFICES ASSUME AuditInv, InboxInv, StreamsRun, [Next]_vars
             PROVE  Life!Next \/ UNCHANGED Life!vars
  OBVIOUS
<1>1. /\ sessions \subseteq Sessions
      /\ state \in [Sessions -> States] /\ stream \in [Sessions -> BOOLEAN]
      /\ charged \in [Sessions -> Nat] /\ unreported \in [Sessions -> Nat]
  BY DEF AuditInv, AuditTypeOK, PlatformTypeOK
<1>2. CASE UNCHANGED sessionVars
  BY <1>2 DEF sessionVars, Life!vars
<1>3. CASE \E r \in Requests, s \in Sessions : Create(r, s)
  <2> PICK r \in Requests, s \in Sessions : Create(r, s)
    BY <1>3
  <2>1. s \notin sessions /\ sessions' = sessions \union {s} /\ state' = state
    BY DEF Create
  <2>2. state[s] = "created" /\ stream[s] = FALSE
    BY <1>1, <2>1 DEF AuditInv, Fresh
  <2>3. StateSeen' = [StateSeen EXCEPT ![s] = "created"]
    <3>1. \A x \in Sessions : StateSeen'[x] = IF x = s THEN "created" ELSE StateSeen[x]
      BY <2>1, <2>2 DEF StateSeen
    <3> QED BY <3>1 DEF StateSeen
  <2>4. stream' = [stream EXCEPT ![s] = FALSE]
    BY <1>1, <2>2 DEF Create
  <2>5. Life!Becomes(s, "created", FALSE)
    BY <2>3, <2>4 DEF Life!Becomes, Create, StateSeen
  <2>6. StateSeen[s] = "absent"
    BY <2>1 DEF StateSeen
  <2> QED BY <2>5, <2>6 DEF Life!Next, Life!Create, StateSeen
<1>4. CASE \E s \in Sessions : PassCharges(s)
  <2> PICK s \in Sessions : PassCharges(s)
    BY <1>4
  <2>1. s \in sessions
    BY DEF PassCharges, Visits, AuditInv, AuditTypeOK
  <2>2. StateSeen[s] = "running" /\ stream[s]
    BY <2>1 DEF PassCharges, Billed, StateSeen
  <2>3. StateSeen' = StateSeen
    BY DEF PassCharges, StateSeen
  <2>4. /\ charged' = [charged EXCEPT ![s] = charged[s] + 1]
        /\ charged'[s] - charged[s] = 1
    BY <1>1 DEF PassCharges
  <2>5. unreported' \in {[unreported EXCEPT ![s] = unreported[s] + 1],
                         [unreported EXCEPT ![s] = 0]}
    BY DEF PassCharges
  <2>6. Life!Charge(s)
    <3>1. charged' = [charged EXCEPT ![s] = charged[s] + (charged'[s] - charged[s])]
      BY <2>4
    <3>2. unreported' \in {[unreported EXCEPT ![s] = unreported[s] + (charged'[s] - charged[s])],
                           [unreported EXCEPT ![s] = 0]}
      BY <2>4, <2>5
    <3>3. charged'[s] - charged[s] > 0
      BY <2>4
    <3>4. stream' = stream
      BY DEF PassCharges
    <3> QED BY <2>2, <2>3, <3>1, <3>2, <3>3, <3>4, Zenon DEF Life!Charge, StateSeen
  <2> QED BY <2>6 DEF Life!Next
<1>5. CASE \E s \in sessions : Turned(s)
  <2> PICK s \in sessions : Turned(s)
    BY <1>5
  <2>1. s \in Sessions /\ StateSeen[s] = state[s]
    BY <1>1 DEF StateSeen
  <2>2. CASE state[s] \in {"created", "paused"} /\ Turns(s, "running", TRUE)
    <3>1. Life!Becomes(s, "running", TRUE)
      BY <2>1, <2>2, TurnSeen
    <3>2. Life!Run(s)
      BY <2>1, <2>2, <3>1 DEF Life!Run, StateSeen
    <3> QED BY <2>1, <3>2 DEF Life!Next
  <2>3. CASE state[s] = "running" /\ Turns(s, "paused", FALSE)
    <3>1. Life!Becomes(s, "paused", FALSE)
      BY <2>1, <2>3, TurnSeen
    <3>2. Life!Pause(s)
      BY <2>1, <2>3, <3>1 DEF Life!Pause, StateSeen
    <3> QED BY <2>1, <3>2 DEF Life!Next
  <2>4. CASE state[s] # "stopped" /\ Turns(s, "stopped", FALSE)
    <3>1. Life!Becomes(s, "stopped", FALSE)
      BY <2>1, <2>4, TurnSeen
    <3>2. state[s] \in {"created", "running", "paused"}
      BY <1>1, <2>1, <2>4 DEF States
    <3>3. Life!Stop(s)
      BY <2>1, <3>1, <3>2 DEF Life!Stop, StateSeen
    <3> QED BY <2>1, <3>3 DEF Life!Next
  <2>5. CASE state[s] = "stopped" /\ Turns(s, "stopped", FALSE)
    <3>1. stream[s] = FALSE
      BY <1>1, <2>1, <2>5 DEF StreamsRun
    <3>2. UNCHANGED sessionVars
      BY <1>1, <2>1, <2>5, <3>1 DEF Turns, Becomes, sessionVars
    <3> QED BY <1>2, <3>2
  <2>6. CASE \E active \in BOOLEAN : state[s] = "running" /\ Turns(s, "running", active)
    <3> PICK active \in BOOLEAN : state[s] = "running" /\ Turns(s, "running", active)
      BY <2>6
    <3>1. Life!Becomes(s, "running", active)
      BY <2>1, TurnSeen
    <3>2. Life!SetStream(s)
      BY <2>1, <3>1 DEF Life!SetStream, StateSeen
    <3> QED BY <2>1, <3>2 DEF Life!Next
  <2> QED BY <2>2, <2>3, <2>4, <2>5, <2>6 DEF Turned
<1> QED BY <1>2, <1>3, <1>4, <1>5, SessionSteps

\* Beside all that is told and received, requests and pass leave each session
\* on the lifecycle that billing and egress leave it on: a stop that waited
\* for Naryo finds a session it may end, and only a running one is charged.
THEOREM RecordsWithinLifecycle == Spec => ImplementsLifecycle
<1>1. Init => StreamsRun
  BY DEF Init, AuditInit, StreamsRun
<1>2. Spec => []StreamsRun
  BY <1>1, StreamsRunStep, AuditInvariant, InboxInvariant, PTL DEF Spec
<1>3. Init => Life!Init
  BY DEF Init, AuditInit, PlatformInit, Life!Init
<1>4. Spec => Life!Spec
  BY <1>2, <1>3, LifeStep, AuditInvariant, InboxInvariant, PTL DEF Spec, Life!Spec
<1> QED BY <1>4 DEF ImplementsLifecycle
=============================================================================
