---------------------------- MODULE BillingProofs ---------------------------
(***************************************************************************)
(* Proofs about module Billing, for every set of agents, sessions and      *)
(* receipts, every rate, interval, grace period and bound.                 *)
(***************************************************************************)
EXTENDS Billing, FoldLemmas

-----------------------------------------------------------------------------
(* Arithmetic of a settlement *)

LEMMA DivMod ==
    ASSUME NEW n \in Nat, NEW d \in Nat \ {0}
    PROVE  /\ n \div d \in Nat
           /\ n % d \in Nat
           /\ d * (n \div d) + (n % d) = n
  BY SMT

\* What a settlement computes from the accrued runtime: whole units and the
\* remainder of the division, which make up the accrual.
LEMMA Settlement ==
    ASSUME TypeOK, NEW s \in Sessions
    PROVE  /\ Accrued(s) \in Nat
           /\ Accrued(s) = meter[s].numerator + Rate
           /\ WindowSecs(s) \in Nat
           /\ ChargeUnits(s) \in Nat
           /\ RemNumerator(s) \in Nat
           /\ Bucket(s) \in Nat \ {0}
           /\ SecondsPerMinute * ChargeUnits(s) + RemNumerator(s) = Accrued(s)
<1>1. /\ meter[s].numerator \in Nat
      /\ meter[s].window \in Nat
      /\ meter[s].seq \in Nat
  BY DEF TypeOK, Meter
<1>2. Accrued(s) \in Nat /\ Accrued(s) = meter[s].numerator + Rate
  BY <1>1, BillingAssumption DEF Accrued
<1>3. WindowSecs(s) \in Nat /\ Bucket(s) \in Nat \ {0}
  BY <1>1 DEF WindowSecs, Bucket
<1>4. SecondsPerMinute \in Nat \ {0}
  BY BillingAssumption
<1>5. /\ ChargeUnits(s) \in Nat
      /\ RemNumerator(s) \in Nat
      /\ SecondsPerMinute * ChargeUnits(s) + RemNumerator(s) = Accrued(s)
  BY <1>2, <1>4, DivMod DEF ChargeUnits, RemNumerator
<1> QED
  BY <1>2, <1>3, <1>5

-----------------------------------------------------------------------------
(* Type correctness *)

LEMMA TypeInit == Init => TypeOK
<1> SUFFICES ASSUME Init
             PROVE  TypeOK
  OBVIOUS
<1>1. LedgerTypeOK
  BY DEF Init, LedgerInit, LedgerTypeOK
<1>2. sess \in [Sessions -> Lifecycle]
  BY DEF Init, Lifecycle
<1>3. meter \in [Sessions -> Meter]
  BY BillingAssumption DEF Init, Meter
<1>4. summary \in [Sessions -> Summary]
  BY DEF Init, Summary
<1> QED
  BY <1>1, <1>2, <1>3, <1>4 DEF Init, TypeOK

\* An accepted charge keeps the types of the ledger: a debit is covered.
LEMMA TypeCharge ==
    ASSUME LedgerTypeOK, NEW a \in Agents, NEW s \in Sessions,
           NEW units \in Nat, NEW bucket \in Nat \ {0},
           ChargeUsage(a, s, units, bucket)
    PROVE  LedgerTypeOK'
  BY DEF LedgerTypeOK, ChargeUsage, ChargeAccepted, AlreadyCharged

\* What the updates of the meters produce are meters.
LEMMA TypeMeter ==
    ASSUME TypeOK, NEW s \in Sessions
    PROVE  /\ meter[s] \in Meter
           /\ MeterUncharged(s) \in Meter
           /\ [meter[s] EXCEPT !.retry = FALSE, !.grace = 0] \in Meter
           /\ MeterAtStart(s) \in Meter
           /\ MeterAccruing(s, TRUE, Grace) \in Meter
           /\ MeterAccruing(s, FALSE, 0) \in Meter
           /\ MeterAccruing(s, meter[s].retry, meter[s].grace) \in Meter
           /\ MeterAfterCarry(s) \in Meter
           /\ MeterAfterCharge(s) \in Meter
<1>1. meter[s] \in Meter
  BY DEF TypeOK
<1>2. /\ Accrued(s) \in Nat
      /\ WindowSecs(s) \in Nat
      /\ ChargeUnits(s) \in Nat
      /\ RemNumerator(s) \in Nat
  BY Settlement
<1>3. 0 \in 0 .. Grace /\ Grace \in 0 .. Grace
  BY BillingAssumption
<1>4. meter[s].billed + 1 \in Nat /\ meter[s].seq + 1 \in Nat
  BY <1>1 DEF Meter
<1>5. meter[s].charged + ChargeUnits(s) \in Nat
  BY <1>1, <1>2 DEF Meter
<1>6. meter[s].retry \in BOOLEAN /\ meter[s].grace \in 0 .. Grace
  BY <1>1 DEF Meter
<1>7. /\ MeterUncharged(s) \in Meter
      /\ [meter[s] EXCEPT !.retry = FALSE, !.grace = 0] \in Meter
  BY <1>1, <1>3, <1>4 DEF MeterUncharged, Meter
<1>8. MeterAtStart(s) \in Meter
  BY <1>1, <1>3 DEF MeterAtStart, Meter
<1>9. ASSUME NEW retry \in BOOLEAN, NEW grace \in 0 .. Grace
      PROVE  MeterAccruing(s, retry, grace) \in Meter
  BY <1>1, <1>2, <1>4 DEF MeterAccruing, Meter
<1>10. MeterAfterCarry(s) \in Meter
  BY <1>1, <1>2, <1>3, <1>4 DEF MeterAfterCarry, Meter
<1>11. MeterAfterCharge(s) \in Meter
  BY <1>1, <1>2, <1>3, <1>4, <1>5 DEF MeterAfterCharge, Meter
<1> QED
  BY <1>1, <1>3, <1>6, <1>7, <1>8, <1>9, <1>10, <1>11

\* What the updates of the lifecycles produce are lifecycles.
LEMMA TypeLifecycle ==
    ASSUME TypeOK, NEW s \in Sessions
    PROVE  /\ \A a \in Agents \union {NoAgent} :
                [sess[s] EXCEPT !.state = Created, !.agent = a] \in Lifecycle
           /\ NowRunning(s) \in Lifecycle
           /\ [sess[s] EXCEPT !.state = Paused, !.stream = FALSE] \in Lifecycle
           /\ [sess[s] EXCEPT !.state = Stopped, !.stream = FALSE] \in Lifecycle
           /\ StreamToggled(s) \in Lifecycle
           /\ PausedForFunds(s) \in Lifecycle
<1>1. sess[s] \in Lifecycle
  BY DEF TypeOK
<1> QED
  BY <1>1 DEF Lifecycle, NowRunning, StreamToggled, PausedForFunds

\* The visit of a session by the billing pass keeps the types.
LEMMA TypeTick ==
    ASSUME TypeOK, NEW s \in Sessions, TickSession(s)
    PROVE  TypeOK'
<1> DEFINE Rest == /\ admitted' \subseteq Requests
                   /\ tick' \in BOOLEAN
                   /\ todo' \subseteq Sessions
                   /\ restarted' \subseteq Sessions
<1>1. Rest
  BY DEF TickSession, TypeOK
<1>2. /\ Accrued(s) \in Nat
      /\ WindowSecs(s) \in Nat
      /\ ChargeUnits(s) \in Nat
      /\ RemNumerator(s) \in Nat
      /\ Bucket(s) \in Nat \ {0}
  BY Settlement
<1>3. Rate \in Nat /\ Grace \in Nat \ {0} /\ SummaryWindow \in Nat \ {0}
  BY BillingAssumption
<1>4. CASE TickIdle(s)
  BY <1>1, <1>4 DEF TickIdle, TypeOK, LedgerTypeOK, ledgerVars
<1>5. CASE TickUnmetered(s)
  BY <1>1, <1>5, TypeMeter DEF TickUnmetered, TypeOK, LedgerTypeOK, ledgerVars
<1>6. CASE TickGrace(s)
  <2>1. waived' \in [Sessions -> Nat]
    BY <1>3, <1>6 DEF TickGrace, TypeOK
  <2> QED
    BY <1>1, <1>6, <2>1, TypeMeter DEF TickGrace, TypeOK, LedgerTypeOK, ledgerVars
<1>7. CASE TickAccrue(s)
  BY <1>1, <1>7, TypeMeter DEF TickAccrue, TypeOK, LedgerTypeOK, ledgerVars
<1>8. CASE TickCarry(s)
  BY <1>1, <1>8, TypeMeter DEF TickCarry, TypeOK, LedgerTypeOK, ledgerVars
<1>9. CASE TickCharge(s)
  <2>1. meter' \in [Sessions -> Meter]
    BY <1>9, TypeMeter DEF TickCharge, TypeOK
  <2>2. LedgerTypeOK'
    <3>1. sess[s].agent \in Agents
      BY <1>9 DEF TickCharge, Settling, Metered
    <3> QED
      BY <1>2, <1>9, <3>1, TypeCharge DEF TickCharge, TypeOK
  <2>3. summary' \in [Sessions -> Summary] /\ reported' \in [Sessions -> Nat]
    <3>0. summary[s] \in Summary
      BY DEF TypeOK
    <3>1. CASE Report(s, ChargeUnits(s))
      <4>1. [units |-> 0, seconds |-> 0, since |-> 0] \in Summary
        BY <1>3 DEF Summary
      <4>2. reported[s] + summary[s].units + ChargeUnits(s) \in Nat
        BY <1>2, <3>0 DEF Summary, TypeOK
      <4> QED
        BY <3>1, <4>1, <4>2 DEF Report, TypeOK
    <3>2. CASE Defer(s, ChargeUnits(s))
      <4>1. SummaryAfterDefer(s, ChargeUnits(s)) \in Summary
        <5>1. /\ summary[s].units + ChargeUnits(s) \in Nat
              /\ summary[s].seconds + WindowSecs(s) \in Nat
          BY <1>2, <3>0 DEF Summary
        <5>2. (IF summary[s].since = Never THEN 0 ELSE summary[s].since)
                \in {Never} \union (0 .. SummaryWindow)
          BY <1>3, <3>0 DEF Summary
        <5> QED
          BY <3>0, <5>1, <5>2 DEF SummaryAfterDefer, Summary
      <4> QED
        BY <3>2, <4>1 DEF Defer, TypeOK
    <3> QED
      BY <1>9, <3>1, <3>2 DEF TickCharge
  <2> QED
    BY <1>1, <1>9, <2>1, <2>2, <2>3 DEF TickCharge, TypeOK
<1>10. CASE TickRetryLater(s)
  BY <1>1, <1>10, TypeMeter DEF TickRetryLater, TypeOK, LedgerTypeOK, ledgerVars
<1>11. CASE TickAutoPause(s)
  BY <1>1, <1>11, TypeMeter, TypeLifecycle
     DEF TickAutoPause, TypeOK, LedgerTypeOK, ledgerVars
<1> QED
  BY <1>4, <1>5, <1>6, <1>7, <1>8, <1>9, <1>10, <1>11 DEF TickSession

LEMMA TypeStep == TypeOK /\ [Next]_vars => TypeOK'
<1> SUFFICES ASSUME TypeOK, [Next]_vars
             PROVE  TypeOK'
  OBVIOUS
<1>1. CASE \E a \in Agents, r \in Receipts : TopUp(a, r)
  BY <1>1, LedgerAssumption DEF TopUp, Credit, billingVars, TypeOK, LedgerTypeOK
<1>2. CASE \E a \in Agents : TopUpUnreceipted(a)
  BY <1>2, BillingAssumption
     DEF TopUpUnreceipted, CreditUnreceipted, billingVars, TypeOK, LedgerTypeOK
<1>3. CASE \E s \in Sessions, a \in Agents \union {NoAgent} : Create(s, a)
  <2> PICK s \in Sessions, a \in Agents \union {NoAgent} : Create(s, a)
    BY <1>3
  <2> DEFINE l == [sess[s] EXCEPT !.state = Created, !.agent = a]
  <2>1. l \in Lifecycle
    BY TypeLifecycle
  <2>2. sess' = [sess EXCEPT ![s] = l]
    BY DEF Create
  <2> HIDE DEF l
  <2> QED
    BY <2>1, <2>2 DEF Create, ledgerVars, TypeOK, LedgerTypeOK
<1>4. CASE \E op \in {"start", "resume"}, s \in Sessions : Admit(op, s)
  BY <1>4 DEF Admit, ledgerVars, TypeOK, LedgerTypeOK, Requests
<1>5. CASE \E op \in {"start", "resume"}, s \in Sessions : Reject(op, s)
  BY <1>5 DEF Reject, ledgerVars, TypeOK, LedgerTypeOK, Requests
<1>6. CASE \E s \in Sessions : Start(s)
  <2> PICK s \in Sessions : Start(s)
    BY <1>6
  <2>1. meter[s].numerator \in Nat
    BY DEF TypeOK, Meter
  <2>2. waived' \in [Sessions -> Nat]
    BY <2>1 DEF Start, TypeOK
  <2> QED
    BY <2>2, TypeMeter, TypeLifecycle DEF Start, ledgerVars, TypeOK, LedgerTypeOK
<1>7. CASE \E s \in Sessions : Resume(s)
  <2> PICK s \in Sessions : Resume(s)
    BY <1>7
  <2> DEFINE m == [meter[s] EXCEPT !.retry = FALSE, !.grace = 0]
  <2>1. m \in Meter
    BY TypeMeter
  <2>2. meter' = [meter EXCEPT ![s] = m]
    BY DEF Resume
  <2> HIDE DEF m
  <2> QED
    BY <2>1, <2>2, TypeLifecycle DEF Resume, ledgerVars, TypeOK, LedgerTypeOK
<1>8. CASE \E s \in Sessions : Pause(s)
  BY <1>8, TypeLifecycle DEF Pause, ledgerVars, TypeOK, LedgerTypeOK
<1>9. CASE \E s \in Sessions : Stop(s)
  BY <1>9, TypeLifecycle DEF Stop, ledgerVars, TypeOK, LedgerTypeOK
<1>10. CASE \E s \in Sessions : SetPaymentStreamActive(s)
  BY <1>10, TypeLifecycle DEF SetPaymentStreamActive, ledgerVars, TypeOK, LedgerTypeOK
<1>11. CASE TickBegin
  BY <1>11 DEF TickBegin, ledgerVars, TypeOK, LedgerTypeOK
<1>12. CASE \E s \in Sessions : TickSession(s)
  BY <1>12, TypeTick
<1>13. CASE Elapse
  <2> DEFINE left(s) == IF meter[s].grace > 0 THEN meter[s].grace - 1 ELSE 0
             age(s)  == IF summary[s].since \in {Never, SummaryWindow}
                          THEN summary[s].since ELSE summary[s].since + 1
  <2>1. ASSUME NEW s \in Sessions
        PROVE  /\ [meter[s] EXCEPT !.grace = left(s)] \in Meter
               /\ [summary[s] EXCEPT !.since = age(s)] \in Summary
    <3>1. meter[s] \in Meter /\ summary[s] \in Summary
      BY DEF TypeOK
    <3>2. meter[s].grace \in 0 .. Grace
      BY <3>1 DEF Meter
    <3>3. summary[s].since \in {Never} \union (0 .. SummaryWindow)
      BY <3>1 DEF Summary
    <3>4. left(s) \in 0 .. Grace
      BY <3>2, BillingAssumption
    <3>5. age(s) \in {Never} \union (0 .. SummaryWindow)
      BY <3>3, BillingAssumption DEF Never
    <3> HIDE DEF left, age
    <3>6. [meter[s] EXCEPT !.grace = left(s)] \in Meter
      BY <3>1, <3>4 DEF Meter
    <3>7. [summary[s] EXCEPT !.since = age(s)] \in Summary
      BY <3>1, <3>5 DEF Summary
    <3> QED
      BY <3>6, <3>7
  <2>2. /\ meter' = [s \in Sessions |-> [meter[s] EXCEPT !.grace = left(s)]]
        /\ summary' = [s \in Sessions |-> [summary[s] EXCEPT !.since = age(s)]]
    BY <1>13 DEF Elapse
  <2> HIDE DEF left, age
  <2>3. meter' \in [Sessions -> Meter] /\ summary' \in [Sessions -> Summary]
    BY <2>1, <2>2
  <2> QED
    BY <1>13, <2>3 DEF Elapse, ledgerVars, TypeOK, LedgerTypeOK
<1>14. CASE UNCHANGED vars
  BY <1>14 DEF vars, billingVars, ledgerVars, TypeOK, LedgerTypeOK
<1> QED
  BY <1>1, <1>2, <1>3, <1>4, <1>5, <1>6, <1>7, <1>8, <1>9, <1>10, <1>11,
     <1>12, <1>13, <1>14 DEF Next

\* Whatever the requests, the top-ups and the billing pass do in between one
\* another, the sessions keep their types and no balance falls below zero.
THEOREM TypeCorrect == Spec => []TypeOK
  BY TypeInit, TypeStep, PTL DEF Spec

-----------------------------------------------------------------------------
(* Accounting *)

LEMMA AccountingInit == Init => Accounting
<1> SUFFICES ASSUME Init
             PROVE  Accounting
  OBVIOUS
<1>1. TypeOK
  BY TypeInit
<1>2. BlankWhileFresh /\ KeysAreCommitted
  BY DEF Init, LedgerInit, BlankWhileFresh, KeysAreCommitted
<1>3. RuntimeAccounted
  BY BillingAssumption DEF Init, RuntimeAccounted
<1>4. DebitsMatchCharges /\ SummariesComplete
  BY DEF Init, LedgerInit, DebitsMatchCharges, SummariesComplete
<1> QED
  BY <1>1, <1>2, <1>3, <1>4 DEF Accounting

\* The parts of the meter, the ledger and the summary that the accounts read.
Accounts ==
    <<[s \in Sessions |-> <<meter[s].billed, meter[s].charged,
                            meter[s].numerator, meter[s].seq>>],
      [s \in Sessions |-> summary[s].units],
      waived, reported, debited, chargeKeys, restarted>>

\* A step that leaves them alone keeps the accounts: no session that has run
\* becomes fresh again, and only a fresh one is given an agent.
LEMMA AccountsUnchanged ==
    ASSUME Accounting, TypeOK', UNCHANGED Accounts,
           \A s \in Sessions : Fresh(s)' => Fresh(s),
           \A s \in Sessions : Fresh(s) \/ sess'[s].agent = sess[s].agent
    PROVE  Accounting'
<1>1. \A s \in Sessions :
        /\ meter'[s].billed = meter[s].billed
        /\ meter'[s].charged = meter[s].charged
        /\ meter'[s].numerator = meter[s].numerator
        /\ meter'[s].seq = meter[s].seq
        /\ summary'[s].units = summary[s].units
  BY DEF Accounts
<1>2. /\ waived' = waived
      /\ reported' = reported
      /\ debited' = debited
      /\ chargeKeys' = chargeKeys
      /\ restarted' = restarted
  BY DEF Accounts
<1>3. BlankWhileFresh'
  BY <1>1, <1>2 DEF Accounting, BlankWhileFresh
<1>4. KeysAreCommitted'
  <2>1. \A k \in chargeKeys : k[2] \in Sessions
    BY DEF Accounting, TypeOK, LedgerTypeOK
  <2> QED
    BY <1>1, <1>2, <2>1 DEF Accounting, KeysAreCommitted
<1>5. RuntimeAccounted'
  <2> SUFFICES ASSUME NEW s \in Sessions, sess'[s].agent \in Agents
               PROVE  SecondsPerMinute * meter[s].charged + meter[s].numerator + waived[s]
                        = Rate * meter[s].billed
    BY <1>1, <1>2 DEF RuntimeAccounted
  <2>1. CASE Fresh(s)
    <3>1. /\ meter[s].charged = 0 /\ meter[s].numerator = 0
          /\ meter[s].billed = 0 /\ waived[s] = 0
      BY <2>1 DEF Accounting, BlankWhileFresh
    <3> QED
      BY <3>1, BillingAssumption
  <2>2. CASE sess'[s].agent = sess[s].agent
    BY <2>2 DEF Accounting, RuntimeAccounted
  <2> QED
    BY <2>1, <2>2
<1>6. DebitsMatchCharges' /\ SummariesComplete'
  BY <1>1, <1>2 DEF Accounting, DebitsMatchCharges, SummariesComplete
<1> QED
  BY <1>3, <1>4, <1>5, <1>6 DEF Accounting

\* A second that is counted but not metered is waived.
LEMMA AccountingUncharged ==
    ASSUME Accounting, TypeOK', NEW s \in Sessions, TickSession(s),
           TickUnmetered(s) \/ TickGrace(s)
    PROVE  Accounting'
<1> USE DEF Accounting
<1>1. /\ meter' = [meter EXCEPT ![s] = MeterUncharged(s)]
      /\ UNCHANGED <<sess, summary, reported, restarted, debited, chargeKeys>>
  BY DEF TickUnmetered, TickGrace, TickSession, ledgerVars
<1>2. \A x \in Sessions :
        /\ meter'[x].charged = meter[x].charged
        /\ meter'[x].numerator = meter[x].numerator
        /\ meter'[x].seq = meter[x].seq
        /\ meter'[x].billed = IF x = s THEN meter[x].billed + 1 ELSE meter[x].billed
  BY <1>1 DEF MeterUncharged, TypeOK, Meter
<1>3. ~Fresh(s)
  BY DEF TickUnmetered, TickGrace, IsBilled, Fresh, Absent, Created, Running
<1>4. \A x \in Sessions : x # s => waived'[x] = waived[x]
  BY DEF TickUnmetered, TickGrace, TypeOK
<1>5. BlankWhileFresh'
  BY <1>1, <1>2, <1>3, <1>4 DEF BlankWhileFresh, Fresh
<1>6. KeysAreCommitted'
  <2>1. \A k \in chargeKeys : k[2] \in Sessions
    BY DEF TypeOK, LedgerTypeOK
  <2> QED
    BY <1>1, <1>2, <2>1 DEF KeysAreCommitted
<1>7. RuntimeAccounted'
  <2> SUFFICES ASSUME NEW x \in Sessions, sess[x].agent \in Agents
               PROVE  SecondsPerMinute * meter'[x].charged + meter'[x].numerator + waived'[x]
                        = Rate * meter'[x].billed
    BY <1>1 DEF RuntimeAccounted
  <2>1. SecondsPerMinute * meter[x].charged + meter[x].numerator + waived[x]
          = Rate * meter[x].billed
    BY DEF RuntimeAccounted
  <2>2. CASE x # s
    BY <1>2, <1>4, <2>1, <2>2
  <2>3. CASE x = s
    <3>1. waived'[x] = waived[x] + Rate
      BY <2>3, BillingAssumption DEF TickUnmetered, TickGrace, TypeOK
    <3>2. /\ meter[x].charged \in Nat /\ meter[x].numerator \in Nat
          /\ meter[x].billed \in Nat /\ waived[x] \in Nat
      BY DEF TypeOK, Meter
    <3>3. SecondsPerMinute * meter[x].charged \in Nat
      BY <3>2, BillingAssumption
    <3>4. Rate * (meter[x].billed + 1) = Rate * meter[x].billed + Rate
      BY <3>2, BillingAssumption
    <3>5. Rate * meter[x].billed \in Nat /\ Rate \in Nat
      BY <3>2, BillingAssumption
    <3> QED
      BY <1>2, <2>1, <2>3, <3>1, <3>2, <3>3, <3>4, <3>5
  <2> QED
    BY <2>2, <2>3
<1>8. DebitsMatchCharges' /\ SummariesComplete'
  BY <1>1, <1>2 DEF DebitsMatchCharges, SummariesComplete
<1> QED
  BY <1>5, <1>6, <1>7, <1>8

\* A metered second without a charge is added to the open window, or carried
\* into the next one.
LEMMA AccountingMetered ==
    ASSUME Accounting, TypeOK', NEW s \in Sessions, TickSession(s),
           TickAccrue(s) \/ TickCarry(s) \/ TickRetryLater(s) \/ TickAutoPause(s)
    PROVE  Accounting'
<1> USE DEF Accounting
<1>1. /\ UNCHANGED <<summary, waived, reported, restarted, debited, chargeKeys>>
      /\ IsBilled(s)
  BY DEF TickAccrue, TickCarry, TickRetryLater, TickAutoPause, TickSession,
         ledgerVars, Settling, Metered
<1>2. \A x \in Sessions :
        /\ sess'[x].agent = sess[x].agent
        /\ Fresh(x)' => Fresh(x)
  <2>1. CASE UNCHANGED sess
    BY <2>1 DEF Fresh
  <2>2. CASE TickAutoPause(s)
    <3>1. sess' = [sess EXCEPT ![s] = PausedForFunds(s)]
      BY <2>2 DEF TickAutoPause
    <3>2. sess[s] \in Lifecycle
      BY DEF TypeOK
    <3>3. PausedForFunds(s).agent = sess[s].agent /\ PausedForFunds(s).state = Paused
      BY <3>2 DEF PausedForFunds, Lifecycle
    <3>4. Paused \notin {Absent, Created}
      BY DEF Absent, Created, Paused
    <3> QED
      BY <3>1, <3>3, <3>4 DEF TypeOK, Fresh
  <2> QED
    BY <2>1, <2>2 DEF TickAccrue, TickCarry, TickRetryLater
<1>3. Accrued(s) = meter[s].numerator + Rate /\ Accrued(s) \in Nat
  BY Settlement
<1>4. TickCarry(s) => RemNumerator(s) = Accrued(s)
  <2> SUFFICES ASSUME TickCarry(s)
               PROVE  RemNumerator(s) = Accrued(s)
    OBVIOUS
  <2>1. ChargeUnits(s) = 0
    BY DEF TickCarry
  <2>2. SecondsPerMinute * 0 = 0
    BY BillingAssumption
  <2>3. SecondsPerMinute * ChargeUnits(s) + RemNumerator(s) = Accrued(s)
    BY Settlement
  <2>4. RemNumerator(s) \in Nat
    BY Settlement
  <2> QED
    BY <2>1, <2>2, <2>3, <2>4
<1>5. PICK m : /\ meter' = [meter EXCEPT ![s] = m]
               /\ m.charged = meter[s].charged
               /\ m.seq = meter[s].seq
               /\ m.numerator = Accrued(s)
               /\ m.billed = meter[s].billed + 1
  <2>1. meter[s] \in Meter
    BY DEF TypeOK
  <2>2. ASSUME NEW retry, NEW grace
        PROVE  /\ MeterAccruing(s, retry, grace).charged = meter[s].charged
               /\ MeterAccruing(s, retry, grace).seq = meter[s].seq
               /\ MeterAccruing(s, retry, grace).numerator = Accrued(s)
               /\ MeterAccruing(s, retry, grace).billed = meter[s].billed + 1
    BY <2>1 DEF MeterAccruing, Meter
  <2>3. CASE TickAccrue(s)
    <3>1. meter' = [meter EXCEPT ![s] = MeterAccruing(s, meter[s].retry, meter[s].grace)]
      BY <2>3 DEF TickAccrue
    <3> DEFINE m == MeterAccruing(s, meter[s].retry, meter[s].grace)
    <3>2. /\ m.charged = meter[s].charged
          /\ m.seq = meter[s].seq
          /\ m.numerator = Accrued(s)
          /\ m.billed = meter[s].billed + 1
      BY <2>1 DEF MeterAccruing, Meter
    <3>3. meter' = [meter EXCEPT ![s] = m]
      BY <3>1
    <3> HIDE DEF m
    <3> QED
      BY <3>2, <3>3
  <2>4. CASE TickRetryLater(s)
    BY <2>2, <2>4 DEF TickRetryLater
  <2>5. CASE TickAutoPause(s)
    BY <2>2, <2>5 DEF TickAutoPause
  <2>6. CASE TickCarry(s)
    <3>1. meter' = [meter EXCEPT ![s] = MeterAfterCarry(s)]
      BY <2>6 DEF TickCarry
    <3>2. /\ MeterAfterCarry(s).charged = meter[s].charged
          /\ MeterAfterCarry(s).seq = meter[s].seq
          /\ MeterAfterCarry(s).numerator = RemNumerator(s)
          /\ MeterAfterCarry(s).billed = meter[s].billed + 1
      BY <2>1 DEF MeterAfterCarry, Meter
    <3> QED
      BY <1>4, <2>6, <3>1, <3>2
  <2> QED
    BY <2>3, <2>4, <2>5, <2>6
<1>6. \A x \in Sessions :
        /\ meter'[x].charged = meter[x].charged
        /\ meter'[x].seq = meter[x].seq
        /\ meter'[x].numerator = IF x = s THEN Accrued(s) ELSE meter[x].numerator
        /\ meter'[x].billed = IF x = s THEN meter[x].billed + 1 ELSE meter[x].billed
  BY <1>5 DEF TypeOK
<1>7. BlankWhileFresh'
  <2>1. ~Fresh(s)
    BY <1>1 DEF IsBilled, Fresh, Absent, Created, Running
  <2> QED
    BY <1>1, <1>2, <1>6, <2>1 DEF BlankWhileFresh
<1>8. KeysAreCommitted'
  <2>1. \A k \in chargeKeys : k[2] \in Sessions
    BY DEF TypeOK, LedgerTypeOK
  <2> QED
    BY <1>1, <1>6, <2>1 DEF KeysAreCommitted
<1>9. RuntimeAccounted'
  <2> SUFFICES ASSUME NEW x \in Sessions, sess[x].agent \in Agents
               PROVE  SecondsPerMinute * meter'[x].charged + meter'[x].numerator + waived'[x]
                        = Rate * meter'[x].billed
    BY <1>2 DEF RuntimeAccounted
  <2>1. SecondsPerMinute * meter[x].charged + meter[x].numerator + waived[x]
          = Rate * meter[x].billed
    BY DEF RuntimeAccounted
  <2>2. CASE x # s
    BY <1>1, <1>6, <2>1, <2>2
  <2>3. CASE x = s
    <3>1. /\ meter[x].charged \in Nat /\ meter[x].numerator \in Nat
          /\ meter[x].billed \in Nat /\ waived[x] \in Nat
      BY DEF TypeOK, Meter
    <3>2. SecondsPerMinute * meter[x].charged \in Nat
      BY <3>1, BillingAssumption
    <3>3. Rate * (meter[x].billed + 1) = Rate * meter[x].billed + Rate
      BY <3>1, BillingAssumption
    <3>4. Rate * meter[x].billed \in Nat /\ Rate \in Nat
      BY <3>1, BillingAssumption
    <3> QED
      BY <1>1, <1>3, <1>6, <2>1, <2>3, <3>1, <3>2, <3>3, <3>4
  <2> QED
    BY <2>2, <2>3
<1>10. DebitsMatchCharges' /\ SummariesComplete'
  BY <1>1, <1>6 DEF DebitsMatchCharges, SummariesComplete
<1> QED
  BY <1>7, <1>8, <1>9, <1>10

\* The next debit of a session that was never started again has a key of its
\* own, so an accepted charge for it is taken from the balance.
LEMMA DebitIsNew ==
    ASSUME Accounting, NEW s \in Sessions, NEW a \in Agents, s \notin restarted
    PROVE  ~AlreadyCharged(a, s, Bucket(s))
<1>1. meter[s].seq \in Nat
  BY DEF Accounting, TypeOK, Meter
<1>2. SUFFICES ASSUME <<a, s, Bucket(s)>> \in chargeKeys
               PROVE  FALSE
  BY DEF AlreadyCharged
<1>3. Bucket(s) <= meter[s].seq
  BY <1>2 DEF Accounting, KeysAreCommitted
<1> QED
  BY <1>1, <1>3 DEF Bucket

\* A charge moves whole units from the accrual to the charged units, takes
\* them from the balance and adds them to the summary.
LEMMA AccountingCharged ==
    ASSUME Accounting, TypeOK', NEW s \in Sessions, TickSession(s), TickCharge(s)
    PROVE  Accounting'
<1> USE DEF Accounting
<1> DEFINE due == ChargeUnits(s)
           a == sess[s].agent
<1>1. /\ UNCHANGED <<sess, waived, restarted>>
      /\ IsBilled(s)
      /\ a \in Agents
  BY DEF TickCharge, TickSession, Settling, Metered
<1>2. /\ due \in Nat
      /\ RemNumerator(s) \in Nat
      /\ Bucket(s) = meter[s].seq + 1
      /\ SecondsPerMinute * due + RemNumerator(s) = meter[s].numerator + Rate
  BY Settlement DEF Bucket
<1>3. ~Fresh(s)
  BY <1>1 DEF IsBilled, Fresh, Absent, Created, Running
<1>4. \A x \in Sessions :
        /\ meter'[x].charged = IF x = s THEN meter[x].charged + due ELSE meter[x].charged
        /\ meter'[x].seq = IF x = s THEN meter[x].seq + 1 ELSE meter[x].seq
        /\ meter'[x].numerator = IF x = s THEN RemNumerator(s) ELSE meter[x].numerator
        /\ meter'[x].billed = IF x = s THEN meter[x].billed + 1 ELSE meter[x].billed
  <2>1. meter[s] \in Meter
    BY DEF TypeOK
  <2>2. /\ MeterAfterCharge(s).charged = meter[s].charged + due
        /\ MeterAfterCharge(s).seq = meter[s].seq + 1
        /\ MeterAfterCharge(s).numerator = RemNumerator(s)
        /\ MeterAfterCharge(s).billed = meter[s].billed + 1
    BY <2>1 DEF MeterAfterCharge, Meter
  <2>3. meter' = [meter EXCEPT ![s] = MeterAfterCharge(s)]
    BY DEF TickCharge
  <2> QED
    BY <2>2, <2>3 DEF TypeOK
<1>5. /\ chargeKeys' = chargeKeys \union {<<a, s, Bucket(s)>>}
      /\ AlreadyCharged(a, s, Bucket(s)) => debited' = debited
      /\ ~AlreadyCharged(a, s, Bucket(s)) => debited' = [debited EXCEPT ![s] = @ + due]
  BY DEF TickCharge, ChargeUsage
<1>6. BlankWhileFresh'
  BY <1>1, <1>3, <1>4 DEF BlankWhileFresh, Fresh
<1>7. KeysAreCommitted'
  <2> SUFFICES ASSUME NEW k \in chargeKeys'
               PROVE  k[2] \in restarted \/ k[3] <= meter'[k[2]].seq
    BY <1>1 DEF KeysAreCommitted
  <2>1. \A x \in Sessions : meter[x].seq \in Nat
    BY DEF TypeOK, Meter
  <2>2. CASE k \in chargeKeys
    <3>1. k[2] \in Sessions /\ k[3] \in Nat
      BY <2>2 DEF TypeOK, LedgerTypeOK
    <3>2. k[2] \in restarted \/ k[3] <= meter[k[2]].seq
      BY <2>2 DEF KeysAreCommitted
    <3> QED
      BY <1>4, <2>1, <3>1, <3>2
  <2>3. CASE k = <<a, s, Bucket(s)>>
    BY <1>2, <1>4, <2>1, <2>3
  <2> QED
    BY <1>5, <2>2, <2>3
<1>8. RuntimeAccounted'
  <2> SUFFICES ASSUME NEW x \in Sessions, sess[x].agent \in Agents
               PROVE  SecondsPerMinute * meter'[x].charged + meter'[x].numerator + waived[x]
                        = Rate * meter'[x].billed
    BY <1>1 DEF RuntimeAccounted
  <2>1. SecondsPerMinute * meter[x].charged + meter[x].numerator + waived[x]
          = Rate * meter[x].billed
    BY DEF RuntimeAccounted
  <2>2. CASE x # s
    BY <1>4, <2>1, <2>2
  <2>3. CASE x = s
    <3>1. /\ meter[x].charged \in Nat /\ meter[x].numerator \in Nat
          /\ meter[x].billed \in Nat /\ waived[x] \in Nat
      BY DEF TypeOK, Meter
    <3>2. /\ SecondsPerMinute * meter[x].charged \in Nat
          /\ SecondsPerMinute * due \in Nat
          /\ SecondsPerMinute * (meter[x].charged + due)
               = SecondsPerMinute * meter[x].charged + SecondsPerMinute * due
      BY <1>2, <3>1, BillingAssumption
    <3>3. /\ Rate * (meter[x].billed + 1) = Rate * meter[x].billed + Rate
          /\ Rate * meter[x].billed \in Nat
          /\ Rate \in Nat
      BY <3>1, BillingAssumption
    <3> HIDE DEF due
    <3> QED
      BY <1>2, <1>4, <2>1, <2>3, <3>1, <3>2, <3>3
  <2> QED
    BY <2>2, <2>3
<1>9. DebitsMatchCharges'
  <2> SUFFICES ASSUME NEW x \in Sessions
               PROVE  /\ debited'[x] <= meter'[x].charged
                      /\ x \notin restarted => debited'[x] = meter'[x].charged
    BY <1>1 DEF DebitsMatchCharges
  <2>1. /\ debited[x] <= meter[x].charged
        /\ x \notin restarted => debited[x] = meter[x].charged
    BY DEF DebitsMatchCharges
  <2>2. debited[x] \in Nat /\ meter[x].charged \in Nat
    BY DEF TypeOK, LedgerTypeOK, Meter
  <2>3. CASE x # s
    <3>1. debited'[x] = debited[x]
      BY <1>5, <2>3 DEF TypeOK, LedgerTypeOK
    <3> QED
      BY <1>4, <2>1, <2>3, <3>1
  <2>4. CASE x = s /\ AlreadyCharged(a, s, Bucket(s))
    <3>1. s \in restarted
      BY <1>1, <2>4, DebitIsNew
    <3> QED
      BY <1>2, <1>4, <1>5, <2>1, <2>2, <2>4, <3>1
  <2>5. CASE x = s /\ ~AlreadyCharged(a, s, Bucket(s))
    <3>1. debited'[x] = debited[x] + due
      BY <1>5, <2>5 DEF TypeOK, LedgerTypeOK
    <3> QED
      BY <1>2, <1>4, <2>1, <2>2, <2>5, <3>1
  <2> QED
    BY <2>3, <2>4, <2>5
<1>10. SummariesComplete'
  <2>1. \A x \in Sessions :
          reported'[x] + summary'[x].units
            = IF x = s THEN reported[x] + summary[x].units + due
                       ELSE reported[x] + summary[x].units
    <3>1. \A x \in Sessions : summary[x] \in Summary /\ reported[x] \in Nat
      BY DEF TypeOK
    <3>2. \A x \in Sessions : summary[x].units \in Nat
      BY <3>1 DEF Summary
    <3>3. CASE Report(s, due)
      BY <1>2, <3>1, <3>2, <3>3 DEF Report, TypeOK
    <3>4. CASE Defer(s, due)
      <4>1. SummaryAfterDefer(s, due).units = summary[s].units + due
        BY <3>1 DEF SummaryAfterDefer, Summary
      <4>2. \A x \in Sessions :
              summary'[x].units = IF x = s THEN summary[x].units + due ELSE summary[x].units
        BY <3>4, <4>1 DEF Defer, TypeOK
      <4> QED
        BY <1>2, <3>1, <3>2, <3>4, <4>2 DEF Defer
    <3> QED
      BY <3>3, <3>4 DEF TickCharge
  <2> QED
    BY <1>4, <2>1 DEF SummariesComplete
<1> QED
  BY <1>6, <1>7, <1>8, <1>9, <1>10

\* A start drops the open window: what it had accrued is waived.  It resets
\* the number of the debit, which only a start from paused can tell.
LEMMA AccountingStarted ==
    ASSUME Accounting, TypeOK', NEW s \in Sessions, Start(s)
    PROVE  Accounting'
<1> USE DEF Accounting
<1>1. \A x \in Sessions :
        /\ meter'[x].billed = meter[x].billed
        /\ meter'[x].charged = meter[x].charged
        /\ meter'[x].numerator = IF x = s THEN 0 ELSE meter[x].numerator
        /\ meter'[x].seq = IF x = s THEN 0 ELSE meter[x].seq
  <2>1. meter[s] \in Meter
    BY DEF TypeOK
  <2>2. /\ MeterAtStart(s).billed = meter[s].billed
        /\ MeterAtStart(s).charged = meter[s].charged
        /\ MeterAtStart(s).numerator = 0
        /\ MeterAtStart(s).seq = 0
    BY <2>1 DEF MeterAtStart, Meter
  <2>3. meter' = [meter EXCEPT ![s] = MeterAtStart(s)]
    BY DEF Start
  <2> QED
    BY <2>2, <2>3 DEF TypeOK
<1>2. /\ UNCHANGED <<summary, reported, debited, chargeKeys>>
      /\ restarted' = IF sess[s].state = Paused THEN restarted \union {s} ELSE restarted
      /\ sess[s].state \in {Created, Paused}
  BY DEF Start, Startable, ledgerVars
<1>3. \A x \in Sessions :
        /\ sess'[x].agent = sess[x].agent
        /\ Fresh(x)' => Fresh(x) /\ x # s
  <2>1. sess[s] \in Lifecycle /\ sess' = [sess EXCEPT ![s] = NowRunning(s)]
    BY DEF TypeOK, Start
  <2>2. NowRunning(s).agent = sess[s].agent /\ NowRunning(s).state = Running
    BY <2>1 DEF NowRunning, Lifecycle
  <2>3. Running \notin {Absent, Created}
    BY DEF Absent, Created, Running
  <2> QED
    BY <2>1, <2>2, <2>3 DEF TypeOK, Fresh
<1>4. \A x \in Sessions :
        waived'[x] = IF x = s THEN waived[x] + meter[x].numerator ELSE waived[x]
  BY DEF Start, TypeOK
<1>5. BlankWhileFresh'
  BY <1>1, <1>3, <1>4 DEF BlankWhileFresh
<1>6. KeysAreCommitted'
  <2> SUFFICES ASSUME NEW k \in chargeKeys
               PROVE  k[2] \in restarted' \/ k[3] <= meter'[k[2]].seq
    BY <1>2 DEF KeysAreCommitted
  <2>1. k[2] \in Sessions
    BY DEF TypeOK, LedgerTypeOK
  <2>2. k[2] \in restarted \/ k[3] <= meter[k[2]].seq
    BY DEF KeysAreCommitted
  <2>3. CASE sess[s].state = Paused
    BY <1>1, <1>2, <2>1, <2>2, <2>3
  <2>4. CASE sess[s].state = Created
    <3>1. meter[s].seq = 0
      BY <2>4 DEF BlankWhileFresh, Fresh
    <3> QED
      BY <1>1, <1>2, <2>1, <2>2, <3>1
  <2> QED
    BY <1>2, <2>3, <2>4
<1>7. RuntimeAccounted'
  <2> SUFFICES ASSUME NEW x \in Sessions, sess[x].agent \in Agents
               PROVE  SecondsPerMinute * meter[x].charged + meter'[x].numerator + waived'[x]
                        = Rate * meter[x].billed
    BY <1>1, <1>3 DEF RuntimeAccounted
  <2>1. SecondsPerMinute * meter[x].charged + meter[x].numerator + waived[x]
          = Rate * meter[x].billed
    BY DEF RuntimeAccounted
  <2>2. /\ meter[x].charged \in Nat /\ meter[x].numerator \in Nat /\ waived[x] \in Nat
    BY DEF TypeOK, Meter
  <2>3. SecondsPerMinute * meter[x].charged \in Nat
    BY <2>2, BillingAssumption
  <2>4. meter'[x].numerator + waived'[x] = meter[x].numerator + waived[x]
    BY <1>1, <1>4, <2>2
  <2>5. meter'[x].numerator \in Nat /\ waived'[x] \in Nat
    BY <1>1, <1>4, <2>2
  <2> QED
    BY <2>1, <2>2, <2>3, <2>4, <2>5
<1>8. DebitsMatchCharges' /\ SummariesComplete'
  BY <1>1, <1>2 DEF DebitsMatchCharges, SummariesComplete
<1> QED
  BY <1>5, <1>6, <1>7, <1>8

LEMMA AccountingStep == Accounting /\ [Next]_vars => Accounting'
<1> SUFFICES ASSUME Accounting, [Next]_vars
             PROVE  Accounting'
  OBVIOUS
<1>0. TypeOK /\ TypeOK'
  BY TypeStep DEF Accounting
<1>1. CASE \E a \in Agents, r \in Receipts : TopUp(a, r)
  BY <1>0, <1>1, AccountsUnchanged DEF TopUp, Credit, billingVars, Accounts, Fresh
<1>2. CASE \E a \in Agents : TopUpUnreceipted(a)
  BY <1>0, <1>2, AccountsUnchanged
     DEF TopUpUnreceipted, CreditUnreceipted, billingVars, Accounts, Fresh
<1>3. CASE \E s \in Sessions, a \in Agents \union {NoAgent} : Create(s, a)
  <2> PICK s \in Sessions, a \in Agents \union {NoAgent} : Create(s, a)
    BY <1>3
  <2>1. UNCHANGED Accounts
    BY DEF Create, ledgerVars, Accounts
  <2>2. sess[s].state = Absent
    BY DEF Create
  <2>3. \A x \in Sessions : x = s \/ sess'[x] = sess[x]
    BY <1>0 DEF Create, TypeOK
  <2> QED
    BY <1>0, <2>1, <2>2, <2>3, AccountsUnchanged DEF Fresh
<1>4. CASE \E op \in {"start", "resume"}, s \in Sessions : Admit(op, s)
  BY <1>0, <1>4, AccountsUnchanged DEF Admit, ledgerVars, Accounts, Fresh
<1>5. CASE \E op \in {"start", "resume"}, s \in Sessions : Reject(op, s)
  BY <1>0, <1>5, AccountsUnchanged DEF Reject, ledgerVars, Accounts, Fresh
<1>6. CASE \E s \in Sessions : Start(s)
  BY <1>0, <1>6, AccountingStarted
<1>7. CASE \E s \in Sessions : Resume(s)
  <2> PICK s \in Sessions : Resume(s)
    BY <1>7
  <2> DEFINE m == [meter[s] EXCEPT !.retry = FALSE, !.grace = 0]
  <2>1. meter' = [meter EXCEPT ![s] = m] /\ meter[s] \in Meter
    BY <1>0 DEF Resume, TypeOK
  <2>2. /\ m.billed = meter[s].billed /\ m.charged = meter[s].charged
        /\ m.numerator = meter[s].numerator /\ m.seq = meter[s].seq
    BY <2>1 DEF Meter
  <2> HIDE DEF m
  <2>3. \A x \in Sessions :
          /\ meter'[x].billed = meter[x].billed /\ meter'[x].charged = meter[x].charged
          /\ meter'[x].numerator = meter[x].numerator /\ meter'[x].seq = meter[x].seq
    BY <1>0, <2>1, <2>2 DEF TypeOK
  <2>4. UNCHANGED Accounts
    BY <2>3 DEF Resume, ledgerVars, Accounts
  <2>5. sess' = [sess EXCEPT ![s] = NowRunning(s)] /\ sess[s] \in Lifecycle
    BY <1>0 DEF Resume, TypeOK
  <2>6. NowRunning(s).agent = sess[s].agent /\ NowRunning(s).state = Running
    BY <2>5 DEF NowRunning, Lifecycle
  <2>7. \A x \in Sessions : (Fresh(x)' => Fresh(x)) /\ sess'[x].agent = sess[x].agent
    BY <1>0, <2>5, <2>6 DEF TypeOK, Fresh, Absent, Created, Running
  <2> QED
    BY <1>0, <2>4, <2>7, AccountsUnchanged
<1>8. CASE \E s \in Sessions :
             Pause(s) \/ Stop(s) \/ SetPaymentStreamActive(s)
  <2> PICK s \in Sessions : Pause(s) \/ Stop(s) \/ SetPaymentStreamActive(s)
    BY <1>8
  <2>1. UNCHANGED Accounts
    BY DEF Pause, Stop, SetPaymentStreamActive, ledgerVars, Accounts
  <2>2. sess[s] \in Lifecycle
    BY <1>0 DEF TypeOK
  <2>3. PICK l : /\ sess' = [sess EXCEPT ![s] = l]
                 /\ l.agent = sess[s].agent
                 /\ l.state \in {Running, Paused, Stopped}
    <3>1. CASE Pause(s)
      <4> DEFINE l == [sess[s] EXCEPT !.state = Paused, !.stream = FALSE]
      <4>1. l.agent = sess[s].agent /\ l.state = Paused
        BY <2>2 DEF Lifecycle
      <4>2. sess' = [sess EXCEPT ![s] = l]
        BY <3>1 DEF Pause
      <4> HIDE DEF l
      <4> QED
        BY <4>1, <4>2
    <3>2. CASE Stop(s)
      <4> DEFINE l == [sess[s] EXCEPT !.state = Stopped, !.stream = FALSE]
      <4>1. l.agent = sess[s].agent /\ l.state = Stopped
        BY <2>2 DEF Lifecycle
      <4>2. sess' = [sess EXCEPT ![s] = l]
        BY <3>2 DEF Stop
      <4> HIDE DEF l
      <4> QED
        BY <4>1, <4>2
    <3>3. CASE SetPaymentStreamActive(s)
      <4>1. /\ StreamToggled(s).agent = sess[s].agent
            /\ StreamToggled(s).state = sess[s].state
        BY <2>2 DEF StreamToggled, Lifecycle
      <4> QED
        BY <3>3, <4>1 DEF SetPaymentStreamActive
    <3> QED
      BY <3>1, <3>2, <3>3
  <2>4. \A x \in Sessions : (Fresh(x)' => Fresh(x)) /\ sess'[x].agent = sess[x].agent
    BY <1>0, <2>3 DEF TypeOK, Fresh, Absent, Created, Running, Paused, Stopped
  <2> QED
    BY <1>0, <2>1, <2>4, AccountsUnchanged
<1>9. CASE TickBegin
  BY <1>0, <1>9, AccountsUnchanged DEF TickBegin, ledgerVars, Accounts, Fresh
<1>10. CASE \E s \in Sessions : TickSession(s)
  <2> PICK s \in Sessions : TickSession(s)
    BY <1>10
  <2>1. CASE TickIdle(s)
    BY <1>0, <2>1, AccountsUnchanged DEF TickIdle, TickSession, ledgerVars, Accounts, Fresh
  <2>2. CASE TickUnmetered(s) \/ TickGrace(s)
    BY <1>0, <2>2, AccountingUncharged
  <2>3. CASE TickAccrue(s) \/ TickCarry(s) \/ TickRetryLater(s) \/ TickAutoPause(s)
    BY <1>0, <2>3, AccountingMetered
  <2>4. CASE TickCharge(s)
    BY <1>0, <2>4, AccountingCharged
  <2> QED
    BY <2>1, <2>2, <2>3, <2>4 DEF TickSession
<1>11. CASE Elapse
  <2>1. \A x \in Sessions :
          /\ meter'[x].billed = meter[x].billed /\ meter'[x].charged = meter[x].charged
          /\ meter'[x].numerator = meter[x].numerator /\ meter'[x].seq = meter[x].seq
    BY <1>0, <1>11 DEF Elapse, TypeOK, Meter
  <2>2. \A x \in Sessions : summary'[x].units = summary[x].units
    BY <1>0, <1>11 DEF Elapse, TypeOK, Summary
  <2>3. UNCHANGED Accounts
    BY <1>11, <2>1, <2>2 DEF Elapse, ledgerVars, Accounts
  <2> QED
    BY <1>0, <1>11, <2>3, AccountsUnchanged DEF Elapse, Fresh
<1>12. CASE UNCHANGED vars
  BY <1>0, <1>12, AccountsUnchanged DEF vars, billingVars, ledgerVars, Accounts, Fresh
<1> QED
  BY <1>1, <1>2, <1>3, <1>4, <1>5, <1>6, <1>7, <1>8, <1>9, <1>10, <1>11, <1>12 DEF Next

\* The inductive invariant behind the statements about money below.
THEOREM AccountingInvariant == Spec => []Accounting
  BY AccountingInit, AccountingStep, PTL DEF Spec

\* The runtime of a metered session is charged, waiting in the open window or
\* was waived: runBillingTick loses and repeats no fraction of a unit.
THEOREM RuntimeAccountedCorrect == Spec => []RuntimeAccounted
<1>1. Accounting => RuntimeAccounted
  BY DEF Accounting
<1> QED
  BY <1>1, AccountingInvariant, PTL

\* What a session reports as charged was debited, once, unless the session
\* was started again from paused; more is never debited.
THEOREM DebitsMatchChargesCorrect == Spec => []DebitsMatchCharges
<1>1. Accounting => DebitsMatchCharges
  BY DEF Accounting
<1> QED
  BY <1>1, AccountingInvariant, PTL

\* Every charged unit is in one billing_summary event or pending for one.
THEOREM SummariesCompleteCorrect == Spec => []SummariesComplete
<1>1. Accounting => SummariesComplete
  BY DEF Accounting
<1> QED
  BY <1>1, AccountingInvariant, PTL

-----------------------------------------------------------------------------
(* What a step may do to a session *)

\* What a step that does not pause a session for lack of funds does to its
\* lifecycle: a stopped session stays stopped, AutoPausedForFunds is not set.
Ordinary(s) ==
    /\ sess[s].state = Stopped => sess'[s].state = Stopped
    /\ sess'[s].autoPaused => sess[s].autoPaused

\* Start, Resume, Pause, Stop and SetPaymentStreamActive write the session in
\* one Update, which looks at the state first.
LEMMA RequestsAreOrdinary ==
    ASSUME TypeOK, NEW s \in Sessions, NEW x \in Sessions,
           \/ \E a \in Agents \union {NoAgent} : Create(s, a)
           \/ Start(s) \/ Resume(s) \/ Pause(s) \/ Stop(s) \/ SetPaymentStreamActive(s)
    PROVE  Ordinary(x)
<1>1. sess[s] \in Lifecycle /\ sess[x] \in Lifecycle
  BY DEF TypeOK
<1>2. ASSUME NEW l, sess' = [sess EXCEPT ![s] = l], sess[s].state # Stopped,
             l.autoPaused => sess[s].autoPaused
      PROVE  Ordinary(x)
  BY <1>2 DEF TypeOK, Ordinary
<1>3. ASSUME NEW l, sess' = [sess EXCEPT ![s] = l], l.state = Stopped,
             l.autoPaused => sess[s].autoPaused
      PROVE  Ordinary(x)
  BY <1>3 DEF TypeOK, Ordinary
<1>4. CASE \E a \in Agents \union {NoAgent} : Create(s, a)
  <2> PICK a \in Agents \union {NoAgent} : Create(s, a)
    BY <1>4
  <2> DEFINE l == [sess[s] EXCEPT !.state = Created, !.agent = a]
  <2>1. sess' = [sess EXCEPT ![s] = l] /\ sess[s].state = Absent
    BY DEF Create
  <2>2. l.autoPaused = sess[s].autoPaused
    BY <1>1 DEF Lifecycle
  <2> HIDE DEF l
  <2> QED
    BY <1>2, <2>1, <2>2 DEF Absent, Stopped
<1>5. CASE Start(s) \/ Resume(s)
  <2>1. sess' = [sess EXCEPT ![s] = NowRunning(s)]
    BY <1>5 DEF Start, Resume
  <2>2. sess[s].state # Stopped
    BY <1>5 DEF Start, Resume, Startable, Created, Paused, Stopped
  <2>3. NowRunning(s).autoPaused = FALSE
    BY <1>1 DEF NowRunning, Lifecycle
  <2> QED
    BY <1>2, <2>1, <2>2, <2>3
<1>6. CASE Pause(s)
  <2> DEFINE l == [sess[s] EXCEPT !.state = Paused, !.stream = FALSE]
  <2>1. sess' = [sess EXCEPT ![s] = l] /\ sess[s].state = Running
    BY <1>6 DEF Pause
  <2>2. l.autoPaused = sess[s].autoPaused
    BY <1>1 DEF Lifecycle
  <2> HIDE DEF l
  <2> QED
    BY <1>2, <2>1, <2>2 DEF Running, Stopped
<1>7. CASE Stop(s)
  <2> DEFINE l == [sess[s] EXCEPT !.state = Stopped, !.stream = FALSE]
  <2>1. sess' = [sess EXCEPT ![s] = l]
    BY <1>7 DEF Stop
  <2>2. l.state = Stopped /\ l.autoPaused = sess[s].autoPaused
    BY <1>1 DEF Lifecycle
  <2> HIDE DEF l
  <2> QED
    BY <1>3, <2>1, <2>2
<1>8. CASE SetPaymentStreamActive(s)
  <2>1. sess' = [sess EXCEPT ![s] = StreamToggled(s)] /\ sess[s].state = Running
    BY <1>8 DEF SetPaymentStreamActive
  <2>2. StreamToggled(s).autoPaused = sess[s].autoPaused
    BY <1>1 DEF StreamToggled, Lifecycle
  <2> QED
    BY <1>2, <2>1, <2>2 DEF Running, Stopped
<1> QED
  BY <1>4, <1>5, <1>6, <1>7, <1>8

\* The billing pass leaves a session's lifecycle alone, or it pauses it
\* because the charge for its open window was refused.
LEMMA PassIsOrdinary ==
    ASSUME TypeOK, NEW s \in Sessions, NEW x \in Sessions, TickSession(s)
    PROVE  \/ Ordinary(x)
           \/ /\ sess[x].state # Stopped
              /\ balance[sess[x].agent] < ChargeUnits(x)
<1>1. CASE UNCHANGED sess
  BY <1>1 DEF Ordinary
<1>2. CASE TickAutoPause(s)
  <2>1. /\ sess' = [sess EXCEPT ![s] = PausedForFunds(s)]
        /\ sess[s].state = Running
        /\ sess[s].agent \in Agents
        /\ ~(balance[sess[s].agent] >= ChargeUnits(s))
    BY <1>2 DEF TickAutoPause, Settling, Metered, IsBilled, Covered, ChargeAccepted
  <2>2. balance[sess[s].agent] \in Nat /\ ChargeUnits(s) \in Nat
    BY <2>1, Settlement DEF TypeOK, LedgerTypeOK
  <2>3. CASE x = s
    <3>1. sess[x].state # Stopped
      BY <2>1, <2>3 DEF Running, Stopped
    <3>2. balance[sess[x].agent] < ChargeUnits(x)
      BY <2>1, <2>2, <2>3
    <3> QED
      BY <3>1, <3>2
  <2>4. CASE x # s
    BY <2>1, <2>4 DEF TypeOK, Ordinary
  <2> QED
    BY <2>3, <2>4
<1> QED
  BY <1>1, <1>2 DEF TickSession, TickIdle, TickUnmetered, TickGrace, TickAccrue,
     TickCarry, TickCharge, TickRetryLater

LEMMA LifecycleStep ==
    ASSUME TypeOK, [Next]_vars, NEW x \in Sessions
    PROVE  \/ Ordinary(x)
           \/ /\ sess[x].state # Stopped
              /\ balance[sess[x].agent] < ChargeUnits(x)
<1>1. CASE UNCHANGED sess
  BY <1>1 DEF Ordinary
<1>2. CASE \/ \E s \in Sessions, a \in Agents \union {NoAgent} : Create(s, a)
           \/ \E s \in Sessions : Start(s)
           \/ \E s \in Sessions : Resume(s)
           \/ \E s \in Sessions : Pause(s)
           \/ \E s \in Sessions : Stop(s)
           \/ \E s \in Sessions : SetPaymentStreamActive(s)
  BY <1>2, RequestsAreOrdinary
<1>3. CASE \E s \in Sessions : TickSession(s)
  BY <1>3, PassIsOrdinary
<1> QED
  BY <1>1, <1>2, <1>3 DEF Next, vars, billingVars, TopUp, TopUpUnreceipted, Admit,
     Reject, TickBegin, Elapse

\* A stop is final: the Updates of Start and Resume look at the state again,
\* and the billing pass bills running sessions only.
THEOREM StopIsFinalCorrect == Spec => StopIsFinal
<1>1. TypeOK /\ [Next]_vars =>
        [\A s \in Sessions : sess[s].state = Stopped => sess'[s].state = Stopped]_vars
  BY LifecycleStep DEF Ordinary
<1> QED
  BY <1>1, TypeCorrect, PTL DEF Spec, StopIsFinal

\* The billing pass pauses a session only if, on the retry, its agent cannot
\* pay for the open window.
THEOREM PausedOnlyWithoutFundsCorrect == Spec => PausedOnlyWithoutFunds
<1>1. TypeOK /\ [Next]_vars =>
        [\A s \in Sessions : sess'[s].autoPaused /\ ~sess[s].autoPaused
           => balance[sess[s].agent] < ChargeUnits(s)]_vars
  BY LifecycleStep DEF Ordinary
<1> QED
  BY <1>1, TypeCorrect, PTL DEF Spec, PausedOnlyWithoutFunds

-----------------------------------------------------------------------------
(* Who is billed *)

Unbilled(s) == meter'[s].billed = meter[s].billed /\ meter'[s].charged = meter[s].charged

\* A step of the billing pass bills the session it visits, and only when that
\* session is running with its stream active.
LEMMA PassBillsOne ==
    ASSUME TypeOK, NEW s \in Sessions, NEW x \in Sessions, TickSession(s)
    PROVE  Unbilled(x) \/ IsBilled(x)
<1>1. CASE TickIdle(s)
  BY <1>1 DEF TickIdle, Unbilled
<1>2. CASE ~TickIdle(s)
  <2>1. IsBilled(s)
    BY <1>2 DEF TickSession, TickUnmetered, TickGrace, TickAccrue, TickCarry, TickCharge,
       TickRetryLater, TickAutoPause, Settling, Metered
  <2>2. \E m : meter' = [meter EXCEPT ![s] = m]
    BY <1>2 DEF TickSession, TickUnmetered, TickGrace, TickAccrue, TickCarry, TickCharge,
       TickRetryLater, TickAutoPause
  <2>3. x # s => meter'[x] = meter[x]
    BY <2>2 DEF TypeOK
  <2> QED
    BY <2>1, <2>3 DEF Unbilled
<1> QED
  BY <1>1, <1>2

\* Start, Resume and the clock write other parts of the metering.
LEMMA RequestsBillNobody ==
    ASSUME TypeOK, NEW s \in Sessions, NEW x \in Sessions, Start(s) \/ Resume(s)
    PROVE  Unbilled(x)
<1>1. meter[s] \in Meter
  BY DEF TypeOK
<1>2. PICK m : /\ meter' = [meter EXCEPT ![s] = m]
               /\ m.billed = meter[s].billed
               /\ m.charged = meter[s].charged
  <2>1. CASE Start(s)
    <3>1. meter' = [meter EXCEPT ![s] = MeterAtStart(s)]
      BY <2>1 DEF Start
    <3>2. MeterAtStart(s).billed = meter[s].billed /\ MeterAtStart(s).charged = meter[s].charged
      BY <1>1 DEF MeterAtStart, Meter
    <3> QED
      BY <3>1, <3>2
  <2>2. CASE Resume(s)
    <3> DEFINE n == [meter[s] EXCEPT !.retry = FALSE, !.grace = 0]
    <3>1. meter' = [meter EXCEPT ![s] = n]
      BY <2>2 DEF Resume
    <3>2. n.billed = meter[s].billed /\ n.charged = meter[s].charged
      BY <1>1 DEF Meter
    <3> HIDE DEF n
    <3> QED
      BY <3>1, <3>2
  <2> QED
    BY <2>1, <2>2
<1> QED
  BY <1>2 DEF TypeOK, Unbilled

LEMMA BillingStep ==
    ASSUME TypeOK, [Next]_vars, NEW x \in Sessions
    PROVE  Unbilled(x) \/ IsBilled(x)
<1>1. CASE UNCHANGED meter
  BY <1>1 DEF Unbilled
<1>2. CASE \E s \in Sessions : Start(s) \/ Resume(s)
  BY <1>2, RequestsBillNobody
<1>3. CASE \E s \in Sessions : TickSession(s)
  BY <1>3, PassBillsOne
<1>4. CASE Elapse
  BY <1>4 DEF Elapse, TypeOK, Meter, Unbilled
<1> QED
  BY <1>1, <1>2, <1>3, <1>4 DEF Next, vars, billingVars, TopUp, TopUpUnreceipted, Create,
     Admit, Reject, Pause, Stop, SetPaymentStreamActive, TickBegin

\* The pass looks at a session's state and stream inside the Update that
\* bills it, so a pause, a stop or a stalled stream counts at once.
THEOREM BilledOnlyWhileStreamingCorrect == Spec => BilledOnlyWhileStreaming
<1>1. TypeOK /\ [Next]_vars =>
        [\A s \in Sessions :
           meter'[s].billed # meter[s].billed \/ meter'[s].charged # meter[s].charged
             => sess[s].state = Running /\ sess[s].stream]_vars
  BY BillingStep DEF Unbilled, IsBilled
<1> QED
  BY <1>1, TypeCorrect, PTL DEF Spec, BilledOnlyWhileStreaming

-----------------------------------------------------------------------------
(* What a window carries *)

Carries(m) == m.numerator - Rate * m.window \in 0 .. SecondsPerMinute - 1

LEMMA ModBound ==
    ASSUME NEW n \in Nat, NEW d \in Nat \ {0}
    PROVE  n % d \in 0 .. d - 1
  BY SMT

\* One more second in the window accrues one more Rate.
LEMMA AccruingCarries ==
    ASSUME TypeOK, NEW s \in Sessions, NEW retry, NEW grace
    PROVE  Carries(meter[s]) => Carries(MeterAccruing(s, retry, grace))
<1> DEFINE m == MeterAccruing(s, retry, grace)
<1>1. /\ meter[s] \in Meter /\ meter[s].numerator \in Nat /\ meter[s].window \in Nat
      /\ Rate \in Nat
  BY BillingAssumption DEF TypeOK, Meter
<1>2. m.numerator = meter[s].numerator + Rate /\ m.window = meter[s].window + 1
  BY <1>1 DEF MeterAccruing, Accrued, WindowSecs, Meter
<1> HIDE DEF m
<1>3. Rate * (meter[s].window + 1) = Rate * meter[s].window + Rate
  BY <1>1, SMT
<1>4. Rate * meter[s].window \in Nat
  BY <1>1, SMT
<1>5. m.numerator - Rate * m.window = meter[s].numerator - Rate * meter[s].window
  BY <1>1, <1>2, <1>3, <1>4
<1>6. Carries(meter[s]) => Carries(m)
  BY <1>5 DEF Carries
<1> QED
  BY <1>6 DEF m

\* A window that is settled leaves the remainder to the next.
LEMMA SettlingCarries ==
    ASSUME TypeOK, NEW s \in Sessions
    PROVE  Carries(MeterAfterCarry(s)) /\ Carries(MeterAfterCharge(s))
<1>1. meter[s] \in Meter
  BY DEF TypeOK
<1>2. RemNumerator(s) \in 0 .. SecondsPerMinute - 1
  BY Settlement, ModBound, BillingAssumption DEF RemNumerator
<1>3. ASSUME NEW m, m.numerator = RemNumerator(s), m.window = 0
      PROVE  Carries(m)
  <2>1. Rate * m.window = 0
    BY <1>3, BillingAssumption
  <2> QED
    BY <1>2, <1>3, <2>1, BillingAssumption DEF Carries
<1>4. MeterAfterCarry(s).numerator = RemNumerator(s) /\ MeterAfterCarry(s).window = 0
  BY <1>1 DEF MeterAfterCarry, Meter
<1>5. MeterAfterCharge(s).numerator = RemNumerator(s) /\ MeterAfterCharge(s).window = 0
  BY <1>1 DEF MeterAfterCharge, Meter
<1> QED
  BY <1>3, <1>4, <1>5

\* A start begins a window with nothing; a resume goes on with the old one.
LEMMA StartCarries ==
    ASSUME TypeOK, NEW s \in Sessions, Carries(meter[s])
    PROVE  /\ Carries(MeterAtStart(s))
           /\ Carries([meter[s] EXCEPT !.retry = FALSE, !.grace = 0])
           /\ Carries(MeterUncharged(s))
<1>1. meter[s] \in Meter
  BY DEF TypeOK
<1>2. MeterAtStart(s).numerator = 0 /\ MeterAtStart(s).window = 0
  BY <1>1 DEF MeterAtStart, Meter
<1>3. Carries(MeterAtStart(s))
  <2>1. Rate * 0 = 0
    BY BillingAssumption
  <2> QED
    BY <1>2, <2>1, BillingAssumption DEF Carries
<1> QED
  BY <1>1, <1>3 DEF Carries, Meter, MeterUncharged

LEMMA CarriesStep ==
    TypeOK /\ CarriesLessThanUnit /\ [Next]_vars => CarriesLessThanUnit'
<1> SUFFICES ASSUME TypeOK, CarriesLessThanUnit, [Next]_vars, NEW x \in Sessions
             PROVE  Carries(meter'[x])
  BY DEF CarriesLessThanUnit, Carries
<1>1. \A s \in Sessions : Carries(meter[s])
  BY DEF CarriesLessThanUnit, Carries
<1>2. ASSUME NEW s \in Sessions, NEW m, meter' = [meter EXCEPT ![s] = m], Carries(m)
      PROVE  Carries(meter'[x])
  BY <1>1, <1>2 DEF TypeOK
<1>3. CASE UNCHANGED meter
  BY <1>1, <1>3
<1>4. CASE \E s \in Sessions : Start(s) \/ Resume(s)
  BY <1>1, <1>2, <1>4, StartCarries DEF Start, Resume
<1>5. CASE \E s \in Sessions : TickSession(s)
  <2> PICK s \in Sessions : TickSession(s)
    BY <1>5
  <2>1. CASE TickUnmetered(s) \/ TickGrace(s)
    BY <1>1, <1>2, <2>1, StartCarries DEF TickUnmetered, TickGrace
  <2>2. CASE TickAccrue(s) \/ TickRetryLater(s) \/ TickAutoPause(s)
    <3>1. \E retry, grace : meter' = [meter EXCEPT ![s] = MeterAccruing(s, retry, grace)]
      BY <2>2 DEF TickAccrue, TickRetryLater, TickAutoPause
    <3> QED
      BY <1>1, <1>2, <3>1, AccruingCarries
  <2>3. CASE TickCarry(s) \/ TickCharge(s)
    BY <1>2, <2>3, SettlingCarries DEF TickCarry, TickCharge
  <2> QED
    BY <1>3, <2>1, <2>2, <2>3 DEF TickSession, TickIdle
<1>6. CASE Elapse
  <2>1. meter'[x] = [meter[x] EXCEPT !.grace = IF @ > 0 THEN @ - 1 ELSE 0]
    BY <1>6 DEF Elapse
  <2> QED
    BY <1>1, <2>1 DEF TypeOK, Meter, Carries
<1> QED
  BY <1>3, <1>4, <1>5, <1>6 DEF Next, vars, billingVars, TopUp, TopUpUnreceipted, Create,
     Admit, Reject, Pause, Stop, SetPaymentStreamActive, TickBegin

\* Every charge is for the runtime of its own debit window and less than a
\* unit from before, through refused charges, pauses, resumes and starts.
THEOREM CarriesLessThanUnitCorrect == Spec => []CarriesLessThanUnit
<1>1. Init => CarriesLessThanUnit
  <2>1. Rate * 0 = 0
    BY BillingAssumption
  <2> QED
    BY <2>1, BillingAssumption DEF Init, CarriesLessThanUnit
<1> QED
  BY <1>1, CarriesStep, TypeCorrect, PTL DEF Spec

-----------------------------------------------------------------------------
(* The lifecycle that all parts assume *)

\* Only a running session has an active stream: one that is created has none.
StreamsRun == \A s \in Sessions : sess[s].stream => sess[s].state = Running

LEMMA StreamsStep == TypeOK /\ StreamsRun /\ [Next]_vars => StreamsRun'
<1> SUFFICES ASSUME TypeOK, StreamsRun, [Next]_vars, NEW x \in Sessions
             PROVE  sess'[x].stream => sess'[x].state = Running
  BY DEF StreamsRun
<1> USE DEF Absent, Created, Running, Paused, Stopped
<1>1. \A s \in Sessions : /\ sess[s] \in Lifecycle
                          /\ sess[s].stream => sess[s].state = Running
  BY DEF TypeOK, StreamsRun
<1>2. ASSUME NEW s \in Sessions, NEW l, sess' = [sess EXCEPT ![s] = l],
             l.stream => l.state = Running
      PROVE  sess'[x].stream => sess'[x].state = Running
  BY <1>1, <1>2 DEF TypeOK
<1>3. CASE UNCHANGED sess
  BY <1>1, <1>3
<1>4. CASE \E s \in Sessions, a \in Agents \union {NoAgent} : Create(s, a)
  BY <1>1, <1>2, <1>4 DEF Create, Lifecycle
<1>5. CASE \E s \in Sessions : Start(s) \/ Resume(s)
  BY <1>1, <1>2, <1>5 DEF Start, Resume, NowRunning, Lifecycle
<1>6. CASE \E s \in Sessions : Pause(s) \/ Stop(s)
  BY <1>1, <1>2, <1>6 DEF Pause, Stop, Lifecycle
<1>7. CASE \E s \in Sessions : SetPaymentStreamActive(s)
  <2> PICK s \in Sessions : SetPaymentStreamActive(s)
    BY <1>7
  <2>1. sess' = [sess EXCEPT ![s] = StreamToggled(s)] /\ StreamToggled(s).state = Running
    BY <1>1 DEF SetPaymentStreamActive, StreamToggled, Lifecycle
  <2> QED
    BY <1>2, <2>1
<1>8. CASE \E s \in Sessions : TickSession(s)
  <2> PICK s \in Sessions : TickSession(s)
    BY <1>8
  <2>1. CASE TickAutoPause(s)
    BY <1>1, <1>2, <2>1 DEF TickAutoPause, PausedForFunds, Lifecycle
  <2> QED
    BY <1>3, <2>1 DEF TickSession, TickIdle, TickUnmetered, TickGrace, TickAccrue,
       TickCarry, TickCharge, TickRetryLater
<1> QED
  BY <1>3, <1>4, <1>5, <1>6, <1>7, <1>8 DEF Next, vars, billingVars, TopUp,
     TopUpUnreceipted, Admit, Reject, TickBegin, Elapse

LEMMA LifeInit == Init => Life!Init
<1> SUFFICES ASSUME Init PROVE Life!Init
  OBVIOUS
<1>1. \A s \in Sessions : sess[s].state = "absent" /\ sess[s].stream = FALSE
  BY DEF Init, Absent
<1>2. \A s \in Sessions : meter[s].charged = 0 /\ summary[s].units = 0
  BY DEF Init
<1> QED
  BY <1>1, <1>2 DEF Life!Init

\* What the lifecycle sees of the meters and summaries.
SameCharges ==
    \A x \in Sessions : /\ meter'[x].charged = meter[x].charged
                        /\ summary'[x].units = summary[x].units

\* A function that differs at one argument.
LEMMA ExceptAt ==
    ASSUME NEW S, NEW f, NEW g, NEW s \in S, NEW v,
           f = [x \in S |-> f[x]], g = [x \in S |-> g[x]],
           \A x \in S : g[x] = IF x = s THEN v ELSE f[x]
    PROVE  g = [f EXCEPT ![s] = v]
  OBVIOUS

StateSeen == [x \in Sessions |-> sess[x].state]
StreamSeen == [x \in Sessions |-> sess[x].stream]

\* An Update of the session is one step of its lifecycle.
LEMMA BecomesSeen ==
    ASSUME TypeOK, SameCharges, NEW s \in Sessions, NEW l,
           sess' = [sess EXCEPT ![s] = l]
    PROVE  Life!Becomes(s, l.state, l.stream)
<1>1. \A x \in Sessions : sess'[x] = IF x = s THEN l ELSE sess[x]
  BY DEF TypeOK
<1>2. StateSeen' = [StateSeen EXCEPT ![s] = l.state]
  <2>1. /\ StateSeen = [x \in Sessions |-> StateSeen[x]]
        /\ StateSeen' = [x \in Sessions |-> StateSeen'[x]]
    BY DEF StateSeen
  <2>2. \A x \in Sessions : StateSeen'[x] = IF x = s THEN l.state ELSE StateSeen[x]
    BY <1>1 DEF StateSeen
  <2> QED
    BY <2>1, <2>2, ExceptAt
<1>3. StreamSeen' = [StreamSeen EXCEPT ![s] = l.stream]
  <2>1. /\ StreamSeen = [x \in Sessions |-> StreamSeen[x]]
        /\ StreamSeen' = [x \in Sessions |-> StreamSeen'[x]]
    BY DEF StreamSeen
  <2>2. \A x \in Sessions : StreamSeen'[x] = IF x = s THEN l.stream ELSE StreamSeen[x]
    BY <1>1 DEF StreamSeen
  <2> QED
    BY <2>1, <2>2, ExceptAt
<1>4. /\ [x \in Sessions |-> meter'[x].charged] = [x \in Sessions |-> meter[x].charged]
      /\ [x \in Sessions |-> summary'[x].units] = [x \in Sessions |-> summary[x].units]
  BY DEF SameCharges
<1> QED
  BY <1>2, <1>3, <1>4, Zenon DEF Life!Becomes, StateSeen, StreamSeen

LEMMA LifeUnseen ==
    ASSUME SameCharges, \A x \in Sessions : sess'[x] = sess[x]
    PROVE  UNCHANGED Life!vars
  BY DEF SameCharges, Life!vars

\* The requests and the pause for lack of funds.
LEMMA UpdatesSeen ==
    ASSUME TypeOK, StreamsRun, SameCharges, NEW s \in Sessions,
           \/ \E a \in Agents \union {NoAgent} : Create(s, a)
           \/ Start(s) \/ Resume(s) \/ Pause(s) \/ Stop(s) \/ SetPaymentStreamActive(s)
           \/ TickAutoPause(s)
    PROVE  Life!Next
<1> USE DEF Absent, Created, Running, Paused, Stopped
<1>1. sess[s] \in Lifecycle
  BY DEF TypeOK
<1>2. \A x \in Sessions : [y \in Sessions |-> sess[y].state][x] = sess[x].state
  OBVIOUS
<1>3. CASE \E a \in Agents \union {NoAgent} : Create(s, a)
  <2> PICK a \in Agents \union {NoAgent} : Create(s, a)
    BY <1>3
  <2> DEFINE l == [sess[s] EXCEPT !.state = Created, !.agent = a]
  <2>1. sess' = [sess EXCEPT ![s] = l] /\ sess[s].state = "absent"
    BY DEF Create
  <2>2. l.state = "created" /\ l.stream = FALSE
    BY <1>1, <2>1 DEF Lifecycle, StreamsRun
  <2> HIDE DEF l
  <2>3. Life!Becomes(s, "created", FALSE)
    BY <2>1, <2>2, BecomesSeen
  <2> QED
    BY <2>1, <2>2, <2>3 DEF Life!Next, Life!Create
<1>4. CASE Start(s) \/ Resume(s)
  <2>1. sess' = [sess EXCEPT ![s] = NowRunning(s)] /\ sess[s].state \in {"created", "paused"}
    BY <1>4 DEF Start, Resume, Startable
  <2>2. NowRunning(s).state = "running" /\ NowRunning(s).stream = TRUE
    BY <1>1 DEF NowRunning, Lifecycle
  <2>3. Life!Becomes(s, "running", TRUE)
    BY <2>1, <2>2, BecomesSeen
  <2> QED
    BY <2>1, <2>3 DEF Life!Next, Life!Run
<1>5. CASE Pause(s)
  <2> DEFINE l == [sess[s] EXCEPT !.state = Paused, !.stream = FALSE]
  <2>1. sess' = [sess EXCEPT ![s] = l] /\ sess[s].state = "running"
    BY <1>5 DEF Pause
  <2>2. l.state = "paused" /\ l.stream = FALSE
    BY <1>1 DEF Lifecycle
  <2> HIDE DEF l
  <2>3. Life!Becomes(s, "paused", FALSE)
    BY <2>1, <2>2, BecomesSeen
  <2> QED
    BY <2>1, <2>3 DEF Life!Next, Life!Pause
<1>6. CASE TickAutoPause(s)
  <2>1. sess' = [sess EXCEPT ![s] = PausedForFunds(s)] /\ sess[s].state = "running"
    BY <1>6 DEF TickAutoPause, Settling, Metered, IsBilled
  <2>2. PausedForFunds(s).state = "paused" /\ PausedForFunds(s).stream = FALSE
    BY <1>1 DEF PausedForFunds, Lifecycle
  <2>3. Life!Becomes(s, "paused", FALSE)
    BY <2>1, <2>2, BecomesSeen
  <2> QED
    BY <2>1, <2>3 DEF Life!Next, Life!Pause
<1>7. CASE Stop(s)
  <2> DEFINE l == [sess[s] EXCEPT !.state = Stopped, !.stream = FALSE]
  <2>1. /\ sess' = [sess EXCEPT ![s] = l]
        /\ sess[s].state \in {"created", "running", "paused"}
    BY <1>7 DEF Stop
  <2>2. l.state = "stopped" /\ l.stream = FALSE
    BY <1>1 DEF Lifecycle
  <2> HIDE DEF l
  <2>3. Life!Becomes(s, "stopped", FALSE)
    BY <2>1, <2>2, BecomesSeen
  <2> QED
    BY <2>1, <2>3 DEF Life!Next, Life!Stop
<1>8. CASE SetPaymentStreamActive(s)
  <2>1. sess' = [sess EXCEPT ![s] = StreamToggled(s)] /\ sess[s].state = "running"
    BY <1>8 DEF SetPaymentStreamActive
  <2>2. StreamToggled(s).state = "running" /\ StreamToggled(s).stream = ~sess[s].stream
    BY <1>1, <2>1 DEF StreamToggled, Lifecycle
  <2>3. PICK active \in BOOLEAN : StreamToggled(s).stream = active
    BY <1>1, <2>2 DEF Lifecycle
  <2>4. Life!Becomes(s, "running", active)
    BY <2>1, <2>2, <2>3, BecomesSeen
  <2> QED
    BY <2>1, <2>4 DEF Life!Next, Life!SetStream
<1> QED
  BY <1>3, <1>4, <1>5, <1>6, <1>7, <1>8

\* What the lifecycle sees of a charge.
ChargedSeen == [x \in Sessions |-> meter[x].charged]
UnitsSeen == [x \in Sessions |-> summary[x].units]

LEMMA ChargeSeen ==
    ASSUME TypeOK, NEW s \in Sessions, TickCharge(s)
    PROVE  Life!Charge(s)
<1> DEFINE due == ChargeUnits(s)
<1>1. meter[s] \in Meter /\ summary[s] \in Summary /\ sess' = sess
  BY DEF TypeOK, TickCharge
<1>2. due \in Nat /\ due > 0
  <2>1. ChargeUnits(s) \in Nat
    BY Settlement
  <2> QED
    BY <2>1 DEF TickCharge
<1> HIDE DEF due
<1>3. /\ meter' = [meter EXCEPT ![s] = MeterAfterCharge(s)]
      /\ MeterAfterCharge(s).charged = meter[s].charged + due
  BY <1>1 DEF TickCharge, MeterAfterCharge, Meter, due
<1>4. /\ ChargedSeen = [x \in Sessions |-> ChargedSeen[x]]
      /\ ChargedSeen' = [x \in Sessions |-> ChargedSeen'[x]]
      /\ UnitsSeen = [x \in Sessions |-> UnitsSeen[x]]
      /\ UnitsSeen' = [x \in Sessions |-> UnitsSeen'[x]]
  BY DEF ChargedSeen, UnitsSeen
<1>5. \A x \in Sessions :
        ChargedSeen'[x] = IF x = s THEN ChargedSeen[s] + due ELSE ChargedSeen[x]
  BY <1>3 DEF ChargedSeen, TypeOK
<1>6. ChargedSeen' = [ChargedSeen EXCEPT ![s] = ChargedSeen[s] + due]
  BY <1>4, <1>5, ExceptAt
<1>7. ChargedSeen[s] \in Nat /\ ChargedSeen'[s] - ChargedSeen[s] = due
  BY <1>1, <1>2, <1>5 DEF ChargedSeen, Meter
<1>8. \/ UnitsSeen' = [UnitsSeen EXCEPT ![s] = UnitsSeen[s] + due]
      \/ UnitsSeen' = [UnitsSeen EXCEPT ![s] = 0]
  <2>1. CASE Defer(s, due)
    <3>1. SummaryAfterDefer(s, due).units = summary[s].units + due
      BY <1>1 DEF SummaryAfterDefer, Summary
    <3>2. \A x \in Sessions :
            UnitsSeen'[x] = IF x = s THEN UnitsSeen[s] + due ELSE UnitsSeen[x]
      BY <2>1, <3>1 DEF Defer, UnitsSeen, TypeOK
    <3> QED
      BY <1>4, <3>2, ExceptAt
  <2>2. CASE Report(s, due)
    <3>1. \A x \in Sessions : UnitsSeen'[x] = IF x = s THEN 0 ELSE UnitsSeen[x]
      BY <2>2 DEF Report, UnitsSeen, TypeOK
    <3> QED
      BY <1>4, <3>1, ExceptAt
  <2> QED
    BY <2>1, <2>2 DEF TickCharge, due
<1>9. StateSeen[s] = "running" /\ StreamSeen[s]
  BY DEF TickCharge, Settling, Metered, IsBilled, Running, StateSeen, StreamSeen
<1>10. UNCHANGED <<StateSeen, StreamSeen>>
  BY <1>1 DEF StateSeen, StreamSeen
<1>11. UnitsSeen' \in {[UnitsSeen EXCEPT ![s] = UnitsSeen[s] + (ChargedSeen'[s] - ChargedSeen[s])],
                       [UnitsSeen EXCEPT ![s] = 0]}
  BY <1>7, <1>8
<1>12. ChargedSeen' = [ChargedSeen EXCEPT
                         ![s] = ChargedSeen[s] + (ChargedSeen'[s] - ChargedSeen[s])]
  BY <1>6, <1>7
<1>13. ChargedSeen'[s] - ChargedSeen[s] > 0
  BY <1>2, <1>7
<1> QED
  BY <1>9, <1>10, <1>11, <1>12, <1>13, Zenon
  DEF Life!Charge, StateSeen, StreamSeen, ChargedSeen, UnitsSeen

\* All other steps leave what the lifecycle sees alone.
LEMMA OthersUnseen ==
    ASSUME TypeOK,
           \/ \E a \in Agents, r \in Receipts : TopUp(a, r)
           \/ \E a \in Agents : TopUpUnreceipted(a)
           \/ \E op \in {"start", "resume"}, s \in Sessions : Admit(op, s) \/ Reject(op, s)
           \/ TickBegin
           \/ Elapse
           \/ \E s \in Sessions : \/ TickIdle(s) \/ TickUnmetered(s) \/ TickGrace(s)
                                  \/ TickAccrue(s) \/ TickCarry(s) \/ TickRetryLater(s)
           \/ UNCHANGED vars
    PROVE  SameCharges /\ sess' = sess
<1>1. CASE UNCHANGED <<sess, meter, summary>>
  BY <1>1 DEF SameCharges
<1>2. CASE Elapse
  BY <1>2 DEF Elapse, SameCharges, TypeOK, Meter, Summary
<1>3. CASE \E s \in Sessions : \E m \in {MeterUncharged(s), MeterAfterCarry(s)} :
             meter' = [meter EXCEPT ![s] = m] /\ UNCHANGED <<sess, summary>>
  <2> PICK s \in Sessions : \E m \in {MeterUncharged(s), MeterAfterCarry(s)} :
             meter' = [meter EXCEPT ![s] = m] /\ UNCHANGED <<sess, summary>>
    BY <1>3
  <2>1. /\ MeterUncharged(s).charged = meter[s].charged
        /\ MeterAfterCarry(s).charged = meter[s].charged
    BY DEF TypeOK, Meter, MeterUncharged, MeterAfterCarry
  <2> QED
    BY <2>1 DEF SameCharges, TypeOK
<1>4. CASE \E s \in Sessions : \E retry, grace :
             /\ meter' = [meter EXCEPT ![s] = MeterAccruing(s, retry, grace)]
             /\ UNCHANGED <<sess, summary>>
  BY <1>4 DEF SameCharges, TypeOK, Meter, MeterAccruing
<1> QED
  BY <1>1, <1>2, <1>3, <1>4 DEF TopUp, TopUpUnreceipted, billingVars, vars, Admit, Reject,
     TickBegin, TickIdle, TickUnmetered, TickGrace, TickAccrue, TickCarry, TickRetryLater

LEMMA UpdatesUncharged ==
    ASSUME TypeOK, NEW s \in Sessions,
           \/ \E a \in Agents \union {NoAgent} : Create(s, a)
           \/ Start(s) \/ Resume(s) \/ Pause(s) \/ Stop(s) \/ SetPaymentStreamActive(s)
           \/ TickAutoPause(s)
    PROVE  SameCharges
<1>1. CASE UNCHANGED <<meter, summary>>
  BY <1>1 DEF SameCharges
<1>2. CASE Start(s) \/ Resume(s)
  <2> DEFINE resumed == [meter[s] EXCEPT !.retry = FALSE, !.grace = 0]
  <2>1. /\ summary' = summary
        /\ \/ meter' = [meter EXCEPT ![s] = MeterAtStart(s)]
           \/ meter' = [meter EXCEPT ![s] = resumed]
    BY <1>2 DEF Start, Resume
  <2>2. MeterAtStart(s).charged = meter[s].charged /\ resumed.charged = meter[s].charged
    BY DEF TypeOK, Meter, MeterAtStart
  <2> HIDE DEF resumed
  <2> QED
    BY <2>1, <2>2 DEF SameCharges, TypeOK
<1>3. CASE TickAutoPause(s)
  BY <1>3 DEF TickAutoPause, SameCharges, TypeOK, Meter, MeterAccruing
<1> QED
  BY <1>1, <1>2, <1>3 DEF Create, Pause, Stop, SetPaymentStreamActive

LEMMA LifeStep == TypeOK /\ StreamsRun /\ [Next]_vars => [Life!Next]_(Life!vars)
<1> SUFFICES ASSUME TypeOK, StreamsRun, [Next]_vars
             PROVE  Life!Next \/ UNCHANGED Life!vars
  OBVIOUS
<1>1. ASSUME NEW s \in Sessions,
             \/ \E a \in Agents \union {NoAgent} : Create(s, a)
             \/ Start(s) \/ Resume(s) \/ Pause(s) \/ Stop(s) \/ SetPaymentStreamActive(s)
             \/ TickAutoPause(s)
      PROVE  Life!Next
  <2>1. SameCharges
    BY <1>1, UpdatesUncharged
  <2> QED
    BY <1>1, <2>1, UpdatesSeen
<1>2. ASSUME NEW s \in Sessions, TickCharge(s)
      PROVE  Life!Next
  <2>1. Life!Charge(s)
    BY <1>2, ChargeSeen
  <2> QED
    BY <2>1, Zenon DEF Life!Next
<1>3. ASSUME SameCharges, sess' = sess PROVE UNCHANGED Life!vars
  BY <1>3, LifeUnseen
<1>4. CASE \E s \in Sessions : TickSession(s)
  <2> PICK s \in Sessions : TickSession(s)
    BY <1>4
  <2>1. CASE TickCharge(s)
    BY <1>2, <2>1
  <2>2. CASE TickAutoPause(s)
    BY <1>1, <2>2
  <2>3. CASE \/ TickIdle(s) \/ TickUnmetered(s) \/ TickGrace(s)
             \/ TickAccrue(s) \/ TickCarry(s) \/ TickRetryLater(s)
    <3>1. SameCharges /\ sess' = sess
      BY <2>3, OthersUnseen
    <3> QED
      BY <1>3, <3>1
  <2> QED
    BY <2>1, <2>2, <2>3 DEF TickSession
<1>5. CASE \/ \E a \in Agents, r \in Receipts : TopUp(a, r)
           \/ \E a \in Agents : TopUpUnreceipted(a)
           \/ \E op \in {"start", "resume"}, s \in Sessions : Admit(op, s) \/ Reject(op, s)
           \/ TickBegin
           \/ Elapse
           \/ UNCHANGED vars
  <2>1. SameCharges /\ sess' = sess
    BY <1>5, OthersUnseen
  <2> QED
    BY <1>3, <2>1
<1> QED
  BY <1>1, <1>4, <1>5 DEF Next

\* Whatever order the requests, the ticks and the passes come in, each session
\* goes through the lifecycle that the other parts of the platform assume.
THEOREM BillingWithinLifecycle == Spec => ImplementsLifecycle
<1>1. Init => StreamsRun
  BY DEF Init, StreamsRun
<1>2. Spec => []StreamsRun
  BY <1>1, StreamsStep, TypeCorrect, PTL DEF Spec
<1>3. Spec => Life!Spec
  BY LifeInit, LifeStep, TypeCorrect, <1>2, PTL DEF Spec, Life!Spec
<1> QED
  BY <1>3 DEF ImplementsLifecycle

-----------------------------------------------------------------------------
(* Sums over finite sets *)

\* Nothing adds up to 0.
LEMMA SumEmpty == ASSUME NEW f PROVE SumOver(f, {}) = 0
  BY DEF SumOver, MapThenSumSet, MapThenFoldSet

\* The sum over a set is the value, for the whole set, of a function on its
\* subsets.
Adds(iter, f, S) ==
    iter = [T \in SUBSET S |-> IF T = {} THEN 0
                               ELSE f[CHOOSE x \in T : TRUE] + iter[T \ {CHOOSE x \in T : TRUE}]]

LEMMA SumIsAdded ==
    ASSUME NEW f, NEW S, IsFiniteSet(S), \A x \in S : f[x] \in Nat
    PROVE  \E iter : Adds(iter, f, S) /\ SumOver(f, S) = iter[S]
<1> DEFINE pick == [T \in SUBSET S |-> CHOOSE x \in T : TRUE]
           step == [x \in S |-> [v \in Nat |-> f[x] + v]]
<1>1. \A T \in SUBSET S : T # {} => pick[T] \in T
  OBVIOUS
<1>2. \A x \in S : \A v \in Nat : step[x][v] \in Nat
  OBVIOUS
<1>3. PICK iter \in [SUBSET S -> Nat] : Folding(iter, S, 0, pick, step)
  <2> HIDE DEF pick, step
  <2> QED BY <1>1, <1>2, FoldExists
<1>4. Adds(iter, f, S)
  <2>1. ASSUME NEW T \in SUBSET S, T # {}
        PROVE  step[pick[T]][iter[T \ {pick[T]}]]
                 = f[CHOOSE x \in T : TRUE] + iter[T \ {CHOOSE x \in T : TRUE}]
    <3>1. pick[T] = CHOOSE x \in T : TRUE
      OBVIOUS
    <3>2. pick[T] \in S /\ T \ {pick[T]} \in SUBSET S
      BY <1>1, <2>1
    <3>3. iter[T \ {pick[T]}] \in Nat
      BY <3>2
    <3> QED BY <3>1, <3>2, <3>3
  <2> HIDE DEF pick, step
  <2> QED BY <1>3, <2>1 DEF Adds, Folding
<1>5. SumOver(f, S) = (CHOOSE g : Adds(g, f, S))[S]
  BY DEF SumOver, MapThenSumSet, MapThenFoldSet, Adds
<1> QED BY <1>4, <1>5

\* The chosen element apart.
LEMMA SumUnroll ==
    ASSUME NEW f, NEW S, IsFiniteSet(S), S # {}, \A x \in S : f[x] \in Nat
    PROVE  SumOver(f, S) = f[CHOOSE x \in S : TRUE] + SumOver(f, S \ {CHOOSE x \in S : TRUE})
<1> DEFINE p == CHOOSE x \in S : TRUE
           R == S \ {p}
<1>1. p \in S /\ R \in SUBSET S
  OBVIOUS
<1>2. IsFiniteSet(R) /\ \A x \in R : f[x] \in Nat
  BY <1>1, FS_Subset
<1>3. PICK all : Adds(all, f, S) /\ SumOver(f, S) = all[S]
  BY SumIsAdded
<1>4. PICK part : Adds(part, f, R) /\ SumOver(f, R) = part[R]
  <2> HIDE DEF R
  <2> QED BY <1>2, SumIsAdded
\* Both functions add up the subsets of R alike.
<1> DEFINE I == {n \in Nat : \A T \in SUBSET R : Cardinality(T) <= n => all[T] = part[T]}
<1>5. \A T \in SUBSET R : IsFiniteSet(T) /\ Cardinality(T) \in Nat
  BY <1>2, FS_Subset, FS_CardinalityType
<1> HIDE DEF p
<1>6. ASSUME NEW T \in SUBSET R, T = {}
      PROVE  all[T] = part[T]
  BY <1>3, <1>4, <1>6 DEF Adds
<1>7. 0 \in I
  <2> SUFFICES ASSUME NEW T \in SUBSET R, Cardinality(T) <= 0
               PROVE  T = {}
    BY <1>6
  <2> QED BY <1>5, FS_EmptySet
<1>8. ASSUME NEW n \in Nat, n \in I
      PROVE  n + 1 \in I
  <2> SUFFICES ASSUME NEW T \in SUBSET R, Cardinality(T) <= n + 1, T # {}
               PROVE  all[T] = part[T]
    BY <1>6
  <2> DEFINE x == CHOOSE y \in T : TRUE
             rest == T \ {x}
  <2>1. x \in T /\ rest \in SUBSET R
    OBVIOUS
  <2>2. Cardinality(rest) <= n
    <3>1. Cardinality(rest) = Cardinality(T) - 1
      BY <1>5, <2>1, FS_RemoveElement
    <3> QED BY <1>5, <3>1
  <2>3. all[rest] = part[rest]
    <3> HIDE DEF rest
    <3> QED BY <1>8, <2>1, <2>2
  <2>4. all[T] = f[x] + all[rest]
    <3>1. T \in SUBSET S
      OBVIOUS
    <3> QED BY <1>3, <3>1 DEF Adds
  <2>5. part[T] = f[x] + part[rest]
    BY <1>4 DEF Adds
  <2> QED BY <2>3, <2>4, <2>5
<1>9. Nat \subseteq I
  <2> HIDE DEF I
  <2> QED BY <1>7, <1>8, SetInduction
<1>10. all[R] = part[R]
  <2>1. R \in SUBSET R /\ Cardinality(R) \in Nat
    BY <1>5
  <2>2. Cardinality(R) \in I
    <3> HIDE DEF I
    <3> QED BY <1>9, <2>1
  <2> HIDE DEF R
  <2> QED BY <2>1, <2>2
<1>11. all[S] = f[p] + all[R]
  BY <1>3, <1>1 DEF Adds, p
<1> QED BY <1>3, <1>4, <1>10, <1>11 DEF p

\* Sums are numbers, any element can be taken apart, and only the values on
\* the set matter.
LEMMA SumType ==
    ASSUME NEW f, NEW S, IsFiniteSet(S), \A x \in S : f[x] \in Nat
    PROVE  SumOver(f, S) \in Nat
<1> DEFINE I == {n \in Nat : \A T \in SUBSET S : Cardinality(T) <= n => SumOver(f, T) \in Nat}
<1>1. \A T \in SUBSET S : IsFiniteSet(T) /\ Cardinality(T) \in Nat
  BY FS_Subset, FS_CardinalityType
<1>2. 0 \in I
  <2> SUFFICES ASSUME NEW T \in SUBSET S, Cardinality(T) <= 0
               PROVE  SumOver(f, T) \in Nat
    OBVIOUS
  <2>1. T = {}
    BY <1>1, FS_EmptySet
  <2> QED BY <2>1, SumEmpty
<1>3. ASSUME NEW n \in Nat, n \in I
      PROVE  n + 1 \in I
  <2> SUFFICES ASSUME NEW T \in SUBSET S, Cardinality(T) <= n + 1
               PROVE  SumOver(f, T) \in Nat
    OBVIOUS
  <2>1. CASE T = {}
    BY <2>1, SumEmpty
  <2>2. CASE T # {}
    <3> DEFINE x == CHOOSE y \in T : TRUE
               rest == T \ {x}
    <3>1. x \in T /\ rest \in SUBSET S
      BY <2>2
    <3>2. Cardinality(rest) <= n
      <4>1. Cardinality(rest) = Cardinality(T) - 1
        BY <1>1, <3>1, FS_RemoveElement
      <4> QED BY <1>1, <4>1
    <3>3. SumOver(f, rest) \in Nat
      <4> HIDE DEF rest
      <4> QED BY <1>3, <3>1, <3>2
    <3>4. SumOver(f, T) = f[x] + SumOver(f, rest)
      BY <1>1, <2>2, SumUnroll
    <3>5. f[x] \in Nat
      BY <3>1
    <3> HIDE DEF x, rest
    <3> QED BY <3>3, <3>4, <3>5
  <2> QED BY <2>1, <2>2
<1>4. Nat \subseteq I
  <2> HIDE DEF I
  <2> QED BY <1>2, <1>3, SetInduction
<1>5. Cardinality(S) \in I
  <2> HIDE DEF I
  <2> QED BY <1>1, <1>4
<1> QED BY <1>1, <1>5

LEMMA SumEqual ==
    ASSUME NEW f, NEW g, NEW S, IsFiniteSet(S),
           \A x \in S : f[x] \in Nat /\ g[x] = f[x]
    PROVE  SumOver(g, S) = SumOver(f, S)
<1> DEFINE I == {n \in Nat : \A T \in SUBSET S :
                   Cardinality(T) <= n => SumOver(g, T) = SumOver(f, T)}
<1>1. \A T \in SUBSET S : IsFiniteSet(T) /\ Cardinality(T) \in Nat
  BY FS_Subset, FS_CardinalityType
<1>2. 0 \in I
  <2> SUFFICES ASSUME NEW T \in SUBSET S, Cardinality(T) <= 0
               PROVE  SumOver(g, T) = SumOver(f, T)
    OBVIOUS
  <2>1. T = {}
    BY <1>1, FS_EmptySet
  <2> QED BY <2>1, SumEmpty
<1>3. ASSUME NEW n \in Nat, n \in I
      PROVE  n + 1 \in I
  <2> SUFFICES ASSUME NEW T \in SUBSET S, Cardinality(T) <= n + 1
               PROVE  SumOver(g, T) = SumOver(f, T)
    OBVIOUS
  <2>1. CASE T = {}
    BY <2>1, SumEmpty
  <2>2. CASE T # {}
    <3> DEFINE x == CHOOSE y \in T : TRUE
               rest == T \ {x}
    <3>1. x \in T /\ rest \in SUBSET S
      BY <2>2
    <3>2. Cardinality(rest) <= n
      <4>1. Cardinality(rest) = Cardinality(T) - 1
        BY <1>1, <3>1, FS_RemoveElement
      <4> QED BY <1>1, <4>1
    <3>3. SumOver(g, rest) = SumOver(f, rest)
      <4> HIDE DEF rest
      <4> QED BY <1>3, <3>1, <3>2
    <3>4. SumOver(f, T) = f[x] + SumOver(f, rest)
      BY <1>1, <2>2, SumUnroll
    <3>5. SumOver(g, T) = g[x] + SumOver(g, rest)
      BY <1>1, <2>2, SumUnroll
    <3>6. g[x] = f[x]
      BY <3>1
    <3> HIDE DEF x, rest
    <3> QED BY <3>3, <3>4, <3>5, <3>6
  <2> QED BY <2>1, <2>2
<1>4. Nat \subseteq I
  <2> HIDE DEF I
  <2> QED BY <1>2, <1>3, SetInduction
<1>5. Cardinality(S) \in I
  <2> HIDE DEF I
  <2> QED BY <1>1, <1>4
<1> QED BY <1>1, <1>5

LEMMA SumRemove ==
    ASSUME NEW f, NEW S, IsFiniteSet(S), \A x \in S : f[x] \in Nat, NEW x \in S
    PROVE  SumOver(f, S) = f[x] + SumOver(f, S \ {x})
<1> DEFINE I == {n \in Nat : \A T \in SUBSET S : Cardinality(T) <= n =>
                   \A y \in T : SumOver(f, T) = f[y] + SumOver(f, T \ {y})}
<1>1. \A T \in SUBSET S : IsFiniteSet(T) /\ Cardinality(T) \in Nat /\ SumOver(f, T) \in Nat
  BY FS_Subset, FS_CardinalityType, SumType
<1>2. 0 \in I
  <2> SUFFICES ASSUME NEW T \in SUBSET S, Cardinality(T) <= 0
               PROVE  T = {}
    OBVIOUS
  <2> QED BY <1>1, FS_EmptySet
<1>3. ASSUME NEW n \in Nat, n \in I
      PROVE  n + 1 \in I
  <2> SUFFICES ASSUME NEW T \in SUBSET S, Cardinality(T) <= n + 1, NEW y \in T
               PROVE  SumOver(f, T) = f[y] + SumOver(f, T \ {y})
    OBVIOUS
  <2> DEFINE p == CHOOSE z \in T : TRUE
             rest == T \ {p}
  <2>1. p \in T /\ rest \in SUBSET S
    OBVIOUS
  <2>2. SumOver(f, T) = f[p] + SumOver(f, rest)
    BY <1>1, SumUnroll
  <2> HIDE DEF p
  <2>3. CASE y = p
    BY <2>2, <2>3
  <2>4. CASE y # p
    <3> DEFINE other == T \ {y}
               both == rest \ {y}
    <3>1. /\ other \in SUBSET S /\ p \in other
          /\ y \in rest
          /\ both \in SUBSET S /\ other \ {p} = both
      BY <2>1, <2>4
    <3>2. Cardinality(rest) <= n /\ Cardinality(other) <= n
      <4>1. Cardinality(rest) = Cardinality(T) - 1 /\ Cardinality(other) = Cardinality(T) - 1
        BY <1>1, <2>1, FS_RemoveElement
      <4> QED BY <1>1, <4>1
    <3>3. SumOver(f, rest) = f[y] + SumOver(f, both)
      <4> HIDE DEF rest, other
      <4> QED BY <1>3, <2>1, <3>1, <3>2
    <3>4. SumOver(f, other) = f[p] + SumOver(f, other \ {p})
      <4> HIDE DEF rest, other, both
      <4> QED BY <1>3, <3>1, <3>2
    <3>5. f[p] \in Nat /\ f[y] \in Nat /\ SumOver(f, both) \in Nat
      BY <1>1, <2>1, <3>1
    <3>6. SumOver(f, other) = f[p] + SumOver(f, both)
      BY <3>1, <3>4
    <3> HIDE DEF rest, other, both
    <3>7. SumOver(f, T) = f[y] + SumOver(f, other)
      BY <2>2, <3>3, <3>5, <3>6
    <3> QED BY <3>7 DEF other
  <2> QED BY <2>3, <2>4
<1>4. Nat \subseteq I
  <2> HIDE DEF I
  <2> QED BY <1>2, <1>3, SetInduction
<1>5. Cardinality(S) \in I
  <2> HIDE DEF I
  <2> QED BY <1>1, <1>4
<1> QED BY <1>1, <1>5

\* Raising one value raises the sum by as much, and adding an element adds
\* its value.
LEMMA SumRaise ==
    ASSUME NEW f, NEW S, IsFiniteSet(S), \A x \in S : f[x] \in Nat,
           NEW y \in S, NEW n \in Nat, NEW g, g[y] = f[y] + n,
           \A x \in S \ {y} : g[x] = f[x]
    PROVE  SumOver(g, S) = SumOver(f, S) + n
<1>1. IsFiniteSet(S \ {y}) /\ \A x \in S : g[x] \in Nat
  BY FS_Subset
<1>2. SumOver(f, S) = f[y] + SumOver(f, S \ {y}) /\ SumOver(g, S) = g[y] + SumOver(g, S \ {y})
  BY <1>1, SumRemove
<1>3. SumOver(g, S \ {y}) = SumOver(f, S \ {y})
  BY <1>1, SumEqual
<1>4. SumOver(f, S \ {y}) \in Nat /\ f[y] \in Nat
  BY <1>1, SumType
<1> QED BY <1>2, <1>3, <1>4

LEMMA SumAdd ==
    ASSUME NEW f, NEW S, IsFiniteSet(S), NEW y, y \notin S,
           \A x \in S \union {y} : f[x] \in Nat
    PROVE  SumOver(f, S \union {y}) = SumOver(f, S) + f[y]
<1> DEFINE T == S \union {y}
<1>1. IsFiniteSet(T) /\ T \ {y} = S /\ y \in T
  BY FS_AddElement
<1>2. SumOver(f, T) = f[y] + SumOver(f, T \ {y})
  <2> HIDE DEF T
  <2>1. \A x \in T : f[x] \in Nat
    BY DEF T
  <2> QED BY <1>1, <2>1, SumRemove
<1>3. SumOver(f, S) \in Nat /\ f[y] \in Nat
  BY SumType
<1> QED BY <1>1, <1>2, <1>3

-----------------------------------------------------------------------------
(* Where the units come from and go to *)

Owned(a) == {s \in Sessions : sess[s].agent = a}

Receipted(a) == {r \in Receipts : <<a, r>> \in creditKeys}

\* Only finitely many sessions and receipts have been seen, and a session
\* has its agent from Create on.
Finitely == \A a \in Agents : IsFiniteSet(Owned(a)) /\ IsFiniteSet(Receipted(a))

Unowned == \A s \in Sessions : sess[s].state = Absent => sess[s].agent = NoAgent

Balanced(a) ==
    balance[a] + SumOver(debited, Owned(a)) = unreceipted[a] + SumOver(Worth, Receipted(a))

Conservation == Accounting /\ Finitely /\ Unowned /\ \A a \in Agents : Balanced(a)

LEMMA ConservationInit == Init => Conservation
<1> SUFFICES ASSUME Init
             PROVE  Conservation
  OBVIOUS
<1>1. Accounting
  BY AccountingInit
<1>2. Unowned
  BY DEF Init, Unowned
<1>3. \A a \in Agents : Owned(a) = {} /\ Receipted(a) = {}
  BY BillingAssumption DEF Init, LedgerInit, Owned, Receipted
<1>4. Finitely
  BY <1>3, FS_EmptySet DEF Finitely
<1>5. \A a \in Agents : Balanced(a)
  BY <1>3, SumEmpty DEF Balanced, Init, LedgerInit
<1> QED
  BY <1>1, <1>2, <1>4, <1>5 DEF Conservation

\* A session's agent changes in Create alone.
OwnersKept ==
    \A x \in Sessions :
        /\ sess'[x].agent = sess[x].agent
        /\ sess'[x].state = Absent => sess[x].state = Absent

LEMMA OwnersStep ==
    ASSUME TypeOK, [Next]_vars
    PROVE  OwnersKept \/ \E s \in Sessions, a \in Agents \union {NoAgent} : Create(s, a)
<1> USE DEF OwnersKept
<1>1. ASSUME NEW s \in Sessions, NEW l, sess' = [sess EXCEPT ![s] = l],
             l.agent = sess[s].agent, l.state # Absent
      PROVE  OwnersKept
  BY <1>1 DEF TypeOK
<1>2. CASE \E s \in Sessions : \/ Start(s) \/ Resume(s) \/ Pause(s) \/ Stop(s)
                               \/ SetPaymentStreamActive(s)
  <2> PICK s \in Sessions : \/ Start(s) \/ Resume(s) \/ Pause(s) \/ Stop(s)
                            \/ SetPaymentStreamActive(s)
    BY <1>2
  <2> USE DEF Absent, Running, Paused, Stopped
  <2>0. sess[s] \in Lifecycle
    BY DEF TypeOK
  <2>1. CASE Start(s) \/ Resume(s)
    <3>1. sess' = [sess EXCEPT ![s] = NowRunning(s)]
      BY <2>1 DEF Start, Resume
    <3>2. NowRunning(s).agent = sess[s].agent /\ NowRunning(s).state # Absent
      BY <2>0 DEF NowRunning, Lifecycle
    <3> QED
      BY <1>1, <3>1, <3>2
  <2>2. CASE Pause(s)
    <3> DEFINE l == [sess[s] EXCEPT !.state = Paused, !.stream = FALSE]
    <3>1. sess' = [sess EXCEPT ![s] = l]
      BY <2>2 DEF Pause
    <3>2. l.agent = sess[s].agent /\ l.state # Absent
      BY <2>0 DEF Lifecycle
    <3> HIDE DEF l
    <3> QED
      BY <1>1, <3>1, <3>2
  <2>3. CASE Stop(s)
    <3> DEFINE l == [sess[s] EXCEPT !.state = Stopped, !.stream = FALSE]
    <3>1. sess' = [sess EXCEPT ![s] = l]
      BY <2>3 DEF Stop
    <3>2. l.agent = sess[s].agent /\ l.state # Absent
      BY <2>0 DEF Lifecycle
    <3> HIDE DEF l
    <3> QED
      BY <1>1, <3>1, <3>2
  <2>4. CASE SetPaymentStreamActive(s)
    <3>1. sess' = [sess EXCEPT ![s] = StreamToggled(s)] /\ sess[s].state = Running
      BY <2>4 DEF SetPaymentStreamActive
    <3>2. StreamToggled(s).agent = sess[s].agent /\ StreamToggled(s).state # Absent
      BY <2>0, <3>1 DEF StreamToggled, Lifecycle
    <3> QED
      BY <1>1, <3>1, <3>2
  <2> QED
    BY <2>1, <2>2, <2>3, <2>4
<1>3. CASE \E s \in Sessions : TickSession(s)
  <2> PICK s \in Sessions : TickSession(s)
    BY <1>3
  <2>1. CASE TickAutoPause(s)
    <3>0. sess[s] \in Lifecycle
      BY DEF TypeOK
    <3>1. sess' = [sess EXCEPT ![s] = PausedForFunds(s)]
      BY <2>1 DEF TickAutoPause
    <3>2. PausedForFunds(s).agent = sess[s].agent /\ PausedForFunds(s).state # Absent
      BY <3>0 DEF PausedForFunds, Lifecycle, Absent, Paused
    <3> QED
      BY <1>1, <3>1, <3>2
  <2>2. CASE UNCHANGED sess
    BY <2>2
  <2> QED
    BY <2>1, <2>2 DEF TickSession, TickIdle, TickUnmetered, TickGrace, TickAccrue, TickCarry,
       TickCharge, TickRetryLater
<1>4. CASE UNCHANGED sess
  BY <1>4
<1> QED
  BY <1>2, <1>3, <1>4 DEF Next, vars, billingVars, TopUp, TopUpUnreceipted, Admit, Reject,
     TickBegin, Elapse

\* The ledger changes with a top-up or an accepted charge.
LEMMA LedgerStep ==
    ASSUME [Next]_vars
    PROVE  \/ UNCHANGED ledgerVars
           \/ \E a \in Agents, r \in Receipts : TopUp(a, r)
           \/ \E a \in Agents : TopUpUnreceipted(a)
           \/ \E s \in Sessions : TickSession(s) /\ TickCharge(s)
<1>1. CASE \E s \in Sessions : TickSession(s)
  BY <1>1 DEF TickSession, TickIdle, TickUnmetered, TickGrace, TickAccrue, TickCarry,
     TickRetryLater, TickAutoPause
<1> QED
  BY <1>1 DEF Next, vars, Create, Admit, Reject, Start, Resume, Pause, Stop,
     SetPaymentStreamActive, TickBegin, Elapse

\* While sessions keep their agents, what matters is the ledger.
LEMMA OwnedKept ==
    ASSUME Conservation, OwnersKept
    PROVE  Unowned' /\ \A a \in Agents : Owned(a)' = Owned(a)
  BY DEF Conservation, Unowned, OwnersKept, Owned

\* A top-up adds what its receipt is worth, the first time.
LEMMA TopUpBalances ==
    ASSUME Conservation, Accounting', OwnersKept, NEW a \in Agents, NEW r \in Receipts, TopUp(a, r)
    PROVE  Conservation'
<1>0. LedgerTypeOK
  BY DEF Conservation, Accounting, TypeOK
<1>1. /\ creditKeys' = creditKeys \union {<<a, r>>}
      /\ balance' = IF <<a, r>> \in creditKeys THEN balance
                    ELSE [balance EXCEPT ![a] = @ + Worth[r]]
      /\ unreceipted' = unreceipted /\ debited' = debited
  BY DEF TopUp, Credit
<1>2. Unowned' /\ \A b \in Agents : Owned(b)' = Owned(b)
  BY OwnedKept
<1>3. \A b \in Agents : b # a => Receipted(b)' = Receipted(b)
  BY <1>1 DEF Receipted
<1>4. Receipted(a)' = Receipted(a) \union {r}
  BY <1>1 DEF Receipted
<1>5. Finitely'
  BY <1>2, <1>3, <1>4, FS_AddElement DEF Conservation, Finitely
<1>6. ASSUME NEW b \in Agents
      PROVE  Balanced(b)'
  <2>0. Balanced(b)
    BY DEF Conservation
  <2>1. CASE b # a
    <3>1. balance'[b] = balance[b]
      BY <1>0, <1>1, <2>1 DEF LedgerTypeOK
    <3> QED
      BY <1>1, <1>2, <1>3, <2>0, <2>1, <3>1 DEF Balanced
  <2>2. CASE b = a /\ <<a, r>> \in creditKeys
    <3>1. Receipted(a)' = Receipted(a)
      BY <1>4, <2>2 DEF Receipted
    <3> QED
      BY <1>1, <1>2, <2>0, <2>2, <3>1 DEF Balanced
  <2>3. CASE b = a /\ <<a, r>> \notin creditKeys
    <3>1. balance'[a] = balance[a] + Worth[r]
      BY <1>0, <1>1, <2>3 DEF LedgerTypeOK
    <3>2. r \notin Receipted(a) /\ IsFiniteSet(Receipted(a))
      BY <2>3 DEF Receipted, Conservation, Finitely
    <3>3. \A x \in Receipted(a) \union {r} : Worth[x] \in Nat
      BY LedgerAssumption DEF Receipted
    <3>4. SumOver(Worth, Receipted(a) \union {r}) = SumOver(Worth, Receipted(a)) + Worth[r]
      BY <3>2, <3>3, SumAdd
    <3>5. SumOver(Worth, Receipted(a)) \in Nat
      BY <3>2, <3>3, SumType
    <3>6. SumOver(debited, Owned(a)) \in Nat
      <4>1. \A x \in Owned(a) : debited[x] \in Nat
        BY <1>0 DEF Owned, LedgerTypeOK
      <4> QED
        BY <4>1, SumType DEF Conservation, Finitely
    <3>7. balance[a] \in Nat /\ unreceipted[a] \in Nat /\ Worth[r] \in Nat
      BY <1>0, LedgerAssumption DEF LedgerTypeOK
    <3>8. Balanced(a)' <=>
            balance'[a] + SumOver(debited, Owned(a))
              = unreceipted[a] + SumOver(Worth, Receipted(a) \union {r})
      BY <1>1, <1>2, <1>4 DEF Balanced
    <3>9. balance[a] + SumOver(debited, Owned(a)) = unreceipted[a] + SumOver(Worth, Receipted(a))
      BY <2>0, <2>3 DEF Balanced
    <3> QED
      BY <2>3, <3>1, <3>4, <3>5, <3>6, <3>7, <3>8, <3>9
  <2> QED
    BY <2>1, <2>2, <2>3
<1> QED
  BY <1>2, <1>5, <1>6 DEF Conservation

\* A credit without a receipt is counted as such.
LEMMA UnreceiptedBalances ==
    ASSUME Conservation, Accounting', OwnersKept, NEW a \in Agents, TopUpUnreceipted(a)
    PROVE  Conservation'
<1>0. LedgerTypeOK /\ DevCredit \in Nat
  BY BillingAssumption DEF Conservation, Accounting, TypeOK
<1>1. /\ creditKeys' = creditKeys /\ debited' = debited
      /\ balance' = [balance EXCEPT ![a] = @ + DevCredit]
      /\ unreceipted' = [unreceipted EXCEPT ![a] = @ + DevCredit]
  BY DEF TopUpUnreceipted, CreditUnreceipted
<1>2. Unowned' /\ \A b \in Agents : Owned(b)' = Owned(b) /\ Receipted(b)' = Receipted(b)
  BY <1>1, OwnedKept DEF Receipted
<1>3. Finitely'
  BY <1>2 DEF Conservation, Finitely
<1>4. ASSUME NEW b \in Agents
      PROVE  Balanced(b)'
  <2>1. Balanced(b) /\ IsFiniteSet(Owned(b)) /\ IsFiniteSet(Receipted(b))
    BY DEF Conservation, Finitely
  <2>2. \A x \in Owned(b) : debited[x] \in Nat
    BY <1>0 DEF Owned, LedgerTypeOK
  <2>3. \A x \in Receipted(b) : Worth[x] \in Nat
    BY LedgerAssumption DEF Receipted
  <2>4. SumOver(debited, Owned(b)) \in Nat /\ SumOver(Worth, Receipted(b)) \in Nat
    BY <2>1, <2>2, <2>3, SumType
  <2>5. balance[b] \in Nat /\ unreceipted[b] \in Nat
    BY <1>0 DEF LedgerTypeOK
  <2>6. \/ balance'[b] = balance[b] /\ unreceipted'[b] = unreceipted[b]
        \/ balance'[b] = balance[b] + DevCredit /\ unreceipted'[b] = unreceipted[b] + DevCredit
    BY <1>0, <1>1 DEF LedgerTypeOK
  <2>7. Balanced(b)' <=>
          balance'[b] + SumOver(debited, Owned(b)) = unreceipted'[b] + SumOver(Worth, Receipted(b))
    BY <1>1, <1>2 DEF Balanced
  <2>8. balance[b] + SumOver(debited, Owned(b)) = unreceipted[b] + SumOver(Worth, Receipted(b))
    BY <2>1 DEF Balanced
  <2> QED
    BY <1>0, <2>4, <2>5, <2>6, <2>7, <2>8
<1> QED
  BY <1>2, <1>3, <1>4 DEF Conservation

\* A charge moves units from the balance to what the session was debited, or
\* nothing when its key was there already.
LEMMA ChargeBalances ==
    ASSUME Conservation, Accounting', OwnersKept, NEW s \in Sessions, TickCharge(s)
    PROVE  Conservation'
<1> DEFINE a == sess[s].agent
           units == ChargeUnits(s)
<1>0. LedgerTypeOK /\ TypeOK
  BY DEF Conservation, Accounting, TypeOK
<1>1. a \in Agents /\ ChargeUsage(a, s, units, Bucket(s))
  BY DEF TickCharge, Settling, Metered
<1>2. units \in Nat
  BY <1>0, Settlement
<1> HIDE DEF a, units
<1>3. /\ creditKeys' = creditKeys /\ unreceipted' = unreceipted
      /\ \/ balance' = balance /\ debited' = debited
         \/ /\ balance' = [balance EXCEPT ![a] = @ - units]
            /\ debited' = [debited EXCEPT ![s] = @ + units]
  BY <1>1 DEF ChargeUsage
<1>4. Unowned' /\ \A b \in Agents : Owned(b)' = Owned(b) /\ Receipted(b)' = Receipted(b)
  BY <1>3, OwnedKept DEF Receipted
<1>5. Finitely'
  BY <1>4 DEF Conservation, Finitely
<1>6. ASSUME NEW b \in Agents
      PROVE  Balanced(b)'
  <2>1. Balanced(b) /\ IsFiniteSet(Owned(b)) /\ IsFiniteSet(Receipted(b))
    BY DEF Conservation, Finitely
  <2>2. \A x \in Owned(b) : debited[x] \in Nat
    BY <1>0 DEF Owned, LedgerTypeOK
  <2>3. \A x \in Receipted(b) : Worth[x] \in Nat
    BY LedgerAssumption DEF Receipted
  <2>4. SumOver(debited, Owned(b)) \in Nat /\ SumOver(Worth, Receipted(b)) \in Nat
    BY <2>1, <2>2, <2>3, SumType
  <2>5. balance[b] \in Nat /\ unreceipted[b] \in Nat
    BY <1>0 DEF LedgerTypeOK
  <2>6. Balanced(b)' <=>
          balance'[b] + SumOver(debited', Owned(b)) = unreceipted[b] + SumOver(Worth, Receipted(b))
    BY <1>3, <1>4 DEF Balanced
  <2>7. balance[b] + SumOver(debited, Owned(b)) = unreceipted[b] + SumOver(Worth, Receipted(b))
    BY <2>1 DEF Balanced
  <2>8. CASE balance' = balance /\ debited' = debited
    BY <2>6, <2>7, <2>8
  <2>9. CASE /\ balance' = [balance EXCEPT ![a] = @ - units]
             /\ debited' = [debited EXCEPT ![s] = @ + units]
    <3>1. CASE b = a
      <4>1. s \in Owned(b)
        BY <3>1 DEF Owned, a
      <4>2. debited'[s] = debited[s] + units /\ \A x \in Owned(b) \ {s} : debited'[x] = debited[x]
        BY <1>0, <2>9 DEF LedgerTypeOK, Owned
      <4>3. SumOver(debited', Owned(b)) = SumOver(debited, Owned(b)) + units
        BY <1>2, <2>1, <2>2, <4>1, <4>2, SumRaise
      <4>4. balance'[b] = balance[b] - units
        BY <1>0, <2>9, <3>1 DEF LedgerTypeOK
      <4> QED
        BY <1>2, <2>4, <2>5, <2>6, <2>7, <4>3, <4>4
    <3>2. CASE b # a
      <4>1. s \notin Owned(b)
        BY <3>2 DEF Owned, a
      <4>2. \A x \in Owned(b) : debited[x] \in Nat /\ debited'[x] = debited[x]
        BY <1>0, <2>9, <4>1 DEF LedgerTypeOK, Owned
      <4>3. SumOver(debited', Owned(b)) = SumOver(debited, Owned(b))
        BY <2>1, <4>2, SumEqual
      <4>4. balance'[b] = balance[b]
        BY <1>0, <2>9, <3>2 DEF LedgerTypeOK
      <4> QED
        BY <2>6, <2>7, <4>3, <4>4
    <3> QED
      BY <3>1, <3>2
  <2> QED
    BY <1>3, <2>8, <2>9
<1> QED
  BY <1>4, <1>5, <1>6 DEF Conservation

\* A new session has been debited nothing yet.
LEMMA CreateBalances ==
    ASSUME Conservation, Accounting', NEW s \in Sessions, NEW a \in Agents \union {NoAgent},
           Create(s, a)
    PROVE  Conservation'
<1>0. LedgerTypeOK /\ TypeOK
  BY DEF Conservation, Accounting, TypeOK
<1>1. /\ sess' = [sess EXCEPT ![s] = [@ EXCEPT !.state = Created, !.agent = a]]
      /\ sess[s].state = Absent
      /\ UNCHANGED ledgerVars
  BY DEF Create
<1>2. sess[s] \in Lifecycle
  BY <1>0 DEF TypeOK
<1>3. sess'[s].agent = a /\ sess'[s].state = Created
  BY <1>0, <1>1, <1>2 DEF TypeOK, Lifecycle
<1>4. \A x \in Sessions : x # s => sess'[x] = sess[x]
  BY <1>0, <1>1 DEF TypeOK
<1>5. sess[s].agent = NoAgent
  BY <1>1 DEF Conservation, Unowned
<1>6. debited[s] = 0
  <2>1. debited[s] <= meter[s].charged /\ meter[s].charged = 0
    BY <1>1 DEF Conservation, Accounting, DebitsMatchCharges, BlankWhileFresh, Fresh
  <2> QED
    BY <1>0, <2>1 DEF LedgerTypeOK
<1>7. Unowned'
  BY <1>3, <1>4 DEF Conservation, Unowned, Created, Absent
<1>8. ASSUME NEW b \in Agents
      PROVE  /\ Owned(b)' = IF b = a THEN Owned(b) \union {s} ELSE Owned(b)
             /\ s \notin Owned(b)
             /\ Receipted(b)' = Receipted(b)
  <2>1. b # NoAgent
    BY BillingAssumption
  <2>2. s \notin Owned(b)
    BY <1>5, <2>1 DEF Owned
  <2> QED
    BY <1>1, <1>3, <1>4, <2>2 DEF Owned, Receipted, ledgerVars
<1>9. Finitely'
  <2> SUFFICES ASSUME NEW b \in Agents
               PROVE  IsFiniteSet(Owned(b)') /\ IsFiniteSet(Receipted(b)')
    BY DEF Finitely
  <2>1. IsFiniteSet(Owned(b)) /\ IsFiniteSet(Receipted(b))
    BY DEF Conservation, Finitely
  <2> QED
    BY <1>8, <2>1, FS_AddElement
<1>10. ASSUME NEW b \in Agents
       PROVE  Balanced(b)'
  <2>1. Balanced(b) /\ IsFiniteSet(Owned(b))
    BY DEF Conservation, Finitely
  <2>2. /\ balance' = balance /\ unreceipted' = unreceipted /\ debited' = debited
        /\ Receipted(b)' = Receipted(b)
    BY <1>1, <1>8 DEF ledgerVars
  <2>3. SumOver(debited, Owned(b)') = SumOver(debited, Owned(b))
    <3>1. CASE b # a
      BY <1>8, <3>1
    <3>2. CASE b = a
      <4>1. \A x \in Owned(b) \union {s} : debited[x] \in Nat
        BY <1>0 DEF LedgerTypeOK, Owned
      <4>2. SumOver(debited, Owned(b) \union {s}) = SumOver(debited, Owned(b)) + debited[s]
        BY <1>8, <2>1, <4>1, SumAdd
      <4>3. SumOver(debited, Owned(b)) \in Nat
        BY <2>1, <4>1, SumType
      <4> QED
        BY <1>6, <1>8, <3>2, <4>2, <4>3
    <3> QED
      BY <3>1, <3>2
  <2> QED
    BY <2>1, <2>2, <2>3 DEF Balanced
<1> QED
  BY <1>7, <1>9, <1>10 DEF Conservation

LEMMA ConservationStep == Conservation /\ [Next]_vars => Conservation'
<1> SUFFICES ASSUME Conservation, [Next]_vars
             PROVE  Conservation'
  OBVIOUS
<1>1. Accounting'
  BY AccountingStep DEF Conservation
<1>2. CASE \E s \in Sessions, a \in Agents \union {NoAgent} : Create(s, a)
  BY <1>1, <1>2, CreateBalances
<1>3. CASE OwnersKept
  <2>1. CASE UNCHANGED ledgerVars
    <3>1. /\ Unowned'
          /\ \A a \in Agents : Owned(a)' = Owned(a) /\ Receipted(a)' = Receipted(a)
      BY <1>3, <2>1, OwnedKept DEF Receipted, ledgerVars
    <3>2. Finitely'
      BY <3>1 DEF Conservation, Finitely
    <3>3. \A a \in Agents : Balanced(a)'
      BY <2>1, <3>1 DEF Conservation, Balanced, ledgerVars
    <3> QED
      BY <1>1, <3>1, <3>2, <3>3 DEF Conservation
  <2>2. CASE \E a \in Agents, r \in Receipts : TopUp(a, r)
    BY <1>1, <1>3, <2>2, TopUpBalances
  <2>3. CASE \E a \in Agents : TopUpUnreceipted(a)
    BY <1>1, <1>3, <2>3, UnreceiptedBalances
  <2>4. CASE \E s \in Sessions : TickCharge(s)
    BY <1>1, <1>3, <2>4, ChargeBalances
  <2> QED
    BY <2>1, <2>2, <2>3, <2>4, LedgerStep
<1>4. TypeOK
  BY DEF Conservation, Accounting
<1> QED
  BY <1>2, <1>3, <1>4, OwnersStep

\* What an agent has left and what its sessions were debited make up the
\* payments credited to it, each receipt once: for any number of agents,
\* sessions and receipts, infinitely many of them too.
THEOREM BalancesConservedCorrect == Spec => []BalancesConserved
<1>1. Conservation => BalancesConserved
  BY DEF Conservation, BalancesConserved, Balanced, Owned, Receipted
<1> QED
  BY <1>1, ConservationInit, ConservationStep, PTL DEF Spec
=============================================================================
