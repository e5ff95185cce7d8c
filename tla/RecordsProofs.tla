---------------------------- MODULE RecordsProofs ----------------------------
(***************************************************************************)
(* Proofs about the inbound events of module EventInbox, delivered while   *)
(* the requests and the billing pass of module AuditTrail run: whatever    *)
(* the sessions, the events, the deliveries and the capacities.            *)
(***************************************************************************)
EXTENDS Records, FiniteSetTheorems, SequenceTheorems, TLAPS

-----------------------------------------------------------------------------
(* The last elements of a list *)

LEMMA RecentProperties ==
    ASSUME NEW S, NEW list \in Seq(S), NEW n \in Nat
    PROVE  /\ Recent(list, n) \in Seq(S)
           /\ Len(Recent(list, n)) = IF n >= Len(list) THEN Len(list) ELSE n
           /\ \A i \in 1 .. Len(Recent(list, n)) :
                Recent(list, n)[i] = list[Len(list) - Len(Recent(list, n)) + i]
<1>1. Len(list) \in Nat /\ \A i \in 1 .. Len(list) : list[i] \in S
  BY LenProperties, ElementOfSeq
<1>2. CASE n >= Len(list)
  BY <1>1, <1>2 DEF Recent
<1>3. CASE n < Len(list)
  <2> DEFINE m == Len(list) - n + 1
  <2>1. m \in Int /\ m \in 1 .. Len(list) + 1 /\ Len(list) - m + 1 = n
    BY <1>1, <1>3
  <2>2. \A i \in m .. Len(list) : list[i] \in S
    BY <1>1, <2>1
  <2>3. /\ SubSeq(list, m, Len(list)) \in Seq(S)
        /\ Len(SubSeq(list, m, Len(list))) = IF m <= Len(list) THEN Len(list) - m + 1 ELSE 0
        /\ \A i \in 1 .. Len(list) - m + 1 : SubSeq(list, m, Len(list))[i] = list[m + i - 1]
    <3> HIDE DEF m
    <3> QED BY <1>1, <2>1, <2>2, SubSeqProperties
  <2>4. Recent(list, n) = SubSeq(list, m, Len(list))
    BY <1>1, <1>3 DEF Recent
  <2>5. Len(Recent(list, n)) = n
    BY <1>1, <1>3, <2>1, <2>3, <2>4
  <2>6. \A i \in 1 .. n : Recent(list, n)[i] = list[Len(list) - n + i]
    <3> SUFFICES ASSUME NEW i \in 1 .. n
                 PROVE  Recent(list, n)[i] = list[Len(list) - n + i]
      OBVIOUS
    <3>1. m + i - 1 = Len(list) - n + i
      BY <1>1
    <3>2. i \in 1 .. Len(list) - m + 1
      BY <2>1
    <3> QED BY <2>3, <2>4, <3>1, <3>2
  <2> QED BY <1>3, <2>3, <2>4, <2>5, <2>6, <1>1
<1> QED BY <1>1, <1>2, <1>3

\* Cutting a list down in two goes, or at once.
LEMMA RecentOfRecent ==
    ASSUME NEW S, NEW list \in Seq(S), NEW m \in Nat, NEW n \in Nat, n <= m
    PROVE  Recent(Recent(list, m), n) = Recent(list, n)
<1> DEFINE cut == Recent(list, m)
<1>1. /\ cut \in Seq(S)
      /\ Len(cut) = IF m >= Len(list) THEN Len(list) ELSE m
      /\ \A i \in 1 .. Len(cut) : cut[i] = list[Len(list) - Len(cut) + i]
  BY RecentProperties
<1> HIDE DEF cut
<1>2. /\ Recent(cut, n) \in Seq(S)
      /\ Len(Recent(cut, n)) = IF n >= Len(cut) THEN Len(cut) ELSE n
      /\ \A i \in 1 .. Len(Recent(cut, n)) :
           Recent(cut, n)[i] = cut[Len(cut) - Len(Recent(cut, n)) + i]
  BY <1>1, RecentProperties
<1>3. /\ Recent(list, n) \in Seq(S)
      /\ Len(Recent(list, n)) = IF n >= Len(list) THEN Len(list) ELSE n
      /\ \A i \in 1 .. Len(Recent(list, n)) :
           Recent(list, n)[i] = list[Len(list) - Len(Recent(list, n)) + i]
  BY RecentProperties
<1>4. Len(list) \in Nat /\ Len(cut) \in Nat
  BY <1>1, LenProperties
<1>5. Len(Recent(cut, n)) = Len(Recent(list, n)) /\ Len(Recent(list, n)) <= Len(cut)
      /\ Len(Recent(list, n)) \in Nat
  BY <1>1, <1>2, <1>3, <1>4
<1>6. ASSUME NEW i \in 1 .. Len(Recent(cut, n))
      PROVE  Recent(cut, n)[i] = Recent(list, n)[i]
  <2> DEFINE k == Len(Recent(list, n))
  <2>1. k \in Nat /\ Len(Recent(cut, n)) = k /\ k <= Len(cut) /\ i \in 1 .. k
    BY <1>5
  <2>2. Recent(cut, n)[i] = cut[Len(cut) - k + i]
    BY <1>2, <2>1
  <2>3. Recent(list, n)[i] = list[Len(list) - k + i]
    BY <1>3, <2>1
  <2> HIDE DEF k
  <2>4. Len(cut) - k + i \in 1 .. Len(cut)
    BY <1>4, <2>1
  <2>5. cut[Len(cut) - k + i] = list[Len(list) - Len(cut) + (Len(cut) - k + i)]
    BY <1>1, <2>4
  <2>6. Len(list) - Len(cut) + (Len(cut) - k + i) = Len(list) - k + i
    BY <1>4, <2>1
  <2> QED BY <2>2, <2>3, <2>5, <2>6
<1>7. Recent(cut, n) = Recent(list, n)
  BY <1>2, <1>3, <1>5, <1>6, SeqEqual
<1> QED BY <1>7 DEF cut

\* Cutting a list down again whenever something is added to it.
LEMMA RecentOfAppend ==
    ASSUME NEW S, NEW list \in Seq(S), NEW e \in S, NEW n \in Nat \ {0}
    PROVE  Recent(Append(Recent(list, n), e), n) = Recent(Append(list, e), n)
<1> DEFINE cut == Recent(list, n)
           short == Append(cut, e)
           long == Append(list, e)
<1>1. /\ cut \in Seq(S)
      /\ Len(cut) = IF n >= Len(list) THEN Len(list) ELSE n
      /\ \A i \in 1 .. Len(cut) : cut[i] = list[Len(list) - Len(cut) + i]
  BY RecentProperties
<1> HIDE DEF cut
<1>2. /\ short \in Seq(S)
      /\ Len(short) = Len(cut) + 1
      /\ \A i \in 1 .. Len(cut) : short[i] = cut[i]
      /\ short[Len(cut) + 1] = e
  BY <1>1, AppendProperties
<1>3. /\ long \in Seq(S)
      /\ Len(long) = Len(list) + 1
      /\ \A i \in 1 .. Len(list) : long[i] = list[i]
      /\ long[Len(list) + 1] = e
  BY AppendProperties
<1> HIDE DEF short, long
<1>0. n \in Nat /\ short \in Seq(S) /\ long \in Seq(S)
  BY <1>2, <1>3
<1>4. /\ Recent(short, n) \in Seq(S)
      /\ Len(Recent(short, n)) = IF n >= Len(short) THEN Len(short) ELSE n
      /\ \A i \in 1 .. Len(Recent(short, n)) :
           Recent(short, n)[i] = short[Len(short) - Len(Recent(short, n)) + i]
  BY <1>0, RecentProperties
<1>5. /\ Recent(long, n) \in Seq(S)
      /\ Len(Recent(long, n)) = IF n >= Len(long) THEN Len(long) ELSE n
      /\ \A i \in 1 .. Len(Recent(long, n)) :
           Recent(long, n)[i] = long[Len(long) - Len(Recent(long, n)) + i]
  BY <1>0, RecentProperties
<1>6. Len(list) \in Nat /\ Len(cut) \in Nat
  BY <1>1, LenProperties
<1>7. /\ Len(Recent(short, n)) = Len(Recent(long, n))
      /\ Len(Recent(long, n)) \in Nat
      /\ Len(Recent(long, n)) <= Len(short)
      /\ Len(short) <= Len(long)
  BY <1>1, <1>2, <1>3, <1>4, <1>5, <1>6
\* The two lists end alike.
<1>8. \A j \in 1 .. Len(short) : short[j] = long[Len(long) - Len(short) + j]
  <2> SUFFICES ASSUME NEW j \in 1 .. Len(short)
               PROVE  short[j] = long[Len(long) - Len(short) + j]
    OBVIOUS
  <2>1. CASE j = Len(cut) + 1
    <3>1. Len(long) - Len(short) + j = Len(list) + 1
      BY <1>2, <1>3, <1>6, <2>1
    <3> QED BY <1>2, <1>3, <2>1, <3>1
  <2>2. CASE j \in 1 .. Len(cut)
    <3>1. /\ Len(long) - Len(short) + j = Len(list) - Len(cut) + j
          /\ Len(list) - Len(cut) + j \in 1 .. Len(list)
      BY <1>1, <1>2, <1>3, <1>6, <2>2
    <3>2. short[j] = cut[j] /\ cut[j] = list[Len(list) - Len(cut) + j]
      BY <1>1, <1>2, <2>2
    <3> QED BY <1>3, <3>1, <3>2
  <2> QED BY <1>2, <1>6, <2>1, <2>2
<1>9. ASSUME NEW i \in 1 .. Len(Recent(short, n))
      PROVE  Recent(short, n)[i] = Recent(long, n)[i]
  <2> DEFINE k == Len(Recent(long, n))
  <2>1. k \in Nat /\ Len(Recent(short, n)) = k /\ k <= Len(short) /\ i \in 1 .. k
    BY <1>7
  <2>2. Recent(short, n)[i] = short[Len(short) - k + i]
    BY <1>4, <2>1
  <2>3. Recent(long, n)[i] = long[Len(long) - k + i]
    BY <1>5, <2>1
  <2> HIDE DEF k
  <2>4. Len(short) \in Nat /\ Len(long) \in Nat
    BY <1>2, <1>3, <1>6
  <2>5. Len(short) - k + i \in 1 .. Len(short)
    BY <2>1, <2>4
  <2>6. short[Len(short) - k + i] = long[Len(long) - Len(short) + (Len(short) - k + i)]
    BY <1>8, <2>5
  <2>7. Len(long) - Len(short) + (Len(short) - k + i) = Len(long) - k + i
    BY <2>1, <2>4
  <2> QED BY <2>2, <2>3, <2>6, <2>7
<1>10. Recent(short, n) = Recent(long, n)
  BY <1>4, <1>5, <1>7, <1>9, SeqEqual
<1> QED BY <1>10 DEF short, long, cut

-----------------------------------------------------------------------------
(* The inductive invariant *)

Listed(list, e) == \E i \in DOMAIN list : list[i] = e

\* The keys are those of the events that were stored, each stored once, and
\* the list of a session is cut from them.
Stored ==
    \A s \in Sessions :
        /\ OccursOnce(accepted[s])
        /\ \A e \in Events : <<s, e>> \in seen <=> Listed(accepted[s], e)
        /\ inbox[s] = Recent(accepted[s], Limit)

Tellers(s, e) == {d \in Deliveries : telling[d] = <<s, e>>}

ToldOf(s, e) == told[<<s, e>>] + Cardinality(Tellers(s, e)) = IF <<s, e>> \in seen THEN 1 ELSE 0

Reported == \A s \in Sessions, e \in Events : ToldOf(s, e)

InboxInv == InboxTypeOK /\ Stored /\ Reported

LEMMA AppendOnce ==
    ASSUME NEW S, NEW list \in Seq(S), NEW e \in S, OccursOnce(list), ~Listed(list, e)
    PROVE  /\ OccursOnce(Append(list, e))
           /\ \A f \in S : Listed(Append(list, e), f) <=> (Listed(list, f) \/ f = e)
<1> DEFINE long == Append(list, e)
<1>1. /\ long \in Seq(S)
      /\ Len(long) = Len(list) + 1
      /\ \A i \in 1 .. Len(list) : long[i] = list[i]
      /\ long[Len(list) + 1] = e
  BY AppendProperties
<1>2. Len(list) \in Nat /\ DOMAIN list = 1 .. Len(list)
  BY LenProperties
<1>3. DOMAIN long = 1 .. Len(list) + 1
  BY <1>1, LenProperties
<1> HIDE DEF long
<1>4. OccursOnce(long)
  BY <1>1, <1>2, <1>3 DEF OccursOnce, Listed
<1>5. \A f \in S : Listed(long, f) <=> (Listed(list, f) \/ f = e)
  BY <1>1, <1>2, <1>3 DEF Listed
<1> QED BY <1>4, <1>5 DEF long

LEMMA NothingIsNoEvent == \A s \in Sessions, e \in Events : <<s, e>> # Nothing
<1> SUFFICES ASSUME NEW s \in Sessions, NEW e \in Events
             PROVE  <<s, e>> # Nothing
  OBVIOUS
<1>1. <<s, e>> \in Sessions \X Events
  OBVIOUS
<1> QED BY <1>1, EventInboxAssumption DEF EventInboxAssumption

LEMMA TellersFinite ==
    ASSUME NEW s, NEW e
    PROVE  IsFiniteSet(Tellers(s, e)) /\ Cardinality(Tellers(s, e)) \in Nat
<1>1. Tellers(s, e) \in SUBSET Deliveries
  BY DEF Tellers
<1> QED BY <1>1, EventInboxAssumption, FS_Subset, FS_CardinalityType DEF EventInboxAssumption

LEMMA InboxInvInit == Init => InboxInv
<1> SUFFICES ASSUME Init
             PROVE  InboxInv
  OBVIOUS
<1> USE DEF Init, InboxInit
<1>1. InboxTypeOK
  BY DEF InboxTypeOK
<1>2. Stored
  <2> SUFFICES ASSUME NEW s \in Sessions
               PROVE  /\ OccursOnce(accepted[s])
                      /\ \A e \in Events : <<s, e>> \in seen <=> Listed(accepted[s], e)
                      /\ inbox[s] = Recent(accepted[s], Limit)
    BY DEF Stored
  <2>1. accepted[s] = <<>> /\ inbox[s] = <<>> /\ seen = {}
    OBVIOUS
  <2>2. Recent(<<>>, Limit) = <<>>
    BY EventInboxAssumption DEF Recent, EventInboxAssumption
  <2> QED BY <2>1, <2>2 DEF OccursOnce, Listed
<1>3. Reported
  <2> SUFFICES ASSUME NEW s \in Sessions, NEW e \in Events
               PROVE  ToldOf(s, e)
    BY DEF Reported
  <2>1. Tellers(s, e) = {}
    BY NothingIsNoEvent DEF Tellers
  <2> QED BY <2>1, FS_EmptySet DEF ToldOf
<1> QED BY <1>1, <1>2, <1>3 DEF InboxInv

LEMMA InboxInvStutter == InboxInv /\ UNCHANGED inboxVars => InboxInv'
<1> SUFFICES ASSUME InboxInv, UNCHANGED inboxVars
             PROVE  InboxInv'
  OBVIOUS
<1> USE DEF inboxVars
<1>1. InboxTypeOK'
  BY DEF InboxInv, InboxTypeOK
<1>2. Stored'
  BY DEF InboxInv, Stored
<1>3. Reported'
  BY DEF InboxInv, Reported, ToldOf, Tellers
<1> QED BY <1>1, <1>2, <1>3 DEF InboxInv

-----------------------------------------------------------------------------
(* Its steps *)

\* An event delivered again leaves the events alone.
LEMMA DuplicateUnchanged ==
    ASSUME NEW d \in Deliveries, NEW s \in Sessions, NEW e \in Events,
           Ingest(d, s, e), Duplicate(s, e)
    PROVE  UNCHANGED inboxVars
  BY DEF Ingest, Append_, Reports, inboxVars

LEMMA IngestPreserves ==
    ASSUME InboxInv, NEW d \in Deliveries, NEW s \in Sessions, NEW e \in Events,
           Ingest(d, s, e), ~Duplicate(s, e)
    PROVE  InboxInv'
<1>1. /\ seen' = seen \union {<<s, e>>}
      /\ inbox' = [inbox EXCEPT ![s] = Recent(Append(@, e), Limit)]
      /\ accepted' = [accepted EXCEPT ![s] = Append(@, e)]
      /\ telling' = [telling EXCEPT ![d] = <<s, e>>]
      /\ telling[d] = Nothing
      /\ told' = told
  BY DEF Ingest, Append_, Reports, Kept
<1>2. <<s, e>> \notin seen
  BY DEF Duplicate
<1>3. /\ accepted[s] \in Seq(Events)
      /\ inbox[s] = Recent(accepted[s], Limit)
      /\ OccursOnce(accepted[s])
      /\ ~Listed(accepted[s], e)
  BY <1>2 DEF InboxInv, InboxTypeOK, Stored
<1>4. Limit \in Nat \ {0}
  BY EventInboxAssumption DEF EventInboxAssumption
<1>5. accepted'[s] = Append(accepted[s], e) /\ accepted'[s] \in Seq(Events)
  BY <1>1, <1>3, AppendProperties DEF InboxInv, InboxTypeOK
<1>6. inbox'[s] = Recent(accepted'[s], Limit)
  <2>1. inbox'[s] = Recent(Append(inbox[s], e), Limit)
    BY <1>1 DEF InboxInv, InboxTypeOK
  <2> QED BY <1>3, <1>4, <1>5, <2>1, RecentOfAppend
<1>7. InboxTypeOK'
  <2>1. inbox'[s] \in Seq(Events)
    BY <1>4, <1>5, <1>6, RecentProperties
  <2>2. inbox' \in [Sessions -> Seq(Events)]
    BY <1>1, <2>1 DEF InboxInv, InboxTypeOK
  <2>3. accepted' \in [Sessions -> Seq(Events)]
    BY <1>1, <1>5 DEF InboxInv, InboxTypeOK
  <2>4. telling' \in [Deliveries -> (Sessions \X Events) \union {Nothing}]
    BY <1>1 DEF InboxInv, InboxTypeOK
  <2>5. seen' \subseteq Sessions \X Events
    BY <1>1 DEF InboxInv, InboxTypeOK
  <2> QED BY <1>1, <2>2, <2>3, <2>4, <2>5 DEF InboxInv, InboxTypeOK
<1>8. Stored'
  <2> SUFFICES ASSUME NEW t \in Sessions
               PROVE  /\ OccursOnce(accepted'[t])
                      /\ \A f \in Events : <<t, f>> \in seen' <=> Listed(accepted'[t], f)
                      /\ inbox'[t] = Recent(accepted'[t], Limit)
    BY DEF Stored
  <2>1. CASE t = s
    <3>1. /\ OccursOnce(accepted'[s])
          /\ \A f \in Events : Listed(accepted'[s], f) <=> (Listed(accepted[s], f) \/ f = e)
      BY <1>3, <1>5, AppendOnce
    <3>2. \A f \in Events : <<s, f>> \in seen' <=> (<<s, f>> \in seen \/ f = e)
      BY <1>1
    <3>3. \A f \in Events : <<s, f>> \in seen <=> Listed(accepted[s], f)
      BY DEF InboxInv, Stored
    <3> QED BY <1>6, <2>1, <3>1, <3>2, <3>3
  <2>2. CASE t # s
    <3>1. accepted'[t] = accepted[t] /\ inbox'[t] = inbox[t]
      BY <1>1, <2>2 DEF InboxInv, InboxTypeOK
    <3>2. \A f \in Events : <<t, f>> \in seen' <=> <<t, f>> \in seen
      BY <1>1, <2>2
    <3> QED BY <3>1, <3>2 DEF InboxInv, Stored
  <2> QED BY <2>1, <2>2
<1>9. Reported'
  <2> SUFFICES ASSUME NEW t \in Sessions, NEW f \in Events
               PROVE  ToldOf(t, f)'
    BY DEF Reported
  <2>1. told[<<t, f>>] \in Nat
    BY DEF InboxInv, InboxTypeOK
  <2>2. ToldOf(t, f)
    BY DEF InboxInv, Reported
  <2>3. IsFiniteSet(Tellers(t, f)) /\ Cardinality(Tellers(t, f)) \in Nat
    BY TellersFinite
  <2>4. d \notin Tellers(t, f)
    BY <1>1, NothingIsNoEvent DEF Tellers
  <2>5. CASE t = s /\ f = e
    <3>1. Tellers(t, f)' = Tellers(t, f) \union {d}
      BY <1>1, <2>5 DEF Tellers, InboxInv, InboxTypeOK
    <3>2. Cardinality(Tellers(t, f)') = Cardinality(Tellers(t, f)) + 1
      BY <2>3, <2>4, <3>1, FS_AddElement
    <3>3. <<t, f>> \notin seen /\ <<t, f>> \in seen'
      BY <1>1, <1>2, <2>5
    <3> QED BY <1>1, <2>1, <2>2, <2>3, <3>2, <3>3 DEF ToldOf
  <2>6. CASE ~(t = s /\ f = e)
    <3>1. Tellers(t, f)' = Tellers(t, f)
      BY <1>1, <2>4, <2>6 DEF Tellers, InboxInv, InboxTypeOK
    <3>2. <<t, f>> \in seen' <=> <<t, f>> \in seen
      BY <1>1, <2>6
    <3> QED BY <1>1, <2>2, <3>1, <3>2 DEF ToldOf
  <2> QED BY <2>5, <2>6
<1> QED BY <1>7, <1>8, <1>9 DEF InboxInv

LEMMA TellPreserves ==
    ASSUME InboxInv, NEW d \in Deliveries, Tell(d)
    PROVE  InboxInv'
<1>1. /\ UNCHANGED <<seen, inbox, accepted>>
      /\ telling' = [telling EXCEPT ![d] = Nothing]
      /\ told' = [told EXCEPT ![telling[d]] = @ + 1]
      /\ telling[d] # Nothing
  BY DEF Tell
<1>2. telling[d] \in Sessions \X Events
  BY <1>1 DEF InboxInv, InboxTypeOK
<1>3. told[telling[d]] \in Nat
  BY <1>2 DEF InboxInv, InboxTypeOK
<1>4. InboxTypeOK'
  <2>1. told' \in [Sessions \X Events -> Nat]
    BY <1>1, <1>3 DEF InboxInv, InboxTypeOK
  <2>2. telling' \in [Deliveries -> (Sessions \X Events) \union {Nothing}]
    BY <1>1 DEF InboxInv, InboxTypeOK
  <2> QED BY <1>1, <2>1, <2>2 DEF InboxInv, InboxTypeOK
<1>5. Stored'
  BY <1>1 DEF InboxInv, Stored
<1>6. Reported'
  <2> SUFFICES ASSUME NEW t \in Sessions, NEW f \in Events
               PROVE  ToldOf(t, f)'
    BY DEF Reported
  <2>1. told[<<t, f>>] \in Nat
    BY DEF InboxInv, InboxTypeOK
  <2>2. ToldOf(t, f)
    BY DEF InboxInv, Reported
  <2>3. IsFiniteSet(Tellers(t, f)) /\ Cardinality(Tellers(t, f)) \in Nat
    BY TellersFinite
  <2>4. CASE telling[d] = <<t, f>>
    <3>1. Tellers(t, f)' = Tellers(t, f) \ {d}
      BY <1>1, NothingIsNoEvent DEF Tellers, InboxInv, InboxTypeOK
    <3>2. d \in Tellers(t, f)
      BY <2>4 DEF Tellers
    <3>3. Cardinality(Tellers(t, f)') = Cardinality(Tellers(t, f)) - 1
      BY <2>3, <3>1, <3>2, FS_RemoveElement
    <3>4. told'[<<t, f>>] = told[<<t, f>>] + 1
      BY <1>1, <1>2, <2>4 DEF InboxInv, InboxTypeOK
    <3> QED BY <1>1, <2>1, <2>2, <2>3, <3>3, <3>4 DEF ToldOf
  <2>5. CASE telling[d] # <<t, f>>
    <3>1. Tellers(t, f)' = Tellers(t, f)
      BY <1>1, <2>5, NothingIsNoEvent DEF Tellers, InboxInv, InboxTypeOK
    <3>2. told'[<<t, f>>] = told[<<t, f>>]
      BY <1>1, <1>2, <2>5 DEF InboxInv, InboxTypeOK
    <3> QED BY <1>1, <2>2, <3>1, <3>2 DEF ToldOf
  <2> QED BY <2>4, <2>5
<1> QED BY <1>4, <1>5, <1>6 DEF InboxInv

-----------------------------------------------------------------------------
(* Theorems *)

\* The inductive invariant holds in every reachable state: webhook calls and
\* everything else that the platform does preserve it.
THEOREM InboxInvariant == Spec => []InboxInv
<1>1. Init => InboxInv
  BY InboxInvInit
<1>2. InboxInv /\ [Next]_vars => InboxInv'
  <2> SUFFICES ASSUME InboxInv, [Next]_vars
               PROVE  InboxInv'
    OBVIOUS
  <2>1. CASE InboxNext
    <3>1. CASE \E d \in Deliveries, s \in Sessions, e \in Events : Ingest(d, s, e)
      BY <3>1, DuplicateUnchanged, InboxInvStutter, IngestPreserves
    <3>2. CASE \E d \in Deliveries : Tell(d)
      BY <3>2, TellPreserves
    <3> QED BY <2>1, <3>1, <3>2 DEF InboxNext
  <2>2. CASE UNCHANGED inboxVars
    BY <2>2, InboxInvStutter
  <2>3. CASE UNCHANGED vars
    BY <2>3, InboxInvStutter DEF vars
  <2> QED BY <2>1, <2>2, <2>3 DEF Next
<1> QED BY <1>1, <1>2, PTL DEF Spec

\* A session's events are listed once, in the order in which they first came,
\* the latest of them, whatever is delivered again or at the same time.
THEOREM InboxKeepsLatest == Spec => []InboxIsLatest
<1>1. InboxInv => InboxIsLatest
  <2> SUFFICES ASSUME InboxInv, NEW s \in Sessions
               PROVE  /\ OccursOnce(accepted[s])
                      /\ \A n \in 1 .. Limit + 1 :
                           NaryoEvents(s, n) = Recent(accepted[s], IF n > Limit THEN Limit ELSE n)
    BY DEF InboxIsLatest
  <2>1. Limit \in Nat \ {0}
    BY EventInboxAssumption DEF EventInboxAssumption
  <2>2. /\ OccursOnce(accepted[s])
        /\ inbox[s] = Recent(accepted[s], Limit)
        /\ accepted[s] \in Seq(Events)
    BY DEF InboxInv, Stored, InboxTypeOK
  <2>3. ASSUME NEW n \in 1 .. Limit + 1
        PROVE  NaryoEvents(s, n) = Recent(accepted[s], IF n > Limit THEN Limit ELSE n)
    <3> DEFINE k == IF n > Limit THEN Limit ELSE n
    <3>1. k \in Nat /\ k <= Limit /\ ~(n <= 0)
      BY <2>1
    <3>2. NaryoEvents(s, n) = Recent(inbox[s], k)
      BY <3>1 DEF NaryoEvents
    <3> HIDE DEF k
    <3>3. Recent(inbox[s], k) = Recent(accepted[s], k)
      BY <2>1, <2>2, <3>1, RecentOfRecent
    <3> QED BY <3>2, <3>3 DEF k
  <2> QED BY <2>2, <2>3
<1> QED BY <1>1, InboxInvariant, PTL

\* The activity feed is told of every stored event once, by the call that
\* stored it, and of no other.
THEOREM InboxToldOnce == Spec => []EachToldOnce
<1>1. InboxInv => EachToldOnce
  <2> SUFFICES ASSUME InboxInv, NEW s \in Sessions, NEW e \in Events
               PROVE  told[<<s, e>>] + Cardinality(Tellers(s, e)) =
                        IF Listed(accepted[s], e) THEN 1 ELSE 0
    BY DEF EachToldOnce, Tellers, Listed
  <2> QED BY DEF InboxInv, Stored, Reported, ToldOf
<1> QED BY <1>1, InboxInvariant, PTL
=============================================================================
