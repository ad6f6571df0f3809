-------------------------- MODULE LandingBookProofs --------------------------
(***************************************************************************)
(* Proofs that LandingBook keeps its invariants, and implements            *)
(* LandingLedger, for any signatures, names, rounds and times.             *)
(***************************************************************************)
EXTENDS LandingSummary, PercentileProofs, SequenceTheorems

(***************************************************************************)
(* Facts about the map operations, cited instead of their definitions.     *)
(***************************************************************************)

\* insert: one more key, the new value there, nothing else changed.
LEMMA InsertFacts ==
  ASSUME NEW map, NEW key, NEW value
  PROVE  /\ DOMAIN Insert(map, key, value) = DOMAIN map \cup {key}
         /\ Insert(map, key, value)[key] = value
         /\ \A k \in DOMAIN map \ {key} : Insert(map, key, value)[k] = map[k]
  BY DEF Insert

\* entry().or_insert: like insert, but an entry that was there is kept.
LEMMA OrInsertFacts ==
  ASSUME NEW map, NEW key, NEW value
  PROVE  /\ DOMAIN OrInsert(map, key, value) = DOMAIN map \cup {key}
         /\ \A k \in DOMAIN map : OrInsert(map, key, value)[k] = map[k]
         /\ key \notin DOMAIN map => OrInsert(map, key, value)[key] = value
  BY DEF OrInsert

\* remove: one key less, the others unchanged.
LEMMA RemoveFacts ==
  ASSUME NEW map, NEW key
  PROVE  /\ DOMAIN Remove(map, key) = DOMAIN map \ {key}
         /\ \A k \in DOMAIN map \ {key} : Remove(map, key)[k] = map[k]
  BY DEF Remove, Restrict

\* A typed map stays typed under each operation.
LEMMA MapTypes ==
  ASSUME NEW Keys, NEW Val, NEW map \in [Keys -> Val], NEW key, NEW value \in Val
  PROVE  /\ Insert(map, key, value) \in [Keys \cup {key} -> Val]
         /\ OrInsert(map, key, value) \in [Keys \cup {key} -> Val]
         /\ Remove(map, key) \in [Keys \ {key} -> Val]
  BY DEF Insert, OrInsert, Remove, Restrict

\* The empty map has no key.
LEMMA EmptyMapFacts == DOMAIN EmptyMap = {}
  BY DEF EmptyMap
-----------------------------------------------------------------------------
(***************************************************************************)
(* Type correctness                                                        *)
(***************************************************************************)

\* Latency, as saturating_sub, never leaves the naturals.
LEMMA LatencyIsNat ==
  ASSUME NEW a \in Nat, NEW b \in Nat
  PROVE  Latency(a, b) \in Nat
  BY DEF Latency

\* The memo built from a name is read back as the name's first segment, and
\* the observation of a transaction names that transaction.
LEMMA ObservationFacts ==
  ASSUME NEW s, NEW t
  PROVE  /\ Observation(s, t).signature = s
         /\ Observation(s, t).elapsed_since_start = t
  BY DEF Observation

LEMMA TypeInit == BookAssumption /\ Init => TypeOK
  <1> SUFFICES ASSUME Init PROVE TypeOK
    OBVIOUS
  <1>1. DOMAIN sent = {} /\ DOMAIN metrics = {} /\ DOMAIN round_notifiers = {}
    BY EmptyMapFacts DEF Init
  <1>2. sent \in [DOMAIN sent -> SendRecord]
    BY <1>1 DEF Init, EmptyMap
  <1>3. metrics \in [DOMAIN metrics -> ProviderMetrics]
    BY <1>1 DEF Init, EmptyMap
  <1>4. round_notifiers \in [DOMAIN round_notifiers -> SUBSET Signatures]
    BY <1>1 DEF Init, EmptyMap
  <1> QED
    BY <1>1, <1>2, <1>3, <1>4 DEF Init, TypeOK

\* start_round and the calls that change nothing.
LEMMA TypeBegin ==
  ASSUME TypeOK, NEW r \in Rounds, BeginRound(r)
  PROVE  TypeOK'
  <1> USE DEF BeginRound, StartRound, WithNotifier
  <1>1. DOMAIN round_notifiers' = DOMAIN round_notifiers \cup {r}
    BY OrInsertFacts
  <1>2. round_notifiers' \in [DOMAIN round_notifiers' -> SUBSET Signatures]
    <2>1. round_notifiers \in [DOMAIN round_notifiers -> SUBSET Signatures]
      BY DEF TypeOK
    <2>2. {} \in SUBSET Signatures
      OBVIOUS
    <2>3. OrInsert(round_notifiers, r, {})
            \in [DOMAIN round_notifiers \cup {r} -> SUBSET Signatures]
      BY <2>1, <2>2, MapTypes
    <2> QED
      BY <1>1, <2>3
  <1>3. rounds_attempted' \in Nat
    BY DEF TypeOK
  <1> QED
    BY <1>1, <1>2, <1>3 DEF TypeOK

\* record_send.
LEMMA TypeRegister ==
  ASSUME BookAssumption, TypeOK,
         NEW s \in Signatures, NEW t \in Times, NEW r \in Rounds,
         Register(s, t, r)
  PROVE  TypeOK'
  <1> DEFINE rec == [provider |-> ProviderOf[s], sent_elapsed |-> t, round_id |-> r]
  <1>1. ProviderOf[s] \in Names
    BY DEF BookAssumption
  <1>2. rec \in SendRecord
    BY <1>1 DEF SendRecord
  <1>3. sent' = Insert(sent, s, rec)
    BY DEF Register, RecordSend
  <1>4. /\ DOMAIN sent' \subseteq Signatures
        /\ sent' \in [DOMAIN sent' -> SendRecord]
    <2> HIDE DEF rec
    <2>1. sent \in [DOMAIN sent -> SendRecord] /\ DOMAIN sent \subseteq Signatures
      BY DEF TypeOK
    <2>2. Insert(sent, s, rec) \in [DOMAIN sent \cup {s} -> SendRecord]
      BY <1>2, <2>1, MapTypes
    <2> QED
      BY <1>3, <2>1, <2>2
  <1>5. NoMetrics \in ProviderMetrics
    BY DEF NoMetrics, ProviderMetrics
  <1>6. /\ DOMAIN metrics' \subseteq Names
        /\ metrics' \in [DOMAIN metrics' -> ProviderMetrics]
    <2>1. metrics' = OrInsert(metrics, ProviderOf[s], NoMetrics)
      BY DEF Register, RecordSend, WithMetrics
    <2>2. metrics \in [DOMAIN metrics -> ProviderMetrics] /\ DOMAIN metrics \subseteq Names
      BY DEF TypeOK
    <2>3. OrInsert(metrics, ProviderOf[s], NoMetrics)
            \in [DOMAIN metrics \cup {ProviderOf[s]} -> ProviderMetrics]
      BY <1>5, <2>2, MapTypes
    <2> QED
      BY <1>1, <2>1, <2>2, <2>3
  <1>7. /\ DOMAIN round_notifiers' \subseteq Rounds
        /\ round_notifiers' \in [DOMAIN round_notifiers' -> SUBSET Signatures]
    <2> DEFINE w == OrInsert(round_notifiers, r, {})
    <2>1. round_notifiers \in [DOMAIN round_notifiers -> SUBSET Signatures]
          /\ DOMAIN round_notifiers \subseteq Rounds
      BY DEF TypeOK
    <2>2. w \in [DOMAIN round_notifiers \cup {r} -> SUBSET Signatures]
      <3>1. {} \in SUBSET Signatures
        OBVIOUS
      <3> QED
        BY <2>1, <3>1, MapTypes
    <2>3. round_notifiers' = [w EXCEPT ![r] = @ \cup {s}]
      BY DEF Register, RecordSend, WithNotifier
    <2> HIDE DEF w
    <2> QED
      BY <2>1, <2>2, <2>3
  <1>8. waiters' \subseteq Signatures
    BY DEF TypeOK, Register, RecordSend
  <1> QED
    BY <1>4, <1>6, <1>7, <1>8 DEF TypeOK, Register, RecordSend

\* record_landing, both branches that take the record out.
LEMMA TypeTaken ==
  ASSUME TypeOK, NEW s
  PROVE  /\ DOMAIN SentWithout(s) \subseteq Signatures
         /\ SentWithout(s) \in [DOMAIN SentWithout(s) -> SendRecord]
  <1>1. sent \in [DOMAIN sent -> SendRecord] /\ DOMAIN sent \subseteq Signatures
    BY DEF TypeOK
  <1>2. Remove(sent, s) \in [DOMAIN sent \ {s} -> SendRecord]
    BY <1>1 DEF Remove, Restrict
  <1> QED
    BY <1>1, <1>2 DEF SentWithout

LEMMA TypeForfeit ==
  ASSUME TypeOK, NEW s \in Signatures, NEW t \in Times, ForfeitLanding(Observation(s, t))
  PROVE  TypeOK'
  <1>1. sent' = SentWithout(s)
    BY ObservationFacts DEF ForfeitLanding
  <1>2. DOMAIN sent' \subseteq Signatures /\ sent' \in [DOMAIN sent' -> SendRecord]
    BY <1>1, TypeTaken
  <1> QED
    BY <1>2 DEF TypeOK, ForfeitLanding

\* What CreditLanding does, with the observation taken apart.
LEMMA CreditFacts ==
  ASSUME NEW s, NEW t, CreditLanding(Observation(s, t))
  PROVE  /\ s \in DOMAIN sent
         /\ sent' = Remove(sent, s)
         /\ metrics' = [WithMetrics(sent[s].provider) EXCEPT
                          ![sent[s].provider] = Credited(@, Latency(t, sent[s].sent_elapsed))]
         /\ landed_rounds' = landed_rounds \cup {sent[s].round_id}
         /\ waiters' = waiters \ {s}
         /\ acked' = acked \cup (waiters \cap {s})
         /\ notified' = notified \cup Receivers(sent[s].round_id)
         /\ round_notifiers' = Remove(round_notifiers, sent[s].round_id)
         /\ rounds_attempted' = rounds_attempted
  BY ObservationFacts, Zenon DEF CreditLanding, SentWithout

\* The fields of a pending record.
LEMMA PendingRecord ==
  ASSUME TypeOK, NEW s \in DOMAIN sent
  PROVE  /\ s \in Signatures
         /\ sent[s].provider \in Names
         /\ sent[s].sent_elapsed \in Times
         /\ sent[s].round_id \in Rounds
  BY DEF TypeOK, SendRecord

LEMMA TypeCredit ==
  ASSUME BookAssumption, TypeOK, NEW s \in Signatures, NEW t \in Times,
         CreditLanding(Observation(s, t))
  PROVE  TypeOK'
  <1> DEFINE p == sent[s].provider
             r == sent[s].round_id
             l == Latency(t, sent[s].sent_elapsed)
             w == WithMetrics(p)
  <1>1. /\ s \in DOMAIN sent
        /\ sent' = SentWithout(s)
        /\ metrics' = [w EXCEPT ![p] = Credited(@, l)]
        /\ landed_rounds' = landed_rounds \cup {r}
        /\ waiters' = waiters \ {s}
        /\ acked' = acked \cup (waiters \cap {s})
        /\ notified' = notified \cup Receivers(r)
        /\ round_notifiers' = Remove(round_notifiers, r)
        /\ rounds_attempted' = rounds_attempted
    BY CreditFacts DEF SentWithout
  <1>2. p \in Names /\ r \in Rounds /\ l \in Nat
    BY <1>1, PendingRecord, LatencyIsNat DEF BookAssumption
  <1>3. DOMAIN sent' \subseteq Signatures /\ sent' \in [DOMAIN sent' -> SendRecord]
    BY <1>1, TypeTaken
  <1>4. DOMAIN metrics' \subseteq Names /\ metrics' \in [DOMAIN metrics' -> ProviderMetrics]
    <2>1. metrics \in [DOMAIN metrics -> ProviderMetrics] /\ DOMAIN metrics \subseteq Names
      BY DEF TypeOK
    <2>2. NoMetrics \in ProviderMetrics
      BY DEF NoMetrics, ProviderMetrics
    <2>3. w \in [DOMAIN metrics \cup {p} -> ProviderMetrics]
      BY <2>1, <2>2, MapTypes DEF WithMetrics
    <2>4. Credited(w[p], l) \in ProviderMetrics
      BY <1>2, <2>3 DEF Credited, ProviderMetrics
    <2> HIDE DEF w, p, l
    <2> QED
      BY <1>1, <1>2, <2>1, <2>3, <2>4
  <1>5. DOMAIN round_notifiers' \subseteq Rounds
        /\ round_notifiers' \in [DOMAIN round_notifiers' -> SUBSET Signatures]
    <2>1. round_notifiers \in [DOMAIN round_notifiers -> SUBSET Signatures]
          /\ DOMAIN round_notifiers \subseteq Rounds
      BY DEF TypeOK
    <2> HIDE DEF r
    <2>2. Remove(round_notifiers, r) \in [DOMAIN round_notifiers \ {r} -> SUBSET Signatures]
      BY <2>1 DEF Remove, Restrict
    <2> QED
      BY <1>1, <2>1, <2>2
  <1>6. Receivers(r) \subseteq Signatures
    BY DEF Receivers, TypeOK
  <1> HIDE DEF p, r, l, w
  <1> QED
    BY <1>1, <1>2, <1>3, <1>4, <1>5, <1>6 DEF TypeOK

\* A step of Next, taken apart once for every proof below.
LEMMA StepCases ==
  ASSUME Next
  PROVE  \/ \E r \in Rounds : BeginRound(r)
         \/ \E s \in Signatures, t \in Times, r \in Rounds : Register(s, t, r)
         \/ \E s \in Signatures, t \in Times : ForfeitLanding(Observation(s, t))
         \/ \E s \in Signatures, t \in Times : CreditLanding(Observation(s, t))
         \/ UNCHANGED bookVars
  BY Zenon DEF Next, Observe, RecordLanding, IgnoreLanding

LEMMA TypeStep ==
  ASSUME BookAssumption, TypeOK, [Next]_bookVars
  PROVE  TypeOK'
  <1>1. CASE UNCHANGED bookVars
    BY <1>1 DEF bookVars, TypeOK
  <1>2. ASSUME NEW r \in Rounds, BeginRound(r) PROVE TypeOK'
    BY <1>2, TypeBegin
  <1>3. ASSUME NEW s \in Signatures, NEW t \in Times, NEW r \in Rounds, Register(s, t, r)
        PROVE  TypeOK'
    BY <1>3, TypeRegister
  <1>4. ASSUME NEW s \in Signatures, NEW t \in Times, ForfeitLanding(Observation(s, t))
        PROVE  TypeOK'
    BY <1>4, TypeForfeit
  <1>5. ASSUME NEW s \in Signatures, NEW t \in Times, CreditLanding(Observation(s, t))
        PROVE  TypeOK'
    BY <1>5, TypeCredit
  <1> QED
    BY <1>1, <1>2, <1>3, <1>4, <1>5, StepCases

\* The book's variables keep their types whatever its callers do.
THEOREM TypeCorrect == Spec => []TypeOK
  <1>1. Init => TypeOK
    BY BookAssumption, TypeInit
  <1>2. TypeOK /\ [Next]_bookVars => TypeOK'
    BY BookAssumption, TypeStep
  <1> QED
    BY <1>1, <1>2, PTL DEF Spec
-----------------------------------------------------------------------------
(***************************************************************************)
(* Who is registered, tagged, subscribed and woken.                        *)
(***************************************************************************)

\* The conjuncts of BookInv that count nothing.
Shape ==
  /\ PendingIsRegistered
  /\ PendingKeepsItsTag
  /\ SubscribedToOwnRound
  /\ NoLostWakeup
  /\ NoSpuriousWakeup

LEMMA ShapeInit == Init => Shape
  <1> SUFFICES ASSUME Init PROVE Shape
    OBVIOUS
  <1>1. DOMAIN sent = {} /\ DOMAIN round_notifiers = {}
    BY EmptyMapFacts DEF Init
  <1> QED
    BY <1>1 DEF Init, Shape, PendingIsRegistered, PendingKeepsItsTag,
                SubscribedToOwnRound, NoLostWakeup, NoSpuriousWakeup

LEMMA ShapeBegin ==
  ASSUME Shape, NEW r, BeginRound(r)
  PROVE  Shape'
  <1>1. /\ round_notifiers' = OrInsert(round_notifiers, r, {})
        /\ UNCHANGED <<sent, landed_rounds, waiters, acked, notified>>
    BY DEF BeginRound, StartRound, WithNotifier
  <1>2. /\ DOMAIN round_notifiers' = DOMAIN round_notifiers \cup {r}
        /\ \A q \in DOMAIN round_notifiers : round_notifiers'[q] = round_notifiers[q]
        /\ r \notin DOMAIN round_notifiers => round_notifiers'[r] = {}
    BY <1>1 DEF OrInsert
  <1>3. PendingKeepsItsTag'
    BY <1>1, <1>2 DEF Shape, PendingKeepsItsTag, Started
  <1>4. SubscribedToOwnRound'
    BY <1>1, <1>2 DEF Shape, SubscribedToOwnRound, Registered
  <1>5. NoLostWakeup'
    BY <1>1, <1>2 DEF Shape, NoLostWakeup, Receivers
  <1> QED
    BY <1>1, <1>3, <1>4, <1>5 DEF Shape, PendingIsRegistered, NoSpuriousWakeup

\* What Register does, with the maps taken apart.
LEMMA RegisterFacts ==
  ASSUME NEW s, NEW t, NEW r, Register(s, t, r)
  PROVE  /\ s \notin Registered /\ r \in Started
         /\ DOMAIN sent' = DOMAIN sent \cup {s}
         /\ sent'[s].provider = ProviderOf[s] /\ sent'[s].round_id = r
         /\ \A x \in DOMAIN sent \ {s} : sent'[x] = sent[x]
         /\ DOMAIN round_notifiers' = DOMAIN round_notifiers \cup {r}
         /\ \A q \in DOMAIN round_notifiers' :
              round_notifiers'[q] = Receivers(q) \cup (IF q = r THEN {s} ELSE {})
         /\ waiters' = waiters \cup {s}
         /\ UNCHANGED <<rounds_attempted, landed_rounds, acked, notified>>
  <1> DEFINE rec == [provider |-> ProviderOf[s], sent_elapsed |-> t, round_id |-> r]
             w   == OrInsert(round_notifiers, r, {})
  <1>1. sent' = Insert(sent, s, rec)
    BY DEF Register, RecordSend
  <1>2. round_notifiers' = [w EXCEPT ![r] = @ \cup {s}]
    BY DEF Register, RecordSend, WithNotifier
  <1>3. /\ DOMAIN w = DOMAIN round_notifiers \cup {r}
        /\ \A q \in DOMAIN w : w[q] = Receivers(q)
    BY DEF OrInsert, Receivers
  <1>4. /\ DOMAIN sent' = DOMAIN sent \cup {s}
        /\ sent'[s] = rec
        /\ \A x \in DOMAIN sent \ {s} : sent'[x] = sent[x]
    <2> HIDE DEF rec
    <2> QED
      BY <1>1 DEF Insert
  <1>5. rec.provider = ProviderOf[s] /\ rec.round_id = r
    OBVIOUS
  <1>6. /\ DOMAIN round_notifiers' = DOMAIN round_notifiers \cup {r}
        /\ \A q \in DOMAIN round_notifiers' :
             round_notifiers'[q] = Receivers(q) \cup (IF q = r THEN {s} ELSE {})
    <2> HIDE DEF w
    <2>1. DOMAIN round_notifiers' = DOMAIN w
      BY <1>2
    <2>2. round_notifiers'[r] = w[r] \cup {s}
      BY <1>2, <1>3
    <2>3. \A q \in DOMAIN w \ {r} : round_notifiers'[q] = w[q]
      BY <1>2
    <2> QED
      BY <1>3, <2>1, <2>2, <2>3
  <1> HIDE DEF rec, w
  <1> QED
    BY <1>4, <1>5, <1>6 DEF Register, RecordSend

LEMMA ShapeRegister ==
  ASSUME Shape, NEW s, NEW t, NEW r, Register(s, t, r)
  PROVE  Shape'
  <1> /\ s \notin Registered /\ r \in Started
      /\ DOMAIN sent' = DOMAIN sent \cup {s}
      /\ sent'[s].provider = ProviderOf[s] /\ sent'[s].round_id = r
      /\ \A x \in DOMAIN sent \ {s} : sent'[x] = sent[x]
      /\ DOMAIN round_notifiers' = DOMAIN round_notifiers \cup {r}
      /\ \A q \in DOMAIN round_notifiers' :
           round_notifiers'[q] = Receivers(q) \cup (IF q = r THEN {s} ELSE {})
      /\ waiters' = waiters \cup {s}
      /\ UNCHANGED <<rounds_attempted, landed_rounds, acked, notified>>
    BY RegisterFacts
  <1>0. s \notin DOMAIN sent /\ s \notin notified
    BY DEF Shape, PendingIsRegistered, SubscribedToOwnRound, Registered
  <1>1. PendingIsRegistered'
    BY DEF Shape, PendingIsRegistered, Registered
  <1>2. PendingKeepsItsTag'
    BY <1>0 DEF Shape, PendingKeepsItsTag, Started
  <1>3. SubscribedToOwnRound'
    <2>1. notified' \subseteq Registered'
      BY DEF Shape, SubscribedToOwnRound, Registered
    <2>2. ASSUME NEW q \in DOMAIN round_notifiers', NEW x \in round_notifiers'[q]
          PROVE  x \in Registered' /\ (x \in DOMAIN sent' => sent'[x].round_id = q)
      <3>1. CASE x = s
        <4>1. s \notin Receivers(q)
          BY DEF Receivers, Shape, SubscribedToOwnRound
        <4> QED
          BY <2>2, <3>1, <4>1 DEF Registered
      <3>2. CASE x # s
        <4>1. q \in DOMAIN round_notifiers /\ x \in round_notifiers[q]
          BY <2>2, <3>2 DEF Receivers
        <4> QED
          BY <3>2, <4>1 DEF Shape, SubscribedToOwnRound, Registered
      <3> QED
        BY <3>1, <3>2
    <2> QED
      BY <2>1, <2>2 DEF SubscribedToOwnRound
  <1>4. NoLostWakeup'
    BY <1>0 DEF Shape, NoLostWakeup, Receivers
  <1>5. NoSpuriousWakeup'
    BY <1>0 DEF Shape, NoSpuriousWakeup
  <1> QED
    BY <1>1, <1>2, <1>3, <1>4, <1>5 DEF Shape

LEMMA ShapeForfeit ==
  ASSUME Shape, NEW s, NEW t, ForfeitLanding(Observation(s, t))
  PROVE  Shape'
  <1>1. sent' = Remove(sent, s)
    BY ObservationFacts DEF ForfeitLanding, SentWithout
  <1>2. /\ DOMAIN sent' = DOMAIN sent \ {s}
        /\ \A x \in DOMAIN sent \ {s} : sent'[x] = sent[x]
    BY <1>1 DEF Remove, Restrict
  <1>3. UNCHANGED <<landed_rounds, waiters, round_notifiers, acked, notified>>
    BY DEF ForfeitLanding
  <1> QED
    BY <1>2, <1>3 DEF Shape, PendingIsRegistered, PendingKeepsItsTag, Started,
         SubscribedToOwnRound, Registered, NoLostWakeup, Receivers, NoSpuriousWakeup

\* A credited landing wakes the round it belongs to and no other: the
\* notifier taken out held nobody from elsewhere, and the subscribers of
\* other rounds keep theirs.
LEMMA ShapeCredit ==
  ASSUME Shape, NEW s, NEW t, CreditLanding(Observation(s, t))
  PROVE  Shape'
  <1> DEFINE r == sent[s].round_id
  <1>1. /\ s \in DOMAIN sent
        /\ landed_rounds' = landed_rounds \cup {r}
        /\ waiters' = waiters \ {s}
        /\ acked' = acked \cup (waiters \cap {s})
        /\ notified' = notified \cup Receivers(r)
    BY CreditFacts
  <1>2. /\ DOMAIN sent' = DOMAIN sent \ {s}
        /\ \A x \in DOMAIN sent \ {s} : sent'[x] = sent[x]
    <2>1. sent' = Remove(sent, s)
      BY CreditFacts
    <2> QED
      BY <2>1 DEF Remove, Restrict
  <1>3. /\ DOMAIN round_notifiers' = DOMAIN round_notifiers \ {r}
        /\ \A q \in DOMAIN round_notifiers \ {r} : round_notifiers'[q] = round_notifiers[q]
    <2>1. round_notifiers' = Remove(round_notifiers, r)
      BY CreditFacts
    <2> HIDE DEF r
    <2> QED
      BY <2>1 DEF Remove, Restrict
  <1>4. Registered' = Registered
    BY <1>1 DEF Registered
  <1> HIDE DEF r
  <1>5. PendingIsRegistered'
    BY <1>1, <1>2 DEF Shape, PendingIsRegistered
  <1>6. PendingKeepsItsTag'
    BY <1>1, <1>2, <1>3 DEF Shape, PendingKeepsItsTag, Started
  <1>7. SubscribedToOwnRound'
    BY <1>1, <1>2, <1>3, <1>4 DEF Shape, SubscribedToOwnRound, Receivers
  <1>8. NoLostWakeup'
    BY <1>1, <1>2, <1>3 DEF Shape, NoLostWakeup, Receivers
  <1>9. NoSpuriousWakeup'
    BY <1>1, <1>2 DEF Shape, NoSpuriousWakeup, SubscribedToOwnRound, Receivers
  <1> QED
    BY <1>5, <1>6, <1>7, <1>8, <1>9 DEF Shape

LEMMA ShapeStep ==
  ASSUME Shape, [Next]_bookVars
  PROVE  Shape'
  <1>1. CASE UNCHANGED bookVars
    BY <1>1 DEF bookVars, Shape, PendingIsRegistered, PendingKeepsItsTag, Started,
         SubscribedToOwnRound, Registered, NoLostWakeup, Receivers, NoSpuriousWakeup
  <1>2. ASSUME NEW r \in Rounds, BeginRound(r) PROVE Shape'
    BY <1>2, ShapeBegin
  <1>3. ASSUME NEW s \in Signatures, NEW t \in Times, NEW r \in Rounds, Register(s, t, r)
        PROVE  Shape'
    BY <1>3, ShapeRegister
  <1>4. ASSUME NEW s \in Signatures, NEW t \in Times, ForfeitLanding(Observation(s, t))
        PROVE  Shape'
    BY <1>4, ShapeForfeit
  <1>5. ASSUME NEW s \in Signatures, NEW t \in Times, CreditLanding(Observation(s, t))
        PROVE  Shape'
    BY <1>5, ShapeCredit
  <1> QED
    BY <1>1, <1>2, <1>3, <1>4, <1>5, StepCases
-----------------------------------------------------------------------------
(***************************************************************************)
(* What is counted.                                                        *)
(***************************************************************************)

\* The conjuncts of BookInv that count.
Counts ==
  /\ StartsAreCounted
  /\ EachLandedRoundWasWon
  /\ MetricsAreOfSenders
  /\ WinsAreDistinctLandings

LEMMA CountsInit == Init => Counts
  <1> SUFFICES ASSUME Init PROVE Counts
    OBVIOUS
  <1>1. DOMAIN round_notifiers = {} /\ DOMAIN metrics = {}
    BY EmptyMapFacts DEF Init
  <1>2. Started = {}
    BY <1>1 DEF Init, Started
  <1>3. \A p \in Names : {s \in acked : ProviderOf[s] = p} = {}
    BY DEF Init
  <1>4. IsFiniteSet({}) /\ Cardinality({}) = 0
    BY FS_EmptySet
  <1>5. StartsAreCounted
    BY <1>2, <1>4 DEF Init, StartsAreCounted
  <1>6. EachLandedRoundWasWon
    BY <1>4 DEF Init, EachLandedRoundWasWon
  <1>7. WinsAreDistinctLandings
    BY <1>1, <1>3, <1>4 DEF WinsAreDistinctLandings, Wins, Samples
  <1>8. MetricsAreOfSenders
    BY <1>1 DEF Init, MetricsAreOfSenders, Registered
  <1> QED
    BY <1>5, <1>6, <1>7, <1>8 DEF Counts

\* A set of rounds grows by one at most.
LEMMA AddOne ==
  ASSUME NEW S, IsFiniteSet(S), NEW x
  PROVE  /\ IsFiniteSet(S \cup {x})
         /\ Cardinality(S) \in Nat
         /\ Cardinality(S \cup {x}) <= Cardinality(S) + 1
         /\ x \notin S => Cardinality(S \cup {x}) = Cardinality(S) + 1
  BY FS_AddElement, FS_CardinalityType

LEMMA CountsBegin ==
  ASSUME TypeOK, Counts, NEW r, BeginRound(r)
  PROVE  Counts'
  <1>1. /\ round_notifiers' = OrInsert(round_notifiers, r, {})
        /\ rounds_attempted' = rounds_attempted + 1
        /\ UNCHANGED <<metrics, landed_rounds, waiters, acked>>
    BY DEF BeginRound, StartRound, WithNotifier
  <1>2. DOMAIN round_notifiers' = DOMAIN round_notifiers \cup {r}
    BY <1>1 DEF OrInsert
  <1>3. Started' = Started \cup {r}
    BY <1>1, <1>2 DEF Started
  <1>4. IsFiniteSet(Started) /\ Cardinality(Started) <= rounds_attempted
    BY DEF Counts, StartsAreCounted
  <1>5. /\ IsFiniteSet(Started \cup {r})
        /\ Cardinality(Started \cup {r}) <= Cardinality(Started) + 1
        /\ Cardinality(Started) \in Nat /\ Cardinality(Started \cup {r}) \in Nat
    BY <1>4, AddOne, FS_CardinalityType
  <1>6. rounds_attempted \in Nat
    BY DEF TypeOK
  <1>7. StartsAreCounted'
    BY <1>1, <1>3, <1>4, <1>5, <1>6 DEF StartsAreCounted
  <1> QED
    BY <1>1, <1>7 DEF Counts, EachLandedRoundWasWon, MetricsAreOfSenders, Registered,
                      WinsAreDistinctLandings, Wins, Samples

\* record_send puts an endpoint on the list with nothing won.
LEMMA CountsRegister ==
  ASSUME Counts, NEW s, NEW t, NEW r, Register(s, t, r)
  PROVE  Counts'
  <1>1. /\ r \in Started
        /\ DOMAIN round_notifiers' = DOMAIN round_notifiers \cup {r}
        /\ waiters' = waiters \cup {s}
        /\ UNCHANGED <<rounds_attempted, landed_rounds, acked>>
    BY RegisterFacts
  <1>2. Started' = Started
    BY <1>1 DEF Started
  <1>3. metrics' = OrInsert(metrics, ProviderOf[s], NoMetrics)
    BY DEF Register, RecordSend, WithMetrics
  <1>4. WinsAreDistinctLandings'
    <2>1. \A p : Wins(p)' = Wins(p) /\ Samples(p)' = Samples(p)
      BY <1>3 DEF OrInsert, Wins, Samples, NoMetrics
    <2> QED
      BY <1>1, <2>1 DEF Counts, WinsAreDistinctLandings
  <1>5. MetricsAreOfSenders'
    <2>1. DOMAIN metrics' = DOMAIN metrics \cup {ProviderOf[s]}
      BY <1>3 DEF OrInsert
    <2> QED
      BY <1>1, <2>1 DEF Counts, MetricsAreOfSenders, Registered
  <1> QED
    BY <1>1, <1>2, <1>4, <1>5 DEF Counts, StartsAreCounted, EachLandedRoundWasWon

LEMMA CountsForfeit ==
  ASSUME Counts, NEW s, NEW t, ForfeitLanding(Observation(s, t))
  PROVE  Counts'
  <1>1. UNCHANGED <<metrics, rounds_attempted, landed_rounds, waiters, round_notifiers, acked>>
    BY DEF ForfeitLanding
  <1> QED
    BY <1>1 DEF Counts, StartsAreCounted, Started, EachLandedRoundWasWon,
                MetricsAreOfSenders, Registered, WinsAreDistinctLandings, Wins, Samples

\* A credited landing adds one to the tally of its own endpoint, one sample,
\* and one transaction to those won; there are metrics of that endpoint then.
LEMMA WinsAfterCredit ==
  ASSUME TypeOK, Shape, NEW s, NEW t, CreditLanding(Observation(s, t))
  PROVE  /\ s \in Signatures /\ s \notin acked /\ acked' = acked \cup {s}
         /\ s \in waiters /\ DOMAIN metrics' = DOMAIN metrics \cup {ProviderOf[s]}
         /\ \A p \in Names :
              /\ Wins(p)'    = IF p = ProviderOf[s] THEN Wins(p) + 1 ELSE Wins(p)
              /\ Samples(p)' = IF p = ProviderOf[s] THEN Samples(p) + 1 ELSE Samples(p)
  <1> DEFINE p0 == ProviderOf[s]
             l  == Latency(t, sent[s].sent_elapsed)
             w  == WithMetrics(p0)
  <1>0. s \in DOMAIN sent /\ s \in waiters /\ s \notin acked /\ sent[s].provider = p0
    BY CreditFacts DEF Shape, PendingIsRegistered, PendingKeepsItsTag
  <1>1. /\ acked' = acked \cup (waiters \cap {s})
        /\ metrics' = [w EXCEPT ![p0] = Credited(@, l)]
    BY <1>0, CreditFacts
  <1>3. s \in Signatures /\ p0 \in Names
    BY <1>0, PendingRecord
  <1>4. metrics \in [DOMAIN metrics -> ProviderMetrics]
    BY DEF TypeOK
  <1>5. /\ DOMAIN w = DOMAIN metrics \cup {p0}
        /\ \A p \in DOMAIN metrics : w[p] = metrics[p]
        /\ p0 \notin DOMAIN metrics => w[p0] = NoMetrics
    BY DEF WithMetrics, OrInsert
  <1>6. w[p0] \in ProviderMetrics
    <2>1. NoMetrics \in ProviderMetrics
      BY DEF NoMetrics, ProviderMetrics
    <2> QED
      BY <1>4, <1>5, <2>1
  <1>7. w[p0].landed = Wins(p0) /\ Len(w[p0].latencies_ms) = Samples(p0)
    BY <1>5 DEF Wins, Samples, NoMetrics
  <1>8. /\ DOMAIN metrics' = DOMAIN metrics \cup {p0}
        /\ metrics'[p0] = Credited(w[p0], l)
        /\ \A p \in DOMAIN metrics' \ {p0} : metrics'[p] = metrics[p]
    <2> HIDE DEF w, p0, l
    <2> QED
      BY <1>1, <1>5
  <1> HIDE DEF w, l
  <1>9. Wins(p0)' = Wins(p0) + 1 /\ Samples(p0)' = Samples(p0) + 1
    <2>1. /\ Credited(w[p0], l).landed = w[p0].landed + 1
          /\ Len(Credited(w[p0], l).latencies_ms) = Len(w[p0].latencies_ms) + 1
      BY <1>6 DEF Credited, ProviderMetrics
    <2> QED
      BY <1>7, <1>8, <2>1 DEF Wins, Samples
  <1>10. ASSUME NEW p \in Names, p # p0
         PROVE  Wins(p)' = Wins(p) /\ Samples(p)' = Samples(p)
    BY <1>8, <1>10 DEF Wins, Samples
  <1> QED
    BY <1>0, <1>1, <1>3, <1>8, <1>9, <1>10

LEMMA CountsCredit ==
  ASSUME BookAssumption, TypeOK, Shape, Counts, NEW s, NEW t,
         CreditLanding(Observation(s, t))
  PROVE  Counts'
  <1> DEFINE r == sent[s].round_id
             of(p) == {x \in acked : ProviderOf[x] = p}
  <1>1. /\ s \in DOMAIN sent
        /\ landed_rounds' = landed_rounds \cup {r}
        /\ waiters' = waiters \ {s}
        /\ round_notifiers' = Remove(round_notifiers, r)
        /\ rounds_attempted' = rounds_attempted
    BY CreditFacts
  <1>2. /\ s \in Signatures /\ s \notin acked /\ acked' = acked \cup {s}
        /\ s \in waiters /\ DOMAIN metrics' = DOMAIN metrics \cup {ProviderOf[s]}
        /\ \A p \in Names :
             /\ Wins(p)'    = IF p = ProviderOf[s] THEN Wins(p) + 1 ELSE Wins(p)
             /\ Samples(p)' = IF p = ProviderOf[s] THEN Samples(p) + 1 ELSE Samples(p)
    BY WinsAfterCredit
  <1>3. IsFiniteSet(acked)
    BY FS_Subset DEF TypeOK, BookAssumption
  <1>4. IsFiniteSet(Started) /\ Cardinality(Started) <= rounds_attempted
    BY DEF Counts, StartsAreCounted
  <1>5. StartsAreCounted'
    <2>1. r \in Started
      BY <1>1 DEF Shape, PendingKeepsItsTag
    <2>2. DOMAIN round_notifiers' = DOMAIN round_notifiers \ {r}
      <3> HIDE DEF r
      <3> QED
        BY <1>1 DEF Remove, Restrict
    <2>3. Started' = Started
      BY <1>1, <2>1, <2>2 DEF Started
    <2> QED
      BY <1>1, <1>4, <2>3 DEF StartsAreCounted
  <1>6. EachLandedRoundWasWon'
    <2>1. IsFiniteSet(landed_rounds)
      BY <1>4, FS_Subset DEF Started
    <2>2. Cardinality(landed_rounds \cup {r}) <= Cardinality(landed_rounds) + 1
          /\ Cardinality(landed_rounds) \in Nat
          /\ Cardinality(landed_rounds \cup {r}) \in Nat
      BY <2>1, AddOne, FS_CardinalityType
    <2>3. Cardinality(acked \cup {s}) = Cardinality(acked) + 1 /\ Cardinality(acked) \in Nat
      BY <1>2, <1>3, AddOne
    <2>4. Cardinality(landed_rounds) <= Cardinality(acked)
      BY DEF Counts, EachLandedRoundWasWon
    <2> HIDE DEF r
    <2> QED
      BY <1>1, <1>2, <2>2, <2>3, <2>4 DEF EachLandedRoundWasWon
  <1>7. WinsAreDistinctLandings'
    <2> SUFFICES ASSUME NEW p \in Names
                 PROVE  /\ Wins(p)' = Cardinality({x \in acked' : ProviderOf[x] = p})
                        /\ Samples(p)' = Wins(p)'
      BY DEF WinsAreDistinctLandings
    <2>1. Wins(p) = Cardinality(of(p)) /\ Samples(p) = Wins(p)
      BY DEF Counts, WinsAreDistinctLandings
    <2>2. IsFiniteSet(of(p)) /\ s \notin of(p)
      <3>1. of(p) \in SUBSET acked
        OBVIOUS
      <3> QED
        BY <1>2, <1>3, <3>1, FS_Subset
    <2>3. CASE p = ProviderOf[s]
      <3>1. {x \in acked' : ProviderOf[x] = p} = of(p) \cup {s}
        BY <1>2, <2>3
      <3>2. Cardinality(of(p) \cup {s}) = Cardinality(of(p)) + 1
        <4> HIDE DEF of
        <4> QED
          BY <2>2, AddOne
      <3> QED
        BY <1>2, <2>1, <2>3, <3>1, <3>2
    <2>4. CASE p # ProviderOf[s]
      <3>1. {x \in acked' : ProviderOf[x] = p} = of(p)
        BY <1>2, <2>4
      <3> QED
        BY <1>2, <2>1, <2>4, <3>1
    <2> QED
      BY <2>3, <2>4
  <1>8. MetricsAreOfSenders'
    <2>1. Registered' = Registered /\ s \in Registered
      BY <1>1, <1>2 DEF Registered
    <2> QED
      BY <1>2, <2>1 DEF Counts, MetricsAreOfSenders
  <1> QED
    BY <1>5, <1>6, <1>7, <1>8 DEF Counts

LEMMA CountsStep ==
  ASSUME BookAssumption, TypeOK, Shape, Counts, [Next]_bookVars
  PROVE  Counts'
  <1>1. CASE UNCHANGED bookVars
    BY <1>1 DEF bookVars, Counts, StartsAreCounted, Started, EachLandedRoundWasWon,
                MetricsAreOfSenders, Registered, WinsAreDistinctLandings, Wins, Samples
  <1>2. ASSUME NEW r \in Rounds, BeginRound(r) PROVE Counts'
    BY <1>2, CountsBegin
  <1>3. ASSUME NEW s \in Signatures, NEW t \in Times, NEW r \in Rounds, Register(s, t, r)
        PROVE  Counts'
    BY <1>3, CountsRegister
  <1>4. ASSUME NEW s \in Signatures, NEW t \in Times, ForfeitLanding(Observation(s, t))
        PROVE  Counts'
    BY <1>4, CountsForfeit
  <1>5. ASSUME NEW s \in Signatures, NEW t \in Times, CreditLanding(Observation(s, t))
        PROVE  Counts'
    BY <1>5, CountsCredit
  <1> QED
    BY <1>1, <1>2, <1>3, <1>4, <1>5, StepCases
-----------------------------------------------------------------------------
(***************************************************************************)
(* The theorems                                                            *)
(***************************************************************************)

LEMMA BookInvSplit == BookInv <=> TypeOK /\ Shape /\ Counts
  BY DEF BookInv, Shape, Counts

\* BookInv is inductive.  The two lemmas are also what a user of the book needs
\* to carry BookInv along in an induction of its own.
LEMMA BookInit == Init => BookInv
  BY BookAssumption, TypeInit, ShapeInit, CountsInit, BookInvSplit

LEMMA BookStep == BookInv /\ [Next]_bookVars => BookInv'
  <1> SUFFICES ASSUME BookInv, [Next]_bookVars PROVE BookInv'
    OBVIOUS
  <1>1. TypeOK /\ Shape /\ Counts
    BY BookInvSplit
  <1>2. TypeOK' /\ Shape' /\ Counts'
    BY <1>1, BookAssumption, TypeStep, ShapeStep, CountsStep
  <1> QED
    BY <1>2 DEF BookInv, Shape, Counts

\* Everything the book keeps together, whatever its callers do.
THEOREM BookInvariant == Spec => []BookInv
  BY BookInit, BookStep, PTL DEF Spec

\* No transaction is ever counted twice, in any interleaving of the calls.
THEOREM NoDoubleCount == Spec => []WinsAreDistinctLandings
  <1>1. BookInv => WinsAreDistinctLandings
    BY DEF BookInv
  <1> QED
    BY <1>1, BookInvariant, PTL

\* The ratio of landed rounds stays within 100%, also when rounds share an id.
THEOREM RatioBounded == Spec => []LandedRatioIsBounded
  <1>1. BookInv => LandedRatioIsBounded
    <2> SUFFICES ASSUME BookInv PROVE LandedRatioIsBounded
      OBVIOUS
    <2>1. IsFiniteSet(Started) /\ Cardinality(Started) <= rounds_attempted
          /\ rounds_attempted \in Nat
      BY DEF BookInv, StartsAreCounted, TypeOK
    <2>2. landed_rounds \in SUBSET Started
      BY DEF Started
    <2>3. /\ Cardinality(landed_rounds) <= Cardinality(Started)
          /\ Cardinality(Started) \in Nat /\ Cardinality(landed_rounds) \in Nat
      BY <2>1, <2>2, FS_Subset, FS_CardinalityType
    <2> QED
      BY <2>1, <2>3 DEF BookInv, EachLandedRoundWasWon, LandedRatioIsBounded
  <1> QED
    BY <1>1, BookInvariant, PTL

\* Whoever waits on a pending transaction has been woken or will be by the
\* next landing of its round: record_landing leaves nobody behind.
THEOREM NobodyIsForgotten == Spec => []NoLostWakeup
  <1>1. BookInv => NoLostWakeup
    BY DEF BookInv
  <1> QED
    BY <1>1, BookInvariant, PTL

\* Nobody is woken by the landing of a round that is not its own.
THEOREM NobodyIsMisled == Spec => []NoSpuriousWakeup
  <1>1. BookInv => NoSpuriousWakeup
    BY DEF BookInv
  <1> QED
    BY <1>1, BookInvariant, PTL

\* Names of one segment, that is without a bar.
BarlessNames == \A p \in Names : \E segment : p = <<segment>>

\* The tag built from such a name is read back unchanged.
LEMMA TagRoundTrip ==
  ASSUME BarlessNames, NEW p \in Names
  PROVE  ObservedProvider(Payload(p)) = p
  <1>1. PICK segment : p = <<segment>>
    BY DEF BarlessNames
  <1> DEFINE S == {segment, "random"}
  <1>2. p \in Seq(S) /\ Len(p) = 1 /\ p[1] = segment
    BY <1>1
  <1>3. Payload(p)[1] = segment
    <2> HIDE DEF S
    <2> QED
      BY <1>2, AppendProperties DEF Payload, Tagged
  <1> QED
    BY <1>1, <1>3 DEF ObservedProvider

LEMMA NothingForfeited ==
  ASSUME BookAssumption, BarlessNames, BookInv,
         NEW s, NEW t, ForfeitLanding(Observation(s, t))
  PROVE  FALSE
  <1>1. s \in DOMAIN sent /\ ObservedProvider(Observation(s, t).memo) # sent[s].provider
    BY ObservationFacts DEF ForfeitLanding
  <1>2. sent[s].provider = ProviderOf[s] /\ s \in Signatures
    BY <1>1 DEF BookInv, PendingKeepsItsTag, TypeOK
  <1>3. Observation(s, t).memo = Payload(ProviderOf[s]) /\ ProviderOf[s] \in Names
    BY <1>2 DEF Observation, BookAssumption
  <1> QED
    BY <1>1, <1>2, <1>3, TagRoundTrip

\* Without bars in the names nothing that was registered is ever lost to the
\* book: what is not credited is still awaited.
THEOREM BarlessNamesForfeitNothing ==
  ASSUME BarlessNames
  PROVE  Spec => []NoForfeit
  <1>1. Init => NoForfeit
    BY DEF Init, NoForfeit
  <1>2. NoForfeit /\ BookInv /\ [Next]_bookVars => NoForfeit'
    <2> SUFFICES ASSUME NoForfeit, BookInv, [Next]_bookVars PROVE NoForfeit'
      OBVIOUS
    <2>1. CASE UNCHANGED bookVars
      BY <2>1 DEF bookVars, NoForfeit
    <2>2. ASSUME NEW r \in Rounds, BeginRound(r) PROVE NoForfeit'
      BY <2>2 DEF BeginRound, StartRound, NoForfeit
    <2>3. ASSUME NEW s \in Signatures, NEW t \in Times, NEW r \in Rounds, Register(s, t, r)
          PROVE  NoForfeit'
      <3>1. DOMAIN sent' = DOMAIN sent \cup {s} /\ waiters' = waiters \cup {s}
        BY <2>3, RegisterFacts
      <3> QED
        BY <3>1 DEF NoForfeit
    <2>4. ASSUME NEW s \in Signatures, NEW t \in Times, ForfeitLanding(Observation(s, t))
          PROVE  NoForfeit'
      BY <2>4, BookAssumption, NothingForfeited
    <2>5. ASSUME NEW s \in Signatures, NEW t \in Times, CreditLanding(Observation(s, t))
          PROVE  NoForfeit'
      <3>1. sent' = Remove(sent, s) /\ waiters' = waiters \ {s}
        BY <2>5, CreditFacts
      <3>2. DOMAIN sent' = DOMAIN sent \ {s}
        BY <3>1 DEF Remove, Restrict
      <3> QED
        BY <3>1, <3>2 DEF NoForfeit
    <2> QED
      BY <2>1, <2>2, <2>3, <2>4, <2>5, StepCases
  <1> QED
    BY <1>1, <1>2, BookInvariant, PTL DEF Spec
-----------------------------------------------------------------------------
(***************************************************************************)
(* Refinement                                                              *)
(***************************************************************************)

\* The wins the ledger sees.
Tally == [p \in Names |-> Wins(p)]

LEMMA LedgerInit == Init => Ledger!Init
  <1> SUFFICES ASSUME Init PROVE Ledger!Init
    OBVIOUS
  <1>1. DOMAIN sent = {} /\ DOMAIN metrics = {}
    BY EmptyMapFacts DEF Init
  <1>2. [p \in Names |-> Wins(p)] = [p \in Names |-> 0]
    BY <1>1 DEF Wins
  <1> QED
    BY <1>1, <1>2 DEF Init, Ledger!Init

LEMMA LedgerSame ==
  ASSUME UNCHANGED <<DOMAIN sent, metrics, waiters, acked>>
  PROVE  UNCHANGED Ledger!ledgerVars
  BY DEF Ledger!ledgerVars, Wins

LEMMA LedgerEnter ==
  ASSUME BookInv, NEW s \in Signatures, NEW t \in Times, NEW r \in Rounds, Register(s, t, r)
  PROVE  Ledger!Enter(s)
  <1>1. /\ s \notin Registered
        /\ DOMAIN sent' = DOMAIN sent \cup {s}
        /\ waiters' = waiters \cup {s}
        /\ acked' = acked
    BY RegisterFacts
  <1>2. s \notin DOMAIN sent /\ s \notin waiters /\ s \notin acked
    BY <1>1 DEF BookInv, PendingIsRegistered, Registered
  <1>3. Tally' = Tally
    <2>1. metrics' = OrInsert(metrics, ProviderOf[s], NoMetrics)
      BY DEF Register, RecordSend, WithMetrics
    <2>2. ASSUME NEW p PROVE Wins(p)' = Wins(p)
      BY <2>1 DEF OrInsert, Wins, NoMetrics
    <2> QED
      BY <2>2 DEF Tally
  <1> QED
    BY <1>1, <1>2, <1>3 DEF Ledger!Enter, Tally

LEMMA LedgerForfeit ==
  ASSUME BookInv, NEW s \in Signatures, NEW t \in Times, ForfeitLanding(Observation(s, t))
  PROVE  Ledger!Forfeit(s)
  <1>1. /\ s \in DOMAIN sent
        /\ sent' = Remove(sent, s)
        /\ UNCHANGED <<metrics, waiters, acked>>
    BY ObservationFacts DEF ForfeitLanding, SentWithout
  <1>2. DOMAIN sent' = DOMAIN sent \ {s}
    BY <1>1 DEF Remove, Restrict
  <1>3. s \in waiters
    BY <1>1 DEF BookInv, PendingIsRegistered
  <1> QED
    BY <1>1, <1>2, <1>3 DEF Ledger!Forfeit, Wins

LEMMA LedgerWin ==
  ASSUME BookInv, NEW s \in Signatures, NEW t \in Times, CreditLanding(Observation(s, t))
  PROVE  Ledger!Win(s)
  <1>1. TypeOK /\ Shape
    BY BookInvSplit
  <1>2. /\ acked' = acked \cup {s}
        /\ \A p \in Names : Wins(p)' = IF p = ProviderOf[s] THEN Wins(p) + 1 ELSE Wins(p)
    BY <1>1, WinsAfterCredit
  <1>3. s \in DOMAIN sent /\ sent' = Remove(sent, s) /\ waiters' = waiters \ {s}
    BY CreditFacts
  <1>4. DOMAIN sent' = DOMAIN sent \ {s}
    BY <1>3 DEF Remove, Restrict
  <1>5. waiters' \ DOMAIN sent' = waiters \ DOMAIN sent
    BY <1>3, <1>4
  <1>6. Tally' = [Tally EXCEPT ![ProviderOf[s]] = @ + 1]
    BY <1>2 DEF Tally
  <1> QED
    BY <1>2, <1>3, <1>4, <1>5, <1>6 DEF Ledger!Win, Tally

\* Every run of the book is a run of the ledger: a transaction enters once,
\* leaves once, and the tallies move only when one leaves as won.
THEOREM BookImplementsLedger == Spec => ImplementsLedger
  <1>1. Init => Ledger!Init
    BY LedgerInit
  <1>2. BookInv /\ [Next]_bookVars => [Ledger!Next]_(Ledger!ledgerVars)
    <2> SUFFICES ASSUME BookInv, [Next]_bookVars
                 PROVE  Ledger!Next \/ UNCHANGED Ledger!ledgerVars
      OBVIOUS
    <2>1. CASE UNCHANGED bookVars
      BY <2>1, LedgerSame DEF bookVars
    <2>2. ASSUME NEW r \in Rounds, BeginRound(r) PROVE UNCHANGED Ledger!ledgerVars
      BY <2>2, LedgerSame DEF BeginRound, StartRound
    <2>3. ASSUME NEW s \in Signatures, NEW t \in Times, NEW r \in Rounds, Register(s, t, r)
          PROVE  Ledger!Next
      BY <2>3, LedgerEnter DEF Ledger!Next
    <2>4. ASSUME NEW s \in Signatures, NEW t \in Times, ForfeitLanding(Observation(s, t))
          PROVE  Ledger!Next
      BY <2>4, LedgerForfeit DEF Ledger!Next
    <2>5. ASSUME NEW s \in Signatures, NEW t \in Times, CreditLanding(Observation(s, t))
          PROVE  Ledger!Next
      BY <2>5, LedgerWin DEF Ledger!Next
    <2> QED
      BY <2>1, <2>2, <2>3, <2>4, <2>5, StepCases
  <1> QED
    BY <1>1, <1>2, BookInvariant, PTL DEF Spec, ImplementsLedger, Ledger!Spec
-----------------------------------------------------------------------------
(***************************************************************************)
(* The report: what its loops come to.                                     *)
(***************************************************************************)

\* A sum starts at 0 and grows by each element.
LEMMA SumFacts ==
  ASSUME NEW data \in Seq(Int)
  PROVE  /\ Sums(data)[0] = 0
         /\ \A i \in 1..Len(data) : Sums(data)[i] = Sums(data)[i - 1] + data[i]
         /\ \A i \in 0..Len(data) : Sums(data)[i] \in Int
  <1> DEFINE n    == Len(data)
             step == [i \in 1..n |-> [v \in Int |-> v + data[i]]]
             loop(f) == f = [i \in 0..n |-> IF i = 0 THEN 0 ELSE f[i - 1] + data[i]]
  <1>1. n \in Nat /\ \A i \in 1..n : data[i] \in Int
    OBVIOUS
  <1>2. PICK f : Loop(f, 0, step, n, Int)
    <2>1. Turns(step, n, Int)
      BY <1>1 DEF Turns
    <2> HIDE DEF step
    <2> QED
      BY <2>1, LoopFunction
  <1>3. f \in [0..n -> Int] /\ f[0] = 0 /\ \A i \in 1..n : f[i] = step[i][f[i - 1]]
    BY <1>2 DEF Loop
  <1>4. \A i \in 1..n : f[i] = f[i - 1] + data[i]
    <2> SUFFICES ASSUME NEW i \in 1..n PROVE f[i] = f[i - 1] + data[i]
      OBVIOUS
    <2>1. i - 1 \in 0..n
      BY <1>1
    <2>2. f[i - 1] \in Int
      BY <1>3, <2>1
    <2> QED
      BY <1>3, <2>2
  <1>5. loop(f)
    <2> HIDE DEF step, n
    <2>1. \A i \in 0..n : f[i] = IF i = 0 THEN 0 ELSE f[i - 1] + data[i]
      BY <1>1, <1>3, <1>4
    <2> QED
      BY <1>3, <2>1
  <1>6. loop(Sums(data))
    <2>1. Sums(data) = CHOOSE g : loop(g)
      BY DEF Sums
    <2> QED
      BY <1>5, <2>1
  <1> DEFINE total == Sums(data)
             typed == {i \in 0..n : total[i] \in Int}
  <1>7. total[0] = 0 /\ \A i \in 1..n : total[i] = total[i - 1] + data[i]
    <2> HIDE DEF total
    <2>1. total = [i \in 0..n |-> IF i = 0 THEN 0 ELSE total[i - 1] + data[i]]
      BY <1>6 DEF total
    <2> HIDE DEF n
    <2> QED
      BY <1>1, <2>1
  <1> HIDE DEF total
  <1>8. \A i \in 0..n : i \in typed
    <2>1. 0 \in typed /\ \A i \in 1..n : i - 1 \in typed => i \in typed
      BY <1>1, <1>7
    <2> HIDE DEF typed, n
    <2> QED
      BY <1>1, <2>1, Induction
  <1> QED
    BY <1>7, <1>8 DEF total

\* A sum is no less than its least element for each, and no more than its
\* greatest.
LEMMA SumBounds ==
  ASSUME NEW data \in Seq(Int), NEW least \in Int, NEW greatest \in Int,
         \A i \in 1..Len(data) : least <= data[i] /\ data[i] <= greatest
  PROVE  /\ Total(data) \in Int
         /\ Len(data) * least <= Total(data) /\ Total(data) <= Len(data) * greatest
  <1> DEFINE n     == Len(data)
             sum   == Sums(data)
             within == {i \in 0..n : i * least <= sum[i] /\ sum[i] <= i * greatest}
  <1>1. n \in Nat /\ \A i \in 1..n : data[i] \in Int
    OBVIOUS
  <1>2. /\ sum[0] = 0
        /\ \A i \in 1..n : sum[i] = sum[i - 1] + data[i]
        /\ \A i \in 0..n : sum[i] \in Int
    BY SumFacts
  <1>3. \A i \in 1..n : least <= data[i] /\ data[i] <= greatest
    OBVIOUS
  <1> HIDE DEF n, sum
  <1>4. ASSUME NEW i \in 1..n, i - 1 \in within PROVE i \in within
    <2>1. i - 1 \in 0..n /\ i \in 0..n
      BY <1>1
    <2>2. (i - 1) * least <= sum[i - 1] /\ sum[i - 1] <= (i - 1) * greatest
      BY <1>4
    <2>3. i * least = (i - 1) * least + least /\ i * greatest = (i - 1) * greatest + greatest
      BY <1>1
    <2>4. (i - 1) * least \in Int /\ (i - 1) * greatest \in Int
      BY <1>1
    <2>5. sum[i] = sum[i - 1] + data[i] /\ sum[i - 1] \in Int /\ data[i] \in Int
      BY <1>1, <1>2, <2>1
    <2>6. i * least <= sum[i] /\ sum[i] <= i * greatest
      <3> DEFINE a == (i - 1) * least
                 b == (i - 1) * greatest
      <3>1. a \in Int /\ b \in Int /\ a <= sum[i - 1] /\ sum[i - 1] <= b
            /\ i * least = a + least /\ i * greatest = b + greatest
        BY <2>2, <2>3, <2>4
      <3> HIDE DEF a, b
      <3> QED
        BY <1>3, <2>5, <3>1
    <2> QED
      BY <2>1, <2>6
  <1>5. 0 \in within
    BY <1>1, <1>2
  <1>6. n \in within
    <2> HIDE DEF within
    <2>1. \A i \in 0..n : i \in within
      BY <1>1, <1>4, <1>5, Induction
    <2> QED
      BY <1>1, <2>1
  <1>7. Total(data) = sum[n]
    BY DEF Total, sum, n
  <1> QED
    BY <1>1, <1>2, <1>6, <1>7 DEF n

\* The providers are finitely many, and each has as many samples as wins.
LEMMA ProvidersAreFinite ==
  ASSUME BookAssumption, BookInv
  PROVE  /\ IsFiniteSet(DOMAIN metrics) /\ Cardinality(DOMAIN metrics) \in Nat
         /\ \A name \in DOMAIN metrics :
              /\ FromMetrics(name).latencies_ms \in Seq(Int)
              /\ FromMetrics(name).landed \in Nat
              /\ Len(FromMetrics(name).latencies_ms) = FromMetrics(name).landed
              /\ FromMetrics(name).landed = Cardinality({s \in acked : ProviderOf[s] = name})
              /\ name \in Names
  <1>1. Registered \subseteq Signatures
    BY DEF BookInv, TypeOK, Registered
  <1>2. IsFiniteSet(Registered)
    BY <1>1, FS_Subset DEF BookAssumption
  <1>3. IsFiniteSet(DOMAIN metrics)
    <2> DEFINE of == [s \in Registered |-> ProviderOf[s]]
    <2>1. of \in Surjection(Registered, DOMAIN metrics)
      BY DEF BookInv, MetricsAreOfSenders, Surjection
    <2> HIDE DEF of
    <2> QED
      BY <1>2, <2>1, FS_Surjection
  <1>4. ASSUME NEW name \in DOMAIN metrics
        PROVE  /\ FromMetrics(name).latencies_ms \in Seq(Int)
               /\ FromMetrics(name).landed \in Nat
               /\ Len(FromMetrics(name).latencies_ms) = FromMetrics(name).landed
               /\ FromMetrics(name).landed = Cardinality({s \in acked : ProviderOf[s] = name})
               /\ name \in Names
    <2>1. name \in Names /\ metrics[name] \in ProviderMetrics
      BY DEF BookInv, TypeOK
    <2>2. metrics[name].landed \in Nat /\ metrics[name].latencies_ms \in Seq(Nat)
      BY <2>1 DEF ProviderMetrics
    <2>3. metrics[name].latencies_ms \in Seq(Int)
      BY <2>2
    <2>4. /\ FromMetrics(name).landed = metrics[name].landed
          /\ FromMetrics(name).latencies_ms = Sorted(metrics[name].latencies_ms)
      BY DEF FromMetrics
    <2>5. /\ metrics[name].landed = Cardinality({s \in acked : ProviderOf[s] = name})
          /\ Len(metrics[name].latencies_ms) = metrics[name].landed
      BY <2>1 DEF BookInv, WinsAreDistinctLandings, Wins, Samples
    <2>6. /\ Sorted(metrics[name].latencies_ms) \in Seq(Int)
          /\ Len(Sorted(metrics[name].latencies_ms)) = Len(metrics[name].latencies_ms)
      BY <2>3, SortedFacts
    <2> QED
      BY <2>1, <2>2, <2>4, <2>5, <2>6
  <1> QED
    BY <1>3, <1>4, FS_CardinalityType

\* An order of the providers lists each of them once.
LEMMA OrderListsProviders ==
  ASSUME BookAssumption, BookInv, NEW order \in Orders
  PROVE  /\ order \in Seq(DOMAIN metrics)
         /\ Len(order) = Cardinality(DOMAIN metrics) /\ Len(order) \in Nat
         /\ DOMAIN order = 1..Len(order)
         /\ \A i \in 1..Len(order) : order[i] \in DOMAIN metrics
         /\ \A i, j \in 1..Len(order) : order[i] = order[j] => i = j
         /\ \A name \in DOMAIN metrics : \E i \in 1..Len(order) : order[i] = name
  <1> DEFINE D == 1..Cardinality(DOMAIN metrics)
  <1>1. Cardinality(DOMAIN metrics) \in Nat
    BY ProvidersAreFinite
  <1>2. order \in Bijection(D, DOMAIN metrics)
    BY DEF Orders
  <1>3. /\ order \in [D -> DOMAIN metrics]
        /\ \A i, j \in D : order[i] = order[j] => i = j
        /\ \A name \in DOMAIN metrics : \E i \in D : order[i] = name
    BY <1>2 DEF Bijection, Injection, Surjection, IsInjective
  <1>4. order \in Seq(DOMAIN metrics) /\ Len(order) = Cardinality(DOMAIN metrics)
    BY <1>1, <1>3
  <1> QED
    BY <1>1, <1>3, <1>4

\* The overall latencies start empty and grow by the samples of one provider
\* after the other.
LEMMA CollectedFacts ==
  ASSUME BookAssumption, BookInv, NEW order \in Orders
  PROVE  /\ Collected(order)[0] = <<>>
         /\ \A i \in 1..Len(order) :
              Collected(order)[i] = Collected(order)[i - 1] \o FromMetrics(order[i]).latencies_ms
         /\ \A i \in 0..Len(order) : Collected(order)[i] \in Seq(Int)
  <1> DEFINE n       == Len(order)
             T       == Seq(Int)
             list(i) == FromMetrics(order[i]).latencies_ms
             step    == [i \in 1..n |-> [v \in T |-> v \o list(i)]]
             loop(f) == f = [i \in 0..n |-> IF i = 0 THEN <<>> ELSE f[i - 1] \o list(i)]
  <1>1. n \in Nat /\ \A i \in 1..n : list(i) \in T
    BY OrderListsProviders, ProvidersAreFinite
  <1>2. <<>> \in T
    BY EmptySeq
  <1>3. ASSUME NEW v \in T, NEW i \in 1..n PROVE v \o list(i) \in T
    <2> HIDE DEF list
    <2> QED
      BY <1>1, ConcatProperties
  <1> HIDE DEF T, n, list
  <1>4. PICK f : Loop(f, <<>>, step, n, T)
    <2>1. Turns(step, n, T)
      BY <1>1, <1>3 DEF Turns
    <2> HIDE DEF step
    <2> QED
      BY <1>2, <2>1, LoopFunction
  <1>5. f \in [0..n -> T] /\ f[0] = <<>> /\ \A i \in 1..n : f[i] = step[i][f[i - 1]]
    BY <1>4 DEF Loop
  <1>6. \A i \in 1..n : f[i] = f[i - 1] \o list(i)
    <2> SUFFICES ASSUME NEW i \in 1..n PROVE f[i] = f[i - 1] \o list(i)
      OBVIOUS
    <2>1. i - 1 \in 0..n
      BY <1>1
    <2>2. f[i - 1] \in T
      BY <1>5, <2>1
    <2> QED
      BY <1>5, <2>2
  <1>7. loop(f)
    <2> HIDE DEF step
    <2>1. \A i \in 0..n : f[i] = IF i = 0 THEN <<>> ELSE f[i - 1] \o list(i)
      BY <1>1, <1>5, <1>6
    <2> QED
      BY <1>5, <2>1
  <1>8. loop(Collected(order))
    <2>1. Collected(order) = CHOOSE g : loop(g)
      BY DEF Collected, list, n
    <2> QED
      BY <1>7, <2>1
  <1> DEFINE overall == Collected(order)
             typed   == {i \in 0..n : overall[i] \in T}
  <1>9. overall[0] = <<>> /\ \A i \in 1..n : overall[i] = overall[i - 1] \o list(i)
    <2> HIDE DEF overall
    <2>1. overall = [i \in 0..n |-> IF i = 0 THEN <<>> ELSE overall[i - 1] \o list(i)]
      BY <1>8 DEF overall
    <2>2. overall[0] = <<>>
      <3>1. 0 \in 0..n
        BY <1>1
      <3> QED
        BY <2>1, <3>1, Zenon
    <2>3. ASSUME NEW i \in 1..n PROVE overall[i] = overall[i - 1] \o list(i)
      <3>1. i \in 0..n /\ i # 0
        BY <1>1
      <3> QED
        BY <2>1, <3>1, Zenon
    <2> QED
      BY <2>2, <2>3
  <1> HIDE DEF overall
  <1>10. \A i \in 0..n : i \in typed
    <2>1. 0 \in typed
      BY <1>1, <1>2, <1>9
    <2>2. ASSUME NEW i \in 1..n, i - 1 \in typed PROVE i \in typed
      <3>1. i \in 0..n /\ overall[i - 1] \in T
        BY <1>1, <2>2
      <3> DEFINE v == overall[i - 1]
      <3>2. v \o list(i) \in T
        <4>1. v \in T
          BY <3>1
        <4> HIDE DEF v
        <4> QED
          BY <1>3, <4>1, Zenon
      <3>3. overall[i] = v \o list(i)
        BY <1>9, Zenon
      <3> HIDE DEF v
      <3> QED
        BY <3>1, <3>2, <3>3
    <2> HIDE DEF typed
    <2> QED
      BY <1>1, <2>1, <2>2, Induction
  <1> QED
    BY <1>9, <1>10 DEF overall, n, T, list

(***************************************************************************)
(* The order in which the map yields the providers does not show.          *)
(***************************************************************************)

\* Where the samples of some providers are, and what they are.
SampleOf(name, j) == FromMetrics(name).latencies_ms[j]
Places(names) ==
  {x \in names \X Nat : x[2] \in 1..Len(FromMetrics(x[1]).latencies_ms)}
Values(names) == [x \in Places(names) |-> SampleOf(x[1], x[2])]

\* The providers of the first i turns of the loop.
Visited(order, i) == {order[k] : k \in 1..i}

\* The samples of one provider.
LEMMA OneProvider ==
  ASSUME BookAssumption, BookInv, NEW name \in DOMAIN metrics
  PROVE  \E index : Lists(FromMetrics(name).latencies_ms, Values({name}), index, Places({name}))
  <1> DEFINE list  == FromMetrics(name).latencies_ms
             n     == Len(list)
             index == [j \in 1..n |-> <<name, j>>]
             P     == Places({name})
             f     == Values({name})
  <1>1. list \in Seq(Int) /\ n \in Nat
    BY ProvidersAreFinite
  <1>2. \A j \in 1..n : list[j] \in Int
    BY <1>1
  <1>3. \A x \in P : x = <<name, x[2]>> /\ x[1] = name /\ x[2] \in 1..n
    BY DEF Places
  <1>4. \A j \in 1..n : <<name, j>> \in P
    BY <1>1 DEF Places
  <1>5. \A x \in P : f[x] = list[x[2]]
    BY <1>3 DEF Values, SampleOf
  <1>6. f \in [P -> Int]
    BY <1>2, <1>3 DEF Values, SampleOf
  <1> HIDE DEF list, n, P, f
  <1>7. index \in [1..n -> P]
    BY <1>4
  <1>8. index \in Bijection(1..n, P)
    <2>1. \A i, j \in 1..n : index[i] = index[j] => i = j
      OBVIOUS
    <2>2. \A x \in P : \E j \in 1..n : index[j] = x
      BY <1>3
    <2> HIDE DEF index
    <2> QED
      BY <1>7, <2>1, <2>2 DEF Bijection, Injection, Surjection, IsInjective
  <1>9. \A j \in 1..n : list[j] = f[index[j]]
    BY <1>4, <1>5
  <1>10. Lists(list, f, index, P)
    <2> HIDE DEF index
    <2> QED
      BY <1>1, <1>6, <1>8, <1>9 DEF Lists, n
  <1> QED
    BY <1>10 DEF list, f, P

\* After each turn the overall latencies list the samples of the providers
\* visited so far.
LEMMA CollectedLists ==
  ASSUME BookAssumption, BookInv, NEW order \in Orders
  PROVE  \A i \in 0..Len(order) :
           \E index : Lists(Collected(order)[i], Values(Visited(order, i)), index,
                            Places(Visited(order, i)))
  <1> DEFINE n        == Len(order)
             P(names) == Places(names)
             f(names) == Values(names)
             seen(i)  == Visited(order, i)
             listed   == {i \in 0..n : \E index :
                            Lists(Collected(order)[i], f(seen(i)), index, P(seen(i)))}
  <1>1. /\ n \in Nat
        /\ \A i \in 1..n : order[i] \in DOMAIN metrics
        /\ \A i, j \in 1..n : order[i] = order[j] => i = j
    BY OrderListsProviders
  <1>2. /\ Collected(order)[0] = <<>>
        /\ \A i \in 1..n :
             Collected(order)[i] = Collected(order)[i - 1] \o FromMetrics(order[i]).latencies_ms
    BY CollectedFacts
  <1> HIDE DEF n
  <1>3. 0 \in listed
    <2>1. seen(0) = {}
      BY DEF Visited
    <2>2. P({}) = {}
      BY DEF Places
    <2>3. f({}) \in [{} -> Int]
      BY <2>2 DEF Values
    <2> DEFINE g == f({})
               none == [k \in 1..0 |-> k]
    <2>4. Lists(<<>>, g, none, {})
      <3>1. none \in Bijection(1..0, {})
        BY DEF Bijection, Injection, Surjection, IsInjective
      <3>2. <<>> \in Seq(Int) /\ Len(<<>>) = 0
        BY EmptySeq
      <3>3. g \in [{} -> Int]
        BY <2>3
      <3> HIDE DEF g, none
      <3> QED
        BY <3>1, <3>2, <3>3 DEF Lists
    <2>5. Lists(Collected(order)[0], f(seen(0)), none, P(seen(0)))
      <3> HIDE DEF P, f, seen, none
      <3> QED
        BY <1>2, <2>1, <2>2, <2>4
    <2> HIDE DEF P, f, seen, none
    <2> QED
      BY <1>1, <2>5
  <1>4. ASSUME NEW i \in 1..n, i - 1 \in listed PROVE i \in listed
    <2> DEFINE A == seen(i - 1)
               b == order[i]
    <2>1. i - 1 \in 0..n /\ i \in 0..n /\ \A k \in 1..(i - 1) : k \in 1..n /\ k # i
      BY <1>1
    <2>2. seen(i) = A \cup {b}
      <3>1. \A k : k \in 1..i <=> k \in 1..(i - 1) \/ k = i
        BY <1>1
      <3> QED
        BY <3>1 DEF Visited
    <2>3. b \notin A
      BY <1>1, <2>1 DEF Visited
    <2>4. PICK index : Lists(Collected(order)[i - 1], f(A), index, P(A))
      BY <1>4
    <2>5. b \in DOMAIN metrics
      BY <1>1
    <2> HIDE DEF A, b
    <2>6. PICK own : Lists(FromMetrics(b).latencies_ms, f({b}), own, P({b}))
      BY <2>5, OneProvider
    <2>7. P(A \cup {b}) = P(A) \cup P({b}) /\ P(A) \cap P({b}) = {}
      BY <2>3 DEF Places
    <2>8. /\ \A x \in P(A) : f(A \cup {b})[x] = f(A)[x]
          /\ \A x \in P({b}) : f(A \cup {b})[x] = f({b})[x]
      BY <2>7 DEF Values
    <2>9. f(A \cup {b}) \in [P(A) \cup P({b}) -> Int]
      <3>1. /\ \A x \in P(A) : f(A)[x] \in Int
            /\ \A x \in P({b}) : f({b})[x] \in Int
        BY <2>4, <2>6 DEF Lists
      <3> QED
        BY <2>7, <2>8, <3>1 DEF Values
    <2>10. \E both : Lists(Collected(order)[i - 1] \o FromMetrics(b).latencies_ms,
                           f(A \cup {b}), both, P(A) \cup P({b}))
      <3> HIDE DEF P, f
      <3> QED
        BY <2>4, <2>6, <2>7, <2>8, <2>9, ListsConcat
    <2>11. Collected(order)[i] = Collected(order)[i - 1] \o FromMetrics(b).latencies_ms
      BY <1>2 DEF b
    <2> QED
      BY <2>1, <2>2, <2>7, <2>10, <2>11
  <1>5. \A i \in 0..n : i \in listed
    <2> HIDE DEF listed
    <2> QED
      BY <1>1, <1>3, <1>4, Induction
  <1> QED
    BY <1>5 DEF n

\* What is put together in one order and in another is the same once sorted.
LEMMA OrderDoesNotShow ==
  ASSUME BookAssumption, BookInv, NEW order \in Orders, NEW other \in Orders
  PROVE  /\ Concatenated(order) \in Seq(Int)
         /\ Concatenated(order) = <<>> <=> Concatenated(other) = <<>>
         /\ Sorted(Concatenated(order)) = Sorted(Concatenated(other))
  <1> DEFINE all == DOMAIN metrics
             f   == Values(all)
             P   == Places(all)
  <1>1. ASSUME NEW o \in Orders
        PROVE  Concatenated(o) \in Seq(Int) /\ \E index : Lists(Concatenated(o), f, index, P)
    <2> DEFINE n == Len(o)
    <2>1. n \in Nat /\ \A i \in 1..n : o[i] \in all
      BY OrderListsProviders
    <2>2. \A name \in all : \E i \in 1..n : o[i] = name
      BY OrderListsProviders
    <2>3. \A i \in 0..n : \E index :
            Lists(Collected(o)[i], Values(Visited(o, i)), index, Places(Visited(o, i)))
      BY CollectedLists
    <2> HIDE DEF n
    <2>4. Visited(o, n) = all
      BY <2>1, <2>2 DEF Visited
    <2>5. n \in 0..n
      BY <2>1
    <2>6. PICK index :
            Lists(Collected(o)[n], Values(Visited(o, n)), index, Places(Visited(o, n)))
      BY <2>3, <2>5
    <2>7. Collected(o)[n] = Concatenated(o)
      BY DEF Concatenated, n
    <2> HIDE DEF all
    <2>8. Lists(Concatenated(o), f, index, P)
      BY <2>4, <2>6, <2>7
    <2> HIDE DEF f, P
    <2> QED
      BY <2>8 DEF Lists
  <1> HIDE DEF f, P
  <1> DEFINE one == Concatenated(order)
             two == Concatenated(other)
  <1>2. one \in Seq(Int) /\ two \in Seq(Int)
    BY <1>1
  <1>3. PICK i1 : Lists(one, f, i1, P)
    BY <1>1
  <1>4. PICK i2 : Lists(two, f, i2, P)
    BY <1>1
  <1> HIDE DEF one, two
  <1>5. Len(one) = Cardinality(P) /\ Len(two) = Cardinality(P)
    BY <1>3, <1>4, ListingLength
  <1>6. one = <<>> <=> two = <<>>
    BY <1>2, <1>5
  <1>7. Sorted(one) = Sorted(two)
    BY <1>3, <1>4, SortIsOfTheValues
  <1> QED
    BY <1>2, <1>6, <1>7 DEF one, two

\* The statistics of data that are not empty.
LEMMA OverallFacts ==
  ASSUME NEW data \in Seq(Int), data # <<>>
  PROVE  /\ Overall(data).count = Len(data)
         /\ Overall(data).min_ms <= Overall(data).ranked[50]
         /\ Overall(data).ranked[50] <= Overall(data).ranked[90]
         /\ Overall(data).ranked[90] <= Overall(data).ranked[95]
         /\ Overall(data).ranked[95] <= Overall(data).ranked[99]
         /\ Overall(data).ranked[99] <= Overall(data).max_ms
         /\ Overall(data).count * Overall(data).min_ms <= Overall(data).sum_ms
         /\ Overall(data).sum_ms <= Overall(data).count * Overall(data).max_ms
  <1> DEFINE o    == Overall(data)
             s    == Sorted(data)
             n    == Len(data)
             r(p) == Percentile(s, p)
  <1>1. n \in Nat \ {0}
    OBVIOUS
  <1>2. s \in Seq(Int) /\ Len(s) = n /\ \A i, j \in 1..n : i <= j => s[i] <= s[j]
    BY SortedFacts
  <1>3. /\ s[1] <= r(50) /\ r(50) <= r(90) /\ r(90) <= r(95) /\ r(95) <= r(99)
        /\ r(99) <= s[n]
    <2>1. ASSUME NEW p \in 0..100, NEW q \in 0..100, p <= q
          PROVE  s[1] <= r(p) /\ r(p) <= r(q) /\ r(q) <= s[n]
      BY <2>1, PercentilesAscend
    <2>2. 50 \in 0..100 /\ 90 \in 0..100 /\ 95 \in 0..100 /\ 99 \in 0..100
          /\ 50 <= 90 /\ 90 <= 95 /\ 95 <= 99
      OBVIOUS
    <2> HIDE DEF r, s, n
    <2> QED
      BY <2>1, <2>2
  <1> HIDE DEF s, n
  <1>4. /\ s[1] \in Int /\ s[n] \in Int
        /\ \A i \in 1..n : s[1] <= s[i] /\ s[i] <= s[n]
    BY <1>1, <1>2
  <1>5. Total(s) \in Int /\ n * s[1] <= Total(s) /\ Total(s) <= n * s[n]
    BY <1>2, <1>4, SumBounds
  <1>6. o = AlreadySorted(s)
    BY DEF Overall, s
  <1>7. Head(s) = s[1]
    BY <1>1, <1>2
  <1> HIDE DEF r
  <1>8. /\ o.min_ms = s[1] /\ o.max_ms = s[n] /\ o.sum_ms = Total(s) /\ o.count = n
        /\ o.ranked[50] = r(50) /\ o.ranked[90] = r(90)
        /\ o.ranked[95] = r(95) /\ o.ranked[99] = r(99)
    <2> HIDE DEF o
    <2> QED
      BY <1>2, <1>6, <1>7 DEF AlreadySorted, r
  <1> HIDE DEF o
  <1>9. /\ o.count * o.min_ms = n * s[1] /\ o.count * o.max_ms = n * s[n]
    BY <1>8
  <1>10. /\ o.min_ms <= o.ranked[50] /\ o.ranked[50] <= o.ranked[90]
         /\ o.ranked[90] <= o.ranked[95] /\ o.ranked[95] <= o.ranked[99]
         /\ o.ranked[99] <= o.max_ms /\ o.count = n
    BY <1>3, <1>8
  <1>11. o.count * o.min_ms <= o.sum_ms /\ o.sum_ms <= o.count * o.max_ms
    BY <1>5, <1>8, <1>9
  <1> QED
    BY <1>10, <1>11 DEF o, n

\* The overall statistics of a report, if it has any.
LEMMA OverallOfReport ==
  ASSUME NEW order
  PROVE  /\ Concatenated(order) = <<>> =>
              Finalize(order).overall = <<>> /\ Range(Finalize(order).overall) = {}
         /\ Concatenated(order) # <<>> =>
              /\ Finalize(order).overall = <<Overall(Concatenated(order))>>
              /\ Range(Finalize(order).overall) = {Overall(Concatenated(order))}
  <1> DEFINE all     == Concatenated(order)
             o       == Overall(all)
             overall == Finalize(order).overall
  <1>1. overall = IF all = <<>> THEN <<>> ELSE <<o>>
    BY DEF Finalize
  <1> HIDE DEF all, o, overall
  <1>2. CASE all = <<>>
    <2>1. overall = <<>>
      BY <1>1, <1>2
    <2> QED
      BY <1>2, <2>1 DEF Range, all, overall
  <1>3. CASE all # <<>>
    <2>1. overall = <<o>>
      BY <1>1, <1>3
    <2>2. Range(overall) = {o}
      BY <2>1 DEF Range
    <2> QED
      BY <1>3, <2>1, <2>2 DEF all, o, overall
  <1> QED
    BY <1>2, <1>3

LEMMA BookOrdersStatistics ==
  ASSUME BookAssumption, BookInv
  PROVE  StatisticsAreOrdered
  <1> SUFFICES ASSUME NEW order \in Orders, NEW o \in Range(Finalize(order).overall)
               PROVE  /\ \A other \in Orders : Finalize(other).overall = <<o>>
                      /\ o.min_ms <= o.ranked[50] /\ o.ranked[50] <= o.ranked[90]
                      /\ o.ranked[90] <= o.ranked[95] /\ o.ranked[95] <= o.ranked[99]
                      /\ o.ranked[99] <= o.max_ms
                      /\ o.count * o.min_ms <= o.sum_ms /\ o.sum_ms <= o.count * o.max_ms
    BY DEF StatisticsAreOrdered
  <1> DEFINE all == Concatenated(order)
  <1>1. all # <<>> /\ o = Overall(all)
    BY OverallOfReport
  <1>2. all \in Seq(Int)
    BY OrderDoesNotShow
  <1>3. ASSUME NEW other \in Orders PROVE Finalize(other).overall = <<o>>
    <2>1. Concatenated(other) # <<>> /\ Sorted(Concatenated(other)) = Sorted(all)
      BY <1>1, OrderDoesNotShow
    <2>2. Overall(Concatenated(other)) = o
      BY <1>1, <2>1 DEF Overall
    <2> QED
      BY <2>1, <2>2, OverallOfReport
  <1> HIDE DEF all
  <1>4. /\ o.min_ms <= o.ranked[50] /\ o.ranked[50] <= o.ranked[90]
        /\ o.ranked[90] <= o.ranked[95] /\ o.ranked[95] <= o.ranked[99]
        /\ o.ranked[99] <= o.max_ms
        /\ o.count * o.min_ms <= o.sum_ms /\ o.sum_ms <= o.count * o.max_ms
    BY <1>1, <1>2, OverallFacts
  <1> QED
    BY <1>3, <1>4

\* Whatever the calls and whatever the order of the map's entries, finalize
\* prints the same statistics of all latencies, and they are in order.
THEOREM StatisticsOrdered == Spec => []StatisticsAreOrdered
  <1>1. BookInv => StatisticsAreOrdered
    BY BookAssumption, BookOrdersStatistics
  <1> QED
    BY <1>1, BookInvariant, PTL

(***************************************************************************)
(* The report adds up.                                                     *)
(***************************************************************************)

\* A sum is a number.
LEMMA TotalIsInt ==
  ASSUME NEW data \in Seq(Int)
  PROVE  Total(data) \in Int
  <1> DEFINE n == Len(data)
  <1>1. n \in 0..n
    OBVIOUS
  <1>2. \A i \in 0..n : Sums(data)[i] \in Int
    BY SumFacts
  <1> HIDE DEF n
  <1> QED
    BY <1>1, <1>2 DEF Total, n

\* What holds of each element, up to factors, holds of the sums.
LEMMA SumsCompare ==
  ASSUME NEW data \in Seq(Int), NEW other \in Seq(Int), Len(data) = Len(other),
         NEW a \in Int, NEW b \in Int,
         \A i \in 1..Len(data) : a * other[i] <= b * data[i]
  PROVE  a * Total(other) <= b * Total(data)
  <1> DEFINE n    == Len(data)
             sum  == Sums(data)
             sum2 == Sums(other)
             less == {i \in 0..n : a * sum2[i] <= b * sum[i]}
  <1>1. n \in Nat /\ \A i \in 1..n : data[i] \in Int /\ other[i] \in Int
    OBVIOUS
  <1>2. /\ sum[0] = 0
        /\ \A i \in 1..n : sum[i] = sum[i - 1] + data[i]
        /\ \A i \in 0..n : sum[i] \in Int
    BY SumFacts
  <1>3. /\ sum2[0] = 0
        /\ \A i \in 1..n : sum2[i] = sum2[i - 1] + other[i]
        /\ \A i \in 0..n : sum2[i] \in Int
    BY SumFacts
  <1>4. \A i \in 1..n : a * other[i] <= b * data[i]
    OBVIOUS
  <1> HIDE DEF n, sum, sum2
  <1>5. 0 \in less
    BY <1>1, <1>2, <1>3
  <1>6. ASSUME NEW i \in 1..n, i - 1 \in less PROVE i \in less
    <2> DEFINE x == sum[i - 1]
               y == sum2[i - 1]
               u == data[i]
               v == other[i]
    <2>1. i - 1 \in 0..n /\ i \in 0..n
      BY <1>1
    <2>2. x \in Int /\ y \in Int /\ u \in Int /\ v \in Int
      BY <1>1, <1>2, <1>3, <2>1
    <2>3. a * y <= b * x /\ a * v <= b * u
      BY <1>4, <1>6
    <2>4. sum[i] = x + u /\ sum2[i] = y + v
      BY <1>2, <1>3
    <2> HIDE DEF x, y, u, v
    <2>5. a * (y + v) = a * y + a * v /\ b * (x + u) = b * x + b * u
      BY <2>2
    <2>6. a * y \in Int /\ a * v \in Int /\ b * x \in Int /\ b * u \in Int
      BY <2>2
    <2>7. a * (y + v) <= b * (x + u)
      BY <2>3, <2>5, <2>6
    <2> QED
      BY <2>1, <2>4, <2>7
  <1>7. n \in less
    <2> HIDE DEF less
    <2>1. \A i \in 0..n : i \in less
      BY <1>1, <1>5, <1>6, Induction
    <2> QED
      BY <1>1, <2>1
  <1>8. Total(data) = sum[n] /\ Total(other) = sum2[n]
    BY DEF Total, sum, sum2, n
  <1> QED
    BY <1>7, <1>8

\* The wins in the order of a report.
WinsOf(order) == [i \in DOMAIN order |-> FromMetrics(order[i]).landed]

\* The transactions won by some providers.
WonBy(names) == {s \in acked : ProviderOf[s] \in names}

\* After each turn there are as many overall latencies as wins so far, and
\* these are the transactions won by the providers visited so far.
LEMMA WinsAreSamples ==
  ASSUME BookAssumption, BookInv, NEW order \in Orders
  PROVE  \A i \in 0..Len(order) :
           /\ Len(Collected(order)[i]) = Sums(WinsOf(order))[i]
           /\ Sums(WinsOf(order))[i] = Cardinality(WonBy(Visited(order, i)))
  <1> DEFINE n     == Len(order)
             wins  == WinsOf(order)
             sum   == Sums(wins)
             all   == Collected(order)
             won(i) == WonBy(Visited(order, i))
             equal == {i \in 0..n : Len(all[i]) = sum[i] /\ sum[i] = Cardinality(won(i))}
  <1>1. /\ n \in Nat /\ DOMAIN order = 1..n
        /\ \A i \in 1..n : order[i] \in DOMAIN metrics
        /\ \A i, j \in 1..n : order[i] = order[j] => i = j
    BY OrderListsProviders
  <1>2. \A i \in 1..n :
          /\ FromMetrics(order[i]).latencies_ms \in Seq(Int)
          /\ wins[i] \in Nat
          /\ Len(FromMetrics(order[i]).latencies_ms) = wins[i]
          /\ wins[i] = Cardinality(WonBy({order[i]}))
    <2> SUFFICES ASSUME NEW i \in 1..n
                 PROVE  /\ FromMetrics(order[i]).latencies_ms \in Seq(Int)
                        /\ wins[i] \in Nat
                        /\ Len(FromMetrics(order[i]).latencies_ms) = wins[i]
                        /\ wins[i] = Cardinality(WonBy({order[i]}))
      OBVIOUS
    <2>1. wins[i] = FromMetrics(order[i]).landed /\ order[i] \in DOMAIN metrics
      BY <1>1 DEF WinsOf
    <2> DEFINE name == order[i]
    <2>2. WonBy({name}) = {s \in acked : ProviderOf[s] = name}
      BY DEF WonBy
    <2> HIDE DEF name
    <2>3. /\ FromMetrics(name).latencies_ms \in Seq(Int)
          /\ FromMetrics(name).landed \in Nat
          /\ Len(FromMetrics(name).latencies_ms) = FromMetrics(name).landed
          /\ FromMetrics(name).landed = Cardinality({s \in acked : ProviderOf[s] = name})
      BY <2>1, ProvidersAreFinite DEF name
    <2> QED
      BY <2>1, <2>2, <2>3 DEF name
  <1>3. wins \in Seq(Int) /\ Len(wins) = n
    <2>1. wins \in [1..n -> Int]
      <3>1. DOMAIN wins = 1..n /\ wins = [i \in DOMAIN wins |-> wins[i]]
        BY <1>1 DEF WinsOf
      <3> HIDE DEF wins, n
      <3>2. ASSUME NEW i \in 1..n PROVE wins[i] \in Int
        <4>1. wins[i] \in Nat
          BY <1>2
        <4> QED
          BY <4>1
      <3> QED
        BY <3>1, <3>2
    <2> HIDE DEF wins, n
    <2> QED
      BY <1>1, <2>1
  <1>4. /\ sum[0] = 0
        /\ \A i \in 1..n : sum[i] = sum[i - 1] + wins[i]
        /\ \A i \in 0..n : sum[i] \in Int
    BY <1>3, SumFacts
  <1>5. /\ all[0] = <<>>
        /\ \A i \in 1..n : all[i] = all[i - 1] \o FromMetrics(order[i]).latencies_ms
        /\ \A i \in 0..n : all[i] \in Seq(Int)
    BY CollectedFacts
  <1>6. IsFiniteSet(acked)
    BY FS_Subset DEF BookInv, TypeOK, BookAssumption
  <1> HIDE DEF n, wins, sum, all
  <1>7. 0 \in equal
    <2>1. won(0) = {}
      BY DEF WonBy, Visited
    <2>2. Cardinality(won(0)) = 0
      BY <2>1, FS_EmptySet
    <2>3. Len(all[0]) = 0
      BY <1>5
    <2> HIDE DEF won
    <2> QED
      BY <1>1, <1>4, <2>2, <2>3
  <1>8. ASSUME NEW i \in 1..n, i - 1 \in equal PROVE i \in equal
    <2> DEFINE b    == order[i]
               list == FromMetrics(b).latencies_ms
               A    == won(i - 1)
               B    == WonBy({b})
    <2>1. i - 1 \in 0..n /\ i \in 0..n /\ \A k \in 1..(i - 1) : k \in 1..n /\ k # i
      BY <1>1
    <2>2. Visited(order, i) = Visited(order, i - 1) \cup {b}
      <3>1. \A k : k \in 1..i <=> k \in 1..(i - 1) \/ k = i
        BY <1>1
      <3> QED
        BY <3>1 DEF Visited
    <2>3. b \notin Visited(order, i - 1)
      BY <1>1, <2>1 DEF Visited
    <2>4. won(i) = A \cup B /\ A \cap B = {}
      BY <2>2, <2>3 DEF WonBy
    <2>5. IsFiniteSet(A) /\ IsFiniteSet(B)
      <3>1. A \subseteq acked /\ B \subseteq acked
        BY DEF WonBy
      <3> HIDE DEF A, B
      <3> QED
        BY <1>6, <3>1, FS_Subset
    <2>6. /\ list \in Seq(Int) /\ Len(list) = wins[i] /\ wins[i] \in Nat
          /\ wins[i] = Cardinality(B)
      BY <1>2
    <2>7. /\ all[i] = all[i - 1] \o list /\ all[i - 1] \in Seq(Int)
          /\ sum[i] = sum[i - 1] + wins[i] /\ sum[i - 1] \in Int
      BY <1>4, <1>5, <2>1
    <2>8. Len(all[i - 1]) = sum[i - 1] /\ sum[i - 1] = Cardinality(A)
      BY <1>8
    <2> HIDE DEF list, A, B, won
    <2>9. Len(all[i]) = Len(all[i - 1]) + Len(list)
      <3>1. \A s, t \in Seq(Int) : Len(s \o t) = Len(s) + Len(t)
        BY ConcatProperties, Zenon
      <3>2. Len(all[i - 1] \o list) = Len(all[i - 1]) + Len(list)
        BY <2>6, <2>7, <3>1, Zenon
      <3> QED
        BY <2>7, <3>2, Zenon
    <2>10. Cardinality(won(i)) = Cardinality(A) + Cardinality(B)
      <3>1. Cardinality(A \cap B) = 0
        BY <2>4, FS_EmptySet
      <3>2. Cardinality(A \cup B) = Cardinality(A) + Cardinality(B) - Cardinality(A \cap B)
        BY <2>5, FS_Union
      <3>3. Cardinality(A) \in Nat /\ Cardinality(B) \in Nat
        BY <2>5, FS_CardinalityType
      <3> QED
        BY <2>4, <3>1, <3>2, <3>3
    <2> QED
      BY <2>1, <2>6, <2>7, <2>8, <2>9, <2>10
  <1>9. \A i \in 0..n : i \in equal
    <2> HIDE DEF equal
    <2> QED
      BY <1>1, <1>7, <1>8, Induction
  <1> QED
    BY <1>9 DEF n, all, sum, wins

\* A quotient is rounded down by less than one.
LEMMA QuotientFacts ==
  ASSUME NEW x \in Nat, NEW whole \in Nat \ {0}
  PROVE  /\ x \div whole \in Nat
         /\ whole * (x \div whole) <= x /\ x <= whole * (x \div whole + 1)
  OBVIOUS

\* A part of a whole is a share of it between none and all, and no less than
\* it is, within the rounding.
LEMMA ShareFacts ==
  ASSUME NEW part \in Nat, NEW whole \in Nat
  PROVE  /\ Share(part, whole) \in Int
         /\ part <= whole => Share(part, whole) \in 0..100
         /\ whole > 0 => 100 * part <= whole * (Share(part, whole) + 1)
  <1> DEFINE x == 100 * part
             q == x \div whole
  <1>1. CASE whole = 0
    <2>1. Share(part, whole) = 0
      BY <1>1 DEF Share
    <2> QED
      BY <1>1, <2>1
  <1>2. CASE whole # 0
    <2>1. whole \in Nat \ {0} /\ x \in Nat /\ whole > 0
      BY <1>2
    <2>2. Share(part, whole) = q
      BY <2>1 DEF Share
    <2> HIDE DEF x
    <2>3. q \in Nat /\ whole * q <= x /\ x <= whole * (q + 1)
      BY <2>1, QuotientFacts
    <2> HIDE DEF q
    <2>4. ASSUME part <= whole PROVE q <= 100
      <3>1. x <= 100 * whole
        BY <2>4 DEF x
      <3>2. ASSUME 101 <= q PROVE FALSE
        <4>1. (q - 101) * whole \in Nat
          BY <2>1, <2>3, <3>2
        <4>2. (q - 101) * whole = whole * q - 101 * whole /\ whole * q \in Int
          BY <2>1, <2>3
        <4>3. 101 * whole <= whole * q
          BY <4>1, <4>2
        <4> QED
          BY <2>1, <2>3, <3>1, <4>2, <4>3
      <3> QED
        BY <2>3, <3>2
    <2> QED
      BY <2>2, <2>3, <2>4 DEF x
  <1> QED
    BY <1>1, <1>2

\* Every win is a sample, every won transaction is somebody's win.
LEMMA SamplesAreWins ==
  ASSUME BookAssumption, BookInv, NEW order \in Orders
  PROVE  /\ Concatenated(order) \in Seq(Int)
         /\ WinsOf(order) \in Seq(Int) /\ Len(WinsOf(order)) = Len(order)
         /\ Len(Concatenated(order)) = Total(WinsOf(order))
         /\ Total(WinsOf(order)) = Cardinality(acked)
  <1> DEFINE n    == Len(order)
             wins == WinsOf(order)
  <1>1. /\ n \in Nat /\ DOMAIN order = 1..n
        /\ \A i \in 1..n : order[i] \in DOMAIN metrics
        /\ \A name \in DOMAIN metrics : \E i \in 1..n : order[i] = name
    BY OrderListsProviders
  <1>2. \A i \in 0..n : /\ Len(Collected(order)[i]) = Sums(wins)[i]
                        /\ Sums(wins)[i] = Cardinality(WonBy(Visited(order, i)))
    BY WinsAreSamples
  <1>3. \A i \in 1..n : FromMetrics(order[i]).landed \in Int
    <2> SUFFICES ASSUME NEW i \in 1..n PROVE FromMetrics(order[i]).landed \in Int
      OBVIOUS
    <2> DEFINE name == order[i]
    <2>1. name \in DOMAIN metrics
      BY <1>1
    <2> HIDE DEF name
    <2>2. FromMetrics(name).landed \in Nat
      BY <2>1, ProvidersAreFinite
    <2> QED
      BY <2>2 DEF name
  <1>4. Concatenated(order) \in Seq(Int)
    BY OrderDoesNotShow
  <1> HIDE DEF n
  <1>5. Visited(order, n) = DOMAIN metrics
    BY <1>1 DEF Visited
  <1>6. WonBy(DOMAIN metrics) = acked
    BY DEF WonBy, BookInv, MetricsAreOfSenders, Registered
  <1>7. wins \in [1..n -> Int]
    BY <1>1, <1>3 DEF WinsOf
  <1> HIDE DEF wins
  <1>8. wins \in Seq(Int) /\ Len(wins) = n
    BY <1>1, <1>7
  <1>9. Total(wins) = Sums(wins)[n] /\ Concatenated(order) = Collected(order)[n]
    BY <1>8 DEF Total, Concatenated, n
  <1>10. n \in 0..n
    BY <1>1
  <1> QED
    BY <1>2, <1>4, <1>5, <1>6, <1>8, <1>9, <1>10 DEF wins, n

\* The rounds that landed.
LEMMA LandedFacts ==
  ASSUME BookAssumption, BookInv
  PROVE  /\ Cardinality(landed_rounds) \in Nat /\ Cardinality(acked) \in Nat
         /\ Cardinality(landed_rounds) <= Cardinality(acked)
         /\ rounds_attempted \in Nat /\ Cardinality(landed_rounds) <= rounds_attempted
         /\ Cardinality(acked) = 0 <=> Cardinality(landed_rounds) = 0
  <1>1. IsFiniteSet(acked)
    BY FS_Subset DEF BookInv, TypeOK, BookAssumption
  <1>2. IsFiniteSet(Started) /\ Cardinality(Started) <= rounds_attempted /\ rounds_attempted \in Nat
    BY DEF BookInv, StartsAreCounted, TypeOK
  <1>3. landed_rounds \subseteq Started
    BY DEF Started
  <1>4. IsFiniteSet(landed_rounds) /\ Cardinality(landed_rounds) <= Cardinality(Started)
    BY <1>2, <1>3, FS_Subset
  <1>5. /\ Cardinality(acked) \in Nat /\ Cardinality(landed_rounds) \in Nat
        /\ Cardinality(Started) \in Nat
    BY <1>1, <1>2, <1>4, FS_CardinalityType
  <1>6. Cardinality(landed_rounds) <= Cardinality(acked) /\ (acked # {} => landed_rounds # {})
    BY DEF BookInv, EachLandedRoundWasWon
  <1>7. /\ Cardinality(acked) = 0 <=> acked = {}
        /\ Cardinality(landed_rounds) = 0 <=> landed_rounds = {}
    BY <1>1, <1>4, FS_EmptySet
  <1>8. Cardinality(acked) = 0 <=> Cardinality(landed_rounds) = 0
    BY <1>5, <1>6, <1>7
  <1> QED
    BY <1>2, <1>4, <1>5, <1>6, <1>8

\* The shares of a report, each with the one it may lack by rounding.
SharesOf(order) ==
  [i \in DOMAIN order |-> WinShare(Finalize(order), FromMetrics(order[i])) + 1]

LEMMA SharesAddUp ==
  ASSUME BookAssumption, BookInv, NEW order \in Orders, Cardinality(landed_rounds) > 0
  PROVE  Total(SharesOf(order)) >= 100
  <1> DEFINE n      == Len(order)
             whole  == Cardinality(landed_rounds)
             wins   == WinsOf(order)
             shares == SharesOf(order)
  <1>1. whole \in Nat /\ whole > 0 /\ whole <= Cardinality(acked) /\ Cardinality(acked) \in Nat
    BY LandedFacts
  <1>2. /\ wins \in Seq(Int) /\ Len(wins) = n /\ Total(wins) = Cardinality(acked)
    BY SamplesAreWins
  <1>3. n \in Nat /\ DOMAIN order = 1..n /\ \A i \in 1..n : order[i] \in DOMAIN metrics
    BY OrderListsProviders
  <1>4. Finalize(order).total_landed = whole
    BY DEF Finalize
  <1> HIDE DEF n, whole
  <1>5. ASSUME NEW i \in 1..n
        PROVE  /\ wins[i] = FromMetrics(order[i]).landed /\ wins[i] \in Nat
               /\ shares[i] = Share(wins[i], whole) + 1
    <2> DEFINE name == order[i]
    <2>1. name \in DOMAIN metrics
      BY <1>3
    <2>2. wins[i] = FromMetrics(name).landed
      BY <1>3 DEF WinsOf
    <2>3. shares[i] = WinShare(Finalize(order), FromMetrics(name)) + 1
      BY <1>3 DEF SharesOf
    <2> HIDE DEF name, wins, shares
    <2>4. FromMetrics(name).landed \in Nat
      BY <2>1, ProvidersAreFinite
    <2>5. WinShare(Finalize(order), FromMetrics(name)) = Share(FromMetrics(name).landed, whole)
      BY <1>4 DEF WinShare
    <2> QED
      BY <2>2, <2>3, <2>4, <2>5 DEF name
  <1>6. shares = [i \in 1..n |-> shares[i]]
    BY <1>3 DEF SharesOf
  <1> HIDE DEF wins, shares
  <1>7. ASSUME NEW i \in 1..n
        PROVE  shares[i] \in Int /\ 100 * wins[i] <= whole * shares[i]
    <2> DEFINE w == wins[i]
               q == Share(w, whole)
    <2>1. w \in Nat /\ shares[i] = q + 1
      BY <1>5
    <2> HIDE DEF w
    <2>2. q \in Int /\ 100 * w <= whole * (q + 1)
      BY <1>1, <2>1, ShareFacts
    <2> HIDE DEF q
    <2> QED
      BY <2>1, <2>2 DEF w
  <1>8. shares \in Seq(Int) /\ Len(shares) = n
    <2>1. shares \in [1..n -> Int]
      BY <1>6, <1>7
    <2> QED
      BY <1>3, <2>1
  <1>9. 100 * Total(wins) <= whole * Total(shares)
    <2>1. \A i \in 1..Len(shares) : 100 * wins[i] <= whole * shares[i]
      BY <1>7, <1>8
    <2>2. 100 \in Int /\ whole \in Int /\ Len(shares) = Len(wins)
      BY <1>1, <1>2, <1>8
    <2> QED
      BY <1>2, <1>8, <2>1, <2>2, SumsCompare
  <1>10. Total(shares) \in Int
    BY <1>8, TotalIsInt
  <1> DEFINE t == Total(shares)
  <1>11. 100 * whole <= whole * t /\ t \in Int
    BY <1>1, <1>2, <1>9, <1>10
  <1> HIDE DEF t
  <1>12. ~(t <= 99)
    <2> SUFFICES ASSUME t <= 99 PROVE FALSE
      OBVIOUS
    <2>1. (99 - t) * whole \in Nat
      BY <1>1, <1>11
    <2>2. (99 - t) * whole = 99 * whole - whole * t /\ whole * t \in Int
      BY <1>1, <1>11
    <2> QED
      BY <1>1, <1>11, <2>1, <2>2
  <1> QED
    BY <1>11, <1>12 DEF t, shares

LEMMA BookAddsUp ==
  ASSUME BookAssumption, BookInv
  PROVE  ReportAddsUp
  <1> SUFFICES ASSUME NEW order \in Orders
               PROVE  /\ \A o \in Range(Finalize(order).overall) : o.count = Total(WinsOf(order))
                      /\ Finalize(order).overall = <<>> <=> Finalize(order).total_landed = 0
                      /\ LandedShare(Finalize(order)) \in 0..100
                      /\ Finalize(order).total_landed > 0 => Total(SharesOf(order)) >= 100
    BY DEF ReportAddsUp, WinsOf, SharesOf
  <1> DEFINE all   == Concatenated(order)
             whole == Cardinality(landed_rounds)
  <1>1. all \in Seq(Int) /\ Len(all) = Total(WinsOf(order)) /\ Len(all) = Cardinality(acked)
    BY SamplesAreWins
  <1>2. Finalize(order).total_landed = whole /\ Finalize(order).rounds = rounds_attempted
    BY DEF Finalize
  <1>3. /\ whole \in Nat /\ rounds_attempted \in Nat /\ whole <= rounds_attempted
        /\ Cardinality(acked) = 0 <=> whole = 0
    BY LandedFacts
  <1>4. ASSUME NEW o \in Range(Finalize(order).overall) PROVE o.count = Total(WinsOf(order))
    <2>1. all # <<>> /\ o = Overall(all)
      BY OverallOfReport
    <2> HIDE DEF all
    <2>2. Overall(all).count = Len(all)
      BY <1>1, <2>1, OverallFacts
    <2> QED
      BY <1>1, <2>1, <2>2
  <1>5. Finalize(order).overall = <<>> <=> all = <<>>
    <2>1. all # <<>> => Finalize(order).overall = <<Overall(all)>>
      BY OverallOfReport
    <2>2. all = <<>> => Finalize(order).overall = <<>>
      BY OverallOfReport
    <2>3. <<Overall(all)>> # <<>>
      <3> HIDE DEF all
      <3> QED OBVIOUS
    <2> HIDE DEF all
    <2> QED
      BY <2>1, <2>2, <2>3, Zenon
  <1>6. all = <<>> <=> whole = 0
    <2> HIDE DEF all, whole
    <2>1. all = <<>> <=> Len(all) = 0
      BY <1>1
    <2> QED
      BY <1>1, <1>3, <2>1
  <1>7. LandedShare(Finalize(order)) \in 0..100
    <2> HIDE DEF whole
    <2> QED
      BY <1>2, <1>3, ShareFacts DEF LandedShare
  <1>8. whole > 0 => Total(SharesOf(order)) >= 100
    BY SharesAddUp
  <1> QED
    BY <1>2, <1>4, <1>5, <1>6, <1>7, <1>8

\* Whatever the calls and whatever the order of the map's entries, the numbers
\* of a report agree with each other.
THEOREM ReportsAddUp == Spec => []ReportAddsUp
  <1>1. BookInv => ReportAddsUp
    BY BookAssumption, BookAddsUp
  <1> QED
    BY <1>1, BookInvariant, PTL
=============================================================================
