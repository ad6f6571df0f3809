------------------------- MODULE SignatureRaceProofs -------------------------
(***************************************************************************)
(* Proofs about SignatureRace for any providers of any kinds, any          *)
(* signatures, target, queue and clock.                                    *)
(***************************************************************************)
EXTENDS SignatureRace, FiniteSetTheorems, SequenceTheorems, TLAPS

\* Where a task can be.
TaskStates == {"opening", "listening", "built", "target", "broadcast", "publish",
               "stopped", "failed"}

(***************************************************************************)
(* What a step is.                                                         *)
(***************************************************************************)

\* What is left of a batch, and what is next in it.
LEMMA UpToOneFacts ==
  ASSUME NEW q \in UpToOne, q # <<>>
  PROVE  /\ \E s \in Signatures : q = <<s>>
         /\ Head(q) \in Signatures /\ Tail(q) = <<>> /\ q[1] \in Signatures
  <1>1. PICK s \in Signatures : q = <<s>>
    BY DEF UpToOne
  <1>2. Head(<<s>>) = s /\ <<s>>[1] = s
    OBVIOUS
  <1>3. Tail(<<s>>) = <<>>
    OBVIOUS
  <1> QED
    BY <1>1, <1>2, <1>3

\* The kinds of provider share their steps: a sighting, whether it comes alone
\* or in a batch, and the steps around it.
LEMMA StepCases ==
  ASSUME TypeOK, [Next]_vars
  PROVE  \/ \E p \in Providers :
              \/ Subscribe(p) \/ SubscribeFails(p) \/ ConnectFails(p) \/ LogFails(p)
              \/ Count(p) \/ ClaimShutdown(p) \/ Broadcast(p) \/ Enqueue(p) \/ Stops(p)
              \/ StreamEnds(p)
              \/ \E s \in Signatures, rest \in UpToOne : Sight(p, s, rest)
         \/ Consume
         \/ Tick
         \/ UNCHANGED vars
  <1>1. CASE Outside
    BY <1>1 DEF Outside
  <1>2. ASSUME NEW p \in Providers, Provider(p)
        PROVE  \/ Opens(p) \/ Loop(p) \/ UNCHANGED vars
               \/ \E s \in Signatures, rest \in UpToOne : Sight(p, s, rest)
    <2>1. \A s \in Signatures : <<s>> \in UpToOne
      BY DEF UpToOne
    <2>2. <<>> \in UpToOne
      BY DEF UpToOne
    <2>3. ASSUME NEW s \in Signatures, Message(p, s)
          PROVE  \E rest \in UpToOne : Sight(p, s, rest)
      BY <2>2, <2>3 DEF Message
    <2>4. ASSUME NEW s \in Signatures, NEW t \in Signatures, Batch(p, s, t)
          PROVE  \E rest \in UpToOne : Sight(p, s, rest)
      BY <2>1, <2>4 DEF Batch
    <2>5. ASSUME NextOfBatch(p)
          PROVE  \E s \in Signatures, rest \in UpToOne : Sight(p, s, rest)
      <3>1. pending[p] \in UpToOne /\ pending[p] # <<>>
        BY <2>5 DEF NextOfBatch, TypeOK
      <3> QED
        BY <2>2, <2>5, <3>1, UpToOneFacts DEF NextOfBatch
    <2> QED
      BY <1>2, <2>3, <2>4, <2>5
      DEF Provider, ThorEndpoint, ShrederEndpoint, ArpcEndpoint, JetstreamEndpoint,
          ShredstreamEndpoint, Single, Spins
  <1> QED
    BY <1>1, <1>2 DEF Next, Opens, Loop, Publishes

\* Where a task goes from where it is; the other tasks stay.
LEMMA GotoFacts ==
  ASSUME TypeOK, NEW p \in Providers, NEW from, NEW to \in TaskStates, Goto(p, from, to)
  PROVE  /\ pc[p] = from /\ kind' = kind
         /\ pc' \in [Providers -> TaskStates]
         /\ pc'[p] = to
         /\ \A q \in Providers \ {p} : pc'[q] = pc[q]
  BY DEF TypeOK, Goto, TaskStates

\* A map with one more entry.
LEMMA InsertFacts ==
  ASSUME NEW Keys, NEW map \in MapsFrom(Keys), NEW key \in Keys, NEW value \in Times
  PROVE  /\ Insert(map, key, value) \in MapsFrom(Keys)
         /\ DOMAIN Insert(map, key, value) = DOMAIN map \cup {key}
         /\ Insert(map, key, value)[key] = value
         /\ \A k \in DOMAIN map \ {key} : Insert(map, key, value)[k] = map[k]
  <1>1. PICK K \in SUBSET Keys : map \in [K -> Times]
    BY DEF MapsFrom
  <1>2. Insert(map, key, value) \in [K \cup {key} -> Times]
    BY <1>1 DEF Insert
  <1> QED
    BY <1>1, <1>2 DEF Insert, MapsFrom

\* A sighting again is forgotten.
Again(p, s) ==
  /\ s \in DOMAIN accumulator[p]
  /\ pc' = pc
  /\ envelope' = [envelope EXCEPT ![p] = <<>>]
  /\ UNCHANGED <<accumulator, observed>>

\* A first one is kept and reported, and is in an envelope when it is the last
\* provider's.
First(p, s) ==
  /\ s \notin DOMAIN accumulator[p]
  /\ accumulator' = [accumulator EXCEPT ![p] = Insert(accumulator[p], s, now)]
  /\ observed' = [observed EXCEPT ![s] = Insert(observed[s], p, now)]
  /\ \/ /\ DOMAIN observed[s] \cup {p} = Providers
        /\ pc' = [pc EXCEPT ![p] = "built"]
        /\ envelope' = [envelope EXCEPT ![p] = <<s>>]
     \/ /\ DOMAIN observed[s] \cup {p} # Providers
        /\ pc' = pc
        /\ envelope' = [envelope EXCEPT ![p] = <<>>]

LEMMA SightFacts ==
  ASSUME TypeOK, ReportsAreKept, NEW p \in Providers, NEW s \in Signatures, NEW rest \in UpToOne,
         Sight(p, s, rest)
  PROVE  /\ Again(p, s) \/ First(p, s)
         /\ pc[p] = "listening"
         /\ pending' = [pending EXCEPT ![p] = rest]
         /\ UNCHANGED <<kind, collected, shared_counter, shared_shutdown, signal, broadcasts,
                        queue, dropped, consumed, stream, exited, now>>
  <1>1. pc[p] = "listening" /\ pc = [pc EXCEPT ![p] = "listening"]
    BY DEF Sight, Goto, TypeOK
  <1>2. accumulator[p] \in MapsFrom(Signatures) /\ observed[s] \in MapsFrom(Providers) /\ now \in Nat
    BY RaceAssumption DEF TypeOK, Times
  <1>3. DOMAIN Insert(observed[s], p, now) = DOMAIN observed[s] \cup {p}
    BY DEF Insert
  <1>4. CASE s \in DOMAIN accumulator[p]
    <2>1. accumulator[p][s] \in Nat /\ accumulator[p][s] <= now
      BY <1>2, <1>4, RaceAssumption DEF MapsFrom, Times, ReportsAreKept
    <2>2. ~Updates(p, s, now)
      BY <1>2, <1>4, <2>1 DEF Updates
    <2>3. accumulator' = accumulator
      BY <2>2 DEF Sight, Recorded, TypeOK
    <2> QED
      BY <1>1, <1>4, <2>2, <2>3 DEF Sight, Goto, Again
  <1>5. CASE s \notin DOMAIN accumulator[p]
    <2>1. Updates(p, s, now)
      BY <1>5 DEF Updates
    <2> QED
      BY <1>1, <1>3, <1>5, <2>1 DEF Sight, Goto, First, Recorded, Reported, Complete
  <1> QED
    BY <1>1, <1>4, <1>5 DEF Sight, Goto
-----------------------------------------------------------------------------
(***************************************************************************)
(* Counting                                                                *)
(***************************************************************************)

\* Those whose envelope is not counted yet, and those about to broadcast.
Built    == {p \in Providers : pc[p] = "built"}
Claimers == {p \in Providers : pc[p] = "broadcast"}

LEMMA CountsAreFinite ==
  /\ IsFiniteSet(Built) /\ Cardinality(Built) \in Nat
  /\ IsFiniteSet(Claimers) /\ Cardinality(Claimers) \in Nat
  /\ IsFiniteSet(EverySeen) /\ Cardinality(EverySeen) \in Nat
  /\ Cardinality(EverySeen) <= Cardinality(Signatures)
  /\ Cardinality(Signatures) \in Nat
  <1>1. Built \subseteq Providers /\ Claimers \subseteq Providers /\ EverySeen \subseteq Signatures
    BY DEF Built, Claimers, EverySeen
  <1> QED
    BY <1>1, RaceAssumption, FS_Subset, FS_CardinalityType

\* They are also finite after a step.
LEMMA CountsStayFinite ==
  /\ IsFiniteSet(Built') /\ Cardinality(Built') \in Nat
  /\ IsFiniteSet(EverySeen') /\ Cardinality(EverySeen') \in Nat
  /\ Cardinality(EverySeen') <= Cardinality(Signatures)
  <1>1. Built' \subseteq Providers /\ EverySeen' \subseteq Signatures
    BY DEF Built, EverySeen
  <1> QED
    BY <1>1, RaceAssumption, FS_Subset, FS_CardinalityType

\* The first sighting by the last provider completes a transaction that was
\* incomplete; any other completes none.
LEMMA FirstCompletes ==
  ASSUME TypeOK, ReportsAreKept, NEW p \in Providers, NEW s \in Signatures, First(p, s)
  PROVE  /\ s \notin EverySeen
         /\ EverySeen' = IF DOMAIN observed[s] \cup {p} = Providers
                         THEN EverySeen \cup {s} ELSE EverySeen
  <1>1. p \notin DOMAIN observed[s]
    BY DEF First, ReportsAreKept
  <1>2. /\ DOMAIN observed'[s] = DOMAIN observed[s] \cup {p}
        /\ \A r \in Signatures \ {s} : observed'[r] = observed[r]
    BY DEF First, TypeOK, Insert
  <1> QED
    BY <1>1, <1>2 DEF EverySeen

\* A transaction adds one to the built ones as it becomes complete, and one to
\* the counter as it leaves them.
LEMMA CounterStep ==
  ASSUME RaceInv, CounterIsExact, [Next]_vars
  PROVE  CounterIsExact' /\ shared_counter' \in 0..Cardinality(Signatures)
  <1>1. TypeOK /\ ReportsAreKept /\ shared_counter \in Nat
    BY CountsAreFinite DEF RaceInv, TypeOK
  <1>2. shared_counter + Cardinality(Built) = Cardinality(EverySeen)
    BY DEF CounterIsExact, Built
  <1>3. SUFFICES /\ shared_counter' \in Nat
                 /\ shared_counter' + Cardinality(Built') = Cardinality(EverySeen')
    BY CountsStayFinite, CountsAreFinite DEF CounterIsExact, Built
  <1>4. ASSUME UNCHANGED <<shared_counter, Built, EverySeen>>
        PROVE  /\ shared_counter' \in Nat
               /\ shared_counter' + Cardinality(Built') = Cardinality(EverySeen')
    BY <1>1, <1>2, <1>4
  <1>5. ASSUME NEW p \in Providers, NEW from \in TaskStates \ {"built"},
               NEW to \in TaskStates \ {"built"}, Goto(p, from, to),
               UNCHANGED <<shared_counter, observed>>
        PROVE  UNCHANGED <<shared_counter, Built, EverySeen>>
    BY <1>1, <1>5, GotoFacts DEF Built, EverySeen
  <1>6. ASSUME NEW p \in Providers,
               \/ Subscribe(p) \/ SubscribeFails(p) \/ LogFails(p) \/ ClaimShutdown(p)
               \/ Broadcast(p) \/ Enqueue(p) \/ Stops(p)
        PROVE  UNCHANGED <<shared_counter, Built, EverySeen>>
    BY <1>5, <1>6
    DEF Subscribe, SubscribeFails, LogFails, ClaimShutdown, Broadcast, BroadcastTo, Enqueue, Stops,
        sharedVars, TaskStates
  <1>7. ASSUME NEW p \in Providers, ConnectFails(p) \/ StreamEnds(p) \/ Consume \/ Tick \/ UNCHANGED vars
        PROVE  UNCHANGED <<shared_counter, Built, EverySeen>>
    BY <1>7 DEF ConnectFails, StreamEnds, Consume, Tick, vars, taskVars, sharedVars, Built, EverySeen
  <1>8. ASSUME NEW p \in Providers, Count(p)
        PROVE  /\ shared_counter' \in Nat
               /\ shared_counter' + Cardinality(Built') = Cardinality(EverySeen')
    <2>1. /\ pc[p] = "built" /\ pc'[p] # "built"
          /\ \A q \in Providers \ {p} : pc'[q] = pc[q]
          /\ shared_counter' = shared_counter + 1 /\ observed' = observed
      BY <1>1, <1>8 DEF Count, Goto, TypeOK
    <2>2. Built' = Built \ {p} /\ p \in Built /\ EverySeen' = EverySeen
      BY <2>1 DEF Built, EverySeen
    <2>3. Cardinality(Built') = Cardinality(Built) - 1
      BY <2>2, CountsAreFinite, FS_RemoveElement
    <2> QED
      BY <1>1, <1>2, <2>1, <2>2, <2>3, CountsAreFinite
  <1>9. ASSUME NEW p \in Providers, NEW s \in Signatures, NEW rest \in UpToOne, Sight(p, s, rest)
        PROVE  /\ shared_counter' \in Nat
               /\ shared_counter' + Cardinality(Built') = Cardinality(EverySeen')
    <2>1. shared_counter' = shared_counter /\ pc[p] = "listening"
      BY <1>1, <1>9, SightFacts
    <2>2. CASE Again(p, s)
      BY <1>4, <2>1, <2>2 DEF Again, Built, EverySeen
    <2>3. CASE First(p, s) /\ DOMAIN observed[s] \cup {p} # Providers
      <3>1. EverySeen' = EverySeen /\ pc' = pc
        BY <1>1, <2>3, FirstCompletes DEF First
      <3> QED
        BY <1>4, <2>1, <3>1 DEF Built
    <2>4. CASE First(p, s) /\ DOMAIN observed[s] \cup {p} = Providers
      <3>1. /\ s \notin EverySeen /\ EverySeen' = EverySeen \cup {s}
            /\ pc' = [pc EXCEPT ![p] = "built"]
        BY <1>1, <2>4, FirstCompletes DEF First
      <3>2. p \notin Built /\ Built' = Built \cup {p}
        BY <1>1, <2>1, <3>1 DEF Built, TypeOK
      <3>3. /\ Cardinality(EverySeen') = Cardinality(EverySeen) + 1
            /\ Cardinality(Built') = Cardinality(Built) + 1
        BY <3>1, <3>2, CountsAreFinite, FS_AddElement
      <3> QED
        BY <1>1, <1>2, <2>1, <3>3, CountsAreFinite
    <2> QED
      BY <1>1, <1>9, <2>2, <2>3, <2>4, SightFacts
  <1> QED
    BY <1>1, <1>4, <1>6, <1>7, <1>8, <1>9, StepCases, RaceAssumption
-----------------------------------------------------------------------------
(***************************************************************************)
(* Type correctness                                                        *)
(***************************************************************************)

\* The type invariant without the bound of the counter.
TypeRest ==
  /\ kind \in KindChoices
  /\ pc \in [Providers -> TaskStates]
  /\ {pending, envelope} \subseteq [Providers -> UpToOne]
  /\ accumulator \in [Providers -> MapsFrom(Signatures)]
  /\ observed \in [Signatures -> MapsFrom(Providers)]
  /\ DOMAIN collected \subseteq Providers
  /\ shared_shutdown \in BOOLEAN
  /\ signal \subseteq Providers
  /\ {queue, consumed} \subseteq Seq(Signatures) /\ Len(queue) <= QueueCapacity
  /\ dropped \subseteq Signatures
  /\ broadcasts \in Nat /\ now \in Times

LEMMA TypeSplit == TypeOK <=> TypeRest /\ shared_counter \in 0..Cardinality(Signatures)
  BY DEF TypeOK, TypeRest, TaskStates

\* A sighting keeps the types.
LEMMA TypeSight ==
  ASSUME TypeOK, ReportsAreKept, NEW p \in Providers, NEW s \in Signatures, NEW rest \in UpToOne,
         Sight(p, s, rest)
  PROVE  TypeRest'
  <1>1. TypeRest
    BY TypeSplit
  <1>2. <<s>> \in UpToOne /\ <<>> \in UpToOne
    BY DEF UpToOne
  <1>3. /\ pending' \in [Providers -> UpToOne]
        /\ UNCHANGED <<kind, collected, shared_shutdown, signal, broadcasts, queue, dropped,
                       consumed, now>>
    BY <1>1, SightFacts DEF TypeRest
  <1>4. pc' \in [Providers -> TaskStates] /\ envelope' \in [Providers -> UpToOne]
    <2>1. pc \in [Providers -> TaskStates] /\ envelope \in [Providers -> UpToOne]
      BY <1>1 DEF TypeRest
    <2>2. /\ pc' = pc \/ pc' = [pc EXCEPT ![p] = "built"]
          /\ envelope' = [envelope EXCEPT ![p] = <<>>] \/ envelope' = [envelope EXCEPT ![p] = <<s>>]
      BY SightFacts DEF Again, First
    <2> QED
      BY <1>2, <2>1, <2>2 DEF TaskStates
  <1>5. /\ Insert(accumulator[p], s, now) \in MapsFrom(Signatures)
        /\ Insert(observed[s], p, now) \in MapsFrom(Providers)
    BY <1>1, InsertFacts DEF TypeRest
  <1>6. /\ accumulator' \in [Providers -> MapsFrom(Signatures)]
        /\ observed' \in [Signatures -> MapsFrom(Providers)]
    <2>1. /\ accumulator \in [Providers -> MapsFrom(Signatures)]
          /\ observed \in [Signatures -> MapsFrom(Providers)]
      BY <1>1 DEF TypeRest
    <2>2. \/ UNCHANGED <<accumulator, observed>>
          \/ /\ accumulator' = [accumulator EXCEPT ![p] = Insert(accumulator[p], s, now)]
             /\ observed' = [observed EXCEPT ![s] = Insert(observed[s], p, now)]
      BY SightFacts DEF Again, First
    <2> QED
      BY <1>5, <2>1, <2>2
  <1> QED
    BY <1>1, <1>3, <1>4, <1>6 DEF TypeRest

\* So does the step of a queue.
LEMMA TypeEnqueue ==
  ASSUME TypeOK, HeldOnTheWay, NEW p \in Providers, Enqueue(p)
  PROVE  /\ \E s \in Signatures :
              /\ envelope[p] = <<s>>
              /\ IF HasRoom THEN queue' = Append(queue, s) /\ dropped' = dropped
                            ELSE queue' = queue /\ dropped' = dropped \cup {s}
         /\ pc[p] = "publish"
         /\ TypeRest'
  <1>1. TypeRest
    BY TypeSplit
  <1>2. pc[p] = "publish" /\ pc' \in [Providers -> TaskStates] /\ kind' = kind
    BY GotoFacts DEF Enqueue, TaskStates
  <1>3. envelope[p] # <<>> /\ envelope[p] \in UpToOne
    BY <1>1, <1>2 DEF HeldOnTheWay, TypeRest
  <1>4. PICK s \in Signatures : envelope[p] = <<s>>
    BY <1>3, UpToOneFacts
  <1>5. queue \in Seq(Signatures)
    BY <1>1 DEF TypeRest
  <1>6. queue \o <<s>> = Append(queue, s) /\ envelope[p][1] = s
    BY <1>4, <1>5, AppendIsConcat
  <1>7. IF HasRoom THEN queue' = Append(queue, s) /\ dropped' = dropped
                   ELSE queue' = queue /\ dropped' = dropped \cup {s}
    BY <1>4, <1>6 DEF Enqueue
  <1>8. /\ Append(queue, s) \in Seq(Signatures) /\ Len(Append(queue, s)) = Len(queue) + 1
        /\ Len(queue) \in Nat
    BY <1>5, AppendProperties, LenProperties
  <1>9. queue' \in Seq(Signatures) /\ Len(queue') <= QueueCapacity /\ dropped' \subseteq Signatures
    <2>1. /\ queue \in Seq(Signatures) /\ dropped \subseteq Signatures
          /\ Len(queue) <= QueueCapacity /\ QueueCapacity \in Nat
      BY <1>1, RaceAssumption DEF TypeRest
    <2>2. CASE HasRoom
      BY <1>7, <1>8, <2>1, <2>2 DEF HasRoom
    <2>3. CASE ~HasRoom
      BY <1>7, <2>1, <2>3
    <2> QED
      BY <2>2, <2>3
  <1>10. envelope' \in [Providers -> UpToOne]
    BY <1>1 DEF Enqueue, TypeRest, UpToOne
  <1> QED
    BY <1>1, <1>2, <1>4, <1>7, <1>9, <1>10 DEF Enqueue, TypeRest, outerVars

LEMMA TypeConsume ==
  ASSUME TypeOK, Consume
  PROVE  TypeRest'
  <1>1. queue \in Seq(Signatures) /\ consumed \in Seq(Signatures) /\ queue # <<>> /\ TypeRest
    BY TypeSplit DEF TypeRest, Consume
  <1>2. /\ Head(queue) \in Signatures /\ Tail(queue) \in Seq(Signatures)
        /\ Len(Tail(queue)) = Len(queue) - 1 /\ Len(queue) \in Nat
    BY <1>1, HeadTailProperties, LenProperties
  <1>3. Append(consumed, Head(queue)) \in Seq(Signatures)
    BY <1>1, <1>2, AppendProperties
  <1> QED
    BY <1>1, <1>2, <1>3, RaceAssumption DEF Consume, TypeRest, taskVars

LEMMA TypeStep ==
  ASSUME RaceInv, [Next]_vars
  PROVE  TypeRest'
  <1>1. TypeOK /\ TypeRest /\ ReportsAreKept /\ HeldOnTheWay
    BY TypeSplit DEF RaceInv
  <1>2. ASSUME NEW p \in Providers, Subscribe(p) \/ SubscribeFails(p) \/ LogFails(p)
        PROVE  TypeRest'
    BY <1>1, <1>2, GotoFacts
    DEF Subscribe, SubscribeFails, LogFails, TaskStates, TypeRest, sharedVars, outerVars
  <1>3. ASSUME NEW p \in Providers, ConnectFails(p) \/ StreamEnds(p) \/ UNCHANGED vars
        PROVE  TypeRest'
    BY <1>1, <1>3 DEF ConnectFails, StreamEnds, TypeRest, vars, taskVars, sharedVars, outerVars
  <1>4. ASSUME NEW p \in Providers, Count(p) \/ ClaimShutdown(p)
        PROVE  TypeRest'
    BY <1>1, <1>4, GotoFacts DEF Count, ClaimShutdown, TaskStates, TypeRest, outerVars
  <1>5. ASSUME NEW p \in Providers, Broadcast(p)
        PROVE  TypeRest'
    BY <1>1, <1>5, GotoFacts DEF Broadcast, BroadcastTo, Receivers, TaskStates, TypeRest, outerVars
  <1>6. ASSUME NEW p \in Providers, Stops(p)
        PROVE  TypeRest'
    <2>1. DOMAIN collected' \subseteq Providers
      BY <1>1, <1>6 DEF Stops, Insert, TypeRest
    <2> QED
      BY <1>1, <1>6, <2>1, GotoFacts DEF Stops, TaskStates, TypeRest, outerVars
  <1>7. CASE Tick
    <2>1. now' \in Times
      BY <1>1, <1>7, RaceAssumption DEF Tick, TypeRest, Times
    <2> QED
      BY <1>1, <1>7, <2>1 DEF Tick, TypeRest, taskVars, sharedVars
  <1> QED
    BY <1>1, <1>2, <1>3, <1>4, <1>5, <1>6, <1>7, StepCases, TypeSight, TypeEnqueue, TypeConsume,
       RaceAssumption
-----------------------------------------------------------------------------
(***************************************************************************)
(* The rest of the invariant, part by part                                 *)
(***************************************************************************)

\* A sighting is kept and reported in one step.
LEMMA ReportsStep ==
  ASSUME RaceInv, [Next]_vars
  PROVE  ReportsAreKept'
  <1> USE DEF ReportsAreKept
  <1>1. TypeOK /\ ReportsAreKept /\ now \in Nat
    BY RaceAssumption DEF RaceInv, TypeOK, Times
  <1>2. ASSUME NEW p \in Providers, NEW s \in Signatures, NEW rest \in UpToOne, Sight(p, s, rest)
        PROVE  ReportsAreKept'
    <2>1. CASE Again(p, s)
      BY <1>1, <1>2, <2>1, SightFacts DEF Again
    <2>2. CASE First(p, s)
      <3>1. /\ accumulator'[p] = Insert(accumulator[p], s, now)
            /\ \A q \in Providers \ {p} : accumulator'[q] = accumulator[q]
            /\ observed'[s] = Insert(observed[s], p, now)
            /\ \A r \in Signatures \ {s} : observed'[r] = observed[r]
            /\ now' = now
        <4>1. now' = now
          BY <1>1, <1>2, SightFacts
        <4> QED
          BY <1>1, <2>2, <4>1 DEF First, TypeOK
      <3>2. /\ DOMAIN accumulator'[p] = DOMAIN accumulator[p] \cup {s}
            /\ accumulator'[p][s] = now
            /\ \A r \in DOMAIN accumulator[p] \ {s} : accumulator'[p][r] = accumulator[p][r]
        BY <3>1 DEF Insert
      <3>3. /\ DOMAIN observed'[s] = DOMAIN observed[s] \cup {p}
            /\ observed'[s][p] = now
            /\ \A q \in DOMAIN observed[s] \ {p} : observed'[s][q] = observed[s][q]
        BY <3>1 DEF Insert
      <3> QED
        BY <1>1, <3>1, <3>2, <3>3
    <2> QED
      BY <1>1, <1>2, <2>1, <2>2, SightFacts
  <1>3. CASE Tick
    <2>1. \A p \in Providers, s \in Signatures : s \in DOMAIN accumulator[p] =>
            accumulator[p][s] \in Nat
      BY <1>1, RaceAssumption DEF TypeOK, MapsFrom, Times
    <2> QED
      BY <1>1, <1>3, <2>1 DEF Tick, taskVars, sharedVars
  <1>4. ASSUME UNCHANGED <<accumulator, observed, now>> PROVE ReportsAreKept'
    BY <1>1, <1>4
  <1>5. ASSUME NEW p \in Providers,
               \/ Subscribe(p) \/ SubscribeFails(p) \/ ConnectFails(p) \/ LogFails(p)
               \/ Count(p) \/ ClaimShutdown(p) \/ Broadcast(p) \/ Enqueue(p) \/ Stops(p)
               \/ StreamEnds(p) \/ Consume \/ UNCHANGED vars
        PROVE  ReportsAreKept'
    BY <1>4, <1>5
    DEF Subscribe, SubscribeFails, ConnectFails, LogFails, Count, ClaimShutdown, Broadcast,
        BroadcastTo, Enqueue, Stops, StreamEnds, Consume, vars, taskVars, sharedVars, outerVars
  <1> QED
    BY <1>1, <1>2, <1>3, <1>5, StepCases, RaceAssumption

\* Who finds the flag unset sets it and is then the only one to broadcast; the
\* counter never falls back below the target.
LEMMA BroadcastStep ==
  ASSUME RaceInv, CounterIsExact, [Next]_vars
  PROVE  OneBroadcast'
  <1>1. /\ TypeOK /\ ReportsAreKept /\ HeldOnTheWay /\ shared_counter \in Nat /\ Target \in Nat
        /\ broadcasts \in Nat
    BY CountsAreFinite, RaceAssumption DEF RaceInv, TypeOK
  <1>2. /\ broadcasts + Cardinality(Claimers) = (IF shared_shutdown THEN 1 ELSE 0)
        /\ shared_shutdown \/ (\E p \in Providers : pc[p] = "target") => shared_counter >= Target
    BY DEF RaceInv, OneBroadcast, Claimers
  <1> DEFINE Goal ==
        /\ broadcasts' + Cardinality(Claimers') = (IF shared_shutdown' THEN 1 ELSE 0)
        /\ shared_shutdown' \/ (\E p \in Providers : pc'[p] = "target")
             => shared_counter' >= Target
  <1>3. SUFFICES Goal
    BY DEF OneBroadcast, Claimers
  <1>4. ASSUME UNCHANGED <<broadcasts, shared_shutdown, shared_counter>>, Claimers' = Claimers,
               \A p \in Providers : pc'[p] = "target" => pc[p] = "target"
        PROVE  Goal
    BY <1>2, <1>4
  <1>5. ASSUME NEW p \in Providers, NEW from \in TaskStates \ {"broadcast"},
               NEW to \in TaskStates \ {"broadcast", "target"}, Goto(p, from, to),
               UNCHANGED <<broadcasts, shared_shutdown, shared_counter>>
        PROVE  Goal
    <2>1. Claimers' = Claimers /\ \A q \in Providers : pc'[q] = "target" => pc[q] = "target"
      BY <1>1, <1>5, GotoFacts DEF Claimers
    <2> QED
      BY <1>4, <1>5, <2>1
  <1>6. ASSUME NEW p \in Providers,
               Subscribe(p) \/ SubscribeFails(p) \/ LogFails(p) \/ Enqueue(p) \/ Stops(p)
        PROVE  Goal
    <2>1. /\ UNCHANGED <<broadcasts, shared_shutdown, shared_counter>>
          /\ \E from \in TaskStates \ {"broadcast"}, to \in TaskStates \ {"broadcast", "target"} :
               Goto(p, from, to)
      BY <1>6 DEF Subscribe, SubscribeFails, LogFails, Enqueue, Stops, sharedVars, TaskStates
    <2> QED
      BY <1>5, <2>1
  <1>7. ASSUME NEW p \in Providers, ConnectFails(p) \/ StreamEnds(p) \/ Consume \/ Tick \/ UNCHANGED vars
        PROVE  Goal
    <2>1. UNCHANGED <<broadcasts, shared_shutdown, shared_counter, pc>>
      BY <1>7 DEF ConnectFails, StreamEnds, Consume, Tick, vars, taskVars, sharedVars
    <2> QED
      BY <1>4, <2>1 DEF Claimers
  <1>8. ASSUME NEW p \in Providers, Count(p) PROVE Goal
    <2>1. /\ pc[p] = "built"
          /\ pc'[p] = IF shared_counter + 1 >= Target THEN "target" ELSE "publish"
          /\ \A q \in Providers \ {p} : pc'[q] = pc[q]
          /\ shared_counter' = shared_counter + 1
          /\ UNCHANGED <<broadcasts, shared_shutdown>>
      BY <1>1, <1>8 DEF Count, Reached, Goto, TypeOK
    <2>2. Claimers' = Claimers
      BY <2>1 DEF Claimers
    <2> QED
      BY <1>1, <1>2, <2>1, <2>2
  <1>9. ASSUME NEW p \in Providers, ClaimShutdown(p) PROVE Goal
    <2>1. /\ pc[p] = "target"
          /\ pc'[p] = IF shared_shutdown THEN "publish" ELSE "broadcast"
          /\ \A q \in Providers \ {p} : pc'[q] = pc[q]
          /\ shared_shutdown' = TRUE
          /\ UNCHANGED <<broadcasts, shared_counter>>
      BY <1>1, <1>9 DEF ClaimShutdown, Claims, Goto, TypeOK
    <2>2. shared_counter >= Target
      BY <1>2, <2>1
    <2>3. CASE shared_shutdown
      <3>1. Claimers' = Claimers
        BY <2>1, <2>3 DEF Claimers
      <3> QED
        BY <1>2, <2>1, <2>2, <2>3, <3>1
    <2>4. CASE ~shared_shutdown
      <3>1. Claimers' = Claimers \cup {p} /\ p \notin Claimers
        BY <2>1, <2>4 DEF Claimers
      <3>2. Cardinality(Claimers') = Cardinality(Claimers) + 1
        BY <3>1, CountsAreFinite, FS_AddElement
      <3> QED
        BY <1>1, <1>2, <2>1, <2>2, <2>4, <3>2, CountsAreFinite
    <2> QED
      BY <2>3, <2>4
  <1>10. ASSUME NEW p \in Providers, Broadcast(p) PROVE Goal
    <2>1. /\ pc[p] = "broadcast" /\ pc'[p] = "publish"
          /\ \A q \in Providers \ {p} : pc'[q] = pc[q]
          /\ broadcasts' = broadcasts + 1
          /\ UNCHANGED <<shared_shutdown, shared_counter>>
      BY <1>1, <1>10, GotoFacts DEF Broadcast, BroadcastTo, TaskStates
    <2>2. Claimers' = Claimers \ {p} /\ p \in Claimers
      BY <2>1 DEF Claimers
    <2>3. Cardinality(Claimers') = Cardinality(Claimers) - 1
      BY <2>2, CountsAreFinite, FS_RemoveElement
    <2> QED
      BY <1>1, <1>2, <2>1, <2>3, CountsAreFinite
  <1>11. ASSUME NEW p \in Providers, NEW s \in Signatures, NEW rest \in UpToOne, Sight(p, s, rest)
         PROVE  Goal
    <2>1. /\ UNCHANGED <<broadcasts, shared_shutdown, shared_counter>>
          /\ pc[p] = "listening" /\ (pc' = pc \/ pc' = [pc EXCEPT ![p] = "built"])
      BY <1>1, <1>11, SightFacts DEF Again, First
    <2>2. Claimers' = Claimers /\ \A q \in Providers : pc'[q] = "target" => pc[q] = "target"
      BY <1>1, <2>1 DEF Claimers, TypeOK
    <2> QED
      BY <1>4, <2>1, <2>2
  <1> QED
    BY <1>1, <1>6, <1>7, <1>8, <1>9, <1>10, <1>11, StepCases, RaceAssumption

\* Who counts up to the target is the one to claim the shutdown unless it is
\* claimed; who has not ended gets the broadcast, and reads it only to end.
LEMMA TargetStep ==
  ASSUME RaceInv, [Next]_vars
  PROVE  TargetIsAnnounced'
  <1>1. /\ TypeOK /\ ReportsAreKept /\ shared_counter \in Nat /\ Target \in Nat
        /\ pc \in [Providers -> TaskStates]
    BY CountsAreFinite, RaceAssumption DEF RaceInv, TypeOK, TaskStates
  <1>2. /\ shared_counter >= Target => shared_shutdown \/ \E p \in Providers : pc[p] = "target"
        /\ broadcasts > 0 => \A p \in Providers : Ended(p) \/ p \in signal
    BY DEF RaceInv, TargetIsAnnounced
  <1> DEFINE Claimed == shared_counter' >= Target =>
                          shared_shutdown' \/ \E p \in Providers : pc'[p] = "target"
             Signalled == broadcasts' > 0 =>
                            \A p \in Providers : pc'[p] \in {"stopped", "failed"} \/ p \in signal'
  <1>3. SUFFICES Claimed /\ Signalled
    BY DEF TargetIsAnnounced, Ended
  <1>4. ASSUME UNCHANGED <<shared_counter, shared_shutdown, broadcasts, signal>>, pc' = pc
        PROVE  Claimed /\ Signalled
    BY <1>2, <1>4 DEF Ended
  \* A move that counts, claims and reads nothing.
  <1>5. ASSUME NEW p \in Providers, NEW from \in TaskStates \ {"target", "stopped", "failed"},
               NEW to \in TaskStates, Goto(p, from, to),
               UNCHANGED <<shared_counter, shared_shutdown, broadcasts, signal>>
        PROVE  Claimed /\ Signalled
    <2>1. pc[p] = from /\ \A q \in Providers \ {p} : pc'[q] = pc[q]
      BY <1>1, <1>5, GotoFacts
    <2>2. Claimed
      BY <1>2, <1>5, <2>1
    <2>3. Signalled
      BY <1>2, <1>5, <2>1 DEF Ended
    <2> QED
      BY <2>2, <2>3
  <1>6. ASSUME NEW p \in Providers, Subscribe(p) \/ SubscribeFails(p) \/ LogFails(p) \/ Enqueue(p)
        PROVE  Claimed /\ Signalled
    <2>1. /\ UNCHANGED <<shared_counter, shared_shutdown, broadcasts, signal>>
          /\ \E from \in TaskStates \ {"target", "stopped", "failed"}, to \in TaskStates :
               Goto(p, from, to)
      BY <1>6 DEF Subscribe, SubscribeFails, LogFails, Enqueue, sharedVars, TaskStates
    <2> QED
      BY <1>5, <2>1
  <1>7. ASSUME NEW p \in Providers, ConnectFails(p) \/ StreamEnds(p) \/ Consume \/ Tick \/ UNCHANGED vars
        PROVE  Claimed /\ Signalled
    BY <1>4, <1>7 DEF ConnectFails, StreamEnds, Consume, Tick, vars, taskVars, sharedVars
  <1>8. ASSUME NEW p \in Providers, Count(p) PROVE Claimed /\ Signalled
    <2>1. /\ pc[p] = "built"
          /\ pc'[p] = IF shared_counter + 1 >= Target THEN "target" ELSE "publish"
          /\ \A q \in Providers \ {p} : pc'[q] = pc[q]
          /\ shared_counter' = shared_counter + 1
          /\ UNCHANGED <<broadcasts, shared_shutdown, signal>>
      BY <1>1, <1>8 DEF Count, Reached, Goto
    <2>2. Claimed
      BY <1>1, <2>1
    <2>3. Signalled
      BY <1>2, <2>1 DEF Ended
    <2> QED
      BY <2>2, <2>3
  <1>9. ASSUME NEW p \in Providers, ClaimShutdown(p) PROVE Claimed /\ Signalled
    <2>1. /\ pc[p] = "target" /\ \A q \in Providers \ {p} : pc'[q] = pc[q]
          /\ shared_shutdown' = TRUE /\ UNCHANGED <<broadcasts, signal>>
      BY <1>1, <1>9 DEF ClaimShutdown, Goto
    <2>2. Signalled
      BY <1>2, <2>1 DEF Ended
    <2> QED
      BY <2>1, <2>2
  <1>10. ASSUME NEW p \in Providers, Broadcast(p) PROVE Claimed /\ Signalled
    <2>1. /\ pc[p] = "broadcast" /\ \A q \in Providers \ {p} : pc'[q] = pc[q]
          /\ signal' = signal \cup Receivers
          /\ UNCHANGED <<shared_counter, shared_shutdown>>
      BY <1>1, <1>10 DEF Broadcast, BroadcastTo, Goto
    <2>2. Claimed
      BY <1>2, <2>1
    <2>3. Signalled
      BY <2>1 DEF Receivers
    <2> QED
      BY <2>2, <2>3
  <1>11. ASSUME NEW p \in Providers, Stops(p) PROVE Claimed /\ Signalled
    <2>1. /\ pc[p] = "listening" /\ pc'[p] = "stopped"
          /\ \A q \in Providers \ {p} : pc'[q] = pc[q]
          /\ signal' = signal \ {p}
          /\ UNCHANGED <<shared_counter, shared_shutdown, broadcasts>>
      BY <1>1, <1>11 DEF Stops, Goto
    <2>2. Claimed
      BY <1>2, <2>1
    <2>3. Signalled
      BY <1>2, <2>1 DEF Ended
    <2> QED
      BY <2>2, <2>3
  <1>12. ASSUME NEW p \in Providers, NEW s \in Signatures, NEW rest \in UpToOne, Sight(p, s, rest)
         PROVE  Claimed /\ Signalled
    <2>1. /\ UNCHANGED <<shared_counter, shared_shutdown, broadcasts, signal>>
          /\ pc[p] = "listening" /\ (pc' = pc \/ pc' = [pc EXCEPT ![p] = "built"])
      BY <1>1, <1>12, SightFacts DEF Again, First
    <2>2. \A q \in Providers \ {p} : pc'[q] = pc[q]
      BY <1>1, <2>1
    <2>3. Claimed
      BY <1>2, <2>1, <2>2
    <2>4. Signalled
      BY <1>2, <2>1, <2>2 DEF Ended
    <2> QED
      BY <2>3, <2>4
  <1> QED
    BY <1>6, <1>7, <1>8, <1>9, <1>10, <1>11, <1>12, <1>1, StepCases, RaceAssumption

\* An envelope is held from "built" to "publish", and nothing moves a task that
\* has handed over its batch.
LEMMA HeldStep ==
  ASSUME RaceInv, [Next]_vars
  PROVE  HeldOnTheWay'
  <1> DEFINE Way == {"built", "target", "broadcast", "publish"}
  <1>1. TypeOK /\ ReportsAreKept /\ HeldOnTheWay
    BY DEF RaceInv
  <1>2. /\ \A p \in Providers : envelope[p] # <<>> <=> pc[p] \in Way
        /\ \A p \in DOMAIN collected : pc[p] = "stopped" /\ collected[p] = accumulator[p]
        /\ DOMAIN collected \subseteq Providers
    BY <1>1 DEF HeldOnTheWay, TypeOK
  <1>3. ASSUME NEW p \in Providers, NEW from \in TaskStates \ {"stopped"}, NEW to \in TaskStates,
               from \in Way <=> to \in Way,
               Goto(p, from, to), UNCHANGED <<envelope, collected, accumulator>>
        PROVE  HeldOnTheWay'
    <2>1. pc[p] = from /\ pc'[p] = to /\ \A q \in Providers \ {p} : pc'[q] = pc[q]
      BY <1>1, <1>3, GotoFacts
    <2> QED
      BY <1>2, <1>3, <2>1 DEF HeldOnTheWay
  <1>4. ASSUME NEW p \in Providers,
               \/ Subscribe(p) \/ SubscribeFails(p) \/ LogFails(p)
               \/ Count(p) \/ ClaimShutdown(p) \/ Broadcast(p)
        PROVE  HeldOnTheWay'
    <2>1. /\ UNCHANGED <<envelope, collected, accumulator>>
          /\ \E from \in TaskStates \ {"stopped"}, to \in TaskStates :
               (from \in Way <=> to \in Way) /\ Goto(p, from, to)
      BY <1>4 DEF Subscribe, SubscribeFails, LogFails, Count, ClaimShutdown, Broadcast, BroadcastTo,
                  sharedVars, TaskStates
    <2> QED
      BY <1>3, <2>1
  <1>5. ASSUME NEW p \in Providers, Enqueue(p) PROVE HeldOnTheWay'
    <2>1. /\ pc[p] = "publish" /\ pc'[p] = "listening"
          /\ \A q \in Providers \ {p} : pc'[q] = pc[q] /\ envelope'[q] = envelope[q]
          /\ envelope'[p] = <<>> /\ UNCHANGED <<collected, accumulator>>
      BY <1>1, <1>5 DEF Enqueue, Goto, TypeOK
    <2> QED
      BY <1>2, <2>1 DEF HeldOnTheWay
  <1>6. ASSUME NEW p \in Providers, Stops(p) PROVE HeldOnTheWay'
    <2>1. /\ pc[p] = "listening" /\ pc'[p] = "stopped"
          /\ \A q \in Providers \ {p} : pc'[q] = pc[q]
          /\ collected' = Insert(collected, p, accumulator[p])
          /\ UNCHANGED <<envelope, accumulator>>
      BY <1>1, <1>6, GotoFacts DEF Stops, TaskStates
    <2>2. /\ DOMAIN collected' = DOMAIN collected \cup {p}
          /\ collected'[p] = accumulator[p]
          /\ \A q \in DOMAIN collected \ {p} : collected'[q] = collected[q]
      BY <2>1 DEF Insert
    <2> QED
      BY <1>2, <2>1, <2>2 DEF HeldOnTheWay
  <1>7. ASSUME NEW p \in Providers, NEW s \in Signatures, NEW rest \in UpToOne, Sight(p, s, rest)
        PROVE  HeldOnTheWay'
    <2>1. /\ pc[p] = "listening" /\ collected' = collected
          /\ \A q \in Providers \ {p} :
               pc'[q] = pc[q] /\ envelope'[q] = envelope[q] /\ accumulator'[q] = accumulator[q]
          /\ \/ pc'[p] = "built" /\ envelope'[p] = <<s>>
             \/ pc'[p] = "listening" /\ envelope'[p] = <<>>
      <3>1. pc[p] = "listening" /\ collected' = collected
        BY <1>1, <1>7, SightFacts
      <3>2. CASE Again(p, s)
        BY <1>1, <3>1, <3>2 DEF Again, TypeOK
      <3>3. CASE First(p, s)
        BY <1>1, <3>1, <3>3 DEF First, TypeOK
      <3> QED
        BY <1>1, <1>7, <3>2, <3>3, SightFacts
    <2>2. p \notin DOMAIN collected /\ <<s>> # <<>>
      BY <1>2, <2>1
    <2> QED
      BY <1>2, <2>1, <2>2 DEF HeldOnTheWay
  <1>8. ASSUME NEW p \in Providers, ConnectFails(p) \/ StreamEnds(p) \/ Consume \/ Tick \/ UNCHANGED vars
        PROVE  HeldOnTheWay'
    <2>1. UNCHANGED <<pc, envelope, collected, accumulator>>
      BY <1>8 DEF ConnectFails, StreamEnds, Consume, Tick, vars, taskVars, sharedVars
    <2> QED
      BY <1>2, <2>1 DEF HeldOnTheWay
  <1> QED
    BY <1>1, <1>4, <1>5, <1>6, <1>7, <1>8, StepCases, RaceAssumption
-----------------------------------------------------------------------------
(***************************************************************************)
(* Envelopes                                                               *)
(***************************************************************************)

\* Where a signature occurs in a sequence, and how often.
At(q, s) == {i \in 1..Len(q) : q[i] = s}
Occurrences(q, s) == Cardinality(At(q, s))

LEMMA OccurrencesAreFinite ==
  ASSUME NEW S, NEW q \in Seq(S), NEW s
  PROVE  IsFiniteSet(At(q, s)) /\ Occurrences(q, s) \in Nat
  <1>1. Len(q) \in Nat /\ At(q, s) \subseteq 1..Len(q)
    BY LenProperties DEF At
  <1>2. IsFiniteSet(1..Len(q))
    BY <1>1, FS_Interval
  <1> QED
    BY <1>1, <1>2, FS_Subset, FS_CardinalityType DEF Occurrences

\* An element that joins at the end occurs once more.
LEMMA OccurrencesAppend ==
  ASSUME NEW S, NEW q \in Seq(S), NEW e \in S, NEW s
  PROVE  Occurrences(Append(q, e), s) = Occurrences(q, s) + (IF e = s THEN 1 ELSE 0)
  <1>1. /\ Len(Append(q, e)) = Len(q) + 1 /\ Len(q) \in Nat
        /\ \A i \in 1..Len(q) : Append(q, e)[i] = q[i]
        /\ Append(q, e)[Len(q) + 1] = e
    BY AppendProperties, LenProperties
  <1>2. CASE e = s
    <2>1. At(Append(q, e), s) = At(q, s) \cup {Len(q) + 1} /\ Len(q) + 1 \notin At(q, s)
      BY <1>1, <1>2 DEF At
    <2> QED
      BY <1>2, <2>1, OccurrencesAreFinite, FS_AddElement DEF Occurrences
  <1>3. CASE e # s
    <2>1. At(Append(q, e), s) = At(q, s)
      BY <1>1, <1>3 DEF At
    <2> QED
      BY <1>3, <2>1, OccurrencesAreFinite DEF Occurrences
  <1> QED
    BY <1>2, <1>3

\* An element that leaves at the front occurs once less.
LEMMA OccurrencesTail ==
  ASSUME NEW S, NEW q \in Seq(S), q # <<>>, NEW s
  PROVE  Occurrences(q, s) = Occurrences(Tail(q), s) + (IF Head(q) = s THEN 1 ELSE 0)
  <1>1. /\ Tail(q) \in Seq(S) /\ Len(Tail(q)) = Len(q) - 1 /\ Len(q) \in Nat \ {0}
        /\ \A i \in 1..Len(Tail(q)) : Tail(q)[i] = q[i + 1]
        /\ Head(q) = q[1]
    BY HeadTailProperties, LenProperties, EmptySeq
  <1> DEFINE Later == {i \in 2..Len(q) : q[i] = s}
             shift == [i \in At(Tail(q), s) |-> i + 1]
  <1>2. ExistsBijection(At(Tail(q), s), Later)
    <2>1. shift \in [At(Tail(q), s) -> Later]
      BY <1>1 DEF At
    <2>2. \A i, j \in At(Tail(q), s) : shift[i] = shift[j] => i = j
      BY DEF At
    <2>3. ASSUME NEW k \in Later PROVE \E i \in At(Tail(q), s) : shift[i] = k
      <3>1. k - 1 \in At(Tail(q), s)
        BY <1>1 DEF At
      <3>2. shift[k - 1] = k
        BY <3>1
      <3> QED
        BY <3>1, <3>2
    <2>4. shift \in Bijection(At(Tail(q), s), Later)
      BY <2>1, <2>2, <2>3 DEF Bijection, Injection, Surjection, IsInjective
    <2> QED
      BY <2>4 DEF ExistsBijection
  <1>3. IsFiniteSet(Later) /\ Cardinality(Later) = Occurrences(Tail(q), s)
    BY <1>1, <1>2, OccurrencesAreFinite, FS_Bijection DEF Occurrences
  <1>4. Occurrences(Tail(q), s) \in Nat
    BY <1>1, OccurrencesAreFinite
  <1>5. CASE Head(q) = s
    <2>1. At(q, s) = Later \cup {1} /\ 1 \notin Later
      BY <1>1, <1>5 DEF At
    <2> QED
      BY <1>3, <1>5, <2>1, FS_AddElement DEF Occurrences
  <1>6. CASE Head(q) # s
    <2>1. At(q, s) = Later
      BY <1>1, <1>6 DEF At
    <2> QED
      BY <1>3, <1>4, <1>6, <2>1 DEF Occurrences
  <1> QED
    BY <1>5, <1>6

\* The providers that hold the envelope of a signature.
Holders(s) == {p \in Providers : envelope[p] = <<s>>}
Refused(s) == IF s \in dropped THEN 1 ELSE 0

LEMMA PlacesSplit ==
  ASSUME NEW s
  PROVE  /\ Places(s) = Cardinality(Holders(s)) + Occurrences(queue, s) + Occurrences(consumed, s)
                          + Refused(s)
         /\ IsFiniteSet(Holders(s)) /\ Cardinality(Holders(s)) \in Nat
         /\ TypeOK => Occurrences(queue, s) \in Nat /\ Occurrences(consumed, s) \in Nat
         /\ Refused(s) \in 0..1
  <1>1. Holders(s) \subseteq Providers
    BY DEF Holders
  <1>2. IsFiniteSet(Holders(s)) /\ Cardinality(Holders(s)) \in Nat
    BY <1>1, RaceAssumption, FS_Subset, FS_CardinalityType
  <1>3. TypeOK => Occurrences(queue, s) \in Nat /\ Occurrences(consumed, s) \in Nat
    BY OccurrencesAreFinite DEF TypeOK
  <1> QED
    BY <1>2, <1>3 DEF Places, Holders, Occurrences, At, Refused

\* The same of the state after a step.
LEMMA PlacesSplitNext ==
  ASSUME NEW s
  PROVE  Places(s)' = Cardinality(Holders(s)') + Occurrences(queue', s) + Occurrences(consumed', s)
                        + Refused(s)'
  BY DEF Places, Holders, Occurrences, At, Refused

\* An envelope is built when its transaction becomes complete, and every later
\* step moves it from one place to one other.
LEMMA EnvelopesStep ==
  ASSUME RaceInv, EnvelopesAreConserved, [Next]_vars
  PROVE  EnvelopesAreConserved'
  <1>1. TypeOK /\ ReportsAreKept /\ HeldOnTheWay
    BY DEF RaceInv
  <1>2. \A s \in Signatures : Places(s) = IF s \in EverySeen THEN 1 ELSE 0
    BY DEF EnvelopesAreConserved
  <1>3. ASSUME UNCHANGED <<envelope, queue, consumed, dropped, EverySeen>>
        PROVE  EnvelopesAreConserved'
    BY <1>2, <1>3 DEF EnvelopesAreConserved, Places
  <1>4. ASSUME NEW p \in Providers,
               \/ Subscribe(p) \/ SubscribeFails(p) \/ ConnectFails(p) \/ LogFails(p) \/ Count(p)
               \/ ClaimShutdown(p) \/ Broadcast(p) \/ Stops(p) \/ StreamEnds(p) \/ Tick
               \/ UNCHANGED vars
        PROVE  EnvelopesAreConserved'
    <2>1. UNCHANGED <<envelope, queue, consumed, dropped, observed>>
      BY <1>4 DEF Subscribe, SubscribeFails, ConnectFails, LogFails, Count, ClaimShutdown, Broadcast,
                  BroadcastTo, Stops, StreamEnds, Tick, vars, taskVars, sharedVars, outerVars
    <2> QED
      BY <1>3, <2>1 DEF EverySeen
  <1>5. ASSUME NEW p \in Providers, NEW s \in Signatures, NEW rest \in UpToOne, Sight(p, s, rest)
        PROVE  EnvelopesAreConserved'
    <2>1. /\ envelope[p] = <<>> /\ envelope \in [Providers -> UpToOne]
          /\ UNCHANGED <<queue, consumed, dropped>>
      BY <1>1, <1>5, SightFacts DEF HeldOnTheWay, TypeOK
    <2> DEFINE Last == DOMAIN observed[s] \cup {p} = Providers
    <2>2. ASSUME Again(p, s) \/ (First(p, s) /\ ~Last)
          PROVE  EnvelopesAreConserved'
      <3>1. envelope' = envelope
        BY <2>1, <2>2 DEF Again, First
      <3>2. EverySeen' = EverySeen
        BY <1>1, <2>2, FirstCompletes DEF Again, EverySeen
      <3> QED
        BY <1>3, <2>1, <3>1, <3>2
    <2>3. ASSUME First(p, s), Last
          PROVE  EnvelopesAreConserved'
      <3>1. /\ s \notin EverySeen /\ EverySeen' = EverySeen \cup {s}
            /\ envelope' = [envelope EXCEPT ![p] = <<s>>]
        BY <1>1, <2>3, FirstCompletes DEF First
      <3>2. ASSUME NEW t \in Signatures, t # s PROVE Holders(t)' = Holders(t)
        BY <2>1, <3>1, <3>2 DEF Holders
      <3>3. Holders(s)' = Holders(s) \cup {p} /\ p \notin Holders(s)
        BY <2>1, <3>1 DEF Holders
      <3>4. Cardinality(Holders(s)') = Cardinality(Holders(s)) + 1
        BY <3>3, PlacesSplit, FS_AddElement
      <3>5. \A t : Refused(t)' = Refused(t)
        BY <2>1 DEF Refused
      <3>6. ASSUME NEW t \in Signatures, t # s PROVE Places(t)' = Places(t)
        BY <2>1, <3>2, <3>5, <3>6, PlacesSplit, PlacesSplitNext
      <3>7. Places(s)' = Places(s) + 1
        BY <1>1, <2>1, <3>4, <3>5, PlacesSplit, PlacesSplitNext
      <3> QED
        BY <1>2, <3>1, <3>6, <3>7 DEF EnvelopesAreConserved
    <2>4. Again(p, s) \/ First(p, s)
      BY <1>1, <1>5, SightFacts
    <2> HIDE DEF Last
    <2> QED
      BY <2>2, <2>3, <2>4
  <1>6. ASSUME NEW p \in Providers, Enqueue(p) PROVE EnvelopesAreConserved'
    <2>1. PICK s \in Signatures :
            /\ envelope[p] = <<s>>
            /\ IF HasRoom THEN queue' = Append(queue, s) /\ dropped' = dropped
                          ELSE queue' = queue /\ dropped' = dropped \cup {s}
      BY <1>1, <1>6, TypeEnqueue
    <2>2. /\ envelope' = [envelope EXCEPT ![p] = <<>>] /\ envelope \in [Providers -> UpToOne]
          /\ UNCHANGED <<consumed, observed>>
      BY <1>1, <1>6 DEF Enqueue, outerVars, TypeOK
    <2>3. EverySeen' = EverySeen
      BY <2>2 DEF EverySeen
    <2>4. ASSUME NEW t \in Signatures, t # s PROVE Holders(t)' = Holders(t)
      <3>1. /\ \A q \in Providers \ {p} : envelope'[q] = envelope[q]
            /\ envelope'[p] = <<>> /\ envelope[p] = <<s>>
        BY <2>1, <2>2
      <3>2. <<>> # <<t>> /\ <<s>> # <<t>>
        BY <2>4
      <3> QED
        BY <3>1, <3>2 DEF Holders
    <2>5. Holders(s)' = Holders(s) \ {p} /\ p \in Holders(s)
      BY <2>1, <2>2 DEF Holders
    <2>6. /\ Cardinality(Holders(s)') = Cardinality(Holders(s)) - 1
          /\ Cardinality(Holders(s)) > 0
      BY <2>5, PlacesSplit, FS_RemoveElement, FS_EmptySet
    <2>7. s \notin dropped
      <3>1. Places(s) <= 1
        BY <1>2
      <3> QED
        BY <1>1, <2>6, <3>1, PlacesSplit DEF Refused
    <2>8. ASSUME NEW t \in Signatures
          PROVE  Occurrences(queue', t) + Refused(t)'
                   = Occurrences(queue, t) + Refused(t) + (IF t = s THEN 1 ELSE 0)
      <3>1. queue \in Seq(Signatures) /\ Occurrences(queue, t) \in Nat
        BY <1>1, PlacesSplit DEF TypeOK
      <3>2. CASE HasRoom
        <4>1. queue' = Append(queue, s) /\ dropped' = dropped
          BY <2>1, <3>2
        <4>2. Occurrences(Append(queue, s), t) = Occurrences(queue, t) + (IF s = t THEN 1 ELSE 0)
          BY <3>1, OccurrencesAppend
        <4>3. Occurrences(queue', t) = Occurrences(queue, t) + (IF t = s THEN 1 ELSE 0)
          BY <4>1, <4>2
        <4>4. Refused(t)' = Refused(t) /\ Refused(t) \in 0..1
          BY <4>1, PlacesSplit DEF Refused
        <4> QED
          BY <3>1, <4>3, <4>4
      <3>3. CASE ~HasRoom
        BY <2>1, <2>7, <3>1, <3>3 DEF Refused
      <3> QED
        BY <3>2, <3>3
    <2>9. ASSUME NEW t \in Signatures PROVE Places(t)' = Places(t)
      <3>1. /\ Occurrences(queue, t) \in Nat /\ Occurrences(consumed, t) \in Nat
            /\ Cardinality(Holders(t)) \in Nat /\ Refused(t) \in 0..1
        BY <1>1, PlacesSplit
      <3>2. queue' \in Seq(Signatures)
        BY <1>1, <1>6, TypeEnqueue DEF TypeRest
      <3>3. Occurrences(queue', t) \in Nat /\ Refused(t)' \in 0..1
        BY <3>2, OccurrencesAreFinite DEF Refused
      <3>4. /\ Places(t) = Cardinality(Holders(t)) + Occurrences(queue, t)
                             + Occurrences(consumed, t) + Refused(t)
            /\ Places(t)' = Cardinality(Holders(t)') + Occurrences(queue', t)
                              + Occurrences(consumed, t) + Refused(t)'
        BY <2>2, PlacesSplit, PlacesSplitNext
      <3>5. CASE t = s
        <4>1. Cardinality(Holders(t)') = Cardinality(Holders(t)) - 1
          BY <2>6, <3>5
        <4>2. Occurrences(queue', t) + Refused(t)' = Occurrences(queue, t) + Refused(t) + 1
          BY <2>8, <3>5
        <4> QED
          BY <3>1, <3>3, <3>4, <4>1, <4>2
      <3>6. CASE t # s
        <4>1. Cardinality(Holders(t)') = Cardinality(Holders(t))
          BY <2>4, <3>6
        <4>2. Occurrences(queue', t) + Refused(t)' = Occurrences(queue, t) + Refused(t)
          BY <2>8, <3>1, <3>6
        <4> QED
          BY <3>1, <3>3, <3>4, <4>1, <4>2
      <3> QED
        BY <3>5, <3>6
    <2> QED
      BY <1>2, <2>3, <2>9 DEF EnvelopesAreConserved
  <1>7. CASE Consume
    <2>1. /\ queue \in Seq(Signatures) /\ consumed \in Seq(Signatures) /\ queue # <<>>
          /\ queue' = Tail(queue) /\ consumed' = Append(consumed, Head(queue))
          /\ UNCHANGED <<envelope, observed, dropped>>
      BY <1>1, <1>7 DEF Consume, TypeOK, taskVars
    <2>2. Head(queue) \in Signatures /\ Tail(queue) \in Seq(Signatures)
      BY <2>1, HeadTailProperties
    <2>3. ASSUME NEW s \in Signatures
          PROVE  Occurrences(queue', s) + Occurrences(consumed', s)
                   = Occurrences(queue, s) + Occurrences(consumed, s)
      <3>1. /\ Occurrences(queue, s) = Occurrences(queue', s) + (IF Head(queue) = s THEN 1 ELSE 0)
            /\ Occurrences(consumed', s)
                 = Occurrences(consumed, s) + (IF Head(queue) = s THEN 1 ELSE 0)
        BY <2>1, <2>2, OccurrencesTail, OccurrencesAppend
      <3>2. Occurrences(queue', s) \in Nat /\ Occurrences(consumed, s) \in Nat
        BY <2>1, <2>2, OccurrencesAreFinite
      <3> QED
        BY <3>1, <3>2
    <2>4. \A s : Holders(s)' = Holders(s) /\ Refused(s)' = Refused(s)
      BY <2>1 DEF Holders, Refused
    <2>5. ASSUME NEW s \in Signatures PROVE Places(s)' = Places(s)
      <3>1. /\ Occurrences(queue, s) \in Nat /\ Occurrences(consumed, s) \in Nat
            /\ Cardinality(Holders(s)) \in Nat /\ Refused(s) \in 0..1
        BY <1>1, PlacesSplit
      <3>2. queue' \in Seq(Signatures) /\ consumed' \in Seq(Signatures)
        BY <2>1, <2>2, AppendProperties
      <3>3. Occurrences(queue', s) \in Nat /\ Occurrences(consumed', s) \in Nat
        BY <3>2, OccurrencesAreFinite
      <3>4. /\ Places(s) = Cardinality(Holders(s)) + Occurrences(queue, s)
                             + Occurrences(consumed, s) + Refused(s)
            /\ Places(s)' = Cardinality(Holders(s)) + Occurrences(queue', s)
                              + Occurrences(consumed', s) + Refused(s)
        BY <2>4, PlacesSplit, PlacesSplitNext
      <3> QED
        BY <2>3, <3>1, <3>3, <3>4
    <2> QED
      BY <1>2, <2>1, <2>5 DEF EnvelopesAreConserved, EverySeen
  <1> QED
    BY <1>1, <1>4, <1>5, <1>6, <1>7, StepCases, RaceAssumption
-----------------------------------------------------------------------------
(***************************************************************************)
(* The theorems.                                                           *)
(***************************************************************************)

\* Everything the proofs carry along: the exact counter and the envelopes are
\* part of why there is one broadcast.
FullInv == RaceInv /\ CounterIsExact /\ EnvelopesAreConserved

\* Before the race nobody has seen or built anything.
LEMMA RaceInit == Init => FullInv
  <1> SUFFICES ASSUME Init
               PROVE  FullInv
    OBVIOUS
  <1> USE DEF Init
  <1>1. /\ DOMAIN EmptyMap = {} /\ \A Keys : EmptyMap \in MapsFrom(Keys)
    <2>1. \A Keys : {} \in SUBSET Keys
      OBVIOUS
    <2>2. EmptyMap \in [{} -> Times] /\ DOMAIN EmptyMap = {}
      BY DEF EmptyMap
    <2> QED
      BY <2>1, <2>2 DEF MapsFrom
  <1>2. EverySeen = {} /\ Built = {} /\ {p \in Providers : pc[p] = "broadcast"} = {}
    BY <1>1, RaceAssumption DEF EverySeen, Built
  <1>3. /\ Cardinality({}) = 0
        /\ Cardinality(EverySeen) = 0 /\ Cardinality(Built) = 0
        /\ Cardinality({p \in Providers : pc[p] = "broadcast"}) = 0
    BY <1>2, FS_EmptySet
  <1>4. TypeOK
    <2>1. /\ <<>> \in UpToOne /\ <<>> \in Seq(Signatures) /\ Len(<<>>) = 0
          /\ 0 \in Times
      BY RaceAssumption DEF UpToOne, Times
    <2>2. 0 \in 0..Cardinality(Signatures) /\ QueueCapacity >= 0
      BY RaceAssumption, FS_CardinalityType
    <2> QED
      BY <1>1, <2>1, <2>2 DEF TypeOK
  <1>5. OneBroadcast
    <2>1. broadcasts = 0 /\ ~shared_shutdown /\ ~\E p \in Providers : pc[p] = "target"
      OBVIOUS
    <2> HIDE DEF Init
    <2> QED
      BY <1>3, <2>1 DEF OneBroadcast
  <1>6. ReportsAreKept
    BY <1>1 DEF ReportsAreKept
  <1>7. HeldOnTheWay
    BY <1>1 DEF HeldOnTheWay
  <1>8. CounterIsExact
    <2>1. shared_counter = 0
      OBVIOUS
    <2> HIDE DEF Init
    <2> QED
      BY <1>3, <2>1 DEF CounterIsExact, Built
  <1>9. EnvelopesAreConserved
    <2>1. ASSUME NEW s \in Signatures
          PROVE  Places(s) = 0
      <3>1. {p \in Providers : envelope[p] = <<s>>} = {}
        OBVIOUS
      <3>2. At(queue, s) = {} /\ At(consumed, s) = {}
        BY DEF At
      <3>3. s \notin dropped
        OBVIOUS
      <3> HIDE DEF Init
      <3>4. /\ Cardinality({p \in Providers : envelope[p] = <<s>>}) = 0
            /\ Cardinality({i \in 1..Len(queue) : queue[i] = s}) = 0
            /\ Cardinality({i \in 1..Len(consumed) : consumed[i] = s}) = 0
        BY <1>3, <3>1, <3>2 DEF At
      <3> QED
        BY <3>3, <3>4 DEF Places
    <2> QED
      BY <1>2, <2>1 DEF EnvelopesAreConserved
  <1>10. TargetIsAnnounced
    <2>1. broadcasts = 0 /\ shared_counter = 0 /\ Target \in Nat \ {0}
      BY RaceAssumption
    <2> HIDE DEF Init
    <2> QED
      BY <2>1 DEF TargetIsAnnounced
  <1> QED
    BY <1>4, <1>5, <1>6, <1>7, <1>8, <1>9, <1>10 DEF FullInv, RaceInv

LEMMA RaceStep == FullInv /\ [Next]_vars => FullInv'
  <1> SUFFICES ASSUME RaceInv, CounterIsExact, EnvelopesAreConserved, [Next]_vars
               PROVE  FullInv'
    BY DEF FullInv
  <1>1. CounterIsExact' /\ shared_counter' \in 0..Cardinality(Signatures)
    BY CounterStep
  <1>2. TypeOK'
    BY <1>1, TypeStep DEF TypeOK, TypeRest, TaskStates
  <1> QED
    BY <1>1, <1>2, BroadcastStep, TargetStep, ReportsStep, HeldStep, EnvelopesStep DEF FullInv, RaceInv

LEMMA RaceIsSafe == Spec => []FullInv
  BY RaceInit, RaceStep, PTL DEF Spec

\* The types; at most one shutdown broadcast, by the one task that claimed it
\* and once the target is reached; and each provider keeps exactly what it
\* told the Comparator, whatever the interleaving of the tasks.
THEOREM RaceInvariant == Spec => []RaceInv
  <1>1. FullInv => RaceInv
    BY DEF FullInv
  <1> QED
    BY <1>1, RaceIsSafe, PTL

\* shared_counter counts every transaction that all providers have seen once,
\* as soon as the provider that completed it adds it.
THEOREM CounterCountsExactly == Spec => []CounterIsExact
  <1>1. FullInv => CounterIsExact
    BY DEF FullInv
  <1> QED
    BY <1>1, RaceIsSafe, PTL

\* One envelope for each transaction that all providers have seen, in one place:
\* none is lost but to a full queue, and none is published twice.
THEOREM EnvelopesConserved == Spec => []EnvelopesAreConserved
  <1>1. FullInv => EnvelopesAreConserved
    BY DEF FullInv
  <1> QED
    BY <1>1, RaceIsSafe, PTL

\* The batch a stopped provider hands to add_batch is what record_observation
\* had from it, stamp by stamp.
THEOREM BatchesMatchReports == Spec => []BatchesAgreeWithReports
  <1>1. FullInv => BatchesAgreeWithReports
    <2> SUFFICES ASSUME RaceInv, NEW p \in DOMAIN collected
                 PROVE  collected[p] = [s \in {r \in Signatures : p \in DOMAIN observed[r]} |->
                                          observed[s][p]]
      BY DEF FullInv, BatchesAgreeWithReports
    <2>1. p \in Providers /\ accumulator[p] \in MapsFrom(Signatures)
      BY DEF RaceInv, TypeOK
    <2>2. collected[p] = accumulator[p]
      BY DEF RaceInv, HeldOnTheWay
    <2>3. PICK K \in SUBSET Signatures : accumulator[p] \in [K -> Times]
      BY <2>1 DEF MapsFrom
    <2>4. K = {r \in Signatures : p \in DOMAIN observed[r]}
      BY <2>1, <2>3 DEF RaceInv, ReportsAreKept
    <2>5. \A s \in K : accumulator[p][s] = observed[s][p]
      BY <2>1, <2>3 DEF RaceInv, ReportsAreKept
    <2> QED
      BY <2>2, <2>3, <2>4, <2>5
  <1> QED
    BY <1>1, RaceIsSafe, PTL
\* When the target is complete and counted and no shutdown is on its way, every
\* provider has ended or has the shutdown to read, however their completions
\* met.
THEOREM TheTargetStopsTheRace == Spec => []CompleteMeansStopping
  <1>1. FullInv => CompleteMeansStopping
    <2> SUFFICES ASSUME FullInv, Cardinality(EverySeen) >= Target,
                        \A p \in Providers : pc[p] \notin {"built", "target", "broadcast"}
                 PROVE  \A p \in Providers : Ended(p) \/ p \in signal
      BY DEF CompleteMeansStopping
    <2>1. Built = {} /\ Claimers = {}
      BY DEF Built, Claimers
    <2>2. Cardinality(Built) = 0 /\ Cardinality(Claimers) = 0
      BY <2>1, FS_EmptySet
    <2>3. /\ shared_counter \in Nat /\ Target \in Nat /\ broadcasts \in Nat
          /\ shared_counter + Cardinality(Built) = Cardinality(EverySeen)
          /\ broadcasts + Cardinality(Claimers) = (IF shared_shutdown THEN 1 ELSE 0)
          /\ TargetIsAnnounced
      BY CountsAreFinite, RaceAssumption
      DEF FullInv, RaceInv, TypeOK, CounterIsExact, OneBroadcast, Built, Claimers
    <2>4. shared_counter >= Target
      BY <2>2, <2>3
    <2>5. shared_shutdown
      BY <2>3, <2>4 DEF TargetIsAnnounced
    <2>6. broadcasts > 0
      BY <2>2, <2>3, <2>5
    <2> QED
      BY <2>3, <2>6 DEF TargetIsAnnounced
  <1> QED
    BY <1>1, RaceIsSafe, PTL
=============================================================================
