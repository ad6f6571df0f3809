-------------------------- MODULE LandingBenchProofs --------------------------
(***************************************************************************)
(* Proofs about a whole run of LandingBench, for any endpoints, number of  *)
(* rounds, capacity of the memo channel, faults, forks and lag of the RPC: *)
(* that it uses the book as LandingBook assumes, so that all that          *)
(* LandingBookProofs proves of the book holds of a run, and what the tasks *)
(* achieve together.                                                       *)
(***************************************************************************)
EXTENDS LandingBench, FiniteSetTheorems, SequenceTheorems, TLAPS

BookProofs == INSTANCE LandingBookProofs WITH
  Names       <- {NameOf[e] : e \in Endpoints},
  ProviderOf  <- [s \in Signatures |-> NameOf[s[1]]],
  Rounds      <- Nonces,
  Times       <- 0..MaxTime,
  MaxAttempts <- Transactions

(***************************************************************************)
(* The book of a run.                                                      *)
(***************************************************************************)

\* What LandingBook assumes of its parameters is so.
LEMMA BookIsWellFormed == BookProofs!BookAssumption
  <1>1. IsFiniteSet(Signatures)
    <2>1. IsFiniteSet(1..Transactions)
      BY FS_Interval, BenchAssumption
    <2> QED
      BY <2>1, BenchAssumption, FS_Product DEF Signatures
  <1>2. [s \in Signatures |-> NameOf[s[1]]] \in [Signatures -> {NameOf[e] : e \in Endpoints}]
    <2>1. \A s \in Signatures : s[1] \in Endpoints
      BY DEF Signatures
    <2> QED
      BY <2>1
  <1>3. 0..MaxTime \subseteq Nat /\ Transactions \in Nat
    BY BenchAssumption
  <1> QED
    BY <1>1, <1>2, <1>3 DEF BookProofs!BookAssumption, BookProofs!IsFiniteSet, IsFiniteSet

\* The book of the proofs is the book of the run.
LEMMA SameInvariant == BookProofs!BookInv <=> Book!BookInv
  BY DEF Book!BookInv, BookProofs!BookInv, Book!TypeOK, BookProofs!TypeOK,
         Book!PendingIsRegistered, BookProofs!PendingIsRegistered, Book!PendingKeepsItsTag,
         BookProofs!PendingKeepsItsTag, Book!SubscribedToOwnRound,
         BookProofs!SubscribedToOwnRound, Book!StartsAreCounted,
         BookProofs!StartsAreCounted, Book!EachLandedRoundWasWon,
         BookProofs!EachLandedRoundWasWon, Book!MetricsAreOfSenders,
         BookProofs!MetricsAreOfSenders, Book!WinsAreDistinctLandings,
         BookProofs!WinsAreDistinctLandings, Book!NoLostWakeup, BookProofs!NoLostWakeup,
         Book!NoSpuriousWakeup, BookProofs!NoSpuriousWakeup, Book!SendRecord,
         BookProofs!SendRecord, Book!ProviderMetrics, BookProofs!ProviderMetrics,
         Book!Started, BookProofs!Started, Book!Registered, BookProofs!Registered,
         Book!Wins, BookProofs!Wins, Book!Samples, BookProofs!Samples, Book!Receivers,
         BookProofs!Receivers, Book!IsFiniteSet, BookProofs!IsFiniteSet, Book!Cardinality,
         BookProofs!Cardinality

LEMMA SameSteps ==
  /\ BookProofs!Init <=> Book!Init
  /\ [BookProofs!Next]_(BookProofs!bookVars) <=> [Book!Next]_(Book!bookVars)
  BY DEF Book!Init, BookProofs!Init, Book!EmptyMap, BookProofs!EmptyMap, Book!Next,
         BookProofs!Next, Book!bookVars, BookProofs!bookVars, Book!BeginRound,
         BookProofs!BeginRound, Book!Register, BookProofs!Register, Book!Observe,
         BookProofs!Observe, Book!StartRound, BookProofs!StartRound, Book!RecordSend,
         BookProofs!RecordSend, Book!RecordLanding, BookProofs!RecordLanding,
         Book!IgnoreLanding, BookProofs!IgnoreLanding, Book!ForfeitLanding,
         BookProofs!ForfeitLanding, Book!CreditLanding, BookProofs!CreditLanding,
         Book!WithNotifier, BookProofs!WithNotifier, Book!OrInsert, BookProofs!OrInsert,
         Book!Insert, BookProofs!Insert, Book!Registered, BookProofs!Registered,
         Book!Started, BookProofs!Started, Book!Observation, BookProofs!Observation,
         Book!Payload, BookProofs!Payload, Book!Tagged, BookProofs!Tagged,
         Book!ObservedProvider, BookProofs!ObservedProvider, Book!SentWithout,
         BookProofs!SentWithout, Book!Remove, BookProofs!Remove, Book!Restrict,
         BookProofs!Restrict, Book!WithMetrics, BookProofs!WithMetrics, Book!NoMetrics,
         BookProofs!NoMetrics, Book!Credited, BookProofs!Credited, Book!Latency,
         BookProofs!Latency, Book!Receivers, BookProofs!Receivers

\* So its invariant holds initially and is kept.
LEMMA BookInit == Book!Init => Book!BookInv
  BY BookIsWellFormed, BookProofs!BookInit, SameInvariant, SameSteps

LEMMA BookStep == Book!BookInv /\ [Book!Next]_(Book!bookVars) => Book!BookInv'
  <1>1. BookProofs!BookInv' <=> Book!BookInv'
    BY SameInvariant, PTL
  <1> QED
    BY <1>1, BookIsWellFormed, BookProofs!BookStep, SameInvariant, SameSteps
-----------------------------------------------------------------------------
(***************************************************************************)
(* What each actor leaves alone.                                           *)
(***************************************************************************)

\* Where a future is, or how it ended.
TaskStates == Outcomes \cup {"none", "spawned", "sending", "sent", "waiting"}

LEMMA StepCases ==
  ASSUME [Next]_vars
  PROVE  \/ ListenerStep \/ MemoStep \/ MainStep \/ CtrlCStep \/ Reorg \/ Tick
         \/ \E e \in Endpoints : EndpointStep(e)
         \/ \E s \in Signatures : Land(s)
         \/ UNCHANGED vars
  BY DEF Next, Outside, Exited

\* The listener, the Ctrl-C task and the chain touch neither book nor tasks.
LEMMA ListenerFrame ==
  ListenerStep => UNCHANGED <<bookVars, main, nonces, taskVars, stopVars, chainVars>>
  BY DEF ListenerStep, Subscribed, SilentFirstMessage, StreamFails, ListenerStops, ListenerReturns,
         ObserveMemo, HandOver, bookVars, taskVars, stopVars, chainVars

LEMMA CtrlCFrame ==
  CtrlCStep =>
    UNCHANGED <<bookVars, main, nonces, taskVars, gRPCVars, memo, chainVars, stream>>
  BY DEF CtrlCStep, CtrlCFlag, CtrlCBroadcast, bookVars, taskVars, gRPCVars, chainVars

LEMMA OutsideFrame ==
  ASSUME NEW s, Land(s) \/ Reorg \/ Tick
  PROVE  UNCHANGED <<bookVars, main, nonces, taskVars, gRPCVars, memo, stopVars, submitted>>
  BY DEF Land, Reorg, Tick, bookVars, taskVars, gRPCVars, stopVars

LEMMA MemoFrame ==
  MemoStep => UNCHANGED <<main, nonces, taskVars, gRPCVars, stopVars, chainVars, stream,
                          rounds_attempted>>
  BY DEF MemoStep, taskVars, gRPCVars, stopVars, chainVars, Book!RecordLanding, Book!IgnoreLanding,
         Book!ForfeitLanding, Book!CreditLanding, Book!bookVars

\* A future touches its own state only, while main waits for it.
LEMMA EndpointFrame ==
  ASSUME NEW e \in Endpoints, EndpointStep(e)
  PROVE  /\ UNCHANGED <<main, nonces, gRPCVars, memo, ctrl_c, chain, minted, landed, stream, now,
                        rounds_attempted, landed_rounds, acked, notified>>
         /\ task[e] \in {"spawned", "sending", "sent", "waiting"}
         /\ NetworkAccepts(e) \/ UNCHANGED submitted
         /\ BeginSend(e) \/ UNCHANGED sent_at
         /\ RecordSent(e) \/ UNCHANGED bookVars
  BY DEF EndpointStep, Skip, BuildFails, BeginSend, NetworkAccepts, SendOk, SendErr, RecordSent,
         SelfLanded, OtherLanded, TimedOut, Move, ReadsSignal, TaskOnly, gRPCVars, bookVars,
         chainVars, taskVars, stopVars, Book!RecordSend

\* main touches the book and the tasks only as it begins a round.
LEMMA MainFrame ==
  MainStep => /\ UNCHANGED <<memo, ctrl_c, chainVars, stream, sent_at>>
              /\ FetchNonce \/ UNCHANGED <<bookVars, nonces, task>>
  BY DEF MainStep, AwaitReady, NotReady, SetUp, SetUpFails, LoopEnds, StopRequested, NextRound,
         FetchNonce, FetchTimeout, FetchError, RoundDone, GraceOver, Close, JoinListener,
         AbortListener, Report, Goto, MainOnly, bookVars, taskVars, gRPCVars, stopVars, chainVars

\* The round that main begins.
LEMMA FetchFacts ==
  ASSUME TypeOK, FetchNonce
  PROVE  \E v \in Nonces :
           /\ v \in RpcView /\ NotPrevious(v)
           /\ nonces' = Append(nonces, v) /\ nonces' \in Seq(Nonces)
           /\ Round \in Nat /\ Round' = Round + 1
           /\ nonces'[Round + 1] = v
           /\ \A k \in 1..Round : nonces'[k] = nonces[k]
           /\ Book!StartRound(v)
           /\ main = "fetch" /\ main' = "collect"
           /\ task' = [e \in Endpoints |-> "spawned"]
           /\ UNCHANGED <<sent_at, gRPCVars, memo, stopVars, chainVars, stream>>
  <1>1. PICK v \in RpcView : /\ NotPrevious(v)
                             /\ nonces' = Append(nonces, v)
                             /\ Book!StartRound(v)
    BY DEF FetchNonce, StartOfRound
  <1>2. v \in Nonces
    BY DEF RpcView, TypeOK
  <1>3. nonces \in Seq(Nonces)
    BY DEF TypeOK
  <1>4. /\ nonces' \in Seq(Nonces) /\ Round \in Nat /\ Round' = Round + 1
        /\ nonces'[Round + 1] = v /\ \A k \in 1..Round : nonces'[k] = nonces[k]
    BY <1>1, <1>2, <1>3, AppendProperties, LenProperties DEF Round
  <1> QED
    BY <1>1, <1>2, <1>4 DEF FetchNonce
-----------------------------------------------------------------------------
(***************************************************************************)
(* Rounds and tasks.                                                       *)
(***************************************************************************)
LEMMA RoundsStep ==
  ASSUME TypeOK, RoundsAreInStep, [Next]_vars
  PROVE  RoundsAreInStep'
  <1> USE DEF RoundsAreInStep
  <1>1. ASSUME UNCHANGED <<rounds_attempted, main, nonces, task>>
        PROVE  RoundsAreInStep'
    BY <1>1 DEF Round, Idle
  <1>2. CASE ListenerStep \/ CtrlCStep \/ MemoStep \/ UNCHANGED vars
    BY <1>1, <1>2, ListenerFrame, CtrlCFrame, MemoFrame DEF vars, bookVars, taskVars
  <1>3. ASSUME NEW s, Land(s) \/ Reorg \/ Tick PROVE RoundsAreInStep'
    BY <1>1, <1>3, OutsideFrame DEF bookVars, taskVars
  <1>4. ASSUME NEW e \in Endpoints, EndpointStep(e) PROVE RoundsAreInStep'
    <2>1. main = "collect"
      BY <1>4, EndpointFrame DEF Idle, Outcomes
    <2> QED
      BY <1>4, <2>1, EndpointFrame DEF Round
  <1>5. CASE FetchNonce
    <2>1. PICK v \in Nonces : /\ Round \in Nat /\ Round' = Round + 1 /\ Book!StartRound(v)
                              /\ main' = "collect"
      BY <1>5, FetchFacts
    <2> QED
      BY <2>1 DEF Book!StartRound
  <1>6. CASE MainStep /\ ~FetchNonce
    <2>1. UNCHANGED <<rounds_attempted, nonces, task>>
      BY <1>6, MainFrame DEF bookVars
    <2>2. main' = "fetch" => Round < Transactions
      BY <1>6 DEF MainStep, AwaitReady, NotReady, SetUp, SetUpFails, LoopEnds, StopRequested,
                  NextRound, FetchTimeout, FetchError, RoundDone, GraceOver, Close, JoinListener,
                  AbortListener, Report, Goto
    <2>3. main' # "collect" /\ \A e \in Endpoints : Idle(e)
      BY <1>6 DEF MainStep, AwaitReady, NotReady, SetUp, SetUpFails, LoopEnds, StopRequested,
                  NextRound, FetchTimeout, FetchError, RoundDone, GraceOver, Close, JoinListener,
                  AbortListener, Report, Goto
    <2> QED
      BY <2>1, <2>2, <2>3 DEF Round, Idle
  <1> QED
    BY <1>2, <1>3, <1>4, <1>5, <1>6, StepCases

\* A transaction is submitted, and registered, in the round it was built for.
LEMMA TransactionsStep ==
  ASSUME TypeOK, RoundsAreInStep, TransactionsAreOfTheirRound, Book!BookInv, [Next]_vars
  PROVE  TransactionsAreOfTheirRound'
  <1> USE DEF TransactionsAreOfTheirRound
  <1>1. ASSUME UNCHANGED <<task, nonces, submitted>>, Book!Registered' \subseteq Book!Registered
        PROVE  TransactionsAreOfTheirRound'
    BY <1>1 DEF Round, Mine
  <1>2. UNCHANGED bookVars => Book!Registered' \subseteq Book!Registered
    BY DEF bookVars, Book!Registered
  <1>3. CASE ListenerStep \/ CtrlCStep \/ UNCHANGED vars
    BY <1>1, <1>2, <1>3, ListenerFrame, CtrlCFrame DEF vars, taskVars, chainVars
  <1>4. ASSUME NEW s, Land(s) \/ Reorg \/ Tick PROVE TransactionsAreOfTheirRound'
    BY <1>1, <1>2, <1>4, OutsideFrame DEF taskVars
  <1>5. CASE MemoStep
    <2>1. Book!Registered' \subseteq Book!Registered
      BY <1>5 DEF MemoStep, Book!RecordLanding, Book!IgnoreLanding, Book!ForfeitLanding,
                  Book!CreditLanding, Book!bookVars, Book!Registered
    <2> QED
      BY <1>1, <1>5, <2>1, MemoFrame DEF taskVars, chainVars
  <1>6. CASE FetchNonce
    <2>1. PICK v \in Nonces : /\ Round \in Nat /\ Round' = Round + 1 /\ Book!StartRound(v)
                              /\ task' = [e \in Endpoints |-> "spawned"]
                              /\ UNCHANGED chainVars
      BY <1>6, FetchFacts
    <2>2. Book!Registered' = Book!Registered /\ submitted' = submitted
      BY <2>1 DEF Book!StartRound, Book!Registered, chainVars
    <2>3. \A s \in submitted : s \in Signatures /\ s[2] \in Nat
      BY DEF TypeOK, Signatures
    <2>4. \A s \in submitted : s[2] <= Round' /\ s[2] # Round'
      BY <2>1, <2>3
    <2> QED
      BY <2>1, <2>2, <2>4
  <1>7. CASE MainStep /\ ~FetchNonce
    BY <1>1, <1>2, <1>7, MainFrame DEF chainVars
  <1>8. ASSUME NEW e \in Endpoints, EndpointStep(e) PROVE TransactionsAreOfTheirRound'
    <2>1. nonces' = nonces /\ Round' = Round /\ \A f \in Endpoints : Mine(f)' = Mine(f)
      BY <1>8, EndpointFrame DEF Round, Mine
    <2>2. /\ Mine(e) = <<e, Round>> /\ Mine(e)[1] = e /\ Mine(e)[2] = Round /\ Round \in Nat
          /\ \A f \in Endpoints : f # e => Mine(f) # Mine(e)
      BY LenProperties DEF Mine, Round, TypeOK
    <2>3. \A s \in Signatures : s[2] = Round /\ s[1] = e <=> s = Mine(e)
      BY <2>2 DEF Signatures
    <2>4. /\ submitted \subseteq Signatures /\ Book!Registered \subseteq submitted
          /\ task \in [Endpoints -> TaskStates]
      BY DEF TypeOK, TaskStates
    <2>5. ASSUME NEW to, task' = [task EXCEPT ![e] = to], UNCHANGED submitted,
                 Book!Registered' \subseteq Book!Registered \cup {Mine(e)},
                 Mine(e) \in submitted => to \notin {"none", "spawned", "skipped", "invalid"},
                 to \in {"sent", "waiting"} => Mine(e) \in submitted,
                 Mine(e) \in Book!Registered' =>
                   Mine(e) \in submitted /\ to \in {"waiting", "self", "other", "timeout"}
          PROVE  TransactionsAreOfTheirRound'
      <3>1. task'[e] = to /\ \A f \in Endpoints : f # e => task'[f] = task[f]
        BY <2>4, <2>5
      <3>2. \A s \in Signatures : s[1] \in Endpoints
        BY DEF Signatures
      <3>3. ASSUME NEW s \in submitted', s[2] = Round
            PROVE  task'[s[1]] \notin {"none", "spawned", "skipped", "invalid"}
        BY <2>3, <2>4, <2>5, <3>1, <3>2, <3>3
      <3>4. ASSUME NEW s \in Book!Registered'
            PROVE  /\ s \in submitted'
                   /\ s[2] = Round => task'[s[1]] \in {"waiting", "self", "other", "timeout"}
        BY <2>2, <2>3, <2>4, <2>5, <3>1, <3>2
      <3>5. ASSUME NEW f \in Endpoints, task'[f] \in {"sent", "waiting"}
            PROVE  Mine(f) \in submitted'
        BY <2>5, <3>1, <3>5
      <3> QED
        BY <2>1, <2>5, <3>3, <3>4, <3>5
    <2>6. ~(Mine(e) \in submitted /\ task[e] = "spawned")
      BY <2>2
    <2>7. ASSUME Mine(e) \in Book!Registered
          PROVE  Mine(e) \in submitted /\ task[e] \in {"waiting", "self", "other", "timeout"}
      BY <2>2, <2>7
    <2> DEFINE Moves(from, to) ==
          /\ task[e] = from /\ task' = [task EXCEPT ![e] = to]
          /\ UNCHANGED submitted /\ Book!Registered' = Book!Registered
    <2>8. ASSUME NEW to \in {"skipped", "invalid", "sending"}, Moves("spawned", to)
          PROVE  TransactionsAreOfTheirRound'
      BY <2>5, <2>6, <2>7, <2>8
    <2>9. CASE Skip(e) \/ BuildFails(e) \/ BeginSend(e)
      <3>1. \E to \in {"skipped", "invalid", "sending"} : Moves("spawned", to)
        BY <2>9 DEF Skip, BuildFails, BeginSend, Move, ReadsSignal, chainVars, bookVars,
                    Book!Registered
      <3> QED
        BY <2>8, <3>1
    <2>10. CASE NetworkAccepts(e)
      <3>1. /\ task' = task /\ task[e] = "sending" /\ submitted' = submitted \cup {Mine(e)}
            /\ Book!Registered' = Book!Registered
        BY <2>10 DEF NetworkAccepts, bookVars, taskVars, Book!Registered
      <3> QED
        BY <2>1, <2>2, <2>4, <3>1
    <2>11. CASE SendOk(e)
      <3>1. Moves("sending", "sent") /\ Mine(e) \in submitted
        BY <2>11 DEF SendOk, Move, TaskOnly, chainVars, bookVars, Book!Registered
      <3> QED
        BY <2>5, <2>7, <3>1
    <2>12. CASE SendErr(e)
      <3>1. Moves("sending", "failed")
        BY <2>12 DEF SendErr, Move, TaskOnly, chainVars, bookVars, Book!Registered
      <3> QED
        BY <2>5, <2>7, <3>1
    <2>13. CASE RecordSent(e)
      <3>1. /\ task' = [task EXCEPT ![e] = "waiting"] /\ task[e] = "sent"
            /\ UNCHANGED submitted /\ Book!Registered' = Book!Registered \cup {Mine(e)}
        BY <2>13 DEF RecordSent, Move, chainVars, Book!RecordSend, Book!Registered
      <3> QED
        BY <2>5, <3>1
    <2>14. ASSUME NEW to \in {"self", "other", "timeout"}, Moves("waiting", to)
           PROVE  TransactionsAreOfTheirRound'
      BY <2>5, <2>14
    <2>15. CASE SelfLanded(e) \/ OtherLanded(e) \/ TimedOut(e)
      <3>1. \E to \in {"self", "other", "timeout"} : Moves("waiting", to)
        BY <2>15 DEF SelfLanded, OtherLanded, TimedOut, Move, TaskOnly, chainVars, bookVars,
                     Book!Registered
      <3> QED
        BY <2>14, <3>1
    <2> QED
      BY <1>8, <2>9, <2>10, <2>11, <2>12, <2>13, <2>15 DEF EndpointStep
  <1> QED
    BY <1>3, <1>4, <1>5, <1>6, <1>7, <1>8, StepCases
-----------------------------------------------------------------------------
(***************************************************************************)
(* Shutdown.                                                               *)
(***************************************************************************)
LEMMA StopsStep ==
  ASSUME TypeOK, StopsInOrder, [Next]_vars
  PROVE  StopsInOrder'
  <1> USE DEF StopsInOrder
  <1>1. CASE ListenerStep
    <2>1. UNCHANGED <<ctrl_c, signal, main>>
      BY <1>1, ListenerFrame DEF stopVars
    <2>2. listener' = "stopped" => held' = <<>>
      BY <1>1 DEF ListenerStep, Subscribed, SilentFirstMessage, StreamFails, ListenerStops,
                  ListenerReturns, ObserveMemo, HandOver
    <2>3. /\ main # "done" /\ (listener = "stopped" => listener' = "stopped")
          /\ ready' = "pending" => listener' # "stopped"
      BY <1>1 DEF ListenerStep, Subscribed, SilentFirstMessage, StreamFails, ListenerStops,
                  ListenerReturns, ObserveMemo, HandOver, Alive
    <2> QED
      BY <2>1, <2>2, <2>3
  <1>2. CASE CtrlCStep
    <2>1. ctrl_c' = "sent" => "main" \in signal'
      BY <1>2 DEF CtrlCStep, CtrlCFlag, CtrlCBroadcast, Subscribers
    <2> QED
      BY <1>2, <2>1, CtrlCFrame DEF gRPCVars
  <1>3. CASE MemoStep
    <2>1. main # "done"
      BY <1>3 DEF MemoStep, Alive
    <2> QED
      BY <1>3, <2>1, MemoFrame DEF stopVars, gRPCVars
  <1>4. ASSUME NEW s, Land(s) \/ Reorg \/ Tick PROVE StopsInOrder'
    BY <1>4, OutsideFrame DEF stopVars, gRPCVars
  <1>5. ASSUME NEW e \in Endpoints, EndpointStep(e) PROVE StopsInOrder'
    <2>1. e # "main"
      BY BenchAssumption
    <2>2. signal \ {e} \subseteq signal'
      BY <1>5 DEF EndpointStep, Skip, BuildFails, BeginSend, NetworkAccepts, SendOk, SendErr,
                  RecordSent, SelfLanded, OtherLanded, TimedOut, ReadsSignal, TaskOnly, stopVars
    <2> QED
      BY <1>5, <2>1, <2>2, EndpointFrame DEF gRPCVars
  <1>6. CASE MainStep
    <2>1. CASE Close
      BY <2>1 DEF Close, Subscribers, gRPCVars
    <2>2. CASE AbortListener
      BY <2>2 DEF AbortListener, stopVars
    <2>3. CASE JoinListener
      BY <2>3 DEF JoinListener, Goto, MainOnly, stopVars, gRPCVars
    <2>4. CASE Report
      BY <2>4 DEF Report, Drained, Goto, MainOnly, stopVars, gRPCVars
    <2>5. CASE ~Close /\ ~AbortListener /\ ~JoinListener /\ ~Report
      <3>1. main' \notin {"await_ready", "drain", "done"}
        BY <1>6, <2>5 DEF MainStep, AwaitReady, NotReady, SetUp, SetUpFails, LoopEnds,
                          StopRequested, NextRound, FetchNonce, FetchTimeout, FetchError,
                          RoundDone, GraceOver, Goto
      <3>2. UNCHANGED <<stopVars, gRPCVars>>
        BY <1>6, <2>5 DEF MainStep, AwaitReady, NotReady, SetUp, SetUpFails, LoopEnds,
                          StopRequested, NextRound, FetchNonce, FetchTimeout, FetchError,
                          RoundDone, GraceOver, Goto, MainOnly
      <3> QED
        BY <3>1, <3>2 DEF stopVars, gRPCVars
    <2> QED
      BY <2>1, <2>2, <2>3, <2>4, <2>5
  <1>7. CASE UNCHANGED vars
    BY <1>7 DEF vars, stopVars, gRPCVars
  <1> QED
    BY <1>1, <1>2, <1>3, <1>4, <1>5, <1>6, <1>7, StepCases
-----------------------------------------------------------------------------
(***************************************************************************)
(* Observations on their way, and the stamps on them.                      *)
(***************************************************************************)

\* What a sequence holds, as it grows and shrinks.
LEMMA RangeFacts ==
  ASSUME NEW S, NEW q \in Seq(S)
  PROVE  /\ Range(q) \subseteq S
         /\ \A r \in Seq(S) : Range(q \o r) = Range(q) \cup Range(r)
         /\ \A x \in S : Range(Append(q, x)) = Range(q) \cup {x}
         /\ q # <<>> => Range(Tail(q)) \subseteq Range(q) /\ Head(q) \in Range(q)
  <1>1. Len(q) \in Nat /\ DOMAIN q = 1..Len(q) /\ \A i \in 1..Len(q) : q[i] \in S
    BY LenProperties, ElementOfSeq
  <1>2. Range(q) = {q[i] : i \in 1..Len(q)}
    BY <1>1 DEF Range
  <1>3. ASSUME NEW r \in Seq(S) PROVE Range(q \o r) = Range(q) \cup Range(r)
    <2>1. Len(r) \in Nat /\ DOMAIN r = 1..Len(r)
      BY LenProperties
    <2>2. /\ DOMAIN (q \o r) = 1..(Len(q) + Len(r))
          /\ \A i \in 1..Len(q) : (q \o r)[i] = q[i]
          /\ \A i \in 1..Len(r) : (q \o r)[Len(q) + i] = r[i]
      BY <1>1, <2>1, ConcatProperties, LenProperties
    <2>3. ASSUME NEW i \in DOMAIN (q \o r) PROVE (q \o r)[i] \in Range(q) \cup Range(r)
      <3>1. CASE i \in 1..Len(q)
        BY <1>1, <2>2, <3>1 DEF Range
      <3>2. CASE i \notin 1..Len(q)
        <4>1. i - Len(q) \in 1..Len(r) /\ i = Len(q) + (i - Len(q))
          BY <1>1, <2>1, <2>2, <3>2
        <4> QED
          BY <2>1, <2>2, <4>1 DEF Range
      <3> QED
        BY <3>1, <3>2
    <2>4. ASSUME NEW i \in 1..Len(q) PROVE q[i] \in Range(q \o r)
      BY <1>1, <2>1, <2>2 DEF Range
    <2>5. ASSUME NEW i \in 1..Len(r) PROVE r[i] \in Range(q \o r)
      <3>1. Len(q) + i \in DOMAIN (q \o r)
        BY <1>1, <2>1, <2>2
      <3> QED
        BY <2>2, <3>1 DEF Range
    <2> QED
      BY <1>1, <2>1, <2>3, <2>4, <2>5 DEF Range
  <1>4. ASSUME NEW x \in S PROVE Range(Append(q, x)) = Range(q) \cup {x}
    <2>1. /\ DOMAIN Append(q, x) = 1..(Len(q) + 1)
          /\ \A i \in 1..Len(q) : Append(q, x)[i] = q[i]
          /\ Append(q, x)[Len(q) + 1] = x
      BY AppendProperties, LenProperties
    <2> QED
      BY <1>1, <2>1 DEF Range
  <1>5. ASSUME q # <<>> PROVE Range(Tail(q)) \subseteq Range(q) /\ Head(q) \in Range(q)
    <2>1. /\ DOMAIN Tail(q) = 1..(Len(q) - 1) /\ Len(q) > 0 /\ Head(q) = q[1]
          /\ \A i \in 1..(Len(q) - 1) : Tail(q)[i] = q[i + 1]
      BY <1>5, HeadTailProperties, LenProperties, EmptySeq
    <2> QED
      BY <1>1, <2>1 DEF Range
  <1> QED
    BY <1>1, <1>2, <1>3, <1>4, <1>5

\* What is on its way to the book.
OnTheWay == Range(held) \cup Range(memo)

\* The listener adds one observation, of the head of the stream, stamped now;
\* the memo task takes one away.
LEMMA OnTheWayFacts ==
  ASSUME TypeOK, [Next]_vars
  PROVE  /\ OnTheWay \subseteq Observations
         /\ \/ OnTheWay' \subseteq OnTheWay
            \/ /\ stream # <<>>
               /\ OnTheWay' = OnTheWay \cup {Book!Observation(Head(stream), now)}
               /\ ListenerStep
  <1>1. /\ held \in Seq(Observations) /\ memo \in Seq(Observations)
        /\ stream \in Seq(Signatures) /\ now \in 0..MaxTime
    BY DEF TypeOK
  <1>2. OnTheWay \subseteq Observations
    BY <1>1, RangeFacts DEF OnTheWay
  <1>3. UNCHANGED <<held, memo>> => OnTheWay' = OnTheWay
    BY DEF OnTheWay, Range
  <1>4. ASSUME ListenerStep
        PROVE  \/ OnTheWay' = OnTheWay
               \/ stream # <<>> /\ OnTheWay' = OnTheWay \cup {Book!Observation(Head(stream), now)}
    <2>1. CASE ObserveMemo
      <3>1. /\ held = <<>> /\ stream # <<>> /\ memo' = memo
            /\ held' = <<Book!Observation(Head(stream), now)>>
        BY <2>1 DEF ObserveMemo
      <3>2. /\ Range(held) = {} /\ Range(held') = {Book!Observation(Head(stream), now)}
            /\ Range(memo') = Range(memo)
        BY <3>1 DEF Range
      <3> QED
        BY <3>1, <3>2 DEF OnTheWay
    <2>2. CASE HandOver
      <3>1. memo' = memo \o held /\ held' = <<>>
        BY <2>2 DEF HandOver
      <3>2. Range(memo') = Range(memo) \cup Range(held)
        BY <1>1, <3>1, RangeFacts
      <3>3. Range(held') = {}
        BY <3>1 DEF Range
      <3> QED
        BY <3>2, <3>3 DEF OnTheWay
    <2>3. CASE Subscribed \/ SilentFirstMessage \/ StreamFails \/ ListenerStops
      BY <1>3, <2>3 DEF Subscribed, SilentFirstMessage, StreamFails, ListenerStops, ListenerReturns
    <2> QED
      BY <1>4, <2>1, <2>2, <2>3 DEF ListenerStep
  <1>5. ASSUME MemoStep PROVE OnTheWay' \subseteq OnTheWay
    <2>1. memo # <<>> /\ memo' = Tail(memo) /\ held' = held
      BY <1>5 DEF MemoStep, gRPCVars
    <2>2. Range(memo') \subseteq Range(memo)
      BY <1>1, <2>1, RangeFacts
    <2>3. Range(held') = Range(held)
      BY <2>1
    <2> QED
      BY <2>2, <2>3 DEF OnTheWay
  <1>6. ASSUME AbortListener PROVE OnTheWay' \subseteq OnTheWay
    <2>1. Range(held') = {} /\ Range(memo') = Range(memo)
      BY <1>6 DEF AbortListener, Range
    <2> QED
      BY <2>1 DEF OnTheWay
  <1>7. ASSUME MainStep, ~AbortListener PROVE UNCHANGED <<held, memo>>
    BY <1>7 DEF MainStep, AwaitReady, NotReady, SetUp, SetUpFails, LoopEnds, StopRequested, NextRound,
                FetchNonce, FetchTimeout, FetchError, RoundDone, GraceOver, Close, JoinListener,
                Report, Goto, MainOnly, gRPCVars
  <1>8. ASSUME CtrlCStep \/ UNCHANGED vars PROVE UNCHANGED <<held, memo>>
    BY <1>8, CtrlCFrame DEF vars, gRPCVars
  <1>9. ASSUME NEW s, Land(s) \/ Reorg \/ Tick PROVE UNCHANGED <<held, memo>>
    BY <1>9, OutsideFrame DEF gRPCVars
  <1>10. ASSUME NEW e \in Endpoints, EndpointStep(e) PROVE UNCHANGED <<held, memo>>
    BY <1>10, EndpointFrame DEF gRPCVars
  <1> QED
    BY <1>2, <1>3, <1>4, <1>5, <1>6, <1>7, <1>8, <1>9, <1>10, StepCases

\* An observation is one of a transaction of ours, and says when it was made.
LEMMA ObservationFacts ==
  ASSUME NEW o \in Observations
  PROVE  /\ \E s \in Signatures, t \in 0..MaxTime : o = Book!Observation(s, t)
         /\ o.signature \in Signatures /\ o.elapsed_since_start \in 0..MaxTime
  BY DEF Observations, Book!Observation

\* The registered sends: one more by record_send, or fewer, or the same.
Entry(e) == [provider |-> NameOf[e], sent_elapsed |-> sent_at[e], round_id |-> Previous]

LEMMA SentFacts ==
  ASSUME [Next]_vars
  PROVE  \/ /\ DOMAIN sent' \subseteq DOMAIN sent
            /\ \A s \in DOMAIN sent' : sent'[s] = sent[s]
         \/ \E e \in Endpoints :
              /\ RecordSent(e)
              /\ DOMAIN sent' = DOMAIN sent \cup {Mine(e)}
              /\ sent'[Mine(e)] = Entry(e)
              /\ \A s \in DOMAIN sent \ {Mine(e)} : sent'[s] = sent[s]
  <1>1. CASE UNCHANGED sent
    BY <1>1
  <1>2. CASE MemoStep
    <2>1. sent' = sent \/ \E s : sent' = Book!Remove(sent, s)
      BY <1>2 DEF MemoStep, Book!RecordLanding, Book!IgnoreLanding, Book!ForfeitLanding,
                  Book!CreditLanding, Book!SentWithout, Book!bookVars
    <2> QED
      BY <2>1 DEF Book!Remove, Book!Restrict
  <1>3. ASSUME NEW e \in Endpoints, RecordSent(e)
        PROVE  /\ DOMAIN sent' = DOMAIN sent \cup {Mine(e)}
               /\ sent'[Mine(e)] = Entry(e)
               /\ \A s \in DOMAIN sent \ {Mine(e)} : sent'[s] = sent[s]
    <2>1. sent' = Book!Insert(sent, Mine(e), Entry(e))
      BY <1>3 DEF RecordSent, Book!RecordSend, SendElapsed, Entry
    <2> QED
      BY <2>1 DEF Book!Insert
  <1>4. ASSUME NEW e \in Endpoints, EndpointStep(e) PROVE RecordSent(e) \/ UNCHANGED sent
    BY <1>4, EndpointFrame DEF bookVars
  <1>5. ASSUME NEW s, Land(s) \/ Reorg \/ Tick PROVE UNCHANGED sent
    BY <1>5, OutsideFrame DEF bookVars
  <1>6. MainStep => UNCHANGED sent
    BY MainFrame DEF bookVars, FetchNonce, StartOfRound, Book!StartRound
  <1>7. ListenerStep \/ CtrlCStep \/ UNCHANGED vars => UNCHANGED sent
    BY ListenerFrame, CtrlCFrame DEF vars, bookVars
  <1> QED
    BY <1>1, <1>2, <1>3, <1>4, <1>5, <1>6, <1>7, StepCases

\* Time stamps: what the sender took before the send is never later than what
\* the listener took when it saw the transaction.
LEMMA StampsStep ==
  ASSUME TypeOK, TransactionsAreOfTheirRound, CreditsAreLandings, StampsAreCausal, [Next]_vars
  PROVE  StampsAreCausal'
  <1>1. /\ sent_at \in [Endpoints -> 0..MaxTime] /\ now \in 0..MaxTime /\ MaxTime \in Nat
        /\ Round \in Nat /\ landed \subseteq Signatures /\ nonces \in Seq(Nonces)
        /\ \A s \in landed : s \in submitted
    BY BenchAssumption, LenProperties DEF TypeOK, Round
  <1>2. /\ \A e \in Endpoints : sent_at[e] <= now
        /\ \A s \in DOMAIN sent : sent[s].sent_elapsed <= now
        /\ \A o \in OnTheWay :
             /\ o.signature \in landed
             /\ o.signature[2] = Round => sent_at[o.signature[1]] <= o.elapsed_since_start
             /\ o.signature \in DOMAIN sent =>
                  sent[o.signature].sent_elapsed <= o.elapsed_since_start
    BY DEF StampsAreCausal, CreditsAreLandings, OnTheWay
  <1>3. \A s \in DOMAIN sent : sent[s].sent_elapsed \in 0..MaxTime
    BY DEF TypeOK, Book!TypeOK, Book!SendRecord
  <1>4. ASSUME \A e \in Endpoints : sent_at'[e] <= now',
               \A s \in DOMAIN sent' : sent'[s].sent_elapsed <= now',
               \A o \in OnTheWay' :
                 /\ o.signature[2] = Round' => sent_at'[o.signature[1]] <= o.elapsed_since_start
                 /\ o.signature \in DOMAIN sent' =>
                      sent'[o.signature].sent_elapsed <= o.elapsed_since_start
        PROVE  StampsAreCausal'
    BY <1>4 DEF StampsAreCausal, OnTheWay
  <1> DEFINE Fewer == /\ DOMAIN sent' \subseteq DOMAIN sent
                      /\ \A s \in DOMAIN sent' : sent'[s] = sent[s]
  <1>5. ASSUME UNCHANGED <<sent_at, nonces>>, now' = now \/ now' = now + 1, Fewer,
               OnTheWay' \subseteq OnTheWay
        PROVE  StampsAreCausal'
    <2>1. Round' = Round /\ now <= now' /\ now' \in Nat
      BY <1>1, <1>5 DEF Round
    <2>2. \A e \in Endpoints : sent_at'[e] <= now'
      BY <1>1, <1>2, <1>5, <2>1
    <2>3. \A s \in DOMAIN sent' : sent'[s].sent_elapsed <= now'
      BY <1>1, <1>2, <1>3, <1>5, <2>1
    <2> QED
      BY <1>2, <1>4, <1>5, <2>1, <2>2, <2>3
  <1>6. ASSUME NEW e \in Endpoints, RecordSent(e) PROVE StampsAreCausal'
    <2>1. /\ DOMAIN sent' = DOMAIN sent \cup {Mine(e)}
          /\ sent'[Mine(e)].sent_elapsed = sent_at[e]
          /\ \A s \in DOMAIN sent \ {Mine(e)} : sent'[s] = sent[s]
      <3>1. sent' = Book!Insert(sent, Mine(e), Entry(e))
        BY <1>6 DEF RecordSent, Book!RecordSend, SendElapsed, Entry
      <3> QED
        BY <3>1 DEF Book!Insert, Entry
    <2>2. UNCHANGED <<sent_at, nonces, now, held, memo>> /\ Round' = Round
      BY <1>6 DEF RecordSent, chainVars, gRPCVars, Round
    <2>3. OnTheWay' = OnTheWay
      BY <2>2 DEF OnTheWay, Range
    <2>4. Mine(e)[1] = e /\ Mine(e)[2] = Round
      BY DEF Mine
    <2>5. \A s \in DOMAIN sent' : sent'[s].sent_elapsed <= now'
      BY <1>2, <2>1, <2>2
    <2>6. ASSUME NEW o \in OnTheWay', o.signature \in DOMAIN sent'
          PROVE  sent'[o.signature].sent_elapsed <= o.elapsed_since_start
      BY <1>2, <2>1, <2>3, <2>4, <2>6
    <2> QED
      BY <1>2, <1>4, <2>2, <2>3, <2>5, <2>6
  <1>7. ASSUME NEW e \in Endpoints, BeginSend(e) PROVE StampsAreCausal'
    <2>1. /\ task[e] = "spawned" /\ sent_at' = [sent_at EXCEPT ![e] = now]
          /\ UNCHANGED <<sent, nonces, now, held, memo>> /\ Round' = Round
      BY <1>7 DEF BeginSend, Move, ReadsSignal, bookVars, chainVars, gRPCVars, Round
    <2>2. OnTheWay' = OnTheWay
      BY <2>1 DEF OnTheWay, Range
    <2>3. ASSUME NEW o \in OnTheWay, o.signature[2] = Round PROVE o.signature[1] # e
      BY <1>1, <1>2, <2>1, <2>3 DEF TransactionsAreOfTheirRound
    <2>4. \A o \in OnTheWay : o.signature[1] \in Endpoints
      BY <1>1, <1>2 DEF Signatures
    <2>5. \A f \in Endpoints : sent_at'[f] = IF f = e THEN now ELSE sent_at[f]
      BY <1>1, <2>1
    <2>6. \A f \in Endpoints : sent_at'[f] <= now'
      BY <1>1, <1>2, <2>1, <2>5
    <2>7. ASSUME NEW o \in OnTheWay', o.signature[2] = Round'
          PROVE  sent_at'[o.signature[1]] <= o.elapsed_since_start
      BY <1>2, <2>1, <2>2, <2>3, <2>4, <2>5, <2>7
    <2> QED
      BY <1>2, <1>4, <2>1, <2>2, <2>6, <2>7
  <1>8. CASE FetchNonce
    <2>1. Round' = Round + 1 /\ UNCHANGED <<sent_at, now, held, memo, sent>>
      BY <1>8, FetchFacts DEF gRPCVars, chainVars, Book!StartRound
    <2>2. OnTheWay' = OnTheWay
      BY <2>1 DEF OnTheWay, Range
    <2>3. \A o \in OnTheWay : o.signature[2] \in Nat /\ o.signature[2] <= Round
      BY <1>1, <1>2 DEF TransactionsAreOfTheirRound, Signatures
    <2>4. \A o \in OnTheWay : o.signature[2] # Round'
      BY <1>1, <2>1, <2>3
    <2> QED
      BY <1>2, <1>4, <2>1, <2>2, <2>4
  <1>9. CASE ListenerStep
    <2>1. UNCHANGED <<sent_at, sent, nonces, now>> /\ Round' = Round
      BY <1>9, ListenerFrame DEF bookVars, taskVars, chainVars, Round
    <2>2. CASE OnTheWay' \subseteq OnTheWay
      BY <1>5, <2>1, <2>2
    <2>3. CASE stream # <<>> /\ OnTheWay' = OnTheWay \cup {Book!Observation(Head(stream), now)}
      <3> DEFINE o == Book!Observation(Head(stream), now)
      <3>1. o.signature = Head(stream) /\ o.elapsed_since_start = now
        BY DEF Book!Observation
      <3>2. Head(stream) \in Signatures
        BY <2>3, HeadTailProperties DEF TypeOK
      <3>3. sent_at[o.signature[1]] <= now
        BY <1>2, <3>1, <3>2 DEF Signatures
      <3>4. o.signature \in DOMAIN sent => sent[o.signature].sent_elapsed <= now
        BY <1>2
      <3> HIDE DEF o
      <3>5. \A x \in OnTheWay' : x \in OnTheWay \/ x = o
        BY <2>3 DEF o
      <3> QED
        BY <1>2, <1>4, <2>1, <3>1, <3>3, <3>4, <3>5
    <2> QED
      BY <1>9, <2>2, <2>3, OnTheWayFacts
  <1>10. ASSUME ~ListenerStep, ~FetchNonce, \A e \in Endpoints : ~RecordSent(e) /\ ~BeginSend(e)
         PROVE  StampsAreCausal'
    <2>1. Fewer /\ OnTheWay' \subseteq OnTheWay
      BY <1>10, SentFacts, OnTheWayFacts
    <2>2. UNCHANGED <<sent_at, nonces>> /\ (now' = now \/ now' = now + 1)
      <3>1. ASSUME NEW e \in Endpoints, EndpointStep(e) PROVE UNCHANGED <<sent_at, nonces, now>>
        BY <1>10, <3>1, EndpointFrame
      <3>2. ASSUME NEW s, Land(s) \/ Reorg \/ Tick
            PROVE  UNCHANGED <<sent_at, nonces>> /\ (now' = now \/ now' = now + 1)
        BY <3>2, OutsideFrame DEF taskVars, Land, Reorg, Tick
      <3>3. ASSUME MemoStep \/ CtrlCStep \/ MainStep \/ UNCHANGED vars
            PROVE  UNCHANGED <<sent_at, nonces, now>>
        BY <1>10, <3>3, MemoFrame, CtrlCFrame, MainFrame DEF taskVars, chainVars, vars
      <3> QED
        BY <1>10, <3>1, <3>2, <3>3, StepCases
    <2> QED
      BY <1>5, <2>1, <2>2
  <1> QED
    BY <1>6, <1>7, <1>8, <1>9, <1>10
-----------------------------------------------------------------------------
(***************************************************************************)
(* The nonce account.                                                      *)
(***************************************************************************)

\* A landing needs the current nonce of the account to be that of the round
\* the transaction was built in, and mints a new one.
LEMMA LandFacts ==
  ASSUME TypeOK, TransactionsAreOfTheirRound, NEW s, Land(s)
  PROVE  /\ s \in submitted /\ s[2] \in 1..Round /\ nonces[s[2]] = LastOf(chain)
         /\ Len(chain) \in Nat \ {0} /\ LastOf(chain) = chain[Len(chain)]
         /\ minted \in Nat /\ minted' = minted + 1
         /\ Len(chain') = Len(chain) + 1 /\ chain'[Len(chain) + 1] = minted + 1
         /\ \A i \in 1..Len(chain) : chain'[i] = chain[i] /\ chain[i] \in Nonces
         /\ chain' = Append(chain, minted + 1)
         /\ landed' = landed \cup {s}
         /\ LastOf(chain') = minted + 1
  <1>1. chain \in Seq(Nonces) /\ chain # <<>> /\ minted \in Nat
    BY DEF TypeOK, Nonces
  <1>2. chain \in Seq(Nat)
    <2>1. Nonces \subseteq Nat
      BY DEF Nonces
    <2> QED
      BY <1>1, <2>1, SeqMonotonic
  <1>3. s \in submitted /\ nonces[s[2]] = LastOf(chain) /\ minted' = minted + 1
        /\ chain' = Append(chain, minted + 1) /\ landed' = landed \cup {s}
    BY DEF Land
  <1>4. s[2] \in 1..Round
    <2>1. s[2] \in Nat \ {0} /\ s[2] <= Round
      BY <1>3 DEF TypeOK, TransactionsAreOfTheirRound, Signatures
    <2>2. Round \in Nat
      BY LenProperties DEF TypeOK, Round
    <2> QED
      BY <2>1, <2>2
  <1>5. Len(chain) \in Nat \ {0} /\ \A i \in 1..Len(chain) : chain[i] \in Nonces
    BY <1>1, LenProperties, EmptySeq, ElementOfSeq
  <1>6. /\ Len(chain') = Len(chain) + 1 /\ chain'[Len(chain) + 1] = minted + 1
        /\ \A i \in 1..Len(chain) : chain'[i] = chain[i]
    <2>1. minted + 1 \in Nat
      BY <1>1
    <2> QED
      BY <1>2, <1>3, <2>1, AppendProperties, LenProperties
  <1> QED
    BY <1>1, <1>3, <1>4, <1>5, <1>6 DEF LastOf

\* A fork switch takes the last one back.
LEMMA ReorgFacts ==
  ASSUME TypeOK, Reorg
  PROVE  /\ chain' \in Seq(Nonces) /\ chain' # <<>>
         /\ Len(chain) \in Nat \ {0} /\ Len(chain') = Len(chain) - 1 /\ Len(chain') > 0
         /\ \A i \in 1..Len(chain') : chain'[i] = chain[i]
         /\ TakenBack < MaxReorgs
  <1>1. chain \in Seq(Nonces) /\ chain # <<>>
    BY DEF TypeOK
  <1>2. Len(chain) > 1 /\ chain' = SubSeq(chain, 1, Len(chain) - 1) /\ TakenBack < MaxReorgs
    BY DEF Reorg
  <1>3. Len(chain) \in Nat \ {0}
    BY <1>1, LenProperties, EmptySeq
  <1>4. /\ chain' \in Seq(Nonces) /\ Len(chain') = Len(chain) - 1
        /\ \A i \in 1..Len(chain') : chain'[i] = chain[i]
    BY <1>1, <1>2, <1>3, SubSeqProperties
  <1>5. chain' # <<>> /\ Len(chain') > 0
    <2>1. Len(chain') > 0
      BY <1>2, <1>3, <1>4
    <2> QED
      BY <2>1
  <1> QED
    BY <1>2, <1>3, <1>4, <1>5

\* Only those two move the account.
LEMMA ChainFrame ==
  ASSUME [Next]_vars
  PROVE  \/ UNCHANGED <<chain, minted, landed>>
         \/ Reorg
         \/ \E s \in Signatures : Land(s)
  BY StepCases, ListenerFrame, CtrlCFrame, MemoFrame, MainFrame, EndpointFrame
  DEF Tick, chainVars, vars

\* Rounds are only added.
LEMMA NoncesFrame ==
  ASSUME [Next]_vars
  PROVE  UNCHANGED nonces \/ FetchNonce
  BY StepCases, ListenerFrame, CtrlCFrame, MemoFrame, MainFrame, EndpointFrame, OutsideFrame
  DEF vars

LEMMA ChainStep ==
  ASSUME TypeOK, TransactionsAreOfTheirRound, ChainIsOurs, [Next]_vars
  PROVE  ChainIsOurs'
  <1>1. /\ chain \in Seq(Nonces) /\ chain # <<>> /\ minted \in Nat /\ MaxReorgs \in Nat
        /\ nonces \in Seq(Nonces) /\ Len(chain) \in Nat \ {0}
        /\ \A i \in 1..Len(chain) : chain[i] \in Nat
    <2>1. /\ chain \in Seq(Nonces) /\ chain # <<>> /\ minted \in Nat /\ nonces \in Seq(Nonces)
      BY DEF TypeOK, Nonces
    <2>2. Len(chain) \in Nat \ {0} /\ \A i \in 1..Len(chain) : chain[i] \in Nonces
      BY <2>1, LenProperties, EmptySeq, ElementOfSeq
    <2> QED
      BY <2>1, <2>2, BenchAssumption DEF Nonces
  <1>2. CASE UNCHANGED <<chain, minted, landed>> /\ UNCHANGED nonces
    BY <1>2 DEF ChainIsOurs, TakenBack, Round
  <1>3. CASE UNCHANGED <<chain, minted, landed>> /\ FetchNonce
    <2>1. Round \in Nat /\ Round' = Round + 1 /\ \A k \in 1..Round : nonces'[k] = nonces[k]
      BY <1>3, FetchFacts
    <2>2. ASSUME NEW i \in 1..(Len(chain) - 1)
          PROVE  \E k \in 1..Round' : nonces'[k] = chain[i]
      <3>1. PICK k \in 1..Round : nonces[k] = chain[i]
        BY DEF ChainIsOurs
      <3> QED
        BY <2>1, <3>1
    <2> QED
      BY <1>3, <2>2 DEF ChainIsOurs, TakenBack
  <1>4. CASE Reorg
    <2>1. UNCHANGED <<nonces, minted>> /\ Round' = Round
      BY <1>4 DEF Reorg, Round
    <2>2. /\ Len(chain') = Len(chain) - 1 /\ \A i \in 1..Len(chain') : chain'[i] = chain[i]
          /\ TakenBack < MaxReorgs
      BY <1>4, ReorgFacts
    <2>3. TakenBack' = TakenBack + 1
      BY <1>1, <2>1, <2>2 DEF TakenBack
    <2>4. TakenBack' \in 0..MaxReorgs
      BY <1>1, <2>2, <2>3 DEF ChainIsOurs
    <2>5. \A i \in 1..Len(chain') : i \in 1..Len(chain)
      BY <1>1, <2>2
    <2>6. \A i \in 1..(Len(chain') - 1) : i \in 1..Len(chain') /\ i \in 1..(Len(chain) - 1)
      BY <1>1, <2>2
    <2> QED
      BY <2>1, <2>2, <2>4, <2>5, <2>6 DEF ChainIsOurs
  <1>5. ASSUME NEW s, Land(s) PROVE ChainIsOurs'
    <2>1. UNCHANGED nonces /\ Round' = Round
      BY <1>5 DEF Land, Round
    <2>2. /\ s[2] \in 1..Round /\ nonces[s[2]] = chain[Len(chain)]
          /\ minted' = minted + 1
          /\ Len(chain') = Len(chain) + 1 /\ chain'[Len(chain) + 1] = minted + 1
          /\ \A i \in 1..Len(chain) : chain'[i] = chain[i]
      BY <1>5, LandFacts
    <2>3. TakenBack' = TakenBack
      BY <1>1, <2>2 DEF TakenBack
    <2>4. ASSUME NEW i \in 1..Len(chain'), NEW j \in 1..Len(chain'), i < j
          PROVE  chain'[i] < chain'[j]
      <3>1. i \in 1..Len(chain) /\ (j \in 1..Len(chain) \/ j = Len(chain) + 1)
        BY <1>1, <2>2, <2>4
      <3>2. chain[i] <= minted
        BY <3>1 DEF ChainIsOurs
      <3> QED
        BY <1>1, <2>2, <2>4, <3>1, <3>2 DEF ChainIsOurs
    <2>5. ASSUME NEW i \in 1..Len(chain') PROVE chain'[i] <= minted'
      <3>1. i \in 1..Len(chain) \/ i = Len(chain) + 1
        BY <1>1, <2>2
      <3>2. i \in 1..Len(chain) => chain[i] <= minted
        BY DEF ChainIsOurs
      <3> QED
        BY <1>1, <2>2, <3>1, <3>2
    <2>6. ASSUME NEW i \in 1..(Len(chain') - 1) PROVE \E k \in 1..Round : nonces[k] = chain'[i]
      <3>1. i \in 1..Len(chain) /\ (i \in 1..(Len(chain) - 1) \/ i = Len(chain))
        BY <1>1, <2>2
      <3> QED
        BY <2>2, <3>1 DEF ChainIsOurs
    <2> QED
      BY <2>1, <2>3, <2>4, <2>5, <2>6 DEF ChainIsOurs
  <1> QED
    BY <1>2, <1>3, <1>4, <1>5, ChainFrame, NoncesFrame
-----------------------------------------------------------------------------
(***************************************************************************)
(* The calls on the book.                                                  *)
(***************************************************************************)

\* The transaction of a running future is one of the run.
LEMMA RunningFacts ==
  ASSUME TypeOK, RoundsAreInStep, NEW e \in Endpoints,
         task[e] \in {"spawned", "sending", "sent", "waiting"}
  PROVE  /\ main = "collect" /\ Round \in 1..Transactions
         /\ Mine(e) \in Signatures /\ Mine(e)[1] = e /\ Mine(e)[2] = Round
         /\ Previous = nonces[Round] /\ Previous \in Nonces
  <1>1. main = "collect"
    BY DEF RoundsAreInStep, Idle, Outcomes
  <1>2. nonces \in Seq(Nonces) /\ Round \in Nat /\ Round <= Transactions /\ Transactions \in Nat
    BY BenchAssumption, LenProperties DEF TypeOK, Round
  <1>3. Round \in 1..Transactions
    BY <1>1, <1>2 DEF RoundsAreInStep
  <1>4. nonces[Round] \in Nonces
    BY <1>2, <1>3, ElementOfSeq DEF Round
  <1> QED
    BY <1>1, <1>3, <1>4 DEF Mine, Signatures, Previous

\* record_send is called once for a transaction, in a round that was started.
LEMMA RegisterCall ==
  ASSUME TypeOK, RoundsAreInStep, TransactionsAreOfTheirRound, CreditsAreLandings,
         NEW e \in Endpoints, RecordSent(e)
  PROVE  Book!Next
  <1>1. task[e] = "sent" /\ Book!RecordSend(Mine(e), NameOf[e], sent_at[e], Previous)
    BY DEF RecordSent, Move, SendElapsed
  <1>2. /\ Mine(e) \in Signatures /\ Mine(e)[1] = e /\ Mine(e)[2] = Round
        /\ Round \in 1..Transactions /\ Previous = nonces[Round] /\ Previous \in Nonces
    BY <1>1, RunningFacts
  <1>3. Mine(e) \notin Book!Registered
    BY <1>1, <1>2 DEF TransactionsAreOfTheirRound
  <1>4. Previous \in Book!Started
    BY <1>2 DEF CreditsAreLandings
  <1>5. [s \in Signatures |-> NameOf[s[1]]][Mine(e)] = NameOf[e]
    BY <1>2
  <1>6. sent_at[e] \in 0..MaxTime
    BY DEF TypeOK
  <1>7. Book!Register(Mine(e), sent_at[e], Previous)
    BY <1>1, <1>3, <1>4, <1>5 DEF Book!Register
  <1> QED
    BY <1>2, <1>6, <1>7 DEF Book!Next

\* record_landing sees nothing but observations of our own transactions.
LEMMA LandingCall ==
  ASSUME TypeOK, MemoStep
  PROVE  \E s \in Signatures, t \in 0..MaxTime :
           Head(memo) = Book!Observation(s, t) /\ Book!Observe(s, t)
  <1>1. memo \in Seq(Observations) /\ memo # <<>> /\ Book!RecordLanding(Head(memo))
    BY DEF TypeOK, MemoStep
  <1>2. Head(memo) \in Observations
    BY <1>1, HeadTailProperties
  <1>3. PICK s \in Signatures, t \in 0..MaxTime : Head(memo) = Book!Observation(s, t)
    BY <1>2, ObservationFacts
  <1> QED
    BY <1>1, <1>3 DEF Book!Observe

\* Every step of a run is one of the book, or leaves it alone.
LEMMA BookCalls ==
  ASSUME TypeOK, RoundsAreInStep, TransactionsAreOfTheirRound, CreditsAreLandings, [Next]_vars
  PROVE  [Book!Next]_(Book!bookVars)
  <1>1. CASE UNCHANGED bookVars
    BY <1>1 DEF bookVars, Book!bookVars
  <1>2. ASSUME NEW e \in Endpoints, RecordSent(e) PROVE Book!Next
    BY <1>2, RegisterCall
  <1>3. CASE MemoStep
    BY <1>3, LandingCall DEF Book!Next
  <1>4. CASE FetchNonce
    <2>1. PICK v \in Nonces : Book!StartRound(v) /\ main = "fetch"
      BY <1>4, FetchFacts
    <2>2. rounds_attempted < Transactions
      BY <2>1 DEF RoundsAreInStep
    <2> QED
      BY <2>1, <2>2 DEF Book!Next, Book!BeginRound
  <1>5. ASSUME NEW s, Land(s) \/ Reorg \/ Tick PROVE UNCHANGED bookVars
    BY <1>5, OutsideFrame
  <1>6. ASSUME NEW e \in Endpoints, EndpointStep(e) PROVE RecordSent(e) \/ UNCHANGED bookVars
    BY <1>6, EndpointFrame
  <1>7. ListenerStep \/ CtrlCStep \/ UNCHANGED vars => UNCHANGED bookVars
    BY ListenerFrame, CtrlCFrame DEF vars
  <1>8. MainStep => FetchNonce \/ UNCHANGED bookVars
    BY MainFrame
  <1> QED
    BY <1>1, <1>2, <1>3, <1>4, <1>5, <1>6, <1>7, <1>8, StepCases
-----------------------------------------------------------------------------
(***************************************************************************)
(* Credits.                                                                *)
(***************************************************************************)

\* What record_landing does: nothing to credits, or one more.
LEMMA MemoFacts ==
  ASSUME TypeOK, Book!BookInv, MemoStep
  PROVE  \/ UNCHANGED <<acked, landed_rounds, round_notifiers>>
         \/ \E s \in DOMAIN sent :
              /\ memo # <<>> /\ s = Head(memo).signature
              /\ acked' = acked \cup {s}
              /\ landed_rounds' = landed_rounds \cup {sent[s].round_id}
              /\ DOMAIN round_notifiers' = DOMAIN round_notifiers \ {sent[s].round_id}
  <1>1. memo # <<>> /\ Book!RecordLanding(Head(memo))
    BY DEF MemoStep
  <1>2. CASE Book!IgnoreLanding(Head(memo)) \/ Book!ForfeitLanding(Head(memo))
    BY <1>2 DEF Book!IgnoreLanding, Book!ForfeitLanding, Book!bookVars
  <1>3. CASE Book!CreditLanding(Head(memo))
    <2> DEFINE s == Head(memo).signature
    <2>1. s \in DOMAIN sent
      BY <1>3 DEF Book!CreditLanding
    <2>2. /\ acked' = acked \cup (waiters \cap {s})
          /\ landed_rounds' = landed_rounds \cup {sent[s].round_id}
          /\ round_notifiers' = Book!Remove(round_notifiers, sent[s].round_id)
      BY <1>3 DEF Book!CreditLanding
    <2>3. s \in waiters
      BY <2>1 DEF Book!BookInv, Book!PendingIsRegistered
    <2>4. DOMAIN round_notifiers' = DOMAIN round_notifiers \ {sent[s].round_id}
      BY <2>2 DEF Book!Remove, Book!Restrict
    <2> QED
      BY <1>1, <2>1, <2>2, <2>3, <2>4
  <1> QED
    BY <1>1, <1>2, <1>3 DEF Book!RecordLanding

\* Credits are given by the memo task only.
LEMMA AckedFrame ==
  ASSUME [Next]_vars
  PROVE  MemoStep \/ UNCHANGED <<acked, landed_rounds>>
  <1>1. FetchNonce => UNCHANGED <<acked, landed_rounds>>
    BY DEF FetchNonce, StartOfRound, Book!StartRound
  <1>2. ASSUME NEW s, Land(s) \/ Reorg \/ Tick PROVE UNCHANGED <<acked, landed_rounds>>
    BY <1>2, OutsideFrame DEF bookVars
  <1> QED
    BY <1>1, <1>2, StepCases, ListenerFrame, CtrlCFrame, MainFrame, EndpointFrame DEF bookVars, vars

\* A round once started stays so: as its notifier leaves the map, its id joins
\* the landed ones.
LEMMA StartedGrows ==
  ASSUME TypeOK, Book!BookInv, [Next]_vars
  PROVE  Book!Started \subseteq Book!Started'
  <1>1. UNCHANGED bookVars => Book!Started' = Book!Started
    BY DEF bookVars, Book!Started
  <1>2. CASE MemoStep
    BY <1>2, MemoFacts DEF Book!Started
  <1>3. ASSUME NEW e \in Endpoints, RecordSent(e) PROVE Book!Started \subseteq Book!Started'
    BY <1>3 DEF RecordSent, Book!RecordSend, Book!WithNotifier, Book!OrInsert, Book!Started
  <1>4. CASE FetchNonce
    BY <1>4 DEF FetchNonce, StartOfRound, Book!StartRound, Book!WithNotifier, Book!OrInsert,
                Book!Started
  <1>5. ASSUME NEW s, Land(s) \/ Reorg \/ Tick PROVE UNCHANGED bookVars
    BY <1>5, OutsideFrame
  <1>6. ASSUME NEW e \in Endpoints, EndpointStep(e) PROVE RecordSent(e) \/ UNCHANGED bookVars
    BY <1>6, EndpointFrame
  <1>7. ListenerStep \/ CtrlCStep \/ UNCHANGED vars => UNCHANGED bookVars
    BY ListenerFrame, CtrlCFrame DEF vars
  <1>8. MainStep => FetchNonce \/ UNCHANGED bookVars
    BY MainFrame
  <1> QED
    BY <1>1, <1>2, <1>3, <1>4, <1>5, <1>6, <1>7, <1>8, StepCases

\* The nonces of rounds that were begun stay.
LEMMA NoncesStay ==
  ASSUME TypeOK, [Next]_vars
  PROVE  /\ Round \in Nat /\ Round' \in {Round, Round + 1}
         /\ \A k \in 1..Round : nonces'[k] = nonces[k]
  <1>1. Round \in Nat
    BY LenProperties DEF TypeOK, Round
  <1>2. CASE UNCHANGED nonces
    BY <1>1, <1>2 DEF Round
  <1>3. CASE FetchNonce
    <2>1. Round' = Round + 1 /\ \A k \in 1..Round : nonces'[k] = nonces[k]
      BY <1>3, FetchFacts
    <2> QED
      BY <1>1, <2>1
  <1> QED
    BY <1>2, <1>3, NoncesFrame

\* What is registered, pending or credited was built in a round begun.
LEMMA RegisteredFacts ==
  ASSUME TypeOK, TransactionsAreOfTheirRound, Book!BookInv
  PROVE  /\ \A s \in Book!Registered : s \in Signatures /\ s[2] \in 1..Round
         /\ DOMAIN sent \subseteq Book!Registered /\ acked \subseteq Book!Registered
         /\ \A s \in submitted : s \in Signatures /\ s[2] \in 1..Round
  <1>1. Round \in Nat
    BY LenProperties DEF TypeOK, Round
  <1>2. \A s \in submitted : s \in Signatures /\ s[2] \in Nat \ {0} /\ s[2] <= Round
    BY DEF TypeOK, Signatures, TransactionsAreOfTheirRound
  <1>3. \A s \in submitted : s[2] \in 1..Round
    BY <1>1, <1>2
  <1> QED
    BY <1>2, <1>3
    DEF TransactionsAreOfTheirRound, Book!Registered, Book!BookInv, Book!PendingIsRegistered

\* What is streamed has landed.
LEMMA StreamStep ==
  ASSUME TypeOK, Range(stream) \subseteq landed, [Next]_vars
  PROVE  Range(stream') \subseteq landed' /\ landed \subseteq landed'
  <1>1. stream \in Seq(Signatures)
    BY DEF TypeOK
  <1>2. CASE UNCHANGED <<stream, landed>>
    BY <1>2
  <1>3. ASSUME NEW s \in Signatures, Land(s)
        PROVE  Range(stream') \subseteq landed' /\ landed \subseteq landed'
    <2>1. landed' = landed \cup {s} /\ (stream' = Append(stream, s) \/ stream' = stream)
      BY <1>3 DEF Land
    <2>2. Range(Append(stream, s)) = Range(stream) \cup {s}
      BY <1>1, RangeFacts
    <2> QED
      BY <2>1, <2>2
  <1>4. CASE ListenerStep
    <2>1. landed' = landed
      BY <1>4, ListenerFrame DEF chainVars
    <2>2. stream' = stream \/ (stream # <<>> /\ stream' = Tail(stream))
      BY <1>4 DEF ListenerStep, Subscribed, SilentFirstMessage, StreamFails, ListenerStops,
                  ListenerReturns, ObserveMemo, HandOver
    <2>3. stream # <<>> => Range(Tail(stream)) \subseteq Range(stream)
      BY <1>1, RangeFacts
    <2> QED
      BY <2>1, <2>2, <2>3
  <1>5. Reorg \/ Tick => UNCHANGED <<stream, landed>>
    BY DEF Reorg, Tick
  <1>6. MemoStep \/ CtrlCStep \/ MainStep \/ UNCHANGED vars => UNCHANGED <<stream, landed>>
    BY MemoFrame, CtrlCFrame, MainFrame DEF chainVars, vars
  <1>7. ASSUME NEW e \in Endpoints, EndpointStep(e) PROVE UNCHANGED <<stream, landed>>
    BY <1>7, EndpointFrame
  <1> QED
    BY <1>2, <1>3, <1>4, <1>5, <1>6, <1>7, StepCases

LEMMA CreditsStep ==
  ASSUME TypeOK, RoundsAreInStep, TransactionsAreOfTheirRound, CreditsAreLandings, Book!BookInv,
         [Next]_vars
  PROVE  CreditsAreLandings'
  <1>1. /\ Range(stream) \subseteq landed /\ acked \subseteq landed
        /\ \A o \in OnTheWay : o.signature \in landed
        /\ \A k \in 1..Round : nonces[k] \in Book!Started
        /\ \A s \in DOMAIN sent : sent[s].round_id = nonces[s[2]]
        /\ landed_rounds = {nonces[s[2]] : s \in acked}
    BY DEF CreditsAreLandings, OnTheWay
  <1>2. Range(stream') \subseteq landed' /\ landed \subseteq landed'
    BY <1>1, StreamStep
  <1>3. \A o \in OnTheWay' : o.signature \in landed'
    <2>1. CASE OnTheWay' \subseteq OnTheWay
      BY <1>1, <1>2, <2>1
    <2>2. CASE stream # <<>> /\ OnTheWay' = OnTheWay \cup {Book!Observation(Head(stream), now)}
      <3>1. Head(stream) \in landed
        BY <1>1, <2>2, RangeFacts DEF TypeOK
      <3>2. Book!Observation(Head(stream), now).signature = Head(stream)
        BY DEF Book!Observation
      <3> QED
        BY <1>1, <1>2, <2>2, <3>1, <3>2
    <2> QED
      BY <2>1, <2>2, OnTheWayFacts
  <1>4. \A k \in 1..Round' : nonces'[k] \in Book!Started'
    <2>1. \A k \in 1..Round : nonces'[k] \in Book!Started'
      BY <1>1, NoncesStay, StartedGrows
    <2>2. CASE FetchNonce
      <3>1. PICK v \in Nonces : /\ Round' = Round + 1 /\ nonces'[Round + 1] = v
                                /\ Book!StartRound(v) /\ Round \in Nat
        BY <2>2, FetchFacts
      <3>2. v \in Book!Started'
        BY <3>1 DEF Book!StartRound, Book!WithNotifier, Book!OrInsert, Book!Started
      <3> QED
        BY <2>1, <3>1, <3>2
    <2>3. CASE UNCHANGED nonces
      BY <2>1, <2>3 DEF Round
    <2> QED
      BY <2>2, <2>3, NoncesFrame
  <1>5. \A s \in Book!Registered : s[2] \in 1..Round /\ nonces'[s[2]] = nonces[s[2]]
    BY NoncesStay, RegisteredFacts
  <1>6. DOMAIN sent \subseteq Book!Registered /\ acked \subseteq Book!Registered
    BY RegisteredFacts
  <1>7. \A s \in DOMAIN sent' : sent'[s].round_id = nonces'[s[2]]
    <2>1. CASE /\ DOMAIN sent' \subseteq DOMAIN sent
               /\ \A s \in DOMAIN sent' : sent'[s] = sent[s]
      BY <1>1, <1>5, <1>6, <2>1
    <2>2. ASSUME NEW e \in Endpoints, RecordSent(e), DOMAIN sent' = DOMAIN sent \cup {Mine(e)},
                 sent'[Mine(e)] = Entry(e), \A s \in DOMAIN sent \ {Mine(e)} : sent'[s] = sent[s]
          PROVE  \A s \in DOMAIN sent' : sent'[s].round_id = nonces'[s[2]]
      <3>1. Mine(e)[2] = Round /\ Previous = nonces[Round] /\ nonces' = nonces
        BY <2>2 DEF Mine, Previous, RecordSent
      <3>2. sent'[Mine(e)].round_id = nonces'[Round]
        BY <2>2, <3>1 DEF Entry
      <3> QED
        BY <1>1, <1>5, <1>6, <2>2, <3>1, <3>2
    <2> QED
      BY <2>1, <2>2, SentFacts
  <1>8. acked' \subseteq landed' /\ landed_rounds' = {nonces'[s[2]] : s \in acked'}
    <2>1. {nonces'[s[2]] : s \in acked} = {nonces[s[2]] : s \in acked}
      BY <1>5, <1>6
    <2>2. CASE UNCHANGED <<acked, landed_rounds>>
      BY <1>1, <1>2, <2>1, <2>2
    <2>3. ASSUME MemoStep, NEW s \in DOMAIN sent, memo # <<>>, s = Head(memo).signature,
                 acked' = acked \cup {s}, landed_rounds' = landed_rounds \cup {sent[s].round_id}
          PROVE  acked' \subseteq landed' /\ landed_rounds' = {nonces'[r[2]] : r \in acked'}
      <3>1. Head(memo) \in OnTheWay
        BY <2>3, RangeFacts DEF TypeOK, OnTheWay
      <3>2. s \in landed
        BY <1>1, <2>3, <3>1
      <3>3. sent[s].round_id = nonces'[s[2]]
        BY <1>1, <1>5, <1>6
      <3>4. {nonces'[r[2]] : r \in acked'} = {nonces'[r[2]] : r \in acked} \cup {nonces'[s[2]]}
        BY <2>3
      <3> QED
        BY <1>1, <1>2, <2>1, <2>3, <3>2, <3>3, <3>4
    <2> QED
      BY <2>2, <2>3, AckedFrame, MemoFacts
  <1> QED
    BY <1>2, <1>3, <1>4, <1>7, <1>8 DEF CreditsAreLandings, OnTheWay
-----------------------------------------------------------------------------
(***************************************************************************)
(* Nonces, without forks.                                                  *)
(***************************************************************************)

\* Numbers of the run, for arithmetic.
LEMMA NonceNumbers ==
  ASSUME TypeOK
  PROVE  /\ Round \in Nat /\ \A k \in 1..Round : nonces[k] \in Nat
         /\ Len(chain) \in Nat \ {0} /\ \A i \in 1..Len(chain) : chain[i] \in Nat
         /\ LastOf(chain) = chain[Len(chain)] /\ LastOf(chain) \in Nat
         /\ minted \in Nat
  <1>1. /\ nonces \in Seq(Nonces) /\ chain \in Seq(Nonces) /\ chain # <<>> /\ minted \in Nonces
        /\ Nonces \subseteq Nat
    BY DEF TypeOK, Nonces
  <1>2. Round \in Nat /\ \A k \in 1..Round : nonces[k] \in Nonces
    BY <1>1, LenProperties, ElementOfSeq DEF Round
  <1>3. Len(chain) \in Nat \ {0} /\ \A i \in 1..Len(chain) : chain[i] \in Nonces
    BY <1>1, LenProperties, EmptySeq, ElementOfSeq
  <1>4. LastOf(chain) = chain[Len(chain)] /\ Len(chain) \in 1..Len(chain)
    BY <1>3 DEF LastOf
  <1>5. \A k \in 1..Round : nonces[k] \in Nat
    BY <1>1, <1>2
  <1>6. \A i \in 1..Len(chain) : chain[i] \in Nat
    BY <1>1, <1>3
  <1>7. LastOf(chain) \in Nat
    BY <1>4, <1>6
  <1> QED
    BY <1>1, <1>2, <1>3, <1>4, <1>5, <1>6, <1>7

LEMMA UsedUpStep ==
  ASSUME TypeOK, TransactionsAreOfTheirRound, Book!BookInv, ChainIsOurs, NoncesAreUsedUp,
         [Next]_vars
  PROVE  NoncesAreUsedUp'
  <1> SUFFICES ASSUME MaxReorgs = 0
               PROVE  /\ \A s, t \in landed' : nonces'[s[2]] = nonces'[t[2]] => s = t
                      /\ \A s \in landed' : nonces'[s[2]] < LastOf(chain')
                      /\ \A k \in 1..Round' : nonces'[k] <= LastOf(chain')
                      /\ MaxLag = 0 =>
                           \A i, j \in 1..Round' : i < j => nonces'[i] < nonces'[j]
    BY DEF NoncesAreUsedUp
  <1>1. /\ \A s, t \in landed : nonces[s[2]] = nonces[t[2]] => s = t
        /\ \A s \in landed : nonces[s[2]] < LastOf(chain)
        /\ \A k \in 1..Round : nonces[k] <= LastOf(chain)
        /\ MaxLag = 0 => \A i, j \in 1..Round : i < j => nonces[i] < nonces[j]
    BY DEF NoncesAreUsedUp
  <1>2. \A s \in landed : s[2] \in 1..Round
    BY RegisteredFacts DEF TypeOK
  <1>3. CASE UNCHANGED <<chain, minted, landed>> /\ UNCHANGED nonces
    BY <1>1, <1>3 DEF Round
  <1>4. CASE UNCHANGED <<chain, minted, landed>> /\ FetchNonce
    <2>1. PICK v \in Nonces :
            /\ v \in RpcView /\ NotPrevious(v)
            /\ Round' = Round + 1 /\ nonces'[Round + 1] = v
            /\ \A k \in 1..Round : nonces'[k] = nonces[k]
      BY <1>4, FetchFacts
    <2>2. PICK i \in 1..Len(chain) : v = chain[i] /\ i >= Len(chain) - MaxLag
      BY <2>1 DEF RpcView
    <2>3. v <= LastOf(chain)
      <3>1. i < Len(chain) => chain[i] < chain[Len(chain)]
        BY <2>2, NonceNumbers DEF ChainIsOurs
      <3> QED
        BY <2>2, <3>1, NonceNumbers
    <2>4. \A s \in landed' : s \in landed /\ nonces'[s[2]] = nonces[s[2]]
      BY <1>2, <1>4, <2>1
    <2>5. \A k \in 1..Round' : nonces'[k] <= LastOf(chain')
      <3>1. \A k \in 1..Round' : k \in 1..Round \/ k = Round + 1
        BY <2>1, NonceNumbers
      <3> QED
        BY <1>1, <1>4, <2>1, <2>3, <3>1
    <2>6. ASSUME MaxLag = 0, NEW a \in 1..Round', NEW b \in 1..Round', a < b
          PROVE  nonces'[a] < nonces'[b]
      <3>1. CASE b \in 1..Round
        <4>1. a \in 1..Round
          BY <2>6, <3>1, NonceNumbers
        <4> QED
          BY <1>1, <2>1, <2>6, <3>1, <4>1
      <3>2. CASE b = Round + 1
        <4>1. a \in 1..Round /\ Round > 0
          BY <2>1, <2>6, <3>2, NonceNumbers
        <4>2. v = LastOf(chain)
          BY <2>2, <2>6, NonceNumbers
        <4>3. v # nonces[Round] /\ nonces[Round] <= LastOf(chain)
          BY <1>1, <2>1, <4>1, NonceNumbers DEF NotPrevious, Previous
        <4>4. a < Round => nonces[a] < nonces[Round]
          BY <1>1, <2>6, <4>1, NonceNumbers
        <4>5. nonces[a] < v
          BY <4>1, <4>2, <4>3, <4>4, NonceNumbers
        <4> QED
          BY <2>1, <3>2, <4>1, <4>5
      <3> QED
        BY <2>1, <2>6, <3>1, <3>2, NonceNumbers
    <2> QED
      BY <1>1, <1>4, <2>4, <2>5, <2>6
  <1>5. ASSUME NEW s \in Signatures, Land(s)
        PROVE  /\ \A a, b \in landed' : nonces'[a[2]] = nonces'[b[2]] => a = b
               /\ \A a \in landed' : nonces'[a[2]] < LastOf(chain')
               /\ \A k \in 1..Round' : nonces'[k] <= LastOf(chain')
               /\ MaxLag = 0 => \A i, j \in 1..Round' : i < j => nonces'[i] < nonces'[j]
    <2>1. /\ landed' = landed \cup {s} /\ nonces[s[2]] = LastOf(chain) /\ s[2] \in 1..Round
          /\ LastOf(chain') = minted + 1
      BY <1>5, LandFacts
    <2>2. LastOf(chain) < LastOf(chain')
      <3>1. chain[Len(chain)] <= minted
        BY NonceNumbers DEF ChainIsOurs
      <3> QED
        BY <2>1, <3>1, NonceNumbers
    <2>3. nonces' = nonces /\ Round' = Round
      BY <1>5 DEF Land, Round
    <2>4. ASSUME NEW a \in landed', NEW b \in landed', nonces[a[2]] = nonces[b[2]]
          PROVE  a = b
      <3>1. \A r \in landed : nonces[r[2]] # nonces[s[2]]
        BY <1>1, <1>2, <2>1, NonceNumbers
      <3> QED
        BY <1>1, <2>1, <2>4, <3>1
    <2>5. ASSUME NEW a \in landed' PROVE nonces[a[2]] < LastOf(chain')
      <3>1. a[2] \in 1..Round /\ nonces[a[2]] <= LastOf(chain)
        BY <1>1, <1>2, <2>1
      <3> QED
        BY <2>1, <2>2, <3>1, NonceNumbers
    <2>6. ASSUME NEW k \in 1..Round PROVE nonces[k] <= LastOf(chain')
      BY <1>1, <2>1, <2>2, NonceNumbers
    <2> QED
      BY <1>1, <2>3, <2>4, <2>5, <2>6
  <1>6. ~Reorg
    BY NonceNumbers DEF Reorg, ChainIsOurs
  <1> QED
    BY <1>3, <1>4, <1>5, <1>6, ChainFrame, NoncesFrame
-----------------------------------------------------------------------------
(***************************************************************************)
(* Types.                                                                  *)
(***************************************************************************)

\* Between the first nonce and the current one the account has had only nonces
\* of different rounds: so there is one left to mint.
LEMMA MintBound ==
  ASSUME TypeOK, TransactionsAreOfTheirRound, ChainIsOurs, NEW s, Land(s)
  PROVE  minted + 1 \in Nonces
  <1>1. /\ s[2] \in 1..Round /\ nonces[s[2]] = chain[Len(chain)]
    BY LandFacts
  <1>2. \A i \in 1..Len(chain) : \E k \in 1..Round : nonces[k] = chain[i]
    <2>1. \A i \in 1..Len(chain) : i \in 1..(Len(chain) - 1) \/ i = Len(chain)
      BY NonceNumbers
    <2> QED
      BY <1>1, <2>1 DEF ChainIsOurs
  <1> DEFINE roundOf == [i \in 1..Len(chain) |-> CHOOSE k \in 1..Round : nonces[k] = chain[i]]
  <1>3. \A i \in 1..Len(chain) : roundOf[i] \in 1..Round /\ nonces[roundOf[i]] = chain[i]
    BY <1>2
  <1>4. roundOf \in Injection(1..Len(chain), 1..Round)
    <2>1. roundOf \in [1..Len(chain) -> 1..Round]
      BY <1>3
    <2>2. ASSUME NEW i \in 1..Len(chain), NEW j \in 1..Len(chain), roundOf[i] = roundOf[j]
          PROVE  i = j
      <3>1. chain[i] = chain[j]
        BY <1>3, <2>2
      <3> QED
        BY <3>1, NonceNumbers DEF ChainIsOurs
    <2> HIDE DEF roundOf
    <2> QED
      BY <2>1, <2>2 DEF Injection, IsInjective
  <1> HIDE DEF roundOf
  <1>5. Len(chain) <= Round
    <2>1. /\ IsFiniteSet(1..Round) /\ Cardinality(1..Round) = Round
          /\ Cardinality(1..Len(chain)) = Len(chain)
      <3>1. Round \in Int /\ Len(chain) \in Int /\ Round \in Nat /\ Len(chain) \in Nat
        BY NonceNumbers
      <3>2. \A n \in Nat : IsFiniteSet(1..n) /\ Cardinality(1..n) = n
        <4>1. ASSUME NEW n \in Nat
              PROVE  IsFiniteSet(1..n) /\ Cardinality(1..n) = IF 1 > n THEN 0 ELSE n - 1 + 1
          <5>1. 1 \in Int /\ n \in Int
            OBVIOUS
          <5> QED
            BY <5>1, FS_Interval
        <4>2. \A n \in Nat : (IF 1 > n THEN 0 ELSE n - 1 + 1) = n
          OBVIOUS
        <4> QED
          BY <4>1, <4>2
      <3> QED
        BY <3>1, <3>2
    <2> QED
      BY <1>4, <2>1, FS_Injection
  <1>6. Round <= Transactions /\ TakenBack <= MaxReorgs /\ Transactions \in Nat /\ MaxReorgs \in Nat
    BY BenchAssumption DEF TypeOK, ChainIsOurs
  <1> QED
    BY <1>5, <1>6, NonceNumbers DEF TakenBack, Nonces

LEMMA ListenerTypes ==
  ASSUME TypeOK, ListenerStep
  PROVE  /\ listener' \in {"connecting", "running", "stopped"}
         /\ ready' \in {"pending", "sent", "dropped"}
         /\ held' \in Seq(Observations) /\ Len(held') <= 1
         /\ memo' \in Seq(Observations) /\ Len(memo') <= MemoCapacity
         /\ stream' \in Seq(Signatures)
  <1>1. /\ held \in Seq(Observations) /\ Len(held) <= 1 /\ Len(held) \in Nat
        /\ memo \in Seq(Observations) /\ Len(memo) <= MemoCapacity /\ Len(memo) \in Nat
        /\ stream \in Seq(Signatures) /\ MemoCapacity \in Nat
        /\ listener \in {"connecting", "running", "stopped"}
        /\ ready \in {"pending", "sent", "dropped"} /\ now \in 0..MaxTime
    BY BenchAssumption, LenProperties DEF TypeOK
  <1>2. CASE Subscribed \/ SilentFirstMessage \/ StreamFails \/ ListenerStops
    BY <1>1, <1>2 DEF Subscribed, SilentFirstMessage, StreamFails, ListenerStops, ListenerReturns
  <1>3. CASE ObserveMemo
    <2>1. /\ stream # <<>> /\ held' = <<Book!Observation(Head(stream), now)>>
          /\ stream' = Tail(stream) /\ UNCHANGED <<listener, ready, memo>>
      BY <1>3 DEF ObserveMemo
    <2>2. Head(stream) \in Signatures /\ Tail(stream) \in Seq(Signatures)
      BY <1>1, <2>1, HeadTailProperties
    <2>3. Book!Observation(Head(stream), now) \in Observations
      BY <1>1, <2>2 DEF Observations
    <2>4. held' \in Seq(Observations) /\ Len(held') = 1
      BY <2>1, <2>3
    <2> QED
      BY <1>1, <2>1, <2>2, <2>4
  <1>4. CASE HandOver
    <2>1. /\ Len(memo) < MemoCapacity /\ memo' = memo \o held /\ held' = <<>>
          /\ UNCHANGED <<listener, ready, stream>>
      BY <1>4 DEF HandOver, Room
    <2>2. memo' \in Seq(Observations) /\ Len(memo') = Len(memo) + Len(held)
      BY <1>1, <2>1, ConcatProperties
    <2>3. held' \in Seq(Observations) /\ Len(held') = 0
      BY <2>1
    <2> QED
      BY <1>1, <2>1, <2>2, <2>3
  <1> QED
    BY <1>2, <1>3, <1>4 DEF ListenerStep

LEMMA EndpointTypes ==
  ASSUME TypeOK, RoundsAreInStep, NEW e \in Endpoints, EndpointStep(e)
  PROVE  /\ task' \in [Endpoints -> TaskStates]
         /\ sent_at' \in [Endpoints -> 0..MaxTime]
         /\ signal' \subseteq signal
         /\ submitted' \subseteq Signatures /\ submitted \subseteq submitted'
  <1>1. /\ task \in [Endpoints -> TaskStates] /\ sent_at \in [Endpoints -> 0..MaxTime]
        /\ now \in 0..MaxTime /\ submitted \subseteq Signatures
    BY DEF TypeOK, TaskStates
  <1>2. task' = task \/ \E to \in TaskStates : task' = [task EXCEPT ![e] = to]
    BY DEF EndpointStep, Skip, BuildFails, BeginSend, NetworkAccepts, SendOk, SendErr, RecordSent,
           SelfLanded, OtherLanded, TimedOut, Move, taskVars, TaskStates, Outcomes
  <1>3. sent_at' = sent_at \/ sent_at' = [sent_at EXCEPT ![e] = now]
    BY EndpointFrame DEF BeginSend
  <1>4. signal' = signal \/ signal' = signal \ {e}
    BY DEF EndpointStep, Skip, BuildFails, BeginSend, NetworkAccepts, SendOk, SendErr, RecordSent,
           SelfLanded, OtherLanded, TimedOut, ReadsSignal, TaskOnly, stopVars
  <1>5. submitted' = submitted \/ submitted' = submitted \cup {Mine(e)}
    BY EndpointFrame DEF NetworkAccepts
  <1>6. Mine(e) \in Signatures
    BY EndpointFrame, RunningFacts
  <1> QED
    BY <1>1, <1>2, <1>3, <1>4, <1>5, <1>6

LEMMA MainTypes ==
  ASSUME TypeOK, RoundsAreInStep, MainStep
  PROVE  /\ main' \in Mains
         /\ nonces' \in Seq(Nonces) /\ Round' <= Transactions
         /\ task' \in [Endpoints -> TaskStates]
         /\ signal' \subseteq {"main", "listener"} \cup Endpoints
         /\ listener' \in {"connecting", "running", "stopped"} /\ ready' = ready
         /\ held' \in Seq(Observations) /\ Len(held') <= 1
  <1>1. /\ nonces \in Seq(Nonces) /\ Round <= Transactions /\ Transactions \in Nat
        /\ task \in [Endpoints -> TaskStates]
        /\ signal \subseteq {"main", "listener"} \cup Endpoints
        /\ listener \in {"connecting", "running", "stopped"}
        /\ held \in Seq(Observations) /\ Len(held) <= 1
    BY BenchAssumption DEF TypeOK, TaskStates
  <1>2. main' \in Mains /\ ready' = ready
    BY DEF MainStep, AwaitReady, NotReady, SetUp, SetUpFails, LoopEnds, StopRequested, NextRound,
           FetchNonce, FetchTimeout, FetchError, RoundDone, GraceOver, Close, JoinListener,
           AbortListener, Report, Goto, MainOnly, gRPCVars, Mains
  <1>3. nonces' \in Seq(Nonces) /\ Round' <= Transactions /\ task' \in [Endpoints -> TaskStates]
    <2>1. CASE FetchNonce
      <3>1. PICK v \in Nonces : /\ nonces' \in Seq(Nonces) /\ Round \in Nat /\ Round' = Round + 1
                                /\ main = "fetch" /\ task' = [e \in Endpoints |-> "spawned"]
        BY <2>1, FetchFacts
      <3>2. Round < Transactions
        BY <3>1 DEF RoundsAreInStep
      <3> QED
        BY <1>1, <3>1, <3>2 DEF TaskStates
    <2>2. CASE ~FetchNonce
      BY <1>1, <2>2, MainFrame DEF Round
    <2> QED
      BY <2>1, <2>2
  <1>4. CASE AbortListener
    <2>1. listener' = "stopped" /\ held' = <<>> /\ signal' = signal
      BY <1>4 DEF AbortListener, stopVars
    <2> QED
      BY <1>1, <1>2, <1>3, <2>1
  <1>5. CASE ~AbortListener
    <2>1. UNCHANGED <<listener, held>> /\ (signal' = signal \/ signal' = signal \cup Subscribers)
      BY <1>5 DEF MainStep, AwaitReady, NotReady, SetUp, SetUpFails, LoopEnds, StopRequested,
                  NextRound, FetchNonce, FetchTimeout, FetchError, RoundDone, GraceOver, Close,
                  JoinListener, Report, Goto, MainOnly, gRPCVars, stopVars
    <2>2. Subscribers \subseteq {"main", "listener"} \cup Endpoints
      BY DEF Subscribers
    <2> QED
      BY <1>1, <1>2, <1>3, <2>1, <2>2
  <1> QED
    BY <1>4, <1>5

LEMMA ChainTypes ==
  ASSUME TypeOK, TransactionsAreOfTheirRound, ChainIsOurs, NEW s,
         (s \in Signatures /\ Land(s)) \/ Reorg \/ Tick
  PROVE  /\ landed' \subseteq submitted
         /\ chain' \in Seq(Nonces) /\ chain' # <<>> /\ minted' \in Nonces
         /\ stream' \in Seq(Signatures) /\ now' \in 0..MaxTime
  <1>1. /\ landed \subseteq submitted /\ chain \in Seq(Nonces) /\ chain # <<>>
        /\ minted \in Nonces /\ stream \in Seq(Signatures) /\ now \in 0..MaxTime
        /\ MaxTime \in Nat
    BY BenchAssumption DEF TypeOK
  <1>2. CASE s \in Signatures /\ Land(s)
    <2>1. /\ minted' = minted + 1 /\ chain' = Append(chain, minted + 1) /\ s \in submitted
          /\ landed' = landed \cup {s} /\ now' = now
          /\ stream' = stream \/ stream' = Append(stream, s)
      BY <1>2 DEF Land
    <2>2. minted + 1 \in Nonces
      BY <1>2, MintBound
    <2>3. chain' \in Seq(Nonces) /\ Len(chain') > 0
      BY <1>1, <2>1, <2>2, AppendProperties, LenProperties
    <2>4. stream' \in Seq(Signatures)
      BY <1>1, <1>2, <2>1, AppendProperties
    <2>5. chain' # <<>>
      BY <2>3
    <2> QED
      BY <1>1, <2>1, <2>2, <2>3, <2>4, <2>5
  <1>3. CASE Reorg
    BY <1>1, <1>3, ReorgFacts DEF Reorg
  <1>4. CASE Tick
    BY <1>1, <1>4 DEF Tick
  <1> QED
    BY <1>2, <1>3, <1>4

LEMMA TypeStep ==
  ASSUME TypeOK, RoundsAreInStep, TransactionsAreOfTheirRound, ChainIsOurs, Book!TypeOK',
         [Next]_vars
  PROVE  TypeOK'
  <1>1. CASE ListenerStep
    <2>1. UNCHANGED <<main, nonces, taskVars, stopVars, chainVars>>
      BY <1>1, ListenerFrame
    <2> QED
      BY <1>1, <2>1, ListenerTypes DEF TypeOK, Round, taskVars, stopVars, chainVars
  <1>2. CASE MemoStep
    <2>1. UNCHANGED <<main, nonces, taskVars, gRPCVars, stopVars, chainVars, stream>>
      BY <1>2, MemoFrame
    <2>2. memo \in Seq(Observations) /\ memo # <<>> /\ memo' = Tail(memo) /\ Len(memo) <= MemoCapacity
          /\ Len(memo) \in Nat /\ MemoCapacity \in Nat
      BY <1>2, BenchAssumption, LenProperties DEF MemoStep, TypeOK
    <2>3. memo' \in Seq(Observations) /\ Len(memo') = Len(memo) - 1
      BY <2>2, HeadTailProperties
    <2>4. memo' \in Seq(Observations) /\ Len(memo') <= MemoCapacity
      BY <2>2, <2>3
    <2> QED
      BY <2>1, <2>4 DEF TypeOK, Round, taskVars, gRPCVars, stopVars, chainVars
  <1>3. CASE MainStep
    <2>1. UNCHANGED <<memo, ctrl_c, chainVars, stream, sent_at>>
      BY <1>3, MainFrame
    <2> QED
      BY <1>3, <2>1, MainTypes DEF TypeOK, TaskStates, chainVars
  <1>4. CASE CtrlCStep
    <2>1. UNCHANGED <<main, nonces, taskVars, gRPCVars, memo, chainVars, stream>>
      BY <1>4, CtrlCFrame
    <2>2. /\ ctrl_c' \in {"idle", "flagged", "sent"}
          /\ signal' = signal \/ signal' = signal \cup Subscribers
      BY <1>4 DEF CtrlCStep, CtrlCFlag, CtrlCBroadcast
    <2>3. signal' \subseteq {"main", "listener"} \cup Endpoints
      BY <2>2 DEF TypeOK, Subscribers
    <2> QED
      BY <2>1, <2>2, <2>3 DEF TypeOK, Round, taskVars, gRPCVars, chainVars
  <1>5. ASSUME NEW s, (s \in Signatures /\ Land(s)) \/ Reorg \/ Tick PROVE TypeOK'
    <2>1. UNCHANGED <<main, nonces, taskVars, gRPCVars, memo, stopVars, submitted>>
      BY <1>5, OutsideFrame
    <2> QED
      BY <1>5, <2>1, ChainTypes DEF TypeOK, Round, taskVars, gRPCVars, stopVars
  <1>6. ASSUME NEW e \in Endpoints, EndpointStep(e) PROVE TypeOK'
    <2>1. UNCHANGED <<main, nonces, gRPCVars, memo, ctrl_c, chain, minted, landed, stream, now>>
      BY <1>6, EndpointFrame
    <2> QED
      BY <1>6, <2>1, EndpointTypes DEF TypeOK, Round, TaskStates, gRPCVars
  <1>7. CASE UNCHANGED vars
    BY <1>7 DEF vars, TypeOK, Round, taskVars, gRPCVars, stopVars, chainVars
  <1> QED
    BY <1>1, <1>2, <1>3, <1>4, <1>5, <1>6, <1>7, StepCases
-----------------------------------------------------------------------------
(***************************************************************************)
(* What holds throughout a run.                                            *)
(***************************************************************************)

\* The parts of BenchInv need the book's invariant and each other.
RunInv == BenchInv /\ Book!BookInv

LEMMA RunInit == Init => RunInv
  <1> SUFFICES ASSUME Init PROVE RunInv
    OBVIOUS
  <1>1. Book!BookInv
    BY BookInit DEF Init
  <1>2. /\ Transactions \in Nat /\ MaxTime \in Nat /\ MaxReorgs \in Nat /\ MemoCapacity \in Nat
        /\ 0 \in 0..MaxTime /\ 0 \in Nonces
    BY BenchAssumption DEF Nonces
  <1>3. /\ sent = Book!EmptyMap /\ landed_rounds = {} /\ waiters = {} /\ acked = {}
        /\ rounds_attempted = 0 /\ round_notifiers = Book!EmptyMap
        /\ DOMAIN sent = {} /\ DOMAIN round_notifiers = {}
    BY DEF Init, Book!Init, Book!EmptyMap
  <1>4. /\ Round = 0 /\ Len(held) = 0 /\ Len(memo) = 0 /\ Len(chain) = 1 /\ chain[1] = 0
        /\ Range(held) = {} /\ Range(memo) = {} /\ Range(stream) = {}
        /\ chain # <<>> /\ LastOf(chain) = 0
    BY DEF Init, Round, Range, LastOf
  <1>5. /\ nonces \in Seq(Nonces) /\ held \in Seq(Observations) /\ memo \in Seq(Observations)
        /\ chain \in Seq(Nonces) /\ stream \in Seq(Signatures)
    BY <1>2 DEF Init
  <1>6. Book!Registered = {}
    BY <1>1, <1>3 DEF Book!Registered
  <1>7. \A e \in Endpoints : Idle(e)
    BY DEF Init, Idle
  <1>8. TypeOK
    BY <1>1, <1>2, <1>4, <1>5 DEF Init, TypeOK, Book!BookInv, Mains
  <1>9. RoundsAreInStep
    BY <1>3, <1>4, <1>7 DEF Init, RoundsAreInStep
  <1>10. TransactionsAreOfTheirRound
    BY <1>6 DEF Init, TransactionsAreOfTheirRound
  <1>11. CreditsAreLandings
    <2>1. landed = {}
      BY DEF Init
    <2> QED
      BY <1>3, <1>4, <2>1 DEF CreditsAreLandings
  <1>12. StampsAreCausal
    BY <1>3, <1>4 DEF Init, StampsAreCausal
  <1>13. StopsInOrder
    BY DEF Init, StopsInOrder
  <1>14. ChainIsOurs
    <2>1. minted = 0
      BY DEF Init
    <2>2. TakenBack = 0
      BY <1>4, <2>1 DEF TakenBack
    <2> QED
      BY <1>2, <1>4, <2>1, <2>2 DEF ChainIsOurs
  <1>15. NoncesAreUsedUp
    <2>1. landed = {}
      BY DEF Init
    <2> QED
      BY <1>4, <2>1 DEF NoncesAreUsedUp
  <1> QED
    BY <1>1, <1>8, <1>9, <1>10, <1>11, <1>12, <1>13, <1>14, <1>15 DEF RunInv, BenchInv

LEMMA RunStep == RunInv /\ [Next]_vars => RunInv'
  <1> SUFFICES ASSUME RunInv, [Next]_vars PROVE RunInv'
    OBVIOUS
  <1>1. /\ TypeOK /\ RoundsAreInStep /\ TransactionsAreOfTheirRound /\ CreditsAreLandings
        /\ StampsAreCausal /\ StopsInOrder /\ ChainIsOurs /\ NoncesAreUsedUp /\ Book!BookInv
    BY DEF RunInv, BenchInv
  <1>2. Book!BookInv'
    BY <1>1, BookCalls, BookStep
  <1>3. Book!TypeOK'
    BY <1>2 DEF Book!BookInv
  <1> QED
    BY <1>1, <1>2, <1>3, TypeStep, RoundsStep, TransactionsStep, CreditsStep, StampsStep, StopsStep,
       ChainStep, UsedUpStep
    DEF RunInv, BenchInv

LEMMA RunInvariant == Spec => []RunInv
  BY RunInit, RunStep, PTL DEF Spec

\* Types, and how the book, the tasks, the channels and the nonce account keep
\* in step, in every interleaving of the tasks of main.rs.
THEOREM BenchInvariant == Spec => []BenchInv
  <1>1. RunInv => BenchInv
    BY DEF RunInv
  <1> QED
    BY <1>1, RunInvariant, PTL

\* A run uses the book as LandingBook assumes of its callers: no transaction
\* registered twice, or in a round not started, and no observation the listener
\* did not make.
THEOREM RunsUseTheBook == Spec => FollowsBookDiscipline
  <1>1. Init => Book!Init
    BY DEF Init
  <1>2. RunInv /\ [Next]_vars => [Book!Next]_(Book!bookVars)
    BY BookCalls DEF RunInv, BenchInv
  <1> QED
    BY <1>1, <1>2, RunInvariant, PTL DEF Spec, FollowsBookDiscipline, Book!Spec

\* So everything the book keeps together holds of a run as well: nobody who
\* waits is forgotten or misled, and no landing is counted twice.
THEOREM BookHoldsInRuns == Spec => []Book!BookInv
  <1>1. RunInv => Book!BookInv
    BY DEF RunInv
  <1> QED
    BY <1>1, RunInvariant, PTL

\* And whenever a run takes its report, however its rounds, landings and
\* failures were interleaved, the report adds up and its statistics are in
\* order, the same in whatever order the providers come.
THEOREM ReportsAddUpInRuns ==
  Spec => [](BookProofs!ReportAddsUp /\ BookProofs!StatisticsAreOrdered)
  <1>1. RunInv => BookProofs!ReportAddsUp /\ BookProofs!StatisticsAreOrdered
    <2>1. RunInv => BookProofs!BookInv
      BY SameInvariant DEF RunInv
    <2> QED
      BY <2>1, BookIsWellFormed, BookProofs!BookAddsUp, BookProofs!BookOrdersStatistics
  <1> QED
    BY <1>1, RunInvariant, PTL

\* Latencies are measured, never clipped to zero by saturating_sub.
THEOREM LatenciesAreMeasured == Spec => []LatencyIsCausal
  <1>1. RunInv => LatencyIsCausal
    <2> SUFFICES ASSUME RunInv, NEW i \in 1..Len(memo), memo[i].signature \in DOMAIN sent
                 PROVE  memo[i].elapsed_since_start >= sent[memo[i].signature].sent_elapsed
      BY DEF LatencyIsCausal
    <2>1. memo \in Seq(Observations) /\ Len(memo) \in Nat /\ DOMAIN memo = 1..Len(memo)
      BY LenProperties DEF RunInv, BenchInv, TypeOK
    <2>2. memo[i] \in Range(memo) /\ memo[i] \in Observations
      BY <2>1, ElementOfSeq DEF Range
    <2>3. memo[i].elapsed_since_start \in Int
      BY <2>2, ObservationFacts
    <2>4. sent[memo[i].signature].sent_elapsed <= memo[i].elapsed_since_start
      BY <2>2 DEF RunInv, BenchInv, StampsAreCausal
    <2>5. sent[memo[i].signature].sent_elapsed \in Int
      BY DEF RunInv, BenchInv, TypeOK, Book!TypeOK, Book!SendRecord
    <2> QED
      BY <2>3, <2>4, <2>5
  <1> QED
    BY <1>1, RunInvariant, PTL

\* The report is taken when nothing can change the book any more.
THEOREM TheReportIsFinal == Spec => []ReportIsFinal
  <1>1. RunInv => ReportIsFinal
    BY DEF RunInv, BenchInv, RoundsAreInStep, StopsInOrder, ReportIsFinal
  <1> QED
    BY <1>1, RunInvariant, PTL

\* main begins no round once the Ctrl-C task has broadcast: what it sees at the
\* top of its loop is a receiver that nobody else empties.
THEOREM StopsBetweenRounds == Spec => NoRoundAfterStop
  <1>1. ASSUME RunInv, [Next]_vars, main = "top", ctrl_c = "sent" PROVE main' # "fetch"
    <2>1. "main" \in signal
      BY <1>1 DEF RunInv, BenchInv, StopsInOrder
    <2>2. ASSUME MainStep PROVE main' # "fetch"
      BY <1>1, <2>1, <2>2 DEF MainStep, AwaitReady, NotReady, SetUp, SetUpFails, LoopEnds,
                              StopRequested, NextRound, FetchNonce, FetchTimeout, FetchError,
                              RoundDone, GraceOver, Close, JoinListener, AbortListener, Report, Goto
    <2>3. ListenerStep \/ CtrlCStep \/ MemoStep \/ UNCHANGED vars => main' = main
      BY ListenerFrame, CtrlCFrame, MemoFrame DEF vars
    <2>4. ASSUME NEW e \in Endpoints, EndpointStep(e) PROVE main' = main
      BY <2>4, EndpointFrame
    <2>5. ASSUME NEW s, Land(s) \/ Reorg \/ Tick PROVE main' = main
      BY <2>5, OutsideFrame
    <2> QED
      BY <1>1, <2>2, <2>3, <2>4, <2>5, StepCases
  <1>2. RunInv /\ [Next]_vars => [main = "top" /\ ctrl_c = "sent" => main' # "fetch"]_vars
    BY <1>1
  <1> QED
    BY <1>2, RunInvariant, PTL DEF Spec, NoRoundAfterStop

\* No round is built on the nonce of an earlier one when the cluster keeps to
\* one fork and the RPC node that main asks does not lag behind it.
THEOREM FreshWithoutForksAndLag ==
  ASSUME MaxReorgs = 0, MaxLag = 0
  PROVE  Spec => []NoncesAreFresh
  <1>1. RunInv => NoncesAreFresh
    <2> SUFFICES ASSUME RunInv, NEW i \in 1..Round, NEW j \in 1..Round, nonces[i] = nonces[j]
                 PROVE  i = j
      BY DEF NoncesAreFresh
    <2>1. TypeOK /\ NoncesAreUsedUp
      BY DEF RunInv, BenchInv
    <2>2. (i < j => nonces[i] < nonces[j]) /\ (j < i => nonces[j] < nonces[i])
      BY <2>1 DEF NoncesAreUsedUp
    <2> QED
      BY <2>1, <2>2, NonceNumbers
  <1> QED
    BY <1>1, RunInvariant, PTL

\* Without forks a round is won by one endpoint at most, even when lag makes
\* two rounds share a nonce: the landings of all endpoints add up to the landed
\* rounds of the report.
THEOREM OneWinnerWithoutForks ==
  ASSUME MaxReorgs = 0
  PROVE  Spec => []OneWinnerPerRound
  <1>1. RunInv => OneWinnerPerRound
    <2> SUFFICES ASSUME RunInv PROVE Cardinality(acked) = Cardinality(landed_rounds)
      BY DEF OneWinnerPerRound
    <2>1. /\ acked \subseteq landed /\ landed_rounds = {nonces[s[2]] : s \in acked}
          /\ \A s, t \in landed : nonces[s[2]] = nonces[t[2]] => s = t
      BY DEF RunInv, BenchInv, CreditsAreLandings, NoncesAreUsedUp
    <2>2. IsFiniteSet(acked)
      <3>1. acked \subseteq Signatures
        BY <2>1 DEF RunInv, BenchInv, TypeOK
      <3>2. IsFiniteSet(Signatures)
        BY BookIsWellFormed DEF BookProofs!BookAssumption, BookProofs!IsFiniteSet, IsFiniteSet
      <3> QED
        BY <3>1, <3>2, FS_Subset
    <2> DEFINE round == [s \in acked |-> nonces[s[2]]]
    <2>3. round \in Surjection(acked, landed_rounds) /\ round \in Injection(acked, landed_rounds)
      BY <2>1 DEF Surjection, Injection, IsInjective
    <2> HIDE DEF round
    <2> QED
      BY <2>2, <2>3, FS_Surjection
  <1> QED
    BY <1>1, RunInvariant, PTL

\* When no two endpoints share a name, cut at the bar, the count the report
\* prints per name is what that endpoint landed.
THEOREM DistinctNamesCountPerEndpoint ==
  ASSUME \A e, f \in Endpoints : NameOf[e] = NameOf[f] => e = f
  PROVE  Spec => []PerEndpointCounts
  <1>1. RunInv => PerEndpointCounts
    <2> SUFFICES ASSUME RunInv, NEW e \in Endpoints
                 PROVE  Book!Wins(NameOf[e]) = Cardinality({s \in acked \cap landed : s[1] = e})
      BY DEF PerEndpointCounts
    <2>1. acked \subseteq landed /\ landed \subseteq Signatures
      BY DEF RunInv, BenchInv, CreditsAreLandings, TypeOK
    <2>2. Book!Wins(NameOf[e])
            = Book!Cardinality({s \in acked : [r \in Signatures |-> NameOf[r[1]]][s] = NameOf[e]})
      BY DEF RunInv, Book!BookInv, Book!WinsAreDistinctLandings
    <2>3. {s \in acked : [r \in Signatures |-> NameOf[r[1]]][s] = NameOf[e]}
            = {s \in acked \cap landed : s[1] = e}
      BY <2>1 DEF Signatures
    <2>4. \A S : Book!Cardinality(S) = Cardinality(S)
      BY DEF Book!Cardinality, Cardinality
    <2> QED
      BY <2>2, <2>3, <2>4
  <1> QED
    BY <1>1, RunInvariant, PTL
-----------------------------------------------------------------------------
(***************************************************************************)
(* Progress: the steps a run has left.                                     *)
(***************************************************************************)
LEMMA FuturesLeftAreFinite ==
  /\ IsFiniteSet(FuturesLeft) /\ Cardinality(FuturesLeft) \in Nat
  /\ IsFiniteSet(Endpoints \X (1..5)) /\ Cardinality(Endpoints) \in Nat
  /\ Cardinality(Endpoints \X (1..5)) = 5 * Cardinality(Endpoints)
  <1>1. IsFiniteSet(1..5) /\ Cardinality(1..5) = 5
    <2>1. ASSUME NEW n \in Int, n = 5
          PROVE  IsFiniteSet(1..n) /\ Cardinality(1..n) = IF 1 > n THEN 0 ELSE n - 1 + 1
      BY FS_Interval
    <2> QED
      BY <2>1
  <1>2. IsFiniteSet(Endpoints) /\ Cardinality(Endpoints) \in Nat
    BY BenchAssumption, FS_CardinalityType
  <1>3. /\ IsFiniteSet(Endpoints \X (1..5))
        /\ Cardinality(Endpoints \X (1..5)) = Cardinality(Endpoints) * Cardinality(1..5)
    BY <1>1, <1>2, FS_Product
  <1>4. FuturesLeft \subseteq Endpoints \X (1..5)
    BY DEF FuturesLeft
  <1>5. IsFiniteSet(FuturesLeft)
    BY <1>3, <1>4, FS_Subset
  <1>6. Cardinality(FuturesLeft) \in Nat
    BY <1>5, FS_CardinalityType
  <1>7. Cardinality(Endpoints \X (1..5)) = 5 * Cardinality(Endpoints)
    BY <1>1, <1>2, <1>3
  <1> QED
    BY <1>2, <1>3, <1>5, <1>6, <1>7

LEMMA FutureLeftType == \A e \in Endpoints : FutureLeft(e) \in 0..5
  BY DEF FutureLeft

\* What the measure is made of.
LEMMA PartsAreNatural ==
  TypeOK /\ ChainIsOurs =>
    /\ RoundsLeft \in Nat /\ MainLeft \in Nat /\ Cardinality(FuturesLeft) \in Nat
    /\ ListenLeft \in Nat /\ StopLeft \in Nat /\ OutsideLeft \in Nat
  <1> SUFFICES ASSUME TypeOK, ChainIsOurs
               PROVE  /\ RoundsLeft \in Nat /\ MainLeft \in Nat /\ ListenLeft \in Nat
                      /\ StopLeft \in Nat /\ OutsideLeft \in Nat
    BY FuturesLeftAreFinite
  <1>1. /\ Transactions \in Nat /\ MaxReorgs \in Nat /\ MaxTime \in Nat
        /\ Round \in Nat /\ Round <= Transactions
    BY BenchAssumption, LenProperties DEF TypeOK, Round
  <1>2. RoundsLeft \in Nat
    <2> DEFINE n == Transactions - Round
               m == 5 * Cardinality(Endpoints) + 3
    <2>1. n \in Nat /\ m \in Nat
      BY <1>1, FuturesLeftAreFinite
    <2> HIDE DEF n, m
    <2>2. m * n \in Nat
      BY <2>1
    <2> QED
      BY <2>2 DEF RoundsLeft, n, m
  <1>3. MainLeft \in Nat
    BY DEF MainLeft, TypeOK, Mains
  <1>4. StopLeft \in Nat
    BY DEF StopLeft, TypeOK
  <1>5. ListenLeft \in Nat
    <2> DEFINE i == [connecting |-> 2, running |-> 1, stopped |-> 0][listener]
               j == Len(stream)
               k == Len(held)
               l == Len(memo)
    <2>1. i \in Nat /\ j \in Nat /\ k \in Nat /\ l \in Nat
      BY LenProperties DEF TypeOK
    <2>2. ListenLeft = i + 3 * j + 2 * k + l
      BY DEF ListenLeft
    <2> HIDE DEF i, j, k, l
    <2> QED
      BY <2>1, <2>2
  <1>6. OutsideLeft \in Nat
    <2> DEFINE t == TakenBack
    <2>1. t \in 0..MaxReorgs /\ minted \in 0..(Transactions + MaxReorgs) /\ now \in 0..MaxTime
      BY DEF ChainIsOurs, TypeOK, Nonces
    <2>2. OutsideLeft = 4 * (Transactions + MaxReorgs - minted) + (MaxReorgs - t)
                          + (MaxTime - now)
      BY DEF OutsideLeft
    <2> HIDE DEF t
    <2> QED
      BY <1>1, <2>1, <2>2
  <1> QED
    BY <1>2, <1>3, <1>4, <1>5, <1>6

\* A future that gets on has fewer steps left than it had, and so have all.
LEMMA FutureGetsOn ==
  ASSUME NEW e \in Endpoints, FutureLeft(e)' < FutureLeft(e),
         \A f \in Endpoints : f # e => FutureLeft(f)' = FutureLeft(f)
  PROVE  Cardinality(FuturesLeft') < Cardinality(FuturesLeft)
  <1> DEFINE Left(f)  == FutureLeft(f)
             Later(f) == FutureLeft(f)'
  <1>1. \A f \in Endpoints : Left(f) \in 0..5 /\ Later(f) \in 0..5
    BY DEF FutureLeft
  <1>2. Later(e) < Left(e) /\ \A f \in Endpoints : f # e => Later(f) = Left(f)
    OBVIOUS
  <1>3. FuturesLeft = {s \in Endpoints \X (1..5) : s[2] <= Left(s[1])}
    BY DEF FuturesLeft
  <1>4. FuturesLeft' = {s \in Endpoints \X (1..5) : s[2] <= Later(s[1])}
    BY DEF FuturesLeft
  <1> HIDE DEF Left, Later
  <1>5. FuturesLeft' \subseteq FuturesLeft
    BY <1>1, <1>2, <1>3, <1>4
  <1>6. <<e, Left(e)>> \in FuturesLeft /\ <<e, Left(e)>> \notin FuturesLeft'
    BY <1>1, <1>2, <1>3, <1>4
  <1>7. IsFiniteSet(FuturesLeft)
    BY FuturesLeftAreFinite
  <1>8. /\ IsFiniteSet(FuturesLeft') /\ Cardinality(FuturesLeft') <= Cardinality(FuturesLeft)
        /\ Cardinality(FuturesLeft') # Cardinality(FuturesLeft)
    BY <1>5, <1>6, <1>7, FS_Subset
  <1>9. Cardinality(FuturesLeft') \in Nat /\ Cardinality(FuturesLeft) \in Nat
    BY <1>7, <1>8, FS_CardinalityType
  <1> QED
    BY <1>8, <1>9

\* A step that gets on with one part and adds no more to another is progress.
LEMMA Progress ==
  ASSUME TypeOK, ChainIsOurs, TypeOK', ChainIsOurs',
         RoundsLeft' + MainLeft' + Cardinality(FuturesLeft') + ListenLeft' + StopLeft'
             + OutsideLeft'
           < RoundsLeft + MainLeft + Cardinality(FuturesLeft) + ListenLeft + StopLeft
             + OutsideLeft
  PROVE  WorkLeft' \in Nat /\ WorkLeft' < WorkLeft
  <1>1. (TypeOK /\ ChainIsOurs =>
           /\ RoundsLeft \in Nat /\ MainLeft \in Nat /\ Cardinality(FuturesLeft) \in Nat
           /\ ListenLeft \in Nat /\ StopLeft \in Nat /\ OutsideLeft \in Nat)'
    BY PartsAreNatural, PTL
  <1> QED
    BY <1>1 DEF WorkLeft

\* What a step leaves alone, it leaves as far from the end.
LEMMA PartsStay ==
  /\ UNCHANGED nonces => RoundsLeft' = RoundsLeft
  /\ UNCHANGED main => MainLeft' = MainLeft
  /\ UNCHANGED <<task, nonces, submitted>> => FuturesLeft' = FuturesLeft
  /\ UNCHANGED <<listener, stream, held, memo>> => ListenLeft' = ListenLeft
  /\ UNCHANGED ctrl_c => StopLeft' = StopLeft
  /\ UNCHANGED <<chain, minted, now>> => OutsideLeft' = OutsideLeft
  <1>1. UNCHANGED nonces => RoundsLeft' = RoundsLeft
    BY DEF RoundsLeft, Round
  <1>2. UNCHANGED main => MainLeft' = MainLeft
    BY DEF MainLeft
  <1>3. UNCHANGED <<task, nonces, submitted>> => FuturesLeft' = FuturesLeft
    BY DEF FuturesLeft, FutureLeft, Mine, Round
  <1>4. UNCHANGED <<listener, stream, held, memo>> => ListenLeft' = ListenLeft
    BY DEF ListenLeft
  <1>5. UNCHANGED ctrl_c => StopLeft' = StopLeft
    BY DEF StopLeft
  <1>6. UNCHANGED <<chain, minted, now>> => OutsideLeft' = OutsideLeft
    BY DEF OutsideLeft, TakenBack
  <1> QED
    BY <1>1, <1>2, <1>3, <1>4, <1>5, <1>6

LEMMA ListenerGetsOn ==
  ASSUME TypeOK, ListenerStep
  PROVE  ListenLeft' < ListenLeft
  <1> DEFINE L == [connecting |-> 2, running |-> 1, stopped |-> 0]
  <1>1. /\ L["connecting"] = 2 /\ L["running"] = 1 /\ L["stopped"] = 0
        /\ ListenLeft = L[listener] + 3 * Len(stream) + 2 * Len(held) + Len(memo)
        /\ ListenLeft' = L[listener'] + 3 * Len(stream') + 2 * Len(held') + Len(memo')
    BY DEF ListenLeft
  <1>2. Len(stream) \in Nat /\ Len(held) \in Nat /\ Len(memo) \in Nat
    BY LenProperties DEF TypeOK
  <1>3. stream \in Seq(Signatures) /\ held \in Seq(Observations) /\ memo \in Seq(Observations)
    BY DEF TypeOK
  <1> HIDE DEF L
  <1>4. CASE Subscribed \/ SilentFirstMessage \/ StreamFails \/ ListenerStops
    <2>1. UNCHANGED <<stream, held, memo>> /\ L[listener'] < L[listener]
      BY <1>1, <1>4 DEF Subscribed, SilentFirstMessage, StreamFails, ListenerStops,
                        ListenerReturns
    <2>2. L[listener] \in Int /\ L[listener'] \in Int
      BY <1>1, <1>4 DEF Subscribed, SilentFirstMessage, StreamFails, ListenerStops,
                        ListenerReturns
    <2> QED
      BY <1>1, <1>2, <2>1, <2>2
  <1>5. CASE ObserveMemo
    <2>1. /\ UNCHANGED <<listener, memo>> /\ listener = "running" /\ held = <<>>
          /\ stream # <<>> /\ stream' = Tail(stream)
          /\ held' = <<Book!Observation(Head(stream), now)>>
      BY <1>5 DEF ObserveMemo
    <2>2. Len(stream') = Len(stream) - 1
      BY <1>3, <2>1, HeadTailProperties
    <2>3. Len(held) = 0 /\ Len(held') = 1
      BY <2>1
    <2> QED
      BY <1>1, <1>2, <2>1, <2>2, <2>3
  <1>6. CASE HandOver
    <2>1. /\ UNCHANGED <<listener, stream>> /\ listener = "running" /\ held # <<>>
          /\ memo' = memo \o held /\ held' = <<>>
      BY <1>6 DEF HandOver
    <2>2. Len(memo') = Len(memo) + Len(held) /\ Len(held) # 0 /\ Len(held') = 0
      BY <1>3, <2>1, ConcatProperties, EmptySeq
    <2> QED
      BY <1>1, <1>2, <2>1, <2>2
  <1> QED
    BY <1>4, <1>5, <1>6 DEF ListenerStep

LEMMA MemoGetsOn ==
  ASSUME TypeOK, MemoStep
  PROVE  ListenLeft' < ListenLeft
  <1> DEFINE l == [connecting |-> 2, running |-> 1, stopped |-> 0][listener]
  <1>1. l \in Int /\ Len(stream) \in Nat /\ Len(held) \in Nat /\ Len(memo) \in Nat
    BY LenProperties DEF TypeOK
  <1>2. UNCHANGED <<listener, stream, held>> /\ memo # <<>> /\ memo' = Tail(memo)
    BY MemoFrame DEF MemoStep, gRPCVars
  <1>3. Len(memo') = Len(memo) - 1
    BY <1>2, HeadTailProperties DEF TypeOK
  <1>4. /\ ListenLeft = l + 3 * Len(stream) + 2 * Len(held) + Len(memo)
        /\ ListenLeft' = l + 3 * Len(stream) + 2 * Len(held) + Len(memo')
    BY <1>2 DEF ListenLeft
  <1> HIDE DEF l
  <1> QED
    BY <1>1, <1>3, <1>4

LEMMA CtrlCGetsOn == CtrlCStep => StopLeft' < StopLeft
  BY DEF CtrlCStep, CtrlCFlag, CtrlCBroadcast, StopLeft

LEMMA EndpointGetsOn ==
  ASSUME TypeOK, NEW e \in Endpoints, EndpointStep(e)
  PROVE  Cardinality(FuturesLeft') < Cardinality(FuturesLeft)
  <1>1. task \in [Endpoints -> TaskStates] /\ UNCHANGED nonces
    BY EndpointFrame DEF TypeOK, TaskStates
  <1>2. /\ Mine(e)' = Mine(e)
        /\ \A f \in Endpoints : Mine(f)' = Mine(f) /\ (f # e => Mine(f) # Mine(e))
    BY <1>1 DEF Mine, Round
  <1>3. /\ submitted \subseteq submitted' /\ submitted' \subseteq submitted \cup {Mine(e)}
        /\ \A f \in Endpoints : f # e => task'[f] = task[f]
    BY <1>1 DEF EndpointStep, Skip, BuildFails, BeginSend, NetworkAccepts, SendOk, SendErr,
                RecordSent, SelfLanded, OtherLanded, TimedOut, Move, ReadsSignal, TaskOnly,
                chainVars, taskVars
  <1>4. \A f \in Endpoints : f # e => FutureLeft(f)' = FutureLeft(f)
    BY <1>2, <1>3 DEF FutureLeft
  <1>5. \/ task[e] = "spawned" /\ task'[e] \in {"skipped", "invalid", "sending"}
        \/ /\ task[e] = "sending" /\ task'[e] = "sending"
           /\ Mine(e) \notin submitted /\ Mine(e) \in submitted'
        \/ task[e] = "sending" /\ task'[e] \in {"sent", "failed"}
        \/ task[e] = "sent" /\ task'[e] = "waiting"
        \/ task[e] = "waiting" /\ task'[e] \in {"self", "other", "timeout"}
    BY <1>1 DEF EndpointStep, Skip, BuildFails, BeginSend, NetworkAccepts, SendOk, SendErr,
                RecordSent, SelfLanded, OtherLanded, TimedOut, Move, taskVars
  <1>6. FutureLeft(e)' < FutureLeft(e)
    BY <1>2, <1>5 DEF FutureLeft
  <1> QED
    BY <1>4, <1>6, FutureGetsOn

LEMMA MainGetsOn ==
  ASSUME TypeOK, MainStep, ~FetchNonce
  PROVE  /\ MainLeft' < MainLeft
         /\ UNCHANGED <<listener, stream, held, memo>> \/ ListenLeft' <= ListenLeft
  <1>1. MainLeft' < MainLeft
    BY DEF MainStep, AwaitReady, NotReady, SetUp, SetUpFails, LoopEnds, StopRequested, NextRound,
           FetchTimeout, FetchError, RoundDone, GraceOver, Close, JoinListener, AbortListener,
           Report, Goto, MainLeft
  <1>2. CASE AbortListener
    <2> DEFINE L == [connecting |-> 2, running |-> 1, stopped |-> 0]
    <2>1. /\ ListenLeft = L[listener] + 3 * Len(stream) + 2 * Len(held) + Len(memo)
          /\ ListenLeft' = L[listener'] + 3 * Len(stream') + 2 * Len(held') + Len(memo')
      BY DEF ListenLeft
    <2>2. L["stopped"] = 0 /\ L[listener] \in Nat
      BY DEF TypeOK
    <2> HIDE DEF L
    <2>3. listener' = "stopped" /\ held' = <<>> /\ UNCHANGED <<stream, memo>>
      BY <1>2 DEF AbortListener
    <2>4. Len(stream) \in Nat /\ Len(held) \in Nat /\ Len(memo) \in Nat /\ Len(held') = 0
      BY <2>3, LenProperties, EmptySeq DEF TypeOK
    <2> QED
      BY <1>1, <2>1, <2>2, <2>3, <2>4
  <1>3. CASE ~AbortListener
    <2>1. UNCHANGED <<listener, stream, held, memo>>
      BY <1>3 DEF MainStep, AwaitReady, NotReady, SetUp, SetUpFails, LoopEnds, StopRequested,
                  NextRound, FetchTimeout, FetchError, RoundDone, GraceOver, Close, JoinListener,
                  Report, Goto, MainOnly, gRPCVars
    <2> QED
      BY <1>1, <2>1, PartsStay
  <1> QED
    BY <1>2, <1>3

\* A round begins with five steps for each future and two more for main than
\* it had left, all of them out of the share of that round.
LEMMA RoundBegins ==
  ASSUME TypeOK, FetchNonce
  PROVE  /\ RoundsLeft' + Cardinality(FuturesLeft') = RoundsLeft - 3
         /\ MainLeft' = MainLeft + 2
         /\ UNCHANGED <<listener, stream, held, memo, ctrl_c, chain, minted, now>>
  <1>1. PICK v \in Nonces : /\ Round \in Nat /\ Round' = Round + 1
                            /\ main = "fetch" /\ main' = "collect"
                            /\ task' = [e \in Endpoints |-> "spawned"]
                            /\ UNCHANGED <<sent_at, gRPCVars, memo, stopVars, chainVars, stream>>
    BY FetchFacts
  <1>2. FuturesLeft' = Endpoints \X (1..5)
    <2>1. \A e \in Endpoints : FutureLeft(e)' = 5
      BY <1>1 DEF FutureLeft
    <2> QED
      BY <2>1 DEF FuturesLeft
  <1>3. Cardinality(FuturesLeft') = 5 * Cardinality(Endpoints) /\ Cardinality(Endpoints) \in Nat
    BY <1>2, FuturesLeftAreFinite
  <1>4. RoundsLeft' = RoundsLeft - (5 * Cardinality(Endpoints) + 3)
    <2> DEFINE m == 5 * Cardinality(Endpoints) + 3
               n == Transactions - Round
    <2>1. m \in Int /\ n \in Int /\ RoundsLeft = m * n
      BY <1>1, <1>3, BenchAssumption DEF RoundsLeft
    <2>2. RoundsLeft' = m * (n - 1)
      <3>1. Transactions - Round' = n - 1
        BY <1>1, BenchAssumption
      <3> QED
        BY <3>1 DEF RoundsLeft
    <2> HIDE DEF m, n
    <2>3. m * (n - 1) = m * n - m
      BY <2>1
    <2> QED
      BY <2>1, <2>2, <2>3 DEF m
  <1>5. RoundsLeft \in Int
    <2> DEFINE m == 5 * Cardinality(Endpoints) + 3
               n == Transactions - Round
    <2>1. m \in Int /\ n \in Int
      BY <1>1, <1>3, BenchAssumption
    <2> HIDE DEF m, n
    <2>2. m * n \in Int
      BY <2>1
    <2> QED
      BY <2>2 DEF RoundsLeft, m, n
  <1>6. MainLeft' = MainLeft + 2
    BY <1>1 DEF MainLeft
  <1> QED
    BY <1>1, <1>3, <1>4, <1>5, <1>6 DEF gRPCVars, stopVars, chainVars

LEMMA OutsideGetsOn ==
  ASSUME TypeOK, ChainIsOurs, Reorg \/ Tick
  PROVE  OutsideLeft' < OutsideLeft
  <1>1. /\ Transactions \in Nat /\ MaxReorgs \in Nat /\ MaxTime \in Nat
        /\ minted \in Int /\ now \in Int /\ Len(chain) \in Nat /\ chain \in Seq(Nonces)
    BY BenchAssumption, LenProperties DEF TypeOK, Nonces
  <1>2. CASE Reorg
    <2>1. UNCHANGED <<minted, now>> /\ Len(chain) > 1 /\ chain' = SubSeq(chain, 1, Len(chain) - 1)
      BY <1>2 DEF Reorg
    <2>2. Len(chain') = Len(chain) - 1
      BY <1>1, <2>1, SubSeqProperties
    <2>3. TakenBack' = TakenBack + 1 /\ TakenBack \in Int
      <3>1. minted' = minted
        BY <2>1
      <3> QED
        BY <1>1, <2>2, <3>1 DEF TakenBack
    <2>4. UNCHANGED <<minted, now>>
      BY <2>1
    <2> QED
      BY <1>1, <2>3, <2>4 DEF OutsideLeft
  <1>3. CASE Tick
    BY <1>1, <1>3 DEF Tick, OutsideLeft, TakenBack
  <1> QED
    BY <1>2, <1>3

\* A landing uses up one of those to come, and at most one delivery is added.
LEMMA LandingGetsOn ==
  ASSUME TypeOK, NEW s \in Signatures, Land(s)
  PROVE  OutsideLeft' = OutsideLeft - 4 /\ ListenLeft' <= ListenLeft + 3
  <1>1. /\ Transactions \in Nat /\ MaxReorgs \in Nat /\ MaxTime \in Nat
        /\ minted \in Int /\ now \in Int /\ Len(chain) \in Nat /\ chain \in Seq(Nonces)
        /\ stream \in Seq(Signatures) /\ Len(stream) \in Nat /\ Len(held) \in Nat
        /\ Len(memo) \in Nat
    BY BenchAssumption, LenProperties DEF TypeOK, Nonces
  <1>2. /\ minted' = minted + 1 /\ chain' = Append(chain, minted + 1) /\ now' = now
        /\ stream' \in {stream, Append(stream, s)} /\ UNCHANGED <<listener, held, memo>>
    BY DEF Land, gRPCVars
  <1>3. Len(chain') = Len(chain) + 1
    BY <1>1, <1>2, AppendProperties
  <1>4. OutsideLeft' = OutsideLeft - 4
    BY <1>1, <1>2, <1>3 DEF OutsideLeft, TakenBack
  <1>5. Len(stream') \in Nat /\ Len(stream') <= Len(stream) + 1
    BY <1>1, <1>2, AppendProperties
  <1>6. ListenLeft' <= ListenLeft + 3
    <2> DEFINE l == [connecting |-> 2, running |-> 1, stopped |-> 0][listener]
    <2>1. /\ ListenLeft = l + 3 * Len(stream) + 2 * Len(held) + Len(memo)
          /\ ListenLeft' = l + 3 * Len(stream') + 2 * Len(held) + Len(memo)
      BY <1>2 DEF ListenLeft
    <2>2. l \in Int
      BY DEF TypeOK
    <2> HIDE DEF l
    <2> QED
      BY <1>1, <1>5, <2>1, <2>2
  <1> QED
    BY <1>4, <1>6

\* Every step is progress, whoever takes it: with what fails, what is taken
\* back and how far the clock runs bounded, a run is over, or stuck, after a
\* number of steps known at its start.
THEOREM StepsRunOut == Spec => EveryStepIsProgress
  <1>1. ASSUME RunInv, RunInv', [Next]_vars, ~UNCHANGED vars
        PROVE  WorkLeft' \in Nat /\ WorkLeft' < WorkLeft
    <2>1. TypeOK /\ ChainIsOurs /\ TypeOK' /\ ChainIsOurs'
      BY <1>1 DEF RunInv, BenchInv
    <2>2. /\ RoundsLeft \in Nat /\ MainLeft \in Nat /\ Cardinality(FuturesLeft) \in Nat
          /\ ListenLeft \in Nat /\ StopLeft \in Nat /\ OutsideLeft \in Nat
      BY <2>1, PartsAreNatural
    <2>3. (TypeOK /\ ChainIsOurs =>
             /\ RoundsLeft \in Nat /\ MainLeft \in Nat /\ Cardinality(FuturesLeft) \in Nat
             /\ ListenLeft \in Nat /\ StopLeft \in Nat /\ OutsideLeft \in Nat)'
      BY PartsAreNatural, PTL
    <2>4. CASE ListenerStep
      <3>1. UNCHANGED <<main, nonces, task, submitted, ctrl_c, chain, minted, now>>
        BY <2>4, ListenerFrame DEF taskVars, stopVars, chainVars
      <3> QED
        BY <2>1, <2>2, <2>3, <2>4, <3>1, ListenerGetsOn, PartsStay, Progress
    <2>5. CASE MemoStep
      <3>1. UNCHANGED <<main, nonces, task, submitted, ctrl_c, chain, minted, now>>
        BY <2>5, MemoFrame DEF taskVars, stopVars, chainVars
      <3> QED
        BY <2>1, <2>2, <2>3, <2>5, <3>1, MemoGetsOn, PartsStay, Progress
    <2>6. CASE CtrlCStep
      <3>1. UNCHANGED <<main, nonces, task, submitted, listener, stream, held, memo, chain, minted,
                        now>>
        BY <2>6, CtrlCFrame DEF taskVars, gRPCVars, chainVars
      <3> QED
        BY <2>1, <2>2, <2>3, <2>6, <3>1, CtrlCGetsOn, PartsStay, Progress
    <2>7. ASSUME NEW e \in Endpoints, EndpointStep(e) PROVE WorkLeft' \in Nat /\ WorkLeft' < WorkLeft
      <3>1. UNCHANGED <<main, nonces, listener, stream, held, memo, ctrl_c, chain, minted, now>>
        BY <2>7, EndpointFrame DEF gRPCVars
      <3>2. Cardinality(FuturesLeft') < Cardinality(FuturesLeft)
        BY <2>1, <2>7, EndpointGetsOn
      <3> QED
        BY <2>1, <2>2, <2>3, <3>1, <3>2, PartsStay, Progress
    <2>8. CASE MainStep /\ ~FetchNonce
      <3>1. UNCHANGED <<nonces, task, submitted, ctrl_c, chain, minted, now>>
        BY <2>8, MainFrame DEF chainVars
      <3> QED
        BY <2>1, <2>2, <2>3, <2>8, <3>1, MainGetsOn, PartsStay, Progress
    <2>9. CASE FetchNonce
      BY <2>1, <2>2, <2>3, <2>9, RoundBegins, PartsStay, Progress
    <2>10. CASE Reorg \/ Tick
      <3>1. /\ UNCHANGED <<main, nonces, task, submitted, listener, held, memo, ctrl_c>>
            /\ UNCHANGED stream
        BY <2>10, OutsideFrame DEF taskVars, gRPCVars, stopVars, Reorg, Tick
      <3> QED
        BY <2>1, <2>2, <2>3, <2>10, <3>1, OutsideGetsOn, PartsStay, Progress
    <2>11. ASSUME NEW s \in Signatures, Land(s) PROVE WorkLeft' \in Nat /\ WorkLeft' < WorkLeft
      <3>1. UNCHANGED <<main, nonces, task, submitted, ctrl_c>>
        BY <2>11, OutsideFrame DEF taskVars, gRPCVars, stopVars
      <3>2. OutsideLeft' = OutsideLeft - 4 /\ ListenLeft' <= ListenLeft + 3
        BY <2>1, <2>11, LandingGetsOn
      <3> QED
        BY <2>1, <2>2, <2>3, <3>1, <3>2, PartsStay, Progress
    <2> QED
      BY <1>1, <2>4, <2>5, <2>6, <2>7, <2>8, <2>9, <2>10, <2>11, StepCases
  <1>2. RunInv /\ RunInv' /\ [Next]_vars => [WorkLeft' \in Nat /\ WorkLeft' < WorkLeft]_vars
    BY <1>1
  <1> QED
    BY <1>2, RunInvariant, PTL DEF Spec, EveryStepIsProgress
=============================================================================
