----------------------------- MODULE LandingBook -----------------------------
(***************************************************************************)
(* The LandingBook of src/src/main.rs: the ledger, behind one mutex, in    *)
(* which the benchmark registers what it sent and credits what landed.     *)
(* Every method takes the lock for its whole body, so each is one action.  *)
(*                                                                         *)
(* start_round is called by the main loop, record_send by the endpoint     *)
(* futures once a send has returned, record_landing by the memo task for   *)
(* every observation of the gRPC listener, finalize once at the end.       *)
(*                                                                         *)
(* A definition printed just above another with the same parameters        *)
(* (InsertNotifier, ResetMetrics, ...) is a plausible mistake in it, used  *)
(* only to show that some property notices.                                *)
(***************************************************************************)
EXTENDS Integers, Sequences, FiniteSets, HashMaps, MemoTag

CONSTANTS
  Signatures,   \* transaction signatures the benchmark may produce
  Names,        \* endpoint ("provider") names
  ProviderOf,   \* the endpoint name in whose tag a signature was built
  Rounds,       \* round ids: the nonce hashes rounds are built on
  Times,        \* elapsed times since the start of the run
  MaxAttempts   \* bound on the calls to start_round

\* A definition of its own: who instantiates the book can prove it.
BookAssumption ==
  /\ IsFiniteSet(Signatures)
  /\ ProviderOf \in [Signatures -> Names]
  /\ Times \subseteq Nat
  /\ MaxAttempts \in Nat

ASSUME BookAssumption

VARIABLES
  sent,             \* signature -> SendRecord, for landings still awaited
  metrics,          \* name -> ProviderMetrics
  rounds_attempted, \* number of start_round calls
  landed_rounds,    \* ids of rounds with a credited landing
  waiters,          \* signatures whose oneshot sender is in the book
  round_notifiers,  \* round id -> signatures subscribed to its watch channel
  acked,            \* signatures whose oneshot receiver was sent ()
  notified          \* signatures whose watch receiver was sent true

bookVars == <<sent, metrics, rounds_attempted, landed_rounds, waiters,
              round_notifiers, acked, notified>>

Init ==
  /\ sent = EmptyMap
  /\ metrics = EmptyMap
  /\ rounds_attempted = 0
  /\ landed_rounds = {}
  /\ waiters = {}
  /\ round_notifiers = EmptyMap
  /\ acked = {}
  /\ notified = {}
-----------------------------------------------------------------------------
(***************************************************************************)
(* Data                                                                    *)
(***************************************************************************)

\* ProviderMetrics::default()
NoMetrics == [landed |-> 0, latencies_ms |-> <<>>]

\* The memo of a transaction: what its random part is does not matter here.
Payload(name) == Tagged(name, "random")

\* obs.elapsed_since_start.saturating_sub(send.sent_elapsed)
Latency(observed, sent_elapsed) ==
  IF observed < sent_elapsed THEN 0 ELSE observed - sent_elapsed

\* One more landing in the metrics of a provider.
Credited(m, latency) ==
  [landed |-> m.landed + 1, latencies_ms |-> Append(m.latencies_ms, latency)]

\* round_notifiers.entry(round_id).or_insert_with(watch::channel(false))
InsertNotifier(round_id) == Insert(round_notifiers, round_id, {})
WithNotifier(round_id) == OrInsert(round_notifiers, round_id, {})

\* metrics.entry(provider).or_default()
ResetMetrics(provider) == Insert(metrics, provider, NoMetrics)
WithMetrics(provider) == OrInsert(metrics, provider, NoMetrics)

\* sent.remove(signature)
SentStillThere(signature) == sent
SentWithout(signature) == Remove(sent, signature)

\* The receivers that send(true) on the notifier of a round reaches.
EveryReceiver(round_id) == UNION Range(round_notifiers)
Receivers(round_id) ==
  IF round_id \in DOMAIN round_notifiers THEN round_notifiers[round_id] ELSE {}
-----------------------------------------------------------------------------
(***************************************************************************)
(* Methods                                                                 *)
(***************************************************************************)

\* LandingBook::start_round
StartRound(round_id) ==
  /\ rounds_attempted' = rounds_attempted + 1
  /\ round_notifiers' = WithNotifier(round_id)
  /\ UNCHANGED <<sent, metrics, landed_rounds, waiters, acked, notified>>

\* LandingBook::record_send.  The receivers it returns are the caller's
\* view of acked and notified.
RecordSend(signature, provider, sent_elapsed, round_id) ==
  /\ round_notifiers' =
       [WithNotifier(round_id) EXCEPT ![round_id] = @ \cup {signature}]
  /\ sent' = Insert(sent, signature, [provider     |-> provider,
                                      sent_elapsed |-> sent_elapsed,
                                      round_id     |-> round_id])
  /\ metrics' = WithMetrics(provider)
  /\ waiters' = waiters \cup {signature}
  /\ UNCHANGED <<rounds_attempted, landed_rounds, acked, notified>>

\* LandingBook::record_landing, first early return: nothing was registered
\* under the signature (not yet, no longer, or never).
IgnoreLanding(obs) ==
  /\ obs.signature \notin DOMAIN sent
  /\ UNCHANGED bookVars

\* record_landing, second early return: the tag read from the memo is not
\* the name that was registered.  The record is gone by then.
ForfeitLanding(obs) ==
  /\ obs.signature \in DOMAIN sent
  /\ ObservedProvider(obs.memo) # sent[obs.signature].provider
  /\ sent' = SentWithout(obs.signature)
  /\ UNCHANGED <<metrics, rounds_attempted, landed_rounds, waiters,
                 round_notifiers, acked, notified>>

\* record_landing, the rest: credit the provider, mark the round landed,
\* release the sender's own waiter and then everyone waiting on the round.
CreditLanding(obs) ==
  /\ obs.signature \in DOMAIN sent
  /\ ObservedProvider(obs.memo) = sent[obs.signature].provider
  /\ LET send    == sent[obs.signature]
         latency == Latency(obs.elapsed_since_start, send.sent_elapsed)
     IN  /\ sent' = SentWithout(obs.signature)
         /\ metrics' = [WithMetrics(send.provider) EXCEPT ![send.provider] = Credited(@, latency)]
         /\ landed_rounds' = landed_rounds \cup {send.round_id}
         /\ waiters' = waiters \ {obs.signature}
         /\ acked' = acked \cup (waiters \cap {obs.signature})
         /\ notified' = notified \cup Receivers(send.round_id)
         /\ round_notifiers' = Remove(round_notifiers, send.round_id)
  /\ UNCHANGED rounds_attempted

RecordLanding(obs) ==
  \/ IgnoreLanding(obs)
  \/ ForfeitLanding(obs)
  \/ CreditLanding(obs)
-----------------------------------------------------------------------------
(***************************************************************************)
(* The discipline of the callers: a send is registered once, under its own *)
(* name, in a round that was started (its notifier is in the map until a   *)
(* landing of the round takes it out).  Observations come in any order,    *)
(* early, late, or more than once.                                         *)
(***************************************************************************)
Registered == waiters \cup acked
Started    == DOMAIN round_notifiers \cup landed_rounds

Observation(signature, time) ==
  [signature           |-> signature,
   memo                |-> Payload(ProviderOf[signature]),
   elapsed_since_start |-> time]

BeginRound(round_id) ==
  /\ rounds_attempted < MaxAttempts
  /\ StartRound(round_id)

Register(signature, time, round_id) ==
  /\ signature \notin Registered
  /\ round_id \in Started
  /\ RecordSend(signature, ProviderOf[signature], time, round_id)

Observe(signature, time) == RecordLanding(Observation(signature, time))

Next ==
  \/ \E r \in Rounds : BeginRound(r)
  \/ \E s \in Signatures, t \in Times, r \in Rounds : Register(s, t, r)
  \/ \E s \in Signatures, t \in Times : Observe(s, t)

Spec == Init /\ [][Next]_bookVars
-----------------------------------------------------------------------------
(***************************************************************************)
(* Properties                                                              *)
(***************************************************************************)

SendRecord == [provider : Names, sent_elapsed : Times, round_id : Rounds]
ProviderMetrics == [landed : Nat, latencies_ms : Seq(Nat)]

TypeOK ==
  /\ DOMAIN sent \subseteq Signatures
  /\ sent \in [DOMAIN sent -> SendRecord]
  /\ DOMAIN metrics \subseteq Names
  /\ metrics \in [DOMAIN metrics -> ProviderMetrics]
  /\ rounds_attempted \in Nat
  /\ landed_rounds \subseteq Rounds
  /\ waiters \subseteq Signatures
  /\ DOMAIN round_notifiers \subseteq Rounds
  /\ round_notifiers \in [DOMAIN round_notifiers -> SUBSET Signatures]
  /\ acked \subseteq Signatures
  /\ notified \subseteq Signatures

Wins(name) == IF name \in DOMAIN metrics THEN metrics[name].landed ELSE 0
Samples(name) ==
  IF name \in DOMAIN metrics THEN Len(metrics[name].latencies_ms) ELSE 0

\* No transaction is counted twice, however often, early or late it is
\* observed: the wins of an endpoint are exactly the distinct transactions
\* of its tag whose waiter was released, each with one latency sample.
WinsAreDistinctLandings ==
  \A p \in Names :
    /\ Wins(p) = Cardinality({s \in acked : ProviderOf[s] = p})
    /\ Samples(p) = Wins(p)

\* The ratio render_summary prints never exceeds 100%, even when rounds
\* share an id, and a round counts as landed only if some endpoint won it.
LandedRatioIsBounded ==
  /\ Cardinality(landed_rounds) <= rounds_attempted
  /\ Cardinality(landed_rounds) <= Cardinality(acked)

\* A pending send that has not been woken is subscribed to the notifier its
\* round still has in the map, so the next landing credited to that round
\* reaches it: the "Landing waiter dropped before completion" branch of
\* send_single_tx is never taken.
NoLostWakeup ==
  \A s \in DOMAIN sent :
    s \in notified \/ s \in Receivers(sent[s].round_id)

\* Nobody is woken for a round other than its own: a pending send that was
\* woken belongs to a round with a credited landing.
NoSpuriousWakeup ==
  \A s \in DOMAIN sent : s \in notified => sent[s].round_id \in landed_rounds

\* Whatever was registered is either awaited or credited: record_landing
\* never takes a send out of the book without crediting it.
NoForfeit == waiters \subseteq DOMAIN sent

\* What makes the invariants above inductive.
PendingIsRegistered == DOMAIN sent \subseteq waiters /\ waiters \cap acked = {}

PendingKeepsItsTag ==
  \A s \in DOMAIN sent :
    sent[s].provider = ProviderOf[s] /\ sent[s].round_id \in Started

SubscribedToOwnRound ==
  /\ notified \subseteq Registered
  /\ \A r \in DOMAIN round_notifiers : \A s \in round_notifiers[r] :
       s \in Registered /\ (s \in DOMAIN sent => sent[s].round_id = r)

StartsAreCounted ==
  IsFiniteSet(Started) /\ Cardinality(Started) <= rounds_attempted

EachLandedRoundWasWon ==
  /\ Cardinality(landed_rounds) <= Cardinality(acked)
  /\ acked # {} => landed_rounds # {}

\* There are metrics of whoever has registered a send, and of nobody else.
MetricsAreOfSenders == DOMAIN metrics = {ProviderOf[s] : s \in Registered}

BookInv ==
  /\ TypeOK
  /\ PendingIsRegistered
  /\ PendingKeepsItsTag
  /\ SubscribedToOwnRound
  /\ StartsAreCounted
  /\ EachLandedRoundWasWon
  /\ MetricsAreOfSenders
  /\ WinsAreDistinctLandings
  /\ NoLostWakeup
  /\ NoSpuriousWakeup

\* The book implements the abstract ledger: each registered transaction
\* leaves the book once, and tallies move with it and never otherwise.
Ledger == INSTANCE LandingLedger WITH
  pending   <- DOMAIN sent,
  won       <- acked,
  forfeited <- waiters \ DOMAIN sent,
  wins      <- [p \in Names |-> Wins(p)]

ImplementsLedger == Ledger!Spec
=============================================================================
