--------------------------- MODULE SignatureRace ---------------------------
(***************************************************************************)
(* The stream providers of src/src/providers (thor, shreder, arpc,         *)
(* jetstream, shredstream) racing to see the transactions of one account.  *)
(* Each provider is a task with its own TransactionAccumulator; they share *)
(* the Comparator, the atomics shared_counter and shared_shutdown, the     *)
(* signature queue and the shutdown broadcast.  The Comparator, the        *)
(* streams and the consumer of the queue are external.                     *)
(*                                                                         *)
(* Steps are cut at the shared objects, for the tasks run on threads.  A   *)
(* transaction is its signature; a message without one of ours in it       *)
(* (any let-else that continues, an undecodable batch) changes nothing.    *)
(* The providers are given a signature queue: with signature_tx = None     *)
(* nothing is sent on, and everything about the queue goes without saying. *)
(***************************************************************************)
EXTENDS Integers, Sequences, FiniteSets, HashMaps

Kinds == {"thor", "shreder", "arpc", "jetstream", "shredstream"}

CONSTANTS
  Providers,      \* the endpoints, total_producers of them
  KindChoices,    \* the kinds they may be configured with
  Signatures,     \* the transactions of the account
  Target,         \* target_transactions; without one nothing here ever stops
  QueueCapacity,  \* of the signature queue
  MaxSightings,   \* bound on how often a stream delivers a transaction
  MaxTime         \* bound on the clock

ASSUME RaceAssumption ==
  /\ IsFiniteSet(Providers) /\ Providers # {}
  /\ IsFiniteSet(Signatures)
  /\ {Target, QueueCapacity, MaxSightings} \subseteq Nat \ {0}
  /\ MaxTime \in Nat
  /\ KindChoices \subseteq [Providers -> Kinds]

VARIABLES
  kind,             \* provider -> its kind
  pc,               \* provider -> where its task is
  pending,          \* provider -> rest of the batch it is working through
  envelope,         \* provider -> signature of the envelope it has built
  accumulator,      \* provider -> signature -> elapsed_since_start
  observed,         \* Comparator: signature -> provider -> elapsed
  collected,        \* Comparator: provider -> what add_batch gave it
  shared_counter,
  shared_shutdown,
  signal,           \* providers with an unread shutdown broadcast
  broadcasts,       \* how often shutdown was broadcast
  queue,            \* the ArrayQueue
  consumed,         \* envelopes taken from the queue, in order
  dropped,          \* envelopes refused by a full queue
  delivered,        \* provider -> signature -> how often its stream had it
  stream,           \* provider -> "up", or "ended" by an error or the server
  exited,           \* std::process::exit was called
  now

taskVars   == <<kind, pc, pending, envelope, accumulator>>
sharedVars == <<observed, collected, shared_counter, shared_shutdown, signal,
                broadcasts, queue, dropped>>
outerVars  == <<consumed, delivered, stream, exited, now>>
vars       == <<taskVars, sharedVars, outerVars>>

Init ==
  /\ kind \in KindChoices
  /\ pc = [p \in Providers |-> "opening"]
  /\ pending = [p \in Providers |-> <<>>]
  /\ envelope = [p \in Providers |-> <<>>]
  /\ accumulator = [p \in Providers |-> EmptyMap]
  /\ observed = [s \in Signatures |-> EmptyMap]
  /\ collected = EmptyMap
  /\ shared_counter = 0
  /\ shared_shutdown = FALSE
  /\ signal = {}
  /\ broadcasts = 0
  /\ queue = <<>>
  /\ consumed = <<>>
  /\ dropped = {}
  /\ delivered = [p \in Providers |-> [s \in Signatures |-> 0]]
  /\ stream = [p \in Providers |-> "up"]
  /\ exited = FALSE
  /\ now = 0
-----------------------------------------------------------------------------
\* The process goes on and p's task moves.
Goto(p, from, to) ==
  /\ ~exited
  /\ pc[p] = from
  /\ pc' = [pc EXCEPT ![p] = to]
  /\ UNCHANGED kind

(***************************************************************************)
(* Opening: up to the first turn of the loop.                              *)
(***************************************************************************)
Subscribe(p) ==
  /\ Goto(p, "opening", "listening")
  /\ UNCHANGED <<pending, envelope, accumulator, sharedVars, outerVars>>

\* A `?': the account does not parse, the log does not open, or the server
\* refuses the subscription.  The task is over, without a batch.
SubscribeFails(p) ==
  /\ Goto(p, "opening", "failed")
  /\ UNCHANGED <<pending, envelope, accumulator, sharedVars, outerVars>>

\* fatal_connection_error ends the process.
ConnectFails(p) ==
  /\ ~exited
  /\ pc[p] = "opening"
  /\ exited' = TRUE
  /\ UNCHANGED <<taskVars, sharedVars, consumed, delivered, stream, now>>

Opens(p) == Subscribe(p) \/ SubscribeFails(p) \/ ConnectFails(p)
-----------------------------------------------------------------------------
(***************************************************************************)
(* Recording a sighting.                                                   *)
(***************************************************************************)

\* TransactionAccumulator::record returns whether it kept the sighting:
\* the first, or one earlier than the one it has.
OnlyReplaces(p, s, elapsed) ==
  s \in DOMAIN accumulator[p] /\ elapsed < accumulator[p][s]
AtLeastAsEarly(p, s, elapsed) ==
  s \in DOMAIN accumulator[p] => elapsed <= accumulator[p][s]
Updates(p, s, elapsed) ==
  s \in DOMAIN accumulator[p] => elapsed < accumulator[p][s]

LatestRecorded(p, s, elapsed) == Insert(accumulator[p], s, elapsed)
Recorded(p, s, elapsed) ==
  IF Updates(p, s, elapsed) THEN Insert(accumulator[p], s, elapsed)
                            ELSE accumulator[p]

\* Comparator::record_observation: all observations of s, once every
\* producer has reported it.
Reported(p, s, elapsed) == Insert(observed[s], p, elapsed)
Complete(o) == DOMAIN o = Providers

\* What a loop body does with a sighting of s, up to the envelope.
Sight(p, s, rest) ==
  LET updated == Updates(p, s, now)
      report  == Reported(p, s, now)
      built   == updated /\ Complete(report)
  IN /\ Goto(p, "listening", IF built THEN "built" ELSE "listening")
     /\ accumulator' = [accumulator EXCEPT ![p] = Recorded(p, s, now)]
     /\ observed' = IF updated THEN [observed EXCEPT ![s] = report] ELSE observed
     /\ envelope' = [envelope EXCEPT ![p] = IF built THEN <<s>> ELSE <<>>]
     /\ pending' = [pending EXCEPT ![p] = rest]
     /\ UNCHANGED <<collected, shared_counter, shared_shutdown, signal,
                    broadcasts, queue, dropped, consumed, stream, exited, now>>

\* The biased select!: at the top of the loop, no shutdown to read, and the
\* stream has a message.
Listening(p) ==
  /\ pending[p] = <<>>
  /\ p \notin signal
  /\ stream[p] = "up"

Delivers(p, batch) ==
  /\ \A i \in 1..Len(batch) : delivered[p][batch[i]] < MaxSightings
  /\ delivered' = [delivered EXCEPT ![p] = [s \in Signatures |->
       delivered[p][s] + Cardinality({i \in 1..Len(batch) : batch[i] = s})]]

Message(p, s) == Listening(p) /\ Delivers(p, <<s>>) /\ Sight(p, s, <<>>)

\* Entries of several transactions, worked through without a look at the
\* shutdown channel.
Batch(p, s, t) ==
  s # t /\ Listening(p) /\ Delivers(p, <<s, t>>) /\ Sight(p, s, <<t>>)

NextOfBatch(p) ==
  /\ pending[p] # <<>>
  /\ Sight(p, Head(pending[p]), Tail(pending[p]))
  /\ UNCHANGED delivered

\* With TRACE logging, a write error returns from the task, without a batch.
LogFails(p) ==
  /\ Listening(p) \/ pending[p] # <<>>
  /\ Goto(p, "listening", "failed")
  /\ UNCHANGED <<pending, envelope, accumulator, sharedVars, outerVars>>
-----------------------------------------------------------------------------
(***************************************************************************)
(* Publishing an envelope.                                                 *)
(***************************************************************************)

\* shared_counter.fetch_add(1) + 1; fetch_add returns what was there before.
ReachedBefore == shared_counter >= Target
Reached       == shared_counter + 1 >= Target

Count(p) ==
  /\ Goto(p, "built", IF Reached THEN "target" ELSE "publish")
  /\ shared_counter' = shared_counter + 1
  /\ UNCHANGED <<pending, envelope, accumulator, observed, collected,
                 shared_shutdown, signal, broadcasts, queue, dropped, outerVars>>

\* !shared_shutdown.swap(true): who finds it unset broadcasts.
EveryoneClaims == TRUE
Claims         == ~shared_shutdown

ClaimShutdown(p) ==
  /\ Goto(p, "target", IF Claims THEN "broadcast" ELSE "publish")
  /\ shared_shutdown' = TRUE
  /\ UNCHANGED <<pending, envelope, accumulator, observed, collected,
                 shared_counter, signal, broadcasts, queue, dropped, outerVars>>

\* Every running task keeps its receiver, whether it waits on it or not.
WaitingReceivers == {p \in Providers : pc[p] = "listening" /\ pending[p] = <<>>}
Receivers        == {p \in Providers : pc[p] \notin {"stopped", "failed"}}

BroadcastTo(p, receivers) ==
  /\ Goto(p, "broadcast", "publish")
  /\ signal' = signal \cup receivers
  /\ broadcasts' = broadcasts + 1
  /\ UNCHANGED <<pending, envelope, accumulator, observed, collected,
                 shared_counter, shared_shutdown, queue, dropped, outerVars>>

BroadcastToIdle(p) == BroadcastTo(p, WaitingReceivers)
Broadcast(p)       == BroadcastTo(p, Receivers)

\* enqueue_signature: a full queue refuses the envelope for good.
HasRoom   == Len(queue) < QueueCapacity
Enqueue(p) ==
  /\ Goto(p, "publish", "listening")
  /\ IF HasRoom THEN /\ queue' = queue \o envelope[p]
                     /\ UNCHANGED dropped
                ELSE /\ dropped' = dropped \cup {envelope[p][1]}
                     /\ UNCHANGED queue
  /\ envelope' = [envelope EXCEPT ![p] = <<>>]
  /\ UNCHANGED <<pending, accumulator, observed, collected,
                 shared_counter, shared_shutdown, signal, broadcasts, outerVars>>

\* The shutdown branch, and add_batch after the loop.
Stops(p) ==
  /\ pending[p] = <<>>
  /\ p \in signal
  /\ Goto(p, "listening", "stopped")
  /\ signal' = signal \ {p}
  /\ collected' = Insert(collected, p, accumulator[p])
  /\ UNCHANGED <<pending, envelope, accumulator, observed,
                 shared_counter, shared_shutdown, broadcasts, queue, dropped,
                 outerVars>>

Publishes(p) == Count(p) \/ ClaimShutdown(p) \/ Broadcast(p) \/ Enqueue(p)
Loop(p) == LogFails(p) \/ Publishes(p) \/ Stops(p)
-----------------------------------------------------------------------------
(***************************************************************************)
(* The five providers: process_*_endpoint.  All but shredstream read one   *)
(* transaction per message.  What each accepts differs in the shape of its *)
(* messages only; arpc and shreder give a transaction without signatures   *)
(* the empty one, which here is one more signature.                        *)
(***************************************************************************)
Single(p) == \E s \in Signatures : Message(p, s)

\* An ended stream is ready with None at every turn: the select! goes round.
Spins(p) ==
  /\ ~exited
  /\ pc[p] = "listening"
  /\ p \notin signal
  /\ stream[p] = "ended"
  /\ UNCHANGED vars

ThorEndpoint(p) ==
  kind[p] = "thor" /\ (Opens(p) \/ Single(p) \/ Spins(p) \/ Loop(p))
ShrederEndpoint(p) ==
  kind[p] = "shreder" /\ (Opens(p) \/ Single(p) \/ Spins(p) \/ Loop(p))
ArpcEndpoint(p) ==
  kind[p] = "arpc" /\ (Opens(p) \/ Single(p) \/ Spins(p) \/ Loop(p))
JetstreamEndpoint(p) ==
  kind[p] = "jetstream" /\ (Opens(p) \/ Single(p) \/ Spins(p) \/ Loop(p))

\* Here `Some(Ok(..)) = stream.next()' is a pattern of the select!: an ended
\* stream disables the branch and the task only waits for the shutdown.
ShredstreamEndpoint(p) ==
  /\ kind[p] = "shredstream"
  /\ \/ Opens(p)
     \/ Single(p)
     \/ \E s, t \in Signatures : Batch(p, s, t)
     \/ NextOfBatch(p)
     \/ Loop(p)

Provider(p) ==
  ThorEndpoint(p) \/ ShrederEndpoint(p) \/ ArpcEndpoint(p)
    \/ JetstreamEndpoint(p) \/ ShredstreamEndpoint(p)
-----------------------------------------------------------------------------
(***************************************************************************)
(* Outside.                                                                *)
(***************************************************************************)
StreamEnds(p) ==
  /\ stream[p] = "up"
  /\ stream' = [stream EXCEPT ![p] = "ended"]
  /\ UNCHANGED <<taskVars, sharedVars, consumed, delivered, exited, now>>

Consume ==
  /\ queue # <<>>
  /\ consumed' = Append(consumed, Head(queue))
  /\ queue' = Tail(queue)
  /\ UNCHANGED <<taskVars, observed, collected, shared_counter,
                 shared_shutdown, signal, broadcasts, dropped, delivered,
                 stream, exited, now>>

Tick ==
  /\ now < MaxTime
  /\ now' = now + 1
  /\ UNCHANGED <<taskVars, sharedVars, consumed, delivered, stream, exited>>

Outside == ~exited /\ (Consume \/ Tick \/ \E p \in Providers : StreamEnds(p))

Next == Outside \/ \E p \in Providers : Provider(p)

\* Tasks run, servers answer, and a stream that stays up delivers every
\* transaction of the account.
Fairness ==
  \A p \in Providers :
    /\ WF_vars(Subscribe(p))
    /\ WF_vars(NextOfBatch(p) \/ Publishes(p) \/ Stops(p))
    /\ \A s \in Signatures : WF_vars(Message(p, s) /\ delivered[p][s] = 0)

Spec == Init /\ [][Next]_vars
FairSpec == Spec /\ Fairness
-----------------------------------------------------------------------------
(***************************************************************************)
(* Properties                                                              *)
(***************************************************************************)
Times == 0..MaxTime
MapsFrom(Keys) == UNION {[K -> Times] : K \in SUBSET Keys}
UpToOne == {<<>>} \cup {<<s>> : s \in Signatures}

TypeOK ==
  /\ kind \in KindChoices
  /\ pc \in [Providers -> {"opening", "listening", "built", "target",
                           "broadcast", "publish", "stopped", "failed"}]
  /\ {pending, envelope} \subseteq [Providers -> UpToOne]
  /\ accumulator \in [Providers -> MapsFrom(Signatures)]
  /\ observed \in [Signatures -> MapsFrom(Providers)]
  /\ DOMAIN collected \subseteq Providers
  /\ shared_counter \in 0..Cardinality(Signatures)
  /\ shared_shutdown \in BOOLEAN
  /\ signal \subseteq Providers
  /\ {queue, consumed} \subseteq Seq(Signatures) /\ Len(queue) <= QueueCapacity
  /\ dropped \subseteq Signatures
  /\ broadcasts \in Nat /\ now \in Times

\* However many providers pass the target at once, shutdown is broadcast at
\* most once, never before the target is reached, and whoever is about to do
\* so is the only one.
OneBroadcast ==
  LET claimers == {p \in Providers : pc[p] = "broadcast"}
  IN /\ broadcasts + Cardinality(claimers) = (IF shared_shutdown THEN 1 ELSE 0)
     /\ shared_shutdown \/ (\E p \in Providers : pc[p] = "target")
          => shared_counter >= Target

\* The target is not passed unnoticed: once the counter is there somebody has
\* claimed the shutdown or is about to, and after the broadcast every provider
\* has ended or has it to read, also those that were busy when it came.
Ended(p) == pc[p] \in {"stopped", "failed"}
TargetIsAnnounced ==
  /\ shared_counter >= Target =>
       shared_shutdown \/ \E p \in Providers : pc[p] = "target"
  /\ broadcasts > 0 => \A p \in Providers : Ended(p) \/ p \in signal

\* A provider keeps exactly the sightings it reported, with the stamps it
\* reported, and none of the future: so it reports a transaction once.
ReportsAreKept ==
  \A p \in Providers, s \in Signatures :
    /\ s \in DOMAIN accumulator[p] <=> p \in DOMAIN observed[s]
    /\ s \in DOMAIN accumulator[p] =>
         accumulator[p][s] = observed[s][p] /\ accumulator[p][s] <= now

\* An envelope is held from when it is built until it is published, and a
\* batch handed over is that of a provider that has stopped.
HeldOnTheWay ==
  /\ \A p \in Providers :
       envelope[p] # <<>> <=> pc[p] \in {"built", "target", "broadcast", "publish"}
  /\ \A p \in DOMAIN collected :
       pc[p] = "stopped" /\ collected[p] = accumulator[p]

\* The types, the one broadcast and its claim, and what providers hold.
RaceInv ==
  TypeOK /\ OneBroadcast /\ TargetIsAnnounced /\ ReportsAreKept /\ HeldOnTheWay

\* The shared counter is the number of transactions that every provider has
\* seen, less those whose envelope is built but not yet counted: none is
\* missed and none counted twice, though streams repeat themselves.
EverySeen == {s \in Signatures : DOMAIN observed[s] = Providers}
CounterIsExact ==
  shared_counter + Cardinality({p \in Providers : pc[p] = "built"})
    = Cardinality(EverySeen)

\* Each transaction that every provider has seen is in exactly one place: with the
\* provider that built its envelope, in the queue, with the consumer, or
\* among those a full queue refused.
Places(s) ==
  Cardinality({p \in Providers : envelope[p] = <<s>>})
    + Cardinality({i \in 1..Len(queue) : queue[i] = s})
    + Cardinality({i \in 1..Len(consumed) : consumed[i] = s})
    + (IF s \in dropped THEN 1 ELSE 0)
EnvelopesAreConserved ==
  \A s \in Signatures : Places(s) = IF s \in EverySeen THEN 1 ELSE 0

\* The batch a provider hands over at the end is what it reported live, time
\* stamps included, and nothing is reported after it: record replaces an
\* entry exactly when the Comparator is told.
BatchesAgreeWithReports ==
  \A p \in DOMAIN collected :
    collected[p] = [s \in {r \in Signatures : p \in DOMAIN observed[r]} |->
                      observed[s][p]]

\* The broadcast also reaches tasks that are in the middle of a batch or of an
\* envelope and not waiting for it: every provider stops.
BroadcastStopsEveryone ==
  broadcasts > 0 ~> (exited \/ \A p \in Providers : Ended(p))

\* When as many transactions as the target are complete and their envelopes
\* counted, and no shutdown is on its way, nobody listens on without one to
\* read: the completions of several providers at once do not each leave the
\* shutdown to another.
CompleteMeansStopping ==
  /\ Cardinality(EverySeen) >= Target
  /\ \A p \in Providers : pc[p] \notin {"built", "target", "broadcast"}
  => \A p \in Providers : Ended(p) \/ p \in signal

\* The race ends by itself unless a provider is lost: one that failed or
\* whose stream ended keeps every later transaction incomplete.
Lost == exited \/ \E p \in Providers : pc[p] = "failed" \/ stream[p] = "ended"
RaceEnds == <>Lost \/ <>(\A p \in Providers : Ended(p))
=============================================================================
