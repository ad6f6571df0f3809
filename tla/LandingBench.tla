---------------------------- MODULE LandingBench ----------------------------
(***************************************************************************)
(* A whole benchmark run: main of src/src/main.rs with its round loop, the *)
(* endpoint futures (send_single_tx), the memo task, the Ctrl-C task and   *)
(* the gRPC listener of src/src/providers/yellowstone.rs, over the         *)
(* LandingBook they share.  The chain, which holds the durable nonce, and  *)
(* the network between it and the program are external.                    *)
(*                                                                         *)
(* An action is what a task does between two awaits at which another task  *)
(* can see or change something it uses.  Timers are untimed: a sleep or a  *)
(* timeout ends at any moment its code allows.  The clock `now' exists for *)
(* the time stamps only.                                                   *)
(***************************************************************************)
EXTENDS Integers, Sequences, FiniteSets, HashMaps

CONSTANTS
  Endpoints,     \* the [[endpoint]] entries of the configuration
  NameOf,        \* their names, cut at the bars as in LandingBook
  Unbuildable,   \* those whose instructions never build (bad tip wallet)
  Untimed,       \* those whose client sets no limit to a send (Soyas)
  Transactions,  \* config.transactions, the number of rounds
  MemoCapacity,  \* capacity of the memo channel (1024 in the code)
  Faults,        \* what may go wrong in this instance
  MaxTime,       \* bound on the clock
  MaxReorgs,     \* bound on the landings a fork switch takes back
  MaxLag         \* how many landings the utility RPC may be behind

FaultKinds == {"send_error", "stream_error", "setup_error", "rpc_error",
               "unknown_update", "interrupt"}

ASSUME BenchAssumption ==
  /\ IsFiniteSet(Endpoints) /\ Endpoints # {}   \* validate_config
  /\ {"main", "listener"} \cap Endpoints = {}   \* receivers, see signal
  /\ Unbuildable \subseteq Endpoints /\ Untimed \subseteq Endpoints
  /\ Faults \subseteq FaultKinds
  /\ MemoCapacity \in Nat \ {0}
  /\ {Transactions, MaxTime, MaxReorgs, MaxLag} \subseteq Nat

VARIABLES
  \* the LandingBook
  sent, metrics, rounds_attempted, landed_rounds, waiters, round_notifiers,
  acked, notified,
  \* main
  main,      \* where main is
  nonces,    \* nonces[k]: the nonce (and round id) of round k; the last one
             \* is previous_nonce
  \* endpoint futures of the current round
  task,      \* endpoint -> where its future is, or how it ended
  sent_at,   \* endpoint -> send_elapsed of its latest send
  \* listener and memo channel
  listener,  \* where the listener task is
  ready,     \* the grpc_ready oneshot
  held,      \* the observation it is handing over, if any
  memo,      \* the memo channel
  \* shutdown
  ctrl_c,    \* progress of the Ctrl-C task; shutdown_flag = (ctrl_c # "idle")
  signal,    \* receivers with an unread shutdown broadcast
  \* outside the process
  submitted, \* signatures the network has accepted
  chain,     \* the nonces the account has had, the current one last
  minted,    \* nonces minted so far
  landed,    \* signatures that have landed, on any fork
  stream,    \* landings the gRPC server has yet to deliver
  now

bookVars  == <<sent, metrics, rounds_attempted, landed_rounds, waiters,
               round_notifiers, acked, notified>>
taskVars  == <<task, sent_at>>
gRPCVars  == <<listener, ready, held>>
stopVars  == <<ctrl_c, signal>>
chainVars == <<submitted, chain, minted, landed, now>>
vars == <<bookVars, main, nonces, taskVars, gRPCVars, memo, stopVars,
          chainVars, stream>>
-----------------------------------------------------------------------------
Signatures == Endpoints \X (1..Transactions)
Nonces     == 0..(Transactions + MaxReorgs)

Book == INSTANCE LandingBook WITH
  Names       <- {NameOf[e] : e \in Endpoints},
  ProviderOf  <- [s \in Signatures |-> NameOf[s[1]]],
  Rounds      <- Nonces,
  Times       <- 0..MaxTime,
  MaxAttempts <- Transactions

Round      == Len(nonces)
FirstNonce == nonces[1]
Previous   == nonces[Round]
Mine(e)    == <<e, Round>>      \* the signature of e's transaction this round
LastOf(s)  == s[Len(s)]

Outcomes == {"skipped", "invalid", "failed", "self", "other", "timeout"}
Idle(e)  == task[e] \in Outcomes \cup {"none"}
Alive    == main \notin {"done", "failed"}

Init ==
  /\ Book!Init
  /\ main = "await_ready"
  /\ nonces = <<>>
  /\ task = [e \in Endpoints |-> "none"]
  /\ sent_at = [e \in Endpoints |-> 0]
  /\ listener = "connecting"
  /\ ready = "pending"
  /\ held = <<>>
  /\ memo = <<>>
  /\ ctrl_c = "idle"
  /\ signal = {}
  /\ submitted = {}
  /\ chain = <<0>>
  /\ minted = 0
  /\ landed = {}
  /\ stream = <<>>
  /\ now = 0
-----------------------------------------------------------------------------
(***************************************************************************)
(* The gRPC listener: spawn_memo_listener.                                 *)
(***************************************************************************)

\* The first message has an update in it: ready_tx.send(()).
Subscribed ==
  /\ Alive
  /\ listener = "connecting"
  /\ listener' = "running"
  /\ ready' = "sent"
  /\ UNCHANGED <<bookVars, main, nonces, taskVars, held, memo, stopVars,
                 chainVars, stream>>

\* The first message has none: the loop is entered all the same, with
\* ready_tx neither used nor dropped.
SilentFirstMessage ==
  /\ Alive
  /\ "unknown_update" \in Faults
  /\ listener = "connecting"
  /\ listener' = "running"
  /\ UNCHANGED <<bookVars, main, nonces, taskVars, ready, held, memo,
                 stopVars, chainVars, stream>>

\* The task returns: ready_tx is dropped with it when it was not used.
ListenerReturns ==
  /\ listener' = "stopped"
  /\ ready' = IF ready = "pending" THEN "dropped" ELSE ready
  /\ UNCHANGED <<bookVars, main, nonces, taskVars, held, memo, stopVars,
                 chainVars, stream>>

\* Building, connecting or subscribing fails, or the stream errs or ends.
StreamFails ==
  /\ Alive
  /\ "stream_error" \in Faults
  /\ listener \in {"connecting", "running"}
  /\ held = <<>>
  /\ ListenerReturns

\* The biased select! looks at the shutdown channel first.
ListenerStops ==
  /\ Alive
  /\ listener = "running"
  /\ held = <<>>
  /\ "listener" \in signal
  /\ ListenerReturns

\* A transaction update with our memo: stamp it.
ObserveMemo ==
  /\ Alive
  /\ listener = "running"
  /\ held = <<>>
  /\ "listener" \notin signal
  /\ stream # <<>>
  /\ held' = <<Book!Observation(Head(stream), now)>>
  /\ stream' = Tail(stream)
  /\ UNCHANGED <<bookVars, main, nonces, taskVars, listener, ready, memo,
                 stopVars, chainVars>>

Limitless == TRUE
Room      == Len(memo) < MemoCapacity

\* memo_tx.send(obs) completes.
HandOver ==
  /\ Alive
  /\ listener = "running"
  /\ held # <<>>
  /\ Room
  /\ memo' = memo \o held
  /\ held' = <<>>
  /\ UNCHANGED <<bookVars, main, nonces, taskVars, listener, ready, stopVars,
                 chainVars, stream>>

ListenerStep ==
  Subscribed \/ SilentFirstMessage \/ StreamFails \/ ListenerStops
    \/ ObserveMemo \/ HandOver

\* The memo task: record_landing for each observation received.
MemoStep ==
  /\ Alive
  /\ memo # <<>>
  /\ Book!RecordLanding(Head(memo))
  /\ memo' = Tail(memo)
  /\ UNCHANGED <<main, nonces, taskVars, gRPCVars, stopVars, chainVars, stream>>
-----------------------------------------------------------------------------
(***************************************************************************)
(* Endpoint futures: send_single_tx.                                       *)
(***************************************************************************)

Move(e, from, to) ==
  /\ Alive
  /\ task[e] = from
  /\ task' = [task EXCEPT ![e] = to]

\* The future has read its shutdown receiver, for the only time it does.
ReadsSignal(e) ==
  /\ signal' = signal \ {e}
  /\ UNCHANGED <<bookVars, main, nonces, gRPCVars, memo, ctrl_c, chainVars, stream>>

Skip(e) ==
  /\ e \in signal
  /\ Move(e, "spawned", "skipped")
  /\ UNCHANGED sent_at
  /\ ReadsSignal(e)

\* build_instructions errs: the future ends with an Err nobody looks at.
BuildFails(e) ==
  /\ e \notin signal
  /\ e \in Unbuildable
  /\ Move(e, "spawned", "invalid")
  /\ UNCHANGED sent_at
  /\ ReadsSignal(e)

BeginSend(e) ==
  /\ e \notin signal
  /\ e \notin Unbuildable
  /\ Move(e, "spawned", "sending")
  /\ sent_at' = [sent_at EXCEPT ![e] = now]
  /\ ReadsSignal(e)

\* Everything but the futures' own state is untouched.
TaskOnly == UNCHANGED <<bookVars, main, nonces, sent_at, gRPCVars, memo,
                        stopVars, chainVars, stream>>

SendOk(e) ==
  /\ Mine(e) \in submitted
  /\ Move(e, "sending", "sent")
  /\ TaskOnly

\* Whether or not the network has the transaction.
SendErr(e) ==
  /\ "send_error" \in Faults
  /\ Move(e, "sending", "failed")
  /\ TaskOnly

\* The time stamp handed to record_send is the one taken before the send.
StampedLate(e) == now
SendElapsed(e) == sent_at[e]

RecordSent(e) ==
  /\ Move(e, "sent", "waiting")
  /\ Book!RecordSend(Mine(e), NameOf[e], SendElapsed(e), Previous)
  /\ UNCHANGED <<main, nonces, sent_at, gRPCVars, memo, stopVars, chainVars, stream>>

\* timeout(select! { ack, round_rx.changed() }): either arm when both are
\* ready, the timer only when neither is.
SelfLanded(e) ==
  /\ Mine(e) \in acked
  /\ Move(e, "waiting", "self")
  /\ TaskOnly

OtherLanded(e) ==
  /\ Mine(e) \in notified
  /\ Move(e, "waiting", "other")
  /\ TaskOnly

WaitsForever(e) ==
  /\ Mine(e) \in acked \cup notified
  /\ Move(e, "waiting", "timeout")
  /\ TaskOnly

TimedOut(e) ==
  /\ Mine(e) \notin acked \cup notified
  /\ Move(e, "waiting", "timeout")
  /\ TaskOnly

\* The network takes the transaction in, whatever the sender gets to hear.
NetworkAccepts(e) ==
  /\ Alive
  /\ task[e] = "sending"
  /\ Mine(e) \notin submitted
  /\ submitted' = submitted \cup {Mine(e)}
  /\ UNCHANGED <<bookVars, main, nonces, taskVars, gRPCVars, memo, stopVars,
                 chain, minted, landed, stream, now>>

EndpointStep(e) ==
  Skip(e) \/ BuildFails(e) \/ BeginSend(e) \/ NetworkAccepts(e) \/ SendOk(e)
    \/ SendErr(e) \/ RecordSent(e) \/ SelfLanded(e) \/ OtherLanded(e) \/ TimedOut(e)
-----------------------------------------------------------------------------
(***************************************************************************)
(* main                                                                    *)
(***************************************************************************)

MainOnly == UNCHANGED <<bookVars, nonces, taskVars, gRPCVars, memo, stopVars,
                        chainVars, stream>>
Goto(from, to) == main = from /\ main' = to /\ MainOnly

\* grpc_ready_rx.await
AwaitReady == ready = "sent" /\ Goto("await_ready", "setup")
NotReady   == ready = "dropped" /\ Goto("await_ready", "failed")

\* SoyasClient::connect for each Soyas endpoint, then the spawns.
SetUp      == Goto("setup", "top")
SetUpFails == "setup_error" \in Faults /\ Goto("setup", "failed")

\* The top of the round loop: the range, then shutdown_rx.try_recv().
LoopEnds ==
  /\ Round = Transactions
  /\ Goto("top", IF ctrl_c = "idle" THEN "grace" ELSE "closing")

StopRequested ==
  /\ Round < Transactions
  /\ "main" \in signal
  /\ Goto("top", "closing")

NextRound ==
  /\ Round < Transactions
  /\ "main" \notin signal
  /\ Goto("top", "fetch")

\* What get_account may return: the account as of one of the last landings.
RpcView == {chain[i] : i \in {j \in 1..Len(chain) : j >= Len(chain) - MaxLag}}

\* fetch_fresh_nonce_hash: only the previous round's nonce is refused.
AnyNonce(v)    == TRUE
NotPrevious(v) == Round > 0 => v # Previous

\* book.start_round, before anything of the round is sent.
NotStarted(v)   == UNCHANGED bookVars
StartOfRound(v) == Book!StartRound(v)

\* A nonce is accepted, the round starts, and buffer_unordered creates every
\* future, each with a new subscription to the shutdown channel, before it
\* polls any.
FetchNonce ==
  /\ main = "fetch"
  /\ \E v \in RpcView :
       /\ NotPrevious(v)
       /\ nonces' = Append(nonces, v)
       /\ StartOfRound(v)
  /\ task' = [e \in Endpoints |-> "spawned"]
  /\ main' = "collect"
  /\ UNCHANGED <<sent_at, gRPCVars, memo, stopVars, chainVars, stream>>

\* A deadline that gives up the round only.
AnotherTry ==
  /\ \E v \in RpcView : ~NotPrevious(v)
  /\ Goto("fetch", "top")

\* The nonce was still the previous one when the deadline passed, or the RPC
\* failed: main returns the error, and what the book holds is lost.
FetchTimeout ==
  /\ \E v \in RpcView : ~NotPrevious(v)
  /\ Goto("fetch", "failed")

FetchError == "rpc_error" \in Faults /\ Goto("fetch", "failed")

\* collect().await and the sleep of delay_ms.
RoundDone ==
  /\ \A e \in Endpoints : Idle(e)
  /\ Goto("collect", "top")

\* The last sleep, of landing_grace_ms.
GraceOver == Goto("grace", "closing")

\* Who holds a receiver that it will still read; main's dates from before
\* the run.
NewSubscribers == {"listener"} \cup {e \in Endpoints : task[e] = "spawned"}
Subscribers == {"main", "listener"} \cup {e \in Endpoints : task[e] = "spawned"}

\* shutdown_tx.send(())
Close ==
  /\ main = "closing"
  /\ main' = "join"
  /\ signal' = signal \cup Subscribers
  /\ UNCHANGED <<bookVars, nonces, taskVars, gRPCVars, memo, ctrl_c, chainVars, stream>>

JoinListener == listener = "stopped" /\ Goto("join", "drain")

\* The two seconds are over first: abort() drops what the listener holds.
AbortListener ==
  /\ main = "join"
  /\ listener # "stopped"
  /\ main' = "drain"
  /\ listener' = "stopped"
  /\ held' = <<>>
  /\ UNCHANGED <<bookVars, nonces, taskVars, ready, memo, stopVars, chainVars, stream>>

\* memo_task.await: the channel is closed and drained; then the report.
Unjoined == listener = "stopped"
Drained  == listener = "stopped" /\ memo = <<>>
Report   == Drained /\ Goto("drain", "done")

MainStep ==
  AwaitReady \/ NotReady \/ SetUp \/ SetUpFails \/ LoopEnds \/ StopRequested
    \/ NextRound \/ FetchNonce \/ FetchTimeout \/ FetchError \/ RoundDone
    \/ GraceOver \/ Close \/ JoinListener \/ AbortListener \/ Report

\* The Ctrl-C task sets the flag, then broadcasts.
CtrlCFlag ==
  /\ Alive
  /\ "interrupt" \in Faults
  /\ main \notin {"await_ready", "setup"}
  /\ ctrl_c = "idle"
  /\ ctrl_c' = "flagged"
  /\ UNCHANGED <<bookVars, main, nonces, taskVars, gRPCVars, memo, signal,
                 chainVars, stream>>

CtrlCBroadcast ==
  /\ Alive
  /\ ctrl_c = "flagged"
  /\ ctrl_c' = "sent"
  /\ signal' = signal \cup Subscribers
  /\ UNCHANGED <<bookVars, main, nonces, taskVars, gRPCVars, memo, chainVars, stream>>

CtrlCStep == CtrlCFlag \/ CtrlCBroadcast
-----------------------------------------------------------------------------
(***************************************************************************)
(* Outside the process.                                                    *)
(***************************************************************************)

\* A transaction whose nonce is current advances the nonce as it lands, and
\* is streamed to a listener that is subscribed.
Land(s) ==
  /\ Alive
  /\ s \in submitted
  /\ nonces[s[2]] = LastOf(chain)
  /\ minted' = minted + 1
  /\ chain' = Append(chain, minted + 1)
  /\ landed' = landed \cup {s}
  /\ stream' = IF listener = "running" THEN Append(stream, s) ELSE stream
  /\ UNCHANGED <<bookVars, main, nonces, taskVars, gRPCVars, memo, stopVars,
                 submitted, now>>

\* A fork switch takes the last landing back.
TakenBack == minted - (Len(chain) - 1)
Reorg ==
  /\ Alive
  /\ TakenBack < MaxReorgs
  /\ Len(chain) > 1
  /\ chain' = SubSeq(chain, 1, Len(chain) - 1)
  /\ UNCHANGED <<bookVars, main, nonces, taskVars, gRPCVars, memo, stopVars,
                 submitted, minted, landed, stream, now>>

Tick ==
  /\ Alive
  /\ now < MaxTime
  /\ now' = now + 1
  /\ UNCHANGED <<bookVars, main, nonces, taskVars, gRPCVars, memo, stopVars,
                 submitted, chain, minted, landed, stream>>

Outside == (\E s \in Signatures : Land(s)) \/ Reorg \/ Tick
-----------------------------------------------------------------------------
\* The process has exited: nothing in it moves, and nothing outside matters.
Exited == ~Alive /\ UNCHANGED vars

Next ==
  \/ ListenerStep
  \/ MemoStep
  \/ \E e \in Endpoints : EndpointStep(e)
  \/ MainStep
  \/ CtrlCStep
  \/ Outside
  \/ Exited

\* main, the memo task and the futures run when they can: tokio's executor,
\* timers that expire, and RPC clients that get an answer or time out.  Not so
\* for a Soyas client, neither as main connects it nor as a future sends with
\* it, and nothing is asked of the listener, whose calls have no timeout
\* either, of the chain or of the user, nor is any failure.
Answers(e) == task[e] = "sending" => e \notin Untimed
Connects   == main = "setup" => Untimed = {}
Fairness ==
  /\ WF_vars(MemoStep)
  /\ WF_vars(Connects /\ MainStep)
  /\ \A e \in Endpoints : WF_vars(Answers(e) /\ EndpointStep(e))

Spec == Init /\ [][Next]_vars
FairSpec == Spec /\ Fairness
-----------------------------------------------------------------------------
(***************************************************************************)
(* Properties                                                              *)
(***************************************************************************)

Mains == {"await_ready", "setup", "top", "fetch", "collect", "grace",
          "closing", "join", "drain", "done", "failed"}

Observations == {Book!Observation(s, t) : s \in Signatures, t \in 0..MaxTime}

TypeOK ==
  /\ Book!TypeOK
  /\ main \in Mains
  /\ nonces \in Seq(Nonces) /\ Round <= Transactions
  /\ task \in [Endpoints -> Outcomes \cup {"none", "spawned", "sending", "sent", "waiting"}]
  /\ sent_at \in [Endpoints -> 0..MaxTime]
  /\ listener \in {"connecting", "running", "stopped"}
  /\ ready \in {"pending", "sent", "dropped"}
  /\ held \in Seq(Observations) /\ Len(held) <= 1
  /\ memo \in Seq(Observations) /\ Len(memo) <= MemoCapacity
  /\ ctrl_c \in {"idle", "flagged", "sent"}
  /\ signal \subseteq {"main", "listener"} \cup Endpoints
  /\ submitted \subseteq Signatures /\ landed \subseteq submitted
  /\ chain \in Seq(Nonces) /\ chain # <<>> /\ minted \in Nonces
  /\ stream \in Seq(Signatures)
  /\ now \in 0..MaxTime

\* The rounds the book counts are those main has begun, and futures run only
\* while main waits for those of the round.
RoundsAreInStep ==
  /\ rounds_attempted = Round
  /\ main = "fetch" => Round < Transactions
  /\ main = "collect" => Round > 0
  /\ main # "collect" => \A e \in Endpoints : Idle(e)

\* The network has nothing of a future that has not begun to send, and the
\* book nothing of one that has not registered.
TransactionsAreOfTheirRound ==
  /\ \A s \in submitted :
       /\ s[2] <= Round
       /\ s[2] = Round => task[s[1]] \notin {"none", "spawned", "skipped", "invalid"}
  /\ \A e \in Endpoints : task[e] \in {"sent", "waiting"} => Mine(e) \in submitted
  /\ \A s \in Book!Registered :
       /\ s \in submitted
       /\ s[2] = Round => task[s[1]] \in {"waiting", "self", "other", "timeout"}

\* Only what landed is streamed, observed or credited, to its own round.
CreditsAreLandings ==
  /\ Range(stream) \cup acked \subseteq landed
  /\ \A o \in Range(held) \cup Range(memo) : o.signature \in landed
  /\ \A k \in 1..Round : nonces[k] \in Book!Started
  /\ \A s \in DOMAIN sent : sent[s].round_id = nonces[s[2]]
  /\ landed_rounds = {nonces[s[2]] : s \in acked}

\* No stamp is in the future, and an observation is stamped after the send it
\* belongs to, registered or not.
StampsAreCausal ==
  /\ \A e \in Endpoints : sent_at[e] <= now
  /\ \A s \in DOMAIN sent : sent[s].sent_elapsed <= now
  /\ \A o \in Range(held) \cup Range(memo) :
       LET s == o.signature
       IN /\ s[2] = Round => sent_at[s[1]] <= o.elapsed_since_start
          /\ s \in DOMAIN sent => sent[s].sent_elapsed <= o.elapsed_since_start

\* main never waits to hear from a listener that is gone; its receiver keeps
\* the broadcast until it looks, and the listener is gone, with empty hands,
\* before the memo channel is drained.
StopsInOrder ==
  /\ main = "await_ready" /\ ready = "pending" => listener # "stopped"
  /\ ctrl_c = "sent" => "main" \in signal
  /\ listener = "stopped" => held = <<>>
  /\ main \in {"drain", "done"} => listener = "stopped"
  /\ main = "done" => memo = <<>>

\* The account never has one nonce twice, and has left each but the current
\* one by a landing of one of our rounds.
ChainIsOurs ==
  /\ \A i, j \in 1..Len(chain) : i < j => chain[i] < chain[j]
  /\ \A i \in 1..Len(chain) : chain[i] <= minted
  /\ \A i \in 1..(Len(chain) - 1) : \E k \in 1..Round : nonces[k] = chain[i]
  /\ TakenBack \in 0..MaxReorgs

\* Without forks a landing uses up the nonce for good; when the RPC does not
\* lag either, a nonce is never fetched again.
NoncesAreUsedUp ==
  MaxReorgs = 0 =>
    /\ \A s, t \in landed : nonces[s[2]] = nonces[t[2]] => s = t
    /\ \A s \in landed : nonces[s[2]] < LastOf(chain)
    /\ \A k \in 1..Round : nonces[k] <= LastOf(chain)
    /\ MaxLag = 0 => \A i, j \in 1..Round : i < j => nonces[i] < nonces[j]

\* The types, and how book, tasks, channels and chain keep in step.
BenchInv ==
  /\ TypeOK
  /\ RoundsAreInStep
  /\ TransactionsAreOfTheirRound
  /\ CreditsAreLandings
  /\ StampsAreCausal
  /\ StopsInOrder
  /\ ChainIsOurs
  /\ NoncesAreUsedUp

\* The threads together use the book the way LandingBook assumes of its
\* callers: no transaction is registered twice, none in a round that was not
\* started, and record_landing sees nothing but what the listener observed.
\* All that LandingBook guarantees under that discipline holds of a run.
FollowsBookDiscipline == Book!Spec

\* The counts the report prints per endpoint name are what each endpoint
\* landed: as many as there are credited transactions of that endpoint, each
\* of which did land.
PerEndpointCounts ==
  \A e \in Endpoints :
    Book!Wins(NameOf[e]) = Cardinality({s \in acked \cap landed : s[1] = e})

\* Every transaction of a round carries the same nonce and the round is known
\* by it, so without forks at most one endpoint wins a round: the landings
\* of all endpoints add up to the landed rounds of the report.
OneWinnerPerRound == Cardinality(acked) = Cardinality(landed_rounds)

\* "Fetch a fresh durable nonce hash": no round is built on the nonce of an
\* earlier one.
NoncesAreFresh ==
  \A i, j \in 1..Round : nonces[i] = nonces[j] => i = j

\* Latencies are measured, not clipped: an observation on its way to the book
\* was stamped no earlier than the send it belongs to, so saturating_sub in
\* record_landing never saturates.
LatencyIsCausal ==
  \A i \in 1..Len(memo) :
    memo[i].signature \in DOMAIN sent =>
      memo[i].elapsed_since_start >= sent[memo[i].signature].sent_elapsed

\* Once the Ctrl-C task has broadcast, main starts no round it had not already
\* begun to fetch a nonce for, although its receiver is only polled between
\* rounds and the broadcast may come at any moment of one.
NoRoundAfterStop ==
  [][main = "top" /\ ctrl_c = "sent" => main' # "fetch"]_vars

\* The report is taken when nothing can change the book any more: every future
\* has ended, the listener too, and each observation it handed over has been
\* credited or refused.
ReportIsFinal ==
  main = "done" =>
    /\ \A e \in Endpoints : Idle(e)
    /\ listener = "stopped"
    /\ held = <<>>
    /\ memo = <<>>

\* A run ends, with a report or with an error, whatever fails and whatever the
\* listener does once it is ready.  Three waits in it have no timeout and may
\* be for ever: for a listener that neither is ready nor gives up (it hears
\* nothing, or its first message had no update and ready_tx is kept unused),
\* for the Soyas handshakes, and for a Soyas endpoint to take a transaction.
NeverReady    == main = "await_ready" /\ ready = "pending"
NeverSetUp    == main = "setup" /\ Untimed # {}
NeverTaken(e) == e \in Untimed /\ task[e] = "sending"
Termination ==
  \/ <>~Alive
  \/ <>[]NeverReady
  \/ <>[]NeverSetUp
  \/ \E e \in Endpoints : <>[]NeverTaken(e)

\* How many steps a run may still take: main from where it is and for each
\* round to come, the futures, the listener with what it has been sent, and
\* what can still happen around them.
MainLeft ==
  [await_ready |-> 8, setup |-> 7, collect |-> 6, top |-> 5, fetch |-> 4,
   grace |-> 4, closing |-> 3, join |-> 2, drain |-> 1, done |-> 0, failed |-> 0][main]

FutureLeft(e) ==
  CASE task[e] = "spawned" -> 5
    [] task[e] = "sending" -> IF Mine(e) \in submitted THEN 3 ELSE 4
    [] task[e] = "sent"    -> 2
    [] task[e] = "waiting" -> 1
    [] OTHER               -> 0
FuturesLeft == {s \in Endpoints \X (1..5) : s[2] <= FutureLeft(s[1])}

RoundsLeft  == (5 * Cardinality(Endpoints) + 3) * (Transactions - Round)
ListenLeft  == [connecting |-> 2, running |-> 1, stopped |-> 0][listener]
                 + 3 * Len(stream) + 2 * Len(held) + Len(memo)
StopLeft    == [idle |-> 2, flagged |-> 1, sent |-> 0][ctrl_c]
OutsideLeft == 4 * (Transactions + MaxReorgs - minted)
                 + (MaxReorgs - TakenBack) + (MaxTime - now)

WorkLeft ==
  RoundsLeft + MainLeft + Cardinality(FuturesLeft) + ListenLeft + StopLeft + OutsideLeft

\* Every step is progress towards the end of the run, whoever takes it and
\* whatever fails: no task gives up a wait only to begin it again, so a run
\* is over, or stuck, after a number of steps known at its start.
EveryStepIsProgress == [][WorkLeft' \in Nat /\ WorkLeft' < WorkLeft]_vars

(***************************************************************************)
(* What the documentation and the messages of the program say, and some    *)
(* run refutes.                                                            *)
(***************************************************************************)

\* "watches the nonce account, extracts the payload, and attributes the
\* landing to the correct endpoint": an observation that reaches the memo
\* task is credited.
ObservationsAreCredited ==
  [][memo # <<>> /\ memo' = Tail(memo) => Head(memo).signature \in acked']_vars

\* "Round landed by another endpoint; skipping wait": nobody waits out the
\* grace period of a round that has been credited to an endpoint.
LandedRoundsAreNotWaitedFor ==
  [][\A e \in Endpoints :
       task[e] = "waiting" /\ task'[e] = "timeout" => Previous \notin landed_rounds]_vars

\* "Timed out waiting for landing; continuing" and "Prints per-endpoint
\* landing counts": when nothing but landings goes wrong, no run that has
\* credited one ends without its report.
CreditsAreReported == main = "failed" => acked = {}
=============================================================================
