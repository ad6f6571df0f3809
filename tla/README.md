# A TLA+ verification of LandingBench

LandingBench sends, round after round, the same durable-nonce transaction
through several Solana forwarders, watches the nonce account on one Yellowstone
gRPC stream and reports which forwarder landed how many rounds and how fast.
This directory holds TLA+ models of that program, the TLC configurations that
check them, and TLAPS proofs. Line numbers refer to `src/` at the commit
modelled; "main.rs" is `src/src/main.rs`.

## Inventory

What is compiled is `main.rs`, `config.rs`, `proto.rs`, `utils.rs`,
`providers/{yellowstone,yellowstone_client}.rs` and `senders/`. The rest of
`providers/`, `backend.rs` and `analysis.rs` are not reached by any `mod`
declaration; they come from an earlier tool and name types that no longer exist
(`Comparator`, `TransactionData`, `ProgressTracker`). They are modelled as they
read, with those types external.

| Component | State | Operations | Hard behaviour |
|---|---|---|---|
| `LandingBook` (main.rs 52-187) | `sent`, `metrics`, `rounds_attempted`, `landed_rounds`, `waiters`, `round_notifiers` behind one mutex; the oneshot and watch channels it hands out | `start_round`, `record_send`, `record_landing`, `finalize` | calls of three kinds of tasks in any order; a landing may come before, after or twice for one registration |
| main loop (main.rs 286-459) | round counter, `previous_nonce`, shutdown flag and receiver | readiness, rounds, nonce fetch, fan-out, grace, join or abort, report | errors that end the run, Ctrl-C at any moment, what is still in flight at the report |
| endpoint futures (main.rs 470-558) | one future per endpoint and round, its two receivers | skip, build, send, register, wait | send outcome against landing, two ready arms of one `select!`, timeout |
| nonce fetch (main.rs 630-662) | last nonce | poll until it differs | lagging or forked RPC, deadline |
| memo task (main.rs 375-380) | the memo channel, capacity 1024 | `record_landing` per observation | runs on another thread |
| gRPC listener (yellowstone.rs 29-235) | connection, readiness oneshot, observation being handed over | subscribe, observe, hand over, stop | stream failure, full channel, shutdown while blocked |
| nonce transaction (main.rs 565-628, 671-717; yellowstone.rs 199-235) | none (pure) | build, tag, validate, parse back | names that contain the separator, settings that validate but do not build |
| summary (main.rs 169-244, 719-842; utils.rs 17-23) | none (pure) | sort, percentiles, shares | empty input, rounding at the ends |
| Soyas sender (senders/soyas.rs) | swapped connection, reconnect lock | connect, send, reconnect, resend | concurrent failures of one connection |
| RPC senders (senders/rpc.rs, custom.rs) | none | one call | an error after acceptance |
| backend stream (backend.rs, not compiled) | socket, command queue, status channel | handshake, signatures, end, completion | completion, failure and queue against each other |
| stream providers (providers/*, not compiled) | accumulators, shared counter and shutdown flag, signature queue | record, envelope, count to the target, stop | the race to the target, a full queue, an ended stream |
| run summary (analysis.rs, not compiled) | per-endpoint statistics | one turn per transaction, then sort, percentiles, fastest | maps in any order, ties, repeated names |
| configuration and start-up (config.rs; main.rs 296-358) | the file; the client map | load, create, validate, decode, wait, connect | a crash inside the write, which error comes first |
| protobuf, gRPC wrapper | none of their own | I/O | none |

How they meet: main calls `start_round`, then polls the endpoint futures inside
its own task; each calls `record_send` after its send and then waits on a oneshot
(its own landing) and on the round's watch channel (anyone's). The listener
stamps memo transactions and sends them over the memo channel to the memo task,
which calls `record_landing`; that fires the channels. Ctrl-C sets a flag and
broadcasts to main, to the listener and to the futures that are about to send.

What makes it correct: each landed transaction is counted once, for the endpoint
that sent it; nobody who waits is forgotten; a round is counted at most once;
latency is the time from send to observation; the report is taken when nothing
can change it any more; every run ends.

## Modules

| Module | What it is |
|---|---|
| `HashMaps` | `insert`, `entry().or_insert`, `remove` of std's HashMap |
| `MemoTag` | the tag `name\|random` and how `record_landing` reads it back |
| `LandingBook` | the book: one action per method and branch, under the discipline of its callers |
| `LandingLedger` | what the book promises: enter once, leave once, tally on winning |
| `Percentiles` | `utils::percentile` and sorting, over integers |
| `LandingSummary` | `finalize` and the numbers of `render_summary`, on a `LandingBook` |
| `LandingBench` | a whole run around an `INSTANCE` of the book |
| `SoyasClient` | the shared QUIC connection, its reconnects and the sends on it |
| `AtMostOnceSend` | what `send_transaction` promises, implemented by `SoyasClient` |
| `NonceTransaction` | `validate_config`, `build_instructions`, `random_ix_payload`, `extract_memo` |
| `StartUp` | the configuration file and the front of main, over several runs |
| `BackendStream` | handshake, command channel, forwarding task, senders, `finish` |
| `SignatureRace` | the five stream providers on their shared counter, flag, queue and broadcast |
| `RunSummary` | `analysis.rs` |
| `LandingBookProofs` | the book and the report on it, for every instance |
| `LandingBenchProofs` | a run: its own invariant, that the book's theorems hold of it, and that its steps run out |
| `SoyasClientProofs` | the client's invariant and its refinement of `AtMostOnceSend` |
| `StartUpProofs` | what a run is based on, and that its transactions can be told apart |
| `BackendStreamProofs` | order of the frames, outcome of a run |
| `SignatureRaceProofs` | counter, envelopes, batches |
| `PercentileProofs` | sorting and percentiles of any data, and induction over their length |
| `RunSummaryProofs` | the summary of any observations |
| `MC*` | instances for TLC |

`LandingSummary` extends `LandingBook` and `Percentiles`; `RunSummary` extends
`Percentiles`; `StartUp` extends `NonceTransaction`, which extends `MemoTag`;
`LandingBench` instantiates `LandingBook`; `SoyasClient` and `LandingBook` each
instantiate the specification they implement. Each proof module extends the module
it is about, `LandingBookProofs` by way of `LandingSummary`; it and `RunSummaryProofs`
also extend `PercentileProofs`, and `LandingBenchProofs` instantiates `LandingBookProofs` for the book of the run.

### LandingBook

The variables are the fields of `LandingBookInner`. A oneshot sender in `waiters`
is the presence of the signature; a watch sender in `round_notifiers` is the set
of signatures that subscribed to it. What receivers have seen is `acked` (oneshot
fired) and `notified` (watch set to true). Each method holds the mutex from start
to end, so each is one step; `record_landing` is split by its two early returns
into `IgnoreLanding`, `ForfeitLanding` and `CreditLanding`. A name is the
sequence of its segments between `|`, because the bar is the one character on
which the program branches (main.rs 127-131).

`Next` admits any sequence of calls of this discipline: a signature is registered
at most once, with its own name, in a round that was started. Observations are
arbitrary. `LandingBench` is shown to respect it (`FollowsBookDiscipline`).

`LandingSummary` is a function of the book's state and of the order in which the
map yields its entries, which is quantified over. Latencies are whole milliseconds;
the average is kept as a sum and a count. `Sorted` of `Percentiles` is the stable
sort said without an algorithm: the datum at place k is the one that has k - 1 data
before it, where an equal one counts when it came earlier. The loops of `finalize` and
`compute_overall` are functions from the turns done to what they have come to
(`Collected`, `Sums`).

### LandingBench

An action is what one task does between two awaits at which another task can
interfere. `main` is the program counter of main: `await_ready`, `setup`, `top`
of the loop, `fetch`, `collect`, `grace`, `closing`, `join`, `drain`, `done` or
`failed`. `task[e]` is where the future of endpoint `e` is in this round or how
it ended. `signal` is the set of receivers with an unread shutdown broadcast: a
future subscribes when it is created, so what was broadcast earlier is not seen.
`ctrl_c` separates setting the flag from broadcasting. `held` is an observation
between `elapsed()` and the completion of `memo_tx.send`.

A signature is `<<endpoint, round>>`: the random part of the payload, with its
process-wide counter (main.rs 621-628), keeps two transactions on one nonce apart
(`TransactionsAreDistinct` of run `start_up`). A nonce is a number, and a round's
id is its nonce (bs58 is injective). Outside the process the chain is a stack of
nonces: `Land` needs the transaction's nonce to be the current one and pushes a new
one, `Reorg` pops one, and the RPC may answer from up to `MaxLag` landings back.

Timers are untimed: a sleep or timeout may end at any moment. Consequences: the
retry of the nonce fetch is the choice between `FetchNonce` and `FetchTimeout`;
a landing may always come too late. The wait's inner future is polled before its
timer, so `TimedOut` needs both channels silent. The clock is used for stamps only.

A send that returns Ok has been submitted; that the Soyas client may say Ok of bytes
that never arrive (below) is covered, for a submitted transaction need not land.

Left out of the run: foreign transactions on the nonce account (their signatures
are unknown to the book and `IgnoreLanding` would take them), the default SIGINT
death before the Ctrl-C task exists, and the tracing output.

### SoyasClient and AtMostOnceSend

A send goes `called`, `first`, `retrying`, `connecting`, `reconnected`, `second`,
then `ok` or `err`; `loaded` is the `Arc<Connection>` it holds. `try_lock` on the
mutex fails at once when another send reconnects, and the `?` ends the send with an
error. A connection is open until it dies or nobody refers to it: the ArcSwap, a
send, or a handshake. quinn drops what it has buffered for a connection that is
closed. A write errs on a lost connection or a stopped stream, in both cases before
all bytes were accepted, and neither delivers more of them (dropping the stream
finishes it, which changes nothing on these): this, assumed of quinn in `Unfinished`
and `WriteThen`, is why a second attempt after a failed first one cannot deliver twice.

`AtMostOnceSend` is the promise: one copy at most, none after an error, and Ok
promises no arrival, since `finish` does not wait for an acknowledgement.

### NonceTransaction and StartUp

Keys, addresses and wallets are `"good"`, `"bad"` (they do not parse) or absent. A
transaction is its list of instructions; `Message` orders the keys with the payer
first, which is all `extract_memo` depends on. A hash is kept as what is hashed.

`StartUp` runs the program up to `MaxStarts` times on one file. `file` is absent,
garbled (it does not parse) or a configuration. `fs::write` truncates and writes in
two steps, and what a crash leaves in between is garbled, or one default endpoint
short (the serializer writes endpoints last), or whole. The user edits between runs,
and may garble the file as well (`Written`); any file may fail to be read (`LoadFails`).
Each `?` of main is a step of its own, in order; a Soyas key that does not parse
panics (`from_base58_string`), the others return errors. The rounds are reduced to
`Build`, in any order of endpoints and on any nonce; the rest is `LandingBench`.
`Transaction` is what `Build` makes of an endpoint, a nonce, the clock and the
counter.

### BackendStream

`commands` is the bounded channel, `accepted` what was put into it in order,
`frames` what has gone out on the socket, `received` how many of these the
backend has read. `status` and `unseen` are the watch channel with the version
that `changed()` compares. A step of the task ends at each await, at each change of
the status and at each end of a channel, for senders, `finish` and the network act in
between. `task` is where it is: at the `select!`, `writing` the command `taken` from
the channel, `ponging`, `closing` (writing the close frame, the status being final
already), `leaving` the loop, `dropping` and `ended`. A write is three steps: the
command is taken (`TakeCommand`), its frame is on the wire (`Transmit`) and may be read and
answered, the await returns (`WriteReturns`, `WriteFails`). While the task writes or
closes, the command channel goes on accepting. The function's parameters are dropped last to
first, so the status channel closes (`StatusDropped`) before the command channel does
(`ReceiverDropped`). Calls of `finish` and of senders end on what they find of both.

### SignatureRace

One task per provider, cut at the objects that are shared: record and report to the
Comparator, `fetch_add`, `swap`, `send`, `push`, `add_batch`. The five providers
differ in two things that matter: shredstream takes batches, and its
`Some(Ok(..)) =` pattern disables the branch of an ended stream where the others
`continue` in a busy loop (`Spins`). What the Comparator returns is taken from its
use: the observations of a signature once `total_producers` have reported it.
The providers are given both options: without `target_transactions` nothing stops them,
and without `signature_tx` (thor.rs 178) the queue and what is said of it fall away.

### RunSummary

The Comparator's content is any function from transactions to what some of the
endpoints saw; each turn of the loop is an action that takes one entry, so every
order of the map is a behaviour. The order of the observations of one entry is a
parameter of `Count`; `FirstAt` takes the first of the earliest in it, as
`min_by_key` does, and the delays are appended in it. `Fastest` is one name or none:
names differ, being keys of a map, and break ties of the median, so that `min_by` and
the sort have one result whatever the order they are given. Observations are of
listed endpoints only, as the providers that write them are those of the run; so
the misses of `if let Some(stats)` (analysis.rs 83 and 100) are not modelled.

## Runs

| Run | Result | What it shows |
|---|---|---|
| `book` | pass | counting, wake-ups, report, refinement and the inductive invariant (`BookInv`) under all call orders |
| `bench` | pass | how book, tasks, channels and chain keep in step (`BenchInv`); one winner per round, fresh nonces, causal latencies, final report |
| `bench_forks` | pass | per-endpoint counts, the book's discipline and progress with every step, under repeated landings, lag, broken streams and a silent first message |
| `bench_faults` | pass | termination but for three named waits without a timeout, and the stop rule, under all failures and Ctrl-C |
| `soyas` | pass | at most one copy of each transaction, retries on newer connections, an orderly mutex, every call returns unless a living connection never takes its bytes, and holds up no other |
| `backend` | pass | order of the frames, Ok means received, a true and final outcome, nobody stays blocked but on a silent backend |
| `race` | pass | an exact shared counter, a target that is never passed unnoticed, one broadcast that stops everyone, no envelope lost or doubled |
| `run_summary` | pass | the results equal a definition without loops, in every order |
| `start_up` | pass | what reaches the rounds, how the rest fails, what is sent and how it is read back |
| `bench_early_landing` | violation | a landing observed before `record_send` is dropped |
| `bench_late_registration` | violation | a late `record_send` waits on a notifier nobody signals |
| `bench_unlanded_round` | violation | one unlanded round ends the run without its report |

Bounds.

- `book`: four transactions of three endpoints (one sends two, and competes with
  itself), two round ids and three starts (so ids repeat), two elapsed times
  (so latencies are zero, positive and saturated), and one name with a bar (so that
  `ForfeitLanding` happens).
- `bench*`: two endpoints and two rounds, three where two rounds after a first are
  needed; `bench_faults` has three, one whose transactions never build and one whose client
  has no timeout (`Untimed`, empty in the other runs). The memo channel
  holds one observation, so that the listener does block on it. One reorganisation
  and a lag of one suffice for a repeated landing. `MaxTime = 1` in `bench` lets the
  clock move between a send and its registration.
- `soyas`: three sends are a winner and a loser of the mutex and one that comes
  between; connections are at most one more than the sends.
- `backend`: two senders of one envelope each and the end command on a channel of two, so
  that it is full while the third waits; one noise message or ping.
- `race`: two providers, two transactions and a target of one, so that both pass it
  at once; a queue of one that fills; each transaction twice per stream.
- `run_summary`: lists of no, one repeated, two and three names; three transactions
  give a median that differs from the ends. Each was seen by all, by one or by nobody
  (`MCInit`): two of three endpoints are as incomplete as one of two.
- `start_up`: every configuration of one endpoint, some of two or none, three starts.

Symmetry is used in `run_summary` only, over the transactions, with invariants only.
The last state of a benchmark run, of the Soyas sends and of the backend stream
stutters (`Exited`, `AllReturned`, `Over`) and deadlock is checked there.
`CHECK_DEADLOCK FALSE` stands in two configurations: in `race` because a shredstream
task whose stream ended waits for ever when no one reaches the target, which is what
the code does, and in `start_up` because the user stops starting the program.

Fairness.

- `LandingBench`: weak fairness of the memo task, of main and of each endpoint future, for
  tokio runs what is ready and timers expire. A future that sends goes on because the
  RPC clients time out (solana's RpcClient after 30 s), but not one of `Untimed`: a Soyas
  send has no timeout, nor has the handshake main does at `setup`. The listener is
  not fair at all: `connect`, `subscribe` and `stream.next()` (yellowstone.rs 84, 92, 128)
  wait as long as the other side is silent, and what stops it is main (`abort` after two
  seconds). The chain, the user, failures and the clock are not fair either.
- `SoyasClient`: the client's own steps, and the errors of connections that have died. A
  connection that lives need not take a stream or bytes, nor die: the keep-alive of 25 s
  (soyas.rs 19) keeps the idle timeout of 30 s (soyas.rs 20) from it.
- `BackendStream`: the task where it does not wait for the network, the drop of its
  channels, and the calls that wait for it. Nothing is asked of the backend or the
  network: not that a write is taken, that an outcome comes, or that anything fails.
- `SignatureRace`: tasks run, subscriptions are answered, and a stream that stays up
  delivers each transaction. Streams need not stay up; the property says so.

What the code leaves without a timeout the properties name, instead of assuming it away:

- `Termination` allows a run to be for ever in one of three waits: for a listener that neither
  is ready nor gives up (`NeverReady`, main.rs 329: the other side is silent, or the
  first message has no update, yellowstone.rs 130, and `ready_tx` is neither used nor
  dropped), for a Soyas handshake (`NeverSetUp`), and for a Soyas endpoint to take a
  transaction (`NeverTaken`, main.rs 503). `bench_faults` contains all three; whatever
  else fails or falls silent, the run ends.
- `SendsReturn` allows a call to wait for ever on a connection that lives (`Waits`), or for the
  first handshake. Such a call holds up no other, even when it holds the mutex.
- `NobodyStaysBlocked` allows `finish` and the senders to wait for ever on a backend that has told no
  outcome and is silent or takes no frame (`Silent`), and the senders on one that
  completed and does not take the close frame (`CloseUntaken`); `finish` is told even then.

Each module has a `TypeOK`, and the runs check it in the invariant the proofs rest on
(`BookInv`, `BenchInv`, `ClientInv`, `StreamInv`, `RaceInv`, `SummaryInv`,
`StartUpInv`), whose other conjuncts are the named strengthenings explained under
Proofs. `NoSpuriousWakeup`, that nobody is woken by another round, is one of `BookInv`;
`LandedRatioIsBounded` follows from it, and `ReportAddsUp` has the printed share.

`Termination` says that a run ends, `EveryStepIsProgress` how: `WorkLeft` weighs where
main is, the steps of each future, what the listener and the channel hold, the rounds
to come and what may still happen outside, and each step of anyone lowers it. The
measure owes nothing to fairness. It does owe its start to the bounds of the model on
forks and the clock, `MaxReorgs` and `MaxTime`, which are finite but arbitrary.

Mutants: each passing property is broken by a plausible mistake printed beside
the definition it replaces (`SentStillThere`, `NewSubscribers`, `StampedLate`, ...).

What the models show of the code beyond the runs, from runs of `LandingBench` with
other constants:

- a bar in an endpoint name loses its landings (`LandingsAreAttributable` states
  the condition exactly);
- `NoncesAreFresh` fails with `MaxLag = 1`: rounds 1 and 3 may share a nonce;
- `PerEndpointCounts` fails when two endpoints have one name; two Soyas endpoints of
  one name also share the later client (main.rs 355);
- an endpoint whose tip wallet does not parse passes `validate_config`, sends nothing
  and is not mentioned (main.rs 400 collects the errors and drops them);
- both arms of the wait (main.rs 532) become ready together, so "landed by another
  endpoint" may be logged for one's own landing;
- a configuration file that appears between `exists` and `fs::write` (config.rs
  180-183) is overwritten; `UserFileIsKept` lets the user write between runs only.

## Proofs

Every invariant, action property and refinement that a passing run checks is proved
for every value of the constants (three of them under a hypothesis named below). Each proof module takes `Next` apart once (`StepCases`), shows
each conjunct of the inductive invariant preserved in a lemma of its own, action by
action, and joins them in a theorem. Assumptions are those named in the modules
(`SoyasAssumption`, `BackendAssumption`, ...): finite sets where something is
counted, natural bounds, and what `validate_config` guarantees.

### LandingBook (`LandingBookProofs`)

- `BookInvariant`: `BookInv`, the types included, is inductive. `WinsAreDistinctLandings` alone is not:
  a credited transaction must not be credited again, which needs that what is
  pending is registered and not yet acked (`PendingIsRegistered`) under the name
  of its transaction (`PendingKeepsItsTag`). The ratio needs that the round ids the book
  knows at all, landed or still with a notifier, are no more than the starts
  (`StartsAreCounted`): a bound on the landed ones alone may be used up. The wake-ups need that a
  notifier only holds subscribers of its own round (`SubscribedToOwnRound`). The report needs
  that only names of senders have metrics, so that summing over the entries of the map
  misses no win (`MetricsAreOfSenders`), and that a credit leaves a landed round
  (`EachLandedRoundWasWon`, in both directions).
- `NoDoubleCount`, `RatioBounded`, `NobodyIsForgotten`, `NobodyIsMisled` (`NoSpuriousWakeup`):
  what run `book` checks of the book itself.
- `BarlessNamesForfeitNothing`: `NoForfeit` if no name contains a bar.
- `BookImplementsLedger`: the refinement, with `BookInv` for the steps.

`BookAssumption` is a definition with an ASSUME of it beside it, and the induction
steps are the lemmas `BookInit` and `BookStep`: a module that instantiates
`LandingBookProofs` shows the definition of its own values and then cites the lemmas.

### LandingSummary (`LandingBookProofs`, second part)

The report is a function of the book, so its theorems are lemmas about a state with
`BookInv` (`BookOrdersStatistics`, `BookAddsUp`). A loop is a function on
the turns done, which `LoopFunction` shows to exist and to obey its recursion. What is
true after every turn is then shown by `Induction`: were there a turn up to n after
which it is false, there would be a least one.

- `StatisticsOrdered`: after each turn `Collected` lists exactly the samples of the
  providers visited (`CollectedLists`), so two orders of the map give lists with
  the same values, each as often, which sort alike (`SortIsOfTheValues`); min, percentiles
  and max are in order by `PercentilesAscend`; and the sum is between as many times the
  least and the greatest element (`SumBounds`).
- `ReportsAddUp`: the wins of each provider are its samples
  (`WinsAreDistinctLandings`), so both sums grow alike with each turn. With no landed round
  there is no credit and with a credit there is a round. Together the providers won
  no fewer transactions than rounds landed, and each rounded quotient is less than one below
  the exact one (`QuotientFacts`), which the `+ 1` of each share in `ReportAddsUp`
  allows for.

### LandingBench (`LandingBenchProofs`)

`RunInv` is `BenchInv` together with `BookInv` of the run's book; the two need each
other. Of `BenchInv`, after the types:

- `RoundsAreInStep`: the book has counted as many starts as main has rounds, and futures
  are under way only while main collects them.
- `TransactionsAreOfTheirRound`: what is submitted or registered is of an endpoint whose
  future has got that far in that round. This is why no transaction is registered twice.
- `CreditsAreLandings`: what is streamed, observed or credited did land, and is credited
  to its own round.
- `StampsAreCausal`: an observation, in the listener's hand or in the channel, is stamped
  after the send even when that is not registered yet. `LatencyIsCausal` speaks of
  registered ones in the channel only and is not inductive.
- `StopsInOrder`: who has gone before main drains; main never waits to hear from a listener
  that is gone, and its own receiver keeps the broadcast.
- `ChainIsOurs`: nonces on the account ascend and each but the last was used by a
  round; hence the nonces ever minted are no more than the rounds and the reorganisations
  (an injection into these), which is the bound in the type.
- `NoncesAreUsedUp`: without forks a landing ends the life of its nonce.

Theorems: `BenchInvariant`; `RunsUseTheBook`, that every step of a run is a call
the book admits or leaves it alone (`FollowsBookDiscipline`, a refinement); from it and
`BookInv`, `BookHoldsInRuns` and `ReportsAddUpInRuns`; `LatenciesAreMeasured`,
`TheReportIsFinal`, `StopsBetweenRounds`; and `StepsRunOut`, the part of termination
that needs no fairness. A future's steps are counted as a finite set that each of its
moves makes smaller (`FutureGetsOn`); a new round takes its steps out of its share
of the rounds to come (`RoundBegins`); a landing is worth its delivery, observation and
credit and one more (`LandingGetsOn`), and `ChainIsOurs` bounds the landings. Three properties hold under a hypothesis, and the runs that
check them fix the same:

- `OneWinnerWithoutForks` needs `MaxReorgs = 0`: a landing that is
  taken back makes room for another transaction on the same nonce. It allows any lag.
- `FreshWithoutForksAndLag` needs `MaxLag = 0` as well. Both are about the cluster and
  the RPC node at the commitment main asks for; the code cannot enforce them, and the
  section above says what fails without.
- `DistinctNamesCountPerEndpoint` needs names that differ up to their first bar,
  which `validate_config` does not require and the configuration is meant to give.

### SoyasClient (`SoyasClientProofs`)

- `ClientInvariant`: `ClientInv` is inductive. That a second attempt is on a newer
  connection needs that the stored connection never is older than one somebody holds or
  failed on, and that a handshake under way is for a newer one (`ConnectionsGrowYounger`),
  which the mutex gives (`MutexIsForReconnecting`). `made` is bounded because each
  connection but the first was begun by a send of its own (`OneReconnectPerSend`).
- `NeverAnOlderConnection`: `OnlyRenewed`.
- `ClientSendsAtMostOnce`: each step is one of `AtMostOnceSend` or a stutter. It needs
  `BytesAreInOnePlace`: bytes of a send are buffered once, and only after its Ok.

### StartUp (`StartUpProofs`)

- `StartUpInvariant`: whose file it is (`UserFileIsKept`), what main has checked of it
  by where it is (`ConfigIsChecked`), and that the k-th transaction is `Transaction` of
  some endpoint, nonce and clock at counter k - 1 (`BuiltInTurn`).
- `NeverRunsOnDefaults`: both files the program writes itself have a key that does not
  decode, so what got past the key is the user's.
- `OnlyBadWallets`: each error of `build_instructions` but one is excluded by `ValidConfig`.
- `AttributableUnlessBarred`: for each shape a compiled message can have, `extract_memo`
  finds the instruction that carries the payload, and no other before it.
- `NoTransactionTwice`: from the memo the counter can be read back.

Name segments are `Segments`, not `STRING`: the provers do not know that a string
literal is a string. What is assumed of user configurations is unchanged by it.

### BackendStream (`BackendStreamProofs`)

- `StreamInvariant`: `FramesFollowCommands`, that what is on the wire, being written and queued
  is what was accepted, in this order, until the loop is left (what is queued then is
  lost). It needs that task, socket and status go together (`TaskFollowsSocket`: the status
  is final exactly when nothing is read any more, which is earlier than the channels
  close) and that nothing is taken after the end (`EndIsLast`).
- `FirstOutcomeStands`: `OutcomeIsFinal`, a step property from the same invariant.
- `FinishTellsTheOutcome`: needs that a final status stays unseen until `finish` takes it
  (`FinishIsInformed`), so that the version of the watch channel wakes it, also when the end
  command was still accepted after the outcome.
- `OkMeansAllReceived`: needs that a completion came early or after the end frame was
  read (`CompletionFollowsEnd`), wherever the message is by then.

### SignatureRace (`SignatureRaceProofs`)

The inductive invariant is `RaceInv` with `CounterIsExact` and `EnvelopesAreConserved`.

- `RaceInvariant`: `OneBroadcast`, `TargetIsAnnounced` (who counts up to the target claims
  the shutdown unless it is claimed, and after the broadcast who has not ended has it to
  read), `ReportsAreKept` (accumulators and the
  Comparator agree at every step), `HeldOnTheWay` (an envelope is held exactly on the way
  from building to publishing).
- `CounterCountsExactly`: one sighting completes a transaction, and `fetch_add` takes one from
  the built ones, so the sum of counter and built grows with the complete ones.
- `EnvelopesConserved`: a transaction's places are counted before and after each move; that
  the occurrences in a queue change by one is shown with a bijection of indices.
- `BatchesMatchReports`: from `ReportsAreKept` and that only a stopped provider hands over.
- `TheTargetStopsTheRace`: `CompleteMeansStopping`, the half of `RaceEnds` and
  `BroadcastStopsEveryone` that needs no fairness: the exact counter meets the target,
  so the shutdown was claimed, broadcast, and is read or waits to be.

### Percentiles and RunSummary (`PercentileProofs`, `RunSummaryProofs`)

Sorting is reasoned about by counting, without induction: no theorem with an operator
as parameter can be used here, and only `Induction`, over the members of a set,
stands in for it where a loop has to be followed.

- `SortedFacts`: what comes before a datum is a strictly smaller set than what comes
  before a later one, so the numbers of these are different places, and an
  injection of a finite set into itself takes every place. The same argument
  gives `AnOrderExists`, that a finite total order can be listed.
- `RankInBounds`, `RankIsMonotone`: the rounded index is inside the slice and grows with the
  percentage, for every length.
- `PercentileIsRight`: what `percentile` reads is one of the data, and the numbers of data below
  and up to it are what `IsPercentile` says, without sorting or indices.
- `SortIsOfTheValues`: of two ascending listings of the same samples neither's k-th is below
  the other's (`ListingIsNotBelow`): the samples before it would be too few.
- `PercentilesAscend`: least, percentiles and greatest are in order.
- `SummaryInvariant`: after each turn the counts are of the counted transactions
  visited so far (`CountedSoFar`); the delays of an endpoint are those of some order of
  them. A sum of first detections is the size of a disjoint union (`Credits`), which
  grows by one with each turn that counts.
- `SummaryIsRight`: at the end that is all of them, and with `PercentileIsRight`
  the summary is what `SummaryMatchesObservations` reads off the Comparator.
- `FastestFirst`: the latencies are a strict total order of the summaries, so the
  minimum and the first row of the table are the same.

### Only model-checked

- Liveness (fairness and ENABLED are out of TLAPS's reach): `Termination`,
  `SendsReturn`, `NobodyStaysBlocked`, `BroadcastStopsEveryone`, `RaceEnds`. Of
  `Termination` the half without fairness is proved (`StepsRunOut`), and what main's waits
  for the listener rest on (`StopsInOrder`: one it waits to hear from is not gone, one it
  has joined is). That a step is enabled whenever the run is not over is left to TLC.
- That the three disagreements with the documentation occur: the runs that expect a violation.

## Not modelled

- The gRPC wrapper (yellowstone_client.rs) and the generated protobuf code: calls
  and types without state between steps.
- Encoding: TOML syntax, base58, bincode, JSON; signatures and proofs of the backend
  client (backend.rs 258-290 and after 490); certificate handling of soyas.rs.
- Wording and number formats of the reports, the table, URLs and host names, tracing.
- Durations: timers may end at any moment, so no bound on how long a run takes is stated.

## Plan

Modelled: every part of the program with state of its own. Checked: what the runs list.
Proved: every safety property of the passing runs. What is left to TLC is the liveness
listed under "Only model-checked"; a measure like `WorkLeft` could also be given for the
Soyas sends, and for the backend stream and the race as long as their inputs are finite.
