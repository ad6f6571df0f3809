------------------------------- MODULE StartUp -------------------------------
(***************************************************************************)
(* From the configuration file to the transactions of a run: load_or_create *)
(* of src/src/config.rs and the front of main, up to where LandingBench    *)
(* takes over, run after run, with a user who edits the file between runs. *)
(* A process may die at any point, writing the default file included:      *)
(* fs::write truncates first and then writes.                              *)
(***************************************************************************)
EXTENDS NonceTransaction

CONSTANTS
  Configurations,  \* what the user may write into the file, if it parses
  MaxStarts,       \* bound on how often the program is started
  MaxEdits,        \* bound on how often the user writes the file
  MaxBuilt,        \* bound on the transactions of one run
  Nonces,          \* nonce hashes the transactions may be built on
  Clock            \* what the wallclock may read, again and again

ASSUME StartUpAssumption ==
  /\ Configurations \subseteq Configuration
  /\ {MaxStarts, MaxEdits, MaxBuilt} \subseteq Nat

\* The two ends of the default configuration.
RpcEndpoint(name) ==
  [name |-> <<name>>, kind |-> "rpc", tip_lamports |-> 0,
   tip_wallet |-> None, api_key |-> None]
Placeholders(endpoints) ==
  [private_key |-> "bad", nonce_account |-> "bad", prio_fee |-> 0,
   endpoint |-> endpoints]
DefaultConfig == Placeholders(<<RpcEndpoint("rpc-a"), RpcEndpoint("rpc-b")>>)

\* What parses of a prefix of the default file: the serializer puts the
\* endpoints last, so one that ends in the second of them may still parse.
OneEndpointLeft == Placeholders(<<RpcEndpoint("rpc-a")>>)

VARIABLES
  file,     \* <<>>: none; <<"garbled">>: does not parse; else <<"toml", config>>
  edited,   \* what the user has last written into it, <<>> before
  process,  \* where main is
  config,   \* what it has loaded, <<>> before
  next,     \* the endpoint whose Soyas client it connects next
  counter,  \* RANDOM_COUNTER
  built,    \* the transactions of this run
  starts,
  edits

vars == <<file, edited, process, config, next, counter, built, starts, edits>>

Garbled     == <<"garbled">>
Holding(c)  == <<"toml", c>>
Written     == {Garbled} \cup {Holding(c) : c \in Configurations}
Over        == {"idle", "done", "failed", "panicked", "killed"}
Endpoints   == config[1].endpoint

Init ==
  /\ file = <<>>
  /\ edited = <<>>
  /\ process = "idle"
  /\ config = <<>>
  /\ next = 1
  /\ counter = 0
  /\ built = <<>>
  /\ starts = 0
  /\ edits = 0

Goto(from, to) == process = from /\ process' = to
RunUnchanged   == UNCHANGED <<next, counter, built, starts>>
FileUnchanged  == UNCHANGED <<file, edited, edits>>
-----------------------------------------------------------------------------
(***************************************************************************)
(* load_or_create                                                          *)
(***************************************************************************)
Start(to) ==
  /\ process \in Over
  /\ starts < MaxStarts
  /\ starts' = starts + 1
  /\ process' = to
  /\ config' = <<>>
  /\ next' = 1
  /\ counter' = 0
  /\ built' = <<>>

NeverThere == FALSE
Exists     == file # <<>>

FindNoFile == ~Exists /\ Start("creating") /\ FileUnchanged
FindFile   == Exists /\ Start("loading") /\ FileUnchanged

\* ConfigToml::load.  Any file may turn out to be unreadable.
LoadFails ==
  /\ Goto("loading", "failed")
  /\ FileUnchanged /\ RunUnchanged /\ UNCHANGED config

Load ==
  /\ file # Garbled
  /\ Goto("loading", "loaded")
  /\ config' = <<file[2]>>
  /\ FileUnchanged /\ RunUnchanged

\* ConfigToml::create_default.  fs::write: the file is there, and empty,
Truncate ==
  /\ Goto("creating", "writing")
  /\ file' = Garbled
  /\ UNCHANGED <<edited, edits, config>> /\ RunUnchanged

\* then written.
WriteDefault ==
  /\ Goto("writing", "loaded")
  /\ file' = Holding(DefaultConfig)
  /\ config' = <<DefaultConfig>>
  /\ UNCHANGED <<edited, edits>> /\ RunUnchanged

\* The disk is full, or the process dies: what was written so far stays.
WriteFails ==
  /\ Goto("writing", "failed")
  /\ file' \in {Garbled, Holding(OneEndpointLeft), Holding(DefaultConfig)}
  /\ UNCHANGED <<edited, edits, config>> /\ RunUnchanged

LoadOrCreate ==
  FindNoFile \/ FindFile \/ LoadFails \/ Load \/ Truncate \/ WriteDefault \/ WriteFails
-----------------------------------------------------------------------------
(***************************************************************************)
(* main, up to the rounds.  Each check is a step, for the order of the     *)
(* checks decides which error the user sees.                               *)
(***************************************************************************)
WarnOnly(from, ok, to) ==
  /\ Goto(from, to)
  /\ FileUnchanged /\ RunUnchanged /\ UNCHANGED config
Check(from, ok, to) ==
  /\ Goto(from, IF ok THEN to ELSE "failed")
  /\ FileUnchanged /\ RunUnchanged /\ UNCHANGED config

Validate       == Check("loaded", ValidConfig(config[1]), "validated")
KeyDecodes     == config[1].private_key = "good"
DecodeKey      == Check("validated", KeyDecodes, "keyed")
ParseNonce     == Check("keyed", config[1].nonce_account = "good", "waiting")

\* spawn_memo_listener and its ready signal: LandingBench.
ListenerReady  == Check("waiting", TRUE, "connecting")
ListenerFails  == Check("waiting", FALSE, "connecting")

\* SoyasClient::connect for each Soyas endpoint in turn; another kind is
\* passed over.
Passes(i) == i <= Len(Endpoints) /\ Endpoints[i].kind # "soyas"
Awaits(i) == i <= Len(Endpoints) /\ Endpoints[i].kind = "soyas"

Advance ==
  /\ next' = next + 1
  /\ UNCHANGED <<process, config, counter, built, starts>> /\ FileUnchanged

PassOver == process = "connecting" /\ Passes(next) /\ Advance
Connect  ==
  /\ process = "connecting"
  /\ Awaits(next)
  /\ Endpoints[next].api_key = "good"
  /\ Advance

\* No api key, an address that does not resolve, no answer.
ConnectFails ==
  /\ Goto("connecting", "failed")
  /\ Awaits(next)
  /\ Endpoints[next].api_key # "bad"
  /\ FileUnchanged /\ RunUnchanged /\ UNCHANGED config

\* Keypair::from_base58_string panics on a key that is none.
ConnectPanics ==
  /\ Goto("connecting", "panicked")
  /\ Awaits(next)
  /\ Endpoints[next].api_key = "bad"
  /\ FileUnchanged /\ RunUnchanged /\ UNCHANGED config

Connected ==
  /\ Goto("connecting", "running")
  /\ next > Len(Endpoints)
  /\ FileUnchanged /\ RunUnchanged /\ UNCHANGED config

SetUp ==
  Validate \/ DecodeKey \/ ParseNonce \/ ListenerReady \/ ListenerFails
    \/ PassOver \/ Connect \/ ConnectFails \/ ConnectPanics \/ Connected
-----------------------------------------------------------------------------
(***************************************************************************)
(* The transactions of the rounds, in any order of endpoints and on any    *)
(* nonces (fetch_fresh_nonce_hash may return one twice).                   *)
(***************************************************************************)

\* The part of send_single_tx before the send.  The payload, and with it the
\* counter, is spent before the tip is looked at.
Transaction(i, nonce_hash, clock, count) ==
  LET endpoint == Endpoints[i]
      payload  == RandomPayload(endpoint.name, clock, count)
      instrs   == BuildInstructions(endpoint, config[1].prio_fee, payload)
      error    == TipError(endpoint)
  IN [endpoint |-> i,
      error    |-> error,
      message  |-> IF error = None THEN <<Message(instrs, nonce_hash)>> ELSE <<>>]

Build(i, nonce_hash, clock) ==
  /\ process = "running"
  /\ Len(built) < MaxBuilt
  /\ counter' = counter + 1
  /\ built' = Append(built, Transaction(i, nonce_hash, clock, counter))
  /\ FileUnchanged /\ UNCHANGED <<process, config, next, starts>>

Finish == Goto("running", "done") /\ FileUnchanged /\ RunUnchanged /\ UNCHANGED config

\* SIGKILL, power: anywhere but in WriteFails's window.
Dies ==
  /\ process \notin Over \cup {"writing"}
  /\ process' = "killed"
  /\ FileUnchanged /\ RunUnchanged /\ UNCHANGED config

\* The user writes the file while the program is not running, well or badly.
Edit(content) ==
  /\ process \in Over
  /\ edits < MaxEdits
  /\ edits' = edits + 1
  /\ file' = content
  /\ edited' = content
  /\ UNCHANGED <<process, config, next, counter, built, starts>>

Next ==
  \/ LoadOrCreate
  \/ SetUp
  \/ \E nonce_hash \in Nonces, clock \in Clock :
       process = "running" /\ \E i \in DOMAIN Endpoints : Build(i, nonce_hash, clock)
  \/ Finish
  \/ Dies
  \/ \E content \in Written : Edit(content)

Spec == Init /\ [][Next]_vars
-----------------------------------------------------------------------------
(***************************************************************************)
(* Properties                                                              *)
(***************************************************************************)
Loaded    == {"loaded", "validated", "keyed", "waiting", "connecting", "running"}
Processes == Over \cup {"creating", "writing", "loading"} \cup Loaded
Known == Configurations \cup {DefaultConfig, OneEndpointLeft}

TypeOK ==
  /\ file \in {<<>>, Garbled} \cup {Holding(c) : c \in Known}
  /\ edited \in {<<>>} \cup Written
  /\ process \in Processes
  /\ config \in {<<>>} \cup {<<c>> : c \in Known}
  /\ next \in Nat \ {0}
  /\ built \in Seq({built[k] : k \in DOMAIN built})
  /\ counter = Len(built) /\ counter <= MaxBuilt
  /\ starts \in 0..MaxStarts /\ edits \in 0..MaxEdits

\* main works on the file as it was loaded, and has checked of it what its
\* place in the code says.  It only writes where the user has not.
ConfigIsChecked ==
  /\ process = "creating" => file = <<>>
  /\ process = "writing" => file = Garbled /\ edited = <<>>
  /\ process = "loading" => file # <<>>
  /\ process \in Loaded => config # <<>> /\ file = Holding(config[1])
  /\ process \in Loaded \ {"loaded"} => ValidConfig(config[1])
  /\ process \in Loaded \ {"loaded", "validated"} => config[1].private_key = "good"
  /\ process \in {"connecting", "running"} => next <= Len(Endpoints) + 1
  /\ process \notin Over \cup {"connecting", "running"} => next = 1

\* Transactions are built once everything is set up, the k-th of a run with the
\* k-th value of the counter.
BuiltInTurn ==
  /\ process \notin Over \cup {"running"} => built = <<>>
  /\ built # <<>> => config # <<>> /\ ValidConfig(config[1])
  /\ \A k \in DOMAIN built :
       \E i \in DOMAIN Endpoints, nonce_hash \in Nonces, clock \in Clock :
         built[k] = Transaction(i, nonce_hash, clock, k - 1)

\* A benchmark runs on what the user wrote and on nothing else: a default file,
\* whole or torn by a crash as it was first written, gets through loading and
\* validation but never as far as the listener.
RunsOnUserConfig ==
  process \in {"waiting", "connecting", "running"} => edited = Holding(config[1])

\* What the user has written stays: no start, failure or crash of the program
\* ever replaces it by the default file or tears it.  Before, the file is one
\* of ours, whole or torn.
UserFileIsKept ==
  IF edited # <<>> THEN file = edited
  ELSE file \in {<<>>, Garbled, Holding(DefaultConfig), Holding(OneEndpointLeft)}

\* The types, what happens to the file, and what main has checked and built.
StartUpInv == TypeOK /\ ConfigIsChecked /\ BuiltInTurn /\ UserFileIsKept

\* validate_config leaves build_instructions only one way to fail, an address
\* that does not parse, and no endpoint that is to be tipped goes without.
OnlyBadWalletsFail ==
  \A i \in DOMAIN built :
    LET endpoint == Endpoints[built[i].endpoint]
    IN built[i].error # None =>
         built[i].error = "invalid tip_wallet" /\ endpoint.tip_wallet = "bad"

\* What extract_memo finds in one of our transactions names the endpoint it
\* was built for, so record_landing can credit it, unless the name has a bar.
LandingsAreAttributable ==
  \A i \in DOMAIN built : \A j \in DOMAIN built[i].message :
    LET memo == ExtractMemo(built[i].message[j])
        name == Endpoints[built[i].endpoint].name
    IN memo \notin {<<>>, <<<<>>>>} /\ (ObservedProvider(memo[1]) = name <=> Len(name) = 1)

\* No two transactions of a run are the same, so their signatures, by which
\* the LandingBook knows them, differ: not for two endpoints of one name in
\* one round, not for two rounds on one nonce, not when the clock stands still.
TransactionsAreDistinct ==
  \A i, j \in DOMAIN built :
    i # j /\ built[i].message # <<>> => built[i].message # built[j].message
=============================================================================
