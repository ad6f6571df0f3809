---------------------------- MODULE SoyasClient ----------------------------
(***************************************************************************)
(* The QUIC sender of src/src/senders/soyas.rs: one connection that sends  *)
(* share through an ArcSwap, replaced by a send that fails on it, with a   *)
(* mutex that is only ever tried.  The network and quinn are external: a   *)
(* connection may die at any moment, and it is closed, with what it has    *)
(* not transmitted yet, when nobody refers to it any more.                 *)
(*                                                                         *)
(* A step ends at each await and at each access to the shared fields.      *)
(* Connections are numbered in the order their handshakes begin.           *)
(***************************************************************************)
EXTENDS Integers, FiniteSets

CONSTANTS
  Sends,  \* calls of send_transaction, each with a transaction of its own
  Nobody  \* no send: the mutex is free

ASSUME SoyasAssumption == IsFiniteSet(Sends) /\ Nobody \notin Sends

VARIABLES
  client,      \* "connecting", "ready", or "failed": main gets no client
  connection,  \* the connection in the ArcSwap
  made,        \* connections whose handshake has begun: 1..made
  dead,        \* those that died
  reconnect,   \* who holds the mutex
  pc,          \* send -> where it is
  loaded,      \* send -> the connection it holds, 0 for none
  failed,      \* send -> the connection its first attempt failed on, or 0
  making,      \* send -> the connection it is making, or 0
  buffered,    \* pairs of a connection and a send whose bytes are in it
  copies       \* send -> how many copies the server has read

shared  == <<client, connection, made, reconnect>>
outside == <<dead, copies>>
locals  == <<loaded, failed, making>>
vars    == <<shared, outside, pc, locals, buffered>>

Init ==
  /\ client = "connecting"
  /\ connection = 1
  /\ made = 1
  /\ dead = {}
  /\ reconnect = Nobody
  /\ pc = [s \in Sends |-> "called"]
  /\ loaded = [s \in Sends |-> 0]
  /\ failed = [s \in Sends |-> 0]
  /\ making = [s \in Sends |-> 0]
  /\ buffered = {}
  /\ copies = [s \in Sends |-> 0]

\* The ArcSwap and the sends that loaded it keep a connection open; a send
\* lets both of its own go when it returns.
Returned(s) == pc[s] \in {"ok", "err"}
Referred(c) ==
  \/ connection = c
  \/ \E s \in Sends : ~Returned(s) /\ c \in {loaded[s], failed[s]}
Open(c) == c \notin dead /\ Referred(c)
-----------------------------------------------------------------------------
\* SoyasClient::connect, before any send.
Connect ==
  /\ client = "connecting"
  /\ client' \in {"ready", "failed"}
  /\ UNCHANGED <<connection, made, reconnect, outside, pc, locals, buffered>>

Goto(s, from, to) ==
  /\ client = "ready"
  /\ pc[s] = from
  /\ pc' = [pc EXCEPT ![s] = to]

\* self.connection.load_full(), for the first and for the second attempt.
SameAgain(s) == IF failed[s] = 0 THEN connection ELSE failed[s]
Current(s)   == connection

Load(s) ==
  /\ \/ Goto(s, "called", "first")
     \/ Goto(s, "reconnected", "second")
  /\ loaded' = [loaded EXCEPT ![s] = Current(s)]
  /\ UNCHANGED <<shared, outside, failed, making, buffered>>

\* try_send_bytes: Ok means that the bytes and the end of the stream are in
\* the send buffer of a connection that was open then.
WriteThen(s, first) ==
  /\ Goto(s, "first", first) \/ Goto(s, "second", "ok")
  /\ Open(loaded[s])
  /\ buffered' = buffered \cup {<<loaded[s], s>>}
  /\ UNCHANGED <<shared, outside, locals>>

WriteAgain(s) == WriteThen(s, "retrying")
Write(s)      == WriteThen(s, "ok")

\* It errs when the connection is lost or the server stops the stream, in
\* either case before all bytes were accepted.  What was accepted of them
\* counts as nothing: a lost connection delivers no more of it, a stopped
\* stream neither.
Unfinished(s) == buffered

FirstFails(s) ==
  /\ Goto(s, "first", "retrying")
  /\ failed' = [failed EXCEPT ![s] = loaded[s]]
  /\ buffered' = Unfinished(s)
  /\ UNCHANGED <<shared, outside, loaded, making>>

\* The error of the second attempt is the result.
Again    == "reconnected"
GivingUp == "err"

SecondFails(s) ==
  /\ Goto(s, "second", GivingUp)
  /\ UNCHANGED <<shared, outside, locals, buffered>>

\* reconnect.try_lock()
Unguarded(s) == TRUE
CanLock(s)   == reconnect = Nobody

LockAndConnect(s) ==
  /\ CanLock(s)
  /\ Goto(s, "retrying", "connecting")
  /\ reconnect' = s
  /\ made' = made + 1
  /\ making' = [making EXCEPT ![s] = made + 1]
  /\ UNCHANGED <<client, connection, outside, loaded, failed, buffered>>

\* Another send is reconnecting: this one errs, it does not wait.
LockBusy(s) ==
  /\ ~CanLock(s)
  /\ Goto(s, "retrying", "err")
  /\ UNCHANGED <<shared, outside, locals, buffered>>

\* connect_with().await, store, and the guard goes out of scope.
Released(s)  == Nobody

Connected(s) ==
  /\ Goto(s, "connecting", "reconnected")
  /\ connection' = making[s]
  /\ reconnect' = Released(s)
  /\ UNCHANGED <<client, made, outside, locals, buffered>>

ConnectFails(s) ==
  /\ Goto(s, "connecting", "err")
  /\ reconnect' = Released(s)
  /\ UNCHANGED <<client, connection, made, outside, locals, buffered>>

Send(s) ==
  Load(s) \/ Write(s) \/ FirstFails(s) \/ SecondFails(s) \/ LockAndConnect(s)
    \/ LockBusy(s) \/ Connected(s) \/ ConnectFails(s)
-----------------------------------------------------------------------------
\* The network delivers, and connections die.
Arrive(c, s) ==
  /\ <<c, s>> \in buffered
  /\ Open(c)
  /\ buffered' = buffered \ {<<c, s>>}
  /\ copies' = [copies EXCEPT ![s] = @ + 1]
  /\ UNCHANGED <<shared, dead, pc, locals>>

Die(c) ==
  /\ c \in (1..made) \ dead
  /\ dead' = dead \cup {c}
  /\ UNCHANGED <<shared, copies, pc, locals, buffered>>

AllReturned == client = "failed" \/ \A s \in Sends : Returned(s)
Finished    == AllReturned /\ UNCHANGED vars

Next ==
  \/ Connect
  \/ \E s \in Sends : Send(s)
  \/ \E c \in 1..made : Die(c) \/ \E s \in Sends : Arrive(c, s)
  \/ Finished

\* A handshake or a write ends when its connection has died.
OnDead(s) ==
  \/ loaded[s] \in dead /\ (FirstFails(s) \/ SecondFails(s))
  \/ making[s] \in dead /\ (Connected(s) \/ ConnectFails(s))

\* The client's own steps, and the errors of dead connections.  Nothing is
\* asked of a connection that lives, neither to take a stream or its bytes,
\* for which the code has no timeout, nor to die: KEEP_ALIVE_INTERVAL keeps
\* MAX_IDLE_TIMEOUT away from it.
Fairness ==
  /\ WF_vars(1 \in dead /\ Connect)
  /\ \A s \in Sends :
       WF_vars(Load(s) \/ LockAndConnect(s) \/ LockBusy(s) \/ OnDead(s))

Spec     == Init /\ [][Next]_vars
FairSpec == Spec /\ Fairness
-----------------------------------------------------------------------------
(***************************************************************************)
(* Properties                                                              *)
(***************************************************************************)
TypeOK ==
  /\ client \in {"connecting", "ready", "failed"}
  /\ made \in Nat \ {0} /\ made <= Cardinality(Sends) + 1
  /\ connection \in 1..made
  /\ dead \subseteq 1..made
  /\ reconnect \in Sends \cup {Nobody}
  /\ pc \in [Sends -> {"called", "first", "retrying", "connecting",
                       "reconnected", "second", "ok", "err"}]
  /\ {loaded, failed, making} \subseteq [Sends -> 0..made]
  /\ buffered \subseteq (1..made) \X Sends
  /\ copies \in [Sends -> Nat]

\* The second attempt is made on a connection younger than the one the first
\* failed on, whatever other sends stored in between.
RetryIsOnNewerConnection ==
  \A s \in Sends : pc[s] = "second" => loaded[s] > failed[s]

\* Whoever holds the mutex is reconnecting, and whoever reconnects holds it:
\* no failed reconnect shuts the later ones out.
MutexIsForReconnecting ==
  \A s \in Sends : pc[s] = "connecting" <=> reconnect = s

\* Past its first step a send holds a connection.  The ArcSwap is never older
\* than a connection that somebody loaded or failed on, a handshake under way is for
\* a younger one, and after it the ArcSwap is ahead of the one that failed.
ConnectionsGrowYounger ==
  \A s \in Sends :
    /\ loaded[s] <= connection /\ failed[s] <= connection
    /\ pc[s] # "called" => loaded[s] > 0
    /\ pc[s] = "connecting" => making[s] > connection
    /\ pc[s] = "reconnected" => connection > failed[s]

\* Beside the first, a connection was begun by a send of its own.
OneReconnectPerSend ==
  /\ made = Cardinality({s \in Sends : making[s] # 0}) + 1
  /\ \A s \in Sends : pc[s] \in {"called", "first", "retrying"} => making[s] = 0

\* The bytes of a send that returned Ok are in one send buffer or at the
\* server, once in all; those of any other send are nowhere.
BytesAreInOnePlace ==
  \A s \in Sends, c \in 1..made :
    /\ pc[s] # "ok" => copies[s] = 0
    /\ <<c, s>> \in buffered =>
         /\ pc[s] = "ok" /\ copies[s] = 0
         /\ \A d \in 1..made : <<d, s>> \in buffered => d = c

\* The types, and what reconnects owe to each other: one at a time, and each
\* for a send whose connection is older than the one it goes on with.
ClientInv ==
  /\ TypeOK
  /\ MutexIsForReconnecting
  /\ RetryIsOnNewerConnection
  /\ ConnectionsGrowYounger
  /\ OneReconnectPerSend
  /\ BytesAreInOnePlace

\* A reconnect never puts an older connection in place of a younger one.
OnlyRenewed == [][connection' >= connection]_vars

\* Every call returns, with at most one retry, whatever dies, unless it comes
\* to wait for ever on a connection that lives.  Whoever does so holds up no
\* other call, not even while it reconnects.
Waits(s) ==
  \/ pc[s] \in {"first", "second"} /\ loaded[s] \notin dead
  \/ pc[s] = "connecting" /\ making[s] \notin dead
SendsReturn ==
  \/ <>[](client = "connecting" /\ 1 \notin dead)
  \/ <>(client = "failed")
  \/ \A s \in Sends : <>Returned(s) \/ <>[]Waits(s)

\* A retried transaction reaches the server at most once, and none whose
\* send returned an error does.
AtMostOnce == INSTANCE AtMostOnceSend WITH
  outcome <- [s \in Sends |-> IF Returned(s) THEN pc[s] ELSE "pending"]
ImplementsAtMostOnce == AtMostOnce!Spec
=============================================================================
