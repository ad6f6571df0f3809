-------------------------- MODULE SoyasClientProofs --------------------------
(***************************************************************************)
(* Proofs that SoyasClient keeps its invariant and implements              *)
(* AtMostOnceSend, for any finite number of sends.                         *)
(***************************************************************************)
EXTENDS SoyasClient, FiniteSetTheorems, TLAPS

Places == {"called", "first", "retrying", "connecting", "reconnected",
           "second", "ok", "err"}

(***************************************************************************)
(* What a step is, and which variables each kind of step can change.       *)
(***************************************************************************)

\* The disjuncts of Next, each an action of one send, of the network, or of
\* the client.
LEMMA StepCases ==
  ASSUME [Next]_vars
  PROVE  \/ Connect
         \/ \E s \in Sends :
              \/ Load(s) \/ Write(s) \/ FirstFails(s) \/ SecondFails(s)
              \/ LockAndConnect(s) \/ LockBusy(s) \/ Connected(s) \/ ConnectFails(s)
         \/ \E c \in 1..made : Die(c)
         \/ \E c \in 1..made, s \in Sends : Arrive(c, s)
         \/ UNCHANGED vars
  BY DEF Next, Send, Finished

\* Where a send goes from where it is; the other sends stay.
LEMMA GotoFacts ==
  ASSUME TypeOK, NEW s \in Sends, NEW from, NEW to \in Places, Goto(s, from, to)
  PROVE  /\ pc[s] = from /\ client = "ready"
         /\ pc' \in [Sends -> Places]
         /\ pc'[s] = to
         /\ \A t \in Sends \ {s} : pc'[t] = pc[t]
  BY DEF TypeOK, Goto, Places

-----------------------------------------------------------------------------
(***************************************************************************)
(* Type correctness                                                        *)
(***************************************************************************)

\* The number of connections that sends have begun.
Begun == {s \in Sends : making[s] # 0}

LEMMA BegunIsFinite == IsFiniteSet(Begun) /\ Cardinality(Begun) \in Nat
  BY SoyasAssumption, FS_Subset, FS_CardinalityType DEF Begun

\* Before its handshake a send is not among them, so there is a number left
\* for it.
LEMMA RoomForOneMore ==
  ASSUME TypeOK, OneReconnectPerSend, NEW s \in Sends, making[s] = 0
  PROVE  /\ Cardinality(Begun \cup {s}) = made
         /\ made <= Cardinality(Sends)
  <1>1. s \notin Begun /\ Begun \cup {s} \subseteq Sends
    BY DEF Begun
  <1>2. Cardinality(Begun \cup {s}) = Cardinality(Begun) + 1
    BY <1>1, BegunIsFinite, FS_AddElement
  <1>3. Cardinality(Begun \cup {s}) = made
    BY <1>2, BegunIsFinite DEF OneReconnectPerSend, Begun, TypeOK
  <1>4. Cardinality(Begun \cup {s}) <= Cardinality(Sends)
    BY <1>1, SoyasAssumption, FS_Subset
  <1> QED
    BY <1>3, <1>4

LEMMA TypeInit == Init => TypeOK
  <1>1. Cardinality(Sends) \in Nat
    BY SoyasAssumption, FS_CardinalityType
  <1> QED
    BY <1>1 DEF Init, TypeOK

\* A send's own step keeps the types.
LEMMA TypeSend ==
  ASSUME ClientInv, NEW s \in Sends, Send(s)
  PROVE  TypeOK'
  <1> USE DEF TypeOK
  <1>1. Cardinality(Sends) \in Nat /\ TypeOK
    BY SoyasAssumption, FS_CardinalityType DEF ClientInv
  <1>2. CASE Load(s)
    BY <1>1, <1>2 DEF Load, Goto, Current, shared, outside
  <1>3. CASE Write(s)
    <2>1. pc[s] \in {"first", "second"}
      BY <1>3 DEF Write, WriteThen, Goto
    <2>2. loaded[s] \in 1..made
      BY <1>1, <2>1 DEF ClientInv, ConnectionsGrowYounger
    <2>3. <<loaded[s], s>> \in (1..made) \X Sends
      BY <2>2
    <2>4. /\ pc' \in [Sends -> Places]
          /\ buffered' = buffered \cup {<<loaded[s], s>>}
          /\ UNCHANGED <<shared, outside, locals>>
      BY <1>1, <1>3 DEF Write, WriteThen, Goto, Places
    <2> QED
      BY <1>1, <2>3, <2>4 DEF shared, outside, locals, Places
  <1>4. CASE FirstFails(s)
    BY <1>1, <1>4 DEF FirstFails, Goto, Unfinished, shared, outside
  <1>5. CASE SecondFails(s)
    BY <1>1, <1>5 DEF SecondFails, GivingUp, Goto, shared, outside, locals
  <1>6. CASE LockAndConnect(s)
    <2>1. pc[s] = "retrying" /\ making[s] = 0
      BY <1>6 DEF LockAndConnect, Goto, ClientInv, OneReconnectPerSend
    <2>2. made <= Cardinality(Sends)
      BY <2>1, RoomForOneMore DEF ClientInv
    <2> QED
      BY <1>1, <1>6, <2>2 DEF LockAndConnect, Goto, outside
  <1>7. CASE LockBusy(s)
    BY <1>1, <1>7 DEF LockBusy, Goto, shared, outside, locals
  <1>8. CASE Connected(s)
    <2>1. making[s] \in 1..made
      BY <1>1, <1>8 DEF Connected, Goto, ClientInv, ConnectionsGrowYounger
    <2> QED
      BY <1>1, <1>8, <2>1 DEF Connected, Released, Goto, outside, locals
  <1>9. CASE ConnectFails(s)
    BY <1>1, <1>9 DEF ConnectFails, Released, Goto, outside, locals
  <1> QED
    BY <1>2, <1>3, <1>4, <1>5, <1>6, <1>7, <1>8, <1>9 DEF Send

\* So do the steps of the client and of the network.
LEMMA TypeStep ==
  ASSUME ClientInv, [Next]_vars
  PROVE  TypeOK'
  <1> USE DEF TypeOK
  <1>0. TypeOK
    BY DEF ClientInv
  <1>1. CASE Connect
    BY <1>0, <1>1 DEF Connect, outside, locals
  <1>2. ASSUME NEW s \in Sends, Send(s) PROVE TypeOK'
    BY <1>2, TypeSend
  <1>3. ASSUME NEW c \in 1..made, Die(c) PROVE TypeOK'
    BY <1>0, <1>3 DEF Die, shared, locals
  <1>4. ASSUME NEW c \in 1..made, NEW s \in Sends, Arrive(c, s) PROVE TypeOK'
    BY <1>0, <1>4 DEF Arrive, shared, locals
  <1>5. CASE UNCHANGED vars
    BY <1>0, <1>5 DEF vars, shared, outside, locals
  <1> QED
    BY <1>1, <1>2, <1>3, <1>4, <1>5, StepCases DEF Send
-----------------------------------------------------------------------------
(***************************************************************************)
(* The rest of the invariant, part by part                                 *)
(***************************************************************************)

\* The mutex goes with "connecting": it is taken on the way in and released on
\* both ways out.
LEMMA MutexStep ==
  ASSUME ClientInv, [Next]_vars
  PROVE  MutexIsForReconnecting'
  <1> USE DEF MutexIsForReconnecting
  <1>1. TypeOK /\ MutexIsForReconnecting /\ \A s \in Sends : s # Nobody
    BY SoyasAssumption DEF ClientInv
  <1>2. ASSUME NEW s \in Sends,
               Load(s) \/ Write(s) \/ FirstFails(s) \/ SecondFails(s) \/ LockBusy(s)
        PROVE  MutexIsForReconnecting'
    <2>1. /\ reconnect' = reconnect
          /\ \E from, to \in Places \ {"connecting"} : Goto(s, from, to)
      BY <1>2 DEF Load, Write, WriteThen, FirstFails, SecondFails, GivingUp,
                  LockBusy, Places, shared
    <2> QED
      BY <1>1, <2>1, GotoFacts
  <1>3. ASSUME NEW s \in Sends, LockAndConnect(s) PROVE MutexIsForReconnecting'
    BY <1>1, <1>3, GotoFacts DEF LockAndConnect, CanLock, Places
  <1>4. ASSUME NEW s \in Sends, Connected(s) \/ ConnectFails(s)
        PROVE  MutexIsForReconnecting'
    BY <1>1, <1>4, GotoFacts DEF Connected, ConnectFails, Released, Places
  <1>5. ASSUME UNCHANGED <<reconnect, pc>> PROVE MutexIsForReconnecting'
    BY <1>1, <1>5
  <1> QED
    BY <1>2, <1>3, <1>4, <1>5, StepCases
    DEF Connect, Die, Arrive, vars, shared

\* The numbers only grow: what is stored is what was being made, and that is
\* beyond everything loaded before.
LEMMA YoungerStep ==
  ASSUME ClientInv, [Next]_vars
  PROVE  /\ connection' >= connection
         /\ RetryIsOnNewerConnection' /\ ConnectionsGrowYounger'
  <1> DEFINE Goal == /\ connection' >= connection
                     /\ RetryIsOnNewerConnection' /\ ConnectionsGrowYounger'
  <1> USE DEF RetryIsOnNewerConnection, ConnectionsGrowYounger, TypeOK
  <1>1. /\ TypeOK /\ MutexIsForReconnecting
        /\ RetryIsOnNewerConnection /\ ConnectionsGrowYounger
    BY DEF ClientInv
  <1>2. ASSUME NEW s \in Sends, Load(s) PROVE Goal
    <2>1. /\ pc[s] \in {"called", "reconnected"}
          /\ pc[s] = "called" => pc'[s] = "first"
          /\ pc[s] = "reconnected" => pc'[s] = "second"
          /\ \A t \in Sends \ {s} : pc'[t] = pc[t]
      BY <1>1, <1>2, GotoFacts DEF Load, Places
    <2> QED
      BY <1>1, <1>2, <2>1 DEF Load, Current, shared
  <1>3. ASSUME NEW s \in Sends, Write(s) PROVE Goal
    <2>1. /\ pc[s] # "called" /\ pc'[s] = "ok"
          /\ \A t \in Sends \ {s} : pc'[t] = pc[t]
      BY <1>1, <1>3, GotoFacts DEF Write, WriteThen, Places
    <2> QED
      BY <1>1, <1>3, <2>1 DEF Write, WriteThen, shared, locals
  <1>4. ASSUME NEW s \in Sends, FirstFails(s) PROVE Goal
    BY <1>1, <1>4, GotoFacts DEF FirstFails, Places, shared
  <1>5. ASSUME NEW s \in Sends, SecondFails(s) \/ LockBusy(s) PROVE Goal
    BY <1>1, <1>5, GotoFacts DEF SecondFails, GivingUp, LockBusy, Places, shared, locals
  <1>6. ASSUME NEW s \in Sends, LockAndConnect(s) PROVE Goal
    <2>1. /\ pc[s] = "retrying" /\ pc'[s] = "connecting"
          /\ \A t \in Sends \ {s} : pc'[t] = pc[t]
      BY <1>1, <1>6, GotoFacts DEF LockAndConnect, Places
    <2>2. /\ making'[s] = made + 1
          /\ \A t \in Sends \ {s} : making'[t] = making[t]
          /\ UNCHANGED <<connection, loaded, failed>>
      BY <1>1, <1>6 DEF LockAndConnect
    <2> QED
      BY <1>1, <2>1, <2>2
  <1>7. ASSUME NEW s \in Sends, Connected(s) PROVE Goal
    <2>1. /\ pc[s] = "connecting" /\ pc'[s] = "reconnected"
          /\ \A t \in Sends \ {s} : pc'[t] = pc[t] /\ pc[t] # "connecting"
      BY <1>1, <1>7, GotoFacts DEF Connected, Places, MutexIsForReconnecting
    <2>2. connection' = making[s] /\ UNCHANGED <<loaded, failed, making>>
      BY <1>7 DEF Connected, locals
    <2> QED
      BY <1>1, <2>1, <2>2
  <1>8. ASSUME NEW s \in Sends, ConnectFails(s) PROVE Goal
    BY <1>1, <1>8, GotoFacts DEF ConnectFails, Places, locals
  <1>9. ASSUME UNCHANGED <<connection, pc, loaded, failed, making>> PROVE Goal
    BY <1>1, <1>9
  <1> QED
    BY <1>2, <1>3, <1>4, <1>5, <1>6, <1>7, <1>8, <1>9, StepCases
    DEF Connect, Die, Arrive, vars, shared, locals

\* A handshake begins in one place only, for a send that has begun none.
LEMMA OneReconnectStep ==
  ASSUME ClientInv, [Next]_vars
  PROVE  OneReconnectPerSend'
  <1>1. TypeOK /\ OneReconnectPerSend
    BY DEF ClientInv
  <1>2. ASSUME UNCHANGED <<made, making>>,
               \A s \in Sends : pc'[s] \in {"called", "first", "retrying"}
                  => pc[s] \in {"called", "first", "retrying"}
        PROVE  OneReconnectPerSend'
    BY <1>1, <1>2 DEF OneReconnectPerSend
  <1>3. ASSUME NEW s \in Sends,
               \/ Load(s) \/ Write(s) \/ FirstFails(s) \/ SecondFails(s)
               \/ LockBusy(s) \/ Connected(s) \/ ConnectFails(s)
        PROVE  OneReconnectPerSend'
    <2>1. UNCHANGED <<made, making>>
      BY <1>3 DEF Load, Write, WriteThen, FirstFails, SecondFails, LockBusy, Connected,
                  ConnectFails, shared, locals
    <2>2. \/ \E from \in {"called", "first"}, to \in Places : Goto(s, from, to)
          \/ \E from, to \in Places :
               Goto(s, from, to) /\ to \notin {"called", "first", "retrying"}
      BY <1>3 DEF Load, Write, WriteThen, FirstFails, SecondFails, GivingUp, LockBusy,
                  Connected, ConnectFails, Places
    <2> QED
      BY <1>1, <1>2, <2>1, <2>2, GotoFacts
  <1>4. ASSUME NEW s \in Sends, LockAndConnect(s) PROVE OneReconnectPerSend'
    <2>1. /\ pc[s] = "retrying" /\ pc'[s] = "connecting"
          /\ \A t \in Sends \ {s} : pc'[t] = pc[t]
      BY <1>1, <1>4, GotoFacts DEF LockAndConnect, Places
    <2>2. /\ made' = made + 1
          /\ making'[s] # 0 /\ \A t \in Sends \ {s} : making'[t] = making[t]
      BY <1>1, <1>4 DEF LockAndConnect, TypeOK
    <2>3. making[s] = 0
      BY <1>1, <2>1 DEF OneReconnectPerSend
    <2>4. {t \in Sends : making'[t] # 0} = Begun \cup {s}
      BY <2>2 DEF Begun
    <2>5. made' = Cardinality({t \in Sends : making'[t] # 0}) + 1
      BY <1>1, <2>2, <2>3, <2>4, RoomForOneMore
    <2>6. \A t \in Sends : pc'[t] \in {"called", "first", "retrying"} => making'[t] = 0
      BY <1>1, <2>1, <2>2 DEF OneReconnectPerSend
    <2> QED
      BY <2>5, <2>6 DEF OneReconnectPerSend
  <1>5. ASSUME UNCHANGED <<made, making, pc>> PROVE OneReconnectPerSend'
    BY <1>1, <1>5 DEF OneReconnectPerSend
  <1> QED
    BY <1>3, <1>4, <1>5, StepCases DEF Connect, Die, Arrive, vars, shared, locals

\* A send's bytes enter a buffer as the send returns Ok, and leave it for the
\* server.
LEMMA BytesStep ==
  ASSUME ClientInv, [Next]_vars
  PROVE  BytesAreInOnePlace'
  <1> USE DEF BytesAreInOnePlace
  <1>1. TypeOK /\ BytesAreInOnePlace
    BY DEF ClientInv
  <1>2. buffered \subseteq (1..made) \X Sends
    BY <1>1 DEF TypeOK
  <1>3. ASSUME UNCHANGED <<buffered, copies>>,
               \A s \in Sends : pc'[s] = pc[s] \/ pc[s] # "ok"
        PROVE  BytesAreInOnePlace'
    <2>1. \A s \in Sends : pc[s] # "ok" => copies[s] = 0
      BY <1>1 DEF TypeOK
    <2>2. \A c, s : <<c, s>> \in buffered => c \in 1..made /\ s \in Sends
      BY <1>2
    <2>3. SUFFICES ASSUME NEW s \in Sends, NEW c
                   PROVE  /\ pc'[s] # "ok" => copies'[s] = 0
                          /\ <<c, s>> \in buffered' =>
                               /\ pc'[s] = "ok" /\ copies'[s] = 0
                               /\ \A d : <<d, s>> \in buffered' => d = c
      OBVIOUS
    <2> QED
      BY <1>1, <1>3, <2>1, <2>2
  <1>4. ASSUME NEW s \in Sends,
               \/ Load(s) \/ FirstFails(s) \/ SecondFails(s) \/ LockAndConnect(s)
               \/ LockBusy(s) \/ Connected(s) \/ ConnectFails(s)
        PROVE  BytesAreInOnePlace'
    <2>1. UNCHANGED <<buffered, copies>>
      BY <1>4 DEF Load, FirstFails, Unfinished, SecondFails, LockAndConnect, LockBusy,
                  Connected, ConnectFails, outside
    <2>2. \E from \in Places \ {"ok"}, to \in Places : Goto(s, from, to)
      BY <1>4 DEF Load, FirstFails, SecondFails, GivingUp, LockAndConnect, LockBusy,
                  Connected, ConnectFails, Places
    <2> QED
      BY <1>1, <1>3, <2>1, <2>2, GotoFacts
  <1>5. ASSUME NEW s \in Sends, Write(s) PROVE BytesAreInOnePlace'
    <2>1. /\ pc[s] # "ok" /\ pc'[s] = "ok"
          /\ \A t \in Sends \ {s} : pc'[t] = pc[t]
      BY <1>1, <1>5, GotoFacts DEF Write, WriteThen, Places
    <2>2. buffered' = buffered \cup {<<loaded[s], s>>} /\ copies' = copies /\ made' = made
      BY <1>5 DEF Write, WriteThen, outside, shared
    <2>3. copies[s] = 0 /\ \A c : <<c, s>> \notin buffered
      BY <1>1, <1>2, <2>1 DEF TypeOK
    <2> QED
      BY <1>1, <2>1, <2>2, <2>3
  <1>6. ASSUME NEW c \in 1..made, NEW s \in Sends, Arrive(c, s)
        PROVE  BytesAreInOnePlace'
    <2>1. /\ <<c, s>> \in buffered /\ pc[s] = "ok"
          /\ \A d \in 1..made : <<d, s>> \in buffered => d = c
      BY <1>1, <1>6 DEF Arrive
    <2>2. /\ buffered' = buffered \ {<<c, s>>}
          /\ \A t \in Sends \ {s} : copies'[t] = copies[t]
          /\ pc' = pc /\ made' = made
      BY <1>1, <1>6 DEF Arrive, TypeOK, shared
    <2> QED
      BY <1>1, <2>1, <2>2
  <1>7. ASSUME UNCHANGED <<buffered, copies, pc>> PROVE BytesAreInOnePlace'
    BY <1>1, <1>3, <1>7
  <1> QED
    BY <1>4, <1>5, <1>6, <1>7, StepCases DEF Connect, Die, vars, shared, outside, locals

LEMMA ClientInvInit == Init => ClientInv
  <1> SUFFICES ASSUME Init PROVE ClientInv
    OBVIOUS
  <1>1. {s \in Sends : making[s] # 0} = {}
    BY DEF Init
  <1>2. Cardinality({}) = 0
    BY FS_EmptySet
  <1>3. TypeOK
    BY TypeInit
  <1> QED
    BY <1>1, <1>2, <1>3, SoyasAssumption
    DEF Init, ClientInv, MutexIsForReconnecting, RetryIsOnNewerConnection,
        ConnectionsGrowYounger, OneReconnectPerSend, BytesAreInOnePlace
-----------------------------------------------------------------------------
(***************************************************************************)
(* Theorems                                                                *)
(***************************************************************************)

\* Whatever connections die and however the sends interleave, reconnects are
\* made one at a time, the mutex is free again after each, a second attempt is
\* never made on the connection that failed, and there are at most as many
\* reconnects as sends.
THEOREM ClientInvariant == Spec => []ClientInv
  <1>1. Init => ClientInv
    BY ClientInvInit
  <1>2. ClientInv /\ [Next]_vars => ClientInv'
    BY TypeStep, MutexStep, YoungerStep, OneReconnectStep, BytesStep DEF ClientInv
  <1> QED
    BY <1>1, <1>2, PTL DEF Spec

\* store never replaces a connection by an older one.
THEOREM NeverAnOlderConnection == Spec => OnlyRenewed
  <1>1. ClientInv /\ [Next]_vars => [connection' >= connection]_vars
    BY YoungerStep
  <1> QED
    BY <1>1, ClientInvariant, PTL DEF Spec, OnlyRenewed
-----------------------------------------------------------------------------
(***************************************************************************)
(* Refinement                                                              *)
(***************************************************************************)

\* The outcome that a caller sees.
Outcome == [s \in Sends |-> IF Returned(s) THEN pc[s] ELSE "pending"]

\* A send that moves on between two places where it has not returned changes
\* nothing for its caller.
LEMMA CallerSeesNothing ==
  ASSUME TypeOK, NEW s \in Sends, UNCHANGED copies,
         NEW from \in Places \ {"ok", "err"}, NEW to \in Places \ {"ok", "err"},
         Goto(s, from, to)
  PROVE  UNCHANGED AtMostOnce!vars
  <1>1. Outcome' = Outcome
    BY GotoFacts DEF Outcome, Returned
  <1> QED
    BY <1>1 DEF AtMostOnce!vars, Outcome

\* A send that returns changes its own outcome, from pending.
LEMMA CallerSeesReturn ==
  ASSUME TypeOK, NEW s \in Sends, NEW from \in Places \ {"ok", "err"},
         NEW to \in {"ok", "err"}, Goto(s, from, to)
  PROVE  /\ Outcome[s] = "pending"
         /\ Outcome' = [Outcome EXCEPT ![s] = to]
  <1>1. /\ pc[s] = from /\ pc'[s] = to
        /\ \A t \in Sends \ {s} : pc'[t] = pc[t]
    BY GotoFacts DEF Places
  <1> QED
    BY <1>1 DEF Outcome, Returned

\* The initial states and every step map to those of AtMostOnceSend: a
\* transaction reaches the server at most once although the client retries,
\* and never one whose send returned an error.
THEOREM ClientSendsAtMostOnce == Spec => ImplementsAtMostOnce
  <1>1. Init => AtMostOnce!Init
    BY DEF Init, AtMostOnce!Init, Returned
  <1>2. ClientInv /\ [Next]_vars => [AtMostOnce!Next]_(AtMostOnce!vars)
    <2> SUFFICES ASSUME ClientInv, [Next]_vars
                 PROVE  AtMostOnce!Next \/ UNCHANGED AtMostOnce!vars
      OBVIOUS
    <2>1. TypeOK /\ BytesAreInOnePlace
      BY DEF ClientInv
    <2>2. \A s \in Sends : pc[s] # "ok" => copies[s] = 0
      BY <2>1 DEF TypeOK, BytesAreInOnePlace
    <2>3. ASSUME NEW s \in Sends,
                 Load(s) \/ FirstFails(s) \/ LockAndConnect(s) \/ Connected(s)
          PROVE  UNCHANGED AtMostOnce!vars
      <3>1. /\ UNCHANGED copies
            /\ \E from, to \in Places \ {"ok", "err"} : Goto(s, from, to)
        BY <2>3 DEF Load, FirstFails, LockAndConnect, Connected, Places, outside
      <3> QED
        BY <2>1, <3>1, CallerSeesNothing
    <2>4. ASSUME NEW s \in Sends, Write(s) PROVE AtMostOnce!ReturnOk(s)
      <3>1. /\ UNCHANGED copies
            /\ \E from \in Places \ {"ok", "err"} : Goto(s, from, "ok")
        BY <2>4 DEF Write, WriteThen, Places, outside
      <3> QED
        BY <2>1, <3>1, CallerSeesReturn DEF AtMostOnce!ReturnOk, Outcome
    <2>5. ASSUME NEW s \in Sends, SecondFails(s) \/ LockBusy(s) \/ ConnectFails(s)
          PROVE  AtMostOnce!ReturnErr(s)
      <3>1. /\ UNCHANGED copies /\ pc[s] # "ok"
            /\ \E from \in Places \ {"ok", "err"} : Goto(s, from, "err")
        BY <2>5 DEF SecondFails, GivingUp, LockBusy, ConnectFails, Places, outside, Goto
      <3> QED
        BY <2>1, <2>2, <3>1, CallerSeesReturn DEF AtMostOnce!ReturnErr, Outcome
    <2>6. ASSUME NEW c \in 1..made, NEW s \in Sends, Arrive(c, s)
          PROVE  AtMostOnce!Arrive(s)
      <3>1. pc[s] = "ok" /\ copies[s] = 0
        BY <2>1, <2>6 DEF Arrive, BytesAreInOnePlace
      <3>2. copies' = [copies EXCEPT ![s] = 1] /\ Outcome' = Outcome
        BY <2>6, <3>1 DEF Arrive, Outcome, Returned
      <3> QED
        BY <3>1, <3>2 DEF AtMostOnce!Arrive, Outcome, Returned
    <2>7. ASSUME UNCHANGED <<pc, copies>> PROVE UNCHANGED AtMostOnce!vars
      BY <2>7 DEF AtMostOnce!vars, Returned
    <2> QED
      BY <2>3, <2>4, <2>5, <2>6, <2>7, StepCases
      DEF AtMostOnce!Next, Connect, Die, vars, outside
  <1> QED
    BY <1>1, <1>2, ClientInvariant, PTL DEF Spec, ImplementsAtMostOnce, AtMostOnce!Spec
=============================================================================
