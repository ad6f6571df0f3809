------------------------- MODULE BackendStreamProofs -------------------------
(***************************************************************************)
(* Proofs that BackendStream keeps the order of what it forwards and       *)
(* reports the outcome of a run, for any senders, buffer and faults.       *)
(***************************************************************************)
EXTENDS BackendStream, SequenceTheorems, TLAPS

(***************************************************************************)
(* Facts about queues.                                                     *)
(***************************************************************************)

\* What enters a queue that continues a prefix enters the whole.
LEMMA AppendRegroups ==
  ASSUME NEW S, NEW f \in Seq(S), NEW q \in Seq(S), NEW e \in S
  PROVE  f \o Append(q, e) = Append(f \o q, e)
  BY ConcatProperties, AppendProperties, ConcatAssociative, AppendIsConcat

\* Moving the head of the queue to the end of the prefix changes nothing in
\* the whole.
LEMMA HeadMoves ==
  ASSUME NEW S, NEW f \in Seq(S), NEW q \in Seq(S), q # <<>>
  PROVE  Append(f, Head(q)) \o Tail(q) = f \o q
  <1>1. Head(q) \in S /\ Tail(q) \in Seq(S)
    BY HeadTailProperties
  <1>2. Append(f, Head(q)) \in Seq(S) /\ Len(Append(f, Head(q))) = Len(f) + 1
    BY <1>1, AppendProperties
  <1> DEFINE l == Append(f, Head(q)) \o Tail(q)
             r == f \o q
  <1>3. l \in Seq(S) /\ r \in Seq(S) /\ Len(l) = Len(r)
    BY <1>1, <1>2, ConcatProperties, HeadTailProperties, LenProperties
  <1>4. ASSUME NEW i \in 1..Len(l) PROVE l[i] = r[i]
    BY <1>1, <1>2, <1>3, <1>4, ConcatProperties, AppendProperties, HeadTailProperties, LenProperties
  <1> QED
    BY <1>3, <1>4, SeqEqual

\* A prefix of a whole is its first part, and the prefix of what grows.
LEMMA PrefixOfWhole ==
  ASSUME NEW S, NEW f \in Seq(S), NEW q \in Seq(S)
  PROVE  Len(f) <= Len(f \o q) /\ f = SubSeq(f \o q, 1, Len(f))
  <1>1. /\ f \o q \in Seq(S) /\ Len(f \o q) = Len(f) + Len(q)
        /\ Len(f) \in Nat /\ Len(q) \in Nat
        /\ \A i \in 1..Len(f) : (f \o q)[i] = f[i] /\ f[i] \in S
    BY ConcatProperties, LenProperties
  <1>2. /\ SubSeq(f \o q, 1, Len(f)) \in Seq(S)
        /\ Len(SubSeq(f \o q, 1, Len(f))) = Len(f)
        /\ \A i \in 1..Len(f) : SubSeq(f \o q, 1, Len(f))[i] = (f \o q)[i]
    BY <1>1, SubSeqProperties
  <1> QED
    BY <1>1, <1>2, SeqEqual

\* The elements of a prefix are those of the whole.
LEMMA PrefixElements ==
  ASSUME NEW S, NEW w \in Seq(S), NEW n \in 0..Len(w)
  PROVE  \A i \in 1..n : SubSeq(w, 1, n)[i] = w[i]
  BY SubSeqProperties, LenProperties

\* What follows a whole does not disturb its prefix.
LEMMA PrefixOfLonger ==
  ASSUME NEW S, NEW w \in Seq(S), NEW e \in S, NEW n \in 0..Len(w)
  PROVE  n <= Len(Append(w, e)) /\ SubSeq(Append(w, e), 1, n) = SubSeq(w, 1, n)
  <1>1. /\ Append(w, e) \in Seq(S) /\ Len(Append(w, e)) = Len(w) + 1 /\ Len(w) \in Nat
        /\ \A i \in 1..Len(w) : Append(w, e)[i] = w[i]
    BY AppendProperties, LenProperties
  <1>2. n \in Nat /\ n <= Len(w) /\ n <= Len(Append(w, e))
    BY <1>1
  <1>3. /\ SubSeq(w, 1, n) \in Seq(S) /\ Len(SubSeq(w, 1, n)) = n
        /\ SubSeq(Append(w, e), 1, n) \in Seq(S) /\ Len(SubSeq(Append(w, e), 1, n)) = n
    BY <1>1, <1>2, SubSeqProperties
  <1>4. ASSUME NEW i \in 1..n PROVE SubSeq(Append(w, e), 1, n)[i] = SubSeq(w, 1, n)[i]
    <2>1. SubSeq(w, 1, n)[i] = w[i]
      BY <1>2, PrefixElements
    <2>2. SubSeq(Append(w, e), 1, n)[i] = Append(w, e)[i]
      BY <1>1, <1>2, PrefixElements
    <2> QED
      BY <1>1, <1>2, <2>1, <2>2
  <1> QED
    BY <1>2, <1>3, <1>4, SeqEqual
-----------------------------------------------------------------------------
(***************************************************************************)
(* What a step is, and what each part of the system leaves alone.          *)
(***************************************************************************)
LEMMA StepCases ==
  ASSUME [Next]_vars
  PROVE  \/ ConnectStream
         \/ TakeCommand \/ Transmit \/ WriteReturns \/ WriteFails \/ ChannelClosed
         \/ Handles \/ PongReturns \/ CloseReturns \/ StatusDropped \/ ReceiverDropped
         \/ (\E s \in Senders : Sender(s))
         \/ Finish \/ DropHandle \/ EndAccepted \/ EndRefused \/ StatusChanged
         \/ Backend
         \/ UNCHANGED vars
  BY DEF Next, RunBackendLoop, LoopEnds, HandleStep, FinishStep, Over

LEMMA HandshakeFrame ==
  ASSUME ConnectStream
  PROVE  /\ UNCHANGED <<awaiting_completion, taken, channelVars, frames, callerVars>>
         /\ UNCHANGED <<received, backend, early, noise>>
         /\ \/ /\ socket \in {"connecting", "start"}
               /\ socket' \in {"start", "refused"}
               /\ UNCHANGED <<task, statusVars>>
            \/ /\ socket = "start" /\ socket' = "acked"
               /\ task' = "select" /\ status' = "Ready" /\ unseen' = TRUE
         /\ \/ inbound' = inbound
            \/ \E kinds : Reads(kinds)
  BY DEF ConnectStream, Connect, ConnectFails, StartAck, IgnoredInHandshake, HandshakeFails,
         Handshake, NotReady, Reads, backendVars

LEMMA ReadingFrame ==
  ASSUME Handles
  PROVE  /\ UNCHANGED <<socket, awaiting_completion, taken, channelVars, frames, callerVars>>
         /\ UNCHANGED <<received, backend, early, noise>>
         /\ task = "select"
         /\ \/ Completed /\ task' = "closing" /\ status' = "Completed" /\ unseen' = TRUE
            \/ BackendFails /\ task' = "leaving" /\ status' = "Failed" /\ unseen' = TRUE
            \/ task' \in {"select", "ponging"} /\ UNCHANGED statusVars
         /\ \E kinds : Reads(kinds) /\ (Completed => kinds = {"completed"})
  BY DEF Handles, Completed, BackendFails, Ignored, Ping, LoopReads, Reads, Fails, Breaks,
         SetStatus

LEMMA LeavingFrame ==
  ASSUME WriteFails \/ ChannelClosed
  PROVE  /\ UNCHANGED <<socket, accepted, frames, commands, awaiting_completion>>
         /\ UNCHANGED <<callerVars, backendVars>>
         /\ taken' = <<>> \/ (taken' = taken /\ task = "select")
         /\ task \in {"writing", "select"} /\ task' = "leaving"
         /\ status' = "Failed" /\ unseen' = TRUE
  BY DEF WriteFails, ChannelClosed, Listens, LoopOnly, Fails, Breaks, SetStatus

LEMMA GoingFrame ==
  ASSUME PongReturns \/ CloseReturns \/ StatusDropped \/ ReceiverDropped
  PROVE  /\ UNCHANGED <<socket, accepted, frames, taken, awaiting_completion, statusVars>>
         /\ UNCHANGED <<callerVars, backendVars>>
         /\ \/ task = "ponging" /\ task' = "select" /\ UNCHANGED commands
            \/ /\ task \in {"closing", "leaving"}
               /\ task' \in {"leaving", "dropping"}
               /\ UNCHANGED commands
            \/ task = "dropping" /\ task' = "ended" /\ commands' = <<>>
  BY DEF PongReturns, CloseReturns, StatusDropped, ReceiverDropped, TaskGoes, LoopOnly, Breaks

LEMMA SenderFrame ==
  ASSUME NEW s \in Senders, Sender(s)
  PROVE  /\ UNCHANGED <<socket, loopVars, statusVars, frames, backendVars, finish>>
         /\ \/ /\ sender[s] = "sending"
               /\ Accepts(<<"signature", s, sent[s]>>)
            \/ UNCHANGED channelVars
  BY DEF Sender, BlockingSend, SendAccepted, SendRefused, SendReturns, DropSender, CallerOnly,
         Accepts, clientVars

LEMMA HandleFrame ==
  ASSUME Finish \/ DropHandle \/ EndRefused \/ StatusChanged
  PROVE  /\ UNCHANGED <<socket, loopVars, status, channelVars, frames, backendVars, sender, sent>>
         /\ socket = "acked"
  BY DEF Finish, DropHandle, EndRefused, StatusChanged, Handle, CallerOnly, clientVars, statusVars

LEMMA BackendFrame ==
  ASSUME Backend
  PROVE  /\ UNCHANGED <<clientVars, callerVars>>
         /\ \/ ReadFrame
            \/ received' = received /\ \E kind \in Kinds : inbound' = Append(inbound, kind)
  BY DEF Backend, Acknowledge, Chatter, ReadFrame, Complete, Reject, Close, Says, Kinds
-----------------------------------------------------------------------------
(***************************************************************************)
(* Type correctness                                                        *)
(***************************************************************************)

\* The queue from the backend loses its head.
LEMMA ReadsFacts ==
  ASSUME TypeOK, NEW kinds, Reads(kinds)
  PROVE  /\ inbound' \in Seq(Kinds)
         /\ Len(inbound) \in Nat \ {0} /\ inbound[1] \in kinds
         /\ Len(inbound') = Len(inbound) - 1
         /\ \A i \in 1..Len(inbound') : inbound'[i] = inbound[i + 1]
         /\ UNCHANGED <<received, backend, early, noise>>
  <1>1. inbound \in Seq(Kinds) /\ inbound # <<>> /\ inbound' = Tail(inbound)
    BY DEF TypeOK, Reads
  <1>2. Len(inbound) \in Nat \ {0} /\ Head(inbound) = inbound[1]
    BY <1>1, EmptySeq
  <1> QED
    BY <1>1, <1>2, HeadTailProperties DEF Reads

\* It gains a message at its end.
LEMMA InboundGrows ==
  ASSUME TypeOK, NEW kind \in Kinds, inbound' = Append(inbound, kind)
  PROVE  /\ inbound' \in Seq(Kinds)
         /\ Len(inbound') = Len(inbound) + 1 /\ Len(inbound) \in Nat
         /\ \A i \in 1..Len(inbound) : inbound'[i] = inbound[i]
         /\ inbound'[Len(inbound) + 1] = kind
  BY AppendProperties, LenProperties DEF TypeOK

\* A command that is accepted is in the channel and in the record of it.
LEMMA AcceptsFacts ==
  ASSUME TypeOK, NEW c \in Commands, Accepts(c)
  PROVE  /\ accepted' = Append(accepted, c) /\ accepted' \in Seq(Commands)
         /\ Len(accepted') = Len(accepted) + 1 /\ Len(accepted) \in Nat
         /\ \A i \in 1..Len(accepted) : accepted'[i] = accepted[i]
         /\ accepted'[Len(accepted) + 1] = c
         /\ commands' = Append(commands, c) /\ commands' \in Seq(Commands)
         /\ Len(commands') <= Buffer
         /\ UNCHANGED <<socket, loopVars, statusVars, frames, backendVars>>
         /\ ~Closed
  <1>1. accepted \in Seq(Commands) /\ commands \in Seq(Commands)
    BY DEF TypeOK
  <1>2. commands' = Append(commands, c) /\ accepted' = Append(accepted, c)
    BY DEF Accepts, Queued
  <1>3. Len(commands) \in Nat /\ Len(commands) < Buffer /\ Buffer \in Nat
    BY <1>1, BackendAssumption, LenProperties DEF Accepts, Room
  <1> QED
    BY <1>1, <1>2, <1>3, AppendProperties, LenProperties DEF Accepts

\* The head of the channel is taken out of it.
LEMMA TakeFacts ==
  ASSUME TypeOK, TakeCommand
  PROVE  /\ Head(commands) \in Commands /\ commands # <<>>
         /\ taken' = <<Head(commands)>>
         /\ commands' = Tail(commands) /\ commands' \in Seq(Commands)
         /\ Len(commands') <= Buffer
         /\ task = "select" /\ ~awaiting_completion /\ task' = "writing"
         /\ UNCHANGED <<socket, accepted, frames, awaiting_completion, statusVars>>
         /\ UNCHANGED <<callerVars, backendVars>>
  <1>1. /\ commands \in Seq(Commands) /\ commands # <<>>
        /\ Len(commands) <= Buffer /\ Buffer \in Nat
    BY BackendAssumption DEF TypeOK, TakeCommand
  <1>2. Head(commands) \in Commands /\ Tail(commands) \in Seq(Commands)
        /\ Len(Tail(commands)) = Len(commands) - 1 /\ Len(commands) \in Nat
    BY <1>1, HeadTailProperties, LenProperties
  <1> QED
    BY <1>1, <1>2 DEF TakeCommand, Listens, LoopOnly

\* What was taken goes to the socket.
LEMMA TransmitFacts ==
  ASSUME TypeOK, Transmit
  PROVE  /\ \E c \in Commands :
              /\ taken = <<c>>
              /\ frames' = Append(frames, c)
              /\ frames'[Len(frames) + 1] = c
         /\ frames' = frames \o taken /\ taken' = <<>>
         /\ frames' \in Seq(Commands)
         /\ Len(frames') = Len(frames) + 1 /\ Len(frames) \in Nat
         /\ \A i \in 1..Len(frames) : frames'[i] = frames[i]
         /\ task = "writing" /\ taken # <<>>
         /\ UNCHANGED <<socket, accepted, commands, task, awaiting_completion, statusVars>>
         /\ UNCHANGED <<callerVars, backendVars>>
  <1>1. frames \in Seq(Commands) /\ frames' = frames \o taken
    BY DEF TypeOK, Transmit
  <1>2. PICK c \in Commands : taken = <<c>>
    BY DEF TypeOK, Transmit
  <1>3. frames' = Append(frames, c)
    BY <1>1, <1>2, AppendIsConcat
  <1>4. /\ frames' \in Seq(Commands)
        /\ Len(frames') = Len(frames) + 1 /\ Len(frames) \in Nat
        /\ \A i \in 1..Len(frames) : frames'[i] = frames[i]
        /\ frames'[Len(frames) + 1] = c
    BY <1>1, <1>2, <1>3, AppendProperties, LenProperties
  <1> QED
    BY <1>1, <1>2, <1>3, <1>4 DEF Transmit, LoopOnly

LEMMA TypeInit == Init => TypeOK
  <1>1. <<>> \in Seq(Commands) /\ <<>> \in Seq(Kinds) /\ Len(<<>>) = 0
    BY EmptySeq
  <1>2. 0 \in 0..PerSender /\ 0 \in 0..MaxNoise /\ 0 <= Buffer /\ 0 \in 0..0
    BY BackendAssumption
  <1>3. ASSUME Init
        PROVE  /\ commands \in Seq(Commands) /\ Len(commands) <= Buffer
               /\ {accepted, frames} \subseteq Seq(Commands)
               /\ inbound \in Seq(Kinds)
               /\ received \in 0..Len(frames)
               /\ sent \in [Senders -> 0..PerSender]
               /\ noise \in 0..MaxNoise
    BY <1>1, <1>2, <1>3 DEF Init
  <1> QED
    BY <1>3 DEF Init, TypeOK

\* The handshake keeps the types.
LEMMA TypeHandshake ==
  ASSUME TypeOK, ConnectStream
  PROVE  TypeOK'
  <1>1. inbound' \in Seq(Kinds)
    BY HandshakeFrame, ReadsFacts DEF TypeOK
  <1> QED
    BY <1>1, HandshakeFrame DEF TypeOK, channelVars, statusVars, callerVars

\* So does the loop.
LEMMA TypeLoop ==
  ASSUME TypeOK,
         \/ TakeCommand \/ Transmit \/ WriteReturns \/ WriteFails \/ ChannelClosed
         \/ Handles \/ PongReturns \/ CloseReturns \/ StatusDropped \/ ReceiverDropped
  PROVE  TypeOK'
  <1>1. CASE TakeCommand
    BY <1>1, TakeFacts DEF TypeOK, statusVars, callerVars, backendVars
  <1>2. CASE Transmit
    <2>1. received' \in 0..Len(frames')
      <3>1. Len(frames') = Len(frames) + 1 /\ Len(frames) \in Nat /\ received' = received
        BY <1>2, TransmitFacts DEF backendVars
      <3>2. received \in 0..Len(frames)
        BY DEF TypeOK
      <3> QED
        BY <3>1, <3>2
    <2>2. /\ taken' = <<>> /\ frames' \in Seq(Commands)
          /\ UNCHANGED <<socket, accepted, commands, task, awaiting_completion, statusVars>>
          /\ UNCHANGED <<callerVars, backendVars>>
      BY <1>2, TransmitFacts
    <2> QED
      BY <2>1, <2>2 DEF TypeOK, statusVars, callerVars, backendVars
  <1>3. CASE WriteReturns
    BY <1>3 DEF TypeOK, WriteReturns, LoopOnly, statusVars, callerVars, backendVars
  <1>4. CASE WriteFails \/ ChannelClosed
    BY <1>4, LeavingFrame DEF TypeOK, callerVars, backendVars
  <1>5. CASE Handles
    <2>1. inbound' \in Seq(Kinds)
      BY <1>5, ReadingFrame, ReadsFacts
    <2> QED
      BY <1>5, <2>1, ReadingFrame DEF TypeOK, channelVars, statusVars, callerVars
  <1>6. CASE PongReturns \/ CloseReturns \/ StatusDropped \/ ReceiverDropped
    <2>1. <<>> \in Seq(Commands) /\ Len(<<>>) <= Buffer
      BY EmptySeq, BackendAssumption
    <2> QED
      BY <1>6, <2>1, GoingFrame DEF TypeOK, statusVars, callerVars, backendVars
  <1> QED
    BY <1>1, <1>2, <1>3, <1>4, <1>5, <1>6

\* The envelope of a thread that sends is one of its own.
LEMMA SendsAnEnvelope ==
  ASSUME TypeOK, TaskFollowsSocket, NEW s \in Senders, sender[s] = "sending"
  PROVE  <<"signature", s, sent[s]>> \in Commands /\ task # "none"
  <1>1. sent[s] \in 1..PerSender /\ task # "none"
    BY BackendAssumption DEF TypeOK, TaskFollowsSocket
  <1> QED
    BY <1>1 DEF Commands, Envelopes

\* So do the callers.
LEMMA TypeSender ==
  ASSUME StreamInv, NEW s \in Senders, Sender(s)
  PROVE  TypeOK'
  <1>0. TypeOK /\ TaskFollowsSocket
    BY DEF StreamInv
  <1>1. /\ sender' \in [Senders -> {"idle", "sending", "gone"}]
        /\ sent' \in [Senders -> 0..PerSender]
    <2>1. CASE BlockingSend(s)
      <3>1. sent[s] + 1 \in 0..PerSender
        BY <1>0, <2>1, BackendAssumption DEF TypeOK, BlockingSend
      <3> QED
        BY <1>0, <2>1, <3>1 DEF TypeOK, BlockingSend
    <2>2. CASE SendAccepted(s) \/ SendRefused(s) \/ DropSender(s)
      BY <1>0, <2>2 DEF TypeOK, SendAccepted, SendRefused, SendReturns, DropSender
    <2> QED
      BY <2>1, <2>2 DEF Sender
  <1>2. /\ commands' \in Seq(Commands) /\ Len(commands') <= Buffer
        /\ accepted' \in Seq(Commands)
    <2>1. CASE UNCHANGED channelVars
      BY <1>0, <2>1 DEF TypeOK, channelVars
    <2>2. CASE sender[s] = "sending" /\ Accepts(<<"signature", s, sent[s]>>)
      BY <1>0, <2>2, SendsAnEnvelope, AcceptsFacts
    <2> QED
      BY <2>1, <2>2, SenderFrame
  <1>3. /\ UNCHANGED <<socket, task, awaiting_completion, taken, status, unseen, frames>>
        /\ UNCHANGED <<inbound, received, backend, early, noise, finish>>
    BY SenderFrame DEF loopVars, statusVars, backendVars
  <1> QED
    BY <1>0, <1>1, <1>2, <1>3 DEF TypeOK

LEMMA TypeHandle ==
  ASSUME TypeOK, Finish \/ DropHandle \/ EndAccepted \/ EndRefused \/ StatusChanged
  PROVE  TypeOK'
  <1>1. CASE EndAccepted
    <2>1. End \in Commands
      BY DEF Commands
    <2>2. /\ commands' \in Seq(Commands) /\ Len(commands') <= Buffer
          /\ accepted' \in Seq(Commands)
          /\ UNCHANGED <<loopVars, statusVars, frames, backendVars>>
      BY <1>1, <2>1, AcceptsFacts DEF EndAccepted
    <2>3. finish' = "waiting" /\ UNCHANGED <<socket, sender, sent>>
      BY <1>1 DEF EndAccepted, Handle, Accepts
    <2> QED
      BY <2>2, <2>3 DEF TypeOK, loopVars, statusVars, backendVars
  <1>2. CASE Finish \/ DropHandle \/ EndRefused \/ StatusChanged
    <2>1. Outcome \in {"ok", "err", "waiting"}
      BY DEF Outcome
    <2>2. /\ finish' \in {"held", "ending", "waiting", "ok", "err", "dropped"}
          /\ unseen' \in BOOLEAN
      BY <1>2, <2>1
      DEF TypeOK, Finish, DropHandle, EndRefused, StatusChanged, Handle, CallerOnly, clientVars,
          statusVars
    <2> QED
      BY <1>2, <2>2, HandleFrame DEF TypeOK, loopVars, channelVars, backendVars
  <1> QED
    BY <1>1, <1>2

\* So does the backend.
LEMMA TypeBackend ==
  ASSUME TypeOK, Backend
  PROVE  TypeOK'
  <1>1. received' \in 0..Len(frames) /\ inbound' \in Seq(Kinds)
    <2>1. CASE ReadFrame
      <3>1. Len(frames) \in Nat
        BY LenProperties DEF TypeOK
      <3> QED
        BY <2>1, <3>1 DEF TypeOK, ReadFrame
    <2>2. CASE received' = received /\ \E kind \in Kinds : inbound' = Append(inbound, kind)
      <3>1. inbound' \in Seq(Kinds)
        BY <2>2, InboundGrows
      <3> QED
        BY <2>2, <3>1 DEF TypeOK
    <2> QED
      BY <2>1, <2>2, BackendFrame
  <1>2. early' \in BOOLEAN /\ backend' \in {"serving", "completed", "gone"}
    BY DEF TypeOK, Backend, Acknowledge, Chatter, ReadFrame, Complete, Reject, Close, EndRead, Says
  <1>3. noise' \in 0..MaxNoise
    BY BackendAssumption
    DEF TypeOK, Backend, Acknowledge, Chatter, ReadFrame, Complete, Reject, Close
  <1> QED
    BY <1>1, <1>2, <1>3, BackendFrame
    DEF TypeOK, clientVars, loopVars, statusVars, channelVars, callerVars

LEMMA TypeStep ==
  ASSUME StreamInv, [Next]_vars
  PROVE  TypeOK'
  <1>1. TypeOK
    BY DEF StreamInv
  <1>2. CASE UNCHANGED vars
    BY <1>1, <1>2
    DEF TypeOK, vars, clientVars, loopVars, statusVars, channelVars, callerVars, backendVars
  <1> QED
    BY <1>1, <1>2, StepCases, TypeHandshake, TypeLoop, TypeSender, TypeHandle, TypeBackend
-----------------------------------------------------------------------------
(***************************************************************************)
(* The rest of the invariant, part by part                                 *)
(***************************************************************************)

\* No end frame has been written while the task goes on forwarding.
LEMMA NoEndYet ==
  ASSUME StreamInv,
         (task = "select" /\ ~awaiting_completion) \/ (task = "writing" /\ taken # <<>>)
  PROVE  \A i \in 1..Len(frames) : frames[i] # End
  <1>1. ~awaiting_completion
    BY DEF StreamInv, TaskFollowsSocket
  <1> QED
    BY <1>1 DEF StreamInv, EndIsLast, Left

\* What was taken and then what is queued follow the frames: the queue is
\* extended at the end by what is accepted and its head moves to the frames by
\* way of the task, until the loop is left.
LEMMA FramesStep ==
  ASSUME StreamInv, [Next]_vars
  PROVE  FramesFollowCommands'
  <1>1. /\ TypeOK /\ FramesFollowCommands /\ TaskFollowsSocket /\ EndIsLast
        /\ frames \in Seq(Commands) /\ commands \in Seq(Commands) /\ accepted \in Seq(Commands)
        /\ taken \in Seq(Commands)
    <2>1. taken \in Seq(Commands)
      <3>1. CASE taken = <<>>
        BY <3>1, EmptySeq
      <3>2. CASE \E c \in Commands : taken = <<c>>
        BY <3>2
      <3> QED
        BY <3>1, <3>2 DEF StreamInv, TypeOK
    <2> QED
      BY <2>1 DEF StreamInv, TypeOK
  <1>2. CASE TakeCommand
    <2>1. task = "select" /\ taken = <<>>
      BY <1>1, <1>2, TakeFacts DEF TaskFollowsSocket
    <2>2. frames \o commands = accepted
      BY <1>1, <2>1, ConcatEmptySeq DEF FramesFollowCommands
    <2>3. (frames \o taken') \o commands' = frames \o commands
      <3>1. frames \o <<Head(commands)>> = Append(frames, Head(commands))
        BY <1>1, <1>2, TakeFacts, AppendIsConcat
      <3> QED
        BY <1>1, <1>2, <3>1, TakeFacts, HeadMoves
    <2> QED
      BY <1>1, <1>2, <2>2, <2>3, TakeFacts DEF FramesFollowCommands
  <1>3. CASE Transmit
    <2>1. (frames' \o taken') \o commands' = accepted' /\ frames' \o commands' = accepted'
      <3>1. (frames \o taken) \o commands = accepted
        BY <1>1, <1>3, TransmitFacts DEF FramesFollowCommands
      <3>2. /\ frames' \in Seq(Commands) /\ frames' = frames \o taken /\ taken' = <<>>
            /\ UNCHANGED <<accepted, commands>>
        BY <1>1, <1>3, TransmitFacts
      <3>3. frames' \o <<>> = frames'
        BY <3>2, ConcatEmptySeq
      <3> QED
        BY <3>1, <3>2, <3>3
    <2>2. Len(frames') <= Len(accepted') /\ frames' = SubSeq(accepted', 1, Len(frames'))
      <3>1. frames' \in Seq(Commands) /\ commands' \in Seq(Commands)
        BY <1>1, <1>3, TransmitFacts
      <3> QED
        BY <2>1, <3>1, PrefixOfWhole
    <2>3. \A i \in 1..Len(frames') : frames'[i] = End => i = Len(frames')
      <3>1. /\ \A i \in 1..Len(frames) : frames'[i] = frames[i] /\ frames[i] # End
            /\ Len(frames') = Len(frames) + 1 /\ Len(frames) \in Nat
        BY <1>1, <1>3, TransmitFacts, NoEndYet
      <3> QED
        BY <3>1
    <2> QED
      BY <2>1, <2>2, <2>3 DEF FramesFollowCommands
  <1>4. ASSUME NEW c \in Commands, Accepts(c)
        PROVE  FramesFollowCommands'
    <2>1. /\ UNCHANGED <<frames, taken, task>>
          /\ commands' = Append(commands, c) /\ accepted' = Append(accepted, c)
      BY <1>1, <1>4, AcceptsFacts DEF loopVars
    <2>2. (frames \o taken) \o Append(commands, c) = Append((frames \o taken) \o commands, c)
      BY <1>1, AppendRegroups, ConcatProperties
    <2>3. Len(frames) <= Len(Append(accepted, c))
          /\ frames = SubSeq(Append(accepted, c), 1, Len(frames))
      <3>1. Len(frames) \in 0..Len(accepted) /\ frames = SubSeq(accepted, 1, Len(frames))
        <4>1. Len(frames) \in Nat /\ Len(accepted) \in Nat
          BY <1>1, LenProperties
        <4>2. Len(frames) <= Len(accepted) /\ frames = SubSeq(accepted, 1, Len(frames))
          BY <1>1 DEF FramesFollowCommands
        <4>3. Len(frames) \in 0..Len(accepted)
          BY <4>1, <4>2
        <4> QED
          BY <4>2, <4>3
      <3> QED
        BY <1>1, <3>1, PrefixOfLonger
    <2> QED
      BY <1>1, <2>1, <2>2, <2>3 DEF FramesFollowCommands
  <1>5. ASSUME UNCHANGED <<accepted, frames>>,
               \/ task' \in {"leaving", "dropping", "ended"}
               \/ /\ task \notin {"leaving", "dropping", "ended"}
                  /\ UNCHANGED <<taken, commands>>
               \/ UNCHANGED <<task, taken, commands>>
        PROVE  FramesFollowCommands'
    BY <1>1, <1>5 DEF FramesFollowCommands
  <1>6. CASE ConnectStream
    <2>1. task \in {"none", "select"}
          \/ UNCHANGED <<task, taken, commands>>
      BY <1>1, <1>6, HandshakeFrame DEF TaskFollowsSocket, TypeOK, channelVars
    <2> QED
      BY <1>5, <1>6, <2>1, HandshakeFrame DEF channelVars
  <1>7. CASE WriteReturns
    BY <1>5, <1>7 DEF WriteReturns, LoopOnly
  <1>8. CASE WriteFails \/ ChannelClosed
    BY <1>5, <1>8, LeavingFrame
  <1>9. CASE Handles
    BY <1>5, <1>9, ReadingFrame DEF channelVars
  <1>10. CASE PongReturns \/ CloseReturns \/ StatusDropped \/ ReceiverDropped
    BY <1>5, <1>10, GoingFrame
  <1>11. ASSUME NEW s \in Senders, Sender(s) PROVE FramesFollowCommands'
    <2>1. CASE UNCHANGED channelVars
      BY <1>5, <1>11, <2>1, SenderFrame DEF channelVars, loopVars
    <2>2. CASE sender[s] = "sending" /\ Accepts(<<"signature", s, sent[s]>>)
      BY <1>1, <1>4, <2>2, SendsAnEnvelope
    <2> QED
      BY <1>11, <2>1, <2>2, SenderFrame
  <1>12. CASE EndAccepted
    BY <1>4, <1>12 DEF EndAccepted, Commands
  <1>13. CASE Finish \/ DropHandle \/ EndRefused \/ StatusChanged
    BY <1>5, <1>13, HandleFrame DEF channelVars, loopVars
  <1>14. CASE Backend \/ UNCHANGED vars
    BY <1>5, <1>14, BackendFrame DEF vars, clientVars, channelVars, loopVars
  <1> QED
    BY <1>2, <1>3, <1>6, <1>7, <1>8, <1>9, <1>10, <1>11, <1>12, <1>13, <1>14, StepCases

\* The task starts with the ack; whatever takes it out of the loop has set a
\* final status, and a command taken is being written.
LEMMA TaskStep ==
  ASSUME StreamInv, [Next]_vars
  PROVE  TaskFollowsSocket'
  <1> USE DEF TaskFollowsSocket, Left, Final
  <1>1. TypeOK /\ TaskFollowsSocket
    BY DEF StreamInv
  <1>2. CASE ConnectStream
    <2>1. UNCHANGED <<awaiting_completion, taken, commands, accepted, frames, sender, sent>>
      BY <1>2, HandshakeFrame DEF channelVars, callerVars
    <2>2. task = "none" /\ ~Left /\ ~Final
      BY <1>1, <1>2, HandshakeFrame
    <2>3. CASE socket' \in {"start", "refused"} /\ UNCHANGED <<task, status>>
      BY <1>1, <2>1, <2>2, <2>3
    <2>4. CASE socket' = "acked" /\ task' = "select" /\ status' = "Ready"
      BY <1>1, <2>1, <2>2, <2>4
    <2> QED
      BY <1>2, <2>3, <2>4, HandshakeFrame DEF statusVars
  <1>3. CASE TakeCommand
    BY <1>1, <1>3, TakeFacts DEF statusVars, callerVars, backendVars
  <1>4. CASE Transmit
    BY <1>1, <1>4, TransmitFacts DEF statusVars, callerVars, backendVars
  <1>5. CASE WriteReturns
    BY <1>1, <1>5 DEF WriteReturns, LoopOnly, statusVars, callerVars, backendVars
  <1>6. CASE WriteFails \/ ChannelClosed
    BY <1>1, <1>6, LeavingFrame DEF callerVars
  <1>7. CASE Handles
    BY <1>1, <1>7, ReadingFrame DEF statusVars, channelVars, callerVars
  <1>8. CASE PongReturns \/ CloseReturns \/ StatusDropped \/ ReceiverDropped
    BY <1>1, <1>8, GoingFrame DEF statusVars, callerVars
  <1>9. ASSUME NEW s \in Senders, Sender(s)
        PROVE  TaskFollowsSocket'
    <2>1. /\ UNCHANGED <<socket, task, status, taken, awaiting_completion, frames>>
          /\ task # "none"
          /\ sender'[s] = "sending" => sent'[s] > 0
          /\ \A t \in Senders \ {s} : sender'[t] = sender[t] /\ sent'[t] = sent[t]
      <3>1. UNCHANGED <<socket, task, status, taken, awaiting_completion, frames>>
        BY <1>9, SenderFrame DEF loopVars, statusVars
      <3> QED
        BY <1>1, <1>9, <3>1, BackendAssumption
        DEF TypeOK, Sender, BlockingSend, SendAccepted, SendReturns, SendRefused, DropSender
    <2> QED
      BY <1>1, <2>1
  <1>10. CASE EndAccepted
    BY <1>1, <1>10 DEF EndAccepted, Accepts, Handle, loopVars, statusVars
  <1>11. CASE Finish \/ DropHandle \/ EndRefused \/ StatusChanged
    BY <1>1, <1>11, HandleFrame DEF loopVars, channelVars
  <1>12. CASE Backend \/ UNCHANGED vars
    BY <1>1, <1>12, BackendFrame
    DEF vars, clientVars, loopVars, statusVars, channelVars, callerVars
  <1> QED
    BY <1>2, <1>3, <1>4, <1>5, <1>6, <1>7, <1>8, <1>9, <1>10, <1>11, <1>12, StepCases

\* An envelope is not the end command.
LEMMA EnvelopeIsNotEnd == \A s, n : <<"signature", s, n>> # End
  BY DEF End

\* Only finish sends the end command, once, and writing it stops the rest.
LEMMA EndStep ==
  ASSUME StreamInv, [Next]_vars
  PROVE  EndIsLast'
  <1> DEFINE Stopped == awaiting_completion \/ Left \/ (task = "writing" /\ taken = <<>>)
             Asked   == finish \in {"waiting", "ok", "err"}
  <1>1. /\ TypeOK /\ EndIsLast /\ TaskFollowsSocket /\ FramesFollowCommands
        /\ \A i \in 1..Len(frames) : frames[i] = End => Stopped
        /\ \A i \in 1..Len(accepted) : accepted[i] = End => Asked
    BY DEF StreamInv, EndIsLast
  <1>2. SUFFICES /\ \A i \in 1..Len(frames') : frames'[i] = End => Stopped'
                 /\ \A i \in 1..Len(accepted') : accepted'[i] = End => Asked'
    BY DEF EndIsLast
  <1>3. ASSUME UNCHANGED <<frames, accepted>>, Stopped => Stopped', Asked => Asked'
        PROVE  /\ \A i \in 1..Len(frames') : frames'[i] = End => Stopped'
               /\ \A i \in 1..Len(accepted') : accepted'[i] = End => Asked'
    BY <1>1, <1>3
  <1>4. CASE TakeCommand
    <2>1. \A i \in 1..Len(frames) : frames[i] # End
      BY <1>1, <1>4, TakeFacts, NoEndYet
    <2> QED
      BY <1>1, <1>4, <2>1, TakeFacts DEF callerVars
  <1>5. CASE Transmit
    <2>1. Stopped'
      BY <1>1, <1>5, TransmitFacts
    <2> QED
      BY <1>1, <1>5, <2>1, TransmitFacts DEF callerVars
  <1>6. CASE WriteReturns
    <2>1. UNCHANGED <<frames, accepted, finish>>
      BY <1>6 DEF WriteReturns, LoopOnly, callerVars
    <2>2. ASSUME NEW i \in 1..Len(frames), frames[i] = End PROVE Stopped'
      <3>1. frames[Len(frames)] = End
        BY <1>1, <2>2 DEF FramesFollowCommands
      <3> QED
        BY <1>6, <3>1 DEF WriteReturns
    <2> QED
      BY <1>1, <2>1, <2>2
  <1>7. CASE WriteFails \/ ChannelClosed
    BY <1>3, <1>7, LeavingFrame DEF callerVars, Left
  <1>8. CASE Handles
    BY <1>3, <1>8, ReadingFrame DEF channelVars, callerVars, Left
  <1>9. CASE PongReturns \/ CloseReturns \/ StatusDropped \/ ReceiverDropped
    BY <1>3, <1>9, GoingFrame DEF callerVars, Left
  <1>10. CASE ConnectStream
    <2>1. UNCHANGED <<frames, accepted, finish>>
      BY <1>10, HandshakeFrame DEF channelVars, callerVars
    <2>2. task' # task => accepted = <<>> /\ frames = <<>>
      BY <1>1, <1>10, HandshakeFrame DEF TaskFollowsSocket, TypeOK, statusVars
    <2>3. CASE task' = task
      BY <1>3, <1>10, <2>1, <2>3, HandshakeFrame DEF Left
    <2>4. CASE task' # task
      <3>1. Len(frames) = 0 /\ Len(accepted) = 0
        BY <2>2, <2>4, EmptySeq
      <3> QED
        BY <2>1, <3>1
    <2> QED
      BY <2>3, <2>4
  <1>11. ASSUME NEW c \in Commands, Accepts(c), c = End \/ Asked => Asked'
         PROVE  /\ \A i \in 1..Len(frames') : frames'[i] = End => Stopped'
                /\ \A i \in 1..Len(accepted') : accepted'[i] = End => Asked'
    <2>1. /\ \A i \in 1..Len(accepted) : accepted'[i] = accepted[i]
          /\ Len(accepted') = Len(accepted) + 1 /\ Len(accepted) \in Nat
          /\ accepted'[Len(accepted) + 1] = c
          /\ UNCHANGED <<loopVars, frames>>
      BY <1>1, <1>11, AcceptsFacts
    <2>2. Stopped' = Stopped /\ frames' = frames
      BY <2>1 DEF loopVars, Left
    <2> HIDE DEF Stopped, Asked
    <2> QED
      BY <1>1, <1>11, <2>1, <2>2
  <1>12. ASSUME NEW s \in Senders, Sender(s)
         PROVE  /\ \A i \in 1..Len(frames') : frames'[i] = End => Stopped'
                /\ \A i \in 1..Len(accepted') : accepted'[i] = End => Asked'
    <2>1. finish' = finish
      BY <1>12, SenderFrame
    <2>2. CASE UNCHANGED channelVars
      BY <1>3, <1>12, <2>1, <2>2, SenderFrame DEF channelVars, loopVars, Left
    <2>3. CASE sender[s] = "sending" /\ Accepts(<<"signature", s, sent[s]>>)
      <3>1. <<"signature", s, sent[s]>> \in Commands /\ <<"signature", s, sent[s]>> # End
        BY <1>1, <2>3, SendsAnEnvelope, EnvelopeIsNotEnd
      <3> QED
        BY <1>11, <2>1, <2>3, <3>1
    <2> QED
      BY <1>12, <2>2, <2>3, SenderFrame
  <1>13. CASE EndAccepted
    <2>1. End \in Commands /\ Accepts(End) /\ Asked'
      BY <1>13 DEF EndAccepted, Handle, Commands
    <2> QED
      BY <1>11, <2>1
  <1>14. CASE Finish \/ DropHandle \/ EndRefused \/ StatusChanged
    <2>1. Asked => Asked'
      BY <1>14 DEF Finish, DropHandle, EndRefused, StatusChanged, Handle, Outcome
    <2> QED
      BY <1>3, <1>14, <2>1, HandleFrame DEF channelVars, loopVars, Left
  <1>15. CASE Backend \/ UNCHANGED vars
    BY <1>3, <1>15, BackendFrame DEF vars, clientVars, channelVars, loopVars, callerVars, Left
  <1> QED
    BY <1>4, <1>5, <1>6, <1>7, <1>8, <1>9, <1>10, <1>12, <1>13, <1>14, <1>15, StepCases

\* Once the end frame is read there is nothing more to read or to forward.
LEMMA EndReadIsStable ==
  ASSUME StreamInv, [Next]_vars, EndRead
  PROVE  EndRead'
  <1>1. /\ TypeOK /\ FramesFollowCommands /\ EndIsLast /\ TaskFollowsSocket
        /\ Len(frames) \in Nat
    BY LenProperties DEF StreamInv, TypeOK
  <1>2. received = Len(frames) /\ received \in 1..Len(frames) /\ frames[received] = End
    <2>1. received \in 1..Len(frames) /\ frames[received] = End
      BY <1>1 DEF EndRead, TypeOK
    <2> QED
      BY <1>1, <2>1 DEF FramesFollowCommands
  <1>3. ~Transmit /\ ~ReadFrame
    BY <1>1, <1>2, TransmitFacts, NoEndYet DEF ReadFrame
  <1>4. UNCHANGED <<frames, received>>
    <2>1. CASE ConnectStream \/ Handles
      BY <2>1, HandshakeFrame, ReadingFrame
    <2>2. CASE TakeCommand \/ WriteReturns
      BY <2>2 DEF TakeCommand, WriteReturns, LoopOnly, backendVars
    <2>3. CASE WriteFails \/ ChannelClosed
      BY <2>3, LeavingFrame DEF backendVars
    <2>4. CASE PongReturns \/ CloseReturns \/ StatusDropped \/ ReceiverDropped
      BY <2>4, GoingFrame DEF backendVars
    <2>5. ASSUME NEW s \in Senders, Sender(s) PROVE UNCHANGED <<frames, received>>
      BY <2>5, SenderFrame DEF backendVars
    <2>6. CASE EndAccepted
      BY <2>6 DEF EndAccepted, Accepts, backendVars
    <2>7. CASE Finish \/ DropHandle \/ EndRefused \/ StatusChanged
      BY <2>7, HandleFrame DEF backendVars
    <2>8. CASE Backend \/ UNCHANGED vars
      BY <1>3, <2>8, BackendFrame DEF vars, clientVars, backendVars
    <2> QED
      BY <1>3, <2>1, <2>2, <2>3, <2>4, <2>5, <2>6, <2>7, <2>8, StepCases
  <1> QED
    BY <1>4 DEF EndRead

\* What the client and its callers do leaves the backend's account alone,
\* takes messages only by reading them, and has no completion to report but
\* one that it reads.
LEMMA ClientSteps ==
  ASSUME [Next]_vars
  PROVE  \/ Backend
         \/ /\ UNCHANGED <<received, backend, early, noise>>
            /\ \/ inbound' = inbound /\ (status' = "Completed" => status = "Completed")
               \/ \E kinds :
                    /\ Reads(kinds)
                    /\ status' = "Completed" => status = "Completed" \/ kinds = {"completed"}
  <1>1. CASE ConnectStream
    BY <1>1, HandshakeFrame DEF statusVars
  <1>2. CASE Handles
    <2>1. PICK kinds : Reads(kinds) /\ (Completed => kinds = {"completed"})
      BY <1>2, ReadingFrame
    <2>2. status' = "Completed" => status = "Completed" \/ kinds = {"completed"}
      BY <1>2, <2>1, ReadingFrame DEF statusVars
    <2> QED
      BY <1>2, <2>1, <2>2, ReadingFrame
  <1>3. CASE TakeCommand \/ Transmit \/ WriteReturns
    BY <1>3 DEF TakeCommand, Transmit, WriteReturns, LoopOnly, statusVars, backendVars
  <1>4. CASE WriteFails \/ ChannelClosed
    BY <1>4, LeavingFrame DEF backendVars
  <1>5. CASE PongReturns \/ CloseReturns \/ StatusDropped \/ ReceiverDropped
    BY <1>5, GoingFrame DEF statusVars, backendVars
  <1>6. ASSUME NEW s \in Senders, Sender(s)
        PROVE  UNCHANGED <<status, inbound, received, backend, early, noise>>
    BY <1>6, SenderFrame DEF statusVars, backendVars
  <1>7. CASE EndAccepted
    BY <1>7 DEF EndAccepted, Accepts, statusVars, backendVars
  <1>8. CASE Finish \/ DropHandle \/ EndRefused \/ StatusChanged
    BY <1>8, HandleFrame DEF backendVars
  <1>9. CASE UNCHANGED vars
    BY <1>9 DEF vars, clientVars, statusVars, backendVars
  <1> QED
    BY <1>1, <1>2, <1>3, <1>4, <1>5, <1>6, <1>7, <1>8, <1>9, StepCases

\* Only a completion sets early, and only a backend that still serves
\* completes.
LEMMA EarlyChanges ==
  ASSUME [Next]_vars, ~Complete
  PROVE  early' = early /\ (backend' = "serving" => backend = "serving")
  BY ClientSteps DEF Backend, Acknowledge, Chatter, ReadFrame, Reject, Close, Says

\* So an early completion remains one.
LEMMA EarlyStays ==
  ASSUME StreamInv, [Next]_vars, early
  PROVE  early'
  BY EarlyChanges DEF StreamInv, CompletionFollowsEnd, Complete, Says

\* A completion that is on its way was early or followed the end frame, and
\* stays so until the client takes note of it.
LEMMA CompletionStep ==
  ASSUME StreamInv, [Next]_vars
  PROVE  CompletionFollowsEnd'
  <1> DEFINE Announced == \E i \in 1..Len(inbound) : inbound[i] = "completed"
             Known     == status = "Completed" \/ backend = "completed" \/ Announced
  <1>1. TypeOK /\ CompletionFollowsEnd /\ Len(inbound) \in Nat
    BY LenProperties DEF StreamInv, TypeOK
  <1>2. EndRead => EndRead'
    BY EndReadIsStable
  <1>3. SUFFICES ASSUME ~Complete, Known'
                 PROVE  early' = early /\ Known
    <2>0. early' => backend' # "serving"
      BY <1>1, EarlyChanges DEF Complete, CompletionFollowsEnd
    <2>1. ASSUME Complete PROVE early' \/ EndRead'
      <3>1. EndRead' = EndRead
        BY <2>1 DEF Complete, Says, EndRead, clientVars
      <3> QED
        BY <2>1, <3>1 DEF Complete
    <2> QED
      BY <1>1, <1>2, <2>0, <2>1 DEF CompletionFollowsEnd
  <1>4. early' = early
    BY <1>3, EarlyChanges
  <1>5. ASSUME NEW kinds, Reads(kinds),
               status' = "Completed" => status = "Completed" \/ kinds = {"completed"}
        PROVE  Known
    <2>1. /\ Len(inbound) \in Nat \ {0} /\ inbound[1] \in kinds
          /\ Len(inbound') = Len(inbound) - 1
          /\ \A i \in 1..Len(inbound') : inbound'[i] = inbound[i + 1]
          /\ backend' = backend
      BY <1>1, <1>5, ReadsFacts
    <2>2. Announced' => Announced
      BY <2>1
    <2>3. kinds = {"completed"} => Announced
      BY <2>1
    <2> HIDE DEF Announced
    <2> QED
      BY <1>3, <1>5, <2>1, <2>2, <2>3
  <1>6. ASSUME NEW kind \in Kinds \ {"completed"}, inbound' = Append(inbound, kind),
               status' = status, backend' = "completed" => backend = "completed"
        PROVE  Known
    <2>1. Announced' => Announced
      BY <1>1, <1>6, InboundGrows
    <2> QED
      BY <1>3, <1>6, <2>1
  <1>7. ASSUME inbound' = inbound, backend' = backend, status' = "Completed" => status = "Completed"
        PROVE  Known
    BY <1>3, <1>7
  <1>8. CASE Backend
    <2>1. CASE ReadFrame
      BY <1>7, <2>1 DEF ReadFrame, clientVars, statusVars
    <2>2. CASE Acknowledge \/ Chatter \/ Reject \/ Close
      BY <1>6, <2>2 DEF Acknowledge, Chatter, Reject, Close, Says, clientVars, statusVars, Kinds
    <2> QED
      BY <1>3, <1>8, <2>1, <2>2 DEF Backend
  <1> HIDE DEF Known
  <1> QED
    BY <1>4, <1>5, <1>7, <1>8, ClientSteps

\* The final status is unseen from the moment it is set until finish takes it.
LEMMA FinishStepInv ==
  ASSUME StreamInv, [Next]_vars
  PROVE  FinishIsInformed'
  <1> USE DEF FinishIsInformed, Closed, Final
  <1>1. TypeOK /\ FinishIsInformed /\ TaskFollowsSocket
    BY DEF StreamInv
  <1>2. Final <=> Left
    BY <1>1 DEF TaskFollowsSocket
  <1>3. ASSUME UNCHANGED <<statusVars, finish>>, Closed => Closed'
        PROVE  FinishIsInformed'
    BY <1>1, <1>3 DEF statusVars
  <1>4. CASE ConnectStream
    <2>1. ~Left /\ finish' = finish
      BY <1>1, <1>4, HandshakeFrame DEF TaskFollowsSocket, Left, callerVars
    <2> QED
      BY <1>1, <1>2, <1>4, <2>1, HandshakeFrame DEF statusVars, Left
  <1>5. CASE TakeCommand \/ Transmit \/ WriteReturns
    BY <1>3, <1>5 DEF TakeCommand, Listens, Transmit, WriteReturns, LoopOnly, callerVars
  <1>6. CASE WriteFails \/ ChannelClosed
    BY <1>1, <1>6, LeavingFrame DEF callerVars
  <1>7. CASE Handles
    BY <1>1, <1>2, <1>7, ReadingFrame DEF statusVars, callerVars, Left
  <1>8. CASE PongReturns \/ CloseReturns \/ StatusDropped \/ ReceiverDropped
    BY <1>3, <1>8, GoingFrame DEF callerVars
  <1>9. ASSUME NEW s \in Senders, Sender(s) PROVE FinishIsInformed'
    BY <1>3, <1>9, SenderFrame DEF loopVars
  <1>10. CASE Finish \/ DropHandle \/ EndAccepted \/ EndRefused
    BY <1>1, <1>10 DEF Finish, DropHandle, EndAccepted, EndRefused, Handle, CallerOnly, Accepts,
                       clientVars, statusVars, loopVars
  <1>11. CASE StatusChanged
    <2>1. /\ finish = "waiting" /\ finish' = Outcome /\ UNCHANGED <<task, status>>
          /\ Changed \/ StatusClosed
      BY <1>11 DEF StatusChanged, Handle, loopVars
    <2>2. Changed
      BY <1>1, <1>2, <2>1 DEF Changed, StatusClosed, Left
    <2> QED
      BY <2>1, <2>2 DEF Outcome
  <1>12. CASE Backend \/ UNCHANGED vars
    BY <1>3, <1>12, BackendFrame DEF vars, clientVars, callerVars, loopVars
  <1> QED
    BY <1>4, <1>5, <1>6, <1>7, <1>8, <1>9, <1>10, <1>11, <1>12, StepCases

LEMMA StreamInvInit == Init => StreamInv
  <1> SUFFICES ASSUME Init PROVE StreamInv
    OBVIOUS
  <1>1. TypeOK
    BY TypeInit
  <1>2. /\ frames = <<>> /\ accepted = <<>> /\ inbound = <<>> /\ commands = <<>> /\ taken = <<>>
        /\ Len(<<>>) = 0
    BY EmptySeq DEF Init
  <1>3. <<>> = SubSeq(<<>>, 1, 0) /\ <<>> \o <<>> = <<>>
    <2>1. <<>> \in Seq(Commands)
      BY EmptySeq
    <2> QED
      BY <2>1, SubSeqEmpty, ConcatEmptySeq
  <1>4. FramesFollowCommands
    BY <1>2, <1>3 DEF Init, FramesFollowCommands
  <1>5. TaskFollowsSocket
    BY <1>2 DEF Init, TaskFollowsSocket, Left, Final
  <1>6. EndIsLast /\ CompletionFollowsEnd /\ FinishIsInformed
    BY <1>2 DEF Init, EndIsLast, CompletionFollowsEnd, FinishIsInformed, Final
  <1> QED
    BY <1>1, <1>4, <1>5, <1>6 DEF StreamInv
-----------------------------------------------------------------------------
(***************************************************************************)
(* Theorems                                                                *)
(***************************************************************************)

\* The backend gets the commands in the order the channel took them, from any
\* number of threads; none is missed until the loop is left and nothing follows
\* the end frame, whatever fails, wherever the channel is full and however long
\* a write takes; the status is final exactly when nothing is read any more.
THEOREM StreamInvariant == Spec => []StreamInv
  <1>1. Init => StreamInv
    BY StreamInvInit
  <1>2. StreamInv /\ [Next]_vars => StreamInv'
    BY TypeStep, FramesStep, TaskStep, EndStep, CompletionStep, FinishStepInv DEF StreamInv
  <1> QED
    BY <1>1, <1>2, PTL DEF Spec

\* A status that is final is left alone by every step.
LEMMA FinalStatusStays ==
  ASSUME StreamInv, [Next]_vars, Final
  PROVE  status' = status
  <1>1. /\ task \in {"closing", "leaving", "dropping", "ended"}
        /\ socket = "acked"
    BY DEF StreamInv, TaskFollowsSocket, Left
  <1>2. ~ConnectStream /\ ~Handles /\ ~WriteFails /\ ~ChannelClosed
    BY <1>1, HandshakeFrame, ReadingFrame, LeavingFrame
  <1>3. CASE TakeCommand \/ Transmit \/ WriteReturns
    BY <1>3 DEF TakeCommand, Transmit, WriteReturns, statusVars
  <1>4. CASE PongReturns \/ CloseReturns \/ StatusDropped \/ ReceiverDropped
    BY <1>4, GoingFrame DEF statusVars
  <1>5. ASSUME NEW s \in Senders, Sender(s) PROVE status' = status
    BY <1>5, SenderFrame DEF statusVars
  <1>6. CASE EndAccepted
    BY <1>6 DEF EndAccepted, Accepts, statusVars
  <1>7. CASE Finish \/ DropHandle \/ EndRefused \/ StatusChanged
    BY <1>7, HandleFrame
  <1>8. CASE Backend \/ UNCHANGED vars
    BY <1>8, BackendFrame DEF vars, clientVars, statusVars
  <1> QED
    BY <1>2, <1>3, <1>4, <1>5, <1>6, <1>7, <1>8, StepCases

\* The first outcome stands: nothing that comes after a completion turns it
\* into a failure, nor the other way round.
THEOREM FirstOutcomeStands == Spec => OutcomeIsFinal
  <1>1. StreamInv /\ [Next]_vars => [Final => status' = status]_vars
    BY FinalStatusStays
  <1> QED
    BY <1>1, StreamInvariant, PTL DEF Spec, OutcomeIsFinal

\* The end frame having been read, finish has been called: the end command is
\* its own, and the frames are commands.
LEMMA EndReadMeansFinish ==
  ASSUME StreamInv, EndRead
  PROVE  /\ finish \in {"waiting", "ok", "err"}
         /\ received \in 1..Len(accepted)
         /\ accepted[received] = End
         /\ \A i \in 1..received : accepted[i] = frames[i]
  <1>1. /\ frames \in Seq(Commands) /\ accepted \in Seq(Commands)
        /\ received \in 1..Len(frames) /\ frames[received] = End
        /\ Len(frames) \in 0..Len(accepted) /\ frames = SubSeq(accepted, 1, Len(frames))
        /\ Len(accepted) \in Nat
    <2>1. /\ frames \in Seq(Commands) /\ accepted \in Seq(Commands)
          /\ received \in 0..Len(frames) /\ received > 0 /\ frames[received] = End
      BY DEF StreamInv, TypeOK, EndRead
    <2>2. Len(frames) \in Nat /\ Len(accepted) \in Nat
      BY <2>1, LenProperties
    <2>3. received \in 1..Len(frames)
      BY <2>1, <2>2
    <2>4. Len(frames) <= Len(accepted) /\ frames = SubSeq(accepted, 1, Len(frames))
      BY DEF StreamInv, FramesFollowCommands
    <2>5. Len(frames) \in 0..Len(accepted)
      BY <2>2, <2>4
    <2> QED
      BY <2>1, <2>2, <2>3, <2>4, <2>5
  <1>2. \A i \in 1..Len(frames) : SubSeq(accepted, 1, Len(frames))[i] = accepted[i]
    BY <1>1, PrefixElements
  <1>3. /\ received \in 1..Len(accepted) /\ accepted[received] = End
        /\ \A i \in 1..received : accepted[i] = frames[i]
    BY <1>1, <1>2
  <1> QED
    BY <1>3 DEF StreamInv, EndIsLast

\* finish returns Ok of a completed run only, and an error of a completed run
\* only when the backend completed before it was asked to.
THEOREM FinishTellsTheOutcome == Spec => []OutcomeIsReported
  <1>1. Init => OutcomeIsReported
    BY DEF Init, OutcomeIsReported
  <1>2. StreamInv /\ StreamInv' /\ OutcomeIsReported /\ [Next]_vars => OutcomeIsReported'
    <2> SUFFICES ASSUME StreamInv, StreamInv', OutcomeIsReported, [Next]_vars
                 PROVE  OutcomeIsReported'
      OBVIOUS
    <2>1. Final => status' = status
      BY FinalStatusStays
    <2>2. CASE StatusChanged
      <3>1. finish = "waiting" /\ finish' = Outcome /\ UNCHANGED <<status, early>>
        BY <2>2 DEF StatusChanged, Handle, backendVars
      <3>2. Changed
        BY <2>2, <3>1
        DEF StatusChanged, StatusClosed, StreamInv, FinishIsInformed, TaskFollowsSocket, Left,
            Changed
      <3> QED
        BY <3>1, <3>2 DEF Outcome, OutcomeIsReported
    <2>3. CASE EndRefused
      <3>1. finish = "ending" /\ finish' = "err" /\ UNCHANGED <<status, early>>
        BY <2>3 DEF EndRefused, Handle, CallerOnly, clientVars, statusVars, backendVars
      <3>2. ~EndRead
        BY <3>1, EndReadMeansFinish
      <3>3. status = "Completed" => early
        BY <3>2 DEF StreamInv, CompletionFollowsEnd
      <3> QED
        BY <3>1, <3>3 DEF OutcomeIsReported
    <2>4. ASSUME finish' = finish \/ finish' \in {"ending", "dropped", "waiting"}
          PROVE  OutcomeIsReported'
      <3>1. finish' = "ok" => status' = "Completed"
        BY <2>1, <2>4 DEF OutcomeIsReported, Final
      <3>2. ASSUME finish' = "err", status' = "Completed" PROVE early'
        <4>1. finish = "err"
          BY <2>4, <3>2
        <4>2. Final
          BY <4>1 DEF StreamInv, FinishIsInformed, TaskFollowsSocket, Closed, Left, Final
        <4>3. status = "Completed"
          BY <2>1, <3>2, <4>2
        <4>4. early
          BY <4>1, <4>3 DEF OutcomeIsReported
        <4> QED
          BY <4>4, EarlyStays
      <3> QED
        BY <3>1, <3>2 DEF OutcomeIsReported
    <2>5. CASE ConnectStream \/ Handles
      BY <2>4, <2>5, HandshakeFrame, ReadingFrame DEF callerVars
    <2>6. CASE TakeCommand \/ Transmit \/ WriteReturns
      BY <2>4, <2>6 DEF TakeCommand, Transmit, WriteReturns, LoopOnly, callerVars
    <2>7. CASE WriteFails \/ ChannelClosed
      BY <2>4, <2>7, LeavingFrame DEF callerVars
    <2>8. CASE PongReturns \/ CloseReturns \/ StatusDropped \/ ReceiverDropped
      BY <2>4, <2>8, GoingFrame DEF callerVars
    <2>9. ASSUME NEW s \in Senders, Sender(s) PROVE OutcomeIsReported'
      BY <2>4, <2>9, SenderFrame
    <2>10. CASE Finish \/ DropHandle \/ EndAccepted
      BY <2>4, <2>10 DEF Finish, DropHandle, EndAccepted, Handle
    <2>11. CASE Backend \/ UNCHANGED vars
      BY <2>4, <2>11, BackendFrame DEF callerVars, vars
    <2> QED
      BY <2>2, <2>3, <2>5, <2>6, <2>7, <2>8, <2>9, <2>10, <2>11, StepCases
  <1> QED
    BY <1>1, <1>2, StreamInvariant, PTL DEF Spec

\* When finish returns Ok and the backend did wait for the end frame, the
\* backend has read every envelope that was accepted before the end command.
THEOREM OkMeansAllReceived == Spec => []OkMeansReceived
  <1>1. StreamInv /\ OutcomeIsReported => OkMeansReceived
    <2> SUFFICES ASSUME StreamInv, OutcomeIsReported, finish = "ok", ~early
                 PROVE  \E e \in 1..Len(accepted) :
                          /\ accepted[e] = End
                          /\ \A i \in 1..e : accepted[i] \in ReadByBackend
      BY DEF OkMeansReceived
    <2>1. EndRead
      BY DEF OutcomeIsReported, StreamInv, CompletionFollowsEnd
    <2>2. /\ received \in 1..Len(accepted) /\ accepted[received] = End
          /\ \A i \in 1..received : accepted[i] = frames[i]
      BY <2>1, EndReadMeansFinish
    <2>3. \A i \in 1..received : accepted[i] \in ReadByBackend
      BY <2>2 DEF ReadByBackend
    <2> QED
      BY <2>2, <2>3
  <1> QED
    BY <1>1, StreamInvariant, FinishTellsTheOutcome, PTL
=============================================================================
