--------------------------- MODULE BackendStream ---------------------------
(***************************************************************************)
(* The streaming client of src/src/backend.rs: the websocket handshake,    *)
(* the task that forwards commands and reads what the backend says, the    *)
(* senders that feed it from other threads and the handle whose finish     *)
(* waits for the outcome.  The backend and the network are external.       *)
(*                                                                         *)
(* A step of the task ends at each await, at each change of the status and *)
(* at each end of a channel; a write is begun in one step, may put its     *)
(* frame on the wire in another and returns in a third.                    *)
(*                                                                         *)
(* Messages are their kinds.  What the code reads and ignores (Other, a    *)
(* second start_ack, text that does not parse, binary, pong) is "noise".   *)
(***************************************************************************)
EXTENDS Integers, Sequences, FiniteSets

CONSTANTS
  Senders,   \* the SignatureSender clones, each used by one thread
  PerSender, \* how many envelopes each sends
  Buffer,    \* COMMAND_BUFFER, 256 in the code
  MaxNoise,  \* bound on the noise and pings of the backend
  Faults     \* what may go wrong in this instance

FaultKinds == {"early_completion", "backend_error", "close", "write_error"}

ASSUME BackendAssumption ==
  /\ IsFiniteSet(Senders)
  /\ {PerSender, MaxNoise} \subseteq Nat
  /\ Buffer \in Nat \ {0}
  /\ Faults \subseteq FaultKinds

VARIABLES
  socket,    \* "connecting", "start", "acked", "refused": connect_stream
  task,      \* run_backend_loop: "none", at "select", "writing" a command,
             \* "ponging", "closing" (writing the close frame), "leaving" the
             \* loop, "dropping" its channels, "ended"
  awaiting_completion, \* the end frame was written
  taken,     \* the command being written, until it is on the wire
  commands,  \* the command channel
  status,    \* the watch channel's value
  unseen,    \* the handle has not seen that value
  sender,    \* sender -> "idle", "sending" (in blocking_send) or "gone"
  sent,      \* sender -> envelopes it has tried to send
  finish,    \* the handle: "held", "ending", "waiting", "ok", "err", "dropped"
  accepted,  \* commands the channel has taken, in order
  frames,    \* what went out on the websocket after the handshake
  inbound,   \* what the backend sent and the client has not read
  received,  \* how many frames the backend has read
  backend,   \* "serving", "completed", or "gone" after an error or a close
  early,     \* the backend completed before it read the end frame
  noise      \* messages the backend sent without need

loopVars    == <<task, awaiting_completion, taken>>
statusVars  == <<status, unseen>>
channelVars == <<commands, accepted>>
clientVars  == <<socket, loopVars, statusVars, channelVars, frames>>
callerVars  == <<sender, sent, finish>>
backendVars == <<inbound, received, backend, early, noise>>
vars        == <<clientVars, callerVars, backendVars>>

End       == <<"end">>
Envelopes == {<<"signature", s, n>> : s \in Senders, n \in 1..PerSender}

Init ==
  /\ socket = "connecting"
  /\ task = "none"
  /\ awaiting_completion = FALSE
  /\ taken = <<>>
  /\ commands = <<>>
  /\ status = "Initializing"
  /\ unseen = FALSE
  /\ sender = [s \in Senders |-> "idle"]
  /\ sent = [s \in Senders |-> 0]
  /\ finish = "held"
  /\ accepted = <<>>
  /\ frames = <<>>
  /\ inbound = <<>>
  /\ received = 0
  /\ backend = "serving"
  /\ early = FALSE
  /\ noise = 0
-----------------------------------------------------------------------------
(***************************************************************************)
(* connect_stream and wait_for_start_ack.                                  *)
(***************************************************************************)
Handshake(from, to) ==
  /\ socket = from
  /\ socket' = to
  /\ UNCHANGED <<awaiting_completion, taken, channelVars, frames, callerVars>>
NotReady == UNCHANGED <<task, statusVars>>

Connect ==
  /\ Handshake("connecting", "start")
  /\ NotReady
  /\ UNCHANGED backendVars

\* The url, the connection, or the start message.
ConnectFails ==
  /\ Handshake("connecting", "refused")
  /\ NotReady
  /\ UNCHANGED backendVars

\* The next message is of one of these kinds, and is read.
Reads(kinds) ==
  /\ inbound # <<>>
  /\ Head(inbound) \in kinds
  /\ inbound' = Tail(inbound)
  /\ UNCHANGED <<received, backend, early, noise>>

\* A start_ack with a nonce of 32 bytes: status Ready, the loop is spawned.
StartAck ==
  /\ Handshake("start", "acked")
  /\ Reads({"start_ack"})
  /\ status' = "Ready"
  /\ unseen' = TRUE
  /\ task' = "select"

\* A completion that comes now is forgotten, too.
IgnoredInHandshake ==
  /\ Handshake("start", "start")
  /\ Reads({"noise", "ping", "completed"})
  /\ NotReady

\* A malformed nonce, an error, a close frame, the end of the socket, or a
\* pong that cannot be written.
HandshakeFails ==
  /\ Handshake("start", "refused")
  /\ Reads({"bad_ack", "error", "closed"}
             \cup (IF "write_error" \in Faults THEN {"ping"} ELSE {}))
  /\ NotReady

ConnectStream ==
  Connect \/ ConnectFails \/ StartAck \/ IgnoredInHandshake \/ HandshakeFails
-----------------------------------------------------------------------------
(***************************************************************************)
(* run_backend_loop: a select! without bias, and handlers that await their *)
(* writes.  While one does, nothing is read and no command is taken, but   *)
(* the channel goes on accepting.  The status channel keeps one value.     *)
(***************************************************************************)
LoopOnly == UNCHANGED <<socket, accepted, callerVars, backendVars>>

SetStatus(value) == status' = value /\ unseen' = TRUE

\* break
KeepsReading == "select"
Breaks       == "leaving"

Fails == SetStatus("Failed") /\ task' = Breaks

\* commands are received only while !awaiting_completion.
AlwaysListens == task = "select"
Listens       == task = "select" /\ ~awaiting_completion

TakeCommand ==
  /\ Listens
  /\ commands # <<>>
  /\ taken' = <<Head(commands)>>
  /\ commands' = Tail(commands)
  /\ task' = "writing"
  /\ UNCHANGED <<awaiting_completion, statusVars, frames>>
  /\ LoopOnly

\* The frame is on the wire: the backend may read and answer it before the
\* await of the write is over.
Transmit ==
  /\ task = "writing"
  /\ taken # <<>>
  /\ frames' = frames \o taken
  /\ taken' = <<>>
  /\ UNCHANGED <<task, awaiting_completion, statusVars, commands>>
  /\ LoopOnly

\* send_signature, or the write of the end frame, returns Ok.
WriteReturns ==
  /\ task = "writing"
  /\ taken = <<>>
  /\ awaiting_completion' = (frames[Len(frames)] = End)
  /\ task' = "select"
  /\ UNCHANGED <<taken, statusVars, commands, frames>>
  /\ LoopOnly

\* It errs, whether or not the frame went out.
WriteFails ==
  /\ "write_error" \in Faults
  /\ task = "writing"
  /\ Fails
  /\ taken' = <<>>
  /\ UNCHANGED <<awaiting_completion, commands, frames>>
  /\ LoopOnly

\* recv() gives None: the handle and every sender are gone.
AllGone ==
  /\ finish \in {"ok", "err", "dropped"}
  /\ \A s \in Senders : sender[s] = "gone"
ChannelClosed ==
  /\ Listens
  /\ commands = <<>>
  /\ AllGone
  /\ Fails
  /\ UNCHANGED <<awaiting_completion, taken, commands, frames>>
  /\ LoopOnly

LoopReads(kinds) ==
  /\ task = "select"
  /\ Reads(kinds)
  /\ UNCHANGED <<socket, awaiting_completion, taken, channelVars, frames, callerVars>>

\* The status is final before the close frame is written.
Completed ==
  /\ LoopReads({"completed"})
  /\ SetStatus("Completed")
  /\ task' = "closing"

BackendFails ==
  /\ LoopReads({"error", "closed"})
  /\ Fails

Ignored ==
  /\ LoopReads({"noise", "start_ack", "bad_ack"})
  /\ UNCHANGED <<task, statusVars>>

Ping ==
  /\ LoopReads({"ping"})
  /\ task' = "ponging"
  /\ UNCHANGED statusVars

TaskGoes(from, to) ==
  /\ task = from
  /\ task' = to
  /\ UNCHANGED <<awaiting_completion, taken, statusVars, frames>>
  /\ LoopOnly

\* A pong or a close frame that cannot be written is only logged.
PongReturns  == TaskGoes("ponging", "select") /\ UNCHANGED commands
CloseReturns == TaskGoes("closing", Breaks) /\ UNCHANGED commands

\* The function's parameters are dropped last to first: status_tx, and then
\* command_rx with what is queued in it.
StatusDropped   == TaskGoes("leaving", "dropping") /\ UNCHANGED commands
ReceiverDropped == TaskGoes("dropping", "ended") /\ commands' = <<>>

LoopEnds == StatusDropped \/ ReceiverDropped
Handles  == Completed \/ BackendFails \/ Ignored \/ Ping

RunBackendLoop ==
  TakeCommand \/ Transmit \/ WriteReturns \/ WriteFails \/ ChannelClosed
    \/ Handles \/ PongReturns \/ CloseReturns \/ LoopEnds
-----------------------------------------------------------------------------
(***************************************************************************)
(* The threads that send and the one that finishes.                        *)
(***************************************************************************)

\* A channel is closed when the task has dropped its end of it.  Until then a
\* full command channel makes senders wait, also when nothing is taken from it
\* any more.
StatusClosed == task \in {"dropping", "ended"}
ReceiverKept == FALSE
Closed       == task = "ended"
Room         == Len(commands) < Buffer

\* Where the channel puts a command.
Queued(c) == Append(commands, c)

Accepts(c) ==
  /\ ~Closed
  /\ Room
  /\ commands' = Queued(c)
  /\ accepted' = Append(accepted, c)
  /\ UNCHANGED <<socket, loopVars, statusVars, frames, backendVars>>

CallerOnly == UNCHANGED <<clientVars, backendVars>>

BlockingSend(s) ==
  /\ socket = "acked"
  /\ sender[s] = "idle"
  /\ sent[s] < PerSender
  /\ sender' = [sender EXCEPT ![s] = "sending"]
  /\ sent' = [sent EXCEPT ![s] = @ + 1]
  /\ UNCHANGED finish
  /\ CallerOnly

SendReturns(s) ==
  /\ sender[s] = "sending"
  /\ sender' = [sender EXCEPT ![s] = "idle"]
  /\ UNCHANGED <<sent, finish>>

SendAccepted(s) == SendReturns(s) /\ Accepts(<<"signature", s, sent[s]>>)
SendRefused(s)  == SendReturns(s) /\ Closed /\ CallerOnly

DropSender(s) ==
  /\ socket = "acked"
  /\ sender[s] = "idle"
  /\ sender' = [sender EXCEPT ![s] = "gone"]
  /\ UNCHANGED <<sent, finish>>
  /\ CallerOnly

Sender(s) == BlockingSend(s) \/ SendAccepted(s) \/ SendRefused(s) \/ DropSender(s)

Handle(from, to) ==
  /\ socket = "acked"
  /\ finish = from
  /\ finish' = to
  /\ UNCHANGED <<sender, sent>>

Finish     == Handle("held", "ending") /\ CallerOnly
DropHandle == Handle("held", "dropped") /\ CallerOnly

\* finish: the end command, as any other.
EndAccepted == Handle("ending", "waiting") /\ Accepts(End)
EndRefused  == Handle("ending", "err") /\ Closed /\ CallerOnly

\* status_rx.changed(), then the value, which is as good as one step: a value
\* set in between is read at once.  An unseen value comes before the news that
\* the channel is closed, which alone is an error.
OnlyLater == unseen /\ ~StatusClosed
Changed   == unseen

FirstChange == "ok"
Outcome ==
  CASE ~Changed                        -> "err"
    [] Changed /\ status = "Completed" -> "ok"
    [] Changed /\ status = "Failed"    -> "err"
    [] OTHER                           -> "waiting"

StatusChanged ==
  /\ Changed \/ StatusClosed
  /\ Handle("waiting", Outcome)
  /\ unseen' = FALSE
  /\ UNCHANGED <<socket, loopVars, status, channelVars, frames, backendVars>>

FinishStep == EndAccepted \/ EndRefused \/ StatusChanged
HandleStep == Finish \/ DropHandle \/ FinishStep
-----------------------------------------------------------------------------
(***************************************************************************)
(* The backend.                                                            *)
(***************************************************************************)
Connected == socket \in {"start", "acked"} /\ task # "ended"

Says(kind) ==
  /\ Connected
  /\ backend = "serving"
  /\ inbound' = Append(inbound, kind)
  /\ UNCHANGED <<clientVars, callerVars, received>>

\* The answer to the start message.
Acknowledge ==
  /\ socket = "start"
  /\ inbound = <<>>
  /\ \E kind \in {"start_ack", "bad_ack"} : Says(kind)
  /\ UNCHANGED <<backend, early, noise>>

Chatter ==
  /\ noise < MaxNoise
  /\ noise' = noise + 1
  /\ \E kind \in {"noise", "ping"} : Says(kind)
  /\ UNCHANGED <<backend, early>>

ReadFrame ==
  /\ backend = "serving"
  /\ received < Len(frames)
  /\ received' = received + 1
  /\ UNCHANGED <<clientVars, callerVars, inbound, backend, early, noise>>

EndRead == received > 0 /\ frames[received] = End

Complete ==
  /\ EndRead \/ "early_completion" \in Faults
  /\ Says("completed")
  /\ backend' = "completed"
  /\ early' = ~EndRead
  /\ UNCHANGED noise

Reject ==
  /\ "backend_error" \in Faults
  /\ Says("error")
  /\ backend' = "gone"
  /\ UNCHANGED <<early, noise>>

\* A close frame, or the socket errs or ends; a backend that completed does
\* so too.
Close ==
  /\ "close" \in Faults \/ backend = "completed"
  /\ Connected
  /\ backend \in {"serving", "completed"}
  /\ backend' = "gone"
  /\ inbound' = Append(inbound, "closed")
  /\ UNCHANGED <<clientVars, callerVars, received, early, noise>>

Backend == Acknowledge \/ Chatter \/ ReadFrame \/ Complete \/ Reject \/ Close

\* The connection is over; that the calls still in progress return is for
\* the liveness properties to say.
Over == (socket = "refused" \/ task = "ended") /\ UNCHANGED vars

Next ==
  ConnectStream \/ RunBackendLoop \/ (\E s \in Senders : Sender(s))
    \/ HandleStep \/ Backend \/ Over

\* The task runs whenever it does not wait for the network, and so do the
\* calls that wait for the task.  Nothing is asked of the backend or of the
\* network: that a write is taken, that a message comes, or that one fails.
\* None of these waits has a timeout.
Fairness ==
  /\ WF_vars(TakeCommand)
  /\ WF_vars(Handles)
  /\ WF_vars(ChannelClosed)
  /\ WF_vars(LoopEnds)
  /\ WF_vars(FinishStep)
  /\ \A s \in Senders : WF_vars(SendAccepted(s) \/ SendRefused(s))

Spec     == Init /\ [][Next]_vars
FairSpec == Spec /\ Fairness
-----------------------------------------------------------------------------
(***************************************************************************)
(* Properties                                                              *)
(***************************************************************************)
Commands == Envelopes \cup {End}
Kinds    == {"start_ack", "bad_ack", "noise", "ping", "completed", "error", "closed"}

TypeOK ==
  /\ socket \in {"connecting", "start", "acked", "refused"}
  /\ task \in {"none", "select", "writing", "ponging", "closing", "leaving",
               "dropping", "ended"}
  /\ taken \in {<<>>} \cup {<<c>> : c \in Commands}
  /\ commands \in Seq(Commands) /\ Len(commands) <= Buffer
  /\ status \in {"Initializing", "Ready", "Completed", "Failed"}
  /\ {unseen, early, awaiting_completion} \subseteq BOOLEAN
  /\ sender \in [Senders -> {"idle", "sending", "gone"}]
  /\ sent \in [Senders -> 0..PerSender]
  /\ finish \in {"held", "ending", "waiting", "ok", "err", "dropped"}
  /\ {accepted, frames} \subseteq Seq(Commands)
  /\ received \in 0..Len(frames)
  /\ inbound \in Seq(Kinds)
  /\ backend \in {"serving", "completed", "gone"}
  /\ noise \in 0..MaxNoise

\* The outcome is known: the loop is left, or will be after the close frame.
Final == status \in {"Completed", "Failed"}
Left  == task \in {"closing", "leaving", "dropping", "ended"}

\* The backend gets the commands in the order the channel took them, from
\* whatever threads; none is missed until the loop is left, and nothing
\* follows the end frame.
FramesFollowCommands ==
  /\ Len(frames) <= Len(accepted)
  /\ frames = SubSeq(accepted, 1, Len(frames))
  /\ task \notin {"leaving", "dropping", "ended"}
       => (frames \o taken) \o commands = accepted
  /\ \A i \in 1..Len(frames) : frames[i] = End => i = Len(frames)

\* The task runs once the handshake is done, nothing is sent before that, and
\* the status is final exactly when nothing is read any more.
TaskFollowsSocket ==
  /\ socket = "acked" <=> task # "none"
  /\ task = "none" => accepted = <<>> /\ frames = <<>> /\ commands = <<>>
  /\ Left <=> Final
  /\ taken # <<>> => task = "writing"
  /\ task \in {"none", "writing"} => ~awaiting_completion
  /\ \A s \in Senders : sender[s] = "sending" => task # "none" /\ sent[s] > 0

\* The end frame stops the forwarding, and the end command is finish's own.
EndIsLast ==
  /\ \A i \in 1..Len(frames) :
       frames[i] = End =>
         awaiting_completion \/ Left \/ (task = "writing" /\ taken = <<>>)
  /\ \A i \in 1..Len(accepted) :
       accepted[i] = End => finish \in {"waiting", "ok", "err"}

\* A completion, on its way or taken note of, came early or after the end
\* frame was read.
CompletionFollowsEnd ==
  /\ (\/ status = "Completed" \/ backend = "completed"
      \/ \E i \in 1..Len(inbound) : inbound[i] = "completed")
     => early \/ EndRead
  /\ early => backend # "serving"

\* A final status stays unseen until finish takes it, and none errs while the
\* task may still end well.
FinishIsInformed ==
  /\ finish \in {"held", "ending", "waiting"} /\ Final => unseen
  /\ finish = "err" => status = "Failed" \/ Closed

\* The types, and the order of commands, frames, completion and outcome.
StreamInv ==
  /\ TypeOK
  /\ FramesFollowCommands
  /\ TaskFollowsSocket
  /\ EndIsLast
  /\ CompletionFollowsEnd
  /\ FinishIsInformed

\* When finish returns Ok and the backend did wait for the end frame, every
\* envelope a sender was told Ok for before finish sent the end command has
\* been read by the backend.
ReadByBackend == {frames[i] : i \in 1..received}
OkMeansReceived ==
  finish = "ok" /\ ~early =>
    \E e \in 1..Len(accepted) :
      /\ accepted[e] = End
      /\ \A i \in 1..e : accepted[i] \in ReadByBackend

\* finish reports the outcome of the run: Ok only of a completed one, and an
\* error of a completed one only when it completed before it was asked to and
\* the task was over by the time of the end command.  A completion announced
\* just before the status channel closes is not lost.
OutcomeIsReported ==
  /\ finish = "ok" => status = "Completed"
  /\ finish = "err" /\ status = "Completed" => early

\* The first outcome stands: a close frame that follows a completion does not
\* turn it into a failure.
OutcomeIsFinal ==
  [][Final => status' = status]_vars

\* What finish and the senders may have to wait for, without a timeout: a
\* backend that has not told the outcome and takes no frame, or says nothing
\* after the end frame; and one that told it and does not take the close frame.
Silent ==
  /\ ~Final
  /\ task \in {"writing", "ponging"} \/ (awaiting_completion /\ inbound = <<>>)
CloseUntaken == task = "closing"

OutcomeArrives == finish = "waiting" ~> finish # "waiting"
CommandsReturn ==
  /\ finish = "ending" ~> finish # "ending"
  /\ \A s \in Senders : sender[s] = "sending" ~> sender[s] # "sending"

\* For nothing else: with an outcome, early or late, good or bad, finish returns,
\* and once the close frame is gone so does every call that waits for room in
\* a channel from which nothing is taken any more.
NobodyStaysBlocked ==
  \/ <>[]Silent
  \/ (OutcomeArrives /\ (CommandsReturn \/ <>[]CloseUntaken))
=============================================================================
