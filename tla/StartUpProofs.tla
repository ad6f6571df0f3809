---------------------------- MODULE StartUpProofs ----------------------------
(***************************************************************************)
(* Proofs about StartUp, for any configurations a user may write and any   *)
(* number of starts, edits and crashes: what a run is based on, and that   *)
(* its transactions can be told apart and attributed when they come back.  *)
(***************************************************************************)
EXTENDS StartUp, FiniteSetTheorems, SequenceTheorems, TLAPS

(***************************************************************************)
(* The file and the configuration in it.                                   *)
(***************************************************************************)
LEMMA FileForms ==
  /\ Garbled # <<>>
  /\ \A c : Holding(c) # <<>> /\ Holding(c) # Garbled /\ Holding(c)[2] = c
  /\ \A c, d : Holding(c) = Holding(d) => c = d
  BY DEF Garbled, Holding

\* The segments of names.  (That a string is in STRING is nothing the provers
\* know.)
Segments == STRING \cup {"rpc-a", "rpc-b"}
SomeEndpoint ==
  [name : Seq(Segments), kind : {"rpc", "custom", "soyas"}, tip_lamports : Nat,
   tip_wallet : {None, "good", "bad"}, api_key : {None, "good", "bad"}]

\* What any file may hold has endpoints of the three kinds, and ours no key.
LEMMA KnownFacts ==
  /\ \A c \in Known : c.endpoint \in Seq(SomeEndpoint)
  /\ DefaultConfig.private_key = "bad" /\ OneEndpointLeft.private_key = "bad"
  <1>1. RpcEndpoint("rpc-a") \in SomeEndpoint /\ RpcEndpoint("rpc-b") \in SomeEndpoint
    <2>1. \A S : \A name \in S : <<name>> \in Seq(S)
      OBVIOUS
    <2>2. <<"rpc-a">> \in Seq(Segments) /\ <<"rpc-b">> \in Seq(Segments)
      <3>1. "rpc-a" \in Segments /\ "rpc-b" \in Segments
        BY DEF Segments
      <3> QED
        BY <2>1, <3>1
    <2> QED
      BY <2>2 DEF RpcEndpoint, SomeEndpoint, None
  <1>2. /\ <<RpcEndpoint("rpc-a"), RpcEndpoint("rpc-b")>> \in Seq(SomeEndpoint)
        /\ <<RpcEndpoint("rpc-a")>> \in Seq(SomeEndpoint)
    BY <1>1
  <1>3. /\ DefaultConfig.endpoint \in Seq(SomeEndpoint)
        /\ OneEndpointLeft.endpoint \in Seq(SomeEndpoint)
        /\ DefaultConfig.private_key = "bad" /\ OneEndpointLeft.private_key = "bad"
    BY <1>2 DEF DefaultConfig, OneEndpointLeft, Placeholders
  <1>4. \A c \in Configurations : c.endpoint \in Seq(SomeEndpoint)
    <2>1. Seq(STRING) \subseteq Seq(Segments)
      BY SeqMonotonic DEF Segments
    <2>2. Endpoint \subseteq SomeEndpoint
      BY <2>1 DEF Endpoint, SomeEndpoint
    <2>3. Seq(Endpoint) \subseteq Seq(SomeEndpoint)
      BY <2>2, SeqMonotonic
    <2> QED
      BY <2>3, StartUpAssumption DEF Configuration
  <1> QED
    BY <1>3, <1>4 DEF Known

LEMMA StepCases ==
  ASSUME [Next]_vars
  PROVE  \/ FindNoFile \/ FindFile \/ LoadFails \/ Load \/ Truncate \/ WriteDefault \/ WriteFails
         \/ SetUp \/ Finish \/ Dies
         \/ \E i \in DOMAIN Endpoints, nonce_hash \in Nonces, clock \in Clock :
              Build(i, nonce_hash, clock)
         \/ \E content \in Written : Edit(content)
         \/ UNCHANGED vars
  BY DEF Next, LoadOrCreate

\* What a configuration that is loaded looks like.
LEMMA LoadedFacts ==
  ASSUME TypeOK, config # <<>>
  PROVE  /\ config[1] \in Known /\ config = <<config[1]>>
         /\ Endpoints \in Seq(SomeEndpoint) /\ Len(Endpoints) \in Nat
         /\ DOMAIN Endpoints = 1..Len(Endpoints)
  <1>1. PICK c \in Known : config = <<c>>
    BY DEF TypeOK
  <1>2. c.endpoint \in Seq(SomeEndpoint)
    BY KnownFacts
  <1> QED
    BY <1>1, <1>2, LenProperties DEF Endpoints

\* What a start resets.
LEMMA StartFacts ==
  ASSUME FindNoFile \/ FindFile
  PROVE  /\ starts < MaxStarts /\ starts' = starts + 1
         /\ config' = <<>> /\ next' = 1 /\ counter' = 0 /\ built' = <<>>
         /\ UNCHANGED <<file, edited, edits>>
         /\ process' = (IF file # <<>> THEN "loading" ELSE "creating")
  BY DEF FindNoFile, FindFile, Start, FileUnchanged, Exists

\* What loading, creating, checking and dying leave alone.
LEMMA CheckFrame ==
  ASSUME \/ LoadFails \/ Load \/ Truncate \/ WriteDefault \/ WriteFails
         \/ SetUp \/ Finish \/ Dies
  PROVE  UNCHANGED <<counter, built, starts, edited, edits>>
  BY DEF LoadFails, Load, Truncate, WriteDefault, WriteFails, SetUp, Finish, Dies, Validate, DecodeKey,
         ParseNonce, ListenerReady, ListenerFails, Check, PassOver, Connect, Advance, ConnectFails,
         ConnectPanics, Connected, RunUnchanged, FileUnchanged

LEMMA SetUpFrame ==
  ASSUME SetUp \/ Finish \/ Dies
  PROVE  /\ UNCHANGED <<config, file>>
         /\ next' = next \/ (process = "connecting" /\ next' = next + 1 /\ next <= Len(Endpoints))
         /\ process' \in Processes
  BY DEF SetUp, Finish, Dies, Validate, DecodeKey, ParseNonce, ListenerReady, ListenerFails, Check,
         PassOver, Connect, Passes, Awaits, Advance, ConnectFails, ConnectPanics, Connected, Goto,
         RunUnchanged, FileUnchanged, Processes, Over, Loaded
-----------------------------------------------------------------------------
(***************************************************************************)
(* Types.                                                                  *)
(***************************************************************************)

\* One more transaction.
LEMMA BuildFacts ==
  ASSUME TypeOK, NEW i, NEW nonce_hash, NEW clock, Build(i, nonce_hash, clock)
  PROVE  /\ process = "running" /\ counter < MaxBuilt
         /\ counter \in Nat /\ counter' = counter + 1 /\ counter = Len(built)
         /\ built' \in Seq({built'[k] : k \in DOMAIN built'})
         /\ Len(built') = counter + 1 /\ DOMAIN built' = 1..(counter + 1)
         /\ DOMAIN built = 1..counter
         /\ \A k \in DOMAIN built : built'[k] = built[k]
         /\ built'[counter + 1] = Transaction(i, nonce_hash, clock, counter)
         /\ UNCHANGED <<file, edited, edits, process, config, next, starts>>
  <1> DEFINE x == Transaction(i, nonce_hash, clock, counter)
             S == {built[k] : k \in DOMAIN built} \cup {x}
  <1>1. /\ process = "running" /\ Len(built) < MaxBuilt /\ counter' = counter + 1
        /\ built' = Append(built, x)
        /\ UNCHANGED <<file, edited, edits, process, config, next, starts>>
    BY DEF Build, FileUnchanged
  <1>2. built \in Seq({built[k] : k \in DOMAIN built}) /\ counter = Len(built)
    BY DEF TypeOK
  <1>3. built \in Seq(S) /\ x \in S
    BY <1>2, SeqMonotonic
  <1> HIDE DEF x, S
  <1>4. /\ built' \in Seq(S) /\ Len(built') = Len(built) + 1
        /\ \A k \in 1..Len(built) : built'[k] = built[k]
        /\ built'[Len(built) + 1] = x
    BY <1>1, <1>3, AppendProperties
  <1>5. Len(built) \in Nat /\ DOMAIN built = 1..Len(built) /\ DOMAIN built' = 1..Len(built')
    BY <1>3, <1>4, LenProperties
  <1>6. built' \in Seq(Range(built'))
    BY <1>4, SeqOfRange
  <1>7. Range(built') = {built'[k] : k \in DOMAIN built'}
    BY DEF Range
  <1> QED
    BY <1>1, <1>2, <1>4, <1>5, <1>6, <1>7 DEF x

LEMMA TypeStep ==
  ASSUME TypeOK, ConfigIsChecked, [Next]_vars
  PROVE  TypeOK'
  <1>1. /\ {MaxStarts, MaxEdits, MaxBuilt} \subseteq Nat
        /\ counter \in Nat /\ counter <= MaxBuilt /\ next \in Nat \ {0}
    <2>1. Len(built) \in Nat
      BY LenProperties DEF TypeOK
    <2> QED
      BY <2>1, StartUpAssumption DEF TypeOK
  <1>2. CASE FindNoFile \/ FindFile
    <2>1. built' = <<>>
      BY <1>2, StartFacts
    <2>2. built' \in Seq({built'[k] : k \in DOMAIN built'}) /\ Len(built') = 0
      <3>1. \A S : <<>> \in Seq(S)
        OBVIOUS
      <3> QED
        BY <2>1, <3>1
    <2> QED
      BY <1>1, <1>2, <2>2, StartFacts DEF TypeOK, Processes
  <1>3. CASE LoadFails \/ Load \/ Truncate \/ WriteDefault \/ WriteFails
    <2>1. file' \in {file, Garbled, Holding(OneEndpointLeft), Holding(DefaultConfig)}
      BY <1>3 DEF LoadFails, Load, Truncate, WriteDefault, WriteFails, FileUnchanged
    <2>2. config' \in {<<>>} \cup {<<c>> : c \in Known}
      <3>1. CASE Load
        <4>1. process = "loading" /\ file # Garbled /\ config' = <<file[2]>>
          BY <3>1 DEF Load, Goto
        <4>2. PICK c \in Known : file = Holding(c)
          BY <4>1 DEF ConfigIsChecked, TypeOK
        <4> QED
          BY <4>1, <4>2, FileForms
      <3>2. CASE ~Load
        BY <1>3, <3>2 DEF LoadFails, Truncate, WriteDefault, WriteFails, TypeOK, Known
      <3> QED
        BY <3>1, <3>2
    <2>3. process' \in Processes /\ next' = next
      BY <1>3 DEF LoadFails, Load, Truncate, WriteDefault, WriteFails, Goto, RunUnchanged, Processes,
                  Over, Loaded
    <2> QED
      BY <1>1, <1>3, <2>1, <2>2, <2>3, CheckFrame DEF TypeOK, Known
  <1>4. CASE SetUp \/ Finish \/ Dies
    BY <1>1, <1>4, SetUpFrame, CheckFrame DEF TypeOK
  <1>5. ASSUME NEW i, NEW nonce_hash, NEW clock, Build(i, nonce_hash, clock) PROVE TypeOK'
    <2>1. /\ counter < MaxBuilt /\ counter' = counter + 1 /\ Len(built') = counter + 1
          /\ counter \in Nat /\ MaxBuilt \in Nat
      BY <1>1, <1>5, BuildFacts
    <2>2. counter' <= MaxBuilt /\ counter' = Len(built')
      BY <2>1
    <2> QED
      BY <1>5, <2>2, BuildFacts DEF TypeOK
  <1>6. ASSUME NEW content \in Written, Edit(content) PROVE TypeOK'
    <2>1. /\ edits < MaxEdits /\ edits' = edits + 1 /\ file' = content /\ edited' = content
          /\ UNCHANGED <<process, config, next, counter, built, starts>>
      BY <1>6 DEF Edit
    <2>2. edits' \in 0..MaxEdits
      BY <1>1, <2>1 DEF TypeOK
    <2>3. content \in {Garbled} \cup {Holding(c) : c \in Known}
      BY DEF Written, Known
    <2> QED
      BY <1>1, <2>1, <2>2, <2>3 DEF TypeOK
  <1>7. CASE UNCHANGED vars
    BY <1>7 DEF vars, TypeOK
  <1> QED
    BY <1>2, <1>3, <1>4, <1>5, <1>6, <1>7, StepCases
-----------------------------------------------------------------------------
(***************************************************************************)
(* What main has checked, and whose file it is.                            *)
(***************************************************************************)
LEMMA UserFileStep ==
  ASSUME ConfigIsChecked, UserFileIsKept, [Next]_vars
  PROVE  UserFileIsKept'
  <1>1. CASE UNCHANGED <<file, edited>>
    BY <1>1 DEF UserFileIsKept
  <1>2. CASE Truncate \/ WriteDefault \/ WriteFails
    <2>1. process = "writing" \/ file = <<>>
      BY <1>2 DEF Truncate, WriteDefault, WriteFails, Goto, ConfigIsChecked
    <2>2. edited = <<>>
      BY <2>1 DEF ConfigIsChecked, UserFileIsKept
    <2>3. file' \in {Garbled, Holding(DefaultConfig), Holding(OneEndpointLeft)} /\ edited' = edited
      BY <1>2, CheckFrame DEF Truncate, WriteDefault, WriteFails
    <2> QED
      BY <2>2, <2>3 DEF UserFileIsKept
  <1>3. ASSUME NEW content \in Written, Edit(content) PROVE UserFileIsKept'
    <2>1. file' = content /\ edited' = content
      BY <1>3 DEF Edit
    <2>2. content # <<>>
      BY FileForms DEF Written
    <2> QED
      BY <2>1, <2>2 DEF UserFileIsKept
  <1>4. LoadFails \/ Load => UNCHANGED <<file, edited>>
    BY DEF LoadFails, Load, FileUnchanged
  <1>5. FindNoFile \/ FindFile => UNCHANGED <<file, edited>>
    BY StartFacts
  <1>6. SetUp \/ Finish \/ Dies => UNCHANGED <<file, edited>>
    BY SetUpFrame, CheckFrame
  <1>7. ASSUME NEW i, NEW nonce_hash, NEW clock, Build(i, nonce_hash, clock)
        PROVE  UNCHANGED <<file, edited>>
    BY <1>7 DEF Build, FileUnchanged
  <1>8. UNCHANGED vars => UNCHANGED <<file, edited>>
    BY DEF vars
  <1> QED
    BY <1>1, <1>2, <1>3, <1>4, <1>5, <1>6, <1>7, <1>8, StepCases

LEMMA CheckedStep ==
  ASSUME TypeOK, ConfigIsChecked, UserFileIsKept, [Next]_vars
  PROVE  ConfigIsChecked'
  <1>1. CASE FindNoFile \/ FindFile
    BY <1>1, StartFacts DEF ConfigIsChecked, Over, Loaded
  <1>2. CASE LoadFails \/ Truncate \/ WriteFails
    <2>1. Truncate => edited = <<>>
      BY DEF Truncate, Goto, ConfigIsChecked, UserFileIsKept
    <2> QED
      BY <1>2, <2>1
      DEF LoadFails, Truncate, WriteFails, Goto, RunUnchanged, ConfigIsChecked, Over, Loaded
  <1>3. CASE Load
    <2>1. /\ process = "loading" /\ process' = "loaded" /\ file # Garbled /\ config' = <<file[2]>>
          /\ file' = file /\ next' = next
      BY <1>3 DEF Load, Goto, FileUnchanged, RunUnchanged
    <2>2. PICK c \in Known : file = Holding(c)
      BY <2>1 DEF ConfigIsChecked, TypeOK
    <2>3. config' # <<>> /\ config'[1] = c /\ file' = Holding(c)
      BY <2>1, <2>2, FileForms
    <2> QED
      BY <2>1, <2>3 DEF ConfigIsChecked, Over, Loaded
  <1>4. CASE WriteDefault
    <2>1. /\ process = "writing" /\ process' = "loaded" /\ file' = Holding(DefaultConfig)
          /\ config' = <<DefaultConfig>> /\ next' = next
      BY <1>4 DEF WriteDefault, Goto, RunUnchanged
    <2> QED
      BY <2>1 DEF ConfigIsChecked, Over, Loaded
  <1>5. CASE SetUp \/ Finish \/ Dies
    <2>1. UNCHANGED <<config, file>> /\ Endpoints' = Endpoints
      BY <1>5, SetUpFrame DEF Endpoints
    <2>2. CASE process' \in Over
      BY <2>2 DEF ConfigIsChecked, Over, Loaded
    <2>3. CASE PassOver \/ Connect
      <3>1. /\ process = "connecting" /\ process' = "connecting"
            /\ next' = next + 1 /\ next <= Len(Endpoints)
        BY <2>3 DEF PassOver, Connect, Passes, Awaits, Advance
      <3>2. next' <= Len(Endpoints) + 1
        <4>1. next \in Nat /\ Len(Endpoints) \in Nat
          BY <3>1, LoadedFacts DEF TypeOK, ConfigIsChecked, Loaded
        <4> QED
          BY <3>1, <4>1
      <3> QED
        BY <2>1, <3>1, <3>2 DEF ConfigIsChecked, Over, Loaded
    <2>4. CASE (Validate \/ DecodeKey \/ ParseNonce \/ ListenerReady) /\ process' # "failed"
      <3>1. next' = next
        BY <2>4 DEF Validate, DecodeKey, ParseNonce, ListenerReady, Check, RunUnchanged
      <3>2. \/ process = "loaded" /\ process' = "validated" /\ ValidConfig(config[1])
            \/ process = "validated" /\ process' = "keyed" /\ config[1].private_key = "good"
            \/ process = "keyed" /\ process' = "waiting"
            \/ process = "waiting" /\ process' = "connecting"
        BY <2>4 DEF Validate, DecodeKey, ParseNonce, ListenerReady, Check, Goto, KeyDecodes
      <3>3. next = 1
        BY <3>2 DEF ConfigIsChecked, Over
      <3>4. Len(Endpoints) \in Nat
        BY <3>2, LoadedFacts DEF ConfigIsChecked, Loaded
      <3> QED
        BY <2>1, <3>1, <3>2, <3>3, <3>4 DEF ConfigIsChecked, Over, Loaded
    <2>5. CASE Connected
      <3>1. process = "connecting" /\ process' = "running" /\ next' = next
        BY <2>5 DEF Connected, Goto, RunUnchanged
      <3> QED
        BY <2>1, <3>1 DEF ConfigIsChecked, Over, Loaded
    <2> QED
      BY <1>5, <2>2, <2>3, <2>4, <2>5
      DEF SetUp, Finish, Dies, Validate, DecodeKey, ParseNonce, ListenerReady, ListenerFails, Check,
          ConnectFails, ConnectPanics, Goto, Over
  <1>6. ASSUME NEW i, NEW nonce_hash, NEW clock, Build(i, nonce_hash, clock)
        PROVE  ConfigIsChecked'
    BY <1>6, BuildFacts DEF ConfigIsChecked, Endpoints
  <1>7. ASSUME NEW content \in Written, Edit(content) PROVE ConfigIsChecked'
    BY <1>7 DEF Edit, ConfigIsChecked, Over, Loaded
  <1>8. CASE UNCHANGED vars
    BY <1>8 DEF vars, ConfigIsChecked, Endpoints
  <1> QED
    BY <1>1, <1>2, <1>3, <1>4, <1>5, <1>6, <1>7, <1>8, StepCases
-----------------------------------------------------------------------------
(***************************************************************************)
(* What has been built.                                                    *)
(***************************************************************************)
LEMMA BuiltStep ==
  ASSUME TypeOK, ConfigIsChecked, BuiltInTurn, [Next]_vars
  PROVE  BuiltInTurn'
  <1>1. ASSUME UNCHANGED <<config, built>>, built # <<>> => process' \in Over \cup {"running"}
        PROVE  BuiltInTurn'
    BY <1>1 DEF BuiltInTurn, Endpoints, Transaction
  <1>2. ASSUME built' = <<>> PROVE BuiltInTurn'
    <2>1. DOMAIN built' = {}
      BY <1>2
    <2> QED
      BY <1>2, <2>1 DEF BuiltInTurn
  <1>3. CASE FindNoFile \/ FindFile
    BY <1>2, <1>3, StartFacts
  <1>4. CASE LoadFails \/ Load \/ Truncate \/ WriteDefault \/ WriteFails
    <2>1. process \in {"creating", "loading", "writing"}
      BY <1>4 DEF LoadFails, Load, Truncate, WriteDefault, WriteFails, Goto
    <2>2. built = <<>>
      BY <2>1 DEF BuiltInTurn, Over
    <2> QED
      BY <1>2, <1>4, <2>2, CheckFrame
  <1>5. CASE SetUp \/ Finish \/ Dies
    <2>1. process' \in Over \/ process \notin Over \cup {"running"}
      BY <1>5 DEF SetUp, Finish, Dies, Validate, DecodeKey, ParseNonce, ListenerReady, ListenerFails,
                  Check, PassOver, Connect, ConnectFails, ConnectPanics, Connected, Goto, Over
    <2>2. built # <<>> => process' \in Over
      BY <2>1 DEF BuiltInTurn
    <2> QED
      BY <1>1, <1>5, <2>2, SetUpFrame, CheckFrame
  <1>6. ASSUME NEW i \in DOMAIN Endpoints, NEW nonce_hash \in Nonces, NEW clock \in Clock,
               Build(i, nonce_hash, clock)
        PROVE  BuiltInTurn'
    <2>1. /\ process = "running" /\ process' = process /\ config' = config
          /\ counter \in Nat /\ DOMAIN built' = 1..(counter + 1) /\ DOMAIN built = 1..counter
          /\ \A k \in DOMAIN built : built'[k] = built[k]
          /\ built'[counter + 1] = Transaction(i, nonce_hash, clock, counter)
      BY <1>6, BuildFacts
    <2>2. config # <<>> /\ ValidConfig(config[1])
      BY <2>1 DEF ConfigIsChecked, Loaded
    <2>3. ASSUME NEW k \in DOMAIN built'
          PROVE  \E j \in DOMAIN Endpoints, n \in Nonces, t \in Clock :
                   built'[k] = Transaction(j, n, t, k - 1)
      <3>1. CASE k \in DOMAIN built
        BY <2>1, <3>1 DEF BuiltInTurn
      <3>2. CASE k = counter + 1
        <4>1. k - 1 = counter
          BY <2>1, <3>2
        <4> QED
          BY <2>1, <3>2, <4>1
      <3> QED
        BY <2>1, <3>1, <3>2
    <2>4. \A j, n, t, c : Transaction(j, n, t, c)' = Transaction(j, n, t, c)
      BY <2>1 DEF Transaction, Endpoints
    <2>5. Endpoints' = Endpoints
      BY <2>1 DEF Endpoints
    <2> QED
      BY <2>1, <2>2, <2>3, <2>4, <2>5 DEF BuiltInTurn, Over
  <1>7. ASSUME NEW content \in Written, Edit(content) PROVE BuiltInTurn'
    BY <1>1, <1>7 DEF Edit
  <1>8. CASE UNCHANGED vars
    BY <1>1, <1>8 DEF vars, BuiltInTurn
  <1> QED
    BY <1>3, <1>4, <1>5, <1>6, <1>7, <1>8, StepCases

LEMMA StartUpInit == Init => StartUpInv
  <1> SUFFICES ASSUME Init PROVE StartUpInv
    OBVIOUS
  <1>1. /\ MaxStarts \in Nat /\ MaxEdits \in Nat /\ MaxBuilt \in Nat
        /\ built = <<>> /\ DOMAIN built = {} /\ Len(built) = 0 /\ counter = 0
    BY StartUpAssumption DEF Init
  <1>2. built \in Seq({built[k] : k \in DOMAIN built})
    <2>1. \A S : <<>> \in Seq(S)
      OBVIOUS
    <2> QED
      BY <1>1, <2>1
  <1>3. TypeOK
    BY <1>1, <1>2 DEF Init, TypeOK, Processes, Over
  <1>4. ConfigIsChecked
    BY DEF Init, ConfigIsChecked, Over, Loaded
  <1>5. BuiltInTurn
    BY <1>1 DEF BuiltInTurn
  <1>6. UserFileIsKept
    BY DEF Init, UserFileIsKept
  <1> QED
    BY <1>3, <1>4, <1>5, <1>6 DEF StartUpInv

\* The types, whose file it is, what main has checked of it, and what it has
\* built from it, however often the program is started, killed and edited for.
THEOREM StartUpInvariant == Spec => []StartUpInv
  <1>1. StartUpInv /\ [Next]_vars => StartUpInv'
    BY TypeStep, CheckedStep, BuiltStep, UserFileStep DEF StartUpInv
  <1> QED
    BY <1>1, StartUpInit, PTL DEF Spec

\* Once past the private key main works on what the user has written last: our
\* own files have no key that decodes, and nobody else writes files.
THEOREM NeverRunsOnDefaults == Spec => []RunsOnUserConfig
  <1>1. StartUpInv => RunsOnUserConfig
    <2> SUFFICES ASSUME StartUpInv, process \in {"waiting", "connecting", "running"}
                 PROVE  edited = Holding(config[1])
      BY DEF RunsOnUserConfig
    <2>1. TypeOK /\ ConfigIsChecked /\ UserFileIsKept
      BY DEF StartUpInv
    <2>2. /\ config # <<>> /\ file = Holding(config[1]) /\ config[1].private_key = "good"
          /\ config = <<config[1]>>
      BY <2>1, LoadedFacts DEF ConfigIsChecked, Loaded
    <2>3. file \notin {<<>>, Garbled, Holding(DefaultConfig), Holding(OneEndpointLeft)}
      BY <2>2, FileForms, KnownFacts
    <2>4. file = edited
      BY <2>1, <2>3 DEF UserFileIsKept
    <2> QED
      BY <2>2, <2>4
  <1> QED
    BY <1>1, StartUpInvariant, PTL

\* What is built came from an endpoint of the loaded configuration.
LEMMA BuiltFacts ==
  ASSUME StartUpInv, NEW k \in DOMAIN built
  PROVE  \E i \in DOMAIN Endpoints, nonce_hash \in Nonces, clock \in Clock :
           /\ built[k] = Transaction(i, nonce_hash, clock, k - 1)
           /\ built[k].endpoint = i
           /\ built[k].error = TipError(Endpoints[i])
           /\ Endpoints[i] \in SomeEndpoint /\ Complete(Endpoints[i])
           /\ built[k].message =
                IF TipError(Endpoints[i]) = None
                THEN <<Message(BuildInstructions(Endpoints[i], config[1].prio_fee,
                                 RandomPayload(Endpoints[i].name, clock, k - 1)), nonce_hash)>>
                ELSE <<>>
  <1>1. PICK i \in DOMAIN Endpoints, nonce_hash \in Nonces, clock \in Clock :
          built[k] = Transaction(i, nonce_hash, clock, k - 1)
    BY DEF StartUpInv, BuiltInTurn
  <1>2. built # <<>>
    OBVIOUS
  <1>3. config # <<>> /\ Complete(Endpoints[i])
    BY <1>2 DEF StartUpInv, BuiltInTurn, ValidConfig, Endpoints
  <1>4. Endpoints \in Seq(SomeEndpoint)
    BY <1>3, LoadedFacts DEF StartUpInv
  <1>5. Endpoints[i] \in SomeEndpoint
    BY <1>4
  <1> QED
    BY <1>1, <1>3, <1>5 DEF Transaction

\* A configuration that validate_config let through leaves build_instructions
\* nothing to fail on but a tip wallet that is no address.
THEOREM OnlyBadWallets == Spec => []OnlyBadWalletsFail
  <1>1. StartUpInv => OnlyBadWalletsFail
    <2> SUFFICES ASSUME StartUpInv, NEW k \in DOMAIN built, built[k].error # None
                 PROVE  /\ built[k].error = "invalid tip_wallet"
                        /\ Endpoints[built[k].endpoint].tip_wallet = "bad"
      BY DEF OnlyBadWalletsFail
    <2>1. PICK i \in DOMAIN Endpoints :
            /\ built[k].endpoint = i /\ built[k].error = TipError(Endpoints[i])
            /\ Endpoints[i] \in SomeEndpoint /\ Complete(Endpoints[i])
      BY BuiltFacts
    <2>2. ASSUME NEW e \in SomeEndpoint, Complete(e), TipError(e) # None
          PROVE  TipError(e) = "invalid tip_wallet" /\ e.tip_wallet = "bad"
      BY <2>2 DEF SomeEndpoint, Complete, TipError, Tips, None
    <2> QED
      BY <2>1, <2>2
  <1> QED
    BY <1>1, StartUpInvariant, PTL
-----------------------------------------------------------------------------
(***************************************************************************)
(* From the instructions of a transaction to the memo found in it.         *)
(***************************************************************************)

\* Message::new loses nothing of the instructions: the index it gives each
\* leads back to its program.
LEMMA MessageFacts ==
  ASSUME NEW n \in Nat, NEW instrs, DOMAIN instrs = 1..n, NEW nonce_hash
  PROVE  LET m == Message(instrs, nonce_hash)
         IN /\ DOMAIN m.instructions = 1..n
            /\ \A i \in 1..n :
                 /\ m.instructions[i].program_id_index \in DOMAIN m.account_keys
                 /\ m.account_keys[m.instructions[i].program_id_index] = instrs[i].program
                 /\ m.instructions[i].data = instrs[i].data
  <1> DEFINE programs == {instrs[i].program : i \in 1..n}
             Lists(k) == \A program \in programs : \E i \in DOMAIN k : k[i] = program
             keys == CHOOSE k \in [1..Cardinality(programs) -> programs] : Lists(k)
             Index(i) == CHOOSE j \in DOMAIN keys : keys[j] = instrs[i].program
             m == Message(instrs, nonce_hash)
  <1>1. \E k \in [1..Cardinality(programs) -> programs] : Lists(k)
    <2>1. IsFiniteSet(programs)
      <3>1. [i \in 1..n |-> instrs[i].program] \in Surjection(1..n, programs)
        BY DEF Surjection
      <3>2. IsFiniteSet(1..n)
        BY FS_Interval
      <3> HIDE DEF programs
      <3> QED
        BY <3>1, <3>2, FS_Surjection
    <2> HIDE DEF programs
    <2>2. PICK c \in Nat : ExistsBijection(1..c, programs)
      BY <2>1, FS_NatBijection
    <2>3. Cardinality(programs) = c
      BY <2>2, FS_CountingElements
    <2>4. PICK k \in Bijection(1..c, programs) : TRUE
      BY <2>2 DEF ExistsBijection
    <2>5. k \in [1..c -> programs] /\ \A program \in programs : \E i \in 1..c : k[i] = program
      BY <2>4 DEF Bijection, Surjection
    <2> QED
      BY <2>3, <2>5
  <1>2. keys \in [1..Cardinality(programs) -> programs] /\ Lists(keys)
    BY <1>1
  <1>3. \A i \in 1..n : Index(i) \in DOMAIN keys /\ keys[Index(i)] = instrs[i].program
    <2> TAKE i \in 1..n
    <2>1. instrs[i].program \in programs
      OBVIOUS
    <2>2. \E j \in DOMAIN keys : keys[j] = instrs[i].program
      BY <1>2, <2>1
    <2> QED
      BY <2>2
  <1>4. m = [recent_blockhash |-> nonce_hash,
             account_keys     |-> keys,
             instructions     |-> [i \in 1..n |-> [program_id_index |-> Index(i),
                                                   op   |-> instrs[i].op,
                                                   data |-> instrs[i].data]]]
    BY DEF Message
  <1> HIDE DEF keys, programs, Index, m
  <1>5. /\ m.account_keys = keys
        /\ DOMAIN m.instructions = 1..n
        /\ \A i \in 1..n : /\ m.instructions[i].program_id_index = Index(i)
                           /\ m.instructions[i].data = instrs[i].data
    BY <1>4
  <1>6. /\ DOMAIN m.instructions = 1..n
        /\ \A i \in 1..n :
             /\ m.instructions[i].program_id_index \in DOMAIN m.account_keys
             /\ m.account_keys[m.instructions[i].program_id_index] = instrs[i].program
             /\ m.instructions[i].data = instrs[i].data
    BY <1>3, <1>5
  <1> QED
    BY <1>6 DEF m

\* What extract_memo finds: the data of the first memo.
LEMMA FirstMemo ==
  ASSUME NEW n \in Nat, NEW instrs, DOMAIN instrs = 1..n, NEW nonce_hash,
         NEW first \in 1..n, instrs[first].program = "memo",
         \A i \in 1..(first - 1) : instrs[i].program # "memo"
  PROVE  ExtractMemo(Message(instrs, nonce_hash)) = <<instrs[first].data>>
  <1> DEFINE m == Message(instrs, nonce_hash)
             memos == {i \in DOMAIN m.instructions :
                         LET index == m.instructions[i].program_id_index
                         IN index \in DOMAIN m.account_keys /\ m.account_keys[index] = "memo"}
  <1>1. /\ DOMAIN m.instructions = 1..n
        /\ \A i \in 1..n :
             /\ m.instructions[i].program_id_index \in DOMAIN m.account_keys
             /\ m.account_keys[m.instructions[i].program_id_index] = instrs[i].program
             /\ m.instructions[i].data = instrs[i].data
    BY MessageFacts
  <1>2. ExtractMemo(m) =
          IF memos = {} THEN <<>>
          ELSE <<m.instructions[CHOOSE i \in memos : \A j \in memos : i <= j].data>>
    BY DEF ExtractMemo
  <1> HIDE DEF m
  <1>3. memos = {i \in 1..n : instrs[i].program = "memo"}
    BY <1>1
  <1> HIDE DEF memos
  <1>4. first \in memos /\ \A j \in memos : first <= j
    <2>1. \A j \in 1..n : j < first => j \in 1..(first - 1)
      OBVIOUS
    <2>2. \A j \in memos : j \in 1..n /\ ~(j < first)
      BY <1>3, <2>1
    <2>3. first \in memos
      BY <1>3
    <2> QED
      BY <2>2, <2>3
  <1>5. \A i \in memos : (\A j \in memos : i <= j) => i = first
    <2> TAKE i \in memos
    <2> HAVE \A j \in memos : i <= j
    <2>1. i <= first /\ first <= i /\ i \in Nat /\ first \in Nat
      BY <1>3, <1>4
    <2> QED
      BY <2>1
  <1>6. (CHOOSE i \in memos : \A j \in memos : i <= j) = first
    BY <1>4, <1>5
  <1>7. memos # {}
    BY <1>4
  <1> QED
    BY <1>1, <1>2, <1>6, <1>7 DEF m

\* Four sequences in a row, the third of one element: at p is x, and before it
\* there is nothing but what a and b hold.
FirstAfter(a, b, x, s, p) ==
  /\ Len(s) \in Nat /\ DOMAIN s = 1..Len(s)
  /\ p \in 1..Len(s) /\ s[p] = x
  /\ \A i \in 1..(p - 1) : \/ \E j \in 1..Len(a) : s[i] = a[j]
                           \/ \E j \in 1..Len(b) : s[i] = b[j]

LEMMA ThirdOfFour ==
  ASSUME NEW S, NEW a \in Seq(S), NEW b \in Seq(S), NEW x \in S, NEW d \in Seq(S),
         NEW s, s = a \o b \o <<x>> \o d, NEW p, p = Len(a) + Len(b) + 1
  PROVE  FirstAfter(a, b, x, s, p)
  <1> DEFINE ab == a \o b
             abx == ab \o <<x>>
             Joined(q, r, t) == /\ t \in Seq(S) /\ Len(t) = Len(q) + Len(r)
                                /\ \A i \in 1..(Len(q) + Len(r)) :
                                     t[i] = IF i <= Len(q) THEN q[i] ELSE r[i - Len(q)]
  <1>0. \A q, r \in Seq(S) : Joined(q, r, q \o r)
    BY ConcatProperties
  <1>1. Len(a) \in Nat /\ Len(b) \in Nat /\ Len(d) \in Nat
    BY LenProperties
  <1>2. <<x>> \in Seq(S) /\ Len(<<x>>) = 1 /\ <<x>>[1] = x
    OBVIOUS
  <1>3. /\ ab \in Seq(S) /\ Len(ab) = Len(a) + Len(b)
        /\ \A i \in 1..(Len(a) + Len(b)) :
             ab[i] = IF i <= Len(a) THEN a[i] ELSE b[i - Len(a)]
    BY ConcatProperties
  <1> HIDE DEF ab
  <1>4. /\ abx \in Seq(S) /\ Len(abx) = Len(ab) + 1
        /\ \A i \in 1..(Len(ab) + 1) :
             abx[i] = IF i <= Len(ab) THEN ab[i] ELSE <<x>>[i - Len(ab)]
    <2> HIDE DEF Joined
    <2>1. Joined(ab, <<x>>, abx)
      BY <1>2, <1>3, <1>0
    <2> HIDE DEF abx
    <2> QED
      BY <1>2, <2>1 DEF Joined
  <1> HIDE DEF abx
  <1>5. /\ s \in Seq(S) /\ Len(s) = Len(abx) + Len(d)
        /\ \A i \in 1..(Len(abx) + Len(d)) :
             s[i] = IF i <= Len(abx) THEN abx[i] ELSE d[i - Len(abx)]
    <2> HIDE DEF Joined
    <2>1. Joined(abx, d, abx \o d)
      BY <1>4, <1>0
    <2>2. s = abx \o d
      BY DEF abx, ab
    <2>3. Joined(abx, d, s)
      BY <2>1, <2>2
    <2> QED
      BY <2>3 DEF Joined
  <1>6. DOMAIN s = 1..Len(s)
    BY <1>5, LenProperties
  <1>7. p \in 1..Len(s) /\ s[p] = x
    <2>1. p \in 1..(Len(abx) + Len(d)) /\ p <= Len(abx) /\ p \in 1..(Len(ab) + 1)
          /\ ~(p <= Len(ab)) /\ p - Len(ab) = 1
      BY <1>1, <1>3, <1>4
    <2>2. s[p] = abx[p]
      BY <1>5, <2>1
    <2>3. abx[p] = <<x>>[1]
      BY <1>4, <2>1
    <2> QED
      BY <1>2, <1>5, <2>1, <2>2, <2>3
  <1>8. ASSUME NEW i \in 1..(p - 1)
        PROVE  \/ \E j \in 1..Len(a) : s[i] = a[j]
               \/ \E j \in 1..Len(b) : s[i] = b[j]
    <2>1. /\ i \in 1..(Len(abx) + Len(d)) /\ i <= Len(abx) /\ i \in 1..(Len(ab) + 1)
          /\ i <= Len(ab) /\ i \in 1..(Len(a) + Len(b))
      BY <1>1, <1>3, <1>4
    <2>2. s[i] = ab[i]
      BY <1>4, <1>5, <2>1
    <2>3. CASE i <= Len(a)
      <3>1. i \in 1..Len(a)
        BY <1>1, <2>3
      <3> QED
        BY <1>3, <2>1, <2>2, <2>3, <3>1
    <2>4. CASE ~(i <= Len(a))
      <3>1. i - Len(a) \in 1..Len(b)
        BY <1>1, <2>1, <2>4
      <3>2. s[i] = b[i - Len(a)]
        BY <1>3, <2>1, <2>2, <2>4
      <3> QED
        BY <3>1, <3>2
    <2> QED
      BY <2>3, <2>4
  <1>9. Len(s) \in Nat
    BY <1>5, LenProperties
  <1> QED
    BY <1>5, <1>6, <1>7, <1>8, <1>9 DEF FirstAfter

\* extract_memo finds in one of our messages the payload it was built with:
\* what comes before the memo is of other programs.
LEMMA PayloadComesBack ==
  ASSUME NEW endpoint, NEW prio_fee, NEW payload, NEW nonce_hash
  PROVE  ExtractMemo(Message(BuildInstructions(endpoint, prio_fee, payload), nonce_hash))
           = <<payload>>
  <1> DEFINE advance == Instruction("system", "advance_nonce", <<>>)
             price   == Instruction("compute_budget", "price", <<prio_fee>>)
             limit   == Instruction("compute_budget", "limit", <<>>)
             memo    == Instruction("memo", "memo", payload)
             tip     == Instruction("system", "transfer",
                                    <<endpoint.tip_wallet, endpoint.tip_lamports>>)
             S == {advance, price, limit, memo, tip}
             a == AdvanceNonce
             b == ComputeBudget(prio_fee)
             d == Tip(endpoint)
             s == a \o b \o <<memo>> \o d
  <1>1. /\ advance.program = "system" /\ price.program = "compute_budget"
        /\ limit.program = "compute_budget" /\ memo.program = "memo" /\ memo.data = payload
    BY DEF Instruction
  <1>2. a = <<advance>> /\ b \in {<<>>, <<price, limit>>} /\ d \in {<<>>, <<tip>>}
    BY DEF AdvanceNonce, ComputeBudget, Tip
  <1>3. s = BuildInstructions(endpoint, prio_fee, payload)
    BY DEF BuildInstructions, Memo
  <1>4. memo \in S /\ advance \in S /\ price \in S /\ limit \in S /\ tip \in S
    OBVIOUS
  <1> HIDE DEF advance, price, limit, memo, tip, S, a, b, d
  <1>5. a \in Seq(S) /\ b \in Seq(S) /\ d \in Seq(S)
    <2>1. <<advance>> \in Seq(S) /\ <<price, limit>> \in Seq(S) /\ <<tip>> \in Seq(S)
      BY <1>4
    <2>2. <<>> \in Seq(S)
      OBVIOUS
    <2> QED
      BY <1>2, <2>1, <2>2, Zenon
  <1> DEFINE p == Len(a) + Len(b) + 1
             n == Len(s)
  <1>6. /\ Len(s) \in Nat /\ DOMAIN s = 1..Len(s)
        /\ p \in 1..Len(s) /\ s[p] = memo
        /\ \A i \in 1..(p - 1) : \/ \E j \in 1..Len(a) : s[i] = a[j]
                                 \/ \E j \in 1..Len(b) : s[i] = b[j]
    <2>0. s = a \o b \o <<memo>> \o d /\ p = Len(a) + Len(b) + 1
      OBVIOUS
    <2> HIDE DEF s, p
    <2>1. FirstAfter(a, b, memo, s, p)
      BY <1>4, <1>5, <2>0, ThirdOfFour, Zenon
    <2> QED
      BY <2>1 DEF FirstAfter
  <1>7. /\ \A j \in 1..Len(a) : a[j].program # "memo"
        /\ \A j \in 1..Len(b) : b[j].program # "memo"
    <2>1. \A j \in 1..Len(a) : a[j] = advance
      BY <1>2
    <2>2. \A j \in 1..Len(b) : b[j] \in {price, limit}
      BY <1>2
    <2> QED
      BY <1>1, <2>1, <2>2
  <1>10. n \in Nat /\ DOMAIN s = 1..n /\ p \in 1..n
    BY <1>6
  <1> HIDE DEF s, p, n
  <1>8. s[p].program = "memo" /\ s[p].data = payload
    BY <1>1, <1>6
  <1>9. \A i \in 1..(p - 1) : s[i].program # "memo"
    BY <1>6, <1>7
  <1>11. ExtractMemo(Message(s, nonce_hash)) = <<s[p].data>>
    BY <1>10, <1>8, <1>9, FirstMemo
  <1> QED
    BY <1>3, <1>8, <1>11

\* A name and a random part, and back.
LEMMA PayloadFacts ==
  ASSUME NEW S, NEW name \in Seq(S), NEW random
  PROVE  LET payload == Tagged(name, random)
         IN /\ payload # <<>>
            /\ ObservedProvider(payload) = name <=> Len(name) = 1
            /\ payload[Len(payload)] = random
  <1> DEFINE T == S \cup {random}
             payload == Append(name, random)
  <1>1. name \in Seq(T) /\ random \in T /\ Len(name) \in Nat
    BY SeqMonotonic, LenProperties
  <1> HIDE DEF T
  <1>2. /\ payload \in Seq(T) /\ Len(payload) = Len(name) + 1
        /\ \A i \in 1..Len(name) : payload[i] = name[i]
        /\ payload[Len(name) + 1] = random
    BY <1>1, AppendProperties
  <1> HIDE DEF payload
  <1>3. Len(payload) > 0
    BY <1>1, <1>2
  <1>4. payload # <<>>
    BY <1>3
  <1>5. ASSUME Len(name) = 1 PROVE <<payload[1]>> = name
    <2>1. payload[1] = name[1]
      BY <1>2, <1>5
    <2>2. name = <<name[1]>>
      BY <1>1, <1>5
    <2> QED
      BY <2>1, <2>2
  <1>6. ASSUME <<payload[1]>> = name PROVE Len(name) = 1
    BY <1>6
  <1> QED
    BY <1>2, <1>4, <1>5, <1>6 DEF Tagged, ObservedProvider, payload

\* What is found in the k-th transaction, when there was one to send.
LEMMA MemoFound ==
  ASSUME StartUpInv, NEW k \in DOMAIN built, built[k].message # <<>>
  PROVE  \E name \in Seq(Segments), clock \in Clock :
           /\ name = Endpoints[built[k].endpoint].name
           /\ Len(built[k].message) = 1 /\ DOMAIN built[k].message = {1}
           /\ ExtractMemo(built[k].message[1]) = <<RandomPayload(name, clock, k - 1)>>
  <1>1. PICK i \in DOMAIN Endpoints, nonce_hash \in Nonces, clock \in Clock :
          /\ built[k].endpoint = i /\ Endpoints[i] \in SomeEndpoint
          /\ built[k].message =
               IF TipError(Endpoints[i]) = None
               THEN <<Message(BuildInstructions(Endpoints[i], config[1].prio_fee,
                                RandomPayload(Endpoints[i].name, clock, k - 1)), nonce_hash)>>
               ELSE <<>>
    BY BuiltFacts
  <1> DEFINE m == Message(BuildInstructions(Endpoints[i], config[1].prio_fee,
                            RandomPayload(Endpoints[i].name, clock, k - 1)), nonce_hash)
  <1>2. built[k].message = <<m>>
    BY <1>1
  <1>3. ExtractMemo(m) = <<RandomPayload(Endpoints[i].name, clock, k - 1)>>
    BY PayloadComesBack
  <1> HIDE DEF m
  <1>4. /\ Len(built[k].message) = 1 /\ DOMAIN built[k].message = {1}
        /\ built[k].message[1] = m
    BY <1>2
  <1>5. Endpoints[i].name \in Seq(Segments)
    BY <1>1 DEF SomeEndpoint
  <1> QED
    BY <1>1, <1>3, <1>4, <1>5

\* What comes back of a transaction names its endpoint, exactly when the name
\* has no bar.
THEOREM AttributableUnlessBarred == Spec => []LandingsAreAttributable
  <1>1. StartUpInv => LandingsAreAttributable
    <2> SUFFICES ASSUME StartUpInv, NEW k \in DOMAIN built, NEW j \in DOMAIN built[k].message
                 PROVE  LET memo == ExtractMemo(built[k].message[j])
                            name == Endpoints[built[k].endpoint].name
                        IN /\ memo \notin {<<>>, <<<<>>>>}
                           /\ ObservedProvider(memo[1]) = name <=> Len(name) = 1
      BY DEF LandingsAreAttributable
    <2>1. built[k].message # <<>>
      OBVIOUS
    <2>2. PICK name \in Seq(Segments), clock \in Clock :
            /\ name = Endpoints[built[k].endpoint].name
            /\ DOMAIN built[k].message = {1}
            /\ ExtractMemo(built[k].message[1]) = <<RandomPayload(name, clock, k - 1)>>
      BY <2>1, MemoFound
    <2> DEFINE payload == RandomPayload(name, clock, k - 1)
    <2>3. payload # <<>> /\ (ObservedProvider(payload) = name <=> Len(name) = 1)
      BY PayloadFacts DEF RandomPayload
    <2> HIDE DEF payload
    <2>4. j = 1 /\ ExtractMemo(built[k].message[j]) = <<payload>>
      BY <2>2 DEF payload
    <2>5. <<payload>> # <<>> /\ <<payload>> # <<<<>>>> /\ <<payload>>[1] = payload
      BY <2>3
    <2> QED
      BY <2>2, <2>3, <2>4, <2>5
  <1> QED
    BY <1>1, StartUpInvariant, PTL

\* No two transactions of a run are equal: the counter is in the memo.
THEOREM NoTransactionTwice == Spec => []TransactionsAreDistinct
  <1>1. StartUpInv => TransactionsAreDistinct
    <2> SUFFICES ASSUME StartUpInv, NEW i \in DOMAIN built, NEW j \in DOMAIN built,
                        built[i].message # <<>>, built[i].message = built[j].message
                 PROVE  i = j
      BY DEF TransactionsAreDistinct
    <2>1. PICK n \in Seq(Segments), c \in Clock :
            ExtractMemo(built[i].message[1]) = <<RandomPayload(n, c, i - 1)>>
      BY MemoFound
    <2>2. PICK o \in Seq(Segments), d \in Clock :
            ExtractMemo(built[j].message[1]) = <<RandomPayload(o, d, j - 1)>>
      BY MemoFound
    <2> DEFINE p == RandomPayload(n, c, i - 1)
               q == RandomPayload(o, d, j - 1)
    <2>3. p[Len(p)] = <<n, c, i - 1>> /\ q[Len(q)] = <<o, d, j - 1>>
      BY PayloadFacts DEF RandomPayload
    <2> HIDE DEF p, q
    <2>4. <<p>> = <<q>>
      BY <2>1, <2>2 DEF p, q
    <2>5. <<n, c, i - 1>> = <<o, d, j - 1>>
      BY <2>3, <2>4
    <2>6. i \in Nat /\ j \in Nat
      BY LenProperties DEF StartUpInv, TypeOK
    <2> QED
      BY <2>5, <2>6
  <1> QED
    BY <1>1, StartUpInvariant, PTL
=============================================================================
