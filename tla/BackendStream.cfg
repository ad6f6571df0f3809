\* Two envelopes and the end command, from three threads, on a channel of two,
\* with a network and a backend that may do
\* anything.
CONSTANTS
  Senders = {a, b}
  PerSender = 1
  Buffer = 2
  MaxNoise = 1
  Faults = {"early_completion", "backend_error", "close", "write_error"}
SPECIFICATION FairSpec
INVARIANTS
  StreamInv
  OkMeansReceived
  OutcomeIsReported
PROPERTIES
  OutcomeIsFinal
  NobodyStaysBlocked
