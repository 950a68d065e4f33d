SPECIFICATION FairSpec
CONSTANTS
  Clients = {c1}
  Requests <- Answered
  Inputs <- WholeHeaders
  MaxRequests = 3
  MaxChunks = 2
INVARIANTS
  StrandedOnlyBehindLzb
  InStep
  OneAnswerPerRequest
PROPERTIES
  ShellEventuallyReleased
  EveryRequestAnswered
