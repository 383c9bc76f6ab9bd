SPECIFICATION FairSpec
INVARIANT RegisteredAreLinked
INVARIANT LinkedHaveOwner
INVARIANT CandidatesOnce
INVARIANT StopReachesServer
PROPERTY HalfNegotiatedKept
PROPERTY HandlersEnd
PROPERTY ServerEnds
PROPERTY OfferFollows
CHECK_DEADLOCK FALSE
CONSTANTS
  Peers = {p1}
  NoPeer = NoPeer
  NodeThreads = {"push"}
  QueueSize = 1
  Candidates = {c1}
  AnswerLimit = 1
  Failures = {"start", "listen", "slow_start", "add", "slow_gst", "offer", "local", "remote", "bus", "message"}
  SignalsRace = TRUE
