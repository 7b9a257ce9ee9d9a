SPECIFICATION FairSpec
CONSTANTS
  r1 = r1
  s = s
  w = w
  Runs = {r1}
  Senders = {s}
  MaxCalls = 2
  MaxOutput = 1
  Sockets = {w}
  Watches <- MCWatches
  NoChannel = NoChannel
  MaxResumes = 1
INVARIANTS TypeOK RightAnswer ContinuousOutput OutcomeIsCommitted
PROPERTIES CallsEnd SocketsClose
