SPECIFICATION Spec
CONSTANTS
  MaxFd = 7
  MaxSessions = 3
INVARIANTS ThreadsUseTheirStreams SessionsLeaveNothingOpen
