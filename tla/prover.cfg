SPECIFICATION Spec
CONSTANTS
  PathSize = 2
  MaxRequests = 3
  Calls <- MCCalls
  Capacity = 2
  Threads = 1
  MaxRestarts = 1
INVARIANTS AnswersOwnRequest AnsweredProofsVerify ConnectionsBounded
PROPERTIES RequestsEnd
