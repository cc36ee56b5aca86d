SPECIFICATION Spec
CONSTANTS
  MaxAmount = 1000000
  MaxBps = 10000
  InitialBalance = 100000000
  FreeLength = 7
INVARIANTS TestsPass AccountIsOnChain FundsFollowAccount
PROPERTY AcceptedAsPrepared
