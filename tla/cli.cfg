SPECIFICATION Spec
CONSTANTS
  MaxAmount = 100
  MaxBps = 2
  Processes = {p1, p2}
  Files = {f1, f2}
  Commands <- CliCommands
  RelayerFee = 1
  NewBps = 1
  MaxCommands = 2
  MaxForeign = 1
  MaxFeeChanges = 1
  MaxStops = 1
SYMMETRY Symmetry
INVARIANTS LocalIsPrefix RecoveryCoversChain RecoveryFindsAction
