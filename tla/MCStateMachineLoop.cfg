SPECIFICATION Spec
CONSTANTS
  Signals <- MCSignals
  Blocks <- MCBlocks
  Block <- MCBlock
  Outputs <- MCOutputs
  Output <- MCOutput
  Receivers <- MCReceivers
  Inputs <- MCInputs
  Construction <- MCConstruction
  EvalLimit = 3
  MaxPending = 2
INVARIANT
  RetryLosesNothing
