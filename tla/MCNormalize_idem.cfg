CONSTANTS
    Inputs <- MCInputs
    MaxPasses = 1
SPECIFICATION Spec
INVARIANT Idempotent
