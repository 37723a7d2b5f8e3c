SPECIFICATION Spec
CONSTANTS
    Commands = {c1, c2}
    Chapters = {h1}
    Models = {sonnet}
    Price <- PriceOf
    Bills = {2}
    Budgets = {4}
    MaxAttempts = 1
    MaxCrashes = 0
    MaxBatches = 2
    None = None
INVARIANTS
    CommittedCoversSpend
CHECK_DEADLOCK FALSE
