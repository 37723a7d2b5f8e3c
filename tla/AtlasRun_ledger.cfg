SPECIFICATION Spec
CONSTANTS
    Commands = {c1}
    Chapters = {h1, h2}
    Models = {sonnet, opus}
    Price <- PriceOf
    Bills = {3}
    Budgets = {4}
    MaxAttempts = 2
    MaxCrashes = 1
    MaxBatches = 2
    None = None
SYMMETRY Symmetry
INVARIANTS
    WithinBudget
    SentWithinBudget
    
    AnswersBound
PROPERTIES
    SpendKept
CHECK_DEADLOCK FALSE
