\* The budget file under two concurrent requests, a day change and one
\* restart; a cap of two calls a day.
CONSTANTS
    t1 = t1
    t2 = t2
    NoDate = NoDate
    Truncated = Truncated
    Missing = Missing
    Threads = {t1, t2}
    MaxCalls = 2
    MaxTokens = 3000
    TokensPerCall = 900
    MaxDay = 1
    MaxCrashes = 1
SPECIFICATION Spec
INVARIANT
    BudgetRespected
SYMMETRY Symmetry
