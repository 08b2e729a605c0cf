SPECIFICATION Spec
CONSTANTS
    MaxRetries = 3
    Initial = 1
    MaxBackoff = 4
    ResetWindow = 3
    Bits = 3
    MaxTime = 14
    None = None
INVARIANTS BudgetKept BackoffDoubles
PROPERTIES RestartsSpaced
