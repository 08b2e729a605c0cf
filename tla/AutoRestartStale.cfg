SPECIFICATION Spec
CONSTANTS
    MaxRetries = 2
    Initial = 2
    MaxBackoff = 4
    ResetWindow = 3
    Bits = 8
    MaxTime = 8
    None = None
PROPERTIES FirstRetryDelayed
