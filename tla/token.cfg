SPECIFICATION FairSpec
CONSTANTS
    Callers = {c1, c2}
    Life = 2
    Skew = 1
    Window = 2
    MaxTime = 4
PROPERTIES
    CachedTokensAreFresh
    CallsEnd
