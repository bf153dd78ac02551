SPECIFICATION Spec
CONSTANTS
    Ids = {a, b, c, d, e}
    Capacity = 3
    MaxExecuted = 8
INVARIANT TypeOK
INVARIANT ExecutedApart
INVARIANT RemembersFew
