SPECIFICATION Spec
CONSTANTS
    Limit = 2
    Window = 3
    MaxTime = 9
INVARIANTS
    WindowBounded
    RefusesOnlyWhenFull
