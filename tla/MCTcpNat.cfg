SPECIFICATION Spec
CONSTANTS
    f1 = f1
    f2 = f2
    Flows = {f1, f2}
    NoFlow = NoFlow
    FirstPort = 2
    PortSpace = 4
    Timeout = 2
    RefreshGap = 1
    MaxClock = 4
SYMMETRY Symmetry
INVARIANTS MapsConsistent RoutedToOwner
PROPERTY SweptWasIdle
