SPECIFICATION Spec
CONSTANTS
    k1 = k1
    k2 = k2
    s1 = s1
    s2 = s2
    i1 = i1
    i2 = i2
    d1 = d1
    d2 = d2
    root = root
    dmz = dmz
    Callers <- MCCallers
    Ids <- MCIds
    Data <- MCData
    Vdoms <- MCVdoms
    Slots <- MCSlots
    Contended <- MCContended
    DefaultVdom = root
    Empty = Empty
    Everywhere = Everywhere
    Self = Self
    Factory = Factory
    Blank = Blank
    None = None
    MaxBusy = 2
    MaxRows = 1
SYMMETRY Symmetry
INVARIANTS
    TypeOK
PROPERTIES
    ImplementsStore
