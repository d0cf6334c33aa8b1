SPECIFICATION Spec
CONSTANTS
    c1 = c1
    c2 = c2
    Calls <- MCCalls
    Migration = migration
    Customers = {"Legacy", "FW"}
    Sites = {"Default"}
    Names = {"fw1", "core"}
    LegacyCustomer = "Legacy"
    LegacySite = "Default"
    Config <- MCConfig
    WithSecret = {"fw1"}
    None = None
    MaxCalls = 2
    MaxRuns = 2
    Targets <- MCTargets
    Lower <- MCLower
    Prefixes <- MCPrefixes
    HostOf <- MCHostOf
    IdText <- MCIdText
SYMMETRY Symmetry
INVARIANTS
    TypeOK
    NamesUnique
    RegisteredIsFound
    NothingHalfRegistered
    OrphansExplained
    MigratedIsThere
    NeverGuesses
PROPERTIES
    SecretOutlivesRow
CHECK_DEADLOCK FALSE
