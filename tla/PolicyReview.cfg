SPECIFICATION Spec
CONSTANTS
    None = None
    Wildcards = {"all", "any", "ALL"}
    Templates <- MCTemplates
    Baseline <- MCBaseline
    Interfaces = {"port1", "dmz"}
    Services = {"HTTP", "SSH"}
    Vips = {"vip"}
    VipAddress <- MCVipAddress
    FirstObjects <- MCFirstObjects
    NewObjects <- MCNewObjects
    SiteOf <- MCSiteOf
    Bundles <- MCBundles
    Hosts = {1, 3, 4, 6, 7}
    InternetHosts = {7}
    Lower <- MCLower
    Upper <- MCUpper
    KnownDefaults = {"HTTP", "SSH", "ALL"}
    Intents <- MCIntents
    MaxRules = 4
    MaxEdits = 3
INVARIANTS
    CleanupKeepsVerdicts
    PathAnswersTrue
    OverlapIsExact
    CompareRebuilds
PROPERTIES
    ScoreMoves
CHECK_DEADLOCK FALSE
