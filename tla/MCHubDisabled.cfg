SPECIFICATION Spec
CONSTANTS
    a = a
    b = b
    o1 = o1
    o2 = o2
    Plugins = {a, b}
    Providers = {"x", "y", "z"}
    Declares <- MCDeclares
    Serves <- MCServes
    Bundled = {a}
    Capable <- MCCapable
    ActionRows <- MCActionRows
    KnownCaps <- MCKnown
    KindType <- MCKindType
    DefaultFormat <- MCDefaultFormat
    FormatType <- MCKindType
    Backend <- MCBackend
    Stage = "features"
    Capability <- Sift
    ActionId <- Tool
    Envelopes <- MCEnvelopes
    LoadOrder <- MCOrder
    NoPlugin = NoPlugin
    None = None
    Refused = Refused
    Present = {a, b}
    Operators = {o1}
    Procs = {"worker"}
    RequestIds = {"q"}
    Profiles = {"n"}
    Projects = {"p"}
    Routes <- MCRoutes
    Requested <- MCSharedId
    Manifest <- MCManifest
    Hosts <- MCHosts
    Methods = {"uv"}
    MaxOps = 2
    MaxTasks = 1
INVARIANT RunsEnabled
CHECK_DEADLOCK FALSE
