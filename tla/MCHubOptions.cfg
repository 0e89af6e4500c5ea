SPECIFICATION Spec
CONSTANTS
    a = a
    b = b
    o1 = o1
    o2 = o2
    Plugins = {a, b}
    Providers = {"x", "y", "z"}
    Declares <- MCDeclares
    Serves <- MCServes
    Bundled = {a}
    Capable <- MCCapable
    ActionRows <- MCActionRows
    KnownCaps <- MCKnown
    KindType <- MCKindType
    DefaultFormat <- MCDefaultFormat
    FormatType <- MCKindType
    Backend <- MCOpenBackend
    Stage = "features"
    Capability <- Sift
    ActionId <- Tool
    Envelopes <- MCEnvelopes
    LoadOrder <- MCOrder
    NoPlugin = NoPlugin
    None = None
    Refused = Refused
    Present = {a}
    Operators = {o1, o2}
    Procs = {"server"}
    RequestIds = {"q"}
    Profiles = {"n"}
    Projects = {"p"}
    Routes <- MCRoutes
    Requested <- MCRequested
    Manifest <- MCManifest
    Hosts <- MCHosts
    Methods = {"uv", "container_service", "docker"}
    MaxOps = 3
    MaxTasks = 1
SYMMETRY OperatorSymmetry
INVARIANT OptionsDeclared
CHECK_DEADLOCK FALSE
