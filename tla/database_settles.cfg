SPECIFICATION FairSpec
CONSTANTS
    Roles = {"r1"}
    Operator = "op"
    NoOwner = "none"
    Extensions = {"cube", "distance"}
    Requires <- Distance
    TemplateExts = {"cube"}
    Privileges = {"CREATE", "CONNECT"}
    PublicPrivs = {"CONNECT"}
    PreExisting <- SettlingPreExisting
    AdminDatabases <- SettlingAdminDatabases
    AdminDrops = TRUE
    RolesChange = FALSE
    MaxConns = 3
    TruncatedReads = TRUE
    LostReplies = TRUE
    MaxFaults = 1
    Specs <- SettlingSpecs
    ForeignFinalizers = {TRUE, FALSE}
    MaxEdits = 3
INVARIANTS
    TypeOK
PROPERTIES
    ImplementsHeldResource
    OnlyTowardsSpec
    SessionsSafe
    Converges
    DeletionCompletes
CHECK_DEADLOCK FALSE
