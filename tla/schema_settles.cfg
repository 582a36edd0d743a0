SPECIFICATION FairSpec
CONSTANTS
    Roles = {"r1"}
    Operator = "op"
    NoOwner = "none"
    Members = {"r1"}
    Settable = {"r1"}
    PreExisting <- SettlingPreExisting
    AdminSchemas <- SettlingAdminSchemas
    AdminDrops = TRUE
    RolesChange = TRUE
    LostReplies = TRUE
    MaxFaults = 1
    Specs <- SettlingSpecs
    ForeignFinalizers = {FALSE}
    MaxEdits = 4
INVARIANTS
    TypeOK
PROPERTIES
    ImplementsHeldResource
    OnlyTowardsSpec
    Converges
    DeletionCompletes
CHECK_DEADLOCK FALSE
