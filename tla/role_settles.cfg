SPECIFICATION FairSpec
CONSTANTS
    Options <- MCOptions
    DefaultOptions <- MCInherit
    OperatorOptions <- MCOptions
    Passwords = {"p1"}
    Empty = ""
    None = "none"
    Groups = {"g1", "g2"}
    Databases = {"db1", "db2"}
    Rendered <- Same
    Specs <- SettlingSpecs
    Inputs = {"p1", "none"}
    OutEdits = {}
    ForeignFinalizers = {TRUE, FALSE}
    PreExisting <- SettlingPreExisting
    AdminRoles <- SettlingAdminRoles
    NameNeedsQuotes = FALSE
    LostReplies = TRUE
    AdminDrops = TRUE
    AccessChanges = TRUE
    MaxEdits = 3
    MaxFaults = 1
INVARIANTS
    NoOrphan
PROPERTIES
    ImplementsHeldResource
    OnlyTowardsSpec
    NoUnwantedDrop
    Converges
    DeletionCompletes
CHECK_DEADLOCK FALSE
