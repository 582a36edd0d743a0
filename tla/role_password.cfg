SPECIFICATION PromptSpec
CONSTANTS
    Options <- MCOptions
    DefaultOptions <- MCInherit
    OperatorOptions <- MCOptions
    Passwords = {"p1", "p2"}
    Empty = ""
    None = "none"
    Groups = {"g1"}
    Databases = {"db1"}
    Rendered <- Same
    Specs <- PasswordSpecs
    Inputs = {"p1", "p2", "", "none"}
    OutEdits = {"p1", "p2"}
    ForeignFinalizers = {FALSE}
    PreExisting <- NoRoles
    AdminRoles <- NoRoles
    NameNeedsQuotes = TRUE
    LostReplies = FALSE
    AdminDrops = FALSE
    AccessChanges = FALSE
    MaxEdits = 3
    MaxFaults = 1
INVARIANTS
    TypeOK
    CacheCoherent
PROPERTIES
    Converges
CHECK_DEADLOCK FALSE
