SPECIFICATION Spec
CONSTANTS
    Options <- MCOptions
    DefaultOptions <- MCInherit
    OperatorOptions <- MCOptions
    Passwords = {"p1", "p2"}
    Empty = ""
    None = "none"
    Groups = {"g1"}
    Databases = {"db1"}
    Rendered <- Same
    Specs <- ExportSpecs
    Inputs = {"none"}
    OutEdits = {}
    ForeignFinalizers = {FALSE}
    PreExisting <- NoRoles
    AdminRoles <- NoRoles
    NameNeedsQuotes = FALSE
    LostReplies = TRUE
    AdminDrops = FALSE
    AccessChanges = FALSE
    MaxEdits = 4
    MaxFaults = 2
INVARIANTS
    CredentialsWork
PROPERTIES
    StatusTruthful
CHECK_DEADLOCK FALSE
