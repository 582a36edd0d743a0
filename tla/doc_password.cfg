SPECIFICATION FairSpec
CONSTANTS
    Options <- MCOptions
    DefaultOptions <- MCInherit
    OperatorOptions <- MCOptions
    Passwords = {"p1", "p2"}
    Empty = ""
    None = "none"
    Groups = {}
    Databases = {"db1"}
    Rendered <- Same
    Specs <- SourceSpecs
    Inputs = {"p1", "p2"}
    OutEdits = {}
    ForeignFinalizers = {FALSE}
    PreExisting <- NoRoles
    AdminRoles <- NoRoles
    NameNeedsQuotes = FALSE
    LostReplies = TRUE
    AdminDrops = FALSE
    AccessChanges = FALSE
    MaxEdits = 3
    MaxFaults = 1
PROPERTIES
    PasswordAssigned
CHECK_DEADLOCK FALSE
