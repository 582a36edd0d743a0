SPECIFICATION PromptSpec
CONSTANTS
    Options <- MCOptions
    DefaultOptions <- MCInherit
    OperatorOptions <- MCOptions
    Passwords = {"p1", "p2"}
    Empty = ""
    None = "none"
    Groups = {}
    Databases = {"db1"}
    Rendered <- Salted
    Specs <- OverrideSpecs
    Inputs = {"none"}
    OutEdits = {}
    ForeignFinalizers = {FALSE}
    PreExisting <- NoRoles
    AdminRoles <- NoRoles
    NameNeedsQuotes = FALSE
    LostReplies = FALSE
    AdminDrops = FALSE
    AccessChanges = FALSE
    MaxEdits = 1
    MaxFaults = 0
PROPERTIES
    TemplateRendersPassword
CHECK_DEADLOCK FALSE
