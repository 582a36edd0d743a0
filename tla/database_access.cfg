SPECIFICATION Spec
CONSTANTS
    Roles = {"r1", "r2"}
    Operator = "op"
    NoOwner = "none"
    Extensions = {"plpgsql", "cube", "distance"}
    Requires <- Distance
    TemplateExts = {"plpgsql"}
    Privileges = {"CREATE", "CONNECT"}
    PublicPrivs = {"CONNECT"}
    PreExisting <- AccessPreExisting
    AdminDatabases <- NoDatabases
    AdminDrops = FALSE
    RolesChange = TRUE
    MaxConns = 4
    TruncatedReads = FALSE
    LostReplies = TRUE
    MaxFaults = 1
    Specs <- AccessSpecs
    ForeignFinalizers = {FALSE}
    MaxEdits = 3
PROPERTIES
    StatusTruthful
CHECK_DEADLOCK FALSE
