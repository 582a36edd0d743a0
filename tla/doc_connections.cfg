SPECIFICATION FairSpec
CONSTANTS
    Roles = {}
    Operator = "op"
    NoOwner = "none"
    Extensions = {}
    Requires <- NoRequires
    TemplateExts = {}
    Privileges = {}
    PublicPrivs = {}
    PreExisting <- NoDatabases
    AdminDatabases <- NoDatabases
    AdminDrops = FALSE
    RolesChange = FALSE
    MaxConns = 4
    TruncatedReads = FALSE
    LostReplies = FALSE
    MaxFaults = 3
    Specs <- PlainSpecs
    ForeignFinalizers = {FALSE}
    MaxEdits = 3
PROPERTIES
    ConnectionsDropped
CHECK_DEADLOCK FALSE
