SPECIFICATION Spec
CONSTANTS
    Roles = {"r1", "r2"}
    Operator = "op"
    NoOwner = "none"
    Members = {"r2"}
    Settable = {"r1", "r2"}
    PreExisting <- UnseenPreExisting
    AdminSchemas <- UnseenAdminSchemas
    AdminDrops = TRUE
    RolesChange = FALSE
    LostReplies = TRUE
    MaxFaults = 1
    Specs <- UnseenSpecs
    ForeignFinalizers = {TRUE, FALSE}
    MaxEdits = 4
INVARIANTS
    OnlyUnseenLeft
PROPERTIES
    KeptSurvives
    LiveSurvives
CHECK_DEADLOCK FALSE
