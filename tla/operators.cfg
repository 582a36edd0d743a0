SPECIFICATION FairSpec
CONSTANTS
    Processes = {"a1", "a2", "b1"}
    Names = {"a", "b"}
    Unnamed = ""
    DefaultName = "default"
    Name <- ThreeNames
    Electing = {"a1", "a2", "b1"}
    Nobody = "nobody"
    Controllers = {"database", "schema"}
    Resources = {"database", "schema"}
    Kind <- TwoKinds
    FirstLinks <- BothA
    Databases = {"postgres", "app"}
    Default = "postgres"
    Needs <- TwoNeeds
    NoDatabase = "none"
    MaxEdits = 1
    MaxFaults = 2
INVARIANTS
    TypeOK
    OneOperator
    PoolsBounded
PROPERTIES
    FindsItsOperator
CHECK_DEADLOCK FALSE
