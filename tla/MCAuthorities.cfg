SPECIFICATION Spec
CHECK_DEADLOCK FALSE
CONSTANTS
    Tasks = {"t1", "t2", "t3"}
    Graphs <- MCGraphs
    Subagents = {"s"}
    ParentGrants <- MCParentGrants
    Requests <- MCRequests
    Evidence <- MCEvidence
    Declared <- MCDeclared
    Envelopes = {"e", "f"}
    Window = 1
    MaxTime = 2
    MaxSubmissions = 2
    Plugins = {"p", "q"}
    Versions = {1, 2}
    PluginGrants <- MCPluginGrants
    Hosted = {"p"}
    MaxAdmissions = 2
    MaxResults = 5
    Candidates = {"c1", "c2", "c3"}
    Names = {"n1", "n2"}
    CapsuleName <- MCCapsuleName
    CapsuleGrants <- MCCapsuleGrants
    FullBudget = 1
    MaxPromotions = 2
    Entries <- MCEntries
    Cells = {"a", "b"}
    MAX_QUARANTINED_CELLS = 3
    Manifests <- MCManifests
    Rings = {"canary", "stable"}
    FloorVersion = 2
    Roles = {"a", "b", "c"}
    Mappings <- MCMappings
    Listings <- MCListings
    MAX_ROLE_DEPTH = 2
    Tenants = {"a", "b"}
    Keys = {"k"}
    Operators = {"x", "y"}
    Windows = {0, 1, 2}
    MaxWrites = 2
    MaxGrants = 2
    Workspaces = {"w"}
    SealKeys = {"x", "y"}
    Epochs = {1, 2}
    ChunkIds = {"c1", "c2"}
    Chunks <- MCChunks
    Queries <- MCQueries
    MaxFabricTime = 1
    Raws = {"r", "s"}
    Scopes = {"h", "f"}
    Home = "h"
    Origins = {"o", "p"}
    Formats = {"j", "m"}
    Rules <- MCRules
    EgressRequests <- MCEgressRequests
    Addresses = {"pub", "pub2", "priv"}
    Blocked = {"priv"}
    MetadataHosts <- MCMetadataHosts
    Tiers = {"hard", "user"}
    PlatformHard = "hard"
    Snapshots <- MCSnapshots
    Asked <- MCAsked
    Models = {1, 2}
    Listed <- MCListed
    ModelRequests <- MCModelRequests
    Usages = {1, 3}
    TotalTokens = 2
    MaxSequence = 1
    MaxInvocations = 3
    StreamTokens = {1, 2}
    StreamBudget = 3
    CallIndexes = {0, 1}
    MaxStream = 4
    Plans <- MCPlans
    MaxRealms = 2
    Payload = 1
    PipeSize = 1
    MaxOutput = 1
INVARIANTS
    TypeOK
    WorkIsGoverned
    OnlyVettedRuns
    SafeguardsHold
    AnswersAreDue
    DecisionsBind
PROPERTY
    NothingComesBack
