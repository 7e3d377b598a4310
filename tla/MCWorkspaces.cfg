SPECIFICATION Spec
CHECK_DEADLOCK FALSE
CONSTANTS
    TreePaths = {"a", "log", "package"}
    Contents = {"x", "y"}
    Skipped = {"package"}
    Ignored = {"log"}
    InitialTrees <- MCTrees
    MaxEdits = 2
    MaxCalls = 3
    Seeds = {"s", "t"}
    RequestKeys = {"j", "k"}
    MaxFailures = 1
    Runs = {"r1", "r10"}
    Within <- MCWithin
    Capabilities = {"read", "exec"}
    Platform = {"read", "exec"}
    Baseline = 2
    Budgets <- MCBudgets
    MaxDepth = 3
    MaxEvents = 4
    Files = {"f", "gitignore", "package"}
    FileContents = {"x", "y"}
    Unwalked = {"package"}
    PassedOver = {"gitignore"}
    SourceTrees <- MCSourceTrees
    MaxSources = 3
    Paths = {"a", "b"}
    CapsuleContents = {"x", "y"}
    Lineages = {"l"}
    Referenced = {"a"}
    MaxCapsules = 2
    Writers = {"v", "w"}
    Commits <- MCCommits
    MaxBoxes = 3
    Cores = {"a", "b"}
    Clients = {"x", "y"}
    PageLimit = 2
    MaxStored = 3
    StoredRuns = {"r"}
    Recoverers = {"p", "q"}
    MaxLog = 3
    MaxDrifts = 1
INVARIANTS
    TypeOK
    ChangesAreTold
    AgentsAreHeld
    StoreKeeps
