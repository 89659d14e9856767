CONSTANTS
    Parts = {"registration", "operator", "cluster", "forwarder", "manifest", "expose",
             "validator", "codes", "modsync", "files", "sources",
             "references", "github"}
    Callers = {p1, p2}
    Like <- Likes
    Filters <- SomeFilters
    MaxEntries = 3
    MaxAsked = 1
    Dirs <- SomeDirs
    Policies <- SomePolicies
    MaxCalls = 2
    Index <- SomeIndex
    ChartAt <- SomeCharts
    FileName <- BaseNames
    Normal <- WithPrefix
    Credentials <- TwoCredentials
    Others <- SomeOthers
    MaxOperatorCalls = 3
    Clusters <- SomeClusters
    Names <- TwoNames
    ApiHost = "api"
    MaxChanges = 1
    Targets <- SomeTargets
    Pods <- SomePods
    MaxAttempts = 4
    Documents <- SomeDocuments
    Requests <- SomeRequests
    MaxOthers = 1
    Objects <- SomeObjects
    Exposures <- SomeExposures
    MaxRemoved = 1
    Validating = {p1, p2}
    Assets <- SomeAssets
    Extra <- SomeExtra
    Texts <- SomeTexts
    Refs <- SomeRefs
    MaxExtra = 1
    GoFiles <- SomeGoFiles
    FirstCode = 1002
    MaxJobs = 2
    MaxEdits = 1
    Sources <- SomeSources
    Destinations <- SomeGoMods
    Suffix <- EndIn
    Infix <- WithIn
    MaxSyncs = 2
    Files <- SomeFiles
    MaxIntakes = 2
    MaxKills = 1
    Origins <- SomeOrigins
    Groups = {"", "g"}
    MaxPackages = 2
    Schemas = {"a", "b", "c"}
    ApiDocuments <- SomeApiDocuments
    Trees <- SomeTrees
INIT MCInit
NEXT LibraryNext
SYMMETRY Symmetry
INVARIANTS
    TypesOK
    NoOrphans
    RegistryConsistent
    HelmSafe
    BrokerReached
    KubernetesObjects
    RightSchema
    CodesUnique
    OneReplacement
    CleanConversions
    
PROPERTIES
    NeverHidden
    StaysUndeployed
CHECK_DEADLOCK FALSE
