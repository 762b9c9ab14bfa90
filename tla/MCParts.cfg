SPECIFICATION MCSpec
CONSTANTS
    Replicas = {r1, r2}
    Nobody = Nobody
    MaxRestarts = 1
    LosesLease = FALSE
    ComponentNames = {"a", "b", "c"}
    Items = {"i1", "i2"}
    Workers = {"w1", "w2"}
    NoItem = "none"
    MaxVersion = 2
    ConflictBackoff = TRUE
    MaxCount = 2
    MaxBatch = 3
    LagLimits = {0, 2}
    Reviews = {"r1", "r2"}
    Pprs = {"a", "b"}
    Forms <- MCRequests
    Limits <- MCQuota
    MinReady <- MCMinReady
    DryRun = FALSE
    Sources = {"s1", "s2"}
    Ident = TRUE
    MaxTime = 2
    MaxLists = 3
    Tags = {"ta", "tb"}
    Emissions = {"e1", "e2", "e3", "e4"}
    TagsOf <- MCTagsOf
    ValueOf <- MCValueOf
    MaxWindows = 2
    Calls = {"q1", "q2"}
    Expires = TRUE
    Impls = {"i1", "i2", "i3"}
    None = "none"
    Main = "main"
    Declarations <- MCDeclarations
    MainLists <- MCMainLists
    MaxStack = 6
    Iterators <- MCIterators
    TrueValues = {2, 3}
    Amounts = {0, 2, 3}
    ProportionPpmUnits = 10
    MaxEvents = 1
    Namespaces = {"a", "b"}
    Pods = {"m", "n"}
    LabelMaps <- MCLabels
    RawSelectors <- MCQueries
    Writers = {"w1"}
    Readers = {"r1"}
    Nil = Nil
INVARIANTS
     NothingForgotten RequestsResolved LifetimesNested OrderIrrelevant
    JoinedMeansQuiet ExportedExactly AnswersBacked AdmittedExactly RefusedRightly
     AnswersAreSnapshots ConsumersExact
PROPERTIES
     SourcesRunOn
CHECK_DEADLOCK FALSE
