SPECIFICATION SuiteSpec
CONSTANTS
    Unset = Unset
    Jobs = {1, 2}
    Posts = {"p", "q"}
    Pages = 1
    Writers = {"u", "v", "w"}
    Processes = {"P", "Q"}
    Payloads = {"a", "b"}
    Taggers = {1, 2, 3}
    Tags = {"x", "y"}
    Length = 5
    HeaderCosts = {1, 2, 3, 4, 5}
    TokenLimit = 6
    SplitTarget = 5
    SuffixCost = 1
    Rows <- MCRows
    Concepts = {"c", "n", "N"}
    Key <- MCKey
    Candidates = {"c"}
    Generated = {"g", "h"}
    MaxLabels = 2
    Documents = {"d1", "d2"}
    Versions = {1, 2}
    Terms = {"x", "y"}
    Observed <- MCObserved
    MaxFailures = 1
    Indexers = {"p", "q"}
    SourceVersions = {1, 2, 3}
    Records <- MCRecords
    Details = {"a", "b"}
    Dimensions = {3, 4}
    Configured = 3
    Requests = {1, 2, 3}
    MaxAttempts = 2
    Threshold = 2
    Cooldown = 2
    Probers = {"p", "q"}
    Ttl = 2
    MaxTime = 3
    Overridable = {"clients", "no_index", "retriever", "generator"}
INVARIANTS CallsSound JobsSound FilesSound IndexSound TextsSound ApplicationSound
PROPERTIES CompletedStays
CHECK_DEADLOCK FALSE
