SPECIFICATION QuerySpec
CONSTANTS
    Names = {1, 2}
    Depth = 3
    Paths <- MCPaths
    Under <- MCUnder
    h1 = h1
    h2 = h2
    Values = {h1, h2}
    ManifestOf <- MCManifestOf
    NoFile = NoFile
    NoChange = NoChange
    Deleted = Deleted
    ParsePredicate <- Parse
    EvaluatePredicate <- Evaluate
    Denotes <- Holds
    Alphabet <- MCAlphabet
    Openings <- MCOpenings
    MaxTokens = 5
    Samples <- MCSamples
    Others <- MCOthers
    TrackedPaths <- MCTracked
    ManifestPaths <- MCManifestPaths
    TextBefore <- MCTextBefore
    PathPrefixes <- MCPrefixes
    Wheres <- MCWheres
    Limits = {0, 1, 2}
    MaxLimit = 3
    MaxCommits = 2
INVARIANTS TreeCodeExact MeansWhatItSays PagesOfOneCommit DiffExact
CHECK_DEADLOCK FALSE
