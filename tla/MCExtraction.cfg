CONSTANTS
    Keys <- MCKeys
    Day <- MCDay
    Matching <- MCMatching
    Nested <- MCNested
    Contents <- MCContents
    Buckets <- MCBuckets
    Requests <- MCRequests
    PageSize = 2
    DayLength = 2
    MaxChanges = 2
    None = None
SPECIFICATION FairSpec
INVARIANTS SteadyFilesFound MissingDaysTrue OutputExact StatsTrue NothingLeftOut
PROPERTIES ExtractionEnds
CHECK_DEADLOCK FALSE
