CONSTANTS
    Keys <- MCKeys
    Day <- MCDay
    Matching <- MCMatching
    Nested <- MCNested
    Contents <- MCContents
    Buckets <- MCBuckets
    Requests <- MCRequests
    PageSize = 2
    DayLength = 2
    MaxChanges = 0
    None = None
SPECIFICATION Spec
INVARIANTS ColumnsPreserved
CHECK_DEADLOCK FALSE
