SPECIFICATION ServiceSpec
CONSTANTS
    Parts = {"access", "write", "edit"}
    Nothing = Nothing
    ShortNames <- MCShortNames
    Ambiguous <- MCAmbiguous
    SensitiveParts <- MCSensitiveParts
    SensitivePairs <- MCSensitivePairs
    SensitiveFiles <- MCSensitiveFiles
    AllowedRoots <- MCAllowedRoots
    StartTree <- MCStartTree
    Creations <- MCCreations
    Policies <- MCPolicies
    Asks <- MCAsks
    MaxOutput = 6 MaxSize = 7 MaxChanges = 2 MaxAskFaults = 1
    Workers = {w1, w2}
    Requests <- MCRequests
    EditOf <- MCEditOf
    Contents <- MCContents
    Foreign <- MCForeign
    Absent = "absent" Partial = "partial"
    MaxJobs = 3 MaxForeign = 1 MaxFaults = 2
    TextFiles <- MCTextFiles TextEdits <- MCTextEdits
INVARIANTS  WalkIsComplete AnswerIsRecorded
           BackupHoldsWhatWasReplaced EditIsExact OncePerRequest InterruptedIsPending
CHECK_DEADLOCK FALSE
