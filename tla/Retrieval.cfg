SPECIFICATION Spec
CONSTANTS
    Documents = {"report", "memo"}
    KBs = {"kb1", "kb2"}
    Granted <- MCGranted
    BatchSize = 1
    Rows <- MCRows
    Stampings <- MCStampings
    Stored <- MCStored
    Principals <- MCPrincipals
    Settings <- MCSettings
    Requested <- MCRequested
    Oversampled = 2
    TopK = 2
    MinResults = 2
    MaxRounds = 1
    Window = 1
    MaxTotal = 4
    MaxRestamps = 1
    MaxChanges = 2
INVARIANTS TypeOK StrictShown OneDocument FilterHeld
PROPERTIES MergeKeepsHits RecheckPromise RetrievalEnds
