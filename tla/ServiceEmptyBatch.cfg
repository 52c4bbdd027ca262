SPECIFICATION ServiceSpec
CONSTANTS
    None = None
    NoURL = NoURL
    Loopback = {"localhost"}
    VerboseErrors = FALSE
    MaxInt32 = 3
    MaxBatchSize = 3
    OwnBatches = {TRUE, FALSE}
    Calls <- MCCalls
    Batches <- MCBatches
    Decisions <- MCDecisions
    BatchResults <- MCBatchResults
    SearchResults <- MCSearchResults
    Issuer <- MCIssuer
    Documents <- MCDocuments
INVARIANT EmptyBatchAnsweredSingly
