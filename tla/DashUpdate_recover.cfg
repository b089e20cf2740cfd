SPECIFICATION FairSpec
CONSTANTS
    Jobs <- MCJobs
    Installs <- MCInstalls
    Requests <- MCRequests
    Catalog <- MCCatalog
    Archives <- MCArchives
    Observations <- MCObservations
    MaxFaults = 2
    MaxBytes = 2
    MaxEntries = 2
    MaxExtract = 2
    StablePolls = 2
    InspectFails = FALSE
    ManualCLI = TRUE
PROPERTIES TransactionResolved
CHECK_DEADLOCK FALSE
