SPECIFICATION Spec
CONSTANTS
    Requests <- TheRequests
    Followers <- TheFollowers
    Cuts = {0, 1, 2, 5, 9}
    MaxPost = 52
    MaxRequests = 2
    DataLen = 3
INVARIANTS RequestsIntact WithinLimit
PROPERTIES TempFilesRemoved
