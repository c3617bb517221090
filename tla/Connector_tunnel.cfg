SPECIFICATION FairSpec
CONSTANTS
    MaxUp = 3
    MaxDown = 3
    Space = 2
INVARIANTS
    TypeOK
    UploadArrives
    DownloadArrives
PROPERTIES
    UploadInOrder
    DownloadInOrder
    ConnectionEnds
    EndsOnceClientWrites
CHECK_DEADLOCK FALSE
