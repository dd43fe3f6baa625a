\* A process driver that serves two jobs while its device config moves twice.
SPECIFICATION FairSpec
CONSTANTS
    Versions <- MCVersions
    Amps <- MCAmps
    Torn = Torn
    Gone = Gone
    Times <- Times3
    Inodes <- OneInode
    MaxJobs = 2
    MaxStarts = 1
    MaxFaults = 1
INVARIANTS
    TypeOK
    AnswersComeInOrder
    SignatureVouches
PROPERTIES
    JobIsAnswered
CHECK_DEADLOCK FALSE
