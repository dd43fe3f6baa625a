\* A tuner that saves twice, killed or interrupted by an operator twice.
SPECIFICATION Spec
CONSTANTS
    v0 = v0
    v1 = v1
    Versions <- MCVersions
    Torn = Torn
    Gone = Gone
    Times <- AnyTime
    Inodes <- AnyTime
    MaxSaves = 2
    MaxMishaps = 2
INVARIANTS
    TypeOK
    SaveNeverTearsTheFile
PROPERTIES
    ReplacedVersionIsKept
    
SYMMETRY Interchangeable
CHECK_DEADLOCK FALSE
