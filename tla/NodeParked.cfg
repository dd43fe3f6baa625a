\* A chip whose coupler is given its first parking current while the driver runs.
SPECIFICATION Spec
CONSTANTS
    Versions <- MCVersions
    Amps <- MCAmps
    Torn = Torn
    Gone = Gone
    Times <- Times3
    Inodes <- OneInode
    MaxJobs = 1
    MaxStarts = 1
    MaxFaults = 0
INVARIANTS
    CouplerIsParkedAsDeclared
CHECK_DEADLOCK FALSE
