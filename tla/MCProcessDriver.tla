-------------------------- MODULE MCProcessDriver --------------------------
EXTENDS ProcessDriver

\* The chip as it came, with no current for its coupler, and a calibration.
MCVersions == {"v0", "v1"}
MCAmps == [v \in MCVersions |-> IF v = "v0" THEN 0 ELSE 1]

Times3 == 1 .. 3
OneInode == {1}

=============================================================================
