---------------------------- MODULE MCDeviceFile ----------------------------
EXTENDS DeviceFile, TLC

CONSTANTS v0, v1

\* More times than the bounds let be written: a step past them would be refused.
AnyTime == 1 .. 40

\* One calibration is as good as another to the file.
MCVersions == {v0, v1}
Interchangeable == Permutations(MCVersions)

=============================================================================
