SPECIFICATION Spec
CONSTANTS
    Setups <- MCSetups
    MinSize = 3
    MaxReads = 1
INVARIANTS
    SnapshotIsWhole
    OneEye
CHECK_DEADLOCK FALSE
