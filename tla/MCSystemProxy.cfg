\* One command at a time, with crashes and failing commands anywhere.
CONSTANTS
    Callers = {c1}
    Shell = shell
    NumSlots = 3
    MaxPort = 2
    HastyQuit = FALSE
    Crashes = TRUE
    Faults = TRUE
    Roaming = FALSE
SPECIFICATION Spec
INVARIANTS TypeOK Repairable SnapshotIsUsers SwitchIsTrue
