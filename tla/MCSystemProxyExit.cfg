\* One command at a time, nothing fails and nothing is killed.
CONSTANTS
    Callers = {c1}
    Shell = shell
    NumSlots = 2
    MaxPort = 1
    HastyQuit = TRUE
    Crashes = FALSE
    Faults = FALSE
    Roaming = FALSE
SPECIFICATION Spec
INVARIANT NothingLeftOnExit
