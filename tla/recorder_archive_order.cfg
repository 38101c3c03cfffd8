SPECIFICATION Spec
CONSTANTS
    first = first  second = second  agreed = agreed  changed = changed
    Recorder = {first, second}
    Controls = {agreed, changed}
    Contract = {agreed}
    Natural = {6}
    Guard = 5  Wait = 2  Call = 1  Window = 6
    LastStart = 2
    Horizon = 8
    NoJob = NoJob  NoSnapshot = NoSnapshot
SYMMETRY Symmetric
PROPERTIES ReadsAfterRestore
CHECK_DEADLOCK FALSE
