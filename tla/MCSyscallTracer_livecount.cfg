\* Does the live mode count the calls the traced program made?
CONSTANTS
    Names <- MCNames
    Files <- MCNoFiles
    Modes = {"program", "none"}
    Formats = {"text"}
    FsStates = {"file"}
    Procs = {p1, p2}
    MaxCalls = 1
    NoProc = NoProc

SPECIFICATION Spec

INVARIANT LiveCallsCounted
