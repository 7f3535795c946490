\* Tracing a program live: strace started, waited for with a timeout and
\* terminated, two processes of the traced program making calls.
CONSTANTS
    Names <- MCNames
    Files <- MCNoFiles
    Modes = {"program", "none"}
    Formats = {"text"}
    FsStates = {"file"}
    Procs = {p1, p2}
    MaxCalls = 1
    NoProc = NoProc

SPECIFICATION Spec

PROPERTY Terminates
