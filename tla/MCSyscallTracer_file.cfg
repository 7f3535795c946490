\* Reading a trace file given with -f, every report format and --visualize.
CONSTANTS
    Names <- MCNames
    Files <- MCFiles
    Modes = {"file"}
    Formats = {"text", "json"}
    FsStates = {"file", "absent", "dir", "unreadable"}
    Procs = {p1}
    MaxCalls = 0
    NoProc = NoProc

SPECIFICATION Spec

INVARIANT TypeOK
INVARIANT CallCountsMatchSpec
INVARIANT TopCallsOrdered
INVARIANT TextCategoriesPartition
INVARIANT ScriptsDifferOnlyBySplitsAndBareMinusOne
