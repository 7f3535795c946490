\* A process reaped between the open and the read of its status file, during
\* the statistics or the memory list.
SPECIFICATION Spec
CONSTANTS
    Pids = {1, 2}
    MaxGen = 3
    Limit = 1
    MaxRounds = 3
    OptChoices = {{"all", "monitor"}, {"stats", "nolarge"}, {}, {"detail", "io", "report", "nolarge"}}
    DetailPid = 1
INVARIANT ScanSurvivesExit
