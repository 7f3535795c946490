\* proc_analyzer.py on two pids, three processes in all (so a pid can be
\* reused), with the statistics limited to the first entry of two.
SPECIFICATION Spec
CONSTANTS
    Pids = {1, 2}
    MaxGen = 3
    Limit = 1
    MaxRounds = 3
    OptChoices = {{"all", "monitor"}, {"stats", "nolarge"}, {}, {"detail", "io", "report", "nolarge"}}
    DetailPid = 1
INVARIANT TypeOK DiffMissesOnlyReused
