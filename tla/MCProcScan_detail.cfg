\* analyze_process_details on pid 1 while pid 1 may exit, be reaped and be
\* given to a new process: do its sections describe one process?
SPECIFICATION Spec
CONSTANTS
    Pids = {1, 2}
    MaxGen = 3
    Limit = 1
    MaxRounds = 3
    OptChoices = {{"all", "monitor"}, {"stats", "nolarge"}, {}, {"detail", "io", "report", "nolarge"}}
    DetailPid = 1
INVARIANT DetailOneProcess
