\* The two tree commands and kill_process on a table of four pids (init
\* and three others, which may be running, zombies or free), while up to
\* two processes start (MaxGen 3) and any exit and are reaped.
SPECIFICATION Spec
CONSTANTS
    Pids = {1, 2, 3, 4}
    MaxGen = 3
    Tools = {"monitor", "manager", "kill"}
    Targets = {2}
INVARIANT WalkMatchesReference StableShown
