\* process_monitor.py: monitoring with -c 2 and with no limit, the target
\* given by name, by pid or not at all; the pid changes hands twice.
SPECIFICATION Spec
CONSTANTS
    Counts = {0, 2}
    Hows = {"name", "pid", "none"}
    MaxGen = 3
    MaxRows = 2
PROPERTY MonitorEnds
