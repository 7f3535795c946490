--------------------------- MODULE ProcessMonitor ---------------------------
(***************************************************************************)
(* lab1-2-process-monitor/src/process_monitor.py: main()'s monitoring      *)
(* branch and ProcessMonitor.monitor_single_process, against a target pid  *)
(* whose process lives its own life.                                       *)
(*                                                                         *)
(* The pid is held by one process generation after another: a process     *)
(* exits (a zombie until its parent reaps it), and later the kernel may    *)
(* give the pid to a new process.  psutil.Process(pid) records the         *)
(* identity (create time) of the holder at that moment; is_running()       *)
(* compares it with the current holder, and is True for a zombie (psutil   *)
(* documents this).  Whether the other methods detect a reused pid depends *)
(* on the psutil release, so both outcomes are allowed.                    *)
(***************************************************************************)
EXTENDS Naturals

CONSTANTS Counts,     \* the -c values of the run (0 or negative: no limit)
          Hows,       \* how the target is given: "name", "pid", "none"
          MaxGen,     \* bound on the process generations that hold the pid
          MaxRows     \* current_count saturates here; at least every count

VARIABLES owner,      \* the generation holding the pid, 0 if none
          zombie,     \* the holder has exited and is not reaped yet
          gens,       \* generations so far
          how,        \* args.name / args.pid / neither
          count,      \* args.count
          mpc,        \* "select", "create", "name", "check", "sample", "done"
          attached,   \* the generation psutil.Process(pid) attached to
          cur,        \* current_count
          outcome     \* the last message printed

vars == <<owner, zombie, gens, how, count, mpc, attached, cur, outcome>>

Init ==
    /\ owner \in {0, 1} /\ zombie = FALSE /\ gens = 1
    /\ how \in Hows /\ count \in Counts
    /\ mpc = "select" /\ attached = 0 /\ cur = 0
    /\ outcome = "none"

Finish(msg) == mpc' = "done" /\ outcome' = msg

\* main(), lines 251-263: -n takes the first process whose name matches
\* (process_iter lists zombies too), -p takes the pid, neither prints usage.
Select ==
    /\ mpc = "select"
    /\ CASE how = "name" /\ owner = 0 -> Finish("notfound")
         [] how = "none"              -> Finish("usage")
         [] OTHER                     -> mpc' = "create" /\ UNCHANGED outcome
    /\ UNCHANGED <<owner, zombie, gens, how, count, attached, cur>>

\* lines 77-81: psutil.Process(pid), or "does not exist" and return
Create ==
    /\ mpc = "create"
    /\ IF owner = 0
       THEN Finish("nosuch") /\ UNCHANGED attached
       ELSE mpc' = "name" /\ attached' = owner /\ UNCHANGED outcome
    /\ UNCHANGED <<owner, zombie, gens, how, count, cur>>

\* line 83: process.name() outside the method's try.  NoSuchProcess goes up
\* to main()'s except Exception, which prints a generic error.  A reused pid
\* yields the new process's name or NoSuchProcess, depending on psutil.
Name ==
    /\ mpc = "name"
    /\ \/ owner = attached /\ mpc' = "check" /\ UNCHANGED outcome
       \/ owner # attached /\ Finish("error")
       \/ owner \notin {0, attached} /\ mpc' = "check" /\ UNCHANGED outcome
    /\ UNCHANGED <<owner, zombie, gens, how, count, attached, cur>>

\* a liveness test by pid alone (os.kill(pid, 0), psutil.pid_exists)
CheckPidOnly ==
    /\ mpc = "check"
    /\ IF owner # 0
       THEN mpc' = "sample" /\ UNCHANGED outcome
       ELSE Finish("terminated")
    /\ UNCHANGED <<owner, zombie, gens, how, count, attached, cur>>

\* lines 96-98: if not process.is_running(): "terminated", break
Check ==
    /\ mpc = "check"
    /\ IF owner = attached
       THEN mpc' = "sample" /\ UNCHANGED outcome
       ELSE Finish("terminated")
    /\ UNCHANGED <<owner, zombie, gens, how, count, attached, cur>>

\* lines 100-123: the oneshot reads and the row, current_count += 1, stop
\* after count rows when count > 0, else sleep(interval) and loop.  A read
\* of a pid with no process raises NoSuchProcess, caught at line 125.
Sample ==
    /\ mpc = "sample"
    /\ LET row == /\ cur' = IF cur < MaxRows THEN cur + 1 ELSE cur
                  /\ IF count > 0 /\ cur + 1 >= count
                     THEN Finish("finished")
                     ELSE mpc' = "check" /\ UNCHANGED outcome
       IN  \/ owner = attached /\ row
           \/ owner # attached /\ Finish("terminated") /\ UNCHANGED cur
           \/ owner \notin {0, attached} /\ row
    /\ UNCHANGED <<owner, zombie, gens, how, count, attached>>

\* Ctrl+C: KeyboardInterrupt, caught at line 127 or in main()
Interrupt ==
    /\ mpc # "done"
    /\ Finish("interrupted")
    /\ UNCHANGED <<owner, zombie, gens, how, count, attached, cur>>

-----------------------------------------------------------------------------
(* The target's life, outside the program.                                 *)
TargetExit ==
    /\ owner # 0 /\ ~zombie
    /\ zombie' = TRUE
    /\ UNCHANGED <<owner, gens, how, count, mpc, attached, cur, outcome>>

\* the parent reaps the zombie: the pid is free
Reap ==
    /\ zombie
    /\ owner' = 0 /\ zombie' = FALSE
    /\ UNCHANGED <<gens, how, count, mpc, attached, cur, outcome>>

\* the kernel hands the free pid to a new process
PidReuse ==
    /\ owner = 0 /\ gens < MaxGen
    /\ owner' = gens + 1 /\ gens' = gens + 1
    /\ UNCHANGED <<zombie, how, count, mpc, attached, cur, outcome>>

MonitorStep == Select \/ Create \/ Name \/ Check \/ Sample

Next == MonitorStep \/ Interrupt \/ TargetExit \/ Reap \/ PidReuse
        \/ (mpc = "done" /\ UNCHANGED vars)

(* The monitor's own steps are fair (time.sleep returns); Ctrl+C, the      *)
(* target's exit and pid reuse are not.  The target's parent reaps it:     *)
(* true of a shell, of systemd and of a parent that waits.                 *)
Spec == Init /\ [][Next]_vars /\ WF_vars(MonitorStep) /\ WF_vars(Reap)

-----------------------------------------------------------------------------
(* monitor_single_process ends (with "finished", "terminated" or an error) *)
(* once its loop runs with a positive count, or once the process it        *)
(* attached to no longer holds the pid: is_running() compares identities,  *)
(* so neither a dead pid nor a reused one keeps the loop going.            *)
MonitorEnds ==
    (mpc \in {"check", "sample"} /\ (count > 0 \/ owner # attached)) ~> mpc = "done"

=============================================================================
