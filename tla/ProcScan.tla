------------------------------ MODULE ProcScan ------------------------------
(***************************************************************************)
(* lab1-2-process-monitor/src/proc_analyzer.py: main() runs the analyses   *)
(* its options select, one after another, while the processes under /proc *)
(* start, exit, are reaped and have their pids reused.                     *)
(*                                                                         *)
(* A process is a record: its state letter ("R", or "Z" once it exited and *)
(* until it is reaped, "none" when the pid is free), its identity (the     *)
(* generation that holds the pid) and its effective uid (0 or another).  *)
(* Whether a status file has a VmRSS above 0 kB is left out: it only      *)
(* selects what the memory list prints.  Listing /proc (Path.iterdir,     *)
(* which reads the whole directory first) gives the                       *)
(* pids in ascending order.  A status file opened for a process keeps      *)
(* referring to it: read() after the process was reaped fails with ESRCH, *)
(* which Python raises as ProcessLookupError.                              *)
(***************************************************************************)
EXTENDS Naturals, Sequences, SequencesExt, FiniteSets

CONSTANTS Pids,       \* the pids of the model
          MaxGen,     \* bound on the processes that ever exist
          Limit,      \* process_dirs[:1000] in get_process_statistics
          MaxRounds,  \* bound on monitor_process_changes's rounds
          OptChoices, \* the option sets of the runs
          DetailPid   \* the pid given to --process-detail

NoProc == [st |-> "none", gen |-> 0, uid |-> 0]

VARIABLES proc,       \* pid -> the process holding it
          nextGen,    \* identity of the next process to start
          plan,       \* the analyses main() calls, in order
          opIdx,      \* the analysis running
          phase,      \* its step: "list", "open", "read"
          listing,    \* the pids the scan listed
          scanI,      \* the listed entry the scan is at
          opened,     \* identity the opened status file refers to
          stateCount, \* get_process_statistics's state_count
          userProcs,  \* user_processes
          kernelProcs,\* kernel_processes
          statsOut,   \* "none", "dist" (distribution printed) or "error"
          prevPids,   \* monitor_process_changes's previous_processes
          rounds,     \* monitor rounds so far
          report,     \* the last round's counts, and what really changed
          prevIds,    \* history: the identities at the previous snapshot
          mainEnd,    \* "none", or how main() ended early: "error", "interrupted"
          section,    \* the /proc/<pid> file analyze_process_details is at
          detailSeen, \* the identities whose files it printed
          detailOut   \* "none", "absent", "shown" or "error"

vars == <<proc, nextGen, plan, opIdx, phase, listing, scanI, opened, stateCount,
          userProcs, kernelProcs, statsOut, prevPids, rounds, report, prevIds, mainEnd,
          section, detailSeen, detailOut>>

Live == {p \in Pids : proc[p].st # "none"}

Ids == {<<p, proc[p].gen>> : p \in Live}

\* main(), lines 433-483.  An option set holds what the model distinguishes:
\* "all", "stats" (--process-stats), "detail" (--process-detail DetailPid),
\* "io", "monitor", "report" (--report FILE) and "nolarge" (--top-memory 0);
\* the truthy options, as --top-memory defaults to 10,
\* and the calls they make, in the order of the if statements.
Truthy(o) == (o \ {"nolarge"}) \cup (IF "nolarge" \in o THEN {} ELSE {"large"})

Plan(o) ==
    LET t == Truthy(o)
    IN  (IF "all" \in t \/ t = {} THEN <<"system", "memory", "cpu", "stats", "large">>
                                  ELSE <<>>)
        \o SelectSeq(<<"stats", "detail", "io", "large", "monitor", "report">>,
                     LAMBDA a : a \in t)

Init ==
    /\ \E live \in SUBSET Pids :
          \E uid \in [live -> {0, 1}] :
             /\ proc = [p \in Pids |-> IF p \in live
                                       THEN [st |-> "R", gen |-> 1, uid |-> uid[p]]
                                       ELSE NoProc]
    /\ nextGen = 2
    /\ \E o \in OptChoices : plan = Plan(o)
    /\ opIdx = 1 /\ phase = "list" /\ listing = <<>> /\ scanI = 1 /\ opened = 0
    /\ stateCount = [s \in {"R", "Z"} |-> 0] /\ userProcs = 0 /\ kernelProcs = 0
    /\ statsOut = "none"
    /\ prevPids = {} /\ rounds = 0
    /\ report = [new |-> 0, dead |-> 0, started |-> 0, ended |-> 0]
    /\ prevIds = {}
    /\ mainEnd = "none"
    /\ section = 1 /\ detailSeen = {} /\ detailOut = "none"

Running == opIdx <= Len(plan) /\ mainEnd = "none"

Op == plan[opIdx]

scanVars == <<listing, scanI, opened, stateCount, userProcs, kernelProcs, statsOut,
              section, detailSeen, detailOut>>
detVars == <<section, detailSeen, detailOut>>
monVars == <<prevPids, rounds, report, prevIds>>

\* the next analysis
NextOp == opIdx' = opIdx + 1 /\ phase' = "list"

\* get_system_overview, analyze_memory_info, analyze_cpu_info: they read
\* system-wide /proc files and print; no process state is involved.
ReadSystemFile ==
    /\ Running /\ Op \in {"system", "memory", "cpu"}
    /\ NextOp
    /\ UNCHANGED <<proc, nextGen, plan, mainEnd, scanVars, monVars>>

\* process_dirs = [d for d in /proc.iterdir() if d.name.isdigit()]
\* (find_large_processes iterates the same listing).  get_process_statistics
\* starts from zero counts.
ScanList ==
    /\ Running /\ Op \in {"stats", "large"} /\ phase = "list"
    /\ listing' = SetToSortSeq(Live, <)
    /\ scanI' = 1
    /\ phase' = "open"
    /\ IF Op = "stats"
       THEN /\ stateCount' = [s \in {"R", "Z"} |-> 0]
            /\ userProcs' = 0 /\ kernelProcs' = 0
       ELSE UNCHANGED <<stateCount, userProcs, kernelProcs>>
    /\ UNCHANGED <<proc, nextGen, plan, opIdx, opened, statsOut, mainEnd, monVars, detVars>>

\* the entries a scan visits: the first Limit for the statistics, all for
\* the memory list
ScanBound == IF Op = "stats" THEN Min({Len(listing), Limit}) ELSE Len(listing)

\* status_file.exists() and open(status_file): a pid with no process is
\* skipped (False, or FileNotFoundError and continue); the file opened is
\* that of whichever process holds the pid now.  After the last entry the
\* statistics print the distribution; the memory list is sorted and printed.
ScanOpen ==
    /\ Running /\ Op \in {"stats", "large"} /\ phase = "open"
    /\ \/ /\ scanI > ScanBound
          /\ statsOut' = IF Op = "stats" THEN "dist" ELSE statsOut
          /\ NextOp
          /\ UNCHANGED <<scanI, opened>>
       \/ /\ scanI <= ScanBound /\ proc[listing[scanI]].st = "none"
          /\ scanI' = scanI + 1
          /\ UNCHANGED <<opIdx, phase, opened, statsOut>>
       \/ /\ scanI <= ScanBound /\ proc[listing[scanI]].st # "none"
          /\ opened' = proc[listing[scanI]].gen
          /\ phase' = "read"
          /\ UNCHANGED <<opIdx, scanI, statsOut>>
    /\ UNCHANGED <<proc, nextGen, plan, listing, stateCount, userProcs, kernelProcs,
                   mainEnd, monVars, detVars>>

\* the uid test written as two ifs: a root process is also a user one
CountStatusNoElse(pr) ==
    /\ stateCount' = [stateCount EXCEPT ![pr.st] = @ + 1]
    /\ userProcs' = userProcs + 1
    /\ kernelProcs' = IF pr.uid = 0 THEN kernelProcs + 1 ELSE kernelProcs

\* get_process_statistics, lines 150-162: state_count[State] += 1, and
\* kernel_processes or user_processes by the effective Uid
CountStatus(pr) ==
    /\ stateCount' = [stateCount EXCEPT ![pr.st] = @ + 1]
    /\ userProcs' = IF pr.uid = 0 THEN userProcs ELSE userProcs + 1
    /\ kernelProcs' = IF pr.uid = 0 THEN kernelProcs + 1 ELSE kernelProcs

\* f.read() of the opened status file.  The statistics count the State
\* letter and the effective Uid (0 as a "kernel" process); the memory list
\* keeps a process with a Name and a VmRSS above 0.  If the process was
\* reaped since the open, read() raises ProcessLookupError: the statistics'
\* except Exception prints that they cannot count, and find_large_processes,
\* whose except names PermissionError, FileNotFoundError and ValueError
\* only, lets it reach main()'s except Exception.
ScanRead ==
    /\ Running /\ Op \in {"stats", "large"} /\ phase = "read"
    /\ LET pr == proc[listing[scanI]] IN
       \/ /\ pr.st # "none" /\ pr.gen = opened
          /\ scanI' = scanI + 1 /\ phase' = "open"
          /\ IF Op = "stats" THEN CountStatus(pr)
                             ELSE UNCHANGED <<stateCount, userProcs, kernelProcs>>
          /\ UNCHANGED <<opIdx, statsOut, mainEnd>>
       \/ /\ ~(pr.st # "none" /\ pr.gen = opened)
          /\ IF Op = "stats"
             THEN statsOut' = "error" /\ NextOp /\ UNCHANGED mainEnd
             ELSE mainEnd' = "error" /\ UNCHANGED <<opIdx, phase, statsOut>>
          /\ UNCHANGED <<scanI, stateCount, userProcs, kernelProcs>>
    /\ UNCHANGED <<proc, nextGen, plan, listing, opened, monVars, detVars>>

\* analyze_io_info: /proc/diskstats and /proc/vmstat are read and printed;
\* its except Exception prints any error.  No process state is involved.
ReadIoInfo ==
    /\ Running /\ Op = "io"
    /\ NextOp
    /\ UNCHANGED <<proc, nextGen, plan, mainEnd, scanVars, monVars>>

\* generate_report: version, uptime and meminfo each in their own try, the
\* count of the process directories, then json.dump to the file; its
\* except Exception prints any error.  The count is printed only.
GenerateReport ==
    /\ Running /\ Op = "report"
    /\ NextOp
    /\ UNCHANGED <<proc, nextGen, plan, mainEnd, scanVars, monVars>>

-----------------------------------------------------------------------------
(* analyze_process_details(pid), lines 183-264: proc_dir.exists(), then     *)
(* for status, stat, maps and the fd directory in turn: X.exists(), open   *)
(* (iterdir for fd), read.  Each file is looked up through /proc/<pid>     *)
(* again, so it belongs to whichever process holds the pid at that moment. *)
(* An error of open or read (ProcessLookupError once the process is        *)
(* reaped) reaches the outer except Exception, which prints it and returns.*)
DetailSections == 4

DetailCheck ==
    /\ Running /\ Op = "detail" /\ phase = "list"
    /\ IF proc[DetailPid].st = "none"
       THEN detailOut' = "absent" /\ NextOp /\ UNCHANGED <<section, detailSeen>>
       ELSE /\ phase' = "open" /\ section' = 1 /\ detailSeen' = {}
            /\ detailOut' = "shown" /\ UNCHANGED opIdx
    /\ UNCHANGED <<proc, nextGen, plan, listing, scanI, opened, stateCount, userProcs,
                   kernelProcs, statsOut, mainEnd, monVars>>

\* X.exists() and open(X): a missing file is skipped
DetailOpen ==
    /\ Running /\ Op = "detail" /\ phase = "open"
    /\ \/ /\ section > DetailSections
          /\ NextOp /\ UNCHANGED <<section, opened>>
       \/ /\ section <= DetailSections /\ proc[DetailPid].st = "none"
          /\ section' = section + 1
          /\ UNCHANGED <<opIdx, phase, opened>>
       \/ /\ section <= DetailSections /\ proc[DetailPid].st # "none"
          /\ opened' = proc[DetailPid].gen /\ phase' = "read"
          /\ UNCHANGED <<opIdx, section>>
    /\ UNCHANGED <<proc, nextGen, plan, listing, scanI, stateCount, userProcs,
                   kernelProcs, statsOut, mainEnd, monVars, detailSeen, detailOut>>

\* the read of the opened file, and the lines printed from it
DetailRead ==
    /\ Running /\ Op = "detail" /\ phase = "read"
    /\ IF proc[DetailPid].st # "none" /\ proc[DetailPid].gen = opened
       THEN /\ detailSeen' = detailSeen \cup {opened}
            /\ section' = section + 1 /\ phase' = "open"
            /\ UNCHANGED <<opIdx, detailOut>>
       ELSE detailOut' = "error" /\ NextOp /\ UNCHANGED <<section, detailSeen>>
    /\ UNCHANGED <<proc, nextGen, plan, listing, scanI, opened, stateCount, userProcs,
                   kernelProcs, statsOut, mainEnd, monVars>>

\* a monitor round that takes the set differences the wrong way round
MonitorRoundSwapped ==
    /\ Running /\ Op = "monitor" /\ rounds < MaxRounds
    /\ IF prevPids # {}
       THEN report' = [new |-> Cardinality(prevPids \ Live), dead |-> Cardinality(Live \ prevPids),
                       started |-> Cardinality(Ids \ prevIds), ended |-> Cardinality(prevIds \ Ids)]
       ELSE UNCHANGED report
    /\ prevPids' = Live /\ prevIds' = Ids /\ rounds' = rounds + 1
    /\ UNCHANGED <<proc, nextGen, plan, opIdx, phase, mainEnd, scanVars>>

\* monitor_process_changes, one round of its while loop: the pid set of
\* /proc, new and dead pids against the previous round (from the second
\* round on), then previous_processes = current_processes and sleep.
\* started/ended record what really happened, by identity.
MonitorRound ==
    /\ Running /\ Op = "monitor" /\ rounds < MaxRounds
    /\ IF prevPids # {}
       THEN report' = [new |-> Cardinality(Live \ prevPids), dead |-> Cardinality(prevPids \ Live),
                       started |-> Cardinality(Ids \ prevIds), ended |-> Cardinality(prevIds \ Ids)]
       ELSE UNCHANGED report
    /\ prevPids' = Live /\ prevIds' = Ids /\ rounds' = rounds + 1
    /\ UNCHANGED <<proc, nextGen, plan, opIdx, phase, mainEnd, scanVars>>

\* Ctrl+C: the monitor catches KeyboardInterrupt and returns, and main()
\* goes on; during any other analysis main()'s own handler ends it.
Interrupt ==
    /\ Running
    /\ IF Op = "monitor"
       THEN NextOp /\ UNCHANGED mainEnd
       ELSE mainEnd' = "interrupted" /\ UNCHANGED <<opIdx, phase>>
    /\ UNCHANGED <<proc, nextGen, plan, scanVars, monVars>>

-----------------------------------------------------------------------------
(* The processes, outside the program; they move while main() runs.       *)
Spawn(p) ==
    /\ Running /\ proc[p].st = "none" /\ nextGen <= MaxGen
    /\ \E uid \in {0, 1} :
          proc' = [proc EXCEPT ![p] = [st |-> "R", gen |-> nextGen, uid |-> uid]]
    /\ nextGen' = nextGen + 1
    /\ UNCHANGED <<plan, opIdx, phase, mainEnd, scanVars, monVars>>

\* exit: a zombie keeps its status file until it is reaped
Exit(p) ==
    /\ Running /\ proc[p].st = "R"
    /\ proc' = [proc EXCEPT ![p].st = "Z"]
    /\ UNCHANGED <<nextGen, plan, opIdx, phase, mainEnd, scanVars, monVars>>

Reap(p) ==
    /\ Running /\ proc[p].st = "Z"
    /\ proc' = [proc EXCEPT ![p] = NoProc]
    /\ UNCHANGED <<nextGen, plan, opIdx, phase, mainEnd, scanVars, monVars>>

Done == ~Running /\ UNCHANGED vars

Next ==
    \/ ReadSystemFile \/ ScanList \/ ScanOpen \/ ScanRead \/ MonitorRound \/ Interrupt
    \/ ReadIoInfo \/ GenerateReport \/ DetailCheck \/ DetailOpen \/ DetailRead
    \/ \E p \in Pids : Spawn(p) \/ Exit(p) \/ Reap(p)
    \/ Done

Spec == Init /\ [][Next]_vars

-----------------------------------------------------------------------------
TypeOK ==
    /\ \A p \in Pids : proc[p].st \in {"none", "R", "Z"} /\ proc[p].gen \in 0..MaxGen
    /\ opIdx \in 1..Len(plan) + 1
    /\ phase \in {"list", "open", "read"}
    /\ statsOut \in {"none", "dist", "error"}
    /\ detailOut \in {"none", "absent", "shown", "error"}
    /\ mainEnd \in {"none", "error", "interrupted"}
    /\ userProcs + kernelProcs = stateCount["R"] + stateCount["Z"]

(* monitor_process_changes compares pid sets, so a pid that changed hands *)
(* between two rounds is neither new nor dead: the counts it prints fall   *)
(* short of the processes that really started and ended by the same       *)
(* number, the reused pids, and never exceed them.                         *)
DiffMissesOnlyReused ==
    /\ report.new <= report.started
    /\ report.dead <= report.ended
    /\ report.started - report.new = report.ended - report.dead

(* A process that exits while /proc is scanned is skipped, as the scans'  *)
(* except clauses intend: the statistics print their distribution and     *)
(* main() runs every analysis its options select.                          *)
ScanSurvivesExit ==
    ~Running => statsOut # "error" /\ mainEnd # "error"


(* analyze_process_details prints, under one heading for the pid, the     *)
(* status, stat, maps and open files of the process it found: every       *)
(* section it prints comes from one and the same process.                 *)
DetailOneProcess == Cardinality(detailSeen) <= 1

=============================================================================
