--------------------------- MODULE StraceProducer ---------------------------
(***************************************************************************)
(* The trace producer that SyscallTracer.trace_program starts:             *)
(*   strace -f -tt -T -e trace=all -o <output_file> <program> <args>        *)
(* (syscall_tracer.py, lines 51-63).  This is the external collaborator:   *)
(* the traced program's processes enter and leave system calls in any      *)
(* interleaving, and strace writes one line per call to the output file.   *)
(*                                                                         *)
(* The output rules modelled are strace's own: with -f and -o every line   *)
(* starts with the pid of its process; -T appends " <secs>" to each        *)
(* completed call; when the line of a call that has not returned yet must  *)
(* give way to the line of another process, strace ends it with            *)
(* " <unfinished ...>" and later prints the return as                      *)
(* "<... name resumed> ...) = result <secs>".  The traced program's        *)
(* processes are a fixed set (fork is not modelled).                       *)
(***************************************************************************)
EXTENDS Naturals, Sequences, TraceLine

CONSTANTS Procs,      \* the traced program's processes
          MaxCalls,   \* bound on the system calls each process makes
          NoProc      \* model value: no call line is open

ASSUME MaxCalls \in Nat /\ NoProc \notin Procs

VARIABLES child,      \* "none" before Popen, then "running", then "exited"
          signalled,  \* process.terminate() has sent SIGTERM to strace
          procs,      \* per process: "idle" or the name of the call it is in
          openLine,   \* the process whose call line is open in the file
          trace,      \* the lines written to the output file
          calls       \* per process: the calls it has completed

straceVars == <<child, signalled, procs, openLine, trace, calls>>

\* -f together with -o makes strace print the pid in front of every line
LinePfx == "pid"

\* -T: every completed call carries its elapsed time; errors carry errno text
StraceTails ==
    { <<"0", "sp", "lt", "0", "gt", "nl">>,
      <<"-", "1", "sp", "E", "sp", "lt", "0", "gt", "nl">> }

\* the open line of another process, closed with " <unfinished ...>"
CloseOpen(except) ==
    IF openLine \in Procs \ {except}
    THEN <<MkLine(LinePfx, "unfinished", procs[openLine], <<>>)>>
    ELSE <<>>

StraceInit ==
    /\ child = "none"
    /\ signalled = FALSE
    /\ procs = [p \in Procs |-> "idle"]
    /\ openLine = NoProc
    /\ trace = <<>>
    /\ calls = [p \in Procs |-> 0]

\* Process p enters system call n; strace starts its line.
Enter(p, n) ==
    /\ child = "running" /\ ~signalled
    /\ procs[p] = "idle"
    /\ calls[p] < MaxCalls
    /\ trace' = trace \o CloseOpen(p)
    /\ openLine' = p
    /\ procs' = [procs EXCEPT ![p] = n]
    /\ UNCHANGED <<child, signalled, calls>>

\* Process p returns from its call with the result text t.
Exit(p, t) ==
    /\ child = "running" /\ ~signalled
    /\ procs[p] \in Names
    /\ trace' = trace \o CloseOpen(p)
                      \o <<MkLine(LinePfx, IF openLine = p THEN "call" ELSE "resumed",
                                  procs[p], t)>>
    /\ openLine' = NoProc
    /\ procs' = [procs EXCEPT ![p] = "idle"]
    /\ calls' = [calls EXCEPT ![p] = @ + 1]
    /\ UNCHANGED <<child, signalled>>

\* The program ends; strace prints "+++ exited with 0 +++" and exits.
ProgramExit ==
    /\ child = "running" /\ ~signalled
    /\ \A p \in Procs : procs[p] = "idle"
    /\ trace' = trace \o <<MkLine(LinePfx, "noise", CHOOSE n \in Names : TRUE, <<>>)>>
    /\ child' = "exited"
    /\ UNCHANGED <<signalled, procs, openLine, calls>>

\* strace after SIGTERM: ends the open line, detaches and exits.
ExitOnSigterm ==
    /\ child = "running" /\ signalled
    /\ trace' = trace \o CloseOpen(NoProc)
    /\ openLine' = NoProc
    /\ child' = "exited"
    /\ UNCHANGED <<signalled, procs, calls>>

StraceStep ==
    \/ \E p \in Procs, n \in Names : Enter(p, n)
    \/ \E p \in Procs, t \in StraceTails : Exit(p, t)
    \/ ProgramExit
    \/ ExitOnSigterm

=============================================================================
