--------------------------- MODULE SyscallTracer ---------------------------
(***************************************************************************)
(* One run of lab1-1-syscall-tracer/src/syscall_tracer.py: main() with     *)
(* either -f <trace file> or a program to trace live, then                 *)
(* parse_trace_file (one step per line of the file, the loop over          *)
(* _parse_trace_line), generate_report in the text or json format, and     *)
(* the optional --visualize step.  In the live mode, trace_program starts  *)
(* strace (module StraceProducer), waits for it with a timeout and         *)
(* terminates it when the timeout expires.                                 *)
(*                                                                         *)
(* The SyscallTracer object's Counters are functions from call names to    *)
(* counts together with the sequence of their keys in insertion order      *)
(* (Python dicts keep it, and most_common breaks ties by it).  Reports are *)
(* kept as the counts they print; percentages, colours and the JSON        *)
(* file's name are left out.                                               *)
(***************************************************************************)
EXTENDS Naturals, Sequences, FiniteSets, SequencesExt, FiniteSetsExt, Functions,
        StraceProducer

CONSTANTS Modes,      \* the command lines run: "file" (-f), "program", "none"
          Formats,    \* the values of -r/--report: "text", "json"
          Files,      \* the trace files that -f may name (sequences of lines)
          FsStates    \* what -f may name: "file", "absent", "dir", "unreadable"

VARIABLES cli,          \* the parsed command line
          straceFound,  \* the strace executable is installed
          fsState,      \* what the path given with -f is
          fileLines,    \* the content of that file when it is a file
          pc,           \* where main() is
          lines,        \* f.readlines() of the trace file
          pos,          \* the lines handed to _parse_trace_line so far
          syscall_stats, order,     \* Counter syscall_stats and its key order
          error_stats, errOrder,    \* Counter error_stats and its key order
          timing_data,  \* list of (syscall, seconds)
          report,       \* what generate_report printed or saved
          exitCode      \* the interpreter's exit status

tracerVars == <<cli, straceFound, fsState, fileLines, pc, lines, pos,
                syscall_stats, order, error_stats, errOrder, timing_data,
                report, exitCode>>
vars == <<tracerVars, straceVars>>

NoReport == [kind |-> "none", total |-> 0, unique |-> 0,
             top |-> <<>>, errors |-> <<>>, categories |-> <<>>]

TotalCalls == SumFunction(syscall_stats)      \* sum(self.syscall_stats.values())

\* Counter[key] += 1, keeping the key order of the underlying dict
Bump(cnt, keys, n) == <<[cnt EXCEPT ![n] = @ + 1],
                        IF cnt[n] = 0 THEN Append(keys, n) ELSE keys>>

-----------------------------------------------------------------------------
Init ==
    /\ cli \in [mode : Modes, format : Formats, visualize : BOOLEAN]
    /\ straceFound \in BOOLEAN
    /\ fsState \in FsStates
    /\ fileLines \in (IF fsState = "file" THEN Files ELSE {<<>>})
    /\ pc = "main"
    /\ lines = <<>> /\ pos = 0
    /\ syscall_stats = [n \in Names |-> 0] /\ order = <<>>
    /\ error_stats = [n \in Names |-> 0] /\ errOrder = <<>>
    /\ timing_data = <<>>
    /\ report = NoReport
    /\ exitCode = 0
    /\ StraceInit

\* main(): -f is checked first, then the program argument, else print_help()
Main ==
    /\ pc = "main"
    /\ pc' = CASE cli.mode = "file"    -> "parse"
               [] cli.mode = "program" -> "spawn"
               [] OTHER                -> "done"
    /\ UNCHANGED <<cli, straceFound, fsState, fileLines, lines, pos, syscall_stats,
                   order, error_stats, errOrder, timing_data, report, exitCode>>
    /\ UNCHANGED straceVars

(* trace_program: subprocess.Popen(strace_cmd).  A missing strace raises   *)
(* FileNotFoundError, reported as the program not being found; the method  *)
(* returns False and main() ends.                                          *)
StartTrace ==
    /\ pc = "spawn"
    /\ \/ /\ straceFound
          /\ child' = "running"
          /\ pc' = "tracing"
       \/ /\ ~straceFound
          /\ pc' = "done"
          /\ UNCHANGED child
    /\ UNCHANGED <<cli, straceFound, fsState, fileLines, lines, pos, syscall_stats,
                   order, error_stats, errOrder, timing_data, report, exitCode>>
    /\ UNCHANGED <<signalled, procs, openLine, trace, calls>>

\* process.wait(timeout=duration) returns: strace has exited
WaitReturns ==
    /\ pc = "tracing"
    /\ child = "exited"
    /\ pc' = "parse"
    /\ UNCHANGED <<cli, straceFound, fsState, fileLines, lines, pos, syscall_stats,
                   order, error_stats, errOrder, timing_data, report, exitCode>>
    /\ UNCHANGED straceVars

\* wait without terminate: the TimeoutExpired handler only waits again
WaitTimeoutNoTerminate ==
    /\ pc = "tracing"
    /\ child = "running"
    /\ pc' = "terminating"
    /\ UNCHANGED <<cli, straceFound, fsState, fileLines, lines, pos, syscall_stats,
                   order, error_stats, errOrder, timing_data, report, exitCode>>
    /\ UNCHANGED straceVars

\* TimeoutExpired while strace still runs: process.terminate() (SIGTERM)
WaitTimeout ==
    /\ pc = "tracing"
    /\ child = "running"
    /\ signalled' = TRUE
    /\ pc' = "terminating"
    /\ UNCHANGED <<cli, straceFound, fsState, fileLines, lines, pos, syscall_stats,
                   order, error_stats, errOrder, timing_data, report, exitCode>>
    /\ UNCHANGED <<child, procs, openLine, trace, calls>>

\* the second process.wait() returns once strace has exited
WaitAfterTerminate ==
    /\ pc = "terminating"
    /\ child = "exited"
    /\ pc' = "parse"
    /\ UNCHANGED <<cli, straceFound, fsState, fileLines, lines, pos, syscall_stats,
                   order, error_stats, errOrder, timing_data, report, exitCode>>
    /\ UNCHANGED straceVars

(* parse_trace_file: os.path.exists, then open() and readlines().  A       *)
(* missing file prints an error and returns False, after which main()      *)
(* returns normally (exit status 0).  A directory or an unreadable file    *)
(* passes the exists check and open() raises an exception nobody catches   *)
(* (exit status 1).  The live mode reads the file strace wrote.            *)
ParseTraceFile ==
    /\ pc = "parse"
    /\ LET st      == IF cli.mode = "program" THEN "file" ELSE fsState
           content == IF cli.mode = "program" THEN trace ELSE fileLines
       IN  \/ /\ st = "absent"
              /\ pc' = "done"
              /\ UNCHANGED <<lines, exitCode>>
           \/ /\ st \in {"dir", "unreadable"}
              /\ pc' = "done"
              /\ exitCode' = 1
              /\ UNCHANGED lines
           \/ /\ st = "file"
              /\ lines' = content
              /\ pc' = "lines"
              /\ UNCHANGED exitCode
    /\ UNCHANGED <<cli, straceFound, fsState, fileLines, pos, syscall_stats,
                   order, error_stats, errOrder, timing_data, report>>
    /\ UNCHANGED straceVars

-----------------------------------------------------------------------------
\* "if duration:" dropped: an unset duration group is appended as a sample
IngestLineNoDurationCheck(l) ==
    LET m == ParseTraceLine(l)
        n == m.syscall
        s == Bump(syscall_stats, order, n)
        e == Bump(error_stats, errOrder, n)
    IN  IF ~m.ok THEN <<syscall_stats, order, error_stats, errOrder, timing_data>>
        ELSE <<s[1], s[2],
               IF IsTracerError(m.result) THEN e[1] ELSE error_stats,
               IF IsTracerError(m.result) THEN e[2] ELSE errOrder,
               Append(timing_data, <<n, m.duration>>)>>

(* _parse_trace_line: on a match, count the call, append (syscall, secs)   *)
(* when the duration group is set and float() accepts it, and count an     *)
(* error when the result text says so.  The new values of syscall_stats,   *)
(* order, error_stats, errOrder and timing_data.                           *)
IngestLine(l) ==
    LET m == ParseTraceLine(l)
        n == m.syscall
        s == Bump(syscall_stats, order, n)
        e == Bump(error_stats, errOrder, n)
    IN  IF ~m.ok THEN <<syscall_stats, order, error_stats, errOrder, timing_data>>
        ELSE <<s[1], s[2],
               IF IsTracerError(m.result) THEN e[1] ELSE error_stats,
               IF IsTracerError(m.result) THEN e[2] ELSE errOrder,
               IF m.duration # NoElapsed /\ IsFloat(m.duration)
               THEN Append(timing_data, <<n, m.duration>>) ELSE timing_data>>

\* one iteration of "for line in lines: self._parse_trace_line(line)"
ParseLine ==
    /\ pc = "lines"
    /\ pos < Len(lines)
    /\ LET r == IngestLine(lines[pos + 1])
       IN  /\ syscall_stats' = r[1] /\ order' = r[2]
           /\ error_stats' = r[3] /\ errOrder' = r[4]
           /\ timing_data' = r[5]
    /\ pos' = pos + 1
    /\ UNCHANGED <<cli, straceFound, fsState, fileLines, pc, lines, report, exitCode>>
    /\ UNCHANGED straceVars

\* the loop is over: parse_trace_file returns True and main() reports
FinishParse ==
    /\ pc = "lines"
    /\ pos = Len(lines)
    /\ pc' = "report"
    /\ UNCHANGED <<cli, straceFound, fsState, fileLines, lines, pos, syscall_stats,
                   order, error_stats, errOrder, timing_data, report, exitCode>>
    /\ UNCHANGED straceVars

\* the distinct elements of a sequence in the order they first occur
Dedup(s) == FoldLeft(LAMBDA acc, x : IF x \in ToSet(acc) THEN acc ELSE Append(acc, x), <<>>, s)

\* category_stats summed without the for-else: names of no list are lost
TextCategoriesNoElse ==
    LET cats == SelectSeq(Dedup([i \in DOMAIN order |-> Classify(order[i])]),
                          LAMBDA c : c # "other")
        cnt  == [c \in Categories |->
                   MapThenSumSet(LAMBDA n : syscall_stats[n],
                                 {n \in Names : Classify(n) = c})]
    IN  MostCommon(cats, cnt, Len(cats))

(* _generate_text_report, "按类别统计": category_stats filled by walking    *)
(* syscall_stats in key order (a category enters the dict with its first   *)
(* name), then sorted by count, descending and stable.                     *)
TextCategories ==
    LET cats == Dedup([i \in DOMAIN order |-> Classify(order[i])])
        cnt  == [c \in Categories |->
                   MapThenSumSet(LAMBDA n : syscall_stats[n],
                                 {n \in Names : Classify(n) = c})]
    IN  MostCommon(cats, cnt, Len(cats))

(* _generate_json_report, "categories": for each list of                   *)
(* syscall_categories in order, the sum of its names' counts, kept when    *)
(* it is positive.  Names in no list are not counted anywhere.             *)
JsonCategories ==
    LET cnt(i) == MapThenSumSet(LAMBDA n : syscall_stats[n],
                                SyscallCategories[i][2] \cap Names)
        kept   == SelectSeq([i \in DOMAIN SyscallCategories |-> i], LAMBDA i : cnt(i) > 0)
    IN  [j \in DOMAIN kept |-> <<SyscallCategories[kept[j]][1], cnt(kept[j])>>]

(* generate_report: "没有可分析的数据" when the Counter is empty, else the   *)
(* text report (top 10 calls, top 5 errors, categories) or the json report *)
(* (top 10 calls, all errors, categories); then --visualize.               *)
GenerateReport ==
    /\ pc = "report"
    /\ report' =
         CASE TotalCalls = 0 -> [NoReport EXCEPT !.kind = "nodata"]
           [] cli.format = "text" ->
                [kind |-> "text", total |-> TotalCalls, unique |-> Len(order),
                 top |-> MostCommon(order, syscall_stats, 10),
                 errors |-> MostCommon(errOrder, error_stats, 5),
                 categories |-> TextCategories]
           [] cli.format = "json" ->
                [kind |-> "json", total |-> TotalCalls, unique |-> Len(order),
                 top |-> MostCommon(order, syscall_stats, 10),
                 errors |-> MostCommon(errOrder, error_stats, Len(errOrder)),
                 categories |-> JsonCategories]
    /\ pc' = IF cli.visualize THEN "visualize" ELSE "done"
    /\ UNCHANGED <<cli, straceFound, fsState, fileLines, lines, pos, syscall_stats,
                   order, error_stats, errOrder, timing_data, exitCode>>
    /\ UNCHANGED straceVars

\* visualize_trace_data(tracer): draws the charts from the tracer's Counters
Visualize ==
    /\ pc = "visualize"
    /\ pc' = "done"
    /\ UNCHANGED <<cli, straceFound, fsState, fileLines, lines, pos, syscall_stats,
                   order, error_stats, errOrder, timing_data, report, exitCode>>
    /\ UNCHANGED straceVars

\* the process has exited
Terminated == pc = "done" /\ UNCHANGED vars

\* the traced program and strace run beside main()
Produce == StraceStep /\ UNCHANGED tracerVars

Next ==
    \/ Main \/ StartTrace \/ WaitReturns \/ WaitTimeout \/ WaitAfterTerminate
    \/ ParseTraceFile \/ ParseLine \/ FinishParse \/ GenerateReport \/ Visualize
    \/ Produce
    \/ Terminated

(* main() is one thread that is never blocked except in process.wait(),   *)
(* and strace exits once it gets SIGTERM: those steps are weakly fair.     *)
(* The traced program gets no fairness: it may run, or hang, forever.      *)
Fairness ==
    /\ WF_vars(Main) /\ WF_vars(StartTrace) /\ WF_vars(WaitReturns)
    /\ WF_vars(WaitTimeout) /\ WF_vars(WaitAfterTerminate)
    /\ WF_vars(ParseTraceFile) /\ WF_vars(ParseLine) /\ WF_vars(FinishParse)
    /\ WF_vars(GenerateReport) /\ WF_vars(Visualize)
    /\ WF_vars(ExitOnSigterm /\ UNCHANGED tracerVars)

Spec == Init /\ [][Next]_vars /\ Fairness

-----------------------------------------------------------------------------
(***************************************************************************)
(* The session as spec.md describes it (sections 3, 4.1 and 4.2): the      *)
(* records of the lines read so far that match the grammar, their result   *)
(* text (up to the " <elapsed>" annotation or the end of the line, the     *)
(* line terminator not included) and their elapsed time.                   *)
(***************************************************************************)
LineBody(t) == IF t # <<>> /\ Last(t) = "nl" THEN Front(t) ELSE t

\* the index of the '<' of a trailing " <...>" annotation, or 0
ElapsedStart(b) ==
    LET k == SelectLastInSeq(b, LAMBDA c : c = "lt")
    IN  IF k > 1 /\ IsSpace(b[k - 1]) /\ Last(b) = "gt" /\ Len(b) > k + 1 THEN k ELSE 0

SpecResult(t) ==
    LET b == LineBody(t) IN
    IF ElapsedStart(b) = 0 THEN b ELSE SubSeq(b, 1, ElapsedStart(b) - 2)

SpecMatches(l) == l.pfx = "none" /\ l.shape = "call" /\ SpecResult(l.tail) # <<>>

Ingested == SelectSeq(SubSeq(lines, 1, pos), SpecMatches)

SpecCount(n) == Len(SelectSeq(Ingested, LAMBDA l : l.name = n))

FirstSeen(n) == SelectInSeq(Ingested, LAMBDA l : l.name = n)

\* top_n's order: more calls first, equal counts in first-seen order
RanksBefore(a, b) ==
    \/ syscall_stats[a] > syscall_stats[b]
    \/ syscall_stats[a] = syscall_stats[b] /\ FirstSeen(a) < FirstSeen(b)

SumCounts(s) == FoldLeft(LAMBDA acc, p : acc + p[2], 0, s)

-----------------------------------------------------------------------------
TypeOK ==
    /\ cli \in [mode : Modes, format : Formats, visualize : BOOLEAN]
    /\ pc \in {"main", "spawn", "tracing", "terminating", "parse", "lines",
               "report", "visualize", "done"}
    /\ lines \in Seq(Line) /\ pos \in 0..Len(lines)
    /\ syscall_stats \in [Names -> Nat] /\ error_stats \in [Names -> Nat]
    /\ order \in Seq(Names) /\ errOrder \in Seq(Names)
    /\ timing_data \in Seq(Names \X Seq(Chars))
    /\ report.kind \in {"none", "nodata", "text", "json"}
    /\ exitCode \in {0, 1}
    /\ child \in {"none", "running", "exited"}
    /\ procs \in [Procs -> Names \cup {"idle"}]
    /\ openLine \in Procs \cup {NoProc}
    /\ trace \in Seq(Line) /\ calls \in [Procs -> 0..MaxCalls]

(* The Counter syscall_stats after every line is the per-name count of the *)
(* lines read so far that the spec's grammar accepts, and its keys are in  *)
(* first-seen order: _parse_trace_line's regex skips exactly the lines the *)
(* grammar rejects (pid-prefixed, split, banner and exit lines).           *)
CallCountsMatchSpec ==
    /\ \A n \in Names : syscall_stats[n] = SpecCount(n)
    /\ order = Dedup([i \in DOMAIN Ingested |-> Ingested[i].name])

(* The "top calls" of a report (text or json) are the min(10, unique)      *)
(* names with most calls, more calls first and equal counts in the order   *)
(* the names were first seen in the trace (spec.md 4.2, top_n), each with  *)
(* its count: what Counter.most_common(10) must give.                      *)
TopCallsOrdered ==
    report.kind \in {"text", "json"} =>
        LET top  == report.top
            live == {n \in Names : syscall_stats[n] > 0}
            shown == {top[i][1] : i \in DOMAIN top}
        IN  /\ Len(top) = IF Cardinality(live) < 10 THEN Cardinality(live) ELSE 10
            /\ \A i \in DOMAIN top : top[i][2] = syscall_stats[top[i][1]]
            /\ \A i, j \in DOMAIN top : i < j => RanksBefore(top[i][1], top[j][1])
            /\ \A n \in live \ shown : \A i \in DOMAIN top : RanksBefore(top[i][1], n)

(* The text report's category section is a partition of the calls         *)
(* (spec.md 4.2, category_totals): every category shown has the sum of the *)
(* counts of the names it classifies, the shown counts add up to           *)
(* total_calls, and they are sorted by count, descending.                  *)
TextCategoriesPartition ==
    report.kind = "text" =>
        LET cats == report.categories IN
        /\ SumCounts(cats) = report.total
        /\ \A i \in DOMAIN cats :
              cats[i][2] = MapThenSumSet(LAMBDA n : syscall_stats[n],
                                         {n \in Names : Classify(n) = cats[i][1]})
        /\ \A i, j \in DOMAIN cats : i < j => cats[i][2] >= cats[j][2]

(* The example scripts and the tracer, run on the same trace file, differ *)
(* in exactly two places (spec.md 9): the scripts also count the first     *)
(* half of a split call, and they count as an error every call whose       *)
(* result is -1, where the tracer's rule leaves out a result that is       *)
(* exactly "-1" (no errno, no newline: the last line of the file).         *)
ScriptsDifferOnlyBySplitsAndBareMinusOne ==
    LET read == SubSeq(lines, 1, pos)
        count(P(_)) == Len(SelectSeq(read, P))
    IN  \A n \in Names :
          /\ ScriptCount(read, n) =
                syscall_stats[n]
                + count(LAMBDA l : l.pfx = "none" /\ l.shape = "unfinished" /\ l.name = n)
          /\ ScriptErrors(read, n) =
                error_stats[n]
                + count(LAMBDA l : ParseTraceLine(l).ok /\ l.name = n
                                   /\ ParseTraceLine(l).result = <<"-", "1">>)

(* In the live mode, the report counts every system call the traced        *)
(* program completed while strace ran.                                     *)
LiveCallsCounted ==
    (pc = "done" /\ cli.mode = "program") => TotalCalls = SumFunction(calls)

(* Every run ends: the timeout of trace_program bounds the live trace even *)
(* when the traced program never exits.                                    *)
Terminates == <>(pc = "done")

=============================================================================
