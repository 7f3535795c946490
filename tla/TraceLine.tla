----------------------------- MODULE TraceLine -----------------------------
(***************************************************************************)
(* The trace-line parser and the classification helpers of                 *)
(* lab1-1-syscall-tracer/src/syscall_tracer.py (class SyscallTracer).      *)
(*                                                                         *)
(* A line of strace output is abstracted to a record: whether strace put a *)
(* pid in front of it, its shape (a completed call, an "<unfinished ...>"  *)
(* or "<... resumed>" half of a split call, a banner or a "+++"/"---"      *)
(* line), the call name, and the text after " = " as a sequence of         *)
(* character classes.  The regular expression of _parse_trace_line is      *)
(* evaluated on that text the way Python's re engine evaluates it: a       *)
(* greedy ([^<]+) followed by an optional group that is only tried where   *)
(* the greedy run stopped.                                                 *)
(***************************************************************************)
EXTENDS Naturals, Sequences, SequencesExt, FiniteSets

CONSTANT Names          \* call names that occur in the traces

(* Character classes of the text after " = ": digits, a minus sign, the   *)
(* "?" strace prints for an unknown result, a letter (errno names and      *)
(* annotations), a space, '<', '>' and the line terminator.               *)
Chars == {"0", "1", "-", "?", "E", "sp", "lt", "gt", "nl"}

Shapes == {"call", "unfinished", "resumed", "banner", "noise"}

Line == [pfx : {"none", "pid"}, shape : Shapes, name : Names, tail : Seq(Chars)]

MkLine(p, s, n, t) == [pfx |-> p, shape |-> s, name |-> n, tail |-> t]

IsSpace(c) == c \in {"sp", "nl"}

NoElapsed == <<"none">>   \* the value of an unmatched optional group

-----------------------------------------------------------------------------
\* re.search instead of re.match: the pattern may start after a pid prefix
HeadMatchesUnanchored(l) == l.shape = "call"

(* re.match(pattern, line) with                                            *)
(*   (\d+:\d+:\d+\.\d+)\s+(\w+)\((.*?)\)\s+=\s+([^<]+)(?:\s+<([^>]+)>)?      *)
(* The match is anchored at the start of the line: a pid in front of the   *)
(* timestamp, or a "<... name resumed>" where (\w+)\( is expected, or a    *)
(* line without " = " (an unfinished call, a banner) does not match.       *)
HeadMatches(l) == l.pfx = "none" /\ l.shape = "call"

\* ([^<]+) is greedy: it takes the longest run of the tail without a '<'
ResultLen(t) ==
    LET i == SelectInSeq(t, LAMBDA c : c = "lt")
    IN  IF i = 0 THEN Len(t) ELSE i - 1

\* The optional group (?:\s+<([^>]+)>) tried at position j of the tail:
\* the text of ([^>]+), or NoElapsed when the group does not match there.
ElapsedAt(t, j) ==
    LET lt == SelectInSubSeq(t, j, Len(t), LAMBDA c : ~IsSpace(c))
        gt == IF lt = 0 THEN 0 ELSE SelectInSubSeq(t, lt, Len(t), LAMBDA c : c = "gt")
    IN  IF /\ j <= Len(t) /\ IsSpace(t[j])
           /\ lt > 0 /\ t[lt] = "lt" /\ gt > lt + 1
        THEN SubSeq(t, lt + 1, gt - 1)
        ELSE NoElapsed

(* The match object: ok is FALSE when re.match returns None, otherwise    *)
(* the groups syscall, result and duration are set.                        *)
(* The engine keeps the greedy result and only skips the optional group    *)
(* when it does not match at the end of it: it backtracks into ([^<]+)     *)
(* only if the whole pattern failed, which an optional group never makes   *)
(* it do.                                                                  *)
ParseTraceLine(l) ==
    IF HeadMatches(l) /\ ResultLen(l.tail) >= 1
    THEN [ok       |-> TRUE,
          syscall  |-> l.name,
          result   |-> SubSeq(l.tail, 1, ResultLen(l.tail)),
          duration |-> ElapsedAt(l.tail, ResultLen(l.tail) + 1)]
    ELSE [ok |-> FALSE, syscall |-> l.name, result |-> <<>>, duration |-> NoElapsed]

\* float(duration) succeeds on digits only; anything else raises ValueError
IsFloat(s) == s # NoElapsed /\ s # <<>> /\ \A i \in DOMAIN s : s[i] \in {"0", "1"}

\* if result and '-' in result and result != '-1'
IsTracerError(result) ==
    /\ result # <<>>
    /\ \E i \in DOMAIN result : result[i] = "-"
    /\ result # <<"-", "1">>

-----------------------------------------------------------------------------
(* The loop the example scripts analyze_ls_trace.py, analyze_network_     *)
(* trace.py and analyze_operation_trace.py share: re.match of              *)
(* \d+:\d+:\d+\.\d+\s+(\w+) counts a line under its first word.  Anchored at *)
(* the timestamp, it rejects a pid in front; unlike the tracer's pattern   *)
(* it asks for nothing after the name, so the first half of a split call   *)
(* ("read(3, <unfinished ...>") counts, while "<... read resumed>",        *)
(* "+++"/"---" lines and banners do not start with a word there.           *)
ScriptMatchesSearch(l) == l.shape \in {"call", "unfinished"}

ScriptMatches(l) == l.pfx = "none" /\ l.shape \in {"call", "unfinished"}

\* syscall_stats[name] after "for line in lines" over the lines ls
ScriptCount(ls, n) == Len(SelectSeq(ls, LAMBDA l : ScriptMatches(l) /\ l.name = n))

(* error_stats[name]: a matched line in which '= -1' occurs, i.e. whose    *)
(* text after " = " starts with -1 (the names of the model have no such    *)
(* text in their arguments).                                               *)
ScriptErrors(ls, n) ==
    Len(SelectSeq(ls, LAMBDA l : ScriptMatches(l) /\ l.name = n
                                 /\ Len(l.tail) >= 2 /\ l.tail[1] = "-" /\ l.tail[2] = "1"))

-----------------------------------------------------------------------------
(* self.syscall_categories: an ordered list (dict insertion order).        *)
SyscallCategories ==
    << <<"file_operations",    {"open", "read", "write", "close", "stat", "lseek"}>>,
       <<"process_control",    {"fork", "execve", "wait4", "exit", "clone"}>>,
       <<"memory_management",  {"brk", "mmap", "munmap", "mprotect"}>>,
       <<"network_operations", {"socket", "connect", "accept", "send", "recv"}>>,
       <<"signals",            {"kill", "signal", "sigaction"}>>,
       <<"time_operations",    {"time", "gettimeofday", "nanosleep"}>> >>

Categories == {SyscallCategories[i][1] : i \in DOMAIN SyscallCategories} \cup {"other"}

(* The for ... break ... else of _generate_text_report: the first list     *)
(* that holds the name, else "other".                                      *)
Classify(n) ==
    LET i == SelectInSeq(SyscallCategories, LAMBDA c : n \in c[2])
    IN  IF i = 0 THEN "other" ELSE SyscallCategories[i][1]

-----------------------------------------------------------------------------
\* a sort that puts a later key before earlier keys of equal count
InsertByCountUnstable(acc, k, cnt) ==
    LET i == SelectInSeq(acc, LAMBDA y : cnt[y] <= cnt[k])
    IN  IF i = 0 THEN Append(acc, k) ELSE InsertAt(acc, i, k)

(* Counter.most_common(k): sorted(items, key=count, reverse=True)[:k].     *)
(* Python's sort is stable, so equal counts keep the Counter's insertion   *)
(* (first-seen) order.  Modelled as an insertion sort over the keys in     *)
(* insertion order: a key goes in front of the first key with a strictly   *)
(* smaller count.                                                          *)
InsertByCount(acc, k, cnt) ==
    LET i == SelectInSeq(acc, LAMBDA y : cnt[y] < cnt[k])
    IN  IF i = 0 THEN Append(acc, k) ELSE InsertAt(acc, i, k)

SortByCount(keys, cnt) == FoldLeft(LAMBDA acc, k : InsertByCount(acc, k, cnt), <<>>, keys)

MostCommon(keys, cnt, k) ==
    LET s == SortByCount(keys, cnt)
    IN  [i \in 1..(IF k < Len(s) THEN k ELSE Len(s)) |-> <<s[i], cnt[s[i]]>>]

=============================================================================
