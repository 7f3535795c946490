------------------------------ MODULE ProcTree ------------------------------
(***************************************************************************)
(* The process trees of lab1-2-process-monitor and the kill of             *)
(* process_manager.py, run while processes start, exit, are reparented,    *)
(* reaped and have their pids reused.                                      *)
(*  - process_monitor.py --tree: show_process_tree / _print_tree walk the  *)
(*    tree from one pid, with no record of what was printed;               *)
(*  - process_manager.py "tree": display_process_tree / _display_tree_node *)
(*    walk it from the processes whose ppid is 0, skipping a pid already   *)
(*    in the visited set;                                                  *)
(*  - process_manager.py kill_process: Process(pid), name(), terminate().  *)
(* A psutil Process object is the pid and the create time of the process   *)
(* that held the pid when it was made; here the create time is the         *)
(* generation of the process.  children() lists, in pid order, the         *)
(* processes whose ppid is the pid and which are not older than the parent *)
(* (psutil's guard against a reused pid); it raises NoSuchProcess when the *)
(* parent is gone or its pid was reused, as terminate() does.  name() of a *)
(* reused pid returns the new process's name in some psutil releases and   *)
(* raises in others: both outcomes are taken.  When a process exits, its   *)
(* children are reparented to init (pid 1, which never exits).  The        *)
(* recursion is a stack of the Process objects still to be visited.       *)
(* Names, status, cpu and memory figures and the prefixes are left out.    *)
(***************************************************************************)
EXTENDS Naturals, Sequences, SequencesExt, FiniteSets

CONSTANTS Pids,     \* the pids of the model; 1 is init
          MaxGen,   \* bound on the processes that ever exist
          Tools,    \* the commands run: "monitor", "manager", "kill"
          Targets   \* args.pid of --tree, the pid given to kill

VARIABLES proc,      \* pid -> [st |-> "R"/"Z"/"none", gen, ppid]
          nextGen,   \* the generation of the next process started
          tool,      \* the command that runs
          target,    \* the pid it was given
          pc,        \* "start", "walk", "open", "named", "checked", "done"
          stack,     \* Process objects whose call is still to come
          cur,       \* the object whose children() is next, or NoObj
          visited,   \* _display_tree_node's visited set of pids
          printed,   \* the identities printed, in order
          kobj,      \* the object kill_process made
          signalled, \* the identities terminate() signalled
          start,     \* the process table when the command began
          disturbed, \* identities reparented or reaped since then
          changed    \* some process changed since the command began

vars == <<proc, nextGen, tool, target, pc, stack, cur, visited, printed,
          kobj, signalled, start, disturbed, changed>>

NoObj == [pid |-> 0, gen |-> 0]

Live(p) == proc[p].st # "none"

Id(p) == [pid |-> p, gen |-> proc[p].gen]

\* o still is the process holding its pid (psutil's is_running())
Running(o) == Live(o.pid) /\ proc[o.pid].gen = o.gen

\* the initial tables: init is pid 1; a process is younger than its parent
InitTables ==
    {t \in [Pids -> [st : {"R", "Z", "none"}, gen : {1}, ppid : {0} \cup Pids]] :
        /\ t[1] = [st |-> "R", gen |-> 1, ppid |-> 0]
        /\ \A p \in Pids \ {1} :
              t[p].st # "none" => t[p].ppid \in 1..(p - 1) /\ t[t[p].ppid].st = "R"}

Init ==
    /\ proc \in {[p \in Pids |-> IF t[p].st = "none" THEN [st |-> "none", gen |-> 0, ppid |-> 0]
                                 ELSE t[p]] : t \in InitTables}
    /\ nextGen = 2
    /\ tool \in Tools /\ target \in Targets
    /\ pc = "start" /\ stack = <<>> /\ cur = NoObj /\ visited = {}
    /\ printed = <<>> /\ kobj = NoObj /\ signalled = {}
    /\ start = proc /\ disturbed = {} /\ changed = FALSE

-----------------------------------------------------------------------------
(* psutil's children(): the ppid map is read in one pass.                  *)
KidPids(o) == {q \in Pids : Live(q) /\ proc[q].ppid = o.pid /\ o.gen <= proc[q].gen}

\* psutil children(recursive=True): every descendant
ListAllDescendants(o) ==
    LET d[n \in 0..Cardinality(Pids)] ==
          IF n = 0 THEN KidPids(o)
          ELSE d[n - 1] \cup UNION {KidPids(Id(q)) : q \in d[n - 1]}
    IN [k \in 1..Cardinality(d[Cardinality(Pids)]) |->
          Id(SetToSortSeq(d[Cardinality(Pids)], <)[k])]

\* children = process.children(); for i, child in enumerate(children):
\* the recursive calls come in the order of the list
ListChildren(o) ==
    LET s == SetToSortSeq(KidPids(o), <) IN [k \in 1..Len(s) |-> Id(s[k])]

\* the processes whose ppid is 0, from process_iter
Roots == {p \in Pids : Live(p) /\ proc[p].ppid = 0}

\* display_process_tree(): one _display_tree_node call per root
StartManager ==
    /\ pc = "start" /\ tool = "manager"
    /\ stack' = LET s == SetToSortSeq(Roots, <) IN [k \in 1..Len(s) |-> Id(s[k])]
    /\ pc' = "walk" /\ start' = proc
    /\ UNCHANGED <<proc, nextGen, tool, target, cur, visited, printed, kobj,
                   signalled, disturbed, changed>>

\* show_process_tree(pid): psutil.Process(pid), or the error message
StartMonitor ==
    /\ pc = "start" /\ tool = "monitor"
    /\ stack' = IF Live(target) THEN <<Id(target)>> ELSE <<>>
    /\ pc' = "walk" /\ start' = proc
    /\ UNCHANGED <<proc, nextGen, tool, target, cur, visited, printed, kobj,
                   signalled, disturbed, changed>>

\* name() on o: the identity whose name is printed, or NoObj if it raises
NameOf(o) ==
    IF Running(o) THEN {Id(o.pid)}
    ELSE IF Live(o.pid) THEN {Id(o.pid), NoObj} ELSE {NoObj}

\* _print_tree(process): name(), print, then children()
PrintNode ==
    /\ pc = "walk" /\ tool = "monitor" /\ cur = NoObj /\ stack # <<>>
    /\ LET o == Head(stack) IN
       \E n \in NameOf(o) :
          /\ printed' = IF n = NoObj THEN printed ELSE Append(printed, n)
          /\ cur' = IF n = NoObj THEN NoObj ELSE o
    /\ stack' = Tail(stack)
    /\ UNCHANGED <<proc, nextGen, tool, target, pc, visited, kobj, signalled, start,
                   disturbed, changed>>

\* _display_tree_node: return on a visited pid, else add it, then the
\* oneshot reads (name, status, memory, cpu) and the print
DisplayNode ==
    /\ pc = "walk" /\ tool = "manager" /\ cur = NoObj /\ stack # <<>>
    /\ LET o == Head(stack) IN
       /\ IF o.pid \in visited
          THEN UNCHANGED <<printed, cur, visited>>
          ELSE /\ visited' = visited \cup {o.pid}
               /\ \E n \in NameOf(o) :
                    /\ printed' = IF n = NoObj THEN printed ELSE Append(printed, n)
                    /\ cur' = IF n = NoObj THEN NoObj ELSE o
    /\ stack' = Tail(stack)
    /\ UNCHANGED <<proc, nextGen, tool, target, pc, kobj, signalled, start,
                   disturbed, changed>>

\* children(recursive=True) in place of children()
ChildrenRecursive ==
    /\ cur # NoObj
    /\ stack' = IF Running(cur) THEN ListAllDescendants(cur) \o stack ELSE stack
    /\ cur' = NoObj
    /\ UNCHANGED <<proc, nextGen, tool, target, pc, visited, printed, kobj,
                   signalled, start, disturbed, changed>>

\* the last child dropped from the loop
ChildrenDropLast ==
    /\ cur # NoObj
    /\ stack' = IF Running(cur) THEN Front(ListChildren(cur)) \o stack ELSE stack
    /\ cur' = NoObj
    /\ UNCHANGED <<proc, nextGen, tool, target, pc, visited, printed, kobj,
                   signalled, start, disturbed, changed>>

\* children = process.children() and the loop over it; NoSuchProcess or
\* AccessDenied ends the node quietly
Children ==
    /\ cur # NoObj
    /\ stack' = IF Running(cur) THEN ListChildren(cur) \o stack ELSE stack
    /\ cur' = NoObj
    /\ UNCHANGED <<proc, nextGen, tool, target, pc, visited, printed, kobj,
                   signalled, start, disturbed, changed>>

WalkEnd ==
    /\ pc = "walk" /\ stack = <<>> /\ cur = NoObj
    /\ pc' = "done"
    /\ UNCHANGED <<proc, nextGen, tool, target, stack, cur, visited, printed,
                   kobj, signalled, start, disturbed, changed>>

-----------------------------------------------------------------------------
\* kill_process: psutil.Process(pid); NoSuchProcess prints the error
KillOpen ==
    /\ pc = "start" /\ tool = "kill"
    /\ kobj' = IF Live(target) THEN Id(target) ELSE NoObj
    /\ pc' = IF Live(target) THEN "open" ELSE "done"
    /\ start' = proc
    /\ UNCHANGED <<proc, nextGen, tool, target, stack, cur, visited, printed,
                   signalled, disturbed, changed>>

\* process.name(), for the message printed before the signal
KillName ==
    /\ pc = "open"
    /\ \E n \in NameOf(kobj) : pc' = IF n = NoObj THEN "done" ELSE "named"
    /\ UNCHANGED <<proc, nextGen, tool, target, stack, cur, visited, printed, kobj,
                   signalled, start, disturbed, changed>>

\* process.terminate(), first half: psutil's _raise_if_pid_reused compares
\* the create time of the pid's holder with the object's and raises
\* NoSuchProcess when the pid no longer holds the process it was made for
KillCheck ==
    /\ pc = "named"
    /\ pc' = IF Running(kobj) THEN "checked" ELSE "done"
    /\ UNCHANGED <<proc, nextGen, tool, target, stack, cur, visited, printed, kobj,
                   signalled, start, disturbed, changed>>

\* process.terminate(), second half: os.kill(pid, SIGTERM) reaches whatever
\* process holds the pid now; a free pid raises ProcessLookupError
KillSignal ==
    /\ pc = "checked"
    /\ signalled' = IF Live(kobj.pid) THEN signalled \cup {Id(kobj.pid)} ELSE signalled
    /\ pc' = "done"
    /\ UNCHANGED <<proc, nextGen, tool, target, stack, cur, visited, printed, kobj,
                   start, disturbed, changed>>

-----------------------------------------------------------------------------
(* The rest of the system, while a command runs.                           *)
Busy == pc # "done"

Spawn(p, q) ==
    /\ Busy /\ ~Live(p) /\ proc[q].st = "R" /\ nextGen <= MaxGen
    /\ proc' = [proc EXCEPT ![p] = [st |-> "R", gen |-> nextGen, ppid |-> q]]
    /\ nextGen' = nextGen + 1
    /\ changed' = (changed \/ pc # "start")
    /\ UNCHANGED <<tool, target, pc, stack, cur, visited, printed, kobj, signalled,
                   start, disturbed>>

\* the process exits; its children are reparented to init
Exit(p) ==
    /\ Busy /\ p # 1 /\ proc[p].st = "R"
    /\ LET orphans == {q \in Pids : Live(q) /\ proc[q].ppid = p} IN
       /\ proc' = [q \in Pids |->
                     IF q = p THEN [proc[q] EXCEPT !.st = "Z"]
                     ELSE IF q \in orphans THEN [proc[q] EXCEPT !.ppid = 1]
                     ELSE proc[q]]
       /\ disturbed' = IF pc = "start" THEN disturbed
                       ELSE disturbed \cup {Id(q) : q \in orphans}
    /\ changed' = (changed \/ pc # "start")
    /\ UNCHANGED <<nextGen, tool, target, pc, stack, cur, visited, printed, kobj,
                   signalled, start>>

\* its parent waits for the zombie; the pid is free
Reap(p) ==
    /\ Busy /\ proc[p].st = "Z"
    /\ proc' = [proc EXCEPT ![p] = [st |-> "none", gen |-> 0, ppid |-> 0]]
    /\ disturbed' = IF pc = "start" THEN disturbed ELSE disturbed \cup {Id(p)}
    /\ changed' = (changed \/ pc # "start")
    /\ UNCHANGED <<nextGen, tool, target, pc, stack, cur, visited, printed, kobj,
                   signalled, start>>

Finished == pc = "done" /\ UNCHANGED vars

Next ==
    \/ StartManager \/ StartMonitor \/ PrintNode \/ DisplayNode \/ Children
    \/ WalkEnd \/ KillOpen \/ KillName \/ KillCheck \/ KillSignal
    \/ \E p, q \in Pids : Spawn(p, q)
    \/ \E p \in Pids : Exit(p) \/ Reap(p)
    \/ Finished

Spec == Init /\ [][Next]_vars

-----------------------------------------------------------------------------
\* the tree a walk would print of the table as it is: the preorder of the
\* processes under each root, children in pid order
RECURSIVE Preorder(_)
Preorder(i) ==
    LET cs == ListChildren(i) IN
    <<i>> \o FlattenSeq([k \in 1..Len(cs) |-> Preorder(cs[k])])

ReferenceTree ==
    IF tool = "manager"
    THEN LET rs == SetToSortSeq(Roots, <) IN
         FlattenSeq([k \in 1..Len(rs) |-> Preorder(Id(rs[k]))])
    ELSE IF Live(target) THEN Preorder(Id(target)) ELSE <<>>

\* When no process changed while a tree command ran, both _print_tree and
\* _display_tree_node print every process under the root exactly once, in
\* preorder with the children of a process in pid order.
WalkMatchesReference ==
    pc = "done" /\ tool # "kill" /\ ~changed => printed = ReferenceTree

\* a process alive from the start of the walk to its end, never reaped or
\* reparented, and so are its ancestors up to the root of the walk
RECURSIVE Stable(_)
Stable(p) ==
    /\ start[p].st # "none"
    /\ [pid |-> p, gen |-> start[p].gen] \notin disturbed
    /\ \/ IF tool = "manager" THEN start[p].ppid = 0 ELSE p = target
       \/ start[p].ppid \in Pids /\ Stable(start[p].ppid)

\* However processes start, exit and reuse pids during the walk, both tree
\* commands print every process that lives through the walk in a stable
\* line of ancestors: the manager's visited set never hides one of them.
StableShown ==
    pc = "done" /\ tool # "kill" =>
        \A p \in Pids : Stable(p) => [pid |-> p, gen |-> start[p].gen] \in Range(printed)

====
