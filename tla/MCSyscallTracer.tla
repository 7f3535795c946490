-------------------------- MODULE MCSyscallTracer --------------------------
(***************************************************************************)
(* Model-checking instance of SyscallTracer.                               *)
(*                                                                         *)
(* Call names: "read" (file_operations), "mmap" (memory_management) and    *)
(* "openat", which is in none of syscall_categories' lists although ls and *)
(* every modern libc use it, so it is classified "other".                  *)
(*                                                                         *)
(* Trace files are up to MaxLines lines drawn from LineForms: completed    *)
(* calls of each name with each result text of ResultTails, and one each   *)
(* of a pid-prefixed call, the two halves of a split call and a banner.    *)
(* Only the last line of a file may lack its line terminator.              *)
(***************************************************************************)
EXTENDS SyscallTracer

MCNames == {"read", "mmap", "openat"}

MaxLines == 3

\* the text after " = " of a completed call line written by strace -T
Ok      == <<"0", "sp", "lt", "0", "gt", "nl">>                  \* 0 <0.000010>
ErrNo   == <<"-", "1", "sp", "E", "sp", "lt", "0", "gt", "nl">>  \* -1 ENOENT (...) <0.000010>
Neg     == <<"-", "1", "nl">>                                    \* -1 (strace without -T)
NegLast == <<"-", "1">>                                          \* -1, last line, no newline

ResultTails == {Ok, ErrNo, Neg, NegLast}

LineForms ==
    { MkLine("none", "call", n, t) : n \in MCNames, t \in ResultTails }
    \cup { MkLine("pid",  "call",       "read", Ok),
           MkLine("none", "unfinished", "read", <<>>),
           MkLine("none", "resumed",    "read", Ok),
           MkLine("none", "banner",     "read", <<>>) }

MCFiles ==
    { f \in SeqOf(LineForms, MaxLines) :
        \A i \in 1..(Len(f) - 1) : f[i].tail # NegLast }

\* the live mode reads the file strace wrote, not one given with -f
MCNoFiles == {<<>>}

=============================================================================
