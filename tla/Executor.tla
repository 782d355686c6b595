------------------------------ MODULE Executor ------------------------------
(***************************************************************************)
(* "Bash Command/execute.c": one command line, split into arguments, and   *)
(* the search for the program in the current directory and along PATH.     *)
(***************************************************************************)
EXTENDS Integers, FiniteSets, Sequences

CONSTANTS MaxLine,   \* bound of the model: characters in the line
          MaxPath    \* bound of the model: directories in PATH

ExecutorAssumption == MaxLine \in Nat \ {0} /\ MaxPath \in Nat

VARIABLES pc,        \* "start", "execute", "search", "runs" or "returns"
          line,      \* buff: letters and blanks, the newline one of them
          args,
          here,      \* what args[0] is in the current directory
          path,      \* and in each directory of PATH
          bin,       \* the one the loop is at
          spoiled,   \* args[0] is the buffer that the next path is printed to
          ran        \* the directory of the program, 0 for the current one

vars == <<pc, line, args, here, path, bin, spoiled, ran>>

Files == {"none", "program", "data"}     \* "data" cannot be executed
Unknown == -1

Init ==
    /\ pc = "start" /\ line = <<>> /\ args = <<>> /\ here = "none" /\ path = <<>>
    /\ bin = 0 /\ spoiled = FALSE /\ ran = Unknown

-----------------------------------------------------------------------------
FirstFrom(i, S) ==
    LET at == {j \in i..Len(line) : line[j] \in S}
    IN IF at = {} THEN Len(line) + 1 ELSE CHOOSE j \in at : \A k \in at : j <= k

\* (fault) only one blank is skipped
ParseOneBlank ==
    LET parse[i \in 1..Len(line) + 1] ==
            IF i > Len(line) THEN <<>>
            ELSE LET begin == IF line[i] = " " THEN i + 1 ELSE i
                     end == FirstFrom(begin, {" "})
                 IN <<SubSeq(line, begin, end - 1)>> \o parse[end]
    IN parse[1]

\* parse: blanks are skipped and what follows, be it nothing, is an argument.
Parse ==
    LET parse[i \in 1..Len(line) + 1] ==
            IF i > Len(line) THEN <<>>
            ELSE LET begin == FirstFrom(i, {"x", "y"})
                     end == FirstFrom(begin, {" "})
                 IN <<SubSeq(line, begin, end - 1)>> \o parse[end]
    IN parse[1]

\* The world, and fgets.
Lines == UNION {[1..n -> {"x", "y", " "}] : n \in 1..MaxLine}
Paths == UNION {[1..n -> Files] : n \in 0..MaxPath}
Start ==
    /\ pc = "start" /\ pc' = "parse"
    /\ line' \in Lines
    /\ here' \in Files /\ path' \in Paths
    /\ UNCHANGED <<args, bin, spoiled, ran>>

ParseLine ==
    /\ pc = "parse" /\ pc' = "execute"
    /\ args' = Parse
    /\ UNCHANGED <<line, here, path, bin, spoiled, ran>>

\* A file of that name in the current directory is taken, or nothing is.
Execute ==
    /\ pc = "execute"
    /\ pc' = CASE here = "program" -> "runs" [] here = "data" -> "returns"
               [] here = "none" -> "search"
    /\ ran' = IF here = "program" THEN 0 ELSE ran
    /\ bin' = 1
    /\ UNCHANGED <<line, args, here, path, spoiled>>

\* (fault) a file is taken for found before execve has tried it
TryStops ==
    /\ pc = "search" /\ bin <= Len(path)
    /\ ran' = IF path[bin] # "none" THEN bin ELSE ran
    /\ pc' = IF path[bin] # "none" THEN "runs" ELSE "search"
    /\ bin' = bin + 1
    /\ UNCHANGED <<line, args, here, path, spoiled>>

\* A file that execve refuses leaves args[0] pointing at "path".
Try ==
    /\ pc = "search" /\ bin <= Len(path) /\ ~spoiled
    /\ IF path[bin] = "program" THEN ran' = bin /\ pc' = "runs" ELSE UNCHANGED <<ran, pc>>
    /\ spoiled' = (path[bin] = "data")
    /\ bin' = bin + 1
    /\ UNCHANGED <<line, args, here, path>>

\* From then on snprintf copies "path" into itself, which is undefined: it may
\* name nothing, or a file nobody asked for.
TrySpoiled ==
    /\ pc = "search" /\ bin <= Len(path) /\ spoiled
    /\ bin' = bin + 1
    /\ pc' \in {"search", "runs"}
    /\ UNCHANGED <<line, args, here, path, spoiled, ran>>

Return ==
    /\ pc = "search" /\ bin > Len(path)
    /\ pc' = "returns"
    /\ UNCHANGED <<line, args, here, path, bin, spoiled, ran>>

Next == Start \/ ParseLine \/ Execute \/ Try \/ TrySpoiled \/ Return

-----------------------------------------------------------------------------
TypeOK ==
    /\ pc \in {"start", "parse", "execute", "search", "runs", "returns"}
    /\ line \in Seq({"x", "y", " "}) /\ args \in Seq(Seq({"x", "y"}))
    /\ here \in Files /\ path \in Seq(Files)
    /\ bin \in 0..MaxPath + 1 /\ spoiled \in BOOLEAN /\ ran \in Unknown..MaxPath

Nth(S, k) == CHOOSE i \in S : Cardinality({j \in S : j <= i}) = k

\* The arguments are the words of the line in order, and one that is empty if
\* the line ends in a blank, as one does that was typed: the newline is one.
ArgsAreWords ==
    LET n == Len(line)
        begins == {i \in 1..n : line[i] # " " /\ (i = 1 \/ line[i - 1] = " ")}
        word(i) == SubSeq(line, i, FirstFrom(i, {" "}) - 1)
        words == [k \in 1..Cardinality(begins) |-> word(Nth(begins, k))]
    IN pc \notin {"start", "parse"} =>
           args = words \o (IF line[n] = " " THEN << <<>> >> ELSE <<>>)

\* What is run is the file in the current directory or the first in PATH that
\* can be run, and nothing is run only if there is none - unless a file that
\* cannot be run comes before it (lines 26-42).
RunsFirst ==
    LET first == {i \in 1..Len(path) : /\ path[i] = "program"
                                       /\ \A j \in 1..i-1 : path[j] = "none"}
        refused == \/ here = "data"
                   \/ here = "none" /\ \E i \in 1..Len(path) :
                        path[i] = "data" /\ \A j \in 1..i-1 : path[j] # "program"
    IN /\ pc = "runs" => \/ here = "program" /\ ran = 0
                         \/ here = "none" /\ ran \in first
                         \/ refused /\ ran = Unknown
       /\ pc = "returns" => refused \/ (here = "none" /\ first = {})
=============================================================================
