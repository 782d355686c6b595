------------------------------ MODULE JobShell ------------------------------
(***************************************************************************)
(* "Command shell/myshell.c": the main loop, the stack of processes that   *)
(* check_children keeps, and the file descriptors by which the commands of *)
(* a pipeline are connected.  Process 0 is the shell; process n and pipe n *)
(* are the ones made for the n-th command.  Descriptors of files and of    *)
(* the terminal are not told apart: only pipes make processes wait.        *)
(***************************************************************************)
EXTENDS Integers, Sequences, FiniteSets

CONSTANTS Capacity,      \* blocks a pipe holds
          MaxWrites,     \* blocks a program writes, at most
          MaxCommands    \* bound of the model: commands that are started

ASSUME CapacityAssumption == Capacity \in Nat \ {0}
ASSUME BoundAssumption == MaxWrites \in Nat /\ MaxCommands \in Nat \ {0}

VARIABLES
    spc,         \* "top", "get", "verify", "io", "fork", "wait", "close", "gone"
    cmd,         \* struct command of the main loop
    in_pipe, pass_through,
    in, out,     \* of main: a pipe, or 0 for anything else
    stack,       \* process_stack[0..psp]
    count,       \* commands started
    child,       \* each child: "none", "runs", "zombie", "reaped"
    stdin, stdout, writes,   \* of each child: its pipes, the blocks to write
    data, readers, writers   \* of each pipe

shellVars == <<cmd, in_pipe, pass_through, in, out, stack, count>>
childVars == <<child, stdin, stdout, writes>>
pipeVars == <<data, readers, writers>>
vars == <<spc, shellVars, childVars, pipeVars>>

Numbers == 1..MaxCommands
Processes == 0..MaxCommands
Failed == -1                   \* what fork() returned
Modes == {"PLAIN", "BACKGROUND", "PIPE"}

\* What get_command_line makes of the input: "bad" is a name expand_path does
\* not find, or a redirection to a file that cannot be opened.
Commands == [name : {"good", "bad"}, mode : Modes, ifile : BOOLEAN, ofile : BOOLEAN]
NoCommand == [name |-> "", mode |-> "PLAIN", ifile |-> FALSE, ofile |-> FALSE]

Init ==
    /\ spc = "top" /\ cmd = NoCommand
    /\ in_pipe = FALSE /\ pass_through = 0 /\ in = 0 /\ out = 0
    /\ stack = <<>> /\ count = 0
    /\ child = [n \in Numbers |-> "none"]
    /\ stdin = [n \in Numbers |-> 0] /\ stdout = [n \in Numbers |-> 0]
    /\ writes = [n \in Numbers |-> 0]
    /\ data = [n \in Numbers |-> 0]
    /\ readers = [n \in Numbers |-> {}] /\ writers = [n \in Numbers |-> {}]

Goto(from, to) == spc = from /\ spc' = to

-----------------------------------------------------------------------------
(* check_children                                                          *)

Children == {n \in Numbers : child[n] \in {"runs", "zombie"}}

\* (fault) "i < psp": the top of the stack is not looked at
RemoveBelowTop(s, pid) ==
    IF \E i \in 1..Len(s)-1 : s[i].pid = pid
    THEN LET i == CHOOSE i \in 1..Len(s)-1 : s[i].pid = pid
         IN SubSeq([s EXCEPT ![i] = s[Len(s)]], 1, Len(s) - 1)
    ELSE s

\* process_stack[i] = process_stack[psp--]
Remove(s, pid) ==
    IF \E i \in 1..Len(s) : s[i].pid = pid
    THEN LET i == CHOOSE i \in 1..Len(s) : s[i].pid = pid
         IN SubSeq([s EXCEPT ![i] = s[Len(s)]], 1, Len(s) - 1)
    ELSE s

\* wait() returns the process that ended and frees its entry.
Reap(n) ==
    /\ child[n] = "zombie"
    /\ child' = [child EXCEPT ![n] = "reaped"]
    /\ stack' = Remove(stack, n)

-----------------------------------------------------------------------------
(* main                                                                    *)

\* With an entry on the stack check_children is called until it finds no
\* child; its wait() is not a poll, so the shell sleeps until all have ended.
TopReap ==
    /\ spc = "top" /\ stack # <<>>
    /\ \E n \in Numbers : Reap(n)
    /\ UNCHANGED <<spc, cmd, in_pipe, pass_through, in, out, count,
                   stdin, stdout, writes, pipeVars>>

TopDone ==
    /\ Goto("top", "get")
    /\ stack = <<>> \/ Children = {}
    /\ UNCHANGED <<shellVars, childVars, pipeVars>>

\* An empty command: nothing but the prompt of the next line.
GetNothing ==
    /\ Goto("get", "top")
    /\ cmd' = NoCommand
    /\ UNCHANGED <<in_pipe, pass_through, in, out, stack, count, childVars, pipeVars>>

GetCommand ==
    /\ Goto("get", "verify")
    /\ count < MaxCommands
    /\ cmd' \in Commands
    /\ UNCHANGED <<in_pipe, pass_through, in, out, stack, count, childVars, pipeVars>>

\* The end of the input: get_word calls exit(0).
EndOfInput ==
    /\ Goto("get", "gone")
    /\ readers' = [k \in Numbers |-> readers[k] \ {0}]
    /\ writers' = [k \in Numbers |-> writers[k] \ {0}]
    /\ UNCHANGED <<shellVars, childVars, data>>

RedirectClash ==
    \/ cmd.mode = "PIPE" /\ in_pipe /\ (cmd.ifile \/ cmd.ofile)
    \/ cmd.mode = "PIPE" /\ ~in_pipe /\ cmd.ofile
    \/ cmd.mode # "PIPE" /\ in_pipe /\ cmd.ifile

\* verify_command_line; what it refuses is forgotten, in_pipe is not.
Verify ==
    /\ Goto("verify", IF RedirectClash \/ cmd.name = "bad" THEN "top" ELSE "io")
    /\ UNCHANGED <<shellVars, childVars, pipeVars>>

\* set_child_io
SetChildIo ==
    /\ Goto("io", "fork")
    /\ count' = count + 1
    /\ in' = IF in_pipe THEN pass_through ELSE 0
    /\ in_pipe' = (cmd.mode = "PIPE")
    /\ IF cmd.mode = "PIPE"
       THEN /\ out' = count' /\ pass_through' = count'
            /\ readers' = [readers EXCEPT ![count'] = {0}]
            /\ writers' = [writers EXCEPT ![count'] = {0}]
       ELSE out' = 0 /\ UNCHANGED <<pass_through, readers, writers>>
    /\ UNCHANGED <<cmd, stack, childVars, data>>

\* pipe() fails.
SetChildIoFails ==
    /\ Goto("io", "top")
    /\ cmd.mode = "PIPE"
    /\ UNCHANGED <<shellVars, childVars, pipeVars>>

\* The child has every descriptor of the shell; dup2 closes none of them.
Inherit(ends, n) == [k \in Numbers |-> IF 0 \in ends[k] THEN ends[k] \cup {n} ELSE ends[k]]

\* (fault) only background jobs are pushed
PushBackground(pid) == stack' = IF cmd.mode # "BACKGROUND" THEN stack
                                ELSE Append(stack, [pid |-> pid, mode |-> cmd.mode])

\* A plain command is waited for, any other goes on the stack.
Push(pid) == stack' = IF cmd.mode = "PLAIN" THEN stack
                      ELSE Append(stack, [pid |-> pid, mode |-> cmd.mode])

Fork ==
    /\ Goto("fork", IF cmd.mode = "PLAIN" THEN "wait" ELSE "close")
    /\ Push(count)
    /\ child' = [child EXCEPT ![count] = "runs"]
    /\ stdin' = [stdin EXCEPT ![count] = in]
    /\ stdout' = [stdout EXCEPT ![count] = out]
    /\ \E k \in 0..MaxWrites : writes' = [writes EXCEPT ![count] = IF out = 0 THEN 0 ELSE k]
    /\ readers' = Inherit(readers, count) /\ writers' = Inherit(writers, count)
    /\ UNCHANGED <<cmd, in_pipe, pass_through, in, out, count, data>>

\* fork() returns -1, which is true: it is taken for the pid of a child, and
\* for a plain command check_children returns the same -1 for want of one.
ForkFails ==
    /\ Goto("fork", "close")
    /\ Push(Failed)
    /\ UNCHANGED <<cmd, in_pipe, pass_through, in, out, count, childVars, pipeVars>>

\* while (check_children() != child_pid), for a plain command
WaitReap ==
    /\ spc = "wait"
    /\ \E n \in Numbers : Reap(n) /\ spc' = IF n = count THEN "close" ELSE "wait"
    /\ UNCHANGED <<cmd, in_pipe, pass_through, in, out, count,
                   stdin, stdout, writes, pipeVars>>

LetGo(ends, k, p) == [j \in Numbers |-> IF j = k THEN ends[j] \ {p} ELSE ends[j]]

\* (fault) the shell keeps what it read end it passed on
CloseOutOnly ==
    /\ Goto("close", "top")
    /\ writers' = LetGo(writers, out, 0)
    /\ UNCHANGED <<shellVars, childVars, data, readers>>

\* (fault) the shell keeps the write end
CloseInOnly ==
    /\ Goto("close", "top")
    /\ readers' = LetGo(readers, in, 0)
    /\ UNCHANGED <<shellVars, childVars, data, writers>>

Close ==
    /\ Goto("close", "top")
    /\ readers' = LetGo(readers, in, 0)
    /\ writers' = LetGo(writers, out, 0)
    /\ UNCHANGED <<shellVars, childVars, data>>

Shell == \/ TopReap \/ TopDone \/ Verify \/ SetChildIo \/ Fork \/ WaitReap \/ Close

User == GetNothing \/ GetCommand \/ EndOfInput

-----------------------------------------------------------------------------
(* The programs: whatever execve starts in child n.                        *)

ReadPipe(n) ==
    /\ child[n] = "runs" /\ stdin[n] # 0 /\ data[stdin[n]] > 0
    /\ data' = [data EXCEPT ![stdin[n]] = @ - 1]
    /\ UNCHANGED <<spc, shellVars, childVars, readers, writers>>

WritePipe(n) ==
    /\ child[n] = "runs" /\ writes[n] > 0 /\ data[stdout[n]] < Capacity
    /\ readers[stdout[n]] # {}
    /\ data' = [data EXCEPT ![stdout[n]] = @ + 1]
    /\ writes' = [writes EXCEPT ![n] = @ - 1]
    /\ UNCHANGED <<spc, shellVars, child, stdin, stdout, readers, writers>>

Dies(n) ==
    /\ child[n] = "runs"
    /\ child' = [child EXCEPT ![n] = IF spc = "gone" THEN "reaped" ELSE "zombie"]
    /\ readers' = [k \in Numbers |-> readers[k] \ {n}]
    /\ writers' = [k \in Numbers |-> writers[k] \ {n}]
    /\ UNCHANGED <<spc, shellVars, stdin, stdout, writes, data>>

\* A program ends when it has read all its input and written all its output.
Ends(n) ==
    /\ writes[n] = 0
    /\ stdin[n] # 0 => data[stdin[n]] = 0 /\ writers[stdin[n]] = {}
    /\ Dies(n)

Program(n) == ReadPipe(n) \/ WritePipe(n) \/ Ends(n)

-----------------------------------------------------------------------------
Next == \/ Shell \/ User \/ SetChildIoFails \/ ForkFails
        \/ \E n \in Numbers : Program(n) \/ Dies(n)

Spec == Init /\ [][Next]_vars

\* The shell and the programs are scheduled; nothing makes the user type,
\* a call fail, or a program end before it is through.
FairSpec == Spec /\ WF_vars(Shell) /\ \A n \in Numbers : WF_vars(Program(n))

-----------------------------------------------------------------------------
Entries == {stack[i] : i \in 1..Len(stack)}

TypeOK ==
    /\ spc \in {"top", "get", "verify", "io", "fork", "wait", "close", "gone"}
    /\ cmd \in Commands \cup {NoCommand} /\ in_pipe \in BOOLEAN
    /\ pass_through \in Processes /\ in \in Processes /\ out \in Processes
    /\ stack \in Seq([pid : Numbers \cup {Failed}, mode : Modes \ {"PLAIN"}])
    /\ count \in Processes
    /\ child \in [Numbers -> {"none", "runs", "zombie", "reaped"}]
    /\ stdin \in [Numbers -> Processes] /\ stdout \in [Numbers -> Processes]
    /\ writes \in [Numbers -> 0..MaxWrites]
    /\ data \in [Numbers -> 0..Capacity]
    /\ readers \in [Numbers -> SUBSET Processes]
    /\ writers \in [Numbers -> SUBSET Processes]

\* Between two commands every child is on the stack, so the wait at the top of
\* the loop is for all of them (lines 288-290, 307-317).
StackListsChildren ==
    spc \in {"top", "get", "verify", "io"} => \A n \in Children : \E e \in Entries : e.pid = n

\* When the next command is read, all that is left on the stack are the pids
\* of failed forks: they stay for good, and process_stack has MAX elements.
OnlyFailedForksStay == spc = "get" => \A e \in Entries : e.pid = Failed

\* Between two commands the shell has one pipe end open at most, the read end
\* it will hand to the next command: no other descriptor is left behind, and
\* above all no write end, which would keep the reader from its end of file.
OnlyPassThroughStaysOpen ==
    spc \in {"top", "get", "verify"} => \A k \in Numbers :
        /\ 0 \in readers[k] => in_pipe /\ k = pass_through
        /\ 0 \notin writers[k]

\* A command that is started gives the input back to the user, unless a
\* program fills its pipe: its reader is only started when it has ended.
StuckOnFullPipe ==
    \E n \in Numbers : /\ child[n] = "runs" /\ writes[n] > 0
                       /\ data[stdout[n]] = Capacity
ReturnsUnlessPipeFull == spc = "fork" ~> spc = "get" \/ StuckOnFullPipe

\* "true only if we are in a pipeline" (line 56): the flag does not outlive a
\* command that ends the pipeline, nor one that is refused.
InPipeOnlyInPipeline ==
    spc = "top" /\ cmd # NoCommand /\ cmd.mode # "PIPE" => ~in_pipe
=============================================================================
