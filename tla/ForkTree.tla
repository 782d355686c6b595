------------------------------ MODULE ForkTree ------------------------------
(***************************************************************************)
(* my_fork.c: two rounds of fork() make four processes, each of which      *)
(* writes its letter num times and waits as often as its path through      *)
(* my_fork and fork_again has a wait().  A process is named by its letter: *)
(* D is the first one, C its first child, B its second, A the child of C.  *)
(***************************************************************************)
EXTENDS Integers

CONSTANT Num       \* num in main: how often each letter is written

NumAssumption == Num \in Nat

VARIABLES state,   \* "unborn", "running", "zombie", "gone"; "failed" is a
                   \* zombie that left with exit(1)
          step,    \* the statement it has come to
          written  \* letters written

vars == <<state, step, written>>

Letters == {"A", "B", "C", "D"}
ParentOf == [A |-> "C", B |-> "D", C |-> "D", D |-> "shell"]

\* A process forks its children one after the other, writes, and waits.
ForkedAt == [A |-> 1, B |-> 2, C |-> 1]             \* the step of its parent
WriteAt == [D |-> 3, C |-> 2, B |-> 1, A |-> 1]

\* (fault) the wait() of my_fork is left out
WaitsOfForkAgain == [D |-> 1, C |-> 1, B |-> 0, A |-> 0]

\* B, born in the parent's branch of my_fork, comes to its wait() too.
Waits == [D |-> 2, C |-> 1, B |-> 1, A |-> 0]

Init ==
    /\ state = [p \in Letters |-> IF p = "D" THEN "running" ELSE "unborn"]
    /\ step = [p \in Letters |-> 1]
    /\ written = [p \in Letters |-> 0]

-----------------------------------------------------------------------------
Running(p) == state[p] = "running"
AtFork(p, child) == Running(p) /\ ParentOf[child] = p /\ step[p] = ForkedAt[child]
AtWrite(p) == Running(p) /\ step[p] = WriteAt[p]
AtWait(p) == Running(p) /\ step[p] > WriteAt[p] /\ step[p] <= WriteAt[p] + Waits[p]

Advance(p) == step' = [step EXCEPT ![p] = @ + 1]

Fork(p, child) ==
    /\ AtFork(p, child)
    /\ state' = [state EXCEPT ![child] = "running"]
    /\ Advance(p) /\ UNCHANGED written

\* perror and exit(1), in whichever process.
ForkFails(p) ==
    /\ \E child \in Letters \ {"D"} : AtFork(p, child)
    /\ state' = [state EXCEPT ![p] = "failed"]
    /\ UNCHANGED <<step, written>>

Write(p) ==
    /\ AtWrite(p) /\ written[p] < Num
    /\ written' = [written EXCEPT ![p] = @ + 1]
    /\ UNCHANGED <<state, step>>

Written(p) ==
    /\ AtWrite(p) /\ written[p] >= Num
    /\ Advance(p) /\ UNCHANGED <<state, written>>

Children(p) == {c \in Letters : ParentOf[c] = p /\ state[c] \notin {"unborn", "gone"}}

\* wait() takes whichever child has ended.
Wait(p) ==
    /\ AtWait(p)
    /\ \E c \in Children(p) : state[c] # "running" /\ state' = [state EXCEPT ![c] = "gone"]
    /\ Advance(p) /\ UNCHANGED written

\* wait() without children returns at once.
WaitForNobody(p) ==
    /\ AtWait(p) /\ Children(p) = {}
    /\ Advance(p) /\ UNCHANGED <<state, written>>

Return(p) ==
    /\ Running(p) /\ step[p] > WriteAt[p] + Waits[p]
    /\ state' = [state EXCEPT ![p] = "zombie"]
    /\ UNCHANGED <<step, written>>

Run(p) == \/ \E c \in Letters \ {"D"} : Fork(p, c)
          \/ ForkFails(p) \/ Write(p) \/ Written(p)
          \/ Wait(p) \/ WaitForNobody(p) \/ Return(p)

Next == \E p \in Letters : Run(p)

Spec == Init /\ [][Next]_vars

-----------------------------------------------------------------------------
TypeOK ==
    /\ state \in [Letters -> {"unborn", "running", "zombie", "failed", "gone"}]
    /\ step \in [Letters -> 1..6]
    /\ written \in [Letters -> 0..Num]

\* Each wait() takes any child, and B has one too many; still a process that
\* came to its end has outlived and reaped every child it had, so that when
\* the shell gets its prompt back all letters are out - unless a fork()
\* failed in the process itself (lines 25-36 and 49-56).
ParentsEndLast ==
    \A p \in Letters : state[p] = "zombie" =>
        \A c \in Letters : ParentOf[c] = p => state[c] = "gone"
=============================================================================
