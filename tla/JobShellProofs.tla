--------------------------- MODULE JobShellProofs ---------------------------
(***************************************************************************)
(* The command shell with any number of commands, pipes of any capacity    *)
(* and programs that write any number of blocks: the process stack lists   *)
(* the children, and the pipe ends end with the commands that need them.   *)
(***************************************************************************)
EXTENDS JobShell, TLAPS

\* The shell has made the descriptors of a command and still holds them.
Underway == {"fork", "wait", "close"}

USE CapacityAssumption, BoundAssumption

-----------------------------------------------------------------------------
(* Types.                                                                  *)

\* count stays within its bound, and a program that has blocks to write has
\* a pipe to write them to.
CountInv ==
    /\ spc \in {"verify", "io"} => count < MaxCommands
    /\ spc \in Underway => count \in Numbers
    /\ \A n \in Numbers : writes[n] > 0 => stdout[n] # 0

Item == [pid : Numbers \cup {Failed}, mode : Modes \ {"PLAIN"}]

\* check_children, as the sequence it leaves: the top of the stack is moved to
\* the place of the entry that is freed.
LEMMA RemoveMoves ==
    ASSUME stack \in Seq(Item), NEW pid, NEW j \in 1..Len(stack), stack[j].pid = pid
    PROVE  \E i \in 1..Len(stack) :
              /\ stack[i].pid = pid /\ Remove(stack, pid) \in Seq(Item)
              /\ Len(Remove(stack, pid)) = Len(stack) - 1
              /\ \A k \in 1..Len(stack)-1 :
                    Remove(stack, pid)[k] = IF k = i THEN stack[Len(stack)] ELSE stack[k]
<1> DEFINE i == CHOOSE k \in 1..Len(stack) : stack[k].pid = pid
           t == [stack EXCEPT ![i] = stack[Len(stack)]]
           r == SubSeq(t, 1, Len(stack) - 1)
<1>1. i \in 1..Len(stack) /\ stack[i].pid = pid
  OBVIOUS
<1>2. Remove(stack, pid) = r
  BY DEF Remove
<1> HIDE DEF i
<1>3. /\ t \in Seq(Item) /\ Len(t) = Len(stack)
      /\ \A k \in 1..Len(stack) : t[k] = IF k = i THEN stack[Len(stack)] ELSE stack[k]
  BY <1>1
<1> HIDE DEF t
<1>4. /\ r \in Seq(Item) /\ Len(r) = Len(stack) - 1
      /\ \A k \in 1..Len(stack)-1 : r[k] = t[k]
  BY <1>1, <1>3
<1> QED BY <1>1, <1>2, <1>3, <1>4

LEMMA RemoveType ==
    ASSUME stack \in Seq(Item), NEW pid PROVE Remove(stack, pid) \in Seq(Item)
<1>1. CASE \E j \in 1..Len(stack) : stack[j].pid = pid
  BY <1>1, RemoveMoves
<1>2. CASE ~ \E j \in 1..Len(stack) : stack[j].pid = pid
  BY <1>2 DEF Remove
<1> QED BY <1>1, <1>2

LEMMA PushType ==
    ASSUME NEW pid \in Numbers \cup {Failed}, stack \in Seq(Item), cmd.mode \in Modes, Push(pid)
    PROVE  stack' \in Seq(Item)
<1>1. CASE cmd.mode = "PLAIN"
  BY <1>1 DEF Push
<1>2. CASE cmd.mode # "PLAIN"
  <2>1. [pid |-> pid, mode |-> cmd.mode] \in Item
    BY <1>2 DEF Item
  <2> QED BY <1>2, <2>1 DEF Push
<1> QED BY <1>1, <1>2

LEMMA ModeType == TypeOK => cmd.mode \in Modes
<1>1. CASE cmd \in Commands  BY <1>1 DEF Commands
<1>2. CASE cmd = NoCommand   BY <1>2 DEF NoCommand, Modes
<1> QED BY <1>1, <1>2 DEF TypeOK

LEMMA TypeInit == Init => TypeOK /\ CountInv
<1> SUFFICES ASSUME Init PROVE TypeOK /\ CountInv
  OBVIOUS
<1>1. stack \in Seq(Item) /\ 0 \in Processes /\ 0 \in 0..MaxWrites /\ 0 \in 0..Capacity
  BY DEF Init, Processes
<1>2. CountInv
  BY DEF Init, CountInv, Underway
<1> QED BY <1>1, <1>2 DEF Init, TypeOK, Item

LEMMA TypeStep == TypeOK /\ CountInv /\ [Next]_vars => TypeOK' /\ CountInv'
<1> SUFFICES ASSUME TypeOK, CountInv, [Next]_vars PROVE TypeOK' /\ CountInv'
  OBVIOUS
<1>0. /\ cmd.mode \in Modes /\ cmd \in Commands \cup {NoCommand}
      /\ stack \in Seq(Item) /\ 0 \in Processes
      /\ \A n \in Numbers : n \in Processes /\ n # 0
  <2>1. cmd.mode \in Modes
    BY ModeType
  <2>2. 0 \in Processes /\ \A n \in Numbers : n \in Processes /\ n # 0
    BY DEF Numbers, Processes
  <2> QED BY <2>1, <2>2 DEF TypeOK, Item
<1> USE DEF CountInv, Underway, Goto
<1>1. CASE TopReap \/ WaitReap
  <2>1. PICK n \in Numbers : Reap(n)
    BY <1>1 DEF TopReap, WaitReap
  <2>2. stack' \in Seq(Item) /\ child' = [child EXCEPT ![n] = "reaped"]
    BY <1>0, <2>1, RemoveType DEF Reap
  <2>3. /\ spc' \in {"top", "wait", "close"} /\ (spc' \in Underway => spc \in Underway)
        /\ UNCHANGED <<cmd, in_pipe, pass_through, in, out, count, stdin, stdout, writes, pipeVars>>
    BY <1>1 DEF TopReap, WaitReap
  <2>4. child' \in [Numbers -> {"none", "runs", "zombie", "reaped"}]
    BY <2>2 DEF TypeOK
  <2>5. CountInv'
    BY <2>3
  <2> QED BY <2>2, <2>3, <2>4, <2>5 DEF TypeOK, pipeVars, Item
<1>2. CASE TopDone \/ GetNothing \/ Verify \/ SetChildIoFails
  BY <1>2 DEF TypeOK, TopDone, GetNothing, Verify, SetChildIoFails, shellVars, childVars, pipeVars
<1>3. CASE GetCommand
  BY <1>3 DEF TypeOK, GetCommand, childVars, pipeVars, Processes
<1>4. CASE SetChildIo
  <2>1. count' \in Numbers /\ spc' = "fork" /\ in_pipe' \in BOOLEAN
    BY <1>4 DEF TypeOK, SetChildIo, Processes, Numbers
  <2>2. in' \in Processes /\ out' \in Processes /\ pass_through' \in Processes
    BY <1>4, <2>1, <1>0 DEF TypeOK, SetChildIo
  <2>3. readers' \in [Numbers -> SUBSET Processes] /\ writers' \in [Numbers -> SUBSET Processes]
    BY <1>4, <2>1, <1>0, SMTT(30) DEF TypeOK, SetChildIo
  <2> QED BY <1>0, <1>4, <2>1, <2>2, <2>3 DEF TypeOK, SetChildIo, childVars
<1>5. CASE Fork \/ ForkFails
  <2>1. count \in Numbers
    BY <1>5 DEF Fork, ForkFails
  <2>2. stack' \in Seq(Item)
    BY <1>5, <1>0, <2>1, PushType DEF Fork, ForkFails
  <2>3. /\ spc' \in {"wait", "close"}
        /\ UNCHANGED <<cmd, in_pipe, pass_through, in, out, count, data>>
    BY <1>5 DEF Fork, ForkFails, pipeVars
  <2>4. /\ child' \in [Numbers -> {"none", "runs", "zombie", "reaped"}]
        /\ stdin' \in [Numbers -> Processes] /\ stdout' \in [Numbers -> Processes]
    <3>1. CASE Fork       BY <3>1, <2>1 DEF Fork, TypeOK
    <3>2. CASE ForkFails  BY <3>2 DEF ForkFails, TypeOK, childVars
    <3> QED BY <1>5, <3>1, <3>2
  <2>5. /\ writes' \in [Numbers -> 0..MaxWrites]
        /\ \A n \in Numbers : writes'[n] > 0 => stdout'[n] # 0
    <3>1. CASE Fork
      <4>1. PICK k \in 0..MaxWrites : writes' = [writes EXCEPT ![count] = IF out = 0 THEN 0 ELSE k]
        BY <3>1 DEF Fork
      <4>2. writes' \in [Numbers -> 0..MaxWrites]
        BY <4>1, <2>1 DEF TypeOK
      <4>3. \A n \in Numbers : writes'[n] > 0 => stdout'[n] # 0
        BY <4>1, <3>1, <2>1 DEF Fork, TypeOK
      <4> QED BY <4>2, <4>3
    <3>2. CASE ForkFails  BY <3>2 DEF ForkFails, TypeOK, childVars
    <3> QED BY <1>5, <3>1, <3>2
  <2>6. readers' \in [Numbers -> SUBSET Processes] /\ writers' \in [Numbers -> SUBSET Processes]
    <3>1. CASE Fork
      <4>1. count \in Processes
        BY <1>0, <2>1
      <4> QED BY <3>1, <4>1 DEF Fork, TypeOK, Inherit
    <3>2. CASE ForkFails  BY <3>2 DEF ForkFails, TypeOK, pipeVars
    <3> QED BY <1>5, <3>1, <3>2
  <2> QED BY <2>1, <2>2, <2>3, <2>4, <2>5, <2>6 DEF TypeOK, Item
<1>6. CASE EndOfInput \/ Close
  <2>1. readers' \in [Numbers -> SUBSET Processes] /\ writers' \in [Numbers -> SUBSET Processes]
    <3>1. CASE EndOfInput  BY <3>1 DEF EndOfInput, TypeOK
    <3>2. CASE Close       BY <3>2 DEF Close, TypeOK, LetGo
    <3> QED BY <1>6, <3>1, <3>2
  <2> QED BY <1>6, <2>1 DEF EndOfInput, Close, TypeOK, shellVars, childVars
<1>7. ASSUME NEW n \in Numbers, ReadPipe(n) PROVE TypeOK' /\ CountInv'
  <2>1. stdin[n] \in Numbers /\ data[stdin[n]] \in 0..Capacity
    BY <1>7, SMTT(30) DEF ReadPipe, TypeOK, Numbers, Processes
  <2>2. data' \in [Numbers -> 0..Capacity]
    BY <1>7, <2>1 DEF ReadPipe, TypeOK
  <2> QED BY <1>7, <2>2 DEF ReadPipe, TypeOK, shellVars, childVars
<1>8. ASSUME NEW n \in Numbers, WritePipe(n) PROVE TypeOK' /\ CountInv'
  <2>1. stdout[n] \in Numbers /\ data[stdout[n]] \in 0..Capacity /\ writes[n] \in 0..MaxWrites
    BY <1>8, SMTT(30) DEF WritePipe, TypeOK, Numbers, Processes
  <2>2. data' \in [Numbers -> 0..Capacity]
    BY <1>8, <2>1 DEF WritePipe, TypeOK
  <2>3. writes' \in [Numbers -> 0..MaxWrites] /\ \A m \in Numbers : writes'[m] > 0 => writes[m] > 0
    BY <1>8, <2>1 DEF WritePipe, TypeOK
  <2> QED BY <1>8, <2>2, <2>3 DEF WritePipe, TypeOK, shellVars
<1>9. ASSUME NEW n \in Numbers, Dies(n) PROVE TypeOK' /\ CountInv'
  BY <1>9 DEF Dies, TypeOK, shellVars
<1>10. CASE UNCHANGED vars
  BY <1>10 DEF TypeOK, vars, shellVars, childVars, pipeVars
<1> QED
  BY <1>1, <1>2, <1>3, <1>4, <1>5, <1>6, <1>7, <1>8, <1>9, <1>10
  DEF Next, Shell, User, Program, Ends

\* Every field, descriptor and entry is one the program could hold; no read
\* or write of a program leaves the bounds of its pipe.
THEOREM TypeCorrect == Spec => []TypeOK
  BY TypeInit, TypeStep, PTL DEF Spec

-----------------------------------------------------------------------------
(* The process stack.                                                      *)

Distinct == \A i, j \in 1..Len(stack) :
                stack[i].pid = stack[j].pid => i = j \/ stack[i].pid = Failed

\* An entry is a child, or a failed fork; a child has an entry, unless it is
\* the plain command the shell waits for; and a command is read, checked and
\* started only when no child is left.
StackInv ==
    /\ Distinct
    /\ spc # "gone" => \A e \in Entries : e.pid = Failed \/ e.pid \in Children
    /\ \A n \in Children : (\E e \in Entries : e.pid = n) \/ (spc = "wait" /\ n = count)
    /\ spc = "wait" => count \in Children
    /\ spc \in {"get", "verify", "io", "fork"} => Children = {}
    /\ \A n \in Numbers : n > count \/ (spc = "fork" /\ n = count) => child[n] = "none"

\* check_children frees the entry of the process that ended, and no other.
LEMMA RemoveFrees ==
    ASSUME stack \in Seq(Item), Distinct, NEW n \in Numbers, stack' = Remove(stack, n)
    PROVE  Distinct' /\ Entries' = {e \in Entries : e.pid # n}
<1>0. n # Failed
  BY DEF Numbers, Failed
<1>1. CASE \E j \in 1..Len(stack) : stack[j].pid = n
  <2> DEFINE top == Len(stack)
  <2>1. PICK i \in 1..top :
            /\ stack[i].pid = n /\ Len(stack') = top - 1
            /\ \A k \in 1..top-1 : stack'[k] = IF k = i THEN stack[top] ELSE stack[k]
    <3>1. PICK j \in 1..Len(stack) : stack[j].pid = n
      BY <1>1
    <3>2. \E i \in 1..Len(stack) :
              /\ stack[i].pid = n /\ Remove(stack, n) \in Seq(Item)
              /\ Len(Remove(stack, n)) = Len(stack) - 1
              /\ \A k \in 1..Len(stack)-1 :
                    Remove(stack, n)[k] = IF k = i THEN stack[Len(stack)] ELSE stack[k]
      BY <3>1, RemoveMoves, ZenonT(60)
    <3> QED BY <3>2
  <2>2. top \in Nat
    OBVIOUS
  <2> HIDE DEF top
  <2>3. \A k \in 1..top : stack[k].pid = n => k = i
    BY <1>0, <2>1 DEF Distinct, top
  <2>4. \A k \in 1..top-1 : \E j \in 1..top : j # i /\ stack'[k] = stack[j] /\ j = IF k = i THEN top ELSE k
    BY <2>1, <2>2
  <2>5. Distinct'
    <3> SUFFICES ASSUME NEW k \in 1..top-1, NEW l \in 1..top-1, stack'[k].pid = stack'[l].pid
                 PROVE  k = l \/ stack'[k].pid = Failed
      BY <2>1 DEF Distinct
    <3>1. PICK a \in 1..top : stack'[k] = stack[a] /\ a = IF k = i THEN top ELSE k
      BY <2>4
    <3>2. PICK b \in 1..top : stack'[l] = stack[b] /\ b = IF l = i THEN top ELSE l
      BY <2>4
    <3>3. a = b \/ stack[a].pid = Failed
      BY <3>1, <3>2 DEF Distinct, top
    <3> QED BY <2>2, <3>1, <3>2, <3>3
  <2>6. \A e \in Entries' : e \in Entries /\ e.pid # n
    BY <2>1, <2>3, <2>4 DEF Entries, top
  <2>7. ASSUME NEW e \in Entries, e.pid # n PROVE e \in Entries'
    <3>1. PICK k \in 1..top : e = stack[k]
      BY DEF Entries, top
    <3>2. k # i
      BY <2>1, <2>7, <3>1
    <3>3. \E l \in 1..top-1 : stack'[l] = stack[k]
      <4>1. CASE k = top   BY <2>1, <2>2, <3>2, <4>1
      <4>2. CASE k # top   BY <2>1, <2>2, <3>2, <4>2
      <4> QED BY <4>1, <4>2
    <3> QED BY <2>1, <3>1, <3>3 DEF Entries
  <2> QED BY <2>5, <2>6, <2>7
<1>2. CASE ~ \E j \in 1..Len(stack) : stack[j].pid = n
  <2>1. stack' = stack
    BY <1>2 DEF Remove
  <2> QED BY <1>2, <2>1 DEF Entries, Distinct
<1> QED BY <1>1, <1>2

LEMMA PushEntries ==
    ASSUME stack \in Seq(Item), Distinct, cmd.mode \in Modes, NEW pid, Push(pid),
           pid # Failed => \A e \in Entries : e.pid # pid
    PROVE  /\ Distinct'
           /\ cmd.mode = "PLAIN" => Entries' = Entries
           /\ cmd.mode # "PLAIN" => Entries' = Entries \cup {[pid |-> pid, mode |-> cmd.mode]}
<1>1. CASE cmd.mode = "PLAIN"
  BY <1>1 DEF Push, Distinct, Entries
<1>2. CASE cmd.mode # "PLAIN"
  <2> DEFINE e == [pid |-> pid, mode |-> cmd.mode]
             top == Len(stack)
  <2>1. stack' = Append(stack, e) /\ e.pid = pid /\ top \in Nat
    BY <1>2 DEF Push
  <2> HIDE DEF e
  <2>2. Len(stack') = top + 1 /\ stack'[top + 1] = e /\ \A k \in 1..top : stack'[k] = stack[k]
    BY <2>1
  <2>3. \A k \in 1..top : pid # Failed => stack[k].pid # pid
    BY DEF Entries
  <2> HIDE DEF top
  <2>4. Distinct'
    <3> SUFFICES ASSUME NEW k \in 1..top+1, NEW l \in 1..top+1, stack'[k].pid = stack'[l].pid
                 PROVE  k = l \/ stack'[k].pid = Failed
      BY <2>2 DEF Distinct
    <3>1. CASE k \in 1..top /\ l \in 1..top
      BY <3>1, <2>2 DEF Distinct, top
    <3>2. CASE k = top + 1 \/ l = top + 1
      BY <3>2, <2>1, <2>2, <2>3
    <3>3. \A x \in 1..top+1 : x \in 1..top \/ x = top + 1
      BY <2>1
    <3> QED BY <3>1, <3>2, <3>3
  <2>5. Entries' = Entries \cup {e}
    <3>1. \A d \in Entries' : d \in Entries \cup {e}
      BY <2>1, <2>2 DEF Entries, top
    <3>2. \A d \in Entries \cup {e} : d \in Entries'
      BY <2>1, <2>2 DEF Entries, top
    <3> QED BY <3>1, <3>2
  <2> QED BY <1>2, <2>4, <2>5 DEF e
<1> QED BY <1>1, <1>2

LEMMA StackInit == Init => StackInv
<1> SUFFICES ASSUME Init PROVE StackInv
  OBVIOUS
<1>1. Len(stack) = 0 /\ Children = {}
  BY DEF Init, Children
<1>2. Entries = {} /\ Distinct
  BY <1>1 DEF Entries, Distinct
<1> QED BY <1>1, <1>2 DEF Init, StackInv

LEMMA StackStep == TypeOK /\ CountInv /\ StackInv /\ [Next]_vars => StackInv'
<1> SUFFICES ASSUME TypeOK, CountInv, StackInv, [Next]_vars PROVE StackInv'
  OBVIOUS
<1>0. stack \in Seq(Item) /\ child \in [Numbers -> {"none", "runs", "zombie", "reaped"}] /\ count \in 0..MaxCommands
  BY DEF TypeOK, Item, Processes
<1> USE DEF Goto
<1>1. ASSUME NEW n \in Numbers, Reap(n),
             \/ spc = "top" /\ spc' = "top"
             \/ spc = "wait" /\ spc' = IF n = count THEN "close" ELSE "wait",
             count' = count
      PROVE  StackInv'
  <2>1. child[n] = "zombie" /\ child' = [child EXCEPT ![n] = "reaped"] /\ stack' = Remove(stack, n)
    BY <1>1 DEF Reap
  <2>2. Children' = Children \ {n}
    BY <1>0, <2>1 DEF Children
  <2>3. Distinct' /\ Entries' = {e \in Entries : e.pid # n}
    BY <1>0, <2>1, RemoveFrees DEF StackInv
  <2>4. \A m \in Numbers : m > count => child'[m] = "none"
    BY <1>0, <2>1 DEF StackInv
  <2> QED BY <1>1, <2>2, <2>3, <2>4 DEF StackInv
<1>2. CASE TopReap \/ WaitReap
  BY <1>1, <1>2 DEF TopReap, WaitReap
<1>3. CASE Fork \/ ForkFails
  <2>1. count \in Numbers /\ Children = {} /\ Distinct /\ child[count] = "none"
        /\ \A e \in Entries : e.pid = Failed
    BY <1>3 DEF Fork, ForkFails, CountInv, Underway, StackInv
  <2>2. /\ count' = count /\ UNCHANGED cmd
        /\ spc' = "wait" => cmd.mode = "PLAIN" /\ Fork
        /\ spc' \in {"wait", "close"}
        /\ Fork /\ cmd.mode = "PLAIN" => spc' = "wait"
    BY <1>3 DEF Fork, ForkFails
  <2>3. PICK pid \in {count, Failed} : Push(pid) /\ pid = IF Fork THEN count ELSE Failed
    BY <1>3 DEF Fork, ForkFails
  <2>4. count # Failed
    BY <2>1 DEF Numbers, Failed
  <2>5. /\ Distinct'
        /\ cmd.mode = "PLAIN" => Entries' = Entries
        /\ cmd.mode # "PLAIN" => Entries' = Entries \cup {[pid |-> pid, mode |-> cmd.mode]}
    BY <1>0, <2>1, <2>3, <2>4, ModeType, PushEntries
  <2>6. Children' = IF Fork THEN {count} ELSE {}
    <3>1. CASE Fork   BY <3>1, <1>0, <2>1 DEF Fork, Children
    <3>2. CASE ~Fork  BY <3>2, <1>3, <2>1 DEF ForkFails, Children, childVars
    <3> QED BY <3>1, <3>2
  <2>7. \A n \in Numbers : n > count => child'[n] = "none"
    <3>1. CASE Fork   BY <3>1, <1>0, <2>1 DEF Fork, StackInv
    <3>2. CASE ~Fork  BY <3>2, <1>3 DEF ForkFails, StackInv, childVars
    <3> QED BY <3>1, <3>2
  <2>8. [pid |-> pid, mode |-> cmd.mode].pid = pid
    OBVIOUS
  <2>9. \A e \in Entries' : e.pid = Failed \/ e.pid \in Children'
    BY <2>1, <2>3, <2>5, <2>6, <2>8
  <2>10. \A n \in Children' : (\E e \in Entries' : e.pid = n) \/ (spc' = "wait" /\ n = count')
    BY <2>2, <2>3, <2>5, <2>6, <2>8
  <2> QED BY <2>2, <2>5, <2>6, <2>7, <2>9, <2>10 DEF StackInv
<1>4. CASE SetChildIo
  <2>1. /\ count' = count + 1 /\ UNCHANGED <<stack, child>> /\ spc = "io" /\ spc' = "fork"
    BY <1>4 DEF SetChildIo, childVars
  <2>2. Children' = Children /\ Entries' = Entries /\ (Distinct' <=> Distinct)
    BY <2>1 DEF Children, Entries, Distinct
  <2>3. \A n \in Numbers : n > count' \/ n = count' => child'[n] = "none"
    BY <2>1, <1>0 DEF StackInv, Numbers
  <2> QED BY <2>1, <2>2, <2>3 DEF StackInv
<1>5. ASSUME UNCHANGED <<stack, child, count>>, spc' # "fork", spc' = "wait" => spc = "wait",
             spc = "wait" => spc' = "wait", spc = "gone" => spc' = "gone",
             spc' \in {"get", "verify", "io"} =>
                 Children = {} \/ spc \in {"get", "verify", "io"}
      PROVE  StackInv'
  <2>1. Children' = Children /\ Entries' = Entries /\ (Distinct' <=> Distinct)
    BY <1>5 DEF Children, Entries, Distinct
  <2> QED BY <1>5, <2>1 DEF StackInv
<1>6. CASE TopDone
  <2>1. Children = {}
    <3>1. CASE stack = <<>>
      <4>1. Entries = {}
        BY <3>1 DEF Entries
      <4> QED BY <1>6, <4>1 DEF TopDone, StackInv
    <3> QED BY <1>6, <3>1 DEF TopDone
  <2> QED BY <1>5, <1>6, <2>1 DEF TopDone, shellVars, childVars
<1>7. CASE Verify \/ Close \/ User \/ SetChildIoFails
  BY <1>5, <1>7 DEF Verify, Close, User, GetNothing, GetCommand, EndOfInput, SetChildIoFails,
                    shellVars, childVars
<1>8. ASSUME NEW n \in Numbers, ReadPipe(n) \/ WritePipe(n) PROVE StackInv'
  <2>1. UNCHANGED <<spc, stack, child, count>>
    BY <1>8 DEF ReadPipe, WritePipe, shellVars, childVars
  <2>2. Children' = Children /\ Entries' = Entries /\ (Distinct' <=> Distinct)
    BY <2>1 DEF Children, Entries, Distinct
  <2> QED BY <2>1, <2>2 DEF StackInv
<1>9. ASSUME NEW n \in Numbers, Dies(n) PROVE StackInv'
  <2>1. /\ UNCHANGED <<spc, stack, count>> /\ child[n] = "runs"
        /\ child' = [child EXCEPT ![n] = IF spc = "gone" THEN "reaped" ELSE "zombie"]
    BY <1>9 DEF Dies, shellVars
  <2>2. Entries' = Entries /\ (Distinct' <=> Distinct)
    BY <2>1 DEF Entries, Distinct
  <2>3. Children' \subseteq Children /\ (spc # "gone" => Children' = Children)
    BY <2>1, <1>0 DEF Children
  <2>4. \A m \in Numbers : child[m] = "none" => child'[m] = "none"
    BY <2>1, <1>0
  <2> QED BY <2>1, <2>2, <2>3, <2>4 DEF StackInv
<1>10. CASE UNCHANGED vars
  <2>1. UNCHANGED <<spc, stack, child, count>>
    BY <1>10 DEF vars, shellVars, childVars
  <2>2. Children' = Children /\ Entries' = Entries /\ (Distinct' <=> Distinct)
    BY <2>1 DEF Children, Entries, Distinct
  <2> QED BY <2>1, <2>2 DEF StackInv
<1> QED
  BY <1>2, <1>3, <1>4, <1>6, <1>7, <1>8, <1>9, <1>10 DEF Next, Shell, Program, Ends

LEMMA StackInvAlways == FairSpec => [](TypeOK /\ StackInv)
  BY TypeInit, StackInit, TypeStep, StackStep, PTL DEF FairSpec, Spec

\* Between two commands every child has its entry on process_stack: the loop
\* that waits while the stack is not empty waits for them all, background jobs
\* and the commands of a pipeline alike (lines 288-290, 307-317).
THEOREM StackListsChildrenAlways == FairSpec => []StackListsChildren
<1>1. StackInv => StackListsChildren
  BY DEF StackInv, StackListsChildren
<1> QED BY <1>1, StackInvAlways, PTL

\* Every entry is freed but those of failed forks: when a command is read they
\* are all that is left on process_stack.
THEOREM OnlyFailedForksStayAlways == FairSpec => []OnlyFailedForksStay
<1>1. StackInv => OnlyFailedForksStay
  BY DEF StackInv, OnlyFailedForksStay
<1> QED BY <1>1, StackInvAlways, PTL

\* The shell runs one pipeline stage or job at a time: no command is started,
\* or even read, while a child of an earlier one is alive. And the process
\* that "while (check_children() != child_pid)" waits for is there to be
\* waited for: no earlier wait() has taken it (lines 288-290, 306-308).
OneCommandAtATime ==
    /\ spc \in {"get", "verify", "io", "fork"} => Children = {}
    /\ spc = "wait" => count \in Children
THEOREM CommandsRunAlone == Spec => []OneCommandAtATime
<1>1. TypeOK /\ StackInv => OneCommandAtATime
  BY DEF StackInv, OneCommandAtATime
<1> QED BY <1>1, TypeInit, StackInit, TypeStep, StackStep, PTL DEF Spec

-----------------------------------------------------------------------------
(* The ends of the pipes.                                                  *)

\* What the shell itself holds open.
PipeInv ==
    /\ spc \in {"top", "get", "verify", "io"} => \A k \in Numbers :
        /\ 0 \in readers[k] => in_pipe /\ k = pass_through
        /\ 0 \notin writers[k]
    /\ spc \in Underway => \A k \in Numbers :
        /\ 0 \in readers[k] => k = in \/ (in_pipe /\ k = pass_through)
        /\ 0 \in writers[k] => k = out

LEMMA PipeStep == TypeOK /\ CountInv /\ PipeInv /\ [Next]_vars => PipeInv'
<1> SUFFICES ASSUME TypeOK, CountInv, PipeInv, [Next]_vars PROVE PipeInv'
  OBVIOUS
<1>0. /\ readers \in [Numbers -> SUBSET Processes] /\ writers \in [Numbers -> SUBSET Processes]
      /\ \A n \in Numbers : n # 0
  BY DEF TypeOK, Numbers
<1> USE DEF PipeInv, Underway, Goto
<1>1. CASE TopReap \/ TopDone \/ Verify \/ WaitReap \/ SetChildIoFails
  BY <1>1 DEF TopReap, TopDone, Verify, WaitReap, SetChildIoFails, shellVars, childVars, pipeVars
<1>2. CASE User
  <2>1. CASE GetNothing \/ GetCommand
    BY <2>1 DEF GetNothing, GetCommand, childVars, pipeVars
  <2>2. CASE EndOfInput
    BY <2>2 DEF EndOfInput
  <2> QED BY <1>2, <2>1, <2>2 DEF User
<1>3. CASE SetChildIo
  <2>1. spc = "io" /\ spc' = "fork"
    BY <1>3 DEF SetChildIo
  <2>2. CASE cmd.mode = "PIPE"
    <3>1. /\ in_pipe' /\ pass_through' = count' /\ out' = count'
          /\ readers' = [readers EXCEPT ![count'] = {0}]
          /\ writers' = [writers EXCEPT ![count'] = {0}]
          /\ in_pipe => in' = pass_through
      BY <1>3, <2>2 DEF SetChildIo
    <3> QED BY <2>1, <3>1, <1>0
  <2>3. CASE cmd.mode # "PIPE"
    <3>1. /\ readers' = readers /\ writers' = writers
          /\ in_pipe => in' = pass_through
      BY <1>3, <2>3 DEF SetChildIo
    <3> QED BY <2>1, <3>1, <1>0
  <2> QED BY <2>2, <2>3
<1>4. CASE Fork
  <2>1. /\ \A k \in Numbers : 0 \in readers'[k] => 0 \in readers[k]
        /\ \A k \in Numbers : 0 \in writers'[k] => 0 \in writers[k]
    BY <1>4, <1>0 DEF Fork, Inherit, CountInv
  <2> QED BY <1>4, <2>1 DEF Fork
<1>5. CASE ForkFails
  BY <1>5 DEF ForkFails, pipeVars
<1>6. CASE Close
  <2>1. /\ \A k \in Numbers : 0 \in readers'[k] => 0 \in readers[k] /\ k # in
        /\ \A k \in Numbers : 0 \in writers'[k] => 0 \in writers[k] /\ k # out
    BY <1>6, <1>0 DEF Close, LetGo
  <2> QED BY <1>6, <2>1 DEF Close, shellVars
<1>7. ASSUME NEW n \in Numbers, ReadPipe(n) \/ WritePipe(n) PROVE PipeInv'
  BY <1>7 DEF ReadPipe, WritePipe, shellVars
<1>8. ASSUME NEW n \in Numbers, Dies(n) PROVE PipeInv'
  <2>1. /\ \A k \in Numbers : 0 \in readers'[k] => 0 \in readers[k]
        /\ \A k \in Numbers : 0 \in writers'[k] => 0 \in writers[k]
    BY <1>8 DEF Dies
  <2> QED BY <1>8, <2>1 DEF Dies, shellVars
<1>9. CASE UNCHANGED vars
  BY <1>9 DEF vars, shellVars, childVars, pipeVars
<1> QED
  BY <1>1, <1>2, <1>3, <1>4, <1>5, <1>6, <1>7, <1>8, <1>9 DEF Next, Shell, Program, Ends

LEMMA PipeInit == Init => PipeInv
  BY DEF Init, PipeInv, Underway

\* The shell closes what it no longer needs: between two commands it has no
\* write end, and no read end but the one the next command is to read from
\* (lines 318-321).
THEOREM OnlyPassThroughStaysOpenAlways == FairSpec => []OnlyPassThroughStaysOpen
<1>1. PipeInv => OnlyPassThroughStaysOpen
  BY DEF PipeInv, OnlyPassThroughStaysOpen
<1> QED BY <1>1, PipeInit, PipeStep, TypeInit, TypeStep, PTL DEF FairSpec, Spec

\* A pipe is written by one command only, and read by a later one.
EndInv ==
    /\ spc # "gone" => pass_through <= count /\ out <= count
    /\ spc \in Underway => in < count /\ out \in {0, count}
    /\ spc = "gone" => \A k \in Numbers : 0 \notin writers[k]
    /\ \A n \in Numbers : stdin[n] < n
    /\ \A k \in Numbers : \A n \in writers[k] : n = 0 \/ (n = k /\ child[n] = "runs")

LEMMA EndInit == Init => EndInv
  BY DEF Init, EndInv, Underway, Numbers

LEMMA EndStep == TypeOK /\ CountInv /\ PipeInv /\ EndInv /\ [Next]_vars => EndInv'
<1> SUFFICES ASSUME TypeOK, CountInv, PipeInv, EndInv, [Next]_vars PROVE EndInv'
  OBVIOUS
<1>0. /\ writers \in [Numbers -> SUBSET Processes] /\ \A n \in Numbers : n \in Nat /\ n # 0
      /\ child \in [Numbers -> {"none", "runs", "zombie", "reaped"}]
      /\ stdin \in [Numbers -> Processes]
      /\ pass_through \in Nat /\ count \in Nat /\ out \in Nat /\ in \in Nat
  <2>1. \A n \in Numbers : n \in Nat /\ n # 0
    BY DEF Numbers
  <2>2. Processes \subseteq Nat
    BY DEF Processes
  <2> QED BY <2>1, <2>2 DEF TypeOK
<1> USE DEF EndInv, Underway, Goto
<1>1. CASE TopDone \/ Verify \/ SetChildIoFails
  BY <1>1 DEF TopDone, Verify, SetChildIoFails, shellVars, childVars, pipeVars
<1>2. CASE TopReap \/ WaitReap
  <2>1. PICK n \in Numbers : Reap(n)
    BY <1>2 DEF TopReap, WaitReap
  <2>2. \A m \in Numbers : child[m] = "runs" => child'[m] = "runs"
    BY <2>1, <1>0 DEF Reap
  <2>3. UNCHANGED <<in, out, pass_through, count, stdin, writers>>
    BY <1>2 DEF TopReap, WaitReap, pipeVars
  <2>4. /\ spc \in {"top", "wait"} /\ spc' \in {"top", "wait", "close"}
        /\ spc' \in Underway => spc \in Underway
    BY <1>2 DEF TopReap, WaitReap
  <2>5. \A k \in Numbers : \A m \in writers[k] : m = 0 \/ m \in Numbers
    BY <1>0 DEF Processes, Numbers
  <2> QED BY <2>2, <2>3, <2>4, <2>5
<1>3. CASE User
  <2>1. CASE GetNothing \/ GetCommand
    BY <2>1 DEF GetNothing, GetCommand, childVars, pipeVars
  <2>2. CASE EndOfInput
    BY <2>2 DEF EndOfInput, shellVars, childVars
  <2> QED BY <1>3, <2>1, <2>2 DEF User
<1>4. CASE SetChildIo
  <2>1. /\ spc = "io" /\ spc' = "fork" /\ count' = count + 1 /\ UNCHANGED childVars
        /\ in' = (IF in_pipe THEN pass_through ELSE 0)
    BY <1>4 DEF SetChildIo
  <2>2. CASE cmd.mode = "PIPE"
    <3>1. /\ pass_through' = count' /\ out' = count'
          /\ writers' = [writers EXCEPT ![count'] = {0}]
      BY <1>4, <2>2 DEF SetChildIo
    <3>2. \A k \in Numbers : \A n \in writers'[k] : n = 0 \/ n \in writers[k]
      BY <3>1, <1>0
    <3> QED BY <2>1, <3>1, <3>2, <1>0 DEF childVars
  <2>3. CASE cmd.mode # "PIPE"
    <3>1. out' = 0 /\ UNCHANGED <<pass_through, writers>>
      BY <1>4, <2>3 DEF SetChildIo
    <3> QED BY <2>1, <3>1, <1>0 DEF childVars
  <2> QED BY <2>2, <2>3
<1>5. CASE Fork
  <2>1. /\ count \in Numbers /\ spc = "fork" /\ spc' \in {"wait", "close"}
        /\ child' = [child EXCEPT ![count] = "runs"]
        /\ stdin' = [stdin EXCEPT ![count] = in]
        /\ UNCHANGED <<in_pipe, pass_through, in, out, count>>
        /\ writers' = Inherit(writers, count)
    BY <1>5 DEF Fork, CountInv
  <2>2. \A n \in Numbers : stdin'[n] < n
    BY <2>1, <1>0
  <2>3. ASSUME NEW k \in Numbers, NEW n \in writers'[k] PROVE n = 0 \/ (n = k /\ child'[n] = "runs")
    <3>1. CASE n \in writers[k]
      BY <3>1, <2>1, <1>0
    <3>2. CASE n \notin writers[k]
      <4>1. n = count /\ 0 \in writers[k]
        BY <3>2, <2>1, <1>0 DEF Inherit
      <4>2. k = out
        BY <4>1, <2>1 DEF PipeInv
      <4> QED BY <4>1, <4>2, <2>1, <1>0
    <3> QED BY <3>1, <3>2
  <2> QED BY <2>1, <2>2, <2>3
<1>6. CASE ForkFails
  BY <1>6 DEF ForkFails, childVars, pipeVars
<1>7. CASE Close
  <2>1. \A k \in Numbers : writers'[k] \subseteq writers[k]
    BY <1>7 DEF Close, LetGo
  <2> QED BY <1>7, <2>1 DEF Close, shellVars, childVars
<1>8. ASSUME NEW n \in Numbers, ReadPipe(n) \/ WritePipe(n) PROVE EndInv'
  BY <1>8 DEF ReadPipe, WritePipe, shellVars, childVars
<1>9. ASSUME NEW n \in Numbers, Dies(n) PROVE EndInv'
  <2>1. \A k \in Numbers : writers'[k] = writers[k] \ {n}
    BY <1>9 DEF Dies
  <2>2. \A m \in Numbers \ {n} : child'[m] = child[m]
    BY <1>9, <1>0 DEF Dies
  <2> QED BY <1>9, <2>1, <2>2 DEF Dies, shellVars
<1>10. CASE UNCHANGED vars
  BY <1>10 DEF vars, shellVars, childVars, pipeVars
<1> QED
  BY <1>1, <1>2, <1>3, <1>4, <1>5, <1>6, <1>7, <1>8, <1>9, <1>10
  DEF Next, Shell, Program, Ends

\* A command of a pipeline sees the end of its input as soon as the command
\* before it has ended, or was never started: nobody else, the shell and the
\* reader itself included, holds the write end (lines 291-321).
InputEndsWithItsWriter ==
    \A n \in Numbers : child[n] = "runs" /\ stdin[n] # 0 /\ child[stdin[n]] # "runs"
                           => writers[stdin[n]] = {}
THEOREM InputEnds == Spec => []InputEndsWithItsWriter
<1>1. TypeOK /\ CountInv /\ StackInv /\ PipeInv /\ EndInv => InputEndsWithItsWriter
  <2> SUFFICES ASSUME TypeOK, CountInv, StackInv, PipeInv, EndInv, NEW n \in Numbers, child[n] = "runs",
                      stdin[n] # 0, child[stdin[n]] # "runs"
               PROVE  writers[stdin[n]] = {}
    BY DEF InputEndsWithItsWriter
  <2> DEFINE k == stdin[n]
  <2>1. /\ n \in Nat /\ count \in Nat /\ k \in Numbers /\ k < n /\ n <= count
        /\ spc \in {"top", "get", "verify", "io", "fork", "wait", "close", "gone"}
    BY SMTT(30) DEF TypeOK, EndInv, StackInv, Numbers, Processes
  <2>2. 0 \notin writers[k]
    <3>1. CASE spc \in Underway
      <4>1. k # out
        BY <2>1, <3>1 DEF EndInv
      <4> QED BY <2>1, <3>1, <4>1 DEF PipeInv
    <3>2. CASE spc \notin Underway
      BY <2>1, <3>2 DEF PipeInv, EndInv, Underway
    <3> QED BY <3>1, <3>2
  <2>3. writers[k] \in SUBSET Processes /\ \A m \in writers[k] : m = 0
    BY <2>1 DEF TypeOK, EndInv
  <2> QED BY <2>2, <2>3
<1> QED
  BY <1>1, TypeInit, TypeStep, StackInit, StackStep, PipeInit, PipeStep, EndInit, EndStep, PTL DEF Spec
=============================================================================
