------------------------ MODULE SmallProgramsProofs -------------------------
(***************************************************************************)
(* The programs that stand alone, for every value of their constants.      *)
(***************************************************************************)
EXTENDS SmallPrograms, FiniteSetTheorems, SequenceTheorems, TLAPS

\* A step is one of the program that runs; the others stay as they are.
LEMMA OneProgramRuns ==
    [Next]_vars =>
        /\ [Signal!Next]_signalVars /\ [Tree!Next]_treeVars /\ [Copy!Next]_copyVars
        /\ [Dir!Next]_dirVars /\ [Ls!Next]_lsVars /\ [Lex!Next]_lexVars
        /\ [Exec!Next]_execVars /\ [Music!Next]_musicVars /\ [String!Next]_stringVars
  BY DEF Next, vars

-----------------------------------------------------------------------------
(* my_fork.c                                                               *)

\* How far each process is tells which of its children are born and reaped.
TreeInv ==
    /\ Tree!TypeOK
    /\ (proc["A"] = "unborn" <=> step["C"] = 1) /\ (proc["C"] = "unborn" <=> step["D"] = 1)
    /\ proc["B"] = "unborn" <=> step["D"] <= 2
    /\ step["C"] >= 4 => proc["A"] = "gone"
    /\ step["D"] = 5 => proc["B"] = "gone" \/ proc["C"] = "gone"
    /\ step["D"] >= 6 => proc["B"] = "gone" /\ proc["C"] = "gone"
    /\ proc["C"] = "zombie" => step["C"] >= 4
    /\ proc["D"] = "zombie" => step["D"] >= 6

\* Where the statements of the four processes are.
LEMMA Statements ==
    ASSUME step \in [Tree!Letters -> 1..6], NEW q \in Tree!Letters
    PROVE  /\ \A c \in Tree!Letters \ {"D"} : Tree!AtFork(q, c) =>
                \/ c = "A" /\ q = "C" /\ step[q] = 1
                \/ c = "B" /\ q = "D" /\ step[q] = 2
                \/ c = "C" /\ q = "D" /\ step[q] = 1
           /\ Tree!AtWrite(q) => \/ q \in {"A", "B"} /\ step[q] = 1
                                 \/ q = "C" /\ step[q] = 2
                                 \/ q = "D" /\ step[q] = 3
           /\ Tree!AtWait(q) => \/ q = "B" /\ step[q] = 2
                                \/ q = "C" /\ step[q] = 3
                                \/ q = "D" /\ step[q] \in {4, 5}
           /\ Tree!Return(q) => (q = "C" => step[q] >= 4) /\ (q = "D" => step[q] >= 6)
  BY DEF Tree!Letters, Tree!AtFork, Tree!AtWrite, Tree!AtWait, Tree!Return,
         Tree!ParentOf, Tree!ForkedAt, Tree!WriteAt, Tree!Waits

LEMMA TreeStep == TreeInv /\ [Tree!Next]_treeVars => TreeInv'
<1> SUFFICES ASSUME TreeInv, [Tree!Next]_treeVars PROVE TreeInv'
  OBVIOUS
<1>0. /\ Tree!TypeOK /\ Num \in Nat
      /\ proc \in [Tree!Letters -> {"unborn", "running", "zombie", "failed", "gone"}]
      /\ step \in [Tree!Letters -> 1..6] /\ written \in [Tree!Letters -> 0..Num]
      /\ "A" \in Tree!Letters /\ "B" \in Tree!Letters
      /\ "C" \in Tree!Letters /\ "D" \in Tree!Letters
  BY ConstantsAssumption DEF TreeInv, Tree!TypeOK, Tree!Letters, Tree!NumAssumption
<1>1. CASE UNCHANGED treeVars
  BY <1>1 DEF treeVars, TreeInv, Tree!TypeOK
<1>2. ASSUME NEW q \in Tree!Letters, Tree!Run(q) PROVE TreeInv'
  <2>1. ASSUME NEW c \in Tree!Letters \ {"D"}, Tree!Fork(q, c) PROVE TreeInv'
    <3>1. /\ proc' = [proc EXCEPT ![c] = "running"] /\ step' = [step EXCEPT ![q] = @ + 1]
          /\ written' = written /\ proc[q] = "running" /\ Tree!AtFork(q, c)
      BY <2>1 DEF Tree!Fork, Tree!Advance, Tree!AtFork, Tree!Running
    <3>2. \/ c = "A" /\ q = "C" /\ step[q] = 1
          \/ c = "B" /\ q = "D" /\ step[q] = 2
          \/ c = "C" /\ q = "D" /\ step[q] = 1
      BY <1>0, <2>1, <3>1, Statements
    <3>3. step' \in [Tree!Letters -> 1..6]
      BY <3>1, <3>2, <1>0
    <3> QED BY <1>0, <3>1, <3>2, <3>3 DEF TreeInv, Tree!TypeOK
  <2>2. CASE Tree!ForkFails(q)
    <3>1. proc' = [proc EXCEPT ![q] = "failed"] /\ UNCHANGED <<step, written>>
      BY <2>2 DEF Tree!ForkFails
    <3>2. proc[q] = "running" /\ q \in {"C", "D"} /\ step[q] <= 2
      <4>1. PICK c \in Tree!Letters \ {"D"} : Tree!AtFork(q, c)
        BY <2>2 DEF Tree!ForkFails
      <4>2. proc[q] = "running"
        BY <4>1 DEF Tree!AtFork, Tree!Running
      <4> QED BY <1>0, <4>1, <4>2, Statements
    <3> QED BY <1>0, <3>1, <3>2 DEF TreeInv, Tree!TypeOK
  <2>3. CASE Tree!Write(q)
    <3>1. written' = [written EXCEPT ![q] = @ + 1] /\ written[q] < Num /\ UNCHANGED <<proc, step>>
      BY <2>3 DEF Tree!Write
    <3>2. written' \in [Tree!Letters -> 0..Num]
      BY <3>1, <1>0
    <3> QED BY <3>1, <3>2 DEF TreeInv, Tree!TypeOK
  <2>4. CASE Tree!Written(q)
    <3>1. step' = [step EXCEPT ![q] = @ + 1] /\ UNCHANGED <<proc, written>>
      BY <2>4 DEF Tree!Written, Tree!Advance
    <3>2. proc[q] = "running" /\ (\/ q \in {"A", "B"} /\ step[q] = 1
                                  \/ q = "C" /\ step[q] = 2
                                  \/ q = "D" /\ step[q] = 3)
      <4>1. Tree!AtWrite(q)
        BY <2>4 DEF Tree!Written
      <4> QED BY <4>1, <1>0, Statements DEF Tree!AtWrite, Tree!Running
    <3>3. step' \in [Tree!Letters -> 1..6]
      BY <3>1, <3>2, <1>0
    <3> QED BY <1>0, <3>1, <3>2, <3>3 DEF TreeInv, Tree!TypeOK
  <2>5. CASE Tree!Wait(q) \/ Tree!WaitForNobody(q)
    <3>1. Tree!AtWait(q) /\ proc[q] = "running"
      BY <2>5 DEF Tree!Wait, Tree!WaitForNobody, Tree!AtWait, Tree!Running
    <3>2. /\ step' = [step EXCEPT ![q] = @ + 1] /\ written' = written
          /\ (\/ q = "B" /\ step[q] = 2
              \/ q = "C" /\ step[q] = 3
              \/ q = "D" /\ step[q] \in {4, 5})
      BY <2>5, <3>1, <1>0, Statements DEF Tree!Wait, Tree!WaitForNobody, Tree!Advance
    <3>3. step' \in [Tree!Letters -> 1..6]
      BY <3>2, <1>0
    <3>4. Tree!ParentOf["A"] = "C" /\ Tree!ParentOf["B"] = "D" /\ Tree!ParentOf["C"] = "D"
          /\ Tree!ParentOf["D"] = "shell"
      BY DEF Tree!ParentOf
    <3>5. CASE Tree!Wait(q)
      <4>1. PICK c \in Tree!Children(q) :
                proc[c] # "running" /\ proc' = [proc EXCEPT ![c] = "gone"]
        BY <3>5 DEF Tree!Wait
      <4>2. /\ c \in Tree!Letters /\ Tree!ParentOf[c] = q /\ proc[c] \in {"zombie", "failed"}
        BY <4>1, <1>0 DEF Tree!Children
      <4>3. (c = "A" /\ q = "C") \/ (c \in {"B", "C"} /\ q = "D")
        BY <3>4, <4>2, <1>0 DEF Tree!Letters
      <4> QED BY <1>0, <3>2, <3>3, <4>1, <4>2, <4>3 DEF TreeInv, Tree!TypeOK
    <3>6. CASE Tree!WaitForNobody(q)
      <4>1. proc' = proc /\ \A c \in Tree!Letters : Tree!ParentOf[c] = q => proc[c] \in {"unborn", "gone"}
        BY <3>6 DEF Tree!WaitForNobody, Tree!Children
      <4>2. /\ q = "C" => proc["A"] \in {"unborn", "gone"}
            /\ q = "D" => proc["B"] \in {"unborn", "gone"} /\ proc["C"] \in {"unborn", "gone"}
        BY <1>0, <3>4, <4>1
      <4> QED BY <1>0, <3>2, <3>3, <4>1, <4>2 DEF TreeInv, Tree!TypeOK
    <3> QED BY <2>5, <3>5, <3>6
  <2>6. CASE Tree!Return(q)
    <3>1. /\ proc' = [proc EXCEPT ![q] = "zombie"] /\ UNCHANGED <<step, written>>
          /\ proc[q] = "running"
      BY <2>6 DEF Tree!Return, Tree!Running
    <3>2. (q = "C" => step[q] >= 4) /\ (q = "D" => step[q] >= 6)
      BY <1>0, <2>6, Statements
    <3> QED BY <1>0, <3>1, <3>2 DEF TreeInv, Tree!TypeOK
  <2> QED BY <1>2, <2>1, <2>2, <2>3, <2>4, <2>5, <2>6 DEF Tree!Run
<1> QED BY <1>1, <1>2 DEF Tree!Next

\* The invariant always holds.
LEMMA TreeAlways == Spec => []TreeInv
<1>1. Init => TreeInv
  <2>1. Num \in Nat
    BY ConstantsAssumption DEF Tree!NumAssumption
  <2> QED BY <2>1 DEF Init, Tree!Init, TreeInv, Tree!TypeOK, Tree!Letters
<1> QED BY <1>1, TreeStep, OneProgramRuns, PTL DEF Spec

\* Each wait() takes any child and B has one too many; still a process that
\* came to its end has reaped every child it had (my_fork.c, lines 25-36 and
\* 49-56), however often the letters are written.
THEOREM ParentsEndLastAlways == Spec => []ParentsEndLast
<1>1. TreeInv => ParentsEndLast
  <2> SUFFICES ASSUME TreeInv, NEW q \in Tree!Letters, proc[q] = "zombie",
                      NEW c \in Tree!Letters, Tree!ParentOf[c] = q
               PROVE  proc[c] = "gone"
    BY DEF ParentsEndLast, Tree!ParentsEndLast
  <2>1. (c = "A" /\ q = "C") \/ (c \in {"B", "C"} /\ q = "D")
    BY DEF Tree!Letters, Tree!ParentOf
  <2> QED BY <2>1 DEF TreeInv
<1> QED BY <1>1, TreeAlways, PTL

-----------------------------------------------------------------------------
(* handle_signals.c                                                        *)

SignalCalls == [signal : Signal!Signals, at : {"count", "check", "exit", "return"}]

\* A signal is handled once at a time; a SIGTSTP that is not counted yet, or
\* not the third, has left room for the third.
SignalInv ==
    /\ state \in {"running", "stopped", "exited"}
    /\ count \in [Signal!Signals -> Nat]
    /\ handlers \in Seq(SignalCalls)
    /\ pending \subseteq Signal!Signals
    /\ sent \in [Signal!Signals -> Nat] /\ \A s \in Signal!Signals : sent[s] <= MaxSent[s]
    /\ \A i, j \in 1..Len(handlers) : i # j => handlers[i].signal # handlers[j].signal
    /\ count["TSTP"] <= 3
    /\ \A i \in 1..Len(handlers) :
          handlers[i].signal = "TSTP" /\ handlers[i].at \in {"count", "return"} => count["TSTP"] <= 2
    /\ count["TSTP"] = 3 => Signal!Handling("TSTP") \/ state = "exited"

LEMMA SignalStep == SignalInv /\ [Signal!Next]_signalVars => SignalInv'
<1> SUFFICES ASSUME SignalInv, [Signal!Next]_signalVars PROVE SignalInv'
  OBVIOUS
<1>0. /\ handlers \in Seq(SignalCalls) /\ count \in [Signal!Signals -> Nat] /\ sent \in [Signal!Signals -> Nat]
      /\ "TSTP" \in Signal!Signals /\ MaxSent \in [Signal!Signals -> Nat]
  BY ConstantsAssumption DEF SignalInv, Signal!Signals, Signal!MaxSentAssumption
<1>1. CASE UNCHANGED signalVars
  BY <1>1 DEF signalVars, SignalInv, Signal!Handling
<1>2. ASSUME NEW s \in Signal!Signals, Signal!Deliver(s) PROVE SignalInv'
  <2>1. /\ handlers' = <<Signal!Call(s, "count")>> \o handlers /\ pending' = pending \ {s}
        /\ UNCHANGED <<state, count, sent>> /\ state = "running"
        /\ \A i \in 1..Len(handlers) : handlers[i].signal # s
    BY <1>2 DEF Signal!Deliver, Signal!Handling
  <2>2. Signal!Call(s, "count") \in SignalCalls /\ Signal!Call(s, "count").signal = s
    BY DEF Signal!Call, SignalCalls
  <2>3. /\ handlers' \in Seq(SignalCalls) /\ Len(handlers') = Len(handlers) + 1
        /\ handlers'[1].signal = s
        /\ \A i \in 1..Len(handlers') : i # 1 => i - 1 \in 1..Len(handlers) /\ handlers'[i] = handlers[i - 1]
    BY <1>0, <2>1, <2>2
  <2>4. s = "TSTP" => count["TSTP"] <= 2
    BY <1>0, <2>1 DEF SignalInv, Signal!Handling
  <2>5. Signal!Handling("TSTP") => Signal!Handling("TSTP")'
    <3>1. \A i \in 1..Len(handlers) : i + 1 \in 1..Len(handlers') /\ handlers'[i + 1] = handlers[i]
      BY <1>0, <2>1, <2>2
    <3> QED BY <3>1 DEF Signal!Handling
  <2>6. \A i, j \in 1..Len(handlers') : i # j => handlers'[i].signal # handlers'[j].signal
    <3> SUFFICES ASSUME NEW i \in 1..Len(handlers'), NEW j \in 1..Len(handlers'), i # j
                 PROVE  handlers'[i].signal # handlers'[j].signal
      OBVIOUS
    <3>1. CASE i = 1  BY <2>1, <2>3, <3>1
    <3>2. CASE j = 1  BY <2>1, <2>3, <3>2
    <3>3. CASE i # 1 /\ j # 1
      <4>1. i - 1 \in 1..Len(handlers) /\ j - 1 \in 1..Len(handlers) /\ i - 1 # j - 1
        BY <1>0, <2>3, <3>3
      <4>2. handlers[i - 1].signal # handlers[j - 1].signal
        BY <4>1 DEF SignalInv
      <4> QED BY <2>3, <3>3, <4>2
    <3> QED BY <3>1, <3>2, <3>3
  <2>7. \A i \in 1..Len(handlers') :
          handlers'[i].signal = "TSTP" /\ handlers'[i].at \in {"count", "return"} => count["TSTP"] <= 2
    BY <2>3, <2>4 DEF SignalInv
  <2> QED BY <2>1, <2>3, <2>5, <2>6, <2>7 DEF SignalInv
<1>3. ASSUME NEW s \in Signal!Signals, NEW label \in {"check", "exit", "return"},
             handlers # <<>>, handlers[1].signal = s, Signal!Goto(label)
      PROVE  /\ handlers' \in Seq(SignalCalls) /\ Len(handlers') = Len(handlers)
             /\ handlers'[1].signal = s /\ handlers'[1].at = label
             /\ \A i \in 1..Len(handlers) : handlers'[i].signal = handlers[i].signal
             /\ \A i \in 1..Len(handlers) : i # 1 => handlers'[i] = handlers[i]
             /\ Signal!Handling("TSTP") => Signal!Handling("TSTP")'
  <2>1. PICK call : call = [handlers[1] EXCEPT !.at = label]
    OBVIOUS
  <2>1a. handlers' = [handlers EXCEPT ![1] = call]
    BY <1>3, <2>1 DEF Signal!Goto
  <2>2. handlers[1] \in SignalCalls /\ 1 \in 1..Len(handlers)
    BY <1>0, <1>3
  <2>3. call \in SignalCalls
    BY <2>1, <2>2 DEF SignalCalls
  <2>4. call.signal = handlers[1].signal /\ call.at = label
    BY <2>1, <2>2 DEF SignalCalls
  <2>5. /\ handlers' \in Seq(SignalCalls) /\ Len(handlers') = Len(handlers)
        /\ handlers'[1] = call
        /\ \A i \in 1..Len(handlers) : i # 1 => handlers'[i] = handlers[i]
    BY <1>0, <2>1a, <2>2, <2>3
  <2>6. \A i \in 1..Len(handlers) : handlers'[i].signal = handlers[i].signal
    BY <2>4, <2>5
  <2> QED BY <1>3, <2>4, <2>5, <2>6 DEF Signal!Handling
<1>4. ASSUME NEW s \in Signal!Signals, NEW l, Signal!At(s, l)
      PROVE  /\ state = "running" /\ handlers # <<>> /\ 1 \in 1..Len(handlers)
             /\ handlers[1].signal = s /\ handlers[1].at = l
  BY <1>0, <1>4 DEF Signal!At, Signal!Call
<1>5. \A i \in 1..Len(handlers) : handlers[i].signal = handlers[1].signal => i = 1
  <2>1. ASSUME NEW i \in 1..Len(handlers), i # 1 PROVE handlers[i].signal # handlers[1].signal
    <3>1. 1 \in 1..Len(handlers)
      BY <1>0
    <3> QED BY <2>1, <3>1 DEF SignalInv
  <2> QED BY <2>1
<1>6. ASSUME NEW s \in Signal!Signals, Signal!Count(s) PROVE SignalInv'
  <2>1. /\ count' = [count EXCEPT ![s] = @ + 1] /\ UNCHANGED <<state, pending, sent>>
        /\ Signal!Goto(IF s = "TSTP" THEN "check" ELSE "return")
        /\ handlers # <<>> /\ 1 \in 1..Len(handlers) /\ handlers[1].signal = s /\ handlers[1].at = "count"
    BY <1>4, <1>6 DEF Signal!Count
  <2>2. count' \in [Signal!Signals -> Nat] /\ (s # "TSTP" => count'["TSTP"] = count["TSTP"])
        /\ (s = "TSTP" => count'["TSTP"] = count["TSTP"] + 1 /\ count["TSTP"] <= 2)
    BY <1>0, <2>1 DEF SignalInv
  <2>3. CASE s = "TSTP"
    <3>1. Signal!Goto("check")
      BY <2>1, <2>3
    <3>2. /\ handlers' \in Seq(SignalCalls) /\ Len(handlers') = Len(handlers)
          /\ handlers'[1].signal = s /\ handlers'[1].at = "check"
          /\ \A i \in 1..Len(handlers) : handlers'[i].signal = handlers[i].signal
      BY <1>3, <2>1, <3>1
    <3>3. Signal!Handling("TSTP")'
      BY <2>1, <2>3, <3>2 DEF Signal!Handling
    <3> QED BY <1>0, <1>5, <2>1, <2>2, <2>3, <3>2, <3>3 DEF SignalInv
  <2>4. CASE s # "TSTP"
    <3>1. Signal!Goto("return")
      BY <2>1, <2>4
    <3>2. /\ handlers' \in Seq(SignalCalls) /\ Len(handlers') = Len(handlers)
          /\ handlers'[1].signal = s
          /\ \A i \in 1..Len(handlers) : handlers'[i].signal = handlers[i].signal
          /\ \A i \in 1..Len(handlers) : i # 1 => handlers'[i] = handlers[i]
          /\ Signal!Handling("TSTP") => Signal!Handling("TSTP")'
      BY <1>3, <2>1, <3>1
    <3> QED BY <2>1, <2>2, <2>4, <3>2, ZenonT(60) DEF SignalInv
  <2> QED BY <2>3, <2>4
<1>7. CASE Signal!Check
  <2>1. /\ UNCHANGED <<count, pending, sent>> /\ state' \in {"running", "stopped"}
        /\ handlers # <<>> /\ 1 \in 1..Len(handlers) /\ handlers[1].signal = "TSTP"
    BY <1>0, <1>4, <1>7 DEF Signal!Check
  <2>2. PICK label \in {"exit", "return"} :
            Signal!Goto(label) /\ (label = "return" => count["TSTP"] # 3)
    BY <1>7 DEF Signal!Check
  <2>3. /\ handlers' \in Seq(SignalCalls) /\ Len(handlers') = Len(handlers)
        /\ handlers'[1].at = label
        /\ \A i \in 1..Len(handlers) : handlers'[i].signal = handlers[i].signal
        /\ \A i \in 1..Len(handlers) : i # 1 => handlers'[i] = handlers[i]
        /\ Signal!Handling("TSTP") => Signal!Handling("TSTP")'
    BY <1>0, <1>3, <2>1, <2>2
  <2>4. Signal!Handling("TSTP")'
    BY <2>1, <2>3 DEF Signal!Handling
  <2>5. count["TSTP"] # 3 => count["TSTP"] <= 2
    BY <1>0 DEF SignalInv
  <2> QED BY <1>5, <2>1, <2>2, <2>3, <2>4, <2>5 DEF SignalInv
<1>8. CASE Signal!Exit
  <2>1. state' = "exited" /\ UNCHANGED <<count, handlers, pending, sent>>
    BY <1>8 DEF Signal!Exit
  <2> QED BY <2>1 DEF SignalInv
<1>9. ASSUME NEW s \in Signal!Signals, Signal!Return(s) PROVE SignalInv'
  <2>1. /\ handlers' = Tail(handlers) /\ UNCHANGED <<state, count, pending, sent>>
        /\ handlers # <<>> /\ 1 \in 1..Len(handlers) /\ handlers[1].signal = s /\ handlers[1].at = "return"
    BY <1>4, <1>9 DEF Signal!Return
  <2>2. /\ handlers' \in Seq(SignalCalls) /\ Len(handlers') = Len(handlers) - 1
        /\ \A i \in 1..Len(handlers') : i + 1 \in 1..Len(handlers) /\ handlers'[i] = handlers[i + 1]
    BY <1>0, <2>1
  <2>3. s # "TSTP" /\ Signal!Handling("TSTP") => Signal!Handling("TSTP")'
    <3> SUFFICES ASSUME s # "TSTP", Signal!Handling("TSTP") PROVE Signal!Handling("TSTP")'
      OBVIOUS
    <3>1. PICK i \in 1..Len(handlers) : handlers[i].signal = "TSTP"
      BY DEF Signal!Handling
    <3>2. i # 1
      BY <2>1, <3>1
    <3>3. i - 1 \in 1..Len(handlers') /\ handlers'[i - 1] = handlers[i]
      BY <1>0, <2>2, <3>1, <3>2
    <3> QED BY <3>1, <3>3 DEF Signal!Handling
  <2>4. s = "TSTP" => count["TSTP"] <= 2
    BY <2>1 DEF SignalInv
  <2>5. \A i, j \in 1..Len(handlers') : i # j => handlers'[i].signal # handlers'[j].signal
    <3> SUFFICES ASSUME NEW i \in 1..Len(handlers'), NEW j \in 1..Len(handlers'), i # j
                 PROVE  handlers'[i].signal # handlers'[j].signal
      OBVIOUS
    <3>1. i + 1 # j + 1
      BY <1>0, <2>2
    <3> QED BY <2>2, <3>1, ZenonT(60) DEF SignalInv
  <2>6. \A i \in 1..Len(handlers') :
          handlers'[i].signal = "TSTP" /\ handlers'[i].at \in {"count", "return"} => count["TSTP"] <= 2
    BY <2>2 DEF SignalInv
  <2> QED BY <1>0, <2>1, <2>2, <2>3, <2>4, <2>5, <2>6 DEF SignalInv
<1>10. CASE Signal!Continue
  <2>1. /\ state = "stopped" /\ state' = "running" /\ pending' \subseteq pending
        /\ UNCHANGED <<count, handlers, sent>>
    BY <1>10 DEF Signal!Continue
  <2> QED BY <2>1 DEF SignalInv, Signal!Handling
<1>11. ASSUME NEW s \in Signal!Signals, Signal!Send(s) PROVE SignalInv'
  <2>1. /\ sent' = [sent EXCEPT ![s] = @ + 1] /\ sent[s] < MaxSent[s] /\ pending' = pending \cup {s}
        /\ UNCHANGED <<state, count, handlers>>
    BY <1>11 DEF Signal!Send
  <2>2. sent' \in [Signal!Signals -> Nat] /\ \A t \in Signal!Signals : sent'[t] <= MaxSent[t]
    BY <1>0, <2>1 DEF SignalInv
  <2> QED BY <2>1, <2>2 DEF SignalInv, Signal!Handling
<1> QED BY <1>1, <1>2, <1>6, <1>7, <1>8, <1>9, <1>10, <1>11 DEF Signal!Next, Signal!Program

\* The invariant always holds.
LEMMA SignalAlways == Spec => []SignalInv
<1>1. Init => SignalInv
  <2>1. MaxSent \in [Signal!Signals -> Nat]
    BY ConstantsAssumption DEF Signal!MaxSentAssumption
  <2> QED BY <2>1 DEF Init, Signal!Init, SignalInv, Signal!Signals
<1> QED BY <1>1, SignalStep, OneProgramRuns, PTL DEF Spec

\* However often the signals are sent and however their handlers interrupt
\* each other, no SIGTSTP is counted behind the third, and from the third on
\* the process is on its way out (handle_signals.c, lines 25-32 and 53-56).
THEOREM ThirdIsLastAlways == Spec => []ThirdIsLast
<1>1. SignalInv => ThirdIsLast
  BY DEF SignalInv, ThirdIsLast, Signal!ThirdIsLast
<1> QED BY <1>1, SignalAlways, PTL

-----------------------------------------------------------------------------
(* execute.c                                                               *)

\* A file that execve refuses comes before every program.
Refused == \E i \in 1..Len(path) : path[i] = "data" /\ \A j \in 1..i-1 : path[j] # "program"

\* The search goes on while the directories behind it have nothing, or since
\* the buffer is spoiled.
ExecInv ==
    /\ here \in Exec!Files /\ path \in Seq(Exec!Files) /\ spoiled \in BOOLEAN
    /\ execPc \in {"start", "parse", "execute", "search"} => ran = Exec!Unknown
    /\ execPc \in {"start", "parse", "execute"} => ~spoiled
    /\ execPc = "search" =>
          /\ here = "none" /\ bin \in 1..Len(path) + 1
          /\ ~spoiled => \A j \in 1..bin-1 : path[j] = "none"
          /\ spoiled => Refused
    /\ RunsFirst

LEMMA PathsAreSequences == \A s \in Exec!Paths : s \in Seq(Exec!Files)
  BY DEF Exec!Paths

LEMMA ExecStep == ExecInv /\ [Exec!Next]_execVars => ExecInv'
<1> SUFFICES ASSUME ExecInv, [Exec!Next]_execVars PROVE ExecInv'
  OBVIOUS
<1>0. here \in {"none", "program", "data"} /\ path \in Seq({"none", "program", "data"})
  BY DEF ExecInv, Exec!Files
<1>1. CASE UNCHANGED execVars
  BY <1>1 DEF execVars, ExecInv, Refused, RunsFirst, Exec!RunsFirst
<1>2. CASE Exec!Start
  <2>1. path' \in Seq(Exec!Files)
    BY <1>2, PathsAreSequences DEF Exec!Start
  <2> QED BY <1>2, <2>1 DEF Exec!Start, ExecInv, RunsFirst, Exec!RunsFirst
<1>3. CASE Exec!ParseLine
  BY <1>3 DEF Exec!ParseLine, ExecInv, RunsFirst, Exec!RunsFirst
<1>4. CASE Exec!Execute
  <2>1. /\ UNCHANGED <<line, args, here, path, spoiled>> /\ bin' = 1 /\ ~spoiled
        /\ ran' = IF here = "program" THEN 0 ELSE ran
        /\ ran = Exec!Unknown
    BY <1>4 DEF Exec!Execute, ExecInv
  <2>2. /\ here = "program" => execPc' = "runs"
        /\ here = "data" => execPc' = "returns"
        /\ here = "none" => execPc' = "search"
    BY <1>4 DEF Exec!Execute
  <2>3. CASE here = "program"
    BY <2>1, <2>2, <2>3 DEF ExecInv, RunsFirst, Exec!RunsFirst
  <2>4. CASE here = "data"
    BY <2>1, <2>2, <2>4 DEF ExecInv, RunsFirst, Exec!RunsFirst
  <2>5. CASE here = "none"
    BY <1>0, <2>1, <2>2, <2>5 DEF ExecInv, RunsFirst, Exec!RunsFirst
  <2> QED BY <1>0, <2>3, <2>4, <2>5
<1>5. CASE Exec!Try
  <2>1. /\ execPc = "search" /\ bin \in 1..Len(path) /\ ~spoiled /\ here = "none" /\ ran = Exec!Unknown
        /\ \A j \in 1..bin-1 : path[j] = "none"
        /\ spoiled' = (path[bin] = "data") /\ bin' = bin + 1
        /\ UNCHANGED <<here, path>>
    BY <1>0, <1>5 DEF Exec!Try, ExecInv
  <2>2. CASE path[bin] = "program"
    <3>1. execPc' = "runs" /\ ran' = bin
      BY <1>5, <2>2 DEF Exec!Try
    <3> QED BY <2>1, <2>2, <3>1 DEF ExecInv, RunsFirst, Exec!RunsFirst
  <2>3. CASE path[bin] # "program"
    <3>1. execPc' = "search" /\ ran' = ran
      BY <1>5, <2>1, <2>3 DEF Exec!Try
    <3>2. path[bin] = "data" => Refused'
      <4>1. \A j \in 1..bin-1 : path[j] # "program"
        BY <2>1
      <4> QED BY <2>1, <4>1 DEF Refused
    <3>3. path[bin] # "data" => \A j \in 1..bin'-1 : path'[j] = "none"
      BY <1>0, <2>1, <2>3
    <3>4. bin' \in 1..Len(path') + 1
      BY <1>0, <2>1
    <3> QED BY <2>1, <3>1, <3>2, <3>3, <3>4 DEF ExecInv, RunsFirst, Exec!RunsFirst
  <2> QED BY <2>2, <2>3
<1>6. CASE Exec!TrySpoiled
  <2>1. /\ execPc = "search" /\ bin \in 1..Len(path) /\ spoiled /\ here = "none" /\ ran = Exec!Unknown
        /\ Refused /\ bin' = bin + 1 /\ execPc' \in {"search", "runs"}
        /\ UNCHANGED <<here, path, spoiled, ran>>
    BY <1>0, <1>6 DEF Exec!TrySpoiled, ExecInv
  <2>2. Refused' /\ bin' \in 1..Len(path') + 1
    BY <1>0, <2>1 DEF Refused
  <2>3. RunsFirst'
    BY <2>1 DEF RunsFirst, Exec!RunsFirst, Refused
  <2> QED BY <2>1, <2>2, <2>3 DEF ExecInv
<1>7. CASE Exec!Return
  <2>1. /\ execPc = "search" /\ bin = Len(path) + 1 /\ here = "none" /\ ran = Exec!Unknown
        /\ ~spoiled => \A j \in 1..bin-1 : path[j] = "none"
        /\ spoiled => Refused
        /\ execPc' = "returns" /\ UNCHANGED <<here, path, bin, spoiled, ran>>
    BY <1>0, <1>7 DEF Exec!Return, ExecInv
  <2>2. spoiled => RunsFirst'
    BY <2>1 DEF RunsFirst, Exec!RunsFirst, Refused
  <2>3. ~spoiled => RunsFirst'
    BY <1>0, <2>1 DEF RunsFirst, Exec!RunsFirst
  <2> QED BY <2>1, <2>2, <2>3 DEF ExecInv
<1> QED BY <1>1, <1>2, <1>3, <1>4, <1>5, <1>6, <1>7 DEF Exec!Next

\* The invariant always holds.
LEMMA ExecAlways == Spec => []ExecInv
<1>1. Init => ExecInv
  <2> SUFFICES ASSUME Init PROVE ExecInv
    OBVIOUS
  <2>1. /\ execPc = "start" /\ here = "none" /\ path = <<>> /\ spoiled = FALSE /\ ran = Exec!Unknown
    BY DEF Init, Exec!Init
  <2>2. path \in Seq(Exec!Files) /\ here \in Exec!Files
    BY <2>1 DEF Exec!Files
  <2>3. RunsFirst
    BY <2>1 DEF RunsFirst, Exec!RunsFirst
  <2> QED BY <2>1, <2>2, <2>3 DEF ExecInv
<1> QED BY <1>1, ExecStep, OneProgramRuns, PTL DEF Spec

\* What is run is the file in the current directory or the first along PATH
\* that can be run, and nothing is run only if there is none - unless a file
\* that cannot be run comes first: for a PATH of any length (execute.c, lines
\* 26-42).
THEOREM RunsFirstAlways == Spec => []RunsFirst
<1>1. ExecInv => RunsFirst
  BY DEF ExecInv
<1> QED BY <1>1, ExecAlways, PTL

-----------------------------------------------------------------------------
(* ls_server.c and ls_client.c                                             *)

InBacklog(c) == \E i \in 1..Len(backlog) : backlog[i] = c
AtServer(c, S) == c = clientfd /\ server \in S
Whole == (IF tty THEN <<>> ELSE <<Ls!Log>>) \o Ls!Listing

LsTypes ==
    /\ client \in [LsClients -> {"connect", "ask", "read", "done", "failed", "stopped"}]
    /\ asked \in [LsClients -> Nat] /\ backlog \in Seq(LsClients)
    /\ shown \in [LsClients -> Seq(Nat)] /\ wire \in [LsClients -> Seq(Nat)] /\ output \in Seq(Nat)

\* A client is in the backlog, at the server or hung up on, at one of these at
\* most, and has to ask anew before it is at one of them again.
LsPlaces ==
    /\ \A i, j \in 1..Len(backlog) : i # j => backlog[i] # backlog[j]
    /\ server \in {"fork", "wait", "close"} => clientfd \notin request
    /\ \A c \in LsClients :
          /\ ~(InBacklog(c) /\ c = clientfd)
          /\ c \in hung =>
                ~InBacklog(c) /\ c # clientfd /\ c \notin request /\ client[c] \in {"read", "stopped"}
          /\ client[c] \in {"connect", "done"} => ~InBacklog(c) /\ c # clientfd /\ c \notin request
          /\ client[c] = "ask" => c \notin request /\ (c = clientfd => server = "read")

\* What a client has shown, what is on its way and what is still to be written
\* make up the whole listing.
LsContents ==
    /\ server = "make" => \A c \in LsClients : client[c] \in {"connect", "failed"} /\ asked[c] = 0
    /\ child # "none" => server = "wait"
    /\ child = "zombie" => output = <<>>
    /\ \A c \in LsClients :
          /\ client[c] \in {"connect", "done"} =>
                wire[c] = <<>> /\ (asked[c] > 0 => shown[c] = Whole)
          /\ client[c] = "ask" => wire[c] = <<>>
          /\ client[c] = "read" /\ (InBacklog(c) \/ AtServer(c, {"read", "fork"})) =>
                shown[c] = <<>> /\ wire[c] = <<>>
          /\ client[c] = "read" /\ AtServer(c, {"wait"}) =>
                shown[c] \o (wire[c] \o output) = Whole
          /\ client[c] = "read" /\ (AtServer(c, {"close"}) \/ c \in hung) =>
                shown[c] \o wire[c] = Whole

LsInv == server # "gone" => LsTypes /\ LsPlaces /\ LsContents

\* A block that moves from the front of the second sequence to the end of the
\* first changes nothing in the two together.
LEMMA BlockMoves ==
    ASSUME NEW s \in Seq(Nat), NEW t \in Seq(Nat), t # <<>>
    PROVE  /\ Append(s, Head(t)) \in Seq(Nat) /\ Tail(t) \in Seq(Nat)
           /\ Append(s, Head(t)) \o Tail(t) = s \o t
<1>1. Append(s, Head(t)) \in Seq(Nat) /\ Tail(t) \in Seq(Nat)
  OBVIOUS
<1>2. Append(s, Head(t)) \o Tail(t) \in Seq(Nat) /\ s \o t \in Seq(Nat)
  BY <1>1
<1>3. Len(Append(s, Head(t)) \o Tail(t)) = Len(s \o t)
  OBVIOUS
<1>4. \A i \in 1..Len(s \o t) : (Append(s, Head(t)) \o Tail(t))[i] = (s \o t)[i]
  BY SMTT(30)
<1> QED BY <1>2, <1>3, <1>4

LEMMA ThreeTogether ==
    ASSUME NEW s \in Seq(Nat), NEW t \in Seq(Nat), NEW u \in Seq(Nat)
    PROVE  (s \o t) \o u = s \o (t \o u)
<1>0. s \o t \in Seq(Nat) /\ t \o u \in Seq(Nat)
  OBVIOUS
<1>1. PICK left \in Seq(Nat) : left = (s \o t) \o u
  <2>1. (s \o t) \o u \in Seq(Nat)
    BY <1>0
  <2> QED BY <2>1, Zenon
<1>2. PICK right \in Seq(Nat) : right = s \o (t \o u)
  <2>1. s \o (t \o u) \in Seq(Nat)
    BY <1>0
  <2> QED BY <2>1, Zenon
<1>3. Len(left) = Len(right)
  BY <1>0, <1>1, <1>2
<1>4. \A i \in 1..Len(left) : left[i] = right[i]
  BY <1>0, <1>1, <1>2
<1>5. left = [i \in 1..Len(left) |-> left[i]] /\ right = [i \in 1..Len(right) |-> right[i]]
  OBVIOUS
<1>6. left = right
  BY <1>3, <1>4, <1>5
<1> QED BY <1>1, <1>2, <1>6

LEMMA WholeIsListing == Whole \in Seq(Nat) /\ <<>> \o (<<>> \o Whole) = Whole
<1>1. Blocks \in Nat
  BY ConstantsAssumption DEF Ls!LsAssumption
<1>2. Ls!Listing \in Seq(Nat)
  BY <1>1 DEF Ls!Listing
<1>3. Whole \in Seq(Nat)
  BY <1>2 DEF Whole, Ls!Log
<1> QED BY <1>3

LEMMA LsStep == LsInv /\ [Ls!Next]_lsVars => LsInv'
<1> USE DEF Ls!Goto, AtServer
<1> SUFFICES ASSUME LsInv, [Ls!Next]_lsVars, server' # "gone"
             PROVE  LsTypes' /\ LsPlaces' /\ LsContents'
  BY DEF LsInv
<1>0. server # "gone"
  BY DEF Ls!Next, Ls!Server, Ls!ServerExits, Ls!ClientStep, lsVars, Ls!MakeSocket, Ls!Accept, Ls!Read,
         Ls!Fork, Ls!Wait, Ls!Close, Ls!ChildWrites, Ls!ChildEnds, Ls!Connect, Ls!Ask, Ls!Receive,
         Ls!EndOfFile, Ls!ReadFails, Ls!Kill, Ls!Stop, Ls!serverVars
<1>. LsTypes /\ LsPlaces /\ LsContents
  BY <1>0 DEF LsInv
<1>a. Ls!Nobody \notin LsClients
  BY ConstantsAssumption DEF Ls!LsAssumption
<1>b. \A c : UNCHANGED backlog => InBacklog(c)' = InBacklog(c)
  BY DEF InBacklog
<1>1. CASE UNCHANGED lsVars
  <2>1. UNCHANGED <<server, clientfd, child, output, tty, client, asked, shown, backlog, request, wire, hung>>
    BY <1>1 DEF lsVars
  <2>2. LsTypes'
    BY <2>1 DEF LsTypes
  <2>3. LsPlaces'
    BY <1>b, <2>1 DEF LsPlaces
  <2>4. LsContents'
    BY <1>b, <2>1 DEF LsContents, Whole
  <2> QED BY <2>2, <2>3, <2>4
<1>2. CASE Ls!MakeSocket
  <2>1. /\ server = "make" /\ server' = "accept"
        /\ UNCHANGED <<clientfd, child, output, client, asked, shown, backlog, request, wire, hung>>
    BY <1>2 DEF Ls!MakeSocket, Ls!clientVars, Ls!netVars
  <2>2. LsTypes'
    BY <2>1 DEF LsTypes
  <2>3. LsPlaces'
    BY <2>1 DEF LsPlaces, LsContents, InBacklog
  <2>4. LsContents'
    BY <2>1 DEF LsContents, LsTypes
  <2> QED BY <2>2, <2>3, <2>4
<1>3. CASE Ls!Accept
  <2>1. /\ server = "accept" /\ server' = "read" /\ backlog # <<>>
        /\ clientfd' = Head(backlog) /\ backlog' = Tail(backlog)
        /\ UNCHANGED <<child, output, tty, client, asked, shown, request, wire, hung>>
    BY <1>3 DEF Ls!Accept, Ls!clientVars
  <2>2. /\ LsTypes' /\ Len(backlog) \in Nat /\ Len(backlog') = Len(backlog) - 1
        /\ \A i \in 1..Len(backlog') : i + 1 \in 1..Len(backlog) /\ backlog'[i] = backlog[i + 1]
        /\ clientfd' = backlog[1] /\ 1 \in 1..Len(backlog)
    BY <2>1 DEF LsTypes
  <2>3. ASSUME NEW c, InBacklog(c)' PROVE InBacklog(c) /\ c # clientfd'
    <3>1. PICK i \in 1..Len(backlog') : backlog'[i] = c
      BY <2>3 DEF InBacklog
    <3>2. i + 1 \in 1..Len(backlog) /\ i + 1 # 1 /\ backlog[i + 1] = c
      BY <2>2, <3>1
    <3>3. backlog[i + 1] # backlog[1]
      BY <2>2, <3>2 DEF LsPlaces
    <3> QED BY <2>2, <3>2, <3>3 DEF InBacklog
  <2>4. InBacklog(clientfd')
    BY <2>2 DEF InBacklog
  <2>5. ASSUME NEW i \in 1..Len(backlog'), NEW j \in 1..Len(backlog'), i # j
        PROVE  backlog'[i] # backlog'[j]
    <3>1. i + 1 \in 1..Len(backlog) /\ j + 1 \in 1..Len(backlog) /\ i + 1 # j + 1
      BY <2>2, <2>5
    <3>2. backlog[i + 1] # backlog[j + 1]
      BY <3>1 DEF LsPlaces
    <3> QED BY <2>2, <3>2
  <2>6. LsPlaces'
    BY <2>1, <2>3, <2>4, <2>5 DEF LsPlaces
  <2>7. LsContents'
    BY <2>1, <2>3, <2>4 DEF LsContents, LsPlaces, Whole
  <2> QED BY <2>2, <2>6, <2>7
<1>4. CASE Ls!Read
  <2>1. /\ server = "read" /\ server' \in {"fork", "close"} /\ request' = request \ {clientfd}
        /\ server' = "close" => clientfd \notin request /\ client[clientfd] \notin {"ask", "read", "stopped"}
        /\ UNCHANGED <<clientfd, child, output, tty, client, asked, shown, backlog, wire, hung>>
    BY <1>4 DEF Ls!Read, Ls!clientVars, Ls!Alive
  <2>2. clientfd \in request \/ client[clientfd] \notin {"ask", "read", "stopped"}
    BY <1>4 DEF Ls!Read, Ls!Alive
  <2>3. LsTypes'
    BY <2>1 DEF LsTypes
  <2>4. LsPlaces'
    BY <1>b, <2>1, <2>2 DEF LsPlaces
  <2>5. LsContents'
    BY <1>b, <2>1, <2>2 DEF LsContents, LsPlaces, Whole
  <2> QED BY <2>3, <2>4, <2>5
<1>5. CASE Ls!Fork
  <2>1. /\ server = "fork" /\ server' = "wait" /\ child' = "lists" /\ output' = Whole
        /\ UNCHANGED <<clientfd, tty, client, asked, shown, backlog, request, wire, hung>>
    BY <1>5 DEF Ls!Fork, Ls!clientVars, Ls!netVars, Whole
  <2>2. Whole' = Whole
    BY <2>1 DEF Whole
  <2>3. LsTypes'
    BY <2>1, WholeIsListing DEF LsTypes
  <2>4. LsPlaces'
    BY <1>b, <2>1 DEF LsPlaces
  <2>5. LsContents'
    BY <1>b, <2>1, <2>2, WholeIsListing DEF LsContents, LsPlaces
  <2> QED BY <2>3, <2>4, <2>5
<1>6. CASE Ls!Wait
  <2>1. /\ server = "wait" /\ server' = "close" /\ child = "zombie" /\ child' = "none"
        /\ UNCHANGED <<clientfd, output, tty, client, asked, shown, backlog, request, wire, hung>>
    BY <1>6 DEF Ls!Wait, Ls!clientVars, Ls!netVars
  <2>2. Whole' = Whole
    BY <2>1 DEF Whole
  <2>3. LsTypes'
    BY <2>1 DEF LsTypes
  <2>4. LsPlaces'
    BY <1>b, <2>1 DEF LsPlaces
  <2>5. output = <<>> /\ \A c \in LsClients : wire[c] \o <<>> = wire[c]
    BY <2>1 DEF LsContents, LsTypes
  <2>6. LsContents'
    BY <1>b, <2>1, <2>2, <2>5 DEF LsContents, LsPlaces
  <2> QED BY <2>3, <2>4, <2>6
<1>7. CASE Ls!Close
  <2>1. /\ server = "close" /\ server' = "accept" /\ clientfd' = Ls!Nobody
        /\ hung' = IF client[clientfd] \in {"ask", "read", "stopped"} THEN hung \cup {clientfd} ELSE hung
        /\ UNCHANGED <<child, output, tty, client, asked, shown, backlog, request, wire>>
    BY <1>7 DEF Ls!Close, Ls!clientVars, Ls!Alive
  <2>2. Whole' = Whole
    BY <2>1 DEF Whole
  <2>3. LsTypes'
    BY <2>1 DEF LsTypes
  <2>4. LsPlaces'
    BY <1>a, <1>b, <2>1 DEF LsPlaces
  <2>5. LsContents'
    BY <1>a, <1>b, <2>1, <2>2 DEF LsContents, LsPlaces
  <2> QED BY <2>3, <2>4, <2>5
<1>8. CASE Ls!ChildWrites
  <2>1. /\ child = "lists" /\ output # <<>>
        /\ wire' = [wire EXCEPT ![clientfd] = Append(@, Head(output))] /\ output' = Tail(output)
        /\ UNCHANGED <<server, clientfd, child, tty, client, asked, shown, backlog, request, hung>>
    BY <1>8 DEF Ls!ChildWrites, Ls!clientVars
  <2>2. Whole' = Whole /\ server = "wait"
    BY <2>1 DEF Whole, LsContents
  <2>9. /\ output \in Seq(Nat) /\ output' \in Seq(Nat)
        /\ clientfd \in LsClients =>
              /\ wire[clientfd] \in Seq(Nat) /\ Append(wire[clientfd], Head(output)) \in Seq(Nat)
              /\ Append(wire[clientfd], Head(output)) \o Tail(output) = wire[clientfd] \o output
    <3>1. output \in Seq(Nat) /\ (clientfd \in LsClients => wire[clientfd] \in Seq(Nat))
      BY DEF LsTypes
    <3>2. output' \in Seq(Nat)
      BY <2>1, <3>1
    <3>3. clientfd \in LsClients =>
              /\ Append(wire[clientfd], Head(output)) \in Seq(Nat)
              /\ Append(wire[clientfd], Head(output)) \o Tail(output) = wire[clientfd] \o output
      BY <2>1, <3>1, BlockMoves
    <3> QED BY <3>1, <3>2, <3>3
  <2>3. LsTypes'
    <3>1. wire' \in [LsClients -> Seq(Nat)]
      BY <2>1, <2>9 DEF LsTypes
    <3> QED BY <2>1, <2>9, <3>1 DEF LsTypes
  <2>4. LsPlaces'
    BY <1>b, <2>1 DEF LsPlaces
  <2>5. \A c \in LsClients : c # clientfd => wire'[c] = wire[c]
    BY <2>1 DEF LsTypes
  <2>6. clientfd \in LsClients => wire'[clientfd] \o output' = wire[clientfd] \o output
    <3>1. clientfd \in LsClients => wire'[clientfd] = Append(wire[clientfd], Head(output))
      BY <2>1 DEF LsTypes
    <3> QED BY <2>1, <2>9, <3>1
  <2>7. LsContents'
    BY <1>b, <2>1, <2>2, <2>5, <2>6, ZenonT(60) DEF LsContents, LsPlaces
  <2> QED BY <2>3, <2>4, <2>7
<1>9. CASE Ls!ChildEnds
  <2>1. /\ child = "lists" /\ child' = "zombie" /\ output' = <<>>
        /\ output = <<>> \/ client[clientfd] \notin {"ask", "read", "stopped"}
        /\ UNCHANGED <<server, clientfd, tty, client, asked, shown, backlog, request, wire, hung>>
    BY <1>9 DEF Ls!ChildEnds, Ls!clientVars, Ls!netVars, Ls!Alive
  <2>2. Whole' = Whole /\ server = "wait"
    BY <2>1 DEF Whole, LsContents
  <2>3. LsTypes'
    BY <2>1 DEF LsTypes
  <2>4. LsPlaces'
    BY <1>b, <2>1 DEF LsPlaces
  <2>5. LsContents'
    BY <1>b, <2>1, <2>2 DEF LsContents, LsPlaces
  <2> QED BY <2>3, <2>4, <2>5
<1>10. ASSUME NEW c \in LsClients, Ls!Connect(c) PROVE LsTypes' /\ LsPlaces' /\ LsContents'
  <2>1. /\ client[c] = "connect" /\ UNCHANGED <<server, clientfd, child, output, tty, asked, shown, request, wire, hung>>
    BY <1>10 DEF Ls!Connect, Ls!serverVars
  <2>2. Whole' = Whole
    BY <2>1 DEF Whole
  <2>3. CASE server = "make"
    <3>1. client' = [client EXCEPT ![c] = "failed"] /\ UNCHANGED backlog
      BY <1>10, <2>3 DEF Ls!Connect
    <3>2. LsTypes' /\ LsPlaces'
      BY <1>b, <2>1, <3>1 DEF LsTypes, LsPlaces
    <3>3. LsContents'
      BY <1>b, <2>1, <2>2, <3>1 DEF LsContents, LsTypes
    <3> QED BY <3>2, <3>3
  <2>4. CASE server # "make"
    <3>1. client' = [client EXCEPT ![c] = "ask"] /\ backlog' = Append(backlog, c)
      BY <1>0, <1>10, <2>4 DEF Ls!Connect
    <3>2. /\ LsTypes' /\ Len(backlog') = Len(backlog) + 1 /\ backlog'[Len(backlog')] = c
          /\ \A i \in 1..Len(backlog) : backlog'[i] = backlog[i]
      BY <3>1, <2>1 DEF LsTypes
    <3>3. ASSUME NEW d, d # c PROVE InBacklog(d)' <=> InBacklog(d)
      <4>1. \A i \in 1..Len(backlog') : i = Len(backlog') \/ i \in 1..Len(backlog)
        BY <3>2 DEF LsTypes
      <4>2. \A i \in 1..Len(backlog) : i \in 1..Len(backlog')
        BY <3>2 DEF LsTypes
      <4> QED BY <3>2, <3>3, <4>1, <4>2 DEF InBacklog
    <3>4. \A i, j \in 1..Len(backlog') : i # j => backlog'[i] # backlog'[j]
      <4>1. \A i \in 1..Len(backlog) : backlog[i] # c
        BY <2>1 DEF LsPlaces, InBacklog
      <4>2. \A i \in 1..Len(backlog') : i = Len(backlog') \/ i \in 1..Len(backlog)
        BY <3>2 DEF LsTypes
      <4> QED BY <3>2, <4>1, <4>2 DEF LsPlaces
    <3>5. LsPlaces'
      BY <2>1, <3>1, <3>3, <3>4 DEF LsPlaces, LsTypes
    <3>6. LsContents'
      BY <2>1, <2>2, <2>4, <3>1, <3>3 DEF LsContents, LsPlaces, LsTypes
    <3> QED BY <3>2, <3>5, <3>6
  <2> QED BY <2>3, <2>4
<1>11. ASSUME NEW c \in LsClients, Ls!Ask(c) PROVE LsTypes' /\ LsPlaces' /\ LsContents'
  <2>1. /\ client[c] = "ask" /\ client' = [client EXCEPT ![c] = "read"]
        /\ request' \in {request, request \cup {c}} /\ shown' = [shown EXCEPT ![c] = <<>>]
        /\ UNCHANGED <<server, clientfd, child, output, tty, asked, backlog, wire, hung>>
    BY <1>11 DEF Ls!Ask, Ls!serverVars
  <2>2. Whole' = Whole
    BY <2>1 DEF Whole
  <2>3. LsTypes'
    BY <2>1 DEF LsTypes
  <2>4. LsPlaces'
    BY <1>b, <2>1 DEF LsPlaces, LsTypes
  <2>5. LsContents'
    BY <1>b, <2>1, <2>2 DEF LsContents, LsPlaces, LsTypes
  <2> QED BY <2>3, <2>4, <2>5
<1>12. ASSUME NEW c \in LsClients, Ls!Receive(c) PROVE LsTypes' /\ LsPlaces' /\ LsContents'
  <2>1. /\ client[c] = "read" /\ wire[c] # <<>>
        /\ shown' = [shown EXCEPT ![c] = Append(@, Head(wire[c]))] /\ wire' = [wire EXCEPT ![c] = Tail(@)]
        /\ UNCHANGED <<server, clientfd, child, output, tty, client, asked, backlog, request, hung>>
    BY <1>12 DEF Ls!Receive, Ls!serverVars
  <2>2. Whole' = Whole
    BY <2>1 DEF Whole
  <2>3. /\ shown'[c] \in Seq(Nat) /\ wire'[c] \in Seq(Nat)
        /\ shown'[c] \o wire'[c] = shown[c] \o wire[c]
    <3>1. shown[c] \in Seq(Nat) /\ wire[c] \in Seq(Nat)
      BY DEF LsTypes
    <3>2. shown'[c] = Append(shown[c], Head(wire[c])) /\ wire'[c] = Tail(wire[c])
      BY <2>1 DEF LsTypes
    <3>3. /\ Append(shown[c], Head(wire[c])) \in Seq(Nat) /\ Tail(wire[c]) \in Seq(Nat)
          /\ Append(shown[c], Head(wire[c])) \o Tail(wire[c]) = shown[c] \o wire[c]
      BY <2>1, <3>1, BlockMoves
    <3> QED BY <3>2, <3>3
  <2>4. LsTypes'
    BY <2>1 DEF LsTypes
  <2>5. LsPlaces'
    BY <1>b, <2>1 DEF LsPlaces
  <2>6. shown'[c] \o (wire'[c] \o output) = shown[c] \o (wire[c] \o output)
    <3>1. (shown'[c] \o wire'[c]) \o output = (shown[c] \o wire[c]) \o output
      BY <2>3
    <3>4. shown[c] \in Seq(Nat) /\ wire[c] \in Seq(Nat) /\ output \in Seq(Nat)
      BY DEF LsTypes
    <3>2. (shown[c] \o wire[c]) \o output = shown[c] \o (wire[c] \o output)
      BY <3>4, ThreeTogether
    <3>3. (shown'[c] \o wire'[c]) \o output = shown'[c] \o (wire'[c] \o output)
      BY <2>3, <3>4, ThreeTogether
    <3> QED BY <3>1, <3>2, <3>3
  <2>7. \A d \in LsClients : d # c => shown'[d] = shown[d] /\ wire'[d] = wire[d]
    BY <2>1 DEF LsTypes
  <2>8. LsContents'
    BY <1>b, <2>1, <2>2, <2>3, <2>6, <2>7 DEF LsContents
  <2> QED BY <2>4, <2>5, <2>8
<1>13. ASSUME NEW c \in LsClients, Ls!EndOfFile(c) PROVE LsTypes' /\ LsPlaces' /\ LsContents'
  <2>1. /\ client[c] = "read" /\ wire[c] = <<>> /\ c \in hung /\ hung' = hung \ {c}
        /\ asked' = [asked EXCEPT ![c] = @ + 1]
        /\ UNCHANGED <<server, clientfd, child, output, tty, shown, backlog, request, wire>>
    BY <1>13 DEF Ls!EndOfFile, Ls!serverVars
  <2>2. PICK next1 \in {"done", "connect"} : client' = [client EXCEPT ![c] = next1]
    BY <1>13 DEF Ls!EndOfFile
  <2>3. Whole' = Whole
    BY <2>1 DEF Whole
  <2>4. LsTypes'
    BY <2>1, <2>2 DEF LsTypes
  <2>5. LsPlaces'
    BY <1>b, <2>1, <2>2 DEF LsPlaces, LsTypes
  <2>6. shown[c] = Whole
    <3>1. shown[c] \o <<>> = shown[c]
      BY DEF LsTypes
    <3> QED BY <2>1, <3>1 DEF LsContents
  <2>7. LsContents'
    BY <1>b, <2>1, <2>2, <2>3, <2>6 DEF LsContents, LsTypes
  <2> QED BY <2>4, <2>5, <2>7
<1>14. ASSUME NEW c \in LsClients, Ls!Kill(c) PROVE LsTypes' /\ LsPlaces' /\ LsContents'
  <2>1. /\ client' = [client EXCEPT ![c] = "failed"] /\ wire' = [wire EXCEPT ![c] = <<>>]
        /\ hung' = hung \ {c}
        /\ UNCHANGED <<server, clientfd, child, output, tty, asked, shown, backlog, request>>
    BY <1>14 DEF Ls!Kill, Ls!serverVars
  <2>2. Whole' = Whole
    BY <2>1 DEF Whole
  <2>3. LsTypes'
    BY <2>1 DEF LsTypes
  <2>4. LsPlaces'
    BY <1>b, <2>1 DEF LsPlaces, LsTypes
  <2>5. LsContents'
    BY <1>b, <2>1, <2>2 DEF LsContents, LsTypes
  <2> QED BY <2>3, <2>4, <2>5
<1>15. ASSUME NEW c \in LsClients, Ls!Stop(c) PROVE LsTypes' /\ LsPlaces' /\ LsContents'
  <2>1. /\ client[c] \in {"ask", "read"} /\ client' = [client EXCEPT ![c] = "stopped"]
        /\ UNCHANGED <<server, clientfd, child, output, tty, asked, shown, backlog, request, wire, hung>>
    BY <1>15 DEF Ls!Stop, Ls!serverVars, Ls!netVars
  <2>2. Whole' = Whole
    BY <2>1 DEF Whole
  <2>3. LsTypes'
    BY <2>1 DEF LsTypes
  <2>4. LsPlaces'
    BY <1>b, <2>1 DEF LsPlaces, LsTypes
  <2>5. LsContents'
    BY <1>b, <2>1, <2>2 DEF LsContents, LsTypes
  <2> QED BY <2>3, <2>4, <2>5
<1>16. \A c \in LsClients : ~Ls!ReadFails(c)
  BY <1>0 DEF Ls!ReadFails
<1>17. ~Ls!ServerExits
  BY DEF Ls!ServerExits
<1> QED BY <1>1, <1>2, <1>3, <1>4, <1>5, <1>6, <1>7, <1>8, <1>9, <1>10, <1>11, <1>12, <1>13, <1>14, <1>15,
           <1>16, <1>17 DEF Ls!Next, Ls!Server, Ls!ClientStep

\* The invariant always holds.
LEMMA LsAlways == Spec => []LsInv
<1>1. Init => LsInv
  <2> SUFFICES ASSUME Init PROVE LsTypes /\ LsPlaces /\ LsContents
    BY DEF LsInv
  <2>0. Ls!Nobody \notin LsClients
    BY ConstantsAssumption DEF Ls!LsAssumption
  <2>1. /\ server = "make" /\ clientfd = Ls!Nobody /\ child = "none" /\ output = <<>>
        /\ client = [c \in LsClients |-> "connect"] /\ asked = [c \in LsClients |-> 0]
        /\ shown = [c \in LsClients |-> <<>>]
        /\ backlog = <<>> /\ request = {} /\ hung = {} /\ wire = [c \in LsClients |-> <<>>]
    BY DEF Init, Ls!Init
  <2>2. LsTypes
    BY <2>1 DEF LsTypes
  <2>3. LsPlaces
    BY <2>0, <2>1 DEF LsPlaces, InBacklog
  <2>4. LsContents
    BY <2>1 DEF LsContents
  <2> QED BY <2>2, <2>3, <2>4
<1> QED BY <1>1, LsStep, OneProgramRuns, PTL DEF Spec

\* Whatever the number of clients, of names, of blocks and of blocks a
\* connection holds: a client that says "End of file" has printed the whole
\* listing and nothing else, behind the server's own log if the server's
\* stdout is not a terminal - unless the server has given up (ls_server.c and
\* ls_client.c).
THEOREM ShowsWholeAlways == Spec => []ShowsWhole
<1>1. LsInv => ShowsWhole
  BY DEF LsInv, LsContents, ShowsWhole, Ls!ShowsWhole, Whole
<1> QED BY <1>1, LsAlways, PTL

-----------------------------------------------------------------------------
(* my_ls.c                                                                 *)

Levels == [dir : Nodes, left : SUBSET Nodes]
OutLines == [entry : Nodes, indent : Nat]

DirTypes ==
    /\ ls \in {"start", "ls", "server"} /\ exists \subseteq Nodes
    /\ todo \in Nodes \cup {Dir!None} /\ entering \in Nodes \cup {Dir!None}
    /\ stack \in Seq(Levels) /\ unread \subseteq Nodes /\ out \in Seq(OutLines)
    /\ todo = Dir!None \/ entering = Dir!None
    /\ ls = "start" => todo = Dir!None /\ entering = Dir!None /\ stack = <<>> /\ out = <<>>

\* No entry is met twice: what is still to be looked at is not listed, and of
\* a directory that is still to be read no entry is.
DirOnce ==
    /\ \A i, j \in Dir!Lines : out[i].entry = out[j].entry => i = j
    /\ todo # Dir!None => todo \notin Dir!Listed
    /\ todo = Root => stack = <<>>
    /\ todo \notin {Dir!None, Root} => stack # <<>> /\ Parent[todo] = Dir!Top.dir
    /\ \A n \in Dir!Listed : n # Root => Parent[n] \in Dir!Listed /\ Parent[n] # entering
    /\ \A d \in 1..Len(stack) :
          /\ stack[d].dir \in Dir!Listed /\ stack[d].dir # entering
          /\ \A n \in stack[d].left :
                n \notin Dir!Listed /\ n # todo /\ n # Root /\ Parent[n] = stack[d].dir
    /\ \A c, d \in 1..Len(stack) : c # d => stack[c].dir # stack[d].dir

\* The line of a directory that is being read is followed by its own entries,
\* and those of what it holds, alone.
DirShape ==
    /\ \A d \in 1..Len(stack) : \E j \in Dir!Lines :
          /\ out[j].entry = stack[d].dir /\ out[j].indent = d - 1
          /\ \A k \in j+1..Len(out) : out[k].indent >= d
    /\ entering # Dir!None =>
          out # <<>> /\ out[Len(out)].entry = entering /\ out[Len(out)].indent = Len(stack)
    /\ \A i \in Dir!Lines : out[i].entry # Root => \E j \in 1..i-1 :
          /\ out[j].entry = Parent[out[i].entry] /\ out[j].indent = out[i].indent - 1
          /\ \A k \in j+1..i : out[k].indent >= out[i].indent

\* Of an entry that is there it is known why it is not listed, or where it
\* will be met.
DirStays ==
    ls # "start" => \A n \in exists :
        \/ n \in Dir!Listed \/ Kind[n] = "other" \/ n = todo
        \/ n # Root /\ \/ Parent[n] \notin Dir!Listed \/ Parent[n] \in unread
                       \/ ls = "server" /\ Parent[n] # Root
                       \/ Parent[n] = entering
                       \/ \E d \in 1..Len(stack) : n \in stack[d].left

DirInv == DirTypes /\ DirOnce /\ DirShape /\ DirStays

\* A line is put behind the others.
LEMMA LineIsAdded ==
    ASSUME DirTypes, NEW t \in Nodes, NEW depth \in Nat,
           out' = Append(out, [entry |-> t, indent |-> depth])
    PROVE  /\ out' \in Seq(OutLines) /\ Len(out') = Len(out) + 1 /\ Len(out) \in Nat
           /\ \A i \in 1..Len(out) : out'[i] = out[i]
           /\ out'[Len(out')].entry = t /\ out'[Len(out')].indent = depth
           /\ Dir!Listed' = Dir!Listed \cup {t}
<1>1. PICK new \in OutLines : new = [entry |-> t, indent |-> depth]
  BY DEF OutLines
<1>2. new.entry = t /\ new.indent = depth
  BY <1>1
<1>3. out \in Seq(OutLines) /\ out' = Append(out, new)
  BY <1>1 DEF DirTypes
<1>4. /\ out' \in Seq(OutLines) /\ Len(out') = Len(out) + 1 /\ Len(out) \in Nat
      /\ \A i \in 1..Len(out) : out'[i] = out[i]
      /\ out'[Len(out')] = new
  BY <1>3
<1>5. \A i \in 1..Len(out') : i \in 1..Len(out) \/ i = Len(out')
  BY <1>4
<1>6. Len(out') \in 1..Len(out') /\ \A i \in 1..Len(out) : i \in 1..Len(out')
  BY <1>4
<1>7. Dir!Listed' = Dir!Listed \cup {t}
  BY <1>2, <1>4, <1>5, <1>6 DEF Dir!Listed, Dir!Lines
<1> QED BY <1>2, <1>4, <1>7

LEMMA FrontOf ==
    ASSUME NEW s \in Seq(Levels), NEW n \in 0..Len(s)
    PROVE  /\ SubSeq(s, 1, n) \in Seq(Levels) /\ Len(SubSeq(s, 1, n)) = n
           /\ \A i \in 1..n : SubSeq(s, 1, n)[i] = s[i]
  OBVIOUS

\* What was listed stays in its place while levels are left or emptied.
LEMMA ShapeStays ==
    ASSUME DirTypes, DirShape, UNCHANGED out, Len(stack') \in 0..Len(stack),
           \A d \in 1..Len(stack') : stack'[d].dir = stack[d].dir,
           entering' = Dir!None \/ (entering' = entering /\ Len(stack') = Len(stack))
    PROVE  DirShape'
<1>1. Len(stack) \in Nat /\ Dir!Lines' = Dir!Lines
  BY DEF DirTypes, Dir!Lines
<1>2. \A d \in 1..Len(stack') : d \in 1..Len(stack)
  BY <1>1
<1> QED BY <1>1, <1>2 DEF DirShape

LEMMA DirStep == DirInv /\ [Dir!Next]_dirVars => DirInv'
<1> SUFFICES ASSUME DirInv, [Dir!Next]_dirVars PROVE DirInv'
  OBVIOUS
<1>. DirTypes /\ DirOnce /\ DirShape /\ DirStays
  BY DEF DirInv
<1>0. /\ Dir!None \notin Nodes /\ Root \in Nodes /\ Kind \in [Nodes -> {"file", "dir", "other"}]
      /\ Parent \in [Nodes \ {Root} -> {n \in Nodes : Kind[n] = "dir"}]
      /\ stack \in Seq(Levels) /\ out \in Seq(OutLines) /\ Len(stack) \in Nat /\ Len(out) \in Nat
      /\ \A d \in 1..Len(stack) : stack[d] \in Levels
  BY ConstantsAssumption DEF Dir!TreeAssumption, DirTypes
<1>b. Dir!Listed \subseteq Nodes /\ Dir!None \notin Dir!Listed
  <2>1. \A i \in 1..Len(out) : out[i] \in OutLines
    BY <1>0
  <2>2. \A i \in 1..Len(out) : out[i].entry \in Nodes
    BY <2>1 DEF OutLines
  <2> QED BY <1>0, <2>2 DEF Dir!Listed, Dir!Lines
<1>c. Len(out) \in Nat /\ Len(stack) \in Nat
  BY <1>0
<1>a. UNCHANGED out => Dir!Listed' = Dir!Listed /\ Dir!Lines' = Dir!Lines
  BY DEF Dir!Listed, Dir!Lines
<1>1. CASE UNCHANGED dirVars
  <2>1. UNCHANGED <<ls, exists, todo, entering, stack, unread, out>>
    BY <1>1 DEF dirVars
  <2>2. DirTypes' /\ DirStays'
    BY <1>a, <2>1 DEF DirTypes, DirStays
  <2>3. DirOnce' /\ DirShape'
    BY <1>a, <2>1 DEF DirOnce, DirShape, Dir!Top, Dir!Depth
  <2> QED BY <2>2, <2>3 DEF DirInv
<1>2. CASE Dir!Start
  <2>1. /\ ls = "start" /\ ls' \in {"ls", "server"} /\ todo' = Root
        /\ UNCHANGED <<exists, entering, stack, unread, out>>
    BY <1>2 DEF Dir!Start
  <2>2. entering = Dir!None /\ stack = <<>> /\ out = <<>>
    BY <2>1 DEF DirTypes
  <2>3. Dir!Listed = {} /\ Len(stack) = 0 /\ Len(out) = 0
    BY <2>2 DEF Dir!Listed, Dir!Lines
  <2>4. DirTypes'
    BY <1>0, <2>1, <2>2 DEF DirTypes
  <2>5. DirOnce'
    BY <1>0, <1>a, <2>1, <2>2, <2>3 DEF DirOnce, Dir!Lines
  <2>6. DirShape'
    BY <1>0, <2>1, <2>2, <2>3, ShapeStays
  <2>7. DirStays'
    BY <1>0, <1>a, <2>1, <2>3 DEF DirStays, DirTypes
  <2> QED BY <2>4, <2>5, <2>6, <2>7 DEF DirInv
<1>3. CASE Dir!StatFails
  <2>1. /\ todo # Dir!None /\ todo \notin exists /\ todo' = Dir!None
        /\ UNCHANGED <<ls, exists, entering, stack, unread, out>>
    BY <1>3 DEF Dir!StatFails
  <2>2. DirTypes'
    BY <2>1 DEF DirTypes
  <2>3. DirOnce'
    BY <1>0, <1>a, <2>1 DEF DirOnce, Levels
  <2>4. DirShape'
    BY <1>0, <2>1, ShapeStays
  <2>5. DirStays'
    BY <1>a, <2>1 DEF DirStays
  <2> QED BY <2>2, <2>3, <2>4, <2>5 DEF DirInv
<1>4. CASE Dir!Stat
  <2>1. /\ todo \in exists /\ todo \in Nodes /\ todo # Dir!None /\ entering = Dir!None /\ todo' = Dir!None
        /\ ls \in {"ls", "server"} /\ UNCHANGED <<ls, exists, stack, unread>>
    BY <1>0, <1>4 DEF Dir!Stat, DirTypes
  <2>2. /\ Kind[todo] = "other" => out' = out
        /\ Kind[todo] # "other" => out' = Append(out, [entry |-> todo, indent |-> Len(stack)])
        /\ Kind[todo] = "dir" /\ (ls = "ls" \/ Len(stack) = 0) => entering' = todo
        /\ ~(Kind[todo] = "dir" /\ (ls = "ls" \/ Len(stack) = 0)) => entering' = Dir!None
    BY <1>4 DEF Dir!Stat, Dir!Depth
  <2>3. todo = Root => Len(stack) = 0
    BY <2>1 DEF DirOnce
  <2>4. CASE Kind[todo] = "other"
    <3>1. out' = out /\ entering' = Dir!None
      BY <2>2, <2>4
    <3>2. DirTypes'
      BY <2>1, <3>1 DEF DirTypes
    <3>3. DirOnce'
      BY <1>0, <1>a, <2>1, <3>1 DEF DirOnce, Levels
    <3>4. DirShape'
      BY <1>0, <2>1, <3>1, ShapeStays
    <3>5. DirStays'
      BY <1>a, <2>1, <2>4, <3>1 DEF DirStays
    <3> QED BY <3>2, <3>3, <3>4, <3>5 DEF DirInv
  <2>5. CASE Kind[todo] # "other"
    <3>1. /\ out' \in Seq(OutLines) /\ Len(out') = Len(out) + 1
          /\ \A i \in 1..Len(out) : out'[i] = out[i]
          /\ out'[Len(out')].entry = todo /\ out'[Len(out')].indent = Len(stack)
          /\ Dir!Listed' = Dir!Listed \cup {todo}
      BY <1>0, <2>1, <2>2, <2>5, LineIsAdded
    <3>2. entering' \in {todo, Dir!None} /\ todo \notin Dir!Listed
      BY <2>1, <2>2 DEF DirOnce
    <3>3. \A i \in 1..Len(out') : i \in 1..Len(out) \/ i = Len(out')
      BY <1>0, <3>1
    <3>4. DirTypes'
      BY <2>1, <3>1, <3>2 DEF DirTypes
    <3>5. \A i, j \in 1..Len(out') : out'[i].entry = out'[j].entry => i = j
      <4>1. \A i \in 1..Len(out) : out[i].entry # todo
        BY <3>2 DEF Dir!Listed, Dir!Lines
      <4>2. \A i, j \in 1..Len(out) : out[i].entry = out[j].entry => i = j
        BY DEF DirOnce, Dir!Lines
      <4> QED BY <3>1, <3>3, <4>1, <4>2
    <3>6. todo # Root => stack # <<>> /\ Parent[todo] = stack[Len(stack)].dir
      BY <2>1 DEF DirOnce, Dir!Top, Dir!Depth
    <3>7. \A n \in Dir!Listed' : n # Root => Parent[n] \in Dir!Listed' /\ Parent[n] # entering'
      <4>1. todo # Root => Parent[todo] \in Dir!Listed
        BY <1>0, <3>6 DEF DirOnce
      <4>2. \A n \in Dir!Listed : n # Root => Parent[n] \in Dir!Listed
        BY DEF DirOnce
      <4> QED BY <1>b, <3>1, <3>2, <4>1, <4>2
    <3>8. \A d \in 1..Len(stack) :
             /\ stack[d].dir \in Dir!Listed' /\ stack[d].dir # entering'
             /\ \A n \in stack[d].left :
                   n \notin Dir!Listed' /\ n # Dir!None /\ n # Root /\ Parent[n] = stack[d].dir
      <4>1. \A d \in 1..Len(stack) : stack[d].dir \in Nodes /\ stack[d].left \subseteq Nodes
        BY <1>0 DEF Levels
      <4> QED BY <1>0, <3>1, <3>2, <4>1 DEF DirOnce
    <3>9. DirOnce'
      BY <1>0, <2>1, <3>5, <3>7, <3>8 DEF DirOnce, Dir!Lines
    <3>10. \A d \in 1..Len(stack) : \E j \in 1..Len(out) :
              /\ out'[j].entry = stack[d].dir /\ out'[j].indent = d - 1
              /\ \A k \in j+1..Len(out') : out'[k].indent >= d
      <4> TAKE d \in 1..Len(stack)
      <4>1. PICK j \in 1..Len(out) :
              /\ out[j].entry = stack[d].dir /\ out[j].indent = d - 1
              /\ \A k \in j+1..Len(out) : out[k].indent >= d
        BY DEF DirShape, Dir!Lines
      <4>2. ASSUME NEW k \in j+1..Len(out') PROVE out'[k].indent >= d
        <5>1. CASE k = Len(out')
          BY <1>0, <3>1, <5>1
        <5>2. CASE k # Len(out')
          <6>1. k \in j+1..Len(out)
            BY <1>c, <3>1, <5>2
          <6> QED BY <1>0, <3>1, <4>1, <6>1
        <5> QED BY <5>1, <5>2
      <4> QED BY <3>1, <4>1, <4>2
    <3>11. \A i \in 1..Len(out') : out'[i].entry # Root => \E j \in 1..i-1 :
              /\ out'[j].entry = Parent[out'[i].entry] /\ out'[j].indent = out'[i].indent - 1
              /\ \A k \in j+1..i : out'[k].indent >= out'[i].indent
      <4> SUFFICES ASSUME NEW i \in 1..Len(out'), out'[i].entry # Root
                   PROVE  \E j \in 1..i-1 :
                            /\ out'[j].entry = Parent[out'[i].entry] /\ out'[j].indent = out'[i].indent - 1
                            /\ \A k \in j+1..i : out'[k].indent >= out'[i].indent
        OBVIOUS
      <4>1. CASE i = Len(out')
        <5>1. Len(stack) \in 1..Len(stack) /\ stack[Len(stack)].dir = Parent[todo]
          BY <1>0, <3>1, <3>6, <4>1
        <5>2. PICK j \in 1..Len(out) :
                /\ out'[j].entry = Parent[todo] /\ out'[j].indent = Len(stack) - 1
                /\ \A k \in j+1..Len(out') : out'[k].indent >= Len(stack)
          BY <3>10, <5>1
        <5> QED BY <1>0, <3>1, <4>1, <5>2, SMTT(30)
      <4>2. CASE i # Len(out')
        <5>1. i \in 1..Len(out) /\ out'[i] = out[i]
          BY <3>1, <3>3, <4>2
        <5>2. PICK j \in 1..i-1 :
                /\ out[j].entry = Parent[out[i].entry] /\ out[j].indent = out[i].indent - 1
                /\ \A k \in j+1..i : out[k].indent >= out[i].indent
          BY <5>1 DEF DirShape, Dir!Lines
        <5>3. \A k \in 1..i : out'[k] = out[k]
          <6>1. \A k \in 1..i : k \in 1..Len(out)
            BY <1>c, <5>1
          <6> QED BY <3>1, <6>1
        <5> QED BY <5>1, <5>2, <5>3
      <4> QED BY <4>1, <4>2
    <3>12. DirShape'
      <4>1. out' # <<>> /\ 1..Len(out) \subseteq 1..Len(out')
        BY <1>0, <3>1
      <4> QED BY <2>1, <3>1, <3>2, <3>10, <3>11, <4>1 DEF DirShape, Dir!Lines
    <3>13. DirStays'
      <4> SUFFICES ASSUME NEW n \in exists
                   PROVE  \/ n \in Dir!Listed' \/ Kind[n] = "other"
                          \/ n # Root /\ \/ Parent[n] \notin Dir!Listed' \/ Parent[n] \in unread
                                         \/ ls = "server" /\ Parent[n] # Root
                                         \/ Parent[n] = entering'
                                         \/ \E d \in 1..Len(stack) : n \in stack[d].left
        BY <2>1 DEF DirStays
      <4>1. n # Root /\ Parent[n] = todo => Parent[n] = entering' \/ (ls = "server" /\ Parent[n] # Root)
        <5>1. n # Root /\ Parent[n] = todo => Kind[todo] = "dir"
          BY <1>0 DEF DirTypes
        <5> QED BY <2>1, <2>2, <2>3, <5>1
      <4>2. n # Root /\ n \in Nodes => Parent[n] # Dir!None
        BY <1>0
      <4> QED BY <2>1, <3>1, <4>1, <4>2 DEF DirStays, DirTypes
    <3> QED BY <3>4, <3>9, <3>12, <3>13 DEF DirInv
  <2> QED BY <2>4, <2>5
<1>5. CASE Dir!OpenDir
  <2>1. /\ entering \in exists /\ entering \in Nodes /\ entering # Dir!None /\ todo = Dir!None
        /\ entering' = Dir!None /\ UNCHANGED <<ls, exists, todo, unread, out>>
    BY <1>0, <1>5 DEF Dir!OpenDir, DirTypes
  <2>2. PICK new \in Levels :
            /\ new = [dir |-> entering, left |-> {n \in exists \ {Root} : Parent[n] = entering}]
            /\ stack' = Append(stack, new)
    BY <1>5, <2>1 DEF Dir!OpenDir, Levels, DirTypes
  <2>3. new.dir = entering /\ new.left = {n \in exists \ {Root} : Parent[n] = entering}
    BY <2>2
  <2>4. /\ stack' \in Seq(Levels) /\ Len(stack') = Len(stack) + 1 /\ stack'[Len(stack')] = new
        /\ \A d \in 1..Len(stack) : stack'[d] = stack[d]
    BY <1>0, <2>2
  <2>5. \A d \in 1..Len(stack') : d \in 1..Len(stack) \/ d = Len(stack')
    BY <1>0, <2>4
  <2>6. DirTypes'
    BY <2>1, <2>4 DEF DirTypes
  <2>7. out # <<>> /\ out[Len(out)].entry = entering /\ out[Len(out)].indent = Len(stack)
        /\ Len(out) \in 1..Len(out)
    BY <1>0, <2>1 DEF DirShape
  <2>8. entering \in Dir!Listed /\ \A n \in Dir!Listed : n # Root => Parent[n] # entering /\ n # Dir!None
    <3>1. entering \in Dir!Listed
      BY <2>7 DEF Dir!Listed, Dir!Lines
    <3>2. \A n \in Dir!Listed : n # Root => Parent[n] # entering
      BY DEF DirOnce
    <3> QED BY <1>b, <3>1, <3>2
  <2>9. \A d \in 1..Len(stack') :
             /\ stack'[d].dir \in Dir!Listed /\ stack'[d].dir # Dir!None
             /\ \A n \in stack'[d].left :
                   n \notin Dir!Listed /\ n # Dir!None /\ n # Root /\ Parent[n] = stack'[d].dir
    <3> TAKE d \in 1..Len(stack')
    <3>1. CASE d = Len(stack')
      BY <1>0, <2>1, <2>3, <2>4, <2>8, <3>1 DEF DirTypes
    <3>2. CASE d # Len(stack')
      <4>1. d \in 1..Len(stack) /\ stack'[d] = stack[d] /\ stack[d].dir \in Nodes /\ stack[d].left \subseteq Nodes
        BY <1>0, <2>4, <2>5, <3>2 DEF Levels
      <4> QED BY <1>0, <4>1 DEF DirOnce
    <3> QED BY <3>1, <3>2
  <2>10. \A c, d \in 1..Len(stack') : c # d => stack'[c].dir # stack'[d].dir
    <3>1. \A d \in 1..Len(stack) : stack[d].dir # entering
      BY DEF DirOnce
    <3>2. \A c, d \in 1..Len(stack) : c # d => stack[c].dir # stack[d].dir
      BY DEF DirOnce
    <3> QED BY <2>3, <2>4, <2>5, <3>1, <3>2
  <2>11. DirOnce'
    <3>1. \A n \in Dir!Listed : n # Root => Parent[n] \in Dir!Listed /\ Parent[n] # Dir!None
      BY <1>b DEF DirOnce
    <3>2. \A i, j \in Dir!Lines : out[i].entry = out[j].entry => i = j
      BY DEF DirOnce
    <3> QED BY <1>0, <1>a, <2>1, <2>9, <2>10, <3>1, <3>2 DEF DirOnce
  <2>12. \A d \in 1..Len(stack') : \E j \in Dir!Lines :
            /\ out[j].entry = stack'[d].dir /\ out[j].indent = d - 1
            /\ \A k \in j+1..Len(out) : out[k].indent >= d
    <3> TAKE d \in 1..Len(stack')
    <3>1. CASE d = Len(stack')
      <4>1. Len(stack) = d - 1 /\ Len(out) \in Dir!Lines /\ \A k : k \notin Len(out)+1..Len(out)
        BY <1>0, <2>4, <2>7, <3>1 DEF Dir!Lines
      <4> QED BY <2>3, <2>4, <2>7, <3>1, <4>1
    <3>2. CASE d # Len(stack')
      BY <2>4, <2>5, <3>2 DEF DirShape
    <3> QED BY <3>1, <3>2
  <2>13. DirShape'
    BY <1>a, <2>1, <2>12 DEF DirShape
  <2>14. DirStays'
    <3> SUFFICES ASSUME ls # "start", NEW n \in exists
                 PROVE  \/ n \in Dir!Listed \/ Kind[n] = "other"
                        \/ n # Root /\ \/ Parent[n] \notin Dir!Listed \/ Parent[n] \in unread
                                       \/ ls = "server" /\ Parent[n] # Root
                                       \/ \E d \in 1..Len(stack') : n \in stack'[d].left
      BY <1>a, <2>1 DEF DirStays
    <3>1. n # Root /\ Parent[n] = entering => n \in stack'[Len(stack')].left /\ Len(stack') \in 1..Len(stack')
      BY <1>0, <2>3, <2>4
    <3>2. \A d \in 1..Len(stack) : n \in stack[d].left => d \in 1..Len(stack') /\ n \in stack'[d].left
      BY <1>0, <2>4
    <3>3. n # todo
      BY <1>0, <2>1 DEF DirTypes
    <3> QED BY <3>1, <3>2, <3>3 DEF DirStays
  <2> QED BY <2>6, <2>11, <2>13, <2>14 DEF DirInv
<1>6. CASE Dir!OpenDirFails
  <2>1. /\ entering # Dir!None /\ entering' = Dir!None /\ unread' = unread \cup {entering}
        /\ UNCHANGED <<ls, exists, todo, stack, out>>
    BY <1>6 DEF Dir!OpenDirFails
  <2>2. DirTypes'
    BY <2>1 DEF DirTypes
  <2>3. DirOnce'
    BY <1>a, <1>b, <2>1 DEF DirOnce, Dir!Top, Dir!Depth
  <2>4. DirShape'
    BY <1>0, <2>1, ShapeStays
  <2>5. DirStays'
    BY <1>a, <2>1 DEF DirStays
  <2> QED BY <2>2, <2>3, <2>4, <2>5 DEF DirInv
<1>7. CASE Dir!ReadDir
  <2>1. /\ todo = Dir!None /\ entering = Dir!None /\ stack # <<>>
        /\ UNCHANGED <<ls, exists, entering, unread, out>>
        /\ Len(stack) \in 1..Len(stack)
    BY <1>0, <1>7 DEF Dir!ReadDir, Dir!Idle
  <2>2. PICK n \in stack[Len(stack)].left :
            todo' = n /\ stack' = [stack EXCEPT ![Len(stack)].left = @ \ {n}]
    BY <1>7 DEF Dir!ReadDir, Dir!Top, Dir!Depth
  <2>3. stack[Len(stack)] \in Levels /\ n \in Nodes
    BY <1>0, <2>1 DEF Levels
  <2>4. PICK new \in Levels : new = [stack[Len(stack)] EXCEPT !.left = @ \ {n}]
    BY <2>3 DEF Levels
  <2>5. new.dir = stack[Len(stack)].dir /\ new.left = stack[Len(stack)].left \ {n}
    BY <2>3, <2>4 DEF Levels
  <2>6. stack' = [stack EXCEPT ![Len(stack)] = new]
    BY <2>2, <2>4
  <2>7. /\ stack' \in Seq(Levels) /\ Len(stack') = Len(stack)
        /\ stack'[Len(stack)] = new /\ \A d \in 1..Len(stack) : d # Len(stack) => stack'[d] = stack[d]
    BY <1>0, <2>1, <2>6
  <2>8. \A d \in 1..Len(stack) : /\ stack'[d].dir = stack[d].dir
                                 /\ stack'[d].left \subseteq stack[d].left
                                 /\ \A m \in stack[d].left : m # n => m \in stack'[d].left
    BY <2>5, <2>7
  <2>9. DirTypes'
    BY <2>1, <2>2, <2>3, <2>7 DEF DirTypes
  <2>10. /\ n \notin Dir!Listed /\ n # Root /\ Parent[n] = stack[Len(stack)].dir
         /\ \A d \in 1..Len(stack) : n \notin stack'[d].left
    <3>1. n \notin Dir!Listed /\ n # Root /\ Parent[n] = stack[Len(stack)].dir
      BY <2>1, <2>2 DEF DirOnce
    <3>2. n \notin stack'[Len(stack)].left
      BY <2>5, <2>7
    <3>3. ASSUME NEW d \in 1..Len(stack), d # Len(stack) PROVE n \notin stack'[d].left
      <4>1. stack[d].dir # stack[Len(stack)].dir
        BY <2>1, <3>3 DEF DirOnce
      <4>2. \A m \in stack[d].left : Parent[m] = stack[d].dir
        BY DEF DirOnce
      <4> QED BY <2>8, <3>1, <4>1, <4>2
    <3> QED BY <3>1, <3>2, <3>3
  <2>11. \A d \in 1..Len(stack) :
            /\ stack'[d].dir \in Dir!Listed /\ stack'[d].dir # entering
            /\ \A m \in stack'[d].left :
                  m \notin Dir!Listed /\ m # n /\ m # Root /\ Parent[m] = stack'[d].dir
    BY <2>8, <2>10 DEF DirOnce
  <2>12. \A c, d \in 1..Len(stack) : c # d => stack'[c].dir # stack'[d].dir
    BY <2>8 DEF DirOnce
  <2>13. DirOnce'
    <3>1. /\ \A i, j \in Dir!Lines : out[i].entry = out[j].entry => i = j
          /\ \A m \in Dir!Listed : m # Root => Parent[m] \in Dir!Listed /\ Parent[m] # entering
      BY DEF DirOnce
    <3>2. Parent[n] = Dir!Top.dir' /\ stack' # <<>>
      BY <1>0, <2>1, <2>7, <2>8, <2>10 DEF Dir!Top, Dir!Depth
    <3> QED BY <1>a, <2>1, <2>2, <2>7, <2>10, <2>11, <2>12, <3>1, <3>2 DEF DirOnce
  <2>14. DirShape'
    BY <1>0, <2>1, <2>7, <2>8, ShapeStays
  <2>15. DirStays'
    <3>1. ASSUME NEW m \in exists, NEW d \in 1..Len(stack), m \in stack[d].left
          PROVE  m = n \/ \E e \in 1..Len(stack') : m \in stack'[e].left
      BY <2>7, <2>8, <3>1
    <3>2. \A m \in exists : m # todo
      BY <1>0, <2>1 DEF DirTypes
    <3> QED BY <1>a, <2>1, <2>2, <3>1, <3>2 DEF DirStays
  <2> QED BY <2>9, <2>13, <2>14, <2>15 DEF DirInv
<1>8. CASE Dir!CloseDir
  <2>1. /\ todo = Dir!None /\ entering = Dir!None /\ stack # <<>> /\ Len(stack) \in 1..Len(stack)
        /\ stack[Len(stack)].left = {} /\ stack' = SubSeq(stack, 1, Len(stack) - 1)
        /\ UNCHANGED <<ls, exists, todo, entering, unread, out>>
    BY <1>0, <1>8 DEF Dir!CloseDir, Dir!Idle, Dir!Top, Dir!Depth
  <2>2. /\ stack' \in Seq(Levels) /\ Len(stack') = Len(stack) - 1
        /\ \A d \in 1..Len(stack') : d \in 1..Len(stack) /\ stack'[d] = stack[d]
        /\ \A d \in 1..Len(stack) : d = Len(stack) \/ d \in 1..Len(stack')
    <3>1. Len(stack) - 1 \in 0..Len(stack)
      BY <1>c, <2>1
    <3>2. stack' \in Seq(Levels) /\ Len(stack') = Len(stack) - 1
          /\ \A d \in 1..Len(stack) - 1 : stack'[d] = stack[d]
      <4>1. stack \in Seq(Levels) /\ stack' = SubSeq(stack, 1, Len(stack) - 1)
        BY <1>0, <2>1
      <4> QED BY <3>1, <4>1, FrontOf
    <3> QED BY <1>c, <3>2
  <2>3. DirTypes'
    BY <2>1, <2>2 DEF DirTypes
  <2>4. DirOnce'
    BY <1>0, <1>a, <2>1, <2>2 DEF DirOnce
  <2>5. DirShape'
    <3>1. Len(stack') \in 0..Len(stack) /\ \A d \in 1..Len(stack') : stack'[d].dir = stack[d].dir
      BY <1>0, <2>1, <2>2
    <3> QED BY <2>1, <3>1, ShapeStays
  <2>6. DirStays'
    BY <1>a, <2>1, <2>2 DEF DirStays
  <2> QED BY <2>3, <2>4, <2>5, <2>6 DEF DirInv
<1>9. ASSUME NEW n \in Nodes, Dir!Remove(n) PROVE DirInv'
  <2>1. /\ ls # "start" /\ exists' = exists \ {n} /\ UNCHANGED <<ls, todo, entering, unread, out>>
    BY <1>9 DEF Dir!Remove
  <2>2. /\ stack' \in Seq(Levels) /\ Len(stack') = Len(stack)
        /\ \A d \in 1..Len(stack) : /\ stack'[d].dir = stack[d].dir
                                    /\ stack'[d].left \subseteq stack[d].left
                                    /\ \A m \in stack[d].left : m # n => m \in stack'[d].left
    <3>1. CASE UNCHANGED stack
      BY <1>0, <3>1
    <3>2. CASE stack' = [i \in 1..Len(stack) |-> [stack[i] EXCEPT !.left = @ \ {n}]]
      <4>1. ASSUME NEW d \in 1..Len(stack)
            PROVE  /\ stack'[d] \in Levels /\ stack'[d].dir = stack[d].dir
                   /\ stack'[d].left = stack[d].left \ {n}
        <5>1. stack'[d] = [stack[d] EXCEPT !.left = @ \ {n}]
          BY <3>2
        <5>2. PICK old \in Levels : old = stack[d]
          BY <1>0
        <5>3. stack'[d] = [old EXCEPT !.left = @ \ {n}]
          BY <5>1, <5>2
        <5> QED BY <5>2, <5>3 DEF Levels
      <4>2. DOMAIN stack' = 1..Len(stack) /\ Len(stack') = Len(stack)
        BY <1>c, <3>2
      <4>3. stack' \in Seq(Levels)
        <5>1. stack' = [d \in 1..Len(stack) |-> stack'[d]]
          BY <3>2
        <5> QED BY <1>c, <4>1, <5>1
      <4> QED BY <4>1, <4>2, <4>3
    <3> QED BY <1>9, <3>1, <3>2 DEF Dir!Remove, Dir!Depth
  <2>3. DirTypes'
    BY <2>1, <2>2 DEF DirTypes
  <2>4. DirOnce'
    <3>1. stack # <<>> => Dir!Top.dir' = Dir!Top.dir /\ stack' # <<>>
      BY <1>0, <2>2 DEF Dir!Top, Dir!Depth
    <3>2. stack = <<>> => stack' = <<>>
      BY <1>0, <2>2
    <3> QED BY <1>a, <2>1, <2>2, <3>1, <3>2 DEF DirOnce
  <2>5. DirShape'
    BY <1>0, <2>1, <2>2, ShapeStays
  <2>6. DirStays'
    BY <1>a, <2>1, <2>2 DEF DirStays
  <2> QED BY <2>3, <2>4, <2>5, <2>6 DEF DirInv
<1> QED BY <1>1, <1>2, <1>3, <1>4, <1>5, <1>6, <1>7, <1>8, <1>9 DEF Dir!Next

LEMMA DirAlways == Spec => []DirInv
<1>1. Init => DirInv
  <2> SUFFICES ASSUME Init PROVE DirInv
    OBVIOUS
  <2>0. Dir!None \notin Nodes /\ Root \in Nodes
    BY ConstantsAssumption DEF Dir!TreeAssumption
  <2>1. /\ ls = "start" /\ exists = Nodes /\ todo = Dir!None /\ entering = Dir!None
        /\ stack = <<>> /\ unread = {} /\ out = <<>>
    BY DEF Init, Dir!Init
  <2>2. DirTypes
    BY <2>1 DEF DirTypes
  <2>3. Dir!Lines = {} /\ Dir!Listed = {}
    BY <2>1 DEF Dir!Lines, Dir!Listed
  <2>4. DirOnce
    BY <2>0, <2>1, <2>3 DEF DirOnce
  <2>5. DirShape /\ DirStays
    BY <2>1, <2>3 DEF DirShape, DirStays
  <2> QED BY <2>2, <2>4, <2>5 DEF DirInv
<1> QED BY <1>1, DirStep, OneProgramRuns, PTL DEF Spec

\* Whatever the tree and whatever is removed meanwhile: no entry comes twice,
\* and the directory an entry is in is the last line before it that is
\* indented less (my_ls.c, lines 90-95 and 127-131).
THEOREM TreeCanBeReadAlways == Spec => []TreeCanBeRead
<1>1. DirInv => TreeCanBeRead
  BY DEF DirInv, DirOnce, DirShape, TreeCanBeRead, Dir!TreeCanBeRead
<1> QED BY <1>1, DirAlways, PTL

\* An entry that is still there when the listing is over is in it, if its
\* directory is in it and could be opened (the two my_ls.c; the server's lists
\* the one directory it is given).
THEOREM StaysMeansListedAlways == Spec => []StaysMeansListed
<1>1. DirInv => StaysMeansListed
  <2> SUFFICES ASSUME DirInv, Dir!Done, NEW n \in exists
               PROVE  \/ n \in Dir!Listed \/ Kind[n] = "other"
                      \/ n # Root /\ \/ Parent[n] \notin Dir!Listed \/ Parent[n] \in unread
                                     \/ ls = "server" /\ Parent[n] # Root
    BY DEF StaysMeansListed, Dir!StaysMeansListed
  <2>1. /\ ls # "start" /\ todo = Dir!None /\ entering = Dir!None /\ Len(stack) = 0
    BY DEF Dir!Done
  <2>2. n # Dir!None /\ (n # Root => Parent[n] # Dir!None)
    BY ConstantsAssumption DEF Dir!TreeAssumption, DirInv, DirTypes
  <2> QED BY <2>1, <2>2 DEF DirInv, DirStays
<1> QED BY <1>1, DirAlways, PTL

-----------------------------------------------------------------------------
(* my_copy.c                                                               *)

Byte == {7, 255}
Files == Seq(Byte) \cup {Copy!NoFile}
Source == Copy!Bytes(disk[1])
Target == Copy!Bytes(disk[target])

CopyTypes ==
    /\ copyPc \in {"start", "next", "copy", "done", "failed", "crashed"}
    /\ method \in 0..3 /\ repeat \in Nat /\ target \in {1, 2} /\ said \in BOOLEAN
    /\ disk \in [{1, 2} -> Files] /\ before[1] \in [{1, 2} -> Files]
    /\ before[2] \in Nat /\ rd \in Nat /\ wr \in Nat /\ cut \in Nat

TargetInPlace ==
    \A i \in 1..Len(Target) : i <= cut =>
        \/ i <= Len(Copy!Original) /\ Target[i] = Copy!Original[i]
        \/ i <= Len(Copy!Old) /\ Target[i] = Copy!Old[i]

\* What a round that was not disturbed has made of the target.
Copied ==
    \/ Target = Copy!Original
                \o SubSeq(Copy!Old, IF method = 1 THEN Len(Copy!Old) + 1
                                    ELSE Len(Copy!Original) + 1, Len(Copy!Old))
    \/ method = 1 /\ (target = 1 \/ \E i \in 1..Len(Copy!Original) : Copy!Original[i] = 255)
    \/ method # 2 /\ cut < Len(Copy!Original)

NotTooLong == Len(Target) <= Len(Copy!Original) \/ Len(Target) <= Len(Copy!Old)

\* The source stays what it was.  Methods 2 and 3 have copied all up to the
\* offset in the target, which is that in the source until a write of this
\* round is cut short, and from then on what is in front of the cut; method 1
\* the same, with the length of the target for the offset.
CopyInv ==
    /\ CopyTypes
    /\ repeat <= before[2] /\ (copyPc = "done" => repeat = 0)
    /\ copyPc = "copy" =>
          /\ repeat > 0 /\ method # 0 /\ rd <= Len(Source)
          /\ disk[1] # Copy!NoFile /\ disk[target] # Copy!NoFile
    /\ Source = Copy!Original \/ (method = 1 /\ target = 1 /\ Source = <<>>)
    /\ NotTooLong /\ TargetInPlace
    /\ copyPc = "copy" /\ method = 1 =>
          /\ Len(Target) <= rd /\ (Len(Target) = rd \/ cut <= Len(Target))
          /\ \A i \in 1..Len(Target) :
                i <= cut => i <= Len(Copy!Original) /\ Target[i] = Copy!Original[i]
    /\ copyPc = "copy" /\ method # 1 =>
          /\ wr <= rd /\ wr <= Len(Target)
          /\ wr = rd \/ (method = 3 /\ target = 2 /\ cut <= wr)
          /\ \A i \in 1..wr :
                wr = rd \/ i <= cut => i <= Len(Copy!Original) /\ Target[i] = Copy!Original[i]
    /\ method \in {2, 3} =>
          /\ Len(Copy!Old) <= Len(Target)
          /\ \A i \in 1..Len(Target) :
                i > Len(Copy!Original) => i <= Len(Copy!Old) /\ Target[i] = Copy!Old[i]
    /\ copyPc \in {"next", "done"} /\ ~said /\ method # 0 /\ repeat < before[2] =>
          disk[target] # Copy!NoFile /\ Copied

LEMMA NoFileIsNone == Copy!NoFile \notin Seq(Byte)
<1>1. ASSUME NEW s \in Seq(Byte), s = Copy!NoFile
      PROVE  FALSE
  <2>1. s[1] = 0 /\ 1 \in 1..Len(s)
    BY <1>1 DEF Copy!NoFile
  <2> QED BY <2>1 DEF Byte
<1> QED BY <1>1

LEMMA FileBytes ==
    ASSUME NEW s \in Files
    PROVE  /\ Copy!Bytes(s) \in Seq(Byte) /\ Len(Copy!Bytes(s)) \in Nat
           /\ s # Copy!NoFile => s \in Seq(Byte) /\ Copy!Bytes(s) = s
           /\ s = Copy!NoFile => Copy!Bytes(s) = <<>> /\ Len(Copy!Bytes(s)) = 0
<1>1. CASE s = Copy!NoFile
  <2>1. Copy!Bytes(s) = <<>>
    BY <1>1 DEF Copy!Bytes
  <2> QED BY <1>1, <2>1
<1>2. CASE s # Copy!NoFile
  <2>1. Copy!Bytes(s) = s /\ s \in Seq(Byte)
    BY <1>2 DEF Copy!Bytes, Files
  <2> QED BY <1>2, <2>1
<1> QED BY <1>1, <1>2

\* The target gets other contents.
LEMMA TargetIsSet ==
    ASSUME disk \in [{1, 2} -> Files], target \in {1, 2}, target' = target,
           NEW new \in Seq(Byte), disk' = [disk EXCEPT ![target] = new]
    PROVE  /\ disk' \in [{1, 2} -> Files] /\ disk'[target] = new /\ Target' = new
           /\ new # Copy!NoFile
           /\ target = 1 => Source' = new
           /\ target = 2 => Source' = Source /\ disk'[1] = disk[1]
<1>1. new # Copy!NoFile /\ Copy!Bytes(new) = new
  BY NoFileIsNone DEF Copy!Bytes
<1>2. disk' \in [{1, 2} -> Files] /\ disk'[target] = new /\ (target = 2 => disk'[1] = disk[1])
  BY DEF Files
<1> QED BY <1>1, <1>2 DEF Target, Source

LEMMA PartOf ==
    ASSUME NEW s \in Seq(Byte), NEW m \in Nat, NEW n \in 0..Len(s), m > 0
    PROVE  /\ SubSeq(s, m, n) \in Seq(Byte)
           /\ Len(SubSeq(s, m, n)) = IF n < m THEN 0 ELSE n - m + 1
           /\ \A i \in 1..Len(SubSeq(s, m, n)) : SubSeq(s, m, n)[i] = s[i + m - 1]
<1>1. CASE n < m
  BY <1>1
<1>2. CASE n >= m
  BY <1>2
<1> QED BY <1>1, <1>2

LEMMA TwoTogether ==
    ASSUME NEW s \in Seq(Byte), NEW t \in Seq(Byte)
    PROVE  /\ s \o t \in Seq(Byte) /\ Len(s \o t) = Len(s) + Len(t)
           /\ \A i \in 1..Len(s \o t) : /\ i <= Len(s) => (s \o t)[i] = s[i]
                                        /\ i > Len(s) => (s \o t)[i] = t[i - Len(s)]
  OBVIOUS

\* Where the bytes of a file with others put in at wr come from.
LEMMA PutIn ==
    ASSUME NEW s \in Seq(Byte), NEW t \in Seq(Byte), wr \in 0..Len(s)
    PROVE  /\ Copy!Overlay(s, t) \in Seq(Byte)
           /\ wr + Len(t) > Len(s) => Len(Copy!Overlay(s, t)) = wr + Len(t)
           /\ wr + Len(t) <= Len(s) => Len(Copy!Overlay(s, t)) = Len(s)
           /\ \A i \in 1..Len(Copy!Overlay(s, t)) :
                /\ i <= wr => Copy!Overlay(s, t)[i] = s[i]
                /\ i > wr /\ i <= wr + Len(t) => Copy!Overlay(s, t)[i] = t[i - wr]
                /\ i > wr + Len(t) => i <= Len(s) /\ Copy!Overlay(s, t)[i] = s[i]
<1>a. PICK n \in Nat : n = Len(s)
  OBVIOUS
<1>b. PICK k \in Nat : k = Len(t)
  OBVIOUS
<1>c. PICK w \in Nat : w = wr /\ w <= n
  BY <1>a
<1>1. w = wr /\ n = Len(s) /\ k = Len(t) /\ w <= n /\ n \in Nat /\ k \in Nat /\ w \in Nat
  BY <1>a, <1>b, <1>c
<1>2. PICK front : front = SubSeq(s, 1, w)
  OBVIOUS
<1>3. front \in Seq(Byte) /\ Len(front) = w /\ \A i \in 1..w : front[i] = s[i]
  BY <1>1, <1>2, PartOf
<1>4. PICK back : back = SubSeq(s, w + k + 1, n)
  OBVIOUS
<1>5. /\ back \in Seq(Byte) /\ Len(back) \in Nat
      /\ w + k > n => Len(back) = 0
      /\ w + k <= n => Len(back) = n - (w + k)
      /\ \A i \in 1..Len(back) : back[i] = s[i + w + k]
  <2>1. w + k + 1 \in Nat /\ w + k + 1 > 0 /\ n \in 0..Len(s)
    BY <1>1
  <2>2. /\ back \in Seq(Byte) /\ Len(back) = IF n < w + k + 1 THEN 0 ELSE n - (w + k + 1) + 1
        /\ \A i \in 1..Len(back) : back[i] = s[i + (w + k + 1) - 1]
    BY <1>4, <2>1, PartOf
  <2>3. \A i \in Nat : i + (w + k + 1) - 1 = i + w + k
    BY <1>1
  <2>4. (w + k > n => Len(back) = 0) /\ (w + k <= n => Len(back) = n - (w + k))
    <3>1. w + k >= n => n < w + k + 1
      BY <1>1
    <3>2. w + k < n => ~(n < w + k + 1)
      BY <1>1
    <3>3. n - (w + k + 1) + 1 = n - (w + k)
      BY <1>1
    <3>4. w + k = n => n - (w + k) = 0
      BY <1>1
    <3>5. w + k <= n => w + k = n \/ w + k < n
      BY <1>1
    <3> QED BY <2>2, <3>1, <3>2, <3>3, <3>4, <3>5
  <2>5. \A i \in 1..Len(back) : i \in Nat
    OBVIOUS
  <2>6. \A i \in 1..Len(back) : back[i] = s[i + w + k]
    BY <2>2, <2>3, <2>5
  <2> QED BY <2>2, <2>4, <2>6
<1>6. PICK both : both = front \o t
  OBVIOUS
<1>7. /\ both \in Seq(Byte) /\ Len(both) = w + k
      /\ \A i \in 1..w + k : /\ i <= w => both[i] = front[i]
                             /\ i > w => both[i] = t[i - w]
  <2>1. /\ front \o t \in Seq(Byte) /\ Len(front \o t) = Len(front) + Len(t)
        /\ \A i \in 1..Len(front \o t) : /\ i <= Len(front) => (front \o t)[i] = front[i]
                                         /\ i > Len(front) => (front \o t)[i] = t[i - Len(front)]
    BY <1>3, TwoTogether
  <2>2. Len(front) = w /\ Len(t) = k
    BY <1>1, <1>3
  <2> QED BY <1>6, <2>1, <2>2
<1>8. PICK all : all = both \o back
  OBVIOUS
<1>9. /\ all \in Seq(Byte) /\ Len(all) = w + k + Len(back)
      /\ \A i \in 1..Len(all) : /\ i <= w + k => all[i] = both[i]
                                /\ i > w + k => all[i] = back[i - (w + k)]
  <2>1. /\ both \o back \in Seq(Byte) /\ Len(both \o back) = Len(both) + Len(back)
        /\ \A i \in 1..Len(both \o back) : /\ i <= Len(both) => (both \o back)[i] = both[i]
                                           /\ i > Len(both) => (both \o back)[i] = back[i - Len(both)]
    BY <1>5, <1>7, TwoTogether
  <2>2. Len(both) = w + k
    BY <1>7
  <2> QED BY <1>8, <2>1, <2>2
<1>10. all = Copy!Overlay(s, t)
  BY <1>1, <1>2, <1>4, <1>6, <1>8 DEF Copy!Overlay
<1>11. (w + k > n => Len(all) = w + k) /\ (w + k <= n => Len(all) = n)
  <2>1. PICK m \in Nat : m = Len(back)
    BY <1>5
  <2>2. Len(all) = w + k + m /\ (w + k > n => m = 0) /\ (w + k <= n => m = n - (w + k))
    BY <1>5, <1>9, <2>1
  <2> QED BY <1>1, <2>2
<1>12. ASSUME NEW i \in 1..Len(all)
       PROVE  /\ i <= w => all[i] = s[i]
              /\ i > w /\ i <= w + k => all[i] = t[i - w]
              /\ i > w + k => i <= n /\ all[i] = s[i]
  <2>0. i \in Nat /\ i >= 1
    OBVIOUS
  <2>1. i <= w => i \in 1..w + k /\ i \in 1..w /\ i <= w + k
    BY <1>1, <2>0
  <2>2. i > w /\ i <= w + k => i \in 1..w + k
    BY <1>1, <2>0
  <2>3. i > w + k => i <= n /\ i - (w + k) \in 1..Len(back) /\ i - (w + k) + w + k = i
    <3>1. PICK m \in Nat : m = Len(back)
      BY <1>5
    <3>2. i <= w + k + m /\ (w + k > n => m = 0) /\ (w + k <= n => m = n - (w + k))
      BY <1>5, <1>9, <2>0, <3>1
    <3> QED BY <1>1, <2>0, <3>1, <3>2
  <2>4. i <= w => all[i] = s[i]
    BY <1>3, <1>7, <1>9, <2>1
  <2>5. i > w /\ i <= w + k => all[i] = t[i - w]
    BY <1>7, <1>9, <2>2
  <2>6. i > w + k => all[i] = s[i]
    <3>1. i > w + k => all[i] = back[i - (w + k)] /\ back[i - (w + k)] = s[i - (w + k) + w + k]
      BY <1>5, <1>9, <2>3
    <3> QED BY <2>3, <3>1
  <2> QED BY <2>3, <2>4, <2>5, <2>6
<1> QED BY <1>1, <1>9, <1>10, <1>11, <1>12

LEMMA ContentsAreSequences == \A s \in Copy!Contents : s \in Seq(Byte)
  BY DEF Copy!Contents, Byte

LEMMA CopySequences ==
    ASSUME CopyTypes
    PROVE  /\ Target \in Seq(Byte) /\ Len(Target) \in Nat /\ Source \in Seq(Byte) /\ Len(Source) \in Nat
           /\ Copy!Original \in Seq(Byte) /\ Len(Copy!Original) \in Nat
           /\ Copy!Old \in Seq(Byte) /\ Len(Copy!Old) \in Nat
           /\ disk[1] # Copy!NoFile => disk[1] = Source
           /\ disk[target] # Copy!NoFile => disk[target] = Target
           /\ disk[1] = Copy!NoFile => Source = <<>>
           /\ disk[target] = Copy!NoFile => Target = <<>>
<1>1. /\ disk[1] \in Files /\ disk[target] \in Files
      /\ before[1][1] \in Files /\ before[1][target] \in Files
  BY DEF CopyTypes
<1> QED BY <1>1, FileBytes DEF Target, Source, Copy!Original, Copy!Old

\* A step that leaves the files alone.
LEMMA FilesStay ==
    ASSUME UNCHANGED <<disk, before, target, cut>>
    PROVE  /\ Target' = Target /\ Source' = Source
           /\ Copy!Old' = Copy!Old /\ Copy!Original' = Copy!Original
           /\ TargetInPlace' <=> TargetInPlace
           /\ NotTooLong' <=> NotTooLong
           /\ UNCHANGED method => (Copied' <=> Copied)
<1>1. /\ Target' = Target /\ Source' = Source
      /\ Copy!Old' = Copy!Old /\ Copy!Original' = Copy!Original
  BY DEF Target, Source, Copy!Old, Copy!Original
<1> QED BY <1>1, ZenonT(60) DEF TargetInPlace, NotTooLong, Copied

\* Method 1 has copied everything when it comes to the end, and the others too.
LEMMA RoundEnds ==
    ASSUME CopyInv, copyPc = "copy", Len(Source) = rd \/ (method = 1 /\ Source[rd + 1] = 255 /\ rd < Len(Source))
    PROVE  Copied
<1>a. PICK o : o = Copy!Original
  OBVIOUS
<1>b. PICK old : old = Copy!Old
  OBVIOUS
<1>0. CopyTypes
  BY DEF CopyInv
<1>1. /\ Target \in Seq(Byte) /\ Len(Target) \in Nat /\ Source \in Seq(Byte) /\ Len(Source) \in Nat
      /\ o \in Seq(Byte) /\ Len(o) \in Nat /\ old \in Seq(Byte) /\ Len(old) \in Nat
  BY <1>0, <1>a, <1>b, CopySequences
<1>2. /\ method \in 1..3 /\ target \in {1, 2} /\ rd \in Nat /\ wr \in Nat /\ cut \in Nat
      /\ method # 1 \/ target = 2 => Source = o
  BY <1>0, <1>a, <1>b DEF CopyInv, CopyTypes
<1> SUFFICES ASSUME ~(method = 1 /\ (target = 1 \/ \E i \in 1..Len(o) : o[i] = 255)),
                    ~(method # 2 /\ cut < Len(o))
             PROVE  Target = o \o SubSeq(old, IF method = 1 THEN Len(old) + 1 ELSE Len(o) + 1, Len(old))
  BY <1>a, <1>b DEF Copied
<1>3. CASE method = 1
  <2>1. target = 2 /\ Source = o /\ \A i \in 1..Len(o) : o[i] # 255
    BY <1>2, <1>3
  <2>2. rd = Len(o)
    <3>1. rd < Len(Source) => rd + 1 \in 1..Len(o)
      BY <1>1, <1>2, <2>1
    <3> QED BY <2>1, <3>1
  <2>3. /\ Len(Target) <= rd /\ (Len(Target) = rd \/ cut <= Len(Target))
        /\ \A i \in 1..Len(Target) : i <= cut => i <= Len(o) /\ Target[i] = o[i]
    BY <1>3, <1>a DEF CopyInv
  <2>4. Len(Target) = Len(o) /\ \A i \in 1..Len(Target) : i <= cut
    BY <1>1, <1>2, <1>3, <2>2, <2>3
  <2>5. Target = o
    <3>1. Target = [i \in 1..Len(o) |-> Target[i]] /\ o = [i \in 1..Len(o) |-> o[i]]
      BY <1>1, <2>4
    <3>2. \A i \in 1..Len(o) : Target[i] = o[i]
      BY <2>3, <2>4
    <3> QED BY <2>4, <3>1, <3>2
  <2>6. SubSeq(old, Len(old) + 1, Len(old)) = <<>>
    BY <1>1
  <2> QED BY <1>1, <1>3, <2>5, <2>6
<1>4. CASE method # 1
  <2>1. Source = o /\ rd = Len(o) /\ method \in {2, 3}
    BY <1>2, <1>4
  <2>2. /\ wr <= rd /\ wr <= Len(Target) /\ (wr = rd \/ (method = 3 /\ cut <= wr))
        /\ \A i \in 1..wr : wr = rd \/ i <= cut => i <= Len(o) /\ Target[i] = o[i]
        /\ Len(old) <= Len(Target)
        /\ \A i \in 1..Len(Target) : i > Len(o) => i <= Len(old) /\ Target[i] = old[i]
    BY <1>4, <1>a, <1>b, <2>1 DEF CopyInv
  <2>3. wr = Len(o)
    BY <1>1, <1>2, <2>1, <2>2
  <2>4. PICK rest : rest = SubSeq(old, Len(o) + 1, Len(old))
    OBVIOUS
  <2>5. /\ rest \in Seq(Byte) /\ Len(rest) \in Nat
        /\ Len(old) <= Len(o) => Len(rest) = 0
        /\ Len(old) > Len(o) => Len(rest) = Len(old) - Len(o)
        /\ \A i \in 1..Len(rest) : rest[i] = old[i + Len(o)]
    <3>1. Len(o) + 1 \in Nat /\ Len(o) + 1 > 0 /\ Len(old) \in 0..Len(old)
      BY <1>1
    <3>2. /\ rest \in Seq(Byte)
          /\ Len(rest) = IF Len(old) < Len(o) + 1 THEN 0 ELSE Len(old) - (Len(o) + 1) + 1
          /\ \A i \in 1..Len(rest) : rest[i] = old[i + (Len(o) + 1) - 1]
      BY <1>1, <2>4, <3>1, PartOf
    <3>3. /\ Len(old) <= Len(o) => Len(old) < Len(o) + 1
          /\ Len(old) > Len(o) => ~(Len(old) < Len(o) + 1)
          /\ Len(old) - (Len(o) + 1) + 1 = Len(old) - Len(o)
      BY <1>1
    <3>5. ASSUME NEW i \in 1..Len(rest) PROVE rest[i] = old[i + Len(o)]
      <4>1. rest[i] = old[i + (Len(o) + 1) - 1]
        BY <3>2
      <4>2. i + (Len(o) + 1) - 1 = i + Len(o)
        BY <1>1
      <4> QED BY <4>1, <4>2
    <3>6. Len(rest) \in Nat
      BY <3>2
    <3>7. Len(old) <= Len(o) => Len(rest) = 0
      BY <3>2, <3>3
    <3>8. Len(old) > Len(o) => Len(rest) = Len(old) - Len(o)
      BY <3>2, <3>3
    <3> QED BY <3>2, <3>5, <3>6, <3>7, <3>8
  <2>6. PICK all : all = o \o rest
    OBVIOUS
  <2>7. /\ all \in Seq(Byte) /\ Len(all) = Len(o) + Len(rest)
        /\ \A i \in 1..Len(all) : /\ i <= Len(o) => all[i] = o[i]
                                  /\ i > Len(o) => all[i] = rest[i - Len(o)]
    <3>1. /\ o \o rest \in Seq(Byte) /\ Len(o \o rest) = Len(o) + Len(rest)
          /\ \A i \in 1..Len(o \o rest) : /\ i <= Len(o) => (o \o rest)[i] = o[i]
                                          /\ i > Len(o) => (o \o rest)[i] = rest[i - Len(o)]
      BY <1>1, <2>5, TwoTogether
    <3> QED BY <2>6, <3>1
  <2>8. Len(Target) = Len(all)
    <3>1. CASE Len(old) <= Len(o)
      <4>1. Len(all) = Len(o)
        BY <1>1, <2>5, <2>7, <3>1
      <4>2. ~(Len(Target) > Len(o))
        <5>1. Len(Target) > Len(o) => Len(Target) \in 1..Len(Target)
          BY <1>1
        <5>2. Len(Target) > Len(o) => Len(Target) <= Len(old)
          BY <2>2, <5>1
        <5> QED BY <1>1, <3>1, <5>2
      <4> QED BY <1>1, <2>2, <2>3, <4>1, <4>2
    <3>2. CASE Len(old) > Len(o)
      <4>1. Len(all) = Len(old)
        BY <1>1, <2>5, <2>7, <3>2
      <4>2. ~(Len(Target) > Len(old))
        <5>1. Len(Target) > Len(old) => Len(Target) \in 1..Len(Target) /\ Len(Target) > Len(o)
          BY <1>1, <3>2
        <5> QED BY <1>1, <2>2, <5>1
      <4> QED BY <1>1, <2>2, <4>1, <4>2
    <3> QED BY <1>1, <3>1, <3>2
  <2>9. ASSUME NEW i \in 1..Len(all) PROVE Target[i] = all[i]
    <3>0. i \in Nat /\ i >= 1 /\ i <= Len(Target)
      BY <1>1, <2>8, <2>9
    <3>1. CASE i <= Len(o)
      <4>1. i \in 1..wr /\ wr = rd
        BY <1>1, <1>2, <2>1, <2>3, <3>0, <3>1
      <4> QED BY <2>2, <2>7, <2>9, <3>1, <4>1
    <3>2. CASE i > Len(o)
      <4>1. Target[i] = old[i] /\ i <= Len(old)
        BY <2>2, <3>0, <3>2
      <4>2. i - Len(o) \in 1..Len(rest) /\ (i - Len(o)) + Len(o) = i
        BY <1>1, <2>5, <3>0, <3>2, <4>1
      <4>3. all[i] = rest[i - Len(o)] /\ rest[i - Len(o)] = old[(i - Len(o)) + Len(o)]
        BY <2>5, <2>7, <3>2, <4>2
      <4> QED BY <4>1, <4>2, <4>3
    <3> QED BY <1>1, <3>0, <3>1, <3>2
  <2>10. Target = all
    <3>1. Target = [i \in 1..Len(all) |-> Target[i]] /\ all = [i \in 1..Len(all) |-> all[i]]
      BY <1>1, <2>7, <2>8
    <3> QED BY <2>9, <3>1
  <2> QED BY <1>4, <2>4, <2>6, <2>10
<1> QED BY <1>3, <1>4

\* One write: what it could not write is made up for by nobody, which happens
\* to method 3 alone, and not when it copies a file on itself.
LEMMA BlockCopied ==
    ASSUME CopyInv, Copy!CopyBlock
    PROVE  CopyInv'
<1>0. /\ CopyTypes
      /\ Target \in Seq(Byte) /\ Len(Target) \in Nat /\ Source \in Seq(Byte) /\ Len(Source) \in Nat
      /\ Copy!Original \in Seq(Byte) /\ Len(Copy!Original) \in Nat
      /\ Copy!Old \in Seq(Byte) /\ Len(Copy!Old) \in Nat
      /\ disk[1] # Copy!NoFile => disk[1] = Source
      /\ disk[target] # Copy!NoFile => disk[target] = Target
  BY CopySequences DEF CopyInv
<1>1. /\ copyPc = "copy" /\ method # 1 /\ UNCHANGED <<method, repeat, target, said, before>>
  BY DEF Copy!CopyBlock
<1>2. /\ disk[1] = Source /\ disk[target] = Target /\ disk[1] # Copy!NoFile
      /\ repeat > 0 /\ method # 0 /\ rd <= Len(Source) /\ Source = Copy!Original
  BY <1>0, <1>1 DEF CopyInv
<1>3. /\ wr <= rd /\ wr <= Len(Target)
      /\ wr = rd \/ (method = 3 /\ target = 2 /\ cut <= wr)
      /\ \A i \in 1..wr :
            wr = rd \/ i <= cut => i <= Len(Copy!Original) /\ Target[i] = Copy!Original[i]
  BY <1>1 DEF CopyInv
<1>4. /\ method \in {2, 3} /\ target \in {1, 2} /\ repeat \in Nat
      /\ rd \in Nat /\ wr \in Nat /\ cut \in Nat
  BY <1>0, <1>1, <1>2 DEF CopyTypes
<1>5. /\ NotTooLong /\ TargetInPlace
      /\ Len(Copy!Old) <= Len(Target)
      /\ \A i \in 1..Len(Target) :
            i > Len(Copy!Original) => i <= Len(Copy!Old) /\ Target[i] = Copy!Old[i]
  BY <1>4 DEF CopyInv
<1>6. Copy!Old' = Copy!Old /\ Copy!Original' = Copy!Original
  BY <1>1 DEF Copy!Old, Copy!Original
<1>7e. PICK most : most = Copy!Chunk
  OBVIOUS
<1>7. most \in Nat /\ most >= 1 /\ (method = 2 => most = 1)
  BY <1>4, <1>7e, ConstantsAssumption DEF Copy!Chunk, Copy!FileCopyAssumption
<1>a. PICK len \in Nat : len = Len(Target)
  BY <1>0
<1>b. PICK all \in Nat : all = Len(Source) /\ all = Len(Copy!Original)
  BY <1>0, <1>2
<1>c. rd <= all /\ wr <= rd /\ wr <= len /\ (wr = rd \/ (method = 3 /\ target = 2 /\ cut <= wr))
  BY <1>2, <1>3, <1>a, <1>b
<1>8e. PICK have : have = Copy!Left
  OBVIOUS
<1>8. have = all - rd /\ have > 0 /\ have \in Nat
  <2>1. Copy!Left = all - rd /\ Copy!Left > 0
    BY <1>2, <1>b DEF Copy!CopyBlock, Copy!Left
  <2>2. have = all - rd /\ have > 0
    BY <1>8e, <2>1
  <2> QED BY <1>4, <1>c, <2>2
<1>9e. PICK much : much = Copy!Least(most, have)
  OBVIOUS
<1>9. much \in Nat /\ much >= 1 /\ much <= have /\ (method = 2 => much = 1)
  <2>1. much = IF most < have THEN most ELSE have
    BY <1>9e DEF Copy!Least
  <2> QED BY <1>7, <1>8, <2>1
<1>10. PICK over \in Nat : over = len - wr
  BY <1>4, <1>c
<1>11e. PICK least : least = Copy!Least(much, over)
  OBVIOUS
<1>12. least \in Nat /\ least <= much /\ (least = much \/ least = over)
  <2>1. least = IF much < over THEN much ELSE over
    BY <1>11e DEF Copy!Least
  <2> QED BY <1>9, <1>10, <2>1
<1>13. PICK n \in least..much :
       /\ n = 0 => copyPc' = "failed" /\ UNCHANGED <<disk, rd, wr, cut>>
       /\ n # 0 => /\ disk' = [disk EXCEPT ![target] =
                                 Copy!Overlay(@, SubSeq(disk[1], rd + 1, rd + n))]
                   /\ rd' = rd + much /\ wr' = wr + n
                   /\ cut' = IF n < much THEN Copy!Least(cut, wr') ELSE cut
                   /\ UNCHANGED copyPc
  <2>1. Copy!Least(Copy!Chunk, Copy!Left) = much
    BY <1>7e, <1>8e, <1>9e
  <2>2. Len(disk[target]) - wr = over
    BY <1>2, <1>10, <1>a
  <2> QED BY <1>11e, <2>1, <2>2 DEF Copy!CopyBlock
<1>11. n \in Nat /\ n <= much /\ least <= n
  BY <1>9, <1>12
<1>d. rd + much \in Nat /\ rd + much <= all /\ rd + n \in Nat /\ rd + n <= rd + much
  <2>1. rd \in Nat /\ all \in Nat /\ have \in Nat /\ have = all - rd
    BY <1>4, <1>8
  <2>2. much \in Nat /\ n \in Nat /\ n <= much /\ much <= have
    BY <1>9, <1>11
  <2> QED BY <2>1, <2>2
<1>14. CASE n = 0
  <2>1. CopyTypes'
    BY <1>0, <1>1, <1>13, <1>14 DEF CopyTypes
  <2> QED BY <1>1, <1>4, <1>13, <1>14, <2>1, FilesStay DEF CopyInv
<1>15. CASE n # 0
  <2>0. n >= 1 /\ wr + n \in Nat /\ wr + n <= rd + much
    BY <1>4, <1>9, <1>11, <1>15, <1>c
  <2>1. PICK put : put = SubSeq(Source, rd + 1, rd + n)
    OBVIOUS
  <2>2. /\ put \in Seq(Byte) /\ Len(put) = n
        /\ \A i \in 1..n : put[i] = Source[i + rd]
    <3>1. rd + n \in 0..Len(Source)
      <4>1. rd + n \in 0..all
        BY <1>d
      <4> QED BY <1>b, <4>1
    <3>2. PICK first : first = rd + 1
      OBVIOUS
    <3>3. PICK last : last = rd + n
      OBVIOUS
    <3>4. first \in Nat /\ first > 0 /\ last \in 0..Len(Source) /\ last - first + 1 = n /\ ~(last < first)
      BY <1>4, <1>11, <2>0, <3>1, <3>2, <3>3
    <3>5. PICK whole : whole = Source
      OBVIOUS
    <3>6. whole \in Seq(Byte) /\ last \in 0..Len(whole)
      BY <1>0, <3>4, <3>5
    <3>7. /\ SubSeq(whole, first, last) \in Seq(Byte)
          /\ Len(SubSeq(whole, first, last)) = IF last < first THEN 0 ELSE last - first + 1
          /\ \A i \in 1..Len(SubSeq(whole, first, last)) :
                SubSeq(whole, first, last)[i] = whole[i + first - 1]
      BY <3>4, <3>6, PartOf
    <3>8. put = SubSeq(whole, first, last)
      BY <2>1, <3>2, <3>3, <3>5
    <3>9. put \in Seq(Byte) /\ Len(put) = n /\ \A i \in 1..Len(put) : put[i] = whole[i + first - 1]
      BY <3>4, <3>7, <3>8
    <3>10. ASSUME NEW i \in 1..n PROVE put[i] = Source[i + rd]
      <4>1. i + first - 1 = i + rd
        BY <1>4, <3>2
      <4>2. put[i] = whole[i + first - 1]
        BY <3>9
      <4> QED BY <3>5, <4>1, <4>2
    <3> QED BY <3>9, <3>10
  <2>3. PICK new : new = Copy!Overlay(Target, put)
    OBVIOUS
  <2>4. /\ new \in Seq(Byte)
        /\ wr + n > Len(Target) => Len(new) = wr + n
        /\ wr + n <= Len(Target) => Len(new) = Len(Target)
        /\ \A i \in 1..Len(new) :
             /\ i <= wr => new[i] = Target[i]
             /\ i > wr /\ i <= wr + n => new[i] = put[i - wr]
             /\ i > wr + n => i <= Len(Target) /\ new[i] = Target[i]
    <3>1. wr \in 0..Len(Target)
      BY <1>0, <1>3, <1>4
    <3>2. /\ Copy!Overlay(Target, put) \in Seq(Byte)
          /\ wr + Len(put) > Len(Target) => Len(Copy!Overlay(Target, put)) = wr + Len(put)
          /\ wr + Len(put) <= Len(Target) => Len(Copy!Overlay(Target, put)) = Len(Target)
          /\ \A i \in 1..Len(Copy!Overlay(Target, put)) :
               /\ i <= wr => Copy!Overlay(Target, put)[i] = Target[i]
               /\ i > wr /\ i <= wr + Len(put) => Copy!Overlay(Target, put)[i] = put[i - wr]
               /\ i > wr + Len(put) => i <= Len(Target) /\ Copy!Overlay(Target, put)[i] = Target[i]
      BY <1>0, <2>2, <3>1, PutIn
    <3>3. Len(put) = n
      BY <2>2
    <3> QED BY <2>3, <3>2, <3>3
  <2>5. Len(new) \in Nat /\ Len(new) >= wr + n /\ Len(new) >= Len(Target)
    BY <1>0, <1>4, <1>11, <2>4
  <2>6. disk' = [disk EXCEPT ![target] = new]
    BY <1>2, <1>13, <1>15, <2>1, <2>3
  <2>7. /\ disk' \in [{1, 2} -> Files] /\ disk'[target] # Copy!NoFile /\ Target' = new
        /\ target = 1 => Source' = new
        /\ target = 2 => Source' = Source /\ disk'[1] = disk[1]
    BY <1>0, <1>1, <1>4, <2>4, <2>6, TargetIsSet DEF CopyTypes
  <2>8. /\ cut' \in Nat /\ cut' <= cut /\ (cut' = cut \/ cut' <= wr + n)
        /\ wr + n = rd + much \/ (method = 3 /\ target = 2 /\ cut' <= wr + n)
        /\ wr + n = rd + much => wr = rd /\ cut' = cut
    <3>1. cut' = IF n < much THEN Copy!Least(cut, wr + n) ELSE cut
      BY <1>13, <1>15
    <3>2. Copy!Least(cut, wr + n) = IF cut < wr + n THEN cut ELSE wr + n
      BY DEF Copy!Least
    <3>3. n < much => method = 3 /\ target = 2
      <4>1. method = 2 => ~(n < much)
        BY <1>9, <1>11, <2>0
      <4>2. CASE target = 1
        <5>1. wr = rd /\ Target = Source
          BY <1>3, <4>2 DEF Target, Source
        <5>2. over = have
          BY <1>8, <1>10, <1>a, <1>b, <5>1
        <5>3. least = much
          BY <1>9, <1>12, <5>2
        <5> QED BY <1>9, <1>11, <5>3
      <4> QED BY <1>4, <4>1, <4>2
    <3>4. CASE n < much
      <4>1. cut' = IF cut < wr + n THEN cut ELSE wr + n
        BY <3>1, <3>2, <3>4
      <4>2. cut' \in Nat /\ cut' <= cut /\ cut' <= wr + n
        BY <1>4, <2>0, <4>1
      <4>3. wr + n # rd + much
        BY <1>4, <1>9, <1>11, <1>c, <3>4
      <4> QED BY <3>3, <3>4, <4>2, <4>3
    <3>5. CASE ~(n < much)
      <4>1. cut' = cut /\ n = much
        BY <1>9, <1>11, <3>1, <3>5
      <4>2. wr + n = rd + much => wr = rd
        BY <1>4, <1>9, <4>1
      <4>3. wr = rd => wr + n = rd + much
        BY <1>4, <4>1
      <4>4. cut <= wr => cut' <= wr + n
        BY <1>4, <1>11, <4>1
      <4>5. cut' \in Nat /\ cut' <= cut
        BY <1>4, <4>1
      <4> QED BY <1>c, <4>1, <4>2, <4>3, <4>4, <4>5
    <3> QED BY <3>4, <3>5
  <2>9. ASSUME NEW i \in 1..wr + n, wr + n = rd + much \/ i <= cut'
        PROVE  i <= Len(Copy!Original) /\ new[i] = Copy!Original[i]
    <3>1. i \in 1..Len(new) /\ i <= Len(Copy!Original)
      <4>1. wr + n \in Nat /\ wr + n <= all
        BY <1>d, <2>0
      <4>2. i \in Nat /\ i >= 1 /\ i <= wr + n
        BY <1>4
      <4> QED BY <1>4, <1>b, <2>5, <4>1, <4>2
    <3>0. wr = rd \/ i <= cut
      BY <1>4, <2>8, <2>9
    <3>2. CASE i <= wr
      <4>1. i \in 1..wr
        BY <1>4, <3>2
      <4> QED BY <1>3, <2>4, <3>0, <3>1, <3>2, <4>1
    <3>3. CASE i > wr
      <4>0. wr = rd
        BY <1>4, <1>c, <3>0, <3>3
      <4>1. i - wr \in 1..n /\ (i - wr) + rd = i
        BY <1>4, <1>11, <3>3, <4>0
      <4>2. new[i] = put[i - wr]
        BY <2>4, <3>1, <3>3
      <4>3. put[i - wr] = Source[(i - wr) + rd]
        BY <2>2, <4>1
      <4> QED BY <1>2, <3>1, <4>1, <4>2, <4>3
    <3> QED BY <1>4, <3>2, <3>3
  <2>10. ASSUME NEW i \in 1..Len(new)
         PROVE  \/ i \in 1..wr + n
                \/ i > wr + n /\ i \in 1..Len(Target) /\ new[i] = Target[i]
    <3>1. i <= wr + n => i \in 1..wr + n
      BY <1>4
    <3>2. i > wr + n => i \in 1..Len(Target) /\ new[i] = Target[i]
      <4>1. i > wr + n => i <= Len(Target) /\ new[i] = Target[i]
        BY <2>4
      <4> QED BY <1>0, <4>1
    <3>3. i <= wr + n \/ i > wr + n
      BY <1>4, <1>11
    <3> QED BY <3>1, <3>2, <3>3
  <2>11. TargetInPlace'
    <3>1. ASSUME NEW i \in 1..Len(new), i <= cut'
          PROVE  \/ i <= Len(Copy!Original) /\ new[i] = Copy!Original[i]
                 \/ i <= Len(Copy!Old) /\ new[i] = Copy!Old[i]
      <4>1. i <= cut
        BY <1>4, <2>8, <3>1
      <4> QED BY <1>5, <2>9, <2>10, <3>1, <4>1 DEF TargetInPlace
    <3> QED BY <1>6, <2>7, <3>1 DEF TargetInPlace
  <2>12. \A i \in 1..Len(new) :
            i > Len(Copy!Original) => i <= Len(Copy!Old) /\ new[i] = Copy!Old[i]
    <3> SUFFICES ASSUME NEW i \in 1..Len(new), i > Len(Copy!Original)
                 PROVE  i <= Len(Copy!Old) /\ new[i] = Copy!Old[i]
      OBVIOUS
    <3>1. i \notin 1..wr + n
      BY <1>b, <1>d, <2>0
    <3>2. i \in 1..Len(Target) /\ new[i] = Target[i]
      BY <2>10, <3>1
    <3> QED BY <1>5, <3>2
  <2>13. Source' = Copy!Original
    <3>1. CASE target = 2
      BY <1>2, <2>7, <3>1
    <3>2. CASE target = 1
      <4>1. Target = Copy!Original /\ Copy!Old = Copy!Original
        BY <1>2, <3>2 DEF Source, Target, Copy!Old, Copy!Original
      <4>0. wr + n = rd + much
        BY <2>8, <3>2
      <4>2. wr + n <= Len(Target)
        BY <1>b, <1>d, <2>0, <4>1
      <4>3. Len(new) = Len(Copy!Original)
        BY <2>4, <4>1, <4>2
      <4>4. \A i \in 1..Len(new) : new[i] = Copy!Original[i]
        BY <2>9, <2>10, <4>0, <4>1
      <4>5. new = [i \in 1..Len(new) |-> new[i]]
        BY <2>4
      <4>6. Copy!Original = [i \in 1..Len(new) |-> Copy!Original[i]]
        BY <1>0, <4>3
      <4>7. new = Copy!Original
        BY <4>4, <4>5, <4>6
      <4> QED BY <2>7, <3>2, <4>7
    <3> QED BY <1>4, <3>1, <3>2
  <2>14. /\ rd' = rd + much /\ wr' = wr + n /\ copyPc' = "copy" /\ repeat' = repeat
         /\ method' = method /\ target' = target /\ before' = before /\ said' = said
    BY <1>1, <1>13, <1>15
  <2>15. /\ rd' \in Nat /\ wr' \in Nat /\ wr' <= rd' /\ wr' <= Len(new) /\ rd' <= Len(Copy!Original)
         /\ wr' = rd' \/ (method = 3 /\ target = 2 /\ cut' <= wr')
    <3>1. rd + much \in Nat /\ wr + n \in Nat /\ wr + n <= rd + much /\ rd + much <= all
      BY <1>4, <1>d, <2>0
    <3> QED BY <1>b, <2>5, <2>8, <2>14, <3>1
  <2>16. CopyTypes'
    BY <1>0, <2>7, <2>8, <2>14, <2>15 DEF CopyTypes
  <2>17. disk'[1] # Copy!NoFile
    BY <1>2, <1>4, <2>7
  <2>18. repeat' <= before'[2]
    BY <2>14 DEF CopyInv
  <2>19. NotTooLong'
    <3>1. Len(new) = wr + n \/ Len(new) = Len(Target)
      BY <1>0, <1>4, <2>0, <2>4
    <3>2. wr + n <= Len(Copy!Original)
      BY <1>b, <1>d, <2>0
    <3> QED BY <1>5, <1>6, <2>7, <3>1, <3>2 DEF NotTooLong
  <2>20. Len(Copy!Old) <= Len(new)
    BY <1>0, <1>5, <2>5
  <2>21. \A i \in 1..wr' :
            wr' = rd' \/ i <= cut' => i <= Len(Copy!Original) /\ new[i] = Copy!Original[i]
    BY <2>9, <2>14
  <2> QED
    BY <1>1, <1>2, <1>4, <1>6, <2>7, <2>11, <2>12, <2>13, <2>14, <2>15, <2>16, <2>17, <2>18, <2>19,
       <2>20, <2>21 DEF CopyInv
<1> QED BY <1>14, <1>15

\* Opening the target, whether or not the source can be opened behind it.
LEMMA TargetIsMade ==
    ASSUME CopyInv, Copy!MakeTarget, UNCHANGED <<method, target, cut, before>>
    PROVE  /\ disk' \in [{1, 2} -> Files] /\ disk'[target] # Copy!NoFile
           /\ target = 2 => Source' = Source /\ disk'[1] = disk[1]
           /\ IF method = 1 THEN Target' = <<>> /\ Len(Target') = 0 ELSE Target' = Target
           /\ Copy!Old' = Copy!Old /\ Copy!Original' = Copy!Original
           /\ Source' = Copy!Original \/ (method = 1 /\ target = 1 /\ Source' = <<>>)
           /\ TargetInPlace' /\ NotTooLong'
<1>0. /\ CopyTypes
      /\ Target \in Seq(Byte) /\ Len(Target) \in Nat
      /\ Len(Copy!Original) \in Nat /\ Len(Copy!Old) \in Nat
      /\ disk[target] # Copy!NoFile => disk[target] = Target
      /\ disk[target] = Copy!NoFile => Target = <<>>
  BY CopySequences DEF CopyInv
<1>1. <<>> \in Seq(Byte) /\ Len(<<>>) = 0
  OBVIOUS
<1>2. PICK new \in Seq(Byte) : /\ disk' = [disk EXCEPT ![target] = new]
                              /\ new = IF method = 1 THEN <<>> ELSE Target
  <2>1. CASE method = 1 \/ disk[target] = Copy!NoFile
    BY <1>0, <1>1, <2>1 DEF Copy!MakeTarget
  <2>2. CASE method # 1 /\ disk[target] # Copy!NoFile
    BY <1>0, <2>2 DEF Copy!MakeTarget
  <2> QED BY <2>1, <2>2
<1>3. /\ disk' \in [{1, 2} -> Files] /\ disk'[target] # Copy!NoFile /\ Target' = new
      /\ target = 1 => Source' = new
      /\ target = 2 => Source' = Source /\ disk'[1] = disk[1]
  BY <1>0, <1>2, TargetIsSet DEF CopyTypes
<1>4. Copy!Old' = Copy!Old /\ Copy!Original' = Copy!Original
  BY DEF Copy!Old, Copy!Original
<1>5. target = 1 => Source = Target
  BY DEF Source, Target
<1>6. /\ Source' = Copy!Original \/ (method = 1 /\ target = 1 /\ Source' = <<>>)
      /\ target \in {1, 2}
  BY <1>0, <1>2, <1>3, <1>5 DEF CopyInv, CopyTypes
<1>7. IF method = 1 THEN Target' = <<>> /\ Len(Target') = 0 ELSE Target' = Target
  BY <1>1, <1>2, <1>3
<1>8. TargetInPlace'
  <2>1. CASE method = 1
    <3>1. 1..Len(Target') = {}
      BY <1>7, <2>1
    <3> QED BY <3>1 DEF TargetInPlace
  <2>2. CASE method # 1
    <3>1. Target' = Target /\ cut' = cut /\ TargetInPlace
      BY <1>7, <2>2 DEF CopyInv
    <3> QED BY <1>4, <3>1 DEF TargetInPlace
  <2> QED BY <2>1, <2>2
<1>9. NotTooLong'
  BY <1>0, <1>4, <1>7 DEF CopyInv, NotTooLong
<1> QED BY <1>3, <1>4, <1>6, <1>7, <1>8, <1>9

LEMMA CopyStep == CopyInv /\ [Copy!Next]_copyVars => CopyInv'
<1> SUFFICES ASSUME CopyInv, [Copy!Next]_copyVars PROVE CopyInv'
  OBVIOUS
<1>0. /\ CopyTypes
      /\ Target \in Seq(Byte) /\ Len(Target) \in Nat /\ Source \in Seq(Byte) /\ Len(Source) \in Nat
      /\ Len(Copy!Original) \in Nat /\ Len(Copy!Old) \in Nat
      /\ disk[1] # Copy!NoFile => disk[1] = Source
      /\ disk[target] # Copy!NoFile => disk[target] = Target
      /\ disk[1] = Copy!NoFile => Source = <<>>
      /\ disk[target] = Copy!NoFile => Target = <<>>
  BY CopySequences DEF CopyInv
<1>1. CASE UNCHANGED copyVars
  <2>1. UNCHANGED <<copyPc, method, repeat, target, disk, rd, wr, cut, said, before>>
    BY <1>1 DEF copyVars
  <2>2. CopyTypes'
    BY <2>1 DEF CopyInv, CopyTypes
  <2> QED BY <2>1, <2>2, FilesStay DEF CopyInv
<1>2. CASE Copy!Start
  <2>1. PICK one \in Copy!Contents \cup {Copy!NoFile}, two \in Copy!Contents \cup {Copy!NoFile} :
            disk' = <<one, two>>
    BY <1>2 DEF Copy!Start
  <2>2. /\ copyPc' = "next" /\ method' \in 0..3 /\ target' \in {1, 2} /\ UNCHANGED <<rd, wr, cut, said>>
        /\ repeat' \in Nat
    BY <1>2, ConstantsAssumption DEF Copy!Start, Copy!FileCopyAssumption
  <2>3. before'[1] = disk' /\ before'[2] = repeat'
    BY <1>2 DEF Copy!Start
  <2>4. disk' \in [{1, 2} -> Files]
    <3>1. one \in Files /\ two \in Files
      BY ContentsAreSequences DEF Files
    <3> QED BY <2>1, <3>1
  <2>5. CopyTypes'
    BY <1>0, <2>2, <2>3, <2>4 DEF CopyTypes
  <2>6. Copy!Old' = Target' /\ Copy!Original' = Source'
    BY <2>3 DEF Copy!Old, Copy!Original, Target, Source
  <2>7. Len(Target') \in Nat /\ (method' # 0 => method' \in 1..3)
    <3>1. disk'[target'] \in Files
      BY <2>2, <2>4
    <3> QED BY <3>1, <2>2, FileBytes DEF Target
  <2>8. TargetInPlace' /\ NotTooLong'
    BY <2>6, <2>7 DEF TargetInPlace, NotTooLong
  <2> QED BY <2>2, <2>3, <2>5, <2>6, <2>7, <2>8 DEF CopyInv
<1>3. CASE Copy!Finish
  <2>1. /\ copyPc = "next" /\ repeat = 0 /\ copyPc' = "done"
        /\ UNCHANGED <<method, repeat, target, disk, rd, wr, cut, said, before>>
    BY <1>3 DEF Copy!Finish
  <2>2. CopyTypes'
    BY <1>0, <2>1 DEF CopyTypes
  <2> QED BY <2>1, <2>2, FilesStay DEF CopyInv
<1>4. CASE Copy!WrongInputs
  <2>1. /\ copyPc = "next" /\ repeat > 0 /\ method = 0 /\ copyPc' = "next" /\ repeat' = repeat - 1
        /\ UNCHANGED <<method, target, disk, rd, wr, cut, said, before>>
    BY <1>4 DEF Copy!WrongInputs, Copy!Again
  <2>2. CopyTypes' /\ repeat' <= before'[2]
    BY <1>0, <2>1 DEF CopyTypes, CopyInv
  <2> QED BY <2>1, <2>2, FilesStay DEF CopyInv
<1>5. ASSUME Copy!CannotOpen, copyPc = "next", repeat > 0, method # 0
      PROVE  /\ copyPc' \in {"next", "crashed"} /\ repeat' \in Nat /\ repeat' <= before[2] /\ said' \in BOOLEAN
             /\ copyPc' = "next" => said' = TRUE
  <2>1. repeat \in Nat /\ repeat <= before[2] /\ before[2] \in Nat /\ said \in BOOLEAN
    BY <1>0 DEF CopyInv, CopyTypes
  <2>2. CASE method = 1
    BY <1>5, <2>1, <2>2 DEF Copy!CannotOpen
  <2>3. CASE method # 1
    BY <1>5, <2>1, <2>3 DEF Copy!CannotOpen, Copy!Again
  <2> QED BY <2>2, <2>3
<1>6. CASE Copy!OpenFails
  <2>1. /\ copyPc = "next" /\ repeat > 0 /\ method # 0 /\ Copy!CannotOpen
        /\ UNCHANGED <<method, target, rd, wr, cut, before>>
        /\ UNCHANGED disk \/ Copy!MakeTarget
    BY <1>6 DEF Copy!OpenFails
  <2>2. CASE UNCHANGED disk
    <3>1. CopyTypes'
      BY <1>0, <1>5, <2>1, <2>2 DEF CopyTypes
    <3> QED BY <1>5, <2>1, <2>2, <3>1, FilesStay DEF CopyInv
  <2>3. CASE Copy!MakeTarget
    <3>1. /\ disk' \in [{1, 2} -> Files]
          /\ IF method = 1 THEN Target' = <<>> /\ Len(Target') = 0 ELSE Target' = Target
          /\ Copy!Old' = Copy!Old /\ Copy!Original' = Copy!Original
          /\ Source' = Copy!Original \/ (method = 1 /\ target = 1 /\ Source' = <<>>)
          /\ TargetInPlace' /\ NotTooLong'
      BY <2>1, <2>3, TargetIsMade
    <3>2. CopyTypes'
      BY <1>0, <1>5, <2>1, <3>1 DEF CopyTypes
    <3>3. method \in {2, 3} =>
              /\ Len(Copy!Old) <= Len(Target')
              /\ \A i \in 1..Len(Target') :
                    i > Len(Copy!Original) => i <= Len(Copy!Old) /\ Target'[i] = Copy!Old[i]
      BY <3>1 DEF CopyInv
    <3>4. copyPc' # "copy" /\ copyPc' # "done"
      BY <1>5, <2>1
    <3> QED BY <1>5, <2>1, <3>1, <3>2, <3>3, <3>4 DEF CopyInv
  <2> QED BY <2>1, <2>2, <2>3
<1>7. CASE Copy!Open
  <2>1. /\ copyPc = "next" /\ repeat > 0 /\ method # 0 /\ rd' = 0 /\ wr' = 0
        /\ Copy!MakeTarget /\ UNCHANGED <<method, target, cut, before>>
        /\ disk[1] = Copy!NoFile => Copy!CannotOpen
        /\ disk[1] # Copy!NoFile => copyPc' = "copy" /\ UNCHANGED <<repeat, said>>
    BY <1>7 DEF Copy!Open
  <2>2. /\ disk' \in [{1, 2} -> Files] /\ disk'[target] # Copy!NoFile
        /\ target = 2 => Source' = Source /\ disk'[1] = disk[1]
        /\ IF method = 1 THEN Target' = <<>> /\ Len(Target') = 0 ELSE Target' = Target
        /\ Copy!Old' = Copy!Old /\ Copy!Original' = Copy!Original
        /\ Source' = Copy!Original \/ (method = 1 /\ target = 1 /\ Source' = <<>>)
        /\ TargetInPlace' /\ NotTooLong'
    BY <2>1, TargetIsMade
  <2>3. /\ repeat' \in Nat /\ repeat' <= before[2] /\ said' \in BOOLEAN
        /\ copyPc' \in {"next", "crashed", "copy"}
        /\ copyPc' = "copy" => disk[1] # Copy!NoFile /\ repeat' > 0
        /\ copyPc' = "next" => said' = TRUE
    <3>1. repeat \in Nat /\ repeat <= before[2] /\ said \in BOOLEAN
      BY <1>0 DEF CopyInv, CopyTypes
    <3>2. CASE disk[1] = Copy!NoFile
      BY <1>5, <2>1, <3>2
    <3>3. CASE disk[1] # Copy!NoFile
      BY <2>1, <3>1, <3>3
    <3> QED BY <3>2, <3>3
  <2>4. CopyTypes'
    BY <1>0, <2>1, <2>2, <2>3 DEF CopyTypes
  <2>5. copyPc' = "copy" => disk'[1] # Copy!NoFile
    <3>1. target \in {1, 2}
      BY <1>0 DEF CopyTypes
    <3> QED BY <2>2, <2>3, <3>1
  <2>6. Len(Source') \in Nat /\ Len(Target') \in Nat
    <3>1. Source' \in Seq(Byte) /\ Target' \in Seq(Byte)
      <4>1. disk'[1] \in Files /\ disk'[target] \in Files /\ target' = target
        BY <1>0, <2>1, <2>2 DEF CopyTypes
      <4> QED BY <4>1, FileBytes DEF Source, Target
    <3> QED BY <3>1
  <2>7. method \in {2, 3} =>
            /\ Len(Copy!Old) <= Len(Target')
            /\ \A i \in 1..Len(Target') :
                  i > Len(Copy!Original) => i <= Len(Copy!Old) /\ Target'[i] = Copy!Old[i]
    BY <2>2 DEF CopyInv
  <2> QED BY <2>1, <2>2, <2>3, <2>4, <2>5, <2>6, <2>7 DEF CopyInv
<1>8. CASE Copy!CopyChar
  <2>1. /\ copyPc = "copy" /\ method = 1 /\ Len(disk[1]) - rd > 0 /\ rd' = rd + 1
        /\ UNCHANGED <<copyPc, method, repeat, target, wr, said, before>>
        /\ \/ disk' = [disk EXCEPT ![target] = Append(@, disk[1][rd + 1])] /\ UNCHANGED cut
           \/ cut' = Copy!Least(cut, Len(disk[target])) /\ UNCHANGED disk
    BY <1>8 DEF Copy!CopyChar, Copy!Left
  <2>2. /\ disk[1] = Source /\ disk[target] = Target /\ disk[1] # Copy!NoFile /\ disk[target] # Copy!NoFile
        /\ Len(Target) <= rd /\ (Len(Target) = rd \/ cut <= Len(Target))
        /\ \A i \in 1..Len(Target) :
              i <= cut => i <= Len(Copy!Original) /\ Target[i] = Copy!Original[i]
        /\ repeat > 0
    BY <1>0, <2>1 DEF CopyInv
  <2>3. rd \in Nat /\ cut \in Nat /\ target \in {1, 2} /\ rd + 1 \in 1..Len(Source) /\ Source[rd + 1] \in Byte
    BY <1>0, <2>1, <2>2, SMTT(30) DEF CopyTypes
  <2>4. target = 2 /\ Source = Copy!Original
    <3>1. target = 1 => Source = Target
      BY DEF Source, Target
    <3>2. target # 1
      BY <1>0, <2>2, <2>3, <3>1
    <3> QED BY <2>3, <3>2 DEF CopyInv
  <2>5. Copy!Old' = Copy!Old /\ Copy!Original' = Copy!Original
    BY <2>1 DEF Copy!Old, Copy!Original
  <2>6. CASE disk' = [disk EXCEPT ![target] = Append(@, disk[1][rd + 1])] /\ UNCHANGED cut
    <3>1. PICK new \in Seq(Byte) : /\ new = Append(Target, Source[rd + 1])
                                   /\ Len(new) = Len(Target) + 1 /\ new[Len(new)] = Source[rd + 1]
                                   /\ \A i \in 1..Len(Target) : new[i] = Target[i]
      <4>1. PICK old \in Seq(Byte), byte \in Byte : old = Target /\ byte = Source[rd + 1]
        BY <1>0, <2>3
      <4>2. /\ Append(old, byte) \in Seq(Byte) /\ Len(Append(old, byte)) = Len(old) + 1
            /\ Append(old, byte)[Len(old) + 1] = byte
            /\ \A i \in 1..Len(old) : Append(old, byte)[i] = old[i]
        OBVIOUS
      <4> QED BY <4>1, <4>2
    <3>2. disk' = [disk EXCEPT ![target] = new]
      BY <2>1, <2>2, <2>3, <2>6, <3>1
    <3>3. /\ disk' \in [{1, 2} -> Files] /\ disk'[target] # Copy!NoFile /\ Target' = new
          /\ Source' = Source /\ disk'[1] = disk[1]
      BY <1>0, <2>1, <2>4, <3>2, TargetIsSet DEF CopyTypes
    <3>4. CopyTypes'
      BY <1>0, <2>1, <2>3, <2>6, <3>3 DEF CopyTypes
    <3>5. /\ Len(new) <= rd + 1 /\ (Len(new) = rd + 1 \/ cut <= Len(new)) /\ Len(new) \in Nat
          /\ rd + 1 <= Len(Source)
      BY <1>0, <2>2, <2>3, <3>1
    <3>6. NotTooLong'
      BY <1>0, <2>3, <2>4, <2>5, <3>3, <3>5 DEF NotTooLong
    <3>7. ASSUME NEW i \in 1..Len(new), i <= cut
          PROVE  i <= Len(Copy!Original) /\ new[i] = Copy!Original[i]
      <4>1. i \in 1..Len(Target) \/ i = Len(new)
        BY <1>0, <3>1
      <4>2. CASE i \in 1..Len(Target)
        BY <2>2, <3>1, <3>7, <4>2
      <4>3. CASE i = Len(new)
        <5>1. Len(Target) = rd
          BY <1>0, <2>2, <2>3, <3>1, <3>7, <4>3
        <5>2. i = rd + 1 /\ new[i] = Source[rd + 1]
          BY <3>1, <4>3, <5>1
        <5> QED BY <2>3, <2>4, <5>2
      <4> QED BY <4>1, <4>2, <4>3
    <3>8. TargetInPlace'
      BY <2>5, <2>6, <3>3, <3>7 DEF TargetInPlace
    <3> QED BY <2>1, <2>2, <2>4, <2>5, <2>6, <3>3, <3>4, <3>5, <3>6, <3>7, <3>8 DEF CopyInv
  <2>7. CASE cut' = Copy!Least(cut, Len(disk[target])) /\ UNCHANGED disk
    <3>1. cut' \in Nat /\ cut' <= cut /\ cut' <= Len(Target)
      <4>1. cut' = IF cut < Len(Target) THEN cut ELSE Len(Target)
        BY <2>2, <2>7 DEF Copy!Least
      <4> QED BY <1>0, <2>3, <4>1
    <3>2. CopyTypes'
      BY <1>0, <2>1, <2>3, <2>7, <3>1 DEF CopyTypes
    <3>3. Target' = Target /\ Source' = Source
      BY <2>1, <2>7 DEF Target, Source
    <3>4. Len(Target) <= rd' /\ rd' <= Len(Source)
      BY <1>0, <2>1, <2>2, <2>3
    <3>5. \A i \in 1..Len(Target) : i <= cut' => i <= cut
      BY <1>0, <2>3, <3>1
    <3>6. TargetInPlace' /\ NotTooLong'
      BY <2>5, <3>3, <3>5 DEF CopyInv, TargetInPlace, NotTooLong
    <3>7. \A i \in 1..Len(Target) :
             i <= cut' => i <= Len(Copy!Original) /\ Target[i] = Copy!Original[i]
      BY <2>2, <3>5
    <3> QED BY <2>1, <2>2, <2>4, <2>5, <2>7, <3>1, <3>2, <3>3, <3>4, <3>6, <3>7 DEF CopyInv
  <2> QED BY <2>1, <2>6, <2>7
<1>9. CASE Copy!EndOfFile
  <2>1. /\ copyPc = "copy" /\ copyPc' = "next" /\ repeat' = repeat - 1
        /\ UNCHANGED <<method, target, disk, rd, wr, cut, said, before>>
        /\ Len(disk[1]) - rd # 0 => method = 1 /\ disk[1][rd + 1] = 255
    BY <1>9 DEF Copy!EndOfFile, Copy!Again, Copy!Left
  <2>2. /\ disk[1] = Source /\ disk[target] # Copy!NoFile /\ repeat > 0 /\ rd <= Len(Source)
        /\ repeat \in Nat /\ rd \in Nat
    BY <1>0, <2>1 DEF CopyInv, CopyTypes
  <2>3. Copied
    <3>1. Len(Source) = rd \/ (method = 1 /\ Source[rd + 1] = 255 /\ rd < Len(Source))
      BY <1>0, <2>1, <2>2
    <3> QED BY <2>1, <3>1, RoundEnds
  <2>4. CopyTypes' /\ repeat' <= before'[2]
    BY <1>0, <2>1, <2>2 DEF CopyTypes, CopyInv
  <2> QED BY <2>1, <2>2, <2>3, <2>4, FilesStay DEF CopyInv
<1>10. CASE Copy!CopyBlock
  <2> QED BY <1>10, BlockCopied
<1> QED BY <1>1, <1>2, <1>3, <1>4, <1>6, <1>7, <1>8, <1>9, <1>10 DEF Copy!Next

\* The invariant always holds.
LEMMA CopyAlways == Spec => []CopyInv
<1>1. Init => CopyInv
  <2> SUFFICES ASSUME Init PROVE CopyInv
    OBVIOUS
  <2>1. /\ copyPc = "start" /\ method = 0 /\ repeat = 0 /\ target = 1
        /\ disk = <<Copy!NoFile, Copy!NoFile>> /\ rd = 0 /\ wr = 0 /\ cut = MaxFile
        /\ said = FALSE /\ before = <<disk, repeat>>
    BY DEF Init, Copy!Init
  <2>2. disk \in [{1, 2} -> Files] /\ disk[1] = Copy!NoFile /\ disk[target] = Copy!NoFile
    BY <2>1 DEF Files
  <2>3. before[1] = disk /\ before[2] = 0
    BY <2>1
  <2>4. CopyTypes
    <3>1. before[1] \in [{1, 2} -> Files]
      BY <2>2, <2>3
    <3>2. before[2] \in Nat
      BY <2>3
    <3>3. /\ copyPc \in {"start", "next", "copy", "done", "failed", "crashed"}
          /\ said \in BOOLEAN
      BY DEF Init, Copy!Init
    <3>5. method \in 0..3 /\ repeat \in Nat /\ target \in {1, 2}
      <4>1. method = 0 /\ repeat = 0 /\ target = 1
        BY <2>1
      <4> QED BY <4>1
    <3>4. rd \in Nat /\ wr \in Nat /\ cut \in Nat
      BY <2>1, ConstantsAssumption DEF Copy!FileCopyAssumption
    <3> QED BY <2>2, <3>1, <3>2, <3>3, <3>4, <3>5 DEF CopyTypes
  <2>5. /\ Source = <<>> /\ Target = <<>> /\ Copy!Original = <<>> /\ Copy!Old = <<>>
        /\ Len(Target) = 0 /\ Len(Copy!Old) = 0
    BY <2>2, <2>3 DEF Source, Target, Copy!Original, Copy!Old, Copy!Bytes
  <2>6. TargetInPlace /\ NotTooLong
    BY <2>5 DEF TargetInPlace, NotTooLong
  <2> QED BY <2>1, <2>2, <2>3, <2>4, <2>5, <2>6 DEF CopyInv
<1> QED BY <1>1, CopyStep, OneProgramRuns, PTL DEF Spec

\* For files of any length, any BUFSIZ, any number of repetitions and any room on
\* the disk at each write: a run that ends well has copied the file, but for the
\* exceptions the property names, and in no state of a run is a byte in front of
\* the first write that was cut short out of its place (my_copy.c, lines 10-22,
\* 49-61 and 88-101).
THEOREM DoneMeansCopiedAlways == Spec => []DoneMeansCopied
<1>1. CopyInv => DoneMeansCopied
  <2> SUFFICES ASSUME CopyInv PROVE DoneMeansCopied
    OBVIOUS
  <2>1. /\ CopyTypes /\ TargetInPlace /\ Len(Target) \in Nat
        /\ disk[target] # Copy!NoFile => disk[target] = Target
        /\ disk[target] = Copy!NoFile => Target = <<>>
    BY CopySequences DEF CopyInv
  <2>2. Copy!InPlace
    <3>1. CASE disk[target] = Copy!NoFile
      <4>1. 1..Len(Target) = {}
        BY <2>1, <3>1
      <4> QED BY <4>1 DEF Copy!InPlace, Target
    <3>2. CASE disk[target] # Copy!NoFile
      BY <2>1, <3>2 DEF Copy!InPlace, TargetInPlace, Target
    <3> QED BY <3>1, <3>2
  <2>3. ASSUME copyPc = "done", ~said, method # 0, before[2] > 0
        PROVE  disk[target] = Target /\ Copied
    <3>1. repeat = 0
      BY <2>3 DEF CopyInv
    <3> QED BY <2>1, <2>3, <3>1 DEF CopyInv
  <2> QED BY <2>2, <2>3 DEF DoneMeansCopied, Copy!DoneMeansCopied, Copied
<1> QED BY <1>1, CopyAlways, PTL

-----------------------------------------------------------------------------
(* parseC.c                                                                *)

\* What getchar() may return, the end of the input included.
Typed == Lex!Alphabet \cup {"EOF"}
Texts == {"code", "operator", "operators", "slash", "line", "block", "comment",
          "star", "stars", "quote", "plain", "string", "escape", "odd"}
LexPcs == {"main", "number", "word", "operator", "swallow", "swallow two", "slash",
           "line", "block", "block star", "quote", "quote end", "string", "escape", "done"}

\* Where the program is in the text, unless that is an odd one: what it still
\* has to read of a pair of characters that belong together is what is typed.
InText ==
    /\ lexPc \in {"main", "done"} =>
         \/ text \in {"code", "operator", "operators"}
         \/ text = "slash" /\ next \in Typed \ {"/", "*"}
         \/ text \in {"quote", "plain"} /\ next = "EOF"
    /\ lexPc = "number" => text = "code"
    /\ lexPc = "word" => text \in {"code", "operator", "operators"}
    /\ lexPc = "operator" => text \in {"operator", "operators"}
    /\ lexPc = "swallow two" => text \in {"operator", "operators"} /\ next \in Lex!Operators
    /\ lexPc = "swallow" => text = "operators" \/ (text = "operator" /\ next \in Lex!Operators)
    /\ lexPc = "slash" => text = "slash"
    /\ lexPc = "line" => text = "line" \/ (text = "slash" /\ next = "/")
    /\ lexPc = "block" => \/ text \in {"comment", "stars"}
                          \/ text = "slash" /\ next = "*"
                          \/ text \in {"block", "star"} /\ next = "EOF"
    /\ lexPc = "block star" => text \in {"block", "star", "stars"}
    /\ lexPc = "string" => text = "string" \/ (text = "escape" /\ next = "EOF")
    /\ lexPc = "escape" => text = "escape"
    /\ lexPc = "quote" => text = "quote"
    /\ lexPc = "quote end" => text = "plain" \/ (text = "quote" /\ next = "EOF")

LexTypes == lexPc \in LexPcs /\ text \in Texts
LexInv == Lex!TypeOK /\ (text # "odd" => InText)

\* Nothing has been typed is not a character.
LEMMA NothingTyped == "" \notin Typed
  BY Zenon DEF Typed, Lex!Alphabet, Lex!Operators

\* The type invariant, with the empty character kept apart.
LEMMA TypesAre ==
    /\ Lex!TypeOK => LexTypes
    /\ Lex!TypeOK <=> LexTypes /\ ch \in Lex!Operators \cup {""} /\ next \in Typed \cup {""}
  BY Zenon DEF Lex!TypeOK, LexTypes, LexPcs, Texts, Typed, Lex!EOF

\* The reference scanner, state by state.
LEMMA ScanIs ==
    ASSUME NEW c \in Lex!Alphabet, text \in Texts
    PROVE  /\ Lex!Scan(c) \in Texts
           /\ text = "code" \/ (text = "operator" /\ c \notin Lex!Operators) \/ (text = "slash" /\ c \notin {"/", "*"}) =>
                Lex!Scan(c) = IF c = "/" THEN "slash" ELSE IF c = "'" THEN "quote" ELSE IF c = "\"" THEN "string"
                              ELSE IF c \in Lex!Operators THEN "operator" ELSE "code"
           /\ text \in {"operator", "operators"} /\ c \in Lex!Operators => Lex!Scan(c) = "operators"
           /\ text = "operators" /\ c \notin Lex!Operators =>
                Lex!Scan(c) = IF c \in {"/", "'", "\""} THEN "odd" ELSE "code"
           /\ text = "slash" => (c = "/" => Lex!Scan(c) = "line") /\ (c = "*" => Lex!Scan(c) = "block")
           /\ text = "line" => Lex!Scan(c) = IF c = "\n" THEN "code" ELSE "line"
           /\ text = "block" => Lex!Scan(c) = IF c = "*" THEN "stars" ELSE IF c = "/" THEN "odd" ELSE "comment"
           /\ text = "comment" => Lex!Scan(c) = IF c = "*" THEN "star" ELSE "comment"
           /\ text = "star" => Lex!Scan(c) = IF c = "*" THEN "stars" ELSE IF c = "/" THEN "code" ELSE "comment"
           /\ text = "stars" => Lex!Scan(c) = IF c = "*" THEN "stars" ELSE IF c = "/" THEN "odd" ELSE "comment"
           /\ text = "quote" => Lex!Scan(c) \in {"odd", "plain"}
           /\ text = "plain" => Lex!Scan(c) \in {"odd", "code"}
           /\ text = "string" => Lex!Scan(c) = IF c = "\"" THEN "code" ELSE IF c = "\\" THEN "escape" ELSE "string"
           /\ text = "escape" => Lex!Scan(c) = "string"
           /\ text = "odd" => Lex!Scan(c) = "odd"
<1> USE DEF Lex!Scan, Lex!Opens, Lex!Within, Lex!Operators, Lex!Alphabet, Texts
<1>1. CASE text = "code" BY <1>1
<1>2. CASE text = "operator" BY <1>2
<1>3. CASE text = "operators" BY <1>3
<1>4. CASE text = "slash" BY <1>4
<1>5. CASE text = "line" BY <1>5
<1>6. CASE text = "block" BY <1>6
<1>7. CASE text = "comment" BY <1>7
<1>8. CASE text = "star" BY <1>8
<1>9. CASE text = "stars" BY <1>9
<1>10. CASE text = "quote" BY <1>10
<1>11. CASE text = "plain" BY <1>11
<1>12. CASE text = "string" BY <1>12
<1>13. CASE text = "escape" BY <1>13
<1>14. CASE text = "odd" BY <1>14
<1> HIDE DEF Lex!Scan, Lex!Opens, Lex!Within, Lex!Operators, Lex!Alphabet
<1> QED BY <1>1, <1>2, <1>3, <1>4, <1>5, <1>6, <1>7, <1>8, <1>9, <1>10, <1>11, <1>12, <1>13, <1>14

\* getchar() returns what was typed and takes the scanner one character further.
LEMMA GetcharReads ==
    ASSUME LexTypes, next \in Typed \cup {""}, Lex!Getchar
    PROVE  /\ next \in Typed /\ text' \in Texts /\ next' \in Typed \cup {""}
           /\ next = "EOF" => text' = text /\ next' = "EOF"
           /\ next # "EOF" => next \in Lex!Alphabet /\ text' = Lex!Scan(next)
<1>1. /\ next \in Typed
      /\ next = "EOF" => next' = next /\ text' = text
      /\ next # "EOF" => next' = "" /\ text' = Lex!Scan(next)
  BY Zenon DEF Lex!Getchar, Lex!EOF
<1>2. next # "EOF" => next \in Lex!Alphabet
  BY <1>1, Zenon DEF Typed
<1>3. next # "EOF" => Lex!Scan(next) \in Texts
  BY <1>2, ScanIs DEF LexTypes
<1>4. next' \in Typed \cup {""}
  BY <1>1, Zenon
<1> HIDE DEF LexTypes
<1>5. text \in Texts
  BY DEF LexTypes
<1> QED BY <1>1, <1>2, <1>3, <1>4, <1>5, Zenon

\* The cases that fall through consume two operators at most, and none unless one
\* is next.
LEMMA SwallowedIs ==
    ASSUME NEW c, NEW seen
    PROVE  /\ Lex!Swallowed(c, seen) \in 0..2
           /\ Lex!Swallowed(c, seen) # 0 => seen \in Lex!Operators
<1> DEFINE K == {i \in 1..7 : Lex!Consumes(c, Lex!Labels[i]) /\ \E j \in 1..i : Lex!Labels[j] = seen}
<1>1. Lex!Swallowed(c, seen) = Cardinality(K)
  BY Zenon DEF Lex!Swallowed, Lex!Cardinality, Cardinality, Lex!IsFiniteSet, IsFiniteSet
<1>2. \E k \in 1..7 : K \subseteq {k, 7}
  <2>1. \A i \in 1..6 : Lex!Labels[i] # "="
    BY DEF Lex!Labels
  <2>2. \A i, j \in 1..6 : Lex!Labels[i] = Lex!Labels[j] => i = j
    BY DEF Lex!Labels
  <2>3. \A i \in K : i = 7 \/ (i \in 1..6 /\ c = Lex!Labels[i])
    BY <2>1 DEF Lex!Consumes
  <2>4. CASE \E k \in 1..6 : c = Lex!Labels[k]
    <3>1. PICK k \in 1..6 : c = Lex!Labels[k]
      BY <2>4
    <3>2. k \in 1..7 /\ \A i \in K : i \in {k, 7}
      BY <2>2, <2>3, <3>1
    <3> HIDE DEF K
    <3>3. K \subseteq {k, 7}
      BY <3>2
    <3> QED BY <3>2, <3>3
  <2>5. CASE ~\E k \in 1..6 : c = Lex!Labels[k]
    <3>1. 1 \in 1..7 /\ \A i \in K : i \in {1, 7}
      BY <2>3, <2>5
    <3> HIDE DEF K
    <3>2. K \subseteq {1, 7}
      BY <3>1
    <3> QED BY <3>1, <3>2
  <2> QED BY <2>4, <2>5
<1>3. K # {} => seen \in Lex!Operators
  <2>1. \A j \in 1..7 : Lex!Labels[j] \in Lex!Operators
    BY DEF Lex!Labels, Lex!Operators
  <2> QED BY <2>1
<1> HIDE DEF K
<1>4. PICK k \in 1..7 : K \subseteq {k, 7}
  BY <1>2
<1>5. IsFiniteSet({k, 7}) /\ Cardinality({k, 7}) <= 2
  <2>1. IsFiniteSet({7}) /\ Cardinality({7}) = 1
    BY FS_Singleton
  <2>2. IsFiniteSet({7} \cup {k}) /\ Cardinality({7} \cup {k}) <= 2
    BY <2>1, FS_AddElement
  <2>3. {7} \cup {k} = {k, 7}
    OBVIOUS
  <2> QED BY <2>2, <2>3
<1>6. IsFiniteSet(K) /\ Cardinality(K) <= 2 /\ Cardinality(K) \in Nat
  <2>1. IsFiniteSet(K) /\ Cardinality(K) <= Cardinality({k, 7})
    BY <1>4, <1>5, FS_Subset
  <2>2. Cardinality(K) \in Nat /\ Cardinality({k, 7}) \in Nat
    BY <1>5, <2>1, FS_CardinalityType
  <2> QED BY <1>5, <2>1, <2>2
<1>7. Cardinality(K) # 0 => K # {}
  BY <1>6, FS_EmptySet
<1> QED BY <1>1, <1>3, <1>6, <1>7

\* Each loop of the tokenizer leaves the program in step with the text.
LEMMA LexStep == LexInv /\ [Lex!Next]_lexVars => LexInv'
<1> SUFFICES ASSUME LexInv, [Lex!Next]_lexVars PROVE LexInv'
  OBVIOUS
<1> DEFINE Ch == Lex!Operators \cup {""}
           Read == Typed \cup {""}
<1>0. LexTypes /\ ch \in Ch /\ next \in Read /\ (text # "odd" => InText)
  BY TypesAre DEF LexInv
<1>00. LexTypes' /\ ch' \in Ch /\ next' \in Read /\ (text' # "odd" => InText') => LexInv'
  BY Zenon DEF LexInv, Lex!TypeOK, LexTypes, LexPcs, Texts, Typed, Lex!EOF
<1>n. "" \in Ch /\ \A c : IF c \in Lex!Operators THEN c \in Ch ELSE "" \in Ch
  BY Zenon
<1>r. \A c \in Typed : c \in Read
  BY Zenon
<1>g. Lex!Getchar =>
           /\ next \in Typed /\ text' \in Texts /\ next' \in Read
           /\ next = "EOF" => text' = text /\ next' = "EOF"
           /\ next # "EOF" => next \in Lex!Alphabet /\ text' = Lex!Scan(next)
  BY <1>0, GetcharReads, Zenon
<1>p. Lex!Peekc => next \in Typed /\ next' = next /\ text' = text
  BY <1>0, Zenon DEF Lex!Peekc
<1>pc. lexPc \in LexPcs /\ text \in Texts
  BY <1>0 DEF LexTypes
<1>s. \A c \in Lex!Alphabet : Lex!Scan(c) \in Texts
  BY <1>pc, ScanIs
<1> HIDE DEF Ch, Read
<1> USE DEF LexTypes, LexPcs, Texts
<1>1. CASE UNCHANGED lexVars
  <2>1. lexPc' = lexPc /\ ch' = ch /\ next' = next /\ text' = text
    BY <1>1 DEF lexVars
  <2> QED BY <1>0, <1>00, <2>1 DEF InText
<1>2. CASE Lex!Type
  <2>1. lexPc' = lexPc /\ ch' = ch /\ text' = text /\ next' \in Typed /\ next \notin Typed
    BY <1>2, NothingTyped, Zenon DEF Lex!Type, Typed, Lex!EOF
  <2>2. next # "EOF" /\ next \notin Lex!Operators /\ next # "/" /\ next # "*"
    BY <2>1 DEF Typed, Lex!Alphabet, Lex!Operators
  <2> QED BY <1>0, <1>00, <1>r, <2>1, <2>2 DEF InText
<1>3. CASE Lex!Main
  <2>1. /\ lexPc = "main" /\ Lex!Getchar /\ ch' \in Ch
    BY <1>3, <1>n, Zenon DEF Lex!Main
  <2>2. lexPc' = CASE next = "EOF" -> "done"
               [] next = "/" -> "slash" [] next = "'" -> "quote" [] next = "\"" -> "string"
               [] next \in Lex!Operators -> "operator" [] next = "a" -> "word"
               [] next = "1" -> "number" [] OTHER -> "main"
    BY <1>3, Zenon DEF Lex!Main, Lex!EOF
  <2>3. lexPc' \in LexPcs
    BY <2>2 DEF Lex!Operators
  <2>4. CASE next = "EOF"
    <3>1. lexPc' = "done" /\ text' = text /\ next' = "EOF"
      BY <1>g, <2>1, <2>2, <2>4 DEF Lex!Operators
    <3> QED BY <1>0, <1>00, <1>g, <2>1, <3>1 DEF InText, Typed
  <2>5. CASE next # "EOF"
    <3>1. next \in Lex!Alphabet /\ text' = Lex!Scan(next)
      BY <1>g, <2>1, <2>5
    <3>2. lexPc' = IF next = "/" THEN "slash" ELSE IF next = "'" THEN "quote" ELSE IF next = "\"" THEN "string"
                   ELSE IF next \in Lex!Operators THEN "operator" ELSE IF next = "a" THEN "word"
                   ELSE IF next = "1" THEN "number" ELSE "main"
      BY <2>2, <2>5, <3>1 DEF Lex!Operators, Lex!Alphabet
    <3>3. text' # "odd" => InText'
      <4>1. CASE text = "code" \/ (text = "operator" /\ next \notin Lex!Operators)
                 \/ (text = "slash" /\ next \notin {"/", "*"})
        <5>1. text' = IF next = "/" THEN "slash" ELSE IF next = "'" THEN "quote" ELSE IF next = "\"" THEN "string"
                      ELSE IF next \in Lex!Operators THEN "operator" ELSE "code"
          BY <3>1, <4>1, <1>pc, ScanIs
        <5> QED BY <3>2, <5>1 DEF InText
      <4>2. CASE text \in {"operator", "operators"} /\ next \in Lex!Operators
        <5>1. text' = "operators" /\ next \notin {"/", "'", "\""}
          BY <3>1, <4>2, <1>pc, ScanIs DEF Lex!Operators
        <5> QED BY <3>2, <4>2, <5>1 DEF InText
      <4>4. CASE text = "operators" /\ next \notin Lex!Operators
        <5>1. text' = IF next \in {"/", "'", "\""} THEN "odd" ELSE "code"
          BY <3>1, <4>4, <1>pc, ScanIs
        <5> QED BY <3>2, <4>4, <5>1 DEF InText
      <4>3. CASE text = "odd"
        BY <3>1, <4>3, <1>pc, ScanIs
      <4> QED BY <1>0, <2>1, <2>5, <4>1, <4>2, <4>3, <4>4 DEF InText
    <3> QED BY <1>0, <1>00, <1>g, <2>1, <2>3, <3>3
  <2> QED BY <2>4, <2>5
<1>4. CASE Lex!ParseNumber
  <2>1. /\ lexPc = "number" /\ ch' = ch /\ lexPc' \in {"main", "number"}
        /\ \/ next = "1" /\ Lex!Getchar /\ lexPc' = lexPc
           \/ next # "1" /\ Lex!Peekc /\ lexPc' = "main"
    BY <1>4 DEF Lex!ParseNumber
  <2>2. next = "1" => next # "EOF" /\ next \notin Lex!Operators
    BY DEF Lex!Operators
  <2> QED BY <1>0, <1>00, <1>g, <1>p, <1>pc, <2>1, <2>2, ScanIs, ZenonT(60) DEF InText
<1>5. CASE Lex!ParseWord
  <2>1. /\ lexPc = "word" /\ ch' = ch /\ lexPc' \in {"main", "word"}
        /\ \/ next \in {"a", "1", "-"} /\ Lex!Getchar /\ lexPc' = lexPc
           \/ next \notin {"a", "1", "-"} /\ Lex!Peekc /\ lexPc' = "main"
    BY <1>5 DEF Lex!ParseWord
  <2>2. CASE next \in {"a", "1", "-"} /\ Lex!Getchar /\ lexPc' = lexPc
    <3>1. next \in Lex!Alphabet /\ text' = Lex!Scan(next)
      BY <1>g, <2>2
    <3>2. next = "-" => next \in Lex!Operators
      BY DEF Lex!Operators
    <3>3. next \in {"a", "1"} => next \notin Lex!Operators
      BY DEF Lex!Operators
    <3>4. text' # "odd" => text' \in {"code", "operator", "operators"}
      BY <1>0, <1>pc, <2>1, <2>2, <3>1, <3>2, <3>3, ScanIs DEF InText
    <3> QED BY <1>0, <1>00, <1>g, <2>1, <2>2, <3>4 DEF InText
  <2>3. CASE next \notin {"a", "1", "-"} /\ Lex!Peekc /\ lexPc' = "main"
    BY <1>0, <1>00, <1>p, <2>1, <2>3 DEF InText
  <2> QED BY <2>1, <2>2, <2>3
<1>6. CASE Lex!ParseOperator
  <2>1. lexPc = "operator" /\ Lex!Peekc
    BY <1>6 DEF Lex!ParseOperator
  <2>2. ch' \in Ch
    BY <1>6, <1>n, Zenon DEF Lex!ParseOperator
  <2> DEFINE goes == <<"main", "swallow", "swallow two">>
  <2>4. goes[1] = "main" /\ goes[2] = "swallow" /\ goes[3] = "swallow two"
    OBVIOUS
  <2>3. lexPc' = goes[Lex!Swallowed(ch, next) + 1]
    BY <1>6 DEF Lex!ParseOperator
  <2> HIDE DEF goes
  <2>5. ASSUME NEW n \in 0..2
        PROVE  goes[n + 1] \in {"main", "swallow", "swallow two"} /\ (n = 0 => goes[n + 1] = "main")
    <3>1. (n + 1 = 1 \/ n + 1 = 2 \/ n + 1 = 3) /\ (n = 0 => n + 1 = 1)
      OBVIOUS
    <3> QED BY <2>4, <3>1, Zenon
  <2>6. /\ lexPc' \in {"main", "swallow", "swallow two"}
        /\ lexPc' \in {"swallow", "swallow two"} => next \in Lex!Operators
    BY <2>3, <2>5, SwallowedIs
  <2> QED BY <1>0, <1>00, <1>p, <2>1, <2>2, <2>6 DEF InText
<1>7. CASE Lex!Swallow
  <2>1. /\ lexPc \in {"swallow", "swallow two"} /\ Lex!Getchar /\ ch' = ch
        /\ lexPc' = IF lexPc = "swallow" THEN "main" ELSE "swallow"
    BY <1>7 DEF Lex!Swallow
  <2>2. CASE next = "EOF"
    <3>1. next \notin Lex!Operators
      BY <2>2 DEF Lex!Operators
    <3> QED BY <1>0, <1>00, <1>g, <2>1, <2>2, <3>1 DEF InText
  <2>3. CASE next # "EOF"
    <3>1. next \in Lex!Alphabet /\ text' = Lex!Scan(next)
      BY <1>g, <2>1, <2>3
    <3>2. text # "odd" /\ lexPc = "swallow two" => text' = "operators"
      BY <1>0, <1>pc, <2>1, <3>1, ScanIs DEF InText
    <3>3. text # "odd" /\ lexPc = "swallow" => text' \in {"odd", "operators", "code"}
      BY <1>0, <1>pc, <2>1, <3>1, ScanIs DEF InText
    <3>4. text = "odd" => text' = "odd"
      BY <1>pc, <3>1, ScanIs
    <3> QED BY <1>0, <1>00, <1>g, <2>1, <3>2, <3>3, <3>4 DEF InText
  <2> QED BY <2>2, <2>3
<1>8. CASE Lex!ProcessComment
  <2>1. /\ lexPc = "slash" /\ Lex!Peekc /\ ch' = ch
        /\ lexPc' = IF next = "/" THEN "line" ELSE IF next = "*" THEN "block" ELSE "main"
    BY <1>8 DEF Lex!ProcessComment
  <2> QED BY <1>0, <1>00, <1>p, <2>1 DEF InText
<1>9. CASE Lex!LineComment
  <2>1. /\ lexPc = "line" /\ Lex!Getchar /\ ch' = ch
        /\ lexPc' = IF next = "\n" THEN "main" ELSE "line"
    BY <1>9 DEF Lex!LineComment
  <2>2. CASE next = "EOF"
    BY <1>0, <1>00, <1>g, <2>1, <2>2 DEF InText
  <2>3. CASE next # "EOF"
    <3>1. next \in Lex!Alphabet /\ text' = Lex!Scan(next)
      BY <1>g, <2>1, <2>3
    <3> QED BY <1>0, <1>00, <1>g, <1>pc, <2>1, <3>1, ScanIs DEF InText
  <2> QED BY <2>2, <2>3
<1>10. CASE Lex!End
  <2>1. /\ lexPc = "block" /\ Lex!Getchar /\ ch' = ch
        /\ lexPc' = IF next = "*" THEN "block star" ELSE "block"
    BY <1>10 DEF Lex!End
  <2>2. CASE next = "EOF"
    BY <1>0, <1>00, <1>g, <2>1, <2>2 DEF InText
  <2>3. CASE next # "EOF"
    <3>1. next \in Lex!Alphabet /\ text' = Lex!Scan(next)
      BY <1>g, <2>1, <2>3
    <3> QED BY <1>0, <1>00, <1>g, <1>pc, <2>1, <3>1, ScanIs DEF InText
  <2> QED BY <2>2, <2>3
<1>11. CASE Lex!EndSlash
  <2>1. /\ lexPc = "block star" /\ Lex!Getchar /\ ch' = ch
        /\ lexPc' = IF next = "/" THEN "main" ELSE "block"
    BY <1>11 DEF Lex!EndSlash
  <2>2. CASE next = "EOF"
    BY <1>0, <1>00, <1>g, <2>1, <2>2 DEF InText
  <2>3. CASE next # "EOF"
    <3>1. next \in Lex!Alphabet /\ text' = Lex!Scan(next)
      BY <1>g, <2>1, <2>3
    <3> QED BY <1>0, <1>00, <1>g, <1>pc, <2>1, <3>1, ScanIs DEF InText
  <2> QED BY <2>2, <2>3
<1>12. CASE Lex!Quote
  <2>1. /\ lexPc \in {"quote", "quote end"} /\ Lex!Getchar /\ ch' = ch
        /\ lexPc' = IF lexPc = "quote" THEN "quote end" ELSE "main"
    BY <1>12 DEF Lex!Quote
  <2>2. CASE next = "EOF"
    BY <1>0, <1>00, <1>g, <2>1, <2>2 DEF InText
  <2>3. CASE next # "EOF"
    <3>1. next \in Lex!Alphabet /\ text' = Lex!Scan(next)
      BY <1>g, <2>1, <2>3
    <3> QED BY <1>0, <1>00, <1>g, <1>pc, <2>1, <2>3, <3>1, ScanIs DEF InText
  <2> QED BY <2>2, <2>3
<1>13. CASE Lex!ParseQuoteQuote
  <2>1. /\ lexPc = "string" /\ Lex!Getchar /\ ch' = ch
        /\ lexPc' = IF next = "\"" THEN "main" ELSE IF next = "\\" THEN "escape" ELSE "string"
    BY <1>13 DEF Lex!ParseQuoteQuote
  <2>2. CASE next = "EOF"
    BY <1>0, <1>00, <1>g, <2>1, <2>2 DEF InText
  <2>3. CASE next # "EOF"
    <3>1. next \in Lex!Alphabet /\ text' = Lex!Scan(next)
      BY <1>g, <2>1, <2>3
    <3> QED BY <1>0, <1>00, <1>g, <1>pc, <2>1, <2>3, <3>1, ScanIs DEF InText
  <2> QED BY <2>2, <2>3
<1>14. CASE Lex!Escape
  <2>1. lexPc = "escape" /\ Lex!Getchar /\ ch' = ch /\ lexPc' = "string"
    BY <1>14 DEF Lex!Escape
  <2>2. CASE next = "EOF"
    BY <1>0, <1>00, <1>g, <2>1, <2>2 DEF InText
  <2>3. CASE next # "EOF"
    <3>1. next \in Lex!Alphabet /\ text' = Lex!Scan(next)
      BY <1>g, <2>1, <2>3
    <3> QED BY <1>0, <1>00, <1>g, <1>pc, <2>1, <2>3, <3>1, ScanIs DEF InText
  <2> QED BY <2>2, <2>3
<1> QED BY <1>1, <1>2, <1>3, <1>4, <1>5, <1>6, <1>7, <1>8, <1>9, <1>10, <1>11, <1>12, <1>13, <1>14
        DEF Lex!Next, Lex!Program

\* The invariant always holds.
LEMMA LexAlways == Spec => []LexInv
<1>1. Init => LexInv
  <2> SUFFICES ASSUME Init PROVE LexInv
    OBVIOUS
  <2>1. lexPc = "main" /\ text = "code" /\ ch = "" /\ next = ""
    BY Zenon DEF Init, Lex!Init
  <2>2. Lex!TypeOK
    BY <2>1, Zenon DEF Lex!TypeOK
  <2>3. InText
    BY <2>1 DEF InText
  <2> QED BY <2>2, <2>3 DEF LexInv
<1> QED BY <1>1, LexStep, OneProgramRuns, PTL DEF Spec

\* Comments, strings and character constants begin and end for parseC.c where
\* they do in the text, for every text that is none of the odd ones
\* (lines 30-83 and 91-146).
THEOREM InStepAlways == Spec => []InStep
<1>1. LexInv => InStep
  <2> SUFFICES ASSUME LexInv, text # "odd" PROVE InStep
    BY DEF InStep, Lex!InStep
  <2>1. lexPc \in LexPcs /\ InText
    BY TypesAre DEF LexInv, LexTypes
  <2> QED BY <2>1 DEF InStep, Lex!InStep, InText, LexPcs, Lex!EOF
<1> QED BY <1>1, LexAlways, PTL

-----------------------------------------------------------------------------
(* Functions defined by recursion.  Induction is used in the form of sets: *)
(* a set of naturals that is not empty has a least element.                *)

\* A set of naturals that is not empty has a least element.
LEMMA LeastElement ==
    ASSUME NEW S \in SUBSET Nat, S # {}
    PROVE  \E n \in S : \A m \in S : n <= m
<1> DEFINE R == OpToRel(<, Nat)
<1>1. IsWellFoundedOn(R, Nat)
  BY NatLessThanWellFounded
<1> HIDE DEF R
<1>2. PICK n \in S : \A m \in S : ~(<<m, n>> \in R)
  BY <1>1, WFMin
<1>3. ASSUME NEW m \in S PROVE n <= m
  <2>1. ~(<<m, n>> \in R) BY <1>2
  <2>2. ~(m < n) BY <2>1 DEF R, OpToRel
  <2> QED BY <2>2
<1> QED BY <1>3

\* A function whose recursive definition goes from one argument to the next
\* until it reaches one in "final" exists: its value is that of the argument
\* where the way from x ends, if it does.
Way(S, final, next0, x, n, s) ==
    /\ s \in [0..n -> S] /\ s[0] = x /\ s[n] \in final
    /\ \A i \in 0..n-1 : s[i] \notin final /\ s[i+1] = next0[s[i]]
Ends(S, final, next0, x) ==
    {y \in S : \E n \in Nat : \E s \in [0..n -> S] : Way(S, final, next0, x, n, s) /\ s[n] = y}
OneOf(E) == CHOOSE y : y \in E

Along(S, final, next0, value) == [x \in S |-> value[OneOf(Ends(S, final, next0, x))]]

\* A set of one element.
LEMMA OneOfOne == \A y : OneOf({y}) = y
  BY DEF OneOf

\* An argument in "final" is where its way ends.
LEMMA EndsHere ==
    ASSUME NEW S, NEW final \in SUBSET S, NEW next0, NEW x \in final
    PROVE  Ends(S, final, next0, x) = {x}
<1>1. x \in Ends(S, final, next0, x)
  <2> DEFINE s == [i \in 0..0 |-> x]
  <2>1. s \in [0..0 -> S] /\ s[0] = x /\ 0 \in Nat
    OBVIOUS
  <2>2. Way(S, final, next0, x, 0, s)
    BY <2>1 DEF Way
  <2> QED BY <2>1, <2>2 DEF Ends
<1>2. ASSUME NEW y \in Ends(S, final, next0, x) PROVE y = x
  <2>1. PICK n \in Nat : \E s \in [0..n -> S] : Way(S, final, next0, x, n, s) /\ s[n] = y
    BY DEF Ends
  <2>2. PICK s \in [0..n -> S] : Way(S, final, next0, x, n, s) /\ s[n] = y
    BY <2>1
  <2>3. s[0] = x /\ (n > 0 => s[0] \notin final)
    BY <2>2 DEF Way
  <2>4. n = 0
    BY <2>3
  <2> QED BY <2>2, <2>3, <2>4
<1> QED BY <1>1, <1>2

\* The way from x ends where that from its next argument does.
LEMMA EndsThere ==
    ASSUME NEW S, NEW final \in SUBSET S, NEW next0,
           NEW x \in S \ final, next0[x] \in S
    PROVE  Ends(S, final, next0, x) = Ends(S, final, next0, next0[x])
<1>1. ASSUME NEW y \in Ends(S, final, next0, x) PROVE y \in Ends(S, final, next0, next0[x])
  <2>1. y \in S /\ \E n \in Nat : \E s \in [0..n -> S] : Way(S, final, next0, x, n, s) /\ s[n] = y
    BY DEF Ends
  <2>2. PICK n \in Nat : \E s \in [0..n -> S] : Way(S, final, next0, x, n, s) /\ s[n] = y
    BY <2>1
  <2>3. PICK s \in [0..n -> S] : Way(S, final, next0, x, n, s) /\ s[n] = y
    BY <2>2
  <2> DEFINE t == [i \in 0..n-1 |-> s[i+1]]
  <2>4. /\ s[0] = x /\ s[n] \in final
        /\ \A i \in 0..n-1 : s[i] \notin final /\ s[i+1] = next0[s[i]]
    BY <2>3 DEF Way
  <2>5. n # 0 /\ n-1 \in Nat
    BY <2>4
  <2>6. t \in [0..n-1 -> S]
    BY <2>5
  <2>7. t[0] = next0[x] /\ t[n-1] = s[n]
    BY <2>4, <2>5
  <2>8. \A i \in 0..(n-1)-1 : t[i] \notin final /\ t[i+1] = next0[t[i]]
    BY <2>4, <2>5
  <2>9. Way(S, final, next0, next0[x], n-1, t)
    BY <2>4, <2>6, <2>7, <2>8 DEF Way
  <2> QED BY <2>1, <2>3, <2>5, <2>6, <2>7, <2>9 DEF Ends
<1>2. ASSUME NEW y \in Ends(S, final, next0, next0[x]) PROVE y \in Ends(S, final, next0, x)
  <2>1. y \in S /\ \E n \in Nat : \E s \in [0..n -> S] : Way(S, final, next0, next0[x], n, s) /\ s[n] = y
    BY DEF Ends
  <2>2. PICK n \in Nat : \E s \in [0..n -> S] : Way(S, final, next0, next0[x], n, s) /\ s[n] = y
    BY <2>1
  <2>3. PICK s \in [0..n -> S] : Way(S, final, next0, next0[x], n, s) /\ s[n] = y
    BY <2>2
  <2> DEFINE t == [i \in 0..n+1 |-> IF i = 0 THEN x ELSE s[i-1]]
  <2>4. /\ s[0] = next0[x] /\ s[n] \in final
        /\ \A i \in 0..n-1 : s[i] \notin final /\ s[i+1] = next0[s[i]]
    BY <2>3 DEF Way
  <2>6. t \in [0..n+1 -> S]
    OBVIOUS
  <2>7. t[0] = x /\ t[n+1] = s[n]
    OBVIOUS
  <2>8. ASSUME NEW i \in 0..(n+1)-1 PROVE t[i] \notin final /\ t[i+1] = next0[t[i]]
    <3>1. CASE i = 0
      BY <3>1, <2>4
    <3>2. CASE i # 0
      <4>1. i-1 \in 0..n-1 /\ t[i] = s[i-1] /\ t[i+1] = s[i] /\ (i-1)+1 = i
        BY <3>2
      <4> QED BY <4>1, <2>4
    <3> QED BY <3>1, <3>2
  <2>9. Way(S, final, next0, x, n+1, t)
    BY <2>4, <2>6, <2>7, <2>8 DEF Way
  <2> HIDE DEF t
  <2>10. n+1 \in Nat
    OBVIOUS
  <2> QED BY <2>1, <2>3, <2>6, <2>7, <2>9, <2>10 DEF Ends
<1> QED BY <1>1, <1>2

\* So there is a function that satisfies its recursive definition.
LEMMA TailRecursion ==
    ASSUME NEW S, NEW final \in SUBSET S, NEW next0, NEW value,
           \A x \in S \ final : next0[x] \in S
    PROVE  Along(S, final, next0, value) =
               [x \in S |-> IF x \in final THEN value[x]
                            ELSE Along(S, final, next0, value)[next0[x]]]
<1> DEFINE f == Along(S, final, next0, value)
<1> USE DEF Along
<1>1. ASSUME NEW x \in S PROVE f[x] = IF x \in final THEN value[x] ELSE f[next0[x]]
  <2>1. CASE x \in final
    <3>1. Ends(S, final, next0, x) = {x}
      BY <2>1, EndsHere
    <3>2. OneOf(Ends(S, final, next0, x)) = x
      BY <3>1, OneOfOne
    <3> QED BY <3>2, <2>1
  <2>2. CASE x \notin final
    <3>1. Ends(S, final, next0, x) = Ends(S, final, next0, next0[x])
      BY <2>2, EndsThere
    <3> QED BY <3>1, <2>2
  <2> QED BY <2>1, <2>2
<1>2. f = [x \in S |-> f[x]]
  OBVIOUS
<1> HIDE DEF f
<1>3. f = [x \in S |-> IF x \in final THEN value[x] ELSE f[next0[x]]]
  BY <1>1, <1>2
<1> QED BY <1>3 DEF f

-----------------------------------------------------------------------------
(* MusicLibrary.c                                                          *)

\* One step of binary_search.
SearchBody(t, f) ==
    [range \in Int \X Int |->
            LET lo == range[1]  hi == range[2]  mid == (lo + hi) \div 2 IN
            IF hi < lo THEN lo
            ELSE IF Fold[library[mid]] > Fold[t] THEN f[<<lo, mid - 1>>]
            ELSE IF Fold[library[mid]] < Fold[t] THEN f[<<mid + 1, hi>>]
            ELSE mid]
Search(t) == CHOOSE f : f = SearchBody(t, f)

\* The function in the definition of binary_search ...
LEMMA SearchIs ==
    ASSUME NEW t, NEW a, NEW b
    PROVE  Music!BinarySearch(t, a, b) = Search(t)[<<a, b>>]
  BY DEF Music!BinarySearch, Search, SearchBody

\* ... satisfies its equation, whatever is in the library ...
LEMMA SearchExists ==
    ASSUME NEW t
    PROVE  Search(t) = SearchBody(t, Search(t))
<1> DEFINE Mid(x) == (x[1] + x[2]) \div 2
           Left(x) == Fold[library[Mid(x)]] > Fold[t]
           Right(x) == Fold[library[Mid(x)]] < Fold[t]
           S == Int \X Int
           final == {x \in S : x[2] < x[1] \/ ~(Left(x) \/ Right(x))}
           go == [x \in S |-> IF Left(x) THEN <<x[1], Mid(x) - 1>> ELSE <<Mid(x) + 1, x[2]>>]
           value == [x \in S |-> IF x[2] < x[1] THEN x[1] ELSE Mid(x)]
           f == Along(S, final, go, value)
<1>1. \A x \in S \ final : go[x] \in S
  OBVIOUS
<1>3. f = [x \in S |-> IF x \in final THEN value[x] ELSE f[go[x]]]
  <2>1. final \in SUBSET S
    OBVIOUS
  <2> HIDE DEF S, final, go, value
  <2> QED BY <1>1, <2>1, TailRecursion
<1> HIDE DEF f
<1>4. ASSUME NEW x \in S
      PROVE  f[x] = LET lo == x[1]  hi == x[2]  mid == (lo + hi) \div 2 IN
                    IF hi < lo THEN lo
                    ELSE IF Left(x) THEN f[<<lo, mid - 1>>]
                    ELSE IF Right(x) THEN f[<<mid + 1, hi>>]
                    ELSE mid
  <2>1. f[x] = IF x \in final THEN value[x] ELSE f[go[x]]
    BY <1>3
  <2>2. CASE x[2] < x[1]
    BY <2>1, <2>2
  <2>3. CASE ~(x[2] < x[1]) /\ Left(x)
    <3>1. x \notin final /\ go[x] = <<x[1], Mid(x) - 1>>
      BY <2>3
    <3> QED BY <2>1, <2>3, <3>1
  <2>4. CASE ~(x[2] < x[1]) /\ ~Left(x) /\ Right(x)
    <3>1. x \notin final /\ go[x] = <<Mid(x) + 1, x[2]>>
      BY <2>4
    <3> QED BY <2>1, <2>4, <3>1
  <2>5. CASE ~(x[2] < x[1]) /\ ~Left(x) /\ ~Right(x)
    BY <2>1, <2>5
  <2> QED BY <2>2, <2>3, <2>4, <2>5
<1>5. f = [x \in S |-> f[x]]
  BY <1>3
<1>6. f = SearchBody(t, f)
  BY <1>4, <1>5 DEF SearchBody
<1> QED BY <1>6 DEF Search

\* The songs from a to b are in order.
Ordered(a, b) == \A i, j \in a..b : i <= j => Fold[library[i]] <= Fold[library[j]]

\* r is where title t is from a to b, or where it belongs.
Belongs(t, a, b, r) ==
    /\ r \in a..b+1
    /\ \/ r <= b /\ Fold[library[r]] = Fold[t]
       \/ \A i \in a..b : IF i < r THEN Fold[library[i]] < Fold[t] ELSE Fold[library[i]] > Fold[t]

\* ... one range at a time.
LEMMA SearchStep ==
    ASSUME NEW t, NEW a \in Int, NEW b \in Int
    PROVE  LET mid == (a + b) \div 2 IN
           Search(t)[<<a, b>>] =
               IF b < a THEN a
               ELSE IF Fold[library[mid]] > Fold[t] THEN Search(t)[<<a, mid - 1>>]
               ELSE IF Fold[library[mid]] < Fold[t] THEN Search(t)[<<mid + 1, b>>]
               ELSE mid
<1>1. Search(t) = SearchBody(t, Search(t)) /\ <<a, b>> \in Int \X Int
  BY SearchExists
<1>2. Search(t)[<<a, b>>] = SearchBody(t, Search(t))[<<a, b>>]
  BY <1>1
<1> QED BY <1>1, <1>2 DEF SearchBody

\* binary_search is correct on every range that is in order: a range for which it
\* is not has a shorter one for which it is not.
LEMMA SearchFinds ==
    ASSUME library \in [Music!Slots -> Titles], Fold \in [Titles -> Int], MaxSongs \in Nat,
           NEW t \in Titles, NEW a0 \in Nat, NEW b0 \in Int, b0 <= MaxSongs, a0 <= b0 + 1,
           Ordered(a0, b0)
    PROVE  Belongs(t, a0, b0, Search(t)[<<a0, b0>>])
<1> DEFINE Case(a, b) == /\ a0 <= a /\ a <= b + 1 /\ b <= b0
                         /\ ~Belongs(t, a, b, Search(t)[<<a, b>>])
           T == {n \in Nat : \E a, b \in Int : n = b - a + 1 /\ Case(a, b)}
<1>0. \A i \in a0..b0 : Fold[library[i]] \in Int
  BY DEF Music!Slots
<1>00. Fold[t] \in Int
  OBVIOUS
<1> SUFFICES ASSUME T # {} PROVE FALSE
  <2>1. b0 - a0 + 1 \in Nat /\ a0 \in Int
    OBVIOUS
  <2>2. ~Belongs(t, a0, b0, Search(t)[<<a0, b0>>]) => Case(a0, b0)
    OBVIOUS
  <2> HIDE DEF Case
  <2>3. Case(a0, b0) => b0 - a0 + 1 \in T
    BY <2>1
  <2> QED BY <2>2, <2>3
<1>1. PICK n \in T : \A m \in T : n <= m
  BY LeastElement
<1>2. PICK a, b \in Int : n = b - a + 1 /\ Case(a, b)
  OBVIOUS
<1>3. \A c, d \in Int : d - c < b - a /\ a0 <= c /\ c <= d + 1 /\ d <= b0
                            => Belongs(t, c, d, Search(t)[<<c, d>>])
  <2> SUFFICES ASSUME NEW c \in Int, NEW d \in Int, d - c < b - a, a0 <= c, c <= d + 1, d <= b0,
                      Case(c, d)
               PROVE  FALSE
    OBVIOUS
  <2>1. d - c + 1 \in Nat /\ d - c + 1 < n
    BY <1>2
  <2> HIDE DEF Case
  <2>2. d - c + 1 \in T
    BY <2>1
  <2>3. n <= d - c + 1
    <3> HIDE DEF T
    <3> QED BY <1>1, <2>2
  <2>4. n \in Int
    BY <1>2
  <2> QED BY <2>1, <2>3, <2>4
<1> DEFINE mid == (a + b) \div 2
           r == Search(t)[<<a, b>>]
<1>4. a0 <= a /\ a <= b + 1 /\ b <= b0 /\ ~Belongs(t, a, b, r)
  BY <1>2
<1>5. /\ b < a => r = a
      /\ b >= a /\ Fold[library[mid]] > Fold[t] => r = Search(t)[<<a, mid - 1>>]
      /\ b >= a /\ ~(Fold[library[mid]] > Fold[t]) /\ Fold[library[mid]] < Fold[t]
            => r = Search(t)[<<mid + 1, b>>]
      /\ b >= a /\ ~(Fold[library[mid]] > Fold[t]) /\ ~(Fold[library[mid]] < Fold[t]) => r = mid
  <2>1. r = IF b < a THEN a
            ELSE IF Fold[library[mid]] > Fold[t] THEN Search(t)[<<a, mid - 1>>]
            ELSE IF Fold[library[mid]] < Fold[t] THEN Search(t)[<<mid + 1, b>>]
            ELSE mid
    <3>1. a \in Int /\ b \in Int
      OBVIOUS
    <3> QED BY ONLY <3>1, SearchStep, Zenon
  <2>2. a \in Int /\ b \in Int
    OBVIOUS
  <2> HIDE DEF r, mid, T, Case
  <2> QED BY ONLY <2>1, <2>2
<1> HIDE DEF r, T, Case
<1>6. CASE b < a
  BY <1>4, <1>5, <1>6 DEF Belongs
<1>7. CASE b >= a
  <2>1. mid \in a..b
    BY <1>7
  <2> HIDE DEF mid
  <2>2. /\ Fold[library[mid]] \in Int /\ \A i \in a..b : Fold[library[i]] \in Int
        /\ \A i, j \in a..b : i <= j => Fold[library[i]] <= Fold[library[j]]
    BY <1>0, <1>4, <2>1 DEF Ordered
  <2>3. CASE Fold[library[mid]] > Fold[t]
    <3>1. Belongs(t, a, mid - 1, r)
      <4>1. mid - 1 \in Int /\ (mid - 1) - a < b - a /\ a <= (mid - 1) + 1 /\ mid - 1 <= b0
        BY <1>4, <2>1
      <4> QED BY <4>1, <1>3, <1>4, <1>5, <1>7, <2>3
    <3>2. r \in a..mid
      BY <3>1, <2>1 DEF Belongs
    <3>3. CASE r <= mid - 1 /\ Fold[library[r]] = Fold[t]
      BY <3>3, <3>2, <2>1, <1>4 DEF Belongs
    <3>4. CASE \A i \in a..mid-1 : IF i < r THEN Fold[library[i]] < Fold[t] ELSE Fold[library[i]] > Fold[t]
      <4>1. ASSUME NEW i \in a..b
            PROVE  IF i < r THEN Fold[library[i]] < Fold[t] ELSE Fold[library[i]] > Fold[t]
        <5>1. CASE i < mid
          BY <5>1, <3>4, <2>1
        <5>2. CASE i >= mid
          <6>1. Fold[library[mid]] <= Fold[library[i]] /\ Fold[library[i]] \in Int
            BY <5>2, <2>1, <2>2
          <6>2. ~(i < r)
            BY <5>2, <3>2, <2>1
          <6> QED BY <6>1, <6>2, <2>2, <2>3, <1>00
        <5> QED BY <5>1, <5>2, <2>1
      <4> QED BY <4>1, <3>2, <2>1, <1>4 DEF Belongs
    <3> QED BY <3>1, <3>3, <3>4 DEF Belongs
  <2>4. CASE Fold[library[mid]] < Fold[t]
    <3>1. Belongs(t, mid + 1, b, r)
      <4>1. mid + 1 \in Int /\ b - (mid + 1) < b - a /\ a0 <= mid + 1 /\ mid + 1 <= b + 1
        BY <1>4, <2>1
      <4>2. ~(Fold[library[mid]] > Fold[t])
        BY <2>2, <2>4, <1>00
      <4> QED BY <4>1, <4>2, <1>3, <1>4, <1>5, <1>7, <2>4
    <3>2. r \in mid+1..b+1
      BY <3>1, <2>1 DEF Belongs
    <3>3. CASE r <= b /\ Fold[library[r]] = Fold[t]
      BY <3>3, <3>2, <2>1, <1>4 DEF Belongs
    <3>4. CASE \A i \in mid+1..b : IF i < r THEN Fold[library[i]] < Fold[t] ELSE Fold[library[i]] > Fold[t]
      <4>1. ASSUME NEW i \in a..b
            PROVE  IF i < r THEN Fold[library[i]] < Fold[t] ELSE Fold[library[i]] > Fold[t]
        <5>1. CASE i > mid
          BY <5>1, <3>4, <2>1
        <5>2. CASE i <= mid
          <6>1. Fold[library[i]] <= Fold[library[mid]] /\ Fold[library[i]] \in Int
            BY <5>2, <2>1, <2>2
          <6>2. i < r
            BY <5>2, <3>2, <2>1
          <6> QED BY <6>1, <6>2, <2>2, <2>4, <1>00
        <5> QED BY <5>1, <5>2, <2>1
      <4> QED BY <4>1, <3>2, <2>1, <1>4 DEF Belongs
    <3> QED BY <3>1, <3>3, <3>4 DEF Belongs
  <2>5. CASE Fold[library[mid]] = Fold[t]
    <3>1. r = mid
      BY <1>5, <1>7, <2>5, <2>2, <1>00
    <3> QED BY <3>1, <2>1, <2>5, <1>4 DEF Belongs
  <2> QED BY <2>2, <2>3, <2>4, <2>5, <1>00
<1> QED BY <1>4, <1>6, <1>7

\* The songs that are listed are in order, and while the file is read its songs
\* are all there is.
Answers == {"", "yes", "no"} \X Titles
MusicTypeOK ==
    /\ musicPc \in {"load", "menu", "store", "off"}
    /\ library \in [Music!Slots -> Titles] /\ number \in MinSongs..MaxSongs
    /\ file \in Seq(Titles) /\ Len(file) <= MaxSongs /\ loaded \in 0..MaxSongs
    /\ answer \in Answers
MusicInv ==
    /\ MusicTypeOK
    /\ Ordered(0, number - 1)
    /\ musicPc = "load" => number = loaded /\ loaded <= Len(file)

\* What each step needs of it.
LEMMA MusicTypes ==
    ASSUME MusicInv
    PROVE  /\ library \in [Music!Slots -> Titles] /\ Fold \in [Titles -> Int]
           /\ MaxSongs \in Nat /\ MinSongs \in Int /\ MinSongs < 0
           /\ number \in MinSongs..MaxSongs
           /\ 0 \in Titles /\ 0 \in Music!Slots /\ Music!Slots = 0..MaxSongs
<1>1. Music!TitlesAssumption /\ Music!BoundsAssumption /\ MusicTypeOK
  BY ConstantsAssumption DEF MusicInv
<1>2. 0 \in Titles /\ Fold \in [Titles -> Int] /\ MaxSongs \in Nat /\ MinSongs \in Int /\ MinSongs < 0
  BY <1>1 DEF Music!TitlesAssumption, Music!BoundsAssumption
<1>3. library \in [Music!Slots -> Titles] /\ number \in MinSongs..MaxSongs
  BY <1>1 DEF MusicTypeOK
<1> QED BY <1>2, <1>3 DEF Music!Slots

\* Where a song is or belongs; the counter may have been taken below zero.
LEMMA FindIs ==
    ASSUME MusicInv, NEW t \in Titles
    PROVE  /\ Music!Find(t) \in Music!Slots
           /\ number >= 0 => Belongs(t, 0, number - 1, Music!Find(t)) /\ Music!Find(t) \in 0..number
           /\ number < 0 => Music!Find(t) = 0
<1>1. Music!Find(t) = Search(t)[<<0, number - 1>>] /\ number \in Int
  BY SearchIs, MusicTypes DEF Music!Find
<1>2. number < 0 => Music!Find(t) = 0
  <2>1. ASSUME NEW a \in Int, NEW b \in Int, b < a PROVE Search(t)[<<a, b>>] = a
    BY <2>1, SearchStep
  <2>2. number < 0 => number - 1 < 0 /\ number - 1 \in Int
    BY <1>1
  <2>3. number < 0 => Search(t)[<<0, number - 1>>] = 0
    BY <2>1, <2>2
  <2> QED BY <1>1, <2>3
<1>3. number >= 0 => Belongs(t, 0, number - 1, Music!Find(t))
  <2>1. Ordered(0, number - 1)
    BY DEF MusicInv
  <2>2. number >= 0 => 0 \in Nat /\ number - 1 \in Int /\ number - 1 <= MaxSongs /\ 0 <= (number - 1) + 1
    BY MusicTypes
  <2> QED BY <1>1, <2>1, <2>2, MusicTypes, SearchFinds
<1>4. number >= 0 => Music!Find(t) \in 0..number
  BY <1>1, <1>3 DEF Belongs
<1> QED BY <1>2, <1>3, <1>4, MusicTypes

\* A song put in where it belongs leaves the songs in order.
LEMMA SongAdded ==
    ASSUME MusicInv, NEW t \in Titles, number < MaxSongs, Music!AddSong(t)
    PROVE  /\ library' \in [Music!Slots -> Titles]
           /\ number' = number + 1 /\ number' \in MinSongs..MaxSongs
           /\ Ordered(0, number - 1)'
<1> DEFINE index == Music!Find(t)
<1>1. /\ library' = [Music!CrunchDown(index) EXCEPT ![index] = t]
      /\ number' = number + 1
  BY DEF Music!AddSong
<1>2. /\ index \in Music!Slots
      /\ number >= 0 => Belongs(t, 0, number - 1, index) /\ index \in 0..number
      /\ number < 0 => index = 0
  BY FindIs
<1> HIDE DEF index
<1>3. /\ library' \in [Music!Slots -> Titles]
      /\ \A j \in Music!Slots : library'[j] = IF j = index THEN t
                                              ELSE IF index < j /\ j <= number THEN library[j-1] ELSE library[j]
  <2>1. \A j \in Music!Slots : index < j => j - 1 \in Music!Slots
    BY <1>2, MusicTypes
  <2> QED BY <1>1, <1>2, <2>1, MusicTypes DEF Music!CrunchDown
<1>4. number' \in MinSongs..MaxSongs
  BY <1>1, MusicTypes
<1>5. ASSUME NEW i \in 0..number, NEW j \in 0..number, i <= j
      PROVE  Fold[library'[i]] <= Fold[library'[j]]
  <2>1. number >= 0 /\ Belongs(t, 0, number - 1, index) /\ index \in 0..number
    BY <1>2, <1>5, MusicTypes
  <2>2. /\ \A k \in 0..number-1 : /\ Fold[library[k]] \in Int
                                  /\ k < index => Fold[library[k]] <= Fold[t]
                                  /\ k >= index => Fold[library[k]] >= Fold[t]
        /\ \A k, m \in 0..number-1 : k <= m => Fold[library[k]] <= Fold[library[m]]
    <3>1. \A k, m \in 0..number-1 : k <= m => Fold[library[k]] <= Fold[library[m]]
      BY DEF MusicInv, Ordered
    <3>2. Fold[t] \in Int /\ \A k \in 0..number-1 : Fold[library[k]] \in Int
      BY MusicTypes, SMTT(40)
    <3>3. CASE index <= number - 1 /\ Fold[library[index]] = Fold[t]
      BY <2>1, <3>1, <3>2, <3>3, MusicTypes
    <3>4. CASE \A k \in 0..number-1 : IF k < index THEN Fold[library[k]] < Fold[t] ELSE Fold[library[k]] > Fold[t]
      BY <3>1, <3>2, <3>4, <2>1, MusicTypes
    <3> QED BY <2>1, <3>3, <3>4 DEF Belongs
  <2>3. i \in Music!Slots /\ j \in Music!Slots /\ Fold[t] \in Int
    BY MusicTypes
  <2>4. /\ i < index => library'[i] = library[i]
        /\ i = index => library'[i] = t
        /\ i > index => library'[i] = library[i-1]
        /\ j < index => library'[j] = library[j]
        /\ j = index => library'[j] = t
        /\ j > index => library'[j] = library[j-1]
    BY <1>3, <2>1, <2>3, MusicTypes, SMTT(30)
  <2>5. CASE j < index
    BY <2>1, <2>2, <2>4, <2>5, <1>5, MusicTypes, SMTT(30)
  <2>6. CASE j = index
    BY <2>1, <2>2, <2>3, <2>4, <2>6, <1>5, MusicTypes
  <2>7. CASE j > index
    <3>1. j - 1 \in 0..number-1 /\ j - 1 >= index
      BY <2>1, <2>7, MusicTypes
    <3>2. CASE i < index
      <4>1. i \in 0..number-1 /\ i <= j - 1
        BY <2>1, <2>7, <3>2, MusicTypes
      <4> QED BY <2>2, <2>4, <2>7, <3>1, <3>2, <4>1
    <3>3. CASE i = index
      BY <2>2, <2>4, <2>7, <3>1, <3>3
    <3>4. CASE i > index
      <4>1. i - 1 \in 0..number-1 /\ i - 1 <= j - 1
        BY <2>1, <3>4, <1>5, MusicTypes
      <4> QED BY <2>2, <2>4, <2>7, <3>1, <3>4, <4>1
    <3> QED BY <3>2, <3>3, <3>4, <2>1, MusicTypes
  <2> QED BY <2>1, <2>5, <2>6, <2>7, MusicTypes
<1>6. Ordered(0, number - 1)'
  <2>1. number' - 1 = number
    BY <1>1, MusicTypes
  <2> QED BY <1>5, <2>1 DEF Ordered
<1> QED BY <1>1, <1>3, <1>4, <1>6

\* What is answered.
LEMMA AnswersAre ==
    ASSUME 0 \in Titles
    PROVE  Music!Silent \in Answers /\ \A t \in Titles : <<"yes", t>> \in Answers /\ <<"no", t>> \in Answers
  BY Zenon DEF Music!Silent, Answers

\* The type of the module follows.
LEMMA MusicTypesAre == MusicTypeOK => Music!TypeOK
  BY Zenon DEF MusicTypeOK, Music!TypeOK, Answers

\* The invariant is kept by every command and by the passage through the file.
LEMMA MusicStep == MusicInv /\ [Music!Next]_musicVars => MusicInv'
<1> SUFFICES ASSUME MusicInv, [Music!Next]_musicVars PROVE MusicInv'
  OBVIOUS
<1>0. /\ musicPc \in {"load", "menu", "store", "off"}
      /\ file \in Seq(Titles) /\ Len(file) <= MaxSongs /\ loaded \in 0..MaxSongs
      /\ answer \in Answers
      /\ Ordered(0, number - 1)
      /\ musicPc = "load" => number = loaded /\ loaded <= Len(file)
  BY DEF MusicInv, MusicTypeOK
<1>silent. Music!Silent \in Answers /\ \A t \in Titles : <<"yes", t>> \in Answers /\ <<"no", t>> \in Answers
  BY AnswersAre, MusicTypes
<1>1. CASE UNCHANGED musicVars
  BY <1>1 DEF musicVars, MusicInv, MusicTypeOK, Ordered
<1>2. CASE Music!LoadSong
  <2>1. /\ musicPc = "load" /\ loaded < Len(file) /\ Music!AddSong(file[loaded + 1])
        /\ loaded' = loaded + 1 /\ musicPc' = musicPc /\ file' = file /\ answer' = answer
    BY <1>2 DEF Music!LoadSong
  <2>2. loaded + 1 \in 1..Len(file) /\ number < MaxSongs /\ number = loaded
    <3>1. Len(file) \in Nat /\ MaxSongs \in Nat
      BY <1>0, MusicTypes
    <3> QED BY <1>0, <2>1, <3>1
  <2>20. file[loaded + 1] \in Titles
    BY <1>0, <2>2
  <2>3. /\ library' \in [Music!Slots -> Titles] /\ number' = number + 1
        /\ number' \in MinSongs..MaxSongs /\ Ordered(0, number - 1)'
    BY <2>1, <2>2, <2>20, SongAdded
  <2>4. loaded' \in 0..MaxSongs /\ loaded' <= Len(file')
    <3>1. Len(file) \in Nat /\ MaxSongs \in Nat
      BY <1>0, MusicTypes
    <3> QED BY <1>0, <2>1, <2>2, <3>1
  <2> QED BY <1>0, <2>1, <2>2, <2>3, <2>4 DEF MusicInv, MusicTypeOK
<1>3. CASE Music!LoadEnds
  BY <1>0, <1>3, MusicTypes DEF Music!LoadEnds, MusicInv, MusicTypeOK, Ordered
<1>4. ASSUME NEW t \in Titles, Music!Insert(t) PROVE MusicInv'
  <2>1. /\ musicPc = "menu" /\ number < MaxSongs /\ Music!AddSong(t)
        /\ answer' = Music!Silent /\ musicPc' = musicPc /\ file' = file /\ loaded' = loaded
    BY <1>4 DEF Music!Insert
  <2>2. /\ library' \in [Music!Slots -> Titles] /\ number' = number + 1
        /\ number' \in MinSongs..MaxSongs /\ Ordered(0, number - 1)'
    BY <2>1, SongAdded
  <2> QED BY <1>0, <1>silent, <2>1, <2>2 DEF MusicInv, MusicTypeOK
<1>5. ASSUME NEW t \in Titles, Music!Delete(t) PROVE MusicInv'
  <2> DEFINE index == Music!Find(t)
  <2>1. /\ musicPc = "menu" /\ number > MinSongs
        /\ library' = IF index < number THEN [library EXCEPT ![index] = library[index + 1]] ELSE library
        /\ number' = number - 1 /\ answer' = <<"yes", t>>
        /\ musicPc' = musicPc /\ file' = file /\ loaded' = loaded
    BY <1>5 DEF Music!Delete, Music!CrunchUp
  <2>2. index \in Music!Slots
    BY FindIs
  <2> HIDE DEF index
  <2>3. /\ library' \in [Music!Slots -> Titles]
        /\ \A j \in Music!Slots : library'[j] = IF j = index /\ index < number THEN library[index+1] ELSE library[j]
    <3>1. index < number => index + 1 \in Music!Slots
      BY <2>2, MusicTypes
    <3> QED BY <2>1, <2>2, <3>1, MusicTypes
  <2>4. number' \in MinSongs..MaxSongs
    BY <2>1, MusicTypes
  <2>5. ASSUME NEW i \in 0..number-2, NEW j \in 0..number-2, i <= j
        PROVE  Fold[library'[i]] <= Fold[library'[j]]
    <3>0. \A k \in 0..number-1 : Fold[library[k]] \in Int
      BY MusicTypes
    <3>1. \A k, m \in 0..number-1 : k <= m => Fold[library[k]] <= Fold[library[m]]
      BY <1>0 DEF Ordered
    <3>2. i \in Music!Slots /\ j \in Music!Slots
      BY MusicTypes
    <3>3. PICK k \in 0..number-1 : library'[i] = library[k] /\ k = IF i = index THEN i + 1 ELSE i
      <4>1. number \in Int /\ i < number /\ i \in 0..number-1 /\ i + 1 \in 0..number-1
        BY MusicTypes
      <4>2. CASE i = index
        BY <2>3, <3>2, <4>1, <4>2
      <4>3. CASE i # index
        BY <2>3, <3>2, <4>1, <4>3
      <4> QED BY <4>2, <4>3
    <3>4. PICK m \in 0..number-1 : library'[j] = library[m] /\ m = IF j = index THEN j + 1 ELSE j
      <4>1. number \in Int /\ j < number /\ j \in 0..number-1 /\ j + 1 \in 0..number-1
        BY MusicTypes
      <4>2. CASE j = index
        BY <2>3, <3>2, <4>1, <4>2
      <4>3. CASE j # index
        BY <2>3, <3>2, <4>1, <4>3
      <4> QED BY <4>2, <4>3
    <3>5. CASE i = j
      BY <3>0, <3>1, <3>3, <3>4, <3>5
    <3>6. CASE i < j
      <4>1. k <= m
        BY <3>3, <3>4, <3>6
      <4> QED BY <3>1, <3>3, <3>4, <4>1
    <3> QED BY <2>5, <3>5, <3>6
  <2>6. Ordered(0, number - 1)'
    <3>1. number' - 1 = number - 2
      BY <2>1, MusicTypes
    <3> QED BY <2>5, <3>1 DEF Ordered
  <2>7. answer' \in Answers
    BY <1>silent, <2>1
  <2> QED BY <1>0, <2>1, <2>3, <2>4, <2>6, <2>7 DEF MusicInv, MusicTypeOK
<1>6. ASSUME NEW t \in Titles, Music!LookUp(t) \/ Music!Misses(t) PROVE MusicInv'
  <2>1. /\ musicPc = "menu" /\ answer' \in Answers
        /\ musicPc' = musicPc /\ library' = library /\ number' = number /\ file' = file /\ loaded' = loaded
    <3>2. CASE Music!LookUp(t)
      BY <1>silent, <3>2 DEF Music!LookUp
    <3>3. CASE Music!Misses(t)
      BY <1>silent, <3>3 DEF Music!Misses
    <3> QED BY <1>6, <3>2, <3>3
  <2> QED BY <1>0, <2>1, MusicTypes DEF MusicInv, MusicTypeOK, Ordered
<1>7. CASE Music!Quit
  <2>1. /\ musicPc' = "store" /\ file' = <<>> /\ answer' = Music!Silent
        /\ library' = library /\ number' = number /\ loaded' = loaded
    BY <1>7 DEF Music!Quit
  <2>2. file' \in Seq(Titles) /\ Len(file') = 0 /\ Len(file') <= MaxSongs
    BY <2>1, MusicTypes
  <2> QED BY <1>0, <1>silent, <2>1, <2>2, MusicTypes DEF MusicInv, MusicTypeOK, Ordered
<1>8. CASE Music!Store
  <2>1. /\ musicPc' = "off" /\ file' = [i \in 1..number |-> library[i-1]]
        /\ library' = library /\ number' = number /\ loaded' = loaded /\ answer' = answer
    BY <1>8 DEF Music!Store
  <2>2. file' \in Seq(Titles) /\ Len(file') <= MaxSongs
    <3>1. \A i \in 1..number : library[i-1] \in Titles
      BY MusicTypes
    <3>2. CASE number >= 0
      BY <2>1, <3>1, <3>2, MusicTypes, SMTT(40)
    <3>3. CASE number < 0
      <4>1. file' = <<>>
        BY <2>1, <3>3, MusicTypes
      <4> QED BY <4>1, MusicTypes
    <3> QED BY <3>2, <3>3, MusicTypes
  <2> QED BY <1>0, <2>1, <2>2, MusicTypes DEF MusicInv, MusicTypeOK, Ordered
<1>9. CASE Music!Kill
  <2>1. /\ musicPc' = "off" /\ answer' = Music!Silent
        /\ library' = library /\ number' = number /\ file' = file /\ loaded' = loaded
    BY <1>9 DEF Music!Kill
  <2> QED BY <1>0, <1>silent, <2>1, MusicTypes DEF MusicInv, MusicTypeOK, Ordered
<1>10. CASE Music!Start
  <2>1. /\ musicPc' = "load" /\ loaded' = 0 /\ number' = 0 /\ library' = [i \in Music!Slots |-> 0]
        /\ file' = file /\ answer' = answer
    BY <1>10 DEF Music!Start
  <2>2. library' \in [Music!Slots -> Titles] /\ number' \in MinSongs..MaxSongs /\ Ordered(0, number - 1)'
    BY <2>1, MusicTypes DEF Ordered
  <2>3. loaded' \in 0..MaxSongs /\ loaded' <= Len(file')
    <3>1. Len(file) \in Nat /\ MaxSongs \in Nat
      BY <1>0, MusicTypes
    <3> QED BY <2>1, <3>1
  <2> QED BY <1>0, <2>1, <2>2, <2>3 DEF MusicInv, MusicTypeOK
<1> QED BY <1>1, <1>2, <1>3, <1>4, <1>5, <1>6, <1>7, <1>8, <1>9, <1>10
        DEF Music!Next, Music!Command

\* It always holds.
LEMMA MusicAlways == Spec => []MusicInv
<1>1. Init => MusicInv
  <2> SUFFICES ASSUME Init PROVE MusicInv
    OBVIOUS
  <2>1. /\ musicPc = "load" /\ file = <<>> /\ loaded = 0 /\ number = 0 /\ answer = Music!Silent
        /\ library = [i \in Music!Slots |-> 0]
    BY DEF Init, Music!Init
  <2>2. 0 \in Titles /\ MaxSongs \in Nat /\ MinSongs \in Int /\ MinSongs < 0
    BY ConstantsAssumption DEF Music!TitlesAssumption, Music!BoundsAssumption
  <2>3. library \in [Music!Slots -> Titles] /\ number \in MinSongs..MaxSongs /\ loaded \in 0..MaxSongs
    BY <2>1, <2>2
  <2>4. file \in Seq(Titles) /\ Len(file) = 0 /\ Len(file) <= MaxSongs
    BY <2>1, <2>2
  <2>5. answer \in Answers
    BY <2>1, <2>2, AnswersAre
  <2>6. Ordered(0, number - 1)
    BY <2>1 DEF Ordered
  <2> QED BY <2>1, <2>3, <2>4, <2>5, <2>6 DEF MusicInv, MusicTypeOK
<1> QED BY <1>1, MusicStep, OneProgramRuns, PTL DEF Spec

\* A song that is listed is found, for any number of songs and any titles, if
\* no other title that differs from it in case only is listed (MusicLibrary.c,
\* lines 131-143 and 165-171).
THEOREM FindsWhatIsListedAlways == Spec => []FindsWhatIsListed
<1>1. MusicInv => FindsWhatIsListed
  <2> SUFFICES ASSUME MusicInv, NEW i \in 0..number-1,
                      \A j \in 0..number-1 : Fold[library[j]] = Fold[library[i]] => library[j] = library[i]
               PROVE  Music!Exists(library[i])
    BY DEF FindsWhatIsListed, Music!FindsWhatIsListed, Music!Listed
  <2> DEFINE r == Music!Find(library[i])
  <2>1. number >= 0 /\ library[i] \in Titles /\ Fold[library[i]] \in Int
    BY MusicTypes
  <2>2. Belongs(library[i], 0, number - 1, r)
    BY <2>1, FindIs
  <2> HIDE DEF r
  <2>3. r \in 0..number /\ r <= number - 1 /\ Fold[library[r]] = Fold[library[i]]
    BY <2>1, <2>2, MusicTypes DEF Belongs
  <2>4. library[r] = library[i]
    BY <2>3, MusicTypes
  <2> QED BY <2>4 DEF Music!Exists, r
<1> QED BY <1>1, MusicAlways, PTL

\* Two finite sets between which there is a bijection have the same size.
LEMMA SameNumber ==
    ASSUME NEW S, NEW T, IsFiniteSet(S), NEW f \in [S -> T],
           \A a, b \in S : f[a] = f[b] => a = b,
           \A y \in T : \E a \in S : f[a] = y
    PROVE  IsFiniteSet(T) /\ Cardinality(T) = Cardinality(S)
<1>1. f \in Bijection(S, T)
  BY DEF Bijection, Injection, Surjection, IsInjective
<1>2. ExistsBijection(S, T)
  BY <1>1 DEF ExistsBijection
<1> QED BY <1>2, FS_Bijection

\* An insertion changes the number of songs of no title but its own.
LEMMA SongCounted ==
    ASSUME MusicInv, NEW t \in Titles, number >= 0, number < MaxSongs, Music!AddSong(t), NEW u \in Titles
    PROVE  Cardinality({i \in 0..number'-1 : library'[i] = u})
               = Cardinality({i \in 0..number-1 : library[i] = u}) + (IF u = t THEN 1 ELSE 0)
<1> DEFINE index == Music!Find(t)
           A == {i \in 0..number-1 : library[i] = u}
           B == {i \in 0..number : library'[i] = u}
           f == [i \in A |-> IF i < index THEN i ELSE i + 1]
<1>1. /\ library' = [Music!CrunchDown(index) EXCEPT ![index] = t]
      /\ number' = number + 1
  BY DEF Music!AddSong
<1>2. index \in Music!Slots /\ index \in 0..number /\ number \in Nat
  BY FindIs, MusicTypes
<1> HIDE DEF index
<1>3. \A j \in 0..number : library'[j] = IF j = index THEN t
                                         ELSE IF index < j THEN library[j-1] ELSE library[j]
  <2>1. \A j \in Music!Slots : index < j => j - 1 \in Music!Slots
    BY <1>2, MusicTypes
  <2>2. \A j \in 0..number : j \in Music!Slots /\ j <= number
    BY <1>2, MusicTypes
  <2> QED BY <1>1, <1>2, <2>1, <2>2, MusicTypes DEF Music!CrunchDown
<1>4. IsFiniteSet(A) /\ Cardinality(A) \in Nat
  <2>1. IsFiniteSet(0..number-1)
    BY <1>2, FS_Interval
  <2>2. IsFiniteSet(A)
    BY <2>1, FS_Subset
  <2> QED BY <2>2, FS_CardinalityType
<1>5. IsFiniteSet(B \ {index}) /\ Cardinality(B \ {index}) = Cardinality(A)
  <2>1. f \in [A -> B \ {index}]
    <3> SUFFICES ASSUME NEW i \in A PROVE f[i] \in B \ {index}
      OBVIOUS
    <3>1. i \in 0..number-1 /\ library[i] = u
      OBVIOUS
    <3>2. CASE i < index
      BY <1>2, <1>3, <3>1, <3>2
    <3>3. CASE i >= index
      <4>1. i + 1 \in 0..number /\ index < i + 1 /\ (i + 1) - 1 = i /\ f[i] = i + 1
        BY <1>2, <3>1, <3>3
      <4>2. library'[i+1] = u
        BY <1>2, <1>3, <3>1, <4>1
      <4> QED BY <1>2, <4>1, <4>2
    <3> QED BY <1>2, <3>1, <3>2, <3>3
  <2>2. \A a, b \in A : f[a] = f[b] => a = b
    BY <1>2
  <2>3. ASSUME NEW y \in B \ {index} PROVE \E a \in A : f[a] = y
    <3>1. y \in 0..number /\ library'[y] = u /\ y # index
      OBVIOUS
    <3>2. CASE y < index
      <4>1. y \in A /\ f[y] = y
        BY <1>2, <1>3, <3>1, <3>2
      <4> QED BY <4>1
    <3>3. CASE y > index
      <4>1. y - 1 \in 0..number-1 /\ ~(y - 1 < index) /\ (y - 1) + 1 = y
        BY <1>2, <3>1, <3>3
      <4>2. library[y-1] = u
        BY <1>2, <1>3, <3>1, <3>3
      <4>3. y - 1 \in A /\ f[y - 1] = y
        BY <4>1, <4>2
      <4> QED BY <4>3
    <3> QED BY <1>2, <3>1, <3>2, <3>3
  <2> HIDE DEF f, A, B
  <2> QED BY <1>4, <2>1, <2>2, <2>3, SameNumber
<1>6. index \in B <=> u = t
  BY <1>2, <1>3
<1>7. Cardinality(B) = Cardinality(A) + (IF u = t THEN 1 ELSE 0)
  <2>1. CASE u = t
    <3>1. B = (B \ {index}) \cup {index} /\ index \notin B \ {index}
      BY <1>6, <2>1
    <3> HIDE DEF A, B
    <3>2. Cardinality(B) = Cardinality(B \ {index}) + 1
      BY <1>5, <3>1, FS_AddElement
    <3> QED BY <1>4, <1>5, <2>1, <3>2
  <2>2. CASE u # t
    <3>1. B = B \ {index}
      BY <1>6, <2>2
    <3> HIDE DEF A, B
    <3> QED BY <1>4, <1>5, <2>2, <3>1
  <2> QED BY <2>1, <2>2
<1>8. number' - 1 = number
  BY <1>1, <1>2
<1> QED BY <1>7, <1>8

\* An insertion counts one song more, and the others as before.
LEMMA InsertionCounts ==
    ASSUME MusicInv, Music!Next, number >= 0, number' = number + 1
    PROVE  \E t \in Titles : \A u \in Titles :
             Music!Count(u)' = Music!Count(u) + (IF u = t THEN 1 ELSE 0)
<1>1. PICK t \in Titles : Music!AddSong(t) /\ number < MaxSongs
  <2>0. number \in Int
    BY MusicTypes
  <2>1. CASE Music!LoadSong
    <3>1. /\ musicPc = "load" /\ loaded < Len(file) /\ Music!AddSong(file[loaded + 1])
      BY <2>1 DEF Music!LoadSong
    <3>2. /\ file \in Seq(Titles) /\ Len(file) <= MaxSongs /\ loaded \in 0..MaxSongs /\ number = loaded
      BY <3>1 DEF MusicInv, MusicTypeOK
    <3>3. MaxSongs \in Nat /\ Len(file) \in Nat
      BY <3>2, MusicTypes
    <3>4. loaded + 1 \in 1..Len(file) /\ number < MaxSongs
      BY <3>1, <3>2, <3>3
    <3>5. file[loaded + 1] \in Titles
      BY <3>2, <3>4
    <3> QED BY <3>1, <3>4, <3>5
  <2>2. ASSUME NEW u \in Titles, Music!Insert(u)
        PROVE  \E t \in Titles : Music!AddSong(t) /\ number < MaxSongs
    BY <2>2 DEF Music!Insert
  <2>3. CASE Music!LoadEnds \/ Music!Quit \/ Music!Store \/ Music!Kill
    BY <2>0, <2>3 DEF Music!LoadEnds, Music!Quit, Music!Store, Music!Kill
  <2>4. CASE Music!Start
    BY <2>0, <2>4 DEF Music!Start
  <2>5. ASSUME NEW u \in Titles, Music!Delete(u) \/ Music!LookUp(u) \/ Music!Misses(u) PROVE FALSE
    BY <2>0, <2>5 DEF Music!Delete, Music!LookUp, Music!Misses
  <2> QED BY <2>1, <2>2, <2>3, <2>4, <2>5 DEF Music!Next, Music!Command
<1>2. \A u \in Titles : Music!Count(u)' = Music!Count(u) + (IF u = t THEN 1 ELSE 0)
  <2> SUFFICES ASSUME NEW u \in Titles
               PROVE  Music!Count(u)' = Music!Count(u) + (IF u = t THEN 1 ELSE 0)
    OBVIOUS
  <2>1. Cardinality({i \in 0..number'-1 : library'[i] = u})
            = Cardinality({i \in 0..number-1 : library[i] = u}) + (IF u = t THEN 1 ELSE 0)
    BY <1>1, SongCounted
  <2>2. Music!Count(u) = Cardinality({i \in 0..number-1 : library[i] = u})
    BY Zenon DEF Music!Count, Music!Listed, Music!Cardinality, Cardinality, Music!IsFiniteSet, IsFiniteSet
  <2>3. Music!Count(u)' = Cardinality({i \in 0..number'-1 : library'[i] = u})
    BY Zenon DEF Music!Count, Music!Listed, Music!Cardinality, Cardinality, Music!IsFiniteSet, IsFiniteSet
  <2> QED BY <2>1, <2>2, <2>3, Zenon
<1> QED BY <1>2

\* An insertion, by command or from the file, puts one song in, keeps all others
\* and leaves them sorted, for any number of songs in any order of titles, after
\* faulty removals too, as long as none of these has taken the counter below 0;
\* where it has, nothing is listed behind the insertion (MusicLibrary.c, lines
\* 145-164 and 206-227).
THEOREM InsertionLosesNothingAlways == Spec => InsertionLosesNothing
<1>1. MusicInv /\ [Music!Next]_musicVars =>
        [number' = number + 1 =>
           IF number < 0 THEN Music!Listed' = {}
           ELSE /\ Music!Sorted'
                /\ \E t \in Titles : \A u \in Titles :
                      Music!Count(u)' = Music!Count(u) + (IF u = t THEN 1 ELSE 0)]_musicVars
  <2> SUFFICES ASSUME MusicInv, Music!Next, number' = number + 1
               PROVE  IF number < 0 THEN Music!Listed' = {}
                      ELSE /\ Music!Sorted'
                           /\ \E t \in Titles : \A u \in Titles :
                                 Music!Count(u)' = Music!Count(u) + (IF u = t THEN 1 ELSE 0)
    OBVIOUS
  <2>1. number \in Int
    BY MusicTypes
  <2>2. CASE number < 0
    BY <2>1, <2>2 DEF Music!Listed
  <2>3. CASE number >= 0
    <3>1. Music!Sorted'
      BY MusicStep DEF MusicInv, Ordered, Music!Sorted, Music!Listed
    <3>2. \E t \in Titles : \A u \in Titles :
              Music!Count(u)' = Music!Count(u) + (IF u = t THEN 1 ELSE 0)
      BY <2>3, InsertionCounts
    <3>3. ~(number < 0)
      BY <2>1, <2>3
    <3> QED BY <3>1, <3>2, <3>3, Zenon
  <2> QED BY <2>1, <2>2, <2>3
<1>2. Music!vars = musicVars
  BY DEF Music!vars, musicVars
<1> QED BY <1>1, <1>2, MusicAlways, OneProgramRuns, PTL
    DEF Spec, InsertionLosesNothing, Music!InsertionLosesNothing, Music!vars, musicVars

-----------------------------------------------------------------------------
(* string.h                                                                *)

\* A loop over the positions in D, one after the other, that stops at the first
\* one in "stop".
Loop(D, stop, value) == Along(D, stop, [i \in D |-> i + 1], value)

\* Loop satisfies its equation ...
LEMMA LoopIs ==
    ASSUME NEW D, NEW stop, stop \in SUBSET D, NEW value, \A i \in D \ stop : i + 1 \in D
    PROVE  Loop(D, stop, value) =
               [i \in D |-> IF i \in stop THEN value[i] ELSE Loop(D, stop, value)[i+1]]
<1> DEFINE go == [i \in D |-> i + 1]
           f == Along(D, stop, go, value)
<1>0. \A i \in D \ stop : go[i] \in D
  OBVIOUS
<1>1. \A i \in D : go[i] = i + 1
  OBVIOUS
<1>2. f = [i \in D |-> IF i \in stop THEN value[i] ELSE f[go[i]]]
  <2> HIDE DEF go
  <2> QED BY ONLY <1>0, stop \in SUBSET D, TailRecursion
<1> HIDE DEF f, go
<1>3. \A i \in D : f[i] = IF i \in stop THEN value[i] ELSE f[i+1]
  BY <1>1, <1>2
<1>4. f = [i \in D |-> f[i]]
  BY <1>2
<1>5. f = [i \in D |-> IF i \in stop THEN value[i] ELSE f[i+1]]
  BY <1>3, <1>4
<1> QED BY <1>5 DEF f, go, Loop

\* ... and has the value of the first place of "stop" from i on.
LEMMA LoopEnds ==
    ASSUME NEW n \in Nat, NEW stop, NEW value, NEW f,
           \A i \in 1..n+1 : f[i] = IF i \in stop THEN value[i] ELSE f[i+1],
           NEW k \in stop, k \in 1..n+1, \A j \in 1..k-1 : j \notin stop
    PROVE  f[1] = value[k]
<1> DEFINE T == {d \in Nat : d < k /\ f[k-d] # value[k]}
<1>1. k - 1 \in Nat /\ k - (k - 1) = 1 /\ k - 1 < k
  OBVIOUS
<1> SUFFICES ASSUME T # {} PROVE FALSE
  BY <1>1
<1>2. PICK d \in T : \A e \in T : d <= e
  <2> HIDE DEF T
  <2>1. T \in SUBSET Nat
    BY DEF T
  <2> QED BY <2>1, LeastElement
<1>3. d \in Nat /\ d < k /\ f[k-d] # value[k]
  OBVIOUS
<1>4. d # 0
  <2>1. f[k] = value[k]
    OBVIOUS
  <2>2. k - 0 = k
    OBVIOUS
  <2> QED BY <1>3, <2>1, <2>2
<1>5. d - 1 \in Nat /\ d - 1 < k /\ k - (d - 1) = (k - d) + 1 /\ k - d \in 1..k-1 /\ k - d \in 1..n+1
  BY <1>3, <1>4
<1>6. f[(k - d) + 1] = value[k]
  <2>1. d - 1 \notin T
    BY <1>2, <1>5
  <2> QED BY <2>1, <1>5
<1> HIDE DEF T
<1>7. f[k - d] = f[(k - d) + 1]
  BY <1>5
<1> QED BY <1>3, <1>6, <1>7

\* Least of a set is the element that is below all others.
LEMMA LeastIs ==
    ASSUME NEW S \in SUBSET Int, NEW m \in S, \A n \in S : m <= n
    PROVE  String!Least(S) = m
<1>1. \A a \in S : (\A n \in S : a <= n) => a = m
  OBVIOUS
<1>2. PICK a \in S : a = String!Least(S) /\ \A n \in S : a <= n
  BY DEF String!Least
<1> QED BY <1>1, <1>2

\* What is known of a string.
LEMMA StringsAre ==
    ASSUME NEW s \in String!Strings
    PROVE  /\ MaxString \in Nat /\ SizeMod \in Nat /\ SizeMod > MaxString + 1
           /\ Len(s) \in 0..MaxString /\ s \in Seq(Chars) /\ s \in [1..Len(s) -> Chars]
           /\ Chars \subseteq (-128..127) \ {0}
           /\ \A i \in 1..Len(s) : s[i] \in Chars /\ s[i] \in -128..127 /\ s[i] # 0 /\ String!At(s, i) = s[i]
           /\ \A i \in Nat \ {0} : String!At(s, i) = 0 <=> i > Len(s)
           /\ \A i \in Nat \ {0} : String!At(s, i) \in -128..127
<1>0. /\ MaxString \in Nat /\ SizeMod \in Nat /\ SizeMod > MaxString + 1
      /\ Chars \subseteq (-128..127) \ {0}
  BY ConstantsAssumption DEF String!CStringAssumption
<1>1. PICK m \in 0..MaxString : s \in [1..m -> Chars]
  BY Zenon DEF String!Strings
<1>2. m \in Nat /\ s \in Seq(Chars) /\ Len(s) = m
  BY <1>0, <1>1
<1>3. \A i \in 1..Len(s) : s[i] \in Chars /\ s[i] \in -128..127 /\ s[i] # 0
  BY <1>0, <1>1, <1>2
<1>4. \A i \in 1..Len(s) : String!At(s, i) = s[i]
  BY <1>2 DEF String!At
<1>5. \A i \in Nat \ {0} : String!At(s, i) = IF i <= Len(s) THEN s[i] ELSE 0
  BY DEF String!At
<1>6. ASSUME NEW i \in Nat \ {0} PROVE (String!At(s, i) = 0 <=> i > Len(s)) /\ String!At(s, i) \in -128..127
  <2>1. String!At(s, i) = IF i <= Len(s) THEN s[i] ELSE 0
    BY <1>5
  <2>2. CASE i <= Len(s)
    <3>1. i \in 1..Len(s)
      BY <1>2, <2>2
    <3> QED BY <1>2, <1>3, <2>1, <2>2, <3>1
  <2>3. CASE i > Len(s)
    BY <1>2, <2>1, <2>3
  <2> QED BY <1>2, <2>2, <2>3
<1> QED BY <1>0, <1>1, <1>2, <1>3, <1>4, <1>6, SMTT(40)

\* The conversion of what is known of a string to its type.
LEMMA IsString ==
    ASSUME NEW m \in 0..MaxString, NEW s \in [1..m -> Chars]
    PROVE  s \in String!Strings
  BY Zenon DEF String!Strings

\* A loop that looks for the first of the positions in S.
Seek(n, S) == Loop(1..n+1, S \cup {n + 1}, [i \in 1..n+1 |-> IF i = n + 1 THEN 0 ELSE i])

\* Seek satisfies its equation ...
LEMMA SeekIs ==
    ASSUME NEW n \in Nat, NEW S, S \in SUBSET (1..n)
    PROVE  Seek(n, S) = [i \in 1..n+1 |-> IF i = n + 1 THEN 0 ELSE IF i \in S THEN i ELSE Seek(n, S)[i+1]]
<1> DEFINE D == 1..n+1
           stop == S \cup {n + 1}
           value == [i \in D |-> IF i = n + 1 THEN 0 ELSE i]
           f == Loop(D, stop, value)
<1>1. f = [i \in D |-> IF i \in stop THEN value[i] ELSE f[i+1]]
  <2>1. stop \in SUBSET D /\ \A i \in D \ stop : i + 1 \in D
    OBVIOUS
  <2> HIDE DEF D, stop, value
  <2> QED BY ONLY <2>1, LoopIs
<1> HIDE DEF f
<1>2. \A i \in 1..n+1 : f[i] = IF i = n + 1 THEN 0 ELSE IF i \in S THEN i ELSE f[i+1]
  BY <1>1
<1>3. f = [i \in 1..n+1 |-> f[i]]
  BY <1>1
<1>4. f = [i \in 1..n+1 |-> IF i = n + 1 THEN 0 ELSE IF i \in S THEN i ELSE f[i+1]]
  BY <1>2, <1>3
<1> QED BY <1>4 DEF f, Seek

\* ... and finds the least position there is, or none.
LEMMA FirstFound ==
    ASSUME NEW n \in Nat, NEW S \in SUBSET (1..n), NEW f,
           \A i \in 1..n+1 : f[i] = IF i = n + 1 THEN 0 ELSE IF i \in S THEN i ELSE f[i+1]
    PROVE  f[1] = String!First(S)
<1> DEFINE stop == S \cup {n + 1}
           value == [i \in 1..n+1 |-> IF i = n + 1 THEN 0 ELSE i]
<1>1. \A i \in 1..n+1 : f[i] = IF i \in stop THEN value[i] ELSE f[i+1]
  OBVIOUS
<1>2. stop \in SUBSET Nat /\ stop # {}
  OBVIOUS
<1>3. PICK k \in stop : \A m \in stop : k <= m
  <2> HIDE DEF stop
  <2> QED BY <1>2, LeastElement
<1>4. k \in 1..n+1 /\ \A j \in 1..k-1 : j \notin stop
  BY <1>2, <1>3
<1>5. f[1] = value[k]
  <2> HIDE DEF stop, value
  <2> QED BY <1>1, <1>3, <1>4, LoopEnds
<1>6. CASE S = {}
  BY <1>5, <1>6 DEF String!First
<1>7. CASE S # {}
  <2>1. k \in S /\ k # n + 1 /\ \A m \in S : k <= m
    <3>1. PICK m \in S : TRUE
      BY <1>7
    <3>2. m \in 1..n /\ k <= m /\ k \in Nat
      BY <1>2, <1>3, <3>1
    <3>3. k # n + 1
      BY <3>2
    <3> QED BY <1>3, <3>3
  <2>2. String!Least(S) = k
    BY <2>1, LeastIs
  <2> QED BY <1>4, <1>5, <1>7, <2>1, <2>2 DEF String!First
<1> QED BY <1>6, <1>7

\* strchr
Chr(s, c) ==
    CHOOSE f : f = [i \in 1..Len(s) + 1 |->
                        IF String!At(s, i) = 0 THEN 0 ELSE IF s[i] = c THEN i ELSE f[i + 1]]

\* strchr finds the first occurrence.
LEMMA StrchrFinds ==
    ASSUME NEW s \in String!Strings, NEW c
    PROVE  String!Strchr(s, c) = String!First({i \in 1..Len(s) : s[i] = c})
<1> DEFINE S == {i \in 1..Len(s) : s[i] = c}
           n == Len(s)
           f == Seek(n, S)
<1>1. n \in Nat /\ \A i \in 1..n+1 : String!At(s, i) = 0 <=> i = n + 1
  BY StringsAre
<1>2. f = [i \in 1..n+1 |-> IF i = n + 1 THEN 0 ELSE IF i \in S THEN i ELSE f[i+1]]
  <2>1. S \in SUBSET (1..n)
    OBVIOUS
  <2> HIDE DEF S, n
  <2> QED BY <1>1, <2>1, SeekIs
<1>3. f = [i \in 1..n+1 |-> IF String!At(s, i) = 0 THEN 0 ELSE IF s[i] = c THEN i ELSE f[i+1]]
  <2> HIDE DEF f
  <2>1. \A i \in 1..n+1 : f[i] = IF String!At(s, i) = 0 THEN 0 ELSE IF s[i] = c THEN i ELSE f[i+1]
    BY <1>1, <1>2
  <2>2. f = [i \in 1..n+1 |-> f[i]]
    BY <1>2
  <2> QED BY <2>1, <2>2
<1> HIDE DEF f
<1>4. Chr(s, c) = [i \in 1..n+1 |-> IF String!At(s, i) = 0 THEN 0 ELSE IF s[i] = c THEN i ELSE Chr(s, c)[i+1]]
  BY <1>3 DEF Chr
<1>5. \A i \in 1..n+1 : Chr(s, c)[i] = IF i = n + 1 THEN 0 ELSE IF i \in S THEN i ELSE Chr(s, c)[i+1]
  BY <1>1, <1>4
<1>6. Chr(s, c)[1] = String!First(S)
  <2>1. S \in SUBSET (1..n)
    OBVIOUS
  <2> HIDE DEF S, n
  <2> QED BY <1>1, <1>5, <2>1, FirstFound
<1>7. String!Strchr(s, c) = Chr(s, c)[1]
  BY DEF String!Strchr, Chr
<1> QED BY <1>6, <1>7

\* The loop of strncmp ends at the first position where the strings differ or
\* one of them ends.
Differ(s, t, i) == String!At(s, i) = 0 \/ String!At(t, i) = 0 \/ String!At(s, i) # String!At(t, i)

NcmpBody(s, t, f) ==
    [rest \in (1..MaxString + 1) \X (0..SizeMod - 1) |->
            LET i == rest[1]  left == (rest[2] - 1) % SizeMod IN
            IF String!At(s, i) = 0 \/ String!At(t, i) = 0 \/ String!At(s, i) # String!At(t, i)
            THEN String!At(s, i) - String!At(t, i)
            ELSE IF left = 0 THEN 0 ELSE f[<<i + 1, left>>]]
Ncmp(s, t) == CHOOSE f : f = NcmpBody(s, t, f)

\* The function in the definition of strncmp ...
LEMMA NcmpIs ==
    ASSUME NEW s, NEW t, NEW n
    PROVE  String!Strncmp(s, t, n) = Ncmp(s, t)[<<1, n>>]
  BY DEF String!Strncmp, Ncmp, NcmpBody

\* The count goes one down, and below 0 to the largest of size_t.
LEMMA OneLess ==
    ASSUME NEW m \in Nat, m > 1
    PROVE  /\ \A k \in 1..m-1 : (k - 1) % m = k - 1
           /\ \A k \in {0} : (k - 1) % m = m - 1
           /\ \A k \in 0..m-1 : (k - 1) % m \in 0..m-1
<1>1. \A k \in 1..m-1 : (k - 1) % m = k - 1
  BY SMT
<1>2. \A k \in {0} : (k - 1) % m = m - 1
  BY SMT
<1> QED BY <1>1, <1>2

\* ... satisfies its equation ...
LEMMA NcmpExists ==
    ASSUME NEW s \in String!Strings, NEW t \in String!Strings
    PROVE  Ncmp(s, t) = NcmpBody(s, t, Ncmp(s, t))
<1> DEFINE D == (1..MaxString + 1) \X (0..SizeMod - 1)
           Left(x) == (x[2] - 1) % SizeMod
           stop == {x \in D : Differ(s, t, x[1]) \/ Left(x) = 0}
           go == [x \in D |-> <<x[1] + 1, Left(x)>>]
           value == [x \in D |-> IF Differ(s, t, x[1]) THEN String!At(s, x[1]) - String!At(t, x[1]) ELSE 0]
           f == Along(D, stop, go, value)
<1>0. MaxString \in Nat /\ SizeMod \in Nat /\ SizeMod > 1 /\ Len(s) \in 0..MaxString
  BY StringsAre
<1>1. ASSUME NEW x \in D \ stop PROVE go[x] \in D
  <2>1. x[1] \in 1..MaxString + 1 /\ x[2] \in 0..SizeMod - 1 /\ ~Differ(s, t, x[1])
    OBVIOUS
  <2>2. x[1] # MaxString + 1
    BY <1>0, <2>1, StringsAre DEF Differ
  <2>3. Left(x) \in 0..SizeMod - 1
    BY <1>0, <2>1, OneLess
  <2>4. x[1] + 1 \in 1..MaxString + 1
    BY <1>0, <2>1, <2>2
  <2> HIDE DEF Left
  <2> QED BY <2>3, <2>4
<1>2. stop \in SUBSET D
  OBVIOUS
<1>3. f = [x \in D |-> IF x \in stop THEN value[x] ELSE f[go[x]]]
  <2> HIDE DEF D, stop, go, value
  <2> QED BY ONLY <1>1, <1>2, TailRecursion
<1> HIDE DEF f
<1>4. ASSUME NEW x \in D
      PROVE  f[x] = LET i == x[1]  left == (x[2] - 1) % SizeMod IN
            IF String!At(s, i) = 0 \/ String!At(t, i) = 0 \/ String!At(s, i) # String!At(t, i)
            THEN String!At(s, i) - String!At(t, i)
            ELSE IF left = 0 THEN 0 ELSE f[<<i + 1, left>>]
  <2>1. f[x] = IF x \in stop THEN value[x] ELSE f[go[x]]
    BY <1>3
  <2>2. x \in stop <=> Differ(s, t, x[1]) \/ Left(x) = 0
    OBVIOUS
  <2>3. /\ value[x] = IF Differ(s, t, x[1]) THEN String!At(s, x[1]) - String!At(t, x[1]) ELSE 0
        /\ go[x] = <<x[1] + 1, Left(x)>>
    OBVIOUS
  <2> HIDE DEF stop, value, go
  <2>4. f[x] = IF Differ(s, t, x[1]) THEN String!At(s, x[1]) - String!At(t, x[1])
               ELSE IF Left(x) = 0 THEN 0 ELSE f[<<x[1] + 1, Left(x)>>]
    <3> HIDE DEF Left
    <3> QED BY <2>1, <2>2, <2>3
  <2> QED BY <2>4, Zenon DEF Differ
<1>5. f = [x \in D |-> f[x]]
  BY <1>3
<1>6. f = NcmpBody(s, t, f)
  <2>1. NcmpBody(s, t, f) = [x \in D |-> f[x]]
    BY <1>4, Zenon DEF NcmpBody
  <2> QED BY <1>5, <2>1
<1> QED BY <1>6 DEF Ncmp

\* ... one pair of chars at a time.
LEMMA NcmpStep ==
    ASSUME NEW s \in String!Strings, NEW t \in String!Strings,
           NEW i \in 1..MaxString + 1, NEW k \in 0..SizeMod - 1
    PROVE  Ncmp(s, t)[<<i, k>>] =
               IF Differ(s, t, i) THEN String!At(s, i) - String!At(t, i)
               ELSE IF (k - 1) % SizeMod = 0 THEN 0 ELSE Ncmp(s, t)[<<i + 1, (k - 1) % SizeMod>>]
<1>1. Ncmp(s, t)[<<i, k>>] = NcmpBody(s, t, Ncmp(s, t))[<<i, k>>]
  BY NcmpExists
<1>2. <<i, k>> \in (1..MaxString + 1) \X (0..SizeMod - 1)
  OBVIOUS
<1> QED BY <1>1, <1>2 DEF NcmpBody, Differ

\* What is left of strncmp from position i on, with a count of k > 0.
LEMMA NcmpValue ==
    ASSUME NEW s \in String!Strings, NEW t \in String!Strings,
           NEW d \in 1..MaxString + 1, Differ(s, t, d),
           NEW i \in 1..d, NEW k \in 1..SizeMod - 1,
           \A j \in i..d-1 : ~Differ(s, t, j)
    PROVE  Ncmp(s, t)[<<i, k>>] = IF d < i + k THEN String!At(s, d) - String!At(t, d) ELSE 0
<1> DEFINE result == String!At(s, d) - String!At(t, d)
           F == Ncmp(s, t)
           Wrong(a, b) == /\ a \in i..d /\ b \in 1..SizeMod - 1
                          /\ F[<<a, b>>] # IF d < a + b THEN result ELSE 0
           T == {m \in Nat : \E a, b \in Nat : m = d - a /\ Wrong(a, b)}
<1>0. MaxString \in Nat /\ SizeMod \in Nat /\ SizeMod > 1
  BY StringsAre
<1> SUFFICES ASSUME T # {} PROVE FALSE
  <2>1. i \in Nat /\ k \in Nat /\ d - i \in Nat /\ i \in i..d
    BY <1>0
  <2>2. ~Wrong(i, k)
    <3> HIDE DEF Wrong
    <3> QED BY <2>1
  <2> QED BY <2>1, <2>2
<1>1. PICK m \in T : \A e \in T : m <= e
  <2> HIDE DEF Wrong
  <2>1. T \in SUBSET Nat
    OBVIOUS
  <2> HIDE DEF T
  <2> QED BY <2>1, LeastElement
<1>2. PICK a, b \in Nat : m = d - a /\ Wrong(a, b)
  OBVIOUS
<1>3. /\ a \in i..d /\ b \in 1..SizeMod - 1 /\ a \in 1..MaxString + 1 /\ b \in 0..SizeMod - 1
      /\ F[<<a, b>>] # IF d < a + b THEN result ELSE 0
      /\ i \in Nat /\ d \in Nat /\ m = d - a
  BY <1>0, <1>2
<1>4. (b - 1) % SizeMod = b - 1
  BY <1>0, <1>3, OneLess
<1>5. F[<<a, b>>] = IF Differ(s, t, a) THEN String!At(s, a) - String!At(t, a)
                    ELSE IF b - 1 = 0 THEN 0 ELSE F[<<a + 1, b - 1>>]
  BY <1>3, <1>4, NcmpStep
<1>6. a # d
  <2>1. a = d => d < a + b
    BY <1>0, <1>3
  <2> QED BY <1>3, <1>5, <2>1
<1>7. a \in i..d-1 /\ ~Differ(s, t, a)
  BY <1>3, <1>6
<1>8. b - 1 # 0
  <2>1. b = 1 => ~(d < a + b)
    BY <1>3, <1>7
  <2> QED BY <1>3, <1>5, <1>7, <2>1
<1>9. ~Wrong(a + 1, b - 1)
  <2>1. d - (a + 1) \in Nat /\ d - (a + 1) < m /\ a + 1 \in Nat /\ b - 1 \in Nat
    BY <1>0, <1>3, <1>7
  <2> HIDE DEF Wrong
  <2>2. Wrong(a + 1, b - 1) => d - (a + 1) \in T
    BY <2>1
  <2>3. m \in Nat
    OBVIOUS
  <2> HIDE DEF T
  <2> QED BY <1>1, <2>1, <2>2, <2>3
<1>10. F[<<a + 1, b - 1>>] = IF d < (a + 1) + (b - 1) THEN result ELSE 0
  <2>1. a + 1 \in i..d /\ b - 1 \in 1..SizeMod - 1
    BY <1>0, <1>3, <1>7, <1>8
  <2> QED BY <1>9, <2>1
<1>11. (a + 1) + (b - 1) = a + b
  BY <1>3
<1> QED BY <1>3, <1>5, <1>7, <1>8, <1>10, <1>11

\* Where two strings differ first, or end.
LEMMA FirstDifference ==
    ASSUME NEW s \in String!Strings, NEW t \in String!Strings
    PROVE  \E d \in 1..MaxString + 1 : Differ(s, t, d) /\ \A j \in 1..d-1 : ~Differ(s, t, j)
<1> DEFINE S == {d \in 1..MaxString + 1 : Differ(s, t, d)}
<1>1. MaxString + 1 \in S
  BY StringsAre DEF Differ
<1>2. S \in SUBSET Nat
  OBVIOUS
<1>3. PICK d \in S : \A m \in S : d <= m
  <2> HIDE DEF S
  <2> QED BY <1>1, <1>2, LeastElement
<1>4. \A j \in 1..d-1 : ~Differ(s, t, j)
  BY <1>3, StringsAre
<1> QED BY <1>3, <1>4

\* strncmp's result: a count of 0 counts for more than any string has.
LEMMA StrncmpIs ==
    ASSUME NEW s \in String!Strings, NEW t \in String!Strings, NEW n \in 0..SizeMod - 1,
           NEW d \in 1..MaxString + 1, Differ(s, t, d), \A j \in 1..d-1 : ~Differ(s, t, j)
    PROVE  String!Strncmp(s, t, n) =
               IF n = 0 \/ d <= n THEN String!At(s, d) - String!At(t, d) ELSE 0
<1>0. MaxString \in Nat /\ SizeMod \in Nat /\ SizeMod > MaxString + 1
  BY StringsAre
<1>1. String!Strncmp(s, t, n) = Ncmp(s, t)[<<1, n>>]
  BY NcmpIs
<1>2. CASE n > 0
  <2>1. n \in 1..SizeMod - 1 /\ 1 \in 1..d /\ \A j \in 1..d-1 : ~Differ(s, t, j)
    BY <1>0, <1>2
  <2>2. Ncmp(s, t)[<<1, n>>] = IF d < 1 + n THEN String!At(s, d) - String!At(t, d) ELSE 0
    BY <2>1, NcmpValue
  <2> QED BY <1>0, <1>1, <1>2, <2>2
<1>3. CASE n = 0
  <2>1. 1 \in 1..MaxString + 1 /\ SizeMod > 1 /\ SizeMod - 1 # 0
    BY <1>0
  <2>2. (n - 1) % SizeMod = SizeMod - 1
    BY <1>0, <1>3, <2>1, OneLess
  <2>5. Ncmp(s, t)[<<1, n>>] = IF Differ(s, t, 1) THEN String!At(s, 1) - String!At(t, 1)
                               ELSE Ncmp(s, t)[<<2, SizeMod - 1>>]
    <3>1. Ncmp(s, t)[<<1, n>>] = IF Differ(s, t, 1) THEN String!At(s, 1) - String!At(t, 1)
                                 ELSE IF (n - 1) % SizeMod = 0 THEN 0 ELSE Ncmp(s, t)[<<1 + 1, (n - 1) % SizeMod>>]
      BY <2>1, NcmpStep
    <3>2. 1 + 1 = 2
      OBVIOUS
    <3> QED BY <2>1, <2>2, <3>1, <3>2
  <2>3. CASE d = 1
    BY <1>1, <1>3, <2>5, <2>3
  <2>4. CASE d # 1
    <3>1. 2 \in 1..d /\ SizeMod - 1 \in 1..SizeMod - 1 /\ ~Differ(s, t, 1)
      BY <1>0, <2>4
    <3>2. \A j \in 2..d-1 : ~Differ(s, t, j)
      OBVIOUS
    <3>3. d < 2 + (SizeMod - 1)
      BY <1>0
    <3>4. Ncmp(s, t)[<<2, SizeMod - 1>>] = String!At(s, d) - String!At(t, d)
      BY <3>1, <3>2, <3>3, NcmpValue
    <3> QED BY <1>1, <1>3, <2>5, <3>1, <3>4
  <2> QED BY <2>3, <2>4
<1> QED BY <1>0, <1>2, <1>3

\* The sign of a difference of chars, compared with the standard's.
LEMMA CmpAgrees ==
    ASSUME NEW s \in String!Strings, NEW t \in String!Strings, NEW c \in 1..SizeMod,
           NEW d \in 1..MaxString + 1, Differ(s, t, d), \A j \in 1..d-1 : ~Differ(s, t, j),
           NEW x, x = IF d <= c THEN String!At(s, d) - String!At(t, d) ELSE 0
    PROVE  String!Sign(x) = IF String!SignsDiffer(s, t, c) THEN -String!Cmp(s, t, c)
                            ELSE String!Cmp(s, t, c)
<1> DEFINE a == String!At(s, d)
           b == String!At(t, d)
           differ == {i \in 1..c : String!At(s, i) # String!At(t, i)}
<1>0. /\ MaxString \in Nat /\ SizeMod \in Nat /\ d \in Nat \ {0} /\ a \in -128..127 /\ b \in -128..127
      /\ \A i \in Nat \ {0} : /\ String!At(s, i) = 0 <=> i > Len(s)
                              /\ String!At(t, i) = 0 <=> i > Len(t)
      /\ Len(s) \in 0..MaxString /\ Len(t) \in 0..MaxString
  BY StringsAre
<1>1. String!Cmp(s, t, c) = IF differ = {} THEN 0
          ELSE String!Sign(String!Unsigned(String!At(s, String!Least(differ)))
                             - String!Unsigned(String!At(t, String!Least(differ))))
  BY Zenon DEF String!Cmp
<1>s. String!SignsDiffer(s, t, c) <=>
          /\ differ # {}
          /\ String!At(s, String!Least(differ)) < 0 <=> String!At(t, String!Least(differ)) >= 0
  BY Zenon DEF String!SignsDiffer
<1>2. \A j \in 1..d-1 : String!At(s, j) = String!At(t, j)
  BY DEF Differ
<1>3. CASE d <= c /\ a # b
  <2>1. d \in differ /\ \A i \in differ : d <= i
    BY <1>0, <1>2, <1>3
  <2>2. String!Least(differ) = d /\ differ # {}
    <3>1. differ \in SUBSET Int
      OBVIOUS
    <3> HIDE DEF differ
    <3> QED BY <2>1, <3>1, LeastIs
  <2>3. String!Cmp(s, t, c) = String!Sign(String!Unsigned(a) - String!Unsigned(b))
    BY <1>1, <2>2
  <2>4. x = a - b
    BY <1>3
  <2>5. String!SignsDiffer(s, t, c) <=> (a < 0 <=> b >= 0)
    BY <1>s, <2>2
  <2> HIDE DEF a, b
  <2>6. /\ String!Unsigned(a) = IF a < 0 THEN a + 256 ELSE a
        /\ String!Unsigned(b) = IF b < 0 THEN b + 256 ELSE b
    <3>1. \A c1 \in -128..127 : c1 % 256 = IF c1 < 0 THEN c1 + 256 ELSE c1
      OBVIOUS
    <3> QED BY <1>0, <3>1, Zenon DEF String!Unsigned
  <2>7. PICK u \in Int, v \in Int : /\ u = String!Unsigned(a) /\ v = String!Unsigned(b)
                                    /\ u = IF a < 0 THEN a + 256 ELSE a
                                    /\ v = IF b < 0 THEN b + 256 ELSE b
    BY <1>0, <2>6
  <2>8. String!Sign(a - b) = IF a < 0 <=> b >= 0 THEN -String!Sign(u - v) ELSE String!Sign(u - v)
    <3>1. a \in -128..127 /\ b \in -128..127 /\ a # b
      BY <1>0, <1>3
    <3> QED BY ONLY <2>7, <3>1 DEF String!Sign
  <2> QED BY <2>3, <2>4, <2>5, <2>7, <2>8, Zenon
<1>4. CASE d > c \/ a = b
  <2>1. differ = {}
    <3>1. CASE d > c
      BY <1>0, <1>2, <3>1
    <3>2. CASE d <= c /\ a = b
      <4>1. d > Len(s) /\ d > Len(t)
        BY <1>0, <3>2 DEF Differ
      <4>2. \A i \in 1..c : i > d => String!At(s, i) = 0 /\ String!At(t, i) = 0
        BY <1>0, <4>1
      <4> QED BY <1>0, <1>2, <3>2, <4>2
    <3> QED BY <1>0, <1>4, <3>1, <3>2
  <2>2. x = 0
    <3>1. CASE d > c
      BY <1>0, <3>1
    <3>2. CASE a = b
      <4>1. x = IF d <= c THEN a - b ELSE 0
        OBVIOUS
      <4> HIDE DEF a, b
      <4> QED BY <1>0, <3>2, <4>1
    <3> QED BY <1>4, <3>1, <3>2
  <2>3. String!Cmp(s, t, c) = 0 /\ ~String!SignsDiffer(s, t, c)
    BY <1>1, <1>s, <2>1
  <2> QED BY <2>2, <2>3 DEF String!Sign
<1> QED BY <1>0, <1>3, <1>4

\* strcmp and strncmp do what the standard says.
LEMMA ComparesAlike ==
    ASSUME NEW s \in String!Strings, NEW t \in String!Strings, NEW n \in 0..MaxString + 1
    PROVE  String!ComparesAsC(s, t, n)
<1>0. MaxString \in Nat /\ SizeMod \in Nat /\ SizeMod > MaxString + 1
  BY StringsAre
<1>1. PICK d \in 1..MaxString + 1 : Differ(s, t, d) /\ \A j \in 1..d-1 : ~Differ(s, t, j)
  BY FirstDifference
<1> DEFINE Agree(x, m) == String!Sign(x) = IF String!SignsDiffer(s, t, m) THEN -String!Cmp(s, t, m)
                                           ELSE String!Cmp(s, t, m)
           length == MaxString + 1
           most == IF n = 0 THEN length ELSE n
           diff == String!At(s, d) - String!At(t, d)
<1>2. String!Strcmp(s, t) = diff
  <2>1. SizeMod - 1 \in 0..SizeMod - 1 /\ d <= SizeMod - 1
    BY <1>0
  <2>2. String!Strncmp(s, t, SizeMod - 1) = diff
    BY <1>1, <2>1, StrncmpIs
  <2> QED BY <2>2 DEF String!Strcmp
<1>3. String!Strncmp(s, t, n) = IF d <= most THEN diff ELSE 0
  <2>1. n \in 0..SizeMod - 1
    BY <1>0
  <2>2. String!Strncmp(s, t, n) = IF n = 0 \/ d <= n THEN diff ELSE 0
    BY <1>1, <2>1, StrncmpIs
  <2> QED BY <1>0, <2>2
<1>4. length \in 1..SizeMod /\ most \in 1..SizeMod /\ d <= length
  BY <1>0
<1> HIDE DEF length, most, diff
<1>5. Agree(String!Strcmp(s, t), length)
  <2>1. diff = IF d <= length THEN diff ELSE 0
    BY <1>4
  <2> QED BY <1>1, <1>2, <1>4, <2>1, CmpAgrees DEF diff
<1>6. Agree(String!Strncmp(s, t, n), most)
  BY <1>1, <1>3, <1>4, CmpAgrees DEF diff
<1> QED BY <1>5, <1>6 DEF String!ComparesAsC, length, most

\* First is 0 or the least element.
LEMMA FirstIs ==
    ASSUME NEW n \in Nat, NEW S, S \in SUBSET (1..n)
    PROVE  String!First(S) = 0 <=> S = {}
<1>1. CASE S # {}
  <2>1. S \in SUBSET Nat /\ S \in SUBSET Int
    OBVIOUS
  <2>2. PICK m \in S : \A i \in S : m <= i
    BY <1>1, <2>1, LeastElement
  <2>3. String!Least(S) = m
    BY <2>1, <2>2, LeastIs
  <2> QED BY <1>1, <2>3 DEF String!First
<1>2. CASE S = {}
  BY <1>2 DEF String!First
<1> QED BY <1>1, <1>2

\* strchr tells whether a char occurs.
LEMMA StrchrHas ==
    ASSUME NEW t \in String!Strings, NEW c
    PROVE  String!Strchr(t, c) # 0 <=> String!Has(t, c)
<1> DEFINE S == {i \in 1..Len(t) : t[i] = c}
<1>1. String!Strchr(t, c) = String!First(S)
  BY StrchrFinds
<1>2. Len(t) \in Nat /\ S \in SUBSET (1..Len(t))
  BY StringsAre
<1>3. S = {} <=> ~String!Has(t, c)
  BY DEF String!Has
<1> HIDE DEF S
<1> QED BY <1>1, <1>2, <1>3, FirstIs

\* strpbrk
Pbrk(s, t) ==
    CHOOSE f : f = [i \in 1..Len(s) + 1 |->
                        IF String!At(s, i) = 0 THEN 0
                        ELSE IF String!Strchr(t, s[i]) # 0 THEN i ELSE f[i + 1]]

\* strpbrk finds the first char of s that is one of t.
LEMMA StrpbrkFinds ==
    ASSUME NEW s \in String!Strings, NEW t \in String!Strings
    PROVE  String!Strpbrk(s, t) = String!First({i \in 1..Len(s) : String!Has(t, s[i])})
<1> DEFINE S == {i \in 1..Len(s) : String!Has(t, s[i])}
           n == Len(s)
           f == Seek(n, S)
           F == Pbrk(s, t)
<1>1. n \in Nat /\ \A i \in 1..n+1 : String!At(s, i) = 0 <=> i = n + 1
  BY StringsAre
<1>2. S \in SUBSET (1..n) /\ \A i \in 1..n : i \in S <=> String!Strchr(t, s[i]) # 0
  BY StrchrHas
<1>3. f = [i \in 1..n+1 |-> IF i = n + 1 THEN 0 ELSE IF i \in S THEN i ELSE f[i+1]]
  <2> HIDE DEF S, n
  <2> QED BY <1>1, <1>2, SeekIs
<1>4. f = [i \in 1..n+1 |-> IF String!At(s, i) = 0 THEN 0
                            ELSE IF String!Strchr(t, s[i]) # 0 THEN i ELSE f[i+1]]
  <2> HIDE DEF f, S
  <2>1. \A i \in 1..n+1 : f[i] = IF String!At(s, i) = 0 THEN 0
                                 ELSE IF String!Strchr(t, s[i]) # 0 THEN i ELSE f[i+1]
    BY <1>1, <1>2, <1>3
  <2>2. f = [i \in 1..n+1 |-> f[i]]
    BY <1>3
  <2> QED BY <2>1, <2>2
<1> HIDE DEF f
<1>5. F = [i \in 1..n+1 |-> IF String!At(s, i) = 0 THEN 0
                            ELSE IF String!Strchr(t, s[i]) # 0 THEN i ELSE F[i+1]]
  BY <1>4 DEF Pbrk
<1> HIDE DEF F, S
<1>6. \A i \in 1..n+1 : F[i] = IF i = n + 1 THEN 0 ELSE IF i \in S THEN i ELSE F[i+1]
  BY <1>1, <1>2, <1>5
<1>7. F[1] = String!First(S)
  <2> HIDE DEF n
  <2> QED BY <1>1, <1>2, <1>6, FirstFound
<1>8. String!Strpbrk(s, t) = F[1]
  BY DEF String!Strpbrk, Pbrk, F
<1> QED BY <1>7, <1>8 DEF S

\* What is behind position i.
LEMMA FromIs ==
    ASSUME NEW s \in String!Strings, NEW i \in 1..Len(s)
    PROVE  /\ String!From(s, i) \in String!Strings
           /\ Len(String!From(s, i)) = Len(s) - i + 1
           /\ \A j \in 1..Len(s) - i + 1 : String!From(s, i)[j] = s[i + j - 1]
<1>1. s \in Seq(Chars) /\ Len(s) \in 0..MaxString /\ MaxString \in Nat
  BY StringsAre
<1>2. /\ String!From(s, i) \in [1..(Len(s) - i + 1) -> Chars]
      /\ Len(String!From(s, i)) = Len(s) - i + 1
      /\ \A j \in 1..Len(s) - i + 1 : String!From(s, i)[j] = s[i + j - 1]
  <2> DEFINE n == Len(s)
             r == SubSeq(s, i, n)
  <2>1. Len(r) = n - i + 1 /\ r \in Seq(Chars)
    BY <1>1
  <2>2. \A j \in 1..n - i + 1 : r[j] = s[i + j - 1]
    BY <1>1
  <2> HIDE DEF r
  <2>3. r \in [1..Len(r) -> Chars]
    BY <2>1
  <2>4. r \in [1..(n - i + 1) -> Chars]
    BY <2>1, <2>3
  <2> QED BY <2>1, <2>2, <2>4 DEF String!From, r
<1>3. Len(s) - i + 1 \in 0..MaxString
  BY <1>1
<1> QED BY <1>2, <1>3, IsString

\* strncmp with the length of the one string says whether it begins the other.
LEMMA StrncmpPrefix ==
    ASSUME NEW h \in String!Strings, NEW t \in String!Strings, Len(t) # 0, Len(t) <= Len(h)
    PROVE  String!Strncmp(h, t, Len(t)) = 0 <=> String!Begins(t, h)
<1>1. PICK d \in 1..MaxString + 1 : Differ(h, t, d) /\ \A j \in 1..d-1 : ~Differ(h, t, j)
  BY FirstDifference
<1>2. /\ MaxString \in Nat /\ SizeMod \in Nat /\ SizeMod > MaxString + 1
      /\ Len(h) \in 0..MaxString /\ Len(t) \in 0..MaxString
      /\ h \in Seq(Chars) /\ t \in Seq(Chars)
      /\ \A i \in 1..Len(h) : h[i] # 0 /\ h[i] \in -128..127 /\ String!At(h, i) = h[i]
      /\ \A i \in 1..Len(t) : t[i] # 0 /\ t[i] \in -128..127 /\ String!At(t, i) = t[i]
  BY StringsAre
<1>3. String!Strncmp(h, t, Len(t)) = IF d <= Len(t) THEN String!At(h, d) - String!At(t, d) ELSE 0
  <2>1. Len(t) \in 0..SizeMod - 1
    BY <1>2
  <2> QED BY <1>1, <2>1, StrncmpIs
<1>4. d <= Len(t) => String!At(h, d) - String!At(t, d) # 0 /\ h[d] # t[d] /\ d \in 1..Len(t)
  <2> SUFFICES ASSUME d <= Len(t) PROVE String!At(h, d) - String!At(t, d) # 0 /\ h[d] # t[d] /\ d \in 1..Len(t)
    OBVIOUS
  <2>1. d \in 1..Len(t) /\ d \in 1..Len(h)
    BY <1>2
  <2>2. /\ h[d] # 0 /\ String!At(h, d) = h[d] /\ h[d] \in -128..127
        /\ t[d] # 0 /\ String!At(t, d) = t[d] /\ t[d] \in -128..127
    BY <1>2, <2>1
  <2>3. h[d] # t[d]
    BY <1>1, <2>2 DEF Differ
  <2>4. \A x, y \in -128..127 : x # y => x - y # 0
    OBVIOUS
  <2> QED BY <2>1, <2>2, <2>3, <2>4
<1>5. d > Len(t) => \A j \in 1..Len(t) : h[j] = t[j]
  BY <1>1, <1>2 DEF Differ
<1>6. SubSeq(h, 1, Len(t)) = t <=> \A j \in 1..Len(t) : h[j] = t[j]
  <2>1. /\ SubSeq(h, 1, Len(t)) \in Seq(Chars) /\ Len(SubSeq(h, 1, Len(t))) = Len(t)
        /\ \A j \in 1..Len(t) : SubSeq(h, 1, Len(t))[j] = h[j]
    BY <1>2
  <2> QED BY <1>2, <2>1
<1>7. String!Begins(t, h) <=> \A j \in 1..Len(t) : h[j] = t[j]
  BY <1>2, <1>6 DEF String!Begins
<1> QED BY <1>2, <1>3, <1>4, <1>5, <1>7

\* strstr
Str(h, t) ==
    CHOOSE f : f = [i \in 1..Len(h) + 1 |->
                        IF String!At(h, i) = 0 THEN 0
                        ELSE IF Len(h) - i + 1 >= Len(t) /\ String!Strncmp(String!From(h, i), t, Len(t)) = 0 THEN i
                        ELSE f[i + 1]]

\* strstr finds the first place where n is a prefix of what is left.
LEMMA StrstrFinds ==
    ASSUME NEW h \in String!Strings, NEW t \in String!Strings, t # <<>>
    PROVE  String!Strstr(h, t) = String!First({i \in 1..Len(h) : String!Begins(t, String!From(h, i))})
<1> DEFINE S == {i \in 1..Len(h) : String!Begins(t, String!From(h, i))}
           n == Len(h)
           Found(i) == Len(h) - i + 1 >= Len(t) /\ String!Strncmp(String!From(h, i), t, Len(t)) = 0
           f == Seek(n, S)
           F == Str(h, t)
<1>1. n \in Nat /\ \A i \in 1..n+1 : String!At(h, i) = 0 <=> i = n + 1
  BY StringsAre
<1>2. S \in SUBSET (1..n) /\ \A i \in 1..n : i \in S <=> Found(i)
  <2>1. Len(t) # 0 /\ Len(t) \in Nat
    BY StringsAre
  <2>2. ASSUME NEW i \in 1..n PROVE String!Begins(t, String!From(h, i)) <=> Found(i)
    <3>1. String!From(h, i) \in String!Strings /\ Len(String!From(h, i)) = Len(h) - i + 1
      BY FromIs
    <3>2. CASE Len(t) <= Len(h) - i + 1
      BY <1>1, <2>1, <3>1, <3>2, StrncmpPrefix
    <3>3. CASE ~(Len(t) <= Len(h) - i + 1)
      BY <1>1, <2>1, <3>1, <3>3 DEF String!Begins
    <3> QED BY <3>2, <3>3
  <2> QED BY <2>2
<1>3. f = [i \in 1..n+1 |-> IF i = n + 1 THEN 0 ELSE IF i \in S THEN i ELSE f[i+1]]
  <2> HIDE DEF S, n, Found
  <2> QED BY <1>1, <1>2, SeekIs
<1>4. f = [i \in 1..n+1 |-> IF String!At(h, i) = 0 THEN 0 ELSE IF Found(i) THEN i ELSE f[i+1]]
  <2> HIDE DEF f, S, Found
  <2>1. \A i \in 1..n+1 : f[i] = IF String!At(h, i) = 0 THEN 0 ELSE IF Found(i) THEN i ELSE f[i+1]
    BY <1>1, <1>2, <1>3
  <2>2. f = [i \in 1..n+1 |-> f[i]]
    BY <1>3
  <2> QED BY <2>1, <2>2
<1> HIDE DEF f
<1>5. F = [i \in 1..n+1 |-> IF String!At(h, i) = 0 THEN 0 ELSE IF Found(i) THEN i ELSE F[i+1]]
  BY <1>4 DEF Str
<1> HIDE DEF F, S, Found
<1>6. \A i \in 1..n+1 : F[i] = IF i = n + 1 THEN 0 ELSE IF i \in S THEN i ELSE F[i+1]
  BY <1>1, <1>2, <1>5
<1>7. F[1] = String!First(S)
  <2> HIDE DEF n
  <2> QED BY <1>1, <1>2, <1>6, FirstFound, ZenonT(30)
<1>8. String!Strstr(h, t) = F[1]
  BY DEF String!Strstr, Str, F
<1> QED BY <1>7, <1>8 DEF S

\* strcspn
Cspn(s, t) ==
    CHOOSE f : f = [i \in 1..Len(s) + 1 |->
                        IF String!At(s, i) = 0 THEN i - 1
                        ELSE IF String!Strchr(t, s[i]) = 0 THEN f[i + 1] ELSE i - 1]

\* strcspn is the length of the front of s that has no char of t.
LEMMA StrcspnFinds ==
    ASSUME NEW s \in String!Strings, NEW t \in String!Strings
    PROVE  String!Strcspn(s, t)
               = String!First({i \in 1..Len(s) : String!Has(t, s[i])} \cup {Len(s) + 1}) - 1
<1> DEFINE n == Len(s)
           D == 1..n+1
           stop == {i \in 1..n : String!Has(t, s[i])} \cup {n + 1}
           value == [i \in D |-> i - 1]
           f == Loop(D, stop, value)
           F == Cspn(s, t)
<1>1. n \in Nat /\ \A i \in 1..n+1 : String!At(s, i) = 0 <=> i = n + 1
  BY StringsAre
<1>2. /\ stop \in SUBSET D /\ n + 1 \in stop /\ \A i \in D \ stop : i + 1 \in D
      /\ \A i \in 1..n : i \in stop <=> String!Strchr(t, s[i]) # 0
  BY <1>1, StrchrHas
<1>3. f = [i \in D |-> IF i \in stop THEN value[i] ELSE f[i+1]]
  <2>1. stop \in SUBSET D /\ \A i \in D \ stop : i + 1 \in D
    BY <1>2
  <2> HIDE DEF D, stop, value
  <2> QED BY ONLY <2>1, LoopIs
<1>4. f = [i \in 1..n+1 |-> IF String!At(s, i) = 0 THEN i - 1
                            ELSE IF String!Strchr(t, s[i]) = 0 THEN f[i+1] ELSE i - 1]
  <2> HIDE DEF f, stop
  <2>1. \A i \in 1..n+1 : f[i] = IF String!At(s, i) = 0 THEN i - 1
                                 ELSE IF String!Strchr(t, s[i]) = 0 THEN f[i+1] ELSE i - 1
    BY <1>1, <1>2, <1>3
  <2>2. f = [i \in 1..n+1 |-> f[i]]
    BY <1>3
  <2> QED BY <2>1, <2>2
<1> HIDE DEF f
<1>5. F = [i \in 1..n+1 |-> IF String!At(s, i) = 0 THEN i - 1
                            ELSE IF String!Strchr(t, s[i]) = 0 THEN F[i+1] ELSE i - 1]
  BY <1>4 DEF Cspn
<1> HIDE DEF F, stop
<1>6. \A i \in 1..n+1 : F[i] = IF i \in stop THEN value[i] ELSE F[i+1]
  BY <1>1, <1>2, <1>5
<1>7. PICK k \in stop : \A m \in stop : k <= m
  <2>1. stop \in SUBSET Nat /\ stop # {}
    BY <1>2
  <2> QED BY <2>1, LeastElement
<1>8. k \in 1..n+1 /\ \A j \in 1..k-1 : j \notin stop
  BY <1>1, <1>2, <1>7
<1>9. F[1] = value[k] /\ value[k] = k - 1
  <2>1. F[1] = value[k]
    <3> HIDE DEF n, value
    <3> QED BY <1>1, <1>6, <1>7, <1>8, LoopEnds
  <2> QED BY <1>8, <2>1
<1>10. String!First(stop) = k
  <2>1. stop \in SUBSET Int /\ stop # {}
    BY <1>2
  <2>2. String!Least(stop) = k
    BY <1>7, <2>1, LeastIs
  <2> QED BY <2>1, <2>2 DEF String!First
<1>11. String!Strcspn(s, t) = F[1]
  BY DEF String!Strcspn, Cspn, F
<1> QED BY <1>9, <1>10, <1>11 DEF stop

\* strspn, where it returns
Spn(s, t) ==
    CHOOSE f : f = [i \in 1..Len(s) + 1 |->
                        IF String!At(s, i) = 0 THEN 0..SizeMod - 1
                        ELSE IF String!Strchr(t, s[i]) # 0 THEN f[i + 1] ELSE {i - 1}]

\* strspn, where it returns, that of the front of chars of t.
LEMMA StrspnFinds ==
    ASSUME NEW s \in String!Strings, NEW t \in String!Strings,
           {i \in 1..Len(s) : ~String!Has(t, s[i])} # {}
    PROVE  String!Strspn(s, t) = {String!Least({i \in 1..Len(s) : ~String!Has(t, s[i])}) - 1}
<1> DEFINE n == Len(s)
           D == 1..n+1
           S == {i \in 1..n : ~String!Has(t, s[i])}
           stop == S \cup {n + 1}
           any == 0..SizeMod - 1
           value == [i \in D |-> IF i = n + 1 THEN any ELSE {i - 1}]
           f == Loop(D, stop, value)
           F == Spn(s, t)
<1>0. n \in Nat /\ \A i \in Nat \ {0} : String!At(s, i) = 0 <=> i > n
  BY StringsAre
<1>1. n \in Nat /\ \A i \in 1..n+1 : String!At(s, i) = 0 <=> i = n + 1
  BY <1>0
<1>2. /\ S \in SUBSET (1..n)
      /\ stop \in SUBSET D /\ n + 1 \in stop /\ \A i \in D \ stop : i + 1 \in D
      /\ \A i \in 1..n : i \in stop <=> String!Strchr(t, s[i]) = 0
  BY <1>1, StrchrHas
<1>3. f = [i \in D |-> IF i \in stop THEN value[i] ELSE f[i+1]]
  <2>1. stop \in SUBSET D /\ \A i \in D \ stop : i + 1 \in D
    BY <1>2
  <2> HIDE DEF D, stop, value
  <2> QED BY ONLY <2>1, LoopIs
<1>v. \A i \in D : value[i] = IF i = n + 1 THEN any ELSE {i - 1}
  OBVIOUS
<1>4. f = [i \in 1..n+1 |-> IF String!At(s, i) = 0 THEN any
                            ELSE IF String!Strchr(t, s[i]) # 0 THEN f[i+1] ELSE {i - 1}]
  <2> HIDE DEF f, stop, S, value, any
  <2>1. \A i \in 1..n+1 : f[i] = IF String!At(s, i) = 0 THEN any
                                 ELSE IF String!Strchr(t, s[i]) # 0 THEN f[i+1] ELSE {i - 1}
    <3> SUFFICES ASSUME NEW i \in 1..n+1
                 PROVE  f[i] = IF String!At(s, i) = 0 THEN any
                               ELSE IF String!Strchr(t, s[i]) # 0 THEN f[i+1] ELSE {i - 1}
      OBVIOUS
    <3>1. f[i] = IF i \in stop THEN value[i] ELSE f[i+1]
      BY <1>3
    <3>2. CASE i = n + 1
      BY <1>1, <1>2, <1>v, <3>1, <3>2
    <3>3. CASE i \in 1..n
      <4>0. i # n + 1
        BY <1>1, <3>3
      <4>1. i # n + 1 /\ value[i] = {i - 1} /\ String!At(s, i) # 0
        <5> HIDE DEF n
        <5> QED BY <1>1, <1>v, <4>0
      <4> QED BY <1>2, <3>1, <3>3, <4>1
    <3> QED BY <1>1, <3>2, <3>3
  <2>2. f = [i \in 1..n+1 |-> f[i]]
    BY <1>3
  <2> QED BY <2>1, <2>2
<1> HIDE DEF f
<1>5. F = [i \in 1..n+1 |-> IF String!At(s, i) = 0 THEN any
                            ELSE IF String!Strchr(t, s[i]) # 0 THEN F[i+1] ELSE {i - 1}]
  BY <1>4 DEF Spn
<1> HIDE DEF F, stop, S, value, any
<1>6. \A i \in 1..n+1 : F[i] = IF i \in stop THEN value[i] ELSE F[i+1]
  <2> SUFFICES ASSUME NEW i \in 1..n+1 PROVE F[i] = IF i \in stop THEN value[i] ELSE F[i+1]
    OBVIOUS
  <2>1. F[i] = IF String!At(s, i) = 0 THEN any
               ELSE IF String!Strchr(t, s[i]) # 0 THEN F[i+1] ELSE {i - 1}
    BY <1>5
  <2>2. CASE i = n + 1
    BY <1>1, <1>2, <1>v, <2>1, <2>2
  <2>3. CASE i \in 1..n
    <3>0. i # n + 1
      BY <1>1, <2>3
    <3>1. i # n + 1 /\ value[i] = {i - 1} /\ String!At(s, i) # 0
      <4> HIDE DEF n
      <4> QED BY <1>1, <1>v, <3>0
    <3> QED BY <1>2, <2>1, <2>3, <3>1
  <2> QED BY <1>1, <2>2, <2>3
<1>7. PICK k \in S : \A m \in S : k <= m
  <2>1. S \in SUBSET Nat /\ S # {}
    BY <1>2 DEF S
  <2> QED BY <2>1, LeastElement
<1>8. k \in 1..n /\ k \in stop /\ k \in 1..n+1 /\ \A j \in 1..k-1 : j \notin stop
  BY <1>1, <1>2, <1>7 DEF stop
<1>9. F[1] = {k - 1}
  <2>1. F[1] = value[k]
    <3> HIDE DEF n
    <3>1. n \in Nat
      BY <1>1
    <3> QED BY ONLY <3>1, <1>6, <1>8, LoopEnds
  <2>2. k # n + 1 /\ k \in D
    BY <1>1, <1>8
  <2> QED BY <1>v, <2>1, <2>2
<1>10. String!Least(S) = k
  <2>1. S \in SUBSET Int
    BY <1>2
  <2> QED BY <1>7, <2>1, LeastIs
<1>11. String!Strspn(s, t) = F[1]
  BY DEF String!Strspn, Spn, F
<1> QED BY <1>9, <1>10, <1>11 DEF S

\* strstr finds no empty needle: strncmp takes a count of 0 for a large one, and
\* the first char of what is left of the haystack for a difference.
LEMMA StrstrEmpty ==
    ASSUME NEW h \in String!Strings
    PROVE  String!Strstr(h, <<>>) = 0
<1> DEFINE n == Len(h)
           Found(i) == Len(h) - i + 1 >= Len(<<>>) /\ String!Strncmp(String!From(h, i), <<>>, Len(<<>>)) = 0
           f == Seek(n, {})
           F == Str(h, <<>>)
<1>1. n \in Nat /\ \A i \in 1..n+1 : String!At(h, i) = 0 <=> i = n + 1
  BY StringsAre
<1>2. ASSUME NEW i \in 1..n PROVE ~Found(i)
  <2>1. String!From(h, i) \in String!Strings /\ Len(String!From(h, i)) = n - i + 1
    BY FromIs
  <2>2. PICK g \in String!Strings : g = String!From(h, i)
    BY <2>1
  <2>3. <<>> \in String!Strings /\ Len(<<>>) = 0
    <3>1. 0 \in 0..MaxString /\ <<>> \in [1..0 -> Chars]
      BY StringsAre
    <3> QED BY <3>1, IsString
  <2>4. PICK e \in String!Strings : e = <<>> /\ Len(e) = 0
    BY <2>3
  <2>5. String!At(e, 1) = 0 /\ String!At(g, 1) # 0 /\ 1 \in 1..MaxString + 1 /\ 0 \in 0..SizeMod - 1
        /\ String!At(g, 1) \in Int
    <3>1. Len(g) >= 1
      BY <1>1, <2>1, <2>2
    <3>2. MaxString \in Nat /\ SizeMod \in Nat /\ SizeMod > MaxString + 1
      BY StringsAre
    <3>3. String!At(e, 1) = 0 <=> 1 > Len(e)
      BY StringsAre
    <3>4. String!At(g, 1) = 0 <=> 1 > Len(g)
      BY StringsAre
    <3>5. String!At(g, 1) \in Int
      <4>1. 1 \in Nat \ {0} /\ \A c \in -128..127 : c \in Int
        OBVIOUS
      <4>2. \A j \in Nat \ {0} : String!At(g, j) \in -128..127
        BY StringsAre
      <4> QED BY <4>1, <4>2, Zenon
    <3>6. Len(g) \in Nat
      BY <1>1, <2>1, <2>2
    <3>7. String!At(g, 1) # 0
      BY <3>1, <3>4, <3>6
    <3>8. String!At(e, 1) = 0
      BY <2>4, <3>3
    <3>9. 1 \in 1..MaxString + 1 /\ 0 \in 0..SizeMod - 1
      BY <3>2
    <3> QED BY <3>5, <3>7, <3>8, <3>9, Zenon
  <2>6. Differ(g, e, 1) /\ \A j \in 1..1-1 : ~Differ(g, e, j)
    BY <2>5 DEF Differ
  <2>7. String!Strncmp(g, e, 0) = String!At(g, 1) - String!At(e, 1)
    BY <2>5, <2>6, StrncmpIs
  <2> QED BY <2>2, <2>4, <2>5, <2>7
<1>3. f = [i \in 1..n+1 |-> IF i = n + 1 THEN 0 ELSE IF i \in {} THEN i ELSE f[i+1]]
  <2>1. {} \in SUBSET (1..n)
    OBVIOUS
  <2> HIDE DEF n, Found
  <2> QED BY <1>1, <2>1, SeekIs
<1>4. f = [i \in 1..n+1 |-> IF String!At(h, i) = 0 THEN 0 ELSE IF Found(i) THEN i ELSE f[i+1]]
  <2> HIDE DEF f, Found
  <2>1. \A i \in 1..n+1 : f[i] = IF String!At(h, i) = 0 THEN 0 ELSE IF Found(i) THEN i ELSE f[i+1]
    BY <1>1, <1>2, <1>3
  <2>2. f = [i \in 1..n+1 |-> f[i]]
    BY <1>3
  <2> QED BY <2>1, <2>2
<1> HIDE DEF f
<1>5. F = [i \in 1..n+1 |-> IF String!At(h, i) = 0 THEN 0 ELSE IF Found(i) THEN i ELSE F[i+1]]
  BY <1>4 DEF Str
<1> HIDE DEF F, Found
<1>6. \A i \in 1..n+1 : F[i] = IF i = n + 1 THEN 0 ELSE IF i \in {} THEN i ELSE F[i+1]
  BY <1>1, <1>2, <1>5
<1>7. F[1] = String!First({})
  <2>1. {} \in SUBSET (1..n)
    OBVIOUS
  <2> HIDE DEF n
  <2> QED BY <1>1, <1>6, <2>1, FirstFound, ZenonT(30)
<1>8. String!Strstr(h, <<>>) = F[1]
  BY DEF String!Strstr, Str, F
<1> QED BY <1>7, <1>8 DEF String!First

\* The searching functions do what the standard says.
LEMMA FindsAlike ==
    ASSUME NEW s \in String!Strings, NEW t \in String!Strings
    PROVE  String!FindsAsC(s, t)
<1>1. \A c \in Chars : String!Strchr(s, c) = String!First({i \in 1..Len(s) : s[i] = c})
  BY StrchrFinds
<1>2. String!Strstr(s, t) = IF t = <<>> THEN 0
                            ELSE String!First({i \in 1..Len(s) : String!Begins(t, String!From(s, i))})
  BY StrstrFinds, StrstrEmpty
<1>6. \A c \in Int : (c = 0 \/ c > 127) => String!Strchr(s, c) = 0
  <2> SUFFICES ASSUME NEW c \in Int, c = 0 \/ c > 127 PROVE String!Strchr(s, c) = 0
    OBVIOUS
  <2>0. c \in Int /\ (c = 0 \/ c > 127)
    OBVIOUS
  <2>1. {i \in 1..Len(s) : s[i] = c} = {}
    <3>1. \A i \in 1..Len(s) : s[i] \in -128..127 /\ s[i] # 0
      BY StringsAre
    <3>2. \A b \in -128..127 : b # 0 => b # c
      BY <2>0
    <3>3. \A i \in 1..Len(s) : s[i] # c
      BY <3>1, <3>2
    <3> QED BY <3>3
  <2> QED BY <2>1, StrchrFinds DEF String!First
<1>7. \A c \in Chars : c < 0 => String!Unsigned(c) \in Int /\ String!Unsigned(c) > 127
  <2>1. Chars \subseteq (-128..127) \ {0}
    BY ConstantsAssumption DEF String!CStringAssumption
  <2>2. \A c \in -128..127 : c < 0 => c % 256 = c + 256
    OBVIOUS
  <2> QED BY <2>1, <2>2 DEF String!Unsigned
<1>3. {i \in 1..Len(s) : ~String!Has(t, s[i])} # {} =>
        String!Strspn(s, t) = {String!Least({i \in 1..Len(s) : ~String!Has(t, s[i])}) - 1}
  BY StrspnFinds
<1>4. String!Strpbrk(s, t) = String!First({i \in 1..Len(s) : String!Has(t, s[i])})
  BY StrpbrkFinds
<1>5. String!Strcspn(s, t) = String!First({i \in 1..Len(s) : String!Has(t, s[i])} \cup {Len(s) + 1}) - 1
  BY StrcspnFinds
<1>8. String!Strchr(s, 0) = 0 /\ \A c \in Chars : c < 0 => String!Strchr(s, String!Unsigned(c)) = 0
  BY <1>6, <1>7
<1> QED BY <1>1, <1>2, <1>3, <1>4, <1>5, <1>8, Zenon DEF String!FindsAsC

\* The place of an element in the order of a finite set of numbers, and the
\* element at a place.
Rank(S, c) == Cardinality({b \in S : b <= c})
NthOf(S, k) == CHOOSE i \in S : Cardinality({j \in S : j <= i}) = k

\* The ranks are ordered as the elements are ...
LEMMA RankGrows ==
    ASSUME NEW S \in SUBSET Int, IsFiniteSet(S), NEW c \in S, NEW e \in S, c < e
    PROVE  /\ Rank(S, c) \in Nat /\ Rank(S, e) \in Nat /\ Rank(S, c) < Rank(S, e)
           /\ (\A b \in S : ~(c < b /\ b < e)) => Rank(S, e) = Rank(S, c) + 1
<1> DEFINE C == {b \in S : b <= c}
           E == {b \in S : b <= e}
<1>1. IsFiniteSet(C) /\ IsFiniteSet(E) /\ Cardinality(C) \in Nat /\ Cardinality(E) \in Nat
  <2>1. IsFiniteSet(C) /\ IsFiniteSet(E)
    BY FS_Subset
  <2> HIDE DEF C, E
  <2> QED BY <2>1, FS_CardinalityType
<1>0. c \in Int /\ e \in Int /\ \A b \in S : b \in Int
  OBVIOUS
<1>2. e \notin C /\ C \cup {e} \subseteq E
  <2>1. \A b \in S : b <= c => b <= e
    BY <1>0
  <2>2. ~(e <= c) /\ e <= e
    BY <1>0
  <2> QED BY <2>1, <2>2
<1>3. (\A b \in S : ~(c < b /\ b < e)) => E = C \cup {e}
  <2> SUFFICES ASSUME \A b \in S : ~(c < b /\ b < e) PROVE \A b \in E : b \in C \cup {e}
    BY <1>2
  <2>1. \A b \in S : b <= e => b <= c \/ b = e
    BY <1>0
  <2> QED BY <2>1
<1> HIDE DEF C, E
<1>4. IsFiniteSet(C \cup {e}) /\ Cardinality(C \cup {e}) = Cardinality(C) + 1
  BY <1>1, <1>2, FS_AddElement
<1>5. Cardinality(C \cup {e}) <= Cardinality(E)
  BY <1>1, <1>2, FS_Subset
<1>6. Cardinality(C) < Cardinality(E) /\ ((\A b \in S : ~(c < b /\ b < e)) => Cardinality(E) = Cardinality(C) + 1)
  <2>1. Cardinality(C) < Cardinality(E)
    BY <1>1, <1>4, <1>5
  <2>2. ASSUME \A b \in S : ~(c < b /\ b < e) PROVE Cardinality(E) = Cardinality(C) + 1
    BY <1>3, <1>4, <2>2
  <2> QED BY <2>1, <2>2
<1> QED BY <1>1, <1>6 DEF Rank, C, E

\* ... so the element with the rank of c is c ...
LEMMA NthIs ==
    ASSUME NEW S \in SUBSET Int, IsFiniteSet(S), NEW c \in S
    PROVE  NthOf(S, Rank(S, c)) = c
<1>1. ASSUME NEW e \in S, Rank(S, e) = Rank(S, c) PROVE e = c
  <2>1. ~(e < c)
    <3>1. e < c => Rank(S, e) < Rank(S, c) /\ Rank(S, e) \in Nat
      BY RankGrows
    <3> QED BY <1>1, <3>1
  <2>2. ~(c < e)
    <3>1. c < e => Rank(S, c) < Rank(S, e) /\ Rank(S, c) \in Nat
      BY RankGrows
    <3> QED BY <1>1, <3>1
  <2> QED BY <2>1, <2>2
<1>2. NthOf(S, Rank(S, c)) = CHOOSE e \in S : Rank(S, e) = Rank(S, c)
  BY Zenon DEF NthOf, Rank
<1> QED BY <1>1, <1>2

\* ... and the ranks go from 1 to the size of the set.
LEMMA RankEnds ==
    ASSUME NEW S \in SUBSET Int, IsFiniteSet(S), NEW c \in S
    PROVE  /\ Rank(S, c) \in Nat \ {0} /\ Cardinality(S) \in Nat /\ Rank(S, c) <= Cardinality(S)
           /\ (\A b \in S : c <= b) => Rank(S, c) = 1
           /\ (\A b \in S : b <= c) => Rank(S, c) = Cardinality(S)
<1> DEFINE C == {b \in S : b <= c}
<1>1. C \subseteq S /\ c \in C
  OBVIOUS
<1>2. (\A b \in S : c <= b) => C = {c}
  <2>1. c \in Int /\ \A b \in S : b \in Int
    OBVIOUS
  <2>2. (\A b \in S : c <= b) => \A b \in S : b <= c => b = c
    BY <2>1
  <2> QED BY <1>1, <2>2
<1>3. (\A b \in S : b <= c) => C = S
  OBVIOUS
<1>4. Rank(S, c) = Cardinality(C)
  BY DEF Rank
<1> HIDE DEF C
<1>5. IsFiniteSet(C) /\ Cardinality(C) <= Cardinality(S) /\ Cardinality(C) \in Nat /\ Cardinality(S) \in Nat
  BY <1>1, FS_Subset, FS_CardinalityType
<1>6. Cardinality(C) # 0
  BY <1>1, <1>5, FS_EmptySet
<1>7. Cardinality({c}) = 1
  BY FS_Singleton
<1> QED BY <1>2, <1>3, <1>4, <1>5, <1>6, <1>7

\* Where a string is cut, its ends included.
Cuts(s, t) == {i \in 1..Len(s) : String!Has(t, s[i])} \cup {0, Len(s) + 1}

\* The cuts are a finite set with the ends 0 and Len(s) + 1.
LEMMA CutsAre ==
    ASSUME NEW s \in String!Strings, NEW t
    PROVE  /\ Cuts(s, t) \in SUBSET Int /\ IsFiniteSet(Cuts(s, t)) /\ Cuts(s, t) \in SUBSET (0..Len(s) + 1)
           /\ 0 \in Cuts(s, t) /\ Len(s) + 1 \in Cuts(s, t)
           /\ Cardinality(Cuts(s, t)) \in Nat /\ Cardinality(Cuts(s, t)) >= 2
           /\ Rank(Cuts(s, t), 0) = 1 /\ Rank(Cuts(s, t), Len(s) + 1) = Cardinality(Cuts(s, t))
<1> DEFINE S == Cuts(s, t)
<1>1. Len(s) \in Nat
  BY StringsAre
<1>2. /\ S \in SUBSET Int /\ S \in SUBSET (0..Len(s) + 1) /\ 0 \in S /\ Len(s) + 1 \in S
      /\ \A b \in S : 0 <= b /\ b <= Len(s) + 1
  BY <1>1 DEF Cuts
<1> HIDE DEF S
<1>3. IsFiniteSet(S)
  <2>1. IsFiniteSet(0..Len(s) + 1)
    BY <1>1, FS_Interval
  <2> QED BY <1>2, <2>1, FS_Subset
<1>4. Rank(S, 0) = 1 /\ Rank(S, Len(s) + 1) = Cardinality(S) /\ Cardinality(S) \in Nat
  BY <1>2, <1>3, RankEnds
<1>5. Rank(S, 0) < Rank(S, Len(s) + 1)
  <2>1. 0 < Len(s) + 1
    BY <1>1
  <2> QED BY <1>2, <1>3, <2>1, RankGrows
<1> QED BY <1>2, <1>3, <1>4, <1>5 DEF S

\* The fields, in terms of the ranks of the cuts ...
LEMMA FieldsAre ==
    ASSUME NEW s \in String!Strings, NEW t
    PROVE  String!Fields(s, t) =
             [k \in 1..Cardinality(Cuts(s, t)) - 1 |->
                  SubSeq(s, NthOf(Cuts(s, t), k) + 1, NthOf(Cuts(s, t), k + 1) - 1)]
  BY Zenon DEF String!Fields, Cuts, NthOf, String!Nth, String!Cardinality, Cardinality,
               String!IsFiniteSet, IsFiniteSet

\* ... and the one between two neighbouring cuts.
LEMMA FieldIs ==
    ASSUME NEW s \in String!Strings, NEW t, NEW c \in Cuts(s, t), NEW e \in Cuts(s, t), c < e,
           \A b \in Cuts(s, t) : ~(c < b /\ b < e)
    PROVE  /\ Rank(Cuts(s, t), c) \in 1..Cardinality(Cuts(s, t)) - 1
           /\ Rank(Cuts(s, t), e) = Rank(Cuts(s, t), c) + 1
           /\ String!Fields(s, t)[Rank(Cuts(s, t), c)] = SubSeq(s, c + 1, e - 1)
           /\ Len(String!Fields(s, t)) = Cardinality(Cuts(s, t)) - 1
<1> DEFINE S == Cuts(s, t)
           k == Rank(S, c)
<1>1. S \in SUBSET Int /\ IsFiniteSet(S) /\ Cardinality(S) \in Nat
  BY CutsAre
<1>2. String!Fields(s, t) = [i \in 1..Cardinality(S) - 1 |-> SubSeq(s, NthOf(S, i) + 1, NthOf(S, i + 1) - 1)]
  BY FieldsAre
<1> HIDE DEF S
<1>3. c \in S /\ e \in S /\ \A b \in S : ~(c < b /\ b < e)
  BY DEF S
<1>4. k \in Nat \ {0} /\ Rank(S, e) = k + 1 /\ Rank(S, e) <= Cardinality(S)
  BY <1>1, <1>3, RankGrows, RankEnds
<1>5. NthOf(S, k) = c /\ NthOf(S, k + 1) = e
  BY <1>1, <1>3, <1>4, NthIs
<1> HIDE DEF k
<1>6. k \in 1..Cardinality(S) - 1 /\ Cardinality(S) - 1 \in Nat
  BY <1>1, <1>4
<1>7. String!Fields(s, t)[k] = SubSeq(s, c + 1, e - 1)
  BY <1>2, <1>5, <1>6
<1>8. Len(String!Fields(s, t)) = Cardinality(S) - 1
  BY <1>2, <1>6
<1> QED BY <1>4, <1>6, <1>7, <1>8 DEF S, k

\* The string at a position of the buffer ends in front of the next 0.
LEMMA StringAtIs ==
    ASSUME NEW b, Len(b) \in Nat, NEW i \in 1..Len(b) + 1, NEW e \in i..Len(b) + 1,
           e = Len(b) + 1 \/ b[e] = 0, \A j \in i..e-1 : b[j] # 0
    PROVE  String!StringAt(b, i) = SubSeq(b, i, e - 1)
<1> DEFINE ends == {j \in i..Len(b) : b[j] = 0} \cup {Len(b) + 1}
<1>1. e \in ends /\ \A m \in ends : e <= m
  OBVIOUS
<1>2. ends \in SUBSET Int
  OBVIOUS
<1>3. String!StringAt(b, i) = SubSeq(b, i, String!Least(ends) - 1)
  BY DEF String!StringAt
<1> HIDE DEF ends
<1>4. String!Least(ends) = e
  BY <1>1, <1>2, LeastIs
<1> QED BY <1>3, <1>4

\* Two pieces with the same chars are the same.
LEMMA PieceIs ==
    ASSUME NEW s \in String!Strings, NEW i \in 1..Len(s) + 1, NEW e \in i..Len(s) + 1,
           NEW b, b \in [1..Len(s) -> Chars \cup {0}], \A j \in i..e-1 : b[j] = s[j]
    PROVE  /\ SubSeq(b, i, e - 1) = SubSeq(s, i, e - 1)
           /\ SubSeq(s, i, e - 1) \in String!Strings
           /\ Len(SubSeq(s, i, e - 1)) = e - i
           /\ \A j \in 1..e-i : SubSeq(s, i, e - 1)[j] = s[i + j - 1]
<1> DEFINE r == SubSeq(s, i, e - 1)
           q == SubSeq(b, i, e - 1)
<1>1. /\ s \in Seq(Chars) /\ Len(s) \in 0..MaxString /\ MaxString \in Nat
      /\ s \in [1..Len(s) -> Chars] /\ \A j \in 1..Len(s) : s[j] \in Chars
  BY StringsAre
<1>2. b \in Seq(Chars \cup {0}) /\ Len(b) = Len(s)
  BY <1>1
<1>3. r = [j \in 1..e-i |-> s[i + j - 1]]
  <2>1. r = [j \in 1..(e - 1 - i + 1) |-> s[i + j - 1]]
    BY <1>1 DEF SubSeq
  <2> QED BY <1>1, <2>1
<1>4. q = [j \in 1..e-i |-> b[i + j - 1]]
  <2>1. q = [j \in 1..(e - 1 - i + 1) |-> b[i + j - 1]]
    BY <1>1, <1>2 DEF SubSeq
  <2> QED BY <1>1, <2>1
<1> HIDE DEF r, q
<1>5. \A j \in 1..e-i : i + j - 1 \in i..e-1 /\ i + j - 1 \in 1..Len(s)
  BY <1>1
<1>6. \A j \in 1..e-i : b[i + j - 1] = s[i + j - 1] /\ s[i + j - 1] \in Chars
  BY <1>1, <1>5
<1>7. q = r
  BY <1>3, <1>4, <1>6
<1>8. r \in [1..e-i -> Chars]
  BY <1>3, <1>6
<1>9. e - i \in 0..MaxString
  BY <1>1
<1>10. r \in String!Strings
  BY <1>8, <1>9, IsString
<1>11. Len(r) = e - i
  BY <1>3, <1>9
<1>12. \A j \in 1..e-i : r[j] = s[i + j - 1]
  BY <1>3
<1> QED BY <1>7, <1>10, <1>11, <1>12 DEF q, r

\* strtok's search from position i on finds the next place to cut, if any.
LEMMA NextCut ==
    ASSUME NEW s \in String!Strings, NEW t \in String!Strings, NEW i \in 1..Len(s) + 1,
           NEW b, b \in [1..Len(s) -> Chars \cup {0}], \A j \in i..Len(s) : b[j] = s[j],
           NEW end, end = String!Strpbrk(String!StringAt(b, i), t)
    PROVE  /\ end = 0 => \A c \in Cuts(s, t) : ~(i - 1 < c /\ c < Len(s) + 1)
           /\ end # 0 => /\ end \in Nat /\ i + end - 1 \in i..Len(s) /\ i + end - 1 \in Cuts(s, t)
                         /\ \A c \in Cuts(s, t) : ~(i - 1 < c /\ c < i + end - 1)
<1> DEFINE n == Len(s)
           r == SubSeq(s, i, n)
           S == {j \in 1..n - i + 1 : String!Has(t, s[i + j - 1])}
<1>1. n \in Nat /\ \A j \in 1..n : s[j] # 0
  BY StringsAre
<1>2. Len(b) = n
  BY <1>1
<1>3. String!StringAt(b, i) = SubSeq(b, i, n) /\ n + 1 \in i..n + 1 /\ (n + 1) - 1 = n
  <2>1. n + 1 \in i..Len(b) + 1 /\ i \in 1..Len(b) + 1 /\ \A j \in i..(n + 1) - 1 : b[j] # 0
    BY <1>1, <1>2
  <2>2. String!StringAt(b, i) = SubSeq(b, i, (n + 1) - 1)
    BY <1>1, <1>2, <2>1, StringAtIs
  <2> QED BY <1>1, <2>1, <2>2
<1>4. /\ SubSeq(b, i, n) = r /\ r \in String!Strings /\ Len(r) = n - i + 1
      /\ \A j \in 1..n - i + 1 : r[j] = s[i + j - 1]
  <2>1. \A j \in i..(n + 1) - 1 : b[j] = s[j]
    BY <1>1
  <2>2. (n + 1) - i = n - i + 1
    BY <1>1
  <2> QED BY <1>3, <2>1, <2>2, PieceIs
<1>5. end = String!First(S)
  <2>1. end = String!First({j \in 1..Len(r) : String!Has(t, r[j])})
    <3> HIDE DEF r
    <3> QED BY <1>3, <1>4, StrpbrkFinds
  <2>2. {j \in 1..Len(r) : String!Has(t, r[j])} = S
    <3> HIDE DEF r
    <3> QED BY <1>4
  <2> QED BY <2>1, <2>2
<1>6. S \in SUBSET (1..n - i + 1) /\ n - i + 1 \in Nat
  BY <1>1
<1>7. \A c \in Cuts(s, t) : i - 1 < c /\ c < n + 1 => c - i + 1 \in S
  <2> SUFFICES ASSUME NEW c \in Cuts(s, t), i - 1 < c, c < n + 1 PROVE c - i + 1 \in S
    OBVIOUS
  <2>1. c \in 1..n /\ String!Has(t, s[c])
    BY <1>1 DEF Cuts
  <2>2. c - i + 1 \in 1..n - i + 1 /\ i + (c - i + 1) - 1 = c
    BY <1>1, <2>1
  <2> QED BY <2>1, <2>2
<1>8. CASE end = 0
  <2>1. S = {}
    <3> HIDE DEF S, n
    <3> QED BY <1>5, <1>6, <1>8, FirstIs
  <2> QED BY <1>7, <1>8, <2>1
<1>9. CASE end # 0
  <2>1. S # {} /\ S \in SUBSET Nat /\ S \in SUBSET Int
    <3>1. S \in SUBSET Nat /\ S \in SUBSET Int
      OBVIOUS
    <3> HIDE DEF S, n
    <3> QED BY <3>1, <1>5, <1>6, <1>9, FirstIs
  <2> HIDE DEF S
  <2>2. PICK m \in S : \A j \in S : m <= j
    BY <2>1, LeastElement
  <2>3. end = m
    <3>1. String!Least(S) = m
      BY <2>1, <2>2, LeastIs
    <3> QED BY <1>5, <2>1, <3>1 DEF String!First
  <2>4. m \in 1..n - i + 1 /\ String!Has(t, s[i + m - 1])
    BY DEF S
  <2>5. i + m - 1 \in i..n /\ i + m - 1 \in 1..n
    BY <1>1, <2>4
  <2>6. i + m - 1 \in Cuts(s, t)
    BY <2>4, <2>5 DEF Cuts
  <2>7. ASSUME NEW c \in Cuts(s, t), i - 1 < c, c < i + m - 1 PROVE FALSE
    <3>1. c \in 0..n + 1
      BY <1>1 DEF Cuts
    <3>2. c < n + 1
      BY <1>1, <2>5, <2>7, <3>1
    <3>3. c - i + 1 \in S
      BY <1>7, <2>7, <3>2
    <3>4. m <= c - i + 1
      BY <2>2, <3>3
    <3> QED BY <2>4, <2>7, <3>1, <3>4
  <2>8. end \in Nat
    BY <2>3, <2>4
  <2> QED BY <1>9, <2>3, <2>5, <2>6, <2>7, <2>8
<1> QED BY <1>8, <1>9

\* The tokens returned so far are the first fields, with m - 1 of them ...
FirstFields(s, t, list, m) ==
    /\ list \in Seq(String!Strings) /\ Len(list) = m - 1
    /\ \A k \in 1..m - 1 : list[k] = String!Fields(s, t)[k]
\* ... and the rest of the string, from position i on, is still as it was.
Cutting(s, t, b, i, list) ==
    /\ b \in [1..Len(s) -> Chars \cup {0}] /\ i \in 1..Len(s) + 1 /\ i - 1 \in Cuts(s, t)
    /\ \A j \in i..Len(s) : b[j] = s[j]
    /\ FirstFields(s, t, list, Rank(Cuts(s, t), i - 1))

\* The invariant: arguments, buffer, strtok's own pointer, tokens.
StringInv ==
    /\ arg \in [s : String!Strings, t : String!Strings, n : 0..MaxString + 1]
    /\ at \in {"start", "called", "split", "null", "crashed"}
    /\ at \in {"start", "called"} => buffer = <<>> /\ p = 0 /\ tokens = <<>>
    /\ at = "split" => Cutting(arg.s, arg.t, buffer, p, tokens)
    /\ at \in {"null", "crashed"} =>
         /\ buffer \in [1..Len(arg.s) -> Chars \cup {0}] /\ p = 0
         /\ FirstFields(arg.s, arg.t, tokens, Cardinality(Cuts(arg.s, arg.t)) - 1)

\* One call of strtok: it returns the next field, or there is none behind it.
LEMMA CutStep ==
    ASSUME NEW s \in String!Strings, NEW t \in String!Strings, arg.t = t, NEW b, NEW i,
           Cutting(s, t, b, i, tokens), String!Cut(b, i)
    PROVE  /\ at' \in {"split", "null"}
           /\ at' = "split" => Cutting(s, t, buffer', p', tokens')
           /\ at' = "null" => /\ buffer' \in [1..Len(s) -> Chars \cup {0}] /\ p' = 0
                              /\ FirstFields(s, t, tokens', Cardinality(Cuts(s, t)) - 1)
<1> DEFINE end == String!Strpbrk(String!StringAt(b, i), t)
           e == i + end - 1
           m == Rank(Cuts(s, t), i - 1)
<1>1. /\ b \in [1..Len(s) -> Chars \cup {0}] /\ i \in 1..Len(s) + 1 /\ i - 1 \in Cuts(s, t)
      /\ \A j \in i..Len(s) : b[j] = s[j]
      /\ tokens \in Seq(String!Strings) /\ Len(tokens) = m - 1
      /\ \A k \in 1..m - 1 : tokens[k] = String!Fields(s, t)[k]
      /\ Len(s) \in Nat /\ \A j \in 1..Len(s) : s[j] # 0
  BY StringsAre DEF Cutting, FirstFields
<1>2. /\ end = 0 => \A c \in Cuts(s, t) : ~(i - 1 < c /\ c < Len(s) + 1)
      /\ end # 0 => /\ end \in Nat /\ e \in i..Len(s) /\ e \in Cuts(s, t)
                    /\ \A c \in Cuts(s, t) : ~(i - 1 < c /\ c < e)
  BY <1>1, NextCut
<1>3. IF end = 0 THEN buffer' = b /\ p' = 0 /\ at' = "null" /\ tokens' = tokens
      ELSE /\ buffer' = [b EXCEPT ![e] = 0] /\ p' = i + end
           /\ tokens' = Append(tokens, String!StringAt(buffer', i)) /\ at' = "split"
  BY DEF String!Cut
<1> HIDE DEF end, m
<1>4. CASE end = 0
  <2>1. Len(s) + 1 \in Cuts(s, t) /\ i - 1 < Len(s) + 1
    BY <1>1, CutsAre
  <2>2. /\ Rank(Cuts(s, t), Len(s) + 1) = m + 1 /\ m \in Nat
        /\ Rank(Cuts(s, t), Len(s) + 1) = Cardinality(Cuts(s, t)) /\ Cardinality(Cuts(s, t)) \in Nat
    <3>1. \A c \in Cuts(s, t) : ~(i - 1 < c /\ c < Len(s) + 1)
      BY <1>2, <1>4
    <3>2. Rank(Cuts(s, t), Len(s) + 1) = m + 1 /\ m \in 1..Cardinality(Cuts(s, t)) - 1
      BY <1>1, <2>1, <3>1, FieldIs DEF m
    <3> QED BY <3>2, CutsAre
  <2>3. Cardinality(Cuts(s, t)) - 1 = m
    BY <2>2
  <2>4. FirstFields(s, t, tokens', m)
    BY <1>1, <1>3, <1>4 DEF FirstFields
  <2> QED BY <1>1, <1>3, <1>4, <2>3, <2>4
<1>5. CASE end # 0
  <2> HIDE DEF e
  <2>0. PICK after, list : after = buffer' /\ list = tokens'
    OBVIOUS
  <2>1. /\ end \in Nat /\ e \in i..Len(s) /\ e \in Cuts(s, t)
        /\ \A c \in Cuts(s, t) : ~(i - 1 < c /\ c < e)
        /\ after = [b EXCEPT ![e] = 0] /\ p' = i + end
        /\ list = Append(tokens, String!StringAt(after, i)) /\ at' = "split"
    BY <1>2, <1>3, <1>5, <2>0
  <2>2. e \in 1..Len(s) /\ i - 1 < e /\ p' = e + 1 /\ p' - 1 = e /\ p' \in 1..Len(s) + 1
        /\ (i - 1) + 1 = i /\ e \in i..Len(s) + 1
    BY <1>1, <2>1 DEF e
  <2>3. /\ after \in [1..Len(s) -> Chars \cup {0}] /\ after[e] = 0 /\ Len(after) = Len(s)
        /\ \A j \in 1..Len(s) : j # e => after[j] = b[j]
    <3>1. after \in [1..Len(s) -> Chars \cup {0}]
      BY <1>1, <2>1, <2>2
    <3> QED BY <1>1, <2>1, <2>2, <3>1
  <2>4. \A j \in i..e-1 : after[j] = s[j] /\ after[j] # 0
    <3> SUFFICES ASSUME NEW j \in i..e-1 PROVE after[j] = s[j] /\ after[j] # 0
      OBVIOUS
    <3>1. j \in 1..Len(s) /\ j \in i..Len(s) /\ j # e
      BY <1>1, <2>2
    <3> QED BY <1>1, <2>3, <3>1
  <2>5. \A j \in p'..Len(s) : after[j] = s[j]
    <3> SUFFICES ASSUME NEW j \in p'..Len(s) PROVE after[j] = s[j]
      OBVIOUS
    <3>1. j \in 1..Len(s) /\ j \in i..Len(s) /\ j # e
      BY <1>1, <2>2
    <3> QED BY <1>1, <2>3, <3>1
  <2>6. String!StringAt(after, i) = SubSeq(after, i, e - 1)
    <3>1. /\ Len(after) \in Nat /\ i \in 1..Len(after) + 1 /\ e \in i..Len(after) + 1
          /\ e = Len(after) + 1 \/ after[e] = 0
      BY <1>1, <2>2, <2>3
    <3>2. \A j \in i..e-1 : after[j] # 0
      BY <2>4
    <3> QED BY ONLY <3>1, <3>2, StringAtIs
  <2>7. SubSeq(after, i, e - 1) = SubSeq(s, i, e - 1) /\ SubSeq(s, i, e - 1) \in String!Strings
    <3>1. i \in 1..Len(s) + 1 /\ e \in i..Len(s) + 1 /\ s \in String!Strings
      BY <1>1, <2>2
    <3>2. after \in [1..Len(s) -> Chars \cup {0}] /\ \A j \in i..e-1 : after[j] = s[j]
      BY <2>3, <2>4
    <3> QED BY ONLY <3>1, <3>2, PieceIs
  <2>8. /\ m \in Nat \ {0} /\ Rank(Cuts(s, t), e) = m + 1
        /\ String!Fields(s, t)[m] = SubSeq(s, i, e - 1)
    <3>1. /\ m \in 1..Cardinality(Cuts(s, t)) - 1 /\ Rank(Cuts(s, t), e) = m + 1
          /\ String!Fields(s, t)[m] = SubSeq(s, (i - 1) + 1, e - 1)
      <4>1. /\ i - 1 \in Cuts(s, t) /\ e \in Cuts(s, t) /\ i - 1 < e
            /\ \A c \in Cuts(s, t) : ~(i - 1 < c /\ c < e)
            /\ s \in String!Strings /\ t \in String!Strings
        BY <1>1, <2>1, <2>2
      <4> QED BY ONLY <4>1, FieldIs DEF m
    <3>2. Cardinality(Cuts(s, t)) \in Nat
      BY CutsAre
    <3>3. m \in Nat \ {0}
      BY <3>1, <3>2
    <3> QED BY <2>2, <3>1, <3>3
  <2>9. FirstFields(s, t, list, m + 1)
    <3> DEFINE r == SubSeq(s, i, e - 1)
    <3>1. list = Append(tokens, r) /\ r \in String!Strings /\ r = String!Fields(s, t)[m]
      BY <2>1, <2>6, <2>7, <2>8
    <3> HIDE DEF r
    <3>2. /\ list \in Seq(String!Strings) /\ Len(list) = m
          /\ \A k \in 1..m : list[k] = IF k = m THEN r ELSE tokens[k]
      BY <1>1, <2>8, <3>1
    <3>3. \A k \in 1..m : list[k] = String!Fields(s, t)[k]
      <4> SUFFICES ASSUME NEW k \in 1..m PROVE list[k] = String!Fields(s, t)[k]
        OBVIOUS
      <4>1. CASE k = m
        BY <3>1, <3>2, <4>1
      <4>2. CASE k # m
        <5>1. k \in 1..m - 1
          BY <2>8, <4>2
        <5> QED BY <1>1, <3>2, <4>2, <5>1
      <4> QED BY <4>1, <4>2
    <3>4. (m + 1) - 1 = m
      BY <2>8
    <3> QED BY <3>2, <3>3, <3>4 DEF FirstFields
  <2> QED BY <2>0, <2>1, <2>2, <2>3, <2>5, <2>8, <2>9 DEF Cutting
<1> QED BY <1>4, <1>5

\* The invariant is kept by every call.
LEMMA StringStep == StringInv /\ [String!Next]_stringVars => StringInv'
<1> SUFFICES ASSUME StringInv, [String!Next]_stringVars PROVE StringInv'
  OBVIOUS
<1>0. arg \in [s : String!Strings, t : String!Strings, n : 0..MaxString + 1]
  BY DEF StringInv
<1>1. CASE UNCHANGED stringVars
  <2>1. arg' = arg /\ buffer' = buffer /\ p' = p /\ tokens' = tokens /\ at' = at
    BY <1>1 DEF stringVars
  <2> QED BY <2>1 DEF StringInv
<1>2. CASE String!Call
  <2>1. PICK s, t \in String!Strings, n \in 0..MaxString + 1 : arg' = [s |-> s, t |-> t, n |-> n]
    BY <1>2 DEF String!Call
  <2>2. /\ at = "start" /\ at' = "called" /\ buffer' = buffer /\ p' = p /\ tokens' = tokens
    BY <1>2 DEF String!Call
  <2>3. arg' \in [s : String!Strings, t : String!Strings, n : 0..MaxString + 1]
    BY <2>1
  <2> QED BY <2>2, <2>3 DEF StringInv
<1>3. CASE String!Strtok
  <2>1. at = "called" /\ String!Cut(arg.s, 1) /\ arg' = arg
    BY <1>3 DEF String!Strtok
  <2>2. arg.s \in String!Strings /\ arg.t \in String!Strings
    BY <1>0
  <2>3. tokens = <<>>
    BY <2>1 DEF StringInv
  <2>4. Cutting(arg.s, arg.t, arg.s, 1, tokens)
    <3>1. /\ arg.s \in [1..Len(arg.s) -> Chars] /\ Len(arg.s) \in Nat
      BY <2>2, StringsAre
    <3>2. 0 \in Cuts(arg.s, arg.t) /\ Rank(Cuts(arg.s, arg.t), 0) = 1 /\ 1 - 1 = 0
      BY <2>2, CutsAre
    <3>3. FirstFields(arg.s, arg.t, tokens, 1)
      BY <2>3 DEF FirstFields
    <3>4. arg.s \in [1..Len(arg.s) -> Chars \cup {0}] /\ 1 \in 1..Len(arg.s) + 1
      BY <3>1
    <3> QED BY <3>2, <3>3, <3>4 DEF Cutting
  <2>5. /\ at' \in {"split", "null"}
        /\ at' = "split" => Cutting(arg.s, arg.t, buffer', p', tokens')
        /\ at' = "null" => /\ buffer' \in [1..Len(arg.s) -> Chars \cup {0}] /\ p' = 0
                           /\ FirstFields(arg.s, arg.t, tokens', Cardinality(Cuts(arg.s, arg.t)) - 1)
    BY <2>1, <2>2, <2>4, CutStep
  <2> QED BY <1>0, <2>1, <2>5 DEF StringInv
<1>4. CASE String!StrtokNext
  <2>1. at = "split" /\ String!Cut(buffer, p) /\ arg' = arg
    BY <1>4 DEF String!StrtokNext
  <2>2. arg.s \in String!Strings /\ arg.t \in String!Strings
    BY <1>0
  <2>4. Cutting(arg.s, arg.t, buffer, p, tokens)
    BY <2>1 DEF StringInv
  <2>5. /\ at' \in {"split", "null"}
        /\ at' = "split" => Cutting(arg.s, arg.t, buffer', p', tokens')
        /\ at' = "null" => /\ buffer' \in [1..Len(arg.s) -> Chars \cup {0}] /\ p' = 0
                           /\ FirstFields(arg.s, arg.t, tokens', Cardinality(Cuts(arg.s, arg.t)) - 1)
    BY <2>1, <2>2, <2>4, CutStep
  <2> QED BY <1>0, <2>1, <2>5 DEF StringInv
<1>5. CASE String!StrtokAgain
  <2>1. /\ at = "null" /\ at' = "crashed"
        /\ arg' = arg /\ buffer' = buffer /\ p' = p /\ tokens' = tokens
    BY <1>5 DEF String!StrtokAgain
  <2> QED BY <2>1 DEF StringInv
<1> QED BY <1>1, <1>2, <1>3, <1>4, <1>5 DEF String!Next

\* It always holds.
LEMMA StringAlways == Spec => []StringInv
<1>1. Init => StringInv
  <2> SUFFICES ASSUME Init PROVE StringInv
    OBVIOUS
  <2>1. /\ arg = [s |-> <<>>, t |-> <<>>, n |-> 0]
        /\ buffer = <<>> /\ p = 0 /\ tokens = <<>> /\ at = "start"
    BY DEF Init, String!Init
  <2>2. MaxString \in Nat
    BY ConstantsAssumption DEF String!CStringAssumption
  <2>3. <<>> \in String!Strings
    <3>1. 0 \in 0..MaxString /\ <<>> \in [1..0 -> Chars]
      BY <2>2
    <3> QED BY <3>1, IsString
  <2>4. 0 \in 0..MaxString + 1
    BY <2>2
  <2>5. arg \in [s : String!Strings, t : String!Strings, n : 0..MaxString + 1]
    BY <2>1, <2>3, <2>4
  <2> QED BY <2>1, <2>5 DEF StringInv
<1> QED BY <1>1, OneProgramRuns, StringStep, PTL DEF Spec

\* The functions do what the standard says, for strings of any length of any
\* chars and any width of size_t, and in the cases that the property names,
\* empty needles and the 0 at the end among them, exactly what it says of them
\* (string.h, lines 30-90).
THEOREM LikeTheStandardAlways == Spec => []LikeTheStandard
<1>1. StringInv => LikeTheStandard
  <2> SUFFICES ASSUME StringInv PROVE LikeTheStandard
    OBVIOUS
  <2>1. arg.s \in String!Strings /\ arg.t \in String!Strings /\ arg.n \in 0..MaxString + 1
    BY DEF StringInv
  <2> QED BY <2>1, ComparesAlike, FindsAlike DEF LikeTheStandard, String!LikeTheStandard
<1> QED BY <1>1, StringAlways, PTL

\* strtok's tokens are the fields between the delimiters in order, the last
\* one never returned, for strings of any length (string.h, lines 98-112).
THEOREM TokensAreFieldsAlways == Spec => []TokensAreFields
<1>1. StringInv => TokensAreFields
  <2> SUFFICES ASSUME StringInv PROVE TokensAreFields
    OBVIOUS
  <2> DEFINE fields == String!Fields(arg.s, arg.t)
             S == Cuts(arg.s, arg.t)
  <2>1. arg.s \in String!Strings /\ arg.t \in String!Strings
    BY DEF StringInv
  <2>2. /\ S \in SUBSET Int /\ IsFiniteSet(S) /\ Cardinality(S) \in Nat /\ Cardinality(S) >= 2
        /\ Len(arg.s) + 1 \in S /\ Rank(S, Len(arg.s) + 1) = Cardinality(S) /\ Len(arg.s) \in Nat
    BY <2>1, CutsAre, StringsAre
  <2>3. /\ fields = [k \in 1..Cardinality(S) - 1 |-> fields[k]]
        /\ Len(fields) = Cardinality(S) - 1
    <3>1. fields = [k \in 1..Cardinality(S) - 1 |-> fields[k]]
      <4> DEFINE piece(k) == SubSeq(arg.s, NthOf(S, k) + 1, NthOf(S, k + 1) - 1)
      <4>1. fields = [k \in 1..Cardinality(S) - 1 |-> piece(k)]
        BY <2>1, FieldsAre
      <4> HIDE DEF piece, fields, S
      <4> QED BY ONLY <4>1
    <3>2. Len(fields) = Cardinality(S) - 1
      BY <2>2, <3>1
    <3> QED BY <3>1, <3>2
  <2> HIDE DEF fields, S
  <2>4. ASSUME NEW m \in 1..Cardinality(S) - 1, FirstFields(arg.s, arg.t, tokens, m)
        PROVE  tokens = SubSeq(fields, 1, Len(tokens)) /\ Len(tokens) = m - 1
    <3>1. /\ tokens \in Seq(String!Strings) /\ Len(tokens) = m - 1 /\ m - 1 \in Nat
          /\ \A k \in 1..m - 1 : tokens[k] = fields[k]
      BY <2>2, <2>4, SMTT(40) DEF FirstFields, fields
    <3>2. tokens = [k \in 1..m - 1 |-> tokens[k]]
      BY <3>1
    <3>3. SubSeq(fields, 1, m - 1) = [k \in 1..m - 1 |-> fields[k]]
      BY <2>2, <2>3, <3>1 DEF SubSeq
    <3> QED BY <3>1, <3>2, <3>3
  <2>5. ASSUME at = "split"
        PROVE  tokens = SubSeq(fields, 1, Len(tokens)) /\ Len(tokens) < Len(fields)
    <3> DEFINE m == Rank(S, p - 1)
    <3>1. p \in 1..Len(arg.s) + 1 /\ p - 1 \in S /\ FirstFields(arg.s, arg.t, tokens, m)
      BY <2>5 DEF StringInv, Cutting, S
    <3>2. p - 1 < Len(arg.s) + 1
      BY <2>2, <3>1
    <3>3. m \in Nat \ {0} /\ m < Cardinality(S)
      BY <2>2, <3>1, <3>2, RankGrows, RankEnds
    <3> HIDE DEF m
    <3>4. m \in 1..Cardinality(S) - 1
      BY <2>2, <3>3
    <3>5. tokens = SubSeq(fields, 1, Len(tokens)) /\ Len(tokens) = m - 1
      BY ONLY <2>4, <3>1, <3>4
    <3>6. m - 1 < Cardinality(S) - 1
      BY <2>2, <3>3
    <3> QED BY ONLY <2>3, <3>5, <3>6
  <2>6. ASSUME at \in {"null", "crashed"}
        PROVE  tokens = SubSeq(fields, 1, Len(fields) - 1)
    <3>1. FirstFields(arg.s, arg.t, tokens, Cardinality(S) - 1)
      BY <2>6 DEF StringInv, S
    <3>2. Cardinality(S) - 1 \in 1..Cardinality(S) - 1
      BY <2>2
    <3> QED BY <2>3, <2>4, <3>1, <3>2
  <2> QED BY <2>5, <2>6 DEF TokensAreFields, String!TokensAreFields, fields
<1> QED BY <1>1, StringAlways, PTL

-----------------------------------------------------------------------------
(* execute.c, the words of the line                                        *)

\* Every number up to the size of the set is the rank of an element.
LEMMA RankOnto ==
    ASSUME NEW S \in SUBSET Int, IsFiniteSet(S), NEW k \in 1..Cardinality(S)
    PROVE  NthOf(S, k) \in S /\ Rank(S, NthOf(S, k)) = k
<1> DEFINE N == Cardinality(S)
           T == 1..N
           f == [c \in S |-> Rank(S, c)]
<1>1. N \in Nat
  BY FS_CardinalityType
<1>2. IsFiniteSet(T) /\ Cardinality(T) = N
  BY <1>1, FS_Interval
<1>3. ASSUME NEW c \in S PROVE Rank(S, c) \in T
  <2>1. Rank(S, c) \in Nat \ {0} /\ Rank(S, c) <= N
    BY RankEnds
  <2> QED BY <1>1, <2>1
<1>4. ASSUME NEW c \in S, NEW e \in S, Rank(S, c) = Rank(S, e) PROVE c = e
  BY <1>4, NthIs
<1>5. f \in Injection(S, T)
  BY <1>3, <1>4 DEF Injection, IsInjective
<1>6. f \in Surjection(S, T)
  BY <1>2, <1>5, FS_Injection
<1>7. PICK c \in S : Rank(S, c) = k
  BY <1>6 DEF Surjection
<1> QED BY <1>7, NthIs

\* Without its least element a set is what it was, one rank lower.
LEMMA WithoutLeast ==
    ASSUME NEW S \in SUBSET Int, IsFiniteSet(S), NEW b \in S, \A c \in S : b <= c
    PROVE  /\ Cardinality(S) = Cardinality(S \ {b}) + 1 /\ Cardinality(S \ {b}) \in Nat
           /\ IsFiniteSet(S \ {b})
           /\ NthOf(S, 1) = b
           /\ \A k \in 1..Cardinality(S \ {b}) : NthOf(S, k + 1) = NthOf(S \ {b}, k)
<1> DEFINE R == S \ {b}
<1>1. R \in SUBSET Int /\ IsFiniteSet(R)
  BY FS_Subset
<1>2. Cardinality(S) = Cardinality(R) + 1 /\ Cardinality(R) \in Nat
  <2>1. Cardinality(R) = Cardinality(S) - 1 /\ Cardinality(S) \in Nat /\ Cardinality(R) \in Nat
    BY <1>1, FS_RemoveElement, FS_CardinalityType
  <2> QED BY <2>1
<1>3. NthOf(S, 1) = b
  <2>1. Rank(S, b) = 1
    BY RankEnds
  <2> QED BY <2>1, NthIs
<1>4. ASSUME NEW k \in 1..Cardinality(R) PROVE NthOf(S, k + 1) = NthOf(R, k)
  <2> DEFINE c == NthOf(R, k)
             C == {d \in R : d <= c}
  <2>1. c \in R /\ Rank(R, c) = k
    BY <1>1, RankOnto
  <2>2. c \in S /\ b <= c
    BY <2>1
  <2>3. {d \in S : d <= c} = C \cup {b} /\ b \notin C /\ C \subseteq R
    BY <2>2
  <2>4. IsFiniteSet(C)
    BY <1>1, <2>3, FS_Subset
  <2>5. Cardinality(C) = k
    BY <2>1 DEF Rank
  <2> HIDE DEF c, C, R
  <2>6. Rank(S, c) = k + 1
    <3>1. Cardinality(C \cup {b}) = Cardinality(C) + 1
      BY <2>3, <2>4, FS_AddElement
    <3> QED BY <2>3, <2>5, <3>1 DEF Rank
  <2>7. NthOf(S, Rank(S, c)) = c
    BY <2>2, NthIs
  <2> QED BY <2>6, <2>7 DEF c
<1> HIDE DEF R
<1> QED BY <1>1, <1>2, <1>3, <1>4 DEF R

\* From place i on, where a word begins if the places in "blank" have none.
WordsFrom(n, blank, i) == {b \in i..n : b \notin blank /\ (b = i \/ b - 1 \in blank)}

\* The word that begins at b and ends in front of e is the first of them.
LEMMA FirstWord ==
    ASSUME NEW n \in Nat, NEW blank, NEW i \in 1..n, NEW b \in i..n+1, NEW e \in b..n+1,
           \A j \in i..b-1 : j \in blank, b = n + 1 \/ b \notin blank,
           \A j \in b..e-1 : j \notin blank, e = n + 1 \/ e \in blank
    PROVE  /\ b = n + 1 => WordsFrom(n, blank, i) = {} /\ e = n + 1
           /\ b # n + 1 => /\ b < e /\ b \in WordsFrom(n, blank, i)
                           /\ \A c \in WordsFrom(n, blank, i) : b <= c
                           /\ WordsFrom(n, blank, e) = WordsFrom(n, blank, i) \ {b}
<1>1. ASSUME b = n + 1 PROVE WordsFrom(n, blank, i) = {} /\ e = n + 1
  BY <1>1 DEF WordsFrom
<1>2. ASSUME b # n + 1
      PROVE  /\ b < e /\ b \in WordsFrom(n, blank, i)
             /\ \A c \in WordsFrom(n, blank, i) : b <= c
             /\ WordsFrom(n, blank, e) = WordsFrom(n, blank, i) \ {b}
  <2>1. b \in i..n /\ b \notin blank /\ b < e
    <3>1. b # e
      BY <1>2
    <3> QED BY <1>2, <3>1
  <2>2. b = i \/ b - 1 \in blank
    <3>1. b # i => b - 1 \in i..b-1
      BY <2>1
    <3> QED BY <3>1
  <2>3. b \in WordsFrom(n, blank, i)
    BY <2>1, <2>2 DEF WordsFrom
  <2>4. ASSUME NEW c \in WordsFrom(n, blank, i) PROVE b <= c
    <3>1. c \in i..n /\ c \notin blank
      BY DEF WordsFrom
    <3>2. c < b => c \in i..b-1
      BY <3>1
    <3> QED BY <3>1, <3>2
  <2>5. ASSUME NEW c \in WordsFrom(n, blank, e) PROVE c \in WordsFrom(n, blank, i) \ {b}
    <3>1. c \in e..n /\ c \notin blank /\ (c = e \/ c - 1 \in blank)
      BY DEF WordsFrom
    <3>2. c # e /\ c \in i..n /\ c # b
      BY <2>1, <3>1
    <3> QED BY <3>1, <3>2 DEF WordsFrom
  <2>6. ASSUME NEW c \in WordsFrom(n, blank, i), c # b PROVE c \in WordsFrom(n, blank, e)
    <3>1. c \in i..n /\ c \notin blank /\ (c = i \/ c - 1 \in blank) /\ b <= c
      BY <2>4 DEF WordsFrom
    <3>2. c # i /\ c - 1 \in blank
      BY <2>1, <2>6, <3>1
    <3>3. ~(c - 1 \in b..e-1) /\ c - 1 >= b
      BY <2>6, <3>1, <3>2
    <3>4. c \in e..n
      BY <3>1, <3>3
    <3> QED BY <3>1, <3>2, <3>4 DEF WordsFrom
  <2> QED BY <2>1, <2>3, <2>4, <2>5, <2>6
<1> QED BY <1>1, <1>2

\* g is f with w in front.
InFront(w, m, f, g) ==
    /\ m \in Nat /\ f = [k \in 1..m |-> f[k]] /\ g = [k \in 1..m+1 |-> g[k]]
    /\ g[1] = w /\ \A k \in 1..m : g[k+1] = f[k]

\* Then it is the concatenation.
LEMMA PutInFront ==
    ASSUME NEW w, NEW m, NEW f, NEW g, InFront(w, m, f, g)
    PROVE  g = <<w>> \o f
<1> USE DEF InFront
<1> DEFINE V == {w} \cup {f[k] : k \in 1..m}
<1>1. f \in [1..m -> V] /\ w \in V
  OBVIOUS
<1> HIDE DEF V
<1>2. f \in Seq(V) /\ Len(f) = m /\ <<w>> \in Seq(V) /\ Len(<<w>>) = 1
  BY <1>1, SMTT(30)
<1>3. <<w>> \o f \in Seq(V) /\ Len(<<w>> \o f) = m + 1
  BY <1>2
<1>4. (<<w>> \o f)[1] = w
  BY <1>2
<1>5. \A k \in 2..m+1 : (<<w>> \o f)[k] = f[k-1]
  BY <1>2
<1>6. \A k \in 2..m+1 : k - 1 \in 1..m /\ (k - 1) + 1 = k
  OBVIOUS
<1>7. \A k \in 1..m+1 : g[k] = (<<w>> \o f)[k]
  <2> SUFFICES ASSUME NEW k \in 1..m+1 PROVE g[k] = (<<w>> \o f)[k]
    OBVIOUS
  <2>1. CASE k = 1
    BY <1>4, <2>1
  <2>2. CASE k # 1
    <3>1. k \in 2..m+1
      BY <2>2
    <3>2. g[(k-1) + 1] = f[k-1]
      BY <1>6, <3>1
    <3> QED BY <1>5, <1>6, <3>1, <3>2
  <2> QED BY <2>1, <2>2
<1>8. <<w>> \o f = [k \in 1..m+1 |-> (<<w>> \o f)[k]]
  BY <1>3
<1> HIDE DEF V
<1> QED BY <1>7, <1>8

\* g is f with w behind it.
Behind(w, m, f, g) ==
    /\ m \in Nat /\ f = [k \in 1..m |-> f[k]] /\ g = [k \in 1..m+1 |-> g[k]]
    /\ g[m+1] = w /\ \A k \in 1..m : g[k] = f[k]

\* Then it is the concatenation.
LEMMA PutBehind ==
    ASSUME NEW w, NEW m, NEW f, NEW g, Behind(w, m, f, g)
    PROVE  f \o <<w>> = g
<1> USE DEF Behind
<1> DEFINE V == {w} \cup {f[k] : k \in 1..m}
<1>1. f \in [1..m -> V] /\ w \in V /\ m \in Nat
  OBVIOUS
<1> HIDE DEF V
<1>2. f \in Seq(V) /\ Len(f) = m /\ <<w>> \in Seq(V) /\ Len(<<w>>) = 1
  BY ONLY <1>1
<1>3. f \o <<w>> \in Seq(V) /\ Len(f \o <<w>>) = m + 1
  BY <1>1, <1>2
<1>4. (f \o <<w>>)[m+1] = w
  BY <1>1, <1>2
<1>5. \A k \in 1..m : (f \o <<w>>)[k] = f[k]
  BY <1>1, <1>2
<1>6. \A k \in 1..m+1 : k = m + 1 \/ k \in 1..m
  BY <1>1
<1>7. \A k \in 1..m+1 : g[k] = (f \o <<w>>)[k]
  BY <1>4, <1>5, <1>6
<1>8. f \o <<w>> = [k \in 1..m+1 |-> (f \o <<w>>)[k]]
  BY <1>3
<1> QED BY <1>7, <1>8

\* Nothing behind a sequence.
LEMMA NothingBehind ==
    ASSUME NEW m, m \in Nat, NEW f, f = [k \in 1..m |-> f[k]]
    PROVE  f \o <<>> = f
<1> DEFINE V == {f[k] : k \in 1..m}
<1>1. f \in [1..m -> V]
  OBVIOUS
<1> HIDE DEF V
<1>2. f \in Seq(V)
  BY <1>1
<1> QED BY <1>2

\* The first position of S from i on, or the one behind the last.
LEMMA FirstOf ==
    ASSUME NEW n \in Nat, NEW i \in 1..n+1, NEW S \in SUBSET (i..n),
           NEW r, r = IF S = {} THEN n + 1 ELSE CHOOSE j \in S : \A k \in S : j <= k
    PROVE  r \in i..n+1 /\ (r = n + 1 \/ r \in S) /\ \A j \in i..r-1 : j \notin S
<1>1. CASE S = {}
  BY <1>1
<1>2. CASE S # {}
  <2>1. S \in SUBSET Nat
    OBVIOUS
  <2>2. \E j \in S : \A k \in S : j <= k
    BY ONLY <1>2, <2>1, LeastElement
  <2>3. r \in S /\ \A k \in S : r <= k
    BY <1>2, <2>2
  <2>4. r \in i..n
    BY <2>3
  <2>5. \A j \in i..r-1 : ~(r <= j)
    BY <2>4
  <2> QED BY <2>3, <2>4, <2>5
<1> QED BY <1>1, <1>2

\* Where parse finds the next word, and where it ends.
Blanks == {j \in 1..Len(line) : line[j] = " "}
BeginFrom(i) == Exec!FirstFrom(i, {"x", "y"})
EndFrom(i) == Exec!FirstFrom(i, {" "})

\* Between them there are blanks, or none.
LEMMA BeginEnd ==
    ASSUME line \in Seq({"x", "y", " "}), NEW i \in 1..Len(line) + 1
    PROVE  /\ BeginFrom(i) \in i..Len(line) + 1
           /\ BeginFrom(i) = Len(line) + 1 \/ BeginFrom(i) \notin Blanks
           /\ \A j \in i..BeginFrom(i) - 1 : j \in Blanks
           /\ EndFrom(i) \in i..Len(line) + 1
           /\ EndFrom(i) = Len(line) + 1 \/ EndFrom(i) \in Blanks
           /\ \A j \in i..EndFrom(i) - 1 : j \notin Blanks
<1> DEFINE n == Len(line)
           begins == {j \in i..n : line[j] \in {"x", "y"}}
           ends == {j \in i..n : line[j] \in {" "}}
<1>1. n \in Nat
  <2> DEFINE L == {"x", "y", " "}
  <2>1. line \in Seq(L)
    OBVIOUS
  <2> HIDE DEF L
  <2> QED BY ONLY <2>1
<1>2. \A j \in 1..n : line[j] \in {"x", "y", " "}
  <2> DEFINE L == {"x", "y", " "}
  <2>1. line \in Seq(L)
    OBVIOUS
  <2> HIDE DEF L
  <2>2. \A j \in 1..n : line[j] \in L
    BY ONLY <2>1
  <2> QED BY <2>2, Zenon DEF L
<1>3. BeginFrom(i) = IF begins = {} THEN n + 1 ELSE CHOOSE j \in begins : \A k \in begins : j <= k
  BY Zenon DEF BeginFrom, Exec!FirstFrom
<1>4. EndFrom(i) = IF ends = {} THEN n + 1 ELSE CHOOSE j \in ends : \A k \in ends : j <= k
  BY Zenon DEF EndFrom, Exec!FirstFrom
<1>5. begins \in SUBSET (i..n) /\ ends \in SUBSET (i..n)
  BY Zenon
<1>6. \A j \in 1..n : j \in Blanks <=> line[j] \notin {"x", "y"}
  BY <1>2, Zenon DEF Blanks
<1>7. \A j \in 1..n : j \in Blanks <=> line[j] \in {" "}
  BY Zenon DEF Blanks
<1>8. \A j : j \in begins <=> j \in i..n /\ line[j] \in {"x", "y"}
  BY Zenon
<1>9. \A j : j \in ends <=> j \in i..n /\ line[j] \in {" "}
  BY Zenon
<1>10. \A j \in i..n : j \in 1..n
  BY ONLY <1>1, i \in 1..n+1
<1>11. \A j \in i..n : (j \in begins <=> j \notin Blanks) /\ (j \in ends <=> j \in Blanks)
  BY <1>6, <1>7, <1>8, <1>9, <1>10, Zenon
<1> HIDE DEF begins, ends, n
<1>12. /\ BeginFrom(i) \in i..n+1 /\ (BeginFrom(i) = n + 1 \/ BeginFrom(i) \in begins)
       /\ \A j \in i..BeginFrom(i) - 1 : j \notin begins
  BY ONLY <1>1, i \in 1..n+1, <1>3, <1>5, FirstOf DEF n
<1>13. /\ EndFrom(i) \in i..n+1 /\ (EndFrom(i) = n + 1 \/ EndFrom(i) \in ends)
       /\ \A j \in i..EndFrom(i) - 1 : j \notin ends
  BY ONLY <1>1, i \in 1..n+1, <1>4, <1>5, FirstOf DEF n
<1>14. /\ \A j \in i..BeginFrom(i) - 1 : j \in i..n
       /\ \A j \in i..EndFrom(i) - 1 : j \in i..n
       /\ i \in 1..n+1
  BY ONLY <1>1, i \in 1..n+1, <1>12, <1>13 DEF n
<1>15. /\ \A j \in i..BeginFrom(i) - 1 : j \in Blanks
       /\ \A j \in i..EndFrom(i) - 1 : j \notin Blanks
       /\ BeginFrom(i) = n + 1 \/ BeginFrom(i) \notin Blanks
       /\ EndFrom(i) = n + 1 \/ EndFrom(i) \in Blanks
  BY <1>5, <1>11, <1>12, <1>13, <1>14, Zenon
<1> QED BY <1>12, <1>13, <1>15, Zenon DEF n

\* The words from place i on, and the empty one if a blank is the last char.
WordAt(b) == SubSeq(line, b, EndFrom(b) - 1)
Begins(i) == WordsFrom(Len(line), Blanks, i)
Trailing(i) == IF i <= Len(line) /\ Len(line) \in Blanks THEN 1 ELSE 0
WordsAt(i) ==
    [k \in 1..Cardinality(Begins(i)) + Trailing(i) |->
        IF k <= Cardinality(Begins(i)) THEN WordAt(NthOf(Begins(i), k)) ELSE <<>>]

\* From place i on the next word is at b and ends in front of e, or there is none.
NextWord(i, b, e) ==
    /\ i \in 1..Len(line) /\ b = BeginFrom(i) /\ e = EndFrom(b)
    /\ b \in i..Len(line) + 1 /\ e \in b..Len(line) + 1
    /\ \A j \in i..b-1 : j \in Blanks
    /\ b = Len(line) + 1 \/ b \notin Blanks
    /\ \A j \in b..e-1 : j \notin Blanks
    /\ e = Len(line) + 1 \/ e \in Blanks

\* They are what parse takes next, and then those from there on.
LEMMA WordsStep ==
    ASSUME Len(line) \in Nat, NEW i, NEW b, NEW e, NextWord(i, b, e)
    PROVE  WordsAt(i) = <<SubSeq(line, b, e - 1)>> \o WordsAt(e)
<1> DEFINE n == Len(line)
           S == Begins(i)
           R == Begins(e)
<1>1. /\ n \in Nat /\ i \in 1..n /\ b \in i..n+1 /\ e \in b..n+1
      /\ \A j \in i..b-1 : j \in Blanks
      /\ b = n + 1 \/ b \notin Blanks
      /\ \A j \in b..e-1 : j \notin Blanks
      /\ e = n + 1 \/ e \in Blanks
      /\ e = EndFrom(b)
  BY DEF NextWord
<1>2. /\ b = n + 1 => S = {} /\ e = n + 1
      /\ b # n + 1 => b < e /\ b \in S /\ (\A c \in S : b <= c) /\ R = S \ {b}
  BY <1>1, FirstWord DEF Begins
<1>3. S \in SUBSET Int /\ IsFiniteSet(S)
  <2>1. S \subseteq i..n
    BY DEF Begins, WordsFrom
  <2>2. IsFiniteSet(i..n) /\ i..n \subseteq Int
    BY <1>1, FS_Interval
  <2> QED BY <2>1, <2>2, FS_Subset
<1>4. CASE b = n + 1
  <2>1. S = {} /\ e = n + 1
    BY <1>2, <1>4
  <2>2. R = {}
    BY <1>1, <2>1 DEF Begins, WordsFrom
  <2>3. Cardinality(S) = 0 /\ Cardinality(R) = 0
    BY <2>1, <2>2, FS_EmptySet
  <2>4. n \in Blanks
    <3>1. n \in i..b-1
      BY <1>1, <1>4
    <3> QED BY <1>1, <3>1
  <2>5. Trailing(i) = 1 /\ Trailing(e) = 0
    BY <1>1, <2>1, <2>4 DEF Trailing
  <2>6. WordsAt(i) = [k \in 1..1 |-> <<>>]
    <3>1. WordsAt(i) = [k \in 1..0 + 1 |-> IF k <= 0 THEN WordAt(NthOf(S, k)) ELSE <<>>]
      BY <2>3, <2>5 DEF WordsAt
    <3> QED BY <3>1
  <2>7. WordsAt(e) = <<>>
    <3>1. WordsAt(e) = [k \in 1..0 + 0 |-> IF k <= 0 THEN WordAt(NthOf(R, k)) ELSE <<>>]
      BY <2>3, <2>5 DEF WordsAt
    <3> QED BY <3>1
  <2>8. SubSeq(line, b, e - 1) = <<>>
    <3>1. b = n + 1 /\ e - 1 = n
      BY <1>1, <1>4, <2>1
    <3>2. SubSeq(line, n + 1, n) = [k \in 1..(n - (n + 1) + 1) |-> line[k + (n + 1) - 1]]
      BY <1>1 DEF SubSeq
    <3>3. n - (n + 1) + 1 = 0
      BY <1>1
    <3> HIDE DEF n
    <3>4. SubSeq(line, n + 1, n) = [k \in 1..0 |-> line[k + (n + 1) - 1]]
      BY ONLY <3>2, <3>3
    <3>5. SubSeq(line, n + 1, n) = <<>>
      BY ONLY <3>4
    <3> QED BY ONLY <3>1, <3>5
  <2> DEFINE f == WordsAt(e)
             g == WordsAt(i)
             w == SubSeq(line, b, e - 1)
  <2>9. f = <<>> /\ g = [k \in 1..0+1 |-> w]
    <3>1. 0 + 1 = 1
      OBVIOUS
    <3> QED BY <2>6, <2>7, <2>8, <3>1
  <2> HIDE DEF f, g, w
  <2>10. /\ f = [k \in 1..0 |-> f[k]] /\ g = [k \in 1..0+1 |-> g[k]] /\ g[1] = w
         /\ \A k \in 1..0 : g[k+1] = f[k]
    <3>1. 1 \in 1..0+1 /\ 1..0 = {}
      OBVIOUS
    <3> QED BY ONLY <2>9, <3>1
  <2>11. g = <<w>> \o f
    <3>1. 0 \in Nat
      OBVIOUS
    <3>2. InFront(w, 0, f, g)
      BY ONLY <2>10, <3>1, Zenon DEF InFront
    <3> QED BY ONLY <3>2, PutInFront
  <2> QED BY <2>11 DEF f, g, w
<1>5. CASE b # n + 1
  <2>1. b < e /\ b \in S /\ (\A c \in S : b <= c) /\ R = S \ {b}
    BY <1>2, <1>5
  <2> HIDE DEF S
  <2>2. /\ Cardinality(S) = Cardinality(R) + 1 /\ Cardinality(R) \in Nat
        /\ NthOf(S, 1) = b /\ \A k \in 1..Cardinality(R) : NthOf(S, k + 1) = NthOf(R, k)
    <3>1. /\ Cardinality(S) = Cardinality(S \ {b}) + 1 /\ Cardinality(S \ {b}) \in Nat
          /\ NthOf(S, 1) = b
          /\ \A k \in 1..Cardinality(S \ {b}) : NthOf(S, k + 1) = NthOf(S \ {b}, k)
      <4>1. S \in SUBSET Int /\ IsFiniteSet(S) /\ b \in S /\ \A c \in S : b <= c
        BY <1>3, <2>1
      <4> QED BY ONLY <4>1, WithoutLeast
    <3> HIDE DEF R
    <3> QED BY ONLY <2>1, <3>1
  <2>3. Trailing(i) = Trailing(e) /\ Trailing(e) \in {0, 1}
    <3>1. e # n + 1 => e <= n
      BY <1>1
    <3>2. e = n + 1 => n \notin Blanks
      <4> SUFFICES ASSUME e = n + 1 PROVE n \in b..e-1
        BY <1>1
      <4> QED BY <1>1, <2>1
    <3> QED BY <1>1, <3>1, <3>2 DEF Trailing
  <2> DEFINE c == Cardinality(R)
             q == Trailing(e)
             f == WordsAt(e)
             g == WordsAt(i)
             w == SubSeq(line, b, e - 1)
  <2>4. w = WordAt(b)
    BY <1>1 DEF WordAt
  <2>5. f = [k \in 1..c + q |-> IF k <= c THEN WordAt(NthOf(R, k)) ELSE <<>>]
    BY DEF WordsAt
  <2>6. g = [k \in 1..(c + 1) + q |-> IF k <= c + 1 THEN WordAt(NthOf(S, k)) ELSE <<>>]
    BY <2>2, <2>3 DEF WordsAt, S
  <2> HIDE DEF f, g, w, c, q, R, n
  <2>7. c \in Nat /\ q \in Nat /\ c + q \in Nat
    BY <2>2, <2>3 DEF c, q
  <2>8. (c + 1) + q = (c + q) + 1
    BY <2>7
  <2>9. f = [k \in 1..c+q |-> f[k]]
    BY ONLY <2>5
  <2>10. g = [k \in 1..(c+q)+1 |-> g[k]]
    BY ONLY <2>6, <2>8
  <2>11. g[1] = w
    <3>1. 1 \in 1..(c + 1) + q /\ 1 <= c + 1
      BY <2>7
    <3>2. g[1] = WordAt(NthOf(S, 1))
      BY ONLY <2>6, <3>1
    <3> QED BY <2>2, <2>4, <3>2
  <2>12. \A k \in 1..c+q : g[k+1] = f[k]
    <3> SUFFICES ASSUME NEW k \in 1..c+q PROVE g[k+1] = f[k]
      OBVIOUS
    <3>1. k + 1 \in 1..(c + 1) + q /\ (k + 1 <= c + 1 <=> k <= c) /\ (k <= c => k \in 1..c)
      BY ONLY <2>7, k \in 1..c+q
    <3>2. g[k+1] = IF k <= c THEN WordAt(NthOf(S, k + 1)) ELSE <<>>
      BY ONLY <2>6, <3>1
    <3>3. f[k] = IF k <= c THEN WordAt(NthOf(R, k)) ELSE <<>>
      BY ONLY <2>5, k \in 1..c+q
    <3>4. k <= c => NthOf(S, k + 1) = NthOf(R, k)
      BY <2>2, <3>1 DEF c
    <3> QED BY ONLY <3>2, <3>3, <3>4
  <2>13. g = <<w>> \o f
    <3>1. PICK m : m = c + q
      OBVIOUS
    <3>2. /\ m \in Nat /\ f = [k \in 1..m |-> f[k]] /\ g = [k \in 1..m+1 |-> g[k]]
          /\ g[1] = w /\ \A k \in 1..m : g[k+1] = f[k]
      BY ONLY <2>7, <2>9, <2>10, <2>11, <2>12, <3>1
    <3>3. InFront(w, m, f, g)
      BY ONLY <3>2, Zenon DEF InFront
    <3> QED BY ONLY <3>3, PutInFront
  <2> QED BY <2>13 DEF f, g, w
<1> QED BY <1>4, <1>5

\* The function in the definition of parse, and its equation.
ParseBody(f) ==
    [i \in 1..Len(line) + 1 |->
        IF i > Len(line) THEN <<>>
        ELSE LET begin == BeginFrom(i)
                 end == EndFrom(begin)
             IN <<SubSeq(line, begin, end - 1)>> \o f[end]]
Parser == CHOOSE f : f = ParseBody(f)

\* Its value at the first place is what parse returns.
LEMMA ParseIs == Exec!Parse = Parser[1]
  BY Zenon DEF Exec!Parse, Parser, ParseBody, BeginFrom, EndFrom

\* The words satisfy it, and nothing else does.
LEMMA ParserIsWords ==
    ASSUME line \in Seq({"x", "y", " "})
    PROVE  Parser[1] = WordsAt(1)
<1> DEFINE n == Len(line)
           g == [i \in 1..n+1 |-> WordsAt(i)]
<1>1. n \in Nat
  <2> DEFINE L == {"x", "y", " "}
  <2>1. line \in Seq(L)
    OBVIOUS
  <2> HIDE DEF L
  <2> QED BY ONLY <2>1
<1>2. ASSUME NEW i \in 1..n
      PROVE  /\ EndFrom(BeginFrom(i)) \in i+1..n+1
             /\ WordsAt(i) = <<SubSeq(line, BeginFrom(i), EndFrom(BeginFrom(i)) - 1)>>
                             \o WordsAt(EndFrom(BeginFrom(i)))
  <2>1. i \in 1..n+1
    BY ONLY <1>1, i \in 1..n
  <2>2. PICK b : b = BeginFrom(i)
    OBVIOUS
  <2>3. PICK e : e = EndFrom(b)
    OBVIOUS
  <2>4. /\ b \in i..n+1 /\ (b = n + 1 \/ b \notin Blanks) /\ \A j \in i..b-1 : j \in Blanks
    BY <2>1, <2>2, BeginEnd, Zenon
  <2>5. b \in 1..n+1
    BY ONLY <1>1, <2>1, <2>4
  <2>6. /\ e \in b..n+1 /\ (e = n + 1 \/ e \in Blanks) /\ \A j \in b..e-1 : j \notin Blanks
    BY <2>5, <2>3, BeginEnd, Zenon
  <2>7. WordsAt(i) = <<SubSeq(line, b, e - 1)>> \o WordsAt(e)
    <3>1. NextWord(i, b, e)
      BY ONLY <2>2, <2>3, <2>4, <2>6, i \in 1..n DEF NextWord, n
    <3> QED BY ONLY <1>1, <3>1, WordsStep DEF n
  <2>8. e # i
    <3>1. e = i => b = i /\ b # n + 1 /\ e # n + 1
      BY ONLY <1>1, <2>4, <2>6, i \in 1..n
    <3> QED BY ONLY <2>4, <2>6, <3>1
  <2>9. e \in i+1..n+1
    BY ONLY <1>1, <2>4, <2>6, <2>8, i \in 1..n
  <2> QED BY <2>2, <2>3, <2>7, <2>9, Zenon
<1>3. WordsAt(n + 1) = <<>>
  <2>1. Begins(n + 1) = {} /\ Trailing(n + 1) = 0
    BY ONLY <1>1 DEF Begins, WordsFrom, Trailing
  <2>2. Cardinality(Begins(n + 1)) = 0
    BY ONLY <2>1, FS_EmptySet
  <2> HIDE DEF n
  <2>3. WordsAt(n + 1) = [k \in 1..0 + 0 |-> IF k <= 0 THEN WordAt(NthOf(Begins(n + 1), k)) ELSE <<>>]
    BY ONLY <2>1, <2>2 DEF WordsAt
  <2> QED BY ONLY <2>3
<1>4. g = ParseBody(g)
  <2>1. \A i \in 1..n+1 : (i > n <=> i = n + 1) /\ (~(i > n) => i \in 1..n)
    BY ONLY <1>1
  <2>2. \A i \in 1..n : i + 1 \in 1..n+1 /\ \A e \in i+1..n+1 : e \in 1..n+1
    BY ONLY <1>1
  <2>3. ASSUME NEW i \in 1..n+1 PROVE g[i] = ParseBody(g)[i]
    <3>1. CASE i > n
      BY <1>3, <2>1, <3>1, Zenon DEF ParseBody
    <3>2. CASE ~(i > n)
      <4>1. i \in 1..n /\ EndFrom(BeginFrom(i)) \in 1..n+1
        BY <1>2, <2>1, <2>2, <3>2, Zenon
      <4>2. g[EndFrom(BeginFrom(i))] = WordsAt(EndFrom(BeginFrom(i)))
        BY <4>1, Zenon
      <4>3. g[i] = <<SubSeq(line, BeginFrom(i), EndFrom(BeginFrom(i)) - 1)>>
                             \o g[EndFrom(BeginFrom(i))]
        BY <1>2, <4>1, <4>2, Zenon
      <4> HIDE DEF g
      <4> QED BY <3>2, <4>3, Zenon DEF ParseBody
    <3> QED BY <3>1, <3>2
  <2>4. ParseBody(g) = [i \in 1..n+1 |-> ParseBody(g)[i]] /\ g = [i \in 1..n+1 |-> g[i]]
    <3> HIDE DEF g
    <3>1. ParseBody(g) = [i \in 1..n+1 |-> ParseBody(g)[i]]
      BY Zenon DEF ParseBody
    <3>2. g = [i \in 1..n+1 |-> g[i]]
      BY Zenon DEF g
    <3> QED BY <3>1, <3>2
  <2> HIDE DEF g
  <2> QED BY ONLY <2>3, <2>4
<1> HIDE DEF g
<1>5. Parser = ParseBody(Parser)
  BY ONLY <1>4 DEF Parser
<1>6. ASSUME NEW i \in 1..n+1
      PROVE  /\ i = n + 1 => Parser[i] = <<>>
             /\ i \in 1..n => Parser[i] = <<SubSeq(line, BeginFrom(i), EndFrom(BeginFrom(i)) - 1)>>
                                          \o Parser[EndFrom(BeginFrom(i))]
  <2>1. (i = n + 1 => i > n) /\ (i \in 1..n => ~(i > n))
    BY ONLY <1>1, i \in 1..n+1
  <2>2. Parser[i] = IF i > n THEN <<>>
             ELSE <<SubSeq(line, BeginFrom(i), EndFrom(BeginFrom(i)) - 1)>>
                  \o Parser[EndFrom(BeginFrom(i))]
    BY <1>5, Zenon DEF ParseBody
  <2> QED BY ONLY <2>1, <2>2
<1>7. \A i \in 1..n+1 : Parser[i] = WordsAt(i)
  <2> DEFINE wrong == {d \in 0..n : Parser[n + 1 - d] # WordsAt(n + 1 - d)}
  <2>1. ASSUME wrong # {} PROVE FALSE
    <3> HIDE DEF n
    <3>0. wrong \in SUBSET Nat
      BY ONLY <1>1
    <3>1. PICK d \in wrong : \A c \in wrong : d <= c
      <4> HIDE DEF wrong
      <4> QED BY ONLY <2>1, <3>0, LeastElement
    <3>2. PICK i : i = n + 1 - d
      OBVIOUS
    <3>3. d \in 0..n /\ Parser[i] # WordsAt(i) /\ i \in 1..n+1
      BY ONLY <1>1, <3>1, <3>2
    <3>4. i # n + 1
      BY <1>3, <1>6, <3>3, Zenon DEF n
    <3>5. i \in 1..n
      BY ONLY <1>1, <3>3, <3>4
    <3>6. PICK e : e = EndFrom(BeginFrom(i))
      OBVIOUS
    <3>7. e \in i+1..n+1
      BY <1>2, <3>5, <3>6, Zenon
    <3>8. Parser[e] # WordsAt(e)
      BY <1>2, <1>6, <3>3, <3>5, <3>6, Zenon
    <3>9. PICK c : c = n + 1 - e
      OBVIOUS
    <3>10. c \in 0..n /\ n + 1 - c = e /\ c < d
      BY ONLY <1>1, <3>2, <3>3, <3>5, <3>7, <3>9
    <3>11. c \in wrong
      BY ONLY <3>8, <3>10
    <3> QED BY ONLY <1>1, <3>1, <3>3, <3>10, <3>11
  <2>2. ASSUME NEW i \in 1..n+1 PROVE Parser[i] = WordsAt(i)
    <3> HIDE DEF n
    <3>1. n + 1 - i \in 0..n /\ n + 1 - (n + 1 - i) = i
      BY ONLY <1>1, i \in 1..n+1
    <3>2. n + 1 - i \notin wrong
      BY ONLY <2>1
    <3> QED BY ONLY <3>1, <3>2
  <2> QED BY <2>2
<1>8. 1 \in 1..n+1
  BY ONLY <1>1
<1> QED BY <1>7, <1>8, Zenon

\* The words of a line, as the property has them.
FirstIn(l, i, S) ==
    LET found == {j \in i..Len(l) : l[j] \in S}
    IN IF found = {} THEN Len(l) + 1 ELSE CHOOSE j \in found : \A k \in found : j <= k
WordsOf(l) ==
    LET n == Len(l)
        begins == {i \in 1..n : l[i] # " " /\ (i = 1 \/ l[i - 1] = " ")}
        word(i) == SubSeq(l, i, FirstIn(l, i, {" "}) - 1)
        words == [k \in 1..Cardinality(begins) |-> word(NthOf(begins, k))]
    IN words \o (IF l[n] = " " THEN << <<>> >> ELSE <<>>)

\* It is what the property says, in this state and the next.
LEMMA ArgsAre ==
    /\ ArgsAreWords <=> (execPc \notin {"start", "parse"} => args = WordsOf(line))
    /\ ArgsAreWords' <=> (execPc' \notin {"start", "parse"} => args' = WordsOf(line'))
<1>1. ArgsAreWords <=> (execPc \notin {"start", "parse"} => args = WordsOf(line))
  BY Zenon DEF ArgsAreWords, Exec!ArgsAreWords, Exec!FirstFrom, Exec!Nth, Exec!Cardinality,
               Cardinality, Exec!IsFiniteSet, IsFiniteSet, WordsOf, FirstIn, NthOf
<1>2. ArgsAreWords' <=> (execPc' \notin {"start", "parse"} => args' = WordsOf(line'))
  BY Zenon DEF ArgsAreWords, Exec!ArgsAreWords, Exec!FirstFrom, Exec!Nth, Exec!Cardinality,
               Cardinality, Exec!IsFiniteSet, IsFiniteSet, WordsOf, FirstIn, NthOf
<1> QED BY <1>1, <1>2

\* So the arguments are the words, as the property has them.
LEMMA ParseIsWords ==
    ASSUME line \in Seq({"x", "y", " "}), line # <<>>
    PROVE  Exec!Parse = WordsOf(line)
<1> DEFINE n == Len(line)
           begins == {i \in 1..n : line[i] # " " /\ (i = 1 \/ line[i - 1] = " ")}
           word(i) == SubSeq(line, i, FirstIn(line, i, {" "}) - 1)
           words == [k \in 1..Cardinality(begins) |-> word(NthOf(begins, k))]
           last == IF line[n] = " " THEN << <<>> >> ELSE <<>>
<1>1. n \in Nat \ {0}
  <2> DEFINE L == {"x", "y", " "}
  <2>1. line \in Seq(L) /\ line # <<>>
    OBVIOUS
  <2> HIDE DEF L
  <2> QED BY ONLY <2>1
<1>2. begins = Begins(1)
  <2>1. ASSUME NEW i \in 1..n PROVE i = 1 \/ i - 1 \in 1..n
    BY ONLY <1>1, i \in 1..n
  <2>2. ASSUME NEW i \in 1..n PROVE (i = 1 \/ line[i - 1] = " ") <=> (i = 1 \/ i - 1 \in Blanks)
    BY <2>1, Zenon DEF Blanks
  <2>3. ASSUME NEW i \in 1..n PROVE line[i] # " " <=> i \notin Blanks
    BY Zenon DEF Blanks
  <2> QED BY <2>2, <2>3, Zenon DEF Begins, WordsFrom
<1>3. n \in Blanks <=> line[n] = " "
  <2>1. n \in 1..n
    BY ONLY <1>1
  <2> QED BY <2>1, Zenon DEF Blanks
<1>4. \A k : word(NthOf(begins, k)) = WordAt(NthOf(Begins(1), k))
  <2>1. \A i : word(i) = WordAt(i)
    BY Zenon DEF WordAt, EndFrom, Exec!FirstFrom, FirstIn
  <2> HIDE DEF begins
  <2> QED BY <1>2, <2>1, Zenon
<1>5. WordsOf(line) = words \o last
  BY Zenon DEF WordsOf
<1>6. Exec!Parse = WordsAt(1)
  BY ParseIs, ParserIsWords, Zenon
<1>7. Cardinality(Begins(1)) \in Nat
  <2>1. Begins(1) \subseteq 1..n
    BY DEF Begins, WordsFrom
  <2>2. IsFiniteSet(1..n)
    BY ONLY <1>1, FS_Interval
  <2> QED BY ONLY <2>1, <2>2, FS_Subset, FS_CardinalityType
<1>8. words \o last = WordsAt(1)
  <2>1. words = [k \in 1..Cardinality(Begins(1)) |-> WordAt(NthOf(Begins(1), k))]
    BY <1>2, <1>4, Zenon
  <2>2. 1 <= n
    BY ONLY <1>1
  <2>3. Trailing(1) = IF line[n] = " " THEN 1 ELSE 0
    BY <1>3, <2>2, Zenon DEF Trailing
  <2>4. CASE line[n] = " "
    <3>1. last = << <<>> >> /\ Trailing(1) = 1
      BY <2>3, <2>4, Zenon
    <3> HIDE DEF words, last
    <3>2. WordsAt(1) = [k \in 1..Cardinality(Begins(1)) + 1 |->
             IF k <= Cardinality(Begins(1)) THEN WordAt(NthOf(Begins(1), k)) ELSE <<>>]
      BY ONLY <3>1 DEF WordsAt
    <3>3. Behind(<<>>, Cardinality(Begins(1)), words, WordsAt(1))
      BY ONLY <1>7, <2>1, <3>2 DEF Behind
    <3> QED BY ONLY <3>1, <3>3, PutBehind
  <2>5. CASE line[n] # " "
    <3>1. last = <<>> /\ Trailing(1) = 0
      BY <2>3, <2>5, Zenon
    <3> HIDE DEF words, last
    <3>2. WordsAt(1) = [k \in 1..Cardinality(Begins(1)) + 0 |->
             IF k <= Cardinality(Begins(1)) THEN WordAt(NthOf(Begins(1), k)) ELSE <<>>]
      BY ONLY <3>1 DEF WordsAt
    <3>3. WordsAt(1) = words
      BY ONLY <1>7, <2>1, <3>2
    <3>4. words \o <<>> = words
      <4>1. words = [k \in 1..Cardinality(Begins(1)) |-> words[k]]
        BY ONLY <2>1
      <4> QED BY ONLY <1>7, <4>1, NothingBehind
    <3> QED BY ONLY <3>1, <3>3, <3>4
  <2> QED BY <2>4, <2>5, Zenon
<1> QED BY <1>5, <1>6, <1>8, Zenon

\* The line is typed and not empty, and what it was split into stays.
LineInv ==
    /\ line \in Seq({"x", "y", " "}) /\ (execPc # "start" => line # <<>>)
    /\ ArgsAreWords

\* A line is a sequence of these chars.
LEMMA LinesAre == \A s \in Exec!Lines : s \in Seq({"x", "y", " "}) /\ s # <<>>
<1> DEFINE L == {"x", "y", " "}
<1>1. MaxLine \in Nat \ {0}
  BY ConstantsAssumption DEF Exec!ExecutorAssumption
<1>2. \A n \in 1..MaxLine : \A s \in [1..n -> L] : s \in Seq(L) /\ s # <<>>
  <2> HIDE DEF L
  <2>1. ASSUME NEW n \in 1..MaxLine, NEW s \in [1..n -> L] PROVE s \in Seq(L) /\ s # <<>>
    <3>1. n \in Nat /\ n # 0
      BY <1>1
    <3>2. s \in Seq(L) /\ Len(s) = n
      BY <3>1
    <3> QED BY <3>1, <3>2
  <2> QED BY <2>1
<1> QED BY <1>2, Zenon DEF Exec!Lines

\* The invariant is kept by every step.
LEMMA LineStep == LineInv /\ [Exec!Next]_execVars => LineInv'
<1> SUFFICES ASSUME LineInv, [Exec!Next]_execVars PROVE LineInv'
  OBVIOUS
<1>0. /\ line \in Seq({"x", "y", " "}) /\ (execPc # "start" => line # <<>>)
      /\ execPc \notin {"start", "parse"} => args = WordsOf(line)
  BY ArgsAre, Zenon DEF LineInv
<1>1. ASSUME line' = line, args' = args, execPc \notin {"start", "parse"} PROVE LineInv'
  <2>1. args' = WordsOf(line') /\ line' \in Seq({"x", "y", " "}) /\ line' # <<>>
    BY <1>0, <1>1, Zenon
  <2> QED BY <2>1, ArgsAre, Zenon DEF LineInv
<1>2. CASE UNCHANGED execVars
  <2>1. execPc' = execPc /\ line' = line /\ args' = args
    BY <1>2, Zenon DEF execVars
  <2> QED BY <1>0, <2>1, ArgsAre, Zenon DEF LineInv
<1>3. CASE Exec!Start
  <2>1. execPc' = "parse" /\ line' \in Exec!Lines
    BY <1>3, Zenon DEF Exec!Start
  <2>2. execPc' \in {"start", "parse"}
    BY <2>1, Zenon
  <2> QED BY <2>1, <2>2, LinesAre, ArgsAre, Zenon DEF LineInv
<1>4. CASE Exec!ParseLine
  <2>1. execPc = "parse" /\ args' = Exec!Parse /\ line' = line
    BY <1>4, Zenon DEF Exec!ParseLine
  <2>2. line # <<>>
    BY <1>0, <2>1, Zenon
  <2>3. args' = WordsOf(line')
    BY <1>0, <2>1, <2>2, ParseIsWords, Zenon
  <2> QED BY <1>0, <2>1, <2>2, <2>3, ArgsAre, Zenon DEF LineInv
<1>5. CASE Exec!Execute
  <2>1. execPc = "execute" /\ line' = line /\ args' = args
    BY <1>5, Zenon DEF Exec!Execute
  <2> QED BY <1>1, <2>1, Zenon
<1>6. CASE Exec!Try \/ Exec!TrySpoiled \/ Exec!Return
  <2>1. execPc = "search" /\ line' = line /\ args' = args
    BY <1>6, Zenon DEF Exec!Try, Exec!TrySpoiled, Exec!Return
  <2> QED BY <1>1, <2>1, Zenon
<1> QED BY <1>2, <1>3, <1>4, <1>5, <1>6, Zenon DEF Exec!Next

\* It always holds.
LEMMA LineAlways == Spec => []LineInv
<1>1. Init => LineInv
  <2> SUFFICES ASSUME Init PROVE LineInv
    OBVIOUS
  <2>1. execPc = "start" /\ line = <<>>
    BY Zenon DEF Init, Exec!Init
  <2>2. line \in Seq({"x", "y", " "})
    <3> DEFINE L == {"x", "y", " "}
    <3> HIDE DEF L
    <3>1. line \in Seq(L)
      BY <2>1
    <3> QED BY <3>1, Zenon DEF L
  <2> QED BY <2>1, <2>2, ArgsAre, Zenon DEF LineInv
<1> QED BY <1>1, OneProgramRuns, LineStep, PTL DEF Spec

\* The arguments are the words of the line in order, and an empty one if the
\* line ends in a blank, for lines of any length (execute.c, lines 9-21).
THEOREM ArgsAreWordsAlways == Spec => []ArgsAreWords
<1>1. LineInv => ArgsAreWords
  BY Zenon DEF LineInv
<1> QED BY <1>1, LineAlways, PTL

-----------------------------------------------------------------------------
(* The types of all programs                                               *)

\* There are three signals, so three handlers at most.
LEMMA SignalTypes == SignalInv => Signal!TypeOK
<1> SUFFICES ASSUME SignalInv PROVE Signal!TypeOK
  OBVIOUS
<1> DEFINE n == Len(handlers)
           f == [i \in 1..n |-> handlers[i].signal]
<1>1. /\ handlers \in Seq(SignalCalls) /\ n \in Nat /\ \A i \in 1..n : handlers[i] \in SignalCalls
      /\ \A i, j \in 1..n : i # j => handlers[i].signal # handlers[j].signal
  BY DEF SignalInv
<1>0. n \in Nat
  BY <1>1
<1>2. \A i \in 1..n : handlers[i].signal \in Signal!Signals
  BY <1>1 DEF SignalCalls
<1>3. f \in Injection(1..n, Signal!Signals)
  BY <1>1, <1>2 DEF Injection, IsInjective
<1>4. IsFiniteSet(Signal!Signals) /\ Cardinality(Signal!Signals) <= 3
  <2>1. IsFiniteSet({}) /\ Cardinality({}) = 0
    BY FS_EmptySet
  <2>2. IsFiniteSet({} \cup {"INT"}) /\ Cardinality({} \cup {"INT"}) = 1
    BY <2>1, FS_AddElement
  <2>3. /\ IsFiniteSet(({} \cup {"INT"}) \cup {"QUIT"})
        /\ Cardinality(({} \cup {"INT"}) \cup {"QUIT"}) = 2
    BY <2>2, FS_AddElement
  <2>4. /\ IsFiniteSet((({} \cup {"INT"}) \cup {"QUIT"}) \cup {"TSTP"})
        /\ Cardinality((({} \cup {"INT"}) \cup {"QUIT"}) \cup {"TSTP"}) = 3
    BY <2>3, FS_AddElement
  <2>5. Signal!Signals = (({} \cup {"INT"}) \cup {"QUIT"}) \cup {"TSTP"}
    BY DEF Signal!Signals
  <2> QED BY <2>4, <2>5
<1>5. IsFiniteSet(1..n) /\ Cardinality(1..n) = n
  <2> HIDE DEF n
  <2> QED BY ONLY <1>0, FS_Interval
<1>6. Cardinality(1..n) <= Cardinality(Signal!Signals)
  <2> HIDE DEF f, n
  <2> QED BY <1>3, <1>4, FS_Injection
<1>7. Cardinality(Signal!Signals) \in Nat
  BY <1>4, FS_CardinalityType
<1>8. Len(handlers) <= 3
  BY <1>1, <1>4, <1>5, <1>6, <1>7
<1>9. \A s \in Signal!Signals : sent[s] \in 0..MaxSent[s]
  <2>1. MaxSent \in [Signal!Signals -> Nat]
    BY ConstantsAssumption DEF Signal!MaxSentAssumption
  <2> QED BY <2>1 DEF SignalInv
<1>10. handlers \in Seq([signal : Signal!Signals, at : {"count", "check", "exit", "return"}])
  BY <1>1 DEF SignalCalls
<1> QED BY <1>8, <1>9, <1>10 DEF Signal!TypeOK, SignalInv

\* A word has letters only.
LEMMA WordsAreLetters ==
    ASSUME line \in Seq({"x", "y", " "})
    PROVE  WordsAt(1) \in Seq(Seq({"x", "y"}))
<1> DEFINE n == Len(line)
           L == {"x", "y", " "}
           X == {"x", "y"}
           S == Begins(1)
           m == Cardinality(S)
<1>0. n \in Nat /\ \A j \in 1..n : line[j] \in L
  <2>1. line \in Seq(L)
    OBVIOUS
  <2> HIDE DEF L
  <2> QED BY ONLY <2>1
<1>1. n \in Nat
  BY <1>0, Zenon
<1>2. \A j \in 1..n : j \notin Blanks => line[j] \in X
  BY <1>0, Zenon DEF Blanks
<1>3. ASSUME NEW b \in 1..n PROVE WordAt(b) \in Seq(X)
  <2>1. b \in 1..n+1
    BY ONLY <1>1, b \in 1..n
  <2>2. PICK e : e = EndFrom(b)
    OBVIOUS
  <2>3. e \in b..n+1 /\ \A j \in b..e-1 : j \notin Blanks
    BY <2>1, <2>2, BeginEnd, Zenon
  <2>4. \A j \in b..e-1 : j \in 1..n
    BY ONLY <1>1, <2>3, b \in 1..n
  <2>5. \A j \in b..e-1 : line[j] \in X
    BY <1>2, <2>3, <2>4, Zenon
  <2> HIDE DEF X
  <2>6. SubSeq(line, b, e - 1) = [k \in 1..(e - 1 - b + 1) |-> line[b + k - 1]]
    BY ONLY <1>1, <2>3, b \in 1..n DEF SubSeq
  <2>7. \A k \in 1..(e - 1 - b + 1) : b + k - 1 \in b..e-1
    BY ONLY <1>1, <2>3, b \in 1..n
  <2>8. e - 1 - b + 1 \in Nat
    BY ONLY <1>1, <2>3, b \in 1..n
  <2>9. SubSeq(line, b, e - 1) \in Seq(X)
    <3> DEFINE N == e - 1 - b + 1
               h(k) == line[b + k - 1]
    <3>1. SubSeq(line, b, e - 1) = [k \in 1..N |-> h(k)] /\ N \in Nat /\ \A k \in 1..N : h(k) \in X
      BY <2>5, <2>6, <2>7, <2>8, Zenon
    <3>2. PICK r : r = SubSeq(line, b, e - 1)
      OBVIOUS
    <3>3. r = [k \in 1..N |-> h(k)]
      BY <3>1, <3>2, Zenon
    <3> HIDE DEF N, h
    <3>4. r \in Seq(X)
      BY ONLY <3>1, <3>3
    <3> QED BY <3>2, <3>4, Zenon
  <2> QED BY <2>2, <2>9 DEF WordAt
<1>4. S \in SUBSET Int /\ IsFiniteSet(S) /\ S \subseteq 1..n
  <2>1. S \subseteq 1..n
    BY ONLY TRUE DEF Begins, WordsFrom
  <2>2. IsFiniteSet(1..n) /\ 1..n \subseteq Int
    BY ONLY <1>1, FS_Interval
  <2> HIDE DEF S
  <2> QED BY ONLY <2>1, <2>2, FS_Subset
<1>5. m \in Nat
  BY <1>4, FS_CardinalityType
<1>6. \A k \in 1..m : NthOf(S, k) \in 1..n
  <2> HIDE DEF S
  <2> QED BY <1>4, RankOnto
<1>7. <<>> \in Seq(X)
  <2> HIDE DEF X
  <2> QED BY ONLY TRUE
<1>8. Trailing(1) \in {0, 1}
  BY ONLY TRUE, Zenon DEF Trailing
<1> HIDE DEF X, S, n
<1>9. WordsAt(1) = [k \in 1..m + Trailing(1) |-> IF k <= m THEN WordAt(NthOf(S, k)) ELSE <<>>]
  BY Zenon DEF WordsAt, S
<1>10. \A k \in 1..m + Trailing(1) : (IF k <= m THEN WordAt(NthOf(S, k)) ELSE <<>>) \in Seq(X)
  <2> SUFFICES ASSUME NEW k \in 1..m + Trailing(1), k <= m PROVE WordAt(NthOf(S, k)) \in Seq(X)
    BY <1>7, Zenon
  <2>1. k \in 1..m
    BY ONLY <1>5, <1>8, k \in 1..m + Trailing(1), k <= m
  <2> QED BY <1>3, <1>6, <2>1, Zenon
<1>11. m + Trailing(1) \in Nat
  BY ONLY <1>5, <1>8
<1>12. WordsAt(1) \in Seq(Seq(X))
  <2> DEFINE h(k) == IF k <= m THEN WordAt(NthOf(S, k)) ELSE <<>>
             N == m + Trailing(1)
  <2>1. WordsAt(1) = [k \in 1..N |-> h(k)] /\ N \in Nat /\ \A k \in 1..N : h(k) \in Seq(X)
    BY <1>9, <1>10, <1>11, Zenon
  <2> HIDE DEF h, N
  <2> QED BY ONLY <2>1
<1> QED BY <1>12, Zenon DEF X

\* The loop along PATH and what it runs stay within PATH.
ExecTypes ==
    /\ execPc \in {"start", "parse", "execute", "search", "runs", "returns"}
    /\ Len(path) <= MaxPath /\ bin \in 0..MaxPath + 1 /\ ran \in Exec!Unknown..MaxPath
    /\ args \in Seq(Seq({"x", "y"}))

\* A step keeps the types; a word of the line is one of letters.
LEMMA ExecTypesStep ==
    ExecInv /\ LineInv /\ ExecTypes /\ [Exec!Next]_execVars => ExecTypes'
<1> SUFFICES ASSUME ExecInv, LineInv, ExecTypes, [Exec!Next]_execVars PROVE ExecTypes'
  OBVIOUS
<1>0. MaxPath \in Nat /\ -1 \in Exec!Unknown..MaxPath /\ Exec!Unknown = -1
  BY ConstantsAssumption DEF Exec!ExecutorAssumption, Exec!Unknown
<1>1. path \in Seq(Exec!Files) /\ Len(path) \in Nat /\ Len(path) <= MaxPath
  BY DEF ExecInv, ExecTypes
<1>2. CASE UNCHANGED execVars
  BY <1>2 DEF execVars, ExecTypes
<1>3. CASE Exec!Start
  <2>1. /\ execPc' = "parse" /\ path' \in Exec!Paths
        /\ UNCHANGED <<args, bin, ran>>
    BY <1>3, Zenon DEF Exec!Start
  <2>2. \A s \in Exec!Paths : Len(s) <= MaxPath
    BY <1>0 DEF Exec!Paths
  <2> QED BY <2>1, <2>2 DEF ExecTypes
<1>4. CASE Exec!ParseLine
  <2>1. execPc = "parse" /\ execPc' = "execute" /\ args' = Exec!Parse /\ UNCHANGED <<path, bin, ran>>
    BY <1>4, Zenon DEF Exec!ParseLine
  <2>2. args' \in Seq(Seq({"x", "y"}))
    BY <2>1, ParseIs, ParserIsWords, WordsAreLetters, Zenon DEF LineInv
  <2> QED BY <2>1, <2>2 DEF ExecTypes
<1>5. CASE Exec!Execute
  <2>1. /\ UNCHANGED <<args, path>> /\ bin' = 1 /\ ran' = IF here = "program" THEN 0 ELSE ran
        /\ here \in {"none", "program", "data"}
    BY <1>5 DEF Exec!Execute, ExecInv, Exec!Files
  <2>2. execPc' \in {"runs", "returns", "search"}
    BY <1>5, <2>1 DEF Exec!Execute
  <2>3. bin' \in 0..MaxPath + 1 /\ ran' \in Exec!Unknown..MaxPath
    BY <1>0, <2>1 DEF ExecTypes
  <2> QED BY <2>1, <2>2, <2>3 DEF ExecTypes
<1>6. CASE Exec!Try
  <2>1. /\ UNCHANGED <<args, path>> /\ bin' = bin + 1 /\ bin <= Len(path) /\ bin \in 1..Len(path) + 1
        /\ (execPc' = "runs" /\ ran' = bin) \/ (execPc' = execPc /\ ran' = ran)
    BY <1>6 DEF Exec!Try, ExecInv
  <2>2. bin' \in 0..MaxPath + 1 /\ ran' \in Exec!Unknown..MaxPath
    BY <1>0, <1>1, <2>1 DEF ExecTypes
  <2> QED BY <2>1, <2>2 DEF ExecTypes
<1>7. CASE Exec!TrySpoiled
  <2>1. /\ UNCHANGED <<args, path, ran>> /\ bin' = bin + 1 /\ bin <= Len(path) /\ bin \in 1..Len(path) + 1
        /\ execPc' \in {"search", "runs"}
    BY <1>7 DEF Exec!TrySpoiled, ExecInv
  <2>2. bin' \in 0..MaxPath + 1
    BY <1>0, <1>1, <2>1
  <2> QED BY <2>1, <2>2 DEF ExecTypes
<1>8. CASE Exec!Return
  BY <1>8 DEF Exec!Return, ExecTypes
<1> QED BY <1>2, <1>3, <1>4, <1>5, <1>6, <1>7, <1>8, Zenon DEF Exec!Next

\* They always hold.
LEMMA ExecTypesAlways == Spec => []Exec!TypeOK
<1>1. Init => ExecTypes
  <2> SUFFICES ASSUME Init PROVE ExecTypes
    OBVIOUS
  <2>1. execPc = "start" /\ path = <<>> /\ bin = 0 /\ ran = Exec!Unknown /\ args = <<>>
    BY DEF Init, Exec!Init
  <2>2. MaxPath \in Nat
    BY ConstantsAssumption DEF Exec!ExecutorAssumption
  <2>3. Exec!Unknown \in Exec!Unknown..MaxPath /\ 0 \in 0..MaxPath + 1 /\ 0 <= MaxPath
    BY <2>2 DEF Exec!Unknown
  <2> QED BY <2>1, <2>3 DEF ExecTypes
<1>2. ExecInv /\ LineInv /\ ExecTypes => Exec!TypeOK
  BY Zenon DEF ExecInv, LineInv, ExecTypes, Exec!TypeOK
<1> QED BY <1>1, <1>2, ExecAlways, LineAlways, ExecTypesStep, OneProgramRuns, PTL DEF Spec

\* The bounds of the files at the start are those of all that comes of them.
CopySizes ==
    /\ before[2] <= MaxRepeat /\ cut <= MaxFile
    /\ Len(Copy!Bytes(before[1][1])) <= MaxFile /\ Len(Copy!Bytes(before[1][2])) <= MaxFile
    /\ target = 1 => disk[2] = before[1][2]
    /\ rd <= MaxFile /\ wr <= MaxFile

\* A file that was copied is no longer than the longer of the two.
LEMMA TargetFits ==
    ASSUME CopyInv, CopySizes
    PROVE  Len(Source) <= MaxFile /\ Len(Target) <= MaxFile
<1>1. /\ MaxFile \in Nat /\ target \in {1, 2}
      /\ Source \in Seq(Byte) /\ Target \in Seq(Byte)
      /\ Copy!Original \in Seq(Byte) /\ Copy!Old \in Seq(Byte)
  BY CopySequences, ConstantsAssumption DEF CopyInv, CopyTypes, Copy!FileCopyAssumption
<1>2. /\ Len(Source) \in Nat /\ Len(Target) \in Nat
      /\ Len(Copy!Original) \in Nat /\ Len(Copy!Old) \in Nat
  BY <1>1
<1>3. Len(Copy!Original) <= MaxFile /\ Len(Copy!Old) <= MaxFile
  <2>1. target = 1 \/ target = 2
    BY <1>1
  <2> QED BY <2>1 DEF CopySizes, Copy!Original, Copy!Old
<1>4. Len(Source) <= MaxFile
  <2>1. Source = Copy!Original \/ Source = <<>>
    BY DEF CopyInv
  <2> QED BY <1>1, <1>3, <2>1
<1>5. Len(Target) <= MaxFile
  BY <1>1, <1>2, <1>3 DEF CopyInv, NotTooLong
<1> QED BY <1>4, <1>5

\* A step of the copying keeps the sizes.
LEMMA CopySizesStep ==
    CopyInv /\ CopyInv' /\ CopySizes /\ [Copy!Next]_copyVars => CopySizes'
<1> SUFFICES ASSUME CopyInv, CopyInv', CopySizes, [Copy!Next]_copyVars PROVE CopySizes'
  OBVIOUS
<1>0. MaxFile \in Nat /\ MaxRepeat \in Nat /\ rd \in Nat /\ wr \in Nat /\ cut \in Nat /\ target \in {1, 2}
      /\ disk \in [{1, 2} -> Files]
  BY ConstantsAssumption DEF CopyInv, CopyTypes, Copy!FileCopyAssumption
<1>1. ASSUME UNCHANGED <<before, target, disk, rd, wr, cut>> PROVE CopySizes'
  BY <1>1 DEF CopySizes, Copy!Bytes
<1>2. CASE UNCHANGED copyVars
  BY <1>1, <1>2 DEF copyVars
<1>3. CASE Copy!Start
  <2>1. PICK one, two \in Copy!Contents \cup {Copy!NoFile} : disk' = <<one, two>>
    BY <1>3 DEF Copy!Start
  <2>2. /\ before' = <<disk', repeat'>> /\ repeat' \in 0..MaxRepeat
        /\ rd' = rd /\ wr' = wr /\ cut' = cut
    BY <1>3 DEF Copy!Start
  <2>3. \A s \in Copy!Contents \cup {Copy!NoFile} : Len(Copy!Bytes(s)) <= MaxFile
    BY <1>0 DEF Copy!Contents, Copy!Bytes
  <2>4. before'[1][1] = one /\ before'[1][2] = two /\ before'[2] = repeat'
        /\ disk'[2] = two
    BY <2>1, <2>2
  <2>5. /\ Len(Copy!Bytes(before'[1][1])) <= MaxFile /\ Len(Copy!Bytes(before'[1][2])) <= MaxFile
        /\ before'[2] <= MaxRepeat /\ disk'[2] = before'[1][2]
    BY <1>0, <2>1, <2>2, <2>3, <2>4
  <2> QED BY <2>2, <2>5 DEF CopySizes, Copy!Bytes
<1>4. CASE Copy!Finish \/ Copy!WrongInputs \/ Copy!EndOfFile
  BY <1>1, <1>4 DEF Copy!Finish, Copy!WrongInputs, Copy!EndOfFile
\* What is written is the target alone.
<1>5. ASSUME before' = before, target' = target, target = 1 => disk'[2] = disk[2],
             rd' <= MaxFile, wr' <= MaxFile, cut' <= MaxFile
      PROVE  CopySizes'
  BY <1>5 DEF CopySizes, Copy!Bytes
<1>6. ASSUME NEW f, disk' = [disk EXCEPT ![target] = f], target = 1 PROVE disk'[2] = disk[2]
  BY <1>0, <1>6
<1>7. CASE Copy!Open \/ Copy!OpenFails
  <2>1. /\ before' = before /\ target' = target /\ cut' = cut
        /\ (rd' = 0 /\ wr' = 0) \/ UNCHANGED <<rd, wr>>
        /\ disk' = disk \/ \E f : disk' = [disk EXCEPT ![target] = f]
    BY <1>7 DEF Copy!Open, Copy!OpenFails, Copy!MakeTarget
  <2>2. rd' <= MaxFile /\ wr' <= MaxFile /\ cut' <= MaxFile
    BY <1>0, <2>1 DEF CopySizes
  <2> QED BY <1>5, <1>6, <2>1, <2>2
\* While it copies, the offsets are within the source.
<1>8. ASSUME copyPc' = "copy" PROVE rd' <= Len(Source') /\ (Source' = (Copy!Original)' \/ Source' = <<>>)
  BY <1>8 DEF CopyInv
<1>9. ASSUME copyPc' = "copy", before' = before PROVE rd' <= MaxFile
  <2>1. (Copy!Original)' = Copy!Original
    BY <1>9 DEF Copy!Original
  <2>2. Len(Copy!Original) <= MaxFile
    BY DEF CopySizes, Copy!Original
  <2>3. Len(<<>>) <= MaxFile /\ rd' \in Nat /\ Len(Copy!Original) \in Nat
    <3>1. Copy!Original \in Seq(Byte)
      BY CopySequences DEF CopyInv
    <3> QED BY <1>0, <3>1 DEF CopyInv, CopyTypes
  <2> QED BY <1>0, <1>8, <1>9, <2>1, <2>2, <2>3
\* The cut only comes closer.
<1>m. \A m, n \in Nat : m <= MaxFile => Copy!Least(m, n) <= MaxFile
  BY <1>0 DEF Copy!Least
<1>10. CASE Copy!CopyChar
  <2>1. /\ copyPc' = "copy" /\ before' = before /\ target' = target /\ wr' = wr
        /\ disk' = disk \/ \E f : disk' = [disk EXCEPT ![target] = f]
        /\ cut' = cut \/ cut' = Copy!Least(cut, Len(disk[target]))
        /\ copyPc = "copy"
    BY <1>10 DEF Copy!CopyChar
  <2>3. Len(disk[target]) \in Nat
    BY <2>1, CopySequences DEF CopyInv
  <2>2. wr' <= MaxFile /\ cut' <= MaxFile
    BY <1>0, <1>m, <2>1, <2>3 DEF CopySizes
  <2> QED BY <1>5, <1>6, <1>9, <2>1, <2>2
<1>11. CASE Copy!CopyBlock
  <2>1. /\ copyPc = "copy" /\ before' = before /\ target' = target /\ method' = method /\ method # 1
        /\ \/ disk' = disk /\ rd' = rd /\ wr' = wr /\ cut' = cut
           \/ copyPc' = "copy" /\ \E f : disk' = [disk EXCEPT ![target] = f]
        /\ cut' = cut \/ cut' = Copy!Least(cut, wr')
    BY <1>11 DEF Copy!CopyBlock
  <2>2. CASE disk' = disk /\ rd' = rd /\ wr' = wr /\ cut' = cut
    BY <1>1, <2>1, <2>2
  <2>3. CASE copyPc' = "copy" /\ \E f : disk' = [disk EXCEPT ![target] = f]
    <3>1. rd' <= MaxFile /\ rd' \in Nat
      BY <1>9, <2>1, <2>3 DEF CopyInv, CopyTypes
    <3>2. wr' <= rd' /\ wr' \in Nat
      BY <2>1, <2>3 DEF CopyInv, CopyTypes
    <3>3. wr' <= MaxFile
      BY <1>0, <3>1, <3>2
    <3>4. cut' <= MaxFile
      BY <1>0, <1>m, <2>1, <3>2 DEF CopySizes
    <3> QED BY <1>5, <1>6, <2>1, <2>3, <3>1, <3>3, <3>4
  <2> QED BY <2>1, <2>2, <2>3
<1> QED BY <1>2, <1>3, <1>4, <1>7, <1>10, <1>11 DEF Copy!Next

\* The positions in both files stay in their bounds.
LEMMA CopyTypesAlways == Spec => []Copy!TypeOK
<1>1. Init => CopySizes
  <2> SUFFICES ASSUME Init PROVE CopySizes
    OBVIOUS
  <2>1. /\ disk = <<Copy!NoFile, Copy!NoFile>> /\ rd = 0 /\ wr = 0 /\ repeat = 0
        /\ before = <<disk, repeat>> /\ cut = MaxFile
    BY DEF Init, Copy!Init
  <2>2. MaxFile \in Nat /\ MaxRepeat \in Nat
    BY ConstantsAssumption DEF Copy!FileCopyAssumption
  <2>3. /\ before[1][1] = Copy!NoFile /\ before[1][2] = Copy!NoFile /\ before[2] = 0
        /\ disk[2] = Copy!NoFile
    BY <2>1
  <2>4. Copy!Bytes(Copy!NoFile) = <<>>
    BY DEF Copy!Bytes
  <2> QED BY <2>1, <2>2, <2>3, <2>4 DEF CopySizes
<1>2. CopyInv /\ CopySizes => Copy!TypeOK
  <2> SUFFICES ASSUME CopyInv, CopySizes PROVE Copy!TypeOK
    OBVIOUS
  <2>1. CopyTypes /\ MaxFile \in Nat /\ MaxRepeat \in Nat /\ repeat <= before[2] /\ before[2] <= MaxRepeat
        /\ rd <= MaxFile /\ wr <= MaxFile /\ cut <= MaxFile
    BY ConstantsAssumption DEF CopyInv, CopySizes, Copy!FileCopyAssumption
  <2>2. Len(Source) <= MaxFile /\ Len(Target) <= MaxFile
    BY TargetFits
  <2>3. \A s \in Files : Len(Copy!Bytes(s)) <= MaxFile => s \in Copy!Contents \cup {Copy!NoFile}
    <3> SUFFICES ASSUME NEW s \in Seq(Byte), s # Copy!NoFile, Len(s) <= MaxFile PROVE s \in Copy!Contents
      BY DEF Files, Copy!Bytes
    <3>1. Len(s) \in 0..MaxFile /\ s \in [1..Len(s) -> {7, 255}]
      BY <2>1 DEF Byte
    <3> QED BY <3>1 DEF Copy!Contents
  <2>4. Len(Copy!Bytes(disk[1])) <= MaxFile /\ Len(Copy!Bytes(disk[2])) <= MaxFile
    <3>1. target = 1 \/ target = 2
      BY <2>1 DEF CopyTypes
    <3>2. target = 1 => disk[2] = before[1][2]
      BY DEF CopySizes
    <3> QED BY <2>2, <3>1, <3>2 DEF Source, Target, CopySizes
  <2>5. \A f \in {1, 2} : disk[f] \in Copy!Contents \cup {Copy!NoFile}
    BY <2>1, <2>3, <2>4 DEF CopyTypes
  <2>6. /\ repeat \in 0..MaxRepeat /\ rd \in 0..MaxFile /\ wr \in 0..MaxFile /\ cut \in 0..MaxFile
    BY <2>1, <2>2 DEF CopyTypes
  <2> QED BY <2>1, <2>5, <2>6 DEF CopyTypes, Copy!TypeOK
<1> QED BY <1>1, <1>2, CopyAlways, CopySizesStep, OneProgramRuns, PTL DEF Spec

\* The types, behind the server's end too; a child lists while it is waited for.
LsKinds ==
    /\ server \in {"make", "accept", "read", "fork", "wait", "close", "gone"}
    /\ clientfd \in LsClients \cup {Ls!Nobody} /\ child \in {"none", "lists", "zombie"}
    /\ server \in {"read", "fork", "wait", "close"} => clientfd \in LsClients
    /\ child # "none" => server = "wait"
    /\ output \in Seq(0..Blocks) /\ tty \in BOOLEAN
    /\ client \in [LsClients -> {"connect", "ask", "read", "done", "failed", "stopped"}]
    /\ asked \in [LsClients -> Nat]
    /\ shown \in [LsClients -> Seq(0..Blocks)] /\ wire \in [LsClients -> Seq(0..Blocks)]
    /\ backlog \in Seq(LsClients) /\ request \subseteq LsClients /\ hung \subseteq LsClients

\* What the child has still to write to a client.
ToWrite(c) == IF c = clientfd /\ child = "lists" THEN Len(output) ELSE 0

\* What a client has of a listing, will get and may still be written is no
\* longer than the listing with the server's log.
LsLengths ==
    /\ Len(output) <= Blocks + 1
    /\ \A c \in LsClients :
          /\ asked[c] <= Names /\ (client[c] \in {"ask", "read"} => asked[c] < Names)
          /\ Len(shown[c]) <= Blocks + 1 /\ Len(wire[c]) <= Window
          /\ client[c] \in {"connect", "ask", "done"} => wire[c] = <<>>
          /\ client[c] = "read" => Len(shown[c]) + Len(wire[c]) + ToWrite(c) <= Blocks + 1

\* The listing, the log of the server in front of it.
LEMMA ListingIs ==
    /\ Names \in Nat /\ Blocks \in Nat /\ Window \in Nat /\ Window > 0
    /\ Ls!Nobody \notin LsClients
    /\ Whole \in Seq(0..Blocks) /\ Len(Whole) <= Blocks + 1
<1>1. /\ Names \in Nat /\ Blocks \in Nat /\ Window \in Nat /\ Window > 0
      /\ Ls!Nobody \notin LsClients
  BY ConstantsAssumption DEF Ls!LsAssumption
<1>2. Ls!Listing \in Seq(0..Blocks) /\ Len(Ls!Listing) = Blocks
  BY <1>1 DEF Ls!Listing
<1>3. /\ <<Ls!Log>> \in Seq(0..Blocks) /\ Len(<<Ls!Log>>) = 1
      /\ <<>> \in Seq(0..Blocks) /\ Len(<<>>) = 0
  BY <1>1 DEF Ls!Log
<1>4. CASE tty
  <2>1. Whole = Ls!Listing
    BY <1>2, <1>4 DEF Whole
  <2> QED BY <1>1, <1>2, <2>1
<1>5. CASE ~tty
  <2>1. Whole = <<Ls!Log>> \o Ls!Listing
    BY <1>5 DEF Whole
  <2>2. PICK a, b : a = <<Ls!Log>> /\ b = Ls!Listing
    OBVIOUS
  <2>3. PICK V : V = 0..Blocks
    OBVIOUS
  <2>4. a \in Seq(V) /\ b \in Seq(V) /\ Len(a) = 1 /\ Len(b) = Blocks
    BY <1>2, <1>3, <2>2, <2>3
  <2>5. a \o b \in Seq(V) /\ Len(a \o b) = Blocks + 1
    <3>1. a \o b \in Seq(V) /\ Len(a \o b) = Len(a) + Len(b)
      BY ONLY <2>4, ConcatProperties
    <3> QED BY ONLY <1>1, <2>4, <3>1
  <2> QED BY <1>1, <2>1, <2>2, <2>3, <2>5
<1> QED BY <1>4, <1>5

\* What is put behind a row of blocks, and what is taken off its front.
LEMMA RowMoves ==
    \A s \in Seq(0..Blocks) :
        /\ Len(s) \in Nat
        /\ \A v \in 0..Blocks : Append(s, v) \in Seq(0..Blocks) /\ Len(Append(s, v)) = Len(s) + 1
        /\ s # <<>> => /\ Head(s) \in 0..Blocks /\ Tail(s) \in Seq(0..Blocks)
                       /\ Len(s) > 0 /\ Len(Tail(s)) = Len(s) - 1
<1>1. PICK V : V = 0..Blocks
  OBVIOUS
<1>2. \A s \in Seq(V) :
          /\ Len(s) \in Nat
          /\ \A v \in V : Append(s, v) \in Seq(V) /\ Len(Append(s, v)) = Len(s) + 1
          /\ s # <<>> => Head(s) \in V /\ Tail(s) \in Seq(V) /\ Len(s) > 0 /\ Len(Tail(s)) = Len(s) - 1
  OBVIOUS
<1> QED BY <1>1, <1>2

\* A step of the service keeps the kinds ...
LEMMA LsKindsStep == LsKinds /\ [Ls!Next]_lsVars => LsKinds'
<1> SUFFICES ASSUME LsKinds, [Ls!Next]_lsVars PROVE LsKinds'
  OBVIOUS
<1> USE DEF Ls!Goto
<1>0. LsKinds
  OBVIOUS
<1>1. CASE UNCHANGED lsVars
  BY <1>0, <1>1 DEF lsVars, LsKinds
<1>2. CASE Ls!MakeSocket
  BY <1>0, <1>2 DEF Ls!MakeSocket, LsKinds, Ls!clientVars, Ls!netVars
<1>3. CASE Ls!Accept
  <2>1. Head(backlog) \in LsClients /\ Tail(backlog) \in Seq(LsClients)
    BY <1>0, <1>3 DEF Ls!Accept, LsKinds
  <2> QED BY <1>0, <1>3, <2>1 DEF Ls!Accept, LsKinds, Ls!clientVars
<1>4. CASE Ls!Read
  BY <1>0, <1>4 DEF Ls!Read, LsKinds, Ls!clientVars
<1>5. CASE Ls!Fork
  <2>1. output' = Whole /\ Whole \in Seq(0..Blocks)
    BY <1>5, ListingIs DEF Ls!Fork, Whole
  <2> QED BY <1>0, <1>5, <2>1 DEF Ls!Fork, LsKinds, Ls!clientVars, Ls!netVars
<1>6. CASE Ls!Wait
  BY <1>0, <1>6 DEF Ls!Wait, LsKinds, Ls!clientVars, Ls!netVars
<1>7. CASE Ls!Close
  BY <1>0, <1>7 DEF Ls!Close, LsKinds, Ls!clientVars
<1>8. CASE Ls!ServerExits
  BY <1>0, <1>8 DEF Ls!ServerExits, LsKinds, Ls!clientVars
<1>9. CASE Ls!ChildWrites
  <2>1. /\ Head(output) \in 0..Blocks /\ Tail(output) \in Seq(0..Blocks) /\ clientfd \in LsClients
        /\ output' = Tail(output) /\ wire' = [wire EXCEPT ![clientfd] = Append(@, Head(output))]
        /\ UNCHANGED <<server, clientfd, child, tty, client, asked, shown, backlog, request, hung>>
    <3>1. output # <<>> /\ output \in Seq(0..Blocks)
      BY <1>0, <1>9 DEF Ls!ChildWrites, LsKinds
    <3>2. Head(output) \in 0..Blocks /\ Tail(output) \in Seq(0..Blocks)
      BY <3>1, RowMoves
    <3>3. clientfd \in LsClients
      BY <1>0, <1>9 DEF Ls!ChildWrites, LsKinds
    <3> QED BY <1>9, <3>2, <3>3 DEF Ls!ChildWrites, Ls!clientVars
  <2>2. wire' \in [LsClients -> Seq(0..Blocks)]
    <3>1. PICK r : r = Append(wire[clientfd], Head(output))
      OBVIOUS
    <3>2. r \in Seq(0..Blocks)
      BY <1>0, <2>1, <3>1, RowMoves DEF LsKinds
    <3> QED BY <1>0, <2>1, <3>1, <3>2 DEF LsKinds
  <2> QED BY <1>0, <2>1, <2>2 DEF LsKinds
<1>10. CASE Ls!ChildEnds
  BY <1>0, <1>10 DEF Ls!ChildEnds, LsKinds, Ls!clientVars, Ls!netVars
<1>11. ASSUME NEW c \in LsClients, Ls!Connect(c) PROVE LsKinds'
  <2>1. Append(backlog, c) \in Seq(LsClients)
    BY <1>0 DEF LsKinds
  <2> QED BY <1>0, <1>11, <2>1 DEF Ls!Connect, LsKinds, Ls!serverVars
<1>12. ASSUME NEW c \in LsClients, Ls!Ask(c) PROVE LsKinds'
  BY <1>0, <1>12 DEF Ls!Ask, LsKinds, Ls!serverVars
<1>13. ASSUME NEW c \in LsClients, Ls!Receive(c) PROVE LsKinds'
  <2>1. /\ wire[c] \in Seq(0..Blocks) /\ wire[c] # <<>> /\ shown[c] \in Seq(0..Blocks)
        /\ shown' = [shown EXCEPT ![c] = Append(@, Head(wire[c]))]
        /\ wire' = [wire EXCEPT ![c] = Tail(@)]
        /\ UNCHANGED <<server, clientfd, child, output, tty, client, asked, backlog, request, hung>>
    BY <1>0, <1>13 DEF Ls!Receive, LsKinds, Ls!serverVars
  <2>2. Append(shown[c], Head(wire[c])) \in Seq(0..Blocks) /\ Tail(wire[c]) \in Seq(0..Blocks)
    BY <2>1, RowMoves
  <2>3. shown' \in [LsClients -> Seq(0..Blocks)] /\ wire' \in [LsClients -> Seq(0..Blocks)]
    BY <1>0, <2>1, <2>2 DEF LsKinds
  <2> QED BY <1>0, <2>1, <2>3 DEF LsKinds
<1>14. ASSUME NEW c \in LsClients, Ls!EndOfFile(c) PROVE LsKinds'
  BY <1>0, <1>14 DEF Ls!EndOfFile, LsKinds, Ls!serverVars
<1>15. ASSUME NEW c \in LsClients, Ls!ReadFails(c) \/ Ls!Kill(c) PROVE LsKinds'
  <2>1. /\ client' = [client EXCEPT ![c] = "failed"] /\ wire' = [wire EXCEPT ![c] = <<>>]
        /\ hung' = hung \ {c}
        /\ UNCHANGED <<server, clientfd, child, output, tty, asked, shown, backlog, request>>
    BY <1>15 DEF Ls!ReadFails, Ls!Kill, Ls!serverVars
  <2>2. wire' \in [LsClients -> Seq(0..Blocks)]
    <3>1. <<>> \in Seq(0..Blocks)
      OBVIOUS
    <3> QED BY <1>0, <2>1, <3>1 DEF LsKinds
  <2> QED BY <1>0, <2>1, <2>2 DEF LsKinds
<1>16. ASSUME NEW c \in LsClients, Ls!Stop(c) PROVE LsKinds'
  BY <1>0, <1>16 DEF Ls!Stop, LsKinds, Ls!serverVars, Ls!netVars
<1> QED BY <1>1, <1>2, <1>3, <1>4, <1>5, <1>6, <1>7, <1>8, <1>9, <1>10, <1>11, <1>12, <1>13,
           <1>14, <1>15, <1>16 DEF Ls!Next, Ls!Server, Ls!ClientStep

\* ... and the lengths.
LEMMA LsLengthsStep == LsKinds /\ LsInv /\ LsLengths /\ [Ls!Next]_lsVars => LsLengths'
<1> SUFFICES ASSUME LsKinds, LsInv, LsLengths, [Ls!Next]_lsVars PROVE LsLengths'
  OBVIOUS
<1> USE DEF Ls!Goto, ToWrite
<1>0. LsKinds /\ LsLengths /\ Blocks \in Nat /\ Window \in Nat /\ Names \in Nat
  BY ListingIs
<1>a. /\ Len(output) \in Nat
      /\ \A c \in LsClients : Len(shown[c]) \in Nat /\ Len(wire[c]) \in Nat /\ asked[c] \in Nat
  BY <1>0 DEF LsKinds
\* Whoever makes none of these longer keeps them.
<1>b. ASSUME UNCHANGED <<client, asked, shown, wire>>, Len(output') <= Blocks + 1,
             \A c \in LsClients : ToWrite(c)' <= ToWrite(c), \A c \in LsClients : ToWrite(c)' \in Nat
      PROVE  LsLengths'
  <2> HIDE DEF ToWrite
  <2>1. \A c \in LsClients : ToWrite(c) \in Nat
    BY <1>a DEF ToWrite
  <2>2. ASSUME NEW c \in LsClients, client[c] = "read"
        PROVE  Len(shown[c]) + Len(wire[c]) + ToWrite(c)' <= Blocks + 1
    <3>1. Len(shown[c]) + Len(wire[c]) + ToWrite(c) <= Blocks + 1
      BY <1>0, <2>2 DEF LsLengths
    <3>2. PICK a, b, m, n : a = Len(shown[c]) /\ b = Len(wire[c]) /\ m = ToWrite(c) /\ n = ToWrite(c)'
      OBVIOUS
    <3>3. a \in Nat /\ b \in Nat /\ m \in Nat /\ n \in Nat /\ n <= m /\ a + b + m <= Blocks + 1
      BY <1>a, <1>b, <2>1, <3>1, <3>2
    <3>4. a + b + n <= Blocks + 1
      BY ONLY <1>0, <3>3
    <3> QED BY <3>2, <3>4
  <2> QED BY <1>0, <1>b, <2>2 DEF LsLengths
<1>1. CASE UNCHANGED lsVars
  BY <1>0, <1>1 DEF lsVars, LsLengths
<1>2. CASE Ls!MakeSocket \/ Ls!Accept \/ Ls!Read \/ Ls!Wait \/ Ls!Close \/ Ls!ServerExits
  <2>1. UNCHANGED <<client, asked, shown, wire, output>>
    BY <1>2 DEF Ls!MakeSocket, Ls!Accept, Ls!Read, Ls!Wait, Ls!Close, Ls!ServerExits,
                Ls!clientVars, Ls!netVars
  <2>2. child' # "lists"
    BY <1>0, <1>2 DEF Ls!MakeSocket, Ls!Accept, Ls!Read, Ls!Wait, Ls!Close, Ls!ServerExits,
                      Ls!clientVars, Ls!netVars, LsKinds
  <2>3. Len(output') <= Blocks + 1
    BY <1>0, <2>1 DEF LsLengths
  <2>4. \A c \in LsClients : ToWrite(c)' = 0 /\ ToWrite(c) >= 0
    BY <1>a, <2>2
  <2> QED BY <1>b, <2>1, <2>3, <2>4
<1>3. CASE Ls!Fork
  <2>1. /\ server = "fork" /\ child' = "lists" /\ output' = Whole /\ clientfd' = clientfd
        /\ UNCHANGED <<client, asked, shown, wire>>
    BY <1>3 DEF Ls!Fork, Whole, Ls!clientVars, Ls!netVars
  <2>2. Len(output') <= Blocks + 1 /\ Len(output') \in Nat
    BY <2>1, ListingIs
  <2>3. client[clientfd] = "read" /\ clientfd \in LsClients => shown[clientfd] = <<>> /\ wire[clientfd] = <<>>
    BY <2>1 DEF LsInv, LsContents, AtServer
  <2>4. \A c \in LsClients : c # clientfd => ToWrite(c)' = 0 /\ ToWrite(c) = 0
    BY <2>1
  <2>5. \A c \in LsClients : c = clientfd => ToWrite(c)' = Len(output')
    BY <2>1
  <2> HIDE DEF ToWrite
  <2>6. ASSUME NEW c \in LsClients, client[c] = "read"
        PROVE  Len(shown[c]) + Len(wire[c]) + ToWrite(c)' <= Blocks + 1
    <3>1. CASE c = clientfd
      <4>1. Len(shown[c]) = 0 /\ Len(wire[c]) = 0
        BY <2>3, <2>6, <3>1
      <4>2. PICK a, b, n : a = Len(shown[c]) /\ b = Len(wire[c]) /\ n = ToWrite(c)'
        OBVIOUS
      <4>3. a = 0 /\ b = 0 /\ n \in Nat /\ n <= Blocks + 1
        <5>1. n = Len(output')
          BY <2>5, <3>1, <4>2
        <5> QED BY ONLY <2>2, <4>1, <4>2, <5>1
      <4>4. a + b + n <= Blocks + 1
        BY ONLY <1>0, <4>3
      <4> QED BY <4>2, <4>4
    <3>2. CASE c # clientfd
      BY <1>0, <2>4, <2>6, <3>2 DEF LsLengths
    <3> QED BY <3>1, <3>2
  <2>7. \A c \in LsClients : ToWrite(c') = ToWrite(c)
    OBVIOUS
  <2> QED BY <1>0, <2>1, <2>2, <2>6 DEF LsLengths
<1>4. CASE Ls!ChildWrites
  <2>1. /\ child = "lists" /\ output # <<>> /\ output' = Tail(output) /\ clientfd \in LsClients
        /\ Len(wire[clientfd]) < Window
        /\ wire' = [wire EXCEPT ![clientfd] = Append(@, Head(output))]
        /\ client[clientfd] \in {"ask", "read", "stopped"} /\ server = "wait"
        /\ UNCHANGED <<server, clientfd, child, client, asked, shown>>
    BY <1>0, <1>4 DEF Ls!ChildWrites, LsKinds, Ls!clientVars, Ls!Alive
  <2>2. Len(output') = Len(output) - 1 /\ Len(output) \in Nat /\ Len(output') \in Nat
    BY <1>0, <2>1 DEF LsKinds
  <2>3. Len(wire'[clientfd]) = Len(wire[clientfd]) + 1
    BY <1>0, <2>1 DEF LsKinds
  <2>4. \A c \in LsClients : c # clientfd => wire'[c] = wire[c]
    BY <1>0, <2>1 DEF LsKinds
  <2>5. client[clientfd] # "ask"
    BY <2>1 DEF LsInv, LsPlaces
  <2>6. ASSUME NEW c \in LsClients
        PROVE  /\ Len(wire'[c]) <= Window
               /\ client[c] \in {"connect", "ask", "done"} => wire'[c] = <<>>
               /\ client[c] = "read" => Len(shown[c]) + Len(wire'[c]) + ToWrite(c)' <= Blocks + 1
    <3>1. CASE c = clientfd
      <4>1. client[c] = "read" => Len(shown[c]) + Len(wire[c]) + Len(output) <= Blocks + 1
        BY <1>0, <2>1, <3>1 DEF LsLengths
      <4>2. ToWrite(c)' = Len(output) - 1
        BY <2>1, <2>2, <3>1
      <4> HIDE DEF ToWrite
      <4>3. PICK a, b, d, m, n : /\ a = Len(shown[c]) /\ b = Len(wire[c]) /\ d = Len(wire'[c])
                                 /\ m = Len(output) /\ n = ToWrite(c)'
        OBVIOUS
      <4>4. /\ a \in Nat /\ b \in Nat /\ m \in Nat /\ d = b + 1 /\ n = m - 1 /\ b < Window
            /\ client[c] = "read" => a + b + m <= Blocks + 1
        BY <1>a, <2>1, <2>2, <2>3, <3>1, <4>1, <4>2, <4>3
      <4>5. d <= Window /\ (client[c] = "read" => a + d + n <= Blocks + 1)
        BY ONLY <1>0, <4>4
      <4>6. client[c] \notin {"connect", "ask", "done"}
        BY <2>1, <2>5, <3>1
      <4> QED BY <4>3, <4>5, <4>6
    <3>2. CASE c # clientfd
      <4>1. ToWrite(c)' = ToWrite(c)
        BY <2>1, <3>2
      <4> HIDE DEF ToWrite
      <4> QED BY <1>0, <2>4, <3>2, <4>1 DEF LsLengths
    <3> QED BY <3>1, <3>2
  <2>7. Len(output') <= Blocks + 1
    BY <1>0, <2>2 DEF LsLengths
  <2> HIDE DEF ToWrite
  <2> QED BY <1>0, <2>1, <2>6, <2>7 DEF LsLengths
<1>5. CASE Ls!ChildEnds
  <2>1. child' = "zombie" /\ output' = <<>> /\ UNCHANGED <<client, asked, shown, wire>>
    BY <1>5 DEF Ls!ChildEnds, Ls!clientVars, Ls!netVars
  <2>2. \A c \in LsClients : ToWrite(c)' = 0 /\ ToWrite(c) >= 0
    BY <1>a, <2>1
  <2>3. Len(output') <= Blocks + 1
    BY <1>0, <2>1
  <2> QED BY <1>b, <2>1, <2>2, <2>3
\* What a client does leaves the others and the child alone.
<1>c. ASSUME NEW c \in LsClients, UNCHANGED <<clientfd, child, output>>,
             \A d \in LsClients : d # c => /\ client'[d] = client[d] /\ asked'[d] = asked[d]
                                           /\ shown'[d] = shown[d] /\ wire'[d] = wire[d],
             asked'[c] <= Names, client'[c] \in {"ask", "read"} => asked'[c] < Names,
             Len(shown'[c]) <= Blocks + 1, Len(wire'[c]) <= Window,
             client'[c] \in {"connect", "ask", "done"} => wire'[c] = <<>>,
             client'[c] = "read" => Len(shown'[c]) + Len(wire'[c]) + ToWrite(c) <= Blocks + 1
      PROVE  LsLengths'
  <2>1. \A d \in LsClients : ToWrite(d)' = ToWrite(d)
    BY <1>c
  <2>2. Len(output') <= Blocks + 1
    BY <1>0, <1>c DEF LsLengths
  <2> HIDE DEF ToWrite
  <2>3. ASSUME NEW d \in LsClients
        PROVE  /\ asked'[d] <= Names /\ (client'[d] \in {"ask", "read"} => asked'[d] < Names)
               /\ Len(shown'[d]) <= Blocks + 1 /\ Len(wire'[d]) <= Window
               /\ client'[d] \in {"connect", "ask", "done"} => wire'[d] = <<>>
               /\ client'[d] = "read" => Len(shown'[d]) + Len(wire'[d]) + ToWrite(d)' <= Blocks + 1
    <3>1. CASE d = c
      BY <1>c, <2>1, <3>1
    <3>2. CASE d # c
      BY <1>0, <1>c, <2>1, <3>2 DEF LsLengths
    <3> QED BY <3>1, <3>2
  <2> QED BY <2>2, <2>3 DEF LsLengths
<1>d. ASSUME NEW c \in LsClients
      PROVE  /\ client[c] \in {"connect", "ask", "read", "done", "failed", "stopped"}
             /\ asked[c] <= Names /\ (client[c] \in {"ask", "read"} => asked[c] < Names)
             /\ Len(shown[c]) <= Blocks + 1 /\ Len(wire[c]) <= Window
             /\ client[c] \in {"connect", "ask", "done"} => wire[c] = <<>>
             /\ client[c] = "read" => Len(shown[c]) + Len(wire[c]) + ToWrite(c) <= Blocks + 1
             /\ ToWrite(c) \in Nat /\ Len(shown[c]) \in Nat /\ Len(wire[c]) \in Nat /\ asked[c] \in Nat
  BY <1>0, <1>a DEF LsLengths, LsKinds
<1>6. ASSUME NEW c \in LsClients, Ls!Connect(c) PROVE LsLengths'
  <2>1. /\ client[c] = "connect" /\ asked[c] < Names /\ client'[c] \in {"ask", "failed"}
        /\ \A d \in LsClients : d # c => client'[d] = client[d]
        /\ UNCHANGED <<clientfd, child, output, asked, shown, wire>>
    BY <1>0, <1>6 DEF Ls!Connect, LsKinds, Ls!serverVars
  <2> HIDE DEF ToWrite
  <2> QED BY <1>c, <1>d, <2>1
<1>7. ASSUME NEW c \in LsClients, Ls!Ask(c) PROVE LsLengths'
  <2>1. /\ client[c] = "ask" /\ client'[c] = "read" /\ shown'[c] = <<>>
        /\ \A d \in LsClients : d # c => client'[d] = client[d] /\ shown'[d] = shown[d]
        /\ UNCHANGED <<clientfd, child, output, asked, wire>>
    BY <1>0, <1>7 DEF Ls!Ask, LsKinds, Ls!serverVars
  <2>2. ToWrite(c) = 0
    <3>1. c = clientfd /\ child = "lists" => server = "wait"
      BY <1>0 DEF LsKinds
    <3>2. ~(c = clientfd /\ server = "wait")
      BY <2>1 DEF LsInv, LsPlaces
    <3> QED BY <3>1, <3>2
  <2> HIDE DEF ToWrite
  <2>3. Len(shown'[c]) = 0 /\ wire'[c] = <<>> /\ Len(wire'[c]) = 0
    <3>1. wire[c] = <<>>
      BY <1>d, <2>1
    <3> QED BY <2>1, <3>1
  <2>4. Len(shown'[c]) + Len(wire'[c]) + ToWrite(c) <= Blocks + 1 /\ Len(shown'[c]) <= Blocks + 1
    BY <1>0, <2>2, <2>3
  <2>5. Len(wire'[c]) <= Window /\ asked'[c] <= Names /\ asked'[c] < Names
    BY <1>0, <1>d, <2>1, <2>3
  <2>6. client'[c] \notin {"connect", "ask", "done"}
    BY <2>1
  <2> QED BY <1>c, <2>1, <2>4, <2>5, <2>6
<1>8. ASSUME NEW c \in LsClients, Ls!Receive(c) PROVE LsLengths'
  <2>1. /\ client[c] = "read" /\ wire[c] # <<>> /\ wire[c] \in Seq(0..Blocks) /\ shown[c] \in Seq(0..Blocks)
        /\ shown'[c] = Append(shown[c], Head(wire[c])) /\ wire'[c] = Tail(wire[c])
        /\ \A d \in LsClients : d # c => shown'[d] = shown[d] /\ wire'[d] = wire[d]
        /\ UNCHANGED <<clientfd, child, output, asked, client>>
    BY <1>0, <1>8 DEF Ls!Receive, LsKinds, Ls!serverVars
  <2>2. Len(shown'[c]) = Len(shown[c]) + 1 /\ Len(wire'[c]) = Len(wire[c]) - 1 /\ Len(wire[c]) > 0
    BY <2>1, RowMoves
  <2> HIDE DEF ToWrite
  <2>3. /\ Len(shown'[c]) + Len(wire'[c]) + ToWrite(c) <= Blocks + 1
        /\ Len(shown'[c]) <= Blocks + 1 /\ Len(wire'[c]) <= Window
    <3>1. PICK a, b, d, e, n : /\ a = Len(shown[c]) /\ b = Len(wire[c]) /\ n = ToWrite(c)
                               /\ d = Len(shown'[c]) /\ e = Len(wire'[c])
      OBVIOUS
    <3>2. /\ a \in Nat /\ b \in Nat /\ n \in Nat /\ d = a + 1 /\ e = b - 1 /\ b > 0 /\ b <= Window
          /\ a + b + n <= Blocks + 1
      BY <1>d, <2>1, <2>2, <3>1
    <3>3. d + e + n <= Blocks + 1 /\ d <= Blocks + 1 /\ e <= Window
      BY ONLY <1>0, <3>2
    <3> QED BY <3>1, <3>3
  <2>4. /\ client'[c] = "read" /\ asked'[c] <= Names /\ asked'[c] < Names
        /\ client'[c] \notin {"connect", "ask", "done"}
    BY <1>d, <2>1
  <2> QED BY <1>c, <2>1, <2>3, <2>4
<1>9. ASSUME NEW c \in LsClients, Ls!EndOfFile(c) PROVE LsLengths'
  <2>1. /\ client[c] = "read" /\ wire[c] = <<>> /\ asked'[c] = asked[c] + 1
        /\ client'[c] \in {"connect", "done"}
        /\ \A d \in LsClients : d # c => client'[d] = client[d] /\ asked'[d] = asked[d]
        /\ UNCHANGED <<clientfd, child, output, shown, wire>>
    BY <1>0, <1>9 DEF Ls!EndOfFile, LsKinds, Ls!serverVars
  <2> HIDE DEF ToWrite
  <2>2. asked'[c] <= Names
    <3>1. asked[c] \in Nat /\ asked[c] < Names
      BY <1>d, <2>1
    <3> QED BY <1>0, <2>1, <3>1
  <2>3. shown'[c] = shown[c] /\ wire'[c] = wire[c] /\ client'[c] \notin {"ask", "read"}
    BY <2>1
  <2> QED BY <1>c, <1>d, <2>1, <2>2, <2>3
<1>10. ASSUME NEW c \in LsClients, Ls!ReadFails(c) \/ Ls!Kill(c) PROVE LsLengths'
  <2>1. /\ client'[c] = "failed" /\ wire'[c] = <<>>
        /\ \A d \in LsClients : d # c => client'[d] = client[d] /\ wire'[d] = wire[d]
        /\ UNCHANGED <<clientfd, child, output, shown, asked>>
    BY <1>0, <1>10 DEF Ls!ReadFails, Ls!Kill, LsKinds, Ls!serverVars
  <2>2. Len(wire'[c]) <= Window
    BY <1>0, <2>1
  <2> HIDE DEF ToWrite
  <2> QED BY <1>c, <1>d, <2>1, <2>2
<1>11. ASSUME NEW c \in LsClients, Ls!Stop(c) PROVE LsLengths'
  <2>1. /\ client'[c] = "stopped"
        /\ \A d \in LsClients : d # c => client'[d] = client[d]
        /\ UNCHANGED <<clientfd, child, output, shown, asked, wire>>
    BY <1>0, <1>11 DEF Ls!Stop, LsKinds, Ls!serverVars, Ls!netVars
  <2> HIDE DEF ToWrite
  <2> QED BY <1>c, <1>d, <2>1
<1> QED BY <1>1, <1>2, <1>3, <1>4, <1>5, <1>6, <1>7, <1>8, <1>9, <1>10, <1>11
        DEF Ls!Next, Ls!Server, Ls!ClientStep

\* So no client shows more than a listing, and no connection holds more than
\* its window.
LEMMA LsTypesAlways == Spec => []Ls!TypeOK
<1>1. Init => LsKinds /\ LsLengths
  <2> SUFFICES ASSUME Init PROVE LsKinds /\ LsLengths
    OBVIOUS
  <2>1. /\ server = "make" /\ clientfd = Ls!Nobody /\ child = "none" /\ output = <<>> /\ tty = TRUE
        /\ client = [c \in LsClients |-> "connect"] /\ asked = [c \in LsClients |-> 0]
        /\ shown = [c \in LsClients |-> <<>>]
        /\ backlog = <<>> /\ request = {} /\ hung = {} /\ wire = [c \in LsClients |-> <<>>]
    BY DEF Init, Ls!Init
  <2>2. LsKinds
    BY <2>1 DEF LsKinds
  <2>3. LsLengths
    BY <2>1, ListingIs DEF LsLengths, ToWrite
  <2> QED BY <2>2, <2>3
<1>2. LsKinds /\ LsLengths => Ls!TypeOK
  <2> SUFFICES ASSUME LsKinds, LsLengths PROVE Ls!TypeOK
    OBVIOUS
  <2>0. Blocks \in Nat /\ Window \in Nat /\ Names \in Nat
    BY ListingIs
  <2>2. output \in Seq(0..Blocks) /\ Len(output) <= Blocks + 1
    BY <2>0 DEF LsKinds, LsLengths
  <2>3. \A c \in LsClients : /\ Len(shown[c]) <= Blocks + 1
                             /\ wire[c] \in Seq(0..Blocks) /\ Len(wire[c]) <= Window
    BY <2>0 DEF LsKinds, LsLengths
  <2>4. asked \in [LsClients -> 0..Names]
    BY <2>0 DEF LsKinds, LsLengths
  <2> QED BY <2>2, <2>3, <2>4 DEF LsKinds, Ls!TypeOK
<1> QED BY <1>1, <1>2, LsAlways, LsKindsStep, LsLengthsStep, OneProgramRuns, PTL DEF Spec

\* strtok leaves the length of its buffer as it is, and its own pointer in it.
LEMMA StringTypes == StringInv => String!TypeOK
<1> SUFFICES ASSUME StringInv PROVE String!TypeOK
  OBVIOUS
<1>1. /\ arg \in [s : String!Strings, t : String!Strings, n : 0..MaxString + 1]
      /\ at \in {"start", "called", "split", "null", "crashed"}
  BY DEF StringInv
<1>2. PICK s, n : s = arg.s /\ s \in String!Strings /\ n = Len(s)
  BY <1>1
<1>3. MaxString \in Nat /\ n \in 0..MaxString
  BY <1>2, StringsAre
<1>4. PICK V : V = Chars \cup {0}
  OBVIOUS
<1>5. CASE at \in {"start", "called"}
  <2>1. buffer = <<>> /\ p = 0 /\ tokens = <<>>
    BY <1>5 DEF StringInv
  <2>3. <<>> \in Seq(Chars \cup {0}) /\ Len(<<>>) <= MaxString
    BY <1>3
  <2>4. 0 \in 0..MaxString + 1 /\ <<>> \in Seq(String!Strings)
    BY <1>3
  <2> QED BY <1>1, <2>1, <2>3, <2>4 DEF String!TypeOK
<1>6. CASE at \in {"split", "null", "crashed"}
  <2>1. buffer \in [1..n -> Chars \cup {0}] /\ p \in 0..n + 1 /\ tokens \in Seq(String!Strings)
    <3>1. CASE at = "split"
      <4>1. /\ buffer \in [1..Len(s) -> Chars \cup {0}] /\ p \in 1..Len(s) + 1
            /\ tokens \in Seq(String!Strings)
        BY <1>2, <3>1 DEF StringInv, Cutting, FirstFields
      <4> QED BY <1>2, <1>3, <4>1
    <3>2. CASE at \in {"null", "crashed"}
      <4>1. buffer \in [1..Len(s) -> Chars \cup {0}] /\ p = 0 /\ tokens \in Seq(String!Strings)
        BY <1>2, <3>2 DEF StringInv, FirstFields
      <4> QED BY <1>2, <1>3, <4>1
    <3> QED BY <1>6, <3>1, <3>2
  <2>2. buffer \in Seq(Chars \cup {0}) /\ Len(buffer) <= MaxString
    <3>1. n \in Nat /\ n <= MaxString /\ buffer \in [1..n -> V]
      BY <1>3, <1>4, <2>1
    <3>2. buffer \in Seq(V) /\ Len(buffer) = n
      BY ONLY <3>1
    <3> QED BY <1>4, <3>1, <3>2
  <2>3. p \in 0..MaxString + 1
    BY <1>3, <2>1
  <2> QED BY <1>1, <2>1, <2>2, <2>3 DEF String!TypeOK
<1> QED BY <1>1, <1>5, <1>6

\* The program is chosen at the start and stays the same.
LEMMA ProgramStays == Spec => [](program \in Programs)
<1>1. Init => program \in Programs
  BY DEF Init
<1>2. program \in Programs /\ [Next]_vars => (program \in Programs)'
  BY DEF Next, vars
<1> QED BY <1>1, <1>2, PTL DEF Spec

\* Every variable of every program keeps its type: the handlers of a process
\* are three at most, no position leaves its buffer, file or table, a client
\* never shows more than a listing (all programs that stand alone).
THEOREM TypesAlways == Spec => []TypeOK
<1>1. SignalInv => Signal!TypeOK
  BY SignalTypes
<1>2. TreeInv => Tree!TypeOK
  BY DEF TreeInv
<1>3. DirInv => Dir!TypeOK
  BY Zenon DEF DirInv, DirTypes, Dir!TypeOK, Levels, OutLines
<1>4. StringInv => String!TypeOK
  BY StringTypes
<1>5. LexInv => Lex!TypeOK
  BY DEF LexInv
<1>6. MusicInv => Music!TypeOK
  BY MusicTypesAre DEF MusicInv
<1>7. /\ program \in Programs
      /\ Signal!TypeOK /\ Tree!TypeOK /\ Copy!TypeOK /\ Dir!TypeOK /\ Ls!TypeOK
      /\ String!TypeOK /\ Lex!TypeOK /\ Exec!TypeOK /\ Music!TypeOK
      => TypeOK
  BY DEF TypeOK
<1> QED BY <1>1, <1>2, <1>3, <1>4, <1>5, <1>6, <1>7, ProgramStays, SignalAlways, TreeAlways,
           CopyTypesAlways, DirAlways, LsTypesAlways, StringAlways, LexAlways, ExecTypesAlways,
           MusicAlways, PTL
=============================================================================
