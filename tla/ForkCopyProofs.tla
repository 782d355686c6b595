--------------------------- MODULE ForkCopyProofs ---------------------------
(***************************************************************************)
(* The forking server and client with any number of files of any size:     *)
(* every child is reaped, a copy never holds more than the file, and the   *)
(* copy of a file that exists never comes to its end once it is served.    *)
(***************************************************************************)
EXTENDS ForkCopy, TLAPS

\* A process of the client that still needs its connection, and the states of
\* a server child before and after its exit().
Begun == {"ask", "create", "receive"}
Serving == {"read", "open", "send"}
Ended == {"zombie", "reaped"}

ServerStates == {"none"} \cup Serving \cup Ended
ClientStates == {"none", "done", "failed"} \cup Begun

Queued == {backlog[k] : k \in 1..Len(backlog)}

-----------------------------------------------------------------------------
(* The zombies.                                                            *)

ZombieInv ==
    /\ schild \in [Conns -> ServerStates]
    /\ NoZombieForgotten
    /\ spc = "down" => Zombies = {}

LEMMA ZombieStep == ZombieInv /\ [Next]_vars => ZombieInv'
<1> SUFFICES ASSUME ZombieInv, [Next]_vars PROVE ZombieInv'
  OBVIOUS
<1> USE DEF ZombieInv, NoZombieForgotten, Zombies, ServerStates, Serving, Ended, MainAt
<1>1. CASE ServerMain
  <2>1. CASE Accept          BY <2>1 DEF Accept
  <2>2. CASE Fork            BY <2>2 DEF Fork
  <2>3. CASE Close           BY <2>3 DEF Close
  <2>4. CASE HandlerStarts   BY <2>4 DEF HandlerStarts
  <2>5. CASE HandlerReaps    BY <2>5 DEF HandlerReaps, serverMain
  <2>6. CASE HandlerReturns  BY <2>6 DEF HandlerReturns
  <2> QED BY <1>1, <2>1, <2>2, <2>3, <2>4, <2>5, <2>6 DEF ServerMain
<1>2. CASE ServerExits
  BY <1>2 DEF ServerExits
<1>3. CASE ClientMain \/ ClientExits \/ UNCHANGED vars
  BY <1>3 DEF ClientMain, Connect, ClientFork, ClientClose, ClientExits, vars, serverMain
<1>4. ASSUME NEW i \in Conns, ServerChild(i) PROVE ZombieInv'
  <2>1. CASE ChildExits(i)
    BY <2>1 DEF ChildExits
  <2>2. CASE ~ChildExits(i)
    BY <1>4, <2>2 DEF ServerChild, ReadRequest, ReadEnd, OpenFails, Open, Send, SendFails,
                      EndOfFile, serverMain
  <2> QED BY <2>1, <2>2
<1>5. ASSUME NEW i \in Conns, ClientChild(i) \/ CopyFails(i) PROVE ZombieInv'
  BY <1>5 DEF ClientChild, Ask, CreateFile, Receive, EndOfCopy, CopyFails, serverMain
<1> QED BY <1>1, <1>2, <1>3, <1>4, <1>5 DEF Next

\* A zombie of the server is about to be reaped, however many children die
\* while the handler runs: a SIGCHLD that is merged with an earlier one is
\* made up for by the loop of waitpid() (handler, lines 98-102).
THEOREM NoZombieIsForgotten == FairSpec => []NoZombieForgotten
<1>1. Init => ZombieInv
  BY DEF Init, ZombieInv, NoZombieForgotten, Zombies, ServerStates
<1>2. ZombieInv => NoZombieForgotten
  BY DEF ZombieInv
<1> QED BY <1>1, <1>2, ZombieStep, PTL DEF FairSpec

-----------------------------------------------------------------------------
(* Types, and the blocks that are sent, on their way or in the copy.       *)

\* A step at the server's backlog.
LEMMA Dequeue ==
    ASSUME backlog \in Seq(Conns), backlog # <<>>, backlog' = Tail(backlog),
           \A j, k \in 1..Len(backlog) : backlog[j] = backlog[k] => j = k
    PROVE  /\ Head(backlog) \in Queued \cap Conns /\ backlog' \in Seq(Conns)
           /\ Queued' = Queued \ {Head(backlog)}
           /\ \A j, k \in 1..Len(backlog') : backlog'[j] = backlog'[k] => j = k
<1>1. /\ Len(backlog) \in Nat \ {0} /\ Head(backlog) = backlog[1]
      /\ Len(backlog') = Len(backlog) - 1 /\ backlog' \in Seq(Conns)
      /\ \A k \in 1..Len(backlog') : backlog'[k] = backlog[k + 1]
  OBVIOUS
<1>2. Head(backlog) \in Queued \cap Conns
  BY <1>1 DEF Queued
<1>3. \A k \in 1..Len(backlog') : backlog'[k] \in Queued \ {Head(backlog)}
  BY <1>1 DEF Queued
<1>4. ASSUME NEW k \in 1..Len(backlog), backlog[k] # Head(backlog) PROVE backlog[k] \in Queued'
  <2>1. k - 1 \in 1..Len(backlog') /\ backlog'[k - 1] = backlog[k]
    BY <1>1, <1>4
  <2> QED BY <2>1 DEF Queued
<1>5. Queued' = Queued \ {Head(backlog)}
  <2>1. \A c \in Queued' : c \in Queued \ {Head(backlog)}
    BY <1>3 DEF Queued
  <2>2. \A c \in Queued \ {Head(backlog)} : c \in Queued'
    BY <1>4 DEF Queued
  <2> QED BY <2>1, <2>2
<1>6. \A j, k \in 1..Len(backlog') : backlog'[j] = backlog'[k] => j = k
  BY <1>1
<1> QED BY <1>1, <1>2, <1>5, <1>6

LEMMA Enqueue ==
    ASSUME backlog \in Seq(Conns), NEW c \in Conns, backlog' = Append(backlog, c)
    PROVE  /\ backlog' \in Seq(Conns) /\ Queued' = Queued \cup {c}
           /\ (\A j, k \in 1..Len(backlog) : backlog[j] = backlog[k] => j = k) /\ c \notin Queued
                => \A j, k \in 1..Len(backlog') : backlog'[j] = backlog'[k] => j = k
<1>1. /\ Len(backlog) \in Nat /\ Len(backlog') = Len(backlog) + 1 /\ backlog' \in Seq(Conns)
      /\ backlog'[Len(backlog) + 1] = c
      /\ \A k \in 1..Len(backlog) : backlog'[k] = backlog[k]
  OBVIOUS
<1>2. Queued' = Queued \cup {c}
  <2>1. \A d \in Queued' : d \in Queued \cup {c}
    BY <1>1 DEF Queued
  <2>2. \A d \in Queued \cup {c} : d \in Queued'
    BY <1>1 DEF Queued
  <2> QED BY <2>1, <2>2
<1>3. (\A j, k \in 1..Len(backlog) : backlog[j] = backlog[k] => j = k) /\ c \notin Queued
        => \A j, k \in 1..Len(backlog') : backlog'[j] = backlog'[k] => j = k
  BY <1>1 DEF Queued
<1> QED BY <1>1, <1>2, <1>3

\* main of either end has a connection where it uses one.
HandInv ==
    /\ spc \in {"fork", "close"} <=> accepted # 0
    /\ cpc \in {"fork", "close"} => next \in Conns

LEMMA TypeStep == TypeOK /\ HandInv /\ [Next]_vars => TypeOK' /\ HandInv'
<1> SUFFICES ASSUME TypeOK, HandInv, [Next]_vars PROVE TypeOK' /\ HandInv'
  OBVIOUS
<1>0. /\ NFiles \in Nat /\ Window \in Nat \ {0}
      /\ (accepted = 0 \/ accepted \in Conns) /\ \A i \in Conns : i \in 0..NFiles
      /\ {} \subseteq Pids /\ {"parent"} \subseteq Pids
      /\ \A S \in SUBSET Pids : \A p \in Pids : S \cup {p} \subseteq Pids /\ S \ {p} \subseteq Pids
  <2>1. NFiles \in Nat /\ (accepted = 0 \/ accepted \in Conns) /\ \A i \in Conns : i \in 0..NFiles
    BY BoundsAssumption DEF TypeOK, Conns
  <2>2. {} \subseteq Pids /\ {"parent"} \subseteq Pids
    BY DEF Pids
  <2> QED BY <2>1, <2>2, BoundsAssumption
<1> USE DEF TypeOK, HandInv, MainAt
<1>1. CASE Accept
  <2>1. Head(backlog) \in Conns /\ Tail(backlog) \in Seq(Conns)
    <3>1. backlog \in Seq(Conns) /\ backlog # <<>>
      BY <1>1 DEF Accept
    <3> QED BY <3>1
  <2>2. Head(backlog) # 0
    BY <2>1 DEF Conns
  <2> QED BY <1>0, <1>1, <2>1, <2>2 DEF Accept, clientVars
<1>2. CASE Fork
  <2>1. "child" \in Pids /\ sfd[accepted] \in SUBSET Pids
    BY <1>0, <1>2 DEF Fork, Pids
  <2> QED BY <1>0, <1>2, <2>1 DEF Fork, clientVars
<1>3. CASE Close
  BY <1>0, <1>3 DEF Close, clientVars, Pids
<1>4. CASE HandlerStarts \/ HandlerReaps \/ HandlerReturns
  BY <1>4 DEF HandlerStarts, HandlerReaps, HandlerReturns, Zombies, clientVars, serverMain
<1>5. CASE ServerExits
  <2>1. <<>> \in Seq(Conns)
    OBVIOUS
  <2>2. sfd' \in [Conns -> SUBSET Pids]
    BY <1>5 DEF ServerExits
  <2>3. schild' \in [Conns -> {"none", "read", "open", "send", "zombie", "reaped"}]
    BY <1>5 DEF ServerExits
  <2>4. /\ UNCHANGED <<reaping, sends, cpc, next, cchild, cfd, copy, asked, wire>>
        /\ spc' = "down" /\ accepted' = 0 /\ sigchld' = FALSE /\ backlog' = <<>>
    BY <1>5 DEF ServerExits, clientVars
  <2>5. HandInv'
    BY <2>4
  <2>6. sigchld' \in BOOLEAN /\ reaping' \in BOOLEAN
    BY <2>4, Zenon
  <2>7. accepted' \in 0..NFiles
    <3>1. 0 \in 0..NFiles
      BY BoundsAssumption
    <3> QED BY <2>4, <3>1
  <2> QED BY <2>1, <2>2, <2>3, <2>4, <2>5, <2>6, <2>7
<1>6. CASE Connect
  <2>1. next \in Conns
    BY <1>0, <1>6 DEF Connect, Conns
  <2>2. Append(backlog, next) \in Seq(Conns)
    BY <2>1
  <2> QED BY <1>0, <1>6, <2>1, <2>2 DEF Connect, serverMain
<1>7. CASE ClientExits
  BY <1>7 DEF ClientExits, serverMain
<1>8. CASE ClientFork
  BY <1>0, <1>8 DEF ClientFork, serverMain, Pids
<1>9. CASE ClientClose
  <2>1. next + 1 \in 1..NFiles+1
    BY <1>0, <1>9 DEF ClientClose, Conns
  <2>2. cfd' \in [Conns -> SUBSET Pids]
    BY <1>9 DEF ClientClose
  <2> QED BY <1>9, <2>1, <2>2 DEF ClientClose, serverMain
<1>10. ASSUME NEW i \in Conns, ServerChild(i) PROVE TypeOK' /\ HandInv'
  <2>1. CASE ChildExits(i) /\ UNCHANGED asked
    BY <2>1 DEF ChildExits, clientVars
  <2>2. CASE ReadRequest(i) \/ Open(i) \/ EndOfFile(i)
    BY <2>2 DEF ReadRequest, Open, EndOfFile, clientVars, serverMain
  <2>3. CASE Send(i)
    <3>1. wire[i] + 1 \in 0..Window /\ sends[i] + 1 \in Nat
      BY <1>0, <2>3 DEF Send
    <3> QED BY <2>3, <3>1 DEF Send, clientVars, serverMain
  <2> QED BY <1>10, <2>1, <2>2, <2>3 DEF ServerChild, ReadEnd, OpenFails, SendFails
<1>11. ASSUME NEW i \in Conns, ClientChild(i) \/ CopyFails(i) PROVE TypeOK' /\ HandInv'
  <2>1. CASE Receive(i)
    <3>1. wire[i] - 1 \in 0..Window /\ copy[i] + 1 \in Nat
      BY <1>0, <2>1 DEF Receive
    <3> QED BY <2>1, <3>1 DEF Receive, serverMain
  <2>2. CASE Ask(i) \/ CreateFile(i)
    BY <2>2 DEF Ask, CreateFile, serverMain
  <2>3. CASE EndOfCopy(i) \/ CopyFails(i)
    <3>1. /\ cfd' = [cfd EXCEPT ![i] = @ \ {"child"}]
          /\ \/ cchild' = [cchild EXCEPT ![i] = "done"]
             \/ cchild' = [cchild EXCEPT ![i] = "failed"]
          /\ UNCHANGED <<spc, accepted, sigchld, reaping, schild, sends, sfd, cpc, next, copy,
                         backlog, asked, wire>>
      BY <2>3 DEF EndOfCopy, CopyFails, serverMain
    <3>2. cfd' \in [Conns -> SUBSET Pids]
      BY <3>1
    <3>3. cchild' \in [Conns -> {"none", "ask", "create", "receive", "done", "failed"}]
      BY <3>1
    <3> QED BY <3>1, <3>2, <3>3
  <2> QED BY <1>11, <2>1, <2>2, <2>3 DEF ClientChild
<1>12. CASE UNCHANGED vars
  BY <1>12 DEF vars, serverMain, clientVars
<1> QED BY <1>1, <1>2, <1>3, <1>4, <1>5, <1>6, <1>7, <1>8, <1>9, <1>10, <1>11, <1>12
        DEF Next, ServerMain, ClientMain

LEMMA TypeInvariant == FairSpec => [](TypeOK /\ HandInv)
<1>1. Init => TypeOK /\ HandInv
  <2> SUFFICES ASSUME Init PROVE TypeOK /\ HandInv
    OBVIOUS
  <2>1. <<>> \in Seq(Conns)
    OBVIOUS
  <2>2. /\ 0 \in 0..NFiles /\ 1 \in 1..NFiles+1 /\ 0 \in 0..Window /\ 0 \in Nat
    BY BoundsAssumption
  <2>3. spc = "accept" /\ cpc = "connect" /\ accepted = 0
    BY DEF Init
  <2>4. /\ wire \in [Conns -> 0..Window] /\ sends \in [Conns -> Nat] /\ copy \in [Conns -> Nat]
        /\ accepted \in 0..NFiles /\ next \in 1..NFiles+1 /\ backlog \in Seq(Conns)
    BY <2>1, <2>2 DEF Init
  <2> QED BY <2>3, <2>4 DEF Init, TypeOK, HandInv
<1> QED BY <1>1, TypeStep, PTL DEF FairSpec

\* The variables of all processes keep their types, whichever calls fail.
THEOREM TypeCorrect == FairSpec => []TypeOK
BY TypeInvariant, PTL

\* How many blocks of a file there are to be had.
BlocksOf(i) == IF Size[i] = Missing THEN 0 ELSE Size[i]

\* A copy is a piece of the file from its start.
CopyWithinFile == \A i \in Conns : copy[i] <= BlocksOf(i)

DataInv == \A i \in Conns :
    /\ schild[i] = "send" => Size[i] # Missing
    /\ copy[i] + wire[i] = sends[i]
    /\ sends[i] <= BlocksOf(i)

LEMMA DataStep == TypeOK /\ DataInv /\ [Next]_vars => DataInv'
<1> SUFFICES ASSUME TypeOK, DataInv, [Next]_vars PROVE DataInv'
  OBVIOUS
<1>0. /\ copy \in [Conns -> Nat] /\ wire \in [Conns -> Nat] /\ sends \in [Conns -> Nat]
      /\ schild \in [Conns -> ServerStates] /\ \A i \in Conns : BlocksOf(i) \in Nat
  BY BoundsAssumption, SizeAssumption
     DEF TypeOK, ServerStates, Serving, Ended, BlocksOf, Conns
<1> USE DEF DataInv
<1>1. ASSUME NEW i \in Conns, Send(i) PROVE DataInv'
  <2>1. /\ sends[i] < BlocksOf(i) /\ sends' = [sends EXCEPT ![i] = @ + 1]
        /\ wire' = [wire EXCEPT ![i] = @ + 1] /\ UNCHANGED <<copy, schild>>
    BY <1>1 DEF Send, clientVars, BlocksOf
  <2> QED BY <1>0, <2>1 DEF BlocksOf
<1>2. ASSUME NEW i \in Conns, Receive(i) PROVE DataInv'
  <2>1. /\ copy' = [copy EXCEPT ![i] = @ + 1] /\ wire' = [wire EXCEPT ![i] = @ - 1]
        /\ UNCHANGED <<sends, schild>> /\ wire[i] > 0
    BY <1>2 DEF Receive
  <2> QED BY <1>0, <2>1 DEF BlocksOf
<1>3. CASE /\ UNCHANGED <<copy, wire, sends>>
           /\ \A i \in Conns : schild'[i] = "send" => schild[i] = "send" \/ Size[i] # Missing
  BY <1>0, <1>3 DEF BlocksOf
<1>4. CASE ServerMain \/ ServerExits \/ ClientMain \/ ClientExits \/ UNCHANGED vars
  BY <1>0, <1>3, <1>4 DEF ServerMain, Accept, Fork, Close, HandlerStarts, HandlerReaps,
        HandlerReturns, ServerExits, ClientMain, Connect, ClientFork, ClientClose, ClientExits,
        vars, clientVars
<1>5. ASSUME NEW i \in Conns, ServerChild(i) PROVE DataInv'
  BY <1>0, <1>1, <1>3, <1>5 DEF ServerChild, ReadRequest, ReadEnd, OpenFails, Open, SendFails,
        EndOfFile, ChildExits, clientVars
<1>6. ASSUME NEW i \in Conns, ClientChild(i) \/ CopyFails(i) PROVE DataInv'
  BY <1>2, <1>3, <1>6 DEF ClientChild, Ask, CreateFile, EndOfCopy, CopyFails
<1> QED BY <1>4, <1>5, <1>6 DEF Next

LEMMA DataInvariant == FairSpec => []DataInv
<1>1. Init => DataInv
  <2>1. \A i \in Conns : 0 <= BlocksOf(i) /\ 0 + 0 = 0
    BY SizeAssumption DEF BlocksOf, Conns
  <2> QED BY <2>1 DEF Init, DataInv
<1> QED BY <1>1, DataStep, TypeInvariant, PTL DEF FairSpec

\* No block is sent twice or made up: a local copy never has more blocks than
\* the file, for files and windows of any size (c_server.c lines 49-72 against
\* c_client.c lines 62-97).
THEOREM CopyStaysWithinFile == FairSpec => []CopyWithinFile
<1>1. TypeOK /\ DataInv => CopyWithinFile
  <2> SUFFICES ASSUME TypeOK, DataInv, NEW i \in Conns PROVE copy[i] <= BlocksOf(i)
    BY DEF CopyWithinFile
  <2>1. copy[i] \in Nat /\ wire[i] \in Nat /\ BlocksOf(i) \in Nat
    BY BoundsAssumption, SizeAssumption DEF TypeOK, BlocksOf, Conns
  <2> QED BY <2>1 DEF DataInv
<1> QED BY <1>1, DataInvariant, TypeInvariant, PTL

-----------------------------------------------------------------------------
(* The end of a copy.                                                      *)

\* The connections the client has made.
Made == {i \in Conns : i < next \/ (i = next /\ cpc \in {"fork", "close"}) \/ cpc = "down"}

\* Where a connection is at the server: in the backlog, with main, with the
\* child that was forked for it, or let go for good.
PlaceInv ==
    /\ \A j, k \in 1..Len(backlog) : backlog[j] = backlog[k] => j = k
    /\ accepted \notin Queued
    /\ spc = "fork" => schild[accepted] = "none"
    /\ accepted # 0 => "parent" \in sfd[accepted]
    /\ \A i \in Queued : schild[i] = "none"
    /\ \A i \in Conns : schild[i] \in Serving <=> "child" \in sfd[i]
    /\ \A i \in Conns : cchild[i] # "none" \/ schild[i] # "none" \/ i \in Queued \/ i = accepted
                            => i \in Made

\* Which process of the client holds it.
ClientInv ==
    /\ \A i \in Conns : cchild[i] \in Begun => "child" \in cfd[i]
    /\ cpc = "fork" => "parent" \in cfd[next] /\ cchild[next] = "none"

\* A child of the server ends before its client only if there is no file.
Asking(i) == cchild[i] \in Begun \/ (i = next /\ cpc = "fork")
EndInv ==
    /\ \A i \in Conns : cchild[i] = "done" => sfd[i] = {} /\ i \notin Queued
    /\ \A i \in Conns : Asking(i) /\ schild[i] \in Ended => Size[i] = Missing
    /\ \A i \in Conns : cchild[i] = "done" /\ schild[i] # "none" => Size[i] = Missing

\* "End of copying for file %s and close socket" is announced for no file that
\* the server has and has begun to serve.
ServedCopyNeverEnds ==
    \A i \in Conns : cchild[i] = "done" /\ schild[i] # "none" => Size[i] = Missing

ForkInv == TypeOK /\ HandInv /\ PlaceInv /\ ClientInv /\ EndInv

LEMMA Types ==
    ASSUME TypeOK, HandInv
    PROVE  /\ schild \in [Conns -> ServerStates] /\ cchild \in [Conns -> ClientStates]
           /\ sfd \in [Conns -> SUBSET Pids] /\ cfd \in [Conns -> SUBSET Pids]
           /\ backlog \in Seq(Conns) /\ Queued \subseteq Conns /\ next \in Nat
           /\ (accepted # 0 => accepted \in Conns) /\ 0 \notin Conns /\ Conns \subseteq Nat
           /\ (cpc \in {"fork", "close"} => next \in Conns)
<1>1. schild \in [Conns -> ServerStates] /\ cchild \in [Conns -> ClientStates]
  BY DEF TypeOK, ServerStates, ClientStates, Serving, Ended, Begun
<1>2. backlog \in Seq(Conns) /\ Queued \subseteq Conns
  BY DEF TypeOK, Queued
<1>3. /\ next \in Nat /\ (accepted # 0 => accepted \in Conns) /\ 0 \notin Conns /\ Conns \subseteq Nat
      /\ (cpc \in {"fork", "close"} => next \in Conns)
  BY BoundsAssumption DEF TypeOK, HandInv, Conns
<1> QED BY <1>1, <1>2, <1>3 DEF TypeOK

\* Steps of the server's main thread.
LEMMA AcceptEnds == ForkInv /\ Accept => PlaceInv' /\ ClientInv' /\ EndInv'
<1> SUFFICES ASSUME ForkInv, Accept PROVE PlaceInv' /\ ClientInv' /\ EndInv'
  OBVIOUS
<1> PICK c : c = Head(backlog)
  OBVIOUS
<1>1. /\ c \in Queued \cap Conns /\ Queued' = Queued \ {c}
      /\ \A j, k \in 1..Len(backlog') : backlog'[j] = backlog'[k] => j = k
  BY Dequeue DEF ForkInv, TypeOK, PlaceInv, Accept
<1>2. /\ spc' = "fork" /\ accepted' = c /\ sfd' = [sfd EXCEPT ![c] = {"parent"}]
      /\ UNCHANGED <<schild, cpc, next, cchild, cfd>>
  BY DEF Accept, clientVars
<1>3. Made' = Made
  BY <1>2 DEF Made
<1>4. PlaceInv'
  BY <1>1, <1>2, <1>3, Types DEF ForkInv, PlaceInv, Serving
<1>5. ClientInv'
  BY <1>2 DEF ForkInv, ClientInv
<1>6. EndInv'
  BY <1>1, <1>2, Types DEF ForkInv, EndInv, Asking
<1> QED BY <1>4, <1>5, <1>6

LEMMA ServerEnds ==
    ForkInv /\ (Fork \/ Close \/ HandlerStarts \/ HandlerReaps \/ HandlerReturns \/ ServerExits)
        => PlaceInv' /\ ClientInv' /\ EndInv'
<1> SUFFICES ASSUME ForkInv,
                    Fork \/ Close \/ HandlerStarts \/ HandlerReaps \/ HandlerReturns \/ ServerExits
             PROVE  PlaceInv' /\ ClientInv' /\ EndInv'
  OBVIOUS
<1>1. UNCHANGED <<cpc, next, cchild, cfd>>
  BY DEF Fork, Close, HandlerStarts, HandlerReaps, HandlerReturns, ServerExits, clientVars
<1>2. ClientInv' /\ Made' = Made /\ \A i : Asking(i)' <=> Asking(i)
  BY <1>1 DEF ForkInv, ClientInv, Made, Asking
<1>3. CASE Fork
  <2>1. /\ accepted \in Conns /\ spc = "fork" /\ spc' = "close"
        /\ schild' = [schild EXCEPT ![accepted] = "read"]
        /\ sfd' = [sfd EXCEPT ![accepted] = @ \cup {"child"}]
        /\ UNCHANGED <<accepted, backlog>> /\ Queued' = Queued
    BY <1>3, Types DEF Fork, MainAt, ForkInv, HandInv, Queued
  <2>2. PlaceInv'
    BY <1>1, <1>2, <2>1, Types DEF ForkInv, PlaceInv, Serving
  <2>3. EndInv'
    BY <1>1, <1>2, <2>1, Types DEF ForkInv, PlaceInv, EndInv, Ended
  <2> QED BY <1>2, <2>2, <2>3
<1>4. CASE Close
  <2>1. /\ accepted \in Conns /\ spc' = "accept" /\ accepted' = 0
        /\ sfd' = [sfd EXCEPT ![accepted] = @ \ {"parent"}]
        /\ UNCHANGED <<schild, backlog>> /\ Queued' = Queued
    BY <1>4, Types DEF Close, MainAt, ForkInv, HandInv, Queued
  <2>2. PlaceInv'
    BY <1>1, <1>2, <2>1, Types DEF ForkInv, PlaceInv, Serving
  <2>3. EndInv'
    BY <1>1, <1>2, <2>1, Types DEF ForkInv, EndInv
  <2> QED BY <1>2, <2>2, <2>3
<1>5. CASE HandlerStarts \/ HandlerReaps \/ HandlerReturns
  <2>1. /\ UNCHANGED <<spc, accepted, sfd, backlog>> /\ Queued' = Queued
        /\ schild' \in [Conns -> ServerStates]
        /\ \A i \in Conns : \/ schild'[i] = schild[i]
                            \/ schild[i] = "zombie" /\ schild'[i] = "reaped"
    BY <1>5, Types DEF HandlerStarts, HandlerReaps, HandlerReturns, Zombies, serverMain, ForkInv,
                       Queued, ServerStates, Ended
  <2>2. PlaceInv'
    <3>1. \A i \in Conns : /\ schild'[i] \in Serving <=> schild[i] \in Serving
                           /\ schild'[i] = "none" <=> schild[i] = "none"
      BY <2>1 DEF Serving
    <3> QED BY <1>1, <1>2, <2>1, <3>1, Types DEF ForkInv, PlaceInv, HandInv
  <2>3. EndInv'
    BY <1>1, <1>2, <2>1, Types DEF ForkInv, EndInv, Ended
  <2> QED BY <1>2, <2>2, <2>3
<1>6. CASE ServerExits
  <2>1. /\ spc' = "down" /\ accepted' = 0 /\ Queued' = {} /\ Len(backlog') = 0
        /\ sfd' = [i \in Conns |-> sfd[i] \ {"parent"}]
        /\ schild' = [i \in Conns |-> IF schild[i] = "zombie" THEN "reaped" ELSE schild[i]]
    BY <1>6 DEF ServerExits, Queued
  <2>2. PlaceInv'
    BY <1>1, <1>2, <2>1, Types DEF ForkInv, PlaceInv, Serving
  <2>3. EndInv'
    BY <1>1, <1>2, <2>1, Types DEF ForkInv, EndInv, Ended
  <2> QED BY <1>2, <2>2, <2>3
<1> QED BY <1>3, <1>4, <1>5, <1>6

\* Steps of the client's main.
LEMMA ClientEnds ==
    ForkInv /\ (ClientMain \/ ClientExits) => PlaceInv' /\ ClientInv' /\ EndInv'
<1> SUFFICES ASSUME ForkInv, ClientMain \/ ClientExits
             PROVE  PlaceInv' /\ ClientInv' /\ EndInv'
  OBVIOUS
<1>1. UNCHANGED <<spc, accepted, schild, sfd>>
  BY DEF ClientMain, Connect, ClientFork, ClientClose, ClientExits, serverMain
<1>2. CASE Connect
  <2>1. /\ next \in Conns /\ next \notin Made /\ cpc = "connect" /\ cpc' = "fork"
        /\ cfd' = [cfd EXCEPT ![next] = {"parent"}] /\ UNCHANGED <<next, cchild>>
        /\ backlog' = Append(backlog, next)
    BY <1>2, BoundsAssumption DEF Connect, ForkInv, TypeOK, Made, Conns
  <2>2. Made' = Made \cup {next}
    BY <2>1 DEF Made
  <2>3. cchild[next] = "none" /\ schild[next] = "none" /\ next \notin Queued /\ next # accepted
    BY <2>1 DEF ForkInv, PlaceInv
  <2>4. /\ Queued' = Queued \cup {next}
        /\ \A j, k \in 1..Len(backlog') : backlog'[j] = backlog'[k] => j = k
    BY <2>1, <2>3, Types, Enqueue DEF ForkInv, PlaceInv
  <2>5. PlaceInv'
    BY <1>1, <2>1, <2>2, <2>3, <2>4, Types DEF ForkInv, PlaceInv
  <2>6. ClientInv'
    BY <2>1, <2>3, Types DEF ForkInv, ClientInv, Begun
  <2>7. EndInv'
    BY <1>1, <2>1, <2>3, <2>4, Types DEF ForkInv, EndInv, Asking, Ended
  <2> QED BY <2>5, <2>6, <2>7
<1>3. CASE ClientFork
  <2>1. /\ next \in Conns /\ cpc = "fork" /\ cpc' = "close"
        /\ cchild' = [cchild EXCEPT ![next] = "ask"]
        /\ cfd' = [cfd EXCEPT ![next] = @ \cup {"child"}] /\ UNCHANGED <<next, backlog>>
        /\ Queued' = Queued
    BY <1>3, Types DEF ClientFork, ForkInv, Queued
  <2>2. Made' = Made /\ next \in Made
    BY <2>1 DEF Made
  <2>3. PlaceInv'
    BY <1>1, <2>1, <2>2, Types DEF ForkInv, PlaceInv
  <2>4. ClientInv'
    BY <2>1, Types DEF ForkInv, ClientInv, Begun
  <2>5. EndInv'
    BY <1>1, <2>1, Types DEF ForkInv, EndInv, Asking
  <2> QED BY <2>3, <2>4, <2>5
<1>4. CASE ClientClose
  <2>1. /\ next \in Conns /\ cpc = "close" /\ cpc' = "connect" /\ next' = next + 1
        /\ cfd' = [cfd EXCEPT ![next] = @ \ {"parent"}] /\ UNCHANGED <<cchild, backlog>>
        /\ Queued' = Queued
    BY <1>4, Types DEF ClientClose, ForkInv, Queued
  <2>2. Made' = Made
    BY <2>1, Types DEF Made, ForkInv
  <2>3. PlaceInv'
    BY <1>1, <2>1, <2>2 DEF ForkInv, PlaceInv
  <2>4. ClientInv'
    BY <2>1, Types DEF ForkInv, ClientInv
  <2>5. EndInv'
    BY <1>1, <2>1 DEF ForkInv, EndInv, Asking
  <2> QED BY <2>3, <2>4, <2>5
<1>5. CASE ClientExits
  <2>1. /\ cpc' = "down" /\ cfd' = [i \in Conns |-> cfd[i] \ {"parent"}]
        /\ UNCHANGED <<next, cchild, backlog>> /\ Queued' = Queued /\ Made' = Conns
    BY <1>5 DEF ClientExits, Queued, Made
  <2>2. PlaceInv'
    BY <1>1, <2>1 DEF ForkInv, PlaceInv
  <2>3. ClientInv'
    BY <2>1 DEF ForkInv, ClientInv
  <2>4. EndInv'
    BY <1>1, <2>1 DEF ForkInv, EndInv, Asking
  <2> QED BY <2>2, <2>3, <2>4
<1> QED BY <1>2, <1>3, <1>4, <1>5 DEF ClientMain

\* A child of the server: who exits has no client, or no file.
LEMMA ServerChildEnds ==
    ASSUME ForkInv, \A i \in Conns : schild[i] = "send" => Size[i] # Missing,
           NEW i \in Conns, ServerChild(i)
    PROVE  PlaceInv' /\ ClientInv' /\ EndInv'
<1>1. /\ UNCHANGED <<spc, accepted, cpc, next, cchild, cfd, backlog>> /\ Queued' = Queued
      /\ Made' = Made /\ \A j : Asking(j)' <=> Asking(j)
  <2>1. UNCHANGED <<spc, accepted, cpc, next, cchild, cfd, backlog>>
    BY DEF ServerChild, ReadRequest, ReadEnd, OpenFails, Open, Send, SendFails, EndOfFile,
           ChildExits, serverMain, clientVars
  <2> QED BY <2>1 DEF Queued, Made, Asking
<1>2. ClientInv'
  BY <1>1 DEF ForkInv, ClientInv
<1>3. schild[i] \in Serving
  BY DEF ServerChild, ReadRequest, ReadEnd, OpenFails, Open, Send, SendFails, EndOfFile, Serving
<1>4. CASE ChildExits(i)
  <2>1. ~Asking(i) \/ Size[i] = Missing
    <3>1. cfd[i] = {} \/ Size[i] = Missing
      BY <1>4 DEF ServerChild, ReadRequest, ReadEnd, OpenFails, Open, Send, SendFails, EndOfFile,
                  ChildExits, serverMain, ForkInv, TypeOK
    <3> QED BY <3>1 DEF ForkInv, ClientInv, Asking
  <2>2. PICK to \in Ended : schild' = [schild EXCEPT ![i] = to]
    BY <1>4 DEF ChildExits, Ended
  <2>3. sfd' = [sfd EXCEPT ![i] = @ \ {"child"}]
    BY <1>4 DEF ChildExits
  <2>4. PlaceInv'
    BY <1>1, <1>3, <2>2, <2>3, Types DEF ForkInv, PlaceInv, Serving, Ended
  <2>5. EndInv'
    BY <1>1, <1>3, <2>1, <2>2, <2>3, Types DEF ForkInv, EndInv, PlaceInv, Serving
  <2> QED BY <1>2, <2>4, <2>5
<1>5. CASE ~ChildExits(i)
  <2>1. UNCHANGED sfd /\ \E to \in Serving : schild' = [schild EXCEPT ![i] = to]
    BY <1>3, <1>5, Types DEF ServerChild, ReadRequest, ReadEnd, OpenFails, Open, Send, SendFails,
        EndOfFile, Serving, ForkInv
  <2>2. PlaceInv'
    BY <1>1, <1>3, <2>1, Types DEF ForkInv, PlaceInv, Serving
  <2>3. EndInv'
    BY <1>1, <1>3, <2>1, Types DEF ForkInv, EndInv, PlaceInv, Serving, Ended
  <2> QED BY <1>2, <2>2, <2>3
<1> QED BY <1>4, <1>5

\* A child of the client.
LEMMA ClientChildEnds ==
    ASSUME ForkInv, NEW i \in Conns, ClientChild(i) \/ CopyFails(i)
    PROVE  PlaceInv' /\ ClientInv' /\ EndInv'
<1>1. /\ UNCHANGED <<spc, accepted, schild, sfd, cpc, next, backlog>> /\ Queued' = Queued
      /\ Made' = Made
  <2>1. UNCHANGED <<spc, accepted, schild, sfd, cpc, next, backlog>>
    BY DEF ClientChild, Ask, CreateFile, Receive, EndOfCopy, CopyFails, serverMain
  <2> QED BY <2>1 DEF Queued, Made
<1>2. /\ cchild[i] \in Begun
      /\ \/ UNCHANGED cfd /\ \E to \in Begun : cchild' = [cchild EXCEPT ![i] = to]
         \/ /\ cfd' = [cfd EXCEPT ![i] = @ \ {"child"}]
            /\ \/ cchild' = [cchild EXCEPT ![i] = "failed"]
               \/ /\ cchild' = [cchild EXCEPT ![i] = "done"]
                  /\ sfd[i] = {} /\ i \notin Queued
  <2>1. CASE Ask(i) \/ CreateFile(i)
    BY <2>1 DEF Ask, CreateFile, Begun
  <2>2. CASE Receive(i)
    BY <2>2, Types DEF Receive, Begun, ForkInv
  <2>3. CASE CopyFails(i)
    BY <2>3 DEF CopyFails, Begun
  <2>4. CASE EndOfCopy(i)
    <3>1. i \notin Queued
      BY <2>4 DEF EndOfCopy, ServerGone, Queued
    <3> QED BY <2>4, <3>1 DEF EndOfCopy, ServerGone, Begun
  <2> QED BY <2>1, <2>2, <2>3, <2>4 DEF ClientChild
<1>3. PlaceInv'
  BY <1>1, <1>2, Types DEF ForkInv, PlaceInv, Begun
<1>4. ClientInv'
  BY <1>1, <1>2, Types DEF ForkInv, ClientInv, Begun
<1>5. EndInv'
  BY <1>1, <1>2, Types DEF ForkInv, EndInv, PlaceInv, Asking, Begun, Ended, Serving, ServerStates
<1> QED BY <1>3, <1>4, <1>5

LEMMA EndStep == ForkInv /\ DataInv /\ [Next]_vars => PlaceInv' /\ ClientInv' /\ EndInv'
<1> SUFFICES ASSUME ForkInv, DataInv, [Next]_vars PROVE PlaceInv' /\ ClientInv' /\ EndInv'
  OBVIOUS
<1>1. CASE UNCHANGED vars
  BY <1>1 DEF vars, serverMain, clientVars, ForkInv, PlaceInv, ClientInv, EndInv, Asking, Made,
              Queued
<1>2. \A i \in Conns : schild[i] = "send" => Size[i] # Missing
  BY DEF DataInv
<1> QED BY <1>1, <1>2, AcceptEnds, ServerEnds, ClientEnds, ServerChildEnds, ClientChildEnds
        DEF Next, ServerMain

\* For any number of files of any size: a copy that is served never comes to
\* its end, be it ever so whole, because the child of the server waits for the
\* client's next request and the client for the end of the connection
\* (c_server.c lines 80-87 and 113 against c_client.c lines 86 and 112-117).  What ends is the
\* copy of a file that cannot be opened, or of one nobody ever served.
THEOREM ServedCopiesNeverEnd == FairSpec => []ServedCopyNeverEnds
<1>1. Init => PlaceInv /\ ClientInv /\ EndInv
  <2> SUFFICES ASSUME Init PROVE PlaceInv /\ ClientInv /\ EndInv
    OBVIOUS
  <2>1. Queued = {} /\ Len(backlog) = 0 /\ \A i \in Conns : i # 0
    BY DEF Init, Queued, Conns
  <2> QED BY <2>1 DEF Init, PlaceInv, ClientInv, EndInv, Asking, Begun, Serving, Ended
<1>2. TypeOK /\ HandInv /\ PlaceInv /\ ClientInv /\ EndInv /\ DataInv /\ [Next]_vars
        => (PlaceInv /\ ClientInv /\ EndInv)'
  BY EndStep DEF ForkInv
<1>3. EndInv => ServedCopyNeverEnds
  BY DEF EndInv, ServedCopyNeverEnds
<1> QED BY <1>1, <1>2, <1>3, TypeInvariant, DataInvariant, PTL DEF FairSpec
=============================================================================
