------------------------- MODULE FileTransferProofs -------------------------
(***************************************************************************)
(* What the clients and handle_request preserve, for any number of clients *)
(* and server threads.  The servers' proofs cite these lemmas and add the  *)
(* steps of their own threads.                                             *)
(***************************************************************************)
EXTENDS FileTransfer, SequenceTheorems, TLAPS

LEMMA ExitTypes ==
    ASSUME FileTypeOK, NEW p, NEW how \in {"failed", "killed"}, Exit(p, how),
           UNCHANGED <<server, armed, at, cpc, copy, missed, backlog, asked, hung, handlerVars>>
    PROVE  FileTypeOK'
<1>1. wire' \in [Copiers -> Seq(Files \X Nat)]
  <2>1. <<>> \in Seq(Files \X Nat) /\ wire \in [Copiers -> Seq(Files \X Nat)]
    BY DEF FileTypeOK
  <2> QED BY <2>1 DEF Exit
<1>2. client' \in [Clients -> {"running", "failed", "killed"}]
  BY DEF FileTypeOK, Exit
<1> QED BY <1>1, <1>2 DEF FileTypeOK, handlerVars

LEMMA ServerTypes ==
    ASSUME FileTypeOK, server' \in {"starting", "up", "down"}, armed' \in BOOLEAN,
           UNCHANGED <<clientVars, netVars, handlerVars>>
    PROVE  FileTypeOK'
BY DEF FileTypeOK, clientVars, netVars, handlerVars

\* A local call fails or not, and nothing else hangs on it.
LEMMA LocalTypes ==
    ASSUME FileTypeOK, NEW c \in Copiers, NEW n \in Nat, LocalCall(c, n)
    PROVE  missed' \in [Copiers -> SUBSET Nat]
<1>1. missed \in [Copiers -> SUBSET Nat]
  BY DEF FileTypeOK
<1>2. missed[c] \cup {n} \in SUBSET Nat
  BY <1>1
<1> QED BY <1>1, <1>2 DEF LocalCall

LEMMA CopierTypes ==
    ASSUME FileTypeOK, NEW c \in Copiers, CopierStep(c)
    PROVE  FileTypeOK'
<1> USE DEF CopierAt, CopierGoto, handlerVars
<1>1. CASE Connect(c)
  BY SMTT(30), <1>1 DEF Connect, FileTypeOK
<1>2. CASE ConnectRefused(c)
  BY <1>2, ExitTypes DEF ConnectRefused
<1>3. CASE Request(c)
  <2>1. Plan[at[c]] \in Files
    BY <1>3, PlanAssumption DEF Request, FileTypeOK, Files
  <2>2. missed' \in [Copiers -> SUBSET Nat]
    BY <1>3, LocalTypes DEF Request
  <2>3. /\ asked' \in [Copiers -> Files \cup {None}]
        /\ cpc' \in [Copiers -> {"connect", "request", "receive"}]
    BY <1>3, <2>1 DEF Request, FileTypeOK
  <2> QED BY <1>3, <2>2, <2>3 DEF Request, FileTypeOK
<1>4. CASE RequestFails(c)
  BY <1>4, ExitTypes DEF RequestFails
<1>5. CASE Receive(c)
  <2>1. /\ wire[c] \in Seq(Files \X Nat) /\ wire[c] # <<>>
        /\ copy[c] \in [1..Len(Plan) -> Seq(Files \X Nat)]
        /\ at[c] \in 1..Len(Plan)
    BY SMTT(30), <1>5, PlanAssumption DEF Receive, FileTypeOK
  <2>2. /\ Head(wire[c]) \in Files \X Nat /\ Tail(wire[c]) \in Seq(Files \X Nat)
        /\ Append(copy[c][at[c]], Head(wire[c])) \in Seq(Files \X Nat)
    BY <2>1
  <2>3. copy' \in [Copiers -> [1..Len(Plan) -> Seq(Files \X Nat)]]
    BY <1>5, <2>1, <2>2 DEF Receive, FileTypeOK
  <2>4. wire' \in [Copiers -> Seq(Files \X Nat)]
    BY <1>5, <2>2 DEF Receive, FileTypeOK
  <2>5. missed' \in [Copiers -> SUBSET Nat]
    <3>1. Len(copy[c][at[c]]) + 1 \in Nat
      BY <2>1
    <3> QED BY <1>5, <3>1, LocalTypes DEF Receive, FileTypeOK
  <2> QED BY <1>5, <2>3, <2>4, <2>5 DEF Receive, FileTypeOK
<1>6. CASE EndOfCopy(c)
  <2>1. at' \in [Copiers -> 1..Len(Plan)+1]
    <3>1. Len(Plan) \in Nat /\ at \in [Copiers -> 1..Len(Plan)+1] /\ at[c] <= Len(Plan)
      BY <1>6, PlanAssumption DEF EndOfCopy, FileTypeOK
    <3> QED BY <1>6, <3>1 DEF EndOfCopy
  <2>2. asked' \in [Copiers -> Files \cup {None}]
    BY <1>6 DEF EndOfCopy, FileTypeOK
  <2>3. /\ missed' \in [Copiers -> SUBSET Nat]
        /\ cpc' \in [Copiers -> {"connect", "request", "receive"}]
    BY <1>6 DEF EndOfCopy, FileTypeOK
  <2> QED BY <1>6, <2>1, <2>2, <2>3 DEF EndOfCopy, FileTypeOK
<1> QED BY <1>1, <1>2, <1>3, <1>4, <1>5, <1>6 DEF CopierStep

LEMMA HandlerTypes ==
    ASSUME FileTypeOK, NEW h \in Handlers, NEW next, next # "send",
           NEW L, hpc \in [Handlers -> L], socket[h] # None, HandleRequest(h, next)
    PROVE  FileTypeOK'
<1> USE DEF HandlerAt, HandlerGoto, ServerExits
<1>0. socket[h] \in Copiers
  BY DEF FileTypeOK
<1>1. CASE ReadRequest(h)
  BY <1>0, <1>1 DEF ReadRequest, FileTypeOK, clientVars
<1>2. CASE ReadNothing(h)
  BY <1>2, ServerTypes DEF ReadNothing, FileTypeOK
<1>3. CASE OpenFails(h)
  BY <1>3, ServerTypes DEF OpenFails, FileTypeOK
<1>4. CASE OpenFile(h)
  BY <1>4, BlocksAssumption DEF OpenFile, FileTypeOK, clientVars, netVars, Served
<1>5. CASE SendBlock(h)
  <2>1. <<name[h], sent[h] + 1>> \in Files \X Nat
    BY <1>5, BlocksAssumption DEF SendBlock, FileTypeOK, Served
  <2>2. Append(wire[socket[h]], <<name[h], sent[h] + 1>>) \in Seq(Files \X Nat)
    BY <1>0, <2>1 DEF FileTypeOK
  <2>3. name[h] \in Served /\ sent[h] + 1 <= Blocks[name[h]]
    BY <1>5, BlocksAssumption DEF SendBlock, FileTypeOK, Served
  <2>4. wire' \in [Copiers -> Seq(Files \X Nat)] /\ sent' \in [Handlers -> Nat]
    BY <1>0, <1>5, <2>2 DEF SendBlock, FileTypeOK
  <2>5. \A g \in Handlers : hpc[g] = "send" => name[g] \in Served /\ sent'[g] <= Blocks[name[g]]
    BY <1>5, <2>3 DEF SendBlock, FileTypeOK
  <2> QED BY <1>5, <2>4, <2>5 DEF SendBlock, FileTypeOK, clientVars
<1>6. CASE SendLost(h)
  <2>1. sent' \in [Handlers -> Nat]
    BY <1>6 DEF SendLost, FileTypeOK
  <2>2. name[h] \in Served /\ sent[h] + 1 <= Blocks[name[h]]
    BY <1>6, BlocksAssumption DEF SendLost, FileTypeOK, Served
  <2>3. \A g \in Handlers : hpc[g] = "send" => name[g] \in Served /\ sent'[g] <= Blocks[name[g]]
    BY <1>6, <2>2 DEF SendLost, FileTypeOK
  <2> QED BY <1>6, <2>1, <2>3 DEF SendLost, FileTypeOK, clientVars, netVars
<1>7. CASE SendKills(h)
  BY <1>7, ServerTypes DEF SendKills, FileTypeOK
<1>8. CASE EndOfFile(h)
  BY <1>8 DEF EndOfFile, FileTypeOK, clientVars, netVars
<1>9. CASE CloseSocket(h, next)
  BY <1>0, <1>9 DEF CloseSocket, FileTypeOK, clientVars
<1> QED BY <1>1, <1>2, <1>3, <1>4, <1>5, <1>6, <1>7, <1>8, <1>9 DEF HandleRequest

-----------------------------------------------------------------------------
(* Where a connection is.  W stands for the places a server adds to the    *)
(* backlog and the handlers; no step of this module changes it.            *)

Queued == {backlog[i] : i \in 1..Len(backlog)}

HandlersApart(W) ==
    \A h \in Handlers : socket[h] # None =>
        /\ socket[h] \notin Queued \cup W /\ ~hung[socket[h]]
        /\ \A g \in Handlers \ {h} : socket[g] # socket[h]

QueuedOnce(W) ==
    /\ \A i, j \in 1..Len(backlog) : backlog[i] = backlog[j] => i = j
    /\ W \cap Queued = {}
    /\ \A c \in Queued \cup W : ~hung[c]

\* Between two copies a copier's name is nowhere, so that it can be used again.
NotInUse(W) ==
    server # "down" => \A c \in Copiers : cpc[c] = "connect" =>
        c \notin Queued \cup W /\ \A h \in Handlers : socket[h] # c

ConnInv(W) == HandlersApart(W) /\ QueuedOnce(W) /\ NotInUse(W)

LEMMA ConnStays ==
    ASSUME NEW W, ConnInv(W), UNCHANGED <<backlog, hung, socket, cpc>>,
           server' = "down" \/ server # "down"
    PROVE  ConnInv(W)'
BY DEF ConnInv, HandlersApart, QueuedOnce, NotInUse, Queued

\* accept() takes one connection out of the backlog, and no other.
LEMMA Dequeue ==
    ASSUME FileTypeOK, NEW W, QueuedOnce(W), backlog # <<>>, backlog' = Tail(backlog)
    PROVE  /\ Head(backlog) \in Queued \cap Copiers /\ backlog' \in Seq(Copiers)
           /\ Queued' = Queued \ {Head(backlog)}
           /\ \A i, j \in 1..Len(backlog') : backlog'[i] = backlog'[j] => i = j
<1>1. /\ backlog \in Seq(Copiers) /\ Len(backlog) \in Nat \ {0} /\ Head(backlog) = backlog[1]
      /\ Len(backlog') = Len(backlog) - 1 /\ backlog' \in Seq(Copiers)
      /\ \A i \in 1..Len(backlog') : backlog'[i] = backlog[i + 1]
  BY DEF FileTypeOK
<1>2. \A i, j \in 1..Len(backlog) : backlog[i] = backlog[j] => i = j
  BY DEF QueuedOnce
<1>3. Head(backlog) \in Queued \cap Copiers
  BY <1>1 DEF Queued
<1>4. \A i \in 1..Len(backlog') : backlog'[i] \in Queued \ {Head(backlog)}
  BY <1>1, <1>2 DEF Queued
<1>5. ASSUME NEW i \in 1..Len(backlog), backlog[i] # Head(backlog) PROVE backlog[i] \in Queued'
  <2>1. i - 1 \in 1..Len(backlog') /\ backlog'[i - 1] = backlog[i]
    BY <1>1, <1>5
  <2> QED BY <2>1 DEF Queued
<1>6. \A i, j \in 1..Len(backlog') : backlog'[i] = backlog'[j] => i = j
  BY <1>1, <1>2
<1>7. Queued' = Queued \ {Head(backlog)}
  <2>1. \A d \in Queued' : d \in Queued \ {Head(backlog)}
    BY <1>4 DEF Queued
  <2>2. \A d \in Queued \ {Head(backlog)} : d \in Queued'
    BY <1>5 DEF Queued
  <2> QED BY <2>1, <2>2
<1> QED BY <1>1, <1>3, <1>6, <1>7

LEMMA CopierConns ==
    ASSUME NEW W, FileTypeOK, ConnInv(W), NEW c \in Copiers, CopierStep(c)
    PROVE  ConnInv(W)'
<1> USE DEF CopierAt, CopierGoto, handlerVars
<1>1. CASE Connect(c)
  <2>1. /\ backlog \in Seq(Copiers) /\ cpc \in [Copiers -> {"connect", "request", "receive"}]
        /\ hung \in [Copiers -> BOOLEAN]
    BY DEF FileTypeOK
  <2>2. /\ c \notin Queued \cup W /\ \A h \in Handlers : socket[h] # c
        /\ backlog' = Append(backlog, c) /\ hung' = [hung EXCEPT ![c] = FALSE]
        /\ cpc' = [cpc EXCEPT ![c] = "request"] /\ socket' = socket
    BY <1>1 DEF Connect, ConnInv, NotInUse
  <2>3. /\ Len(backlog') = Len(backlog) + 1 /\ Len(backlog) \in Nat
        /\ \A i \in 1..Len(backlog) : backlog'[i] = backlog[i]
        /\ backlog'[Len(backlog) + 1] = c
    BY <2>1, <2>2
  <2>4. Queued' = Queued \cup {c}
    <3>1. \A i \in 1..Len(backlog') : backlog'[i] \in Queued \cup {c}
      BY <2>3 DEF Queued
    <3>2. \A i \in 1..Len(backlog) : backlog[i] \in Queued'
      BY <2>3 DEF Queued
    <3>3. c \in Queued'
      BY <2>3 DEF Queued
    <3> QED BY <3>1, <3>2, <3>3 DEF Queued
  <2>5. HandlersApart(W)'
    BY <2>1, <2>2, <2>4 DEF ConnInv, HandlersApart
  <2>6. QueuedOnce(W)'
    <3>1. \A i, j \in 1..Len(backlog') : backlog'[i] = backlog'[j] => i = j
      BY <2>2, <2>3 DEF ConnInv, QueuedOnce, Queued
    <3>2. \A d \in Queued' \cup W : ~hung'[d]
      BY <2>1, <2>2, <2>4 DEF ConnInv, QueuedOnce
    <3> QED BY <2>2, <2>4, <3>1, <3>2 DEF ConnInv, QueuedOnce
  <2>7. NotInUse(W)'
    BY <1>1, <2>1, <2>2, <2>4 DEF Connect, ConnInv, NotInUse
  <2> QED BY <2>5, <2>6, <2>7 DEF ConnInv
<1>2. CASE ConnectRefused(c) \/ RequestFails(c) \/ Receive(c)
  BY <1>2, ConnStays DEF ConnectRefused, RequestFails, Receive
<1>3. CASE Request(c)
  <2>1. \A d \in Copiers : cpc'[d] = "connect" => cpc[d] = "connect"
    BY <1>3 DEF Request, FileTypeOK
  <2> QED BY <1>3, <2>1 DEF Request, ConnInv, HandlersApart, QueuedOnce, NotInUse, Queued
<1>4. CASE EndOfCopy(c)
  <2>1. server # "down" => c \notin Queued \cup W /\ \A h \in Handlers : socket[h] # c
    BY <1>4, PlanAssumption DEF EndOfCopy, PeerGone, ConnInv, HandlersApart, QueuedOnce
  <2>2. \A d \in Copiers : cpc'[d] = "connect" => cpc[d] = "connect" \/ d = c
    BY <1>4 DEF EndOfCopy, FileTypeOK
  <2> QED BY <1>4, <2>1, <2>2 DEF EndOfCopy, ConnInv, HandlersApart, QueuedOnce, NotInUse, Queued
<1> QED BY <1>1, <1>2, <1>3, <1>4 DEF CopierStep

LEMMA HandlerConns ==
    ASSUME NEW W, FileTypeOK, ConnInv(W), NEW h \in Handlers, NEW next,
           socket[h] # None, HandleRequest(h, next)
    PROVE  ConnInv(W)'
<1> USE DEF HandlerAt, HandlerGoto, ServerExits, clientVars, netVars, handlerVars
<1>1. CASE \/ ReadRequest(h) \/ ReadNothing(h) \/ OpenFails(h) \/ OpenFile(h)
           \/ SendBlock(h) \/ SendLost(h) \/ SendKills(h) \/ EndOfFile(h)
  <2>1. UNCHANGED <<backlog, hung, socket, cpc>> /\ server # "down"
    BY <1>1 DEF ReadRequest, ReadNothing, OpenFails, OpenFile, SendBlock, SendLost,
                SendKills, EndOfFile
  <2> QED BY <2>1, ConnStays
<1>2. CASE CloseSocket(h, next)
  <2>1. /\ hung \in [Copiers -> BOOLEAN] /\ socket \in [Handlers -> Copiers \cup {None}]
        /\ socket[h] \in Copiers
    BY DEF FileTypeOK
  <2>2. /\ hung' = [hung EXCEPT ![socket[h]] = TRUE] /\ socket' = [socket EXCEPT ![h] = None]
        /\ backlog' = backlog /\ cpc' = cpc /\ server' = server
    BY <1>2 DEF CloseSocket
  <2>3. Queued' = Queued
    BY <2>2 DEF Queued
  <2>4. HandlersApart(W)'
    BY <2>1, <2>2, <2>3 DEF ConnInv, HandlersApart
  <2>5. QueuedOnce(W)'
    BY <2>1, <2>2, <2>3 DEF ConnInv, HandlersApart, QueuedOnce
  <2>6. NotInUse(W)'
    BY <2>1, <2>2, <2>3, PlanAssumption DEF ConnInv, NotInUse
  <2> QED BY <2>4, <2>5, <2>6 DEF ConnInv
<1> QED BY <1>1, <1>2 DEF HandleRequest

-----------------------------------------------------------------------------
(* What is on a connection.  Nothing is said of a client that has ended.   *)

Live(c) == server # "down" /\ client[c[1]] = "running"

\* Nothing of the copier's present file has been received or is on the way.
Clean(c) == wire[c] = <<>> /\ (at[c] <= Len(Plan) => copy[c][at[c]] = <<>>)

CopierData ==
    \A c \in Copiers : Live(c) =>
        /\ cpc[c] # "connect" => at[c] <= Len(Plan)
        /\ cpc[c] = "connect" => Clean(c) /\ asked[c] = None
        /\ asked[c] # None => asked[c] = Plan[at[c]]
        /\ \A i \in 1..Len(Plan) : i > at[c] => copy[c][i] = <<>>

WaitingData(W) == \A c \in Queued \cup W : Live(c) => Clean(c)

FirstBlocks(f, n) == [k \in 1..n |-> <<f, k>>]

HandlerData ==
    \A h \in Handlers : socket[h] # None /\ Live(socket[h]) =>
        LET c == socket[h] IN
        /\ hpc[h] \in {"unlock", "read", "open"} => Clean(c)
        /\ hpc[h] \in {"open", "send", "close"} => name[h] = Plan[at[c]]
        /\ hpc[h] \in {"send", "close"} =>
              copy[c][at[c]] \o wire[c] = FirstBlocks(name[h], sent[h])

TransferInv(W) == CopierData /\ WaitingData(W) /\ HandlerData

LEMMA FirstBlocksSeq ==
    ASSUME NEW f \in Files, NEW n \in Nat
    PROVE  /\ FirstBlocks(f, n) \in Seq(Files \X Nat)
           /\ FirstBlocks(f, n + 1) = Append(FirstBlocks(f, n), <<f, n + 1>>)
           /\ FirstBlocks(f, 0) = <<>>
<1> DEFINE F(m) == FirstBlocks(f, m)
<1>1. ASSUME NEW m \in Nat
      PROVE  /\ F(m) \in Seq(Files \X Nat) /\ Len(F(m)) = m
             /\ \A k \in 1..m : F(m)[k] = <<f, k>>
  BY DEF FirstBlocks
<1>2. F(0) = <<>>
  BY <1>1
<1>3. /\ Append(F(n), <<f, n + 1>>) \in Seq(Files \X Nat)
      /\ Len(Append(F(n), <<f, n + 1>>)) = n + 1
      /\ \A k \in 1..n + 1 : Append(F(n), <<f, n + 1>>)[k] = <<f, k>>
  <2>1. <<f, n + 1>> \in Files \X Nat
    OBVIOUS
  <2>2. F(n) \in Seq(Files \X Nat) /\ Len(F(n)) = n /\ \A k \in 1..n : F(n)[k] = <<f, k>>
    BY <1>1
  <2> HIDE DEF F
  <2> QED BY <2>1, <2>2, AppendProperties
<1>4. F(n + 1) \in Seq(Files \X Nat) /\ Len(F(n + 1)) = n + 1
      /\ \A k \in 1..n + 1 : F(n + 1)[k] = <<f, k>>
  BY SMTT(30), <1>1
<1> HIDE DEF F
<1>5. F(n + 1) = Append(F(n), <<f, n + 1>>)
  BY <1>3, <1>4, SeqEqual
<1> QED BY <1>1, <1>2, <1>5 DEF F

\* read() takes from the wire what is appended to the file ...
LEMMA MoveHead ==
    ASSUME NEW S, NEW a \in Seq(S), NEW b \in Seq(S), b # <<>>
    PROVE  Append(a, Head(b)) \o Tail(b) = a \o b
OBVIOUS

\* ... and write() adds behind everything that is under way.
LEMMA AddLast ==
    ASSUME NEW a \in Seq(Files \X Nat), NEW b \in Seq(Files \X Nat),
           NEW e \in Files \X Nat
    PROVE  a \o Append(b, e) = Append(a \o b, e)
BY SMTT(30)

LEMMA DataStays ==
    ASSUME NEW W, TransferInv(W), server' = "down" \/ server # "down",
           UNCHANGED <<clientVars, netVars, handlerVars>>
    PROVE  TransferInv(W)'
<1> USE DEF clientVars, netVars, handlerVars, Live, Clean, Queued
<1>1. CopierData'
  BY DEF TransferInv, CopierData
<1>2. WaitingData(W)'
  BY DEF TransferInv, WaitingData
<1>3. HandlerData'
  BY DEF TransferInv, HandlerData
<1> QED BY <1>1, <1>2, <1>3 DEF TransferInv

\* A client that ends is not live any more; the others do not notice.
LEMMA ExitData ==
    ASSUME FileTypeOK, NEW W, W \subseteq Copiers, TransferInv(W), NEW p,
           NEW how \in {"failed", "killed"}, Exit(p, how),
           UNCHANGED <<server, at, cpc, copy, backlog, asked, handlerVars>>
    PROVE  TransferInv(W)'
<1>1. /\ Queued' = Queued /\ Queued \subseteq Copiers
      /\ \A h \in Handlers : socket[h] \in Copiers \cup {None}
  BY DEF FileTypeOK, Queued
<1>2. \A c \in Copiers : Live(c)' => Live(c) /\ wire'[c] = wire[c]
  BY DEF Exit, Live, FileTypeOK, Copiers
<1>3. \A c \in Copiers : Live(c)' /\ Clean(c) => Clean(c)'
  BY <1>2 DEF Clean
<1>4. CopierData'
  BY <1>2, <1>3 DEF TransferInv, CopierData
<1>5. WaitingData(W)'
  BY <1>1, <1>2, <1>3 DEF TransferInv, WaitingData
<1>6. HandlerData'
  BY <1>1, <1>2, <1>3 DEF TransferInv, HandlerData, handlerVars
<1> QED BY <1>4, <1>5, <1>6 DEF TransferInv

LEMMA CopierMoves ==
    ASSUME FileTypeOK, NEW W, W \subseteq Copiers, ConnInv(W), TransferInv(W),
           NEW c \in Copiers, CopierStep(c)
    PROVE  TransferInv(W)'
<1> USE DEF CopierAt, CopierGoto, handlerVars
<1>0. /\ cpc \in [Copiers -> {"connect", "request", "receive"}]
      /\ at \in [Copiers -> 1..Len(Plan)+1] /\ Len(Plan) \in Nat
      /\ wire \in [Copiers -> Seq(Files \X Nat)]
      /\ copy \in [Copiers -> [1..Len(Plan) -> Seq(Files \X Nat)]]
      /\ asked \in [Copiers -> Files \cup {None}]
      /\ Queued \cup W \subseteq Copiers
      /\ \A h \in Handlers : socket[h] \in Copiers \cup {None}
  BY PlanAssumption DEF FileTypeOK, Queued
<1>1. CASE Connect(c)
  <2>1. /\ \A d \in Copiers : d # c => cpc'[d] = cpc[d]
        /\ cpc'[c] = "request" /\ at[c] <= Len(Plan) /\ cpc[c] = "connect"
        /\ UNCHANGED <<server, client, at, copy, asked, wire, handlerVars>>
    BY <1>0, <1>1 DEF Connect
  <2>2. \A d \in Copiers : (Live(d)' <=> Live(d)) /\ (Clean(d)' <=> Clean(d))
    BY <2>1 DEF Live, Clean
  <2>3. Queued' \subseteq Queued \cup {c}
    <3>1. /\ backlog \in Seq(Copiers) /\ backlog' = Append(backlog, c)
      BY <1>1 DEF Connect, FileTypeOK
    <3>2. \A i \in 1..Len(backlog') : backlog'[i] \in Queued \cup {c}
      BY <3>1 DEF Queued
    <3> QED BY <3>2 DEF Queued
  <2>4. CopierData'
    BY <2>1, <2>2 DEF TransferInv, CopierData
  <2>5. WaitingData(W)'
    BY <1>0, <2>1, <2>2, <2>3 DEF TransferInv, CopierData, WaitingData
  <2>6. HandlerData'
    BY <1>0, <2>1, <2>2 DEF TransferInv, HandlerData
  <2> QED BY <2>4, <2>5, <2>6 DEF TransferInv
<1>2. CASE ConnectRefused(c) \/ RequestFails(c)
  BY <1>2, ExitData DEF ConnectRefused, RequestFails
<1>3. CASE Request(c)
  <2>1. /\ \A d \in Copiers : d # c => cpc'[d] = cpc[d] /\ asked'[d] = asked[d]
        /\ cpc'[c] = "receive" /\ at[c] <= Len(Plan) /\ asked'[c] = Plan[at[c]]
        /\ UNCHANGED <<server, client, at, copy, wire, backlog, handlerVars>>
    BY <1>0, <1>3 DEF Request
  <2>2. \A d \in Copiers : (Live(d)' <=> Live(d)) /\ (Clean(d)' <=> Clean(d))
    BY <2>1 DEF Live, Clean
  <2>3. CopierData'
    BY <2>1, <2>2 DEF TransferInv, CopierData
  <2>4. WaitingData(W)'
    BY <1>0, <2>1, <2>2 DEF TransferInv, WaitingData, Queued
  <2>5. HandlerData'
    BY <1>0, <2>1, <2>2 DEF TransferInv, HandlerData
  <2> QED BY <2>3, <2>4, <2>5 DEF TransferInv
<1>4. CASE Receive(c)
  <2>1. /\ \A d \in Copiers : d # c => copy'[d] = copy[d] /\ wire'[d] = wire[d]
        /\ at[c] \in 1..Len(Plan) /\ wire[c] # <<>> /\ wire'[c] = Tail(wire[c])
        /\ copy'[c][at[c]] = Append(copy[c][at[c]], Head(wire[c]))
        /\ \A i \in 1..Len(Plan) : i # at[c] => copy'[c][i] = copy[c][i]
        /\ cpc[c] = "receive"
        /\ UNCHANGED <<server, client, at, cpc, asked, backlog, handlerVars>>
    BY <1>0, <1>4 DEF Receive
  <2>2. \A d \in Copiers : /\ Live(d)' <=> Live(d)
                           /\ d # c => (Clean(d)' <=> Clean(d))
    BY <2>1 DEF Live, Clean
  <2>3. ~Clean(c)
    BY <2>1 DEF Clean
  <2>4. CopierData'
    <3> SUFFICES ASSUME NEW d \in Copiers, Live(d)
                 PROVE  /\ cpc[d] # "connect" => at[d] <= Len(Plan)
                        /\ cpc[d] = "connect" => Clean(d)' /\ asked[d] = None
                        /\ asked[d] # None => asked[d] = Plan[at[d]]
                        /\ \A i \in 1..Len(Plan) : i > at[d] => copy'[d][i] = <<>>
      BY <2>1, <2>2 DEF CopierData
    <3>1. CASE d = c
      <4>1. \A i \in 1..Len(Plan) : i > at[c] => copy[c][i] = <<>>
        BY <3>1 DEF TransferInv, CopierData
      <4>2. \A i \in 1..Len(Plan) : i > at[c] => copy'[c][i] = <<>>
        BY <2>1, <4>1
      <4> QED BY <2>1, <3>1, <4>2 DEF TransferInv, CopierData
    <3>2. CASE d # c
      BY <2>1, <2>2, <3>2 DEF TransferInv, CopierData
    <3> QED BY <3>1, <3>2
  <2>5. WaitingData(W)'
    <3>1. Queued' = Queued /\ \A d \in Queued \cup W : Live(d) => d # c /\ Clean(d)
      BY <2>1, <2>3 DEF TransferInv, WaitingData, Queued
    <3> QED BY <1>0, <2>2, <3>1 DEF WaitingData
  <2>6. copy'[c][at[c]] \o wire'[c] = copy[c][at[c]] \o wire[c]
    <3>1. copy[c][at[c]] \in Seq(Files \X Nat) /\ wire[c] \in Seq(Files \X Nat)
      BY <1>0, <2>1
    <3> QED BY <2>1, <3>1, MoveHead
  <2>7. HandlerData'
    BY <1>0, <2>1, <2>2, <2>3, <2>6 DEF TransferInv, HandlerData
  <2> QED BY <2>4, <2>5, <2>7 DEF TransferInv
<1>5. CASE EndOfCopy(c)
  <2>1. /\ \A d \in Copiers : d # c => cpc'[d] = cpc[d] /\ asked'[d] = asked[d]
                                      /\ at'[d] = at[d]
        /\ cpc'[c] = "connect" /\ at[c] \in 1..Len(Plan) /\ at'[c] = at[c] + 1
        /\ asked'[c] = None /\ wire[c] = <<>> /\ PeerGone(c)
        /\ UNCHANGED <<server, client, copy, wire, backlog, handlerVars>>
    BY <1>0, <1>5 DEF EndOfCopy
  <2>2. \A d \in Copiers : /\ Live(d)' <=> Live(d)
                           /\ d # c => (Clean(d)' <=> Clean(d))
    BY <2>1 DEF Live, Clean
  <2>3. Live(c) => c \notin Queued \cup W /\ \A h \in Handlers : socket[h] # c
    BY <2>1, PlanAssumption DEF Live, PeerGone, ConnInv, HandlersApart, QueuedOnce
  <2>4. Live(c) => Clean(c)'
    <3>1. Live(c) => \A i \in 1..Len(Plan) : i > at[c] => copy[c][i] = <<>>
      BY DEF TransferInv, CopierData
    <3>2. at[c] + 1 <= Len(Plan) => at[c] + 1 \in 1..Len(Plan) /\ at[c] + 1 > at[c]
      BY <1>0, <2>1
    <3> QED BY <2>1, <3>1, <3>2 DEF Clean
  <2>5. CopierData'
    <3> SUFFICES ASSUME NEW d \in Copiers, Live(d)
                 PROVE  /\ cpc'[d] # "connect" => at'[d] <= Len(Plan)
                        /\ cpc'[d] = "connect" => Clean(d)' /\ asked'[d] = None
                        /\ asked'[d] # None => asked'[d] = Plan[at'[d]]
                        /\ \A i \in 1..Len(Plan) : i > at'[d] => copy[d][i] = <<>>
      BY <2>1, <2>2 DEF CopierData
    <3>1. CASE d = c
      <4>1. \A i \in 1..Len(Plan) : i > at'[c] => i > at[c]
        BY <1>0, <2>1
      <4> QED BY <2>1, <2>4, <3>1, <4>1 DEF TransferInv, CopierData
    <3>2. CASE d # c
      BY <2>1, <2>2, <3>2 DEF TransferInv, CopierData
    <3> QED BY <3>1, <3>2
  <2>6. WaitingData(W)'
    <3>1. Queued' = Queued
      BY <2>1 DEF Queued
    <3> QED BY <1>0, <2>2, <2>3, <3>1 DEF TransferInv, WaitingData
  <2>7. HandlerData'
    <3> SUFFICES ASSUME NEW h \in Handlers, socket[h] # None, Live(socket[h])
                 PROVE  /\ hpc[h] \in {"unlock", "read", "open"} => Clean(socket[h])'
                        /\ hpc[h] \in {"open", "send", "close"} => name[h] = Plan[at'[socket[h]]]
                        /\ hpc[h] \in {"send", "close"} =>
                              copy[socket[h]][at'[socket[h]]] \o wire[socket[h]]
                                 = FirstBlocks(name[h], sent[h])
      BY <1>0, <2>1, <2>2 DEF HandlerData
    <3>1. socket[h] \in Copiers /\ socket[h] # c
      BY <1>0, <2>3
    <3>2. at'[socket[h]] = at[socket[h]] /\ (Clean(socket[h])' <=> Clean(socket[h]))
      BY <2>1, <2>2, <3>1
    <3> QED BY <3>2 DEF TransferInv, HandlerData
  <2> QED BY <2>5, <2>6, <2>7 DEF TransferInv
<1> QED BY <1>1, <1>2, <1>3, <1>4, <1>5 DEF CopierStep

LEMMA HandlerMoves ==
    ASSUME FileTypeOK, NEW W, W \subseteq Copiers, ConnInv(W), TransferInv(W),
           NEW h \in Handlers, NEW next \in {"lock", "exited", "test"},
           NEW L, hpc \in [Handlers -> L], socket[h] # None, HandleRequest(h, next)
    PROVE  TransferInv(W)'
<1> USE DEF HandlerAt, HandlerGoto, clientVars, netVars
<1> DEFINE s == socket[h]
<1>0. /\ s \in Copiers /\ at \in [Copiers -> 1..Len(Plan)+1] /\ Len(Plan) \in Nat
      /\ wire \in [Copiers -> Seq(Files \X Nat)]
      /\ copy \in [Copiers -> [1..Len(Plan) -> Seq(Files \X Nat)]]
      /\ asked \in [Copiers -> Files \cup {None}]
      /\ name \in [Handlers -> Files \cup {None}] /\ sent \in [Handlers -> Nat]
      /\ socket \in [Handlers -> Copiers \cup {None}]
      /\ Queued \cup W \subseteq Copiers
  BY SMTT(30), PlanAssumption DEF FileTypeOK, Queued
<1>1. /\ \A g \in Handlers : g # h => socket[g] # s
      /\ Live(s) => cpc[s] # "connect" /\ s \notin Queued \cup W
  BY <1>0 DEF ConnInv, HandlersApart, NotInUse, Live
<1>2. Live(s) => at[s] \in 1..Len(Plan)
  BY <1>0, <1>1 DEF TransferInv, CopierData
<1>3. CASE ReadRequest(h)
  <2>1. /\ hpc[h] = "read" /\ hpc'[h] = "open" /\ asked[s] # None
        /\ name'[h] = asked[s] /\ asked'[s] = None
        /\ \A g \in Handlers : g # h => hpc'[g] = hpc[g] /\ name'[g] = name[g]
        /\ \A d \in Copiers : d # s => asked'[d] = asked[d]
        /\ UNCHANGED <<server, client, at, cpc, copy, wire, backlog, socket, sent>>
    BY <1>0, <1>3 DEF ReadRequest
  <2>2. /\ Queued' = Queued
        /\ \A d : (Live(d)' <=> Live(d)) /\ (Clean(d)' <=> Clean(d))
    BY <2>1 DEF Live, Clean, Queued
  <2>3. CopierData'
    BY <2>1, <2>2 DEF TransferInv, CopierData
  <2>4. WaitingData(W)'
    BY <2>2 DEF TransferInv, WaitingData
  <2>5. HandlerData'
    <3>1. Live(s) => name'[h] = Plan[at[s]] /\ Clean(s)
      BY <1>0, <2>1 DEF TransferInv, CopierData, HandlerData
    <3> QED BY <2>1, <2>2, <3>1 DEF TransferInv, HandlerData
  <2> QED BY <2>3, <2>4, <2>5 DEF TransferInv
<1>4. CASE ReadNothing(h) \/ OpenFails(h) \/ SendKills(h)
  BY <1>4, DataStays DEF ReadNothing, OpenFails, SendKills, ServerExits
<1>5. CASE OpenFile(h) \/ EndOfFile(h) \/ SendLost(h)
  <2>1. /\ \A g \in Handlers : g # h => hpc'[g] = hpc[g] /\ sent'[g] = sent[g]
        /\ UNCHANGED <<server, client, at, cpc, copy, asked, wire, backlog, socket, name>>
    BY <1>0, <1>5 DEF OpenFile, EndOfFile, SendLost
  <2>2. /\ Queued' = Queued
        /\ \A d : (Live(d)' <=> Live(d)) /\ (Clean(d)' <=> Clean(d))
    BY <2>1 DEF Live, Clean, Queued
  <2>3. Live(s) => /\ hpc'[h] \in {"send", "close"} /\ name[h] = Plan[at[s]]
                   /\ copy[s][at[s]] \o wire[s] = FirstBlocks(name[h], sent'[h])
    <3>1. CASE OpenFile(h)
      <4>1. hpc'[h] = "send" /\ sent'[h] = 0 /\ hpc[h] = "open" /\ name[h] \in Files
        BY <1>0, <3>1, BlocksAssumption DEF OpenFile, Served
      <4>2. Live(s) => /\ copy[s][at[s]] = <<>> /\ wire[s] = <<>>
                       /\ name[h] = Plan[at[s]]
        BY <1>0, <1>2, <4>1 DEF TransferInv, HandlerData, Clean
      <4>3. FirstBlocks(name[h], 0) = <<>> \o <<>>
        BY <4>1, FirstBlocksSeq
      <4> QED BY <4>1, <4>2, <4>3
    <3>2. CASE EndOfFile(h)
      BY <1>0, <3>2 DEF EndOfFile, TransferInv, HandlerData
    <3>3. CASE SendLost(h)
      BY <3>3 DEF SendLost, Live
    <3> QED BY <1>5, <3>1, <3>2, <3>3
  <2>4. CopierData'
    BY <2>1, <2>2 DEF TransferInv, CopierData
  <2>5. WaitingData(W)'
    BY <2>2 DEF TransferInv, WaitingData
  <2>6. HandlerData'
    BY <2>1, <2>2, <2>3 DEF TransferInv, HandlerData
  <2> QED BY <2>4, <2>5, <2>6 DEF TransferInv
<1>6. CASE SendBlock(h)
  <2> DEFINE x == <<name[h], sent[h] + 1>>
  <2>1. /\ hpc[h] = "send" /\ sent'[h] = sent[h] + 1 /\ wire'[s] = Append(wire[s], x)
        /\ \A g \in Handlers : g # h => sent'[g] = sent[g]
        /\ \A d \in Copiers : d # s => wire'[d] = wire[d]
        /\ UNCHANGED <<server, client, at, cpc, copy, asked, backlog, hpc, socket, name>>
        /\ name[h] \in Files /\ Live(s)
    BY <1>0, <1>6, BlocksAssumption DEF SendBlock, FileTypeOK, Served, Live
  <2>2. /\ Queued' = Queued
        /\ \A d \in Copiers : (Live(d)' <=> Live(d)) /\ (d # s => (Clean(d)' <=> Clean(d)))
    BY <2>1 DEF Live, Clean, Queued
  <2>3. copy[s][at[s]] \o wire'[s] = FirstBlocks(name[h], sent'[h])
    <3>1. /\ copy[s][at[s]] \in Seq(Files \X Nat) /\ wire[s] \in Seq(Files \X Nat)
          /\ x \in Files \X Nat /\ sent[h] \in Nat
      <4>1. at[s] \in 1..Len(Plan) /\ sent[h] \in Nat /\ x \in Files \X Nat
        BY <1>0, <1>2, <2>1
      <4> QED BY <1>0, <4>1
    <3>2. copy[s][at[s]] \o wire[s] = FirstBlocks(name[h], sent[h])
      BY <1>0, <2>1 DEF TransferInv, HandlerData
    <3> HIDE DEF x
    <3>3. copy[s][at[s]] \o Append(wire[s], x) = Append(copy[s][at[s]] \o wire[s], x)
      BY <3>1, AddLast
    <3> QED BY <2>1, <3>1, <3>2, <3>3, FirstBlocksSeq DEF x
  <2> HIDE DEF x
  <2>4. CopierData'
    BY <1>1, <2>1, <2>2 DEF TransferInv, CopierData
  <2>5. WaitingData(W)'
    BY <1>0, <1>1, <2>1, <2>2 DEF TransferInv, WaitingData
  <2>6. HandlerData'
    BY <1>0, <1>1, <2>1, <2>2, <2>3 DEF TransferInv, HandlerData
  <2> QED BY <2>4, <2>5, <2>6 DEF TransferInv
<1>7. CASE CloseSocket(h, next)
  <2>1. /\ \A g \in Handlers : g # h => hpc'[g] = hpc[g] /\ name'[g] = name[g]
                                       /\ socket'[g] = socket[g]
        /\ socket'[h] = None
        /\ UNCHANGED <<server, client, at, cpc, copy, asked, wire, backlog, sent>>
    BY <1>0, <1>7 DEF CloseSocket
  <2>2. /\ Queued' = Queued
        /\ \A d : (Live(d)' <=> Live(d)) /\ (Clean(d)' <=> Clean(d))
    BY <2>1 DEF Live, Clean, Queued
  <2>3. CopierData'
    BY <2>1, <2>2 DEF TransferInv, CopierData
  <2>4. WaitingData(W)'
    BY <2>2 DEF TransferInv, WaitingData
  <2>5. HandlerData'
    BY ZenonT(60), <2>1, <2>2 DEF TransferInv, HandlerData
  <2> QED BY <2>3, <2>4, <2>5 DEF TransferInv
<1> QED BY <1>3, <1>4, <1>5, <1>6, <1>7 DEF HandleRequest

-----------------------------------------------------------------------------
(* What a client has got and will get, until its end or also after the     *)
(* server's: the beginning of the file it copies, and the whole file once  *)
(* the server has closed the connection.                                   *)

UnderWay(c) == copy[c][at[c]] \o wire[c]

Beginning(f, s) == s = <<>> \/ (f \in Served /\ \E n \in 1..Blocks[f] : s = FirstBlocks(f, n))
All(f, s) == f \in Served /\ s = FirstBlocks(f, Blocks[f])

CopierPrefix(c) ==
    client[c[1]] = "running" =>
        /\ cpc[c] # "connect" => at[c] <= Len(Plan)
        /\ cpc[c] = "connect" => wire[c] = <<>>
        /\ cpc[c] # "receive" /\ at[c] <= Len(Plan) => copy[c][at[c]] = <<>>
        /\ \A i \in 1..Len(Plan) : i > at[c] => copy[c][i] = <<>>
        /\ at[c] <= Len(Plan) => Beginning(Plan[at[c]], UnderWay(c))
        /\ server # "down" /\ hung[c] /\ cpc[c] # "connect" => All(Plan[at[c]], UnderWay(c))

AllSent == \A h \in Handlers : hpc[h] = "close" => name[h] \in Served /\ sent[h] = Blocks[name[h]]

PrefixInv == (\A c \in Copiers : CopierPrefix(c)) /\ AllSent

LEMMA PrefixStays ==
    ASSUME PrefixInv, server' = "down" \/ server # "down",
           UNCHANGED <<clientVars, netVars, handlerVars>>
    PROVE  PrefixInv'
<1> USE DEF clientVars, netVars, handlerVars
<1>1. ASSUME NEW c \in Copiers PROVE CopierPrefix(c)'
  <2>1. CopierPrefix(c)
    BY DEF PrefixInv
  <2> QED BY <2>1 DEF CopierPrefix, UnderWay
<1> QED BY <1>1 DEF PrefixInv, AllSent

LEMMA ExitPrefix ==
    ASSUME FileTypeOK, PrefixInv, NEW p, NEW how \in {"failed", "killed"}, Exit(p, how),
           UNCHANGED <<server, at, cpc, copy, hung, handlerVars>>
    PROVE  PrefixInv'
<1>1. ASSUME NEW c \in Copiers PROVE CopierPrefix(c)'
  <2>1. client'[c[1]] = "running" => client[c[1]] = "running" /\ wire'[c] = wire[c]
    BY DEF Exit, FileTypeOK, Copiers
  <2>2. CopierPrefix(c)
    BY DEF PrefixInv
  <2> QED BY <2>1, <2>2 DEF CopierPrefix, UnderWay
<1> QED BY <1>1 DEF PrefixInv, AllSent, handlerVars

\* A copier whose own part of the state is as before.
LEMMA OtherPrefix ==
    ASSUME NEW d \in Copiers, CopierPrefix(d), UNCHANGED <<server, client>>,
           at'[d] = at[d], cpc'[d] = cpc[d], copy'[d] = copy[d], wire'[d] = wire[d],
           hung'[d] = hung[d]
    PROVE  CopierPrefix(d)'
BY DEF CopierPrefix, UnderWay

LEMMA CopierKeepsPrefix ==
    ASSUME FileTypeOK, PrefixInv, NEW c \in Copiers, CopierStep(c)
    PROVE  PrefixInv'
<1> USE DEF CopierAt, CopierGoto, handlerVars
<1>0. /\ cpc \in [Copiers -> {"connect", "request", "receive"}]
      /\ at \in [Copiers -> 1..Len(Plan)+1] /\ Len(Plan) \in Nat
      /\ wire \in [Copiers -> Seq(Files \X Nat)] /\ hung \in [Copiers -> BOOLEAN]
      /\ copy \in [Copiers -> [1..Len(Plan) -> Seq(Files \X Nat)]]
      /\ CopierPrefix(c)
  BY PlanAssumption DEF FileTypeOK, PrefixInv
<1>1. CASE ConnectRefused(c) \/ RequestFails(c)
  BY <1>1, ExitPrefix DEF ConnectRefused, RequestFails
<1>2. CASE Connect(c) \/ Request(c) \/ Receive(c) \/ EndOfCopy(c)
  <2>1. AllSent'
    BY <1>2 DEF Connect, Request, Receive, EndOfCopy, PrefixInv, AllSent
  <2>2. ASSUME NEW d \in Copiers, d # c PROVE CopierPrefix(d)'
    <3>1. /\ at'[d] = at[d] /\ cpc'[d] = cpc[d] /\ copy'[d] = copy[d]
          /\ wire'[d] = wire[d] /\ hung'[d] = hung[d] /\ UNCHANGED <<server, client>>
      BY <1>0, <1>2, <2>2 DEF Connect, Request, Receive, EndOfCopy
    <3> QED BY <3>1, OtherPrefix DEF PrefixInv
  <2>3. CopierPrefix(c)'
    <3>1. CASE Connect(c)
      BY <1>0, <3>1 DEF Connect, CopierPrefix, UnderWay
    <3>2. CASE Request(c)
      <4>1. UNCHANGED <<server, client, at, copy, wire, hung>> /\ cpc'[c] = "receive"
            /\ at[c] <= Len(Plan) /\ cpc[c] = "request"
        BY <1>0, <3>2 DEF Request
      <4> QED BY <1>0, <4>1 DEF CopierPrefix, UnderWay
    <3>3. CASE Receive(c)
      <4>1. /\ at[c] \in 1..Len(Plan) /\ wire[c] # <<>> /\ wire'[c] = Tail(wire[c])
            /\ copy'[c][at[c]] = Append(copy[c][at[c]], Head(wire[c]))
            /\ \A i \in 1..Len(Plan) : i # at[c] => copy'[c][i] = copy[c][i]
            /\ cpc[c] = "receive" /\ UNCHANGED <<server, client, at, cpc, hung>>
        BY <1>0, <3>3 DEF Receive
      <4>2. copy[c][at[c]] \in Seq(Files \X Nat) /\ wire[c] \in Seq(Files \X Nat)
        BY <1>0, <4>1
      <4>3. UnderWay(c)' = UnderWay(c)
        BY <4>1, <4>2, MoveHead DEF UnderWay
      <4>4. client[c[1]] = "running" => \A i \in 1..Len(Plan) : i > at[c] => copy'[c][i] = <<>>
        <5>1. \A i \in 1..Len(Plan) : i > at[c] => i # at[c]
          BY <1>0, <4>1
        <5> QED BY <1>0, <4>1, <5>1 DEF CopierPrefix
      <4> QED BY <1>0, <4>1, <4>3, <4>4 DEF CopierPrefix
    <3>4. CASE EndOfCopy(c)
      <4>1. /\ cpc'[c] = "connect" /\ at[c] \in 1..Len(Plan) /\ at'[c] = at[c] + 1
            /\ wire[c] = <<>> /\ UNCHANGED <<server, client, copy, wire, hung>>
            /\ client[c[1]] = "running"
        BY <1>0, <3>4 DEF EndOfCopy
      <4>2. \A i \in 1..Len(Plan) : i > at[c] => copy[c][i] = <<>>
        BY <1>0, <4>1 DEF CopierPrefix
      <4>3. \A i \in 1..Len(Plan) : i > at'[c] => copy[c][i] = <<>>
        BY <1>0, <4>1, <4>2
      <4>4. at'[c] <= Len(Plan) => UnderWay(c)' = <<>>
        BY <1>0, <4>1, <4>2 DEF UnderWay
      <4>5. at'[c] <= Len(Plan) => copy[c][at'[c]] = <<>>
        BY <1>0, <4>1, <4>2
      <4> QED BY <4>1, <4>3, <4>4, <4>5 DEF CopierPrefix, Beginning
    <3> QED BY <1>2, <3>1, <3>2, <3>3, <3>4
  <2> QED BY <2>1, <2>2, <2>3 DEF PrefixInv
<1> QED BY <1>1, <1>2 DEF CopierStep

LEMMA HandlerKeepsPrefix ==
    ASSUME FileTypeOK, NEW W, W \subseteq Copiers, ConnInv(W), TransferInv(W), PrefixInv,
           NEW h \in Handlers, NEW next \in {"lock", "exited", "test"},
           NEW L, hpc \in [Handlers -> L], socket[h] # None, HandleRequest(h, next)
    PROVE  PrefixInv'
<1> USE DEF HandlerAt, HandlerGoto, clientVars, netVars
<1> PICK s \in Copiers : s = socket[h]
  BY DEF FileTypeOK
<1>0. /\ s = socket[h] /\ s \in Copiers /\ at \in [Copiers -> 1..Len(Plan)+1] /\ Len(Plan) \in Nat
      /\ wire \in [Copiers -> Seq(Files \X Nat)] /\ hung \in [Copiers -> BOOLEAN]
      /\ copy \in [Copiers -> [1..Len(Plan) -> Seq(Files \X Nat)]]
      /\ name \in [Handlers -> Files \cup {None}] /\ sent \in [Handlers -> Nat]
      /\ socket \in [Handlers -> Copiers \cup {None}]
      /\ CopierPrefix(s)
  BY PlanAssumption DEF FileTypeOK, PrefixInv
<1>1. CASE ReadNothing(h) \/ OpenFails(h) \/ SendKills(h)
  BY <1>1, PrefixStays DEF ReadNothing, OpenFails, SendKills, ServerExits
<1>2. CASE ReadRequest(h) \/ OpenFile(h) \/ SendLost(h) \/ EndOfFile(h)
  <2>1. AllSent'
    BY <1>0, <1>2, BlocksAssumption DEF ReadRequest, OpenFile, SendLost, EndOfFile, FileTypeOK,
       PrefixInv, AllSent, Served
  <2>2. ASSUME NEW d \in Copiers PROVE CopierPrefix(d)'
    BY <1>2, OtherPrefix DEF ReadRequest, OpenFile, SendLost, EndOfFile, PrefixInv
  <2> QED BY <2>1, <2>2 DEF PrefixInv
<1>3. CASE SendBlock(h)
  <2>1. AllSent'
    BY <1>0, <1>3 DEF SendBlock, PrefixInv, AllSent
  <2>2. ASSUME NEW d \in Copiers, d # s PROVE CopierPrefix(d)'
    <3>1. wire'[d] = wire[d]
      BY <1>0, <1>3, <2>2 DEF SendBlock
    <3> QED BY <1>3, <3>1, OtherPrefix DEF SendBlock, PrefixInv
  <2>3. CopierPrefix(s)'
    <3>1. /\ hpc[h] = "send" /\ wire'[s] = Append(wire[s], <<name[h], sent[h] + 1>>)
          /\ UNCHANGED <<server, client, at, cpc, copy, hung, name>>
          /\ name[h] \in Files /\ name[h] \in Served /\ sent[h] < Blocks[name[h]]
          /\ Blocks[name[h]] \in Nat /\ Live(s) /\ sent[h] \in Nat
      BY <1>0, <1>3, BlocksAssumption DEF SendBlock, FileTypeOK, Served, Live
    <3>2. /\ ~hung[s] /\ cpc[s] # "connect" /\ at[s] \in 1..Len(Plan)
          /\ name[h] = Plan[at[s]] /\ UnderWay(s) = FirstBlocks(name[h], sent[h])
      <4>1. ~hung[s] /\ cpc[s] # "connect"
        BY <1>0, <3>1 DEF ConnInv, HandlersApart, NotInUse, Live
      <4>2. at[s] \in 1..Len(Plan)
        BY <1>0, <3>1, <4>1 DEF TransferInv, CopierData
      <4> QED BY <1>0, <3>1, <4>1, <4>2 DEF TransferInv, HandlerData, UnderWay
    <3>3. UnderWay(s)' = FirstBlocks(name[h], sent[h] + 1)
      <4>1. /\ copy[s][at[s]] \in Seq(Files \X Nat) /\ wire[s] \in Seq(Files \X Nat)
            /\ <<name[h], sent[h] + 1>> \in Files \X Nat
        BY <1>0, <3>1, <3>2
      <4>2. copy[s][at[s]] \o Append(wire[s], <<name[h], sent[h] + 1>>)
            = Append(copy[s][at[s]] \o wire[s], <<name[h], sent[h] + 1>>)
        BY ZenonT(60), <4>1, AddLast
      <4>3. UnderWay(s)' = copy[s][at[s]] \o Append(wire[s], <<name[h], sent[h] + 1>>)
        BY <3>1 DEF UnderWay
      <4>4. FirstBlocks(name[h], sent[h] + 1) = Append(UnderWay(s), <<name[h], sent[h] + 1>>)
        BY <3>1, <3>2, FirstBlocksSeq
      <4> QED BY <4>2, <4>3, <4>4 DEF UnderWay
    <3>4. Beginning(name[h], UnderWay(s)')
      BY <3>1, <3>3 DEF Beginning
    <3> QED BY <1>0, <3>1, <3>2, <3>4 DEF CopierPrefix, Live
  <2> QED BY <2>1, <2>2, <2>3 DEF PrefixInv
<1>4. CASE CloseSocket(h, next)
  <2>1. AllSent'
    BY <1>0, <1>4 DEF CloseSocket, PrefixInv, AllSent
  <2>2. ASSUME NEW d \in Copiers, d # s PROVE CopierPrefix(d)'
    <3>1. hung'[d] = hung[d]
      BY <1>0, <1>4, <2>2 DEF CloseSocket
    <3> QED BY <1>4, <3>1, OtherPrefix DEF CloseSocket, PrefixInv
  <2>3. CopierPrefix(s)'
    <3>1. /\ hpc[h] = "close" /\ server = "up"
          /\ UNCHANGED <<server, client, at, cpc, copy, wire>>
      BY <1>4 DEF CloseSocket
    <3>2. Live(s) => All(Plan[at[s]], UnderWay(s))
      <4>1. name[h] \in Served /\ sent[h] = Blocks[name[h]]
        BY <3>1 DEF PrefixInv, AllSent
      <4>2. Live(s) => name[h] = Plan[at[s]] /\ UnderWay(s) = FirstBlocks(name[h], sent[h])
        BY <1>0, <3>1 DEF TransferInv, HandlerData, UnderWay
      <4> QED BY <4>1, <4>2 DEF All
    <3> QED BY <1>0, <3>1, <3>2 DEF CopierPrefix, Live, UnderWay
  <2> QED BY <2>1, <2>2, <2>3 DEF PrefixInv
<1> QED BY <1>1, <1>2, <1>3, <1>4 DEF HandleRequest

-----------------------------------------------------------------------------
(* Every step is a step of the copying service or does not concern it.     *)

ServiceStep == [Service!Next]_(Service!vars)

LEMMA ExitImplements ==
    ASSUME FileTypeOK, NEW p \in Clients, client[p] = "running",
           NEW how \in {"failed", "killed"}, Exit(p, how), UNCHANGED <<server, at, copy, missed>>
    PROVE  ServiceStep
<1>1. {q \in Clients : client'[q] = "running"} = {q \in Clients : client[q] = "running"} \ {p}
  BY DEF Exit, FileTypeOK
<1>2. Service!ClientStops(p)
  BY <1>1 DEF Service!ClientStops
<1> QED BY <1>2 DEF ServiceStep, Service!Next

\* What is received next lies behind what has been received.
LEMMA FirstOfSecond ==
    ASSUME NEW a \in Seq(Files \X Nat), NEW b \in Seq(Files \X Nat), b # <<>>
    PROVE  /\ Len(a \o b) = Len(a) + Len(b) /\ Len(a) \in Nat /\ Len(b) \in Nat \ {0}
           /\ (a \o b)[Len(a) + 1] = Head(b) /\ a \o b # <<>>
OBVIOUS

LEMMA CopierImplements ==
    ASSUME FileTypeOK, PrefixInv, NEW c \in Copiers, CopierStep(c)
    PROVE  ServiceStep
<1> USE DEF CopierAt, CopierGoto
<1>0. /\ at \in [Copiers -> 1..Len(Plan)+1] /\ Len(Plan) \in Nat
      /\ wire \in [Copiers -> Seq(Files \X Nat)] /\ c[1] \in Clients
      /\ copy \in [Copiers -> [1..Len(Plan) -> Seq(Files \X Nat)]]
      /\ CopierPrefix(c) /\ c \in Service!Copiers
  BY PlanAssumption DEF FileTypeOK, PrefixInv, Copiers, Service!Copiers
<1>1. CASE ConnectRefused(c) \/ RequestFails(c)
  BY <1>0, <1>1, ExitImplements DEF ConnectRefused, RequestFails
<1>2. CASE Connect(c)
  BY <1>2 DEF Connect, ServiceStep, Service!vars
<1>5. CASE Request(c)
  <2>1. /\ at[c] <= Len(Plan) /\ client[c[1]] = "running" /\ cpc[c] = "request"
        /\ UNCHANGED <<server, client, at, copy>>
        /\ UNCHANGED missed \/ missed' = [missed EXCEPT ![c] = @ \cup {0}]
    BY <1>5 DEF Request, LocalCall
  <2>2. CASE UNCHANGED missed
    BY <2>1, <2>2 DEF ServiceStep, Service!vars
  <2>3. CASE missed' = [missed EXCEPT ![c] = @ \cup {0}]
    <3>1. copy[c][at[c]] = <<>>
      BY <1>0, <2>1 DEF CopierPrefix
    <3>2. Service!LocalOpenFails(c)
      BY <1>0, <2>1, <2>3, <3>1 DEF Service!LocalOpenFails, Service!Active
    <3> QED BY <1>0, <3>2 DEF ServiceStep, Service!Next
  <2> QED BY <2>1, <2>2, <2>3
<1>3. CASE Receive(c)
  <2> DEFINE f == Plan[at[c]]  got == copy[c][at[c]]
  <2>1. /\ at[c] \in 1..Len(Plan) /\ wire[c] # <<>> /\ client[c[1]] = "running"
        /\ copy' = [copy EXCEPT ![c][at[c]] = Append(@, Head(wire[c]))]
        /\ UNCHANGED <<server, client, at>>
    BY <1>0, <1>3 DEF Receive
  <2>2. got \in Seq(Files \X Nat) /\ wire[c] \in Seq(Files \X Nat)
    BY <1>0, <2>1
  <2>3. /\ Len(got \o wire[c]) = Len(got) + Len(wire[c]) /\ Len(got) \in Nat
        /\ Len(wire[c]) \in Nat \ {0} /\ (got \o wire[c])[Len(got) + 1] = Head(wire[c])
    BY <2>1, <2>2, FirstOfSecond
  <2>4. Beginning(f, got \o wire[c])
    BY <1>0, <2>1 DEF CopierPrefix, UnderWay
  <2>5. PICK n \in 1..Blocks[f] : got \o wire[c] = FirstBlocks(f, n)
    <3>1. got \o wire[c] # <<>>
      BY <2>3
    <3> QED BY <2>4, <3>1 DEF Beginning
  <2>6. f \in Served /\ Blocks[f] \in Nat
    <3>1. got \o wire[c] # <<>>
      BY <2>3
    <3> QED BY <2>4, <3>1, BlocksAssumption DEF Beginning, Served
  <2>7. Len(FirstBlocks(f, n)) = n /\ \A k \in 1..n : FirstBlocks(f, n)[k] = <<f, k>>
    BY <2>5, <2>6 DEF FirstBlocks
  <2>8. Len(got) < Blocks[f] /\ Head(wire[c]) = <<f, Len(got) + 1>>
    <3>1. Len(got) + Len(wire[c]) = n
      BY <2>3, <2>5, <2>7
    <3>2. Len(got) + 1 \in 1..n /\ Len(got) < Blocks[f]
      <4>1. n \in Int /\ n <= Blocks[f]
        BY <2>5, <2>6
      <4>2. Len(got) \in Nat /\ Len(wire[c]) \in Nat \ {0}
        BY <2>3
      <4> HIDE DEF f, got
      <4> QED BY <2>6, <3>1, <4>1, <4>2
    <3> QED BY <2>3, <2>5, <2>7, <3>2
  <2>9. Service!Contents(f)[Len(got) + 1] = <<f, Len(got) + 1>>
    BY SMTT(30), <2>3, <2>6, <2>8 DEF Service!Contents
  <2>10. Service!Active(c) /\ f \in Service!Served
    BY <1>0, <2>1, <2>6 DEF Service!Active, Service!Served, Served
  <2>11. copy' = [copy EXCEPT ![c][at[c]] =
                     Append(@, Service!Contents(Plan[at[c]])[Len(@) + 1])]
    BY <1>0, <2>1, <2>8, <2>9
  <2>12. UNCHANGED <<server # "down", {p \in Clients : client[p] = "running"}, at>>
    BY <2>1
  <2>13. \/ UNCHANGED missed
         \/ 0 \notin missed[c] /\ missed' = [missed EXCEPT ![c] = @ \cup {Len(copy[c][at[c]]) + 1}]
    BY <1>3 DEF Receive, LocalCall
  <2>14. Service!Grow(c)
    BY <2>8, <2>10, <2>11, <2>12, <2>13 DEF Service!Grow
  <2> QED BY <1>0, <2>14 DEF ServiceStep, Service!Next
<1>4. CASE EndOfCopy(c)
  <2>1. /\ at[c] \in 1..Len(Plan) /\ wire[c] = <<>> /\ client[c[1]] = "running"
        /\ at' = [at EXCEPT ![c] = @ + 1] /\ cpc[c] = "receive" /\ PeerGone(c)
        /\ missed' = [missed EXCEPT ![c] = {}] /\ UNCHANGED <<server, client, copy>>
    BY <1>0, <1>4 DEF EndOfCopy
  <2>2. UnderWay(c) = copy[c][at[c]]
    BY <1>0, <2>1, ConcatEmptySeq DEF UnderWay
  <2>3. server # "down" => Service!Whole(Plan[at[c]], copy[c][at[c]])
    BY <1>0, <2>1, <2>2 DEF PeerGone, CopierPrefix, All, FirstBlocks, Service!Whole,
       Service!Served, Service!Contents, Served
  <2>4. Service!Advance(c)
    BY <1>0, <2>1, <2>3 DEF Service!Advance, Service!Active
  <2> QED BY <1>0, <2>4 DEF ServiceStep, Service!Next
<1> QED BY <1>1, <1>2, <1>3, <1>4, <1>5 DEF CopierStep

\* A step of the server alone: it stops, or the service takes no notice.
LEMMA ServerImplements ==
    ASSUME UNCHANGED <<client, at, copy, missed>>,
           server # "down" \/ UNCHANGED server
    PROVE  ServiceStep
BY DEF ServiceStep, Service!Next, Service!ServerStops, Service!vars

LEMMA HandlerImplements ==
    ASSUME NEW h \in Handlers, NEW next, HandleRequest(h, next)
    PROVE  ServiceStep
<1>1. UNCHANGED <<client, at, copy, missed>> /\ server = "up"
  BY DEF HandleRequest, ReadRequest, ReadNothing, OpenFails, OpenFile, SendBlock, SendLost,
         SendKills, EndOfFile, CloseSocket, ServerExits, HandlerAt, HandlerGoto, clientVars
<1> QED BY <1>1, ServerImplements

LEMMA InitImplements == FileInit => Service!Init
BY DEF FileInit, Service!Init, Copiers, Service!Copiers

LEMMA PrefixInit ==
    ASSUME FileInit, \A h \in Handlers : hpc[h] # "close"
    PROVE  PrefixInv
<1>1. Len(Plan) \in Nat
  BY PlanAssumption
<1> QED BY <1>1 DEF FileInit, PrefixInv, CopierPrefix, AllSent, Beginning, UnderWay
=============================================================================
