------------------------ MODULE LeaderFollowerProofs ------------------------
(***************************************************************************)
(* leader_mutex does its work for any number of server threads, whatever   *)
(* the clients do and whichever calls fail.                                *)
(***************************************************************************)
EXTENDS LeaderFollower, FileTransferProofs, TLAPS

\* What a thread may be about to do.
Labels == {"start", "lock", "accept", "unlock", "quit", "gone",
           "read", "open", "send", "close"}

\* OneLeader is inductive once hpc is known to be a function of the threads.
LeaderInv == hpc \in [Handlers -> Labels] /\ OneLeader

\* handle_request runs outside of the critical section, so it neither needs
\* nor disturbs the mutex.
LEMMA HandleKeepsLeader ==
    ASSUME NEW h \in Handlers, LeaderInv, Handle(h)
    PROVE  LeaderInv'
<1> USE DEF Handle, LeaderInv, OneLeader, Labels, HandlerAt, HandlerGoto,
            ServerExits, handlerVars, netVars, clientVars
<1>1. CASE ReadRequest(h)
  BY <1>1 DEF ReadRequest
<1>2. CASE ReadNothing(h)
  BY <1>2 DEF ReadNothing
<1>3. CASE OpenFails(h)
  BY <1>3 DEF OpenFails
<1>4. CASE OpenFile(h)
  BY <1>4 DEF OpenFile
<1>5. CASE SendBlock(h)
  BY <1>5 DEF SendBlock
<1>6. CASE SendLost(h)
  BY <1>6 DEF SendLost
<1>7. CASE SendKills(h)
  BY <1>7 DEF SendKills
<1>8. CASE EndOfFile(h)
  BY <1>8 DEF EndOfFile
<1>9. CASE CloseSocket(h, "lock")
  BY <1>9 DEF CloseSocket
<1> QED BY <1>1, <1>2, <1>3, <1>4, <1>5, <1>6, <1>7, <1>8, <1>9 DEF HandleRequest

\* Whatever a client does, the threads and their mutex stay as they are.
LEMMA ClientsKeepLeader ==
    ASSUME NEW c, LeaderInv, CopierStep(c), UNCHANGED leader
    PROVE  LeaderInv'
<1>1. UNCHANGED hpc
  BY DEF CopierStep, Connect, ConnectRefused, Request, RequestFails, Receive,
         EndOfCopy, handlerVars
<1> QED BY <1>1 DEF LeaderInv, OneLeader

\* A thread enters the critical section when nobody leads, and leaves it when
\* it is the leader itself.
LEMMA LeaderStep == LeaderInv /\ [Next]_vars => LeaderInv'
<1> SUFFICES ASSUME LeaderInv, [Next]_vars PROVE LeaderInv'
  OBVIOUS
<1>1. ASSUME NEW h \in Handlers, ThreadStep(h) PROVE LeaderInv'
  <2> USE LeaderAssumption DEF LeaderInv, OneLeader, Labels, HandlerAt, HandlerGoto
  <2>1. CASE Start(h)        BY <2>1 DEF Start
  <2>2. CASE Lock(h)         BY <2>2 DEF Lock
  <2>3. CASE Accept(h)       BY <2>3 DEF Accept
  <2>4. CASE AcceptFails(h)  BY <2>4 DEF AcceptFails
  <2>5. CASE Quit(h)         BY <2>5 DEF Quit
  <2>6. CASE Unlock(h)       BY <2>6 DEF Unlock
  <2>7. CASE Handle(h)       BY <2>7, HandleKeepsLeader
  <2> QED BY <1>1, <2>1, <2>2, <2>3, <2>4, <2>5, <2>6, <2>7 DEF ThreadStep
<1>2. CASE ListenStep
  BY <1>2 DEF ListenStep, Listen, LeaderInv, OneLeader, handlerVars
<1>3. CASE MainReturns
  BY <1>3 DEF MainReturns, ServerExits, LeaderInv, OneLeader, handlerVars
<1>4. CASE Alarm
  BY <1>4 DEF Alarm, TimeOut, ServerExits, LeaderInv, OneLeader, handlerVars
<1>5. ASSUME NEW c \in Copiers, CopierStep(c), UNCHANGED leader PROVE LeaderInv'
  BY <1>5, ClientsKeepLeader
<1>6. ASSUME NEW p \in Clients, Interrupt(p), UNCHANGED leader PROVE LeaderInv'
  BY <1>6 DEF Interrupt, LeaderInv, OneLeader, handlerVars
<1>7. CASE UNCHANGED vars
  BY <1>7 DEF vars, handlerVars, LeaderInv, OneLeader
<1> QED BY <1>1, <1>2, <1>3, <1>4, <1>5, <1>6, <1>7 DEF Next

\* One thread at a time is in accept(), and it is the one that holds
\* leader_mutex, also on the path of a failing accept() (lines 107-115).
THEOREM OneLeaderAlways == Spec => []OneLeader
<1>1. Init => LeaderInv
  BY LeaderAssumption DEF Init, LeaderInv, OneLeader, Labels
<1>2. LeaderInv /\ [Next]_vars => LeaderInv'
  BY LeaderStep
<1>3. LeaderInv => OneLeader
  BY DEF LeaderInv
<1> QED BY <1>1, <1>2, <1>3, PTL DEF Spec

-----------------------------------------------------------------------------
(* The threads and the connections.  There is no other place for one than  *)
(* the backlog and the threads: W = {}.                                    *)

\* A thread that handles a request has a connection to handle it on.
InHand == \A h \in Handlers :
    hpc[h] \in {"unlock", "read", "open", "send", "close"} => socket[h] # None

ThreadInv == TypeOK /\ ConnInv({}) /\ InHand

\* What accept_client_requests does outside of handle_request.
LEMMA LoopStep ==
    ASSUME ThreadInv, NEW h \in Handlers,
           Start(h) \/ Lock(h) \/ Accept(h) \/ AcceptFails(h) \/ Quit(h) \/ Unlock(h)
    PROVE  ThreadInv'
<1> USE DEF HandlerAt, HandlerGoto, clientVars, netVars
<1>1. CASE Accept(h)
  <2>1. /\ Head(backlog) \in Queued \cap Copiers /\ backlog' \in Seq(Copiers)
        /\ Queued' = Queued \ {Head(backlog)}
        /\ \A i, j \in 1..Len(backlog') : backlog'[i] = backlog'[j] => i = j
    BY <1>1, Dequeue DEF Accept, ThreadInv, TypeOK, ConnInv
  <2>2. /\ socket \in [Handlers -> Copiers \cup {None}]
        /\ socket' = [socket EXCEPT ![h] = Head(backlog)]
        /\ hung' = hung /\ cpc' = cpc /\ server' = server
    BY <1>1 DEF Accept, ThreadInv, TypeOK, FileTypeOK
  <2>3. TypeOK'
    BY <1>1, <2>1 DEF Accept, ThreadInv, TypeOK, FileTypeOK
  <2>4. HandlersApart({})'
    BY <2>1, <2>2 DEF ThreadInv, ConnInv, HandlersApart, QueuedOnce
  <2>5. QueuedOnce({})'
    BY <2>1, <2>2 DEF ThreadInv, ConnInv, QueuedOnce
  <2>6. NotInUse({})'
    BY <2>1, <2>2 DEF ThreadInv, ConnInv, NotInUse
  <2>7. InHand'
    BY <1>1, <2>1, <2>2, PlanAssumption DEF Accept, ThreadInv, InHand, TypeOK
  <2> QED BY <2>3, <2>4, <2>5, <2>6, <2>7 DEF ThreadInv, ConnInv
<1>2. CASE Start(h) \/ Lock(h) \/ AcceptFails(h) \/ Quit(h) \/ Unlock(h)
  <2>1. TypeOK'
    BY ZenonT(60), <1>2 DEF Start, Lock, AcceptFails, Quit, Unlock, ThreadInv, TypeOK, FileTypeOK
  <2>2. ConnInv({})'
    BY <1>2, ConnStays DEF Start, Lock, AcceptFails, Quit, Unlock, ThreadInv
  <2>3. InHand'
    BY <1>2 DEF Start, Lock, AcceptFails, Quit, Unlock, ThreadInv, TypeOK, InHand
  <2> QED BY <2>1, <2>2, <2>3 DEF ThreadInv
<1> QED BY <1>1, <1>2

LEMMA HandleStep ==
    ASSUME ThreadInv, NEW h \in Handlers, Handle(h)
    PROVE  ThreadInv'
<1> USE DEF HandlerAt, HandlerGoto
<1>1. hpc[h] \in {"read", "open", "send", "close"} /\ socket[h] # None
  BY DEF Handle, HandleRequest, ReadRequest, ReadNothing, OpenFails, OpenFile, SendBlock,
         SendLost, SendKills, EndOfFile, CloseSocket, ThreadInv, InHand
<1>2. FileTypeOK' /\ ConnInv({})'
  <2>1. /\ FileTypeOK /\ ConnInv({}) /\ HandleRequest(h, "lock")
        /\ hpc \in [Handlers -> Labels] /\ "lock" # "send"
    BY DEF Handle, ThreadInv, TypeOK, Labels
  <2>2. FileTypeOK'
    BY <1>1, <2>1, HandlerTypes
  <2>3. ConnInv({})'
    BY <1>1, <2>1, HandlerConns
  <2> QED BY <2>2, <2>3
<1>3. \/ UNCHANGED <<hpc, socket>>
      \/ \E to \in {"open", "send", "close"} : hpc' = [hpc EXCEPT ![h] = to] /\ UNCHANGED socket
      \/ hpc' = [hpc EXCEPT ![h] = "lock"] /\ socket' = [socket EXCEPT ![h] = None]
  BY DEF Handle, HandleRequest, ReadRequest, ReadNothing, OpenFails, OpenFile, SendBlock,
         SendLost, SendKills, EndOfFile, CloseSocket, ServerExits, handlerVars
<1>4. hpc' \in [Handlers -> Labels] /\ InHand'
  <2>1. hpc \in [Handlers -> Labels] /\ socket \in [Handlers -> Copiers \cup {None}] /\ InHand
    BY DEF ThreadInv, TypeOK, FileTypeOK, Labels
  <2>2. CASE UNCHANGED <<hpc, socket>>
    BY <2>1, <2>2 DEF InHand
  <2>3. ASSUME NEW to \in {"open", "send", "close"},
               hpc' = [hpc EXCEPT ![h] = to], UNCHANGED socket
        PROVE  hpc' \in [Handlers -> Labels] /\ InHand'
    BY <1>1, <2>1, <2>3 DEF InHand, Labels
  <2>4. CASE hpc' = [hpc EXCEPT ![h] = "lock"] /\ socket' = [socket EXCEPT ![h] = None]
    BY <2>1, <2>4 DEF InHand, Labels
  <2> QED BY <1>3, <2>2, <2>3, <2>4
<1> QED BY <1>2, <1>4 DEF ThreadInv, TypeOK, Handle, Labels

LEMMA ThreadInvStep == ThreadInv /\ [Next]_vars => ThreadInv'
<1> SUFFICES ASSUME ThreadInv, [Next]_vars PROVE ThreadInv'
  OBVIOUS
<1>1. ASSUME NEW h \in Handlers, ThreadStep(h) PROVE ThreadInv'
  BY <1>1, LoopStep, HandleStep DEF ThreadStep
<1>2. CASE ListenStep \/ MainReturns \/ Alarm
  <2>1. /\ server' \in {"starting", "up", "down"} /\ armed' \in BOOLEAN
        /\ UNCHANGED <<clientVars, netVars, handlerVars, leader>>
        /\ server # "down"
    BY <1>2 DEF ListenStep, Listen, MainReturns, Alarm, TimeOut, ServerExits, ThreadInv,
               TypeOK, FileTypeOK
  <2>2. FileTypeOK'
    BY <2>1, ServerTypes DEF ThreadInv, TypeOK
  <2>3. ConnInv({})'
    BY <2>1, ConnStays DEF ThreadInv, clientVars, netVars, handlerVars
  <2> QED BY <2>1, <2>2, <2>3 DEF ThreadInv, TypeOK, InHand, handlerVars
<1>3. ASSUME NEW c \in Copiers, CopierStep(c), UNCHANGED leader PROVE ThreadInv'
  <2>1. UNCHANGED handlerVars
    BY <1>3 DEF CopierStep, Connect, ConnectRefused, Request, RequestFails, Receive, EndOfCopy
  <2> QED BY <1>3, <2>1, CopierTypes, CopierConns DEF ThreadInv, TypeOK, InHand, handlerVars
<1>4. ASSUME NEW p \in Clients, Interrupt(p), UNCHANGED leader PROVE ThreadInv'
  <2>1. FileTypeOK'
    BY <1>4, ExitTypes DEF Interrupt, ThreadInv, TypeOK
  <2>2. ConnInv({})'
    BY <1>4, ConnStays DEF Interrupt, ThreadInv, handlerVars
  <2> QED BY <1>4, <2>1, <2>2 DEF Interrupt, ThreadInv, TypeOK, InHand, handlerVars
<1>5. CASE UNCHANGED vars
  <2>1. ConnInv({})'
    BY <1>5, ConnStays DEF vars, netVars, clientVars, handlerVars, ThreadInv
  <2> QED BY <1>5, <2>1 DEF vars, netVars, clientVars, handlerVars, ThreadInv, TypeOK,
                            FileTypeOK, InHand
<1> QED BY <1>1, <1>2, <1>3, <1>4, <1>5 DEF Next

LEMMA ThreadInvInit == Init => ThreadInv
<1> SUFFICES ASSUME Init PROVE ThreadInv
  OBVIOUS
<1> USE DEF Init, FileInit
<1>1. FileTypeOK
  <2>1. /\ Len(Plan) \in Nat /\ 1 \in 1..Len(Plan)+1
        /\ <<>> \in Seq(Files \X Nat) /\ <<>> \in Seq(Copiers)
    BY PlanAssumption
  <2> QED BY <2>1 DEF FileTypeOK
<1>2. TypeOK
  BY <1>1 DEF TypeOK
<1>3. ConnInv({})
  BY PlanAssumption DEF ConnInv, HandlersApart, QueuedOnce, NotInUse, Queued
<1>4. InHand
  BY DEF InHand
<1> QED BY <1>2, <1>3, <1>4 DEF ThreadInv

\* The variables of server and clients keep their types, whichever calls fail
\* and whichever client leaves (client.c 42-138, leader_follower_server.c).
THEOREM TypeCorrect == Spec => []TypeOK
<1>1. ThreadInv => TypeOK
  BY DEF ThreadInv
<1> QED BY <1>1, ThreadInvInit, ThreadInvStep, PTL DEF Spec

\* A connection accept() returned belongs to one thread: no other thread has
\* it, it does not wait in the backlog any more, and it is not closed before
\* this thread closes it (lines 107-115 and 54-83).
THEOREM OneHandlerEachAlways == Spec => []OneHandlerEach
<1>1. ThreadInv => OneHandlerEach
  BY DEF ThreadInv, ConnInv, HandlersApart, OneHandlerEach, Queued
<1> QED BY <1>1, ThreadInvInit, ThreadInvStep, PTL DEF Spec

-----------------------------------------------------------------------------
(* What the threads have sent.                                             *)

DataInv == ThreadInv /\ TransferInv({})

LEMMA LoopData ==
    ASSUME DataInv, NEW h \in Handlers,
           Start(h) \/ Lock(h) \/ Accept(h) \/ AcceptFails(h) \/ Quit(h) \/ Unlock(h)
    PROVE  TransferInv({})'
<1> USE DEF HandlerAt, HandlerGoto, clientVars, netVars
<1>0. /\ hpc \in [Handlers -> Labels] /\ socket \in [Handlers -> Copiers \cup {None}]
  BY DEF DataInv, ThreadInv, TypeOK, FileTypeOK, Labels
<1>1. /\ UNCHANGED <<server, client, at, cpc, copy, missed, asked, wire, name, sent>>
      /\ \A g \in Handlers : g # h => hpc'[g] = hpc[g] /\ socket'[g] = socket[g]
      /\ Queued' \subseteq Queued
      /\ \/ hpc'[h] \in {"lock", "accept", "quit", "gone"}
         \/ hpc'[h] = "unlock" /\ socket'[h] \in Queued
         \/ hpc'[h] = "read" /\ hpc[h] = "unlock" /\ socket'[h] = socket[h]
  <2>1. CASE Accept(h)
    <3>1. Head(backlog) \in Queued /\ Queued' \subseteq Queued
      BY <2>1, Dequeue DEF Accept, DataInv, ThreadInv, TypeOK, ConnInv
    <3> QED BY <1>0, <2>1, <3>1 DEF Accept
  <2>2. CASE Start(h) \/ Lock(h) \/ AcceptFails(h) \/ Quit(h) \/ Unlock(h)
    BY <1>0, <2>2 DEF Start, Lock, AcceptFails, Quit, Unlock, Queued
  <2> QED BY <2>1, <2>2
<1>2. \A d : (Live(d)' <=> Live(d)) /\ (Clean(d)' <=> Clean(d))
  BY <1>1 DEF Live, Clean
<1>3. CopierData'
  BY <1>1, <1>2 DEF DataInv, TransferInv, CopierData
<1>4. WaitingData({})'
  BY <1>1, <1>2 DEF DataInv, TransferInv, WaitingData
<1>5. HandlerData'
  BY <1>1, <1>2 DEF DataInv, TransferInv, WaitingData, HandlerData
<1> QED BY <1>3, <1>4, <1>5 DEF TransferInv

LEMMA DataInvStep == DataInv /\ [Next]_vars => DataInv'
<1> SUFFICES ASSUME DataInv, [Next]_vars PROVE TransferInv({})'
  BY ThreadInvStep DEF DataInv
<1>0. FileTypeOK /\ ConnInv({}) /\ TransferInv({}) /\ {} \subseteq Copiers
  BY DEF DataInv, ThreadInv, TypeOK
<1>1. ASSUME NEW h \in Handlers, Handle(h) PROVE TransferInv({})'
  <2>1. /\ hpc[h] \in {"read", "open", "send", "close"} /\ HandleRequest(h, "lock")
        /\ hpc \in [Handlers -> Labels]
    BY <1>1 DEF Handle, HandleRequest, ReadRequest, ReadNothing, OpenFails, OpenFile,
                SendBlock, SendLost, SendKills, EndOfFile, CloseSocket, HandlerAt,
                HandlerGoto, DataInv, ThreadInv, TypeOK, Labels
  <2>2. socket[h] # None /\ "lock" \in {"lock", "exited", "test"}
    BY <2>1 DEF DataInv, ThreadInv, InHand
  <2> QED BY <1>0, <2>1, <2>2, HandlerMoves
<1>2. ASSUME NEW h \in Handlers, ThreadStep(h), ~Handle(h) PROVE TransferInv({})'
  BY <1>2, LoopData DEF ThreadStep
<1>3. CASE ListenStep \/ MainReturns \/ Alarm
  BY <1>0, <1>3, DataStays DEF ListenStep, Listen, MainReturns, Alarm, TimeOut, ServerExits
<1>4. ASSUME NEW c \in Copiers, CopierStep(c) PROVE TransferInv({})'
  BY <1>0, <1>4, CopierMoves
<1>5. ASSUME NEW p \in Clients, Interrupt(p) PROVE TransferInv({})'
  BY <1>0, <1>5, ExitData DEF Interrupt
<1>6. CASE UNCHANGED vars
  BY <1>0, <1>6, DataStays DEF vars
<1> QED BY <1>1, <1>2, <1>3, <1>4, <1>5, <1>6 DEF Next, ThreadStep

LEMMA DataInvInit == Init => DataInv
<1> SUFFICES ASSUME Init PROVE TransferInv({})
  BY ThreadInvInit DEF DataInv
<1>1. Len(Plan) \in Nat
  BY PlanAssumption
<1> QED BY <1>1 DEF Init, FileInit, TransferInv, CopierData, WaitingData, HandlerData, Clean,
                    Queued

\* What a thread has sent is, in order and without a gap, what the client has
\* read for its file followed by what is on the way, and it is of the file the
\* client asked for, also while the client's own open() or write() fail and
\* keep some of it from the file, which is what missed says: no other thread
\* writes on the connection, and one used again holds nothing of its last file
\* (lines 54-83, client.c 69-116).
THEOREM NothingLostOrRepeatedAlways == Spec => []NothingLostOrRepeated
<1>1. DataInv => NothingLostOrRepeated
  BY DEF DataInv, ThreadInv, TransferInv, HandlerData, NothingLostOrRepeated, Connected, Live,
         FirstBlocks
<1> QED BY <1>1, DataInvInit, DataInvStep, PTL DEF Spec

-----------------------------------------------------------------------------
(* The server and its clients, and the copying service.                    *)

LEMMA LoopKeepsPrefix ==
    ASSUME DataInv, PrefixInv, NEW h \in Handlers,
           Start(h) \/ Lock(h) \/ Accept(h) \/ AcceptFails(h) \/ Quit(h) \/ Unlock(h)
    PROVE  PrefixInv' /\ ServiceStep
<1> USE DEF HandlerAt, HandlerGoto, clientVars, netVars
<1>1. hpc \in [Handlers -> Labels]
  BY DEF DataInv, ThreadInv, TypeOK, Labels
<1>2. /\ UNCHANGED <<server, client, at, cpc, copy, missed, wire, hung, name, sent>>
      /\ \A g \in Handlers : hpc'[g] = "close" => hpc[g] = "close"
  BY <1>1 DEF Start, Lock, Accept, AcceptFails, Quit, Unlock
<1>3. AllSent'
  BY <1>2 DEF PrefixInv, AllSent
<1>4. \A c \in Copiers : CopierPrefix(c)'
  BY <1>2, OtherPrefix DEF PrefixInv
<1> QED BY <1>2, <1>3, <1>4, ServerImplements DEF PrefixInv

LEMMA StepImplements ==
    DataInv /\ PrefixInv /\ [Next]_vars => PrefixInv' /\ ServiceStep
<1> SUFFICES ASSUME DataInv, PrefixInv, [Next]_vars PROVE PrefixInv' /\ ServiceStep
  OBVIOUS
<1>0. FileTypeOK /\ ConnInv({}) /\ TransferInv({}) /\ {} \subseteq Copiers
  BY DEF DataInv, ThreadInv, TypeOK
<1>1. ASSUME NEW h \in Handlers, Handle(h) PROVE PrefixInv' /\ ServiceStep
  <2>1. /\ hpc[h] \in {"read", "open", "send", "close"} /\ HandleRequest(h, "lock")
        /\ hpc \in [Handlers -> Labels]
    BY <1>1 DEF Handle, HandleRequest, ReadRequest, ReadNothing, OpenFails, OpenFile,
                SendBlock, SendLost, SendKills, EndOfFile, CloseSocket, HandlerAt,
                HandlerGoto, DataInv, ThreadInv, TypeOK, Labels
  <2>2. socket[h] # None /\ "lock" \in {"lock", "exited", "test"}
    BY <2>1 DEF DataInv, ThreadInv, InHand
  <2>3. PrefixInv'
    BY <1>0, <2>1, <2>2, HandlerKeepsPrefix
  <2> QED BY <2>1, <2>3, HandlerImplements
<1>2. ASSUME NEW h \in Handlers, ThreadStep(h), ~Handle(h) PROVE PrefixInv' /\ ServiceStep
  BY <1>2, LoopKeepsPrefix DEF ThreadStep
<1>3. CASE ListenStep \/ MainReturns \/ Alarm
  <2>1. server # "down" /\ UNCHANGED <<clientVars, netVars, handlerVars>>
    BY <1>3 DEF ListenStep, Listen, MainReturns, Alarm, TimeOut, ServerExits
  <2>2. PrefixInv'
    BY <1>3, <2>1, PrefixStays
  <2> QED BY <2>1, <2>2, ServerImplements DEF clientVars
<1>4. ASSUME NEW c \in Copiers, CopierStep(c) PROVE PrefixInv' /\ ServiceStep
  BY <1>0, <1>4, CopierKeepsPrefix, CopierImplements
<1>5. ASSUME NEW p \in Clients, Interrupt(p) PROVE PrefixInv' /\ ServiceStep
  BY <1>0, <1>5, ExitPrefix, ExitImplements DEF Interrupt
<1>6. CASE UNCHANGED vars
  <2>1. PrefixInv'
    <3>1. AllSent'
      BY <1>6 DEF vars, handlerVars, PrefixInv, AllSent
    <3>2. \A c \in Copiers : CopierPrefix(c)'
      BY <1>6, OtherPrefix DEF vars, clientVars, netVars, PrefixInv
    <3> QED BY <3>1, <3>2 DEF PrefixInv
  <2> QED BY <1>6, <2>1, ServerImplements DEF vars, clientVars
<1> QED BY <1>1, <1>2, <1>3, <1>4, <1>5, <1>6 DEF Next, ThreadStep

\* Every step of server and clients is a step of the copying service, or one
\* it takes no notice of: what a client reads grows block by block out of the
\* file that was asked for, all of it but what its own open() or write() loses
\* goes to the local file, and a thread stops reading before the end only after
\* the server has ended (leader_follower_server.c 54-121, client.c 42-138).
THEOREM StepsImplementCopyService == Spec => StepsOfService
<1>1. Init => DataInv /\ PrefixInv /\ Service!Init
  BY DataInvInit, PrefixInit, InitImplements DEF Init
<1>2. DataInv /\ PrefixInv /\ [Next]_vars => (DataInv /\ PrefixInv)' /\ ServiceStep
  BY DataInvStep, StepImplements
<1> QED BY <1>1, <1>2, PTL DEF Spec, StepsOfService, ServiceStep
=============================================================================
