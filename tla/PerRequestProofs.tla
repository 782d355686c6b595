-------------------------- MODULE PerRequestProofs --------------------------
(***************************************************************************)
(* The thread-per-request server with any number of clients, files and     *)
(* elements of thread_array: it is serial, no connection is lost between   *)
(* main and its threads, and its steps are steps of the copying service.   *)
(***************************************************************************)
EXTENDS PerRequest, FileTransferProofs, FiniteSetTheorems, TLAPS

Labels == {"unborn", "read", "open", "send", "close", "exited"}

\* What main has accepted and not yet given to a thread.
Held == {conn} \ {None}

\* What main is about to do says whether it holds a connection; a thread that
\* handles a request has one.
MainInv ==
    /\ conn # None <=> mpc = "create"
    /\ \A h \in Handlers : Alive(h) => socket[h] # None

ThreadInv == TypeOK /\ OneThreadAtATime /\ MainInv /\ ConnInv(Held) /\ TransferInv(Held) /\ PrefixInv

\* Held is a set that does not change while conn does not.
LEMMA HeldStays ==
    ASSUME NEW W, W = Held, UNCHANGED conn
    PROVE  /\ ConnInv(Held) <=> ConnInv(W)
           /\ ConnInv(W)' => ConnInv(Held)'
           /\ TransferInv(Held) <=> TransferInv(W)
           /\ TransferInv(W)' => TransferInv(Held)'
<1>1. Held' = W
  BY DEF Held
<1>2. ConnInv(W)' => ConnInv(Held)'
  BY <1>1 DEF ConnInv, HandlersApart, QueuedOnce, NotInUse
<1>3. TransferInv(W)' => TransferInv(Held)'
  BY <1>1 DEF TransferInv, WaitingData
<1>4. ConnInv(Held) <=> ConnInv(W)
  BY DEF ConnInv, HandlersApart, QueuedOnce, NotInUse
<1>5. TransferInv(Held) <=> TransferInv(W)
  BY DEF TransferInv, WaitingData
<1> QED BY <1>2, <1>3, <1>4, <1>5

\* The steps of main that leave the threads and the connections alone.
LEMMA MainQuiet ==
    ASSUME ThreadInv, Arm \/ Join
    PROVE  ThreadInv' /\ ServiceStep
<1> USE DEF MainGoto, clientVars, netVars, handlerVars
<1>1. /\ UNCHANGED <<server, clientVars, netVars, handlerVars, conn>> /\ server = "up"
      /\ armed' \in BOOLEAN /\ mpc' = "accept" /\ mpc \in {"arm", "join"} /\ threadCount' \in Nat
      /\ mpc = "join" => hpc[threadCount] = "exited"
  <2>0. armed \in BOOLEAN /\ threadCount \in Nat
    BY DEF ThreadInv, TypeOK, FileTypeOK
  <2>1. CASE Arm   BY <2>0, <2>1 DEF Arm
  <2>2. CASE Join  BY <2>0, <2>2 DEF Join
  <2> QED BY <2>1, <2>2
<1>2. TypeOK'
  BY <1>1, ServerTypes DEF ThreadInv, TypeOK, FileTypeOK
<1>3. \A h \in Handlers : ~Alive(h)
  BY <1>1 DEF ThreadInv, OneThreadAtATime, Alive
<1>4. OneThreadAtATime' /\ MainInv'
  BY <1>1, <1>3 DEF ThreadInv, OneThreadAtATime, MainInv, Alive
<1>5. PICK W : W = Held
  OBVIOUS
<1>6. ConnInv(W)'
  BY <1>1, <1>5, HeldStays, ConnStays DEF ThreadInv
<1>7. TransferInv(W)'
  BY <1>1, <1>5, HeldStays, DataStays DEF ThreadInv
<1>8. PrefixInv'
  BY <1>1, PrefixStays DEF ThreadInv
<1>9. ConnInv(Held)' /\ TransferInv(Held)'
  BY <1>1, <1>5, <1>6, <1>7, HeldStays
<1> QED BY <1>1, <1>2, <1>4, <1>8, <1>9, ServerImplements DEF ThreadInv

LEMMA AcceptStep ==
    ASSUME ThreadInv, Accept
    PROVE  ThreadInv' /\ ServiceStep
<1> USE DEF MainGoto, clientVars, netVars, handlerVars
<1> PICK c : c = Head(backlog)
  OBVIOUS
<1>1. c \in Queued \cap Copiers /\ backlog' \in Seq(Copiers) /\ Queued' = Queued \ {c}
      /\ \A i, j \in 1..Len(backlog') : backlog'[i] = backlog'[j] => i = j
  BY Dequeue DEF Accept, ThreadInv, TypeOK, ConnInv
<1>2. /\ UNCHANGED <<server, client, at, cpc, copy, missed, asked, wire, hung, hpc, socket, name, sent,
                     threadCount>>
      /\ armed' = TRUE /\ server = "up" /\ mpc = "accept" /\ mpc' = "create" /\ conn' = c
  BY DEF Accept
<1>3. Held = {} /\ Held' = {c} /\ c # None
  BY <1>1, <1>2, PlanAssumption DEF Held, ThreadInv, MainInv
<1>4. TypeOK'
  BY <1>1, <1>2 DEF ThreadInv, TypeOK, FileTypeOK
<1>5. OneThreadAtATime' /\ MainInv'
  BY <1>2, <1>3 DEF ThreadInv, OneThreadAtATime, MainInv, Alive
<1>6. ConnInv(Held)'
  <2>1. HandlersApart(Held)'
    BY <1>1, <1>2, <1>3 DEF ThreadInv, ConnInv, HandlersApart
  <2>2. QueuedOnce(Held)'
    BY <1>1, <1>2, <1>3 DEF ThreadInv, ConnInv, QueuedOnce
  <2>3. NotInUse(Held)'
    BY <1>1, <1>2, <1>3 DEF ThreadInv, ConnInv, NotInUse
  <2> QED BY <2>1, <2>2, <2>3 DEF ConnInv
<1>7. TransferInv(Held)'
  BY ZenonT(60), <1>1, <1>2, <1>3 DEF ThreadInv, TransferInv, CopierData, WaitingData, HandlerData, Live, Clean
<1>8. PrefixInv'
  <2>1. \A d \in Copiers : CopierPrefix(d)'
    BY <1>2, OtherPrefix DEF ThreadInv, PrefixInv
  <2> QED BY <1>2, <2>1 DEF ThreadInv, PrefixInv, AllSent
<1> QED BY <1>2, <1>4, <1>5, <1>6, <1>7, <1>8, ServerImplements DEF ThreadInv

\* The connection goes from main to the one thread there is.
LEMMA CreateStep ==
    ASSUME ThreadInv, Create
    PROVE  ThreadInv' /\ ServiceStep
<1> USE DEF MainGoto, clientVars, netVars
<1> PICK c, n : c = conn /\ n = threadCount
  OBVIOUS
<1>1. /\ n \in Handlers /\ c \in Copiers /\ c # None /\ conn' = None
      /\ hpc \in [Handlers -> Labels] /\ hpc' = [hpc EXCEPT ![n] = "read"]
      /\ socket \in [Handlers -> Copiers \cup {None}] /\ socket' = [socket EXCEPT ![n] = c]
      /\ mpc = "create" /\ mpc' = "join" /\ server = "up" /\ threadCount' = n
      /\ UNCHANGED <<server, armed, client, at, cpc, copy, missed, asked, backlog, wire, hung, name, sent>>
  BY DEF Create, ThreadInv, TypeOK, FileTypeOK, MainInv, Labels
<1>2. Held = {c} /\ Held' = {} /\ Queued' = Queued
  BY <1>1 DEF Held, Queued
<1>3. TypeOK'
  <2>1. hpc' \in [Handlers -> Labels] /\ socket' \in [Handlers -> Copiers \cup {None}]
    BY <1>1 DEF Labels
  <2>2. \A h \in Handlers : hpc'[h] = "send" => hpc[h] = "send"
    BY <1>1
  <2> QED BY <1>1, <2>1, <2>2 DEF ThreadInv, TypeOK, FileTypeOK, Labels
<1>4. OneThreadAtATime' /\ MainInv'
  BY <1>1 DEF ThreadInv, OneThreadAtATime, MainInv, Alive
<1>5. ConnInv(Held)'
  <2>1. HandlersApart(Held)'
    BY <1>1, <1>2 DEF ThreadInv, ConnInv, HandlersApart, QueuedOnce
  <2>2. QueuedOnce(Held)'
    BY <1>1, <1>2 DEF ThreadInv, ConnInv, QueuedOnce
  <2>3. NotInUse(Held)'
    BY <1>1, <1>2 DEF ThreadInv, ConnInv, NotInUse
  <2> QED BY <2>1, <2>2, <2>3 DEF ConnInv
<1>6. TransferInv(Held)'
  <2>1. \A d : (Live(d)' <=> Live(d)) /\ (Clean(d)' <=> Clean(d))
    BY <1>1 DEF Live, Clean
  <2>2. CopierData'
    BY <1>1, <2>1 DEF ThreadInv, TransferInv, CopierData
  <2>3. WaitingData(Held)'
    BY <1>2, <2>1 DEF ThreadInv, TransferInv, WaitingData
  <2>4. HandlerData'
    <3> SUFFICES ASSUME NEW h \in Handlers, socket'[h] # None, Live(socket'[h])
                 PROVE  /\ hpc'[h] \in {"unlock", "read", "open"} => Clean(socket'[h])
                        /\ hpc'[h] \in {"open", "send", "close"} =>
                              name[h] = Plan[at[socket'[h]]]
                        /\ hpc'[h] \in {"send", "close"} =>
                              copy[socket'[h]][at[socket'[h]]] \o wire[socket'[h]]
                              = FirstBlocks(name[h], sent[h])
      BY <1>1, <2>1 DEF HandlerData, Live, Clean
    <3>1. CASE h = n
      BY <1>1, <1>2, <3>1 DEF ThreadInv, TransferInv, WaitingData
    <3>2. CASE h # n
      BY <1>1, <3>2 DEF ThreadInv, TransferInv, HandlerData
    <3> QED BY <3>1, <3>2
  <2> QED BY <2>2, <2>3, <2>4 DEF TransferInv
<1>7. PrefixInv'
  <2>1. \A d \in Copiers : CopierPrefix(d)'
    BY <1>1, OtherPrefix DEF ThreadInv, PrefixInv
  <2> QED BY <1>1, <2>1 DEF ThreadInv, PrefixInv, AllSent
<1> QED BY <1>1, <1>3, <1>4, <1>5, <1>6, <1>7, ServerImplements DEF ThreadInv

LEMMA HandleStep ==
    ASSUME ThreadInv, NEW h \in Handlers, Handle(h)
    PROVE  ThreadInv' /\ ServiceStep
<1> USE DEF HandlerAt, HandlerGoto
<1>1. /\ FileTypeOK /\ HandleRequest(h, "exited") /\ Alive(h) /\ socket[h] # None
      /\ hpc \in [Handlers -> Labels] /\ UNCHANGED mainVars
      /\ "exited" \in {"lock", "exited", "test"} /\ "exited" # "send"
  BY DEF Handle, HandleRequest, ReadRequest, ReadNothing, OpenFails, OpenFile, SendBlock,
         SendLost, SendKills, EndOfFile, CloseSocket, ThreadInv, MainInv, Alive, TypeOK, Labels
<1>2. \/ UNCHANGED <<hpc, socket>>
      \/ \E to \in {"open", "send", "close"} : hpc' = [hpc EXCEPT ![h] = to] /\ UNCHANGED socket
      \/ hpc' = [hpc EXCEPT ![h] = "exited"] /\ socket' = [socket EXCEPT ![h] = None]
  BY DEF Handle, HandleRequest, ReadRequest, ReadNothing, OpenFails, OpenFile, SendBlock,
         SendLost, SendKills, EndOfFile, CloseSocket, ServerExits, handlerVars
<1>3. /\ hpc' \in [Handlers -> Labels]
      /\ \A g \in Handlers : Alive(g)' => Alive(g) /\ socket'[g] # None
  <2>1. socket \in [Handlers -> Copiers \cup {None}] /\ \A g \in Handlers : Alive(g) => socket[g] # None
    BY <1>1 DEF FileTypeOK, ThreadInv, MainInv
  <2>2. CASE UNCHANGED <<hpc, socket>>
    BY <1>1, <2>1, <2>2 DEF Alive
  <2>3. ASSUME NEW to \in {"open", "send", "close"},
               hpc' = [hpc EXCEPT ![h] = to], UNCHANGED socket
        PROVE  /\ hpc' \in [Handlers -> Labels]
               /\ \A g \in Handlers : Alive(g)' => Alive(g) /\ socket'[g] # None
    BY <1>1, <2>1, <2>3 DEF Alive, Labels
  <2>4. CASE hpc' = [hpc EXCEPT ![h] = "exited"] /\ socket' = [socket EXCEPT ![h] = None]
    BY <1>1, <2>1, <2>4 DEF Alive, Labels
  <2> QED BY <1>2, <2>2, <2>3, <2>4
<1>4. FileTypeOK'
  BY <1>1, HandlerTypes
<1>5. TypeOK' /\ OneThreadAtATime' /\ MainInv'
  BY <1>1, <1>3, <1>4 DEF ThreadInv, TypeOK, OneThreadAtATime, MainInv, Labels, mainVars
<1>6. PICK W : W = Held
  OBVIOUS
<1>7. W \subseteq Copiers /\ ConnInv(W) /\ TransferInv(W) /\ PrefixInv
  BY <1>1, <1>6, HeldStays DEF ThreadInv, TypeOK, Held, mainVars
<1>8. ConnInv(W)'
  BY <1>1, <1>7, HandlerConns
<1>9. TransferInv(W)'
  BY <1>1, <1>7, HandlerMoves
<1>10. PrefixInv'
  BY <1>1, <1>7, HandlerKeepsPrefix
<1>11. ConnInv(Held)' /\ TransferInv(Held)'
  BY <1>1, <1>6, <1>8, <1>9, HeldStays DEF mainVars
<1> QED BY <1>1, <1>5, <1>10, <1>11, HandlerImplements DEF ThreadInv

LEMMA ServerStep ==
    ASSUME ThreadInv, ListenStep \/ AcceptFails \/ Overrun \/ Alarm \/ UNCHANGED vars
    PROVE  ThreadInv' /\ ServiceStep
<1>1. /\ server' \in {"starting", "up", "down"} /\ armed' \in BOOLEAN
      /\ UNCHANGED <<clientVars, netVars, handlerVars, mainVars>>
      /\ server' = server \/ server # "down"
  BY DEF ListenStep, Listen, AcceptFails, Overrun, Alarm, TimeOut, ServerExits, vars, ThreadInv,
         TypeOK, FileTypeOK
<1>2. TypeOK' /\ OneThreadAtATime' /\ MainInv'
  BY <1>1, ServerTypes DEF ThreadInv, TypeOK, OneThreadAtATime, MainInv, Alive, mainVars,
                           handlerVars
<1>3. PICK W : W = Held
  OBVIOUS
<1>4. ConnInv(W)'
  <2>1. ConnInv(W)
    BY <1>1, <1>3, HeldStays DEF ThreadInv, mainVars
  <2> QED BY <1>1, <2>1 DEF ConnInv, HandlersApart, QueuedOnce, NotInUse, Queued, netVars,
                            handlerVars, clientVars
<1>5. TransferInv(W)'
  <2>1. TransferInv(W)
    BY <1>1, <1>3, HeldStays DEF ThreadInv, mainVars
  <2>2. \A c : (Live(c)' => Live(c)) /\ (Clean(c)' <=> Clean(c))
    BY <1>1 DEF Live, Clean, netVars, clientVars
  <2> USE DEF netVars, handlerVars, clientVars
  <2>3. CopierData'
    BY <1>1, <2>1, <2>2 DEF TransferInv, CopierData
  <2>4. WaitingData(W)'
    BY <1>1, <2>1, <2>2 DEF TransferInv, WaitingData, Queued
  <2>5. HandlerData'
    BY <1>1, <2>1, <2>2 DEF TransferInv, HandlerData
  <2> QED BY <2>3, <2>4, <2>5 DEF TransferInv
<1>6. PrefixInv'
  <2>1. ASSUME NEW c \in Copiers PROVE CopierPrefix(c)'
    <3>1. CopierPrefix(c)
      BY DEF ThreadInv, PrefixInv
    <3> QED BY <1>1, <3>1 DEF CopierPrefix, UnderWay, netVars, clientVars
  <2> QED BY <1>1, <2>1 DEF ThreadInv, PrefixInv, AllSent, handlerVars
<1>7. ConnInv(Held)' /\ TransferInv(Held)'
  BY <1>1, <1>3, <1>4, <1>5, HeldStays DEF mainVars
<1> QED BY <1>1, <1>2, <1>6, <1>7, ServerImplements DEF ThreadInv, clientVars

LEMMA ClientStep ==
    ASSUME ThreadInv, UNCHANGED mainVars,
           \/ \E c \in Copiers : CopierStep(c)
           \/ \E p \in Clients : Interrupt(p)
    PROVE  ThreadInv' /\ ServiceStep
<1>1. UNCHANGED handlerVars
  BY DEF CopierStep, Connect, ConnectRefused, Request, RequestFails, Receive, EndOfCopy, Interrupt
<1>2. OneThreadAtATime' /\ MainInv'
  BY <1>1 DEF ThreadInv, OneThreadAtATime, MainInv, Alive, mainVars, handlerVars
<1> PICK W : W = Held
  OBVIOUS
<1>3. W \subseteq Copiers /\ ConnInv(W) /\ TransferInv(W) /\ FileTypeOK /\ PrefixInv
  BY HeldStays DEF ThreadInv, TypeOK, Held, mainVars
<1>4. FileTypeOK' /\ ConnInv(W)' /\ TransferInv(W)' /\ PrefixInv' /\ ServiceStep
  <2>1. CASE \E c \in Copiers : CopierStep(c)
    BY <1>3, <2>1, CopierTypes, CopierConns, CopierMoves, CopierKeepsPrefix, CopierImplements
  <2>2. CASE \E p \in Clients : Interrupt(p)
    <3>1. ConnInv(W)'
      BY <1>3, <2>2, ConnStays DEF Interrupt, handlerVars
    <3> QED BY <1>3, <2>2, <3>1, ExitTypes, ExitData, ExitPrefix, ExitImplements DEF Interrupt
  <2> QED BY <2>1, <2>2
<1>5. ConnInv(Held)' /\ TransferInv(Held)'
  BY <1>4, HeldStays DEF mainVars
<1> QED BY <1>1, <1>2, <1>4, <1>5 DEF ThreadInv, TypeOK, mainVars, handlerVars

LEMMA StepOK == ThreadInv /\ [Next]_vars => ThreadInv' /\ ServiceStep
BY MainQuiet, AcceptStep, CreateStep, HandleStep, ServerStep, ClientStep DEF Next, MainStep

LEMMA InitOK == Init => ThreadInv /\ Service!Init
<1> SUFFICES ASSUME Init PROVE ThreadInv
  BY InitImplements DEF Init
<1> USE DEF Init, FileInit
<1>1. /\ Len(Plan) \in Nat /\ 1 \in 1..Len(Plan)+1
      /\ <<>> \in Seq(Files \X Nat) /\ <<>> \in Seq(Copiers)
  BY PlanAssumption
<1>2. FileTypeOK
  BY <1>1 DEF FileTypeOK
<1>3. TypeOK /\ OneThreadAtATime /\ MainInv /\ PrefixInv
  BY <1>2, PrefixInit DEF TypeOK, OneThreadAtATime, MainInv, Alive
<1>4. Held = {}
  BY DEF Held
<1>5. ConnInv(Held)
  BY <1>4, PlanAssumption DEF ConnInv, HandlersApart, QueuedOnce, NotInUse, Queued
<1>6. TransferInv(Held)
  BY <1>1, <1>4 DEF TransferInv, CopierData, WaitingData, HandlerData, Clean, Queued
<1> QED BY <1>3, <1>5, <1>6 DEF ThreadInv

LEMMA ThreadInvAlways == Spec => []ThreadInv
BY InitOK, StepOK, PTL DEF Spec

\* The variables of the server and its clients keep their types, whichever
\* calls fail and whichever client leaves.
THEOREM TypeCorrect == Spec => []TypeOK
<1>1. ThreadInv => TypeOK
  BY DEF ThreadInv
<1> QED BY <1>1, ThreadInvAlways, PTL

\* The server is serial: there is no other thread than the one main waits for,
\* because of the join right after the create (lines 111-112).
THEOREM OneThreadAtATimeAlways == Spec => []OneThreadAtATime
<1>1. ThreadInv => OneThreadAtATime
  BY DEF ThreadInv
<1> QED BY <1>1, ThreadInvAlways, PTL

\* What the thread has sent is, in order and without a gap, what the client has
\* read for its file followed by what is on the way; of what it has read its
\* file lacks the blocks in missed (lines 50-82, client.c 69-116).
THEOREM NothingLostOrRepeatedAlways == Spec => []NothingLostOrRepeated
<1>1. ThreadInv => NothingLostOrRepeated
  BY DEF ThreadInv, TransferInv, HandlerData, NothingLostOrRepeated, Connected, Live,
         FirstBlocks
<1> QED BY <1>1, ThreadInvAlways, PTL

\* Every step of server and clients is a step of the copying service, or one
\* it takes no notice of: what a client reads grows block by block out of the
\* file that was asked for, all of it but what its own open() or write() loses
\* goes to the local file, and a thread stops reading before the end only after
\* the server has ended, by thread_array's end, a failing call or the alarm.
THEOREM StepsImplementCopyService == Spec => StepsOfService
BY InitOK, StepOK, PTL DEF Spec, StepsOfService, ServiceStep
-----------------------------------------------------------------------------
(* thread_array: every copy seen to its end took one of its elements.      *)

Seen == {k \in Copiers \X (1..Len(Plan)) : SeenToEnd(k[1], k[2])}

\* The thread main waits for counts as soon as it has closed its socket.
Done == IF mpc = "join" /\ ~Alive(threadCount) THEN 1 ELSE 0

SlotInv ==
    /\ mpc = "join" => threadCount \in Handlers
    /\ \A c \in Copiers : cpc[c] # "connect" => at[c] <= Len(Plan)
    /\ server # "down" => IsFiniteSet(Seen) /\ threadCount + Done = Cardinality(Seen)

\* A step that ends no copy leaves them as they are.
LEMMA SeenStays ==
    ASSUME \A c \in Copiers, i \in 1..Len(Plan) : SeenToEnd(c, i)' <=> SeenToEnd(c, i)
    PROVE  Seen' = Seen
<1>1. \A k \in Copiers \X (1..Len(Plan)) : SeenToEnd(k[1], k[2])' <=> SeenToEnd(k[1], k[2])
  OBVIOUS
<1>2. Seen' = {k \in Copiers \X (1..Len(Plan)) : SeenToEnd(k[1], k[2])'}
  BY DEF Seen
<1> QED BY <1>1, <1>2 DEF Seen

LEMMA SameSlots ==
    ASSUME SlotInv, server' # "down" => server # "down" /\ Seen' = Seen,
           UNCHANGED threadCount, server' # "down" => Done' = Done,
           mpc' = "join" => threadCount \in Handlers,
           \A c \in Copiers : cpc'[c] # "connect" => at'[c] <= Len(Plan)
    PROVE  SlotInv'
<1>1. server' # "down" => IsFiniteSet(Seen') /\ threadCount' + Done' = Cardinality(Seen')
  BY DEF SlotInv
<1> HIDE DEF Seen, Done
<1> QED BY <1>1 DEF SlotInv

LEMMA SlotOfMain ==
    ASSUME ThreadInv, SlotInv,
           \/ MainStep \/ ListenStep \/ AcceptFails \/ Overrun \/ Alarm \/ UNCHANGED vars
           \/ \E p \in Clients : Interrupt(p) /\ UNCHANGED mainVars
    PROVE  SlotInv'
<1> USE DEF MainGoto, clientVars, netVars, handlerVars, mainVars
<1>1. UNCHANGED <<at, cpc, hung>> /\ (server' # "down" => server # "down")
  BY DEF MainStep, Arm, Accept, Create, Join, ListenStep, Listen, AcceptFails, Overrun, Alarm,
         TimeOut, ServerExits, Interrupt, vars
<1>2. Seen' = Seen
  BY <1>1, SeenStays DEF SeenToEnd
<1>3. \A c \in Copiers : cpc'[c] # "connect" => at'[c] <= Len(Plan)
  BY <1>1 DEF SlotInv
<1>4. CASE Join
  <2>1. threadCount \in Nat /\ ~Alive(threadCount) /\ server # "down" /\ mpc = "join"
        /\ mpc' = "accept" /\ threadCount' = threadCount + 1
    BY <1>4 DEF Join, Alive, ThreadInv, TypeOK
  <2>2. Done = 1 /\ Done' = 0
    BY <2>1 DEF Done
  <2>3. IsFiniteSet(Seen') /\ threadCount' + Done' = Cardinality(Seen')
    <3>1. IsFiniteSet(Seen) /\ threadCount + 1 = Cardinality(Seen)
      BY <2>1, <2>2 DEF SlotInv
    <3> HIDE DEF Seen, Done
    <3> QED BY <1>2, <2>1, <2>2, <3>1
  <2> QED BY <1>3, <2>1, <2>3 DEF SlotInv
<1>5. CASE Create
  <2>1. /\ UNCHANGED threadCount /\ threadCount \in Handlers /\ mpc = "create"
        /\ Alive(threadCount)'
    <3>1. hpc \in [Handlers -> Labels]
      BY DEF ThreadInv, TypeOK, Labels
    <3> QED BY <1>5, <3>1 DEF Create, Alive
  <2>2. Done' = Done
    BY <2>1 DEF Done
  <2> QED BY <1>1, <1>2, <1>3, <2>1, <2>2, SameSlots
<1>6. CASE Arm \/ Accept
  <2>1. UNCHANGED threadCount /\ mpc # "join" /\ mpc' # "join"
    BY <1>6 DEF Arm, Accept
  <2>2. Done' = Done
    BY <2>1 DEF Done
  <2> QED BY <1>1, <1>2, <1>3, <2>1, <2>2, SameSlots
<1>7. CASE ~MainStep
  <2>1. UNCHANGED <<threadCount, mpc, hpc>>
    BY <1>7 DEF ListenStep, Listen, AcceptFails, Overrun, Alarm, TimeOut, ServerExits, Interrupt,
                vars
  <2>2. Done' = Done
    BY <2>1 DEF Done, Alive
  <2> QED BY <1>1, <1>2, <1>3, <2>1, <2>2, SameSlots DEF SlotInv
<1> QED BY <1>4, <1>5, <1>6, <1>7 DEF MainStep

LEMMA SlotOfHandler ==
    ASSUME ThreadInv, SlotInv, NEW h \in Handlers, Handle(h)
    PROVE  SlotInv'
<1> USE DEF HandlerAt, HandlerGoto
<1>1. /\ Alive(h) /\ mpc = "join" /\ h = threadCount /\ server = "up" /\ socket[h] # None
      /\ hpc \in [Handlers -> Labels] /\ UNCHANGED <<mpc, threadCount, at, cpc>>
      /\ socket[h] \in Copiers /\ hung \in [Copiers -> BOOLEAN]
  <2>1. Alive(h) /\ server = "up" /\ UNCHANGED <<mpc, threadCount, at, cpc>>
    BY DEF Handle, HandleRequest, ReadRequest, ReadNothing, OpenFails, OpenFile, SendBlock,
           SendLost, SendKills, EndOfFile, CloseSocket, Alive, mainVars, clientVars, ServerExits
  <2> QED BY <2>1 DEF ThreadInv, OneThreadAtATime, MainInv, TypeOK, FileTypeOK, Labels
<1>2. \A c \in Copiers : cpc'[c] # "connect" => at'[c] <= Len(Plan)
  BY <1>1 DEF SlotInv
<1>3. CASE ~CloseSocket(h, "exited")
  <2>1. UNCHANGED hung /\ (server' # "down" => Alive(h)')
    BY <1>1, <1>3 DEF Handle, HandleRequest, ReadRequest, ReadNothing, OpenFails, OpenFile,
           SendBlock, SendLost, SendKills, EndOfFile, Alive, netVars, ServerExits
  <2>2. server' # "down" => Done' = Done
    BY <1>1, <2>1 DEF Done
  <2>3. Seen' = Seen
    BY <1>1, <2>1, SeenStays DEF SeenToEnd
  <2> QED BY <1>1, <1>2, <2>2, <2>3, SameSlots
<1>4. CASE CloseSocket(h, "exited")
  <2>1. PICK s, i : s = socket[h] /\ i = at[s]
    OBVIOUS
  <2>2. /\ hung' = [hung EXCEPT ![s] = TRUE] /\ ~hung[s] /\ cpc[s] # "connect" /\ ~Alive(h)'
        /\ s \in Copiers
    <3>1. ~hung[s] /\ cpc[s] # "connect"
      BY <1>1, <2>1 DEF ThreadInv, ConnInv, HandlersApart, NotInUse
    <3> QED BY <1>1, <1>4, <2>1, <3>1 DEF CloseSocket, Alive
  <2>3. i \in 1..Len(Plan) /\ at \in [Copiers -> 1..Len(Plan)+1] /\ Len(Plan) \in Nat
    <3>1. at \in [Copiers -> 1..Len(Plan)+1] /\ at[s] <= Len(Plan) /\ Len(Plan) \in Nat
      BY <2>2, PlanAssumption DEF ThreadInv, TypeOK, FileTypeOK, SlotInv
    <3> QED BY <2>1, <2>2, <3>1
  <2>4. \A c \in Copiers, j \in 1..Len(Plan) :
            SeenToEnd(c, j)' <=> SeenToEnd(c, j) \/ (c = s /\ j = i)
    BY <1>1, <2>1, <2>2, <2>3 DEF SeenToEnd
  <2>5. <<s, i>> \notin Seen
    BY <2>1, <2>2, <2>3 DEF Seen, SeenToEnd
  <2>6. Seen' = Seen \cup {<<s, i>>}
    <3>1. \A k \in Copiers \X (1..Len(Plan)) :
            SeenToEnd(k[1], k[2])' <=> SeenToEnd(k[1], k[2]) \/ k = <<s, i>>
      BY <2>4
    <3>2. Seen' = {k \in Copiers \X (1..Len(Plan)) : SeenToEnd(k[1], k[2])'}
      BY DEF Seen
    <3> QED BY <2>2, <2>3, <3>1, <3>2 DEF Seen
  <2>7. Done = 0 /\ Done' = 1
    BY <1>1, <2>2 DEF Done
  <2>8. IsFiniteSet(Seen') /\ threadCount' + Done' = Cardinality(Seen')
    <3>1. IsFiniteSet(Seen) /\ threadCount + 0 = Cardinality(Seen) /\ threadCount \in Nat
          /\ threadCount' = threadCount
      BY <1>1, <2>7 DEF SlotInv, ThreadInv, TypeOK
    <3>2. IsFiniteSet(Seen') /\ Cardinality(Seen') = Cardinality(Seen) + 1
      <4> HIDE DEF Seen
      <4> QED BY <2>5, <2>6, <3>1, FS_AddElement
    <3> HIDE DEF Seen, Done
    <3> QED BY <2>7, <3>1, <3>2
  <2> QED BY <1>1, <1>2, <2>8 DEF SlotInv
<1> QED BY <1>3, <1>4

LEMMA SlotOfCopier ==
    ASSUME ThreadInv, SlotInv, NEW c \in Copiers, CopierStep(c), UNCHANGED mainVars
    PROVE  SlotInv'
<1> USE DEF CopierAt, CopierGoto
<1>1. /\ UNCHANGED <<server, hpc, mpc, threadCount>> /\ at \in [Copiers -> 1..Len(Plan)+1]
      /\ cpc \in [Copiers -> {"connect", "request", "receive"}] /\ hung \in [Copiers -> BOOLEAN]
      /\ Len(Plan) \in Nat
  BY PlanAssumption DEF CopierStep, Connect, ConnectRefused, Request, RequestFails, Receive, EndOfCopy,
        handlerVars, mainVars, ThreadInv, TypeOK, FileTypeOK
<1>2. Done' = Done
  BY <1>1 DEF Done, Alive
<1>3. \A d \in Copiers : cpc'[d] # "connect" => at'[d] <= Len(Plan)
  BY <1>1 DEF SlotInv, CopierStep, Connect, ConnectRefused, Request, RequestFails, Receive, EndOfCopy
<1>4. server # "down" => Seen' = Seen
  <2>1. CASE EndOfCopy(c)
    <3> SUFFICES ASSUME server # "down" PROVE Seen' = Seen
      OBVIOUS
    <3>1. /\ at' = [at EXCEPT ![c] = @ + 1] /\ cpc[c] = "receive" /\ hung[c] /\ UNCHANGED hung
          /\ cpc' = [cpc EXCEPT ![c] = "connect"]
      BY <2>1 DEF EndOfCopy, PeerGone
    <3>2. ASSUME NEW d \in Copiers, NEW i \in 1..Len(Plan)
          PROVE  SeenToEnd(d, i)' <=> SeenToEnd(d, i)
      <4>1. i \in Int /\ at[d] \in Int
        BY <1>1
      <4>2. CASE d = c
        BY <1>1, <3>1, <4>1, <4>2 DEF SeenToEnd
      <4>3. CASE d # c
        BY <1>1, <3>1, <4>1, <4>3 DEF SeenToEnd
      <4> QED BY <4>2, <4>3
    <3> QED BY <3>2, SeenStays
  <2>2. CASE Connect(c)
    BY <1>1, <2>2, SeenStays DEF Connect, SeenToEnd
  <2>3. CASE Request(c)
    BY <1>1, <2>3, SeenStays DEF Request, SeenToEnd
  <2>4. CASE ConnectRefused(c) \/ RequestFails(c) \/ Receive(c)
    BY <2>4, SeenStays DEF ConnectRefused, RequestFails, Receive, SeenToEnd
  <2> QED BY <2>1, <2>2, <2>3, <2>4 DEF CopierStep
<1> QED BY <1>1, <1>2, <1>3, <1>4, SameSlots DEF SlotInv

LEMMA SlotInvAlways == Spec => []SlotInv
<1>1. Init => SlotInv
  <2> SUFFICES ASSUME Init PROVE SlotInv
    OBVIOUS
  <2>1. Len(Plan) \in Nat /\ \A c \in Copiers : at[c] = 1 /\ cpc[c] = "connect"
    BY PlanAssumption DEF Init, FileInit
  <2>2. Seen = {}
    BY <2>1 DEF Seen, SeenToEnd
  <2>3. Done = 0 /\ threadCount = 0
    BY DEF Done, Init
  <2>4. IsFiniteSet(Seen) /\ threadCount + Done = Cardinality(Seen)
    BY <2>2, <2>3, FS_EmptySet
  <2> QED BY <2>1, <2>4 DEF SlotInv, Init
<1>2. ThreadInv /\ SlotInv /\ [Next]_vars => SlotInv'
  BY SlotOfMain, SlotOfHandler, SlotOfCopier DEF Next
<1> QED BY <1>1, <1>2, ThreadInvAlways, PTL DEF Spec

\* Every connection that was served took an element of thread_array for good,
\* for as long as the server is up and however few are open at once (lines
\* 102-116): the MaxThreads-th connection uses the array up.
THEOREM OneSlotPerConnectionAlways == Spec => []OneSlotPerConnection
<1>1. SlotInv => OneSlotPerConnection
  BY DEF SlotInv, OneSlotPerConnection, Closed, Seen, Done
<1> QED BY <1>1, SlotInvAlways, PTL
=============================================================================
