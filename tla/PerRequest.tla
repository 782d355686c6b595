----------------------------- MODULE PerRequest -----------------------------
(***************************************************************************)
(* per_request_server.c: the main thread accepts a connection, creates a   *)
(* thread that handles it, and joins that thread before it accepts again.  *)
(* Handlers are the threads in the order they are created: thread n is     *)
(* thread_array[n], and thread_array has MaxThreads elements.              *)
(***************************************************************************)
EXTENDS FileTransfer, FiniteSets

CONSTANT MaxThreads    \* MAX = 300 in the code

ASSUME MaxThreadsAssumption == MaxThreads \in Nat \ {0} /\ Handlers \subseteq Nat

VARIABLES mpc,         \* what the main thread is about to do
          conn,        \* its client_socket
          threadCount  \* its thread_count

mainVars == <<mpc, conn, threadCount>>
vars == <<server, armed, clientVars, netVars, handlerVars, mainVars>>

Init ==
    /\ FileInit
    /\ hpc = [h \in Handlers |-> "unborn"]
    /\ mpc = "arm" /\ conn = None /\ threadCount = 0

-----------------------------------------------------------------------------
(* accept_client_requests                                                  *)

MainGoto(from, to) == server = "up" /\ mpc = from /\ mpc' = to

Arm ==
    /\ MainGoto("arm", "accept")
    /\ armed' = TRUE
    /\ UNCHANGED <<server, clientVars, netVars, handlerVars, conn, threadCount>>

Accept ==
    /\ MainGoto("accept", "create")
    /\ backlog # <<>>
    /\ conn' = Head(backlog) /\ backlog' = Tail(backlog)
    /\ armed' = TRUE
    /\ UNCHANGED <<server, clientVars, asked, wire, hung, handlerVars, threadCount>>

\* accept() fails: the loop ends, main shuts the socket and returns.
AcceptFails ==
    /\ server = "up" /\ mpc = "accept"
    /\ ServerExits /\ UNCHANGED mainVars

\* pthread_create stores into thread_array[threadCount].
Create ==
    /\ MainGoto("create", "join")
    /\ threadCount \in Handlers
    /\ hpc' = [hpc EXCEPT ![threadCount] = "read"]
    /\ socket' = [socket EXCEPT ![threadCount] = conn]
    /\ conn' = None
    /\ UNCHANGED <<server, armed, clientVars, netVars, name, sent, threadCount>>

\* Behind the end of thread_array the store may as well end the server.
Overrun ==
    /\ server = "up" /\ mpc = "create"
    /\ threadCount >= MaxThreads
    /\ ServerExits /\ UNCHANGED mainVars

\* (fault) the index is not advanced: the next thread takes the same slot
JoinSameSlot ==
    /\ MainGoto("join", "accept")
    /\ hpc[threadCount] = "exited"
    /\ UNCHANGED <<server, armed, clientVars, netVars, handlerVars, conn, threadCount>>

Join ==
    /\ MainGoto("join", "accept")
    /\ hpc[threadCount] = "exited"
    /\ threadCount' = threadCount + 1
    /\ UNCHANGED <<server, armed, clientVars, netVars, handlerVars, conn>>

MainStep == Arm \/ Accept \/ Create \/ Join

ListenStep == Listen /\ UNCHANGED mainVars
Handle(h) == HandleRequest(h, "exited") /\ UNCHANGED mainVars
Alarm == TimeOut /\ UNCHANGED mainVars

-----------------------------------------------------------------------------
Next ==
    \/ ListenStep \/ MainStep \/ AcceptFails \/ Overrun \/ Alarm
    \/ \E h \in Handlers : Handle(h)
    \/ \E c \in Copiers : CopierStep(c) /\ UNCHANGED mainVars
    \/ \E p \in Clients : Interrupt(p) /\ UNCHANGED mainVars

Spec == Init /\ [][Next]_vars

\* Every thread of the server and of the clients is scheduled; nothing makes
\* accept() fail or the alarm ring.
FairSpec ==
    /\ Spec
    /\ WF_vars(ListenStep) /\ WF_vars(MainStep)
    /\ \A h \in Handlers : WF_vars(Handle(h))
    /\ \A c \in Copiers : WF_vars(CopierStep(c) /\ UNCHANGED mainVars)

-----------------------------------------------------------------------------
TypeOK ==
    /\ FileTypeOK
    /\ hpc \in [Handlers -> {"unborn", "read", "open", "send", "close", "exited"}]
    /\ mpc \in {"arm", "accept", "create", "join"}
    /\ conn \in Copiers \cup {None}
    /\ threadCount \in Nat

Alive(h) == hpc[h] \in {"read", "open", "send", "close"}

\* The join right after the create makes the server serial: there is no other
\* thread than the one main waits for (lines 111-112).
OneThreadAtATime ==
    \A h \in Handlers : Alive(h) => mpc = "join" /\ h = threadCount

\* The copies a client has finished or seen the end of: their connections.
SeenToEnd(c, i) == i < at[c] \/ (i = at[c] /\ cpc[c] # "connect" /\ hung[c])
Closed == Cardinality({k \in Copiers \X (1..Len(Plan)) : SeenToEnd(k[1], k[2])})

\* Every connection that was served took an element of thread_array for good,
\* so the array lasts for MaxThreads connections, however few are open at once.
OneSlotPerConnection ==
    server = "up" => threadCount + (IF mpc = "join" /\ ~Alive(threadCount) THEN 1 ELSE 0) = Closed
=============================================================================
