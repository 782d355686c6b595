--------------------------- MODULE LeaderFollower ---------------------------
(***************************************************************************)
(* leader_follower_server.c: N_THREAD threads, of which the one that holds *)
(* leader_mutex waits in accept(); with a connection it gives up the mutex *)
(* and handles the request.  A failing accept() ends its thread, and when  *)
(* all threads have ended main returns.                                    *)
(***************************************************************************)
EXTENDS FileTransfer

ASSUME LeaderAssumption == None \notin Handlers

VARIABLE leader     \* who holds leader_mutex, or None

vars == <<server, armed, clientVars, netVars, handlerVars, leader>>

Init ==
    /\ FileInit
    /\ hpc = [h \in Handlers |-> "start"]
    /\ leader = None

-----------------------------------------------------------------------------
(* accept_client_requests                                                  *)

Start(h) ==
    /\ HandlerGoto(h, "start", "lock")
    /\ armed' = TRUE
    /\ UNCHANGED <<server, clientVars, netVars, socket, name, sent, leader>>

\* (fault) everyone leads
LockNone(h) ==
    /\ HandlerGoto(h, "lock", "accept")
    /\ leader' = h
    /\ UNCHANGED <<server, armed, clientVars, netVars, socket, name, sent>>

Lock(h) ==
    /\ HandlerGoto(h, "lock", "accept")
    /\ leader = None /\ leader' = h
    /\ UNCHANGED <<server, armed, clientVars, netVars, socket, name, sent>>

\* accept() returns a connection and the timer starts anew (line 113).
Accept(h) ==
    /\ HandlerGoto(h, "accept", "unlock")
    /\ backlog # <<>>
    /\ socket' = [socket EXCEPT ![h] = Head(backlog)]
    /\ backlog' = Tail(backlog)
    /\ armed' = TRUE
    /\ UNCHANGED <<server, clientVars, asked, wire, hung, name, sent, leader>>

AcceptFails(h) ==
    /\ HandlerGoto(h, "accept", "quit")
    /\ UNCHANGED <<server, armed, clientVars, netVars, socket, name, sent, leader>>

\* The error path of accept: unlock, break, pthread_exit.
Quit(h) ==
    /\ HandlerGoto(h, "quit", "gone")
    /\ leader' = None
    /\ UNCHANGED <<server, armed, clientVars, netVars, socket, name, sent>>

Unlock(h) ==
    /\ HandlerGoto(h, "unlock", "read")
    /\ leader' = None
    /\ UNCHANGED <<server, armed, clientVars, netVars, socket, name, sent>>

Handle(h) == HandleRequest(h, "lock") /\ UNCHANGED leader
ListenStep == Listen /\ UNCHANGED leader
Alarm == TimeOut /\ UNCHANGED leader

ThreadStep(h) == \/ Start(h) \/ Lock(h) \/ Accept(h) \/ AcceptFails(h)
                 \/ Quit(h) \/ Unlock(h) \/ Handle(h)

\* create_threads has joined every thread: main shuts the socket and ends.
MainReturns ==
    /\ server = "up"
    /\ \A h \in Handlers : hpc[h] = "gone"
    /\ ServerExits /\ UNCHANGED leader

-----------------------------------------------------------------------------
Next ==
    \/ \E h \in Handlers : ThreadStep(h)
    \/ ListenStep \/ MainReturns \/ Alarm
    \/ \E c \in Copiers : CopierStep(c) /\ UNCHANGED leader
    \/ \E p \in Clients : Interrupt(p) /\ UNCHANGED leader

Spec == Init /\ [][Next]_vars

\* Every thread of the server and of the clients is scheduled.  Nothing makes
\* accept() fail or the alarm ring: progress must not depend on them.
FairSpec ==
    /\ Spec
    /\ WF_vars(ListenStep)
    /\ \A h \in Handlers :
        /\ WF_vars(Start(h) \/ Lock(h) \/ Accept(h) \/ Quit(h) \/ Unlock(h))
        /\ WF_vars(Handle(h))
    /\ WF_vars(MainReturns)
    /\ \A c \in Copiers : WF_vars(CopierStep(c) /\ UNCHANGED leader)

-----------------------------------------------------------------------------
TypeOK ==
    /\ FileTypeOK
    /\ hpc \in [Handlers -> {"start", "lock", "accept", "unlock", "quit", "gone",
                             "read", "open", "send", "close"}]
    /\ leader \in Handlers \cup {None}

\* leader_mutex is held by the one thread that is in accept() or on its way
\* out of it, and by nobody once every thread has left (lines 107-115).
OneLeader ==
    \A h \in Handlers : hpc[h] \in {"accept", "unlock", "quit"} <=> leader = h
=============================================================================
