----------------------------- MODULE PoolServer -----------------------------
(***************************************************************************)
(* pool_server.c as a whole: the main thread that accepts, the queue of    *)
(* connections, and the workers that run handle_request on what they get   *)
(* off it.  The copying clients and the transfer are FileTransfer's.       *)
(*                                                                         *)
(* Module SocketQueue has putOnQ and getOffQ statement by statement, and   *)
(* what it shows is used here: the parts between lock(&mutex) and          *)
(* unlock(&mutex) exclude each other and are one step, nobody sleeps for   *)
(* ever beside a queue he could use, and the test for a full queue stays   *)
(* true.  getOffQ's test for an empty queue does not, and is a step of its *)
(* own.  A behaviour is followed up to the first take from an empty queue, *)
(* which hands out an old descriptor: with that a connection may be        *)
(* handled a second time, and nothing said here goes beyond it.            *)
(***************************************************************************)
EXTENDS FileTransfer, FiniteSets

CONSTANTS QSize,      \* 300 in the code
          MaxBad      \* bound of the model: failed accepts under way at a time

ASSUME PoolAssumption == QSize \in Nat \ {0} /\ MaxBad \in Nat

VARIABLES queue,        \* q from last to first: connections, or None for -1
          mpc,          \* what the main thread is about to do
          accepted,     \* its client_socket
          underflowed   \* an item was taken from the empty queue

poolVars == <<queue, mpc, accepted, underflowed>>
vars == <<server, armed, clientVars, netVars, handlerVars, poolVars>>

Init ==
    /\ FileInit
    /\ hpc = [w \in Handlers |-> "test"]
    /\ queue = <<>> /\ mpc = "arm" /\ accepted = None /\ underflowed = FALSE

-----------------------------------------------------------------------------
(* The main thread: accept_client_requests with putOnQ.                    *)

MainGoto(from, to) == server = "up" /\ mpc = from /\ mpc' = to

\* The timer is set anew before every accept(); once set it stays so.
Arm ==
    /\ MainGoto("arm", "accept")
    /\ armed' = TRUE
    /\ UNCHANGED <<server, clientVars, netVars, handlerVars, queue, accepted, underflowed>>

Accept ==
    /\ MainGoto("accept", "put")
    /\ backlog # <<>>
    /\ accepted' = Head(backlog) /\ backlog' = Tail(backlog)
    /\ UNCHANGED <<server, armed, clientVars, asked, wire, hung, handlerVars, queue, underflowed>>

Busy == {w \in Handlers : hpc[w] \notin {"test", "take"}}
Bad == Cardinality({i \in DOMAIN queue : queue[i] = None})
       + Cardinality({w \in Busy : socket[w] = None})

\* The -1 of a failing accept() goes on the queue like a socket.
AcceptFails ==
    /\ MainGoto("accept", "put")
    /\ Bad < MaxBad
    /\ UNCHANGED <<server, armed, clientVars, netVars, handlerVars, queue, accepted, underflowed>>

PutOnQ ==
    /\ MainGoto("put", "accept")
    /\ Len(queue) < QSize
    /\ queue' = Append(queue, accepted)
    /\ accepted' = None
    /\ UNCHANGED <<server, armed, clientVars, netVars, handlerVars, underflowed>>

MainStep == Arm \/ Accept \/ PutOnQ

-----------------------------------------------------------------------------
(* A worker: getOffQ, then handle_request on what it got.                  *)

\* The test of line 44, before the mutex is taken.
Test(w) ==
    /\ HandlerGoto(w, "test", "take")
    /\ queue # <<>>
    /\ UNCHANGED <<server, armed, clientVars, netVars, socket, name, sent, poolVars>>

\* (fault) "last" is not moved on
TakeKeeps(w) ==
    /\ HandlerGoto(w, "take", "read")
    /\ queue # <<>>
    /\ socket' = [socket EXCEPT ![w] = Head(queue)]
    /\ UNCHANGED <<server, armed, clientVars, netVars, name, sent, poolVars>>

Take(w) ==
    /\ HandlerGoto(w, "take", "read")
    /\ queue # <<>>
    /\ socket' = [socket EXCEPT ![w] = Head(queue)]
    /\ queue' = Tail(queue)
    /\ UNCHANGED <<server, armed, clientVars, netVars, name, sent, mpc, accepted, underflowed>>

Underflow(w) ==
    /\ HandlerAt(w, "take")
    /\ queue = <<>>
    /\ underflowed' = TRUE
    /\ UNCHANGED <<server, armed, clientVars, netVars, handlerVars, queue, mpc, accepted>>

\* read() fails, on -1 or because the client was killed: perror, buf[-1] = 0,
\* and the name is whatever an earlier call left on the stack.
ReadFails(w) ==
    /\ HandlerGoto(w, "read", "open")
    /\ socket[w] # None => asked[socket[w]] = None /\ client[socket[w][1]] # "running"
    /\ \E f \in Files \cup {None} : name' = [name EXCEPT ![w] = f]
    /\ UNCHANGED <<server, armed, clientVars, netVars, socket, sent, poolVars>>

\* write(-1) fails and nobody looks.
WriteNowhere(w) ==
    /\ HandlerAt(w, "send") /\ socket[w] = None
    /\ sent[w] < Blocks[name[w]]
    /\ sent' = [sent EXCEPT ![w] = @ + 1]
    /\ UNCHANGED <<server, armed, clientVars, netVars, hpc, socket, name, poolVars>>

\* close(-1) fails as well.
CloseNothing(w) ==
    /\ HandlerGoto(w, "close", "test") /\ socket[w] = None
    /\ name' = [name EXCEPT ![w] = None]
    /\ UNCHANGED <<server, armed, clientVars, netVars, socket, sent, poolVars>>

\* handle_request with a connection, or the calls that do not depend on it.
Handle(w) ==
    /\ \/ socket[w] # None /\ HandleRequest(w, "test")
       \/ socket[w] = None /\ (OpenFails(w) \/ OpenFile(w) \/ EndOfFile(w))
    /\ UNCHANGED poolVars

Worker(w) == \/ Test(w) \/ Take(w) \/ Underflow(w) \/ ReadFails(w)
             \/ WriteNowhere(w) \/ CloseNothing(w) \/ Handle(w)

-----------------------------------------------------------------------------
Pool == MainStep \/ AcceptFails \/ \E w \in Handlers : Worker(w)

World == /\ \/ Listen \/ TimeOut
            \/ \E c \in Copiers : CopierStep(c)
            \/ \E p \in Clients : Interrupt(p)
         /\ UNCHANGED poolVars

Next == ~underflowed /\ (Pool \/ World)

Spec == Init /\ [][Next]_vars

\* Every thread is scheduled, and accept() does not fail for ever.
FairSpec ==
    /\ Spec
    /\ WF_vars(~underflowed /\ Listen /\ UNCHANGED poolVars)
    /\ WF_vars(~underflowed /\ MainStep) /\ SF_vars(~underflowed /\ Accept)
    /\ \A w \in Handlers : WF_vars(~underflowed /\ Worker(w))
    /\ \A c \in Copiers : WF_vars(~underflowed /\ CopierStep(c) /\ UNCHANGED poolVars)

-----------------------------------------------------------------------------
TypeOK ==
    /\ FileTypeOK
    /\ hpc \in [Handlers -> {"test", "take", "read", "open", "send", "close"}]
    /\ queue \in Seq(Copiers \cup {None}) /\ Len(queue) <= QSize
    /\ mpc \in {"arm", "accept", "put"} /\ accepted \in Copiers \cup {None}
    /\ underflowed \in BOOLEAN

\* In how many places connection c is.
Places(c) == Cardinality({i \in DOMAIN backlog : backlog[i] = c})
             + (IF accepted = c THEN 1 ELSE 0)
             + Cardinality({i \in DOMAIN queue : queue[i] = c})
             + Cardinality({w \in Handlers : socket[w] = c})

\* Up to the first take from the empty queue, a client that is connected and
\* has not seen the end of its file is in one place on its way through the pool
\* - the backlog, the main thread, the queue, one worker - or its connection
\* was closed: up to there no connection is lost between the threads and none
\* is handled twice (lines 28-52, 113, 139-149).  That take is the only way
\* one can be, and SocketQueue's NoUnderflow is about whether it happens.
OnePlace ==
    ~underflowed =>
        \A c \in Copiers : Connected(c) => Places(c) = IF hung[c] THEN 0 ELSE 1

\* A client that waits for its file gets to the end of it unless the server
\* exits or the queue has underflowed, although -1 is handled like a socket
\* and names are taken from whatever a failed read() left (lines 85-114).
Answered ==
    \A c \in Copiers :
        cpc[c] = "receive" ~> \/ cpc[c] # "receive" \/ client[c[1]] # "running"
                              \/ server = "down" \/ underflowed
=============================================================================
