---------------------------- MODULE FileTransfer ----------------------------
(***************************************************************************)
(* The file transfer protocol of "multi-threaded client and server": the   *)
(* threads of client.c at one end, handle_request of the servers at the    *)
(* other, TCP connections between them.  LeaderFollower, PerRequest        *)
(* and PoolServer extend it with the threads that accept connections.      *)
(*                                                                         *)
(* A copier has one connection at a time, so a connection is named by its  *)
(* copier.  Data is counted in buffers of BUFSIZ, and a block <<f, k>> is  *)
(* the k-th buffer of file f.  N_THREADS = 10 of a client stay below       *)
(* BACKLOG = 200, so the backlog is not bounded here.                      *)
(*                                                                         *)
(* A client reads on when its local open() fails and does not look at what *)
(* write() returns.  copy is what it has read, in the order it writes it,  *)
(* and missed is what did not get to the disk of the file it copies.       *)
(***************************************************************************)
EXTENDS Integers, Sequences

CONSTANTS Clients, Ids, Plan, Blocks,   \* as in CopyService
          Handlers,                     \* server threads that run handle_request
          Window,                       \* blocks a connection buffers
          Failing,                      \* clients whose disk may fail them
          None

ASSUME BlocksAssumption == None \notin DOMAIN Blocks /\ \A f \in DOMAIN Blocks : Blocks[f] \in Nat
ASSUME WindowAssumption == Window \in Nat \ {0}

VARIABLES server,  \* "starting", "up" (from listen() on) or "down" (exit())
          armed,   \* the interval timer is running
          client,  \* each client: "running", "failed" (exit(-1)) or "killed"
          at,      \* each copier's index into Plan
          cpc,     \* what each copier is about to do
          copy,    \* what each copier has read for each of its local files
          missed,  \* of its present file: 0 if open() failed, k if write() of
                   \* the k-th buffer failed or was short
          backlog, \* connections established and not accepted
          asked,   \* the name written by the client and not read by the server
          wire,    \* blocks sent and not received
          hung,    \* the server has closed its end
          hpc, socket, name, sent   \* handle_request in each server thread

netVars == <<backlog, asked, wire, hung>>
clientVars == <<client, at, cpc, copy, missed>>
handlerVars == <<hpc, socket, name, sent>>

Copiers == Clients \X Ids
Files == {Plan[i] : i \in 1..Len(Plan)}
ASSUME PlanAssumption == Plan \in Seq(Files) /\ None \notin Files \cup Copiers
Served == DOMAIN Blocks

FileInit ==
    /\ server = "starting" /\ armed = FALSE
    /\ client = [p \in Clients |-> "running"]
    /\ at = [c \in Copiers |-> 1]
    /\ cpc = [c \in Copiers |-> "connect"]
    /\ copy = [c \in Copiers |-> [i \in 1..Len(Plan) |-> <<>>]]
    /\ missed = [c \in Copiers |-> {}]
    /\ backlog = <<>>
    /\ asked = [c \in Copiers |-> None]
    /\ wire = [c \in Copiers |-> <<>>]
    /\ hung = [c \in Copiers |-> FALSE]
    /\ socket = [h \in Handlers |-> None]
    /\ name = [h \in Handlers |-> None]
    /\ sent = [h \in Handlers |-> 0]

-----------------------------------------------------------------------------
(* A thread of client.c: thread_work, remote_copy and what they call.      *)

CopierAt(c, label) ==
    client[c[1]] = "running" /\ at[c] <= Len(Plan) /\ cpc[c] = label

CopierGoto(c, from, to) == CopierAt(c, from) /\ cpc' = [cpc EXCEPT ![c] = to]

\* exit(-1) or a signal: the process ends, its connections with it.
Exit(p, how) ==
    /\ client' = [client EXCEPT ![p] = how]
    /\ wire' = [c \in Copiers |-> IF c[1] = p THEN <<>> ELSE wire[c]]

\* connect() succeeds as soon as the connection is in the server's backlog.
Connect(c) ==
    /\ CopierGoto(c, "connect", "request")
    /\ server = "up"
    /\ backlog' = Append(backlog, c)
    /\ hung' = [hung EXCEPT ![c] = FALSE]
    /\ UNCHANGED <<server, armed, client, at, copy, missed, asked, wire, handlerVars>>

\* "connect refused", because the server listens no more or does not listen
\* yet: one thread's failure ends all threads of the client.
ConnectRefused(c) ==
    /\ CopierAt(c, "connect")
    /\ server # "up"
    /\ Exit(c[1], "failed")
    /\ UNCHANGED <<server, armed, at, cpc, copy, missed, backlog, asked, hung, handlerVars>>

PeerGone(c) == server = "down" \/ hung[c]

\* One more local call of copier c, the n-th of its file: it succeeds, or it
\* fails and nobody looks.
LocalCall(c, n) ==
    \/ UNCHANGED missed
    \/ c[1] \in Failing /\ missed' = [missed EXCEPT ![c] = @ \cup {n}]

\* The name is sent and the local file opened; perror is all that follows an
\* open() that fails.
Request(c) ==
    /\ CopierGoto(c, "request", "receive")
    /\ asked' = [asked EXCEPT ![c] = Plan[at[c]]]
    /\ LocalCall(c, 0)
    /\ UNCHANGED <<server, armed, client, at, copy, backlog, wire, hung, handlerVars>>

\* write() fails, or kills with SIGPIPE, if the reset got here before it.
RequestFails(c) ==
    /\ CopierAt(c, "request")
    /\ PeerGone(c)
    /\ Exit(c[1], "failed")
    /\ UNCHANGED <<server, armed, at, cpc, copy, missed, backlog, asked, hung, handlerVars>>

\* (fault) the result of write() is looked at, and the file given up
ReceiveUntilFull(c) ==
    /\ CopierAt(c, "receive")
    /\ wire[c] # <<>>
    /\ \/ /\ copy' = [copy EXCEPT ![c][at[c]] = Append(@, Head(wire[c]))]
          /\ wire' = [wire EXCEPT ![c] = Tail(@)]
          /\ UNCHANGED <<at, cpc, asked>>
       \/ /\ c[1] \in Failing
          /\ at' = [at EXCEPT ![c] = @ + 1] /\ cpc' = [cpc EXCEPT ![c] = "connect"]
          /\ asked' = [asked EXCEPT ![c] = None]
          /\ UNCHANGED <<copy, wire>>
    /\ UNCHANGED <<server, armed, client, missed, backlog, hung, handlerVars>>

\* One turn of the loop: read() and write(), which fails without a local file.
Receive(c) ==
    /\ CopierAt(c, "receive")
    /\ wire[c] # <<>>
    /\ copy' = [copy EXCEPT ![c][at[c]] = Append(@, Head(wire[c]))]
    /\ wire' = [wire EXCEPT ![c] = Tail(@)]
    /\ IF 0 \in missed[c] THEN UNCHANGED missed
                         ELSE LocalCall(c, Len(copy[c][at[c]]) + 1)
    /\ UNCHANGED <<server, armed, client, at, cpc, backlog, asked, hung, handlerVars>>

\* read() gives no more, whether the server is done or dead: the local file
\* is closed as it is and the thread goes on to the next one.
EndOfCopy(c) ==
    /\ CopierGoto(c, "receive", "connect")
    /\ wire[c] = <<>> /\ PeerGone(c)
    /\ at' = [at EXCEPT ![c] = @ + 1]
    /\ missed' = [missed EXCEPT ![c] = {}]
    /\ asked' = [asked EXCEPT ![c] = None]
    /\ UNCHANGED <<server, armed, client, copy, backlog, wire, hung, handlerVars>>

CopierStep(c) == \/ Connect(c) \/ ConnectRefused(c) \/ Request(c)
                 \/ RequestFails(c) \/ Receive(c) \/ EndOfCopy(c)

\* The user ends a client (^C) while it has files to copy.
Interrupt(p) ==
    /\ client[p] = "running"
    /\ \E id \in Ids : at[<<p, id>>] <= Len(Plan)
    /\ Exit(p, "killed")
    /\ UNCHANGED <<server, armed, at, cpc, copy, missed, backlog, asked, hung, handlerVars>>

-----------------------------------------------------------------------------
(* The servers: create_server_socket, and handle_request in thread h, on   *)
(* the connection socket[h].                                               *)

\* create_server_socket: from here on connect() succeeds.
Listen ==
    /\ server = "starting" /\ server' = "up"
    /\ UNCHANGED <<armed, clientVars, netVars, handlerVars>>

HandlerAt(h, label) == server = "up" /\ hpc[h] = label

HandlerGoto(h, from, to) == HandlerAt(h, from) /\ hpc' = [hpc EXCEPT ![h] = to]

\* error() is exit(-1): it ends the server for everyone.
ServerExits ==
    /\ server' = "down"
    /\ UNCHANGED <<armed, clientVars, netVars, handlerVars>>

ReadRequest(h) ==
    /\ HandlerGoto(h, "read", "open")
    /\ asked[socket[h]] # None
    /\ name' = [name EXCEPT ![h] = asked[socket[h]]]
    /\ asked' = [asked EXCEPT ![socket[h]] = None]
    /\ UNCHANGED <<server, armed, clientVars, backlog, wire, hung, socket, sent>>

\* (fault) read() is called again when it returns nothing
ReadNothingRetries(h) ==
    /\ HandlerAt(h, "read")
    /\ asked[socket[h]] = None /\ client[socket[h][1]] # "running"
    /\ UNCHANGED <<server, armed, clientVars, netVars, handlerVars>>

\* The client left without a request.  read() returns 0 and the empty name
\* cannot be opened, or it returns -1: error() either way.
ReadNothing(h) ==
    /\ HandlerAt(h, "read")
    /\ asked[socket[h]] = None /\ client[socket[h][1]] # "running"
    /\ ServerExits

OpenFails(h) ==
    /\ HandlerAt(h, "open")
    /\ name[h] \notin Served
    /\ ServerExits

\* (fault) reading goes on from where the thread's last request ended
OpenFileNoReset(h) ==
    /\ HandlerGoto(h, "open", "send")
    /\ name[h] \in Served
    /\ UNCHANGED <<server, armed, clientVars, netVars, socket, name, sent>>

OpenFile(h) ==
    /\ HandlerGoto(h, "open", "send")
    /\ name[h] \in Served
    /\ sent' = [sent EXCEPT ![h] = 0]
    /\ UNCHANGED <<server, armed, clientVars, netVars, socket, name>>

\* One turn of the loop; write() waits while the connection is full.
SendBlock(h) ==
    /\ HandlerAt(h, "send")
    /\ sent[h] < Blocks[name[h]]
    /\ client[socket[h][1]] = "running" /\ Len(wire[socket[h]]) < Window
    /\ sent' = [sent EXCEPT ![h] = @ + 1]
    /\ wire' = [wire EXCEPT ![socket[h]] = Append(@, <<name[h], sent[h] + 1>>)]
    /\ UNCHANGED <<server, armed, clientVars, backlog, asked, hung, hpc, socket, name>>

\* The client has exited: the block is lost ...
SendLost(h) ==
    /\ HandlerAt(h, "send")
    /\ sent[h] < Blocks[name[h]]
    /\ client[socket[h][1]] # "running"
    /\ sent' = [sent EXCEPT ![h] = @ + 1]
    /\ UNCHANGED <<server, armed, clientVars, netVars, hpc, socket, name>>

\* ... or SIGPIPE, which nothing handles, kills the server.
SendKills(h) ==
    /\ HandlerAt(h, "send")
    /\ sent[h] < Blocks[name[h]]
    /\ client[socket[h][1]] # "running"
    /\ ServerExits

\* (fault) "if" for "while": one buffer is sent
EndOfFileOnce(h) ==
    /\ HandlerGoto(h, "send", "close")
    /\ sent[h] > 0 \/ Blocks[name[h]] = 0
    /\ UNCHANGED <<server, armed, clientVars, netVars, socket, name, sent>>

EndOfFile(h) ==
    /\ HandlerGoto(h, "send", "close")
    /\ sent[h] = Blocks[name[h]]
    /\ UNCHANGED <<server, armed, clientVars, netVars, socket, name, sent>>

\* (fault) the socket is not closed
CloseSocketNot(h, next) ==
    /\ HandlerGoto(h, "close", next)
    /\ socket' = [socket EXCEPT ![h] = None]
    /\ name' = [name EXCEPT ![h] = None]
    /\ UNCHANGED <<server, armed, clientVars, netVars, sent>>

\* handle_request closes the socket and returns to its caller at "next".
CloseSocket(h, next) ==
    /\ HandlerGoto(h, "close", next)
    /\ hung' = [hung EXCEPT ![socket[h]] = TRUE]
    /\ socket' = [socket EXCEPT ![h] = None]
    /\ name' = [name EXCEPT ![h] = None]
    /\ UNCHANGED <<server, armed, clientVars, backlog, asked, wire, sent>>

HandleRequest(h, next) ==
    \/ ReadRequest(h) \/ ReadNothing(h) \/ OpenFails(h) \/ OpenFile(h)
    \/ SendBlock(h) \/ SendLost(h) \/ SendKills(h) \/ EndOfFile(h)
    \/ CloseSocket(h, next)

\* SIGALRM: time_out calls exit(0), whatever the other threads are doing.
TimeOut ==
    /\ server = "up" /\ armed
    /\ ServerExits

-----------------------------------------------------------------------------
Connected(c) == /\ c # None /\ server = "up"
                /\ client[c[1]] = "running" /\ cpc[c] # "connect"

FileTypeOK ==
    /\ server \in {"starting", "up", "down"} /\ armed \in BOOLEAN
    /\ client \in [Clients -> {"running", "failed", "killed"}]
    /\ at \in [Copiers -> 1..Len(Plan)+1]
    /\ cpc \in [Copiers -> {"connect", "request", "receive"}]
    /\ copy \in [Copiers -> [1..Len(Plan) -> Seq(Files \X Nat)]]
    /\ missed \in [Copiers -> SUBSET Nat]
    /\ backlog \in Seq(Copiers)
    /\ asked \in [Copiers -> Files \cup {None}]
    /\ wire \in [Copiers -> Seq(Files \X Nat)]
    /\ hung \in [Copiers -> BOOLEAN]
    /\ socket \in [Handlers -> Copiers \cup {None}]
    /\ name \in [Handlers -> Files \cup {None}]
    /\ sent \in [Handlers -> Nat]
    /\ \A h \in Handlers : hpc[h] = "send" => name[h] \in Served /\ sent[h] <= Blocks[name[h]]

\* What a handler has sent is, in order and without a gap, what the copier
\* has read for its local file followed by what is on the wire, and it is of
\* the file the copier asked for (lines 54-83 against client.c 69-88).  What
\* was read and is not on the client's disk is what missed says: what its own
\* open() and write() lost, which client.c does not look at.
NothingLostOrRepeated ==
    \A h \in Handlers : hpc[h] \in {"send", "close"} /\ Connected(socket[h]) =>
        LET c == socket[h] IN
        /\ name[h] = Plan[at[c]]
        /\ copy[c][at[c]] \o wire[c] = [k \in 1..sent[h] |-> <<name[h], k>>]

\* A connection is in one place: waiting in the backlog, or with one handler,
\* or already closed by it.
OneHandlerEach ==
    \A h \in Handlers : socket[h] # None =>
        /\ \A g \in Handlers \ {h} : socket[g] # socket[h]
        /\ \A i \in 1..Len(backlog) : backlog[i] # socket[h]
        /\ ~hung[socket[h]]

Service == INSTANCE CopyService
              WITH up <- server # "down",
                   running <- {p \in Clients : client[p] = "running"}

\* A server and its clients implement the copying service: the threads of
\* client.c each read their files one after the other to the end, and leave
\* one short on their disk only if the server has stopped or a local call has
\* failed (client.c 42-138).
ImplementsCopyService == Service!Spec

\* What of it is safety: every step of the system is one of the service's.
StepsOfService == Service!Init /\ [][Service!Next]_(Service!vars)
=============================================================================
