------------------------------ MODULE ForkCopy ------------------------------
(***************************************************************************)
(* "concurrent server - client": c_server.c forks a child for every        *)
(* connection and reaps it in a SIGCHLD handler; c_client.c opens one      *)
(* connection per file of its command line and forks a child that copies   *)
(* it.  File i travels on connection i, and child i at either end is the   *)
(* process that was forked for it.                                         *)
(*                                                                         *)
(* signal() has the BSD meaning of gcc's default: the handler stays        *)
(* installed, SIGCHLD is blocked while it runs, accept() is restarted.     *)
(***************************************************************************)
EXTENDS Integers, Sequences, FiniteSets

CONSTANTS NFiles,   \* argc - 3 of the client
          Size,     \* blocks of each file, or Missing
          Missing,  \* the server cannot open the file
          Window    \* blocks a connection buffers

ASSUME BoundsAssumption == NFiles \in Nat \ {0} /\ Window \in Nat \ {0}
ASSUME SizeAssumption == Size \in [1..NFiles -> Nat \cup {Missing}]

VARIABLES
    spc,      \* server main: "accept", "fork", "close", or "down"
    accepted, \* its clientfd, by connection; 0 if it has none
    sigchld,  \* SIGCHLD is pending for the server
    reaping,  \* its handler is running
    schild,   \* each server child
    sends,    \* blocks each server child has sent
    sfd,      \* which processes of the server hold each connection open
    cpc,      \* client main: "connect", "fork", "close", or "down"
    next,     \* its i, from 1
    cchild,   \* each client child
    cfd,      \* which processes of the client hold each connection open
    backlog, asked, wire,        \* as in FileTransfer
    copy      \* blocks each client child has read of its file

serverMain == <<spc, accepted, sigchld, reaping>>
clientVars == <<cpc, next, cchild, cfd, copy>>
vars == <<serverMain, schild, sends, sfd, clientVars, backlog, asked, wire>>

Conns == 1..NFiles
Pids == {"parent", "child"}

Init ==
    /\ spc = "accept" /\ accepted = 0 /\ sigchld = FALSE /\ reaping = FALSE
    /\ schild = [i \in Conns |-> "none"]
    /\ sends = [i \in Conns |-> 0]
    /\ sfd = [i \in Conns |-> {}]
    /\ cpc = "connect" /\ next = 1
    /\ cchild = [i \in Conns |-> "none"]
    /\ cfd = [i \in Conns |-> {}]
    /\ backlog = <<>>
    /\ asked = [i \in Conns |-> FALSE]
    /\ wire = [i \in Conns |-> 0]
    /\ copy = [i \in Conns |-> 0]

-----------------------------------------------------------------------------
(* c_server.c: main and the SIGCHLD handler.                               *)

\* main runs while the handler does not.
MainAt(label) == spc = label /\ ~reaping

Accept ==
    /\ MainAt("accept") /\ backlog # <<>>
    /\ spc' = "fork" /\ accepted' = Head(backlog)
    /\ sfd' = [sfd EXCEPT ![Head(backlog)] = {"parent"}]
    /\ backlog' = Tail(backlog)
    /\ UNCHANGED <<sigchld, reaping, schild, sends, clientVars, asked, wire>>

\* The child closes the listening socket and has the connection besides main.
Fork ==
    /\ MainAt("fork") /\ spc' = "close"
    /\ schild' = [schild EXCEPT ![accepted] = "read"]
    /\ sfd' = [sfd EXCEPT ![accepted] = @ \cup {"child"}]
    /\ UNCHANGED <<accepted, sigchld, reaping, sends, clientVars, backlog, asked, wire>>

\* accept() or fork() fails: main exits, its children become init's.
ServerExits ==
    /\ MainAt("accept") \/ MainAt("fork")
    /\ spc' = "down" /\ accepted' = 0 /\ sigchld' = FALSE
    /\ sfd' = [i \in Conns |-> sfd[i] \ {"parent"}]
    /\ schild' = [i \in Conns |-> IF schild[i] = "zombie" THEN "reaped" ELSE schild[i]]
    /\ backlog' = <<>>
    /\ UNCHANGED <<reaping, sends, clientVars, asked, wire>>

\* (fault) main keeps its descriptor of the connection
CloseNot ==
    /\ MainAt("close") /\ spc' = "accept" /\ accepted' = 0
    /\ UNCHANGED <<sfd, sigchld, reaping, schild, sends, clientVars, backlog, asked, wire>>

Close ==
    /\ MainAt("close") /\ spc' = "accept" /\ accepted' = 0
    /\ sfd' = [sfd EXCEPT ![accepted] = @ \ {"parent"}]
    /\ UNCHANGED <<sigchld, reaping, schild, sends, clientVars, backlog, asked, wire>>

HandlerStarts ==
    /\ spc # "down" /\ sigchld /\ ~reaping
    /\ sigchld' = FALSE /\ reaping' = TRUE
    /\ UNCHANGED <<spc, accepted, schild, sends, sfd, clientVars, backlog, asked, wire>>

Zombies == {i \in Conns : schild[i] = "zombie"}

\* (fault) one waitpid() for each signal
HandlerReapsOne ==
    /\ reaping /\ Zombies # {} /\ reaping' = FALSE
    /\ \E i \in Zombies : schild' = [schild EXCEPT ![i] = "reaped"]
    /\ UNCHANGED <<spc, accepted, sigchld, sends, sfd, clientVars, backlog, asked, wire>>

\* waitpid() returns a child ...
HandlerReaps ==
    /\ reaping
    /\ \E i \in Zombies : schild' = [schild EXCEPT ![i] = "reaped"]
    /\ UNCHANGED <<serverMain, sends, sfd, clientVars, backlog, asked, wire>>

\* ... or there is none.
HandlerReturns ==
    /\ reaping /\ Zombies = {} /\ reaping' = FALSE
    /\ UNCHANGED <<spc, accepted, sigchld, schild, sends, sfd, clientVars, backlog, asked, wire>>

ServerMain == Accept \/ Fork \/ Close \/ HandlerStarts \/ HandlerReaps \/ HandlerReturns

-----------------------------------------------------------------------------
(* c_server.c: the child, while(read_from_client(clientfd)>0).             *)

\* exit(): the connection is let go and main gets SIGCHLD (or init the child).
ChildExits(i) ==
    /\ schild' = [schild EXCEPT ![i] = IF spc = "down" THEN "reaped" ELSE "zombie"]
    /\ sfd' = [sfd EXCEPT ![i] = @ \ {"child"}]
    /\ sigchld' = (spc # "down")
    /\ UNCHANGED <<spc, accepted, reaping, sends, clientVars, backlog, wire>>

ReadRequest(i) ==
    /\ schild[i] = "read" /\ asked[i]
    /\ schild' = [schild EXCEPT ![i] = "open"]
    /\ asked' = [asked EXCEPT ![i] = FALSE]
    /\ UNCHANGED <<serverMain, sends, sfd, clientVars, backlog, wire>>

\* read() returns 0 once no process of the client holds the connection.
ReadEnd(i) ==
    /\ schild[i] = "read" /\ ~asked[i] /\ cfd[i] = {}
    /\ ChildExits(i) /\ UNCHANGED asked

OpenFails(i) ==
    /\ schild[i] = "open" /\ Size[i] = Missing
    /\ ChildExits(i) /\ UNCHANGED asked

Open(i) ==
    /\ schild[i] = "open" /\ Size[i] # Missing
    /\ schild' = [schild EXCEPT ![i] = "send"]
    /\ UNCHANGED <<serverMain, sends, sfd, clientVars, backlog, asked, wire>>

Send(i) ==
    /\ schild[i] = "send" /\ sends[i] < Size[i]
    /\ cfd[i] # {} /\ wire[i] < Window
    /\ sends' = [sends EXCEPT ![i] = @ + 1]
    /\ wire' = [wire EXCEPT ![i] = @ + 1]
    /\ UNCHANGED <<serverMain, schild, sfd, clientVars, backlog, asked>>

\* Nobody is left to read: SIGPIPE, or write() fails and the child exits.
SendFails(i) ==
    /\ schild[i] = "send" /\ sends[i] < Size[i] /\ cfd[i] = {}
    /\ ChildExits(i) /\ UNCHANGED asked

\* (fault) "if" for "while": one buffer of the file is sent
EndOfFileOnce(i) ==
    /\ schild[i] = "send" /\ sends[i] = 1
    /\ schild' = [schild EXCEPT ![i] = "read"]
    /\ UNCHANGED <<serverMain, sends, sfd, clientVars, backlog, asked, wire>>

\* write_to_client returns, read_from_client returns 1: the next request.
EndOfFile(i) ==
    /\ schild[i] = "send" /\ sends[i] = Size[i]
    /\ schild' = [schild EXCEPT ![i] = "read"]
    /\ UNCHANGED <<serverMain, sends, sfd, clientVars, backlog, asked, wire>>

ServerChild(i) == \/ ReadRequest(i) \/ ReadEnd(i) \/ OpenFails(i) \/ Open(i)
                  \/ Send(i) \/ SendFails(i) \/ EndOfFile(i)

-----------------------------------------------------------------------------
(* c_client.c: main and its children.                                      *)

Connect ==
    /\ cpc = "connect" /\ next <= NFiles /\ spc # "down"
    /\ cpc' = "fork"
    /\ cfd' = [cfd EXCEPT ![next] = {"parent"}]
    /\ backlog' = Append(backlog, next)
    /\ UNCHANGED <<serverMain, schild, sends, sfd, next, cchild, copy, asked, wire>>

\* connect() or fork() fails, or there are no more files: main exits, its
\* children go on without it.
ClientExits ==
    /\ \/ cpc = "connect" /\ (next > NFiles \/ spc = "down")
       \/ cpc = "fork"
    /\ cpc' = "down"
    /\ cfd' = [i \in Conns |-> cfd[i] \ {"parent"}]
    /\ UNCHANGED <<serverMain, schild, sends, sfd, next, cchild, copy, backlog, asked, wire>>

ClientFork ==
    /\ cpc = "fork" /\ cpc' = "close"
    /\ cchild' = [cchild EXCEPT ![next] = "ask"]
    /\ cfd' = [cfd EXCEPT ![next] = @ \cup {"child"}]
    /\ UNCHANGED <<serverMain, schild, sends, sfd, next, copy, backlog, asked, wire>>

ClientClose ==
    /\ cpc = "close" /\ cpc' = "connect"
    /\ cfd' = [cfd EXCEPT ![next] = @ \ {"parent"}]
    /\ next' = next + 1
    /\ UNCHANGED <<serverMain, schild, sends, sfd, cchild, copy, backlog, asked, wire>>

ClientMain == Connect \/ ClientFork \/ ClientClose \/ (next > NFiles /\ ClientExits)

\* The server's end is closed: no process of the server has it, and it is
\* not waiting to be accepted.
ServerGone(i) == sfd[i] = {} /\ \A k \in 1..Len(backlog) : backlog[k] # i

Ask(i) ==
    /\ cchild[i] = "ask"
    /\ cchild' = [cchild EXCEPT ![i] = "create"]
    /\ asked' = [asked EXCEPT ![i] = TRUE]
    /\ UNCHANGED <<serverMain, schild, sends, sfd, cpc, next, cfd, copy, backlog, wire>>

CreateFile(i) ==
    /\ cchild[i] = "create"
    /\ cchild' = [cchild EXCEPT ![i] = "receive"]
    /\ UNCHANGED <<serverMain, schild, sends, sfd, cpc, next, cfd, copy, backlog, asked, wire>>

\* A write() that falls short is not told from one that does not (line 88).
Receive(i) ==
    /\ cchild[i] = "receive" /\ wire[i] > 0
    /\ wire' = [wire EXCEPT ![i] = @ - 1]
    /\ copy' = [copy EXCEPT ![i] = @ + 1]
    /\ UNCHANGED <<serverMain, schild, sends, sfd, cpc, next, cchild, cfd, backlog, asked>>

\* "End of copying for file %s and close socket", then exit(0).
EndOfCopy(i) ==
    /\ cchild[i] = "receive" /\ wire[i] = 0 /\ ServerGone(i)
    /\ cchild' = [cchild EXCEPT ![i] = "done"]
    /\ cfd' = [cfd EXCEPT ![i] = @ \ {"child"}]
    /\ UNCHANGED <<serverMain, schild, sends, sfd, cpc, next, copy, backlog, asked, wire>>

\* The write of the name fails (the reset got here first); the local file
\* cannot be created: the directory, or a path without "/", which gives no base
\* name; read() fails behind a reset; or write() to the file fails with a block
\* that was read.  The child exits.
CopyFails(i) ==
    /\ \/ cchild[i] = "create"
       \/ cchild[i] = "ask" /\ ServerGone(i)
       \/ cchild[i] = "receive" /\ (wire[i] > 0 \/ ServerGone(i))
    /\ cchild' = [cchild EXCEPT ![i] = "failed"]
    /\ cfd' = [cfd EXCEPT ![i] = @ \ {"child"}]
    /\ UNCHANGED <<serverMain, schild, sends, sfd, cpc, next, copy, backlog, asked, wire>>

ClientChild(i) == Ask(i) \/ CreateFile(i) \/ Receive(i) \/ EndOfCopy(i)

-----------------------------------------------------------------------------
Next == \/ ServerMain \/ ServerExits \/ ClientMain \/ ClientExits
        \/ \E i \in Conns : ServerChild(i) \/ ClientChild(i) \/ CopyFails(i)

\* Every process that can run is scheduled; nothing makes a call fail.
FairSpec == /\ Init /\ [][Next]_vars
            /\ WF_vars(ServerMain) /\ WF_vars(ClientMain)
            /\ \A i \in Conns : WF_vars(ServerChild(i)) /\ WF_vars(ClientChild(i))

-----------------------------------------------------------------------------
TypeOK ==
    /\ spc \in {"accept", "fork", "close", "down"}
    /\ accepted \in 0..NFiles
    /\ sigchld \in BOOLEAN /\ reaping \in BOOLEAN
    /\ schild \in [Conns -> {"none", "read", "open", "send", "zombie", "reaped"}]
    /\ sends \in [Conns -> Nat]
    /\ sfd \in [Conns -> SUBSET Pids] /\ cfd \in [Conns -> SUBSET Pids]
    /\ cpc \in {"connect", "fork", "close", "down"} /\ next \in 1..NFiles+1
    /\ cchild \in [Conns -> {"none", "ask", "create", "receive", "done", "failed"}]
    /\ backlog \in Seq(Conns) /\ asked \in [Conns -> BOOLEAN]
    /\ wire \in [Conns -> 0..Window] /\ copy \in [Conns -> Nat]

\* SIGCHLD does not queue, and children die while the handler runs: still
\* none of them stays a zombie that nothing will reap (handler, lines 98-102).
NoZombieForgotten == Zombies # {} => sigchld \/ reaping

\* A child that ends takes its connection with it, because main closed its own
\* descriptor (line 142): the client at the other end learns that the file
\* could not be opened, and stops.
MissingFileEnds ==
    \A i \in Conns : Size[i] = Missing =>
        (schild[i] = "open" ~> cchild[i] \in {"done", "failed"})

\* All of a file arrives at the client's child, however long the server's child
\* lives on afterwards, unless a call of the client's child fails.
FileArrives ==
    \A i \in Conns : Size[i] # Missing =>
        (schild[i] = "send" ~> copy[i] = Size[i] \/ cchild[i] = "failed")

\* The end c_client.c line 118 announces, "End of copying for file %s and
\* close socket": a copy that has begun comes to its end, unless a call fails.
CopyEnds == \A i \in Conns : cchild[i] = "receive" ~> cchild[i] \in {"done", "failed"}
=============================================================================
