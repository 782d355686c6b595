----------------------------- MODULE LsService -----------------------------
(***************************************************************************)
(* ls_server.c and ls_client.c: a server that forks a child for every      *)
(* listing and waits for it, and clients that ask for one name after the   *)
(* other, each on a connection of its own.  What do_ls prints (module      *)
(* DirListing) is a number of blocks here; the short request arrives       *)
(* whole.  The second close() of the same descriptor, on either side, is   *)
(* of no effect in a process of one thread and is left out.                *)
(***************************************************************************)
EXTENDS Integers, Sequences

CONSTANTS LsClients,
          Names,     \* arguments of a client that ask for a listing
          Blocks,    \* blocks of a listing
          Window     \* blocks a connection holds

Nobody == "nobody"

LsAssumption ==
    Names \in Nat /\ Blocks \in Nat /\ Window \in Nat \ {0} /\ Nobody \notin LsClients

VARIABLES
    server,     \* "make", "accept", "read", "fork", "wait", "close" or "gone"
    clientfd,   \* the connection it serves: the client, or Nobody
    child,      \* "none", "lists" or "zombie"
    output,     \* what the child has still to write
    tty,        \* the server's stdout is a terminal
    client,     \* "connect", "ask", "read", "done", "failed" or "stopped"
    asked,      \* names each client is through with
    shown,      \* what it has printed of the present one
    backlog,    \* connections not yet accepted
    request,    \* those on which a name has arrived
    wire,       \* on the way from the server to each client
    hung        \* connections that the server's side has closed

serverVars == <<server, clientfd, child, output, tty>>
clientVars == <<client, asked, shown>>
netVars == <<backlog, request, wire, hung>>
vars == <<serverVars, clientVars, netVars>>

Log == 0       \* what the server has printed about itself

Init ==
    /\ server = "make" /\ clientfd = Nobody /\ child = "none" /\ output = <<>> /\ tty = TRUE
    /\ client = [c \in LsClients |-> "connect"] /\ asked = [c \in LsClients |-> 0]
    /\ shown = [c \in LsClients |-> <<>>]
    /\ backlog = <<>> /\ request = {} /\ hung = {}
    /\ wire = [c \in LsClients |-> <<>>]

Alive(c) == client[c] \in {"ask", "read", "stopped"}
Goto(from, to) == server = from /\ server' = to

-----------------------------------------------------------------------------
(* ls_server.c                                                             *)

MakeSocket ==
    /\ Goto("make", "accept")
    /\ tty' \in BOOLEAN
    /\ UNCHANGED <<clientfd, child, output, clientVars, netVars>>

Accept ==
    /\ Goto("accept", "read")
    /\ backlog # <<>>
    /\ clientfd' = Head(backlog) /\ backlog' = Tail(backlog)
    /\ UNCHANGED <<child, output, tty, clientVars, request, wire, hung>>

\* send_ls up to the fork: the name, or 0 when the client was killed; where
\* read() fails, ServerExits.
Read ==
    /\ Goto("read", IF clientfd \in request THEN "fork" ELSE "close")
    /\ clientfd \in request \/ ~Alive(clientfd)
    /\ request' = request \ {clientfd}
    /\ UNCHANGED <<clientfd, child, output, tty, clientVars, backlog, wire, hung>>

\* The child has a copy of the server's stdout, with all that is not flushed,
\* and writes it to the client before the listing.
Listing == [i \in 1..Blocks |-> i]
Fork ==
    /\ Goto("fork", "wait")
    /\ child' = "lists"
    /\ output' = (IF tty THEN <<>> ELSE <<Log>>) \o Listing
    /\ UNCHANGED <<clientfd, tty, clientVars, netVars>>

Wait ==
    /\ Goto("wait", "close")
    /\ child = "zombie" /\ child' = "none"
    /\ UNCHANGED <<clientfd, output, tty, clientVars, netVars>>

\* (fault) neither close(sockfd) nor close(clientfd)
CloseNot ==
    /\ Goto("close", "accept")
    /\ clientfd' = Nobody
    /\ UNCHANGED <<child, output, tty, clientVars, netVars>>

Close ==
    /\ Goto("close", "accept")
    /\ clientfd' = Nobody
    /\ hung' = IF Alive(clientfd) THEN hung \cup {clientfd} ELSE hung
    /\ UNCHANGED <<child, output, tty, clientVars, backlog, request, wire>>

\* accept(), read() or fork() fails, and exit() closes everything.
ServerExits ==
    /\ server \in {"accept", "read", "fork"} /\ server' = "gone"
    /\ hung' = {c \in LsClients : Alive(c)} /\ backlog' = <<>>
    /\ UNCHANGED <<clientfd, child, output, tty, clientVars, request, wire>>

\* The child: do_ls prints to the socket.
ChildWrites ==
    /\ child = "lists" /\ output # <<>> /\ Alive(clientfd)
    /\ Len(wire[clientfd]) < Window
    /\ wire' = [wire EXCEPT ![clientfd] = Append(@, Head(output))]
    /\ output' = Tail(output)
    /\ UNCHANGED <<server, clientfd, child, tty, clientVars, backlog, request, hung>>

\* It is through, or SIGPIPE kills it.
ChildEnds ==
    /\ child = "lists" /\ (output = <<>> \/ ~Alive(clientfd))
    /\ child' = "zombie" /\ output' = <<>>
    /\ UNCHANGED <<server, clientfd, tty, clientVars, netVars>>

Server == MakeSocket \/ Accept \/ Read \/ Fork \/ Wait \/ Close \/ ChildWrites \/ ChildEnds

-----------------------------------------------------------------------------
(* ls_client.c                                                             *)

Connect(c) ==
    /\ client[c] = "connect" /\ asked[c] < Names
    /\ IF server \in {"make", "gone"}
       THEN client' = [client EXCEPT ![c] = "failed"] /\ UNCHANGED backlog
       ELSE client' = [client EXCEPT ![c] = "ask"] /\ backlog' = Append(backlog, c)
    /\ UNCHANGED <<serverVars, asked, shown, request, wire, hung>>

Ask(c) ==
    /\ client[c] = "ask" /\ client' = [client EXCEPT ![c] = "read"]
    /\ request' = IF c \in hung THEN request ELSE request \cup {c}
    /\ shown' = [shown EXCEPT ![c] = <<>>]
    /\ UNCHANGED <<serverVars, asked, backlog, wire, hung>>

\* (fault) one read() where there is a loop
ReceiveOnce(c) ==
    /\ client[c] = "read" /\ wire[c] # <<>>
    /\ shown' = [shown EXCEPT ![c] = Append(@, Head(wire[c]))]
    /\ wire' = [wire EXCEPT ![c] = <<>>]
    /\ asked' = [asked EXCEPT ![c] = @ + 1]
    /\ client' = [client EXCEPT ![c] = "connect"] /\ hung' = hung \ {c}
    /\ UNCHANGED <<serverVars, backlog, request>>

Receive(c) ==
    /\ client[c] = "read" /\ wire[c] # <<>>
    /\ shown' = [shown EXCEPT ![c] = Append(@, Head(wire[c]))]
    /\ wire' = [wire EXCEPT ![c] = Tail(@)]
    /\ UNCHANGED <<serverVars, client, asked, backlog, request, hung>>

\* read() returns 0: "End of file".
EndOfFile(c) ==
    /\ client[c] = "read" /\ wire[c] = <<>> /\ c \in hung
    /\ asked' = [asked EXCEPT ![c] = @ + 1]
    /\ client' = [client EXCEPT ![c] = IF asked'[c] = Names THEN "done" ELSE "connect"]
    /\ hung' = hung \ {c}
    /\ UNCHANGED <<serverVars, shown, backlog, request, wire>>

\* The server has gone without reading the name: the connection is reset.
ReadFails(c) ==
    /\ client[c] = "read" /\ c \in hung /\ server = "gone"
    /\ client' = [client EXCEPT ![c] = "failed"]
    /\ wire' = [wire EXCEPT ![c] = <<>>] /\ hung' = hung \ {c}
    /\ UNCHANGED <<serverVars, asked, shown, backlog, request>>

\* The client is killed (its argument list ends there); the backlog keeps its
\* connection.
Kill(c) ==
    /\ client[c] \in {"connect", "ask", "read"}
    /\ client' = [client EXCEPT ![c] = "failed"]
    /\ wire' = [wire EXCEPT ![c] = <<>>] /\ hung' = hung \ {c}
    /\ UNCHANGED <<serverVars, asked, shown, backlog, request>>

\* Its user stops it.
Stop(c) ==
    /\ client[c] \in {"ask", "read"}
    /\ client' = [client EXCEPT ![c] = "stopped"]
    /\ UNCHANGED <<serverVars, asked, shown, netVars>>

ClientStep(c) == Connect(c) \/ Ask(c) \/ Receive(c) \/ EndOfFile(c)

Next == Server \/ ServerExits
        \/ \E c \in LsClients : ClientStep(c) \/ ReadFails(c) \/ Kill(c) \/ Stop(c)

\* Nobody is killed or stopped for sure; what is not stopped, goes on.
Fairness == WF_vars(Server) /\ \A c \in LsClients : WF_vars(ClientStep(c))

-----------------------------------------------------------------------------
TypeOK ==
    /\ server \in {"make", "accept", "read", "fork", "wait", "close", "gone"}
    /\ clientfd \in LsClients \cup {Nobody} /\ child \in {"none", "lists", "zombie"}
    /\ output \in Seq(0..Blocks) /\ Len(output) <= Blocks + 1 /\ tty \in BOOLEAN
    /\ client \in [LsClients -> {"connect", "ask", "read", "done", "failed", "stopped"}]
    /\ asked \in [LsClients -> 0..Names]
    /\ \A c \in LsClients : /\ Len(shown[c]) <= Blocks + 1
                            /\ wire[c] \in Seq(0..Blocks) /\ Len(wire[c]) <= Window
    /\ backlog \in Seq(LsClients) /\ request \subseteq LsClients /\ hung \subseteq LsClients

\* What a client has printed when it says "End of file" is the whole listing
\* and nothing else, behind the server's own log if the server's stdout is not
\* a terminal - unless the server has given up.
ShowsWhole ==
    \A c \in LsClients :
        /\ client[c] \in {"connect", "done"} /\ asked[c] > 0
        /\ server # "gone"
        => shown[c] = (IF tty THEN <<>> ELSE <<Log>>) \o Listing

\* A client that has asked is answered, or sees the connection closed, unless
\* somebody has stopped a client: that one may hold up all others.
AnsweredUnlessStopped(c) ==
    client[c] = "read" ~> client[c] # "read" \/ \E d \in LsClients : client[d] = "stopped"
Answered == \A c \in LsClients : AnsweredUnlessStopped(c)

Spec == Init /\ [][Next]_vars /\ Fairness
=============================================================================
