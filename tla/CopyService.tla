---------------------------- MODULE CopyService ----------------------------
(***************************************************************************)
(* What a user of client.c and of one of its servers may rely on.  Every   *)
(* thread of every client copies the files of Plan one after the other;    *)
(* what it reads grows block by block out of the file that was asked for,  *)
(* and each block goes to the local copy unless the client's own open() or *)
(* write() fails, which stops nobody.  So a thread goes on to its next     *)
(* file with a short copy only if the server has stopped or one of these   *)
(* local calls has failed.                                                 *)
(***************************************************************************)
EXTENDS Integers, Sequences

CONSTANTS Clients,   \* client processes
          Ids,       \* the threads of one client (id in Thread_data)
          Plan,      \* files[]: what each thread copies, in order
          Blocks     \* size of each file the server can open, in buffers

VARIABLES up,        \* the server is running
          running,   \* which clients are running
          at,        \* the file each thread is copying (i in thread_work)
          copy,      \* what each thread has read for each local file
          missed     \* of the present one: the blocks whose write() failed or
                     \* was short, and 0 if open() failed

vars == <<up, running, at, copy, missed>>

Copiers == Clients \X Ids
Served == DOMAIN Blocks
Contents(f) == [k \in 1..Blocks[f] |-> <<f, k>>]
Whole(f, s) == f \in Served /\ s = Contents(f)

Init ==
    /\ up = TRUE
    /\ running = Clients
    /\ at = [c \in Copiers |-> 1]
    /\ copy = [c \in Copiers |-> [i \in 1..Len(Plan) |-> <<>>]]
    /\ missed = [c \in Copiers |-> {}]

Active(c) == c[1] \in running /\ at[c] <= Len(Plan)

\* The local file of a thread that has read nothing yet cannot be opened.
LocalOpenFails(c) ==
    /\ Active(c) /\ copy[c][at[c]] = <<>>
    /\ missed' = [missed EXCEPT ![c] = @ \cup {0}]
    /\ UNCHANGED <<up, running, at, copy>>

Grow(c) ==
    /\ Active(c) /\ Plan[at[c]] \in Served
    /\ Len(copy[c][at[c]]) < Blocks[Plan[at[c]]]
    /\ copy' = [copy EXCEPT ![c][at[c]] =
                    Append(@, Contents(Plan[at[c]])[Len(@) + 1])]
    /\ \/ UNCHANGED missed
       \/ 0 \notin missed[c] /\ missed' = [missed EXCEPT ![c] = @ \cup {Len(copy[c][at[c]]) + 1}]
    /\ UNCHANGED <<up, running, at>>

Advance(c) ==
    /\ Active(c)
    /\ up => Whole(Plan[at[c]], copy[c][at[c]])
    /\ at' = [at EXCEPT ![c] = @ + 1]
    /\ missed' = [missed EXCEPT ![c] = {}]
    /\ UNCHANGED <<up, running, copy>>

ServerStops == up /\ up' = FALSE /\ UNCHANGED <<running, at, copy, missed>>

ClientStops(p) ==
    /\ p \in running /\ running' = running \ {p}
    /\ UNCHANGED <<up, at, copy, missed>>

Next == \/ \E c \in Copiers : LocalOpenFails(c) \/ Grow(c) \/ Advance(c)
        \/ ServerStops
        \/ \E p \in Clients : ClientStops(p)

\* No thread is left waiting: it reads its file, or what there is of it, to the
\* end, or stops.
Spec == Init /\ [][Next]_vars /\ \A c \in Copiers : WF_vars(Grow(c) \/ Advance(c))
=============================================================================
