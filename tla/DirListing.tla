----------------------------- MODULE DirListing -----------------------------
(***************************************************************************)
(* The two my_ls.c: do_ls on one name, while others remove entries of the  *)
(* directories it reads.  The program ls goes down into every directory;   *)
(* the one in the server lists the directory it is given and no further.   *)
(* What a line says of its entry (type, permissions, owner, size, time) is *)
(* left out; how far it is indented is not, as only that shows the tree.   *)
(***************************************************************************)
EXTENDS Integers, Sequences, FiniteSets

CONSTANTS Nodes,     \* entries of the file system
          Root,      \* the argument of ls
          Parent,    \* the directory in which each of the others is
          Kind       \* of each: "file", "dir" or "other" (a device, a socket)

None == "none"

TreeAssumption ==
    /\ None \notin Nodes /\ Root \in Nodes /\ Kind \in [Nodes -> {"file", "dir", "other"}]
    /\ Parent \in [Nodes \ {Root} -> {n \in Nodes : Kind[n] = "dir"}]

VARIABLES ls,        \* "start", "ls" or "server": which program it is
          exists,    \* the entries that are still there
          todo,      \* the entry do_ls is about to look at, or None
          entering,  \* the directory is_directory is about to open, or None
          stack,     \* directories being read: [dir, and what is left of it]
          unread,    \* directories that could not be opened
          out        \* the lines: an entry and its indentation

vars == <<ls, exists, todo, entering, stack, unread, out>>

Init ==
    /\ ls = "start" /\ exists = Nodes /\ todo = None /\ entering = None
    /\ stack = <<>> /\ unread = {} /\ out = <<>>

Start ==
    /\ ls = "start" /\ ls' \in {"ls", "server"}
    /\ todo' = Root
    /\ UNCHANGED <<exists, entering, stack, unread, out>>

Depth == Len(stack)
Top == stack[Depth]

-----------------------------------------------------------------------------
\* (fault) "return" for "continue", as in the unused read_dir of the server
StatFailsReturns ==
    /\ todo # None /\ todo \notin exists
    /\ todo' = None
    /\ stack' = IF Depth = 0 THEN stack ELSE SubSeq(stack, 1, Depth - 1)
    /\ UNCHANGED <<ls, exists, entering, unread, out>>

\* The entry is gone since readdir() returned it: it is passed over.
StatFails ==
    /\ todo # None /\ todo \notin exists
    /\ todo' = None
    /\ UNCHANGED <<ls, exists, entering, stack, unread, out>>

\* (fault) the recursive call does not indent
StatFlat ==
    /\ todo \in exists
    /\ todo' = None
    /\ out' = IF Kind[todo] = "other" THEN out
              ELSE Append(out, [entry |-> todo, indent |-> IF Depth = 0 THEN 0 ELSE 1])
    /\ entering' = IF Kind[todo] = "dir" /\ (ls = "ls" \/ Depth = 0) THEN todo ELSE None
    /\ UNCHANGED <<ls, exists, stack, unread>>

\* process: a file or a directory is printed, anything else is not, and ls
\* reads a directory at once.
Stat ==
    /\ todo \in exists
    /\ todo' = None
    /\ out' = IF Kind[todo] = "other" THEN out
              ELSE Append(out, [entry |-> todo, indent |-> Depth])
    /\ entering' = IF Kind[todo] = "dir" /\ (ls = "ls" \/ Depth = 0) THEN todo ELSE None
    /\ UNCHANGED <<ls, exists, stack, unread>>

OpenDir ==
    /\ entering \in exists
    /\ entering' = None
    /\ stack' = Append(stack, [dir |-> entering,
                               left |-> {n \in exists \ {Root} : Parent[n] = entering}])
    /\ UNCHANGED <<ls, exists, todo, unread, out>>

\* It is gone, or not to be read by this user.
OpenDirFails ==
    /\ entering # None
    /\ entering' = None /\ unread' = unread \cup {entering}
    /\ UNCHANGED <<ls, exists, todo, stack, out>>

\* readdir() gives the entries in any order, "." and ".." apart.
Idle == todo = None /\ entering = None /\ stack # <<>>
ReadDir ==
    /\ Idle
    /\ \E n \in Top.left :
        /\ todo' = n
        /\ stack' = [stack EXCEPT ![Depth].left = @ \ {n}]
    /\ UNCHANGED <<ls, exists, entering, unread, out>>

CloseDir ==
    /\ Idle /\ Top.left = {}
    /\ stack' = SubSeq(stack, 1, Depth - 1)
    /\ UNCHANGED <<ls, exists, todo, entering, unread, out>>

\* Somebody removes an entry; readdir() may have read it already, or not.
Remove(n) ==
    /\ ls # "start" /\ n \in exists
    /\ \A m \in exists \ {Root} : Parent[m] # n
    /\ exists' = exists \ {n}
    /\ \/ stack' = [i \in 1..Depth |-> [stack[i] EXCEPT !.left = @ \ {n}]]
       \/ UNCHANGED stack
    /\ UNCHANGED <<ls, todo, entering, unread, out>>

Next == \/ Start \/ StatFails \/ Stat \/ OpenDir \/ OpenDirFails
        \/ ReadDir \/ CloseDir \/ \E n \in Nodes : Remove(n)

-----------------------------------------------------------------------------
Lines == 1..Len(out)
Listed == {out[i].entry : i \in Lines}
Done == ls # "start" /\ todo = None /\ entering = None /\ stack = <<>>

TypeOK ==
    /\ ls \in {"start", "ls", "server"} /\ exists \subseteq Nodes
    /\ todo \in Nodes \cup {None} /\ entering \in Nodes \cup {None}
    /\ stack \in Seq([dir : Nodes, left : SUBSET Nodes]) /\ unread \subseteq Nodes
    /\ out \in Seq([entry : Nodes, indent : Nat])

\* Whatever is removed meanwhile, an entry that stays is listed in the end, if
\* its directory was and could be opened (my_ls.c of ls, lines 90-95, 127-131;
\* of the server, lines 136-153).
StaysMeansListed ==
    Done => \A n \in exists :
        \/ n \in Listed
        \/ Kind[n] = "other"
        \/ n # Root /\ \/ Parent[n] \notin Listed \/ Parent[n] \in unread
                       \/ ls = "server" /\ Parent[n] # Root

\* The output can be read as a tree: no entry comes twice, and the directory
\* an entry is in is the last line before it that is indented less.
TreeCanBeRead ==
    \A i \in Lines :
        /\ \A j \in Lines : out[i].entry = out[j].entry => i = j
        /\ out[i].entry # Root => \E j \in 1..i-1 :
            /\ out[j].entry = Parent[out[i].entry] /\ out[j].indent = out[i].indent - 1
            /\ \A k \in j+1..i : out[k].indent >= out[i].indent
=============================================================================
