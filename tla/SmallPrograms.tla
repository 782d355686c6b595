-------------------------- MODULE SmallPrograms ----------------------------
(***************************************************************************)
(* The programs of the repository that stand alone, side by side: program  *)
(* says which of them runs, and the variables of the others stay as they   *)
(* are.  The properties are those of the modules.                          *)
(***************************************************************************)
EXTENDS Integers, Sequences, FiniteSets

CONSTANTS MaxSent,                            \* SignalCount
          Num,                                \* ForkTree
          BufSize, MaxFile, MaxRepeat,        \* FileCopy
          Nodes, Root, Parent, Kind,          \* DirListing
          LsClients, Names, Blocks, Window,   \* LsService
          Chars, MaxString, SizeMod,          \* CString
          MaxLine, MaxPath,                   \* Executor
          Titles, Fold, MaxSongs, MinSongs    \* MusicLibrary

VARIABLES
    program,
    state, count, handlers, pending, sent,                      \* SignalCount
    proc, step, written,                                        \* ForkTree
    copyPc, method, repeat, target, disk, rd, wr, cut, said, before,  \* FileCopy
    ls, exists, todo, entering, stack, unread, out,             \* DirListing
    server, clientfd, child, output, tty, client, asked, shown, \* LsService
    backlog, request, wire, hung,
    arg, buffer, p, tokens, at,                                 \* CString
    lexPc, ch, next, text,                                      \* Tokenizer
    execPc, line, args, here, path, bin, spoiled, ran,          \* Executor
    musicPc, library, number, file, loaded, answer              \* MusicLibrary

signalVars == <<state, count, handlers, pending, sent>>
treeVars == <<proc, step, written>>
copyVars == <<copyPc, method, repeat, target, disk, rd, wr, cut, said, before>>
dirVars == <<ls, exists, todo, entering, stack, unread, out>>
lsVars == <<server, clientfd, child, output, tty, client, asked, shown,
            backlog, request, wire, hung>>
stringVars == <<arg, buffer, p, tokens, at>>
lexVars == <<lexPc, ch, next, text>>
execVars == <<execPc, line, args, here, path, bin, spoiled, ran>>
musicVars == <<musicPc, library, number, file, loaded, answer>>

Signal == INSTANCE SignalCount
Tree == INSTANCE ForkTree WITH state <- proc
Copy == INSTANCE FileCopy WITH pc <- copyPc, MaxLength <- MaxFile
Dir == INSTANCE DirListing
Ls == INSTANCE LsService
String == INSTANCE CString WITH MaxLength <- MaxString
Lex == INSTANCE Tokenizer WITH pc <- lexPc
Exec == INSTANCE Executor WITH pc <- execPc
Music == INSTANCE MusicLibrary WITH pc <- musicPc

ASSUME ConstantsAssumption ==
    /\ Signal!MaxSentAssumption /\ Tree!NumAssumption /\ Copy!FileCopyAssumption
    /\ Dir!TreeAssumption /\ Ls!LsAssumption /\ String!CStringAssumption
    /\ Exec!ExecutorAssumption /\ Music!TitlesAssumption /\ Music!BoundsAssumption

Programs == {"signals", "fork", "copy", "ls", "ls service", "string", "lex", "exec", "music"}

Init ==
    /\ program \in Programs
    /\ Signal!Init /\ Tree!Init /\ Copy!Init /\ Dir!Init /\ Ls!Init
    /\ String!Init /\ Lex!Init /\ Exec!Init /\ Music!Init

Next ==
    /\ UNCHANGED program
    /\ IF program = "signals" THEN Signal!Next ELSE UNCHANGED signalVars
    /\ IF program = "fork" THEN Tree!Next ELSE UNCHANGED treeVars
    /\ IF program = "copy" THEN Copy!Next ELSE UNCHANGED copyVars
    /\ IF program = "ls" THEN Dir!Next ELSE UNCHANGED dirVars
    /\ IF program = "ls service" THEN Ls!Next ELSE UNCHANGED lsVars
    /\ IF program = "string" THEN String!Next ELSE UNCHANGED stringVars
    /\ IF program = "lex" THEN Lex!Next ELSE UNCHANGED lexVars
    /\ IF program = "exec" THEN Exec!Next ELSE UNCHANGED execVars
    /\ IF program = "music" THEN Music!Next ELSE UNCHANGED musicVars

vars == <<program, signalVars, treeVars, copyVars, dirVars, lsVars,
          stringVars, lexVars, execVars, musicVars>>

\* The fairness each module states.
Fairness ==
    /\ WF_lsVars(program = "ls service" /\ Ls!Server)
    /\ \A c \in LsClients : WF_lsVars(program = "ls service" /\ Ls!ClientStep(c))
    /\ WF_lexVars(program = "lex" /\ Lex!Program)

Spec == Init /\ [][Next]_vars /\ Fairness

-----------------------------------------------------------------------------
TypeOK == /\ program \in Programs
          /\ Signal!TypeOK /\ Tree!TypeOK /\ Copy!TypeOK /\ Dir!TypeOK /\ Ls!TypeOK
          /\ String!TypeOK /\ Lex!TypeOK /\ Exec!TypeOK /\ Music!TypeOK

\* handle_signals.c: nothing is counted behind the third SIGTSTP.
ThirdIsLast == Signal!ThirdIsLast
\* my_fork.c: a process outlives its children and reaps them.
ParentsEndLast == Tree!ParentsEndLast
\* my_copy.c: what a run that reports nothing has copied.
DoneMeansCopied == Copy!DoneMeansCopied
\* my_ls.c: an entry that is not removed is listed.
StaysMeansListed == Dir!StaysMeansListed
\* my_ls.c: the output shows the tree.
TreeCanBeRead == Dir!TreeCanBeRead
\* ls_server.c, ls_client.c: a client shows what the listing is.
ShowsWhole == Ls!ShowsWhole
\* ls_server.c: who has asked is answered unless somebody is stopped.
Answered == Ls!Answered
\* string.h: the functions against the C standard.
LikeTheStandard == String!LikeTheStandard
\* string.h: strtok returns the fields but the last.
TokensAreFields == String!TokensAreFields
\* parseC.c: comments and strings end where they do in the text.
InStep == Lex!InStep
\* parseC.c: a text that does not end within one of them is read to its end.
EndsUnlessOpen == Lex!EndsUnlessOpen
\* execute.c: the arguments are the words of the line.
ArgsAreWords == Exec!ArgsAreWords
\* execute.c: the first program that can be run is run.
RunsFirst == Exec!RunsFirst
\* MusicLibrary.c: a song that is listed is found.
FindsWhatIsListed == Music!FindsWhatIsListed
\* MusicLibrary.c: an insertion adds one song and keeps all others.
InsertionLosesNothing == Music!InsertionLosesNothing
=============================================================================
