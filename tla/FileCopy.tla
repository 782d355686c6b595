------------------------------ MODULE FileCopy ------------------------------
(***************************************************************************)
(* my_copy.c: three ways to copy a file, repeated as often as the command  *)
(* line says.  A file is the sequence of its bytes; of these only 255 is   *)
(* told apart, which a (signed) char cannot tell from EOF.  How much room  *)
(* there is on the disk changes at any time with what others write and     *)
(* remove, so that a file that has to grow may be cut short at one write   *)
(* and not at the next.  Files do not fail to be read; the clocks that are *)
(* read around a copy are left out.                                        *)
(***************************************************************************)
EXTENDS Integers, Sequences

CONSTANTS BufSize,    \* BUFSIZ
          MaxLength,  \* bound of the model: the length of a file
          MaxRepeat   \* bound of the model: what atoi(argv[4]) returns

FileCopyAssumption ==
    BufSize \in Nat \ {0} /\ MaxLength \in Nat /\ MaxRepeat \in Nat

VARIABLES pc,        \* "start", "next", "copy", or "done", "failed", "crashed"
          method, repeat, target,  \* of the command line; the source is file 1
          disk,      \* files 1 and 2, or NoFile
          rd, wr,    \* offsets of the two open files
          cut,       \* where the first write that was cut short stopped, or
                     \* MaxLength
          said,      \* "Cant open both file" was printed
          before     \* disk and repeat at the start

vars == <<pc, method, repeat, target, disk, rd, wr, cut, said, before>>

NoFile == <<0>>
Contents == UNION {[1..n -> {7, 255}] : n \in 0..MaxLength}

Init ==
    /\ pc = "start" /\ method = 0 /\ repeat = 0 /\ target = 1
    /\ disk = <<NoFile, NoFile>> /\ rd = 0 /\ wr = 0 /\ cut = MaxLength
    /\ said = FALSE /\ before = <<disk, repeat>>

\* decide_repeat: 1 without a fourth argument, else what it says.
Start ==
    /\ pc = "start" /\ pc' = "next"
    /\ method' \in 0..3 /\ repeat' \in 0..MaxRepeat /\ target' \in {1, 2}
    /\ \E one, two \in Contents \cup {NoFile} : disk' = <<one, two>>
    /\ before' = <<disk', repeat'>>
    /\ UNCHANGED <<rd, wr, cut, said>>

-----------------------------------------------------------------------------
Again == pc' = "next" /\ repeat' = repeat - 1

Finish ==
    /\ pc = "next" /\ repeat = 0 /\ pc' = "done"
    /\ UNCHANGED <<method, repeat, target, disk, rd, wr, cut, said, before>>

WrongInputs ==
    /\ pc = "next" /\ repeat > 0 /\ method = 0
    /\ Again
    /\ UNCHANGED <<method, target, disk, rd, wr, cut, said, before>>

\* check_file closes the file that is not open and crashes, check_file_2 does
\* not; main goes on with the next round.
CannotOpen ==
    IF method = 1 THEN pc' = "crashed" /\ UNCHANGED <<repeat, said>>
                  ELSE Again /\ said' = TRUE

\* The target is emptied by method 1, and made by all of them if it is not
\* there, before anyone looks whether there is a source.
MakeTarget ==
    disk' = [disk EXCEPT ![target] = IF method = 1 \/ @ = NoFile THEN <<>> ELSE @]

Open ==
    /\ pc = "next" /\ repeat > 0 /\ method # 0
    /\ MakeTarget
    /\ rd' = 0 /\ wr' = 0
    /\ IF disk[1] = NoFile THEN CannotOpen ELSE pc' = "copy" /\ UNCHANGED <<repeat, said>>
    /\ UNCHANGED <<method, target, cut, before>>

\* The target cannot be opened, or a source that is there cannot.
OpenFails ==
    /\ pc = "next" /\ repeat > 0 /\ method # 0
    /\ UNCHANGED disk \/ MakeTarget
    /\ CannotOpen
    /\ UNCHANGED <<method, target, rd, wr, cut, before>>

-----------------------------------------------------------------------------
Left == Len(disk[1]) - rd

Least(m, n) == IF m < n THEN m ELSE n

\* print_time_1: fputc's failure on a full disk is not looked at.
CopyChar ==
    /\ pc = "copy" /\ method = 1 /\ Left > 0 /\ disk[1][rd + 1] # 255
    /\ rd' = rd + 1
    /\ \/ /\ disk' = [disk EXCEPT ![target] = Append(@, disk[1][rd + 1])]
          /\ UNCHANGED cut
       \/ cut' = Least(cut, Len(disk[target])) /\ UNCHANGED disk
    /\ UNCHANGED <<pc, method, repeat, target, wr, said, before>>

Chunk == IF method = 2 THEN 1 ELSE BufSize

\* The file with k bytes at offset wr put in, behind its end where need be.
Overlay(file, bytes) ==
    SubSeq(file, 1, wr) \o bytes \o SubSeq(file, wr + Len(bytes) + 1, Len(file))

\* (fault) "write(oop, buff, BUFSIZ)"
CopyBlockFull ==
    /\ pc = "copy" /\ method # 1 /\ Left > 0
    /\ disk' = [disk EXCEPT ![target] =
                  Overlay(@, [i \in 1..Chunk |-> IF i <= Left THEN disk[1][rd + i] ELSE 7])]
    /\ rd' = rd + Least(Chunk, Left) /\ wr' = wr + Chunk
    /\ UNCHANGED <<pc, method, repeat, target, cut, said, before>>

\* print_time_2 and print_time_3: write() returns how much it could write, at
\* least what needs no more room, and only if that is nothing does it fail.
\* The loop looks for failure alone: it reads on behind all it has read and
\* writes on behind what was written.
CopyBlock ==
    /\ pc = "copy" /\ method # 1 /\ Left > 0
    /\ LET count == Least(Chunk, Left)
           over == Len(disk[target]) - wr
       IN \E n \in Least(count, over)..count :
             IF n = 0
             THEN pc' = "failed" /\ UNCHANGED <<disk, rd, wr, cut>>
             ELSE /\ disk' = [disk EXCEPT ![target] =
                                Overlay(@, SubSeq(disk[1], rd + 1, rd + n))]
                  /\ rd' = rd + count /\ wr' = wr + n
                  /\ cut' = IF n < count THEN Least(cut, wr') ELSE cut
                  /\ UNCHANGED pc
    /\ UNCHANGED <<method, repeat, target, said, before>>

\* In method 1 the byte 255 is taken for the end.
EndOfFile ==
    /\ pc = "copy" /\ IF Left = 0 THEN TRUE ELSE method = 1 /\ disk[1][rd + 1] = 255
    /\ Again
    /\ UNCHANGED <<method, target, disk, rd, wr, cut, said, before>>

Next == \/ Start \/ Finish \/ WrongInputs \/ Open \/ OpenFails
        \/ CopyChar \/ CopyBlock \/ EndOfFile

-----------------------------------------------------------------------------
Bytes(file) == IF file = NoFile THEN <<>> ELSE file
Old == Bytes(before[1][target])
Original == Bytes(before[1][1])

TypeOK ==
    /\ pc \in {"start", "next", "copy", "done", "failed", "crashed"}
    /\ method \in 0..3 /\ repeat \in 0..MaxRepeat /\ target \in {1, 2}
    /\ \A f \in {1, 2} : disk[f] \in Contents \cup {NoFile}
    /\ rd \in 0..MaxLength /\ wr \in 0..MaxLength /\ cut \in 0..MaxLength
    /\ said \in BOOLEAN

\* Up to where the first write was cut short, each byte of the target is the
\* source's or the old target's at that place.
InPlace ==
    \A i \in 1..Len(Bytes(disk[target])) : i <= cut =>
        \/ i <= Len(Original) /\ disk[target][i] = Original[i]
        \/ i <= Len(Old) /\ disk[target][i] = Old[i]

\* A run that ends with exit status 0 and no message has copied the file, with
\* whatever was longer in the target left behind it by methods 2 and 3.  The
\* exceptions are all there are: method 1 stops at a byte 255 and empties a file
\* that it copies on itself; and methods 1 and 3 go on when a write is cut
\* short, which loses the bytes behind it and, if there is room again, puts
\* the next ones in their place.  No byte in front of the first such write is
\* ever misplaced, in no state of any run (lines 10-22, 49-61, 88-101).
DoneMeansCopied ==
    /\ InPlace
    /\ pc = "done" /\ ~said /\ method # 0 /\ before[2] > 0 =>
        \/ disk[target] = Original \o SubSeq(Old, IF method = 1 THEN Len(Old) + 1
                                                  ELSE Len(Original) + 1, Len(Old))
        \/ method = 1 /\ (target = 1 \/ \E i \in 1..Len(Original) : Original[i] = 255)
        \/ method # 2 /\ cut < Len(Original)
=============================================================================
