-------------------------- MODULE MCSmallPrograms --------------------------
(* Small instances of the programs that stand alone.                         *)
EXTENDS SmallPrograms, TLC

MCMaxSent == [INT |-> 2, QUIT |-> 1, TSTP |-> 4]

\* The directory "root" with three entries, one of them a directory.
MCParent == "dir" :> "root" @@ "one" :> "root" @@ "device" :> "root"
            @@ "sub" :> "dir" @@ "two" :> "dir"
MCKind == [root |-> "dir", dir |-> "dir", sub |-> "dir",
           one |-> "file", two |-> "file", device |-> "other"]

\* The char -1 is 255 as an unsigned char.
MCChars == {1, 2, -1}

\* The titles 1 and 2 differ in case only.
MCFold == 0 :> 0 @@ 1 :> 1 @@ 2 :> 1 @@ 3 :> 2
MCMinSongs == -1
=============================================================================
