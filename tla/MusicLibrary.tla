---------------------------- MODULE MusicLibrary ----------------------------
(***************************************************************************)
(* "C Program/MusicLibrary.c": an array of songs sorted by title, the      *)
(* commands I, D, L and Q, and the file in which the songs are kept from   *)
(* one run to the next.  A song stands for its title; artist and year      *)
(* travel with it.  P prints and changes nothing.                          *)
(***************************************************************************)
EXTENDS Integers, Sequences, FiniteSets

CONSTANTS Titles,    \* 0 is the empty title, which unused elements have
          Fold,      \* a title's place in the order of strcasecmp
          MaxSongs,  \* bound of the model: no more songs are inserted
          MinSongs   \* bound of the model: the counter is not taken lower

TitlesAssumption == 0 \in Titles /\ Fold \in [Titles -> Int]
BoundsAssumption == MaxSongs \in Nat /\ MinSongs \in Int /\ MinSongs < 0

VARIABLES pc,        \* "load", "menu", "store" (the file is open) or "off"
          library,   \* music_library, with one element behind MaxSongs
          number,    \* current_number_of_songs
          file,      \* the titles in the file
          loaded,    \* how many of them have been read
          answer     \* of the last D or L: "yes" or "no", and the title

vars == <<pc, library, number, file, loaded, answer>>

Slots == 0..MaxSongs
Silent == <<"", 0>>

Init ==
    /\ pc = "load" /\ file = <<>> /\ loaded = 0
    /\ library = [i \in Slots |-> 0] /\ number = 0
    /\ answer = Silent

-----------------------------------------------------------------------------
\* binary_search: where the title is, or else where it belongs.
BinarySearch(title, min, max) ==
    LET search[range \in Int \X Int] ==
            LET lo == range[1]  hi == range[2]  mid == (lo + hi) \div 2 IN
            IF hi < lo THEN lo
            ELSE IF Fold[library[mid]] > Fold[title] THEN search[<<lo, mid - 1>>]
            ELSE IF Fold[library[mid]] < Fold[title] THEN search[<<mid + 1, hi>>]
            ELSE mid
    IN search[<<min, max>>]

\* (fault) the last song is not searched
FindShort(title) == BinarySearch(title, 0, number - 2)

Find(title) == BinarySearch(title, 0, number - 1)

\* (fault) "i > index": one song is not moved
CrunchDownShort(index) ==
    [j \in Slots |-> IF index + 1 < j /\ j <= number THEN library[j-1] ELSE library[j]]

\* Everything from index on is moved up by one.
CrunchDown(index) ==
    [j \in Slots |-> IF index < j /\ j <= number THEN library[j-1] ELSE library[j]]

\* The loop assigns to the one element again and again.
CrunchUp(index) ==
    IF index < number THEN [library EXCEPT ![index] = library[index + 1]] ELSE library

\* add_song_to_MusicLibrary and add_the_song_to_MusicLibrary
AddSong(title) ==
    LET index == Find(title) IN
    /\ library' = [CrunchDown(index) EXCEPT ![index] = title]
    /\ number' = number + 1

Exists(title) == library[Find(title)] = title

-----------------------------------------------------------------------------
LoadSong ==
    /\ pc = "load" /\ loaded < Len(file)
    /\ AddSong(file[loaded + 1])
    /\ loaded' = loaded + 1
    /\ UNCHANGED <<pc, file, answer>>

LoadEnds ==
    /\ pc = "load" /\ loaded = Len(file)
    /\ pc' = "menu"
    /\ UNCHANGED <<library, number, file, loaded, answer>>

Insert(title) ==
    /\ pc = "menu" /\ number < MaxSongs
    /\ AddSong(title)
    /\ answer' = Silent
    /\ UNCHANGED <<pc, file, loaded>>

Delete(title) ==
    /\ pc = "menu" /\ number > MinSongs
    /\ Exists(title)
    /\ library' = CrunchUp(Find(title))
    /\ number' = number - 1
    /\ answer' = <<"yes", title>>
    /\ UNCHANGED <<pc, file, loaded>>

LookUp(title) ==
    /\ pc = "menu" /\ Exists(title)
    /\ answer' = <<"yes", title>>
    /\ UNCHANGED <<pc, library, number, file, loaded>>

\* "%s not exist, can't be ...", from D and from L
Misses(title) ==
    /\ pc = "menu" /\ ~Exists(title)
    /\ answer' = <<"no", title>>
    /\ UNCHANGED <<pc, library, number, file, loaded>>

\* Q: fopen empties the file ...
Quit ==
    /\ pc = "menu" /\ pc' = "store"
    /\ file' = <<>> /\ answer' = Silent
    /\ UNCHANGED <<library, number, loaded>>

\* ... and fclose writes the songs.
Store ==
    /\ pc = "store" /\ pc' = "off"
    /\ file' = [i \in 1..number |-> library[i-1]]
    /\ UNCHANGED <<library, number, loaded, answer>>

\* The user kills the program, wherever it is.
Kill ==
    /\ pc # "off" /\ pc' = "off"
    /\ answer' = Silent
    /\ UNCHANGED <<library, number, file, loaded>>

\* The next run of the program.
Start ==
    /\ pc = "off" /\ pc' = "load" /\ loaded' = 0
    /\ library' = [i \in Slots |-> 0] /\ number' = 0
    /\ UNCHANGED <<file, answer>>

Command == \E t \in Titles : Insert(t) \/ Delete(t) \/ LookUp(t) \/ Misses(t)

Next == LoadSong \/ LoadEnds \/ Command \/ Quit \/ Store \/ Kill \/ Start

Spec == Init /\ [][Next]_vars

-----------------------------------------------------------------------------
Listed == 0..number-1
Count(title) == Cardinality({i \in Listed : library[i] = title})
Sorted == \A i, j \in Listed : i <= j => Fold[library[i]] <= Fold[library[j]]

TypeOK ==
    /\ pc \in {"load", "menu", "store", "off"}
    /\ library \in [Slots -> Titles] /\ number \in MinSongs..MaxSongs
    /\ file \in Seq(Titles) /\ Len(file) <= MaxSongs /\ loaded \in 0..MaxSongs
    /\ answer \in {"", "yes", "no"} \X Titles

\* A song that is listed is found, if no other title that differs from it in
\* case only is listed: the search ignores case, the check (line 168) does not.
FindsWhatIsListed ==
    \A i \in Listed : (\A j \in Listed : Fold[library[j]] = Fold[library[i]]
                                            => library[j] = library[i])
                        => Exists(library[i])

\* An insertion, by command or from the file, puts one song in, keeps all
\* others and leaves them sorted (lines 145-164, 206-227).  The exception is a
\* counter below 0, where a removal of the empty title or of one that a faulty
\* removal left behind takes it: then the song that is inserted is not listed,
\* because the counter is 0 or less behind the insertion too.
InsertionLosesNothing ==
    [][number' = number + 1 =>
           IF number < 0 THEN Listed' = {}
           ELSE /\ Sorted'
                /\ \E t \in Titles : \A u \in Titles :
                      Count(u)' = Count(u) + (IF u = t THEN 1 ELSE 0)]_vars
=============================================================================
