---------------------------- MODULE MCMusicOwned ----------------------------
(* One run of the music library, with a history variable: the songs its user *)
(* has put in and not removed.  Every song has a title.                      *)
EXTENDS MusicLibrary, TLC

MCMinSongs == -1
NoTwins == 0 :> 0 @@ 1 :> 1 @@ 2 :> 2 @@ 3 :> 3

VARIABLE owned

OwnedInit == Init /\ owned = {}

OwnedNext ==
    \/ LoadEnds /\ UNCHANGED owned
    \/ \E t \in Titles \ {0} :
        \/ Insert(t) /\ owned' = owned \cup {t}
        \/ Delete(t) /\ owned' = owned \ {t}
        \/ (LookUp(t) \/ Misses(t)) /\ UNCHANGED owned

OwnedSpec == OwnedInit /\ [][OwnedNext]_<<vars, owned>>

\* "%s not exist, can't be looked up" (line 196) and "... removed" (line 180)
\* are only said of a song that the user has not put in, or has removed.
NotExistIsTrue == answer[1] = "no" => answer[2] \notin owned
=============================================================================
