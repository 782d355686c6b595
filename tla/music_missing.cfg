\* A song that was put in and not removed is said not to exist.
CONSTANTS
    Titles = {0, 1, 2, 3}
    Fold <- NoTwins
    MaxSongs = 4
    MinSongs <- MCMinSongs
SPECIFICATION OwnedSpec
INVARIANT NotExistIsTrue
