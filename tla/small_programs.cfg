\* The programs that stand alone, one at a time.
CONSTANTS
    MaxSent <- MCMaxSent
    Num = 1
    BufSize = 2
    MaxFile = 3
    MaxRepeat = 2
    Nodes = {"root", "dir", "sub", "one", "two", "device"}
    Root = "root"
    Parent <- MCParent
    Kind <- MCKind
    LsClients = {k1, k2}
    Names = 2
    Blocks = 2
    Window = 1
    Chars <- MCChars
    MaxString = 3
    SizeMod = 16
    MaxLine = 4
    MaxPath = 3
    Titles = {0, 1, 2, 3}
    Fold <- MCFold
    MaxSongs = 3
    MinSongs <- MCMinSongs
SPECIFICATION Spec
INVARIANTS TypeOK ThirdIsLast ParentsEndLast DoneMeansCopied
           StaysMeansListed TreeCanBeRead ShowsWhole
           LikeTheStandard TokensAreFields InStep ArgsAreWords RunsFirst FindsWhatIsListed
PROPERTIES Answered EndsUnlessOpen InsertionLosesNothing
CHECK_DEADLOCK FALSE
