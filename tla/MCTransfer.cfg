CONSTANTS
    d1 = d1
    d2 = d2
    up = up
    Movies = {up}
    Downloads = {d1, d2}
    Movie <- MovieOf
    Size <- SizeOf
    FileSize = 2
    MaxTotal = 5
SPECIFICATION FairSpec
INVARIANTS
    TypeOK
    AnnouncedIsWhole
PROPERTY DownloadEnds
CHECK_DEADLOCK FALSE
