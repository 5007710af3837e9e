CONSTANTS
    p1 = p1
    p2 = p2
    p3 = p3
    p4 = p4
    ana = ana
    beto = beto
    alien = alien
    brazil = brazil
    NoTicket = NoTicket
    Process = {p1, p2, p3, p4}
    Users = {ana}
    Movies = {alien}
    Level <- LevelTwo
    ByteValues = 3
    MaxTickets = 1
    MaxServed = 4
SPECIFICATION SpecFilesWhole
INVARIANT
    SentWithinLevel
