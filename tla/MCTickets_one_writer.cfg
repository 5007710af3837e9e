CONSTANTS
    p1 = p1
    p2 = p2
    p3 = p3
    p4 = p4
    ana = ana
    beto = beto
    alien = alien
    brazil = brazil
    NoTicket = NoTicket
    Process = {p1, p2}
    Users = {ana, beto}
    Movies = {alien, brazil}
    Level <- ZeroAndTwo
    ByteValues = 3
    MaxTickets = 2
    MaxServed = 3
SPECIFICATION SpecOneWriter
INVARIANTS
    NumbersAreUnique
    SoldIsOnDisk
    SentWithinQuota
PROPERTY
    ImplementsTicketBook
CHECK_DEADLOCK FALSE
