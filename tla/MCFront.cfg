CONSTANTS
  Names = {1, 2, 4}
  Genres = {1, 2, 3}
  Values = {5, 20, 25, 31}
  Malformed = Malformed
  Files <- MCFiles
  Clients = {c1, c2}
  Process = {server, child}
  First = server
  FDs = {1, 2}
  Requests <- MCRequests
  Opened <- MCOpened
  Queue = 2
  None = None
  Nobody = Nobody
  Junk = Junk
  Leaked = Leaked
SPECIFICATION FairSpec
INVARIANTS
  TypeOK CatalogueIsComplete DescriptorsAreOpen ServedOnce BlockedOnlyByLost
  TerminalGetsTheCatalogue MessagesArriveWhole
PROPERTIES
  ServedAtLast
CHECK_DEADLOCK FALSE
