CONSTANTS
  threads = 3
  Pictures <- MCPictures
  ForeignFiles <- MCForeignFiles
  Leftovers = {0, 1}
  Spaces = {1, 2}
  Room = 20
SPECIFICATION FairSpec
INVARIANTS
  PictureIntact
  NothingLost
  FinalHistogram
  TicketsInLine
PROPERTIES
  Termination
