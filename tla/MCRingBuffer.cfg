SPECIFICATION Spec
CONSTANTS
  Entry = {blank, a, b}
  Blank = blank
  Requested = 3
  MaxVersion = 8
INVARIANT TypeOK
PROPERTY KeepsLatestEntries
PROPERTY VersionTracksItems
CHECK_DEADLOCK FALSE
