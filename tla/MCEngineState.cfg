SPECIFICATION Spec
CONSTANTS
  t1 = t1
  t2 = t2
  warn = warn
  error = error
  empty = empty
  find = find
  Keys = {h1, h2}
  Overflow = overflow
  Levels <- MCLevels
  Error = error
  Unknown = unknown
  Text = {t1, t2}
  Masks <- MCMasks
  Searches = {empty, find}
  NoSearch = empty
  Matches <- MCMatches
  AnySource = any
  Names = {db}
  MaxSources = 1
  PerSourceLines = 2
  GlobalLines = 3
  MaxEvents = 3
  MaxCommands = 2
  None = None
INVARIANT TypeOK
INVARIANT SnapshotIsFresh
INVARIANT SourcesBounded
INVARIANT BuffersAgree
PROPERTY SettingsLast
CHECK_DEADLOCK FALSE
