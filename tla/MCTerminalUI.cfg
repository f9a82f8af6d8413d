SPECIFICATION Spec
CONSTANTS
  Ids = {l1}
  Default = l1
  Sources = {s1}
  Texts = {text}
  NoText = noText
  Levels = {info, error}
  NoSource = noSource
  MaxLines = 2
  Heights = {1, 2}
  CommandSize = 1
  MaxFetches = 2
  MaxEvents = 3
  None = None
INVARIANT TypeOK
INVARIANT SearchAgrees
PROPERTY Settles
CHECK_DEADLOCK FALSE
