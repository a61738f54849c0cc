SPECIFICATION Spec
CONSTANTS
  Bytes <- Symbols
  Width <- Widths
  Forms <- Typed
  Networks <- Reachable
  Requests <- ClientRequests
  Word = 256
  PanelWidth = 40
  PanelHeight = 32
INVARIANTS
  TypeOK
  JoinsAsTyped
  TokenOpens
  DrawnIsShown
