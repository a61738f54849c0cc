SPECIFICATION Spec
CONSTANTS
  n1 = n1
  n2 = n2
  p1 = p1
  t1 = t1
  h1 = h1
  o1 = o1
  Empty = Empty
  FactoryOptions = FactoryOptions
  Nothing = Nothing
  Ssids <- MCSsids
  Passwords <- MCPasswords
  TokenStrings <- MCTokens
  Hostnames <- MCHostnames
  OptionSets <- MCOptions
INVARIANTS
  TypeOK
  FlagsTellContents
  OwnBlobsBoot
PROPERTIES
  ResetKeepsNetwork
  KeepsPromise
