SPECIFICATION LoadingSpec
CONSTANTS
  home = home
  work = work
  a = a
  b = b
  slash = slash
  plain = plain
  usesB = usesB
  forcesB = forcesB
  usesA = usesA
  Directory = {home, work}
  Name = {a, b, slash}
  Absolute = {slash}
  Text = {usesB, forcesB, usesA}
  Imports <- MCImports
  Holds <- MCHolds
  Unterminated = {usesA}
  Wide = TRUE
  Libraries <- MCLibraries
  MaxLibraries = 2
  MaxDate = 3
  Nil = Nil
INVARIANTS LoadingTypeOK NothingNewSkipped NotLoadedWithinItself
PROPERTIES LoadsEnd
CHECK_DEADLOCK FALSE
