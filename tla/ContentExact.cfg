SPECIFICATION LiveSpec
CONSTANTS
  s1 = s1
  s2 = s2
  p1 = p1
  p2 = p2
  Sections = {s1, s2}
  Pages = {p1, p2}
  Home <- PagesApart
  MaxTime = 3
  MaxFaults = 2
  ShortLists = FALSE
INVARIANTS NothingMissed
PROPERTIES Converges
