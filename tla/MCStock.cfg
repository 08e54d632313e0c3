SPECIFICATION Spec
CONSTANTS
  Stores = {s1, s2}
  Products = {p1, p2}
  Levels = {few, many}
  s1 = s1
  s2 = s2
  p1 = p1
  p2 = p2
  few = few
  many = many
  Off = Off
  Sold = Sold
  HomeChoices <- MCHomes
  Shelves <- MCShelves
  NPages = 2
  MaxTears = 1
INVARIANT HistoryEndsAtRow
PROPERTY WholeStoreIsMirrored
