SPECIFICATION CatSpec
CONSTANTS
  Products = {p1, p2}
  Gifts = {p2}
  Values = {v1, v2}
  Off = Off
  NPages = 2
INVARIANTS CatTypeOK HistoryExplainsRow ListedValueIsStored
PROPERTIES OnlyDroppedIsDiscontinued
