SPECIFICATION CatSpec
CONSTANTS
  Products = {p1, p2}
  Gifts = {p2}
  Values = {v1}
  Off = Off
  NPages = 2
PROPERTIES DroppedIsNoticed DetailsArrive
