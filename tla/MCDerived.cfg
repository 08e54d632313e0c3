SPECIFICATION Spec
CONSTANTS
  Products = {p1, p2}
  Texts = {t1, t2}
  Silent = Silent
  Off = Off
  NTemplates = 2
  Attempts = 2
  BatchSize = 1
  Parallel = 2
INVARIANTS TypeOK StaleIsOwed
PROPERTIES RepairRunRepairs
