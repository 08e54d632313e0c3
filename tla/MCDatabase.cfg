SPECIFICATION Spec
CONSTANTS
  a = a
  b = b
  c = c
  d = d
  None = None
  Shas = {a, b, c, d}
  Migrators = {p1, p2}
  Servers = {s1}
  NVersions = 3
  Releases <- MCReleases
  MaxWrites = 2
INVARIANTS
  SchemaIsApplied
  ServedIsMigrated
  SnapshotRestores
