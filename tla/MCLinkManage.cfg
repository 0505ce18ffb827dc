SPECIFICATION Spec
CONSTANTS
  Identifiers = {g1, g2}
  Tags = {t1, t2}
  RemoteRanks = {r1, r2}
INVARIANTS
  TypeOK
  GroupIsUnionOfTags
PROPERTY
  TagListOnlyGrows
