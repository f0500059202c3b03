SPECIFICATION Spec
CONSTANTS
  Platforms = {local, web}
  local = local
  web = web
  Local = local
  Updaters = {u1, u2}
  Resolvers = {r1}
  None = None
  ComicChapters <- MCChapters
  Number <- MCNumber
  Created <- MCCreated
  Links <- MCLinks
SYMMETRY Symmetry
INVARIANTS
  TypeOK
  FirstIsCanonical
  NumberDecides
  OrderedIsRemote
PROPERTIES
  DeprecationStands
