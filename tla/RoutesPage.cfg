\* Two browsers, three routes, three events and two saves.
SPECIFICATION Spec
CONSTANTS
  Undefined = Undefined
  b1 = b1
  b2 = b2
  Browsers = {b1, b2}
  FirstRoutes <- MCFirstRoutes
  Paths = {" ", "/a", "/{"}
  URLs = {" ", "w"}
  Timeouts = {0}
  Prefixes = {"/p"}
  Rank <- MCRank
  NoRegex = {"/{"}
  MaxEvents = 3
  MaxSaves = 2
SYMMETRY BrowserSymmetry
INVARIANTS
  TypeOK
  OneTarget
PROPERTIES
  SaveChangesOneRow
