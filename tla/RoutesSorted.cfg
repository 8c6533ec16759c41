\* One browser: the table is sorted and a row is edited.
SPECIFICATION Spec
CONSTANTS
  Undefined = Undefined
  b1 = b1
  b2 = b2
  Browsers = {b1}
  FirstRoutes <- MCFirstRoutes
  Paths = {"/a"}
  URLs = {"w"}
  Timeouts = {0}
  Prefixes = {"/p"}
  Rank <- MCRank
  NoRegex = {"/{"}
  MaxEvents = 2
  MaxSaves = 1
PROPERTIES
  EditHitsTheRowShown
