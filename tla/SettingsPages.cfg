\* Two browsers: two edits, or one edit and one failure, and two saves.
SPECIFICATION Spec
CONSTANTS
  Undefined = Undefined
  Blank = Blank
  Broken = Broken
  b1 = b1
  b2 = b2
  Browsers = {b1, b2}
  Visits <- MCVisits
  FirstConfig <- MCFirstConfig
  Drafts <- MCDrafts
  RulePaths = {"", "/p"}
  Amounts = {7}
  Methods = {"GET"}
  Codes = {0, 99}
  CommonCodes = {301}
  ExcludePaths = {"", "/x"}
  Sizes = {0}
  Texts = {"t"}
  Expiries = {0}
  KeyIds = {"", "k"}
  NewKeys = {"new"}
  IPs = {"", "a", "bad"}
  ValidIPs = {"a"}
  MaxEvents = 2
  MaxSaves = 2
INVARIANTS
  TypeOK
  ReadYourWrites
PROPERTIES
  SavesChangeOnlyWhatWasAsked
  EditorKeepsDraft
  CopiesConverge
