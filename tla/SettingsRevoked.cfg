\* Two browsers at the security page: a tab, a deletion, another tab, two saves.
SPECIFICATION Spec
CONSTANTS
  Undefined = Undefined
  Blank = Blank
  Broken = Broken
  b1 = b1
  b2 = b2
  Browsers = {b1, b2}
  Visits <- SecurityVisits
  FirstConfig <- MCFirstConfig
  Drafts <- MCDrafts
  RulePaths = {"", "/p"}
  Amounts = {7}
  Methods = {"GET"}
  Codes = {0, 99}
  CommonCodes = {301}
  ExcludePaths = {"", "/x"}
  Sizes = {0}
  Texts = {"t"}
  Expiries = {0}
  KeyIds = {"", "k"}
  NewKeys = {"new"}
  IPs = {"", "a", "bad"}
  ValidIPs = {"a"}
  MaxEvents = 3
  MaxSaves = 2
INVARIANT
  RevokedStaysRevoked
