SPECIFICATION Spec
CONSTANTS
  boss = boss
  ana = ana
  shop = shop
  b1 = b1
  b2 = b2
  v1 = v1
  a1 = a1
  Browsers = {b1, b2}
  Emails = {boss, ana}
  Shops = {shop}
  MaxUsers = 3
  InviteIds = {v1}
  ApptIds = {a1}
  Seeds <- MCSeeds
  ProfileId = ProfileId
  None = None
CONSTRAINT AdminStays
SYMMETRY SameBrowsers
INVARIANTS
  AccountsTypeOK
  OneAccountPerAddress
  SessionMatchesAccount
  
  
CHECK_DEADLOCK FALSE
