SPECIFICATION FairSpec
CONSTANTS
  home = home
  other = other
  ana = ana
  s1 = s1
  c1 = c1
  c2 = c2
  Shops = {home, other}
  Home = home
  Services = {s1}
  Barbers = {ana}
  ShopOf <- MCShopOf
  Data = {1, 2}
  Rows <- MCRows
  Patches <- MCPatches
  Calls = {c1, c2}
  None = None
INVARIANTS
  CatalogTypeOK
  NothingNamesAGoneService
  DeletedStaysOffTheList
  OfferedIsAccepted
PROPERTIES
  OnlyOwnShopChanges
  
  
CONSTRAINT Bounded
CHECK_DEADLOCK FALSE
