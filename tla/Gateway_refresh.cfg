SPECIFICATION GatewaySpec
CONSTANTS
  sam = sam
  Sam = Sam
  Spellings = {sam}
  Handles = {sam}
  Fold <- MCFold
  Routes = {"refresh"}
  Requests = {r1}
  Ids = {u1}
  Names = {n1}
  Bios = {empty}
  EmptyBio = empty
  Absent = absent
  Nobody = nobody
  PoolSize = 2
SYMMETRY Symmetry
INVARIANTS
  RejectedRefreshSaysNothing
