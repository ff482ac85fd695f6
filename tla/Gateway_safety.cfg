SPECIFICATION GatewaySpec
CONSTANTS
  sam = sam
  Sam = Sam
  Spellings = {sam, Sam}
  Handles = {sam}
  Fold <- MCFold
  Routes = {"register", "profile", "update"}
  Requests = {r1, r2, r3}
  Ids = {u1, u2}
  Names = {}
  Bios = {empty, b1}
  EmptyBio = empty
  Absent = absent
  Nobody = nobody
  PoolSize = 2
SYMMETRY Symmetry
INVARIANTS
  StatusIsTrue
  ReadsFollowWrites
