SPECIFICATION FairGatewaySpec
CONSTANTS
  sam = sam
  Sam = Sam
  Spellings = {sam}
  Handles = {sam}
  Fold <- MCFold
  Routes = {"register", "login", "refresh", "profile", "update"}
  Requests = {r1, r2}
  Ids = {u1, u2}
  Names = {n1}
  Bios = {empty}
  EmptyBio = empty
  Absent = absent
  Nobody = nobody
  PoolSize = 2
INVARIANTS
  GatewayTypeOK
  ServerErrorsSayNothing
PROPERTIES
  EveryRequestIsAnswered
