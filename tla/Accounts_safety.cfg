\* Three calls over two connections: registrations race for a handle, updates
\* of one account overlap, and a third call finds the pool exhausted.
SPECIFICATION MCSpec
CONSTANTS
  TypedHandles <- MCTypedHandles
  TypedNames <- MCTypedNames
  TypedBios <- MCTypedBios
  HandleMin = 2
  HandleMax = 3
  NameMax = 3
  BioMax = 3
  Spellings <- AcceptedHandles
  Handles <- MCHandles
  Fold <- MCFold
  Names <- AcceptedNames
  Bios <- AcceptedBios
  EmptyBio <- MCEmptyBio
  Requests = {r1, r2, r3}
  Ids = {u1, u2}
  Absent = absent
  Nobody = nobody
  PoolSize = 2
  r1 = r1
  r2 = r2
  r3 = r3
  u1 = u1
  u2 = u2
INVARIANTS
  TypeOK
  OneAccountPerHandle
  CredentialsBelong
  AnswersAreTrue
  UpdatesStand
  SomeCallCanProceed
  StoredTextsArePresentable
  ReadBackChangesNothing
PROPERTIES
  ImplementsDirectory
  EveryCallEnds
