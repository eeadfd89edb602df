SPECIFICATION Spec
CONSTANTS
  Files = Files
  Users = Users
  Clock = Clock
  fread = fread
  fwrite = fwrite
  uread = uread
  ufind = ufind
  creset = creset
  cping = cping
  limit = limit
  named = named
  shared = shared
  filter = filter
  user = user
  preset = preset
  Classes <- MCClasses
  Functions <- MCFunctions
  functions <- MCfunctions
  path <- MCpath
  name <- MCname
  BuiltIns <- MCBuiltIns
  Protected <- MCProtected
  attributes <- MCattributes
  Names <- MCNames
  Markers <- MCMarkers
  kind <- MCkind
  given <- MCgiven
  Defaulted <- MCDefaulted
  declarations <- MCdeclarations
INVARIANT ServesOnlyItsOwn
CHECK_DEADLOCK FALSE
