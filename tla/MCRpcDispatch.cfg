SPECIFICATION Spec
CONSTANTS
  method = method
  fresh = fresh
  user = user
  first = first
  afresh = afresh
  again = again
  Method = Method
  Token = Token
  User = User
  header = header
  page = page
  item = item
  note = note
  prefs = prefs
  Uses <- MCUses
  root = method
  callable <- MCcallable
  deps <- MCdeps
  Cached <- MCCached
  params <- MCparams
  Whole <- MCWhole
  Required <- MCRequired
  NoId = NoId
  NoValue = NoValue
  NoReply = NoReply
INVARIANTS
  TypeOK
  NothingRunsUnchecked
  CachedCallsRunOnce
  CachedUsesAgree
  AllErrorsReported
  ReplyCarriesId
CHECK_DEADLOCK FALSE
