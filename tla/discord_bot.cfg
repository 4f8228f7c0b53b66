SPECIFICATION Spec
CONSTANTS
  None = None
  home = home
  inner = inner
  outer = outer
  dm = dm
  Channel = {inner, outer, dm}
  Thread = {inner}
  Private = {dm}
  Home = home
  Under = {inner}
  Message <- Arriving
  Handler = {h1}
  Outgoing <- Sent
  MaxLen = 4
  TTL = 2
  MaxTime = 2
  MaxMoves = 1
  MaxFaults = 1
INVARIANTS
  NeverStaler
  PostingJoins
  AllIsPosted
CHECK_DEADLOCK FALSE
