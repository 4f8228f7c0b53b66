SPECIFICATION Spec
CONSTANTS
  None = None
  Tool = {write, ask}
  Reads = {}
  Verbatims = {}
  Asks = {ask}
  Changing = {write}
  Arg = {x, y}
  Text = {news}
  MaxTurns = 2
INVARIANTS
  OnlyApprovedRuns
CHECK_DEADLOCK FALSE
