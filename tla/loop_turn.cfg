SPECIFICATION FairSpec
CONSTANTS
  None = None
  Tool = {look, write, report}
  Reads = {look, report}
  Verbatims = {report, write}
  Asks = {}
  Changing = {}
  Arg = {x}
  Text = {news, more}
  MaxTurns = 1
INVARIANTS
  HonestReply
PROPERTIES
  RepeatsAreCurrent
  TurnEnds
CHECK_DEADLOCK FALSE
