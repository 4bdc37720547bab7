CONSTANTS
  c1 = c1
  fn = fn
  gen = gen
  Calls = {c1}
  fnr = fnr
  genr = genr
  Methods = {fn, fnr, gen, genr}
  Generators = {gen, genr}
  Renderers = {fnr, genr}
  Public = {fn, genr}
  WithArgs = {fnr, genr}
  OwnCodes = {403}
  MaxItems = 4
SPECIFICATION ClientSpec
INVARIANTS StatusSettled NoItemLost BlockedOnlyIfAbandoned GotInOrder ClosedIsComplete
PROPERTIES DisconnectFreesHandler StubEnds
CHECK_DEADLOCK FALSE
