CONSTANTS
  c1 = c1
  fn = fn
  gen = gen
  Calls = {c1}
  fnr = fnr
  genr = genr
  Methods = {fn, fnr, gen, genr}
  Generators = {gen, genr}
  Renderers = {fnr, genr}
  Public = {fn, genr}
  WithArgs = {fnr, genr}
  OwnCodes = {}
  MaxItems = 1
SPECIFICATION Spec
INVARIANT EmptyStreamIsNoContent
CHECK_DEADLOCK FALSE
