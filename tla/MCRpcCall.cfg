CONSTANTS
  c1 = c1
  c2 = c2
  fn = fn
  gen = gen
  Calls = {c1, c2}
  Methods = {fn, gen}
  Generators = {gen}
  Renderers = {gen}
  Public = {fn}
  WithArgs = {fn}
  OwnCodes = {403}
  MaxItems = 1
SPECIFICATION Spec
INVARIANTS TypeOK TallyExact
PROPERTY KeepsPromise
SYMMETRY CallSymmetry
CHECK_DEADLOCK FALSE
