SPECIFICATION ServiceSpec
CONSTANT Programs <- MCPrograms
CONSTANT Samples <- MCSamples
CONSTANT Data <- MCData
CONSTANT Encode <- MCEncode
CONSTANT Json <- MCJson
CONSTANT Odd <- MCOdd
INVARIANTS ListedIsCallable AllOrPrefix ConvertsExactly SameVersion CommandsMatchManifest
CHECK_DEADLOCK FALSE
