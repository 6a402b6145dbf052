CONSTANTS
  MaxInt = 20
  MaxWord = 9
  MaxHalves = 60
  Kilo = 2
  Kibi = 2
  MaxAddress = 9
  MaxNesting = 4
  MaxArguments = 3
  MaxSetMembers = 3
  WordBits = 2
  MaxMode = 1
  Chars <- Texts
  Contexts <- Traces
  Corpus <- Diverging
  Later <- Diverging
  Spelled <- Spellings
  Malformed <- Garbage
  Depth = 6
  Parser <- Parse
  Lowering <- Lower
  NoPlan <- Refused
  BlocksOf <- Blocks
  Scanning <- ScanBlock
SPECIFICATION Spec
INVARIANT PlanAgreesWithOracle
