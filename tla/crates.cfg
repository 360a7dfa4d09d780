CONSTANTS
  Names <- MCNames
  ItemNames <- MCItemNames
  OwnUnusual <- MCOwnUnusual
  UnusualNames <- MCUnusualNames
  Files <- MCFiles
  MaxDepth = 4
  RarityOf <- MCRarityOf
  HighDefinitions <- MCHighDefinitions
  BaseWeight <- MCBaseWeight
SPECIFICATION SelectionSpec
CHECK_DEADLOCK FALSE
INVARIANTS NoOverflow FoundAsDeclared RarityKeepsItsWeight DrawnAsDeclared
