CONSTANTS
  Rarities <- MCRarities
  Files <- MCFiles
  Width = 256
  MaxDepth = 3
SPECIFICATION FairSpec
CHECK_DEADLOCK FALSE
INVARIANTS NearestSaysIt ListedAsDeclared
PROPERTIES SchemaIsRead
