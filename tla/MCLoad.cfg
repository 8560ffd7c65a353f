CONSTANTS
  Names <- MCNames
  Services <- MCServices
  Defs <- MCDefs
  root <- MCroot
  Cases <- MCCases
SPECIFICATION LoadSpec
INVARIANTS
  TreeIsWhole
  ValidIsPlaced
  EntersAcyclic
  StartsAfterDependencies
  BlocksExactly
  
PROPERTY LoadEnds
CHECK_DEADLOCK FALSE
