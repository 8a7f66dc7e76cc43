\* Do maps comparing Equal always hash alike?
CONSTANTS
  Keys <- MCKeys
  Vals <- MCVals
  MaxListLen <- MCMaxListLen
SPECIFICATION SpecMaps
INVARIANT HashConsistentWithCmp
