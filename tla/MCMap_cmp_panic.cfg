\* Can comparing two maps panic?
CONSTANTS
  Keys <- MCKeys
  Vals <- MCVals
  MaxListLen <- MCMaxListLen
SPECIFICATION SpecMaps
INVARIANT CmpNeverPanics
