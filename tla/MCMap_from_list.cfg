\* from_list on lists of tuples.
CONSTANTS
  Keys <- MCKeys
  Vals <- MCVals
  MaxListLen <- MCMaxListLen
SPECIFICATION SpecList
INVARIANT FromListOnTuplesFollowsSpec
