\* Does from_list reject a list with a non-tuple element?
CONSTANTS
  Keys <- MCKeys
  Vals <- MCVals
  MaxListLen <- MCMaxListLen
SPECIFICATION SpecList
INVARIANT FromListFollowsSpec
