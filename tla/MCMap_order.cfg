\* Map ordering and hashing on maps without numeric ties.
CONSTANTS
  Keys <- MCKeys
  Vals <- MCVals
  MaxListLen <- MCMaxListLen
SPECIFICATION SpecMaps
INVARIANTS TypeOK CmpFollowsSpecOrder HashConsistentOnDistinctNumbers
