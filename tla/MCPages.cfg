SPECIFICATION Spec
CONSTANTS
  i1 = i1
  i2 = i2
  good = good
  bad = bad
  Items <- MCItems
  Kind <- MCKind
  RunOf <- MCRunOf
  Rank <- MCRank
  Filters <- MCFilters
  All = "all"
  PageSize = 1
  Files <- MCFiles
  Valid <- MCValid
  Ending <- MCEnding
  MaxMs = 2
  MaxDead = 1
  MaxPosts = 1
PROPERTIES PagesTellTheTruth ChangesAppear
