SPECIFICATION OffersSpec
CONSTANTS
  Groups = {g1}
  NoGroup = NoGroup
  Posts = {p1}
  NoPost = NoPost
  Objects = {o1, o2}
  NoObject = NoObject
  MaxNo = 2
  MaxFiles = 1
  PoolSizes = {1, 3}
  Calls = {c1, c2}
  NoCall = NoCall
  Authors = {u1, u2}
  NoAuthor = NoAuthor
  k1 = k1  k2 = k2
  Plants = {k1, k2}
  NoPlant = NoPlant
INVARIANTS OffersTypeOK RowHasObject ObjectsAccountedFor NoneWaitsForEver OfferedIsGranted
PROPERTIES ItemsAreOnlyRemoved CommentsJoinLivePosts
SYMMETRY Symmetry
