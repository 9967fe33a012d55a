\* A receiver that may be killed, a server that may end, three broadcasts.
CONSTANTS
  MAX_LEN = 9
  Arguments <- SomeArguments
  Posts <- SomePosts
  MaxPosts = 3
  MaxDown = 2
  MaxShown = 3
SPECIFICATION FairSpec
INVARIANTS
  TypeOK
  ShownInOrder
  ShownKeepsOrder
PROPERTIES
  LoginEnds
  EveryPostShown
