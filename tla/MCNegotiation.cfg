SPECIFICATION FairNegotiationSpec
CHECK_DEADLOCK FALSE
CONSTANTS
  Speakers = {"a", "b"}
  None = None
  Families = {"ipv4", "ipv6"}
  Configs <- Pairs
  Wide = {9}
  AsTrans = 5
  HoldMin = 3
  InitialSize = 13
  ExtendedSize = 19
  Batches <- Plenty
  Rounds = 1
  Header = 2
  PathId = 1
  ReachHeader = 1
  ShortAttribute = 4
INVARIANTS Agreed KnownAs Understood Carried
PROPERTIES Settled
