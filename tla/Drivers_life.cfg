SPECIFICATION FairSpec
CONSTANTS
  Product = {"kvm", "docker", "fake"}
  Faults = {"crash", "lookup", "start", "volume", "guest"}
  MaxFaults = 4
INVARIANT TypeOK
INVARIANT OfferIsFresh
INVARIANT LeaksAreBounded
PROPERTY UsedIsReclaimed
PROPERTY Recovers
CHECK_DEADLOCK FALSE
