\* Three connections and two edits against signals at every point.
SPECIFICATION FairSpec
CONSTANTS
  Peers = {p1, p2, p3}
  NoPeer = NoPeer
  backlog = 2
  MaxVersion = 2
INVARIANT TypeOK
PROPERTIES
  OnlyReloadDrops
  QuitHonoured
  NoReloadLost
