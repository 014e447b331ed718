CONSTANTS
  Clients = {c1}
  Files <- MCFiles
  Sections = {"a", "b"}
  Plain = {"host"}
  Checked = {"ssl"}
  ItemLen <- MCItemLen
  HeadLens = {1, 2}
  maxlen = 9
  MaxReloads = 1
SPECIFICATION FairSpec
INVARIANTS
  InForceAsAsked
  NoUseAfterFree
  ReportWhole
PROPERTY NobodyStuck
