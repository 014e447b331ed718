CONSTANTS
  Tokens <- MCTokens
  Mails <- MCMails
  MaxMails = 2
  blksize = 4
SPECIFICATION FairSpec
INVARIANTS
  BufferBounds
  NothingLost
  DeliveredAsMeant
  AnswersMatch
PROPERTIES
  WaitEnds
