\* Replies in one piece or two, in clear text and in TLS records.
SPECIFICATION FairSpec
CONSTANTS
  Rcpts = 2
  MaxMails = 2
  MaxNoops = 1
  Ssls = {"plain", "SSL", "TLS"}
  Splits = {TRUE, FALSE}
INVARIANTS
  SentIsTaken
  NothingLeftUnread
  SuccessIsTrue
  RecordsKeepRejections
PROPERTY MailEnds
