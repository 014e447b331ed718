\* A reply in two pieces hides the refusal of a recipient.
SPECIFICATION Spec
CONSTANTS
  Rcpts = 2
  MaxMails = 1
  MaxNoops = 1
  Ssls = {"plain"}
  Splits = {TRUE}
INVARIANT RejectionIsReported
