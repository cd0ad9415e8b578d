SPECIFICATION LinkFairSpec
CONSTANTS
  MaxTries = 2
  MaxWishes = 1
  MaxForms = 2
  Offers <- MCOffers
  Choices <- MCChoices
  Callbacks = {{"begin", "submit"}}
  FirstWord <- MCFirstWord
  Split = {"ann lee"}
  Users = {"ann"}
  Passwords = {"p", "q"}
  MaxSessions = 2
  HostKeys = {"h", "i"}
  MaxFaults = 1
  MaxNet = 1
  MaxLines = 1
INVARIANTS
  NothingDropped
  UpTogether
PROPERTIES
  LoginEnds
CHECK_DEADLOCK FALSE
