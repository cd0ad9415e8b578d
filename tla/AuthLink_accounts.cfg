SPECIFICATION LinkSpec
CONSTANTS
  MaxTries = 2
  MaxWishes = 1
  MaxForms = 2
  Offers <- MCOffers
  Choices <- MCChoices
  Callbacks = {{"begin", "submit"}}
  FirstWord <- MCFirstWord
  Split = {"ann lee"}
  Users = {"ann", "ann lee"}
  Passwords = {"p", "q"}
  MaxSessions = 2
  HostKeys = {"h"}
  MaxFaults = 1
  MaxNet = 1
  MaxLines = 0
INVARIANTS
  PromisesKept
PROPERTIES
  PasswordsKept
CHECK_DEADLOCK FALSE
