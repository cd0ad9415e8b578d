SPECIFICATION FairSpec
CONSTANTS
  MaxTries = 2
  MaxWishes = 2
  MaxForms = 2
  Offers <- MCOffers
  Choices <- MCChoices
  Callbacks = {{}, {"begin", "submit"}, {"begin", "submit", "resume"}}
INVARIANTS
    Agreement
    Accounted
    GuessesBounded
    RegisteredIsReal
PROPERTIES
    Concludes
    Informed
CHECK_DEADLOCK FALSE
