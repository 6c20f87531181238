CONSTANTS
  Characters <- SomeCharacters
  Configurable <- ManyEntries
  MaxConfigured = 4
  Mints <- FourMints
  LowerCase <- SomeLetters
  SymbolLetters <- SomeCapitals
  MaxString = 4
  MaxSymbol = 3
  MaxLabel = 11
  MaxChoices = 3
SPECIFICATION Spec
INVARIANTS
  EveryTokenCanBeChosen
  ChoicesTellTokensApart
  OnlySolLooksLikeSol
CHECK_DEADLOCK FALSE
