SPECIFICATION RetSpec
CONSTANTS
  claret = claret
  rioja = rioja
  rose = rose
  gin = gin
  beef = beef
  fish = fish
  dessert = dessert
  Unknown = Unknown
  Products = {claret, rioja, rose, gin}
  Level1 <- MCLevel1
  Level2 <- MCLevel2
  Tags <- MCTags
  Body <- MCBody
  Spirits = {gin}
  Columns <- MCColumns
  Smoke <- MCSmoke
  Symbols = {beef, fish, dessert}
  Heavy = {beef}
  Light = {fish}
  SpiritFriendly = {dessert}
  Keywords <- MCKeywords
  Texts <- MCTexts
  Hints = {{}, {fish}}
  Mins = {0, 30}
  Limits = {1, 3}
  Pool = 2
  PerPick = 1
  InjectN = 1
  HighAt = 2
INVARIANTS
  RetTypeOK
  PicksAreSpread
  AnswerFits
  ConfidenceIsHonest
  NoLexicalLuck
  ShownAsAsked
