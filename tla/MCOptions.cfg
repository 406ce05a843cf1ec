SPECIFICATION Spec
CHECK_DEADLOCK FALSE
CONSTANTS
  Tokens <- TokenOrder
  Decimal <- DecimalValues
  Hexadecimal <- HexValues
  LowerCase <- Uppercase
  Orders <- TwoOrders
  Lines <- AllLines
  HexFormats <- Formats
INVARIANTS
  TypeOK
  LookupIsExact
  ParsedAsMeant
  SpecificEolWins
PROPERTIES
  ReadsAWord
  AllOrNothing
  ParsingAdvances
