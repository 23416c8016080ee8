SPECIFICATION Spec
CONSTANTS
  CellHeight = 2
  Height = 7
  Cols = 3
  LineMax = 3
  MaxEvents = 5
  MaxPending = 3
  SerialChars <- MCSerialChars
  EarlierText <- MCEarlierText
  Texts <- MCTexts
  CommandOutput <- MCCommandOutput
INVARIANTS KeysDecodeAsTyped EchoShowsLine ScreenIntact
