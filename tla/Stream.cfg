\* Streams of up to four lines through a channel of one.
CONSTANTS
  Texts <- MCTexts
  Lines <- MCLines
  ValidArgs <- MCValidArgs
  MaxBytes = 4
  ChanCap = 1
  MaxLines = 4
SPECIFICATION FairSpec
CHECK_DEADLOCK FALSE
INVARIANTS OnlyWholeStreams BlocksRebuildCalls
PROPERTY BothReturn
