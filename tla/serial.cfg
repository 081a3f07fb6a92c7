SPECIFICATION LinkSpec
CONSTANTS
  RX_BUFFER_SIZE = 2
  TX_BUFFER_SIZE = 2
  RxByte = {"char", "eol"}
  TxByte = {"ok", "report", "welcome"}
  Limits <- SmallLimits
  OvrRefresh = {2}
  WcoRefresh = {2}
  HostCommands <- FeedDown
  LineLengths = {1, 2}
INVARIANTS
  TransmitSafe
  NothingDropped
  AnsweredOnce
  OverridesReported
PROPERTIES
  RingsAreQueues
  RaisedOnlyWhenAsked
  WriteEnds
