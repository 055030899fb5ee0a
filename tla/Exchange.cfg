SPECIFICATION Spec
CONSTANTS
  Base = 14
  UseCompression = TRUE
  Streams <- MCStreams
  Requests <- MCRequests
  Types <- MCTypes
  Depth <- MCDepth
  Replies <- MCReplies
  RowTypes <- MCRowTypes
  Warning <- MCWarning
INVARIANTS
  TypeOK
  FrameDelimited
  RequestUnderstood
  ReplyIsServers
  ReadsStayInside
  ErrorsSurface
  RowsComeBack
