SPECIFICATION UrlsSpec
CONSTANTS
  Protocols <- MCProtocols
  Pieces <- MCPieces
  MaxPieces = 4
  Chars <- MCChars
  MaxChars = 2
INVARIANT AcceptedUrlHasTarget
CHECK_DEADLOCK FALSE
