SPECIFICATION UrlsSpec
CONSTANTS
  Protocols <- MCProtocols
  Pieces <- MCPieces
  MaxPieces = 4
  Chars <- MCChars
  MaxChars = 2
INVARIANTS
  ParseAgrees
  KeyLeadsToEndpoint
  EncodedDataArrives
CHECK_DEADLOCK FALSE
