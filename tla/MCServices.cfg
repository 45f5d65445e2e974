CONSTANTS
  Limit <- MCLimit
  Strings <- MCStrings
  Read <- MCRead
  Decoded <- MCDecoded
  ApiVersion <- MCApiVersion
  Requests <- MCRequests
  Pushes <- MCPushes
  IoUrls <- MCIoUrls
  FileUrl <- MCFileUrl
  LogCalls <- MCLogCalls
  RegCalls <- MCRegCalls
  Lookups <- MCLookups
  Extensions <- MCExtensions
  HostValues <- MCHostValues
  Capacity = 3
  MaxCalls = 3
  MaxTakes = 1
  MaxWrites = 3
SPECIFICATION Spec
INVARIANTS
  TypeOK
  RecordTells
  WholeFileOrNothing
  FormattedIsLogged
  RegisteredIsFound
CHECK_DEADLOCK FALSE
