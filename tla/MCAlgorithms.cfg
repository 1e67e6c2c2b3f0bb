SPECIFICATION Algorithms
CONSTANTS
    Leaves = {"SQL"}
    Absent = Absent
    Text = Text
    MaxDepth = 2
    MaxNodes = 6
    BatchSize = 4
    Ids = {1, 2, 3}
    NoCursor = NoCursor
    LimitCount = 2
    MaxTime = 1
    Strings <- MCStrings
    Numbers <- MCNumbers
    MaxPieces = 2
    ExactDomains <- MCExact
    DomainSuffixes <- MCSuffixes
    LiteralHosts <- MCLiteralHosts
    Addresses <- MCAddresses
    FieldNames <- MCFieldNames
    NoName = NoName
    Lower <- MCLower
    DecodedName <- MCDecodedName
    Encoded <- MCEncoded
    Segments <- MCSegments
    Parsed <- MCParsed
    Decoded <- MCDecoded
    Requests <- MCRequests
CHECK_DEADLOCK FALSE
INVARIANTS
    GraphSurvives
    PagesAreComplete
    ValuesStayValues
    OnlyAllowedDestinations
    CredentialsArriveOnce
