SPECIFICATION FairSpec
CONSTANTS
    query = query
    refresh = refresh
    bad = bad
    huge = huge
    Requests = {query, refresh, bad, huge}
    Malformed = {bad}
    Parallel = {refresh}
    Huge = {huge}
    MaxNotes = 2
    ChannelSize = 1
    SocketSize = 1
    Response = Response
    NoMessage = NoMessage
CHECK_DEADLOCK FALSE
INVARIANTS
    NoResponseLost
PROPERTIES
    ImplementsRpcExchange
    RequestAnswered
    HandlersEnd
