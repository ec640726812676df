SPECIFICATION MCSpec
CONSTANTS
    game = game
    game2 = game2
    plugin = plugin
    source = source
    asset = asset
    Dirs = {game, game2, plugin}
    Files = {source, asset}
    Prefixes <- MCPrefixes
    Dir <- MCDir
    Holders <- MCHolders
    Kind <- MCKind
    Requests = {r1}
    Workers = 2
    ChannelSize = 1
    MaxVersion <- MCMaxVersion
    Connections <- MCConnections
    None = None
    Pids = {p1, p2}
    IdleLimit = 2
CHECK_DEADLOCK FALSE
INVARIANTS
    SettledIsPresent
    ExitOverlooksOnlyNewcomers
PROPERTIES
    OnlyConnectionsGoBack
    WatchAnswered
    ServerExits
