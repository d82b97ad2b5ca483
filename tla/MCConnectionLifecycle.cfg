CONSTANTS
    Closers = {c1, c2}
    Services = {s1}
    NoService = NoService
    NoGeneration = NoGeneration
    Configs <- HandshakeConfigs
    ServerCompressionLists <- MCServerCompressionLists

SPECIFICATION Spec

INVARIANT TypeOK
INVARIANT SocketMatchesState
INVARIANT GenerationMatchesService

PROPERTY ListenerExits
PROPERTY ImplementsConnectionState

\* connect, its listener and every close() call run to completion.
CHECK_DEADLOCK FALSE
