CONSTANTS
    Closers = {c1}
    Services = {s1}
    NoService = NoService
    NoGeneration = NoGeneration
    Configs <- NoHandshakerConfigs
    ServerCompressionLists <- MCServerCompressionLists

SPECIFICATION Spec

INVARIANT SocketMatchesState

\* connect, its listener and every close() call run to completion.
CHECK_DEADLOCK FALSE
