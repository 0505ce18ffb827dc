CONSTANTS
    r0 = r0
    r1 = r1
    w0 = w0
    w1 = w1
    Clients <- MCClients
    Workers <- MCWorkers
    HeaderLen = 1
    BodyLen = 1
    Configs <- MCConfigs
    Root = r0
SPECIFICATION Spec
INVARIANTS
    CleanExchangeSucceeds
    TypeOK
    NoTaskStranded
    OneWriterPerSocket
    SuccessMeansSent
    LastWordsExact
    SocketsOutliveWorkers
PROPERTIES
    ImplementsExchange
    ExchangeEnds
