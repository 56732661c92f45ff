\* Two threads sharing one OCIClient, one CancelToken and one source.
CONSTANTS
    t1 = t1
    t2 = t2
    s1 = s1
    Client = Client
    Token = Token
    Threads <- MCThreads
    Sources <- MCSources
SPECIFICATION Spec
INVARIANT TokenNeverPassedFreed
