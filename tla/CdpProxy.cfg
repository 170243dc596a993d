\* One client, one Chrome; every order of their ends, the flush and the close callbacks.
SPECIFICATION ProxySpec
INVARIANTS
    FlushedOnce
    AnswerComesLast
PROPERTIES
    HandlerEnds
