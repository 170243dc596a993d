\* A client that waits for the answer to its Browser.close.
SPECIFICATION ProxySpec
INVARIANTS
    ReplaysAnnounced
